----------------------------- MODULE MCRenderer -----------------------------
(* Instances of Renderer for TLC. *)
EXTENDS Renderer, TLC

CONSTANTS t1, t2, o1, o2, v1, v2

FullscreenStates == {{}, {"fullscreen"}, {"fullscreen", "activated"}}

Interchangeable == Permutations({t1, t2})
=============================================================================
