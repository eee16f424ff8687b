---------------------------- MODULE MCSocketBind ----------------------------
(* Instances of SocketBind for TLC. *)
EXTENDS SocketBind, TLC

CONSTANTS d1, d2, d3, d4
=============================================================================
