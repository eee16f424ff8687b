------------------------------ MODULE FrameLoop ------------------------------
(***************************************************************************)
(* What a renderer promises about its frames, without the windows, screens,*)
(* games and clients that pause it.  The surface comes up with a frame on  *)
(* it.  From then on a frame callback is on its way whenever the backend   *)
(* plays; a paused renderer lets the one on its way come and asks for no   *)
(* other.  A frame drawn while playing asks for the next at once, which is *)
(* no step here.                                                           *)
(***************************************************************************)
VARIABLES
  up,       \* the surface exists
  paused,   \* the backend does not play
  shown,    \* a frame has been drawn
  asked     \* one frame callback is on its way

Init == up = FALSE /\ paused = FALSE /\ shown = FALSE /\ asked = FALSE

(* The first frame, also of a renderer that starts paused.                 *)
Appear ==
  /\ ~up
  /\ up' = TRUE /\ shown' = TRUE /\ asked' = TRUE
  /\ UNCHANGED paused

Pause ==
  /\ ~paused
  /\ paused' = TRUE
  /\ UNCHANGED <<up, shown, asked>>

(* A loop that has come to rest is started again.                          *)
Resume ==
  /\ paused
  /\ paused' = FALSE
  /\ asked' = up
  /\ UNCHANGED <<up, shown>>

Rest ==
  /\ paused /\ asked
  /\ asked' = FALSE
  /\ UNCHANGED <<up, paused, shown>>

Next == Appear \/ Pause \/ Resume \/ Rest

Spec == Init /\ [][Next]_<<up, paused, shown, asked>>
=============================================================================
