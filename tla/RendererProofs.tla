--------------------------- MODULE RendererProofs ---------------------------
(***************************************************************************)
(* Proofs about Renderer, for any windows, outputs and videos.             *)
(***************************************************************************)
EXTENDS Renderer, TLAPS

USE RendererAssumption DEF RendererAssumption

-----------------------------------------------------------------------------
(* Type correctness. *)

(* The variables SetReason() may change. *)
FrameType ==
  /\ window \in BOOLEAN /\ frame_scheduled \in BOOLEAN /\ ready \in BOOLEAN
  /\ playing \in BOOLEAN /\ status_dirty \in BOOLEAN
  /\ callbacks \in Nat
  /\ reasons \subseteq Reasons

LEMMA DrawType ==
  ASSUME NEW paused \in BOOLEAN, NEW scheduled \in BOOLEAN, NEW outstanding \in Nat,
         ready \in BOOLEAN, Draw(paused, scheduled, outstanding)
  PROVE  frame_scheduled' \in BOOLEAN /\ callbacks' \in Nat /\ ready' \in BOOLEAN
<1>1. CASE Draws(paused)
  <2>1. frame_scheduled' = TRUE /\ callbacks' = outstanding + 1 /\ ready' = TRUE
    BY <1>1 DEF Draw
  <2>2. callbacks' \in Nat
    BY <2>1
  <2> QED BY <2>1, <2>2
<1>2. CASE ~Draws(paused)
  <2>1. frame_scheduled' = scheduled /\ callbacks' = outstanding /\ ready' = ready
    BY <1>2 DEF Draw
  <2> QED BY <2>1
<1> QED BY <1>1, <1>2

LEMMA ApplyPauseEdgeType ==
  ASSUME FrameType, NEW paused \in BOOLEAN, ApplyPauseEdge(paused)
  PROVE  /\ frame_scheduled' \in BOOLEAN /\ callbacks' \in Nat /\ ready' \in BOOLEAN
         /\ playing' \in BOOLEAN
<1>1. playing' \in BOOLEAN
  BY DEF ApplyPauseEdge
<1>2. CASE Draw(paused, frame_scheduled, callbacks)
  BY <1>1, <1>2, DrawType DEF FrameType
<1>3. CASE UNCHANGED <<frame_scheduled, callbacks, ready>>
  BY <1>1, <1>3 DEF FrameType
<1> QED BY <1>2, <1>3 DEF ApplyPauseEdge

LEMMA SetReasonType ==
  ASSUME FrameType, NEW reason \in Reasons, NEW on \in BOOLEAN, NEW changed \in BOOLEAN,
         SetReason(reason, on, changed)
  PROVE  FrameType'
<1>1. CASE on = (reason \in reasons)
  BY <1>1 DEF SetReason, FrameType, pauseVars, drawVars
<1>2. CASE on # (reason \in reasons)
  <2>1. /\ reasons' \subseteq Reasons /\ status_dirty' = TRUE /\ window' = window
        /\ ApplyPauseEdge(reasons' # {})
    BY <1>2 DEF SetReason, FrameType
  <2>2. (reasons' # {}) \in BOOLEAN
    OBVIOUS
  <2> QED BY <2>1, <2>2, ApplyPauseEdgeType DEF FrameType
<1> QED BY <1>1, <1>2

LEMMA RecomputeHiddenType ==
  ASSUME FrameType, NEW changed \in BOOLEAN, RecomputeHidden(changed)
  PROVE  FrameType'
<1>1. "hidden" \in Reasons
  BY DEF Reasons
<1> QED BY <1>1, SetReasonType DEF RecomputeHidden

(* The other variables. *)
RestType ==
  /\ first_configure \in BOOLEAN /\ ready_reported \in BOOLEAN /\ handled \in BOOLEAN
  /\ exit \in BOOLEAN /\ running \in BOOLEAN
  /\ {output, power} \subseteq Outputs \cup {NoOutput}
  /\ Open \subseteq Toplevels
  /\ toplevels \in [Open -> ToplevelState]
  /\ unsettled \subseteq Open
  /\ video \in Videos
  /\ reported \in [reasons : SUBSET Reasons, output : Outputs \cup {NoOutput},
                   video : Videos]

LEMMA TypeSplit == TypeOK <=> FrameType /\ RestType
BY DEF TypeOK, FrameType, RestType

LEMMA DrawKeepsFrameType ==
  ASSUME FrameType, NEW scheduled \in BOOLEAN, NEW outstanding \in Nat,
         Draw(reasons # {}, scheduled, outstanding)
  PROVE  frame_scheduled' \in BOOLEAN /\ callbacks' \in Nat /\ ready' \in BOOLEAN
<1>1. (reasons # {}) \in BOOLEAN
  OBVIOUS
<1> QED BY <1>1, DrawType DEF FrameType

LEMMA ConfigureType ==
  ASSUME TypeOK, NEW sized \in BOOLEAN, Configure(sized)
  PROVE  TypeOK'
<1>1. FrameType /\ RestType
  BY TypeSplit
<1>2. frame_scheduled' \in BOOLEAN /\ callbacks' \in Nat /\ ready' \in BOOLEAN
  <2>1. CASE Draw(reasons # {}, frame_scheduled, callbacks)
    BY <1>1, <2>1, DrawKeepsFrameType DEF FrameType
  <2>2. CASE UNCHANGED <<frame_scheduled, callbacks, ready>>
    BY <1>1, <2>2 DEF FrameType
  <2> QED BY <2>1, <2>2 DEF Configure
<1>3. window' \in BOOLEAN /\ status_dirty' \in BOOLEAN
  BY DEF Configure
<1>4. FrameType'
  BY <1>1, <1>2, <1>3 DEF Configure, FrameType, pauseVars
<1>5. RestType'
  BY <1>1 DEF Configure, Handles, RestType, windowVars, loopVars, Open
<1> QED BY <1>4, <1>5, TypeSplit DEF TypeOK, FrameType, RestType

LEMMA FrameEventType ==
  ASSUME TypeOK, Frame
  PROVE  TypeOK'
<1>1. FrameType /\ RestType
  BY TypeSplit
<1>2. frame_scheduled' \in BOOLEAN /\ callbacks' \in Nat /\ ready' \in BOOLEAN
  <2>1. callbacks - 1 \in Nat
    BY <1>1 DEF Frame, FrameType
  <2> QED BY <1>1, <2>1, DrawKeepsFrameType DEF Frame
<1>3. status_dirty' \in BOOLEAN
  BY DEF Frame
<1>4. FrameType'
  BY <1>1, <1>2, <1>3 DEF Frame, FrameType, pauseVars
<1>5. RestType'
  BY <1>1 DEF Frame, Handles, RestType, windowVars, loopVars, Open
<1> QED BY <1>4, <1>5 DEF TypeOK, FrameType, RestType

LEMMA StepType == TypeOK /\ [Next]_vars => TypeOK'
<1> SUFFICES ASSUME TypeOK, [Next]_vars PROVE TypeOK'
  OBVIOUS
<1>a. FrameType /\ RestType
  BY TypeSplit
<1>b. ASSUME FrameType', RestType' PROVE TypeOK'
  BY <1>b DEF TypeOK, FrameType, RestType
<1>c. {"manual", "hidden", "screen_off", "gamemode"} \subseteq Reasons
  BY DEF Reasons
<1> USE DEF Handles, pauseVars, drawVars, windowVars, loopVars, Open
<1>1. ASSUME NEW sized \in BOOLEAN, Configure(sized)
      PROVE  TypeOK'
  BY <1>1, ConfigureType
<1>2. CASE Frame
  BY <1>2, FrameEventType
<1>3. ASSUME NEW o \in Outputs, SurfaceEnter(o)
      PROVE  TypeOK'
  <2>1. FrameType'
    BY <1>3, <1>a, RecomputeHiddenType DEF SurfaceEnter
  <2>2. RestType'
    BY <1>3, <1>a DEF SurfaceEnter, RestType
  <2> QED BY <1>b, <2>1, <2>2
<1>4. CASE UpdateOutput
  BY <1>4 DEF UpdateOutput, TypeOK
<1>5. ASSUME NEW on \in BOOLEAN, PowerMode(on)
      PROVE  TypeOK'
  BY <1>5, <1>a, <1>c, SetReasonType DEF PowerMode, TypeOK, FrameType
<1>6. CASE PowerFailed
  <2>1. FrameType'
    BY <1>6, <1>a, <1>c, SetReasonType DEF PowerFailed
  <2>2. RestType'
    BY <1>6, <1>a DEF PowerFailed, RestType
  <2> QED BY <1>b, <2>1, <2>2
<1>7. ASSUME NEW t \in Toplevels, NewToplevel(t)
      PROVE  TypeOK'
  <2>1. toplevels' \in [Open \cup {t} -> ToplevelState]
    BY <1>7 DEF NewToplevel, DefaultState, ToplevelState, TypeOK
  <2> QED BY <1>7, <2>1 DEF NewToplevel, TypeOK
<1>8. ASSUME NEW t \in Toplevels, ToplevelChanges(t)
      PROVE  TypeOK'
  <2>1. ASSUME NEW s \in ToplevelState, NEW st \in States
        PROVE  [s EXCEPT !.states = st] \in ToplevelState
    BY DEF ToplevelState
  <2>2. ASSUME NEW s \in ToplevelState, NEW o \in Outputs
        PROVE  /\ [s EXCEPT !.outputs = @ \cup {o}] \in ToplevelState
               /\ [s EXCEPT !.outputs = @ \ {o}] \in ToplevelState
    BY DEF ToplevelState
  <2>3. toplevels[t] \in ToplevelState
    BY <1>8 DEF ToplevelChanges, TypeOK
  <2>4. ASSUME NEW s \in ToplevelState, toplevels' = [toplevels EXCEPT ![t] = s]
        PROVE  toplevels' \in [Open -> ToplevelState]
    BY <1>8, <2>4 DEF ToplevelChanges, TypeOK
  <2>5. toplevels' \in [Open -> ToplevelState]
    <3>1. CASE \E st \in States : toplevels' = [toplevels EXCEPT ![t].states = st]
      BY <2>1, <2>3, <2>4, <3>1, Zenon
    <3>2. CASE \E o \in Outputs : toplevels' = [toplevels EXCEPT ![t].outputs = @ \cup {o}]
      BY <2>2, <2>3, <2>4, <3>2, Zenon
    <3>3. CASE \E o \in Outputs : toplevels' = [toplevels EXCEPT ![t].outputs = @ \ {o}]
      BY <2>2, <2>3, <2>4, <3>3, Zenon
    <3> QED BY <1>8, <3>1, <3>2, <3>3 DEF ToplevelChanges
  <2> QED BY <1>8, <2>5 DEF ToplevelChanges, TypeOK
<1>9. ASSUME NEW t \in Toplevels, ToplevelDone(t)
      PROVE  TypeOK'
  <2>1. FrameType'
    BY <1>9, <1>a, RecomputeHiddenType DEF ToplevelDone
  <2>2. RestType'
    BY <1>9, <1>a DEF ToplevelDone, RestType
  <2> QED BY <1>b, <2>1, <2>2
<1>10. ASSUME NEW t \in Toplevels, ToplevelClosed(t)
       PROVE  TypeOK'
  <2>1. FrameType'
    BY <1>10, <1>a, RecomputeHiddenType DEF ToplevelClosed
  <2>2. toplevels' \in [Open \ {t} -> ToplevelState]
    BY <1>10 DEF ToplevelClosed, TypeOK
  <2>3. RestType'
    BY <1>10, <1>a, <2>2 DEF ToplevelClosed, RestType
  <2> QED BY <1>b, <2>1, <2>3
<1>11. ASSUME NEW b \in BOOLEAN, Gamemode(b) \/ ManualPause(b)
       PROVE  TypeOK'
  <2>1. FrameType'
    <3>1. CASE Gamemode(b)
      BY <3>1, <1>a, <1>c, SetReasonType DEF Gamemode
    <3>2. CASE ManualPause(b)
      BY <3>2, <1>a, <1>c, SetReasonType DEF ManualPause
    <3> QED BY <1>11, <3>1, <3>2
  <2>2. RestType'
    BY <1>11, <1>a DEF Gamemode, ManualPause, RestType
  <2> QED BY <1>b, <2>1, <2>2
<1>12. ASSUME NEW v \in Videos, SetVideo(v)
       PROVE  TypeOK'
  BY <1>12 DEF SetVideo, TypeOK
<1>13. CASE AskExit
  BY <1>13 DEF AskExit, TypeOK
<1>14. CASE Report
  BY <1>14 DEF Report, Status, TypeOK
<1>15. CASE UNCHANGED vars
  BY <1>15 DEF vars, TypeOK
<1> QED
  BY <1>1, <1>2, <1>3, <1>4, <1>5, <1>6, <1>7, <1>8, <1>9, <1>10, <1>11, <1>12, <1>13,
     <1>14, <1>15
  DEF Next, Compositor, Others

LEMMA InitType == Init => TypeOK
<1> SUFFICES ASSUME Init PROVE TypeOK
  OBVIOUS
<1>1. FrameType
  BY DEF Init, FrameType
<1>2. Open = {} /\ toplevels \in [Open -> ToplevelState]
  BY DEF Init, Open
<1>3. reported \in [reasons : SUBSET Reasons, output : Outputs \cup {NoOutput},
                   video : Videos]
  BY DEF Init, Status
<1>4. RestType
  BY <1>2, <1>3 DEF Init, RestType
<1> QED BY <1>1, <1>4, TypeSplit

(* The renderer's variables have their types in every reachable state: for *)
(* one, no event leaves the state of a window the compositor has closed.   *)
THEOREM TypeCorrect == Spec => []TypeOK
BY InitType, StepType, PTL DEF Spec
-----------------------------------------------------------------------------
(* The frame loop. *)

(* The strengthening: the window appears with the first configure, which   *)
(* draws; before it no frame is asked for.                                 *)
LoopInv ==
  /\ first_configure <=> ~window
  /\ ~window => ~frame_scheduled
  /\ OneFrameLoop
  /\ FirstFrameUp
  /\ FrameLoopAlive

LEMMA DrawDraws ==
  ASSUME NEW paused \in BOOLEAN, NEW scheduled, NEW outstanding,
         Draw(paused, scheduled, outstanding), ready \in BOOLEAN
  PROVE  \/ /\ frame_scheduled' = TRUE /\ callbacks' = outstanding + 1 /\ ready' = TRUE
         \/ /\ paused /\ ready
            /\ frame_scheduled' = scheduled /\ callbacks' = outstanding /\ ready' = ready
BY DEF Draw, Draws

LEMMA SetReasonLoop ==
  ASSUME FrameType, LoopInv, NEW reason \in Reasons, NEW on \in BOOLEAN,
         NEW changed \in BOOLEAN, SetReason(reason, on, changed),
         first_configure' = first_configure
  PROVE  LoopInv'
<1> USE DEF LoopInv, OneFrameLoop, FirstFrameUp, FrameLoopAlive
<1>1. CASE on = (reason \in reasons)
  BY <1>1 DEF SetReason, pauseVars, drawVars
<1>2. CASE on # (reason \in reasons)
  <2>1. window' = window /\ ApplyPauseEdge(reasons' # {})
    BY <1>2 DEF SetReason
  <2>2. (reasons' # {}) \in BOOLEAN
    OBVIOUS
  <2>3. CASE reasons' = {} /\ window /\ ~frame_scheduled
    <3>1. Draw(reasons' # {}, frame_scheduled, callbacks)
      BY <2>1, <2>3 DEF ApplyPauseEdge, RestartsLoop
    <3>2. frame_scheduled' = TRUE /\ callbacks' = callbacks + 1 /\ ready' = TRUE
      BY <2>2, <2>3, <3>1, DrawDraws DEF FrameType
    <3> QED BY <2>1, <2>3, <3>2
  <2>4. CASE ~(reasons' = {} /\ window /\ ~frame_scheduled)
    <3>1. UNCHANGED <<frame_scheduled, callbacks, ready>>
      BY <2>1, <2>4 DEF ApplyPauseEdge, RestartsLoop
    <3> QED BY <2>1, <2>4, <3>1
  <2> QED BY <2>3, <2>4
<1> QED BY <1>1, <1>2

LEMMA RecomputeHiddenLoop ==
  ASSUME FrameType, LoopInv, NEW changed \in BOOLEAN, RecomputeHidden(changed),
         first_configure' = first_configure
  PROVE  LoopInv'
<1>1. "hidden" \in Reasons
  BY DEF Reasons
<1> QED BY <1>1, SetReasonLoop DEF RecomputeHidden

LEMMA ConfigureLoop ==
  ASSUME ZeroSizeFirst = FALSE, TypeOK, LoopInv, NEW sized \in BOOLEAN, Configure(sized)
  PROVE  LoopInv'
<1> USE DEF LoopInv, OneFrameLoop, FirstFrameUp, FrameLoopAlive
<1>1. reasons' = reasons /\ first_configure' = FALSE /\ window' = TRUE
  BY DEF Configure, pauseVars, TypeOK
<1>2. CASE first_configure
  <2>1. Draw(reasons # {}, frame_scheduled, callbacks) /\ (reasons # {}) \in BOOLEAN
    BY <1>1, <1>2 DEF Configure
  <2>2. frame_scheduled = FALSE /\ callbacks = 0
    BY <1>2 DEF TypeOK
  <2>3. CASE Draws(reasons # {})
    <3>1. frame_scheduled' = TRUE /\ callbacks' = callbacks + 1 /\ ready' = TRUE
      BY <2>1, <2>3 DEF Draw
    <3> QED BY <1>1, <2>2, <3>1
  <2>4. CASE ~Draws(reasons # {})
    <3>1. UNCHANGED <<frame_scheduled, callbacks, ready>> /\ reasons # {} /\ ready
      BY <2>1, <2>4 DEF Draw, Draws
    <3> QED BY <1>1, <2>2, <3>1
  <2> QED BY <2>3, <2>4
<1>3. CASE ~first_configure
  <2>1. UNCHANGED <<frame_scheduled, callbacks, ready>> /\ window
    BY <1>3 DEF Configure
  <2> QED BY <1>1, <1>3, <2>1
<1> QED BY <1>2, <1>3

LEMMA FrameEventLoop ==
  ASSUME TypeOK, LoopInv, Frame
  PROVE  LoopInv'
<1> USE DEF LoopInv, OneFrameLoop, FirstFrameUp, FrameLoopAlive
<1>1. reasons' = reasons /\ first_configure' = first_configure /\ window' = window
  BY DEF Frame, pauseVars
<1>2. callbacks - 1 = 0 /\ window
  BY DEF Frame, TypeOK
<1>3. Draw(reasons # {}, FALSE, callbacks - 1) /\ (reasons # {}) \in BOOLEAN
  BY DEF Frame
<1>4. CASE Draws(reasons # {})
  <2>1. frame_scheduled' = TRUE /\ callbacks' = (callbacks - 1) + 1 /\ ready' = TRUE
    BY <1>3, <1>4 DEF Draw
  <2> QED BY <1>1, <1>2, <2>1
<1>5. CASE ~Draws(reasons # {})
  <2>1. /\ frame_scheduled' = FALSE /\ callbacks' = callbacks - 1 /\ ready' = ready
        /\ reasons # {} /\ ready
    BY <1>3, <1>5 DEF Draw, Draws
  <2> QED BY <1>1, <1>2, <2>1
<1> QED BY <1>4, <1>5

LEMMA StepLoop ==
  ASSUME ZeroSizeFirst = FALSE, TypeOK, LoopInv, [Next]_vars
  PROVE  LoopInv'
<1>a. FrameType
  BY TypeSplit
<1>b. {"manual", "hidden", "screen_off", "gamemode"} \subseteq Reasons
  BY DEF Reasons
<1>c. ASSUME UNCHANGED <<first_configure, drawVars, pauseVars>> PROVE LoopInv'
  BY <1>c DEF LoopInv, OneFrameLoop, FirstFrameUp, FrameLoopAlive, drawVars, pauseVars
<1>1. ASSUME NEW sized \in BOOLEAN, Configure(sized)
      PROVE  LoopInv'
  BY <1>1, ConfigureLoop
<1>2. CASE Frame
  BY <1>2, FrameEventLoop
<1>3. ASSUME NEW o \in Outputs, SurfaceEnter(o)
      PROVE  LoopInv'
  BY <1>3, <1>a, RecomputeHiddenLoop DEF SurfaceEnter
<1>4. CASE UpdateOutput
  BY <1>4, <1>c DEF UpdateOutput
<1>5. ASSUME NEW on \in BOOLEAN, PowerMode(on)
      PROVE  LoopInv'
  BY <1>5, <1>a, <1>b, SetReasonLoop DEF PowerMode
<1>6. CASE PowerFailed
  BY <1>6, <1>a, <1>b, SetReasonLoop DEF PowerFailed
<1>7. ASSUME NEW t \in Toplevels, NewToplevel(t)
      PROVE  LoopInv'
  BY <1>7, <1>c DEF NewToplevel
<1>8. ASSUME NEW t \in Toplevels, ToplevelChanges(t)
      PROVE  LoopInv'
  BY <1>8, <1>c DEF ToplevelChanges
<1>9. ASSUME NEW t \in Toplevels, ToplevelDone(t)
      PROVE  LoopInv'
  BY <1>9, <1>a, RecomputeHiddenLoop DEF ToplevelDone
<1>10. ASSUME NEW t \in Toplevels, ToplevelClosed(t)
       PROVE  LoopInv'
  BY <1>10, <1>a, RecomputeHiddenLoop DEF ToplevelClosed
<1>11. ASSUME NEW b \in BOOLEAN, Gamemode(b)
       PROVE  LoopInv'
  BY <1>11, <1>a, <1>b, SetReasonLoop DEF Gamemode
<1>12. ASSUME NEW b \in BOOLEAN, ManualPause(b)
       PROVE  LoopInv'
  BY <1>12, <1>a, <1>b, SetReasonLoop DEF ManualPause
<1>13. ASSUME NEW v \in Videos, SetVideo(v)
       PROVE  LoopInv'
  BY <1>13, <1>c DEF SetVideo
<1>14. CASE AskExit
  BY <1>14, <1>c DEF AskExit
<1>15. CASE Report
  BY <1>15, <1>c DEF Report
<1>16. CASE UNCHANGED vars
  BY <1>16, <1>c DEF vars
<1> QED
  BY <1>1, <1>2, <1>3, <1>4, <1>5, <1>6, <1>7, <1>8, <1>9, <1>10, <1>11, <1>12, <1>13,
     <1>14, <1>15, <1>16
  DEF Next, Compositor, Others

LEMMA LoopInvHolds ==
  ASSUME ZeroSizeFirst = FALSE
  PROVE  Spec => []LoopInv
<1>1. Init => LoopInv
  BY DEF Init, LoopInv, OneFrameLoop, FirstFrameUp, FrameLoopAlive
<1>2. TypeOK /\ LoopInv /\ [Next]_vars => LoopInv'
  BY StepLoop
<1> QED BY <1>1, <1>2, TypeCorrect, PTL DEF Spec

(* For a compositor that gives the surface its size at once: the wallpaper *)
(* never freezes while nothing pauses it, whatever windows, screens, games *)
(* and clients do and in whatever order.                                   *)
THEOREM FrameLoopAliveHolds ==
  ASSUME ZeroSizeFirst = FALSE
  PROVE  Spec => []FrameLoopAlive
<1>1. LoopInv => FrameLoopAlive
  BY DEF LoopInv
<1> QED BY <1>1, LoopInvHolds, PTL

(* Nor does a resume ever start a second frame loop.                       *)
THEOREM OneFrameLoopHolds ==
  ASSUME ZeroSizeFirst = FALSE
  PROVE  Spec => []OneFrameLoop
<1>1. LoopInv => OneFrameLoop
  BY DEF LoopInv
<1> QED BY <1>1, LoopInvHolds, PTL

(* One frame goes up, paused or not.                                       *)
THEOREM FirstFrameUpHolds ==
  ASSUME ZeroSizeFirst = FALSE
  PROVE  Spec => []FirstFrameUp
<1>1. LoopInv => FirstFrameUp
  BY DEF LoopInv
<1> QED BY <1>1, LoopInvHolds, PTL

-----------------------------------------------------------------------------
(* The renderer implements FrameLoop.  The invariant adds to LoopInv that  *)
(* the backend plays exactly if there is no reason against it, and that    *)
(* nothing is drawn before there is a window.                              *)

PlayInv ==
  /\ playing <=> reasons = {}
  /\ ready => window

frameVars == <<window, ~playing, ready, callbacks = 1>>

Looped == PlayInv' /\ [F!Next]_frameVars

LEMMA SetReasonLooped ==
  ASSUME FrameType, LoopInv, PlayInv, NEW reason \in Reasons, NEW on \in BOOLEAN,
         NEW changed \in BOOLEAN, SetReason(reason, on, changed)
  PROVE  Looped
<1> USE DEF FrameType, LoopInv, OneFrameLoop, FirstFrameUp, PlayInv
<1>1. CASE on = (reason \in reasons)
  <2>1. UNCHANGED <<reasons, playing, window, ready, callbacks>>
    BY <1>1 DEF SetReason, pauseVars, drawVars
  <2> QED BY <2>1 DEF Looped, frameVars
<1>2. CASE on # (reason \in reasons)
  <2>1. /\ window' = window /\ ApplyPauseEdge(reasons' # {})
        /\ reasons' # reasons /\ (reasons' # {}) \in BOOLEAN
    BY <1>2 DEF SetReason
  <2>2. playing' \in BOOLEAN /\ (playing' <=> reasons' = {})
    BY <2>1 DEF ApplyPauseEdge
  <2>3. /\ ready' = ready
        /\ callbacks' = IF reasons' = {} /\ RestartsLoop THEN callbacks + 1 ELSE callbacks
    <3>1. CASE reasons' = {} /\ RestartsLoop
      <4>1. Draw(reasons' # {}, frame_scheduled, callbacks)
        BY <2>1, <3>1 DEF ApplyPauseEdge
      <4>2. callbacks' = callbacks + 1 /\ ready' = TRUE
        BY <2>1, <3>1, <4>1, DrawDraws
      <4> QED BY <3>1, <4>2 DEF RestartsLoop
    <3>2. CASE ~(reasons' = {} /\ RestartsLoop)
      BY <2>1, <3>2 DEF ApplyPauseEdge
    <3> QED BY <3>1, <3>2
  <2>4. PlayInv'
    BY <2>1, <2>2, <2>3
  <2>5. CASE reasons' = {}
    <3>1. ~playing /\ playing'
      BY <2>1, <2>2, <2>5
    <3>2. callbacks' = 1 <=> window
      BY <2>3, <2>5 DEF RestartsLoop
    <3>3. F!Resume
      BY <2>1, <2>3, <3>1, <3>2 DEF F!Resume
    <3> QED BY <2>4, <3>3 DEF Looped, F!Next
  <2>6. CASE reasons' # {}
    <3>1. UNCHANGED <<window, ready, callbacks>> /\ ~playing'
      BY <2>1, <2>2, <2>3, <2>6
    <3>2. CASE playing
      <4>1. F!Pause
        BY <3>1, <3>2 DEF F!Pause
      <4> QED BY <2>4, <4>1 DEF Looped, F!Next
    <3>3. CASE ~playing
      BY <2>4, <3>1, <3>3 DEF Looped, frameVars
    <3> QED BY <3>2, <3>3
  <2> QED BY <2>5, <2>6
<1> QED BY <1>1, <1>2

LEMMA RecomputeHiddenLooped ==
  ASSUME FrameType, LoopInv, PlayInv, NEW changed \in BOOLEAN, RecomputeHidden(changed)
  PROVE  Looped
<1>1. "hidden" \in Reasons
  BY DEF Reasons
<1> QED BY <1>1, SetReasonLooped DEF RecomputeHidden

LEMMA ConfigureLooped ==
  ASSUME ZeroSizeFirst = FALSE, TypeOK, LoopInv, PlayInv, NEW sized \in BOOLEAN,
         Configure(sized)
  PROVE  Looped
<1> USE DEF TypeOK, LoopInv, OneFrameLoop, FirstFrameUp, PlayInv
<1>1. UNCHANGED <<reasons, playing>> /\ window' = TRUE
  BY DEF Configure, pauseVars
<1>2. CASE first_configure
  <2>1. ~window /\ ~ready /\ callbacks = 0
    BY <1>2
  <2>2. Draw(reasons # {}, frame_scheduled, callbacks) /\ (reasons # {}) \in BOOLEAN
    BY <1>1, <1>2 DEF Configure
  <2>3. ready' = TRUE /\ callbacks' = 1
    BY <2>1, <2>2 DEF Draw, Draws
  <2>4. F!Appear
    BY <1>1, <2>1, <2>3 DEF F!Appear
  <2>5. PlayInv'
    BY <1>1, <2>3
  <2> QED BY <2>4, <2>5 DEF Looped, F!Next
<1>3. CASE ~first_configure
  <2>1. UNCHANGED <<callbacks, ready>> /\ window
    BY <1>3 DEF Configure
  <2> QED BY <1>1, <2>1 DEF Looped, frameVars
<1> QED BY <1>2, <1>3

LEMMA FrameEventLooped ==
  ASSUME TypeOK, LoopInv, PlayInv, Frame
  PROVE  Looped
<1> USE DEF TypeOK, LoopInv, OneFrameLoop, FirstFrameUp, PlayInv
<1>1. UNCHANGED <<reasons, playing, window>>
  BY DEF Frame, pauseVars
<1>2. callbacks = 1 /\ callbacks - 1 = 0 /\ window /\ ready
  BY DEF Frame
<1>3. Draw(reasons # {}, FALSE, callbacks - 1) /\ (reasons # {}) \in BOOLEAN
  BY DEF Frame
<1>4. ready' = ready /\ (callbacks' = 1 \/ (callbacks' = 0 /\ reasons # {}))
  <2>1. CASE Draws(reasons # {})
    <3>1. callbacks' = (callbacks - 1) + 1 /\ ready' = TRUE
      BY <1>3, <2>1 DEF Draw
    <3> QED BY <1>2, <3>1
  <2>2. CASE ~Draws(reasons # {})
    <3>1. callbacks' = callbacks - 1 /\ ready' = ready /\ reasons # {}
      BY <1>3, <2>2 DEF Draw, Draws
    <3> QED BY <1>2, <3>1
  <2> QED BY <2>1, <2>2
<1>5. PlayInv'
  BY <1>1, <1>4
<1>6. CASE callbacks' = 1
  BY <1>1, <1>2, <1>4, <1>5, <1>6 DEF Looped, frameVars
<1>7. CASE callbacks' = 0 /\ reasons # {}
  <2>1. F!Rest
    BY <1>1, <1>2, <1>4, <1>7 DEF F!Rest
  <2> QED BY <1>5, <2>1 DEF Looped, F!Next
<1> QED BY <1>4, <1>6, <1>7

LEMMA StepLooped ==
  ASSUME ZeroSizeFirst = FALSE, TypeOK, LoopInv, PlayInv, [Next]_vars
  PROVE  Looped
<1>a. FrameType
  BY TypeSplit
<1>b. {"manual", "hidden", "screen_off", "gamemode"} \subseteq Reasons
  BY DEF Reasons
<1>c. ASSUME UNCHANGED <<drawVars, pauseVars>> PROVE Looped
  BY <1>c DEF Looped, PlayInv, frameVars, drawVars, pauseVars
<1>1. ASSUME NEW sized \in BOOLEAN, Configure(sized)
      PROVE  Looped
  BY <1>1, ConfigureLooped
<1>2. CASE Frame
  BY <1>2, FrameEventLooped
<1>3. ASSUME NEW o \in Outputs, SurfaceEnter(o)
      PROVE  Looped
  BY <1>3, <1>a, RecomputeHiddenLooped DEF SurfaceEnter
<1>4. CASE UpdateOutput
  BY <1>4, <1>c DEF UpdateOutput
<1>5. ASSUME NEW on \in BOOLEAN, PowerMode(on)
      PROVE  Looped
  BY <1>5, <1>a, <1>b, SetReasonLooped DEF PowerMode
<1>6. CASE PowerFailed
  BY <1>6, <1>a, <1>b, SetReasonLooped DEF PowerFailed
<1>7. ASSUME NEW t \in Toplevels, NewToplevel(t) \/ ToplevelChanges(t)
      PROVE  Looped
  BY <1>7, <1>c DEF NewToplevel, ToplevelChanges
<1>8. ASSUME NEW t \in Toplevels, ToplevelDone(t) \/ ToplevelClosed(t)
      PROVE  Looped
  BY <1>8, <1>a, RecomputeHiddenLooped DEF ToplevelDone, ToplevelClosed
<1>9. ASSUME NEW b \in BOOLEAN, Gamemode(b) \/ ManualPause(b)
      PROVE  Looped
  BY <1>9, <1>a, <1>b, SetReasonLooped DEF Gamemode, ManualPause
<1>10. ASSUME NEW v \in Videos, SetVideo(v)
       PROVE  Looped
  BY <1>10, <1>c DEF SetVideo
<1>11. CASE AskExit \/ Report
  BY <1>11, <1>c DEF AskExit, Report
<1>12. CASE UNCHANGED vars
  BY <1>12, <1>c DEF vars
<1> QED
  BY <1>1, <1>2, <1>3, <1>4, <1>5, <1>6, <1>7, <1>8, <1>9, <1>10, <1>11, <1>12
  DEF Next, Compositor, Others

(* For a compositor that gives the surface its size at once, the renderer  *)
(* implements FrameLoop: whatever pauses it, in whatever order and between *)
(* whatever frames, backend and frame loop pause and go on together.       *)
THEOREM ImplementsFrameLoopHolds ==
  ASSUME ZeroSizeFirst = FALSE
  PROVE  Spec => ImplementsFrameLoop
<1>1. Init => F!Init /\ PlayInv
  BY DEF Init, F!Init, PlayInv
<1>2. TypeOK /\ LoopInv /\ PlayInv /\ [Next]_vars
        => PlayInv' /\ [F!Next]_<<window, ~playing, ready, callbacks = 1>>
  BY StepLooped DEF Looped, frameVars
<1> QED
  BY <1>1, <1>2, LoopInvHolds, TypeCorrect, PTL DEF Spec, ImplementsFrameLoop, F!Spec

-----------------------------------------------------------------------------
(* The reasons to pause. *)

LEMMA SetReasonSets ==
  ASSUME NEW reason, NEW on \in BOOLEAN, NEW changed, SetReason(reason, on, changed)
  PROVE  /\ reason \in reasons' <=> on
         /\ \A r : r # reason => (r \in reasons' <=> r \in reasons)
<1>1. CASE on = (reason \in reasons)
  BY <1>1 DEF SetReason, pauseVars
<1>2. CASE on # (reason \in reasons)
  <2>1. reasons' = IF on THEN reasons \cup {reason} ELSE reasons \ {reason}
    BY <1>2 DEF SetReason
  <2> QED BY <2>1
<1> QED BY <1>1, <1>2

LEMMA RecomputeHiddenSets ==
  ASSUME NEW changed, RecomputeHidden(changed)
  PROVE  /\ "hidden" \in reasons' <=> \E t \in Open' : ToHide(toplevels'[t], output')
         /\ \A r : r # "hidden" => (r \in reasons' <=> r \in reasons)
<1>1. (\E t \in DOMAIN toplevels' : ToHide(toplevels'[t], output')) \in BOOLEAN
  OBVIOUS
<1> QED BY <1>1, SetReasonSets DEF RecomputeHidden, Open

LEMMA StepReasons ==
  ASSUME TypeOK, HiddenUpToDate, ScreenOffTracked, [Next]_vars
  PROVE  HiddenUpToDate' /\ ScreenOffTracked'
<1> USE DEF HiddenUpToDate, ScreenOffTracked, windowVars, pauseVars, Open
<1>a. ASSUME UNCHANGED <<reasons, toplevels, unsettled, output, power>>
      PROVE  HiddenUpToDate' /\ ScreenOffTracked'
  BY <1>a
<1>1. ASSUME NEW sized \in BOOLEAN, Configure(sized)
      PROVE  HiddenUpToDate' /\ ScreenOffTracked'
  BY <1>1, <1>a DEF Configure
<1>2. CASE Frame
  BY <1>2, <1>a DEF Frame
<1>3. ASSUME NEW o \in Outputs, SurfaceEnter(o)
      PROVE  HiddenUpToDate' /\ ScreenOffTracked'
  <2>1. /\ "hidden" \in reasons' <=> \E t \in Open' : ToHide(toplevels'[t], output')
        /\ "screen_off" \in reasons' <=> "screen_off" \in reasons
    BY <1>3, RecomputeHiddenSets DEF SurfaceEnter
  <2>2. power' # NoOutput \/ power' = power
    BY <1>3, RendererAssumption DEF SurfaceEnter
  <2> QED BY <2>1, <2>2
<1>4. CASE UpdateOutput
  BY <1>4, <1>a DEF UpdateOutput
<1>5. ASSUME NEW on \in BOOLEAN, PowerMode(on)
      PROVE  HiddenUpToDate' /\ ScreenOffTracked'
  <2>1. "hidden" \in reasons' <=> "hidden" \in reasons
    BY <1>5, SetReasonSets DEF PowerMode
  <2> QED BY <1>5, <2>1 DEF PowerMode
<1>6. CASE PowerFailed
  <2>1. reasons' = reasons \ {"screen_off"}
    BY <1>6 DEF PowerFailed, SetReason
  <2> QED BY <1>6, <2>1 DEF PowerFailed
<1>7. ASSUME NEW t \in Toplevels, NewToplevel(t) \/ ToplevelChanges(t)
      PROVE  HiddenUpToDate' /\ ScreenOffTracked'
  <2>1. unsettled' # {} /\ reasons' = reasons /\ power' = power
    BY <1>7 DEF NewToplevel, ToplevelChanges
  <2> QED BY <2>1
<1>8. ASSUME NEW t \in Toplevels, ToplevelDone(t) \/ ToplevelClosed(t)
      PROVE  HiddenUpToDate' /\ ScreenOffTracked'
  <2>1. RecomputeHidden(FALSE) /\ power' = power
    BY <1>8 DEF ToplevelDone, ToplevelClosed
  <2>2. /\ "hidden" \in reasons' <=> \E u \in Open' : ToHide(toplevels'[u], output')
        /\ "screen_off" \in reasons' <=> "screen_off" \in reasons
    BY <2>1, RecomputeHiddenSets
  <2> QED BY <2>1, <2>2
<1>9. ASSUME NEW b \in BOOLEAN, Gamemode(b)
      PROVE  HiddenUpToDate' /\ ScreenOffTracked'
  <2>1. reasons' \in {reasons, reasons \cup {"gamemode"}, reasons \ {"gamemode"}}
    BY <1>9 DEF Gamemode, SetReason
  <2> QED BY <1>9, <2>1 DEF Gamemode
<1>10. ASSUME NEW b \in BOOLEAN, ManualPause(b)
       PROVE  HiddenUpToDate' /\ ScreenOffTracked'
  <2>1. reasons' \in {reasons, reasons \cup {"manual"}, reasons \ {"manual"}}
    BY <1>10 DEF ManualPause, SetReason
  <2> QED BY <1>10, <2>1 DEF ManualPause
<1>11. ASSUME NEW v \in Videos, SetVideo(v)
       PROVE  HiddenUpToDate' /\ ScreenOffTracked'
  BY <1>11, <1>a DEF SetVideo
<1>12. CASE AskExit
  BY <1>12, <1>a DEF AskExit
<1>13. CASE Report
  BY <1>13, <1>a DEF Report
<1>14. CASE UNCHANGED vars
  BY <1>14, <1>a DEF vars
<1> QED
  BY <1>1, <1>2, <1>3, <1>4, <1>5, <1>6, <1>7, <1>8, <1>9, <1>10, <1>11, <1>12, <1>13,
     <1>14
  DEF Next, Compositor, Others

LEMMA InitReasons == Init => HiddenUpToDate /\ ScreenOffTracked
<1> SUFFICES ASSUME Init PROVE HiddenUpToDate /\ ScreenOffTracked
  OBVIOUS
<1>1. Open = {} /\ reasons = {}
  BY DEF Init, Open
<1> QED BY <1>1 DEF HiddenUpToDate, ScreenOffTracked

(* Whenever no batch is under way, we are paused as hidden exactly if some *)
(* window covers our output, for any number of windows and screens.        *)
THEOREM HiddenUpToDateHolds == Spec => []HiddenUpToDate
<1>1. TypeOK /\ (HiddenUpToDate /\ ScreenOffTracked) /\ [Next]_vars
      => (HiddenUpToDate /\ ScreenOffTracked)'
  BY StepReasons
<1> QED BY <1>1, InitReasons, TypeCorrect, PTL DEF Spec

(* A pause for a screen that is off can always be taken back: the object   *)
(* that reports it is still there.                                         *)
THEOREM ScreenOffTrackedHolds == Spec => []ScreenOffTracked
<1>1. TypeOK /\ (HiddenUpToDate /\ ScreenOffTracked) /\ [Next]_vars
      => (HiddenUpToDate /\ ScreenOffTracked)'
  BY StepReasons
<1> QED BY <1>1, InitReasons, TypeCorrect, PTL DEF Spec
-----------------------------------------------------------------------------
(* What the daemon caches.  Within a turn of the loop the last report may  *)
(* be old, but then the renderer knows it.                                 *)

StatusInv ==
  /\ ~status_dirty => reported = Status
  /\ ~handled => reported = Status

(* A handler leaves the status alone, or notes that it has not. *)
LEMMA NotedStatus ==
  ASSUME StatusInv, handled' = TRUE, reported' = reported,
         status_dirty' \/ (status_dirty' = status_dirty /\ Status' = Status)
  PROVE  StatusInv'
BY DEF StatusInv

LEMMA SetReasonStatus ==
  ASSUME StatusInv, handled' = TRUE, reported' = reported, NEW reason, NEW on, NEW changed,
         SetReason(reason, on, changed), changed \/ UNCHANGED <<output, video>>,
         TypeOK, changed \in BOOLEAN
  PROVE  StatusInv'
<1>1. CASE on = (reason \in reasons)
  <2>1. CASE changed
    BY <1>1, <2>1, NotedStatus DEF SetReason
  <2>2. CASE ~changed
    <3>1. status_dirty' = status_dirty /\ reasons' = reasons
      BY <1>1, <2>2 DEF SetReason, pauseVars, TypeOK
    <3> QED BY <2>2, <3>1, NotedStatus DEF Status
  <2> QED BY <2>1, <2>2
<1>2. CASE on # (reason \in reasons)
  BY <1>2, NotedStatus DEF SetReason
<1> QED BY <1>1, <1>2

LEMMA StepStatus ==
  ASSUME TypeOK, StatusInv, [Next]_vars
  PROVE  StatusInv'
<1> USE DEF Handles, loopVars
<1>1. ASSUME NEW sized \in BOOLEAN, Configure(sized)
      PROVE  StatusInv'
  <2>1. Status' = Status /\ handled' = TRUE /\ reported' = reported
    BY <1>1 DEF Configure, Status, pauseVars
  <2>2. status_dirty' \in BOOLEAN /\ (status_dirty => status_dirty')
    BY <1>1 DEF Configure, TypeOK
  <2> QED BY <2>1, <2>2 DEF StatusInv
<1>2. CASE Frame
  <2>1. Status' = Status /\ handled' = TRUE /\ reported' = reported
    BY <1>2 DEF Frame, Status, pauseVars
  <2>2. status_dirty' \in BOOLEAN /\ (status_dirty => status_dirty')
    BY <1>2 DEF Frame, TypeOK
  <2> QED BY <2>1, <2>2 DEF StatusInv
<1>3. ASSUME NEW o \in Outputs, SurfaceEnter(o)
      PROVE  StatusInv'
  BY <1>3, SetReasonStatus DEF SurfaceEnter, RecomputeHidden
<1>4. CASE UpdateOutput
  <2>1. Status' = Status /\ handled' = TRUE /\ reported' = reported
    BY <1>4 DEF UpdateOutput, Status, pauseVars
  <2>2. status_dirty' \in BOOLEAN /\ (status_dirty => status_dirty')
    BY <1>4 DEF UpdateOutput, TypeOK
  <2> QED BY <2>1, <2>2 DEF StatusInv
<1>5. ASSUME NEW on \in BOOLEAN, PowerMode(on)
      PROVE  StatusInv'
  BY <1>5, SetReasonStatus DEF PowerMode
<1>6. CASE PowerFailed
  BY <1>6, SetReasonStatus DEF PowerFailed
<1>7. ASSUME NEW t \in Toplevels, NewToplevel(t) \/ ToplevelChanges(t)
      PROVE  StatusInv'
  BY <1>7, NotedStatus DEF NewToplevel, ToplevelChanges, Status, pauseVars
<1>8. ASSUME NEW t \in Toplevels, ToplevelDone(t) \/ ToplevelClosed(t)
      PROVE  StatusInv'
  BY <1>8, SetReasonStatus DEF ToplevelDone, ToplevelClosed, RecomputeHidden
<1>9. ASSUME NEW b \in BOOLEAN, Gamemode(b) \/ ManualPause(b)
      PROVE  StatusInv'
  BY <1>9, SetReasonStatus DEF Gamemode, ManualPause
<1>10. ASSUME NEW v \in Videos, SetVideo(v)
       PROVE  StatusInv'
  BY <1>10, NotedStatus DEF SetVideo
<1>11. CASE AskExit
  BY <1>11, NotedStatus DEF AskExit, Status, pauseVars
<1>12. CASE Report
  <2>1. Status' = Status
    BY <1>12 DEF Report, Status, pauseVars
  <2>2. reported' = Status
    BY <1>12 DEF Report, StatusInv
  <2> QED BY <2>1, <2>2 DEF StatusInv
<1>13. CASE UNCHANGED vars
  BY <1>13 DEF vars, StatusInv, Status, pauseVars
<1> QED
  BY <1>1, <1>2, <1>3, <1>4, <1>5, <1>6, <1>7, <1>8, <1>9, <1>10, <1>11, <1>12, <1>13
  DEF Next, Compositor, Others

(* Whatever events a dispatch handled and in whatever order, when it is    *)
(* over the daemon has been sent what is true.                             *)
THEOREM StatusReportedHolds == Spec => []StatusReported
<1>1. Init => StatusInv
  BY DEF Init, StatusInv
<1>2. TypeOK /\ StatusInv /\ [Next]_vars => StatusInv'
  BY StepStatus
<1>3. StatusInv => StatusReported
  BY DEF StatusInv, StatusReported
<1> QED BY <1>1, <1>2, <1>3, TypeCorrect, PTL DEF Spec
=============================================================================
