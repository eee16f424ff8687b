------------------------------ MODULE Renderer ------------------------------
(***************************************************************************)
(* One renderer process (wallpaper/app.rs, wallpaper/mod.rs): a            *)
(* single-threaded loop whose handlers run on events of the compositor, of *)
(* GameMode and of the daemon, and which reports to the daemon after each  *)
(* dispatch.  The compositor is external; its toplevel events come in      *)
(* batches that end in `done', and batches of several windows interleave.  *)
(* The model is of a release build (draw() has a debug_assert).            *)
(***************************************************************************)
EXTENDS Naturals

CONSTANTS
  Toplevels,     \* windows
  Outputs,       \* screens
  Videos,        \* video paths and URLs
  States,        \* window states the compositor may send together
  PauseOn,       \* pausing.on_fullscreen, pausing.on_maximized
  ZeroSizeFirst, \* may the compositor's first configure leave the size open?
  NoOutput       \* the output is not known

ASSUME RendererAssumption ==
  /\ States \subseteq SUBSET {"fullscreen", "maximized", "activated"}
  /\ {} \in States
  /\ PauseOn \subseteq {"fullscreen", "maximized"}
  /\ ZeroSizeFirst \in BOOLEAN
  /\ NoOutput \notin Outputs

Reasons == {"manual", "hidden", "screen_off", "gamemode"}

VARIABLES
  first_configure,  \* no configure has been handled
  window,           \* the EGL window exists (and so the size is known)
  frame_scheduled,  \* the code's note that a frame callback is outstanding
  callbacks,        \* frame callbacks outstanding at the compositor
  ready,            \* the first frame has reached the screen
  ready_reported,   \* and the daemon has been told
  reasons,          \* manual_pause, hidden, screen_off, gamemode_active
  playing,          \* the backend is not paused
  output,           \* the output the surface is on
  power,            \* the output whose power object we hold
  toplevels,        \* the windows known, with their states and outputs
  unsettled,        \* windows in the middle of a batch
  video,            \* path the backend plays
  status_dirty,     \* something to report changed
  reported,         \* last status sent
  handled,          \* has this dispatch run a handler?
  exit,             \* the loop is to end
  running           \* it has not

drawVars == <<window, frame_scheduled, callbacks, ready>>
pauseVars == <<reasons, playing>>
windowVars == <<toplevels, unsettled>>
loopVars == <<ready_reported, reported, running>>
vars == <<first_configure, drawVars, pauseVars, output, power, windowVars, video,
          status_dirty, handled, exit, loopVars>>

ToplevelState == [states : States, outputs : SUBSET Outputs]
Open == DOMAIN toplevels

(* The fields of State that the renderer fills in. *)
Status == [reasons |-> reasons, output |-> output, video |-> video]

TypeOK ==
  /\ first_configure \in BOOLEAN /\ window \in BOOLEAN /\ frame_scheduled \in BOOLEAN
  /\ ready \in BOOLEAN /\ ready_reported \in BOOLEAN /\ playing \in BOOLEAN
  /\ status_dirty \in BOOLEAN /\ handled \in BOOLEAN /\ exit \in BOOLEAN
  /\ running \in BOOLEAN
  /\ callbacks \in Nat
  /\ reasons \subseteq Reasons
  /\ {output, power} \subseteq Outputs \cup {NoOutput}
  /\ Open \subseteq Toplevels
  /\ toplevels \in [Open -> ToplevelState]
  /\ unsettled \subseteq Open
  /\ video \in Videos
  /\ reported \in [reasons : SUBSET Reasons, output : Outputs \cup {NoOutput},
                   video : Videos]

Init ==
  /\ first_configure = TRUE
  /\ window = FALSE /\ frame_scheduled = FALSE /\ callbacks = 0 /\ ready = FALSE
  /\ reasons = {} /\ playing = TRUE
  /\ output = NoOutput /\ power = NoOutput
  /\ toplevels = <<>> /\ unsettled = {}
  /\ video \in Videos
  /\ status_dirty = TRUE /\ reported = Status
  /\ handled = FALSE /\ exit = FALSE /\ running = TRUE
  /\ ready_reported = FALSE

-----------------------------------------------------------------------------
(* Helpers of App, as updates.  `paused' is should_pause() at the time. *)

(* Mutant of Draws: nothing is drawn while paused. *)
DrawsUnpaused(paused) == ~paused

(* draw(): the first frame goes up even while paused, later ones do not,   *)
(* and only a drawn frame asks for the next callback.  The caller says     *)
(* what is scheduled and outstanding before.                               *)
Draws(paused) == ~(paused /\ ready)

Draw(paused, scheduled, outstanding) ==
  IF Draws(paused)
  THEN frame_scheduled' = TRUE /\ callbacks' = outstanding + 1 /\ ready' = TRUE
  ELSE frame_scheduled' = scheduled /\ callbacks' = outstanding /\ ready' = ready

(* Mutants of RestartsLoop: on resume, never draw, or draw in any case. *)
RestartsNever == FALSE
RestartsAlways == window

(* apply_pause_edge(): restart the frame loop a pause has stopped. *)
RestartsLoop == window /\ ~frame_scheduled

ApplyPauseEdge(paused) ==
  /\ playing' = ~paused
  /\ IF ~paused /\ RestartsLoop
     THEN Draw(paused, frame_scheduled, callbacks)
     ELSE UNCHANGED <<frame_scheduled, callbacks, ready>>

(* Mutant of SetReason: when one reason goes, playback goes on. *)
SetReasonAlone(reason, on, changed) ==
  IF on = (reason \in reasons)
  THEN /\ status_dirty' = (status_dirty \/ changed)
       /\ UNCHANGED <<pauseVars, drawVars>>
  ELSE /\ reasons' = IF on THEN reasons \cup {reason} ELSE reasons \ {reason}
       /\ ApplyPauseEdge(on)
       /\ status_dirty' = TRUE
       /\ UNCHANGED window

(* set_hidden(), set_screen_off(), set_gamemode(), set_manual_pause(); for *)
(* the status, `changed' tells whether the caller changed something else.  *)
SetReason(reason, on, changed) ==
  IF on = (reason \in reasons)
  THEN /\ status_dirty' = (status_dirty \/ changed)
       /\ UNCHANGED <<pauseVars, drawVars>>
  ELSE /\ reasons' = IF on THEN reasons \cup {reason} ELSE reasons \ {reason}
       /\ ApplyPauseEdge(reasons' # {})
       /\ status_dirty' = TRUE
       /\ UNCHANGED window

(* ToplevelState::to_hide() and recompute_hidden(), after the update of    *)
(* the output and of the windows.                                          *)
ToHide(t, ours) ==
  ours \in t.outputs /\ "activated" \in t.states /\ t.states \cap PauseOn # {}

RecomputeHidden(changed) ==
  SetReason("hidden", \E t \in DOMAIN toplevels' : ToHide(toplevels'[t], output'), changed)

Handles == running /\ handled' = TRUE

-----------------------------------------------------------------------------
(* Events of the compositor. *)

(* configure(); a size of zero leaves the choice to us, and none is made. *)
Configure(sized) ==
  /\ Handles
  /\ sized \/ ~first_configure \/ ZeroSizeFirst
  /\ window' = (window \/ sized)
  /\ first_configure' = FALSE
  /\ IF first_configure /\ window'
     THEN Draw(reasons # {}, frame_scheduled, callbacks)
     ELSE UNCHANGED <<frame_scheduled, callbacks, ready>>
  /\ status_dirty' = (status_dirty \/ sized \/ ready' # ready)
  /\ UNCHANGED <<pauseVars, output, power, windowVars, video, exit, loopVars>>

(* The frame callback. *)
Frame ==
  /\ Handles
  /\ callbacks > 0
  /\ Draw(reasons # {}, FALSE, callbacks - 1)
  /\ status_dirty' = (status_dirty \/ ready' # ready)
  /\ UNCHANGED <<first_configure, window, pauseVars, output, power, windowVars, video,
                 exit, loopVars>>

(* Mutant of SurfaceEnter: the new output is not news for the daemon. *)
SurfaceEnterQuietly(o) ==
  /\ Handles
  /\ output' = o
  /\ power' = IF output # o THEN o ELSE power
  /\ UNCHANGED windowVars
  /\ RecomputeHidden(FALSE)
  /\ UNCHANGED <<first_configure, video, exit, loopVars>>

(* surface_enter(), with the power manager bound. *)
SurfaceEnter(o) ==
  /\ Handles
  /\ output' = o
  /\ power' = IF output # o THEN o ELSE power
  /\ UNCHANGED windowVars
  /\ RecomputeHidden(TRUE)
  /\ UNCHANGED <<first_configure, video, exit, loopVars>>

(* update_output(): apply_size(), once we have a size. *)
UpdateOutput ==
  /\ Handles
  /\ status_dirty' = (status_dirty \/ (output # NoOutput /\ window))
  /\ UNCHANGED <<first_configure, drawVars, pauseVars, output, power, windowVars, video,
                 exit, loopVars>>

(* The guard is the compositor's: a mode is reported of an object we have  *)
(* asked for, and none after Failed.  What the object of the old output    *)
(* had sent before a move destroyed it may still come; by then another is  *)
(* held, so that is among these steps, too.                                *)
PowerMode(on) ==
  /\ Handles
  /\ power # NoOutput
  /\ SetReason("screen_off", ~on, FALSE)
  /\ UNCHANGED <<first_configure, output, power, windowVars, video, exit, loopVars>>

(* Mutant of PowerFailed: the power object goes, its last mode stays. *)
PowerFailedKeepsMode ==
  /\ Handles
  /\ power # NoOutput
  /\ power' = NoOutput
  /\ UNCHANGED <<first_configure, drawVars, pauseVars, output, windowVars, video,
                 status_dirty, exit, loopVars>>

PowerFailed ==
  /\ Handles
  /\ power # NoOutput
  /\ power' = NoOutput
  /\ SetReason("screen_off", FALSE, FALSE)
  /\ UNCHANGED <<first_configure, output, windowVars, video, exit, loopVars>>

(* Mutant of DefaultState: a new window is taken to be on our output. *)
StateOnOurOutput == [states |-> {}, outputs |-> {output}]

DefaultState == [states |-> {}, outputs |-> {}]

(* The manager's `toplevel' event: a new window, its batch to follow. *)
NewToplevel(t) ==
  /\ Handles
  /\ t \notin Open
  /\ toplevels' = [u \in Open \cup {t} |->
                     IF u = t THEN DefaultState ELSE toplevels[u]]
  /\ unsettled' = unsettled \cup {t}
  /\ UNCHANGED <<first_configure, drawVars, pauseVars, output, power, video,
                 status_dirty, exit, loopVars>>

(* `state', `output_enter' and `output_leave': part of a batch. *)
ToplevelChanges(t) ==
  /\ Handles
  /\ t \in Open
  /\ \/ \E s \in States : toplevels' = [toplevels EXCEPT ![t].states = s]
     \/ \E o \in Outputs : toplevels' = [toplevels EXCEPT ![t].outputs = @ \cup {o}]
     \/ \E o \in Outputs : toplevels' = [toplevels EXCEPT ![t].outputs = @ \ {o}]
  /\ unsettled' = unsettled \cup {t}
  /\ UNCHANGED <<first_configure, drawVars, pauseVars, output, power, video,
                 status_dirty, exit, loopVars>>

ToplevelDone(t) ==
  /\ Handles
  /\ t \in unsettled
  /\ unsettled' = unsettled \ {t}
  /\ UNCHANGED <<toplevels, output>>
  /\ RecomputeHidden(FALSE)
  /\ UNCHANGED <<first_configure, power, video, exit, loopVars>>

(* Mutant of ToplevelClosed: a window that closes may still hide us. *)
ToplevelClosedStaysHidden(t) ==
  /\ Handles
  /\ t \in Open
  /\ toplevels' = [u \in Open \ {t} |-> toplevels[u]]
  /\ unsettled' = unsettled \ {t}
  /\ UNCHANGED <<first_configure, drawVars, pauseVars, output, power, video,
                 status_dirty, exit, loopVars>>

ToplevelClosed(t) ==
  /\ Handles
  /\ t \in Open
  /\ toplevels' = [u \in Open \ {t} |-> toplevels[u]]
  /\ unsettled' = unsettled \ {t}
  /\ UNCHANGED output
  /\ RecomputeHidden(FALSE)
  /\ UNCHANGED <<first_configure, power, video, exit, loopVars>>

-----------------------------------------------------------------------------
(* Messages of the GameMode watcher and of the daemon. *)

Gamemode(active) ==
  /\ Handles
  /\ SetReason("gamemode", active, FALSE)
  /\ UNCHANGED <<first_configure, output, power, windowVars, video, exit, loopVars>>

ManualPause(paused) ==
  /\ Handles
  /\ SetReason("manual", paused, FALSE)
  /\ UNCHANGED <<first_configure, output, power, windowVars, video, exit, loopVars>>

(* set_video() of a file that exists, under mpv; an error changes nothing. *)
SetVideo(v) ==
  /\ Handles
  /\ video' = v
  /\ status_dirty' = TRUE
  /\ UNCHANGED <<first_configure, drawVars, pauseVars, output, power, windowVars, exit,
                 loopVars>>

(* Quit, the end of stdin, or closed(): the layer surface is gone. *)
AskExit ==
  /\ Handles
  /\ exit' = TRUE
  /\ UNCHANGED <<first_configure, drawVars, pauseVars, output, power, windowVars, video,
                 status_dirty, loopVars>>

-----------------------------------------------------------------------------
(* Mutant of Report: a renderer that is to leave reports nothing more. *)
ReportUnlessLeaving ==
  /\ running /\ handled
  /\ running' = ~exit
  /\ IF exit THEN UNCHANGED <<ready_reported, reported, status_dirty>>
     ELSE /\ ready_reported' = ready
          /\ reported' = IF status_dirty THEN Status ELSE reported
          /\ status_dirty' = FALSE
  /\ handled' = FALSE
  /\ UNCHANGED <<first_configure, drawVars, pauseVars, output, power, windowVars, video,
                 exit>>

(* The end of one turn of run()'s loop: take_ready(), take_status(). *)
Report ==
  /\ running /\ handled
  /\ ready_reported' = ready
  /\ reported' = IF status_dirty THEN Status ELSE reported
  /\ status_dirty' = FALSE
  /\ running' = ~exit
  /\ handled' = FALSE
  /\ UNCHANGED <<first_configure, drawVars, pauseVars, output, power, windowVars, video,
                 exit>>

Compositor ==
  \/ \E sized \in BOOLEAN : Configure(sized)
  \/ Frame
  \/ \E o \in Outputs : SurfaceEnter(o)
  \/ UpdateOutput
  \/ \E on \in BOOLEAN : PowerMode(on)
  \/ PowerFailed
  \/ \E t \in Toplevels :
       NewToplevel(t) \/ ToplevelChanges(t) \/ ToplevelDone(t) \/ ToplevelClosed(t)

Others ==
  \/ \E b \in BOOLEAN : Gamemode(b) \/ ManualPause(b)
  \/ \E v \in Videos : SetVideo(v)
  \/ AskExit

Next == Compositor \/ Others \/ Report

(* The loop goes round; nothing is assumed of the others. *)
Fairness == WF_vars(Report)

Spec == Init /\ [][Next]_vars
FairSpec == Spec /\ Fairness

-----------------------------------------------------------------------------
(* Properties *)

(* The wallpaper never freezes: whatever paused it and in whatever order   *)
(* the reasons came and went, with none left a frame callback is           *)
(* outstanding.                                                            *)
FrameLoopAlive == window /\ reasons = {} => frame_scheduled

(* No second frame loop is started beside the first: frame_scheduled tells *)
(* the truth about the one callback that can be outstanding.               *)
OneFrameLoop == callbacks = IF frame_scheduled THEN 1 ELSE 0

(* "Always get one frame up, even when starting paused" (app.rs:402): the  *)
(* daemon waits for it before it retires the renderer this one replaces.   *)
FirstFrameUp == window => ready

(* The renderer implements FrameLoop: backend and frame loop pause and go  *)
(* on together, and whatever order the reasons come and go in relative to  *)
(* frame callbacks, the surface coming up included, each resume finds or   *)
(* starts exactly one loop.                                                *)
F == INSTANCE FrameLoop WITH
  up     <- window,
  paused <- ~playing,
  shown  <- ready,
  asked  <- (callbacks = 1)

ImplementsFrameLoop == F!Spec

(* Between batches, `hidden' says what the windows say, whatever order the *)
(* windows, their closing and our own output became known in.              *)
HiddenUpToDate ==
  unsettled = {} =>
    ("hidden" \in reasons <=> \E t \in Open : ToHide(toplevels[t], output))

(* Playback is not stuck on a screen-off nobody will take back.            *)
ScreenOffTracked == "screen_off" \in reasons => power # NoOutput

(* What the daemon caches for `query' is current after every dispatch.     *)
StatusReported == ~handled /\ ready => reported = Status

(* The daemon hears of the first frame, unless the renderer has stopped.   *)
ReadyHeard == ready ~> ready_reported

(* Only after `done' is a window's state consistent enough to act on       *)
(* (app.rs:749-750).                                                       *)
HidesOnlyWhenSettled ==
  [][reasons' \ reasons = {"hidden"} =>
       \E t \in (Open \ unsettled)' : ToHide(toplevels'[t], output')]_vars
=============================================================================
