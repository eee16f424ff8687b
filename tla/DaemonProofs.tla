---------------------------- MODULE DaemonProofs ----------------------------
(***************************************************************************)
(* Proofs about Daemon, for any number of renderers, of crashes before it  *)
(* gives up, and of configs and videos.                                    *)
(***************************************************************************)
EXTENDS Daemon, TLAPS

USE ChildAssumption, DaemonAssumption DEF ChildAssumption, DaemonAssumption, AfterTick

ConfigType == [struct : Structs, live : Lives, path : Videos \cup {NoPath},
               limit : BOOLEAN, auto : BOOLEAN]

-----------------------------------------------------------------------------
(* What the shared operators do to the types. *)

LEMMA ReportedType ==
  ASSUME ChildTypeOK, NEW c \in ChildId \cup {None}, NEW msg \in {"ready", "gone"}
  PROVE  Reported(c, msg) \in [ChildId -> Seq({"ready", "gone"})]
<1>1. CASE c \in reading
  BY <1>1 DEF Reported, ChildTypeOK
<1>2. CASE c \notin reading
  BY <1>2 DEF Reported, ChildTypeOK
<1> QED BY <1>1, <1>2

LEMMA KillChildType ==
  ASSUME ChildTypeOK, NEW c \in ChildId \cup {None}, KillChild(c)
  PROVE  ChildTypeOK'
BY ReportedType DEF KillChild, ChildTypeOK, ProcState, Dead

LEMMA SpawnOkType ==
  ASSUME TypeOK, NEW cfg \in ConfigType, NEW dropped, SpawnOk(cfg, dropped)
  PROVE  /\ ChildTypeOK'
         /\ next_id \in ChildId
         /\ next_id' \in 0 .. MaxSpawns
<1>1. next_id \in ChildId /\ next_id' \in 0 .. MaxSpawns
  BY DEF SpawnOk, TypeOK, ChildId
<1>2. [struct |-> cfg.struct, live |-> cfg.live, video |-> video,
       paused |-> manual_pause] \in Settings
  BY DEF TypeOK, Settings, ConfigType
<1>3. ChildTypeOK'
  BY <1>1, <1>2 DEF SpawnOk, SpawnChild, TypeOK, ChildTypeOK, ProcState, Dead
<1> QED BY <1>1, <1>3

LEMMA SpawnErrType ==
  ASSUME TypeOK, SpawnErr
  PROVE  ChildTypeOK' /\ next_id' \in 0 .. MaxSpawns
BY DEF SpawnErr, TypeOK, ChildTypeOK, childVars, ChildId

LEMMA RestartType ==
  ASSUME TypeOK, NEW cfg \in ConfigType,
         NEW timers \in [Timer -> {"off", "armed", "due"}], Restart(cfg, timers)
  PROVE  /\ ChildTypeOK'
         /\ next_id' \in 0 .. MaxSpawns
         /\ pending' \in ChildId \cup {None}
         /\ timer' \in [Timer -> {"off", "armed", "due"}]
<1>1. CASE pending # None
  BY <1>1 DEF Restart, TypeOK, ChildTypeOK, childVars
<1>2. CASE pending = None /\ SpawnErr /\ timer' = timers /\ UNCHANGED pending
  BY <1>2, SpawnErrType DEF TypeOK
<1>3. CASE /\ pending = None /\ SpawnOk(cfg, {}) /\ pending' = next_id
           /\ timer' = [timers EXCEPT !["pending"] = "armed"]
  BY <1>3, SpawnOkType DEF Timer
<1> QED BY <1>1, <1>2, <1>3 DEF Restart

LEMMA PanicType ==
  ASSUME TypeOK, Panic, served' \in BOOLEAN
  PROVE  TypeOK'
BY DEF Panic, TypeOK, ChildTypeOK, Pc, Down

LEMMA ScheduleRespawnType ==
  ASSUME TypeOK, NEW n \in Nat, ScheduleRespawn(n)
  PROVE  timer' \in [Timer -> {"off", "armed", "due"}]
BY DEF ScheduleRespawn, TypeOK, Timer

LEMMA BroadcastSetType ==
  ASSUME TypeOK, NEW v \in Videos \cup {Keep}, NEW l \in Lives \cup {Keep},
         BroadcastSet(v, l)
  PROVE  told' \in [ChildId -> Settings]
<1>1. ASSUME NEW s \in Settings
      PROVE  [s EXCEPT !.video = IF v = Keep THEN @ ELSE v,
                       !.live  = IF l = Keep THEN @ ELSE l] \in Settings
  BY DEF Settings
<1>2. \A c \in ChildId : told[c] \in Settings
  BY DEF TypeOK, ChildTypeOK
<1> QED BY <1>1, <1>2 DEF BroadcastSet

LEMMA BroadcastPauseType ==
  ASSUME TypeOK, NEW paused \in BOOLEAN, BroadcastPause(paused)
  PROVE  told' \in [ChildId -> Settings]
<1>1. ASSUME NEW s \in Settings
      PROVE  [s EXCEPT !.paused = paused] \in Settings
  BY DEF Settings
<1>2. \A c \in ChildId : told[c] \in Settings
  BY DEF TypeOK, ChildTypeOK
<1> QED BY <1>1, <1>2 DEF BroadcastPause

LEMMA ConfigTypes == Configs \subseteq ConfigType
BY DEF ConfigType

LEMMA ReloadTimersType ==
  ASSUME NEW timers \in [Timer -> {"off", "armed", "due"}], NEW new \in ConfigType
  PROVE  ReloadTimers(new, timers) \in [Timer -> {"off", "armed", "due"}]
BY DEF ReloadTimers, PolicyTimer, WatchTimer, Timer

LEMMA HandleReloadType ==
  ASSUME TypeOK, NEW next \in Pc, NEW timers \in [Timer -> {"off", "armed", "due"}],
         HandleReload(next, timers), served' \in BOOLEAN
  PROVE  TypeOK'
<1>1. CASE /\ pc' = next /\ timer' = timers
           /\ UNCHANGED <<config, video, manual_pause, current, pending, leaving,
                          baseline, failures, exit, next_id, childVars>>
  BY <1>1 DEF TypeOK, ChildTypeOK, childVars
<1>2. CASE ~baseline /\ Panic
  BY <1>2, PanicType
<1>3. ASSUME NEW new \in Configs, NEW found \in BOOLEAN,
             ApplyReload(new, found, timers), pc' = next,
             UNCHANGED <<manual_pause, current, leaving, baseline, failures, exit>>
      PROVE  TypeOK'
  <2>1. /\ new \in ConfigType
        /\ ReloadTimers(new, timers) \in [Timer -> {"off", "armed", "due"}]
        /\ NewPath(new) \in Videos \cup {Keep}
        /\ NewLive(new) \in Lives \cup {Keep}
    BY ConfigTypes, ReloadTimersType DEF ConfigType, NewPath, NewLive
  <2>2. config' = new
    BY <1>3 DEF ApplyReload
  <2>3. CASE new.struct # config.struct
    <3>1. Restart(new, ReloadTimers(new, timers)) /\ UNCHANGED video
      BY <1>3, <2>3 DEF ApplyReload
    <3> QED BY <1>3, <2>1, <2>2, <3>1, RestartType DEF TypeOK, ConfigType
  <2>4. CASE new.struct = config.struct
    <3>1. /\ timer' = ReloadTimers(new, timers)
          /\ UNCHANGED <<pending, next_id, proc, drawn, stdin, reading, report>>
      BY <1>3, <2>4 DEF ApplyReload
    <3>2. video' \in Videos /\ told' \in [ChildId -> Settings]
      <4>1. CASE UNCHANGED <<video, told>>
        BY <4>1 DEF TypeOK, ChildTypeOK
      <4>2. CASE /\ video' = IF NewPath(new) = Keep THEN video ELSE NewPath(new)
                 /\ BroadcastSet(NewPath(new), NewLive(new))
        <5>1. told' \in [ChildId -> Settings]
          BY <2>1, <4>2, BroadcastSetType
        <5>2. video' \in Videos
          BY <2>1, <4>2 DEF TypeOK
        <5> QED BY <5>1, <5>2
      <4> QED BY <1>3, <2>4, <4>1, <4>2 DEF ApplyReload
    <3> QED BY <1>3, <2>1, <2>2, <3>1, <3>2 DEF TypeOK, ChildTypeOK, ConfigType
  <2> QED BY <2>3, <2>4
<1> QED BY <1>1, <1>2, <1>3 DEF HandleReload

-----------------------------------------------------------------------------
(* Type correctness. *)

LEMMA InitType == Init => TypeOK
<1> SUFFICES ASSUME Init PROVE TypeOK
  OBVIOUS
<1>1. config \in ConfigType
  BY ConfigTypes DEF Init
<1>2. (CHOOSE s \in Settings : TRUE) \in Settings
  <2>1. [struct |-> config.struct, live |-> config.live, video |-> video,
         paused |-> FALSE] \in Settings
    BY <1>1 DEF Init, Settings, ConfigType
  <2> QED BY <2>1
<1>3. ChildTypeOK
  BY <1>2 DEF Init, ChildInit, ChildTypeOK, ProcState
<1>4. timer \in [Timer -> {"off", "armed", "due"}]
  BY DEF Init, PolicyTimer, WatchTimer
<1>5. /\ pc = "start" /\ config \in Configs /\ video \in Videos /\ manual_pause = FALSE
      /\ current = None /\ pending = None /\ leaving = None /\ baseline = FALSE
      /\ failures = 0 /\ exit = FALSE /\ next_id = 0 /\ served = FALSE
  BY DEF Init
<1>6. {current, pending, leaving} \subseteq ChildId \cup {None}
  BY <1>5
<1>7. failures \in Nat /\ next_id \in 0 .. MaxSpawns
  BY <1>5
<1> QED BY <1>1, <1>3, <1>4, <1>5, <1>6, <1>7 DEF TypeOK, ConfigType, Pc

LEMMA ChildStepType ==
  ASSUME ChildTypeOK, NEW c \in ChildId, ChildStep(c)
  PROVE  ChildTypeOK'
<1>1. ASSUME NEW msg \in {"ready", "gone"}
      PROVE  Reported(c, msg) \in [ChildId -> Seq({"ready", "gone"})]
  BY ReportedType
<1>2. [report EXCEPT ![c] = Append(@, "gone")] \in [ChildId -> Seq({"ready", "gone"})]
  BY DEF ChildTypeOK
<1> QED
  BY <1>1 DEF ChildStep, Draw, Crash, LayerClosed, Leave, ReaderStops, Die, ChildTypeOK,
              ProcState, Dead

LEMMA StepType == TypeOK /\ [Next]_vars => TypeOK'
<1> SUFFICES ASSUME TypeOK, [Next]_vars PROVE TypeOK'
  OBVIOUS
<1> USE DEF Pc, Tick, Blocked, Down
<1>1. CASE Start
  <2>1. CASE SpawnOk(config, {}) /\ current' = next_id /\ pc' = "dispatch"
    <3>1. config \in ConfigType
      BY DEF TypeOK, ConfigType
    <3> QED BY <1>1, <2>1, <3>1, SpawnOkType DEF Start, TypeOK
  <2>2. CASE SpawnErr /\ pc' = "stopped" /\ UNCHANGED current
    BY <1>1, <2>2, SpawnErrType DEF Start, TypeOK
  <2> QED BY <1>1, <2>1, <2>2 DEF Start
<1>2. ASSUME NEW c \in ChildId, HandleReady(c)
      PROVE  TypeOK'
  BY <1>2 DEF HandleReady, Takes, Promote, IsPending, IsCurrent, TypeOK, ChildTypeOK, Timer
<1>3. CASE Retire
  BY <1>3, KillChildType DEF Retire, TypeOK
<1>4. CASE MeasureBaseline
  <2>1. CASE MemoryReadable(current)
    BY <1>4, <2>1 DEF MeasureBaseline, TypeOK, ChildTypeOK, childVars
  <2>2. CASE ~MemoryReadable(current)
    BY <1>4, <2>2, PanicType DEF MeasureBaseline, TypeOK
  <2> QED BY <2>1, <2>2
<1>5. ASSUME NEW c \in ChildId, HandleGone(c)
      PROVE  TypeOK'
  <2>1. /\ report' \in [ChildId -> Seq({"ready", "gone"})]
        /\ UNCHANGED <<config, video, manual_pause, baseline, failures, exit, next_id,
                       drawn, reading, told>>
        /\ served' = TRUE
    BY <1>5 DEF HandleGone, Takes, TypeOK, ChildTypeOK
  <2>2. proc' \in [ChildId -> ProcState] /\ stdin' \subseteq ChildId
    BY <1>5 DEF HandleGone, TypeOK, ChildTypeOK, ProcState
  <2>4. pc' \in Pc /\ {current', pending', leaving'} \subseteq ChildId \cup {None}
    BY <1>5 DEF HandleGone, TypeOK
  <2>3. timer' \in [Timer -> {"off", "armed", "due"}]
    BY <1>5 DEF HandleGone, TypeOK, Timer
  <2> QED BY <2>1, <2>2, <2>3, <2>4 DEF TypeOK, ChildTypeOK
<1>6. CASE Reap
  <2>1. timer' \in [Timer -> {"off", "armed", "due"}]
    BY <1>6, ScheduleRespawnType DEF Reap, TypeOK
  <2>2. failures' \in Nat
    BY <1>6 DEF Reap, TypeOK
  <2>3. exit' \in BOOLEAN
    BY <1>6 DEF Reap, TypeOK
  <2>4. /\ proc' \in [ChildId -> ProcState]
        /\ stdin' \subseteq ChildId
    BY <1>6 DEF Reap, TypeOK, ChildTypeOK, ProcState
  <2>5. /\ pc' = "dispatch"
        /\ leaving' = None
        /\ UNCHANGED <<config, video, manual_pause, current, pending, baseline, next_id,
                       served, drawn, reading, report, told>>
    BY <1>6 DEF Reap
  <2> QED BY <2>1, <2>2, <2>3, <2>4, <2>5 DEF TypeOK, ChildTypeOK
<1>7. CASE ServeNoChange
  BY <1>7 DEF ServeNoChange, Serves, TypeOK, ChildTypeOK, childVars
<1>8. ASSUME NEW v \in Videos \cup {Keep}, NEW l \in Lives \cup {Keep}, HandleSet(v, l)
      PROVE  TypeOK'
  <2>1. CASE v # Keep /\ ~baseline
    BY <1>8, <2>1, PanicType DEF HandleSet, Serves
  <2>2. CASE ~(v # Keep /\ ~baseline)
    <3>1. told' \in [ChildId -> Settings]
      BY <1>8, <2>2, BroadcastSetType DEF HandleSet
    <3>2. config' \in ConfigType
      BY <1>8, <2>2 DEF HandleSet, TypeOK, ConfigType
    <3> QED BY <1>8, <2>2, <3>1, <3>2 DEF HandleSet, Serves, TypeOK, ChildTypeOK, ConfigType
  <2> QED BY <2>1, <2>2
<1>9. ASSUME NEW paused \in BOOLEAN, SetManualPause(paused)
      PROVE  TypeOK'
  BY <1>9, BroadcastPauseType DEF SetManualPause, Serves, TypeOK, ChildTypeOK
<1>10. CASE ServeReload
  BY <1>10, HandleReloadType DEF ServeReload, Serves, TypeOK
<1>11. CASE ServeRestart
  <2>1. config \in ConfigType
    BY DEF TypeOK, ConfigType
  <2> QED BY <1>11, <2>1, RestartType DEF ServeRestart, Serves, TypeOK
<1>12. CASE ServeKill
  BY <1>12 DEF ServeKill, Serves, TypeOK, ChildTypeOK, childVars
<1>13. CASE Wake
  BY <1>13 DEF Wake, TypeOK, ChildTypeOK, childVars
<1>14. CASE TickRespawn
  <2>1. CASE timer["respawn"] # "due"
    BY <1>14, <2>1 DEF TickRespawn, TypeOK, ChildTypeOK, childVars
  <2>2. CASE SpawnErr /\ failures' = failures + 1 /\ ScheduleRespawn(failures + 1)
             /\ UNCHANGED current
    BY <1>14, <2>2, SpawnErrType, ScheduleRespawnType DEF TickRespawn, TypeOK
  <2>3. CASE SpawnOk(config, {current}) /\ current' = next_id
             /\ timer' = [timer EXCEPT !["respawn"] = "off"] /\ UNCHANGED failures
    <3>1. config \in ConfigType
      BY DEF TypeOK, ConfigType
    <3> QED BY <1>14, <2>3, <3>1, SpawnOkType DEF TickRespawn, TypeOK, Timer
  <2> QED BY <1>14, <2>1, <2>2, <2>3 DEF TickRespawn
<1>15. CASE TickDeadline
  <2>1. CASE timer["pending"] = "due" /\ pending # None
    BY <1>15, <2>1, KillChildType DEF TickDeadline, TypeOK, Timer
  <2>2. CASE ~(timer["pending"] = "due" /\ pending # None)
    BY <1>15, <2>2 DEF TickDeadline, TypeOK, ChildTypeOK, childVars
  <2> QED BY <2>1, <2>2
<1>16. CASE TickWatch
  <2> DEFINE polled == IF timer["watch"] = "due" THEN [timer EXCEPT !["watch"] = "armed"]
                                                 ELSE timer
  <2>1. polled \in [Timer -> {"off", "armed", "due"}]
    BY DEF TypeOK, Timer
  <2>2. CASE HandleReload("policy", polled)
    BY <1>16, <2>1, <2>2, HandleReloadType DEF TickWatch, TypeOK
  <2>3. CASE /\ pc' = "policy" /\ timer' = polled
             /\ UNCHANGED <<config, video, manual_pause, current, pending, leaving,
                            baseline, failures, exit, next_id, childVars>>
    BY <1>16, <2>1, <2>3 DEF TickWatch, TypeOK, ChildTypeOK, childVars
  <2> QED BY <1>16, <2>2, <2>3 DEF TickWatch
<1>17. CASE TickPolicy
  <2> DEFINE sampled == IF timer["policy"] = "due" THEN [timer EXCEPT !["policy"] = "armed"]
                                                   ELSE timer
  <2>1. sampled \in [Timer -> {"off", "armed", "due"}] /\ config \in ConfigType
    BY DEF TypeOK, Timer, ConfigType
  <2>2. CASE Panic
    BY <1>17, <2>2, PanicType DEF TickPolicy, TypeOK
  <2>3. CASE /\ pc' = IF exit THEN "killPending" ELSE "dispatch"
             /\ \/ timer' = sampled /\ UNCHANGED <<pending, next_id, childVars>>
                \/ Restart(config, sampled)
             /\ UNCHANGED <<config, video, manual_pause, current, leaving, baseline,
                            failures, exit>>
    <3>1. CASE timer' = sampled /\ UNCHANGED <<pending, next_id, childVars>>
      BY <1>17, <2>1, <2>3, <3>1 DEF TickPolicy, TypeOK, ChildTypeOK, childVars
    <3>2. CASE Restart(config, sampled)
      <4> HIDE DEF sampled
      <4>1. /\ ChildTypeOK'
            /\ next_id' \in 0 .. MaxSpawns
            /\ pending' \in ChildId \cup {None}
            /\ timer' \in [Timer -> {"off", "armed", "due"}]
        BY <2>1, <3>2, RestartType
      <4>2. UNCHANGED served
        BY <1>17 DEF TickPolicy
      <4> QED BY <2>3, <4>1, <4>2 DEF TypeOK
    <3> QED BY <2>3, <3>1, <3>2
  <2> QED BY <1>17, <2>2, <2>3 DEF TickPolicy
<1>18. CASE KillPending
  <2>1. ChildTypeOK'
    BY <1>18, KillChildType DEF KillPending, TypeOK, ChildTypeOK, childVars
  <2> QED BY <1>18, <2>1 DEF KillPending, TypeOK
<1>19. CASE AskCurrent
  BY <1>19 DEF AskCurrent, TypeOK, ChildTypeOK
<1>20. CASE Quit
  BY <1>20, KillChildType DEF Quit, TypeOK
<1>21. ASSUME NEW t \in Timer, Elapse(t)
       PROVE  TypeOK'
  BY <1>21 DEF Elapse, TypeOK, ChildTypeOK, childVars
<1>22. CASE KilledBySignal
  BY <1>22 DEF KilledBySignal, TypeOK, ChildTypeOK
<1>23. ASSUME NEW c \in ChildId, ChildStep(c), UNCHANGED daemonVars
       PROVE  TypeOK'
  BY <1>23, ChildStepType DEF TypeOK, daemonVars
<1>24. CASE UNCHANGED vars
  BY <1>24 DEF vars, daemonVars, childVars, TypeOK, ChildTypeOK
<1> QED
  BY <1>1, <1>2, <1>3, <1>4, <1>5, <1>6, <1>7, <1>8, <1>9, <1>10, <1>11, <1>12, <1>13,
     <1>14, <1>15, <1>16, <1>17, <1>18, <1>19, <1>20, <1>21, <1>22, <1>23, <1>24
  DEF Next, Run, Serve, HandleChildMsg

(* In every state the daemon can reach, its variables and those of its     *)
(* renderers have their types: a failed spawn, a late message or a timeout *)
(* never leaves, say, a handle on a process that was not started.          *)
THEOREM TypeCorrect == Spec => []TypeOK
BY InitType, StepType, PTL DEF Spec

-----------------------------------------------------------------------------
(* A ready timeout runs exactly while there is a replacement.  Inductive   *)
(* once the states before the loop and at its end are included.            *)

DeadlineInv ==
  pc \notin {"askCurrent", "quit"} \cup Down =>
    (pending # None <=> timer["pending"] # "off")

LEMMA RestartDeadline ==
  ASSUME TypeOK, NEW cfg, NEW timers \in [Timer -> {"off", "armed", "due"}],
         timers["pending"] = timer["pending"],
         pending # None <=> timer["pending"] # "off",
         Restart(cfg, timers)
  PROVE  pending' # None <=> timer'["pending"] # "off"
<1>1. CASE pending # None /\ timer' = timers /\ UNCHANGED pending
  BY <1>1
<1>2. CASE pending = None /\ SpawnErr /\ timer' = timers /\ UNCHANGED pending
  BY <1>2
<1>3. CASE /\ pending = None /\ SpawnOk(cfg, {}) /\ pending' = next_id
           /\ timer' = [timers EXCEPT !["pending"] = "armed"]
  BY <1>3 DEF TypeOK, Timer
<1> QED BY <1>1, <1>2, <1>3 DEF Restart

LEMMA ReloadDeadline ==
  ASSUME TypeOK, NEW next, NEW timers \in [Timer -> {"off", "armed", "due"}],
         timers["pending"] = timer["pending"],
         pending # None <=> timer["pending"] # "off",
         HandleReload(next, timers)
  PROVE  pc' \in Down \/ (pending' # None <=> timer'["pending"] # "off")
<1>1. CASE timer' = timers /\ UNCHANGED pending
  BY <1>1
<1>2. CASE Panic
  BY <1>2 DEF Panic, Down
<1>3. ASSUME NEW new \in Configs, NEW found \in BOOLEAN, ApplyReload(new, found, timers)
      PROVE  pending' # None <=> timer'["pending"] # "off"
  <2>1. ReloadTimers(new, timers) \in [Timer -> {"off", "armed", "due"}]
    BY ConfigTypes, ReloadTimersType
  <2>2. ReloadTimers(new, timers)["pending"] = timer["pending"]
    BY DEF ReloadTimers, Timer
  <2>3. CASE Restart(new, ReloadTimers(new, timers))
    BY <2>1, <2>2, <2>3, RestartDeadline
  <2>4. CASE timer' = ReloadTimers(new, timers) /\ UNCHANGED pending
    BY <2>2, <2>4
  <2> QED BY <1>3, <2>3, <2>4 DEF ApplyReload
<1> QED BY <1>1, <1>2, <1>3 DEF HandleReload

LEMMA DeadlineStep == TypeOK /\ DeadlineInv /\ [Next]_vars => DeadlineInv'
<1> SUFFICES ASSUME TypeOK, DeadlineInv, [Next]_vars PROVE DeadlineInv'
  OBVIOUS
<1> USE DEF DeadlineInv, Down
<1>1. CASE UNCHANGED <<pc, pending, timer>>
  BY <1>1
<1>2. CASE pc' \in Down
  BY <1>2
<1>3. CASE Start \/ Wake \/ Retire \/ MeasureBaseline
  BY <1>3 DEF Start, Wake, Retire, MeasureBaseline, Panic
<1>4. ASSUME NEW c \in ChildId, HandleReady(c)
      PROVE  DeadlineInv'
  BY <1>4 DEF HandleReady, Takes, Promote, TypeOK, Timer
<1>5. ASSUME NEW c \in ChildId, HandleGone(c)
      PROVE  DeadlineInv'
  BY <1>5 DEF HandleGone, Takes, TypeOK, Timer
<1>6. CASE Reap
  BY <1>6 DEF Reap, ScheduleRespawn, TypeOK, Timer
<1>7. CASE Serves /\ UNCHANGED pc /\ UNCHANGED <<pending, timer>>
  BY <1>7
<1>8. CASE ServeReload
  BY <1>8, ReloadDeadline DEF ServeReload, Serves, TypeOK
<1>9. CASE ServeRestart
  BY <1>9, RestartDeadline DEF ServeRestart, Serves, TypeOK
<1>10. CASE TickRespawn
  BY <1>10 DEF TickRespawn, ScheduleRespawn, TypeOK, Timer
<1>11. CASE TickDeadline
  BY <1>11 DEF TickDeadline, TypeOK, Timer
<1>12. CASE TickWatch
  <2> DEFINE polled == IF timer["watch"] = "due" THEN [timer EXCEPT !["watch"] = "armed"]
                                                 ELSE timer
  <2>1. /\ polled \in [Timer -> {"off", "armed", "due"}]
        /\ polled["pending"] = timer["pending"]
    BY DEF TypeOK, Timer
  <2>2. \/ pc' = "policy" /\ timer' = polled /\ UNCHANGED pending
        \/ HandleReload("policy", polled)
    BY <1>12 DEF TickWatch
  <2>3. pc = "watch"
    BY <1>12 DEF TickWatch
  <2> HIDE DEF polled
  <2> QED BY <2>1, <2>2, <2>3, ReloadDeadline
<1>13. CASE TickPolicy
  <2> DEFINE sampled == IF timer["policy"] = "due" THEN [timer EXCEPT !["policy"] = "armed"]
                                                   ELSE timer
  <2>1. /\ sampled \in [Timer -> {"off", "armed", "due"}]
        /\ sampled["pending"] = timer["pending"]
    BY DEF TypeOK, Timer
  <2>2. \/ Panic
        \/ timer' = sampled /\ UNCHANGED pending
        \/ Restart(config, sampled)
    BY <1>13 DEF TickPolicy
  <2>3. pc = "policy"
    BY <1>13 DEF TickPolicy
  <2> HIDE DEF sampled
  <2> QED BY <2>1, <2>2, <2>3, RestartDeadline DEF Panic
<1>14. CASE KillPending \/ AskCurrent \/ Quit
  BY <1>14 DEF KillPending, AskCurrent, Quit
<1>15. ASSUME NEW t \in Timer, Elapse(t)
       PROVE  DeadlineInv'
  BY <1>15 DEF Elapse, TypeOK, Timer
<1>16. ASSUME NEW v, NEW l, HandleSet(v, l)
       PROVE  DeadlineInv'
  BY <1>16 DEF HandleSet, Panic
<1> QED
  BY <1>1, <1>2, <1>3, <1>4, <1>5, <1>6, <1>7, <1>8, <1>9, <1>10, <1>11, <1>12, <1>13,
     <1>14, <1>15, <1>16
  DEF Next, Run, Serve, HandleChildMsg, ServeNoChange, SetManualPause, ServeKill,
      KilledBySignal, daemonVars, vars

(* For every number of renderers and every config, the daemon waits for a  *)
(* ready timeout when, and only when, there is a replacement to give up    *)
(* on: promote(), a replacement that dies and a timeout all clear both.    *)
THEOREM DeadlineIffPendingHolds == Spec => []DeadlineIffPending
<1>1. Init => DeadlineInv
  BY DEF Init, DeadlineInv, Timer
<1>2. DeadlineInv => DeadlineIffPending
  BY DEF DeadlineInv, DeadlineIffPending, Tick, Down
<1> QED BY <1>1, <1>2, InitType, StepType, DeadlineStep, PTL DEF Spec

-----------------------------------------------------------------------------
(* The handover leaves no gap.  HandoverAfterDraw needs the messages under *)
(* way: a child that says Ready has drawn, however late it is heard.       *)

ReadyMeansDrawn ==
  \A c \in ChildId : \A i \in 1 .. Len(report[c]) : report[c][i] = "ready" => c \in drawn

HandoverInv == ReadyMeansDrawn /\ HandoverAfterDraw

(* How a step may change the messages of child c. *)
Harmless(c) ==
  \/ report'[c] = report[c]
  \/ report'[c] = Append(report[c], "gone")
  \/ c \in drawn'
  \/ report[c] # <<>> /\ report'[c] = Tail(report[c])

LEMMA ReadyMeansDrawnKept ==
  ASSUME ChildTypeOK, ReadyMeansDrawn, drawn \subseteq drawn',
         \A c \in ChildId : Harmless(c)
  PROVE  ReadyMeansDrawn'
<1> SUFFICES ASSUME NEW c \in ChildId, NEW i \in 1 .. Len(report'[c]),
                    report'[c][i] = "ready"
             PROVE  c \in drawn'
  BY DEF ReadyMeansDrawn
<1>1. report[c] \in Seq({"ready", "gone"})
  BY DEF ChildTypeOK
<1>2. CASE report'[c] = report[c]
  BY <1>2 DEF ReadyMeansDrawn
<1>3. CASE report'[c] = Append(report[c], "gone")
  BY <1>1, <1>3 DEF ReadyMeansDrawn
<1>4. CASE report[c] # <<>> /\ report'[c] = Tail(report[c])
  <2>1. i + 1 \in 1 .. Len(report[c]) /\ report'[c][i] = report[c][i + 1]
    BY <1>1, <1>4
  <2> QED BY <2>1 DEF ReadyMeansDrawn
<1> QED BY <1>2, <1>3, <1>4 DEF Harmless

LEMMA KillChildReady ==
  ASSUME ChildTypeOK, ReadyMeansDrawn, NEW c, KillChild(c)
  PROVE  ReadyMeansDrawn'
<1>1. ASSUME NEW d \in ChildId PROVE Harmless(d)
  BY DEF Harmless, KillChild, Reported, ChildTypeOK
<1> QED BY <1>1, ReadyMeansDrawnKept DEF KillChild

LEMMA ChildStepReady ==
  ASSUME ChildTypeOK, ReadyMeansDrawn, NEW c \in ChildId, ChildStep(c)
  PROVE  ReadyMeansDrawn' /\ drawn \subseteq drawn'
<1>1. drawn \subseteq drawn'
  BY DEF ChildStep, Draw, Crash, LayerClosed, Leave, Die, ReaderStops
<1>2. ASSUME NEW d \in ChildId PROVE Harmless(d)
  <2>1. CASE Draw(c)
    <3>1. c \in drawn'
      BY <2>1 DEF Draw
    <3>2. CASE d # c
      BY <2>1, <3>2 DEF Draw, Reported, Harmless, ChildTypeOK
    <3> QED BY <3>1, <3>2 DEF Harmless
  <2>2. CASE Crash(c) \/ LayerClosed(c) \/ Leave(c)
    BY <2>2 DEF Crash, LayerClosed, Leave, Die, Reported, Harmless, ChildTypeOK
  <2>3. CASE ReaderStops(c)
    BY <2>3 DEF ReaderStops, Reported, Harmless, ChildTypeOK
  <2> QED BY <2>1, <2>2, <2>3 DEF ChildStep
<1> QED BY <1>1, <1>2, ReadyMeansDrawnKept

LEMMA TakesReady ==
  ASSUME ChildTypeOK, ReadyMeansDrawn, NEW c \in ChildId, NEW msg, Takes(c, msg),
         UNCHANGED drawn
  PROVE  ReadyMeansDrawn' /\ (msg = "ready" => c \in drawn)
<1>0. ASSUME NEW d \in ChildId PROVE Harmless(d)
  BY DEF Harmless, Takes, ChildTypeOK
<1>1. ReadyMeansDrawn'
  BY <1>0, ReadyMeansDrawnKept
<1>2. report[c] \in Seq({"ready", "gone"}) /\ report[c] # <<>> /\ report[c][1] = msg
  BY DEF Takes, ChildTypeOK
<1>3. 1 \in 1 .. Len(report[c])
  BY <1>2
<1> QED BY <1>1, <1>2, <1>3 DEF ReadyMeansDrawn

LEMMA HandoverStep == TypeOK /\ HandoverInv /\ [Next]_vars => HandoverInv'
<1> SUFFICES ASSUME TypeOK, HandoverInv, [Next]_vars PROVE HandoverInv'
  OBVIOUS
<1> USE DEF HandoverInv, HandoverAfterDraw
<1>a. ChildTypeOK
  BY DEF TypeOK
<1>1. CASE UNCHANGED <<report, drawn>> /\ pc' # "retire"
  BY <1>1 DEF ReadyMeansDrawn
<1>2. CASE UNCHANGED <<pc, current, report, drawn>>
  BY <1>2 DEF ReadyMeansDrawn
<1>3. ASSUME NEW c \in ChildId, HandleReady(c)
      PROVE  HandoverInv'
  <2>1. ReadyMeansDrawn' /\ c \in drawn
    BY <1>a, <1>3, TakesReady DEF HandleReady
  <2> QED BY <1>3, <2>1 DEF HandleReady, Promote, IsPending
<1>4. ASSUME NEW c \in ChildId, HandleGone(c)
      PROVE  HandoverInv'
  <2>1. ReadyMeansDrawn' /\ pc = "dispatch"
    BY <1>a, <1>4, TakesReady DEF HandleGone, Takes
  <2> QED BY <1>4, <2>1 DEF HandleGone
<1>5. CASE Retire \/ Quit \/ KillPending
  <2>1. ReadyMeansDrawn'
    <3>1. CASE UNCHANGED childVars
      BY <3>1 DEF ReadyMeansDrawn, childVars
    <3>2. ASSUME NEW c, KillChild(c)
          PROVE  ReadyMeansDrawn'
      BY <1>a, <3>2, KillChildReady
    <3> QED BY <1>5, <3>1, <3>2 DEF Retire, Quit, KillPending
  <2> QED BY <1>5, <2>1 DEF Retire, Quit, KillPending
<1>6. CASE TickDeadline
  <2>1. ReadyMeansDrawn'
    <3>1. CASE UNCHANGED childVars
      BY <3>1 DEF ReadyMeansDrawn, childVars
    <3>2. CASE KillChild(pending)
      BY <1>a, <3>2, KillChildReady
    <3> QED BY <1>6, <3>1, <3>2 DEF TickDeadline
  <2> QED BY <1>6, <2>1 DEF TickDeadline
<1>7. ASSUME NEW c \in ChildId, ChildStep(c), UNCHANGED daemonVars
      PROVE  HandoverInv'
  BY <1>a, <1>7, ChildStepReady DEF daemonVars
<1>8. ASSUME NEW cfg, NEW timers, Restart(cfg, timers)
      PROVE  UNCHANGED <<report, drawn>>
  BY <1>8 DEF Restart, SpawnErr, SpawnOk, SpawnChild, childVars
<1>9. ASSUME NEW next \in {"dispatch", "policy"}, NEW timers, HandleReload(next, timers)
      PROVE  UNCHANGED <<report, drawn>> /\ pc' # "retire"
  <2>1. ASSUME NEW new, NEW found, ApplyReload(new, found, timers)
        PROVE  UNCHANGED <<report, drawn>>
    BY <1>8, <2>1 DEF ApplyReload
  <2> QED BY <1>9, <2>1 DEF HandleReload, Panic, childVars
<1>10. CASE Start \/ TickRespawn
  BY <1>1, <1>10 DEF Start, TickRespawn, SpawnErr, SpawnOk, SpawnChild, childVars
<1>11. CASE MeasureBaseline \/ Reap \/ Wake \/ AskCurrent \/ KilledBySignal
  BY <1>1, <1>11 DEF MeasureBaseline, Reap, Wake, AskCurrent, KilledBySignal, Panic, childVars
<1>12. CASE ServeReload \/ TickWatch
  BY <1>1, <1>9, <1>12 DEF ServeReload, TickWatch, childVars
<1>13. CASE ServeRestart \/ TickPolicy
  BY <1>1, <1>8, <1>13 DEF ServeRestart, Serves, TickPolicy, Panic, childVars
<1>14. CASE \/ ServeNoChange \/ ServeKill
            \/ \E v \in Videos \cup {Keep}, l \in Lives \cup {Keep} : HandleSet(v, l)
            \/ \E paused \in BOOLEAN : SetManualPause(paused)
            \/ \E t \in Timer : Elapse(t)
  BY <1>1, <1>2, <1>14 DEF ServeNoChange, ServeKill, HandleSet, SetManualPause, Elapse,
                           Panic, childVars
<1>15. CASE UNCHANGED vars
  BY <1>2, <1>15 DEF vars, daemonVars, childVars
<1> QED
  BY <1>3, <1>4, <1>5, <1>6, <1>7, <1>10, <1>11, <1>12, <1>13, <1>14, <1>15
  DEF Next, Run, Serve, HandleChildMsg

(* promote() asks the old renderer to leave only once the new one has a    *)
(* frame on screen, whatever messages of whatever children are late.       *)
THEOREM HandoverAfterDrawHolds == Spec => []HandoverAfterDraw
<1>1. Init => HandoverInv
  BY DEF Init, ChildInit, HandoverInv, ReadyMeansDrawn, HandoverAfterDraw
<1>2. HandoverInv => HandoverAfterDraw
  BY DEF HandoverInv
<1> QED BY <1>1, <1>2, InitType, StepType, HandoverStep, PTL DEF Spec

-----------------------------------------------------------------------------
(* The daemon is never left without a renderer and without a respawn to    *)
(* come.  While it blocks in shutdown() it has a renderer: the promoted    *)
(* one, which has drawn (HandoverAfterDraw).                               *)

LEMMA RestartRespawn ==
  ASSUME NEW cfg, NEW timers \in [Timer -> {"off", "armed", "due"}], Restart(cfg, timers)
  PROVE  timer'["respawn"] = timers["respawn"]
BY DEF Restart, Timer

LEMMA ReloadRespawn ==
  ASSUME NEW next \in Pc, NEW timers \in [Timer -> {"off", "armed", "due"}],
         timers["respawn"] = timer["respawn"], HandleReload(next, timers)
  PROVE  \/ pc' \in Down
         \/ /\ timer'["respawn"] = timer["respawn"]
            /\ UNCHANGED <<current, exit, failures>>
<1>1. CASE timer' = timers /\ UNCHANGED <<current, exit, failures>>
  BY <1>1
<1>2. CASE Panic
  BY <1>2 DEF Panic, Down
<1>3. ASSUME NEW new \in Configs, NEW found \in BOOLEAN, ApplyReload(new, found, timers),
             UNCHANGED <<current, exit, failures>>
      PROVE  timer'["respawn"] = timer["respawn"]
  <2>1. ReloadTimers(new, timers) \in [Timer -> {"off", "armed", "due"}]
    BY ConfigTypes, ReloadTimersType
  <2>2. ReloadTimers(new, timers)["respawn"] = timer["respawn"]
    BY DEF ReloadTimers, Timer
  <2>3. CASE Restart(new, ReloadTimers(new, timers))
    BY <2>1, <2>2, <2>3, RestartRespawn
  <2>4. CASE timer' = ReloadTimers(new, timers)
    BY <2>2, <2>4
  <2> QED BY <1>3, <2>3, <2>4 DEF ApplyReload
<1> QED BY <1>1, <1>2, <1>3 DEF HandleReload

LEMMA NeverAbandonedStep ==
  TypeOK /\ HandoverInv /\ NeverAbandoned /\ [Next]_vars => NeverAbandoned'
<1> SUFFICES ASSUME TypeOK, HandoverInv, NeverAbandoned, [Next]_vars PROVE NeverAbandoned'
  OBVIOUS
<1> USE DEF NeverAbandoned, Tick
<1>1. CASE pc' \in {"start", "killPending", "askCurrent"} \cup Blocked \cup Down
  BY <1>1 DEF Blocked, Down
<1>2. CASE /\ pc \in {"dispatch", "baseline"} \cup Tick
           /\ UNCHANGED <<current, exit, failures>>
           /\ timer'["respawn"] = timer["respawn"]
  BY <1>2
<1>3. CASE current' \in ChildId
  BY <1>3 DEF ChildId
<1>4. CASE Start
  BY <1>1, <1>3, <1>4, SpawnOkType DEF Start, Down, TypeOK, ConfigType
<1>5. ASSUME NEW c \in ChildId, HandleReady(c)
      PROVE  NeverAbandoned'
  BY <1>3, <1>5 DEF HandleReady, Takes, Promote, IsPending, IsCurrent
<1>6. CASE Retire
  <2>1. current \in ChildId
    BY <1>6 DEF Retire, HandoverInv, HandoverAfterDraw, TypeOK, ChildTypeOK
  <2> QED BY <1>3, <1>6, <2>1 DEF Retire
<1>7. CASE MeasureBaseline
  BY <1>1, <1>2, <1>7 DEF MeasureBaseline, Panic, Down
<1>8. ASSUME NEW c \in ChildId, HandleGone(c)
      PROVE  NeverAbandoned'
  BY <1>8 DEF HandleGone, Takes, TypeOK, Timer
<1>9. CASE Reap
  BY <1>9 DEF Reap, ScheduleRespawn, TypeOK, Timer
<1>10. CASE TickRespawn
  <2>1. CASE SpawnOk(config, {current}) /\ current' = next_id
    BY <1>3, <2>1, SpawnOkType DEF TypeOK, ConfigType
  <2>2. CASE failures' = failures + 1 /\ ScheduleRespawn(failures + 1)
    BY <1>10, <2>2 DEF TickRespawn, ScheduleRespawn, TypeOK, Timer
  <2>3. CASE UNCHANGED <<current, timer, failures>>
    BY <1>2, <1>10, <2>3 DEF TickRespawn
  <2> QED BY <1>10, <2>1, <2>2, <2>3 DEF TickRespawn
<1>11. CASE TickDeadline
  BY <1>11 DEF TickDeadline, TypeOK, Timer
<1>12. CASE TickWatch
  <2> DEFINE polled == IF timer["watch"] = "due" THEN [timer EXCEPT !["watch"] = "armed"]
                                                 ELSE timer
  <2>1. /\ polled \in [Timer -> {"off", "armed", "due"}]
        /\ polled["respawn"] = timer["respawn"]
    BY DEF TypeOK, Timer
  <2>2. \/ timer' = polled /\ UNCHANGED <<current, exit, failures>>
        \/ HandleReload("policy", polled)
    BY <1>12 DEF TickWatch
  <2>3. pc = "watch" /\ "policy" \in Pc
    BY <1>12 DEF TickWatch, Pc
  <2> HIDE DEF polled
  <2> QED BY <1>1, <1>2, <2>1, <2>2, <2>3, ReloadRespawn
<1>13. CASE TickPolicy
  <2> DEFINE sampled == IF timer["policy"] = "due" THEN [timer EXCEPT !["policy"] = "armed"]
                                                   ELSE timer
  <2>1. /\ sampled \in [Timer -> {"off", "armed", "due"}]
        /\ sampled["respawn"] = timer["respawn"]
    BY DEF TypeOK, Timer
  <2>2. \/ Panic
        \/ timer' = sampled /\ UNCHANGED <<current, exit, failures>>
        \/ Restart(config, sampled) /\ UNCHANGED <<current, exit, failures>>
    BY <1>13 DEF TickPolicy
  <2>3. pc = "policy"
    BY <1>13 DEF TickPolicy
  <2> HIDE DEF sampled
  <2> QED BY <1>1, <1>2, <2>1, <2>2, <2>3, RestartRespawn DEF Panic, Down
<1>14. CASE ServeReload
  <2>1. pc = "dispatch" /\ "dispatch" \in Pc
    BY <1>14 DEF ServeReload, Serves, Pc
  <2> QED BY <1>1, <1>2, <1>14, <2>1, ReloadRespawn DEF ServeReload, TypeOK
<1>15. CASE ServeRestart
  BY <1>2, <1>15, RestartRespawn DEF ServeRestart, Serves, TypeOK
<1>16. CASE ServeKill \/ ServeNoChange \/ Wake
  BY <1>16 DEF ServeKill, ServeNoChange, Serves, Wake
<1>17. ASSUME NEW v, NEW l, HandleSet(v, l)
       PROVE  NeverAbandoned'
  BY <1>1, <1>2, <1>17 DEF HandleSet, Serves, Panic, Down
<1>18. CASE \E paused \in BOOLEAN : SetManualPause(paused)
  BY <1>2, <1>18 DEF SetManualPause, Serves
<1>19. CASE KillPending \/ AskCurrent \/ Quit \/ KilledBySignal
  BY <1>1, <1>19 DEF KillPending, AskCurrent, Quit, KilledBySignal, Down, Blocked
<1>20. ASSUME NEW t \in Timer, Elapse(t)
       PROVE  NeverAbandoned'
  BY <1>20 DEF Elapse, TypeOK, Timer
<1>21. CASE UNCHANGED daemonVars
  BY <1>21 DEF daemonVars
<1> QED
  BY <1>4, <1>5, <1>6, <1>7, <1>8, <1>9, <1>10, <1>11, <1>12, <1>13, <1>14, <1>15,
     <1>16, <1>17, <1>18, <1>19, <1>20, <1>21
  DEF Next, Run, Serve, HandleChildMsg, vars

(* However crashes, failed spawns, timeouts and requests interleave, the   *)
(* daemon has a renderer, a respawn to come, or has counted MAX_FAILURES,  *)
(* whenever it is not in the middle of replacing one or stopping.          *)
THEOREM NeverAbandonedHolds == Spec => []NeverAbandoned
<1>1. Init => HandoverInv
  BY DEF Init, ChildInit, HandoverInv, ReadyMeansDrawn, HandoverAfterDraw
<1>2. Init => NeverAbandoned
  BY DEF Init, NeverAbandoned, Tick
<1> QED BY <1>1, <1>2, InitType, StepType, HandoverStep, NeverAbandonedStep, PTL DEF Spec

-----------------------------------------------------------------------------
(* No renderer is forgotten.  A handle is moved to `leaving' only by the   *)
(* handlers that block, so nothing is lost when they overwrite it.         *)

LeavingInv ==
  /\ pc \notin Blocked \cup Down => leaving = None
  /\ pc = "start" => current = None /\ pending = None

TrackedInv == LeavingInv /\ ChildrenTracked

LEMMA SpawnTracked ==
  ASSUME TypeOK, ChildrenTracked, NEW cfg, NEW dropped, SpawnOk(cfg, dropped),
         next_id \in {current', pending', leaving'},
         {current, pending, leaving} \subseteq dropped \cup {None, current', pending', leaving'}
  PROVE  ChildrenTracked'
BY DEF SpawnOk, SpawnChild, ChildrenTracked, TypeOK, ChildTypeOK, ChildId

LEMMA RestartTracked ==
  ASSUME TypeOK, ChildrenTracked, NEW cfg, NEW timers, Restart(cfg, timers),
         UNCHANGED <<current, leaving>>
  PROVE  ChildrenTracked'
<1>1. CASE pending # None /\ UNCHANGED <<pending, next_id, childVars>>
  BY <1>1 DEF ChildrenTracked, childVars
<1>2. CASE pending = None /\ SpawnErr /\ UNCHANGED pending
  BY <1>2 DEF SpawnErr, ChildrenTracked, childVars
<1>3. CASE pending = None /\ SpawnOk(cfg, {}) /\ pending' = next_id
  BY <1>3, SpawnTracked
<1> QED BY <1>1, <1>2, <1>3 DEF Restart

LEMMA PanicTracked == ASSUME Panic PROVE ChildrenTracked'
BY DEF Panic, ChildrenTracked

LEMMA ReloadTracked ==
  ASSUME TypeOK, ChildrenTracked, NEW next, NEW timers, HandleReload(next, timers)
  PROVE  ChildrenTracked' /\ (pc' = "panicked" \/ (UNCHANGED leaving /\ pc' = next))
<1>1. CASE UNCHANGED <<current, pending, leaving, childVars>> /\ pc' = next
  BY <1>1 DEF ChildrenTracked, childVars
<1>2. CASE Panic
  BY <1>2, PanicTracked DEF Panic
<1>3. ASSUME NEW new, NEW found, ApplyReload(new, found, timers), pc' = next,
             UNCHANGED <<current, leaving>>
      PROVE  ChildrenTracked'
  <2>1. CASE Restart(new, ReloadTimers(new, timers))
    BY <1>3, <2>1, RestartTracked
  <2>2. CASE UNCHANGED <<pending, proc, stdin>>
    BY <1>3, <2>2 DEF ChildrenTracked
  <2> QED BY <1>3, <2>1, <2>2 DEF ApplyReload
<1> QED BY <1>1, <1>2, <1>3 DEF HandleReload

LEMMA TrackedStep == TypeOK /\ TrackedInv /\ [Next]_vars => TrackedInv'
<1> SUFFICES ASSUME TypeOK, TrackedInv, [Next]_vars PROVE TrackedInv'
  OBVIOUS
<1> USE DEF TrackedInv, LeavingInv, Blocked, Down
<1>1. CASE UNCHANGED <<pc, current, pending, leaving>> /\ proc' = proc /\ stdin' = stdin
  BY <1>1 DEF ChildrenTracked
<1>2. CASE Panic
  BY <1>2, PanicTracked DEF Panic
<1>3. CASE Start
  <2>1. CASE SpawnOk(config, {}) /\ current' = next_id /\ pc' = "dispatch"
    BY <1>3, <2>1, SpawnTracked DEF Start
  <2>2. CASE SpawnErr /\ pc' = "stopped" /\ UNCHANGED current
    BY <1>3, <2>2 DEF Start, SpawnErr, childVars, ChildrenTracked
  <2> QED BY <1>3, <2>1, <2>2 DEF Start
<1>4. ASSUME NEW c \in ChildId, HandleReady(c)
      PROVE  TrackedInv'
  <2>1. leaving = None /\ pc = "dispatch" /\ proc' = proc
    BY <1>4 DEF HandleReady, Takes
  <2>2. CASE Promote
    BY <2>1, <2>2 DEF Promote, ChildrenTracked, ChildId
  <2>3. CASE pc' = "baseline" /\ UNCHANGED <<current, pending, leaving, stdin>>
    BY <2>1, <2>3 DEF ChildrenTracked
  <2> QED BY <1>4, <2>2, <2>3 DEF HandleReady
<1>5. ASSUME NEW c \in ChildId, HandleGone(c)
      PROVE  TrackedInv'
  <2>1. leaving = None /\ pc = "dispatch"
    BY <1>5 DEF HandleGone, Takes
  <2>2. CASE IsPending(c)
    BY <1>5, <2>1, <2>2 DEF HandleGone, IsPending, ChildrenTracked, TypeOK, ChildTypeOK
  <2>3. CASE ~IsPending(c)
    BY <1>5, <2>1, <2>3 DEF HandleGone, IsCurrent, ChildrenTracked, TypeOK
  <2> QED BY <2>2, <2>3
<1>6. CASE Retire \/ Quit
  BY <1>6 DEF Retire, Quit, KillChild, ChildrenTracked, TypeOK, ChildTypeOK
<1>7. CASE Reap
  BY <1>7 DEF Reap, ChildrenTracked, TypeOK, ChildTypeOK
<1>8. CASE MeasureBaseline
  BY <1>2, <1>8 DEF MeasureBaseline, childVars, ChildrenTracked
<1>9. CASE ServeNoChange \/ ServeKill \/ Wake \/ \E t \in Timer : Elapse(t)
  BY <1>9 DEF ServeNoChange, ServeKill, Serves, Wake, Elapse, childVars, ChildrenTracked
<1>10. ASSUME NEW v, NEW l, HandleSet(v, l)
       PROVE  TrackedInv'
  BY <1>1, <1>2, <1>10 DEF HandleSet
<1>11. CASE \E paused \in BOOLEAN : SetManualPause(paused)
  BY <1>1, <1>11 DEF SetManualPause
<1>12. CASE ServeReload \/ TickWatch
  <2>1. leaving = None /\ pc \in {"dispatch", "watch"}
    BY <1>12 DEF ServeReload, Serves, TickWatch
  <2>2. CASE pc' = "policy" /\ UNCHANGED <<current, pending, leaving, childVars>>
    BY <2>1, <2>2 DEF ChildrenTracked, childVars
  <2>3. ASSUME NEW next \in {"dispatch", "policy"}, NEW timers, HandleReload(next, timers)
        PROVE  TrackedInv'
    BY <1>2, <2>1, <2>3, ReloadTracked
  <2> QED BY <1>12, <2>2, <2>3 DEF ServeReload, TickWatch
<1>13. CASE ServeRestart
  BY <1>13, RestartTracked DEF ServeRestart, Serves
<1>14. CASE TickRespawn
  <2>1. CASE SpawnOk(config, {current}) /\ current' = next_id
    BY <1>14, <2>1, SpawnTracked DEF TickRespawn
  <2>2. CASE UNCHANGED <<current, childVars>>
    BY <1>14, <2>2 DEF TickRespawn, ChildrenTracked, childVars
  <2> QED BY <1>14, <2>1, <2>2 DEF TickRespawn, SpawnErr
<1>15. CASE TickDeadline
  BY <1>15 DEF TickDeadline, KillChild, ChildrenTracked, TypeOK, ChildTypeOK, childVars
<1>16. CASE TickPolicy
  <2>1. pc = "policy" /\ leaving = None
    BY <1>16 DEF TickPolicy
  <2>2. CASE /\ pc' \in {"killPending", "dispatch"}
             /\ UNCHANGED <<current, leaving>>
             /\ \/ UNCHANGED <<pending, next_id, childVars>>
                \/ \E timers : Restart(config, timers)
    <3>1. CASE UNCHANGED <<pending, next_id, childVars>>
      BY <2>1, <2>2, <3>1 DEF ChildrenTracked, childVars
    <3>2. ASSUME NEW timers, Restart(config, timers)
          PROVE  TrackedInv'
      BY <2>1, <2>2, <3>2, RestartTracked
    <3> QED BY <2>2, <3>1, <3>2
  <2> QED BY <1>2, <1>16, <2>2 DEF TickPolicy
<1>17. CASE KillPending
  <2>1. CASE pending # None
    BY <1>17, <2>1 DEF KillPending, KillChild, ChildrenTracked, TypeOK, ChildTypeOK
  <2>2. CASE pending = None
    BY <1>17, <2>2 DEF KillPending, ChildrenTracked, childVars
  <2> QED BY <2>1, <2>2
<1>18. CASE AskCurrent
  BY <1>18 DEF AskCurrent, ChildrenTracked, TypeOK
<1>19. CASE KilledBySignal
  BY <1>19 DEF KilledBySignal, ChildrenTracked
<1>20. ASSUME NEW c \in ChildId, ChildStep(c), UNCHANGED daemonVars
       PROVE  TrackedInv'
  <2>1. \A d \in ChildId : proc'[d] = "running" => proc[d] = "running"
    BY <1>20 DEF ChildStep, Draw, Crash, LayerClosed, Leave, ReaderStops, Die, TypeOK,
                 ChildTypeOK
  <2>2. stdin' = stdin
    BY <1>20 DEF ChildStep, Draw, Crash, LayerClosed, Leave, ReaderStops, Die
  <2> QED BY <1>20, <2>1, <2>2 DEF daemonVars, ChildrenTracked
<1>21. CASE UNCHANGED vars
  BY <1>1, <1>21 DEF vars, daemonVars, childVars
<1> QED
  BY <1>3, <1>4, <1>5, <1>6, <1>7, <1>8, <1>9, <1>10, <1>11, <1>12, <1>13, <1>14, <1>15,
     <1>16, <1>17, <1>18, <1>19, <1>20, <1>21
  DEF Next, Run, Serve, HandleChildMsg

(* For every number of renderers: a live renderer that can still be        *)
(* commanded is on screen, on its way there, or being waited for.  What a  *)
(* late respawn overwrites is only ever asked to leave, by the end of its  *)
(* stdin.                                                                  *)
THEOREM ChildrenTrackedHolds == Spec => []ChildrenTracked
<1>1. Init => TrackedInv
  BY DEF Init, ChildInit, TrackedInv, LeavingInv, ChildrenTracked
<1>2. TrackedInv => ChildrenTracked
  BY DEF TrackedInv
<1> QED BY <1>1, <1>2, InitType, StepType, TrackedStep, PTL DEF Spec

-----------------------------------------------------------------------------
(* No command is lost: inductive as it stands.                             *)

LEMMA SyncKept ==
  ASSUME PauseAndVideoInSync, UNCHANGED <<manual_pause, video, told>>,
         {current', pending'} \subseteq {current, pending, None}
  PROVE  PauseAndVideoInSync'
BY DEF PauseAndVideoInSync

LEMMA SpawnSync ==
  ASSUME TypeOK, PauseAndVideoInSync, NEW cfg, NEW dropped, SpawnOk(cfg, dropped),
         UNCHANGED <<manual_pause, video>>,
         {current', pending'} \subseteq {current, pending, next_id, None}
  PROVE  PauseAndVideoInSync'
<1> DEFINE settings == [struct |-> cfg.struct, live |-> cfg.live,
                        video |-> video, paused |-> manual_pause]
<1>1. told' = [told EXCEPT ![next_id] = settings]
  BY DEF SpawnOk, SpawnChild
<1>2. settings.paused = manual_pause /\ settings.video = video
  OBVIOUS
<1> HIDE DEF settings
<1>3. next_id \in ChildId
  BY DEF SpawnOk, TypeOK, ChildId
<1>4. told \in [ChildId -> Settings] /\ {current, pending} \subseteq ChildId \cup {None}
  BY DEF TypeOK, ChildTypeOK
<1>5. \A c \in ChildId : told'[c] = IF c = next_id THEN settings ELSE told[c]
  BY <1>1, <1>3, <1>4
<1> QED BY <1>2, <1>3, <1>4, <1>5 DEF PauseAndVideoInSync

LEMMA RestartSync ==
  ASSUME TypeOK, PauseAndVideoInSync, NEW cfg, NEW timers, Restart(cfg, timers),
         UNCHANGED <<manual_pause, video, current>>
  PROVE  PauseAndVideoInSync'
<1>1. CASE UNCHANGED <<pending, childVars>>
  BY <1>1, SyncKept DEF childVars
<1>2. CASE SpawnOk(cfg, {}) /\ pending' = next_id
  BY <1>2, SpawnSync
<1> QED BY <1>1, <1>2 DEF Restart, SpawnErr

LEMMA BroadcastSetSync ==
  ASSUME TypeOK, PauseAndVideoInSync, NEW v, NEW l, BroadcastSet(v, l),
         video' = IF v = Keep THEN video ELSE v,
         UNCHANGED <<manual_pause, current, pending>>
  PROVE  PauseAndVideoInSync'
<1>1. ASSUME NEW s \in Settings
      PROVE  LET r == [s EXCEPT !.video = IF v = Keep THEN @ ELSE v,
                                !.live  = IF l = Keep THEN @ ELSE l]
             IN  r.paused = s.paused /\ r.video = IF v = Keep THEN s.video ELSE v
  BY DEF Settings
<1>2. \A c \in ChildId : told[c] \in Settings
  BY DEF TypeOK, ChildTypeOK
<1>3. \A c \in {current, pending} \ {None} :
         /\ told'[c].paused = told[c].paused
         /\ told'[c].video = IF v = Keep THEN told[c].video ELSE v
  BY <1>1, <1>2 DEF BroadcastSet, TypeOK
<1> QED BY <1>3 DEF PauseAndVideoInSync

LEMMA BroadcastPauseSync ==
  ASSUME TypeOK, PauseAndVideoInSync, NEW paused \in BOOLEAN, BroadcastPause(paused),
         manual_pause' = paused, UNCHANGED <<video, current, pending>>
  PROVE  PauseAndVideoInSync'
<1>1. ASSUME NEW s \in Settings
      PROVE  LET r == [s EXCEPT !.paused = paused]
             IN  r.paused = paused /\ r.video = s.video
  BY DEF Settings
<1>2. \A c \in ChildId : told[c] \in Settings
  BY DEF TypeOK, ChildTypeOK
<1>3. \A c \in {current, pending} \ {None} :
         told'[c].paused = paused /\ told'[c].video = told[c].video
  BY <1>1, <1>2 DEF BroadcastPause, TypeOK
<1> QED BY <1>3 DEF PauseAndVideoInSync

LEMMA ReloadSync ==
  ASSUME TypeOK, PauseAndVideoInSync, NEW next, NEW timers, HandleReload(next, timers)
  PROVE  PauseAndVideoInSync'
<1>1. CASE UNCHANGED <<video, manual_pause, current, pending, childVars>>
  BY <1>1, SyncKept DEF childVars
<1>2. CASE Panic
  BY <1>2, SyncKept DEF Panic
<1>3. ASSUME NEW new, NEW found, ApplyReload(new, found, timers),
             UNCHANGED <<manual_pause, current>>
      PROVE  PauseAndVideoInSync'
  <2>1. CASE Restart(new, ReloadTimers(new, timers)) /\ UNCHANGED video
    BY <1>3, <2>1, RestartSync
  <2>2. CASE UNCHANGED <<pending, video, told>>
    BY <1>3, <2>2, SyncKept
  <2>3. CASE /\ video' = IF NewPath(new) = Keep THEN video ELSE NewPath(new)
             /\ BroadcastSet(NewPath(new), NewLive(new))
             /\ UNCHANGED pending
    BY <1>3, <2>3, BroadcastSetSync
  <2> QED BY <1>3, <2>1, <2>2, <2>3 DEF ApplyReload
<1> QED BY <1>1, <1>2, <1>3 DEF HandleReload

LEMMA SyncStep == TypeOK /\ PauseAndVideoInSync /\ [Next]_vars => PauseAndVideoInSync'
<1> SUFFICES ASSUME TypeOK, PauseAndVideoInSync, [Next]_vars PROVE PauseAndVideoInSync'
  OBVIOUS
<1>1. CASE Start
  BY <1>1, SpawnSync, SyncKept DEF Start, SpawnErr, childVars
<1>2. ASSUME NEW c \in ChildId, HandleReady(c)
      PROVE  PauseAndVideoInSync'
  BY <1>2, SyncKept DEF HandleReady, Promote
<1>3. ASSUME NEW c \in ChildId, HandleGone(c)
      PROVE  PauseAndVideoInSync'
  BY <1>3, SyncKept DEF HandleGone
<1>4. CASE Retire \/ Quit \/ Reap
  BY <1>4, SyncKept DEF Retire, Quit, Reap, KillChild
<1>5. CASE KillPending
  BY <1>5, SyncKept DEF KillPending, KillChild, childVars
<1>6. CASE MeasureBaseline
  BY <1>6, SyncKept DEF MeasureBaseline, Panic, childVars
<1>7. ASSUME NEW v, NEW l, HandleSet(v, l)
      PROVE  PauseAndVideoInSync'
  BY <1>7, BroadcastSetSync, SyncKept DEF HandleSet, Panic
<1>8. ASSUME NEW paused \in BOOLEAN, SetManualPause(paused)
      PROVE  PauseAndVideoInSync'
  BY <1>8, BroadcastPauseSync DEF SetManualPause
<1>9. CASE ServeReload
  BY <1>9, ReloadSync DEF ServeReload
<1>10. CASE ServeRestart
  BY <1>10, RestartSync DEF ServeRestart
<1>11. CASE ServeNoChange \/ ServeKill \/ Wake \/ AskCurrent \/ KilledBySignal
            \/ \E t \in Timer : Elapse(t)
  BY <1>11, SyncKept DEF ServeNoChange, ServeKill, Wake, AskCurrent, KilledBySignal, Elapse,
                         childVars
<1>12. CASE TickRespawn
  BY <1>12, SpawnSync, SyncKept DEF TickRespawn, SpawnErr, childVars
<1>13. CASE TickDeadline
  BY <1>13, SyncKept DEF TickDeadline, KillChild, childVars
<1>14. CASE TickWatch
  BY <1>14, ReloadSync, SyncKept DEF TickWatch, childVars
<1>15. CASE TickPolicy
  BY <1>15, RestartSync, SyncKept DEF TickPolicy, Panic, childVars
<1>16. ASSUME NEW c \in ChildId, ChildStep(c), UNCHANGED daemonVars
       PROVE  PauseAndVideoInSync'
  BY <1>16, SyncKept DEF ChildStep, Draw, Crash, LayerClosed, Leave, ReaderStops, Die,
                         daemonVars
<1>17. CASE UNCHANGED vars
  BY <1>17, SyncKept DEF vars, daemonVars, childVars
<1> QED
  BY <1>1, <1>2, <1>3, <1>4, <1>5, <1>6, <1>7, <1>8, <1>9, <1>10, <1>11, <1>12, <1>13,
     <1>14, <1>15, <1>16, <1>17
  DEF Next, Run, Serve, HandleChildMsg

(* For every number of renderers, videos and configs: after any sequence   *)
(* of spawns, promotions, requests and reloads, the renderer on screen and *)
(* its replacement have been told the video and the pause the daemon       *)
(* holds.                                                                  *)
THEOREM PauseAndVideoInSyncHolds == Spec => []PauseAndVideoInSync
<1>1. Init => PauseAndVideoInSync
  BY DEF Init, PauseAndVideoInSync
<1> QED BY <1>1, InitType, StepType, SyncStep, PTL DEF Spec
=============================================================================
