----------------------------- MODULE HandleProofs -----------------------------
(***************************************************************************)
(* Proofs about the handles the daemon holds on its renderers: how many    *)
(* are under command at a time and at the end, that a death among them is  *)
(* always told, and that an exit asked for is always noticed.              *)
(***************************************************************************)
EXTENDS SuccessionProofs, FiniteSetTheorems

USE ChildAssumption, DaemonAssumption DEF ChildAssumption, DaemonAssumption, AfterTick

-----------------------------------------------------------------------------
(* A handler that blocks is the only owner of the handle it waits on.  The *)
(* renderer retired by promote() has no command pipe any more; reap() has  *)
(* taken the place of what was on screen; at the end of run() both places  *)
(* are emptied one after the other.                                        *)

SlotInv ==
  /\ pc = "retire" => leaving \notin stdin
  /\ pc = "reap" => current = None
  /\ pc \in {"askCurrent", "quit", "stopped"} => pending = None
  /\ pc \in {"quit", "stopped"} => current = None
  /\ pc = "stopped" => leaving = None
  /\ pc \in {"panicked", "killed"} => stdin = {}

LEMMA SlotKept ==
  ASSUME SlotInv, UNCHANGED <<pc, current, pending, leaving, stdin>>
  PROVE  SlotInv'
BY DEF SlotInv

(* No part of the invariant speaks of the places a turn of the loop goes   *)
(* through.                                                                *)
LEMMA SlotFree ==
  ASSUME pc' \in {"dispatch", "baseline", "killPending"} \cup Tick
  PROVE  SlotInv'
BY DEF SlotInv, Tick

LEMMA SlotStep == TypeOK /\ TrackedInv /\ SlotInv /\ [Next]_vars => SlotInv'
<1> SUFFICES ASSUME TypeOK, TrackedInv, SlotInv, [Next]_vars PROVE SlotInv'
  OBVIOUS
<1> USE DEF Tick
<1>1. CASE Panic \/ KilledBySignal
  BY <1>1 DEF Panic, KilledBySignal, SlotInv
<1>2. CASE Start
  BY <1>2, SlotFree DEF Start, TrackedInv, LeavingInv, Blocked, Down, SlotInv
<1>3. ASSUME NEW c \in ChildId, HandleChildMsg(c)
      PROVE  SlotInv'
  <2>1. pc = "dispatch"
    BY <1>3 DEF HandleChildMsg, HandleReady, HandleGone, Takes
  <2>2. CASE pc' \in {"dispatch", "baseline"}
    BY <2>2, SlotFree
  <2>3. CASE Promote /\ pc' = "retire"
    BY <2>3 DEF Promote, SlotInv
  <2>4. CASE current' = None /\ pc' = "reap"
    BY <2>4 DEF SlotInv
  <2> QED BY <1>3, <2>1, <2>2, <2>3, <2>4 DEF HandleChildMsg, HandleReady, HandleGone, Promote
<1>4. CASE Retire \/ Reap \/ MeasureBaseline \/ Wake \/ TickRespawn \/ TickDeadline
  BY <1>1, <1>4, SlotFree DEF Retire, Reap, MeasureBaseline, Wake, TickRespawn, TickDeadline
<1>5. ASSUME NEW next \in {"dispatch", "policy"}, NEW timers, HandleReload(next, timers)
      PROVE  SlotInv'
  BY <1>1, <1>5, SlotFree DEF HandleReload
<1>6. CASE Serve
  <2>1. CASE pc' = "dispatch"
    BY <2>1, SlotFree
  <2>2. CASE Panic
    BY <1>1, <2>2
  <2> QED
    BY <1>5, <1>6, <2>1, <2>2
    DEF Serve, Serves, ServeNoChange, HandleSet, SetManualPause, ServeReload, ServeRestart,
        ServeKill
<1>7. CASE TickWatch \/ TickPolicy
  BY <1>1, <1>5, <1>7, SlotFree DEF TickWatch, TickPolicy
<1>8. CASE KillPending
  BY <1>8 DEF KillPending, SlotInv, TrackedInv, LeavingInv, Blocked, Down
<1>9. CASE AskCurrent \/ Quit
  BY <1>9 DEF AskCurrent, Quit, SlotInv
<1>10. CASE \E t \in Timer : Elapse(t)
  BY <1>10, SlotKept DEF Elapse, childVars
<1>11. ASSUME NEW c \in ChildId, ChildStep(c), UNCHANGED daemonVars
       PROVE  SlotInv'
  BY <1>11, SlotKept
  DEF ChildStep, Draw, Crash, LayerClosed, Leave, ReaderStops, Die, daemonVars
<1>12. CASE UNCHANGED vars
  BY <1>12, SlotKept DEF vars, daemonVars, childVars
<1> QED
  BY <1>1, <1>2, <1>3, <1>4, <1>6, <1>7, <1>8, <1>9, <1>10, <1>11, <1>12 DEF Next, Run

LEMMA HandleInit == Init => TrackedInv /\ SlotInv
BY DEF Init, ChildInit, TrackedInv, LeavingInv, ChildrenTracked, SlotInv

LEMMA CardinalityOfTwo ==
  ASSUME NEW S0, NEW a, NEW b, S0 \subseteq {a, b}
  PROVE  Cardinality(S0) <= 2
<1>1. IsFiniteSet({}) /\ Cardinality({}) = 0
  BY FS_EmptySet
<1>2. IsFiniteSet({a}) /\ Cardinality({a}) = 1
  BY FS_Singleton
<1>3. /\ IsFiniteSet({a} \cup {b})
      /\ Cardinality({a} \cup {b}) = IF b \in {a} THEN Cardinality({a})
                                                  ELSE Cardinality({a}) + 1
  BY <1>2, FS_AddElement
<1>4. {a} \cup {b} = {a, b}
  OBVIOUS
<1>5. /\ Cardinality({a, b}) \in {1, 2}
      /\ IsFiniteSet({a, b})
  BY <1>2, <1>3, <1>4
<1>6. /\ Cardinality(S0) <= Cardinality({a, b})
      /\ IsFiniteSet(S0)
  BY <1>5, FS_Subset
<1>7. Cardinality(S0) \in Nat
  BY <1>6, FS_CardinalityType
<1> QED BY <1>5, <1>6, <1>7

(* The bound, from where the handles are. *)
LEMMA TwoPlaces ==
  ASSUME TrackedInv, SlotInv
  PROVE  \E a, b \in {current, pending, leaving} : Commanded \subseteq {a, b}
<1>1. Commanded \subseteq {current, pending, leaving}
  BY DEF Commanded, TrackedInv, ChildrenTracked
<1>2. CASE leaving \notin Commanded
  BY <1>1, <1>2
<1>3. CASE leaving \in Commanded
  <2>1. leaving \in stdin /\ leaving \in ChildId
    BY <1>3 DEF Commanded
  <2>2. leaving # None
    BY <2>1 DEF ChildId
  <2>3. pc \in {"reap", "quit"}
    BY <2>1, <2>2 DEF SlotInv, TrackedInv, LeavingInv, Blocked, Down
  <2>4. current = None /\ None \notin ChildId
    BY <2>3 DEF SlotInv, ChildId
  <2>5. Commanded \subseteq {pending, leaving}
    BY <1>1, <2>4 DEF Commanded
  <2> QED BY <2>5
<1> QED BY <1>2, <1>3

(* For any number of restarts, crashes and respawns, however they overlap: *)
(* two renderers under command, and never a third.                         *)
THEOREM AtMostTwoRenderersHolds == Spec => []AtMostTwoRenderers
<1>1. TrackedInv /\ SlotInv => AtMostTwoRenderers
  BY TwoPlaces, CardinalityOfTwo DEF AtMostTwoRenderers
<1> QED BY <1>1, HandleInit, InitType, StepType, TrackedStep, SlotStep, PTL DEF Spec

(* run() returns only once no renderer it held is left, whatever was under *)
(* way when it was told to stop.                                           *)
THEOREM LeavesNoneBehindHolds == Spec => []LeavesNoneBehind
<1>1. TrackedInv /\ SlotInv => LeavesNoneBehind
  BY DEF TrackedInv, ChildrenTracked, SlotInv, LeavesNoneBehind, Commanded, ChildId
<1> QED BY <1>1, HandleInit, InitType, StepType, TrackedStep, SlotStep, PTL DEF Spec

-----------------------------------------------------------------------------
(* An exit that was asked for.  It is set by a callback of dispatch(), or  *)
(* by the wait in the middle of one, and a handler that blocks comes back  *)
(* to the same dispatch(), with the callback counted.                      *)

ExitInv ==
  /\ ExitNoticed
  /\ pc \in {"retire", "reap", "baseline"} => served
  /\ pc = "start" => ~exit

LEMMA ExitStep == TypeOK /\ ExitInv /\ [Next]_vars => ExitInv'
<1> SUFFICES ASSUME TypeOK, ExitInv, [Next]_vars PROVE ExitInv'
  OBVIOUS
<1> USE DEF ExitInv, ExitNoticed
<1>1. CASE Panic \/ KilledBySignal
  BY <1>1 DEF Panic, KilledBySignal
<1>2. ASSUME NEW c \in ChildId, HandleChildMsg(c)
      PROVE  ExitInv'
  BY <1>2 DEF HandleChildMsg, HandleReady, HandleGone, Takes, Promote
<1>3. CASE Start \/ Retire \/ Reap \/ MeasureBaseline
  BY <1>1, <1>3 DEF Start, Retire, Reap, MeasureBaseline
<1>4. CASE Wake \/ TickRespawn \/ TickDeadline
  BY <1>4 DEF Wake, TickRespawn, TickDeadline
<1>5. CASE Serve
  <2>1. pc' = "dispatch" \/ Panic
    BY <1>5 DEF Serve, Serves, ServeNoChange, HandleSet, SetManualPause, ServeReload,
                ServeRestart, ServeKill, HandleReload
  <2>2. served'
    BY <1>5 DEF Serve, Serves, ServeNoChange, HandleSet, SetManualPause, ServeReload,
                ServeRestart, ServeKill
  <2> QED BY <1>1, <2>1, <2>2
<1>6. CASE TickWatch \/ TickPolicy
  BY <1>1, <1>6 DEF TickWatch, TickPolicy, HandleReload
<1>7. CASE KillPending \/ AskCurrent \/ Quit
  BY <1>7 DEF KillPending, AskCurrent, Quit
<1>8. CASE UNCHANGED <<pc, exit, served>>
  BY <1>8
<1> QED
  BY <1>1, <1>2, <1>3, <1>4, <1>5, <1>6, <1>7, <1>8
  DEF Next, Run, Elapse, daemonVars, vars

(* However a request to end, a renderer that left, a handover and a tick   *)
(* follow each other: the loop tests `exit' before it sleeps again.        *)
THEOREM ExitNoticedHolds == Spec => []ExitNoticed
<1>1. Init => ExitInv
  BY DEF Init, ExitInv, ExitNoticed
<1>2. ExitInv => ExitNoticed
  BY DEF ExitInv
<1> QED BY <1>1, <1>2, InitType, StepType, ExitStep, PTL DEF Spec

-----------------------------------------------------------------------------
(* The death of a renderer the daemon holds.  The reader thread of a child *)
(* that is dead has ended, and said Gone as it did; the daemon lets go of  *)
(* the child as it takes that Gone.                                        *)

SaysGone(msgs) == \E i \in 1 .. Len(msgs) : msgs[i] = "gone"

DeadUnheard == \A c \in ChildId : proc[c] # "running" => c \notin reading

UnheardTold == \A c \in Held : c \notin reading => SaysGone(report[c])

DeathInv == DeadUnheard /\ UnheardTold

LEMMA GoneAppended ==
  ASSUME NEW msgs \in Seq({"ready", "gone"}), NEW msg \in {"ready", "gone"},
         SaysGone(msgs) \/ msg = "gone"
  PROVE  SaysGone(Append(msgs, msg))
<1>1. Len(Append(msgs, msg)) = Len(msgs) + 1 /\ Len(msgs) \in Nat
  OBVIOUS
<1>2. CASE msg = "gone"
  <2>1. Append(msgs, msg)[Len(msgs) + 1] = "gone"
    BY <1>2
  <2> QED BY <1>1, <2>1 DEF SaysGone
<1>3. CASE SaysGone(msgs)
  <2>1. PICK i \in 1 .. Len(msgs) : msgs[i] = "gone"
    BY <1>3 DEF SaysGone
  <2>2. i \in 1 .. Len(msgs) + 1 /\ Append(msgs, msg)[i] = "gone"
    BY <2>1
  <2> QED BY <1>1, <2>2 DEF SaysGone
<1> QED BY <1>2, <1>3

LEMMA GoneBehindHead ==
  ASSUME NEW msgs \in Seq({"ready", "gone"}), msgs # <<>>, Head(msgs) # "gone", SaysGone(msgs)
  PROVE  SaysGone(Tail(msgs))
<1>1. PICK i \in 1 .. Len(msgs) : msgs[i] = "gone"
  BY DEF SaysGone
<1>2. i # 1
  BY <1>1
<1>3. i - 1 \in 1 .. Len(Tail(msgs)) /\ Tail(msgs)[i - 1] = "gone"
  BY <1>1, <1>2
<1> QED BY <1>3 DEF SaysGone

LEMMA DeathKept ==
  ASSUME DeathInv, UNCHANGED <<proc, reading, report>>, Held' \subseteq Held
  PROVE  DeathInv'
BY DEF DeathInv, DeadUnheard, UnheardTold

(* The end of a child, by itself or by SIGKILL, is reported once.          *)
LEMMA EndDeath ==
  ASSUME TypeOK, DeathInv, NEW c \in ChildId \cup {None}, NEW how \in Dead \cup {"reaped"},
         proc' = [proc EXCEPT ![c] = how], report' = Reported(c, "gone"),
         reading' = reading \ {c}, Held' \subseteq Held
  PROVE  DeathInv'
<1>1. Held \subseteq ChildId /\ how # "running"
  BY DEF Held, TypeOK, Dead
<1>2. DeadUnheard'
  BY DEF DeathInv, DeadUnheard, TypeOK, ChildTypeOK
<1>3. ASSUME NEW d \in Held', d \notin reading'
      PROVE  SaysGone(report'[d])
  <2>1. CASE d \notin reading
    <3>1. report'[d] = report[d]
      BY <1>1, <1>3, <2>1 DEF Reported, TypeOK, ChildTypeOK
    <3>2. SaysGone(report[d])
      BY <1>3, <2>1 DEF DeathInv, UnheardTold
    <3> QED BY <3>1, <3>2
  <2>2. CASE d \in reading
    <3>1. d = c /\ report[c] \in Seq({"ready", "gone"})
      BY <1>1, <1>3, <2>2 DEF TypeOK, ChildTypeOK
    <3>2. report'[c] = Append(report[c], "gone")
      BY <1>1, <2>2, <3>1 DEF Reported, TypeOK, ChildTypeOK
    <3> QED BY <3>1, <3>2, GoneAppended
  <2> QED BY <2>1, <2>2
<1> QED BY <1>2, <1>3 DEF DeathInv, UnheardTold

LEMMA SpawnOkDeath ==
  ASSUME TypeOK, DeathInv, NEW cfg, NEW dropped, SpawnOk(cfg, dropped),
         Held' \subseteq Held \cup {next_id}
  PROVE  DeathInv'
<1>1. next_id \in ChildId
  BY DEF SpawnOk, TypeOK, ChildId
<1>2. /\ \A d \in ChildId : proc'[d] = IF d = next_id THEN "running" ELSE proc[d]
      /\ reading' = reading \cup {next_id}
      /\ report' = report
  BY <1>1 DEF SpawnOk, SpawnChild, TypeOK, ChildTypeOK
<1> QED BY <1>1, <1>2 DEF DeathInv, DeadUnheard, UnheardTold

LEMMA RestartDeath ==
  ASSUME TypeOK, DeathInv, NEW cfg, NEW timers, Restart(cfg, timers), UNCHANGED current
  PROVE  DeathInv'
<1>1. CASE UNCHANGED <<pending, childVars>>
  BY <1>1, DeathKept DEF childVars, Held
<1>2. CASE SpawnOk(cfg, {}) /\ pending' = next_id
  <2>1. Held' \subseteq Held \cup {next_id}
    BY <1>2 DEF Held
  <2> QED BY <1>2, <2>1, SpawnOkDeath
<1> QED BY <1>1, <1>2 DEF Restart, SpawnErr

LEMMA ReloadDeath ==
  ASSUME TypeOK, DeathInv, NEW next, NEW timers, HandleReload(next, timers)
  PROVE  DeathInv'
<1>1. CASE UNCHANGED <<current, pending, proc, reading, report>>
  BY <1>1, DeathKept DEF Held
<1>2. ASSUME NEW new, NEW found, ApplyReload(new, found, timers), UNCHANGED current
      PROVE  DeathInv'
  BY <1>1, <1>2, RestartDeath DEF ApplyReload
<1> QED BY <1>1, <1>2 DEF HandleReload, Panic, childVars

LEMMA ChildStepDeath ==
  ASSUME TypeOK, DeathInv, NEW c \in ChildId, ChildStep(c), UNCHANGED daemonVars
  PROVE  DeathInv'
<1>0. Held' = Held /\ Held \subseteq ChildId
  BY DEF daemonVars, Held, TypeOK
<1>1. CASE Draw(c)
  <2>1. ASSUME NEW d \in Held, SaysGone(report[d])
        PROVE  SaysGone(report'[d])
    <3>1. report[d] \in Seq({"ready", "gone"})
      BY <1>0 DEF TypeOK, ChildTypeOK
    <3>2. report'[d] \in {report[d], Append(report[d], "ready")}
      BY <1>0, <1>1 DEF Draw, Reported, TypeOK, ChildTypeOK
    <3> QED BY <2>1, <3>1, <3>2, GoneAppended
  <2> QED BY <1>0, <1>1, <2>1 DEF Draw, DeathInv, DeadUnheard, UnheardTold
<1>2. CASE \E how \in Dead : Die(c, how)
  BY <1>0, <1>2, EndDeath DEF Die
<1>3. CASE ReaderStops(c)
  <2>1. /\ c \in reading
        /\ report' = [report EXCEPT ![c] = Append(@, "gone")]
        /\ reading' = reading \ {c}
        /\ report \in [ChildId -> Seq({"ready", "gone"})]
    BY <1>3 DEF ReaderStops, TypeOK, ChildTypeOK, Reported
  <2>2. report'[c] = Append(report[c], "gone") /\ report[c] \in Seq({"ready", "gone"})
    BY <2>1
  <2>3. SaysGone(report'[c])
    BY <2>2, GoneAppended
  <2>4. \A d \in ChildId \ {c} : report'[d] = report[d]
    BY <2>1
  <2>5. UNCHANGED proc
    BY <1>3 DEF ReaderStops
  <2> QED BY <1>0, <2>1, <2>3, <2>4, <2>5 DEF DeathInv, DeadUnheard, UnheardTold
<1> QED BY <1>1, <1>2, <1>3 DEF ChildStep, Crash, LayerClosed, Leave, Dead

LEMMA DeathStep ==
  ASSUME TypeOK, SuccessionInv, DeathInv, [Next]_vars
  PROVE  DeathInv'
<1>0. HandlesIssued /\ ChannelInv /\ Held \subseteq ChildId
  BY DEF SuccessionInv, Held, TypeOK
<1>1. CASE UNCHANGED <<current, pending, proc, reading, report>>
  BY <1>1, DeathKept DEF Held
<1>2. CASE Start \/ TickRespawn
  <2>1. ASSUME NEW dropped, SpawnOk(config, dropped), current' = next_id, UNCHANGED pending
        PROVE  DeathInv'
    <3>1. Held' \subseteq Held \cup {next_id}
      BY <2>1 DEF Held
    <3> QED BY <2>1, <3>1, SpawnOkDeath
  <2> QED BY <1>1, <1>2, <2>1 DEF Start, TickRespawn, SpawnErr, childVars
<1>3. ASSUME NEW c \in ChildId, HandleReady(c)
      PROVE  DeathInv'
  <2>1. UNCHANGED <<proc, reading>> /\ Held' \subseteq Held
    BY <1>3 DEF HandleReady, Promote, Held
  <2>2. /\ report[c] \in Seq({"ready", "gone"}) /\ report[c] # <<>> /\ Head(report[c]) = "ready"
        /\ report'[c] = Tail(report[c])
        /\ \A d \in ChildId \ {c} : report'[d] = report[d]
    BY <1>3 DEF HandleReady, Takes, TypeOK, ChildTypeOK
  <2>3. SaysGone(report[c]) => SaysGone(report'[c])
    BY <2>2, GoneBehindHead
  <2>4. \A d \in Held : SaysGone(report[d]) => SaysGone(report'[d])
    BY <1>0, <2>2, <2>3
  <2> QED BY <2>1, <2>4 DEF DeathInv, DeadUnheard, UnheardTold
<1>4. ASSUME NEW c \in ChildId, HandleGone(c)
      PROVE  DeathInv'
  <2>1. /\ Takes(c, "gone") /\ UNCHANGED <<reading, next_id>>
        /\ \A d \in ChildId \ {c} : proc'[d] = proc[d] /\ report'[d] = report[d]
    BY <1>4 DEF HandleGone, Takes, TypeOK, ChildTypeOK
  <2>2. c \notin reading
    <3>1. /\ report[c] \in Seq({"ready", "gone"}) /\ report[c] # <<>>
          /\ report[c][1] = "gone"
      BY <2>1 DEF Takes, TypeOK, ChildTypeOK
    <3>2. 1 \in 1 .. Len(report[c])
      BY <3>1
    <3> QED BY <1>0, <3>1, <3>2 DEF ChannelInv, GoneMeansUnheard
  <2>3. Held' \subseteq Held \ {c}
    BY <1>0, <1>4 DEF HandleGone, IsPending, IsCurrent, Held, HandlesIssued
  <2> QED BY <1>0, <2>1, <2>2, <2>3 DEF DeathInv, DeadUnheard, UnheardTold
<1>5. CASE Reap
  <2>1. \A d \in ChildId : proc'[d] # "running" => proc[d] # "running"
    BY <1>5 DEF Reap, TypeOK, ChildTypeOK, Dead
  <2>2. UNCHANGED <<Held, reading, report>>
    BY <1>5 DEF Reap, Held
  <2> QED BY <2>1, <2>2 DEF DeathInv, DeadUnheard, UnheardTold
<1>6. CASE Retire \/ Quit
  BY <1>6, EndDeath DEF Retire, Quit, KillChild, Held, TypeOK
<1>7. CASE TickDeadline \/ KillPending
  <2>1. CASE UNCHANGED childVars
    BY <1>7, <2>1, DeathKept DEF TickDeadline, KillPending, childVars, Held
  <2>2. CASE pending' = None /\ KillChild(pending) /\ UNCHANGED current
    BY <2>2, EndDeath DEF KillChild, Held, TypeOK
  <2> QED BY <1>7, <2>1, <2>2 DEF TickDeadline, KillPending
<1>8. CASE TickWatch \/ ServeReload
  BY <1>1, <1>8, ReloadDeath DEF TickWatch, ServeReload, childVars
<1>9. CASE TickPolicy \/ ServeRestart
  BY <1>1, <1>9, RestartDeath DEF TickPolicy, ServeRestart, Panic, childVars
<1>10. CASE AskCurrent
  BY <1>10, DeathKept DEF AskCurrent, Held
<1>11. ASSUME NEW c \in ChildId, ChildStep(c), UNCHANGED daemonVars
       PROVE  DeathInv'
  BY <1>11, ChildStepDeath
<1>12. CASE \/ ServeNoChange \/ ServeKill
            \/ \E v \in Videos \cup {Keep}, l \in Lives \cup {Keep} : HandleSet(v, l)
            \/ \E paused \in BOOLEAN : SetManualPause(paused)
            \/ \E t \in Timer : Elapse(t)
            \/ MeasureBaseline \/ Wake \/ KilledBySignal
  BY <1>1, <1>12 DEF ServeNoChange, ServeKill, HandleSet, SetManualPause, Elapse,
                     MeasureBaseline, Wake, KilledBySignal, Panic, childVars
<1>13. CASE UNCHANGED vars
  BY <1>1, <1>13 DEF vars, daemonVars, childVars
<1> QED
  BY <1>2, <1>3, <1>4, <1>5, <1>6, <1>7, <1>8, <1>9, <1>10, <1>11, <1>12, <1>13
  DEF Next, Run, Serve, HandleChildMsg

(* For any number of renderers, with readable output or not: while the     *)
(* daemon holds a dead renderer, the message that will tell it waits in    *)
(* the channel.  No handover, late Gone of another child, or timeout       *)
(* swallows it.                                                            *)
THEOREM DeathHeardHolds == Spec => []DeathHeard
<1>1. Init => DeathInv
  BY DEF Init, ChildInit, DeathInv, DeadUnheard, UnheardTold, Held
<1>2. TypeOK /\ DeathInv => DeathHeard
  BY DEF DeathInv, DeadUnheard, UnheardTold, SaysGone, DeathHeard, Held, TypeOK
<1>3. TypeOK /\ HandoverInv /\ SuccessionInv /\ [Next]_vars => SuccessionInv'
  BY SuccessionStep
<1>4. TypeOK /\ SuccessionInv /\ DeathInv /\ [Next]_vars => DeathInv'
  BY DeathStep
<1> QED
  BY <1>1, <1>2, <1>3, <1>4, SuccessionInit, InitType, StepType, HandoverStep, PTL DEF Spec
=============================================================================
