-------------------------- MODULE SuccessionProofs --------------------------
(***************************************************************************)
(* Daemon implements Succession for any number of renderers.  The argument *)
(* is about what is under way: numbers not given out yet are untouched, a  *)
(* Gone in the channel means that its reader has ended, a Ready that the   *)
(* child has drawn (DaemonProofs), and the loop ends only if told to.      *)
(***************************************************************************)
EXTENDS DaemonProofs, DaemonSuccession

USE ChildAssumption, DaemonAssumption DEF ChildAssumption, DaemonAssumption, AfterTick

FreshChildren ==
  \A c \in ChildId : c >= next_id =>
    proc[c] = "absent" /\ c \notin reading /\ report[c] = <<>>

HandlesIssued ==
  /\ current # None => current < next_id
  /\ pending # None => pending < next_id
  /\ leaving # None => leaving < next_id
  /\ pending # None => pending # current

GoneMeansUnheard ==
  \A c \in ChildId : \A i \in 1 .. Len(report[c]) : report[c][i] = "gone" => c \notin reading

EndsOnExit == pc \in {"killPending", "askCurrent"} => exit

ChannelInv == FreshChildren /\ GoneMeansUnheard
SuccessionInv == ChannelInv /\ HandlesIssued /\ EndsOnExit

-----------------------------------------------------------------------------
(* What the shared operators do to the channel. *)

LEMMA KillChildChannel ==
  ASSUME TypeOK, ChannelInv, NEW c \in ChildId \cup {None}, c # None => c < next_id,
         KillChild(c), UNCHANGED next_id
  PROVE  ChannelInv'
<1>0. ASSUME NEW d \in ChildId, d # c
      PROVE  proc'[d] = proc[d] /\ report'[d] = report[d]
  BY <1>0 DEF KillChild, Reported, TypeOK, ChildTypeOK
<1>1. FreshChildren'
  <2>1. ASSUME NEW d \in ChildId, d >= next_id
        PROVE  d # c
    BY <2>1 DEF ChildId, TypeOK
  <2>2. reading' \subseteq reading
    BY DEF KillChild
  <2> QED BY <1>0, <2>1, <2>2 DEF ChannelInv, FreshChildren
<1>2. ASSUME NEW d \in ChildId, NEW i \in 1 .. Len(report'[d]), report'[d][i] = "gone"
      PROVE  d \notin reading'
  <2>1. CASE d = c
    BY <2>1 DEF KillChild
  <2>2. CASE d # c
    <3>1. report'[d] = report[d]
      BY <1>0, <2>2
    <3> QED BY <1>2, <3>1 DEF KillChild, ChannelInv, GoneMeansUnheard
  <2> QED BY <2>1, <2>2
<1> QED BY <1>1, <1>2 DEF ChannelInv, GoneMeansUnheard

LEMMA SpawnOkChannel ==
  ASSUME TypeOK, ChannelInv, NEW cfg, NEW dropped, SpawnOk(cfg, dropped)
  PROVE  ChannelInv'
<1>1. /\ next_id \in ChildId
      /\ next_id' = next_id + 1
      /\ report' = report
      /\ reading' = reading \cup {next_id}
      /\ proc' = [proc EXCEPT ![next_id] = "running"]
  <2>1. next_id \in ChildId
    BY DEF SpawnOk, TypeOK, ChildId
  <2> QED BY <2>1 DEF SpawnOk, SpawnChild
<1>2. FreshChildren'
  <2>1. ASSUME NEW d \in ChildId, d >= next_id'
        PROVE  d # next_id /\ d >= next_id
    BY <1>1, <2>1 DEF ChildId
  <2>2. ASSUME NEW d \in ChildId, d # next_id
        PROVE  proc'[d] = proc[d]
    BY <1>1, <2>2 DEF TypeOK, ChildTypeOK
  <2> QED BY <1>1, <2>1, <2>2 DEF ChannelInv, FreshChildren
<1>3. report[next_id] = <<>>
  BY <1>1 DEF ChannelInv, FreshChildren, ChildId
<1>4. GoneMeansUnheard'
  BY <1>1, <1>3 DEF ChannelInv, GoneMeansUnheard
<1> QED BY <1>2, <1>4 DEF ChannelInv

LEMMA SpawnErrChannel ==
  ASSUME TypeOK, ChannelInv, SpawnErr
  PROVE  ChannelInv'
BY DEF SpawnErr, childVars, ChannelInv, FreshChildren, GoneMeansUnheard, TypeOK, ChildId

LEMMA TakesChannel ==
  ASSUME TypeOK, ChannelInv, NEW c \in ChildId, NEW msg, Takes(c, msg),
         UNCHANGED <<reading, next_id>>,
         \A d \in ChildId : d >= next_id => proc'[d] = proc[d]
  PROVE  ChannelInv' /\ (msg = "gone" => c \notin reading)
<1>1. /\ report[c] \in Seq({"ready", "gone"}) /\ report[c] # <<>> /\ report[c][1] = msg
      /\ report' = [report EXCEPT ![c] = Tail(@)]
  BY DEF Takes, TypeOK, ChildTypeOK
<1>2. 1 \in 1 .. Len(report[c])
  BY <1>1
<1>3. msg = "gone" => c \notin reading
  BY <1>1, <1>2 DEF ChannelInv, GoneMeansUnheard
<1>4. FreshChildren'
  BY <1>1 DEF ChannelInv, FreshChildren, TypeOK, ChildTypeOK
<1>5. ASSUME NEW d \in ChildId, NEW i \in 1 .. Len(report'[d]), report'[d][i] = "gone"
      PROVE  d \notin reading
  <2>1. CASE d = c
    <3>1. i + 1 \in 1 .. Len(report[c]) /\ report'[c][i] = report[c][i + 1]
      BY <1>1, <1>5, <2>1 DEF TypeOK, ChildTypeOK
    <3> QED BY <1>5, <2>1, <3>1 DEF ChannelInv, GoneMeansUnheard
  <2>2. CASE d # c
    <3>1. report'[d] = report[d]
      BY <1>1, <2>2 DEF TypeOK, ChildTypeOK
    <3> QED BY <1>5, <3>1 DEF ChannelInv, GoneMeansUnheard
  <2> QED BY <2>1, <2>2
<1> QED BY <1>3, <1>4, <1>5 DEF ChannelInv, GoneMeansUnheard

LEMMA ChildStepChannel ==
  ASSUME TypeOK, ChannelInv, NEW c \in ChildId, ChildStep(c), UNCHANGED next_id
  PROVE  ChannelInv'
<1>1. /\ proc[c] = "running"
      /\ reading' \subseteq reading
      /\ \A d \in ChildId \ {c} : proc'[d] = proc[d] /\ report'[d] = report[d]
      /\ report'[c] \in {report[c], Append(report[c], "ready"), Append(report[c], "gone")}
      /\ report'[c] = Append(report[c], "gone") => c \notin reading'
  BY DEF ChildStep, Draw, Crash, LayerClosed, Leave, ReaderStops, Die, Reported, TypeOK,
         ChildTypeOK
<1>2. c < next_id
  BY <1>1 DEF ChannelInv, FreshChildren, TypeOK, ChildId
<1>3. FreshChildren'
  BY <1>1, <1>2 DEF ChannelInv, FreshChildren, ChildId
<1>4. ASSUME NEW d \in ChildId, NEW i \in 1 .. Len(report'[d]), report'[d][i] = "gone"
      PROVE  d \notin reading'
  <2>0. report[c] \in Seq({"ready", "gone"})
    BY DEF TypeOK, ChildTypeOK
  <2>1. CASE report'[d] = report[d]
    BY <1>1, <1>4, <2>1 DEF ChannelInv, GoneMeansUnheard
  <2>2. CASE d = c /\ report'[c] = Append(report[c], "ready")
    <3>1. i \in 1 .. Len(report[c]) /\ report[c][i] = "gone"
      BY <1>4, <2>0, <2>2
    <3> QED BY <1>1, <2>2, <3>1 DEF ChannelInv, GoneMeansUnheard
  <2>3. CASE d = c /\ report'[c] = Append(report[c], "gone")
    BY <1>1, <2>3
  <2> QED BY <1>1, <2>1, <2>2, <2>3
<1> QED BY <1>3, <1>4 DEF ChannelInv, GoneMeansUnheard
-----------------------------------------------------------------------------
(* What the shared operators are in Succession. *)

Simulated == [S!Next]_<<current, pending, Past>>

LEMMA NextIdFresh ==
  ASSUME TypeOK, HandlesIssued, next_id < MaxSpawns
  PROVE  next_id \in ChildId /\ next_id \in S!Fresh
BY DEF TypeOK, HandlesIssued, ChildId, S!Fresh, Past

LEMMA Stutters ==
  ASSUME UNCHANGED <<current, pending, next_id>>
  PROVE  Simulated
BY DEF Simulated, Past

LEMMA SpawnErrSimulated ==
  ASSUME TypeOK, HandlesIssued, SpawnErr, UNCHANGED <<current, pending>>
  PROVE  Simulated
<1>1. CASE next_id' = next_id
  BY <1>1, Stutters
<1>2. CASE next_id < MaxSpawns /\ next_id' = next_id + 1
  <2>1. next_id \in ChildId /\ next_id \in S!Fresh
    BY <1>2, NextIdFresh
  <2>2. Past' = Past \cup {next_id}
    BY <1>2, <2>1 DEF Past, S!Fresh, TypeOK, ChildId
  <2>3. S!Waste(next_id)
    BY <2>1, <2>2 DEF S!Waste
  <2> QED BY <2>1, <2>3 DEF Simulated, S!Next
<1> QED BY <1>1, <1>2 DEF SpawnErr

LEMMA AppearSimulated ==
  ASSUME TypeOK, HandlesIssued, next_id < MaxSpawns, next_id' = next_id + 1,
         current' = next_id, UNCHANGED pending
  PROVE  Simulated
<1>1. next_id \in ChildId /\ next_id \in S!Fresh
  BY NextIdFresh
<1>2. Past' = Past \cup ({current} \ {None})
  BY <1>1 DEF Past, S!Fresh, TypeOK, ChildId, HandlesIssued
<1>3. S!Appear(next_id)
  BY <1>1, <1>2 DEF S!Appear
<1> QED BY <1>1, <1>3 DEF Simulated, S!Next

LEMMA SummonSimulated ==
  ASSUME TypeOK, HandlesIssued, next_id < MaxSpawns, next_id' = next_id + 1,
         pending = None, pending' = next_id, UNCHANGED current
  PROVE  Simulated
<1>1. next_id \in ChildId /\ next_id \in S!Fresh
  BY NextIdFresh
<1>2. Past' = Past
  BY <1>1 DEF Past, S!Fresh, TypeOK, ChildId
<1>3. S!Summon(next_id)
  BY <1>1, <1>2 DEF S!Summon
<1> QED BY <1>1, <1>3 DEF Simulated, S!Next

LEMMA GiveUpSimulated ==
  ASSUME TypeOK, HandlesIssued, pending # None, pending' = None,
         UNCHANGED <<current, next_id>>
  PROVE  Simulated
<1>1. Past' = Past \cup {pending}
  BY DEF Past, TypeOK, ChildId, HandlesIssued
<1>2. S!GiveUpHeir
  BY <1>1 DEF S!GiveUpHeir
<1> QED BY <1>2 DEF Simulated, S!Next
LEMMA SucceedSimulated ==
  ASSUME TypeOK, HandlesIssued, pending # None, pending \in drawn, current' = pending,
         pending' = None, UNCHANGED next_id
  PROVE  Simulated
<1>1. Past' = Past \cup ({current} \ {None})
  BY DEF Past, TypeOK, ChildId, HandlesIssued
<1>2. S!Succeed
  BY <1>1 DEF S!Succeed
<1> QED BY <1>2 DEF Simulated, S!Next

LEMMA LoseSimulated ==
  ASSUME TypeOK, HandlesIssued, current # None, current' = None,
         UNCHANGED <<pending, next_id>>, current \notin reading \/ exit
  PROVE  Simulated
<1>1. Past' = Past \cup {current}
  BY DEF Past, TypeOK, ChildId, HandlesIssued
<1>2. S!LoseOwner
  BY <1>1 DEF S!LoseOwner
<1> QED BY <1>2 DEF Simulated, S!Next

LEMMA RestartSuccession ==
  ASSUME TypeOK, ChannelInv, HandlesIssued, NEW cfg, NEW timers, Restart(cfg, timers),
         UNCHANGED <<current, leaving>>
  PROVE  ChannelInv' /\ HandlesIssued' /\ Simulated
<1>1. CASE UNCHANGED <<pending, next_id, childVars>>
  BY <1>1, Stutters
  DEF childVars, ChannelInv, FreshChildren, GoneMeansUnheard, HandlesIssued
<1>2. CASE SpawnErr /\ UNCHANGED pending
  <2>1. HandlesIssued'
    BY <1>2 DEF SpawnErr, HandlesIssued, TypeOK, ChildId
  <2> QED BY <1>2, <2>1, SpawnErrChannel, SpawnErrSimulated
<1>3. CASE pending = None /\ SpawnOk(cfg, {}) /\ pending' = next_id
  <2>1. HandlesIssued'
    BY <1>3 DEF SpawnOk, HandlesIssued, TypeOK, ChildId
  <2> QED BY <1>3, <2>1, SpawnOkChannel, SummonSimulated DEF SpawnOk
<1> QED BY <1>1, <1>2, <1>3 DEF Restart

LEMMA ReloadSuccession ==
  ASSUME TypeOK, SuccessionInv, NEW next \in {"dispatch", "policy"}, NEW timers,
         HandleReload(next, timers)
  PROVE  SuccessionInv' /\ Simulated
<1> USE DEF SuccessionInv
<1>1. EndsOnExit'
  BY DEF HandleReload, Panic, EndsOnExit
<1>2. CASE UNCHANGED <<current, pending, leaving, next_id, proc, reading, report>>
  BY <1>1, <1>2, Stutters
  DEF ChannelInv, FreshChildren, GoneMeansUnheard, HandlesIssued
<1>3. ASSUME NEW cfg, NEW t, Restart(cfg, t), UNCHANGED <<current, leaving>>
      PROVE  SuccessionInv' /\ Simulated
  BY <1>1, <1>3, RestartSuccession
<1>4. ASSUME NEW new, NEW found, ApplyReload(new, found, timers),
             UNCHANGED <<current, leaving>>
      PROVE  SuccessionInv' /\ Simulated
  <2>1. CASE Restart(new, ReloadTimers(new, timers))
    BY <1>3, <1>4, <2>1
  <2>2. CASE UNCHANGED <<pending, next_id, proc, drawn, stdin, reading, report>>
    BY <1>2, <1>4, <2>2
  <2> QED BY <1>4, <2>1, <2>2 DEF ApplyReload
<1> QED BY <1>2, <1>4 DEF HandleReload, Panic, childVars
-----------------------------------------------------------------------------
(* Every step of the daemon keeps the invariant and is a step of           *)
(* Succession or changes neither owner nor heir.                           *)

LEMMA SuccessionStep ==
  ASSUME TypeOK, HandoverInv, SuccessionInv, [Next]_vars
  PROVE  SuccessionInv' /\ Simulated
<1> USE DEF SuccessionInv
<1>1. ASSUME UNCHANGED <<current, pending, next_id, proc, reading, report>>,
             leaving' \in {leaving, current, None}, EndsOnExit'
      PROVE  SuccessionInv' /\ Simulated
  BY <1>1, Stutters DEF ChannelInv, FreshChildren, GoneMeansUnheard, HandlesIssued
<1>2. CASE Start \/ TickRespawn
  <2>1. EndsOnExit'
    BY <1>2 DEF Start, TickRespawn, EndsOnExit
  <2>2. ASSUME NEW dropped, SpawnOk(config, dropped), current' = next_id,
               UNCHANGED <<pending, leaving>>
        PROVE  SuccessionInv' /\ Simulated
    <3>1. HandlesIssued'
      BY <2>2 DEF SpawnOk, HandlesIssued, TypeOK, ChildId
    <3> QED BY <2>1, <2>2, <3>1, SpawnOkChannel, AppearSimulated DEF SpawnOk
  <2>3. ASSUME SpawnErr, UNCHANGED <<current, pending, leaving>>
        PROVE  SuccessionInv' /\ Simulated
    <3>1. HandlesIssued'
      BY <2>3 DEF SpawnErr, HandlesIssued, TypeOK, ChildId
    <3> QED BY <2>1, <2>3, <3>1, SpawnErrChannel, SpawnErrSimulated
  <2>4. ASSUME UNCHANGED <<current, pending, leaving, next_id, childVars>>
        PROVE  SuccessionInv' /\ Simulated
    BY <1>1, <2>1, <2>4 DEF childVars
  <2> QED BY <1>2, <2>2, <2>3, <2>4 DEF Start, TickRespawn
<1>3. ASSUME NEW c \in ChildId, HandleReady(c)
      PROVE  SuccessionInv' /\ Simulated
  <2>1. ChannelInv' /\ EndsOnExit'
    BY <1>3, TakesChannel DEF HandleReady, Takes, Promote, EndsOnExit
  <2>2. c \in drawn
    BY <1>3, TakesReady DEF HandleReady, HandoverInv, TypeOK
  <2>3. CASE pending = c
    <3>1. HandlesIssued'
      BY <1>3, <2>3 DEF HandleReady, IsPending, Promote, HandlesIssued
    <3>2. c # None
      BY DEF ChildId
    <3> QED BY <1>3, <2>1, <2>2, <2>3, <3>1, <3>2, SucceedSimulated
            DEF HandleReady, IsPending, Promote
  <2>4. CASE pending # c
    BY <1>3, <2>1, <2>4, Stutters DEF HandleReady, IsPending, HandlesIssued
  <2> QED BY <2>3, <2>4
<1>4. ASSUME NEW c \in ChildId, HandleGone(c)
      PROVE  SuccessionInv' /\ Simulated
  <2>1. c # None
    BY DEF ChildId
  <2>2. EndsOnExit'
    BY <1>4 DEF HandleGone, Takes, EndsOnExit
  <2>3. CASE pending = c
    <3>1. \A d \in ChildId : d >= next_id => proc'[d] = proc[d]
      BY <1>4, <2>3 DEF HandleGone, IsPending, HandlesIssued, TypeOK, ChildTypeOK, ChildId
    <3>2. ChannelInv'
      BY <1>4, <3>1, TakesChannel DEF HandleGone
    <3>3. HandlesIssued'
      BY <1>4, <2>3 DEF HandleGone, IsPending, HandlesIssued
    <3> QED BY <1>4, <2>1, <2>2, <2>3, <3>2, <3>3, GiveUpSimulated DEF HandleGone, IsPending
  <2>4. CASE pending # c
    <3>1. ChannelInv' /\ c \notin reading
      BY <1>4, <2>4, TakesChannel DEF HandleGone, IsPending
    <3>2. HandlesIssued'
      BY <1>4, <2>4 DEF HandleGone, IsPending, IsCurrent, HandlesIssued
    <3>3. CASE current = c
      BY <1>4, <2>1, <2>2, <2>4, <3>1, <3>2, <3>3, LoseSimulated
      DEF HandleGone, IsPending, IsCurrent
    <3>4. CASE current # c
      BY <1>4, <2>2, <2>4, <3>1, <3>2, <3>4, Stutters DEF HandleGone, IsPending, IsCurrent
    <3> QED BY <3>3, <3>4
  <2> QED BY <2>3, <2>4
<1>5. CASE Reap
  <2>1. ASSUME NEW d \in ChildId, d >= next_id
        PROVE  proc'[d] = proc[d]
    BY <1>5, <2>1 DEF Reap, HandlesIssued, TypeOK, ChildTypeOK, ChildId
  <2>2. ChannelInv'
    BY <1>5, <2>1 DEF Reap, ChannelInv, FreshChildren, GoneMeansUnheard
  <2> QED BY <1>5, <2>2, Stutters DEF Reap, EndsOnExit, HandlesIssued
<1>6. CASE Retire \/ Quit
  <2>1. KillChild(leaving) /\ leaving' = None /\ UNCHANGED <<current, pending, next_id>>
    BY <1>6 DEF Retire, Quit
  <2>2. ChannelInv'
    BY <2>1, KillChildChannel DEF HandlesIssued, TypeOK
  <2> QED BY <1>6, <2>1, <2>2, Stutters DEF Retire, Quit, EndsOnExit, HandlesIssued
<1>7. CASE TickDeadline \/ KillPending
  <2>1. EndsOnExit' /\ UNCHANGED <<current, leaving, next_id>>
    BY <1>7 DEF TickDeadline, KillPending, EndsOnExit
  <2>2. CASE UNCHANGED <<pending, childVars>>
    BY <1>1, <2>1, <2>2 DEF childVars
  <2>3. CASE pending # None /\ pending' = None /\ KillChild(pending)
    <3>1. ChannelInv'
      BY <2>1, <2>3, KillChildChannel DEF HandlesIssued, TypeOK
    <3> QED BY <2>1, <2>3, <3>1, GiveUpSimulated DEF HandlesIssued
  <2> QED BY <1>7, <2>2, <2>3 DEF TickDeadline, KillPending
<1>8. CASE TickWatch \/ ServeReload
  <2>1. CASE UNCHANGED <<current, pending, leaving, next_id, childVars>> /\ pc' = "policy"
    BY <1>1, <2>1 DEF childVars, EndsOnExit
  <2> QED BY <1>8, <2>1, ReloadSuccession DEF TickWatch, ServeReload
<1>9. CASE TickPolicy \/ ServeRestart
  <2>1. EndsOnExit'
    BY <1>9 DEF TickPolicy, ServeRestart, Serves, Panic, EndsOnExit
  <2>2. ASSUME NEW timers, Restart(config, timers), UNCHANGED <<current, leaving>>
        PROVE  SuccessionInv' /\ Simulated
    BY <2>1, <2>2, RestartSuccession
  <2>3. CASE UNCHANGED <<current, pending, leaving, next_id, proc, reading, report>>
    BY <1>1, <2>1, <2>3
  <2> QED BY <1>9, <2>2, <2>3 DEF TickPolicy, ServeRestart, Panic, childVars
<1>10. CASE AskCurrent
  <2>1. exit /\ ChannelInv' /\ HandlesIssued' /\ EndsOnExit'
    BY <1>10 DEF AskCurrent, EndsOnExit, ChannelInv, FreshChildren, GoneMeansUnheard,
                 HandlesIssued
  <2>2. CASE current = None
    BY <1>10, <2>1, <2>2, Stutters DEF AskCurrent
  <2>3. CASE current # None
    BY <1>10, <2>1, <2>3, LoseSimulated DEF AskCurrent
  <2> QED BY <2>1, <2>2, <2>3
<1>11. ASSUME NEW c \in ChildId, ChildStep(c), UNCHANGED daemonVars
       PROVE  SuccessionInv' /\ Simulated
  BY <1>11, ChildStepChannel, Stutters DEF daemonVars, EndsOnExit, HandlesIssued
<1>12. CASE \/ ServeNoChange \/ ServeKill
            \/ \E v \in Videos \cup {Keep}, l \in Lives \cup {Keep} : HandleSet(v, l)
            \/ \E paused \in BOOLEAN : SetManualPause(paused)
            \/ \E t \in Timer : Elapse(t)
            \/ MeasureBaseline \/ Wake \/ KilledBySignal
  BY <1>1, <1>12 DEF ServeNoChange, ServeKill, HandleSet, SetManualPause, Elapse, Serves,
                     MeasureBaseline, Wake, KilledBySignal, Panic, childVars, EndsOnExit
<1>13. CASE UNCHANGED vars
  BY <1>1, <1>13 DEF vars, daemonVars, childVars, EndsOnExit
<1> QED
  BY <1>2, <1>3, <1>4, <1>5, <1>6, <1>7, <1>8, <1>9, <1>10, <1>11, <1>12, <1>13
  DEF Next, Run, Serve, HandleChildMsg

LEMMA SuccessionInit == Init => SuccessionInv /\ S!Init /\ HandoverInv
BY DEF Init, ChildInit, SuccessionInv, ChannelInv, FreshChildren, GoneMeansUnheard,
       HandlesIssued, EndsOnExit, S!Init, Past, HandoverInv, ReadyMeansDrawn,
       HandoverAfterDraw, ChildId

(* The daemon implements Succession: however late the Ready and Gone of    *)
(* earlier renderers are, only the heir succeeds, with its frame on        *)
(* screen, and the owner is given up only if it cannot be heard.           *)
THEOREM Implements == Spec => ImplementsSuccession
<1>1. TypeOK /\ HandoverInv /\ SuccessionInv /\ [Next]_vars
        => SuccessionInv' /\ [S!Next]_<<current, pending, Past>>
  BY SuccessionStep DEF Simulated
<1> QED
  BY <1>1, SuccessionInit, InitType, StepType, HandoverStep, PTL
  DEF Spec, ImplementsSuccession, S!Spec

(* A renderer the daemon has let go of never comes back as the one on      *)
(* screen nor as a replacement, though its messages may still arrive.      *)
(* Succession promises it.                                                 *)
THEOREM RetiredStaysRetired == Spec => S!NeverBack
<1> DEFINE OnceOnly == Past \subseteq Past' /\ {current', pending'} \cap Past = {}
<1>1. TypeOK /\ [S!Next]_<<current, pending, Past>>
        => [OnceOnly]_<<current, pending, Past>>
  <2> SUFFICES ASSUME TypeOK, S!Next PROVE OnceOnly
    OBVIOUS
  <2>1. None \notin Past /\ current \notin Past /\ pending \notin Past
    BY DEF Past, ChildId
  <2>2. ASSUME NEW c \in ChildId, S!Appear(c) \/ S!Summon(c) \/ S!Waste(c)
        PROVE  OnceOnly
    BY <2>1, <2>2 DEF S!Appear, S!Summon, S!Waste, S!Fresh
  <2>3. CASE S!Succeed \/ S!GiveUpHeir \/ S!LoseOwner
    BY <2>1, <2>3 DEF S!Succeed, S!GiveUpHeir, S!LoseOwner
  <2> QED BY <2>2, <2>3 DEF S!Next
<1> QED
  BY <1>1, Implements, InitType, StepType, PTL
  DEF Spec, ImplementsSuccession, S!Spec, S!NeverBack
-----------------------------------------------------------------------------
(* A renderer is lost only if it is dead.  `Not heard' becomes `dead' once *)
(* every line of a renderer is UTF-8: then a reader thread ends only with  *)
(* its process.  And a child that is held has not been reaped: the one a   *)
(* handler waits on is neither on screen nor the replacement.              *)

RunningHeard == \A c \in ChildId : proc[c] = "running" => c \in reading

Held == {current, pending} \ {None}

HeldUnreaped ==
  /\ \A c \in Held : proc[c] \in {"running"} \cup Dead
  /\ leaving # None => leaving \notin Held

HeldInv == RunningHeard /\ HeldUnreaped

LEMMA KillChildHeld ==
  ASSUME TypeOK, HeldInv, NEW c \in ChildId \cup {None}, c \notin Held', Held' \subseteq Held,
         KillChild(c)
  PROVE  RunningHeard' /\ \A d \in Held' : proc'[d] \in {"running"} \cup Dead
<1>1. \A d \in ChildId : proc'[d] = IF d = c THEN "reaped" ELSE proc[d]
  BY DEF KillChild, TypeOK, ChildTypeOK
<1>2. reading' = reading \ {c}
  BY DEF KillChild
<1>3. Held' \subseteq ChildId
  BY DEF Held, TypeOK
<1> QED BY <1>1, <1>2, <1>3 DEF HeldInv, RunningHeard, HeldUnreaped

LEMMA SpawnOkHeld ==
  ASSUME TypeOK, HandlesIssued, HeldInv, NEW cfg, NEW dropped, SpawnOk(cfg, dropped),
         Held' \subseteq Held \cup {next_id}, UNCHANGED leaving
  PROVE  HeldInv'
<1>1. next_id \in ChildId
  BY DEF SpawnOk, TypeOK, ChildId
<1>2. /\ \A d \in ChildId : proc'[d] = IF d = next_id THEN "running" ELSE proc[d]
      /\ reading' = reading \cup {next_id}
  BY <1>1 DEF SpawnOk, SpawnChild, TypeOK, ChildTypeOK
<1>3. RunningHeard'
  BY <1>2 DEF HeldInv, RunningHeard
<1>4. leaving # next_id
  BY <1>1 DEF HandlesIssued, TypeOK, ChildId
<1>5. Held \subseteq ChildId
  BY DEF Held, TypeOK
<1> QED BY <1>1, <1>2, <1>3, <1>4, <1>5 DEF HeldInv, HeldUnreaped

LEMMA HeldKept ==
  ASSUME HeldInv, UNCHANGED <<proc, reading, leaving>>, Held' \subseteq Held
  PROVE  HeldInv'
BY DEF HeldInv, RunningHeard, HeldUnreaped

LEMMA RestartHeld ==
  ASSUME TypeOK, HandlesIssued, HeldInv, NEW cfg, NEW timers, Restart(cfg, timers),
         UNCHANGED <<current, leaving>>
  PROVE  HeldInv'
<1>1. CASE UNCHANGED <<pending, childVars>>
  BY <1>1, HeldKept DEF childVars, Held
<1>2. CASE SpawnOk(cfg, {}) /\ pending' = next_id
  <2>1. Held' \subseteq Held \cup {next_id}
    BY <1>2 DEF Held
  <2> QED BY <1>2, <2>1, SpawnOkHeld
<1> QED BY <1>1, <1>2 DEF Restart, SpawnErr

LEMMA ReloadHeld ==
  ASSUME TypeOK, HandlesIssued, HeldInv, NEW next, NEW timers, HandleReload(next, timers)
  PROVE  HeldInv'
<1>1. CASE UNCHANGED <<current, pending, leaving, proc, reading>>
  BY <1>1, HeldKept DEF Held
<1>2. ASSUME NEW new, NEW found, ApplyReload(new, found, timers),
             UNCHANGED <<current, leaving>>
      PROVE  HeldInv'
  BY <1>1, <1>2, RestartHeld DEF ApplyReload
<1> QED BY <1>1, <1>2 DEF HandleReload, Panic, childVars

LEMMA ChildStepHeld ==
  ASSUME UnreadableOutput = FALSE, TypeOK, HeldInv, NEW c \in ChildId, ChildStep(c),
         UNCHANGED daemonVars
  PROVE  HeldInv'
<1>1. \/ UNCHANGED <<proc, reading>>
      \/ \E how \in Dead : /\ proc' = [proc EXCEPT ![c] = how]
                           /\ reading' = reading \ {c}
  BY DEF ChildStep, Draw, Crash, LayerClosed, Leave, ReaderStops, Die, Dead
<1>2. CASE UNCHANGED <<proc, reading>>
  BY <1>2, HeldKept DEF daemonVars, Held
<1>3. ASSUME NEW how \in Dead, proc' = [proc EXCEPT ![c] = how], reading' = reading \ {c}
      PROVE  HeldInv'
  <2>1. \A d \in ChildId : proc'[d] = IF d = c THEN how ELSE proc[d]
    BY <1>3 DEF TypeOK, ChildTypeOK
  <2>2. Held \subseteq ChildId /\ UNCHANGED <<Held, leaving>>
    BY DEF Held, TypeOK, daemonVars
  <2> QED BY <1>3, <2>1, <2>2 DEF HeldInv, RunningHeard, HeldUnreaped, Dead
<1> QED BY <1>1, <1>2, <1>3

LEMMA HeldStep ==
  ASSUME UnreadableOutput = FALSE, TypeOK, SuccessionInv, HeldInv, [Next]_vars
  PROVE  HeldInv'
<1>0. HandlesIssued /\ Held \subseteq ChildId
  BY DEF SuccessionInv, Held, TypeOK
<1>1. CASE UNCHANGED <<current, pending, leaving, proc, reading>>
  BY <1>1, HeldKept DEF Held
<1>2. CASE Start \/ TickRespawn
  <2>1. ASSUME NEW dropped, SpawnOk(config, dropped), current' = next_id,
               UNCHANGED <<pending, leaving>>
        PROVE  HeldInv'
    <3>1. Held' \subseteq Held \cup {next_id}
      BY <2>1 DEF Held
    <3> QED BY <1>0, <2>1, <3>1, SpawnOkHeld
  <2> QED BY <1>1, <1>2, <2>1 DEF Start, TickRespawn, SpawnErr, childVars
<1>3. ASSUME NEW c \in ChildId, HandleReady(c)
      PROVE  HeldInv'
  <2>1. UNCHANGED <<proc, reading>> /\ Held' \subseteq Held
    BY <1>3 DEF HandleReady, Takes, Promote, Held
  <2>2. leaving' # None => leaving' \notin Held'
    BY <1>0, <1>3 DEF HandleReady, IsPending, Promote, HeldInv, HeldUnreaped, Held,
                      HandlesIssued
  <2> QED BY <2>1, <2>2 DEF HeldInv, RunningHeard, HeldUnreaped
<1>4. ASSUME NEW c \in ChildId, HandleGone(c)
      PROVE  HeldInv'
  <2>1. CASE pending = c
    <3>1. Held' = Held \ {c} /\ UNCHANGED <<leaving, reading>>
      BY <1>0, <1>4, <2>1 DEF HandleGone, IsPending, Held, HandlesIssued, ChildId
    <3>2. \A d \in ChildId : proc'[d] = IF d = c THEN "reaped" ELSE proc[d]
      BY <1>4, <2>1 DEF HandleGone, IsPending, TypeOK, ChildTypeOK
    <3> QED BY <1>0, <3>1, <3>2 DEF HeldInv, RunningHeard, HeldUnreaped
  <2>2. CASE pending # c
    <3>1. UNCHANGED <<proc, reading>> /\ Held' \subseteq Held
      BY <1>4, <2>2 DEF HandleGone, IsPending, Held
    <3>2. leaving' # None => leaving' \notin Held'
      BY <1>0, <1>4, <2>2 DEF HandleGone, IsPending, HeldInv, HeldUnreaped, Held,
                              HandlesIssued
    <3> QED BY <3>1, <3>2 DEF HeldInv, RunningHeard, HeldUnreaped
  <2> QED BY <2>1, <2>2
<1>5. CASE Reap
  <2>1. \A d \in ChildId : proc'[d] = IF d = leaving THEN "reaped" ELSE proc[d]
    BY <1>5 DEF Reap, TypeOK, ChildTypeOK
  <2>2. UNCHANGED <<Held, reading>> /\ leaving' = None
    BY <1>5 DEF Reap, Held
  <2>3. leaving \notin Held
    BY DEF HeldInv, HeldUnreaped, Held
  <2> QED BY <1>0, <2>1, <2>2, <2>3 DEF HeldInv, RunningHeard, HeldUnreaped
<1>6. CASE Retire \/ Quit
  <2>1. KillChild(leaving) /\ leaving' = None /\ Held' = Held
    BY <1>6 DEF Retire, Quit, Held
  <2>2. leaving \notin Held' /\ leaving \in ChildId \cup {None}
    BY <2>1 DEF HeldInv, HeldUnreaped, Held, TypeOK
  <2> QED BY <2>1, <2>2, KillChildHeld DEF HeldInv, HeldUnreaped
<1>7. CASE TickDeadline \/ KillPending
  <2>1. CASE UNCHANGED <<pending, childVars>>
    BY <1>1, <1>7, <2>1 DEF TickDeadline, KillPending, childVars
  <2>2. CASE pending # None /\ pending' = None /\ KillChild(pending)
    <3>1. UNCHANGED <<current, leaving>>
      BY <1>7 DEF TickDeadline, KillPending
    <3>2. Held' = Held \ {pending} /\ pending \in ChildId
      BY <1>0, <2>2, <3>1 DEF Held, HandlesIssued, TypeOK
    <3> QED BY <2>2, <3>1, <3>2, KillChildHeld DEF HeldInv, HeldUnreaped
  <2> QED BY <1>7, <2>1, <2>2 DEF TickDeadline, KillPending
<1>8. CASE TickWatch \/ ServeReload
  BY <1>0, <1>1, <1>8, ReloadHeld DEF TickWatch, ServeReload, childVars
<1>9. CASE TickPolicy \/ ServeRestart
  BY <1>0, <1>1, <1>9, RestartHeld DEF TickPolicy, ServeRestart, Panic, childVars
<1>10. CASE AskCurrent
  <2>1. /\ UNCHANGED <<proc, reading>>
        /\ Held' \subseteq Held
        /\ leaving' # None => leaving' \notin Held'
    BY <1>0, <1>10 DEF AskCurrent, Held, HandlesIssued
  <2> QED BY <2>1 DEF HeldInv, RunningHeard, HeldUnreaped
<1>11. ASSUME NEW c \in ChildId, ChildStep(c), UNCHANGED daemonVars
       PROVE  HeldInv'
  BY <1>11, ChildStepHeld
<1>12. CASE \/ ServeNoChange \/ ServeKill
            \/ \E v \in Videos \cup {Keep}, l \in Lives \cup {Keep} : HandleSet(v, l)
            \/ \E paused \in BOOLEAN : SetManualPause(paused)
            \/ \E t \in Timer : Elapse(t)
            \/ MeasureBaseline \/ Wake \/ KilledBySignal
  BY <1>1, <1>12 DEF ServeNoChange, ServeKill, HandleSet, SetManualPause, Elapse,
                     MeasureBaseline, Wake, KilledBySignal, Panic, childVars
<1>13. CASE UNCHANGED vars
  BY <1>1, <1>13 DEF vars, daemonVars, childVars
<1> QED
  BY <1>2, <1>3, <1>4, <1>5, <1>6, <1>7, <1>8, <1>9, <1>10, <1>11, <1>12, <1>13
  DEF Next, Run, Serve, HandleChildMsg

(* As long as what a renderer prints can be read, the daemon never lets go *)
(* of a living one without a successor, unless it is stopping: a Gone left *)
(* in the channel by a retired child knocks out nobody.                    *)
THEOREM LostOnlyIfDeadHolds ==
  ASSUME UnreadableOutput = FALSE
  PROVE  Spec => LostOnlyIfDead
<1>1. Init => HeldInv
  BY DEF Init, ChildInit, HeldInv, RunningHeard, HeldUnreaped, Held
<1>2. TypeOK /\ SuccessionInv /\ HeldInv /\ [Next]_vars => HeldInv'
  BY HeldStep
<1>3. TypeOK /\ HandoverInv /\ SuccessionInv /\ [Next]_vars => SuccessionInv'
  BY SuccessionStep
<1>4. TypeOK /\ HandoverInv /\ SuccessionInv /\ HeldInv /\ [Next]_vars
        => [current # None /\ current' = None => exit \/ proc[current] \in Dead]_vars
  <2> SUFFICES ASSUME TypeOK, HandoverInv, SuccessionInv, HeldInv, [Next]_vars,
                      current # None, current' = None
               PROVE  exit \/ proc[current] \in Dead
    OBVIOUS
  <2>1. Simulated
    BY SuccessionStep
  <2>2. current \notin reading \/ exit
    BY <2>1 DEF Simulated, S!Next, S!Appear, S!Summon, S!Waste, S!Succeed, S!GiveUpHeir,
                S!LoseOwner, ChildId
  <2>3. current \in Held /\ current \in ChildId
    BY DEF Held, TypeOK
  <2> QED BY <2>2, <2>3 DEF HeldInv, HeldUnreaped, RunningHeard
<1> QED
  BY <1>1, <1>2, <1>3, <1>4, SuccessionInit, InitType, StepType, HandoverStep, PTL
  DEF Spec, LostOnlyIfDead
=============================================================================
