-------------------------- MODULE ConfigFileProofs --------------------------
(***************************************************************************)
(* Proofs about ConfigFile, for any configs and any number of edits.  The  *)
(* arguments rest on the mtime: a write gives the file one that no poll    *)
(* has seen; and on the load: what it returned is applied before any other.*)
(***************************************************************************)
EXTENDS ConfigFile, TLAPS

USE ConfigFileAssumption DEF ConfigFileAssumption

LEMMA LoadedConfigs == ASSUME NEW f \in File PROVE Loaded(f) \subseteq Configs
BY DEF Loaded, File

LEMMA SyncWatchType ==
  ASSUME TypeOK, NEW cfg \in Configs, SyncWatch(cfg)
  PROVE  /\ seen' \in {{}} \cup {{n} : n \in 0 .. MaxWrites}
         /\ {watching', changed', due', moved', quiet'} \subseteq BOOLEAN
BY DEF SyncWatch, TypeOK, mtime, lookVars

LEMMA InitType == Init => TypeOK
<1> SUFFICES ASSUME Init PROVE TypeOK
  OBVIOUS
<1>1. file \in File /\ read \in File /\ writes \in 0 .. MaxWrites /\ pc = "start"
  BY DEF Init
<1>2. {config, got} \subseteq Configs
  BY DEF Init
<1>3. seen = {} /\ {given, watching, changed, due, tweaked, blind, moved, quiet} \subseteq BOOLEAN
  BY DEF Init
<1> QED BY <1>1, <1>2, <1>3 DEF TypeOK

LEMMA StepType == TypeOK /\ [Next]_vars => TypeOK'
<1> SUFFICES ASSUME TypeOK, [Next]_vars PROVE TypeOK'
  OBVIOUS
<1> USE DEF editVars, watchVars, lookVars
<1>1. ASSUME NEW next \in {"new", "apply"}, NEW otherwise \in {"failed", "dispatch"},
             Load(next, otherwise)
      PROVE  TypeOK'
  <2>1. Loaded(file) \subseteq Configs
    BY LoadedConfigs DEF TypeOK
  <2> QED BY <1>1, <2>1 DEF Load, TypeOK
<1>2. CASE Start
  BY <1>1, <1>2 DEF Start
<1>3. CASE Reload
  BY <1>1, <1>3 DEF Reload
<1>4. CASE New \/ ApplyReload
  BY <1>4, SyncWatchType DEF New, ApplyReload, TypeOK
<1>5. CASE Poll
  BY <1>5 DEF Poll, TypeOK, mtime
<1>6. CASE ServeReload \/ Elapse
  BY <1>6 DEF ServeReload, Elapse, TypeOK
<1>7. ASSUME NEW f \in File, Edit(f)
      PROVE  TypeOK'
  BY <1>7 DEF Edit, TypeOK
<1>8. ASSUME NEW l \in Lives, Set(l)
      PROVE  TypeOK'
  BY <1>8 DEF Set, TypeOK
<1>9. CASE UNCHANGED vars
  BY <1>9 DEF vars, TypeOK
<1> QED BY <1>2, <1>3, <1>4, <1>5, <1>6, <1>7, <1>8, <1>9 DEF Next, Daemon

(* The variables of the watcher and of the reload have their types: what   *)
(* is in force is always a config, whatever the file says.                 *)
THEOREM TypeCorrect == Spec => []TypeOK
BY InitType, StepType, PTL DEF Spec

-----------------------------------------------------------------------------
(* The look of the watcher.  Inductive with what holds while a load waits  *)
(* to be applied, and with the order of the mtimes.                        *)

Noticed == read = file \/ seen # mtime \/ changed \/ blind

LookInv ==
  /\ watching /\ pc \in {"dispatch", "apply"} => Noticed
  /\ pc \in {"new", "apply"} /\ ~watching => read = file \/ blind
  /\ pc \in {"start", "new"} => ~watching
  /\ \A n \in seen : n <= writes
  /\ moved /\ file # Absent => seen # mtime
  /\ pc = "poll" /\ ~moved /\ file # Absent => quiet

LEMMA LookStep ==
  ASSUME TypeOK, LookInv, [Next]_vars
  PROVE  LookInv'
<1> USE DEF LookInv, Noticed, mtime, editVars, watchVars, lookVars
<1>1. ASSUME NEW next, NEW otherwise, Load(next, otherwise), pc' # "new" \/ ~watching,
             pc' \notin {"start", "poll"}
      PROVE  LookInv'
  BY <1>1 DEF Load
<1>2. CASE Start
  BY <1>1, <1>2 DEF Start, Load
<1>3. CASE Reload
  BY <1>1, <1>3 DEF Reload, Load
<1>4. CASE New \/ ApplyReload
  <2>1. /\ pc' = "dispatch"
        /\ UNCHANGED <<file, writes, read, blind>>
        /\ SyncWatch(got)
    BY <1>4 DEF New, ApplyReload
  <2>2. CASE watching /\ got.auto
    <3>1. UNCHANGED <<seen, changed, moved>> /\ pc = "apply"
      BY <1>4, <2>1, <2>2 DEF SyncWatch, New, ApplyReload
    <3> QED BY <2>1, <2>2, <3>1
  <2>3. CASE ~(watching /\ got.auto)
    <3>1. /\ watching' = got.auto
          /\ seen' = IF got.auto THEN mtime ELSE {}
          /\ moved' = FALSE
      BY <2>1, <2>3 DEF SyncWatch
    <3>2. got.auto => read = file \/ blind
      BY <1>4, <2>3 DEF New, ApplyReload
    <3>3. \A n \in seen' : n <= writes
      BY <3>1 DEF TypeOK
    <3> QED BY <2>1, <3>1, <3>2, <3>3
  <2> QED BY <2>2, <2>3
<1>5. CASE Poll
  <2>1. /\ pc = "dispatch" /\ pc' \in {"poll", "dispatch"}
        /\ seen' = mtime /\ changed' = (mtime # seen) /\ moved' = FALSE /\ quiet' = ~moved
        /\ (pc' = "dispatch" => mtime # seen \/ ~changed)
        /\ (pc' = "poll" => mtime = seen)
        /\ UNCHANGED <<file, writes, watching, read, blind>>
    BY <1>5 DEF Poll
  <2>2. \A n \in seen' : n <= writes'
    BY <2>1 DEF TypeOK
  <2> QED BY <2>1, <2>2
<1>6. CASE ServeReload \/ Elapse
  BY <1>6 DEF ServeReload, Elapse
<1>7. ASSUME NEW f \in File, Edit(f)
      PROVE  LookInv'
  <2>1. /\ file' = f /\ writes' = writes + 1 /\ writes \in Nat
        /\ moved' = TRUE
        /\ blind' = (blind \/ (pc \in {"new", "apply"} /\ ~watching)
                            \/ (f = Absent /\ seen = {}))
        /\ UNCHANGED <<pc, watching, seen, changed, read>>
    BY <1>7 DEF Edit, TypeOK
  <2>2. seen' # mtime' \/ (file' = Absent /\ blind')
    <3>1. CASE f = Absent
      BY <2>1, <3>1
    <3>2. CASE f # Absent
      <4>1. writes' \notin seen'
        BY <2>1
      <4> QED BY <2>1, <3>2, <4>1
    <3> QED BY <3>1, <3>2
  <2>3. \A n \in seen' : n <= writes'
    BY <2>1 DEF TypeOK
  <2>4. /\ (moved /\ file # Absent => seen # mtime)'
        /\ (pc = "poll" /\ ~moved /\ file # Absent => quiet)'
    BY <2>1, <2>2
  <2>5. (watching /\ pc \in {"dispatch", "apply"} => Noticed)'
    BY <2>1, <2>2
  <2>6. (pc \in {"new", "apply"} /\ ~watching => read = file \/ blind)'
    BY <2>1
  <2> QED BY <2>1, <2>3, <2>4, <2>5, <2>6
<1>8. ASSUME NEW l \in Lives, Set(l)
      PROVE  LookInv'
  BY <1>8 DEF Set
<1>9. CASE UNCHANGED vars
  BY <1>9 DEF vars
<1> QED BY <1>2, <1>3, <1>4, <1>5, <1>6, <1>7, <1>8, <1>9 DEF Next, Daemon

LEMMA LookInit == Init => LookInv
BY DEF Init, LookInv

(* However the file is edited between polls, loads and reloads, a file     *)
(* that is not as it was loaded last is going to be loaded again, unless   *)
(* the edit came between a load and the watcher's first look, or took the  *)
(* file away again before a look.                                          *)
THEOREM NoEditLostHolds == Spec => []NoEditLost
<1>1. TypeOK /\ LookInv /\ [Next]_vars => LookInv'
  BY LookStep
<1>2. LookInv => NoEditLost
  BY DEF LookInv, NoEditLost, Noticed
<1> QED BY <1>1, <1>2, LookInit, InitType, StepType, PTL DEF Spec

(* The load itself, with any edits between it and the poll that led to it: *)
(* the watcher loads a file that was left alone since the poll before      *)
(* last, or one whose last touch the next poll is going to see.            *)
THEOREM LoadsSettledOrAgainHolds == Spec => LoadsSettledOrAgain
<1>1. TypeOK /\ LookInv /\ [Next]_vars => LookInv'
  BY LookStep
<1>2. TypeOK /\ LookInv /\ [Next]_vars
        => [pc = "poll" /\ pc' # "poll" /\ file # Absent
              => IF moved THEN seen' # mtime' ELSE quiet]_vars
  <2> SUFFICES ASSUME TypeOK, LookInv, [Next]_vars,
                      pc = "poll", pc' # "poll", file # Absent
               PROVE  IF moved THEN seen' # mtime' ELSE quiet
    OBVIOUS
  <2>1. Reload
    BY DEF Next, Daemon, Start, New, ApplyReload, Poll, ServeReload, Set, Elapse, Edit, vars
  <2>2. UNCHANGED <<seen, file, writes>>
    BY <2>1 DEF Reload, Load, watchVars, editVars
  <2>3. moved => seen # mtime
    BY DEF LookInv
  <2> QED BY <2>2, <2>3 DEF LookInv, mtime
<1> QED BY <1>1, <1>2, LookInit, InitType, StepType, PTL DEF Spec, LoadsSettledOrAgain
-----------------------------------------------------------------------------
(* What is in force.  While a load waits to be applied, `got' is what it   *)
(* returned; between loads, `config' is what the last one returned, unless *)
(* that failed, with what clients have set since.                          *)

LoadInv ==
  /\ pc \in {"dispatch", "poll", "load"} => Follows(read)
  /\ pc \in {"new", "apply"} => Loaded(read) = {got}

LEMMA LoadedOne == ASSUME NEW f, NEW c \in Loaded(f) PROVE Loaded(f) = {c}
BY DEF Loaded

(* What a client sets is set in what the file says. *)
LEMMA SetFollows ==
  ASSUME NEW f, NEW l \in Lives, Loaded(f) \subseteq Configs, config \in Configs, Follows(f),
         config' = [config EXCEPT !.live = l], tweaked' = TRUE, given' = given
  PROVE  Follows(f)'
<1> SUFFICES ASSUME NEW c \in Loaded(f)
             PROVE  config' = [c EXCEPT !.live = config'.live]
  BY DEF Follows, Loaded
<1>1. config = c \/ config = [c EXCEPT !.live = config.live]
  BY DEF Follows
<1> QED BY <1>1

LEMMA LoadStep ==
  ASSUME TypeOK, LoadInv, [Next]_vars
  PROVE  LoadInv'
<1> USE DEF LoadInv, editVars, watchVars, lookVars
<1>1. ASSUME NEW next, NEW otherwise, Load(next, otherwise),
             next \in {"new", "apply"}, otherwise \in {"failed", "dispatch"}
      PROVE  LoadInv'
  <2>1. read' = file /\ given' = given /\ config' = config
    BY <1>1 DEF Load
  <2>2. Loaded(read)' = Loaded(file)
    BY <2>1 DEF Loaded
  <2>3. CASE Loaded(file) = {}
    <3>1. Follows(read)'
      BY <2>2, <2>3 DEF Follows
    <3>2. pc' = otherwise
      BY <1>1, <2>3 DEF Load
    <3> QED BY <1>1, <3>1, <3>2
  <2>4. CASE Loaded(file) # {}
    <3>1. pc' = next /\ got' \in Loaded(file)
      BY <1>1, <2>4 DEF Load
    <3>2. Loaded(file) = {got'}
      BY <3>1, LoadedOne
    <3> QED BY <1>1, <2>2, <3>1, <3>2
  <2> QED BY <2>3, <2>4
<1>2. CASE Start
  BY <1>1, <1>2 DEF Start
<1>3. CASE Reload
  BY <1>1, <1>3 DEF Reload
<1>4. CASE New \/ ApplyReload
  <2>1. /\ pc' = "dispatch" /\ config' = got /\ tweaked' = FALSE
        /\ Loaded(read)' = Loaded(read)
    BY <1>4 DEF New, ApplyReload, Loaded
  <2>2. Follows(read)'
    BY <1>4, <2>1 DEF New, ApplyReload, Follows
  <2> QED BY <2>1, <2>2
<1>5. ASSUME UNCHANGED <<given, config, got, read, tweaked>>,
             pc' = pc \/ {pc, pc'} \subseteq {"dispatch", "poll", "load"}
      PROVE  LoadInv'
  BY <1>5 DEF Loaded, Follows
<1>6. CASE Poll
  BY <1>5, <1>6 DEF Poll
<1>7. CASE ServeReload \/ Elapse
  BY <1>5, <1>7 DEF ServeReload, Elapse
<1>8. ASSUME NEW f \in File, Edit(f)
      PROVE  LoadInv'
  BY <1>5, <1>8 DEF Edit
<1>9. ASSUME NEW l \in Lives, Set(l)
      PROVE  LoadInv'
  <2>1. /\ pc = "dispatch" /\ pc' = pc /\ read' = read /\ given' = given
        /\ config' = [config EXCEPT !.live = l] /\ tweaked' = TRUE
    BY <1>9 DEF Set
  <2>2. Loaded(read) \subseteq Configs /\ config \in Configs
    BY LoadedConfigs DEF TypeOK
  <2>3. Follows(read)'
    BY <2>1, <2>2, SetFollows DEF Follows, Loaded
  <2> QED BY <2>1, <2>3
<1>10. CASE UNCHANGED vars
  BY <1>5, <1>10 DEF vars
<1> QED BY <1>2, <1>3, <1>4, <1>6, <1>7, <1>8, <1>9, <1>10 DEF Next, Daemon

(* A daemon at rest that has seen the file as it is has it in force, with  *)
(* what clients have set since it was loaded, or it cannot be loaded:      *)
(* whatever was edited, refused, set and reloaded before.                  *)
THEOREM InForceHolds == Spec => []InForce
<1>1. Init => LoadInv
  BY DEF Init, LoadInv
<1>2. TypeOK /\ LoadInv /\ [Next]_vars => LoadInv'
  BY LoadStep
<1>3. TypeOK /\ LookInv /\ [Next]_vars => LookInv'
  BY LookStep
<1>4. LookInv /\ LoadInv => InForce
  BY DEF LookInv, LoadInv, Noticed, InForce
<1> QED
  BY <1>1, <1>2, <1>3, <1>4, LookInit, InitType, StepType, PTL DEF Spec
=============================================================================
