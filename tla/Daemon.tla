------------------------------- MODULE Daemon -------------------------------
(***************************************************************************)
(* The live-paper daemon (daemon/mod.rs, with the timers of restart.rs and *)
(* watch.rs): one thread that owns the renderer on screen (`current'),     *)
(* brings up its replacement (`pending'), respawns it after a crash, and   *)
(* answers clients.  `pc' is where that thread is: in event_loop.dispatch, *)
(* inside a handler that blocks, in one of the parts of tick(), or gone.   *)
(* Renderers, reader threads, clocks and clients move at any time.         *)
(***************************************************************************)
EXTENDS Child, FiniteSets

CONSTANTS
  MaxFailures,   \* MAX_FAILURES
  Configs,       \* contents the config file can have
  NoPath,        \* player.path unset
  Keep,          \* a field a `set' request leaves out
  None           \* no child

ASSUME DaemonAssumption ==
  /\ MaxFailures \in Nat \ {0}
  /\ Configs \subseteq [struct : Structs, live : Lives,
                        path : Videos \cup {NoPath},
                        limit : BOOLEAN, auto : BOOLEAN]
  /\ NoPath \notin Videos
  /\ Keep \notin Videos \cup Lives
  /\ None \notin Nat

VARIABLES
  pc,            \* where the daemon's thread is
  config,        \* the config in force
  video,         \* the video we want playing
  manual_pause,  \* pause asked for by a client
  current,       \* child that owns the surface
  pending,       \* replacement that has not drawn yet
  leaving,       \* child a blocking handler is waiting on
  timer,         \* state of every Instant the loop can wait for
  baseline,      \* are baseline_mb and the policy's floor set?
  failures,      \* consecutive crashes
  exit,          \* the loop is to end
  next_id,       \* id of the next child
  served         \* has this dispatch run a callback?

daemonVars == <<pc, config, video, manual_pause, current, pending, leaving,
                timer, baseline, failures, exit, next_id, served>>
vars == <<daemonVars, childVars>>

(* respawn_at, pending_deadline, policy.poll_at and watch.poll_at.  An     *)
(* Instant is "off" when None, "armed" until its time comes, then "due".   *)
Timer == {"respawn", "pending", "policy", "watch"}

Down == {"stopped", "panicked", "killed"}
Blocked == {"retire", "reap", "quit"}
Tick == {"respawn", "deadline", "watch", "policy"}
Pc == {"start", "dispatch", "baseline", "killPending", "askCurrent"}
      \cup Blocked \cup Tick \cup Down

TypeOK ==
  /\ ChildTypeOK
  /\ pc \in Pc
  /\ config \in [struct : Structs, live : Lives, path : Videos \cup {NoPath},
                 limit : BOOLEAN, auto : BOOLEAN]
  /\ video \in Videos
  /\ manual_pause \in BOOLEAN
  /\ {current, pending, leaving} \subseteq ChildId \cup {None}
  /\ timer \in [Timer -> {"off", "armed", "due"}]
  /\ baseline \in BOOLEAN
  /\ failures \in Nat
  /\ exit \in BOOLEAN
  /\ next_id \in 0 .. MaxSpawns
  /\ served \in BOOLEAN

-----------------------------------------------------------------------------
(* RestartPolicy::new and sync_watch, as updates of the timers. *)

PolicyTimer(cfg) == IF cfg.limit THEN "armed" ELSE "off"

WatchTimer(cfg, old) ==
  IF ~cfg.auto THEN "off" ELSE IF old = "off" THEN "armed" ELSE old

(* Config::load and Daemon::new; nothing is spawned yet.  The video is the *)
(* command-line argument, else the config's path, else the test pattern.   *)
Init ==
  /\ ChildInit
  /\ pc = "start"
  /\ config \in Configs
  /\ video \in Videos
  /\ manual_pause = FALSE
  /\ current = None /\ pending = None /\ leaving = None
  /\ timer = [t \in Timer |-> CASE t = "policy" -> PolicyTimer(config)
                                [] t = "watch"  -> WatchTimer(config, "off")
                                [] OTHER        -> "off"]
  /\ baseline = FALSE
  /\ failures = 0
  /\ exit = FALSE
  /\ next_id = 0
  /\ served = FALSE

-----------------------------------------------------------------------------
(* spawn(): a number is used up even when the process cannot be started.   *)
(* SetManualPause follows Init only if the user has paused.                *)

SpawnOk(cfg, dropped) ==
  /\ next_id < MaxSpawns
  /\ next_id' = next_id + 1
  /\ SpawnChild(next_id, [struct |-> cfg.struct, live |-> cfg.live,
                          video |-> video, paused |-> manual_pause], dropped)

SpawnErr ==
  /\ next_id' = IF next_id < MaxSpawns THEN next_id + 1 ELSE next_id
  /\ UNCHANGED childVars

(* Mutant of Restart: the replacement gets no deadline. *)
RestartWithoutDeadline(cfg, timers) ==
  /\ pending = None
  /\ SpawnOk(cfg, {})
  /\ pending' = next_id
  /\ timer' = timers

(* Mutant of Restart: a failed spawn still counts as a replacement. *)
RestartKeepsFailed(cfg, timers) ==
  /\ pending = None
  /\ SpawnErr
  /\ pending' = next_id
  /\ timer' = [timers EXCEPT !["pending"] = "armed"]

(* restart(): refused while a replacement is on its way.  `timers' is the  *)
(* timer function as the caller leaves it.                                 *)
Restart(cfg, timers) ==
  \/ /\ pending # None
     /\ timer' = timers
     /\ UNCHANGED <<pending, next_id, childVars>>
  \/ /\ pending = None
     /\ SpawnErr
     /\ timer' = timers
     /\ UNCHANGED pending
  \/ /\ pending = None
     /\ SpawnOk(cfg, {})
     /\ pending' = next_id
     /\ timer' = [timers EXCEPT !["pending"] = "armed"]

(* Mutant of ScheduleRespawn: gives up one crash too early. *)
ScheduleRespawnEarly(n) ==
  timer' = [timer EXCEPT !["respawn"] = IF n + 1 >= MaxFailures THEN "off" ELSE "armed"]

(* schedule_respawn(), with `n' failures counted. *)
ScheduleRespawn(n) ==
  timer' = [timer EXCEPT !["respawn"] = IF n >= MaxFailures THEN "off" ELSE "armed"]

(* Unwinding drops both children, and the end of the process every pipe. *)
Panic ==
  /\ pc' = "panicked"
  /\ stdin' = {}
  /\ UNCHANGED <<config, video, manual_pause, current, pending, leaving, timer,
                 baseline, failures, exit, next_id,
                 proc, drawn, reading, report, told>>

(* child.memory_kb(): a zombie has no VmRSS line. *)
MemoryReadable(c) == c # None /\ proc[c] = "running"

-----------------------------------------------------------------------------
(* run() up to the loop: the first renderer. *)
Start ==
  /\ pc = "start"
  /\ \/ /\ SpawnOk(config, {})
        /\ current' = next_id
        /\ pc' = "dispatch"
     \/ /\ SpawnErr
        /\ pc' = "stopped"
        /\ UNCHANGED current
  /\ UNCHANGED <<config, video, manual_pause, pending, leaving, timer, baseline,
                 failures, exit, served>>

(* A message of child c at the head of its queue, taken by the loop. *)
Takes(c, msg) ==
  /\ pc = "dispatch"
  /\ report[c] # <<>>
  /\ Head(report[c]) = msg
  /\ report' = [report EXCEPT ![c] = Tail(@)]
  /\ served' = TRUE

(* Mutant of IsPending: any Ready promotes the replacement. *)
IsAnyPending(c) == pending # None

(* Mutant of IsCurrent: a late Gone of another child counts. *)
IsAnyCurrent(c) == current # None

(* Mutant of IsCurrent: a death during a handover is passed over. *)
IsCurrentAlone(c) == pending = None /\ current = c

IsPending(c) == pending = c
IsCurrent(c) == current = c

(* Mutant of Promote: the old child is not shut down. *)
PromoteForgetsOld ==
  /\ current' = pending
  /\ pending' = None
  /\ timer' = [timer EXCEPT !["pending"] = "off"]
  /\ failures' = 0
  /\ pc' = "baseline"
  /\ UNCHANGED <<leaving, stdin>>

(* promote(): the child it retires is asked to leave, and blocks the daemon. *)
Promote ==
  /\ current' = pending
  /\ pending' = None
  /\ timer' = [timer EXCEPT !["pending"] = "off"]
  /\ failures' = 0
  /\ leaving' = current
  /\ stdin' = stdin \ {current}
  /\ pc' = IF current = None THEN "baseline" ELSE "retire"

(* handle_child_event(Ready), first half: a replacement is promoted, or    *)
(* the first child is up.                                                  *)
HandleReady(c) ==
  /\ Takes(c, "ready")
  /\ IF IsPending(c)
     THEN Promote
     ELSE /\ failures' = IF IsCurrent(c) THEN 0 ELSE failures
          /\ pc' = "baseline"
          /\ UNCHANGED <<current, pending, timer, leaving, stdin>>
  /\ UNCHANGED <<config, video, manual_pause, baseline, exit, next_id,
                 proc, drawn, reading, told>>

(* The end of old.shutdown(): the old child left within QUIT_GRACE, or is  *)
(* killed.                                                                 *)
Retire ==
  /\ pc = "retire"
  /\ KillChild(leaving)
  /\ leaving' = None
  /\ pc' = "baseline"
  /\ UNCHANGED <<config, video, manual_pause, current, pending, timer, baseline,
                 failures, exit, next_id, served>>

(* handle_child_event(Ready), second half: measure the child on screen.    *)
(* Whichever child said Ready, it is `current' that is read.               *)
MeasureBaseline ==
  /\ pc = "baseline"
  /\ IF MemoryReadable(current)
     THEN /\ baseline' = TRUE
          /\ pc' = "dispatch"
          /\ UNCHANGED <<config, video, manual_pause, current, pending, leaving,
                         timer, failures, exit, next_id, childVars>>
     ELSE Panic
  /\ UNCHANGED served

(* handle_child_gone(). *)
HandleGone(c) ==
  /\ Takes(c, "gone")
  /\ \/ /\ IsPending(c)                     \* keep what is on screen
        /\ pending' = None
        /\ timer' = [timer EXCEPT !["pending"] = "off"]
        /\ proc' = [proc EXCEPT ![c] = "reaped"]
        /\ stdin' = stdin \ {c}
        /\ UNCHANGED <<pc, current, leaving>>
     \/ /\ ~IsPending(c) /\ IsCurrent(c)     \* block in reap()
        /\ current' = None
        /\ leaving' = current
        /\ pc' = "reap"
        /\ UNCHANGED <<pending, timer, proc, stdin>>
     \/ /\ ~IsPending(c) /\ ~IsCurrent(c)
        /\ UNCHANGED <<pc, current, pending, leaving, timer, proc, stdin>>
  /\ UNCHANGED <<config, video, manual_pause, baseline, failures, exit, next_id,
                 drawn, reading, told>>

(* The rest of handle_child_gone() once wait() returns.  (An error from    *)
(* wait() is treated like a crash, and needs no step of its own.)          *)
Reap ==
  /\ pc = "reap"
  /\ proc[leaving] \in Dead
  /\ IF proc[leaving] = "exited"
     THEN exit' = TRUE /\ UNCHANGED <<failures, timer>>
     ELSE /\ failures' = failures + 1
          /\ ScheduleRespawn(failures + 1)
          /\ UNCHANGED exit
  /\ proc' = [proc EXCEPT ![leaving] = "reaped"]
  /\ stdin' = stdin \ {leaving}
  /\ leaving' = None
  /\ pc' = "dispatch"
  /\ UNCHANGED <<config, video, manual_pause, current, pending, baseline, next_id,
                 served, drawn, reading, report, told>>

-----------------------------------------------------------------------------
(* Requests of clients: serve() and handle(). *)

Serves == pc = "dispatch" /\ served' = TRUE

(* broadcast(), to the child on screen and to its replacement, of the      *)
(* commands of handle_set(): `v' and `l' are Keep or the new value.        *)
BroadcastSet(v, l) ==
  told' = [c \in ChildId |->
             IF c \notin {current, pending} THEN told[c]
             ELSE [told[c] EXCEPT !.video = IF v = Keep THEN @ ELSE v,
                                  !.live  = IF l = Keep THEN @ ELSE l]]

(* Mutant of BroadcastPause: a replacement on its way is not told. *)
BroadcastPauseToCurrent(paused) ==
  told' = [c \in ChildId |-> IF c # current THEN told[c]
                            ELSE [told[c] EXCEPT !.paused = paused]]

BroadcastPause(paused) ==
  told' = [c \in ChildId |-> IF c \notin {current, pending} THEN told[c]
                            ELSE [told[c] EXCEPT !.paused = paused]]

(* Requests that change nothing: query, an unreadable line, a `set' for an *)
(* output or of a video that does not exist.                               *)
ServeNoChange ==
  /\ Serves
  /\ UNCHANGED <<pc, config, video, manual_pause, current, pending, leaving, timer,
                 baseline, failures, exit, next_id, childVars>>

(* handle_set() with a video, if any, that resolves. *)
HandleSet(v, l) ==
  /\ Serves
  /\ IF v # Keep /\ ~baseline
     THEN Panic
     ELSE /\ video' = IF v = Keep THEN video ELSE v
          /\ config' = IF l = Keep THEN config ELSE [config EXCEPT !.live = l]
          /\ BroadcastSet(v, l)
          /\ UNCHANGED <<pc, manual_pause, current, pending, leaving, timer, baseline,
                         failures, exit, next_id, proc, drawn, stdin, reading, report>>

(* set_manual_pause(), for pause, resume and toggle. *)
SetManualPause(paused) ==
  /\ Serves
  /\ manual_pause' = paused
  /\ BroadcastPause(paused)
  /\ UNCHANGED <<pc, config, video, current, pending, leaving, timer, baseline,
                 failures, exit, next_id, proc, drawn, stdin, reading, report>>

(* handle_reload(): the timers of the new policy and watch, and what       *)
(* changes while playing.  The path counts only if it differs from that of *)
(* the old config.                                                         *)
ReloadTimers(new, timers) ==
  [timers EXCEPT !["policy"] = PolicyTimer(new), !["watch"] = WatchTimer(new, @)]

NewPath(new) == IF new.path \in {NoPath, config.path} THEN Keep ELSE new.path
NewLive(new) == IF new.live = config.live THEN Keep ELSE new.live

(* handle_reload() once the file is loaded.  handle_set() returns early if *)
(* the new path is not `found'; its error is ignored.                      *)
ApplyReload(new, found, timers) ==
  /\ config' = new
  /\ \/ /\ new.struct # config.struct
        /\ Restart(new, ReloadTimers(new, timers))
        /\ UNCHANGED video
     \/ /\ new.struct = config.struct
        /\ timer' = ReloadTimers(new, timers)
        /\ IF NewPath(new) # Keep /\ ~found
           THEN UNCHANGED <<video, told>>
           ELSE /\ video' = IF NewPath(new) = Keep THEN video ELSE NewPath(new)
                /\ BroadcastSet(NewPath(new), NewLive(new))
        /\ UNCHANGED <<pending, next_id, proc, drawn, stdin, reading, report>>

(* handle_reload(), going on at `next'; `timers' as in Restart. *)
HandleReload(next, timers) ==
  \/ /\ pc' = next /\ timer' = timers     \* Config::load failed
     /\ UNCHANGED <<config, video, manual_pause, current, pending, leaving, baseline,
                    failures, exit, next_id, childVars>>
  \/ ~baseline /\ Panic
  \/ /\ baseline
     /\ pc' = next
     /\ \E new \in Configs, found \in BOOLEAN : ApplyReload(new, found, timers)
     /\ UNCHANGED <<manual_pause, current, leaving, baseline, failures, exit>>

ServeReload == Serves /\ HandleReload("dispatch", timer)

ServeRestart ==
  /\ Serves
  /\ Restart(config, timer)
  /\ UNCHANGED <<pc, config, video, manual_pause, current, leaving, baseline,
                 failures, exit>>

ServeKill ==
  /\ Serves
  /\ exit' = TRUE
  /\ UNCHANGED <<pc, config, video, manual_pause, current, pending, leaving, timer,
                 baseline, failures, next_id, childVars>>

-----------------------------------------------------------------------------
(* The loop of run(): dispatch() sleeps no longer than next_deadline() and *)
(* returns once a callback has run; then tick(), one part at a time.       *)

next_deadline == {t \in Timer : timer[t] # "off"}

Wake ==
  /\ pc = "dispatch"
  /\ served \/ \E t \in next_deadline : timer[t] = "due"
  /\ pc' = "respawn"
  /\ served' = FALSE
  /\ UNCHANGED <<config, video, manual_pause, current, pending, leaving, timer,
                 baseline, failures, exit, next_id, childVars>>

(* The respawn backoff has passed.  Whatever `current' holds is dropped. *)
TickRespawn ==
  /\ pc = "respawn"
  /\ pc' = "deadline"
  /\ IF timer["respawn"] = "due"
     THEN \/ /\ SpawnOk(config, {current})
             /\ current' = next_id
             /\ timer' = [timer EXCEPT !["respawn"] = "off"]
             /\ UNCHANGED failures
          \/ /\ SpawnErr
             /\ failures' = failures + 1
             /\ ScheduleRespawn(failures + 1)
             /\ UNCHANGED current
     ELSE UNCHANGED <<current, timer, failures, next_id, childVars>>
  /\ UNCHANGED <<config, video, manual_pause, pending, leaving, baseline, exit, served>>

(* A replacement that did not draw within READY_TIMEOUT is killed. *)
TickDeadline ==
  /\ pc = "deadline"
  /\ pc' = "watch"
  /\ IF timer["pending"] = "due" /\ pending # None
     THEN /\ KillChild(pending)
          /\ pending' = None
          /\ timer' = [timer EXCEPT !["pending"] = "off"]
          /\ failures' = failures + 1
     ELSE UNCHANGED <<pending, timer, failures, childVars>>
  /\ UNCHANGED <<config, video, manual_pause, current, leaving, baseline, exit,
                 next_id, served>>

(* The config watcher: a poll, which may find the file changed and settled. *)
TickWatch ==
  /\ pc = "watch"
  /\ UNCHANGED served
  /\ LET polled == IF timer["watch"] = "due" THEN [timer EXCEPT !["watch"] = "armed"]
                                             ELSE timer
     IN  \/ /\ pc' = "policy"
            /\ timer' = polled
            /\ UNCHANGED <<config, video, manual_pause, current, pending, leaving,
                           baseline, failures, exit, next_id, childVars>>
         \/ timer["watch"] = "due" /\ HandleReload("policy", polled)

(* Mutant of AfterTick: the loop ends only once no replacement is under    *)
(* way.                                                                    *)
AfterTickAlone == IF exit /\ pending = None THEN "killPending" ELSE "dispatch"

(* The test of the loop in run(), once tick() has returned. *)
AfterTick == IF exit THEN "killPending" ELSE "dispatch"

(* policy.due(): sample the memory of the child on screen against the      *)
(* floor, which must have been measured; over the limit, start a           *)
(* replacement.  This ends tick() and the turn of the loop.                *)
TickPolicy ==
  /\ pc = "policy"
  /\ UNCHANGED served
  /\ LET sampled == IF timer["policy"] = "due" THEN [timer EXCEPT !["policy"] = "armed"]
                                               ELSE timer
         samples == timer["policy"] = "due" /\ MemoryReadable(current)
     IN  IF samples /\ ~baseline THEN Panic
         ELSE /\ pc' = AfterTick
              /\ \/ timer' = sampled /\ UNCHANGED <<pending, next_id, childVars>>
                 \/ samples /\ Restart(config, sampled)
              /\ UNCHANGED <<config, video, manual_pause, current, leaving, baseline,
                             failures, exit>>

-----------------------------------------------------------------------------
(* The end of run(): kill the replacement, then shut down the child on     *)
(* screen.                                                                 *)

(* Mutant of KillPending: a replacement is killed only if nothing is on    *)
(* screen.                                                                 *)
KillPendingIfAlone ==
  /\ pc = "killPending"
  /\ IF pending # None /\ current = None THEN KillChild(pending) ELSE UNCHANGED childVars
  /\ pending' = None
  /\ pc' = IF current # None THEN "askCurrent" ELSE "stopped"
  /\ UNCHANGED <<config, video, manual_pause, current, leaving, timer, baseline,
                 failures, exit, next_id, served>>

KillPending ==
  /\ pc = "killPending"
  /\ IF pending # None THEN KillChild(pending) ELSE UNCHANGED childVars
  /\ pending' = None
  /\ pc' = IF current # None THEN "askCurrent" ELSE "stopped"
  /\ UNCHANGED <<config, video, manual_pause, current, leaving, timer, baseline,
                 failures, exit, next_id, served>>

AskCurrent ==
  /\ pc = "askCurrent"
  /\ stdin' = stdin \ {current}
  /\ leaving' = current
  /\ current' = None
  /\ pc' = "quit"
  /\ UNCHANGED <<config, video, manual_pause, pending, timer, baseline, failures,
                 exit, next_id, served, proc, drawn, reading, report, told>>

(* Mutant of Quit: waits for ever for the child to leave. *)
QuitWithoutGrace ==
  /\ pc = "quit"
  /\ proc[leaving] \in Dead
  /\ KillChild(leaving)
  /\ leaving' = None
  /\ pc' = "stopped"
  /\ UNCHANGED <<config, video, manual_pause, current, pending, timer, baseline,
                 failures, exit, next_id, served>>

Quit ==
  /\ pc = "quit"
  /\ KillChild(leaving)
  /\ leaving' = None
  /\ pc' = "stopped"
  /\ UNCHANGED <<config, video, manual_pause, current, pending, timer, baseline,
                 failures, exit, next_id, served>>

-----------------------------------------------------------------------------
(* The environment of the daemon's thread. *)

(* The time of an Instant comes. *)
Elapse(t) ==
  /\ pc \notin Down
  /\ timer[t] = "armed"
  /\ timer' = [timer EXCEPT ![t] = "due"]
  /\ UNCHANGED <<pc, config, video, manual_pause, current, pending, leaving,
                 baseline, failures, exit, next_id, served, childVars>>

(* The daemon is killed by a signal; it handles none. *)
KilledBySignal ==
  /\ pc \notin Down
  /\ pc' = "killed"
  /\ stdin' = {}
  /\ UNCHANGED <<config, video, manual_pause, current, pending, leaving, timer,
                 baseline, failures, exit, next_id, served,
                 proc, drawn, reading, report, told>>

HandleChildMsg(c) == HandleReady(c) \/ HandleGone(c)

Serve ==
  \/ ServeNoChange
  \/ \E v \in Videos \cup {Keep}, l \in Lives \cup {Keep} : HandleSet(v, l)
  \/ \E paused \in BOOLEAN : SetManualPause(paused)
  \/ ServeReload
  \/ ServeRestart
  \/ ServeKill

(* What the thread does of its own once it is not waiting in dispatch(). *)
Run ==
  \/ Start \/ Wake
  \/ Retire \/ MeasureBaseline \/ Reap
  \/ TickRespawn \/ TickDeadline \/ TickWatch \/ TickPolicy
  \/ KillPending \/ AskCurrent \/ Quit

Next ==
  \/ Run
  \/ Serve
  \/ \E c \in ChildId : HandleChildMsg(c)
  \/ \E t \in Timer : Elapse(t)
  \/ KilledBySignal
  \/ \E c \in ChildId : ChildStep(c) /\ UNCHANGED daemonVars

(* The daemon's thread runs, time passes, and a message that waits in the  *)
(* channel is read by a later dispatch however many others arrive (calloop *)
(* polls every ready source).  Nothing is assumed of a renderer while the  *)
(* daemon lives: it may hang.  Without the daemon, it reads to the end of  *)
(* its stdin and leaves.                                                   *)
Fairness ==
  /\ WF_vars(Run)
  /\ \A t \in Timer : WF_vars(Elapse(t))
  /\ \A c \in ChildId : SF_vars(HandleChildMsg(c))
  /\ \A c \in ChildId : WF_vars(pc \in Down /\ Leave(c) /\ UNCHANGED daemonVars)

Spec == Init /\ [][Next]_vars
FairSpec == Spec /\ Fairness

-----------------------------------------------------------------------------
(* Properties *)

(* A renderer that still has its command pipe is the one on screen, the    *)
(* replacement, or the one a handler waits on: no path through spawn,      *)
(* promote, kill or respawn forgets a process without asking it to leave.  *)
ChildrenTracked ==
  \A c \in ChildId :
    proc[c] = "running" /\ c \in stdin => c \in {current, pending, leaving}

(* The renderers that run and still have their command pipe. *)
Commanded == {c \in ChildId : proc[c] = "running" /\ c \in stdin}

(* However restarts, crashes and respawns overlap, at most two renderers   *)
(* are alive and under command at a time: promote() lets go of the old one *)
(* before another restart can begin, and a respawn that comes while a      *)
(* renderer is on screen drops it.                                         *)
AtMostTwoRenderers == Cardinality(Commanded) <= 2

(* run() returns only when every renderer it held has been killed or has   *)
(* had its QUIT_GRACE, a replacement that was just starting included.      *)
LeavesNoneBehind == pc = "stopped" => Commanded = {}

(* The death of the renderer on screen or of its replacement is not lost:  *)
(* as long as the daemon holds the dead child, the Gone that will tell it  *)
(* is in the channel, whatever else it handled in between.                 *)
DeathHeard ==
  \A c \in {current, pending} \ {None} :
    proc[c] # "running" => \E i \in 1 .. Len(report[c]) : report[c][i] = "gone"

(* A loop told to end, by a client in the middle of a dispatch or by a     *)
(* renderer that left, does not go to sleep again: tick() and the test of  *)
(* `exit' come first, whatever replacement is under way.                   *)
ExitNoticed == pc = "dispatch" /\ exit => served

(* Whatever crashes, restarts and requests happen in whatever order, the   *)
(* child on screen and its replacement have been told the pause and the    *)
(* video the daemon holds: no command is lost between a child's spawn and  *)
(* its promotion.                                                          *)
PauseAndVideoInSync ==
  \A c \in {current, pending} \ {None} :
    told[c].paused = manual_pause /\ told[c].video = video

(* Between two events the daemon never sits without a renderer and without *)
(* a respawn to come, unless it has given up after MAX_FAILURES or is      *)
(* stopping.                                                               *)
NeverAbandoned ==
  pc \in {"dispatch", "baseline"} \cup Tick /\ current = None /\ ~exit
    => timer["respawn"] # "off" \/ failures >= MaxFailures

(* The old renderer is asked to leave only once the new one has a frame on *)
(* screen: promote() leaves no gap.                                        *)
HandoverAfterDraw == pc = "retire" => current \in drawn

(* A ready timeout runs exactly while there is a replacement to give up on *)
(* (else the loop spins on a passed deadline, or waits for ever).          *)
DeadlineIffPending ==
  pc \in {"dispatch", "baseline", "retire", "reap"} \cup Tick
    => (pending # None <=> timer["pending"] # "off")

(* A renderer leaves the screen without a successor only if it is dead or  *)
(* the daemon is stopping: the messages a retired or killed child left in  *)
(* the channel never knock out the one that took its place.                *)
LostOnlyIfDead ==
  [][current # None /\ current' = None => exit \/ proc[current] \in Dead]_vars

Stopped == pc \in Down

(* A replacement is promoted, found dead, or given up on. *)
PendingResolved ==
  \A c \in ChildId : (pending = c) ~> (pending # c \/ Stopped)

(* A crash is noticed and the renderer is replaced, or the daemon gives up *)
(* after MAX_FAILURES or has stopped.                                      *)
Lost == pc # "start" /\ (current = None \/ proc[current] \in Dead)

CrashAnswered == Lost ~> (~Lost \/ failures >= MaxFailures \/ Stopped)

(* `live-paper kill', and a renderer whose surface was closed, stop the    *)
(* daemon, also if renderers hang.  If their output can be read: the wait  *)
(* in reap() for a renderer that is wrongly taken for dead has no end.     *)
ExitStops == exit ~> Stopped

(* No renderer outlives the daemon, however the daemon ends. *)
NoRendererOutlives == Stopped ~> \A c \in ChildId : proc[c] # "running"
-----------------------------------------------------------------------------
(* What the code or its comments say, and the code does not do. *)

(* The `expect's of the daemon never fire: "baseline should be set"        *)
(* (daemon/mod.rs:181, 379, 426), "floor should have been set"             *)
(* (daemon/restart.rs:73).                                                 *)
NoPanic == pc # "panicked"

(* "The new config is already stored, so the replacement picks it up"      *)
(* (daemon/mod.rs:438).                                                    *)
PendingHasStoredConfig == pending # None => told[pending].struct = config.struct

(* respawn_at is "When a crashed child may be respawned"                   *)
(* (daemon/mod.rs:58): a respawn never takes the place of a live child.    *)
RespawnOnlyWhenLost ==
  [][pc = "respawn" /\ current' # current => current = None \/ proc[current] \in Dead]_vars
=============================================================================
