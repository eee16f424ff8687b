----------------------------- MODULE ConfigFile -----------------------------
(***************************************************************************)
(* The config file and the daemon that follows it (config.rs: load and     *)
(* load_default, daemon/watch.rs, handle_reload, sync_watch and, as far as *)
(* it writes the config, handle_set of daemon/mod.rs).  An editor writes   *)
(* the file in as many pieces as it likes, at any time: between the load   *)
(* and the first look of the watcher, between a poll and the read it leads *)
(* to, while a reload is applied.  The renderers that follow from a config *)
(* are in Daemon.                                                          *)
(***************************************************************************)
EXTENDS Naturals

CONSTANTS
  Configs,     \* what a file can say: `auto' is auto_reload, `live' what a
               \* client can set (speed, mute, fill)
  Lives,       \* values of `live'
  Default,     \* Config::default(), which is also what an empty file says
  Broken,      \* a file that does not parse, say a half-written one
  Absent,      \* there is no file
  MaxWrites    \* bound: changes of the file

ASSUME ConfigFileAssumption ==
  /\ \A c \in Configs : c.auto \in BOOLEAN
  /\ \A c \in Configs, l \in Lives : [c EXCEPT !.live = l] \in Configs
  /\ Default \in Configs
  /\ Broken \notin Configs /\ Absent \notin Configs /\ Broken # Absent
  /\ MaxWrites \in Nat

File == Configs \cup {Broken, Absent}

VARIABLES
  file,      \* what the file says
  writes,    \* changes of the file so far; each moves its mtime
  given,     \* has the daemon a config_path (-c)?
  pc,        \* where the daemon's thread is
  config,    \* the config in force
  got,       \* the config load() has returned, in force once applied
  watching,  \* is there a ConfigWatch? and then:
  seen,      \* mtime at the last poll
  changed,   \* it moved; reload once it settles
  due,       \* poll_at has passed
  read,      \* history: what the file said at the last load
  tweaked,   \* history: a client has set something since `config' was loaded
  blind,     \* history: it changed after that load where no look can tell
  moved,     \* history: it changed since the watcher last looked
  quiet      \* history: it did not change between the last two looks

watchVars == <<watching, seen, changed, due>>
lookVars == <<moved, quiet>>
editVars == <<file, writes, given>>
vars == <<editVars, pc, config, got, watchVars, read, tweaked, blind, lookVars>>

(* An Option<SystemTime>: the empty set is None. *)
mtime == IF file = Absent THEN {} ELSE {writes}

TypeOK ==
  /\ file \in File /\ read \in File
  /\ writes \in 0 .. MaxWrites
  /\ pc \in {"start", "new", "dispatch", "poll", "load", "apply", "failed"}
  /\ {config, got} \subseteq Configs
  /\ seen \in {{}} \cup {{n} : n \in 0 .. MaxWrites}
  /\ {given, watching, changed, due, tweaked, blind, moved, quiet} \subseteq BOOLEAN

Init ==
  /\ file \in File /\ writes = 0
  /\ given \in BOOLEAN
  /\ pc = "start"
  /\ config = Default /\ got = Default
  /\ watching = FALSE /\ seen = {} /\ changed = FALSE /\ due = FALSE
  /\ read = file /\ tweaked = FALSE /\ blind = FALSE
  /\ moved = FALSE /\ quiet = FALSE

-----------------------------------------------------------------------------
(* Mutant of Loaded: no error is noticed. *)
LoadedUnchecked(f) == {f}

(* Config::load: what the file says; else an error if its path was given,  *)
(* and the defaults if not.                                                *)
Loaded(f) ==
  CASE f \in Configs -> {f}
    [] f \notin Configs /\ given -> {}
    [] OTHER -> {Default}

(* Load, going on at `next' or, after an error, at `otherwise'. *)
Load(next, otherwise) ==
  /\ read' = file
  /\ blind' = FALSE
  /\ IF Loaded(file) = {}
     THEN pc' = otherwise /\ UNCHANGED got
     ELSE pc' = next /\ got' \in Loaded(file)
  /\ UNCHANGED <<editVars, config, watchVars, tweaked, lookVars>>

(* The program loads its config before Daemon::new. *)
Start == pc = "start" /\ Load("new", "failed")

(* Mutant of SyncWatch: a reload looks at the file anew. *)
SyncWatchAnew(cfg) ==
  /\ watching' = cfg.auto
  /\ seen' = IF cfg.auto THEN mtime ELSE {}
  /\ changed' = FALSE
  /\ due' = FALSE
  /\ moved' = FALSE /\ quiet' = FALSE

(* sync_watch(): ConfigWatch::new looks at the file as it is by now.       *)
SyncWatch(cfg) ==
  /\ watching' = cfg.auto
  /\ IF watching /\ cfg.auto
     THEN UNCHANGED <<seen, changed, due, lookVars>>
     ELSE /\ seen' = IF cfg.auto THEN mtime ELSE {}
          /\ changed' = FALSE
          /\ due' = FALSE
          /\ moved' = FALSE /\ quiet' = FALSE

(* Daemon::new. *)
New ==
  /\ pc = "new"
  /\ config' = got /\ tweaked' = FALSE
  /\ SyncWatch(got)
  /\ pc' = "dispatch"
  /\ UNCHANGED <<editVars, got, read, blind>>

-----------------------------------------------------------------------------
(* A client's `reload'. *)
ServeReload ==
  /\ pc = "dispatch"
  /\ pc' = "load"
  /\ UNCHANGED <<editVars, config, got, watchVars, read, tweaked, blind, lookVars>>

(* handle_set(): speed, mute and fill are stored, the file is not written. *)
Set(l) ==
  /\ pc = "dispatch"
  /\ config' = [config EXCEPT !.live = l]
  /\ tweaked' = TRUE
  /\ UNCHANGED <<editVars, pc, got, watchVars, read, blind, lookVars>>

(* handle_reload(): an error keeps the old config. *)
Reload == pc \in {"poll", "load"} /\ Load("apply", "dispatch")

(* Mutant of ApplyReload: what a client has set outlives the reload. *)
ApplyReloadKeepsSet ==
  /\ pc = "apply"
  /\ config' = [got EXCEPT !.live = config.live] /\ tweaked' = FALSE
  /\ SyncWatch(got)
  /\ pc' = "dispatch"
  /\ UNCHANGED <<editVars, got, read, blind>>

(* handle_reload() stores what was loaded, with what clients have set      *)
(* overwritten; the handle_set() at its end sets what is stored by then.   *)
ApplyReload ==
  /\ pc = "apply"
  /\ config' = got /\ tweaked' = FALSE
  /\ SyncWatch(got)
  /\ pc' = "dispatch"
  /\ UNCHANGED <<editVars, got, read, blind>>

(* Mutants of Poll: loads at the first sight of a change; never forgets    *)
(* that there was one; forgets one at the next poll whatever it sees.      *)
PollAtOnce ==
  /\ pc = "dispatch" /\ due
  /\ due' = FALSE
  /\ seen' = mtime
  /\ moved' = FALSE /\ quiet' = ~moved
  /\ pc' = IF mtime # seen THEN "poll" ELSE "dispatch"
  /\ UNCHANGED <<editVars, config, got, watching, changed, read, tweaked, blind>>

PollAgain ==
  /\ pc = "dispatch" /\ due
  /\ due' = FALSE
  /\ seen' = mtime
  /\ moved' = FALSE /\ quiet' = ~moved
  /\ changed' = (mtime # seen \/ changed)
  /\ pc' = IF mtime = seen /\ changed THEN "poll" ELSE "dispatch"
  /\ UNCHANGED <<editVars, config, got, watching, read, tweaked, blind>>

PollLoses ==
  /\ pc = "dispatch" /\ due
  /\ due' = FALSE
  /\ seen' = mtime
  /\ moved' = FALSE /\ quiet' = ~moved
  /\ changed' = (mtime # seen /\ ~changed)
  /\ pc' = IF mtime = seen /\ changed THEN "poll" ELSE "dispatch"
  /\ UNCHANGED <<editVars, config, got, watching, read, tweaked, blind>>

(* tick(): ConfigWatch::due() is true once the file changed and then held  *)
(* still for one poll; then it is loaded.                                  *)
Poll ==
  /\ pc = "dispatch" /\ due
  /\ due' = FALSE
  /\ seen' = mtime
  /\ moved' = FALSE /\ quiet' = ~moved
  /\ changed' = (mtime # seen)
  /\ pc' = IF mtime = seen /\ changed THEN "poll" ELSE "dispatch"
  /\ UNCHANGED <<editVars, config, got, watching, read, tweaked, blind>>

(* POLL has passed. *)
Elapse ==
  /\ watching /\ ~due
  /\ due' = TRUE
  /\ UNCHANGED <<editVars, pc, config, got, watching, seen, changed, read, tweaked, blind,
                 lookVars>>

(* Whoever edits the file: truncates it, writes a part of it or the rest,  *)
(* renames another over it, removes it.  Each moves the mtime, but a file  *)
(* removed when the watcher last saw none is as it was seen.               *)
Edit(f) ==
  /\ writes < MaxWrites
  /\ file' = f
  /\ writes' = writes + 1
  /\ moved' = TRUE
  /\ blind' = (blind \/ (pc \in {"new", "apply"} /\ ~watching) \/ (f = Absent /\ seen = {}))
  /\ UNCHANGED <<given, pc, config, got, watchVars, read, tweaked, quiet>>

Daemon == Start \/ New \/ Reload \/ ApplyReload \/ Poll

Next ==
  \/ Daemon \/ ServeReload \/ Elapse
  \/ \E l \in Lives : Set(l)
  \/ \E f \in File : Edit(f)

(* The thread goes on, time passes, and tick() follows every dispatch      *)
(* however many requests come.  Nobody has to edit or ask.                 *)
Fairness ==
  /\ WF_vars(Start \/ New \/ Reload \/ ApplyReload)
  /\ SF_vars(Poll)
  /\ WF_vars(Elapse)

Spec == Init /\ [][Next]_vars
FairSpec == Spec /\ Fairness

-----------------------------------------------------------------------------
(* Properties *)

(* No edit is lost: a watched file that is not as it was last loaded is    *)
(* going to be noticed, or has been.  The code leaves two exceptions: an   *)
(* edit between a load and the first look of the watcher it starts, and a  *)
(* file made and removed again between two looks, loaded meanwhile by a    *)
(* client's `reload'.                                                      *)
NoEditLost ==
  watching /\ pc = "dispatch" => read = file \/ seen # mtime \/ changed \/ blind

(* The config in force is what f says, but for what clients have set since *)
(* it was loaded; or f cannot be loaded, which keeps the old one.          *)
Follows(f) ==
  \A c \in Loaded(f) :
    config = IF tweaked THEN [c EXCEPT !.live = config.live] ELSE c

(* A daemon at rest, whose watcher has seen the file as it is, follows it. *)
(* However edits, polls, failed loads, reloads and what clients set came,  *)
(* there is nothing left that a later poll would put right, and nothing a  *)
(* client has set is left from before the last load.                       *)
InForce ==
  watching /\ pc = "dispatch" /\ seen = mtime /\ ~changed /\ ~blind => Follows(file)

(* "True once file changed and then held still for one poll, so half-      *)
(* written saves are not loaded" (watch.rs:32).  The load comes after that *)
(* poll, so what the code gives is less: what the watcher loads has been   *)
(* left alone from the poll before last to the load, or it has been        *)
(* touched since the last poll, and then the next one is going to see it   *)
(* and it is loaded again.  (No file at all is not half-written.)          *)
LoadsSettledOrAgain ==
  [][pc = "poll" /\ pc' # "poll" /\ file # Absent
       => IF moved THEN seen' # mtime' ELSE quiet]_vars

(* Once nobody edits any more, the daemon comes to follow the file.        *)
EditsTakeEffect == <>[](watching /\ ~blind => Follows(file))

(* And then the watcher stops reloading. *)
ReloadsEnd == <>[](pc # "poll")
=============================================================================
