# TLA+ specification of live-paper

live-paper plays a video as the wallpaper of a Wayland session. A *daemon*
supervises *renderer* processes (the same binary, run with `--renderer`): one
is on screen, and now and then a replacement is brought up beside it, because a
setting needs a new process, because a client asks, or because libmpv has
leaked too much memory. Clients (`live-paper set`, `pause`, `reload`, ...) talk
to the daemon over a Unix socket. This directory models the daemon with its
renderers, and the renderer with its compositor; TLC checks the models on small
instances and TLAPS proves the safety properties for every value of the
constants.

## Inventory

Paths are relative to `src/src/`.

| Part | State | Operations | Interacts through |
|---|---|---|---|
| daemon core, `daemon/mod.rs` | config, video, manual_pause, current, pending, pending_deadline, respawn_at, failures, baseline_mb, exit | spawn, restart, promote, broadcast, child messages, tick, requests, the end of run | calloop channel from reader threads, stdin pipes of children, socket, Instants |
| renderer handles, `daemon/child.rs` | process, stdin, reader thread, cached status | spawn, send, memory_kb, reap, shutdown, kill | pipes, signals, wait, /proc |
| restart policy, `daemon/restart.rs` | limit, poll_at, floor | init_policy, due | called by tick |
| config watcher, `daemon/watch.rs` | seen, changed, poll_at | due | file system; called by tick |
| renderer application, `wallpaper/app.rs` | window, frame_scheduled, ready, pause reasons, output, power object, toplevels, status_dirty | handlers of Wayland events, setters | compositor, backend |
| renderer loop, `wallpaper/mod.rs` | channels | read_init, watch_stdin, apply, run | stdin and stdout pipes |
| GameMode watcher, `wallpaper/gamemode.rs` | D-Bus connection | watch | D-Bus, channel |
| control socket, `daemon/mod.rs:467-523`, `ipc/transport.rs` | socket file, listener | bind, serve, SocketGuard, request | file system, clients |
| protocol, `ipc/protocol.rs` | none | types of requests, commands, events | JSON lines |
| config, `config.rs` | none | load, needs_restart | file system |
| backends and EGL, `wallpaper/backend/`, `wallpaper/egl.rs` | mpv handle, path, GL objects | init, render, pause, set_* | libmpv, OpenGL |
| command line, `cli.rs`, `bin/live-paper.rs` | none | parse, print, choose a mode | the parts above |

What is hard here, and what makes each part correct:

* **Daemon and renderers.** One thread reacts to messages that are older than
  its state. A renderer can be `Ready`, dead, retired and killed while its
  messages still wait in the channel; the daemon blocks up to 2 s in
  `shutdown()` and without bound in `reap()` while others move; respawn
  backoff, ready timeout, memory sampling and config polling come due in any
  order; requests arrive before the first frame. It is correct if no process
  is forgotten, the screen is not left empty without a respawn to come, the old
  renderer leaves only after the new one has drawn, both renderers know the
  settings, and all waiting ends. Seen from outside it is a succession: one
  renderer owns the screen, at most one heir is on its way.
* **Renderer.** Four reasons to pause come and go independently of each other
  and of the outstanding frame callback; windows, their batches of state, and
  the output become known in any order. It is correct if the frame loop neither
  stops nor doubles, one frame goes up even when paused, `hidden` agrees with
  the windows, no reason is left that nobody can take back, and the daemon
  hears of every change.
* **Config file.** An editor writes in several steps, at any time: between the
  load and the watcher's first look, between a poll and the read it leads to.
  Clients change part of the config in force without writing the file. It is
  correct if a file that is loaded while it is being written is loaded again, no
  edit is lost, what is in force ends up as the file says but for what a client has
  set since, and reloading ends.
* **Control socket.** Daemons that start, end and are killed share one path;
  clients stay silent, send garbage, time out and leave while the only thread
  serves another. It is correct if the daemon that serves is the one clients
  reach, a stale socket keeps nobody from starting, a client is told the truth,
  nobody waits for ever, and `kill` ends the daemon.

`PROJECT.json` lists the hazards one by one, at their lines, with the
properties that would catch them.

## Modules

* `Child` — the processes and the handles on them: `proc` is the operating
  system's view, `stdin` the pipes the daemon still holds, `report` what the
  reader thread has put in the channel, `told` the settings a child has been
  sent. A stdout pipe, its reader thread and the channel are one FIFO per child;
  the daemon may take the next message of any child, since the threads run
  independently. What the renderer does is reduced to drawing its first frame,
  crashing, and exiting.
* `Daemon` extends it with the daemon's thread. `pc` says where that thread is:
  in `dispatch` (waiting, or running callbacks), blocked in a handler
  (`retire` in `promote()`'s `shutdown()`, `reap`, `quit`), in one of the four
  parts of `tick()`, or at the end of `run()`. A handler that does not block is
  one action; `handle_child_event(Ready)` is two or three, because `promote()`
  may block between its two halves, and renderers die meanwhile. Each `Instant`
  is a timer that is off, armed or due.
* `Renderer` — the application and its loop. `handled` says that the current
  dispatch has run a handler; `Report` is what `run()` does after it.
* `SocketBind` — several processes and the one path of the control socket. A step
  is one system call of `bind()` (`bind(2)` and `listen(2)` are two) or a destructor. `listening` is the processes whose
  listener is open, so that `connect()` succeeds exactly when the socket at the
  path has one. At the end of `run()` the listener is dropped with the event loop
  and before the guard, which was created earlier; `Unlink` is the guard, and
  removes whatever is there.
* `Succession` — what the daemon promises about the screen: an owner, at most one
  heir, and those that are past and stay so. An heir succeeds only with a frame
  on screen; the owner is given up only when it is not heard any more or the
  daemon stops. `DaemonSuccession` is the mapping: the owner is `current`, the heir
  `pending`, past is every number given out that is neither, heard is having a
  reader thread. `Appear` is a spawn without a handover: the first one, or a
  respawn.
* `FrameLoop` — what a renderer promises about its frames: the surface comes up
  with one, a callback is on its way whenever the backend plays, and a pause lets
  the last one come and asks for no other. `Renderer` instantiates it: `paused` is
  `~playing`, `asked` one callback outstanding; a frame drawn while playing is a
  stutter.
* `RequestOnce` — what the control socket promises to a client: its request is
  carried out at most once, it is told at most one thing, which is true, and
  nothing is done for it afterwards. `Control` instantiates it with `request`,
  `handled` and `answer`.
* `ConfigFile` — the file, whoever edits it, and the daemon's thread as far as it
  touches the file or the config in force: the load at startup, `Daemon::new`
  (`New`), `sync_watch`, the poll of `tick()`, `handle_reload` (`Reload`, which loads,
  and `ApplyReload`, which stores), and `handle_set` (`Set`), which stores speed, mute
  and fill (`live`) in the config and not in the file. An edit may come between any
  two of these. The mtime is the number of edits so far, or none if there is no
  file: an edit that keeps the mtime (a copy that preserves it, or two writes within
  one clock tick of the file system) is outside the model, as it is invisible to the
  code. `read`, `tweaked`, `blind`, `moved` and `quiet` are history: what the last load
  saw; whether a client has set something since; whether the file has changed since
  where no look of the watcher can tell; whether it changed since the last look, and
  whether it did between the last two. Two windows are blind. One is between a load
  and the first look of the watcher it starts. The other needs no file at the last
  look: one is made, a client's `reload` loads it, and it is removed again before the
  next look, which sees none as before; the daemon then keeps the config of a file
  that is gone.
* `Control` extends `SocketBind` with clients and with what `serve()` and the
  accept loop do. A connection is a place in the queue of a listener; its head is
  the client being served, and `stage` says where: being read from or written to.
  The daemon's own `connect()` in `bind()` is such a connection and joins the queue
  of the daemon that serves. Every step of `SocketBind` appears with what it does
  to connections: closing a listener drops them all.
* `MCDaemon`, `MCRenderer`, `MCSocketBind`, `MCConfigFile`, `MCControl` — values for
  TLC.
* `DaemonProofs`, `SuccessionProofs`, `HandleProofs`, `RendererProofs`,
  `SocketProofs`, `ControlProofs`, `ConfigFileProofs` — theorems and proofs.

Definitions named `...Early`, `...Forgets...`, `...Without...` and so on, marked
"Mutant of", are not used by the specifications: each is a plausible mistake in
the definition it follows or precedes, and substituting it makes TLC find the
property named in `PROJECT.json` violated.

Abstractions. A `Config` is the four things its users tell apart: what
`needs_restart` compares (`struct`), what is applied while playing (`live`:
speed, mute, fill), `path`, and whether a memory limit and `auto_reload` are
set. Memory sizes are a choice: a sample may or may not exceed the limit.
`Config::load` yields any of `Configs` or fails. A `set` whose video does not
exist is among `ServeNoChange`; that `handle_reload` ignores the same error is
the parameter `found`. An error from `wait()` in `reap` ends as a crash does.
The renderer's sizes are left out, except that there is one.

## Runs

| Run | Shows |
|---|---|
| `lifecycle` | Three spawns, two failures allowed, unreadable output, one config. Every interleaving of first frames, deaths, late messages, timeouts, restarts and the end of the daemon: `ChildrenTracked`, `NeverAbandoned`, `HandoverAfterDraw`, `DeadlineIffPending`, `AtMostTwoRenderers`, `DeathHeard`, and that the daemon implements `Succession` (`ImplementsSuccession`). |
| `settings` | Two spawns, two videos, three configs (reloads that change the path alone, or what needs a restart with the path or without), automatic reload: `PauseAndVideoInSync`, an exit at any moment (`ExitNoticed`, `LeavesNoneBehind`), and `LostOnlyIfDead` on every step. |
| `liveness` | Two spawns, a memory limit and automatic reload, fairness: `PendingResolved`, `CrashAnswered`, `ExitStops`, `NoRendererOutlives`. |
| `renderer` | Two windows, one output: the frame loop and `hidden` as invariants, and that the renderer implements `FrameLoop` (`ImplementsFrameLoop`). The windows are symmetric. |
| `outputs` | One window, two outputs, fairness of the loop: power objects and reports. |
| `config` | Six configs, of which some turn the watcher off, with two values of what a client can set, a broken file and no file, five edits: `NoEditLost`, `InForce`, `LoadsSettledOrAgain` at every load of the watcher, and under fairness `EditsTakeEffect` and `ReloadsEnd`. |
| `socket` | Two daemons that start and end one at a time and are killed at any step, two clients: `ServerReachable`, `AnswersTrue`, `RefusedOnlyIfServed` on every step, that the sockets implement `RequestOnce` (`ImplementsRequestOnce`), and under fairness `EveryoneServed` and `ExitEnds`. |
| `panic`, `reload`, `respawn`, `batch`, `socket_race` | Each finds a place where a comment or an assertion of the code does not hold; see below. |

Bounds. `MaxSpawns` = 3 gives one renderer that is retired, one on screen and
one pending, with messages of all three in the channel; two suffice where the
question is about one handover. `SpawnErr` is possible at any time, and the only
outcome once the numbers are used up, so the bound never blocks a behaviour.
`MaxFailures` = 2 (5 in the code) has a crash that respawns and one that gives
up. `failures` is bounded by the spawns and the timers, not by a guard. Two
windows give interleaved batches, two outputs a move. `MaxWrites` = 5 gives an edit
that is noticed, two while it settles, one between the poll and the load and one
after; the bound ends the editing, which `EditsTakeEffect` is about, and the
theorems hold for any. Two daemons give one that leaves its socket behind and one
that finds it, or one that serves and one that is refused; two clients give one
that blocks and one that waits. The theorems are for any number of either.
`Overlap` is off in `socket`: daemons start and end one at a time (`OneAtATime`).
That is an assumption on whoever starts them. The daemon takes no lock that would
ensure it, and without it neither `ServerReachable` nor `RefusedOnlyIfServed` holds:
`socket_race` shows a daemon's socket being removed by another that starts, from
which both failures follow. It has to be a run of its own, since with `Overlap` off
nothing can come between another's `connect()` and `remove_file()`.
Where three processes are alive, one of them is not under command: `AtMostTwoRenderers`
counts renderers whose pipe the daemon holds, and one that a late respawn drops (see
`respawn` below) may take its time to leave.
In `settings` the configs do not differ in `live`, which none of its properties reads;
`ConfigFile` follows it.
In `Renderer`, `PowerMode` and `PowerFailed` need an object that we
hold, because the compositor sends nothing after Failed, and what an object that a
move destroyed had sent comes while the next is held. A Failed of the destroyed one that
is handled late, and then forgets the next, is left out.
`UnreadableOutput` lets a reader thread stop while its renderer lives
(`child.rs:62`). It is on in `lifecycle`. It is off in `settings` and
`liveness`: the daemon then takes the renderer for dead and blocks in `wait()`
for as long as the renderer lives, so `LostOnlyIfDead`, `CrashAnswered` and
`ExitStops` do not hold. `ZeroSizeFirst` is off: a surface anchored to all four edges is given
a size by its first configure; with it on, `FirstFrameUp` does not hold, since
`configure()` draws once only (`app.rs:579`).
Deadlock checking is off where the daemon or the renderer really ends.

Fairness. The daemon's thread runs (`WF` of `Run`), which includes that
`wait()` returns for a dead child and that `shutdown()` ends after its grace.
Clocks advance (`WF` of each `Elapse`). A message in the channel is eventually
handled: `SF`, because dispatch is left and entered again, and every dispatch
polls all ready sources. A renderer is assumed to do nothing at all while the
daemon lives: it may hang before its first frame or when told to leave. Once
the daemon is gone, and only then, it reads the end of its stdin and leaves. In
`Renderer` only the loop is fair. In `ConfigFile` the thread goes on and time
passes; the poll is `SF`, because a request takes the thread away and every
dispatch, whatever it was for, is followed by `tick()`. Nobody has to edit. In
`Control` a daemon's thread goes on while it serves (`WF` of `Loop`): every read and
write has a timeout, and `read_request` takes at most `MAX_REQUEST` bytes. Nothing is
assumed of a client, nor that a daemon without `kill` ends.

### Where the code and its comments disagree

* `panic`: "baseline should be set" (`daemon/mod.rs:181, 379, 426`) fails when a
  client sends `set <video>` or `reload` before the first renderer has drawn, and
  when the renderer on screen has died by the time its `Ready` is handled.
* `reload`: "The new config is already stored, so the replacement picks it up"
  (`daemon/mod.rs:438`) fails when a replacement was already on its way.
* `respawn`: `respawn_at`, "When a crashed child may be respawned"
  (`daemon/mod.rs:58`), survives the promotion of a replacement; the respawn then
  drops a healthy renderer, which leaves as its pipe closes, before the new one
  has drawn.
* `batch`: "only now is the toplevel's state consistent enough to act on"
  (`wallpaper/app.rs:749-750`), but other events act on it earlier.
* `socket_race`: "clearing one left behind by a daemon that was killed"
  (`daemon/mod.rs:501`), but what is removed may be the socket of a daemon that
  has bound since `connect()` failed; that one then runs unreachable. A daemon
  that ends may in the same way remove its successor's socket.

One more comment says more than the code does, without a run: "so half-written saves
are not loaded" (`daemon/watch.rs:32`). The file is read after the poll that found it
unchanged, and a save may have begun by then. `LoadsSettledOrAgain` is what the code
gives instead, checked and proved: such a file is loaded again.

## Proofs

TLAPS proves, for every number of spawns, windows and outputs and all sets of
configurations that the constants' assumptions allow:

* `DaemonProofs`: `TypeOK`, `DeadlineIffPending`, `HandoverAfterDraw`,
  `NeverAbandoned`, `ChildrenTracked`, `PauseAndVideoInSync`.
* `SuccessionProofs`: `Daemon` implements `Succession` (`Implements`), and, if
  `UnreadableOutput` is FALSE, `LostOnlyIfDead`. `RetiredStaysRetired` is drawn from
  `Succession` alone: who was let go never has a part again.
* `HandleProofs`: `AtMostTwoRenderers`, `LeavesNoneBehind`, `ExitNoticed`, and
  `DeathHeard`, with unreadable output or without.
* `RendererProofs`: `TypeOK`, `HiddenUpToDate`, `ScreenOffTracked`, `StatusReported`,
  and, if `ZeroSizeFirst` is FALSE, `FrameLoopAlive`, `OneFrameLoop`, `FirstFrameUp`
  and that `Renderer` implements `FrameLoop` (`ImplementsFrameLoopHolds`).
* `ConfigFileProofs`: `TypeOK`, `NoEditLost`, `InForce`, `LoadsSettledOrAgain`.
* `SocketProofs`: `TypeOK`, and `ServerReachable` and `RefusedOnlyIfServed` of every
  behaviour of which `OneAtATime` is true throughout. The theorems name that
  hypothesis, `Spec /\ []OneAtATime`, since nothing in the code ensures it; without
  `Overlap` every behaviour meets it (`OneAtATimeHolds`).
* `ControlProofs`: `Control` implements `SocketBind` (`BindsAsSpecified`), so both hold of
  it as well, under the same hypothesis; `ControlTypeOK`; and, whether or not daemons
  overlap,
  `AnswersTrue`, that it implements `RequestOnce` (`ImplementsRequestOnceHolds`), and
  from that alone `ToldIsFinal`.

Each is the usual three facts: Init implies the invariant, a step preserves it,
it implies the property. The strengthenings:

* `DeadlineInv` adds what holds of the deadline while the daemon ends.
* `HandoverInv` adds that a `ready` in a queue is of a child that has drawn:
  `promote()` believes the message, and the message is never early.
* `TrackedInv` (with `LeavingInv`) adds which child a blocking handler waits on
  and that a number not yet used has no process; without the latter a spawn
  could revive a forgotten one.
* `LoopInv` adds that the window appears with the first configure and that
  nothing is scheduled before; without it the first draw could be the second
  callback.
* `IInv` of `SocketProofs` says what the one busy daemon has found out (`StepKnows`):
  once nobody answers at the path nobody listens at all, so removing and binding
  again takes nothing from anyone.

* `SuccessionInv` adds to `HandoverInv` that a `gone` in a queue is of a renderer
  whose reader has ended, which is what lets an owner be given up; `Restart` and
  the spawns then map to `Summon`, `Appear` and `Waste`, `Promote` to `Succeed`, and
  everything that only moves timers, messages or processes to a stutter.
  `LostOnlyIfDead` needs more: that the reader ends only with its process, which is
  what `UnreadableOutput` = FALSE says.
* `SlotInv` of `HandleProofs` says which of the three handles are empty, or have no
  pipe, in each handler that blocks and at each stage of the end of `run()`. With
  `TrackedInv` it leaves at most two places where a renderer under command can be.
* `DeathInv` says that the reader of a dead child has ended, and that a child whose
  reader has ended and which the daemon still holds has a `gone` in the channel. It
  needs `HandlesIssued` of `SuccessionProofs`: were one child both on screen and the
  replacement, its one `gone` would clear only one of the two.
* `ExitInv` adds that a handler that blocks, or measures the baseline, was entered
  from a callback, so the dispatch it returns to ends at once.
* `PlayInv` of `RendererProofs` adds to `LoopInv` that the backend plays exactly if
  there is no reason to pause, which is what maps every `SetReason` to `Pause`,
  `Resume` or a stutter.
* `LoadInv` of `ConfigFileProofs` says what the thread has loaded while it is on its
  way to apply it, and that what was read last, with what clients have set since, is what
  is in force, unless it could not be loaded.
* `LookInv` of `ConfigFileProofs` says in each state of the thread whether an edit
  since the last load has been, or is going to be, noticed. Both it and
  `LoadsSettledOrAgain` rest on an edit having an mtime no poll has seen.
* `CInv` of `ControlProofs` says that a connection has one place in one queue, that
  who is in a queue has no answer yet, and that `handle()` has run for it only if it
  is the head and is being written to. For `RequestOnce` it gives that the request
  being handled is still owed (`HeadOwed`); a daemon that ends or is killed cuts off
  its whole queue at once, which is one step of `CutOff`.

Lemmas about `SpawnChild`, `Restart`, `Draw`, `SetReason` and so on say once what
a helper changes and are cited by the steps that call it.

Model-checked only: the liveness properties (out of the prover's reach):
`PendingResolved`, `CrashAnswered`, `ExitStops`, `NoRendererOutlives`, `ReadyHeard`,
`EditsTakeEffect`, `ReloadsEnd`, `EveryoneServed`, `ExitEnds`.

## Not modelled

Pixel sizes, speed, mute and fill inside the renderer, the cached status and
`query`'s answer, the arithmetic of the memory limit, the standalone mode without
a daemon, JSON and TOML, libmpv, EGL, argument parsing and printing are not
modelled: they are pure data, other people's code, or keep no state that a
property here is about. The hazards of the memory limit (a baseline measured
again from a renderer that has grown, a limit of zero) need a model of how
memory grows and are listed in `PROJECT.json` without a property. The thread that
watches GameMode is an environment of `Renderer`: that it may end while a game is
registered, and the pause then stays, is visible to nothing in the program.

## Plan

Done: 1. `Child` and `Daemon`, with the lifecycle, settings and liveness runs and
their proofs. 2. `Renderer`, likewise. 3. `SocketBind`, likewise. 4. `ConfigFile`,
likewise. 5. `Succession`, its refinement checked and proved. 6. `Control`, with
proofs of its safety. `FrameLoop` and `RequestOnce`, likewise.

Left, in this order:

7. `Memory` — a renderer that grows, the baseline, the floor and the sample, with
   the late `Ready` of a child that is gone measuring it again.
8. `Query` — the cached status and what `query` answers across handovers.
9. The live settings (speed, mute, fill) of the child on screen against the config
   in force, with the reloads that skip them (`daemon/mod.rs:437, 445`).
