----------------------------- MODULE SocketBind -----------------------------
(***************************************************************************)
(* The control socket (daemon/mod.rs: bind, SocketGuard, and how run()     *)
(* uses them): daemons of one Wayland session that start, serve, end and   *)
(* are killed, and the one path all of them use.  Each step is one call    *)
(* that bind or a Drop makes; those of different processes interleave.     *)
(***************************************************************************)
EXTENDS Naturals

CONSTANTS
  Daemons,    \* processes, each of which starts once
  Overlap,    \* may a daemon start while another starts or ends?
  Nothing     \* there is no file at the path

ASSUME SocketAssumption ==
  /\ Overlap \in BOOLEAN
  /\ Nothing \notin Daemons

VARIABLES
  pc,         \* where each process is
  path,       \* the process whose socket is at the path
  listening   \* processes whose listener is open

vars == <<pc, path, listening>>

Starting == {"bind", "connect", "remove", "rebind", "listen"}
Over == {"refused", "ended", "killed"}

TypeOK ==
  /\ pc \in [Daemons -> {"idle", "serving", "closed"} \cup Starting \cup Over]
  /\ path \in Daemons \cup {Nothing}
  /\ listening \subseteq Daemons

Init ==
  /\ pc = [d \in Daemons |-> "idle"]
  /\ path = Nothing
  /\ listening = {}

Goes(d, from, to) == pc[d] = from /\ pc' = [pc EXCEPT ![d] = to]

(* Between two calls of its start or of its end. *)
Busy(d) == pc[d] \in Starting \cup {"closed"}

(* Nobody else is, unless Overlap. *)
Alone(d) == Overlap \/ \A e \in Daemons \ {d} : ~Busy(e)

Start(d) ==
  /\ Alone(d)
  /\ Goes(d, "idle", "bind")
  /\ UNCHANGED <<path, listening>>

(* UnixListener::bind calls bind(2), which makes the file and fails with   *)
(* AddrInUse if there is any, and then listen(2).                          *)
Bind(d, from, otherwise) ==
  /\ \/ path = Nothing /\ Goes(d, from, "listen") /\ path' = d
     \/ path # Nothing /\ Goes(d, from, otherwise) /\ UNCHANGED path
  /\ UNCHANGED listening

Listen(d) ==
  /\ Goes(d, "listen", "serving")
  /\ listening' = listening \cup {d}
  /\ UNCHANGED path

TryBind(d) == Bind(d, "bind", "connect")

(* Mutants of Answers: nobody does; a file is enough. *)
NobodyAnswers == FALSE
FileIsEnough == path # Nothing

(* UnixStream::connect succeeds: the socket at the path has its listener.  *)
Answers == path \in listening

Connect(d) ==
  /\ Goes(d, "connect", IF Answers THEN "refused" ELSE "remove")
  /\ UNCHANGED <<path, listening>>

(* remove_file: whatever is at the path by now. *)
Remove(d) ==
  /\ Goes(d, "remove", IF path = Nothing THEN "refused" ELSE "rebind")
  /\ path' = Nothing
  /\ UNCHANGED listening

Rebind(d) == Bind(d, "rebind", "refused")

(* run() returns or unwinds: its locals are dropped in reverse order, so   *)
(* the event loop and with it the listener go before the guard.            *)
Close(d) ==
  /\ Alone(d)
  /\ Goes(d, "serving", "closed")
  /\ listening' = listening \ {d}
  /\ UNCHANGED path

(* SocketGuard::drop. *)
Unlink(d) ==
  /\ Goes(d, "closed", "ended")
  /\ path' = Nothing
  /\ UNCHANGED listening

(* A signal; nothing is dropped, the system closes the listener. *)
Kill(d) ==
  /\ pc[d] \in Starting \cup {"serving", "closed"}
  /\ pc' = [pc EXCEPT ![d] = "killed"]
  /\ listening' = listening \ {d}
  /\ UNCHANGED path

Next ==
  \E d \in Daemons :
    \/ Start(d) \/ TryBind(d) \/ Connect(d) \/ Remove(d) \/ Rebind(d)
    \/ Listen(d) \/ Close(d) \/ Unlink(d) \/ Kill(d)

Spec == Init /\ [][Next]_vars

-----------------------------------------------------------------------------
(* Properties *)

(* What no lock in the code ensures, but the session of one user mostly    *)
(* does: no daemon starts or ends while another does.  It is so of every   *)
(* behaviour without Overlap.                                              *)
OneAtATime == \A d, e \in Daemons : Busy(d) /\ Busy(e) => d = e

(* A daemon that serves is the one clients reach, and so there is one:     *)
(* whatever was killed, refused or ended before.  Of daemons OneAtATime.   *)
ServerReachable == \A d \in Daemons : pc[d] = "serving" => path = d

(* "another live-paper daemon is already running" (daemon/mod.rs:514) is   *)
(* the only reason to refuse: a stale socket keeps nobody from starting.   *)
(* Of daemons OneAtATime.                                                  *)
RefusedOnlyIfServed ==
  [][\A d \in Daemons :
       pc[d] # "refused" /\ pc'[d] = "refused" => \E e \in Daemons : pc[e] = "serving"]_vars

(* "Bind the socket, clearing one left behind by a daemon that was killed" *)
(* (daemon/mod.rs:501): what bind removes is never in use by its owner.    *)
ClearsOnlyStale ==
  [][\A d \in Daemons :
       pc[d] = "remove" /\ pc'[d] = "rebind" => path \notin listening]_vars
=============================================================================
