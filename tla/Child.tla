------------------------------- MODULE Child -------------------------------
(***************************************************************************)
(* The renderer processes of the daemon and the handles it holds on them   *)
(* (daemon/child.rs), with what the renderer itself does (wallpaper/)      *)
(* reduced to what the daemon can see: it draws its first frame and says   *)
(* so, it crashes, it exits cleanly.                                       *)
(*                                                                         *)
(* A child's stdout, its reader thread and the calloop channel are one     *)
(* FIFO per child, `report'.  Reader threads are delayed independently, so *)
(* the daemon may take the next message of any child.  Its stdin is a      *)
(* reliable FIFO of commands that overwrite each other field by field;     *)
(* `told' is the settings the child ends in once it has read all of it.    *)
(***************************************************************************)
EXTENDS Naturals, Sequences

CONSTANTS
  MaxSpawns,         \* bound: spawn attempts of one daemon run
  Structs,           \* values of the settings only a new process applies
  Lives,             \* values of (speed, mute, fill), applied while playing
  Videos,            \* video paths and URLs
  UnreadableOutput   \* may a renderer write a line that is not UTF-8?

ASSUME ChildAssumption ==
  /\ MaxSpawns \in Nat
  /\ UnreadableOutput \in BOOLEAN

ChildId == 0 .. MaxSpawns - 1

(* What RenderCmd::Init and the commands after it set in a renderer. *)
Settings == [struct : Structs, live : Lives, video : Videos, paused : BOOLEAN]

VARIABLES
  proc,     \* the operating system's view of each child
  drawn,    \* children whose first frame reached the screen
  stdin,    \* children whose stdin pipe the daemon still holds open
  reading,  \* children whose reader thread still runs
  report,   \* messages of each child the daemon has not handled yet
  told      \* settings each child has been sent

childVars == <<proc, drawn, stdin, reading, report, told>>

(* "crashed" and "exited" are zombies: dead, with a status to be reaped. *)
Dead == {"crashed", "exited"}
ProcState == {"absent", "running", "reaped"} \cup Dead

ChildTypeOK ==
  /\ proc \in [ChildId -> ProcState]
  /\ drawn \subseteq ChildId
  /\ stdin \subseteq ChildId
  /\ reading \subseteq ChildId
  /\ report \in [ChildId -> Seq({"ready", "gone"})]
  /\ told \in [ChildId -> Settings]

ChildInit ==
  /\ proc = [c \in ChildId |-> "absent"]
  /\ drawn = {}
  /\ stdin = {}
  /\ reading = {}
  /\ report = [c \in ChildId |-> <<>>]
  /\ told = [c \in ChildId |-> CHOOSE s \in Settings : TRUE]

-----------------------------------------------------------------------------
(* The reader thread forwards what the child printed, and `Gone' at EOF.   *)

Reported(c, msg) ==
  IF c \in reading THEN [report EXCEPT ![c] = Append(@, msg)] ELSE report

(* Child::spawn: the process, its pipes, its reader thread and the Init    *)
(* command.  `dropped' are handles overwritten by the caller: dropping a   *)
(* std::process::Child neither kills nor reaps, it only closes the pipe.   *)
SpawnChild(c, settings, dropped) ==
  /\ proc' = [proc EXCEPT ![c] = "running"]
  /\ stdin' = (stdin \ dropped) \cup {c}
  /\ reading' = reading \cup {c}
  /\ told' = [told EXCEPT ![c] = settings]
  /\ UNCHANGED <<drawn, report>>

(* Child::kill, and the end of Child::shutdown: the process is dead, by    *)
(* itself or by SIGKILL, and reaped.                                       *)
KillChild(c) ==
  /\ proc' = [proc EXCEPT ![c] = "reaped"]
  /\ report' = Reported(c, "gone")
  /\ reading' = reading \ {c}
  /\ stdin' = stdin \ {c}
  /\ UNCHANGED <<drawn, told>>

-----------------------------------------------------------------------------
(* Steps of the renderer processes and of the reader threads. *)

(* The first frame reaches the screen, and the renderer reports Ready. *)
Draw(c) ==
  /\ proc[c] = "running"
  /\ c \notin drawn
  /\ drawn' = drawn \cup {c}
  /\ report' = Reported(c, "ready")
  /\ UNCHANGED <<proc, stdin, reading, told>>

Die(c, how) ==
  /\ proc[c] = "running"
  /\ proc' = [proc EXCEPT ![c] = how]
  /\ report' = Reported(c, "gone")
  /\ reading' = reading \ {c}
  /\ UNCHANGED <<drawn, stdin, told>>

(* A signal, a panic, or an error out of wallpaper::run. *)
Crash(c) == Die(c, "crashed")

(* The compositor closed the layer surface. *)
LayerClosed(c) == c \in stdin /\ Die(c, "exited")

(* Mutant of Leave: the command pipe is not read before the first frame. *)
LeaveOnceDrawn(c) == c \in drawn /\ c \notin stdin /\ Die(c, "exited")

(* Quit, or the end of stdin: the renderer leaves its loop. *)
Leave(c) == c \notin stdin /\ Die(c, "exited")

(* The reader thread stops at a line it cannot read and reports Gone,      *)
(* though the process is alive.                                            *)
ReaderStops(c) ==
  /\ UnreadableOutput
  /\ proc[c] = "running"
  /\ c \in reading
  /\ report' = Reported(c, "gone")
  /\ reading' = reading \ {c}
  /\ UNCHANGED <<proc, drawn, stdin, told>>

ChildStep(c) ==
  Draw(c) \/ Crash(c) \/ LayerClosed(c) \/ Leave(c) \/ ReaderStops(c)
=============================================================================
