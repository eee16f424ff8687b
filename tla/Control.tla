------------------------------ MODULE Control ------------------------------
(***************************************************************************)
(* The control socket in use: clients of ipc/transport.rs (request) and    *)
(* the daemons of SocketBind that answer them one at a time (serve and the *)
(* accept loop of run() in daemon/mod.rs), while daemons start, end, panic *)
(* and are killed.  What a request does to the daemon is in Daemon; here   *)
(* only `kill' is told apart.                                              *)
(*                                                                         *)
(* A connection is the client's place in the queue of a daemon's listener, *)
(* up to and including the time it is being served: the head of the queue  *)
(* is the client accept() has returned.                                    *)
(***************************************************************************)
EXTENDS SocketBind, Sequences

CONSTANT Clients  \* processes that connect once

ASSUME ControlAssumption == Clients \cap Daemons = {} /\ Nothing \notin Clients

VARIABLES
  conn,     \* the client's end of its connection
  request,  \* the request it has written, and half-closed
  answer,   \* what it has been told
  handled,  \* how often handle() ran for it
  queue,    \* connections of each daemon's listener, in order
  stage,    \* where a serving daemon's thread is
  exit      \* the loop is to end

clientVars == <<conn, request>>
talkVars == <<clientVars, answer, handled>>
controlVars == <<talkVars, queue, stage, exit>>
allVars == <<vars, controlVars>>

Requests == {"kill", "other", "garbage"}

ControlTypeOK ==
  /\ TypeOK
  /\ conn \in [Clients -> {"idle", "open", "gone"}]
  /\ request \in [Clients -> Requests \cup {"none"}]
  /\ answer \in [Clients -> {"none", "response", "unreadable", "closed"}]
  /\ handled \in [Clients -> Nat]
  /\ queue \in [Daemons -> Seq(Clients \cup Daemons)]
  /\ stage \in [Daemons -> {"idle", "read", "write", "leave"}]
  /\ exit \in [Daemons -> BOOLEAN]
  /\ \A d \in Daemons :
       pc[d] = "serving" /\ stage[d] \in {"read", "write"} => queue[d] # <<>>

ControlInit ==
  /\ Init
  /\ conn = [c \in Clients |-> "idle"]
  /\ request = [c \in Clients |-> "none"]
  /\ answer = [c \in Clients |-> "none"]
  /\ handled = [c \in Clients |-> 0]
  /\ queue = [d \in Daemons |-> <<>>]
  /\ stage = [d \in Daemons |-> "idle"]
  /\ exit = [d \in Daemons |-> FALSE]

-----------------------------------------------------------------------------
(* Clients. *)

Queued(who, d) == \E i \in DOMAIN queue[d] : queue[d][i] = who

(* connect(): the listener takes the connection before anyone accepts it.  *)
Joins(who) == queue' = [queue EXCEPT ![path] = Append(@, who)]

ClientConnect(c) ==
  /\ conn[c] = "idle"
  /\ IF Answers
     THEN conn' = [conn EXCEPT ![c] = "open"] /\ Joins(c)
     ELSE conn' = [conn EXCEPT ![c] = "gone"] /\ UNCHANGED queue
  /\ UNCHANGED <<vars, request, answer, handled, stage, exit>>

(* One JSON line, and the write side is shut down. *)
ClientSend(c) ==
  /\ conn[c] = "open" /\ request[c] = "none" /\ answer[c] = "none"
  /\ \E r \in Requests : request' = [request EXCEPT ![c] = r]
  /\ UNCHANGED <<vars, conn, answer, handled, queue, stage, exit>>

(* CLIENT_TIMEOUT has passed, or the client was killed.  What it has       *)
(* written stays in the socket.                                            *)
ClientGone(c) ==
  /\ conn[c] = "open" /\ answer[c] = "none"
  /\ conn' = [conn EXCEPT ![c] = "gone"]
  /\ UNCHANGED <<vars, request, answer, handled, queue, stage, exit>>

-----------------------------------------------------------------------------
(* The daemon's loop. *)

GoesOn(d, from, to) == stage[d] = from /\ stage' = [stage EXCEPT ![d] = to]

At(d, s) == pc[d] = "serving" /\ stage[d] = s
Client(d) == Head(queue[d])

(* The listener is readable. *)
Accept(d) ==
  /\ At(d, "idle")
  /\ queue[d] # <<>>
  /\ GoesOn(d, "idle", "read")
  /\ UNCHANGED <<vars, talkVars, queue, exit>>

(* Mutant of Finish: the loop accepts without looking whether anyone is    *)
(* left.                                                                   *)
FinishBlindly(d, say) ==
  /\ queue' = [queue EXCEPT ![d] = Tail(@)]
  /\ stage' = [stage EXCEPT ![d] = "read"]
  /\ answer' = [c \in Clients |->
                  IF c = Client(d) /\ conn[c] = "open" THEN say ELSE answer[c]]
  /\ UNCHANGED <<vars, clientVars, exit>>

(* The stream is dropped, with or without an answer, and the next one is   *)
(* accepted until there is none.                                           *)
Finish(d, say) ==
  /\ queue' = [queue EXCEPT ![d] = Tail(@)]
  /\ stage' = [stage EXCEPT ![d] = IF queue'[d] = <<>> THEN "idle" ELSE "read"]
  /\ answer' = [c \in Clients |->
                  IF c = Client(d) /\ conn[c] = "open" THEN say ELSE answer[c]]
  /\ UNCHANGED <<vars, clientVars, exit>>

(* read_request(): the connection is closed and nothing was written.  The  *)
(* look of a daemon that starts is such a connection.                      *)
ReadNothing(d) ==
  /\ At(d, "read")
  /\ Client(d) \in Clients
       => conn[Client(d)] = "gone" /\ request[Client(d)] = "none"
  /\ Finish(d, "closed")
  /\ UNCHANGED handled

(* Mutants of ReadFails: it waits for the client for ever; a client that   *)
(* was slow is heard after all; the time is up although the request is     *)
(* there.                                                                  *)
ReadWaits(d) ==
  /\ At(d, "read")
  /\ Client(d) \in Clients
  /\ request[Client(d)] = "garbage"
  /\ Finish(d, "unreadable")
  /\ UNCHANGED handled

ReadFailsThenHandles(d) ==
  /\ At(d, "read")
  /\ Client(d) \in Clients
  /\ \/ request[Client(d)] = "garbage"
     \/ request[Client(d)] = "none" /\ conn[Client(d)] = "open"
  /\ Finish(d, "unreadable")
  /\ handled' = [handled EXCEPT ![Client(d)] = @ + 1]

ReadFailsLate(d) ==
  /\ At(d, "read")
  /\ Client(d) \in Clients
  /\ request[Client(d)] = "garbage" \/ conn[Client(d)] = "open"
  /\ Finish(d, "unreadable")
  /\ UNCHANGED handled

(* It is no request, or nothing came within CLIENT_TIMEOUT. *)
ReadFails(d) ==
  /\ At(d, "read")
  /\ Client(d) \in Clients
  /\ \/ request[Client(d)] = "garbage"
     \/ request[Client(d)] = "none" /\ conn[Client(d)] = "open"
  /\ Finish(d, "unreadable")
  /\ UNCHANGED handled

Readable(d) ==
  /\ At(d, "read")
  /\ Client(d) \in Clients
  /\ request[Client(d)] \in {"kill", "other"}

Handle(d) ==
  /\ Readable(d)
  /\ GoesOn(d, "read", "write")
  /\ handled' = [handled EXCEPT ![Client(d)] = @ + 1]
  /\ exit' = [exit EXCEPT ![d] = @ \/ request[Client(d)] = "kill"]
  /\ UNCHANGED <<vars, clientVars, answer, queue>>

(* The answer; an error in writing it is the client's problem. *)
Answer(d) ==
  /\ At(d, "write")
  /\ Finish(d, "response")
  /\ UNCHANGED handled

(* The renderer has left cleanly. *)
RendererLeaves(d) ==
  /\ At(d, "idle")
  /\ exit' = [exit EXCEPT ![d] = TRUE]
  /\ UNCHANGED <<vars, talkVars, queue, stage>>

(* The loop ends; the listener stays open while the renderers are shut     *)
(* down.                                                                   *)
LeaveLoop(d) ==
  /\ At(d, "idle")
  /\ exit[d]
  /\ GoesOn(d, "idle", "leave")
  /\ UNCHANGED <<vars, talkVars, queue, exit>>

-----------------------------------------------------------------------------
(* SocketBind's steps, with what they do to connections. *)

(* The listener and every stream are closed. *)
Disconnects(d) ==
  /\ answer' = [c \in Clients |->
                  IF Queued(c, d) /\ conn[c] = "open" /\ answer[c] = "none"
                  THEN "closed" ELSE answer[c]]
  /\ queue' = [queue EXCEPT ![d] = <<>>]
  /\ UNCHANGED <<clientVars, stage, exit>>

(* run() returns at its end, or early with an error, or unwinds out of     *)
(* handle().                                                               *)
Ends(d) ==
  /\ Close(d)
  /\ Disconnects(d)
  /\ \/ stage[d] \in {"leave", "idle"} /\ UNCHANGED handled
     \/ Readable(d) /\ handled' = [handled EXCEPT ![Client(d)] = @ + 1]

IsKilled(d) == Kill(d) /\ Disconnects(d) /\ UNCHANGED handled

(* bind()'s look whether someone answers is a connection like any other. *)
Looks(d) ==
  /\ Connect(d)
  /\ IF Answers THEN Joins(d) ELSE UNCHANGED queue
  /\ UNCHANGED <<talkVars, stage, exit>>

Boots(d) ==
  /\ TryBind(d) \/ Remove(d) \/ Rebind(d) \/ Listen(d) \/ Unlink(d)
  /\ UNCHANGED controlVars

Starts(d) == Start(d) /\ UNCHANGED controlVars

(* What a daemon that serves does of its own. *)
Loop(d) ==
  \/ Accept(d) \/ ReadNothing(d) \/ ReadFails(d) \/ Handle(d) \/ Answer(d)
  \/ LeaveLoop(d)

ControlNext ==
  \/ \E c \in Clients : ClientConnect(c) \/ ClientSend(c) \/ ClientGone(c)
  \/ \E d \in Daemons :
       \/ Loop(d) \/ RendererLeaves(d)
       \/ Starts(d) \/ Looks(d) \/ Boots(d) \/ Ends(d) \/ IsKilled(d)

(* A daemon's thread goes on: each read and write on a socket ends at its  *)
(* timeout, and a request is at most MAX_REQUEST bytes, so a client that   *)
(* sends it byte by byte comes to an end, too.  Nothing is assumed of a    *)
(* client.                                                                 *)
ControlFairness ==
  \A d \in Daemons :
    /\ WF_allVars(Loop(d))
    /\ WF_allVars(Looks(d) \/ Boots(d))
    /\ WF_allVars(stage[d] = "leave" /\ Ends(d))

ControlSpec == ControlInit /\ [][ControlNext]_allVars
FairControlSpec == ControlSpec /\ ControlFairness

-----------------------------------------------------------------------------
(* Properties *)

(* A client that has got a response has been heard, once, and one whose    *)
(* request was refused unread never is: whatever timeouts, deaths and      *)
(* restarts of daemons come between.                                       *)
AnswersTrue ==
  \A c \in Clients :
    /\ handled[c] <= 1
    /\ answer[c] = "response" => handled[c] = 1
    /\ answer[c] = "unreadable" => handled[c] = 0

(* Control implements RequestOnce: whichever daemon a client reaches, and  *)
(* however daemons, queues and timeouts go on, its request is carried out  *)
(* at most once, not after it has been told anything, and it is told of a  *)
(* refusal only if there was nothing to carry out.                         *)
R == INSTANCE RequestOnce WITH
  Caller  <- Clients,
  Request <- Requests,
  Sound   <- {"kill", "other"},
  asked   <- request,
  heard   <- handled,
  told    <- answer

ImplementsRequestOnce == R!Spec

(* A client that connects and says nothing, or leaves in the middle, keeps *)
(* the others waiting no longer than its timeout.                          *)
Waits(c) == \E d \in Daemons : Queued(c, d)

EveryoneServed == \A c \in Clients : Waits(c) ~> ~Waits(c)

(* `live-paper kill', once handled, ends the daemon however the clients    *)
(* in its queue behave.                                                    *)
ExitEnds == \A d \in Daemons : exit[d] ~> pc[d] \in Over
=============================================================================
