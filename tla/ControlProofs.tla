--------------------------- MODULE ControlProofs ---------------------------
(***************************************************************************)
(* What Control satisfies for any set of daemons and clients.  Its steps   *)
(* are steps of SocketBind, so what SocketProofs shows of the socket holds *)
(* with clients too.  That an answer is true needs an invariant about the  *)
(* queues: a client is in one of them, once, until it has been answered,   *)
(* and handle() has run for it only if it is the one being written to.     *)
(***************************************************************************)
EXTENDS Control, SocketProofs, SequenceTheorems

(* Every step of clients and daemons is a step of SocketBind, or none of   *)
(* its business.                                                           *)
LEMMA StepBinds == [ControlNext]_allVars => [Next]_vars
<1> SUFFICES ASSUME [ControlNext]_allVars PROVE [Next]_vars
  OBVIOUS
<1>1. CASE UNCHANGED allVars
  BY <1>1 DEF allVars, vars
<1>2. CASE \E c \in Clients : ClientConnect(c) \/ ClientSend(c) \/ ClientGone(c)
  BY <1>2 DEF ClientConnect, ClientSend, ClientGone
<1>3. ASSUME NEW d \in Daemons, Loop(d) \/ RendererLeaves(d)
      PROVE  UNCHANGED vars
  BY <1>3 DEF Loop, Accept, ReadNothing, ReadFails, Handle, Answer, LeaveLoop, Finish,
              RendererLeaves
<1>4. ASSUME NEW d \in Daemons,
             Starts(d) \/ Looks(d) \/ Boots(d) \/ Ends(d) \/ IsKilled(d)
      PROVE  Next
  BY <1>4 DEF Starts, Looks, Boots, Ends, IsKilled, Next
<1> QED
  BY <1>1, <1>2, <1>3, <1>4 DEF ControlNext

(* The socket's life in Control is one SocketBind allows.                  *)
THEOREM BindsAsSpecified == ControlSpec => Spec
<1>1. ControlInit => Init
  BY DEF ControlInit
<1> QED
  BY <1>1, StepBinds, PTL DEF ControlSpec, Spec

(* With clients that connect, stay silent and leave, and requests that end *)
(* daemons: as long as no daemon starts or ends while another does, the    *)
(* one that serves is the one clients reach.                               *)
THEOREM ControlServerReachable == ControlSpec /\ []OneAtATime => []ServerReachable
BY BindsAsSpecified, ServerReachableHolds, PTL

(* Nor, as long as no daemon starts or ends while another does, does one   *)
(* refuse to start unless another serves, be it busy with a silent client. *)
THEOREM ControlRefusedOnlyIfServed == ControlSpec /\ []OneAtATime => RefusedOnlyIfServed
BY BindsAsSpecified, RefusedOnlyIfServedHolds, PTL

-----------------------------------------------------------------------------
(* What the queues hold. *)

Who == Clients \cup Daemons

ListenersServe == \A d \in listening : pc[d] = "serving"

OnlyServingQueue == \A d \in Daemons : queue[d] # <<>> => pc[d] = "serving"

(* The loop of a daemon begins when it serves. *)
StartsIdle == \A d \in Daemons : pc[d] \in {"idle"} \cup Starting => stage[d] = "idle"

(* A connection has one place, in one queue. *)
OnePlace ==
  \A d, e \in Daemons : \A i \in DOMAIN queue[d], j \in DOMAIN queue[e] :
    queue[d][i] \in Clients /\ queue[d][i] = queue[e][j] => d = e /\ i = j

(* Who is in a queue has connected, has no answer yet, and has been heard  *)
(* only if the answer is being written.                                    *)
QueuedUnanswered ==
  \A d \in Daemons : \A i \in DOMAIN queue[d] :
    queue[d][i] \in Clients =>
      /\ conn[queue[d][i]] # "idle"
      /\ answer[queue[d][i]] = "none"
      /\ handled[queue[d][i]] = IF i = 1 /\ stage[d] = "write" THEN 1 ELSE 0

(* The answer is written to a client. *)
WritesToClient ==
  \A d \in Daemons : pc[d] = "serving" /\ stage[d] = "write" => queue[d][1] \in Clients

Fresh == \A c \in Clients : conn[c] = "idle" => handled[c] = 0 /\ answer[c] = "none"

CInv ==
  /\ ControlTypeOK
  /\ ListenersServe /\ OnlyServingQueue /\ StartsIdle
  /\ OnePlace /\ QueuedUnanswered /\ WritesToClient /\ Fresh
  /\ AnswersTrue

LEMMA InitControl == ControlInit => CInv
<1> SUFFICES ASSUME ControlInit PROVE CInv
  OBVIOUS
<1>1. ControlTypeOK
  <2>1. TypeOK
    BY DEF ControlInit, Init, TypeOK
  <2>2. queue \in [Daemons -> Seq(Clients \cup Daemons)]
    BY EmptySeq DEF ControlInit
  <2> QED
    BY <2>1, <2>2 DEF ControlInit, ControlTypeOK, Requests
<1>2. \A d \in Daemons : queue[d] = <<>> /\ stage[d] = "idle"
  BY DEF ControlInit
<1>3. DOMAIN <<>> = {}
  BY EmptySeq
<1>4. \A d \in Daemons : DOMAIN queue[d] = {}
  BY <1>2, <1>3
<1> QED
  BY <1>1, <1>2, <1>4 DEF CInv, ControlInit, Init, ListenersServe, OnlyServingQueue, StartsIdle,
       OnePlace, QueuedUnanswered, WritesToClient, Fresh, AnswersTrue

LEMMA QueueFacts ==
  ASSUME ControlTypeOK, NEW d \in Daemons
  PROVE  /\ queue[d] \in Seq(Who)
         /\ Len(queue[d]) \in Nat
         /\ DOMAIN queue[d] = 1 .. Len(queue[d])
         /\ \A i \in DOMAIN queue[d] : queue[d][i] \in Who
         /\ queue[d] # <<>> => Len(queue[d]) > 0 /\ Head(queue[d]) = queue[d][1]
<1>1. queue[d] \in Seq(Who)
  BY DEF ControlTypeOK, Who
<1>2. Len(queue[d]) \in Nat /\ DOMAIN queue[d] = 1 .. Len(queue[d])
  BY <1>1, LenProperties
<1>3. \A i \in DOMAIN queue[d] : queue[d][i] \in Who
  BY <1>1, <1>2, ElementOfSeq
<1>4. queue[d] # <<>> => Len(queue[d]) > 0
  BY <1>1, EmptySeq
<1> QED
  BY <1>1, <1>2, <1>3, <1>4

(* A connection that joins a queue is behind all that were there.          *)
LEMMA JoinsFacts ==
  ASSUME ControlTypeOK, Answers, NEW who \in Who, Joins(who)
  PROVE  /\ path \in Daemons
         /\ queue' \in [Daemons -> Seq(Who)]
         /\ queue'[path] # <<>>
         /\ DOMAIN queue'[path] = 1 .. Len(queue[path]) + 1
         /\ \A i \in DOMAIN queue[path] : queue'[path][i] = queue[path][i]
         /\ queue'[path][Len(queue[path]) + 1] = who
         /\ \A d \in Daemons \ {path} : queue'[d] = queue[d]
<1>1. path \in Daemons
  BY DEF Answers, ControlTypeOK, TypeOK
<1>2. queue' = [queue EXCEPT ![path] = Append(queue[path], who)]
  BY DEF Joins
<1>3. queue \in [Daemons -> Seq(Who)]
  BY DEF ControlTypeOK, Who
<1>4. queue'[path] = Append(queue[path], who)
  BY <1>1, <1>2, <1>3
<1>5. /\ Append(queue[path], who) \in Seq(Who)
      /\ Append(queue[path], who) # <<>>
      /\ Len(Append(queue[path], who)) = Len(queue[path]) + 1
      /\ \A i \in 1 .. Len(queue[path]) : Append(queue[path], who)[i] = queue[path][i]
      /\ Append(queue[path], who)[Len(queue[path]) + 1] = who
  BY <1>1, <1>3, AppendProperties
<1>6. DOMAIN queue'[path] = 1 .. Len(queue'[path])
  BY <1>4, <1>5, LenProperties
<1>7. DOMAIN queue[path] = 1 .. Len(queue[path])
  BY <1>1, QueueFacts
<1> QED
  BY <1>1, <1>2, <1>3, <1>4, <1>5, <1>6, <1>7

(* When the head leaves, the others move up. *)
LEMMA TailFacts ==
  ASSUME ControlTypeOK, NEW d \in Daemons, queue[d] # <<>>,
         queue' = [queue EXCEPT ![d] = Tail(@)]
  PROVE  /\ queue' \in [Daemons -> Seq(Who)]
         /\ DOMAIN queue'[d] = 1 .. Len(queue[d]) - 1
         /\ \A i \in DOMAIN queue'[d] : i + 1 \in DOMAIN queue[d] /\ queue'[d][i] = queue[d][i + 1]
         /\ \A e \in Daemons \ {d} : queue'[e] = queue[e]
<1>1. queue \in [Daemons -> Seq(Who)] /\ queue[d] \in Seq(Who)
  BY DEF ControlTypeOK, Who
<1>2. /\ Tail(queue[d]) \in Seq(Who)
      /\ Len(Tail(queue[d])) = Len(queue[d]) - 1
      /\ \A i \in 1 .. Len(Tail(queue[d])) : Tail(queue[d])[i] = queue[d][i + 1]
  BY <1>1, HeadTailProperties
<1>3. queue'[d] = Tail(queue[d])
  BY <1>1
<1>4. DOMAIN queue'[d] = 1 .. Len(queue'[d])
  BY <1>2, <1>3, LenProperties
<1>5. Len(queue[d]) \in Nat /\ DOMAIN queue[d] = 1 .. Len(queue[d])
  BY QueueFacts
<1>6. DOMAIN queue'[d] = 1 .. Len(queue[d]) - 1
  BY <1>2, <1>3, <1>4
<1>7. ASSUME NEW i \in DOMAIN queue'[d]
      PROVE  i + 1 \in DOMAIN queue[d] /\ queue'[d][i] = queue[d][i + 1]
  BY <1>2, <1>3, <1>5, <1>6, <1>7
<1> QED
  BY <1>1, <1>2, <1>6, <1>7

(* A process that starts, binds, is refused or unlinks has no connections. *)
LEMMA SocketStep ==
  ASSUME CInv, TypeOK', NEW d \in Daemons, Starts(d) \/ Boots(d)
  PROVE  CInv'
<1> USE DEF CInv
<1>1. UNCHANGED controlVars
  BY DEF Starts, Boots
<1>2. UNCHANGED <<conn, request, answer, handled, queue, stage, exit>>
  BY <1>1 DEF controlVars, talkVars, clientVars
<1>3. /\ pc[d] # "serving"
      /\ pc[d] \in {"idle"} \cup Starting \/ pc'[d] = "ended"
      /\ \A e \in Daemons \ {d} : pc'[e] = pc[e]
      /\ \/ listening' = listening
         \/ listening' = listening \cup {d} /\ pc'[d] = "serving"
  <2> USE DEF Goes, Starting, ControlTypeOK, TypeOK
  <2>1. CASE Start(d)
    BY <2>1 DEF Start
  <2>2. CASE TryBind(d)
    BY <2>2 DEF TryBind, Bind
  <2>3. CASE Rebind(d)
    BY <2>3 DEF Rebind, Bind
  <2>4. CASE Remove(d)
    BY <2>4 DEF Remove
  <2>5. CASE Unlink(d)
    BY <2>5 DEF Unlink
  <2>6. CASE Listen(d)
    BY <2>6 DEF Listen
  <2> QED
    BY <2>1, <2>2, <2>3, <2>4, <2>5, <2>6 DEF Starts, Boots
<1>4. pc[d] = "serving" \/ d \notin listening
  BY DEF ListenersServe
<1>5. ListenersServe'
  BY <1>3, <1>4 DEF ListenersServe, ControlTypeOK, TypeOK
<1>6. OnlyServingQueue'
  BY <1>2, <1>3 DEF OnlyServingQueue
<1>7. StartsIdle'
  BY <1>2, <1>3 DEF StartsIdle, Starting
<1>8. pc'[d] = "serving" => stage[d] = "idle"
  BY <1>3 DEF StartsIdle, Starting
<1>9. ControlTypeOK'
  BY <1>2, <1>3, <1>8 DEF ControlTypeOK
<1>10. WritesToClient'
  BY <1>2, <1>3, <1>8 DEF WritesToClient
<1>11. (OnePlace /\ QueuedUnanswered /\ Fresh /\ AnswersTrue)'
  BY <1>2 DEF OnePlace, QueuedUnanswered, Fresh, AnswersTrue
<1> QED
  BY <1>5, <1>6, <1>7, <1>9, <1>10, <1>11

(* A connection is made: of a client that had none, or of a daemon that    *)
(* looks whether another answers.                                          *)
LEMMA JoinStep ==
  ASSUME CInv, TypeOK', NEW who \in Who, Answers, Joins(who),
         UNCHANGED <<path, listening, request, answer, handled, stage, exit>>,
         \A e \in Daemons : pc[e] = "serving" <=> pc'[e] = "serving",
         \A e \in Daemons : pc'[e] \in {"idle"} \cup Starting => pc[e] \in {"idle"} \cup Starting,
         conn' \in [Clients -> {"idle", "open", "gone"}],
         \A c \in Clients \ {who} : conn'[c] = conn[c],
         who \in Clients => conn[who] = "idle" /\ conn'[who] # "idle"
  PROVE  CInv'
<1> USE DEF CInv
<1> DEFINE n == Len(queue[path]) + 1
<1>1. /\ path \in Daemons
      /\ queue' \in [Daemons -> Seq(Who)]
      /\ queue'[path] # <<>>
      /\ DOMAIN queue'[path] = 1 .. n
      /\ \A i \in DOMAIN queue[path] : queue'[path][i] = queue[path][i]
      /\ queue'[path][n] = who
      /\ \A d \in Daemons \ {path} : queue'[d] = queue[d]
  BY JoinsFacts
<1>2. n \in Nat \ {0} /\ DOMAIN queue[path] = 1 .. n - 1
  BY <1>1, QueueFacts
<1>3. pc[path] = "serving"
  BY DEF Answers, ListenersServe
<1>4. \A d \in Daemons : \A i \in DOMAIN queue'[d] :
        \/ i \in DOMAIN queue[d] /\ queue'[d][i] = queue[d][i]
        \/ d = path /\ i = n /\ queue'[d][i] = who
  BY <1>1, <1>2
<1>5. \A d \in Daemons : \A i \in DOMAIN queue[d] : who \in Clients => queue[d][i] # who
  BY DEF QueuedUnanswered
<1>6. ControlTypeOK'
  BY <1>1 DEF ControlTypeOK, Who
<1>7. (ListenersServe /\ StartsIdle)'
  BY DEF ListenersServe, StartsIdle, ControlTypeOK, TypeOK
<1>8. OnlyServingQueue'
  BY <1>1, <1>3 DEF OnlyServingQueue
<1>9. OnePlace'
  <2> SUFFICES ASSUME NEW d \in Daemons, NEW e \in Daemons,
                      NEW i \in DOMAIN queue'[d], NEW j \in DOMAIN queue'[e],
                      queue'[d][i] \in Clients, queue'[d][i] = queue'[e][j]
               PROVE  d = e /\ i = j
    BY DEF OnePlace
  <2>1. CASE i \in DOMAIN queue[d] /\ queue'[d][i] = queue[d][i]
    <3>1. queue[d][i] \in Clients
      BY <2>1
    <3>2. CASE j \in DOMAIN queue[e] /\ queue'[e][j] = queue[e][j]
      <4>1. queue[d][i] = queue[e][j]
        BY <2>1, <3>2
      <4> QED
        BY <2>1, <3>1, <3>2, <4>1 DEF OnePlace
    <3>3. CASE queue'[e][j] = who
      <4>1. queue[d][i] = who
        BY <2>1, <3>3
      <4> QED BY <2>1, <3>1, <4>1, <1>5
    <3> QED BY <3>2, <3>3, <1>4
  <2>2. CASE d = path /\ i = n /\ queue'[d][i] = who
    BY <2>2, <1>4, <1>5
  <2> QED BY <2>1, <2>2, <1>4
<1>10. QueuedUnanswered'
  <2> SUFFICES ASSUME NEW d \in Daemons, NEW i \in DOMAIN queue'[d], queue'[d][i] \in Clients
               PROVE  /\ conn'[queue'[d][i]] # "idle"
                      /\ answer[queue'[d][i]] = "none"
                      /\ handled[queue'[d][i]] = IF i = 1 /\ stage[d] = "write" THEN 1 ELSE 0
    BY DEF QueuedUnanswered
  <2>1. CASE i \in DOMAIN queue[d] /\ queue'[d][i] = queue[d][i]
    BY <2>1, <1>5 DEF QueuedUnanswered
  <2>2. CASE d = path /\ i = n /\ queue'[d][i] = who
    <3>1. answer[who] = "none" /\ handled[who] = 0
      BY <2>2 DEF Fresh
    <3>2. stage[path] = "write" => queue[path] # <<>>
      BY <1>1, <1>3 DEF ControlTypeOK
    <3>3. n = 1 => stage[path] # "write"
      BY <1>1, <1>2, <3>2, QueueFacts
    <3> QED BY <2>2, <3>1, <3>3
  <2> QED BY <2>1, <2>2, <1>4
<1>11. WritesToClient'
  <2> SUFFICES ASSUME NEW d \in Daemons, pc[d] = "serving", stage[d] = "write"
               PROVE  queue'[d][1] \in Clients
    BY DEF WritesToClient
  <2>1. queue[d] # <<>>
    BY DEF ControlTypeOK
  <2>2. 1 \in DOMAIN queue[d]
    BY <2>1, QueueFacts
  <2> QED BY <2>2, <1>1 DEF WritesToClient
<1>12. (Fresh /\ AnswersTrue)'
  BY DEF Fresh, AnswersTrue
<1> QED
  BY <1>6, <1>7, <1>8, <1>9, <1>10, <1>11, <1>12

(* A client connects, writes, or goes. *)
LEMMA ClientStep ==
  ASSUME CInv, TypeOK', NEW c \in Clients, ClientConnect(c) \/ ClientSend(c) \/ ClientGone(c)
  PROVE  CInv'
<1>1. CASE ClientConnect(c) /\ Answers
  <2>1. /\ Joins(c)
        /\ conn' = [conn EXCEPT ![c] = "open"]
        /\ conn[c] = "idle"
        /\ UNCHANGED <<pc, path, listening, request, answer, handled, stage, exit>>
    BY <1>1 DEF ClientConnect, vars
  <2>2. /\ conn' \in [Clients -> {"idle", "open", "gone"}]
        /\ \A x \in Clients \ {c} : conn'[x] = conn[x]
        /\ conn'[c] # "idle"
    BY <2>1 DEF CInv, ControlTypeOK
  <2> QED
    BY <1>1, <2>1, <2>2, JoinStep DEF Who
<1>2. CASE ~(ClientConnect(c) /\ Answers)
  <2>1. /\ UNCHANGED <<pc, path, listening, answer, handled, queue, stage, exit>>
        /\ conn' = conn \/ conn' = [conn EXCEPT ![c] = "gone"]
        /\ request' = request \/ \E r \in Requests : request' = [request EXCEPT ![c] = r]
    BY <1>2 DEF ClientConnect, ClientSend, ClientGone, vars
  <2>2. \A x \in Clients : conn'[x] = conn[x] \/ conn'[x] = "gone"
    BY <2>1 DEF CInv, ControlTypeOK
  <2>3. ControlTypeOK'
    BY <2>1 DEF CInv, ControlTypeOK
  <2> QED
    BY <2>1, <2>2, <2>3
       DEF CInv, ListenersServe, OnlyServingQueue, StartsIdle, OnePlace, QueuedUnanswered,
           WritesToClient, Fresh, AnswersTrue
<1> QED
  BY <1>1, <1>2

(* The loop accepts or ends, or learns that it is to end. *)
LEMMA LoopStep ==
  ASSUME CInv, TypeOK', NEW d \in Daemons, Accept(d) \/ LeaveLoop(d) \/ RendererLeaves(d)
  PROVE  CInv'
<1> USE DEF CInv
<1>1. /\ UNCHANGED <<pc, path, listening, conn, request, answer, handled, queue>>
      /\ exit' = exit \/ exit' = [exit EXCEPT ![d] = TRUE]
      /\ pc[d] = "serving" /\ stage[d] = "idle"
      /\ \/ stage' = stage
         \/ stage' = [stage EXCEPT ![d] = "read"] /\ queue[d] # <<>>
         \/ stage' = [stage EXCEPT ![d] = "leave"]
  BY DEF Accept, LeaveLoop, RendererLeaves, GoesOn, At, vars, talkVars, clientVars
<1>2. \A e \in Daemons : stage'[e] = "write" <=> stage[e] = "write"
  BY <1>1 DEF ControlTypeOK
<1>3. \A e \in Daemons : stage'[e] \in {"read", "write"} =>
                          stage[e] \in {"read", "write"} \/ queue[e] # <<>>
  BY <1>1 DEF ControlTypeOK
<1>4. ControlTypeOK'
  BY <1>1, <1>3 DEF ControlTypeOK
<1>5. StartsIdle'
  BY <1>1 DEF StartsIdle, Starting, ControlTypeOK
<1>6. QueuedUnanswered' /\ WritesToClient'
  BY <1>1, <1>2 DEF QueuedUnanswered, WritesToClient
<1> QED
  BY <1>1, <1>4, <1>5, <1>6
     DEF ListenersServe, OnlyServingQueue, OnePlace, Fresh, AnswersTrue

(* handle(): the head of the queue is heard, for the first time. *)
LEMMA HandleStep ==
  ASSUME CInv, TypeOK', NEW d \in Daemons, Handle(d)
  PROVE  CInv'
<1> USE DEF CInv
<1> DEFINE h == queue[d][1]
<1>1. /\ UNCHANGED <<pc, path, listening, conn, request, answer, queue>>
      /\ pc[d] = "serving" /\ stage[d] = "read"
      /\ stage' = [stage EXCEPT ![d] = "write"]
      /\ Client(d) \in Clients
      /\ handled' = [handled EXCEPT ![Client(d)] = @ + 1]
      /\ exit' = [exit EXCEPT ![d] = @ \/ request[Client(d)] = "kill"]
  BY DEF Handle, Readable, GoesOn, At, vars, clientVars
<1>2. queue[d] # <<>>
  BY <1>1 DEF ControlTypeOK
<1>3. h = Client(d) /\ 1 \in DOMAIN queue[d] /\ h \in Clients
  BY <1>1, <1>2, QueueFacts DEF Client
<1>4. conn[h] # "idle" /\ answer[h] = "none" /\ handled[h] = 0
  BY <1>1, <1>3 DEF QueuedUnanswered
<1>5. handled'[h] = 1 /\ \A c \in Clients \ {h} : handled'[c] = handled[c]
  BY <1>1, <1>3, <1>4 DEF ControlTypeOK
<1>6. stage'[d] = "write" /\ \A e \in Daemons \ {d} : stage'[e] = stage[e]
  BY <1>1 DEF ControlTypeOK
<1>7. ControlTypeOK'
  BY <1>1, <1>2, <1>6 DEF ControlTypeOK
<1>8. StartsIdle'
  BY <1>1, <1>6 DEF StartsIdle, Starting
<1>9. QueuedUnanswered'
  <2> SUFFICES ASSUME NEW e \in Daemons, NEW i \in DOMAIN queue[e], queue[e][i] \in Clients
               PROVE  /\ conn[queue[e][i]] # "idle"
                      /\ answer[queue[e][i]] = "none"
                      /\ handled'[queue[e][i]] = IF i = 1 /\ stage'[e] = "write" THEN 1 ELSE 0
    BY <1>1 DEF QueuedUnanswered
  <2>1. CASE e = d /\ i = 1
    BY <2>1, <1>4, <1>5, <1>6
  <2>2. CASE ~(e = d /\ i = 1)
    <3>1. queue[e][i] # h
      BY <2>2, <1>3 DEF OnePlace
    <3> QED
      BY <2>2, <3>1, <1>1, <1>5, <1>6 DEF QueuedUnanswered
  <2> QED BY <2>1, <2>2
<1>10. WritesToClient'
  BY <1>1, <1>3, <1>6 DEF WritesToClient
<1>11. (Fresh /\ AnswersTrue)'
  BY <1>1, <1>4, <1>5 DEF Fresh, AnswersTrue, ControlTypeOK
<1> QED
  BY <1>1, <1>7, <1>8, <1>9, <1>10, <1>11 DEF ListenersServe, OnlyServingQueue, OnePlace

(* The head of the queue has its answer or none, and leaves. *)
LEMMA FinishStep ==
  ASSUME CInv, TypeOK', NEW d \in Daemons, ReadNothing(d) \/ ReadFails(d) \/ Answer(d)
  PROVE  CInv'
<1> USE DEF CInv
<1> DEFINE h == queue[d][1]
<1>1. PICK say \in {"response", "unreadable", "closed"} :
        /\ Finish(d, say)
        /\ handled' = handled
        /\ pc[d] = "serving" /\ stage[d] \in {"read", "write"}
        /\ say = "response" => stage[d] = "write"
        /\ say = "unreadable" => stage[d] = "read"
  BY DEF ReadNothing, ReadFails, Answer, At
<1>2. queue[d] # <<>>
  BY <1>1 DEF ControlTypeOK
<1>3. /\ UNCHANGED <<pc, path, listening, conn, request, exit>>
      /\ queue' = [queue EXCEPT ![d] = Tail(@)]
      /\ stage' = [stage EXCEPT ![d] = IF queue'[d] = <<>> THEN "idle" ELSE "read"]
      /\ answer' = [c \in Clients |-> IF c = h /\ conn[c] = "open" THEN say ELSE answer[c]]
  BY <1>1, <1>2, QueueFacts DEF Finish, Client, vars, clientVars
<1>4. /\ queue' \in [Daemons -> Seq(Who)]
      /\ \A i \in DOMAIN queue'[d] : i \in Nat \ {0} /\ i + 1 \in DOMAIN queue[d]
                                    /\ queue'[d][i] = queue[d][i + 1]
      /\ \A e \in Daemons \ {d} : queue'[e] = queue[e]
      /\ 1 \in DOMAIN queue[d]
  <2>1. Len(queue[d]) \in Nat \ {0} /\ DOMAIN queue[d] = 1 .. Len(queue[d])
    BY <1>2, QueueFacts
  <2>2. /\ queue' \in [Daemons -> Seq(Who)]
        /\ DOMAIN queue'[d] = 1 .. Len(queue[d]) - 1
        /\ \A i \in DOMAIN queue'[d] : i + 1 \in DOMAIN queue[d] /\ queue'[d][i] = queue[d][i + 1]
        /\ \A e \in Daemons \ {d} : queue'[e] = queue[e]
    BY <1>2, <1>3, TailFacts
  <2>3. \A i \in DOMAIN queue'[d] : i \in Nat \ {0}
    BY <2>1, <2>2
  <2> QED BY <2>1, <2>2, <2>3
<1>5. /\ stage'[d] # "write" /\ stage'[d] \in {"idle", "read"}
      /\ stage'[d] = "read" => queue'[d] # <<>>
      /\ \A e \in Daemons \ {d} : stage'[e] = stage[e]
  BY <1>3 DEF ControlTypeOK
<1>6. ControlTypeOK'
  BY <1>1, <1>3, <1>4, <1>5 DEF ControlTypeOK, Who
<1>7. (ListenersServe /\ StartsIdle /\ OnlyServingQueue)'
  BY <1>1, <1>3, <1>4, <1>5 DEF ListenersServe, StartsIdle, Starting, OnlyServingQueue
<1>8. ASSUME NEW e \in Daemons, NEW i \in DOMAIN queue'[e]
      PROVE  /\ IF e = d THEN i \in Nat \ {0} /\ i + 1 \in DOMAIN queue[e]
                                                /\ queue'[e][i] = queue[e][i + 1]
                         ELSE i \in DOMAIN queue[e] /\ queue'[e][i] = queue[e][i]
             /\ queue'[e][i] \in Clients => queue'[e][i] # h
  <2>1. CASE e = d
    <3>1. i \in Nat \ {0} /\ i + 1 \in DOMAIN queue[d] /\ queue'[d][i] = queue[d][i + 1]
      BY <2>1, <1>4
    <3>2. i + 1 # 1
      BY <3>1
    <3>3. queue[d][i + 1] \in Clients => queue[d][i + 1] # h
      BY <3>1, <3>2, <1>4 DEF OnePlace
    <3> QED BY <2>1, <3>1, <3>3
  <2>2. CASE e # d
    <3>1. queue'[e] = queue[e]
      BY <2>2, <1>4
    <3>2. queue[e][i] \in Clients => queue[e][i] # h
      BY <2>2, <3>1, <1>4 DEF OnePlace
    <3> QED BY <2>2, <3>1, <3>2
  <2> QED BY <2>1, <2>2
<1>9. OnePlace'
  <2> SUFFICES ASSUME NEW e \in Daemons, NEW f \in Daemons,
                      NEW i \in DOMAIN queue'[e], NEW j \in DOMAIN queue'[f],
                      queue'[e][i] \in Clients, queue'[e][i] = queue'[f][j]
               PROVE  e = f /\ i = j
    BY DEF OnePlace
  <2>1. PICK k \in DOMAIN queue[e] :
          queue'[e][i] = queue[e][k] /\ (k = IF e = d THEN i + 1 ELSE i)
    BY <1>8
  <2>2. PICK l \in DOMAIN queue[f] :
          queue'[f][j] = queue[f][l] /\ (l = IF f = d THEN j + 1 ELSE j)
    BY <1>8
  <2>3. e = f /\ k = l
    <3>1. queue[e][k] \in Clients /\ queue[e][k] = queue[f][l]
      BY <2>1, <2>2
    <3> QED
      BY <3>1 DEF OnePlace
  <2>4. e = d => i \in Nat
    BY <1>8
  <2>5. f = d => j \in Nat
    BY <1>8
  <2> QED BY <2>1, <2>2, <2>3, <2>4, <2>5
<1>10. QueuedUnanswered'
  <2> SUFFICES ASSUME NEW e \in Daemons, NEW i \in DOMAIN queue'[e], queue'[e][i] \in Clients
               PROVE  /\ conn[queue'[e][i]] # "idle"
                      /\ answer'[queue'[e][i]] = "none"
                      /\ handled[queue'[e][i]] =
                           IF i = 1 /\ stage'[e] = "write" THEN 1 ELSE 0
    BY <1>1, <1>3 DEF QueuedUnanswered
  <2>1. answer'[queue'[e][i]] = answer[queue'[e][i]]
    BY <1>3, <1>8
  <2>2. CASE e = d
    <3>1. i \in Nat \ {0} /\ i + 1 \in DOMAIN queue[d] /\ queue'[d][i] = queue[d][i + 1]
      BY <2>2, <1>8
    <3>2. i + 1 # 1
      BY <3>1
    <3> QED
      BY <2>1, <2>2, <3>1, <3>2, <1>5 DEF QueuedUnanswered
  <2>3. CASE e # d
    BY <2>1, <2>3, <1>5, <1>8 DEF QueuedUnanswered
  <2> QED BY <2>2, <2>3
<1>11. WritesToClient'
  BY <1>3, <1>4, <1>5 DEF WritesToClient
<1>12. (Fresh /\ AnswersTrue)'
  <2>1. h \in Clients => /\ conn[h] # "idle"
                         /\ handled[h] = IF stage[d] = "write" THEN 1 ELSE 0
    BY <1>4 DEF QueuedUnanswered
  <2>2. \A c \in Clients : answer'[c] = answer[c] \/ (c = h /\ answer'[c] = say)
    BY <1>3
  <2> QED
    BY <2>1, <2>2, <1>1, <1>3 DEF Fresh, AnswersTrue
<1> QED
  BY <1>6, <1>7, <1>9, <1>10, <1>11, <1>12

(* A daemon's look is a connection of its own, if someone answers. *)
LEMMA LookStep ==
  ASSUME CInv, TypeOK', NEW d \in Daemons, Looks(d)
  PROVE  CInv'
<1>1. /\ UNCHANGED <<path, listening, conn, request, answer, handled, stage, exit>>
      /\ pc[d] = "connect" /\ pc'[d] \in {"refused", "remove"}
      /\ \A e \in Daemons \ {d} : pc'[e] = pc[e]
      /\ pc \in [Daemons -> {"idle", "serving", "closed"} \cup Starting \cup Over]
  BY DEF Looks, Connect, Goes, CInv, ControlTypeOK, TypeOK, Starting, talkVars, clientVars
<1>2. \A e \in Daemons : pc[e] = "serving" <=> pc'[e] = "serving"
  BY <1>1
<1>3. \A e \in Daemons : pc'[e] \in {"idle"} \cup Starting => pc[e] \in {"idle"} \cup Starting
  BY <1>1 DEF Starting
<1>4. CASE Answers
  <2>1. Joins(d) /\ d \in Who /\ d \notin Clients
    BY <1>4, ControlAssumption DEF Looks, Who
  <2>2. conn' \in [Clients -> {"idle", "open", "gone"}]
    BY <1>1 DEF CInv, ControlTypeOK
  <2> QED
    BY <1>1, <1>2, <1>3, <1>4, <2>1, <2>2, JoinStep
<1>5. CASE ~Answers
  <2>1. queue' = queue
    BY <1>5 DEF Looks
  <2>2. ControlTypeOK'
    BY <1>1, <1>2, <2>1 DEF CInv, ControlTypeOK
  <2>3. (ListenersServe /\ StartsIdle)'
    BY <1>1, <1>2, <1>3 DEF CInv, ListenersServe, StartsIdle, ControlTypeOK, TypeOK
  <2> QED
    BY <1>1, <1>2, <2>1, <2>2, <2>3
       DEF CInv, OnlyServingQueue, OnePlace, QueuedUnanswered, WritesToClient, Fresh, AnswersTrue
<1> QED BY <1>4, <1>5

(* A daemon that ends or is killed closes every connection it has. *)
LEMMA EndStep ==
  ASSUME CInv, TypeOK', NEW d \in Daemons, Ends(d) \/ IsKilled(d)
  PROVE  CInv'
<1> USE DEF CInv
<1> DEFINE h == queue[d][1]
<1>1. /\ UNCHANGED <<conn, request, stage, exit>>
      /\ pc'[d] \in {"closed", "killed"}
      /\ \A e \in Daemons \ {d} : pc'[e] = pc[e]
      /\ listening' = listening \ {d}
      /\ queue' = [queue EXCEPT ![d] = <<>>]
      /\ answer' = [c \in Clients |->
                      IF Queued(c, d) /\ conn[c] = "open" /\ answer[c] = "none"
                      THEN "closed" ELSE answer[c]]
  BY DEF Ends, IsKilled, Close, Kill, Goes, Disconnects, clientVars, ControlTypeOK, TypeOK
<1>2. /\ <<>> \in Seq(Who) /\ DOMAIN <<>> = {}
      /\ queue \in [Daemons -> Seq(Who)]
  BY EmptySeq DEF ControlTypeOK, Who
<1>3. /\ queue' \in [Daemons -> Seq(Who)]
      /\ queue'[d] = <<>> /\ DOMAIN queue'[d] = {}
      /\ \A e \in Daemons \ {d} : queue'[e] = queue[e]
  BY <1>1, <1>2
<1>4. \/ handled' = handled
      \/ /\ h \in Clients /\ queue[d] # <<>> /\ stage[d] = "read"
         /\ handled' = [handled EXCEPT ![h] = @ + 1]
  <2>1. CASE Readable(d)
    <3>1. queue[d] # <<>> /\ stage[d] = "read" /\ Client(d) \in Clients
      BY <2>1 DEF Readable, At, ControlTypeOK
    <3>2. Client(d) = h
      BY <3>1, QueueFacts DEF Client
    <3> QED BY <3>1, <3>2 DEF Ends, IsKilled
  <2>2. CASE ~Readable(d)
    BY <2>2 DEF Ends, IsKilled
  <2> QED BY <2>1, <2>2
<1>5. queue[d] # <<>> => 1 \in DOMAIN queue[d]
  BY QueueFacts
<1>6. ASSUME h \in Clients, queue[d] # <<>>, stage[d] = "read"
      PROVE  /\ conn[h] # "idle" /\ answer[h] = "none" /\ handled[h] = 0
             /\ \A e \in Daemons \ {d} : \A i \in DOMAIN queue[e] : queue[e][i] # h
  BY <1>5, <1>6 DEF QueuedUnanswered, OnePlace
<1>7. ControlTypeOK'
  <2>1. handled' \in [Clients -> Nat]
    BY <1>4 DEF ControlTypeOK
  <2>2. answer' \in [Clients -> {"none", "response", "unreadable", "closed"}]
    BY <1>1 DEF ControlTypeOK
  <2>3. \A e \in Daemons :
          pc'[e] = "serving" /\ stage'[e] \in {"read", "write"} => queue'[e] # <<>>
    BY <1>1, <1>3 DEF ControlTypeOK
  <2> QED
    BY <2>1, <2>2, <2>3, <1>1, <1>3 DEF ControlTypeOK, Who
<1>8. (ListenersServe /\ StartsIdle /\ OnlyServingQueue)'
  BY <1>1, <1>3 DEF ListenersServe, StartsIdle, Starting, OnlyServingQueue, ControlTypeOK, TypeOK
<1>9. OnePlace'
  BY <1>3 DEF OnePlace
<1>10. QueuedUnanswered'
  <2> SUFFICES ASSUME NEW e \in Daemons, NEW i \in DOMAIN queue'[e], queue'[e][i] \in Clients
               PROVE  /\ conn[queue'[e][i]] # "idle"
                      /\ answer'[queue'[e][i]] = "none"
                      /\ handled'[queue'[e][i]] =
                           IF i = 1 /\ stage[e] = "write" THEN 1 ELSE 0
    BY <1>1 DEF QueuedUnanswered
  <2>1. e # d /\ queue'[e] = queue[e]
    BY <1>3
  <2>2. ~Queued(queue[e][i], d)
    BY <2>1 DEF OnePlace, Queued
  <2>3. answer'[queue[e][i]] = answer[queue[e][i]]
    BY <2>1, <2>2, <1>1
  <2>4. handled'[queue[e][i]] = handled[queue[e][i]]
    BY <2>1, <1>4, <1>6 DEF ControlTypeOK
  <2> QED
    BY <2>1, <2>3, <2>4 DEF QueuedUnanswered
<1>11. WritesToClient'
  BY <1>1, <1>3 DEF WritesToClient
<1>12. (Fresh /\ AnswersTrue)'
  <2>1. ASSUME NEW c \in Clients
        PROVE  \/ handled'[c] = handled[c]
               \/ handled'[c] = 1 /\ handled[c] = 0 /\ conn[c] # "idle" /\ answer[c] = "none"
    BY <1>4, <1>6 DEF ControlTypeOK
  <2>2. ASSUME NEW c \in Clients
        PROVE  answer'[c] = answer[c] \/ (answer'[c] = "closed" /\ conn[c] # "idle")
    BY <1>1
  <2> QED
    BY <2>1, <2>2, <1>1 DEF Fresh, AnswersTrue
<1> QED
  BY <1>7, <1>8, <1>9, <1>10, <1>11, <1>12

LEMMA ControlInductive ==
  ASSUME CInv, TypeOK', [ControlNext]_allVars
  PROVE  CInv'
<1>1. CASE \E c \in Clients : ClientConnect(c) \/ ClientSend(c) \/ ClientGone(c)
  BY <1>1, ClientStep
<1>2. ASSUME NEW d \in Daemons, Loop(d) \/ RendererLeaves(d)
      PROVE  CInv'
  BY <1>2, LoopStep, FinishStep, HandleStep DEF Loop
<1>3. ASSUME NEW d \in Daemons, Starts(d) \/ Looks(d) \/ Boots(d) \/ Ends(d) \/ IsKilled(d)
      PROVE  CInv'
  BY <1>3, SocketStep, LookStep, EndStep
<1>4. CASE UNCHANGED allVars
  <2>1. UNCHANGED <<pc, path, listening, conn, request, answer, handled, queue, stage, exit>>
    BY <1>4 DEF allVars, vars, controlVars, talkVars, clientVars
  <2>2. ControlTypeOK'
    BY <2>1 DEF CInv, ControlTypeOK
  <2> QED
    BY <2>1, <2>2
       DEF CInv, ListenersServe, OnlyServingQueue, StartsIdle, OnePlace, QueuedUnanswered,
           WritesToClient, Fresh, AnswersTrue
<1> QED
  BY <1>1, <1>2, <1>3, <1>4 DEF ControlNext

THEOREM ControlInvariant == ControlSpec => []CInv
<1>1. CInv /\ TypeOK' /\ [ControlNext]_allVars => CInv'
  BY ControlInductive
<1> QED
  BY <1>1, InitControl, BindsAsSpecified, TypeCorrect, PTL DEF ControlSpec

(* Every state is of its type, and the loop is at a client only if there   *)
(* is one.                                                                 *)
THEOREM ControlTypeCorrect == ControlSpec => []ControlTypeOK
<1>1. CInv => ControlTypeOK
  BY DEF CInv
<1> QED
  BY <1>1, ControlInvariant, PTL

(* What a client is told is so: a response means its request was handled,  *)
(* once, an error that it was not (serve, request), whatever daemons and   *)
(* other clients do, whether daemons start one at a time or not.           *)
THEOREM AnswersTrueHolds == ControlSpec => []AnswersTrue
<1>1. CInv => AnswersTrue
  BY DEF CInv
<1> QED
  BY <1>1, ControlInvariant, PTL
-----------------------------------------------------------------------------
(* Control implements RequestOnce.  Only the head of a queue is heard or   *)
(* told anything, and by the invariant it is owed that.                    *)

requestVars == <<request, handled, answer>>

Simulated == [R!Next]_requestVars

(* The head of the queue that a daemon is reading from or writing to. *)
LEMMA HeadOwed ==
  ASSUME CInv, NEW d \in Daemons, pc[d] = "serving", stage[d] \in {"read", "write"},
         Client(d) \in Clients
  PROVE  /\ answer[Client(d)] = "none"
         /\ handled[Client(d)] = IF stage[d] = "write" THEN 1 ELSE 0
<1>1. queue[d] # <<>>
  BY DEF CInv, ControlTypeOK
<1>2. Client(d) = queue[d][1] /\ 1 \in DOMAIN queue[d]
  BY <1>1, QueueFacts DEF Client, CInv
<1> QED BY <1>2 DEF CInv, QueuedUnanswered

(* The stream is dropped; a client that is still there has its answer. *)
LEMMA FinishTells ==
  ASSUME CInv, NEW d \in Daemons, NEW say, Finish(d, say), handled' = handled
  PROVE  /\ request' = request
         /\ \/ Client(d) \in Clients /\ conn[Client(d)] = "open"
               /\ answer' = [answer EXCEPT ![Client(d)] = say]
            \/ UNCHANGED requestVars
<1>1. /\ request' = request
      /\ answer' = [c \in Clients |->
                      IF c = Client(d) /\ conn[c] = "open" THEN say ELSE answer[c]]
  BY DEF Finish, clientVars
<1>2. answer \in [Clients -> {"none", "response", "unreadable", "closed"}]
  BY DEF CInv, ControlTypeOK
<1>3. CASE Client(d) \in Clients /\ conn[Client(d)] = "open"
  BY <1>1, <1>2, <1>3
<1>4. CASE ~(Client(d) \in Clients /\ conn[Client(d)] = "open")
  <2>1. answer' = answer
    BY <1>1, <1>2, <1>4
  <2> QED BY <1>1, <2>1 DEF requestVars
<1> QED BY <1>3, <1>4

LEMMA FinishSimulated ==
  ASSUME CInv, NEW d \in Daemons, ReadNothing(d) \/ ReadFails(d) \/ Answer(d)
  PROVE  Simulated
<1>1. CASE ReadNothing(d)
  <2>1. UNCHANGED requestVars
    BY <1>1, FinishTells DEF ReadNothing
  <2> QED BY <2>1 DEF Simulated
<1>2. CASE ReadFails(d)
  <2>1. Client(d) \in Clients /\ request[Client(d)] \in {"garbage", "none"}
    BY <1>2 DEF ReadFails
  <2>2. answer[Client(d)] = "none"
    BY <1>2, <2>1, HeadOwed DEF ReadFails, At
  <2>3. Finish(d, "unreadable") /\ handled' = handled
    BY <1>2 DEF ReadFails
  <2>4. CASE UNCHANGED requestVars
    BY <2>4 DEF Simulated
  <2>5. CASE answer' = [answer EXCEPT ![Client(d)] = "unreadable"]
    <3>1. R!Tell(Client(d))
      BY <2>1, <2>2, <2>3, <2>5, FinishTells DEF R!Tell, requestVars
    <3> QED BY <2>1, <3>1 DEF Simulated, R!Next
  <2> QED BY <2>3, <2>4, <2>5, FinishTells
<1>3. CASE Answer(d)
  <2>1. Client(d) \in Clients
    <3>1. pc[d] = "serving" /\ stage[d] = "write" /\ queue[d] # <<>>
      BY <1>3 DEF Answer, At, CInv, ControlTypeOK
    <3>2. Client(d) = queue[d][1]
      BY <3>1, QueueFacts DEF Client, CInv
    <3> QED BY <3>1, <3>2 DEF CInv, WritesToClient
  <2>2. answer[Client(d)] = "none" /\ handled[Client(d)] = 1
    BY <1>3, <2>1, HeadOwed DEF Answer, At
  <2>3. Finish(d, "response") /\ handled' = handled
    BY <1>3 DEF Answer
  <2>4. CASE UNCHANGED requestVars
    BY <2>4 DEF Simulated
  <2>5. CASE answer' = [answer EXCEPT ![Client(d)] = "response"]
    <3>1. R!Tell(Client(d))
      BY <2>1, <2>2, <2>3, <2>5, FinishTells DEF R!Tell, requestVars
    <3> QED BY <2>1, <3>1 DEF Simulated, R!Next
  <2> QED BY <2>3, <2>4, <2>5, FinishTells
<1> QED BY <1>1, <1>2, <1>3

(* handle() runs for a client that has asked for something it can do. *)
LEMMA HeardOnce ==
  ASSUME CInv, NEW d \in Daemons, Readable(d),
         handled' = [handled EXCEPT ![Client(d)] = @ + 1]
  PROVE  Client(d) \in Clients /\ R!Hears(Client(d))
<1>1. Client(d) \in Clients /\ request[Client(d)] \in {"kill", "other"}
  BY DEF Readable
<1>2. answer[Client(d)] = "none" /\ handled[Client(d)] = 0
  BY <1>1, HeadOwed DEF Readable, At
<1>3. handled' = [handled EXCEPT ![Client(d)] = 1]
  BY <1>2
<1> QED BY <1>1, <1>2, <1>3 DEF R!Hears, R!Owed

LEMMA EndSimulated ==
  ASSUME CInv, NEW d \in Daemons, Ends(d) \/ IsKilled(d)
  PROVE  Simulated
<1> DEFINE cut == {c \in Clients : Queued(c, d) /\ conn[c] = "open" /\ answer[c] = "none"}
<1>1. /\ request' = request
      /\ answer' = [c \in Clients |-> IF c \in cut THEN "closed" ELSE answer[c]]
  BY DEF Ends, IsKilled, Disconnects, clientVars
<1>2. handled' = handled \/ \E c \in Clients : R!Hears(c)
  BY HeardOnce DEF Ends, IsKilled
<1>3. R!CutOff(cut)
  BY <1>1, <1>2 DEF R!CutOff
<1>4. cut \in SUBSET Clients
  OBVIOUS
<1> QED BY <1>3, <1>4 DEF Simulated, R!Next

LEMMA StepSimulated ==
  ASSUME CInv, [ControlNext]_allVars
  PROVE  Simulated
<1> USE DEF talkVars, clientVars
<1>a. ASSUME UNCHANGED requestVars PROVE Simulated
  BY <1>a DEF Simulated
<1>1. ASSUME NEW c \in Clients, ClientConnect(c) \/ ClientGone(c)
      PROVE  Simulated
  BY <1>a, <1>1 DEF ClientConnect, ClientGone, requestVars
<1>2. ASSUME NEW c \in Clients, ClientSend(c)
      PROVE  Simulated
  <2>1. PICK r \in Requests : R!Ask(c, r)
    BY <1>2 DEF ClientSend, R!Ask
  <2> QED BY <2>1 DEF Simulated, R!Next
<1>3. ASSUME NEW d \in Daemons, Handle(d)
      PROVE  Simulated
  <2>1. R!Hear(Client(d)) /\ Client(d) \in Clients
    BY <1>3, HeardOnce DEF Handle, R!Hear
  <2> QED BY <2>1 DEF Simulated, R!Next
<1>4. ASSUME NEW d \in Daemons, ReadNothing(d) \/ ReadFails(d) \/ Answer(d)
      PROVE  Simulated
  BY <1>4, FinishSimulated
<1>5. ASSUME NEW d \in Daemons, Accept(d) \/ LeaveLoop(d) \/ RendererLeaves(d)
      PROVE  Simulated
  BY <1>a, <1>5 DEF Accept, LeaveLoop, RendererLeaves, requestVars
<1>6. ASSUME NEW d \in Daemons, Starts(d) \/ Looks(d) \/ Boots(d)
      PROVE  Simulated
  BY <1>a, <1>6 DEF Starts, Looks, Boots, controlVars, requestVars
<1>7. ASSUME NEW d \in Daemons, Ends(d) \/ IsKilled(d)
      PROVE  Simulated
  BY <1>7, EndSimulated
<1>8. CASE UNCHANGED allVars
  BY <1>a, <1>8 DEF allVars, controlVars, requestVars
<1> QED
  BY <1>1, <1>2, <1>3, <1>4, <1>5, <1>6, <1>7, <1>8 DEF ControlNext, Loop

(* Control implements RequestOnce, for any daemons, overlapping or not,    *)
(* and any clients: whichever daemon takes a request and however that one  *)
(* ends, it is carried out at most once, and never after its client has    *)
(* been told anything.                                                     *)
THEOREM ImplementsRequestOnceHolds == ControlSpec => ImplementsRequestOnce
<1>1. ControlInit => R!Init
  BY DEF ControlInit, R!Init
<1>2. CInv /\ [ControlNext]_allVars => [R!Next]_<<request, handled, answer>>
  BY StepSimulated DEF Simulated, requestVars
<1> QED
  BY <1>1, <1>2, ControlInvariant, PTL DEF ControlSpec, ImplementsRequestOnce, R!Spec

(* What a client has been told is final: no daemon says another thing to   *)
(* it, nor carries out its request after all.  RequestOnce promises it.    *)
THEOREM ToldIsFinal == ControlSpec => R!Final
<1> DEFINE Kept(c) == answer'[c] = answer[c] /\ handled'[c] = handled[c]
           StaysTold == \A c \in Clients : answer[c] # "none" => Kept(c)
<1>1. CInv /\ [R!Next]_<<request, handled, answer>>
        => [StaysTold]_<<request, handled, answer>>
  <2> SUFFICES ASSUME CInv, R!Next, NEW c \in Clients, answer[c] # "none"
               PROVE  Kept(c)
    OBVIOUS
  <2>1. /\ DOMAIN answer = Clients /\ DOMAIN handled = Clients
        /\ answer = [b \in Clients |-> answer[b]]
        /\ handled = [b \in Clients |-> handled[b]]
    BY DEF CInv, ControlTypeOK
  <2>2. ASSUME NEW b \in Clients, R!Hears(b)
        PROVE  handled'[c] = handled[c]
    BY <2>1, <2>2 DEF R!Hears, R!Owed
  <2>3. ASSUME NEW b \in Clients, R!Hear(b) \/ R!Tell(b) \/ \E r \in Requests : R!Ask(b, r)
        PROVE  Kept(c)
    BY <2>1, <2>2, <2>3 DEF R!Hear, R!Tell, R!Ask
  <2>4. ASSUME NEW cut \in SUBSET Clients, R!CutOff(cut)
        PROVE  Kept(c)
    BY <2>2, <2>4 DEF R!CutOff
  <2> QED BY <2>3, <2>4 DEF R!Next
<1> QED
  BY <1>1, ControlInvariant, ImplementsRequestOnceHolds, PTL
  DEF ImplementsRequestOnce, R!Spec, R!Final
=============================================================================
