---------------------------- MODULE SocketProofs ----------------------------
(***************************************************************************)
(* What SocketBind satisfies for any set of daemons.  ServerReachable and  *)
(* RefusedOnlyIfServed are proved of the behaviours in which daemons start *)
(* and end OneAtATime, whatever Overlap allows: the invariant says what    *)
(* the socket and the listeners are at each step of the one that does.     *)
(***************************************************************************)
EXTENDS SocketBind, TLAPS

(* Every state is of its type: the steps of run() and of a kill.           *)
THEOREM TypeCorrect == Spec => []TypeOK
<1>1. Init => TypeOK
  BY DEF Init, TypeOK
<1>2. TypeOK /\ [Next]_vars => TypeOK'
  <2> SUFFICES ASSUME TypeOK, [Next]_vars
               PROVE  TypeOK'
    OBVIOUS
  <2> USE DEF TypeOK, Goes, Starting, Over
  <2>1. ASSUME NEW d \in Daemons, Start(d) PROVE TypeOK'
    BY <2>1 DEF Start
  <2>2. ASSUME NEW d \in Daemons, TryBind(d) PROVE TypeOK'
    BY <2>2 DEF TryBind, Bind
  <2>3. ASSUME NEW d \in Daemons, Connect(d) PROVE TypeOK'
    BY <2>3 DEF Connect
  <2>4. ASSUME NEW d \in Daemons, Remove(d) PROVE TypeOK'
    BY <2>4 DEF Remove
  <2>5. ASSUME NEW d \in Daemons, Rebind(d) PROVE TypeOK'
    BY <2>5 DEF Rebind, Bind
  <2>a. ASSUME NEW d \in Daemons, Listen(d) PROVE TypeOK'
    BY <2>a DEF Listen
  <2>6. ASSUME NEW d \in Daemons, Close(d) PROVE TypeOK'
    BY <2>6 DEF Close
  <2>7. ASSUME NEW d \in Daemons, Unlink(d) PROVE TypeOK'
    BY <2>7 DEF Unlink
  <2>8. ASSUME NEW d \in Daemons, Kill(d) PROVE TypeOK'
    BY <2>8 DEF Kill
  <2>9. CASE UNCHANGED vars
    BY <2>9 DEF vars
  <2> QED
    BY <2>1, <2>2, <2>3, <2>4, <2>5, <2>6, <2>7, <2>8, <2>9, <2>a DEF Next
<1> QED
  BY <1>1, <1>2, PTL DEF Spec

ServingListens == \A d \in Daemons : d \in listening <=> pc[d] = "serving"

ListenerAtPath == \A d \in Daemons : d \in listening => path = d

(* What each step has found out, or has just done, is still so. *)
StepKnows ==
  \A d \in Daemons :
    /\ pc[d] \in {"connect", "remove"} => path # Nothing
    /\ pc[d] = "remove" => path \notin listening
    /\ pc[d] = "rebind" => path = Nothing
    /\ pc[d] \in {"listen", "closed"} => path = d

IInv == TypeOK /\ ServingListens /\ ListenerAtPath /\ StepKnows

(* When nothing listens at the path, nothing listens: a daemon may bind.   *)
LEMMA NoListener ==
  ASSUME ListenerAtPath, path \notin listening, listening \subseteq Daemons
  PROVE  listening = {}
BY DEF ListenerAtPath

(* Each call of bind, of the guard and each kill preserves the invariant.  *)
LEMMA StepInductive ==
  ASSUME OneAtATime, OneAtATime', IInv, [Next]_vars
  PROVE  (ServingListens /\ ListenerAtPath /\ StepKnows)'
<1> USE SocketAssumption
           DEF IInv, TypeOK, OneAtATime, Busy, ServingListens, ListenerAtPath, StepKnows,
               Goes, Starting
<1>1. ASSUME NEW d \in Daemons, Start(d)
      PROVE  (ServingListens /\ ListenerAtPath /\ StepKnows)'
  BY <1>1 DEF Start
<1>2. ASSUME NEW d \in Daemons, TryBind(d)
      PROVE  (ServingListens /\ ListenerAtPath /\ StepKnows)'
  BY <1>2, NoListener DEF TryBind, Bind
<1>3. ASSUME NEW d \in Daemons, Connect(d)
      PROVE  (ServingListens /\ ListenerAtPath /\ StepKnows)'
  BY <1>3 DEF Connect, Answers
<1>4. ASSUME NEW d \in Daemons, Remove(d)
      PROVE  (ServingListens /\ ListenerAtPath /\ StepKnows)'
  BY <1>4, NoListener DEF Remove
<1>5. ASSUME NEW d \in Daemons, Rebind(d)
      PROVE  (ServingListens /\ ListenerAtPath /\ StepKnows)'
  BY <1>5, NoListener DEF Rebind, Bind
<1>6. ASSUME NEW d \in Daemons, Close(d)
      PROVE  (ServingListens /\ ListenerAtPath /\ StepKnows)'
  BY <1>6 DEF Close
<1>7. ASSUME NEW d \in Daemons, Unlink(d)
      PROVE  (ServingListens /\ ListenerAtPath /\ StepKnows)'
  BY <1>7 DEF Unlink
<1>8. ASSUME NEW d \in Daemons, Kill(d)
      PROVE  (ServingListens /\ ListenerAtPath /\ StepKnows)'
  BY <1>8 DEF Kill
<1>9. ASSUME NEW d \in Daemons, Listen(d)
      PROVE  (ServingListens /\ ListenerAtPath /\ StepKnows)'
  BY <1>9 DEF Listen
<1>10. CASE UNCHANGED vars
  BY <1>10 DEF vars
<1> QED
  BY <1>1, <1>2, <1>3, <1>4, <1>5, <1>6, <1>7, <1>8, <1>9, <1>10 DEF Next

(* Without Overlap, Start and Close wait until nobody else is Busy.        *)
THEOREM OneAtATimeHolds ==
  ASSUME Overlap = FALSE
  PROVE  Spec => []OneAtATime
<1> USE DEF Busy, Starting, TypeOK, OneAtATime
<1>1. Init => OneAtATime
  BY DEF Init
<1>2. TypeOK /\ OneAtATime /\ [Next]_vars => OneAtATime'
  <2> SUFFICES ASSUME TypeOK, OneAtATime, [Next]_vars
               PROVE  OneAtATime'
    OBVIOUS
  <2>1. ASSUME NEW d \in Daemons, Start(d) \/ Close(d)
        PROVE  OneAtATime'
    BY <2>1 DEF Start, Close, Alone, Goes
  <2>2. ASSUME NEW d \in Daemons, NEW to, pc' = [pc EXCEPT ![d] = to],
               to \in Starting \cup {"closed"} => Busy(d)
        PROVE  OneAtATime'
    BY <2>2
  <2>3. ASSUME NEW d \in Daemons,
               TryBind(d) \/ Connect(d) \/ Remove(d) \/ Rebind(d) \/ Listen(d)
                 \/ Unlink(d) \/ Kill(d)
        PROVE  OneAtATime'
    BY <2>2, <2>3 DEF TryBind, Bind, Connect, Remove, Rebind, Listen, Unlink, Kill, Goes
  <2>4. CASE UNCHANGED vars
    BY <2>4 DEF vars
  <2> QED
    BY <2>1, <2>3, <2>4 DEF Next
<1> QED
  BY <1>1, <1>2, TypeCorrect, PTL DEF Spec

(* The invariant holds of daemons that start and end one at a time.        *)
THEOREM Invariant == Spec /\ []OneAtATime => []IInv
<1>1. Init => IInv
  BY DEF Init, IInv, TypeOK, ServingListens, ListenerAtPath, StepKnows
<1>2. TypeOK' /\ OneAtATime /\ OneAtATime' /\ IInv /\ [Next]_vars => IInv'
  BY StepInductive DEF IInv
<1> QED
  BY <1>1, <1>2, TypeCorrect, PTL DEF Spec

(* Whatever is killed and whenever: as long as daemons start and end one   *)
(* at a time, the one that serves owns the socket at the path (bind,       *)
(* SocketGuard).                                                           *)
THEOREM ServerReachableHolds == Spec /\ []OneAtATime => []ServerReachable
<1>1. IInv => ServerReachable
  BY DEF IInv, ServingListens, ListenerAtPath, ServerReachable
<1> QED
  BY <1>1, Invariant, PTL

(* As long as daemons start and end one at a time, a stale socket, left by *)
(* one that was killed at any of its steps, keeps no other from starting   *)
(* (bind).                                                                 *)
THEOREM RefusedOnlyIfServedHolds == Spec /\ []OneAtATime => RefusedOnlyIfServed
<1> DEFINE Refusal(d) ==
      pc[d] # "refused" /\ pc'[d] = "refused" => \E e \in Daemons : pc[e] = "serving"
<1>1. IInv /\ [Next]_vars => \A d \in Daemons : Refusal(d)
  <2> SUFFICES ASSUME IInv, [Next]_vars, NEW r \in Daemons,
                      pc[r] # "refused", pc'[r] = "refused"
               PROVE  \E e \in Daemons : pc[e] = "serving"
    OBVIOUS
  <2> USE SocketAssumption DEF IInv, TypeOK, StepKnows, Goes
  <2>1. PICK d \in Daemons :
          Start(d) \/ TryBind(d) \/ Connect(d) \/ Remove(d) \/ Rebind(d)
            \/ Listen(d) \/ Close(d) \/ Unlink(d) \/ Kill(d)
    BY DEF Next, vars
  <2>2. CASE Connect(d)
    <3>1. path \in listening
      BY <2>2 DEF Connect, Answers
    <3> QED
      BY <3>1 DEF ServingListens
  <2>3. ~Start(d)
    BY DEF Start
  <2>4. ~TryBind(d)
    BY DEF TryBind, Bind
  <2>5. ~Remove(d)
    BY DEF Remove
  <2>6. ~Rebind(d)
    BY DEF Rebind, Bind
  <2>7. ~Listen(d) /\ ~Close(d) /\ ~Unlink(d) /\ ~Kill(d)
    BY DEF Listen, Close, Unlink, Kill
  <2> QED
    BY <2>1, <2>2, <2>3, <2>4, <2>5, <2>6, <2>7
<1>2. IInv /\ [Next]_vars => [\A d \in Daemons : Refusal(d)]_vars
  BY <1>1
<1> QED
  BY <1>2, Invariant, PTL DEF Spec, RefusedOnlyIfServed
=============================================================================
