----------------------------- MODULE RequestOnce -----------------------------
(***************************************************************************)
(* What the control socket promises to a client, without daemons, queues   *)
(* and timeouts: a request is carried out at most once, the client is told *)
(* at most one thing, what it is told of the request is true, and a client *)
(* that has been told something is never heard afterwards.  Being cut off  *)
(* ("closed") tells it nothing.                                            *)
(***************************************************************************)
EXTENDS Naturals

CONSTANTS
  Caller,
  Request,   \* what a client can send
  Sound      \* and what of it can be carried out

VARIABLES
  asked,     \* the request of each client
  heard,     \* how often it was carried out
  told       \* what the client knows

Init ==
  /\ asked = [c \in Caller |-> "none"]
  /\ heard = [c \in Caller |-> 0]
  /\ told = [c \in Caller |-> "none"]

Ask(c, r) ==
  /\ asked[c] = "none" /\ told[c] = "none"
  /\ asked' = [asked EXCEPT ![c] = r]
  /\ UNCHANGED <<heard, told>>

Owed(c) == asked[c] \in Sound /\ heard[c] = 0 /\ told[c] = "none"

Hears(c) == Owed(c) /\ heard' = [heard EXCEPT ![c] = 1]

Hear(c) == Hears(c) /\ UNCHANGED <<asked, told>>

Tell(c) ==
  /\ told[c] = "none"
  /\ \/ heard[c] = 1 /\ told' = [told EXCEPT ![c] = "response"]
     \/ asked[c] \notin Sound /\ told' = [told EXCEPT ![c] = "unreadable"]
  /\ UNCHANGED <<asked, heard>>

(* Whoever was to answer the clients in `cut' is gone, and may have heard  *)
(* one more.                                                               *)
CutOff(cut) ==
  /\ \A c \in cut : told[c] = "none"
  /\ told' = [c \in Caller |-> IF c \in cut THEN "closed" ELSE told[c]]
  /\ UNCHANGED heard \/ \E c \in Caller : Hears(c)
  /\ UNCHANGED asked

Next ==
  \/ \E c \in Caller : Hear(c) \/ Tell(c) \/ \E r \in Request : Ask(c, r)
  \/ \E cut \in SUBSET Caller : CutOff(cut)

Spec == Init /\ [][Next]_<<asked, heard, told>>

(* What a client has been told stays, and nothing is done for it later.    *)
Final ==
  [][\A c \in Caller :
       told[c] # "none" => told'[c] = told[c] /\ heard'[c] = heard[c]]_<<asked, heard, told>>
=============================================================================
