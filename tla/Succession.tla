----------------------------- MODULE Succession -----------------------------
(***************************************************************************)
(* What the daemon promises about the surface of the desktop, without its  *)
(* timers, messages and handlers: at any time one renderer owns it and at  *)
(* most one heir is on its way.  `shown', `heard' and `stopping' are the   *)
(* environment's: which renderers have a frame on screen, which the owner  *)
(* of this promise still hears, and whether it has been asked to stop.     *)
(***************************************************************************)
CONSTANTS
  Renderer,   \* every renderer there may ever be
  Nobody

VARIABLES
  owner,      \* the renderer that owns the surface
  heir,       \* the renderer that is to replace it
  past,       \* renderers that are neither and never will be again
  shown, heard, stopping

Fresh == Renderer \ (past \cup {owner, heir})

Init ==
  /\ owner = Nobody
  /\ heir = Nobody
  /\ past = {}

(* Renderer c takes the surface at once, its owner having been lost or     *)
(* never there.  The code does so even if there is an owner again: what it *)
(* replaces is past.                                                       *)
Appear(c) ==
  /\ c \in Fresh
  /\ owner' = c
  /\ past' = past \cup ({owner} \ {Nobody})
  /\ UNCHANGED heir

Summon(c) ==
  /\ heir = Nobody
  /\ c \in Fresh
  /\ heir' = c
  /\ UNCHANGED <<owner, past>>

(* A renderer that could not be started. *)
Waste(c) ==
  /\ c \in Fresh
  /\ past' = past \cup {c}
  /\ UNCHANGED <<owner, heir>>

(* The heir takes over, and only with a frame on screen. *)
Succeed ==
  /\ heir # Nobody
  /\ heir \in shown
  /\ owner' = heir
  /\ heir' = Nobody
  /\ past' = past \cup ({owner} \ {Nobody})

GiveUpHeir ==
  /\ heir # Nobody
  /\ heir' = Nobody
  /\ past' = past \cup {heir}
  /\ UNCHANGED owner

(* The surface is given up only once its owner is not heard any more, or   *)
(* at the end.                                                             *)
LoseOwner ==
  /\ owner # Nobody
  /\ owner \notin heard \/ stopping
  /\ owner' = Nobody
  /\ past' = past \cup {owner}
  /\ UNCHANGED heir

Next ==
  \/ \E c \in Renderer : Appear(c) \/ Summon(c) \/ Waste(c)
  \/ Succeed \/ GiveUpHeir \/ LoseOwner

(* The environment moves at any step, also with one of these. *)
Spec == Init /\ [][Next]_<<owner, heir, past>>

(* A renderer that was given up, or succeeded, never has a part again.     *)
NeverBack ==
  [][past \subseteq past' /\ {owner', heir'} \cap past = {}]_<<owner, heir, past>>
=============================================================================
