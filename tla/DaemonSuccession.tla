-------------------------- MODULE DaemonSuccession --------------------------
(***************************************************************************)
(* Daemon implements Succession.  A number the daemon has given out and    *)
(* that is neither `current' nor `pending' is past.  The daemon hears a    *)
(* renderer through its reader thread.                                     *)
(***************************************************************************)
EXTENDS Daemon

Past == {c \in ChildId : c < next_id} \ {current, pending}

S == INSTANCE Succession WITH
  Renderer <- ChildId,
  Nobody   <- None,
  owner    <- current,
  heir     <- pending,
  past     <- Past,
  shown    <- drawn,
  heard    <- reading,
  stopping <- exit

(* The daemon is an implementation of Succession: whatever stale Ready and *)
(* Gone the renderers of earlier handovers left in the channel, only the   *)
(* heir succeeds and only with its frame on screen, there is one heir at a *)
(* time, the owner is given up only when its reader has ended, and no      *)
(* renderer comes back.                                                    *)
ImplementsSuccession == S!Spec
=============================================================================
