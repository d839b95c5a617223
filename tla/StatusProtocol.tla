--------------------------- MODULE StatusProtocol ---------------------------
(***************************************************************************)
(* What those who read a ResourceGroup may rely on: the conditions say     *)
(* where the controller is, a reconcile ends only what has begun, and the  *)
(* generation it says to have observed is the one the object then has.     *)
(* GroupStatus implements this from outside of a reconcile, with stale     *)
(* copies, deletions and Root; EndReconciling from inside.                 *)
(***************************************************************************)
EXTENDS Naturals

VARIABLES
  generation,   \* metadata.generation
  observed,     \* status.observedGeneration
  conditions    \* which pair of conditions there is, or "none"

vars == <<generation, observed, conditions>>

Init == generation = 1 /\ observed = 0 /\ conditions = "none"

\* The spec changes, or the deletion begins.
Edit ==
  /\ generation' = generation + 1
  /\ UNCHANGED <<observed, conditions>>

\* A reconcile may find what another one has left when the program stopped.
Begin ==
  /\ conditions' = "Reconciling"
  /\ UNCHANGED <<generation, observed>>

End ==
  /\ conditions = "Reconciling"
  /\ conditions' \in {"Finished", "ComponentFailed"}
  /\ observed' = generation
  /\ UNCHANGED generation

TimeOut ==
  /\ conditions = "Reconciling"
  /\ conditions' = "ExceedTimeout"
  /\ UNCHANGED <<generation, observed>>

\* Root clears the status of a disabled group.
Clear ==
  /\ observed' = 0
  /\ conditions' = "none"
  /\ UNCHANGED generation

\* The object is gone; the next one of that name starts anew.
Remove == generation' = 1 /\ observed' = 0 /\ conditions' = "none"

Next == Edit \/ Begin \/ End \/ TimeOut \/ Clear \/ Remove

Spec == Init /\ [][Next]_vars

=============================================================================
