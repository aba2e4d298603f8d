-------------------------- MODULE MCReconcileQueue --------------------------
(* One clock tick is fifteen seconds. *)
EXTENDS ReconcileQueue

CONSTANTS live, dry
=============================================================================
