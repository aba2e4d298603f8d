--------------------------- MODULE EvictionProgress ---------------------------
(***************************************************************************)
(* Does the loop get anywhere?  Reconciles of one policy, one after the    *)
(* other, over pods that should leave their hot nodes: each plans the pods *)
(* the filter lets through, best first, and tries them in that order until *)
(* the eviction API answers 429, which ends the plan and leaves no trace:  *)
(* the next plan starts from the same order.                               *)
(*                                                                         *)
(* Meanwhile disruption budgets are spent by others and recover, calls     *)
(* fail, and pods are deleted and recreated under their names with a new   *)
(* UID.  CandidateFilter has the other guards, EvictionLoop the limits and *)
(* the backoff, ReconcileQueue the delay between reconciles.               *)
(*                                                                         *)
(* Abstracted: a plan's order is that of the scores, which stay the same   *)
(* while nothing moves (Rank); an evicted pod is gone for good (its        *)
(* replacement starts on a node that is not hot).                          *)
(***************************************************************************)
EXTENDS Integers, Sequences, FiniteSets, SequencesExt

CONSTANTS
  Pods,           \* names of the pods to move
  Rank,           \* per pod: its place in the order of scores
  Budgets,        \* PodDisruptionBudgets
  Covers,         \* per budget: the pods it selects
  Stuck,          \* budgets that allow nothing, ever
  RespectPDB,     \* of the policy
  Limit,          \* MaxEvictionsPerMinute
  MaxDrains,      \* bound: disruptions by others
  MaxRecreations  \* bound: pods recreated under their name

ASSUME ProgressAssumption ==
  /\ IsFiniteSet(Pods)
  /\ Rank \in [Pods -> Nat] /\ \A p, q \in Pods : Rank[p] = Rank[q] => p = q
  /\ Covers \in [Budgets -> SUBSET Pods] /\ Stuck \subseteq Budgets
  /\ RespectPDB \in BOOLEAN /\ Limit \in Nat \ {0}
  /\ MaxDrains \in Nat /\ MaxRecreations \in Nat

VARIABLES
  here,       \* the pods on their hot nodes
  uid,        \* per name: which incarnation of the pod
  allowance,  \* per budget: DisruptionsAllowed
  pc,         \* "idle" or "executing"
  plan,       \* the entries not yet tried, in order: [pod, uid]
  removed,    \* observer: the last pod evicted, and the entry it was evicted for
  drains, recreations

vars == <<here, uid, allowance, pc, plan, removed, drains, recreations>>
world == <<here, uid, allowance, drains, recreations>>

BudgetsOf(p) == {b \in Budgets : p \in Covers[b]}

Init ==
  /\ here = Pods
  /\ uid = [p \in Pods |-> 0]
  /\ allowance \in [Budgets -> {0, 1}]
  /\ \A b \in Stuck : allowance[b] = 0
  /\ pc = "idle"
  /\ plan = <<>>
  /\ removed = <<>>
  /\ drains = 0
  /\ recreations = 0

-------------------------------------------------------------------------------
FilterCandidates_IgnoresPDB == here

\* filterCandidates: with RespectPDB, pods whose budgets allow a disruption.
FilterCandidates ==
  {p \in here : RespectPDB => \A b \in BudgetsOf(p) : allowance[b] > 0}

\* The plan by score, cut at the limit.
Plan ==
  /\ pc = "idle"
  /\ LET sorted == SetToSortSeq(FilterCandidates, LAMBDA p, q : Rank[p] < Rank[q])
         allowed == SubSeq(sorted, 1, IF Len(sorted) < Limit THEN Len(sorted) ELSE Limit)
     IN plan' = [i \in DOMAIN allowed |-> [pod |-> allowed[i], uid |-> uid[allowed[i]]]]
  /\ pc' = "executing"
  /\ UNCHANGED <<world, removed>>

Trying(p) ==
  /\ pc = "executing"
  /\ plan # <<>>
  /\ Head(plan).pod = p

Refused(p) == \E b \in BudgetsOf(p) : allowance[b] = 0

\* The API server evicts the pod that has the name now.
EvictOK(p) ==
  /\ Trying(p)
  /\ ~Refused(p)
  /\ here' = here \ {p}
  /\ allowance' = [b \in Budgets |-> IF p \in Covers[b] THEN allowance[b] - 1 ELSE allowance[b]]
  /\ removed' = [entry |-> Head(plan), uid |-> uid[p]]
  /\ plan' = Tail(plan)
  /\ UNCHANGED <<uid, pc, drains, recreations>>

\* 429, from a spent budget or for a reason of the server's own.
EvictTooManyRequests(p) ==
  /\ Trying(p)
  /\ plan' = <<>>
  /\ pc' = "idle"
  /\ UNCHANGED <<world, removed>>

\* Any other error: the loop goes on.
EvictFailed(p) ==
  /\ Trying(p)
  /\ plan' = Tail(plan)
  /\ UNCHANGED <<world, pc, removed>>

UpdateStatus ==
  /\ pc = "executing"
  /\ plan = <<>>
  /\ pc' = "idle"
  /\ UNCHANGED <<world, plan, removed>>

-------------------------------------------------------------------------------
(***************************************************************************)
(* The cluster (external).                                                 *)
(***************************************************************************)
Recover(b) ==
  /\ b \notin Stuck /\ allowance[b] = 0
  /\ allowance' = [allowance EXCEPT ![b] = 1]
  /\ UNCHANGED <<here, uid, pc, plan, removed, drains, recreations>>

Drain(b) ==
  /\ drains < MaxDrains
  /\ drains' = drains + 1
  /\ allowance[b] > 0
  /\ allowance' = [allowance EXCEPT ![b] = @ - 1]
  /\ UNCHANGED <<here, uid, pc, plan, removed, recreations>>

Recreate(p) ==
  /\ recreations < MaxRecreations
  /\ recreations' = recreations + 1
  /\ p \in here
  /\ uid' = [uid EXCEPT ![p] = @ + 1]
  /\ UNCHANGED <<here, allowance, pc, plan, removed, drains>>

Next ==
  \/ Plan
  \/ \E p \in Pods : EvictOK(p) \/ EvictTooManyRequests(p) \/ EvictFailed(p)
  \/ UpdateStatus
  \/ \E b \in Budgets : Recover(b) \/ Drain(b)
  \/ \E p \in Pods : Recreate(p)

(***************************************************************************)
(* The worker goes on (ReconcileQueue shows that every policy is           *)
(* reconciled again and again), budgets that can recover do, and the       *)
(* eviction API does not answer for ever with 429 or an error on a pod     *)
(* whose budgets let it go.                                                *)
(***************************************************************************)
Worker ==
  \/ Plan
  \/ \E p \in Pods : EvictOK(p) \/ EvictTooManyRequests(p) \/ EvictFailed(p)
  \/ UpdateStatus

Fairness ==
  /\ WF_vars(Worker)
  /\ \A p \in Pods : SF_vars(EvictOK(p))
  /\ \A b \in Budgets : WF_vars(Recover(b))

Spec == Init /\ [][Next]_vars
FairSpec == Spec /\ Fairness
-------------------------------------------------------------------------------
(***************************************************************************)
(* Properties                                                              *)
(***************************************************************************)
(***************************************************************************)
(* Nobody waits behind a pod that cannot move: with RespectPDB every pod   *)
(* that no stuck budget holds leaves its hot node in the end, although     *)
(* pods of stuck and of contended budgets rank before it and each 429 ends *)
(* the plan (filterCandidates' pdbAllows, Reconcile's return on 429).      *)
(* Without RespectPDB the code does not give it: the stuck pod heads every *)
(* plan.                                                                   *)
(***************************************************************************)
FreePodsLeave ==
  \A p \in Pods : BudgetsOf(p) \cap Stuck = {} => <>(p \notin here)

(***************************************************************************)
(* What controllers/executors/eviction.go:24 says: the eviction is of the  *)
(* plan entry, the pod the guards were judged on.  The code does not give  *)
(* it: the call names the pod and carries no UID as a precondition, so a   *)
(* pod recreated under the name since the snapshot is evicted unjudged.    *)
(***************************************************************************)
EvictsThePlannedPod == removed # <<>> => removed.uid = removed.entry.uid
=============================================================================
