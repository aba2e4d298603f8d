----------------------------- MODULE PolicyStatus -----------------------------
(***************************************************************************)
(* The status of one RebalancePolicy, as reconciles write it.              *)
(*                                                                         *)
(* Reconcile works on the copy of the policy that the informer's cache had *)
(* when it began.  updateStatus fills the status of that copy and sends    *)
(* the server a merge patch: the fields that differ from the copy as it    *)
(* was read, and no others (MergeFrom), without a check that the server    *)
(* still has what was read.  Meanwhile users edit the spec, the cache      *)
(* falls behind, calls fail or lose their answers, the process restarts.   *)
(*                                                                         *)
(* Abstracted: of the status the generation, the two counts, the dry run   *)
(* flag and the time (in seconds, counted in a circle longer than the      *)
(* cache can lag).  What a plan would do (load) is the cluster's choice.   *)
(* When a policy is reconciled is ReconcileQueue's subject: here it may be *)
(* at any moment.                                                          *)
(***************************************************************************)
EXTENDS Integers, Sequences, FiniteSets

CONSTANTS
  Loads,        \* what a plan may amount to: [planned, executed]
  Cycle,        \* seconds of the circle
  MaxLag,       \* bound: versions the cache is behind
  MaxEdits,     \* bound: edits of the spec
  MaxChanges,   \* bound: changes of the load
  MaxRestarts   \* bound: restarts of the operator

ASSUME StatusAssumption ==
  /\ Loads # {}
  /\ Loads \subseteq [planned : Nat, executed : Nat]
  /\ {Cycle, MaxLag} \subseteq Nat \ {0}
  /\ {MaxEdits, MaxChanges, MaxRestarts} \subseteq Nat

PlanStatus ==
  [observedGeneration : Nat, planned : Nat, executed : Nat, dryRun : BOOLEAN, time : Nat]

Policy == [generation : Nat, dryRun : BOOLEAN, status : PlanStatus]

VARIABLES
  server,      \* the policy as the API server holds it
  cache,       \* as the informer's cache holds it
  lag,         \* the versions in between, oldest first
  pc,          \* "idle" or "reconciling"
  copy,        \* the policy Reconcile works on
  plan,        \* what the plan in progress amounts to
  load,        \* what a plan would amount to now
  second,      \* the clock
  reconciled,  \* observer: the generations some reconcile worked on
  edits, changes, restarts

vars == <<server, cache, lag, pc, copy, plan, load, second, reconciled,
          edits, changes, restarts>>

NoStatus ==
  [observedGeneration |-> 0, planned |-> 0, executed |-> 0, dryRun |-> FALSE, time |-> Cycle]

Init ==
  /\ \E flag \in BOOLEAN :
       server = [generation |-> 1, dryRun |-> flag, status |-> NoStatus]
  /\ cache = server
  /\ lag = <<>>
  /\ pc = "idle"
  /\ copy = server
  /\ load \in Loads
  /\ plan = load
  /\ second = 0
  /\ reconciled = {}
  /\ edits = 0
  /\ changes = 0
  /\ restarts = 0

-------------------------------------------------------------------------------
(***************************************************************************)
(* The API server, the watch and the cluster (external).                   *)
(***************************************************************************)
\* A write that changes nothing makes no version.
Store(version) ==
  /\ server' = version
  /\ IF version = server
     THEN UNCHANGED lag
     ELSE Len(lag) < MaxLag /\ lag' = Append(lag, version)

EditSpec ==
  /\ edits < MaxEdits
  /\ edits' = edits + 1
  /\ \E flag \in BOOLEAN :
       Store([generation |-> server.generation + 1, dryRun |-> flag, status |-> server.status])
  /\ UNCHANGED <<cache, pc, copy, plan, load, second, reconciled, changes, restarts>>

Deliver ==
  /\ lag # <<>>
  /\ cache' = Head(lag)
  /\ lag' = Tail(lag)
  /\ UNCHANGED <<server, pc, copy, plan, load, second, reconciled, edits, changes, restarts>>

ChangeLoad ==
  /\ changes < MaxChanges
  /\ changes' = changes + 1
  /\ load' \in Loads
  /\ UNCHANGED <<server, cache, lag, pc, copy, plan, second, reconciled, edits, restarts>>

Tick ==
  /\ second' = (second + 1) % Cycle
  /\ UNCHANGED <<server, cache, lag, pc, copy, plan, load, reconciled, edits, changes, restarts>>

-------------------------------------------------------------------------------
(***************************************************************************)
(* Reconcile.                                                              *)
(***************************************************************************)
\* Get reads the cache; Snapshot and Plan follow.
Begin ==
  /\ pc = "idle"
  /\ pc' = "reconciling"
  /\ copy' = cache
  /\ plan' = load
  /\ reconciled' = reconciled \cup {cache.generation}
  /\ UNCHANGED <<server, cache, lag, load, second, edits, changes, restarts>>

FilledStatus_FreshGeneration ==
  [observedGeneration |-> server.generation,
   planned |-> plan.planned,
   executed |-> IF copy.dryRun THEN 0 ELSE plan.executed,
   dryRun |-> copy.dryRun,
   time |-> second]

FilledStatus_DryRunResets ==
  [observedGeneration |-> IF copy.dryRun THEN 0 ELSE copy.generation,
   planned |-> plan.planned,
   executed |-> IF copy.dryRun THEN 0 ELSE plan.executed,
   dryRun |-> copy.dryRun,
   time |-> second]

FilledStatus_CountsFailures ==
  [observedGeneration |-> copy.generation,
   planned |-> plan.planned,
   executed |-> IF copy.dryRun THEN 0 ELSE plan.executed - plan.planned,
   dryRun |-> copy.dryRun,
   time |-> second]

\* updateStatus's fields.  A dry run passes 0 for the executed ones.
FilledStatus ==
  [observedGeneration |-> copy.generation,
   planned |-> plan.planned,
   executed |-> IF copy.dryRun THEN 0 ELSE plan.executed,
   dryRun |-> copy.dryRun,
   time |-> second]

MergePatch_OfItself(status) == status

\* The patch from the copy as read to the filled copy, applied to a status.
\* A field that falls back to zero is dropped from the JSON, and patched away.
MergePatch(status) ==
  [f \in DOMAIN status |->
     IF FilledStatus[f] # copy.status[f] THEN FilledStatus[f] ELSE status[f]]

Finish ==
  /\ pc = "reconciling"
  /\ pc' = "idle"
  /\ UNCHANGED <<cache, copy, plan, load, second, reconciled, edits, changes, restarts>>

\* The server applies the patch; to Reconcile a lost answer is an error, which
\* changes when it runs again and nothing else.
UpdateStatus ==
  /\ Finish
  /\ Store([server EXCEPT !.status = MergePatch(@)])

\* The snapshot or the patch fails, or the eviction API answers 429: no
\* status is written.
NoPatch ==
  /\ Finish
  /\ UNCHANGED <<server, lag>>

\* A new process lists the policy.
Restart ==
  /\ restarts < MaxRestarts
  /\ restarts' = restarts + 1
  /\ cache' = server
  /\ lag' = <<>>
  /\ pc' = "idle"
  /\ UNCHANGED <<server, copy, plan, load, second, reconciled, edits, changes>>

Next ==
  \/ EditSpec
  \/ Deliver
  \/ ChangeLoad
  \/ Tick
  \/ Begin
  \/ UpdateStatus
  \/ NoPatch
  \/ Restart

(***************************************************************************)
(* Reconciles are begun again and again (ReconcileQueue), time passes and  *)
(* the watch delivers; and the API server does not refuse every patch for  *)
(* ever.                                                                   *)
(***************************************************************************)
Fairness ==
  /\ WF_vars(Deliver)
  /\ WF_vars(Tick)
  /\ WF_vars(Begin)
  /\ SF_vars(UpdateStatus)

Spec == Init /\ [][Next]_vars
FairSpec == Spec /\ Fairness
-------------------------------------------------------------------------------
(***************************************************************************)
(* Properties                                                              *)
(***************************************************************************)
\* Types of the variables.
TypeOK ==
  /\ server \in Policy
  /\ cache \in Policy
  /\ lag \in Seq(Policy)
  /\ pc \in {"idle", "reconciling"}
  /\ copy \in Policy
  /\ plan \in Loads
  /\ load \in Loads
  /\ second \in 0..(Cycle - 1)
  /\ reconciled \in SUBSET Nat
  /\ edits \in 0..MaxEdits /\ changes \in 0..MaxChanges /\ restarts \in 0..MaxRestarts

(***************************************************************************)
(* ObservedGeneration is honest: a generation it names was worked on by a  *)
(* reconcile, however stale the copy was and whatever was edited between   *)
(* Get and the patch (updateStatus).                                       *)
(***************************************************************************)
ObservedWasReconciled ==
  server.status.observedGeneration \in reconciled \cup {0}

(***************************************************************************)
(* ObservedGeneration never goes back, although the patch carries the      *)
(* generation of the copy and nothing compares it with the server's.       *)
(***************************************************************************)
ObservedAdvances ==
  [][server'.status.observedGeneration >= server.status.observedGeneration]_vars

(***************************************************************************)
(* The status heals: when nobody edits the policy any more and the plans   *)
(* stay the same, it comes to show the plan under the spec in force, and   *)
(* then keeps showing it, whatever stale copies were patched before.       *)
(* Until then it may mix two plans (a dry run with executed evictions): a  *)
(* merge patch over an old copy leaves out what did not change since.      *)
(***************************************************************************)
ShowsPlan ==
  /\ server.status.observedGeneration = server.generation
  /\ server.status.dryRun = server.dryRun
  /\ server.status.planned = load.planned
  /\ server.status.executed = IF server.dryRun THEN 0 ELSE load.executed

StatusHeals == <>[]ShowsPlan
=============================================================================
