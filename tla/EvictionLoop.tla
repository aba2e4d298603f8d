----------------------------- MODULE EvictionLoop -----------------------------
(***************************************************************************)
(* One worker of the operator: PolicyReconciler.Reconcile, the budget loop *)
(* of Planner.Plan, the planner's memory and the eviction API it calls.    *)
(*                                                                         *)
(* A reconcile reads a policy, builds a plan (a set of distinct pods that  *)
(* are out of backoff), walks the plan once to mark each entry Allowed or  *)
(* "budget exhausted", then evicts the allowed entries one API call at a   *)
(* time and records each acknowledged eviction in memory.  The clock runs  *)
(* between any two of those steps, a call may fail in four ways, and the   *)
(* process may restart anywhere: the memory is a Go map and is lost.       *)
(*                                                                         *)
(* Abstracted: which pods greedyPlan picks and in which order it lists     *)
(* them (any set, any order), so nodes, utilization and the static         *)
(* filters do not appear; events, metrics and the status text.             *)
(* MaxConcurrentReconciles is 1: reconciles of all policies are serial.    *)
(***************************************************************************)
EXTENDS PlannerMemory

CONSTANTS
  Pods,                   \* namespaced names of the pods
  Namespaces,
  NamespaceOf,            \* the namespace part of a pod's name
  PolicySpecs,            \* the specs a reconcile may find, of any policy at any time
  HourlyLimits,           \* what a snapshot may find the WorkloadSLOs to say at any
                          \* time: MaxDisruptionsPerHour per namespace, 0 without an SLO
  MaxTime,                \* bound: last instant of the clock
  MaxEvictions,           \* bound: evictions the API server accepts in a behaviour
  MaxRestarts             \* bound: restarts of the operator

ASSUME NamesAssumption ==
  /\ IsFiniteSet(Pods)
  /\ NamespaceOf \in [Pods -> Namespaces]
ASSUME PolicyAssumption ==
  /\ PolicySpecs \subseteq PolicySpec
  /\ PolicySpecs # {}
ASSUME LimitsAssumption ==
  /\ HourlyLimits \subseteq [Namespaces -> Int]
  /\ HourlyLimits # {}
ASSUME BoundsAssumption == MaxTime \in Nat /\ MaxEvictions \in Nat /\ MaxRestarts \in Nat

VARIABLES
  now,               \* the clock
  restarts,          \* which incarnation of the process is running
  history,           \* Planner.history: pod -> time of its last recorded eviction
  nsHistory,         \* Planner.nsHistory: namespace -> stamps
  pc,                \* where the worker is
  spec,              \* the policy spec of the reconcile in progress
  slos,              \* the hourly limits its snapshot read
  planned,           \* plan entries the budget loop has not reached
  allowed,           \* plan entries marked Allowed and not yet tried
  clusterRemaining,  \* what is left of the policy's limit
  namespaceCounts,   \* entries allowed per namespace in this plan
  executed,          \* acknowledged evictions of this reconcile
  disrupted,         \* the pods the API server evicted for this reconcile
  evictions          \* what the API server did: every eviction it accepted

memory  == <<history, nsHistory>>
planning == <<planned, allowed, clusterRemaining, namespaceCounts, executed, disrupted>>
vars == <<now, restarts, memory, pc, spec, slos, planning, evictions>>

(***************************************************************************)
(* An accepted eviction.  acked: the operator saw the answer.  life: the   *)
(* incarnation that asked for it.  id tells two evictions apart.           *)
(***************************************************************************)
Eviction == [id : Nat, pod : Pods, at : Nat, acked : BOOLEAN, life : Nat]

NoCounts == [ns \in Namespaces |-> 0]

Idle ==
  /\ pc' = "idle"
  /\ planned' = {}
  /\ allowed' = {}
  /\ clusterRemaining' = 0
  /\ namespaceCounts' = NoCounts
  /\ executed' = 0
  /\ disrupted' = {}

Init ==
  /\ now = 0
  /\ restarts = 0
  /\ history = [p \in Pods |-> Never]
  /\ nsHistory = [ns \in Namespaces |-> {}]
  /\ pc = "idle"
  /\ spec \in PolicySpecs
  /\ slos \in HourlyLimits
  /\ planned = {}
  /\ allowed = {}
  /\ clusterRemaining = 0
  /\ namespaceCounts = NoCounts
  /\ executed = 0
  /\ disrupted = {}
  /\ evictions = {}

\* Plan's limit: a MaxEvictionsPerMinute of 0 becomes 1.
Limit(s) == IF s.MaxEvictionsPerMinute = 0 THEN 1 ELSE s.MaxEvictionsPerMinute

-------------------------------------------------------------------------------
(***************************************************************************)
(* Get, Snapshot and Plan up to greedyPlan.  Policy and SLOs are read      *)
(* anew, as anybody may have edited them.  The pods planned are distinct   *)
(* (visitedPods) and none was in backoff when the candidates were          *)
(* filtered.  A failed Get or Snapshot returns with nothing changed.       *)
(***************************************************************************)
Snapshot ==
  /\ pc = "idle"
  /\ spec' \in PolicySpecs
  /\ slos' \in HourlyLimits
  /\ planned' \in SUBSET {p \in Pods : ~HasBackoff(history[p], now, spec'.BackoffDuration)}
  /\ pc' = "budgeting"
  /\ clusterRemaining' = Limit(spec')
  /\ UNCHANGED <<now, restarts, memory, allowed, namespaceCounts, executed,
                 disrupted, evictions>>

\* canDisruptNamespace is called only while the cluster limit lasts.
MayDisrupt(ns) ==
  CanDisruptNamespace(nsHistory[ns], now, spec, slos[ns], namespaceCounts[ns])

BudgetEntry_NoClusterLimit(p) ==
  LET ns == NamespaceOf[p] IN
    /\ pc = "budgeting"
    /\ p \in planned
    /\ planned' = planned \ {p}
    /\ IF MayDisrupt(ns)
       THEN /\ allowed' = allowed \cup {p}
            /\ namespaceCounts' = [namespaceCounts EXCEPT ![ns] = @ + 1]
            /\ clusterRemaining' = clusterRemaining - 1
       ELSE UNCHANGED <<allowed, namespaceCounts, clusterRemaining>>
    /\ UNCHANGED <<now, restarts, memory, pc, spec, slos, executed, disrupted, evictions>>

\* One iteration of Plan's loop over the plan entries.
BudgetEntry(p) ==
  LET ns == NamespaceOf[p] IN
    /\ pc = "budgeting"
    /\ p \in planned
    /\ planned' = planned \ {p}
    /\ IF clusterRemaining > 0 /\ MayDisrupt(ns)
       THEN /\ allowed' = allowed \cup {p}
            /\ namespaceCounts' = [namespaceCounts EXCEPT ![ns] = @ + 1]
            /\ clusterRemaining' = clusterRemaining - 1
       ELSE UNCHANGED <<allowed, namespaceCounts, clusterRemaining>>
    /\ nsHistory' =
         IF clusterRemaining > 0
         THEN [nsHistory EXCEPT ![ns] =
                 StampsAfterCheck(@, now, spec, slos[ns], namespaceCounts[ns])]
         ELSE nsHistory
    /\ UNCHANGED <<now, restarts, history, pc, spec, slos, executed, disrupted, evictions>>

(***************************************************************************)
(* Plan's second loop reads the remaining budget of every namespace it     *)
(* counted, which drops expired stamps; then Reconcile branches: a dry run *)
(* reports the plan and returns.                                           *)
(***************************************************************************)
FinishPlan ==
  /\ pc = "budgeting"
  /\ planned = {}
  /\ nsHistory' =
       [ns \in Namespaces |->
          IF namespaceCounts[ns] > 0
          THEN StampsAfterRemaining(nsHistory[ns], now, slos[ns])
          ELSE nsHistory[ns]]
  /\ IF spec.DryRun
     THEN Idle
     ELSE /\ pc' = "executing"
          /\ UNCHANGED planning
  /\ UNCHANGED <<now, restarts, history, spec, slos, evictions>>

-------------------------------------------------------------------------------
NewEviction(p, acked) ==
  [id |-> Cardinality(evictions), pod |-> p, at |-> now, acked |-> acked, life |-> restarts]

\* The API server evicts p (external).
Accept(p, acked) ==
  /\ Cardinality(evictions) < MaxEvictions
  /\ evictions' = evictions \cup {NewEviction(p, acked)}
  /\ disrupted' = disrupted \cup {p}

RecordEviction_NoPodEntry(p) ==
  /\ UNCHANGED history
  /\ nsHistory' = [nsHistory EXCEPT ![NamespaceOf[p]] =
       StampsAfterRecord(@, now, NewEviction(p, TRUE))]

RecordEviction_NoStamp(p) ==
  /\ history' = [history EXCEPT ![p] = now]
  /\ nsHistory' = [nsHistory EXCEPT ![NamespaceOf[p]] = Recent(@, now)]

\* Planner.RecordEviction: the pod's backoff starts, its namespace gains a
\* stamp (the record of the eviction itself).
RecordEviction(p) ==
  /\ history' = [history EXCEPT ![p] = now]
  /\ nsHistory' = [nsHistory EXCEPT ![NamespaceOf[p]] =
       StampsAfterRecord(@, now, NewEviction(p, TRUE))]

Trying(p) ==
  /\ pc = "executing"
  /\ p \in allowed

EvictOK(p) ==
  /\ Trying(p)
  /\ Accept(p, TRUE)
  /\ RecordEviction(p)
  /\ allowed' = allowed \ {p}
  /\ executed' = executed + 1
  /\ UNCHANGED <<now, restarts, pc, spec, slos, planned, clusterRemaining, namespaceCounts>>

\* The server evicts the pod and the answer is lost (timeout, connection
\* reset): for the loop it is any other error, and nothing is recorded.
EvictReplyLost(p) ==
  /\ Trying(p)
  /\ Accept(p, FALSE)
  /\ allowed' = allowed \ {p}
  /\ UNCHANGED <<now, restarts, memory, pc, spec, slos, planned, clusterRemaining,
                 namespaceCounts, executed>>

\* Any error but 429, the pod not being there any more included: go on.
EvictFailed(p) ==
  /\ Trying(p)
  /\ allowed' = allowed \ {p}
  /\ UNCHANGED <<now, restarts, memory, pc, spec, slos, planned, clusterRemaining,
                 namespaceCounts, executed, disrupted, evictions>>

\* 429: the rest of the plan is given up and the status is not written.
EvictTooManyRequests(p) ==
  /\ Trying(p)
  /\ Idle
  /\ UNCHANGED <<now, restarts, memory, spec, slos, evictions>>

\* updateStatus; whether the patch succeeds or not the reconcile is over.
UpdateStatus ==
  /\ pc = "executing"
  /\ allowed = {}
  /\ Idle
  /\ UNCHANGED <<now, restarts, memory, spec, slos, evictions>>

-------------------------------------------------------------------------------
Tick ==
  /\ now < MaxTime
  /\ now' = now + 1
  /\ UNCHANGED <<restarts, memory, pc, spec, slos, planning, evictions>>

\* Crash, upgrade or lost leadership: planner.New starts with empty maps.
Restart ==
  /\ restarts < MaxRestarts
  /\ restarts' = restarts + 1
  /\ history' = [p \in Pods |-> Never]
  /\ nsHistory' = [ns \in Namespaces |-> {}]
  /\ Idle
  /\ UNCHANGED <<now, spec, slos, evictions>>

Evict(p) ==
  \/ EvictOK(p)
  \/ EvictReplyLost(p)
  \/ EvictFailed(p)
  \/ EvictTooManyRequests(p)

Next ==
  \/ Snapshot
  \/ \E p \in Pods : BudgetEntry(p)
  \/ FinishPlan
  \/ \E p \in Pods : Evict(p)
  \/ UpdateStatus
  \/ Tick
  \/ Restart

Spec == Init /\ [][Next]_vars
-------------------------------------------------------------------------------
(***************************************************************************)
(* Properties                                                              *)
(***************************************************************************)
\* Types of the variables.
TypeOK ==
  /\ now \in Nat
  /\ restarts \in Nat
  /\ history \in [Pods -> Nat \cup {Never}]
  /\ nsHistory \in [Namespaces -> SUBSET Eviction]
  /\ pc \in {"idle", "budgeting", "executing"}
  /\ spec \in PolicySpecs
  /\ slos \in HourlyLimits
  /\ planned \in SUBSET Pods
  /\ allowed \in SUBSET Pods
  /\ clusterRemaining \in Nat
  /\ namespaceCounts \in [Namespaces -> Nat]
  /\ executed \in Nat
  /\ disrupted \in SUBSET Pods
  /\ evictions \in SUBSET Eviction

InNamespace(S, ns) == {p \in S : NamespaceOf[p] = ns}

(***************************************************************************)
(* However a reconcile ends, the pods the server evicted for it and those  *)
(* still to be tried stay within the policy's two limits, lost answers and *)
(* failures included (Plan's budget loop and Reconcile's eviction loop).   *)
(***************************************************************************)
PlanWithinLimits ==
  pc # "idle" =>
    /\ Cardinality(disrupted \cup allowed) <= Limit(spec)
    /\ spec.MaxEvictionsPerNamespace > 0 =>
         \A ns \in Namespaces :
           Cardinality(InNamespace(disrupted \cup allowed, ns)) <= spec.MaxEvictionsPerNamespace

\* What the running process knows it did: acknowledged, in this incarnation.
Acknowledged == {e \in evictions : e.acked /\ e.life = restarts}

AcknowledgedIn(ns) == {e \in Acknowledged : NamespaceOf[e.pod] = ns}

\* The most one plan may evict in one namespace.
NamespaceCap(s) ==
  IF s.MaxEvictionsPerNamespace > 0 /\ s.MaxEvictionsPerNamespace < Limit(s)
  THEN s.MaxEvictionsPerNamespace
  ELSE Limit(s)

(***************************************************************************)
(* The hourly guardrail canDisruptNamespace really gives.  The check of an *)
(* entry does not count the entries the same plan already allowed, so when *)
(* a plan has evicted in a namespace its hour holds at most                *)
(* MaxDisruptionsPerHour - 1 pods and that plan's worth, by the limit its  *)
(* snapshot read.  It is the documented limit exactly when one plan takes  *)
(* one pod of a namespace.  A limit lowered later does not undo evictions. *)
(***************************************************************************)
HourlyBudget ==
  \A ns \in Namespaces :
    slos[ns] > 0 /\ InNamespace(disrupted, ns) # {} =>
      Cardinality(Recent(AcknowledgedIn(ns), now)) <= slos[ns] - 1 + NamespaceCap(spec)

(***************************************************************************)
(* What docs/README.md:85 expects of maxDisruptionsPerHour: no plan leaves *)
(* more disruptions of a namespace in the hour than the limit it read.     *)
(* The code does not give it: canDisruptNamespace compares the limit with  *)
(* past evictions only, so one plan may allow several pods where the hour  *)
(* has room for one.                                                       *)
(***************************************************************************)
HourlyLimitAsDocumented ==
  \A ns \in Namespaces :
    slos[ns] > 0 /\ InNamespace(disrupted, ns) # {} =>
      Cardinality(Recent(AcknowledgedIn(ns), now)) <= slos[ns]

(***************************************************************************)
(* A pod name is not evicted again within the backoff of the policy that   *)
(* evicts it, although the check reads a snapshot taken before the budget  *)
(* loop and before every other eviction of the plan (filterCandidates,     *)
(* RecordEviction).                                                        *)
(***************************************************************************)
BackoffRespected ==
  [][\A e \in evictions' \ evictions, d \in Acknowledged :
       e.pod = d.pod => e.at - d.at >= spec.BackoffDuration]_vars

(***************************************************************************)
(* The memory never forgets an eviction it may still need: whatever the    *)
(* checks drop, every acknowledged eviction of the last hour is a stamp of *)
(* its namespace, and a pod's entry is as recent as its last eviction      *)
(* (canDisruptNamespace, remainingNamespaceBudget, RecordEviction).        *)
(***************************************************************************)
MemoryCoversEvictions ==
  /\ \A ns \in Namespaces : Recent(AcknowledgedIn(ns), now) \subseteq nsHistory[ns]
  /\ \A e \in Acknowledged : e.at <= history[e.pod]

-------------------------------------------------------------------------------
(***************************************************************************)
(* The loop implements the abstract guard: acknowledged evictions of the   *)
(* running process enter the guard's log under the policy and the limits   *)
(* its reconcile read, a snapshot adopts new ones, a restart empties the   *)
(* log, and every other step leaves it alone.                              *)
(***************************************************************************)
Guard == INSTANCE DisruptionGuard WITH
  log         <- Acknowledged,
  rule        <- <<spec, slos>>,
  Rules       <- PolicySpecs \X HourlyLimits,
  Allowance   <- [r \in PolicySpecs \X HourlyLimits |-> NamespaceCap(r[1])],
  Spacing     <- [r \in PolicySpecs \X HourlyLimits |-> r[1].BackoffDuration],
  HourlyLimit <- [r \in PolicySpecs \X HourlyLimits |-> r[2]]

ImplementsGuard == Guard!Spec

-------------------------------------------------------------------------------
(***************************************************************************)
(* The inductive invariant behind them.                                    *)
(***************************************************************************)
LogOK ==
  /\ IsFiniteSet(evictions)
  /\ \A e \in evictions : e.at <= now /\ e.life <= restarts
  /\ \A ns \in Namespaces : IsFiniteSet(nsHistory[ns])
  /\ \A p \in Pods : history[p] <= now

\* Where the entries of the plan are at each stage.
PlanShape ==
  /\ (planned \cup allowed) \cap disrupted = {}
  /\ planned \cap allowed = {}
  /\ pc = "idle" => planned \cup allowed \cup disrupted = {} /\ namespaceCounts = NoCounts
  /\ pc = "budgeting" => disrupted = {}

\* The counters account for every pod allowed, tried or not.
LimitsAccounted ==
  pc # "idle" =>
    /\ Cardinality(disrupted \cup allowed) + clusterRemaining <= Limit(spec)
    /\ \A ns \in Namespaces :
         /\ Cardinality(InNamespace(disrupted \cup allowed, ns)) <= namespaceCounts[ns]
         /\ namespaceCounts[ns] + clusterRemaining <= Limit(spec)
         /\ spec.MaxEvictionsPerNamespace > 0 =>
              namespaceCounts[ns] <= spec.MaxEvictionsPerNamespace

\* When an entry was allowed the hour had room for one more; what the plan
\* allowed since is in namespaceCounts.
HourAccounted ==
  \A ns \in Namespaces :
    slos[ns] > 0 /\ namespaceCounts[ns] > 0 =>
      Cardinality(Recent(AcknowledgedIn(ns), now)) + Cardinality(InNamespace(allowed, ns))
        <= slos[ns] - 1 + namespaceCounts[ns]

\* A planned pod stays out of backoff until its own eviction.
PlanOutOfBackoff ==
  \A p \in planned \cup allowed : ~HasBackoff(history[p], now, spec.BackoffDuration)

IInv ==
  /\ TypeOK
  /\ LogOK
  /\ PlanShape
  /\ LimitsAccounted
  /\ HourAccounted
  /\ PlanOutOfBackoff
  /\ MemoryCoversEvictions
=============================================================================
