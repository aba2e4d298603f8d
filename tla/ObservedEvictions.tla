--------------------------- MODULE ObservedEvictions ---------------------------
(***************************************************************************)
(* The eviction loop with what it shows of itself: the eviction counter    *)
(* and the budget gauge of pkg/observability, set from Plan.Budgets and    *)
(* entry by entry of the plan.                                             *)
(*                                                                         *)
(* Every action is EvictionLoop's with the calls of Recorder it makes.     *)
(* Prometheus keeps the values in the process: a restart starts them over. *)
(* Abstracted: the label `reason`, the gauges of node utilization and      *)
(* variance (NodeTemperature has the former).  Left out: the counter of    *)
(* dry runs, which counts every entry of one, allowed or refused.          *)
(***************************************************************************)
EXTENDS EvictionLoop

VARIABLES
  evictionsTotal,   \* rebalancer_evictions_total, per namespace
  budgetRemaining,  \* rebalancer_budget_remaining, per namespace
  gaugeLimit        \* observer, per namespace: the hourly limit its gauge was set under

metrics == <<evictionsTotal, budgetRemaining, gaugeLimit>>
observedVars == <<vars, metrics>>

\* A namespace without a budget gauge.
Unset == -2

NewRecorder ==
  /\ evictionsTotal' = [ns \in Namespaces |-> 0]
  /\ budgetRemaining' = [ns \in Namespaces |-> Unset]
  /\ gaugeLimit' = NoCounts

ObservedInit ==
  /\ Init
  /\ evictionsTotal = [ns \in Namespaces |-> 0]
  /\ budgetRemaining = [ns \in Namespaces |-> Unset]
  /\ gaugeLimit = NoCounts

-------------------------------------------------------------------------------
Positive(n) == IF n > 0 THEN n ELSE 0

\* What remains of the hour in a namespace that has an hourly limit.
HourRemaining(ns) ==
  Positive(slos[ns] - Cardinality(Recent(nsHistory[ns], now)))

\* remainingNamespaceBudget: the smaller of the two limits, -1 without any.
RemainingNamespaceBudget(ns) ==
  LET perPlan == spec.MaxEvictionsPerNamespace IN
    IF slos[ns] <= 0
    THEN IF perPlan > 0 THEN perPlan ELSE -1
    ELSE IF perPlan > 0 /\ perPlan <= HourRemaining(ns) THEN perPlan ELSE HourRemaining(ns)

PlanBudget_BeforeThePlan(ns) == RemainingNamespaceBudget(ns)

\* Plan.Budgets[ns], of a namespace with an allowed entry.
PlanBudget(ns) ==
  LET remaining == RemainingNamespaceBudget(ns) IN
    IF remaining < 0 THEN -1 ELSE Positive(remaining - namespaceCounts[ns])

\* RecordBudget for every namespace of Plan.Budgets: one that the plan
\* allowed nothing in is not among them.
RecordBudgets ==
  /\ budgetRemaining' =
       [ns \in Namespaces |->
          IF namespaceCounts[ns] > 0 THEN PlanBudget(ns) ELSE budgetRemaining[ns]]
  /\ gaugeLimit' =
       [ns \in Namespaces |-> IF namespaceCounts[ns] > 0 THEN slos[ns] ELSE gaugeLimit[ns]]

ObservedSnapshot ==
  /\ Snapshot
  /\ UNCHANGED metrics

ObservedBudgetEntry(p) ==
  /\ BudgetEntry(p)
  /\ UNCHANGED metrics

ObservedFinishPlan ==
  /\ FinishPlan
  /\ RecordBudgets
  /\ UNCHANGED evictionsTotal

CountEviction_Attempts(p) ==
  evictionsTotal' =
    IF Trying(p) THEN [evictionsTotal EXCEPT ![NamespaceOf[p]] = @ + 1] ELSE evictionsTotal

\* RecordEviction(ev, true), after an acknowledged eviction only.
CountEviction(p) ==
  evictionsTotal' =
    IF executed' > executed
    THEN [evictionsTotal EXCEPT ![NamespaceOf[p]] = @ + 1]
    ELSE evictionsTotal

ObservedEvict(p) ==
  /\ Evict(p)
  /\ CountEviction(p)
  /\ UNCHANGED <<budgetRemaining, gaugeLimit>>

ObservedUpdateStatus ==
  /\ UpdateStatus
  /\ UNCHANGED metrics

ObservedTick ==
  /\ Tick
  /\ UNCHANGED metrics

ObservedRestart ==
  /\ Restart
  /\ NewRecorder

ObservedNext ==
  \/ ObservedSnapshot
  \/ \E p \in Pods : ObservedBudgetEntry(p)
  \/ ObservedFinishPlan
  \/ \E p \in Pods : ObservedEvict(p)
  \/ ObservedUpdateStatus
  \/ ObservedTick
  \/ ObservedRestart

ObservedSpec == ObservedInit /\ [][ObservedNext]_observedVars
-------------------------------------------------------------------------------
(***************************************************************************)
(* Properties                                                              *)
(***************************************************************************)
(***************************************************************************)
(* rebalancer_evictions_total (docs/README.md:52, "Successful evictions    *)
(* executed by the operator") counts exactly what the running process got  *)
(* acknowledged: neither refused and failed calls nor evictions whose      *)
(* answer was lost, across plans that end early (Reconcile's loop).        *)
(***************************************************************************)
EvictionsCounted ==
  \A ns \in Namespaces : evictionsTotal[ns] = Cardinality(AcknowledgedIn(ns))

(***************************************************************************)
(* The budget gauge never promises more than the hour has left of the      *)
(* limit it was set under, however the plan that set it went on, whatever  *)
(* later plans evicted under whatever limits and whatever time passed:     *)
(* Plan subtracts what it allowed before any of it is evicted, and every   *)
(* plan that may evict in the namespace sets the gauge anew.  Of a limit   *)
(* lowered since, the code promises nothing: the gauge keeps what the old  *)
(* one left until a plan allows something in the namespace.                *)
(***************************************************************************)
GaugeIsSafe ==
  \A ns \in Namespaces :
    gaugeLimit[ns] > 0 /\ budgetRemaining[ns] # Unset =>
      budgetRemaining[ns] <=
        Positive(gaugeLimit[ns] - Cardinality(Recent(AcknowledgedIn(ns), now)))
=============================================================================
