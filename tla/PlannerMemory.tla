---------------------------- MODULE PlannerMemory ----------------------------
(***************************************************************************)
(* What controllers/planner/planner.go computes from the Planner's memory: *)
(* `history` (when a pod was last evicted) and `nsHistory` (when the       *)
(* evictions of a namespace happened).  Operators only: EvictionLoop keeps *)
(* the two maps as variables.                                              *)
(*                                                                         *)
(* A namespace's []time.Time is a set of stamps, records with a field `at` *)
(* (and an identity, so that two evictions at one instant count twice):    *)
(* the code filters and counts the slice and never reads its order.  Time  *)
(* is an integer number of clock ticks.                                    *)
(***************************************************************************)
EXTENDS Integers, FiniteSets

CONSTANT Hour   \* the sliding window of one hour, in clock ticks

ASSUME HourAssumption == Hour \in Nat \ {0}

\* A key that `history` does not hold.
Never == -1

(***************************************************************************)
(* The fields of RebalancePolicySpec the eviction loop reads.              *)
(* MaxEvictionsPerNamespace = 0 is "no limit".                             *)
(***************************************************************************)
PolicySpec ==
  [MaxEvictionsPerMinute    : Nat,
   MaxEvictionsPerNamespace : Nat,
   BackoffDuration          : Nat,
   DryRun                   : BOOLEAN]

HasBackoff_Ignored(last, t, duration) == FALSE

\* Was the pod evicted less than `duration` ago?  Exactly `duration` ago is
\* no longer a backoff.
HasBackoff(last, t, duration) ==
  /\ last # Never
  /\ t - last < duration

\* The stamps of the last hour: strictly after the cutoff `now - 1h`.
Recent(stamps, t) == {s \in stamps : s.at > t - Hour}

(***************************************************************************)
(* canDisruptNamespace.  maxPerHour is WorkloadSLO's MaxDisruptionsPerHour *)
(* as the snapshot of this reconcile read it, and 0 when the namespace has *)
(* no SLO: both mean "no hourly limit".  The two early returns leave       *)
(* nsHistory alone, the other path stores the filtered slice back.         *)
(***************************************************************************)
PlanLimitReached(spec, planned) ==
  /\ spec.MaxEvictionsPerNamespace > 0
  /\ planned >= spec.MaxEvictionsPerNamespace

CanDisruptNamespace_OffByOne(stamps, t, spec, maxPerHour, planned) ==
  /\ ~PlanLimitReached(spec, planned)
  /\ maxPerHour # 0 => Cardinality(Recent(stamps, t)) <= maxPerHour

CanDisruptNamespace_NoPlanLimit(stamps, t, spec, maxPerHour, planned) ==
  maxPerHour # 0 => Cardinality(Recent(stamps, t)) < maxPerHour

CanDisruptNamespace(stamps, t, spec, maxPerHour, planned) ==
  /\ ~PlanLimitReached(spec, planned)
  /\ maxPerHour # 0 => Cardinality(Recent(stamps, t)) < maxPerHour

StampsAfterCheck(stamps, t, spec, maxPerHour, planned) ==
  IF PlanLimitReached(spec, planned) \/ maxPerHour = 0
  THEN stamps
  ELSE Recent(stamps, t)

\* remainingNamespaceBudget stores the filtered slice back whenever the
\* namespace has a positive hourly limit.
StampsAfterRemaining(stamps, t, maxPerHour) ==
  IF maxPerHour > 0 THEN Recent(stamps, t) ELSE stamps

\* RecordEviction: drop the expired stamps, append the new one.
StampsAfterRecord(stamps, t, stamp) == Recent(stamps, t) \cup {stamp}
=============================================================================
