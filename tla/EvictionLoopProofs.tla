-------------------------- MODULE EvictionLoopProofs --------------------------
(***************************************************************************)
(* Proofs about EvictionLoop, and about ObservedEvictions at the end, for  *)
(* every set of pods, of policies and of hourly limits, edited at any      *)
(* time, and every bound.                                                  *)
(*                                                                         *)
(* IInv is proved inductive in three layers: the types and the log         *)
(* (StateOK), the plan and its counters (PlanOK), the memory and the hour  *)
(* (MemoryOK), each step of a layer using the layers below it.             *)
(***************************************************************************)
EXTENDS ObservedEvictions, FiniteSetTheorems, TLAPS

(***************************************************************************)
(* Facts about the operators of the model.                                 *)
(***************************************************************************)
\* The limits computed from a policy are natural numbers (Planner.Plan).
LEMMA SpecTypes ==
  ASSUME NEW s \in PolicySpecs
  PROVE  /\ s.MaxEvictionsPerMinute \in Nat
         /\ s.MaxEvictionsPerNamespace \in Nat
         /\ s.BackoffDuration \in Nat
         /\ s.DryRun \in BOOLEAN
         /\ Limit(s) \in Nat
         /\ NamespaceCap(s) \in Nat
  BY PolicyAssumption DEF PolicySpec, Limit, NamespaceCap

\* The limits a snapshot read are integers (Snapshot).
LEMMA LimitTypes ==
  ASSUME slos \in HourlyLimits, NEW ns \in Namespaces
  PROVE  slos[ns] \in Int
  BY LimitsAssumption

\* A slice filtered by the cutoff is no larger (canDisruptNamespace).
LEMMA RecentSubset ==
  ASSUME NEW stamps, NEW t
  PROVE  /\ Recent(stamps, t) \subseteq stamps
         /\ IsFiniteSet(stamps) => IsFiniteSet(Recent(stamps, t))
  <1>1. Recent(stamps, t) \subseteq stamps
    BY DEF Recent
  <1> QED
    BY <1>1, FS_Subset

\* What a check stores back is part of what was there.
LEMMA ChecksOnlyDrop ==
  ASSUME NEW stamps, NEW t, NEW s, NEW maxPerHour, NEW n
  PROVE  /\ StampsAfterCheck(stamps, t, s, maxPerHour, n) \subseteq stamps
         /\ StampsAfterRemaining(stamps, t, maxPerHour) \subseteq stamps
         /\ Recent(stamps, t) \subseteq StampsAfterCheck(stamps, t, s, maxPerHour, n)
         /\ Recent(stamps, t) \subseteq StampsAfterRemaining(stamps, t, maxPerHour)
  BY RecentSubset DEF StampsAfterCheck, StampsAfterRemaining

-------------------------------------------------------------------------------
(***************************************************************************)
(* First layer: the types, and a finite log that never runs ahead of the   *)
(* clock.                                                                  *)
(***************************************************************************)
StateOK == TypeOK /\ LogOK

LEMMA InitStateOK == Init => StateOK
  <1> SUFFICES ASSUME Init PROVE StateOK
    OBVIOUS
  <1>1. spec \in PolicySpecs /\ slos \in HourlyLimits /\ IsFiniteSet({})
    BY FS_EmptySet DEF Init
  <1>2. TypeOK
    BY <1>1 DEF Init, TypeOK, NoCounts, Never
  <1>3. LogOK
    BY <1>1 DEF Init, LogOK, Never
  <1> QED
    BY <1>2, <1>3 DEF StateOK

\* A reconcile that ends leaves well-typed variables.
LEMMA IdleTypes ==
  ASSUME Idle
  PROVE  /\ pc' = "idle"
         /\ planned' \in SUBSET Pods
         /\ allowed' \in SUBSET Pods
         /\ clusterRemaining' \in Nat
         /\ namespaceCounts' \in [Namespaces -> Nat]
         /\ executed' \in Nat
         /\ disrupted' \in SUBSET Pods
  BY DEF Idle, NoCounts

\* An eviction the server accepts enters a finite log, well-typed.
LEMMA AcceptTypes ==
  ASSUME StateOK, NEW p \in Pods, NEW acked \in BOOLEAN, Accept(p, acked)
  PROVE  /\ NewEviction(p, acked) \in Eviction
         /\ evictions' \in SUBSET Eviction
         /\ IsFiniteSet(evictions')
         /\ disrupted' \in SUBSET Pods
         /\ \A e \in evictions' : e.at <= now /\ e.life <= restarts
  <1> DEFINE e0 == NewEviction(p, acked)
  <1>1. Cardinality(evictions) \in Nat
    BY FS_CardinalityType DEF StateOK, LogOK
  <1>2. e0 \in Eviction
    BY <1>1 DEF StateOK, TypeOK, NewEviction, Eviction
  <1>3. IsFiniteSet(evictions')
    BY FS_AddElement DEF StateOK, LogOK, Accept
  <1>4. e0.at = now /\ e0.life = restarts
    BY DEF NewEviction
  <1>5. \A e \in evictions' : e.at <= now /\ e.life <= restarts
    BY <1>4 DEF StateOK, TypeOK, LogOK, Accept
  <1> QED
    BY <1>2, <1>3, <1>5 DEF StateOK, TypeOK, Accept

LEMMA NextStateOK == StateOK /\ [Next]_vars => StateOK'
  <1> SUFFICES ASSUME StateOK, [Next]_vars PROVE TypeOK' /\ LogOK'
    BY DEF StateOK
  <1> USE DEF StateOK, TypeOK, LogOK, memory, planning
  <1>1. CASE Snapshot
    <2>1. Limit(spec') \in Nat
      BY <1>1, SpecTypes DEF Snapshot
    <2> QED
      BY <1>1, <2>1 DEF Snapshot
  <1>2. ASSUME NEW p \in Pods, BudgetEntry(p) PROVE TypeOK' /\ LogOK'
    <2> DEFINE ns == NamespaceOf[p]
               kept == StampsAfterCheck(nsHistory[ns], now, spec,
                                        slos[ns], namespaceCounts[ns])
    <2>1. ns \in Namespaces
      BY NamesAssumption
    <2>2. kept \subseteq nsHistory[ns] /\ IsFiniteSet(kept)
      BY <2>1, ChecksOnlyDrop, FS_Subset
    <2> HIDE DEF kept
    <2>3. nsHistory' = IF clusterRemaining > 0 THEN [nsHistory EXCEPT ![ns] = kept] ELSE nsHistory
      BY <1>2 DEF BudgetEntry, kept
    <2>4. /\ nsHistory' \in [Namespaces -> SUBSET Eviction]
          /\ \A n \in Namespaces : IsFiniteSet(nsHistory'[n])
      BY <2>1, <2>2, <2>3
    <2>5. /\ allowed' \in SUBSET Pods
          /\ namespaceCounts' \in [Namespaces -> Nat]
          /\ clusterRemaining' \in Nat
      BY <1>2, <2>1 DEF BudgetEntry
    <2> QED
      BY <1>2, <2>4, <2>5 DEF BudgetEntry
  <1>3. CASE FinishPlan
    <2> DEFINE kept(ns) == IF namespaceCounts[ns] > 0
                           THEN StampsAfterRemaining(nsHistory[ns], now, slos[ns])
                           ELSE nsHistory[ns]
    <2>1. ASSUME NEW ns \in Namespaces
          PROVE  kept(ns) \subseteq nsHistory[ns] /\ IsFiniteSet(kept(ns))
      <3>1. kept(ns) \subseteq nsHistory[ns]
        BY ChecksOnlyDrop
      <3> QED
        BY <3>1, FS_Subset
    <2>2. nsHistory' = [ns \in Namespaces |-> kept(ns)]
      BY <1>3 DEF FinishPlan
    <2>3. /\ nsHistory' \in [Namespaces -> SUBSET Eviction]
          /\ \A ns \in Namespaces : IsFiniteSet(nsHistory'[ns])
      <3> HIDE DEF kept
      <3> QED
        BY <2>1, <2>2
    <2> QED
      BY <1>3, <2>3, IdleTypes DEF FinishPlan
  <1>4. ASSUME NEW p \in Pods, EvictOK(p) PROVE TypeOK' /\ LogOK'
    <2> DEFINE ns == NamespaceOf[p]
               e0 == NewEviction(p, TRUE)
               kept == StampsAfterRecord(nsHistory[ns], now, e0)
    <2>1. ns \in Namespaces
      BY NamesAssumption
    <2>2. Accept(p, TRUE) /\ e0 \in Eviction
      BY <1>4, AcceptTypes DEF EvictOK
    <2>3. kept \subseteq nsHistory[ns] \cup {e0} /\ IsFiniteSet(kept)
      BY <2>1, RecentSubset, FS_AddElement DEF StampsAfterRecord
    <2>4. nsHistory' = [nsHistory EXCEPT ![ns] = kept]
      BY <1>4 DEF EvictOK, RecordEviction
    <2>5. /\ nsHistory' \in [Namespaces -> SUBSET Eviction]
          /\ \A n \in Namespaces : IsFiniteSet(nsHistory'[n])
      <3> HIDE DEF kept, e0
      <3> QED
        BY <2>1, <2>2, <2>3, <2>4
    <2>6. /\ history' \in [Pods -> Nat \cup {Never}]
          /\ \A q \in Pods : history'[q] <= now'
      BY <1>4 DEF EvictOK, RecordEviction
    <2>7. /\ evictions' \in SUBSET Eviction
          /\ IsFiniteSet(evictions')
          /\ disrupted' \in SUBSET Pods
          /\ \A e \in evictions' : e.at <= now /\ e.life <= restarts
      BY <2>2, AcceptTypes
    <2> QED
      BY <1>4, <2>5, <2>6, <2>7 DEF EvictOK
  <1>5. ASSUME NEW p \in Pods, EvictReplyLost(p) PROVE TypeOK' /\ LogOK'
    <2>1. /\ evictions' \in SUBSET Eviction
          /\ IsFiniteSet(evictions')
          /\ disrupted' \in SUBSET Pods
          /\ \A e \in evictions' : e.at <= now /\ e.life <= restarts
      BY <1>5, AcceptTypes DEF EvictReplyLost
    <2> QED
      BY <1>5, <2>1 DEF EvictReplyLost
  <1>6. ASSUME NEW p \in Pods, EvictFailed(p) PROVE TypeOK' /\ LogOK'
    BY <1>6 DEF EvictFailed
  <1>7. ASSUME NEW p \in Pods, EvictTooManyRequests(p) PROVE TypeOK' /\ LogOK'
    BY <1>7, IdleTypes DEF EvictTooManyRequests
  <1>8. CASE UpdateStatus
    BY <1>8, IdleTypes DEF UpdateStatus
  <1>9. CASE Tick
    <2>1. now' \in Nat /\ now <= now'
      BY <1>9 DEF Tick
    <2>2. /\ \A e \in evictions' : e.at <= now' /\ e.life <= restarts'
          /\ \A p \in Pods : history'[p] <= now'
      BY <1>9, <2>1 DEF Tick, Eviction, Never
    <2> QED
      BY <1>9, <2>1, <2>2 DEF Tick
  <1>10. CASE Restart
    <2>1. /\ history' \in [Pods -> Nat \cup {Never}]
          /\ nsHistory' \in [Namespaces -> SUBSET Eviction]
          /\ \A ns \in Namespaces : IsFiniteSet(nsHistory'[ns])
          /\ \A p \in Pods : history'[p] <= now
      BY <1>10, FS_EmptySet DEF Restart, Never
    <2>2. /\ restarts' \in Nat
          /\ \A e \in evictions' : e.at <= now /\ e.life <= restarts'
      BY <1>10 DEF Restart, Eviction
    <2> QED
      BY <1>10, <2>1, <2>2, IdleTypes DEF Restart
  <1>11. CASE UNCHANGED vars
    BY <1>11 DEF vars
  <1> QED
    BY <1>1, <1>2, <1>3, <1>4, <1>5, <1>6, <1>7, <1>8, <1>9, <1>10, <1>11 DEF Next, Evict

\* The layer as an invariant of the specification.
LEMMA AlwaysStateOK == Spec => []StateOK
  BY InitStateOK, NextStateOK, PTL DEF Spec

(***************************************************************************)
(* Every variable keeps its type; in particular clusterRemaining, which    *)
(* Plan decrements without a check of its own, never goes below zero.      *)
(***************************************************************************)
THEOREM TypeCorrect == Spec => []TypeOK
  <1>1. StateOK => TypeOK
    BY DEF StateOK
  <1> QED
    BY <1>1, AlwaysStateOK, PTL
-------------------------------------------------------------------------------
(***************************************************************************)
(* Second layer: the plan and its counters.                                *)
(***************************************************************************)
PlanOK == PlanShape /\ LimitsAccounted

\* Sets of pods are finite, and so are their parts in a namespace.
LEMMA PodSets ==
  ASSUME NEW S \in SUBSET Pods, NEW ns
  PROVE  /\ IsFiniteSet(S) /\ Cardinality(S) \in Nat
         /\ IsFiniteSet(InNamespace(S, ns)) /\ Cardinality(InNamespace(S, ns)) \in Nat
  <1>1. IsFiniteSet(S)
    BY NamesAssumption, FS_Subset
  <1>2. InNamespace(S, ns) \subseteq S
    BY DEF InNamespace
  <1>3. IsFiniteSet(InNamespace(S, ns))
    BY <1>1, <1>2, FS_Subset
  <1> QED
    BY <1>1, <1>3, FS_CardinalityType

\* Fewer pods count for no more, in all and in each namespace.
LEMMA FewerPods ==
  ASSUME NEW S \in SUBSET Pods, NEW T \in SUBSET S, NEW ns
  PROVE  /\ Cardinality(T) <= Cardinality(S)
         /\ Cardinality(InNamespace(T, ns)) <= Cardinality(InNamespace(S, ns))
  <1>1. InNamespace(T, ns) \subseteq InNamespace(S, ns)
    BY DEF InNamespace
  <1> QED
    BY <1>1, PodSets, FS_Subset

\* One pod more counts for one more, in its namespace only.
LEMMA OneMorePod ==
  ASSUME NEW S \in SUBSET Pods, NEW p \in Pods, NEW ns
  PROVE  /\ Cardinality(S \cup {p}) <= Cardinality(S) + 1
         /\ ns = NamespaceOf[p] =>
              Cardinality(InNamespace(S \cup {p}, ns)) <= Cardinality(InNamespace(S, ns)) + 1
         /\ ns # NamespaceOf[p] => InNamespace(S \cup {p}, ns) = InNamespace(S, ns)
  <1>1. ns = NamespaceOf[p] => InNamespace(S \cup {p}, ns) = InNamespace(S, ns) \cup {p}
    BY DEF InNamespace
  <1>2. ns # NamespaceOf[p] => InNamespace(S \cup {p}, ns) = InNamespace(S, ns)
    BY DEF InNamespace
  <1>3. Cardinality(S \cup {p}) <= Cardinality(S) + 1
    BY PodSets, FS_AddElement
  <1>4. Cardinality(InNamespace(S, ns) \cup {p}) <= Cardinality(InNamespace(S, ns)) + 1
    <2>1. IsFiniteSet(InNamespace(S, ns)) /\ Cardinality(InNamespace(S, ns)) \in Nat
      BY PodSets
    <2> QED
      BY <2>1, FS_AddElement
  <1> QED
    BY <1>1, <1>2, <1>3, <1>4

LEMMA NoPods ==
  Cardinality({}) = 0 /\ \A ns : InNamespace({}, ns) = {}
  BY FS_EmptySet DEF InNamespace

LEMMA InitPlanOK == Init => PlanOK
  BY DEF Init, NoCounts, PlanOK, PlanShape, LimitsAccounted

\* Between reconciles there is no plan to account for.
LEMMA IdlePlanOK == Idle => PlanOK'
  BY DEF Idle, NoCounts, PlanOK, PlanShape, LimitsAccounted

\* Trying an entry, whatever the answer, disrupts or drops a pod that is
\* accounted for already.
LEMMA TryingPlanOK ==
  ASSUME StateOK, PlanOK, NEW p \in Pods, Trying(p),
         allowed' = allowed \ {p},
         disrupted' \in {disrupted, disrupted \cup {p}},
         UNCHANGED <<pc, spec, planned, clusterRemaining, namespaceCounts>>
  PROVE  PlanOK'
  <1> USE DEF StateOK, TypeOK
  <1>1. disrupted' \cup allowed' \in SUBSET (disrupted \cup allowed)
    BY DEF Trying
  <1>2. PlanShape'
    BY DEF PlanOK, PlanShape, Trying
  <1>3. Cardinality(disrupted' \cup allowed') <= Cardinality(disrupted \cup allowed)
    BY <1>1, FewerPods
  <1>4. \A ns : Cardinality(InNamespace(disrupted' \cup allowed', ns))
                  <= Cardinality(InNamespace(disrupted \cup allowed, ns))
    BY <1>1, FewerPods
  <1>5. /\ disrupted \cup allowed \in SUBSET Pods
        /\ disrupted' \cup allowed' \in SUBSET Pods
    BY <1>1
  <1>6. Limit(spec) \in Nat
    BY SpecTypes
  <1>7. LimitsAccounted
    BY DEF PlanOK
  <1>8. pc # "idle" /\ pc' # "idle"
    BY DEF Trying
  <1>9. Cardinality(disrupted' \cup allowed') + clusterRemaining' <= Limit(spec')
    BY <1>3, <1>5, <1>6, <1>7, <1>8, PodSets DEF LimitsAccounted
  <1>10. ASSUME NEW ns \in Namespaces
         PROVE  Cardinality(InNamespace(disrupted' \cup allowed', ns)) <= namespaceCounts'[ns]
    <2> DEFINE c0 == Cardinality(InNamespace(disrupted \cup allowed, ns))
               c1 == Cardinality(InNamespace(disrupted' \cup allowed', ns))
    <2>1. c0 \in Nat /\ c1 \in Nat
      BY <1>5, PodSets
    <2>2. c1 <= c0
      BY <1>4
    <2>3. c0 <= namespaceCounts[ns]
      BY <1>7, <1>8 DEF LimitsAccounted
    <2>4. namespaceCounts'[ns] = namespaceCounts[ns] /\ namespaceCounts[ns] \in Nat
      OBVIOUS
    <2> HIDE DEF c0, c1
    <2>5. c1 <= namespaceCounts'[ns]
      BY <2>1, <2>2, <2>3, <2>4
    <2> QED
      BY <2>5 DEF c1
  <1>11. LimitsAccounted'
    BY <1>7, <1>8, <1>9, <1>10 DEF LimitsAccounted
  <1> QED
    BY <1>2, <1>11 DEF PlanOK

\* Allowing an entry spends one of each limit it is counted against.
LEMMA BudgetEntryPlanOK ==
  ASSUME StateOK, PlanOK, NEW p \in Pods, BudgetEntry(p)
  PROVE  PlanOK'
  <1> USE DEF StateOK, TypeOK
  <1> DEFINE ns0 == NamespaceOf[p]
             tried == disrupted \cup allowed
  <1>1. ns0 \in Namespaces
    BY NamesAssumption
  <1>2. pc = "budgeting" /\ UNCHANGED <<pc, spec, disrupted>> /\ p \in planned
    BY DEF BudgetEntry
  <1>3. CASE clusterRemaining > 0 /\ MayDisrupt(ns0)
    <2>1. /\ allowed' = allowed \cup {p}
          /\ planned' = planned \ {p}
          /\ namespaceCounts' = [namespaceCounts EXCEPT ![ns0] = @ + 1]
          /\ clusterRemaining' = clusterRemaining - 1
      BY <1>3 DEF BudgetEntry
    <2>2. disrupted' \cup allowed' = tried \cup {p}
      BY <1>2, <2>1
    <2>3. PlanShape'
      BY <1>2, <2>1 DEF PlanOK, PlanShape
    <2>4. tried \in SUBSET Pods /\ tried \cup {p} \in SUBSET Pods
      OBVIOUS
    <2>5. Limit(spec) \in Nat /\ spec.MaxEvictionsPerNamespace \in Nat
      BY SpecTypes
    <2>6. Cardinality(disrupted' \cup allowed') + clusterRemaining' <= Limit(spec')
      <3>1. Cardinality(tried \cup {p}) <= Cardinality(tried) + 1
        BY <2>4, OneMorePod
      <3>2. Cardinality(tried) \in Nat /\ Cardinality(tried \cup {p}) \in Nat
        BY <2>4, PodSets
      <3>3. Cardinality(tried) + clusterRemaining <= Limit(spec)
        BY <1>2 DEF PlanOK, LimitsAccounted
      <3>4. Cardinality(tried \cup {p}) + (clusterRemaining - 1) <= Limit(spec)
        BY <3>1, <3>2, <3>3, <2>5
      <3> QED
        BY <1>2, <2>1, <2>2, <3>4
    <2>7. ASSUME NEW ns \in Namespaces
          PROVE  /\ Cardinality(InNamespace(disrupted' \cup allowed', ns)) <= namespaceCounts'[ns]
                 /\ namespaceCounts'[ns] + clusterRemaining' <= Limit(spec')
                 /\ spec'.MaxEvictionsPerNamespace > 0 =>
                      namespaceCounts'[ns] <= spec'.MaxEvictionsPerNamespace
      <3> DEFINE c0 == Cardinality(InNamespace(tried, ns))
                 c1 == Cardinality(InNamespace(tried \cup {p}, ns))
      <3>1. c0 \in Nat /\ c1 \in Nat
        BY <2>4, PodSets
      <3>2. /\ ns = ns0 => c1 <= c0 + 1
            /\ ns # ns0 => c1 = c0
        BY <2>4, OneMorePod
      <3>3. /\ c0 <= namespaceCounts[ns]
            /\ namespaceCounts[ns] + clusterRemaining <= Limit(spec)
            /\ spec.MaxEvictionsPerNamespace > 0 =>
                 namespaceCounts[ns] <= spec.MaxEvictionsPerNamespace
        BY <1>2 DEF PlanOK, LimitsAccounted
      <3>4. /\ ns = ns0 => namespaceCounts'[ns] = namespaceCounts[ns] + 1
            /\ ns # ns0 => namespaceCounts'[ns] = namespaceCounts[ns]
        BY <2>1
      <3>5. ns = ns0 /\ spec.MaxEvictionsPerNamespace > 0 =>
              namespaceCounts[ns] < spec.MaxEvictionsPerNamespace
        BY <1>3, <2>5 DEF MayDisrupt, CanDisruptNamespace, PlanLimitReached
      <3>6. Cardinality(InNamespace(disrupted' \cup allowed', ns)) = c1
        BY <2>2
      <3> HIDE DEF c0, c1, ns0, tried
      <3> QED
        BY <1>2, <2>1, <2>5, <3>1, <3>2, <3>3, <3>4, <3>5, <3>6
    <2>8. LimitsAccounted'
      BY <2>6, <2>7 DEF LimitsAccounted
    <2> QED
      BY <2>3, <2>8 DEF PlanOK
  <1>4. CASE ~(clusterRemaining > 0 /\ MayDisrupt(ns0))
    <2>1. /\ UNCHANGED <<allowed, namespaceCounts, clusterRemaining>>
          /\ planned' = planned \ {p}
      BY <1>4 DEF BudgetEntry
    <2> QED
      BY <1>2, <2>1 DEF PlanOK, PlanShape, LimitsAccounted
  <1> QED
    BY <1>3, <1>4

LEMMA NextPlanOK == StateOK /\ PlanOK /\ [Next]_vars => PlanOK'
  <1> SUFFICES ASSUME StateOK, PlanOK, [Next]_vars PROVE PlanOK'
    OBVIOUS
  <1> USE DEF memory, planning
  <1>1. CASE Snapshot
    <2>1. /\ allowed' = {} /\ disrupted' = {} /\ namespaceCounts' = NoCounts
          /\ pc' = "budgeting"
          /\ clusterRemaining' = Limit(spec')
      BY <1>1 DEF Snapshot, PlanOK, PlanShape
    <2>2. PlanShape'
      BY <2>1 DEF PlanShape
    <2>3. Limit(spec') \in Nat /\ spec'.MaxEvictionsPerNamespace \in Nat
      BY <1>1, SpecTypes DEF Snapshot
    <2>4. /\ Cardinality(disrupted' \cup allowed') = 0
          /\ \A ns : Cardinality(InNamespace(disrupted' \cup allowed', ns)) = 0
      BY <2>1, NoPods
    <2>5. LimitsAccounted'
      BY <2>1, <2>3, <2>4 DEF LimitsAccounted, NoCounts
    <2> QED
      BY <2>2, <2>5 DEF PlanOK
  <1>2. ASSUME NEW p \in Pods, BudgetEntry(p) PROVE PlanOK'
    BY <1>2, BudgetEntryPlanOK
  <1>3. CASE FinishPlan
    <2>1. CASE spec.DryRun
      BY <1>3, <2>1, IdlePlanOK DEF FinishPlan
    <2>2. CASE ~spec.DryRun
      BY <1>3, <2>2 DEF FinishPlan, PlanOK, PlanShape, LimitsAccounted
    <2> QED
      BY <2>1, <2>2
  <1>4. ASSUME NEW p \in Pods, EvictOK(p) PROVE PlanOK'
    BY <1>4, TryingPlanOK DEF EvictOK, Accept
  <1>5. ASSUME NEW p \in Pods, EvictReplyLost(p) PROVE PlanOK'
    BY <1>5, TryingPlanOK DEF EvictReplyLost, Accept
  <1>6. ASSUME NEW p \in Pods, EvictFailed(p) PROVE PlanOK'
    BY <1>6, TryingPlanOK DEF EvictFailed
  <1>7. ASSUME NEW p \in Pods, EvictTooManyRequests(p) PROVE PlanOK'
    BY <1>7, IdlePlanOK DEF EvictTooManyRequests
  <1>8. CASE UpdateStatus
    BY <1>8, IdlePlanOK DEF UpdateStatus
  <1>9. CASE Tick
    BY <1>9 DEF Tick, PlanOK, PlanShape, LimitsAccounted
  <1>10. CASE Restart
    BY <1>10, IdlePlanOK DEF Restart
  <1>11. CASE UNCHANGED vars
    BY <1>11 DEF vars, PlanOK, PlanShape, LimitsAccounted
  <1> QED
    BY <1>1, <1>2, <1>3, <1>4, <1>5, <1>6, <1>7, <1>8, <1>9, <1>10, <1>11 DEF Next, Evict

LEMMA AlwaysPlanOK == Spec => [](StateOK /\ PlanOK)
  BY InitStateOK, NextStateOK, InitPlanOK, NextPlanOK, PTL DEF Spec

(***************************************************************************)
(* A reconcile keeps both limits of its policy, whichever of its eviction  *)
(* calls fail or lose their answer.                                        *)
(***************************************************************************)
THEOREM PlansStayWithinLimits == Spec => []PlanWithinLimits
  <1>1. StateOK /\ PlanOK => PlanWithinLimits
    <2> SUFFICES ASSUME StateOK, PlanOK, pc # "idle" PROVE PlanWithinLimits
      BY DEF PlanWithinLimits
    <2> USE DEF StateOK, TypeOK
    <2> DEFINE tried == disrupted \cup allowed
    <2>1. tried \in SUBSET Pods
      OBVIOUS
    <2>2. Limit(spec) \in Nat /\ spec.MaxEvictionsPerNamespace \in Nat
      BY SpecTypes
    <2>3. Cardinality(tried) <= Limit(spec)
      BY <2>1, <2>2, PodSets DEF PlanOK, LimitsAccounted
    <2>4. ASSUME NEW ns \in Namespaces, spec.MaxEvictionsPerNamespace > 0
          PROVE  Cardinality(InNamespace(tried, ns)) <= spec.MaxEvictionsPerNamespace
      <3>1. Cardinality(InNamespace(tried, ns)) \in Nat
        BY <2>1, PodSets
      <3>2. /\ Cardinality(InNamespace(tried, ns)) <= namespaceCounts[ns]
            /\ namespaceCounts[ns] <= spec.MaxEvictionsPerNamespace
        BY <2>4 DEF PlanOK, LimitsAccounted
      <3> QED
        BY <2>2, <3>1, <3>2
    <2> QED
      BY <2>3, <2>4 DEF PlanWithinLimits
  <1> QED
    BY <1>1, AlwaysPlanOK, PTL
-------------------------------------------------------------------------------
(***************************************************************************)
(* Third layer: the memory covers the log, and the hour is accounted for.  *)
(***************************************************************************)
MemoryOK == MemoryCoversEvictions /\ HourAccounted /\ PlanOutOfBackoff

\* The evictions of the last hour are finitely many.
LEMMA HourFinite ==
  ASSUME StateOK, NEW ns, NEW t
  PROVE  /\ IsFiniteSet(Recent(AcknowledgedIn(ns), t))
         /\ Cardinality(Recent(AcknowledgedIn(ns), t)) \in Nat
  <1>1. Recent(AcknowledgedIn(ns), t) \subseteq evictions
    BY DEF Recent, AcknowledgedIn, Acknowledged
  <1>2. IsFiniteSet(Recent(AcknowledgedIn(ns), t))
    BY <1>1, FS_Subset DEF StateOK, LogOK
  <1> QED
    BY <1>2, FS_CardinalityType

\* What each kind of step does to the acknowledged evictions.
LEMMA AcknowledgedSame ==
  ASSUME UNCHANGED <<evictions, restarts>>
  PROVE  Acknowledged' = Acknowledged /\ \A ns : AcknowledgedIn(ns)' = AcknowledgedIn(ns)
  BY DEF Acknowledged, AcknowledgedIn

LEMMA AcknowledgedLost ==
  ASSUME NEW p \in Pods, Accept(p, FALSE), restarts' = restarts
  PROVE  Acknowledged' = Acknowledged /\ \A ns : AcknowledgedIn(ns)' = AcknowledgedIn(ns)
  BY DEF Acknowledged, AcknowledgedIn, Accept, NewEviction

LEMMA AcknowledgedGrows ==
  ASSUME NEW p \in Pods, Accept(p, TRUE), restarts' = restarts
  PROVE  /\ Acknowledged' = Acknowledged \cup {NewEviction(p, TRUE)}
         /\ \A ns : AcknowledgedIn(ns)' =
              IF NamespaceOf[p] = ns
              THEN AcknowledgedIn(ns) \cup {NewEviction(p, TRUE)}
              ELSE AcknowledgedIn(ns)
  BY DEF Acknowledged, AcknowledgedIn, Accept, NewEviction

LEMMA AcknowledgedForgotten ==
  ASSUME StateOK, Restart
  PROVE  Acknowledged' = {} /\ \A ns : AcknowledgedIn(ns)' = {}
  <1>1. \A e \in evictions : e.life # restarts + 1
    BY DEF StateOK, TypeOK, LogOK, Eviction
  <1> QED
    BY <1>1 DEF Restart, Acknowledged, AcknowledgedIn

\* The window only loses stamps as the clock advances.
LEMMA WindowMoves ==
  ASSUME NEW S \in SUBSET Eviction, NEW t \in Nat
  PROVE  Recent(S, t + 1) \subseteq Recent(S, t)
  BY HourAssumption DEF Recent, Eviction

LEMMA InitMemoryOK == Init => MemoryOK
  <1> SUFFICES ASSUME Init PROVE MemoryOK
    OBVIOUS
  <1>1. Acknowledged = {} /\ \A ns : AcknowledgedIn(ns) = {} /\ Recent(AcknowledgedIn(ns), now) = {}
    BY DEF Init, Acknowledged, AcknowledgedIn, Recent
  <1>2. MemoryCoversEvictions
    BY <1>1 DEF MemoryCoversEvictions
  <1>3. HourAccounted /\ PlanOutOfBackoff
    BY DEF Init, HourAccounted, PlanOutOfBackoff, NoCounts
  <1> QED
    BY <1>2, <1>3 DEF MemoryOK

\* Checks drop only stamps that are more than an hour old.
LEMMA ChecksCoverEvictions ==
  ASSUME MemoryCoversEvictions, NEW ns \in Namespaces
  PROVE  Recent(AcknowledgedIn(ns), now) \subseteq Recent(nsHistory[ns], now)
  BY DEF MemoryCoversEvictions, Recent

LEMMA NextMemoryCovers ==
  ASSUME StateOK, MemoryCoversEvictions, [Next]_vars
  PROVE  MemoryCoversEvictions'
  <1> USE DEF memory, planning
  <1>1. ASSUME UNCHANGED <<now, memory, evictions, restarts>> PROVE MemoryCoversEvictions'
    BY <1>1, AcknowledgedSame DEF MemoryCoversEvictions
  <1>2. ASSUME UNCHANGED <<now, history, evictions, restarts>>,
               \A ns \in Namespaces : Recent(nsHistory[ns], now) \subseteq nsHistory'[ns]
        PROVE  MemoryCoversEvictions'
    BY <1>2, AcknowledgedSame, ChecksCoverEvictions DEF MemoryCoversEvictions
  <1>3. ASSUME NEW p \in Pods, BudgetEntry(p) PROVE MemoryCoversEvictions'
    <2>1. \A ns \in Namespaces : Recent(nsHistory[ns], now) \subseteq nsHistory'[ns]
      <3> SUFFICES ASSUME NEW ns \in Namespaces
                   PROVE  Recent(nsHistory[ns], now) \subseteq nsHistory'[ns]
        OBVIOUS
      <3>1. \/ nsHistory'[ns] = nsHistory[ns]
            \/ nsHistory'[ns] = StampsAfterCheck(nsHistory[ns], now, spec,
                                  slos[ns], namespaceCounts[ns])
        BY <1>3 DEF BudgetEntry, StateOK, TypeOK
      <3> QED
        BY <3>1, ChecksOnlyDrop, RecentSubset
    <2> QED
      BY <1>2, <1>3, <2>1 DEF BudgetEntry
  <1>4. CASE FinishPlan
    <2>1. \A ns \in Namespaces : Recent(nsHistory[ns], now) \subseteq nsHistory'[ns]
      <3> SUFFICES ASSUME NEW ns \in Namespaces
                   PROVE  Recent(nsHistory[ns], now) \subseteq nsHistory'[ns]
        OBVIOUS
      <3>1. \/ nsHistory'[ns] = nsHistory[ns]
            \/ nsHistory'[ns] = StampsAfterRemaining(nsHistory[ns], now, slos[ns])
        BY <1>4 DEF FinishPlan
      <3>2. Recent(nsHistory[ns], now)
              \subseteq StampsAfterRemaining(nsHistory[ns], now, slos[ns])
        BY ChecksOnlyDrop
      <3> QED
        BY <3>1, <3>2, RecentSubset
    <2> QED
      BY <1>2, <1>4, <2>1 DEF FinishPlan
  <1>5. ASSUME NEW p \in Pods, EvictOK(p) PROVE MemoryCoversEvictions'
    <2> DEFINE e0 == NewEviction(p, TRUE)
    <2>1. Accept(p, TRUE) /\ RecordEviction(p) /\ now' = now /\ restarts' = restarts
      BY <1>5 DEF EvictOK
    <2>2. e0.pod = p /\ e0.at = now
      BY DEF NewEviction
    <2>3. ASSUME NEW ns \in Namespaces
          PROVE  Recent(AcknowledgedIn(ns)', now) \subseteq nsHistory'[ns]
      <3>1. CASE ns = NamespaceOf[p]
        <4>1. nsHistory'[ns] = Recent(nsHistory[ns], now) \cup {e0}
          BY <2>1, <3>1 DEF RecordEviction, StampsAfterRecord, StateOK, TypeOK
        <4>2. AcknowledgedIn(ns)' = AcknowledgedIn(ns) \cup {e0}
          BY <2>1, <3>1, AcknowledgedGrows
        <4>3. Recent(AcknowledgedIn(ns) \cup {e0}, now)
                \subseteq Recent(AcknowledgedIn(ns), now) \cup {e0}
          BY DEF Recent
        <4> QED
          BY <4>1, <4>2, <4>3, ChecksCoverEvictions
      <3>2. CASE ns # NamespaceOf[p]
        <4>1. nsHistory'[ns] = nsHistory[ns]
          BY <2>1, <3>2 DEF RecordEviction, StateOK, TypeOK
        <4>2. AcknowledgedIn(ns)' = AcknowledgedIn(ns)
          BY <2>1, <3>2, AcknowledgedGrows
        <4> QED
          BY <4>1, <4>2 DEF MemoryCoversEvictions
      <3> QED
        BY <3>1, <3>2
    <2>4. ASSUME NEW e \in Acknowledged' PROVE e.at <= history'[e.pod]
      <3>1. e = e0 \/ e \in Acknowledged
        BY <2>1, AcknowledgedGrows
      <3>2. history' = [history EXCEPT ![p] = now] /\ now \in Nat
        BY <2>1 DEF RecordEviction, StateOK, TypeOK
      <3>3. CASE e = e0
        <4>1. e.pod = p /\ e.at = now
          BY <2>2, <3>3
        <4>2. history'[p] = now
          BY <3>2 DEF StateOK, TypeOK
        <4> QED
          BY <3>2, <4>1, <4>2
      <3>4. CASE e \in Acknowledged
        <4>1. e.at <= history[e.pod] /\ e.at <= now /\ e.pod \in Pods
          BY <3>4 DEF MemoryCoversEvictions, Acknowledged, StateOK, TypeOK, LogOK, Eviction
        <4> QED
          BY <3>2, <4>1 DEF StateOK, TypeOK
      <3> QED
        BY <3>1, <3>3, <3>4
    <2> QED
      BY <2>1, <2>3, <2>4 DEF MemoryCoversEvictions
  <1>6. ASSUME NEW p \in Pods, EvictReplyLost(p) PROVE MemoryCoversEvictions'
    BY <1>6, AcknowledgedLost DEF EvictReplyLost, MemoryCoversEvictions
  <1>7. CASE Tick
    <2>1. now' = now + 1 /\ now \in Nat /\ UNCHANGED <<memory, evictions, restarts>>
      BY <1>7 DEF Tick, StateOK, TypeOK
    <2>2. \A ns : AcknowledgedIn(ns) \subseteq Eviction
      BY DEF AcknowledgedIn, Acknowledged, StateOK, TypeOK
    <2>3. \A ns \in Namespaces : Recent(AcknowledgedIn(ns), now + 1) \subseteq nsHistory[ns]
      BY <2>1, <2>2, WindowMoves DEF MemoryCoversEvictions
    <2> QED
      BY <2>1, <2>3, AcknowledgedSame DEF MemoryCoversEvictions
  <1>8. CASE Restart
    <2>1. \A ns : Recent(AcknowledgedIn(ns)', now') = {}
      BY <1>8, AcknowledgedForgotten DEF Recent
    <2> QED
      BY <1>8, <2>1, AcknowledgedForgotten DEF MemoryCoversEvictions
  <1>9. CASE Snapshot
    BY <1>1, <1>9 DEF Snapshot
  <1>10. ASSUME NEW p \in Pods, EvictFailed(p) \/ EvictTooManyRequests(p)
         PROVE  MemoryCoversEvictions'
    BY <1>1, <1>10 DEF EvictFailed, EvictTooManyRequests
  <1>11. CASE UpdateStatus
    BY <1>1, <1>11 DEF UpdateStatus
  <1>12. CASE UNCHANGED vars
    BY <1>1, <1>12 DEF vars
  <1> QED
    BY <1>3, <1>4, <1>5, <1>6, <1>7, <1>8, <1>9, <1>10, <1>11, <1>12 DEF Next, Evict

LEMMA NextOutOfBackoff ==
  ASSUME StateOK, PlanOK, PlanOutOfBackoff, [Next]_vars
  PROVE  PlanOutOfBackoff'
  <1> USE DEF memory, planning
  <1>1. ASSUME UNCHANGED <<now, spec>>,
               planned' \cup allowed' \subseteq planned \cup allowed,
               \A q \in planned' \cup allowed' : history'[q] = history[q]
        PROVE  PlanOutOfBackoff'
    BY <1>1 DEF PlanOutOfBackoff
  <1>2. ASSUME Idle PROVE PlanOutOfBackoff'
    BY <1>2 DEF Idle, PlanOutOfBackoff
  <1>3. CASE Snapshot
    <2>1. allowed' = {} /\ UNCHANGED <<now, history>>
      BY <1>3 DEF Snapshot, PlanOK, PlanShape
    <2>2. \A p \in planned' : ~HasBackoff(history[p], now, spec'.BackoffDuration)
      BY <1>3 DEF Snapshot
    <2> QED
      BY <2>1, <2>2 DEF PlanOutOfBackoff
  <1>4. ASSUME NEW p \in Pods, BudgetEntry(p) PROVE PlanOutOfBackoff'
    BY <1>1, <1>4 DEF BudgetEntry
  <1>5. CASE FinishPlan
    BY <1>1, <1>2, <1>5 DEF FinishPlan
  <1>6. ASSUME NEW p \in Pods, EvictOK(p) PROVE PlanOutOfBackoff'
    <2>1. p \notin planned' \cup allowed' /\ planned' \cup allowed' \subseteq planned \cup allowed
      BY <1>6 DEF EvictOK, Trying, PlanOK, PlanShape
    <2>2. \A q \in planned' \cup allowed' : history'[q] = history[q]
      BY <1>6, <2>1 DEF EvictOK, RecordEviction, StateOK, TypeOK
    <2> QED
      BY <1>1, <1>6, <2>1, <2>2 DEF EvictOK
  <1>7. ASSUME NEW p \in Pods, EvictReplyLost(p) PROVE PlanOutOfBackoff'
    BY <1>1, <1>7 DEF EvictReplyLost
  <1>8. ASSUME NEW p \in Pods, EvictFailed(p) PROVE PlanOutOfBackoff'
    BY <1>1, <1>8 DEF EvictFailed
  <1>9. ASSUME NEW p \in Pods, EvictTooManyRequests(p) PROVE PlanOutOfBackoff'
    BY <1>2, <1>9 DEF EvictTooManyRequests
  <1>10. CASE UpdateStatus
    BY <1>2, <1>10 DEF UpdateStatus
  <1>11. CASE Tick
    <2> SUFFICES ASSUME NEW p \in planned \cup allowed
                 PROVE  ~HasBackoff(history[p], now + 1, spec.BackoffDuration)
      BY <1>11 DEF Tick, PlanOutOfBackoff
    <2>1. ~HasBackoff(history[p], now, spec.BackoffDuration)
      BY DEF PlanOutOfBackoff
    <2>2. history[p] \in Nat \cup {Never} /\ now \in Nat /\ spec.BackoffDuration \in Nat
      BY SpecTypes DEF StateOK, TypeOK
    <2> QED
      BY <2>1, <2>2 DEF HasBackoff, Never
  <1>12. CASE Restart
    BY <1>2, <1>12 DEF Restart
  <1>13. CASE UNCHANGED vars
    BY <1>1, <1>13 DEF vars
  <1> QED
    BY <1>3, <1>4, <1>5, <1>6, <1>7, <1>8, <1>9, <1>10, <1>11, <1>12, <1>13 DEF Next, Evict

\* An entry is allowed while the hour has room for one more disruption than
\* the memory holds, and the memory holds all of them.
LEMMA BudgetEntryHourAccounted ==
  ASSUME StateOK, PlanOK, MemoryCoversEvictions, HourAccounted,
         NEW p \in Pods, BudgetEntry(p)
  PROVE  HourAccounted'
  <1> USE DEF StateOK, TypeOK
  <1>1. /\ pc = "budgeting" /\ p \in planned
        /\ UNCHANGED <<now, evictions, restarts, pc, spec, slos>>
    BY DEF BudgetEntry
  <1>2. \A ns : AcknowledgedIn(ns)' = AcknowledgedIn(ns)
    BY <1>1, AcknowledgedSame
  <1>3. CASE ~(clusterRemaining > 0 /\ MayDisrupt(NamespaceOf[p]))
    BY <1>1, <1>2, <1>3 DEF BudgetEntry, HourAccounted
  <1>4. CASE clusterRemaining > 0 /\ MayDisrupt(NamespaceOf[p])
    <2>1. /\ allowed' = allowed \cup {p}
          /\ namespaceCounts' = [namespaceCounts EXCEPT ![NamespaceOf[p]] = @ + 1]
      BY <1>4 DEF BudgetEntry
    <2>2. SUFFICES ASSUME NEW ns \in Namespaces, slos[ns] > 0, namespaceCounts'[ns] > 0
                   PROVE  Cardinality(Recent(AcknowledgedIn(ns), now))
                            + Cardinality(InNamespace(allowed \cup {p}, ns))
                            <= slos[ns] - 1 + namespaceCounts'[ns]
      BY <1>1, <1>2, <2>1 DEF HourAccounted
    <2> DEFINE hour == Cardinality(Recent(AcknowledgedIn(ns), now))
               max == slos[ns]
               c0 == Cardinality(InNamespace(allowed, ns))
               c1 == Cardinality(InNamespace(allowed \cup {p}, ns))
    <2>3. hour \in Nat /\ max \in Int /\ c0 \in Nat /\ c1 \in Nat
      BY HourFinite, LimitTypes, PodSets
    <2>4. CASE ns # NamespaceOf[p]
      <3>1. InNamespace(allowed \cup {p}, ns) = InNamespace(allowed, ns)
        BY <2>4, OneMorePod
      <3>2. namespaceCounts'[ns] = namespaceCounts[ns]
        BY <2>1, <2>4
      <3> QED
        BY <2>2, <3>1, <3>2 DEF HourAccounted
    <2>5. CASE ns = NamespaceOf[p]
      <3>1. c1 <= c0 + 1
        BY <2>5, OneMorePod
      <3>2. namespaceCounts'[ns] = namespaceCounts[ns] + 1
        BY <2>1, <2>5
      <3>3. Cardinality(Recent(nsHistory[ns], now)) < max
        BY <1>4, <2>2, <2>5, <2>3 DEF MayDisrupt, CanDisruptNamespace
      <3>4. hour <= Cardinality(Recent(nsHistory[ns], now))
        <4>1. IsFiniteSet(Recent(nsHistory[ns], now))
          BY RecentSubset DEF LogOK
        <4> QED
          BY <4>1, ChecksCoverEvictions, FS_Subset
      <3>5. Cardinality(Recent(nsHistory[ns], now)) \in Nat
        <4>1. IsFiniteSet(Recent(nsHistory[ns], now))
          BY RecentSubset DEF LogOK
        <4> QED
          BY <4>1, FS_CardinalityType
      <3>6. hour <= max - 1
        BY <2>3, <3>3, <3>4, <3>5
      <3>7. c0 <= namespaceCounts[ns] /\ namespaceCounts[ns] \in Nat
        <4>1. disrupted \cup allowed = allowed /\ pc # "idle"
          BY <1>1 DEF PlanOK, PlanShape
        <4> QED
          BY <4>1 DEF PlanOK, LimitsAccounted
      <3> HIDE DEF hour, max, c0, c1
      <3>8. hour + c1 <= max - 1 + namespaceCounts'[ns]
        BY <2>3, <3>1, <3>2, <3>6, <3>7
      <3> QED
        BY <3>8 DEF hour, max, c1
    <2> QED
      BY <2>4, <2>5
  <1> QED
    BY <1>3, <1>4

\* Trying an entry moves it from what is allowed to what is logged, or drops it.
LEMMA EvictOKHourAccounted ==
  ASSUME StateOK, PlanOK, HourAccounted, NEW p \in Pods, EvictOK(p)
  PROVE  HourAccounted'
  <1> USE DEF StateOK, TypeOK
  <1>1. /\ Accept(p, TRUE) /\ p \in allowed
        /\ UNCHANGED <<now, restarts, slos, namespaceCounts>>
        /\ allowed' = allowed \ {p}
    BY DEF EvictOK, Trying
  <1>2. SUFFICES ASSUME NEW ns \in Namespaces, slos[ns] > 0, namespaceCounts[ns] > 0
                 PROVE  Cardinality(Recent(AcknowledgedIn(ns)', now))
                          + Cardinality(InNamespace(allowed', ns))
                          <= slos[ns] - 1 + namespaceCounts[ns]
    BY <1>1 DEF HourAccounted
  <1> DEFINE before == Recent(AcknowledgedIn(ns), now)
             after == Recent(AcknowledgedIn(ns)', now)
             e0 == NewEviction(p, TRUE)
             max == slos[ns]
  <1>4. Cardinality(before) + Cardinality(InNamespace(allowed, ns)) <= max - 1 + namespaceCounts[ns]
    BY <1>2 DEF HourAccounted
  <1>5. CASE ns # NamespaceOf[p]
    <2>1. InNamespace(allowed', ns) = InNamespace(allowed, ns)
      BY <1>1, <1>5 DEF InNamespace
    <2>2. AcknowledgedIn(ns)' = AcknowledgedIn(ns)
      BY <1>1, <1>5, AcknowledgedGrows
    <2> QED
      BY <1>4, <2>1, <2>2
  <1>6. CASE ns = NamespaceOf[p]
    <2>1. AcknowledgedIn(ns)' = AcknowledgedIn(ns) \cup {e0}
      BY <1>1, <1>6, AcknowledgedGrows
    <2>2. after \subseteq before \cup {e0}
      BY <2>1 DEF Recent
    <2>3. IsFiniteSet(before) /\ Cardinality(before) \in Nat
      BY HourFinite
    <2>4. Cardinality(after) \in Nat /\ Cardinality(after) <= Cardinality(before) + 1
      <3> HIDE DEF before, after, e0
      <3>1. IsFiniteSet(before \cup {e0}) /\ Cardinality(before \cup {e0}) \in Nat
        BY <2>3, FS_AddElement, FS_CardinalityType
      <3>2. Cardinality(before \cup {e0}) <= Cardinality(before) + 1
        <4>1. Cardinality(before \cup {e0})
                = IF e0 \in before THEN Cardinality(before) ELSE Cardinality(before) + 1
          BY <2>3, FS_AddElement
        <4> QED
          BY <2>3, <4>1
      <3>3. IsFiniteSet(after) /\ Cardinality(after) <= Cardinality(before \cup {e0})
        BY <2>2, <3>1, FS_Subset
      <3>4. Cardinality(after) \in Nat
        BY <3>3, FS_CardinalityType
      <3> QED
        BY <2>3, <3>1, <3>2, <3>3, <3>4
    <2>5. InNamespace(allowed', ns) = InNamespace(allowed, ns) \ {p}
      BY <1>1 DEF InNamespace
    <2>6. p \in InNamespace(allowed, ns)
      BY <1>1, <1>6 DEF InNamespace
    <2>7. IsFiniteSet(InNamespace(allowed, ns)) /\ Cardinality(InNamespace(allowed, ns)) \in Nat
      BY PodSets
    <2>8. Cardinality(InNamespace(allowed', ns)) = Cardinality(InNamespace(allowed, ns)) - 1
      <3> DEFINE S == InNamespace(allowed, ns)
      <3>1. Cardinality(S \ {p}) = Cardinality(S) - 1
        <4> HIDE DEF S
        <4> QED
          BY <2>6, <2>7, FS_RemoveElement DEF S
      <3> QED
        BY <2>5, <3>1
    <2>9. max \in Int /\ namespaceCounts[ns] \in Nat
      BY LimitTypes
    <2> HIDE DEF before, after, max
    <2>10. Cardinality(after) + Cardinality(InNamespace(allowed', ns)) <= max - 1 + namespaceCounts[ns]
      BY <1>4, <2>3, <2>4, <2>7, <2>8, <2>9
    <2> QED
      BY <2>10 DEF after, max
  <1> QED
    BY <1>5, <1>6

LEMMA NextHourAccounted ==
  ASSUME StateOK, PlanOK, MemoryCoversEvictions, HourAccounted, [Next]_vars
  PROVE  HourAccounted'
  <1> USE DEF memory, planning, StateOK, TypeOK
  <1>1. ASSUME now' \in {now, now + 1}, UNCHANGED <<slos, namespaceCounts>>,
               allowed' \subseteq allowed,
               \A ns : AcknowledgedIn(ns)' = AcknowledgedIn(ns)
        PROVE  HourAccounted'
    <2> SUFFICES ASSUME NEW ns \in Namespaces, slos[ns] > 0, namespaceCounts[ns] > 0
                 PROVE  Cardinality(Recent(AcknowledgedIn(ns), now'))
                          + Cardinality(InNamespace(allowed', ns))
                          <= slos[ns] - 1 + namespaceCounts[ns]
      BY <1>1 DEF HourAccounted
    <2> DEFINE h0 == Cardinality(Recent(AcknowledgedIn(ns), now))
               h1 == Cardinality(Recent(AcknowledgedIn(ns), now'))
               c0 == Cardinality(InNamespace(allowed, ns))
               c1 == Cardinality(InNamespace(allowed', ns))
               bound == slos[ns] - 1 + namespaceCounts[ns]
    <2>1. c1 <= c0
      BY <1>1, FewerPods
    <2>2. AcknowledgedIn(ns) \in SUBSET Eviction
      BY DEF AcknowledgedIn, Acknowledged
    <2>3. Recent(AcknowledgedIn(ns), now') \subseteq Recent(AcknowledgedIn(ns), now)
      BY <1>1, <2>2, WindowMoves
    <2>4. IsFiniteSet(Recent(AcknowledgedIn(ns), now)) /\ h0 \in Nat /\ h1 \in Nat
      BY HourFinite
    <2>5. h1 <= h0
      BY <2>3, <2>4, FS_Subset
    <2>6. c0 \in Nat /\ c1 \in Nat
      BY <1>1, PodSets
    <2>7. bound \in Int
      BY LimitTypes
    <2>8. h0 + c0 <= bound
      BY DEF HourAccounted
    <2> HIDE DEF h0, h1, c0, c1, bound
    <2>9. h1 + c1 <= bound
      BY <2>1, <2>4, <2>5, <2>6, <2>7, <2>8
    <2> QED
      BY <2>9 DEF h1, c1, bound
  <1>2. ASSUME namespaceCounts' = NoCounts PROVE HourAccounted'
    BY <1>2 DEF NoCounts, HourAccounted
  <1>3. CASE Snapshot
    BY <1>2, <1>3 DEF Snapshot, PlanOK, PlanShape
  <1>4. ASSUME NEW p \in Pods, BudgetEntry(p) PROVE HourAccounted'
    BY <1>4, BudgetEntryHourAccounted
  <1>5. CASE FinishPlan
    BY <1>1, <1>2, <1>5, AcknowledgedSame DEF FinishPlan, Idle
  <1>6. ASSUME NEW p \in Pods, EvictOK(p) PROVE HourAccounted'
    BY <1>6, EvictOKHourAccounted
  <1>7. ASSUME NEW p \in Pods, EvictReplyLost(p) PROVE HourAccounted'
    BY <1>1, <1>7, AcknowledgedLost DEF EvictReplyLost
  <1>8. ASSUME NEW p \in Pods, EvictFailed(p) PROVE HourAccounted'
    BY <1>1, <1>8, AcknowledgedSame DEF EvictFailed
  <1>9. ASSUME NEW p \in Pods, EvictTooManyRequests(p) PROVE HourAccounted'
    BY <1>2, <1>9 DEF EvictTooManyRequests, Idle
  <1>10. CASE UpdateStatus
    BY <1>2, <1>10 DEF UpdateStatus, Idle
  <1>11. CASE Tick
    BY <1>1, <1>11, AcknowledgedSame DEF Tick
  <1>12. CASE Restart
    BY <1>2, <1>12 DEF Restart, Idle
  <1>13. CASE UNCHANGED vars
    BY <1>1, <1>13, AcknowledgedSame DEF vars
  <1> QED
    BY <1>3, <1>4, <1>5, <1>6, <1>7, <1>8, <1>9, <1>10, <1>11, <1>12, <1>13 DEF Next, Evict

\* A pod that is allowed or disrupted has been counted.
LEMMA PodIsCounted ==
  ASSUME StateOK, PlanOK, NEW p \in disrupted \cup allowed
  PROVE  NamespaceOf[p] \in Namespaces /\ namespaceCounts[NamespaceOf[p]] > 0
  <1> DEFINE ns == NamespaceOf[p]
             tried == InNamespace(disrupted \cup allowed, ns)
  <1>1. disrupted \cup allowed \in SUBSET Pods /\ ns \in Namespaces
    BY NamesAssumption DEF StateOK, TypeOK
  <1>2. pc # "idle" /\ p \in tried
    BY DEF PlanOK, PlanShape, InNamespace
  <1>3. IsFiniteSet(tried) /\ Cardinality(tried) \in Nat
    BY <1>1, PodSets
  <1>4. Cardinality(tried) # 0
    BY <1>2, <1>3, FS_EmptySet
  <1>5. Cardinality(tried) <= namespaceCounts[ns] /\ namespaceCounts[ns] \in Nat
    BY <1>1, <1>2 DEF PlanOK, LimitsAccounted, StateOK, TypeOK
  <1> HIDE DEF tried, ns
  <1>6. namespaceCounts[ns] > 0
    BY <1>3, <1>4, <1>5
  <1> QED
    BY <1>1, <1>6 DEF ns

\* What a plan leaves of the hour in a namespace it counted: the slack of the
\* limit it read and what one plan of its policy may take.
HourWithinCap ==
  \A ns \in Namespaces :
    slos[ns] > 0 /\ namespaceCounts[ns] > 0 =>
      Cardinality(Recent(AcknowledgedIn(ns), now)) <= slos[ns] - 1 + NamespaceCap(spec)

LEMMA HourStaysWithinCap == StateOK /\ PlanOK /\ HourAccounted => HourWithinCap
  <1> SUFFICES ASSUME StateOK, PlanOK, HourAccounted,
                      NEW ns \in Namespaces, slos[ns] > 0, namespaceCounts[ns] > 0
               PROVE  Cardinality(Recent(AcknowledgedIn(ns), now))
                        <= slos[ns] - 1 + NamespaceCap(spec)
    BY DEF HourWithinCap
  <1> USE DEF StateOK, TypeOK
  <1> DEFINE hour == Cardinality(Recent(AcknowledgedIn(ns), now))
             todo == Cardinality(InNamespace(allowed, ns))
             max == slos[ns]
  <1>1. hour \in Nat /\ todo \in Nat /\ max \in Int
    BY HourFinite, PodSets, LimitTypes
  <1>2. hour + todo <= max - 1 + namespaceCounts[ns]
    BY DEF HourAccounted
  <1>3. namespaceCounts[ns] \in Nat /\ namespaceCounts[ns] <= NamespaceCap(spec)
    <2>1. pc # "idle"
      BY DEF PlanOK, PlanShape, NoCounts
    <2>2. /\ namespaceCounts[ns] + clusterRemaining <= Limit(spec)
          /\ spec.MaxEvictionsPerNamespace > 0 =>
               namespaceCounts[ns] <= spec.MaxEvictionsPerNamespace
      BY <2>1 DEF PlanOK, LimitsAccounted
    <2>3. Limit(spec) \in Nat /\ spec.MaxEvictionsPerNamespace \in Nat
      BY SpecTypes
    <2> QED
      BY <2>2, <2>3 DEF NamespaceCap
  <1>4. NamespaceCap(spec) \in Nat
    BY SpecTypes
  <1> HIDE DEF hour, todo, max
  <1>5. hour <= max - 1 + NamespaceCap(spec)
    BY <1>1, <1>2, <1>3, <1>4
  <1> QED
    BY <1>5 DEF hour, max

LEMMA AlwaysMemoryOK == Spec => [](StateOK /\ PlanOK /\ MemoryOK)
  <1>1. StateOK /\ PlanOK /\ MemoryOK /\ [Next]_vars => MemoryOK'
    BY NextMemoryCovers, NextHourAccounted, NextOutOfBackoff DEF MemoryOK
  <1> QED
    BY <1>1, InitStateOK, NextStateOK, InitPlanOK, NextPlanOK, InitMemoryOK, PTL DEF Spec

-------------------------------------------------------------------------------
(***************************************************************************)
(* When a plan has evicted in a namespace under a limit, the hour holds at *)
(* most the limit's slack and one plan's allowance, among the evictions    *)
(* the process knows of and by the limit the plan's snapshot read          *)
(* (canDisruptNamespace, RecordEviction).                                  *)
(***************************************************************************)
THEOREM HourlyBudgetHolds == Spec => []HourlyBudget
  <1>1. StateOK /\ PlanOK /\ HourAccounted => HourlyBudget
    <2> SUFFICES ASSUME StateOK, PlanOK, HourAccounted,
                        NEW ns \in Namespaces, slos[ns] > 0, InNamespace(disrupted, ns) # {}
                 PROVE  Cardinality(Recent(AcknowledgedIn(ns), now))
                          <= slos[ns] - 1 + NamespaceCap(spec)
      BY DEF HourlyBudget
    <2>1. PICK p \in disrupted : NamespaceOf[p] = ns
      BY DEF InNamespace
    <2>2. namespaceCounts[ns] > 0
      BY <2>1, PodIsCounted
    <2> QED
      BY <2>2, HourStaysWithinCap DEF HourWithinCap
  <1>2. MemoryOK => HourAccounted
    BY DEF MemoryOK
  <1> QED
    BY <1>1, <1>2, AlwaysMemoryOK, PTL

(***************************************************************************)
(* The pruning of the memory never drops a stamp a later check needs.      *)
(***************************************************************************)
THEOREM MemoryCovers == Spec => []MemoryCoversEvictions
  <1>1. MemoryOK => MemoryCoversEvictions
    BY DEF MemoryOK
  <1> QED
    BY <1>1, AlwaysMemoryOK, PTL

(***************************************************************************)
(* What the loop keeps, in one formula: the types, the log, the accounts   *)
(* of plan and hour, and the memory of the planner (Plan, RecordEviction). *)
(***************************************************************************)
THEOREM InductiveInvariant == Spec => []IInv
  <1>1. StateOK /\ PlanOK /\ MemoryOK => IInv
    BY DEF StateOK, PlanOK, MemoryOK, IInv
  <1> QED
    BY <1>1, AlwaysMemoryOK, PTL

\* A pod the API server takes was out of backoff, and still is.
LEMMA AcceptRespectsBackoff ==
  ASSUME StateOK, PlanOK, MemoryOK, NEW p \in Pods, NEW acked \in BOOLEAN,
         Trying(p), Accept(p, acked),
         NEW d \in Acknowledged, d.pod = p
  PROVE  now - d.at >= spec.BackoffDuration
  <1> USE DEF StateOK, TypeOK
  <1>1. ~HasBackoff(history[p], now, spec.BackoffDuration)
    BY DEF MemoryOK, PlanOutOfBackoff, Trying
  <1>2. d.at <= history[p] /\ d.at \in Nat
    BY DEF MemoryOK, MemoryCoversEvictions, Acknowledged, Eviction
  <1>3. history[p] \in Nat \cup {Never} /\ now \in Nat /\ spec.BackoffDuration \in Nat
    BY SpecTypes
  <1> QED
    BY <1>1, <1>2, <1>3 DEF HasBackoff, Never

\* Only an answered or a lost eviction makes the log longer.
LEMMA LogGrowsByEviction ==
  ASSUME [Next]_vars, NEW e \in evictions' \ evictions
  PROVE  \E p \in Pods, acked \in BOOLEAN :
           Trying(p) /\ Accept(p, acked) /\ e = NewEviction(p, acked)
  <1>1. \A p \in Pods : EvictOK(p) => Trying(p) /\ Accept(p, TRUE)
    BY DEF EvictOK
  <1>2. \A p \in Pods : EvictReplyLost(p) => Trying(p) /\ Accept(p, FALSE)
    BY DEF EvictReplyLost
  <1>3. \E p \in Pods : EvictOK(p) \/ EvictReplyLost(p)
    BY DEF Next, Evict, Snapshot, BudgetEntry, FinishPlan, EvictFailed, EvictTooManyRequests,
           UpdateStatus, Tick, Restart, vars
  <1>4. PICK p \in Pods : EvictOK(p) \/ EvictReplyLost(p)
    BY <1>3
  <1>5. PICK acked \in BOOLEAN : Trying(p) /\ Accept(p, acked)
    BY <1>1, <1>2, <1>4
  <1>6. e = NewEviction(p, acked)
    BY <1>5 DEF Accept
  <1> QED
    BY <1>5, <1>6

(***************************************************************************)
(* No pod name is evicted again within the backoff of the policy that      *)
(* evicts it, counting the evictions the running process knows of.         *)
(***************************************************************************)
THEOREM BackoffHolds == Spec => BackoffRespected
  <1>1. StateOK /\ PlanOK /\ MemoryOK /\ [Next]_vars =>
          [\A e \in evictions' \ evictions, d \in Acknowledged :
             e.pod = d.pod => e.at - d.at >= spec.BackoffDuration]_vars
    <2> SUFFICES ASSUME StateOK, PlanOK, MemoryOK, [Next]_vars,
                        NEW e \in evictions' \ evictions, NEW d \in Acknowledged,
                        e.pod = d.pod
                 PROVE  e.at - d.at >= spec.BackoffDuration
      OBVIOUS
    <2>1. PICK p \in Pods, acked \in BOOLEAN :
            Trying(p) /\ Accept(p, acked) /\ e = NewEviction(p, acked)
      BY LogGrowsByEviction
    <2>2. e.pod = p /\ e.at = now
      BY <2>1 DEF NewEviction
    <2> QED
      BY <2>1, <2>2, AcceptRespectsBackoff
  <1> QED
    BY <1>1, AlwaysMemoryOK, PTL DEF Spec, BackoffRespected

-------------------------------------------------------------------------------
(***************************************************************************)
(* The refinement.                                                         *)
(***************************************************************************)
\* The guard counts the way the loop does.
LEMMA GuardCardinality ==
  ASSUME NEW S
  PROVE  Guard!Cardinality(S) = Cardinality(S)
  BY DEF Guard!Cardinality, Cardinality

\* The guard's window is the loop's.
LEMMA GuardWindow ==
  ASSUME NEW ns, NEW t
  PROVE  Guard!LastHour(Acknowledged', ns, t) = Recent(AcknowledgedIn(ns)', t)
  BY DEF Guard!LastHour, Recent, AcknowledgedIn

\* The guard's rule is what the reconcile in progress read.
LEMMA GuardRule ==
  ASSUME StateOK
  PROVE  /\ <<spec, slos>> \in PolicySpecs \X HourlyLimits
         /\ [r \in PolicySpecs \X HourlyLimits |-> NamespaceCap(r[1])][<<spec, slos>>]
              = NamespaceCap(spec)
         /\ [r \in PolicySpecs \X HourlyLimits |-> r[1].BackoffDuration][<<spec, slos>>]
              = spec.BackoffDuration
         /\ [r \in PolicySpecs \X HourlyLimits |-> r[2]][<<spec, slos>>] = slos
  <1>1. <<spec, slos>> \in PolicySpecs \X HourlyLimits
    BY DEF StateOK, TypeOK
  <1> QED
    BY <1>1

\* An acknowledged eviction is a disruption the guard admits.
LEMMA EvictOKDisrupts ==
  ASSUME StateOK, PlanOK, MemoryOK, HourWithinCap', NEW p \in Pods, EvictOK(p)
  PROVE  [Guard!Next]_(Guard!vars)
  <1> DEFINE e0 == NewEviction(p, TRUE)
             ns == NamespaceOf[p]
  <1>1. /\ Accept(p, TRUE) /\ Trying(p)
        /\ UNCHANGED <<now, restarts, spec, slos, namespaceCounts>>
    BY DEF EvictOK
  <1>2. Acknowledged' = Acknowledged \cup {e0} /\ e0.pod = p /\ e0.at = now
    BY <1>1, AcknowledgedGrows DEF NewEviction
  <1>3. CASE e0 \in Acknowledged
    BY <1>1, <1>2, <1>3 DEF Guard!vars
  <1>4. CASE e0 \notin Acknowledged
    <2>1. Guard!Spaced(p)
      BY <1>1, AcceptRespectsBackoff, GuardRule DEF Guard!Spaced
    <2>2. Guard!WithinBudget(Acknowledged', ns)
      <3>1. ns \in Namespaces /\ namespaceCounts[ns] > 0
        BY <1>1, PodIsCounted DEF Trying
      <3>2. ASSUME slos[ns] > 0
            PROVE  Cardinality(Recent(AcknowledgedIn(ns)', now)) <= slos[ns] - 1 + NamespaceCap(spec)
        BY <1>1, <3>1, <3>2 DEF HourWithinCap, NamespaceCap, Limit
      <3>3. Guard!LastHour(Acknowledged', ns, now) = Recent(AcknowledgedIn(ns)', now)
        BY GuardWindow
      <3> QED
        BY <3>2, <3>3, GuardCardinality, GuardRule DEF Guard!WithinBudget
    <2>3. e0 \in Acknowledged' \ Acknowledged
      BY <1>2, <1>4
    <2>4. Guard!Disrupt
      BY <1>1, <1>2, <2>1, <2>2, <2>3 DEF Guard!Disrupt
    <2> QED
      BY <2>4 DEF Guard!Next
  <1> QED
    BY <1>3, <1>4

(***************************************************************************)
(* EvictionLoop implements DisruptionGuard: whatever the interleaving of   *)
(* planning, eviction calls, lost answers, edits of policies and limits,   *)
(* clock and restarts, the acknowledged evictions of the process form a    *)
(* log the guard allows, each under what its own reconcile read.           *)
(***************************************************************************)
THEOREM LoopImplementsGuard == Spec => ImplementsGuard
  <1>1. Init => Guard!Init
    BY DEF Init, Guard!Init, Acknowledged
  <1>2. StateOK /\ PlanOK /\ MemoryOK /\ HourWithinCap' /\ [Next]_vars
          => [Guard!Next]_(Guard!vars)
    <2> SUFFICES ASSUME StateOK, PlanOK, MemoryOK, HourWithinCap', [Next]_vars
                 PROVE  [Guard!Next]_(Guard!vars)
      OBVIOUS
    <2> USE DEF memory, planning
    <2>1. ASSUME UNCHANGED <<now, evictions, restarts, spec, slos>> PROVE UNCHANGED Guard!vars
      BY <2>1, AcknowledgedSame DEF Guard!vars
    <2>2. ASSUME NEW p \in Pods, EvictOK(p) PROVE [Guard!Next]_(Guard!vars)
      BY <2>2, EvictOKDisrupts
    <2>3. ASSUME NEW p \in Pods, EvictReplyLost(p) PROVE UNCHANGED Guard!vars
      BY <2>3, AcknowledgedLost DEF EvictReplyLost, Guard!vars
    <2>4. CASE Tick
      BY <2>4, AcknowledgedSame DEF Tick, Guard!Tick, Guard!Next
    <2>5. CASE Restart
      BY <2>5, AcknowledgedForgotten DEF Restart, Guard!Forget, Guard!Next
    <2>6. ASSUME NEW p \in Pods,
                 BudgetEntry(p) \/ EvictFailed(p) \/ EvictTooManyRequests(p)
          PROVE  UNCHANGED Guard!vars
      BY <2>1, <2>6 DEF BudgetEntry, EvictFailed, EvictTooManyRequests
    <2>7. CASE Snapshot
      BY <2>7, AcknowledgedSame DEF Snapshot, Guard!Adopt, Guard!Next
    <2>8. CASE FinishPlan \/ UpdateStatus \/ UNCHANGED vars
      BY <2>1, <2>8 DEF FinishPlan, UpdateStatus, vars
    <2> QED
      BY <2>2, <2>3, <2>4, <2>5, <2>6, <2>7, <2>8 DEF Next, Evict
  <1>3. MemoryOK => HourAccounted
    BY DEF MemoryOK
  <1> QED
    BY <1>1, <1>2, <1>3, HourStaysWithinCap, AlwaysMemoryOK, PTL DEF Spec, ImplementsGuard, Guard!Spec

-------------------------------------------------------------------------------
(***************************************************************************)
(* The observed loop is the loop: recording metrics adds no step and no    *)
(* state to EvictionLoop, so what is proved above of the loop holds of the *)
(* observed one - and the counters and the gauge tell the truth about it.  *)
(***************************************************************************)
LEMMA ObservedStep == [ObservedNext]_observedVars => [Next]_vars
<1> SUFFICES ASSUME [ObservedNext]_observedVars PROVE [Next]_vars
  OBVIOUS
<1>1. CASE ObservedSnapshot
  BY <1>1 DEF ObservedSnapshot, Next
<1>2. CASE \E p \in Pods : ObservedBudgetEntry(p)
  BY <1>2 DEF ObservedBudgetEntry, Next
<1>3. CASE ObservedFinishPlan
  BY <1>3 DEF ObservedFinishPlan, Next
<1>4. CASE \E p \in Pods : ObservedEvict(p)
  BY <1>4 DEF ObservedEvict, Next
<1>5. CASE ObservedUpdateStatus
  BY <1>5 DEF ObservedUpdateStatus, Next
<1>6. CASE ObservedTick
  BY <1>6 DEF ObservedTick, Next
<1>7. CASE ObservedRestart
  BY <1>7 DEF ObservedRestart, Next
<1>8. CASE UNCHANGED observedVars
  BY <1>8 DEF observedVars
<1> QED
  BY <1>1, <1>2, <1>3, <1>4, <1>5, <1>6, <1>7, <1>8 DEF ObservedNext

(***************************************************************************)
(* The eviction loop with its counters and gauges (Reconcile with the      *)
(* calls of Recorder) implements the loop without them.                    *)
(***************************************************************************)
THEOREM ObservedImplementsLoop == ObservedSpec => Spec
<1>1. ObservedInit => Init
  BY DEF ObservedInit
<1> QED
  BY <1>1, ObservedStep, PTL DEF ObservedSpec, Spec

\* What the layers above know of every state of the loop.
LoopOK == StateOK /\ PlanOK /\ MemoryOK

LEMMA AlwaysLoopOK == ObservedSpec => []LoopOK
  BY ObservedImplementsLoop, AlwaysMemoryOK, PTL DEF LoopOK

-------------------------------------------------------------------------------
(***************************************************************************)
(* The counter of evictions.  Two evictions have two identities: the next  *)
(* one is the size of the log, and all before it are smaller.              *)
(***************************************************************************)
IdsInOrder == \A e \in evictions : e.id < Cardinality(evictions)

CounterTypes == evictionsTotal \in [Namespaces -> Nat]

\* Each eviction the server accepts is a new one.
LEMMA EvictionIsNew ==
  ASSUME StateOK, IdsInOrder, NEW p \in Pods, NEW acked \in BOOLEAN, Accept(p, acked)
  PROVE  NewEviction(p, acked) \notin evictions /\ IdsInOrder'
  <1> DEFINE e0 == NewEviction(p, acked)
             n == Cardinality(evictions)
  <1>1. IsFiniteSet(evictions) /\ n \in Nat
    BY FS_CardinalityType DEF StateOK, LogOK
  <1>2. e0.id = n
    BY DEF NewEviction
  <1>3. e0 \notin evictions
    BY <1>1, <1>2 DEF IdsInOrder
  <1>4. evictions' = evictions \cup {e0}
    BY DEF Accept
  <1> HIDE DEF e0
  <1>5. Cardinality(evictions') = n + 1
    BY <1>1, <1>3, <1>4, FS_AddElement
  <1>6. \A e \in evictions : e.id \in Nat /\ e.id < n
    BY DEF StateOK, TypeOK, Eviction, IdsInOrder
  <1>7. IdsInOrder'
    BY <1>1, <1>2, <1>4, <1>5, <1>6 DEF IdsInOrder
  <1> QED
    BY <1>3, <1>7 DEF e0

\* An acknowledged eviction is one more of its namespace.
LEMMA OneMoreAcknowledged ==
  ASSUME StateOK, IdsInOrder, NEW p \in Pods, Accept(p, TRUE), restarts' = restarts,
         NEW ns \in Namespaces
  PROVE  Cardinality(AcknowledgedIn(ns)') =
           Cardinality(AcknowledgedIn(ns)) + (IF ns = NamespaceOf[p] THEN 1 ELSE 0)
  <1> DEFINE e0 == NewEviction(p, TRUE)
  <1>1. e0 \notin evictions
    BY EvictionIsNew
  <1>2. AcknowledgedIn(ns)' =
          IF NamespaceOf[p] = ns THEN AcknowledgedIn(ns) \cup {e0} ELSE AcknowledgedIn(ns)
    BY AcknowledgedGrows
  <1> HIDE DEF e0
  <1>3. AcknowledgedIn(ns) \subseteq evictions
    BY DEF AcknowledgedIn, Acknowledged
  <1>4. IsFiniteSet(AcknowledgedIn(ns)) /\ Cardinality(AcknowledgedIn(ns)) \in Nat
    BY <1>3, FS_Subset, FS_CardinalityType DEF StateOK, LogOK
  <1>5. Cardinality(AcknowledgedIn(ns) \cup {e0}) = Cardinality(AcknowledgedIn(ns)) + 1
    BY <1>1, <1>3, <1>4, FS_AddElement
  <1> QED
    BY <1>2, <1>4, <1>5

CountOK == CounterTypes /\ IdsInOrder /\ EvictionsCounted

LEMMA NextCountOK == LoopOK /\ CountOK /\ [ObservedNext]_observedVars => CountOK'
  <1> SUFFICES ASSUME LoopOK, CountOK, [ObservedNext]_observedVars PROVE CountOK'
    OBVIOUS
  <1> USE DEF memory, planning, metrics
  <1>0. StateOK
    BY DEF LoopOK
  <1>1. ASSUME UNCHANGED <<evictions, restarts, evictionsTotal>> PROVE CountOK'
    BY <1>1, AcknowledgedSame DEF CountOK, CounterTypes, IdsInOrder, EvictionsCounted
  <1>2. CASE ObservedSnapshot
    BY <1>1, <1>2 DEF ObservedSnapshot, Snapshot
  <1>3. ASSUME NEW p \in Pods, ObservedBudgetEntry(p) PROVE CountOK'
    BY <1>1, <1>3 DEF ObservedBudgetEntry, BudgetEntry
  <1>4. CASE ObservedFinishPlan
    BY <1>1, <1>4 DEF ObservedFinishPlan, FinishPlan
  <1>5. ASSUME NEW p \in Pods, EvictOK(p), CountEviction(p) PROVE CountOK'
    <2>0. executed' = executed + 1 /\ executed \in Nat
      BY <1>0, <1>5 DEF EvictOK, StateOK, TypeOK
    <2>a. executed' > executed
      BY <2>0
    <2>1. Accept(p, TRUE) /\ restarts' = restarts
      BY <1>5 DEF EvictOK
    <2>2. evictionsTotal' = [evictionsTotal EXCEPT ![NamespaceOf[p]] = @ + 1]
      BY <1>5, <2>a DEF CountEviction
    <2>3. NamespaceOf[p] \in Namespaces
      BY NamesAssumption
    <2>4. IdsInOrder'
      BY <1>0, <2>1, EvictionIsNew DEF CountOK
    <2>5. evictionsTotal' \in [Namespaces -> Nat]
      BY <2>2, <2>3 DEF CountOK, CounterTypes
    <2>6. ASSUME NEW ns \in Namespaces PROVE evictionsTotal'[ns] = Cardinality(AcknowledgedIn(ns)')
      <3>1. evictionsTotal'[ns] = evictionsTotal[ns] + (IF ns = NamespaceOf[p] THEN 1 ELSE 0)
        BY <2>2, <2>3 DEF CountOK, CounterTypes
      <3>2. evictionsTotal[ns] = Cardinality(AcknowledgedIn(ns))
        BY DEF CountOK, EvictionsCounted
      <3>3. Cardinality(AcknowledgedIn(ns)') =
              Cardinality(AcknowledgedIn(ns)) + (IF ns = NamespaceOf[p] THEN 1 ELSE 0)
        BY <1>0, <2>1, OneMoreAcknowledged DEF CountOK
      <3> QED
        BY <3>1, <3>2, <3>3
    <2>7. EvictionsCounted'
      BY <2>6 DEF EvictionsCounted
    <2> QED
      BY <2>4, <2>5, <2>7 DEF CountOK, CounterTypes
  <1>6. ASSUME NEW p \in Pods, EvictReplyLost(p), CountEviction(p) PROVE CountOK'
    <2>1. Accept(p, FALSE) /\ restarts' = restarts /\ executed' = executed
      BY <1>6 DEF EvictReplyLost
    <2>2. evictionsTotal' = evictionsTotal
      BY <1>0, <1>6, <2>1 DEF CountEviction, StateOK, TypeOK
    <2>3. \A ns : AcknowledgedIn(ns)' = AcknowledgedIn(ns)
      BY <2>1, AcknowledgedLost
    <2>4. IdsInOrder'
      BY <1>0, <2>1, EvictionIsNew DEF CountOK
    <2> QED
      BY <2>2, <2>3, <2>4 DEF CountOK, CounterTypes, EvictionsCounted
  <1>7. ASSUME NEW p \in Pods, EvictFailed(p) \/ EvictTooManyRequests(p), CountEviction(p)
        PROVE  CountOK'
    <2>1. UNCHANGED <<evictions, restarts>> /\ executed' \in {0, executed}
      BY <1>7 DEF EvictFailed, EvictTooManyRequests, Idle
    <2>2. evictionsTotal' = evictionsTotal
      BY <1>0, <1>7, <2>1 DEF CountEviction, StateOK, TypeOK
    <2> QED
      BY <1>1, <2>1, <2>2
  <1>8. ASSUME NEW p \in Pods, ObservedEvict(p) PROVE CountOK'
    BY <1>5, <1>6, <1>7, <1>8 DEF ObservedEvict, Evict
  <1>9. CASE ObservedUpdateStatus
    BY <1>1, <1>9 DEF ObservedUpdateStatus, UpdateStatus
  <1>10. CASE ObservedTick
    BY <1>1, <1>10 DEF ObservedTick, Tick
  <1>11. CASE ObservedRestart
    <2>1. Restart /\ NewRecorder
      BY <1>11 DEF ObservedRestart
    <2>2. evictions' = evictions /\ evictionsTotal' = [ns \in Namespaces |-> 0]
      BY <2>1 DEF Restart, NewRecorder
    <2>3. \A ns : AcknowledgedIn(ns)' = {}
      BY <1>0, <2>1, AcknowledgedForgotten
    <2> QED
      BY <2>2, <2>3, FS_EmptySet DEF CountOK, CounterTypes, IdsInOrder, EvictionsCounted
  <1>12. CASE UNCHANGED observedVars
    BY <1>1, <1>12 DEF observedVars, vars
  <1> QED
    BY <1>2, <1>3, <1>4, <1>8, <1>9, <1>10, <1>11, <1>12 DEF ObservedNext

(***************************************************************************)
(* rebalancer_evictions_total counts exactly the evictions the running     *)
(* process got acknowledged (RecordEviction in Reconcile's loop), whatever *)
(* plans were given up half way and whatever answers were lost.            *)
(***************************************************************************)
THEOREM CounterIsExact == ObservedSpec => []EvictionsCounted
  <1>1. ObservedInit => CountOK
    <2> SUFFICES ASSUME ObservedInit PROVE CountOK
      OBVIOUS
    <2>1. evictions = {} /\ evictionsTotal = [ns \in Namespaces |-> 0]
      BY DEF ObservedInit, Init
    <2>2. \A ns : AcknowledgedIn(ns) = {}
      BY <2>1 DEF AcknowledgedIn, Acknowledged
    <2> QED
      BY <2>1, <2>2, FS_EmptySet DEF CountOK, CounterTypes, IdsInOrder, EvictionsCounted
  <1>2. CountOK => EvictionsCounted
    BY DEF CountOK
  <1> QED
    BY <1>1, <1>2, AlwaysLoopOK, NextCountOK, PTL DEF ObservedSpec

-------------------------------------------------------------------------------
(***************************************************************************)
(* The budget gauge.  While a plan is carried out the gauge leaves room    *)
(* for every allowed entry that is still to be tried; otherwise the hour   *)
(* alone bounds it.                                                        *)
(***************************************************************************)
StillToTry(ns) == IF pc = "executing" THEN Cardinality(InNamespace(allowed, ns)) ELSE 0

GaugeLeavesRoom ==
  \A ns \in Namespaces :
    gaugeLimit[ns] > 0 /\ budgetRemaining[ns] # Unset =>
      budgetRemaining[ns] <=
        Positive(gaugeLimit[ns] - Cardinality(Recent(AcknowledgedIn(ns), now))
                   - StillToTry(ns))

GaugeTypes ==
  /\ budgetRemaining \in [Namespaces -> Int]
  /\ gaugeLimit \in [Namespaces -> Int]

GaugeOK == GaugeTypes /\ GaugeLeavesRoom

\* The gauge of a namespace leaves room for what the plan allowed in it.
LEMMA PlanBudgetLeavesRoom ==
  ASSUME LoopOK, NEW ns \in Namespaces
  PROVE  /\ PlanBudget(ns) \in Int
         /\ slos[ns] > 0 =>
              PlanBudget(ns) <= Positive(slos[ns]
                - Cardinality(Recent(AcknowledgedIn(ns), now)) - namespaceCounts[ns])
  <1> DEFINE max == slos[ns]
             counted == Cardinality(Recent(nsHistory[ns], now))
             acked == Cardinality(Recent(AcknowledgedIn(ns), now))
             perPlan == spec.MaxEvictionsPerNamespace
             n == namespaceCounts[ns]
  <1>1. StateOK /\ MemoryCoversEvictions
    BY DEF LoopOK, MemoryOK
  <1>2. max \in Int /\ perPlan \in Nat /\ n \in Nat
    BY <1>1, LimitTypes, SpecTypes DEF StateOK, TypeOK
  <1>3. IsFiniteSet(Recent(nsHistory[ns], now)) /\ counted \in Nat
    BY <1>1, RecentSubset, FS_CardinalityType DEF StateOK, LogOK
  <1>4. acked \in Nat /\ acked <= counted
    BY <1>1, <1>3, HourFinite, ChecksCoverEvictions, FS_Subset
  <1>5. HourRemaining(ns) = Positive(max - counted)
    BY DEF HourRemaining
  <1> HIDE DEF max, counted, acked, perPlan, n
  <1>6. /\ PlanBudget(ns) = LET r == RemainingNamespaceBudget(ns) IN
                              IF r < 0 THEN -1 ELSE Positive(r - n)
        /\ RemainingNamespaceBudget(ns) =
             IF max <= 0 THEN IF perPlan > 0 THEN perPlan ELSE -1
             ELSE IF perPlan > 0 /\ perPlan <= HourRemaining(ns) THEN perPlan ELSE HourRemaining(ns)
    BY DEF PlanBudget, RemainingNamespaceBudget, max, perPlan, n
  <1>7. /\ PlanBudget(ns) \in Int
        /\ max > 0 => PlanBudget(ns) <= Positive(max - acked - n)
    BY <1>2, <1>3, <1>4, <1>5, <1>6 DEF Positive
  <1> QED
    BY <1>7 DEF max, acked, n

\* The gauge of a namespace stays where it is and the room grows.
LEMMA RoomGrows ==
  ASSUME LoopOK, GaugeOK, UNCHANGED <<budgetRemaining, gaugeLimit>>, StateOK',
         \A ns \in Namespaces :
            /\ StillToTry(ns)' \in Nat
            /\ Cardinality(Recent(AcknowledgedIn(ns)', now')) + StillToTry(ns)'
                 <= Cardinality(Recent(AcknowledgedIn(ns), now)) + StillToTry(ns)
  PROVE  GaugeOK'
  <1> SUFFICES ASSUME NEW ns \in Namespaces, gaugeLimit[ns] > 0,
                      budgetRemaining[ns] # Unset
               PROVE  budgetRemaining[ns] <=
                        Positive(gaugeLimit[ns]
                          - Cardinality(Recent(AcknowledgedIn(ns)', now')) - StillToTry(ns)')
    BY DEF GaugeOK, GaugeTypes, GaugeLeavesRoom
  <1> DEFINE max == gaugeLimit[ns]
             before == Cardinality(Recent(AcknowledgedIn(ns), now))
             after == Cardinality(Recent(AcknowledgedIn(ns)', now'))
             todo == StillToTry(ns)
             left == StillToTry(ns)'
             gauge == budgetRemaining[ns]
  <1>1. max \in Int /\ gauge \in Int
    BY DEF GaugeOK, GaugeTypes
  <1>2. before \in Nat /\ todo \in Nat
    BY HourFinite, PodSets DEF LoopOK, StateOK, TypeOK, StillToTry
  <1>3. after \in Nat
    <2>1. AcknowledgedIn(ns)' \subseteq evictions'
      BY DEF AcknowledgedIn, Acknowledged
    <2>2. IsFiniteSet(AcknowledgedIn(ns)')
      BY <2>1, FS_Subset DEF StateOK, LogOK
    <2> QED
      BY <2>2, RecentSubset, FS_CardinalityType
  <1>4. gauge <= Positive(max - before - todo)
    BY DEF GaugeOK, GaugeLeavesRoom
  <1>5. left \in Nat /\ after + left <= before + todo
    OBVIOUS
  <1> HIDE DEF max, before, after, todo, left, gauge
  <1>6. gauge <= Positive(max - after - left)
    BY <1>1, <1>2, <1>3, <1>4, <1>5 DEF Positive
  <1> QED
    BY <1>6 DEF max, after, left, gauge

\* Evicting an allowed pod moves it from what is to be tried to what the hour
\* has seen.
LEMMA EvictOKKeepsRoom ==
  ASSUME LoopOK, NEW p \in Pods, EvictOK(p), NEW ns \in Namespaces
  PROVE  /\ StillToTry(ns)' \in Nat
         /\ Cardinality(Recent(AcknowledgedIn(ns)', now')) + StillToTry(ns)'
              <= Cardinality(Recent(AcknowledgedIn(ns), now)) + StillToTry(ns)
  <1> DEFINE before == Recent(AcknowledgedIn(ns), now)
             after == Recent(AcknowledgedIn(ns)', now)
             e0 == NewEviction(p, TRUE)
             todo == InNamespace(allowed, ns)
             left == InNamespace(allowed \ {p}, ns)
  <1>1. StateOK /\ Trying(p) /\ Accept(p, TRUE)
        /\ UNCHANGED <<now, restarts, pc>> /\ allowed' = allowed \ {p}
    BY DEF EvictOK, LoopOK
  <1>2. StillToTry(ns) = Cardinality(todo) /\ StillToTry(ns)' = Cardinality(left)
    BY <1>1 DEF StillToTry, Trying, InNamespace
  <1>3. IsFiniteSet(before) /\ Cardinality(before) \in Nat
    BY <1>1, HourFinite
  <1>4. IsFiniteSet(todo) /\ Cardinality(todo) \in Nat /\ Cardinality(left) \in Nat
    BY <1>1, PodSets DEF StateOK, TypeOK
  <1>5. CASE ns = NamespaceOf[p]
    <2>1. after \subseteq before \cup {e0}
      BY <1>1, <1>5, AcknowledgedGrows DEF Recent
    <2>2. left = todo \ {p} /\ p \in todo
      BY <1>1, <1>5 DEF InNamespace, Trying
    <2> HIDE DEF e0, before, after, todo, left
    <2>3. IsFiniteSet(before \cup {e0}) /\ Cardinality(before \cup {e0}) <= Cardinality(before) + 1
      <3>1. IsFiniteSet(before \cup {e0})
        BY <1>3, FS_AddElement
      <3>2. Cardinality(before \cup {e0})
              = IF e0 \in before THEN Cardinality(before) ELSE Cardinality(before) + 1
        BY <1>3, FS_AddElement
      <3> QED
        BY <1>3, <3>1, <3>2
    <2>4. Cardinality(after) <= Cardinality(before \cup {e0}) /\ Cardinality(after) \in Nat
          /\ Cardinality(before \cup {e0}) \in Nat
      BY <2>1, <2>3, FS_Subset, FS_CardinalityType
    <2>5. Cardinality(left) = Cardinality(todo) - 1
      BY <1>4, <2>2, FS_RemoveElement
    <2>6. Cardinality(after) + Cardinality(left) <= Cardinality(before) + Cardinality(todo)
      BY <1>3, <1>4, <2>3, <2>4, <2>5
    <2> QED
      BY <1>1, <1>2, <1>4, <2>6 DEF after, before
  <1>6. CASE ns # NamespaceOf[p]
    <2>1. after = before
      BY <1>1, <1>6, AcknowledgedGrows
    <2>2. left = todo
      BY <1>6 DEF InNamespace
    <2> QED
      BY <1>1, <1>2, <1>3, <1>4, <2>1, <2>2
  <1> QED
    BY <1>5, <1>6

LEMMA NextGaugeOK == LoopOK /\ LoopOK' /\ GaugeOK /\ [ObservedNext]_observedVars => GaugeOK'
  <1> SUFFICES ASSUME LoopOK, LoopOK', GaugeOK, [ObservedNext]_observedVars PROVE GaugeOK'
    OBVIOUS
  <1> USE DEF memory, planning, metrics
  <1>0. StateOK /\ StateOK' /\ TypeOK /\ TypeOK'
    BY DEF LoopOK, StateOK
  \* What every step but an acknowledged eviction, the end of a plan and a restart is.
  <1>1. ASSUME now' \in {now, now + 1}, UNCHANGED <<budgetRemaining, gaugeLimit>>,
               \A ns : AcknowledgedIn(ns)' = AcknowledgedIn(ns),
               pc' = "executing" => pc = "executing" /\ allowed' \subseteq allowed
        PROVE  GaugeOK'
    <2>1. ASSUME NEW ns \in Namespaces
          PROVE  /\ StillToTry(ns)' \in Nat
                 /\ Cardinality(Recent(AcknowledgedIn(ns)', now')) + StillToTry(ns)'
                      <= Cardinality(Recent(AcknowledgedIn(ns), now)) + StillToTry(ns)
      <3>1. StillToTry(ns) \in Nat /\ StillToTry(ns)' \in Nat
        BY <1>0, PodSets DEF StillToTry, TypeOK, InNamespace
      <3>2. StillToTry(ns)' <= StillToTry(ns)
        <4>1. CASE pc' = "executing"
          <5>1. Cardinality(InNamespace(allowed', ns)) <= Cardinality(InNamespace(allowed, ns))
            BY <1>0, <1>1, <4>1, FewerPods DEF TypeOK
          <5> QED
            BY <1>1, <4>1, <5>1 DEF StillToTry, InNamespace
        <4>2. CASE pc' # "executing"
          BY <3>1, <4>2 DEF StillToTry
        <4> QED
          BY <4>1, <4>2
      <3>3. /\ Cardinality(Recent(AcknowledgedIn(ns)', now')) \in Nat
            /\ Cardinality(Recent(AcknowledgedIn(ns)', now')) <= Cardinality(Recent(AcknowledgedIn(ns), now))
        <4>1. AcknowledgedIn(ns) \in SUBSET Eviction /\ now \in Nat
          BY <1>0 DEF TypeOK, AcknowledgedIn, Acknowledged
        <4>2. Recent(AcknowledgedIn(ns), now') \subseteq Recent(AcknowledgedIn(ns), now)
          BY <1>1, <4>1, WindowMoves
        <4>3. IsFiniteSet(Recent(AcknowledgedIn(ns), now)) /\ IsFiniteSet(Recent(AcknowledgedIn(ns), now'))
          BY <1>0, HourFinite
        <4> QED
          BY <1>1, <4>2, <4>3, FS_Subset, FS_CardinalityType
      <3>4. Cardinality(Recent(AcknowledgedIn(ns), now)) \in Nat
        BY <1>0, HourFinite
      <3> QED
        BY <3>1, <3>2, <3>3, <3>4
    <2> QED
      BY <1>0, <1>1, <2>1, RoomGrows
  <1>2. CASE ObservedSnapshot
    BY <1>1, <1>2, AcknowledgedSame DEF ObservedSnapshot, Snapshot
  <1>3. ASSUME NEW p \in Pods, ObservedBudgetEntry(p) PROVE GaugeOK'
    BY <1>1, <1>3, AcknowledgedSame DEF ObservedBudgetEntry, BudgetEntry
  <1>4. CASE ObservedFinishPlan
    <2>1. FinishPlan /\ RecordBudgets
      BY <1>4 DEF ObservedFinishPlan
    <2>2. /\ pc = "budgeting" /\ UNCHANGED <<now, evictions, restarts>>
          /\ pc' = "executing" => allowed' = allowed
          /\ \A ns : AcknowledgedIn(ns)' = AcknowledgedIn(ns)
      BY <2>1, AcknowledgedSame DEF FinishPlan, Idle
    <2>3. \A ns \in Namespaces :
            /\ budgetRemaining'[ns] = IF namespaceCounts[ns] > 0 THEN PlanBudget(ns) ELSE budgetRemaining[ns]
            /\ gaugeLimit'[ns] = IF namespaceCounts[ns] > 0 THEN slos[ns] ELSE gaugeLimit[ns]
      BY <2>1 DEF RecordBudgets
    <2>4. GaugeTypes'
      <3>1. \A ns \in Namespaces : /\ PlanBudget(ns) \in Int /\ budgetRemaining[ns] \in Int
                                   /\ slos[ns] \in Int /\ gaugeLimit[ns] \in Int
        BY <1>0, PlanBudgetLeavesRoom, LimitTypes DEF GaugeOK, GaugeTypes, TypeOK
      <3> QED
        BY <2>1, <3>1 DEF RecordBudgets, GaugeTypes
    <2>5. ASSUME NEW ns \in Namespaces, gaugeLimit'[ns] > 0, budgetRemaining'[ns] # Unset
          PROVE  budgetRemaining'[ns] <=
                   Positive(gaugeLimit'[ns]
                     - Cardinality(Recent(AcknowledgedIn(ns)', now')) - StillToTry(ns)')
      <3> DEFINE max == gaugeLimit'[ns]
                 acked == Cardinality(Recent(AcknowledgedIn(ns), now))
                 n == namespaceCounts[ns]
                 left == StillToTry(ns)'
      <3>1. max \in Int /\ acked \in Nat /\ n \in Nat
        BY <1>0, <2>4, HourFinite DEF GaugeTypes, TypeOK
      <3>2. left \in Nat /\ left <= n
        <4>1. InNamespace(allowed, ns) \subseteq InNamespace(disrupted \cup allowed, ns)
          BY DEF InNamespace
        <4>2. disrupted \cup allowed \in SUBSET Pods
          BY <1>0 DEF TypeOK
        <4>3. Cardinality(InNamespace(disrupted \cup allowed, ns)) <= n
          BY <2>2 DEF LoopOK, PlanOK, LimitsAccounted
        <4>4. /\ Cardinality(InNamespace(allowed, ns)) \in Nat
              /\ Cardinality(InNamespace(allowed, ns)) <= Cardinality(InNamespace(disrupted \cup allowed, ns))
              /\ Cardinality(InNamespace(disrupted \cup allowed, ns)) \in Nat
          BY <4>2, PodSets, FewerPods
        <4>5. left = IF pc' = "executing" THEN Cardinality(InNamespace(allowed, ns)) ELSE 0
          BY <2>2 DEF StillToTry, InNamespace
        <4> QED
          BY <3>1, <4>3, <4>4, <4>5
      <3>3. Recent(AcknowledgedIn(ns)', now') = Recent(AcknowledgedIn(ns), now)
        BY <2>2
      <3>4. CASE n > 0
        <4>0. gaugeLimit'[ns] = slos[ns]
          BY <2>3, <3>4
        <4>1. budgetRemaining'[ns] \in Int /\ budgetRemaining'[ns] <= Positive(max - acked - n)
          BY <2>3, <2>5, <3>4, <4>0, PlanBudgetLeavesRoom
        <4> HIDE DEF max, acked, n, left
        <4>2. budgetRemaining'[ns] <= Positive(max - acked - left)
          BY <3>1, <3>2, <4>1 DEF Positive
        <4> QED
          BY <3>3, <4>2 DEF max, acked, left
      <3>5. CASE n = 0
        <4>1. budgetRemaining'[ns] = budgetRemaining[ns] /\ max = gaugeLimit[ns] /\ left = 0
          BY <2>3, <3>1, <3>2, <3>5
        <4>2. StillToTry(ns) = 0
          BY <2>2 DEF StillToTry
        <4>3. budgetRemaining[ns] <= Positive(max - acked - StillToTry(ns))
          BY <2>5, <4>1 DEF GaugeOK, GaugeLeavesRoom
        <4> QED
          BY <3>3, <4>1, <4>2, <4>3
      <3> QED
        BY <3>1, <3>4, <3>5
    <2> QED
      BY <2>4, <2>5 DEF GaugeOK, GaugeLeavesRoom
  <1>5. ASSUME NEW p \in Pods, ObservedEvict(p) PROVE GaugeOK'
    <2>1. Evict(p) /\ UNCHANGED <<budgetRemaining, gaugeLimit>>
      BY <1>5 DEF ObservedEvict
    <2>2. CASE EvictOK(p)
      BY <1>0, <2>1, <2>2, EvictOKKeepsRoom, RoomGrows
    <2>3. CASE EvictReplyLost(p)
      BY <1>1, <2>1, <2>3, AcknowledgedLost DEF EvictReplyLost
    <2>4. CASE EvictFailed(p)
      BY <1>1, <2>1, <2>4, AcknowledgedSame DEF EvictFailed
    <2>5. CASE EvictTooManyRequests(p)
      BY <1>1, <2>1, <2>5, AcknowledgedSame DEF EvictTooManyRequests, Idle
    <2> QED
      BY <2>1, <2>2, <2>3, <2>4, <2>5 DEF Evict
  <1>6. CASE ObservedUpdateStatus
    BY <1>1, <1>6, AcknowledgedSame DEF ObservedUpdateStatus, UpdateStatus, Idle
  <1>7. CASE ObservedTick
    BY <1>1, <1>7, AcknowledgedSame DEF ObservedTick, Tick
  <1>8. CASE ObservedRestart
    BY <1>8 DEF ObservedRestart, NewRecorder, GaugeOK, GaugeTypes, GaugeLeavesRoom, Unset, NoCounts
  <1>9. CASE UNCHANGED observedVars
    BY <1>1, <1>9, AcknowledgedSame DEF observedVars, vars
  <1> QED
    BY <1>2, <1>3, <1>4, <1>5, <1>6, <1>7, <1>8, <1>9 DEF ObservedNext

(***************************************************************************)
(* rebalancer_budget_remaining never promises more than the hour has left  *)
(* of the limit it was set under, whatever part of the plan that set it is *)
(* carried out, whatever time passes and whatever limits and policies the  *)
(* plans after it read (Plan.Budgets, RecordBudget).                       *)
(***************************************************************************)
THEOREM GaugeHolds == ObservedSpec => []GaugeIsSafe
  <1>1. ObservedInit => GaugeOK
    BY DEF ObservedInit, GaugeOK, GaugeTypes, GaugeLeavesRoom, Unset, NoCounts
  <1>2. LoopOK /\ GaugeOK => GaugeIsSafe
    <2> SUFFICES ASSUME LoopOK, GaugeOK, NEW ns \in Namespaces, gaugeLimit[ns] > 0,
                        budgetRemaining[ns] # Unset
                 PROVE  budgetRemaining[ns] <=
                          Positive(gaugeLimit[ns] - Cardinality(Recent(AcknowledgedIn(ns), now)))
      BY DEF GaugeIsSafe
    <2> DEFINE max == gaugeLimit[ns]
               acked == Cardinality(Recent(AcknowledgedIn(ns), now))
               todo == StillToTry(ns)
    <2>1. max \in Int /\ acked \in Nat /\ todo \in Nat /\ budgetRemaining[ns] \in Int
      BY HourFinite, PodSets
      DEF LoopOK, StateOK, TypeOK, StillToTry, GaugeOK, GaugeTypes
    <2>2. budgetRemaining[ns] <= Positive(max - acked - todo)
      BY DEF GaugeOK, GaugeLeavesRoom
    <2> HIDE DEF max, acked, todo
    <2>3. budgetRemaining[ns] <= Positive(max - acked)
      BY <2>1, <2>2 DEF Positive
    <2> QED
      BY <2>3 DEF max, acked
  <1> QED
    BY <1>1, <1>2, AlwaysLoopOK, NextGaugeOK, PTL DEF ObservedSpec

=============================================================================
