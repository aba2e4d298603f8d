------------------------ MODULE NodeTemperatureProofs ------------------------
(***************************************************************************)
(* Proofs about NodeTemperature for every set of nodes, every load, and    *)
(* every list of policies, whatever thresholds, hysteresis and weights.    *)
(***************************************************************************)
EXTENDS NodeTemperature, SequenceTheorems, TLAPS

Share == [cpu : Nat, memory : Nat]

-------------------------------------------------------------------------------
(***************************************************************************)
(* Arithmetic of the weighted share.                                       *)
(***************************************************************************)
LEMMA TimesNat ==
  ASSUME NEW a \in Nat, NEW b \in Nat
  PROVE  a * b \in Nat
  OBVIOUS

LEMMA TimesMonotonic ==
  ASSUME NEW a \in Nat, NEW b \in Nat, NEW w \in Nat, a <= b
  PROVE  a * w <= b * w
  <1>1. (b - a) * w >= 0
    OBVIOUS
  <1>2. (b - a) * w = b * w - a * w
    OBVIOUS
  <1> QED
    BY <1>1, <1>2

\* Without weights the defaults are taken; taking them twice changes nothing.
LEMMA WeightsType ==
  ASSUME NEW w \in Share
  PROVE  Weights(w) \in Share /\ Weights(Weights(w)) = Weights(w)
  BY DEF Weights, Share

LEMMA WeightedType ==
  ASSUME NEW share \in Share, NEW s, s.weights \in Share
  PROVE  Weighted(share, s) \in Nat
  <1> DEFINE w == Weights(s.weights)
  <1>1. w.cpu \in Nat /\ w.memory \in Nat /\ share.cpu \in Nat /\ share.memory \in Nat
    BY WeightsType DEF Share
  <1> HIDE DEF w
  <1>2. share.cpu * w.cpu + share.memory * w.memory \in Nat
    BY <1>1, TimesNat
  <1> QED
    BY <1>2 DEF Weighted, w

\* A node that used nothing weighs nothing.
LEMMA NothingWeighsNothing ==
  ASSUME NEW s, s.weights \in Share
  PROVE  NoUsage \in Share /\ Weighted(NoUsage, s) = 0
  <1> DEFINE w == Weights(s.weights)
  <1>1. w.cpu \in Nat /\ w.memory \in Nat
    BY WeightsType DEF Share
  <1>2. NoUsage.cpu = 0 /\ NoUsage.memory = 0 /\ NoUsage \in Share
    BY DEF NoUsage, Share
  <1> HIDE DEF w
  <1>3. 0 * w.cpu + 0 * w.memory = 0
    BY <1>1
  <1> QED
    BY <1>2, <1>3 DEF Weighted, w

\* More of both resources weighs more, by the same weights.
LEMMA WeightedMonotonic ==
  ASSUME NEW small \in Share, NEW large \in Share,
         small.cpu <= large.cpu, small.memory <= large.memory,
         NEW s, NEW t, s.weights \in Share, t.weights \in Share,
         Weights(s.weights) = Weights(t.weights)
  PROVE  Weighted(small, s) <= Weighted(large, t)
  <1> DEFINE w == Weights(s.weights)
  <1>1. w.cpu \in Nat /\ w.memory \in Nat
    BY WeightsType DEF Share
  <1>2. /\ small.cpu \in Nat /\ small.memory \in Nat
        /\ large.cpu \in Nat /\ large.memory \in Nat
    BY DEF Share
  <1>3. /\ Weighted(small, s) = small.cpu * w.cpu + small.memory * w.memory
        /\ Weighted(large, t) = large.cpu * w.cpu + large.memory * w.memory
    BY DEF Weighted
  <1> HIDE DEF w
  <1>4. /\ small.cpu * w.cpu <= large.cpu * w.cpu
        /\ small.memory * w.memory <= large.memory * w.memory
        /\ small.cpu * w.cpu \in Nat /\ large.cpu * w.cpu \in Nat
        /\ small.memory * w.memory \in Nat /\ large.memory * w.memory \in Nat
    BY <1>1, <1>2, TimesMonotonic, TimesNat
  <1> QED
    BY <1>3, <1>4

\* When classifyNodes says hot, and what it means that it says cold.
LEMMA ClassifyHot ==
  ASSUME NEW share \in Share, NEW s \in PolicySpec
  PROVE  /\ Classify(share, s) = "hot" <=> Weighted(share, s) >= s.hotThreshold - s.hysteresis
         /\ Classify(share, s) = "cold" =>
              /\ Weighted(share, s) < s.hotThreshold - s.hysteresis
              /\ Weighted(share, s) <= s.coldThreshold + s.hysteresis
  <1>1. s.hotThreshold \in Nat /\ s.coldThreshold \in Nat /\ s.hysteresis \in Nat /\ s.weights \in Share
    BY DEF PolicySpec, Share
  <1>2. Weighted(share, s) \in Nat
    BY <1>1, WeightedType
  <1> QED
    BY <1>1, <1>2 DEF Classify

\* What the dashboard calls hot the planner calls hot: its defaults raise the
\* threshold, its clamp lowers the share, and it takes no hysteresis off.
LEMMA SummarisedHotIsHot ==
  ASSUME NEW share \in Share, NEW s \in PolicySpec,
         SummariseNode(share, SetDefaultPolicyValues(s)) = "hot"
  PROVE  Classify(share, s) = "hot"
  <1> DEFINE d == SetDefaultPolicyValues(s)
             clamped == Clamp(share)
  <1>1. s.hotThreshold \in Nat /\ s.hysteresis \in Nat /\ s.weights \in Share
    BY DEF PolicySpec, Share
  <1>2. /\ d.hotThreshold \in Nat /\ d.hotThreshold >= s.hotThreshold
        /\ d.weights = Weights(s.weights)
    BY <1>1 DEF SetDefaultPolicyValues
  <1>3. d.weights \in Share /\ Weights(d.weights) = Weights(s.weights)
    BY <1>1, <1>2, WeightsType
  <1>4. clamped \in Share /\ clamped.cpu <= share.cpu /\ clamped.memory <= share.memory
    BY DEF Clamp, Share
  <1> HIDE DEF d, clamped
  <1>5. Weighted(clamped, d) >= d.hotThreshold
    <2>1. SummariseNode(share, d) = "hot"
      BY DEF d
    <2> QED
      BY <2>1 DEF SummariseNode, clamped
  <1>6. Weighted(clamped, d) <= Weighted(share, s)
    BY <1>1, <1>3, <1>4, WeightedMonotonic
  <1>7. Weighted(clamped, d) \in Nat /\ Weighted(share, s) \in Nat
    BY <1>1, <1>3, <1>4, WeightedType
  <1>8. Weighted(share, s) >= s.hotThreshold - s.hysteresis
    BY <1>1, <1>2, <1>5, <1>6, <1>7
  <1> QED
    BY <1>8, ClassifyHot

-------------------------------------------------------------------------------
(***************************************************************************)
(* First layer: the cluster, and what a call for metrics may return.       *)
(***************************************************************************)
ClusterOK ==
  /\ nodes \subseteq Nodes
  /\ load \in [Nodes -> Share]
  /\ reported \subseteq Nodes
  /\ policies \in PolicyLists

\* What the metrics server answers.
Answer == IF server = "up" THEN Listed ELSE <<>>

LEMMA NoAnswer == DOMAIN <<>> = {}
  OBVIOUS

\* A custom query adds nothing to what the metrics server measured.
LEMMA CollectedIsAnswered ==
  ASSUME ClusterOK, NEW result \in CollectNodeMetrics, NEW n
  PROVE  /\ UsageOf(result, n) = UsageOf(Answer, n)
         /\ UsageOf(result, n) \in Share
  <1>1. PICK S : result = [m \in DOMAIN Answer \cup S |-> UsageOf(Answer, m)]
    BY DEF CollectNodeMetrics, Answer
  <1>2. UsageOf(result, n) = UsageOf(Answer, n)
    BY <1>1 DEF UsageOf
  <1>3. NoUsage \in Share
    BY DEF NoUsage, Share
  <1>4. UsageOf(Answer, n) \in Share
    <2>1. CASE server = "up"
      BY <1>3, <2>1 DEF Answer, UsageOf, Listed, ClusterOK
    <2>2. CASE server # "up"
      BY <1>3, <2>2, NoAnswer DEF Answer, UsageOf
    <2> QED
      BY <2>1, <2>2
  <1> QED
    BY <1>2, <1>4

LEMMA PolicyType ==
  ASSUME ClusterOK
  PROVE  /\ policies \in Seq(PolicySpec)
         /\ \A i \in DOMAIN policies : policies[i] \in PolicySpec
         /\ policies # <<>> => Head(policies) \in PolicySpec
  <1>1. policies \in Seq(PolicySpec)
    BY TemperatureAssumption DEF ClusterOK
  <1> QED
    BY <1>1, ElementOfSeq, LenProperties, HeadTailProperties

LEMMA NextClusterOK == ClusterOK /\ [Next]_vars => ClusterOK'
  <1> SUFFICES ASSUME ClusterOK, [Next]_vars PROVE ClusterOK'
    OBVIOUS
  <1> USE DEF ClusterOK
  <1>1. CASE UNCHANGED cluster
    BY <1>1 DEF cluster
  <1>2. CASE ChangeLoad
    BY <1>2, TemperatureAssumption DEF ChangeLoad, Share
  <1>3. CASE ChangeNodes
    BY <1>3 DEF ChangeNodes
  <1>4. CASE ChangeMetricsServer
    BY <1>4 DEF ChangeMetricsServer
  <1>5. CASE ChangePolicies
    BY <1>5 DEF ChangePolicies
  <1>6. CASE \/ SnapshotMetrics \/ SnapshotNodes \/ SnapshotFails
             \/ DataNodes \/ DataRespond \/ DataError \/ UNCHANGED vars
    BY <1>1, <1>6 DEF SnapshotMetrics, SnapshotNodes, SnapshotFails, DataNodes, DataRespond,
                      DataError, vars
  <1> QED
    BY <1>2, <1>3, <1>4, <1>5, <1>6 DEF Next

-------------------------------------------------------------------------------
(***************************************************************************)
(* Second layer: the planner.  What it collected is what the metrics       *)
(* server answered to this very call, and every class it keeps is the one  *)
(* classifyNodes gave to the share the gauges show.                        *)
(***************************************************************************)
CollectedOK ==
  pc = "collected" =>
    /\ spec \in PolicySpec
    /\ \A n \in Nodes : UsageOf(usages, n) = UsageOf(answered, n) /\ UsageOf(usages, n) \in Share

ClassOK ==
  /\ DOMAIN class = Nodes
  /\ \A n \in Nodes :
       class[n] # <<>> =>
         /\ class[n].share \in Share
         /\ class[n].by \in PolicySpec
         /\ class[n].is = Classify(class[n].share, class[n].by)

PlannerOK == CollectedOK /\ ClassOK

LEMMA NextPlannerOK == ClusterOK /\ PlannerOK /\ [Next]_vars => PlannerOK'
  <1> SUFFICES ASSUME ClusterOK, PlannerOK, [Next]_vars PROVE PlannerOK'
    OBVIOUS
  <1>1. CASE UNCHANGED planner
    BY <1>1 DEF planner, PlannerOK, CollectedOK, ClassOK
  <1>2. CASE SnapshotMetrics
    <2>1. /\ usages' \in CollectNodeMetrics /\ answered' = Answer /\ class' = class
          /\ spec' \in PolicySpec
      BY <1>2, PolicyType DEF SnapshotMetrics, Answer
    <2>2. \A n \in Nodes : UsageOf(usages', n) = UsageOf(answered', n) /\ UsageOf(usages', n) \in Share
      BY <2>1, CollectedIsAnswered
    <2> QED
      BY <2>1, <2>2 DEF PlannerOK, CollectedOK, ClassOK, UsageOf
  <1>3. CASE SnapshotNodes
    <2>1. pc = "collected" /\ pc' = "idle"
      BY <1>3 DEF SnapshotNodes
    <2>2. spec \in PolicySpec /\ \A n \in Nodes : UsageOf(usages, n) \in Share
      BY <2>1 DEF PlannerOK, CollectedOK
    <2>3. DOMAIN class' = Nodes
      BY <1>3 DEF SnapshotNodes
    <2>4. ASSUME NEW n \in Nodes, class'[n] # <<>>
          PROVE  /\ class'[n].share \in Share
                 /\ class'[n].by \in PolicySpec
                 /\ class'[n].is = Classify(class'[n].share, class'[n].by)
      <3>1. CASE n \in nodes
        <4>1. class'[n] = [is |-> Classify(UsageOf(usages, n), spec),
                           share |-> UsageOf(usages, n), by |-> spec]
          BY <1>3, <3>1 DEF SnapshotNodes
        <4> QED
          BY <2>2, <4>1
      <3>2. CASE n \notin nodes
        <4>1. class'[n] = class[n]
          BY <1>3, <3>2 DEF SnapshotNodes
        <4> QED
          BY <2>4, <4>1 DEF PlannerOK, ClassOK
      <3> QED
        BY <3>1, <3>2
    <2>5. ClassOK'
      BY <2>3, <2>4 DEF ClassOK, Classify, Weighted, Weights
    <2> QED
      BY <2>1, <2>5 DEF PlannerOK, CollectedOK
  <1>4. CASE SnapshotFails
    BY <1>4 DEF SnapshotFails, PlannerOK, CollectedOK, ClassOK
  <1>5. CASE \/ ChangeLoad \/ ChangeNodes \/ ChangeMetricsServer \/ ChangePolicies
             \/ DataNodes \/ DataRespond \/ DataError \/ UNCHANGED vars
    BY <1>1, <1>5 DEF ChangeLoad, ChangeNodes, ChangeMetricsServer, ChangePolicies, Event,
                      DataNodes, DataRespond, DataError, vars
  <1> QED
    BY <1>2, <1>3, <1>4, <1>5 DEF Next

TemperatureOK == ClusterOK /\ PlannerOK

LEMMA AlwaysTemperatureOK == Spec => []TemperatureOK
  <1>1. Init => TemperatureOK
    <2> SUFFICES ASSUME Init PROVE TemperatureOK
      OBVIOUS
    <2>1. load \in [Nodes -> Share]
      BY TemperatureAssumption DEF Init, Share
    <2> QED
      BY <2>1 DEF Init, TemperatureOK, ClusterOK, PlannerOK, CollectedOK, ClassOK
  <1>2. TemperatureOK /\ [Next]_vars => TemperatureOK'
    BY NextClusterOK, NextPlannerOK DEF TemperatureOK
  <1> QED
    BY <1>1, <1>2, PTL DEF Spec

\* What a step that classifies a node knows of it.
LEMMA ClassifiedFacts ==
  ASSUME TemperatureOK, SnapshotNodes, NEW n \in nodes
  PROVE  /\ n \in Nodes /\ pc = "collected" /\ spec \in PolicySpec
         /\ UsageOf(usages, n) = UsageOf(answered, n) /\ UsageOf(usages, n) \in Share
         /\ class'[n].is = Classify(UsageOf(usages, n), spec)
         /\ class'[n].share = UsageOf(usages, n)
         /\ class'[n].by = spec
  <1>1. n \in nodes /\ pc = "collected"
    BY DEF SnapshotNodes
  <1>3. n \in Nodes
    BY <1>1 DEF TemperatureOK, ClusterOK
  <1>4. class'[n] = [is |-> Classify(UsageOf(usages, n), spec),
                     share |-> UsageOf(usages, n), by |-> spec]
    BY <1>1, <1>3 DEF SnapshotNodes
  <1>5. spec \in PolicySpec /\ UsageOf(usages, n) = UsageOf(answered, n) /\ UsageOf(usages, n) \in Share
    BY <1>1, <1>3 DEF TemperatureOK, PlannerOK, CollectedOK
  <1> QED
    BY <1>1, <1>3, <1>4, <1>5

(***************************************************************************)
(* A node is hot only by a measurement of the metrics server in this very  *)
(* reconcile, as long as the hysteresis is below the hot threshold: no     *)
(* outage, no missing node and no custom query makes one hot               *)
(* (CollectNodeMetrics, Snapshot, classifyNodes).                          *)
(***************************************************************************)
THEOREM HotNodesAreMeasured == Spec => HotIsMeasured
  <1> DEFINE Measured == SnapshotNodes => \A n \in nodes :
               class'[n].is = "hot" /\ spec.hotThreshold > spec.hysteresis =>
                 /\ n \in DOMAIN answered
                 /\ Weighted(answered[n], spec) >= spec.hotThreshold - spec.hysteresis
  <1>1. TemperatureOK /\ [Next]_vars => [Measured]_vars
    <2> SUFFICES ASSUME TemperatureOK, SnapshotNodes, NEW n \in nodes,
                        class'[n].is = "hot", spec.hotThreshold > spec.hysteresis
                 PROVE  /\ n \in DOMAIN answered
                        /\ Weighted(answered[n], spec) >= spec.hotThreshold - spec.hysteresis
      OBVIOUS
    <2> DEFINE usage == UsageOf(answered, n)
    <2>1. spec \in PolicySpec /\ usage \in Share /\ Classify(usage, spec) = "hot"
      BY ClassifiedFacts
    <2>2. Weighted(usage, spec) >= spec.hotThreshold - spec.hysteresis
      BY <2>1, ClassifyHot
    <2>3. spec.hotThreshold \in Nat /\ spec.hysteresis \in Nat /\ spec.weights \in Share
      BY <2>1 DEF PolicySpec, Share
    <2>4. n \in DOMAIN answered
      <3> SUFFICES ASSUME n \notin DOMAIN answered PROVE FALSE
        OBVIOUS
      <3>1. usage = NoUsage
        BY DEF UsageOf
      <3>2. Weighted(usage, spec) = 0
        BY <2>3, <3>1, NothingWeighsNothing
      <3> QED
        BY <2>2, <2>3, <3>2
    <2>5. usage = answered[n]
      BY <2>4 DEF UsageOf
    <2> QED
      BY <2>2, <2>4, <2>5
  <1> QED
    BY <1>1, AlwaysTemperatureOK, PTL DEF Spec, HotIsMeasured

-------------------------------------------------------------------------------
(***************************************************************************)
(* The dashboard never overstates: a node it shows as hot is hot for the   *)
(* planner, given the same metrics and the policy the page took, whatever  *)
(* that policy leaves at zero and however far a share is beyond capacity   *)
(* (summariseNode, setDefaultPolicyValues and clamp against                *)
(* classifyNodes).                                                         *)
(***************************************************************************)
THEOREM DashboardNeverOverstates == Spec => []ShownHotIsHot
  <1>1. Init => ShownHotIsHot
    BY NoAnswer DEF Init, ShownHotIsHot
  <1>2. TemperatureOK /\ ShownHotIsHot /\ [Next]_vars => ShownHotIsHot'
    <2> SUFFICES ASSUME TemperatureOK, ShownHotIsHot, [Next]_vars PROVE ShownHotIsHot'
      OBVIOUS
    <2>1. CASE shown' = shown
      BY <2>1 DEF ShownHotIsHot
    <2>2. CASE DataNodes
      BY <2>2, NoAnswer DEF DataNodes, ShownHotIsHot
    <2>3. CASE DataRespond
      <3>1. PICK result \in CollectNodeMetrics :
              shown' = [n \in page.listed |->
                          [share |-> UsageOf(result, n), policies |-> policies,
                           is |-> SummariseNode(UsageOf(result, n), SpecForClassification)]]
        BY <2>3 DEF DataRespond
      <3> SUFFICES ASSUME NEW n \in DOMAIN shown', shown'[n].is = "hot", shown'[n].policies # <<>>
                   PROVE  Classify(shown'[n].share, Head(shown'[n].policies)) = "hot"
        BY DEF ShownHotIsHot, Classify, Weighted, Weights
      <3>2. shown'[n] = [share |-> UsageOf(result, n), policies |-> policies,
                         is |-> SummariseNode(UsageOf(result, n), SpecForClassification)]
        BY <3>1
      <3>3. /\ shown'[n].share = UsageOf(result, n) /\ shown'[n].policies = policies
            /\ SummariseNode(UsageOf(result, n), SpecForClassification) = "hot"
            /\ policies # <<>>
        BY <3>2
      <3>4. Head(policies) \in PolicySpec /\ UsageOf(result, n) \in Share
        BY <3>3, PolicyType, CollectedIsAnswered DEF TemperatureOK
      <3>5. SpecForClassification = SetDefaultPolicyValues(Head(policies))
        BY <3>3 DEF SpecForClassification
      <3> QED
        BY <3>3, <3>4, <3>5, SummarisedHotIsHot
    <2>4. \/ DataNodes \/ DataRespond \/ shown' = shown
      BY DEF Next, ChangeLoad, ChangeNodes, ChangeMetricsServer, ChangePolicies, Event,
             SnapshotMetrics, SnapshotNodes, SnapshotFails, DataError, vars, dashboard
    <2> QED
      BY <2>1, <2>2, <2>3, <2>4
  <1> QED
    BY <1>1, <1>2, AlwaysTemperatureOK, PTL DEF Spec
=============================================================================
