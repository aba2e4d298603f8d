---------------------------- MODULE MCGreedyPlan ----------------------------
(* Four nodes and four pods, two on n1 and two on n2; one unit of a        *)
(* resource is an eighth of a large node.                                  *)
EXTENDS GreedyPlan

CONSTANTS n1, n2, n3, n4, p1, p2, p3, p4, arm

Resource(cpu, mem) == [cpu |-> cpu, mem |-> mem]

\* All alike; or n3 half the size and n4 without a memory report.
AlikeNodes == [n \in {n1, n2, n3, n4} |-> Resource(8, 8)]
MixedNodes ==
  [n \in {n1, n2, n3, n4} |->
     IF n = n3 THEN Resource(4, 4) ELSE IF n = n4 THEN Resource(8, 0) ELSE Resource(8, 8)]

Measured(large, third, fourth) ==
  {(n1 :> a) @@ (n2 :> b) @@ (n3 :> c) @@ (n4 :> d) :
     a \in large, b \in large, c \in third, d \in fourth}
Large == {Resource(8, 8), Resource(8, 4), Resource(6, 6), Resource(5, 8)}
AlikeMeasurements ==
  Measured(Large, {Resource(0, 0), Resource(1, 2), Resource(0, 6)}, {Resource(1, 1), Resource(6, 4)})
MixedMeasurements ==
  Measured(Large \cup {Resource(6, 4)}, {Resource(0, 0), Resource(1, 0), Resource(1, 2)}, {Resource(0, 0), Resource(2, 3)})

MCNodeOf == [p \in {p1, p2, p3, p4} |-> IF p \in {p1, p2} THEN n1 ELSE n2]
\* p2 requests no memory; p4 requests more than its node may use.
MCRequests ==
  (p1 :> Resource(1, 1)) @@ (p2 :> Resource(1, 0)) @@ (p3 :> Resource(2, 1)) @@ (p4 :> Resource(4, 4))
MCDefaultRequest == Resource(1, 1)
MCPriority == [p \in {p1, p2, p3, p4} |-> IF p = p2 THEN 1 ELSE 0]
MCFits == [p \in {p1, p2, p3, p4} |-> IF p = p3 THEN {n1, n4} ELSE {n1, n2, n3, n4}]
\* p4 repels p1 and its own kind; n1 and n3 are one zone when zones count.
MCAntiAffinity == [p \in {p1, p2, p3, p4} |-> IF p = p4 THEN {p1, p4} ELSE {}]
NoAffinity == [p \in {p1, p2, p3, p4} |-> {}]
\* p2 wants to be with p1.
MCAffinity == [p \in {p1, p2, p3, p4} |-> IF p = p2 THEN {{p1}} ELSE {}]
ByHostname == [n \in {n1, n2, n3, n4} |-> n]
ByZone == [n \in {n1, n2, n3, n4} |-> IF n = n3 THEN n1 ELSE n]
MCClasses == [n \in {n1, n2, n3, n4} |-> IF n = n3 THEN {arm} ELSE {}]
MCWeights == Resource(7, 3)

AlikeSetting ==
  [Allocatable |-> AlikeNodes, Measurements |-> AlikeMeasurements,
   Affinity |-> NoAffinity, AntiAffinity |-> NoAffinity, Domain |-> ByHostname,
   NodeClassPreference |-> {},
   HotThreshold |-> 60, ColdThreshold |-> 40, Hysteresis |-> 4, TargetVariance |-> 2000]

\* The two bands overlap.
MixedSetting ==
  [Allocatable |-> MixedNodes, Measurements |-> MixedMeasurements,
   Affinity |-> MCAffinity, AntiAffinity |-> MCAntiAffinity, Domain |-> ByZone,
   NodeClassPreference |-> {arm},
   HotThreshold |-> 52, ColdThreshold |-> 48, Hysteresis |-> 8, TargetVariance |-> 200]

MCSettings == {AlikeSetting, MixedSetting}

\* The hypotheses of the theorems about utilizations.
ASSUME InstanceAssumption == WeightsGiven /\ CPUReported
=============================================================================
