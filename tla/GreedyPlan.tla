------------------------------ MODULE GreedyPlan ------------------------------
(***************************************************************************)
(* The planning half of Planner.Plan: classifyNodes, computeVariance and   *)
(* greedyPlan with evaluateCandidate, simulateVariance and applyMove.      *)
(*                                                                         *)
(* A reconcile measures the nodes, marks them hot, cold or ok, then looks  *)
(* at the candidates one by one in priority order.  For each it simulates  *)
(* the move to every cold node the pod may be scheduled on and keeps the   *)
(* move that leaves the least variance, if that is less than now.  The     *)
(* map of utilizations and the nodes' usage are updated by different       *)
(* functions, for every move of the plan, and must agree.                  *)
(*                                                                         *)
(* Abstracted: floating point is exact arithmetic on integers.  A          *)
(* utilization is a number of units of 1/(Scale * 10): Scale is a multiple *)
(* of every allocatable amount and weights are in tenths.  A variance is   *)
(* multiplied by the square of the number of nodes.  What decides which    *)
(* pods are candidates and where they fit is a choice or a constant here.  *)
(***************************************************************************)
EXTENDS Integers, Sequences, SequencesExt

CONSTANTS
  Nodes, Pods,
  NodeOf,               \* where each pod runs
  Requests,             \* per pod: [cpu, mem], 0 when it requests none
  DefaultRequest,       \* what a missing request counts for (0.05 cores, 50 MiB)
  Priority,             \* per pod
  Fits,                 \* per pod: the nodes whose taints, selector and node affinity suit it
  Classes,              \* per node: the NodeClasses it matches
  Weights,              \* the policy's ResourceWeights, as written: [cpu, mem]
  Scale,
  ClassBias,            \* 0.01 of variance
  Settings              \* clusters and policies to plan for

Resources == [cpu : Nat, mem : Nat]

ASSUME ClusterAssumption ==
  /\ IsFiniteSet(Nodes) /\ IsFiniteSet(Pods)
  /\ NodeOf \in [Pods -> Nodes]
  /\ Requests \in [Pods -> Resources]
  /\ Fits \in [Pods -> SUBSET Nodes]
  /\ DefaultRequest \in [cpu : Nat \ {0}, mem : Nat \ {0}]
  /\ Weights \in Resources
  /\ Scale \in Nat
  /\ ClassBias \in Nat
ASSUME SettingsAssumption ==
  \A s \in Settings :
    /\ s.Allocatable \in [Nodes -> Resources]
    /\ s.Measurements \subseteq [Nodes -> Resources]
    /\ s.Affinity \in [Pods -> SUBSET SUBSET Pods]
    /\ s.AntiAffinity \in [Pods -> SUBSET Pods]
    /\ {s.HotThreshold, s.ColdThreshold, s.Hysteresis, s.TargetVariance} \subseteq Nat
    /\ \A n \in Nodes :
         /\ s.Allocatable[n].cpu > 0 => Scale % s.Allocatable[n].cpu = 0
         /\ s.Allocatable[n].mem > 0 => Scale % s.Allocatable[n].mem = 0

VARIABLES
  setting,   \* the cluster and the policy, from Settings
  pc,        \* "measured", "planning", "planned"
  measured,  \* NodeState.Usage as the snapshot read it
  usage,     \* NodeState.Usage, moved along by applyMove
  weighted,  \* NodeState.Utilization.Weighted, as classified
  hot, cold,
  util,      \* greedyPlan's utilizations, replaced by each accepted simulation
  variance,  \* currentVariance
  todo,      \* candidates not yet considered
  plan       \* the entries [pod, to, score], in the code's order

vars == <<setting, pc, measured, usage, weighted, hot, cold, util, variance, todo, plan>>

Allocatable == setting.Allocatable            \* per node: [cpu, mem]
Measurements == setting.Measurements          \* the usages a snapshot may find
Affinity == setting.Affinity                  \* per pod: its terms, each the pods it selects
AntiAffinity == setting.AntiAffinity          \* per pod: the pods its terms select
Domain == setting.Domain                      \* per node: its value of the terms' topology key
NodeClassPreference == setting.NodeClassPreference
HotThreshold == setting.HotThreshold          \* in utilization units
ColdThreshold == setting.ColdThreshold
Hysteresis == setting.Hysteresis
TargetVariance == setting.TargetVariance      \* in variance units

-------------------------------------------------------------------------------
NonNegative(x) == IF x < 0 THEN 0 ELSE x

\* Plan's fallback, when both weights are zero.
DefaultedWeights ==
  IF Weights.cpu = 0 /\ Weights.mem = 0 THEN [cpu |-> 7, mem |-> 3] ELSE Weights

Share(used, allocatable) == IF allocatable > 0 THEN (used * Scale) \div allocatable ELSE 0

Weighted(u, n, weights) ==
  Share(u.cpu, Allocatable[n].cpu) * weights.cpu + Share(u.mem, Allocatable[n].mem) * weights.mem

\* computeVariance, times the square of the number of nodes: n * sum of the
\* squares - square of the sum.
Variance(u) ==
  LET total == SumFunctionOnSet(u, Nodes)
  IN Cardinality(Nodes) * SumFunctionOnSet([n \in Nodes |-> u[n] * u[n]], Nodes) - total * total

\* The requests a move is simulated with.
Demand(p) ==
  [cpu |-> IF Requests[p].cpu = 0 THEN DefaultRequest.cpu ELSE Requests[p].cpu,
   mem |-> IF Requests[p].mem = 0 THEN DefaultRequest.mem ELSE Requests[p].mem]

SimulatedUtil_FreeArrival(p, to) ==
  LET from == NodeOf[p]
      without == [cpu |-> NonNegative(usage[from].cpu - Demand(p).cpu),
                  mem |-> NonNegative(usage[from].mem - Demand(p).mem)]
      Moved(n, u) == IF Allocatable[n].cpu > 0 THEN Weighted(u, n, Weights) ELSE util[n]
  IN [util EXCEPT ![from] = Moved(from, without)]

(***************************************************************************)
(* simulateVariance's map.  It weights the moved nodes with the policy's   *)
(* own weights, and leaves a node without allocatable CPU alone.           *)
(***************************************************************************)
SimulatedUtil(p, to) ==
  LET from == NodeOf[p]
      without == [cpu |-> NonNegative(usage[from].cpu - Demand(p).cpu),
                  mem |-> NonNegative(usage[from].mem - Demand(p).mem)]
      with == [cpu |-> usage[to].cpu + Demand(p).cpu, mem |-> usage[to].mem + Demand(p).mem]
      Moved(n, u) == IF Allocatable[n].cpu > 0 THEN Weighted(u, n, Weights) ELSE util[n]
  IN [util EXCEPT ![from] = Moved(from, without), ![to] = Moved(to, with)]

\* Memory over no allocatable memory is infinite or not a number; the variance
\* is then not a number and never less than the best so far.
Computable(n) == Allocatable[n].cpu > 0 => Allocatable[n].mem > 0

(***************************************************************************)
(* canSchedule.  Affinity is judged against the pods of the snapshot, each *)
(* on the node it ran on: applyMove moves load, not pods.                  *)
(***************************************************************************)
CanSchedule(p) ==
  {n \in Fits[p] :
     /\ \A term \in Affinity[p] : \E q \in term \ {p} : Domain[NodeOf[q]] = Domain[n]
     /\ \A q \in AntiAffinity[p] \ {p} : Domain[NodeOf[q]] # Domain[n]}

HasPreferredClass(n) == Classes[n] \cap NodeClassPreference # {}

Delta_BiasSwapped(p, to) ==
  LET bias == IF NodeClassPreference = {} THEN 0
              ELSE IF HasPreferredClass(to) THEN ClassBias ELSE -ClassBias
  IN Variance(SimulatedUtil(p, to)) - variance + bias

\* evaluateCandidate's delta; it is also the entry's score.
Delta(p, to) ==
  LET bias == IF NodeClassPreference = {} THEN 0
              ELSE IF HasPreferredClass(to) THEN -ClassBias ELSE ClassBias
  IN Variance(SimulatedUtil(p, to)) - variance + bias

Survivors_ColdestOnly(p) ==
  {to \in cold \cap CanSchedule(p) :
     /\ Computable(NodeOf[p]) /\ Computable(to)
     /\ \A other \in cold : weighted[to] <= weighted[other]
     /\ Delta(p, to) < 0}

Survivors(p) ==
  {to \in cold \cap CanSchedule(p) :
     /\ Computable(NodeOf[p]) /\ Computable(to)
     /\ Delta(p, to) < 0}

\* The survivor that leaves the least variance; the first one in the order of
\* the cold nodes, coldest first, when several do.
Best(p) ==
  {to \in Survivors(p) :
     \A other \in Survivors(p) :
       \/ Variance(SimulatedUtil(p, to)) < Variance(SimulatedUtil(p, other))
       \/ /\ Variance(SimulatedUtil(p, to)) = Variance(SimulatedUtil(p, other))
          /\ weighted[to] <= weighted[other]}

UsageAfter_NotApplied(p, to) == usage

UsageAfter_NoClamp(p, to) ==
  [usage EXCEPT
     ![NodeOf[p]] = [cpu |-> @.cpu - Demand(p).cpu, mem |-> @.mem - Demand(p).mem],
     ![to] = [cpu |-> @.cpu + Demand(p).cpu, mem |-> @.mem + Demand(p).mem]]

\* applyMove: the CPU of the source stops at zero, its memory does not.
UsageAfter(p, to) ==
  [usage EXCEPT
     ![NodeOf[p]] = [cpu |-> NonNegative(@.cpu - Demand(p).cpu), mem |-> @.mem - Demand(p).mem],
     ![to] = [cpu |-> @.cpu + Demand(p).cpu, mem |-> @.mem + Demand(p).mem]]

-------------------------------------------------------------------------------
Init ==
  /\ setting \in Settings
  /\ pc = "measured"
  /\ measured \in Measurements
  /\ usage = measured
  /\ weighted = [n \in Nodes |-> 0]
  /\ hot = {}
  /\ cold = {}
  /\ util = weighted
  /\ variance = 0
  /\ todo = {}
  /\ plan = <<>>

\* classifyNodes: hot wins where the two bands overlap.
IsHot(w) == w >= HotThreshold - Hysteresis
IsCold_Any(w) == w <= ColdThreshold + Hysteresis
IsCold(w) == ~IsHot(w) /\ w <= ColdThreshold + Hysteresis

(***************************************************************************)
(* Plan up to greedyPlan.  Without a hot or a cold node there is no plan.  *)
(* The candidates are any pods of hot nodes (isHotNode): the other filters *)
(* are not modelled here.                                                  *)
(***************************************************************************)
Classify ==
  /\ pc = "measured"
  /\ weighted' = [n \in Nodes |-> Weighted(usage[n], n, DefaultedWeights)]
  /\ hot' = {n \in Nodes : IsHot(weighted'[n])}
  /\ cold' = {n \in Nodes : IsCold(weighted'[n])}
  /\ util' = weighted'
  /\ variance' = Variance(util')
  /\ IF hot' = {} \/ cold' = {}
     THEN todo' = {}
     ELSE todo' \in SUBSET {p \in Pods : NodeOf[p] \in hot'}
  /\ pc' = "planning"
  /\ UNCHANGED <<setting, measured, usage, plan>>

\* filterCandidates sorts by ascending priority.
IsNext(p) ==
  /\ pc = "planning"
  /\ p \in todo
  /\ \A q \in todo : Priority[p] <= Priority[q]

\* No cold node improves on the variance.
Skip(p) ==
  /\ IsNext(p)
  /\ \A to \in Best(p) : Variance(SimulatedUtil(p, to)) >= variance
  /\ todo' = todo \ {p}
  /\ UNCHANGED <<setting, pc, measured, usage, weighted, hot, cold, util, variance, plan>>

Move_NoStop(p, to) ==
  /\ IsNext(p)
  /\ to \in Best(p)
  /\ util' = SimulatedUtil(p, to)
  /\ variance' = Variance(util')
  /\ variance' < variance
  /\ plan' = Append(plan, [pod |-> p, to |-> to, score |-> Delta(p, to)])
  /\ usage' = UsageAfter(p, to)
  /\ todo' = todo \ {p}
  /\ UNCHANGED <<setting, pc, measured, weighted, hot, cold>>

\* One accepted entry; the loop ends when the variance reaches the target.
Move(p, to) ==
  /\ IsNext(p)
  /\ to \in Best(p)
  /\ util' = SimulatedUtil(p, to)
  /\ variance' = Variance(util')
  /\ variance' < variance
  /\ plan' = Append(plan, [pod |-> p, to |-> to, score |-> Delta(p, to)])
  /\ usage' = UsageAfter(p, to)
  /\ todo' = IF variance' <= TargetVariance THEN {} ELSE todo \ {p}
  /\ UNCHANGED <<setting, pc, measured, weighted, hot, cold>>

ByScore(a, b) == a.score <= b.score

\* greedyPlan's last step sorts the entries, best score first.
SortPlan ==
  /\ pc = "planning"
  /\ todo = {}
  /\ plan' \in {s \in SetToSeqs(ToSet(plan)) : IsSorted(s, ByScore)}
  /\ pc' = "planned"
  /\ UNCHANGED <<setting, measured, usage, weighted, hot, cold, util, variance, todo>>

\* The next reconcile measures again.
Replan ==
  /\ pc = "planned"
  /\ pc' = "measured"
  /\ measured' \in Measurements
  /\ usage' = measured'
  /\ weighted' = [n \in Nodes |-> 0]
  /\ hot' = {}
  /\ cold' = {}
  /\ util' = weighted'
  /\ variance' = 0
  /\ todo' = {}
  /\ plan' = <<>>
  /\ UNCHANGED setting

Next ==
  \/ Classify
  \/ \E p \in Pods : Skip(p)
  \/ \E p \in Pods, to \in Nodes : Move(p, to)
  \/ SortPlan
  \/ Replan

Spec == Init /\ [][Next]_vars
-------------------------------------------------------------------------------
(***************************************************************************)
(* Properties                                                              *)
(***************************************************************************)
Entry == [pod : Pods, to : Nodes, score : Int]

\* Types of the variables.  Usage may go below zero (memory), utilization not.
TypeOK ==
  /\ setting \in Settings
  /\ pc \in {"measured", "planning", "planned"}
  /\ measured \in Measurements
  /\ usage \in [Nodes -> [cpu : Nat, mem : Int]]
  /\ weighted \in [Nodes -> Nat]
  /\ hot \in SUBSET Nodes
  /\ cold \in SUBSET Nodes
  /\ util \in [Nodes -> Nat]
  /\ variance \in Nat
  /\ todo \in SUBSET Pods
  /\ plan \in Seq(Entry)

Entries == ToSet(plan)

\* What the pods of a set of entries request together.
DemandOf(E) ==
  [cpu |-> SumFunctionOnSet([e \in E |-> Demand(e.pod).cpu], E),
   mem |-> SumFunctionOnSet([e \in E |-> Demand(e.pod).mem], E)]

\* The entries of E that a node loses, and those it gains.
Lost(E, n) == {e \in E : NodeOf[e.pod] = n}
Gained(E, n) == {e \in E : e.to = n}

\* What executing a set of entries does to the measured usage, with no loop:
\* every node loses and gains the requests of its pods, and stops at zero.
Outcome(E) ==
  [n \in Nodes |->
     LET lost == DemandOf(Lost(E, n))
         gained == DemandOf(Gained(E, n))
     IN [cpu |-> NonNegative(measured[n].cpu + gained.cpu - lost.cpu),
         mem |-> NonNegative(measured[n].mem + gained.mem - lost.mem)]]

OutcomeUtil(E) == [n \in Nodes |-> Weighted(Outcome(E)[n], n, DefaultedWeights)]

\* The policy has weights (the simulation does not default them), and all nodes
\* report their CPU (the simulation leaves one that does not alone).
WeightsGiven == Weights.cpu # 0 \/ Weights.mem # 0
CPUReported == \A s \in Settings : \A n \in Nodes : s.Allocatable[n].cpu > 0

(***************************************************************************)
(* The utilizations the loop threads through its simulations are those of  *)
(* the measured usage with all the moves of the plan, although usage and   *)
(* utilization are updated by two functions that clamp differently         *)
(* (simulateVariance, applyMove).                                          *)
(***************************************************************************)
UtilMatchesMoves ==
  pc # "measured" =>
    /\ util = OutcomeUtil(Entries)
    /\ variance = Variance(OutcomeUtil(Entries))

(***************************************************************************)
(* On any nodes, alike or not, a plan carried out as a whole leaves less   *)
(* variance than was measured: the bias for a preferred class may let a    *)
(* target in that makes the balance worse (evaluateCandidate), but no such *)
(* move is taken (greedyPlan), and each is judged on top of the others.    *)
(***************************************************************************)
WholePlanHelps ==
  plan # <<>> => Variance(OutcomeUtil(Entries)) < Variance(weighted)

(***************************************************************************)
(* A candidate whose node reports its memory is passed over only when no   *)
(* node it could move to, and that reports its memory too, lowers the      *)
(* variance - by more than the bias, on a node outside the preferred       *)
(* classes (evaluateCandidate, greedyPlan).                                *)
(***************************************************************************)
NothingMissed ==
  [][pc = "planning" /\ pc' = "planning" /\ plan' = plan =>
       \A p \in {q \in todo \ todo' : Computable(NodeOf[q])} :
       \A to \in {n \in cold \cap CanSchedule(p) : Computable(n)} :
         LET gain == variance - Variance(OutcomeUtil(Entries \cup {[pod |-> p, to |-> to, score |-> 0]}))
         IN IF NodeClassPreference = {} \/ HasPreferredClass(to)
            THEN gain <= 0
            ELSE gain <= ClassBias]_vars

\* All nodes are alike, and no source is asked for more than it uses.
Homogeneous ==
  /\ \A m, n \in Nodes : Allocatable[m] = Allocatable[n]
  /\ \A n \in Nodes :
       /\ measured[n].cpu >= DemandOf(Lost(Entries, n)).cpu
       /\ measured[n].mem >= DemandOf(Lost(Entries, n)).mem

(***************************************************************************)
(* On nodes that are alike, whatever part of the plan the budgets, the     *)
(* order of the scores and failed evictions let through, executing it      *)
(* lowers the variance (the entries were accepted one after the other, in  *)
(* another order, each on top of all the ones before).                     *)
(***************************************************************************)
EveryPartHelps ==
  pc = "planned" /\ Homogeneous =>
    \A part \in SUBSET Entries :
      part # {} => Variance(OutcomeUtil(part)) < Variance(weighted)

(***************************************************************************)
(* On nodes that are alike no part of the plan makes any node more loaded  *)
(* than the most loaded one was: the cold nodes it fills stay below.       *)
(***************************************************************************)
PeakNeverRises ==
  pc = "planned" /\ Homogeneous =>
    \A part \in SUBSET Entries : \A n \in Nodes :
      \E m \in Nodes : OutcomeUtil(part)[n] <= weighted[m]

(***************************************************************************)
(* The loop stops at the target: only its last entry may bring the         *)
(* variance to it.  A cluster already within the target still gets one     *)
(* entry, since the loop tests after a move and not before.                *)
(***************************************************************************)
StopsAtTarget ==
  pc = "planning" =>
    \A i \in 1..(Len(plan) - 1) :
      Variance(OutcomeUtil(ToSet(SubSeq(plan, 1, i)))) > TargetVariance

(***************************************************************************)
(* Load only goes from hot nodes to cold ones, no pod is planned twice and *)
(* no node is both drained and filled, however wide the two bands are.     *)
(***************************************************************************)
HotToCold ==
  \A i, j \in 1..Len(plan) :
    /\ NodeOf[plan[i].pod] # plan[j].to
    /\ weighted[plan[j].to] < weighted[NodeOf[plan[i].pod]]
    /\ i # j => plan[i].pod # plan[j].pod
=============================================================================
