---------------------------- MODULE NodeTemperature ----------------------------
(***************************************************************************)
(* Which nodes count as hot or cold, from the metrics server to the two    *)
(* readers of pkg/metrics: the planner (classifyNodes, then the gauges of  *)
(* RecordSnapshot) and the dashboard's Data handler, which runs beside it. *)
(*                                                                         *)
(* Load changes, nodes come and go, the metrics server lags behind new     *)
(* nodes, is unavailable or fails, custom Prometheus queries answer or     *)
(* fail.  A reader collects the metrics and lists the nodes in two calls.  *)
(*                                                                         *)
(* Abstracted: usage over allocatable is a share, in tenths (GreedyPlan    *)
(* divides); a custom query's samples are the nodes it names, since no     *)
(* reader uses their values.  Weights are in tenths, thresholds in         *)
(* hundredths.  Pod metrics take the same path and end in the candidates'  *)
(* order, which GreedyPlan leaves open.                                    *)
(***************************************************************************)
EXTENDS Integers, Sequences, FiniteSets

CONSTANTS
  Nodes,          \* nodes that may exist
  Shares,         \* [cpu, memory]: the loads a node may have
  PolicyLists,    \* what the policies may be: sequences of specs
  CustomQueries,  \* are node queries configured?
  MaxEvents       \* bound: changes of the cluster

PolicySpec ==
  [hotThreshold : Nat, coldThreshold : Nat, hysteresis : Nat,
   weights : [cpu : Nat, memory : Nat]]

ASSUME TemperatureAssumption ==
  /\ Shares \subseteq [cpu : Nat, memory : Nat] /\ Shares # {}
  /\ PolicyLists \subseteq Seq(PolicySpec) /\ PolicyLists # {}
  /\ CustomQueries \in BOOLEAN
  /\ MaxEvents \in Nat

VARIABLES
  nodes,     \* the nodes there are
  load,      \* their true shares
  reported,  \* the nodes the metrics server has data of
  server,    \* the metrics server: "up", "unavailable" (404, 503) or "failing"
  policies,
  events,
  pc,        \* the reconcile: "idle" or "collected"
  spec,      \* the policy it reads
  usages,    \* what CollectNodeMetrics returned to it
  answered,  \* observer: what the metrics server answered to that call
  class,     \* per node: the share its gauges show, its classification and by which spec
  page,      \* the dashboard: where a request is and which nodes it listed
  shown      \* the dashboard's last response

cluster == <<nodes, load, reported, server, policies, events>>
planner == <<pc, spec, usages, answered, class>>
dashboard == <<page, shown>>
vars == <<cluster, planner, dashboard>>

NoUsage == [cpu |-> 0, memory |-> 0]

-------------------------------------------------------------------------------
(***************************************************************************)
(* CollectNodeMetrics.                                                     *)
(***************************************************************************)
\* What the metrics server has.
Listed == [n \in reported |-> load[n]]

\* A map lookup: a node that is not there has used nothing.
UsageOf(result, n) == IF n \in DOMAIN result THEN result[n] ELSE NoUsage

CollectNodeMetrics_LastKnown ==
  IF server = "failing" THEN {} ELSE {IF server = "up" THEN Listed ELSE usages}

(***************************************************************************)
(* The maps a call may return.  An unavailable metrics API is an empty     *)
(* answer, any other error ends the call.  A custom query then adds an     *)
(* empty entry for each node it names that has none.                       *)
(***************************************************************************)
CollectNodeMetrics ==
  LET listed == IF server = "up" THEN Listed ELSE <<>>
      named  == IF CustomQueries THEN SUBSET nodes ELSE {{}}
  IN IF server = "failing"
     THEN {}
     ELSE {[n \in DOMAIN listed \cup S |-> UsageOf(listed, n)] : S \in named}

\* A query that fails ends the call too.
CollectFails == server = "failing" \/ CustomQueries

-------------------------------------------------------------------------------
(***************************************************************************)
(* Classification.                                                         *)
(***************************************************************************)
Weights(weights) ==
  IF weights.cpu = 0 /\ weights.memory = 0 THEN [cpu |-> 7, memory |-> 3] ELSE weights

Weighted(share, s) ==
  LET w == Weights(s.weights) IN share.cpu * w.cpu + share.memory * w.memory

\* classifyNodes
Classify(share, s) ==
  CASE Weighted(share, s) >= s.hotThreshold - s.hysteresis  -> "hot"
    [] Weighted(share, s) < s.hotThreshold - s.hysteresis
         /\ Weighted(share, s) <= s.coldThreshold + s.hysteresis -> "cold"
    [] OTHER -> "ok"

\* setDefaultPolicyValues
SetDefaultPolicyValues(s) ==
  [hotThreshold |-> IF s.hotThreshold = 0 THEN 80 ELSE s.hotThreshold,
   coldThreshold |-> IF s.coldThreshold = 0 THEN 50 ELSE s.coldThreshold,
   hysteresis |-> s.hysteresis,
   weights |-> Weights(s.weights)]

\* clamp(share, 0, 2)
Clamp(share) == [f \in {"cpu", "memory"} |-> IF share[f] > 20 THEN 20 ELSE share[f]]

\* The spec Data classifies by: the first policy's, or the defaults.
SpecForClassification ==
  SetDefaultPolicyValues(
    IF policies = <<>>
    THEN [hotThreshold |-> 0, coldThreshold |-> 0, hysteresis |-> 0,
          weights |-> [cpu |-> 0, memory |-> 0]]
    ELSE Head(policies))

SummariseNode_Lenient(share, s) ==
  LET weighted == Weighted(Clamp(share), s) IN
    CASE weighted >= s.hotThreshold - 2 * s.hysteresis -> "hot"
      [] weighted <= s.coldThreshold -> "cold"
      [] OTHER -> "balanced"

\* summariseNode and classify
SummariseNode(share, s) ==
  LET weighted == Weighted(Clamp(share), s) IN
    CASE weighted >= s.hotThreshold -> "hot"
      [] weighted < s.hotThreshold /\ weighted <= s.coldThreshold -> "cold"
      [] OTHER -> "balanced"

-------------------------------------------------------------------------------
Init ==
  /\ nodes = Nodes
  /\ load \in [Nodes -> Shares]
  /\ reported = Nodes
  /\ server = "up"
  /\ policies \in PolicyLists
  /\ events = 0
  /\ pc = "idle"
  /\ spec = <<>>
  /\ usages = <<>>
  /\ answered = <<>>
  /\ class = [n \in Nodes |-> <<>>]
  /\ page = [at |-> "none", listed |-> {}]
  /\ shown = <<>>

(***************************************************************************)
(* The cluster (external).                                                 *)
(***************************************************************************)
Event ==
  /\ events < MaxEvents
  /\ events' = events + 1
  /\ UNCHANGED <<planner, dashboard>>

ChangeLoad ==
  /\ Event
  /\ \E n \in nodes, share \in Shares : load' = [load EXCEPT ![n] = share]
  /\ UNCHANGED <<nodes, reported, server, policies>>

\* A node is gone with its metrics; a new one has none yet.
ChangeNodes ==
  /\ Event
  /\ \E n \in Nodes :
       nodes' = IF n \in nodes THEN nodes \ {n} ELSE nodes \cup {n}
  /\ reported' = reported \cap nodes'
  /\ UNCHANGED <<load, server, policies>>

\* The metrics server loses or gains a node's data, or changes state.
ChangeMetricsServer ==
  /\ Event
  /\ \/ reported' \in SUBSET nodes /\ server' = server
     \/ server' \in {"up", "unavailable", "failing"} /\ reported' = reported
  /\ UNCHANGED <<nodes, load, policies>>

ChangePolicies ==
  /\ Event
  /\ policies' \in PolicyLists
  /\ UNCHANGED <<nodes, load, reported, server>>

-------------------------------------------------------------------------------
(***************************************************************************)
(* A reconcile: Snapshot's metrics call, then its list of nodes, Plan's    *)
(* classification and RecordSnapshot.                                      *)
(***************************************************************************)
SnapshotMetrics ==
  /\ pc = "idle"
  /\ \E i \in DOMAIN policies : spec' = policies[i]
  /\ usages' \in CollectNodeMetrics
  /\ pc' = "collected"
  /\ answered' = IF server = "up" THEN Listed ELSE <<>>
  /\ UNCHANGED <<cluster, class, dashboard>>

\* One entry per node of the list, without metrics too; nothing deletes the
\* gauges of a node gone.
SnapshotNodes ==
  /\ pc = "collected"
  /\ pc' = "idle"
  /\ class' =
       [n \in Nodes |->
          IF n \in nodes
          THEN [is |-> Classify(UsageOf(usages, n), spec), share |-> UsageOf(usages, n), by |-> spec]
          ELSE class[n]]
  /\ UNCHANGED <<cluster, spec, usages, answered, dashboard>>

\* The metrics or a later list fail: Snapshot returns the error.
SnapshotFails ==
  /\ pc = "idle" => CollectFails
  /\ pc' = "idle"
  /\ UNCHANGED <<cluster, spec, usages, answered, class, dashboard>>

(***************************************************************************)
(* A request for /dashboard/data: the nodes, then the metrics and the      *)
(* policies; on an error it answers 500 and shows nothing.                 *)
(***************************************************************************)
DataNodes ==
  /\ page.at = "none"
  /\ page' = [at |-> "listed", listed |-> nodes]
  /\ shown' = <<>>
  /\ UNCHANGED <<cluster, planner>>

DataRespond ==
  /\ page.at = "listed"
  /\ page' = [at |-> "none", listed |-> {}]
  /\ \E result \in CollectNodeMetrics :
       shown' = [n \in page.listed |->
                   [share |-> UsageOf(result, n), policies |-> policies,
                    is |-> SummariseNode(UsageOf(result, n), SpecForClassification)]]
  /\ UNCHANGED <<cluster, planner>>

DataError ==
  /\ page.at = "listed"
  /\ CollectFails
  /\ page' = [at |-> "none", listed |-> {}]
  /\ UNCHANGED <<cluster, planner, shown>>

Next ==
  \/ ChangeLoad
  \/ ChangeNodes
  \/ ChangeMetricsServer
  \/ ChangePolicies
  \/ SnapshotMetrics
  \/ SnapshotNodes
  \/ SnapshotFails
  \/ DataNodes
  \/ DataRespond
  \/ DataError

Spec == Init /\ [][Next]_vars
-------------------------------------------------------------------------------
(***************************************************************************)
(* Properties                                                              *)
(***************************************************************************)
(***************************************************************************)
(* No pod is evicted off a node that the metrics server did not measure as *)
(* loaded in this very reconcile: an outage, a missing node or a node that *)
(* only a custom query names makes nodes cold, never hot, as long as the   *)
(* hysteresis is below the hot threshold (CollectNodeMetrics, Snapshot,    *)
(* classifyNodes).                                                         *)
(***************************************************************************)
HotIsMeasured ==
  [][SnapshotNodes => \A n \in nodes :
       class'[n].is = "hot" /\ spec.hotThreshold > spec.hysteresis =>
         /\ n \in DOMAIN answered
         /\ Weighted(answered[n], spec) >= spec.hotThreshold - spec.hysteresis]_vars

(***************************************************************************)
(* The dashboard never overstates: a node it shows as hot is hot for the   *)
(* planner too, given the same metrics and the policy it took, whatever    *)
(* thresholds and weights that policy leaves at zero (summariseNode,       *)
(* setDefaultPolicyValues and clamp against classifyNodes).                *)
(***************************************************************************)
ShownHotIsHot ==
  \A n \in DOMAIN shown :
    shown[n].is = "hot" /\ shown[n].policies # <<>> =>
      Classify(shown[n].share, Head(shown[n].policies)) = "hot"
=============================================================================
