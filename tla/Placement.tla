------------------------------ MODULE Placement ------------------------------
(***************************************************************************)
(* Where the planner thinks a pod could run: canSchedule and the           *)
(* predicates of predicates.go, against the filters of the Kubernetes      *)
(* scheduler for the same things, which come once the pod is evicted.      *)
(*                                                                         *)
(* A situation is a pod, the nodes and the other pods of the snapshot.     *)
(* GreedyPlan takes the outcome as given (its Fits, Affinity and           *)
(* AntiAffinity); here it is computed.  Labels are Go maps: looking up a   *)
(* key that is not there gives the empty string, and that is where the     *)
(* planner and the scheduler may part.                                     *)
(*                                                                         *)
(* Abstracted: a pod carries one label and a label selector is the set of  *)
(* labels it matches; lists are sets (the code only looks for a member).   *)
(* What the API server refuses (invalid selectors, unknown operators,      *)
(* other fields than metadata.name, Gt or Lt without a value) is left out. *)
(***************************************************************************)
EXTENDS Integers, FiniteSets

CONSTANTS
  Situations,  \* blocks of inputs: [pods, nodeMaps (name -> node), neighbourhoods (sets of pods)]
  Number       \* the label values that ParseInt accepts, and what it returns

ASSUME NumberAssumption == \A v \in DOMAIN Number : v # "" /\ Number[v] \in Int

VARIABLES
  pod, nodes, others,  \* the situation
  pc,                  \* "unplanned" or "planned"
  targets              \* the nodes canSchedule accepts

vars == <<pod, nodes, others, pc, targets>>

\* A Go map's m[key].
Lookup(labels, key) == IF key \in DOMAIN labels THEN labels[key] ELSE ""
-------------------------------------------------------------------------------
(***************************************************************************)
(* Taints.                                                                 *)
(***************************************************************************)
TolerationMatches_ExactEffect(taint, tolerations) ==
  \E tol \in tolerations :
    /\ tol.key = taint.key
    /\ tol.effect = taint.effect
    /\ tol.operator = "Exists" \/ tol.value = taint.value

TolerationMatches(taint, tolerations) ==
  \E tol \in tolerations :
    /\ tol.key = taint.key
    /\ tol.effect \in {"", taint.effect}
    /\ tol.operator = "Exists" \/ tol.value = taint.value

ToleratesTaints_SkipsNoExecute(n) ==
  \A taint \in nodes[n].taints :
    taint.effect = "NoSchedule" => TolerationMatches(taint, pod.tolerations)

ToleratesTaints(n) ==
  \A taint \in nodes[n].taints :
    taint.effect \in {"NoSchedule", "NoExecute"} => TolerationMatches(taint, pod.tolerations)

(***************************************************************************)
(* Node selector and required node affinity.                               *)
(***************************************************************************)
MatchesNodeSelector(n) ==
  \A key \in DOMAIN pod.nodeSelector : Lookup(nodes[n].labels, key) = pod.nodeSelector[key]

\* Gt and Lt: both sides must be numbers.
Compares(value, req) ==
  \E target \in req.values :
    /\ {value, target} \subseteq DOMAIN Number
    /\ IF req.operator = "Gt" THEN Number[value] > Number[target]
                              ELSE Number[value] < Number[target]

MatchNodeSelectorRequirement(n, req) ==
  LET value == Lookup(nodes[n].labels, req.key) IN
    CASE req.operator = "In"           -> value \in req.values
      [] req.operator = "NotIn"        -> value \notin req.values
      [] req.operator = "Exists"       -> value # ""
      [] req.operator = "DoesNotExist" -> value = ""
      [] OTHER                         -> Compares(value, req)

\* The one field is metadata.name.
MatchFieldSelectorRequirement(n, req) ==
  IF req.operator = "In" THEN n \in req.values ELSE n \notin req.values

MatchNodeSelectorTerm(n, term) ==
  /\ \A req \in term.expressions : MatchNodeSelectorRequirement(n, req)
  /\ \A req \in term.fields : MatchFieldSelectorRequirement(n, req)

\* A pod without required node affinity has no terms.
MatchesNodeAffinity(n) ==
  pod.nodeAffinity # {} => \E term \in pod.nodeAffinity : MatchNodeSelectorTerm(n, term)

(***************************************************************************)
(* Required pod affinity and anti-affinity.                                *)
(***************************************************************************)
\* A term without a label selector selects every pod.
Selects(term, q) ==
  /\ q.namespace \in (IF term.namespaces = {} THEN {pod.namespace} ELSE term.namespaces)
  /\ term.selector.nil \/ q.label \in term.selector.labels

\* Is a pod that the term selects in the node's domain?  A pod on a node
\* that the snapshot does not have is in none.
Meets(n, term) ==
  LET domain == Lookup(nodes[n].labels, term.topologyKey) IN
    /\ domain # ""
    /\ \E q \in others :
         /\ Selects(term, q)
         /\ q.node \in DOMAIN nodes
         /\ Lookup(nodes[q.node].labels, term.topologyKey) = domain

PassesPodAffinity(n) ==
  /\ \A term \in pod.affinity : Meets(n, term)
  /\ \A term \in pod.antiAffinity : ~Meets(n, term)

CanSchedule(n) ==
  /\ ToleratesTaints(n)
  /\ MatchesNodeSelector(n)
  /\ MatchesNodeAffinity(n)
  /\ PassesPodAffinity(n)

-------------------------------------------------------------------------------
Init ==
  /\ \E s \in Situations :
       pod \in s.pods /\ nodes \in s.nodeMaps /\ others \in s.neighbourhoods
  /\ pc = "unplanned"
  /\ targets = {}

\* evaluateCandidate asks canSchedule of each cold node.
EvaluateCandidate ==
  /\ pc = "unplanned"
  /\ pc' = "planned"
  /\ targets' = {n \in DOMAIN nodes : CanSchedule(n)}
  /\ UNCHANGED <<pod, nodes, others>>

Next == EvaluateCandidate

Spec == Init /\ [][Next]_vars
-------------------------------------------------------------------------------
(***************************************************************************)
(* The scheduler (external): the filters TaintToleration, NodeAffinity and *)
(* InterPodAffinity of kube-scheduler, which an evicted pod's replacement  *)
(* has to pass.  The others are left out (whether the node has room,       *)
(* cordons, host ports, volumes, topology spread): canSchedule looks at    *)
(* none of what they read.                                                 *)
(***************************************************************************)
Has(labels, key) == key \in DOMAIN labels

SchedulerTolerates(n) ==
  \A taint \in nodes[n].taints :
    taint.effect \in {"NoSchedule", "NoExecute"} =>
      \E tol \in pod.tolerations :
        /\ tol.key \in {"", taint.key}
        /\ tol.effect \in {"", taint.effect}
        /\ tol.operator = "Exists" \/ tol.value = taint.value

SchedulerMatches(n, req) ==
  LET labels == nodes[n].labels IN
    CASE req.operator = "In"           -> Has(labels, req.key) /\ labels[req.key] \in req.values
      [] req.operator = "NotIn"        -> Has(labels, req.key) => labels[req.key] \notin req.values
      [] req.operator = "Exists"       -> Has(labels, req.key)
      [] req.operator = "DoesNotExist" -> ~Has(labels, req.key)
      [] OTHER                         -> Has(labels, req.key) /\ Compares(labels[req.key], req)

SchedulerNodeAffinity(n) ==
  /\ \A key \in DOMAIN pod.nodeSelector :
       Has(nodes[n].labels, key) /\ nodes[n].labels[key] = pod.nodeSelector[key]
  /\ pod.nodeAffinity # {} =>
       \E term \in pod.nodeAffinity :
         /\ term.expressions \cup term.fields # {}
         /\ \A req \in term.expressions : SchedulerMatches(n, req)
         /\ \A req \in term.fields : MatchFieldSelectorRequirement(n, req)

\* Does owner's term select q?  Without a label selector it selects none.
SchedulerSelects(owner, term, q) ==
  /\ ~term.selector.nil /\ q.label \in term.selector.labels
  /\ \/ term.allNamespaces
     \/ q.namespace \in (IF term.namespaces = {} THEN {owner.namespace} ELSE term.namespaces)

SameDomain(n, m, key) ==
  /\ m \in DOMAIN nodes
  /\ Has(nodes[n].labels, key) /\ Has(nodes[m].labels, key)
  /\ nodes[n].labels[key] = nodes[m].labels[key]

Running == {q \in others : ~q.finished /\ q.node \in DOMAIN nodes}

\* The first pod of a group that wants to be together may go anywhere.
FirstOfItsGroup(n) ==
  /\ \A q \in Running : \E term \in pod.affinity : ~SchedulerSelects(pod, term, q)
  /\ \A term \in pod.affinity :
       SchedulerSelects(pod, term, pod) /\ Has(nodes[n].labels, term.topologyKey)

SchedulerPodAffinity(n) ==
  /\ \/ FirstOfItsGroup(n)
     \/ \A term \in pod.affinity :
          \E q \in Running :
            SchedulerSelects(pod, term, q) /\ SameDomain(n, q.node, term.topologyKey)
  /\ \A term \in pod.antiAffinity : \A q \in Running :
       SchedulerSelects(pod, term, q) => ~SameDomain(n, q.node, term.topologyKey)
  /\ \A q \in Running : \A term \in q.antiAffinity :
       SchedulerSelects(q, term, pod) => ~SameDomain(n, q.node, term.topologyKey)

PassesSchedulerFilters(n) ==
  /\ SchedulerTolerates(n)
  /\ SchedulerNodeAffinity(n)
  /\ SchedulerPodAffinity(n)

-------------------------------------------------------------------------------
(***************************************************************************)
(* Where planner and scheduler agree: label values and the values asked    *)
(* for are not empty, terms are complete, have a label selector and no     *)
(* namespace selector, the neighbours run and none of them repels the pod. *)
(***************************************************************************)
CompleteTerm(term) ==
  /\ term.expressions \cup term.fields # {}
  /\ \A req \in term.expressions : "" \notin req.values

Ordinary(p, nodeMap, neighbours) ==
  /\ \A n \in DOMAIN nodeMap : \A key \in DOMAIN nodeMap[n].labels : nodeMap[n].labels[key] # ""
  /\ \A key \in DOMAIN p.nodeSelector : p.nodeSelector[key] # ""
  /\ \A term \in p.nodeAffinity : CompleteTerm(term)
  /\ \A term \in p.affinity \cup p.antiAffinity : ~term.selector.nil /\ ~term.allNamespaces
  /\ \A q \in neighbours :
       ~q.finished /\ \A term \in q.antiAffinity : ~SchedulerSelects(q, term, p)

\* Tolerations name the key they tolerate, and the pod does not ask for its own kind.
Specific(p) ==
  /\ \A tol \in p.tolerations : tol.key # ""
  /\ \A term \in p.affinity : ~SchedulerSelects(p, term, p)

OrdinarySituations ==
  \A s \in Situations : \A p \in s.pods, nodeMap \in s.nodeMaps, neighbours \in s.neighbourhoods :
    Ordinary(p, nodeMap, neighbours)
SpecificPods == \A s \in Situations : \A p \in s.pods : Specific(p)

-------------------------------------------------------------------------------
(***************************************************************************)
(* Properties                                                              *)
(***************************************************************************)
(***************************************************************************)
(* A target of the plan is a node that passes the scheduler's filters for  *)
(* taints and affinities: README.md:7 ("Safety rails for PDBs, priorities, *)
(* affinities") and docs/README.md:14 ("taint/affinity checks").  The code *)
(* gives it in ordinary situations.  It does not give it in general:       *)
(* DoesNotExist accepts a label that is there with an empty value (as the  *)
(* control plane's role label is), and passesPodAffinity reads neither the *)
(* anti-affinity of the pods already there nor whether they have finished. *)
(***************************************************************************)
TargetsPassFilters == pc = "planned" => \A n \in targets : PassesSchedulerFilters(n)

(***************************************************************************)
(* And no node is missed: the planner sees a target in each node that      *)
(* passes these filters, in ordinary situations and for pods that are      *)
(* specific (canSchedule and its four predicates).                         *)
(***************************************************************************)
NoTargetMissed == pc = "planned" => \A n \in DOMAIN nodes : PassesSchedulerFilters(n) => n \in targets
=============================================================================
