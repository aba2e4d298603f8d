---------------------------- MODULE PlacementProofs ----------------------------
(***************************************************************************)
(* Proofs about Placement for any pods, nodes and neighbours: in ordinary  *)
(* situations the planner's predicates and the scheduler's filters decide  *)
(* alike, predicate by predicate.                                          *)
(***************************************************************************)
EXTENDS Placement, TLAPS

\* The situation is one of those given, and the targets are canSchedule's.
SituationOK ==
  /\ \E s \in Situations : pod \in s.pods /\ nodes \in s.nodeMaps /\ others \in s.neighbourhoods
  /\ pc = "planned" => targets = {n \in DOMAIN nodes : CanSchedule(n)}

LEMMA SameDecision ==
  ASSUME UNCHANGED <<pod, nodes, others>>
  PROVE  \A n : CanSchedule(n)' <=> CanSchedule(n)
  <1> SUFFICES ASSUME NEW n PROVE CanSchedule(n)' <=> CanSchedule(n)
    OBVIOUS
  <1>1. ToleratesTaints(n)' <=> ToleratesTaints(n)
    BY DEF ToleratesTaints
  <1>2. MatchesNodeSelector(n)' <=> MatchesNodeSelector(n)
    BY DEF MatchesNodeSelector
  <1>3. MatchesNodeAffinity(n)' <=> MatchesNodeAffinity(n)
    <2>1. \A req : MatchNodeSelectorRequirement(n, req)' <=> MatchNodeSelectorRequirement(n, req)
      BY DEF MatchNodeSelectorRequirement
    <2>2. \A term : MatchNodeSelectorTerm(n, term)' <=> MatchNodeSelectorTerm(n, term)
      BY <2>1 DEF MatchNodeSelectorTerm
    <2> QED
      BY <2>2 DEF MatchesNodeAffinity
  <1>4. PassesPodAffinity(n)' <=> PassesPodAffinity(n)
    <2>1. \A term, q : Selects(term, q)' <=> Selects(term, q)
      BY DEF Selects
    <2>2. \A term : Meets(n, term)' <=> Meets(n, term)
      BY <2>1 DEF Meets
    <2> QED
      BY <2>2 DEF PassesPodAffinity
  <1> QED
    BY <1>1, <1>2, <1>3, <1>4 DEF CanSchedule

LEMMA SituationInvariant == Spec => []SituationOK
  <1>1. Init => SituationOK
    BY DEF Init, SituationOK
  <1>2. SituationOK /\ [Next]_vars => SituationOK'
    <2> SUFFICES ASSUME SituationOK, [Next]_vars PROVE SituationOK'
      OBVIOUS
    <2>1. UNCHANGED <<pod, nodes, others>>
      BY DEF Next, EvaluateCandidate, vars
    <2>2. pc' = "planned" => targets' = {n \in DOMAIN nodes : CanSchedule(n)}
      BY DEF Next, EvaluateCandidate, vars, SituationOK
    <2>3. {n \in DOMAIN nodes : CanSchedule(n)}' = {n \in DOMAIN nodes : CanSchedule(n)}
      BY <2>1, SameDecision
    <2> QED
      BY <2>1, <2>2, <2>3 DEF SituationOK
  <1> QED
    BY <1>1, <1>2, PTL DEF Spec

-------------------------------------------------------------------------------
(***************************************************************************)
(* Predicate by predicate, in an ordinary situation.                       *)
(***************************************************************************)
\* A Go map tells a label that is not there from one that is.
LEMMA LabelsTold ==
  ASSUME Ordinary(pod, nodes, others), NEW n \in DOMAIN nodes, NEW key
  PROVE  /\ Has(nodes[n].labels, key) =>
              /\ Lookup(nodes[n].labels, key) = nodes[n].labels[key]
              /\ nodes[n].labels[key] # ""
         /\ ~Has(nodes[n].labels, key) => Lookup(nodes[n].labels, key) = ""
  BY DEF Ordinary, Has, Lookup

\* toleratesTaints reads a toleration without a key as one for no taint; the
\* scheduler reads it as one for all.
LEMMA TaintsAgree ==
  ASSUME NEW n
  PROVE  /\ ToleratesTaints(n) => SchedulerTolerates(n)
         /\ Specific(pod) /\ SchedulerTolerates(n) => ToleratesTaints(n)
  BY DEF ToleratesTaints, TolerationMatches, SchedulerTolerates, Specific

LEMMA SelectorsAgree ==
  ASSUME Ordinary(pod, nodes, others), NEW n \in DOMAIN nodes
  PROVE  MatchesNodeSelector(n) <=>
           \A key \in DOMAIN pod.nodeSelector :
             Has(nodes[n].labels, key) /\ nodes[n].labels[key] = pod.nodeSelector[key]
  <1>1. ASSUME NEW key \in DOMAIN pod.nodeSelector
        PROVE  Lookup(nodes[n].labels, key) = pod.nodeSelector[key]
                 <=> Has(nodes[n].labels, key) /\ nodes[n].labels[key] = pod.nodeSelector[key]
    <2>1. pod.nodeSelector[key] # ""
      BY DEF Ordinary
    <2> QED
      BY <2>1, LabelsTold
  <1> QED
    BY <1>1 DEF MatchesNodeSelector

LEMMA RequirementsAgree ==
  ASSUME Ordinary(pod, nodes, others), NEW n \in DOMAIN nodes, NEW req, "" \notin req.values
  PROVE  MatchNodeSelectorRequirement(n, req) <=> SchedulerMatches(n, req)
  <1> DEFINE labels == nodes[n].labels
             value == Lookup(labels, req.key)
             has == Has(labels, req.key)
  <1>1. /\ has => value = labels[req.key] /\ value # ""
        /\ ~has => value = ""
    BY LabelsTold
  <1>2. ~Compares("", req)
    BY NumberAssumption DEF Compares
  <1>3. CASE req.operator = "In"
    BY <1>1, <1>3 DEF MatchNodeSelectorRequirement, SchedulerMatches
  <1>4. CASE req.operator = "NotIn"
    BY <1>1, <1>4 DEF MatchNodeSelectorRequirement, SchedulerMatches
  <1>5. CASE req.operator = "Exists"
    BY <1>1, <1>5 DEF MatchNodeSelectorRequirement, SchedulerMatches
  <1>6. CASE req.operator = "DoesNotExist"
    BY <1>1, <1>6 DEF MatchNodeSelectorRequirement, SchedulerMatches
  <1>7. CASE req.operator \notin {"In", "NotIn", "Exists", "DoesNotExist"}
    BY <1>1, <1>2, <1>7 DEF MatchNodeSelectorRequirement, SchedulerMatches
  <1> QED
    BY <1>3, <1>4, <1>5, <1>6, <1>7

LEMMA NodeAffinityAgrees ==
  ASSUME Ordinary(pod, nodes, others), NEW n \in DOMAIN nodes
  PROVE  MatchesNodeSelector(n) /\ MatchesNodeAffinity(n) <=> SchedulerNodeAffinity(n)
  <1>1. ASSUME NEW term \in pod.nodeAffinity
        PROVE  MatchNodeSelectorTerm(n, term) <=>
                 /\ term.expressions \cup term.fields # {}
                 /\ \A req \in term.expressions : SchedulerMatches(n, req)
                 /\ \A req \in term.fields : MatchFieldSelectorRequirement(n, req)
    <2>1. CompleteTerm(term)
      BY DEF Ordinary
    <2>2. \A req \in term.expressions : MatchNodeSelectorRequirement(n, req) <=> SchedulerMatches(n, req)
      BY <2>1, RequirementsAgree DEF CompleteTerm
    <2> QED
      BY <2>1, <2>2 DEF CompleteTerm, MatchNodeSelectorTerm
  <1>2. MatchesNodeAffinity(n) <=>
          (pod.nodeAffinity # {} =>
             \E term \in pod.nodeAffinity :
               /\ term.expressions \cup term.fields # {}
               /\ \A req \in term.expressions : SchedulerMatches(n, req)
               /\ \A req \in term.fields : MatchFieldSelectorRequirement(n, req))
    BY <1>1 DEF MatchesNodeAffinity
  <1> QED
    BY <1>2, SelectorsAgree DEF SchedulerNodeAffinity

\* What checkPodAffinityTerm finds is what the scheduler counts.
LEMMA TermsAgree ==
  ASSUME Ordinary(pod, nodes, others), NEW n \in DOMAIN nodes,
         NEW term \in pod.affinity \cup pod.antiAffinity
  PROVE  Meets(n, term) <=>
           \E q \in Running : SchedulerSelects(pod, term, q) /\ SameDomain(n, q.node, term.topologyKey)
  <1>1. ~term.selector.nil /\ ~term.allNamespaces
    BY DEF Ordinary
  <1>2. \A q : Selects(term, q) <=> SchedulerSelects(pod, term, q)
    BY <1>1 DEF Selects, SchedulerSelects
  <1>3. ASSUME NEW m \in DOMAIN nodes
        PROVE  SameDomain(n, m, term.topologyKey) <=>
                 /\ Lookup(nodes[n].labels, term.topologyKey) # ""
                 /\ Lookup(nodes[m].labels, term.topologyKey) = Lookup(nodes[n].labels, term.topologyKey)
    <2> DEFINE key == term.topologyKey
               one == nodes[n].labels
               two == nodes[m].labels
    <2>1. /\ Has(one, key) => Lookup(one, key) = one[key] /\ one[key] # ""
          /\ ~Has(one, key) => Lookup(one, key) = ""
          /\ Has(two, key) => Lookup(two, key) = two[key] /\ two[key] # ""
          /\ ~Has(two, key) => Lookup(two, key) = ""
      BY LabelsTold
    <2>2. SameDomain(n, m, key) <=> Has(one, key) /\ Has(two, key) /\ one[key] = two[key]
      BY DEF SameDomain
    <2> QED
      BY <2>1, <2>2
  <1>4. Running = {q \in others : q.node \in DOMAIN nodes}
    BY DEF Running, Ordinary
  <1> QED
    BY <1>2, <1>3, <1>4 DEF Meets

LEMMA PodAffinityAgrees ==
  ASSUME Ordinary(pod, nodes, others), NEW n \in DOMAIN nodes
  PROVE  /\ PassesPodAffinity(n) => SchedulerPodAffinity(n)
         /\ Specific(pod) /\ SchedulerPodAffinity(n) => PassesPodAffinity(n)
  <1> DEFINE Met(term) ==
        \E q \in Running : SchedulerSelects(pod, term, q) /\ SameDomain(n, q.node, term.topologyKey)
  <1>1. \A term \in pod.affinity \cup pod.antiAffinity : Meets(n, term) <=> Met(term)
    BY TermsAgree
  <1>2. PassesPodAffinity(n) <=>
          (\A term \in pod.affinity : Met(term)) /\ (\A term \in pod.antiAffinity : ~Met(term))
    BY <1>1 DEF PassesPodAffinity
  <1>3. \A q \in Running : \A term \in q.antiAffinity : ~SchedulerSelects(q, term, pod)
    BY DEF Running, Ordinary
  <1>4. Specific(pod) /\ FirstOfItsGroup(n) => pod.affinity = {}
    BY DEF Specific, FirstOfItsGroup
  <1>5. PassesPodAffinity(n) => SchedulerPodAffinity(n)
    BY <1>2, <1>3 DEF SchedulerPodAffinity
  <1>6. Specific(pod) /\ SchedulerPodAffinity(n) => PassesPodAffinity(n)
    BY <1>2, <1>4 DEF SchedulerPodAffinity
  <1> QED
    BY <1>5, <1>6

-------------------------------------------------------------------------------
(***************************************************************************)
(* In any ordinary situation, of whatever size, a node that canSchedule    *)
(* accepts is one that the scheduler's filters admit the pod to, taints,   *)
(* selectors, node affinity and pod affinity together.                     *)
(***************************************************************************)
THEOREM PlannerTargetsPass ==
  ASSUME OrdinarySituations
  PROVE  Spec => []TargetsPassFilters
  <1>1. SituationOK => TargetsPassFilters
    <2> SUFFICES ASSUME SituationOK, pc = "planned", NEW n \in targets PROVE PassesSchedulerFilters(n)
      BY DEF TargetsPassFilters
    <2>1. n \in DOMAIN nodes /\ CanSchedule(n)
      BY DEF SituationOK
    <2>2. Ordinary(pod, nodes, others)
      BY DEF SituationOK, OrdinarySituations
    <2> QED
      BY <2>1, <2>2, TaintsAgree, NodeAffinityAgrees, PodAffinityAgrees DEF CanSchedule, PassesSchedulerFilters
  <1> QED
    BY <1>1, SituationInvariant, PTL

(***************************************************************************)
(* And for pods whose tolerations have a key and that do not ask for their *)
(* own kind, canSchedule accepts every node that passes the scheduler's    *)
(* filters for taints and affinities: no target is lost to the empty       *)
(* string a Go map returns for a missing label (evaluateCandidate).        *)
(***************************************************************************)
THEOREM PlannerMissesNoTarget ==
  ASSUME OrdinarySituations, SpecificPods
  PROVE  Spec => []NoTargetMissed
  <1>1. SituationOK => NoTargetMissed
    <2> SUFFICES ASSUME SituationOK, pc = "planned", NEW n \in DOMAIN nodes, PassesSchedulerFilters(n)
                 PROVE  n \in targets
      BY DEF NoTargetMissed
    <2>1. Ordinary(pod, nodes, others) /\ Specific(pod)
      BY DEF SituationOK, OrdinarySituations, SpecificPods
    <2>2. CanSchedule(n)
      BY <2>1, TaintsAgree, NodeAffinityAgrees, PodAffinityAgrees DEF CanSchedule, PassesSchedulerFilters
    <2> QED
      BY <2>2 DEF SituationOK
  <1> QED
    BY <1>1, SituationInvariant, PTL
=============================================================================
