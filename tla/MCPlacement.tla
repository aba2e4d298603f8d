----------------------------- MODULE MCPlacement -----------------------------
EXTENDS Placement, TLC

MCNumber == ("1" :> 1) @@ ("2" :> 2)

Plain ==
  [namespace |-> "app", label |-> "web", tolerations |-> {}, nodeSelector |-> <<>>,
   nodeAffinity |-> {}, affinity |-> {}, antiAffinity |-> {}]

Node(labels, taints) == [labels |-> labels, taints |-> taints]

(* Taints: every pair of tolerations against every pair of taints. *)
Taints == [key : {"gpu", "spot"}, value : {"", "1"}, effect : {"NoSchedule", "NoExecute", "PreferNoSchedule"}]
Tolerations ==
  [key : {"gpu", "spot"}, operator : {"Equal"}, value : {"", "1"}, effect : {"", "NoSchedule", "NoExecute"}]
    \cup [key : {"gpu", "spot"}, operator : {"Exists"}, value : {""}, effect : {"", "NoSchedule"}]

TaintSituations ==
  [pods |-> {[Plain EXCEPT !.tolerations = {a, b}] : a \in Tolerations, b \in Tolerations},
   nodeMaps |-> {[n \in {"n1"} |-> Node(<<>>, {s, t})] : s \in Taints, t \in Taints},
   neighbourhoods |-> {{}}]

(* Labels: one label, of which the value may be missing, text or a number. *)
Labelled(values) == {"arch" :> v : v \in values} \cup {<<>>}

Requirements(values) ==
  [key : {"arch"}, operator : {"In", "NotIn"}, values : {{v} : v \in values} \cup {values}]
    \cup [key : {"arch"}, operator : {"Exists", "DoesNotExist"}, values : {{}}]
    \cup [key : {"arch"}, operator : {"Gt", "Lt"}, values : {{"1"}, {"2"}}]

FieldRequirements == [key : {"metadata.name"}, operator : {"In", "NotIn"}, values : {{"n1"}}]

Terms(values) ==
  {[expressions |-> e, fields |-> f] :
     e \in {{r} : r \in Requirements(values)}, f \in {{}} \cup {{r} : r \in FieldRequirements}}

LabelSituations(values, asked) ==
  [pods |-> {[Plain EXCEPT !.nodeSelector = selector, !.nodeAffinity = terms] :
               selector \in Labelled(asked), terms \in {{}} \cup {{s, t} : s \in Terms(asked), t \in Terms(asked)}},
   nodeMaps |-> {[n \in {"n1", "n2"} |-> Node(IF n = "n1" THEN one ELSE two, {})] :
                   one \in Labelled(values), two \in Labelled(values)},
   neighbourhoods |-> {{}}]

(* Neighbours: two nodes in a zone, one in another and one in none. *)
Zones ==
  [n \in {"n1", "n2", "n3", "n4"} |->
     Node(IF n = "n4" THEN "host" :> n
          ELSE ("host" :> n) @@ ("zone" :> IF n = "n3" THEN "b" ELSE "a"), {})]

Term(label, namespaces, key) ==
  [selector |-> [nil |-> FALSE, labels |-> {label}], namespaces |-> namespaces,
   allNamespaces |-> FALSE, topologyKey |-> key]

PodTerms == {Term("db", ns, key) : ns \in {{}, {"sys"}, {"app", "sys"}}, key \in {"host", "zone"}}

Neighbours(finished, antiAffinity) ==
  [namespace : {"app", "sys"}, label : {"db", "web"}, node : {"n1", "n3", "n4", "gone"},
   finished : finished, antiAffinity : antiAffinity]

NeighbourSituations(finished, antiAffinity) ==
  LET terms == {{}} \cup {{t} : t \in PodTerms} IN
    [pods |-> {[Plain EXCEPT !.affinity = a, !.antiAffinity = b] : a \in terms, b \in terms},
     nodeMaps |-> {Zones},
     neighbourhoods |-> {{q, r} : q \in Neighbours(finished, antiAffinity),
                                  r \in Neighbours(finished, antiAffinity)}]

MCSituations ==
  {TaintSituations, LabelSituations({"1", "2", "arm"}, {"1", "2", "arm"}),
   NeighbourSituations({FALSE}, {{}, {Term("db", {"app"}, "zone")}})}

\* The hypotheses of the theorems.
ASSUME InstanceAssumption == OrdinarySituations /\ SpecificPods
=============================================================================
