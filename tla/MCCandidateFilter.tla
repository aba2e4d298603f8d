-------------------------- MODULE MCCandidateFilter --------------------------
(* Two pods of one budget in a namespace with SLOs, one of them of a       *)
(* StatefulSet; a pod of a critical class in a namespace without.          *)
(* Half a GiB is one unit of volume size.                                  *)
EXTENDS CandidateFilter, TLC

CONSTANTS web, db, job, n1, n2, prod, dev, ok, other, b1, any, critical

Attr(ns, node, label, kind, class, emptyDirs) ==
  [namespace |-> ns, node |-> node, label |-> label, kind |-> kind, priority |-> 0,
   class |-> class, emptyDirs |-> emptyDirs, hostPath |-> FALSE]

\* web mounts two and a half GiB, over the limit but not by a whole GiB.
MCAttributes ==
  (web :> Attr(prod, n1, ok, "ReplicaSet", NoClass, {5})) @@
  (db :> Attr(prod, n1, other, "StatefulSet", NoClass, {})) @@
  (job :> Attr(dev, n2, ok, "ReplicaSet", critical, {}))

MCCovers == b1 :> {web, db}
MCClassValue == critical :> 2

Policy(include, exclude, selectors, respectful, backoff) ==
  [include |-> include, exclude |-> exclude, selectors |-> selectors,
   respectPodPriority |-> respectful, respectPDB |-> respectful, backoff |-> backoff]
OptIn == [valid |-> TRUE, labels |-> {ok}]
Mistyped == [valid |-> FALSE, labels |-> {}]

MCPolicies ==
  {Policy({}, {}, {Mistyped}, TRUE, 1),
   Policy({any}, {dev}, {Mistyped, OptIn}, FALSE, 2),
   Policy({prod, dev}, {}, {}, FALSE, 2)}

SLO(minReady, allowStatefulSet) == [minReady |-> minReady, allowStatefulSet |-> allowStatefulSet]

\* In prod no SLO, one, or two that disagree.
MCSLOLists ==
  (prod :> {{}, {SLO(2, FALSE)}, {SLO(1, TRUE), SLO(2, FALSE)}}) @@ (dev :> {{}})
=============================================================================
