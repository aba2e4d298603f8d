--------------------------- MODULE CandidateFilter ---------------------------
(***************************************************************************)
(* Which pods a reconcile may evict: the reads of Planner.Snapshot,        *)
(* filterCandidates with its predicates, and the evictions that follow.    *)
(*                                                                         *)
(* The snapshot is not one read.  The policy, the pods, the budgets and    *)
(* the SLOs are read one after the other, the guards of a pod are judged   *)
(* on what was read, and evictions follow later; meanwhile owners pin and  *)
(* unpin pods, pods lose readiness, budgets are spent, and policies and    *)
(* SLOs are edited.                                                        *)
(*                                                                         *)
(* Abstracted: a selector is the set of labels (or, for a budget, of pods) *)
(* it matches; which nodes are hot is a choice (GreedyPlan computes it),   *)
(* and so is which candidates are tried, in which order (GreedyPlan,       *)
(* EvictionLoop).  Policy and SLOs are those of the informer cache they    *)
(* are read from: an edit is its arrival there.                            *)
(***************************************************************************)
EXTENDS Integers, FiniteSets, Functions

CONSTANTS
  Pods, Nodes, Namespaces, Labels,
  AnyNamespace,     \* "*" in an include or exclude list
  Attributes,       \* per pod: what does not change while it lives
  Budgets,          \* the PodDisruptionBudgets
  Covers,           \* per budget: the pods of its namespace that it selects
  Policies,         \* the specs the policy may have
  SLOLists,         \* per namespace: the sets of WorkloadSLOs it may have
  ClassValue,       \* per PriorityClass
  CriticalPriority, \* 2000000000
  GiB,              \* units of volume size in a GiB
  EmptyDirLimitGi,
  MaxAllowance,     \* bound: DisruptionsAllowed of a budget
  MaxTime,          \* bound: last instant of the clock
  MaxEdits          \* bound: what others change in a behaviour

Never == -1       \* no eviction recorded, or not ready
Unlimited == -1   \* an emptyDir without a size limit
NoNode == "unscheduled"
NoClass == "none"

PodAttributes ==
  [namespace : Namespaces, node : Nodes \cup {NoNode}, label : Labels,
   kind : {"ReplicaSet", "StatefulSet", "DaemonSet"},
   priority : Int, class : DOMAIN ClassValue \cup {NoClass},
   emptyDirs : SUBSET (Nat \cup {Unlimited}), hostPath : BOOLEAN]

Selector == [valid : BOOLEAN, labels : SUBSET Labels]

PolicySpec ==
  [include : SUBSET (Namespaces \cup {AnyNamespace}),
   exclude : SUBSET (Namespaces \cup {AnyNamespace}),
   selectors : SUBSET Selector, respectPodPriority : BOOLEAN, respectPDB : BOOLEAN,
   backoff : Nat]

\* What the filter reads of an SLO; no code reads its ProtectedLabels.
WorkloadSLO == [minReady : Nat, allowStatefulSet : BOOLEAN]

\* A namespace without an SLO is one whose SLO asks and allows nothing.
NoSLO == [minReady |-> 0, allowStatefulSet |-> FALSE]

ASSUME PodsAssumption ==
  /\ Attributes \in [Pods -> PodAttributes]
  /\ Covers \in [Budgets -> SUBSET Pods]
  /\ \A c \in DOMAIN ClassValue : ClassValue[c] \in Int
ASSUME PolicyAssumption ==
  /\ Policies \subseteq PolicySpec /\ Policies # {}
  /\ SLOLists \in [Namespaces -> SUBSET SUBSET WorkloadSLO]
  /\ {CriticalPriority, GiB, EmptyDirLimitGi} \subseteq Nat \ {0}
ASSUME NamesAssumption == NoNode \notin Nodes
ASSUME BoundsAssumption == {MaxAllowance, MaxTime, MaxEdits} \subseteq Nat

VARIABLES
  now,
  policy, pinned, readySince, allowance, slos, edits,  \* the cluster as it is
  pc,          \* where the reconcile is
  seen,        \* what it has read
  hot,         \* the hot nodes it found
  candidates,  \* the pods it may still evict
  history,     \* Planner.history
  exposed,     \* per guard: the pods free of it at some moment since Get
  guarded      \* the pods held by some guard at some moment since Get

world == <<policy, pinned, readySince, allowance, slos, edits>>
observers == <<exposed, guarded>>
vars == <<now, world, pc, seen, hot, candidates, history, observers>>

Unread ==
  [policy |-> CHOOSE q \in Policies : TRUE, pinned |-> {},
   readySince |-> [p \in Pods |-> Never], allowance |-> [b \in Budgets |-> 0],
   slo |-> [ns \in Namespaces |-> NoSLO]]

-------------------------------------------------------------------------------
(***************************************************************************)
(* The predicates of filterCandidates, on what was read.                   *)
(***************************************************************************)
NamespaceOf(p) == Attributes[p].namespace

Allow_StarWins(q, ns) ==
  \/ q.include = {} /\ ns \notin q.exclude
  \/ AnyNamespace \in q.include
  \/ ns \in q.include /\ ns \notin q.exclude

\* namespaceRules.Allow
Allow(q, ns) ==
  /\ ns \notin q.exclude
  /\ q.include = {} \/ AnyNamespace \in q.include \/ ns \in q.include

\* buildSelectorSet drops the selectors it cannot compile; with none left
\* every pod matches.
MatchesSelectors(q, p) ==
  LET compiled == {s \in q.selectors : s.valid}
  IN compiled # {} => \E s \in compiled : Attributes[p].label \in s.labels

IsHighPriority(p) ==
  \/ Attributes[p].priority >= CriticalPriority
  \/ /\ Attributes[p].class \in DOMAIN ClassValue
     /\ ClassValue[Attributes[p].class] >= CriticalPriority

PdbAllows(p) ==
  \A b \in Budgets : p \in Covers[b] => seen.allowance[b] > 0

MeetsMinReady_Strict(p, minReady) ==
  /\ seen.readySince[p] # Never
  /\ now - seen.readySince[p] > minReady

MeetsMinReady(p, minReady) ==
  /\ seen.readySince[p] # Never
  /\ now - seen.readySince[p] >= minReady

\* A size is cut to whole GiB before it is compared.
SkipLocalStorage(p) ==
  \/ Attributes[p].hostPath
  \/ \E size \in Attributes[p].emptyDirs :
       size = Unlimited \/ size \div GiB > EmptyDirLimitGi

Memory == INSTANCE PlannerMemory WITH Hour <- 1

\* filterCandidates, without the sort.
FilterCandidates(hotNodes) ==
  {p \in Pods :
     LET slo == seen.slo[NamespaceOf(p)] IN
     /\ Attributes[p].node # NoNode
     /\ Allow(seen.policy, NamespaceOf(p))
     /\ MatchesSelectors(seen.policy, p)
     /\ p \notin seen.pinned
     /\ seen.policy.respectPodPriority => ~IsHighPriority(p)
     /\ Attributes[p].kind # "DaemonSet"
     /\ seen.policy.respectPDB => PdbAllows(p)
     /\ Attributes[p].kind = "StatefulSet" => slo.allowStatefulSet
     /\ slo.minReady > 0 => MeetsMinReady(p, slo.minReady)
     /\ ~SkipLocalStorage(p)
     /\ Attributes[p].node \in hotNodes
     /\ ~Memory!HasBackoff(history[p], now, seen.policy.backoff)}

-------------------------------------------------------------------------------
(***************************************************************************)
(* The guards on the cluster as it is.  A reconcile stands by the policy   *)
(* it got.  A selector that does not compile restricts nothing, and of     *)
(* several SLOs of a namespace one counts, which one is open: a pod they   *)
(* disagree on is contested.  The limit on a volume counts whole GiB.      *)
(***************************************************************************)
GuardedPods ==
  LET inForce == IF pc = "idle" THEN policy ELSE seen.policy
      slosOf(p) == slos[NamespaceOf(p)]
      statefulSets == {p \in Pods : Attributes[p].kind = "StatefulSet"}
  IN
  [namespace |-> {p \in Pods :
     \/ NamespaceOf(p) \in inForce.exclude
     \/ inForce.include # {} /\ inForce.include \cap {NamespaceOf(p), AnyNamespace} = {}},
   selector |-> {p \in Pods :
     /\ \E s \in inForce.selectors : s.valid
     /\ \A s \in inForce.selectors : s.valid => Attributes[p].label \notin s.labels},
   pinned |-> pinned,
   priority |-> {p \in Pods : inForce.respectPodPriority /\ IsHighPriority(p)},
   daemonSet |-> {p \in Pods : Attributes[p].kind = "DaemonSet"},
   pdb |-> {p \in Pods : inForce.respectPDB /\ \E b \in Budgets : p \in Covers[b] /\ allowance[b] = 0},
   statefulSet |-> {p \in statefulSets : \A slo \in slosOf(p) : ~slo.allowStatefulSet},
   contested |-> {p \in statefulSets : \E slo \in slosOf(p) : ~slo.allowStatefulSet},
   notReady |-> {p \in Pods : readySince[p] = Never},
   minReady |-> {p \in Pods : \E slo \in slosOf(p) :
     slo.minReady > 0 /\ (readySince[p] = Never \/ now < readySince[p] + slo.minReady)},
   storage |-> {p \in Pods :
     \/ Attributes[p].hostPath
     \/ \E size \in Attributes[p].emptyDirs : size = Unlimited \/ size >= (EmptyDirLimitGi + 1) * GiB},
   backoff |-> {p \in Pods : history[p] # Never /\ now < history[p] + inForce.backoff}]

Guards == {"namespace", "selector", "pinned", "priority", "daemonSet", "pdb", "statefulSet",
           "contested", "notReady", "minReady", "storage", "backoff"}

\* What the observers have noted since Get, the new state included.
ObservedSince(before, held) ==
  \E holding \in {GuardedPods'} :
    /\ exposed' = [g \in Guards |-> before[g] \cup (Pods \ holding[g])]
    /\ guarded' = held \cup UNION Range(holding)
Observed == ObservedSince(exposed, guarded)

NotObserved ==
  /\ exposed' = [g \in Guards |-> {}]
  /\ guarded' = {}

SLOsOK(s) == \A ns \in Namespaces : s[ns] \in SLOLists[ns]

Init ==
  /\ now = 0
  /\ policy \in Policies
  /\ pinned = {}
  /\ readySince = [p \in Pods |-> 0]
  /\ allowance = [b \in Budgets |-> MaxAllowance]
  /\ slos \in {s \in [Namespaces -> UNION Range(SLOLists)] : SLOsOK(s)}
  /\ edits = 0
  /\ pc = "idle"
  /\ seen = Unread
  /\ hot = {}
  /\ candidates = {}
  /\ history = [p \in Pods |-> Never]
  /\ exposed = [g \in Guards |-> {}]
  /\ guarded = {}

-------------------------------------------------------------------------------
(***************************************************************************)
(* The cluster (external).                                                 *)
(***************************************************************************)
Edit ==
  /\ edits < MaxEdits
  /\ edits' = edits + 1
  /\ UNCHANGED <<now, pc, seen, hot, candidates, history>>
  /\ IF pc = "idle" THEN UNCHANGED observers ELSE Observed

Annotate(p) ==
  /\ pinned' = IF p \in pinned THEN pinned \ {p} ELSE pinned \cup {p}
  /\ UNCHANGED <<policy, readySince, allowance, slos>>
  /\ Edit

Readiness(p) ==
  /\ readySince' = [readySince EXCEPT ![p] = IF @ = Never THEN now ELSE Never]
  /\ UNCHANGED <<policy, pinned, allowance, slos>>
  /\ Edit

\* The disruption controller writes DisruptionsAllowed.
BudgetStatus(b) ==
  /\ allowance' \in {[allowance EXCEPT ![b] = k] : k \in 0..MaxAllowance}
  /\ UNCHANGED <<policy, pinned, readySince, slos>>
  /\ Edit

EditPolicy ==
  /\ policy' \in Policies
  /\ UNCHANGED <<pinned, readySince, allowance, slos>>
  /\ Edit

EditSLOs(ns) ==
  /\ slos' \in {[slos EXCEPT ![ns] = list] : list \in SLOLists[ns]}
  /\ UNCHANGED <<policy, pinned, readySince, allowance>>
  /\ Edit

Tick ==
  /\ now < MaxTime
  /\ now' = now + 1
  /\ UNCHANGED <<world, pc, seen, hot, candidates, history>>
  /\ IF pc = "idle" THEN UNCHANGED observers ELSE Observed

-------------------------------------------------------------------------------
(***************************************************************************)
(* One reconcile: Get, the lists of Snapshot in their order, the filter,   *)
(* the evictions.                                                          *)
(***************************************************************************)
Get ==
  /\ pc = "idle"
  /\ pc' = "listPods"
  /\ seen' = [seen EXCEPT !.policy = policy]
  /\ UNCHANGED <<now, world, hot, candidates, history>>
  /\ ObservedSince([g \in Guards |-> {}], {})

ListPods ==
  /\ pc = "listPods"
  /\ pc' = "listBudgets"
  /\ seen' = [policy |-> seen.policy, pinned |-> pinned, readySince |-> readySince,
              allowance |-> seen.allowance, slo |-> seen.slo]
  /\ UNCHANGED <<now, world, hot, candidates, history>>
  /\ Observed

ListBudgets ==
  /\ pc = "listBudgets"
  /\ pc' = "listSLOs"
  /\ seen' = [seen EXCEPT !.allowance = allowance]
  /\ UNCHANGED <<now, world, hot, candidates, history>>
  /\ Observed

\* The map of SLOs is by namespace: the last one of the list stays.
ListSLOs ==
  /\ pc = "listSLOs"
  /\ pc' = "filter"
  /\ \E last \in [Namespaces -> UNION Range(slos) \cup {NoSLO}] :
       /\ \A ns \in Namespaces : IF slos[ns] = {} THEN last[ns] = NoSLO ELSE last[ns] \in slos[ns]
       /\ seen' = [seen EXCEPT !.slo = last]
  /\ UNCHANGED <<now, world, hot, candidates, history>>
  /\ Observed

\* Reconcile is over: nothing of it is kept but the planner's history.
Finish ==
  /\ pc' = "idle"
  /\ seen' = Unread
  /\ hot' = {}
  /\ candidates' = {}
  /\ NotObserved

\* A list fails, and with it the snapshot.
SnapshotFails ==
  /\ pc \in {"listPods", "listBudgets", "listSLOs"}
  /\ Finish
  /\ UNCHANGED <<now, world, history>>

Filter ==
  /\ pc = "filter"
  /\ pc' = "evicting"
  /\ hot' \in SUBSET Nodes
  /\ candidates' = FilterCandidates(hot')
  /\ UNCHANGED <<now, world, seen, history>>
  /\ Observed

\* The budgets the API server consults for p; it refuses to judge by two.
Covering(p) == {b \in Budgets : p \in Covers[b]}

EvictOK_Unchecked(p) ==
  /\ pc = "evicting"
  /\ p \in candidates
  /\ Cardinality(Covering(p)) <= 1
  /\ allowance' = [b \in Budgets |-> IF p \in Covers[b] THEN allowance[b] - 1 ELSE allowance[b]]
  /\ readySince' = [readySince EXCEPT ![p] = Never]
  /\ history' = [history EXCEPT ![p] = now]
  /\ candidates' = candidates \ {p}
  /\ UNCHANGED <<now, policy, pinned, slos, edits, pc, seen, hot>>
  /\ Observed

\* The server evicts p and RecordEviction notes it.  The pod of that name that
\* takes its place is not ready yet.
EvictOK(p) ==
  /\ pc = "evicting"
  /\ p \in candidates
  /\ Cardinality(Covering(p)) <= 1
  /\ \A b \in Covering(p) : allowance[b] > 0
  /\ allowance' = [b \in Budgets |-> IF p \in Covers[b] THEN allowance[b] - 1 ELSE allowance[b]]
  /\ readySince' = [readySince EXCEPT ![p] = Never]
  /\ history' = [history EXCEPT ![p] = now]
  /\ candidates' = candidates \ {p}
  /\ UNCHANGED <<now, policy, pinned, slos, edits, pc, seen, hot>>
  /\ Observed

\* 429, for which the server has more reasons than a spent budget (a budget
\* whose status is behind, load): the reconcile gives up the rest of its plan.
EvictTooManyRequests(p) ==
  /\ pc = "evicting"
  /\ p \in candidates
  /\ Finish
  /\ UNCHANGED <<now, world, history>>

\* Another error, or an entry the plan or its limits leave out.
NotEvicted(p) ==
  /\ pc = "evicting"
  /\ p \in candidates
  /\ candidates' = candidates \ {p}
  /\ UNCHANGED <<now, world, pc, seen, hot, history>>
  /\ Observed

UpdateStatus ==
  /\ pc = "evicting"
  /\ candidates = {}
  /\ Finish
  /\ UNCHANGED <<now, world, history>>

Next ==
  \/ \E p \in Pods : Annotate(p)
  \/ \E p \in Pods : Readiness(p)
  \/ \E b \in Budgets : BudgetStatus(b)
  \/ EditPolicy
  \/ \E ns \in Namespaces : EditSLOs(ns)
  \/ Tick
  \/ Get
  \/ ListPods
  \/ ListBudgets
  \/ ListSLOs
  \/ SnapshotFails
  \/ Filter
  \/ \E p \in Pods : EvictOK(p)
  \/ \E p \in Pods : EvictTooManyRequests(p)
  \/ \E p \in Pods : NotEvicted(p)
  \/ UpdateStatus

Spec == Init /\ [][Next]_vars
-------------------------------------------------------------------------------
(***************************************************************************)
(* Properties                                                              *)
(***************************************************************************)
\* Types of the variables; a budget is never overdrawn.
TypeOK ==
  /\ now \in Nat
  /\ policy \in Policies
  /\ pinned \subseteq Pods
  /\ readySince \in [Pods -> Nat \cup {Never}]
  /\ allowance \in [Budgets -> Nat]
  /\ DOMAIN slos = Namespaces /\ SLOsOK(slos)
  /\ edits \in Nat
  /\ pc \in {"idle", "listPods", "listBudgets", "listSLOs", "filter", "evicting"}
  /\ seen.policy \in Policies
  /\ seen.pinned \subseteq Pods
  /\ seen.readySince \in [Pods -> Nat \cup {Never}]
  /\ seen.allowance \in [Budgets -> Nat]
  /\ seen.slo \in [Namespaces -> WorkloadSLO]
  /\ hot \subseteq Nodes
  /\ candidates \subseteq Pods
  /\ history \in [Pods -> Nat \cup {Never}]
  /\ exposed \in [Guards -> SUBSET Pods]
  /\ guarded \subseteq Pods

(***************************************************************************)
(* A guard set before a reconcile starts and kept through it is never      *)
(* overridden by it, however the reads of the snapshot interleave with     *)
(* other changes and whatever was evicted before; and a pod of a namespace *)
(* with a readiness window was ready at some moment of it                  *)
(* (filterCandidates).  The length of that window is not promised: the     *)
(* clock is read after the lists, so the time they take counts as ready.   *)
(***************************************************************************)
GuardsHonoured ==
  /\ \A g \in Guards \ {"contested", "notReady", "minReady"} : candidates \subseteq exposed[g]
  /\ {p \in candidates : seen.slo[NamespaceOf(p)].minReady > 0} \subseteq exposed["notReady"]

(***************************************************************************)
(* The other way round: a pod of a hot node that no guard held at any      *)
(* moment of the reconcile, and that was ready throughout, is a candidate  *)
(* of it.  The filter withholds nothing for a reason of its own.           *)
(***************************************************************************)
NothingWithheld ==
  [][pc = "filter" /\ pc' = "evicting" =>
       \A p \in Pods : Attributes[p].node \in hot' /\ p \notin guarded' => p \in candidates']_vars
=============================================================================
