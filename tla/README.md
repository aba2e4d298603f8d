# Rebalancer operator: a TLA+ model

The operator watches the load of the nodes of a Kubernetes cluster and evicts pods from
hot nodes, so that the scheduler places them on colder ones.  What it must never do is
disrupt more than it was allowed to, override a guard somebody set, or make the balance
worse.  The modules here model the reconcile loop and the queue that drives it, the
planner with its memory, its scoring, its filters and its placement predicates, and what the
operator shows of itself: status, metrics, dashboard.

Paths are relative to `src/`; `planner.go` is `controllers/planner/planner.go`,
`predicates.go` its neighbour.

## 1. The system

| Component | State | Operations | Interacts with |
|---|---|---|---|
| `PolicyReconciler` (`controllers/policy_controller.go`) | none of its own; the status of a `RebalancePolicy` | `Reconcile`, `updateStatus` | reads the policy from the informer cache, calls `Planner.Snapshot`, `Planner.Plan`, `Evictor.Evict`, `Planner.RecordEviction`; one worker for all policies |
| `Planner`, memory and budgets (`planner.go`) | `history` (pod to last eviction), `nsHistory` (namespace to eviction times), both maps in memory under a mutex | `RecordEviction`, `canDisruptNamespace`, `remainingNamespaceBudget`, `lastEvicted`, the budget loop of `Plan` | the clock |
| `Planner`, scoring (`planner.go`) | a `Snapshot` per reconcile; the usage of its nodes is moved along while planning | `classifyNodes`, `computeVariance`, `greedyPlan`, `evaluateCandidate`, `simulateVariance`, `applyMove` | placement predicates |
| `Planner`, snapshot and filter (`planner.go`) | a `Snapshot` per reconcile | `Snapshot`, `filterCandidates` and its predicates | API server (nodes, pods, budgets, priority classes), informer cache (SLOs, node classes), metrics |
| Placement (`predicates.go`) | none | taints, node selector, node affinity, pod (anti-)affinity | the snapshot |
| `Evictor` (`controllers/executors/eviction.go`) | none | `Evict` | eviction subresource of the API server |
| Custom resources (`api/v1`) | the objects | defaults and bounds in the CRDs | users edit them at any time |
| Metrics provider (`pkg/metrics`) | clients | `CollectNodeMetrics`, `CollectPodMetrics` | metrics-server, Prometheus |
| Observability (`pkg/observability`) | gauges, counters | `Record...` | written by `Reconcile` |
| Dashboard (`pkg/dashboard`) | its dependencies, under a mutex | `Data`, `Static`, `Attach` | the same lists, read-only |
| Manager (`cmd/manager`) | none | start-up, leader election | all |

What is hard in it:

* **Check and use are apart.**  Budgets are checked while the plan is made and consumed
  when an eviction is acknowledged; backoff, budgets and readiness are judged on a
  snapshot of seven reads, and used minutes later.
* **Partial failure.**  A plan is executed one call at a time.  A call may be refused
  with 429 (the rest of the plan is dropped), fail otherwise (the plan goes on), or
  succeed with its answer lost.
* **Restarts.**  The memory of the planner is lost with the process.
* **Two copies of one number.**  The simulation keeps a map of utilizations and the usage
  of the nodes, and updates them with two functions.
* **Its own echo.**  The status a reconcile writes is a change of the object it watches.
* **Two views.**  Planner and dashboard, planner and scheduler, operator and metrics server
  each judge the same thing by code or data of their own.
* **Order.**  Candidates are taken in priority order, each simulated on top of the moves
  accepted before; the plan is then sorted by score and cut by budgets, so that what runs
  is a subset nobody simulated.

The correctness properties per component: reconciler and memory: the limits of a plan hold for
what the API server did, hourly budget and backoff for the evictions acknowledged to the
running process only (a restart or a lost answer is outside of what the code keeps); scoring:
the plan does what its scores say and never worsens the balance; filter: guards are honoured
and nothing else is withheld; placement: the planned target passes the scheduler's filters for
taints and affinities; observability and status: what is reported is what happened.

## 2. Modules

| Module | What it is |
|---|---|
| `PlannerMemory` | operators: what the planner computes from its two maps |
| `EvictionLoop` | state machine of one worker: reconcile, budget loop, eviction loop, memory, clock, failures, restarts |
| `DisruptionGuard` | abstract specification: a log of spaced, budgeted disruptions |
| `ObservedEvictions` | `EvictionLoop` with the counters and the budget gauge it writes |
| `EvictionLoopProofs` | theorems about `EvictionLoop`, that `ObservedEvictions` implements it, and that its metrics are true |
| `GreedyPlan` | classification and greedy planning over one snapshot |
| `GreedyPlanProofs` | theorems about `GreedyPlan`, with proofs |
| `Placement` | the predicates behind a target, against the scheduler's filters |
| `PlacementProofs` | theorems about `Placement`, with proofs |
| `CandidateFilter` | the reads of a snapshot, the filter, the evictions, in a cluster that changes meanwhile |
| `CandidateFilterProofs` | theorems about `CandidateFilter`, with proofs |
| `EvictionProgress` | successive plans over budgets that refuse: does anything get through |
| `ReconcileQueue` | watch, work queue, timers and the single worker: when a policy is reconciled |
| `ReconcileQueueProofs` | theorems about `ReconcileQueue`, with proofs |
| `PolicyStatus` | the status of a policy as merge patches from stale copies write it |
| `PolicyStatusProofs` | theorems about `PolicyStatus`, with proofs |
| `NodeTemperature` | metrics server, provider, and the two readers that call nodes hot or cold |
| `NodeTemperatureProofs` | theorems about `NodeTemperature`, with proofs |
| `ObjectCopies` | the hand-written deep copies of `api/v1` over shared memory |
| `ObjectCopiesProofs` | theorems about `ObjectCopies`, with proofs |
| `MC...` | values for the constants of the runs |

`ObservedEvictions` composes with `EvictionLoop` (each of its actions is one of the loop's
with the calls of the recorder).  The others abstract each other: `GreedyPlan` takes the
outcome of `Placement` as constants, `PolicyStatus` and `EvictionProgress` begin a reconcile
at any moment and rest, for "again and again", on what `ReconcileQueue` shows.

### EvictionLoop

The worker's program counter is `pc`.  `Snapshot` is `Reconcile` up to `greedyPlan`: it reads a
policy and picks any set of pods out of backoff as the plan.  `BudgetEntry(p)` is one iteration
of `Plan`'s loop, including what `canDisruptNamespace` stores back into `nsHistory`; `slos` are
the hourly limits as this snapshot listed them, any of `HourlyLimits` each time, since users
edit them at any moment; `FinishPlan` is the loop over `namespaceCounts` and the branch on
`DryRun`. `EvictOK`, `EvictReplyLost`, `EvictFailed` and `EvictTooManyRequests` are the
outcomes of one call of `Evictor.Evict`; `UpdateStatus` ends the reconcile.  `Tick` runs the
clock between any two steps and `Restart` empties the memory.  `evictions` is the API server's
record of what it did, which the operator never sees: properties are stated over it.

The order of a plan's entries is any order (`BudgetEntry` takes any planned pod), which
covers the order `greedyPlan` gives them.  Reconciles of several policies are serial
(`MaxConcurrentReconciles: 1`) and share the memory, so a policy is picked anew by each
`Snapshot`.  `DisruptionGuard` has the rule in force as a variable of its own, which `Adopt`
replaces: a step there is the `Snapshot` of a reconcile with another policy or other limits.

### GreedyPlan

`Classify` is `classifyNodes` and the start of `greedyPlan`; `Skip` and `Move` are one
iteration of its loop; `SortPlan` its last step; `Replan` the next reconcile.  A
utilization is an integer: units of 1/(10 * `Scale`), `Scale` a multiple of all allocatable
amounts, weights in tenths; a variance is multiplied by the square of the number of nodes.
`setting` is the cluster and the policy that a behaviour is about, one of `Settings`.
All comparisons of the code are exact here; rounding of floating point is not modelled.
Ties among targets (an unstable sort over a map's order) are a choice.  `Outcome(E)` is what
executing a set of entries does to the measured usage, stated without the loop (each node
loses and gains the requests of its pods); the properties compare the loop with it.

### CandidateFilter

`Get`, `ListPods`, `ListBudgets`, `ListSLOs`, `Filter` follow the order of the reads.  The
cluster's steps (`Annotate`, `Readiness`, `BudgetStatus`, `EditPolicy`, `EditSLOs`, `Tick`)
come between any two of them.  `EvictTooManyRequests` is any 429: besides a spent budget the
API server sends one for a budget it has not processed yet, or when it is overloaded.
`GuardedPods` says which pods each guard holds on the cluster as it is, with the code's reading
of a selector that does not compile, of several SLOs and of whole GiB (section 3 says where the
documentation reads them otherwise); two observer variables note, since `Get`, which pods each
guard let free at some moment (`exposed`) and which some guard held (`guarded`).  They are read
by the properties only.

### ReconcileQueue

`exists` is the API server, `cached` the informer's cache, `lag` the notifications between
them.  `queue`, `dirty`, `processing` and `waiting` are client-go's work queue and delaying
queue (external).  `Take` is `Reconcile`'s `Get`; each of its returns is an action:
`TakeMissing`, `ReturnError` (of the snapshot or the patch, which may have been applied with
its answer lost and is then notified), `TooManyRequests`, `UpdateStatus`.  An error goes to the
rate limiter and its `RequeueAfter` is ignored, as controller-runtime does. `Deliver` adds a
policy whatever changed, since `For` has no predicate; a status patch may be empty within the
second of the last one and is then not notified.  Timers count down, so that time has no bound.
`unseen`, `elapsed`, `calm` and `patched` are read by properties only.

### PolicyStatus

`copy` is the policy as read from the cache; `FilledStatus` what `updateStatus` writes into
it; `MergePatch` the patch, which holds a field only if it differs from the copy.
`reconciled` is read by a property only.

### ObservedEvictions

The variables are metrics of `pkg/observability`.  `RecordBudgets` sets the gauges of the
namespaces in `Plan.Budgets`, `CountEviction` is `RecordEviction(ev, true)`.  A restart starts
all of them over.  `gaugeLimit`, the limit each gauge was set under, is read by a property
only.

### Placement

One step, `EvaluateCandidate`, applies `canSchedule` to a situation (pod, nodes, other pods).
The scheduler's filters are written beside it, from what Kubernetes documents of them, and
marked external: TaintToleration, NodeAffinity and InterPodAffinity.  The scheduler's other
filters (NodeResourcesFit, volumes, ports, ...) also decide where a pod goes and are not
modelled, so a target that passes these three is not yet one the scheduler takes.  `Ordinary`
and `Specific` say, as predicates on pod, nodes and neighbours, where the two sides agree.

### NodeTemperature

`SnapshotMetrics` and `SnapshotNodes` are the two reads of a reconcile, `DataNodes` and
`DataRespond` those of the dashboard's handler, in the other order.  The metrics server is
up, unavailable (404, 503: an empty answer) or failing (an error); custom queries name any
nodes.  Shares are in tenths, thresholds in hundredths.  `class` keeps, per node, the shares
that `RecordSnapshot` publishes and the classification made from them.

### ObjectCopies

An object is its reference fields, each the address of a cell.  `DeepCopy` keeps the
addresses of the fields that no line of `DeepCopyInto` allocates.  Holders write in place, as
`Patch` does when it decodes its answer into the policy it was given.

### EvictionProgress

A plan is the filtered pods by rank, cut at the limit, each with the UID it had.  A 429
empties the plan.  Budgets are spent by others and recover, except those in `Stuck`.

## 3. Runs

Passing runs:

| Run | Instance | Shows |
|---|---|---|
| `eviction_loop` | 3 pods, 2 namespaces (the hourly limit of one is 1 or 2 at each snapshot, the other has none), 3 policies (a namespace limit, none, a dry run with limit 0), hour of 2 ticks, 2 ticks, 3 evictions, 1 restart | `PlanWithinLimits`, `HourlyBudget`, `MemoryCoversEvictions`, `BackoffRespected`, `ImplementsGuard`, `EvictionsCounted`, `GaugeIsSafe` |
| `greedy_plan` | 4 pods on two of 4 nodes; two settings: nodes that are alike, and one node half the size, one without a memory report, overlapping bands, a preferred class, affinity by zone; 246 measurements | `UtilMatchesMoves`, `WholePlanHelps`, `EveryPartHelps`, `PeakNeverRises`, `StopsAtTarget`, `HotToCold`, `NothingMissed` |
| `placement` | pairs of tolerations and taints, pairs of terms over a label that is absent, text or a number, pod affinity by host and zone, neighbours with an anti-affinity of their own | `TargetsPassFilters`, `NoTargetMissed` |
| `candidate_filter` | 3 pods, a budget of one shared by two of them, 3 policies (with a selector that does not compile, with one beside it that does, with none), no SLO, one or two that disagree, a volume half a GiB over the limit, 2 changes by others, 2 ticks | `GuardsHonoured`, `NothingWithheld` |
| `eviction_progress` | 4 pods: one of a stuck budget ranks first, two share a budget that recovers, the free one is last; limit 2, 2 drains | `FreePodsLeave` |
| `reconcile_queue` | a live policy and a dry run, each there or not at first, 2 ticks to requeue, 2 disturbances (edit, creation, deletion, resync, restart) | `NeverForgotten`, `EarlyStartHasCause`, `ReconciledForever`, `EditsReachReconcile` |
| `policy_status` | 3 plans, a cache up to 2 versions behind, 1 edit, 1 change of load, 1 restart | `ObservedWasReconciled`, `ObservedAdvances`, `StatusHeals` |
| `node_temperature` | 2 nodes, 3 loads (one beyond capacity), 4 lists of policies (none; zero fields; low weights and overlapping bands), custom queries, 2 events | `ShownHotIsHot`, `HotIsMeasured` |
| `object_copies` | the three kinds, 2 holders, 4 objects, 2 writes | `CopiesIndependent` |

Bounds.  In `eviction_loop` two ticks let an eviction leave the window of two, three evictions
fill a plan and leave one more, one restart separates two incarnations, and with 1 and 2 an
edit may raise or lower the limit before, between and after the evictions of an hour, below
what the hour already holds included.  The symmetry exchanges the two pods of the limited
namespace, which no constant tells apart, and no liveness property is checked under it.  In
`candidate_filter` two changes suffice to change what two reads of one guard see; every
property there relates one guard of one pod to one reconcile.  In `reconcile_queue` two
policies are enough for one to hold the worker while the other waits, two notifications under
way are an edit and the echo of a status, and the two disturbances of a behaviour are any pair;
nothing is owed to a resync, since in most behaviours there is none.  In `policy_status` the
clock runs in a circle longer than the cache lags, so that two times are equal only if they
are.  Two events in `node_temperature` change two of load, nodes, metrics and policies between
the reads of one reconcile or request.  Four objects in `object_copies` are a cached one, two
copies and a copy of a copy. The planning and placement runs are finite without a bound: the
measurements are enumerated, and cover usage above and below what the pods request, a request
of zero and a request larger than the usage of its node.

`EveryPartHelps` and `PeakNeverRises` are stated for nodes that are alike and sources that
use what their pods request (`Homogeneous`).  Both hypotheses are needed for the second:
in the mixed setting a move to a small node can lift it above the former peak while the
variance falls, which is what the code optimises.  On such nodes `WholePlanHelps` is what
is left: the plan as a whole lowers the variance.  `NothingMissed` is about candidates and
targets whose nodes report their memory: the variance with any other is not a number.

`TargetsPassFilters` and `NoTargetMissed` hold in situations that are `Ordinary`: values that
are not empty, complete terms with a label selector and no namespace selector, neighbours that
run and do not repel the pod.  `NoTargetMissed` also needs pods that are `Specific`: each
toleration has a key, and the pod does not ask for its own kind, which the scheduler grants the
first of a group.  Outside of them the code and the scheduler part (the table below has two of
the cases).  The hypotheses of the theorems of section 4 are ASSUMEs of `MCPlacement` and
`MCGreedyPlan`, so the runs are instances of them.  `placement` and `object_copies` end when
their inputs are used up, hence without deadlock checking.

Runs that end in a counterexample, each a statement of the documentation the code does
not keep:

| Run | Statement | What happens |
|---|---|---|
| `hourly_limit` | `docs/README.md:85`: with `maxDisruptionsPerHour: 1` and two hot pods the second is held back | `canDisruptNamespace` counts recorded evictions only; one plan evicts both |
| `cadence` | `policy_controller.go:33`: runs on the configured cadence | the status patch wakes the controller that wrote it |
| `recreated_pod` | `eviction.go:24`: evicts the plan entry | the call carries no UID; a pod recreated under the name is evicted |

Other places where the code and what is written about it part.  No run has a counterexample
for them, and the passing runs leave them out; the property named states what does hold:

| Code | Written | What the code does | What holds |
|---|---|---|---|
| `planner.go:72` | `docs/README.md:25`: max disruptions per hour, per-pod backoff | both maps are lost with the process; the next one takes the hour for empty | `HourlyBudget`, `BackoffRespected`, of one process |
| `policy_controller.go:77` | `docs/README.md:25`: the same | an eviction whose answer is lost is not recorded: the pod may be evicted again within the backoff | the same, of acknowledged evictions; `PlanWithinLimits` of all |
| `planner.go:309` | `docs/README.md:54`: remaining budget | only namespaces with an allowed entry are set; of a limit lowered since, the gauge of another one promises too much | `GaugeIsSafe`, by the limit it was set under |
| `policy_controller.go:67` | `docs/README.md:53`: evictions that would occur | entries the budgets refused are counted too | nothing |
| `planner.go:720` | `docs/README.md:23`: utilization combines CPU and memory by weights | weights 0/0 are defaulted for the classification, not for the simulation: a moved node has utilization 0 | `UtilMatchesMoves`, with weights |
| `planner.go:788` | `README.md:7`: safety rails for affinities | two planned pods that repel each other may get one target, since `applyMove` moves load and not pods | nothing |
| `predicates.go:53`, `:93` | `docs/README.md:14`: taint/affinity checks | a label with an empty value is taken for a missing one | `TargetsPassFilters`, values not empty |
| `predicates.go:165` | `README.md:7`: safety rails for affinities | the anti-affinity of the pods already there is not read | `TargetsPassFilters`, neighbours that do not repel the pod |
| `planner.go:485` | `docs/README.md:9`: readiness windows | the clock is read after the pods; the time in between counts as readiness | `GuardsHonoured`: it was ready at some moment |
| `planner.go:213` | `docs/README.md:9`: an SLO guards stateful pods | the last SLO listed for a namespace replaces the others | `GuardsHonoured`: where all of them agree |
| `planner.go:587` | `docs/README.md:44`: only opt-in workloads are eligible | a selector that does not compile is dropped; without selectors everything is eligible | `GuardsHonoured`: while one compiles |
| `planner.go:525` | `cmd/manager/main.go:57`: volumes larger than the limit | sizes are cut to whole GiB first | `GuardsHonoured`: from a whole GiB over it |
| `planner.go:484` | `api/v1/workloadslo_types.go:8`, `deploy/samples/workloadslo_prod_api.yaml:10` | nobody reads `ProtectedLabels` | nothing |
| `planner.go:286` | `rebalancepolicy_types.go:44`: `MaxEvictionsPerMinute`, `docs/README.md:8`: rate limits | the limit is one of a plan; a minute has several (`cadence`) | `PlanWithinLimits` |
| `policy_controller.go:111` | `rebalancepolicy_types.go:71`: status of the most recent plan | a patch from a stale copy leaves fields of two plans | `StatusHeals` |
| `planner.go:352` | `docs/README.md:24`: hysteresis avoids churn | the bands are widened towards each other, without memory: a smaller change of load turns hot into cold | nothing |
| `planner.go:195` | `docs/README.md:50`: latest ratios per node | a node without metrics is published, and planned with, as idle | `HotIsMeasured`: it is never drained |
| `rebalancepolicy_types.go:117` | line 187 there: creates a new `RebalancePolicy` | `Namespaces.Include` and `Exclude` are shared with the cache | `CopiesIndependent`, for the other fields |

One more thing the filter does not promise, and no document says it does: a candidate was
free of each guard at some moment of the reconcile, but not of all of them at one moment.
And `FreePodsLeave` needs `RespectPDB`: without it the pod of a stuck budget heads every
plan, each 429 drops the rest, and nothing behind it is ever tried.

Every property of a passing run has a mutant in `PROJECT.json`: a definition next to the
one it replaces (`CanDisruptNamespace_OffByOne`, `Move_NoStop`, ...), changed as a bug
would, under which TLC finds the property violated.

Fairness.  Three specifications assume some, and nothing is ever assumed of users, resyncs or
restarts.

* `ReconcileQueue`: weak fairness of the worker (a reconcile ends in *some* way, since every
  call it makes returns or times out, and the worker goroutine then takes the next policy),
  of the clock, of each timer and of each policy's notifications (the informer reconnects a
  broken watch).  Which way a reconcile ends is left open: a policy may fail for ever and is
  still reconciled for ever.
* `PolicyStatus`: weak fairness of the watch, the clock and the start of a reconcile, which
  `ReconciledForever` justifies, and strong fairness of `UpdateStatus`: of infinitely many
  reconciles one gets to its patch and is not refused.  That is more than the API server
  answering: it also leaves out plans that end in a 429 for ever, each of which returns before
  `updateStatus` (`policy_controller.go:79`).  Such a policy never shows a status, and
  `StatusHeals` promises nothing of it; with `RespectPDB` it takes more than a spent budget
  (`FreePodsLeave`).
* `EvictionProgress`: weak fairness of the worker and of budgets that can recover, strong
  fairness of `EvictOK(p)`: the API does not answer for ever with 429 or an error on a pod whose
  budgets let it go.  That a
  plan gets to the pod at all is not assumed; it is what `FreePodsLeave` shows.

## 4. Proofs

`EvictionLoopProofs` proves for every set of pods and namespaces, every set of policies,
every hourly limit (negative ones included) and every edit of it, every window and every
bound, from the assumptions of `PlannerMemory` and `EvictionLoop` (`HourAssumption`,
`NamesAssumption`, `PolicyAssumption`, `LimitsAssumption`, `BoundsAssumption`):

* `TypeCorrect`, `PlansStayWithinLimits`, `HourlyBudgetHolds`, `MemoryCovers`: the
  invariants of the run `eviction_loop`;
* `BackoffHolds`: its action property;
* `LoopImplementsGuard`: `EvictionLoop` implements `DisruptionGuard`, with the acknowledged
  evictions of the running process as the guard's log.

None of the invariants is inductive.  `PlanWithinLimits` speaks of pods, the code of
counters: `LimitsAccounted` ties the pods allowed or disrupted to `clusterRemaining` and
`namespaceCounts`, and needs `PlanShape` (an entry is in one place at a time) so that a
pod is counted once.  `HourlyBudget` speaks of the past hour, while an entry was allowed at
an earlier instant: `HourAccounted` says, of the namespaces this plan allowed something in,
that the hour's evictions and the entries still allowed together stay below the limit its
snapshot read plus what it allowed.  It says nothing of other namespaces, whose limit may have
been lowered below what the hour holds.  It is kept by a tick
because the window only loses evictions, and by an eviction because it turns an entry
allowed into an eviction.  It rests on `MemoryCoversEvictions`: the check counts stamps,
which are at least the evictions of the hour.  `BackoffRespected` needs `PlanOutOfBackoff`:
a planned pod stays out of backoff until its own eviction, since time passes and only that
eviction stamps it.  The conjunction is `IInv`, proved in three layers (`StateOK`, `PlanOK`,
`MemoryOK`), each with one lemma that every step preserves it.

The same module proves `ObservedImplementsLoop`: recording metrics adds no step to
the loop, so that all of this holds of the observed loop, whose run `eviction_loop` is.  On
top of it (`LoopOK`, the three layers):

* `CounterIsExact` needs `IdsInOrder`: the identity of the next eviction is the size of the
  log and larger than all in it, so that an acknowledged eviction is a new one and the count
  grows by one;
* `GaugeHolds` needs `GaugeLeavesRoom`: what the gauge shows, the acknowledged evictions of
  the hour and the entries still to be tried fit into the limit the gauge was set under
  (`gaugeLimit`) together, unless it shows zero.  The gauge is set before the plan it belongs
  to is executed.  Of a limit lowered since there is nothing to prove (section 3).

The other components, each from the assumptions its module names and for every value of its
constants:

| Module | Theorem | Inductive invariant, and why it is needed |
|---|---|---|
| `ReconcileQueueProofs` | `QueueTypes` | `QueueOK`: with one policy in the worker's hands at most, the queue holds each dirty policy that is not being processed once |
| | `PoliciesAreKept` | `CacheCatchesUp`: the last creation or deletion under way brings the cache to what the server has, so that a policy the cache does not know yet will be notified |
| | `EarlyStartsAreCaused` | `CalmIsAsleep`: a policy nothing else can wake is not dirty, its timer runs at least to the end of its `RequeueAfter`, and only status patches are on their way to it |
| `PolicyStatusProofs` | `StatusTypes` | the types themselves |
| | `ObservedIsHonest` | `CopyWasReconciled`: the generation of the copy in hand is noted before it can be written |
| | `ObservedNeverGoesBack` | `GenerationsDescend` (server, versions under way, cache, copy) and `ObservedBehind`: the code compares no generations, the order alone keeps an old one from being written |
| `CandidateFilterProofs` | `FilterTypes` | `StateOK`: the types, with those of what was read |
| | `GuardsAreHonoured`, `FreePodsAreCandidates` | `FilterOK`: each read still in the snapshot was true of the cluster at a moment the observers `exposed` and `guarded` have noted (`ReadsNoted`, read by read), and the candidates are those the filter made of them (`CandidatesOK`) |
| `NodeTemperatureProofs` | `HotNodesAreMeasured` | `TemperatureOK`: what was collected is an answer of the server, and a node outside of it has usage 0 when it is classified |
| | `DashboardNeverOverstates` | the same; the weighted share is monotonic (`WeightedMonotonic`), which carries the dashboard's clamped share to the planner's |
| `GreedyPlanProofs` | `PlansGoHotToCold` | `GreedyOK`: the two bands are disjoint whatever the thresholds, what is left to consider runs on hot nodes, every entry took a pod not to be considered again from a hot node to a cold one it may be scheduled on |
| `ObjectCopiesProofs` | `CopiesStayIndependent` | `CopiesOK`: a copied field refers to a cell of its object's own number and name, cells of later numbers are untouched, and no two holders have a cell in common |
| `PlacementProofs` | `PlannerTargetsPass`, `PlannerMissesNoTarget` | `SituationOK`: the targets are those `canSchedule` makes of a situation that was given.  The argument is predicate by predicate: taints, node selector, node affinity, pod affinity, each from the part of `Ordinary` or `Specific` it needs |

### The arithmetic of a plan

`GreedyPlanProofs` also proves what the figures of a plan mean.  All but `PlanTypes` have two
hypotheses, `WeightsGiven` (not both weights are zero) and `CPUReported` (all nodes report
allocatable CPU): without the first the simulation gives a moved node the utilization 0, and
the theorems do not hold (section 3); without the second it leaves the node out of
the move.  `MCGreedyPlan` assumes
both, so that TLC evaluates them.

| Theorem | Layer of the invariant, and the argument |
|---|---|
| `PlanTypes` | `OnlyHotGoBelow`: `applyMove` lets the memory of a source go below zero, and only that of a source; a target only gains, so every utilization is a natural number, and so is every variance (`VarianceType`: the sum of squares dominates) |
| `UtilizationsMatchPlan` | `MovesMatch`: the usage is the measured one net of all moves, CPU stopped at zero and memory not.  Bands are disjoint, so that no node loses and gains, and stopping at zero after each move comes to the same as stopping once at the end (`ClampTwice`, `SimulationIsOutcome`) |
| `WholePlansHelp` | `VarianceFell`: the variance is below the one measured as soon as there is an entry; the final sort keeps the set of entries (`SameEntries`) |
| `PlansStopAtTarget` | `AboveTarget`: while candidates are left the variance of a plan that is not empty is above the target |
| `PartsLowerVariance` | `PartsHelp`.  On like nodes a move of load d across a gap g between source and target changes the variance by a multiple of d(d - g) (`VarianceOfMove`), so that an accepted move had a gap larger than its load.  Leaving out earlier moves only widens the gap (`FewerMoves`): sources only lose, targets only gain.  So the move also helps a part (`HelpsWithoutSome`) |
| `PartsKeepPeak` | `PeakStays`: by the same gap, a target ends below where its source was |
| `NoMoveIsMissed` | `SimulationIsOutcome` for the target that was passed over, and `BestExists`: if there are survivors at all one of them is best, so a candidate is skipped only if none improves |

These speak of sums over sets.  A sum is `SumFunctionOnSet` of the community modules, and what
a fold does with one more element is derived from its definition.  Induction over finite sets
is needed to get further.  The library's theorem for it takes an operator as parameter; in its
place a lemma (`SmallestSubset`) gives the smallest set of a family of finite sets, from the
well-foundedness of strict inclusion, and each property of sums is proved for a smallest
counterexample.

Assumptions about the constants are types, finiteness of sets of pods, and bounds that are
numbers.  Those that say more: no node has the name that stands for "not scheduled"
(`CandidateFilter`), at least one object can be made (`ObjectCopies`), the hour and the
periods are not zero.  `GreedyPlan` also assumes that `Scale` is a multiple of all
allocatable amounts, which makes shares exact: a utilization is then linear in what a node
uses (`ShareIsLinear`), as the code's is up to rounding.

Only model-checked:

* `ReconciledForever`, `EditsReachReconcile`, `StatusHeals`, `FreePodsLeave`: liveness under
  fairness is outside what the prover does.

All invariants and action properties of the passing runs have a theorem.  The three
runs of section 3 that end in a counterexample have nothing to prove.

## 5. Not modelled

* Floating point: all figures are integers in fixed units, compared exactly.
* Pod metrics: `CollectPodMetrics` has the control of `CollectNodeMetrics`, and its values
  only break ties in the order of candidates.  The values of custom queries are read by
  nobody; `main` configures no such query, `NodeTemperature` allows for them.
* HTTP to Prometheus, its token and its timeout, as far as it is more than an error.
* `rebalancer_dry_run_evictions_total`, advanced once for every entry of a dry run;
  `rebalancer_sigma`, a copy of `Plan.Stats.Variance`; Kubernetes events; the `reason` label.
* The dashboard's static files and its summary of policies, which copies fields.
* Flags, probes and client construction in `main`; leader election beyond one process at a
  time: two leaders are never modelled side by side.
* The growth of `history`: no answer depends on it.
* The scheduler's filters other than TaintToleration, NodeAffinity and InterPodAffinity, and
  its scores.
* The statuses of `WorkloadSLO` and `NodeClass`: the operator never writes them.
* Packaging.

In `CandidateFilter` a pod keeps its name and is never deleted by others (`EvictionProgress`
has that case); the API server applies a budget to every pod it covers.

## 6. Plan

The modules of the plan are written, and every safety property they check is proved.  What
is left:

1. The liveness properties, once the prover has a rule for fairness that reaches them; the
   invariants they would rest on (`QueueOK`, `GenerationsDescend`) are there.
2. `WholePlanHelps` without `CPUReported`, for which `Outcome` would have to say what a node
   that does not report its CPU is taken to use.
3. Where one proof repeats another's steps, lemmas in their place.
