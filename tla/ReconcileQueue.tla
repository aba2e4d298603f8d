---------------------------- MODULE ReconcileQueue ----------------------------
(***************************************************************************)
(* When a policy is reconciled: the watch, the work queue and the single   *)
(* worker of the controller that SetupWithManager builds, with what        *)
(* Reconcile returns to them and what it does to the watched object.       *)
(*                                                                         *)
(* The API server holds the policies; the informer's cache follows it one  *)
(* notification at a time and adds the policy to the queue at each.  The   *)
(* queue holds a policy once, and takes one that is being reconciled back  *)
(* when the worker is done with it.  Every return of Reconcile is an       *)
(* action here: not found, snapshot failed, refused by a budget, status    *)
(* patched, patch failed.  A patch that changes the status is itself       *)
(* notified, like any other change.                                        *)
(*                                                                         *)
(* Abstracted: the plan and its evictions (EvictionLoop), and the delay of *)
(* a rate limited retry (any up to MaxBackoff).                            *)
(* Timers count down, so that time needs no bound; a timer that has run    *)
(* out fires after any delay.                                              *)
(***************************************************************************)
EXTENDS Integers, Sequences, FiniteSets, SequencesExt

CONSTANTS
  Policies,      \* names of RebalancePolicy objects
  DryRun,        \* those that only report
  RequeueAfter,  \* Plan.RequeueAfter (30 s), in clock ticks
  MaxBackoff,    \* longest delay of a rate limited retry, in clock ticks
  MaxLag,        \* bound: notifications under way per policy
  MaxDisturbances \* bound: edits by users, resyncs and restarts, together

ASSUME QueueAssumption ==
  /\ IsFiniteSet(Policies)
  /\ DryRun \subseteq Policies
  /\ {RequeueAfter, MaxLag} \subseteq Nat \ {0}
  /\ {MaxBackoff, MaxDisturbances} \subseteq Nat

\* A policy the delaying queue does not hold.
NotWaiting == -1

VARIABLES
  exists,      \* the policies of the API server
  cached,      \* the policies of the informer's cache
  lag,         \* per policy: changes the informer has not been told of, oldest first
  queue,       \* the work queue: policies ready to be taken
  dirty,       \* policies that need a reconcile
  processing,  \* the policy the worker is at, if any
  waiting,     \* per policy: ticks until the delaying queue adds it
  unseen,      \* policies whose last reconcile read an older spec than the server's
  elapsed,     \* per policy: ticks since its last reconcile began
  calm,        \* policies nothing else can wake: no timer of an earlier reconcile, no
               \* edit under way then, nothing but their own reconcile since
  patched,     \* policies whose own status patch was notified since then
  disturbances

store     == <<exists, cached, lag>>
workqueue == <<queue, dirty, processing, waiting>>
observers == <<unseen, elapsed, calm, patched>>
vars == <<store, workqueue, observers, disturbances>>

Change == {"spec", "status", "added", "deleted"}

\* The informer has listed the policies and added each.
Init ==
  /\ exists \in SUBSET Policies
  /\ cached = exists
  /\ lag = [p \in Policies |-> <<>>]
  /\ queue \in SetToSeqs(exists)
  /\ dirty = exists
  /\ processing = {}
  /\ waiting = [p \in Policies |-> NotWaiting]
  /\ unseen = exists
  /\ elapsed = [p \in Policies |-> RequeueAfter]
  /\ calm = {}
  /\ patched = {}
  /\ disturbances = 0

-------------------------------------------------------------------------------
(***************************************************************************)
(* The work queue (client-go).                                             *)
(***************************************************************************)
\* Add: once per policy, and not beside a reconcile of the same policy.
Add(p) ==
  /\ dirty' = dirty \cup {p}
  /\ queue' = IF p \in dirty \cup processing THEN queue ELSE Append(queue, p)

\* AddAfter keeps the earlier of two times.
AddAfter(p, delay) ==
  waiting' = [waiting EXCEPT ![p] = IF @ = NotWaiting \/ delay < @ THEN delay ELSE @]

\* Done: a policy that became dirty meanwhile is ready again.
Done(p) ==
  /\ processing' = {}
  /\ queue' = IF p \in dirty THEN Append(queue, p) ELSE queue
  /\ UNCHANGED dirty

\* The delaying queue hands over a policy whose time has come.
Fire(p) ==
  /\ waiting[p] = 0
  /\ waiting' = [waiting EXCEPT ![p] = NotWaiting]
  /\ Add(p)
  /\ UNCHANGED <<store, processing, observers, disturbances>>

-------------------------------------------------------------------------------
(***************************************************************************)
(* The API server, its watch and its users (external).                     *)
(***************************************************************************)
Disturb ==
  /\ disturbances < MaxDisturbances
  /\ disturbances' = disturbances + 1

Notified(p, change) ==
  /\ Len(lag[p]) < MaxLag
  /\ lag' = [lag EXCEPT ![p] = Append(@, change)]

Edited(p, change) ==
  /\ Disturb
  /\ Notified(p, change)
  /\ calm' = calm \ {p}
  /\ UNCHANGED <<cached, workqueue, elapsed, patched>>

EditSpec(p) ==
  /\ p \in exists
  /\ unseen' = unseen \cup {p}
  /\ UNCHANGED exists
  /\ Edited(p, "spec")

Create(p) ==
  /\ p \notin exists
  /\ exists' = exists \cup {p}
  /\ unseen' = unseen \cup {p}
  /\ Edited(p, "added")

Delete(p) ==
  /\ p \in exists
  /\ exists' = exists \ {p}
  /\ unseen' = unseen \ {p}
  /\ Edited(p, "deleted")

Deliver_NoCreations(p) ==
  /\ lag[p] # <<>>
  /\ lag' = [lag EXCEPT ![p] = Tail(@)]
  /\ cached' = CASE Head(lag[p]) = "added"   -> cached \cup {p}
                 [] Head(lag[p]) = "deleted" -> cached \ {p}
                 [] OTHER                    -> cached
  /\ patched' = IF Head(lag[p]) = "status" THEN patched \cup {p} ELSE patched
  /\ IF Head(lag[p]) = "added" THEN UNCHANGED <<dirty, queue>> ELSE Add(p)
  /\ UNCHANGED <<exists, processing, waiting, unseen, elapsed, calm, disturbances>>

Deliver_Appends(p) ==
  /\ lag[p] # <<>>
  /\ lag' = [lag EXCEPT ![p] = Tail(@)]
  /\ cached' = CASE Head(lag[p]) = "added"   -> cached \cup {p}
                 [] Head(lag[p]) = "deleted" -> cached \ {p}
                 [] OTHER                    -> cached
  /\ patched' = IF Head(lag[p]) = "status" THEN patched \cup {p} ELSE patched
  /\ dirty' = dirty \cup {p}
  /\ queue' = Append(queue, p)
  /\ UNCHANGED <<exists, processing, waiting, unseen, elapsed, calm, disturbances>>

\* The informer applies one notification and, with no predicate on the watch,
\* adds the policy whatever changed.
Deliver(p) ==
  /\ lag[p] # <<>>
  /\ lag' = [lag EXCEPT ![p] = Tail(@)]
  /\ cached' = CASE Head(lag[p]) = "added"   -> cached \cup {p}
                 [] Head(lag[p]) = "deleted" -> cached \ {p}
                 [] OTHER                    -> cached
  /\ patched' = IF Head(lag[p]) = "status" THEN patched \cup {p} ELSE patched
  /\ Add(p)
  /\ UNCHANGED <<exists, processing, waiting, unseen, elapsed, calm, disturbances>>

\* The informer's resync (--sync-period) notifies what it has.
Resync(p) ==
  /\ Disturb
  /\ p \in cached
  /\ Add(p)
  /\ calm' = calm \ {p}
  /\ UNCHANGED <<store, processing, waiting, unseen, elapsed, patched>>

Tick ==
  /\ waiting' = [p \in Policies |-> IF waiting[p] > 0 THEN waiting[p] - 1 ELSE waiting[p]]
  /\ elapsed' = [p \in Policies |-> IF elapsed[p] < RequeueAfter THEN elapsed[p] + 1 ELSE elapsed[p]]
  /\ UNCHANGED <<store, queue, dirty, processing, unseen, calm, patched, disturbances>>

-------------------------------------------------------------------------------
(***************************************************************************)
(* The worker.  MaxConcurrentReconciles is 1.                              *)
(***************************************************************************)
Taking(p) ==
  /\ processing = {}
  /\ queue # <<>>
  /\ p = Head(queue)

UnderWay(p, changes) == ToSet(lag[p]) \cap changes # {}

\* Reconcile begins: Get finds the policy in the cache.
Take(p) ==
  /\ Taking(p)
  /\ p \in cached
  /\ queue' = Tail(queue)
  /\ dirty' = dirty \ {p}
  /\ processing' = {p}
  /\ unseen' = IF UnderWay(p, {"spec", "added"}) THEN unseen ELSE unseen \ {p}
  /\ elapsed' = [elapsed EXCEPT ![p] = 0]
  /\ calm' = IF waiting[p] # NotWaiting \/ UnderWay(p, {"spec", "added", "deleted"})
             THEN calm \ {p}
             ELSE calm \cup {p}
  /\ patched' = patched \ {p}
  /\ UNCHANGED <<store, waiting, disturbances>>

\* Get does not find it: Reconcile returns at once and asks for nothing.
TakeMissing(p) ==
  /\ Taking(p)
  /\ p \notin cached
  /\ queue' = Tail(queue)
  /\ dirty' = dirty \ {p}
  /\ UNCHANGED <<store, processing, waiting, observers, disturbances>>

Return(p) ==
  /\ p \in processing
  /\ Done(p)
  /\ UNCHANGED <<exists, cached, unseen, elapsed, patched, disturbances>>

(***************************************************************************)
(* The snapshot or the status patch fails: the controller adds the policy  *)
(* rate limited and ignores the RequeueAfter that came with the error (one *)
(* minute after a failed snapshot).  A patch whose answer is lost may have *)
(* changed the status all the same.                                        *)
(***************************************************************************)
ReturnError(p) ==
  /\ Return(p)
  /\ \E delay \in 0..MaxBackoff : AddAfter(p, delay)
  /\ calm' = calm \ {p}
  /\ \/ p \in exists /\ Notified(p, "status")
     \/ UNCHANGED lag

TooManyRequests_NoRequeue(p) ==
  /\ p \notin DryRun
  /\ Return(p)
  /\ UNCHANGED <<lag, calm, waiting>>

\* 429 from the eviction API: the plan is dropped, the status not written.
TooManyRequests(p) ==
  /\ p \notin DryRun
  /\ Return(p)
  /\ AddAfter(p, RequeueAfter)
  /\ UNCHANGED <<lag, calm>>

UpdateStatus_RequeueNow(p) ==
  /\ p \in exists
  /\ Return(p)
  /\ AddAfter(p, 0)
  /\ \/ Notified(p, "status")
     \/ UNCHANGED lag
  /\ UNCHANGED calm

(***************************************************************************)
(* The end of the plan, or of a dry run.  LastExecutionTime has a          *)
(* resolution of one second: a patch within the second of the last one,    *)
(* with equal figures, is empty and is not notified.                       *)
(***************************************************************************)
UpdateStatus(p) ==
  /\ p \in exists
  /\ Return(p)
  /\ AddAfter(p, RequeueAfter)
  /\ \/ Notified(p, "status")
     \/ UNCHANGED lag
  /\ UNCHANGED calm

\* The process starts anew: the informer lists the policies and adds each.
Restart ==
  /\ Disturb
  /\ cached' = exists
  /\ lag' = [p \in Policies |-> <<>>]
  /\ queue' \in SetToSeqs(exists)
  /\ dirty' = exists
  /\ processing' = {}
  /\ waiting' = [p \in Policies |-> NotWaiting]
  /\ calm' = {}
  /\ UNCHANGED <<exists, unseen, elapsed, patched>>

Worker ==
  \E p \in Policies :
    \/ Take(p)
    \/ TakeMissing(p)
    \/ ReturnError(p)
    \/ TooManyRequests(p)
    \/ UpdateStatus(p)

Next ==
  \/ Worker
  \/ \E p \in Policies : Fire(p)
  \/ \E p \in Policies : Deliver(p)
  \/ \E p \in Policies : EditSpec(p)
  \/ \E p \in Policies : Create(p)
  \/ \E p \in Policies : Delete(p)
  \/ \E p \in Policies : Resync(p)
  \/ Tick
  \/ Restart

(***************************************************************************)
(* A reconcile ends and the worker takes the next policy; timers run and   *)
(* fire; the watch delivers.  Nothing is assumed of the users, of resyncs, *)
(* or of which way a reconcile ends.                                       *)
(***************************************************************************)
Fairness ==
  /\ WF_vars(Worker)
  /\ WF_vars(Tick)
  /\ \A p \in Policies : WF_vars(Fire(p)) /\ WF_vars(Deliver(p))

Spec == Init /\ [][Next]_vars
FairSpec == Spec /\ Fairness
-------------------------------------------------------------------------------
(***************************************************************************)
(* Properties                                                              *)
(***************************************************************************)
\* Types of the variables.  The queue holds each dirty policy once, but not the
\* one being reconciled: that one is never beside itself.
TypeOK ==
  /\ exists \in SUBSET Policies
  /\ cached \in SUBSET Policies
  /\ lag \in [Policies -> Seq(Change)]
  /\ queue \in Seq(Policies)
  /\ IsInjective(queue) /\ ToSet(queue) = dirty \ processing
  /\ dirty \in SUBSET Policies
  /\ processing \in SUBSET Policies
  /\ waiting \in [Policies -> Nat \cup {NotWaiting}]
  /\ unseen \in SUBSET Policies
  /\ elapsed \in [Policies -> 0..RequeueAfter]
  /\ calm \in SUBSET Policies
  /\ patched \in SUBSET Policies
  /\ disturbances \in 0..MaxDisturbances

(***************************************************************************)
(* A policy of the cluster is never forgotten: whichever way its last      *)
(* reconcile returned and whatever happened to it meanwhile, it is queued, *)
(* in the worker's hands, waiting for its time, or about to be notified.   *)
(* No return of Reconcile relies on the resync.                            *)
(***************************************************************************)
NeverForgotten ==
  \A p \in exists :
    \/ p \in dirty \cup processing
    \/ waiting[p] # NotWaiting
    \/ lag[p] # <<>>

(***************************************************************************)
(* What wakes a policy before its RequeueAfter is over: an edit, a failed  *)
(* reconcile, a resync, a restart, the timer of a reconcile before the     *)
(* last - or the operator's own status patch (SetupWithManager,            *)
(* updateStatus).                                                          *)
(***************************************************************************)
EarlyStartHasCause ==
  [][\A p \in Policies :
       p \in processing' \ processing /\ elapsed[p] < RequeueAfter =>
         p \notin calm \/ p \in patched]_vars

(***************************************************************************)
(* Every policy is reconciled again and again as long as it exists,        *)
(* although one worker serves all of them, some may fail each time and     *)
(* others may wake themselves up with every status they write.             *)
(***************************************************************************)
ReconciledForever ==
  \A p \in Policies : []<>(p \in processing \/ p \notin exists)

(***************************************************************************)
(* Once the users leave a policy alone, its last spec is read by some      *)
(* reconcile: no edit is lost between the watch and a reconcile that was   *)
(* already under way (Get reads the cache, the queue takes the policy      *)
(* back).                                                                  *)
(***************************************************************************)
EditsReachReconcile ==
  \A p \in Policies : []<>(p \notin unseen)

(***************************************************************************)
(* What policy_controller.go:33 says of Reconcile: it runs on the          *)
(* configured cadence.  The code does not give it: the status patch is     *)
(* notified to the controller that wrote it, and the policy is reconciled  *)
(* again at once.                                                          *)
(***************************************************************************)
Cadence ==
  [][\A p \in Policies :
       p \in processing' \ processing /\ elapsed[p] < RequeueAfter => p \notin calm]_vars
=============================================================================
