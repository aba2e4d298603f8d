------------------------- MODULE ReconcileQueueProofs -------------------------
(***************************************************************************)
(* Proofs about ReconcileQueue for every set of policies, every            *)
(* RequeueAfter, every delay of a retry and every bound.                   *)
(***************************************************************************)
EXTENDS ReconcileQueue, FiniteSetTheorems, SequenceTheorems, TLAPS

(***************************************************************************)
(* Queues that hold each policy once.                                      *)
(***************************************************************************)
Once(q, S) == q \in Seq(Policies) /\ IsInjective(q) /\ ToSet(q) = S

\* The members of a sequence, by position.
LEMMA Members ==
  ASSUME NEW S, NEW q \in Seq(S)
  PROVE  /\ ToSet(q) = {q[i] : i \in 1..Len(q)}
         /\ IsInjective(q) <=> \A i, j \in 1..Len(q) : q[i] = q[j] => i = j
         /\ ToSet(q) \subseteq S
  <1>1. DOMAIN q = 1..Len(q) /\ \A i \in 1..Len(q) : q[i] \in S
    BY LenProperties, ElementOfSeq
  <1> QED
    BY <1>1 DEF ToSet, IsInjective

\* A policy that is not in the queue is added at its end.
LEMMA AppendOnce ==
  ASSUME NEW q, NEW S, Once(q, S), NEW p \in Policies, p \notin S
  PROVE  Once(Append(q, p), S \cup {p})
  <1> DEFINE r == Append(q, p)
  <1>1. q \in Seq(Policies) /\ IsInjective(q) /\ ToSet(q) = S
    BY DEF Once
  <1>2. /\ r \in Seq(Policies) /\ Len(r) = Len(q) + 1 /\ Len(q) \in Nat
        /\ \A i \in 1..Len(q) : r[i] = q[i]
        /\ r[Len(q) + 1] = p
    BY <1>1, AppendProperties, LenProperties
  <1> HIDE DEF r
  <1>3. /\ S = {q[i] : i \in 1..Len(q)}
        /\ \A i, j \in 1..Len(q) : q[i] = q[j] => i = j
    BY <1>1, Members
  <1>4. ASSUME NEW i \in 1..Len(r), NEW j \in 1..Len(r), r[i] = r[j] PROVE i = j
    <2>1. \A k \in 1..Len(q) : r[k] # p
      BY <1>2, <1>3
    <2> QED
      BY <1>2, <1>3, <1>4, <2>1
  <1>5. {r[i] : i \in 1..Len(r)} = S \cup {p}
    <2>1. 1..Len(r) = (1..Len(q)) \cup {Len(q) + 1}
      BY <1>2
    <2> QED
      BY <1>2, <1>3, <2>1
  <1>6. Once(r, S \cup {p})
    BY <1>2, <1>4, <1>5, Members DEF Once
  <1> QED
    BY <1>6 DEF r

\* The worker takes the policy at the head.
LEMMA TailOnce ==
  ASSUME NEW q, NEW S, Once(q, S), q # <<>>
  PROVE  Head(q) \in S /\ Once(Tail(q), S \ {Head(q)})
  <1> DEFINE r == Tail(q)
  <1>1. q \in Seq(Policies) /\ IsInjective(q) /\ ToSet(q) = S
    BY DEF Once
  <1>2. /\ r \in Seq(Policies) /\ Len(r) = Len(q) - 1 /\ Len(q) \in Nat \ {0}
        /\ \A i \in 1..Len(r) : r[i] = q[i + 1]
        /\ Head(q) = q[1]
    BY <1>1, HeadTailProperties, EmptySeq
  <1> HIDE DEF r
  <1>3. /\ S = {q[i] : i \in 1..Len(q)}
        /\ \A i, j \in 1..Len(q) : q[i] = q[j] => i = j
    BY <1>1, Members
  <1>4. ASSUME NEW i \in 1..Len(r), NEW j \in 1..Len(r), r[i] = r[j] PROVE i = j
    <2>1. i + 1 \in 1..Len(q) /\ j + 1 \in 1..Len(q) /\ q[i + 1] = q[j + 1]
      BY <1>2, <1>4
    <2> QED
      BY <1>3, <2>1
  <1>5. ASSUME NEW x PROVE x \in {r[i] : i \in 1..Len(r)} <=> x \in S \ {q[1]}
    <2>1. ASSUME NEW i \in 1..Len(r), x = r[i] PROVE x \in S \ {q[1]}
      <3>1. i + 1 \in 1..Len(q) /\ 1 \in 1..Len(q) /\ x = q[i + 1] /\ i + 1 # 1
        BY <1>2, <2>1
      <3> QED
        BY <1>3, <3>1
    <2>2. ASSUME x \in S, x # q[1] PROVE \E i \in 1..Len(r) : x = r[i]
      <3>1. PICK k \in 1..Len(q) : x = q[k]
        BY <1>3, <2>2
      <3>2. k - 1 \in 1..Len(r) /\ r[k - 1] = q[k]
        BY <1>2, <2>2, <3>1
      <3> QED
        BY <3>1, <3>2
    <2> QED
      BY <2>1, <2>2
  <1>6. Once(r, S \ {q[1]})
    <2>1. {r[i] : i \in 1..Len(r)} = S \ {q[1]}
      BY <1>5
    <2> QED
      BY <1>2, <1>4, <2>1, Members DEF Once
  <1>7. q[1] \in S
    BY <1>2, <1>3
  <1> QED
    BY <1>2, <1>6, <1>7 DEF r

\* The list an informer starts with holds each policy once.
LEMMA ListedOnce ==
  ASSUME NEW S \in SUBSET Policies, NEW q \in SetToSeqs(S)
  PROVE  Once(q, S)
  <1> DEFINE n == Cardinality(S)
  <1>1. IsFiniteSet(S) /\ n \in Nat
    BY QueueAssumption, FS_Subset, FS_CardinalityType
  <1>2. q \in [1..n -> S] /\ \A i, j \in 1..n : i # j => q[i] # q[j]
    BY DEF SetToSeqs
  <1>3. IsFiniteSet(1..n) /\ Cardinality(1..n) = n
    BY <1>1, FS_Interval
  <1> HIDE DEF n
  <1>4. q \in Injection(1..n, S)
    BY <1>2 DEF Injection, IsInjective
  <1>5. q \in Surjection(1..n, S)
    BY <1>1, <1>3, <1>4, FS_Injection DEF n
  <1>6. q \in Seq(Policies) /\ Len(q) = n
    BY <1>1, <1>2
  <1>7. {q[i] : i \in 1..n} = S
    BY <1>2, <1>5 DEF Surjection
  <1> QED
    BY <1>2, <1>6, <1>7, Members DEF Once

-------------------------------------------------------------------------------
(***************************************************************************)
(* First layer: the types, the queue that holds the dirty policies once,   *)
(* and the single worker.                                                  *)
(***************************************************************************)
OneWorker == \A p, q \in processing : p = q

QueueOK == TypeOK /\ OneWorker

LEMMA QueueOnce ==
  ASSUME TypeOK
  PROVE  Once(queue, dirty \ processing)
  BY DEF TypeOK, Once

\* Add keeps a policy once, and not beside its own reconcile.
LEMMA AddOnce ==
  ASSUME TypeOK, NEW p \in Policies, Add(p), UNCHANGED processing
  PROVE  dirty' \in SUBSET Policies /\ Once(queue', dirty' \ processing')
  <1>1. Once(queue, dirty \ processing)
    BY QueueOnce
  <1>2. dirty' \in SUBSET Policies
    BY DEF Add, TypeOK
  <1>3. CASE p \in dirty \cup processing
    <2>1. queue' = queue /\ dirty' \ processing' = dirty \ processing
      BY <1>3 DEF Add
    <2> QED
      BY <1>1, <1>2, <2>1
  <1>4. CASE p \notin dirty \cup processing
    <2>1. queue' = Append(queue, p) /\ dirty' \ processing' = (dirty \ processing) \cup {p}
      BY <1>4 DEF Add
    <2>2. Once(Append(queue, p), (dirty \ processing) \cup {p})
      BY <1>1, <1>4, AppendOnce
    <2> QED
      BY <1>2, <2>1, <2>2
  <1> QED
    BY <1>3, <1>4

\* Done puts a policy that became dirty meanwhile back at the end.
LEMMA DoneOnce ==
  ASSUME QueueOK, NEW p \in Policies, p \in processing, Done(p)
  PROVE  /\ processing = {p} /\ processing' = {} /\ dirty' = dirty
         /\ Once(queue', dirty' \ processing')
  <1>1. processing = {p} /\ processing' = {} /\ dirty' = dirty
    BY DEF QueueOK, OneWorker, Done
  <1>2. Once(queue, dirty \ {p})
    BY <1>1, QueueOnce DEF QueueOK
  <1>3. CASE p \in dirty
    <2>1. queue' = Append(queue, p) /\ (dirty \ {p}) \cup {p} = dirty' \ processing'
      BY <1>1, <1>3 DEF Done
    <2>2. Once(Append(queue, p), (dirty \ {p}) \cup {p})
      BY <1>2, AppendOnce
    <2> QED
      BY <1>1, <2>1, <2>2
  <1>4. CASE p \notin dirty
    <2>1. queue' = queue /\ dirty \ {p} = dirty' \ processing'
      BY <1>1, <1>4 DEF Done
    <2> QED
      BY <1>1, <1>2, <2>1
  <1> QED
    BY <1>3, <1>4

\* The worker takes the head, which is dirty, and leaves the rest.
LEMMA TakingOnce ==
  ASSUME QueueOK, NEW p \in Policies, Taking(p),
         queue' = Tail(queue), dirty' = dirty \ {p}, processing' \in {{}, {p}}
  PROVE  p \in dirty /\ Once(queue', dirty' \ processing')
  <1>1. processing = {} /\ queue # <<>> /\ p = Head(queue)
    BY DEF Taking
  <1>2. Once(queue, dirty)
    <2>1. dirty \ processing = dirty
      BY <1>1
    <2> QED
      BY <2>1, QueueOnce DEF QueueOK
  <1>3. p \in dirty /\ Once(Tail(queue), dirty \ {p})
    BY <1>1, <1>2, TailOnce
  <1>4. dirty' \ processing' = dirty \ {p}
    OBVIOUS
  <1> QED
    BY <1>3, <1>4

\* A delay, once set, is a number.
LEMMA AddAfterType ==
  ASSUME TypeOK, NEW p \in Policies, NEW delay \in Nat, AddAfter(p, delay)
  PROVE  /\ waiting' \in [Policies -> Nat \cup {NotWaiting}]
         /\ waiting'[p] # NotWaiting
         /\ waiting'[p] = delay \/ waiting'[p] = waiting[p]
         /\ \A q \in Policies \ {p} : waiting'[q] = waiting[q]
  BY DEF TypeOK, AddAfter, NotWaiting

\* A change the server notifies is under way.
LEMMA NotifiedType ==
  ASSUME TypeOK, NEW p \in Policies, NEW change \in Change, Notified(p, change)
  PROVE  /\ lag' \in [Policies -> Seq(Change)]
         /\ lag'[p] = Append(lag[p], change)
         /\ \A q \in Policies \ {p} : lag'[q] = lag[q]
  BY DEF TypeOK, Notified

LEMMA InitQueueOK == Init => QueueOK
  <1> SUFFICES ASSUME Init PROVE QueueOK
    OBVIOUS
  <1>1. Once(queue, exists)
    BY ListedOnce DEF Init
  <1>2. queue \in Seq(Policies) /\ IsInjective(queue) /\ ToSet(queue) = dirty \ processing
    BY <1>1 DEF Init, Once
  <1>3. /\ waiting \in [Policies -> Nat \cup {NotWaiting}]
        /\ elapsed \in [Policies -> 0..RequeueAfter]
        /\ disturbances \in 0..MaxDisturbances
    BY QueueAssumption DEF Init
  <1>4. lag \in [Policies -> Seq(Change)]
    BY DEF Init
  <1>5. OneWorker
    BY DEF Init, OneWorker
  <1> QED
    BY <1>2, <1>3, <1>4, <1>5 DEF Init, TypeOK, QueueOK

\* A change of the world leaves the queue and the worker alone.
LEMMA EditedQueueOK ==
  ASSUME QueueOK, NEW p \in Policies, NEW change \in Change, Edited(p, change),
         exists' \in SUBSET Policies, unseen' \in SUBSET Policies
  PROVE  QueueOK'
  <1> USE DEF QueueOK, TypeOK
  <1>1. lag' \in [Policies -> Seq(Change)]
    BY NotifiedType DEF Edited
  <1>2. disturbances' \in 0..MaxDisturbances
    BY QueueAssumption DEF Edited, Disturb
  <1>3. UNCHANGED <<cached, queue, dirty, processing, waiting, elapsed, patched>>
    BY DEF Edited, workqueue
  <1>4. calm' \in SUBSET Policies
    BY DEF Edited
  <1> QED
    BY <1>1, <1>2, <1>3, <1>4 DEF OneWorker

\* However a reconcile returns, the worker is free and the queue in order.
LEMMA ReturnQueueOK ==
  ASSUME QueueOK, NEW p \in Policies, Return(p), NEW delay \in Nat, AddAfter(p, delay),
         lag' \in [Policies -> Seq(Change)], calm' \in SUBSET Policies
  PROVE  QueueOK'
  <1>1. p \in processing /\ Done(p) /\ UNCHANGED <<exists, cached, unseen, elapsed, patched, disturbances>>
    BY DEF Return
  <1>2. processing' = {} /\ dirty' = dirty /\ Once(queue', dirty' \ processing')
    BY <1>1, DoneOnce
  <1>3. waiting' \in [Policies -> Nat \cup {NotWaiting}]
    BY AddAfterType DEF QueueOK
  <1> QED
    BY <1>1, <1>2, <1>3 DEF QueueOK, OneWorker, TypeOK, Once

LEMMA NextQueueOK == QueueOK /\ [Next]_vars => QueueOK'
  <1> SUFFICES ASSUME QueueOK, [Next]_vars PROVE QueueOK'
    OBVIOUS
  <1> USE DEF store, workqueue, observers
  <1>0. TypeOK
    BY DEF QueueOK
  <1>1. ASSUME NEW p \in Policies, Take(p) PROVE QueueOK'
    <2>1. Once(queue', dirty' \ processing') /\ processing' = {p}
      BY <1>1, TakingOnce DEF Take
    <2>2. elapsed' \in [Policies -> 0..RequeueAfter]
      BY <1>0, <1>1, QueueAssumption DEF Take, TypeOK
    <2>3. /\ unseen' \in SUBSET Policies /\ calm' \in SUBSET Policies
          /\ patched' \in SUBSET Policies /\ dirty' \in SUBSET Policies
      BY <1>0, <1>1 DEF Take, TypeOK
    <2> QED
      BY <1>0, <1>1, <2>1, <2>2, <2>3 DEF Take, QueueOK, OneWorker, TypeOK, Once
  <1>2. ASSUME NEW p \in Policies, TakeMissing(p) PROVE QueueOK'
    <2>1. processing = {} /\ processing' = processing
      BY <1>2 DEF TakeMissing, Taking
    <2>2. Once(queue', dirty' \ processing')
      BY <1>2, <2>1, TakingOnce DEF TakeMissing
    <2> QED
      BY <1>0, <1>2, <2>1, <2>2 DEF TakeMissing, QueueOK, OneWorker, TypeOK, Once
  <1>3. ASSUME NEW p \in Policies, ReturnError(p) PROVE QueueOK'
    <2>1. PICK delay \in 0..MaxBackoff : AddAfter(p, delay)
      BY <1>3 DEF ReturnError
    <2>2. delay \in Nat
      BY QueueAssumption
    <2>3. lag' \in [Policies -> Seq(Change)]
      <3>1. lag' = lag \/ Notified(p, "status")
        BY <1>3 DEF ReturnError
      <3>2. "status" \in Change
        BY DEF Change
      <3> QED
        BY <1>0, <3>1, <3>2, NotifiedType DEF TypeOK
    <2>4. calm' \in SUBSET Policies
      BY <1>0, <1>3 DEF ReturnError, TypeOK
    <2> QED
      BY <1>3, <2>1, <2>2, <2>3, <2>4, ReturnQueueOK DEF ReturnError
  <1>4. ASSUME NEW p \in Policies, TooManyRequests(p) PROVE QueueOK'
    <2>1. calm' \in SUBSET Policies /\ lag' \in [Policies -> Seq(Change)]
      BY <1>0, <1>4 DEF TooManyRequests, TypeOK
    <2>2. RequeueAfter \in Nat
      BY QueueAssumption
    <2> QED
      BY <1>4, <2>1, <2>2, ReturnQueueOK DEF TooManyRequests
  <1>5. ASSUME NEW p \in Policies, UpdateStatus(p) PROVE QueueOK'
    <2>1. lag' \in [Policies -> Seq(Change)]
      <3>1. lag' = lag \/ Notified(p, "status")
        BY <1>5 DEF UpdateStatus
      <3>2. "status" \in Change
        BY DEF Change
      <3> QED
        BY <1>0, <3>1, <3>2, NotifiedType DEF TypeOK
    <2>2. calm' \in SUBSET Policies /\ RequeueAfter \in Nat
      BY <1>0, <1>5, QueueAssumption DEF UpdateStatus, TypeOK
    <2> QED
      BY <1>5, <2>1, <2>2, ReturnQueueOK DEF UpdateStatus
  <1>6. ASSUME NEW p \in Policies, Fire(p) PROVE QueueOK'
    <2>1. dirty' \in SUBSET Policies /\ Once(queue', dirty' \ processing')
      BY <1>0, <1>6, AddOnce DEF Fire
    <2>2. waiting' \in [Policies -> Nat \cup {NotWaiting}]
      BY <1>0, <1>6 DEF Fire, TypeOK
    <2> QED
      BY <1>0, <1>6, <2>1, <2>2 DEF Fire, QueueOK, OneWorker, TypeOK, Once
  <1>7. ASSUME NEW p \in Policies, Deliver(p) PROVE QueueOK'
    <2>1. dirty' \in SUBSET Policies /\ Once(queue', dirty' \ processing')
      BY <1>0, <1>7, AddOnce DEF Deliver
    <2>2. lag' \in [Policies -> Seq(Change)]
      BY <1>0, <1>7 DEF Deliver, TypeOK
    <2>3. cached' \in SUBSET Policies /\ patched' \in SUBSET Policies
      BY <1>0, <1>7 DEF Deliver, TypeOK
    <2> QED
      BY <1>0, <1>7, <2>1, <2>2, <2>3 DEF Deliver, QueueOK, OneWorker, TypeOK, Once
  <1>8. ASSUME NEW p \in Policies, EditSpec(p) \/ Create(p) \/ Delete(p) PROVE QueueOK'
    <2>1. PICK change \in Change : Edited(p, change)
      BY <1>8 DEF EditSpec, Create, Delete, Change
    <2>2. exists' \in SUBSET Policies /\ unseen' \in SUBSET Policies
      BY <1>0, <1>8 DEF EditSpec, Create, Delete, TypeOK
    <2> QED
      BY <2>1, <2>2, EditedQueueOK
  <1>9. ASSUME NEW p \in Policies, Resync(p) PROVE QueueOK'
    <2>1. dirty' \in SUBSET Policies /\ Once(queue', dirty' \ processing')
      BY <1>0, <1>9, AddOnce DEF Resync
    <2>2. disturbances' \in 0..MaxDisturbances
      BY <1>0, <1>9, QueueAssumption DEF Resync, Disturb, TypeOK
    <2> QED
      BY <1>0, <1>9, <2>1, <2>2 DEF Resync, QueueOK, OneWorker, TypeOK, Once
  <1>10. CASE Tick
    <2>1. waiting' \in [Policies -> Nat \cup {NotWaiting}]
      BY <1>0, <1>10 DEF Tick, TypeOK, NotWaiting
    <2>2. elapsed' \in [Policies -> 0..RequeueAfter]
      BY <1>0, <1>10, QueueAssumption DEF Tick, TypeOK
    <2> QED
      BY <1>0, <1>10, <2>1, <2>2 DEF Tick, QueueOK, OneWorker, TypeOK
  <1>11. CASE Restart
    <2>1. Once(queue', exists)
      BY <1>0, <1>11, ListedOnce DEF Restart, TypeOK
    <2>2. dirty' \ processing' = exists /\ processing' = {}
      BY <1>11 DEF Restart
    <2>3. disturbances' \in 0..MaxDisturbances
      BY <1>0, <1>11, QueueAssumption DEF Restart, Disturb, TypeOK
    <2>4. /\ lag' \in [Policies -> Seq(Change)]
          /\ waiting' \in [Policies -> Nat \cup {NotWaiting}]
      BY <1>11 DEF Restart
    <2> QED
      BY <1>0, <1>11, <2>1, <2>2, <2>3, <2>4 DEF Restart, QueueOK, OneWorker, TypeOK, Once
  <1>12. CASE UNCHANGED vars
    BY <1>12 DEF vars, QueueOK, OneWorker, TypeOK
  <1> QED
    BY <1>1, <1>2, <1>3, <1>4, <1>5, <1>6, <1>7, <1>8, <1>9, <1>10, <1>11, <1>12
    DEF Next, Worker

(***************************************************************************)
(* Types; and the queue holds each policy that needs a reconcile once,     *)
(* except the one being reconciled (client-go's queue as SetupWithManager  *)
(* uses it).                                                               *)
(***************************************************************************)
THEOREM QueueTypes == Spec => []TypeOK
  <1>1. QueueOK => TypeOK
    BY DEF QueueOK
  <1> QED
    BY <1>1, InitQueueOK, NextQueueOK, PTL DEF Spec

-------------------------------------------------------------------------------
(***************************************************************************)
(* Second layer: the informer's cache catches up with the server.  Without *)
(* a creation or a deletion under way the two agree; the last one under    *)
(* way says what the server has.  A reconcile that does not find a policy  *)
(* of the cluster is therefore followed by a notification, and the policy  *)
(* is not forgotten.                                                       *)
(***************************************************************************)
Structural == {"added", "deleted"}

CatchesUp(p, changes, known, real) ==
  /\ (\A i \in 1..Len(changes) : changes[i] \notin Structural) => (p \in known <=> p \in real)
  /\ \A i \in 1..Len(changes) :
       /\ changes[i] \in Structural
       /\ \A j \in 1..Len(changes) : j > i => changes[j] \notin Structural
       => (changes[i] = "added" <=> p \in real)

CacheCatchesUp == \A p \in Policies : CatchesUp(p, lag[p], cached, exists)

\* A change that neither creates nor deletes the policy alters nothing.
LEMMA PlainChangeCatchesUp ==
  ASSUME NEW p, NEW s \in Seq(Change), NEW C, NEW E, CatchesUp(p, s, C, E),
         NEW change \in Change \ Structural
  PROVE  CatchesUp(p, Append(s, change), C, E)
  <1> DEFINE r == Append(s, change)
  <1>1. /\ Len(r) = Len(s) + 1 /\ Len(s) \in Nat
        /\ \A i \in 1..Len(s) : r[i] = s[i]
        /\ r[Len(s) + 1] = change
    BY AppendProperties, LenProperties
  <1> HIDE DEF r
  <1>2. 1..Len(r) = (1..Len(s)) \cup {Len(s) + 1} /\ \A i \in 1..Len(s) : Len(s) + 1 > i
    BY <1>1
  <1>3. CatchesUp(p, r, C, E)
    BY <1>1, <1>2 DEF CatchesUp
  <1> QED
    BY <1>3 DEF r

\* A creation or a deletion says what the server has from then on.
LEMMA StructuralChangeCatchesUp ==
  ASSUME NEW p, NEW s \in Seq(Change), NEW C, NEW E, NEW change \in Structural,
         change = "added" <=> p \in E
  PROVE  CatchesUp(p, Append(s, change), C, E)
  <1> DEFINE r == Append(s, change)
  <1>0. change \in Change
    BY DEF Change, Structural
  <1>1. /\ Len(r) = Len(s) + 1 /\ Len(s) \in Nat
        /\ \A i \in 1..Len(s) : r[i] = s[i]
        /\ r[Len(s) + 1] = change
    BY <1>0, AppendProperties, LenProperties
  <1> HIDE DEF r
  <1>2. Len(s) + 1 \in 1..Len(r) /\ \A i \in 1..Len(r) : i = Len(s) + 1 \/ Len(s) + 1 > i
    BY <1>1
  <1>3. CatchesUp(p, r, C, E)
    BY <1>1, <1>2 DEF CatchesUp
  <1> QED
    BY <1>3 DEF r

\* The informer applies the oldest change.
LEMMA AppliedCatchesUp ==
  ASSUME NEW p, NEW s \in Seq(Change), s # <<>>, NEW C, NEW D, NEW E, CatchesUp(p, s, C, E),
         p \in D <=> IF Head(s) = "added" THEN TRUE
                     ELSE IF Head(s) = "deleted" THEN FALSE ELSE p \in C
  PROVE  CatchesUp(p, Tail(s), D, E)
  <1> DEFINE r == Tail(s)
  <1>1. /\ Len(r) = Len(s) - 1 /\ Len(s) \in Nat \ {0}
        /\ \A i \in 1..Len(r) : r[i] = s[i + 1]
        /\ Head(s) = s[1]
    BY HeadTailProperties, EmptySeq
  <1> HIDE DEF r
  <1>2. \A i \in 1..Len(r) : i + 1 \in 1..Len(s)
    BY <1>1
  <1>3. \A j \in 1..Len(s) : j = 1 \/ (j - 1 \in 1..Len(r) /\ s[j] = r[j - 1])
    BY <1>1
  <1>4. 1 \in 1..Len(s)
    BY <1>1
  <1>5. ASSUME \A i \in 1..Len(r) : r[i] \notin Structural PROVE p \in D <=> p \in E
    <2>1. \A j \in 1..Len(s) : j > 1 => s[j] \notin Structural
      BY <1>3, <1>5
    <2>2. CASE s[1] \in Structural
      <3>1. s[1] = "added" <=> p \in E
        BY <1>4, <2>1, <2>2 DEF CatchesUp
      <3>2. s[1] = "added" \/ s[1] = "deleted"
        BY <2>2 DEF Structural
      <3> QED
        BY <1>1, <3>1, <3>2
    <2>3. CASE s[1] \notin Structural
      <3>1. \A j \in 1..Len(s) : s[j] \notin Structural
        BY <1>3, <1>5, <2>3
      <3>2. p \in C <=> p \in E
        BY <3>1 DEF CatchesUp
      <3> QED
        BY <1>1, <2>3, <3>2 DEF Structural
    <2> QED
      BY <2>2, <2>3
  <1>6. ASSUME NEW i \in 1..Len(r), r[i] \in Structural,
               \A j \in 1..Len(r) : j > i => r[j] \notin Structural
        PROVE  r[i] = "added" <=> p \in E
    <2>1. i + 1 \in 1..Len(s) /\ s[i + 1] = r[i]
      BY <1>1, <1>2
    <2>2. ASSUME NEW j \in 1..Len(s), j > i + 1 PROVE s[j] \notin Structural
      <3>1. j - 1 \in 1..Len(r) /\ j - 1 > i /\ s[j] = r[j - 1]
        BY <1>1, <1>3, <2>2
      <3> QED
        BY <1>6, <3>1
    <2> QED
      BY <1>6, <2>1, <2>2 DEF CatchesUp
  <1>7. CatchesUp(p, r, D, E)
    BY <1>5, <1>6 DEF CatchesUp
  <1> QED
    BY <1>7 DEF r

\* A user's change to one policy.
LEMMA EditedCatchesUp ==
  ASSUME TypeOK, CacheCatchesUp, NEW p \in Policies, EditSpec(p) \/ Create(p) \/ Delete(p)
  PROVE  CacheCatchesUp'
  <1>1. PICK change \in Change : Edited(p, change) /\ change =
          IF EditSpec(p) THEN "spec" ELSE IF Create(p) THEN "added" ELSE "deleted"
    BY DEF EditSpec, Create, Delete, Change
  <1>2. lag'[p] = Append(lag[p], change) /\ \A q \in Policies \ {p} : lag'[q] = lag[q]
    BY <1>1, NotifiedType DEF Edited
  <1>3. cached' = cached /\ lag[p] \in Seq(Change)
    BY <1>1 DEF Edited, TypeOK
  <1>4. \A q \in Policies \ {p} : q \in exists' <=> q \in exists
    BY DEF EditSpec, Create, Delete
  <1>5. CatchesUp(p, lag'[p], cached', exists')
    <2>1. CASE EditSpec(p)
      <3>1. exists' = exists /\ change \in Change \ Structural
        BY <1>1, <2>1 DEF EditSpec, Structural
      <3>2. CatchesUp(p, lag[p], cached, exists)
        BY DEF CacheCatchesUp
      <3> QED
        BY <1>2, <1>3, <3>1, <3>2, PlainChangeCatchesUp
    <2>2. CASE ~EditSpec(p)
      <3>1. change \in Structural /\ (change = "added" <=> p \in exists')
        BY <1>1, <2>2 DEF Create, Delete, Structural
      <3> QED
        BY <1>2, <1>3, <3>1, StructuralChangeCatchesUp
    <2> QED
      BY <2>1, <2>2
  <1>6. ASSUME NEW q \in Policies, q # p PROVE CatchesUp(q, lag'[q], cached', exists')
    BY <1>2, <1>3, <1>4, <1>6 DEF CacheCatchesUp, CatchesUp
  <1> QED
    BY <1>5, <1>6 DEF CacheCatchesUp

LEMMA NextCatchesUp == TypeOK /\ CacheCatchesUp /\ [Next]_vars => CacheCatchesUp'
  <1> SUFFICES ASSUME TypeOK, CacheCatchesUp, [Next]_vars PROVE CacheCatchesUp'
    OBVIOUS
  <1> USE DEF store, workqueue, observers
  <1>1. CASE UNCHANGED store
    BY <1>1 DEF CacheCatchesUp
  <1>2. ASSUME NEW p \in Policies, Deliver(p) PROVE CacheCatchesUp'
    <2>1. /\ lag[p] # <<>> /\ lag[p] \in Seq(Change) /\ lag'[p] = Tail(lag[p])
          /\ \A q \in Policies \ {p} : lag'[q] = lag[q]
          /\ exists' = exists
      BY <1>2 DEF Deliver, TypeOK
    <2>2. p \in cached' <=> IF Head(lag[p]) = "added" THEN TRUE
                            ELSE IF Head(lag[p]) = "deleted" THEN FALSE ELSE p \in cached
      BY <1>2 DEF Deliver
    <2>3. \A q \in Policies \ {p} : q \in cached' <=> q \in cached
      BY <1>2 DEF Deliver
    <2>4. CatchesUp(p, lag'[p], cached', exists')
      BY <2>1, <2>2, AppliedCatchesUp DEF CacheCatchesUp
    <2>5. ASSUME NEW q \in Policies, q # p PROVE CatchesUp(q, lag'[q], cached', exists')
      BY <2>1, <2>3, <2>5 DEF CacheCatchesUp, CatchesUp
    <2> QED
      BY <2>4, <2>5 DEF CacheCatchesUp
  <1>3. ASSUME NEW p \in Policies, UpdateStatus(p) \/ ReturnError(p) PROVE CacheCatchesUp'
    <2>1. exists' = exists /\ cached' = cached
      BY <1>3 DEF UpdateStatus, ReturnError, Return
    <2>2. CASE UNCHANGED lag
      BY <2>1, <2>2 DEF CacheCatchesUp
    <2>3. CASE Notified(p, "status")
      <3>1. "status" \in Change \ Structural
        BY DEF Change, Structural
      <3>2. lag'[p] = Append(lag[p], "status") /\ \A q \in Policies \ {p} : lag'[q] = lag[q]
        BY <2>3, <3>1, NotifiedType
      <3>3. CatchesUp(p, lag'[p], cached, exists)
        BY <3>1, <3>2, PlainChangeCatchesUp DEF CacheCatchesUp, TypeOK
      <3> QED
        BY <2>1, <3>2, <3>3 DEF CacheCatchesUp
    <2> QED
      BY <1>3, <2>2, <2>3 DEF UpdateStatus, ReturnError
  <1>4. CASE Restart
    <2>1. cached' = exists /\ exists' = exists /\ \A p \in Policies : lag'[p] = <<>>
      BY <1>4 DEF Restart
    <2> QED
      BY <2>1 DEF CacheCatchesUp, CatchesUp
  <1>5. ASSUME NEW p \in Policies,
               \/ Take(p) \/ TakeMissing(p) \/ TooManyRequests(p) \/ Fire(p) \/ Resync(p)
        PROVE  UNCHANGED store
    BY <1>5 DEF Take, TakeMissing, TooManyRequests, Return, Fire, Resync
  <1>6. CASE Tick \/ UNCHANGED vars
    BY <1>1, <1>6 DEF Tick, vars
  <1> QED
    BY <1>1, <1>2, <1>3, <1>4, <1>5, <1>6, EditedCatchesUp DEF Next, Worker

\* Every way out of a reconcile, and every step beside it, leaves the policy to
\* something that will bring it back.
LEMMA NextNeverForgotten ==
  QueueOK /\ CacheCatchesUp /\ NeverForgotten /\ [Next]_vars => NeverForgotten'
  <1> SUFFICES ASSUME QueueOK, CacheCatchesUp, NeverForgotten, [Next]_vars,
                      NEW p \in exists'
               PROVE  \/ p \in dirty' \cup processing'
                      \/ waiting'[p] # NotWaiting
                      \/ lag'[p] # <<>>
    BY DEF NeverForgotten
  <1> USE DEF store, workqueue, observers
  <1> DEFINE Kept == \/ p \in dirty' \cup processing'
                     \/ waiting'[p] # NotWaiting
                     \/ lag'[p] # <<>>
  <1>0. TypeOK /\ TypeOK'
    BY NextQueueOK DEF QueueOK
  <1>p. p \in Policies
    BY <1>0 DEF TypeOK
  <1>1. ASSUME NEW q \in Policies, Take(q) PROVE Kept
    BY <1>1 DEF Take, Taking, NeverForgotten
  <1>2. ASSUME NEW q \in Policies, TakeMissing(q) PROVE Kept
    <2>1. UNCHANGED <<exists, cached, lag, waiting, processing>> /\ dirty' = dirty \ {q} /\ q \notin cached
      BY <1>2 DEF TakeMissing
    <2>2. CASE p = q
      <3>1. lag[p] # <<>>
        <4>1. Len(<<>>) = 0 /\ 1..0 = {}
          BY EmptySeq
        <4> QED
          BY <1>p, <2>1, <2>2, <4>1 DEF CacheCatchesUp, CatchesUp
      <3> QED
        BY <2>1, <3>1
    <2> QED
      BY <2>1, <2>2 DEF NeverForgotten
  <1>3. ASSUME NEW q \in Policies, NEW delay \in Nat, Return(q), AddAfter(q, delay),
               lag' = lag \/ Notified(q, "status")
        PROVE  Kept
    <2>1. processing = {q} /\ processing' = {} /\ dirty' = dirty /\ exists' = exists
      BY <1>3, DoneOnce DEF Return
    <2>2. waiting'[q] # NotWaiting /\ \A r \in Policies \ {q} : waiting'[r] = waiting[r]
      BY <1>0, <1>3, AddAfterType
    <2>3. \A r \in Policies \ {q} : lag'[r] = lag[r]
      BY <1>0, <1>3, NotifiedType DEF Change
    <2> QED
      BY <1>p, <2>1, <2>2, <2>3 DEF NeverForgotten
  <1>4. ASSUME NEW q \in Policies, ReturnError(q) PROVE Kept
    <2>1. PICK delay \in 0..MaxBackoff : AddAfter(q, delay)
      BY <1>4 DEF ReturnError
    <2>2. delay \in Nat
      BY QueueAssumption
    <2> QED
      BY <1>3, <1>4, <2>1, <2>2 DEF ReturnError
  <1>5. ASSUME NEW q \in Policies, TooManyRequests(q) \/ UpdateStatus(q) PROVE Kept
    <2>1. RequeueAfter \in Nat
      BY QueueAssumption
    <2> QED
      BY <1>3, <1>5, <2>1 DEF TooManyRequests, UpdateStatus
  <1>6. ASSUME NEW q \in Policies, Fire(q) PROVE Kept
    BY <1>0, <1>6, <1>p DEF Fire, Add, NeverForgotten, TypeOK
  <1>7. ASSUME NEW q \in Policies, Deliver(q) PROVE Kept
    BY <1>0, <1>7, <1>p DEF Deliver, Add, NeverForgotten, TypeOK
  <1>8. ASSUME NEW q \in Policies, EditSpec(q) \/ Create(q) \/ Delete(q) PROVE Kept
    <2>1. PICK change \in Change : Edited(q, change)
      BY <1>8 DEF EditSpec, Create, Delete, Change
    <2>2. lag'[q] = Append(lag[q], change) /\ \A r \in Policies \ {q} : lag'[r] = lag[r]
      BY <1>0, <2>1, NotifiedType DEF Edited
    <2>3. lag'[q] # <<>>
      <3>1. lag[q] \in Seq(Change)
        BY <1>0 DEF TypeOK
      <3>2. Append(lag[q], change) # <<>>
        BY <3>1, AppendProperties
      <3> QED
        BY <2>2, <3>2
    <2>4. p = q \/ p \in exists
      BY <1>8 DEF EditSpec, Create, Delete
    <2> QED
      BY <1>p, <2>1, <2>2, <2>3, <2>4 DEF Edited, NeverForgotten
  <1>9. ASSUME NEW q \in Policies, Resync(q) PROVE Kept
    BY <1>9 DEF Resync, Add, NeverForgotten
  <1>10. CASE Tick
    BY <1>0, <1>10, <1>p DEF Tick, NeverForgotten, NotWaiting, TypeOK
  <1>11. CASE Restart
    BY <1>11 DEF Restart
  <1>12. CASE UNCHANGED vars
    BY <1>12 DEF vars, NeverForgotten
  <1> QED
    BY <1>1, <1>2, <1>4, <1>5, <1>6, <1>7, <1>8, <1>9, <1>10, <1>11, <1>12
    DEF Next, Worker

(***************************************************************************)
(* A policy of the cluster is never forgotten, whichever way Reconcile     *)
(* returns, whatever its users do to it meanwhile and however far the      *)
(* informer is behind: it is queued, in the worker's hands, waiting for    *)
(* its time, or about to be notified.                                      *)
(***************************************************************************)
THEOREM PoliciesAreKept == Spec => []NeverForgotten
  <1> DEFINE Inv == QueueOK /\ CacheCatchesUp /\ NeverForgotten
  <1>1. Init => Inv
    <2> SUFFICES ASSUME Init PROVE CacheCatchesUp /\ NeverForgotten
      BY InitQueueOK
    <2> QED
      BY DEF Init, CacheCatchesUp, CatchesUp, NeverForgotten
  <1>2. Inv /\ [Next]_vars => Inv'
    BY NextQueueOK, NextCatchesUp, NextNeverForgotten DEF QueueOK
  <1>3. Inv => NeverForgotten
    OBVIOUS
  <1> QED
    BY <1>1, <1>2, <1>3, PTL DEF Spec

-------------------------------------------------------------------------------
(***************************************************************************)
(* Third layer: what may start a reconcile early.  A policy that nothing   *)
(* else can wake, whose own status patch has not come back, is not queued  *)
(* before its RequeueAfter is over: its timer, if set, has at least that   *)
(* long to run, and only status patches are on their way to the informer.  *)
(***************************************************************************)
OnlyStatus(changes) == \A i \in 1..Len(changes) : changes[i] = "status"

Asleep(p) ==
  /\ p \notin dirty
  /\ waiting[p] = NotWaiting \/ waiting[p] + elapsed[p] >= RequeueAfter
  /\ OnlyStatus(lag[p])

CalmIsAsleep ==
  \A p \in Policies : p \in calm /\ p \notin patched /\ elapsed[p] < RequeueAfter => Asleep(p)

LEMMA OnlyStatusAppend ==
  ASSUME NEW s \in Seq(Change), OnlyStatus(s)
  PROVE  OnlyStatus(Append(s, "status"))
  <1> DEFINE r == Append(s, "status")
  <1>1. /\ Len(r) = Len(s) + 1 /\ Len(s) \in Nat
        /\ \A i \in 1..Len(s) : r[i] = s[i]
        /\ r[Len(s) + 1] = "status"
    BY AppendProperties, LenProperties DEF Change
  <1> HIDE DEF r
  <1>2. 1..Len(r) = (1..Len(s)) \cup {Len(s) + 1}
    BY <1>1
  <1>3. OnlyStatus(r)
    BY <1>1, <1>2 DEF OnlyStatus
  <1> QED
    BY <1>3 DEF r

LEMMA NextCalmIsAsleep == QueueOK /\ CalmIsAsleep /\ [Next]_vars => CalmIsAsleep'
  <1> SUFFICES ASSUME QueueOK, CalmIsAsleep, [Next]_vars, NEW p \in Policies,
                      p \in calm', p \notin patched', elapsed'[p] < RequeueAfter
               PROVE  Asleep(p)'
    BY DEF CalmIsAsleep
  <1> USE DEF store, workqueue, observers
  <1>0. TypeOK /\ TypeOK'
    BY NextQueueOK DEF QueueOK
  <1>1. ASSUME NEW q \in Policies, Take(q) PROVE Asleep(p)'
    <2>1. lag' = lag /\ waiting' = waiting /\ dirty' = dirty \ {q}
      BY <1>1 DEF Take
    <2>2. CASE p = q
      <3>1. waiting[p] = NotWaiting /\ ToSet(lag[p]) \cap {"spec", "added", "deleted"} = {}
        BY <1>1, <2>2 DEF Take, UnderWay
      <3>2. OnlyStatus(lag[p])
        <4>1. ToSet(lag[p]) = {lag[p][i] : i \in 1..Len(lag[p])} /\ ToSet(lag[p]) \subseteq Change
          BY <1>0, Members DEF TypeOK
        <4> QED
          BY <3>1, <4>1 DEF OnlyStatus, Change
      <3> QED
        BY <2>1, <2>2, <3>1, <3>2 DEF Asleep
    <2>3. CASE p # q
      <3>1. p \in calm /\ p \notin patched /\ elapsed'[p] = elapsed[p]
        BY <1>0, <1>1, <2>3 DEF Take, TypeOK
      <3> QED
        BY <2>1, <3>1 DEF CalmIsAsleep, Asleep
    <2> QED
      BY <2>2, <2>3
  <1>2. ASSUME NEW q \in Policies, TakeMissing(q) PROVE Asleep(p)'
    BY <1>2 DEF TakeMissing, CalmIsAsleep, Asleep
  <1>3. ASSUME NEW q \in Policies, Return(q), AddAfter(q, RequeueAfter), calm' = calm,
               lag' = lag \/ Notified(q, "status")
        PROVE  Asleep(p)'
    <2>1. dirty' = dirty /\ elapsed' = elapsed /\ patched' = patched
      BY <1>3 DEF Return, Done
    <2>2. Asleep(p)
      BY <1>3, <2>1 DEF CalmIsAsleep
    <2>3. RequeueAfter \in Nat /\ elapsed[p] \in Nat /\ waiting[p] \in Nat \cup {NotWaiting}
      BY <1>0, QueueAssumption DEF TypeOK
    <2>4. /\ waiting'[q] = RequeueAfter \/ waiting'[q] = waiting[q]
          /\ \A r \in Policies \ {q} : waiting'[r] = waiting[r]
      BY <1>0, <1>3, <2>3, AddAfterType
    <2>5. OnlyStatus(lag'[p])
      <3>1. OnlyStatus(lag[p]) /\ lag[p] \in Seq(Change)
        BY <1>0, <2>2 DEF Asleep, TypeOK
      <3>2. lag'[p] = lag[p] \/ lag'[p] = Append(lag[p], "status")
        BY <1>0, <1>3, NotifiedType DEF Change
      <3> QED
        BY <3>1, <3>2, OnlyStatusAppend
    <2>6. waiting'[p] = NotWaiting \/ waiting'[p] + elapsed'[p] >= RequeueAfter
      BY <2>1, <2>2, <2>3, <2>4 DEF Asleep
    <2> QED
      BY <2>1, <2>2, <2>5, <2>6 DEF Asleep
  <1>4. ASSUME NEW q \in Policies, ReturnError(q) PROVE Asleep(p)'
    <2>1. p # q /\ p \in calm /\ UNCHANGED <<dirty, elapsed, patched>>
      BY <1>4 DEF ReturnError, Return, Done
    <2>2. waiting'[p] = waiting[p]
      BY <1>0, <1>4, <2>1 DEF ReturnError, AddAfter, TypeOK
    <2>3. lag'[p] = lag[p]
      BY <1>0, <1>4, <2>1, NotifiedType DEF ReturnError, Change
    <2> QED
      BY <2>1, <2>2, <2>3 DEF CalmIsAsleep, Asleep
  <1>5. ASSUME NEW q \in Policies, TooManyRequests(q) \/ UpdateStatus(q) PROVE Asleep(p)'
    BY <1>3, <1>5 DEF TooManyRequests, UpdateStatus
  <1>6. ASSUME NEW q \in Policies, Fire(q) PROVE Asleep(p)'
    <2>1. UNCHANGED <<lag, calm, patched, elapsed>> /\ dirty' = dirty \cup {q} /\ waiting[q] = 0
      BY <1>6 DEF Fire, Add
    <2>2. Asleep(p)
      BY <2>1 DEF CalmIsAsleep
    <2>3. p # q
      BY <1>0, <2>1, <2>2, QueueAssumption DEF Asleep, NotWaiting, TypeOK
    <2>4. waiting'[p] = waiting[p]
      BY <1>0, <1>6, <2>3 DEF Fire, TypeOK
    <2> QED
      BY <2>1, <2>2, <2>3, <2>4 DEF Asleep
  <1>7. ASSUME NEW q \in Policies, Deliver(q) PROVE Asleep(p)'
    <2>1. /\ UNCHANGED <<waiting, calm, elapsed>> /\ dirty' = dirty \cup {q}
          /\ lag[q] # <<>> /\ patched \subseteq patched'
          /\ Head(lag[q]) = "status" => q \in patched'
          /\ p # q => lag'[p] = lag[p]
      BY <1>0, <1>7 DEF Deliver, Add, TypeOK
    <2>2. Asleep(p)
      BY <2>1 DEF CalmIsAsleep
    <2>3. p # q
      <3> SUFFICES ASSUME p = q PROVE FALSE
        OBVIOUS
      <3>1. lag[p] \in Seq(Change) /\ lag[p] # <<>> /\ OnlyStatus(lag[p])
        BY <1>0, <2>1, <2>2 DEF Asleep, TypeOK
      <3>2. Len(lag[p]) \in Nat \ {0} /\ Head(lag[p]) = lag[p][1]
        BY <3>1, HeadTailProperties, EmptySeq
      <3>3. Head(lag[p]) = "status"
        BY <3>1, <3>2 DEF OnlyStatus
      <3> QED
        BY <2>1, <3>3
    <2> QED
      BY <2>1, <2>2, <2>3 DEF Asleep
  <1>8. ASSUME NEW q \in Policies, EditSpec(q) \/ Create(q) \/ Delete(q) PROVE Asleep(p)'
    <2>1. PICK change \in Change : Edited(q, change)
      BY <1>8 DEF EditSpec, Create, Delete, Change
    <2>2. p # q /\ p \in calm /\ UNCHANGED <<dirty, waiting, elapsed, patched>>
      BY <2>1 DEF Edited
    <2>3. lag'[p] = lag[p]
      BY <1>0, <2>1, <2>2, NotifiedType DEF Edited
    <2> QED
      BY <2>2, <2>3 DEF CalmIsAsleep, Asleep
  <1>9. ASSUME NEW q \in Policies, Resync(q) PROVE Asleep(p)'
    BY <1>9 DEF Resync, Add, CalmIsAsleep, Asleep
  <1>10. CASE Tick
    <2>1. UNCHANGED <<lag, dirty, calm, patched>>
      BY <1>10 DEF Tick
    <2>2. /\ waiting[p] \in Nat \cup {NotWaiting} /\ elapsed[p] \in Nat /\ RequeueAfter \in Nat
          /\ waiting'[p] = IF waiting[p] > 0 THEN waiting[p] - 1 ELSE waiting[p]
          /\ elapsed'[p] = IF elapsed[p] < RequeueAfter THEN elapsed[p] + 1 ELSE elapsed[p]
      BY <1>0, <1>10, QueueAssumption DEF Tick, TypeOK
    <2>3. elapsed[p] < RequeueAfter
      BY <2>2
    <2>4. Asleep(p)
      BY <2>1, <2>3 DEF CalmIsAsleep
    <2>5. waiting'[p] = NotWaiting \/ waiting'[p] + elapsed'[p] >= RequeueAfter
      BY <2>2, <2>3, <2>4 DEF Asleep, NotWaiting
    <2> QED
      BY <2>1, <2>4, <2>5 DEF Asleep
  <1>11. CASE Restart
    BY <1>11 DEF Restart
  <1>12. CASE UNCHANGED vars
    BY <1>12 DEF vars, CalmIsAsleep, Asleep
  <1> QED
    BY <1>1, <1>2, <1>4, <1>5, <1>6, <1>7, <1>8, <1>9, <1>10, <1>11, <1>12
    DEF Next, Worker

(***************************************************************************)
(* A reconcile that begins before its policy's RequeueAfter is over has a  *)
(* cause outside the cadence: an edit, a failed reconcile, a resync, a     *)
(* restart, an older timer - or the operator's own status patch            *)
(* (SetupWithManager, updateStatus).                                       *)
(***************************************************************************)
THEOREM EarlyStartsAreCaused == Spec => EarlyStartHasCause
  <1> DEFINE Inv == QueueOK /\ CalmIsAsleep
             Start == \A p \in Policies :
                        p \in processing' \ processing /\ elapsed[p] < RequeueAfter =>
                          p \notin calm \/ p \in patched
  <1>1. Init => Inv
    <2> SUFFICES ASSUME Init PROVE CalmIsAsleep
      BY InitQueueOK
    <2> QED
      BY DEF Init, CalmIsAsleep
  <1>2. Inv /\ [Next]_vars => Inv'
    BY NextQueueOK, NextCalmIsAsleep
  <1>3. Inv /\ [Next]_vars => [Start]_vars
    <2> SUFFICES ASSUME Inv, Next, NEW p \in Policies, p \in processing', p \notin processing,
                        elapsed[p] < RequeueAfter
                 PROVE  p \notin calm \/ p \in patched
      OBVIOUS
    <2> USE DEF store, workqueue, observers
    <2>1. ASSUME NEW q \in Policies, Take(q) PROVE p \in dirty
      <3>1. p = q
        BY <2>1 DEF Take
      <3> QED
        BY <2>1, <3>1, TakingOnce DEF Take
    <2>2. ASSUME NEW q \in Policies,
                 \/ TakeMissing(q) \/ ReturnError(q) \/ TooManyRequests(q) \/ UpdateStatus(q)
                 \/ Fire(q) \/ Deliver(q) \/ EditSpec(q) \/ Create(q) \/ Delete(q) \/ Resync(q)
          PROVE  FALSE
      BY <2>2 DEF TakeMissing, ReturnError, TooManyRequests, UpdateStatus, Return, Done, Fire,
                  Deliver, EditSpec, Create, Delete, Edited, Resync
    <2>3. CASE Tick \/ Restart
      BY <2>3 DEF Tick, Restart
    <2> QED
      BY <2>1, <2>2, <2>3 DEF Next, Worker, CalmIsAsleep, Asleep
  <1> QED
    BY <1>1, <1>2, <1>3, PTL DEF Spec, EarlyStartHasCause
=============================================================================
