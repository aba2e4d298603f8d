-------------------------- MODULE PolicyStatusProofs --------------------------
(***************************************************************************)
(* Proofs about PolicyStatus for every set of loads, every lag of the      *)
(* cache and every number of edits, changes and restarts.                  *)
(*                                                                         *)
(* ObservedGeneration never goes back although nothing compares it with    *)
(* the server's: the reason is an order.  The generations of server, the   *)
(* versions under way, the cache and the copy descend in that order, and   *)
(* the observed one is at most the copy's.                                 *)
(***************************************************************************)
EXTENDS PolicyStatus, TLAPS

(***************************************************************************)
(* The types.                                                              *)
(***************************************************************************)
\* A merge patch of a well-typed status is a well-typed status (MergeFrom).
LEMMA MergePatchType ==
  ASSUME TypeOK
  PROVE  /\ MergePatch(server.status) \in PlanStatus
         /\ MergePatch(server.status).observedGeneration =
              IF copy.generation # copy.status.observedGeneration
              THEN copy.generation
              ELSE server.status.observedGeneration
  <1> DEFINE old == server.status
  <1>1. FilledStatus \in PlanStatus
    <2>1. plan.planned \in Nat /\ plan.executed \in Nat
      BY StatusAssumption DEF TypeOK
    <2>2. copy.generation \in Nat /\ copy.dryRun \in BOOLEAN
      BY DEF TypeOK, Policy
    <2>3. second \in Nat
      BY StatusAssumption DEF TypeOK
    <2>4. (IF copy.dryRun THEN 0 ELSE plan.executed) \in Nat
      BY <2>1
    <2> QED
      BY <2>1, <2>2, <2>3, <2>4 DEF PlanStatus, FilledStatus
  <1>2. copy.status \in PlanStatus /\ old \in PlanStatus
    BY DEF TypeOK, Policy
  <1>3. FilledStatus.observedGeneration = copy.generation
    BY DEF FilledStatus
  <1> HIDE DEF old
  <1>4. MergePatch(old) \in PlanStatus
    BY <1>1, <1>2 DEF MergePatch, PlanStatus
  <1>5. MergePatch(old).observedGeneration =
          IF copy.generation # copy.status.observedGeneration
          THEN copy.generation
          ELSE old.observedGeneration
    BY <1>2, <1>3 DEF MergePatch, PlanStatus
  <1> QED
    BY <1>4, <1>5 DEF old

\* A version the server stores joins the ones under way, or none does.
LEMMA StoreType ==
  ASSUME TypeOK, NEW version \in Policy, Store(version)
  PROVE  server' \in Policy /\ lag' \in Seq(Policy)
  BY DEF TypeOK, Store

LEMMA InitTypeOK == Init => TypeOK
  <1> SUFFICES ASSUME Init PROVE TypeOK
    OBVIOUS
  <1>1. NoStatus \in PlanStatus
    BY StatusAssumption DEF NoStatus, PlanStatus
  <1>2. server \in Policy
    BY <1>1 DEF Init, Policy
  <1>3. second \in 0..(Cycle - 1)
    BY StatusAssumption DEF Init
  <1> QED
    BY <1>2, <1>3, StatusAssumption DEF Init, TypeOK

LEMMA NextTypeOK == TypeOK /\ [Next]_vars => TypeOK'
  <1> SUFFICES ASSUME TypeOK, [Next]_vars PROVE TypeOK'
    OBVIOUS
  <1>1. CASE EditSpec
    <2>1. PICK flag \in BOOLEAN :
            Store([generation |-> server.generation + 1, dryRun |-> flag, status |-> server.status])
      BY <1>1 DEF EditSpec
    <2>2. [generation |-> server.generation + 1, dryRun |-> flag, status |-> server.status] \in Policy
      BY DEF TypeOK, Policy
    <2>3. server' \in Policy /\ lag' \in Seq(Policy)
      BY <2>1, <2>2, StoreType
    <2>4. edits' \in 0..MaxEdits
      BY <1>1, StatusAssumption DEF EditSpec, TypeOK
    <2> QED
      BY <1>1, <2>3, <2>4 DEF EditSpec, TypeOK
  <1>2. CASE Deliver
    BY <1>2 DEF Deliver, TypeOK
  <1>3. CASE ChangeLoad
    <2>1. changes' \in 0..MaxChanges
      BY <1>3, StatusAssumption DEF ChangeLoad, TypeOK
    <2> QED
      BY <1>3, <2>1 DEF ChangeLoad, TypeOK
  <1>4. CASE Tick
    <2>1. (second + 1) % Cycle \in 0..(Cycle - 1)
      <3>1. second + 1 \in Nat /\ Cycle \in Nat \ {0}
        BY StatusAssumption DEF TypeOK
      <3> QED
        BY <3>1
    <2> QED
      BY <1>4, <2>1 DEF Tick, TypeOK
  <1>5. CASE Begin
    <2>1. cache.generation \in Nat
      BY DEF TypeOK, Policy
    <2> QED
      BY <1>5, <2>1 DEF Begin, TypeOK
  <1>6. CASE UpdateStatus
    <2>1. [server EXCEPT !.status = MergePatch(@)] \in Policy
      BY MergePatchType DEF TypeOK, Policy
    <2>2. server' \in Policy /\ lag' \in Seq(Policy)
      BY <1>6, <2>1, StoreType DEF UpdateStatus
    <2> QED
      BY <1>6, <2>2 DEF UpdateStatus, Finish, TypeOK
  <1>7. CASE NoPatch
    BY <1>7 DEF NoPatch, Finish, TypeOK
  <1>8. CASE Restart
    BY <1>8, StatusAssumption DEF Restart, TypeOK
  <1>9. CASE UNCHANGED vars
    BY <1>9 DEF vars, TypeOK
  <1> QED
    BY <1>1, <1>2, <1>3, <1>4, <1>5, <1>6, <1>7, <1>8, <1>9 DEF Next

(***************************************************************************)
(* The variables keep their types: whatever fields a merge patch leaves    *)
(* out, the status it makes is a whole one (updateStatus).                 *)
(***************************************************************************)
THEOREM StatusTypes == Spec => []TypeOK
  BY InitTypeOK, NextTypeOK, PTL DEF Spec

-------------------------------------------------------------------------------
(***************************************************************************)
(* ObservedGeneration is honest.                                           *)
(***************************************************************************)
\* The patch names the generation Reconcile got, which it is working on.
CopyWasReconciled == pc = "reconciling" => copy.generation \in reconciled

Honest == CopyWasReconciled /\ ObservedWasReconciled

LEMMA NextHonest == TypeOK /\ Honest /\ [Next]_vars => Honest'
  <1> SUFFICES ASSUME TypeOK, Honest, [Next]_vars PROVE Honest'
    OBVIOUS
  <1> USE DEF Honest, CopyWasReconciled, ObservedWasReconciled
  <1>1. CASE EditSpec
    BY <1>1 DEF EditSpec, Store
  <1>2. CASE Deliver \/ ChangeLoad \/ Tick \/ NoPatch \/ Restart
    BY <1>2 DEF Deliver, ChangeLoad, Tick, NoPatch, Finish, Restart
  <1>3. CASE Begin
    BY <1>3 DEF Begin
  <1>4. CASE UpdateStatus
    <2>1. /\ pc = "reconciling" /\ pc' = "idle" /\ reconciled' = reconciled
          /\ server' = [server EXCEPT !.status = MergePatch(@)]
      BY <1>4 DEF UpdateStatus, Finish, Store
    <2>2. server'.status = MergePatch(server.status)
      BY <2>1 DEF TypeOK, Policy
    <2> QED
      BY <2>1, <2>2, MergePatchType
  <1>5. CASE UNCHANGED vars
    BY <1>5 DEF vars
  <1> QED
    BY <1>1, <1>2, <1>3, <1>4, <1>5 DEF Next

(***************************************************************************)
(* A generation the status names was worked on by a reconcile, whatever    *)
(* was edited between Get and the patch and however stale the copy         *)
(* (updateStatus).                                                         *)
(***************************************************************************)
THEOREM ObservedIsHonest == Spec => []ObservedWasReconciled
  <1>1. Init => Honest
    <2> SUFFICES ASSUME Init PROVE Honest
      OBVIOUS
    <2>1. server.status = NoStatus /\ pc = "idle"
      BY DEF Init
    <2> QED
      BY <2>1 DEF NoStatus, Honest, CopyWasReconciled, ObservedWasReconciled
  <1>2. Honest => ObservedWasReconciled
    BY DEF Honest
  <1> QED
    BY <1>1, <1>2, InitTypeOK, NextTypeOK, NextHonest, PTL DEF Spec

-------------------------------------------------------------------------------
(***************************************************************************)
(* ObservedGeneration never goes back.                                     *)
(***************************************************************************)
\* The cache is behind every version under way, those are in the order they
\* were stored, and the server is ahead of all.
GenerationsDescend ==
  /\ cache.generation <= server.generation
  /\ \A i \in 1..Len(lag) :
       /\ cache.generation <= lag[i].generation
       /\ lag[i].generation <= server.generation
  /\ \A i, j \in 1..Len(lag) : i <= j => lag[i].generation <= lag[j].generation

\* What was observed came through the cache, and the copy at hand is no older.
ObservedBehind ==
  /\ server.status.observedGeneration <= cache.generation
  /\ pc = "reconciling" => server.status.observedGeneration <= copy.generation
                           /\ copy.generation <= cache.generation

InOrder == GenerationsDescend /\ ObservedBehind

\* The generations are numbers.
LEMMA GenerationTypes ==
  ASSUME TypeOK
  PROVE  /\ server.generation \in Nat /\ cache.generation \in Nat /\ copy.generation \in Nat
         /\ server.status.observedGeneration \in Nat
         /\ Len(lag) \in Nat
         /\ \A i \in 1..Len(lag) : lag[i] \in Policy /\ lag[i].generation \in Nat
  <1>1. server \in Policy /\ cache \in Policy /\ copy \in Policy /\ lag \in Seq(Policy)
    BY DEF TypeOK
  <1>2. Len(lag) \in Nat /\ \A i \in 1..Len(lag) : lag[i] \in Policy
    BY <1>1
  <1>3. server.status.observedGeneration \in Nat
    BY <1>1 DEF Policy, PlanStatus
  <1>4. \A version \in Policy : version.generation \in Nat
    BY DEF Policy
  <1> QED
    BY <1>1, <1>2, <1>3, <1>4

\* A version that is no older than the server's keeps the order.
LEMMA StoreKeepsOrder ==
  ASSUME TypeOK, GenerationsDescend, NEW version \in Policy, Store(version),
         server.generation <= version.generation, UNCHANGED cache
  PROVE  GenerationsDescend'
  <1> USE GenerationTypes
  <1>1. version.generation \in Nat /\ server' = version
    BY DEF Policy, Store
  <1>2. CASE version = server
    BY <1>1, <1>2 DEF Store, GenerationsDescend
  <1>3. CASE version # server
    <2>1. lag' = Append(lag, version)
      BY <1>3 DEF Store
    <2>2. /\ Len(lag') = Len(lag) + 1
          /\ \A i \in 1..Len(lag) : lag'[i] = lag[i]
          /\ lag'[Len(lag) + 1] = version
      BY <2>1 DEF TypeOK
    <2>3. ASSUME NEW i \in 1..Len(lag')
          PROVE  /\ cache.generation <= lag'[i].generation
                 /\ lag'[i].generation <= version.generation
                 /\ i <= Len(lag) => lag'[i] = lag[i]
                 /\ i > Len(lag) => lag'[i] = version /\ i = Len(lag')
      BY <1>1, <2>2 DEF GenerationsDescend
    <2>4. ASSUME NEW i \in 1..Len(lag'), NEW j \in 1..Len(lag'), i <= j
          PROVE  lag'[i].generation <= lag'[j].generation
      <3>1. CASE j <= Len(lag)
        BY <2>2, <2>3, <2>4, <3>1 DEF GenerationsDescend
      <3>2. CASE j > Len(lag)
        BY <2>3, <3>2
      <3> QED
        BY <2>2, <3>1, <3>2
    <2>5. cache.generation <= version.generation
      BY <1>1 DEF GenerationsDescend
    <2> QED
      BY <1>1, <2>3, <2>4, <2>5 DEF GenerationsDescend
  <1> QED
    BY <1>2, <1>3

LEMMA NextInOrder == TypeOK /\ InOrder /\ [Next]_vars => InOrder'
  <1> SUFFICES ASSUME TypeOK, InOrder, [Next]_vars PROVE GenerationsDescend' /\ ObservedBehind'
    BY DEF InOrder
  <1> USE GenerationTypes DEF InOrder
  <1>1. CASE EditSpec
    <2>1. PICK flag \in BOOLEAN :
            Store([generation |-> server.generation + 1, dryRun |-> flag, status |-> server.status])
      BY <1>1 DEF EditSpec
    <2> DEFINE version ==
          [generation |-> server.generation + 1, dryRun |-> flag, status |-> server.status]
    <2>2. version \in Policy /\ server.generation <= version.generation
      BY DEF TypeOK, Policy
    <2>3. GenerationsDescend'
      BY <1>1, <2>1, <2>2, StoreKeepsOrder DEF EditSpec
    <2>4. server'.status = server.status
      BY <2>1 DEF Store
    <2> QED
      BY <1>1, <2>3, <2>4 DEF EditSpec, ObservedBehind
  <1>2. CASE Deliver
    <2>1. /\ lag # <<>> /\ cache' = Head(lag) /\ lag' = Tail(lag)
          /\ UNCHANGED <<server, pc, copy>>
      BY <1>2 DEF Deliver
    <2>2. /\ Len(lag) \in Nat \ {0} /\ cache' = lag[1]
          /\ Len(lag') = Len(lag) - 1
          /\ \A i \in 1..Len(lag') : lag'[i] = lag[i + 1]
      BY <2>1 DEF TypeOK
    <2>3. cache.generation <= cache'.generation /\ cache'.generation <= server.generation
      BY <2>2 DEF GenerationsDescend
    <2>4. ASSUME NEW i \in 1..Len(lag')
          PROVE  /\ i + 1 \in 1..Len(lag)
                 /\ lag'[i] = lag[i + 1]
                 /\ cache'.generation <= lag'[i].generation
                 /\ lag'[i].generation <= server.generation
      <3>1. i + 1 \in 1..Len(lag) /\ 1 \in 1..Len(lag)
        BY <2>2
      <3> QED
        BY <2>2, <3>1 DEF GenerationsDescend
    <2>5. \A i, j \in 1..Len(lag') : i <= j => lag'[i].generation <= lag'[j].generation
      <3> TAKE i, j \in 1..Len(lag')
      <3>1. /\ i + 1 \in 1..Len(lag) /\ lag'[i] = lag[i + 1]
            /\ j + 1 \in 1..Len(lag) /\ lag'[j] = lag[j + 1]
        BY <2>4
      <3>2. i <= j => i + 1 <= j + 1
        OBVIOUS
      <3> QED
        BY <3>1, <3>2 DEF GenerationsDescend
    <2>6. GenerationsDescend'
      BY <2>1, <2>3, <2>4, <2>5 DEF GenerationsDescend
    <2>7. cache'.generation \in Nat
      BY <2>2
    <2> QED
      BY <2>1, <2>3, <2>6, <2>7 DEF ObservedBehind
  <1>3. CASE ChangeLoad \/ Tick \/ NoPatch
    BY <1>3 DEF ChangeLoad, Tick, NoPatch, Finish, GenerationsDescend, ObservedBehind
  <1>4. CASE Begin
    BY <1>4 DEF Begin, GenerationsDescend, ObservedBehind
  <1>5. CASE UpdateStatus
    <2> DEFINE version == [server EXCEPT !.status = MergePatch(@)]
    <2>1. Store(version) /\ pc = "reconciling" /\ pc' = "idle" /\ UNCHANGED <<cache, copy>>
      BY <1>5 DEF UpdateStatus, Finish
    <2>2. /\ version \in Policy
          /\ version.generation = server.generation
          /\ version.status = MergePatch(server.status)
      BY MergePatchType DEF TypeOK, Policy
    <2> HIDE DEF version
    <2>3. GenerationsDescend'
      BY <2>1, <2>2, StoreKeepsOrder
    <2>4. server'.status = MergePatch(server.status)
      BY <2>1, <2>2 DEF Store
    <2>5. server'.status.observedGeneration \in
            {copy.generation, server.status.observedGeneration}
      BY <2>4, MergePatchType
    <2> QED
      BY <2>1, <2>3, <2>5 DEF ObservedBehind
  <1>6. CASE Restart
    <2>1. /\ cache' = server /\ lag' = <<>> /\ pc' = "idle" /\ server' = server
      BY <1>6 DEF Restart
    <2> QED
      BY <2>1 DEF GenerationsDescend, ObservedBehind
  <1>7. CASE UNCHANGED vars
    BY <1>7 DEF vars, GenerationsDescend, ObservedBehind
  <1> QED
    BY <1>1, <1>2, <1>3, <1>4, <1>5, <1>6, <1>7 DEF Next

LEMMA InitInOrder == Init => InOrder
  <1> SUFFICES ASSUME Init PROVE InOrder
    OBVIOUS
  <1>1. /\ server.generation = 1 /\ server.status = NoStatus /\ cache = server
        /\ lag = <<>> /\ pc = "idle"
    BY DEF Init
  <1> QED
    BY <1>1 DEF InOrder, GenerationsDescend, ObservedBehind, NoStatus

(***************************************************************************)
(* ObservedGeneration never goes back: a patch carries the generation of a *)
(* copy that is at least as new as any that was patched before, through    *)
(* edits, late notifications, refused patches and restarts (updateStatus). *)
(***************************************************************************)
THEOREM ObservedNeverGoesBack == Spec => ObservedAdvances
  <1>1. TypeOK /\ InOrder /\ [Next]_vars =>
          [server'.status.observedGeneration >= server.status.observedGeneration]_vars
    <2> SUFFICES ASSUME TypeOK, InOrder, [Next]_vars
                 PROVE  server'.status.observedGeneration >= server.status.observedGeneration
      OBVIOUS
    <2> USE GenerationTypes
    <2>1. CASE EditSpec
      BY <2>1 DEF EditSpec, Store
    <2>2. CASE Deliver \/ ChangeLoad \/ Tick \/ Begin \/ NoPatch \/ Restart
      BY <2>2 DEF Deliver, ChangeLoad, Tick, Begin, NoPatch, Finish, Restart
    <2>3. CASE UpdateStatus
      <3>1. /\ pc = "reconciling"
            /\ server' = [server EXCEPT !.status = MergePatch(@)]
        BY <2>3 DEF UpdateStatus, Finish, Store
      <3>2. server'.status = MergePatch(server.status)
        BY <3>1 DEF TypeOK, Policy
      <3> QED
        BY <3>1, <3>2, MergePatchType DEF InOrder, ObservedBehind
    <2>4. CASE UNCHANGED vars
      BY <2>4 DEF vars
    <2> QED
      BY <2>1, <2>2, <2>3, <2>4 DEF Next
  <1> QED
    BY <1>1, InitTypeOK, NextTypeOK, InitInOrder, NextInOrder, PTL DEF Spec, ObservedAdvances
=============================================================================
