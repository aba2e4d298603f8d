------------------------ MODULE CandidateFilterProofs ------------------------
(***************************************************************************)
(* Proofs about CandidateFilter for every cluster, every set of policies   *)
(* and SLOs and every interleaving of the snapshot's reads with changes.   *)
(***************************************************************************)
EXTENDS CandidateFilter, FiniteSetTheorems, TLAPS

(***************************************************************************)
(* First layer: types.                                                     *)
(***************************************************************************)
Seen ==
  [policy : Policies, pinned : SUBSET Pods, readySince : [Pods -> Nat \cup {Never}],
   allowance : [Budgets -> Nat], slo : [Namespaces -> WorkloadSLO]]

StateOK == TypeOK /\ seen \in Seen

LEMMA UnreadType == Unread \in Seen
  <1>1. (CHOOSE q \in Policies : TRUE) \in Policies
    BY PolicyAssumption
  <1>2. NoSLO \in WorkloadSLO
    BY DEF NoSLO, WorkloadSLO
  <1> QED
    BY <1>1, <1>2 DEF Unread, Seen, Never

LEMMA NamespaceType == \A p \in Pods : NamespaceOf(p) \in Namespaces
  BY PodsAssumption DEF NamespaceOf, PodAttributes

\* Every guard holds pods only.
LEMMA GuardedType ==
  ASSUME pinned' \subseteq Pods
  PROVE  \A g \in Guards : GuardedPods'[g] \subseteq Pods
  BY DEF GuardedPods, Guards

\* The observers note the state a step leads to, and forget nothing.
Noted(before, held) ==
  /\ exposed' \in [Guards -> SUBSET Pods]
  /\ guarded' \subseteq Pods
  /\ held \subseteq guarded'
  /\ \A g \in Guards :
       /\ before[g] \subseteq exposed'[g]
       /\ Pods \ GuardedPods'[g] \subseteq exposed'[g]
       /\ GuardedPods'[g] \subseteq guarded'

LEMMA ObservedNotes ==
  ASSUME NEW before \in [Guards -> SUBSET Pods], NEW held \in SUBSET Pods,
         pinned' \subseteq Pods, ObservedSince(before, held)
  PROVE  Noted(before, held)
  <1> DEFINE holding == GuardedPods'
  <1>1. DOMAIN holding = Guards
    BY DEF GuardedPods, Guards
  <1>2. \A g \in Guards : holding[g] \subseteq Pods
    BY GuardedType
  <1>3. /\ exposed' = [g \in Guards |-> before[g] \cup (Pods \ holding[g])]
        /\ guarded' = held \cup UNION Range(holding)
    BY DEF ObservedSince
  <1> HIDE DEF holding
  <1>4. Range(holding) = {holding[g] : g \in Guards}
    BY <1>1 DEF Range
  <1>5. exposed' \in [Guards -> SUBSET Pods]
    BY <1>3
  <1>6. guarded' \subseteq Pods
    BY <1>2, <1>3, <1>4
  <1>7. \A g \in Guards :
          /\ before[g] \subseteq exposed'[g]
          /\ Pods \ holding[g] \subseteq exposed'[g]
          /\ holding[g] \subseteq guarded'
    BY <1>3, <1>4
  <1>8. held \subseteq guarded'
    BY <1>3
  <1> QED
    BY <1>5, <1>6, <1>7, <1>8 DEF Noted, holding

\* What a step of the cluster does to the observers.
LEMMA WatchingNotes ==
  ASSUME TypeOK, pinned' \subseteq Pods,
         IF pc = "idle" THEN UNCHANGED observers ELSE Observed
  PROVE  /\ exposed' \in [Guards -> SUBSET Pods] /\ guarded' \subseteq Pods
         /\ pc # "idle" => Noted(exposed, guarded)
  <1>1. CASE pc = "idle"
    BY <1>1 DEF TypeOK, observers
  <1>2. CASE pc # "idle"
    <2>1. Noted(exposed, guarded)
      BY <1>2, ObservedNotes DEF TypeOK, Observed
    <2> QED
      BY <1>2, <2>1 DEF Noted
  <1> QED
    BY <1>1, <1>2

\* The end of a reconcile forgets what it read.
LEMMA FinishTypes ==
  ASSUME Finish
  PROVE  /\ pc' = "idle" /\ seen' \in Seen /\ hot' = {} /\ candidates' = {}
         /\ exposed' \in [Guards -> SUBSET Pods] /\ guarded' = {}
  BY UnreadType DEF Finish, NotObserved

\* Each read replaces the part of the snapshot it is about.
LEMMA ReadsTypes ==
  ASSUME StateOK, Get \/ ListPods \/ ListBudgets \/ ListSLOs
  PROVE  /\ seen' \in Seen
         /\ Get => seen'.policy = policy
         /\ ListPods => /\ seen'.policy = seen.policy
                        /\ seen'.pinned = pinned /\ seen'.readySince = readySince
         /\ ListBudgets => /\ seen'.policy = seen.policy
                           /\ seen'.pinned = seen.pinned /\ seen'.readySince = seen.readySince
                           /\ seen'.allowance = allowance
         /\ ListSLOs => /\ seen'.policy = seen.policy
                        /\ seen'.pinned = seen.pinned /\ seen'.readySince = seen.readySince
                        /\ seen'.allowance = seen.allowance
                        /\ \A ns \in Namespaces :
                             IF slos[ns] = {} THEN seen'.slo[ns] = NoSLO ELSE seen'.slo[ns] \in slos[ns]
  <1> USE DEF StateOK, TypeOK
  <1>1. Get => seen' \in Seen /\ seen'.policy = policy /\ pc = "idle"
    BY DEF Get, Seen
  <1>2. ListPods => /\ seen' \in Seen /\ seen'.policy = seen.policy
                    /\ seen'.pinned = pinned /\ seen'.readySince = readySince /\ pc = "listPods"
    BY DEF ListPods, Seen
  <1>3. ListBudgets => /\ seen' \in Seen /\ seen'.policy = seen.policy
                       /\ seen'.pinned = seen.pinned /\ seen'.readySince = seen.readySince
                       /\ seen'.allowance = allowance /\ pc = "listBudgets"
    BY DEF ListBudgets, Seen
  <1>4. ASSUME ListSLOs
        PROVE  /\ seen' \in Seen /\ seen'.policy = seen.policy
               /\ seen'.pinned = seen.pinned /\ seen'.readySince = seen.readySince
               /\ seen'.allowance = seen.allowance /\ pc = "listSLOs"
               /\ \A ns \in Namespaces :
                    IF slos[ns] = {} THEN seen'.slo[ns] = NoSLO ELSE seen'.slo[ns] \in slos[ns]
    <2>1. PICK last \in [Namespaces -> UNION Range(slos) \cup {NoSLO}] :
            /\ \A ns \in Namespaces : IF slos[ns] = {} THEN last[ns] = NoSLO ELSE last[ns] \in slos[ns]
            /\ seen' = [seen EXCEPT !.slo = last]
      BY <1>4 DEF ListSLOs
    <2>2. \A ns \in Namespaces : slos[ns] \subseteq WorkloadSLO
      BY PolicyAssumption DEF SLOsOK
    <2>3. NoSLO \in WorkloadSLO
      BY DEF NoSLO, WorkloadSLO
    <2>4. last \in [Namespaces -> WorkloadSLO]
      BY <2>1, <2>2, <2>3
    <2> HIDE DEF StateOK, TypeOK
    <2>5. /\ seen' \in Seen /\ seen'.policy = seen.policy
          /\ seen'.pinned = seen.pinned /\ seen'.readySince = seen.readySince
          /\ seen'.allowance = seen.allowance /\ seen'.slo = last
      BY <2>1, <2>4 DEF Seen, StateOK
    <2>6. pc = "listSLOs"
      BY <1>4 DEF ListSLOs
    <2> QED
      BY <2>1, <2>5, <2>6
  <1> HIDE DEF StateOK, TypeOK
  <1>5. seen' \in Seen
    BY <1>1, <1>2, <1>3, <1>4
  <1> QED
    BY <1>1, <1>2, <1>3, <1>4, <1>5

LEMMA InitStateOK == Init => StateOK
  <1> SUFFICES ASSUME Init PROVE StateOK
    OBVIOUS
  <1>1. seen \in Seen
    BY UnreadType DEF Init
  <1>2. allowance \in [Budgets -> Nat] /\ history \in [Pods -> Nat \cup {Never}]
        /\ readySince \in [Pods -> Nat \cup {Never}] /\ exposed \in [Guards -> SUBSET Pods]
    BY BoundsAssumption DEF Init
  <1>3. DOMAIN slos = Namespaces /\ SLOsOK(slos)
    BY DEF Init
  <1> QED
    BY <1>1, <1>2, <1>3 DEF Init, StateOK, TypeOK, Seen

LEMMA NextStateOK == StateOK /\ [Next]_vars => StateOK'
  <1> SUFFICES ASSUME StateOK, [Next]_vars PROVE StateOK'
    OBVIOUS
  <1> USE DEF world
  <1>0. TypeOK /\ seen \in Seen
    BY DEF StateOK
  \* An edit of the cluster: what it leaves to show.
  <1>1. ASSUME Edit, policy' \in Policies, pinned' \subseteq Pods,
               readySince' \in [Pods -> Nat \cup {Never}], allowance' \in [Budgets -> Nat],
               DOMAIN slos' = Namespaces, SLOsOK(slos')
        PROVE  StateOK'
    <2>1. exposed' \in [Guards -> SUBSET Pods] /\ guarded' \subseteq Pods
      BY <1>0, <1>1, WatchingNotes DEF Edit
    <2>2. edits' \in Nat /\ UNCHANGED <<now, pc, seen, hot, candidates, history>>
      BY <1>0, <1>1 DEF Edit, TypeOK
    <2> QED
      BY <1>0, <1>1, <2>1, <2>2 DEF StateOK, TypeOK
  <1>2. ASSUME NEW p \in Pods, Annotate(p) PROVE StateOK'
    BY <1>0, <1>1, <1>2 DEF Annotate, TypeOK
  <1>3. ASSUME NEW p \in Pods, Readiness(p) PROVE StateOK'
    <2>1. readySince' \in [Pods -> Nat \cup {Never}]
      BY <1>0, <1>3 DEF Readiness, TypeOK
    <2> QED
      BY <1>0, <1>1, <1>3, <2>1 DEF Readiness, TypeOK
  <1>4. ASSUME NEW b \in Budgets, BudgetStatus(b) PROVE StateOK'
    <2>1. allowance' \in [Budgets -> Nat]
      BY <1>0, <1>4, BoundsAssumption DEF BudgetStatus, TypeOK
    <2> QED
      BY <1>0, <1>1, <1>4, <2>1 DEF BudgetStatus, TypeOK
  <1>5. CASE EditPolicy
    BY <1>0, <1>1, <1>5 DEF EditPolicy, TypeOK
  <1>6. ASSUME NEW ns \in Namespaces, EditSLOs(ns) PROVE StateOK'
    <2>1. DOMAIN slos' = Namespaces /\ SLOsOK(slos')
      BY <1>0, <1>6 DEF EditSLOs, TypeOK, SLOsOK
    <2> QED
      BY <1>0, <1>1, <1>6, <2>1 DEF EditSLOs, TypeOK
  <1>7. CASE Tick
    <2>1. exposed' \in [Guards -> SUBSET Pods] /\ guarded' \subseteq Pods
      BY <1>0, <1>7, WatchingNotes DEF Tick, TypeOK
    <2> QED
      BY <1>0, <1>7, <2>1 DEF Tick, StateOK, TypeOK
  <1>8. ASSUME Get \/ ListPods \/ ListBudgets \/ ListSLOs PROVE StateOK'
    <2>1. UNCHANGED <<now, policy, pinned, readySince, allowance, slos, edits, hot, candidates, history>>
          /\ pc' \in {"listPods", "listBudgets", "listSLOs", "filter"}
      BY <1>8 DEF Get, ListPods, ListBudgets, ListSLOs
    <2>2. \E before \in [Guards -> SUBSET Pods], held \in SUBSET Pods : ObservedSince(before, held)
      BY <1>0, <1>8 DEF Get, ListPods, ListBudgets, ListSLOs, Observed, TypeOK
    <2>3. exposed' \in [Guards -> SUBSET Pods] /\ guarded' \subseteq Pods
      BY <1>0, <2>1, <2>2, ObservedNotes DEF Noted, TypeOK
    <2>4. seen' \in Seen
      BY <1>8, ReadsTypes
    <2> QED
      BY <1>0, <2>1, <2>3, <2>4 DEF StateOK, TypeOK, Seen
  <1>9. ASSUME Finish, UNCHANGED <<now, world, history>> PROVE StateOK'
    BY <1>0, <1>9, FinishTypes DEF StateOK, TypeOK, Seen
  <1>10. CASE Filter
    <2>1. candidates' \subseteq Pods /\ hot' \subseteq Nodes /\ pc' = "evicting"
      BY <1>10 DEF Filter, FilterCandidates
    <2>2. Noted(exposed, guarded)
      BY <1>0, <1>10, ObservedNotes DEF Filter, Observed, TypeOK
    <2> QED
      BY <1>0, <1>10, <2>1, <2>2 DEF Filter, Noted, StateOK, TypeOK
  <1>11. ASSUME NEW p \in Pods, EvictOK(p) PROVE StateOK'
    <2>1. allowance' \in [Budgets -> Nat]
      BY <1>0, <1>11 DEF EvictOK, Covering, TypeOK
    <2>2. readySince' \in [Pods -> Nat \cup {Never}] /\ history' \in [Pods -> Nat \cup {Never}]
      BY <1>0, <1>11 DEF EvictOK, TypeOK
    <2>3. candidates' \subseteq Pods
      BY <1>0, <1>11 DEF EvictOK, TypeOK
    <2>4. Noted(exposed, guarded)
      BY <1>0, <1>11, ObservedNotes DEF EvictOK, Observed, TypeOK
    <2> QED
      BY <1>0, <1>11, <2>1, <2>2, <2>3, <2>4 DEF EvictOK, Noted, StateOK, TypeOK
  <1>12. ASSUME NEW p \in Pods, NotEvicted(p) PROVE StateOK'
    <2>1. Noted(exposed, guarded)
      BY <1>0, <1>12, ObservedNotes DEF NotEvicted, Observed, TypeOK
    <2> QED
      BY <1>0, <1>12, <2>1 DEF NotEvicted, Noted, StateOK, TypeOK
  <1>13. CASE UNCHANGED vars
    BY <1>13 DEF vars, observers, StateOK, TypeOK
  <1>14. ASSUME NEW p \in Pods, EvictTooManyRequests(p) PROVE StateOK'
    BY <1>9, <1>14 DEF EvictTooManyRequests
  <1>15. CASE SnapshotFails \/ UpdateStatus
    BY <1>9, <1>15 DEF SnapshotFails, UpdateStatus
  <1> QED
    BY <1>2, <1>3, <1>4, <1>5, <1>6, <1>7, <1>8, <1>10, <1>11, <1>12, <1>13, <1>14, <1>15
    DEF Next

(***************************************************************************)
(* Types; in particular no interleaving of evictions and of the disruption *)
(* controller's writes overdraws a budget.                                 *)
(***************************************************************************)
THEOREM FilterTypes == Spec => []TypeOK
  <1>1. StateOK => TypeOK
    BY DEF StateOK
  <1> QED
    BY <1>1, InitStateOK, NextStateOK, PTL DEF Spec

-------------------------------------------------------------------------------
(***************************************************************************)
(* Second layer: what each read of the snapshot has to do with what the    *)
(* observers have noted.  A pod a read lets through was free of the guard  *)
(* when it was read, and one it holds back was held then; the observers    *)
(* forget neither.                                                         *)
(***************************************************************************)
\* The state as it is has been noted.
PresentNoted ==
  pc # "idle" =>
    \A g \in Guards : Pods \ GuardedPods[g] \subseteq exposed[g] /\ GuardedPods[g] \subseteq guarded

\* A pod that was never seen unready is as ready as it was when it was listed.
PodsNoted ==
  pc \in {"listBudgets", "listSLOs", "filter", "evicting"} =>
    \A p \in Pods :
      /\ p \notin seen.pinned => p \in exposed["pinned"]
      /\ p \in seen.pinned => p \in guarded
      /\ seen.readySince[p] # Never => p \in exposed["notReady"]
      /\ p \notin guarded => seen.readySince[p] # Never /\ readySince[p] = seen.readySince[p]

BudgetsNoted ==
  pc \in {"listSLOs", "filter", "evicting"} /\ seen.policy.respectPDB =>
    \A p \in Pods :
      /\ PdbAllows(p) => p \in exposed["pdb"]
      /\ ~PdbAllows(p) => p \in guarded

\* The clock of the filter is later than that of the list of SLOs.
SLOsNoted ==
  pc \in {"filter", "evicting"} =>
    \A p \in Pods :
      LET slo == seen.slo[NamespaceOf(p)] IN
      /\ Attributes[p].kind = "StatefulSet" /\ slo.allowStatefulSet => p \in exposed["statefulSet"]
      /\ Attributes[p].kind = "StatefulSet" /\ ~slo.allowStatefulSet => p \in guarded
      /\ p \notin guarded /\ slo.minReady > 0 => now >= seen.readySince[p] + slo.minReady

ReadsNoted == PresentNoted /\ PodsNoted /\ BudgetsNoted /\ SLOsNoted

\* Whatever happens between the reads: the state a reconcile has read so far
\* stays noted.  Only a loss of readiness changes readySince, or a recovery
\* from one.
ReadinessMoves ==
  \A p \in Pods : readySince'[p] \in {readySince[p], Never} \/ readySince[p] = Never

LEMMA PodsStayNoted ==
  ASSUME PodsNoted, Noted(exposed, guarded), ReadinessMoves,
         pc \in {"listBudgets", "listSLOs", "filter", "evicting"},
         seen'.pinned = seen.pinned, seen'.readySince = seen.readySince
  PROVE  PodsNoted'
  <1> SUFFICES ASSUME NEW p \in Pods
               PROVE  /\ p \notin seen.pinned => p \in exposed'["pinned"]
                      /\ p \in seen.pinned => p \in guarded'
                      /\ seen.readySince[p] # Never => p \in exposed'["notReady"]
                      /\ p \notin guarded' =>
                           seen.readySince[p] # Never /\ readySince'[p] = seen.readySince[p]
    BY DEF PodsNoted
  <1>1. /\ p \notin seen.pinned => p \in exposed["pinned"]
        /\ p \in seen.pinned => p \in guarded
        /\ seen.readySince[p] # Never => p \in exposed["notReady"]
        /\ p \notin guarded => seen.readySince[p] # Never /\ readySince[p] = seen.readySince[p]
    BY DEF PodsNoted
  <1>2. /\ exposed["pinned"] \subseteq exposed'["pinned"]
        /\ exposed["notReady"] \subseteq exposed'["notReady"]
        /\ guarded \subseteq guarded'
        /\ GuardedPods'["notReady"] \subseteq guarded'
    BY DEF Noted, Guards
  <1>3. readySince'[p] = Never => p \in GuardedPods'["notReady"]
    BY DEF GuardedPods
  <1> QED
    BY <1>1, <1>2, <1>3 DEF ReadinessMoves

LEMMA BudgetsStayNoted ==
  ASSUME BudgetsNoted, Noted(exposed, guarded), pc \in {"listSLOs", "filter", "evicting"},
         seen'.policy = seen.policy, seen'.allowance = seen.allowance
  PROVE  BudgetsNoted'
  <1>1. exposed["pdb"] \subseteq exposed'["pdb"] /\ guarded \subseteq guarded'
    BY DEF Noted, Guards
  <1>2. \A p \in Pods : PdbAllows(p)' <=> PdbAllows(p)
    BY DEF PdbAllows
  <1> QED
    BY <1>1, <1>2 DEF BudgetsNoted

LEMMA SLOsStayNoted ==
  ASSUME StateOK, SLOsNoted, Noted(exposed, guarded), pc \in {"filter", "evicting"},
         now' \in {now, now + 1}, seen' = seen
  PROVE  SLOsNoted'
  <1> SUFFICES ASSUME NEW p \in Pods
               PROVE  LET slo == seen.slo[NamespaceOf(p)] IN
                      /\ Attributes[p].kind = "StatefulSet" /\ slo.allowStatefulSet =>
                           p \in exposed'["statefulSet"]
                      /\ Attributes[p].kind = "StatefulSet" /\ ~slo.allowStatefulSet => p \in guarded'
                      /\ p \notin guarded' /\ slo.minReady > 0 =>
                           now' >= seen.readySince[p] + slo.minReady
    BY DEF SLOsNoted, NamespaceOf
  <1> DEFINE slo == seen.slo[NamespaceOf(p)]
  <1>1. exposed["statefulSet"] \subseteq exposed'["statefulSet"] /\ guarded \subseteq guarded'
    BY DEF Noted, Guards
  <1>2. /\ Attributes[p].kind = "StatefulSet" /\ slo.allowStatefulSet => p \in exposed["statefulSet"]
        /\ Attributes[p].kind = "StatefulSet" /\ ~slo.allowStatefulSet => p \in guarded
        /\ p \notin guarded /\ slo.minReady > 0 => now >= seen.readySince[p] + slo.minReady
    BY DEF SLOsNoted
  <1>3. /\ now \in Nat /\ seen.readySince[p] \in Nat \cup {Never} /\ slo.minReady \in Nat
    BY NamespaceType DEF StateOK, TypeOK, WorkloadSLO
  <1> HIDE DEF slo
  <1>4. now >= seen.readySince[p] + slo.minReady => now' >= seen.readySince[p] + slo.minReady
    BY <1>3 DEF Never
  <1> QED
    BY <1>1, <1>2, <1>4 DEF slo

\* A step beside the reads leaves what was read as it was noted.
LEMMA StayNoted ==
  ASSUME StateOK, ReadsNoted, Noted(exposed, guarded), ReadinessMoves,
         now' \in {now, now + 1}, seen' = seen, pc # "idle",
         pc' = pc \/ (pc = "filter" /\ pc' = "evicting")
  PROVE  ReadsNoted'
  <1>1. PresentNoted'
    BY DEF Noted, PresentNoted
  <1>2. PodsNoted'
    <2>1. CASE pc \in {"listBudgets", "listSLOs", "filter", "evicting"}
      BY <2>1, PodsStayNoted DEF ReadsNoted
    <2>2. CASE pc \notin {"listBudgets", "listSLOs", "filter", "evicting"}
      BY <2>2 DEF PodsNoted
    <2> QED
      BY <2>1, <2>2
  <1>3. BudgetsNoted'
    <2>1. CASE pc \in {"listSLOs", "filter", "evicting"}
      BY <2>1, BudgetsStayNoted DEF ReadsNoted
    <2>2. CASE pc \notin {"listSLOs", "filter", "evicting"}
      BY <2>2 DEF BudgetsNoted
    <2> QED
      BY <2>1, <2>2
  <1>4. SLOsNoted'
    <2>1. CASE pc \in {"filter", "evicting"}
      BY <2>1, SLOsStayNoted DEF ReadsNoted
    <2>2. CASE pc \notin {"filter", "evicting"}
      BY <2>2 DEF SLOsNoted
    <2> QED
      BY <2>1, <2>2
  <1> QED
    BY <1>1, <1>2, <1>3, <1>4 DEF ReadsNoted

\* Between reconciles nothing has been read.
LEMMA IdleNoted == pc' = "idle" => ReadsNoted'
  BY DEF ReadsNoted, PresentNoted, PodsNoted, BudgetsNoted, SLOsNoted

LEMMA ReadNoted ==
  ASSUME StateOK, ReadsNoted, Get \/ ListPods \/ ListBudgets \/ ListSLOs
  PROVE  ReadsNoted'
  <1> USE DEF world
  <1>0. /\ UNCHANGED <<now, policy, pinned, readySince, allowance, slos, history>>
        /\ pinned' \subseteq Pods
    BY DEF Get, ListPods, ListBudgets, ListSLOs, StateOK, TypeOK
  <1>1. CASE Get
    <2>1. pc' = "listPods" /\ ObservedSince([g \in Guards |-> {}], {})
      BY <1>1 DEF Get
    <2>2. Noted([g \in Guards |-> {}], {})
      BY <1>0, <2>1, ObservedNotes
    <2>3. PresentNoted'
      BY <2>2 DEF Noted, PresentNoted
    <2> QED
      BY <2>1, <2>3 DEF ReadsNoted, PodsNoted, BudgetsNoted, SLOsNoted
  <1>2. ASSUME Observed PROVE Noted(exposed, guarded) /\ PresentNoted'
    <2>1. Noted(exposed, guarded)
      BY <1>0, <1>2, ObservedNotes DEF Observed, StateOK, TypeOK
    <2> QED
      BY <2>1 DEF Noted, PresentNoted
  <1>3. ReadinessMoves
    BY <1>0 DEF ReadinessMoves
  <1>4. CASE ListPods
    <2>1. pc' = "listBudgets" /\ seen'.pinned = pinned /\ seen'.readySince = readySince
      BY <1>4, ReadsTypes DEF ListPods
    <2>2. Noted(exposed, guarded) /\ PresentNoted'
      BY <1>2, <1>4 DEF ListPods
    <2>3. PodsNoted'
      <3> SUFFICES ASSUME NEW p \in Pods
                   PROVE  /\ p \notin pinned => p \in exposed'["pinned"]
                          /\ p \in pinned => p \in guarded'
                          /\ readySince[p] # Never => p \in exposed'["notReady"]
                          /\ p \notin guarded' => readySince[p] # Never
        BY <1>0, <2>1 DEF PodsNoted
      <3>1. /\ GuardedPods'["pinned"] = pinned
            /\ p \in GuardedPods'["notReady"] <=> readySince[p] = Never
        BY <1>0 DEF GuardedPods
      <3>2. /\ Pods \ GuardedPods'["pinned"] \subseteq exposed'["pinned"]
            /\ GuardedPods'["pinned"] \subseteq guarded'
            /\ Pods \ GuardedPods'["notReady"] \subseteq exposed'["notReady"]
            /\ GuardedPods'["notReady"] \subseteq guarded'
        BY <2>2 DEF Noted, Guards
      <3> QED
        BY <3>1, <3>2
    <2> QED
      BY <2>1, <2>2, <2>3 DEF ReadsNoted, BudgetsNoted, SLOsNoted
  <1>5. CASE ListBudgets
    <2>1. /\ pc = "listBudgets" /\ pc' = "listSLOs" /\ seen'.policy = seen.policy
          /\ seen'.pinned = seen.pinned /\ seen'.readySince = seen.readySince
          /\ seen'.allowance = allowance
      BY <1>5, ReadsTypes DEF ListBudgets
    <2>2. Noted(exposed, guarded) /\ PresentNoted'
      BY <1>2, <1>5 DEF ListBudgets
    <2>3. PodsNoted'
      BY <1>3, <2>1, <2>2, PodsStayNoted DEF ReadsNoted
    <2>4. BudgetsNoted'
      <3> SUFFICES ASSUME seen'.policy.respectPDB, NEW p \in Pods
                   PROVE  /\ PdbAllows(p)' => p \in exposed'["pdb"]
                          /\ ~PdbAllows(p)' => p \in guarded'
        BY DEF BudgetsNoted
      <3>1. PdbAllows(p)' <=> ~\E b \in Budgets : p \in Covers[b] /\ allowance[b] = 0
        BY <2>1 DEF PdbAllows, StateOK, TypeOK
      <3>2. p \in GuardedPods'["pdb"] <=> \E b \in Budgets : p \in Covers[b] /\ allowance[b] = 0
        BY <1>0, <2>1 DEF GuardedPods
      <3>3. Pods \ GuardedPods'["pdb"] \subseteq exposed'["pdb"] /\ GuardedPods'["pdb"] \subseteq guarded'
        BY <2>2 DEF Noted, Guards
      <3> QED
        BY <3>1, <3>2, <3>3
    <2> QED
      BY <2>1, <2>2, <2>3, <2>4 DEF ReadsNoted, SLOsNoted
  <1>6. CASE ListSLOs
    <2>1. /\ pc = "listSLOs" /\ pc' = "filter" /\ seen' \in Seen /\ seen'.policy = seen.policy
          /\ seen'.pinned = seen.pinned /\ seen'.readySince = seen.readySince
          /\ seen'.allowance = seen.allowance
          /\ \A ns \in Namespaces :
               IF slos[ns] = {} THEN seen'.slo[ns] = NoSLO ELSE seen'.slo[ns] \in slos[ns]
      BY <1>6, ReadsTypes DEF ListSLOs
    <2>2. Noted(exposed, guarded) /\ PresentNoted'
      BY <1>2, <1>6 DEF ListSLOs
    <2>3. PodsNoted'
      BY <1>3, <2>1, <2>2, PodsStayNoted DEF ReadsNoted
    <2>4. BudgetsNoted'
      BY <2>1, <2>2, BudgetsStayNoted DEF ReadsNoted
    <2>5. SLOsNoted'
      <3> SUFFICES ASSUME NEW p \in Pods
                   PROVE  LET slo == seen'.slo[NamespaceOf(p)] IN
                          /\ Attributes[p].kind = "StatefulSet" /\ slo.allowStatefulSet =>
                               p \in exposed'["statefulSet"]
                          /\ Attributes[p].kind = "StatefulSet" /\ ~slo.allowStatefulSet => p \in guarded'
                          /\ p \notin guarded' /\ slo.minReady > 0 =>
                               now' >= seen'.readySince[p] + slo.minReady
        BY DEF SLOsNoted, NamespaceOf
      <3> DEFINE ns == NamespaceOf(p)
                 slo == seen'.slo[ns]
      <3>1. ns \in Namespaces
        BY NamespaceType
      <3>2. IF slos[ns] = {} THEN slo = NoSLO ELSE slo \in slos[ns]
        BY <2>1, <3>1
      <3>3. /\ Pods \ GuardedPods'["statefulSet"] \subseteq exposed'["statefulSet"]
            /\ GuardedPods'["statefulSet"] \subseteq guarded'
            /\ GuardedPods'["contested"] \subseteq guarded'
            /\ GuardedPods'["minReady"] \subseteq guarded'
        BY <2>2 DEF Noted, Guards
      <3>4. /\ p \in GuardedPods'["statefulSet"] <=>
                 /\ Attributes[p].kind = "StatefulSet"
                 /\ \A o \in slos[ns] : ~o.allowStatefulSet
            /\ p \in GuardedPods'["contested"] <=>
                 /\ Attributes[p].kind = "StatefulSet"
                 /\ \E o \in slos[ns] : ~o.allowStatefulSet
            /\ p \in GuardedPods'["minReady"] <=>
                 \E o \in slos[ns] :
                   o.minReady > 0 /\ (readySince[p] = Never \/ now < readySince[p] + o.minReady)
        BY <1>0 DEF GuardedPods, NamespaceOf
      <3>5. p \notin guarded' => readySince[p] # Never /\ readySince[p] = seen'.readySince[p]
        BY <1>0, <2>1, <2>3 DEF PodsNoted
      <3>6. now' = now /\ now \in Nat /\ readySince[p] \in Nat \cup {Never} /\ slo.minReady \in Nat
        BY <1>0, <2>1, <3>1 DEF StateOK, TypeOK, Seen, WorkloadSLO
      <3> HIDE DEF slo, ns
      <3>7. CASE slos[ns] = {}
        <4>1. slo.allowStatefulSet = FALSE /\ slo.minReady = 0
          BY <3>2, <3>7 DEF NoSLO
        <4> QED
          BY <3>3, <3>4, <3>7, <4>1 DEF slo, ns
      <3>8. CASE slos[ns] # {}
        <4>1. slo \in slos[ns]
          BY <3>2, <3>8
        <4>2. slo.allowStatefulSet => p \in exposed'["statefulSet"]
          BY <3>3, <3>4, <4>1
        <4>3. Attributes[p].kind = "StatefulSet" /\ ~slo.allowStatefulSet => p \in guarded'
          BY <3>3, <3>4, <4>1
        <4>4. ASSUME p \notin guarded', slo.minReady > 0
              PROVE  now' >= seen'.readySince[p] + slo.minReady
          <5>1. ~(now < readySince[p] + slo.minReady)
            BY <3>3, <3>4, <4>1, <4>4
          <5>2. readySince[p] \in Nat /\ readySince[p] = seen'.readySince[p]
            BY <3>5, <3>6, <4>4
          <5> QED
            BY <3>6, <5>1, <5>2
        <4> QED
          BY <4>2, <4>3, <4>4 DEF slo, ns
      <3> QED
        BY <3>7, <3>8
    <2> QED
      BY <2>2, <2>3, <2>4, <2>5 DEF ReadsNoted
  <1> QED
    BY <1>1, <1>4, <1>5, <1>6

LEMMA NextReadsNoted == StateOK /\ ReadsNoted /\ [Next]_vars => ReadsNoted'
  <1> SUFFICES ASSUME StateOK, ReadsNoted, [Next]_vars PROVE ReadsNoted'
    OBVIOUS
  <1> USE DEF world
  <1>0. TypeOK /\ TypeOK'
    BY NextStateOK DEF StateOK
  <1>1. ASSUME seen' = seen, pc' = pc, now' \in {now, now + 1}, ReadinessMoves,
               IF pc = "idle" THEN UNCHANGED observers ELSE Observed
        PROVE  ReadsNoted'
    <2>1. CASE pc = "idle"
      BY <1>1, <2>1, IdleNoted
    <2>2. CASE pc # "idle"
      BY <1>0, <1>1, <2>2, WatchingNotes, StayNoted DEF TypeOK
    <2> QED
      BY <2>1, <2>2
  <1>2. ASSUME Edit, UNCHANGED readySince PROVE ReadsNoted'
    BY <1>1, <1>2 DEF Edit, ReadinessMoves
  <1>3. ASSUME NEW p \in Pods, Annotate(p) PROVE ReadsNoted'
    BY <1>2, <1>3 DEF Annotate
  <1>4. ASSUME NEW p \in Pods, Readiness(p) PROVE ReadsNoted'
    <2>1. ReadinessMoves
      BY <1>0, <1>4 DEF Readiness, ReadinessMoves, TypeOK
    <2> QED
      BY <1>1, <1>4, <2>1 DEF Readiness, Edit
  <1>5. ASSUME NEW b \in Budgets, BudgetStatus(b) PROVE ReadsNoted'
    BY <1>2, <1>5 DEF BudgetStatus
  <1>6. CASE EditPolicy
    BY <1>2, <1>6 DEF EditPolicy
  <1>7. ASSUME NEW ns \in Namespaces, EditSLOs(ns) PROVE ReadsNoted'
    BY <1>2, <1>7 DEF EditSLOs
  <1>8. CASE Tick
    BY <1>1, <1>8 DEF Tick, ReadinessMoves
  <1>9. CASE Filter
    <2>1. Noted(exposed, guarded) /\ ReadinessMoves
      BY <1>0, <1>9, ObservedNotes DEF Filter, Observed, TypeOK, ReadinessMoves
    <2> QED
      BY <1>9, <2>1, StayNoted DEF Filter
  <1>10. ASSUME NEW p \in Pods, EvictOK(p) PROVE ReadsNoted'
    <2>1. ReadinessMoves
      BY <1>0, <1>10 DEF EvictOK, ReadinessMoves, TypeOK
    <2>2. pc # "idle" /\ Observed /\ UNCHANGED <<now, pc, seen>>
      BY <1>10 DEF EvictOK
    <2> QED
      BY <1>1, <2>1, <2>2
  <1>11. ASSUME NEW p \in Pods, NotEvicted(p) PROVE ReadsNoted'
    BY <1>1, <1>11 DEF NotEvicted, ReadinessMoves
  <1>12. ASSUME NEW p \in Pods, EvictTooManyRequests(p) PROVE ReadsNoted'
    BY <1>12, FinishTypes, IdleNoted DEF EvictTooManyRequests
  <1>13. CASE SnapshotFails \/ UpdateStatus
    BY <1>13, FinishTypes, IdleNoted DEF SnapshotFails, UpdateStatus
  <1>14. CASE UNCHANGED vars
    <2>1. GuardedPods' = GuardedPods
      BY <1>14 DEF vars, GuardedPods, IsHighPriority, NamespaceOf
    <2> QED
      BY <1>14, <2>1 DEF vars, observers, ReadsNoted, PresentNoted, PodsNoted, BudgetsNoted,
                         SLOsNoted, PdbAllows, NamespaceOf
  <1> QED
    BY <1>3, <1>4, <1>5, <1>6, <1>7, <1>8, <1>9, <1>10, <1>11, <1>12, <1>13, <1>14, ReadNoted
    DEF Next

-------------------------------------------------------------------------------
(***************************************************************************)
(* Third layer: the candidates.                                            *)
(***************************************************************************)
\* Cutting a size to whole GiB: more than the limit is at least one more.
LEMMA WholeGiB ==
  ASSUME NEW size \in Nat
  PROVE  size \div GiB > EmptyDirLimitGi <=> size >= (EmptyDirLimitGi + 1) * GiB
  <1> DEFINE q == size \div GiB
             r == size % GiB
             k == EmptyDirLimitGi + 1
  <1>0. GiB \in Nat \ {0} /\ k \in Nat /\ EmptyDirLimitGi \in Nat
    BY PolicyAssumption
  <1>1. q \in Int /\ r \in Int /\ 0 <= r /\ r < GiB /\ size = GiB * q + r
    BY <1>0
  <1> HIDE DEF q, r, k
  <1>2. q >= k => GiB * q >= GiB * k
    BY <1>0, <1>1
  <1>3. q < k => GiB * (q + 1) <= GiB * k
    <2>1. q < k => q + 1 <= k
      BY <1>0, <1>1
    <2> QED
      BY <1>0, <1>1, <2>1
  <1>4. GiB * (q + 1) = GiB * q + GiB /\ k * GiB = GiB * k
    BY <1>0, <1>1
  <1>5. q >= k <=> size >= k * GiB
    BY <1>0, <1>1, <1>2, <1>3, <1>4
  <1>6. q > EmptyDirLimitGi <=> q >= k
    BY <1>0, <1>1 DEF k
  <1> QED
    BY <1>5, <1>6 DEF q, k

\* The guards that no read of the snapshot but the policy's decides, and the
\* planner's own memory: the filter lets through exactly the pods free of them.
LEMMA FilterAgrees ==
  ASSUME StateOK, pc # "idle", NEW p \in Pods
  PROVE  /\ Allow(seen.policy, NamespaceOf(p)) <=> p \notin GuardedPods["namespace"]
         /\ MatchesSelectors(seen.policy, p) <=> p \notin GuardedPods["selector"]
         /\ (seen.policy.respectPodPriority => ~IsHighPriority(p)) <=> p \notin GuardedPods["priority"]
         /\ Attributes[p].kind # "DaemonSet" <=> p \notin GuardedPods["daemonSet"]
         /\ ~SkipLocalStorage(p) <=> p \notin GuardedPods["storage"]
         /\ ~Memory!HasBackoff(history[p], now, seen.policy.backoff) <=> p \notin GuardedPods["backoff"]
  <1>1. Allow(seen.policy, NamespaceOf(p)) <=> p \notin GuardedPods["namespace"]
    BY DEF Allow, GuardedPods, NamespaceOf
  <1>2. MatchesSelectors(seen.policy, p) <=> p \notin GuardedPods["selector"]
    BY DEF MatchesSelectors, GuardedPods
  <1>3. (seen.policy.respectPodPriority => ~IsHighPriority(p)) <=> p \notin GuardedPods["priority"]
    BY DEF GuardedPods
  <1>4. Attributes[p].kind # "DaemonSet" <=> p \notin GuardedPods["daemonSet"]
    BY DEF GuardedPods
  <1>5. ~SkipLocalStorage(p) <=> p \notin GuardedPods["storage"]
    <2>1. Attributes[p].emptyDirs \subseteq Nat \cup {Unlimited}
      BY PodsAssumption DEF PodAttributes
    <2>2. \A size \in Attributes[p].emptyDirs :
            size = Unlimited \/ (size \div GiB > EmptyDirLimitGi <=> size >= (EmptyDirLimitGi + 1) * GiB)
      BY <2>1, WholeGiB
    <2>3. p \in GuardedPods["storage"] <=>
            \/ Attributes[p].hostPath
            \/ \E size \in Attributes[p].emptyDirs : size = Unlimited \/ size >= (EmptyDirLimitGi + 1) * GiB
      BY DEF GuardedPods
    <2>4. SkipLocalStorage(p) <=>
            \/ Attributes[p].hostPath
            \/ \E size \in Attributes[p].emptyDirs : size = Unlimited \/ size \div GiB > EmptyDirLimitGi
      BY DEF SkipLocalStorage
    <2> QED
      BY <2>2, <2>3, <2>4
  <1>6. ~Memory!HasBackoff(history[p], now, seen.policy.backoff) <=> p \notin GuardedPods["backoff"]
    <2>1. history[p] \in Nat \cup {Never} /\ now \in Nat /\ seen.policy.backoff \in Nat
      BY PolicyAssumption DEF StateOK, TypeOK, PolicySpec
    <2>2. p \in GuardedPods["backoff"] <=> history[p] # Never /\ now < history[p] + seen.policy.backoff
      BY DEF GuardedPods
    <2> QED
      BY <2>1, <2>2 DEF Memory!HasBackoff, Memory!Never, Never
  <1> QED
    BY <1>1, <1>2, <1>3, <1>4, <1>5, <1>6

\* What the filter lets through met every guard at some moment of the reconcile.
LEMMA FilterHonours ==
  ASSUME StateOK, ReadsNoted, pc = "filter", NEW hotNodes, NEW p \in FilterCandidates(hotNodes)
  PROVE  /\ p \in Pods
         /\ \A g \in Guards \ {"contested", "notReady", "minReady"} : p \in exposed[g]
         /\ seen.slo[NamespaceOf(p)].minReady > 0 => p \in exposed["notReady"]
         /\ seen.policy.respectPDB => PdbAllows(p)
  <1>1. p \in Pods
    BY DEF FilterCandidates
  <1>2. /\ Allow(seen.policy, NamespaceOf(p)) /\ MatchesSelectors(seen.policy, p)
        /\ seen.policy.respectPodPriority => ~IsHighPriority(p)
        /\ Attributes[p].kind # "DaemonSet" /\ ~SkipLocalStorage(p)
        /\ ~Memory!HasBackoff(history[p], now, seen.policy.backoff)
    BY DEF FilterCandidates
  <1>3. /\ p \notin seen.pinned
        /\ seen.policy.respectPDB => PdbAllows(p)
        /\ Attributes[p].kind = "StatefulSet" => seen.slo[NamespaceOf(p)].allowStatefulSet
        /\ seen.slo[NamespaceOf(p)].minReady > 0 => seen.readySince[p] # Never
    BY DEF FilterCandidates, MeetsMinReady
  <1>4. \A g \in Guards : Pods \ GuardedPods[g] \subseteq exposed[g]
    BY DEF ReadsNoted, PresentNoted
  <1>5. \A g \in {"namespace", "selector", "priority", "daemonSet", "storage", "backoff"} :
          g \in Guards /\ p \notin GuardedPods[g]
    BY <1>1, <1>2, FilterAgrees DEF Guards
  <1>6. p \in exposed["pinned"]
    BY <1>1, <1>3 DEF ReadsNoted, PodsNoted
  <1>7. p \in exposed["pdb"]
    <2>1. CASE seen.policy.respectPDB
      BY <1>1, <1>3, <2>1 DEF ReadsNoted, BudgetsNoted
    <2>2. CASE ~seen.policy.respectPDB
      <3>1. p \notin GuardedPods["pdb"]
        BY <2>2 DEF GuardedPods
      <3> QED
        BY <1>1, <1>4, <3>1 DEF Guards
    <2> QED
      BY <2>1, <2>2
  <1>8. p \in exposed["statefulSet"]
    <2>1. CASE Attributes[p].kind = "StatefulSet"
      BY <1>1, <1>3, <2>1 DEF ReadsNoted, SLOsNoted
    <2>2. CASE Attributes[p].kind # "StatefulSet"
      <3>1. p \notin GuardedPods["statefulSet"]
        BY <2>2 DEF GuardedPods
      <3> QED
        BY <1>1, <1>4, <3>1 DEF Guards
    <2> QED
      BY <2>1, <2>2
  <1>9. seen.slo[NamespaceOf(p)].minReady > 0 => p \in exposed["notReady"]
    BY <1>1, <1>3 DEF ReadsNoted, PodsNoted
  <1>10. \A g \in Guards \ {"contested", "notReady", "minReady"} : p \in exposed[g]
    BY <1>1, <1>4, <1>5, <1>6, <1>7, <1>8 DEF Guards
  <1> QED
    BY <1>1, <1>3, <1>9, <1>10

CandidatesOK ==
  /\ GuardsHonoured
  /\ pc # "evicting" => candidates = {}
  /\ seen.policy.respectPDB => \A p \in candidates : PdbAllows(p)

LEMMA NextCandidatesOK == StateOK /\ ReadsNoted /\ CandidatesOK /\ [Next]_vars => CandidatesOK'
  <1> SUFFICES ASSUME StateOK, ReadsNoted, CandidatesOK, [Next]_vars PROVE CandidatesOK'
    OBVIOUS
  <1> USE DEF world
  <1>0. TypeOK /\ TypeOK'
    BY NextStateOK DEF StateOK
  <1>1. ASSUME candidates' = {} PROVE CandidatesOK'
    BY <1>1 DEF CandidatesOK, GuardsHonoured
  <1>2. ASSUME candidates' \subseteq candidates, seen' = seen, pc' = pc, Noted(exposed, guarded)
        PROVE  CandidatesOK'
    <2>1. \A g \in Guards : exposed[g] \subseteq exposed'[g]
      BY <1>2 DEF Noted
    <2>2. GuardsHonoured'
      BY <1>2, <2>1 DEF CandidatesOK, GuardsHonoured, Guards, NamespaceOf
    <2> QED
      BY <1>2, <2>2 DEF CandidatesOK, PdbAllows
  <1>3. ASSUME UNCHANGED <<candidates, seen, pc>>, pinned' \subseteq Pods,
               IF pc = "idle" THEN UNCHANGED observers ELSE Observed
        PROVE  CandidatesOK'
    <2>1. CASE pc = "idle"
      BY <1>1, <1>3, <2>1 DEF CandidatesOK
    <2>2. CASE pc # "idle"
      BY <1>0, <1>2, <1>3, <2>2, WatchingNotes
    <2> QED
      BY <2>1, <2>2
  <1>4. ASSUME Edit PROVE CandidatesOK'
    BY <1>0, <1>3, <1>4 DEF Edit, TypeOK
  <1>5. ASSUME NEW p \in Pods, Annotate(p) \/ Readiness(p) PROVE CandidatesOK'
    BY <1>4, <1>5 DEF Annotate, Readiness
  <1>6. ASSUME NEW b \in Budgets, BudgetStatus(b) PROVE CandidatesOK'
    BY <1>4, <1>6 DEF BudgetStatus
  <1>7. ASSUME NEW ns \in Namespaces, EditSLOs(ns) PROVE CandidatesOK'
    BY <1>4, <1>7 DEF EditSLOs
  <1>8. CASE EditPolicy
    BY <1>4, <1>8 DEF EditPolicy
  <1>9. CASE Tick
    BY <1>0, <1>3, <1>9 DEF Tick, TypeOK
  <1>10. CASE Get \/ ListPods \/ ListBudgets \/ ListSLOs
    BY <1>1, <1>10 DEF Get, ListPods, ListBudgets, ListSLOs, CandidatesOK
  <1>11. CASE Filter
    <2>1. /\ pc = "filter" /\ pc' = "evicting" /\ candidates' = FilterCandidates(hot')
          /\ seen' = seen
      BY <1>11 DEF Filter
    <2>2. \A g \in Guards : exposed[g] \subseteq exposed'[g]
      BY <1>0, <1>11, ObservedNotes DEF Filter, Observed, TypeOK, Noted
    <2>3. ASSUME NEW p \in candidates'
          PROVE  /\ \A g \in Guards \ {"contested", "notReady", "minReady"} : p \in exposed'[g]
                 /\ seen'.slo[NamespaceOf(p)].minReady > 0 => p \in exposed'["notReady"]
                 /\ seen'.policy.respectPDB => PdbAllows(p)'
      <3>1. /\ \A g \in Guards \ {"contested", "notReady", "minReady"} : p \in exposed[g]
            /\ seen.slo[NamespaceOf(p)].minReady > 0 => p \in exposed["notReady"]
            /\ seen.policy.respectPDB => PdbAllows(p)
        BY <2>1, FilterHonours
      <3> QED
        BY <2>1, <2>2, <3>1 DEF Guards, PdbAllows
    <2> QED
      BY <2>1, <2>3 DEF CandidatesOK, GuardsHonoured, NamespaceOf, PdbAllows
  <1>12. ASSUME NEW p \in Pods, EvictOK(p) \/ NotEvicted(p) PROVE CandidatesOK'
    <2>1. /\ Observed /\ candidates' = candidates \ {p} /\ UNCHANGED <<seen, pc, pinned>>
      BY <1>12 DEF EvictOK, NotEvicted
    <2>2. Noted(exposed, guarded)
      BY <1>0, <2>1, ObservedNotes DEF Observed, TypeOK
    <2> QED
      BY <1>2, <2>1, <2>2
  <1>13. ASSUME NEW p \in Pods, EvictTooManyRequests(p) PROVE CandidatesOK'
    BY <1>1, <1>13 DEF EvictTooManyRequests, Finish
  <1>14. CASE SnapshotFails \/ UpdateStatus
    BY <1>1, <1>14 DEF SnapshotFails, UpdateStatus, Finish
  <1>15. CASE UNCHANGED vars
    BY <1>15 DEF vars, observers, CandidatesOK, GuardsHonoured, PdbAllows, NamespaceOf
  <1> QED
    BY <1>5, <1>6, <1>7, <1>8, <1>9, <1>10, <1>11, <1>12, <1>13, <1>14, <1>15 DEF Next

FilterOK == StateOK /\ ReadsNoted /\ CandidatesOK

LEMMA AlwaysFilterOK == Spec => []FilterOK
  <1>1. Init => FilterOK
    <2> SUFFICES ASSUME Init PROVE FilterOK
      OBVIOUS
    <2>1. StateOK
      BY InitStateOK
    <2>2. pc = "idle" /\ candidates = {}
      BY DEF Init
    <2> QED
      BY <2>1, <2>2 DEF FilterOK, ReadsNoted, PresentNoted, PodsNoted, BudgetsNoted, SLOsNoted,
                        CandidatesOK, GuardsHonoured
  <1>2. FilterOK /\ [Next]_vars => FilterOK'
    BY NextStateOK, NextReadsNoted, NextCandidatesOK DEF FilterOK
  <1> QED
    BY <1>1, <1>2, PTL DEF Spec

(***************************************************************************)
(* A guard set before a reconcile starts and kept through it is never      *)
(* overridden by it: whatever the interleaving of the snapshot's reads,    *)
(* the filter and the evictions with changes of the cluster, each pod that *)
(* may still be evicted was free of each guard at some moment of the       *)
(* reconcile (Snapshot, filterCandidates).                                 *)
(***************************************************************************)
THEOREM GuardsAreHonoured == Spec => []GuardsHonoured
  <1>1. FilterOK => GuardsHonoured
    BY DEF FilterOK, CandidatesOK
  <1> QED
    BY <1>1, AlwaysFilterOK, PTL

(***************************************************************************)
(* The filter withholds nothing for a reason of its own: a pod of a hot    *)
(* node that no guard held at any moment of the reconcile is a candidate   *)
(* (filterCandidates).                                                     *)
(***************************************************************************)
THEOREM FreePodsAreCandidates == Spec => NothingWithheld
  <1> DEFINE Kept == pc = "filter" /\ pc' = "evicting" =>
               \A p \in Pods : Attributes[p].node \in hot' /\ p \notin guarded' => p \in candidates'
  <1>1. FilterOK /\ [Next]_vars => [Kept]_vars
    <2> SUFFICES ASSUME FilterOK, Next, pc = "filter", pc' = "evicting", NEW p \in Pods,
                        Attributes[p].node \in hot', p \notin guarded'
                 PROVE  p \in candidates'
      OBVIOUS
    <2> USE DEF world
    <2>0. StateOK /\ ReadsNoted
      BY DEF FilterOK
    <2>1. Filter
      <3>1. ASSUME NEW q \in Pods,
                   \/ Annotate(q) \/ Readiness(q) \/ EvictOK(q) \/ EvictTooManyRequests(q) \/ NotEvicted(q)
            PROVE  FALSE
        BY <3>1 DEF Annotate, Readiness, Edit, EvictOK, EvictTooManyRequests, NotEvicted
      <3>2. ASSUME NEW b \in Budgets, BudgetStatus(b) PROVE FALSE
        BY <3>2 DEF BudgetStatus, Edit
      <3>3. ASSUME NEW ns \in Namespaces, EditSLOs(ns) PROVE FALSE
        BY <3>3 DEF EditSLOs, Edit
      <3>4. ~(EditPolicy \/ Tick \/ Get \/ ListPods \/ ListBudgets \/ ListSLOs
                \/ SnapshotFails \/ UpdateStatus)
        BY DEF EditPolicy, Edit, Tick, Get, ListPods, ListBudgets, ListSLOs, SnapshotFails, UpdateStatus
      <3> QED
        BY <3>1, <3>2, <3>3, <3>4 DEF Next
    <2>2. guarded \subseteq guarded' /\ hot' \subseteq Nodes /\ candidates' = FilterCandidates(hot')
      BY <2>0, <2>1, ObservedNotes DEF Filter, Observed, Noted, StateOK, TypeOK
    <2>3. p \notin guarded
      BY <2>2
    <2>4. Attributes[p].node # NoNode
      BY <2>2, NamesAssumption
    <2>5. \A g \in {"namespace", "selector", "priority", "daemonSet", "storage", "backoff"} :
            p \notin GuardedPods[g]
      BY <2>0, <2>3 DEF ReadsNoted, PresentNoted, Guards
    <2>6. /\ Allow(seen.policy, NamespaceOf(p)) /\ MatchesSelectors(seen.policy, p)
          /\ seen.policy.respectPodPriority => ~IsHighPriority(p)
          /\ Attributes[p].kind # "DaemonSet" /\ ~SkipLocalStorage(p)
          /\ ~Memory!HasBackoff(history[p], now, seen.policy.backoff)
      BY <2>0, <2>5, FilterAgrees
    <2>7. p \notin seen.pinned /\ seen.readySince[p] # Never
      BY <2>0, <2>3 DEF ReadsNoted, PodsNoted
    <2>8. seen.policy.respectPDB => PdbAllows(p)
      BY <2>0, <2>3 DEF ReadsNoted, BudgetsNoted
    <2>9. Attributes[p].kind = "StatefulSet" => seen.slo[NamespaceOf(p)].allowStatefulSet
      BY <2>0, <2>3 DEF ReadsNoted, SLOsNoted
    <2>10. seen.slo[NamespaceOf(p)].minReady > 0 => MeetsMinReady(p, seen.slo[NamespaceOf(p)].minReady)
      <3> DEFINE ready == seen.slo[NamespaceOf(p)].minReady
      <3>1. ready \in Nat /\ now \in Nat /\ seen.readySince[p] \in Nat
        BY <2>0, <2>7, NamespaceType DEF StateOK, TypeOK, WorkloadSLO
      <3>2. ready > 0 => now >= seen.readySince[p] + ready
        BY <2>0, <2>3 DEF ReadsNoted, SLOsNoted
      <3> HIDE DEF ready
      <3>3. ready > 0 => now - seen.readySince[p] >= ready
        BY <3>1, <3>2
      <3> QED
        BY <2>7, <3>3 DEF MeetsMinReady, ready
    <2> QED
      BY <2>2, <2>4, <2>6, <2>7, <2>8, <2>9, <2>10 DEF FilterCandidates
  <1> QED
    BY <1>1, AlwaysFilterOK, PTL DEF Spec, NothingWithheld
=============================================================================
