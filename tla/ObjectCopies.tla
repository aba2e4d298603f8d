----------------------------- MODULE ObjectCopies -----------------------------
(***************************************************************************)
(* The hand-written DeepCopy functions of api/v1, and what hangs on them:  *)
(* the client's cache hands every reader (Reconcile, the planner's         *)
(* snapshot, the dashboard) a DeepCopy, which its holder may then change,  *)
(* while the cache and the other holders go on reading theirs.             *)
(*                                                                         *)
(* An object is its fields that refer to memory elsewhere (maps, slices,   *)
(* pointers), each the address of a cell or Nil.  `*out = *in` copies the  *)
(* addresses; the lines after it allocate a new cell for the fields they   *)
(* name.  Fields that are plain values are copied with the struct and need *)
(* no model.  A list copies its items one by one with these functions.     *)
(***************************************************************************)
EXTENDS Integers, FiniteSets

CONSTANTS
  Kinds,      \* the types: of "RebalancePolicy", "NodeClass", "WorkloadSLO"
  Holders,    \* who takes copies out of the cache
  Cache,      \* the cache itself
  MaxCopies,  \* bound: objects made
  MaxWrites   \* bound: writes by holders

ASSUME CopiesAssumption ==
  /\ Kinds \subseteq {"RebalancePolicy", "NodeClass", "WorkloadSLO"}
  /\ Cache \notin Holders
  /\ MaxCopies \in Nat \ {0} /\ MaxWrites \in Nat

(***************************************************************************)
(* What each DeepCopyInto allocates anew, and what a struct refers to.     *)
(***************************************************************************)
MetaCopies == {"ObjectMeta"}

RebalancePolicySpecCopies == {"WorkloadSelectors", "BackoffDuration", "NodeClassPreference"}
PlanStatusCopies == {"LastExecutionTime"}
RebalancePolicyCopies == MetaCopies \cup RebalancePolicySpecCopies \cup PlanStatusCopies
RebalancePolicyFields == RebalancePolicyCopies \cup {"Namespaces.Include", "Namespaces.Exclude"}

NodeClassSpecCopies_Forgets == {"MatchLabels", "MatchExpressions"}

NodeClassSpecCopies == {"MatchLabels", "MatchExpressions", "PreferredFor"}
NodeClassStatusCopies == {"LastSync"}
NodeClassCopies == MetaCopies \cup NodeClassSpecCopies \cup NodeClassStatusCopies
NodeClassFields == MetaCopies \cup {"MatchLabels", "MatchExpressions", "PreferredFor", "LastSync"}

WorkloadSLOSpecCopies == {"ProtectedLabels"}
WorkloadSLOStatusCopies == {"WindowStart", "LastViolation"}
WorkloadSLOCopies == MetaCopies \cup WorkloadSLOSpecCopies \cup WorkloadSLOStatusCopies
WorkloadSLOFields == MetaCopies \cup {"ProtectedLabels", "WindowStart", "LastViolation"}

VARIABLES
  kind,    \* the type of the objects
  held,    \* who holds which object; <<>> for none
  heap,    \* cell -> content
  should,  \* observer: what each field of each object ought to read
  made,    \* objects made so far
  writes

vars == <<kind, held, heap, should, made, writes>>

Fields ==
  CASE kind = "RebalancePolicy" -> RebalancePolicyFields
    [] kind = "NodeClass"       -> NodeClassFields
    [] kind = "WorkloadSLO"     -> WorkloadSLOFields

Copies ==
  CASE kind = "RebalancePolicy" -> RebalancePolicyCopies
    [] kind = "NodeClass"       -> NodeClassCopies
    [] kind = "WorkloadSLO"     -> WorkloadSLOCopies

Nil == <<0, "nil">>

\* The cells that the copy with number `id` may allocate.
Cells == (1..MaxCopies) \X Fields

\* DeepCopyInto: a field that is nil stays nil.
DeepCopy(in, id) ==
  [f \in Fields |-> IF f \in Copies /\ in[f] # Nil THEN <<id, f>> ELSE in[f]]
-------------------------------------------------------------------------------
All == Holders \cup {Cache}

\* The API server's object, decoded into memory of its own.
Decoded(id, filled) == [f \in Fields |-> IF f \in filled THEN <<id, f>> ELSE Nil]

\* Fields are copied one by one: that one of them may be nil is enough.
Fillings == {Fields} \cup {Fields \ {f} : f \in Fields}

Init ==
  /\ kind \in Kinds
  /\ \E filled \in Fillings :
       /\ held = [h \in All |-> IF h = Cache THEN Decoded(1, filled) ELSE <<>>]
       /\ should = [h \in All |-> IF h = Cache THEN [f \in filled |-> 0] ELSE <<>>]
  /\ heap = [c \in Cells |-> 0]
  /\ made = 1
  /\ writes = 0

\* A watch event replaces the cached object.
Receive ==
  /\ made < MaxCopies
  /\ made' = made + 1
  /\ \E filled \in Fillings :
       /\ held' = [held EXCEPT ![Cache] = Decoded(made', filled)]
       /\ should' = [should EXCEPT ![Cache] = [f \in filled |-> 0]]
  /\ UNCHANGED <<kind, heap, writes>>

(***************************************************************************)
(* g gets a DeepCopy of what h holds: of the cached object by Get and List *)
(* (Reconcile, Snapshot, Data), of a holder's own by updateStatus          *)
(* (`original`) and Snapshot (the SLOs and node classes it keeps).         *)
(***************************************************************************)
Take(h, g) ==
  /\ made < MaxCopies
  /\ made' = made + 1
  /\ g # Cache /\ g # h
  /\ held[h] # <<>>
  /\ held' = [held EXCEPT ![g] = DeepCopy(held[h], made')]
  /\ heap' = [c \in Cells |->
                IF c[1] = made' /\ held[h][c[2]] # Nil THEN heap[held[h][c[2]]] ELSE heap[c]]
  /\ should' = [should EXCEPT ![g] = should[h]]
  /\ UNCHANGED <<kind, writes>>

(***************************************************************************)
(* A holder changes what a field of its copy refers to, in place.  So does *)
(* updateStatus: Patch decodes the server's answer into the policy it was  *)
(* given, over the slices and pointers the policy has already.             *)
(***************************************************************************)
Write(h, f) ==
  /\ writes < MaxWrites
  /\ writes' = writes + 1
  /\ h # Cache
  /\ held[h] # <<>> /\ held[h][f] # Nil
  /\ heap' = [heap EXCEPT ![held[h][f]] = writes']
  /\ should' = [should EXCEPT ![h][f] = writes']
  /\ UNCHANGED <<kind, held, made>>

Next ==
  \/ Receive
  \/ \E h, g \in All : Take(h, g)
  \/ \E h \in All, f \in Fields : Write(h, f)

Spec == Init /\ [][Next]_vars
-------------------------------------------------------------------------------
(***************************************************************************)
(* Properties                                                              *)
(***************************************************************************)
\* The lists of a policy's namespace selector, copied with the struct only.
Shared == {"Namespaces.Include", "Namespaces.Exclude"}

(***************************************************************************)
(* Copies are independent: whatever holders write into theirs, the cache   *)
(* and everyone else read what they had ("DeepCopy creates a new           *)
(* RebalancePolicy.", and so on), copies of copies and objects the cache   *)
(* has replaced since included - except for the two lists that             *)
(* RebalancePolicySpec.DeepCopyInto leaves to `*out = *in`                 *)
(* (api/v1/rebalancepolicy_types.go:117): those every copy shares with the *)
(* cache it came from.                                                     *)
(***************************************************************************)
CopiesIndependent ==
  \A h \in All : \A f \in DOMAIN should[h] \ Shared : heap[held[h][f]] = should[h][f]
=============================================================================
