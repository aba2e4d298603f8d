-------------------------- MODULE ObjectCopiesProofs --------------------------
(***************************************************************************)
(* Proofs about ObjectCopies for any number of holders, of copies, of      *)
(* copies of copies and of writes.                                         *)
(***************************************************************************)
EXTENDS ObjectCopies, TLAPS

\* What DeepCopyInto allocates anew is a field of the type, and no field but
\* the two lists of the namespace selector is left out.
LEMMA CopiesFields ==
  ASSUME kind \in Kinds
  PROVE  Copies \subseteq Fields /\ Fields \ Shared \subseteq Copies
  <1>1. kind \in {"RebalancePolicy", "NodeClass", "WorkloadSLO"}
    BY CopiesAssumption
  <1>2. CASE kind = "RebalancePolicy"
    <2>1. Copies = RebalancePolicyCopies /\ Fields = RebalancePolicyFields
      BY <1>2 DEF Copies, Fields
    <2> QED
      BY <2>1 DEF RebalancePolicyFields, Shared
  <1>3. CASE kind = "NodeClass"
    <2>1. Copies = NodeClassCopies /\ Fields = NodeClassFields
      BY <1>3 DEF Copies, Fields
    <2> QED
      BY <2>1 DEF NodeClassFields, NodeClassCopies, NodeClassSpecCopies, NodeClassStatusCopies
  <1>4. CASE kind = "WorkloadSLO"
    <2>1. Copies = WorkloadSLOCopies /\ Fields = WorkloadSLOFields
      BY <1>4 DEF Copies, Fields
    <2> QED
      BY <2>1 DEF WorkloadSLOFields, WorkloadSLOCopies, WorkloadSLOSpecCopies, WorkloadSLOStatusCopies
  <1> QED
    BY <1>1, <1>2, <1>3, <1>4

\* Every type has metadata, so that no object is the empty function.
LEMMA MetaIsField ==
  ASSUME kind \in Kinds
  PROVE  "ObjectMeta" \in Fields
  <1>1. kind \in {"RebalancePolicy", "NodeClass", "WorkloadSLO"}
    BY CopiesAssumption
  <1>2. CASE kind = "RebalancePolicy"
    BY <1>2 DEF Fields, RebalancePolicyFields, RebalancePolicyCopies, MetaCopies
  <1>3. CASE kind = "NodeClass"
    BY <1>3 DEF Fields, NodeClassFields, MetaCopies
  <1>4. CASE kind = "WorkloadSLO"
    BY <1>4 DEF Fields, WorkloadSLOFields, MetaCopies
  <1> QED
    BY <1>1, <1>2, <1>3, <1>4

-------------------------------------------------------------------------------
(***************************************************************************)
(* The inductive invariant: an object's field is nil or a cell of its own  *)
(* number and name, the cells of objects not made yet are untouched, and   *)
(* no two holders have a cell of a copied field in common.                 *)
(***************************************************************************)
TypeOK ==
  /\ kind \in Kinds
  /\ made \in 1..MaxCopies
  /\ DOMAIN held = All
  /\ DOMAIN should = All
  /\ DOMAIN heap = Cells

\* A field's cell, from the object with some number so far.
OwnCell(c, f, n) == \E i \in 1..n : c = <<i, f>>

ObjectOK(object, expected, n) ==
  IF object = <<>>
  THEN DOMAIN expected = {}
  ELSE /\ DOMAIN object = Fields
       /\ \A f \in Fields : object[f] = Nil \/ OwnCell(object[f], f, n)
       /\ DOMAIN expected = {f \in Fields : object[f] # Nil}

ObjectsOK == \A h \in All : ObjectOK(held[h], should[h], made)

FreshCells == \A i \in 1..MaxCopies, f \in Fields : i > made => heap[<<i, f>>] = 0

CellsApart ==
  \A h, g \in All, f \in Fields \ Shared :
    h # g /\ held[h] # <<>> /\ held[g] # <<>> /\ held[h][f] = held[g][f] => held[h][f] = Nil

CopiesOK == TypeOK /\ ObjectsOK /\ FreshCells /\ CellsApart /\ CopiesIndependent

\* Cells of different numbers or fields are different, and none is Nil.
LEMMA CellsDiffer ==
  ASSUME NEW i \in Nat \ {0}, NEW j \in Nat \ {0}, NEW f, NEW g
  PROVE  /\ <<i, f>> # Nil
         /\ <<i, f>> = <<j, g>> => i = j /\ f = g
  BY DEF Nil

LEMMA CellsInHeap ==
  ASSUME CopiesOK, NEW f \in Fields, NEW c, OwnCell(c, f, made)
  PROVE  c \in Cells
  BY CopiesAssumption DEF CopiesOK, TypeOK, OwnCell, Cells

LEMMA InitCopiesOK == Init => CopiesOK
  <1> SUFFICES ASSUME Init PROVE CopiesOK
    OBVIOUS
  <1>1. PICK filled \in Fillings :
          /\ held = [h \in All |-> IF h = Cache THEN Decoded(1, filled) ELSE <<>>]
          /\ should = [h \in All |-> IF h = Cache THEN [f \in filled |-> 0] ELSE <<>>]
    BY DEF Init
  <1>2. filled \subseteq Fields
    BY DEF Fillings
  <1>3. TypeOK
    BY <1>1, CopiesAssumption DEF Init, TypeOK
  <1>4. made = 1 /\ \A i \in 1..MaxCopies, f \in Fields : heap[<<i, f>>] = 0
    BY DEF Init, Cells
  <1>5. ASSUME NEW h \in All PROVE ObjectOK(held[h], should[h], made)
    <2>1. CASE h = Cache
      <3>1. held[h] = Decoded(1, filled) /\ should[h] = [f \in filled |-> 0]
        BY <1>1, <2>1
      <3>2. /\ DOMAIN held[h] = Fields /\ DOMAIN should[h] = filled
            /\ \A f \in Fields : held[h][f] = IF f \in filled THEN <<1, f>> ELSE Nil
        BY <3>1 DEF Decoded
      <3>3. \A f \in Fields : <<1, f>> # Nil
        BY CellsDiffer
      <3>4. DOMAIN should[h] = {f \in Fields : held[h][f] # Nil}
        BY <1>2, <3>2, <3>3
      <3>5. \A f \in Fields : held[h][f] = Nil \/ OwnCell(held[h][f], f, 1)
        <4>1. \A f : OwnCell(<<1, f>>, f, 1)
          BY DEF OwnCell
        <4> QED
          BY <3>2, <4>1
      <3>6. held[h] # <<>>
        <4>1. "ObjectMeta" \in Fields
          BY <1>3, MetaIsField DEF TypeOK
        <4> QED
          BY <3>2, <4>1
      <3> QED
        BY <1>4, <3>2, <3>4, <3>5, <3>6 DEF ObjectOK
    <2>2. CASE h # Cache
      BY <1>1, <2>2 DEF ObjectOK
    <2> QED
      BY <2>1, <2>2
  <1>6. CellsApart
    BY <1>1 DEF CellsApart
  <1>7. CopiesIndependent
    <2> SUFFICES ASSUME NEW h \in All, NEW f \in DOMAIN should[h] \ Shared
                 PROVE  heap[held[h][f]] = should[h][f]
      BY DEF CopiesIndependent
    <2>1. h = Cache
      BY <1>1
    <2>2. f \in filled /\ held[h][f] = <<1, f>> /\ should[h][f] = 0
      BY <1>1, <1>2, <2>1 DEF Decoded
    <2> QED
      BY <1>2, <1>4, <2>2, CopiesAssumption
  <1> QED
    BY <1>3, <1>4, <1>5, <1>6, <1>7 DEF CopiesOK, ObjectsOK, FreshCells

\* The type of the objects stays, and so do their fields.
LEMMA FieldsStay ==
  ASSUME kind' = kind
  PROVE  Fields' = Fields /\ Copies' = Copies /\ Cells' = Cells
  BY DEF Fields, Copies, Cells

\* An object stays in order when more are made.
LEMMA OlderObject ==
  ASSUME NEW object, NEW expected, NEW n \in Nat, ObjectOK(object, expected, n)
  PROVE  ObjectOK(object, expected, n + 1)
  <1>1. \A c, f : OwnCell(c, f, n) => OwnCell(c, f, n + 1)
    BY DEF OwnCell
  <1> QED
    BY <1>1 DEF ObjectOK

LEMMA ReceiveCopiesOK ==
  ASSUME CopiesOK, Receive
  PROVE  CopiesOK'
  <1>1. PICK filled \in Fillings :
          /\ held' = [held EXCEPT ![Cache] = Decoded(made', filled)]
          /\ should' = [should EXCEPT ![Cache] = [f \in filled |-> 0]]
    BY DEF Receive
  <1>2. filled \subseteq Fields
    BY DEF Fillings
  <1>3. made \in Nat \ {0} /\ made' = made + 1 /\ made' \in 1..MaxCopies /\ heap' = heap
    BY CopiesAssumption DEF CopiesOK, TypeOK, Receive
  <1>4. Fields' = Fields /\ Copies' = Copies /\ Cells' = Cells
    BY FieldsStay DEF Receive
  <1>5. TypeOK'
    BY <1>1, <1>3, <1>4 DEF CopiesOK, TypeOK, Receive
  <1>6. Cache \in All /\ DOMAIN held = All /\ DOMAIN should = All
    BY DEF All, CopiesOK, TypeOK
  <1>7. /\ held'[Cache] = Decoded(made', filled) /\ should'[Cache] = [f \in filled |-> 0]
        /\ \A h \in All : h # Cache => held'[h] = held[h] /\ should'[h] = should[h]
    BY <1>1, <1>6
  <1>8. /\ DOMAIN held'[Cache] = Fields /\ DOMAIN should'[Cache] = filled
        /\ \A f \in Fields : held'[Cache][f] = IF f \in filled THEN <<made', f>> ELSE Nil
        /\ \A f \in filled : should'[Cache][f] = 0
    BY <1>7 DEF Decoded
  <1>9. \A f : <<made', f>> # Nil
    BY <1>3, CellsDiffer
  <1>10. ObjectOK(held'[Cache], should'[Cache], made')
    <2>1. DOMAIN should'[Cache] = {f \in Fields : held'[Cache][f] # Nil}
      BY <1>2, <1>8, <1>9
    <2>2. \A f \in Fields : held'[Cache][f] = Nil \/ OwnCell(held'[Cache][f], f, made')
      <3>1. \A f : OwnCell(<<made', f>>, f, made')
        BY <1>3 DEF OwnCell
      <3> QED
        BY <1>8, <3>1
    <2>3. held'[Cache] # <<>>
      BY <1>8, MetaIsField DEF CopiesOK, TypeOK
    <2> QED
      BY <1>8, <2>1, <2>2, <2>3 DEF ObjectOK
  <1>11. ASSUME NEW h \in All, h # Cache PROVE ObjectOK(held'[h], should'[h], made')
    BY <1>3, <1>7, <1>11, OlderObject DEF CopiesOK, ObjectsOK
  <1>12. ObjectsOK'
    BY <1>4, <1>10, <1>11 DEF ObjectsOK, ObjectOK, OwnCell, All
  <1>13. FreshCells'
    BY <1>3, <1>4 DEF FreshCells, CopiesOK, TypeOK
  <1>14. ASSUME NEW h \in All, h # Cache, held[h] # <<>>, NEW f \in Fields,
                held[h][f] = held'[Cache][f]
         PROVE  held[h][f] = Nil
    <2>1. ObjectOK(held[h], should[h], made)
      BY DEF CopiesOK, ObjectsOK
    <2>2. held[h][f] = Nil \/ \E i \in 1..made : held[h][f] = <<i, f>>
      BY <1>14, <2>1 DEF ObjectOK, OwnCell
    <2>3. \A i \in 1..made : <<i, f>> # <<made', f>>
      BY <1>3
    <2> QED
      BY <1>8, <1>14, <2>2, <2>3
  <1>15. CellsApart'
    <2> SUFFICES ASSUME NEW h \in All, NEW g \in All, NEW f \in Fields \ Shared, h # g,
                        held'[h] # <<>>, held'[g] # <<>>, held'[h][f] = held'[g][f]
                 PROVE  held'[h][f] = Nil
      BY <1>4 DEF CellsApart, All, Shared
    <2>1. CASE h = Cache
      BY <1>7, <1>14, <2>1
    <2>2. CASE g = Cache
      BY <1>7, <1>14, <2>2
    <2>3. CASE h # Cache /\ g # Cache
      BY <1>7, <2>3 DEF CopiesOK, CellsApart
    <2> QED
      BY <2>1, <2>2, <2>3
  <1>16. CopiesIndependent'
    <2> SUFFICES ASSUME NEW h \in All, NEW f \in DOMAIN should'[h] \ Shared
                 PROVE  heap'[held'[h][f]] = should'[h][f]
      BY DEF CopiesIndependent, All, Shared
    <2>1. CASE h = Cache
      <3>1. f \in filled /\ held'[h][f] = <<made', f>> /\ should'[h][f] = 0
        BY <1>2, <1>8, <2>1
      <3> QED
        BY <1>2, <1>3, <3>1 DEF CopiesOK, FreshCells
    <2>2. CASE h # Cache
      BY <1>3, <1>7, <2>2 DEF CopiesOK, CopiesIndependent
    <2> QED
      BY <2>1, <2>2
  <1> QED
    BY <1>5, <1>12, <1>13, <1>15, <1>16 DEF CopiesOK

LEMMA TakeCopiesOK ==
  ASSUME CopiesOK, NEW h \in All, NEW g \in All, Take(h, g)
  PROVE  CopiesOK'
  <1> DEFINE copy == DeepCopy(held[h], made')
  <1>1. /\ made \in Nat \ {0} /\ made' = made + 1 /\ made' \in 1..MaxCopies
        /\ g # h /\ held[h] # <<>>
    BY CopiesAssumption DEF CopiesOK, TypeOK, Take
  <1>2. Fields' = Fields /\ Copies' = Copies /\ Cells' = Cells
    BY FieldsStay DEF Take
  <1>3. DOMAIN held = All /\ DOMAIN should = All /\ kind \in Kinds
    BY DEF CopiesOK, TypeOK
  <1>4. /\ held'[g] = copy /\ should'[g] = should[h]
        /\ \A k \in All : k # g => held'[k] = held[k] /\ should'[k] = should[k]
        /\ DOMAIN held' = All /\ DOMAIN should' = All
    BY <1>3 DEF Take
  <1>5. heap' = [c \in Cells |->
                   IF c[1] = made' /\ held[h][c[2]] # Nil THEN heap[held[h][c[2]]] ELSE heap[c]]
    BY DEF Take
  <1>6. TypeOK'
    BY <1>1, <1>2, <1>3, <1>4, <1>5 DEF TypeOK, Take, All
  <1>7. ObjectOK(held[h], should[h], made)
    BY DEF CopiesOK, ObjectsOK
  <1>8. /\ DOMAIN held[h] = Fields
        /\ \A f \in Fields : held[h][f] = Nil \/ OwnCell(held[h][f], f, made)
        /\ DOMAIN should[h] = {f \in Fields : held[h][f] # Nil}
    BY <1>1, <1>7 DEF ObjectOK
  <1>9. /\ DOMAIN copy = Fields
        /\ \A f \in Fields : copy[f] = IF f \in Copies /\ held[h][f] # Nil
                                       THEN <<made', f>> ELSE held[h][f]
    BY DEF DeepCopy
  <1> HIDE DEF copy
  <1>10. \A f : <<made', f>> # Nil
    BY <1>1, CellsDiffer
  <1>11. \A f \in Fields : copy[f] = Nil <=> held[h][f] = Nil
    BY <1>9, <1>10
  <1>12. \A c, f : OwnCell(c, f, made) => OwnCell(c, f, made')
    BY <1>1 DEF OwnCell
  <1>13. \A f : OwnCell(<<made', f>>, f, made')
    BY <1>1 DEF OwnCell
  <1>14. copy # <<>>
    BY <1>3, <1>9, MetaIsField
  <1>15. ObjectOK(held'[g], should'[g], made')
    <2>1. \A f \in Fields : copy[f] = Nil \/ OwnCell(copy[f], f, made')
      BY <1>8, <1>9, <1>12, <1>13
    <2>2. DOMAIN should[h] = {f \in Fields : copy[f] # Nil}
      BY <1>8, <1>11
    <2> QED
      BY <1>4, <1>9, <1>14, <2>1, <2>2 DEF ObjectOK
  <1>16. ASSUME NEW k \in All, k # g PROVE ObjectOK(held'[k], should'[k], made')
    BY <1>1, <1>4, <1>16, OlderObject DEF CopiesOK, ObjectsOK
  <1>17. ObjectsOK'
    BY <1>2, <1>15, <1>16 DEF ObjectsOK, ObjectOK, OwnCell, All
  <1>18. \A i \in 1..MaxCopies, f \in Fields : i # made' => heap'[<<i, f>>] = heap[<<i, f>>]
    BY <1>5 DEF Cells
  <1>19. FreshCells'
    BY <1>1, <1>2, <1>18, CopiesAssumption DEF FreshCells, CopiesOK, TypeOK
  \* A copied field of the copy is in a cell that nobody else has.
  <1>20. \A f \in Fields \ Shared : copy[f] = Nil \/ copy[f] = <<made', f>>
    BY <1>3, <1>9, CopiesFields
  <1>21. ASSUME NEW k \in All, held[k] # <<>>, NEW f \in Fields
         PROVE  held[k][f] = Nil \/ \E i \in 1..made : held[k][f] = <<i, f>>
    <2>1. ObjectOK(held[k], should[k], made)
      BY DEF CopiesOK, ObjectsOK
    <2> QED
      BY <1>21, <2>1 DEF ObjectOK, OwnCell
  <1>22. \A i \in 1..made : \A f : <<i, f>> # <<made', f>>
    BY <1>1
  <1>23. ASSUME NEW k \in All, held[k] # <<>>, NEW f \in Fields \ Shared, held[k][f] = copy[f]
         PROVE  copy[f] = Nil
    BY <1>20, <1>21, <1>22, <1>23
  <1>24. CellsApart'
    <2> SUFFICES ASSUME NEW a \in All, NEW b \in All, NEW f \in Fields \ Shared, a # b,
                        held'[a] # <<>>, held'[b] # <<>>, held'[a][f] = held'[b][f]
                 PROVE  held'[a][f] = Nil
      BY <1>2 DEF CellsApart, All, Shared
    <2>1. CASE a = g
      BY <1>4, <1>23, <2>1
    <2>2. CASE b = g
      BY <1>4, <1>23, <2>2
    <2>3. CASE a # g /\ b # g
      BY <1>4, <2>3 DEF CopiesOK, CellsApart
    <2> QED
      BY <2>1, <2>2, <2>3
  <1>25. CopiesIndependent'
    <2> SUFFICES ASSUME NEW k \in All, NEW f \in DOMAIN should'[k] \ Shared
                 PROVE  heap'[held'[k][f]] = should'[k][f]
      BY DEF CopiesIndependent, All, Shared
    <2>1. CASE k = g
      <3>1. f \in Fields /\ held[h][f] # Nil /\ f \in DOMAIN should[h]
        BY <1>4, <1>8, <2>1
      <3>2. held'[k][f] = <<made', f>>
        BY <1>4, <1>11, <1>20, <2>1, <3>1
      <3>3. <<made', f>> \in Cells
        BY <1>1, <3>1 DEF Cells
      <3>4. heap'[<<made', f>>] = heap[held[h][f]]
        BY <1>5, <3>1, <3>3
      <3>5. heap[held[h][f]] = should[h][f]
        BY <3>1 DEF CopiesOK, CopiesIndependent
      <3> QED
        BY <1>4, <2>1, <3>2, <3>4, <3>5
    <2>2. CASE k # g
      <3>1. held'[k] = held[k] /\ should'[k] = should[k]
        BY <1>4, <2>2
      <3>2. held[k] # <<>> /\ f \in Fields /\ held[k][f] # Nil
        BY <3>1 DEF CopiesOK, ObjectsOK, ObjectOK
      <3>3. PICK i \in 1..made : held[k][f] = <<i, f>>
        BY <1>21, <3>2
      <3>4. heap'[held[k][f]] = heap[held[k][f]]
        <4>1. i \in 1..MaxCopies /\ i # made'
          BY <1>1, CopiesAssumption
        <4> QED
          BY <1>18, <3>2, <3>3, <4>1
      <3> QED
        BY <3>1, <3>4 DEF CopiesOK, CopiesIndependent
    <2> QED
      BY <2>1, <2>2
  <1> QED
    BY <1>6, <1>17, <1>19, <1>24, <1>25 DEF CopiesOK

LEMMA WriteCopiesOK ==
  ASSUME CopiesOK, NEW h \in All, NEW f \in Fields, Write(h, f)
  PROVE  CopiesOK'
  <1>1. /\ held[h] # <<>> /\ held[h][f] # Nil
        /\ held' = held /\ made' = made /\ kind' = kind
        /\ heap' = [heap EXCEPT ![held[h][f]] = writes']
        /\ should' = [should EXCEPT ![h] = [should[h] EXCEPT ![f] = writes']]
    BY DEF Write
  <1>2. Fields' = Fields /\ Copies' = Copies /\ Cells' = Cells
    BY <1>1, FieldsStay
  <1>3. made \in Nat \ {0} /\ made \in 1..MaxCopies /\ DOMAIN should = All /\ DOMAIN heap = Cells
    BY CopiesAssumption DEF CopiesOK, TypeOK
  <1>4. ASSUME NEW k \in All, NEW q \in Fields, held[k] # <<>>, held[k][q] # Nil
        PROVE  \E i \in 1..made : held[k][q] = <<i, q>>
    <2>1. ObjectOK(held[k], should[k], made)
      BY DEF CopiesOK, ObjectsOK
    <2> QED
      BY <1>4, <2>1 DEF ObjectOK, OwnCell
  <1>5. PICK j \in 1..made : held[h][f] = <<j, f>>
    BY <1>1, <1>4
  <1>6. j \in 1..MaxCopies /\ <<j, f>> \in Cells
    BY <1>3, CopiesAssumption DEF Cells
  <1>7. TypeOK'
    BY <1>1, <1>2, <1>3 DEF TypeOK, CopiesOK, All
  <1>8. f \in DOMAIN should[h]
    BY <1>1 DEF CopiesOK, ObjectsOK, ObjectOK
  <1>9. /\ \A k \in All : k # h => should'[k] = should[k]
        /\ \A k \in All : DOMAIN should'[k] = DOMAIN should[k]
        /\ should'[h][f] = writes'
        /\ \A q \in DOMAIN should[h] : q # f => should'[h][q] = should[h][q]
    BY <1>1, <1>3, <1>8
  <1>10. ObjectsOK'
    <2>1. ASSUME NEW k \in All PROVE ObjectOK(held'[k], should'[k], made')
      BY <1>1, <1>9 DEF CopiesOK, ObjectsOK, ObjectOK
    <2> QED
      BY <1>2, <2>1 DEF ObjectsOK, ObjectOK, OwnCell, All
  <1>11. /\ heap'[<<j, f>>] = writes'
         /\ \A c \in Cells : c # <<j, f>> => heap'[c] = heap[c]
    BY <1>1, <1>3, <1>5, <1>6
  <1>12. FreshCells'
    <2> SUFFICES ASSUME NEW i \in 1..MaxCopies, NEW q \in Fields, i > made
                 PROVE  heap'[<<i, q>>] = 0
      BY <1>1, <1>2 DEF FreshCells
    <2>1. <<i, q>> \in Cells /\ <<i, q>> # <<j, f>>
      BY <1>3 DEF Cells
    <2> QED
      BY <1>11, <2>1 DEF CopiesOK, FreshCells
  <1>13. CellsApart'
    BY <1>1, <1>2 DEF CopiesOK, CellsApart, All, Shared
  <1>14. CopiesIndependent'
    <2> SUFFICES ASSUME NEW k \in All, NEW q \in DOMAIN should[k] \ Shared
                 PROVE  heap'[held[k][q]] = should'[k][q]
      BY <1>1, <1>9 DEF CopiesIndependent, All, Shared
    <2>1. held[k] # <<>> /\ q \in Fields /\ held[k][q] # Nil
      BY DEF CopiesOK, ObjectsOK, ObjectOK
    <2>2. PICK i \in 1..made : held[k][q] = <<i, q>>
      BY <1>4, <2>1
    <2>3. <<i, q>> \in Cells
      BY <1>3, <2>1, CopiesAssumption DEF Cells
    <2>4. heap[held[k][q]] = should[k][q]
      BY DEF CopiesOK, CopiesIndependent
    <2>5. CASE k = h /\ q = f
      BY <1>5, <1>9, <1>11, <2>5
    <2>6. CASE q # f
      <3>1. <<i, q>> # <<j, f>>
        BY <2>6
      <3> QED
        BY <1>9, <1>11, <2>2, <2>3, <2>4, <2>6, <3>1
    <2>7. CASE k # h /\ q = f
      <3>1. held[k][q] # held[h][f]
        BY <1>1, <2>1, <2>7 DEF CopiesOK, CellsApart
      <3> QED
        BY <1>5, <1>9, <1>11, <2>2, <2>3, <2>4, <2>7, <3>1
    <2> QED
      BY <2>5, <2>6, <2>7
  <1> QED
    BY <1>7, <1>10, <1>12, <1>13, <1>14 DEF CopiesOK

LEMMA NextCopiesOK == CopiesOK /\ [Next]_vars => CopiesOK'
  <1> SUFFICES ASSUME CopiesOK, [Next]_vars PROVE CopiesOK'
    OBVIOUS
  <1>1. CASE Receive
    BY <1>1, ReceiveCopiesOK
  <1>2. CASE \E h, g \in All : Take(h, g)
    BY <1>2, TakeCopiesOK
  <1>3. CASE \E h \in All, f \in Fields : Write(h, f)
    BY <1>3, WriteCopiesOK
  <1>4. CASE UNCHANGED vars
    <2>1. Fields' = Fields /\ Copies' = Copies /\ Cells' = Cells
      BY <1>4, FieldsStay DEF vars
    <2>2. TypeOK' /\ FreshCells' /\ CellsApart'
      BY <1>4, <2>1 DEF vars, CopiesOK, TypeOK, FreshCells, CellsApart, All, Shared
    <2>3. ObjectsOK'
      BY <1>4, <2>1 DEF vars, CopiesOK, ObjectsOK, ObjectOK, OwnCell, All, Nil
    <2>4. CopiesIndependent'
      BY <1>4 DEF vars, CopiesOK, CopiesIndependent, All, Shared
    <2> QED
      BY <2>2, <2>3, <2>4 DEF CopiesOK
  <1> QED
    BY <1>1, <1>2, <1>3, <1>4 DEF Next

-------------------------------------------------------------------------------
(***************************************************************************)
(* Copies are independent: for any number of holders, of copies of copies  *)
(* and of objects the cache replaced, what the DeepCopyInto functions of   *)
(* api/v1 allocate is enough for every holder to read in its own object    *)
(* what it has, whatever the others write into theirs - the two lists of   *)
(* the namespace selector apart, which RebalancePolicySpec.DeepCopyInto    *)
(* does not copy.                                                          *)
(***************************************************************************)
THEOREM CopiesStayIndependent == Spec => []CopiesIndependent
  <1>1. CopiesOK => CopiesIndependent
    BY DEF CopiesOK
  <1> QED
    BY <1>1, InitCopiesOK, NextCopiesOK, PTL DEF Spec
=============================================================================
