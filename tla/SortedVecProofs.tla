-------------------------- MODULE SortedVecProofs --------------------------
(***************************************************************************)
(* Proofs about the sorted vectors of module SortedVec, for every set of   *)
(* ids and every comparison that is a strict total order (TotalOrder): the *)
(* vector stays sorted, binary_search answers exactly, and insertions and  *)
(* deletions keep the other ids.                                           *)
(***************************************************************************)
EXTENDS SortedVec, TLAPS

\* What cvector_insert does before the end of a vector.
LEMMA InsertFacts ==
  ASSUME NEW S, NEW v \in Seq(S), NEW i \in 0 .. Len(v) - 1, NEW x \in S
  PROVE  /\ cvector_insert(v, i, x) \in Seq(S)
         /\ Len(cvector_insert(v, i, x)) = Len(v) + 1
         /\ \A k \in 1 .. Len(v) + 1 :
              cvector_insert(v, i, x)[k] =
                IF k <= i THEN v[k] ELSE IF k = i + 1 THEN x ELSE v[k - 1]
<1> DEFINE w == [k \in 1 .. Len(v) + 1 |->
                   IF k <= i THEN v[k] ELSE IF k = i + 1 THEN x ELSE v[k - 1]]
<1>1. v # <<>> /\ Len(v) \in Nat /\ i < Len(v) /\ i \in Nat
  OBVIOUS
<1>2. cvector_insert(v, i, x) = w
  BY <1>1 DEF cvector_insert
<1>3. w \in [1 .. Len(v) + 1 -> S]
  BY <1>1
<1>4. w \in Seq(S) /\ Len(w) = Len(v) + 1
  BY <1>1, <1>3
<1> QED
  BY <1>2, <1>4

\* What cvector_erase does to a slot of a vector.
LEMMA EraseFacts ==
  ASSUME NEW S, NEW v \in Seq(S), NEW i \in 0 .. Len(v) - 1
  PROVE  /\ cvector_erase(v, i) \in Seq(S)
         /\ Len(cvector_erase(v, i)) = Len(v) - 1
         /\ \A k \in 1 .. Len(v) - 1 :
              cvector_erase(v, i)[k] = IF k <= i THEN v[k] ELSE v[k + 1]
<1> DEFINE w == [k \in 1 .. Len(v) - 1 |-> IF k <= i THEN v[k] ELSE v[k + 1]]
<1>1. Len(v) \in Nat /\ i < Len(v) /\ i \in Nat /\ Len(v) - 1 \in Nat
  OBVIOUS
<1>2. cvector_erase(v, i) = w
  BY <1>1 DEF cvector_erase
<1>3. w \in [1 .. Len(v) - 1 -> S]
  BY <1>1
<1>4. w \in Seq(S) /\ Len(w) = Len(v) - 1
  BY <1>1, <1>3
<1> QED
  BY <1>2, <1>4
-----------------------------------------------------------------------------
\* The loop invariant of binary_search: the slots left of l hold smaller ids,
\* those right of r larger ones, and m + add is l when the range is empty.
LoopInv ==
  /\ l \in Nat /\ l <= r + 1 /\ r < Len(vec)
  /\ \A i \in 1 .. l : Cmp(vec[i], e) < 0
  /\ \A i \in r + 2 .. Len(vec) : Cmp(vec[i], e) > 0
  /\ \/ l = 0 /\ r = Len(vec) - 1 /\ m = 0 /\ add = 0
     \/ add = 1 /\ l = m + 1
     \/ add = 0 /\ r = m - 1

\* The answer "absent" comes with the slot the id belongs in.
InsertionPoint ==
  /\ index \in 0 .. Len(vec)
  /\ \A i \in 1 .. index : Cmp(vec[i], e) < 0
  /\ \A i \in index + 1 .. Len(vec) : Cmp(vec[i], e) > 0

\* The inductive invariant.
VecInv ==
  /\ TypeOK
  /\ Sorted
  /\ pc = "search" => LoopInv
  /\ pc = "found" => index \in 0 .. Len(vec) - 1 /\ vec[index + 1] = e
  /\ pc = "absent" => InsertionPoint

LEMMA CmpTrans ==
  ASSUME TotalOrder, NEW x \in Elem, NEW y \in Elem, NEW z \in Elem,
         Cmp(x, y) < 0, Cmp(y, z) < 0
  PROVE  Cmp(x, z) < 0
BY DEF TotalOrder

LEMMA VecInit == Init => VecInv
BY DEF Init, VecInv, TypeOK, Sorted, LoopInv, InsertionPoint, Ops

\* A search starts with the whole vector as its range.
LEMMA CallStep ==
  ASSUME VecInv, NEW o \in Ops, NEW x \in Elem, Call(o, x) PROVE VecInv'
<1>1. Len(vec) \in Nat
  BY DEF VecInv, TypeOK
<1> QED
  BY <1>1 DEF VecInv, TypeOK, Sorted, LoopInv, InsertionPoint, Call

\* A probe keeps the loop invariant: by transitivity of the comparison, every
\* slot on the far side of the one probed is discarded rightly.
LEMMA ProbeStep ==
  ASSUME TotalOrder, VecInv, Probe PROVE VecInv'
<1>1. /\ pc = "search" /\ l <= r /\ LoopInv
      /\ vec \in Seq(Elem) /\ Len(vec) \in Nat /\ e \in Elem /\ l \in Nat /\ r \in Int
      /\ vec' = vec /\ e' = e /\ op' = op
  BY DEF VecInv, TypeOK, Probe, LoopInv
<1>2. Mid \in Nat /\ l <= Mid /\ Mid <= r /\ Mid < Len(vec)
  BY <1>1 DEF Mid, LoopInv
<1> DEFINE d == Mid
<1>3. d \in Nat /\ l <= d /\ d <= r /\ d < Len(vec)
  BY <1>2
<1>4. \/ m' = d /\ Cmp(vec[d + 1], e) = 0 /\ index' = d /\ pc' = "found"
         /\ UNCHANGED <<l, r, add>>
      \/ m' = d /\ Cmp(vec[d + 1], e) < 0 /\ l' = d + 1 /\ add' = 1
         /\ UNCHANGED <<r, index, pc>>
      \/ m' = d /\ Cmp(vec[d + 1], e) > 0 /\ r' = d - 1 /\ add' = 0
         /\ UNCHANGED <<l, index, pc>>
  BY DEF Probe
<1> HIDE DEF d
<1>5. vec[d + 1] \in Elem /\ d + 1 \in 1 .. Len(vec)
  BY <1>1, <1>3
<1>6. Sorted'
  BY <1>1 DEF VecInv, Sorted
<1>7. TypeOK'
  BY <1>1, <1>3, <1>4, SMTT(60) DEF VecInv, TypeOK
<1>8. CASE m' = d /\ Cmp(vec[d + 1], e) = 0 /\ index' = d /\ pc' = "found"
  <2>1. vec[d + 1] = e
    BY <1>1, <1>5, <1>8, SMTT(60) DEF TotalOrder
  <2> QED
    BY <1>1, <1>3, <1>6, <1>7, <1>8, <2>1 DEF VecInv
<1>9. CASE m' = d /\ Cmp(vec[d + 1], e) < 0 /\ l' = d + 1 /\ add' = 1
           /\ UNCHANGED <<r, index, pc>>
  <2>1. ASSUME NEW i \in 1 .. d + 1 PROVE Cmp(vec[i], e) < 0
    <3>1. i \in 1 .. Len(vec) /\ vec[i] \in Elem
      BY <1>1, <1>3
    <3>2. CASE i = d + 1
      BY <3>2, <1>9
    <3>3. CASE i < d + 1
      <4>1. Cmp(vec[i], vec[d + 1]) < 0
        BY <1>5, <3>1, <3>3 DEF VecInv, Sorted
      <4> QED
        BY <1>1, <1>5, <1>9, <3>1, <4>1, CmpTrans
    <3> QED
      BY <1>3, <3>2, <3>3
  <2>2. LoopInv'
    BY <1>1, <1>3, <1>9, <2>1 DEF LoopInv
  <2> QED
    BY <1>1, <1>6, <1>7, <1>9, <2>2 DEF VecInv
<1>10. CASE m' = d /\ Cmp(vec[d + 1], e) > 0 /\ r' = d - 1 /\ add' = 0
            /\ UNCHANGED <<l, index, pc>>
  <2>1. ASSUME NEW i \in d + 1 .. Len(vec) PROVE Cmp(vec[i], e) > 0
    <3>1. i \in 1 .. Len(vec) /\ vec[i] \in Elem
      BY <1>1, <1>3
    <3>2. CASE i = d + 1
      BY <3>2, <1>10
    <3>3. CASE d + 1 < i
      <4>1. Cmp(vec[d + 1], vec[i]) < 0
        BY <1>5, <3>1, <3>3 DEF VecInv, Sorted
      <4>2. Cmp(e, vec[d + 1]) < 0
        BY <1>1, <1>5, <1>10, ZenonT(60) DEF TotalOrder
      <4>3. Cmp(e, vec[i]) < 0
        BY <1>1, <1>5, <3>1, <4>1, <4>2, CmpTrans
      <4> QED
        BY <1>1, <3>1, <4>3, SMTT(60) DEF TotalOrder
    <3> QED
      BY <1>3, <3>2, <3>3
  <2>2. LoopInv'
    BY <1>1, <1>3, <1>10, <2>1 DEF LoopInv
  <2> QED
    BY <1>1, <1>6, <1>7, <1>10, <2>2 DEF VecInv
<1> QED
  BY <1>4, <1>8, <1>9, <1>10

\* When the range is empty its left end is where the id belongs.
LEMMA GiveUpStep ==
  ASSUME VecInv, GiveUp PROVE VecInv'
<1>1. /\ pc = "search" /\ l > r /\ LoopInv /\ pc' = "absent" /\ index' = m + add
      /\ UNCHANGED <<vec, op, e, l, r, m, add>>
      /\ r \in Int /\ m \in Int /\ Len(vec) \in Nat
  BY DEF VecInv, TypeOK, GiveUp
<1>2. l = r + 1 /\ l \in Nat /\ m + add = l
  BY <1>1 DEF LoopInv
<1>3. InsertionPoint'
  BY <1>1, <1>2 DEF LoopInv, InsertionPoint
<1> QED
  BY <1>1, <1>2, <1>3 DEF VecInv, TypeOK, Sorted

\* A new id between the smaller and the larger ones keeps the order.
LEMMA InsertSorted ==
  ASSUME TotalOrder, VecInv, pc = "absent", op = "insert", Insert
  PROVE  Sorted' /\ vec' \in Seq(Elem)
<1>1. /\ vec \in Seq(Elem) /\ Len(vec) \in Nat /\ e \in Elem
      /\ index \in Nat /\ index <= Len(vec)
      /\ \A i \in 1 .. index : Cmp(vec[i], e) < 0
      /\ \A i \in index + 1 .. Len(vec) : Cmp(vec[i], e) > 0
  BY DEF VecInv, TypeOK, InsertionPoint
<1>2. \A i \in index + 1 .. Len(vec) : Cmp(e, vec[i]) < 0
  BY <1>1, SMTT(60) DEF TotalOrder
<1>3. CASE index = Len(vec) /\ vec' = Append(vec, e)
  <2>1. /\ vec' \in Seq(Elem) /\ Len(vec') = Len(vec) + 1 /\ vec'[Len(vec) + 1] = e
        /\ \A k \in 1 .. Len(vec) : vec'[k] = vec[k]
    BY <1>1, <1>3, SMTT(30)
  <2>2. ASSUME NEW i \in 1 .. Len(vec) + 1, NEW j \in 1 .. Len(vec) + 1, i < j
        PROVE  Cmp(vec'[i], vec'[j]) < 0
    <3>1. i \in 1 .. Len(vec) /\ vec'[i] = vec[i]
      BY <1>1, <2>1, <2>2, SMTT(30)
    <3>2. CASE j = Len(vec) + 1
      BY <1>1, <1>3, <2>1, <3>1, <3>2, SMTT(30)
    <3>3. CASE j \in 1 .. Len(vec)
      BY <2>1, <2>2, <3>1, <3>3, SMTT(30) DEF VecInv, Sorted
    <3> QED
      BY <1>1, <2>2, <3>2, <3>3, SMTT(30)
  <2> QED
    BY <2>1, <2>2, SMTT(30) DEF Sorted
<1>4. CASE index # Len(vec) /\ vec' = cvector_insert(vec, index, e)
  <2>1. /\ vec' \in Seq(Elem) /\ Len(vec') = Len(vec) + 1
        /\ \A k \in 1 .. Len(vec) + 1 :
             vec'[k] = IF k <= index THEN vec[k]
                       ELSE IF k = index + 1 THEN e ELSE vec[k - 1]
    <3>1. index \in 0 .. Len(vec) - 1
      BY <1>1, <1>4
    <3> QED
      BY <1>1, <1>4, <3>1, InsertFacts, SMTT(30)
  <2>2. ASSUME NEW i \in 1 .. Len(vec) + 1, NEW j \in 1 .. Len(vec) + 1, i < j
        PROVE  Cmp(vec'[i], vec'[j]) < 0
    <3>1. CASE j <= index
      <4>1. vec'[i] = vec[i] /\ vec'[j] = vec[j]
        BY <1>1, <2>1, <2>2, <3>1
      <4>2. i \in 1 .. Len(vec) /\ j \in 1 .. Len(vec)
        BY <1>1, <2>2, <3>1
      <4> QED
        BY <2>2, <4>1, <4>2 DEF VecInv, Sorted
    <3>2. CASE j = index + 1
      <4>1. vec'[i] = vec[i] /\ vec'[j] = e /\ i \in 1 .. index
        BY <1>1, <2>1, <2>2, <3>2
      <4> QED
        BY <1>1, <4>1
    <3>3. CASE j > index + 1 /\ i <= index
      <4>1. vec'[i] = vec[i] /\ vec'[j] = vec[j - 1]
        BY <1>1, <2>1, <2>2, <3>3
      <4>2. i \in 1 .. Len(vec) /\ j - 1 \in 1 .. Len(vec) /\ i < j - 1
        BY <1>1, <2>2, <3>3
      <4> QED
        BY <4>1, <4>2 DEF VecInv, Sorted
    <3>4. CASE j > index + 1 /\ i = index + 1
      <4>1. vec'[i] = e /\ vec'[j] = vec[j - 1] /\ j - 1 \in index + 1 .. Len(vec)
        BY <1>1, <2>1, <2>2, <3>4
      <4> QED
        BY <1>2, <4>1
    <3>5. CASE i > index + 1
      <4>1. vec'[i] = vec[i - 1] /\ vec'[j] = vec[j - 1]
        BY <1>1, <2>1, <2>2, <3>5
      <4>2. i - 1 \in 1 .. Len(vec) /\ j - 1 \in 1 .. Len(vec) /\ i - 1 < j - 1
        BY <1>1, <2>2, <3>5
      <4> QED
        BY <4>1, <4>2 DEF VecInv, Sorted
    <3> QED
      BY <1>1, <2>2, <3>1, <3>2, <3>3, <3>4, <3>5
  <2> QED
    BY <2>1, <2>2 DEF Sorted
<1> QED
  BY <1>3, <1>4 DEF Insert, insert_at

LEMMA InsertStep ==
  ASSUME TotalOrder, VecInv, Insert PROVE VecInv'
<1>1. CASE pc = "found" /\ UNCHANGED vec
  BY <1>1 DEF VecInv, TypeOK, Sorted, Insert
<1>2. CASE pc = "absent"
  <2>1. Sorted' /\ vec' \in Seq(Elem)
    BY <1>2, InsertSorted DEF Insert
  <2> QED
    BY <1>2, <2>1 DEF VecInv, TypeOK, Insert
<1> QED
  BY <1>1, <1>2 DEF Insert

LEMMA EraseStep ==
  ASSUME VecInv, Erase PROVE VecInv'
<1>1. CASE pc = "absent" /\ UNCHANGED vec
  BY <1>1 DEF VecInv, TypeOK, Sorted, Erase
<1>2. CASE pc = "found" /\ vec' = cvector_erase(vec, index)
  <2>1. vec \in Seq(Elem) /\ Len(vec) \in Nat /\ index \in 0 .. Len(vec) - 1
    BY <1>2 DEF VecInv, TypeOK
  <2>2. /\ vec' \in Seq(Elem) /\ Len(vec') = Len(vec) - 1
        /\ \A k \in 1 .. Len(vec) - 1 :
             vec'[k] = IF k <= index THEN vec[k] ELSE vec[k + 1]
    BY <1>2, <2>1, EraseFacts, SMTT(60)
  <2>3. ASSUME NEW i \in 1 .. Len(vec) - 1, NEW j \in 1 .. Len(vec) - 1, i < j
        PROVE  Cmp(vec'[i], vec'[j]) < 0
    <3>1. /\ vec'[i] = IF i <= index THEN vec[i] ELSE vec[i + 1]
          /\ vec'[j] = IF j <= index THEN vec[j] ELSE vec[j + 1]
      BY <2>2, <2>3, Zenon
    <3>2. i \in Int /\ j \in Int /\ index \in Int /\ i >= 1 /\ i < j /\ j < Len(vec)
      BY <2>1, <2>3, SMTT(60)
    <3>3. CASE j <= index
      <4>1. vec'[i] = vec[i] /\ vec'[j] = vec[j]
        BY <3>1, <3>2, <3>3, SMTT(60)
      <4>2. i \in 1 .. Len(vec) /\ j \in 1 .. Len(vec)
        BY <2>1, <3>2, SMTT(60)
      <4> QED
        BY <2>3, <4>1, <4>2, SMTT(60) DEF VecInv, Sorted
    <3>4. CASE j > index /\ i <= index
      <4>1. vec'[i] = vec[i] /\ vec'[j] = vec[j + 1]
        BY <3>1, <3>2, <3>4, SMTT(60)
      <4>2. i \in 1 .. Len(vec) /\ j + 1 \in 1 .. Len(vec) /\ i < j + 1
        BY <2>1, <3>2, SMTT(60)
      <4> QED
        BY <4>1, <4>2, SMTT(60) DEF VecInv, Sorted
    <3>5. CASE i > index
      <4>1. vec'[i] = vec[i + 1] /\ vec'[j] = vec[j + 1]
        BY <3>1, <3>2, <3>5, SMTT(60)
      <4>2. i + 1 \in 1 .. Len(vec) /\ j + 1 \in 1 .. Len(vec) /\ i + 1 < j + 1
        BY <2>1, <3>2, SMTT(60)
      <4> QED
        BY <4>1, <4>2, SMTT(60) DEF VecInv, Sorted
    <3> QED
      BY <3>2, <3>3, <3>4, <3>5, SMTT(60)
  <2>4. Sorted'
    BY <2>2, <2>3, SMTT(60) DEF Sorted
  <2> QED
    BY <1>2, <2>2, <2>4 DEF VecInv, TypeOK, Erase
<1> QED
  BY <1>1, <1>2 DEF Erase

LEMMA VecStep ==
  ASSUME TotalOrder, VecInv, [Next]_vars PROVE VecInv'
<1>1. ASSUME NEW o \in Ops, NEW x \in Elem, Call(o, x) PROVE VecInv'
  BY <1>1, CallStep
<1>2. CASE Probe
  BY <1>2, ProbeStep
<1>3. CASE GiveUp
  BY <1>3, GiveUpStep
<1>4. CASE Insert
  BY <1>4, InsertStep
<1>5. CASE Erase
  BY <1>5, EraseStep
<1>6. CASE UNCHANGED vars
  BY <1>6 DEF vars, VecInv, TypeOK, Sorted, LoopInv, InsertionPoint
<1> QED
  BY <1>1, <1>2, <1>3, <1>4, <1>5, <1>6 DEF Next

\* The invariant gives the exactness of the search.
LEMMA VecInvExact ==
  ASSUME TotalOrder, VecInv PROVE SearchExact
<1>1. vec \in Seq(Elem) /\ e \in Elem
  BY DEF VecInv, TypeOK
<1>2. ASSUME pc = "absent", NEW i \in 1 .. Len(vec) PROVE vec[i] # e
  <2>1. Cmp(vec[i], e) < 0 \/ Cmp(vec[i], e) > 0
    BY <1>1, <1>2 DEF VecInv, InsertionPoint
  <2> QED
    BY <1>1, <2>1, SMTT(60) DEF TotalOrder
<1>3. pc = "absent" => e \notin Slots(vec)
  BY <1>2, SMTT(30) DEF Slots
<1> QED
  BY <1>3, SMTT(30) DEF VecInv, SearchExact

\* The vectors of mqtt_db.c stay sorted, whatever ids are inserted and deleted.
THEOREM VectorsStaySorted ==
  ASSUME TotalOrder PROVE Spec => [](TypeOK /\ Sorted)
<1>1. VecInv /\ [Next]_vars => VecInv'
  BY VecStep
<1>2. VecInv => TypeOK /\ Sorted
  BY DEF VecInv
<1> QED
  BY VecInit, <1>1, <1>2, PTL DEF Spec

\* binary_search finds an id exactly when the vector holds it.
THEOREM BinarySearchExact ==
  ASSUME TotalOrder PROVE Spec => []SearchExact
<1>1. VecInv /\ [Next]_vars => VecInv'
  BY VecStep
<1>2. VecInv => SearchExact
  BY VecInvExact
<1> QED
  BY VecInit, <1>1, <1>2, PTL DEF Spec

\* The ids after an insertion: every old slot is found again, and the new id.
LEMMA InsertContent ==
  ASSUME VecInv, Insert PROVE Slots(vec') = Slots(vec) \cup {e}
<1>1. vec \in Seq(Elem) /\ Len(vec) \in Nat /\ e \in Elem
  BY DEF VecInv, TypeOK
<1>2. CASE pc = "found" /\ UNCHANGED vec
  <2>1. index \in 0 .. Len(vec) - 1 /\ vec[index + 1] = e
    BY <1>2 DEF VecInv
  <2>2. index + 1 \in 1 .. Len(vec)
    BY <1>1, <2>1
  <2>3. e \in Slots(vec)
    BY <2>1, <2>2 DEF Slots
  <2> QED
    BY <1>2, <2>3
<1>3. CASE pc = "absent" /\ index = Len(vec) /\ vec' = Append(vec, e)
  <2>1. /\ Len(vec') = Len(vec) + 1
        /\ \A k \in 1 .. Len(vec) : vec'[k] = vec[k]
        /\ vec'[Len(vec) + 1] = e
    BY <1>1, <1>3
  <2>2. 1 .. Len(vec') = (1 .. Len(vec)) \cup {Len(vec) + 1}
    BY <1>1, <2>1
  <2> QED
    BY <2>1, <2>2 DEF Slots
<1>4. CASE pc = "absent" /\ index # Len(vec) /\ vec' = cvector_insert(vec, index, e)
  <2>1. index \in 0 .. Len(vec) - 1 /\ index \in Nat
    BY <1>1, <1>4 DEF VecInv, InsertionPoint
  <2>2. /\ Len(vec') = Len(vec) + 1
        /\ \A k \in 1 .. Len(vec) + 1 :
             vec'[k] = IF k <= index THEN vec[k]
                       ELSE IF k = index + 1 THEN e ELSE vec[k - 1]
    BY <1>1, <1>4, <2>1, InsertFacts, SMTT(60)
  <2>3. ASSUME NEW k \in 1 .. Len(vec') PROVE vec'[k] \in Slots(vec) \cup {e}
    <3>1. CASE k <= index
      BY <1>1, <2>1, <2>2, <2>3, <3>1 DEF Slots
    <3>2. CASE k = index + 1
      BY <1>1, <2>1, <2>2, <2>3, <3>2
    <3>3. CASE k > index + 1
      <4>1. vec'[k] = vec[k - 1] /\ k - 1 \in 1 .. Len(vec)
        BY <1>1, <2>1, <2>2, <2>3, <3>3
      <4> QED
        BY <4>1 DEF Slots
    <3> QED
      BY <1>1, <2>1, <2>2, <2>3, <3>1, <3>2, <3>3
  <2>4. ASSUME NEW k \in 1 .. Len(vec) PROVE vec[k] \in Slots(vec')
    <3>1. CASE k <= index
      <4>1. vec'[k] = vec[k] /\ k \in 1 .. Len(vec')
        BY <1>1, <2>1, <2>2, <2>4, <3>1
      <4> QED
        BY <4>1 DEF Slots
    <3>2. CASE k > index
      <4>1. vec'[k + 1] = vec[k] /\ k + 1 \in 1 .. Len(vec')
        BY <1>1, <2>1, <2>2, <2>4, <3>2, SMTT(60)
      <4> QED
        BY <4>1 DEF Slots
    <3> QED
      BY <2>1, <2>4, <3>1, <3>2
  <2>5. e \in Slots(vec')
    <3>1. vec'[index + 1] = e /\ index + 1 \in 1 .. Len(vec')
      BY <1>1, <2>1, <2>2
    <3> QED
      BY <3>1 DEF Slots
  <2> QED
    BY <2>3, <2>4, <2>5 DEF Slots
<1> QED
  BY <1>2, <1>3, <1>4 DEF Insert, insert_at

\* The ids after a deletion: every other slot is found again, and nothing else.
LEMMA EraseContent ==
  ASSUME TotalOrder, VecInv, Erase PROVE Slots(vec') = Slots(vec) \ {e}
<1>1. vec \in Seq(Elem) /\ Len(vec) \in Nat /\ e \in Elem
  BY DEF VecInv, TypeOK
<1>2. CASE pc = "absent" /\ UNCHANGED vec
  <2>1. e \notin Slots(vec)
    BY <1>2, VecInvExact DEF SearchExact
  <2> QED
    BY <1>2, <2>1
<1>3. CASE pc = "found" /\ vec' = cvector_erase(vec, index)
  <2>1. index \in 0 .. Len(vec) - 1 /\ vec[index + 1] = e /\ index \in Nat
    BY <1>3 DEF VecInv
  <2>2. /\ Len(vec') = Len(vec) - 1
        /\ \A k \in 1 .. Len(vec) - 1 :
             vec'[k] = IF k <= index THEN vec[k] ELSE vec[k + 1]
    BY <1>1, <1>3, <2>1, EraseFacts, SMTT(60)
  <2>3. ASSUME NEW k \in 1 .. Len(vec), k # index + 1 PROVE vec[k] # e
    <3>1. index + 1 \in 1 .. Len(vec) /\ (k < index + 1 \/ index + 1 < k)
      BY <1>1, <2>1, <2>3
    <3>2. Cmp(vec[k], vec[index + 1]) < 0 \/ Cmp(vec[index + 1], vec[k]) < 0
      BY <2>3, <3>1 DEF VecInv, Sorted
    <3>3. vec[k] \in Elem /\ vec[index + 1] \in Elem
      BY <1>1, <2>3, <3>1
    <3>4. vec[k] # vec[index + 1]
      BY <3>2, <3>3 DEF TotalOrder
    <3> QED
      BY <2>1, <3>4
  <2>4. ASSUME NEW k \in 1 .. Len(vec') PROVE vec'[k] \in Slots(vec) \ {e}
    <3>1. CASE k <= index
      <4>1. vec'[k] = vec[k] /\ k \in 1 .. Len(vec) /\ k # index + 1
        BY <1>1, <2>1, <2>2, <2>4, <3>1
      <4> QED
        BY <2>3, <4>1 DEF Slots
    <3>2. CASE k > index
      <4>1. vec'[k] = vec[k + 1] /\ k + 1 \in 1 .. Len(vec) /\ k + 1 # index + 1
        BY <1>1, <2>1, <2>2, <2>4, <3>2
      <4> QED
        BY <2>3, <4>1 DEF Slots
    <3> QED
      BY <1>1, <2>1, <2>2, <2>4, <3>1, <3>2
  <2>5. ASSUME NEW k \in 1 .. Len(vec), vec[k] # e PROVE vec[k] \in Slots(vec')
    <3>0. k # index + 1
      BY <2>1, <2>5
    <3>1. CASE k <= index
      <4>1. vec'[k] = vec[k] /\ k \in 1 .. Len(vec')
        BY <1>1, <2>1, <2>2, <2>5, <3>1
      <4> QED
        BY <4>1 DEF Slots
    <3>2. CASE k > index + 1
      <4>1. vec'[k - 1] = vec[k] /\ k - 1 \in 1 .. Len(vec')
        BY <1>1, <2>1, <2>2, <2>5, <3>2
      <4> QED
        BY <4>1 DEF Slots
    <3> QED
      BY <1>1, <2>1, <2>5, <3>0, <3>1, <3>2
  <2> QED
    BY <2>4, <2>5 DEF Slots
<1> QED
  BY <1>2, <1>3 DEF Erase

\* An insertion adds its id and a deletion removes its id, and neither touches
\* another: no client or session of a node is lost or duplicated by the shifting
\* of slots.
THEOREM VectorContentKept ==
  ASSUME TotalOrder PROVE Spec => ContentKept
<1> DEFINE Kept ==
      (pc = "found" \/ pc = "absent") =>
        Slots(vec') = IF op = "insert" THEN Slots(vec) \cup {e} ELSE Slots(vec) \ {e}
<1>1. VecInv /\ [Next]_vars => VecInv'
  BY VecStep
<1>2. VecInv /\ [Next]_vars => [Kept]_vars
  <2> SUFFICES ASSUME VecInv, Next, pc = "found" \/ pc = "absent" PROVE Kept
    OBVIOUS
  <2>1. (Insert /\ op = "insert") \/ (Erase /\ op = "erase")
    BY DEF Next, Call, Probe, GiveUp, Insert, Erase
  <2> QED
    BY <2>1, InsertContent, EraseContent
<1> QED
  BY VecInit, <1>1, <1>2, PTL DEF Spec, ContentKept
=============================================================================
