----------------------------- MODULE SortedVec -----------------------------
(***************************************************************************)
(* The sorted vectors of nanolib/mqtt_db.c: the clients and the sessions   *)
(* of a node are cvectors of ids that binary_search keeps in order.  An    *)
(* insertion or a deletion is a binary search, one step per probe, and     *)
(* then the change at the index found.  The caller holds the lock of the   *)
(* node throughout, so a vector has one operation at a time.               *)
(***************************************************************************)
EXTENDS Cvector

CONSTANTS Elem,      \* the ids
          Cmp(_, _)  \* the comparison passed to binary_search: slot, id

VARIABLES vec,          \* the vector
          op, e,        \* the operation under way and its id
          l, r, m, add, \* the local variables of binary_search
          index,        \* its result parameter
          pc            \* "idle", "search", or its answer "found" or "absent"

vars == <<vec, op, e, l, r, m, add, index, pc>>

Ops == {"insert", "erase"}

Init == /\ vec = <<>>
        /\ op \in Ops /\ e \in Elem
        /\ l = 0 /\ r = -1 /\ m = 0 /\ add = 0 /\ index = 0
        /\ pc = "idle"

\* insert_dbtree_client, insert_session_vector ("insert") or
\* delete_dbtree_client, delete_from_session_vector ("erase") is called.
Call(o, x) ==
  /\ pc = "idle"
  /\ pc' = "search"
  /\ op' = o /\ e' = x
  /\ l' = 0 /\ r' = Len(vec) - 1 /\ m' = 0 /\ add' = 0 /\ index' = 0
  /\ UNCHANGED vec

Mid == l + (r - l) \div 2

\* Mutant: the left boundary stays at the slot just probed.
Probe_LeftStays ==
  /\ pc = "search" /\ l <= r
  /\ m' = Mid
  /\ \/ /\ Cmp(vec[Mid + 1], e) < 0 /\ l' = Mid /\ add' = 1
        /\ UNCHANGED <<r, index, pc>>
     \/ /\ Cmp(vec[Mid + 1], e) >= 0 /\ index' = Mid /\ pc' = "found"
        /\ UNCHANGED <<l, r, add>>
  /\ UNCHANGED <<vec, op, e>>

\* Mutant: `add' counts the steps to the right.
Probe_AddCounts ==
  /\ pc = "search" /\ l <= r
  /\ m' = Mid
  /\ \/ /\ Cmp(vec[Mid + 1], e) < 0 /\ l' = Mid + 1 /\ add' = add + 1
        /\ UNCHANGED <<r, index, pc>>
     \/ /\ Cmp(vec[Mid + 1], e) >= 0 /\ index' = Mid /\ pc' = "found"
        /\ UNCHANGED <<l, r, add>>
  /\ UNCHANGED <<vec, op, e>>

\* One round of the loop `while (l <= r)'.
Probe ==
  /\ pc = "search"
  /\ l <= r
  /\ m' = Mid
  /\ \/ /\ Cmp(vec[Mid + 1], e) = 0
        /\ index' = Mid
        /\ pc' = "found"
        /\ UNCHANGED <<l, r, add>>
     \/ /\ Cmp(vec[Mid + 1], e) < 0
        /\ l' = Mid + 1
        /\ add' = 1
        /\ UNCHANGED <<r, index, pc>>
     \/ /\ Cmp(vec[Mid + 1], e) > 0
        /\ r' = Mid - 1
        /\ add' = 0
        /\ UNCHANGED <<l, index, pc>>
  /\ UNCHANGED <<vec, op, e>>

\* Mutant: the search stops while one slot is left to probe.
GiveUp_Early ==
  /\ pc = "search" /\ l >= r
  /\ index' = m + add
  /\ pc' = "absent"
  /\ UNCHANGED <<vec, op, e, l, r, m, add>>

\* Mutant: the index is the last slot probed ("index = 2 error").
GiveUp_NoAdd ==
  /\ pc = "search" /\ l > r
  /\ index' = m
  /\ pc' = "absent"
  /\ UNCHANGED <<vec, op, e, l, r, m, add>>

\* The loop ends without a match.
GiveUp ==
  /\ pc = "search"
  /\ l > r
  /\ index' = m + add
  /\ pc' = "absent"
  /\ UNCHANGED <<vec, op, e, l, r, m, add>>

\* Mutant: the id is inserted without looking at the end of the vector.
Insert_NoPushBack ==
  /\ op = "insert" /\ pc \in {"found", "absent"}
  /\ vec' = IF pc = "found" THEN vec ELSE cvector_insert(vec, index, e)
  /\ pc' = "idle"
  /\ UNCHANGED <<op, e, l, r, m, add, index>>

\* An id that is there already is left alone: the new client is freed.
Insert ==
  /\ op = "insert"
  /\ \/ /\ pc = "absent"
        /\ vec' = insert_at(vec, index, e)
     \/ /\ pc = "found"
        /\ UNCHANGED vec
  /\ pc' = "idle"
  /\ UNCHANGED <<op, e, l, r, m, add, index>>

Erase ==
  /\ op = "erase"
  /\ \/ pc = "found" /\ vec' = cvector_erase(vec, index)
     \/ pc = "absent" /\ UNCHANGED vec
  /\ pc' = "idle"
  /\ UNCHANGED <<op, e, l, r, m, add, index>>

Next == \/ \E o \in Ops, x \in Elem : Call(o, x)
        \/ Probe
        \/ GiveUp
        \/ Insert
        \/ Erase

\* The loop of binary_search runs to its end in the thread that called it.
Spec == Init /\ [][Next]_vars /\ WF_vars(Probe) /\ WF_vars(GiveUp)
-----------------------------------------------------------------------------
Slots(v) == {v[i] : i \in 1 .. Len(v)}

TypeOK ==
  /\ vec \in Seq(Elem)
  /\ op \in Ops /\ e \in Elem
  /\ pc \in {"idle", "search", "found", "absent"}
  /\ l \in Int /\ r \in Int /\ m \in Int /\ add \in {0, 1} /\ index \in Int

\* The vector stays in the order of the comparison, without duplicates: an id
\* goes to the slot binary_search computes from its last probe ("index = 2 +
\* add(1) ok").
Sorted == \A i, j \in 1 .. Len(vec) : i < j => Cmp(vec[i], vec[j]) < 0

\* binary_search returns "true or false, if we find or not": true at the slot
\* that holds the id, false only when the vector does not hold it.
SearchExact ==
  /\ pc = "found" => index \in 0 .. Len(vec) - 1 /\ vec[index + 1] = e
  /\ pc = "absent" => e \notin Slots(vec)

\* Whatever index the search ends with, an insertion leaves the old ids and the
\* new one in the vector, and a deletion the old ids but that one.
ContentKept ==
  [][(pc = "found" \/ pc = "absent") =>
       Slots(vec') = IF op = "insert" THEN Slots(vec) \cup {e} ELSE Slots(vec) \ {e}]_vars

\* Every search ends: each round of the loop shrinks the range [l, r].
SearchEnds == (pc = "search") ~> (pc # "search")
-----------------------------------------------------------------------------
\* What the comparison must be for the vectors to work: a strict total order.
TotalOrder ==
  /\ \A x, y \in Elem : Cmp(x, y) \in Int
  /\ \A x, y \in Elem : Cmp(x, y) = 0 <=> x = y
  /\ \A x, y \in Elem : Cmp(x, y) < 0 <=> Cmp(y, x) > 0
  /\ \A x, y, z \in Elem : Cmp(x, y) < 0 /\ Cmp(y, z) < 0 => Cmp(x, z) < 0
=============================================================================
