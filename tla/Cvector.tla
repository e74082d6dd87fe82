------------------------------ MODULE Cvector ------------------------------
(***************************************************************************)
(* The dynamic arrays of nanolib/include/cvector.h, as sequences, and the  *)
(* binary search of nanolib/mqtt_db.c over one.  Indices are those of the  *)
(* C code, from 0: slot i of vector v is v[i + 1].                         *)
(***************************************************************************)
EXTENDS Integers, Sequences

\* An insertion moves the slots from i on; at the end of a vector that is not
\* empty (i = size) it does nothing.
cvector_insert(v, i, x) ==
  IF v = <<>> THEN <<x>>
  ELSE IF i < Len(v)
       THEN [k \in 1 .. Len(v) + 1 |->
               IF k <= i THEN v[k] ELSE IF k = i + 1 THEN x ELSE v[k - 1]]
       ELSE v

cvector_erase(v, i) ==
  IF i < Len(v)
  THEN [k \in 1 .. Len(v) - 1 |-> IF k <= i THEN v[k] ELSE v[k + 1]]
  ELSE v

\* binary_search of the key k from slot l0 on, over the ascending keys ks of the
\* slots: whether it is found, and the index returned.  `at' is m + add.
binary_search(ks, l0, k) ==
  LET Loop[l \in Nat, r \in Int, at \in Nat] ==
        LET m == l + (r - l) \div 2
        IN  IF l > r THEN [found |-> FALSE, index |-> at]
            ELSE IF ks[m + 1] = k THEN [found |-> TRUE, index |-> m]
            ELSE IF ks[m + 1] < k THEN Loop[m + 1, r, m + 1]
            ELSE Loop[l, m - 1, m]
  IN  Loop[l0, Len(ks) - 1, 0]

\* The idiom of every insertion: push_back at the end, cvector_insert before it.
insert_at(v, i, x) == IF i = Len(v) THEN Append(v, x) ELSE cvector_insert(v, i, x)
=============================================================================
