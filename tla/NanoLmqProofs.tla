--------------------------- MODULE NanoLmqProofs ---------------------------
(***************************************************************************)
(* Proofs about the ring queue of module NanoLmq, for every set of         *)
(* messages and of capacities.  The capacities passed to nano_lmq_resize   *)
(* are assumed to leave the last slot of the new array free                *)
(* (ResizeLeavesRoom): without that the put index leaves the array.        *)
(***************************************************************************)
EXTENDS NanoLmq, TLAPS

\* Masking an index that has not reached the end of the array.
LEMMA ModSmall ==
  ASSUME NEW a \in Nat, NEW x \in Nat, x < a
  PROVE  x % a = x
BY SMT

\* Masking an index that has passed the end of the array once.
LEMMA ModWrap ==
  ASSUME NEW a \in Nat, NEW x \in Nat, a <= x, x < 2 * a
  PROVE  x % a = x - a
BY SMT

\* A masked index is a slot of the array.
LEMMA ModInRange ==
  ASSUME NEW a \in Nat, NEW x \in Nat, x < 2 * a
  PROVE  x % a \in 0 .. a - 1
<1>1. CASE x < a
  BY <1>1, ModSmall, SMT
<1>2. CASE a <= x
  BY <1>2, ModWrap, SMT
<1> QED
  BY <1>1, <1>2, SMT

\* Advancing a masked index is masking the advanced index.
LEMMA AdvancePut ==
  ASSUME NEW a \in Nat, NEW g \in Nat, NEW n \in Nat, g < a, n < a
  PROVE  (((g + n) % a) + 1) % a = (g + (n + 1)) % a
<1>1. CASE g + n < a
  <2>1. (g + n) % a = g + n
    BY <1>1, ModSmall, SMT
  <2> QED
    BY <2>1, SMT
<1>2. CASE a <= g + n
  <2>1. (g + n) % a = g + n - a
    BY <1>2, ModWrap, SMT
  <2>2. (g + n - a + 1) % a = g + n - a + 1
    BY <1>2, ModSmall, SMT
  <2>3. (g + (n + 1)) % a = g + (n + 1) - a
    <3>1. g + (n + 1) \in Nat /\ a <= g + (n + 1) /\ g + (n + 1) < 2 * a
      BY <1>2, SMTT(30)
    <3> QED
      BY <3>1, ModWrap, SMTT(60)
  <2> QED
    BY <2>1, <2>2, <2>3, SMT
<1> QED
  BY <1>1, <1>2, SMT

\* Taking the oldest message leaves the place of every later one unchanged.
LEMMA AdvanceGet ==
  ASSUME NEW a \in Nat, NEW g \in Nat, NEW n \in Nat, g < a, n < a
  PROVE  (((g + 1) % a) + n) % a = (g + (n + 1)) % a
<1>1. CASE g + 1 < a
  <2>1. (g + 1) % a = g + 1
    BY <1>1, ModSmall, SMT
  <2> QED
    BY <2>1, SMT
<1>2. CASE g + 1 = a
  <2>1. (g + 1) % a = 0
    BY <1>2, ModWrap, SMT
  <2>2. (0 + n) % a = n
    BY ModSmall, SMT
  <2>3. (g + (n + 1)) % a = n
    BY <1>2, ModWrap, SMT
  <2> QED
    BY <2>1, <2>2, <2>3, SMT
<1> QED
  BY <1>1, <1>2, SMT

LInv == TypeOK /\ IndexInv

\* There is no queue before nano_lmq_init.
LEMMA LmqInit == Init => LInv
<1> SUFFICES ASSUME Init PROVE LInv
  OBVIOUS
<1>1. out \in [rc : {0, -2, -8}, msg : Msgs \cup {NoMsg, Junk}]
  BY DEF Init, Ret
<1>2. live = FALSE /\ lmq_cap = 0 /\ lmq_alloc = 0 /\ lmq_len = 0
      /\ lmq_get = 0 /\ lmq_put = 0
  BY DEF Init
<1> QED
  BY <1>1, <1>2, ZenonT(60) DEF LInv, TypeOK, IndexInv

\* nano_lmq_init sets up an empty queue that satisfies the invariant.
LEMMA InitStep ==
  ASSUME NEW c \in Caps, nano_lmq_init(c) PROVE LInv'
<1> DEFINE a == AllocFor(c)
<1>1. a \in Nat /\ a >= 2 /\ a >= c /\ c \in Nat
  BY AllocAssumption, CapsAssumption
<1> HIDE DEF a
<1>2. 0 % a = 0
  BY <1>1, ModSmall, SMT
<1>3. /\ live' = TRUE
      /\ lmq_cap' = c /\ lmq_alloc' = a /\ lmq_len' = 0 /\ lmq_get' = 0 /\ lmq_put' = 0
      /\ lmq_msgs' = [i \in Slots(a) |-> Junk]
      /\ out' = Ret(0, NoMsg)
  BY DEF nano_lmq_init, Fields, a
<1>4. TypeOK'
  BY <1>1, <1>3 DEF TypeOK, Ret, Slots
<1>5. IndexInv'
  BY <1>1, <1>2, <1>3 DEF IndexInv, SlotAt
<1> QED
  BY <1>4, <1>5 DEF LInv

\* What the invariant says of a live queue, in arithmetic terms.
LEMMA LiveFacts ==
  ASSUME LInv, live
  PROVE  /\ lmq_alloc \in Nat /\ lmq_get \in Nat /\ lmq_len \in Nat /\ lmq_cap \in Nat
         /\ lmq_put \in Nat
         /\ lmq_get < lmq_alloc /\ lmq_len <= lmq_cap /\ lmq_cap <= lmq_alloc
         /\ lmq_put = (lmq_get + lmq_len) % lmq_alloc
         /\ lmq_msgs \in [0 .. lmq_alloc - 1 -> Msgs \cup {Junk}]
BY DEF LInv, TypeOK, IndexInv, Slots, SlotAt

\* nano_lmq_putq keeps the put index len places after the get index.
LEMMA PutStep ==
  ASSUME LInv, NEW m \in Msgs, nano_lmq_putq(m) PROVE LInv'
<1>1. CASE /\ lmq_len >= lmq_cap /\ out' = Ret(-8, NoMsg)
           /\ UNCHANGED <<lmq_cap, lmq_alloc, lmq_len, lmq_get, lmq_put, lmq_msgs>>
  BY <1>1 DEF nano_lmq_putq, LInv, TypeOK, IndexInv, SlotAt, Ret
<1>2. CASE /\ lmq_len < lmq_cap
           /\ Fields(lmq_cap, lmq_alloc, lmq_len + 1, lmq_get, (lmq_put + 1) % lmq_alloc,
                     Store(lmq_msgs, lmq_put, m))
           /\ out' = Ret(0, NoMsg)
  <2>0. live /\ live' = live
    BY DEF nano_lmq_putq
  <2>1. /\ lmq_alloc \in Nat /\ lmq_get \in Nat /\ lmq_len \in Nat /\ lmq_cap \in Nat
        /\ lmq_get < lmq_alloc /\ lmq_len < lmq_cap /\ lmq_cap <= lmq_alloc
        /\ lmq_put = (lmq_get + lmq_len) % lmq_alloc
        /\ lmq_msgs \in [0 .. lmq_alloc - 1 -> Msgs \cup {Junk}]
    BY <1>2, <2>0, LiveFacts
  <2>2. (lmq_put + 1) % lmq_alloc = (lmq_get + (lmq_len + 1)) % lmq_alloc
    <3>1. lmq_len < lmq_alloc
      BY <2>1
    <3> QED
      BY <2>1, <3>1, AdvancePut, ZenonT(60)
  <2>3. (lmq_get + (lmq_len + 1)) % lmq_alloc \in Nat
    BY <2>1, ModInRange
  <2>4. Store(lmq_msgs, lmq_put, m) \in [0 .. lmq_alloc - 1 -> Msgs \cup {Junk}]
    BY <2>1 DEF Store
  <2>5. TypeOK'
    BY <1>2, <2>0, <2>1, <2>2, <2>3, <2>4 DEF TypeOK, Ret, Slots, Fields
  <2>6. IndexInv'
    BY <1>2, <2>0, <2>1, <2>2 DEF IndexInv, SlotAt, Fields
  <2> QED
    BY <2>5, <2>6 DEF LInv
<1> QED
  BY <1>1, <1>2 DEF nano_lmq_putq

\* nano_lmq_getq moves the get index one place on and the put index not at all.
LEMMA GetStep ==
  ASSUME LInv, nano_lmq_getq PROVE LInv'
<1>1. CASE /\ lmq_len = 0 /\ out' = Ret(-8, NoMsg)
           /\ UNCHANGED <<lmq_cap, lmq_alloc, lmq_len, lmq_get, lmq_put, lmq_msgs>>
  BY <1>1 DEF nano_lmq_getq, LInv, TypeOK, IndexInv, SlotAt, Ret
<1>2. CASE /\ lmq_len > 0
           /\ out' = Ret(0, lmq_msgs[lmq_get])
           /\ Fields(lmq_cap, lmq_alloc, lmq_len - 1, (lmq_get + 1) % lmq_alloc, lmq_put,
                     lmq_msgs)
  <2>0. live /\ live' = live
    BY DEF nano_lmq_getq
  <2>1. /\ lmq_alloc \in Nat /\ lmq_get \in Nat /\ lmq_len \in Nat /\ lmq_cap \in Nat
        /\ lmq_put \in Nat
        /\ lmq_get < lmq_alloc /\ lmq_len <= lmq_cap /\ lmq_cap <= lmq_alloc
        /\ lmq_put = (lmq_get + lmq_len) % lmq_alloc
        /\ lmq_msgs \in [0 .. lmq_alloc - 1 -> Msgs \cup {Junk}]
    BY <2>0, LiveFacts
  <2>2. (((lmq_get + 1) % lmq_alloc) + (lmq_len - 1)) % lmq_alloc
          = (lmq_get + ((lmq_len - 1) + 1)) % lmq_alloc
    <3>1. lmq_len - 1 \in Nat /\ lmq_len - 1 < lmq_alloc
      BY <1>2, <2>1
    <3> QED
      BY <2>1, <3>1, AdvanceGet
  <2>3. (lmq_get + 1) % lmq_alloc \in 0 .. lmq_alloc - 1
    BY <2>1, ModInRange
  <2>4. lmq_get + ((lmq_len - 1) + 1) = lmq_get + lmq_len
    BY <2>1
  <2>5. lmq_msgs[lmq_get] \in Msgs \cup {Junk}
    BY <2>1
  <2>6. TypeOK'
    BY <1>2, <2>0, <2>1, <2>3, <2>5 DEF TypeOK, Ret, Slots, Fields
  <2>7. IndexInv'
    BY <1>2, <2>0, <2>1, <2>2, <2>4 DEF IndexInv, SlotAt, Fields
  <2> QED
    BY <2>6, <2>7 DEF LInv
<1> QED
  BY <1>1, <1>2 DEF nano_lmq_getq

\* nano_lmq_flush leaves the get index where the put index is.
LEMMA FlushStep ==
  ASSUME LInv, nano_lmq_flush PROVE LInv'
<1>0. live /\ live' = live /\ out' = Ret(0, NoMsg)
      /\ lmq_cap' = lmq_cap /\ lmq_alloc' = lmq_alloc /\ lmq_len' = 0
      /\ lmq_get' = (lmq_get + lmq_len) % lmq_alloc /\ lmq_put' = lmq_put
      /\ lmq_msgs' = lmq_msgs
  BY DEF nano_lmq_flush, Fields, SlotAt
<1>1. /\ lmq_alloc \in Nat /\ lmq_get \in Nat /\ lmq_len \in Nat /\ lmq_cap \in Nat
      /\ lmq_put \in Nat
      /\ lmq_get < lmq_alloc /\ lmq_len <= lmq_cap /\ lmq_cap <= lmq_alloc
      /\ lmq_put = (lmq_get + lmq_len) % lmq_alloc
      /\ lmq_msgs \in [0 .. lmq_alloc - 1 -> Msgs \cup {Junk}]
  BY <1>0, LiveFacts
<1>2. (lmq_get + lmq_len) % lmq_alloc \in 0 .. lmq_alloc - 1
  BY <1>1, ModInRange
<1>3. (lmq_put + 0) % lmq_alloc = lmq_put
  <2>1. lmq_put + 0 = lmq_put /\ lmq_put < lmq_alloc
    BY <1>1, <1>2
  <2> QED
    BY <1>1, <2>1, ModSmall, SMTT(60)
<1>4. TypeOK'
  BY <1>0, <1>1, <1>2 DEF TypeOK, Ret, Slots
<1>5. IndexInv'
  BY <1>0, <1>1, <1>3 DEF IndexInv, SlotAt
<1> QED
  BY <1>4, <1>5 DEF LInv

\* nano_lmq_resize keeps the invariant when the new array has a slot to spare:
\* lmq_put = len is then its own masked value.
LEMMA ResizeStep ==
  ASSUME ResizeLeavesRoom, LInv, NEW c \in ResizeCaps, nano_lmq_resize(c) PROVE LInv'
<1> DEFINE a == AllocFor(c)
           k == Kept(c)
           q == [i \in Slots(a) |-> IF i < k THEN lmq_msgs[SlotAt(i)] ELSE Junk]
<1>1. a \in Nat /\ a >= 2 /\ c < a /\ c \in Nat
  BY AllocAssumption, CapsAssumption DEF ResizeLeavesRoom
<1>0. live /\ live' = live /\ out' = Ret(0, NoMsg)
      /\ lmq_cap' = c /\ lmq_alloc' = a /\ lmq_len' = k
      /\ lmq_get' = 0 /\ lmq_put' = k /\ lmq_msgs' = q
  BY DEF nano_lmq_resize, Fields
<1>2. /\ lmq_alloc \in Nat /\ lmq_get \in Nat /\ lmq_len \in Nat /\ lmq_cap \in Nat
      /\ lmq_get < lmq_alloc /\ lmq_len <= lmq_cap /\ lmq_cap <= lmq_alloc
      /\ lmq_msgs \in [0 .. lmq_alloc - 1 -> Msgs \cup {Junk}]
  BY <1>0, LiveFacts
<1>3. k \in Nat /\ k <= c /\ k <= lmq_len
  BY <1>1, <1>2 DEF Kept
<1> HIDE DEF a, k
<1>4. q \in [Slots(a) -> Msgs \cup {Junk}]
  <2> SUFFICES ASSUME NEW i \in Slots(a), i < k
               PROVE  lmq_msgs[SlotAt(i)] \in Msgs \cup {Junk}
    OBVIOUS
  <2>1. i \in Nat /\ lmq_get + i \in Nat /\ lmq_get + i < 2 * lmq_alloc
    BY <1>1, <1>2, <1>3 DEF Slots
  <2>2. (lmq_get + i) % lmq_alloc \in 0 .. lmq_alloc - 1
    BY <1>2, <2>1, ModInRange
  <2> QED
    BY <1>2, <2>2 DEF SlotAt
<1>5. (0 + k) % a = k
  <2>1. 0 + k = k /\ k < a
    BY <1>1, <1>3
  <2> QED
    BY <1>1, <1>3, <2>1, ModSmall
<1> HIDE DEF q
<1>6. TypeOK'
  BY <1>0, <1>1, <1>3, <1>4 DEF TypeOK, Ret, Slots
<1>7. IndexInv'
  BY <1>0, <1>1, <1>3, <1>5 DEF IndexInv, SlotAt
<1> QED
  BY <1>6, <1>7 DEF LInv

\* Every step of the specification keeps the invariant.
LEMMA LInvStep ==
  ASSUME ResizeLeavesRoom, LInv, [Next]_vars PROVE LInv'
<1>1. ASSUME NEW c \in Caps, nano_lmq_init(c) PROVE LInv'
  BY <1>1, InitStep
<1>2. ASSUME NEW m \in Msgs, nano_lmq_putq(m) PROVE LInv'
  BY <1>2, PutStep
<1>3. CASE nano_lmq_getq
  BY <1>3, GetStep
<1>4. CASE nano_lmq_flush
  BY <1>4, FlushStep
<1>5. ASSUME NEW c \in ResizeCaps, nano_lmq_resize(c) PROVE LInv'
  BY <1>5, ResizeStep
<1>6. CASE AllocFails
  BY <1>6 DEF AllocFails, LInv, TypeOK, IndexInv, SlotAt, Ret
<1>7. CASE nano_lmq_fini
  <2>1. out' \in [rc : {0, -2, -8}, msg : Msgs \cup {NoMsg, Junk}]
    BY <1>7 DEF nano_lmq_fini, Ret
  <2>2. live' = FALSE /\ lmq_cap' = 0 /\ lmq_alloc' = 0 /\ lmq_len' = 0
        /\ lmq_get' = 0 /\ lmq_put' = 0
    BY <1>7 DEF nano_lmq_fini, Fields
  <2> QED
    BY <2>1, <2>2, ZenonT(60) DEF LInv, TypeOK, IndexInv
<1>8. CASE UNCHANGED vars
  BY <1>8 DEF vars, LInv, TypeOK, IndexInv, SlotAt
<1> QED
  BY <1>1, <1>2, <1>3, <1>4, <1>5, <1>6, <1>7, <1>8 DEF Next

\* The invariant gives the bound on every store: the slot nano_lmq_putq writes
\* when it accepts a message is a slot of the array.
LEMMA InvImpliesStoreInBounds == LInv => StoreInBounds
<1> SUFFICES ASSUME LInv, live, lmq_len < lmq_cap PROVE lmq_put \in 0 .. lmq_alloc - 1
  BY DEF StoreInBounds, Slots
<1>1. /\ lmq_alloc \in Nat /\ lmq_get \in Nat /\ lmq_len \in Nat /\ lmq_cap \in Nat
      /\ lmq_get < lmq_alloc /\ lmq_cap <= lmq_alloc
      /\ lmq_put = (lmq_get + lmq_len) % lmq_alloc
  BY LiveFacts
<1>2. lmq_get + lmq_len \in Nat /\ lmq_get + lmq_len < 2 * lmq_alloc
  BY <1>1
<1> QED
  BY <1>1, <1>2, ModInRange

\* The put index of nano_lmq.c follows the get index and the length, for every
\* capacity and every order of calls, as long as no resize fills the new array.
THEOREM LmqIndexCorrect ==
  ASSUME ResizeLeavesRoom PROVE Spec => [](TypeOK /\ IndexInv)
<1>1. LInv /\ [Next]_vars => LInv'
  BY LInvStep
<1> QED
  BY LmqInit, <1>1, PTL DEF Spec, LInv

\* Under the same condition no store of nano_lmq_putq leaves the array.
THEOREM LmqStoresInBounds ==
  ASSUME ResizeLeavesRoom PROVE Spec => []StoreInBounds
<1>1. LInv /\ [Next]_vars => LInv'
  BY LInvStep
<1> QED
  BY LmqInit, <1>1, InvImpliesStoreInBounds, PTL DEF Spec
=============================================================================
