-------------------------- MODULE NanoLmqRefines ---------------------------
(***************************************************************************)
(* The ring queue of nano_lmq.c implements the bounded queue of module     *)
(* Fifo, for every set of messages and of capacities: initial states map   *)
(* to initial states and every call to the call Fifo has for it.  Held     *)
(* reads the array from the get index on; the index facts it needs are the *)
(* invariant LInv of NanoLmqProofs.                                        *)
(***************************************************************************)
EXTENDS NanoLmqProofs, SequenceTheorems

V == Msgs \cup {Junk}

\* Two messages of the queue have two slots.
LEMMA SlotsDiffer ==
  ASSUME NEW a \in Nat, NEW g \in Nat, NEW i \in Nat, NEW j \in Nat,
         g < a, i < j, j < a
  PROVE  (g + i) % a # (g + j) % a
<1> DEFINE x == g + i
           y == g + j
<1>1. x \in Nat /\ y \in Nat /\ x < y /\ y - x < a /\ y < 2 * a
  OBVIOUS
<1> SUFFICES x % a # y % a
  OBVIOUS
<1> HIDE DEF x, y
<1>2. CASE y < a
  <2>1. x % a = x
    BY <1>1, <1>2, ModSmall
  <2>2. y % a = y
    BY <1>1, <1>2, ModSmall
  <2> QED
    BY <1>1, <2>1, <2>2
<1>3. CASE x < a /\ a <= y
  <2>1. x % a = x
    BY <1>1, <1>3, ModSmall
  <2>2. y % a = y - a
    BY <1>1, <1>3, ModWrap
  <2> QED
    BY <1>1, <2>1, <2>2
<1>4. CASE a <= x
  <2>1. x % a = x - a
    BY <1>1, <1>4, ModWrap
  <2>2. y % a = y - a
    BY <1>1, <1>4, ModWrap
  <2> QED
    BY <1>1, <2>1, <2>2
<1> QED
  BY <1>1, <1>2, <1>3, <1>4

HeldOK == /\ Held \in Seq(V)
          /\ Len(Held) = lmq_len
          /\ \A i \in 1 .. lmq_len : Held[i] = lmq_msgs[SlotAt(i - 1)]

\* What Held is, as a sequence.
LEMMA HeldFacts == LInv /\ live => HeldOK
<1> SUFFICES ASSUME LInv, live PROVE HeldOK
  OBVIOUS
<1>1. /\ lmq_alloc \in Nat /\ lmq_get \in Nat /\ lmq_len \in Nat /\ lmq_cap \in Nat
      /\ lmq_get < lmq_alloc /\ lmq_len <= lmq_cap /\ lmq_cap <= lmq_alloc
      /\ lmq_msgs \in [0 .. lmq_alloc - 1 -> V]
  BY LiveFacts DEF V
<1>2. ASSUME NEW i \in 1 .. lmq_len PROVE lmq_msgs[SlotAt(i - 1)] \in V
  <2>1. i - 1 \in Nat /\ lmq_get + (i - 1) \in Nat /\ lmq_get + (i - 1) < 2 * lmq_alloc
    BY <1>1
  <2>2. SlotAt(i - 1) \in 0 .. lmq_alloc - 1
    BY <1>1, <2>1, ModInRange DEF SlotAt
  <2> QED
    BY <1>1, <2>2
<1>3. Held \in [1 .. lmq_len -> V]
  BY <1>2 DEF Held
<1>4. Held \in Seq(V) /\ Len(Held) = lmq_len
  BY <1>1, <1>3
<1>5. \A i \in 1 .. lmq_len : Held[i] = lmq_msgs[SlotAt(i - 1)]
  BY DEF Held
<1> QED
  BY <1>4, <1>5, Zenon DEF HeldOK

\* An empty queue holds nothing.
LEMMA HeldEmpty == lmq_len = 0 => Held = <<>>
BY DEF Held

\* Init maps to the Init of Fifo.
LEMMA InitMaps == Init => F!Init
BY HeldEmpty DEF Init, F!Init, Ret, F!Ret

\* nano_lmq_putq appends: the slot it writes is none of those that are read.
LEMMA PutMaps ==
  ASSUME LInv, LInv', NEW m \in Msgs, nano_lmq_putq(m) PROVE F!Put(m)
<1>0. live /\ live'
  BY DEF nano_lmq_putq
<1>1. /\ lmq_alloc \in Nat /\ lmq_get \in Nat /\ lmq_len \in Nat /\ lmq_cap \in Nat
      /\ lmq_get < lmq_alloc /\ lmq_len <= lmq_cap /\ lmq_cap <= lmq_alloc
      /\ lmq_put = SlotAt(lmq_len)
      /\ lmq_msgs \in [0 .. lmq_alloc - 1 -> V]
  BY <1>0, LiveFacts DEF V, SlotAt
<1>2. /\ Held \in Seq(V) /\ Len(Held) = lmq_len
      /\ \A i \in 1 .. lmq_len : Held[i] = lmq_msgs[SlotAt(i - 1)]
  BY <1>0, HeldFacts DEF HeldOK
<1>3. CASE lmq_len >= lmq_cap
  <2>1. /\ out' = Ret(-8, NoMsg) /\ live' = live
        /\ UNCHANGED <<lmq_cap, lmq_alloc, lmq_len, lmq_get, lmq_put, lmq_msgs>>
    BY <1>1, <1>3 DEF nano_lmq_putq
  <2>2. Held' = Held
    BY <2>1 DEF Held, SlotAt
  <2> QED
    BY <1>0, <1>2, <1>3, <2>1, <2>2 DEF F!Put, Ret, F!Ret
<1>4. CASE lmq_len < lmq_cap
  <2>1. /\ lmq_cap' = lmq_cap /\ lmq_alloc' = lmq_alloc /\ lmq_len' = lmq_len + 1
        /\ lmq_get' = lmq_get /\ lmq_msgs' = Store(lmq_msgs, lmq_put, m)
        /\ out' = Ret(0, NoMsg) /\ live' = live
    BY <1>1, <1>4 DEF nano_lmq_putq, Fields
  <2>2. /\ Held' \in Seq(V) /\ Len(Held') = lmq_len'
        /\ \A i \in 1 .. lmq_len' : Held'[i] = lmq_msgs'[(SlotAt(i - 1))']
    <3>1. HeldOK'
      BY <1>0, HeldFacts, PTL
    <3> QED
      BY <3>1 DEF HeldOK
  <2>3. m \in V
    BY DEF V
  <2>4. /\ Append(Held, m) \in Seq(V) /\ Len(Append(Held, m)) = lmq_len + 1
        /\ \A i \in 1 .. lmq_len : Append(Held, m)[i] = Held[i]
        /\ Append(Held, m)[lmq_len + 1] = m
    BY <1>2, <2>3, AppendProperties
  <2>5. lmq_put \in 0 .. lmq_alloc - 1
    <3>1. lmq_get + lmq_len \in Nat /\ lmq_get + lmq_len < 2 * lmq_alloc
      BY <1>1, <1>4
    <3> QED
      BY <1>1, <3>1, ModInRange DEF SlotAt
  <2>6. lmq_msgs' = [lmq_msgs EXCEPT ![lmq_put] = m]
    BY <1>1, <2>1, <2>5 DEF Store
  <2>7. ASSUME NEW i \in 1 .. lmq_len + 1 PROVE Held'[i] = Append(Held, m)[i]
    <3>1. i \in 1 .. lmq_len' /\ i - 1 \in Nat
      BY <1>1, <2>1
    <3>2. Held'[i] = lmq_msgs'[SlotAt(i - 1)]
      BY <2>1, <2>2, <3>1 DEF SlotAt
    <3>3. CASE i = lmq_len + 1
      <4>1. i - 1 = lmq_len
        BY <1>1, <3>3
      <4> QED
        BY <1>1, <2>4, <2>5, <2>6, <3>2, <3>3, <4>1
    <3>4. CASE i # lmq_len + 1
      <4>1. i \in 1 .. lmq_len /\ i - 1 < lmq_len /\ lmq_len < lmq_alloc
        BY <1>1, <1>4, <3>4
      <4>2. SlotAt(i - 1) # SlotAt(lmq_len)
        BY <1>1, <3>1, <4>1, SlotsDiffer, Zenon DEF SlotAt
      <4>3. lmq_msgs'[SlotAt(i - 1)] = lmq_msgs[SlotAt(i - 1)]
        <5>1. lmq_get + (i - 1) \in Nat /\ lmq_get + (i - 1) < 2 * lmq_alloc
          BY <1>1, <3>1, <4>1
        <5>2. SlotAt(i - 1) \in 0 .. lmq_alloc - 1
          BY <1>1, <5>1, ModInRange DEF SlotAt
        <5> QED
          BY <1>1, <2>6, <4>2, <5>2
      <4> QED
        BY <1>2, <2>4, <3>2, <4>1, <4>3
    <3> QED
      BY <3>3, <3>4, Zenon
  <2>8. Held' = Append(Held, m)
    BY <1>1, <2>1, <2>2, <2>4, <2>7, SeqEqual, SMTT(60)
  <2> QED
    BY <1>0, <1>2, <1>4, <2>1, <2>8 DEF F!Put, Ret, F!Ret
<1> QED
  BY <1>1, <1>3, <1>4

\* nano_lmq_getq takes the head.
LEMMA GetMaps ==
  ASSUME LInv, LInv', nano_lmq_getq PROVE F!Get
<1>0. live /\ live'
  BY DEF nano_lmq_getq
<1>1. /\ lmq_alloc \in Nat /\ lmq_get \in Nat /\ lmq_len \in Nat /\ lmq_cap \in Nat
      /\ lmq_get < lmq_alloc /\ lmq_len <= lmq_cap /\ lmq_cap <= lmq_alloc
  BY <1>0, LiveFacts
<1>2. /\ Held \in Seq(V) /\ Len(Held) = lmq_len
      /\ \A i \in 1 .. lmq_len : Held[i] = lmq_msgs[SlotAt(i - 1)]
  BY <1>0, HeldFacts DEF HeldOK
<1>3. CASE lmq_len = 0
  <2>1. /\ out' = Ret(-8, NoMsg) /\ live' = live
        /\ UNCHANGED <<lmq_cap, lmq_alloc, lmq_len, lmq_get, lmq_put, lmq_msgs>>
    BY <1>3 DEF nano_lmq_getq
  <2>2. Held' = Held
    BY <2>1 DEF Held, SlotAt
  <2> QED
    BY <1>0, <1>3, <2>1, <2>2, HeldEmpty DEF F!Get, Ret, F!Ret
<1>4. CASE lmq_len > 0
  <2>1. /\ lmq_cap' = lmq_cap /\ lmq_alloc' = lmq_alloc /\ lmq_len' = lmq_len - 1
        /\ lmq_get' = (lmq_get + 1) % lmq_alloc /\ lmq_msgs' = lmq_msgs
        /\ out' = Ret(0, lmq_msgs[lmq_get]) /\ live' = live
    BY <1>4 DEF nano_lmq_getq, Fields
  <2>2. /\ Held' \in Seq(V) /\ Len(Held') = lmq_len'
        /\ \A i \in 1 .. lmq_len' : Held'[i] = lmq_msgs'[(SlotAt(i - 1))']
    <3>1. HeldOK'
      BY <1>0, HeldFacts, PTL
    <3> QED
      BY <3>1 DEF HeldOK
  <2>3. Held # <<>>
    BY <1>2, <1>4
  <2>4. /\ Tail(Held) \in Seq(V) /\ Len(Tail(Held)) = lmq_len - 1
        /\ \A i \in 1 .. lmq_len - 1 : Tail(Held)[i] = Held[i + 1]
    BY <1>2, <2>3, HeadTailProperties
  <2>5. Head(Held) = lmq_msgs[lmq_get]
    <3>1. SlotAt(1 - 1) = lmq_get
      BY <1>1, ModSmall DEF SlotAt
    <3>2. Head(Held) = Held[1] /\ 1 \in 1 .. lmq_len
      BY <1>1, <1>2, <1>4, <2>3
    <3> QED
      BY <1>2, <3>1, <3>2
  <2>6. ASSUME NEW i \in 1 .. lmq_len - 1 PROVE Held'[i] = Tail(Held)[i]
    <3>1. i - 1 \in Nat /\ i - 1 < lmq_alloc /\ i \in 1 .. lmq_len' /\ i + 1 \in 1 .. lmq_len
      BY <1>1, <2>1
    <3>2. (((lmq_get + 1) % lmq_alloc) + (i - 1)) % lmq_alloc
            = (lmq_get + ((i - 1) + 1)) % lmq_alloc
      BY <1>1, <3>1, AdvanceGet
    <3>3. (i - 1) + 1 = (i + 1) - 1
      BY <1>1
    <3>4. (SlotAt(i - 1))' = SlotAt((i + 1) - 1)
      BY <2>1, <3>2, <3>3 DEF SlotAt
    <3>5. Held'[i] = lmq_msgs[SlotAt((i + 1) - 1)]
      BY <2>1, <2>2, <3>1, <3>4
    <3> QED
      BY <1>2, <2>4, <3>1, <3>5
  <2>7. Held' = Tail(Held)
    BY <1>1, <2>1, <2>2, <2>4, <2>6, SeqEqual, SMTT(60)
  <2> QED
    BY <1>0, <2>1, <2>3, <2>5, <2>7 DEF F!Get, Ret, F!Ret
<1> QED
  BY <1>1, <1>3, <1>4

\* nano_lmq_resize keeps the oldest messages that fit.
LEMMA ResizeMaps ==
  ASSUME LInv, LInv', NEW c \in ResizeCaps, nano_lmq_resize(c) PROVE F!Resize(c)
<1> DEFINE a == AllocFor(c)
           k == Kept(c)
<1>0. live /\ live' /\ live' = live
  BY DEF nano_lmq_resize
<1>1. /\ lmq_alloc \in Nat /\ lmq_get \in Nat /\ lmq_len \in Nat /\ lmq_cap \in Nat
  BY <1>0, LiveFacts
<1>2. /\ Held \in Seq(V) /\ Len(Held) = lmq_len
      /\ \A i \in 1 .. lmq_len : Held[i] = lmq_msgs[SlotAt(i - 1)]
  BY <1>0, HeldFacts DEF HeldOK
<1>3. a \in Nat /\ a >= c /\ c \in Nat
  BY AllocAssumption, CapsAssumption
<1>4. /\ lmq_cap' = c /\ lmq_alloc' = a /\ lmq_len' = k /\ lmq_get' = 0
      /\ lmq_msgs' = [i \in Slots(a) |-> IF i < k THEN lmq_msgs[SlotAt(i)] ELSE Junk]
      /\ out' = Ret(0, NoMsg)
  BY DEF nano_lmq_resize, Fields
<1>5. k \in Nat /\ k <= c /\ k <= lmq_len /\ k = IF lmq_len < c THEN lmq_len ELSE c
  BY <1>1, <1>3 DEF Kept
<1> HIDE DEF a, k
<1>6. /\ Held' \in Seq(V) /\ Len(Held') = lmq_len'
      /\ \A i \in 1 .. lmq_len' : Held'[i] = lmq_msgs'[(SlotAt(i - 1))']
  <2>1. HeldOK'
    BY <1>0, HeldFacts, PTL
  <2> QED
    BY <2>1 DEF HeldOK
<1>7. /\ SubSeq(Held, 1, k) \in Seq(V)
      /\ Len(SubSeq(Held, 1, k)) = k
      /\ \A i \in 1 .. k : SubSeq(Held, 1, k)[i] = Held[i]
  <2>1. \A i \in 1 .. k : Held[i] \in V
    BY <1>1, <1>2, <1>5
  <2>2. /\ SubSeq(Held, 1, k) \in Seq(V)
        /\ Len(SubSeq(Held, 1, k)) = IF 1 <= k THEN k - 1 + 1 ELSE 0
        /\ \A i \in 1 .. k - 1 + 1 : SubSeq(Held, 1, k)[i] = Held[1 + i - 1]
    BY <1>5, <2>1, SubSeqProperties
  <2> QED
    BY <1>5, <2>2
<1>8. ASSUME NEW i \in 1 .. k PROVE Held'[i] = SubSeq(Held, 1, k)[i]
  <2>1. i - 1 \in Nat /\ i - 1 < k /\ i - 1 < a /\ i \in 1 .. lmq_len' /\ i \in 1 .. lmq_len
    BY <1>1, <1>3, <1>4, <1>5
  <2>2. (0 + (i - 1)) % a = i - 1
    BY <1>3, <2>1, ModSmall
  <2>3. (SlotAt(i - 1))' = i - 1
    BY <1>4, <2>2 DEF SlotAt
  <2>4. lmq_msgs'[i - 1] = lmq_msgs[SlotAt(i - 1)]
    BY <1>3, <1>4, <2>1 DEF Slots
  <2> QED
    BY <1>2, <1>6, <1>7, <2>1, <2>3, <2>4
<1>9. Held' = SubSeq(Held, 1, k)
  BY <1>4, <1>5, <1>6, <1>7, <1>8, SeqEqual, SMTT(60)
<1> QED
  BY <1>0, <1>2, <1>4, <1>5, <1>9 DEF F!Resize, Ret, F!Ret

\* Every step is one of Fifo's, or none.
LEMMA StepMaps ==
  ASSUME LInv, LInv', [Next]_vars PROVE [F!Next]_(F!vars)
<1>0. lmq_len' = 0 => Held' = <<>>
  BY DEF Held
<1>1. ASSUME NEW c \in Caps, nano_lmq_init(c) PROVE F!Create(c)
  BY <1>0, <1>1 DEF nano_lmq_init, Fields, F!Create, Ret, F!Ret
<1>2. ASSUME NEW m \in Msgs, nano_lmq_putq(m) PROVE F!Put(m)
  BY <1>2, PutMaps
<1>3. ASSUME nano_lmq_getq PROVE F!Get
  BY <1>3, GetMaps
<1>4. ASSUME nano_lmq_flush PROVE F!Drop
  BY <1>0, <1>4 DEF nano_lmq_flush, Fields, F!Drop, Ret, F!Ret
<1>5. ASSUME NEW c \in ResizeCaps, nano_lmq_resize(c) PROVE F!Resize(c)
  BY <1>5, ResizeMaps
<1>6. ASSUME AllocFails PROVE F!NoMemory
  BY <1>6 DEF AllocFails, F!NoMemory, Held, SlotAt, Ret, F!Ret
<1>7. ASSUME nano_lmq_fini PROVE F!Finish
  BY <1>0, <1>7 DEF nano_lmq_fini, Fields, F!Finish, Ret, F!Ret
<1>8. ASSUME UNCHANGED vars PROVE UNCHANGED F!vars
  BY <1>8 DEF vars, F!vars, Held, SlotAt
<1> QED
  BY <1>1, <1>2, <1>3, <1>4, <1>5, <1>6, <1>7, <1>8 DEF Next, F!Next

\* nano_lmq behaves as a bounded queue, first in, first out, through wrap-around,
\* flush, resizing, failed allocations and finishing, for every capacity and every
\* order of calls, as long as no resize fills the new array.
THEOREM LmqImplementsFifo ==
  ASSUME ResizeLeavesRoom PROVE Spec => ImplementsFifo
<1>1. LInv /\ [Next]_vars => LInv'
  BY LInvStep
<1>2. LInv /\ LInv' /\ [Next]_vars => [F!Next]_(F!vars)
  BY StepMaps
<1> QED
  BY LmqInit, InitMaps, <1>1, <1>2, PTL DEF Spec, ImplementsFifo, F!Spec
=============================================================================
