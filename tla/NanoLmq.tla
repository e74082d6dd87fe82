------------------------------ MODULE NanoLmq ------------------------------
(***************************************************************************)
(* The ring queue of nanolib/nano_lmq.c: an array of lmq_alloc slots, a    *)
(* power of two no smaller than the capacity, with a get and a put index   *)
(* that wrap through lmq_mask = lmq_alloc - 1.  Since lmq_alloc is a power *)
(* of two, `x & lmq_mask' is x % lmq_alloc.  "Locking must be done by the  *)
(* caller", so every call is one step.                                     *)
(***************************************************************************)
EXTENDS Integers, Sequences

CONSTANTS Msgs,        \* the messages callers put
          Caps,        \* the capacities a queue is created with
          ResizeCaps,  \* the capacities a queue is resized to
          NoMsg,       \* "no message returned"
          Junk         \* the content of a slot never written

VARIABLES live,        \* between nano_lmq_init and nano_lmq_fini
          lmq_cap, lmq_alloc, lmq_len, lmq_get, lmq_put, lmq_msgs,
          out          \* what the last call returned: [rc, msg]

vars == <<live, lmq_cap, lmq_alloc, lmq_len, lmq_get, lmq_put, lmq_msgs, out>>

Ret(rc, msg) == [rc |-> rc, msg |-> msg]

\* alloc = 2; while (alloc < cap) alloc *= 2;
RoundUp[cap \in Nat, alloc \in Nat] ==
  IF alloc < cap THEN RoundUp[cap, 2 * alloc] ELSE alloc

AllocFor(cap) == RoundUp[cap, 2]

ASSUME CapsAssumption == Caps \subseteq Nat /\ ResizeCaps \subseteq Nat

\* The rounding loop ends, at a size that holds the capacity.
ASSUME AllocAssumption ==
  \A c \in Caps \cup ResizeCaps :
    AllocFor(c) \in Nat /\ AllocFor(c) >= 2 /\ AllocFor(c) >= c

Slots(alloc) == 0 .. alloc - 1

\* A store at lmq_msgs[i]; beyond the array it changes no slot of the queue.
Store(msgs, i, m) ==
  IF i \in DOMAIN msgs THEN [msgs EXCEPT ![i] = m] ELSE msgs

\* The slot i places after the oldest message.
SlotAt(i) == (lmq_get + i) % lmq_alloc

\* The content of a queue: its capacity and array, with n messages from slot get.
Fields(cap, alloc, n, get, put, msgs) ==
  /\ lmq_cap' = cap
  /\ lmq_alloc' = alloc
  /\ lmq_len' = n
  /\ lmq_get' = get
  /\ lmq_put' = put
  /\ lmq_msgs' = msgs

Init == /\ live = FALSE
        /\ lmq_cap = 0 /\ lmq_alloc = 0 /\ lmq_len = 0
        /\ lmq_get = 0 /\ lmq_put = 0 /\ lmq_msgs = <<>>
        /\ out = Ret(0, NoMsg)

nano_lmq_init(c) ==
  /\ ~live
  /\ live' = TRUE
  /\ Fields(c, AllocFor(c), 0, 0, 0, [i \in Slots(AllocFor(c)) |-> Junk])
  /\ out' = Ret(0, NoMsg)

\* Mutant: the put index is advanced and not masked.
putq_Unmasked(m) ==
  /\ live
  /\ lmq_len < lmq_cap
  /\ Fields(lmq_cap, lmq_alloc, lmq_len + 1, lmq_get, lmq_put + 1,
            Store(lmq_msgs, lmq_put, m))
  /\ out' = Ret(0, NoMsg)
  /\ UNCHANGED live

nano_lmq_putq(m) ==
  /\ live
  /\ \/ /\ lmq_len >= lmq_cap
        /\ out' = Ret(-8, NoMsg)
        /\ UNCHANGED <<lmq_cap, lmq_alloc, lmq_len, lmq_get, lmq_put, lmq_msgs>>
     \/ /\ lmq_len < lmq_cap
        /\ Fields(lmq_cap, lmq_alloc, lmq_len + 1, lmq_get, (lmq_put + 1) % lmq_alloc,
                  Store(lmq_msgs, lmq_put, m))
        /\ out' = Ret(0, NoMsg)
  /\ UNCHANGED live

\* Mutant: the get index runs off the array at the wrap.
getq_Unmasked ==
  /\ live
  /\ lmq_len > 0
  /\ out' = Ret(0, lmq_msgs[lmq_get])
  /\ Fields(lmq_cap, lmq_alloc, lmq_len - 1, lmq_get + 1, lmq_put, lmq_msgs)
  /\ UNCHANGED live

nano_lmq_getq ==
  /\ live
  /\ \/ /\ lmq_len = 0
        /\ out' = Ret(-8, NoMsg)
        /\ UNCHANGED <<lmq_cap, lmq_alloc, lmq_len, lmq_get, lmq_put, lmq_msgs>>
     \/ /\ lmq_len > 0
        /\ out' = Ret(0, lmq_msgs[lmq_get])
        /\ Fields(lmq_cap, lmq_alloc, lmq_len - 1, (lmq_get + 1) % lmq_alloc, lmq_put,
                  lmq_msgs)
  /\ UNCHANGED live

\* Mutant: the flush forgets to move the get index.
flush_KeepsGet ==
  /\ live
  /\ Fields(lmq_cap, lmq_alloc, 0, lmq_get, lmq_put, lmq_msgs)
  /\ out' = Ret(0, NoMsg)
  /\ UNCHANGED live

\* The loop of nano_lmq_flush takes the messages out one by one and frees them.
nano_lmq_flush ==
  /\ live
  /\ Fields(lmq_cap, lmq_alloc, 0, SlotAt(lmq_len), lmq_put, lmq_msgs)
  /\ out' = Ret(0, NoMsg)
  /\ UNCHANGED live

Kept(c) == IF lmq_len < c THEN lmq_len ELSE c

\* Mutant: the array is copied slot by slot instead of from the oldest message.
resize_CopiesSlots(c) ==
  /\ live
  /\ Fields(c, AllocFor(c), Kept(c), 0, Kept(c),
            [i \in Slots(AllocFor(c)) |-> IF i < Kept(c) THEN lmq_msgs[i] ELSE Junk])
  /\ out' = Ret(0, NoMsg)
  /\ UNCHANGED live

\* The oldest messages move to the front of a new array, the rest is flushed.
\* lmq_put is set to the number moved and is not masked.
nano_lmq_resize(c) ==
  /\ live
  /\ Fields(c, AllocFor(c), Kept(c), 0, Kept(c),
            [i \in Slots(AllocFor(c)) |->
               IF i < Kept(c) THEN lmq_msgs[SlotAt(i)] ELSE Junk])
  /\ out' = Ret(0, NoMsg)
  /\ UNCHANGED live

\* nano_alloc fails, in nano_lmq_init or in nano_lmq_resize.
AllocFails ==
  /\ out' = Ret(-2, NoMsg)
  /\ UNCHANGED <<live, lmq_cap, lmq_alloc, lmq_len, lmq_get, lmq_put, lmq_msgs>>

nano_lmq_fini ==
  /\ live
  /\ live' = FALSE
  /\ Fields(0, 0, 0, 0, 0, <<>>)
  /\ out' = Ret(0, NoMsg)

Next == \/ \E c \in Caps : nano_lmq_init(c)
        \/ \E m \in Msgs : nano_lmq_putq(m)
        \/ nano_lmq_getq
        \/ nano_lmq_flush
        \/ \E c \in ResizeCaps : nano_lmq_resize(c)
        \/ AllocFails
        \/ nano_lmq_fini

Spec == Init /\ [][Next]_vars
-----------------------------------------------------------------------------
\* The type invariant: the get index of a live queue is a slot of its array.
TypeOK ==
  /\ live \in BOOLEAN
  /\ out \in [rc : {0, -2, -8}, msg : Msgs \cup {NoMsg, Junk}]
  /\ lmq_cap \in Nat /\ lmq_alloc \in Nat /\ lmq_len \in Nat
  /\ lmq_put \in Nat /\ lmq_get \in Nat
  /\ live => /\ lmq_get \in Slots(lmq_alloc)
             /\ lmq_msgs \in [Slots(lmq_alloc) -> Msgs \cup {Junk}]

\* A store of nano_lmq_putq falls inside the array: the mask keeps lmq_put modulo
\* lmq_alloc ("this allows us to do modulo operations as a power of two").
StoreInBounds == live /\ lmq_len < lmq_cap => lmq_put \in Slots(lmq_alloc)

\* The put index is where the get index and the length say it is, so that the
\* next message goes just behind the newest one whatever the order of puts,
\* gets, flushes and resizes.
IndexInv ==
  live => /\ lmq_len <= lmq_cap
          /\ lmq_cap <= lmq_alloc
          /\ lmq_put = SlotAt(lmq_len)

\* The messages held, oldest first.
Held == [i \in 1 .. lmq_len |-> lmq_msgs[SlotAt(i - 1)]]

F == INSTANCE Fifo WITH queue <- Held, cap <- lmq_cap

\* The ring queue behaves as the bounded FIFO of module Fifo: messages come out
\* in the order they went in, none twice and none lost, across wrap-around and
\* resizing.
ImplementsFifo == F!Spec

\* A resize never fills the new array to its last slot.
ResizeLeavesRoom == \A c \in ResizeCaps : c < AllocFor(c)
=============================================================================
