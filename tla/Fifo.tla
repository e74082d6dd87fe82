-------------------------------- MODULE Fifo --------------------------------
(***************************************************************************)
(* What nano_lmq promises to its callers: a bounded first-in first-out     *)
(* queue of messages.  A put on a full queue and a get on an empty one are *)
(* refused and change nothing; a resize keeps the oldest messages that fit *)
(* the new capacity; finishing a queue drops what it still holds.          *)
(***************************************************************************)
EXTENDS Integers, Sequences

CONSTANTS Msgs,        \* the messages callers put
          Caps,        \* the capacities a queue is created with
          ResizeCaps,  \* the capacities a queue is resized to
          NoMsg        \* "no message returned"

VARIABLES live,        \* the queue has been initialised and not finished
          queue,       \* the messages held, oldest first
          cap,         \* the capacity
          out          \* what the last call returned: [rc, msg]

vars == <<live, queue, cap, out>>

\* The result of a call: its return code and, for a get, the message.
Ret(rc, msg) == [rc |-> rc, msg |-> msg]

Init == /\ live = FALSE
        /\ queue = <<>>
        /\ cap = 0
        /\ out = Ret(0, NoMsg)

Create(c) == /\ ~live
             /\ live' = TRUE
             /\ queue' = <<>>
             /\ cap' = c
             /\ out' = Ret(0, NoMsg)

Put(m) == /\ live
          /\ \/ /\ Len(queue) < cap
                /\ queue' = Append(queue, m)
                /\ out' = Ret(0, NoMsg)
             \/ /\ Len(queue) >= cap
                /\ out' = Ret(-8, NoMsg)
                /\ UNCHANGED queue
          /\ UNCHANGED <<live, cap>>

Get == /\ live
       /\ \/ /\ queue # <<>>
             /\ out' = Ret(0, Head(queue))
             /\ queue' = Tail(queue)
          \/ /\ queue = <<>>
             /\ out' = Ret(-8, NoMsg)
             /\ UNCHANGED queue
       /\ UNCHANGED <<live, cap>>

Drop == /\ live
        /\ queue' = <<>>
        /\ out' = Ret(0, NoMsg)
        /\ UNCHANGED <<live, cap>>

Resize(c) == /\ live
             /\ queue' = SubSeq(queue, 1, IF Len(queue) < c THEN Len(queue) ELSE c)
             /\ cap' = c
             /\ out' = Ret(0, NoMsg)
             /\ UNCHANGED live

\* Memory ran out: the call reports it and nothing else changes.
NoMemory == /\ out' = Ret(-2, NoMsg)
            /\ UNCHANGED <<live, queue, cap>>

Finish == /\ live
          /\ live' = FALSE
          /\ queue' = <<>>
          /\ cap' = 0
          /\ out' = Ret(0, NoMsg)

Next == \/ \E c \in Caps : Create(c)
        \/ \E m \in Msgs : Put(m)
        \/ Get
        \/ Drop
        \/ \E c \in ResizeCaps : Resize(c)
        \/ NoMemory
        \/ Finish

Spec == Init /\ [][Next]_vars
=============================================================================
