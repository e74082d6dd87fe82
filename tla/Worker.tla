------------------------------- MODULE Worker -------------------------------
(***************************************************************************)
(* The works of the broker (server_cb of apps/broker.c): callbacks that    *)
(* receive a packet, handle it and send what follows, several at a time.   *)
(* They share the messages, which are counted references, and the retained *)
(* messages db_ret, here a function from topics to messages (their tree is *)
(* in module PacketFlow).                                                  *)
(*                                                                         *)
(* at[w] is the context the aio of work w waits on, or the place in the    *)
(* callback.  Who subscribes to what is module Session: here a search      *)
(* finds any set of pipes.  The transport (nng) keeps a reference to what  *)
(* it is given until the packet is written.                                *)
(***************************************************************************)
EXTENDS Integers, Sequences, FiniteSets, SequencesExt, Functions

CONSTANTS Works,    \* the works
          Bridges,  \* those of PROTO_MQTT_BRIDGE
          Packets,  \* what clients send: [cmd, topic, retain, empty]
          Remote,   \* what the remote broker of the bridge sends
          Found,    \* the sets of pipes a search may find
          Stale,    \* the sets of messages a vector that has been freed may hold
          Msgs,     \* memory for messages, 1 .. n
          MaxKept,  \* bound on the messages in session lists
          MaxWire   \* bound on what is to be written when a SUBSCRIBE is taken

VARIABLES
  state, at,       \* work -> its state, where its callback or its aio is
  msg, pkt,        \* work -> the message it holds, what is in it
  pipe_info,       \* work -> pipe_ct: the pipes found
  msg_ret,         \* work -> the retained messages it is to send
  cnt,             \* work -> msg_cnt of handle_pub
  refs,            \* message -> its reference count
  kept, wire,      \* message -> references from session lists, from the transport
  db_ret, locked,  \* topic -> retained message; its lock is never given back
  forgotten,       \* history: the messages a work has dropped without freeing them
  raced            \* history: the messages a race or a wrong count may free early

worksv == <<state, at, msg, pkt, pipe_info, msg_ret, cnt>>
msgsv  == <<refs, kept, wire>>
retv   == <<db_ret, locked>>
histv  == <<forgotten, raced>>
vars   == <<worksv, msgsv, retv, histv>>

NoMsg == 0
None == [cmd |-> "NONE", topic |-> "none", retain |-> FALSE, empty |-> FALSE]
\* Of a PUBLISH that has been handled only the command matters.
Sending == [None EXCEPT !.cmd = "PUBLISH"]
Published == {"PUBLISH", "WILL", "DISCONNECT_EV"}
Waiting == {"ctx", "bridge_ctx"}

Init ==
  /\ state = [w \in Works |-> IF w \in Bridges THEN "BRIDGE" ELSE "RECV"]
  /\ at = [w \in Works |-> IF w \in Bridges THEN "bridge_ctx" ELSE "ctx"]
  /\ msg = [w \in Works |-> NoMsg]
  /\ pkt = [w \in Works |-> None]
  /\ pipe_info = [w \in Works |-> <<>>]
  /\ msg_ret = [w \in Works |-> <<>>]
  /\ cnt = [w \in Works |-> 0]
  /\ refs = [m \in Msgs |-> 0]
  /\ kept = [m \in Msgs |-> 0]
  /\ wire = [m \in Msgs |-> 0]
  /\ db_ret = << >>
  /\ locked = FALSE
  /\ forgotten = {}
  /\ raced = {}
-----------------------------------------------------------------------------
(* Messages. *)

Free == {m \in Msgs : refs[m] = 0}
NewMsg == CHOOSE m \in Free : \A n \in Free : m <= n

Cmd(w) == pkt[w].cmd

\* nng_msg_clone and nng_msg_free: references added and dropped.  The count of a
\* message that has been freed is memory like any other.
Counted(add, drop) ==
  [m \in Msgs |-> IF refs[m] = 0 THEN 0 ELSE refs[m] + add[m] - drop[m]]
Count(add, drop) == refs' = Counted(add, drop)

\* The work lets go of its message.
Release(w) ==
  /\ msg' = [msg EXCEPT ![w] = NoMsg]
  /\ pkt' = [pkt EXCEPT ![w] = None]

One(m) == [x \in Msgs |-> IF x = m THEN 1 ELSE 0]
Nil == [x \in Msgs |-> 0]

\* The bounds.  Msgs bounds the messages: a packet is taken while there is one for
\* it and one for each CONNACK, whose handler makes a second, and a DISCONNECT while
\* none is forgotten.  MaxWire bounds what the transport has to write when a packet
\* is taken.  Once a message is in `raced' only the packets at work are followed to
\* their end.
Room(pk) ==
  /\ raced = {}
  /\ pk.cmd = "DISCONNECT" => forgotten = {}
  /\ \A m \in Msgs : wire[m] < MaxWire
  /\ Cardinality({w \in Works : Cmd(w) = "CONNACK"})
       + (IF pk.cmd = "CONNACK" THEN 1 ELSE 0) < Cardinality(Free)

Goto(w, s, a) ==
  /\ state' = [state EXCEPT ![w] = s]
  /\ at' = [at EXCEPT ![w] = a]
-----------------------------------------------------------------------------
(* INIT, BRIDGE and RECV. *)

Callback(w, s) == at[w] = "cb" /\ state[w] = s

\* nng_ctx_recv on the socket of the bridge or of the broker.
Listen(w) == IF w \in Bridges THEN Goto(w, "BRIDGE", "bridge_ctx") ELSE Goto(w, "RECV", "ctx")

Stored(t) == t \in DOMAIN db_ret

Arrive(w, pk) ==
  /\ at[w] \in Waiting /\ pk \in (IF at[w] = "ctx" THEN Packets ELSE Remote)
  /\ Room(pk)
  /\ at' = [at EXCEPT ![w] = "cb"]
  /\ msg' = [msg EXCEPT ![w] = NewMsg]
  /\ refs' = [refs EXCEPT ![NewMsg] = 1]
  /\ pkt' = [pkt EXCEPT ![w] = pk]
  /\ UNCHANGED <<state, pipe_info, msg_ret, cnt, kept, wire, retv, histv>>

\* The connection to the remote broker is lost.
BridgeError(w) ==
  /\ at[w] = "bridge_ctx" /\ state[w] = "BRIDGE"
  /\ Goto(w, "RECV", "bridge_ctx")
  /\ UNCHANGED <<msg, pkt, pipe_info, msg_ret, cnt, msgsv, retv, histv>>

\* The command of a message from the remote broker is set from its type.
Bridge(w) ==
  /\ Callback(w, "BRIDGE")
  /\ Goto(w, "RECV", "cb")
  /\ pkt' = [pkt EXCEPT ![w].cmd = IF @ = "REMOTE" THEN "PUBLISH" ELSE @]
  /\ UNCHANGED <<msg, pipe_info, msg_ret, cnt, refs, kept, wire, retv, histv>>

\* DISCONNECT without a will: the work forgets the message and does not free it.
RecvDisconnect(w) ==
  /\ Callback(w, "RECV") /\ Cmd(w) = "DISCONNECT"
  /\ Goto(w, "RECV", "ctx")
  /\ forgotten' = forgotten \cup {msg[w]}
  /\ Release(w)
  /\ UNCHANGED <<pipe_info, msg_ret, cnt, msgsv, retv, raced>>

\* The CONNACK goes to the client, and a publication that tells of it is made.
RecvConnack(w) ==
  /\ Callback(w, "RECV") /\ Cmd(w) = "CONNACK"
  /\ msg' = [msg EXCEPT ![w] = NewMsg]
  /\ refs' = [Counted(Nil, One(msg[w])) EXCEPT ![NewMsg] = 1]
  /\ pkt' = [pkt EXCEPT ![w] = Sending]
  /\ UNCHANGED <<state, at, pipe_info, msg_ret, cnt, kept, wire, retv, histv>>

RecvOther(w) ==
  /\ Callback(w, "RECV")
  /\ Cmd(w) \notin Published \cup {"DISCONNECT", "CONNACK"}
  /\ Goto(w, "WAIT", "cb")
  /\ UNCHANGED <<msg, pkt, pipe_info, msg_ret, cnt, msgsv, retv, histv>>
-----------------------------------------------------------------------------
(* handle_pub. *)

Kept == MapThenSumSet(LAMBDA m : kept[m], Msgs)

\* decode_pub_message fails.
DecodeFails(w) ==
  /\ Callback(w, "RECV") /\ Cmd(w) \in Published
  /\ Goto(w, "WAIT", "cb")
  /\ pkt' = [pkt EXCEPT ![w] = Sending]
  /\ UNCHANGED <<msg, pipe_info, msg_ret, cnt, msgsv, retv, histv>>

\* Mutant: the first session takes over the reference of the work.
Search_Passes(w, S, n) ==
  /\ Callback(w, "RECV") /\ Cmd(w) \in Published
  /\ Kept + n <= MaxKept
  /\ at' = [at EXCEPT ![w] = "clone"]
  /\ pkt' = [pkt EXCEPT ![w].cmd = "PUBLISH"]
  /\ pipe_info' = [pipe_info EXCEPT ![w] = @ \o SetToSeq(S)]
  /\ cnt' = [cnt EXCEPT ![w] = n]
  /\ refs' = [refs EXCEPT ![msg[w]] = IF n > 0 THEN @ - 1 ELSE @]
  /\ kept' = [kept EXCEPT ![msg[w]] = @ + n]
  /\ UNCHANGED <<state, msg, msg_ret, wire, retv, histv>>

\* dbtree_find_clients_and_cache_msg: the session lists have the message before
\* its references are counted.
Search(w, S, n) ==
  /\ Callback(w, "RECV") /\ Cmd(w) \in Published
  /\ Kept + n <= MaxKept
  /\ at' = [at EXCEPT ![w] = "clone"]
  /\ pkt' = [pkt EXCEPT ![w].cmd = "PUBLISH"]
  /\ pipe_info' = [pipe_info EXCEPT ![w] = @ \o SetToSeq(S)]
  /\ cnt' = [cnt EXCEPT ![w] = n]
  /\ kept' = [kept EXCEPT ![msg[w]] = @ + n]
  /\ UNCHANGED <<state, msg, msg_ret, refs, wire, retv, histv>>

\* The references added: one for each of the cnt[w] sessions that keep the message;
\* for the k sessions of shared subscriptions one less than there are.
Clones(w, k) == [Nil EXCEPT ![msg[w]] = cnt[w] + IF k > 0 THEN k - 1 ELSE 0]

\* The message the topic had is freed.
Dropped(t) == IF Stored(t) THEN One(db_ret[t]) ELSE Nil

\* Mutant: the reference of the tree is not counted.
StoreRetained_NoClone(w, k) ==
  /\ ~locked
  /\ db_ret' = [t \in DOMAIN db_ret \cup {pkt[w].topic} |->
                 IF t = pkt[w].topic THEN msg[w] ELSE db_ret[t]]
  /\ Count(Clones(w, k), Dropped(pkt[w].topic))
  /\ UNCHANGED locked

StoreRetained(w, k) ==
  /\ ~locked
  /\ db_ret' = [t \in DOMAIN db_ret \cup {pkt[w].topic} |->
                 IF t = pkt[w].topic THEN msg[w] ELSE db_ret[t]]
  /\ Count([Clones(w, k) EXCEPT ![msg[w]] = @ + 1], Dropped(pkt[w].topic))
  /\ UNCHANGED locked

\* An empty payload clears the topic.  dbtree_delete_retain keeps the lock if the
\* topic has no node (and the tree is not empty).
ClearRetained(w, k) ==
  /\ ~locked
  /\ db_ret' = [t \in DOMAIN db_ret \ {pkt[w].topic} |-> db_ret[t]]
  /\ locked' = (db_ret # << >> /\ ~Stored(pkt[w].topic))
  /\ Count(Clones(w, k), Dropped(pkt[w].topic))

\* The message a retained publication frees, if a SUBSCRIBE has found it and not
\* yet counted its own reference.
Replaced(w) ==
  {m \in UNION {ToSet(msg_ret[v]) : v \in Works} :
     pkt[w].retain /\ Stored(pkt[w].topic) /\ db_ret[pkt[w].topic] = m}

\* The rest of handle_pub: the references are counted,
\* dbtree_find_shared_sub_clients finds k more sessions, one too few is counted for
\* them, and handle_pub_retain.
Retain(w, k) ==
  /\ at[w] = "clone" /\ Kept + k <= MaxKept
  /\ IF ~pkt[w].retain
     THEN Count(Clones(w, k), Nil) /\ UNCHANGED retv
     ELSE IF pkt[w].empty THEN ClearRetained(w, k) ELSE StoreRetained(w, k)
  /\ Goto(w, "WAIT", "cb")
  /\ cnt' = [cnt EXCEPT ![w] = 0]
  /\ kept' = [kept EXCEPT ![msg[w]] = @ + k]
  /\ pkt' = [pkt EXCEPT ![w] = Sending]
  /\ raced' = raced \cup Replaced(w) \cup (IF k > 0 THEN {msg[w]} ELSE {})
  /\ UNCHANGED <<msg, pipe_info, msg_ret, wire, forgotten>>
-----------------------------------------------------------------------------
(* WAIT. *)

\* An answer is allocated and sent by one work with the one reference it has: it is
\* not among Msgs.  PINGREQ and PUBREC are turned into their answers in place, the
\* packet of an UNSUBSCRIBE is freed.
Answer(w) ==
  /\ Callback(w, "WAIT") /\ Cmd(w) \in {"PINGREQ", "PUBREC", "UNSUBSCRIBE"}
  /\ Goto(w, "SEND", "cb")
  /\ Count(Nil, One(msg[w]))
  /\ Release(w)
  /\ UNCHANGED <<pipe_info, msg_ret, cnt, kept, wire, retv, histv>>

\* SUBSCRIBE: the packet is freed; found: the retained messages to send before the
\* SUBACK.
Subscribed(w, found) ==
  /\ Callback(w, "WAIT") /\ Cmd(w) = "SUBSCRIBE"
  /\ Goto(w, "WAIT", "sub_send")
  /\ msg_ret' = [msg_ret EXCEPT ![w] = SetToSeq(found)]
  /\ Count(Nil, One(msg[w]))
  /\ Release(w)
  /\ UNCHANGED <<pipe_info, cnt, kept, wire, retv, forgotten>>

\* A SUBSCRIBE to "#": the retained messages are found, not yet counted
\* (sub_ctx_handle).
Subscribe(w) ==
  /\ ~locked
  /\ Subscribed(w, Range(db_ret))
  /\ UNCHANGED raced

\* decode_sub_message fails: the broker goes on to send what the pointer msg_ret is
\* left from before.  It is null after a SUBSCRIBE that found nothing; otherwise the
\* vector has been freed, or the pointer was never set (alloc_work): anything may be
\* there.  The two cases are not told apart: nothing is among the outcomes of both.
SubFails(w) ==
  \E found \in Stale : Subscribed(w, found) /\ raced' = raced \cup found

\* nng_msg_clone and nng_ctx_send of the next retained message.
SubSend(w) ==
  /\ at[w] = "sub_send" /\ msg_ret[w] # <<>>
  /\ Count(One(Head(msg_ret[w])), Nil)
  /\ wire' = [wire EXCEPT ![Head(msg_ret[w])] = @ + 1]
  /\ msg_ret' = [msg_ret EXCEPT ![w] = Tail(@)]
  /\ UNCHANGED <<state, at, msg, pkt, pipe_info, cnt, kept, retv, histv>>

SubAck(w) ==
  /\ at[w] = "sub_send" /\ msg_ret[w] = <<>>
  /\ Goto(w, "SEND", "cb")
  /\ UNCHANGED <<msg, pkt, pipe_info, msg_ret, cnt, msgsv, retv, histv>>

\* PUBLISH without a subscriber.  A work of the bridge then waits on the socket of
\* the broker.
PubNone(w) ==
  /\ Callback(w, "WAIT") /\ Cmd(w) = "PUBLISH" /\ pipe_info[w] = <<>>
  /\ Goto(w, IF w \in Bridges THEN "BRIDGE" ELSE "RECV", "ctx")
  /\ Count(Nil, One(msg[w]))
  /\ Release(w)
  /\ UNCHANGED <<pipe_info, msg_ret, cnt, kept, wire, retv, histv>>

\* The same message is cloned and sent for every subscriber (encode_msg has
\* rewritten it once), then freed.
Sent(w) == wire' = [wire EXCEPT ![msg[w]] = @ + Len(pipe_info[w])]
           /\ Count([Nil EXCEPT ![msg[w]] = Len(pipe_info[w])], One(msg[w]))

PubSend(w) ==
  /\ Callback(w, "WAIT") /\ Cmd(w) = "PUBLISH" /\ pipe_info[w] # <<>>
  /\ Sent(w)
  /\ Goto(w, "SEND", "cb")
  /\ Release(w)
  /\ pipe_info' = [pipe_info EXCEPT ![w] = <<>>]
  /\ UNCHANGED <<msg_ret, cnt, kept, retv, histv>>

\* PUBACK, PUBREL, PUBCOMP and what the broker has nothing to do for.
WaitOther(w) ==
  /\ Callback(w, "WAIT")
  /\ Cmd(w) \notin {"PINGREQ", "PUBREC", "SUBSCRIBE", "UNSUBSCRIBE", "PUBLISH"}
  /\ Goto(w, "RECV", "ctx")
  /\ Count(Nil, One(msg[w]))
  /\ Release(w)
  /\ UNCHANGED <<pipe_info, msg_ret, cnt, kept, wire, retv, histv>>

\* Mutant: the state is not changed before the callback is called again.
Send_Again(w) ==
  /\ Callback(w, "SEND")
  /\ pipe_info' = [pipe_info EXCEPT ![w] = <<>>]
  /\ Release(w)
  /\ UNCHANGED <<state, at, msg_ret, cnt, msgsv, retv, histv>>

Send(w) ==
  /\ Callback(w, "SEND")
  /\ Listen(w)
  /\ pipe_info' = [pipe_info EXCEPT ![w] = <<>>]
  /\ Release(w)
  /\ UNCHANGED <<msg_ret, cnt, msgsv, retv, histv>>
-----------------------------------------------------------------------------
(* The transport. *)

\* handle_pub has put the message into session lists and not counted it.
Counting(m) == \E w \in Works : msg[w] = m /\ at[w] = "clone"

\* A packet is written, and the reference dropped.
Written(m) ==
  /\ wire[m] > 0
  /\ wire' = [wire EXCEPT ![m] = @ - 1]
  /\ Count(Nil, One(m))
  /\ UNCHANGED <<worksv, kept, retv, histv>>

\* A client is back and its messages are taken from the session list, perhaps
\* before handle_pub has counted them.
Taken(m) ==
  /\ kept[m] > 0
  /\ kept' = [kept EXCEPT ![m] = @ - 1]
  /\ wire' = [wire EXCEPT ![m] = @ + 1]
  /\ raced' = raced \cup (IF Counting(m) THEN {m} ELSE {})
  /\ UNCHANGED <<worksv, refs, retv, forgotten>>
-----------------------------------------------------------------------------
WorkStep(w) ==
  \/ Bridge(w)
  \/ RecvDisconnect(w) \/ RecvConnack(w) \/ RecvOther(w)
  \/ DecodeFails(w)
  \/ \E S \in Found, n \in 0 .. MaxKept : Search(w, S, n)
  \/ \E k \in 0 .. MaxKept : Retain(w, k)
  \/ Answer(w) \/ Subscribe(w) \/ SubFails(w) \/ SubSend(w) \/ SubAck(w)
  \/ PubNone(w) \/ PubSend(w) \/ WaitOther(w) \/ Send(w)

Next ==
  \/ \E w \in Works : \/ \E pk \in Packets \cup Remote : Arrive(w, pk)
                      \/ BridgeError(w)
                      \/ WorkStep(w)
  \/ \E m \in Msgs : Written(m) \/ Taken(m)

\* A callback runs to its end.
Spec == Init /\ [][Next]_vars /\ \A w \in Works : WF_vars(WorkStep(w))
-----------------------------------------------------------------------------
\* The pointers to message m that own a reference.
Holders(m) ==
  Cardinality({w \in Works : msg[w] = m})
    + Cardinality({t \in DOMAIN db_ret : db_ret[t] = m}) + kept[m] + wire[m]

\* Outside handle_pub a message has as many references as there are pointers to
\* it, in works, in the tree of retained messages, in session lists and in the
\* transport, and one more if it is the packet of a DISCONNECT, which no one frees:
\* it is freed with the last of them and leaks nowhere else (nng_msg_clone and
\* nng_msg_free in server_cb, handle_pub and handle_pub_retain).  Excepted are the
\* messages of NoEarlyFree.
RefsExact ==
  \A m \in Msgs \ raced :
    ~Counting(m) => refs[m] = Holders(m) + (IF m \in forgotten THEN 1 ELSE 0)

InUse(m) == Holders(m) > 0 \/ \E w \in Works : m \in ToSet(msg_ret[w])

\* No work, no list and no tree points to a message that has been freed, except to
\* the messages in `raced', which four defects of the code may free early: the client
\* of a session takes the message before handle_pub has counted it (pub_handler.c:116,
\* run worker_freed), it is kept for a session of a shared subscription (136), it is
\* replaced as retained message while a SUBSCRIBE is to send it (broker.c:347), or a
\* SUBSCRIBE that was not decoded sends it (broker.c:341).
NoEarlyFree == \A m \in Msgs \ raced : InUse(m) => refs[m] > 0


\* Every work that has taken a packet comes back to wait for the next, whatever
\* clients and the other works do, unless one of them has kept the lock of the
\* retained messages (dbtree_delete_retain does, for a topic without a node).
WorksReturn == \A w \in Works : at[w] \notin Waiting ~> at[w] \in Waiting \/ locked
=============================================================================
