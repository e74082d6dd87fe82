---------------------------- MODULE PacketFlow ----------------------------
(***************************************************************************)
(* The packets of one client through the broker, from the bytes that       *)
(* arrive to the bytes that are sent: handle_pub with the tree of retained *)
(* messages, the subscription handlers, and the bridge's choice of what to *)
(* forward.  One packet at a time; works at the same time are in Worker.   *)
(***************************************************************************)
EXTENDS TreeOps, Packets

CONSTANTS Inputs,     \* the packets: see MCPacketFlow for how they are made
          LevelName,  \* the name TreeOps has for a level, from its bytes
          Forwards,   \* bridge.mqtt.forwards, as bytes
          Properties, \* what memory may hold where properties are expected,
          Garbage,    \* behind a packet, and where a vector was freed
          NoPacket

VARIABLES db_ret,   \* the tree of retained messages; a message is its payload
          locked,   \* its lock has not been given back
          in,       \* the packet taken: [m, what], what it says or NoPacket if it
                    \* is to be refused
          pkt,      \* the structure decoded
          out,      \* [m]: the packet sent, NoPacket if there is none
          found,    \* the retained messages sent
          forward   \* whether the publication goes to the remote broker

vars == <<db_ret, locked, in, pkt, out, found, forward>>

Levels(s) == [i \in 1 .. topic_count(s) |-> LevelName[topic_parse(s)[i]]]

Init ==
  /\ db_ret = [p \in {<<>>} |-> dbtree_node_new]
  /\ locked = FALSE
  /\ in = NoPacket /\ pkt = NoPacket /\ out = NoPacket
  /\ found = <<>>
  /\ forward = FALSE

\* The works are done with the last packet.
Idle == in = NoPacket

Receive(x) ==
  /\ Idle
  /\ in' = x
  /\ UNCHANGED <<db_ret, locked, pkt, out, found, forward>>

Finish ==
  /\ out # NoPacket
  /\ in' = NoPacket /\ pkt' = NoPacket /\ out' = NoPacket /\ found' = <<>> /\ forward' = FALSE
  /\ UNCHANGED <<db_ret, locked>>

Taken(cmd) == ~Idle /\ in.m.cmd = cmd /\ pkt = NoPacket
-----------------------------------------------------------------------------
\* The work waits for the lock.
handle_pub_retain(p) ==
  LET cleared == dbtree_delete_retain(db_ret, Levels(p.topic)) IN
  IF p.retain = 0 THEN UNCHANGED <<db_ret, locked>>
  ELSE /\ ~locked
       /\ db_ret' = IF p.payload = <<>> THEN cleared.t
                    ELSE dbtree_insert_retain(db_ret, Levels(p.topic), p.payload).t
       /\ locked' = (p.payload = <<>> /\ cleared.locked)

\* RECV: decode, retain, forward.  A packet that was not decoded may be forwarded.
handle_pub ==
  LET p == decode_pub_message(in.m) IN
  /\ Taken("PUBLISH")
  /\ pkt' = p
  /\ IF p.rc = SUCCESS THEN handle_pub_retain(p) ELSE UNCHANGED <<db_ret, locked>>
  /\ forward' = \E f \in Forwards : topic_filter(f, p.topic)
  /\ UNCHANGED <<in, out, found>>

\* WAIT: the message for the subscribers, who are there when it was decoded.
Send(properties) ==
  /\ ~Idle /\ in.m.cmd = "PUBLISH" /\ pkt # NoPacket /\ out = NoPacket
  /\ out' = IF pkt.rc = SUCCESS
            THEN [m |-> encode_pub_message(pkt, in.m.proto, 0, properties)]
            ELSE [m |-> NoPacket]
  /\ UNCHANGED <<db_ret, locked, in, pkt, found, forward>>

\* SUBSCRIBE: the retained messages of every filter, then the SUBACK.
Subscribe ==
  LET p == decode_sub_message(in.m) IN
  /\ Taken("SUBSCRIBE") /\ p.rc = SUCCESS /\ ~locked
  /\ pkt' = p
  /\ \E failed \in SUBSET DOMAIN p.topics :
       out' = [m |-> encode_suback_message(p, in.m.proto, failed)]
  /\ found' = FlattenSeq([i \in DOMAIN p.topics |->
                            dbtree_find_retain(db_ret, Levels(p.topics[i].filter))])
  /\ UNCHANGED <<db_ret, locked, in, forward>>

\* What the vector of an earlier SUBSCRIBE held may be sent (SubFails of Worker), and
\* the SUBACK is sent as it was allocated.
SubscribeFails ==
  /\ Taken("SUBSCRIBE") /\ decode_sub_message(in.m).rc # SUCCESS
  /\ pkt' = decode_sub_message(in.m)
  /\ out' = [m |-> [cmd |-> "SUBACK", remain |-> 0, body |-> <<>>]]
  /\ found' \in {<<>>} \cup {<<x>> : x \in Garbage}
  /\ UNCHANGED <<db_ret, locked, in, forward>>

Unsubscribe(beyond) ==
  LET p == decode_unsub_message(in.m, beyond) IN
  /\ Taken("UNSUBSCRIBE")
  /\ pkt' = p
  /\ out' = [m |-> encode_unsuback_message(p)]
  /\ UNCHANGED <<db_ret, locked, in, found, forward>>

\* packet_parser.c: a number is written and read.
Number ==
  LET n == in.what IN
  /\ Taken("NUMBER")
  /\ pkt' = [u16 |-> packet_parse_uint16(packet_write_uint16(n % 2^16)),
             u32 |-> packet_parse_uint32(packet_write_uint32(n)),
             var |-> packet_parse_var(packet_write_var(n))]
  /\ out' = [m |-> NoPacket]
  /\ UNCHANGED <<db_ret, locked, in, found, forward>>

Next ==
  \/ \E x \in Inputs : Receive(x)
  \/ handle_pub
  \/ \E properties \in Properties : Send(properties)
  \/ Subscribe \/ SubscribeFails
  \/ \E beyond \in Garbage : Unsubscribe(beyond)
  \/ Number \/ Finish

Spec == Init /\ [][Next]_vars
-----------------------------------------------------------------------------
Done(cmd) == out # NoPacket /\ in.m.cmd = cmd

\* What a subscriber gets is what was published.  Of a client of protocol 3.1.1,
\* byte for byte (encode_pub_message puts together again what decode_pub_message
\* took apart) with the DUP flag cleared and the remaining length right; of one of
\* protocol 5, that the broker reads as 3.1.1, at least topic and identifier first
\* and payload last.  A topic with a wildcard is not published.
PublishSame ==
  Done("PUBLISH") =>
    LET m == in.m
    IN  IF in.what = NoPacket THEN out.m = NoPacket
        ELSE /\ pkt.topic = in.what
             /\ m.proto # 5 => out.m = [cmd |-> "PUBLISH", dup |-> 0, qos |-> m.qos,
                                        retain |-> m.retain, remain |-> Len(m.body), body |-> m.body]
             /\ IsPrefix(PublishHead(pkt), out.m.body) /\ IsSuffix(pkt.payload, out.m.body)

\* The filters a SUBSCRIBE or UNSUBSCRIBE names are handled, all of them and in
\* their order; a SUBACK of protocol 3.1.1 has a code for each, its QoS or failure,
\* and the remaining length is that of the body.  A SUBSCRIBE that cannot be decoded
\* is answered all the same, with a SUBACK that is empty; with an UNSUBSCRIBE of
\* protocol 5 filters are removed that it does not name, after those it does.
AnswerFits ==
  /\ Done("SUBSCRIBE") =>
       /\ out.m.remain = Len(out.m.body)
       /\ IF in.what = NoPacket THEN out.m.body = <<>>
          ELSE /\ pkt.topics = in.what
               /\ SubSeq(out.m.body, 1, 2) = SubSeq(in.m.body, 1, 2)
               /\ in.m.proto # 5 =>
                    /\ Len(out.m.body) = 2 + Len(in.what)
                    /\ \A i \in DOMAIN in.what : out.m.body[2 + i] \in {in.what[i].qos, 128}
  /\ Done("UNSUBSCRIBE") =>
       /\ IsPrefix(in.what, pkt.topics)
       /\ in.m.proto # 5 => pkt.topics = in.what
       /\ SubSeq(out.m.body, 1, 2) = SubSeq(in.m.body, 1, 2)
       /\ out.m.remain = Len(out.m.body)

\* A number is read as it was written, in every format and at every length.
NumbersBack ==
  Done("NUMBER") =>
    pkt = [u16 |-> in.what % 2^16, u32 |-> in.what, var |-> in.what]

Retained == {p \in DOMAIN db_ret : db_ret[p].retain # NoCtxt}

\* How often each value is there.
CountOf(f) == [v \in Range(f) |-> Cardinality({i \in DOMAIN f : f[i] = v})]

\* The filters and topics that match in a SUBSCRIBE.
RetainHitsOf == {x \in (DOMAIN in.what) \X Retained : Matches(Levels(in.what[x[1]].filter), x[2])}

\* A filter with "#" below "+": of the branches it leads to, collect_retains follows
\* one (it leaves its loop after the first node with children, mqtt_db.c:1602).
OneBranch(f) == PLUS \in ToSet(f) /\ WELL \in ToSet(f)

\* A SUBSCRIBE is answered with the retained messages of exactly the topics its
\* filters match, once for every filter that does (sub_ctx_handle,
\* dbtree_find_retain); with "#" below "+" some may be missing (run retain_branch),
\* but none is wrong.
RetainFound ==
  Done("SUBSCRIBE") /\ in.what # NoPacket =>
    LET hits == [x \in RetainHitsOf |-> db_ret[x[2]].retain]
    IN  IF \E i \in DOMAIN in.what : OneBranch(Levels(in.what[i].filter))
        THEN Range(found) \subseteq Range(hits)
        ELSE CountOf(found) = CountOf(hits)

\* "Get all retain message to this topic" (mqtt_db.h:259), whatever the filter.
RetainFoundAll ==
  Done("SUBSCRIBE") /\ in.what # NoPacket =>
    {db_ret[x[2]].retain : x \in RetainHitsOf} \subseteq Range(found)

\* Clearing leaves no dead branch: every node leads to a retained message.
RetainPruned ==
  \A p \in DOMAIN db_ret \ {<<>>} : db_ret[p].child # <<>> \/ db_ret[p].retain # NoCtxt

\* A publication the MQTT rules match with a forward of the bridge is forwarded
\* ("Topics that need to be forward", etc/nanomq_bridge.conf:60; topic_filter), if
\* its topic has no empty level.
Forwarded ==
  Done("PUBLISH") /\ out.m # NoPacket =>
    \A f \in Forwards : Matches(Levels(f), Levels(pkt.topic))
                          /\ <<>> \notin ToSet(topic_parse(pkt.topic)) => forward

Stores == {x \in Inputs : x.m.cmd = "PUBLISH" /\ x.m.retain = 1 /\ x.what # NoPacket}

\* The topic and message of a retained publication that has been handled.
RetainDone ==
  IF pkt = NoPacket \/ in \notin Stores THEN << >>
  ELSE IF pkt.payload = <<>> THEN <<Levels(pkt.topic)>>
  ELSE <<Levels(pkt.topic), pkt.payload>>

\* The tree is a map from topics to messages (module RetainMap): a retained
\* publication replaces or removes the message of its own topic and no other, for
\* every order of publications, clears of topics that have no message included
\* (handle_pub_retain, search_insert_node, dbtree_delete_retain, delete_dbtree_node).
\* Topics of which none is a prefix of another: otherwise search_insert_node takes
\* the wrong node (run db_tree_nested), and clearing "a/b" frees the node of "a" with
\* the message it holds (mqtt_db.c:1234).
Map == INSTANCE RetainMap
         WITH RetainTopics <- {Levels(x.what) : x \in Stores},
              Values <- {decode_pub_message(x.m).payload : x \in Stores},
              map <- [p \in Retained |-> db_ret[p].retain],
              done <- RetainDone
RetainIsMap == Map!Spec
=============================================================================
