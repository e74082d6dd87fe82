------------------------------ MODULE Packets ------------------------------
(***************************************************************************)
(* What the broker reads from packets and writes into them: PUBLISH        *)
(* (pub_handler.c), SUBSCRIBE and UNSUBSCRIBE and their answers            *)
(* (sub_handler.c, unsub_handler.c), numbers (packet_parser.c), the levels *)
(* of a topic (mqtt_db.c) and the filters of the bridge (bridge.c).        *)
(*                                                                         *)
(* A packet is a record of its fixed header, `remain' its remaining        *)
(* length, and its body, a sequence of bytes; a position counts from 0.    *)
(***************************************************************************)
EXTENDS Integers, Sequences, SequencesExt

CONSTANTS Slash, Plus, Hash   \* the bytes of '/', '+' and '#'

SUCCESS == "SUCCESS"
PROTOCOL_ERROR == "PROTOCOL_ERROR"
Failed == [rc |-> PROTOCOL_ERROR]

NNI_GET16(b, i) == b[i + 1] * 256 + b[i + 2]
NNI_PUT16(n) == <<n \div 256, n % 256>>
Bytes(b, i, n) == SubSeq(b, i + 1, i + n)
From(b, i) == SubSeq(b, i + 1, Len(b))
-----------------------------------------------------------------------------
(* Numbers. *)

packet_write_uint16(n) == NNI_PUT16(n)
packet_parse_uint16(b) == b[1] * 2^8 + b[2]

packet_write_uint32(n) ==
  <<n \div 2^24, (n \div 2^16) % 2^8, (n \div 2^8) % 2^8, n % 2^8>>

\* A first byte that is not 0 is shifted until it is the highest.
packet_parse_uint32(b) ==
  LET Shift[res \in Nat, i \in Nat] ==
        IF res >= 2^24 THEN res ELSE Shift[res * 2^8 + b[i], i + 1]
  IN  IF b[1] # 0 THEN Shift[b[1], 2] ELSE b[2] * 2^16 + b[3] * 2^8 + b[4]

packet_write_var(n) ==
  LET Rest[m \in Nat] ==
        IF m \div 128 = 0 THEN <<m>> ELSE <<(m % 128) + 128>> \o Rest[m \div 128]
  IN  Rest[n]

\* Mutant: at most four bytes are read.
packet_parse_var_Four(b) ==
  LET Sum[i \in Nat] ==
        (b[i] % 128) * 128^(i - 1) + (IF b[i] >= 128 /\ i < 4 THEN Sum[i + 1] ELSE 0)
  IN  Sum[1]

\* Up to five bytes.  (Numbers stay below 2^31, where 32 bits do not wrap.)
packet_parse_var(b) ==
  LET Sum[i \in Nat] ==
        (b[i] % 128) * 128^(i - 1) + (IF b[i] >= 128 /\ i < 5 THEN Sum[i + 1] ELSE 0)
  IN  Sum[1]
-----------------------------------------------------------------------------
(* Topics. *)

Positions(s, c) == SelectSeq([i \in 1 .. Len(s) |-> i], LAMBDA i : s[i] = c)

topic_count(s) == Len(Positions(s, Slash)) + 1

\* The pieces between the slashes, empty ones too.
topic_parse(s) ==
  LET cut == <<0>> \o Positions(s, Slash) \o <<Len(s) + 1>>
  IN  [i \in 1 .. topic_count(s) |-> SubSeq(s, cut[i] + 1, cut[i + 1] - 1)]

\* Mutant: "+" only stands for itself.
TokenFits_NoPlus(f, t) == f \in {t, <<Hash>>}

TokenFits(f, t) == f \in {t, <<Plus>>, <<Hash>>}

\* A filter of the bridge: the pieces strtok finds (none is empty) are compared
\* as long as both have one.
topic_filter(origin, input) ==
  LET o == SelectSeq(topic_parse(origin), LAMBDA x : x # <<>>)
      t == SelectSeq(topic_parse(input), LAMBDA x : x # <<>>)
      n == IF Len(o) < Len(t) THEN Len(o) ELSE Len(t)
  IN  \/ origin = input
      \/ \A k \in 1 .. n : TokenFits(o[k], t[k]) \/ \E j \in 1 .. k - 1 : o[j] = <<Hash>>
-----------------------------------------------------------------------------
(* PUBLISH. *)

\* decode_pub_message.  The protocol is taken for 4, whatever the client's.  A topic
\* with a wildcard is stored before the packet is refused.
decode_pub_message(m) ==
  LET len == NNI_GET16(m.body, 0)
      topic == Bytes(m.body, 2, len)
      pos == 2 + len + (IF m.qos > 0 THEN 2 ELSE 0)
  IN  IF m.remain > Len(m.body) \/ Plus \in ToSet(topic) \/ Hash \in ToSet(topic)
      THEN [rc |-> PROTOCOL_ERROR, topic |-> topic]
      ELSE [rc |-> SUCCESS, dup |-> m.dup, qos |-> m.qos, retain |-> m.retain,
            remain |-> m.remain, topic |-> topic,
            id |-> IF m.qos > 0 THEN NNI_GET16(m.body, 2 + len) ELSE 0,
            payload |-> From(m.body, pos)]

\* Mutant: the identifier is left out.
PublishHead_NoId(p) == IF p.topic = <<>> THEN <<>> ELSE NNI_PUT16(Len(p.topic)) \o p.topic

\* The variable header: an empty topic has no length either.
PublishHead(p) ==
  (IF p.topic = <<>> THEN <<>> ELSE NNI_PUT16(Len(p.topic)) \o p.topic)
    \o (IF p.qos > 0 THEN NNI_PUT16(p.id) ELSE <<>>)

\* encode_pub_message for PUBLISH, from what was decoded; the QoS of the
\* subscription is not used.  After a client of protocol 5 come the properties
\* decode_pub_message has not read: their length is 0, and which ones follow is
\* what the memory happens to say.
encode_pub_message(p, proto, dup, properties) ==
  [cmd |-> "PUBLISH", dup |-> dup, qos |-> p.qos, retain |-> p.retain, remain |-> p.remain,
   body |-> PublishHead(p) \o (IF proto = 5 THEN <<0>> \o properties ELSE <<>>) \o p.payload]
-----------------------------------------------------------------------------
(* SUBSCRIBE and UNSUBSCRIBE.  nng_msg_payload_ptr (outside src/) is the     *)
(* position m.payload of the first filter.                                  *)

\* Where the properties of protocol 5 end.  After its type, a user property (38) has
\* two strings.  A subscription identifier (11), of which there is one, is taken to be
\* a byte longer than it is: get_var_integer starts from the length it left before.
PropertiesEnd(m) ==
  LET len == m.body[3]
      StringEnd(v) == v + 2 + NNI_GET16(m.body, v)
      Walk[v \in Nat] ==
        LET next == IF m.body[v + 1] = 11 THEN v + 1 + 2
                    ELSE IF m.body[v + 1] = 38 THEN StringEnd(StringEnd(v + 1))
                    ELSE v + 1
        IN  IF next >= 3 + len THEN next ELSE Walk[next]
  IN  IF m.proto # 5 THEN 2 ELSE IF len = 0 THEN 3 ELSE Walk[3]

\* Mutant: the last filter is not read.
More_Early(m, b) == b + 6 < m.remain - PropertiesEnd(m)

\* Whether there is a filter at position b of the payload.
More(m, b) == b < m.remain - PropertiesEnd(m)

\* One filter and its options: QoS, and how retained messages are handled.
SubTopic(m, b) ==
  LET len == NNI_GET16(m.body, m.payload + b)
      opt == m.body[m.payload + b + 2 + len + 1]
  IN  [filter |-> Bytes(m.body, m.payload + b + 2, len), qos |-> opt % 4,
       handling |-> (opt \div 16) % 4, next |-> b + 2 + len + 1]

decode_sub_message(m) ==
  LET Topics[b \in Nat] ==
        LET t == SubTopic(m, b)
        IN  IF More(m, t.next) THEN <<t>> \o Topics[t.next] ELSE <<t>>
      all == Topics[0]
  IN  IF \E i \in DOMAIN all : all[i].filter = <<>> \/ all[i].handling > 2 THEN Failed
      ELSE [rc |-> SUCCESS, id |-> NNI_GET16(m.body, 0),
            topics |-> [i \in DOMAIN all |-> [filter |-> all[i].filter, qos |-> all[i].qos]]]

\* encode_suback_message: a code per filter, none for protocol 5.  The reason_code
\* of a filter is never set: `failed' are those whose memory happens to say 0x80.
encode_suback_message(p, proto, failed) ==
  LET codes == [i \in DOMAIN p.topics |-> IF i \in failed THEN 128 ELSE p.topics[i].qos]
      body == NNI_PUT16(p.id) \o (IF proto = 5 THEN <<0>> ELSE codes)
  IN  [cmd |-> "SUBACK", remain |-> Len(body), body |-> body]

\* decode_unsub_message.  unsub_handler.c is compiled without SUPPORT_MQTT5_0: the
\* properties of protocol 5 are not counted, and after the last filter one more is
\* read from what follows the packet in memory.
decode_unsub_message(m, beyond) ==
  LET b == m.body \o beyond
      Topics[i \in Nat] ==
        LET next == i + 2 + NNI_GET16(b, m.payload + i)
        IN  <<Bytes(b, m.payload + i + 2, next - i - 2)>>
              \o (IF next < m.remain - 2 THEN Topics[next] ELSE <<>>)
  IN  [rc |-> SUCCESS, id |-> NNI_GET16(b, 0), topics |-> Topics[0]]

encode_unsuback_message(p) ==
  LET body == NNI_PUT16(p.id) IN [cmd |-> "UNSUBACK", remain |-> Len(body), body |-> body]
=============================================================================
