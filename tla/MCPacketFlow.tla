---------------------------- MODULE MCPacketFlow ----------------------------
(***************************************************************************)
(* The packets clients make, written as MQTT says, for PacketFlow.         *)
(***************************************************************************)
EXTENDS PacketFlow

A == <<97>>
B == <<98>>
C == <<99>>
P == <<43>>
H == <<35>>
S == <<47>>

Names == [x \in {<<>>, A, B, C, P, H} |->
            CASE x = <<>> -> "" [] x = A -> "a" [] x = B -> "b" [] x = C -> "c"
              [] x = P -> "+" [] x = H -> "#"]
LevelRank == [x \in {"", "#", "+", "a", "b", "c", "$share"} |->
                CASE x = "" -> 0 [] x = "#" -> 1 [] x = "$share" -> 2 [] x = "+" -> 3
                  [] x = "a" -> 4 [] x = "b" -> 5 [] x = "c" -> 6]

String(s) == NNI_PUT16(Len(s)) \o s

\* v: what the topic stands for, NoPacket for a refusal.
Pub(s, qos, dup, retain, id, payload, proto, v) ==
  LET body == String(s) \o (IF qos > 0 THEN NNI_PUT16(id) ELSE <<>>)
                \o (IF proto = 5 THEN <<0>> ELSE <<>>) \o payload
  IN  [m |-> [cmd |-> "PUBLISH", qos |-> qos, dup |-> dup, retain |-> retain,
              remain |-> Len(body), body |-> body, proto |-> proto],
       what |-> v]

Option(t, handling) == String(t.filter) \o <<t.qos + 16 * handling>>

Sub(id, ts, proto, props, handling, v) ==
  LET head == NNI_PUT16(id) \o (IF proto = 5 THEN <<Len(props)>> \o props ELSE <<>>)
      body == head \o FlattenSeq([i \in DOMAIN ts |-> Option(ts[i], handling)])
  IN  [m |-> [cmd |-> "SUBSCRIBE", remain |-> Len(body), body |-> body, proto |-> proto,
              payload |-> Len(head)],
       what |-> v]

Unsub(id, fs, proto) ==
  LET head == NNI_PUT16(id) \o (IF proto = 5 THEN <<0>> ELSE <<>>)
      body == head \o FlattenSeq([i \in DOMAIN fs |-> String(fs[i])])
  IN  [m |-> [cmd |-> "UNSUBSCRIBE", remain |-> Len(body), body |-> body, proto |-> proto,
              payload |-> Len(head)],
       what |-> fs]

Topics == {A \o S \o B, A \o S \o C, S \o B, C, B \o S \o A \o S \o C}
AllFilters == {H, P, B \o S \o H, P \o S \o P \o S \o C, P \o S \o B, P \o S \o H, A \o S \o H, A \o S \o P, S \o P, C}

Publications ==
  {Pub(s, 1, 0, 1, 9, p, 4, s) : s \in Topics, p \in {<<>>, <<7>>, <<8>>}}
    \cup {Pub(s, q, d, 0, i, [k \in 1 .. n |-> 47], v, s) :
            s \in {C, A \o S \o S \o C}, q \in {0, 2}, d \in {0, 1}, i \in {258, 65535}, n \in {0, 300}, v \in {4, 5}}
    \cup {Pub(s, 0, 0, r, 0, <<7>>, 4, NoPacket) : s \in {H, A \o S \o P}, r \in {0, 1}}

Entry(f, q) == [filter |-> f, qos |-> q]
Lists == {<<Entry(f, 2)>> : f \in AllFilters} \cup
         { <<Entry(H, 0), Entry(A \o S \o P, 1)>>,
          <<Entry(C, 1), Entry(C \o S \o H, 2), Entry(S \o P, 0)>>}

Subscriptions ==
  {Sub(i, ts, 4, <<>>, 0, ts) : i \in {1, 258}, ts \in Lists}
    \cup {Sub(i, ts, 5, props, 2, ts) : i \in {1, 258}, ts \in Lists,
                                    props \in {<<>>, <<11, 5>>, <<38, 0, 1, 97, 0, 0, 11, 5>>}}
    \cup {Sub(1, <<Entry(A, 1)>>, 4, <<>>, 3, NoPacket), Sub(1, <<Entry(<<>>, 1)>>, 4, <<>>, 0, NoPacket)}

Unsubscriptions ==
  {Unsub(i, fs, 4) : i \in {1, 258}, fs \in {<<A>>, <<H, A \o S \o P, C>>}}
    \cup {Unsub(7, <<A, C>>, 5)}

Numbers == {0, 1, 127, 128, 255, 256, 16383, 16384, 65535, 65536, 2097151, 2097152,
            16777215, 16777216, 268435455, 268435456, 2147483647}

AllInputs == Publications \cup Subscriptions \cup Unsubscriptions
               \cup {[m |-> [cmd |-> "NUMBER"], what |-> n] : n \in Numbers}

Memory == {<<>>, <<1, 0>>}
Beyond == {<<0, 0>>, <<0, 1, 97>>}
Null == <<>>

\* Three topics in two branches, and what finds them.
BranchInputs ==
  {x \in Publications : x.m.retain = 1 /\ x.what \in {A \o S \o B, A \o S \o C, B \o S \o A \o S \o C}}
    \cup {Sub(1, <<Entry(f, 0)>>, 4, <<>>, 0, <<Entry(f, 0)>>) : f \in {H, A \o S \o H, P \o S \o H}}

BridgeForwards == {C \o S \o H, P \o S \o C, A \o S \o B}
=============================================================================
