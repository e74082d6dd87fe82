------------------------------ MODULE Session ------------------------------
(***************************************************************************)
(* Subscriptions and sessions of the broker: the handlers of CONNACK,      *)
(* SUBSCRIBE, UNSUBSCRIBE and DISCONNECT_EV (broker.c, sub_handler.c,      *)
(* unsub_handler.c), the topic queues they keep per pipe and per absent    *)
(* client (hash.cc), the client contexts the topic tree points to, and     *)
(* the publications (pub_handler.c) that run on other threads meanwhile.   *)
(*                                                                         *)
(* The tree is the topic database of module TopicDb, which module DbTree   *)
(* implements: one step per call of it, as every call holds its lock.      *)
(* Topics have no wildcards.  A handler's local variables are in h[pipe],  *)
(* a publication's in pub[worker].  A pipe has one handler at a time.      *)
(***************************************************************************)
EXTENDS TopicSets, SessionMsgs

CONSTANTS Clients,   \* client ids, as their hashes (the session ids)
          Topics,
          Packets,   \* the topic lists of SUBSCRIBE packets
          MaxPid,    \* bound on the connections
          CtxIds,    \* memory for contexts
          Workers,   \* the threads that publish
          MaxPubs,   \* bound on the publications
          Allow,     \* what the environment may do, see the actions
          None       \* no context, no entry in a hash

VARIABLES
  subs, sess,        \* the topic database: <<topic, pipe or session id, context>>
  topic_hash,        \* pipe -> topic queue, None when the key is absent
  cached_topic_hash, \* session id -> topic queue, None when the key is absent
  ctx,               \* the contexts: live, pid and the topics of sub_pkt
  session_msg_list,  \* the messages kept for absent clients
  owner, clean,      \* pipe -> its client and its clean_start
  conn,              \* client -> the pipe it is connected by, 0 when it is not
  h,                 \* pipe -> its handler
  pub, npub,         \* worker -> its publication, number of publications so far
  subscribed,        \* client -> the topics it has been acknowledged
  received,          \* client -> the messages under way it got
  broken             \* clients with a SUBSCRIBE that could not be decoded

hashes == <<topic_hash, cached_topic_hash>>
pipes  == <<owner, clean, conn>>
pubs   == <<session_msg_list, pub, npub, received>>
ghosts == <<subscribed, broken>>
vars   == <<subs, sess, hashes, ctx, pipes, h, pubs, ghosts>>

Pids == 1 .. MaxPid
Unassigned == "unassigned"   \* a pointer no statement has written yet
NoCtx == [live |-> FALSE, pid |-> 0, topics |-> {}]
Idle == [pc |-> "idle", todo |-> <<>>, ctx |-> None]
NoPub == [pc |-> "idle"]

Init ==
  /\ subs = {} /\ sess = {}
  /\ topic_hash = [p \in Pids |-> None]
  /\ cached_topic_hash = [c \in Clients |-> None]
  /\ ctx = [x \in CtxIds |-> NoCtx]
  /\ session_msg_list = <<>>
  /\ owner = [p \in Pids |-> 0]
  /\ clean = [p \in Pids |-> FALSE]
  /\ conn = [c \in Clients |-> 0]
  /\ h = [p \in Pids |-> Idle]
  /\ pub = [w \in Workers |-> NoPub] /\ npub = 0
  /\ subscribed = [c \in Clients |-> {}]
  /\ received = [c \in Clients |-> {}]
  /\ broken = {}
-----------------------------------------------------------------------------
(* hash.cc and the contexts. *)

\* get_topic, like every use of operator[]: a missing key gets an empty queue.
Queue(hash, id) == IF hash[id] = None THEN <<>> ELSE hash[id]

\* A new topic goes second.
add_topic(q, t) == IF q = <<>> THEN <<t>> ELSE <<Head(q), t>> \o Tail(q)

\* Mutant: the queue is not changed.
del_topic_one_Nothing(q, t) == q

\* The key goes with the last topic.
del_topic_one(q, t) == IF q = <<t>> THEN None ELSE SelectSeq(q, LAMBDA x : x # t)

\* Mutant: the context is freed with the first of its topics.
del_sub_ctx_Frees(cs, x, t) == IF x = None THEN cs ELSE [cs EXCEPT ![x] = NoCtx]

\* The context is freed with the last of its topics.
del_sub_ctx(cs, x, t) ==
  IF x = None THEN cs
  ELSE [cs EXCEPT ![x] = IF @.topics \subseteq {t} THEN NoCtx
                         ELSE [@ EXCEPT !.topics = @ \ {t}]]

\* cli_ctx_merge, after the pid of the packet is written to the stored context.
cli_ctx_merge(cs, x, p, ts) ==
  [cs EXCEPT ![x] = [live |-> TRUE, pid |-> p, topics |-> @.topics \cup ts]]

NewCtx == CHOOSE x \in CtxIds : ~ctx[x].live

\* Client c is in motion: publications under way no longer count on it.
Stirs(c) ==
  pub' = [w \in Workers |-> IF pub[w] = NoPub THEN NoPub
                            ELSE [pub[w] EXCEPT !.steady = @ \ {c}]]

Begin(p, pc, todo) ==
  /\ h[p] = Idle
  /\ h' = [h EXCEPT ![p] = [pc |-> pc, todo |-> todo, ctx |-> None]]
  /\ Stirs(owner[p])
  /\ UNCHANGED <<session_msg_list, npub, received>>

Online(p) == owner[p] # 0 /\ conn[owner[p]] = p
Sane(p) == Online(p) /\ owner[p] \notin broken
-----------------------------------------------------------------------------
(* CONNACK: restore_session, whatever clean_start says. *)

PipesOf(c) == {p \in Pids : owner[p] = c}
Pending(c) == \E p \in PipesOf(c) : h[p] # Idle

\* A client connects once its previous pipe has been dealt with, unless Allow has
\* "takeover".
Connect(c, cs) ==
  LET p == 1 + Cardinality({q \in Pids : owner[q] # 0}) IN
  /\ conn[c] = 0 /\ p \in Pids /\ c \notin broken
  /\ "takeover" \in Allow \/ ~Pending(c)
  /\ owner' = [owner EXCEPT ![p] = c]
  /\ clean' = [clean EXCEPT ![p] = cs]
  /\ conn' = [conn EXCEPT ![c] = p]
  /\ h' = IF cached_topic_hash[c] = None THEN h
          ELSE [h EXCEPT ![p] = [pc |-> "restore", todo |-> cached_topic_hash[c],
                                 ctx |-> Unassigned]]
  /\ Stirs(c)
  /\ UNCHANGED <<subs, sess, hashes, ctx, session_msg_list, npub, received, ghosts>>

RestoreTopic(p) ==
  LET t == Head(h[p].todo)
      c == owner[p]
      x == CtxtAt(sess, t, c, None)
  IN  /\ h[p].pc = "restore" /\ h[p].todo # <<>>
      /\ sess' = Without(sess, t, c)
      /\ subs' = IF x = None THEN subs ELSE With(subs, t, p, x)
      /\ h' = [h EXCEPT ![p].todo = Tail(@), ![p].ctx = x]
      /\ UNCHANGED <<hashes, ctx, pipes, pubs, ghosts>>

\* Mutant: the context keeps the pipe of the last connection.
RestoreEnd_OldPid(p) ==
  /\ h[p].pc = "restore" /\ h[p].todo = <<>>
  /\ topic_hash' = [topic_hash EXCEPT ![p] = cached_topic_hash[owner[p]]]
  /\ cached_topic_hash' = [cached_topic_hash EXCEPT ![owner[p]] = None]
  /\ h' = [h EXCEPT ![p] = Idle]
  /\ UNCHANGED <<subs, sess, ctx, pipes, pubs, ghosts>>

\* Mutant: the queue is copied, not moved, by restore_topic_all.
RestoreEnd_KeepsCached(p) ==
  /\ h[p].pc = "restore" /\ h[p].todo = <<>>
  /\ ctx' = [ctx EXCEPT ![h[p].ctx].pid = p]
  /\ topic_hash' = [topic_hash EXCEPT ![p] = cached_topic_hash[owner[p]]]
  /\ h' = [h EXCEPT ![p] = Idle]
  /\ UNCHANGED <<subs, sess, cached_topic_hash, pipes, pubs, ghosts>>

\* The pid goes to the last context found; with an empty queue the local variable
\* was never assigned.  Then restore_topic_all.
RestoreEnd(p) ==
  /\ h[p].pc = "restore" /\ h[p].todo = <<>>
  /\ \E x \in IF h[p].ctx = Unassigned THEN CtxIds \cup {None} ELSE {h[p].ctx} :
       ctx' = IF x = None THEN ctx ELSE [ctx EXCEPT ![x].pid = p]
  /\ topic_hash' = [topic_hash EXCEPT ![p] = Queue(cached_topic_hash, owner[p])]
  /\ cached_topic_hash' = [cached_topic_hash EXCEPT ![owner[p]] = None]
  /\ h' = [h EXCEPT ![p] = Idle]
  /\ UNCHANGED <<subs, sess, pipes, pubs, ghosts>>
-----------------------------------------------------------------------------
(* SUBSCRIBE: sub_ctx_handle. *)

\* CtxIds bounds the contexts: a packet is taken while each handler can have one.
Subscribe(p, q) ==
  /\ Sane(p) /\ Begin(p, "sub_take", q)
  /\ Cardinality({x \in CtxIds : ~ctx[x].live}) >
       Cardinality({r \in Pids : h[r].pc \in {"sub_take", "sub_back"}})
  /\ UNCHANGED <<subs, sess, hashes, ctx, pipes, ghosts>>

\* The stored context is found by taking the first topic of the queue out of the
\* tree ...
SubTake(p) ==
  LET q == Queue(topic_hash, p) IN
  /\ h[p].pc = "sub_take"
  /\ topic_hash' = [topic_hash EXCEPT ![p] = q]
  /\ subs' = IF q = <<>> THEN subs ELSE Without(subs, Head(q), p)
  /\ h' = [h EXCEPT ![p].pc = "sub_back",
                    ![p].ctx = IF q = <<>> THEN None ELSE CtxtAt(subs, Head(q), p, None)]
  /\ UNCHANGED <<sess, cached_topic_hash, ctx, pipes, pubs, ghosts>>

\* ... and putting it back.
SubBack(p) ==
  LET x == IF h[p].ctx = None THEN NewCtx ELSE h[p].ctx IN
  /\ h[p].pc = "sub_back"
  /\ subs' = IF h[p].ctx = None THEN subs ELSE With(subs, Head(topic_hash[p]), p, x)
  /\ ctx' = cli_ctx_merge(ctx, x, p, ToSet(h[p].todo))
  /\ h' = [h EXCEPT ![p].pc = "sub_add", ![p].ctx = x]
  /\ UNCHANGED <<sess, hashes, pipes, pubs, ghosts>>

\* Mutant: a topic subscribed to again is queued again.
SubAdd_Duplicates(p) ==
  LET t == Head(h[p].todo) IN
  /\ h[p].pc = "sub_add" /\ h[p].todo # <<>>
  /\ subs' = With(subs, t, p, h[p].ctx)
  /\ topic_hash' = [topic_hash EXCEPT ![p] = add_topic(@, t)]
  /\ h' = [h EXCEPT ![p].todo = Tail(@)]
  /\ UNCHANGED <<sess, cached_topic_hash, ctx, pipes, pubs, ghosts>>

SubAdd(p) ==
  LET t == Head(h[p].todo)
      new == t \notin ToSet(topic_hash[p])
  IN  /\ h[p].pc = "sub_add" /\ h[p].todo # <<>>
      /\ subs' = IF new THEN With(subs, t, p, h[p].ctx) ELSE subs
      /\ topic_hash' = [topic_hash EXCEPT ![p] = IF new THEN add_topic(@, t) ELSE @]
      /\ h' = [h EXCEPT ![p].todo = Tail(@)]
      /\ UNCHANGED <<sess, cached_topic_hash, ctx, pipes, pubs, ghosts>>

SubEnd(p) ==
  /\ h[p].pc = "sub_add" /\ h[p].todo = <<>>
  /\ subscribed' = [subscribed EXCEPT ![owner[p]] = ToSet(topic_hash[p])]
  /\ h' = [h EXCEPT ![p] = Idle]
  /\ UNCHANGED <<subs, sess, hashes, ctx, pipes, pubs, broken>>

\* decode_sub_message fails: del_topic_all, and the tree is left as it is.
\* (A bound: after it the client only leaves.)
SubFails(p) ==
  /\ Sane(p) /\ h[p] = Idle
  /\ topic_hash' = [topic_hash EXCEPT ![p] = None]
  /\ broken' = broken \cup {owner[p]}
  /\ Stirs(owner[p])
  /\ UNCHANGED <<subs, sess, cached_topic_hash, ctx, pipes, h,
                 session_msg_list, npub, received, subscribed>>
-----------------------------------------------------------------------------
(* UNSUBSCRIBE: unsub_ctx_handle. *)

\* A client without subscriptions does not unsubscribe, unless Allow has
\* "unsub_none".
Unsubscribe(p, t) ==
  /\ Sane(p) /\ Begin(p, "unsub_take", <<t>>)
  /\ "unsub_none" \in Allow \/ topic_hash[p] # None
  /\ subscribed' = [subscribed EXCEPT ![owner[p]] = @ \ {t}]
  /\ UNCHANGED <<subs, sess, hashes, ctx, pipes, broken>>

UnsubTake(p) ==
  LET t == Head(h[p].todo) IN
  /\ h[p].pc = "unsub_take"
  /\ subs' = Without(subs, t, p)
  /\ h' = [h EXCEPT ![p].pc = "unsub_end", ![p].ctx = CtxtAt(subs, t, p, None)]
  /\ UNCHANGED <<sess, hashes, ctx, pipes, pubs, ghosts>>

UnsubEnd(p) ==
  LET t == Head(h[p].todo)
      q == Queue(topic_hash, p)
  IN  /\ h[p].pc = "unsub_end"
      /\ topic_hash' = [topic_hash EXCEPT ![p] = IF q = <<>> THEN q ELSE del_topic_one(q, t)]
      /\ ctx' = del_sub_ctx(ctx, h[p].ctx, t)
      /\ h' = [h EXCEPT ![p] = Idle]
      /\ UNCHANGED <<subs, sess, cached_topic_hash, pipes, pubs, ghosts>>
-----------------------------------------------------------------------------
(* DISCONNECT_EV: cache_session for a client with clean_start = 0, then the *)
(* queue of the pipe, if there is one left, is taken out of the tree.       *)

\* The transport reports a closed pipe some time after the client has left.
Close(p) ==
  /\ Online(p) /\ Begin(p, "closed", <<>>)
  /\ conn' = [conn EXCEPT ![owner[p]] = 0]
  /\ subscribed' = IF clean[p] THEN [subscribed EXCEPT ![owner[p]] = {}] ELSE subscribed
  /\ UNCHANGED <<subs, sess, hashes, ctx, owner, clean, broken>>

Disconnect(p) ==
  /\ h[p].pc = "closed"
  /\ h' = [h EXCEPT ![p] =
             IF topic_hash[p] = None THEN Idle
             ELSE [pc |-> IF clean[p] THEN "drop" ELSE "cache",
                   todo |-> topic_hash[p], ctx |-> None]]
  /\ UNCHANGED <<subs, sess, hashes, ctx, pipes, pubs, ghosts>>

\* Mutant: the client is deleted and no session is made.
CacheTopic_NoSession(p) ==
  /\ h[p].pc = "cache" /\ h[p].todo # <<>>
  /\ subs' = Without(subs, Head(h[p].todo), p)
  /\ h' = [h EXCEPT ![p].todo = Tail(@)]
  /\ UNCHANGED <<sess, hashes, ctx, pipes, pubs, ghosts>>

CacheTopic(p) ==
  LET t == Head(h[p].todo) IN
  /\ h[p].pc = "cache" /\ h[p].todo # <<>>
  /\ subs' = Without(subs, t, p)
  /\ sess' = With(sess, t, owner[p], CtxtAt(subs, t, p, None))
  /\ h' = [h EXCEPT ![p].todo = Tail(@)]
  /\ UNCHANGED <<hashes, ctx, pipes, pubs, ghosts>>

\* cache_topic_all; what the key held before is dropped.
CacheEnd(p) ==
  /\ h[p].pc = "cache" /\ h[p].todo = <<>>
  /\ cached_topic_hash' = [cached_topic_hash EXCEPT ![owner[p]] = topic_hash[p]]
  /\ topic_hash' = [topic_hash EXCEPT ![p] = None]
  /\ h' = [h EXCEPT ![p] = Idle]
  /\ UNCHANGED <<subs, sess, ctx, pipes, pubs, ghosts>>

\* Mutant: the loop looks at the head of the queue for ever.
DropTopic_Stays(p) ==
  LET t == Head(h[p].todo) IN
  /\ h[p].pc = "drop" /\ h[p].todo # <<>>
  /\ subs' = Without(subs, t, p)
  /\ ctx' = del_sub_ctx(ctx, CtxtAt(subs, t, p, None), t)
  /\ UNCHANGED <<sess, hashes, h, pipes, pubs, ghosts>>

DropTopic(p) ==
  LET t == Head(h[p].todo) IN
  /\ h[p].pc = "drop" /\ h[p].todo # <<>>
  /\ subs' = Without(subs, t, p)
  /\ ctx' = del_sub_ctx(ctx, CtxtAt(subs, t, p, None), t)
  /\ h' = [h EXCEPT ![p].todo = Tail(@)]
  /\ UNCHANGED <<sess, hashes, pipes, pubs, ghosts>>

\* del_topic_all.
DropEnd(p) ==
  /\ h[p].pc = "drop" /\ h[p].todo = <<>>
  /\ topic_hash' = [topic_hash EXCEPT ![p] = None]
  /\ h' = [h EXCEPT ![p] = Idle]
  /\ UNCHANGED <<subs, sess, cached_topic_hash, ctx, pipes, pubs, ghosts>>

UnderWay(m) == \E w \in Workers : pub[w] # NoPub /\ pub[w].msg = m

\* The transport takes the messages kept for a client that is back
\* (dbtree_restore_session_msg).
TakeMsgs(c) ==
  LET s == search_session(session_msg_list, c) IN
  /\ conn[c] # 0 /\ s.msgs # <<>>
  /\ session_msg_list' = s.list
  /\ received' = [received EXCEPT ![c] = @ \cup {m \in ToSet(s.msgs) : UnderWay(m)}]
  /\ UNCHANGED <<subs, sess, hashes, ctx, pipes, h, pub, npub, ghosts>>
-----------------------------------------------------------------------------
(* PUBLISH with QoS 1 or 2: handle_pub, then the sends of state WAIT. *)

\* search_client under db->rwlock.
Publish(w, t) ==
  /\ pub[w] = NoPub /\ npub < MaxPubs
  /\ npub' = npub + 1
  /\ pub' = [pub EXCEPT ![w] =
       [pc |-> "merge", topic |-> t, msg |-> npub + 1,
        ctxs |-> {x[3] : x \in {y \in subs : y[1] = t}},
        sids |-> {x[2] : x \in {y \in sess : y[1] = t}},
        pids |-> {},
        owed |-> {c \in Clients \ broken : t \in subscribed[c]},
        steady |-> {c \in Clients \ broken : t \in subscribed[c] /\ ~Pending(c)}]]
  /\ UNCHANGED <<subs, sess, hashes, ctx, pipes, h, session_msg_list, received, ghosts>>

\* Its end, under db->rwlock_session.
Merge(w) ==
  /\ pub[w].pc = "merge"
  /\ session_msg_list' = insert_session_msg_list(session_msg_list,
       insert_session_msg(<<>>, pub[w].msg, SetToSeq(pub[w].sids)))
  /\ pub' = [pub EXCEPT ![w].pc = "foreach"]
  /\ UNCHANGED <<subs, sess, hashes, ctx, pipes, h, npub, received, ghosts>>

\* foreach_client reads the contexts without a lock: one that has been freed
\* meanwhile holds anything.  Pid 0 is skipped.
Foreach(w) ==
  /\ pub[w].pc = "foreach"
  /\ \E pid \in [pub[w].ctxs -> 0 .. MaxPid] :
       /\ \A x \in pub[w].ctxs : ctx[x].live => pid[x] = ctx[x].pid
       /\ pub' = [pub EXCEPT ![w].pc = "send",
                             ![w].pids = {pid[x] : x \in pub[w].ctxs} \ {0}]
  /\ UNCHANGED <<subs, sess, hashes, ctx, pipes, h, session_msg_list, npub, received, ghosts>>

\* The clients that left while the message was on its way to their last pipe.
JustGone(w) ==
  {c \in Clients : conn[c] = 0 /\ \E p \in pub[w].pids \cap PipesOf(c) :
                                    ~clean[p] /\ \A q \in PipesOf(c) : q <= p}

\* The transport sends to the pipes that are there, hands a message a persistent
\* client did not acknowledge back (dbtree_cache_session_msg) and drops what goes
\* to the pipe of an earlier connection.
Send(w) ==
  /\ pub[w].pc = "send"
  /\ received' = [c \in Clients |-> IF conn[c] \in pub[w].pids
                                    THEN received[c] \cup {pub[w].msg} ELSE received[c]]
  /\ session_msg_list' = insert_session_msg_list(session_msg_list,
       insert_session_msg(<<>>, pub[w].msg, SetToSeq(JustGone(w))))
  /\ pub' = [pub EXCEPT ![w].pc = "done"]
  /\ UNCHANGED <<subs, sess, hashes, ctx, pipes, h, npub, ghosts>>

\* (`received' need not remember the message any longer.)
Done(w) ==
  /\ pub[w].pc = "done"
  /\ pub' = [pub EXCEPT ![w] = NoPub]
  /\ received' = [c \in Clients |-> received[c] \ {pub[w].msg}]
  /\ UNCHANGED <<subs, sess, hashes, ctx, pipes, h, session_msg_list, npub, ghosts>>
-----------------------------------------------------------------------------
HandlerStep(p) ==
  \/ RestoreTopic(p) \/ RestoreEnd(p)
  \/ SubTake(p) \/ SubBack(p) \/ SubAdd(p) \/ SubEnd(p)
  \/ UnsubTake(p) \/ UnsubEnd(p)
  \/ Disconnect(p) \/ CacheTopic(p) \/ CacheEnd(p) \/ DropTopic(p) \/ DropEnd(p)

PublishStep(w) == Merge(w) \/ Foreach(w) \/ Send(w) \/ Done(w)

Next ==
  \/ \E c \in Clients : \/ \E cs \in BOOLEAN : Connect(c, cs)
                        \/ TakeMsgs(c)
  \/ \E p \in Pids : \/ \E q \in Packets : Subscribe(p, q)
                     \/ \E t \in Topics : Unsubscribe(p, t)
                     \/ SubFails(p)
                     \/ Close(p)
                     \/ HandlerStep(p)
  \/ \E w \in Workers : \/ \E t \in Topics : Publish(w, t)
                        \/ PublishStep(w)

\* A worker that has taken an event runs its handler to the end.
Spec == /\ Init /\ [][Next]_vars
        /\ \A p \in Pids : WF_vars(HandlerStep(p))
        /\ \A w \in Workers : WF_vars(PublishStep(w))
-----------------------------------------------------------------------------
TopicsOf(set, id) == {x[1] : x \in {y \in set : y[2] = id}}
Entries(c) == {x \in subs : x[2] \in PipesOf(c)} \cup {x \in sess : x[2] = c}

\* The clients whose SUBSCRIBE packets were all decoded and that no handler works on.
Quiet == {c \in Clients \ broken : ~Pending(c)}

\* Types; the queues of hash.cc hold a topic once, and the vector of session
\* messages has one entry per session, in descending order.
TypeOK ==
  /\ subs \subseteq Topics \X Pids \X CtxIds
  /\ sess \subseteq Topics \X Clients \X (CtxIds \cup {None})
  /\ \A q \in {topic_hash[p] : p \in Pids} \cup {cached_topic_hash[c] : c \in Clients} :
       q # None => IsInjective(q) /\ ToSet(q) \subseteq Topics
  /\ \A x \in CtxIds : ctx[x].pid \in 0 .. MaxPid /\ ctx[x].topics \subseteq Topics
  /\ \A i, j \in DOMAIN session_msg_list :
       i < j => session_msg_list[i].id > session_msg_list[j].id

\* When no handler works on a client, the queue of its pipe lists exactly its
\* topics in the tree, the cached queue exactly its sessions, it has one or the
\* other, and together they are what it was acknowledged: nothing is left behind
\* on a closed pipe (the handlers change the tree and the hashes in turn).
HashTreeAgree ==
  \A c \in Quiet :
    /\ \A p \in PipesOf(c) :
         /\ TopicsOf(subs, p) = ToSet(Queue(topic_hash, p))
         /\ TopicsOf(subs, p) = IF Online(p) THEN subscribed[c] ELSE {}
    /\ TopicsOf(sess, c) = ToSet(Queue(cached_topic_hash, c))
    /\ TopicsOf(sess, c) = IF conn[c] = 0 THEN subscribed[c] ELSE {}

\* The entries of a client that no handler works on share one context, which
\* lists their topics and, while the client is connected, names its pipe:
\* publications reach it there (restore_session writes it once, for the last
\* topic's context).
CtxAgree ==
  \A c \in Quiet : \A x, y \in Entries(c) :
    /\ x[3] = y[3]
    /\ ctx[x[3]].topics = subscribed[c]
    /\ conn[c] # 0 => ctx[x[3]].pid = conn[c]

\* del_sub_ctx frees a context exactly when the tree has lost the last entry that
\* points to it: the tree never points to freed memory and no context is leaked.
CtxLiveIffUsed == broken = {} =>
  /\ \A x \in subs \cup sess : ctx[x[3]].live
  /\ \A x \in CtxIds :
       ctx[x].live => \/ \E y \in subs \cup sess : y[3] = x
                      \/ \E p \in Pids : h[p].ctx = x

\* A topic a client was acknowledged is in the tree at every moment, as a
\* subscription or as a session, also half way through cache_session and
\* restore_session; the one exception is the first topic of its queue while
\* sub_ctx_handle has it out to read its context.
NeverAbsent ==
  \A c \in Clients \ broken : \A t \in subscribed[c] :
    \/ \E x \in Entries(c) : x[1] = t
    \/ \E p \in PipesOf(c) : h[p].pc = "sub_back" /\ Head(topic_hash[p]) = t

\* restore_topic_all and cache_topic_all find no queue under the key they write
\* (they log "unexpected: hash instance is not vacant", "unexpected: cached hash
\* instance is not vacant").
HashVacant ==
  \A p \in Pids : /\ h[p].pc = "restore" => topic_hash[p] = None
                  /\ h[p].pc = "cache" => cached_topic_hash[owner[p]] = None

Kept(c) == UNION {ToSet(session_msg_list[i].msgs) :
                    i \in {j \in DOMAIN session_msg_list : session_msg_list[j].id = c}}

\* A publication reaches every subscriber that no handler worked on while it was
\* under way: the message was sent to its pipe or is kept for its return.
SteadyServed ==
  \A w \in Workers : pub[w].pc = "done" =>
    \A c \in pub[w].steady : pub[w].msg \in received[c] \cup Kept(c)

\* A publication reaches every client that was subscribed when it began and is
\* when it ends ("Get all subscribers online to this topic and cache session
\* message for offline").
AllServed ==
  \A w \in Workers : pub[w].pc = "done" =>
    \A c \in pub[w].owed \ broken :
      pub[w].topic \in subscribed[c] => pub[w].msg \in received[c] \cup Kept(c)

\* A handler and a publication, once begun, end.
HandlersEnd ==
  /\ \A p \in Pids : []<>(h[p] = Idle)
  /\ \A w \in Workers : []<>(pub[w] = NoPub)
=============================================================================
