------------------------------- MODULE DbTree -------------------------------
(***************************************************************************)
(* The tree of subscriptions and sessions of nanolib/mqtt_db.c, with the   *)
(* operations of module TreeOps.  Every call runs under db->rwlock from    *)
(* the search to the last change, so a call is one step; the part of a     *)
(* publication that follows the unlock (the cache of session messages) is  *)
(* module SessionMsgs.                                                     *)
(***************************************************************************)
EXTENDS TreeOps

CONSTANTS Pipes,      \* pipe ids
          FiltersOf,  \* FiltersOf[p]: the filters used on pipe p
          Owner,      \* Owner[p]: the session id of the client on pipe p
          Topics      \* topics published to

VARIABLES tree,   \* tree[path]: a node
          out     \* what the last call returned

vars == <<tree, out>>

\* dbtree_shared_iterate_client: rand() picks one client of every vector found.
SharedPicks(t, q) ==
  LET hits == SelectSeq(SharedHits(t, q), LAMBDA h : t[h].clients # <<>>)
      choices == {c \in [DOMAIN hits -> 1 .. Cardinality(Pipes)] :
                    \A i \in DOMAIN hits : c[i] <= Len(t[hits[i]].clients)}
  IN  {iterate_client([i \in DOMAIN hits |-> t[hits[i]].clients[c[i]]]) : c \in choices}
-----------------------------------------------------------------------------
\* dbtree_create: a root without children.
Init == /\ tree = [p \in {<<>>} |-> dbtree_node_new]
        /\ out = NoCtxt

dbtree_insert_client(f, p) ==
  LET at == search_insert_node(tree, f)
  IN  /\ tree' = [at.t EXCEPT ![at.p] = insert_dbtree_client(@, p, Owner[p])]
      /\ out' = NoCtxt

dbtree_delete_client(f, p) ==
  /\ tree' = search_and_delete(tree, f, Owner[p], p, "DB_DELETE_CLIENT")
  /\ out' = CtxtById(NodeAt(tree, f).clients, p)

\* Called for a topic the client on the pipe subscribes to (sub_handler.c takes
\* the topics from the hash of the pipe).
dbtree_cache_session(f, p) ==
  /\ SearchId(NodeAt(tree, f).clients, p).found
  /\ tree' = search_and_delete(tree, f, Owner[p], p, "DB_CACHE_SESSION")
  /\ out' = CtxtById(NodeAt(tree, f).clients, p)

\* "Before call this function, should check table that have relationship client
\* identify and topic queue": the client has a session on the topic.
dbtree_restore_session(f, p) ==
  LET at == search_insert_node(tree, f)
  IN  /\ SearchId(NodeAt(tree, f).sessions, Owner[p]).found
      /\ tree' = [at.t EXCEPT ![at.p] = delete_and_insert(@, Owner[p], p)]
      /\ out' = CtxtById(at.t[at.p].sessions, Owner[p])

dbtree_delete_session(f, p) ==
  /\ tree' = search_and_delete(tree, f, Owner[p], p, "DB_DELETE_SESSION")
  /\ out' = CtxtById(NodeAt(tree, f).sessions, Owner[p])

Next == \E p \in Pipes : \E f \in FiltersOf[p] :
          \/ dbtree_insert_client(f, p)
          \/ dbtree_delete_client(f, p)
          \/ dbtree_cache_session(f, p)
          \/ dbtree_restore_session(f, p)
          \/ dbtree_delete_session(f, p)

Spec == Init /\ [][Next]_vars
-----------------------------------------------------------------------------
Entries(v, f) == {<<f, v[i].id, v[i].ctxt>> : i \in DOMAIN v}

Subs == UNION {Entries(tree[f].clients, f) : f \in DOMAIN tree}
Sess == UNION {Entries(tree[f].sessions, f) : f \in DOMAIN tree}

A == INSTANCE TopicDb WITH subs <- Subs, sess <- Sess

\* The tree is shaped as its search needs it: children are the nodes one level
\* down, each once, wildcards where `plus' and `well' say, before the others,
\* which are in strcmp order; clients and sessions are in descending order.
WellFormed ==
  /\ DOMAIN tree = {<<>>} \cup UNION {{Append(p, x) : x \in ToSet(tree[p].child)} :
                                         p \in DOMAIN tree}
  /\ \A p \in DOMAIN tree :
       LET n == tree[p] IN
       /\ n.plus = SelectInSeq(n.child, LAMBDA x : x = PLUS) - 1
       /\ n.well = SelectInSeq(n.child, LAMBDA x : x = WELL) - 1
       /\ \A i, j \in DOMAIN n.child :
            i < j => /\ n.child[j] \in {PLUS, WELL} => n.child[i] \in {PLUS, WELL}
                     /\ n.child[i] \notin {PLUS, WELL} => Rank[n.child[i]] < Rank[n.child[j]]
                     /\ n.child[i] # n.child[j]
       /\ \A v \in {n.clients, n.sessions} :
            \A i, j \in DOMAIN v : i < j => v[i].id > v[j].id

\* The deletions leave no dead branch: every node but the root leads to a client
\* or a session.
NoDeadBranch == \A p \in DOMAIN tree \ {<<>>} : ~Empty(tree[p])

\* A client is on the node of the filter it subscribed to ("insert node
\* recursively until find all topic then insert client on the node").
OnNodeOfTopic ==
  \A p \in DOMAIN tree : tree[p].clients # <<>> \/ tree[p].sessions # <<>> =>
    p \in UNION {FiltersOf[x] : x \in Pipes}

\* A publication finds the contexts of exactly the clients, and exactly the
\* sessions, whose filter matches its topic (dbtree_find_clients_and_cache_msg:
\* "Get all subscribers online to this topic and cache session message for
\* offline"), wherever the wildcards and the levels stand in their vectors.
FindExact ==
  \A t \in Topics :
    /\ ToSet(search_client(tree, t).ctxts) = {x[3] : x \in {y \in Subs : Matches(y[1], t)}}
    /\ search_client(tree, t).sids = {x[2] : x \in {y \in Sess : Matches(y[1], t)}}

\* While there are shared subscriptions, a publication goes to one client of each
\* shared filter it matches, whatever rand() returns, and to no other client; it is
\* kept for all their sessions (dbtree_find_shared_clients).
SharedExact ==
  <<"$share">> \in DOMAIN tree =>
    \A t \in Topics :
      LET shared(V) == {x \in V : /\ Len(x[1]) > 2 /\ x[1][1] = "$share"
                                  /\ Matches(SubSeq(x[1], 3, Len(x[1])), t)}
          fs == {x[1] : x \in shared(Subs)}
          members(f) == {y[3] : y \in {x \in Subs : x[1] = f}}
      IN  /\ \A pick \in SharedPicks(tree, t) :
               /\ Len(pick) <= Cardinality(fs)
               /\ \A f \in fs : members(f) \cap ToSet(pick) # {}
               /\ ToSet(pick) \subseteq UNION {members(f) : f \in fs}
          /\ SessionIds(tree, SharedHits(tree, t)) = {x[2] : x \in shared(Sess)}

\* Every call has the effect and the answer of the abstract topic database.
ImplementsTopicDb == A!Spec
=============================================================================
