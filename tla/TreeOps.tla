------------------------------ MODULE TreeOps ------------------------------
(***************************************************************************)
(* The operations of nanolib/mqtt_db.c on a topic tree, as operators.  A   *)
(* node has a vector of children, the wildcards "#" and "+" first (at the  *)
(* indices `well' and `plus', -1 when absent) and the other levels after   *)
(* them in the order of strcmp, vectors of clients and sessions in         *)
(* descending order of their ids, and a retained message.                  *)
(*                                                                         *)
(* A node is named by its path, the sequence of levels from the root, and  *)
(* a topic is the sequence of levels topic_parse makes of it.              *)
(***************************************************************************)
EXTENDS Cvector, FiniteSets, SequencesExt

CONSTANTS Rank,    \* Rank[level]: the order of strcmp on the levels used
          NoCtxt   \* the null pointer

WELL == "#"
PLUS == "+"

dbtree_node_new ==
  [child |-> <<>>, plus |-> -1, well |-> -1, clients |-> <<>>, sessions |-> <<>>,
   retain |-> NoCtxt]

First(q, k) == SubSeq(q, 1, k)

\* The path of child i of the node at path p.
ChildPath(t, p, i) == Append(p, t[p].child[i + 1])

skip_wildcard(n) == (IF n.plus # -1 THEN 1 ELSE 0) + (IF n.well # -1 THEN 1 ELSE 0)

SearchChild(n, level) ==
  binary_search([i \in DOMAIN n.child |-> Rank[n.child[i]]], skip_wildcard(n), Rank[level])

find_next(n, level) ==
  IF n.child = <<>> THEN [found |-> FALSE, index |-> 0] ELSE SearchChild(n, level)
-----------------------------------------------------------------------------
\* dbtree_node_insert, one level: at = [t, p] is the tree and the node reached.
Enter(at, n, i) == [at EXCEPT !.t[at.p] = n, !.p = Append(at.p, n.child[i + 1])]

EnterNew(at, n, level, i) ==
  LET p == Append(at.p, level)
      t == [at.t EXCEPT ![at.p] = [n EXCEPT !.child = insert_at(n.child, i, level)]]
  IN  [t |-> [x \in DOMAIN t \cup {p} |-> IF x = p THEN dbtree_node_new ELSE t[x]],
       p |-> p]

insert_well(at, n) ==
  IF n.well # -1 THEN Enter(at, n, n.well)
  ELSE EnterNew(at, [n EXCEPT !.plus = IF @ = 0 THEN 1 ELSE @, !.well = 0], WELL, 0)

insert_plus(at, n) ==
  IF n.plus # -1 THEN Enter(at, n, n.plus)
  ELSE EnterNew(at, [n EXCEPT !.well = IF @ = 0 THEN 1 ELSE @, !.plus = 0], PLUS, 0)

insert_level(at, n, level) ==
  LET s == SearchChild(n, level)
  IN  IF skip_wildcard(n) = Len(n.child) THEN EnterNew(at, n, level, Len(n.child))
      ELSE IF s.found THEN Enter(at, n, s.index)
      ELSE EnterNew(at, n, level, s.index)

dbtree_node_insert(t, p, q) ==
  FoldLeft(LAMBDA at, level :
             LET n == at.t[at.p]
             IN  IF level = WELL THEN insert_well(at, n)
                 ELSE IF level = PLUS THEN insert_plus(at, n)
                 ELSE insert_level(at, n, level),
           [t |-> t, p |-> p], q)

\* The level of the queue the search compares below the node at path p.
LevelBelow(q, p) == q[Len(p) + 1]

\* search_insert_node takes a child for equal when it is the first one or when
\* find_next, which does not look at the wildcards, finds it.
InsertMatch(t, q, p) ==
  LET n == t[p]
  IN  /\ n.child # <<>>
      /\ n.child[1] = LevelBelow(q, p) \/ find_next(n, LevelBelow(q, p)).found

search_insert_node(t, q) ==
  LET Below(p) == Append(p, LevelBelow(q, p))
      Walk[p \in DOMAIN t] ==
        IF InsertMatch(t, q, p) /\ t[Below(p)].child # <<>> /\ Len(p) + 1 < Len(q)
        THEN Walk[Below(p)]
        ELSE p
      here == Walk[<<>>]
      rest == SubSeq(q, Len(here) + 1, Len(q))
  IN  IF ~InsertMatch(t, q, here) THEN dbtree_node_insert(t, here, rest)
      ELSE IF Len(here) + 1 = Len(q) THEN [t |-> t, p |-> Below(here)]
      ELSE dbtree_node_insert(t, Below(here), rest)  \* the queue is not moved on
-----------------------------------------------------------------------------
\* The vectors of clients and sessions: entries [id, ctxt], ids descending.
SearchId(v, id) == binary_search([i \in DOMAIN v |-> -v[i].id], 0, -id)

InsertById(v, x) ==
  LET s == SearchId(v, x.id) IN IF s.found THEN v ELSE insert_at(v, s.index, x)

EraseById(v, id) ==
  LET s == SearchId(v, id) IN IF s.found THEN cvector_erase(v, s.index) ELSE v

CtxtById(v, id) ==
  LET s == SearchId(v, id) IN IF s.found THEN v[s.index + 1].ctxt ELSE NoCtxt

insert_dbtree_client(n, p, ctxt) ==
  [n EXCEPT !.clients = InsertById(@, [id |-> p, ctxt |-> ctxt])]

delete_and_insert(n, s, p) ==
  IF ~SearchId(n.sessions, s).found THEN n
  ELSE [n EXCEPT !.sessions = EraseById(@, s),
                 !.clients = InsertById(@, [id |-> p, ctxt |-> CtxtById(n.sessions, s)])]

\* delete_dbtree_client, then a new session that takes over the context.
cache_client(n, s, p) ==
  [n EXCEPT !.clients = EraseById(@, p),
            !.sessions = InsertById(@, [id |-> s, ctxt |-> CtxtById(n.clients, p)])]

delete_dbtree_client(n, p) == [n EXCEPT !.clients = EraseById(@, p)]

delete_from_session_vector(n, s) == [n EXCEPT !.sessions = EraseById(@, s)]
-----------------------------------------------------------------------------
\* Mutant: deleting the child at index 1 forgets the wildcard indices.
AfterErase_Index0(i, w) == IF i = 0 /\ w >= 0 THEN w - 1 ELSE w

\* A wildcard index once the child at index i is gone.
AfterErase(i, w) ==
  IF i = 0 /\ w >= 0 THEN w - 1 ELSE IF i = 1 /\ w = 1 THEN -1 ELSE w

\* Mutant: a node with sessions only is taken for empty.
Empty_IgnoresSessions(n) == n.child = <<>> /\ n.clients = <<>>

\* A node delete_dbtree_node may free.
Empty(n) == n.child = <<>> /\ n.clients = <<>> /\ n.sessions = <<>>

delete_dbtree_node(t, p, i) ==
  LET c == ChildPath(t, p, i)
      u == [t EXCEPT ![p].child = cvector_erase(@, i),
                     ![p].plus = AfterErase(i, @),
                     ![p].well = AfterErase(i, @)]
  IN  IF Empty(t[c]) THEN [x \in DOMAIN t \ {c} |-> u[x]] ELSE t

\* The child search_and_delete goes to, -1 when there is none.
ChildIndex(n, level) ==
  IF n.child = <<>> THEN -1
  ELSE IF n.child[1] = level THEN 0
  ELSE IF level = WELL /\ n.well # -1 THEN n.well
  ELSE IF level = PLUS /\ n.plus # -1 THEN n.plus
  ELSE IF find_next(n, level).found THEN find_next(n, level).index
  ELSE -1

\* The node whose child is the one the topic names, or where the search ends.
DeleteWalk(t, q) ==
  LET Idx(p) == ChildIndex(t[p], LevelBelow(q, p))
      Walk[p \in DOMAIN t] ==
        IF /\ Idx(p) # -1
           /\ t[ChildPath(t, p, Idx(p))].child # <<>>
           /\ Len(p) + 1 < Len(q)
        THEN Walk[ChildPath(t, p, Idx(p))]
        ELSE p
  IN  Walk[<<>>]

\* Mutant: the parents of a deleted node are left as they are.
PruneDepth_NodeOnly(p, keep) == IF keep THEN 0 ELSE 1

\* The number of delete_dbtree_node calls that follow a change below the node at
\* path p: one for the node changed unless it is kept, one for each node above.
PruneDepth(p, keep) == Len(p) + (IF keep THEN 0 ELSE 1)

\* The switch of search_and_delete, on the node of the topic.
ByFlag(n, flag, s, p) ==
  CASE flag = "DB_CACHE_SESSION" -> cache_client(n, s, p)
    [] flag = "DB_DELETE_CLIENT" -> delete_dbtree_client(n, p)
    [] flag = "DB_DELETE_SESSION" -> delete_from_session_vector(n, s)

\* The node of the topic is changed, and empty nodes are deleted from there up
\* (from its parent up when a session is cached).
search_and_delete(t, q, s, pipe, flag) ==
  LET p == DeleteWalk(t, q)
      Idx(x) == ChildIndex(t[x], LevelBelow(q, x))
      c == ChildPath(t, p, Idx(p))
      depth == PruneDepth(p, flag = "DB_CACHE_SESSION")
  IN  IF Idx(p) = -1 \/ Len(p) + 1 < Len(q) THEN t
      ELSE FoldLeft(LAMBDA u, k : delete_dbtree_node(u, First(p, depth - k),
                                                     Idx(First(p, depth - k))),
                    [t EXCEPT ![c] = ByFlag(@, flag, s, pipe)],
                    [k \in 1 .. depth |-> k])

\* The node a topic names, for the context search_and_delete returns.
NodeAt(t, q) ==
  LET p == DeleteWalk(t, q)
      i == ChildIndex(t[p], LevelBelow(q, p))
  IN  IF i = -1 \/ Len(p) + 1 < Len(q) THEN dbtree_node_new ELSE t[ChildPath(t, p, i)]
-----------------------------------------------------------------------------
\* collect_clients at one node: `hits' are the nodes whose clients and sessions
\* the publication reaches, `next' the nodes to look at for the next level.
EqualChild(t, p, level) ==
  LET n == t[p]
  IN  IF n.child[1] = level THEN <<Append(p, level)>>
      ELSE IF find_next(n, level).found
           THEN <<ChildPath(t, p, find_next(n, level).index)>>
           ELSE <<>>

WildChild(t, p, i) == IF i # -1 THEN <<ChildPath(t, p, i)>> ELSE <<>>

\* Mutant: "#" is collected at the last level only.
NodeHits_WellLast(t, p, level, last) ==
  IF t[p].child = <<>> \/ ~last THEN <<>>
  ELSE WildChild(t, p, t[p].well) \o WildChild(t, p, t[p].plus) \o EqualChild(t, p, level)

NodeHits(t, p, level, last) ==
  IF t[p].child = <<>> THEN <<>>
  ELSE WildChild(t, p, t[p].well)
       \o (IF last THEN WildChild(t, p, t[p].plus) \o EqualChild(t, p, level) ELSE <<>>)

NodeNext(t, p, level, last) ==
  IF t[p].child = <<>> \/ last THEN <<>>
  ELSE WildChild(t, p, t[p].plus) \o EqualChild(t, p, level)

\* The two loops of search_client and collect_clients, from the nodes in start:
\* a level at a time, the nodes of a level from the last to the first.
Collect(t, start, q) ==
  FoldLeft(
    LAMBDA acc, k :
      LET each(Op(_, _, _, _)) ==
            [i \in DOMAIN acc.nodes |-> Op(t, Reverse(acc.nodes)[i], q[k], k = Len(q))]
      IN  [nodes |-> FlattenSeq(each(NodeNext)),
           hits |-> acc.hits \o FlattenSeq(each(NodeHits))],
    [nodes |-> start, hits |-> <<>>],
    [k \in 1 .. Len(q) |-> k]).hits

\* iterate_client: one context per pipe id, but an id that belongs at the end of
\* ids is not remembered (cvector_insert at the size of the vector).
iterate_client(clients) ==
  FoldLeft(
    LAMBDA acc, c :
      LET s == binary_search([i \in DOMAIN acc.ids |-> -acc.ids[i]], 0, -c.id)
      IN  IF s.found THEN acc
          ELSE [ids |-> cvector_insert(acc.ids, s.index, c.id),
                ctxts |-> Append(acc.ctxts, c.ctxt)],
    [ids |-> <<>>, ctxts |-> <<>>], clients).ctxts

\* The sessions collect_clients finds at the nodes in hits.
SessionIds(t, hits) == UNION {{x.id : x \in ToSet(t[h].sessions)} : h \in ToSet(hits)}

search_client(t, q) ==
  LET hits == Collect(t, <<<<>>>>, q)
  IN  [ctxts |-> iterate_client(FlattenSeq([i \in DOMAIN hits |-> t[hits[i]].clients])),
       sids |-> SessionIds(t, hits)]

\* Mutant: the groups are looked for below the root.
SharedRoot_Root(t) == <<>>

\* dbtree_find_shared_clients starts from the groups below "$share"; when there
\* is no such node find_next returns the root, and the groups are its children.
SharedRoot(t) == IF find_next(t[<<>>], "$share").found THEN <<"$share">> ELSE <<>>

SharedHits(t, q) ==
  LET r == SharedRoot(t)
      groups == [i \in DOMAIN t[r].child |-> ChildPath(t, r, i - 1)]
  IN  Collect(t, SelectSeq(groups, LAMBDA g : t[g].child # <<>>), q)
-----------------------------------------------------------------------------
\* Mutant: a message that is there is not replaced.
dbtree_insert_retain_Keeps(t, q, x) ==
  LET at == search_insert_node(t, q)
  IN  [t |-> [at.t EXCEPT ![at.p].retain = IF @ = NoCtxt THEN x ELSE @],
       old |-> at.t[at.p].retain]

\* Retained messages.  insert_dbtree_retain returns what the node held before.
dbtree_insert_retain(t, q, x) ==
  LET at == search_insert_node(t, q)
  IN  [t |-> [at.t EXCEPT ![at.p].retain = x], old |-> at.t[at.p].retain]

\* The retained messages of the nodes at the paths in ps.
RetainsOf(t, ps) ==
  SelectSeq([i \in DOMAIN ps |-> t[ps[i]].retain], LAMBDA x : x # NoCtxt)

ChildPaths(t, p) == [i \in DOMAIN t[p].child |-> ChildPath(t, p, i - 1)]

\* All nodes from the one at path p down, level by level.
collect_retain_well(t, p) ==
  LET Down[ps \in Seq(DOMAIN t)] ==
        IF ps = <<>> THEN <<>>
        ELSE RetainsOf(t, ps) \o Down[FlattenSeq([i \in DOMAIN ps |-> ChildPaths(t, ps[i])])]
  IN  Down[<<p>>]

\* collect_retains at one node.
RetainHits(t, p, level, last) ==
  IF ~last \/ t[p].child = <<>> THEN <<>>
  ELSE RetainsOf(t, IF level = PLUS THEN ChildPaths(t, p) ELSE EqualChild(t, p, level))

RetainNext(t, p, level, last) ==
  IF last \/ t[p].child = <<>> THEN <<>>
  ELSE IF level = PLUS THEN ChildPaths(t, p) ELSE EqualChild(t, p, level)

\* Mutant: "#" stands for one level.
WellRetains_OneLevel(t, nodes) ==
  LET inner == SelectSeq(nodes, LAMBDA p : t[p].child # <<>>)
  IN  IF inner = <<>> THEN <<>> ELSE RetainsOf(t, ChildPaths(t, Last(inner)))

\* "#" is looked for below one node only, the last that has children.
WellRetains(t, nodes) ==
  LET inner == SelectSeq(nodes, LAMBDA p : t[p].child # <<>>)
  IN  IF inner = <<>> THEN <<>> ELSE collect_retain_well(t, Last(inner))

dbtree_find_retain(t, q) ==
  FoldLeft(
    LAMBDA acc, k :
      LET each(Op(_, _, _, _)) ==
            [i \in DOMAIN acc.nodes |-> Op(t, Reverse(acc.nodes)[i], q[k], k = Len(q))]
      IN  IF q[k] = WELL THEN [nodes |-> <<>>, rets |-> acc.rets \o WellRetains(t, acc.nodes)]
          ELSE [nodes |-> FlattenSeq(each(RetainNext)),
                rets |-> acc.rets \o FlattenSeq(each(RetainHits))],
    [nodes |-> <<<<>>>>, rets |-> <<>>],
    [k \in 1 .. Len(q) |-> k]).rets

\* dbtree_delete_retain: the same walk as search_and_delete, in a tree without
\* wildcards.  `locked': db->rwlock is still held on return, when the levels of
\* the topic are not all there.  (An empty tree is left by the other way out.)
dbtree_delete_retain(t, q) ==
  LET p == DeleteWalk(t, q)
      Idx(x) == ChildIndex(t[x], LevelBelow(q, x))
      c == ChildPath(t, p, Idx(p))
      depth == PruneDepth(p, FALSE)
  IN  IF t[<<>>].child = <<>> THEN [t |-> t, old |-> NoCtxt, locked |-> FALSE]
      ELSE IF Idx(p) = -1 \/ Len(p) + 1 < Len(q) THEN [t |-> t, old |-> NoCtxt, locked |-> TRUE]
      ELSE [t |-> FoldLeft(LAMBDA u, k : delete_dbtree_node(u, First(p, depth - k),
                                                            Idx(First(p, depth - k))),
                           [t EXCEPT ![c].retain = NoCtxt],
                           [k \in 1 .. depth |-> k]),
            old |-> t[c].retain, locked |-> FALSE]
-----------------------------------------------------------------------------
\* MQTT matching as the tree implements it: "+" is one level, a last "#" is one
\* level or more.
Matches(f, t) ==
  LET n == IF f[Len(f)] = "#" THEN Len(f) - 1 ELSE Len(f)
  IN  /\ n = Len(f) => Len(f) = Len(t)
      /\ n < Len(f) => Len(f) <= Len(t)
      /\ \A i \in 1 .. n : f[i] \in {"+", t[i]}
=============================================================================
