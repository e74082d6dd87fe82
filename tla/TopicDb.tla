------------------------------ MODULE TopicDb ------------------------------
(***************************************************************************)
(* What the topic tree of nanolib/mqtt_db.c promises to the broker: a set  *)
(* of subscriptions (filter, pipe) of connected clients and a set of       *)
(* sessions (filter, session id) of clients that are away, each with the   *)
(* context of its client.  A call returns the context of the entry it      *)
(* takes out.                                                              *)
(***************************************************************************)
EXTENDS TopicSets

CONSTANTS Pipes,      \* pipe ids
          FiltersOf,  \* FiltersOf[p]: the filters, sequences of levels, used on pipe p
          Owner,      \* Owner[p]: the session id of the client on pipe p
          NoCtxt

VARIABLES subs, sess,
          out     \* what the last call returned

vars == <<subs, sess, out>>

Init == subs = {} /\ sess = {} /\ out = NoCtxt

Subscribe(f, p) == /\ subs' = With(subs, f, p, Owner[p])
                   /\ out' = NoCtxt
                   /\ UNCHANGED sess

Unsubscribe(f, p) == /\ subs' = Without(subs, f, p)
                     /\ out' = CtxtAt(subs, f, p, NoCtxt)
                     /\ UNCHANGED sess

\* The client on pipe p goes away: its subscription becomes a session.
Suspend(f, p) == /\ Has(subs, f, p)
                 /\ subs' = Without(subs, f, p)
                 /\ sess' = With(sess, f, Owner[p], CtxtAt(subs, f, p, NoCtxt))
                 /\ out' = CtxtAt(subs, f, p, NoCtxt)

\* It is back, on pipe p.
Resume(f, p) == /\ Has(sess, f, Owner[p])
                /\ sess' = Without(sess, f, Owner[p])
                /\ subs' = With(subs, f, p, CtxtAt(sess, f, Owner[p], NoCtxt))
                /\ out' = CtxtAt(sess, f, Owner[p], NoCtxt)

Forget(f, s) == /\ sess' = Without(sess, f, s)
                /\ out' = CtxtAt(sess, f, s, NoCtxt)
                /\ UNCHANGED subs

Next == \E p \in Pipes : \E f \in FiltersOf[p] :
          \/ Subscribe(f, p)
          \/ Unsubscribe(f, p)
          \/ Suspend(f, p)
          \/ Resume(f, p)
          \/ Forget(f, Owner[p])

Spec == Init /\ [][Next]_vars
=============================================================================
