---------------------------- MODULE SessionMsgs ----------------------------
(***************************************************************************)
(* db->session_msg_list of nanolib/mqtt_db.c: the messages kept for absent *)
(* clients, a vector of [id, msgs] in descending order of session ids.     *)
(***************************************************************************)
EXTENDS Cvector, SequencesExt

SearchSession(list, id) == binary_search([i \in DOMAIN list |-> -list[i].id], 0, -id)

\* The vector search_client builds while it holds db->rwlock: one entry, with the
\* message, for every session found, however many of its filters match.
insert_session_msg(list, msg, ids) ==
  FoldLeft(LAMBDA acc, id :
             LET s == SearchSession(acc, id)
             IN  IF s.found THEN acc
                 ELSE insert_at(acc, s.index, [id |-> id, msgs |-> <<msg>>]),
           list, ids)

\* Mutant: a message for a session that has some already is dropped.
merge_one_KeepsFirst(list, s) ==
  LET at == SearchSession(list, s.id)
  IN  IF at.found THEN list ELSE insert_at(list, at.index, s)

merge_one(list, s) ==
  LET at == SearchSession(list, s.id)
  IN  IF at.found THEN [list EXCEPT ![at.index + 1].msgs = Append(@, s.msgs[1])]
      ELSE insert_at(list, at.index, s)

insert_session_msg_list(list, temp) == FoldLeft(merge_one, list, temp)

\* search_session takes the messages of a session out of the list.
search_session(list, id) ==
  LET s == SearchSession(list, id)
  IN  IF s.found THEN [msgs |-> list[s.index + 1].msgs, list |-> cvector_erase(list, s.index)]
      ELSE [msgs |-> <<>>, list |-> list]
=============================================================================
