------------------------------ MODULE MCDbTree ------------------------------
EXTENDS DbTree

\* strcmp on the levels of the instances: '#' < '$' < '+' < letters.
LevelRank == [x \in {"#", "$share", "+", "a", "b", "g"} |->
                CASE x = "#" -> 1 [] x = "$share" -> 2 [] x = "+" -> 3
                  [] x = "a" -> 4 [] x = "b" -> 5 [] x = "g" -> 6]

\* Client 8 comes and goes on pipes 1 and 2, client 9 is on pipe 3.
TwoClients == [p \in 1 .. 3 |-> IF p = 3 THEN 9 ELSE 8]

\* No filter is a proper prefix of another; both wildcards and two plain levels
\* meet below the root.
Flat == [p \in 1 .. 3 |->
  CASE p = 1 -> {<<"#">>, <<"+", "b">>, <<"$share", "g", "+">>}
    [] p = 2 -> {<<"+", "b">>}
    [] p = 3 -> {<<"a", "b">>, <<"$share", "g", "+">>}]
FlatTopics == {<<"a">>, <<"b">>, <<"a", "b">>, <<"b", "b">>, <<"a", "b", "b">>}

\* One filter is a prefix of the other.
Nested == [p \in 1 .. 3 |-> {<<"a">>, <<"a", "b">>}]
=============================================================================
