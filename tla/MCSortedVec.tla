---------------------------- MODULE MCSortedVec ----------------------------
EXTENDS SortedVec

\* The comparisons of mqtt_db.h on ids whose differences fit an int: `y - x'.
IdCmp(x, y) == y - x

\* The probes of binary_search, one by one, answer what the operator of module
\* Cvector computes: the topic tree and the session lists are modelled with it.
StepsComputeSearch ==
  pc \in {"found", "absent"} =>
    binary_search([i \in DOMAIN vec |-> -vec[i]], 0, -e)
      = [found |-> pc = "found", index |-> index]
=============================================================================
