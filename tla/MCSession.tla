----------------------------- MODULE MCSession -----------------------------
EXTENDS Session

CONSTANTS t1, t2

\* A topic alone, and both in one packet.
Lists == {<<t1>>, <<t2, t1>>}
=============================================================================
