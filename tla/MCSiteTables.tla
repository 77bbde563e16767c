---- MODULE MCSiteTables ----
\* SiteTables with one user.
EXTENDS SiteTables

CONSTANTS c1, c2, u1
MCCallers == {c1, c2}
MCUsers == {u1}
MCAllOps == AllOps
Symmetric == Permutations(MCCallers)
====
