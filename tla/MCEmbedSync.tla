----------------------------- MODULE MCEmbedSync -----------------------------
\* Model values and tables for TLC.
EXTENDS EmbedSync
CONSTANTS p1, p2, r1, r2, r3, x, y
OneTable == [r \in Rows |-> 1]
TwoTables == [r \in Rows |-> IF r = r3 THEN 2 ELSE 1]
=============================================================================
