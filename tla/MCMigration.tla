---------------------------- MODULE MCMigration ----------------------------
EXTENDS Migration

CONSTANTS s1, c1, c2, p1, p2

Homes == [c \in {s1, c1, c2} |-> IF c = c2 THEN p2 ELSE p1]
=============================================================================
