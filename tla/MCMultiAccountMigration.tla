---- MODULE MCMultiAccountMigration ----
EXTENDS MultiAccountMigration
CONSTANTS a, b, t1, t2

MCOwner == [t \in Tokens |-> IF t = t1 THEN a ELSE b]
====
