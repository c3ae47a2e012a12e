---- MODULE MCAuthConfig ----
EXTENDS AuthConfig, TLC
CONSTANTS a, b, a1, a2, b1

MCOwner == [t \in Tokens |-> IF t = b1 THEN b ELSE a]
====
