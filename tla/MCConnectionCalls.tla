------------------------- MODULE MCConnectionCalls -------------------------
EXTENDS ConnectionCalls

CONSTANTS a1, a2, s1, up, down

One == [c \in Calls |-> up]
Pair == [c \in Calls |-> IF c = a2 THEN down ELSE up]
=============================================================================
