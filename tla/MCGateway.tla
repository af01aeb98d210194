------------------------------ MODULE MCGateway ------------------------------
EXTENDS Gateway
CONSTANTS ada, bea, letter, relic

\* The letter is signed for one of the two households its sender may belong to
\* (so it is forged to the other); the relic lies in a log of an older version.
Signed == [m \in Message |-> IF m = letter THEN ada ELSE None]
=============================================================================
