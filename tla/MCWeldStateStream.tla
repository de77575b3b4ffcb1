------------------------- MODULE MCWeldStateStream -------------------------
EXTENDS WeldStateStream

\* Different in every word of every frame, and with bytes that look like a CR and
\* a LF at the end of every other one.
MCData == [k \in 1..MaxSeq |->
             [i \in 1..Fields |-> IF i = Fields /\ k % 2 = 1 THEN 2573 ELSE 16 * k + i]]
=============================================================================
