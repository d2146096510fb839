--------------------------- MODULE MCDurableLedger ---------------------------
EXTENDS DurableLedger

MCRecord(c, r, q) == [caller |-> 1, primary |-> c, secondary |-> r, request |-> q]

\* Two records without a common coordinate, and one that shares the challenge of
\* the first and the request of the second.
MCCandidate == {MCRecord(1, 1, 1), MCRecord(2, 2, 2), MCRecord(1, 3, 2)}
=============================================================================
