--------------------------- MODULE MCEventOutbox ----------------------------
(* TLC instances of EventOutbox.                                           *)
EXTENDS EventOutbox, TLC

\* The last row alone exceeds the byte limit; two others fill a batch.
RowSizes == [r \in Rows |-> IF r = MaxRow THEN BytesMax + 1 ELSE 1]

\* Producers and workers are interchangeable in the safety run.
Interchangeable == Permutations(Workers) \cup Permutations(Producers)
=============================================================================
