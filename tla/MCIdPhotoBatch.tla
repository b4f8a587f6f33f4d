--------------------------- MODULE MCIdPhotoBatch ---------------------------
(* A small instance of IdPhotoBatch: the first two people share a batch.   *)
EXTENDS IdPhotoBatch

CONSTANTS b1, b2

MCBatchOf == [p \in Person |-> IF p <= 2 THEN b1 ELSE b2]
=============================================================================
