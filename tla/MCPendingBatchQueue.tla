------------------------ MODULE MCPendingBatchQueue ------------------------
(* TLC instance of PendingBatchQueue: the batch IDs are interchangeable.   *)
EXTENDS PendingBatchQueue

IdSymmetry == Permutations(Ids)
=============================================================================
