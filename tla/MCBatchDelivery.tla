-------------------------- MODULE MCBatchDelivery --------------------------
(* TLC instance of BatchDelivery: three batches for a queue of two.        *)
EXTENDS BatchDelivery
=============================================================================
