--------------------------- MODULE MCBatchBuilder ---------------------------
(***************************************************************************)
(* TLC instance: two threads, two nonces, a client and an unset identity,  *)
(* three builders; payloads of every class build() tells apart.            *)
(***************************************************************************)
EXTENDS BatchBuilder, TLC

CONSTANTS a1, cpu, t1, t2, n1, n2

M(name, value) == [name |-> name, timestamp_ms |-> 1, value |-> value, tags |-> {}]

MCMetricLists == {<<>>, <<M(cpu, 1)>>, <<M(cpu, 1), M(cpu, NonFinite)>>, <<M(Empty, 1)>>}

Symmetry == Permutations({t1, t2}) \cup Permutations({n1, n2})
=============================================================================
