-------------------- MODULE MCInMemoryTimeSeriesStore --------------------
(***************************************************************************)
(* TLC instance: two threads, two metrics, capacity two.  The batches      *)
(* bring late samples, equal timestamps within and across batches, one     *)
(* batch of two metrics, a second batch under an ID that is already taken, *)
(* and two batches that fail validation.                                   *)
(***************************************************************************)
EXTENDS InMemoryTimeSeriesStore

CONSTANTS cpu, mem, a1, a2

M(n, ts, v) == [name |-> n, timestamp_ms |-> ts, value |-> v, tags |-> {}]
B(c, id, ms) == [client_id |-> c, batch_id |-> id, metrics |-> ms]

MCBatches ==
  { B(a1, 1, <<M(cpu, 2, 10), M(cpu, 2, 11), M(mem, 2, 12)>>),
    B(a1, 2, <<M(cpu, 1, 20)>>),
    B(a2, 3, <<M(mem, 3, 30), M(cpu, -1, 31), M(mem, 1, 32)>>),
    B(a2, 2, <<M(cpu, 3, 40)>>),
    B(a1, 5, <<M(mem, 2, 50), M(cpu, 2, 51)>>),
    B(Empty, 6, <<M(cpu, 2, 60)>>),
    B(a1, 7, <<M(cpu, 2, 70), M(mem, 2, NonFinite)>>) }
===========================================================================
