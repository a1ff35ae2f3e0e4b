------------------------- MODULE MCRangePagination -------------------------
(***************************************************************************)
(* TLC instance: one metric, three slots, pages of one sample.  Four       *)
(* batches by two clients bring seven samples in any order, with equal     *)
(* timestamps among them, one before the range and one with other tags.    *)
(***************************************************************************)
EXTENDS RangePagination

CONSTANTS cpu, a1, a2, host

M(ts, v, tags) == [name |-> cpu, timestamp_ms |-> ts, value |-> v, tags |-> tags]
B(c, id, ms) == [client_id |-> c, batch_id |-> id, metrics |-> ms]

MCBatches ==
  { B(a1, 1, <<M(2, 10, {host}), M(4, 11, {host})>>),
    B(a1, 2, <<M(3, 20, {host}), M(0, 5, {host})>>),
    B(a2, 3, <<M(3, 30, {host})>>),
    B(a1, 4, <<M(2, 40, {}), M(5, 41, {host})>>) }

MCRequest ==
  [metric_name |-> cpu, from_ms |-> 1, to_ms |-> 5, tags_filter |-> {host},
   client_id |-> None, page_size |-> 0, page_token |-> None]
=============================================================================
