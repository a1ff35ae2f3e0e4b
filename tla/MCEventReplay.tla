--------------------------- MODULE MCEventReplay ---------------------------
(***************************************************************************)
(* TLC instance: two metrics and two clients, so that matching and other   *)
(* events alternate; timestamps fall while event IDs rise; three slots.    *)
(***************************************************************************)
EXTENDS EventReplay

CONSTANTS cpu, mem, a1, a2

M(n, ts, v) == [name |-> n, timestamp_ms |-> ts, value |-> v, tags |-> {}]
B(c, id, ms) == [client_id |-> c, batch_id |-> id, metrics |-> ms]

MCBatches ==
  { B(a1, 1, <<M(cpu, 4, 10), M(mem, 4, 11), M(cpu, 3, 12)>>),
    B(a1, 2, <<M(cpu, 2, 20), M(cpu, 5, 21)>>),
    B(a2, 3, <<M(cpu, 6, 30)>>),
    B(a1, 4, <<M(cpu, 1, 40)>>) }

MCSubscription ==
  [metric_name |-> cpu, tags_filter |-> {}, client_id |-> a1]
=============================================================================
