-------------------------- MODULE TimeSeriesStore --------------------------
(***************************************************************************)
(* What cpp/aggregator/i_time_series_store.h promises of any storage       *)
(* backend: a batch and all of its metrics are committed in one step, a    *)
(* batch ID that was committed before changes nothing, and every stored    *)
(* sample carries the next global event ID.  A bounded backend may forget  *)
(* samples, but only the oldest ones of a metric that is at its capacity.  *)
(*                                                                         *)
(* The retained samples are a set: how a backend orders or indexes them is *)
(* not part of the promise.                                                *)
(***************************************************************************)
EXTENDS MetricBatches, FiniteSets

CONSTANTS Batches,         \* the batches that are ever presented
          Names,           \* metric names
          Capacity,        \* capacity_per_metric_, at least 1
          MaxEventId       \* 2^63 - 1 in the code

VARIABLES retained,            \* the samples a query can return
          committed_batch_ids, \* IDs of the batches committed so far
          current_event_id     \* the latest event ID, zero at the start

storeVars == <<retained, committed_batch_ids, current_event_id>>

\* The part of samples that the per-metric capacity leaves: a sample goes once
\* Capacity newer ones of its metric are there.
Newest(samples) ==
  {s \in samples :
     Cardinality({t \in samples : t.name = s.name /\ Older(s, t)}) < Capacity}

Init == /\ retained = {}
        /\ committed_batch_ids = {}
        /\ current_event_id = 0

\* Faulty variant of the commit below, for mutation checks only.
CommitAgain(b) ==
  /\ IsValid(b)
  /\ Len(b.metrics) <= MaxEventId - current_event_id
  /\ committed_batch_ids' = committed_batch_ids \cup {b.batch_id}
  /\ current_event_id' = current_event_id + Len(b.metrics)
  /\ retained' = Newest(retained \cup StoredBatch(b, current_event_id))

\* kCommitted
Commit(b) ==
  /\ IsValid(b)
  /\ b.batch_id \notin committed_batch_ids
  /\ Len(b.metrics) <= MaxEventId - current_event_id
  /\ committed_batch_ids' = committed_batch_ids \cup {b.batch_id}
  /\ current_event_id' = current_event_id + Len(b.metrics)
  /\ retained' = Newest(retained \cup StoredBatch(b, current_event_id))

Next == \E b \in Batches : Commit(b)

Spec == Init /\ [][Next]_storeVars
=============================================================================
