--------------------------- MODULE MetricBatches ---------------------------
(***************************************************************************)
(* What the Aggregator requires of a batch, and how it stores its metrics. *)
(***************************************************************************)
EXTENDS Integers, Sequences

CONSTANTS Empty,     \* the empty string in an identity or name field
          NonFinite  \* a NaN or infinite metric value

Metrics(b) == {b.metrics[i] : i \in DOMAIN b.metrics}

\* validate_batch()
IsValid(b) == /\ b.client_id # Empty
              /\ b.batch_id # Empty
              /\ b.metrics # <<>>
              /\ \A m \in Metrics(b) : m.name # Empty /\ m.value # NonFinite

\* The copy of the i-th metric of b that is stored with event ID base + i: its
\* source is the batch's client, whatever the Agent wrote there.
Stored(b, i, base) == [name             |-> b.metrics[i].name,
                       timestamp_ms     |-> b.metrics[i].timestamp_ms,
                       value            |-> b.metrics[i].value,
                       tags             |-> b.metrics[i].tags,
                       source_client_id |-> b.client_id,
                       event_id         |-> base + i]

StoredBatch(b, base) == {Stored(b, i, base) : i \in DOMAIN b.metrics}

\* The order of samples within a metric: timestamp, then event ID.
Older(s, t) == \/ s.timestamp_ms < t.timestamp_ms
               \/ /\ s.timestamp_ms = t.timestamp_ms
                  /\ s.event_id < t.event_id
=============================================================================
