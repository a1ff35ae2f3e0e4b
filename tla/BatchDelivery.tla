--------------------------- MODULE BatchDelivery ---------------------------
(***************************************************************************)
(* From the Agent's retry queue to the Aggregator's store and back: the    *)
(* queue is the component PendingBatchQueue, the store is any backend that *)
(* keeps the promise of TimeSeriesStore.                                   *)
(*                                                                         *)
(* The gRPC sender and the StreamMetrics handler between them are not      *)
(* written yet.  They are external, and as general as the two components   *)
(* and the messages of proto/metrics.proto allow: a stream is FIFO in each *)
(* direction; when it breaks, any prefix of the requests under way may     *)
(* still reach the handler, whose answers are lost, and any prefix of the  *)
(* ACKs under way was already read, and is applied to the queue whenever   *)
(* the Agent gets to it; a new stream starts with reset_in_flight().  An   *)
(* exception out of commit_batch() ends the stream, as it does out of any  *)
(* gRPC handler: that is a break that drops the request.  Both processes   *)
(* may restart, and neither persists anything.                             *)
(*                                                                         *)
(* A batch is its ID; that one is never used twice is what IdsUnique in    *)
(* BatchBuilder says, short of two sessions with one nonce.  Each carries  *)
(* one metric, whose value stands for the batch.                           *)
(***************************************************************************)
EXTENDS PendingBatchQueue, Integers, FiniteSets

CONSTANTS client_id, metric_name,
          Empty, NonFinite,
          PerMetric,   \* capacity_per_metric_ of the store
          MaxEventId,
          MaxFaults    \* bound: broken streams, failed copies and restarts

VARIABLES built,       \* the IDs the Agent's builder has used
          connected,   \* is there a stream?
          requests,    \* MetricBatch messages under way on it
          acks,        \* BatchAck messages under way, or read and not yet applied
          orphans,     \* batches a handler of a broken stream still works on
          retained, committed_batch_ids, current_event_id,   \* the store
          unsent,      \* IDs marked on this stream whose copy failed
          lost,        \* history: IDs the Agent gave up
          forgotten,   \* history: IDs committed by an Aggregator that has ended
          faults

queueVars  == vars
streamVars == <<connected, requests, acks, orphans, unsent>>
storeVars  == <<retained, committed_batch_ids, current_event_id>>
history    == <<built, lost, forgotten, faults>>
dvars      == <<queueVars, streamVars, storeVars, history>>

MetricBatch(id) ==
  [client_id |-> client_id,
   batch_id  |-> id,
   metrics   |-> <<[name |-> metric_name, timestamp_ms |-> 0, value |-> id, tags |-> {}]>>]

Store == INSTANCE TimeSeriesStore
           WITH Batches <- {MetricBatch(id) : id \in Ids},
                Names <- {metric_name},
                Capacity <- PerMetric

DInit == /\ Init
         /\ Store!Init
         /\ connected = FALSE
         /\ requests = <<>> /\ acks = <<>> /\ orphans = {} /\ unsent = {}
         /\ built = {} /\ lost = {} /\ forgotten = {}
         /\ faults = 0

-----------------------------------------------------------------------------
\* IDs that are in the queue before the step, or meant to enter it, and are not
\* there after it.
GivenUp(ids) == lost' = lost \cup (ids \ QueuedIds')

\* A sample set is collected, built into a batch and offered to the queue.
BuildAndEnqueue(id) ==
  /\ id \notin built
  /\ built' = built \cup {id}
  /\ Enqueue(id) \/ EnqueueThrows(id)
  /\ GivenUp(QueuedIds \cup {id})
  /\ UNCHANGED <<streamVars, storeVars, forgotten, faults>>

Send ==
  /\ connected
  /\ MarkNextInFlight
  /\ \E i \in DOMAIN batches :
        IsOldestPending(i) /\ requests' = Append(requests, batches[i].batch_id)
  /\ UNCHANGED <<connected, acks, orphans, unsent, storeVars, history>>

\* mark_next_in_flight() sets the flag and then copies the batch, which may throw
\* std::bad_alloc: the entry is in flight and the sender, which goes on, was
\* given nothing to send.  Nothing short of reset_in_flight() takes the flag back.
SendThrows ==
  /\ connected
  /\ faults < MaxFaults /\ faults' = faults + 1
  /\ MarkNextInFlight
  /\ \E i \in DOMAIN batches :
        IsOldestPending(i) /\ unsent' = unsent \cup {batches[i].batch_id}
  /\ UNCHANGED <<connected, requests, acks, orphans, storeVars, built, lost, forgotten>>

\* commit_batch(): a commit or a duplicate, both of which are acknowledged.
CommitOrDuplicate(id) ==
  \/ Store!Commit(MetricBatch(id))
  \/ id \in committed_batch_ids /\ UNCHANGED storeVars

HandleRequest ==
  /\ requests # <<>>
  /\ CommitOrDuplicate(Head(requests))
  /\ requests' = Tail(requests)
  /\ acks' = Append(acks, Head(requests))
  /\ UNCHANGED <<queueVars, connected, orphans, unsent, history>>

HandleOrphan(id) ==
  /\ id \in orphans
  /\ CommitOrDuplicate(id)
  /\ orphans' = orphans \ {id}
  /\ UNCHANGED <<queueVars, connected, requests, acks, unsent, history>>

ReceiveAck ==
  /\ acks # <<>>
  /\ Acknowledge(Head(acks)) \/ AcknowledgeUnknown(Head(acks))
  /\ acks' = Tail(acks)
  /\ UNCHANGED <<connected, requests, orphans, unsent, storeVars, history>>

-----------------------------------------------------------------------------
\* The stream is over, and with it what unsent is about.
Fault == /\ faults < MaxFaults /\ faults' = faults + 1
         /\ connected' = FALSE /\ unsent' = {}

RequestsBreak == /\ requests' = <<>>
                 /\ \E k \in 0..Len(requests) :
                       orphans' = orphans \cup {requests[i] : i \in 1..k}

AcksBreak == IF connected THEN \E k \in 0..Len(acks) : acks' = SubSeq(acks, 1, k)
                          ELSE UNCHANGED acks

Break == /\ connected
         /\ Fault
         /\ RequestsBreak
         /\ AcksBreak
         /\ UNCHANGED <<queueVars, storeVars, built, lost, forgotten>>

Reconnect == /\ ~connected
             /\ ResetInFlight
             /\ connected' = TRUE
             /\ UNCHANGED <<requests, acks, orphans, unsent, storeVars, history>>

\* A new Agent process has an empty queue and a new session nonce.
AgentRestart ==
  /\ Fault
  /\ batches' = <<>> /\ dropped_batches' = 0 /\ submitted' = 0 /\ acked' = 0
  /\ RequestsBreak
  /\ acks' = <<>>
  /\ GivenUp(QueuedIds)
  /\ UNCHANGED <<storeVars, built, forgotten>>

\* A new Aggregator process has an empty store: what the old one had committed is
\* gone, also the batches whose ACKs were read or applied.
AggregatorRestart ==
  /\ Fault
  /\ retained' = {} /\ committed_batch_ids' = {} /\ current_event_id' = 0
  /\ forgotten' = forgotten \cup committed_batch_ids
  /\ requests' = <<>> /\ orphans' = {}
  /\ AcksBreak
  /\ UNCHANGED <<queueVars, built, lost>>

DNext == \/ \E id \in Ids : BuildAndEnqueue(id) \/ HandleOrphan(id)
         \/ Send \/ SendThrows \/ HandleRequest \/ ReceiveAck
         \/ Break \/ Reconnect
         \/ AgentRestart \/ AggregatorRestart

DSpec == DInit /\ [][DNext]_dvars

\* The sender, the handler and the ACK reader keep running and the Agent keeps
\* reconnecting; an orphaned request may never be handled.
DFairness == /\ WF_dvars(Send)
             /\ WF_dvars(HandleRequest)
             /\ WF_dvars(ReceiveAck)
             /\ WF_dvars(Reconnect)

DFairSpec == DSpec /\ DFairness

-----------------------------------------------------------------------------
Elements(s) == {s[i] : i \in DOMAIN s}

\* A batch the Agent built leaves its queue only because the Agent gave it up
\* (overflow, bad_alloc, end of its process) or once an Aggregator has committed
\* it: no late, repeated or foreign ACK retires a batch that was never committed.
\* That is less than "durably committed" (metrics.proto:36): the process that
\* committed the batch may have ended, before or after the ACK was applied, and
\* its store with it.  Such a batch is forgotten: no store has it, and neither
\* side counts the loss.
RetiredOnlyOnceCommitted ==
  \A id \in built : id \in QueuedIds \cup lost \cup committed_batch_ids \cup forgotten

\* However often a batch is sent, an Aggregator process stores it once, and the
\* event IDs count the distinct batches: at-least-once delivery from the queue
\* and the duplicate check of the store make effectively-once.
StoredOnce ==
  /\ current_event_id = Cardinality(committed_batch_ids)
  /\ \A id \in Ids : Cardinality({s \in retained : s.value = id}) <= 1

\* An in-flight entry is never eligible for sending, so while a stream is up
\* its answer must still be on the way; otherwise it would hold its slot until
\* the stream breaks.  reset_in_flight() guarantees it across streams.  Excepted
\* are the entries that mark_next_in_flight() marked and failed to copy: they do
\* hold their slots, though nobody is "already awaiting an acknowledgement"
\* (pending_batch_queue.cpp:49) of them.
AnswerOnTheWay ==
  connected => InFlight \subseteq Elements(requests) \cup Elements(acks) \cup unsent

\* Once the faults are over and no batch is added, the queue drains, but for the
\* batches whose copy failed on the stream that holds: if none did, it is empty.
QueueDrains == <>[](QueuedIds \subseteq unsent)
=============================================================================
