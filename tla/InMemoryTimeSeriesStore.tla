---------------------- MODULE InMemoryTimeSeriesStore ----------------------
(***************************************************************************)
(* The in-memory backend, cpp/aggregator/impl/in_memory_time_series_store, *)
(* at the granularity of its reader/writer lock and of the calls inside    *)
(* commit_batch() that can throw.                                          *)
(*                                                                         *)
(* Several threads call commit_batch(); validation runs before the lock,   *)
(* everything else under it.  Queries hold the lock shared from their      *)
(* first read of the store to their last, so a query is a function of a    *)
(* state in which no writer holds the lock (mutex = None).             *)
(*                                                                         *)
(* The locals of commit_batch() that are only used under the lock          *)
(* (staged_buffers, next_event_id) belong to the thread that holds it.     *)
(***************************************************************************)
EXTENDS MetricBatches, FiniteSets, SequencesExt

CONSTANTS Writers,         \* threads that call commit_batch()
          Batches,         \* the batches they present
          Names,           \* non-empty metric names
          None,            \* no thread, no batch
          Capacity,        \* capacity_per_metric_ after normalisation
          MaxEventId       \* 2^63 - 1 in the code

ASSUME InMemoryAssumption ==
         /\ None \notin Writers \cup Batches
         /\ Empty \notin Names
         /\ Capacity \in Nat \ {0}
         /\ MaxEventId \in Nat
         /\ \A b \in Batches :
               /\ b = [client_id |-> b.client_id, batch_id |-> b.batch_id,
                       metrics |-> b.metrics]
               /\ b.metrics \in Seq(Metrics(b))
               /\ \A m \in Metrics(b) :
                     /\ m = [name |-> m.name, timestamp_ms |-> m.timestamp_ms,
                             value |-> m.value, tags |-> m.tags]
                     /\ m.name \in Names \cup {Empty}
                     /\ m.timestamp_ms \in Int

VARIABLES mutex,               \* the thread that holds mutex_ exclusively, or None
          metric_buffers,      \* name -> deque; <<>> also when the map has no entry
          committed_batch_ids,
          current_event_id,
          staged_buffers,      \* name -> staged deque, for the names in the map
          next_event_id,
          pc,                  \* where each thread is in commit_batch()
          batch,               \* the batch it presents
          commits              \* history: the batches committed, and the event
                               \* ID after which each one's samples start

store  == <<metric_buffers, committed_batch_ids, current_event_id, commits>>
locals == <<staged_buffers, next_event_id>>
vars   == <<mutex, store, locals, pc, batch>>

-----------------------------------------------------------------------------
\* Faulty variants of the two helpers below, for mutation checks only.
LowerBoundByTimestamp(buffer, stored, pos) ==
  \A i \in DOMAIN buffer :
     IF i < pos THEN buffer[i].timestamp_ms < stored.timestamp_ms
                ELSE buffer[i].timestamp_ms >= stored.timestamp_ms

DropBack(buffer, pos, stored) ==
  LET inserted == InsertAt(buffer, pos, stored)
  IN  IF Len(inserted) > Capacity THEN Front(inserted) ELSE inserted

\* Where insert_bounded_metric() puts a sample: behind every sample that is not
\* newer (upper_bound, or push_back when that is the end).
IsUpperBound(buffer, stored, pos) ==
  \A i \in DOMAIN buffer : IF i < pos THEN ~Older(stored, buffer[i])
                                      ELSE Older(stored, buffer[i])

\* insert_bounded_metric() without its lookup: insert at pos, then drop the
\* front if the buffer is over capacity (possibly the sample just inserted).
InsertBounded(buffer, pos, stored) ==
  LET inserted == InsertAt(buffer, pos, stored)
  IN  IF Len(inserted) > Capacity THEN Tail(inserted) ELSE inserted

NoBuffers == [n \in {} |-> <<>>]

Init == /\ mutex = None
        /\ metric_buffers = [n \in Names |-> <<>>]
        /\ committed_batch_ids = {}
        /\ current_event_id = 0
        /\ staged_buffers = NoBuffers
        /\ next_event_id = 0
        /\ pc = [w \in Writers |-> "idle"]
        /\ batch = [w \in Writers |-> None]
        /\ commits = {}

-----------------------------------------------------------------------------
Return(w) == /\ pc' = [pc EXCEPT ![w] = "idle"]
             /\ batch' = [batch EXCEPT ![w] = None]

\* The number of metrics of the batch that are staged.
Staged == next_event_id - current_event_id

\* The lock stays held and staging starts with copies of nothing.
EnterStaging(w) ==
  /\ mutex' = w
  /\ staged_buffers' = NoBuffers
  /\ next_event_id' = current_event_id
  /\ pc' = [pc EXCEPT ![w] = "staging"]
  /\ UNCHANGED <<store, batch>>

(* Faulty variants of the actions below, for mutation checks only.         *)

BeginUnlocked(w) ==
  /\ pc[w] = "waiting"
  /\ batch[w].batch_id \notin committed_batch_ids
  /\ Len(batch[w].metrics) <= MaxEventId - current_event_id
  /\ EnterStaging(w)

BeginUnchecked(w) ==
  /\ pc[w] = "waiting" /\ mutex = None
  /\ Len(batch[w].metrics) <= MaxEventId - current_event_id
  /\ EnterStaging(w)

StageSameAgain(w) ==
  LET stored == Stored(batch[w], Staged + 1, current_event_id)
      n      == stored.name
  IN  /\ pc[w] = "staging"
      /\ Staged < Len(batch[w].metrics)
      /\ staged_buffers' = [m \in DOMAIN staged_buffers \cup {n} |->
                              IF m = n THEN <<stored>> ELSE staged_buffers[m]]
      /\ UNCHANGED <<mutex, store, next_event_id, pc, batch>>

ThrowKeepsIds(w) ==
  /\ pc[w] = "staging"
  /\ mutex' = None
  /\ staged_buffers' = NoBuffers
  /\ current_event_id' = next_event_id
  /\ Return(w)
  /\ UNCHANGED <<metric_buffers, committed_batch_ids, next_event_id, commits>>

RecordEarly(w) ==
  /\ pc[w] = "staging"
  /\ committed_batch_ids' = committed_batch_ids \cup {batch[w].batch_id}
  /\ commits' = commits \cup {[batch |-> batch[w], base |-> current_event_id]}
  /\ pc' = [pc EXCEPT ![w] = "publishing"]
  /\ UNCHANGED <<mutex, metric_buffers, current_event_id, locals, batch>>

-----------------------------------------------------------------------------
\* kInvalidArgument: validation fails before the lock.
RejectInvalid(w, b) == pc[w] = "idle" /\ ~IsValid(b) /\ UNCHANGED vars

\* Validation passes; the thread waits for the lock.
CallCommit(w, b) ==
  /\ pc[w] = "idle"
  /\ IsValid(b)
  /\ pc' = [pc EXCEPT ![w] = "waiting"]
  /\ batch' = [batch EXCEPT ![w] = b]
  /\ UNCHANGED <<mutex, store, locals>>

\* The two early returns under the lock change nothing and release it:
\* kDuplicate, and kConstraint when the batch does not fit the event IDs left.
CommitDuplicate(w) ==
  /\ pc[w] = "waiting" /\ mutex = None
  /\ batch[w].batch_id \in committed_batch_ids
  /\ Return(w)
  /\ UNCHANGED <<mutex, store, locals>>

CommitExhausted(w) ==
  /\ pc[w] = "waiting" /\ mutex = None
  /\ batch[w].batch_id \notin committed_batch_ids
  /\ Len(batch[w].metrics) > MaxEventId - current_event_id
  /\ Return(w)
  /\ UNCHANGED <<mutex, store, locals>>

\* Both checks pass.
BeginCommit(w) ==
  /\ pc[w] = "waiting" /\ mutex = None
  /\ batch[w].batch_id \notin committed_batch_ids
  /\ Len(batch[w].metrics) <= MaxEventId - current_event_id
  /\ EnterStaging(w)

\* One round of the staging loop: on the first metric of a name its buffer is
\* copied, then the sample goes into the copy.
StageMetric(w) ==
  LET stored == Stored(batch[w], Staged + 1, current_event_id)
      n      == stored.name
      copy   == IF n \in DOMAIN staged_buffers THEN staged_buffers[n]
                                               ELSE metric_buffers[n]
  IN  /\ pc[w] = "staging"
      /\ Staged < Len(batch[w].metrics)
      /\ \E pos \in 1..(Len(copy) + 1) :
            /\ IsUpperBound(copy, stored, pos)
            /\ staged_buffers' =
                  [m \in DOMAIN staged_buffers \cup {n} |->
                     IF m = n THEN InsertBounded(copy, pos, stored)
                              ELSE staged_buffers[m]]
      /\ next_event_id' = next_event_id + 1
      /\ UNCHANGED <<mutex, store, pc, batch>>

\* std::bad_alloc from a copy, from reserve() or from inserting the batch ID:
\* the locals are destroyed and the lock is released.
CommitThrows(w) ==
  /\ pc[w] = "staging"
  /\ mutex' = None
  /\ staged_buffers' = NoBuffers
  /\ next_event_id' = current_event_id
  /\ Return(w)
  /\ UNCHANGED store

\* committed_batch_ids_.insert(): the last call that can throw, and the point
\* from which the batch is committed.
RecordBatchId(w) ==
  /\ pc[w] = "staging"
  /\ Staged = Len(batch[w].metrics)
  /\ committed_batch_ids' = committed_batch_ids \cup {batch[w].batch_id}
  /\ commits' = commits \cup {[batch |-> batch[w], base |-> current_event_id]}
  /\ pc' = [pc EXCEPT ![w] = "publishing"]
  /\ UNCHANGED <<mutex, metric_buffers, current_event_id, locals, batch>>

\* publish_staged_buffers(): one staged buffer is swapped, or its node moved.
PublishBuffer(w) ==
  /\ pc[w] = "publishing"
  /\ \E n \in DOMAIN staged_buffers :
        /\ metric_buffers' = [metric_buffers EXCEPT ![n] = staged_buffers[n]]
        /\ staged_buffers' = [m \in DOMAIN staged_buffers \ {n} |-> staged_buffers[m]]
  /\ UNCHANGED <<mutex, committed_batch_ids, current_event_id, next_event_id,
                 pc, batch, commits>>

\* Everything is published: the event ID advances, the lock is released and
\* kCommitted is returned.
FinishCommit(w) ==
  /\ pc[w] = "publishing"
  /\ DOMAIN staged_buffers = {}
  /\ current_event_id' = next_event_id
  /\ mutex' = None
  /\ Return(w)
  /\ UNCHANGED <<metric_buffers, committed_batch_ids, staged_buffers,
                 next_event_id, commits>>

\* What a thread that holds the lock does next, a throw aside.
Proceed(w) == StageMetric(w) \/ RecordBatchId(w) \/ PublishBuffer(w) \/ FinishCommit(w)

Next == \E w \in Writers :
          \/ \E b \in Batches : RejectInvalid(w, b) \/ CallCommit(w, b)
          \/ CommitDuplicate(w) \/ CommitExhausted(w) \/ BeginCommit(w)
          \/ Proceed(w)
          \/ CommitThrows(w)

\* The code under the lock never blocks, so the scheduler lets it go on.
\* Nothing is assumed about who gets the lock, nor about throws.
Fairness == \A w \in Writers : WF_vars(Proceed(w))

Spec == Init /\ [][Next]_vars

FairSpec == Spec /\ Fairness

-----------------------------------------------------------------------------
Retained(n) == {metric_buffers[n][i] : i \in DOMAIN metric_buffers[n]}

\* Every sample committed so far, evicted or not.
CommittedSamples == UNION {StoredBatch(c.batch, c.base) : c \in commits}

AllMetrics == UNION {Metrics(b) : b \in Batches}

StoredMetric == [name             : Names,
                 timestamp_ms     : Int,
                 value            : {m.value : m \in AllMetrics},
                 tags             : {m.tags : m \in AllMetrics},
                 source_client_id : {b.client_id : b \in Batches},
                 event_id         : Nat \ {0}]

\* The members have their types, and the lock is held by the one thread that is
\* past the duplicate check.
TypeOK ==
  /\ mutex \in Writers \cup {None}
  /\ metric_buffers \in [Names -> Seq(StoredMetric)]
  /\ committed_batch_ids \subseteq {b.batch_id : b \in Batches}
  /\ current_event_id \in 0..MaxEventId
  /\ DOMAIN staged_buffers \subseteq Names
  /\ staged_buffers \in [DOMAIN staged_buffers -> Seq(StoredMetric)]
  /\ next_event_id \in current_event_id..MaxEventId
  /\ pc \in [Writers -> {"idle", "waiting", "staging", "publishing"}]
  /\ batch \in [Writers -> Batches \cup {None}]
  /\ commits \subseteq [batch : Batches, base : 0..MaxEventId]
  /\ \A w \in Writers : /\ (pc[w] = "idle") <=> (batch[w] = None)
                        /\ (pc[w] \in {"staging", "publishing"}) <=> (mutex = w)

\* "Per-metric buffers are ordered by (timestamp_ms, event_id), including
\* out-of-order arrivals" (in_memory_time_series_store.h:19), stay within the
\* capacity, and hold samples of their own metric only.  The binary searches
\* and the reverse scan of the queries rely on it.
BuffersSorted ==
  \A n \in Names :
     /\ Len(metric_buffers[n]) <= Capacity
     /\ \A i \in DOMAIN metric_buffers[n] : metric_buffers[n][i].name = n
     /\ \A i, j \in DOMAIN metric_buffers[n] :
           i < j => Older(metric_buffers[n][i], metric_buffers[n][j])

\* Whenever a query can run, each buffer holds exactly what its capacity leaves
\* of everything ever committed: a committed sample is missing only if the
\* buffer is full of newer ones.  No duplicate, aborted or half-published batch
\* shows, and no order of arrival loses a sample that a sorted store would keep.
RetainsNewest ==
  mutex = None =>
    \A n \in Names :
       /\ Retained(n) \subseteq CommittedSamples
       /\ \A s \in CommittedSamples :
             s.name = n /\ s \notin Retained(n) =>
                /\ Len(metric_buffers[n]) = Capacity
                /\ \A t \in Retained(n) : Older(s, t)

\* "An existing batch ID is a successful duplicate outcome rather than a second
\* insertion" (i_time_series_store.h:40), also when several threads present the
\* same ID at once; and an ID is recorded exactly for the batches committed.
CommittedOnce ==
  /\ \A c, d \in commits : c.batch.batch_id = d.batch.batch_id => c = d
  /\ committed_batch_ids = {c.batch.batch_id : c \in commits}

\* Event IDs are "global, monotonic, beginning at one": those of the committed
\* samples are 1..current_event_id, each used once, with no gap after an abort.
DenseEventIds ==
  mutex = None =>
    /\ {s.event_id : s \in CommittedSamples} = 1..current_event_id
    /\ \A s, t \in CommittedSamples : s.event_id = t.event_id => s = t

\* A commit that got the lock ends and gives it back.
CommitEnds == \A w \in Writers : (mutex = w) ~> (pc[w] = "idle")

-----------------------------------------------------------------------------
(* The interface specification.  The commit takes effect when the batch ID *)
(* is recorded; a buffer not yet swapped already counts as published.      *)

Publishing == \E w \in Writers : pc[w] = "publishing"

PublishedBuffer(n) ==
  IF Publishing /\ n \in DOMAIN staged_buffers THEN staged_buffers[n]
                                               ELSE metric_buffers[n]

Interface ==
  INSTANCE TimeSeriesStore
    WITH retained <- UNION {{PublishedBuffer(n)[i] : i \in DOMAIN PublishedBuffer(n)} : n \in Names},
         current_event_id <- IF Publishing THEN next_event_id ELSE current_event_id

\* commit_batch() is one atomic step of the interface, or no step at all.
ImplementsInterface == Interface!Spec
=============================================================================
