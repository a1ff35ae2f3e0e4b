------------------------- MODULE PendingBatchQueue -------------------------
(***************************************************************************)
(* The Agent's retry queue, cpp/client/impl/pending_batch_queue: a bounded *)
(* FIFO of the batches that have no commit acknowledgement yet.            *)
(*                                                                         *)
(* Every method that touches the deque runs under one std::mutex from its  *)
(* first read to its last write, so each method is one action here, split  *)
(* by the result it returns.  The only access outside the mutex is the     *)
(* atomic load of dropped_batches(), a read of one variable.               *)
(*                                                                         *)
(* A batch is its batch ID: the queue never looks at the payload again     *)
(* once enqueue() has checked that it is not empty.                        *)
(***************************************************************************)
EXTENDS Naturals, Sequences, SequencesExt

CONSTANTS Ids,               \* IDs of the well-formed batches callers enqueue
          RequestedCapacity, \* constructor argument; 0 asks for the default
          kDefaultCapacity,  \* 256 in the code
          MaxSubmitted       \* bound: accepted + rejected enqueue calls

ASSUME CapacityAssumption ==
         /\ RequestedCapacity \in Nat
         /\ kDefaultCapacity \in Nat \ {0}
         /\ MaxSubmitted \in Nat

VARIABLES batches,         \* std::deque<PendingBatch>
          dropped_batches, \* std::atomic<uint64_t>
          submitted,       \* history: enqueue calls that accepted or rejected
          acked            \* history: acknowledge calls that returned true

vars == <<batches, dropped_batches, submitted, acked>>

\* The constructor's normalisation of a zero capacity.
capacity_ == IF RequestedCapacity = 0 THEN kDefaultCapacity
                                      ELSE RequestedCapacity

PendingBatch == [batch_id : Ids, in_flight : BOOLEAN]

QueuedIds == {batches[i].batch_id : i \in DOMAIN batches}
InFlight  == {batches[i].batch_id : i \in {j \in DOMAIN batches : batches[j].in_flight}}

Full == Len(batches) = capacity_

\* The entry std::ranges::find_if(!in_flight) stops at.
IsOldestPending(i) == /\ ~batches[i].in_flight
                      /\ \A j \in 1..(i - 1) : batches[j].in_flight

NewEntry(id) == [batch_id |-> id, in_flight |-> FALSE]

Init == /\ batches = <<>>
        /\ dropped_batches = 0
        /\ submitted = 0
        /\ acked = 0

-----------------------------------------------------------------------------
(* Faulty variants of the actions below, for mutation checks only.         *)

NoDuplicateCheck(id) ==
  /\ ~Full
  /\ batches' = Append(batches, NewEntry(id))
  /\ submitted' = submitted + 1
  /\ UNCHANGED <<dropped_batches, acked>>

CountWithoutErase(id) ==
  /\ id \notin QueuedIds
  /\ Full
  /\ \E i \in DOMAIN batches : IsOldestPending(i)
  /\ batches' = Append(batches, NewEntry(id))
  /\ dropped_batches' = dropped_batches + 1
  /\ submitted' = submitted + 1
  /\ UNCHANGED acked

DropFront(id) ==
  /\ id \notin QueuedIds
  /\ Full
  /\ batches' = Append(Tail(batches), NewEntry(id))
  /\ dropped_batches' = dropped_batches + 1
  /\ submitted' = submitted + 1
  /\ UNCHANGED acked

RejectUncounted(id) ==
  /\ id \notin QueuedIds
  /\ Full
  /\ \A i \in DOMAIN batches : batches[i].in_flight
  /\ submitted' = submitted + 1
  /\ UNCHANGED <<batches, dropped_batches, acked>>

MarkNewest ==
  /\ batches # <<>>
  /\ ~batches[Len(batches)].in_flight
  /\ batches' = [batches EXCEPT ![Len(batches)].in_flight = TRUE]
  /\ UNCHANGED <<dropped_batches, submitted, acked>>

PopFront(id) ==
  /\ batches # <<>>
  /\ batches' = Tail(batches)
  /\ acked' = acked + 1
  /\ UNCHANGED <<dropped_batches, submitted>>

ResetNothing == UNCHANGED vars

ResetFirst ==
  /\ batches' = [i \in DOMAIN batches |->
                   IF i = 1 THEN [batches[i] EXCEPT !.in_flight = FALSE] ELSE batches[i]]
  /\ UNCHANGED <<dropped_batches, submitted, acked>>

-----------------------------------------------------------------------------
\* kInvalidBatch (checked before the lock, for a batch without client ID,
\* batch ID or metrics) and kDuplicateBatch: nothing changes.
EnqueueInvalid == UNCHANGED vars

EnqueueDuplicate(id) == id \in QueuedIds /\ UNCHANGED vars

\* kEnqueued
EnqueueWithRoom(id) ==
  /\ id \notin QueuedIds
  /\ ~Full
  /\ batches' = Append(batches, NewEntry(id))
  /\ submitted' = submitted + 1
  /\ UNCHANGED <<dropped_batches, acked>>

\* kDroppedOldest: erase the oldest entry that is not in flight, append.
EnqueueDropOldest(id) ==
  /\ id \notin QueuedIds
  /\ Full
  /\ \E i \in DOMAIN batches :
        /\ IsOldestPending(i)
        /\ batches' = Append(RemoveAt(batches, i), NewEntry(id))
  /\ dropped_batches' = dropped_batches + 1
  /\ submitted' = submitted + 1
  /\ UNCHANGED acked

\* kRejectedAllInFlight: the incoming batch is the one that is dropped.
EnqueueReject(id) ==
  /\ id \notin QueuedIds
  /\ Full
  /\ \A i \in DOMAIN batches : batches[i].in_flight
  /\ dropped_batches' = dropped_batches + 1
  /\ submitted' = submitted + 1
  /\ UNCHANGED <<batches, acked>>

\* push_back may throw std::bad_alloc after the oldest entry was erased and
\* counted: the lock is released, the caller gets an exception, no result.
\* (A throw with room left changes nothing.)
EnqueueThrows(id) ==
  /\ id \notin QueuedIds
  /\ Full
  /\ \E i \in DOMAIN batches :
        /\ IsOldestPending(i)
        /\ batches' = RemoveAt(batches, i)
  /\ dropped_batches' = dropped_batches + 1
  /\ UNCHANGED <<submitted, acked>>

\* mark_next_in_flight(): nullopt if there is no pending entry.  The flag is set
\* before the batch is copied for the caller, so this is what it does to the
\* queue also when the copy throws std::bad_alloc and the caller gets nothing.
MarkNextInFlight ==
  /\ \E i \in DOMAIN batches :
        /\ IsOldestPending(i)
        /\ batches' = [batches EXCEPT ![i].in_flight = TRUE]
  /\ UNCHANGED <<dropped_batches, submitted, acked>>

\* acknowledge(): any entry with the ID, in flight or not, is removed.
Acknowledge(id) ==
  /\ \E i \in DOMAIN batches :
        /\ batches[i].batch_id = id
        /\ batches' = RemoveAt(batches, i)
  /\ acked' = acked + 1
  /\ UNCHANGED <<dropped_batches, submitted>>

\* acknowledge() of an ID that is not queued returns false.
AcknowledgeUnknown(id) == id \notin QueuedIds /\ UNCHANGED vars

ResetInFlight ==
  /\ batches' = [i \in DOMAIN batches |-> [batches[i] EXCEPT !.in_flight = FALSE]]
  /\ UNCHANGED <<dropped_batches, submitted, acked>>

Enqueue(id) == /\ submitted < MaxSubmitted
               /\ \/ EnqueueWithRoom(id)
                  \/ EnqueueDropOldest(id)
                  \/ EnqueueReject(id)

Next == \/ EnqueueInvalid
        \/ \E id \in Ids : \/ Enqueue(id)
                           \/ EnqueueDuplicate(id)
                           \/ EnqueueThrows(id)
                           \/ Acknowledge(id)
                           \/ AcknowledgeUnknown(id)
        \/ MarkNextInFlight
        \/ ResetInFlight

Spec == Init /\ [][Next]_vars

-----------------------------------------------------------------------------
\* The state has the shape of the class's members; the deque never outgrows
\* capacity_ although enqueue() compares its size with == and not >=.
TypeOK == /\ batches \in Seq(PendingBatch)
          /\ Len(batches) <= capacity_
          /\ dropped_batches \in Nat
          /\ submitted \in Nat
          /\ acked \in Nat

\* "One logical batch has one queue entry" (pending_batch_queue.cpp:18): so an
\* acknowledgement, which erases the first match only, retires the batch.
UniqueIds == \A i, j \in DOMAIN batches :
                batches[i].batch_id = batches[j].batch_id => i = j

\* The in-flight entries are always a prefix of the deque.  Sends, ACKs in any
\* order, overflow in the middle of the deque and reconnects keep it so; it is
\* what makes find_if(!in_flight) resume in FIFO order: no batch is ever sent
\* while an older one waits.
InFlightPrefix == \A i, j \in DOMAIN batches :
                     i < j /\ batches[j].in_flight => batches[i].in_flight

\* No batch disappears unaccounted: every enqueue call that was accepted or
\* rejected is still queued, was acknowledged, or is counted by
\* dropped_batches(), also when push_back throws after an eviction.
Accounting == submitted = Len(batches) + acked + dropped_batches

\* Overflow never costs a batch that may still be acknowledged: a step that
\* counts a drop leaves every in-flight batch queued and in flight.
DropsSpareInFlight ==
  [][dropped_batches' # dropped_batches => InFlight \subseteq InFlight']_vars
=============================================================================
