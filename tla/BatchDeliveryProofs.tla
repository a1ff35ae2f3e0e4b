------------------------ MODULE BatchDeliveryProofs ------------------------
(***************************************************************************)
(* Proofs about the retry queue, for every capacity, set of batch IDs and  *)
(* bound on the number of enqueue calls; and about the path of a batch     *)
(* from the queue to the store and of its acknowledgement back, for every  *)
(* number of faults as well.                                               *)
(*                                                                         *)
(* The conjunction of the queue's own invariants is inductive.  The        *)
(* composition keeps it because each of its steps is a step of the queue,  *)
(* leaves it alone, or starts it anew.  What has to be added is what the   *)
(* messages mean: an ACK under way is for a batch the Aggregator or one    *)
(* before it committed, and a batch in flight on a live stream has its     *)
(* request or its ACK under way, or is one whose copy failed.              *)
(***************************************************************************)
EXTENDS BatchDelivery, SequenceTheorems, FiniteSetTheorems, TLAPS

IInv == TypeOK /\ UniqueIds /\ InFlightPrefix /\ Accounting

-----------------------------------------------------------------------------
\* Erasing position i of a deque: one entry fewer, the entries before i stay,
\* the later ones move one position to the front.
LEMMA RemoveAtProperties ==
  ASSUME NEW S, NEW s \in Seq(S), NEW i \in 1..Len(s)
  PROVE  /\ RemoveAt(s, i) \in Seq(S)
         /\ Len(RemoveAt(s, i)) = Len(s) - 1
         /\ \A j \in 1..(Len(s) - 1) :
               RemoveAt(s, i)[j] = IF j < i THEN s[j] ELSE s[j + 1]
<1> DEFINE a == SubSeq(s, 1, i - 1)
           b == SubSeq(s, i + 1, Len(s))
<1>1. Len(s) \in Nat /\ i \in Int /\ \A j \in 1..Len(s) : s[j] \in S
  BY LenProperties, ElementOfSeq
<1>2. /\ a \in Seq(S) /\ Len(a) = i - 1
      /\ \A j \in 1..(i - 1) : a[j] = s[j]
  BY <1>1, SubSeqProperties
<1>3. /\ b \in Seq(S) /\ Len(b) = Len(s) - i
      /\ \A j \in 1..(Len(s) - i) : b[j] = s[i + j]
  BY <1>1, SubSeqProperties
<1>r. RemoveAt(s, i) = a \o b
  BY DEF RemoveAt
<1> HIDE DEF a, b
<1>4. /\ a \o b \in Seq(S)
      /\ Len(a \o b) = Len(a) + Len(b)
      /\ \A j \in 1..(Len(a) + Len(b)) :
            (a \o b)[j] = IF j <= Len(a) THEN a[j] ELSE b[j - Len(a)]
  BY <1>2, <1>3, ConcatProperties
<1>5. \A j \in 1..(Len(s) - 1) :
         (a \o b)[j] = IF j < i THEN s[j] ELSE s[j + 1]
  <2> SUFFICES ASSUME NEW j \in 1..(Len(s) - 1)
               PROVE  (a \o b)[j] = IF j < i THEN s[j] ELSE s[j + 1]
    OBVIOUS
  <2>1. (a \o b)[j] = IF j <= i - 1 THEN a[j] ELSE b[j - (i - 1)]
    BY <1>1, <1>2, <1>3, <1>4
  <2>2. CASE j < i
    BY <2>1, <2>2, <1>1, <1>2
  <2>3. CASE ~(j < i)
    <3>1. j - (i - 1) \in 1..(Len(s) - i) /\ i + (j - (i - 1)) = j + 1
      BY <2>3, <1>1
    <3> QED BY <3>1, <2>1, <2>3, <1>1, <1>3
  <2> QED BY <2>2, <2>3
<1> QED BY <1>1, <1>2, <1>3, <1>4, <1>5, <1>r

\* The two queue edits the actions are built from keep IDs unique and the
\* in-flight entries in front.
QueueOK(q) ==
  /\ q \in Seq(PendingBatch)
  /\ \A i, j \in DOMAIN q : q[i].batch_id = q[j].batch_id => i = j
  /\ \A i, j \in DOMAIN q : i < j /\ q[j].in_flight => q[i].in_flight

\* Erasing an entry, as acknowledge() and a drop do, keeps the structure.
LEMMA RemoveKeepsQueueOK ==
  ASSUME NEW q, QueueOK(q), NEW i \in DOMAIN q
  PROVE  /\ QueueOK(RemoveAt(q, i))
         /\ \A j \in DOMAIN RemoveAt(q, i) :
               \E k \in DOMAIN q : k # i /\ RemoveAt(q, i)[j] = q[k]
<1> DEFINE r == RemoveAt(q, i)
           at(j) == IF j < i THEN j ELSE j + 1
<1>1. /\ q \in Seq(PendingBatch) /\ Len(q) \in Nat /\ DOMAIN q = 1..Len(q)
      /\ i \in 1..Len(q)
  BY LenProperties DEF QueueOK
<1>2. /\ r \in Seq(PendingBatch) /\ Len(r) = Len(q) - 1
      /\ \A j \in 1..(Len(q) - 1) : r[j] = q[at(j)]
  BY <1>1, RemoveAtProperties
<1>3. DOMAIN r = 1..(Len(q) - 1)
  BY <1>2, LenProperties
<1> HIDE DEF r
<1>4. \A j \in DOMAIN r : /\ at(j) \in DOMAIN q
                          /\ at(j) # i
                          /\ r[j] = q[at(j)]
  BY <1>1, <1>2, <1>3
<1>5. \A j, k \in DOMAIN r : (at(j) = at(k) => j = k) /\ (j < k => at(j) < at(k))
  BY <1>1, <1>3
<1> HIDE DEF at
<1>6. QueueOK(r)
  BY <1>2, <1>4, <1>5 DEF QueueOK
<1> QED BY <1>4, <1>6 DEF r

\* So does push_back of a batch ID that is not queued.
LEMMA AppendKeepsQueueOK ==
  ASSUME NEW q, QueueOK(q), NEW id \in Ids,
         \A i \in DOMAIN q : q[i].batch_id # id
  PROVE  QueueOK(Append(q, NewEntry(id))) /\ Len(Append(q, NewEntry(id))) = Len(q) + 1
<1> DEFINE e == NewEntry(id)
           r == Append(q, e)
<1>1. /\ q \in Seq(PendingBatch) /\ Len(q) \in Nat /\ DOMAIN q = 1..Len(q)
  BY LenProperties DEF QueueOK
<1>2. e \in PendingBatch /\ e.batch_id = id /\ ~e.in_flight
  BY DEF NewEntry, PendingBatch
<1> HIDE DEF e
<1>3. /\ r \in Seq(PendingBatch) /\ Len(r) = Len(q) + 1
      /\ \A i \in 1..Len(q) : r[i] = q[i]
      /\ r[Len(q) + 1] = e
  BY <1>1, <1>2, AppendProperties
<1>4. DOMAIN r = 1..(Len(q) + 1)
  BY <1>3, LenProperties
<1> HIDE DEF r
<1>5. \A i \in DOMAIN r : \/ (i \in DOMAIN q /\ r[i] = q[i])
                          \/ (i = Len(q) + 1 /\ r[i] = e)
  BY <1>1, <1>3, <1>4
<1>6. \A i, j \in DOMAIN r : r[i].batch_id = r[j].batch_id => i = j
  BY <1>5, <1>2 DEF QueueOK
<1>7. \A i, j \in DOMAIN r : i < j /\ r[j].in_flight => r[i].in_flight
  BY <1>1, <1>5, <1>2 DEF QueueOK
<1> QED BY <1>3, <1>6, <1>7 DEF QueueOK, r, e

\* Erasing one entry, and appending one, leaves every other entry queued.
LEMMA RemoveKeepsOthers ==
  ASSUME NEW q, QueueOK(q), NEW i \in DOMAIN q, NEW k \in DOMAIN q, k # i
  PROVE  \E j \in DOMAIN RemoveAt(q, i) : RemoveAt(q, i)[j] = q[k]
<1> DEFINE r == RemoveAt(q, i)
           at == IF k < i THEN k ELSE k - 1
<1>1. /\ q \in Seq(PendingBatch) /\ Len(q) \in Nat /\ DOMAIN q = 1..Len(q)
      /\ i \in 1..Len(q)
  BY LenProperties DEF QueueOK
<1>2. /\ r \in Seq(PendingBatch) /\ Len(r) = Len(q) - 1
      /\ \A j \in 1..(Len(q) - 1) : r[j] = IF j < i THEN q[j] ELSE q[j + 1]
  BY <1>1, RemoveAtProperties
<1>3. DOMAIN r = 1..(Len(q) - 1)
  BY <1>2, LenProperties
<1> HIDE DEF r
<1>4. at \in DOMAIN r /\ r[at] = q[k]
  BY <1>1, <1>2, <1>3
<1> QED BY <1>4 DEF r

\* push_back leaves the entries before it.
LEMMA AppendKeepsOthers ==
  ASSUME NEW q \in Seq(PendingBatch), NEW e \in PendingBatch, NEW k \in DOMAIN q
  PROVE  \E j \in DOMAIN Append(q, e) : Append(q, e)[j] = q[k]
<1>1. k \in 1..Len(q) /\ Len(q) \in Nat
  BY LenProperties
<1>2. /\ Append(q, e) \in Seq(PendingBatch) /\ Len(Append(q, e)) = Len(q) + 1
      /\ Append(q, e)[k] = q[k]
  BY <1>1, AppendProperties
<1>3. k \in DOMAIN Append(q, e)
  BY <1>1, <1>2, LenProperties
<1> QED BY <1>2, <1>3

\* IInv as the edits above see it.
LEMMA IInvForm == IInv <=> /\ QueueOK(batches)
                           /\ Len(batches) <= capacity_
                           /\ dropped_batches \in Nat
                           /\ submitted \in Nat
                           /\ acked \in Nat
                           /\ Accounting
BY DEF IInv, TypeOK, UniqueIds, InFlightPrefix, QueueOK

\* A new queue is empty.
LEMMA InitIInv == Init => IInv
<1> SUFFICES ASSUME Init PROVE IInv
  OBVIOUS
<1>1. batches = <<>> /\ batches \in Seq(PendingBatch) /\ Len(batches) = 0
  BY EmptySeq DEF Init
<1>2. DOMAIN batches = {}
  BY <1>1, LenProperties
<1>3. capacity_ \in Nat
  BY CapacityAssumption DEF capacity_
<1> QED BY <1>1, <1>2, <1>3, IInvForm DEF Init, QueueOK, Accounting

\* One case per method and result.
LEMMA NextIInv == IInv /\ [Next]_vars => IInv'
<1> SUFFICES ASSUME IInv, [Next]_vars
             PROVE  IInv'
  OBVIOUS
<1>c. capacity_ \in Nat /\ capacity_' = capacity_
  BY CapacityAssumption DEF capacity_
<1>i. /\ QueueOK(batches) /\ Len(batches) \in Nat /\ DOMAIN batches = 1..Len(batches)
      /\ Len(batches) <= capacity_ /\ Accounting
      /\ dropped_batches \in Nat /\ submitted \in Nat /\ acked \in Nat
  BY IInvForm, LenProperties DEF QueueOK
<1>g. ASSUME QueueOK(batches'), Len(batches') <= capacity_, Accounting',
             dropped_batches' \in Nat, submitted' \in Nat, acked' \in Nat
      PROVE  IInv'
  BY <1>g, <1>c DEF IInv, TypeOK, UniqueIds, InFlightPrefix, QueueOK
<1>u. CASE UNCHANGED vars
  BY <1>u, <1>i, <1>g DEF vars, Accounting
<1>1. ASSUME NEW id \in Ids, EnqueueWithRoom(id) PROVE IInv'
  <2>1. QueueOK(batches') /\ Len(batches') = Len(batches) + 1
    BY <1>1, <1>i, AppendKeepsQueueOK DEF EnqueueWithRoom, QueuedIds
  <2>2. Len(batches') <= capacity_
    <3>1. Len(batches) # capacity_
      BY <1>1 DEF EnqueueWithRoom, Full
    <3>2. \A m, n \in Nat : m <= n /\ m # n => m + 1 <= n
      OBVIOUS
    <3>3. capacity_ \in Nat
      BY <1>c
    <3> HIDE DEF capacity_
    <3>4. Len(batches) + 1 <= capacity_
      BY <3>1, <3>2, <3>3, <1>i
    <3> QED BY <3>4, <2>1
  <2>3. Accounting'
    BY <1>1, <1>i, <2>1 DEF EnqueueWithRoom, Accounting
  <2> QED BY <1>1, <1>i, <1>g, <2>1, <2>2, <2>3 DEF EnqueueWithRoom
<1>2. ASSUME NEW id \in Ids, EnqueueDropOldest(id) PROVE IInv'
  <2> PICK i \in DOMAIN batches :
             batches' = Append(RemoveAt(batches, i), NewEntry(id))
    BY <1>2 DEF EnqueueDropOldest
  <2> DEFINE r == RemoveAt(batches, i)
  <2>1. /\ QueueOK(r)
        /\ \A j \in DOMAIN r : \E k \in DOMAIN batches : r[j] = batches[k]
        /\ Len(r) = Len(batches) - 1
    <3>1. Len(r) = Len(batches) - 1
      BY <1>i, RemoveAtProperties DEF QueueOK
    <3>2. QueueOK(batches)
      BY <1>i
    <3>3. /\ QueueOK(RemoveAt(batches, i))
          /\ \A j \in DOMAIN RemoveAt(batches, i) :
                \E k \in DOMAIN batches : k # i /\ RemoveAt(batches, i)[j] = batches[k]
      BY <3>2, RemoveKeepsQueueOK
    <3> QED BY <3>1, <3>3
  <2>2. \A j \in DOMAIN r : r[j].batch_id # id
    BY <1>2, <2>1 DEF EnqueueDropOldest, QueuedIds
  <2> HIDE DEF r
  <2>3. QueueOK(batches') /\ Len(batches') = Len(r) + 1
    BY <2>1, <2>2, AppendKeepsQueueOK DEF r
  <2>4. Len(batches') = Len(batches)
    BY <1>i, <2>1, <2>3
  <2>5. Accounting'
    BY <1>2, <1>i, <2>4 DEF EnqueueDropOldest, Accounting
  <2> QED BY <1>2, <1>i, <1>g, <2>3, <2>4, <2>5 DEF EnqueueDropOldest
<1>3. ASSUME NEW id \in Ids, EnqueueReject(id) PROVE IInv'
  BY <1>3, <1>i, <1>g DEF EnqueueReject, Accounting
<1>r. ASSUME NEW i \in DOMAIN batches, batches' = RemoveAt(batches, i)
      PROVE  QueueOK(batches') /\ Len(batches') = Len(batches) - 1 /\ Len(batches') <= capacity_
  <2>1. QueueOK(batches') /\ Len(batches') = Len(batches) - 1
    BY <1>i, <1>r, RemoveKeepsQueueOK, RemoveAtProperties DEF QueueOK
  <2> QED BY <1>i, <1>c, <2>1
<1>4. ASSUME NEW id \in Ids, EnqueueThrows(id) PROVE IInv'
  <2>1. QueueOK(batches') /\ Len(batches') = Len(batches) - 1 /\ Len(batches') <= capacity_
    BY <1>4, <1>r DEF EnqueueThrows
  <2>2. Accounting'
    BY <1>4, <1>i, <2>1 DEF EnqueueThrows, Accounting
  <2> QED BY <1>4, <1>i, <1>g, <2>1, <2>2 DEF EnqueueThrows
<1>5. ASSUME NEW id \in Ids, Acknowledge(id) PROVE IInv'
  <2>1. QueueOK(batches') /\ Len(batches') = Len(batches) - 1 /\ Len(batches') <= capacity_
    BY <1>5, <1>r DEF Acknowledge
  <2>2. Accounting'
    BY <1>5, <1>i, <2>1 DEF Acknowledge, Accounting
  <2> QED BY <1>5, <1>i, <1>g, <2>1, <2>2 DEF Acknowledge
<1>6. CASE MarkNextInFlight
  <2> PICK i \in DOMAIN batches :
             /\ IsOldestPending(i)
             /\ batches' = [batches EXCEPT ![i].in_flight = TRUE]
    BY <1>6 DEF MarkNextInFlight
  <2> DEFINE e == [batches[i] EXCEPT !.in_flight = TRUE]
  <2>1. batches[i] \in PendingBatch
    BY <1>i, ElementOfSeq DEF QueueOK
  <2>2. e \in PendingBatch /\ e.batch_id = batches[i].batch_id /\ e.in_flight
    BY <2>1 DEF PendingBatch
  <2>3. batches' = [batches EXCEPT ![i] = e]
    OBVIOUS
  <2> HIDE DEF e
  <2>4. /\ batches' \in Seq(PendingBatch) /\ Len(batches') = Len(batches)
        /\ \A j \in 1..Len(batches) : batches'[j] = IF j = i THEN e ELSE batches[j]
    <3>1. batches \in Seq(PendingBatch) /\ i \in 1..Len(batches)
      BY <1>i DEF QueueOK
    <3> DEFINE q == [batches EXCEPT ![i] = e]
    <3>2. /\ q \in Seq(PendingBatch) /\ Len(q) = Len(batches)
          /\ \A j \in 1..Len(batches) : q[j] = IF j = i THEN e ELSE batches[j]
      BY <3>1, <2>2, ExceptSeq
    <3>3. batches' = q
      BY <2>3
    <3> HIDE DEF q
    <3> QED BY <3>2, <3>3
  <2>5. DOMAIN batches' = DOMAIN batches
    BY <1>i, <2>4, LenProperties
  <2>6. \A j, k \in DOMAIN batches' : batches'[j].batch_id = batches'[k].batch_id => j = k
    BY <1>i, <2>2, <2>4, <2>5 DEF QueueOK
  <2>7. \A j, k \in DOMAIN batches' : j < k /\ batches'[k].in_flight => batches'[j].in_flight
    BY <1>i, <2>2, <2>4, <2>5 DEF QueueOK, IsOldestPending
  <2>8. QueueOK(batches')
    BY <2>4, <2>6, <2>7 DEF QueueOK
  <2> QED BY <1>6, <1>i, <1>g, <2>4, <2>8 DEF MarkNextInFlight, Accounting
<1>7. CASE ResetInFlight
  <2>1. /\ DOMAIN batches' = 1..Len(batches)
        /\ \A j \in 1..Len(batches) : /\ batches'[j] \in PendingBatch
                                      /\ batches'[j].batch_id = batches[j].batch_id
                                      /\ ~batches'[j].in_flight
    <3> SUFFICES ASSUME NEW j \in 1..Len(batches)
                 PROVE  /\ batches'[j] \in PendingBatch
                        /\ batches'[j].batch_id = batches[j].batch_id
                        /\ ~batches'[j].in_flight
      BY <1>7, <1>i DEF ResetInFlight
    <3>1. batches'[j] = [batches[j] EXCEPT !.in_flight = FALSE]
      BY <1>7, <1>i DEF ResetInFlight
    <3>2. batches[j] \in PendingBatch
      BY <1>i, ElementOfSeq DEF QueueOK
    <3> QED BY <3>1, <3>2 DEF PendingBatch
  <2>2. batches' \in Seq(PendingBatch) /\ Len(batches') = Len(batches)
    <3>1. batches' = [j \in 1..Len(batches) |-> [batches[j] EXCEPT !.in_flight = FALSE]]
      BY <1>7, <1>i DEF ResetInFlight
    <3>2. \A j \in 1..Len(batches) : [batches[j] EXCEPT !.in_flight = FALSE] \in PendingBatch
      BY <3>1, <2>1
    <3> QED BY <3>1, <3>2, <1>i, IsASeq, LenProperties
  <2>3. QueueOK(batches')
    BY <1>i, <2>1, <2>2 DEF QueueOK
  <2> QED BY <1>7, <1>i, <1>g, <2>2, <2>3 DEF ResetInFlight, Accounting
<1> QED
  BY <1>u, <1>1, <1>2, <1>3, <1>4, <1>5, <1>6, <1>7
  DEF Next, Enqueue, EnqueueInvalid, EnqueueDuplicate, AcknowledgeUnknown

\* The invariant holds in every reachable state of the queue.
LEMMA IInvHolds == Spec => []IInv
BY InitIInv, NextIInv, PTL DEF Spec

-----------------------------------------------------------------------------
\* The queue's members always have their types, and the deque never holds more
\* than capacity_ batches: enqueue()'s == test for "full" is enough.
THEOREM TypeCorrect == Spec => []TypeOK
BY IInvHolds, PTL DEF IInv

\* One logical batch has one queue entry, whatever calls are interleaved.
THEOREM OneEntryPerBatch == Spec => []UniqueIds
BY IInvHolds, PTL DEF IInv

\* The batches on the wire are the oldest ones of the queue, in every reachable
\* state: mark_next_in_flight() never overtakes an older waiting batch.
THEOREM SendsInFifoOrder == Spec => []InFlightPrefix
BY IInvHolds, PTL DEF IInv

\* enqueue(), acknowledge() and dropped_batches() account for every batch, also
\* when push_back throws.
THEOREM NothingLostSilently == Spec => []Accounting
BY IInvHolds, PTL DEF IInv

\* One overflow: the evicted entry was not in flight.
LEMMA EvictionSparesInFlight ==
  ASSUME QueueOK(batches), NEW i \in DOMAIN batches, ~batches[i].in_flight,
         NEW x \in InFlight
  PROVE  \E j \in DOMAIN RemoveAt(batches, i) :
            /\ RemoveAt(batches, i)[j].batch_id = x
            /\ RemoveAt(batches, i)[j].in_flight
<1>1. PICK k \in DOMAIN batches : batches[k].in_flight /\ batches[k].batch_id = x
  BY DEF InFlight
<1>2. \E j \in DOMAIN RemoveAt(batches, i) : RemoveAt(batches, i)[j] = batches[k]
  BY <1>1, RemoveKeepsOthers
<1> QED BY <1>1, <1>2

\* A drop counted by enqueue() never costs a batch whose acknowledgement may
\* still arrive: every in-flight batch stays queued and in flight.
THEOREM DropsNeverCostInFlight == Spec => DropsSpareInFlight
<1>1. ASSUME IInv, [Next]_vars, dropped_batches' # dropped_batches
      PROVE  InFlight \subseteq InFlight'
  <2> SUFFICES ASSUME NEW x \in InFlight PROVE x \in InFlight'
    OBVIOUS
  <2>1. QueueOK(batches)
    BY <1>1, IInvForm
  <2>2. ASSUME NEW id \in Ids, EnqueueReject(id) PROVE x \in InFlight'
    BY <2>2 DEF EnqueueReject, InFlight
  <2>3. ASSUME NEW i \in DOMAIN batches, ~batches[i].in_flight,
               batches' = RemoveAt(batches, i)
        PROVE  x \in InFlight'
    BY <2>1, <2>3, EvictionSparesInFlight DEF InFlight
  <2>4. ASSUME NEW id \in Ids, NEW i \in DOMAIN batches, ~batches[i].in_flight,
               batches' = Append(RemoveAt(batches, i), NewEntry(id))
        PROVE  x \in InFlight'
    <3> DEFINE r == RemoveAt(batches, i)
               e == NewEntry(id)
    <3>1. PICK k \in DOMAIN r : r[k].batch_id = x /\ r[k].in_flight
      BY <2>1, <2>4, EvictionSparesInFlight
    <3>2. QueueOK(r)
      BY <2>1, RemoveKeepsQueueOK
    <3>3. r \in Seq(PendingBatch) /\ e \in PendingBatch
      BY <3>2 DEF QueueOK, NewEntry, PendingBatch
    <3> HIDE DEF r, e
    <3>4. \E j \in DOMAIN Append(r, e) : Append(r, e)[j] = r[k]
      BY <3>3, AppendKeepsOthers
    <3>5. batches' = Append(r, e)
      BY <2>4 DEF r, e
    <3> QED BY <3>1, <3>4, <3>5 DEF InFlight
  <2>5. ASSUME NEW id \in Ids, EnqueueDropOldest(id) PROVE x \in InFlight'
    BY <2>4, <2>5 DEF EnqueueDropOldest, IsOldestPending
  <2>6. ASSUME NEW id \in Ids, EnqueueThrows(id) PROVE x \in InFlight'
    BY <2>3, <2>6 DEF EnqueueThrows, IsOldestPending
  <2> QED
    BY <1>1, <2>2, <2>5, <2>6
    DEF Next, Enqueue, vars, EnqueueInvalid, EnqueueDuplicate, EnqueueWithRoom,
        Acknowledge, AcknowledgeUnknown, MarkNextInFlight, ResetInFlight
<1> QED BY <1>1, IInvHolds, PTL DEF Spec, DropsSpareInFlight

-----------------------------------------------------------------------------
(* From the queue to the store and back.                                   *)

MessagesTyped ==
  /\ requests \in Seq(Ids)
  /\ acks \in Seq(Ids)
  /\ orphans \subseteq Ids

\* No ACK is sent, or repeated, for a batch that was never stored; but the store
\* may have ended with its process.
AcksCommitted == Elements(acks) \subseteq committed_batch_ids \cup forgotten

\* The store's side of effectively-once: a sample per committed ID at most.
StoreInv ==
  /\ IsFiniteSet(committed_batch_ids)
  /\ current_event_id = Cardinality(committed_batch_ids)
  /\ \A s \in retained : s.value \in committed_batch_ids
  /\ \A s, t \in retained : s.value = t.value => s = t

DeliveryInv ==
  /\ IInv
  /\ MessagesTyped
  /\ AcksCommitted
  /\ RetiredOnlyOnceCommitted
  /\ AnswerOnTheWay
  /\ StoreInv

-----------------------------------------------------------------------------
(* The messages of a FIFO stream as sets.                                  *)

\* Sending a message adds it to those under way.
LEMMA ElementsOfAppend ==
  ASSUME NEW S, NEW s \in Seq(S), NEW e \in S
  PROVE  Append(s, e) \in Seq(S) /\ Elements(Append(s, e)) = Elements(s) \cup {e}
<1>1. /\ Append(s, e) \in Seq(S) /\ Len(Append(s, e)) = Len(s) + 1
      /\ \A i \in 1..Len(s) : Append(s, e)[i] = s[i]
      /\ Append(s, e)[Len(s) + 1] = e
  BY AppendProperties
<1>2. Len(s) \in Nat /\ DOMAIN s = 1..Len(s) /\ DOMAIN Append(s, e) = 1..(Len(s) + 1)
  BY <1>1, LenProperties
<1> QED BY <1>1, <1>2 DEF Elements

\* Handling or applying the first message takes at most it away.
LEMMA ElementsOfTail ==
  ASSUME NEW S, NEW s \in Seq(S), s # <<>>
  PROVE  /\ Tail(s) \in Seq(S) /\ Head(s) \in S
         /\ Elements(s) = Elements(Tail(s)) \cup {Head(s)}
<1> DEFINE t == Tail(s)
<1>1. /\ t \in Seq(S) /\ Len(t) = Len(s) - 1 /\ Head(s) = s[1]
      /\ \A i \in 1..Len(t) : t[i] = s[i + 1]
  BY HeadTailProperties
<1>2. /\ Len(s) \in Nat /\ Len(s) # 0 /\ DOMAIN s = 1..Len(s)
      /\ DOMAIN t = 1..Len(t)
  BY <1>1, LenProperties, EmptySeq
<1> HIDE DEF t
<1>3. 1 \in DOMAIN s /\ s[1] \in S
  BY <1>2, ElementOfSeq
<1>4. \A i \in DOMAIN t : i + 1 \in DOMAIN s /\ t[i] = s[i + 1]
  BY <1>1, <1>2
<1>5. \A j \in DOMAIN s : j = 1 \/ (j - 1 \in DOMAIN t /\ t[j - 1] = s[j])
  BY <1>1, <1>2
<1>6. Elements(s) = Elements(t) \cup {Head(s)}
  <2>1. \A x \in Elements(s) : x \in Elements(t) \cup {Head(s)}
    BY <1>1, <1>5 DEF Elements
  <2>2. \A x \in Elements(t) : x \in Elements(s)
    BY <1>4 DEF Elements
  <2>3. Head(s) \in Elements(s)
    BY <1>1, <1>3 DEF Elements
  <2> QED BY <2>1, <2>2, <2>3
<1> QED BY <1>1, <1>3, <1>6 DEF t

\* A broken stream has only messages that were under way before.
LEMMA ElementsOfPrefix ==
  ASSUME NEW S, NEW s \in Seq(S), NEW k \in 0..Len(s)
  PROVE  SubSeq(s, 1, k) \in Seq(S) /\ Elements(SubSeq(s, 1, k)) \subseteq Elements(s)
<1> DEFINE p == SubSeq(s, 1, k)
<1>1. Len(s) \in Nat /\ DOMAIN s = 1..Len(s) /\ \A i \in 1..Len(s) : s[i] \in S
  BY LenProperties, ElementOfSeq
<1>2. /\ p \in Seq(S) /\ Len(p) = k /\ \A i \in 1..k : p[i] = s[i]
  BY <1>1, SubSeqProperties
<1>3. DOMAIN p = 1..k
  BY <1>2, LenProperties
<1> HIDE DEF p
<1>4. Elements(p) \subseteq Elements(s)
  BY <1>1, <1>2, <1>3 DEF Elements
<1> QED BY <1>2, <1>4 DEF p

-----------------------------------------------------------------------------
(* The queue's operations as the stream sees them.                         *)

\* mark_next_in_flight() puts exactly the batch it returns in flight.
LEMMA MarkEffect ==
  ASSUME IInv, MarkNextInFlight, NEW i \in DOMAIN batches, IsOldestPending(i)
  PROVE  /\ QueuedIds' = QueuedIds
         /\ InFlight' = InFlight \cup {batches[i].batch_id}
         /\ batches[i].batch_id \in Ids
<1>1. /\ batches \in Seq(PendingBatch) /\ Len(batches) \in Nat
      /\ DOMAIN batches = 1..Len(batches)
      /\ \A k \in DOMAIN batches : batches[k] \in PendingBatch
  BY LenProperties, ElementOfSeq DEF IInv, TypeOK
<1>2. PICK j \in DOMAIN batches :
         IsOldestPending(j) /\ batches' = [batches EXCEPT ![j].in_flight = TRUE]
  BY DEF MarkNextInFlight
<1>3. i = j
  <2>1. i \in Int /\ j \in Int /\ i >= 1 /\ j >= 1
    BY <1>1
  <2>2. ~(i < j) /\ ~(j < i)
    BY <2>1, <1>2 DEF IsOldestPending
  <2> QED BY <2>1, <2>2
<1>4. /\ DOMAIN batches' = DOMAIN batches
      /\ \A k \in DOMAIN batches : k # i => batches'[k] = batches[k]
      /\ batches'[i] = [batches[i] EXCEPT !.in_flight = TRUE]
  BY <1>1, <1>2, <1>3
<1>5. batches'[i].batch_id = batches[i].batch_id /\ batches'[i].in_flight /\ batches[i].batch_id \in Ids
  BY <1>1, <1>4 DEF PendingBatch
<1>6. \A k \in DOMAIN batches : batches'[k].batch_id = batches[k].batch_id
  BY <1>4, <1>5
<1>7. QueuedIds' = QueuedIds
  BY <1>4, <1>6 DEF QueuedIds
<1>8. InFlight' = InFlight \cup {batches[i].batch_id}
  <2>1. \A x \in InFlight' : x \in InFlight \cup {batches[i].batch_id}
    BY <1>4, <1>6 DEF InFlight
  <2>2. \A k \in DOMAIN batches : batches[k].in_flight => batches'[k].in_flight
    BY <1>4, <1>5
  <2>3. \A x \in InFlight : x \in InFlight'
    <3> SUFFICES ASSUME NEW x \in InFlight PROVE x \in InFlight'
      OBVIOUS
    <3>1. PICK k \in DOMAIN batches : batches[k].in_flight /\ x = batches[k].batch_id
      BY DEF InFlight
    <3>2. k \in DOMAIN batches' /\ batches'[k].in_flight /\ batches'[k].batch_id = x
      BY <1>4, <1>6, <2>2, <3>1
    <3> QED BY <3>2 DEF InFlight
  <2>4. batches[i].batch_id \in InFlight'
    BY <1>4, <1>5 DEF InFlight
  <2> QED BY <2>1, <2>3, <2>4
<1> QED BY <1>5, <1>7, <1>8

\* reset_in_flight() makes every queued batch eligible again.
LEMMA ResetEffect ==
  ASSUME IInv, ResetInFlight
  PROVE  QueuedIds' = QueuedIds /\ InFlight' = {}
<1>1. \A k \in DOMAIN batches : batches[k] \in PendingBatch
  BY LenProperties, ElementOfSeq DEF IInv, TypeOK
<1>2. /\ DOMAIN batches' = DOMAIN batches
      /\ \A k \in DOMAIN batches : batches'[k] = [batches[k] EXCEPT !.in_flight = FALSE]
  BY DEF ResetInFlight
<1>3. \A k \in DOMAIN batches : batches'[k].batch_id = batches[k].batch_id /\ ~batches'[k].in_flight
  BY <1>1, <1>2 DEF PendingBatch
<1> QED BY <1>2, <1>3 DEF QueuedIds, InFlight

\* acknowledge() retires the batch it names and no other.
LEMMA AcknowledgeEffect ==
  ASSUME IInv, NEW id, Acknowledge(id) \/ AcknowledgeUnknown(id)
  PROVE  /\ QueuedIds \subseteq QueuedIds' \cup {id}
         /\ InFlight' \subseteq InFlight \ {id}
<1>1. QueueOK(batches)
  BY IInvForm
<1>2. CASE AcknowledgeUnknown(id)
  BY <1>2 DEF AcknowledgeUnknown, vars, QueuedIds, InFlight
<1>3. CASE Acknowledge(id)
  <2> PICK i \in DOMAIN batches : batches[i].batch_id = id /\ batches' = RemoveAt(batches, i)
    BY <1>3 DEF Acknowledge
  <2>1. \A k \in DOMAIN batches : k # i => \E j \in DOMAIN batches' : batches'[j] = batches[k]
    BY <1>1, RemoveKeepsOthers
  <2>2. \A j \in DOMAIN batches' : \E k \in DOMAIN batches : k # i /\ batches'[j] = batches[k]
    BY <1>1, RemoveKeepsQueueOK
  <2>3. \A k \in DOMAIN batches : batches[k].batch_id = id => k = i
    BY <1>1 DEF QueueOK
  <2>4. QueuedIds \subseteq QueuedIds' \cup {id}
    BY <2>1 DEF QueuedIds
  <2>5. InFlight' \subseteq InFlight \ {id}
    BY <2>2, <2>3 DEF InFlight
  <2> QED BY <2>4, <2>5
<1> QED BY <1>2, <1>3

\* enqueue() puts nothing in flight.
LEMMA EnqueueEffect ==
  ASSUME IInv, NEW id \in Ids, Enqueue(id) \/ EnqueueThrows(id)
  PROVE  InFlight' \subseteq InFlight
<1>1. QueueOK(batches)
  BY IInvForm
<1>2. ASSUME NEW q, QueueOK(q), batches' = Append(q, NewEntry(id)), NEW j \in DOMAIN batches',
             batches'[j].in_flight
      PROVE  \E k \in DOMAIN q : batches'[j] = q[k]
  <2> DEFINE e == NewEntry(id)
  <2>1. e \in PendingBatch /\ ~e.in_flight
    BY DEF NewEntry, PendingBatch
  <2>2. q \in Seq(PendingBatch) /\ Len(q) \in Nat /\ DOMAIN q = 1..Len(q)
    BY <1>2, LenProperties DEF QueueOK
  <2>3. batches' = Append(q, e)
    BY <1>2
  <2> HIDE DEF e
  <2>4. /\ Len(batches') = Len(q) + 1 /\ batches' \in Seq(PendingBatch)
        /\ \A k \in 1..Len(q) : batches'[k] = q[k]
        /\ batches'[Len(q) + 1] = e
    BY <2>1, <2>2, <2>3, AppendProperties
  <2>5. j \in 1..(Len(q) + 1)
    BY <2>4, <1>2, LenProperties
  <2> QED BY <2>1, <2>2, <2>4, <2>5, <1>2
<1>3. ASSUME NEW i \in DOMAIN batches
      PROVE  /\ QueueOK(RemoveAt(batches, i))
             /\ \A j \in DOMAIN RemoveAt(batches, i) :
                   \E k \in DOMAIN batches : RemoveAt(batches, i)[j] = batches[k]
  BY <1>1, RemoveKeepsQueueOK
<1>4. CASE EnqueueWithRoom(id)
  BY <1>1, <1>2, <1>4 DEF EnqueueWithRoom, InFlight
<1>5. CASE EnqueueDropOldest(id)
  <2> PICK i \in DOMAIN batches : batches' = Append(RemoveAt(batches, i), NewEntry(id))
    BY <1>5 DEF EnqueueDropOldest
  <2>1. \A j \in DOMAIN batches' : batches'[j].in_flight =>
           \E k \in DOMAIN RemoveAt(batches, i) : batches'[j] = RemoveAt(batches, i)[k]
    BY <1>2, <1>3
  <2> QED BY <2>1, <1>3 DEF InFlight
<1>6. CASE EnqueueReject(id)
  BY <1>6 DEF EnqueueReject, InFlight
<1>7. CASE EnqueueThrows(id)
  BY <1>3, <1>7 DEF EnqueueThrows, InFlight
<1> QED BY <1>4, <1>5, <1>6, <1>7 DEF Enqueue

-----------------------------------------------------------------------------
(* The store behind the handler.                                           *)

\* After commit_batch(), whatever its outcome, the batch counts as stored, and the
\* store holds one sample of each batch at most.
LEMMA CommitOrDuplicateEffect ==
  ASSUME StoreInv, NEW id \in Ids, CommitOrDuplicate(id)
  PROVE  StoreInv' /\ committed_batch_ids' = committed_batch_ids \cup {id}
<1> DEFINE b   == MetricBatch(id)
           one == Store!StoredBatch(b, current_event_id)
<1>1. \A s \in one : s.value = id
  <2>1. b.metrics = <<[name |-> metric_name, timestamp_ms |-> 0, value |-> id, tags |-> {}]>>
    BY DEF MetricBatch
  <2>2. DOMAIN b.metrics = {1} /\ b.metrics[1].value = id
    BY <2>1
  <2> QED BY <2>2 DEF Store!StoredBatch, Store!Stored
<1>2. \A s, t \in one : s = t
  <2>1. DOMAIN b.metrics = {1}
    BY DEF MetricBatch
  <2> QED BY <2>1 DEF Store!StoredBatch
<1>3. b.batch_id = id /\ Len(b.metrics) = 1
  BY DEF MetricBatch
<1> HIDE DEF b, one
<1>4. CASE Store!Commit(b)
  <2>1. /\ id \notin committed_batch_ids
        /\ committed_batch_ids' = committed_batch_ids \cup {id}
        /\ current_event_id' = current_event_id + 1
        /\ retained' \subseteq retained \cup one
    BY <1>3, <1>4 DEF Store!Commit, Store!Newest, one
  <2>2. /\ IsFiniteSet(committed_batch_ids')
        /\ Cardinality(committed_batch_ids') = Cardinality(committed_batch_ids) + 1
    BY <2>1, FS_AddElement DEF StoreInv
  <2>3. \A s \in retained' : s.value \in committed_batch_ids'
    BY <2>1, <1>1 DEF StoreInv
  <2>4. \A s, t \in retained' : s.value = t.value => s = t
    BY <2>1, <1>1, <1>2 DEF StoreInv
  <2> QED BY <2>1, <2>2, <2>3, <2>4 DEF StoreInv, CommitOrDuplicate
<1>5. CASE id \in committed_batch_ids /\ UNCHANGED storeVars
  BY <1>5 DEF StoreInv, storeVars, CommitOrDuplicate
<1> QED BY <1>4, <1>5 DEF CommitOrDuplicate, b

-----------------------------------------------------------------------------
\* Nothing is queued, under way or stored.
LEMMA DInitInv == DInit => DeliveryInv
<1> SUFFICES ASSUME DInit PROVE DeliveryInv
  OBVIOUS
<1>1. IInv
  BY InitIInv DEF DInit
<1>2. MessagesTyped /\ AcksCommitted
  BY EmptySeq DEF DInit, MessagesTyped, AcksCommitted, Elements
<1>3. RetiredOnlyOnceCommitted /\ AnswerOnTheWay
  BY DEF DInit, RetiredOnlyOnceCommitted, AnswerOnTheWay
<1>4. StoreInv
  BY FS_EmptySet DEF DInit, Store!Init, StoreInv
<1> QED BY <1>1, <1>2, <1>3, <1>4 DEF DeliveryInv

\* A batch enters the queue, or is given up on the spot.
LEMMA BuildKeepsInv ==
  ASSUME DeliveryInv, NEW id \in Ids, BuildAndEnqueue(id)
  PROVE  DeliveryInv'
<1>1. /\ UNCHANGED <<connected, requests, acks, orphans, retained, committed_batch_ids,
                     current_event_id, unsent, forgotten>>
      /\ built' = built \cup {id}
      /\ lost' = lost \cup ((QueuedIds \cup {id}) \ QueuedIds')
      /\ Enqueue(id) \/ EnqueueThrows(id)
  BY DEF BuildAndEnqueue, GivenUp, streamVars, storeVars
<1>2. IInv'
  BY <1>1, NextIInv DEF DeliveryInv, Next
<1>3. InFlight' \subseteq InFlight
  BY <1>1, EnqueueEffect DEF DeliveryInv
<1>4. RetiredOnlyOnceCommitted' /\ AnswerOnTheWay'
  BY <1>1, <1>3 DEF DeliveryInv, RetiredOnlyOnceCommitted, AnswerOnTheWay
<1> QED BY <1>1, <1>2, <1>4 DEF DeliveryInv, MessagesTyped, AcksCommitted, StoreInv

\* What is put in flight is put on the wire.
LEMMA SendKeepsInv ==
  ASSUME DeliveryInv, Send
  PROVE  DeliveryInv'
<1>1. /\ UNCHANGED <<connected, acks, orphans, retained, committed_batch_ids,
                     current_event_id, built, lost, forgotten, unsent>>
      /\ MarkNextInFlight
  BY DEF Send, storeVars, history
<1>2. PICK i \in DOMAIN batches :
         IsOldestPending(i) /\ requests' = Append(requests, batches[i].batch_id)
  BY DEF Send
<1>3. IInv'
  BY <1>1, NextIInv DEF DeliveryInv, Next
<1>4. /\ QueuedIds' = QueuedIds
      /\ InFlight' = InFlight \cup {batches[i].batch_id}
      /\ batches[i].batch_id \in Ids
  BY <1>1, <1>2, MarkEffect DEF DeliveryInv
<1>5. requests' \in Seq(Ids) /\ Elements(requests') = Elements(requests) \cup {batches[i].batch_id}
  BY <1>2, <1>4, ElementsOfAppend DEF DeliveryInv, MessagesTyped
<1>6. RetiredOnlyOnceCommitted' /\ AnswerOnTheWay'
  BY <1>1, <1>4, <1>5 DEF DeliveryInv, RetiredOnlyOnceCommitted, AnswerOnTheWay
<1> QED BY <1>1, <1>3, <1>5, <1>6 DEF DeliveryInv, MessagesTyped, AcksCommitted, StoreInv

\* What is put in flight without being returned is known to be.
LEMMA SendThrowsKeepsInv ==
  ASSUME DeliveryInv, SendThrows
  PROVE  DeliveryInv'
<1>1. /\ UNCHANGED <<connected, requests, acks, orphans, retained, committed_batch_ids,
                     current_event_id, built, lost, forgotten>>
      /\ MarkNextInFlight
  BY DEF SendThrows, storeVars
<1>2. PICK i \in DOMAIN batches :
         IsOldestPending(i) /\ unsent' = unsent \cup {batches[i].batch_id}
  BY DEF SendThrows
<1>3. IInv'
  BY <1>1, NextIInv DEF DeliveryInv, Next
<1>4. QueuedIds' = QueuedIds /\ InFlight' = InFlight \cup {batches[i].batch_id}
  BY <1>1, <1>2, MarkEffect DEF DeliveryInv
<1>5. RetiredOnlyOnceCommitted' /\ AnswerOnTheWay'
  BY <1>1, <1>2, <1>4
  DEF DeliveryInv, RetiredOnlyOnceCommitted, AnswerOnTheWay
<1> QED BY <1>1, <1>3, <1>5 DEF DeliveryInv, MessagesTyped, AcksCommitted, StoreInv

\* A request is answered once the store has the batch.
LEMMA HandleKeepsInv ==
  ASSUME DeliveryInv, HandleRequest
  PROVE  DeliveryInv'
<1> DEFINE id == Head(requests)
<1>1. /\ UNCHANGED <<batches, dropped_batches, submitted, acked, connected, orphans,
                     unsent, built, lost, forgotten>>
      /\ requests # <<>> /\ requests' = Tail(requests)
      /\ acks' = Append(acks, id) /\ CommitOrDuplicate(id)
  BY DEF HandleRequest, queueVars, vars, history
<1>2. /\ requests' \in Seq(Ids) /\ id \in Ids
      /\ Elements(requests) = Elements(requests') \cup {id}
  BY <1>1, ElementsOfTail DEF DeliveryInv, MessagesTyped
<1>3. acks' \in Seq(Ids) /\ Elements(acks') = Elements(acks) \cup {id}
  BY <1>1, <1>2, ElementsOfAppend DEF DeliveryInv, MessagesTyped
<1>4. StoreInv' /\ committed_batch_ids' = committed_batch_ids \cup {id}
  BY <1>1, <1>2, CommitOrDuplicateEffect DEF DeliveryInv
<1>5. IInv'
  BY <1>1, NextIInv DEF DeliveryInv, vars
<1>6. QueuedIds' = QueuedIds /\ InFlight' = InFlight
  BY <1>1 DEF QueuedIds, InFlight
<1> HIDE DEF id
<1>7. RetiredOnlyOnceCommitted' /\ AnswerOnTheWay' /\ AcksCommitted'
  BY <1>1, <1>2, <1>3, <1>4, <1>6
  DEF DeliveryInv, RetiredOnlyOnceCommitted, AnswerOnTheWay, AcksCommitted
<1> QED BY <1>1, <1>2, <1>3, <1>4, <1>5, <1>7 DEF DeliveryInv, MessagesTyped

\* A request of a broken stream is stored like any other, and not answered.
LEMMA HandleOrphanKeepsInv ==
  ASSUME DeliveryInv, NEW id \in Ids, HandleOrphan(id)
  PROVE  DeliveryInv'
<1>1. /\ UNCHANGED <<batches, dropped_batches, submitted, acked, connected, requests, acks,
                     unsent, built, lost, forgotten>>
      /\ orphans' \subseteq orphans /\ CommitOrDuplicate(id)
  BY DEF HandleOrphan, queueVars, vars, history
<1>2. StoreInv' /\ committed_batch_ids' = committed_batch_ids \cup {id}
  BY <1>1, CommitOrDuplicateEffect DEF DeliveryInv
<1>3. IInv'
  BY <1>1, NextIInv DEF DeliveryInv, vars
<1>4. RetiredOnlyOnceCommitted' /\ AnswerOnTheWay' /\ AcksCommitted'
  BY <1>1, <1>2
  DEF DeliveryInv, RetiredOnlyOnceCommitted, AnswerOnTheWay, AcksCommitted, QueuedIds, InFlight
<1> QED BY <1>1, <1>2, <1>3, <1>4 DEF DeliveryInv, MessagesTyped

\* An ACK retires a batch that is stored, and only that one.
LEMMA ReceiveAckKeepsInv ==
  ASSUME DeliveryInv, ReceiveAck
  PROVE  DeliveryInv'
<1> DEFINE id == Head(acks)
<1>1. /\ UNCHANGED <<connected, requests, orphans, retained, committed_batch_ids,
                     current_event_id, built, lost, forgotten, unsent>>
      /\ acks # <<>> /\ acks' = Tail(acks)
      /\ Acknowledge(id) \/ AcknowledgeUnknown(id)
  BY DEF ReceiveAck, storeVars, history
<1>2. acks' \in Seq(Ids) /\ id \in Ids /\ Elements(acks) = Elements(acks') \cup {id}
  BY <1>1, ElementsOfTail DEF DeliveryInv, MessagesTyped
<1>3. IInv'
  BY <1>1, <1>2, NextIInv DEF DeliveryInv, Next
<1>4. QueuedIds \subseteq QueuedIds' \cup {id} /\ InFlight' \subseteq InFlight \ {id}
  BY <1>1, AcknowledgeEffect DEF DeliveryInv
<1> HIDE DEF id
<1>5. RetiredOnlyOnceCommitted' /\ AnswerOnTheWay' /\ AcksCommitted'
  BY <1>1, <1>2, <1>4
  DEF DeliveryInv, RetiredOnlyOnceCommitted, AnswerOnTheWay, AcksCommitted
<1> QED BY <1>1, <1>2, <1>3, <1>5 DEF DeliveryInv, MessagesTyped, StoreInv

\* A stream breaks: its requests are orphaned or gone, a prefix of the ACKs was
\* read before.
LEMMA BreakMessages ==
  ASSUME DeliveryInv
  PROVE  /\ RequestsBreak => requests' \in Seq(Ids) /\ orphans' \subseteq Ids
         /\ AcksBreak => acks' \in Seq(Ids) /\ Elements(acks') \subseteq Elements(acks)
<1>1. requests \in Seq(Ids) /\ acks \in Seq(Ids) /\ orphans \subseteq Ids
  BY DEF DeliveryInv, MessagesTyped
<1>2. \A i \in DOMAIN requests : requests[i] \in Ids
  BY <1>1, LenProperties, ElementOfSeq
<1>3. \A k \in 0..Len(requests) : 1..k \subseteq DOMAIN requests
  BY <1>1, LenProperties
<1>4. RequestsBreak => requests' \in Seq(Ids) /\ orphans' \subseteq Ids
  BY <1>1, <1>2, <1>3, EmptySeq DEF RequestsBreak
<1>5. AcksBreak => acks' \in Seq(Ids) /\ Elements(acks') \subseteq Elements(acks)
  BY <1>1, ElementsOfPrefix DEF AcksBreak
<1> QED BY <1>4, <1>5

\* A break turns requests into orphans and loses ACKs; it changes neither queue nor
\* store.
LEMMA BreakKeepsInv ==
  ASSUME DeliveryInv, Break
  PROVE  DeliveryInv'
<1>1. /\ UNCHANGED <<batches, dropped_batches, submitted, acked, retained,
                     committed_batch_ids, current_event_id, built, lost, forgotten>>
      /\ connected' = FALSE /\ RequestsBreak /\ AcksBreak
  BY DEF Break, Fault, queueVars, vars, storeVars
<1>2. /\ requests' \in Seq(Ids) /\ orphans' \subseteq Ids
      /\ acks' \in Seq(Ids) /\ Elements(acks') \subseteq Elements(acks)
  BY <1>1, BreakMessages
<1>3. IInv'
  BY <1>1, NextIInv DEF DeliveryInv, vars
<1>4. RetiredOnlyOnceCommitted' /\ AnswerOnTheWay' /\ AcksCommitted'
  BY <1>1, <1>2
  DEF DeliveryInv, RetiredOnlyOnceCommitted, AnswerOnTheWay, AcksCommitted, QueuedIds
<1> QED BY <1>1, <1>2, <1>3, <1>4 DEF DeliveryInv, MessagesTyped, StoreInv

\* A new stream starts with nothing in flight.
LEMMA ReconnectKeepsInv ==
  ASSUME DeliveryInv, Reconnect
  PROVE  DeliveryInv'
<1>1. /\ UNCHANGED <<requests, acks, orphans, retained, committed_batch_ids,
                     current_event_id, built, lost, forgotten, unsent>>
      /\ ResetInFlight
  BY DEF Reconnect, storeVars, history
<1>2. IInv'
  BY <1>1, NextIInv DEF DeliveryInv, Next
<1>3. QueuedIds' = QueuedIds /\ InFlight' = {}
  BY <1>1, ResetEffect DEF DeliveryInv
<1>4. RetiredOnlyOnceCommitted' /\ AnswerOnTheWay' /\ AcksCommitted'
  BY <1>1, <1>3 DEF DeliveryInv, RetiredOnlyOnceCommitted, AnswerOnTheWay, AcksCommitted
<1> QED BY <1>1, <1>2, <1>4 DEF DeliveryInv, MessagesTyped, StoreInv

\* A new Agent process: what was queued is given up, and known to be.
LEMMA AgentRestartKeepsInv ==
  ASSUME DeliveryInv, AgentRestart
  PROVE  DeliveryInv'
<1>1. /\ UNCHANGED <<retained, committed_batch_ids, current_event_id, built, forgotten>>
      /\ connected' = FALSE /\ RequestsBreak /\ acks' = <<>>
      /\ batches' = <<>> /\ dropped_batches' = 0 /\ submitted' = 0 /\ acked' = 0
      /\ lost' = lost \cup (QueuedIds \ QueuedIds')
  BY DEF AgentRestart, Fault, GivenUp, storeVars
<1>2. requests' \in Seq(Ids) /\ orphans' \subseteq Ids
  BY <1>1, BreakMessages
<1>3. IInv'
  <2>1. /\ <<>> \in Seq(PendingBatch) /\ Len(<<>>) = 0 /\ DOMAIN <<>> = {}
    BY EmptySeq
  <2>2. capacity_ \in Nat /\ capacity_' = capacity_
    BY CapacityAssumption DEF capacity_
  <2> QED BY <1>1, <2>1, <2>2 DEF IInv, TypeOK, UniqueIds, InFlightPrefix, Accounting
<1>4. acks' \in Seq(Ids) /\ Elements(acks') = {}
  BY <1>1, EmptySeq DEF Elements
<1>5. RetiredOnlyOnceCommitted' /\ AnswerOnTheWay' /\ AcksCommitted'
  BY <1>1, <1>4 DEF DeliveryInv, RetiredOnlyOnceCommitted, AnswerOnTheWay, AcksCommitted
<1> QED BY <1>1, <1>2, <1>3, <1>4, <1>5 DEF DeliveryInv, MessagesTyped, StoreInv

\* A new Aggregator process: it has stored nothing, and what the old one had
\* committed counts as forgotten.
LEMMA AggregatorRestartKeepsInv ==
  ASSUME DeliveryInv, AggregatorRestart
  PROVE  DeliveryInv'
<1>1. /\ UNCHANGED <<batches, dropped_batches, submitted, acked, built, lost>>
      /\ connected' = FALSE /\ requests' = <<>> /\ orphans' = {} /\ AcksBreak
      /\ retained' = {} /\ committed_batch_ids' = {} /\ current_event_id' = 0
      /\ forgotten' = forgotten \cup committed_batch_ids
  BY DEF AggregatorRestart, Fault, queueVars, vars
<1>2. acks' \in Seq(Ids) /\ Elements(acks') \subseteq Elements(acks)
  BY <1>1, BreakMessages
<1>3. IInv'
  BY <1>1, NextIInv DEF DeliveryInv, vars
<1>4. StoreInv'
  BY <1>1, FS_EmptySet DEF StoreInv
<1>5. RetiredOnlyOnceCommitted' /\ AnswerOnTheWay' /\ AcksCommitted'
  BY <1>1, <1>2
  DEF DeliveryInv, RetiredOnlyOnceCommitted, AnswerOnTheWay, AcksCommitted, QueuedIds
<1>6. MessagesTyped'
  BY <1>1, <1>2, EmptySeq DEF MessagesTyped
<1> QED BY <1>3, <1>4, <1>5, <1>6 DEF DeliveryInv

\* One case per action of the composition.
LEMMA DNextInv == DeliveryInv /\ [DNext]_dvars => DeliveryInv'
<1> SUFFICES ASSUME DeliveryInv, [DNext]_dvars PROVE DeliveryInv'
  OBVIOUS
<1>1. CASE UNCHANGED dvars
  <2>1. UNCHANGED vars
    BY <1>1 DEF dvars, queueVars
  <2>2. IInv'
    BY <2>1, NextIInv DEF DeliveryInv
  <2> QED BY <1>1, <2>1, <2>2
      DEF dvars, streamVars, storeVars, history, vars, DeliveryInv, MessagesTyped,
          AcksCommitted, RetiredOnlyOnceCommitted, AnswerOnTheWay, StoreInv, QueuedIds, InFlight
<1> QED
  BY <1>1, BuildKeepsInv, SendKeepsInv, SendThrowsKeepsInv, HandleKeepsInv,
     HandleOrphanKeepsInv, ReceiveAckKeepsInv, BreakKeepsInv, ReconnectKeepsInv, AgentRestartKeepsInv,
     AggregatorRestartKeepsInv DEF DNext

\* The invariant holds in every reachable state of queue, streams and store.
LEMMA DeliveryInvHolds == DSpec => []DeliveryInv
BY DInitInv, DNextInv, PTL DEF DSpec

-----------------------------------------------------------------------------
\* Whatever breaks, restarts, repeats or arrives late, a batch the Agent built
\* leaves the queue only when the Agent gives it up or after an Aggregator process
\* committed it; whether that process, and with it the store, still exists is not
\* known to the queue.
THEOREM NothingRetiredUncommitted == DSpec => []RetiredOnlyOnceCommitted
BY DeliveryInvHolds, PTL DEF DeliveryInv

\* Resends and reconnects never make an Aggregator process store a batch twice,
\* and its event IDs count the distinct batches it committed.
THEOREM EffectivelyOnce == DSpec => []StoredOnce
<1>1. DeliveryInv => StoredOnce
  <2> SUFFICES ASSUME DeliveryInv, NEW id \in Ids
               PROVE  Cardinality({s \in retained : s.value = id}) <= 1
    BY DEF StoredOnce, DeliveryInv, StoreInv
  <2> DEFINE S == {s \in retained : s.value = id}
  <2>1. \A s, t \in S : s = t
    BY DEF DeliveryInv, StoreInv
  <2>2. S = {} \/ \E s : S = {s}
    BY <2>1
  <2> HIDE DEF S
  <2>3. Cardinality(S) = 0 \/ Cardinality(S) = 1
    BY <2>2, FS_EmptySet, FS_Singleton
  <2>4. Cardinality(S) <= 1
    BY <2>3
  <2> QED BY <2>4 DEF S
<1> QED BY <1>1, DeliveryInvHolds, PTL

\* On a live stream every batch in flight has its request or its ACK under way, or
\* is one mark_next_in_flight() marked and failed to return; every other in-flight
\* entry will be answered and gives its slot back.
THEOREM InFlightIsAnswered == DSpec => []AnswerOnTheWay
BY DeliveryInvHolds, PTL DEF DeliveryInv
=============================================================================
