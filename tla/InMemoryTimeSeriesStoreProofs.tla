-------------------- MODULE InMemoryTimeSeriesStoreProofs --------------------
(***************************************************************************)
(* Proofs about the in-memory store, for every set of threads, batches and *)
(* names, every capacity and every limit on event IDs.                     *)
(*                                                                         *)
(* BuffersSorted and RetainsNewest speak of the states a query can see.    *)
(* They become inductive when the same is said of the staged copies a      *)
(* writer works on: a buffer "keeps" a set of samples if it is sorted and  *)
(* misses only samples older than all the ones it is full of, and a staged *)
(* copy keeps the committed samples together with the ones staged so far.  *)
(*                                                                         *)
(* The second part is about the operators the queries are built from, for  *)
(* buffers of any length and any contents.  Increasing picks the k-th      *)
(* smallest number by counting smaller ones, so all that has to be shown   *)
(* of it is that the count is a bijection.                                 *)
(***************************************************************************)
EXTENDS StoreQueries, SequenceTheorems, FiniteSetTheorems, TLAPS

\* What a buffer of metric n is when its structure is intact.
SortedBuffer(buffer, n) ==
  /\ buffer \in Seq(StoredMetric)
  /\ Len(buffer) <= Capacity
  /\ \A i \in DOMAIN buffer : buffer[i].name = n
  /\ \A i, j \in DOMAIN buffer : i < j => Older(buffer[i], buffer[j])

\* What it remembers of samples.
Keeps(buffer, n, samples) ==
  /\ \A i \in DOMAIN buffer : buffer[i] \in samples
  /\ \A s \in samples :
        \/ s.name # n
        \/ \E i \in DOMAIN buffer : buffer[i] = s
        \/ /\ Len(buffer) = Capacity
           /\ \A i \in DOMAIN buffer : Older(s, buffer[i])

\* The samples the thread that holds the lock has staged so far.
Pending(w) == {Stored(batch[w], i, current_event_id) : i \in 1..Staged}

\* The samples whose order and fate is settled when buffer copies are compared:
\* the committed ones, and those the staging thread has added to its copies.
StagedOK(w) ==
  /\ \A i \in 1..Staged : batch[w].metrics[i].name \in DOMAIN staged_buffers
  /\ Staged <= Len(batch[w].metrics)
  /\ current_event_id + Len(batch[w].metrics) <= MaxEventId
  /\ batch[w].batch_id \notin committed_batch_ids
  /\ \A n \in DOMAIN staged_buffers :
        Keeps(staged_buffers[n], n, CommittedSamples \cup Pending(w))

BufferInv ==
  /\ \A n \in Names : SortedBuffer(metric_buffers[n], n)
  /\ \A n \in DOMAIN staged_buffers : SortedBuffer(staged_buffers[n], n)
  /\ ~Publishing => \A n \in Names : Keeps(metric_buffers[n], n, CommittedSamples)
  /\ Publishing  => \A n \in Names : Keeps(PublishedBuffer(n), n, CommittedSamples)
  /\ \A w \in Writers : pc[w] = "staging" => StagedOK(w)

\* The end of the event IDs in use: ahead of current_event_id only while a
\* recorded batch is being published.
LastId == IF Publishing THEN next_event_id ELSE current_event_id

CommitInv ==
  /\ CommittedOnce
  /\ \A c \in commits : c.batch \in Batches /\ IsValid(c.batch) /\ c.base \in Nat
                        /\ c.base + Len(c.batch.metrics) <= LastId
  /\ \A w \in Writers : batch[w] # None => IsValid(batch[w])
  /\ mutex = None => DOMAIN staged_buffers = {} /\ next_event_id = current_event_id

IInv == TypeOK /\ CommitInv /\ BufferInv

-----------------------------------------------------------------------------
\* Inserting at pos: the entries before pos stay, the others move one back.
LEMMA InsertAtProperties ==
  ASSUME NEW S, NEW s \in Seq(S), NEW pos \in 1..(Len(s) + 1), NEW e \in S
  PROVE  /\ InsertAt(s, pos, e) \in Seq(S)
         /\ Len(InsertAt(s, pos, e)) = Len(s) + 1
         /\ \A j \in 1..(Len(s) + 1) :
               InsertAt(s, pos, e)[j] = IF j < pos THEN s[j]
                                        ELSE IF j = pos THEN e ELSE s[j - 1]
<1> DEFINE a == SubSeq(s, 1, pos - 1)
           b == SubSeq(s, pos, Len(s))
           c == a \o <<e>>
<1>1. Len(s) \in Nat /\ pos \in Int /\ \A j \in 1..Len(s) : s[j] \in S
  BY LenProperties, ElementOfSeq
<1>2. /\ a \in Seq(S) /\ Len(a) = pos - 1
      /\ \A j \in 1..(pos - 1) : a[j] = s[j]
  BY <1>1, SubSeqProperties
<1>3. /\ b \in Seq(S) /\ Len(b) = Len(s) - pos + 1
      /\ \A j \in 1..(Len(s) - pos + 1) : b[j] = s[pos + j - 1]
  BY <1>1, SubSeqProperties
<1>i. InsertAt(s, pos, e) = c \o b
  BY DEF InsertAt
<1> HIDE DEF a, b
<1>4. /\ c \in Seq(S) /\ Len(c) = pos
      /\ \A j \in 1..(pos - 1) : c[j] = s[j]
      /\ c[pos] = e
  <2>1. <<e>> \in Seq(S) /\ Len(<<e>>) = 1 /\ <<e>>[1] = e
    OBVIOUS
  <2>2. /\ c \in Seq(S) /\ Len(c) = Len(a) + 1
        /\ \A j \in 1..(Len(a) + 1) : c[j] = IF j <= Len(a) THEN a[j] ELSE <<e>>[j - Len(a)]
    BY <1>2, <2>1, ConcatProperties
  <2> HIDE DEF c
  <2>3. c[pos] = <<e>>[1]
    BY <2>2, <1>1, <1>2
  <2> QED BY <1>1, <1>2, <2>1, <2>2, <2>3
<1> HIDE DEF c
<1>5. /\ c \o b \in Seq(S)
      /\ Len(c \o b) = Len(c) + Len(b)
      /\ \A j \in 1..(Len(c) + Len(b)) :
            (c \o b)[j] = IF j <= Len(c) THEN c[j] ELSE b[j - Len(c)]
  BY <1>3, <1>4, ConcatProperties
<1>6. \A j \in 1..(Len(s) + 1) :
         (c \o b)[j] = IF j < pos THEN s[j] ELSE IF j = pos THEN e ELSE s[j - 1]
  <2> SUFFICES ASSUME NEW j \in 1..(Len(s) + 1)
               PROVE  (c \o b)[j] = IF j < pos THEN s[j]
                                    ELSE IF j = pos THEN e ELSE s[j - 1]
    OBVIOUS
  <2>1. (c \o b)[j] = IF j <= pos THEN c[j] ELSE b[j - pos]
    BY <1>1, <1>3, <1>4, <1>5
  <2>2. CASE j <= pos
    BY <2>1, <2>2, <1>1, <1>4
  <2>3. CASE j > pos
    <3>1. j - pos \in 1..(Len(s) - pos + 1) /\ pos + (j - pos) - 1 = j - 1
      BY <2>3, <1>1
    <3> QED BY <3>1, <2>1, <2>3, <1>1, <1>3
  <2>4. j <= pos \/ j > pos
    BY <1>1
  <2> QED BY <2>2, <2>3, <2>4
<1> QED BY <1>1, <1>3, <1>4, <1>5, <1>6, <1>i

\* Older is a strict order on stored samples, total where event IDs differ.
LEMMA OlderTransitive ==
  ASSUME NEW s \in StoredMetric, NEW t \in StoredMetric, NEW u \in StoredMetric,
         Older(s, t), Older(t, u)
  PROVE  Older(s, u)
<1>1. /\ s.timestamp_ms \in Int /\ t.timestamp_ms \in Int /\ u.timestamp_ms \in Int
      /\ s.event_id \in Nat /\ t.event_id \in Nat /\ u.event_id \in Nat
  BY DEF StoredMetric
<1> QED BY <1>1 DEF Older

\* No two stored samples with different event IDs are equally old.
LEMMA OlderTotal ==
  ASSUME NEW s \in StoredMetric, NEW t \in StoredMetric,
         s.event_id # t.event_id, ~Older(t, s)
  PROVE  Older(s, t)
<1>1. /\ s.timestamp_ms \in Int /\ t.timestamp_ms \in Int
      /\ s.event_id \in Nat /\ t.event_id \in Nat
  BY DEF StoredMetric
<1> QED BY <1>1 DEF Older

\* Below a bound there is room for one more, or none is left.
LEMMA RoomOrFull ==
  \A m, n \in Nat : /\ m <= n => (m + 1 <= n \/ m = n)
                    /\ m + 1 <= n => m # n
OBVIOUS

\* insert_bounded_metric(): a buffer that is sorted and keeps samples, with one
\* newer-numbered sample added at its upper bound and the front dropped when it
\* is over capacity, is sorted and keeps the larger set.
LEMMA InsertBoundedKeeps ==
  ASSUME NEW n \in Names, NEW buffer, NEW samples, NEW stored \in StoredMetric,
         SortedBuffer(buffer, n), Keeps(buffer, n, samples),
         samples \subseteq StoredMetric,
         stored.name = n,
         \A s \in samples : s.event_id # stored.event_id,
         NEW pos \in 1..(Len(buffer) + 1), IsUpperBound(buffer, stored, pos)
  PROVE  /\ SortedBuffer(InsertBounded(buffer, pos, stored), n)
         /\ Keeps(InsertBounded(buffer, pos, stored), n, samples \cup {stored})
<1> DEFINE r == InsertAt(buffer, pos, stored)
           N == Len(buffer)
<1>1. /\ buffer \in Seq(StoredMetric) /\ N \in Nat /\ N <= Capacity
      /\ DOMAIN buffer = 1..N
      /\ \A i \in 1..N : buffer[i] \in StoredMetric /\ buffer[i] \in samples
      /\ \A i \in 1..N : buffer[i].name = n
      /\ \A i, j \in 1..N : i < j => Older(buffer[i], buffer[j])
  BY LenProperties, ElementOfSeq DEF SortedBuffer, Keeps
<1>2. /\ r \in Seq(StoredMetric) /\ Len(r) = N + 1
      /\ \A j \in 1..(N + 1) : r[j] = IF j < pos THEN buffer[j]
                                      ELSE IF j = pos THEN stored ELSE buffer[j - 1]
  <2>1. buffer \in Seq(StoredMetric)
    BY <1>1
  <2> QED BY <2>1, InsertAtProperties
<1>c. Capacity \in Nat /\ Capacity # 0
  BY InMemoryAssumption
<1>r. InsertBounded(buffer, pos, stored) = IF Len(r) > Capacity THEN Tail(r) ELSE r
  BY DEF InsertBounded
<1> HIDE DEF r
<1>3. DOMAIN r = 1..(N + 1)
  BY <1>2, LenProperties
<1>4. /\ \A i \in 1..N : i < pos => Older(buffer[i], stored)
      /\ \A i \in 1..N : i >= pos => Older(stored, buffer[i])
  <2>1. \A i \in 1..N : IF i < pos THEN ~Older(stored, buffer[i])
                                   ELSE Older(stored, buffer[i])
    BY <1>1 DEF IsUpperBound
  <2>2. \A i \in 1..N : buffer[i].event_id # stored.event_id
    BY <1>1
  <2> QED BY <1>1, <2>1, <2>2, OlderTotal
<1>5. \A j \in 1..(N + 1) : r[j] \in StoredMetric /\ r[j].name = n
                            /\ r[j] \in samples \cup {stored}
  BY <1>1, <1>2
<1>6. \A i, j \in 1..(N + 1) : i < j => Older(r[i], r[j])
  <2> SUFFICES ASSUME NEW i \in 1..(N + 1), NEW j \in 1..(N + 1), i < j
               PROVE  Older(r[i], r[j])
    OBVIOUS
  <2>1. CASE j < pos
    BY <2>1, <1>1, <1>2
  <2>2. CASE j = pos
    BY <2>2, <1>1, <1>2, <1>4
  <2>3. CASE i < pos /\ j > pos
    <3>1. r[i] = buffer[i] /\ r[j] = buffer[j - 1] /\ i \in 1..N /\ j - 1 \in 1..N /\ i < j - 1
      BY <2>3, <1>1, <1>2
    <3> QED BY <3>1, <1>1
  <2>4. CASE i = pos
    <3>1. r[i] = stored /\ r[j] = buffer[j - 1] /\ j - 1 \in 1..N /\ j - 1 >= pos
      BY <2>4, <1>1, <1>2
    <3> QED BY <3>1, <1>4
  <2>5. CASE i > pos
    <3>1. r[i] = buffer[i - 1] /\ r[j] = buffer[j - 1] /\ i - 1 \in 1..N /\ j - 1 \in 1..N
          /\ i - 1 < j - 1
      BY <2>5, <1>1, <1>2
    <3> QED BY <3>1, <1>1
  <2> QED BY <2>1, <2>2, <2>3, <2>4, <2>5, <1>1
<1>7. /\ \E k \in 1..(N + 1) : r[k] = stored
      /\ \A i \in 1..N : \E k \in 1..(N + 1) : r[k] = buffer[i]
  <2>1. r[pos] = stored
    BY <1>1, <1>2
  <2>2. ASSUME NEW i \in 1..N
        PROVE  \E k \in 1..(N + 1) : r[k] = buffer[i]
    <3>1. CASE i < pos
      BY <3>1, <1>1, <1>2
    <3>2. CASE i >= pos
      <4>1. i + 1 \in 1..(N + 1) /\ r[i + 1] = buffer[i]
        BY <3>2, <1>1, <1>2
      <4> QED BY <4>1
    <3> QED BY <3>1, <3>2, <1>1
  <2> QED BY <2>1, <2>2, <1>1
<1>8. CASE N + 1 <= Capacity
  <2>1. InsertBounded(buffer, pos, stored) = r
    BY <1>8, <1>1, <1>2, <1>c, <1>r
  <2>2. SortedBuffer(r, n)
    BY <1>8, <1>2, <1>3, <1>5, <1>6 DEF SortedBuffer
  <2>3. \A s \in samples \cup {stored} : s.name = n => \E k \in DOMAIN r : r[k] = s
    <3>1. N # Capacity
      BY <1>8, <1>1, <1>c, RoomOrFull
    <3>2. \A s \in samples : s.name = n => \E i \in 1..N : buffer[i] = s
      BY <3>1, <1>1 DEF Keeps
    <3> QED BY <3>2, <1>3, <1>7
  <2> QED BY <2>1, <2>2, <2>3, <1>3, <1>5 DEF Keeps
<1>9. CASE N = Capacity
  <2> DEFINE q == Tail(r)
  <2>1. InsertBounded(buffer, pos, stored) = q
    BY <1>9, <1>2, <1>c, <1>r
  <2>2. r # <<>>
    BY <1>1, <1>2
  <2>3. /\ q \in Seq(StoredMetric) /\ Len(q) = N
        /\ \A i \in 1..N : q[i] = r[i + 1]
    BY <1>1, <1>2, <2>2, HeadTailProperties
  <2> HIDE DEF q
  <2>4. DOMAIN q = 1..N
    BY <2>3, LenProperties
  <2>5. \A i \in 1..N : i + 1 \in 1..(N + 1) /\ q[i] = r[i + 1]
    BY <1>1, <2>3
  <2>6. SortedBuffer(q, n)
    <3>1. \A i \in 1..N : q[i].name = n
      BY <2>5, <1>5
    <3>2. \A i, j \in 1..N : i < j => Older(q[i], q[j])
      BY <2>5, <1>6
    <3> QED BY <3>1, <3>2, <2>3, <2>4, <1>1 DEF SortedBuffer
  <2>7. \A i \in 1..N : /\ q[i] \in samples \cup {stored}
                        /\ Older(r[1], q[i])
                        /\ q[i] \in StoredMetric
    <3>1. \A i \in 1..N : 1 \in 1..(N + 1) /\ 1 < i + 1
      BY <1>1
    <3> QED BY <3>1, <2>5, <1>5, <1>6
  <2>8. ASSUME NEW s \in samples \cup {stored}, s.name = n
        PROVE  \/ \E i \in DOMAIN q : q[i] = s
               \/ /\ Len(q) = Capacity
                  /\ \A i \in DOMAIN q : Older(s, q[i])
    <3>1. CASE \E k \in 1..(N + 1) : r[k] = s
      <4> PICK k \in 1..(N + 1) : r[k] = s
        BY <3>1
      <4>1. CASE k = 1
        BY <4>1, <2>3, <2>4, <2>7, <1>9
      <4>2. CASE k # 1
        <5>1. k - 1 \in 1..N /\ q[k - 1] = s
          BY <4>2, <1>1, <2>3
        <5> QED BY <5>1, <2>4
      <4> QED BY <4>1, <4>2
    <3>2. CASE ~\E k \in 1..(N + 1) : r[k] = s
      <4>1. s \in samples /\ s \in StoredMetric /\ ~\E i \in 1..N : buffer[i] = s
        BY <3>2, <1>7, <2>8
      <4>2. \A i \in 1..N : Older(s, buffer[i])
        BY <4>1, <2>8, <1>1 DEF Keeps
      <4>3. CASE pos = 1
        <5>1. \A i \in 1..N : q[i] = buffer[i]
          BY <4>3, <1>1, <1>2, <2>3
        <5> QED BY <5>1, <4>2, <2>3, <2>4, <1>9
      <4>4. CASE pos # 1
        <5>1. r[1] = buffer[1] /\ 1 \in 1..N /\ r[1] \in StoredMetric
          BY <4>4, <1>1, <1>2, <1>9, <1>c
        <5>2. Older(s, r[1])
          BY <5>1, <4>2
        <5>3. \A i \in 1..N : Older(s, q[i])
          BY <5>1, <5>2, <4>1, <2>7, OlderTransitive
        <5> QED BY <5>3, <2>3, <2>4, <1>9
      <4> QED BY <4>3, <4>4
    <3> QED BY <3>1, <3>2
  <2> QED BY <2>1, <2>4, <2>6, <2>7, <2>8 DEF Keeps
<1>10. N + 1 <= Capacity \/ N = Capacity
  BY <1>1, <1>c, RoomOrFull
<1> QED BY <1>8, <1>9, <1>10

-----------------------------------------------------------------------------
\* What a valid batch stores: well-typed samples, numbered from base + 1.
LEMMA StoredTyped ==
  ASSUME NEW b \in Batches, IsValid(b), NEW base \in Nat
  PROVE  /\ Len(b.metrics) \in Nat /\ DOMAIN b.metrics = 1..Len(b.metrics)
         /\ \A i \in 1..Len(b.metrics) :
               /\ Stored(b, i, base) \in StoredMetric
               /\ Stored(b, i, base).name = b.metrics[i].name
               /\ b.metrics[i].name \in Names
               /\ Stored(b, i, base).event_id = base + i
<1>1. b.metrics \in Seq(Metrics(b))
  BY InMemoryAssumption
<1>2. Len(b.metrics) \in Nat /\ DOMAIN b.metrics = 1..Len(b.metrics)
  BY <1>1, LenProperties
<1>3. ASSUME NEW i \in 1..Len(b.metrics)
      PROVE  /\ Stored(b, i, base) \in StoredMetric
             /\ Stored(b, i, base).name = b.metrics[i].name
             /\ b.metrics[i].name \in Names
             /\ Stored(b, i, base).event_id = base + i
  <2> DEFINE m == b.metrics[i]
  <2>1. m \in Metrics(b)
    BY <1>2 DEF Metrics
  <2>2. m.name \in Names /\ m.timestamp_ms \in Int
    BY <2>1, InMemoryAssumption DEF IsValid
  <2>3. m \in AllMetrics
    BY <2>1 DEF AllMetrics
  <2>4. base + i \in Nat \ {0}
    BY <1>2
  <2> HIDE DEF m
  <2>5. Stored(b, i, base) = [name |-> m.name, timestamp_ms |-> m.timestamp_ms,
                              value |-> m.value, tags |-> m.tags,
                              source_client_id |-> b.client_id, event_id |-> base + i]
    BY DEF Stored, m
  <2>6. Stored(b, i, base) \in StoredMetric
    BY <2>2, <2>3, <2>4, <2>5 DEF StoredMetric
  <2> QED BY <2>2, <2>5, <2>6 DEF m
<1> QED BY <1>2, <1>3

\* The committed samples are well typed and use event IDs up to LastId.
LEMMA CommittedTyped ==
  ASSUME IInv
  PROVE  /\ LastId \in Nat
         /\ CommittedSamples \subseteq StoredMetric
         /\ \A s \in CommittedSamples : s.event_id <= LastId
<1>1. LastId \in Nat
  BY InMemoryAssumption DEF IInv, TypeOK, LastId
<1>2. ASSUME NEW s \in CommittedSamples
      PROVE  s \in StoredMetric /\ s.event_id <= LastId
  <2>1. PICK c \in commits : s \in StoredBatch(c.batch, c.base)
    BY DEF CommittedSamples
  <2>2. /\ c.batch \in Batches /\ IsValid(c.batch) /\ c.base \in Nat
        /\ c.base + Len(c.batch.metrics) <= LastId
    BY DEF IInv, CommitInv
  <2>3. Len(c.batch.metrics) \in Nat
    BY <2>2, StoredTyped
  <2>4. PICK i \in 1..Len(c.batch.metrics) : s = Stored(c.batch, i, c.base)
    BY <2>1, <2>2, StoredTyped DEF StoredBatch
  <2>5. s \in StoredMetric /\ s.event_id = c.base + i
    BY <2>2, <2>4, StoredTyped
  <2> QED BY <1>1, <2>2, <2>3, <2>5
<1> QED BY <1>1, <1>2

\* The lock: whoever is staging or publishing is the holder, and alone.
LEMMA LockFacts ==
  ASSUME IInv
  PROVE  /\ \A w \in Writers : pc[w] = "staging" => ~Publishing /\ mutex = w
         /\ \A w \in Writers : pc[w] = "publishing" => Publishing /\ mutex = w
         /\ mutex = None => ~Publishing /\ \A w \in Writers : pc[w] # "staging"
         /\ \A w \in Writers : pc[w] # "idle" => batch[w] \in Batches /\ IsValid(batch[w])
<1>1. None \notin Writers
  BY InMemoryAssumption
<1> QED BY <1>1 DEF IInv, TypeOK, CommitInv, Publishing

\* The empty store, with no thread in commit_batch().
LEMMA InitIInv == Init => IInv
<1> SUFFICES ASSUME Init PROVE IInv
  OBVIOUS
<1>1. /\ <<>> \in Seq(StoredMetric) /\ Len(<<>>) = 0 /\ DOMAIN <<>> = {}
  BY EmptySeq
<1>2. /\ DOMAIN NoBuffers = {} /\ NoBuffers \in [{} -> Seq(StoredMetric)]
  BY DEF NoBuffers
<1>3. CommittedSamples = {}
  BY DEF Init, CommittedSamples
<1>4. ~Publishing /\ \A w \in Writers : pc[w] = "idle"
  BY DEF Init, Publishing
<1>m. MaxEventId \in Nat /\ None \notin Writers /\ None \notin Batches
      /\ Capacity \in Nat
  BY InMemoryAssumption
<1>5. TypeOK
  <2>1. 0 \in 0..MaxEventId
    BY <1>m
  <2>2. staged_buffers \in [DOMAIN staged_buffers -> Seq(StoredMetric)]
        /\ DOMAIN staged_buffers \subseteq Names
    BY <1>2 DEF Init
  <2> QED BY <1>1, <1>m, <2>1, <2>2 DEF Init, TypeOK
<1>6. CommitInv
  BY <1>2 DEF Init, CommitInv, CommittedOnce
<1>7. \A n \in Names : SortedBuffer(metric_buffers[n], n) /\ Keeps(metric_buffers[n], n, {})
  BY <1>1, <1>m DEF Init, SortedBuffer, Keeps
<1>8. BufferInv
  BY <1>2, <1>3, <1>4, <1>7 DEF Init, BufferInv
<1> QED BY <1>5, <1>6, <1>8 DEF IInv

-----------------------------------------------------------------------------
(* The steps that leave the store alone.                                   *)

\* Entering commit_batch(), and its two early returns under the lock.
LEMMA CallOrReturnKeepsIInv ==
  ASSUME IInv, NEW w \in Writers,
         \/ \E b \in Batches : CallCommit(w, b)
         \/ CommitDuplicate(w)
         \/ CommitExhausted(w)
  PROVE  IInv'
<1>1. /\ UNCHANGED <<mutex, metric_buffers, committed_batch_ids, current_event_id,
                     staged_buffers, next_event_id, commits>>
      /\ pc[w] \in {"idle", "waiting"}
  BY DEF CallCommit, CommitDuplicate, CommitExhausted, store, locals
<1>2. \/ \E b \in Batches : /\ IsValid(b)
                            /\ pc' = [pc EXCEPT ![w] = "waiting"]
                            /\ batch' = [batch EXCEPT ![w] = b]
      \/ /\ pc' = [pc EXCEPT ![w] = "idle"]
         /\ batch' = [batch EXCEPT ![w] = None]
  BY DEF CallCommit, CommitDuplicate, CommitExhausted, Return
<1>3. /\ pc \in [Writers -> {"idle", "waiting", "staging", "publishing"}]
      /\ batch \in [Writers -> Batches \cup {None}]
      /\ None \notin Batches
  BY InMemoryAssumption DEF IInv, TypeOK
<1>4. /\ pc' \in [Writers -> {"idle", "waiting", "staging", "publishing"}]
      /\ batch' \in [Writers -> Batches \cup {None}]
      /\ pc'[w] \in {"idle", "waiting"}
      /\ (pc'[w] = "idle") <=> (batch'[w] = None)
      /\ batch'[w] # None => IsValid(batch'[w])
      /\ \A v \in Writers : v # w => pc'[v] = pc[v] /\ batch'[v] = batch[v]
  BY <1>2, <1>3
<1>5. \A v \in Writers : /\ (pc'[v] = "staging") <=> (pc[v] = "staging")
                         /\ (pc'[v] = "publishing") <=> (pc[v] = "publishing")
                         /\ pc[v] = "staging" => batch'[v] = batch[v]
  BY <1>1, <1>4
<1>6. Publishing' = Publishing
  BY <1>5 DEF Publishing
<1>7. CommittedSamples' = CommittedSamples
  BY <1>1 DEF CommittedSamples
<1>8. TypeOK'
  BY <1>1, <1>4, <1>5 DEF IInv, TypeOK
<1>9. CommitInv'
  BY <1>1, <1>4, <1>6 DEF IInv, CommitInv, CommittedOnce, LastId
<1>10. ASSUME NEW v \in Writers, pc'[v] = "staging"
       PROVE  StagedOK(v)'
  <2>1. StagedOK(v) /\ batch'[v] = batch[v]
    BY <1>5, <1>10 DEF IInv, BufferInv
  <2>2. Pending(v)' = Pending(v) /\ Staged' = Staged
    BY <1>1, <2>1 DEF Pending, Staged
  <2> QED BY <1>1, <1>7, <2>1, <2>2 DEF StagedOK
<1>11. BufferInv'
  BY <1>1, <1>6, <1>7, <1>10 DEF IInv, BufferInv, PublishedBuffer
<1> QED BY <1>8, <1>9, <1>11 DEF IInv

\* A failed allocation: the staged copies are gone, the store is as before.
LEMMA CommitThrowsKeepsIInv ==
  ASSUME IInv, NEW w \in Writers, CommitThrows(w)
  PROVE  IInv'
<1>1. /\ UNCHANGED <<metric_buffers, committed_batch_ids, current_event_id, commits>>
      /\ mutex' = None /\ staged_buffers' = NoBuffers /\ next_event_id' = current_event_id
      /\ pc[w] = "staging"
      /\ pc' = [pc EXCEPT ![w] = "idle"]
      /\ batch' = [batch EXCEPT ![w] = None]
  BY DEF CommitThrows, Return, store
<1>2. mutex = w /\ ~Publishing
  BY <1>1, LockFacts
<1>3. /\ pc \in [Writers -> {"idle", "waiting", "staging", "publishing"}]
      /\ batch \in [Writers -> Batches \cup {None}]
      /\ None \notin Batches /\ None \notin Writers
      /\ MaxEventId \in Nat /\ current_event_id \in 0..MaxEventId
      /\ \A v \in Writers : (pc[v] \in {"staging", "publishing"}) <=> (mutex = v)
  BY InMemoryAssumption DEF IInv, TypeOK
<1>4. \A v \in Writers : /\ pc'[v] \in {"idle", "waiting"}
                         /\ v # w => pc'[v] = pc[v] /\ batch'[v] = batch[v]
  BY <1>1, <1>2, <1>3
<1>5. pc'[w] = "idle" /\ batch'[w] = None
  BY <1>1, <1>3
<1>6. /\ DOMAIN staged_buffers' = {}
      /\ staged_buffers' \in [{} -> Seq(StoredMetric)]
  BY <1>1 DEF NoBuffers
<1>7. ~Publishing' /\ CommittedSamples' = CommittedSamples
  BY <1>1, <1>4 DEF Publishing, CommittedSamples
<1>8. TypeOK'
  <2>1. next_event_id' \in current_event_id'..MaxEventId
    BY <1>1, <1>3
  <2>2. /\ pc' \in [Writers -> {"idle", "waiting", "staging", "publishing"}]
        /\ batch' \in [Writers -> Batches \cup {None}]
    BY <1>1, <1>3
  <2>3. \A v \in Writers : /\ (pc'[v] = "idle") <=> (batch'[v] = None)
                           /\ (pc'[v] \in {"staging", "publishing"}) <=> (mutex' = v)
    BY <1>1, <1>3, <1>4, <1>5 DEF IInv, TypeOK
  <2> QED BY <1>1, <1>6, <2>1, <2>2, <2>3 DEF IInv, TypeOK
<1>9. CommitInv'
  <2>1. LastId' = LastId
    BY <1>1, <1>2, <1>7 DEF LastId
  <2>2. \A v \in Writers : batch'[v] # None => IsValid(batch'[v])
    BY <1>4, <1>5 DEF IInv, CommitInv
  <2> QED BY <1>1, <1>6, <2>1, <2>2 DEF IInv, CommitInv, CommittedOnce
<1>10. BufferInv'
  BY <1>1, <1>2, <1>4, <1>6, <1>7 DEF IInv, BufferInv
<1> QED BY <1>8, <1>9, <1>10 DEF IInv

\* Getting the lock with a new batch ID: nothing is staged yet.
LEMMA BeginCommitKeepsIInv ==
  ASSUME IInv, NEW w \in Writers, BeginCommit(w)
  PROVE  IInv'
<1>1. /\ UNCHANGED <<metric_buffers, committed_batch_ids, current_event_id, batch, commits>>
      /\ mutex = None /\ mutex' = w
      /\ staged_buffers' = NoBuffers /\ next_event_id' = current_event_id
      /\ pc[w] = "waiting" /\ pc' = [pc EXCEPT ![w] = "staging"]
      /\ batch[w].batch_id \notin committed_batch_ids
  BY DEF BeginCommit, EnterStaging, store
<1>2. ~Publishing /\ \A v \in Writers : pc[v] \notin {"staging", "publishing"}
  BY <1>1, LockFacts DEF Publishing
<1>3. /\ pc \in [Writers -> {"idle", "waiting", "staging", "publishing"}]
      /\ None \notin Writers
      /\ MaxEventId \in Nat /\ current_event_id \in 0..MaxEventId
  BY InMemoryAssumption DEF IInv, TypeOK
<1>4. /\ pc'[w] = "staging"
      /\ \A v \in Writers : v # w => pc'[v] = pc[v]
  BY <1>1, <1>3
<1>6. /\ DOMAIN staged_buffers' = {}
      /\ staged_buffers' \in [{} -> Seq(StoredMetric)]
  BY <1>1 DEF NoBuffers
<1>7. ~Publishing' /\ CommittedSamples' = CommittedSamples
  BY <1>1, <1>2, <1>4 DEF Publishing, CommittedSamples
<1>8. TypeOK'
  <2>1. next_event_id' \in current_event_id'..MaxEventId
    BY <1>1, <1>3
  <2>2. pc' \in [Writers -> {"idle", "waiting", "staging", "publishing"}]
    BY <1>1, <1>3
  <2>3. \A v \in Writers : /\ (pc'[v] = "idle") <=> (batch'[v] = None)
                           /\ (pc'[v] \in {"staging", "publishing"}) <=> (mutex' = v)
    BY <1>1, <1>2, <1>4 DEF IInv, TypeOK
  <2> QED BY <1>1, <1>6, <2>1, <2>2, <2>3 DEF IInv, TypeOK
<1>9. CommitInv'
  <2>1. LastId' = LastId
    BY <1>1, <1>2, <1>7 DEF LastId
  <2> QED BY <1>1, <1>3, <2>1 DEF IInv, CommitInv, CommittedOnce
<1>10. StagedOK(w)'
  <2>1. Staged' = 0
    BY <1>1, <1>3 DEF Staged
  <2>2. Len(batch[w].metrics) \in Nat
    BY <1>1, LockFacts, StoredTyped, <1>3
  <2>3. current_event_id + Len(batch[w].metrics) <= MaxEventId
    BY <1>3, <2>2 DEF BeginCommit
  <2> QED BY <1>1, <1>6, <2>1, <2>2, <2>3 DEF StagedOK
<1>11. BufferInv'
  BY <1>1, <1>2, <1>4, <1>6, <1>7, <1>10 DEF IInv, BufferInv
<1> QED BY <1>8, <1>9, <1>11 DEF IInv

-----------------------------------------------------------------------------
(* The steps that build and publish the staged copies.                     *)

\* One round of the staging loop.
LEMMA StageMetricKeepsIInv ==
  ASSUME IInv, NEW w \in Writers, StageMetric(w)
  PROVE  IInv'
<1> DEFINE b      == batch[w]
           k      == Staged + 1
           stored == Stored(b, k, current_event_id)
           n      == stored.name
           copy   == IF n \in DOMAIN staged_buffers THEN staged_buffers[n]
                                                    ELSE metric_buffers[n]
           old    == CommittedSamples \cup Pending(w)
<1>1. /\ UNCHANGED <<mutex, metric_buffers, committed_batch_ids, current_event_id,
                     pc, batch, commits>>
      /\ pc[w] = "staging" /\ Staged < Len(b.metrics)
      /\ next_event_id' = next_event_id + 1
  BY DEF StageMetric, store
<1>2. PICK pos \in 1..(Len(copy) + 1) :
         /\ IsUpperBound(copy, stored, pos)
         /\ staged_buffers' = [m \in DOMAIN staged_buffers \cup {n} |->
                                 IF m = n THEN InsertBounded(copy, pos, stored)
                                          ELSE staged_buffers[m]]
  BY DEF StageMetric
<1>3. /\ b \in Batches /\ IsValid(b) /\ mutex = w /\ ~Publishing
      /\ StagedOK(w)
  BY <1>1, LockFacts DEF IInv, BufferInv
<1>4. /\ MaxEventId \in Nat /\ current_event_id \in Nat /\ next_event_id \in Nat
      /\ current_event_id <= next_event_id /\ Len(b.metrics) \in Nat
      /\ Staged = next_event_id - current_event_id /\ Staged \in Nat
      /\ k \in 1..Len(b.metrics) /\ Staged' = Staged + 1
      /\ next_event_id' <= MaxEventId
  <2>1. /\ MaxEventId \in Nat /\ current_event_id \in Nat /\ next_event_id \in Nat
        /\ current_event_id <= next_event_id
    BY InMemoryAssumption DEF IInv, TypeOK
  <2>2. Len(b.metrics) \in Nat
    BY <1>3, StoredTyped, <2>1
  <2>3. Staged = next_event_id - current_event_id /\ Staged' = Staged + 1
    BY <1>1, <2>1 DEF Staged
  <2>4. current_event_id + Len(b.metrics) <= MaxEventId
    BY <1>3 DEF StagedOK
  <2> QED BY <1>1, <2>1, <2>2, <2>3, <2>4
<1>5. /\ stored \in StoredMetric /\ n \in Names /\ n = b.metrics[k].name
      /\ stored.event_id = current_event_id + k
  BY <1>3, <1>4, StoredTyped
<1>6. old \subseteq StoredMetric /\ \A s \in old : s.event_id # stored.event_id
  <2>1. ASSUME NEW s \in CommittedSamples
        PROVE  s \in StoredMetric /\ s.event_id # stored.event_id
    <3>1. s \in StoredMetric /\ s.event_id <= current_event_id /\ s.event_id \in Nat
      BY <1>3, CommittedTyped DEF LastId, StoredMetric
    <3> QED BY <3>1, <1>4, <1>5
  <2>2. ASSUME NEW s \in Pending(w)
        PROVE  s \in StoredMetric /\ s.event_id # stored.event_id
    <3>1. PICK i \in 1..Staged : s = Stored(b, i, current_event_id)
      BY DEF Pending
    <3>2. i \in 1..Len(b.metrics) /\ i < k
      BY <1>4
    <3>3. s \in StoredMetric /\ s.event_id = current_event_id + i
      BY <3>1, <3>2, <1>3, <1>4, StoredTyped
    <3> QED BY <3>2, <3>3, <1>4, <1>5
  <2> QED BY <2>1, <2>2
<1>7. Pending(w)' = Pending(w) \cup {stored}
  <2>1. Pending(w)' = {Stored(b, i, current_event_id) : i \in 1..k}
    BY <1>1, <1>4 DEF Pending
  <2>2. 1..k = 1..Staged \cup {k}
    BY <1>4
  <2> QED BY <2>1, <2>2 DEF Pending
<1>8. CommittedSamples' = CommittedSamples /\ ~Publishing'
  BY <1>1, <1>3 DEF CommittedSamples, Publishing
<1>9. SortedBuffer(copy, n) /\ Keeps(copy, n, old)
  <2>1. CASE n \in DOMAIN staged_buffers
    BY <2>1, <1>3 DEF IInv, BufferInv, StagedOK
  <2>2. CASE n \notin DOMAIN staged_buffers
    <3>1. SortedBuffer(copy, n) /\ Keeps(copy, n, CommittedSamples)
      BY <2>2, <1>3, <1>5 DEF IInv, BufferInv
    <3>2. \A s \in Pending(w) : s.name # n
      <4> SUFFICES ASSUME NEW s \in Pending(w) PROVE s.name # n
        OBVIOUS
      <4>1. PICK i \in 1..Staged : s = Stored(b, i, current_event_id)
        BY DEF Pending
      <4>2. s.name = b.metrics[i].name
        BY <4>1 DEF Stored
      <4>3. b.metrics[i].name \in DOMAIN staged_buffers
        BY <1>3 DEF StagedOK
      <4> QED BY <4>2, <4>3, <2>2
    <3> HIDE DEF copy, n
    <3> QED BY <3>1, <3>2 DEF Keeps
  <2> QED BY <2>1, <2>2
<1> HIDE DEF old, copy
<1>10. LET new == InsertBounded(copy, pos, stored)
       IN  SortedBuffer(new, n) /\ Keeps(new, n, old \cup {stored})
  BY <1>2, <1>5, <1>6, <1>9, InsertBoundedKeeps
<1> DEFINE new == InsertBounded(copy, pos, stored)
<1> HIDE DEF new
<1>11. SortedBuffer(new, n) /\ Keeps(new, n, old \cup {stored})
  BY <1>10 DEF new
<1> HIDE DEF stored, n
<1>12. /\ DOMAIN staged_buffers' = DOMAIN staged_buffers \cup {n}
       /\ staged_buffers'[n] = new
       /\ \A m \in DOMAIN staged_buffers : m # n => staged_buffers'[m] = staged_buffers[m]
  BY <1>2 DEF new, n
<1>13. \A m \in DOMAIN staged_buffers' :
          /\ SortedBuffer(staged_buffers'[m], m)
          /\ Keeps(staged_buffers'[m], m, old \cup {stored})
  <2> SUFFICES ASSUME NEW m \in DOMAIN staged_buffers'
               PROVE  /\ SortedBuffer(staged_buffers'[m], m)
                      /\ Keeps(staged_buffers'[m], m, old \cup {stored})
    OBVIOUS
  <2>1. CASE m = n
    BY <2>1, <1>11, <1>12
  <2>2. CASE m # n
    <3>1. m \in DOMAIN staged_buffers /\ staged_buffers'[m] = staged_buffers[m]
      BY <2>2, <1>12
    <3>2. SortedBuffer(staged_buffers[m], m) /\ Keeps(staged_buffers[m], m, old)
      BY <3>1, <1>3 DEF IInv, BufferInv, StagedOK, old
    <3>3. stored.name # m
      BY <2>2 DEF n
    <3> QED BY <3>1, <3>2, <3>3 DEF Keeps
  <2> QED BY <2>1, <2>2
<1>14. TypeOK'
  <2>1. \A m \in DOMAIN staged_buffers' : staged_buffers'[m] \in Seq(StoredMetric)
    BY <1>13 DEF SortedBuffer
  <2>2. staged_buffers' \in [DOMAIN staged_buffers' -> Seq(StoredMetric)]
    BY <1>2, <2>1
  <2>3. DOMAIN staged_buffers' \subseteq Names
    BY <1>5, <1>12 DEF IInv, TypeOK
  <2>4. next_event_id' \in current_event_id'..MaxEventId
    BY <1>1, <1>4
  <2> QED BY <1>1, <2>2, <2>3, <2>4 DEF IInv, TypeOK
<1>15. CommitInv'
  <2>1. LastId' = LastId /\ mutex' # None
    BY <1>1, <1>3, <1>8, InMemoryAssumption DEF LastId
  <2> QED BY <1>1, <2>1 DEF IInv, CommitInv, CommittedOnce
<1>16. StagedOK(w)'
  <2>1. \A i \in 1..(Staged + 1) : b.metrics[i].name \in DOMAIN staged_buffers'
    <3>1. \A i \in 1..Staged : b.metrics[i].name \in DOMAIN staged_buffers
      BY <1>3 DEF StagedOK
    <3>2. \A i \in 1..(Staged + 1) : i \in 1..Staged \/ i = k
      BY <1>4
    <3> QED BY <3>1, <3>2, <1>5, <1>12
  <2>2. Staged + 1 <= Len(b.metrics)
    BY <1>4
  <2>3. CommittedSamples' \cup Pending(w)' = old \cup {stored}
    BY <1>7, <1>8 DEF old
  <2> QED BY <1>1, <1>3, <1>4, <1>13, <2>1, <2>2, <2>3 DEF StagedOK
<1>17. \A v \in Writers : pc'[v] = "staging" => v = w
  BY <1>1, <1>3, LockFacts
<1>18. BufferInv'
  BY <1>1, <1>3, <1>8, <1>13, <1>16, <1>17 DEF IInv, BufferInv
<1> QED BY <1>14, <1>15, <1>18 DEF IInv

\* Recording the batch ID: the staged samples become the committed ones.
LEMMA RecordBatchIdKeepsIInv ==
  ASSUME IInv, NEW w \in Writers, RecordBatchId(w)
  PROVE  IInv'
<1> DEFINE b == batch[w]
           c == [batch |-> b, base |-> current_event_id]
<1>1. /\ UNCHANGED <<mutex, metric_buffers, current_event_id, staged_buffers,
                     next_event_id, batch>>
      /\ pc[w] = "staging" /\ Staged = Len(b.metrics)
      /\ committed_batch_ids' = committed_batch_ids \cup {b.batch_id}
      /\ commits' = commits \cup {c}
      /\ pc' = [pc EXCEPT ![w] = "publishing"]
  BY DEF RecordBatchId, locals
<1>2. /\ b \in Batches /\ IsValid(b) /\ mutex = w /\ ~Publishing
      /\ StagedOK(w)
  BY <1>1, LockFacts DEF IInv, BufferInv
<1>3. /\ MaxEventId \in Nat /\ current_event_id \in Nat /\ next_event_id \in Nat
      /\ current_event_id \in 0..MaxEventId
      /\ Len(b.metrics) \in Nat
      /\ next_event_id = current_event_id + Len(b.metrics)
  <2>1. /\ MaxEventId \in Nat /\ current_event_id \in Nat /\ next_event_id \in Nat
        /\ current_event_id \in 0..MaxEventId
    BY InMemoryAssumption DEF IInv, TypeOK
  <2>2. Len(b.metrics) \in Nat
    BY <1>2, <2>1, StoredTyped
  <2> QED BY <1>1, <2>1, <2>2 DEF Staged
<1>4. /\ pc \in [Writers -> {"idle", "waiting", "staging", "publishing"}]
      /\ pc' \in [Writers -> {"idle", "waiting", "staging", "publishing"}]
      /\ pc'[w] = "publishing"
      /\ \A v \in Writers : v # w => pc'[v] = pc[v] /\ pc[v] \notin {"staging", "publishing"}
  BY <1>1, <1>2 DEF IInv, TypeOK
<1>5. Publishing' /\ LastId = current_event_id /\ LastId' = next_event_id
  BY <1>1, <1>2, <1>4 DEF Publishing, LastId
<1>6. CommittedSamples' = CommittedSamples \cup Pending(w)
  <2>1. StoredBatch(b, current_event_id) = Pending(w)
    BY <1>1, <1>2, <1>3, StoredTyped DEF StoredBatch, Pending
  <2>2. CommittedSamples' = CommittedSamples \cup StoredBatch(c.batch, c.base)
    BY <1>1 DEF CommittedSamples
  <2> QED BY <2>1, <2>2
<1>7. c \in [batch : Batches, base : 0..MaxEventId] /\ c.batch = b /\ c.base = current_event_id
  BY <1>2, <1>3
<1> HIDE DEF c
<1>8. TypeOK'
  <2>1. \A v \in Writers : /\ (pc'[v] = "idle") <=> (batch'[v] = None)
                           /\ (pc'[v] \in {"staging", "publishing"}) <=> (mutex' = v)
    BY <1>1, <1>2, <1>4 DEF IInv, TypeOK
  <2>2. committed_batch_ids' \subseteq {a.batch_id : a \in Batches}
    BY <1>1, <1>2 DEF IInv, TypeOK
  <2>3. commits' \subseteq [batch : Batches, base : 0..MaxEventId]
    BY <1>1, <1>7 DEF IInv, TypeOK
  <2> QED BY <1>1, <1>4, <2>1, <2>2, <2>3 DEF IInv, TypeOK
<1>9. CommitInv'
  <2>1. CommittedOnce'
    <3>1. \A d \in commits : d.batch.batch_id # c.batch.batch_id
      BY <1>2, <1>7 DEF IInv, CommitInv, CommittedOnce, StagedOK
    <3>2. \A d, e \in commits' : d.batch.batch_id = e.batch.batch_id => d = e
      BY <1>1, <3>1 DEF IInv, CommitInv, CommittedOnce
    <3>3. committed_batch_ids' = {d.batch.batch_id : d \in commits'}
      BY <1>1, <1>7 DEF IInv, CommitInv, CommittedOnce
    <3> QED BY <3>2, <3>3 DEF CommittedOnce
  <2>2. \A d \in commits' : /\ d.batch \in Batches /\ IsValid(d.batch) /\ d.base \in Nat
                            /\ d.base + Len(d.batch.metrics) <= LastId'
    <3> SUFFICES ASSUME NEW d \in commits'
                 PROVE  /\ d.batch \in Batches /\ IsValid(d.batch) /\ d.base \in Nat
                        /\ d.base + Len(d.batch.metrics) <= LastId'
      OBVIOUS
    <3>1. CASE d = c
      BY <3>1, <1>2, <1>3, <1>5, <1>7
    <3>2. CASE d \in commits
      <4>1. /\ d.batch \in Batches /\ IsValid(d.batch) /\ d.base \in Nat
            /\ d.base + Len(d.batch.metrics) <= current_event_id
        BY <3>2, <1>5 DEF IInv, CommitInv
      <4>2. Len(d.batch.metrics) \in Nat
        BY <4>1, StoredTyped
      <4> QED BY <4>1, <4>2, <1>3, <1>5
    <3> QED BY <3>1, <3>2, <1>1
  <2>3. mutex' # None
    BY <1>1, <1>2, InMemoryAssumption
  <2> QED BY <1>1, <2>1, <2>2, <2>3 DEF IInv, CommitInv
<1>10. \A n \in Names : Keeps(PublishedBuffer(n)', n, CommittedSamples')
  <2> SUFFICES ASSUME NEW n \in Names
               PROVE  Keeps(PublishedBuffer(n)', n, CommittedSamples \cup Pending(w))
    BY <1>6
  <2>1. CASE n \in DOMAIN staged_buffers
    <3>1. PublishedBuffer(n)' = staged_buffers[n]
      BY <2>1, <1>1, <1>5 DEF PublishedBuffer
    <3> QED BY <2>1, <3>1, <1>2 DEF StagedOK
  <2>2. CASE n \notin DOMAIN staged_buffers
    <3>1. PublishedBuffer(n)' = metric_buffers[n]
      BY <2>2, <1>1 DEF PublishedBuffer
    <3>2. Keeps(metric_buffers[n], n, CommittedSamples)
      BY <1>2 DEF IInv, BufferInv
    <3>3. ASSUME NEW s \in Pending(w) PROVE s.name # n
      <4>1. PICK i \in 1..Staged : s = Stored(b, i, current_event_id)
        BY <3>3 DEF Pending
      <4>2. s.name = b.metrics[i].name
        BY <4>1 DEF Stored
      <4>3. b.metrics[i].name \in DOMAIN staged_buffers
        BY <1>2 DEF StagedOK
      <4> QED BY <4>2, <4>3, <2>2
    <3> QED BY <3>1, <3>2, <3>3 DEF Keeps
  <2> QED BY <2>1, <2>2
<1>11. BufferInv'
  BY <1>1, <1>4, <1>5, <1>10 DEF IInv, BufferInv
<1> QED BY <1>8, <1>9, <1>11 DEF IInv

\* Swapping one staged buffer in: what counts as published does not change.
LEMMA PublishBufferKeepsIInv ==
  ASSUME IInv, NEW w \in Writers, PublishBuffer(w)
  PROVE  IInv'
<1>1. /\ UNCHANGED <<mutex, committed_batch_ids, current_event_id, next_event_id,
                     pc, batch, commits>>
      /\ pc[w] = "publishing"
  BY DEF PublishBuffer
<1>2. PICK n \in DOMAIN staged_buffers :
         /\ metric_buffers' = [metric_buffers EXCEPT ![n] = staged_buffers[n]]
         /\ staged_buffers' = [m \in DOMAIN staged_buffers \ {n} |-> staged_buffers[m]]
  BY DEF PublishBuffer
<1>3. /\ Publishing /\ Publishing' /\ mutex = w /\ mutex # None
      /\ \A v \in Writers : pc'[v] # "staging"
  BY <1>1, LockFacts, InMemoryAssumption DEF Publishing
<1>4. /\ metric_buffers \in [Names -> Seq(StoredMetric)] /\ n \in Names
      /\ staged_buffers \in [DOMAIN staged_buffers -> Seq(StoredMetric)]
      /\ DOMAIN staged_buffers \subseteq Names
  BY DEF IInv, TypeOK
<1>5. /\ metric_buffers'[n] = staged_buffers[n]
      /\ \A m \in Names : m # n => metric_buffers'[m] = metric_buffers[m]
      /\ DOMAIN staged_buffers' = DOMAIN staged_buffers \ {n}
      /\ \A m \in DOMAIN staged_buffers' : staged_buffers'[m] = staged_buffers[m]
  BY <1>2, <1>4
<1>6. TypeOK'
  <2>1. metric_buffers' \in [Names -> Seq(StoredMetric)]
    BY <1>2, <1>4
  <2>2. staged_buffers' \in [DOMAIN staged_buffers' -> Seq(StoredMetric)]
    BY <1>2, <1>4
  <2>3. DOMAIN staged_buffers' \subseteq Names
    BY <1>4, <1>5
  <2> QED BY <1>1, <2>1, <2>2, <2>3 DEF IInv, TypeOK
<1>7. CommitInv'
  BY <1>1, <1>3 DEF IInv, CommitInv, CommittedOnce, LastId
<1>8. CommittedSamples' = CommittedSamples
  BY <1>1 DEF CommittedSamples
<1>9. \A m \in Names : PublishedBuffer(m)' = PublishedBuffer(m)
  BY <1>3, <1>5 DEF PublishedBuffer
<1>10. BufferInv'
  <2>1. \A m \in Names : SortedBuffer(metric_buffers'[m], m)
    BY <1>5 DEF IInv, BufferInv
  <2>2. \A m \in DOMAIN staged_buffers' : SortedBuffer(staged_buffers'[m], m)
    BY <1>5 DEF IInv, BufferInv
  <2>3. \A m \in Names : Keeps(PublishedBuffer(m)', m, CommittedSamples')
    BY <1>3, <1>8, <1>9 DEF IInv, BufferInv
  <2> QED BY <1>3, <2>1, <2>2, <2>3 DEF BufferInv
<1> QED BY <1>6, <1>7, <1>10 DEF IInv

\* The last step: every buffer is swapped in, the event ID catches up.
LEMMA FinishCommitKeepsIInv ==
  ASSUME IInv, NEW w \in Writers, FinishCommit(w)
  PROVE  IInv'
<1>1. /\ UNCHANGED <<metric_buffers, committed_batch_ids, staged_buffers,
                     next_event_id, commits>>
      /\ pc[w] = "publishing" /\ DOMAIN staged_buffers = {}
      /\ current_event_id' = next_event_id /\ mutex' = None
      /\ pc' = [pc EXCEPT ![w] = "idle"]
      /\ batch' = [batch EXCEPT ![w] = None]
  BY DEF FinishCommit, Return
<1>2. Publishing /\ mutex = w
  BY <1>1, LockFacts
<1>3. /\ pc \in [Writers -> {"idle", "waiting", "staging", "publishing"}]
      /\ batch \in [Writers -> Batches \cup {None}]
      /\ None \notin Batches /\ None \notin Writers
      /\ MaxEventId \in Nat /\ current_event_id \in 0..MaxEventId
      /\ next_event_id \in current_event_id..MaxEventId
      /\ \A v \in Writers : (pc[v] \in {"staging", "publishing"}) <=> (mutex = v)
  BY InMemoryAssumption DEF IInv, TypeOK
<1>4. \A v \in Writers : /\ pc'[v] \in {"idle", "waiting"}
                         /\ v # w => pc'[v] = pc[v] /\ batch'[v] = batch[v]
  BY <1>1, <1>2, <1>3
<1>5. pc'[w] = "idle" /\ batch'[w] = None
  BY <1>1, <1>3
<1>6. ~Publishing' /\ CommittedSamples' = CommittedSamples
  BY <1>1, <1>4 DEF Publishing, CommittedSamples
<1>7. TypeOK'
  <2>1. current_event_id' \in 0..MaxEventId /\ next_event_id' \in current_event_id'..MaxEventId
    BY <1>1, <1>3
  <2>2. /\ pc' \in [Writers -> {"idle", "waiting", "staging", "publishing"}]
        /\ batch' \in [Writers -> Batches \cup {None}]
    BY <1>1, <1>3
  <2>3. \A v \in Writers : /\ (pc'[v] = "idle") <=> (batch'[v] = None)
                           /\ (pc'[v] \in {"staging", "publishing"}) <=> (mutex' = v)
    BY <1>1, <1>3, <1>4, <1>5 DEF IInv, TypeOK
  <2> QED BY <1>1, <2>1, <2>2, <2>3 DEF IInv, TypeOK
<1>8. CommitInv'
  <2>1. LastId' = LastId
    BY <1>1, <1>2, <1>6 DEF LastId
  <2>2. \A v \in Writers : batch'[v] # None => IsValid(batch'[v])
    BY <1>4, <1>5 DEF IInv, CommitInv
  <2> QED BY <1>1, <2>1, <2>2 DEF IInv, CommitInv, CommittedOnce
<1>9. \A n \in Names : Keeps(metric_buffers'[n], n, CommittedSamples')
  <2>1. \A n \in Names : PublishedBuffer(n) = metric_buffers[n]
    BY <1>1 DEF PublishedBuffer
  <2> QED BY <1>1, <1>2, <1>6, <2>1 DEF IInv, BufferInv
<1>10. BufferInv'
  BY <1>1, <1>4, <1>6, <1>9 DEF IInv, BufferInv
<1> QED BY <1>7, <1>8, <1>10 DEF IInv

\* One case per step of commit_batch().
LEMMA NextIInv == IInv /\ [Next]_vars => IInv'
<1> SUFFICES ASSUME IInv, [Next]_vars
             PROVE  IInv'
  OBVIOUS
<1>1. CASE UNCHANGED vars
  <2>1. Publishing' = Publishing /\ CommittedSamples' = CommittedSamples
    BY <1>1 DEF vars, store, locals, Publishing, CommittedSamples
  <2>2. TypeOK'
    BY <1>1 DEF vars, store, locals, IInv, TypeOK
  <2>3. CommitInv'
    BY <1>1, <2>1 DEF vars, store, locals, IInv, CommitInv, CommittedOnce, LastId
  <2>4. ASSUME NEW w \in Writers, pc[w] = "staging" PROVE StagedOK(w)'
    <3>1. StagedOK(w)
      BY <2>4 DEF IInv, BufferInv
    <3>2. Pending(w)' = Pending(w) /\ Staged' = Staged
      BY <1>1 DEF vars, store, locals, Pending, Staged
    <3> QED BY <1>1, <2>1, <3>1, <3>2 DEF vars, store, locals, StagedOK
  <2>5. BufferInv'
    BY <1>1, <2>1, <2>4 DEF vars, store, locals, IInv, BufferInv, PublishedBuffer
  <2> QED BY <2>2, <2>3, <2>5 DEF IInv
<1>2. ASSUME NEW w \in Writers, NEW b \in Batches, RejectInvalid(w, b)
      PROVE  IInv'
  BY <1>1, <1>2 DEF RejectInvalid
<1>3. ASSUME NEW w \in Writers, Proceed(w)
      PROVE  IInv'
  BY <1>3, StageMetricKeepsIInv, RecordBatchIdKeepsIInv, PublishBufferKeepsIInv,
     FinishCommitKeepsIInv DEF Proceed
<1> QED
  BY <1>1, <1>2, <1>3, CallOrReturnKeepsIInv, BeginCommitKeepsIInv, CommitThrowsKeepsIInv
  DEF Next

\* The invariant holds in every reachable state.
LEMMA IInvHolds == Spec => []IInv
BY InitIInv, NextIInv, PTL DEF Spec

-----------------------------------------------------------------------------
(* What the steps do to the batches committed: only recording a batch ID   *)
(* adds one, and every other step leaves what counts as published alone.   *)

\* The two places a writer leaves the store from without having committed.
LEMMA CallOrReturnIsInvisible ==
  ASSUME IInv, NEW w \in Writers,
         \/ \E b \in Batches : CallCommit(w, b)
         \/ CommitDuplicate(w)
         \/ CommitExhausted(w)
         \/ BeginCommit(w)
         \/ CommitThrows(w)
  PROVE  /\ UNCHANGED <<committed_batch_ids, commits>>
         /\ LastId' = LastId
         /\ \A n \in Names : PublishedBuffer(n)' = PublishedBuffer(n)
<1>1. /\ UNCHANGED <<metric_buffers, committed_batch_ids, current_event_id, commits>>
      /\ \/ UNCHANGED <<staged_buffers, next_event_id>>
         \/ ~Publishing
      /\ pc[w] # "publishing"
      /\ \E l \in {"idle", "waiting", "staging"} : pc' = [pc EXCEPT ![w] = l]
  BY LockFacts DEF CallCommit, CommitDuplicate, CommitExhausted, BeginCommit, EnterStaging,
       CommitThrows, Return, store, locals
<1>2. pc \in [Writers -> {"idle", "waiting", "staging", "publishing"}]
  BY DEF IInv, TypeOK
<1>3. \A v \in Writers : (pc'[v] = "publishing") <=> (pc[v] = "publishing")
  BY <1>1, <1>2
<1>4. Publishing' = Publishing
  BY <1>3 DEF Publishing
<1> QED BY <1>1, <1>4 DEF LastId, PublishedBuffer

\* Staging changes copies only; publishing moves what already counts as published;
\* and the last step makes the event IDs current that were in use before it.
LEMMA HolderIsInvisible ==
  ASSUME IInv, NEW w \in Writers,
         StageMetric(w) \/ PublishBuffer(w) \/ FinishCommit(w)
  PROVE  /\ UNCHANGED <<committed_batch_ids, commits>>
         /\ LastId' = LastId
         /\ \A n \in Names : PublishedBuffer(n)' = PublishedBuffer(n)
<1>1. pc \in [Writers -> {"idle", "waiting", "staging", "publishing"}]
  BY DEF IInv, TypeOK
<1>2. CASE StageMetric(w)
  <2>1. /\ UNCHANGED <<metric_buffers, committed_batch_ids, current_event_id, pc, commits>>
        /\ ~Publishing
    BY <1>2, LockFacts DEF StageMetric, store
  <2>2. ~Publishing'
    BY <2>1 DEF Publishing
  <2> QED BY <2>1, <2>2 DEF LastId, PublishedBuffer
<1>3. CASE PublishBuffer(w)
  <2>1. /\ UNCHANGED <<committed_batch_ids, current_event_id, next_event_id, pc, commits>>
        /\ Publishing
    BY <1>3, LockFacts DEF PublishBuffer
  <2>2. Publishing'
    BY <2>1 DEF Publishing
  <2>3. PICK n \in DOMAIN staged_buffers :
           /\ metric_buffers' = [metric_buffers EXCEPT ![n] = staged_buffers[n]]
           /\ staged_buffers' = [m \in DOMAIN staged_buffers \ {n} |-> staged_buffers[m]]
    BY <1>3 DEF PublishBuffer
  <2>4. metric_buffers \in [Names -> Seq(StoredMetric)] /\ DOMAIN staged_buffers \subseteq Names
    BY DEF IInv, TypeOK
  <2>5. /\ metric_buffers'[n] = staged_buffers[n]
        /\ \A m \in Names : m # n => metric_buffers'[m] = metric_buffers[m]
        /\ DOMAIN staged_buffers' = DOMAIN staged_buffers \ {n}
        /\ \A m \in DOMAIN staged_buffers' : staged_buffers'[m] = staged_buffers[m]
    BY <2>3, <2>4
  <2> QED BY <2>1, <2>2, <2>5 DEF LastId, PublishedBuffer
<1>4. CASE FinishCommit(w)
  <2>1. /\ UNCHANGED <<committed_batch_ids, commits, metric_buffers>>
        /\ DOMAIN staged_buffers = {} /\ current_event_id' = next_event_id
        /\ pc[w] = "publishing" /\ mutex = w /\ Publishing
        /\ pc' = [pc EXCEPT ![w] = "idle"]
    BY <1>4, LockFacts DEF FinishCommit, Return
  <2>2. \A v \in Writers : pc'[v] # "publishing"
    BY <1>1, <2>1, LockFacts
  <2>3. ~Publishing'
    BY <2>2 DEF Publishing
  <2> QED BY <2>1, <2>3 DEF LastId, PublishedBuffer
<1> QED BY <1>2, <1>3, <1>4

\* So every step but the one that records a batch ID leaves the commits, the event
\* IDs in use and the published buffers as they are.
LEMMA StepIsInvisibleOrRecords ==
  ASSUME IInv, [Next]_vars
  PROVE  \/ /\ UNCHANGED <<committed_batch_ids, commits>>
            /\ LastId' = LastId
            /\ \A n \in Names : PublishedBuffer(n)' = PublishedBuffer(n)
         \/ \E w \in Writers : RecordBatchId(w)
<1>1. ASSUME UNCHANGED vars
      PROVE  /\ UNCHANGED <<committed_batch_ids, commits>>
             /\ LastId' = LastId
             /\ \A n \in Names : PublishedBuffer(n)' = PublishedBuffer(n)
  BY <1>1 DEF vars, store, locals, LastId, Publishing, PublishedBuffer
<1>2. \A w \in Writers, b \in Batches : RejectInvalid(w, b) => UNCHANGED vars
  BY DEF RejectInvalid
<1>3. ASSUME NEW w \in Writers, Proceed(w), ~RecordBatchId(w)
      PROVE  StageMetric(w) \/ PublishBuffer(w) \/ FinishCommit(w)
  BY <1>3 DEF Proceed
<1> QED BY <1>1, <1>2, <1>3, CallOrReturnIsInvisible, HolderIsInvisible DEF Next

\* Recording commits the batch the thread holds, behind all samples before it.
LEMMA RecordCommitsBatch ==
  ASSUME IInv, NEW w \in Writers, RecordBatchId(w)
  PROVE  /\ batch[w] \in Batches /\ IsValid(batch[w])
         /\ batch[w].batch_id \notin committed_batch_ids
         /\ committed_batch_ids' = committed_batch_ids \cup {batch[w].batch_id}
         /\ LastId \in Nat /\ Len(batch[w].metrics) \in Nat
         /\ LastId' = LastId + Len(batch[w].metrics)
         /\ LastId' <= MaxEventId
         /\ CommittedSamples' = CommittedSamples \cup StoredBatch(batch[w], LastId)
<1> DEFINE b == batch[w]
           c == [batch |-> b, base |-> current_event_id]
<1>1. /\ UNCHANGED <<current_event_id, next_event_id>>
      /\ pc[w] = "staging" /\ next_event_id - current_event_id = Len(b.metrics)
      /\ committed_batch_ids' = committed_batch_ids \cup {b.batch_id}
      /\ commits' = commits \cup {c}
      /\ pc' = [pc EXCEPT ![w] = "publishing"]
  BY DEF RecordBatchId, Staged, locals
<1>2. b \in Batches /\ IsValid(b) /\ ~Publishing /\ StagedOK(w)
  BY <1>1, LockFacts DEF IInv, BufferInv
<1>3. /\ current_event_id \in Nat /\ next_event_id \in Nat /\ next_event_id <= MaxEventId
      /\ pc \in [Writers -> {"idle", "waiting", "staging", "publishing"}]
  BY InMemoryAssumption DEF IInv, TypeOK
<1>4. Len(b.metrics) \in Nat
  BY <1>2, <1>3, StoredTyped
<1>5. LastId = current_event_id /\ LastId' = next_event_id
  BY <1>1, <1>2, <1>3 DEF LastId, Publishing
<1>6. next_event_id = current_event_id + Len(b.metrics)
  BY <1>1, <1>3, <1>4
<1>7. CommittedSamples' = CommittedSamples \cup StoredBatch(b, current_event_id)
  <2>1. CommittedSamples' = CommittedSamples \cup StoredBatch(c.batch, c.base)
    BY <1>1 DEF CommittedSamples
  <2> QED BY <2>1
<1> QED BY <1>1, <1>2, <1>3, <1>4, <1>5, <1>6, <1>7 DEF StagedOK

\* The event IDs in use are dense and each names one sample.  This is said of
\* LastId, which a commit advances in the step that records its batch ID, so it
\* also holds while a batch is being published.
DenseInv ==
  /\ \A k \in 1..LastId : \E s \in CommittedSamples : s.event_id = k
  /\ \A s, t \in CommittedSamples : s.event_id = t.event_id => s = t

\* Each commit takes the event IDs from LastId + 1 on, one for each metric.
LEMMA DenseInvHolds == Spec => [](IInv /\ DenseInv)
<1>1. Init => DenseInv
  <2> SUFFICES ASSUME Init PROVE DenseInv
    OBVIOUS
  <2>1. CommittedSamples = {} /\ LastId = 0
    BY DEF Init, CommittedSamples, LastId
  <2> QED BY <2>1 DEF DenseInv
<1>2. ASSUME IInv, DenseInv, [Next]_vars
      PROVE  DenseInv'
  <2>1. CASE UNCHANGED commits /\ LastId' = LastId
    BY <2>1, <1>2 DEF DenseInv, CommittedSamples
  <2>2. ASSUME NEW w \in Writers, RecordBatchId(w)
        PROVE  DenseInv'
    <3> DEFINE b   == batch[w]
               L   == LastId
               len == Len(b.metrics)
               new == StoredBatch(b, L)
    <3>1. /\ b \in Batches /\ IsValid(b) /\ L \in Nat /\ len \in Nat
          /\ LastId' = L + len
          /\ CommittedSamples' = CommittedSamples \cup new
      BY <1>2, <2>2, RecordCommitsBatch
    <3>2. /\ DOMAIN b.metrics = 1..len
          /\ \A i \in 1..len : Stored(b, i, L).event_id = L + i
      BY <3>1, StoredTyped
    <3>3. new = {Stored(b, i, L) : i \in 1..len}
      BY <3>2 DEF StoredBatch
    <3>4. \A s \in CommittedSamples : s.event_id \in Nat /\ s.event_id <= L
      BY <1>2, CommittedTyped DEF StoredMetric
    <3> HIDE DEF new, L, len, b
    <3>5. ASSUME NEW k \in 1..(L + len)
          PROVE  \E s \in CommittedSamples \cup new : s.event_id = k
      <4>1. CASE k <= L
        BY <4>1, <3>1, <1>2 DEF DenseInv, L
      <4>2. CASE k > L
        <5>1. k - L \in 1..len /\ L + (k - L) = k
          BY <4>2, <3>1
        <5>2. Stored(b, k - L, L) \in new /\ Stored(b, k - L, L).event_id = k
          BY <5>1, <3>2, <3>3
        <5> QED BY <5>2
      <4> QED BY <4>1, <4>2, <3>1
    <3>6. ASSUME NEW s \in new, NEW t \in new, s.event_id = t.event_id
          PROVE  s = t
      <4>1. PICK i \in 1..len : s = Stored(b, i, L)
        BY <3>3
      <4>2. PICK j \in 1..len : t = Stored(b, j, L)
        BY <3>3
      <4>3. L + i = L + j
        BY <3>2, <3>6, <4>1, <4>2
      <4>4. i = j
        BY <4>3, <3>1
      <4> QED BY <4>1, <4>2, <4>4
    <3>7. \A s \in new : s.event_id \in Nat /\ s.event_id > L
      BY <3>1, <3>2, <3>3
    <3>8. \A s \in CommittedSamples, t \in new : s.event_id # t.event_id
      BY <3>1, <3>4, <3>7
    <3>9. \A s, t \in CommittedSamples \cup new : s.event_id = t.event_id => s = t
      BY <1>2, <3>6, <3>8 DEF DenseInv
    <3> QED BY <3>1, <3>5, <3>9 DEF DenseInv
  <2> QED BY <1>2, <2>1, <2>2, StepIsInvisibleOrRecords
<1> QED BY <1>1, <1>2, InitIInv, NextIInv, PTL DEF Spec

-----------------------------------------------------------------------------
\* The members of the store have their types, and the lock has one holder: the
\* thread between its duplicate check and its return.
THEOREM TypeCorrect == Spec => []TypeOK
BY IInvHolds, PTL DEF IInv

\* Whatever order samples arrive in, every buffer is ordered by timestamp and
\* event ID and within its capacity, while batches are being published too.
THEOREM BuffersStaySorted == Spec => []BuffersSorted
<1>1. IInv => BuffersSorted
  BY DEF IInv, BufferInv, SortedBuffer, BuffersSorted
<1> QED BY <1>1, IInvHolds, PTL

\* Committing loses nothing but the oldest samples of a full buffer: an evicted
\* or never visible sample is older than everything a query still finds.
THEOREM RetentionIsByAge == Spec => []RetainsNewest
<1>1. IInv => RetainsNewest
  <2> SUFFICES ASSUME IInv, mutex = None, NEW n \in Names
               PROVE  /\ Retained(n) \subseteq CommittedSamples
                      /\ \A s \in CommittedSamples :
                            s.name = n /\ s \notin Retained(n) =>
                               /\ Len(metric_buffers[n]) = Capacity
                               /\ \A t \in Retained(n) : Older(s, t)
    BY DEF RetainsNewest
  <2>1. Keeps(metric_buffers[n], n, CommittedSamples)
    BY LockFacts DEF IInv, BufferInv
  <2> QED BY <2>1 DEF Keeps, Retained
<1> QED BY <1>1, IInvHolds, PTL

\* No batch ID is committed twice, however many threads present it.
THEOREM NoSecondInsertion == Spec => []CommittedOnce
BY IInvHolds, PTL DEF IInv, CommitInv

\* Event IDs run from one to current_event_id without a gap or a repeat, also
\* after duplicates, refused batches and commits that threw half-way.
THEOREM EventIdsStayDense == Spec => []DenseEventIds
<1>1. IInv /\ DenseInv => DenseEventIds
  <2> SUFFICES ASSUME IInv, DenseInv, mutex = None
               PROVE  /\ {s.event_id : s \in CommittedSamples} = 1..current_event_id
                      /\ \A s, t \in CommittedSamples : s.event_id = t.event_id => s = t
    BY DEF DenseEventIds
  <2>1. LastId = current_event_id
    BY LockFacts DEF LastId
  <2>2. \A s \in CommittedSamples : s.event_id \in 1..current_event_id
    BY <2>1, CommittedTyped DEF StoredMetric
  <2> QED BY <2>1, <2>2 DEF DenseInv
<1> QED BY <1>1, DenseInvHolds, PTL

-----------------------------------------------------------------------------
(* commit_batch(), with its lock, its staged copies and its piecemeal      *)
(* publication, implements the one-step commit of ITimeSeriesStore.        *)
(*                                                                         *)
(* The interface's retained samples are a set cut to size by counting      *)
(* newer samples; the buffers are sequences that drop their front.  That   *)
(* the two agree is where the work is: a sorted buffer that keeps a set of *)
(* samples holds exactly the newest of them, and also keeps them if the    *)
(* samples evicted before are left out of the count.                       *)

\* What the interface calls retained.
RetainedSamples == UNION {Range(PublishedBuffer(n)) : n \in Names}

\* The parts of samples that the interface's bound on a metric is about.
OfMetric(samples, n) == {s \in samples : s.name = n}
Newer(samples, s)    == {t \in samples : t.name = s.name /\ Older(s, t)}

-----------------------------------------------------------------------------
\* No sample is older than itself.
LEMMA OlderIrreflexive ==
  ASSUME NEW s \in StoredMetric
  PROVE  ~Older(s, s)
<1>1. s.timestamp_ms \in Int /\ s.event_id \in Nat
  BY DEF StoredMetric
<1> QED BY <1>1 DEF Older

\* The entries of a sorted buffer are distinct, so its contents can be counted
\* by its length.
LEMMA ContentsCounted ==
  ASSUME NEW n, NEW buffer, SortedBuffer(buffer, n)
  PROVE  /\ IsFiniteSet(Range(buffer))
         /\ Cardinality(Range(buffer)) = Len(buffer)
         /\ Len(buffer) \in Nat
<1> DEFINE N == Len(buffer)
           C == Range(buffer)
<1>1. buffer \in Seq(StoredMetric) /\ N \in Nat /\ DOMAIN buffer = 1..N
      /\ \A i \in 1..N : buffer[i] \in StoredMetric
  BY LenProperties, ElementOfSeq DEF SortedBuffer
<1>2. ASSUME NEW i \in 1..N, NEW j \in 1..N, buffer[i] = buffer[j]
      PROVE  i = j
  <2>1. ASSUME NEW k \in 1..N, NEW l \in 1..N, k < l, buffer[k] = buffer[l]
        PROVE  FALSE
    <3>1. Older(buffer[k], buffer[l])
      BY <2>1, <1>1 DEF SortedBuffer
    <3> QED BY <3>1, <2>1, <1>1, OlderIrreflexive
  <2>2. i < j \/ j < i \/ i = j
    BY <1>1
  <2> QED BY <1>2, <2>1, <2>2
<1>3. buffer \in [1..N -> C] /\ \A x \in C : \E i \in 1..N : buffer[i] = x
  <2>1. buffer = [i \in 1..N |-> buffer[i]]
    BY <1>1
  <2> QED BY <2>1, <1>1 DEF Range
<1>4. buffer \in Bijection(1..N, C)
  BY <1>2, <1>3 DEF Bijection, Injection, Surjection, IsInjective
<1>5. ExistsBijection(1..N, C)
  BY <1>4 DEF ExistsBijection
<1>6. IsFiniteSet(1..N)
  BY <1>1, FS_Interval
<1> QED BY <1>1, <1>5, <1>6, FS_Bijection, FS_CountingElements

\* What a batch stores can be counted, and is well typed.
LEMMA StoredBatchFinite ==
  ASSUME NEW b \in Batches, IsValid(b), NEW base \in Nat
  PROVE  IsFiniteSet(StoredBatch(b, base)) /\ StoredBatch(b, base) \subseteq StoredMetric
<1> DEFINE N == Len(b.metrics)
           f == [i \in 1..N |-> Stored(b, i, base)]
<1>1. N \in Nat /\ DOMAIN b.metrics = 1..N
  BY StoredTyped
<1>2. f \in Surjection(1..N, StoredBatch(b, base))
  BY <1>1 DEF Surjection, StoredBatch
<1> HIDE DEF N, f
<1>3. IsFiniteSet(1..N)
  BY <1>1, FS_Interval
<1>4. IsFiniteSet(StoredBatch(b, base))
  BY <1>2, <1>3, FS_Surjection
<1>5. StoredBatch(b, base) \subseteq StoredMetric
  BY <1>1, StoredTyped DEF StoredBatch
<1> QED BY <1>4, <1>5

\* A sorted buffer that keeps samples holds those of its metric that the
\* interface would retain: fewer than Capacity newer ones exist exactly for the
\* samples in the buffer.
LEMMA KeptIsNewest ==
  ASSUME NEW n \in Names, NEW buffer, SortedBuffer(buffer, n),
         NEW samples \in SUBSET StoredMetric, Keeps(buffer, n, samples),
         IsFiniteSet(OfMetric(samples, n)),
         NEW s \in samples, s.name = n
  PROVE  s \in Range(buffer) <=> Cardinality(Newer(samples, s)) < Capacity
<1> DEFINE T == Newer(samples, s)
           C == Range(buffer)
<1>1. IsFiniteSet(C) /\ Cardinality(C) = Len(buffer) /\ Len(buffer) \in Nat
  BY ContentsCounted
<1>2. Len(buffer) <= Capacity /\ Capacity \in Nat
  BY InMemoryAssumption DEF SortedBuffer
<1>3. \A t \in C : t \in samples /\ t.name = n
  BY DEF Range, Keeps, SortedBuffer
<1>4. T \subseteq OfMetric(samples, n)
  BY DEF Newer, OfMetric
<1>5. IsFiniteSet(T) /\ Cardinality(T) \in Nat
  BY <1>4, FS_Subset, FS_CardinalityType
<1>6. CASE s \in C
  <2>1. PICK i \in DOMAIN buffer : s = buffer[i]
    BY <1>6 DEF Range
  <2>2. ASSUME NEW t \in T PROVE t \in C \ {s}
    <3>1. t \in samples /\ t.name = n /\ Older(s, t) /\ t \in StoredMetric
      BY DEF Newer
    <3>2. t # s
      BY <3>1, OlderIrreflexive
    <3>3. CASE \E k \in DOMAIN buffer : buffer[k] = t
      BY <3>2, <3>3 DEF Range
    <3>4. CASE \A k \in DOMAIN buffer : Older(t, buffer[k])
      <4>1. Older(t, s)
        BY <3>4, <2>1
      <4> QED BY <4>1, <3>1, OlderTransitive, OlderIrreflexive
    <3> QED BY <3>1, <3>3, <3>4 DEF Keeps
  <2>3. T \in SUBSET (C \ {s})
    BY <2>2
  <2> HIDE DEF T, C
  <2>4. IsFiniteSet(C \ {s}) /\ Cardinality(C \ {s}) = Cardinality(C) - 1
    BY <1>1, <1>6, FS_RemoveElement
  <2>5. Cardinality(T) <= Cardinality(C \ {s})
    BY <2>3, <2>4, FS_Subset
  <2>6. Cardinality(T) < Capacity
    BY <2>4, <2>5, <1>1, <1>2, <1>5
  <2> QED BY <2>6, <1>6 DEF T, C
<1>7. CASE s \notin C
  <2>1. Len(buffer) = Capacity /\ \A i \in DOMAIN buffer : Older(s, buffer[i])
    BY <1>7 DEF Keeps, Range
  <2>2. C \in SUBSET T
    BY <2>1, <1>3 DEF Range, Newer
  <2> HIDE DEF T, C
  <2>3. Cardinality(C) <= Cardinality(T)
    BY <2>2, <1>5, FS_Subset
  <2>4. ~(Cardinality(T) < Capacity)
    BY <2>1, <2>3, <1>1, <1>2, <1>5
  <2> QED BY <2>4, <1>7 DEF T, C
<1> QED BY <1>6, <1>7

\* Evicted samples can be left out: what a buffer keeps of everything committed
\* and a new batch, it keeps of what the buffer before it held and that batch.
LEMMA KeepsWithoutEvicted ==
  ASSUME NEW n \in Names, NEW old, NEW new, NEW committed, NEW added,
         committed \cup added \subseteq StoredMetric,
         SortedBuffer(old, n), Keeps(old, n, committed),
         SortedBuffer(new, n), Keeps(new, n, committed \cup added)
  PROVE  Keeps(new, n, Range(old) \cup added)
<1>1. /\ IsFiniteSet(Range(old)) /\ Cardinality(Range(old)) = Len(old)
      /\ IsFiniteSet(Range(new)) /\ Cardinality(Range(new)) = Len(new)
      /\ Len(old) \in Nat /\ Len(new) \in Nat /\ Len(new) <= Capacity
      /\ Capacity \in Nat
  BY ContentsCounted, InMemoryAssumption DEF SortedBuffer
<1>2. ASSUME NEW i \in DOMAIN new
      PROVE  new[i] \in Range(old) \cup added
  <2> DEFINE x == new[i]
  <2> SUFFICES ASSUME x \notin Range(old), x \notin added PROVE FALSE
    OBVIOUS
  <2>1. x \in committed /\ x.name = n /\ x \in StoredMetric
    BY DEF Keeps, SortedBuffer
  <2>2. Len(old) = Capacity /\ \A k \in DOMAIN old : Older(x, old[k])
    BY <2>1 DEF Keeps, Range
  <2>3. ASSUME NEW t \in Range(old) PROVE t \in Range(new) \ {x}
    <3>1. t \in committed /\ t.name = n /\ Older(x, t) /\ t \in StoredMetric
      BY <2>2 DEF Range, Keeps, SortedBuffer
    <3>2. t # x
      BY <3>1, OlderIrreflexive
    <3>3. ~Older(t, new[i])
      BY <3>1, <2>1, OlderTransitive, OlderIrreflexive
    <3>4. \E k \in DOMAIN new : new[k] = t
      BY <3>1, <3>3 DEF Keeps
    <3> QED BY <3>2, <3>4 DEF Range
  <2>4. Range(old) \in SUBSET (Range(new) \ {x}) /\ x \in Range(new)
    BY <2>3 DEF Range
  <2>5. /\ IsFiniteSet(Range(new) \ {x})
        /\ Cardinality(Range(new) \ {x}) = Cardinality(Range(new)) - 1
    BY <2>4, <1>1, FS_RemoveElement
  <2>6. Cardinality(Range(old)) <= Cardinality(Range(new) \ {x})
    BY <2>4, <2>5, FS_Subset
  <2> QED BY <2>2, <2>5, <2>6, <1>1
<1>3. Range(old) \subseteq committed
  BY DEF Range, Keeps
<1> QED BY <1>2, <1>3 DEF Keeps

\* In every state the published buffers are sorted and keep what is committed.
LEMMA PublishedKeeps ==
  ASSUME IInv, NEW n \in Names
  PROVE  /\ SortedBuffer(PublishedBuffer(n), n)
         /\ Keeps(PublishedBuffer(n), n, CommittedSamples)
BY DEF IInv, BufferInv, PublishedBuffer

\* The interface counts newer samples with its own copies of Cardinality and
\* Older, which are those used here.
LEMMA NewestByCount ==
  ASSUME NEW samples
  PROVE  Interface!Newest(samples) = {s \in samples : Cardinality(Newer(samples, s)) < Capacity}
<1>1. \A T : Interface!Cardinality(T) = Cardinality(T)
  BY DEF Interface!Cardinality, Cardinality
<1>2. \A s : {t \in samples : t.name = s.name /\ Interface!Older(s, t)} = Newer(samples, s)
  BY DEF Interface!Older, Older, Newer
<1> QED BY <1>1, <1>2 DEF Interface!Newest

-----------------------------------------------------------------------------
\* The empty store.
LEMMA InitImplements == Init => Interface!Init
<1> SUFFICES ASSUME Init PROVE Interface!Init
  OBVIOUS
<1>1. ~Publishing
  BY DEF Init, Publishing
<1>2. \A n \in Names : PublishedBuffer(n) = <<>>
  BY <1>1 DEF Init, PublishedBuffer
<1>3. RetainedSamples = {}
  BY <1>2 DEF RetainedSamples, Range
<1> QED BY <1>1, <1>3 DEF Init, Interface!Init, RetainedSamples, Range

\* The step that records the batch ID is the interface's commit.
LEMMA RecordImplementsCommit ==
  ASSUME IInv, IInv', NEW w \in Writers, RecordBatchId(w),
         NEW b, b = batch[w]
  PROVE  Interface!Commit(b)
<1> DEFINE added == StoredBatch(b, LastId)
<1>1. /\ b \in Batches /\ IsValid(b)
      /\ b.batch_id \notin committed_batch_ids
      /\ committed_batch_ids' = committed_batch_ids \cup {b.batch_id}
      /\ LastId \in Nat /\ Len(b.metrics) \in Nat
      /\ LastId' = LastId + Len(b.metrics) /\ LastId' <= MaxEventId
      /\ CommittedSamples' = CommittedSamples \cup added
  BY RecordCommitsBatch
<1>2. MaxEventId \in Nat
  BY InMemoryAssumption
<1>3. IsFiniteSet(added) /\ added \subseteq StoredMetric /\ CommittedSamples \subseteq StoredMetric
  BY <1>1, StoredBatchFinite, CommittedTyped
<1> DEFINE samples == RetainedSamples \cup added
<1>4. ASSUME NEW n \in Names
      PROVE  OfMetric(samples, n) = Range(PublishedBuffer(n)) \cup OfMetric(added, n)
  <2>1. ASSUME NEW m \in Names, NEW s \in Range(PublishedBuffer(m)) PROVE s.name = m
    BY <2>1, PublishedKeeps DEF Range, SortedBuffer
  <2> QED BY <2>1 DEF RetainedSamples, OfMetric
<1>5. ASSUME NEW n \in Names
      PROVE  /\ IsFiniteSet(OfMetric(samples, n))
             /\ SortedBuffer(PublishedBuffer(n)', n)
             /\ Keeps(PublishedBuffer(n)', n, samples)
  <2>1. /\ SortedBuffer(PublishedBuffer(n), n)
        /\ Keeps(PublishedBuffer(n), n, CommittedSamples)
    BY PublishedKeeps
  <2>2. /\ SortedBuffer(PublishedBuffer(n)', n)
        /\ Keeps(PublishedBuffer(n)', n, CommittedSamples')
    BY IInv' DEF IInv, BufferInv, PublishedBuffer
  <2>3. Keeps(PublishedBuffer(n)', n, Range(PublishedBuffer(n)) \cup added)
    BY <2>1, <2>2, <1>1, <1>3, KeepsWithoutEvicted
  <2>4. Keeps(PublishedBuffer(n)', n, samples)
    <3>1. Range(PublishedBuffer(n)) \cup added \subseteq samples
      BY DEF RetainedSamples
    <3>2. \A s \in samples : s.name = n => s \in Range(PublishedBuffer(n)) \cup added
      BY <1>4 DEF OfMetric
    <3> HIDE DEF samples
    <3> QED BY <2>3, <3>1, <3>2 DEF Keeps
  <2>5. IsFiniteSet(Range(PublishedBuffer(n)))
    BY <2>1, ContentsCounted
  <2>6. IsFiniteSet(OfMetric(added, n))
    BY <1>3, FS_Subset DEF OfMetric
  <2>7. IsFiniteSet(Range(PublishedBuffer(n)) \cup OfMetric(added, n))
    BY <2>5, <2>6, FS_Union
  <2>8. IsFiniteSet(OfMetric(samples, n))
    BY <2>7, <1>4
  <2> QED BY <2>2, <2>4, <2>8
<1>6. samples \in SUBSET StoredMetric
  BY <1>3, PublishedKeeps DEF RetainedSamples, Range, Keeps
<1>7. RetainedSamples' = UNION {Range(PublishedBuffer(n)') : n \in Names}
  BY DEF RetainedSamples, Range
<1>8. ASSUME NEW n \in Names, NEW s \in Range(PublishedBuffer(n)')
      PROVE  s.name = n /\ s \in samples
  BY <1>5, <1>8 DEF Range, SortedBuffer, Keeps
<1> HIDE DEF samples
<1>9. ASSUME NEW s \in samples
      PROVE  s \in RetainedSamples' <=>
               Cardinality(Newer(samples, s)) < Capacity
  <2>1. s.name \in Names
    BY <1>6 DEF StoredMetric
  <2>2. s \in RetainedSamples' <=> s \in Range(PublishedBuffer(s.name)')
    BY <2>1, <1>7, <1>8
  <2>3. s \in Range(PublishedBuffer(s.name)') <=>
          Cardinality(Newer(samples, s)) < Capacity
    BY <2>1, <1>5, <1>6, KeptIsNewest
  <2> QED BY <2>2, <2>3
<1>10. RetainedSamples' = Interface!Newest(samples)
  BY <1>7, <1>8, <1>9, NewestByCount
<1>11. Interface!StoredBatch(b, LastId) = added /\ (Interface!IsValid(b) <=> IsValid(b))
  BY DEF Interface!StoredBatch, Interface!Stored, StoredBatch, Stored,
         Interface!IsValid, Interface!Metrics, IsValid, Metrics
<1> HIDE DEF added
<1>12. Len(b.metrics) <= MaxEventId - LastId
  BY <1>1, <1>2
<1>13. RetainedSamples' = Interface!Newest(RetainedSamples \cup Interface!StoredBatch(b, LastId))
  BY <1>10, <1>11 DEF samples
<1> QED
  BY <1>1, <1>11, <1>12, <1>13 DEF Interface!Commit, RetainedSamples, Range, LastId

\* Every step commits one batch at the interface or is not visible there.
LEMMA NextImplements ==
  ASSUME IInv, IInv', [Next]_vars
  PROVE  [Interface!Next]_(Interface!storeVars)
<1>1. ASSUME UNCHANGED <<committed_batch_ids, commits>>, LastId' = LastId,
             \A n \in Names : PublishedBuffer(n)' = PublishedBuffer(n)
      PROVE  UNCHANGED Interface!storeVars
  <2>1. RetainedSamples' = RetainedSamples
    BY <1>1 DEF RetainedSamples, Range
  <2> QED BY <1>1, <2>1 DEF Interface!storeVars, RetainedSamples, Range, LastId
<1>2. ASSUME NEW w \in Writers, RecordBatchId(w)
      PROVE  Interface!Next
  <2>1. PICK b \in Batches : b = batch[w]
    BY <1>2, RecordCommitsBatch
  <2>2. Interface!Commit(b)
    BY <1>2, <2>1, RecordImplementsCommit
  <2> QED BY <2>1, <2>2 DEF Interface!Next
<1> QED BY <1>1, <1>2, StepIsInvisibleOrRecords

\* The locked, staged and interruptible commit_batch() keeps the promise of
\* ITimeSeriesStore: a batch and all of its metrics appear in one step, once,
\* with the next event IDs, and only the oldest samples of a full metric go.
THEOREM StoreImplementsInterface == Spec => ImplementsInterface
<1>1. Init => Interface!Init
  BY InitImplements
<1>2. IInv /\ IInv' /\ [Next]_vars => [Interface!Next]_(Interface!storeVars)
  BY NextImplements
<1> QED BY <1>1, <1>2, IInvHolds, PTL DEF Spec, ImplementsInterface, Interface!Spec

-----------------------------------------------------------------------------
(* What the queries are built from.                                         *)

Below(numbers, n) == {m \in numbers : m < n}
Rank(numbers, n)  == Cardinality(Below(numbers, n))

\* A larger number has more numbers below it.
LEMMA RankIsMonotone ==
  ASSUME NEW K, IsFiniteSet(K), K \subseteq Int, NEW k \in K, NEW l \in K
  PROVE  /\ Rank(K, k) \in 0..(Cardinality(K) - 1)
         /\ k < l => Rank(K, k) < Rank(K, l)
         /\ Rank(K, k) < Rank(K, l) => k < l
<1>1. \A m \in K : IsFiniteSet(Below(K, m)) /\ Rank(K, m) \in Nat
  <2> TAKE m \in K
  <2>1. Below(K, m) \in SUBSET K
    BY DEF Below
  <2> QED BY <2>1, FS_Subset, FS_CardinalityType DEF Rank
<1>2. ASSUME NEW m \in K, NEW n \in K, m < n
      PROVE  Rank(K, m) < Rank(K, n)
  <2>a. m \in Int /\ n \in Int
    OBVIOUS
  <2>b. m \notin Below(K, m) /\ m \in Below(K, n)
    BY <1>2, <2>a DEF Below
  <2>c. ASSUME NEW x \in Below(K, m) PROVE x \in Below(K, n)
    <3>1. x \in K /\ x \in Int /\ x < m
      BY DEF Below
    <3> QED BY <1>2, <2>a, <3>1 DEF Below
  <2>1. m \notin Below(K, m) /\ Below(K, m) \cup {m} \in SUBSET Below(K, n)
    BY <2>b, <2>c
  <2>2. Cardinality(Below(K, m) \cup {m}) = Rank(K, m) + 1
    BY <1>1, <2>1, FS_AddElement DEF Rank
  <2>3. Rank(K, m) + 1 <= Rank(K, n)
    BY <1>1, <2>1, <2>2, FS_Subset DEF Rank
  <2> QED BY <2>3, <1>1
<1>3. Rank(K, k) <= Cardinality(K) - 1
  <2>1. Below(K, k) \in SUBSET (K \ {k})
    BY DEF Below
  <2>2. IsFiniteSet(K \ {k}) /\ Cardinality(K \ {k}) = Cardinality(K) - 1
    BY FS_RemoveElement
  <2> QED BY <2>1, <2>2, FS_Subset DEF Rank
<1>4. k \in Int /\ l \in Int /\ Cardinality(K) \in Nat
  BY FS_CardinalityType
<1>5. k < l \/ l < k \/ k = l
  BY <1>4
<1> QED BY <1>1, <1>2, <1>3, <1>4, <1>5

\* Every rank below the size of the set is taken.
LEMMA RankIsOnto ==
  ASSUME NEW K, IsFiniteSet(K), K \subseteq Int, NEW i \in 1..Cardinality(K)
  PROVE  \E k \in K : Rank(K, k) = i - 1
<1> DEFINE N == Cardinality(K)
           T == 0..(N - 1)
           r == [k \in K |-> Rank(K, k)]
<1>1. N \in Nat
  BY FS_CardinalityType
<1>2. r \in [K -> T]
  BY RankIsMonotone
<1>3. ASSUME NEW k \in K, NEW l \in K, r[k] = r[l]
      PROVE  k = l
  <2>1. k < l \/ l < k \/ k = l
    OBVIOUS
  <2>2. Rank(K, k) = Rank(K, l) /\ Rank(K, k) \in Int
    <3>1. Rank(K, k) \in 0..(N - 1)
      BY RankIsMonotone
    <3> HIDE DEF N
    <3> QED BY <1>1, <1>3, <3>1
  <2>3. ~(Rank(K, k) < Rank(K, l)) /\ ~(Rank(K, l) < Rank(K, k))
    BY <2>2
  <2> QED BY <2>1, <2>3, RankIsMonotone
<1>4. r \in Injection(K, T)
  BY <1>2, <1>3 DEF Injection, IsInjective
<1>a. 0 \in Int /\ N - 1 \in Int /\ (N - 1) - 0 + 1 = N /\ (0 > N - 1 <=> N = 0)
  BY <1>1
<1>5. IsFiniteSet(T) /\ Cardinality(T) = N
  BY <1>1, <1>a, FS_Interval
<1> HIDE DEF r, T
<1>6. r \in Surjection(K, T)
  BY <1>4, <1>5, FS_Injection
<1>7. i - 1 \in T
  BY <1>1 DEF T
<1>8. \E k \in K : r[k] = i - 1
  BY <1>6, <1>7 DEF Surjection
<1> QED BY <1>8 DEF r

\* Increasing lists a finite set of numbers, each once, in increasing order.
LEMMA IncreasingProperties ==
  ASSUME NEW K, IsFiniteSet(K), K \subseteq Int
  PROVE  /\ Increasing(K) \in Seq(K)
         /\ Len(Increasing(K)) = Cardinality(K)
         /\ Cardinality(K) \in Nat
         /\ \A i, j \in 1..Cardinality(K) : i < j => Increasing(K)[i] < Increasing(K)[j]
         /\ \A k \in K : \E i \in 1..Cardinality(K) : Increasing(K)[i] = k
<1> DEFINE N == Cardinality(K)
           s == Increasing(K)
<1>1. N \in Nat
  BY FS_CardinalityType
<1>2. s = [i \in 1..N |-> CHOOSE k \in K : Rank(K, k) = i - 1]
  BY DEF Increasing, Rank, Below
<1>3. ASSUME NEW i \in 1..N
      PROVE  s[i] \in K /\ Rank(K, s[i]) = i - 1
  BY <1>2, RankIsOnto
<1> HIDE DEF s, N
<1>4. s \in Seq(K) /\ Len(s) = N
  <2>1. s \in [1..N -> K]
    BY <1>2, <1>3
  <2> QED BY <2>1, <1>1
<1>5. ASSUME NEW i \in 1..N, NEW j \in 1..N, i < j
      PROVE  s[i] < s[j]
  <2>1. Rank(K, s[i]) < Rank(K, s[j])
    BY <1>3, <1>5, <1>1
  <2> QED BY <2>1, <1>3, RankIsMonotone
<1>6. ASSUME NEW k \in K
      PROVE  \E i \in 1..N : s[i] = k
  <2> DEFINE i == Rank(K, k) + 1
  <2>1. i \in 1..N /\ Rank(K, k) \in Int
    <3>1. Rank(K, k) \in 0..(N - 1)
      BY RankIsMonotone DEF N
    <3> QED BY <3>1, <1>1
  <2>2. s[i] \in K /\ Rank(K, s[i]) = Rank(K, k)
    <3>1. i - 1 = Rank(K, k)
      BY <2>1, <1>1
    <3> HIDE DEF i
    <3> QED BY <2>1, <3>1, <1>3
  <2> HIDE DEF i
  <2>3. s[i] < k \/ k < s[i] \/ s[i] = k
    <3>1. s[i] \in Int /\ k \in Int
      BY <2>2
    <3> QED BY <3>1
  <2>4. ~(Rank(K, s[i]) < Rank(K, k)) /\ ~(Rank(K, k) < Rank(K, s[i]))
    BY <2>1, <2>2
  <2>5. s[i] = k
    BY <2>2, <2>3, <2>4, RankIsMonotone
  <2> QED BY <2>1, <2>5
<1> QED BY <1>1, <1>4, <1>5, <1>6 DEF s, N

\* Select keeps exactly the entries in the set, in the order of the sequence:
\* entry k of the result stands at position at[k] of the sequence.
LEMMA SelectProperties ==
  ASSUME NEW T, NEW seq \in Seq(T), NEW set
  PROVE  /\ Select(seq, set) \in Seq(T)
         /\ Range(Select(seq, set)) = Range(seq) \cap set
         /\ \A i, j \in DOMAIN Select(seq, set) : i < j =>
               \E k, l \in DOMAIN seq : /\ k < l
                                       /\ Select(seq, set)[i] = seq[k]
                                       /\ Select(seq, set)[j] = seq[l]
<1> DEFINE K == {i \in DOMAIN seq : seq[i] \in set}
           at == Increasing(K)
           N == Cardinality(K)
           r == Select(seq, set)
<1>1. Len(seq) \in Nat /\ DOMAIN seq = 1..Len(seq) /\ \A i \in DOMAIN seq : seq[i] \in T
  BY LenProperties, ElementOfSeq
<1>2. IsFiniteSet(K) /\ K \subseteq Int
  <2>1. K \in SUBSET (1..Len(seq)) /\ IsFiniteSet(1..Len(seq))
    BY <1>1, FS_Interval
  <2> QED BY <2>1, FS_Subset
<1>r. r = [k \in DOMAIN at |-> seq[at[k]]]
  BY DEF Select
<1>k. \A i : i \in K <=> i \in DOMAIN seq /\ seq[i] \in set
  OBVIOUS
<1> HIDE DEF K, r
<1>3. /\ at \in Seq(K) /\ Len(at) = N /\ N \in Nat
      /\ \A i, j \in 1..N : i < j => at[i] < at[j]
      /\ \A k \in K : \E i \in 1..N : at[i] = k
  BY <1>2, IncreasingProperties
<1> HIDE DEF at, N
<1>4. DOMAIN at = 1..N /\ \A i \in 1..N : at[i] \in K
  BY <1>3, LenProperties, ElementOfSeq
<1>5. /\ DOMAIN r = 1..N
      /\ \A i \in 1..N : r[i] = seq[at[i]] /\ r[i] \in set /\ r[i] \in T /\ at[i] \in DOMAIN seq
  BY <1>1, <1>4, <1>r, <1>k
<1>6. r \in Seq(T)
  <2>1. r \in [1..N -> T]
    BY <1>5, <1>r, <1>4
  <2> QED BY <2>1, <1>3
<1>7. Range(r) = Range(seq) \cap set
  <2>1. \A x \in Range(r) : x \in Range(seq) \cap set
    BY <1>5 DEF Range
  <2>2. ASSUME NEW x \in Range(seq), x \in set PROVE x \in Range(r)
    <3>1. PICK k \in DOMAIN seq : seq[k] = x
      BY DEF Range
    <3>2. PICK i \in 1..N : at[i] = k
      BY <2>2, <3>1, <1>k, <1>3
    <3> QED BY <3>1, <3>2, <1>5 DEF Range
  <2> QED BY <2>1, <2>2
<1>8. ASSUME NEW i \in DOMAIN r, NEW j \in DOMAIN r, i < j
      PROVE  \E k, l \in DOMAIN seq : k < l /\ r[i] = seq[k] /\ r[j] = seq[l]
  BY <1>8, <1>3, <1>5
<1> QED BY <1>6, <1>7, <1>8 DEF r

\* In event order, the samples of a finite set come each once and with
\* increasing event IDs, provided no two share one.
LEMMA InEventOrderProperties ==
  ASSUME NEW M, IsFiniteSet(M), \A s \in M : s.event_id \in Int,
         \A s, t \in M : s.event_id = t.event_id => s = t
  PROVE  /\ InEventOrder(M) \in Seq(M)
         /\ Range(InEventOrder(M)) = M
         /\ \A i, j \in DOMAIN InEventOrder(M) :
               i < j => InEventOrder(M)[i].event_id < InEventOrder(M)[j].event_id
<1> DEFINE K == {s.event_id : s \in M}
           ids == Increasing(K)
           N == Cardinality(K)
           r == InEventOrder(M)
<1>1. IsFiniteSet(K) /\ K \subseteq Int
  <2> DEFINE f == [s \in M |-> s.event_id]
  <2>1. f \in Surjection(M, K)
    BY DEF Surjection
  <2> HIDE DEF f, K
  <2>2. IsFiniteSet(K)
    BY <2>1, FS_Surjection
  <2> QED BY <2>2 DEF K
<1>k. \A n : n \in K <=> \E s \in M : s.event_id = n
  OBVIOUS
<1>r. r = [k \in DOMAIN ids |-> CHOOSE s \in M : s.event_id = ids[k]]
  BY DEF InEventOrder
<1> HIDE DEF K, r
<1>3. /\ ids \in Seq(K) /\ Len(ids) = N /\ N \in Nat
      /\ \A i, j \in 1..N : i < j => ids[i] < ids[j]
      /\ \A k \in K : \E i \in 1..N : ids[i] = k
  BY <1>1, IncreasingProperties
<1> HIDE DEF ids, N
<1>4. DOMAIN ids = 1..N /\ \A i \in 1..N : ids[i] \in K
  BY <1>3, LenProperties, ElementOfSeq
<1>5. DOMAIN r = 1..N /\ \A i \in 1..N : r[i] \in M /\ r[i].event_id = ids[i]
  BY <1>4, <1>r, <1>k
<1>6. r \in Seq(M)
  <2>1. r \in [1..N -> M]
    BY <1>5, <1>r, <1>4
  <2> QED BY <2>1, <1>3
<1>7. Range(r) = M
  <2>1. \A x \in Range(r) : x \in M
    BY <1>5 DEF Range
  <2>2. ASSUME NEW x \in M PROVE x \in Range(r)
    <3>1. PICK i \in 1..N : ids[i] = x.event_id
      BY <1>k, <1>3
    <3>2. r[i] = x
      BY <3>1, <1>5
    <3> QED BY <3>2, <1>5 DEF Range
  <2> QED BY <2>1, <2>2
<1>8. \A i, j \in DOMAIN r : i < j => r[i].event_id < r[j].event_id
  BY <1>3, <1>5
<1> QED BY <1>6, <1>7, <1>8 DEF r

-----------------------------------------------------------------------------
(* The aggregates.  Total is a running sum, about which the library's      *)
(* induction theorems cannot be used; a least counterexample takes their   *)
(* place.                                                                  *)

\* A finite set of numbers has a least and a greatest one.
LEMMA FiniteExtremes ==
  ASSUME NEW K, IsFiniteSet(K), K \subseteq Int, K # {}
  PROVE  /\ \E m \in K : \A k \in K : m <= k
         /\ \E m \in K : \A k \in K : k <= m
<1> DEFINE s == Increasing(K)
           N == Cardinality(K)
<1>1. /\ s \in Seq(K) /\ Len(s) = N /\ N \in Nat
      /\ \A i, j \in 1..N : i < j => s[i] < s[j]
      /\ \A k \in K : \E i \in 1..N : s[i] = k
  BY IncreasingProperties
<1> HIDE DEF s, N
<1>2. N >= 1
  <2>1. PICK k \in K : TRUE
    OBVIOUS
  <2>2. PICK i \in 1..N : s[i] = k
    BY <1>1
  <2> QED BY <1>1, <2>2
<1>3. \A i \in 1..N : s[i] \in K /\ s[i] \in Int
  BY <1>1, ElementOfSeq
<1>4. 1 \in 1..N /\ N \in 1..N /\ \A i \in 1..N : (i = 1 \/ 1 < i) /\ (i = N \/ i < N)
  BY <1>1, <1>2
<1>5. \A i \in 1..N : s[1] <= s[i] /\ s[i] <= s[N]
  <2> TAKE i \in 1..N
  <2>1. s[i] \in Int /\ s[1] \in Int /\ s[N] \in Int
    BY <1>3, <1>4
  <2>2. (s[1] = s[i] \/ s[1] < s[i]) /\ (s[i] = s[N] \/ s[i] < s[N])
    BY <1>1, <1>4
  <2> QED BY <2>1, <2>2
<1> QED BY <1>1, <1>3, <1>4, <1>5

\* The sum over the first n samples at each of their positions.
RunningSum(f, samples, n) ==
  f = [i \in 0..n |-> IF i = 0 THEN 0 ELSE PlusDouble(f[i - 1], samples[i].value)]

\* The recursion of Total defines a function.
LEMMA RunningSumExists ==
  ASSUME NEW samples, NEW N \in Nat
  PROVE  \E f : RunningSum(f, samples, N)
<1> DEFINE B == {n \in 0..N : ~ \E f : RunningSum(f, samples, n)}
<1> SUFFICES ASSUME B # {} PROVE FALSE
  OBVIOUS
<1>1. IsFiniteSet(B) /\ B \subseteq Int
  <2>1. B \in SUBSET (0..N) /\ IsFiniteSet(0..N)
    BY FS_Interval
  <2> QED BY <2>1, FS_Subset
<1>2. PICK n \in B : \A k \in B : n <= k
  BY <1>1, FiniteExtremes
<1>3. n \in 0..N /\ ~ \E f : RunningSum(f, samples, n)
  OBVIOUS
<1>4. CASE n = 0
  <2> DEFINE f == [i \in 0..0 |-> 0]
  <2>1. RunningSum(f, samples, 0)
    BY DEF RunningSum
  <2> QED BY <1>3, <1>4, <2>1
<1>5. CASE n # 0
  <2>1. n - 1 \in 0..N /\ ~(n <= n - 1)
    BY <1>3, <1>5
  <2>2. n - 1 \notin B
    BY <1>2, <2>1
  <2>3. PICK f : RunningSum(f, samples, n - 1)
    BY <2>1, <2>2
  <2> DEFINE g == [i \in 0..n |-> IF i = n THEN PlusDouble(f[n - 1], samples[n].value) ELSE f[i]]
  <2>4. \A i \in 0..(n - 1) :
           f[i] = IF i = 0 THEN 0 ELSE PlusDouble(f[i - 1], samples[i].value)
    BY <2>3 DEF RunningSum
  <2>5. ASSUME NEW i \in 0..n
        PROVE  g[i] = IF i = 0 THEN 0 ELSE PlusDouble(g[i - 1], samples[i].value)
    <3>1. CASE i = n
      <4>1. n - 1 \in 0..n /\ n - 1 # n /\ n \in 0..n
        BY <1>3, <1>5
      <4>2. g[n - 1] = f[n - 1] /\ g[n] = PlusDouble(f[n - 1], samples[n].value)
        BY <4>1
      <4> QED BY <3>1, <4>2, <1>5
    <3>2. CASE i # n /\ i # 0
      <4>1. i \in 0..(n - 1) /\ i - 1 \in 0..n /\ i - 1 # n
        BY <1>3, <3>2
      <4>2. g[i] = f[i] /\ g[i - 1] = f[i - 1]
        BY <3>2, <4>1
      <4> QED BY <3>2, <4>1, <4>2, <2>4
    <3>3. CASE i # n /\ i = 0
      <4>1. 0 \in 0..(n - 1)
        BY <1>3, <1>5
      <4>2. g[0] = f[0]
        BY <3>3
      <4> QED BY <3>3, <4>1, <4>2, <2>4
    <3> QED BY <3>1, <3>2, <3>3
  <2>6. g = [i \in 0..n |-> g[i]]
    OBVIOUS
  <2> HIDE DEF g
  <2>7. RunningSum(g, samples, n)
    BY <2>5, <2>6 DEF RunningSum
  <2> QED BY <1>3, <2>7
<1> QED BY <1>4, <1>5

\* The average lies between bounds of the values, unless the sum overflowed.
LEMMA TotalBounded ==
  ASSUME NEW samples, Len(samples) \in Nat,
         NEW lo \in Int, NEW hi \in Int,
         \A i \in 1..Len(samples) :
            samples[i].value \in Int /\ lo <= samples[i].value /\ samples[i].value <= hi
  PROVE  \/ Total(samples) = NonFinite
         \/ /\ Total(samples) \in Int
            /\ lo * Len(samples) <= Total(samples)
            /\ Total(samples) <= hi * Len(samples)
<1> DEFINE N == Len(samples)
           f == CHOOSE f : RunningSum(f, samples, N)
           OK(i) == \/ f[i] = NonFinite
                    \/ f[i] \in Int /\ lo * i <= f[i] /\ f[i] <= hi * i
           B == {i \in 0..N : ~OK(i)}
<1>1. RunningSum(f, samples, N)
  BY RunningSumExists
<1>2. Total(samples) = f[N]
  BY DEF Total, RunningSum
<1>3. \A i \in 0..N : f[i] = IF i = 0 THEN 0 ELSE PlusDouble(f[i - 1], samples[i].value)
  BY <1>1 DEF RunningSum
<1> HIDE DEF f
<1>4. OK(0)
  <2>1. f[0] = 0
    BY <1>3
  <2> QED BY <2>1
<1>5. ASSUME NEW i \in 1..N, OK(i - 1)
      PROVE  OK(i)
  <2> DEFINE v == samples[i].value
             p == f[i - 1]
  <2>1. f[i] = PlusDouble(p, v) /\ v \in Int /\ lo <= v /\ v <= hi
    BY <1>3
  <2>2. lo * i = lo * (i - 1) + lo /\ hi * i = hi * (i - 1) + hi
    OBVIOUS
  <2>3. lo * (i - 1) \in Int /\ hi * (i - 1) \in Int
    OBVIOUS
  <2>4. p = NonFinite \/ (p \in Int /\ lo * (i - 1) <= p /\ p <= hi * (i - 1))
    BY <1>5
  <2> DEFINE a == lo * (i - 1)
             b == hi * (i - 1)
  <2>5. a \in Int /\ b \in Int /\ lo * i = a + lo /\ hi * i = b + hi
    BY <2>2, <2>3
  <2>6. p = NonFinite \/ (p \in Int /\ a <= p /\ p <= b)
    BY <2>4
  <2> HIDE DEF v, p, a, b
  <2>7. f[i] = NonFinite \/ (p \in Int /\ a <= p /\ p <= b /\ f[i] = p + v)
    BY <2>1, <2>6 DEF PlusDouble
  <2>8. f[i] = NonFinite \/ (f[i] \in Int /\ a + lo <= f[i] /\ f[i] <= b + hi)
    BY <2>1, <2>5, <2>7
  <2> QED BY <2>5, <2>8
<1> HIDE DEF OK
<1>6. ASSUME B # {} PROVE FALSE
  <2>1. IsFiniteSet(B) /\ B \subseteq Int
    <3>1. B \in SUBSET (0..N) /\ IsFiniteSet(0..N)
      BY FS_Interval
    <3> QED BY <3>1, FS_Subset
  <2>2. PICK i \in B : \A k \in B : i <= k
    BY <1>6, <2>1, FiniteExtremes
  <2>3. i \in 0..N /\ ~OK(i)
    OBVIOUS
  <2>4. i \in 1..N /\ i - 1 \in 0..N /\ ~(i <= i - 1)
    BY <1>4, <2>3
  <2>5. OK(i - 1)
    BY <2>2, <2>4
  <2> QED BY <1>5, <2>3, <2>4, <2>5
<1>7. OK(N)
  BY <1>6
<1> QED BY <1>2, <1>7 DEF OK

\* The bounds that compute_stats() keeps.
Covers(stats, samples) ==
  \A s \in samples : stats.min <= s.value /\ s.value <= stats.max

AverageBetween(stats) ==
  \/ stats.avg[1] = NonFinite
  \/ /\ stats.min * stats.avg[2] <= stats.avg[1]
     /\ stats.avg[1] <= stats.max * stats.avg[2]

\* compute_stats() of finite values: every value lies between min and max, and
\* so does their average.
LEMMA StatsProperties ==
  ASSUME NEW T, NEW samples \in Seq(T), \A s \in Range(samples) : s.value \in Int
  PROVE  Covers(ComputeStats(samples), Range(samples)) /\ AverageBetween(ComputeStats(samples))
<1> DEFINE N == Len(samples)
           V == {samples[i].value : i \in DOMAIN samples}
           stats == ComputeStats(samples)
<1>1. N \in Nat /\ DOMAIN samples = 1..N
  BY LenProperties
<1>2. CASE samples = <<>>
  <2>1. stats = [avg |-> <<0, 1>>, max |-> 0, min |-> 0] /\ DOMAIN samples = {}
    BY <1>2 DEF ComputeStats
  <2> HIDE DEF stats
  <2>2. stats.avg[1] = 0 /\ stats.avg[2] = 1 /\ stats.max = 0 /\ stats.min = 0
    BY <2>1
  <2> QED BY <2>1, <2>2 DEF Covers, AverageBetween, Range, stats
<1>3. CASE samples # <<>>
  <2>1. N # 0
    BY <1>1, <1>3, EmptySeq
  <2>2. IsFiniteSet(V) /\ V \subseteq Int /\ V # {}
    <3> DEFINE f == [i \in 1..N |-> samples[i].value]
    <3>1. f \in Surjection(1..N, V)
      BY <1>1 DEF Surjection
    <3>2. IsFiniteSet(1..N)
      BY <1>1, FS_Interval
    <3>3. V \subseteq Int
      BY DEF Range
    <3>4. 1 \in DOMAIN samples
      BY <1>1, <2>1
    <3> HIDE DEF f, V
    <3>5. IsFiniteSet(V)
      BY <3>1, <3>2, FS_Surjection
    <3> QED BY <3>3, <3>4, <3>5 DEF V
  <2>3. /\ stats.avg = <<Total(samples), N>>
        /\ stats.max = CHOOSE v \in V : \A u \in V : u <= v
        /\ stats.min = CHOOSE v \in V : \A u \in V : v <= u
    BY <1>3 DEF ComputeStats
  <2> HIDE DEF stats, V
  <2>4. /\ stats.max \in V /\ \A u \in V : u <= stats.max
        /\ stats.min \in V /\ \A u \in V : stats.min <= u
    BY <2>2, <2>3, FiniteExtremes
  <2>5. \A i \in 1..N : samples[i].value \in V
    BY <1>1 DEF V
  <2>6. Covers(stats, Range(samples))
    BY <1>1, <2>4, <2>5 DEF Covers, Range
  <2>7. stats.min \in Int /\ stats.max \in Int
    BY <2>2, <2>4
  <2>8. \A i \in 1..N : samples[i].value \in Int /\ stats.min <= samples[i].value
                                               /\ samples[i].value <= stats.max
    BY <2>2, <2>4, <2>5
  <2>9. \/ Total(samples) = NonFinite
        \/ /\ Total(samples) \in Int
           /\ stats.min * N <= Total(samples)
           /\ Total(samples) <= stats.max * N
    BY <1>1, <2>7, <2>8, TotalBounded
  <2>10. stats.avg[1] = Total(samples) /\ stats.avg[2] = N
    BY <2>3
  <2> QED BY <2>6, <2>9, <2>10 DEF AverageBetween, stats
<1> QED BY <1>2, <1>3

-----------------------------------------------------------------------------
(* What happens to the store between two queries.                          *)

\* Writers add samples with new event IDs to what is published and evict others.
LEMMA PublishedShrinks ==
  ASSUME IInv, IInv', [Next]_vars, NEW n \in Names, NEW s \in Range(PublishedBuffer(n)')
  PROVE  LastId' >= LastId /\ (s \in Range(PublishedBuffer(n)) \/ s.event_id > LastId)
<1>0. LastId \in Nat
  BY InMemoryAssumption DEF LastId, IInv, TypeOK
<1>1. CASE LastId' = LastId /\ \A m \in Names : PublishedBuffer(m)' = PublishedBuffer(m)
  BY <1>0, <1>1
<1>2. ASSUME NEW w \in Writers, RecordBatchId(w)
      PROVE  LastId' >= LastId /\ (s \in Range(PublishedBuffer(n)) \/ s.event_id > LastId)
  <2>1. PICK b \in Batches : b = batch[w]
    BY <1>2, RecordCommitsBatch
  <2> DEFINE added == StoredBatch(b, LastId)
  <2>2. /\ IsValid(b) /\ Len(b.metrics) \in Nat
        /\ LastId' = LastId + Len(b.metrics)
        /\ CommittedSamples' = CommittedSamples \cup added
    BY <1>2, <2>1, RecordCommitsBatch
  <2>3. added \subseteq StoredMetric /\ CommittedSamples \subseteq StoredMetric
    BY <1>0, <2>2, StoredBatchFinite, CommittedTyped
  <2>4. /\ SortedBuffer(PublishedBuffer(n), n)
        /\ Keeps(PublishedBuffer(n), n, CommittedSamples)
    BY PublishedKeeps
  <2>5. /\ SortedBuffer(PublishedBuffer(n)', n)
        /\ Keeps(PublishedBuffer(n)', n, CommittedSamples')
    BY IInv' DEF IInv, BufferInv, PublishedBuffer
  <2>6. \A t \in added : t.event_id > LastId
    <3>1. \A i \in DOMAIN b.metrics : i \in Nat /\ i > 0
      BY <2>2, StoredTyped
    <3> QED BY <3>1, <1>0 DEF StoredBatch, Stored
  <2> HIDE DEF added
  <2>7. Keeps(PublishedBuffer(n)', n, Range(PublishedBuffer(n)) \cup added)
    BY <2>2, <2>3, <2>4, <2>5, KeepsWithoutEvicted
  <2>8. s \in Range(PublishedBuffer(n)) \cup added
    BY <2>7 DEF Keeps, Range
  <2> QED BY <1>0, <2>2, <2>6, <2>8
<1> QED BY <1>1, <1>2, StepIsInvisibleOrRecords

\* The event IDs in use only grow.
LEMMA LastIdGrows ==
  ASSUME IInv, [Next]_vars
  PROVE  LastId' >= LastId /\ LastId \in Nat /\ LastId' \in Int
<1>0. LastId \in Nat
  BY InMemoryAssumption DEF LastId, IInv, TypeOK
<1> QED BY <1>0, StepIsInvisibleOrRecords, RecordCommitsBatch

\* The lock is free, so what is published is what a query reads.
LEMMA UnlockedIsPublished ==
  ASSUME IInv, mutex = None
  PROVE  /\ ~Publishing /\ LastId = current_event_id
         /\ \A n \in Names : /\ PublishedBuffer(n) = metric_buffers[n]
                             /\ Retained(n) = Range(PublishedBuffer(n))
<1>1. ~Publishing
  BY LockFacts DEF Publishing, IInv, TypeOK
<1> QED BY <1>1 DEF LastId, PublishedBuffer, Retained, Range

\* What is published was committed, under an event ID in use.
LEMMA PublishedTyped ==
  ASSUME IInv, NEW n \in Names, NEW s \in Range(PublishedBuffer(n))
  PROVE  s \in CommittedSamples /\ s \in StoredMetric /\ s.name = n /\ s.event_id <= LastId
<1>1. s \in CommittedSamples /\ s.name = n
  BY PublishedKeeps DEF SortedBuffer, Keeps, Range
<1>2. s \in StoredMetric
  BY <1>1, CommittedTyped
<1>3. PICK c \in commits : s \in StoredBatch(c.batch, c.base)
  BY <1>1 DEF CommittedSamples
<1>4. /\ c.batch \in Batches /\ IsValid(c.batch) /\ c.base \in Nat
      /\ c.base + Len(c.batch.metrics) <= LastId
  BY DEF IInv, CommitInv
<1>5. PICK i \in DOMAIN c.batch.metrics : s.event_id = c.base + i
  BY <1>3 DEF StoredBatch, Stored
<1>6. Len(c.batch.metrics) \in Nat /\ DOMAIN c.batch.metrics = 1..Len(c.batch.metrics)
  BY <1>4, StoredTyped
<1>7. LastId \in Nat
  BY InMemoryAssumption DEF LastId, IInv, TypeOK
<1>8. s.event_id <= LastId
  BY <1>4, <1>5, <1>6, <1>7
<1> QED BY <1>1, <1>2, <1>8
=============================================================================
