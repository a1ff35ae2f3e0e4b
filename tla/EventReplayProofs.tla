------------------------- MODULE EventReplayProofs -------------------------
(***************************************************************************)
(* A subscriber that polls, loses its stream and resumes sees the events   *)
(* in order and without gaps, for every subscription, poll size, capacity, *)
(* set of writers and set of batches.                                      *)
(*                                                                         *)
(* NoEventSkipped speaks of what was received.  The strengthening follows  *)
(* an event from the store through the stream to the client: up to the     *)
(* handler's cursor everything published is received or in the stream, and *)
(* the stream continues what was received.  It needs that event IDs are    *)
(* dense and unique, since both cursors are event IDs.                     *)
(***************************************************************************)
EXTENDS EventReplay, InMemoryTimeSeriesStoreProofs

InIdOrder(seq) ==
  /\ seq \in Seq(StoredMetric)
  /\ \A i, j \in DOMAIN seq : i < j => seq[i].event_id < seq[j].event_id

\* Of what is published and younger than "now", everything up to limit is there.
Seen(limit, events) ==
  \A n \in Names : \A s \in Range(PublishedBuffer(n)) :
     /\ MatchesFilters(s, Subscription)
     /\ floor < s.event_id /\ s.event_id <= limit
     => s \in events

CursorInv ==
  /\ connected \in BOOLEAN
  /\ floor \in Nat /\ floor <= LastId
  /\ cursor \in Nat /\ cursor <= LastId
  /\ connected => floor <= cursor
  /\ ~connected => stream = <<>>

OrderInv ==
  /\ InIdOrder(received)
  /\ InIdOrder(stream)
  /\ \A s \in Range(received), t \in Range(stream) : s.event_id < t.event_id
  /\ \A s \in Range(received) \cup Range(stream) :
        floor < s.event_id /\ s.event_id <= cursor

SeenInv ==
  /\ connected => Seen(cursor, Range(received) \cup Range(stream))
  /\ received # <<>> => Seen(Last(received).event_id, Range(received))

ReplayInv == CursorInv /\ OrderInv /\ SeenInv

-----------------------------------------------------------------------------
\* The sequence is typed, and its last entry has the largest event ID.
LEMMA IdOrderFacts ==
  ASSUME NEW seq, InIdOrder(seq)
  PROVE  /\ Len(seq) \in Nat /\ DOMAIN seq = 1..Len(seq)
         /\ \A i \in DOMAIN seq : seq[i] \in StoredMetric
         /\ \A s \in Range(seq) : s \in StoredMetric /\ s.event_id \in Nat
         /\ seq = <<>> => Range(seq) = {}
         /\ seq # <<>> => /\ Last(seq) \in Range(seq)
                          /\ \A s \in Range(seq) : s.event_id <= Last(seq).event_id
<1>1. /\ Len(seq) \in Nat /\ DOMAIN seq = 1..Len(seq)
      /\ \A i \in DOMAIN seq : seq[i] \in StoredMetric
      /\ seq = <<>> <=> Len(seq) = 0
  BY LenProperties, ElementOfSeq, EmptySeq DEF InIdOrder
<1>2. \A s \in Range(seq) : s \in StoredMetric /\ s.event_id \in Nat
  BY <1>1 DEF Range, StoredMetric
<1>3. ASSUME seq # <<>>
      PROVE  /\ Last(seq) \in Range(seq)
             /\ \A s \in Range(seq) : s.event_id <= Last(seq).event_id
  <2>1. Len(seq) \in DOMAIN seq /\ Last(seq) = seq[Len(seq)]
    BY <1>1, <1>3 DEF Last
  <2>2. ASSUME NEW i \in DOMAIN seq PROVE seq[i].event_id <= seq[Len(seq)].event_id
    <3>1. i = Len(seq) \/ i < Len(seq)
      BY <1>1
    <3>2. seq[i].event_id \in Nat /\ seq[Len(seq)].event_id \in Nat
      BY <1>2, <2>1 DEF Range
    <3> QED BY <2>1, <3>1, <3>2 DEF InIdOrder
  <2> QED BY <2>1, <2>2 DEF Range
<1>4. seq = <<>> => Range(seq) = {}
  BY <1>1 DEF Range
<1> QED BY <1>1, <1>2, <1>3, <1>4

\* Sending events behind those in the stream.
LEMMA ConcatInIdOrder ==
  ASSUME NEW a, NEW b, InIdOrder(a), InIdOrder(b),
         \A s \in Range(a), t \in Range(b) : s.event_id < t.event_id
  PROVE  InIdOrder(a \o b) /\ Range(a \o b) = Range(a) \cup Range(b)
<1> DEFINE c == a \o b
<1>1. /\ Len(a) \in Nat /\ DOMAIN a = 1..Len(a)
      /\ Len(b) \in Nat /\ DOMAIN b = 1..Len(b)
  BY IdOrderFacts
<1>2. /\ c \in Seq(StoredMetric) /\ Len(c) = Len(a) + Len(b)
      /\ \A i \in 1..(Len(a) + Len(b)) : c[i] = IF i <= Len(a) THEN a[i] ELSE b[i - Len(a)]
  BY ConcatProperties DEF InIdOrder
<1>3. DOMAIN c = 1..(Len(a) + Len(b))
  BY <1>2, LenProperties
<1> HIDE DEF c
<1>4. ASSUME NEW i \in DOMAIN c
      PROVE  \/ i \in DOMAIN a /\ c[i] = a[i] /\ c[i] \in Range(a)
             \/ i - Len(a) \in DOMAIN b /\ c[i] = b[i - Len(a)] /\ c[i] \in Range(b)
                /\ ~(i <= Len(a))
  BY <1>1, <1>2, <1>3 DEF Range
<1>5. ASSUME NEW i \in DOMAIN c, NEW j \in DOMAIN c, i < j
      PROVE  c[i].event_id < c[j].event_id
  <2>1. CASE j \in DOMAIN a /\ c[j] = a[j]
    <3>1. i \in DOMAIN a /\ c[i] = a[i]
      BY <1>1, <1>2, <1>3, <1>5, <2>1
    <3> QED BY <1>5, <2>1, <3>1 DEF InIdOrder
  <2>2. CASE /\ j - Len(a) \in DOMAIN b /\ c[j] = b[j - Len(a)] /\ c[j] \in Range(b)
             /\ ~(j <= Len(a))
    <3>1. CASE i \in DOMAIN a /\ c[i] = a[i] /\ c[i] \in Range(a)
      BY <2>2, <3>1
    <3>2. CASE i - Len(a) \in DOMAIN b /\ c[i] = b[i - Len(a)]
      <4>1. i - Len(a) < j - Len(a)
        BY <1>1, <1>3, <1>5
      <4> QED BY <2>2, <3>2, <4>1 DEF InIdOrder
    <3> QED BY <1>4, <3>1, <3>2
  <2> QED BY <1>4, <2>1, <2>2
<1>6. \A x \in Range(c) : x \in Range(a) \cup Range(b)
  BY <1>4 DEF Range
<1>7. \A x \in Range(a) : x \in Range(c)
  <2>1. \A i \in DOMAIN a : i \in DOMAIN c /\ c[i] = a[i]
    BY <1>1, <1>2, <1>3
  <2> QED BY <2>1 DEF Range
<1>8. \A x \in Range(b) : x \in Range(c)
  <2>1. ASSUME NEW i \in DOMAIN b PROVE i + Len(a) \in DOMAIN c /\ c[i + Len(a)] = b[i]
    <3>1. i + Len(a) \in 1..(Len(a) + Len(b)) /\ ~(i + Len(a) <= Len(a)) /\ (i + Len(a)) - Len(a) = i
      BY <1>1
    <3> QED BY <1>2, <1>3, <3>1
  <2> QED BY <2>1 DEF Range
<1> QED BY <1>2, <1>5, <1>6, <1>7, <1>8 DEF InIdOrder, c

\* The limit of a poll cuts events off at the end only.
LEMMA CutInIdOrder ==
  ASSUME NEW events, InIdOrder(events), NEW limit \in Nat \ {0},
         NEW cut, cut = CutToLimit(events, limit), cut # <<>>
  PROVE  /\ InIdOrder(cut)
         /\ Range(cut) \subseteq Range(events)
         /\ \A s \in Range(events) : s.event_id <= Last(cut).event_id => s \in Range(cut)
<1>1. CASE ~(Len(events) > limit)
  BY <1>1 DEF CutToLimit
<1>2. CASE Len(events) > limit
  <2>1. Len(events) \in Nat /\ DOMAIN events = 1..Len(events) /\ events \in Seq(StoredMetric)
        /\ \A i \in DOMAIN events : events[i] \in StoredMetric
    BY IdOrderFacts DEF InIdOrder
  <2>2. cut = SubSeq(events, 1, limit)
    BY <1>2 DEF CutToLimit
  <2>3. /\ cut \in Seq(StoredMetric) /\ Len(cut) = limit
        /\ \A i \in 1..limit : cut[i] = events[i]
    BY <1>2, <2>1, <2>2, SubSeqProperties
  <2>4. DOMAIN cut = 1..limit /\ limit \in DOMAIN cut /\ Last(cut) = events[limit]
    BY <2>3, LenProperties DEF Last
  <2>5. InIdOrder(cut) /\ Range(cut) \subseteq Range(events)
    BY <1>2, <2>1, <2>3, <2>4 DEF InIdOrder, Range
  <2>6. ASSUME NEW s \in Range(events), s \notin Range(cut)
        PROVE  ~(s.event_id <= Last(cut).event_id)
    <3>1. PICK i \in DOMAIN events : s = events[i]
      BY DEF Range
    <3>2. ~(i \in 1..limit)
      BY <2>3, <2>4, <2>6, <3>1 DEF Range
    <3>3. limit \in DOMAIN events /\ limit < i
      BY <1>2, <2>1, <3>2
    <3>4. events[limit].event_id < s.event_id
      BY <3>1, <3>3 DEF InIdOrder
    <3>5. events[limit].event_id \in Nat /\ s.event_id \in Nat
      BY <2>1, <3>1, <3>3 DEF StoredMetric
    <3> QED BY <2>4, <3>4, <3>5
  <2> QED BY <2>5, <2>6
<1> QED BY <1>1, <1>2
\* The client takes the oldest event off the stream.
LEMMA HeadInIdOrder ==
  ASSUME NEW seq, InIdOrder(seq), seq # <<>>
  PROVE  /\ Head(seq) \in StoredMetric /\ Head(seq) \in Range(seq)
         /\ InIdOrder(Tail(seq))
         /\ Range(Tail(seq)) \subseteq Range(seq)
         /\ \A s \in Range(seq) : s = Head(seq) \/ s \in Range(Tail(seq))
         /\ \A s \in Range(Tail(seq)) : Head(seq).event_id < s.event_id
<1> DEFINE rest == Tail(seq)
           N == Len(seq)
<1>1. /\ N \in Nat /\ N # 0 /\ DOMAIN seq = 1..N /\ seq \in Seq(StoredMetric)
      /\ Head(seq) = seq[1]
  BY LenProperties, EmptySeq DEF InIdOrder
<1>2. /\ Head(seq) \in StoredMetric /\ rest \in Seq(StoredMetric)
      /\ Len(rest) = N - 1 /\ \A i \in 1..(N - 1) : rest[i] = seq[i + 1]
  BY <1>1, HeadTailProperties
<1>3. DOMAIN rest = 1..(N - 1)
  BY <1>2, LenProperties
<1> HIDE DEF rest, N
<1>4. 1 \in DOMAIN seq /\ \A i \in DOMAIN rest : i + 1 \in DOMAIN seq /\ 1 < i + 1 /\ rest[i] = seq[i + 1]
  BY <1>1, <1>2, <1>3
<1>5. InIdOrder(rest)
  <2>1. ASSUME NEW i \in DOMAIN rest, NEW j \in DOMAIN rest, i < j
        PROVE  rest[i].event_id < rest[j].event_id
    <3>1. i + 1 < j + 1
      BY <1>1, <1>3, <2>1
    <3> QED BY <1>4, <3>1 DEF InIdOrder
  <2> QED BY <1>2, <2>1 DEF InIdOrder
<1>6. \A s \in Range(rest) : s \in Range(seq) /\ Head(seq).event_id < s.event_id
  BY <1>1, <1>4 DEF Range, InIdOrder
<1>7. ASSUME NEW s \in Range(seq), s # Head(seq)
      PROVE  s \in Range(rest)
  <2>1. PICK i \in 1..N : s = seq[i]
    BY <1>1 DEF Range
  <2>2. i # 1 /\ i - 1 \in 1..(N - 1) /\ (i - 1) + 1 = i
    BY <1>1, <1>7, <2>1
  <2>3. rest[i - 1] = s
    BY <1>2, <2>1, <2>2
  <2> QED BY <1>3, <2>2, <2>3 DEF Range
<1>8. Head(seq) \in Range(seq)
  BY <1>1, <1>4 DEF Range
<1> QED BY <1>2, <1>5, <1>6, <1>7, <1>8 DEF rest

\* The client appends it to what it has received.
LEMMA AppendInIdOrder ==
  ASSUME NEW seq, InIdOrder(seq), NEW e \in StoredMetric,
         \A s \in Range(seq) : s.event_id < e.event_id
  PROVE  /\ InIdOrder(Append(seq, e))
         /\ Range(Append(seq, e)) = Range(seq) \cup {e}
         /\ Append(seq, e) # <<>> /\ Last(Append(seq, e)) = e
<1> DEFINE one == <<e>>
<1>1. seq \in Seq(StoredMetric) /\ Append(seq, e) = seq \o one
  BY AppendIsConcat DEF InIdOrder
<1>2. InIdOrder(one) /\ Range(one) = {e}
  <2>1. one \in Seq(StoredMetric) /\ DOMAIN one = {1} /\ one[1] = e
    OBVIOUS
  <2> QED BY <2>1 DEF InIdOrder, Range
<1>3. Append(seq, e) # <<>> /\ Last(Append(seq, e)) = e
  BY <1>1, AppendProperties DEF Last
<1> QED BY <1>1, <1>2, <1>3, ConcatInIdOrder

-----------------------------------------------------------------------------
(* One poll.  What it can return is a part of a single buffer, since all   *)
(* matching samples have the metric name of the subscription.              *)

\* The samples query_events_after() puts in order for a poll.
Candidates == {s \in UNION {Retained(n) : n \in Names} :
                 s.event_id > cursor /\ MatchesFilters(s, Subscription)}

\* They are finitely many, no two of
\* them with the same event ID.
LEMMA CandidatesFinite ==
  ASSUME IInv, DenseInv, mutex = None, cursor \in Nat, NEW M, M = Candidates
  PROVE  /\ IsFiniteSet(M)
         /\ \A s \in M : /\ s \in StoredMetric /\ s.event_id \in Nat
                         /\ cursor < s.event_id /\ s.event_id <= LastId
         /\ \A s, t \in M : s.event_id = t.event_id => s = t
         /\ \A n \in Names : \A s \in Range(PublishedBuffer(n)) :
               cursor < s.event_id /\ MatchesFilters(s, Subscription) => s \in M
<1>m. \A s : s \in M <=> /\ \E n \in Names : s \in Retained(n)
                          /\ s.event_id > cursor /\ MatchesFilters(s, Subscription)
  BY DEF Candidates
<1>1. \A n \in Names : Retained(n) = Range(PublishedBuffer(n))
  BY UnlockedIsPublished
<1>2. \A n \in Names : \A s \in Range(PublishedBuffer(n)) :
         /\ s \in CommittedSamples /\ s \in StoredMetric /\ s.name = n
         /\ s.event_id \in Nat /\ s.event_id <= LastId
  BY PublishedTyped DEF StoredMetric
<1>3. LastId \in Nat
  BY CommittedTyped
<1>4. ASSUME NEW s \in M
      PROVE  /\ Subscription.metric_name \in Names
             /\ s \in Range(PublishedBuffer(Subscription.metric_name))
             /\ s.event_id > cursor
  <2>1. PICK n \in Names : s \in Retained(n)
    BY <1>m
  <2>2. s.name = n
    BY <1>1, <1>2, <2>1
  <2>3. s.name = Subscription.metric_name /\ s.event_id > cursor
    BY <1>m DEF MatchesFilters
  <2> QED BY <1>1, <2>1, <2>2, <2>3
<1>5. \A s \in M : s \in StoredMetric /\ s.event_id \in Nat /\ cursor < s.event_id /\ s.event_id <= LastId
  BY <1>2, <1>4
<1>6. \A s, t \in M : s.event_id = t.event_id => s = t
  BY <1>2, <1>4 DEF DenseInv
<1>7. IsFiniteSet(M)
  <2>1. CASE M = {}
    BY <2>1, FS_EmptySet
  <2>2. CASE M # {}
    <3>1. PICK n \in Names : n = Subscription.metric_name
      BY <1>4, <2>2
    <3>2. M \subseteq Range(PublishedBuffer(n))
      BY <1>4, <3>1
    <3>3. IsFiniteSet(Range(PublishedBuffer(n)))
      BY PublishedKeeps, ContentsCounted
    <3> QED BY <3>2, <3>3, FS_Subset
  <2> QED BY <2>1, <2>2
<1>8. ASSUME NEW n \in Names, NEW s \in Range(PublishedBuffer(n)),
             cursor < s.event_id, MatchesFilters(s, Subscription)
      PROVE  s \in M
  <2>1. s \in Retained(n) /\ s.event_id > cursor
    BY <1>1, <1>2, <1>8
  <2> QED BY <1>8, <1>m, <2>1
<1> QED BY <1>5, <1>6, <1>7, <1>8

\* The events of a poll are in order and behind the cursor, and everything
\* published up to the new cursor is among them.
LEMMA PolledEvents ==
  ASSUME IInv, DenseInv, CursorInv, Poll
  PROVE  \E events :
           /\ stream' = stream \o events
           /\ InIdOrder(events)
           /\ cursor' \in Nat /\ cursor < cursor' /\ cursor' <= LastId
           /\ \A s \in Range(events) : cursor < s.event_id /\ s.event_id <= cursor'
           /\ \A n \in Names : \A s \in Range(PublishedBuffer(n)) :
                 /\ MatchesFilters(s, Subscription)
                 /\ cursor < s.event_id /\ s.event_id <= cursor'
                 => s \in Range(events)
<1>1. PICK events : events = QueryEventsAfter(Subscription, cursor, FetchLimit)
  OBVIOUS
<1>2. PICK M : M = Candidates
  OBVIOUS
<1>3. PICK all : all = InEventOrder(M)
  OBVIOUS
<1>4. /\ mutex = None /\ events # <<>> /\ cursor \in Nat
      /\ stream' = stream \o events /\ cursor' = Last(events).event_id
      /\ events = CutToLimit(all, FetchLimit)
  BY <1>1, <1>2, <1>3 DEF Poll, QueryEventsAfter, EventsAfter, CursorInv, Candidates
<1>5. FetchLimit \in Nat \ {0}
  BY FetchLimitAssumption, PageSizeAssumption
<1>6. /\ IsFiniteSet(M)
      /\ \A s \in M : /\ s \in StoredMetric /\ s.event_id \in Nat
                      /\ cursor < s.event_id /\ s.event_id <= LastId
      /\ \A s, t \in M : s.event_id = t.event_id => s = t
      /\ \A n \in Names : \A s \in Range(PublishedBuffer(n)) :
            cursor < s.event_id /\ MatchesFilters(s, Subscription) => s \in M
  BY <1>2, <1>4, CandidatesFinite
<1>7. InIdOrder(all) /\ Range(all) = M
  <2>1. /\ all \in Seq(M) /\ Range(all) = M
        /\ \A i, j \in DOMAIN all : i < j => all[i].event_id < all[j].event_id
    BY <1>3, <1>6, InEventOrderProperties
  <2>2. all \in Seq(StoredMetric)
    BY <1>6, <2>1, LenProperties, ElementOfSeq
  <2> QED BY <2>1, <2>2 DEF InIdOrder
<1>8. /\ InIdOrder(events)
      /\ Range(events) \subseteq M
      /\ \A s \in M : s.event_id <= Last(events).event_id => s \in Range(events)
  BY <1>4, <1>5, <1>7, CutInIdOrder
<1>9. /\ Last(events) \in Range(events)
      /\ \A s \in Range(events) : s.event_id <= Last(events).event_id
  BY <1>4, <1>8, IdOrderFacts
<1> QED BY <1>4, <1>6, <1>8, <1>9
-----------------------------------------------------------------------------
(* Every step keeps the strengthening.                                     *)

\* The invariant, with its parts as facts about the values of the variables.
LEMMA ReplayFacts ==
  ASSUME ReplayInv
  PROVE  /\ InIdOrder(received) /\ InIdOrder(stream)
         /\ received # <<>> => /\ Last(received).event_id \in Nat
                               /\ floor < Last(received).event_id
                               /\ Last(received).event_id <= cursor
                               /\ \A s \in Range(received) : s.event_id <= Last(received).event_id
         /\ received = <<>> => Range(received) = {}
         /\ stream = <<>> => Range(stream) = {}
<1>1. InIdOrder(received) /\ InIdOrder(stream)
  BY DEF ReplayInv, OrderInv
<1>2. PICK r : r = received
  OBVIOUS
<1>3. PICK t : t = stream
  OBVIOUS
<1>4. /\ r = <<>> => Range(r) = {}
      /\ t = <<>> => Range(t) = {}
      /\ \A s \in Range(r) : s.event_id \in Nat
      /\ r # <<>> => /\ Last(r) \in Range(r)
                     /\ \A s \in Range(r) : s.event_id <= Last(r).event_id
  BY <1>1, <1>2, <1>3, IdOrderFacts
<1>5. r # <<>> => floor < Last(r).event_id /\ Last(r).event_id <= cursor
  BY <1>2, <1>4 DEF ReplayInv, OrderInv
<1> QED BY <1>1, <1>2, <1>3, <1>4, <1>5

\* Writers publish samples behind the cursor only, and evict some.
LEMMA StoreKeepsReplayInv ==
  ASSUME IInv, IInv', ReplayInv, [Next]_vars, UNCHANGED subscriber
  PROVE  ReplayInv'
<1>1. UNCHANGED <<connected, cursor, stream, received, floor>>
  BY DEF subscriber
<1>2. LastId \in Nat /\ LastId' \in Int /\ LastId <= LastId'
  BY LastIdGrows
<1>3. CursorInv'
  BY <1>1, <1>2 DEF ReplayInv, CursorInv
<1>4. OrderInv'
  BY <1>1 DEF ReplayInv, OrderInv
<1>5. ASSUME NEW limit \in Nat, limit <= cursor, NEW events, Seen(limit, events)
      PROVE  \A n \in Names : \A s \in Range(PublishedBuffer(n)') :
                /\ MatchesFilters(s, Subscription)
                /\ floor < s.event_id /\ s.event_id <= limit
                => s \in events
  <2> SUFFICES ASSUME NEW n \in Names, NEW s \in Range(PublishedBuffer(n)'),
                      MatchesFilters(s, Subscription),
                      floor < s.event_id, s.event_id <= limit
               PROVE  s \in events
    OBVIOUS
  <2>1. s \in Range(PublishedBuffer(n)) \/ s.event_id > LastId
    BY PublishedShrinks
  <2>2. s \in StoredMetric
    <3>1. PICK buffer : buffer = PublishedBuffer(n)'
      OBVIOUS
    <3>2. SortedBuffer(buffer, n)
      BY IInv', <3>1 DEF IInv, BufferInv, PublishedBuffer
    <3> QED BY <3>1, <3>2, LenProperties, ElementOfSeq DEF SortedBuffer, Range
  <2>3. s.event_id \in Nat /\ cursor \in Nat /\ cursor <= LastId
    BY <2>2 DEF StoredMetric, ReplayInv, CursorInv
  <2>4. ~(s.event_id > LastId)
    BY <1>2, <1>5, <2>3
  <2> QED BY <1>5, <2>1, <2>4 DEF Seen
<1>6. SeenInv'
  <2>1. cursor \in Nat /\ cursor <= cursor
    BY DEF ReplayInv, CursorInv
  <2>2. received # <<>> => Last(received).event_id \in Nat /\ Last(received).event_id <= cursor
    BY ReplayFacts
  <2>3. connected => \A n \in Names : \A s \in Range(PublishedBuffer(n)') :
                        /\ MatchesFilters(s, Subscription)
                        /\ floor < s.event_id /\ s.event_id <= cursor
                        => s \in Range(received) \cup Range(stream)
    BY <1>5, <2>1 DEF ReplayInv, SeenInv
  <2>4. received # <<>> => \A n \in Names : \A s \in Range(PublishedBuffer(n)') :
                        /\ MatchesFilters(s, Subscription)
                        /\ floor < s.event_id /\ s.event_id <= Last(received).event_id
                        => s \in Range(received)
    BY <1>5, <2>2 DEF ReplayInv, SeenInv
  <2> QED BY <1>1, <2>3, <2>4 DEF SeenInv, Seen
<1> QED BY <1>3, <1>4, <1>6 DEF ReplayInv

\* The store stands still while the subscriber moves.
LEMMA StoreUnchanged ==
  ASSUME UNCHANGED vars
  PROVE  LastId' = LastId /\ \A n \in Names : PublishedBuffer(n)' = PublishedBuffer(n)
BY DEF vars, store, locals, LastId, Publishing, PublishedBuffer

\* A new stream starts at "now" or behind the last event received.
LEMMA SubscribeKeepsReplayInv ==
  ASSUME IInv, ReplayInv, Subscribe
  PROVE  ReplayInv'
<1>1. /\ ~connected /\ connected' = TRUE /\ mutex = None
      /\ UNCHANGED <<vars, stream, received>>
      /\ stream = <<>> /\ Range(stream) = {}
  BY ReplayFacts DEF Subscribe, ReplayInv, CursorInv
<1>2. /\ LastId' = LastId /\ \A n \in Names : PublishedBuffer(n)' = PublishedBuffer(n)
      /\ LastId = current_event_id /\ LastId \in Nat
      /\ \A n \in Names : \A s \in Range(PublishedBuffer(n)) : s.event_id \in Nat
  BY <1>1, StoreUnchanged, UnlockedIsPublished, CommittedTyped, PublishedTyped DEF StoredMetric
<1>3. cursor \in Nat /\ cursor <= LastId /\ floor \in Nat /\ floor <= LastId
  BY DEF ReplayInv, CursorInv
<1>4. CASE received = <<>>
  <2>1. cursor' = LastId /\ floor' = LastId /\ Range(received) = {}
    BY <1>2, <1>4, ReplayFacts DEF Subscribe
  <2>2. CursorInv'
    BY <1>1, <1>2, <2>1 DEF CursorInv
  <2>3. OrderInv'
    BY <1>1, <2>1 DEF ReplayInv, OrderInv
  <2>4. SeenInv'
    BY <1>1, <1>2, <1>4, <2>1 DEF SeenInv, Seen
  <2> QED BY <2>2, <2>3, <2>4 DEF ReplayInv
<1>5. CASE received # <<>>
  <2>1. /\ cursor' = Last(received).event_id /\ floor' = floor
        /\ cursor' \in Nat /\ floor < cursor' /\ cursor' <= cursor
        /\ \A s \in Range(received) : s.event_id <= cursor'
    BY <1>5, ReplayFacts DEF Subscribe
  <2>2. CursorInv'
    BY <1>1, <1>2, <1>3, <2>1 DEF CursorInv
  <2>3. OrderInv'
    BY <1>1, <2>1 DEF ReplayInv, OrderInv
  <2>4. SeenInv'
    BY <1>1, <1>2, <1>5, <2>1 DEF ReplayInv, SeenInv, Seen
  <2> QED BY <2>2, <2>3, <2>4 DEF ReplayInv
<1> QED BY <1>4, <1>5

\* A poll extends the stream by everything up to its new cursor.
LEMMA PollKeepsReplayInv ==
  ASSUME IInv, DenseInv, ReplayInv, Poll
  PROVE  ReplayInv'
<1>1. PICK events :
         /\ stream' = stream \o events
         /\ InIdOrder(events)
         /\ cursor' \in Nat /\ cursor < cursor' /\ cursor' <= LastId
         /\ \A s \in Range(events) : cursor < s.event_id /\ s.event_id <= cursor'
         /\ \A n \in Names : \A s \in Range(PublishedBuffer(n)) :
               /\ MatchesFilters(s, Subscription)
               /\ cursor < s.event_id /\ s.event_id <= cursor'
               => s \in Range(events)
  BY PolledEvents DEF ReplayInv
<1>2. connected /\ UNCHANGED <<vars, connected, received, floor>>
  BY DEF Poll
<1>3. /\ LastId' = LastId /\ \A n \in Names : PublishedBuffer(n)' = PublishedBuffer(n)
      /\ \A n \in Names : \A s \in Range(PublishedBuffer(n)) : s.event_id \in Nat
  BY <1>2, StoreUnchanged, PublishedTyped DEF StoredMetric
<1>4. cursor \in Nat /\ floor \in Nat /\ floor <= LastId /\ floor <= cursor
  BY <1>2 DEF ReplayInv, CursorInv
<1>5. PICK old : old = stream
  OBVIOUS
<1>6. PICK new : new = stream'
  OBVIOUS
<1>7. InIdOrder(old) /\ InIdOrder(received)
  BY <1>5, ReplayFacts
<1>8. PICK got : got = received
  OBVIOUS
<1>9. /\ \A s \in Range(old) : s.event_id \in Nat
      /\ \A s \in Range(events) : s.event_id \in Nat
      /\ \A s \in Range(got) : s.event_id \in Nat
  BY <1>1, <1>7, <1>8, IdOrderFacts
<1>10. /\ \A s \in Range(got) \cup Range(old) : floor < s.event_id /\ s.event_id <= cursor
       /\ \A s \in Range(got), t \in Range(old) : s.event_id < t.event_id
  BY <1>5, <1>8 DEF ReplayInv, OrderInv
<1>11. InIdOrder(new) /\ Range(new) = Range(old) \cup Range(events)
  <2>1. \A s \in Range(old), t \in Range(events) : s.event_id < t.event_id
    BY <1>1, <1>4, <1>9, <1>10
  <2> QED BY <1>1, <1>5, <1>6, <1>7, <2>1, ConcatInIdOrder
<1>12. CursorInv'
  BY <1>1, <1>2, <1>3, <1>4 DEF CursorInv
<1>13. \A s \in Range(got), t \in Range(new) : s.event_id < t.event_id
  BY <1>1, <1>4, <1>9, <1>10, <1>11
<1>14. \A s \in Range(got) \cup Range(new) : floor < s.event_id /\ s.event_id <= cursor'
  BY <1>1, <1>4, <1>9, <1>10, <1>11
<1>15. OrderInv'
  BY <1>2, <1>6, <1>7, <1>8, <1>11, <1>13, <1>14 DEF OrderInv
<1>16. Seen(cursor, Range(got) \cup Range(old))
  BY <1>2, <1>5, <1>8 DEF ReplayInv, SeenInv
<1>17. \A n \in Names : \A s \in Range(PublishedBuffer(n)) :
          /\ MatchesFilters(s, Subscription)
          /\ floor < s.event_id /\ s.event_id <= cursor'
          => s \in Range(got) \cup Range(new)
  <2> SUFFICES ASSUME NEW n \in Names, NEW s \in Range(PublishedBuffer(n)),
                      MatchesFilters(s, Subscription),
                      floor < s.event_id, s.event_id <= cursor'
               PROVE  s \in Range(got) \cup Range(new)
    OBVIOUS
  <2>1. s.event_id <= cursor \/ cursor < s.event_id
    BY <1>3, <1>4
  <2> QED BY <1>1, <1>11, <1>16, <2>1 DEF Seen
<1>18. SeenInv'
  <2>1. received # <<>> => \A n \in Names : \A s \in Range(PublishedBuffer(n)) :
          /\ MatchesFilters(s, Subscription)
          /\ floor < s.event_id /\ s.event_id <= Last(received).event_id
          => s \in Range(received)
    BY DEF ReplayInv, SeenInv, Seen
  <2> QED BY <1>2, <1>3, <1>6, <1>8, <1>17, <2>1 DEF SeenInv, Seen
<1> QED BY <1>12, <1>15, <1>18 DEF ReplayInv

\* The oldest event of the stream becomes the youngest one received, and what
\* was seen up to it is received.
LEMMA ReceiveKeepsReplayInv ==
  ASSUME IInv, ReplayInv, Receive
  PROVE  ReplayInv'
<1>1. PICK old : old = stream
  OBVIOUS
<1>2. PICK got : got = received
  OBVIOUS
<1>3. PICK e : e = Head(old)
  OBVIOUS
<1>4. /\ old # <<>> /\ connected
      /\ received' = Append(got, e) /\ stream' = Tail(old)
      /\ UNCHANGED <<vars, connected, cursor, floor>>
  BY <1>1, <1>2, <1>3 DEF Receive, ReplayInv, CursorInv
<1>5. /\ LastId' = LastId /\ \A n \in Names : PublishedBuffer(n)' = PublishedBuffer(n)
      /\ \A n \in Names : \A s \in Range(PublishedBuffer(n)) : s.event_id \in Nat
  BY <1>4, StoreUnchanged, PublishedTyped DEF StoredMetric
<1>6. PICK rest : rest = Tail(old)
  OBVIOUS
<1>7. PICK new : new = Append(got, e)
  OBVIOUS
<1>8. InIdOrder(old) /\ InIdOrder(got)
  BY <1>1, <1>2, ReplayFacts
<1>9. /\ e \in StoredMetric /\ e \in Range(old)
      /\ InIdOrder(rest) /\ Range(rest) \subseteq Range(old)
      /\ \A s \in Range(old) : s = e \/ s \in Range(rest)
      /\ \A s \in Range(rest) : e.event_id < s.event_id
  BY <1>3, <1>4, <1>6, <1>8, HeadInIdOrder
<1>10. /\ \A s \in Range(got), t \in Range(old) : s.event_id < t.event_id
       /\ \A s \in Range(got) \cup Range(old) : floor < s.event_id /\ s.event_id <= cursor
  BY <1>1, <1>2 DEF ReplayInv, OrderInv
<1>11. /\ InIdOrder(new) /\ Range(new) = Range(got) \cup {e}
       /\ new # <<>> /\ Last(new) = e
  BY <1>7, <1>8, <1>9, <1>10, AppendInIdOrder
<1>12. received' = new /\ stream' = rest
  BY <1>4, <1>6, <1>7
<1>13. CursorInv'
  BY <1>4, <1>5 DEF ReplayInv, CursorInv
<1>14. OrderInv'
  <2>1. \A s \in Range(new), t \in Range(rest) : s.event_id < t.event_id
    BY <1>9, <1>10, <1>11
  <2>2. \A s \in Range(new) \cup Range(rest) : floor < s.event_id /\ s.event_id <= cursor
    BY <1>9, <1>10, <1>11
  <2> QED BY <1>4, <1>9, <1>11, <1>12, <2>1, <2>2 DEF OrderInv
<1>15. Seen(cursor, Range(got) \cup Range(old))
  BY <1>1, <1>2, <1>4 DEF ReplayInv, SeenInv
<1>16. Seen(cursor, Range(new) \cup Range(rest))
  BY <1>9, <1>11, <1>15 DEF Seen
<1>17. Seen(e.event_id, Range(new))
  <2> SUFFICES ASSUME NEW n \in Names, NEW s \in Range(PublishedBuffer(n)),
                      MatchesFilters(s, Subscription),
                      floor < s.event_id, s.event_id <= e.event_id
               PROVE  s \in Range(new)
    BY DEF Seen
  <2>1. s.event_id \in Nat /\ e.event_id \in Nat /\ cursor \in Nat /\ e.event_id <= cursor
    BY <1>5, <1>9, <1>10 DEF StoredMetric, ReplayInv, CursorInv
  <2>2. s.event_id <= cursor
    BY <2>1
  <2>3. s \in Range(new) \cup Range(rest)
    BY <1>16, <2>2 DEF Seen
  <2>4. s \notin Range(rest)
    BY <1>9, <2>1
  <2> QED BY <2>3, <2>4
<1>18. SeenInv'
  BY <1>4, <1>5, <1>11, <1>12, <1>16, <1>17 DEF SeenInv, Seen
<1> QED BY <1>13, <1>14, <1>18 DEF ReplayInv

\* What was under way is lost; the client keeps what it received.
LEMMA DisconnectKeepsReplayInv ==
  ASSUME IInv, ReplayInv, Disconnect
  PROVE  ReplayInv'
<1>1. /\ connected' = FALSE /\ stream' = <<>>
      /\ UNCHANGED <<vars, cursor, received, floor>>
  BY DEF Disconnect
<1>2. LastId' = LastId /\ \A n \in Names : PublishedBuffer(n)' = PublishedBuffer(n)
  BY <1>1, StoreUnchanged
<1>3. CursorInv'
  BY <1>1, <1>2 DEF ReplayInv, CursorInv
<1>4. InIdOrder(<<>>) /\ Range(<<>>) = {}
  BY EmptySeq DEF InIdOrder, Range
<1>5. OrderInv'
  BY <1>1, <1>4 DEF ReplayInv, OrderInv
<1>6. SeenInv'
  BY <1>1, <1>2 DEF ReplayInv, SeenInv, Seen
<1> QED BY <1>3, <1>5, <1>6 DEF ReplayInv

-----------------------------------------------------------------------------
\* The strengthening holds throughout.  The subscriber leaves the store alone,
\* so what was proved of the store holds here.
LEMMA ReplayInvHolds == RSpec => [](IInv /\ ReplayInv)
<1>1. RInit => Init
  BY DEF RInit
<1>2. [RNext]_<<vars, subscriber>> => [Next]_vars
  BY DEF RNext, Subscribe, Poll, Receive, Disconnect
<1>3. RSpec => [](IInv /\ DenseInv)
  <2>1. RSpec => Spec
    BY <1>1, <1>2, PTL DEF RSpec, Spec
  <2> QED BY <2>1, DenseInvHolds, PTL
<1>4. RInit => ReplayInv
  <2> SUFFICES ASSUME RInit PROVE ReplayInv
    OBVIOUS
  <2>1. /\ connected = FALSE /\ cursor = 0 /\ stream = <<>> /\ received = <<>> /\ floor = 0
        /\ LastId = 0
    BY DEF RInit, Init, LastId, Publishing
  <2>2. InIdOrder(<<>>) /\ Range(<<>>) = {}
    BY EmptySeq DEF InIdOrder, Range
  <2>3. CursorInv
    <3>1. 0 \in Nat /\ 0 <= 0
      OBVIOUS
    <3>2. connected \in BOOLEAN /\ ~connected
      BY <2>1
    <3> QED BY <2>1, <3>1, <3>2 DEF CursorInv
  <2>4. OrderInv
    BY <2>1, <2>2 DEF OrderInv
  <2>5. SeenInv
    BY <2>1 DEF SeenInv
  <2> QED BY <2>3, <2>4, <2>5 DEF ReplayInv
<1>5. IInv /\ DenseInv /\ IInv' /\ ReplayInv /\ [RNext]_<<vars, subscriber>> => ReplayInv'
  <2> SUFFICES ASSUME IInv, DenseInv, IInv', ReplayInv, [RNext]_<<vars, subscriber>>
               PROVE  ReplayInv'
    OBVIOUS
  <2>1. CASE Next /\ UNCHANGED subscriber
    BY <2>1, StoreKeepsReplayInv
  <2>2. CASE Subscribe
    BY <2>2, SubscribeKeepsReplayInv
  <2>3. CASE Poll
    BY <2>3, PollKeepsReplayInv
  <2>4. CASE Receive
    BY <2>4, ReceiveKeepsReplayInv
  <2>5. CASE Disconnect
    BY <2>5, DisconnectKeepsReplayInv
  <2>6. CASE UNCHANGED <<vars, subscriber>>
    BY <2>6, StoreKeepsReplayInv
  <2> QED BY <2>1, <2>2, <2>3, <2>4, <2>5, <2>6 DEF RNext
<1> QED BY <1>3, <1>4, <1>5, PTL DEF RSpec

\* query_events_after() and the resume point deliver every event once and in
\* commit order, across polls, lost streams and late timestamps.
THEOREM EventsArriveInOrder == RSpec => []ReceivedInOrder
<1>1. ReplayInv => ReceivedInOrder
  BY DEF ReplayInv, OrderInv, InIdOrder, ReceivedInOrder
<1> QED BY <1>1, ReplayInvHolds, PTL

\* A subscription without a resume point yields nothing committed before the
\* current_event_id() it started from, whatever is committed before it polls.
THEOREM NothingOldArrives == RSpec => []NothingBeforeNow
<1>1. ReplayInv => NothingBeforeNow
  BY DEF ReplayInv, OrderInv, NothingBeforeNow, Range
<1> QED BY <1>1, ReplayInvHolds, PTL

\* Resuming after the last event received loses no matching sample the store
\* still has.
THEOREM ReplayIsComplete == RSpec => []NoEventSkipped
<1>1. IInv /\ ReplayInv => NoEventSkipped
  <2> SUFFICES ASSUME IInv, ReplayInv, mutex = None, received # <<>>,
                      NEW s \in UNION {Retained(n) : n \in Names},
                      MatchesFilters(s, Subscription),
                      floor < s.event_id, s.event_id <= Last(received).event_id
               PROVE  \E i \in DOMAIN received : received[i] = s
    BY DEF NoEventSkipped
  <2>1. PICK n \in Names : s \in Retained(n)
    OBVIOUS
  <2>2. s \in Range(PublishedBuffer(n))
    BY <2>1, UnlockedIsPublished
  <2>3. s \in Range(received)
    BY <2>2 DEF ReplayInv, SeenInv, Seen
  <2> QED BY <2>3 DEF Range
<1> QED BY <1>1, ReplayInvHolds, PTL
=============================================================================
