---------------------------- MODULE StoreQueries ----------------------------
(***************************************************************************)
(* The read side of the in-memory store.  A query validates its request    *)
(* before it takes the lock, and holds the lock shared while it reads, so  *)
(* each one is an operator on a state with mutex = None.                   *)
(*                                                                         *)
(* A request is a record of the fields the store looks at; client_id is    *)
(* None when the field is absent, and page_token is None when it is empty. *)
(* A continuation token is the cursor it encodes: the text form loses      *)
(* nothing, and decoding checks the bounds kept here.                      *)
(***************************************************************************)
EXTENDS InMemoryTimeSeriesStore

CONSTANTS kDefaultPageSize, kMaximumPageSize,
          kMaxFinite  \* largest finite double

ASSUME PageSizeAssumption ==
         /\ kDefaultPageSize \in Nat \ {0}
         /\ kMaximumPageSize \in Nat
         /\ kMaxFinite \in Nat
         /\ kDefaultPageSize <= kMaximumPageSize

\* What decode_page_token() makes of a token: two int64_t that are not negative,
\* and a timestamp.
PageToken == [snapshot_event_id : Nat, timestamp_ms : Int, event_id : Nat]

ASSUME ValueAssumption ==
         /\ None \notin PageToken
         /\ NonFinite \notin Int
         /\ \A m \in AllMetrics : m.value \in Int \cup {NonFinite}

\* The numbers of a finite set in increasing order.
Increasing(numbers) ==
  [k \in 1..Cardinality(numbers) |->
     CHOOSE n \in numbers : Cardinality({m \in numbers : m < n}) = k - 1]

\* The entries of a sequence that are in a set, in the order they have there.
Select(seq, set) ==
  LET positions == Increasing({i \in DOMAIN seq : seq[i] \in set})
  IN  [k \in DOMAIN positions |-> seq[positions[k]]]

\* Samples of any metric in the order of their event IDs.
InEventOrder(samples) ==
  LET ids == Increasing({s.event_id : s \in samples})
  IN  [k \in DOMAIN ids |-> CHOOSE s \in samples : s.event_id = ids[k]]

\* Every requested tag is there, with the requested value.
MatchesFilters(s, request) ==
  /\ s.name = request.metric_name
  /\ request.client_id # None => s.source_client_id = request.client_id
  /\ request.tags_filter \subseteq s.tags

ValidFilters(request) == request.metric_name # Empty /\ request.client_id # Empty

\* The buffer find() yields; a name the map has no entry for has no samples.
Buffer(request) == IF request.metric_name \in Names
                   THEN metric_buffers[request.metric_name] ELSE <<>>

\* The entries of the buffer that match, in its order.
Matches(request) ==
  Select(Buffer(request), {s \in Range(Buffer(request)) : MatchesFilters(s, request)})

-----------------------------------------------------------------------------
(* Faulty variants of the operators below, for mutation checks only.       *)

TokenOffByOne(token) == 0 < token.event_id /\ token.event_id < token.snapshot_event_id

AtOrAfterCursor(s, cursor) == \/ s.timestamp_ms > cursor.timestamp_ms
                              \/ /\ s.timestamp_ms = cursor.timestamp_ms
                                 /\ s.event_id >= cursor.event_id

AfterTimestamp(s, cursor) == s.timestamp_ms > cursor.timestamp_ms

IgnoreSnapshot(s, request, snapshot) ==
  /\ request.from_ms <= s.timestamp_ms /\ s.timestamp_ms <= request.to_ms
  /\ MatchesFilters(s, request)

FirstMatch(request) ==
  IF Matches(request) = <<>> THEN None ELSE Head(Matches(request))

UnsortedEvents(request, after_event_id) ==
  Select(Matches(request), {s \in Range(Matches(request)) : s.event_id > after_event_id})

FromCursor(request, after_event_id) ==
  InEventOrder({s \in UNION {Retained(n) : n \in Names} :
                  s.event_id >= after_event_id /\ MatchesFilters(s, request)})

CutToNewest(events, fetch_limit) ==
  IF Len(events) > fetch_limit
  THEN SubSeq(events, Len(events) - fetch_limit + 1, Len(events)) ELSE events

NoneIfTooMany(events, fetch_limit) ==
  IF Len(events) > fetch_limit THEN <<>> ELSE events

-----------------------------------------------------------------------------
\* decode_page_token() yields a cursor for these and rejects the others.
Decodes(token) == 0 < token.event_id /\ token.event_id <= token.snapshot_event_id

ValidRange(request) ==
  /\ ValidFilters(request)
  /\ request.from_ms <= request.to_ms
  /\ request.page_size <= kMaximumPageSize
  /\ request.page_token # None => Decodes(request.page_token)

PageSize(request) == IF request.page_size = 0 THEN kDefaultPageSize
                                              ELSE request.page_size

IsAfterCursor(s, cursor) == \/ s.timestamp_ms > cursor.timestamp_ms
                            \/ /\ s.timestamp_ms = cursor.timestamp_ms
                               /\ s.event_id > cursor.event_id

\* A sum of doubles; once infinite it stays so (or becomes a NaN).
PlusDouble(a, b) == IF NonFinite \in {a, b} \/ a + b \notin -kMaxFinite..kMaxFinite
                    THEN NonFinite ELSE a + b

\* The running sum of the values, from the front.
Total(samples) ==
  LET sum[i \in 0..Len(samples)] ==
        IF i = 0 THEN 0 ELSE PlusDouble(sum[i - 1], samples[i].value)
  IN  sum[Len(samples)]

\* max_, min_ and avg_, the latter as a fraction; all zero for no value.
ComputeStats(samples) ==
  IF samples = <<>> THEN [avg |-> <<0, 1>>, max |-> 0, min |-> 0]
  ELSE LET values == {samples[i].value : i \in DOMAIN samples}
       IN  [avg |-> <<Total(samples), Len(samples)>>,
            max |-> CHOOSE v \in values : \A u \in values : u <= v,
            min |-> CHOOSE v \in values : \A u \in values : v <= u]

InRange(s, request, snapshot) ==
  /\ request.from_ms <= s.timestamp_ms /\ s.timestamp_ms <= request.to_ms
  /\ s.event_id <= snapshot
  /\ MatchesFilters(s, request)

EncodePageToken(last, snapshot) == [snapshot_event_id |-> snapshot,
                                    timestamp_ms      |-> last.timestamp_ms,
                                    event_id          |-> last.event_id]

\* What is in range up to the snapshot, and what of that follows the cursor.
SnapshotRange(buffer, request, snapshot) ==
  Select(buffer, {s \in Range(buffer) : InRange(s, request, snapshot)})

Remaining(range, request) ==
  Select(range, {s \in Range(range) :
                   request.page_token # None => IsAfterCursor(s, request.page_token)})

\* Faulty variant of the next definition, for mutation checks only.
StatsOfRest(buffer, request, snapshot) ==
  LET rest == Remaining(SnapshotRange(buffer, request, snapshot), request)
      size == PageSize(request)
      more == Len(rest) > size
  IN  [metrics         |-> IF more THEN SubSeq(rest, 1, size) ELSE rest,
       stats           |-> ComputeStats(rest),
       next_page_token |-> IF more THEN EncodePageToken(rest[size], snapshot) ELSE None]

\* build_range_page(): the stats cover everything in range up to the snapshot,
\* the metrics are the first page of what follows the cursor.
BuildRangePage(buffer, request, snapshot) ==
  LET range == SnapshotRange(buffer, request, snapshot)
      rest  == Remaining(range, request)
      size  == PageSize(request)
      more  == Len(rest) > size
  IN  [metrics         |-> IF more THEN SubSeq(rest, 1, size) ELSE rest,
       stats           |-> ComputeStats(range),
       next_page_token |-> IF more THEN EncodePageToken(rest[size], snapshot) ELSE None]

\* The snapshot is the token's, or the current event ID on the first page.
Snapshot(request) == IF request.page_token = None THEN current_event_id
                     ELSE request.page_token.snapshot_event_id

\* kInvalidArgument of query_range(); a token from the future is one case.
RefusesRange(request) == ~ValidRange(request) \/ Snapshot(request) > current_event_id

\* query_range() of a request that is not refused.
QueryRange(request) == BuildRangePage(Buffer(request), request, Snapshot(request))

-----------------------------------------------------------------------------
\* query_latest(): a scan from the back; None for nullopt and for an invalid
\* request, which no caller here makes.
QueryLatest(request) ==
  IF ~ValidFilters(request) \/ Matches(request) = <<>> THEN None ELSE Last(Matches(request))

ValidSubscription(request, after_event_id, fetch_limit) ==
  /\ ValidFilters(request)
  /\ after_event_id >= 0
  /\ fetch_limit \in 1..kMaximumPageSize

\* All buffers are searched, and the matches are put in event-ID order.
EventsAfter(request, after_event_id) ==
  InEventOrder({s \in UNION {Retained(n) : n \in Names} :
                  s.event_id > after_event_id /\ MatchesFilters(s, request)})

CutToLimit(events, fetch_limit) ==
  IF Len(events) > fetch_limit THEN SubSeq(events, 1, fetch_limit) ELSE events

\* query_events_after(), None for kInvalidArgument.
QueryEventsAfter(request, after_event_id, fetch_limit) ==
  IF ~ValidSubscription(request, after_event_id, fetch_limit) THEN None
  ELSE CutToLimit(EventsAfter(request, after_event_id), fetch_limit)
=============================================================================
