----------------------- MODULE RangePaginationProofs -----------------------
(***************************************************************************)
(* Paging through a range is complete, ordered and confined to the         *)
(* snapshot, for every request, page size, capacity, set of writers and    *)
(* set of batches.                                                         *)
(*                                                                         *)
(* NothingSkipped speaks of states in which no writer holds the lock.  The *)
(* strengthening speaks of the buffers as published (a commit counts from  *)
(* the step that records its ID), and says what links two pages: a page    *)
(* that announces another one is full, and its token is the cursor of its  *)
(* last sample with the snapshot of the session.                           *)
(***************************************************************************)
EXTENDS RangePagination, InMemoryTimeSeriesStoreProofs

Ascending(seq) ==
  /\ seq \in Seq(StoredMetric)
  /\ \A i, j \in DOMAIN seq : i < j => Older(seq[i], seq[j])

FollowsCursor(s, request) ==
  request.page_token # None => IsAfterCursor(s, request.page_token)

\* A page that announces another one.
IsFull(page, size, snap) ==
  /\ Len(page.metrics) = size
  /\ page.next_page_token = EncodePageToken(page.metrics[size], snap)

-----------------------------------------------------------------------------
\* Filtering a buffer leaves it in order.
LEMMA SelectAscending ==
  ASSUME NEW seq, Ascending(seq), NEW set
  PROVE  Ascending(Select(seq, set)) /\ Range(Select(seq, set)) = Range(seq) \cap set
BY SelectProperties DEF Ascending

\* The first entries of an ascending sequence: all others are newer.
LEMMA PrefixAscending ==
  ASSUME NEW seq, Ascending(seq), NEW size \in Nat \ {0}, Len(seq) > size
  PROVE  /\ Ascending(SubSeq(seq, 1, size))
         /\ Len(SubSeq(seq, 1, size)) = size
         /\ SubSeq(seq, 1, size)[size] = seq[size]
         /\ Range(SubSeq(seq, 1, size)) \subseteq Range(seq)
         /\ \A s \in Range(seq) : \/ s \in Range(SubSeq(seq, 1, size))
                                  \/ Older(seq[size], s)
<1> DEFINE p == SubSeq(seq, 1, size)
<1>1. /\ Len(seq) \in Nat /\ DOMAIN seq = 1..Len(seq)
      /\ \A i \in 1..Len(seq) : seq[i] \in StoredMetric
  BY LenProperties, ElementOfSeq DEF Ascending
<1>2. p \in Seq(StoredMetric) /\ Len(p) = size /\ \A i \in 1..size : p[i] = seq[i]
  BY <1>1, SubSeqProperties DEF Ascending
<1>3. DOMAIN p = 1..size
  BY <1>2, LenProperties
<1> HIDE DEF p
<1>4. Ascending(p) /\ p[size] = seq[size]
  BY <1>1, <1>2, <1>3 DEF Ascending
<1>5. Range(p) \subseteq Range(seq)
  BY <1>1, <1>2, <1>3 DEF Range
<1>6. ASSUME NEW s \in Range(seq), s \notin Range(p)
      PROVE  Older(seq[size], s)
  <2>1. PICK i \in 1..Len(seq) : seq[i] = s
    BY <1>1 DEF Range
  <2>2. ~(i <= size)
    BY <1>2, <1>3, <1>6, <2>1 DEF Range
  <2>3. size \in DOMAIN seq /\ i \in DOMAIN seq /\ size < i
    BY <1>1, <2>2
  <2> QED BY <2>1, <2>3 DEF Ascending
<1> QED BY <1>2, <1>4, <1>5, <1>6 DEF p

\* What build_range_page() returns for a sorted buffer: samples in range behind
\* the cursor, in order, and either all of them and no token, or a full page, the
\* token of its last sample, and only newer samples left out.
LEMMA PageProperties ==
  ASSUME NEW buffer, Ascending(buffer), NEW request, NEW snap,
         PageSize(request) \in Nat \ {0},
         NEW page, page = BuildRangePage(buffer, request, snap)
  PROVE  /\ Ascending(page.metrics)
         /\ \A s \in Range(page.metrics) :
               InRange(s, request, snap) /\ FollowsCursor(s, request)
         /\ \/ /\ page.next_page_token = None
               /\ \A s \in Range(buffer) :
                     InRange(s, request, snap) /\ FollowsCursor(s, request)
                     => s \in Range(page.metrics)
            \/ /\ IsFull(page, PageSize(request), snap)
               /\ \A s \in Range(buffer) :
                     InRange(s, request, snap) /\ FollowsCursor(s, request)
                     => \/ s \in Range(page.metrics)
                        \/ Older(page.metrics[PageSize(request)], s)
<1> DEFINE range == SnapshotRange(buffer, request, snap)
           rest  == Remaining(range, request)
           size  == PageSize(request)
<1>1. /\ Ascending(range)
      /\ \A s : s \in Range(range) <=> s \in Range(buffer) /\ InRange(s, request, snap)
  BY SelectAscending DEF SnapshotRange
<1> HIDE DEF range
<1>2. /\ Ascending(rest)
      /\ \A s : s \in Range(rest) <=> s \in Range(range) /\ FollowsCursor(s, request)
  BY <1>1, SelectAscending DEF Remaining, FollowsCursor
<1>3. /\ page.metrics = IF Len(rest) > size THEN SubSeq(rest, 1, size) ELSE rest
      /\ page.next_page_token = IF Len(rest) > size THEN EncodePageToken(rest[size], snap)
                                                    ELSE None
  BY DEF BuildRangePage, range
<1> HIDE DEF rest, size
<1>4. CASE ~(Len(rest) > size)
  BY <1>1, <1>2, <1>3, <1>4
<1>5. CASE Len(rest) > size
  <2>1. size \in Nat \ {0}
    BY DEF size
  <2>2. page.metrics = SubSeq(rest, 1, size) /\ page.next_page_token = EncodePageToken(rest[size], snap)
    BY <1>3, <1>5
  <2>3. /\ Ascending(page.metrics)
        /\ Len(page.metrics) = size
        /\ page.metrics[size] = rest[size]
        /\ Range(page.metrics) \subseteq Range(rest)
        /\ \A s \in Range(rest) : s \in Range(page.metrics) \/ Older(rest[size], s)
    BY <1>2, <1>5, <2>1, <2>2, PrefixAscending
  <2>4. IsFull(page, size, snap)
    BY <2>2, <2>3 DEF IsFull
  <2> QED BY <1>1, <1>2, <2>3, <2>4 DEF size
<1> QED BY <1>4, <1>5

-----------------------------------------------------------------------------
(* The session.                                                            *)

Size == PageSize(Request)

PagesTyped ==
  /\ pages \in Seq(Range(pages))
  /\ \A p \in DOMAIN pages : Ascending(pages[p].metrics)

\* Every page but the one that ends the session is full and leads to the next.
PagesLinked ==
  \A p \in DOMAIN pages :
     \/ p = Len(pages) /\ status = "done" /\ pages[p].next_page_token = None
     \/ (p = Len(pages) => status = "open") /\ IsFull(pages[p], Size, snapshot)

\* NothingSkipped, of published buffers instead of unlocked ones.
NothingLeftBehind ==
  pages # <<>> =>
    \A n \in Names : \A s \in Range(PublishedBuffer(n)) :
       /\ InSnapshot(s)
       /\ status = "done" \/ ~IsAfterCursor(s, NextToken)
       => s \in Returned

SnapshotInv ==
  /\ status \in {"open", "done"}
  /\ snapshot \in Nat /\ snapshot <= LastId
  /\ pages = <<>> => status = "open"

SessionInv ==
  /\ SnapshotInv
  /\ PagesTyped
  /\ PagesLinked
  /\ PagesWithinSnapshot
  /\ PagesOrdered
  /\ NothingLeftBehind

\* The request for the next page differs from the first one in its token only.
LEMMA NextRequestFields ==
  /\ NextRequest.page_token = NextToken
  /\ NextRequest.metric_name = Request.metric_name
  /\ NextRequest.from_ms = Request.from_ms
  /\ NextRequest.to_ms = Request.to_ms
  /\ NextRequest.tags_filter = Request.tags_filter
  /\ NextRequest.client_id = Request.client_id
  /\ NextRequest.page_size = Request.page_size
  /\ PageSize(NextRequest) = Size
  /\ Size \in Nat \ {0}
BY RequestAssumption, PageSizeAssumption DEF NextRequest, PageSize, Size

\* The store's own range test is the session's idea of a snapshot, as long as
\* event IDs start at one.
LEMMA InRangeIsInSnapshot ==
  ASSUME NEW s \in StoredMetric, NEW snap \in Nat
  PROVE  InRange(s, NextRequest, snap) <=>
           /\ s.event_id \in 1..snap
           /\ MatchesFilters(s, Request)
           /\ s.timestamp_ms \in Request.from_ms..Request.to_ms
<1>1. MatchesFilters(s, NextRequest) <=> MatchesFilters(s, Request)
  BY NextRequestFields DEF MatchesFilters
<1>2. s.event_id \in Nat \ {0} /\ s.timestamp_ms \in Int
  BY DEF StoredMetric
<1> QED BY <1>1, <1>2, NextRequestFields, RequestAssumption DEF InRange

\* The token is the position of the last sample in the order of the samples.
LEMMA CursorIsLastSample ==
  ASSUME NEW s, NEW last, NEW snap
  PROVE  IsAfterCursor(s, EncodePageToken(last, snap)) <=> Older(last, s)
<1>1. /\ EncodePageToken(last, snap).timestamp_ms = last.timestamp_ms
      /\ EncodePageToken(last, snap).event_id = last.event_id
  BY DEF EncodePageToken
<1> QED BY <1>1 DEF IsAfterCursor, Older

\* While a session is open, its token is the cursor of the last sample returned,
\* which belongs to the snapshot.
LEMMA OpenToken ==
  ASSUME SessionInv, status = "open", pages # <<>>
  PROVE  /\ Len(pages) \in DOMAIN pages /\ Len(pages) \in Nat
         /\ NextToken = EncodePageToken(pages[Len(pages)].metrics[Size], snapshot)
         /\ Size \in DOMAIN pages[Len(pages)].metrics
         /\ Size = Len(pages[Len(pages)].metrics)
         /\ pages[Len(pages)].metrics[Size] \in StoredMetric
         /\ pages[Len(pages)].metrics[Size] \in Returned
         /\ NextToken \in PageToken /\ NextToken # None
         /\ NextToken.snapshot_event_id = snapshot
         /\ Decodes(NextToken)
<1> DEFINE L == Len(pages)
           m == pages[L].metrics
<1>1. L \in Nat /\ DOMAIN pages = 1..L /\ L # 0
  BY LenProperties, EmptySeq DEF SessionInv, PagesTyped
<1>2. L \in DOMAIN pages
  BY <1>1
<1>3. IsFull(pages[L], Size, snapshot)
  BY <1>2 DEF SessionInv, PagesLinked
<1>4. NextToken = pages[L].next_page_token
  BY DEF NextToken, Last
<1>5. m \in Seq(StoredMetric) /\ Len(m) = Size
  BY <1>2, <1>3 DEF SessionInv, PagesTyped, Ascending, IsFull
<1>6. Size \in DOMAIN m /\ m[Size] \in StoredMetric
  BY <1>5, NextRequestFields, LenProperties, ElementOfSeq
<1>7. m[Size] \in Returned
  BY <1>2, <1>6 DEF Returned, Range
<1>8. InSnapshot(m[Size])
  BY <1>7 DEF SessionInv, PagesWithinSnapshot
<1>9. NextToken = EncodePageToken(m[Size], snapshot)
  BY <1>3, <1>4 DEF IsFull
<1> HIDE DEF m
<1>10. /\ snapshot \in Nat /\ m[Size].timestamp_ms \in Int /\ m[Size].event_id \in Nat
       /\ 0 < m[Size].event_id /\ m[Size].event_id <= snapshot
  BY <1>6, <1>8 DEF SessionInv, SnapshotInv, StoredMetric, InSnapshot
<1>11. /\ NextToken \in PageToken
       /\ NextToken.snapshot_event_id = snapshot
       /\ Decodes(NextToken)
  BY <1>9, <1>10 DEF EncodePageToken, PageToken, Decodes
<1> QED BY <1>1, <1>2, <1>5, <1>6, <1>7, <1>9, <1>11, ValueAssumption DEF m

\* The store refuses no request of the session: neither is the token malformed,
\* nor can its snapshot be ahead of the event IDs in use.
LEMMA FetchIsAccepted ==
  ASSUME IInv, SessionInv, status = "open", mutex = None
  PROVE  /\ ~RefusesRange(NextRequest)
         /\ Snapshot(NextRequest) = IF pages = <<>> THEN current_event_id ELSE snapshot
         /\ Snapshot(NextRequest) \in Nat
         /\ Snapshot(NextRequest) <= current_event_id
         /\ LastId = current_event_id
         /\ \A n \in Names : PublishedBuffer(n) = metric_buffers[n]
<1>2. LastId = current_event_id /\ \A n \in Names : PublishedBuffer(n) = metric_buffers[n]
  BY UnlockedIsPublished
<1>3. current_event_id \in Nat /\ snapshot \in Nat /\ snapshot <= current_event_id
  BY <1>2, InMemoryAssumption DEF IInv, TypeOK, SessionInv, SnapshotInv
<1>4. ValidRange(NextRequest) <=> (NextToken # None => Decodes(NextToken))
  BY NextRequestFields, RequestAssumption DEF ValidRange, ValidFilters
<1>5. CASE pages = <<>>
  <2>1. NextToken = None
    BY <1>5 DEF NextToken
  <2> QED BY <2>1, <1>2, <1>3, <1>4, <1>5, NextRequestFields DEF Snapshot, RefusesRange
<1>6. CASE pages # <<>>
  BY <1>2, <1>3, <1>4, <1>6, OpenToken, NextRequestFields DEF Snapshot, RefusesRange
<1> QED BY <1>5, <1>6

\* What one call of query_range() adds to the session.
LEMMA FetchedPage ==
  ASSUME IInv, SessionInv, FetchPage
  PROVE  \E page :
           /\ pages' = Append(pages, page)
           /\ snapshot' = IF pages = <<>> THEN current_event_id ELSE snapshot
           /\ snapshot' \in Nat /\ snapshot' <= LastId
           /\ Ascending(page.metrics)
           /\ \A s \in Range(page.metrics) :
                 InSnapshot(s)' /\ (pages # <<>> => IsAfterCursor(s, NextToken))
           /\ \/ /\ page.next_page_token = None /\ status' = "done"
                 /\ \A n \in Names : \A s \in Range(PublishedBuffer(n)) :
                       InSnapshot(s)' /\ (pages # <<>> => IsAfterCursor(s, NextToken))
                       => s \in Range(page.metrics)
              \/ /\ IsFull(page, Size, snapshot') /\ status' = "open"
                 /\ \A n \in Names : \A s \in Range(PublishedBuffer(n)) :
                       InSnapshot(s)' /\ (pages # <<>> => IsAfterCursor(s, NextToken))
                       => \/ s \in Range(page.metrics)
                          \/ Older(page.metrics[Size], s)
<1> DEFINE snap == IF pages = <<>> THEN current_event_id ELSE snapshot
           buffer == Buffer(NextRequest)
<1>1. /\ ~RefusesRange(NextRequest) /\ Snapshot(NextRequest) = snap
      /\ snap \in Nat /\ snap <= LastId
      /\ \A n \in Names : PublishedBuffer(n) = metric_buffers[n]
  BY FetchIsAccepted DEF FetchPage
<1>2. PICK page : page = BuildRangePage(buffer, NextRequest, snap)
  OBVIOUS
<1>3. /\ pages' = Append(pages, page)
      /\ status' = IF page.next_page_token = None THEN "done" ELSE "open"
      /\ snapshot' = snap
  BY <1>1, <1>2 DEF FetchPage, QueryRange
<1>4. Ascending(buffer) /\ \A n \in Names : \A s \in Range(PublishedBuffer(n)) :
         s \in StoredMetric /\ s.name = n
  <2>1. ASSUME NEW n \in Names
        PROVE  /\ Ascending(PublishedBuffer(n))
               /\ \A s \in Range(PublishedBuffer(n)) : s \in StoredMetric /\ s.name = n
    <3>1. SortedBuffer(PublishedBuffer(n), n)
      BY PublishedKeeps
    <3>2. \A i \in DOMAIN PublishedBuffer(n) : PublishedBuffer(n)[i] \in StoredMetric
      BY <3>1, ElementOfSeq, LenProperties DEF SortedBuffer
    <3> QED BY <3>1, <3>2 DEF SortedBuffer, Ascending, Range
  <2>2. Ascending(<<>>)
    BY EmptySeq DEF Ascending
  <2> QED BY <1>1, <2>1, <2>2 DEF Buffer
<1>5. \A s \in StoredMetric : InRange(s, NextRequest, snap) <=> InSnapshot(s)'
  BY <1>1, <1>3, InRangeIsInSnapshot DEF InSnapshot
<1>6. \A s : FollowsCursor(s, NextRequest) <=> (pages # <<>> => IsAfterCursor(s, NextToken))
  <2>1. pages = <<>> => NextToken = None
    BY DEF NextToken
  <2>2. pages # <<>> => NextToken # None
    BY OpenToken DEF FetchPage
  <2> QED BY <2>1, <2>2, NextRequestFields DEF FollowsCursor
<1>7. \A n \in Names : \A s \in Range(PublishedBuffer(n)) :
         InSnapshot(s)' => s \in Range(buffer)
  <2> SUFFICES ASSUME NEW n \in Names, NEW s \in Range(PublishedBuffer(n)), InSnapshot(s)'
               PROVE  s \in Range(buffer)
    OBVIOUS
  <2>1. s.name = Request.metric_name
    BY DEF InSnapshot, MatchesFilters
  <2>2. buffer = PublishedBuffer(n)
    BY <1>1, <1>4, <2>1, NextRequestFields DEF Buffer
  <2> QED BY <2>2
<1> HIDE DEF buffer, snap
<1>8. /\ Ascending(page.metrics)
      /\ \A s \in Range(page.metrics) :
            InRange(s, NextRequest, snap) /\ FollowsCursor(s, NextRequest)
      /\ \/ /\ page.next_page_token = None
            /\ \A s \in Range(buffer) :
                  InRange(s, NextRequest, snap) /\ FollowsCursor(s, NextRequest)
                  => s \in Range(page.metrics)
         \/ /\ IsFull(page, Size, snap)
            /\ \A s \in Range(buffer) :
                  InRange(s, NextRequest, snap) /\ FollowsCursor(s, NextRequest)
                  => \/ s \in Range(page.metrics)
                     \/ Older(page.metrics[Size], s)
  <2>1. PageSize(NextRequest) = Size /\ Size \in Nat \ {0}
    BY NextRequestFields
  <2> QED BY <1>2, <1>4, <2>1, PageProperties
<1>9. \A s \in Range(page.metrics) : s \in StoredMetric
  BY <1>8, ElementOfSeq, LenProperties DEF Ascending, Range
<1>10. ASSUME IsFull(page, Size, snap)
       PROVE  page.next_page_token # None
  <2>1. Size \in DOMAIN page.metrics
    BY <1>8, <1>10, NextRequestFields, LenProperties DEF IsFull, Ascending
  <2>2. page.metrics[Size] \in StoredMetric
    BY <1>9, <2>1 DEF Range
  <2>3. page.next_page_token \in PageToken
    BY <1>1, <1>10, <2>2 DEF IsFull, EncodePageToken, PageToken, StoredMetric
  <2> QED BY <2>3, ValueAssumption
<1>11. \A s \in Range(page.metrics) :
          InSnapshot(s)' /\ (pages # <<>> => IsAfterCursor(s, NextToken))
  BY <1>5, <1>6, <1>8, <1>9
<1>12. snapshot' = IF pages = <<>> THEN current_event_id ELSE snapshot
  BY <1>3 DEF snap
<1>13. CASE /\ page.next_page_token = None
            /\ \A s \in Range(buffer) :
                  InRange(s, NextRequest, snap) /\ FollowsCursor(s, NextRequest)
                  => s \in Range(page.metrics)
  BY <1>1, <1>3, <1>4, <1>5, <1>6, <1>7, <1>8, <1>11, <1>12, <1>13
<1>14. CASE /\ IsFull(page, Size, snap)
            /\ \A s \in Range(buffer) :
                  InRange(s, NextRequest, snap) /\ FollowsCursor(s, NextRequest)
                  => \/ s \in Range(page.metrics)
                     \/ Older(page.metrics[Size], s)
  BY <1>1, <1>3, <1>4, <1>5, <1>6, <1>7, <1>8, <1>10, <1>11, <1>12, <1>14
<1> QED BY <1>8, <1>13, <1>14

\* The last sample of an open session is the newest one returned.
LEMMA LastIsNewest ==
  ASSUME SessionInv, status = "open", pages # <<>>, NEW s \in Returned
  PROVE  LET last == pages[Len(pages)].metrics[Size]
         IN  s \in StoredMetric /\ (s = last \/ Older(s, last))
<1> DEFINE L == Len(pages)
<1>1. PICK p \in DOMAIN pages : s \in Range(pages[p].metrics)
  BY DEF Returned
<1>2. PICK i \in DOMAIN pages[p].metrics : s = pages[p].metrics[i]
  BY <1>1 DEF Range
<1>3. /\ L \in DOMAIN pages /\ DOMAIN pages = 1..L /\ L \in Nat
      /\ Size \in DOMAIN pages[L].metrics /\ Size = Len(pages[L].metrics)
  BY OpenToken, LenProperties DEF SessionInv, PagesTyped
<1>4. s \in StoredMetric
  BY <1>2, ElementOfSeq, LenProperties DEF SessionInv, PagesTyped, Ascending
<1>5. CASE p < L
  BY <1>2, <1>3, <1>4, <1>5 DEF SessionInv, PagesOrdered
<1>6. CASE p = L
  <2>1. i \in 1..Size
    BY <1>2, <1>3, <1>6, LenProperties DEF SessionInv, PagesTyped, Ascending
  <2>2. i < Size \/ i = Size
    BY <2>1, NextRequestFields
  <2> QED BY <1>2, <1>3, <1>4, <1>6, <2>2 DEF SessionInv, PagesOrdered
<1>7. p < L \/ p = L
  BY <1>3
<1> QED BY <1>5, <1>6, <1>7

\* The pages of a session after one more response.
LEMMA PageAppended ==
  ASSUME PagesTyped, NEW page, pages' = Append(pages, page)
  PROVE  LET L == Len(pages)
         IN  /\ L \in Nat /\ DOMAIN pages = 1..L /\ (pages = <<>> <=> L = 0)
             /\ pages' \in Seq(Range(pages) \cup {page})
             /\ Len(pages') = L + 1
             /\ \A p \in 1..L : pages'[p] = pages[p]
             /\ pages'[L + 1] = page
             /\ DOMAIN pages' = 1..(L + 1)
<1> DEFINE L == Len(pages)
<1>1. L \in Nat /\ DOMAIN pages = 1..L /\ (pages = <<>> <=> L = 0)
  BY LenProperties, EmptySeq DEF PagesTyped
<1>2. /\ pages' \in Seq(Range(pages) \cup {page})
      /\ Len(pages') = L + 1
      /\ \A p \in 1..L : pages'[p] = pages[p]
      /\ pages'[L + 1] = page
  <2> DEFINE S == Range(pages) \cup {page}
  <2>1. pages \in Seq(S)
    <3>1. \A p \in 1..L : pages[p] \in S
      BY <1>1 DEF Range
    <3>2. pages = [p \in 1..L |-> pages[p]]
      BY <1>1, LenProperties DEF PagesTyped
    <3> HIDE DEF S
    <3> QED BY <1>1, <3>1, <3>2
  <2>2. page \in S
    OBVIOUS
  <2> HIDE DEF S
  <2>3. Append(pages, page) \in Seq(S)
    BY <2>1, <2>2, AppendProperties
  <2> QED BY <2>1, <2>2, <2>3, AppendProperties DEF S
<1>3. DOMAIN pages' = 1..(L + 1)
  BY <1>2, LenProperties
<1> QED BY <1>1, <1>2, <1>3

\* A page more keeps the session ordered, confined and complete.
LEMMA FetchKeepsInv ==
  ASSUME IInv, SessionInv, FetchPage
  PROVE  SessionInv'
<1> DEFINE L == Len(pages)
           last == pages[L].metrics[Size]
<1>1. PICK page :
           /\ pages' = Append(pages, page)
           /\ snapshot' = IF pages = <<>> THEN current_event_id ELSE snapshot
           /\ snapshot' \in Nat /\ snapshot' <= LastId
           /\ Ascending(page.metrics)
           /\ \A s \in Range(page.metrics) :
                 InSnapshot(s)' /\ (pages # <<>> => IsAfterCursor(s, NextToken))
           /\ \/ /\ page.next_page_token = None /\ status' = "done"
                 /\ \A n \in Names : \A s \in Range(PublishedBuffer(n)) :
                       InSnapshot(s)' /\ (pages # <<>> => IsAfterCursor(s, NextToken))
                       => s \in Range(page.metrics)
              \/ /\ IsFull(page, Size, snapshot') /\ status' = "open"
                 /\ \A n \in Names : \A s \in Range(PublishedBuffer(n)) :
                       InSnapshot(s)' /\ (pages # <<>> => IsAfterCursor(s, NextToken))
                       => \/ s \in Range(page.metrics)
                          \/ Older(page.metrics[Size], s)
  BY FetchedPage
<1>2. status = "open" /\ UNCHANGED vars
  BY DEF FetchPage
<1>3. LastId' = LastId /\ \A n \in Names : PublishedBuffer(n)' = PublishedBuffer(n)
  BY <1>2 DEF vars, store, locals, LastId, Publishing, PublishedBuffer
<1>4. /\ L \in Nat /\ DOMAIN pages = 1..L /\ (pages = <<>> <=> L = 0)
      /\ pages' \in Seq(Range(pages) \cup {page})
      /\ Len(pages') = L + 1
      /\ \A p \in 1..L : pages'[p] = pages[p]
      /\ pages'[L + 1] = page
      /\ DOMAIN pages' = 1..(L + 1)
  BY <1>1, PageAppended DEF SessionInv
<1>5. Range(pages') = Range(pages) \cup {page}
  BY <1>4 DEF Range
<1>6. \A p \in DOMAIN pages' : p \in DOMAIN pages \/ p = L + 1
  BY <1>4
<1>7. \A p \in DOMAIN pages : p # L + 1 /\ p < L + 1 /\ p \in DOMAIN pages' /\ pages'[p] = pages[p]
  BY <1>4
<1>8. L + 1 \in DOMAIN pages'
  BY <1>4
<1>9. \A s : s \in Returned' <=> s \in Returned \/ s \in Range(page.metrics)
  <2>1. \A s : s \in Returned' <=> \E p \in DOMAIN pages' : s \in Range(pages'[p].metrics)
    BY DEF Returned, Range
  <2>2. \A s : s \in Returned <=> \E p \in DOMAIN pages : s \in Range(pages[p].metrics)
    BY DEF Returned
  <2> QED BY <2>1, <2>2, <1>4, <1>6, <1>7, <1>8
<1>10. PagesTyped'
  <2>1. \A p \in DOMAIN pages' : Ascending(pages'[p].metrics)
    BY <1>1, <1>4, <1>6, <1>7 DEF SessionInv, PagesTyped
  <2>2. Range(pages)' = Range(pages')
    BY DEF Range
  <2>3. \A p \in DOMAIN pages' : Ascending(pages[p].metrics)'
    BY <2>1 DEF Ascending
  <2> QED BY <1>4, <1>5, <2>2, <2>3 DEF PagesTyped, Ascending
<1>11. pages # <<>> => snapshot' = snapshot
  BY <1>1
<1>12. PagesLinked'
  <2>1. ASSUME NEW p \in DOMAIN pages
        PROVE  IsFull(pages'[p], Size, snapshot')
    <3>1. pages # <<>>
      BY <1>4
    <3>2. IsFull(pages[p], Size, snapshot)
      BY <1>2 DEF SessionInv, PagesLinked
    <3> QED BY <3>1, <3>2, <1>11, <1>7
  <2>2. \/ status' = "done" /\ page.next_page_token = None
        \/ status' = "open" /\ IsFull(page, Size, snapshot')
    BY <1>1
  <2>3. \A p \in DOMAIN pages' :
           \/ p = Len(pages') /\ status' = "done" /\ pages'[p].next_page_token = None
           \/ (p = Len(pages') => status' = "open") /\ IsFull(pages'[p], Size, snapshot')
    BY <2>1, <2>2, <1>4, <1>6, <1>7
  <2> QED BY <2>3 DEF PagesLinked, IsFull, Size
<1>13. PagesWithinSnapshot'
  <2>1. ASSUME NEW s \in Returned PROVE InSnapshot(s)'
    <3>1. InSnapshot(s)
      BY DEF SessionInv, PagesWithinSnapshot
    <3>2. pages # <<>>
      BY <1>4 DEF Returned
    <3> QED BY <3>1, <3>2, <1>11 DEF InSnapshot
  <2>2. \A s \in Returned' : InSnapshot(s)'
    BY <2>1, <1>1, <1>9
  <2> QED BY <2>2 DEF PagesWithinSnapshot, InSnapshot
<1>14. ASSUME NEW s \in Returned, NEW t \in Range(page.metrics)
       PROVE  Older(s, t)
  <2>1. pages # <<>>
    BY <1>4 DEF Returned
  <2>2. Older(last, t)
    BY <1>1, <1>2, <2>1, OpenToken, CursorIsLastSample
  <2>3. s \in StoredMetric /\ last \in StoredMetric /\ (s = last \/ Older(s, last))
    BY <1>2, <2>1, OpenToken, LastIsNewest
  <2>4. t \in StoredMetric
    BY <1>1, ElementOfSeq, LenProperties DEF Ascending, Range
  <2> QED BY <2>2, <2>3, <2>4, OlderTransitive
<1>15. PagesOrdered'
  <2> SUFFICES ASSUME NEW p \in DOMAIN pages', NEW q \in DOMAIN pages',
                      NEW i \in DOMAIN pages'[p].metrics, NEW j \in DOMAIN pages'[q].metrics,
                      p < q \/ (p = q /\ i < j)
               PROVE  Older(pages'[p].metrics[i], pages'[q].metrics[j])
    BY DEF PagesOrdered, Older
  <2>1. CASE q \in DOMAIN pages
    <3>1. p \in DOMAIN pages
      BY <2>1, <1>4
    <3> QED BY <3>1, <2>1, <1>7 DEF SessionInv, PagesOrdered
  <2>2. CASE q = L + 1 /\ p \in DOMAIN pages
    <3>1. pages'[p].metrics[i] \in Returned
      BY <2>2, <1>7 DEF Returned, Range
    <3>2. pages'[q].metrics[j] \in Range(page.metrics)
      BY <2>2, <1>4 DEF Range
    <3> QED BY <3>1, <3>2, <1>14
  <2>3. CASE q = L + 1 /\ p = L + 1
    <3>1. i < j
      BY <2>3, <1>4
    <3> QED BY <2>3, <3>1, <1>1, <1>4 DEF Ascending
  <2> QED BY <2>1, <2>2, <2>3, <1>6
<1>16. NothingLeftBehind'
  <2> SUFFICES ASSUME NEW n \in Names, NEW s \in Range(PublishedBuffer(n)), InSnapshot(s)',
                      status' = "done" \/ ~IsAfterCursor(s, NextToken')
               PROVE  s \in Returned \/ s \in Range(page.metrics)
    BY <1>3, <1>9 DEF NothingLeftBehind, Range, IsAfterCursor
  <2>1. CASE pages # <<>> /\ ~IsAfterCursor(s, NextToken)
    <3>1. InSnapshot(s)
      BY <2>1, <1>11 DEF InSnapshot
    <3> QED BY <2>1, <3>1 DEF SessionInv, NothingLeftBehind
  <2>2. CASE pages # <<>> => IsAfterCursor(s, NextToken)
    <3>1. CASE status' = "done"
      <4>1. ~(status' = "open")
        BY <3>1
      <4> QED BY <2>2, <4>1, <1>1
    <3>2. CASE status' = "open"
      <4>1. /\ ~(status' = "done")
            /\ IsFull(page, Size, snapshot')
            /\ s \in Range(page.metrics) \/ Older(page.metrics[Size], s)
        BY <2>2, <3>2, <1>1
      <4>2. NextToken' = pages'[L + 1].next_page_token
        <5>1. pages' # <<>>
          BY <1>8
        <5> QED BY <5>1, <1>4 DEF NextToken, Last
      <4>3. NextToken' = EncodePageToken(page.metrics[Size], snapshot')
        BY <4>1, <4>2, <1>4 DEF IsFull
      <4>4. ~Older(page.metrics[Size], s)
        BY <4>1, <4>3, CursorIsLastSample
      <4> QED BY <4>1, <4>4
    <3> QED BY <3>1, <3>2, <1>1
  <2> QED BY <2>1, <2>2
<1>17. SnapshotInv'
  <2>1. pages' # <<>>
    BY <1>8
  <2> QED BY <2>1, <1>1, <1>3 DEF SnapshotInv
<1> QED BY <1>10, <1>12, <1>13, <1>15, <1>16, <1>17 DEF SessionInv

\* A step of the store, between two pages.
LEMMA StoreStepKeepsInv ==
  ASSUME IInv, IInv', SessionInv, [Next]_vars, UNCHANGED session
  PROVE  SessionInv'
<1>1. UNCHANGED <<pages, status, snapshot>>
  BY DEF session
<1>2. SnapshotInv'
  BY <1>1, LastIdGrows DEF SessionInv, SnapshotInv
<1>3. PagesTyped' /\ PagesLinked' /\ PagesWithinSnapshot' /\ PagesOrdered'
  BY <1>1 DEF SessionInv, PagesTyped, PagesLinked, PagesWithinSnapshot, PagesOrdered,
              Returned, InSnapshot
<1>4. NothingLeftBehind'
  <2> SUFFICES ASSUME pages # <<>>, NEW n \in Names, NEW s \in Range(PublishedBuffer(n)'),
                      InSnapshot(s), status = "done" \/ ~IsAfterCursor(s, NextToken)
               PROVE  s \in Returned
    BY <1>1 DEF NothingLeftBehind, Returned, InSnapshot, NextToken, Range
  <2>1. s.event_id \in 1..snapshot /\ snapshot <= LastId /\ snapshot \in Nat /\ LastId \in Nat
    BY LastIdGrows DEF InSnapshot, SessionInv, SnapshotInv
  <2>2. s \in Range(PublishedBuffer(n))
    BY <2>1, PublishedShrinks
  <2> QED BY <2>2 DEF SessionInv, NothingLeftBehind
<1> QED BY <1>2, <1>3, <1>4 DEF SessionInv

\* The invariant of store and session holds in every reachable state.
LEMMA SessionInvHolds == PSpec => [](IInv /\ SessionInv)
<1>1. PInit => IInv /\ SessionInv
  <2> SUFFICES ASSUME PInit PROVE SessionInv
    BY InitIInv DEF PInit
  <2>1. pages = <<>> /\ status = "open" /\ snapshot = 0
    BY DEF PInit
  <2>2. DOMAIN pages = {} /\ pages \in Seq(Range(pages))
    BY <2>1, EmptySeq
  <2>3. LastId = 0
    BY DEF PInit, Init, LastId
  <2>4. Returned = {}
    BY <2>2 DEF Returned
  <2> QED BY <2>1, <2>2, <2>3, <2>4
      DEF SessionInv, SnapshotInv, PagesTyped, PagesLinked, PagesWithinSnapshot,
          PagesOrdered, NothingLeftBehind
<1>2. IInv /\ SessionInv /\ [PNext]_<<vars, session>> => (IInv /\ SessionInv)'
  <2> SUFFICES ASSUME IInv, SessionInv, [PNext]_<<vars, session>> PROVE IInv' /\ SessionInv'
    OBVIOUS
  <2>1. CASE UNCHANGED session /\ [Next]_vars
    BY <2>1, NextIInv, StoreStepKeepsInv
  <2>2. CASE FetchPage
    <3>1. UNCHANGED vars
      BY <2>2 DEF FetchPage
    <3> QED BY <2>2, <3>1, NextIInv, FetchKeepsInv
  <2> QED BY <2>1, <2>2 DEF PNext
<1> QED BY <1>1, <1>2, PTL DEF PSpec

-----------------------------------------------------------------------------
\* Over all pages a sample appears once and in timestamp order, whatever writers
\* insert or evict between the calls of query_range().
THEOREM PagesStayOrdered == PSpec => []PagesOrdered
<1>1. IInv /\ SessionInv => PagesOrdered
  BY DEF SessionInv
<1> QED BY <1>1, SessionInvHolds, PTL

\* No page shows a sample committed after the first page, or one the request
\* excludes.
THEOREM PagesStayInSnapshot == PSpec => []PagesWithinSnapshot
<1>1. IInv /\ SessionInv => PagesWithinSnapshot
  BY DEF SessionInv
<1> QED BY <1>1, SessionInvHolds, PTL

\* What the snapshot holds and the store still has is returned: the cursor jumps
\* over nothing, although samples move and go while it rests.
THEOREM PaginationIsComplete == PSpec => []NothingSkipped
<1>1. IInv /\ SessionInv => NothingSkipped
  <2> SUFFICES ASSUME IInv, SessionInv, mutex = None, pages # <<>>,
                      NEW n \in Names, NEW s \in Retained(n), InSnapshot(s),
                      status = "done" \/ (NextToken # None /\ ~IsAfterCursor(s, NextToken))
               PROVE  s \in Returned
    BY DEF NothingSkipped
  <2>2. s \in Range(PublishedBuffer(n))
    BY UnlockedIsPublished
  <2> QED BY <2>2 DEF SessionInv, NothingLeftBehind
<1> QED BY <1>1, SessionInvHolds, PTL

\* The store accepts every token it issued, and announces another page only on a
\* full one.
THEOREM TokensAreAccepted == PSpec => []SessionProgresses
<1>1. IInv /\ SessionInv => SessionProgresses
  <2> SUFFICES ASSUME SessionInv, NEW p \in DOMAIN pages, pages[p].next_page_token # None
               PROVE  Len(pages[p].metrics) = Size
    BY DEF SessionProgresses, SessionInv, SnapshotInv, Size
  <2> QED BY DEF SessionInv, PagesLinked, IsFull
<1> QED BY <1>1, SessionInvHolds, PTL

\* The scan of query_latest() over one bounded buffer finds the newest sample
\* ever committed under the filter, if it finds any.
THEOREM LatestStaysNewest == PSpec => []LatestIsNewest
<1>1. IInv => LatestIsNewest
  <2> SUFFICES ASSUME IInv, mutex = None, QueryLatest(Request) # None,
                      NEW s \in CommittedSamples, MatchesFilters(s, Request),
                      Older(QueryLatest(Request), s)
               PROVE  FALSE
    BY DEF LatestIsNewest
  <2> DEFINE n       == Request.metric_name
             buffer  == Buffer(Request)
             matches == Matches(Request)
             latest  == QueryLatest(Request)
  <2>1. s \in StoredMetric /\ s.name = n
    BY CommittedTyped DEF MatchesFilters
  <2>2. n \in Names
    BY <2>1 DEF StoredMetric
  <2>3. buffer = PublishedBuffer(n)
    BY <2>2, UnlockedIsPublished DEF Buffer
  <2>4. SortedBuffer(buffer, n) /\ Keeps(buffer, n, CommittedSamples)
    BY <2>2, <2>3, PublishedKeeps
  <2>5. matches # <<>> /\ latest = matches[Len(matches)]
    BY DEF QueryLatest, Last
  <2>6. Ascending(buffer)
    BY <2>4 DEF SortedBuffer, Ascending
  <2> HIDE DEF buffer, latest
  <2>7. /\ Ascending(matches)
        /\ \A t : t \in Range(matches) <=> t \in Range(buffer) /\ MatchesFilters(t, Request)
    BY <2>6, SelectAscending DEF Matches, buffer
  <2> HIDE DEF matches
  <2>8. /\ Len(matches) \in Nat /\ DOMAIN matches = 1..Len(matches) /\ Len(matches) # 0
        /\ \A i \in DOMAIN matches : matches[i] \in StoredMetric
    BY <2>5, <2>7, LenProperties, ElementOfSeq, EmptySeq DEF Ascending
  <2>9. Len(matches) \in DOMAIN matches /\ latest \in StoredMetric /\ latest \in Range(matches)
    BY <2>5, <2>8 DEF Range
  <2>10. Older(latest, s)
    BY DEF latest
  <2>11. CASE \E i \in DOMAIN buffer : buffer[i] = s
    <3>1. s \in Range(matches)
      BY <2>7, <2>11 DEF Range
    <3>2. PICK i \in DOMAIN matches : matches[i] = s
      BY <3>1 DEF Range
    <3>3. i = Len(matches) \/ i < Len(matches)
      BY <2>8
    <3>4. s = latest \/ Older(s, latest)
      BY <2>5, <2>7, <2>9, <3>2, <3>3 DEF Ascending
    <3> QED BY <3>4, <2>1, <2>9, <2>10, OlderTransitive, OlderIrreflexive
  <2>12. CASE \A i \in DOMAIN buffer : Older(s, buffer[i])
    <3>1. Older(s, latest)
      BY <2>7, <2>9, <2>12 DEF Range
    <3> QED BY <3>1, <2>1, <2>9, <2>10, OlderTransitive, OlderIrreflexive
  <2> QED BY <2>1, <2>4, <2>11, <2>12 DEF Keeps
<1>2. PSpec => []IInv
  BY SessionInvHolds, PTL
<1> QED BY <1>1, <1>2, PTL

-----------------------------------------------------------------------------
(* The aggregates of the pages.                                            *)

StatsInv ==
  \A p \in DOMAIN pages :
     /\ AverageBetween(pages[p].stats)
     /\ \A n \in Names :
           Covers(pages[p].stats, {s \in Range(PublishedBuffer(n)) : InSnapshot(s)})

\* No value that reached a buffer is a NaN or infinite.
LEMMA ValuesAreFinite ==
  ASSUME IInv, NEW n \in Names, NEW s \in Range(PublishedBuffer(n))
  PROVE  s.value \in Int
<1>1. s \in CommittedSamples
  BY PublishedKeeps DEF Keeps, Range
<1>2. PICK c \in commits : s \in StoredBatch(c.batch, c.base)
  BY <1>1 DEF CommittedSamples
<1>3. c.batch \in Batches /\ IsValid(c.batch)
  BY DEF IInv, CommitInv
<1>4. PICK i \in DOMAIN c.batch.metrics : s.value = c.batch.metrics[i].value
  BY <1>2 DEF StoredBatch, Stored
<1>5. c.batch.metrics[i] \in Metrics(c.batch)
  BY DEF Metrics
<1>6. c.batch.metrics[i] \in AllMetrics
  BY <1>3, <1>5 DEF AllMetrics
<1> QED BY <1>3, <1>4, <1>5, <1>6, ValueAssumption DEF IsValid

\* The aggregates of a new page cover what the store has of the snapshot then.
LEMMA FetchedStats ==
  ASSUME IInv, SessionInv, FetchPage
  PROVE  \E page :
           /\ pages' = Append(pages, page)
           /\ AverageBetween(page.stats)
           /\ \A n \in Names :
                 Covers(page.stats, {s \in Range(PublishedBuffer(n)) : InSnapshot(s)'})
<1> DEFINE snap == IF pages = <<>> THEN current_event_id ELSE snapshot
           buffer == Buffer(NextRequest)
           range == SnapshotRange(buffer, NextRequest, snap)
<1>1. /\ ~RefusesRange(NextRequest) /\ Snapshot(NextRequest) = snap
      /\ snap \in Nat
      /\ \A n \in Names : PublishedBuffer(n) = metric_buffers[n]
  BY FetchIsAccepted DEF FetchPage
<1>2. PICK page : page = BuildRangePage(buffer, NextRequest, snap)
  OBVIOUS
<1>3. pages' = Append(pages, page) /\ snapshot' = snap
  BY <1>1, <1>2 DEF FetchPage, QueryRange
<1>4. page.stats = ComputeStats(range)
  BY <1>2 DEF BuildRangePage
<1>5. ASSUME NEW n \in Names
      PROVE  /\ PublishedBuffer(n) \in Seq(StoredMetric)
             /\ \A s \in Range(PublishedBuffer(n)) :
                   s \in StoredMetric /\ s.name = n /\ s.value \in Int
  <2>1. SortedBuffer(PublishedBuffer(n), n)
    BY PublishedKeeps
  <2>2. \A i \in DOMAIN PublishedBuffer(n) : PublishedBuffer(n)[i] \in StoredMetric
    BY <2>1, ElementOfSeq, LenProperties DEF SortedBuffer
  <2>3. \A s \in Range(PublishedBuffer(n)) : s \in StoredMetric /\ s.name = n
    BY <2>1, <2>2 DEF SortedBuffer, Range
  <2> QED BY <2>1, <2>3, ValuesAreFinite DEF SortedBuffer
<1>6. buffer \in Seq(StoredMetric) /\ \A s \in Range(buffer) : s.value \in Int
  <2>1. <<>> \in Seq(StoredMetric) /\ Range(<<>>) = {}
    BY EmptySeq DEF Range
  <2> QED BY <1>1, <1>5, <2>1 DEF Buffer
<1>7. ASSUME NEW n \in Names, NEW s \in Range(PublishedBuffer(n)), InSnapshot(s)'
      PROVE  s \in Range(buffer) /\ InRange(s, NextRequest, snap)
  <2>1. s \in StoredMetric /\ s.name = n
    BY <1>5
  <2>2. InRange(s, NextRequest, snap)
    BY <1>1, <1>3, <1>7, <2>1, InRangeIsInSnapshot DEF InSnapshot
  <2>3. s.name = Request.metric_name
    BY <1>7 DEF InSnapshot, MatchesFilters
  <2>4. buffer = PublishedBuffer(n)
    BY <1>1, <2>1, <2>3, NextRequestFields DEF Buffer
  <2> QED BY <2>2, <2>4
<1> HIDE DEF buffer, snap, range
<1>8. /\ range \in Seq(StoredMetric)
      /\ \A s : s \in Range(range) <=> s \in Range(buffer) /\ InRange(s, NextRequest, snap)
  BY <1>6, SelectProperties DEF range, SnapshotRange
<1>9. Covers(page.stats, Range(range)) /\ AverageBetween(page.stats)
  BY <1>4, <1>6, <1>8, StatsProperties
<1> QED BY <1>3, <1>7, <1>8, <1>9 DEF Covers

\* Pages keep their aggregates, and writers take from the snapshot only.
LEMMA StatsInvHolds == PSpec => []StatsInv
<1>1. PInit => StatsInv
  BY DEF PInit, StatsInv
<1>2. IInv /\ IInv' /\ SessionInv /\ StatsInv /\ [PNext]_<<vars, session>> => StatsInv'
  <2> SUFFICES ASSUME IInv, IInv', SessionInv, StatsInv, [PNext]_<<vars, session>>
               PROVE  StatsInv'
    OBVIOUS
  <2>1. CASE UNCHANGED session /\ [Next]_vars
    <3>1. UNCHANGED <<pages, status, snapshot>>
      BY <2>1 DEF session
    <3> SUFFICES ASSUME NEW p \in DOMAIN pages, NEW n \in Names,
                        NEW s \in Range(PublishedBuffer(n)'), InSnapshot(s)
                 PROVE  pages[p].stats.min <= s.value /\ s.value <= pages[p].stats.max
      BY <3>1 DEF StatsInv, Covers, AverageBetween, InSnapshot, Range
    <3>2. s.event_id \in 1..snapshot /\ snapshot <= LastId /\ snapshot \in Nat /\ LastId \in Nat
      BY LastIdGrows, <2>1 DEF InSnapshot, SessionInv, SnapshotInv
    <3>3. s \in Range(PublishedBuffer(n))
      BY <2>1, <3>2, PublishedShrinks
    <3> QED BY <3>3 DEF StatsInv, Covers
  <2>2. CASE FetchPage
    <3>1. PICK page :
             /\ pages' = Append(pages, page)
             /\ AverageBetween(page.stats)
             /\ \A n \in Names :
                   Covers(page.stats, {s \in Range(PublishedBuffer(n)) : InSnapshot(s)'})
      BY <2>2, FetchedStats
    <3>2. \A n \in Names : PublishedBuffer(n)' = PublishedBuffer(n)
      BY <2>2 DEF FetchPage, vars, store, locals, Publishing, PublishedBuffer
    <3>3. /\ DOMAIN pages = 1..Len(pages) /\ Len(pages) \in Nat
          /\ (pages = <<>> <=> Len(pages) = 0)
          /\ \A p \in 1..Len(pages) : pages'[p] = pages[p]
          /\ pages'[Len(pages) + 1] = page
          /\ DOMAIN pages' = 1..(Len(pages) + 1)
      BY <3>1, PageAppended DEF SessionInv
    <3>4. pages # <<>> => snapshot' = snapshot
      BY <2>2 DEF FetchPage
    <3> SUFFICES ASSUME NEW p \in DOMAIN pages'
                 PROVE  /\ AverageBetween(pages'[p].stats)
                        /\ \A n \in Names : \A s \in Range(PublishedBuffer(n)) :
                              InSnapshot(s)' => /\ pages'[p].stats.min <= s.value
                                                /\ s.value <= pages'[p].stats.max
      BY <3>2 DEF StatsInv, Covers, AverageBetween, InSnapshot, Range
    <3>5. CASE p = Len(pages) + 1
      BY <3>1, <3>3, <3>5 DEF Covers
    <3>6. CASE p # Len(pages) + 1
      <4>1. p \in DOMAIN pages /\ pages'[p] = pages[p] /\ pages # <<>>
        BY <3>3, <3>6
      <4>2. \A s : InSnapshot(s)' <=> InSnapshot(s)
        BY <3>4, <4>1 DEF InSnapshot
      <4> QED BY <4>1, <4>2 DEF StatsInv, Covers
    <3> QED BY <3>5, <3>6
  <2>3. PNext => FetchPage \/ (UNCHANGED session /\ [Next]_vars)
    BY DEF PNext
  <2> QED BY <2>1, <2>2, <2>3
<1>3. PSpec => [](IInv /\ SessionInv)
  BY SessionInvHolds
<1> QED BY <1>1, <1>2, <1>3, PTL DEF PSpec

\* Each page's min and max enclose every sample of the snapshot that the store
\* still has, now and later, and its average lies between them unless the sum
\* of the doubles overflowed.
THEOREM AggregatesStayCovering == PSpec => []AggregatesCoverSnapshot
<1>1. IInv /\ SessionInv /\ StatsInv => AggregatesCoverSnapshot
  <2> SUFFICES ASSUME IInv, StatsInv, mutex = None, NEW p \in DOMAIN pages
               PROVE  /\ AverageBetween(pages[p].stats)
                      /\ \A n \in Names : \A s \in Retained(n) :
                            InSnapshot(s) => /\ pages[p].stats.min <= s.value
                                             /\ s.value <= pages[p].stats.max
    BY DEF AggregatesCoverSnapshot, AverageBetween
  <2>2. \A n \in Names : Retained(n) = Range(PublishedBuffer(n))
    BY UnlockedIsPublished
  <2> QED BY <2>2 DEF StatsInv, Covers
<1> QED BY <1>1, SessionInvHolds, StatsInvHolds, PTL
=============================================================================
