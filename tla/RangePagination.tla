-------------------------- MODULE RangePagination --------------------------
(***************************************************************************)
(* A client pages through one range with the tokens query_range() hands    *)
(* out, while writers commit: late samples land before and after the       *)
(* cursor, and full buffers evict samples of the client's snapshot.        *)
(*                                                                         *)
(* The client and the RPC between it and the store are not part of the     *)
(* repository's sources; all that is assumed of them is that a page is     *)
(* asked for with the token of the page before.                            *)
(***************************************************************************)
EXTENDS StoreQueries

CONSTANT Request  \* the first request of the session, a valid one without token

ASSUME RequestAssumption ==
         /\ Request = [metric_name |-> Request.metric_name, from_ms |-> Request.from_ms,
                       to_ms |-> Request.to_ms, tags_filter |-> Request.tags_filter,
                       client_id |-> Request.client_id,
                       page_size |-> Request.page_size, page_token |-> None]
         /\ Request.from_ms \in Int /\ Request.to_ms \in Int
         /\ Request.page_size \in Nat
         /\ ValidRange(Request)

VARIABLES pages,    \* the responses so far
          status,   \* "open", "done", or "failed" when a page was refused
          snapshot  \* history: current_event_id when the first page was built

session == <<pages, status, snapshot>>

PInit == /\ Init
         /\ pages = <<>>
         /\ status = "open"
         /\ snapshot = 0

NextToken == IF pages = <<>> THEN None ELSE Last(pages).next_page_token

NextRequest == [Request EXCEPT !.page_token = NextToken]

FetchPage ==
  /\ mutex = None
  /\ status = "open"
  /\ snapshot' = IF pages = <<>> THEN current_event_id ELSE snapshot
  /\ IF RefusesRange(NextRequest)
     THEN pages' = pages /\ status' = "failed"
     ELSE LET response == QueryRange(NextRequest)
          IN  /\ pages' = Append(pages, response)
              /\ status' = IF response.next_page_token = None THEN "done" ELSE "open"
  /\ UNCHANGED vars

PNext == \/ Next /\ UNCHANGED session
         \/ FetchPage

PSpec == PInit /\ [][PNext]_<<vars, session>>

-----------------------------------------------------------------------------
\* The samples of all pages.
Returned == UNION {Range(pages[p].metrics) : p \in DOMAIN pages}

\* What the session is about, said without the store's own range test.
InSnapshot(s) == /\ s.event_id \in 1..snapshot
                 /\ MatchesFilters(s, Request)
                 /\ s.timestamp_ms \in Request.from_ms..Request.to_ms

\* Over all pages a sample appears once and in timestamp order, whatever is
\* inserted before the cursor or evicted between two pages.
PagesOrdered ==
  \A p, q \in DOMAIN pages :
     \A i \in DOMAIN pages[p].metrics, j \in DOMAIN pages[q].metrics :
        p < q \/ (p = q /\ i < j) => Older(pages[p].metrics[i], pages[q].metrics[j])

\* Samples that are committed after the first page never show up on a later one.
PagesWithinSnapshot == \A s \in Returned : InSnapshot(s)

\* No sample is jumped over: one that belongs to the snapshot and is still
\* retained has been returned once the cursor is past it or the session is done.
NothingSkipped ==
  mutex = None /\ pages # <<>> =>
    \A s \in UNION {Retained(n) : n \in Names} :
       /\ InSnapshot(s)
       /\ status = "done" \/ (NextToken # None /\ ~IsAfterCursor(s, NextToken))
       => s \in Returned

\* A page that announces another one is full, so a session is at most one page
\* longer than its samples need, and the store accepts every token it issued.
SessionProgresses ==
  /\ status # "failed"
  /\ \A i \in DOMAIN pages :
        pages[i].next_page_token # None => Len(pages[i].metrics) = PageSize(Request)

\* query_latest(): nothing ever committed under the filter is newer than the
\* answer, although the scan sees one bounded buffer only.
LatestIsNewest ==
  mutex = None /\ QueryLatest(Request) # None =>
    \A s \in CommittedSamples :
       MatchesFilters(s, Request) => ~Older(QueryLatest(Request), s)

\* The aggregates are those of "the complete snapshot-bounded filtered range, not
\* only the current page" (metrics.proto:62): whatever was returned before and
\* whatever was committed since, what is still there of the snapshot lies between
\* min and max, and so does avg unless the sum of the doubles overflowed.
AggregatesCoverSnapshot ==
  mutex = None =>
    \A i \in DOMAIN pages :
      LET stats == pages[i].stats
      IN  /\ \A s \in UNION {Retained(n) : n \in Names} :
               InSnapshot(s) => stats.min <= s.value /\ s.value <= stats.max
          /\ \/ stats.avg[1] = NonFinite
             \/ /\ stats.min * stats.avg[2] <= stats.avg[1]
                /\ stats.avg[1] <= stats.max * stats.avg[2]

\* proto/metrics.proto:62: avg, max and min "remain identical on every page
\* belonging to the same paginated query".
SameStats(a, b) == /\ a.avg[1] * b.avg[2] = b.avg[1] * a.avg[2]
                   /\ a.max = b.max
                   /\ a.min = b.min

AggregatesIdentical ==
  \A i, j \in DOMAIN pages : SameStats(pages[i].stats, pages[j].stats)
=============================================================================
