---------------------------- MODULE EventReplay ----------------------------
(***************************************************************************)
(* A subscription served from query_events_after(): a handler polls the    *)
(* store from its cursor and streams the events; the client resumes after  *)
(* the last event it received when the stream breaks.                      *)
(*                                                                         *)
(* The Subscribe handler is not written yet, so handler, stream and client *)
(* are external and follow proto/metrics.proto: events arrive in order, a  *)
(* broken stream loses what was under way, and after_event_id = 0 means    *)
(* "now", which the handler reads from current_event_id().                 *)
(***************************************************************************)
EXTENDS StoreQueries

CONSTANTS Subscription,  \* the filters of the SubscribeRequest
          FetchLimit     \* events a poll asks for

ASSUME FetchLimitAssumption == FetchLimit \in 1..kMaximumPageSize

VARIABLES connected,
          cursor,    \* the handler's exclusive cursor
          stream,    \* events sent and not received
          received,  \* history: every event the client got
          floor      \* history: what the client's "now" was

subscriber == <<connected, cursor, stream, received, floor>>

RInit == /\ Init
         /\ connected = FALSE
         /\ cursor = 0
         /\ stream = <<>>
         /\ received = <<>>
         /\ floor = 0

\* A client without events asks for "now", one with events resumes.
Subscribe ==
  /\ ~connected
  /\ mutex = None
  /\ connected' = TRUE
  /\ IF received = <<>>
     THEN cursor' = current_event_id /\ floor' = current_event_id
     ELSE cursor' = Last(received).event_id /\ floor' = floor
  /\ UNCHANGED <<vars, stream, received>>

Poll ==
  LET events == QueryEventsAfter(Subscription, cursor, FetchLimit)
  IN  /\ connected
      /\ mutex = None
      /\ events \notin {None, <<>>}
      /\ stream' = stream \o events
      /\ cursor' = Last(events).event_id
      /\ UNCHANGED <<vars, connected, received, floor>>

Receive == /\ stream # <<>>
           /\ received' = Append(received, Head(stream))
           /\ stream' = Tail(stream)
           /\ UNCHANGED <<vars, connected, cursor, floor>>

Disconnect == /\ connected
              /\ connected' = FALSE
              /\ stream' = <<>>
              /\ UNCHANGED <<vars, cursor, received, floor>>

RNext == \/ Next /\ UNCHANGED subscriber
         \/ Subscribe
         \/ Poll
         \/ Receive
         \/ Disconnect

RSpec == RInit /\ [][RNext]_<<vars, subscriber>>

\* The handler keeps polling, and gets the shared lock although writers take it
\* again and again (a std::shared_mutex on Linux prefers readers); the client
\* keeps reading; writers run on.  Nothing makes the client subscribe or the
\* stream hold.
RFairSpec == RSpec /\ SF_<<vars, subscriber>>(Poll)
                   /\ WF_<<vars, subscriber>>(Receive)
                   /\ \A w \in Writers : WF_<<vars, subscriber>>(Proceed(w) /\ UNCHANGED subscriber)

-----------------------------------------------------------------------------
\* "Matching events strictly after request.after_event_id in increasing
\* event-ID order" (i_time_series_store.h:57): across polls and reconnects the
\* client sees no event twice and none out of commit order, although the
\* buffers are in timestamp order.
ReceivedInOrder ==
  \A i, j \in DOMAIN received :
     i < j => received[i].event_id < received[j].event_id

\* "zero = now" (metrics.proto:88): a subscription without a resume point yields
\* nothing that was committed before it, although the store returns its whole
\* history for a cursor of zero and the handler's reading of current_event_id()
\* and its first poll are separate calls with commits in between.
NothingBeforeNow == \A i \in DOMAIN received : received[i].event_id > floor

\* Resuming loses nothing the store still has: once the client is past an event
\* ID, every retained matching sample up to it was received.  Late samples with
\* old timestamps and batches committed between the reading of "now", the polls
\* and the reconnects do not fall through.
NoEventSkipped ==
  mutex = None /\ received # <<>> =>
    \A s \in UNION {Retained(n) : n \in Names} :
       /\ MatchesFilters(s, Subscription)
       /\ floor < s.event_id /\ s.event_id <= Last(received).event_id
       => \E i \in DOMAIN received : received[i] = s

\* While the stream holds, a subscriber catches up: every matching sample that is
\* retained and younger than its "now" arrives, however many more than a poll
\* returns are waiting, and however late their timestamps are.
CaughtUp ==
  <>[]connected =>
    <>[](\A s \in UNION {Retained(n) : n \in Names} :
           MatchesFilters(s, Subscription) /\ floor < s.event_id
           => \E i \in DOMAIN received : received[i] = s)
=============================================================================
