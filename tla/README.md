# A verification project for PulseMesh

PulseMesh collects metrics on Agents (C++), sends them in batches to an
Aggregator, and serves them from there. This directory holds TLA+ models of its
core logic, the TLC configurations that check them, and TLAPS proofs. Paths
below are relative to the repository, line numbers refer to the commit the
models were written from. `store.cpp` stands for
`cpp/aggregator/impl/in_memory_time_series_store/in_memory_time_series_store.cpp`
`queue.cpp` for `cpp/client/impl/pending_batch_queue/pending_batch_queue.cpp`, and
the other components' files go by their last name.

## 1. Inventory

| Component | State | Operations | What makes it correct |
|---|---|---|---|
| **PendingBatchQueue**, `queue.cpp` | a bounded deque of (batch, in_flight), an atomic drop counter; one mutex | `enqueue`, `mark_next_in_flight`, `acknowledge`, `reset_in_flight`, two reads | one entry per batch ID, FIFO sends across retries, in-flight batches survive overflow, nothing is lost uncounted |
| **InMemoryTimeSeriesStore**, `store.cpp` | sorted bounded buffers by metric name, committed batch IDs, the current event ID; one reader/writer lock | `commit_batch` | atomic and idempotent commits, dense event IDs, eviction by age only |
| its queries | none of their own | `query_range`, `query_latest`, `current_event_id`, `query_events_after` | stable pages, the true latest sample, gap-free replay |
| **ITimeSeriesStore**, `cpp/aggregator/i_time_series_store.h` | – | the contract of the above for any backend | – |
| **BatchBuilder**, `cpp/client/impl/batch_builder` | session nonce, atomic sequence | `build` | IDs unique under concurrency and across sessions |
| **ProcMetricCollector**, `cpp/client/impl/proc_metric_collector` | the previous CPU counters | `collect` | every interval is reported or refused once; no overflow |
| **SyntheticMetricCollector** | the sample index | `collect` | rounding does not accumulate; the index advances on success only |
| **AgentConfig** | none | `parse_agent_config` | exactly the well-formed command lines are accepted, in any order |
| **collector_smoke.cpp** | – | collects, builds and enqueues twice | each component accepts what the one before returns |
| **metrics.proto** | – | message and RPC declarations | the contract quoted by the properties |
| generated Python stubs, scripts, build files | – | – | – |

Interactions. On the Agent, a collector's metrics go through `BatchBuilder`
into `PendingBatchQueue`; a sender is to take batches with
`mark_next_in_flight()`, stream them, call `acknowledge()` for every `BatchAck`
and `reset_in_flight()` when the stream breaks. On the Aggregator, the
`StreamMetrics` handler is to call `commit_batch()` and to acknowledge both
outcomes; query handlers call the queries; the `Subscribe` handler is to poll
`query_events_after()`. **The sender and all the handlers are declared in
`proto/metrics.proto` but not written yet.** The components are in place and
shaped by those protocols, so the models compose them with external parties
that do what the messages and interfaces allow.

Hard behaviour: concurrent writers and readers of the store; exceptions in the
middle of a commit, a build or a collection; concurrent builds and sessions that
share a client; sources that are malformed or count backwards; out-of-order and equal timestamps together with eviction;
paging and subscribing while the store changes; retries, late ACKs, reconnects
and overflow in the queue; restarts of either process, neither of which
persists anything. `PROJECT.json` lists each hazard at its line.

## 2. Modules

| Module | Models | Extends / instantiates |
|---|---|---|
| `PendingBatchQueue` | the queue, one action per method and result | – |
| `MetricBatches` | what the store requires of a batch, and a metric's stored form | – |
| `TimeSeriesStore` | what the storage interface promises: one atomic `Commit` | `MetricBatches` |
| `InMemoryTimeSeriesStore` | `commit_batch()` at the grain of lock, staging, publication and exceptions | `MetricBatches`, instantiates `TimeSeriesStore` |
| `StoreQueries` | the queries as operators | `InMemoryTimeSeriesStore` |
| `InMemoryTimeSeriesStoreProofs` | the store's theorems, the refinement of `TimeSeriesStore` among them, and lemmas on the queries | `StoreQueries` |
| `RangePagination` | a client that pages while writers commit | `StoreQueries` |
| `RangePaginationProofs` | its theorems | `RangePagination`, the store's proofs |
| `EventReplay` | a subscriber that polls, loses streams and resumes | `StoreQueries` |
| `EventReplayProofs` | its theorems | `EventReplay`, the store's proofs |
| `BatchDelivery` | queue, streams, handler and store together | `PendingBatchQueue`, instantiates `TimeSeriesStore` |
| `BatchDeliveryProofs` | the theorems of the queue and of the delivery | `BatchDelivery` |
| `BatchBuilder` | all builders of all Agent processes and the threads that call them | `MetricBatches` |
| `BatchBuilderProofs` | its theorems | `BatchBuilder` |
| `ProcMetricCollector` | `collect()` over arbitrary procfs contents | – |
| `SyntheticMetricCollector` | the deterministic collector in rounded arithmetic | – |
| `SyntheticMetricCollectorProofs` | its theorems | `SyntheticMetricCollector` |
| `AgentConfig` | the command-line parser as an operator | – |
| `AgentConfigProofs` | its theorems | `AgentConfig` |
| `CollectorSmoke` | `collector_smoke.cpp`: collector, builder and queue in a row | `ProcMetricCollector`, instantiates `BatchBuilder` and `PendingBatchQueue` |
| `CollectorSmokeProofs` | the theorems of the procfs collector and of the program | `CollectorSmoke` |
| `MC...` | the instances for TLC | the module of that name |

Each module keeps its "faulty variants", used for mutation checks only, in a
marked section before the definitions they vary. They are no part of any
next-state relation.

### How the models correspond to the code

*PendingBatchQueue.* Every method is atomic under the mutex, so each is one
action, split by the result returned. A batch is its ID: the payload is looked
at only by the validity check, whose failure changes nothing
(`EnqueueInvalid`). `EnqueueThrows` is the `bad_alloc` that `push_back` can
raise after the eviction. `MarkNextInFlight` sets the flag of an entry, which
happens before the copy for the caller is made (`queue.cpp:59-60`): to the queue
it is the same step whether that copy succeeds or throws. `submitted` and `acked` are history counters.

*InMemoryTimeSeriesStore.* A thread validates without the lock (`CallCommit`),
waits, and under the lock either returns at once (`CommitDuplicate`,
`CommitExhausted`) or stages its metrics one by one (`StageMetric`), records
the batch ID (`RecordBatchId`), publishes buffer by buffer (`PublishBuffer`)
and finishes. `CommitThrows` may replace any step up to and including the
insertion of the ID; after it, swaps and node moves into a reserved map do not
throw. A name without map entry is an empty buffer, since no query tells them
apart. `std::upper_bound` is modelled by what it returns on a sorted range (any
position that separates the older from the newer), so that the model is stuck,
rather than silently right, if the buffer is not sorted. `commits` records
history. The interface's commit takes effect when the ID is recorded; the
refinement mapping counts staged buffers as published from then on, which is
sound because no reader gets in before the lock is released.

*StoreQueries.* Queries hold the lock shared, so they are evaluated in states
with `mutex = None`. A page token is the cursor it encodes (`PageToken`); the
checks of `decode_page_token` on its fields are kept (`Decodes`). Values are
integers, sums may overflow (`Total`); the average is a fraction, so comparisons
are exact. The loops that copy what matches are `Select`, which keeps the order
of the buffer; the final sort of `query_events_after` is `InEventOrder`. Both
count in `Increasing`, without recursion. `RefusesRange` is every
`kInvalidArgument` of `query_range`, `QueryRange` its answer to the other
requests. `query_latest` and `query_events_after` return `None` for an invalid
request.

*RangePagination.* `NextRequest` is the first request with the token of the page
before; `FetchPage` takes the snapshot on the first page and fails the session
if the store refuses the request. `Returned` is the set of samples on all pages.

*EventReplay.* The client's first request asks for "now", which the handler
reads from `current_event_id()`; afterwards it resumes from the last event it
received. A broken stream loses what is under way. `rolling_avg_1m` is computed
nowhere yet and left out.

*BatchDelivery.* Streams are FIFO. When one breaks, any prefix of its requests
may still be handled later without an answer (`orphans`), and any prefix of the
ACKs may already have been read and be applied late, even after
`reset_in_flight()`. `Send` is a mark whose copy reaches the stream, `SendThrows`
one whose copy throws: the entry is in flight and nobody was given it (`unsent`,
until the stream ends). An exception out of `commit_batch()` ends the stream, so
it is a `Break` that drops the request. `AgentRestart` empties the queue,
`AggregatorRestart` the store; `forgotten` is a history of what the stores of
ended Aggregator processes had committed, `lost` of what the Agent gave up. The
store is `TimeSeriesStore`, which the in-memory backend implements.
That batch IDs are fresh is taken from `BatchBuilder`.

*BatchBuilder.* `builders` holds every object ever constructed, so a restarted
Agent is one more `Construct` with any nonce. A call is two steps: up to and
including `fetch_add` (`TakeSequence`, with the atomic increment in
`FetchAdd`), and the completion of a batch no other thread sees (`ReturnBatch`,
or `BuildThrows` when an allocation fails). A refused call changes nothing. An
ID is the triple its text is made of; the text is injective, because the nonce
has sixteen digits and the sequence follows the last dash. The 64-bit sequence
is bounded by `MaxSequence`, not wrapped: it takes centuries to exhaust.

*ProcMetricCollector.* A source is a read error or its words. `Extract` is what
`operator>>` stores: zero for a word that is no number, the largest value for
one out of range, the wrapped value for a negative one. The field at which
extraction failed keeps that value (`Fields`), which is what the finding
`plausible` is about. Sums are compared before they are made, as in the code,
and differences wrap (`Minus`). Percentages are the fraction they are computed
from, so that the zero divisor stays visible. One action per way a call ends;
`ThrowsAfterBaseline` is a `bad_alloc` after the baseline has moved. `accounted`
is a history of the counters up to which the reported and refused intervals
reach.

*SyntheticMetricCollector.* Doubles are integers of `kPrecision` significant
bits, rounded to nearest even, infinite above `kMaxFinite`; fractions would
only change the unit, underflow is left out. `Ulp` is the unit in the last
place, a power of two. `Refuse` is the error result. `CollectThrows` is the
allocation of the result vector.

*AgentConfig.* An argument is its option and its value; a number is the integer
it denotes or `Garbage`. `ParseArgument` is one round of the loop with the
function it dispatches to, `ParseArguments` the loop, `seen` the three
`has_..._` flags. `arguments` grows one at a time, so every list up to
the bound is a state, on which `ParseAgentConfig` is evaluated.

*CollectorSmoke.* `pc` is the call of `main()` that comes next. The collector's
`Next` is the whole `collect()`; the builder has one thread; the queue has its
default capacity, out of reach of two batches. `EnqueueBatch` makes `enqueue()`'s
own checks of what `build()` returned: the fields (`IsInvalid`, `queue.cpp:14`),
the ID, the room. An exception ends the process (`aborted`), also one out of
`enqueue()` (`EnqueueAborts`).

## 3. Runs

| Run (cfg) | Instance and bounds | Shows |
|---|---|---|
| `queue` (`MCPendingBatchQueue.cfg`) | 5 interchangeable IDs, default capacity 3 taken for a requested 0, `MaxSubmitted = 9` | the queue's invariants and that drops spare in-flight entries |
| `commit` (`MCInMemoryTimeSeriesStore.cfg`) | 2 writers, 2 metrics, 2 slots, 7 batches, 8 event IDs for 9 metrics | the store's invariants, that a commit ends, and that `commit_batch()` implements `TimeSeriesStore` |
| `pagination` (`MCRangePagination.cfg`) | 1 writer, 4 batches with 7 samples, 3 slots, pages of one | ordered, complete, snapshot-bounded paging; aggregates over the snapshot; the latest sample |
| `aggregates` (`MCAggregates.cfg`) | as `pagination` | a **violation**, see below |
| `replay` (`MCEventReplay.cfg`) | 1 writer, 2 metrics, 2 clients, 3 slots, polls of two | in-order, gap-free replay across reconnects, nothing from before "now", and that a subscriber catches up |
| `delivery` (`MCBatchDelivery.cfg`) | 3 batches for 2 slots, 3 faults | a batch leaves the queue only if the Agent gave it up or an Aggregator committed it first, which may have ended since; a store has it once; on a live stream every in-flight batch is being answered but for those whose copy failed, and nothing else stays in the queue for good |
| `builder` (`MCBatchBuilder.cfg`) | 2 threads, 3 builders, 2 nonces, 2 numbers each, a client and an unset one | IDs are unique, batches acceptable |
| `collector` (`MCProcMetricCollector.cfg`) | words up to 7, 2 bytes to the kilobyte, 37 CPU rows and 17 memory texts | intervals are adjacent, samples within bounds |
| `plausible` (`MCPlausible.cfg`) | as `collector` | a **violation**, see below |
| `synthetic` (`MCSyntheticMetricCollector.cfg`) | 35 configurations, 4 significant bits, largest double 120, 10 calls | no drift, only finite values, no value skipped |
| `config` (`MCAgentConfig.cfg`) | 16 arguments, lists of up to 4 | what is accepted, order, first error |
| `smoke` (`MCCollectorSmoke.cfg`) | 11 CPU rows, 4 memory texts, two rounds | the components fit together |

Why the bounds are enough for the cases to happen. With more IDs than slots
every ID can be queued, dropped, acknowledged and enqueued again, at the front,
in the middle and at the back; three slots are the least for which "a middle
entry" exists. Two writers suffice for a race under one lock. The batches of
`commit` contain equal timestamps within one batch and across batches, late
samples, a batch that overflows a buffer on its own, two batches under one ID,
two invalid ones, and one too many for the event IDs. In `pagination` more
samples than slots means that the cursor's own sample can be evicted between
two pages. In `delivery`, two faults allow a broken stream during recovery from another, and
a restart or a failed copy on either side of a retry; a third strikes while both
are being recovered from. Single-writer runs of the readers lose nothing: a query sees
unlocked states only, and a second writer adds waiting, not states of the
buffers.

In `builder`, three sessions and two nonces force a collision and still leave
two sessions apart; two threads are the least that race. In `collector`, eight
values of a word are enough for each of the eight fields to overflow the total,
the idle sum, the conversion to bytes or the word itself, for both counters to
rise, stand still and fall independently, and for rows that break off at a word
that is no number, out of range or negative. In `synthetic`, four bits make
rounding start at 17, so that ten additions of 3 to 11 would drift visibly. Four
arguments hold both required options and a duplicate pair, or an error between
others.

`MaxSubmitted`, `MaxEventId` (2^63 - 1 in the code), `MaxFaults`, `MaxBuilders`,
`MaxSequence` (2^64 in the code), `MaxIndex` and `MaxArguments` are the only
bounds on counters and lists. Event IDs are compared, not wrapped: the code's
guard against overflow is in the model (`CommitExhausted`), and `TypeOK` says
the bound holds.

Symmetry is used where batch IDs are interchangeable and no liveness is checked:
`queue` and `builder`.

The `delivery` run switches the deadlock check off: when all batches are built
and delivered there is nothing left to do. So do `builder`, `synthetic` and
`config`, which stop at their bounds, and `smoke`, whose program ends.

### Findings

*Aggregates change between pages* (`aggregates`). `proto/metrics.proto:62` says
that `avg`, `max` and `min` describe the complete snapshot-bounded range and
"remain identical on every page belonging to the same paginated query". The
snapshot is an upper bound on event IDs only: samples inside it can be evicted
(`store.cpp:247`) between two pages, and the aggregates of the next page are
computed from what is left. One commit between two pages shows it. What does
hold under eviction is checked by `pagination`.

*A truncated CPU row becomes the baseline* (`plausible`). When the fifth word of
the row is out of range, extraction stores 2^64 - 1 in it and fails; the row
counts as one of four fields, and `fields[4]` is still added to the idle time
(`proc_metric_collector.cpp:178`). The next calls then report
`kInvalidCounterDelta` instead of the malformed source. `SampleWithinBounds`
holds in spite of it, since the comparison of the differences catches the rest.

Six more points a reader should know.

- ACKs are not durable. `proto/metrics.proto:36` says that a `BatchAck`
  "confirms that a batch is durably committed or was committed by an earlier
  attempt", and line 104 speaks of "durable commit acknowledgements". The only
  store records a commit in the memory of its process (`store.cpp:373`). A
  restart of the Aggregator loses every batch it has acknowledged, and an ACK
  already read makes the Agent retire the batch even if it applies the ACK after
  the restart. Neither side counts the loss. `RetiredOnlyOnceCommitted` therefore
  has a case of its own for these batches (`forgotten`); without it the invariant
  does not hold.
- A batch can be in flight and never sent. `mark_next_in_flight()` looks for "the
  oldest batch that is not already awaiting an acknowledgement" (`queue.cpp:49`)
  and takes the flag for that. It sets the flag at line 59 and copies the batch
  for its caller at line 60; if the copy throws, the entry awaits nothing, is
  skipped by every later send, cannot be dropped by an overflow, and holds its
  slot until the next `reset_in_flight()`, which is meant for broken streams.
  `AnswerOnTheWay` and `QueueDrains` except these entries (`unsent`), and do not
  hold without the exception.
- The synthetic collector advances its index before it allocates the vector it
  returns (`synthetic_metric_collector.cpp:46-50`), though the comment above says
  that failed calls do not skip values. `NoValueSkipped` therefore excepts calls
  that throw.
- `compute_stats()` sums before it divides (`store.cpp:79`), so finite samples
  near the largest double have an infinite average. `AggregatesCoverSnapshot`
  excepts that.
- Tokens and event cursors carry no epoch. After a restart of the Aggregator one
  from the former process is refused only while its snapshot exceeds the new
  current event ID. No text of the repository promises otherwise.
- `after_event_id = 0` means "now" in the proto but "everything retained" to
  `query_events_after()`, so the future handler must resolve it, as the one in
  `EventReplay` does; `NothingBeforeNow` depends on it.

## 4. Fairness

`commit`: weak fairness of the thread that holds the lock (`Proceed`), because
the code under the lock never blocks. Nothing is assumed about which thread
gets the lock, nor that commits do not throw.

`replay`: strong fairness of polling, weak fairness of receiving and of the
writer that holds the lock. Polling needs the shared lock, which is free again
and again but not always; glibc's reader/writer lock, on which
`std::shared_mutex` is built, prefers readers, so a poll does not starve.
Nothing makes a client subscribe or a stream hold: `CaughtUp` speaks of streams
that eventually stay up. Paging needs no fairness for its own property:
`SessionProgresses` bounds a session by the number of its samples.

`delivery`: weak fairness of sending, of handling a request, of applying an ACK
and of reconnecting. These loops are not written yet; the run shows that the
queue's interface is enough to drain it if they run. Orphaned requests,
batches and faults carry no fairness; faults (broken streams, failed copies,
restarts) are finitely many by `MaxFaults`, without which no delivery protocol
terminates. Nothing makes a stream break, so an entry whose copy failed may stay
for good; `QueueDrains` says that nothing else does, and in particular that the
queue becomes empty if no copy failed on the last stream.

## 5. Proofs

TLC checks the instances of section 3; the theorems hold for every value of the
constants that satisfies the named assumptions. These are:

- capacities and page sizes are positive, page sizes at most their maximum,
  `MaxEventId` and `MaxSubmitted` natural numbers (`CapacityAssumption`,
  `InMemoryAssumption`, `PageSizeAssumption`, `FetchLimitAssumption`,
  `BuilderAssumption`, `WordAssumption`);
- doubles have at least one significant bit, a largest finite value, and hold
  every index exactly (`SyntheticAssumption`: indices up to `2^kPrecision`,
  which at 53 bits take millennia to reach); numeric options carry an integer,
  no text or a text that is no number (`ArgumentsAssumption`);
- batches and requests are records of the fields the code reads
  (`InMemoryAssumption`, `RequestAssumption`, which also says that the first
  request of a session is one the store accepts), sources are sequences of words
  (`SourcesAssumption`), values are integers or `NonFinite`
  (`ValueAssumption`);
- the markers `None`, `Empty`, `NonFinite` are not used as data (also
  `SmokeAssumption`).

Every proof has the same outline: an inductive invariant that implies the
properties, one lemma per action that the action preserves it, and one temporal
step.

**Queue** (first part of `BatchDeliveryProofs`). The invariant is the conjunction of the
four invariants of the run. `InFlightPrefix` and `UniqueIds` are inductive given
`TypeOK`; what `RemoveAt` does to a sequence is stated once in lemmas.
`NothingLostSilently` is the accounting equation; `DropsNeverCostInFlight` is an
action property proved from the same invariant.

**Store** (`InMemoryTimeSeriesStoreProofs`). `BuffersSorted` and `RetainsNewest`
are not inductive, since they say nothing of a commit in progress. The
strengthening (`IInv`) adds that each staged copy is sorted and *keeps* the
committed samples together with those staged so far, that samples not yet
published belong to the commit in progress, and that all their event IDs are
above those committed before. The heart is a lemma on `InsertBounded`: inserting
a sample that is newer in event ID into a buffer that keeps a set of samples, and
dropping the front if it is over capacity, gives a buffer that keeps the set with
the new sample.

`DenseEventIds` needs one more invariant (`DenseInv`): every event ID from 1 to
`LastId` is that of exactly one committed sample, where `LastId` runs ahead of
`current_event_id` between the recording of a batch and the end of its
publication. The refinement, `StoreImplementsInterface`, rests on `IInv`:
`RecordBatchId` maps to the interface's `Commit` and every other step to a
stutter. The step is not local: `Commit` says
what is retained afterwards of *all* buffers, and the mapped buffers change in
one step although the code publishes them one by one.

**Queries** (second part of `InMemoryTimeSeriesStoreProofs`). Lemmas on the operators: what `Select` and
`InEventOrder` return is in order, without repetition and complete; a page is a
prefix of what remains; a poll is the first events after the cursor; `Total`
stays between the smallest and the largest value times the length. Two of these
call for an induction, which the provers cannot do. For the order, the number of
smaller elements (`Rank`) is shown to be a bijection between a finite set of
numbers and 0..(cardinality - 1); for the sum, a least counterexample is taken, which exists
because every non-empty set of naturals has a least element.

**Pagination** (`RangePaginationProofs`). `NothingSkipped` speaks of states
without a writer under the lock. `SessionInv` says it of the buffers as published
(`NothingLeftBehind`), and adds what links two pages: a page that announces
another one is full, its token is the cursor of its last sample, and carries the
snapshot of the session, which is no more than `LastId`. Then a page never
contains a sample at or before the cursor, a commit between two pages only adds
samples beyond the snapshot, and an eviction only removes samples. The six
theorems cover every safety property of the run. `TokensAreAccepted` has that the
store never refuses a token of its own. `AggregatesStayCovering` needs `StatsInv`,
which is `AggregatesCoverSnapshot` for the published buffers, and that no
non-finite value is ever committed.

**Replay** (`EventReplayProofs`). `ReplayInv` follows an event from the store
through the stream to the client: everything published up to the handler's cursor
is received or in the stream (`SeenInv`), and the stream continues what was
received (`OrderInv`). `DenseInv` is needed since a cursor is an event ID: two
samples with one ID, of which a poll returns only one, would be a gap. That a
commit adds no sample behind the cursor follows from `cursor <= LastId`.

**Delivery** (`BatchDeliveryProofs`). The composition keeps the queue's
invariant, since each of its steps is a step of the queue, leaves it alone or
starts it anew. `DeliveryInv` adds what the messages mean: an ACK under way is
for a batch the running Aggregator has committed or one that has ended had
(`AcksCommitted`), a batch in flight on a live stream has its request or its ACK
under way or is one whose copy failed, and the store holds at most one sample per
committed ID. So `NothingRetiredUncommitted` does not say that a retired batch is
stored: it is, or it was in a store that is gone. Restarts, broken streams and
failed copies are part of it, liveness is not.

**Builder** (`BatchBuilderProofs`). `IdsUnique` speaks of returned batches only
and is not inductive. The strengthening (`Fresh`) says of every batch, returned or
still being built, that its ID is made of its builder's identity and nonce and of
a number below the builder's next one, and that no two batches of one builder
have the same number. That constructors and `fetch_add` only move numbers up
keeps older batches issued (`StaysIssued`). `AcceptedIsValid` is the link
between the validation of the two processes.

**Collector and program** (`CollectorSmokeProofs`). Words of any size and any
contents of the sources. The invariant of the collector adds that the counters in
the baseline are words and that a sample's fields have their types; the rest is
arithmetic of the guards: once the differences are known to be non-negative and
the idle one the smaller, no subtraction wraps and the accounted counters meet
the new baseline. `SmokeInv` says for each value of `pc` how many batches were
identified, returned and queued. It rests on the collector's theorem
`SamplesAreFractions`: a sample has no whole of zero, so every percentage is
finite and `build()` accepts it. What `build()` returns has a client, an ID and
metrics, the second ID differs from the first, and two batches leave room: so
each check of `enqueue()` passes, and `FailsByCollectionOnly` follows.

**Synthetic collector** (`SyntheticMetricCollectorProofs`). Any precision, range,
configuration and number of calls. `RoundingError` is the one place where
rounding is unfolded: a rounded integer is off by half a unit in the last place
at most. A sample is two roundings away from its exact value; the second unit is
that of the rounded sum, which may be one binade above the exact one, so it is
bounded through `UlpDoubles` and `UlpMonotone` by twice the unit of the exact
magnitudes. That is the factor in `NoDrift`. The invariant (`IInv`) adds to the
three properties of the run that only a valid configuration returns samples and
that their indices are below the next one. Powers of two are a recursive
function; that it satisfies its own recursion is shown by a least counterexample
(`PowersExist`, `PowersAgree`).

**Command line** (`AgentConfigProofs`). Argument lists of any length and any
ranges of the numbers. The behaviours grow the list by one argument, so an
invariant of them is an induction over the list: `ParseArgumentsDef` says that
parsing a longer list is one more round of the loop. The properties speak of the
answer, which also depends on options that are still missing, so none of them is
inductive. `IInv` speaks of the loop's state instead: it is without error exactly
if every argument is well-formed and no scalar is repeated, and then its flags
and endpoints tell which options were given (`AcceptedInv`); an error of a prefix
is that of the list (`StoppedInv`); exchanging neighbours that are not both
endpoints leaves the state of an accepted list as it is (`SwapInv`). The last
step of `SwapInv` is `ArgumentsCommute`: two rounds of the loop that touch
different fields can be exchanged, and two rounds that touch the same field
cannot both succeed.

What is only model-checked, and why:

- `CommitEnds`, `CaughtUp`, `QueueDrains`: liveness under fairness is out of the
  prover's reach.
- `AggregatesIdentical` and `PlausibleCounters` are violated, see Findings.

Every safety invariant and action property that a run finds to hold is proved.

## 6. Not modelled

The generated Python stubs, scripts and build files, which hold no state of the
system. The text of page tokens, batch IDs, error contexts and log lines.
Timestamps taken from the clock, which nothing compares before the store does.
The rounding of averages and percentages (that of the synthetic collector is
modelled). `ClientConfig` messages and rolling averages, which no code produces
or reads yet. The sender, the RPC handlers and their clients do not exist; where
a protocol needs them they are external and as general as the messages allow.

## 7. Plan

Done: every component with code of its own, the compositions in which they are
used, the refinement of the storage interface, and proofs of every safety
property that holds in the runs. Left: when the sender and the handlers are
written, their models replace the external parties in `BatchDelivery` and
`EventReplay`, and the proofs of these modules follow them.
