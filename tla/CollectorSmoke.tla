--------------------------- MODULE CollectorSmoke ---------------------------
(***************************************************************************)
(* The Agent's pipeline as client/collector_smoke.cpp runs it: collector,  *)
(* builder and queue, each its own component here, composed by one thread  *)
(* that collects, builds and enqueues twice.                               *)
(***************************************************************************)
EXTENDS ProcMetricCollector

CONSTANTS Empty, NonFinite, nonce

\* The empty string, a value that is not finite and std::nullopt are none of the
\* names, values and usages of the program.
ASSUME SmokeAssumption ==
  /\ Empty \notin {"collector-smoke", "cpu_usage_percent", "memory_used_bytes",
                   "memory_available_bytes", "memory_usage_percent"}
  /\ Empty \notin {"collector-smoke"} \X {nonce} \X Nat
  /\ NonFinite \notin Int \cup (Int \X Int)
  /\ None \notin [active : Nat, total : Nat]

VARIABLES pc,                         \* the call main() is at
          builders, building, built,  \* the builder, called by one thread
          batches, dropped_batches, submitted, acked  \* the queue

builderVars == <<builders, building, built>>
queueVars   == <<batches, dropped_batches, submitted, acked>>
svars       == <<vars, pc, builderVars, queueVars>>

\* A percentage of a whole that is zero would be NaN or infinite.
Percent(part, whole) == IF whole = 0 THEN NonFinite ELSE <<part, whole>>

MetricsOf(sample) ==
  LET Metric(name, value) == [name |-> name, value |-> value]
      memory == <<Metric("memory_used_bytes", sample.memory.used),
                  Metric("memory_available_bytes", sample.memory.available),
                  Metric("memory_usage_percent",
                         Percent(sample.memory.used, sample.memory.total))>>
  IN  IF sample.cpu = None THEN memory
      ELSE <<Metric("cpu_usage_percent", Percent(sample.cpu.active, sample.cpu.total))>>
           \o memory

Builder == INSTANCE BatchBuilder
             WITH Threads <- {"main"}, ClientIds <- {"collector-smoke"},
                  Nonces <- {nonce}, MetricLists <- {},
                  MaxBuilders <- 1, MaxSequence <- 3

Queue == INSTANCE PendingBatchQueue
           WITH Ids <- {"collector-smoke"} \X {nonce} \X {1, 2},
                RequestedCapacity <- 0, kDefaultCapacity <- 256, MaxSubmitted <- 2

SInit == /\ Init /\ Builder!Init /\ Queue!Init
         /\ pc = "start"

Start == /\ pc = "start" /\ pc' = "collect"
         /\ Builder!Construct("collector-smoke", nonce)
         /\ UNCHANGED <<vars, queueVars>>

\* An error makes main() return 1, an exception ends the process.
CollectSample ==
  /\ pc = "collect"
  /\ Next
  /\ pc' = CASE result'.code = "Sample" -> "build"
             [] result'.code = "Thrown" -> "aborted"
             [] OTHER                   -> "exit 1"
  /\ UNCHANGED <<builderVars, queueVars>>

BuildBatch ==
  /\ pc = "build"
  /\ IF Builder!BuildError(builders[1].client_id_, MetricsOf(result)) = None
     THEN Builder!TakeSequence("main", 1, MetricsOf(result)) /\ pc' = "return"
     ELSE pc' = "exit 1" /\ UNCHANGED builderVars
  /\ UNCHANGED <<vars, queueVars>>

FinishBatch ==
  /\ pc = "return"
  /\ \/ Builder!ReturnBatch("main") /\ pc' = "enqueue"
     \/ Builder!BuildThrows("main") /\ pc' = "aborted"
  /\ UNCHANGED <<vars, queueVars>>

\* What enqueue() refuses before it takes the lock.
IsInvalid(batch) ==
  batch.client_id = Empty \/ batch.batch_id = Empty \/ batch.metrics = <<>>

\* Only kEnqueued goes on; after the second batch main() returns 0.
EnqueueBatch ==
  LET batch == built[Len(built)].batch
      id    == batch.batch_id
  IN  /\ pc = "enqueue"
      /\ IF IsInvalid(batch) THEN Queue!EnqueueInvalid /\ pc' = "exit 1"
         ELSE IF id \in Queue!QueuedIds
         THEN Queue!EnqueueDuplicate(id) /\ pc' = "exit 1"
         ELSE Queue!Enqueue(id) /\ pc' = CASE Len(batches') = Len(batches) -> "exit 1"
                                           [] Len(built) = 1               -> "collect"
                                           [] OTHER                        -> "exit 0"
      /\ UNCHANGED <<vars, builderVars>>

\* The copy of the ID, or push_back with room left, throws: nothing is queued.
EnqueueAborts == /\ pc = "enqueue" /\ pc' = "aborted"
                 /\ UNCHANGED <<vars, builderVars, queueVars>>

SNext == \/ Start \/ CollectSample \/ BuildBatch \/ FinishBatch
         \/ EnqueueBatch \/ EnqueueAborts

SSpec == SInit /\ [][SNext]_svars

-----------------------------------------------------------------------------
\* What one component returns the next accepts: main() fails only because the
\* sources could not be read or sampled, never because build() refuses what the
\* collector computed, or enqueue(), which has checks of its own, what build()
\* returned: as invalid, as a duplicate or for want of room.
OnlyCollectionFails ==
  pc = "exit 1" => result.code \in {"ReadFailed", "MalformedSource", "InvalidCounterDelta"}

\* "Confirm both batches remain queued" (collector_smoke.cpp:58): on success the
\* queue holds two batches in the order of collection, with IDs of their own,
\* the baseline without CPU usage and the second with it.
BothQueued ==
  pc = "exit 0" =>
    /\ [i \in DOMAIN batches |-> batches[i].batch_id] =
         [i \in 1..2 |-> built[i].batch.batch_id]
    /\ built[1].batch.batch_id # built[2].batch.batch_id
    /\ Len(built[1].batch.metrics) = 3 /\ Len(built[2].batch.metrics) = 4
=============================================================================
