---------------------------- MODULE BatchBuilder ----------------------------
(***************************************************************************)
(* BatchBuilder objects of any number of Agent processes, called by        *)
(* several threads.  build() validates without touching shared state,      *)
(* takes a sequence number with one atomic fetch_add, and completes the    *)
(* batch on its own; a call that is refused changes nothing.               *)
(*                                                                         *)
(* A batch ID is the triple its text is made of: the nonce has a fixed     *)
(* width and the sequence follows the last dash, so the text is injective. *)
(***************************************************************************)
EXTENDS MetricBatches

CONSTANTS Threads,
          ClientIds,    \* configured identities, Empty among them
          Nonces,       \* what random_device may yield
          MetricLists,  \* arguments of build()
          None,
          MaxBuilders,  \* bound on objects constructed, of all processes
          MaxSequence   \* bound on next_sequence_

ASSUME BuilderAssumption ==
  /\ MaxSequence \in Nat \ {0}
  /\ Empty \notin ClientIds \X Nonces \X Nat
  /\ None \notin {"EmptyClientId", "EmptyMetrics", "InvalidMetric"}
  /\ None \notin [by : Nat, batch : [client_id : ClientIds,
                                   batch_id  : ClientIds \X Nonces \X Nat,
                                   metrics   : MetricLists]]

VARIABLES builders,  \* the objects, in the order of their construction
          building,  \* per thread: the batch it fills and its builder, or None
          built      \* history: every batch returned, with its builder

vars == <<builders, building, built>>

-----------------------------------------------------------------------------
(* Faulty variants of the definitions below, for mutation checks only.     *)

NamesOnly(client_id, metrics) ==
  IF client_id = Empty THEN "EmptyClientId"
  ELSE IF metrics = <<>> THEN "EmptyMetrics"
  ELSE IF \E i \in DOMAIN metrics : metrics[i].name = Empty THEN "InvalidMetric" ELSE None

ConstructAtZero(client_id, nonce) ==
  /\ Len(builders) < MaxBuilders
  /\ builders' = Append(builders, [client_id_     |-> client_id,
                                   session_nonce_ |-> nonce,
                                   next_sequence_ |-> 0])
  /\ UNCHANGED <<building, built>>

NoIdSet(b, metrics) ==
  [client_id |-> builders[b].client_id_, batch_id |-> Empty, metrics |-> metrics]

\* The number is read, and the increment is lost.
LostUpdate(b) == UNCHANGED builders

-----------------------------------------------------------------------------
\* The error build() returns, None when it accepts; the checks in their order.
BuildError(client_id, metrics) ==
  IF client_id = Empty THEN "EmptyClientId"
  ELSE IF metrics = <<>> THEN "EmptyMetrics"
  ELSE IF \E i \in DOMAIN metrics : metrics[i].name = Empty \/ metrics[i].value = NonFinite
  THEN "InvalidMetric" ELSE None

Init == builders = <<>> /\ building = [t \in Threads |-> None] /\ built = <<>>

Construct(client_id, nonce) ==
  /\ Len(builders) < MaxBuilders
  /\ builders' = Append(builders, [client_id_     |-> client_id,
                                   session_nonce_ |-> nonce,
                                   next_sequence_ |-> 1])
  /\ UNCHANGED <<building, built>>

NewBatch(b, metrics) ==
  [client_id |-> builders[b].client_id_,
   batch_id  |-> <<builders[b].client_id_, builders[b].session_nonce_,
                   builders[b].next_sequence_>>,
   metrics   |-> metrics]

\* next_batch_id(): one atomic step, of which no other call gets the number.
FetchAdd(b) == builders' = [builders EXCEPT ![b].next_sequence_ = @ + 1]

\* build() up to fetch_add: validation, then the ID.
TakeSequence(t, b, metrics) ==
  /\ building[t] = None
  /\ builders[b].next_sequence_ < MaxSequence
  /\ BuildError(builders[b].client_id_, metrics) = None
  /\ building' = [building EXCEPT ![t] = [by |-> b, batch |-> NewBatch(b, metrics)]]
  /\ FetchAdd(b)
  /\ UNCHANGED built

ReturnBatch(t) == /\ building[t] # None
                  /\ built' = Append(built, building[t])
                  /\ building' = [building EXCEPT ![t] = None]
                  /\ UNCHANGED builders

\* The ID text or the payload cannot be allocated: the number is used up.
BuildThrows(t) == /\ building[t] # None
                  /\ building' = [building EXCEPT ![t] = None]
                  /\ UNCHANGED <<builders, built>>

Next == \/ \E client_id \in ClientIds, nonce \in Nonces : Construct(client_id, nonce)
        \/ \E t \in Threads :
             \/ \E b \in DOMAIN builders, ms \in MetricLists : TakeSequence(t, b, ms)
             \/ ReturnBatch(t)
             \/ BuildThrows(t)

Spec == Init /\ [][Next]_vars

-----------------------------------------------------------------------------
Batches == [client_id : ClientIds, batch_id : ClientIds \X Nonces \X (1..MaxSequence),
            metrics : MetricLists]
Issue   == [by : 1..Len(builders), batch : Batches]

\* Builders and batches keep their types, and no batch is without a builder.
TypeOK == /\ builders \in Seq([client_id_ : ClientIds, session_nonce_ : Nonces,
                               next_sequence_ : 1..MaxSequence])
          /\ building \in [Threads -> Issue \cup {None}]
          /\ built \in Seq(Issue)

\* "process-unique batch IDs" (batch_builder.h:23) and "a random namespace" for
\* every session (batch_builder.cpp:46): two batches ever returned share an ID
\* only if two builders of one client drew the same nonce; in particular, calls
\* that run concurrently, fail or follow a restart do not reuse an ID.  The
\* store silently drops the second of two batches with one ID.
IdsUnique ==
  \A i, j \in DOMAIN built :
    i # j /\ built[i].batch.batch_id = built[j].batch.batch_id =>
      /\ built[i].by # built[j].by
      /\ builders[built[i].by].session_nonce_ = builders[built[j].by].session_nonce_
      /\ builders[built[i].by].client_id_ = builders[built[j].by].client_id_

\* "malformed values never enter the retry queue" (batch_builder.cpp:26): every
\* batch returned passes the validation of the store it is meant for, which is
\* other code in another process.  One the store refuses would stay at the head
\* of the queue and be sent again after every reconnect.
AcceptableToStore == \A i \in DOMAIN built : IsValid(built[i].batch)
=============================================================================
