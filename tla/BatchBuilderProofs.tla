------------------------- MODULE BatchBuilderProofs -------------------------
(***************************************************************************)
(* Proofs about the batch builder, for any number of builders, threads and *)
(* calls.  IDs are unique because every issued one carries a number below  *)
(* its builder's next_sequence_, and no two issues by one builder carry    *)
(* the same; batches under construction are part of the invariant.         *)
(***************************************************************************)
EXTENDS BatchBuilder, SequenceTheorems, TLAPS

Object == [client_id_ : ClientIds, session_nonce_ : Nonces, next_sequence_ : 1..MaxSequence]

\* A batch with a number its builder has given out.
Issued(x) ==
  /\ x \in Issue
  /\ x.batch.batch_id = <<builders[x.by].client_id_, builders[x.by].session_nonce_,
                          x.batch.batch_id[3]>>
  /\ x.batch.batch_id[3] < builders[x.by].next_sequence_
  /\ IsValid(x.batch)

Distinct(x, y) == x.by = y.by => x.batch.batch_id[3] # y.batch.batch_id[3]

Fresh ==
  /\ \A i \in DOMAIN built : Issued(built[i])
  /\ \A t \in Threads : building[t] # None => Issued(building[t])
  /\ \A i, j \in DOMAIN built : i # j => Distinct(built[i], built[j])
  /\ \A i \in DOMAIN built, t \in Threads :
        building[t] # None => Distinct(built[i], building[t])
  /\ \A t, u \in Threads :
        t # u /\ building[t] # None /\ building[u] # None => Distinct(building[t], building[u])

IInv == TypeOK /\ Fresh

-----------------------------------------------------------------------------
\* Two builds agree on what is acceptable: build() lets nothing through that the
\* store refuses.
LEMMA AcceptedIsValid ==
  ASSUME NEW b \in 1..Len(builders), NEW metrics \in MetricLists, TypeOK,
         BuildError(builders[b].client_id_, metrics) = None
  PROVE  IsValid(NewBatch(b, metrics))
<1>1. /\ builders[b].client_id_ # Empty /\ metrics # <<>>
      /\ \A i \in DOMAIN metrics : metrics[i].name # Empty /\ metrics[i].value # NonFinite
  BY BuilderAssumption DEF BuildError
<1>2. builders[b] \in Object
  BY ElementOfSeq DEF TypeOK, Object
<1>3. NewBatch(b, metrics).batch_id \in ClientIds \X Nonces \X Nat
  BY <1>2, BuilderAssumption DEF NewBatch, Object
<1>4. NewBatch(b, metrics).batch_id # Empty
  BY <1>3, BuilderAssumption
<1> QED BY <1>1, <1>4 DEF IsValid, Metrics, NewBatch

\* A batch stays issued when its builder's number grows or builders are added.
LEMMA StaysIssued ==
  ASSUME NEW x, Issued(x), TypeOK, TypeOK',
         Len(builders') >= Len(builders),
         \A b \in 1..Len(builders) :
            /\ builders'[b].client_id_ = builders[b].client_id_
            /\ builders'[b].session_nonce_ = builders[b].session_nonce_
            /\ builders'[b].next_sequence_ >= builders[b].next_sequence_
  PROVE  Issued(x)'
<1>1. /\ Len(builders) \in Nat /\ Len(builders') \in Nat
      /\ x.by \in 1..Len(builders) /\ x.batch \in Batches /\ x = [by |-> x.by, batch |-> x.batch]
      /\ MaxSequence \in Nat
  BY LenProperties, BuilderAssumption DEF TypeOK, Issued, Issue
<1>2. x.by \in 1..Len(builders')
  BY <1>1
<1>3. x \in Issue'
  BY <1>1, <1>2 DEF Issue, Batches
<1>4. builders[x.by] \in Object /\ builders'[x.by] \in Object
  BY <1>1, <1>2, ElementOfSeq DEF TypeOK, Object
<1>5. x.batch.batch_id[3] \in Int
  BY <1>1 DEF Batches
<1>6. /\ builders'[x.by].next_sequence_ \in Int /\ builders[x.by].next_sequence_ \in Int
      /\ builders'[x.by].next_sequence_ >= builders[x.by].next_sequence_
  BY <1>1, <1>4 DEF Object
<1>7. x.batch.batch_id[3] < builders'[x.by].next_sequence_
  BY <1>5, <1>6 DEF Issued
<1> QED BY <1>1, <1>3, <1>7 DEF Issued

\* More builders make more issues possible.
LEMMA IssueGrows ==
  ASSUME TypeOK, Len(builders') \in Nat, Len(builders') >= Len(builders)
  PROVE  /\ Issue \subseteq Issue'
         /\ built \in Seq(Issue')
         /\ building \in [Threads -> Issue' \cup {None}]
<1>1. Len(builders) \in Nat /\ 1..Len(builders) \subseteq 1..Len(builders')
  BY LenProperties DEF TypeOK
<1>2. Issue \subseteq Issue'
  BY <1>1 DEF Issue, Batches
<1>3. built \in Seq(Issue')
  BY <1>2, SeqMonotonic DEF TypeOK
<1> QED BY <1>2, <1>3 DEF TypeOK

\* A new session starts its own numbers and touches no batch.
LEMMA ConstructKeepsIInv ==
  ASSUME IInv, NEW client_id \in ClientIds, NEW nonce \in Nonces, Construct(client_id, nonce)
  PROVE  IInv'
<1> DEFINE new == [client_id_ |-> client_id, session_nonce_ |-> nonce, next_sequence_ |-> 1]
<1>1. builders \in Seq(Object) /\ new \in Object /\ Len(builders) \in Nat
  BY LenProperties, BuilderAssumption DEF IInv, TypeOK, Object
<1>2. builders' = Append(builders, new) /\ building' = building /\ built' = built
  BY DEF Construct
<1> HIDE DEF new
<1>3. /\ builders' \in Seq(Object) /\ Len(builders') = Len(builders) + 1
      /\ \A b \in 1..Len(builders) : builders'[b] = builders[b]
  BY <1>1, <1>2, AppendProperties
<1>4. TypeOK'
  BY <1>1, <1>2, <1>3, IssueGrows DEF IInv, TypeOK, Object
<1>5. /\ Len(builders') >= Len(builders)
      /\ \A b \in 1..Len(builders) :
            builders[b].next_sequence_ \in Int /\ builders'[b] = builders[b]
  <2>1. \A b \in 1..Len(builders) : builders[b] \in Object
    BY <1>1, ElementOfSeq
  <2>2. \A b \in 1..Len(builders) : builders[b].next_sequence_ \in Int
    BY <2>1 DEF Object
  <2> QED BY <1>1, <1>3, <2>2
<1>6. ASSUME NEW x, Issued(x) PROVE Issued(x)'
  BY <1>4, <1>5, <1>6, StaysIssued DEF IInv
<1>7. Fresh'
  BY <1>2, <1>6 DEF IInv, Fresh, Distinct
<1> QED BY <1>4, <1>7 DEF IInv

\* The number taken is above every one its builder has issued, and below the next.
LEMMA TakeSequenceKeepsIInv ==
  ASSUME IInv, NEW t \in Threads, NEW b \in DOMAIN builders, NEW metrics \in MetricLists,
         TakeSequence(t, b, metrics)
  PROVE  IInv'
<1>0. PICK new : new = [by |-> b, batch |-> NewBatch(b, metrics)]
  OBVIOUS
<1> DEFINE number == builders[b].next_sequence_
           object == [builders[b] EXCEPT !.next_sequence_ = @ + 1]
<1>1. /\ builders \in Seq(Object) /\ Len(builders) \in Nat /\ b \in 1..Len(builders)
      /\ builders[b] \in Object /\ number \in Nat /\ number < MaxSequence
      /\ MaxSequence \in Nat
  <2>1. builders \in Seq(Object) /\ MaxSequence \in Nat
    BY BuilderAssumption DEF IInv, TypeOK, Object
  <2>2. Len(builders) \in Nat /\ b \in 1..Len(builders)
    BY <2>1, LenProperties
  <2>3. builders[b] \in Object
    BY <2>1, <2>2, ElementOfSeq
  <2>4. number \in Nat
    BY <2>1, <2>3 DEF Object
  <2>5. number < MaxSequence
    BY DEF TakeSequence
  <2> QED BY <2>1, <2>2, <2>3, <2>4, <2>5
<1>2. object \in Object /\ object.next_sequence_ = number + 1
  BY <1>1 DEF Object
<1>3. /\ builders' = [builders EXCEPT ![b] = object]
      /\ building' = [building EXCEPT ![t] = new] /\ built' = built
  BY <1>0 DEF TakeSequence, FetchAdd
<1>4. /\ builders' \in Seq(Object) /\ Len(builders') = Len(builders)
      /\ \A c \in 1..Len(builders) : builders'[c] = IF c = b THEN object ELSE builders[c]
  <2> HIDE DEF object
  <2> QED BY <1>1, <1>2, <1>3, ExceptSeq
<1>5. new \in Issue /\ new.by = b /\ new.batch.batch_id[3] = number
  BY <1>0, <1>1 DEF Issue, Batches, NewBatch, Object
<1>6. TypeOK'
  <2>1. /\ Issue \subseteq Issue' /\ built \in Seq(Issue')
        /\ building \in [Threads -> Issue' \cup {None}]
    BY <1>1, <1>4, IssueGrows DEF IInv
  <2> QED BY <1>3, <1>4, <1>5, <2>1 DEF TypeOK, Object
<1>7. /\ Len(builders') >= Len(builders)
      /\ \A c \in 1..Len(builders) :
            /\ builders'[c].client_id_ = builders[c].client_id_
            /\ builders'[c].session_nonce_ = builders[c].session_nonce_
            /\ builders'[c].next_sequence_ >= builders[c].next_sequence_
  <2>1. \A c \in 1..Len(builders) : builders[c] \in Object
    BY <1>1, ElementOfSeq
  <2>2. \A c \in 1..Len(builders) : builders[c].next_sequence_ \in Int
    BY <1>1, <2>1 DEF Object
  <2>3. /\ object.client_id_ = builders[b].client_id_
        /\ object.session_nonce_ = builders[b].session_nonce_
    BY <1>1 DEF Object
  <2> HIDE DEF object
  <2> QED BY <1>1, <1>2, <1>4, <2>2, <2>3
<1>8. ASSUME NEW x, Issued(x) PROVE Issued(x)'
  BY <1>6, <1>7, <1>8, StaysIssued DEF IInv
<1>9. ASSUME NEW x, Issued(x) PROVE Distinct(x, new) /\ Distinct(new, x)
  <2>1. x.by = b => x.batch.batch_id[3] < number
    BY <1>9 DEF Issued
  <2>2. x.batch.batch_id[3] \in Int
    BY <1>9 DEF Issued, Issue, Batches
  <2> QED BY <1>1, <1>5, <2>1, <2>2 DEF Distinct
<1>10. Issued(new)'
  <2>1. IsValid(new.batch)
    BY <1>0, <1>1, AcceptedIsValid DEF IInv, TakeSequence
  <2>2. new \in Issue'
    BY <1>4, <1>1, <1>5, IssueGrows DEF IInv
  <2>3. new.batch.batch_id = <<builders[b].client_id_, builders[b].session_nonce_, number>>
    BY <1>0 DEF NewBatch
  <2>4. /\ builders'[b] = object
        /\ object.client_id_ = builders[b].client_id_
        /\ object.session_nonce_ = builders[b].session_nonce_
    BY <1>1, <1>4 DEF Object
  <2> HIDE DEF object, number
  <2>5. number < builders'[b].next_sequence_
    BY <1>1, <1>2, <2>4
  <2> QED BY <1>5, <2>1, <2>2, <2>3, <2>4, <2>5 DEF Issued
<1>11. \A u \in Threads : building'[u] = IF u = t THEN new ELSE building[u]
  BY <1>3 DEF IInv, TypeOK
<1>12. Fresh'
  <2>1. \A i \in DOMAIN built : Issued(built[i])
    BY DEF IInv, Fresh
  <2>2. \A u \in Threads : building[u] # None => Issued(building[u])
    BY DEF IInv, Fresh
  <2> HIDE DEF number, object
  <2>3. (\A i \in DOMAIN built : Issued(built[i]))'
    BY <1>3, <1>8, <2>1
  <2>4. (\A u \in Threads : building[u] # None => Issued(building[u]))'
    BY <1>8, <1>10, <1>11, <2>2
  <2>5. \A i \in DOMAIN built : Distinct(built[i], new)
    BY <1>9, <2>1
  <2>6. \A u \in Threads : building[u] # None =>
           Distinct(building[u], new) /\ Distinct(new, building[u])
    BY <1>9, <2>2
  <2>7. (\A i \in DOMAIN built, u \in Threads :
           building[u] # None => Distinct(built[i], building[u]))'
    BY <1>3, <1>11, <2>5 DEF IInv, Fresh, Distinct
  <2>8. (\A u, v \in Threads :
           u # v /\ building[u] # None /\ building[v] # None => Distinct(building[u], building[v]))'
    BY <1>11, <2>6 DEF IInv, Fresh, Distinct
  <2>9. (\A i, j \in DOMAIN built : i # j => Distinct(built[i], built[j]))'
    BY <1>3 DEF IInv, Fresh, Distinct
  <2> QED BY <2>3, <2>4, <2>7, <2>8, <2>9 DEF Fresh
<1> QED BY <1>6, <1>12 DEF IInv

\* A thread is done, with or without its batch: what the others build stays.
LEMMA ThreadDone ==
  ASSUME IInv, NEW t \in Threads, building[t] # None, UNCHANGED builders,
         building' = [building EXCEPT ![t] = None],
         built' = built \/ built' = Append(built, building[t])
  PROVE  IInv'
<1>1. /\ \A u \in Threads : building'[u] = IF u = t THEN None ELSE building[u]
      /\ building[t] \in Issue /\ built \in Seq(Issue) /\ Issue' = Issue
  BY DEF IInv, TypeOK, Issue, Batches
<1>2. /\ built' \in Seq(Issue)
      /\ \A i \in DOMAIN built' : \/ i \in DOMAIN built /\ built'[i] = built[i]
                                  \/ i \notin DOMAIN built /\ built'[i] = building[t]
      /\ \A i, j \in DOMAIN built' : i # j => i \in DOMAIN built \/ j \in DOMAIN built
  <2>1. CASE built' = built
    BY <1>1, <2>1
  <2>2. CASE built' = Append(built, building[t])
    <3>1. /\ Len(built) \in Nat /\ DOMAIN built = 1..Len(built)
          /\ built' \in Seq(Issue) /\ Len(built') = Len(built) + 1
          /\ DOMAIN built' = 1..Len(built')
          /\ \A i \in 1..Len(built) : built'[i] = built[i]
          /\ built'[Len(built) + 1] = building[t]
      BY <1>1, <2>2, LenProperties, AppendProperties
    <3>2. \A i \in DOMAIN built' : i \in DOMAIN built \/ i = Len(built) + 1
      BY <3>1
    <3>3. Len(built) + 1 \notin DOMAIN built
      BY <3>1
    <3> QED BY <3>1, <3>2, <3>3
  <2> QED BY <2>1, <2>2
<1>3. TypeOK'
  BY <1>1, <1>2 DEF IInv, TypeOK
<1>4. ASSUME NEW x, Issued(x) PROVE Issued(x)'
  BY <1>1, <1>4 DEF Issued
<1>5. /\ \A i \in DOMAIN built : Issued(built[i])
      /\ \A u \in Threads : building[u] # None => Issued(building[u])
  BY DEF IInv, Fresh
<1>6. (\A i \in DOMAIN built : Issued(built[i]))'
  BY <1>2, <1>4, <1>5
<1>7. (\A u \in Threads : building[u] # None => Issued(building[u]))'
  BY <1>1, <1>4, <1>5
<1>8. (\A i, j \in DOMAIN built : i # j => Distinct(built[i], built[j]))'
  BY <1>2 DEF IInv, Fresh, Distinct
<1>9. (\A i \in DOMAIN built, u \in Threads :
         building[u] # None => Distinct(built[i], building[u]))'
  BY <1>1, <1>2 DEF IInv, Fresh, Distinct
<1>10. (\A u, v \in Threads :
          u # v /\ building[u] # None /\ building[v] # None => Distinct(building[u], building[v]))'
  BY <1>1 DEF IInv, Fresh, Distinct
<1> QED BY <1>3, <1>6, <1>7, <1>8, <1>9, <1>10 DEF IInv, Fresh

\* IInv is inductive.
LEMMA StepKeepsIInv == IInv /\ [Next]_vars => IInv'
<1> SUFFICES ASSUME IInv, [Next]_vars PROVE IInv'
  OBVIOUS
<1>1. ASSUME NEW client_id \in ClientIds, NEW nonce \in Nonces, Construct(client_id, nonce)
      PROVE  IInv'
  BY <1>1, ConstructKeepsIInv
<1>2. ASSUME NEW t \in Threads, NEW b \in DOMAIN builders, NEW metrics \in MetricLists,
             TakeSequence(t, b, metrics)
      PROVE  IInv'
  BY <1>2, TakeSequenceKeepsIInv
<1>3. ASSUME NEW t \in Threads, ReturnBatch(t) PROVE IInv'
  BY <1>3, ThreadDone DEF ReturnBatch
<1>4. ASSUME NEW t \in Threads, BuildThrows(t) PROVE IInv'
  BY <1>4, ThreadDone DEF BuildThrows
<1>5. CASE UNCHANGED vars
  BY <1>5 DEF vars, IInv, TypeOK, Issue, Batches, Fresh, Issued, Distinct
<1> QED BY <1>1, <1>2, <1>3, <1>4, <1>5 DEF Next

\* Every reachable state satisfies the invariant.
LEMMA Invariance == Spec => []IInv
<1>1. Init => IInv
  BY DEF Init, IInv, TypeOK, Fresh
<1> QED BY <1>1, StepKeepsIInv, PTL DEF Spec

\* The numbers stay in their range, and every batch has its builder, for any
\* number of threads that call build() of any number of builders.
THEOREM TypeCorrect == Spec => []TypeOK
<1>1. IInv => TypeOK
  BY DEF IInv
<1> QED BY <1>1, Invariance, PTL

\* Two batches that next_batch_id() gave one ID come from different builders of
\* one client whose random_device yielded the same nonce.
THEOREM IdsNeverReused == Spec => []IdsUnique
<1>1. IInv => IdsUnique
  <2> SUFFICES ASSUME IInv, NEW i \in DOMAIN built, NEW j \in DOMAIN built, i # j,
                      built[i].batch.batch_id = built[j].batch.batch_id
               PROVE  /\ built[i].by # built[j].by
                      /\ builders[built[i].by].session_nonce_ = builders[built[j].by].session_nonce_
                      /\ builders[built[i].by].client_id_ = builders[built[j].by].client_id_
    BY DEF IdsUnique
  <2>1. Issued(built[i]) /\ Issued(built[j]) /\ Distinct(built[i], built[j])
    BY DEF IInv, Fresh
  <2>2. built[i].by # built[j].by
    BY <2>1 DEF Distinct
  <2> DEFINE x == builders[built[i].by]
             y == builders[built[j].by]
             n == built[i].batch.batch_id[3]
  <2>3. <<x.client_id_, x.session_nonce_, n>> = <<y.client_id_, y.session_nonce_, n>>
    BY <2>1 DEF Issued
  <2>4. x.client_id_ = y.client_id_ /\ x.session_nonce_ = y.session_nonce_
    BY <2>3
  <2> QED BY <2>2, <2>4
<1> QED BY <1>1, Invariance, PTL

\* Whatever build() returns, validate_batch() of the store accepts.
THEOREM NothingRefusedByTheStore == Spec => []AcceptableToStore
<1>1. IInv => AcceptableToStore
  BY DEF IInv, Fresh, Issued, AcceptableToStore
<1> QED BY <1>1, Invariance, PTL
=============================================================================
