------------------------ MODULE CollectorSmokeProofs ------------------------
(***************************************************************************)
(* Proofs about the procfs collector, for every word size and all contents *)
(* of the two sources, and about the program that passes its samples on.   *)
(* TypeOK and IntervalsAdjacent are inductive together, because a parser   *)
(* returns words or nothing; exactness of the subtractions follows from    *)
(* the checks that precede them.  The program's invariant needs that of    *)
(* the collector: a sample has no whole of zero, so build() accepts it.    *)
(***************************************************************************)
EXTENDS CollectorSmoke, WellFoundedInduction, SequenceTheorems, TLAPS

\* A subtraction that does not go below zero does not wrap.
LEMMA MinusExact ==
  ASSUME NEW a \in 0..MaxWord, NEW b \in 0..MaxWord
  PROVE  /\ Minus(a, b) \in 0..MaxWord
         /\ b <= a => Minus(a, b) = a - b
<1>1. MaxWord \in Nat
  BY WordAssumption
<1>2. \A m \in Nat \ {0} : \A x \in Int : x % m \in 0..(m - 1)
  OBVIOUS
<1>3. \A m \in Nat \ {0} : \A x \in 0..(m - 1) : x % m = x
  OBVIOUS
<1>4. /\ a \in Int /\ b \in Int /\ a - b \in Int
      /\ b <= a => a - b \in 0..MaxWord
      /\ MaxWord + 1 \in Nat \ {0} /\ (MaxWord + 1) - 1 = MaxWord
  BY <1>1
<1>5. (a - b) % (MaxWord + 1) \in 0..MaxWord
  BY <1>2, <1>4
<1>6. ASSUME b <= a PROVE (a - b) % (MaxWord + 1) = a - b
  BY <1>3, <1>4, <1>6
<1> QED BY <1>5, <1>6 DEF Minus

\* The last line with a key: CHOOSE finds a greatest position.
LEMMA NonEmptyHasGreatest ==
  ASSUME NEW n \in Nat, NEW T, T \subseteq 1..n, T # {}
  PROVE  \E i \in T : \A j \in T : j <= i
<1> DEFINE R == {p \in Nat \X Nat : p[1] < p[2]}
           U == {u \in Nat : n - u \in T}
<1>1. IsWellFoundedOn(R, Nat)
  BY NatLessThanWellFounded DEF OpToRel
<1>2. \A i \in T : i \in 1..n
  OBVIOUS
<1>3. \A i \in T : n - i \in U
  BY <1>2
<1>4. U \subseteq Nat /\ U # {}
  BY <1>3
<1>5. PICK u \in U : \A v \in U : <<v, u>> \notin R
  <2> HIDE DEF R, U
  <2> QED BY <1>1, <1>4, WFMin
<1>6. \A v \in U : ~(v < u)
  BY <1>5
<1>7. n - u \in T /\ u \in Nat
  OBVIOUS
<1>8. \A j \in T : j <= n - u
  <2> HIDE DEF U
  <2> QED BY <1>2, <1>3, <1>6, <1>7
<1> QED BY <1>7, <1>8

\* Sizes in bytes keep the order of the sizes in kB, and fit into a word.
LEMMA BytesExact ==
  ASSUME NEW kb \in Nat, kb <= MaxWord \div kBytesPerKilobyte
  PROVE  /\ (kb * kBytesPerKilobyte) % (MaxWord + 1) = kb * kBytesPerKilobyte
         /\ kb * kBytesPerKilobyte \in 0..MaxWord
<1>1. MaxWord \in Nat /\ kBytesPerKilobyte \in Nat \ {0}
  BY WordAssumption
<1>2. (MaxWord \div kBytesPerKilobyte) * kBytesPerKilobyte <= MaxWord
  BY <1>1
<1>3. kb * kBytesPerKilobyte <= (MaxWord \div kBytesPerKilobyte) * kBytesPerKilobyte
  BY <1>1
<1>4. kb * kBytesPerKilobyte \in 0..MaxWord
  BY <1>1, <1>2, <1>3
<1>5. \A m \in Nat \ {0} : \A x \in 0..(m - 1) : x % m = x
  OBVIOUS
<1> QED BY <1>1, <1>4, <1>5

\* Extraction stores a word, whether it succeeds or fails.
LEMMA ExtractInRange ==
  ASSUME NEW word \in {Garbage} \cup Int
  PROVE  Extract(word) \in 0..MaxWord
<1>1. MaxWord \in Nat
  BY WordAssumption
<1>2. CASE word = Garbage
  BY <1>1, <1>2 DEF Extract
<1>3. CASE word # Garbage
  <2>1. \A m \in Nat \ {0} : \A x \in Int : x % m \in 0..(m - 1)
    OBVIOUS
  <2>2. MaxWord + 1 \in Nat \ {0} /\ (MaxWord + 1) - 1 = MaxWord /\ word \in Int
    BY <1>1, <1>3
  <2>3. word % (MaxWord + 1) \in 0..MaxWord
    BY <2>1, <2>2
  <2> QED BY <1>1, <1>3, <2>3 DEF Extract
<1> QED BY <1>2, <1>3

Words == {Garbage} \cup Int

\* The sum over the fields is a number.
LEMMA SumOfEight ==
  ASSUME NEW f, \A i \in 1..8 : f[i] \in Nat
  PROVE  f[1] + f[2] + f[3] + f[4] + f[5] + f[6] + f[7] + f[8] \in Nat
<1>1. /\ f[1] \in Nat /\ f[2] \in Nat /\ f[3] \in Nat /\ f[4] \in Nat
      /\ f[5] \in Nat /\ f[6] \in Nat /\ f[7] \in Nat /\ f[8] \in Nat
  OBVIOUS
<1> QED BY <1>1

\* The counters parse_cpu_counters() returns are words.
LEMMA CpuCountersAreWords ==
  ASSUME NEW row \in Seq(Words)
  PROVE  ParseCpuCounters(row) \in Counters \cup {None}
<1> DEFINE n == FieldCount(row)
           f == [i \in 1..8 |-> IF i <= n THEN Fields(row)[i] ELSE 0]
<1>1. MaxWord \in Nat
  BY WordAssumption
<1>2. ASSUME NEW i \in 1..8 PROVE Fields(row)[i] \in 0..MaxWord
  <2>1. i <= Len(row) => row[i] \in Words
    BY LenProperties, ElementOfSeq
  <2>2. i <= Len(row) => Extract(row[i]) \in 0..MaxWord
    BY <2>1, ExtractInRange DEF Words
  <2> QED BY <1>1, <2>2 DEF Fields
<1>3. \A i \in 1..8 : f[i] \in Nat
  BY <1>1, <1>2
<1>4. Total(row) = f[1] + f[2] + f[3] + f[4] + f[5] + f[6] + f[7] + f[8]
  BY DEF Total
<1>5. Total(row) \in Nat
  <2> HIDE DEF f
  <2> QED BY <1>3, <1>4, SumOfEight
<1>6. Fields(row)[4] + Fields(row)[5] \in Nat
  <2>1. Fields(row)[4] \in Nat /\ Fields(row)[5] \in Nat
    BY <1>1, <1>2
  <2> QED BY <2>1
<1> QED BY <1>1, <1>5, <1>6 DEF ParseCpuCounters, Counters

Line == [key : STRING, word : Words]

Sizes == [total : Nat, available : Nat, used : Nat]

\* The sizes parse_memory_metrics() returns are words: used and available make the total.
LEMMA MemoryAddsUp ==
  ASSUME NEW lines \in Seq(Line), ParseMemory(lines) # None
  PROVE  LET memory == ParseMemory(lines)
         IN  /\ memory.total > 0 /\ memory.used + memory.available = memory.total
             /\ memory \in Sizes
<1> DEFINE K == kBytesPerKilobyte
           total == Value(lines, "MemTotal:")
           available == Value(lines, "MemAvailable:")
           Bytes(kb) == (kb * K) % (MaxWord + 1)
<1>1. MaxWord \in Nat /\ K \in Nat \ {0} /\ MaxWord \div K \in Nat
  BY WordAssumption
<1>2. ASSUME NEW key, Given(lines, key) # {}
      PROVE  Value(lines, key) \in 0..MaxWord
  <2>1. Len(lines) \in Nat /\ Given(lines, key) \subseteq 1..Len(lines)
    BY LenProperties DEF Given
  <2>2. \E i \in Given(lines, key) : \A j \in Given(lines, key) : j <= i
    BY <1>2, <2>1, NonEmptyHasGreatest
  <2>3. PICK i \in Given(lines, key) : Value(lines, key) = Extract(lines[i].word)
    BY <2>2 DEF Value
  <2>4. lines[i] \in Line
    BY <2>1, <2>3, ElementOfSeq
  <2> QED BY <2>3, <2>4, ExtractInRange DEF Line, Words
<1>3. /\ total \in 0..MaxWord /\ available \in 0..MaxWord
      /\ total # 0 /\ ~(available > total) /\ ~(total > MaxWord \div K)
      /\ ParseMemory(lines) = [total     |-> Bytes(total),
                               available |-> Bytes(available),
                               used      |-> Minus(Bytes(total), Bytes(available))]
  <2>1. /\ Given(lines, "MemTotal:") # {} /\ Given(lines, "MemAvailable:") # {}
        /\ total # 0 /\ ~(available > total) /\ ~(total > MaxWord \div K)
    BY DEF ParseMemory
  <2>2. ParseMemory(lines) = [total     |-> Bytes(total),
                              available |-> Bytes(available),
                              used      |-> Minus(Bytes(total), Bytes(available))]
    BY DEF ParseMemory
  <2> QED BY <1>2, <2>1, <2>2
<1> HIDE DEF total, available
<1>4. /\ total \in Nat /\ available \in Nat /\ total >= 1 /\ available <= total
      /\ total <= MaxWord \div K /\ available <= MaxWord \div K
  BY <1>1, <1>3
<1>5. /\ Bytes(total) = total * K /\ Bytes(available) = available * K
      /\ total * K \in 0..MaxWord /\ available * K \in 0..MaxWord
  BY <1>4, BytesExact
<1>6. available * K <= total * K /\ total * K > 0
  BY <1>1, <1>4
<1>7. Minus(total * K, available * K) = total * K - available * K
  BY <1>5, <1>6, MinusExact
<1>8. ParseMemory(lines) = [total |-> total * K, available |-> available * K,
                            used |-> total * K - available * K]
  BY <1>3, <1>5, <1>7
<1>9. total * K \in Nat /\ available * K \in Nat /\ total * K - available * K \in Nat
  BY <1>1, <1>4, <1>6
<1> QED BY <1>6, <1>8, <1>9 DEF Sizes
-----------------------------------------------------------------------------
Shares == [active : Nat, total : Nat]

SampleTyped ==
  result.code = "Sample" => result.memory \in Sizes /\ result.cpu \in Shares \cup {None}

IInv == TypeOK /\ IntervalsAdjacent /\ SampleWithinBounds /\ SampleTyped

\* A usage report: the deltas are exact, so that the history meets the baseline.
LEMMA ReportKeepsIInv ==
  ASSUME IInv, NEW cpu \in Counters, NEW memory, ReportUsage(cpu, memory),
         memory.total > 0, memory.used + memory.available = memory.total,
         memory \in Sizes
  PROVE  IInv' /\ result'.cpu \in Shares
<1> DEFINE previous == previous_cpu_counters_
           total_delta == Minus(cpu.total, previous.total)
           idle_delta == Minus(cpu.idle, previous.idle)
           active_delta == Minus(total_delta, idle_delta)
<1>1. MaxWord \in Nat
  BY WordAssumption
<1>2. /\ previous \in Counters /\ accounted = previous
      /\ ~InvalidDelta(previous, cpu)
  BY DEF ReportUsage, IInv, TypeOK, IntervalsAdjacent
<1>3. /\ cpu.total \in 0..MaxWord /\ cpu.idle \in 0..MaxWord
      /\ previous.total \in 0..MaxWord /\ previous.idle \in 0..MaxWord
  BY <1>2 DEF Counters
<1>4. /\ previous.total < cpu.total /\ previous.total <= cpu.total /\ previous.idle <= cpu.idle
      /\ ~(idle_delta > total_delta)
  BY <1>1, <1>2, <1>3 DEF InvalidDelta
<1>5. total_delta = cpu.total - previous.total /\ total_delta \in 0..MaxWord
  BY <1>1, <1>3, <1>4, MinusExact
<1>6. idle_delta = cpu.idle - previous.idle /\ idle_delta \in 0..MaxWord
  BY <1>1, <1>3, <1>4, MinusExact
<1>7. active_delta = total_delta - idle_delta /\ active_delta \in 0..MaxWord
  <2> HIDE DEF total_delta, idle_delta
  <2> QED BY <1>1, <1>4, <1>5, <1>6, MinusExact
<1>8. /\ previous_cpu_counters_' = cpu
      /\ result' = [code   |-> "Sample",
                    cpu    |-> [active |-> active_delta, total |-> total_delta],
                    memory |-> memory]
      /\ accounted' = [total |-> previous.total + total_delta,
                       idle  |-> previous.idle + (total_delta - active_delta)]
  BY <1>2 DEF ReportUsage
<1> HIDE DEF total_delta, idle_delta, active_delta
<1>9. accounted' = [total |-> cpu.total, idle |-> cpu.idle]
  <2>1. /\ previous.total + total_delta = cpu.total
        /\ previous.idle + (total_delta - active_delta) = cpu.idle
    BY <1>1, <1>3, <1>5, <1>6, <1>7
  <2> QED BY <1>8, <2>1
<1>10. accounted' = cpu
  BY <1>9 DEF Counters
<1>11. total_delta > 0 /\ active_delta <= total_delta
  BY <1>1, <1>3, <1>4, <1>5, <1>6, <1>7
<1>12. result'.cpu \in Shares
  BY <1>1, <1>5, <1>7, <1>8 DEF Shares
<1> QED BY <1>8, <1>10, <1>11, <1>12 DEF IInv, TypeOK, IntervalsAdjacent, SampleWithinBounds, SampleTyped

\* Every way a call ends keeps the invariant, and only a sample taken without a
\* baseline lacks the CPU usage.
LEMMA CollectKeepsIInv ==
  ASSUME IInv, NEW stat \in StatSources, NEW meminfo \in MeminfoSources,
         Collect(stat, meminfo)
  PROVE  /\ IInv'
         /\ result'.code = "Sample" =>
              /\ previous_cpu_counters_' # None
              /\ result'.cpu = None <=> previous_cpu_counters_ = None
<1> DEFINE cpu == ParseCpuCounters(stat)
           memory == ParseMemory(meminfo)
<1>0. None \notin Counters /\ None \notin Shares
  <2>1. Counters \subseteq [total : Nat, idle : Nat]
    BY WordAssumption DEF Counters
  <2> QED BY <2>1, SourcesAssumption, SmokeAssumption DEF Shares
<1>1. CASE ReadFails(stat, meminfo)
  BY <1>1 DEF ReadFails, IInv, TypeOK, IntervalsAdjacent, SampleWithinBounds, SampleTyped
<1>2. CASE Malformed(cpu, memory)
  BY <1>2 DEF Malformed, IInv, TypeOK, IntervalsAdjacent, SampleWithinBounds, SampleTyped
<1>3. ASSUME stat # ReadFailed, meminfo # ReadFailed, cpu # None, memory # None
      PROVE  /\ cpu \in Counters /\ memory \in Sizes
             /\ memory.total > 0 /\ memory.used + memory.available = memory.total
  <2>1. stat \in Seq(Words) /\ meminfo \in Seq(Line)
    BY <1>3, SourcesAssumption DEF Words, Line
  <2> QED BY <2>1, <1>3, CpuCountersAreWords, MemoryAddsUp
<1>4. CASE /\ stat # ReadFailed /\ meminfo # ReadFailed
           /\ cpu # None /\ memory # None
  <2> HIDE DEF cpu, memory
  <2>1. /\ cpu \in Counters /\ memory \in Sizes
        /\ memory.total > 0 /\ memory.used + memory.available = memory.total
    BY <1>3, <1>4
  <2>2. CASE FirstSample(cpu, memory)
    BY <1>0, <2>1, <2>2
       DEF FirstSample, IInv, TypeOK, IntervalsAdjacent, SampleWithinBounds, SampleTyped
  <2>3. CASE RejectDelta(cpu)
    BY <2>1, <2>3 DEF RejectDelta, IInv, TypeOK, IntervalsAdjacent, SampleWithinBounds, SampleTyped
  <2>4. CASE ReportUsage(cpu, memory)
    <3>1. IInv' /\ result'.cpu \in Shares
      BY <2>1, <2>4, ReportKeepsIInv
    <3>2. previous_cpu_counters_ # None /\ previous_cpu_counters_' = cpu
      BY <2>4 DEF ReportUsage
    <3> QED BY <1>0, <2>1, <3>1, <3>2
  <2>5. CASE ThrowsAfterBaseline(cpu)
    BY <2>1, <2>5
       DEF ThrowsAfterBaseline, IInv, TypeOK, IntervalsAdjacent, SampleWithinBounds, SampleTyped
  <2>6. \/ FirstSample(cpu, memory) \/ RejectDelta(cpu)
        \/ ReportUsage(cpu, memory) \/ ThrowsAfterBaseline(cpu)
        \/ ReadFails(stat, meminfo) \/ Malformed(cpu, memory)
    BY <1>4 DEF Collect, cpu, memory
  <2> QED BY <1>1, <1>2, <2>2, <2>3, <2>4, <2>5, <2>6
<1> QED BY <1>1, <1>2, <1>4 DEF Collect

\* Every step of the collector keeps the invariant.
LEMMA StepKeepsIInv == IInv /\ [Next]_vars => IInv'
<1>1. UNCHANGED vars /\ IInv => IInv'
  BY DEF vars, IInv, TypeOK, IntervalsAdjacent, SampleWithinBounds, SampleTyped
<1> QED BY <1>1, CollectKeepsIInv DEF Next

\* The invariant holds before the first call.
LEMMA InitialIInv == Init => IInv
BY DEF Init, IInv, TypeOK, IntervalsAdjacent, SampleWithinBounds, SampleTyped

\* The conjunction holds in every reachable state.
LEMMA Invariance == Spec => []IInv
BY InitialIInv, StepKeepsIInv, PTL DEF Spec

\* The stored counters are always words, whatever the sources say.
THEOREM TypeCorrect == Spec => []TypeOK
<1>1. IInv => TypeOK
  BY DEF IInv
<1> QED BY <1>1, Invariance, PTL

\* For every word size and all contents of the two sources, no CPU interval is
\* reported twice, and none is left out without an error.
THEOREM NoIntervalLost == Spec => []IntervalsAdjacent
<1>1. IInv => IntervalsAdjacent
  BY DEF IInv
<1> QED BY <1>1, Invariance, PTL

\* Every sample is a part of a whole that is not zero: its percentages are
\* finite and between 0 and 100.
THEOREM SamplesAreFractions == Spec => []SampleWithinBounds
<1>1. IInv => SampleWithinBounds
  BY DEF IInv
<1> QED BY <1>1, Invariance, PTL

-----------------------------------------------------------------------------
(* The program.  The invariant says at each call of main() how many        *)
(* batches were identified, returned and queued, and that the collector    *)
(* has a baseline from the first sample on.                                *)

Id(k) == <<"collector-smoke", nonce, k>>

SmokeMetric == [name  : {"cpu_usage_percent", "memory_used_bytes", "memory_available_bytes",
                         "memory_usage_percent"},
                value : Int \cup (Int \X Int)]
SmokeIssue  == [by    : {1},
                batch : [client_id : {"collector-smoke"}, batch_id : {Id(1), Id(2)},
                         metrics   : Seq(SmokeMetric)]]
SmokeEntry  == [batch_id : {Id(1), Id(2)}, in_flight : BOOLEAN]

\* Batch n: the first one lacks the CPU usage.
IsBatch(x, n) == /\ x \in SmokeIssue
                 /\ x.batch.batch_id = Id(n)
                 /\ Len(x.batch.metrics) = n + 2

Progress(identified, returned, queued) ==
  /\ builders = <<[client_id_     |-> "collector-smoke",
                   session_nonce_ |-> nonce,
                   next_sequence_ |-> identified + 1]>>
  /\ built \in Seq(SmokeIssue) /\ Len(built) = returned
  /\ \A i \in 1..returned : IsBatch(built[i], i)
  /\ batches \in Seq(SmokeEntry) /\ Len(batches) = queued
  /\ \A i \in 1..queued : batches[i].batch_id = Id(i)

AtCollect == \E n \in 0..1 : /\ Progress(n, n, n)
                             /\ previous_cpu_counters_ = None <=> n = 0

AtBuild == /\ previous_cpu_counters_ # None
           /\ \E n \in 0..1 : /\ Progress(n, n, n)
                              /\ result.code = "Sample" /\ (result.cpu = None <=> n = 0)

AtReturn == /\ previous_cpu_counters_ # None
            /\ \E n \in 0..1 : Progress(n + 1, n, n) /\ IsBatch(building["main"], n + 1)

AtEnqueue == /\ previous_cpu_counters_ # None
             /\ \E n \in 0..1 : Progress(n + 1, n + 1, n)

SmokeInv ==
  /\ building = [t \in {"main"} |-> building["main"]]
  /\ pc = "start" => /\ builders = <<>> /\ built = <<>> /\ batches = <<>>
                     /\ previous_cpu_counters_ = None
  /\ pc = "collect" => AtCollect
  /\ pc = "build"   => AtBuild
  /\ pc = "return"  => AtReturn
  /\ pc = "enqueue" => AtEnqueue
  /\ pc = "exit 0"  => Progress(2, 2, 2)
  /\ OnlyCollectionFails
  /\ pc \in {"start", "collect", "build", "return", "enqueue", "exit 0", "exit 1", "aborted"}

\* The builder is constructed with an identity and sequence number one.
LEMMA StartKeepsSmokeInv ==
  ASSUME SmokeInv, Start
  PROVE  SmokeInv'
<1>1. /\ pc = "start" /\ pc' = "collect" /\ UNCHANGED <<vars, building, built, batches>>
      /\ builders' = Append(builders, [client_id_     |-> "collector-smoke",
                                       session_nonce_ |-> nonce,
                                       next_sequence_ |-> 1])
  BY DEF Start, Builder!Construct, queueVars
<1>2. builders = <<>> /\ built = <<>> /\ batches = <<>> /\ previous_cpu_counters_ = None
  BY <1>1 DEF SmokeInv
<1>3. builders' = <<[client_id_     |-> "collector-smoke",
                     session_nonce_ |-> nonce,
                     next_sequence_ |-> 0 + 1]>>
  BY <1>1, <1>2
<1>4. <<>> \in Seq(SmokeIssue) /\ <<>> \in Seq(SmokeEntry) /\ Len(<<>>) = 0
  BY EmptySeq
<1>5. Progress(0, 0, 0)'
  BY <1>1, <1>2, <1>3, <1>4 DEF Progress
<1>6. AtCollect'
  BY <1>1, <1>2, <1>5 DEF AtCollect, vars
<1> QED BY <1>1, <1>6 DEF SmokeInv, OnlyCollectionFails

\* A call of collect() leads to a sample, to a collection error or to an
\* exception.
LEMMA CollectSampleKeepsSmokeInv ==
  ASSUME IInv, SmokeInv, CollectSample
  PROVE  SmokeInv'
<1>1. /\ pc = "collect" /\ UNCHANGED <<builders, building, built, batches>>
      /\ pc' = CASE result'.code = "Sample" -> "build"
                 [] result'.code = "Thrown" -> "aborted"
                 [] OTHER                   -> "exit 1"
  BY DEF CollectSample, builderVars, queueVars
<1>2. /\ IInv'
      /\ result'.code = "Sample" =>
              /\ previous_cpu_counters_' # None
              /\ result'.cpu = None <=> previous_cpu_counters_ = None
  <2>1. PICK stat \in StatSources, meminfo \in MeminfoSources : Collect(stat, meminfo)
    BY DEF CollectSample, Next
  <2> QED BY <2>1, CollectKeepsIInv
<1>3. result'.code \in {"ReadFailed", "MalformedSource", "Sample", "InvalidCounterDelta", "Thrown"}
  <2>1. PICK stat \in StatSources, meminfo \in MeminfoSources : Collect(stat, meminfo)
    BY DEF CollectSample, Next
  <2> QED BY <2>1 DEF Collect, ReadFails, Malformed, FirstSample, RejectDelta, ReportUsage,
                      ThrowsAfterBaseline
<1>4. CASE result'.code = "Sample"
  <2>1. pc' = "build"
    BY <1>1, <1>4
  <2>2. AtBuild'
    BY <1>1, <1>2, <1>4 DEF SmokeInv, AtCollect, AtBuild, Progress
  <2> QED BY <1>1, <1>2, <1>4, <2>1, <2>2 DEF SmokeInv, OnlyCollectionFails
<1>5. CASE result'.code = "Thrown"
  <2>1. pc' = "aborted"
    BY <1>1, <1>5
  <2> QED BY <1>1, <2>1 DEF SmokeInv, OnlyCollectionFails
<1>6. CASE result'.code \in {"ReadFailed", "MalformedSource", "InvalidCounterDelta"}
  <2>1. pc' = "exit 1"
    BY <1>1, <1>6
  <2> QED BY <1>1, <1>6, <2>1 DEF SmokeInv, OnlyCollectionFails
<1> QED BY <1>3, <1>4, <1>5, <1>6

\* What the collector computed passes the checks of build(): all values are
\* finite, because no whole is zero.
LEMMA SampleIsBuildable ==
  ASSUME IInv, result.code = "Sample"
  PROVE  /\ MetricsOf(result) \in Seq(SmokeMetric)
         /\ Len(MetricsOf(result)) = IF result.cpu = None THEN 3 ELSE 4
         /\ Builder!BuildError("collector-smoke", MetricsOf(result)) = None
<1>1. /\ result.memory.used \in Nat /\ result.memory.available \in Nat
      /\ result.memory.total \in Nat /\ result.memory.total > 0
      /\ result.cpu # None => /\ result.cpu.active \in Nat /\ result.cpu.total \in Nat
                              /\ result.cpu.total > 0
  BY DEF IInv, SampleTyped, SampleWithinBounds, Sizes, Shares
<1> DEFINE used      == [name |-> "memory_used_bytes", value |-> result.memory.used]
           available == [name |-> "memory_available_bytes", value |-> result.memory.available]
           percent   == [name |-> "memory_usage_percent",
                         value |-> Percent(result.memory.used, result.memory.total)]
           usage     == [name |-> "cpu_usage_percent",
                         value |-> Percent(result.cpu.active, result.cpu.total)]
           memory    == <<used, available, percent>>
<1>2. used \in SmokeMetric /\ available \in SmokeMetric /\ percent \in SmokeMetric
  BY <1>1 DEF SmokeMetric, Percent
<1>3. result.cpu # None => usage \in SmokeMetric
  BY <1>1 DEF SmokeMetric, Percent
<1>4. MetricsOf(result) = IF result.cpu = None THEN memory ELSE <<usage>> \o memory
  BY DEF MetricsOf
<1> HIDE DEF used, available, percent, usage
<1>5. memory \in Seq(SmokeMetric) /\ Len(memory) = 3
  BY <1>2
<1>6. result.cpu # None => <<usage>> \in Seq(SmokeMetric) /\ Len(<<usage>>) = 1
  BY <1>3
<1> HIDE DEF memory
<1>7. result.cpu # None => /\ <<usage>> \o memory \in Seq(SmokeMetric)
                           /\ Len(<<usage>> \o memory) = 4
  <2>1. \A a, b \in Seq(SmokeMetric) : a \o b \in Seq(SmokeMetric) /\ Len(a \o b) = Len(a) + Len(b)
    BY ConcatProperties
  <2>2. PICK a : a = <<usage>>
    OBVIOUS
  <2>3. PICK b : b = memory
    OBVIOUS
  <2>4. b \in Seq(SmokeMetric) /\ Len(b) = 3
    BY <1>5, <2>3
  <2>5. result.cpu # None => a \in Seq(SmokeMetric) /\ Len(a) = 1
    BY <1>6, <2>2
  <2>6. ASSUME result.cpu # None
        PROVE  a \o b \in Seq(SmokeMetric) /\ Len(a \o b) = 4
    <3>1. a \o b \in Seq(SmokeMetric) /\ Len(a \o b) = Len(a) + Len(b)
      BY <2>1, <2>4, <2>5, <2>6
    <3>2. Len(a) = 1 /\ Len(b) = 3
      BY <2>4, <2>5, <2>6
    <3>3. Len(a) + Len(b) = 4
      BY <3>2
    <3> QED BY <3>1, <3>3
  <2> QED BY <2>2, <2>3, <2>6
<1>8. PICK metrics : metrics = MetricsOf(result)
  OBVIOUS
<1>9. metrics \in Seq(SmokeMetric) /\ Len(metrics) = IF result.cpu = None THEN 3 ELSE 4
  BY <1>4, <1>5, <1>7, <1>8
<1>10. \A i \in DOMAIN metrics : metrics[i].name # Empty /\ metrics[i].value # NonFinite
  <2>1. \A i \in DOMAIN metrics : metrics[i] \in SmokeMetric
    BY <1>9, LenProperties, ElementOfSeq
  <2> QED BY <2>1, SmokeAssumption DEF SmokeMetric
<1>11. metrics # <<>> /\ "collector-smoke" # Empty
  <2>1. Len(metrics) # 0 /\ Len(<<>>) = 0
    BY <1>9
  <2> QED BY <2>1, SmokeAssumption
<1>12. Builder!BuildError("collector-smoke", metrics) = None
  BY <1>10, <1>11 DEF Builder!BuildError
<1> QED BY <1>8, <1>9, <1>12

\* build() accepts the sample and identifies the batch.
LEMMA BuildBatchKeepsSmokeInv ==
  ASSUME IInv, SmokeInv, BuildBatch
  PROVE  SmokeInv'
<1>1. /\ pc = "build" /\ UNCHANGED <<vars, batches>>
      /\ previous_cpu_counters_ # None /\ result.code = "Sample"
  BY DEF BuildBatch, SmokeInv, AtBuild, queueVars
<1>2. PICK n \in 0..1 : Progress(n, n, n) /\ (result.cpu = None <=> n = 0)
  BY <1>1 DEF SmokeInv, AtBuild
<1>3. PICK metrics : metrics = MetricsOf(result)
  OBVIOUS
<1>4. /\ metrics \in Seq(SmokeMetric) /\ Len(metrics) = n + 3
      /\ Builder!BuildError("collector-smoke", metrics) = None
  <2>1. Len(metrics) = IF n = 0 THEN 3 ELSE 4
    BY <1>1, <1>2, <1>3, SampleIsBuildable
  <2>2. n = 0 \/ n = 1
    OBVIOUS
  <2> QED BY <1>1, <1>3, <2>1, <2>2, SampleIsBuildable
<1>5. builders[1] = [client_id_ |-> "collector-smoke", session_nonce_ |-> nonce,
                     next_sequence_ |-> n + 1]
      /\ builders = <<builders[1]>>
  BY <1>2 DEF Progress
<1>6. Builder!TakeSequence("main", 1, metrics) /\ pc' = "return"
  BY <1>1, <1>3, <1>4, <1>5 DEF BuildBatch
<1>7. /\ building' = [building EXCEPT !["main"] = [by |-> 1, batch |-> Builder!NewBatch(1, metrics)]]
      /\ builders' = [builders EXCEPT ![1].next_sequence_ = @ + 1]
      /\ built' = built
  BY <1>6 DEF Builder!TakeSequence, Builder!FetchAdd
<1>8. builders' = <<[client_id_ |-> "collector-smoke", session_nonce_ |-> nonce,
                     next_sequence_ |-> (n + 1) + 1]>>
  BY <1>5, <1>7
<1>9. Builder!NewBatch(1, metrics) = [client_id |-> "collector-smoke", batch_id |-> Id(n + 1),
                                      metrics |-> metrics]
  BY <1>5 DEF Builder!NewBatch, Id
<1>10. building' = [t \in {"main"} |-> building'["main"]]
       /\ building'["main"] = [by |-> 1, batch |-> Builder!NewBatch(1, metrics)]
  BY <1>7 DEF SmokeInv
<1>11. IsBatch(building'["main"], n + 1)
  <2>1. Id(n + 1) \in {Id(1), Id(2)} /\ (n + 1) + 2 = n + 3
    BY <1>2
  <2> QED BY <1>4, <1>9, <1>10, <2>1 DEF IsBatch, SmokeIssue
<1>12. Progress(n + 1, n, n)'
  BY <1>1, <1>2, <1>7, <1>8 DEF Progress
<1>13. AtReturn'
  BY <1>1, <1>11, <1>12 DEF AtReturn, vars
<1> QED BY <1>6, <1>10, <1>13 DEF SmokeInv, OnlyCollectionFails

\* build() returns the batch that it identified, or throws.
LEMMA FinishBatchKeepsSmokeInv ==
  ASSUME SmokeInv, FinishBatch
  PROVE  SmokeInv'
<1>1. pc = "return" /\ UNCHANGED <<vars, batches>>
  BY DEF FinishBatch, queueVars
<1>2. previous_cpu_counters_ # None
  BY <1>1 DEF SmokeInv, AtReturn
<1>3. PICK n \in 0..1 : Progress(n + 1, n, n) /\ IsBatch(building["main"], n + 1)
  BY <1>1 DEF SmokeInv, AtReturn
<1>4. CASE Builder!ReturnBatch("main") /\ pc' = "enqueue"
  <2>1. /\ built' = Append(built, building["main"]) /\ builders' = builders
        /\ building' = [building EXCEPT !["main"] = None]
    BY <1>4 DEF Builder!ReturnBatch
  <2>2. building' = [t \in {"main"} |-> building'["main"]]
    BY <2>1 DEF SmokeInv
  <2>3. built \in Seq(SmokeIssue) /\ Len(built) = n /\ building["main"] \in SmokeIssue
    BY <1>3 DEF Progress, IsBatch
  <2>4. /\ built' \in Seq(SmokeIssue) /\ Len(built') = n + 1
        /\ \A i \in 1..n : built'[i] = built[i]
        /\ built'[n + 1] = building["main"]
    BY <2>1, <2>3, AppendProperties
  <2>5. \A i \in 1..(n + 1) : IsBatch(built'[i], i)
    <3>1. \A i \in 1..n : IsBatch(built[i], i)
      BY <1>3 DEF Progress
    <3>2. \A i \in 1..(n + 1) : i \in 1..n \/ i = n + 1
      OBVIOUS
    <3> QED BY <1>3, <2>4, <3>1, <3>2
  <2>6. Progress(n + 1, n + 1, n)'
    BY <1>1, <1>3, <2>1, <2>4, <2>5 DEF Progress
  <2>7. AtEnqueue'
    BY <1>1, <1>2, <2>6 DEF AtEnqueue, vars
  <2> QED BY <1>4, <2>2, <2>7 DEF SmokeInv, OnlyCollectionFails
<1>5. CASE Builder!BuildThrows("main") /\ pc' = "aborted"
  <2>1. building' = [building EXCEPT !["main"] = None]
    BY <1>5 DEF Builder!BuildThrows
  <2>2. building' = [t \in {"main"} |-> building'["main"]]
    BY <2>1 DEF SmokeInv
  <2> QED BY <1>5, <2>2 DEF SmokeInv, OnlyCollectionFails
<1> QED BY <1>4, <1>5 DEF FinishBatch

\* What build() returned has a client, an ID and metrics, the ID is not queued
\* and the queue has room: main() collects again after the first batch and ends
\* with 0 after the second.
LEMMA EnqueueBatchKeepsSmokeInv ==
  ASSUME SmokeInv, EnqueueBatch
  PROVE  SmokeInv'
<1>1. pc = "enqueue" /\ UNCHANGED <<vars, builders, building, built>>
  BY DEF EnqueueBatch, builderVars
<1>2. previous_cpu_counters_ # None
  BY <1>1 DEF SmokeInv, AtEnqueue
<1>3. PICK n \in 0..1 : Progress(n + 1, n + 1, n)
  BY <1>1 DEF SmokeInv, AtEnqueue
<1>v. PICK batch : batch = built[Len(built)].batch
  OBVIOUS
<1>4. PICK id : id = batch.batch_id
  OBVIOUS
<1>5. /\ id = Id(n + 1) /\ id \in {Id(1), Id(2)} /\ Len(built) = n + 1
      /\ batch.client_id = "collector-smoke" /\ batch.metrics \in Seq(SmokeMetric)
      /\ Len(batch.metrics) = (n + 1) + 2
  <2>1. Len(built) = n + 1 /\ IsBatch(built[n + 1], n + 1)
    BY <1>3 DEF Progress
  <2>2. n = 0 \/ n = 1
    OBVIOUS
  <2> QED BY <1>v, <1>4, <2>1, <2>2 DEF IsBatch, SmokeIssue
<1>w. ~IsInvalid(batch)
  <2>1. id # Empty
    BY <1>5, SmokeAssumption DEF Id
  <2>2. Len(batch.metrics) # 0 /\ Len(<<>>) = 0
    BY <1>5
  <2>3. batch.metrics # <<>>
    BY <2>2
  <2> QED BY <1>4, <1>5, <2>1, <2>3, SmokeAssumption DEF IsInvalid
<1>6. /\ batches \in Seq(SmokeEntry) /\ Len(batches) = n
      /\ \A i \in 1..n : batches[i].batch_id = Id(i)
  BY <1>3 DEF Progress
<1>7. id \notin Queue!QueuedIds
  <2>1. \A i \in DOMAIN batches : batches[i].batch_id = Id(i) /\ i \in 1..n
    BY <1>6, LenProperties
  <2>2. \A i \in 1..n : Id(i) # Id(n + 1)
    BY DEF Id
  <2> QED BY <1>5, <2>1, <2>2 DEF Queue!QueuedIds
<1>8. ~Queue!Full
  BY <1>6 DEF Queue!Full, Queue!capacity_
<1>9. /\ Queue!Enqueue(id)
      /\ pc' = CASE Len(batches') = Len(batches) -> "exit 1"
                 [] Len(built) = 1               -> "collect"
                 [] OTHER                        -> "exit 0"
  BY <1>v, <1>w, <1>4, <1>7 DEF EnqueueBatch
<1>10. batches' = Append(batches, [batch_id |-> id, in_flight |-> FALSE])
  BY <1>8, <1>9 DEF Queue!Enqueue, Queue!EnqueueWithRoom, Queue!EnqueueDropOldest,
                    Queue!EnqueueReject, Queue!NewEntry
<1>11. PICK entry : entry = [batch_id |-> id, in_flight |-> FALSE]
  OBVIOUS
<1>12. entry \in SmokeEntry /\ entry.batch_id = Id(n + 1)
  BY <1>5, <1>11 DEF SmokeEntry
<1>13. /\ batches' \in Seq(SmokeEntry) /\ Len(batches') = n + 1
       /\ \A i \in 1..n : batches'[i] = batches[i]
       /\ batches'[n + 1] = entry
  BY <1>6, <1>10, <1>11, <1>12, AppendProperties
<1>14. \A i \in 1..(n + 1) : batches'[i].batch_id = Id(i)
  <2>1. \A i \in 1..(n + 1) : i \in 1..n \/ i = n + 1
    OBVIOUS
  <2> QED BY <1>6, <1>12, <1>13, <2>1
<1>15. Progress(n + 1, n + 1, n + 1)'
  BY <1>1, <1>3, <1>13, <1>14 DEF Progress
<1>16. building' = [t \in {"main"} |-> building'["main"]]
  BY <1>1 DEF SmokeInv
<1>17. Len(batches') # Len(batches)
  BY <1>6, <1>13
<1>18. CASE n = 0
  <2>1. pc' = "collect"
    BY <1>5, <1>9, <1>17, <1>18
  <2>2. Progress(1, 1, 1)'
    BY <1>15, <1>18
  <2>3. AtCollect'
    BY <1>1, <1>2, <2>2 DEF AtCollect, vars
  <2> QED BY <1>16, <2>1, <2>3 DEF SmokeInv, OnlyCollectionFails
<1>19. CASE n = 1
  <2>1. pc' = "exit 0"
    <3>1. Len(built) # 1
      BY <1>5, <1>19
    <3> QED BY <1>9, <1>17, <3>1
  <2>2. Progress(2, 2, 2)'
    BY <1>15, <1>19
  <2> QED BY <1>16, <2>1, <2>2 DEF SmokeInv, OnlyCollectionFails
<1> QED BY <1>18, <1>19

\* An exception out of enqueue() ends the program.
LEMMA EnqueueAbortsKeepsSmokeInv ==
  ASSUME SmokeInv, EnqueueAborts
  PROVE  SmokeInv'
<1>1. pc' = "aborted" /\ UNCHANGED <<vars, builders, building, built, batches>>
  BY DEF EnqueueAborts, builderVars, queueVars
<1> QED BY <1>1 DEF SmokeInv, OnlyCollectionFails

\* Both invariants hold of every run of the program.
LEMMA SmokeInvariance == SSpec => [](IInv /\ SmokeInv)
<1>1. SInit => IInv /\ SmokeInv
  <2> SUFFICES ASSUME SInit PROVE IInv /\ SmokeInv
    OBVIOUS
  <2>1. IInv
    BY InitialIInv DEF SInit
  <2>2. /\ builders = <<>> /\ built = <<>> /\ batches = <<>> /\ pc = "start"
        /\ building = [t \in {"main"} |-> None] /\ previous_cpu_counters_ = None
    BY DEF SInit, Init, Builder!Init, Queue!Init
  <2> QED BY <2>1, <2>2 DEF SmokeInv, OnlyCollectionFails
<1>2. IInv /\ SmokeInv /\ [SNext]_svars => (IInv /\ SmokeInv)'
  <2> SUFFICES ASSUME IInv, SmokeInv, [SNext]_svars PROVE IInv' /\ SmokeInv'
    OBVIOUS
  <2>1. [Next]_vars
    BY DEF SNext, svars, Start, CollectSample, BuildBatch, FinishBatch, EnqueueBatch,
           EnqueueAborts
  <2>2. IInv'
    BY <2>1, StepKeepsIInv
  <2>3. CASE UNCHANGED svars
    <3>1. UNCHANGED <<pc, builders, building, built, batches, previous_cpu_counters_, result>>
      BY <2>3 DEF svars, vars, builderVars, queueVars
    <3>2. \A i, j, k \in Nat : Progress(i, j, k)' <=> Progress(i, j, k)
      BY <3>1 DEF Progress
    <3>3. /\ AtCollect' <=> AtCollect
          /\ AtBuild' <=> AtBuild
          /\ AtReturn' <=> AtReturn
          /\ AtEnqueue' <=> AtEnqueue
      BY <3>1 DEF AtCollect, AtBuild, AtReturn, AtEnqueue, Progress
    <3>4. SmokeInv'
      BY <3>1, <3>2, <3>3 DEF SmokeInv, OnlyCollectionFails
    <3> QED BY <2>2, <3>4
  <2> QED BY <2>2, <2>3, StartKeepsSmokeInv, CollectSampleKeepsSmokeInv, BuildBatchKeepsSmokeInv,
             FinishBatchKeepsSmokeInv, EnqueueBatchKeepsSmokeInv,
             EnqueueAbortsKeepsSmokeInv DEF SNext
<1> QED BY <1>1, <1>2, PTL DEF SSpec

\* Of the three components only the collector can make main() return 1
\* (collector_smoke.cpp:51 and :55): build() accepts every sample, and what it
\* returns passes the checks enqueue() makes for itself.
THEOREM FailsByCollectionOnly == SSpec => []OnlyCollectionFails
<1>1. SmokeInv => OnlyCollectionFails
  BY DEF SmokeInv
<1> QED BY <1>1, SmokeInvariance, PTL

\* "Confirm both batches remain queued" (collector_smoke.cpp:58): main()
\* returns 0 only with two batches of different IDs queued in their order, the
\* first without and the second with CPU usage.
THEOREM SuccessQueuesBoth == SSpec => []BothQueued
<1>1. SmokeInv => BothQueued
  <2> SUFFICES ASSUME Progress(2, 2, 2) PROVE
                 /\ [i \in DOMAIN batches |-> batches[i].batch_id] =
                      [i \in 1..2 |-> built[i].batch.batch_id]
                 /\ built[1].batch.batch_id # built[2].batch.batch_id
                 /\ Len(built[1].batch.metrics) = 3 /\ Len(built[2].batch.metrics) = 4
    BY DEF SmokeInv, BothQueued
  <2>1. IsBatch(built[1], 1) /\ IsBatch(built[2], 2)
    BY DEF Progress
  <2>2. DOMAIN batches = 1..2 /\ \A i \in 1..2 : batches[i].batch_id = Id(i)
    BY LenProperties DEF Progress
  <2>3. \A i \in 1..2 : built[i].batch.batch_id = Id(i)
    BY DEF Progress, IsBatch
  <2>4. Id(1) # Id(2)
    BY DEF Id
  <2>5. Len(built[1].batch.metrics) = 3 /\ Len(built[2].batch.metrics) = 4
    BY <2>1 DEF IsBatch
  <2> QED BY <2>2, <2>3, <2>4, <2>5
<1> QED BY <1>1, SmokeInvariance, PTL
=============================================================================
