------------------------ MODULE ProcMetricCollector ------------------------
(***************************************************************************)
(* The procfs collector of one sampling thread.  A collect() call reads    *)
(* two sources, and keeps the CPU counters it read as the baseline of the  *)
(* next call.  Percentages are the pair of integers they are made of;      *)
(* words are unsigned and MaxWord is the largest.                          *)
(*                                                                         *)
(* A source is ReadFailed or its text: for the statistics the words after  *)
(* the label "cpu" (none when the label is another one), for the memory    *)
(* information lines with a key and a word, Garbage also where the unit is *)
(* not kB.  A word is the integer it denotes, or Garbage.                  *)
(***************************************************************************)
EXTENDS Integers, Sequences

CONSTANTS MaxWord,            \* largest std::uint64_t
          kBytesPerKilobyte,
          StatSources, MeminfoSources,
          ReadFailed, Garbage, None

ASSUME WordAssumption == MaxWord \in Nat /\ kBytesPerKilobyte \in Nat \ {0}

ASSUME SourcesAssumption ==
  /\ \A s \in StatSources : s = ReadFailed \/ s \in Seq({Garbage} \cup Int)
  /\ \A s \in MeminfoSources :
        s = ReadFailed \/ s \in Seq([key : STRING, word : {Garbage} \cup Int])
  /\ None \notin [total : Nat, idle : Nat]

VARIABLES previous_cpu_counters_,
          result,    \* what the last call returned or threw
          accounted  \* history: the counters up to which every interval was
                     \* either reported once or refused with an error

vars == <<previous_cpu_counters_, result, accounted>>

Minus(a, b) == (a - b) % (MaxWord + 1)

\* What operator>> makes of a word: a value out of range is a failure that
\* stores the largest value, any other failure stores zero; a negative value
\* in range wraps.
IsRead(word) == word # Garbage /\ -MaxWord <= word /\ word <= MaxWord
Extract(word) == IF word = Garbage THEN 0
                 ELSE IF IsRead(word) THEN word % (MaxWord + 1) ELSE MaxWord

\* The number of words read, up to eight; extraction stops at the first failure.
FieldCount(row) ==
  CHOOSE n \in 0..8 : /\ n <= Len(row) /\ \A i \in 1..n : IsRead(row[i])
                      /\ n = 8 \/ n = Len(row) \/ ~IsRead(row[n + 1])

\* fields after extraction: the failed one has what operator>> stored in it.
Fields(row) == LET n == FieldCount(row)
               IN  [i \in 1..8 |-> IF i <= Len(row) /\ i <= n + 1
                                   THEN Extract(row[i]) ELSE 0]

\* The sum over the fields read; the loop refuses it once it exceeds a word.
Total(row) ==
  LET n == FieldCount(row)
      fields == Fields(row)
      f == [i \in 1..8 |-> IF i <= n THEN fields[i] ELSE 0]
  IN  f[1] + f[2] + f[3] + f[4] + f[5] + f[6] + f[7] + f[8]

-----------------------------------------------------------------------------
(* Faulty variants of the definitions below, for mutation checks only.     *)

UncheckedCpu(row) ==
  IF FieldCount(row) < 4 THEN None
  ELSE [total |-> Total(row), idle |-> Fields(row)[4] + Fields(row)[5]]

IdleUnchecked(previous, current) ==
  current.total <= previous.total \/ current.idle < previous.idle

TotalMayStandStill(previous, current) ==
  \/ current.total < previous.total
  \/ current.idle < previous.idle
  \/ Minus(current.idle, previous.idle) > Minus(current.total, previous.total)

NoBaseline(cpu, memory) ==
  /\ previous_cpu_counters_ = None
  /\ result' = [code |-> "Sample", cpu |-> None, memory |-> memory]
  /\ accounted' = cpu
  /\ UNCHANGED previous_cpu_counters_

AdvanceFirst(cpu, memory) ==
  /\ cpu = None \/ memory = None
  /\ previous_cpu_counters_' = IF cpu = None THEN previous_cpu_counters_ ELSE cpu
  /\ result' = [code |-> "MalformedSource"]
  /\ UNCHANGED accounted

-----------------------------------------------------------------------------
\* parse_cpu_counters(), None for kMalformedSource.
ParseCpuCounters(row) ==
  LET idle == Fields(row)[4] + Fields(row)[5]
  IN  IF FieldCount(row) < 4 \/ Total(row) > MaxWord \/ idle > MaxWord THEN None
      ELSE [total |-> Total(row), idle |-> idle]

\* The lines of the snapshot with a key; the last one counts.
Given(lines, key) == {i \in DOMAIN lines : lines[i].key = key}
Value(lines, key) == Extract(lines[CHOOSE i \in Given(lines, key) :
                                     \A j \in Given(lines, key) : j <= i].word)

\* parse_memory_metrics(), None for kMalformedSource.
ParseMemory(lines) ==
  LET keys      == {"MemTotal:", "MemAvailable:"}
      total     == Value(lines, "MemTotal:")
      available == Value(lines, "MemAvailable:")
      Bytes(kb) == (kb * kBytesPerKilobyte) % (MaxWord + 1)
  IN  IF \/ \E key \in keys : Given(lines, key) = {}
         \/ \E key \in keys : \E i \in Given(lines, key) : ~IsRead(lines[i].word)
         \/ total = 0 \/ available > total \/ total > MaxWord \div kBytesPerKilobyte
      THEN None
      ELSE [total     |-> Bytes(total),
            available |-> Bytes(available),
            used      |-> Minus(Bytes(total), Bytes(available))]

InvalidDelta(previous, current) ==
  \/ current.total <= previous.total
  \/ current.idle < previous.idle
  \/ Minus(current.idle, previous.idle) > Minus(current.total, previous.total)

-----------------------------------------------------------------------------
(* The ways a call ends, in the order of the code.                         *)

Init == /\ previous_cpu_counters_ = None
        /\ result = [code |-> "None"]
        /\ accounted = None

ReadFails(stat, meminfo) == /\ stat = ReadFailed \/ meminfo = ReadFailed
                            /\ result' = [code |-> "ReadFailed"]
                            /\ UNCHANGED <<previous_cpu_counters_, accounted>>

Malformed(cpu, memory) == /\ cpu = None \/ memory = None
                          /\ result' = [code |-> "MalformedSource"]
                          /\ UNCHANGED <<previous_cpu_counters_, accounted>>

FirstSample(cpu, memory) ==
  /\ previous_cpu_counters_ = None
  /\ previous_cpu_counters_' = cpu
  /\ result' = [code |-> "Sample", cpu |-> None, memory |-> memory]
  /\ accounted' = cpu

RejectDelta(cpu) ==
  /\ previous_cpu_counters_ # None
  /\ InvalidDelta(previous_cpu_counters_, cpu)
  /\ previous_cpu_counters_' = cpu
  /\ result' = [code |-> "InvalidCounterDelta"]
  /\ accounted' = cpu

ReportUsage(cpu, memory) ==
  LET total_delta  == Minus(cpu.total, previous_cpu_counters_.total)
      active_delta == Minus(total_delta, Minus(cpu.idle, previous_cpu_counters_.idle))
  IN  /\ previous_cpu_counters_ # None
      /\ ~InvalidDelta(previous_cpu_counters_, cpu)
      /\ previous_cpu_counters_' = cpu
      /\ result' = [code   |-> "Sample",
                    cpu    |-> [active |-> active_delta, total |-> total_delta],
                    memory |-> memory]
      /\ accounted' = [total |-> accounted.total + total_delta,
                       idle  |-> accounted.idle + (total_delta - active_delta)]

\* bad_alloc in make_error() or make_metric(): the baseline has moved, and no
\* result says so.
ThrowsAfterBaseline(cpu) ==
  /\ previous_cpu_counters_ # None
  /\ previous_cpu_counters_' = cpu
  /\ result' = [code |-> "Thrown"]
  /\ accounted' = cpu

Collect(stat, meminfo) ==
  \/ ReadFails(stat, meminfo)
  \/ /\ stat # ReadFailed /\ meminfo # ReadFailed
     /\ \E cpu \in {ParseCpuCounters(stat)}, memory \in {ParseMemory(meminfo)} :
          \/ Malformed(cpu, memory)
          \/ /\ cpu # None /\ memory # None
             /\ \/ FirstSample(cpu, memory)
                \/ RejectDelta(cpu)
                \/ ReportUsage(cpu, memory)
                \/ ThrowsAfterBaseline(cpu)

Next == \E stat \in StatSources, meminfo \in MeminfoSources : Collect(stat, meminfo)

Spec == Init /\ [][Next]_vars

-----------------------------------------------------------------------------
Counters == [total : 0..MaxWord, idle : 0..MaxWord]

\* The stored counters are words: sums that do not fit never reach the baseline.
TypeOK == /\ previous_cpu_counters_ \in Counters \cup {None}
          /\ result.code \in {"None", "ReadFailed", "MalformedSource", "Sample",
                              "InvalidCounterDelta", "Thrown"}

\* "Read both Linux sources before mutating the previous CPU snapshot"
\* (proc_metric_collector.cpp:57) and "Advance the stored baseline and reject"
\* (:92): whatever fails in between, the CPU time since the first sample is cut
\* into adjacent intervals, each reported in exactly one sample or refused with
\* an error of its own; none is lost silently and none is reported twice.
IntervalsAdjacent == accounted = previous_cpu_counters_

\* A sample is one a percentage can be made of, whatever the kernel or a test
\* wrote into the sources: unsigned subtractions and the kB-to-byte conversion
\* never wrap, divisors are positive, and both parts stay within the whole.
SampleWithinBounds ==
  result.code = "Sample" =>
    /\ result.memory.total > 0
    /\ result.memory.used + result.memory.available = result.memory.total
    /\ result.cpu # None => result.cpu.total > 0 /\ result.cpu.active <= result.cpu.total

\* "immediately surface malformed source data" (proc_metric_collector.cpp:68):
\* a row that is accepted counts no more idle time than time.
PlausibleCounters ==
  previous_cpu_counters_ # None =>
    previous_cpu_counters_.idle <= previous_cpu_counters_.total
=============================================================================
