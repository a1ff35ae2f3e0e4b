---------------------- MODULE SyntheticMetricCollector ----------------------
(***************************************************************************)
(* The deterministic collector.  Doubles are integers of kPrecision        *)
(* significant bits, rounded to nearest with ties to even, and infinite    *)
(* beyond kMaxFinite.                                                      *)
(***************************************************************************)
EXTENDS Integers, Sequences

CONSTANTS InitialValues, Steps,   \* configurations; NonFinite among them
          kPrecision, kMaxFinite,
          NonFinite,
          MaxIndex  \* bound on sample_index_: a double holds it exactly

PowerOfTwo[k \in Nat] == IF k = 0 THEN 1 ELSE 2 * PowerOfTwo[k - 1]

ASSUME SyntheticAssumption == /\ kPrecision \in Nat \ {0}
                              /\ kMaxFinite \in Nat
                              /\ MaxIndex \in 0..PowerOfTwo[kPrecision]
                              /\ NonFinite \notin Int
                              /\ InitialValues \cup Steps \subseteq Int \cup {NonFinite}

VARIABLES initial_value_, step_, sample_index_,
          samples,  \* history: every sample returned, with its index
          thrown    \* history: the indices of calls that threw

vars == <<initial_value_, step_, sample_index_, samples, thrown>>

Abs(n) == IF n < 0 THEN -n ELSE n

\* The distance of neighbouring doubles around n.
Ulp(n) == PowerOfTwo[CHOOSE e \in 0..Abs(n) :
                        /\ Abs(n) < PowerOfTwo[e + kPrecision]
                        /\ e = 0 \/ Abs(n) >= PowerOfTwo[e - 1 + kPrecision]]

Rounded(n) == LET u     == Ulp(n)
                  below == n - (n % u)
                  above == below + u
              IN  IF 2 * (n - below) < u \/ (2 * (n - below) = u /\ (below \div u) % 2 = 0)
                  THEN below ELSE above

Double(n) == IF Abs(Rounded(n)) > kMaxFinite THEN NonFinite ELSE Rounded(n)

Plus(a, b)  == IF NonFinite \in {a, b} THEN NonFinite ELSE Double(a + b)
Times(a, b) == IF NonFinite \in {a, b} THEN NonFinite ELSE Double(a * b)

-----------------------------------------------------------------------------
(* Faulty variants of the definitions below, for mutation checks only.     *)

Accumulated(k) == IF samples = <<>> THEN initial_value_
                                    ELSE Plus(samples[Len(samples)].value, step_)

Unchecked(value) == NonFinite \notin {initial_value_, step_}

-----------------------------------------------------------------------------
\* The k-th value: two roundings, whatever k is.
SampleValue(k) == Plus(initial_value_, Times(Double(k), step_))

\* The configuration is valid, and the value is finite.
Accepts(value) == NonFinite \notin {initial_value_, step_, value}

Init == /\ initial_value_ \in InitialValues
        /\ step_ \in Steps
        /\ sample_index_ = 0
        /\ samples = <<>>
        /\ thrown = {}

\* Faulty variant of the next definition, for mutation checks only.
RefuseAndAdvance(value) == /\ ~Accepts(value)
                           /\ sample_index_' = sample_index_ + 1
                           /\ UNCHANGED <<initial_value_, step_, samples, thrown>>

\* kMalformedSource, for the configuration or for the value.
Refuse(value) == ~Accepts(value) /\ UNCHANGED vars

Collect(value) ==
  /\ Accepts(value)
  /\ sample_index_' = sample_index_ + 1
  /\ samples' = Append(samples, [index |-> sample_index_, value |-> value])
  /\ UNCHANGED <<initial_value_, step_, thrown>>

\* push_back cannot allocate: the index has already moved.  (A throw before that
\* leaves no trace.)
CollectThrows(value) ==
  /\ Accepts(value)
  /\ sample_index_' = sample_index_ + 1
  /\ thrown' = thrown \cup {sample_index_}
  /\ UNCHANGED <<initial_value_, step_, samples>>

Next == /\ sample_index_ < MaxIndex
        /\ \E value \in {SampleValue(sample_index_)} :
             Refuse(value) \/ Collect(value) \/ CollectThrows(value)

Spec == Init /\ [][Next]_vars

-----------------------------------------------------------------------------
\* Every value handed out is finite: the product or the sum may overflow at an
\* index where the configuration gave no hint of it.
TypeOK == /\ sample_index_ \in 0..MaxIndex
          /\ samples \in Seq([index : 0..MaxIndex, value : -kMaxFinite..kMaxFinite])

\* "rounding from one sample never becomes input to the next sample"
\* (synthetic_metric_collector.cpp:25-26): the error of a sample is that of one
\* rounded product and one rounded sum, however many calls came before.
NoDrift ==
  \A i \in DOMAIN samples :
    LET product == samples[i].index * step_
    IN  2 * Abs(samples[i].value - (initial_value_ + product)) <=
          Ulp(product) + Ulp(Abs(initial_value_) + Abs(product)) * 2

\* The sequence has no gaps but those of calls that threw: "failed calls do not
\* skip sequence values" (synthetic_metric_collector.cpp:45) is true of every call
\* that returns, so after an error the next sample is the one that was due.
NoValueSkipped ==
  /\ 0..sample_index_ - 1 = thrown \cup {samples[i].index : i \in DOMAIN samples}
  /\ \A i, j \in DOMAIN samples : i < j => samples[i].index < samples[j].index
=============================================================================
