---------------------------- MODULE AgentConfig ----------------------------
(***************************************************************************)
(* The command line of the Agent.  parse_agent_config() is a function of   *)
(* its argument list; the behaviours below grow the list one argument at a *)
(* time, so that every list up to the bound is a state.                    *)
(*                                                                         *)
(* An argument is split at its first "=" into option and value; without    *)
(* one it is all option.  The value of a number is the integer it denotes, *)
(* or Garbage when the text is not a number from its first character to    *)
(* its last.                                                               *)
(***************************************************************************)
EXTENDS Integers, Sequences

CONSTANTS Arguments,     \* arguments a user may write
          MaxArguments,  \* bound on the length of the list
          MaxInterval, MaxCapacity,  \* largest milliseconds::rep and size_t
          DefaultInterval, DefaultCapacity,
          Empty, Garbage, None

ClientId      == "--client-id="
Interval      == "--interval-ms="
Endpoint      == "--endpoint="
QueueCapacity == "--queue-capacity="

\* AgentConfigErrorCode
ErrorCodes == {"kUnknownOption", "kDuplicateOption", "kInvalidValue", "kMissingRequiredOption"}

ASSUME ArgumentsAssumption ==
  /\ \A a \in Arguments : a.option \in {Interval, QueueCapacity} =>
                            a.value \in Int \cup {Empty, Garbage}
  /\ Empty \notin Int /\ Garbage \notin Int
  /\ MaxInterval \in Nat /\ MaxCapacity \in Nat
  /\ None \notin [code   : ErrorCodes,
                   option : {a.option : a \in Arguments} \cup {ClientId, Endpoint}]

VARIABLE arguments

\* AgentConfig and ConfigParseState; seen holds the has_..._ flags.
InitialState ==
  [config |-> [client_id            |-> Empty,
               collection_interval  |-> DefaultInterval,
               aggregator_endpoints |-> <<>>,
               queue_capacity       |-> DefaultCapacity],
   seen   |-> {},
   error  |-> None]

Error(code, option) == [code |-> code, option |-> option]

-----------------------------------------------------------------------------
(* Faulty variants of the definitions below, for mutation checks only.     *)

NotZero(value, largest) == value # Empty /\ value # Garbage /\ value # 0

NeverDuplicate(state, option) == FALSE

GoesOn(state) == FALSE

-----------------------------------------------------------------------------
\* parse_positive_integer()
IsPositive(value, largest) == /\ value # Empty /\ value # Garbage
                              /\ 0 < value /\ value <= largest

\* The endpoint has no flag: it may be repeated.
Scalars == {ClientId, Interval, QueueCapacity}

IsDuplicate(state, option) == option \in state.seen

IsAcceptable(a) == CASE a.option = Interval      -> IsPositive(a.value, MaxInterval)
                     [] a.option = QueueCapacity -> IsPositive(a.value, MaxCapacity)
                     [] OTHER                    -> a.value # Empty

\* The loop returns at the first error.
Stopped(state) == state.error # None

\* The field of the option takes its value; endpoints keep their order.
Configure(config, a) ==
  [client_id            |-> IF a.option = ClientId THEN a.value ELSE config.client_id,
   collection_interval  |-> IF a.option = Interval THEN a.value ELSE config.collection_interval,
   aggregator_endpoints |-> IF a.option = Endpoint THEN Append(config.aggregator_endpoints, a.value)
                                                   ELSE config.aggregator_endpoints,
   queue_capacity       |-> IF a.option = QueueCapacity THEN a.value ELSE config.queue_capacity]

\* parse_argument() and the function it dispatches to.
ParseArgument(state, a) ==
  IF Stopped(state) THEN state
  ELSE IF a.option \notin {ClientId, Interval, Endpoint, QueueCapacity}
  THEN [state EXCEPT !.error = Error("kUnknownOption", a.option)]
  ELSE IF IsDuplicate(state, a.option)
  THEN [state EXCEPT !.error = Error("kDuplicateOption", a.option)]
  ELSE IF ~IsAcceptable(a)
  THEN [state EXCEPT !.error = Error("kInvalidValue", a.option)]
  ELSE [state EXCEPT !.seen   = @ \cup ({a.option} \cap Scalars),
                     !.config = Configure(@, a)]

\* The loop over the arguments.
ParseArguments(args) ==
  LET state[n \in 0..Len(args)] ==
        IF n = 0 THEN InitialState ELSE ParseArgument(state[n - 1], args[n])
  IN  state[Len(args)]

ParseAgentConfig(args) ==
  LET state == ParseArguments(args)
      Missing(option) == [error |-> Error("kMissingRequiredOption", option)]
  IN  IF state.error # None THEN [error |-> state.error]
      ELSE IF ClientId \notin state.seen THEN Missing(ClientId)
      ELSE IF state.config.aggregator_endpoints = <<>> THEN Missing(Endpoint)
      ELSE [error |-> None, config |-> state.config]

-----------------------------------------------------------------------------
Init == arguments = <<>>

Next == \E a \in Arguments : /\ Len(arguments) < MaxArguments
                             /\ arguments' = Append(arguments, a)

Spec == Init /\ [][Next]_arguments

-----------------------------------------------------------------------------
Naming(option) == {i \in DOMAIN arguments : arguments[i].option = option}

\* A command line is accepted exactly if every argument is a known option with
\* a value its field can hold, the scalars are given at most once, and client
\* ID and an endpoint are there; a number out of range is refused, not wrapped.
AcceptsExactly ==
  ParseAgentConfig(arguments).error = None <=>
    /\ \A i \in DOMAIN arguments :
         LET a == arguments[i]
         IN  \/ a.option \in {ClientId, Endpoint} /\ a.value # Empty
             \/ a.option = Interval /\ a.value \in 1..MaxInterval
             \/ a.option = QueueCapacity /\ a.value \in 1..MaxCapacity
    /\ \A option \in Scalars : \A i, j \in Naming(option) : i = j
    /\ Naming(ClientId) # {} /\ Naming(Endpoint) # {}

\* "command-line order cannot silently change the result" (agent_config.cpp:55)
\* and "Preserve endpoint order" (:77): neighbours of an accepted command line
\* may change places, unless both are endpoints, and give the same configuration.
OrderIrrelevant ==
  \A i \in 1..Len(arguments) - 1 :
    LET a == arguments[i]
        b == arguments[i + 1]
        swapped == [arguments EXCEPT ![i] = b, ![i + 1] = a]
    IN  ParseAgentConfig(arguments).error = None /\ {a.option, b.option} # {Endpoint}
        => ParseAgentConfig(swapped) = ParseAgentConfig(arguments)

\* "stop at the first actionable configuration error" (agent_config.cpp:134): an
\* error once found stays the answer, whatever follows on the command line;
\* only a missing option can still be supplied.
FirstErrorStays ==
  \A n \in 0..Len(arguments) :
    LET early == ParseAgentConfig(SubSeq(arguments, 1, n)).error
    IN  early # None /\ early.code # "kMissingRequiredOption"
        => ParseAgentConfig(arguments).error = early
=============================================================================
