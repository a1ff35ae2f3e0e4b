-------------------------- MODULE AgentConfigProofs --------------------------
(***************************************************************************)
(* Proofs about the command line, for any arguments in any number and any  *)
(* range of the numbers.                                                   *)
(*                                                                         *)
(* The parser is a loop, and the behaviours of AgentConfig grow the list   *)
(* by one argument, so an invariant of these behaviours is an induction    *)
(* over the list.  The properties speak of the answer, which also depends  *)
(* on options still missing; the invariant speaks of the loop's state.     *)
(***************************************************************************)
EXTENDS AgentConfig, WellFoundedInduction, SequenceTheorems, TLAPS

\* A set of natural numbers has a least one.
LEMMA HasLeast ==
  ASSUME NEW T, T \subseteq Nat, T # {}
  PROVE  \E n \in T : \A m \in T : n <= m
<1> DEFINE R == {p \in Nat \X Nat : p[1] < p[2]}
<1>1. IsWellFoundedOn(R, Nat)
  BY NatLessThanWellFounded DEF OpToRel
<1>2. PICK n \in T : \A m \in T : <<m, n>> \notin R
  <2> HIDE DEF R
  <2> QED BY <1>1, WFMin
<1>3. \A m \in T : ~(m < n)
  BY <1>2
<1> QED BY <1>3

-----------------------------------------------------------------------------
(* The loop.                                                               *)

\* The states of the loop over the first n arguments.
States(f, args, n) ==
  f = [i \in 0..n |-> IF i = 0 THEN InitialState ELSE ParseArgument(f[i - 1], args[i])]

\* The recursion defines such states.
LEMMA StatesExist ==
  ASSUME NEW args, NEW N \in Nat
  PROVE  \E f : States(f, args, N)
<1> DEFINE B == {n \in Nat : ~ \E f : States(f, args, n)}
<1> SUFFICES ASSUME B # {} PROVE FALSE
  OBVIOUS
<1>1. PICK n \in B : \A m \in B : n <= m
  <2> HIDE DEF B
  <2>1. B \subseteq Nat
    BY DEF B
  <2> QED BY <2>1, HasLeast
<1>2. n \in Nat /\ ~ \E f : States(f, args, n)
  OBVIOUS
<1>3. CASE n = 0
  <2> DEFINE f == [i \in 0..0 |-> InitialState]
  <2>1. States(f, args, 0)
    BY DEF States
  <2> QED BY <1>2, <1>3, <2>1
<1>4. CASE n # 0
  <2>1. n - 1 \in Nat /\ ~(n <= n - 1)
    BY <1>2, <1>4
  <2>2. PICK f : States(f, args, n - 1)
    BY <1>1, <2>1
  <2> DEFINE g == [i \in 0..n |-> IF i = n THEN ParseArgument(f[n - 1], args[n]) ELSE f[i]]
  <2>3. \A i \in 0..(n - 1) :
           f[i] = IF i = 0 THEN InitialState ELSE ParseArgument(f[i - 1], args[i])
    BY <2>2 DEF States
  <2>4. ASSUME NEW i \in 0..n
        PROVE  g[i] = IF i = 0 THEN InitialState ELSE ParseArgument(g[i - 1], args[i])
    <3>1. CASE i = n
      <4>1. n - 1 \in 0..n /\ n - 1 # n /\ n \in 0..n
        BY <1>2, <1>4
      <4>2. g[n - 1] = f[n - 1] /\ g[n] = ParseArgument(f[n - 1], args[n])
        BY <4>1
      <4> QED BY <3>1, <4>2, <1>4
    <3>2. CASE i # n /\ i # 0
      <4>1. i \in 0..(n - 1) /\ i - 1 \in 0..n /\ i - 1 # n
        BY <1>2, <3>2
      <4>2. g[i] = f[i] /\ g[i - 1] = f[i - 1]
        BY <3>2, <4>1
      <4> QED BY <3>2, <4>1, <4>2, <2>3
    <3>3. CASE i # n /\ i = 0
      <4>1. 0 \in 0..(n - 1)
        BY <1>2, <1>4
      <4>2. g[0] = f[0]
        BY <3>3
      <4> QED BY <3>3, <4>1, <4>2, <2>3
    <3> QED BY <3>1, <3>2, <3>3
  <2>5. g = [i \in 0..n |-> g[i]]
    OBVIOUS
  <2> HIDE DEF g
  <2>6. States(g, args, n)
    BY <2>4, <2>5 DEF States
  <2> QED BY <1>2, <2>6
<1> QED BY <1>3, <1>4

\* Two lists with the same first n arguments lead to the same states.
LEMMA StatesAgree ==
  ASSUME NEW args, NEW longer, NEW m \in Nat, NEW n \in Nat, m <= n,
         \A i \in 1..m : args[i] = longer[i],
         NEW f, States(f, args, m), NEW g, States(g, longer, n)
  PROVE  f[m] = g[m]
<1> DEFINE B == {k \in 0..m : f[k] # g[k]}
<1>1. /\ \A k \in 0..m : f[k] = IF k = 0 THEN InitialState ELSE ParseArgument(f[k - 1], args[k])
      /\ \A k \in 0..n : g[k] = IF k = 0 THEN InitialState ELSE ParseArgument(g[k - 1], longer[k])
  BY DEF States
<1>2. ASSUME B # {} PROVE FALSE
  <2>1. PICK k \in B : \A j \in B : k <= j
    <3>1. B \subseteq Nat
      OBVIOUS
    <3> QED BY <1>2, <3>1, HasLeast
  <2>2. k \in 0..m /\ k \in 0..n /\ f[k] # g[k]
    OBVIOUS
  <2>3. k # 0
    BY <1>1, <2>2
  <2>4. k - 1 \in 0..m /\ ~(k <= k - 1) /\ k \in 1..m
    BY <2>2, <2>3
  <2>5. f[k - 1] = g[k - 1] /\ args[k] = longer[k]
    BY <2>1, <2>4
  <2> QED BY <1>1, <2>2, <2>3, <2>5
<1>3. m \in 0..m
  OBVIOUS
<1> QED BY <1>2, <1>3

\* The loop starts in the initial state and parses the last argument last.
LEMMA ParseArgumentsDef ==
  ASSUME NEW S
  PROVE  /\ ParseArguments(<<>>) = InitialState
         /\ \A args \in Seq(S), a \in S :
               ParseArguments(Append(args, a)) = ParseArgument(ParseArguments(args), a)
<1>1. ASSUME NEW args, Len(args) \in Nat
      PROVE  \E f : States(f, args, Len(args)) /\ ParseArguments(args) = f[Len(args)]
  <2> DEFINE f == CHOOSE f : States(f, args, Len(args))
  <2>1. States(f, args, Len(args))
    BY <1>1, StatesExist
  <2>2. ParseArguments(args) = f[Len(args)]
    BY DEF ParseArguments, States
  <2> QED BY <2>1, <2>2
<1>2. ParseArguments(<<>>) = InitialState
  <2>1. Len(<<>>) = 0
    OBVIOUS
  <2>2. PICK f : States(f, <<>>, 0) /\ ParseArguments(<<>>) = f[0]
    BY <1>1, <2>1
  <2> QED BY <2>2 DEF States
<1>3. ASSUME NEW args \in Seq(S), NEW a \in S
      PROVE  ParseArguments(Append(args, a)) = ParseArgument(ParseArguments(args), a)
  <2> DEFINE n == Len(args)
  <2>1. PICK longer : longer = Append(args, a)
    OBVIOUS
  <2>2. /\ n \in Nat /\ Len(longer) = n + 1 /\ longer[n + 1] = a
        /\ \A i \in 1..n : args[i] = longer[i]
    BY <2>1, AppendProperties, LenProperties
  <2>3. PICK f : States(f, args, n) /\ ParseArguments(args) = f[n]
    BY <1>1, <2>2
  <2>4. PICK g : States(g, longer, n + 1) /\ ParseArguments(longer) = g[n + 1]
    BY <1>1, <2>2
  <2>5. f[n] = g[n]
    <3>1. n + 1 \in Nat /\ n <= n + 1
      BY <2>2
    <3> HIDE DEF n
    <3> QED BY <2>2, <2>3, <2>4, <3>1, StatesAgree
  <2>6. g[n + 1] = ParseArgument(g[n], longer[n + 1])
    <3>1. n + 1 \in 0..(n + 1) /\ n + 1 # 0 /\ (n + 1) - 1 = n
      BY <2>2
    <3> HIDE DEF n
    <3> QED BY <2>4, <3>1 DEF States
  <2> QED BY <2>1, <2>2, <2>3, <2>4, <2>5, <2>6
<1> QED BY <1>2, <1>3

-----------------------------------------------------------------------------
(* One argument.                                                           *)

Values     == {a.value : a \in Arguments} \cup {Empty, DefaultInterval, DefaultCapacity}
Configs    == [client_id : Values, collection_interval : Values,
               aggregator_endpoints : Seq(Values), queue_capacity : Values]
Errors     == [code : {"kUnknownOption", "kDuplicateOption", "kInvalidValue"},
               option : {arg.option : arg \in Arguments}]
LoopStates == [config : Configs, seen : SUBSET Scalars, error : Errors \cup {None}]

\* A known option with a value that its field can hold.
WellFormed(a) == \/ a.option \in {ClientId, Endpoint} /\ a.value # Empty
                 \/ a.option = Interval /\ a.value \in 1..MaxInterval
                 \/ a.option = QueueCapacity /\ a.value \in 1..MaxCapacity

Accepted(state, a) == [config |-> Configure(state.config, a),
                       seen   |-> state.seen \cup ({a.option} \cap Scalars),
                       error  |-> None]

\* No error is the marker for none.
LEMMA ErrorsAreErrors ==
  /\ None \notin Errors
  /\ \A e \in Errors : e.code # "kMissingRequiredOption"
BY ArgumentsAssumption DEF Errors, ErrorCodes

\* The checks of a value are those of its field's range.
LEMMA AcceptableIsWellFormed ==
  ASSUME NEW a \in Arguments
  PROVE  a.option \in {ClientId, Interval, Endpoint, QueueCapacity} /\ IsAcceptable(a)
         <=> WellFormed(a)
<1> DEFINE value == a.value
           option == a.option
<1>1. option \in {Interval, QueueCapacity} => value \in Int \cup {Empty, Garbage}
  BY ArgumentsAssumption
<1>2. /\ Empty \notin Int /\ Garbage \notin Int
      /\ MaxInterval \in Int /\ MaxCapacity \in Int
  BY ArgumentsAssumption
<1>0. a.option = option
  OBVIOUS
<1> HIDE DEF value, option
<1>3. ASSUME NEW largest \in Int, value \in Int \cup {Empty, Garbage}
      PROVE  IsPositive(value, largest) <=> value \in 1..largest
  BY <1>2, <1>3 DEF IsPositive
<1>4. /\ ClientId # Interval /\ ClientId # QueueCapacity /\ Endpoint # Interval
      /\ Endpoint # QueueCapacity /\ Interval # QueueCapacity
  BY DEF ClientId, Interval, Endpoint, QueueCapacity
<1>5. /\ option = Interval => (IsAcceptable(a) <=> IsPositive(value, MaxInterval))
      /\ option = QueueCapacity => (IsAcceptable(a) <=> IsPositive(value, MaxCapacity))
      /\ option \notin {Interval, QueueCapacity} => (IsAcceptable(a) <=> value # Empty)
  BY <1>4 DEF IsAcceptable, value, option
<1>6. WellFormed(a) <=> \/ option \in {ClientId, Endpoint} /\ value # Empty
                        \/ option = Interval /\ value \in 1..MaxInterval
                        \/ option = QueueCapacity /\ value \in 1..MaxCapacity
  BY DEF WellFormed, value, option
<1>7. CASE option = Interval
  BY <1>0, <1>1, <1>2, <1>3, <1>4, <1>5, <1>6, <1>7
<1>8. CASE option = QueueCapacity
  BY <1>0, <1>1, <1>2, <1>3, <1>4, <1>5, <1>6, <1>8
<1>9. CASE option \notin {Interval, QueueCapacity}
  BY <1>0, <1>4, <1>5, <1>6, <1>9
<1> QED BY <1>7, <1>8, <1>9

\* A field takes a value of its type.
LEMMA ConfigureTyped ==
  ASSUME NEW c \in Configs, NEW a \in Arguments
  PROVE  /\ Configure(c, a) \in Configs
         /\ Configure(c, a).client_id = IF a.option = ClientId THEN a.value ELSE c.client_id
         /\ Configure(c, a).collection_interval =
              IF a.option = Interval THEN a.value ELSE c.collection_interval
         /\ Configure(c, a).aggregator_endpoints =
              IF a.option = Endpoint THEN Append(c.aggregator_endpoints, a.value)
                                     ELSE c.aggregator_endpoints
         /\ Configure(c, a).queue_capacity =
              IF a.option = QueueCapacity THEN a.value ELSE c.queue_capacity
<1>1. a.value \in Values
  BY DEF Values
<1>2. /\ c.client_id \in Values /\ c.collection_interval \in Values
      /\ c.aggregator_endpoints \in Seq(Values) /\ c.queue_capacity \in Values
  BY DEF Configs
<1>3. Append(c.aggregator_endpoints, a.value) \in Seq(Values)
  BY <1>1, <1>2, AppendProperties
<1>4. Configure(c, a) \in Configs
  BY <1>1, <1>2, <1>3 DEF Configs, Configure
<1> QED BY <1>4 DEF Configure

\* An argument after an error is not looked at; one without error is stored.
LEMMA ParseArgumentCases ==
  ASSUME NEW s \in LoopStates, NEW a \in Arguments
  PROVE  LET t == ParseArgument(s, a)
         IN  /\ t \in LoopStates
             /\ s.error # None => t = s
             /\ t.error = None <=> s.error = None /\ WellFormed(a) /\ a.option \notin s.seen
             /\ t.error = None => t = Accepted(s, a)
<1> DEFINE t == ParseArgument(s, a)
           known == {ClientId, Interval, Endpoint, QueueCapacity}
           Failed(code) == [s EXCEPT !.error = Error(code, a.option)]
<1>1. /\ s.config \in Configs /\ s.seen \in SUBSET Scalars /\ s.error \in Errors \cup {None}
      /\ s = [config |-> s.config, seen |-> s.seen, error |-> s.error]
  BY DEF LoopStates
<1>2. a.option \in {c.option : c \in Arguments}
  OBVIOUS
<1>3. CASE s.error # None
  BY <1>3 DEF ParseArgument, Stopped
<1>4. ASSUME s.error = None, NEW code, t = Failed(code),
             code \in {"kUnknownOption", "kDuplicateOption", "kInvalidValue"}
      PROVE  t \in LoopStates /\ t.error # None
  <2>1. Error(code, a.option) \in Errors
    BY <1>2, <1>4 DEF Error, Errors
  <2>2. t = [config |-> s.config, seen |-> s.seen, error |-> Error(code, a.option)]
    <3> HIDE DEF t
    <3> QED BY <1>1, <1>4
  <2> HIDE DEF t
  <2> QED BY <1>1, <2>1, <2>2, ErrorsAreErrors DEF LoopStates
<1>5. CASE s.error = None /\ ~(WellFormed(a) /\ a.option \notin s.seen)
  <2>1. \/ a.option \notin known
        \/ IsDuplicate(s, a.option)
        \/ ~IsAcceptable(a)
    BY <1>5, AcceptableIsWellFormed DEF IsDuplicate
  <2>2. \E code \in {"kUnknownOption", "kDuplicateOption", "kInvalidValue"} : t = Failed(code)
    BY <1>5, <2>1 DEF ParseArgument, Stopped
  <2> HIDE DEF Failed
  <2> QED BY <1>4, <1>5, <2>2
<1>6. CASE s.error = None /\ WellFormed(a) /\ a.option \notin s.seen
  <2>1. a.option \in known /\ ~IsDuplicate(s, a.option) /\ IsAcceptable(a)
    BY <1>6, AcceptableIsWellFormed DEF IsDuplicate
  <2>2. t = [s EXCEPT !.seen   = @ \cup ({a.option} \cap Scalars),
                      !.config = Configure(@, a)]
    BY <1>6, <2>1 DEF ParseArgument, Stopped
  <2>3. t = Accepted(s, a)
    <3> HIDE DEF t
    <3> QED BY <1>1, <1>6, <2>2 DEF Accepted
  <2>4. Accepted(s, a) \in LoopStates /\ Accepted(s, a).error = None
    BY <1>1, ConfigureTyped DEF Accepted, LoopStates
  <2> QED BY <1>6, <2>3, <2>4
<1> QED BY <1>3, <1>5, <1>6

\* Two arguments may change places unless they append to the same list.
LEMMA ArgumentsCommute ==
  ASSUME NEW s \in LoopStates, NEW a \in Arguments, NEW b \in Arguments,
         {a.option, b.option} # {Endpoint},
         ParseArgument(ParseArgument(s, a), b).error = None
  PROVE  ParseArgument(ParseArgument(s, b), a) = ParseArgument(ParseArgument(s, a), b)
<1> DEFINE t == ParseArgument(s, a)
<1>1. /\ t \in LoopStates /\ t.error = None /\ WellFormed(b) /\ b.option \notin t.seen
      /\ ParseArgument(t, b) = Accepted(t, b)
  <2>1. t \in LoopStates
    BY ParseArgumentCases
  <2> HIDE DEF t
  <2>2. ParseArgument(t, b).error = None
    BY DEF t
  <2> QED BY <2>1, <2>2, ParseArgumentCases
<1>2. /\ s.error = None /\ WellFormed(a) /\ a.option \notin s.seen
      /\ t = Accepted(s, a)
  BY <1>1, ParseArgumentCases
<1> HIDE DEF t
<1>3. t.config = Configure(s.config, a) /\ t.seen = s.seen \cup ({a.option} \cap Scalars)
  BY <1>2 DEF Accepted
<1>4. a.option # b.option
  <2> SUFFICES ASSUME a.option = b.option PROVE FALSE
    OBVIOUS
  <2>1. a.option \in Scalars
    <3>1. a.option # Endpoint
      OBVIOUS
    <3> QED BY <1>2, <3>1 DEF WellFormed, Scalars
  <2> QED BY <1>1, <1>3, <2>1
<1>5. b.option \notin s.seen
  BY <1>1, <1>3
<1>6. PICK u : u = ParseArgument(s, b)
  OBVIOUS
<1>7. u \in LoopStates /\ u.error = None /\ u = Accepted(s, b)
  BY <1>1, <1>2, <1>5, <1>6, ParseArgumentCases
<1>8. u.config = Configure(s.config, b) /\ u.seen = s.seen \cup ({b.option} \cap Scalars)
  BY <1>7 DEF Accepted
<1>9. a.option \notin u.seen
  BY <1>2, <1>4, <1>8
<1>10. ParseArgument(u, a) = Accepted(u, a)
  BY <1>2, <1>7, <1>9, ParseArgumentCases
<1>11. Configure(u.config, a) = Configure(t.config, b)
  <2>1. s.config \in Configs /\ t.config \in Configs /\ u.config \in Configs
    BY <1>1, <1>7 DEF LoopStates
  <2>2. /\ ClientId # Interval /\ ClientId # QueueCapacity /\ Endpoint # Interval
        /\ Endpoint # QueueCapacity /\ Interval # QueueCapacity /\ ClientId # Endpoint
    BY DEF ClientId, Interval, Endpoint, QueueCapacity
  <2>3. PICK c \in Configs : c = s.config
    BY <2>1
  <2>4. PICK ca \in Configs : ca = Configure(c, a)
    BY ConfigureTyped
  <2>5. PICK cb \in Configs : cb = Configure(c, b)
    BY ConfigureTyped
  <2>6. Configure(cb, a).client_id = Configure(ca, b).client_id
    BY <1>4, <2>4, <2>5, ConfigureTyped
  <2>7. Configure(cb, a).collection_interval = Configure(ca, b).collection_interval
    BY <1>4, <2>4, <2>5, ConfigureTyped
  <2>8. Configure(cb, a).aggregator_endpoints = Configure(ca, b).aggregator_endpoints
    BY <1>4, <2>4, <2>5, ConfigureTyped
  <2>9. Configure(cb, a).queue_capacity = Configure(ca, b).queue_capacity
    BY <1>4, <2>4, <2>5, ConfigureTyped
  <2>10. Configure(cb, a) \in Configs /\ Configure(ca, b) \in Configs
    BY ConfigureTyped
  <2>11. Configure(cb, a) = Configure(ca, b)
    <3>1. \A r \in Configs :
             r = [client_id |-> r.client_id, collection_interval |-> r.collection_interval,
                  aggregator_endpoints |-> r.aggregator_endpoints,
                  queue_capacity |-> r.queue_capacity]
      BY DEF Configs
    <3> QED BY <2>6, <2>7, <2>8, <2>9, <2>10, <3>1
  <2> QED BY <1>3, <1>8, <2>3, <2>4, <2>5, <2>11
<1>12. u.seen \cup ({a.option} \cap Scalars) = t.seen \cup ({b.option} \cap Scalars)
  BY <1>3, <1>8
<1>13. Accepted(u, a) = Accepted(t, b)
  BY <1>11, <1>12 DEF Accepted
<1> QED BY <1>1, <1>6, <1>10, <1>13 DEF t

\* The loop over any list leads to one of its states.
LEMMA LoopTyped ==
  ASSUME NEW args \in Seq(Arguments)
  PROVE  ParseArguments(args) \in LoopStates
<1> DEFINE B == {n \in Nat : \E list \in Seq(Arguments) :
                               Len(list) = n /\ ParseArguments(list) \notin LoopStates}
<1>1. ASSUME B # {} PROVE FALSE
  <2>1. PICK n \in B : \A m \in B : n <= m
    <3>1. B \subseteq Nat
      OBVIOUS
    <3> HIDE DEF B
    <3> QED BY <1>1, <3>1, HasLeast
  <2>2. PICK list \in Seq(Arguments) :
           Len(list) = n /\ ParseArguments(list) \notin LoopStates
    OBVIOUS
  <2>3. CASE list = <<>>
    <3>1. InitialState \in LoopStates
      <4>1. <<>> \in Seq(Values)
        BY EmptySeq
      <4> QED BY <4>1 DEF InitialState, LoopStates, Configs, Values
    <3> QED BY <2>2, <2>3, <3>1, ParseArgumentsDef
  <2>4. CASE list # <<>>
    <3>1. PICK front \in Seq(Arguments), a \in Arguments : list = Append(front, a)
      BY <2>2, <2>4, SequenceEmptyOrAppend
    <3>2. Len(front) \in Nat /\ n = Len(front) + 1
      BY <2>2, <3>1, AppendProperties, LenProperties
    <3>3. Len(front) \notin B
      BY <2>1, <3>2
    <3>4. ParseArguments(front) \in LoopStates
      BY <3>2, <3>3
    <3>5. ParseArguments(list) = ParseArgument(ParseArguments(front), a)
      BY <3>1, ParseArgumentsDef
    <3> QED BY <2>2, <3>4, <3>5, ParseArgumentCases
  <2> QED BY <2>3, <2>4
<1>2. Len(args) \in Nat
  BY LenProperties
<1> QED BY <1>1, <1>2

-----------------------------------------------------------------------------
(* The list grows by one argument.                                         *)

\* The state of the loop at the end of the list.
Parsed == ParseArguments(arguments)

\* What the loop has accepted: no scalar twice.
AllWellFormed ==
  /\ \A i \in DOMAIN arguments : WellFormed(arguments[i])
  /\ \A option \in Scalars : \A i, j \in Naming(option) : i = j

StateInv ==
  /\ arguments \in Seq(Arguments)
  /\ Parsed \in LoopStates

AcceptedInv ==
  /\ Parsed.error = None <=> AllWellFormed
  /\ Parsed.error = None =>
       /\ \A option \in Scalars : option \in Parsed.seen <=> Naming(option) # {}
       /\ Parsed.config.aggregator_endpoints # <<>> <=> Naming(Endpoint) # {}

\* What the loop stopped at, for every prefix.
StoppedInv ==
  \A n \in 0..Len(arguments) :
    LET early == ParseArguments(SubSeq(arguments, 1, n)).error
    IN  early # None => Parsed.error = early

\* The list with the arguments at i and i + 1 exchanged.
Swapped(i) == [arguments EXCEPT ![i] = arguments[i + 1], ![i + 1] = arguments[i]]

SwapInv ==
  \A i \in 1..Len(arguments) - 1 :
    {arguments[i].option, arguments[i + 1].option} # {Endpoint} /\ Parsed.error = None
    => ParseArguments(Swapped(i)) = Parsed

IInv == StateInv /\ AcceptedInv /\ StoppedInv /\ SwapInv

\* The longer list, and what the loop makes of it.
LEMMA ListGrows ==
  ASSUME StateInv, NEW a \in Arguments, arguments' = Append(arguments, a)
  PROVE  /\ arguments' \in Seq(Arguments)
         /\ Len(arguments) \in Nat /\ Len(arguments') = Len(arguments) + 1
         /\ DOMAIN arguments = 1..Len(arguments)
         /\ DOMAIN arguments' = 1..(Len(arguments) + 1)
         /\ \A i \in 1..Len(arguments) : arguments'[i] = arguments[i]
                                         /\ arguments[i] \in Arguments
         /\ arguments'[Len(arguments) + 1] = a
         /\ Parsed' = ParseArgument(Parsed, a)
<1>1. arguments \in Seq(Arguments)
  BY DEF StateInv
<1>2. Parsed' = ParseArgument(Parsed, a)
  BY <1>1, ParseArgumentsDef DEF Parsed
<1> QED BY <1>1, <1>2, AppendProperties, LenProperties, ElementOfSeq

\* A longer list is accepted if the new argument is well-formed and no scalar
\* that was given before.
LEMMA AcceptedStep ==
  ASSUME IInv, NEW a \in Arguments, arguments' = Append(arguments, a)
  PROVE  AcceptedInv'
<1> DEFINE L == Len(arguments)
<1>1. /\ L \in Nat /\ DOMAIN arguments = 1..L /\ DOMAIN arguments' = 1..(L + 1)
      /\ \A i \in 1..L : arguments'[i] = arguments[i]
      /\ arguments'[L + 1] = a
      /\ Parsed' = ParseArgument(Parsed, a)
  BY ListGrows DEF IInv
<1>2. PICK s \in LoopStates : s = Parsed
  BY DEF IInv, StateInv
<1>3. PICK t : t = Parsed'
  OBVIOUS
<1>4. /\ t.error = None <=> s.error = None /\ WellFormed(a) /\ a.option \notin s.seen
      /\ t.error = None => t = Accepted(s, a)
  BY <1>1, <1>2, <1>3, ParseArgumentCases
<1>5. /\ s.error = None <=> AllWellFormed
      /\ s.error = None =>
           /\ \A option \in Scalars : option \in s.seen <=> Naming(option) # {}
           /\ s.config.aggregator_endpoints # <<>> <=> Naming(Endpoint) # {}
  BY <1>2 DEF IInv, AcceptedInv
<1> HIDE DEF L
<1>6. \A option : Naming(option)' = IF a.option = option THEN Naming(option) \cup {L + 1}
                                                         ELSE Naming(option)
  <2> TAKE option
  <2>1. \A i \in 1..(L + 1) : i \in 1..L \/ (i = L + 1 /\ i \notin 1..L)
    BY <1>1
  <2>2. \A i \in 1..L : i \in 1..(L + 1)
    BY <1>1
  <2>3. L + 1 \in 1..(L + 1)
    BY <1>1
  <2> QED BY <1>1, <2>1, <2>2, <2>3 DEF Naming
<1>7. \A option : L + 1 \notin Naming(option)
  BY <1>1 DEF Naming
<1>8. AllWellFormed' <=> /\ AllWellFormed /\ WellFormed(a)
                         /\ a.option \in Scalars => Naming(a.option) = {}
  <2>1. (\A i \in 1..(L + 1) : WellFormed(arguments'[i]))
        <=> WellFormed(a) /\ \A i \in 1..L : WellFormed(arguments[i])
    <3>1. \A i \in 1..(L + 1) : i \in 1..L \/ i = L + 1
      BY <1>1
    <3>2. \A i \in 1..L : i \in 1..(L + 1)
      BY <1>1
    <3>3. L + 1 \in 1..(L + 1)
      BY <1>1
    <3> QED BY <1>1, <3>1, <3>2, <3>3
  <2>2. (\A option \in Scalars : \A i, j \in Naming(option)' : i = j)
        <=> /\ \A option \in Scalars : \A i, j \in Naming(option) : i = j
            /\ a.option \in Scalars => Naming(a.option) = {}
    BY <1>6, <1>7
  <2> QED BY <1>1, <2>1, <2>2 DEF AllWellFormed
<1>9. t.error = None <=> AllWellFormed'
  <2>1. s.seen \subseteq Scalars
    BY DEF LoopStates
  <2>2. s.error = None => (a.option \notin s.seen <=>
                             (a.option \in Scalars => Naming(a.option) = {}))
    BY <1>5, <2>1
  <2> QED BY <1>4, <1>5, <1>8, <2>2
<1>10. ASSUME t.error = None
       PROVE  /\ \A option \in Scalars : option \in t.seen <=> Naming(option)' # {}
              /\ t.config.aggregator_endpoints # <<>> <=> Naming(Endpoint)' # {}
  <2>1. s.error = None /\ t = Accepted(s, a)
    BY <1>4, <1>10
  <2>2. t.seen = s.seen \cup ({a.option} \cap Scalars) /\ t.config = Configure(s.config, a)
    BY <2>1 DEF Accepted
  <2>3. \A option \in Scalars : option \in t.seen <=> Naming(option)' # {}
    BY <1>5, <1>6, <2>1, <2>2
  <2>4. t.config.aggregator_endpoints # <<>> <=> Naming(Endpoint)' # {}
    <3>1. s.config \in Configs
      BY DEF LoopStates
    <3>2. t.config.aggregator_endpoints = IF a.option = Endpoint
                                          THEN Append(s.config.aggregator_endpoints, a.value)
                                          ELSE s.config.aggregator_endpoints
      BY <2>2, <3>1, ConfigureTyped
    <3>3. Append(s.config.aggregator_endpoints, a.value) # <<>>
      <4>1. s.config.aggregator_endpoints \in Seq(Values) /\ a.value \in Values
        BY <3>1 DEF Configs, Values
      <4>2. Len(Append(s.config.aggregator_endpoints, a.value)) # 0 /\ Len(<<>>) = 0
        BY <4>1, AppendProperties, LenProperties
      <4> QED BY <4>2
    <3> QED BY <1>5, <1>6, <2>1, <3>2, <3>3
  <2> QED BY <2>3, <2>4
<1> QED BY <1>3, <1>9, <1>10 DEF AcceptedInv

\* A list one longer is the shorter one with its last element appended.
LEMMA LongerIsAppended ==
  ASSUME NEW seq \in Seq(Arguments), NEW e \in Arguments, NEW longer,
         longer = [j \in 1..(Len(seq) + 1) |-> longer[j]],
         \A j \in 1..Len(seq) : longer[j] = seq[j],
         longer[Len(seq) + 1] = e
  PROVE  longer = Append(seq, e)
<1>1. PICK t : t = Append(seq, e)
  OBVIOUS
<1>2. PICK n \in Nat : n = Len(seq)
  BY LenProperties
<1>3. /\ t \in Seq(Arguments) /\ Len(t) = n + 1
      /\ \A j \in 1..n : t[j] = seq[j]
      /\ t[n + 1] = e
  <2>1. Append(seq, e) \in Seq(Arguments) /\ Len(Append(seq, e)) = n + 1
    BY <1>2, AppendProperties
  <2>2. \A j \in 1..Len(seq) : Append(seq, e)[j] = seq[j]
    BY AppendProperties
  <2>3. Append(seq, e)[Len(seq) + 1] = e
    BY AppendProperties
  <2> QED BY <1>1, <1>2, <2>1, <2>2, <2>3
<1>4. t = [j \in 1..(n + 1) |-> t[j]]
  BY <1>3, LenProperties
<1>5. ASSUME NEW j \in 1..(n + 1) PROVE t[j] = longer[j]
  <2>1. j \in 1..n \/ j = n + 1
    BY <1>2
  <2> QED BY <1>2, <1>3, <2>1
<1> QED BY <1>1, <1>2, <1>4, <1>5

\* A prefix holds the list's first elements.
LEMMA SubSeqIsPrefix ==
  ASSUME NEW S, NEW seq \in Seq(S), NEW n \in 0..Len(seq)
  PROVE  SubSeq(seq, 1, n) = [i \in 1..n |-> seq[i]]
<1>1. PICK t : t = SubSeq(seq, 1, n)
  OBVIOUS
<1>2. \A i \in 1..n : i \in 1..Len(seq)
  BY LenProperties
<1>3. t \in Seq(S) /\ Len(t) = n /\ \A i \in 1..n : t[i] = seq[i]
  BY <1>1, <1>2, LenProperties, SubSeqProperties
<1>4. t = [i \in 1..n |-> t[i]]
  BY <1>3, LenProperties
<1> QED BY <1>1, <1>3, <1>4

\* An error the loop stopped at is that of every longer list.
LEMMA StoppedStep ==
  ASSUME IInv, NEW a \in Arguments, arguments' = Append(arguments, a)
  PROVE  StoppedInv'
<1> DEFINE L == Len(arguments)
<1>1. /\ L \in Nat /\ Len(arguments') = L + 1 /\ DOMAIN arguments' = 1..(L + 1)
      /\ arguments \in Seq(Arguments) /\ arguments' \in Seq(Arguments)
      /\ \A i \in 1..L : arguments'[i] = arguments[i]
      /\ Parsed' = ParseArgument(Parsed, a)
  BY ListGrows DEF IInv, StateInv
<1>2. PICK s \in LoopStates : s = Parsed
  BY DEF IInv, StateInv
<1> SUFFICES ASSUME NEW n \in 0..(L + 1),
                    ParseArguments(SubSeq(arguments', 1, n)).error # None
             PROVE  Parsed'.error = ParseArguments(SubSeq(arguments', 1, n)).error
  BY <1>1 DEF StoppedInv
<1> HIDE DEF L
<1>3. CASE n \in 0..L
  <2>1. SubSeq(arguments', 1, n) = SubSeq(arguments, 1, n)
    <3>1. \A i \in 1..n : i \in 1..L
      BY <1>1, <1>3
    <3>2. \A i \in 1..n : arguments'[i] = arguments[i]
      BY <1>1, <3>1
    <3>3. /\ SubSeq(arguments', 1, n) = [i \in 1..n |-> arguments'[i]]
          /\ SubSeq(arguments, 1, n) = [i \in 1..n |-> arguments[i]]
      BY <1>1, <1>3, SubSeqIsPrefix
    <3> QED BY <3>2, <3>3
  <2>2. s.error = ParseArguments(SubSeq(arguments, 1, n)).error
    BY <1>2, <1>3, <2>1 DEF IInv, StoppedInv, L
  <2>3. s.error # None
    BY <2>1, <2>2
  <2> QED BY <1>1, <1>2, <2>1, <2>2, <2>3, ParseArgumentCases
<1>4. CASE n = L + 1
  <2>1. SubSeq(arguments', 1, n) = arguments'
    BY <1>1, <1>4, SubSeqFull
  <2> QED BY <2>1 DEF Parsed
<1>5. n \in 0..L \/ n = L + 1
  BY <1>1
<1> QED BY <1>3, <1>4, <1>5

\* Exchanging two arguments of the longer list changes nothing either.
LEMMA SwapStep ==
  ASSUME IInv, NEW b \in Arguments, arguments' = Append(arguments, b)
  PROVE  SwapInv'
<1> DEFINE L == Len(arguments)
<1>1. /\ L \in Nat /\ Len(arguments') = L + 1
      /\ DOMAIN arguments = 1..L /\ DOMAIN arguments' = 1..(L + 1)
      /\ arguments \in Seq(Arguments) /\ arguments' \in Seq(Arguments)
      /\ \A i \in 1..L : arguments'[i] = arguments[i] /\ arguments[i] \in Arguments
      /\ arguments'[L + 1] = b
      /\ Parsed' = ParseArgument(Parsed, b)
  BY ListGrows DEF IInv, StateInv
<1>2. PICK s \in LoopStates : s = Parsed
  BY DEF IInv, StateInv
<1> HIDE DEF L
<1> SUFFICES ASSUME NEW i \in 1..L,
                    {arguments'[i].option, arguments'[i + 1].option} # {Endpoint},
                    Parsed'.error = None
             PROVE  ParseArguments(Swapped(i)') = Parsed'
  <2>1. 1..Len(arguments') - 1 = 1..L
    BY <1>1
  <2> QED BY <2>1 DEF SwapInv
<1>3. s.error = None
  BY <1>1, <1>2, ParseArgumentCases
<1>4. PICK swapped : swapped = Swapped(i)'
  OBVIOUS
<1>5. i + 1 \in 1..(L + 1) /\ i \in 1..(L + 1) /\ i # i + 1
  BY <1>1
<1>6. /\ DOMAIN swapped = 1..(L + 1) /\ swapped[i] = arguments'[i + 1]
      /\ swapped[i + 1] = arguments'[i]
      /\ \A j \in 1..(L + 1) : j # i /\ j # i + 1 => swapped[j] = arguments'[j]
      /\ swapped = [j \in 1..(L + 1) |-> swapped[j]]
  BY <1>1, <1>4, <1>5 DEF Swapped
<1>7. CASE i # L
  <2>1. i \in 1..L - 1 /\ i + 1 \in 1..L /\ L + 1 # i /\ L + 1 # i + 1
    BY <1>1, <1>7
  <2>2. PICK before : before = Swapped(i)
    OBVIOUS
  <2>3. /\ DOMAIN before = 1..L /\ before[i] = arguments[i + 1] /\ before[i + 1] = arguments[i]
        /\ \A j \in 1..L : j # i /\ j # i + 1 => before[j] = arguments[j]
        /\ before = [j \in 1..L |-> before[j]]
    BY <1>1, <1>5, <2>1, <2>2 DEF Swapped
  <2>4. before \in Seq(Arguments) /\ Len(before) = L
    <3>1. arguments[i] \in Arguments /\ arguments[i + 1] \in Arguments
      BY <1>1, <2>1
    <3>2. PICK half : half = [arguments EXCEPT ![i] = arguments[i + 1]]
      OBVIOUS
    <3>3. half \in Seq(Arguments) /\ Len(half) = L
      BY <1>1, <3>1, <3>2, ExceptSeq DEF L
    <3>4. before = [half EXCEPT ![i + 1] = arguments[i]]
      BY <2>2, <3>2 DEF Swapped
    <3> QED BY <2>1, <3>1, <3>3, <3>4, ExceptSeq
  <2>5. swapped = Append(before, b)
    <3>1. ASSUME NEW j \in 1..L PROVE swapped[j] = before[j]
      <4>1. j \in 1..(L + 1)
        BY <1>1
      <4>2. CASE j # i /\ j # i + 1
        BY <1>1, <1>6, <2>3, <4>1, <4>2
      <4>3. CASE j = i
        BY <1>1, <1>6, <2>1, <2>3, <4>3
      <4>4. CASE j = i + 1
        BY <1>1, <1>6, <2>1, <2>3, <4>4
      <4> QED BY <4>2, <4>3, <4>4
    <3>2. swapped[L + 1] = b
      BY <1>1, <1>5, <1>6, <2>1
    <3>3. /\ Len(before) = L /\ before \in Seq(Arguments)
          /\ swapped = [j \in 1..(Len(before) + 1) |-> swapped[j]]
          /\ \A j \in 1..Len(before) : swapped[j] = before[j]
          /\ swapped[Len(before) + 1] = b /\ b \in Arguments
      BY <1>6, <2>4, <3>1, <3>2
    <3> QED BY <3>3, LongerIsAppended
  <2>6. ParseArguments(before) = s
    <3>1. /\ {arguments[i].option, arguments[i + 1].option} # {Endpoint}
      BY <1>1, <2>1
    <3> QED BY <1>2, <1>3, <2>1, <2>2, <3>1 DEF IInv, SwapInv, L
  <2>7. ParseArguments(swapped) = ParseArgument(s, b)
    BY <2>4, <2>5, <2>6, ParseArgumentsDef
  <2> QED BY <1>1, <1>2, <1>4, <2>7
<1>8. CASE i = L
  <2> DEFINE a == arguments[L]
  <2>1. PICK front \in Seq(Arguments) : arguments = Append(front, a)
    <3>1. arguments # <<>>
      <4>1. Len(arguments) # 0 /\ Len(<<>>) = 0
        BY <1>1 DEF L
      <4> QED BY <4>1
    <3>2. PICK front \in Seq(Arguments), e \in Arguments : arguments = Append(front, e)
      BY <1>1, <3>1, SequenceEmptyOrAppend
    <3>3. Len(arguments) = Len(front) + 1 /\ arguments[Len(front) + 1] = e
      BY <3>2, AppendProperties
    <3> QED BY <3>2, <3>3 DEF L
  <2>2. a \in Arguments /\ arguments'[i] = a /\ arguments'[i + 1] = b
    BY <1>1, <1>8
  <2> HIDE DEF a
  <2>3. Len(front) + 1 = L /\ Len(front) \in Nat
        /\ \A j \in 1..Len(front) : arguments[j] = front[j]
    BY <2>1, <2>2, AppendProperties, LenProperties DEF L
  <2>4. PICK middle : middle = Append(front, b)
    OBVIOUS
  <2>5. /\ middle \in Seq(Arguments) /\ Len(middle) = L
        /\ \A j \in 1..Len(front) : middle[j] = front[j]
        /\ middle[L] = b
    BY <2>3, <2>4, AppendProperties
  <2>6. swapped = Append(middle, a)
    <3>1. ASSUME NEW j \in 1..L PROVE swapped[j] = middle[j]
      <4>1. j \in 1..Len(front) \/ j = L
        BY <2>3
      <4>2. CASE j = L
        BY <1>5, <1>6, <1>8, <2>2, <2>5, <4>2
      <4>3. CASE j \in 1..Len(front)
        <5>1. j \in 1..L /\ j # L /\ j # L + 1 /\ j \in 1..(L + 1)
          BY <2>3, <4>3
        <5>2. swapped[j] = arguments[j]
          BY <1>1, <1>6, <1>8, <5>1
        <5> QED BY <2>3, <2>5, <4>3, <5>1, <5>2
      <4> QED BY <4>1, <4>2, <4>3
    <3>2. swapped[L + 1] = a
      BY <1>6, <1>8, <2>2
    <3>3. /\ Len(middle) = L /\ middle \in Seq(Arguments)
          /\ swapped = [j \in 1..(Len(middle) + 1) |-> swapped[j]]
          /\ \A j \in 1..Len(middle) : swapped[j] = middle[j]
          /\ swapped[Len(middle) + 1] = a /\ a \in Arguments
      BY <1>6, <2>2, <2>5, <3>1, <3>2
    <3> QED BY <3>3, LongerIsAppended
  <2>7. PICK r : r = ParseArguments(front)
    OBVIOUS
  <2>8. /\ s = ParseArgument(r, a)
        /\ ParseArguments(swapped) = ParseArgument(ParseArgument(r, b), a)
    <3>1. ParseArguments(arguments) = ParseArgument(r, a)
      BY <2>1, <2>2, <2>7, ParseArgumentsDef
    <3>2. ParseArguments(middle) = ParseArgument(r, b)
      BY <2>4, <2>7, ParseArgumentsDef
    <3>3. ParseArguments(swapped) = ParseArgument(ParseArguments(middle), a)
      BY <2>2, <2>5, <2>6, ParseArgumentsDef
    <3> QED BY <1>2, <3>1, <3>2, <3>3 DEF Parsed
  <2>9. r \in LoopStates
    BY <2>1, <2>7, LoopTyped
  <2>10. ParseArgument(ParseArgument(r, a), b).error = None /\ {a.option, b.option} # {Endpoint}
    BY <1>1, <1>2, <2>2, <2>8
  <2>11. ParseArgument(ParseArgument(r, b), a) = ParseArgument(ParseArgument(r, a), b)
    BY <2>2, <2>9, <2>10, ArgumentsCommute
  <2> QED BY <1>1, <1>2, <1>4, <2>8, <2>11
<1> QED BY <1>7, <1>8

\* The invariant holds of the empty list, and of every longer one.
LEMMA Invariance == Spec => []IInv
<1>1. Init => IInv
  <2> SUFFICES ASSUME Init PROVE IInv
    OBVIOUS
  <2>1. arguments = <<>> /\ Len(arguments) = 0 /\ arguments \in Seq(Arguments)
    BY EmptySeq DEF Init
  <2>2. DOMAIN arguments = {} /\ 1..Len(arguments) - 1 = {} /\ 0..Len(arguments) = {0}
    BY <2>1
  <2>3. Parsed = InitialState
    BY <2>1, ParseArgumentsDef DEF Parsed
  <2>4. StateInv
    BY <2>1, LoopTyped DEF StateInv, Parsed
  <2>5. AcceptedInv
    <3>1. \A option : Naming(option) = {}
      BY <2>2 DEF Naming
    <3>2. /\ InitialState.error = None /\ InitialState.seen = {}
          /\ InitialState.config.aggregator_endpoints = <<>>
      BY DEF InitialState
    <3>3. AllWellFormed
      BY <2>2, <3>1 DEF AllWellFormed
    <3> QED BY <2>3, <3>1, <3>2, <3>3 DEF AcceptedInv
  <2>6. StoppedInv
    <3>1. SubSeq(arguments, 1, 0) = arguments
      BY <2>1, SubSeqFull
    <3> QED BY <2>2, <3>1 DEF StoppedInv, Parsed
  <2>7. SwapInv
    BY <2>2 DEF SwapInv
  <2> QED BY <2>4, <2>5, <2>6, <2>7 DEF IInv
<1>2. IInv /\ [Next]_arguments => IInv'
  <2>1. ASSUME IInv, Next PROVE IInv'
    <3>1. PICK a \in Arguments : arguments' = Append(arguments, a)
      BY <2>1 DEF Next
    <3>2. arguments' \in Seq(Arguments)
      BY <2>1, <3>1, ListGrows DEF IInv
    <3>3. Parsed' \in LoopStates
      BY <3>2, LoopTyped DEF Parsed
    <3>4. AcceptedInv' /\ StoppedInv' /\ SwapInv'
      BY <2>1, <3>1, AcceptedStep, StoppedStep, SwapStep
    <3> QED BY <3>2, <3>3, <3>4 DEF IInv, StateInv
  <2>2. ASSUME IInv, UNCHANGED arguments PROVE IInv'
    <3>1. StateInv' /\ StoppedInv'
      BY <2>2 DEF IInv, StateInv, StoppedInv, Parsed
    <3>2. AcceptedInv'
      BY <2>2 DEF IInv, AcceptedInv, AllWellFormed, Naming, Parsed
    <3>3. SwapInv'
      BY <2>2 DEF IInv, SwapInv, Swapped, Parsed
    <3> QED BY <3>1, <3>2, <3>3 DEF IInv
  <2> QED BY <2>1, <2>2
<1> QED BY <1>1, <1>2, PTL DEF Spec

-----------------------------------------------------------------------------
(* The answer.                                                             *)

\* The answer is the loop's error, or that an option is missing, or none.
LEMMA AnswerCases ==
  ASSUME NEW args, NEW s \in LoopStates, s = ParseArguments(args)
  PROVE  /\ s.error # None => ParseAgentConfig(args).error = s.error
         /\ s.error = None =>
              IF ClientId \in s.seen /\ s.config.aggregator_endpoints # <<>>
              THEN ParseAgentConfig(args).error = None
              ELSE /\ ParseAgentConfig(args).error # None
                   /\ ParseAgentConfig(args).error.code = "kMissingRequiredOption"
<1> DEFINE Missing(option) == Error("kMissingRequiredOption", option)
<1>1. \A option \in {ClientId, Endpoint} :
         Missing(option) # None /\ Missing(option).code = "kMissingRequiredOption"
  BY ArgumentsAssumption DEF Error, ErrorCodes
<1>2. /\ s.error # None => ParseAgentConfig(args).error = s.error
      /\ s.error = None /\ ClientId \notin s.seen =>
           ParseAgentConfig(args).error = Missing(ClientId)
      /\ s.error = None /\ ClientId \in s.seen /\ s.config.aggregator_endpoints = <<>> =>
           ParseAgentConfig(args).error = Missing(Endpoint)
      /\ s.error = None /\ ClientId \in s.seen /\ s.config.aggregator_endpoints # <<>> =>
           ParseAgentConfig(args).error = None
  BY DEF ParseAgentConfig
<1> HIDE DEF Missing
<1> QED BY <1>1, <1>2

\* A command line is accepted for no other reason than that each of its
\* arguments is well-formed, no scalar repeated and nothing missing: the checks
\* that parse_agent_config() spreads over one pass and two closing tests.
THEOREM AcceptedExactly == Spec => []AcceptsExactly
<1>1. IInv => AcceptsExactly
  <2> SUFFICES ASSUME IInv PROVE AcceptsExactly
    OBVIOUS
  <2>1. PICK s \in LoopStates : s = Parsed
    BY DEF IInv, StateInv
  <2>2. s.error = None <=> AllWellFormed
    BY <2>1 DEF IInv, AcceptedInv
  <2>3. s.error = None =>
          /\ ClientId \in s.seen <=> Naming(ClientId) # {}
          /\ s.config.aggregator_endpoints # <<>> <=> Naming(Endpoint) # {}
    BY <2>1 DEF IInv, AcceptedInv, Scalars
  <2>4. ParseAgentConfig(arguments).error = None <=>
          AllWellFormed /\ Naming(ClientId) # {} /\ Naming(Endpoint) # {}
    BY <2>1, <2>2, <2>3, AnswerCases DEF Parsed
  <2> QED BY <2>4 DEF AcceptsExactly, AllWellFormed, WellFormed
<1> QED BY <1>1, Invariance, PTL

\* Neighbours anywhere on an accepted command line of any length may change
\* places unless both are endpoints: the flags of parse_client_id() and its like
\* leave no option whose second value could win.
THEOREM OrderDoesNotMatter == Spec => []OrderIrrelevant
<1>1. IInv => OrderIrrelevant
  <2> SUFFICES ASSUME IInv, NEW i \in 1..Len(arguments) - 1,
                      ParseAgentConfig(arguments).error = None,
                      {arguments[i].option, arguments[i + 1].option} # {Endpoint}
               PROVE  ParseAgentConfig(Swapped(i)) = ParseAgentConfig(arguments)
    BY DEF OrderIrrelevant, Swapped
  <2>1. PICK s \in LoopStates : s = Parsed
    BY DEF IInv, StateInv
  <2>2. s.error = None
    BY <2>1, AnswerCases DEF Parsed
  <2>3. ParseArguments(Swapped(i)) = ParseArguments(arguments)
    BY <2>1, <2>2 DEF IInv, SwapInv, Parsed
  <2> QED BY <2>3 DEF ParseAgentConfig
<1> QED BY <1>1, Invariance, PTL

\* The loop of parse_agent_config() returns at the first error: no argument
\* behind it can mend or replace it.
THEOREM FirstErrorIsReported == Spec => []FirstErrorStays
<1>1. IInv => FirstErrorStays
  <2> SUFFICES ASSUME IInv, NEW n \in 0..Len(arguments),
                      ParseAgentConfig(SubSeq(arguments, 1, n)).error # None,
                      ParseAgentConfig(SubSeq(arguments, 1, n)).error.code
                         # "kMissingRequiredOption"
               PROVE  ParseAgentConfig(arguments).error
                         = ParseAgentConfig(SubSeq(arguments, 1, n)).error
    BY DEF FirstErrorStays
  <2>1. PICK prefix \in Seq(Arguments) : prefix = SubSeq(arguments, 1, n)
    <3>1. arguments \in Seq(Arguments)
      BY DEF IInv, StateInv
    <3>2. n \in Int /\ 1 \in Int /\ \A i \in 1..n : arguments[i] \in Arguments
      BY <3>1, LenProperties
    <3>3. SubSeq(arguments, 1, n) \in Seq(Arguments)
      BY <3>2, SubSeqProperties
    <3> QED BY <3>3
  <2>2. PICK e \in LoopStates : e = ParseArguments(prefix)
    BY LoopTyped
  <2>3. PICK s \in LoopStates : s = Parsed
    BY DEF IInv, StateInv
  <2>4. e.error # None /\ ParseAgentConfig(prefix).error = e.error
    BY <2>1, <2>2, AnswerCases
  <2>5. s.error = e.error
    BY <2>1, <2>2, <2>3, <2>4 DEF IInv, StoppedInv
  <2>6. ParseAgentConfig(arguments).error = s.error
    BY <2>3, <2>4, <2>5, AnswerCases DEF Parsed
  <2> QED BY <2>1, <2>4, <2>5, <2>6
<1> QED BY <1>1, Invariance, PTL
=============================================================================
