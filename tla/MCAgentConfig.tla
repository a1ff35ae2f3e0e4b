--------------------------- MODULE MCAgentConfig ---------------------------
(***************************************************************************)
(* TLC instance: for every option acceptable values and one of each kind   *)
(* it refuses, and an unknown option; lists of up to four arguments.       *)
(***************************************************************************)
EXTENDS AgentConfig

CONSTANTS a1, a2, e1, e2

A(option, values) == {[option |-> option, value |-> v] : v \in values}

MCArguments == A(ClientId, {a1, a2, Empty}) \cup A(Endpoint, {e1, e2, Empty}) \cup
               A(Interval, {5, 0, -1, 8, Garbage}) \cup
               A(QueueCapacity, {1, 15, 16, Empty}) \cup A("--verbose", {Empty})
=============================================================================
