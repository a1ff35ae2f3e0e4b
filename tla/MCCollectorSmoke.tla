-------------------------- MODULE MCCollectorSmoke --------------------------
(***************************************************************************)
(* TLC instance: counters that rise, stand still or fall between the two   *)
(* collections, and sources that are malformed or cannot be read.          *)
(***************************************************************************)
EXTENDS CollectorSmoke

MCStatSources ==
  {<<user, 0, 0, idle>> : user \in 0..2, idle \in 0..2} \cup {<<1, 1>>, ReadFailed}

Mem(total, available) == << [key |-> "MemTotal:", word |-> total],
                            [key |-> "MemAvailable:", word |-> available] >>

MCMeminfoSources == {Mem(3, 1), Mem(2, 2), Mem(0, 0), ReadFailed}
=============================================================================
