----------------------- MODULE MCProcMetricCollector -----------------------
(***************************************************************************)
(* TLC instance: words up to 7, two bytes to the kilobyte.  Rows count up, *)
(* stand still and fall back in either counter; further rows lack fields,  *)
(* break off, overflow, or hold values that are out of range or negative.  *)
(***************************************************************************)
EXTENDS ProcMetricCollector

MCStatSources ==
  {<<user, 0, 0, idle>> : user \in 0..3, idle \in 0..3} \cup
  {<<user, 0, 0, 1, iowait, 0, 1, 0, 5>> : user \in 0..2, iowait \in 0..2} \cup
  { <<>>, <<1, 1, 1>>, <<1, 1, Garbage, 1>>, <<1, 0, 0, 1, Garbage, 3>>,
    <<4, 4, 0, 0>>, <<0, 0, 0, 5, 3>>, <<1, 0, 0, 0, 8>>, <<1, 0, 0, 1, 8>>,
    <<1, 0, 0, 0, 1, 8, 4>>, <<-7, 0, 0, 2>>, <<-8, 1, 1, 1>>, ReadFailed }

L(key, word) == [key |-> key, word |-> word]
Mem(total, available) == <<L("MemTotal:", total), L("MemAvailable:", available)>>

MCMeminfoSources ==
  {Mem(total, available) : total \in {0, 2, 3, 4, 8}, available \in {1, 3}} \cup
  { <<>>, <<L("MemTotal:", 3), L("MemFree:", Garbage)>>,
    <<L("MemFree:", Garbage), L("MemAvailable:", 1), L("MemTotal:", 2)>>,
    Mem(3, 1) \o Mem(2, 0), Mem(Garbage, 1) \o Mem(2, 0), Mem(3, -6), ReadFailed }
=============================================================================
