--------------------- MODULE MCSyntheticMetricCollector ---------------------
(***************************************************************************)
(* TLC instance: four significant bits, so that rounding starts at 17, and *)
(* a largest value some configurations overflow within ten calls.          *)
(***************************************************************************)
EXTENDS SyntheticMetricCollector

MCInitialValues == {-3, 0, 1, 60, NonFinite}
MCSteps == {-1, 0, 3, 5, 7, 11, NonFinite}
=============================================================================
