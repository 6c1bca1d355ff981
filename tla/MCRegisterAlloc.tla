-------------------------- MODULE MCRegisterAlloc --------------------------
(***************************************************************************)
(* Five values and two registers: every conflict graph on five vertices,   *)
(* among them K5 (three spills), the 5-cycle (simplification is stuck at   *)
(* once) and graphs where a spill lets the rest be simplified.             *)
(***************************************************************************)
EXTENDS RegisterAlloc

MCValues == 1 .. 5
MCRegisters == {4, 5}

(* Two pairs of equal weights, so that the smaller id decides.             *)
MCWeight == <<10, 1, 10, 1, 100>>
MCValueId == [v \in MCValues |-> v]
=============================================================================
