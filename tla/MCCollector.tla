------------------------------ MODULE MCCollector ------------------------------
(***************************************************************************)
(* Two modules: execMain runs functions of modFirst, execLate and          *)
(* execOther of modLate, which is registered later.                        *)
(***************************************************************************)
EXTENDS Collector, TLC

CONSTANTS execMain, execOther, execLate, modFirst, modLate

FunctionModule ==
    [e \in Execs |-> IF e = execLate /\ modLate \in Modules THEN modLate ELSE modFirst]
===============================================================================
