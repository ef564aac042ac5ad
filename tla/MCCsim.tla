--------------------------------- MODULE MCCsim ---------------------------------
(***************************************************************************)
(* The parts of csim: the loop of a simulation with a clock, the compiled  *)
(* model, and the monitor of a property.  `part' says which one moves, the *)
(* others stay in one of their initial states.                             *)
(***************************************************************************)
EXTENDS MCSimEngine, MCCompiledEval, MCSvaMonitor

CONSTANT Parts

VARIABLE part

csimVars == <<part, vars, evalVars, monitorVars>>

CsimInit ==
  /\ part \in Parts
  /\ Init /\ EvalInit
  /\ MonitorInit /\ (part # "monitor" => prop = Always(Bool("a")))

Simulates == part = "engine" /\ Next /\ UNCHANGED <<part, evalVars, monitorVars>>
Evaluates == part = "eval" /\ EvalNext /\ UNCHANGED <<part, vars, monitorVars>>
Monitors == part = "monitor" /\ MonitorNext /\ UNCHANGED <<part, vars, evalVars>>

CsimSpec == CsimInit /\ [][Simulates \/ Evaluates \/ Monitors]_csimVars
=================================================================================
