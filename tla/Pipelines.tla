------------------------------ MODULE Pipelines ------------------------------
(***************************************************************************)
(* The pipeline builder of module.py.  Module.pipeline(..).stage(lambda)   *)
(* makes a chain of functions with registers between them, stage('name',   *)
(* field=source) a bank of registers.  Each is run by the Python simulator *)
(* from one text (_pipe_advance, _advance) and emitted as another one      *)
(* (_gen_emit_source): `sim' and `hw' hold the registers of the two.  The  *)
(* chain here is  () -> (d, d + 1),  (a, b) -> a + b,  x -> x + 1,  and    *)
(* the named bank latches the input of the chain.                          *)
(***************************************************************************)
EXTENDS Naturals, Sequences

CONSTANTS
  PipeWidth,     \* bits of a register
  PipeWords      \* the words that come in

ASSUME PipeAssumption ==
  PipeWidth \in Nat \ {0} /\ PipeWords \subseteq 0 .. 2^PipeWidth - 1

VARIABLES
  ctrl,      \* stall, flush and valid_in are signals, or expressions of signals
  sim, hw,   \* the registers as simulated, as emitted
  flight     \* the words on their way, the youngest first

pipeVars == <<ctrl, sim, hw, flight>>

Masked(v) == v % 2^PipeWidth

Stages == 1..3

\* How many registers a stage has: one for each parameter of the next one.
RegCount == <<2, 1, 1>>

StageFn(i, prev, d) ==
  CASE i = 1 -> <<Masked(d), Masked(d + 1)>>
    [] i = 2 -> <<Masked(prev[1] + prev[2])>>
    [] i = 3 -> <<Masked(prev[1] + 1)>>

ZeroRegs == [i \in Stages |-> [k \in 1 .. RegCount[i] |-> 0]]

NoneValid == [i \in Stages |-> 0]

EmptyPipe == [regs |-> ZeroRegs, valid |-> NoneValid, bank |-> 0]

-----------------------------------------------------------------------------
(* What an edge does to the registers p; i holds the inputs.               *)

\* mutant: each stage reads what the one before has just written
ShiftedInPlace(regs, d) ==
  LET one == StageFn(1, <<>>, d)
      two == StageFn(2, one, d)
  IN <<one, two, StageFn(3, two, d)>>

\* All stages read the values from before the edge.
Shifted(regs, d) ==
  [i \in Stages |-> StageFn(i, IF i = 1 THEN <<>> ELSE regs[i - 1], d)]

ValidShifted(valid, in) == [i \in Stages |-> IF i = 1 THEN in ELSE valid[i - 1]]

PipeAdvance(p, i) ==
  CASE i.reset -> [p EXCEPT !.regs = ZeroRegs, !.valid = NoneValid]
    [] ~i.reset /\ i.stall -> p
    [] ~i.reset /\ ~i.stall /\ i.flush -> [p EXCEPT !.valid = NoneValid]
    [] OTHER -> [p EXCEPT !.regs = Shifted(p.regs, i.d), !.valid = ValidShifted(p.valid, i.valid)]

\* The emitted chain knows a control by its name; an expression has none, and
\* is left out: no stall, no flush, always valid.
EmittedAdvance(p, i) ==
  PipeAdvance(p, IF ctrl = "signal" THEN i
                 ELSE [i EXCEPT !.stall = FALSE, !.flush = FALSE, !.valid = 1])

NamedAdvance(p, i) ==
  CASE i.reset -> [p EXCEPT !.bank = 0]
    [] ~i.reset /\ i.stall -> p
    [] ~i.reset /\ ~i.stall /\ i.flush -> [p EXCEPT !.bank = 0]
    [] OTHER -> [p EXCEPT !.bank = Masked(i.d)]

\* mutant: a stalled bank is flushed all the same
NamedEmittedFlushFirst(p, i) ==
  CASE i.reset -> [p EXCEPT !.bank = 0]
    [] ~i.reset /\ i.flush -> [p EXCEPT !.bank = 0]
    [] ~i.reset /\ ~i.flush /\ i.stall -> p
    [] OTHER -> [p EXCEPT !.bank = Masked(i.d)]

\* A named stage renders expressions as text: nothing is lost.
NamedEmitted(p, i) ==
  CASE i.reset -> [p EXCEPT !.bank = 0]
    [] ~i.reset /\ i.stall -> p
    [] ~i.reset /\ ~i.stall /\ i.flush -> [p EXCEPT !.bank = 0]
    [] OTHER -> [p EXCEPT !.bank = Masked(i.d)]

-----------------------------------------------------------------------------
PipeInit ==
  /\ ctrl \in {"signal", "expr"}
  /\ sim = EmptyPipe /\ hw = EmptyPipe
  /\ flight = <<>>

\* What is on its way after the edge.  A flush kills it, and nothing comes in;
\* a flush that falls into a stall is forgotten.
Travel(i) ==
  IF i.reset THEN <<>>
  ELSE IF i.stall THEN flight
  ELSE IF i.flush THEN [k \in DOMAIN flight |-> [flight[k] EXCEPT !.live = FALSE]]
  ELSE LET longer == <<[word |-> i.d, live |-> i.valid = 1]>> \o flight
       IN IF Len(longer) > 3 THEN SubSeq(longer, 1, 3) ELSE longer

PipeEdge(reset, stall, flush, valid, d) ==
  LET i == [reset |-> reset, stall |-> stall, flush |-> flush, valid |-> valid, d |-> d]
  IN /\ sim' = NamedAdvance(PipeAdvance(sim, i), i)
     /\ hw' = NamedEmitted(EmittedAdvance(hw, i), i)
     /\ flight' = Travel(i)
     /\ UNCHANGED ctrl

PipeNext ==
  \E reset, stall, flush \in BOOLEAN, valid \in 0..1, d \in PipeWords :
    PipeEdge(reset, stall, flush, valid, d)

PipeSpec == PipeInit /\ [][PipeNext]_pipeVars
-----------------------------------------------------------------------------
\* All stages run on one word, without registers (_Pipeline.behavioral).
Behavioral(k, d) ==
  LET one == StageFn(1, <<>>, d)
      two == StageFn(2, one, d)
  IN CASE k = 1 -> one [] k = 2 -> two [] k = 3 -> StageFn(3, two, d)

(* Both texts of a pipeline carry every word in its order through all      *)
(* stages, through stalls, flushes and resets: a stage is valid exactly    *)
(* when a live word has come that far, and then holds what the functions   *)
(* make of this word.  (The emitted one only where the controls are        *)
(* signals.)                                                               *)
PipelineKeepsOrder ==
  \A p \in {sim} \cup (IF ctrl = "signal" THEN {hw} ELSE {}) : \A k \in Stages :
    /\ p.valid[k] = 1 <=> k <= Len(flight) /\ flight[k].live
    /\ k <= Len(flight) => p.regs[k] = Behavioral(k, flight[k].word)
    /\ p.bank = sim.bank
=============================================================================
