------------------------------- MODULE PythonSim -------------------------------
(***************************************************************************)
(* The Python simulation of a module: signals with a value and a pending   *)
(* non-blocking assignment (signal.py), combinational and clocked blocks   *)
(* run as Python functions, the order in which Module._settle_comb runs    *)
(* the blocks of a module and of its sub-modules (module.py).              *)
(*                                                                         *)
(* A design is [ins, outs, inner, width, comb, always, subs]: names of the *)
(* input ports, output ports and internal signals, their widths, the       *)
(* blocks [fsm, body], and the sub-modules [name, design, params].  Signal *)
(* n of sub-module u is the object self.u.n: its name here is u_n.         *)
(***************************************************************************)
EXTENDS Ir

\* A value is <<number, width>>; width 0 is a plain Python int.
WidthOr1(v) == IF v[2] = 0 THEN 1 ELSE v[2]

\* signal.py: + and - wrap at the width of the left signal (of the right one
\* when the left operand is an int), & | ^ take the wider of the two.
PyBin(op, l, r) ==
  LET w == IF l[2] > 0 THEN l[2] ELSE r[2]
      v == Arith(op, l[1], r[1])
  IN IF l[2] = 0 /\ r[2] = 0 THEN <<v, 0>>
     ELSE IF op \in {"+", "-"} THEN <<v % 2 ^ w, w>>
     ELSE <<v, Max({WidthOr1(l), WidthOr1(r)})>>

\* run is the state of a running function: val, next, local and ctl; k are the
\* values of the parts of e.
PyOp(e, k, run, W) ==
  CASE e.op = "const" -> <<e.num, 0>>
    [] e.op = "sig" -> <<run.val[e.name], W[e.name]>>
    [] e.op = "name" -> run.local[e.name]
    [] e.op = "bin" -> PyBin(e.name, k[1], k[2])
    [] e.op = "un" -> IF e.name = "!" THEN <<Truth(k[1][1] = 0), 0>>
                      ELSE <<2 ^ k[1][2] - 1 - k[1][1], k[1][2]>>
    [] e.op = "cmp" -> <<Compare(e.name, k[1][1], k[2][1]), 1>>
    [] e.op = "bool" -> IF (k[1][1] # 0) = (e.name = "&&") THEN k[2] ELSE k[1]
    [] e.op = "mux" -> IF k[1][1] # 0 THEN k[2] ELSE k[3]
    [] e.op = "slice" -> LET w == k[2][1] - k[3][1] + 1
                         IN <<(k[1][1] \div 2 ^ k[3][1]) % 2 ^ w, w>>
    [] e.op = "concat" -> <<k[1][1] * 2 ^ k[2][2] + k[2][1], k[1][2] + k[2][2]>>
RECURSIVE PyVal(_, _, _)
PyVal(e, run, W) == PyOp(e, [i \in DOMAIN e.kids |-> PyVal(e.kids[i], run, W)], run, W)

Pending(run, n) == IF n \in DOMAIN run.next THEN run.next[n] ELSE run.val[n]

LoopLeft(run) == IF run.ctl = "break" THEN [run EXCEPT !.ctl = "run"] ELSE run

\* A statement of a block.  ctl is "run" until a break or a return; v are the
\* values of its expressions.
RECURSIVE PyStmts(_, _, _)
PyStep(s, v, run, W) ==
  LET assign(x) == [run EXCEPT !.next = Over([n \in {s.target} |-> x], @)]
      turn(r, i) == IF r.ctl # "run" THEN r
                    ELSE PyStmts(s.arms[1],
                                 [r EXCEPT !.local = Over([n \in {s.target} |-> <<i, 0>>], @)],
                                 W)
  IN CASE s.do = "assign" -> assign(v[1][1] % 2 ^ W[s.target])
       [] s.do = "slice" ->
            assign(PutSlice(Pending(run, s.target), v[2][1], v[3][1], v[1][1]))
       [] s.do = "local" ->
            [run EXCEPT !.local = Over([n \in {s.target} |-> v[1]], @)]
       [] s.do = "aug" ->    \* self.x += e
            assign(PyBin("+", <<run.val[s.target], W[s.target]>>, v[1])[1] % 2 ^ W[s.target])
       [] s.do = "auglocal" ->
            [run EXCEPT !.local = Over([n \in {s.target} |-> PyBin("+", @[s.target], v[1])], @)]
       [] s.do = "if" -> PyStmts(IF v[1][1] # 0 THEN s.arms[1] ELSE s.arms[2], run, W)
       [] s.do = "for" ->
            LoopLeft(FoldLeft(turn, run, [i \in 1 .. v[1][1] |-> i - 1]))
       [] s.do = "break" -> [run EXCEPT !.ctl = "break"]
       [] s.do = "return" ->
            [run EXCEPT !.ctl = "return", !.local = Over([n \in {"return"} |-> v[1]], @)]
PyStmt(s, run, W) == PyStep(s, [i \in DOMAIN s.es |-> PyVal(s.es[i], run, W)], run, W)

PyStmts(stmts, run, W) ==
  FoldLeft(LAMBDA r, s : IF r.ctl = "run" THEN PyStmt(s, r, W) ELSE r, run, stmts)

\* The state names of a machine are globals of its function.
FsmStates == [n \in {"IDLE", "BUSY"} |-> IF n = "IDLE" THEN 0 ELSE 1]
Called(p) == [n \in {"_fsm_state", "_fsm_next"} |-> p \o n]

\* The assignments that are pending when the function has run to its end.
BlockEnd(block, pre, sim, end, W) ==
  LET state == IF end.ctl = "return" THEN end.local["return"][1]
               ELSE sim.val[pre \o "_fsm_state"]
  IN IF ~block.fsm THEN end.next
     ELSE Over([n \in {pre \o "_fsm_next"} |-> state % 2 ^ W[pre \o "_fsm_next"]], end.next)

\* One call of a block: `fsm` wraps the function, gives it the state as an
\* int and assigns what it returns, or the state, to the next state.
RunBlock(block, pre, sim, W) ==
  LET start == [val |-> sim.val, next |-> sim.next, ctl |-> "run",
                local |-> IF ~block.fsm THEN Empty
                          ELSE Over([n \in {"state"} |-> <<sim.val[pre \o "_fsm_state"], 0>>],
                                    [n \in DOMAIN FsmStates |-> <<FsmStates[n], 0>>])]
  IN [val |-> sim.val,
      next |-> BlockEnd(block, pre, sim, PyStmts(block.body, start, W), W)]

Names(d) == d.ins \cup d.outs \cup d.inner
Prefix(sub) == sub.name \o "_"

\* The blocks of a sub-module name their own signals and parameters.
Instantiated(sub, block) ==
  LET names == [n \in Names(sub.design) |-> Prefix(sub) \o n]
  IN [block EXCEPT !.body = ReplaceIn(@, Renaming(names, sub.params), names)]

SubNames(sub) == {Prefix(sub) \o n : n \in Names(sub.design)}
AllNames(d) == Names(d) \cup UNION {SubNames(sub) : sub \in Range(d.subs)}
AllWidths(d) ==
  [n \in AllNames(d) |->
     IF n \in Names(d) THEN d.width[n]
     ELSE LET sub == CHOOSE s \in Range(d.subs) : n \in SubNames(s)
          IN sub.design.width[CHOOSE m \in Names(sub.design) : Prefix(sub) \o m = n]]

RunAll(blocks, pre, sim, W) ==
  FoldLeft(LAMBDA s, b : RunBlock(b, pre, s, W), sim, blocks)

\* _apply_nba of one module: the pending assignments of its own signals.
Tick(sim, names) ==
  LET due == DOMAIN sim.next \cap names
  IN [val |-> [n \in DOMAIN sim.val |-> IF n \in due THEN sim.next[n] ELSE sim.val[n]],
      next |-> [n \in DOMAIN sim.next \ due |-> sim.next[n]]]

SubBlocks(sub, blocks) == [i \in DOMAIN blocks |-> Instantiated(sub, blocks[i])]

\* SettleComb without its second pass.
SettleCombOnce(d, sim, W) ==
  LET own(s) == Tick(RunAll(d.comb, "", s, W), Names(d))
      pushed == FoldLeft(LAMBDA s, sub : Tick(s, SubNames(sub)), own(sim), d.subs)
      child(s, sub) == Tick(RunAll(SubBlocks(sub, sub.design.comb), Prefix(sub), s, W),
                            SubNames(sub))
  IN FoldLeft(child, pushed, d.subs)

\* Module._settle_comb: the module, then each sub-module once, then the module.
SettleComb(d, sim, W) ==
  LET own(s) == Tick(RunAll(d.comb, "", s, W), Names(d))
      pushed == FoldLeft(LAMBDA s, sub : Tick(s, SubNames(sub)), own(sim), d.subs)
      child(s, sub) == Tick(RunAll(SubBlocks(sub, sub.design.comb), Prefix(sub), s, W),
                            SubNames(sub))
  IN own(FoldLeft(child, pushed, d.subs))

\* Calls of _settle_comb until nothing moves; SettleBound calls are enough
\* for every design without a combinational loop.
SettleBound == 6
RECURSIVE Settled(_, _, _, _)
Repeated(d, sim, again, W, calls) ==
  IF again = sim \/ calls = 0 THEN sim ELSE Settled(d, again, W, calls - 1)
Settled(d, sim, W, calls) == Repeated(d, sim, SettleComb(d, sim, W), W, calls)

\* One clock edge: every clocked block runs on the settled values.
ClockBlocks(d, sim, W) ==
  LET own == RunAll(d.always, "", [sim EXCEPT !.next = Empty], W)
  IN FoldLeft(LAMBDA s, sub : RunAll(SubBlocks(sub, sub.design.always), Prefix(sub), s, W),
              own, d.subs)
===============================================================================
