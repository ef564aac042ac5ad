------------------------------ MODULE TestBenches ------------------------------
(***************************************************************************)
(* A test bench and the two programs made of it: the generator that        *)
(* tb_compiler.py rewrites for the event loop, and the C function          *)
(* run_bench, for which _TBLowerer (lower.py) makes statements of the      *)
(* initial block and emit_tb_c (backend_csim.py) makes C of them.  All     *)
(* three drive the same compiled model, whose clock the event loop toggles *)
(* at its time, and the C function in _step.                               *)
(*                                                                         *)
(* The source of an initial block is a list of the statements of Ir:       *)
(* "set" an input, "delay", "local", "if", "for" a variable over a range,  *)
(* "break", "assert", "call" (yield from a method), and "dict", "update"   *)
(* and "setall" for dictionaries of inputs, whose arm holds the "set"s.    *)
(***************************************************************************)
EXTENDS Ir

CONSTANT Benches
  \* [body, methods, outer, half, always, dut]: outer gives the numbers that the
  \* names of the closure and of the file stand for; dut is [ins, regs, comb, seq,
  \* width]; always is the block that drives the clock, half its half period

VARIABLES bench, form, code, intended
benchVars == <<bench, form, code, intended>>

-------------------------------------------------------------------------------
(* The compiled model.                                                     *)

EvalComb(d, val) == CStmts(d.comb, [env |-> val, next |-> Empty], d.width, {}).env
EvalSeq(d, val) ==
  EvalComb(d, Over(CStmts(d.seq, [env |-> val, next |-> Empty], d.width, d.regs).next, val))

\* Power-on, and what a running bench has: its variables, dictionaries, the time,
\* whether the clock is due to toggle now, and the model after every rising edge.
Start(b) ==
  [val |-> [n \in DOMAIN b.dut.width |-> 0], clk |-> FALSE, dirty |-> FALSE, due |-> FALSE,
   time |-> 0, log |-> <<>>, vars |-> Empty, dicts |-> <<>>, jump |-> "", failed |-> FALSE]

Toggled(d, st, evaluates) ==
  LET val == IF evaluates THEN EvalComb(d, st.val) ELSE st.val
      after == IF st.clk THEN val ELSE EvalSeq(d, val)
  IN [st EXCEPT !.clk = ~@, !.dirty = FALSE, !.val = after,
                !.log = IF st.clk THEN @ ELSE Append(@, after)]
Times(Turn(_), st, n) == FoldLeft(LAMBDA s, i : Turn(s), st, [i \in 1 .. n |-> i])

\* The event loop evaluates after every block and every toggle.  A block that
\* wakes with a toggle runs before it is evaluated.
Delay(b, st, t) ==
  LET until == st.time + t
      between == {k \in 1 .. until : st.time < k * b.half /\ k * b.half < until}
      Turn(s) == Toggled(b.dut, s, TRUE)
      now == IF st.due THEN Turn(st) ELSE [st EXCEPT !.val = EvalComb(b.dut, @)]
  IN [Times(Turn, now, Cardinality(between))
        EXCEPT !.time = until, !.due = t > 0 /\ until % b.half = 0]

\* _extract_half_period
HalfPeriodOf(always) ==
  LET delays == SelectSeq(always, LAMBDA s : s.do = "delay")
      e == delays[1].es[1]
  IN IF delays = <<>> THEN 10
     ELSE IF e.op = "const" THEN e.num
     ELSE IF e.op = "bin" /\ e.name = "*" /\ \A k \in Range(e.kids) : k.op = "const"
          THEN e.kids[1].num * e.kids[2].num
     ELSE 10

\* mutant: whole periods
StepPeriods(b, st, t) ==
  LET Turn(s) == Toggled(b.dut, s, ~s.clk \/ s.dirty)
  IN Times(Turn, st, t \div (2 * HalfPeriodOf(b.always)))
\* _step evaluates the combinational logic at rising edges and after inputs were
\* written, the clocked blocks at rising edges.
Step(b, st, t) ==
  LET Turn(s) == Toggled(b.dut, s, ~s.clk \/ s.dirty)
  IN Times(Turn, st, t \div HalfPeriodOf(b.always))

-------------------------------------------------------------------------------
(* The source, and the rewritten generator: Python.                        *)

RECURSIVE TbVal(_, _, _)
TbVal(e, names, word) ==
  LET k(i) == TbVal(e.kids[i], names, word)
      cut(v) == IF word THEN v % Word ELSE v
  IN CASE e.op = "const" -> cut(e.num)
       [] e.op \in {"sig", "name"} -> names[e.op][e.name]
       [] e.op = "bin" -> cut(IF e.name = "*" THEN k(1) * k(2) ELSE Arith(e.name, k(1), k(2)))
       [] e.op = "cmp" -> Compare(e.name, k(1), k(2))
       [] e.op = "un" -> Truth(k(1) = 0)
       [] e.op = "bool" -> Truth(IF e.name = "&&" THEN k(1) # 0 /\ k(2) # 0
                                                  ELSE k(1) # 0 \/ k(2) # 0)
       [] e.op = "mux" -> IF k(1) # 0 THEN k(2) ELSE k(3)

Place(seq, n) == CHOOSE i \in DOMAIN seq : seq[i] = n
InputSet(b, st, n, v) == [st EXCEPT !.val[n] = Masked(v, b.dut.width[n]), !.dirty = TRUE]
Bound(st, n, v) == [st EXCEPT !.vars = Over([x \in {n} |-> v], @)]
Landed(st, label) == IF st.jump = label THEN [st EXCEPT !.jump = ""] ELSE st

RECURSIVE PyRun(_, _, _)
PyRunOne(b, s, st) ==
  LET Val(e) == TbVal(e, [sig |-> st.val, name |-> Over(st.vars, b.outer)], FALSE)
      v(i) == Val(s.es[i])
      Turn(r, i) == IF r.jump # "" THEN r ELSE PyRun(b, s.arms[1], Bound(r, s.target, i))
      known == [i \in DOMAIN s.arms[1] |->
                  [s.arms[1][i] EXCEPT !.es[1] = Const(Val(@))]]
  IN CASE s.do = "set" -> InputSet(b, st, s.target, v(1))
       [] s.do = "delay" -> Delay(b, st, v(1))
       [] s.do = "local" -> Bound(st, s.target, v(1))
       [] s.do = "if" -> PyRun(b, IF v(1) # 0 THEN s.arms[1] ELSE s.arms[2], st)
       [] s.do = "for" ->
            Landed(FoldLeft(Turn, st, [i \in 1 .. v(2) - v(1) |-> v(1) + i - 1]), "break")
       [] s.do = "break" -> [st EXCEPT !.jump = "break"]
       [] s.do = "assert" ->
            IF v(1) # 0 THEN st ELSE [st EXCEPT !.failed = TRUE, !.jump = "raise"]
       [] s.do = "call" ->
            LET f == b.methods[s.target]
                args == [n \in Range(f.params) |-> v(Place(f.params, n))]
            IN [PyRun(b, f.body, [st EXCEPT !.vars = args]) EXCEPT !.vars = st.vars]
       [] s.do = "dict" -> [st EXCEPT !.dicts = (s.target :> known) @@ @]
       [] s.do = "update" -> [st EXCEPT !.dicts[s.target] = @ \o known]
       [] s.do = "setall" -> PyRun(b, st.dicts[s.target], st)

PyRun(b, stmts, st) ==
  FoldLeft(LAMBDA r, s : IF r.jump = "" THEN PyRunOne(b, s, r) ELSE r, st, stmts)

\* visit_Name: names that stand for numbers become these numbers.
Numbers(b) == [op \in {"name"} |-> [n \in DOMAIN b.outer |-> Const(b.outer[n])]]
RewriteGenerator(b) == ReplaceIn(b.body, Numbers(b), Empty)

-------------------------------------------------------------------------------
(* _TBLowerer.  The state is what has been lowered, the label of the loop  *)
(* that a break leaves, the next label, and the dictionaries as they are   *)
(* known now.                                                              *)

RECURSIVE Breaks(_)
Breaks(stmts) == \E s \in Range(stmts) : s.do = "break" \/ \E A \in Range(s.arms) : Breaks(A)

RECURSIVE NamesIn(_)
NamesIn(e) == IF e.op = "name" THEN {e.name} ELSE UNION {NamesIn(k) : k \in Range(e.kids)}
LowerTbExpr(b, e) ==
  Replace(e, [op \in {"name"} |-> [n \in NamesIn(e) |->
                IF n \in DOMAIN b.outer THEN Const(b.outer[n]) ELSE Sig(n)]])

RECURSIVE LowerTb(_, _, _)
LowerTbStmt(b, acc, s) ==
  LET e(i) == LowerTbExpr(b, s.es[i])
      out(stmts) == [acc EXCEPT !.out = @ \o stmts]
      inner(A, a) == LowerTb(b, A, [a EXCEPT !.out = <<>>])
      consts == SelectSeq(s.arms[1], LAMBDA c : c.es[1].op = "const")
  IN CASE s.do \in {"set", "local"} -> out(<<Stmt("set", s.target, <<e(1)>>, <<>>)>>)
       [] s.do = "delay" -> out(<<Stmt("delay", "", <<e(1)>>, <<>>)>>)
       [] s.do = "if" ->
            LET A == inner(s.arms[1], acc)
                B == inner(s.arms[2], A)
            IN [B EXCEPT !.out = acc.out \o <<Stmt("if", "", <<e(1)>>, <<A.out, B.out>>)>>]
       [] s.do = "for" ->
            LET breaks == Breaks(s.arms[1])
                label == IF breaks THEN "_loop" \o ToString(acc.id) ELSE ""
                begun == IF breaks THEN [acc EXCEPT !.label = label, !.id = @ + 1] ELSE acc
                body == inner(s.arms[1], begun)
                loop == Stmt(IF s.target = "_" THEN "repeat" ELSE "for", s.target,
                             <<e(1), e(2), Name(label)>>, <<body.out>>)
            IN [body EXCEPT !.out = Append(acc.out, loop), !.label = IF breaks THEN "" ELSE @]
       [] s.do = "break" -> IF acc.label = "" THEN acc
                            ELSE out(<<Stmt("disable", acc.label, <<>>, <<>>)>>)
       [] s.do = "assert" -> acc
       [] s.do = "call" ->
            LET f == b.methods[s.target]
                args == [n \in Range(f.params) |-> s.es[Place(f.params, n)]]
            IN LowerTb(b, ReplaceIn(f.body, [op \in {"name"} |-> args], Empty), acc)
       [] s.do = "dict" -> [acc EXCEPT !.dicts = (s.target :> consts) @@ @]
       [] s.do = "update" -> [acc EXCEPT !.dicts[s.target] = @ \o consts]
       [] s.do = "setall" -> out(acc.dicts[s.target])

LowerTb(b, stmts, acc) == FoldLeft(LAMBDA a, s : LowerTbStmt(b, a, s), acc, stmts)

LowerInitial(b) ==
  LowerTb(b, b.body, [out |-> <<>>, label |-> "", id |-> 0, dicts |-> <<>>]).out

-------------------------------------------------------------------------------
(* _tb_expr puts parentheses around every operation but && and ||, so that *)
(* an expression is read as an alternative of conjunctions.                *)

AndOf(atoms) == FoldLeft(LAMBDA x, y : Bool("&&", x, y), atoms[1], Tail(atoms))
Read(text) == FoldLeft(LAMBDA x, g : Bool("||", x, AndOf(g)), AndOf(text[1]), Tail(text))
\* The texts l and r with what stands between them joining the last operand of l
\* with the first of r.
Joined(l, r, Mid(_, _)) ==
  LET middle == Front(Last(l)) \o Mid(Last(Last(l)), Head(Head(r))) \o Tail(Head(r))
  IN Front(l) \o <<middle>> \o Tail(r)

RECURSIVE Text(_)
Text(e) ==
  LET k(i) == Text(e.kids[i])
      op(x, y) == <<[e EXCEPT !.kids = <<x, y>>]>>
      both(x, y) == <<x, y>>
      not(t) == <<<<[e EXCEPT !.kids = <<Head(Head(t))>>]>> \o Tail(Head(t))>> \o Tail(t)
  IN CASE e.op \in {"const", "sig"} -> <<<<e>>>>
       [] e.op = "bool" -> IF e.name = "||" THEN k(1) \o k(2) ELSE Joined(k(1), k(2), both)
       [] e.op \in {"bin", "cmp"} -> <<<<Read(Joined(k(1), k(2), op))>>>>
       [] e.op = "un" -> <<<<Read(not(k(1)))>>>>
       [] e.op = "mux" -> <<<<[e EXCEPT !.kids = [i \in DOMAIN @ |-> Read(k(i))]]>>>>

\* The input of a model that is wider than a bit is masked in the same expression.
Mask(d, n) == Const(2 ^ d.width[n] - 1)
Wide(d, n) == n \in d.ins /\ d.width[n] > 1
RECURSIVE EmitTb(_, _)
EmitTb(d, stmts) ==
  [i \in DOMAIN stmts |->
     LET s == stmts[i]
         masked == s.do = "set" /\ Wide(d, s.target)
     IN [s EXCEPT !.es = [j \in DOMAIN @ |->
                            IF @[j].op = "name" THEN @[j]
                            ELSE Read(Text(IF masked THEN Bin("&", @[j], Mask(d, s.target))
                                           ELSE @[j]))],
                  !.arms = [j \in DOMAIN @ |-> EmitTb(d, @[j])]]]

\* _collect_locals
RECURSIVE DeclaredIn(_, _)
DeclaredIn(d, stmts) ==
  UNION {(IF s.do = "for" \/ (s.do = "set" /\ s.target \notin DOMAIN d.width)
          THEN {s.target} ELSE {}) \cup UNION {DeclaredIn(d, A) : A \in Range(s.arms)} :
         s \in Range(stmts)}

RECURSIVE CRun(_, _, _), CLoop(_, _, _)
CRunOne(b, s, st) ==
  LET v(i) == TbVal(s.es[i], [sig |-> Over(st.vars, st.val)], TRUE)
      Turn(r, i) == IF r.jump # "" THEN r ELSE CRun(b, s.arms[1], r)
  IN CASE s.do = "set" ->
            IF s.target \in DOMAIN st.vars THEN Bound(st, s.target, v(1))
            ELSE IF s.target \in b.dut.ins THEN InputSet(b, st, s.target, v(1))
            ELSE [st EXCEPT !.val[s.target] = v(1)]
       [] s.do = "delay" -> Step(b, st, v(1))
       [] s.do = "if" -> CRun(b, IF v(1) # 0 THEN s.arms[1] ELSE s.arms[2], st)
       [] s.do = "for" -> Landed(CLoop(b, s, Bound(st, s.target, v(1))), s.es[3].name)
       [] s.do = "repeat" ->
            Landed(FoldLeft(Turn, st, [i \in 1 .. v(2) - v(1) |-> i]), s.es[3].name)
       [] s.do = "disable" -> [st EXCEPT !.jump = s.target]
CLoop(b, s, st) ==
  IF st.jump # "" \/ st.vars[s.target] >= s.es[2].num THEN st
  ELSE LET r == CRun(b, s.arms[1], st)
       IN CLoop(b, s, IF r.jump # "" THEN r ELSE Bound(r, s.target, r.vars[s.target] + 1))
CRun(b, stmts, st) ==
  FoldLeft(LAMBDA r, s : IF r.jump = "" THEN CRunOne(b, s, r) ELSE r, st, stmts)

RunBench(b, stmts) ==
  CRun(b, stmts, [Start(b) EXCEPT !.vars = [n \in DeclaredIn(b.dut, stmts) |-> 0]])

-------------------------------------------------------------------------------
BenchInit ==
  /\ bench \in Benches
  /\ form = "source" /\ code = <<>>
  /\ intended = PyRun(bench, bench.body, Start(bench))

Makes(from, to, result) ==
  form = from /\ form' = to /\ code' = result /\ UNCHANGED <<bench, intended>>

RewriteBench == Makes("source", "generator", RewriteGenerator(bench))
LowerBench == Makes("source", "lowered", LowerInitial(bench))
EmitBench == Makes("lowered", "c", EmitTb(bench.dut, code))
BenchMade == form \in {"generator", "c"} /\ UNCHANGED benchVars

BenchNext == RewriteBench \/ LowerBench \/ EmitBench \/ BenchMade

(* A bench means the same in each of its forms: the model has the same     *)
(* inputs, registers and outputs after every rising edge, and an assertion *)
(* fails at the same place in the generator; the C bench, which has none,  *)
(* does the same up to there.                                              *)
BenchesAgree ==
  /\ form = "generator" =>
       \A got \in {PyRun(bench, code, Start(bench))} :
         got.log = intended.log /\ got.failed = intended.failed
  /\ form = "c" =>
       \A got \in {RunBench(bench, code).log} :
         IF intended.failed THEN IsPrefix(intended.log, got) ELSE got = intended.log
===============================================================================
