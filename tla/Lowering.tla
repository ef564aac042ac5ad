-------------------------------- MODULE Lowering --------------------------------
(***************************************************************************)
(* lower.py: the Python functions of a module become the statements of the *)
(* intermediate representation.                                            *)
(*                                                                         *)
(* An IR module is [ins, outs, wires, regs, width, assigns, comb, seq,     *)
(* insts]; a block is [stmts, locals], locals being the declared widths of *)
(* its local variables; an instance is [name, ir, params, ports].          *)
(***************************************************************************)
EXTENDS PythonSim

\* _expr: a name that is no signal stays a signal of that name; + and - of
\* constants are folded.
RECURSIVE LowerExpr(_)
LowerExpr(e) ==
  LET ks == [i \in DOMAIN e.kids |-> LowerExpr(e.kids[i])]
  IN IF e.op = "name" THEN Sig(e.name)
     ELSE IF e.op = "bin" /\ e.name \in {"+", "-"} /\ \A k \in Range(ks) : k.op = "const"
          THEN Const(Arith(e.name, ks[1].num, ks[2].num))
     ELSE [e EXCEPT !.kids = ks]

Bind(var, i) == [op \in {"name"} |-> [n \in {var} |-> Const(i)]]

RECURSIVE HasBreak(_)
HasBreak(stmts) ==
  \E s \in Range(stmts) : s.do = "break" \/ \E A \in Range(s.arms) : HasBreak(A)
NoBreak(stmts) == SelectSeq(stmts, LAMBDA s : s.do # "break")

\* _try_case: an if/elif chain that compares one signal of the module with
\* values.  The side that is a signal is the selector; the left one wins.
SelectorOf(c) ==
  IF c.op # "cmp" \/ c.name # "==" THEN <<>>
  ELSE IF c.kids[1].op = "sig" THEN <<c.kids[1], c.kids[2]>>
  ELSE IF c.kids[2].op = "sig" THEN <<c.kids[2], c.kids[1]>> ELSE <<>>

\* The chain from s on: <<condition, body>> of each link, then the last else.
RECURSIVE Links(_)
Links(s) ==
  LET rest == s.arms[2]
      here == <<s.es[1], s.arms[1]>>
  IN IF Len(rest) = 1 /\ rest[1].do = "if"
     THEN [Links(rest[1]) EXCEPT !.links = <<here>> \o @]
     ELSE [links |-> <<here>>, default |-> rest]

IsCase(chain) ==
  LET tests == [i \in DOMAIN chain.links |-> SelectorOf(chain.links[i][1])]
  IN /\ \A i \in DOMAIN tests : tests[i] # <<>>
     /\ \A i \in DOMAIN tests : tests[i][1] = tests[1][1]

RECURSIVE LowerStmts(_), Unrolled(_, _, _, _)
LowerStmt(s) ==
  CASE s.do = "if" ->
         LET chain == Links(s)
             test(i) == SelectorOf(chain.links[i][1])
             each == [i \in DOMAIN chain.links |-> LowerExpr(test(i)[2])]
             bodies == [i \in DOMAIN chain.links |-> LowerStmts(chain.links[i][2])]
         IN IF IsCase(chain)
            THEN <<Case(test(1)[1], each, bodies, LowerStmts(chain.default))>>
            ELSE <<If(LowerExpr(s.es[1]), LowerStmts(s.arms[1]), LowerStmts(s.arms[2]))>>
    [] s.do = "for" ->
         LET n == s.es[1].num IN
         IF HasBreak(s.arms[1]) THEN Unrolled(s.arms[1], s.target, n - 1, <<>>)
         ELSE FlattenSeq([i \in 1 .. n |->
                LowerStmts(ReplaceIn(s.arms[1], Bind(s.target, i - 1), Empty))])
    [] s.do \in {"assign", "local"} -> <<Assign(s.target, LowerExpr(s.es[1]))>>
    [] s.do = "slice" -> <<[s EXCEPT !.es = [j \in DOMAIN @ |-> LowerExpr(@[j])]]>>
    [] s.do = "aug" -> <<Assign(s.target, Bin("+", Sig(s.target), LowerExpr(s.es[1])))>>
    [] OTHER -> <<>>      \* break, return, an augmented local: dropped

LowerStmts(stmts) == FlattenSeq([i \in DOMAIN stmts |-> LowerStmt(stmts[i])])

\* _unroll_for_break, from the last iteration to the first: `if c: body; break`
\* puts what follows into its else.  Any other body ends the unrolling.
Unrolled(body, var, i, later) ==
  LET turn == NoBreak(ReplaceIn(body, Bind(var, i), Empty))
  IN IF i < 0 THEN later
     ELSE IF Len(turn) = 1 /\ turn[1].do = "if"
          THEN Unrolled(body, var, i - 1,
                 <<If(LowerExpr(turn[1].es[1]), LowerStmts(NoBreak(turn[1].arms[1])), later)>>)
     ELSE IF later # <<>> THEN LowerStmts(turn) \o later
     ELSE Unrolled(body, var, i - 1, LowerStmts(turn))

-------------------------------------------------------------------------------
(* Local variables                                                         *)

RECURSIVE LocalWrites(_)
LocalWrites(stmts) ==
  UNION {(IF s.do = "local" THEN {<<s.target, s.es[1]>>} ELSE {})
         \cup UNION {LocalWrites(A) : A \in Range(s.arms)} : s \in Range(stmts)}

RECURSIVE HasName(_)
HasName(e) == e.op \in {"name", "param"} \/ \E k \in Range(e.kids) : HasName(k)

\* _infer_rhs_width evaluates the right side; when it cannot (it names another
\* local) the widest signal it mentions counts; 32 when there is none.
InferWidth(e, W) ==
  LET zero == [val |-> [n \in DOMAIN W |-> 0], local |-> Empty]
      w == IF HasName(e) THEN Max({0} \cup {W[n] : n \in ExprReads(e)})
           ELSE PyVal(e, zero, W)[2]
  IN IF w = 0 THEN 32 ELSE w

ScanLocals(body, W) ==
  LET all == LocalWrites(body)
  IN [t \in {p[1] : p \in all} |-> Max({InferWidth(p[2], W) : p \in {q \in all : q[1] = t}})]

-------------------------------------------------------------------------------
(* Blocks                                                                  *)

\* _fsm_rewrite: the state and its names become a signal and constants, and
\* `return X` an assignment to the next state after which the block goes on.
FsmNames ==
  [op \in {"name"} |->
     [n \in {"state"} \cup DOMAIN FsmStates |->
        IF n = "state" THEN Sig("_fsm_state") ELSE Const(FsmStates[n])]]
RECURSIVE FsmRewrite(_)
FsmRewrite(stmts) ==
  [i \in DOMAIN stmts |->
     LET s == [stmts[i] EXCEPT !.es = [j \in DOMAIN @ |-> Replace(@[j], FsmNames)]]
     IN IF s.do = "return" THEN Assign("_fsm_next", s.es[1])
        ELSE IF s.do = "if" THEN [s EXCEPT !.arms = [j \in DOMAIN @ |-> FsmRewrite(@[j])]]
        ELSE s]

IsPlain(block) == ~block.fsm /\ \A s \in Range(block.body) : s.do \in {"assign", "slice"}

\* collect_always_targets: what `=` assigns in the blocks that are not plain.
RECURSIVE AssignTargets(_)
AssignTargets(stmts) ==
  UNION {(IF s.do = "assign" THEN {s.target} ELSE {})
         \cup UNION {AssignTargets(A) : A \in Range(s.arms)} : s \in Range(stmts)}
AlwaysDriven(d) ==
  UNION {AssignTargets(b.body) : b \in {c \in Range(d.comb) : ~IsPlain(c)}}

\* lower_comb on a plain block: continuous assignments, apart from the targets
\* that another block drives.  The name of a sliced target is not found.
PlainAssign(s) ==
  Assign(IF s.do = "slice" THEN "None" ELSE s.target, LowerExpr(s.es[1]))
LowerPlain(block, driven) ==
  LET all == [i \in DOMAIN block.body |-> PlainAssign(block.body[i])]
      mine == SelectSeq(all, LAMBDA s : s.target \in driven)
  IN [assigns |-> SelectSeq(all, LAMBDA s : s.target \notin driven),
      comb |-> IF mine = <<>> THEN <<>> ELSE <<[stmts |-> mine, locals |-> Empty]>>]

\* A local of an earlier block is not declared again.
LowerBody(body, W, seen) ==
  LET locals == ScanLocals(body, W)
  IN [stmts |-> LowerStmts(body),
      locals |-> [t \in DOMAIN locals \ seen |-> locals[t]]]

LowerComb(block, driven, W, seen) ==
  IF block.fsm
  THEN [assigns |-> <<>>,
        comb |-> <<[stmts |-> <<Assign("_fsm_next", Sig("_fsm_state"))>>
                              \o LowerStmts(FsmRewrite(block.body)),
                    locals |-> Empty]>>]
  ELSE IF IsPlain(block) THEN LowerPlain(block, driven)
  ELSE [assigns |-> <<>>, comb |-> <<LowerBody(block.body, W, seen)>>]

LocalsOf(blocks) == UNION {DOMAIN b.locals : b \in Range(blocks)}

Gathered(acc, low) == [acc EXCEPT !.assigns = @ \o low.assigns, !.comb = @ \o low.comb]
\* The combinational blocks, then the clocked ones, [assigns, comb, seq].
LowerBlocks(d, driven, W) ==
  LET addComb(acc, b) == Gathered(acc, LowerComb(b, driven, W, LocalsOf(acc.comb)))
      addSeq(acc, b) ==
        [acc EXCEPT !.seq = Append(@, LowerBody(b.body, W, LocalsOf(acc.comb \o @)))]
  IN FoldLeft(addSeq,
              FoldLeft(addComb, [assigns |-> <<>>, comb |-> <<>>, seq |-> <<>>], d.comb),
              d.always)

\* The ports of an instance are signals of the module: <sub>_<port>.
PortsOf(sub) == [p \in sub.design.ins \cup sub.design.outs |-> Prefix(sub) \o p]

\* What is declared for a module with these blocks and instances.
Declared(d, driven, W, blocks, insts) ==
  LET subPorts == UNION {Range(PortsOf(sub)) : sub \in Range(d.subs)}
      cont == {s.target : s \in Range(blocks.assigns)}
      regs == d.inner \cup (subPorts \cap driven)
  IN [ins |-> d.ins, outs |-> d.outs,
      wires |-> (subPorts \ driven) \cup (regs \cap cont), regs |-> regs \ cont,
      width |-> [n \in d.ins \cup d.outs \cup d.inner \cup subPorts |-> W[n]],
      assigns |-> blocks.assigns, comb |-> blocks.comb, seq |-> blocks.seq, insts |-> insts]

\* lower_module.
RECURSIVE LowerModule(_)
LowerModule(d) ==
  Declared(d, AlwaysDriven(d), AllWidths(d),
           LowerBlocks(d, AlwaysDriven(d), AllWidths(d)),
           [i \in DOMAIN d.subs |-> [name |-> d.subs[i].name, ports |-> PortsOf(d.subs[i]),
                                     params |-> d.subs[i].params,
                                     ir |-> LowerModule(d.subs[i].design)]])
===============================================================================
