-------------------------------- MODULE Toolchain --------------------------------
(***************************************************************************)
(* compile_model (backend_csim.py): a module is lowered, flattened, its    *)
(* combinational logic sorted, wires inlined, constants propagated, dead   *)
(* blocks removed, and the result emitted as C.  One action is one pass.   *)
(* meaning holds, for every valuation of the inputs and registers, what    *)
(* the Python simulation of the same source settles to.                    *)
(***************************************************************************)
EXTENDS Hier

CONSTANTS
  Designs,     \* the modules that are compiled
  Values       \* values of inputs and registers wider than one bit

VARIABLES design, stage, ir, meaning

vars == <<design, stage, ir, meaning>>

\* Registers: what the clocked blocks of the source assign.
RECURSIVE Assigned(_)
Assigned(stmts) ==
  UNION {(IF s.do \in {"assign", "slice", "aug"} THEN {s.target} ELSE {})
         \cup UNION {Assigned(A) : A \in Range(s.arms)} : s \in Range(stmts)}
BlocksOf(d, which) ==
  (IF which = "comb" THEN d.comb ELSE d.always)
  \o FlattenSeq(Map(d.subs, LAMBDA sub :
       SubBlocks(sub, IF which = "comb" THEN sub.design.comb ELSE sub.design.always)))
Registers(d) == UNION {Assigned(b.body) : b \in Range(BlocksOf(d, "always"))}

\* The inputs and registers take every value; the rest starts as stale says.
Free(d) == d.ins \cup Registers(d)
Scenarios(d) ==
  LET W == AllWidths(d)
  IN {sc \in [Free(d) -> {0, 1} \cup Values] : \A n \in Free(d) : sc[n] < 2 ^ W[n]}
Stales == {0, 1}
Started(d, sc, stale) ==
  [val |-> [n \in AllNames(d) |-> IF n \in DOMAIN sc THEN sc[n] ELSE stale],
   next |-> Empty]

\* What a module means: its settled outputs and the registers after an edge.
Outcome(d, val, next) ==
  [out |-> [n \in d.outs |-> val[n]],
   after |-> [n \in Registers(d) |-> IF n \in DOMAIN next THEN next[n] ELSE val[n]]]
AtEdge(d, rest, W) == Outcome(d, rest.val, ClockBlocks(d, rest, W).next)
PythonOutcome(d, sc) ==
  LET W == AllWidths(d) IN AtEdge(d, Settled(d, Started(d, sc, 0), W, SettleBound), W)

\* One evaluation of the C model: the combinational statements in order, then
\* the clocked ones.
EvalModel(d, m, sc, stale) ==
  LET W == SigWidths(m)
      names == AllNames(d) \cup DOMAIN W \cup {"None"}
      start == [env |-> [n \in names |-> IF n \in DOMAIN sc THEN sc[n] ELSE stale],
                next |-> Empty]
      comb == CStmts(AllStmts(m.comb), start, W, {})
      clocked == CStmts(AllStmts(m.seq), comb, W, Registers(d))
  IN Outcome(d, comb.env, clocked.next)

NoIr == [insts |-> <<>>]
Init == /\ design \in Designs
        /\ stage = "source"
        /\ ir = NoIr
        /\ meaning = [sc \in Scenarios(design) |-> PythonOutcome(design, sc)]

Pass(from, to, result) ==
  stage = from /\ stage' = to /\ ir' = result /\ UNCHANGED <<design, meaning>>

Lower == Pass("source", "lowered", LowerModule(design))
Flatten == Pass("lowered", "flat", FlattenIr(ir))
Sort == ~LoopDetected(ir) /\ Pass("flat", "sorted", TopoSortComb(ir))
\* "Combinational loop detected": ValueError, nothing is compiled.
Refuse == LoopDetected(ir) /\ Pass("flat", "refused", ir)
Inline == Pass("sorted", "inlined", InlineContAssigns(ir))
Propagate == Pass("inlined", "propagated", ConstPropagate(ir))
Eliminate == Pass("propagated", "emitted", DeadCodeEliminate(ir))
\* compile_model_hier takes the lowered modules as they are.
Hierarchical == Pass("lowered", "hier", ir)
Compiled == stage \in {"emitted", "refused", "hier"} /\ UNCHANGED vars

Next == \/ Lower \/ Flatten \/ Hierarchical
        \/ stage = "flat" /\ (Sort \/ Refuse)
        \/ Inline \/ Propagate \/ Eliminate \/ Compiled

Spec == Init /\ [][Next]_vars

-------------------------------------------------------------------------------
(* Properties                                                              *)

\* From the sorted module to the emitted one, one evaluation of the C code
\* gives the outputs and the next registers that the Python simulation of the
\* source settles to, whatever its wires and variables held before: no pass
\* reorders, renames, folds or drops what the module means.
MeaningKept ==
  stage \in {"sorted", "inlined", "propagated", "emitted"} =>
    \A sc \in DOMAIN meaning, stale \in Stales :
      EvalModel(design, ir, sc, stale) = meaning[sc]

\* What a statement of the source reads and writes, local variables included.
RECURSIVE Leaves(_), SourceReads(_), SourceWrites(_)
Leaves(e) == (IF e.op \in {"sig", "name"} THEN {e.name} ELSE {})
             \cup UNION {Leaves(k) : k \in Range(e.kids)}
Inside(s) == UNION {Range(A) : A \in Range(s.arms)}
SourceReads(s) == UNION {Leaves(e) : e \in Range(s.es)}
                  \cup UNION {SourceReads(t) : t \in Inside(s)}
SourceWrites(s) ==
  (IF s.do = "return" THEN {"_fsm_next"} ELSE IF s.do = "for" THEN {} ELSE {s.target} \ {""})
  \cup UNION {SourceWrites(t) : t \in Inside(s)}

\* The combinational statements, a local variable named after its block.
Qualified(block, i) ==
  LET own == UNION {SourceWrites(s) : s \in Range(block.body)} \ AllNames(design)
      name == [t \in own |-> ToString(i) \o t]
  IN ReplaceIn(block.body, [op \in {"name"} |-> [t \in own |-> Name(name[t])]], name)
CombStmts == LET blocks == BlocksOf(design, "comb")
             IN UNION {Range(Qualified(blocks[i], i)) : i \in DOMAIN blocks}

\* Everything that feeds the names of a set on some path, and the loops.
Feeds(names, stmts) ==
  UNION {SourceReads(s) : s \in {t \in stmts : SourceWrites(t) \cap names # {}}}
RECURSIVE FedBy(_, _)
FedBy(names, stmts) ==
  LET more == names \cup Feeds(names, stmts)
  IN IF more = names THEN names ELSE FedBy(more, stmts)
HasLoop ==
  LET stmts == CombStmts
  IN \E n \in UNION {SourceWrites(s) : s \in stmts} : n \in FedBy(Feeds({n}, stmts), stmts)

\* Compilation is refused exactly for the modules in which a signal feeds
\* itself through statements, local variables and the ports of sub-modules.
LoopsReported == stage \in {"sorted", "refused"} => (stage = "refused" <=> HasLoop)

\* Lowering and flattening give the sort nodes as it needs them, also when two
\* instances of one module have their local variables side by side: a name is
\* written in one block, and a local is read there and not written again below.
NodesAreLawful ==
  stage = "flat" => Lawful(Len(SortEffects(ir)), SortEffects(ir), LocalsOf(ir.comb))

\* The hierarchical model after calls of eval with the inputs held, until one
\* changes nothing, or the given number of them.
RECURSIVE Quiet(_, _, _, _)
Quiet(hm, mem, W, calls) ==
  LET again(m) == IF calls = 0 \/ m.env = mem.env THEN m ELSE Quiet(hm, m, W, calls - 1)
  IN Once(again, HierEval(hm, mem, W, FALSE))
FlatName(d, n) ==
  LET subs == {s \in Range(d.subs) : \E k \in Names(s.design) : n = s.name \o "." \o k}
  IN IF subs = {} THEN n
     ELSE LET s == CHOOSE s \in subs : TRUE
          IN Prefix(s) \o (CHOOSE k \in Names(s.design) : n = s.name \o "." \o k)
RegisterFields(d, W) ==
  [n \in Registers(d) |-> LET own == {f \in DOMAIN W : f # n /\ FlatName(d, f) = n}
                          IN IF own = {} THEN n ELSE CHOOSE f \in own : TRUE]

\* Fresh inputs in a model whose other fields hold what they happen to hold.
HierStart(hm, W, sc, stale) ==
  LET names == AllNames(design) \cup DOMAIN W \cup {"None"}
      start(n) == IF FlatName(design, n) \in DOMAIN sc THEN sc[FlatName(design, n)] ELSE stale
  IN [env |-> [n \in names |-> start(n)], next |-> Empty,
      dirty |-> [n \in names |-> n \in hm.names]]

HierOutputs(mem) == [n \in design.outs |-> mem.env[n]]

\* The hierarchical model may be behind by some calls of eval, but with the inputs
\* held each call gets one more signal of a path right: after as many as there
\* are signals, and so when a call changes nothing, it is at what the module
\* means, before an edge, at the edge and after it.
HierCatchesUp ==
  stage = "hier" /\ ~HasLoop =>
    LET W == HierWidths(ir)
        field == RegisterFields(design, W)
        calls == Cardinality(AllNames(design))
    IN \A hm \in {EmitHier(ir)}, sc \in DOMAIN meaning, stale \in Stales :
       \A rest \in {Quiet(hm, HierStart(hm, W, sc, stale), W, calls)} :
       \A edge \in {HierEval(hm, rest, W, TRUE)} :
         LET registers == [n \in Registers(design) |-> edge.env[field[n]]]
         IN /\ HierOutputs(rest) = meaning[sc].out
            /\ registers = meaning[sc].after
            /\ HierOutputs(Quiet(hm, edge, W, calls)) = meaning[Over(registers, sc)].out

\* One call of eval is enough when no instance depends on itself through others:
\* "instances are topologically sorted within each module so that a single-pass
\* comb evaluation suffices (no settle loop) when there are no combinational
\* cycles" (backend_csim.py:1854).
SinglePassSuffices ==
  stage = "hier" /\ ~HasLoop /\ (\A j \in DOMAIN ir.insts : Cycle(ir, j) = {j}) =>
    LET W == HierWidths(ir)
    IN \A hm \in {EmitHier(ir)}, sc \in DOMAIN meaning, stale \in Stales :
         HierOutputs(HierEval(hm, HierStart(hm, W, sc, stale), W, FALSE)) = meaning[sc].out

\* What one call of _settle_comb can get right: what the blocks of the module
\* make of inputs and registers, then each sub-module in turn, then the module.
Learn(known, blocks) ==
  Learnt(known, Map(blocks, LAMBDA b :
    [reads |-> AllNames(design) \cap UNION {SourceReads(s) : s \in Range(b.body)},
     writes |-> UNION {SourceWrites(s) : s \in Range(b.body)}]))
SettledByOneCall ==
  LET first == Learn(Free(design), design.comb)
      children == FoldLeft(LAMBDA known, sub : Learn(known, SubBlocks(sub, sub.design.comb)),
                           first, design.subs)
  IN children \cup (Learn(children, design.comb) \cap Names(design))

\* One call of _settle_comb leaves at its final value every signal whose logic
\* runs from the module into its sub-modules and back, whatever was there
\* before; only longer paths need another call.
SettleReaches ==
  stage = "source" =>
    LET W == AllWidths(design) IN
    \A sc \in DOMAIN meaning, stale \in Stales :
      \A once \in {SettleComb(design, Started(design, sc, stale), W)} :
      \A rest \in {Settled(design, once, W, SettleBound)} :
        \A n \in SettledByOneCall \cap AllNames(design) : once.val[n] = rest.val[n]
===============================================================================
