--------------------------------- MODULE Passes ---------------------------------
(***************************************************************************)
(* The passes between lowering and C text: flatten_ir and topo_sort_comb   *)
(* (flatten.py), _inline_cont_assigns (backend_csim.py), const_propagate   *)
(* and dead_code_eliminate (dce.py).                                       *)
(***************************************************************************)
EXTENDS Lowering, CombPasses

Map(stmts, F(_)) == [i \in DOMAIN stmts |-> F(stmts[i])]

(* flatten_ir ------------------------------------------------------------- *)

SignalRename(inst) ==                                               \* mutant
  LET locals == LocalsOf(inst.ir.comb \o inst.ir.seq)
  IN Over(inst.ports, [n \in inst.ir.regs \cup inst.ir.wires \cup locals
                         |-> IF n \in locals THEN n ELSE inst.name \o "_" \o n])
InstRename(inst) ==
  LET child == inst.ir
      pre == inst.name \o "_"
  IN Over(inst.ports,
          [n \in child.regs \cup child.wires \cup LocalsOf(child.comb \o child.seq)
             |-> pre \o n])

Renamed(f, rename) ==
  [m \in {rename[n] : n \in DOMAIN f} |-> f[CHOOSE n \in DOMAIN f : rename[n] = m]]

InlineInstance(out, inst) ==
  LET child == inst.ir
      rename == InstRename(inst)
      inner == child.regs \cup child.wires
      re(stmts) == ReplaceIn(stmts, Renaming(rename, inst.params), rename)
      block(b) == [stmts |-> re(b.stmts), locals |-> Renamed(b.locals, rename)]
  IN [out EXCEPT
        !.regs = @ \cup {rename[n] : n \in child.regs},
        !.wires = @ \cup {rename[n] : n \in child.wires},
        !.width = Over(@, Renamed([n \in inner |-> child.width[n]], rename)),
        !.assigns = @ \o re(child.assigns),
        !.comb = @ \o Map(child.comb, block),
        !.seq = @ \o Map(child.seq, block)]

AllStmts(blocks) == FlattenSeq(Map(blocks, LAMBDA b : b.stmts))

\* Registers that only combinational logic drives are wires.
Reclassified(ir) ==
  LET only == ((WritesOf(AllStmts(ir.comb)) \cup WritesOf(ir.assigns)) \cap ir.regs)
              \ WritesOf(AllStmts(ir.seq))
  IN [ir EXCEPT !.regs = @ \ only, !.wires = @ \cup only]

\* A module without instances is not flattened at all.
FlattenIr(ir) ==
  IF ir.insts = <<>> THEN ir
  ELSE Reclassified([FoldLeft(InlineInstance, ir, ir.insts) EXCEPT !.insts = <<>>])

\* _build_sig_widths: the table of widths of the emitter.
SigWidths(ir) ==
  FoldLeft(LAMBDA w, b : Over(b.locals, w),
           [n \in ir.ins \cup ir.outs \cup ir.wires \cup ir.regs |-> ir.width[n]],
           ir.comb \o ir.seq)

(* topo_sort_comb --------------------------------------------------------- *)

\* A block that stays one node, reading and writing across itself.
SortNodesWhole(ir) ==
  [i \in DOMAIN ir.assigns |-> [bid |-> -i, stmts |-> <<ir.assigns[i]>>, locals |-> Empty]]
  \o [i \in DOMAIN ir.comb |-> [bid |-> i, stmts |-> ir.comb[i].stmts, locals |-> ir.comb[i].locals]]

\* Every continuous assignment and every statement of a block is a node.
SortNodes(ir) ==
  LET of(i) == IF ir.comb[i].stmts = <<>>
               THEN <<[bid |-> i, stmts |-> <<>>, locals |-> ir.comb[i].locals]>>
               ELSE Map(ir.comb[i].stmts,
                        LAMBDA s : [bid |-> i, stmts |-> <<s>>, locals |-> ir.comb[i].locals])
  IN [i \in DOMAIN ir.assigns |-> [bid |-> -i, stmts |-> <<ir.assigns[i]>>, locals |-> Empty]]
     \o FlattenSeq([i \in DOMAIN ir.comb |-> of(i)])

SortEffects(ir) == Map(SortNodes(ir), LAMBDA n : [bid |-> n.bid, reads |-> ReadsOf(n.stmts),
                                                  writes |-> WritesOf(n.stmts)])

\* The order of the nodes; shorter than their number when there is a loop.
SortOrder(ir) == KahnOrder(SortEdges(SortEffects(ir), LocalsOf(ir.comb)))
LoopDetected(ir) == Len(SortOrder(ir)) # Len(SortNodes(ir))

TopoSortComb(ir) ==
  LET nodes == SortNodes(ir)
  IN [ir EXCEPT !.assigns = <<>>,
                !.comb = Map(SortOrder(ir), LAMBDA i : [stmts |-> nodes[i].stmts,
                                                        locals |-> nodes[i].locals])]

\* What the passes that follow look at in the blocks.
IsAssign(b) == Len(b.stmts) = 1 /\ b.stmts[1].do = "assign"
Effects(ir) ==
  Map(ir.comb, LAMBDA b : [reads |-> ReadsOf(b.stmts), writes |-> WritesOf(b.stmts),
                           lone |-> IsAssign(b),
                           constant |-> IsAssign(b) /\ b.stmts[1].es[1].op = "const"])
\* The value of a name whose only writer is one assignment.
ValueOf(ir, n) == ir.comb[CHOOSE i \in Writers(Effects(ir), n) : TRUE].stmts[1].es[1]
Kept(blocks, which) ==
  Map(SelectSeq([i \in DOMAIN blocks |-> i], LAMBDA i : i \in which), LAMBDA i : blocks[i])

(* _inline_cont_assigns --------------------------------------------------- *)

\* _se: the expression of a wire is substituted in turn.
RECURSIVE Inlined(_, _)
Inlined(e, exprs) ==
  IF e.op = "sig" /\ e.name \in DOMAIN exprs THEN Inlined(exprs[e.name], exprs)
  ELSE [e EXCEPT !.kids = [i \in DOMAIN @ |-> Inlined(@[i], exprs)]]

\* _ss: the values of a case stay as they are.
RECURSIVE InlinedIn(_, _)
InlinedIn(stmts, exprs) ==
  Map(stmts, LAMBDA s :
    [s EXCEPT !.es = [j \in DOMAIN @ |-> IF s.do = "case" /\ j > 1 THEN @[j]
                                         ELSE Inlined(@[j], exprs)],
              !.arms = [j \in DOMAIN @ |-> InlinedIn(@[j], exprs)]])

InlineContAssigns(ir) ==
  LET cand == Inlinable(Effects(ir), ir.wires, ReadsOf(AllStmts(ir.seq)))
      exprs == [n \in cand |-> ValueOf(ir, n)]
      kept == Kept(ir.comb, DOMAIN ir.comb \ Setting(Effects(ir), cand))
  IN [ir EXCEPT !.wires = @ \ cand,
                !.comb = Map(kept, LAMBDA b : [b EXCEPT !.stmts = InlinedIn(@, exprs)])]

(* const_propagate -------------------------------------------------------- *)

\* _try_fold on a node whose parts are folded: Python's integers, no widths.
Folded(e) ==
  LET k == e.kids
      known == \A x \in Range(k) : x.op = "const"
  IN CASE e.op = "bin" /\ known -> Const(Arith(e.name, k[1].num, k[2].num))
       [] e.op = "cmp" /\ known -> Const(Compare(e.name, k[1].num, k[2].num))
       [] e.op = "un" /\ known -> Const(IF e.name = "!" THEN Truth(k[1].num = 0)
                                        ELSE -1 - k[1].num)
       [] e.op = "bool" /\ known ->
            Const(Truth(IF e.name = "&&" THEN \A x \in Range(k) : x.num # 0
                                         ELSE \E x \in Range(k) : x.num # 0))
       [] e.op = "mux" /\ k[1].op = "const" -> IF k[1].num # 0 THEN k[2] ELSE k[3]
       [] OTHER -> e

RECURSIVE Propagated(_, _)
Propagated(e, consts) ==
  IF e.op = "sig" /\ e.name \in DOMAIN consts THEN Const(consts[e.name])
  ELSE Folded([e EXCEPT !.kids = [i \in DOMAIN @ |-> Propagated(@[i], consts)]])

\* _subst_stmt: an `if` that is decided becomes the list of its branch.
RECURSIVE SubstStmts(_, _)
SubstStmts(stmts, consts) ==
  Map(stmts, LAMBDA s :
    LET es == [j \in DOMAIN s.es |-> Propagated(s.es[j], consts)]
        arms == [j \in DOMAIN s.arms |-> SubstStmts(s.arms[j], consts)]
    IN IF s.do = "if" /\ es[1].op = "const"
       THEN Listed(IF es[1].num # 0 THEN arms[1] ELSE arms[2])
       ELSE [s EXCEPT !.es = es, !.arms = arms])

\* _flatten_stmts: the lists of a block, not those inside its statements.
RECURSIVE FlattenStmts(_)
FlattenStmts(stmts) ==
  FlattenSeq(Map(stmts, LAMBDA s : IF s.do = "list" THEN FlattenStmts(s.arms[1]) ELSE <<s>>))

ConstPropagate(ir) ==
  LET consts == [n \in Constants(Effects(ir), WritesOf(AllStmts(ir.seq))) |-> ValueOf(ir, n).num]
      block(b) == [b EXCEPT !.stmts = FlattenStmts(SubstStmts(@, consts))]
  IN IF DOMAIN consts = {} THEN ir
     ELSE [ir EXCEPT !.comb = Map(@, block), !.seq = Map(@, block)]

(* dead_code_eliminate ---------------------------------------------------- *)

DeadCodeEliminate(ir) ==
  LET kept == Kept(ir.comb, LiveBlocks(Effects(ir), ir.outs \cup ReadsOf(AllStmts(ir.seq))))
      stmts == AllStmts(kept) \o AllStmts(ir.seq)
      needed == ReadsOf(stmts) \cup WritesOf(stmts) \cup ir.ins \cup ir.outs
  IN IF Len(kept) = Len(ir.comb) THEN ir
     ELSE [ir EXCEPT !.comb = kept, !.wires = @ \cap needed, !.regs = @ \cap needed]
===============================================================================
