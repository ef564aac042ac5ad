---------------------------------- MODULE Hier ----------------------------------
(***************************************************************************)
(* emit_c_hier (backend_csim.py): one C function for every module.  The    *)
(* state of instance u is the struct s->u, its signal n the field u.n.  A  *)
(* module runs its units in a fixed order: a unit is a list of statements  *)
(* or one instance, or the instances of a cycle.  The state of the model   *)
(* is [env, next, dirty]: fields, pending writes, a dirty bit per field.    *)
(***************************************************************************)
EXTENDS Passes

\* F(x); TLC evaluates x before F and not where F uses it.
Once(F(_), x) == CHOOSE y \in {F(v) : v \in {x}} : TRUE

Field(inst, n) == inst.name \o "." \o n

\* The module of an instance, its signals named as fields, parameters resolved.
Placed(inst) ==
  LET child == inst.ir
      all == child.ins \cup child.outs \cup child.wires \cup child.regs
             \cup LocalsOf(child.comb \o child.seq)
      field == [n \in all |-> Field(inst, n)]
      re(stmts) == ReplaceIn(stmts, Renaming(field, inst.params), field)
      block(b) == [stmts |-> re(b.stmts), locals |-> Renamed(b.locals, field)]
  IN [child EXCEPT
        !.ins = {field[n] : n \in @}, !.outs = {field[n] : n \in @},
        !.wires = {field[n] : n \in @}, !.regs = {field[n] : n \in @},
        !.width = Renamed(@, field), !.assigns = re(@),
        !.comb = Map(@, block), !.seq = Map(@, block),
        !.insts = Map(@, LAMBDA i : [i EXCEPT !.name = Field(inst, @),
                                              !.ports = [p \in DOMAIN @ |-> field[@[p]]]])]

InputWires(inst) == {inst.ports[p] : p \in inst.ir.ins}
OutputWires(inst) == {inst.ports[p] : p \in inst.ir.outs}

\* The widths of the fields of a module and, inside it, of its instances.
RECURSIVE HierWidths(_)
HierWidths(ir) ==
  FoldLeft(LAMBDA w, inst : Over(HierWidths(Placed(inst)), w), SigWidths(ir), ir.insts)

-------------------------------------------------------------------------------
(* _hier_topo_sort_units                                                   *)

AssignOf(ir, n) == {i \in DOMAIN ir.assigns : ir.assigns[i].target = n}

\* The instances that a signal comes from through continuous assignments.
RECURSIVE Producers(_, _, _)
Producers(ir, names, seen) ==
  LET back == UNION {UNION {StmtReads(ir.assigns[i]) : i \in AssignOf(ir, n)} : n \in names}
  IN {j \in DOMAIN ir.insts : OutputWires(ir.insts[j]) \cap names # {}}
     \cup (IF back \subseteq seen THEN {} ELSE Producers(ir, back, seen \cup back))
DependsOn(ir, j) == Producers(ir, InputWires(ir.insts[j]), InputWires(ir.insts[j])) \ {j}

RECURSIVE Reach(_, _)
Reach(ir, js) == LET more == js \cup UNION {DependsOn(ir, j) : j \in js}
                 IN IF more = js THEN js ELSE Reach(ir, more)
\* The instances on a cycle with j, and j.
Cycle(ir, j) == {k \in Reach(ir, {j}) : j \in Reach(ir, {k})}

\* Tarjan's algorithm: a cycle is listed when its first visited member ends.
RECURSIVE Visit(_, _, _)
Visit(ir, st, j) ==
  IF j \in Range(st.seen) THEN st
  ELSE LET below == FoldLeft(LAMBDA s, k : Visit(ir, s, k), [st EXCEPT !.seen = Append(@, j)],
                             SetToSortSeq(DependsOn(ir, j), <))
       IN IF Cycle(ir, j) \cap Range(st.seen) # {} THEN below
          ELSE [below EXCEPT !.cycles = Append(@, Reverse(
                  SelectSeq(below.seen, LAMBDA k : k \in Cycle(ir, j))))]
\* The list is reversed once more before it is used.
InstOrder(ir) ==
  Reverse(FoldLeft(LAMBDA st, j : Visit(ir, st, j), [seen |-> <<>>, cycles |-> <<>>],
                   [j \in DOMAIN ir.insts |-> j]).cycles)

\* A unit: what it runs, statements or instances, and what it reads and writes.
StmtUnit(stmts) ==
  [stmts |-> stmts, insts |-> <<>>, reads |-> ReadsOf(stmts), writes |-> WritesOf(stmts)]
InstUnit(ir, js) ==
  [stmts |-> <<>>, insts |-> js,
   reads |-> UNION {InputWires(ir.insts[j]) : j \in Range(js)},
   writes |-> UNION {OutputWires(ir.insts[j]) : j \in Range(js)}]

\* The assignments that names need and that nothing produced yet.
RECURSIVE AssignChain(_, _, _)
AssignChain(ir, acc, n) ==
  IF n \in acc.produced \/ AssignOf(ir, n) = {} THEN acc
  ELSE LET a == ir.assigns[Max(AssignOf(ir, n))]
           deps == FoldLeft(LAMBDA x, m : AssignChain(ir, x, m),
                            [acc EXCEPT !.produced = @ \cup {n}], SetToSeq(StmtReads(a)))
       IN [deps EXCEPT !.units = Append(@, StmtUnit(<<a>>))]

\* HierUnits without the assignments that no instance needs.
HierUnitsNeeded(ir) ==
  LET group(acc, js) ==
        LET unit == InstUnit(ir, js)
            fed == FoldLeft(LAMBDA x, n : AssignChain(ir, x, n), acc, SetToSeq(unit.reads))
        IN [units |-> Append(fed.units, unit), produced |-> fed.produced \cup unit.writes]
  IN FoldLeft(group, [units |-> <<>>, produced |-> ir.ins \cup ir.outs \cup ir.regs],
              InstOrder(ir)).units \o Map(ir.comb, LAMBDA b : StmtUnit(b.stmts))

HierUnits(ir) ==
  LET group(acc, js) ==
        LET unit == InstUnit(ir, js)
            fed == FoldLeft(LAMBDA x, n : AssignChain(ir, x, n), acc, SetToSeq(unit.reads))
        IN [units |-> Append(fed.units, unit), produced |-> fed.produced \cup unit.writes]
      first == FoldLeft(group, [units |-> <<>>, produced |-> ir.ins \cup ir.outs \cup ir.regs],
                        InstOrder(ir)).units
      emitted == UNION {u.writes : u \in {x \in Range(first) : x.insts = <<>>}}
      rest == SelectSeq(ir.assigns, LAMBDA a : a.target \notin emitted)
  IN first \o Map(rest, LAMBDA a : StmtUnit(<<a>>)) \o Map(ir.comb, LAMBDA b : StmtUnit(b.stmts))

-------------------------------------------------------------------------------
(* The functions                                                           *)

\* _emit_stmts_batched: consecutive assignments to packed one-bit signals are
\* one write of their word; two to one signal are or-ed.
Batched(stmts, mem, W, nba) ==
  LET packed(s) == s.do = "assign" /\ s.target \notin nba /\ DeclWidth(s.target, W, 0) = 1
      bit(s, acc) == BitOr(CVal(s.es[1], acc.mem.env, W) % 2, DeclWidth(s.target, acc.word, 0))
      flushed(acc) == [acc.mem EXCEPT !.env = Over(acc.word, @)]
      step(acc, s) ==
        IF packed(s)
        THEN [acc EXCEPT !.word = Over([t \in {s.target} |-> bit(s, acc)], @)]
        ELSE [mem |-> CStmt(s, flushed(acc), W, nba), word |-> Empty]
  IN flushed(FoldLeft(step, [mem |-> mem, word |-> Empty], stmts))

Marked(mem, names, bit) ==
  [mem EXCEPT !.dirty = Over([n \in names |-> bit], @)]

Copied(mem, from, to) ==
  [mem EXCEPT !.env = Over([n \in {to} |-> @[from]], @)]
CopyPorts(mem, inst, ports, inward) ==
  FoldLeft(LAMBDA m, p : IF inward THEN Copied(m, inst.ports[p], Field(inst, p))
                         ELSE Copied(m, Field(inst, p), inst.ports[p]),
           mem, SetToSeq(ports))

\* What is emitted for a module: its units, the assignments that the outputs of
\* its instances feed, its clocked blocks, and its instances.
RECURSIVE EmitHier(_)
EmitHier(ir) ==
  LET outs == UNION {OutputWires(i) : i \in Range(ir.insts)}
  IN [units |-> HierUnits(ir), seq |-> ir.seq,
      between |-> SelectSeq(ir.assigns, LAMBDA a : StmtReads(a) \cap outs # {}),
      names |-> DOMAIN SigWidths(ir),
      state |-> ir.ins \cup ir.outs \cup ir.wires \cup ir.regs,
      insts |-> Map(ir.insts, LAMBDA i : [inst |-> i, module |-> EmitHier(Placed(i))])]

\* _emit_hier_comb_body and _emit_one_instance.  force is _comb_, where every
\* unit runs; without it a unit runs when a name it reads is dirty, or when it
\* reads none, and what it writes becomes dirty.
RECURSIVE RunUnits(_, _, _, _)
RunInstance(i, mem, W, force) ==
  LET forced == force \/ (i.module.insts = <<>> /\ i.module.seq = <<>>)
      inside == RunUnits(i.module, CopyPorts(mem, i.inst, i.inst.ir.ins, TRUE), W, forced)
  IN CopyPorts(inside, i.inst, i.inst.ir.outs, FALSE)

\* A cycle is run twice, with the assignments that its outputs feed.
RunCycle(hm, js, mem, W) ==
  LET turn(m) == FoldLeft(LAMBDA x, j : RunInstance(hm.insts[j], x, W, TRUE),
                          CStmts(hm.between, m, W, {}), js)
  IN Once(turn, Once(turn, mem))

RunUnit(hm, u, mem, W, force) ==
  LET due == force \/ u.reads = {} \/ \E n \in u.reads : mem.dirty[n]
      ran == IF u.insts = <<>> THEN Batched(u.stmts, mem, W, {})
             ELSE IF Len(u.insts) = 1 THEN RunInstance(hm.insts[u.insts[1]], mem, W, force)
             ELSE RunCycle(hm, u.insts, mem, W)
  IN IF ~due THEN mem ELSE IF force THEN ran ELSE Marked(ran, u.writes, TRUE)

RunUnits(hm, mem, W, force) ==
  FoldLeft(LAMBDA m, u : Once(LAMBDA v : RunUnit(hm, u, v, W, force), m), mem, hm.units)

\* _seq_ at an edge of the clock: the blocks of the module, its registers, then
\* the instances.
RECURSIVE RunSeq(_, _, _)
RunSeq(hm, mem, W) ==
  LET written == WritesOf(AllStmts(hm.seq))
      ran == FoldLeft(LAMBDA m, b : Batched(b.stmts, m, W, written \cap hm.state), mem, hm.seq)
      own == Marked([ran EXCEPT !.env = Over(ran.next, @), !.next = Empty], written, TRUE)
  IN FoldLeft(LAMBDA m, i : RunSeq(i.module, m, W), own, hm.insts)

\* veripy_eval: settle, clear the dirty bits of the top module, clock, settle
\* again what became dirty.
HierEval(hm, mem, W, edge) ==
  LET clear(m) == Marked(m, hm.names, FALSE)
      clock(m) == IF edge THEN RunSeq(hm, clear(m), W) ELSE clear(m)
      settle(m) == RunUnits(hm, m, W, TRUE)
  IN Once(LAMBDA m : RunUnits(hm, m, W, FALSE), Once(clock, Once(settle, mem)))
=================================================================================
