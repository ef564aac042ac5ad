------------------------------ MODULE CombPasses ------------------------------
(***************************************************************************)
(* What the passes after the sort decide, from what each combinational     *)
(* block reads and writes: the wires that _inline_cont_assigns substitutes *)
(* (backend_csim.py), the constants of const_propagate and the signals     *)
(* that dead_code_eliminate keeps (dce.py); and what a round of            *)
(* Module._settle_comb makes final (module.py).  A block is                *)
(* [reads, writes, lone, constant]: lone for a single assignment, constant *)
(* for one of a constant.                                                  *)
(***************************************************************************)
EXTENDS TopoSort

\* The only writer of a name is one of these blocks.
SoleWriter(blocks, s, which) == \E i \in DOMAIN blocks : Writers(blocks, s) = {i} /\ i \in which

\* The wires with one writer, a lone assignment, that no clocked block reads.
Inlinable(blocks, wires, seqReads) ==
  {s \in wires \ seqReads : SoleWriter(blocks, s, {i \in DOMAIN blocks : blocks[i].lone})}

\* Signals whose only writer is `x = constant`, and that no clocked block writes.
Constants(blocks, seqWrites) ==
  {s \in UNION {b.writes : b \in Range(blocks)} \ seqWrites :
     SoleWriter(blocks, s, {i \in DOMAIN blocks : blocks[i].constant})}

\* The blocks that write one of these names.
Setting(blocks, names) == {i \in DOMAIN blocks : blocks[i].writes \cap names # {}}

\* The blocks that write a live signal make what they read live; a round for
\* each block is enough.
Waking(blocks, live) ==
  live \cup UNION {b.reads : b \in {c \in Range(blocks) : c.writes \cap live # {}}}
LiveSignals(blocks, roots) ==
  LET live[k \in 0 .. Len(blocks)] == IF k = 0 THEN roots ELSE Waking(blocks, live[k - 1])
  IN live[Len(blocks)]
LiveBlocks(blocks, roots) == Setting(blocks, LiveSignals(blocks, roots))

\* What a round of blocks makes final: what those write that read only what is.
Learnt(known, blocks) ==
  known \cup UNION {b.writes : b \in {c \in Range(blocks) : c.reads \subseteq known}}
===============================================================================
