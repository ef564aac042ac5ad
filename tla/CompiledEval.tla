---------------------------- MODULE CompiledEval ----------------------------
(***************************************************************************)
(* The C function veripy_eval that emit_c (backend_csim.py) writes for a   *)
(* flattened, topologically sorted design.  One call                       *)
(*   - looks for clock edges,                                              *)
(*   - runs every combinational block (veripy_eval_comb),                  *)
(*   - if an edge fired, runs the sequential blocks edge group by edge     *)
(*     group, then runs again only those combinational groups that the     *)
(*     static analysis calls affected and the dirty bits call stale        *)
(*     (veripy_eval_seq).                                                  *)
(* Wires that are no ports or regs and that only combinational blocks read *)
(* are C locals: each of the two functions starts with all of them zero.   *)
(*                                                                         *)
(* A design is a constant.  A combinational block is a record [reads,      *)
(* writes, fn], a sequential one has its edges as well; fn maps a          *)
(* valuation of the signals read to the values assigned, which on some     *)
(* paths through the block are not all of `writes'.  topo_sort_comb makes  *)
(* every statement of a combinational block a block of its own, so that a  *)
(* signal with a default and an override has two.  (Where const_propagate  *)
(* decides an `if' a block may have several statements again; the module   *)
(* leaves that out.)  It says what the emitted code does with any such     *)
(* design; whether that is what Verilog means is the question of the       *)
(* properties.                                                             *)
(***************************************************************************)
EXTENDS Integers, Sequences, FiniteSets

CONSTANTS
    Inputs,     \* ports the test bench drives, clocks included
    Regs,       \* signals written by sequential blocks with <=
    Mems,       \* memories, one word each
    Wires,      \* signals written by combinational blocks
    Outputs,    \* those of Wires that are output ports
    Declared,   \* those that the lowering declares as reg; the rest are local
                \* variables of a block and targets of continuous assigns
    Val, Zero,  \* the values of a signal
    Comb,       \* combinational blocks in the order of topo_sort_comb
    Plain,      \* those of them that are one assignment and nothing else
    Word,       \* of each one-bit signal in the struct, the word it is packed in
    Seqs,       \* sequential blocks in source order
    EdgeOrder   \* the edges of Seqs in the order of sorted(edge_blocks)

Signals == Inputs \cup Regs \cup Mems \cup Wires

CombBlocks == DOMAIN Comb
SeqBlocks == DOMAIN Seqs
EdgeGroups == DOMAIN EdgeOrder

Kinds == {"posedge", "negedge"}
Clocks == {EdgeOrder[k][2] : k \in EdgeGroups}

\* What a block assigns on a valuation, as a function on signals.
Apply(block, v) == block.fn[[s \in block.reads |-> v[s]]]

\* The valuation that differs from v by what a block has written.
Write(v, new) == [s \in DOMAIN v |-> IF s \in DOMAIN new THEN new[s] ELSE v[s]]

IsBlock(b, targets) ==
    /\ b.reads \subseteq Signals
    /\ b.writes \subseteq targets
    /\ \A x \in [b.reads -> Val] : /\ DOMAIN b.fn[x] \subseteq b.writes
                                 /\ b.fn[x] \in [DOMAIN b.fn[x] -> Val]

(***************************************************************************)
(* What flatten_ir, topo_sort_comb and the lowering guarantee: a block     *)
(* reads nothing that it or a later block writes, and every register and   *)
(* memory has one driver.                                                  *)
(***************************************************************************)
ASSUME DesignAssumption ==
    /\ Zero \in Val
    /\ Outputs \cup Declared \subseteq Wires
    /\ Len(Comb) \in Nat /\ DOMAIN Comb = 1 .. Len(Comb)
    /\ Len(Seqs) \in Nat /\ DOMAIN Seqs = 1 .. Len(Seqs)
    /\ EdgeOrder \in Seq(Kinds \X Signals)
    /\ \A b \in SeqBlocks : Seqs[b].edges \subseteq {EdgeOrder[k] : k \in EdgeGroups}
    /\ \A i \in CombBlocks : IsBlock(Comb[i], Wires)
    /\ Wires \subseteq UNION {Comb[i].writes : i \in CombBlocks}
    /\ \A b \in SeqBlocks : IsBlock(Seqs[b], Regs \cup Mems)
    /\ \A i, j \in CombBlocks : i <= j => Comb[i].reads \cap Comb[j].writes = {}
    /\ \A b, c \in SeqBlocks : b # c => Seqs[b].writes \cap Seqs[c].writes = {}

ASSUME NamesAssumption ==
    /\ Inputs \cap (Regs \cup Mems \cup Wires) = {}
    /\ Regs \cap (Mems \cup Wires) = {}
    /\ Mems \cap Wires = {}

-----------------------------------------------------------------------------
(* The static analysis of emit_c *)

SeqReads == UNION {Seqs[b].reads : b \in SeqBlocks}
SeqWritten == UNION {Seqs[b].writes : b \in SeqBlocks}

\* Block i is merged with the next one when nobody else sees what it writes.
Readers(s) == {i \in CombBlocks : s \in Comb[i].reads}
Merges(i) == /\ i + 1 \in CombBlocks
             /\ \A s \in Comb[i].writes : /\ s \notin Outputs
                                          /\ s \notin SeqReads
                                          /\ Readers(s) = {i + 1}

SameGroup(i, j) == /\ \A k \in i .. j - 1 : Merges(k)
                   /\ \A k \in j .. i - 1 : Merges(k)
Group(i) == {j \in CombBlocks : SameGroup(i, j)}
Leads(i) == i = 1 \/ ~ Merges(i - 1)
GroupReads(i) == UNION {Comb[j].reads : j \in Group(i)}

\* Blocks whose group reads, directly or through others, what an edge may write.
ClosedUnderReading(S) ==
    \A i \in CombBlocks :
        (\/ i \in S
         \/ GroupReads(i) \cap (SeqWritten \cup UNION {Comb[j].writes : j \in S}) # {})
            => Group(i) \subseteq S
\* mutant: only blocks that read a register themselves, no closure
DirectlyAffected == {i \in CombBlocks : GroupReads(i) \cap SeqWritten # {}}
Affected == {i \in CombBlocks : \A S \in SUBSET CombBlocks :
                                    ClosedUnderReading(S) => i \in S}

\* Wires that become C locals; all other signals are in the struct and have
\* a dirty bit.
Promoted == Wires \ (Outputs \cup Declared \cup SeqReads \cup Clocks)
Tracked == Signals \ Promoted

ASSUME PackingAssumption ==
    /\ Plain \subseteq CombBlocks
    /\ \A i \in Plain : \E s \in Wires :
          /\ Comb[i].writes = {s}
          /\ \A x \in [Comb[i].reads -> Val] : DOMAIN Comb[i].fn[x] = {s}
    /\ DOMAIN Word \subseteq Tracked

(***************************************************************************)
(* _emit_stmts_batched: of the assignments to packed signals that follow   *)
(* one another in a merge group, those to the same word become one         *)
(* statement, where the first of them stands.                              *)
(***************************************************************************)
Packed(i) == i \in Plain /\ Comb[i].writes \subseteq DOMAIN Word
PackedThroughout(i, j) ==
    \A k \in CombBlocks : (i <= k /\ k <= j) \/ (j <= k /\ k <= i) => Packed(k)
SameWord(i, j) == \E s \in Comb[i].writes, t \in Comb[j].writes : Word[s] = Word[t]
Batch == [i \in CombBlocks |->
    {i} \cup {j \in Group(i) : PackedThroughout(i, j) /\ SameWord(i, j)}]

\* All that these blocks assign on v, none seeing what another one writes.
Assigned(batch, v) ==
    [s \in UNION {DOMAIN Apply(Comb[j], v) : j \in batch} |->
        LET j == CHOOSE j \in batch : s \in DOMAIN Apply(Comb[j], v)
        IN Apply(Comb[j], v)[s]]

\* The effect of the code at the place of block i.
Emitted(i, v) == IF \E j \in Batch[i] : j < i THEN v ELSE Write(v, Assigned(Batch[i], v))

BlocksOf(k) == {b \in SeqBlocks : EdgeOrder[k] \in Seqs[b].edges}
GroupWrites(k) == UNION {Seqs[b].writes : b \in BlocksOf(k)}

-----------------------------------------------------------------------------
VARIABLES
    val,     \* the struct, with the C locals of the running function
    prevClk, \* _prev_<clk>
    dirty,   \* _dirty
    pc,      \* where the call is, "bench" between two calls
    at,      \* the block or edge group that is next
    run,     \* settle: the group of the last block is being run
             \* comb: an edge fired when the call began
    nba,     \* the _nba_ locals of the running edge group
    due,     \* its blocks that have not run
    \* The rest is not in the code: it records what Verilog asks for.
    seen,    \* the clocks at the end of the last call
    ideal    \* what the registers and memories should hold after this one

evalVars == <<val, prevClk, dirty, pc, at, run, nba, due, seen, ideal>>

EdgeFires(e, old, v) == IF e[1] = "posedge" THEN v[e[2]] # Zero /\ old[e[2]] = Zero
                                            ELSE v[e[2]] = Zero /\ old[e[2]] # Zero
AnyEdge == \E k \in EdgeGroups : EdgeFires(EdgeOrder[k], prevClk, val)

ClocksOf(v) == [c \in Clocks |-> v[c]]
ZeroLocals(v) == [s \in Signals |-> IF s \in Promoted THEN Zero ELSE v[s]]

\* veripy_create: calloc, then every dirty bit set.
EvalInit ==
        /\ val = [s \in Signals |-> Zero]
        /\ prevClk = [c \in Clocks |-> Zero]
        /\ dirty = Tracked
        /\ pc = "bench" /\ at = 1 /\ run = FALSE
        /\ nba = << >> /\ due = {}
        /\ seen = prevClk
        /\ ideal = [s \in Regs \cup Mems |-> Zero]

(***************************************************************************)
(* Between two calls the test bench sets inputs.  `pc' is "fresh" right    *)
(* after a call and "bench" once an input has been set.                    *)
(***************************************************************************)
SetInput(s, x) ==
    /\ pc \in {"bench", "fresh"} /\ val[s] # x
    /\ val' = [val EXCEPT ![s] = x]
    /\ dirty' = dirty \cup {s}
    /\ pc' = "bench"
    /\ UNCHANGED <<prevClk, at, run, nba, due, seen, ideal>>

\* veripy_eval looks for edges, then veripy_eval_comb starts.
BeginEval ==
    /\ pc \in {"bench", "fresh"}
    /\ run' = (EdgeOrder = << >> \/ AnyEdge)
    /\ val' = ZeroLocals(val)
    /\ pc' = "comb" /\ at' = 1
    /\ UNCHANGED <<prevClk, dirty, nba, due, seen, ideal>>

EvalComb ==
    /\ pc = "comb" /\ at \in CombBlocks
    /\ val' = Emitted(at, val)
    /\ at' = at + 1
    /\ UNCHANGED <<prevClk, dirty, pc, run, nba, due, seen, ideal>>

\* What a Verilog simulator would do with the edges of this call: all
\* blocks that are sensitive to one of them read the values from before.
Triggered(v) == {b \in SeqBlocks : \E e \in Seqs[b].edges : EdgeFires(e, seen, v)}
NextState(v) == [s \in Regs \cup Mems |->
                   IF \E b \in Triggered(v) : s \in DOMAIN Apply(Seqs[b], v)
                   THEN LET b == CHOOSE b \in Triggered(v) : s \in DOMAIN Apply(Seqs[b], v)
                        IN Apply(Seqs[b], v)[s]
                   ELSE v[s]]

\* End of veripy_eval_comb: no dirty bit survives.
EndComb ==
    /\ pc = "comb" /\ at \notin CombBlocks
    /\ dirty' = {}
    /\ ideal' = NextState(val)
    /\ at' = 1
    /\ IF run
       THEN /\ pc' = "seq" /\ val' = ZeroLocals(val)
            /\ UNCHANGED <<prevClk, seen>>
       ELSE /\ pc' = "fresh" /\ prevClk' = ClocksOf(val)
            /\ seen' = ClocksOf(val) /\ UNCHANGED val
    /\ run' = FALSE
    /\ UNCHANGED <<nba, due>>

\* An edge group checks its own edge when there are several, and copies the
\* registers it may write.
Guarded(k) == Len(EdgeOrder) > 1 => EdgeFires(EdgeOrder[k], prevClk, val)
EnterGroup ==
    /\ pc = "seq" /\ at \in EdgeGroups /\ Guarded(at)
    /\ nba' = [s \in GroupWrites(at) \cap Regs |-> val[s]]
    /\ due' = BlocksOf(at)
    /\ pc' = "group"
    /\ UNCHANGED <<val, prevClk, dirty, at, run, seen, ideal>>

SkipGroup ==
    /\ pc = "seq" /\ at \in EdgeGroups /\ ~ Guarded(at)
    /\ at' = at + 1
    /\ UNCHANGED <<val, prevClk, dirty, pc, run, nba, due, seen, ideal>>

\* mutant: registers are written in place, as = instead of <=
RunSeqBlockBlocking(b) ==
    /\ pc = "group" /\ b \in due /\ \A c \in due : b <= c
    /\ val' = Write(val, Apply(Seqs[b], val))
    /\ nba' = Write(nba, Apply(Seqs[b], val))
    /\ due' = due \ {b}
    /\ UNCHANGED <<prevClk, dirty, pc, at, run, seen, ideal>>

\* Registers are written to the copy, memories at once.
RunSeqBlock(b) ==
    /\ pc = "group" /\ b \in due /\ \A c \in due : b <= c
    /\ LET new == Apply(Seqs[b], val)
       IN /\ nba' = Write(nba, new)
          /\ val' = [s \in Signals |-> IF s \in DOMAIN new \cap Mems
                                       THEN new[s] ELSE val[s]]
    /\ due' = due \ {b}
    /\ UNCHANGED <<prevClk, dirty, pc, at, run, seen, ideal>>

\* The copies go back into the struct before the next edge group starts.
LeaveGroup ==
    /\ pc = "group" /\ due = {}
    /\ val' = Write(val, nba)
    /\ dirty' = dirty \cup GroupWrites(at)
    /\ nba' = << >>
    /\ pc' = "seq" /\ at' = at + 1
    /\ UNCHANGED <<prevClk, run, due, seen, ideal>>

EndSeq ==
    /\ pc = "seq" /\ at \notin EdgeGroups
    /\ pc' = "settle" /\ at' = 1
    /\ UNCHANGED <<val, prevClk, dirty, run, nba, due, seen, ideal>>

\* The condition in front of a group: one of its reads that has a dirty bit
\* is dirty, or none of them has one.
Stale(i) == \/ GroupReads(i) \cap Tracked = {}
            \/ GroupReads(i) \cap Tracked \cap dirty # {}
Runs(i) == IF Leads(i) THEN i \in Affected /\ Stale(i) ELSE run

\* mutant: the dirty bits are those of all that is written, locals included
ResettleMarkingAll ==
    /\ pc = "settle" /\ at \in CombBlocks /\ Runs(at)
    /\ val' = Emitted(at, val)
    /\ dirty' = dirty \cup Comb[at].writes
    /\ run' = TRUE
    /\ at' = at + 1
    /\ UNCHANGED <<prevClk, pc, nba, due, seen, ideal>>

Resettle ==
    /\ pc = "settle" /\ at \in CombBlocks /\ Runs(at)
    /\ val' = Emitted(at, val)
    /\ dirty' = dirty \cup (Comb[at].writes \cap Tracked)
    /\ run' = TRUE
    /\ at' = at + 1
    /\ UNCHANGED <<prevClk, pc, nba, due, seen, ideal>>

LeaveSettled ==
    /\ pc = "settle" /\ at \in CombBlocks /\ ~ Runs(at)
    /\ run' = FALSE
    /\ at' = at + 1
    /\ UNCHANGED <<val, prevClk, dirty, pc, nba, due, seen, ideal>>

EndEval ==
    /\ pc = "settle" /\ at \notin CombBlocks
    /\ prevClk' = ClocksOf(val) /\ seen' = ClocksOf(val)
    /\ pc' = "fresh" /\ at' = 1 /\ run' = FALSE
    /\ UNCHANGED <<val, dirty, nba, due, ideal>>

EvalNext ==
        \/ \E s \in Inputs, x \in Val : SetInput(s, x)
        \/ BeginEval \/ EvalComb \/ EndComb
        \/ EnterGroup \/ SkipGroup \/ LeaveGroup \/ EndSeq
        \/ \E b \in SeqBlocks : RunSeqBlock(b)
        \/ Resettle \/ LeaveSettled \/ EndEval

EvalSpec == EvalInit /\ [][EvalNext]_evalVars

-----------------------------------------------------------------------------
EvalTypeOK ==
    /\ val \in [Signals -> Val]
    /\ prevClk \in [Clocks -> Val] /\ seen \in [Clocks -> Val]
    /\ dirty \subseteq Tracked
    /\ pc \in {"bench", "comb", "seq", "group", "settle", "fresh"}
    /\ at \in Nat \ {0}
    /\ run \in BOOLEAN
    /\ due \subseteq SeqBlocks
    /\ ideal \in [Regs \cup Mems -> Val]

\* The blocks that assign s on v, and: s has the value of the last of them.
Drivers(v, s) == {i \in CombBlocks : s \in DOMAIN Apply(Comb[i], v)}
Settled(v, s) == \A i \in Drivers(v, s) :
                    (\A j \in Drivers(v, s) : j <= i) => v[s] = Apply(Comb[i], v)[s]

(***************************************************************************)
(* When a call returns, the ports, registers and wires of the struct are   *)
(* the values of a circuit at rest: with some values of the wires that are *)
(* not stored, every wire has the value its blocks give it.                *)
(* Selective re-evaluation after an edge must not leave any of them with a *)
(* value from before the edge.                                             *)
(***************************************************************************)
OutputsSettled ==
    pc = "fresh" =>
        \E p \in [Promoted -> Val] :
            \A s \in Wires : Settled(Write(val, p), s)

(***************************************************************************)
(* When a call returns, each register and memory holds what its block      *)
(* computed from the values before the edge if one of the block's edges    *)
(* happened since the last call, and its old value otherwise, whatever     *)
(* other blocks and clocks did in the same call.                           *)
(***************************************************************************)
NonBlocking ==
    pc = "fresh" => \A s \in Regs \cup Mems : val[s] = ideal[s]

-----------------------------------------------------------------------------
(* Conditions on a design under which the emitted code keeps its promise.  *)

\* A block that may run again after an edge reads a local only from its own
\* merge group, which is run as a whole.
LocalsStayInGroup ==
    \A i \in Affected, j \in CombBlocks :
        Comb[i].reads \cap Comb[j].writes \cap Promoted # {} => j \in Group(i)

\* A wire that a block run again after an edge writes has no other block that
\* writes it: no default in one statement and override in another.
OneStatementPerWire ==
    \A i \in Affected, j \in CombBlocks :
        i # j => Comb[i].writes \cap Comb[j].writes = {}

\* No assignment is batched with another one: in a merge group each block reads
\* what the one before it writes, and would see the value from before the batch.
EachBitAlone == \A i \in CombBlocks : Batch[i] = {i}

\* The clocks are ports.
ClocksAreInputs == Clocks \subseteq Inputs

\* No block reads a register that an earlier edge group of the same call may
\* write, or a memory that an earlier block of the same call may write.
RaceFree ==
    /\ \A k, l \in EdgeGroups : k < l =>
          \A b \in BlocksOf(k), c \in BlocksOf(l) :
              Seqs[b].writes \cap Seqs[c].reads = {}
    /\ \A k \in EdgeGroups : \A b, c \in BlocksOf(k) :
          b <= c => Seqs[b].writes \cap Mems \cap Seqs[c].reads = {}
=============================================================================
