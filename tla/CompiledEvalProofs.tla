-------------------------- MODULE CompiledEvalProofs --------------------------
(***************************************************************************)
(* Proofs about CompiledEval: for every design that respects the stated    *)
(* conditions, selective re-evaluation leaves the circuit at rest.  That   *)
(* the sort meets the condition on the order is SortedForEval, in          *)
(* CombProofs.                                                             *)
(***************************************************************************)
EXTENDS CompiledEval, TLAPS

Valuations == [Signals -> Val]

-----------------------------------------------------------------------------
(* Blocks *)

\* What a combinational block assigns are some of its targets, with values.
LEMMA CombApply ==
    ASSUME NEW v \in Valuations, NEW i \in CombBlocks
    PROVE  /\ DOMAIN Apply(Comb[i], v) \subseteq Comb[i].writes
           /\ Comb[i].writes \subseteq Wires
           /\ Comb[i].reads \subseteq Signals
           /\ \A s \in DOMAIN Apply(Comb[i], v) : Apply(Comb[i], v)[s] \in Val
  <1>1. IsBlock(Comb[i], Wires)
    BY DesignAssumption
  <1>2. [s \in Comb[i].reads |-> v[s]] \in [Comb[i].reads -> Val]
    BY <1>1 DEF IsBlock, Valuations
  <1>. QED
    BY <1>1, <1>2 DEF IsBlock, Apply

\* The same of a sequential block.
LEMMA SeqApply ==
    ASSUME NEW v \in Valuations, NEW b \in SeqBlocks
    PROVE  /\ DOMAIN Apply(Seqs[b], v) \subseteq Seqs[b].writes
           /\ Seqs[b].writes \subseteq Regs \cup Mems
           /\ Seqs[b].reads \subseteq Signals
           /\ \A s \in DOMAIN Apply(Seqs[b], v) : Apply(Seqs[b], v)[s] \in Val
  <1>1. IsBlock(Seqs[b], Regs \cup Mems)
    BY DesignAssumption
  <1>2. [s \in Seqs[b].reads |-> v[s]] \in [Seqs[b].reads -> Val]
    BY <1>1 DEF IsBlock, Valuations
  <1>. QED
    BY <1>1, <1>2 DEF IsBlock, Apply

\* Writing values of the right type keeps a valuation one.
LEMMA WriteType ==
    ASSUME NEW v \in Valuations, NEW new,
           \A s \in DOMAIN new : new[s] \in Val
    PROVE  /\ Write(v, new) \in Valuations
           /\ \A s \in Signals : Write(v, new)[s] = IF s \in DOMAIN new THEN new[s] ELSE v[s]
  BY DEF Write, Valuations

\* A block computes the same from two valuations that agree on what it reads.
LEMMA SameReads ==
    ASSUME NEW v, NEW w, NEW b, \A s \in b.reads : v[s] = w[s]
    PROVE  Apply(b, v) = Apply(b, w)
  <1>1. [s \in b.reads |-> v[s]] = [s \in b.reads |-> w[s]]
    OBVIOUS
  <1>. QED
    BY <1>1 DEF Apply

\* The code at the place of a block changes wires only, and gives them values.
LEMMA EmittedType ==
    ASSUME NEW v \in Valuations, NEW i \in CombBlocks
    PROVE  /\ Emitted(i, v) \in Valuations
           /\ \A s \in Signals : s \notin Wires => Emitted(i, v)[s] = v[s]
  <1>. DEFINE new == Assigned(Batch[i], v)
  <1>1. Batch[i] \subseteq CombBlocks
    BY DEF Batch, Group
  <1>2. ASSUME NEW s \in DOMAIN new PROVE new[s] \in Val /\ s \in Wires
    <2>1. PICK j : /\ j = (CHOOSE k \in Batch[i] : s \in DOMAIN Apply(Comb[k], v))
                   /\ j \in Batch[i] /\ s \in DOMAIN Apply(Comb[j], v)
      BY DEF Assigned
    <2>2. new[s] = Apply(Comb[j], v)[s]
      BY <2>1 DEF Assigned
    <2>. QED
      BY <1>1, <2>1, <2>2, CombApply
  <1>3. Write(v, new) \in Valuations /\ \A s \in Signals : s \notin Wires => Write(v, new)[s] = v[s]
    <2>. HIDE DEF new
    <2>. QED
      BY <1>2, WriteType
  <1>. QED
    BY <1>3 DEF Emitted

\* A block that is not batched with another one runs on its own.
LEMMA EmittedAlone ==
    ASSUME NEW v \in Valuations, NEW i \in CombBlocks, Batch[i] = {i}
    PROVE  Emitted(i, v) = Write(v, Apply(Comb[i], v))
  <1>. DEFINE new == Assigned({i}, v)
              one == Apply(Comb[i], v)
  <1>1. DOMAIN new = DOMAIN one
    BY DEF Assigned
  <1>2. ASSUME NEW s \in DOMAIN new PROVE new[s] = one[s]
    <2>1. (CHOOSE j \in {i} : s \in DOMAIN Apply(Comb[j], v)) = i
      BY <1>1, <1>2
    <2>. QED
      BY <1>2, <2>1 DEF Assigned
  <1>3. Write(v, new) = Write(v, one)
    <2>. HIDE DEF new, one
    <2>. QED
      BY <1>1, <1>2 DEF Write
  <1>4. ~ \E j \in Batch[i] : j < i
    BY DesignAssumption DEF CombBlocks
  <1>. QED
    BY <1>3, <1>4 DEF Emitted

-----------------------------------------------------------------------------
(* The static analysis *)

\* Merge groups are intervals of blocks.
LEMMA GroupFacts ==
    ASSUME NEW i \in CombBlocks
    PROVE  /\ i \in Group(i)
           /\ \A j \in Group(i) : j < i => ~ Leads(i)
  <1>. CombBlocks = 1 .. Len(Comb) /\ Len(Comb) \in Nat
    BY DesignAssumption DEF CombBlocks
  <1>1. i \in Group(i)
    BY DEF Group, SameGroup
  <1>2. ASSUME NEW j \in Group(i), j < i PROVE ~ Leads(i)
    <2>1. i - 1 \in j .. i - 1 /\ i # 1
      BY <1>2 DEF Group
    <2>. QED
      BY <1>2, <2>1 DEF Group, SameGroup, Leads
  <1>. QED
    BY <1>1, <1>2

\* A block that does not lead is in the group of the one before it.
LEMMA SameAsBefore ==
    ASSUME NEW m \in CombBlocks, NEW i \in CombBlocks, m \in Nat, m + 1 = i, ~ Leads(i)
    PROVE  Group(i) = Group(m)
  <1>. CombBlocks = 1 .. Len(Comb) /\ Len(Comb) \in Nat
    BY DesignAssumption DEF CombBlocks
  <1>1. Merges(m)
    BY DEF Leads
  <1>2. ASSUME NEW j \in CombBlocks PROVE SameGroup(i, j) <=> SameGroup(m, j)
    <2>1. \A k \in m .. j - 1 : k = m \/ k \in i .. j - 1
      OBVIOUS
    <2>2. \A k \in j .. i - 1 : k = m \/ k \in j .. m - 1
      OBVIOUS
    <2>3. \A k \in i .. j - 1 : k \in m .. j - 1
      OBVIOUS
    <2>4. \A k \in j .. m - 1 : k \in j .. i - 1
      OBVIOUS
    <2>. QED
      BY <1>1, <2>1, <2>2, <2>3, <2>4 DEF SameGroup
  <1>. QED
    BY <1>2 DEF Group

\* Belonging to a group is symmetric, and a group lies on one side of a leader.
LEMMA GroupSides ==
    ASSUME NEW i \in CombBlocks, NEW j \in CombBlocks, j \in Group(i)
    PROVE  /\ i \in Group(j)
           /\ \A n \in CombBlocks : i < n /\ n <= j => ~ Leads(n) /\ j \in Group(n)
  <1>. CombBlocks = 1 .. Len(Comb) /\ Len(Comb) \in Nat
    BY DesignAssumption DEF CombBlocks
  <1>1. i \in Group(j)
    BY DEF Group, SameGroup
  <1>2. ASSUME NEW n \in CombBlocks, i < n, n <= j PROVE ~ Leads(n) /\ j \in Group(n)
    <2>1. n - 1 \in i .. j - 1 /\ n # 1
      BY <1>2
    <2>2. ~ Leads(n)
      BY <2>1 DEF Group, SameGroup, Leads
    <2>3. \A k \in n .. j - 1 : k \in i .. j - 1
      BY <1>2
    <2>4. \A k \in j .. n - 1 : FALSE
      BY <1>2
    <2>. QED
      BY <2>2, <2>3, <2>4 DEF Group, SameGroup
  <1>. QED
    BY <1>1, <1>2

\* The affected blocks are whole groups and closed under reading.
LEMMA AffectedClosed ==
    /\ Affected \subseteq CombBlocks
    /\ \A i \in Affected : Group(i) \subseteq Affected
    /\ \A i \in CombBlocks : i \notin Affected =>
          /\ Comb[i].reads \cap SeqWritten = {}
          /\ \A j \in Affected : Comb[i].reads \cap Comb[j].writes = {}
  <1>1. Affected \subseteq CombBlocks
    BY DEF Affected
  <1>2. \A i \in Affected : Group(i) \subseteq Affected
    BY DEF Affected, ClosedUnderReading, Group
  <1>3. ASSUME NEW i \in CombBlocks, NEW s \in Comb[i].reads,
               s \in SeqWritten \/ \E j \in Affected : s \in Comb[j].writes
        PROVE  i \in Affected
    <2>1. i \in Group(i)
      BY GroupFacts
    <2>2. s \in GroupReads(i)
      BY <2>1 DEF GroupReads
    <2>3. ASSUME NEW S \in SUBSET CombBlocks, ClosedUnderReading(S) PROVE i \in S
      <3>1. Affected \subseteq S
        BY <2>3 DEF Affected
      <3>2. s \in SeqWritten \cup UNION {Comb[j].writes : j \in S}
        BY <1>3, <3>1
      <3>. QED
        BY <2>1, <2>2, <2>3, <3>2 DEF ClosedUnderReading
    <2>. QED
      BY <2>3 DEF Affected
  <1>. QED
    BY <1>1, <1>2, <1>3

-----------------------------------------------------------------------------
(* Type correctness *)

\* Inside an edge group, `nba' holds the registers it may write.
NbaOK == pc = "group" => /\ at \in EdgeGroups
                         /\ nba \in [GroupWrites(at) \cap Regs -> Val]
                         /\ due \subseteq BlocksOf(at)

Typed == EvalTypeOK /\ NbaOK

LEMMA Struct ==
    /\ \A k \in EdgeGroups : GroupWrites(k) \subseteq SeqWritten
    /\ SeqWritten \subseteq Regs \cup Mems
    /\ Regs \cup Mems \subseteq Tracked
    /\ SeqWritten \cap Wires = {}
    /\ Inputs \subseteq Tracked
    /\ Promoted \subseteq Wires
    /\ Clocks \subseteq Tracked /\ Clocks \subseteq Signals
  <1>1. \A k \in EdgeGroups : EdgeOrder[k][2] \in Signals
    BY DesignAssumption DEF EdgeGroups
  <1>2. \A b \in SeqBlocks : Seqs[b].writes \subseteq Regs \cup Mems
    BY DesignAssumption DEF IsBlock
  <1>. QED
    BY <1>1, <1>2, NamesAssumption
    DEF GroupWrites, BlocksOf, SeqWritten, Tracked, Promoted, Signals, Clocks

\* The values after an edge that Verilog asks for are values.
LEMMA NextStateType ==
    ASSUME EvalTypeOK PROVE NextState(val) \in [Regs \cup Mems -> Val]
  <1>1. val \in Valuations
    BY DEF EvalTypeOK, Valuations
  <1>2. ASSUME NEW s \in Regs \cup Mems PROVE NextState(val)[s] \in Val
    <2>1. CASE \E b \in Triggered(val) : s \in DOMAIN Apply(Seqs[b], val)
      <3>1. PICK b : /\ b = (CHOOSE c \in Triggered(val) : s \in DOMAIN Apply(Seqs[c], val))
                     /\ b \in Triggered(val) /\ s \in DOMAIN Apply(Seqs[b], val)
        BY <2>1
      <3>2. b \in SeqBlocks
        BY <3>1 DEF Triggered
      <3>3. Apply(Seqs[b], val)[s] \in Val
        BY <1>1, <3>1, <3>2, SeqApply
      <3>. QED
        BY <2>1, <3>1, <3>3 DEF NextState
    <2>2. CASE ~ \E b \in Triggered(val) : s \in DOMAIN Apply(Seqs[b], val)
      BY <2>2 DEF NextState, EvalTypeOK, Signals
    <2>. QED
      BY <2>1, <2>2
  <1>. QED
    BY <1>2 DEF NextState

LEMMA ZeroLocalsType ==
    ASSUME NEW v \in Valuations
    PROVE  /\ ZeroLocals(v) \in Valuations
           /\ \A s \in Tracked : ZeroLocals(v)[s] = v[s]
           /\ \A s \in Promoted : ZeroLocals(v)[s] = Zero
  BY DesignAssumption DEF ZeroLocals, Valuations, Tracked, Promoted, Signals

LEMMA TypedStep == Typed /\ [EvalNext]_evalVars => Typed'
  <1>. SUFFICES ASSUME Typed, [EvalNext]_evalVars PROVE Typed'
    OBVIOUS
  <1>. USE DEF Typed
  <1>0. /\ EvalTypeOK /\ NbaOK /\ val \in Valuations
        /\ CombBlocks = 1 .. Len(Comb) /\ Len(Comb) \in Nat
        /\ EdgeGroups = 1 .. Len(EdgeOrder) /\ Len(EdgeOrder) \in Nat
    BY DesignAssumption DEF EvalTypeOK, Valuations, CombBlocks, EdgeGroups
  <1>1. ASSUME NEW s \in Inputs, NEW x \in Val, SetInput(s, x) PROVE Typed'
    BY <1>0, <1>1, Struct DEF SetInput, EvalTypeOK, NbaOK
  <1>2. CASE BeginEval
    BY <1>0, <1>2, ZeroLocalsType DEF BeginEval, EvalTypeOK, NbaOK, Valuations
  <1>3. CASE EvalComb
    <2>1. val' \in Valuations
      BY <1>0, <1>3, EmittedType DEF EvalComb
    <2>. QED
      BY <1>0, <1>3, <2>1 DEF EvalComb, EvalTypeOK, NbaOK, Valuations
  <1>4. CASE EndComb
    <2>1. NextState(val) \in [Regs \cup Mems -> Val]
      BY <1>0, NextStateType
    <2>2. ClocksOf(val) \in [Clocks -> Val]
      BY <1>0, Struct DEF ClocksOf, Valuations
    <2>3. val' \in Valuations
      BY <1>0, <1>4, ZeroLocalsType DEF EndComb
    <2>4. prevClk' \in [Clocks -> Val] /\ seen' \in [Clocks -> Val]
      BY <1>0, <1>4, <2>2 DEF EndComb, EvalTypeOK
    <2>5. pc' \in {"seq", "fresh"} /\ at' = 1 /\ dirty' = {} /\ due' = due
      BY <1>4 DEF EndComb
    <2>6. run' \in BOOLEAN
      BY <1>4 DEF EndComb
    <2>7. ideal' \in [Regs \cup Mems -> Val]
      BY <1>4, <2>1 DEF EndComb
    <2>. QED
      BY <1>0, <2>3, <2>4, <2>5, <2>6, <2>7 DEF EvalTypeOK, NbaOK, Valuations
  <1>5. CASE EnterGroup
    <2>1. nba' \in [GroupWrites(at) \cap Regs -> Val]
      BY <1>0, <1>5 DEF EnterGroup, Valuations, Signals
    <2>. QED
      BY <1>0, <1>5, <2>1 DEF EnterGroup, EvalTypeOK, NbaOK, BlocksOf
  <1>6. CASE SkipGroup
    BY <1>0, <1>6 DEF SkipGroup, EvalTypeOK, NbaOK
  <1>7. CASE LeaveGroup
    <2>1. val' \in Valuations
      BY <1>0, <1>7, WriteType DEF LeaveGroup, NbaOK
    <2>2. dirty' \subseteq Tracked
      BY <1>0, <1>7, Struct DEF LeaveGroup, NbaOK, EvalTypeOK
    <2>. QED
      BY <1>0, <1>7, <2>1, <2>2 DEF LeaveGroup, EvalTypeOK, NbaOK, Valuations
  <1>8. CASE EndSeq
    BY <1>0, <1>8 DEF EndSeq, EvalTypeOK, NbaOK
  <1>9. ASSUME NEW b \in SeqBlocks, RunSeqBlock(b) PROVE Typed'
    <2>. DEFINE new == Apply(Seqs[b], val)
    <2>1. \A s \in DOMAIN new : new[s] \in Val
      BY <1>0, SeqApply
    <2>2. val' \in Valuations
      <3>1. \A s \in Signals : (IF s \in DOMAIN new \cap Mems THEN new[s] ELSE val[s]) \in Val
        BY <1>0, <2>1 DEF Valuations
      <3>. QED
        BY <1>9, <3>1 DEF RunSeqBlock, Valuations
    <2>3. nba' \in [GroupWrites(at) \cap Regs -> Val]
      <3>1. nba' = Write(nba, new)
        BY <1>9 DEF RunSeqBlock
      <3>2. nba \in [GroupWrites(at) \cap Regs -> Val]
        BY <1>0, <1>9 DEF RunSeqBlock, NbaOK
      <3>. HIDE DEF new
      <3>. QED
        BY <2>1, <3>1, <3>2 DEF Write
    <2>. QED
      BY <1>0, <1>9, <2>2, <2>3 DEF RunSeqBlock, EvalTypeOK, NbaOK, Valuations
  <1>10. CASE Resettle
    <2>1. val' \in Valuations
      BY <1>0, <1>10, EmittedType DEF Resettle
    <2>. QED
      BY <1>0, <1>10, <2>1 DEF Resettle, EvalTypeOK, NbaOK, Valuations
  <1>11. CASE LeaveSettled
    <2>1. run' \in BOOLEAN
      BY <1>11 DEF LeaveSettled
    <2>2. at' \in Nat \ {0} /\ pc' = "settle" /\ due' = due /\ dirty' = dirty
      BY <1>0, <1>11 DEF LeaveSettled
    <2>. QED
      BY <1>0, <1>11, <2>1, <2>2 DEF LeaveSettled, EvalTypeOK, NbaOK
  <1>12. CASE EndEval
    <2>1. ClocksOf(val) \in [Clocks -> Val]
      BY <1>0, Struct DEF ClocksOf, Valuations
    <2>2. run' \in BOOLEAN
      BY <1>12 DEF EndEval
    <2>3. at' = 1 /\ pc' = "fresh" /\ due' = due /\ dirty' = dirty
      BY <1>12 DEF EndEval
    <2>. QED
      BY <1>0, <1>12, <2>1, <2>2, <2>3 DEF EndEval, EvalTypeOK, NbaOK
  <1>13. CASE UNCHANGED evalVars
    BY <1>0, <1>13 DEF evalVars, EvalTypeOK, NbaOK
  <1>. QED
    BY <1>1, <1>2, <1>3, <1>4, <1>5, <1>6, <1>7, <1>8, <1>9, <1>10, <1>11, <1>12, <1>13
    DEF EvalNext

LEMMA TypedInit == EvalInit => Typed
  <1>. SUFFICES ASSUME EvalInit PROVE Typed
    OBVIOUS
  <1>1. val \in [Signals -> Val] /\ prevClk \in [Clocks -> Val] /\ seen \in [Clocks -> Val]
    BY DesignAssumption DEF EvalInit
  <1>2. ideal \in [Regs \cup Mems -> Val]
    BY DesignAssumption DEF EvalInit
  <1>3. run \in BOOLEAN
    BY DEF EvalInit
  <1>. QED
    BY <1>1, <1>2, <1>3 DEF EvalInit, Typed, EvalTypeOK, NbaOK

\* Every variable keeps its type, for every design.
THEOREM TypeCorrect == EvalSpec => []EvalTypeOK
  <1>. QED
    BY TypedInit, TypedStep, PTL DEF EvalSpec, Typed

-----------------------------------------------------------------------------
(* The circuit is at rest after a call.  A witness f carries the values of *)
(* the locals that veripy_eval_seq forgets: it agrees with the struct, and *)
(* a block that reads nothing dirty holds in it.                           *)

\* All that block i assigns on v has the value it assigns.
Holds(v, i) == \A s \in DOMAIN Apply(Comb[i], v) : v[s] = Apply(Comb[i], v)[s]

\* The blocks before n have been run, in order, on v.
SettledBelow(v, s, n) ==
    \A i \in Drivers(v, s) :
        (i < n /\ \A j \in Drivers(v, s) : j < n => j <= i) => v[s] = Apply(Comb[i], v)[s]

Agrees(f) == \A s \in Tracked : f[s] = val[s]

\* Wires that no affected block writes are settled throughout.
OthersSettled(f) ==
    \A s \in Wires : (\A i \in Affected : s \notin Comb[i].writes) => Settled(f, s)

\* What is dirty, or will be at the end of the running edge group.
Pending == dirty \cup (IF pc = "group" THEN GroupWrites(at) ELSE {})

\* Only signals an edge may change get dirty.
NotRunning == pc \in {"seq", "group"} => ~ run
DirtyOK == pc \in {"seq", "group", "settle"} =>
               dirty \subseteq SeqWritten \cup UNION {Comb[i].writes : i \in Affected}

CombInv == pc = "comb" => \A s \in Wires : SettledBelow(val, s, at)

SeqInv == pc \in {"seq", "group"} =>
    \E f \in Valuations :
        /\ Agrees(f) /\ OthersSettled(f)
        /\ \A i \in Affected : Comb[i].reads \cap Pending = {} => Holds(f, i)

\* Block i is in the group whose blocks before `at' have just been run again.
Running(i) == run /\ \E n \in CombBlocks : n + 1 = at /\ i \in Group(n)

SettleInv == pc = "settle" =>
    \E f \in Valuations :
        /\ Agrees(f) /\ OthersSettled(f)
        /\ \A i \in Affected :
              (i < at \/ (Comb[i].reads \cap dirty = {} /\ ~ Running(i))) => Holds(f, i)
        /\ \A i \in CombBlocks : i < at /\ Running(i) =>
              \A s \in Comb[i].writes : f[s] = val[s]

\* A group that was not stale when its leader was reached is not stale later.
StaleOK == pc = "settle" =>
    /\ run => \E n \in Affected : n + 1 = at
    /\ at \in CombBlocks /\ ~ run /\ ~ Leads(at) =>
          \A i \in Group(at) \cap Affected : Comb[i].reads \cap dirty = {}

RestInv == NotRunning /\ DirtyOK /\ CombInv /\ SeqInv /\ SettleInv /\ StaleOK /\ OutputsSettled

DesignRules == LocalsStayInGroup /\ OneStatementPerWire /\ EachBitAlone

\* A wire stays settled when nothing its blocks read changes, nor itself.
LEMMA SettledFrame ==
    ASSUME NEW f, NEW g, NEW s,
           \A i \in CombBlocks : s \in Comb[i].writes =>
               \A t \in Comb[i].reads : f[t] = g[t],
           \A i \in CombBlocks : s \notin Comb[i].writes =>
               s \notin DOMAIN Apply(Comb[i], f) /\ s \notin DOMAIN Apply(Comb[i], g),
           f[s] = g[s], Settled(f, s)
    PROVE  Settled(g, s)
  <1>1. \A i \in CombBlocks : s \in Comb[i].writes => Apply(Comb[i], f) = Apply(Comb[i], g)
    BY SameReads
  <1>2. Drivers(f, s) = Drivers(g, s)
    BY <1>1 DEF Drivers
  <1>3. \A i \in Drivers(f, s) : Apply(Comb[i], f) = Apply(Comb[i], g)
    BY <1>1 DEF Drivers
  <1>. QED
    BY <1>2, <1>3 DEF Settled

LEMMA HoldsFrame ==
    ASSUME NEW f \in Valuations, NEW g \in Valuations, NEW i \in CombBlocks,
           \A t \in Comb[i].reads : f[t] = g[t],
           \A t \in Comb[i].writes : f[t] = g[t],
           Holds(f, i)
    PROVE  Holds(g, i)
  <1>1. Apply(Comb[i], f) = Apply(Comb[i], g)
    BY SameReads
  <1>2. DOMAIN Apply(Comb[i], f) \subseteq Comb[i].writes
    BY CombApply
  <1>. QED
    BY <1>1, <1>2 DEF Holds

\* One pass in topological order settles everything.
LEMMA CombStep ==
    ASSUME EachBitAlone, Typed, CombInv, EvalComb PROVE CombInv'
  <1>. DEFINE new == Apply(Comb[at], val)
  <1>0. /\ val \in Valuations /\ val' \in Valuations /\ at \in CombBlocks
        /\ val' = Write(val, new) /\ at' = at + 1
        /\ CombBlocks = 1 .. Len(Comb) /\ Len(Comb) \in Nat
        /\ pc = "comb" /\ Comb[at].reads \subseteq Signals
    <2>1. val \in Valuations /\ at \in CombBlocks
      BY DEF Typed, EvalTypeOK, Valuations, EvalComb
    <2>. QED
      BY <2>1, CombApply, WriteType, EmittedAlone, DesignAssumption
      DEF EvalComb, EachBitAlone, CombBlocks
  <1>1. /\ DOMAIN new \subseteq Comb[at].writes
        /\ \A s \in Signals : val'[s] = IF s \in DOMAIN new THEN new[s] ELSE val[s]
    BY <1>0, CombApply, WriteType
  <1>2. \A i \in CombBlocks : i <= at => Apply(Comb[i], val') = Apply(Comb[i], val)
    <2>1. SUFFICES ASSUME NEW i \in CombBlocks, i <= at, NEW t \in Comb[i].reads
                   PROVE  val'[t] = val[t]
      BY SameReads
    <2>2. t \in Signals /\ t \notin Comb[at].writes
      BY <1>0, <2>1, CombApply, DesignAssumption
    <2>. QED
      BY <1>1, <2>2
  <1>3. ASSUME NEW s \in Wires, NEW i \in Drivers(val', s), i < at + 1,
               \A j \in Drivers(val', s) : j < at + 1 => j <= i
        PROVE  val'[s] = Apply(Comb[i], val')[s]
    <2>1. i \in CombBlocks /\ i <= at /\ Apply(Comb[i], val') = Apply(Comb[i], val)
      BY <1>0, <1>2, <1>3 DEF Drivers
    <2>2. s \in Signals
      BY DEF Signals
    <2>3. CASE i = at
      BY <1>1, <2>1, <2>2, <2>3 DEF Drivers
    <2>4. CASE i < at
      <3>1. s \notin DOMAIN new
        BY <1>0, <1>2, <1>3, <2>4 DEF Drivers
      <3>2. i \in Drivers(val, s)
        BY <2>1 DEF Drivers
      <3>3. ASSUME NEW j \in Drivers(val, s), j < at PROVE j <= i
        <4>1. j \in CombBlocks /\ j <= at /\ j < at + 1
          BY <1>0, <3>3 DEF Drivers
        <4>2. j \in Drivers(val', s)
          BY <1>2, <4>1 DEF Drivers
        <4>. QED
          BY <1>3, <4>1, <4>2
      <3>4. val[s] = Apply(Comb[i], val)[s]
        BY <1>0, <2>4, <3>2, <3>3 DEF CombInv, SettledBelow
      <3>. QED
        BY <1>1, <2>1, <2>2, <3>1, <3>4
    <2>. QED
      BY <1>0, <2>1, <2>3, <2>4
  <1>. QED
    BY <1>0, <1>3 DEF CombInv, SettledBelow

LEMMA CombDone ==
    ASSUME Typed, CombInv, pc = "comb", at \notin CombBlocks
    PROVE  \A s \in Wires : Settled(val, s)
  <1>1. \A i \in CombBlocks : i < at
    BY DesignAssumption DEF Typed, EvalTypeOK, CombBlocks
  <1>2. ASSUME NEW s \in Wires PROVE \A i \in Drivers(val, s) : i < at
    BY <1>1 DEF Drivers
  <1>. QED
    BY <1>2 DEF CombInv, SettledBelow, Settled

\* What an edge writes is disjoint from all wires, so following it with f
\* keeps every block that does not read it.
LEMMA SeqWrites ==
    ASSUME NEW f \in Valuations, NEW g \in Valuations, OthersSettled(f),
           NEW D \in SUBSET SeqWritten,
           \A s \in Signals : s \notin D => g[s] = f[s]
    PROVE  /\ OthersSettled(g)
           /\ \A i \in CombBlocks :
                 Comb[i].reads \cap D = {} /\ Holds(f, i) => Holds(g, i)
  <1>1. \A s \in Wires : g[s] = f[s]
    BY Struct DEF Signals
  <1>2. ASSUME NEW s \in Wires, \A i \in Affected : s \notin Comb[i].writes
        PROVE  Settled(g, s)
    <2>1. \A i \in CombBlocks : s \in Comb[i].writes => \A t \in Comb[i].reads : f[t] = g[t]
      <3>1. ASSUME NEW i \in CombBlocks, s \in Comb[i].writes, NEW t \in Comb[i].reads
            PROVE  f[t] = g[t]
        <4>1. i \notin Affected
          BY <1>2, <3>1
        <4>2. t \notin SeqWritten /\ t \in Signals
          BY <4>1, AffectedClosed, CombApply
        <4>. QED
          BY <4>2
      <3>. QED
        BY <3>1
    <2>2. \A i \in CombBlocks : s \notin Comb[i].writes =>
             s \notin DOMAIN Apply(Comb[i], f) /\ s \notin DOMAIN Apply(Comb[i], g)
      BY CombApply
    <2>3. Settled(f, s)
      BY <1>2 DEF OthersSettled
    <2>. QED
      BY <1>1, <2>1, <2>2, <2>3, SettledFrame
  <1>3. ASSUME NEW i \in CombBlocks, Comb[i].reads \cap D = {}, Holds(f, i)
        PROVE  Holds(g, i)
    <2>1. Comb[i].writes \subseteq Wires /\ Comb[i].reads \subseteq Signals
      BY CombApply
    <2>2. /\ \A t \in Comb[i].reads : f[t] = g[t]
          /\ \A t \in Comb[i].writes : f[t] = g[t]
      BY <1>1, <1>3, <2>1
    <2>. QED
      BY <1>3, <2>2, HoldsFrame
  <1>. QED
    BY <1>2, <1>3 DEF OthersSettled

\* The last combinational value is the witness when the edge begins.
LEMMA EnterSeq ==
    ASSUME Typed, RestInv, DesignRules, EndComb
    PROVE  RestInv'
  <1>1. /\ val \in Valuations /\ pc = "comb" /\ at \notin CombBlocks
        /\ dirty' = {} /\ at' = 1
    BY DEF Typed, EvalTypeOK, Valuations, EndComb
  <1>2. \A s \in Wires : Settled(val, s)
    BY <1>1, CombDone DEF RestInv
  <1>3. CASE run
    <2>1. pc' = "seq" /\ val' = ZeroLocals(val)
      BY <1>3 DEF EndComb
    <2>2. \A s \in Tracked : val[s] = val'[s]
      BY <1>1, <2>1, ZeroLocalsType
    <2>3. ASSUME NEW i \in Affected PROVE Holds(val, i)
      <3>1. i \in CombBlocks
        BY AffectedClosed
      <3>2. ASSUME NEW s \in DOMAIN Apply(Comb[i], val)
            PROVE  val[s] = Apply(Comb[i], val)[s]
        <4>1. s \in Wires /\ i \in Drivers(val, s) /\ s \in Comb[i].writes
          BY <1>1, <3>1, <3>2, CombApply DEF Drivers
        <4>2. \A j \in Drivers(val, s) : j = i
          <5>1. \A j \in Drivers(val, s) : j \in CombBlocks /\ s \in Comb[j].writes
            BY <1>1, CombApply DEF Drivers
          <5>. QED
            BY <4>1, <5>1 DEF DesignRules, OneStatementPerWire
        <4>3. i <= i
          BY <3>1, DesignAssumption DEF CombBlocks
        <4>. QED
          BY <1>2, <4>1, <4>2, <4>3 DEF Settled
      <3>. QED
        BY <3>2 DEF Holds
    <2>. QED
      BY <1>1, <1>2, <2>1, <2>2, <2>3
      DEF RestInv, NotRunning, EndComb, DirtyOK, CombInv, SeqInv, SettleInv, StaleOK, OutputsSettled,
          Agrees, OthersSettled
  <1>4. CASE ~ run
    <2>1. pc' = "fresh" /\ val' = val
      BY <1>4 DEF EndComb
    <2>2. [s \in Promoted |-> val[s]] \in [Promoted -> Val]
      BY <1>1, Struct DEF Valuations, Signals
    <2>3. Write(val, [s \in Promoted |-> val[s]]) = val
      BY <1>1 DEF Write, Valuations
    <2>. QED
      BY <1>1, <1>2, <2>1, <2>2, <2>3
      DEF RestInv, NotRunning, EndComb, DirtyOK, CombInv, SeqInv, SettleInv, StaleOK, OutputsSettled
  <1>. QED
    BY <1>3, <1>4

\* Edge groups change only what becomes dirty.
LEMMA SeqSteps ==
    ASSUME Typed, Typed', RestInv,
           \/ EnterGroup \/ SkipGroup \/ LeaveGroup \/ \E b \in SeqBlocks : RunSeqBlock(b)
    PROVE  RestInv'
  <1>1. /\ val \in Valuations /\ val' \in Valuations
        /\ pc \in {"seq", "group"} /\ pc' \in {"seq", "group"}
    BY DEF Typed, EvalTypeOK, Valuations, EnterGroup, SkipGroup, LeaveGroup, RunSeqBlock
  <1>2. PICK f \in Valuations :
            /\ Agrees(f) /\ OthersSettled(f)
            /\ \A i \in Affected : Comb[i].reads \cap Pending = {} => Holds(f, i)
    BY <1>1 DEF RestInv, SeqInv
  <1>3. /\ Pending \subseteq Pending'
        /\ DirtyOK'
        /\ \A s \in Signals : s \notin (Pending \cap SeqWritten) => val'[s] = val[s]
    <2>1. CASE EnterGroup
      BY <2>1 DEF EnterGroup, RestInv, DirtyOK, Pending
    <2>2. CASE SkipGroup
      BY <2>2 DEF SkipGroup, RestInv, DirtyOK, Pending
    <2>3. CASE LeaveGroup
      <3>1. /\ pc = "group" /\ pc' = "seq" /\ dirty' = dirty \cup GroupWrites(at)
            /\ val' = Write(val, nba)
        BY <2>3 DEF LeaveGroup
      <3>2. DOMAIN nba \subseteq GroupWrites(at) /\ GroupWrites(at) \subseteq SeqWritten
        BY <3>1, Struct DEF Typed, NbaOK
      <3>3. \A s \in Signals : s \notin GroupWrites(at) => val'[s] = val[s]
        BY <1>1, <3>1, <3>2 DEF Write, Valuations
      <3>. QED
        BY <3>1, <3>2, <3>3 DEF RestInv, DirtyOK, Pending
    <2>4. ASSUME NEW b \in SeqBlocks, RunSeqBlock(b)
          PROVE  /\ Pending \subseteq Pending'
                 /\ DirtyOK'
                 /\ \A s \in Signals : s \notin (Pending \cap SeqWritten) => val'[s] = val[s]
      <3>. DEFINE new == Apply(Seqs[b], val)
      <3>1. /\ pc = "group" /\ pc' = "group" /\ dirty' = dirty /\ at' = at /\ b \in due
            /\ \A s \in Signals : s \notin DOMAIN new => val'[s] = val[s]
        BY <2>4 DEF RunSeqBlock
      <3>2. b \in BlocksOf(at) /\ at \in EdgeGroups
        BY <3>1 DEF Typed, NbaOK
      <3>3. DOMAIN new \subseteq GroupWrites(at) /\ GroupWrites(at) \subseteq SeqWritten
        BY <1>1, <3>2, SeqApply, Struct DEF GroupWrites, BlocksOf
      <3>. HIDE DEF new
      <3>. QED
        BY <3>1, <3>3 DEF RestInv, DirtyOK, Pending
    <2>. QED
      BY <2>1, <2>2, <2>3, <2>4
  <1>. DEFINE D == Pending \cap SeqWritten
  <1>4. PICK g \in Valuations :
            \A s \in Signals : g[s] = IF s \in D THEN val'[s] ELSE f[s]
    <2>. DEFINE w == [s \in Signals |-> IF s \in D THEN val'[s] ELSE f[s]]
    <2>1. w \in Valuations
      BY <1>1 DEF Valuations
    <2>. QED
      BY <2>1
  <1>5. OthersSettled(g) /\ \A i \in CombBlocks : Comb[i].reads \cap D = {} /\ Holds(f, i) => Holds(g, i)
    BY <1>2, <1>4, SeqWrites
  <1>6. Agrees(g)'
    BY <1>2, <1>3, <1>4 DEF Agrees, Tracked
  <1>7. ASSUME NEW i \in Affected, Comb[i].reads \cap Pending' = {} PROVE Holds(g, i)
    <2>1. i \in CombBlocks /\ Comb[i].reads \cap Pending = {} /\ Comb[i].reads \cap D = {}
      BY <1>3, <1>7, AffectedClosed
    <2>. QED
      BY <1>2, <1>5, <2>1
  <1>8. OthersSettled(g)'
    BY <1>5 DEF OthersSettled
  <1>9. SeqInv'
    <2>1. \A i \in Affected : Comb[i].reads \cap Pending' = {} => Holds(g, i)'
      BY <1>7 DEF Holds
    <2>. QED
      BY <1>4, <1>6, <1>8, <2>1 DEF SeqInv
  <1>10. NotRunning'
    BY <1>1 DEF RestInv, NotRunning, EnterGroup, SkipGroup, LeaveGroup, RunSeqBlock
  <1>. QED
    BY <1>1, <1>3, <1>9, <1>10 DEF RestInv, CombInv, SettleInv, StaleOK, OutputsSettled

LEMMA EnterSettle ==
    ASSUME Typed, RestInv, EndSeq PROVE RestInv'
  <1>1. pc = "seq" /\ pc' = "settle" /\ at' = 1 /\ dirty' = dirty /\ val' = val /\ Pending = dirty
    BY DEF EndSeq, Pending
  <1>2. PICK f \in Valuations :
            /\ Agrees(f) /\ OthersSettled(f)
            /\ \A i \in Affected : Comb[i].reads \cap Pending = {} => Holds(f, i)
    BY <1>1 DEF RestInv, SeqInv
  <1>3. \A i \in CombBlocks : ~ i < 1 /\ i # 0 /\ i \in Nat
    BY DesignAssumption DEF CombBlocks
  <1>4. SettleInv'
    BY <1>1, <1>2, <1>3, AffectedClosed DEF SettleInv, Agrees, OthersSettled
  <1>5. StaleOK'
    BY <1>1 DEF StaleOK, Leads, EndSeq, RestInv, NotRunning
  <1>. QED
    BY <1>1, <1>4, <1>5 DEF RestInv, NotRunning, DirtyOK, CombInv, SeqInv, OutputsSettled

\* Running a block again: it reads what the witness has, and only blocks that
\* are dirty or of the same group read what it writes.
LEMMA ResettleStep ==
    ASSUME Typed, Typed', RestInv, DesignRules, Resettle
    PROVE  SettleInv' /\ StaleOK' /\ DirtyOK'
  <1>. DEFINE n == at
              new == Apply(Comb[n], val)
  <1>0. /\ val \in Valuations /\ val' \in Valuations
        /\ pc = "settle" /\ pc' = "settle" /\ n \in CombBlocks /\ Runs(n)
        /\ val' = Write(val, new) /\ at' = n + 1 /\ run' = TRUE /\ run \in BOOLEAN
        /\ dirty' = dirty \cup (Comb[n].writes \cap Tracked)
        /\ CombBlocks = 1 .. Len(Comb) /\ Len(Comb) \in Nat
    BY EmittedAlone, DesignAssumption
    DEF Typed, EvalTypeOK, Valuations, Resettle, CombBlocks, DesignRules, EachBitAlone
  <1>1. PICK f \in Valuations :
        /\ Agrees(f) /\ OthersSettled(f)
        /\ \A i \in Affected :
              (i < at \/ (Comb[i].reads \cap dirty = {} /\ ~ Running(i))) => Holds(f, i)
        /\ \A i \in CombBlocks : i < at /\ Running(i) =>
              \A s \in Comb[i].writes : f[s] = val[s]
    BY <1>0 DEF RestInv, SettleInv
  <1>2. /\ DOMAIN new \subseteq Comb[n].writes /\ Comb[n].writes \subseteq Wires
        /\ Wires \subseteq Signals
        /\ Comb[n].reads \subseteq Signals
        /\ \A s \in Signals : val'[s] = IF s \in DOMAIN new THEN new[s] ELSE val[s]
    BY <1>0, CombApply, WriteType DEF Signals
  \* Block n is affected, and either it leads or its group is running.
  <1>3. /\ n \in Affected
        /\ Leads(n) \/ (run /\ \E m \in CombBlocks : m + 1 = n /\ Group(n) = Group(m))
    <2>1. CASE Leads(n)
      BY <1>0, <2>1 DEF Runs
    <2>2. CASE ~ Leads(n)
      <3>1. run
        BY <1>0, <2>2 DEF Runs
      <3>2. PICK m \in Affected : m + 1 = n
        BY <1>0, <3>1 DEF RestInv, StaleOK
      <3>3. m \in CombBlocks /\ m \in Nat
        BY <1>0, <3>2, AffectedClosed
      <3>4. n \in Group(n)
        BY <1>0, GroupFacts
      <3>5. Group(n) = Group(m)
        <4>. HIDE DEF n
        <4>. QED
          BY <1>0, <2>2, <3>2, <3>3, SameAsBefore
      <3>. QED
        BY <3>1, <3>2, <3>3, <3>4, <3>5, AffectedClosed
    <2>. QED
      BY <2>1, <2>2
  \* Who is in the running group before the step is in it after.
  <1>4. \A i \in CombBlocks : Running(i) /\ ~ i < n => i \in Group(n)
    <2>1. ASSUME NEW i \in CombBlocks, NEW m \in CombBlocks, m + 1 = n, i \in Group(m), ~ i < n
          PROVE  i \in Group(n)
      BY <1>0, <2>1, GroupSides
    <2>. QED
      BY <2>1 DEF Running
  <1>5. \A i \in CombBlocks : Running(i)' <=> i \in Group(n)
    <2>1. \A m \in CombBlocks : m + 1 = n + 1 <=> m = n
      BY <1>0
    <2>. QED
      BY <1>0, <2>1 DEF Running
  \* What n reads is the same in f, locals included.
  <1>6. \A t \in Comb[n].reads : f[t] = val[t]
    <2>1. SUFFICES ASSUME NEW t \in Comb[n].reads, t \in Promoted PROVE f[t] = val[t]
      BY <1>1, <1>2 DEF Agrees, Tracked
    <2>2. PICK j \in CombBlocks : t \in Comb[j].writes
      BY <2>1, Struct, DesignAssumption
    <2>3. j \in Group(n)
      BY <1>3, <2>1, <2>2 DEF DesignRules, LocalsStayInGroup
    <2>4. j < n
      BY <1>0, <2>1, <2>2, DesignAssumption
    <2>5. ~ Leads(n)
      BY <1>0, <2>3, <2>4, GroupFacts
    <2>6. Running(j)
      BY <1>3, <2>3, <2>5 DEF Running
    <2>. QED
      BY <1>1, <2>2, <2>4, <2>6
  <1>7. PICK g \in Valuations :
            \A s \in Signals : g[s] = IF s \in Comb[n].writes THEN val'[s] ELSE f[s]
    <2>. DEFINE w == [s \in Signals |-> IF s \in Comb[n].writes THEN val'[s] ELSE f[s]]
    <2>1. w \in Valuations
      BY <1>0 DEF Valuations
    <2>. QED
      BY <2>1
  <1>. HIDE DEF n, new
  <1>8. Agrees(g)'
    <2>1. ASSUME NEW s \in Tracked PROVE g[s] = val'[s]
      BY <1>1, <1>2, <1>7, <2>1 DEF Agrees, Tracked
    <2>. QED
      BY <2>1 DEF Agrees
  <1>9. ASSUME NEW s \in Wires, \A i \in Affected : s \notin Comb[i].writes
        PROVE  Settled(g, s)
    <2>1. ASSUME NEW i \in CombBlocks, s \in Comb[i].writes, NEW t \in Comb[i].reads
          PROVE  f[t] = g[t]
      <3>1. i \notin Affected /\ t \in Signals
        BY <1>9, <2>1, CombApply
      <3>2. t \notin Comb[n].writes
        BY <1>3, <2>1, <3>1, AffectedClosed
      <3>. QED
        BY <1>7, <3>1, <3>2
    <2>2. \A i \in CombBlocks : s \notin Comb[i].writes =>
             s \notin DOMAIN Apply(Comb[i], f) /\ s \notin DOMAIN Apply(Comb[i], g)
      BY CombApply
    <2>3. Settled(f, s) /\ f[s] = g[s]
      BY <1>1, <1>2, <1>3, <1>7, <1>9 DEF OthersSettled
    <2>. QED
      BY <2>1, <2>2, <2>3, SettledFrame
  \* Block n itself holds in g.
  <1>10. Apply(Comb[n], g) = new /\ Holds(g, n)
    <2>1. \A t \in Comb[n].reads : g[t] = val[t]
      <3>1. n <= n
        BY <1>0
      <3>2. \A t \in Comb[n].reads : t \notin Comb[n].writes
        BY <1>0, <3>1, DesignAssumption
      <3>. QED
        BY <1>2, <1>6, <1>7, <3>2
    <2>2. Apply(Comb[n], g) = new
      BY <2>1, SameReads DEF new
    <2>. QED
      BY <1>2, <1>7, <2>2 DEF Holds
  <1>11. ASSUME NEW i \in Affected,
                i < at' \/ (Comb[i].reads \cap dirty' = {} /\ ~ Running(i)')
         PROVE  Holds(g, i)
    <2>1. CASE i = n
      BY <1>10, <2>1
    <2>2. CASE i # n
      <3>0. i \in CombBlocks /\ i \in Nat /\ n \in Nat /\ (i < at' <=> i < n)
        BY <1>0, <2>2, AffectedClosed
      <3>1. Comb[i].writes \cap Comb[n].writes = {}
        BY <1>0, <1>3, <2>2, <3>0 DEF DesignRules, OneStatementPerWire
      <3>2. Comb[i].reads \cap Comb[n].writes = {}
        <4>1. CASE i < n
          BY <1>0, <3>0, <4>1, DesignAssumption
        <4>2. CASE ~ i < n
          <5>1. Comb[i].reads \cap dirty' = {} /\ i \notin Group(n)
            BY <1>5, <1>11, <3>0, <4>2
          <5>2. SUFFICES ASSUME NEW t \in Comb[i].reads, t \in Comb[n].writes PROVE FALSE
            OBVIOUS
          <5>3. t \notin Tracked
            BY <1>0, <5>1, <5>2
          <5>4. t \in Promoted
            BY <1>2, <5>2, <5>3 DEF Tracked
          <5>5. n \in Group(i)
            BY <1>0, <5>2, <5>4 DEF DesignRules, LocalsStayInGroup
          <5>. QED
            BY <1>0, <3>0, <5>1, <5>5, GroupSides
        <4>. QED
          BY <4>1, <4>2
      <3>3. Holds(f, i)
        <4>1. CASE i < n
          BY <1>1, <4>1 DEF n
        <4>2. CASE ~ i < n
          <5>1. Comb[i].reads \cap dirty = {} /\ i \notin Group(n)
            BY <1>0, <1>5, <1>11, <3>0, <4>2
          <5>2. ~ Running(i)
            BY <1>4, <3>0, <4>2, <5>1
          <5>. QED
            BY <1>1, <5>1, <5>2
        <4>. QED
          BY <4>1, <4>2
      <3>4. /\ \A t \in Comb[i].reads : f[t] = g[t]
            /\ \A t \in Comb[i].writes : f[t] = g[t]
        BY <1>7, <3>0, <3>1, <3>2, CombApply, <1>2
      <3>. QED
        BY <3>0, <3>3, <3>4, HoldsFrame
    <2>. QED
      BY <2>1, <2>2
  <1>12. ASSUME NEW i \in CombBlocks, i < at', Running(i)', NEW s \in Comb[i].writes
         PROVE  g[s] = val'[s]
    <2>1. s \in Signals
      BY CombApply, <1>2, <1>12
    <2>2. CASE s \in Comb[n].writes
      BY <1>7, <2>1, <2>2
    <2>3. CASE s \notin Comb[n].writes
      <3>1. i \in Group(n) /\ i < n
        BY <1>0, <1>5, <1>12, <2>3
      <3>2. Running(i)
        BY <1>0, <1>3, <3>1, GroupFacts DEF Running, n
      <3>3. f[s] = val[s]
        BY <1>1, <1>12, <3>1, <3>2 DEF n
      <3>. QED
        BY <1>2, <1>7, <2>1, <2>3, <3>3
    <2>. QED
      BY <2>2, <2>3
  <1>13. SettleInv'
    <2>1. OthersSettled(g)'
      BY <1>9 DEF OthersSettled
    <2>2. \A i \in Affected : (i < at' \/ (Comb[i].reads \cap dirty' = {} /\ ~ Running(i)'))
             => Holds(g, i)'
      BY <1>11 DEF Holds
    <2>. QED
      BY <1>8, <1>12, <2>1, <2>2 DEF SettleInv
  <1>14. StaleOK'
    BY <1>0, <1>3 DEF StaleOK
  <1>15. DirtyOK'
    BY <1>0, <1>3 DEF RestInv, DirtyOK
  <1>. QED
    BY <1>13, <1>14, <1>15

\* Passing over a block that is not run: it holds already.
LEMMA SkipStep ==
    ASSUME Typed, RestInv, LeaveSettled
    PROVE  SettleInv' /\ StaleOK' /\ DirtyOK'
  <1>. DEFINE n == at
  <1>0. /\ pc = "settle" /\ pc' = "settle" /\ n \in CombBlocks /\ ~ Runs(n)
        /\ val' = val /\ at' = n + 1 /\ run' = FALSE /\ dirty' = dirty
        /\ dirty \subseteq Tracked
        /\ CombBlocks = 1 .. Len(Comb) /\ Len(Comb) \in Nat
    BY DesignAssumption DEF Typed, EvalTypeOK, LeaveSettled, CombBlocks
  <1>1. PICK f \in Valuations :
        /\ Agrees(f) /\ OthersSettled(f)
        /\ \A i \in Affected :
              (i < at \/ (Comb[i].reads \cap dirty = {} /\ ~ Running(i))) => Holds(f, i)
        /\ \A i \in CombBlocks : i < at /\ Running(i) =>
              \A s \in Comb[i].writes : f[s] = val[s]
    BY <1>0 DEF RestInv, SettleInv
  \* No affected block of the group of n reads anything dirty.
  <1>2. \A i \in Group(n) \cap Affected : Comb[i].reads \cap dirty = {}
    <2>1. CASE Leads(n)
      <3>1. n \notin Affected \/ GroupReads(n) \cap Tracked \cap dirty = {}
        BY <1>0, <2>1 DEF Runs, Stale
      <3>2. ASSUME NEW i \in Group(n) \cap Affected, NEW t \in Comb[i].reads, t \in dirty
            PROVE  FALSE
        <4>1. i \in CombBlocks /\ n \in Group(i)
          BY <1>0, <3>2, GroupSides DEF Group
        <4>2. n \in Affected
          BY <3>2, <4>1, AffectedClosed
        <4>3. t \in GroupReads(n) \cap Tracked \cap dirty
          BY <1>0, <3>2 DEF GroupReads
        <4>. QED
          BY <3>1, <4>2, <4>3
      <3>. QED
        BY <3>2
    <2>2. CASE ~ Leads(n)
      BY <1>0, <2>2 DEF Runs, RestInv, StaleOK
    <2>. QED
      BY <2>1, <2>2
  \* Nobody from n on is in a running group.
  <1>3. \A i \in CombBlocks : ~ i < n => ~ Running(i)
    <2>1. SUFFICES ASSUME NEW i \in CombBlocks, ~ i < n, run,
                          NEW m \in CombBlocks, m + 1 = n, i \in Group(m)
                   PROVE  FALSE
      BY DEF Running
    <2>2. ~ Leads(n)
      BY <1>0, <2>1, GroupSides
    <2>. QED
      BY <1>0, <2>1, <2>2 DEF Runs
  <1>4. ASSUME NEW i \in Affected, i < at' \/ Comb[i].reads \cap dirty = {} PROVE Holds(f, i)
    <2>1. i \in CombBlocks /\ i \in Nat
      BY <1>0, AffectedClosed
    <2>2. CASE i < n
      BY <1>1, <2>2
    <2>3. CASE ~ i < n
      <3>1. Comb[i].reads \cap dirty = {}
        <4>1. CASE i = n
          BY <1>0, <1>2, <4>1, GroupFacts
        <4>2. CASE i # n
          BY <1>0, <1>4, <2>1, <2>3, <4>2
        <4>. QED
          BY <4>1, <4>2
      <3>. QED
        BY <1>1, <1>3, <2>1, <2>3, <3>1
    <2>. QED
      BY <2>2, <2>3
  <1>5. SettleInv'
    <2>1. Agrees(f)' /\ OthersSettled(f)' /\ \A i \in CombBlocks : ~ Running(i)' /\ (Holds(f, i)' <=> Holds(f, i))
      BY <1>0, <1>1 DEF Running, Agrees, OthersSettled, Holds
    <2>. QED
      BY <1>0, <1>4, <2>1, AffectedClosed DEF SettleInv
  <1>6. StaleOK'
    <2>1. SUFFICES ASSUME n + 1 \in CombBlocks, ~ Leads(n + 1),
                          NEW i \in Group(n + 1) \cap Affected
                   PROVE  Comb[i].reads \cap dirty = {}
      BY <1>0 DEF StaleOK
    <2>2. Group(n + 1) = Group(n)
      <3>. HIDE DEF n
      <3>1. n \in Nat
        BY <1>0
      <3>. QED
        BY <1>0, <2>1, <3>1, SameAsBefore
    <2>. QED
      BY <1>2, <2>1, <2>2
  <1>7. DirtyOK'
    BY <1>0 DEF RestInv, DirtyOK
  <1>. QED
    BY <1>5, <1>6, <1>7

\* When all blocks are passed, the witness gives the values of the locals.
LEMMA SettleDone ==
    ASSUME Typed, RestInv, DesignRules, EndEval PROVE OutputsSettled'
  <1>0. /\ val \in Valuations /\ pc = "settle" /\ val' = val
        /\ \A i \in CombBlocks : i < at
    BY DesignAssumption DEF Typed, EvalTypeOK, Valuations, EndEval, CombBlocks
  <1>1. PICK f \in Valuations :
        /\ Agrees(f) /\ OthersSettled(f) /\ \A i \in Affected : Holds(f, i)
    BY <1>0, AffectedClosed DEF RestInv, SettleInv
  <1>2. ASSUME NEW s \in Wires PROVE Settled(f, s)
    <2>1. CASE \A i \in Affected : s \notin Comb[i].writes
      BY <1>1, <2>1 DEF OthersSettled
    <2>2. CASE \E i \in Affected : s \in Comb[i].writes
      <3>1. PICK i \in Affected : s \in Comb[i].writes
        BY <2>2
      <3>2. \A j \in Drivers(f, s) : j \in CombBlocks /\ s \in Comb[j].writes
        BY CombApply DEF Drivers
      <3>3. \A j \in Drivers(f, s) : j = i
        BY <3>1, <3>2 DEF DesignRules, OneStatementPerWire
      <3>. QED
        BY <1>1, <3>3 DEF Settled, Holds, Drivers
    <2>. QED
      BY <2>1, <2>2
  <1>3. [s \in Promoted |-> f[s]] \in [Promoted -> Val]
    BY Struct DEF Valuations, Signals
  <1>4. Write(val, [s \in Promoted |-> f[s]]) = f
    BY <1>0, <1>1 DEF Write, Valuations, Agrees, Tracked
  <1>. QED
    BY <1>0, <1>2, <1>3, <1>4 DEF OutputsSettled

LEMMA RestInit == EvalInit => RestInv
  BY DEF EvalInit, RestInv, NotRunning, DirtyOK, CombInv, SeqInv, SettleInv, StaleOK, OutputsSettled

LEMMA RestStep ==
    ASSUME DesignRules, Typed, Typed', RestInv, [EvalNext]_evalVars PROVE RestInv'
  <1>. USE DEF RestInv
  <1>1. ASSUME NEW s \in Inputs, NEW x \in Val, SetInput(s, x) PROVE RestInv'
    BY <1>1 DEF SetInput, NotRunning, DirtyOK, CombInv, SeqInv, SettleInv, StaleOK, OutputsSettled
  <1>2. CASE BeginEval
    <2>1. \A s \in Wires : SettledBelow(ZeroLocals(val), s, 1)
      <3>1. \A i \in CombBlocks : ~ i < 1
        BY DesignAssumption DEF CombBlocks
      <3>. QED
        BY <3>1 DEF SettledBelow, Drivers
    <2>. QED
      BY <1>2, <2>1 DEF BeginEval, NotRunning, DirtyOK, CombInv, SeqInv, SettleInv, StaleOK, OutputsSettled
  <1>3. CASE EvalComb
    BY <1>3, CombStep DEF DesignRules, EvalComb, NotRunning, DirtyOK, SeqInv, SettleInv, StaleOK, OutputsSettled
  <1>4. CASE EndComb
    BY <1>4, EnterSeq
  <1>5. CASE EnterGroup \/ SkipGroup \/ LeaveGroup \/ \E b \in SeqBlocks : RunSeqBlock(b)
    BY <1>5, SeqSteps
  <1>6. CASE EndSeq
    BY <1>6, EnterSettle
  <1>7. CASE Resettle
    BY <1>7, ResettleStep DEF Resettle, NotRunning, CombInv, SeqInv, OutputsSettled
  <1>8. CASE LeaveSettled
    BY <1>8, SkipStep DEF LeaveSettled, NotRunning, CombInv, SeqInv, OutputsSettled
  <1>9. CASE EndEval
    BY <1>9, SettleDone DEF EndEval, NotRunning, DirtyOK, CombInv, SeqInv, SettleInv, StaleOK
  <1>10. CASE UNCHANGED evalVars
    BY <1>10 DEF evalVars, NotRunning, DirtyOK, CombInv, SeqInv, SettleInv, StaleOK, OutputsSettled,
        Pending, Running, Agrees, OthersSettled
  <1>. QED
    BY <1>1, <1>2, <1>3, <1>4, <1>5, <1>6, <1>7, <1>8, <1>9, <1>10 DEF EvalNext

(***************************************************************************)
(* Selective re-evaluation is complete: for every design whose locals stay *)
(* in their merge group, whose wires are each written by one statement and *)
(* of whose one-bit assignments none are batched, the outputs of every     *)
(* call of veripy_eval are those of the circuit at rest.                   *)
(***************************************************************************)
THEOREM EvalSettles ==
    ASSUME LocalsStayInGroup, OneStatementPerWire, EachBitAlone
    PROVE  EvalSpec => []OutputsSettled
  <1>1. DesignRules
    BY DEF DesignRules
  <1>2. EvalInit => Typed /\ RestInv
    BY TypedInit, RestInit
  <1>3. Typed /\ RestInv /\ [EvalNext]_evalVars => (Typed /\ RestInv)'
    BY <1>1, TypedStep, RestStep
  <1>4. RestInv => OutputsSettled
    BY DEF RestInv
  <1>. QED
    BY <1>2, <1>3, <1>4, PTL DEF EvalSpec

-----------------------------------------------------------------------------
(* Registers and memories.  A witness o has the values at the end of       *)
(* veripy_eval_comb, which a Verilog simulator would let all blocks read.  *)

Fired(l) == EdgeFires(EdgeOrder[l], prevClk, val)

\* An edge group that has been run writes s.
Done(s) == \E l \in EdgeGroups : l < at /\ Fired(l) /\ s \in GroupWrites(l)

\* The running edge group has stored s already.
Stored(s) == pc = "group" /\ s \in GroupWrites(at) \cap Mems

Before(o) == \A s \in Tracked : ~ Done(s) /\ ~ Stored(s) => val[s] = o[s]

DoneOK == \A s \in Regs \cup Mems : Done(s) => val[s] = ideal[s]

GroupOK(o) == pc = "group" =>
    /\ Fired(at)
    /\ \A b \in BlocksOf(at) : \A s \in Seqs[b].writes :
         /\ s \in Regs => \/ nba[s] = ideal[s]
                          \/ b \in due /\ s \in DOMAIN Apply(Seqs[b], o)
         /\ s \in Mems => IF b \in due THEN Done(s) \/ val[s] = o[s]
                                       ELSE val[s] = ideal[s]
    /\ \A b \in BlocksOf(at) \ due, c \in due : b < c

EdgeInv == /\ seen = prevClk
           /\ pc = "comb" => (run <=> EdgeOrder = << >> \/ AnyEdge)
           /\ pc \in {"seq", "group"} => EdgeOrder = << >> \/ AnyEdge

StateInv ==
    /\ pc \in {"seq", "group"} =>
          \E o \in Valuations : /\ ideal = NextState(o)
                                /\ Before(o) /\ DoneOK /\ GroupOK(o)
    /\ pc \in {"settle", "fresh"} => \A s \in Regs \cup Mems : val[s] = ideal[s]

EdgeRules == RaceFree /\ ClocksAreInputs

\* The value Verilog asks for in a register or memory a triggered block writes,
LEMMA NextOfTriggered ==
    ASSUME NEW o \in Valuations, NEW b \in Triggered(o), NEW s \in Seqs[b].writes
    PROVE  NextState(o)[s] = IF s \in DOMAIN Apply(Seqs[b], o)
                             THEN Apply(Seqs[b], o)[s] ELSE o[s]
  <1>1. b \in SeqBlocks /\ s \in Regs \cup Mems
    BY SeqApply DEF Triggered
  <1>2. ASSUME NEW c \in Triggered(o), s \in DOMAIN Apply(Seqs[c], o) PROVE c = b
    <2>1. c \in SeqBlocks /\ s \in Seqs[c].writes
      BY <1>2, SeqApply DEF Triggered
    <2>. QED
      BY <1>1, <2>1, DesignAssumption
  <1>3. CASE s \in DOMAIN Apply(Seqs[b], o)
    <2>1. (CHOOSE c \in Triggered(o) : s \in DOMAIN Apply(Seqs[c], o)) = b
      BY <1>2, <1>3
    <2>. QED
      BY <1>1, <1>3, <2>1 DEF NextState
  <1>4. CASE s \notin DOMAIN Apply(Seqs[b], o)
    <2>1. ~ \E c \in Triggered(o) : s \in DOMAIN Apply(Seqs[c], o)
      BY <1>2, <1>4
    <2>. QED
      BY <1>1, <1>4, <2>1 DEF NextState
  <1>. QED
    BY <1>3, <1>4

\* and in one that none writes.
LEMMA NextOfOthers ==
    ASSUME NEW o \in Valuations, NEW s \in Regs \cup Mems,
           \A b \in Triggered(o) : s \notin Seqs[b].writes
    PROVE  NextState(o)[s] = o[s]
  <1>1. ~ \E c \in Triggered(o) : s \in DOMAIN Apply(Seqs[c], o)
    BY SeqApply DEF Triggered
  <1>. QED
    BY <1>1 DEF NextState

\* Edges look at clocks only.
LEMMA FiresFrame ==
    ASSUME NEW v, NEW w, NEW old, \A c \in Clocks : v[c] = w[c]
    PROVE  /\ \A l \in EdgeGroups : EdgeFires(EdgeOrder[l], old, v) <=> EdgeFires(EdgeOrder[l], old, w)
           /\ \A b \in SeqBlocks : \A e \in Seqs[b].edges : e \in {EdgeOrder[l] : l \in EdgeGroups} =>
                 (EdgeFires(e, old, v) <=> EdgeFires(e, old, w))
  BY DEF EdgeFires, Clocks

\* The clocks keep their values during a call.
LEMMA ClocksKept ==
    ASSUME Typed, ClocksAreInputs, EvalNext, pc \notin {"bench", "fresh"} \/ BeginEval
    PROVE  \A c \in Clocks : val'[c] = val[c]
  <1>. SUFFICES ASSUME NEW c \in Clocks PROVE val'[c] = val[c]
    OBVIOUS
  <1>0. /\ val \in Valuations /\ c \in Inputs /\ c \in Signals /\ c \in Tracked
        /\ c \notin Wires /\ c \notin Regs \cup Mems
    BY Struct, NamesAssumption DEF Typed, EvalTypeOK, Valuations, ClocksAreInputs, Signals
  <1>1. CASE BeginEval \/ EndComb
    BY <1>0, <1>1, ZeroLocalsType DEF BeginEval, EndComb
  <1>2. CASE EvalComb \/ Resettle
    BY <1>0, <1>2, EmittedType DEF EvalComb, Resettle
  <1>3. CASE LeaveGroup
    <2>1. c \notin DOMAIN nba
      BY <1>0, <1>3 DEF LeaveGroup, Typed, NbaOK
    <2>. QED
      BY <1>0, <1>3, <2>1 DEF LeaveGroup, Write, Valuations
  <1>4. ASSUME NEW b \in SeqBlocks, RunSeqBlock(b) PROVE val'[c] = val[c]
    BY <1>0, <1>4 DEF RunSeqBlock
  <1>5. CASE EnterGroup \/ SkipGroup \/ EndSeq \/ LeaveSettled \/ EndEval
    BY <1>5 DEF EnterGroup, SkipGroup, EndSeq, LeaveSettled, EndEval
  <1>6. ASSUME NEW s \in Inputs, NEW x \in Val, SetInput(s, x) PROVE FALSE
    BY <1>6 DEF SetInput, BeginEval
  <1>. QED
    BY <1>1, <1>2, <1>3, <1>4, <1>5, <1>6 DEF EvalNext

LEMMA EdgeStep ==
    ASSUME Typed, ClocksAreInputs, EdgeInv, [EvalNext]_evalVars PROVE EdgeInv'
  <1>0. val \in Valuations
    BY DEF Typed, EvalTypeOK, Valuations
  <1>1. CASE UNCHANGED evalVars
    BY <1>1 DEF evalVars, EdgeInv, AnyEdge
  <1>2. ASSUME NEW s \in Inputs, NEW x \in Val, SetInput(s, x) PROVE EdgeInv'
    BY <1>2 DEF SetInput, EdgeInv
  <1>3. CASE BeginEval
    <2>1. prevClk' = prevClk /\ \A c \in Clocks : val'[c] = val[c]
      BY <1>3, ClocksKept DEF BeginEval, EvalNext
    <2>2. AnyEdge' <=> AnyEdge
      BY <2>1, FiresFrame DEF AnyEdge
    <2>. QED
      BY <1>3, <2>1, <2>2 DEF BeginEval, EdgeInv
  <1>4. CASE EndComb
    <2>1. \A c \in Clocks : val'[c] = val[c]
      BY <1>4, ClocksKept DEF EndComb, EvalNext
    <2>2. CASE run
      <3>1. prevClk' = prevClk
        BY <1>4, <2>2 DEF EndComb
      <3>2. AnyEdge' <=> AnyEdge
        BY <2>1, <3>1, FiresFrame DEF AnyEdge
      <3>. QED
        BY <1>4, <2>2, <3>2 DEF EndComb, EdgeInv
    <2>. QED
      BY <1>4, <2>2 DEF EndComb, EdgeInv
  <1>5. CASE EndEval
    BY <1>5 DEF EndEval, EdgeInv
  <1>6. CASE EvalComb \/ EnterGroup \/ SkipGroup \/ LeaveGroup \/ EndSeq \/ Resettle \/ LeaveSettled
             \/ \E b \in SeqBlocks : RunSeqBlock(b)
    <2>1. /\ EvalNext /\ pc \notin {"bench", "fresh"} /\ prevClk' = prevClk /\ seen' = seen
          /\ EdgeOrder = EdgeOrder'
          /\ pc' = "comb" => pc = "comb" /\ run' = run
          /\ pc' \in {"seq", "group"} => pc \in {"seq", "group"}
      BY <1>6 DEF EvalNext, EvalComb, EnterGroup, SkipGroup, LeaveGroup, EndSeq, Resettle,
                  LeaveSettled, RunSeqBlock
    <2>2. AnyEdge' <=> AnyEdge
      <3>1. \A c \in Clocks : val'[c] = val[c]
        BY <2>1, ClocksKept
      <3>. QED
        BY <2>1, <3>1, FiresFrame DEF AnyEdge
    <2>. QED
      BY <2>1, <2>2 DEF EdgeInv
  <1>. QED
    BY <1>1, <1>2, <1>3, <1>4, <1>5, <1>6 DEF EvalNext

\* Which edge groups have fired does not change while they are run.
LEMMA FiredKept ==
    ASSUME Typed, ClocksAreInputs,
           EnterGroup \/ SkipGroup \/ LeaveGroup \/ \E b \in SeqBlocks : RunSeqBlock(b)
    PROVE  \A l \in EdgeGroups : Fired(l)' <=> Fired(l)
  <1>1. EvalNext /\ pc \notin {"bench", "fresh"} /\ prevClk' = prevClk
    BY DEF EvalNext, EnterGroup, SkipGroup, LeaveGroup, RunSeqBlock
  <1>2. \A c \in Clocks : val'[c] = val[c]
    BY <1>1, ClocksKept
  <1>. QED
    BY <1>1, <1>2, FiresFrame DEF Fired

\* A group is guarded exactly by its edge, also when it is the only one.
LEMMA GuardedFired ==
    ASSUME EdgeInv, pc \in {"seq", "group"}, NEW l \in EdgeGroups
    PROVE  Guarded(l) <=> Fired(l)
  <1>0. EdgeGroups = 1 .. Len(EdgeOrder) /\ Len(EdgeOrder) \in Nat /\ EdgeOrder # << >>
    BY DesignAssumption DEF EdgeGroups
  <1>1. CASE Len(EdgeOrder) > 1
    BY <1>1 DEF Guarded, Fired
  <1>2. CASE ~ Len(EdgeOrder) > 1
    <2>1. \A k \in EdgeGroups : k = l
      BY <1>0, <1>2
    <2>2. Fired(l)
      BY <1>0, <2>1 DEF EdgeInv, AnyEdge, Fired
    <2>. QED
      BY <1>2, <2>2 DEF Guarded
  <1>. QED
    BY <1>1, <1>2

\* A block of a fired group reads what it would have read before all of them.
LEMMA ReadsBefore ==
    ASSUME Typed, EdgeRules, EdgeInv, pc = "group", NEW o \in Valuations, Before(o),
           NEW b \in SeqBlocks, b \in due, \A c \in due : b <= c, GroupOK(o), DoneOK,
           ideal = NextState(o)
    PROVE  /\ b \in Triggered(o)
           /\ Apply(Seqs[b], val) = Apply(Seqs[b], o)
  <1>0. /\ at \in EdgeGroups /\ b \in BlocksOf(at) /\ Fired(at) /\ val \in Valuations
        /\ EdgeGroups = 1 .. Len(EdgeOrder) /\ Len(EdgeOrder) \in Nat
        /\ SeqBlocks = 1 .. Len(Seqs) /\ Len(Seqs) \in Nat
    BY DesignAssumption DEF Typed, EvalTypeOK, NbaOK, GroupOK, Valuations, EdgeGroups, SeqBlocks
  <1>1. \A c \in Clocks : val[c] = o[c]
    <2>1. SUFFICES ASSUME NEW c \in Clocks PROVE ~ Done(c) /\ ~ Stored(c) /\ c \in Tracked
      BY DEF Before
    <2>2. c \notin Regs \cup Mems /\ c \in Tracked
      BY NamesAssumption, Struct DEF EdgeRules, ClocksAreInputs
    <2>. QED
      BY <2>2, Struct DEF Done, Stored
  <1>2. b \in Triggered(o)
    <2>1. EdgeOrder[at] \in Seqs[b].edges /\ EdgeFires(EdgeOrder[at], seen, o)
      BY <1>0, <1>1, FiresFrame DEF BlocksOf, Fired, EdgeInv
    <2>. QED
      BY <2>1 DEF Triggered
  <1>3. ASSUME NEW s \in Seqs[b].reads PROVE val[s] = o[s]
    <2>1. s \in Tracked
      BY SeqApply, <1>0 DEF Tracked, Promoted, SeqReads
    <2>2. ~ Done(s)
      <3>1. SUFFICES ASSUME NEW l \in EdgeGroups, l < at, NEW c \in BlocksOf(l), s \in Seqs[c].writes
                     PROVE  FALSE
        BY DEF Done, GroupWrites
      <3>. QED
        BY <1>0, <3>1 DEF EdgeRules, RaceFree
    <2>3. CASE ~ Stored(s)
      BY <2>1, <2>2, <2>3 DEF Before
    <2>4. CASE Stored(s)
      <3>1. PICK c \in BlocksOf(at) : s \in Seqs[c].writes
        BY <2>4 DEF Stored, GroupWrites
      <3>2. s \in Mems /\ ~ c <= b
        BY <1>0, <2>4, <3>1 DEF Stored, EdgeRules, RaceFree
      <3>3. c \in due
        BY <1>0, <3>1, <3>2 DEF GroupOK, BlocksOf
      <3>. QED
        BY <1>0, <2>2, <3>1, <3>2, <3>3 DEF GroupOK
    <2>. QED
      BY <2>3, <2>4
  <1>4. Apply(Seqs[b], val) = Apply(Seqs[b], o)
    BY <1>3, SameReads
  <1>. QED
    BY <1>2, <1>4

\* When the edge groups start, nothing has been written.
LEMMA EnterSeqState ==
    ASSUME Typed, Typed', EdgeInv, EndComb
    PROVE  StateInv'
  <1>0. /\ val \in Valuations /\ ideal' = NextState(val)
        /\ pc = "comb" /\ at' = 1
    BY DEF Typed, EvalTypeOK, Valuations, EndComb
  <1>1. CASE run
    <2>1. pc' = "seq" /\ val' = ZeroLocals(val) /\ seen' = seen
      BY <1>1 DEF EndComb
    <2>2. PICK o \in Valuations : o = val
      BY <1>0
    <2>3. ideal' = NextState(o)'
      BY <1>0, <2>1, <2>2 DEF NextState, Triggered
    <2>4. \A s \in Tracked : val'[s] = o[s]
      BY <1>0, <2>1, <2>2, ZeroLocalsType
    <2>5. \A s : ~ Done(s)'
      <3>1. \A l \in EdgeGroups : ~ l < 1
        BY DesignAssumption DEF EdgeGroups
      <3>. QED
        BY <1>0, <3>1 DEF Done
    <2>. QED
      BY <1>0, <2>1, <2>3, <2>4, <2>5 DEF StateInv, Before, DoneOK, GroupOK
  <1>2. CASE ~ run
    <2>1. pc' = "fresh" /\ val' = val
      BY <1>2 DEF EndComb
    <2>2. Triggered(val) = {}
      <3>1. ASSUME NEW b \in SeqBlocks, NEW e \in Seqs[b].edges PROVE ~ EdgeFires(e, seen, val)
        <4>1. PICK k \in EdgeGroups : e = EdgeOrder[k]
          BY DesignAssumption
        <4>. QED
          BY <1>0, <1>2, <4>1 DEF EdgeInv, AnyEdge
      <3>. QED
        BY <3>1 DEF Triggered
    <2>3. \A s \in Regs \cup Mems : NextState(val)[s] = val[s]
      BY <1>0, <2>2, NextOfOthers
    <2>. QED
      BY <1>0, <2>1, <2>3 DEF StateInv
  <1>. QED
    BY <1>1, <1>2

\* Edge groups take registers and memories from their old to their new value.
LEMMA GroupSteps ==
    ASSUME Typed, Typed', EdgeRules, EdgeInv, StateInv,
           EnterGroup \/ SkipGroup \/ LeaveGroup \/ \E b \in SeqBlocks : RunSeqBlock(b)
    PROVE  StateInv'
  <1>0. /\ val \in Valuations /\ val' \in Valuations
        /\ pc \in {"seq", "group"} /\ pc' \in {"seq", "group"}
        /\ seen' = seen /\ ideal' = ideal /\ at \in EdgeGroups
        /\ EdgeGroups = 1 .. Len(EdgeOrder) /\ Len(EdgeOrder) \in Nat
        /\ SeqBlocks = 1 .. Len(Seqs) /\ Len(Seqs) \in Nat
    BY DesignAssumption
    DEF Typed, EvalTypeOK, NbaOK, Valuations, EnterGroup, SkipGroup, LeaveGroup, RunSeqBlock,
        EdgeGroups, SeqBlocks
  <1>1. PICK o \in Valuations : ideal = NextState(o) /\ Before(o) /\ DoneOK /\ GroupOK(o)
    BY <1>0 DEF StateInv
  <1>2. NextState(o)' = NextState(o)
    BY <1>0 DEF NextState, Triggered
  <1>3. \A l \in EdgeGroups : Fired(l)' <=> Fired(l)
    BY FiredKept DEF EdgeRules
  <1>4. Guarded(at) <=> Fired(at)
    BY <1>0, GuardedFired
  <1>5. CASE EnterGroup
    <2>1. /\ val' = val /\ at' = at /\ pc = "seq" /\ pc' = "group" /\ Fired(at)
          /\ nba' = [s \in GroupWrites(at) \cap Regs |-> val[s]] /\ due' = BlocksOf(at)
      BY <1>4, <1>5 DEF EnterGroup
    <2>2. \A s : Done(s)' <=> Done(s)
      BY <1>3, <2>1 DEF Done
    <2>3. Before(o)' /\ DoneOK'
      BY <1>0, <1>1, <2>1, <2>2 DEF Before, DoneOK, Stored
    <2>4. ASSUME NEW b \in BlocksOf(at), NEW s \in Seqs[b].writes
          PROVE  /\ s \in Regs => nba'[s] = ideal[s] \/ s \in DOMAIN Apply(Seqs[b], o)
                 /\ s \in Mems => Done(s) \/ val[s] = o[s]
      <3>0. b \in SeqBlocks
        BY DEF BlocksOf
      <3>1. s \in GroupWrites(at) /\ s \in Tracked /\ s \in Regs \cup Mems
        BY <3>0, SeqApply, Struct DEF GroupWrites
      <3>2. Done(s) => val[s] = ideal[s]
        BY <1>1, <3>1 DEF DoneOK
      <3>3. ~ Done(s) => val[s] = o[s]
        BY <1>1, <2>1, <3>1 DEF Before, Stored
      <3>4. b \in Triggered(o)
        <4>1. ASSUME NEW c \in Clocks PROVE val[c] = o[c]
          <5>1. c \notin Regs \cup Mems /\ c \in Tracked
            BY NamesAssumption, Struct DEF EdgeRules, ClocksAreInputs
          <5>. QED
            BY <1>1, <5>1, Struct DEF Before, Done, Stored
        <4>2. EdgeOrder[at] \in Seqs[b].edges /\ EdgeFires(EdgeOrder[at], seen, o)
          BY <1>0, <2>1, <4>1, FiresFrame DEF BlocksOf, Fired, EdgeInv
        <4>. QED
          BY <3>0, <4>2 DEF Triggered
      <3>5. s \notin DOMAIN Apply(Seqs[b], o) => ideal[s] = o[s]
        BY <1>1, <3>4, NextOfTriggered
      <3>. QED
        BY <2>1, <3>1, <3>2, <3>3, <3>5
    <2>5. GroupOK(o)'
      BY <1>0, <1>3, <2>1, <2>2, <2>4 DEF GroupOK
    <2>. QED
      BY <1>0, <1>1, <1>2, <2>3, <2>5 DEF StateInv
  <1>6. CASE SkipGroup
    <2>1. val' = val /\ at' = at + 1 /\ pc = "seq" /\ pc' = "seq" /\ ~ Fired(at)
      BY <1>4, <1>6 DEF SkipGroup
    <2>2. \A l \in EdgeGroups : l < at + 1 /\ Fired(l) <=> l < at /\ Fired(l)
      BY <1>0, <2>1
    <2>3. \A s : Done(s)' <=> Done(s)
      BY <1>3, <2>1, <2>2 DEF Done
    <2>. QED
      BY <1>0, <1>1, <1>2, <2>1, <2>3 DEF StateInv, Before, DoneOK, GroupOK, Stored
  <1>7. CASE LeaveGroup
    <2>1. /\ val' = Write(val, nba) /\ at' = at + 1 /\ pc = "group" /\ pc' = "seq" /\ due = {}
          /\ nba \in [GroupWrites(at) \cap Regs -> Val] /\ Fired(at)
      BY <1>1, <1>7 DEF LeaveGroup, Typed, NbaOK, GroupOK
    <2>2. \A s \in Signals : val'[s] = IF s \in GroupWrites(at) \cap Regs THEN nba[s] ELSE val[s]
      BY <1>0, <2>1 DEF Write, Valuations
    <2>3. \A s \in GroupWrites(at) : val'[s] = ideal[s]
      <3>1. ASSUME NEW b \in BlocksOf(at), NEW s \in Seqs[b].writes PROVE val'[s] = ideal[s]
        <4>1. s \in Regs \cup Mems /\ s \in Signals /\ s \in GroupWrites(at)
          BY SeqApply DEF BlocksOf, GroupWrites, Signals
        <4>2. s \in Regs => s \notin Mems /\ nba[s] = ideal[s]
          BY <1>1, <2>1, <3>1, NamesAssumption DEF GroupOK
        <4>3. s \in Mems => s \notin Regs /\ val[s] = ideal[s]
          BY <1>1, <2>1, <3>1, NamesAssumption DEF GroupOK
        <4>. QED
          BY <2>2, <4>1, <4>2, <4>3
      <3>. QED
        BY <3>1 DEF GroupWrites
    <2>4. \A s : Done(s)' <=> Done(s) \/ s \in GroupWrites(at)
      <3>1. \A l \in EdgeGroups : l < at + 1 <=> l < at \/ l = at
        BY <1>0
      <3>. QED
        BY <1>0, <1>3, <2>1, <3>1 DEF Done
    <2>5. DoneOK'
      BY <1>0, <1>1, <2>2, <2>3, <2>4 DEF DoneOK, Signals
    <2>6. Before(o)'
      BY <1>1, <2>1, <2>2, <2>4 DEF Before, Stored, Tracked
    <2>. QED
      BY <1>0, <1>1, <1>2, <2>1, <2>5, <2>6 DEF StateInv, GroupOK
  <1>8. ASSUME NEW b \in SeqBlocks, RunSeqBlock(b) PROVE StateInv'
    <2>. DEFINE new == Apply(Seqs[b], val)
    <2>1. /\ pc = "group" /\ pc' = "group" /\ at' = at /\ b \in due /\ \A c \in due : b <= c
          /\ due' = due \ {b} /\ nba' = Write(nba, new)
          /\ \A s \in Signals : val'[s] = IF s \in DOMAIN new \cap Mems THEN new[s] ELSE val[s]
      BY <1>8 DEF RunSeqBlock
    <2>2. b \in Triggered(o) /\ new = Apply(Seqs[b], o)
      BY <1>1, <2>1, ReadsBefore
    <2>3. \A s \in Seqs[b].writes : ideal[s] = IF s \in DOMAIN new THEN new[s] ELSE o[s]
      BY <1>1, <2>2, NextOfTriggered
    <2>4. DOMAIN new \subseteq Seqs[b].writes /\ b \in BlocksOf(at)
          /\ Seqs[b].writes \subseteq GroupWrites(at) /\ due \subseteq BlocksOf(at)
      BY <1>0, <2>1, SeqApply DEF Typed, NbaOK, GroupWrites
    <2>5. nba \in [GroupWrites(at) \cap Regs -> Val]
      BY <2>1 DEF Typed, NbaOK
    <2>. HIDE DEF new
    <2>6. \A s : Done(s)' <=> Done(s)
      BY <1>3, <2>1 DEF Done
    <2>7. DoneOK'
      BY <1>0, <1>1, <2>1, <2>3, <2>4, <2>6 DEF DoneOK, Signals
    <2>8. Before(o)'
      BY <1>1, <2>1, <2>4, <2>6 DEF Before, Stored, Tracked
    <2>9. ASSUME NEW c \in BlocksOf(at), NEW s \in Seqs[c].writes
          PROVE  /\ s \in Regs => \/ nba'[s] = ideal[s]
                                  \/ c \in due' /\ s \in DOMAIN Apply(Seqs[c], o)
                 /\ s \in Mems => IF c \in due' THEN Done(s) \/ val'[s] = o[s]
                                               ELSE val'[s] = ideal[s]
      <3>1. c \in SeqBlocks /\ s \in Signals /\ s \in GroupWrites(at) /\ s \in Tracked
        BY SeqApply, Struct DEF BlocksOf, GroupWrites, Signals
      <3>2. CASE c = b
        <4>1. s \in Regs => nba'[s] = ideal[s]
          <5>1. CASE s \in DOMAIN new
            BY <2>1, <2>3, <2>5, <3>1, <3>2, <5>1 DEF Write
          <5>2. CASE s \notin DOMAIN new
            <6>1. s \in Regs => nba'[s] = nba[s]
              BY <2>1, <2>5, <3>1, <5>2 DEF Write
            <6>. QED
              BY <1>1, <2>1, <2>2, <2>4, <3>2, <5>2, <6>1 DEF GroupOK
          <5>. QED
            BY <5>1, <5>2
        <4>2. s \in Mems => val'[s] = ideal[s]
          <5>1. CASE s \in DOMAIN new
            BY <2>1, <2>3, <3>1, <3>2, <5>1
          <5>2. CASE s \notin DOMAIN new
            BY <1>1, <2>1, <2>3, <2>4, <3>1, <3>2, <5>2 DEF GroupOK, DoneOK
          <5>. QED
            BY <5>1, <5>2
        <4>. QED
          BY <2>1, <3>2, <4>1, <4>2
      <3>3. CASE c # b
        <4>1. s \notin DOMAIN new
          BY <2>4, <3>1, <3>3, DesignAssumption
        <4>2. val'[s] = val[s] /\ (s \in Regs => nba'[s] = nba[s]) /\ (c \in due' <=> c \in due)
          BY <2>1, <2>5, <3>1, <3>3, <4>1 DEF Write
        <4>. QED
          BY <1>1, <2>1, <4>2 DEF GroupOK
      <3>. QED
        BY <3>2, <3>3
    <2>10. \A c \in BlocksOf(at) \ due', d \in due' : c < d
      <3>1. SUFFICES ASSUME NEW c \in BlocksOf(at), c \notin due', NEW d \in due' PROVE c < d
        OBVIOUS
      <3>2. c \in Int /\ d \in Int /\ d \in due /\ d # b
        BY <1>0, <2>1, <2>4 DEF BlocksOf
      <3>3. CASE c \in due
        BY <2>1, <3>1, <3>2, <3>3
      <3>4. CASE c \notin due
        BY <1>1, <2>1, <3>2, <3>4 DEF GroupOK
      <3>. QED
        BY <3>3, <3>4
    <2>11. GroupOK(o)'
      <3>1. Fired(at)'
        BY <1>0, <1>1, <1>3, <2>1 DEF GroupOK
      <3>. QED
        BY <1>0, <2>1, <2>6, <2>9, <2>10, <3>1 DEF GroupOK
    <2>. QED
      BY <1>0, <1>1, <1>2, <2>7, <2>8, <2>11 DEF StateInv
  <1>. QED
    BY <1>5, <1>6, <1>7, <1>8

\* When all edge groups are passed, every register has its new value.
LEMMA SeqDone ==
    ASSUME Typed, EdgeRules, EdgeInv, StateInv, EndSeq PROVE StateInv'
  <1>0. /\ val \in Valuations /\ pc = "seq" /\ pc' = "settle" /\ val' = val /\ ideal' = ideal
        /\ \A l \in EdgeGroups : l < at
    BY DesignAssumption DEF Typed, EvalTypeOK, Valuations, EndSeq, EdgeGroups
  <1>1. PICK o \in Valuations : ideal = NextState(o) /\ Before(o) /\ DoneOK
    BY <1>0 DEF StateInv
  <1>2. ASSUME NEW s \in Regs \cup Mems, ~ Done(s) PROVE val[s] = ideal[s]
    <2>1. val[s] = o[s]
      BY <1>0, <1>1, <1>2, Struct DEF Before, Stored
    <2>2. \A c \in Clocks : val[c] = o[c]
      <3>1. \A c \in Clocks : c \notin Regs \cup Mems /\ c \in Tracked
        BY NamesAssumption, Struct DEF EdgeRules, ClocksAreInputs
      <3>. QED
        BY <1>0, <1>1, <3>1, Struct DEF Before, Done, Stored
    <2>3. ASSUME NEW b \in Triggered(o), s \in Seqs[b].writes PROVE FALSE
      <3>1. PICK e \in Seqs[b].edges : EdgeFires(e, seen, o)
        BY DEF Triggered
      <3>2. b \in SeqBlocks
        BY DEF Triggered
      <3>3. PICK k \in EdgeGroups : e = EdgeOrder[k]
        BY <3>1, <3>2, DesignAssumption
      <3>4. Fired(k)
        BY <2>2, <3>1, <3>3, FiresFrame DEF EdgeInv, Fired
      <3>5. s \in GroupWrites(k)
        BY <2>3, <3>1, <3>2, <3>3 DEF GroupWrites, BlocksOf
      <3>. QED
        BY <1>0, <1>2, <3>4, <3>5 DEF Done
    <2>. QED
      BY <1>1, <2>1, <2>3, NextOfOthers
  <1>. QED
    BY <1>0, <1>1, <1>2 DEF StateInv, DoneOK

LEMMA StateInit == EvalInit => EdgeInv /\ StateInv
  BY DEF EvalInit, EdgeInv, StateInv

LEMMA StateStep ==
    ASSUME EdgeRules, Typed, Typed', EdgeInv, StateInv, [EvalNext]_evalVars
    PROVE  EdgeInv' /\ StateInv'
  <1>0. EdgeInv'
    BY EdgeStep DEF EdgeRules
  <1>1. ASSUME NEW s \in Inputs, NEW x \in Val, SetInput(s, x) PROVE StateInv'
    BY <1>1 DEF SetInput, StateInv
  <1>2. CASE BeginEval \/ EvalComb
    BY <1>0, <1>2 DEF BeginEval, EvalComb, StateInv
  <1>3. CASE EndComb
    BY <1>0, <1>3, EnterSeqState
  <1>4. CASE EnterGroup \/ SkipGroup \/ LeaveGroup \/ \E b \in SeqBlocks : RunSeqBlock(b)
    BY <1>0, <1>4, GroupSteps
  <1>5. CASE EndSeq
    BY <1>0, <1>5, SeqDone
  <1>6. CASE Resettle
    <2>1. \A s \in Regs \cup Mems : s \in Signals /\ s \notin Wires
      BY NamesAssumption DEF Signals
    <2>2. \A s \in Regs \cup Mems : val'[s] = val[s]
      BY <1>6, <2>1, EmittedType DEF Resettle, Typed, EvalTypeOK, Valuations
    <2>. QED
      BY <1>0, <1>6, <2>2 DEF Resettle, StateInv
  <1>7. CASE LeaveSettled \/ EndEval
    BY <1>0, <1>7 DEF LeaveSettled, EndEval, StateInv
  <1>8. CASE UNCHANGED evalVars
    <2>1. \A o : NextState(o)' = NextState(o)
      BY <1>8 DEF evalVars, NextState, Triggered
    <2>2. \A o : (Before(o) <=> Before(o)') /\ (GroupOK(o) <=> GroupOK(o)')
      BY <1>8 DEF evalVars, Before, GroupOK, Done, Stored, Fired
    <2>3. DoneOK <=> DoneOK'
      BY <1>8 DEF evalVars, DoneOK, Done, Fired
    <2>. QED
      BY <1>0, <1>8, <2>1, <2>2, <2>3 DEF evalVars, StateInv
  <1>. QED
    BY <1>0, <1>1, <1>2, <1>3, <1>4, <1>5, <1>6, <1>7, <1>8 DEF EvalNext

(***************************************************************************)
(* Edge groups one after the other are as good as all at once: for every   *)
(* design without a race between the blocks of one call and with clocks    *)
(* that are ports, each register and memory gets the value its block       *)
(* computes from the values before the edge.                               *)
(***************************************************************************)
THEOREM EdgesAreSimultaneous ==
    ASSUME RaceFree, ClocksAreInputs
    PROVE  EvalSpec => []NonBlocking
  <1>1. EdgeRules
    BY DEF EdgeRules
  <1>2. EvalInit => Typed /\ EdgeInv /\ StateInv
    BY TypedInit, StateInit
  <1>3. Typed /\ EdgeInv /\ StateInv /\ [EvalNext]_evalVars => (Typed /\ EdgeInv /\ StateInv)'
    BY <1>1, TypedStep, StateStep
  <1>4. StateInv => NonBlocking
    BY DEF StateInv, NonBlocking
  <1>. QED
    BY <1>2, <1>3, <1>4, PTL DEF EvalSpec
=============================================================================

