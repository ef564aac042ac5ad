---------------------------- MODULE HardwareProofs ----------------------------
(***************************************************************************)
(* The AXI4 subordinates behind their crossbar keep what was written, for  *)
(* every number of subordinates, depth and set of bursts; the pipeline     *)
(* builder's two texts keep the order of the words, for every width; the   *)
(* two ends of an SPI frame have each other's word, for every width; the   *)
(* pipelined processor executes every program; the blocks of ip.py keep    *)
(* their promises for every depth, number of requestors, threshold, number *)
(* of credits and size of the address space.                               *)
(***************************************************************************)
EXTENDS Axi4, Pipelines, Spi, Cpu, IpBench, FiniteSetTheorems, SequenceTheorems,
        WellFoundedInduction, TLAPS

(***************************************************************************)
(* Pipelines.  Both texts are one function of the registers and inputs; it *)
(* follows the words on their way.                                         *)
(***************************************************************************)
IsPipe(p) == p = [regs |-> p.regs, valid |-> p.valid, bank |-> p.bank]

\* The registers p are where the words of fl have come.
Tracks(p, fl) ==
  \A k \in Stages :
    /\ p.valid[k] = 1 <=> k <= Len(fl) /\ fl[k].live
    /\ k <= Len(fl) => p.regs[k] = Behavioral(k, fl[k].word)

PipeInv ==
  /\ ctrl \in {"signal", "expr"}
  /\ flight \in Seq([word : PipeWords, live : BOOLEAN]) /\ Len(flight) <= 3
  /\ IsPipe(sim) /\ Tracks(sim, flight)
  /\ IsPipe(hw) /\ hw.bank = sim.bank
  /\ ctrl = "signal" => Tracks(hw, flight)

PipeInputs == [reset : BOOLEAN, stall : BOOLEAN, flush : BOOLEAN, valid : 0..1, d : PipeWords]

LEMMA StageRange == Stages = {1, 2, 3}
  BY DEF Stages

\* What stays where it is, what comes in, and what falls off at the end.
LEMMA TravelIs ==
    ASSUME NEW i \in PipeInputs, flight \in Seq([word : PipeWords, live : BOOLEAN]),
           Len(flight) <= 3
    PROVE  /\ Travel(i) \in Seq([word : PipeWords, live : BOOLEAN]) /\ Len(Travel(i)) <= 3
           /\ i.reset => Travel(i) = <<>>
           /\ ~i.reset /\ i.stall => Travel(i) = flight
           /\ ~i.reset /\ ~i.stall /\ i.flush =>
                /\ Len(Travel(i)) = Len(flight)
                /\ \A k \in 1 .. Len(flight) :
                     Travel(i)[k] = [word |-> flight[k].word, live |-> FALSE]
           /\ ~i.reset /\ ~i.stall /\ ~i.flush =>
                /\ Len(Travel(i)) = IF Len(flight) = 3 THEN 3 ELSE Len(flight) + 1
                /\ Travel(i)[1] = [word |-> i.d, live |-> i.valid = 1]
                /\ \A k \in 1 .. 2 : k <= Len(flight) => Travel(i)[k + 1] = flight[k]
<1> DEFINE W == [word : PipeWords, live : BOOLEAN]
<1>1. i.d \in PipeWords /\ (i.valid = 1) \in BOOLEAN BY DEF PipeInputs
<1>2. ASSUME NEW k \in 1 .. Len(flight) PROVE flight[k] \in W
  <2>1. flight \in Seq(W) OBVIOUS
  <2>. HIDE DEF W
  <2>. QED BY <2>1
<1>3. CASE i.reset BY <1>3 DEF Travel
<1>4. CASE ~i.reset /\ i.stall BY <1>4 DEF Travel
<1>5. CASE ~i.reset /\ ~i.stall /\ i.flush
  <2>1. Travel(i) = [k \in DOMAIN flight |-> [flight[k] EXCEPT !.live = FALSE]]
    BY <1>5 DEF Travel
  <2>2. DOMAIN flight = 1 .. Len(flight) /\ Len(flight) \in Nat OBVIOUS
  <2>3. ASSUME NEW k \in 1 .. Len(flight)
        PROVE  /\ [flight[k] EXCEPT !.live = FALSE] \in W
               /\ [flight[k] EXCEPT !.live = FALSE] = [word |-> flight[k].word, live |-> FALSE]
    <3> DEFINE f == flight[k]
    <3>1. f \in W BY <1>2
    <3>. HIDE DEF f
    <3>2. [f EXCEPT !.live = FALSE] \in W BY <3>1
    <3> DEFINE g == [f EXCEPT !.live = FALSE]
    <3>3. g \in W /\ g.word = f.word /\ g.live = FALSE BY <3>1
    <3>. HIDE DEF g
    <3>4. g = [word |-> g.word, live |-> g.live] BY <3>3
    <3>. QED BY <3>2, <3>3, <3>4 DEF f, g
  <2>4. /\ Travel(i) \in [1 .. Len(flight) -> W]
        /\ \A k \in 1 .. Len(flight) :
             Travel(i)[k] = [word |-> flight[k].word, live |-> FALSE]
    <3>. HIDE DEF W
    <3>. QED BY <2>1, <2>2, <2>3
  <2>5. Travel(i) \in Seq(W) /\ Len(Travel(i)) = Len(flight)
    <3>. HIDE DEF W
    <3>. QED BY <2>2, <2>4
  <2>. QED BY <1>5, <2>4, <2>5
<1>6. CASE ~i.reset /\ ~i.stall /\ ~i.flush
  <2> DEFINE in == [word |-> i.d, live |-> i.valid = 1]
             longer == <<in>> \o flight
  <2>1. in \in W BY <1>1
  <2>2. Travel(i) = IF Len(longer) > 3 THEN SubSeq(longer, 1, 3) ELSE longer
    BY <1>6 DEF Travel
  <2>. HIDE DEF W, in
  <2>3. <<in>> \in Seq(W) /\ flight \in Seq(W) BY <2>1 DEF W
  <2>4. /\ longer \in Seq(W) /\ Len(longer) = Len(flight) + 1
        /\ longer[1] = in
        /\ \A k \in 1 .. Len(flight) : longer[k + 1] = flight[k]
    BY <2>3
  <2>. HIDE DEF longer
  <2>5. ASSUME Len(flight) = 3
        PROVE  /\ Travel(i) \in Seq(W) /\ Len(Travel(i)) <= 3
               /\ Len(Travel(i)) = IF Len(flight) = 3 THEN 3 ELSE Len(flight) + 1
               /\ Travel(i)[1] = in
               /\ \A k \in 1 .. 2 : k <= Len(flight) => Travel(i)[k + 1] = flight[k]
    <3>1. Travel(i) = SubSeq(longer, 1, 3) BY <2>2, <2>4, <2>5
    <3>2. /\ SubSeq(longer, 1, 3) \in Seq(W) /\ Len(SubSeq(longer, 1, 3)) = 3
          /\ \A k \in 1 .. 3 : SubSeq(longer, 1, 3)[k] = longer[k]
      <4>1. 1 \in 1 .. Len(longer) + 1 /\ 3 \in 0 .. Len(longer) BY <2>4, <2>5
      <4>. QED BY <2>4, <4>1, SubSeqProperties
    <3>3. /\ Travel(i) \in Seq(W) /\ Len(Travel(i)) = 3 /\ Travel(i)[1] = in
          /\ \A k \in 1 .. 2 : k <= Len(flight) => Travel(i)[k + 1] = flight[k]
      BY <2>4, <2>5, <3>1, <3>2
    <3>. QED BY <2>5, <3>3
  <2>6. ASSUME Len(flight) # 3
        PROVE  /\ Travel(i) \in Seq(W) /\ Len(Travel(i)) <= 3
               /\ Len(Travel(i)) = IF Len(flight) = 3 THEN 3 ELSE Len(flight) + 1
               /\ Travel(i)[1] = in
               /\ \A k \in 1 .. 2 : k <= Len(flight) => Travel(i)[k + 1] = flight[k]
    <3>1. Len(flight) \in Nat BY <2>3
    <3>2. Travel(i) = longer BY <2>2, <2>4, <2>6, <3>1
    <3>3. Len(longer) <= 3
      <4> DEFINE n == Len(flight)
      <4>1. Len(longer) = n + 1 /\ n \in Nat /\ n # 3 /\ n <= 3 BY <2>4, <2>6, <3>1
      <4>. HIDE DEF n
      <4>. QED BY <4>1
    <3>. QED BY <2>4, <2>6, <3>1, <3>2, <3>3
  <2>7. /\ Travel(i) \in Seq(W) /\ Len(Travel(i)) <= 3
        /\ Len(Travel(i)) = IF Len(flight) = 3 THEN 3 ELSE Len(flight) + 1
        /\ Travel(i)[1] = in
        /\ \A k \in 1 .. 2 : k <= Len(flight) => Travel(i)[k + 1] = flight[k]
    BY <2>5, <2>6
  <2>. QED BY <1>6, <2>7 DEF W, in
<1>7. i.reset \in BOOLEAN /\ i.stall \in BOOLEAN /\ i.flush \in BOOLEAN BY DEF PipeInputs
<1>. QED BY <1>3, <1>4, <1>5, <1>6, <1>7

\* One edge keeps the registers and the words together.
LEMMA AdvanceTracks ==
    ASSUME NEW p, IsPipe(p), NEW i \in PipeInputs, Tracks(p, flight),
           flight \in Seq([word : PipeWords, live : BOOLEAN]), Len(flight) <= 3
    PROVE  Tracks(PipeAdvance(p, i), Travel(i))
<1> DEFINE q == PipeAdvance(p, i)
           t == Travel(i)
<1>1. Len(flight) \in Nat OBVIOUS
<1>2. i.reset \in BOOLEAN /\ i.stall \in BOOLEAN /\ i.flush \in BOOLEAN /\ i.valid \in 0..1
  BY DEF PipeInputs
<1>3. CASE i.reset
  <2>1. q = [p EXCEPT !.regs = ZeroRegs, !.valid = NoneValid] BY <1>3 DEF PipeAdvance
  <2>2. q.valid = NoneValid BY <2>1 DEF IsPipe
  <2>3. t = <<>> BY <1>3, TravelIs
  <2>. HIDE DEF q, t
  <2>. QED BY <2>2, <2>3, StageRange DEF Tracks, NoneValid, q, t
<1>4. CASE ~i.reset /\ i.stall
  <2>1. q = p BY <1>4 DEF PipeAdvance
  <2>2. t = flight BY <1>4, TravelIs
  <2>. QED BY <2>1, <2>2
<1>5. CASE ~i.reset /\ ~i.stall /\ i.flush
  <2>1. q = [p EXCEPT !.valid = NoneValid] BY <1>5 DEF PipeAdvance
  <2>2. q.valid = NoneValid /\ q.regs = p.regs BY <2>1 DEF IsPipe
  <2>3. /\ Len(t) = Len(flight)
        /\ \A k \in 1 .. Len(flight) : t[k] = [word |-> flight[k].word, live |-> FALSE]
    BY <1>5, TravelIs
  <2>. HIDE DEF q, t
  <2>4. ASSUME NEW k \in Stages
        PROVE  /\ q.valid[k] = 1 <=> k <= Len(t) /\ t[k].live
               /\ k <= Len(t) => q.regs[k] = Behavioral(k, t[k].word)
    <3>1. q.valid[k] = 0 BY <2>2 DEF NoneValid
    <3>2. k <= Len(t) => t[k].word = flight[k].word /\ t[k].live = FALSE
      <4>1. ASSUME k <= Len(t) PROVE t[k] = [word |-> flight[k].word, live |-> FALSE]
        <5>1. k \in 1 .. Len(flight) BY <1>1, <2>3, <4>1, StageRange
        <5>. QED BY <2>3, <5>1
      <4>. QED BY <4>1
    <3>3. k <= Len(flight) => p.regs[k] = Behavioral(k, flight[k].word) BY DEF Tracks
    <3>. QED BY <2>2, <2>3, <3>1, <3>2, <3>3
  <2>. QED BY <2>4 DEF Tracks, q, t
<1>6. CASE ~i.reset /\ ~i.stall /\ ~i.flush
  <2>1. q = [p EXCEPT !.regs = Shifted(p.regs, i.d), !.valid = ValidShifted(p.valid, i.valid)]
    BY <1>6 DEF PipeAdvance
  <2>2. q.regs = Shifted(p.regs, i.d) /\ q.valid = ValidShifted(p.valid, i.valid)
    BY <2>1 DEF IsPipe
  <2>3. /\ Len(t) = IF Len(flight) = 3 THEN 3 ELSE Len(flight) + 1
        /\ t[1] = [word |-> i.d, live |-> i.valid = 1]
        /\ \A k \in 1 .. 2 : k <= Len(flight) => t[k + 1] = flight[k]
    BY <1>6, TravelIs
  <2>. HIDE DEF q, t
  <2>4. /\ q.valid[1] = 1 <=> 1 <= Len(t) /\ t[1].live
        /\ q.regs[1] = Behavioral(1, t[1].word)
    <3>1. q.valid[1] = i.valid BY <2>2, StageRange DEF ValidShifted
    <3>2. q.regs[1] = StageFn(1, <<>>, i.d) BY <2>2, StageRange DEF Shifted
    <3>3. t[1].word = i.d /\ (t[1].live <=> i.valid = 1)
      <4> DEFINE b == i.valid = 1
      <4>1. t[1] = [word |-> i.d, live |-> b] BY <2>3
      <4>. HIDE DEF b
      <4>2. t[1].word = i.d /\ t[1].live = b BY <4>1
      <4>. QED BY <4>2 DEF b
    <3>4. 1 <= Len(t) BY <1>1, <2>3
    <3>. QED BY <3>1, <3>2, <3>3, <3>4 DEF Behavioral
  <2>5. /\ q.valid[2] = 1 <=> 2 <= Len(t) /\ t[2].live
        /\ 2 <= Len(t) => q.regs[2] = Behavioral(2, t[2].word)
    <3>1. q.valid[2] = p.valid[1] BY <2>2, StageRange DEF ValidShifted
    <3>2. q.regs[2] = StageFn(2, p.regs[1], i.d) BY <2>2, StageRange DEF Shifted
    <3>3. 2 <= Len(t) <=> 1 <= Len(flight) BY <1>1, <2>3
    <3>4. 1 <= Len(flight) => t[2] = flight[1]
      <4>1. 1 \in 1 .. 2 /\ 1 + 1 = 2 OBVIOUS
      <4>. QED BY <2>3, <4>1
    <3>5. /\ p.valid[1] = 1 <=> 1 <= Len(flight) /\ flight[1].live
          /\ 1 <= Len(flight) => p.regs[1] = StageFn(1, <<>>, flight[1].word)
      BY StageRange DEF Tracks, Behavioral
    <3>. QED BY <3>1, <3>2, <3>3, <3>4, <3>5 DEF Behavioral, StageFn
  <2>6. /\ q.valid[3] = 1 <=> 3 <= Len(t) /\ t[3].live
        /\ 3 <= Len(t) => q.regs[3] = Behavioral(3, t[3].word)
    <3>1. q.valid[3] = p.valid[2] BY <2>2, StageRange DEF ValidShifted
    <3>2. q.regs[3] = StageFn(3, p.regs[2], i.d) BY <2>2, StageRange DEF Shifted
    <3>3. 3 <= Len(t) <=> 2 <= Len(flight) BY <1>1, <2>3
    <3>4. 2 <= Len(flight) => t[3] = flight[2]
      <4>1. 2 \in 1 .. 2 /\ 2 + 1 = 3 OBVIOUS
      <4>. QED BY <2>3, <4>1
    <3>5. /\ p.valid[2] = 1 <=> 2 <= Len(flight) /\ flight[2].live
          /\ 2 <= Len(flight) =>
               p.regs[2] = StageFn(2, StageFn(1, <<>>, flight[2].word), flight[2].word)
      BY StageRange DEF Tracks, Behavioral
    <3>. QED BY <3>1, <3>2, <3>3, <3>4, <3>5 DEF Behavioral, StageFn
  <2>. QED BY <2>4, <2>5, <2>6, StageRange DEF Tracks, q, t
<1>. QED BY <1>2, <1>3, <1>4, <1>5, <1>6

\* The bank is set by the named stage only, and the two texts agree on it.
LEMMA BanksAgree ==
    ASSUME NEW p, IsPipe(p), NEW i \in PipeInputs
    PROVE  /\ IsPipe(PipeAdvance(p, i)) /\ PipeAdvance(p, i).bank = p.bank
           /\ IsPipe(NamedAdvance(p, i)) /\ NamedEmitted(p, i) = NamedAdvance(p, i)
           /\ NamedAdvance(p, i).regs = p.regs /\ NamedAdvance(p, i).valid = p.valid
           /\ NamedAdvance(p, i).bank = IF i.reset THEN 0 ELSE IF i.stall THEN p.bank
                                        ELSE IF i.flush THEN 0 ELSE Masked(i.d)
<1>1. i.reset \in BOOLEAN /\ i.stall \in BOOLEAN /\ i.flush \in BOOLEAN BY DEF PipeInputs
<1>2. CASE i.reset
  BY <1>2 DEF PipeAdvance, NamedAdvance, NamedEmitted, IsPipe
<1>3. CASE ~i.reset /\ i.stall
  BY <1>3 DEF PipeAdvance, NamedAdvance, NamedEmitted, IsPipe
<1>4. CASE ~i.reset /\ ~i.stall /\ i.flush
  BY <1>4 DEF PipeAdvance, NamedAdvance, NamedEmitted, IsPipe
<1>5. CASE ~i.reset /\ ~i.stall /\ ~i.flush
  BY <1>5 DEF PipeAdvance, NamedAdvance, NamedEmitted, IsPipe
<1>. QED BY <1>1, <1>2, <1>3, <1>4, <1>5

(* Whatever the width: both texts of a pipeline carry every word, in its    *)
(* order, through all stages, through stalls, flushes and resets (the       *)
(* emitted one where its controls are signals).                             *)
THEOREM PipelinesKeepOrder == PipeSpec => []PipelineKeepsOrder
<1>1. PipeInit => PipeInv
  <2> SUFFICES ASSUME PipeInit PROVE PipeInv OBVIOUS
  <2>1. sim = EmptyPipe /\ hw = EmptyPipe /\ flight = <<>> /\ ctrl \in {"signal", "expr"}
    BY DEF PipeInit
  <2>2. flight \in Seq([word : PipeWords, live : BOOLEAN]) /\ Len(flight) = 0 BY <2>1
  <2>3. IsPipe(EmptyPipe) BY DEF EmptyPipe, IsPipe
  <2>4. Tracks(EmptyPipe, flight) BY <2>2, StageRange DEF Tracks, EmptyPipe, NoneValid
  <2>. QED BY <2>1, <2>2, <2>3, <2>4 DEF PipeInv
<1>2. PipeInv /\ [PipeNext]_pipeVars => PipeInv'
  <2> SUFFICES ASSUME PipeInv, [PipeNext]_pipeVars PROVE PipeInv' OBVIOUS
  <2>1. CASE UNCHANGED pipeVars BY <2>1 DEF PipeInv, pipeVars
  <2>2. CASE PipeNext
    <3>1. PICK reset \in BOOLEAN, stall \in BOOLEAN, flush \in BOOLEAN, valid \in 0..1,
               d \in PipeWords : PipeEdge(reset, stall, flush, valid, d)
      BY <2>2 DEF PipeNext
    <3> DEFINE i == [reset |-> reset, stall |-> stall, flush |-> flush, valid |-> valid, d |-> d]
               j == IF ctrl = "signal" THEN i
                    ELSE [i EXCEPT !.stall = FALSE, !.flush = FALSE, !.valid = 1]
    <3>2. i \in PipeInputs /\ j \in PipeInputs /\ (ctrl = "signal" => j = i)
      <4>1. i \in PipeInputs BY DEF PipeInputs
      <4>2. [i EXCEPT !.stall = FALSE, !.flush = FALSE, !.valid = 1] \in PipeInputs
        <5> DEFINE a == [i EXCEPT !.stall = FALSE]
                   b == [a EXCEPT !.flush = FALSE]
                   c == [b EXCEPT !.valid = 1]
        <5>1. i \in [reset : BOOLEAN, stall : BOOLEAN, flush : BOOLEAN, valid : 0..1,
                      d : PipeWords]
          BY <4>1 DEF PipeInputs
        <5>. HIDE DEF i
        <5>2. a \in [reset : BOOLEAN, stall : BOOLEAN, flush : BOOLEAN, valid : 0..1,
                      d : PipeWords]
          BY <5>1
        <5>. HIDE DEF a
        <5>3. b \in [reset : BOOLEAN, stall : BOOLEAN, flush : BOOLEAN, valid : 0..1,
                      d : PipeWords]
          BY <5>2
        <5>. HIDE DEF b
        <5>4. c \in PipeInputs BY <5>3 DEF PipeInputs
        <5>. QED BY <5>4 DEF a, b
      <4>. QED BY <4>1, <4>2
    <3>3. /\ sim' = NamedAdvance(PipeAdvance(sim, i), i)
          /\ hw' = NamedEmitted(PipeAdvance(hw, j), i)
          /\ flight' = Travel(i) /\ ctrl' = ctrl
      BY <3>1 DEF PipeEdge, EmittedAdvance
    <3>. HIDE DEF i, j
    <3>4. /\ ctrl \in {"signal", "expr"}
          /\ flight \in Seq([word : PipeWords, live : BOOLEAN]) /\ Len(flight) <= 3
          /\ IsPipe(sim) /\ IsPipe(hw) /\ hw.bank = sim.bank
          /\ Tracks(sim, flight) /\ (ctrl = "signal" => Tracks(hw, flight))
      BY DEF PipeInv
    <3>5. flight' \in Seq([word : PipeWords, live : BOOLEAN]) /\ Len(flight') <= 3
      BY <3>2, <3>3, <3>4, TravelIs
    <3> DEFINE p == PipeAdvance(sim, i)
               q == PipeAdvance(hw, j)
    <3>6. IsPipe(p) /\ IsPipe(q) /\ p.bank = sim.bank /\ q.bank = hw.bank
      BY <3>2, <3>4, BanksAgree
    <3>7. Tracks(p, flight') /\ (ctrl = "signal" => Tracks(q, flight'))
      BY <3>2, <3>3, <3>4, AdvanceTracks
    <3>. HIDE DEF p, q
    <3>8. sim' = NamedAdvance(p, i) /\ hw' = NamedAdvance(q, i)
      BY <3>2, <3>3, <3>6, BanksAgree DEF p, q
    <3>9. /\ IsPipe(sim') /\ sim'.regs = p.regs /\ sim'.valid = p.valid
          /\ IsPipe(hw') /\ hw'.regs = q.regs /\ hw'.valid = q.valid
          /\ hw'.bank = sim'.bank
      <4>1. /\ IsPipe(sim') /\ sim'.regs = p.regs /\ sim'.valid = p.valid
            /\ sim'.bank = IF i.reset THEN 0 ELSE IF i.stall THEN p.bank
                           ELSE IF i.flush THEN 0 ELSE Masked(i.d)
        BY <3>2, <3>6, <3>8, BanksAgree
      <4>2. /\ IsPipe(hw') /\ hw'.regs = q.regs /\ hw'.valid = q.valid
            /\ hw'.bank = IF i.reset THEN 0 ELSE IF i.stall THEN q.bank
                          ELSE IF i.flush THEN 0 ELSE Masked(i.d)
        BY <3>2, <3>6, <3>8, BanksAgree
      <4>. QED BY <3>4, <3>6, <4>1, <4>2
    <3>10. Tracks(sim', flight') /\ (ctrl = "signal" => Tracks(hw', flight'))
      BY <3>7, <3>9 DEF Tracks
    <3>. QED BY <3>3, <3>4, <3>5, <3>9, <3>10 DEF PipeInv
  <2>. QED BY <2>1, <2>2
<1>3. PipeInv => PipelineKeepsOrder BY DEF PipeInv, PipelineKeepsOrder, Tracks
<1>. QED BY <1>1, <1>2, <1>3, PTL DEF PipeSpec

(***************************************************************************)
(* AXI4: subordinates behind a crossbar.                                   *)
(***************************************************************************)
LEMMA Sizes ==
    /\ Subs \in Nat \ {0} /\ Depth \in Nat \ {0} /\ ~(Nothing \in SubIds)
    /\ \A b \in Bursts : /\ b.len \in 0..255 /\ b.addr \in AddressSpace
                         /\ b.addr \div Depth = (b.addr + b.len) \div Depth
  BY AxiAssumption DEF SubIds, AddressSpace

\* Division with a rest.
LEMMA DivMod ==
    ASSUME NEW n \in Nat \ {0}, NEW x \in Nat
    PROVE  /\ x \div n \in Nat /\ x % n \in 0 .. n - 1
           /\ x = n * (x \div n) + (x % n)
<1> DEFINE d == x \div n
<1>1. n * d <= x /\ x < n * d + n OBVIOUS
<1>2. d \in Int OBVIOUS
<1>3. x = n * (x \div n) + (x % n) OBVIOUS
<1>4. x % n \in 0 .. n - 1 OBVIOUS
<1>. HIDE DEF d
<1>5. ASSUME d < 0 PROVE FALSE
  <2>1. n * (d + 1) <= 0 BY <1>2, <1>5
  <2>2. n * (d + 1) = n * d + n BY <1>2
  <2>. QED BY <1>1, <1>2, <2>1, <2>2
<1>6. d \in Nat BY <1>2, <1>5
<1>. QED BY <1>3, <1>4, <1>6 DEF d

\* Between two numbers of one quotient there is no other quotient, and a
\* number below n * m has a quotient below m.
LEMMA DivBetween ==
    ASSUME NEW n \in Nat \ {0}, NEW x \in Nat, NEW y \in Nat, NEW z \in Nat, x <= y, y <= z,
           x \div n = z \div n
    PROVE  y \div n = x \div n
<1> DEFINE q == x \div n
           p == y \div n
<1>1. /\ q \in Nat /\ n * q <= x /\ z < n * q + n
      /\ p \in Nat /\ n * p <= y /\ y < n * p + n
  <2>1. ASSUME NEW a \in Nat
        PROVE  a \div n \in Nat /\ n * (a \div n) <= a /\ a < n * (a \div n) + n
    <3>1. a \div n \in Nat /\ a % n \in 0 .. n - 1 /\ a = n * (a \div n) + (a % n) BY DivMod
    <3> DEFINE d == a \div n
               e == a % n
    <3>2. d \in Nat /\ e \in 0 .. n - 1 /\ a = n * d + e BY <3>1
    <3>. HIDE DEF d, e
    <3>3. n * d \in Nat BY <3>2
    <3>4. n * d <= a /\ a < n * d + n BY <3>2, <3>3
    <3>. QED BY <3>2, <3>4 DEF d
  <2>2. z < n * (z \div n) + n BY <2>1
  <2>3. z < n * q + n BY <2>2
  <2>. QED BY <2>1, <2>3
<1>. HIDE DEF p, q
<1>2. CASE p < q
  <2>1. n * (p + 1) <= n * q BY <1>1, <1>2
  <2>2. n * (p + 1) = n * p + n BY <1>1
  <2>. QED BY <1>1, <2>1, <2>2
<1>3. CASE q < p
  <2>1. n * (q + 1) <= n * p BY <1>1, <1>3
  <2>2. n * (q + 1) = n * q + n BY <1>1
  <2>. QED BY <1>1, <2>1, <2>2
<1>4. CASE p = q BY <1>4 DEF p, q
<1>. QED BY <1>1, <1>2, <1>3, <1>4

LEMMA DivBelow ==
    ASSUME NEW n \in Nat \ {0}, NEW m \in Nat, NEW x \in Nat, x < m * n
    PROVE  x \div n < m
<1> DEFINE q == x \div n
<1>1. q \in Nat /\ n * q <= x BY DivMod
<1>. HIDE DEF q
<1>2. CASE q < m BY <1>2 DEF q
<1>3. CASE m <= q
  <2>1. n * m <= n * q BY <1>1, <1>3
  <2>2. n * m = m * n OBVIOUS
  <2>3. m * n \in Nat /\ n * q \in Nat BY <1>1
  <2>. QED BY <1>1, <2>1, <2>2, <2>3
<1>. QED BY <1>1, <1>2, <1>3

-----------------------------------------------------------------------------
Ids == {b.id : b \in Bursts} \cup {Nothing}

Managers == [phase : {"IDLE", "ADDR", "DATA", "RESP"}, addr : Nat, len : Nat, id : Ids,
             beat : Nat]

Subordinates ==
  [wstate : {"IDLE", "WDATA", "WRESP"}, waddr : Nat, wid : Ids,
   rstate : {"IDLE", "RDATA"}, raddr : Nat, rid : Ids, rlen : Nat, rbeat : Nat,
   mem : [0 .. Depth - 1 -> Values]]

\* The subordinate that has the addresses of a burst.
Home(m) == m.addr \div Depth

InBurst(m) ==
  /\ m.addr \in AddressSpace /\ m.beat <= m.len
  /\ (m.addr + m.len) \div Depth = Home(m)
  /\ direct => m.addr < Depth

ManagerOk(m) ==
  /\ m \in Managers
  /\ m.phase # "IDLE" => InBurst(m)
  /\ m.phase = "ADDR" => m.beat = 0

\* The subordinate of a write burst is where the manager is, all others rest.
WriteSide(m, s) ==
  \A k \in SubIds :
    IF m.phase \in {"DATA", "RESP"} /\ k = Home(m)
    THEN /\ s[k].wid = m.id
         /\ m.phase = "DATA" => s[k].wstate = "WDATA" /\ s[k].waddr = m.addr + m.beat
         /\ m.phase = "RESP" => s[k].wstate = "WRESP"
    ELSE s[k].wstate = "IDLE"

ReadSide(m, s) ==
  \A k \in SubIds :
    IF m.phase = "DATA" /\ k = Home(m)
    THEN /\ s[k].rid = m.id /\ s[k].rstate = "RDATA" /\ s[k].raddr = m.addr + m.beat
         /\ s[k].rlen = m.len /\ s[k].rbeat = m.beat
    ELSE s[k].rstate = "IDLE"

MemoryIs(s, f) ==
  \A k \in SubIds : \A a \in 0 .. Depth - 1 : s[k].mem[a] = f[k * Depth + a]

AxiInv ==
  /\ direct \in BOOLEAN
  /\ sub \in [SubIds -> Subordinates]
  /\ ref \in [AddressSpace -> Values]
  /\ ManagerOk(wm) /\ ManagerOk(rm) /\ rm.phase # "RESP"
  /\ WriteSide(wm, sub) /\ ReadSide(rm, sub)
  /\ MemoryIs(sub, ref)

\* Every beat of a burst is a word of its subordinate.
LEMMA BeatsAtHome ==
    ASSUME NEW m \in Managers, InBurst(m), direct \in BOOLEAN, NEW n \in 0 .. m.len
    PROVE  /\ Home(m) \in SubIds /\ Selected(m.addr) = Home(m)
           /\ m.addr + n \in AddressSpace
           /\ (m.addr + n) % Depth \in 0 .. Depth - 1
           /\ m.addr + n = Home(m) * Depth + ((m.addr + n) % Depth)
<1>1. /\ m.addr \in Nat /\ m.len \in Nat /\ n \in Nat /\ n <= m.len /\ m.addr + n \in Nat
      /\ m.addr + m.len \in Nat
  BY DEF Managers
<1>2. Subs \in Nat \ {0} /\ Depth \in Nat \ {0} BY Sizes
<1>3. Subs * Depth \in Nat /\ m.addr < Subs * Depth BY <1>1, <1>2 DEF InBurst, AddressSpace
<1>4. m.addr \div Depth < Subs /\ m.addr \div Depth \in Nat BY <1>1, <1>2, <1>3, DivBelow, DivMod
<1>5. Home(m) \in SubIds BY <1>2, <1>4 DEF Home, SubIds
<1>6. (m.addr + n) \div Depth = m.addr \div Depth
  <2> DEFINE y == m.addr + n
             z == m.addr + m.len
  <2>1. m.addr \div Depth = z \div Depth BY DEF InBurst, Home
  <2>2. m.addr <= y /\ y <= z /\ y \in Nat /\ z \in Nat BY <1>1
  <2>. HIDE DEF y, z
  <2>3. y \div Depth = m.addr \div Depth BY <1>1, <1>2, <2>1, <2>2, DivBetween
  <2>. QED BY <2>3 DEF y
<1>7. (m.addr + n) % Depth \in 0 .. Depth - 1
      /\ m.addr + n = Depth * ((m.addr + n) \div Depth) + ((m.addr + n) % Depth)
  <2> DEFINE y == m.addr + n
  <2>1. y \in Nat BY <1>1
  <2>. HIDE DEF y
  <2>2. y % Depth \in 0 .. Depth - 1 /\ y = Depth * (y \div Depth) + (y % Depth)
    BY <1>2, <2>1, DivMod
  <2>. QED BY <2>2 DEF y
<1> DEFINE q == m.addr \div Depth
           e == (m.addr + n) % Depth
<1>8. m.addr + n = q * Depth + e /\ q \in Nat /\ e \in 0 .. Depth - 1 /\ q < Subs
  <2>1. q \in Nat /\ e \in Nat BY <1>2, <1>4, <1>7
  <2>2. m.addr + n = Depth * q + e BY <1>6, <1>7
  <2>. HIDE DEF q, e
  <2>3. Depth * q = q * Depth BY <1>2, <2>1
  <2>. QED BY <1>4, <1>7, <2>1, <2>2, <2>3 DEF q, e
<1>9. m.addr + n \in AddressSpace
  <2>. HIDE DEF q, e
  <2>1. (q + 1) * Depth <= Subs * Depth BY <1>2, <1>8
  <2>2. (q + 1) * Depth = q * Depth + Depth /\ q * Depth \in Nat BY <1>2, <1>8
  <2>. QED BY <1>1, <1>2, <1>3, <1>8, <2>1, <2>2 DEF AddressSpace
<1>10. Selected(m.addr) = Home(m)
  <2>1. CASE direct
    <3>1. m.addr < 1 * Depth BY <1>1, <1>2, <2>1 DEF InBurst
    <3>2. m.addr \div Depth < 1 BY <1>1, <1>2, <3>1, DivBelow
    <3>3. m.addr \div Depth = 0 BY <1>4, <3>2
    <3>. QED BY <2>1, <3>3 DEF Selected, Home
  <2>2. CASE ~direct BY <2>2 DEF Selected, Home, InBurst
  <2>. QED BY <2>1, <2>2
<1>. QED BY <1>5, <1>7, <1>8, <1>9, <1>10 DEF Home

\* A manager that does not wander where it would be misled is led home.
LEMMA LedHome ==
    ASSUME Wanders # "always", direct \in BOOLEAN, NEW m, ManagerOk(m), m.phase # "IDLE",
           NEW a \in OnBus(m)
    PROVE  /\ Selected(a) = Home(m) /\ Home(m) \in SubIds /\ Home(m) # Nothing
           /\ m.phase = "ADDR" => a = m.addr
<1>1. m \in Managers /\ InBurst(m) /\ 0 \in 0 .. m.len BY DEF ManagerOk, Managers
<1>2. Home(m) \in SubIds /\ Selected(m.addr) = Home(m) BY <1>1, BeatsAtHome
<1>3. a = m.addr \/ (m.phase # "ADDR" /\ direct) BY DEF OnBus
<1>4. direct => Selected(a) = Selected(m.addr) BY DEF Selected
<1>. QED BY <1>2, <1>3, <1>4, Sizes

LEMMA OffersOk ==
    ASSUME NEW m, ManagerOk(m), NEW o \in Offers(m), direct \in BOOLEAN
    PROVE  /\ ManagerOk(o)
           /\ o = m \/ (m.phase = "IDLE" /\ o.phase = "ADDR")
<1>1. CASE o = m BY <1>1
<1>2. CASE o # m
  <2>1. PICK b \in Bursts :
          /\ direct => b.addr < Depth
          /\ m.phase = "IDLE"
          /\ o = [phase |-> "ADDR", addr |-> b.addr, len |-> b.len, id |-> b.id, beat |-> 0]
    BY <1>2 DEF Offers
  <2>2. b.addr \in AddressSpace /\ b.addr \in Nat /\ b.len \in Nat /\ b.id \in Ids
        /\ b.addr \div Depth = (b.addr + b.len) \div Depth
    <3>1. b.len \in 0..255 /\ b.addr \in AddressSpace
          /\ b.addr \div Depth = (b.addr + b.len) \div Depth
      BY Sizes
    <3>2. b.addr \in Nat BY <3>1, Sizes DEF AddressSpace
    <3>. QED BY <3>1, <3>2 DEF Ids
  <2>3. o \in Managers BY <2>1, <2>2 DEF Managers
  <2>4. /\ o.phase = "ADDR" /\ o.addr = b.addr /\ o.len = b.len /\ o.beat = 0 BY <2>1
  <2>5. InBurst(o) BY <2>1, <2>2, <2>4 DEF InBurst, Home
  <2>. QED BY <2>1, <2>3, <2>4, <2>5 DEF ManagerOk
<1>. QED BY <1>1, <1>2

\* Every word of a subordinate has an address.
LEMMA WordsAreAddressed ==
    ASSUME NEW k \in SubIds, NEW a \in 0 .. Depth - 1
    PROVE  k * Depth + a \in AddressSpace
<1>1. k \in Nat /\ k + 1 <= Subs /\ a \in Nat /\ a < Depth /\ Depth \in Nat /\ Subs \in Nat
  BY Sizes DEF SubIds
<1>2. (k + 1) * Depth <= Subs * Depth /\ (k + 1) * Depth = k * Depth + Depth
      /\ k * Depth \in Nat
  BY <1>1
<1>. QED BY <1>1, <1>2 DEF AddressSpace

-----------------------------------------------------------------------------
(* The write channels of one edge.                                         *)

AfterWrite(w, aw, wv, br, v) ==
  [k \in SubIds |-> IF k = Selected(aw) THEN WriteFsm(sub[k], WriteInputs(w, aw, wv, br, v))
                    ELSE sub[k]]

LEMMA WriteFsmAddress ==
    ASSUME NEW s \in Subordinates, NEW i, i.awaddr \in Nat, i.awid \in Ids,
           s.wstate = "IDLE", i.awvalid
    PROVE  /\ WriteFsm(s, i) \in Subordinates /\ WriteFsm(s, i).mem = s.mem
           /\ WriteFsm(s, i).wstate = "WDATA" /\ WriteFsm(s, i).waddr = i.awaddr
           /\ WriteFsm(s, i).wid = i.awid
<1>1. WriteFsm(s, i) = [s EXCEPT !.waddr = i.awaddr, !.wid = i.awid, !.wstate = "WDATA"]
  BY DEF WriteFsm
<1>. QED BY <1>1 DEF Subordinates

LEMMA WriteFsmData ==
    ASSUME NEW s \in Subordinates, NEW i, i.wdata \in Values, s.wstate = "WDATA", i.wvalid
    PROVE  /\ WriteFsm(s, i) \in Subordinates
           /\ WriteFsm(s, i).mem = [s.mem EXCEPT ![s.waddr % Depth] = i.wdata]
           /\ WriteFsm(s, i).waddr = s.waddr + 1 /\ WriteFsm(s, i).wid = s.wid
           /\ i.wlast => WriteFsm(s, i).wstate = "WRESP"
           /\ ~i.wlast => WriteFsm(s, i).wstate = "WDATA"
<1> DEFINE mem == [s.mem EXCEPT ![s.waddr % Depth] = i.wdata]
<1>1. WriteFsm(s, i) = [s EXCEPT !.mem = mem, !.waddr = @ + 1,
                                 !.wstate = IF i.wlast THEN "WRESP" ELSE "WDATA"]
  BY DEF WriteFsm
<1>2. s.mem \in [0 .. Depth - 1 -> Values] /\ s.waddr \in Nat BY DEF Subordinates
<1>3. mem \in [0 .. Depth - 1 -> Values] BY <1>2
<1>. HIDE DEF mem
<1>4. s.waddr + 1 \in Nat BY <1>2
<1>. QED BY <1>1, <1>3, <1>4 DEF Subordinates, mem

LEMMA WriteFsmResponse ==
    ASSUME NEW s \in Subordinates, NEW i, s.wstate = "WRESP", i.bready
    PROVE  /\ WriteFsm(s, i) \in Subordinates /\ WriteFsm(s, i).mem = s.mem
           /\ WriteFsm(s, i).wstate = "IDLE"
<1>1. WriteFsm(s, i) = [s EXCEPT !.wstate = "IDLE"] BY DEF WriteFsm
<1>. QED BY <1>1 DEF Subordinates

LEMMA WriteFsmRests ==
    ASSUME NEW s, NEW i, ~i.awvalid, ~i.wvalid, ~i.bready
    PROVE  WriteFsm(s, i) = s
  BY DEF WriteFsm

LEMMA WriteStep ==
    ASSUME Wanders # "always", direct \in BOOLEAN, sub \in [SubIds -> Subordinates],
           ref \in [AddressSpace -> Values], MemoryIs(sub, ref),
           NEW w, ManagerOk(w), WriteSide(w, sub), NEW aw \in OnBus(w),
           NEW wv \in BOOLEAN, NEW br \in BOOLEAN, NEW v \in Values
    PROVE  /\ AfterWrite(w, aw, wv, br, v) \in [SubIds -> Subordinates]
           /\ ManagerOk(NextWm(w, aw, wv, br))
           /\ WriteSide(NextWm(w, aw, wv, br), AfterWrite(w, aw, wv, br, v))
           /\ NextRef(w, aw, wv, v) \in [AddressSpace -> Values]
           /\ MemoryIs(AfterWrite(w, aw, wv, br, v), NextRef(w, aw, wv, v))
<1> DEFINE i == WriteInputs(w, aw, wv, br, v)
           s2 == AfterWrite(w, aw, wv, br, v)
           w2 == NextWm(w, aw, wv, br)
           f2 == NextRef(w, aw, wv, v)
           h == Home(w)
<1>1. /\ i.awvalid <=> w.phase = "ADDR"
      /\ i.wvalid <=> w.phase = "DATA" /\ wv
      /\ i.bready <=> w.phase = "RESP" /\ br
      /\ i.wlast <=> w.beat = w.len
      /\ i.wdata = v /\ i.awaddr = aw /\ i.awid = w.id
  BY DEF WriteInputs
<1>2. w \in Managers /\ w.phase \in {"IDLE", "ADDR", "DATA", "RESP"} /\ w.id \in Ids
      /\ w.addr \in Nat /\ w.len \in Nat /\ w.beat \in Nat
  BY DEF ManagerOk, Managers
<1>3. aw \in Nat
  <2>1. Depth \in Nat \ {0} /\ Subs * Depth \in Nat \ {0} BY Sizes
  <2>2. (w.addr + Depth) % (Subs * Depth) \in Nat
    <3> DEFINE x == w.addr + Depth
               n == Subs * Depth
    <3>1. x \in Nat /\ n \in Nat \ {0} BY <1>2, <2>1
    <3>. HIDE DEF x, n
    <3>2. x % n \in 0 .. n - 1 BY <3>1, DivMod
    <3>3. x % n \in Nat BY <3>1, <3>2
    <3>. QED BY <3>3 DEF x, n
  <2>. QED BY <1>2, <2>2 DEF OnBus
<1>15. s2 = [k \in SubIds |-> IF k = Selected(aw) THEN WriteFsm(sub[k], i) ELSE sub[k]]
  BY DEF AfterWrite
<1>4. i.wdata \in Values /\ i.awaddr \in Nat /\ i.awid \in Ids
  <2>. HIDE DEF i
  <2>. QED BY <1>1, <1>2, <1>3
<1>. HIDE DEF i, s2, w2, f2, h
<1>5. w.phase # "IDLE" => /\ Selected(aw) = h /\ h \in SubIds /\ h # Nothing
                          /\ w.phase = "ADDR" => aw = w.addr
  BY LedHome DEF h
<1>6. ASSUME NEW k \in SubIds
      PROVE  /\ k # Selected(aw) => s2[k] = sub[k]
             /\ k = Selected(aw) => s2[k] = WriteFsm(sub[k], i)
             /\ sub[k] \in Subordinates
  BY <1>15
<1>7. ASSUME \A k \in SubIds : s2[k] = sub[k], w2 = w, f2 = ref
      PROVE  /\ s2 \in [SubIds -> Subordinates] /\ ManagerOk(w2) /\ WriteSide(w2, s2)
             /\ f2 \in [AddressSpace -> Values] /\ MemoryIs(s2, f2)
  <2>1. s2 = sub BY <1>15, <1>7
  <2>. QED BY <1>7, <2>1
<1>8. ASSUME ~(w.phase = "ADDR"), ~(w.phase = "DATA" /\ wv), ~(w.phase = "RESP" /\ br)
      PROVE  \A k \in SubIds : s2[k] = sub[k]
  <2>1. ~i.awvalid /\ ~i.wvalid /\ ~i.bready BY <1>1, <1>8
  <2>2. ASSUME NEW k \in SubIds PROVE WriteFsm(sub[k], i) = sub[k]
    BY <2>1, WriteFsmRests
  <2>. QED BY <1>6, <2>2
<1>9. CASE w.phase = "IDLE"
  <2>1. w2 = w /\ f2 = ref BY <1>9 DEF w2, f2, NextWm, NextRef, Sends
  <2>. QED BY <1>7, <1>8, <1>9, <2>1 DEF s2, w2, f2
<1>10. CASE w.phase = "ADDR"
  <2>1. sub[h].wstate = "IDLE" /\ \A k \in SubIds : sub[k].wstate = "IDLE"
    BY <1>5, <1>10 DEF WriteSide
  <2>2. Answers(aw, IdleW) BY <1>5, <1>10, <2>1 DEF Answers, Responder, IdleW
  <2>3. w2 = [w EXCEPT !.phase = "DATA"] /\ f2 = ref
    BY <1>10, <2>2 DEF w2, f2, NextWm, NextRef, Sends
  <2>4. /\ s2[h] \in Subordinates /\ s2[h].mem = sub[h].mem
        /\ s2[h].wstate = "WDATA" /\ s2[h].waddr = w.addr /\ s2[h].wid = w.id
    <3>1. s2[h] = WriteFsm(sub[h], i) /\ sub[h] \in Subordinates BY <1>5, <1>6, <1>10
    <3>2. sub[h].wstate = "IDLE" /\ i.awvalid BY <1>1, <1>10, <2>1
    <3>. QED BY <1>1, <1>4, <1>5, <1>10, <3>1, <3>2, WriteFsmAddress
  <2>5. ASSUME NEW k \in SubIds, k # h PROVE s2[k] = sub[k] BY <1>5, <1>6, <1>10, <2>5
  <2>6. s2 \in [SubIds -> Subordinates]
    <3>1. \A k \in SubIds : s2[k] \in Subordinates BY <1>6, <2>4, <2>5
    <3>. QED BY <1>15, <3>1
  <2>7. /\ w2 \in Managers /\ w2.phase = "DATA" /\ w2.addr = w.addr /\ w2.len = w.len
        /\ w2.id = w.id /\ w2.beat = w.beat
    BY <1>2, <2>3 DEF Managers
  <2>8. InBurst(w) /\ w.beat = 0 BY <1>10 DEF ManagerOk
  <2>9. ManagerOk(w2) BY <2>7, <2>8 DEF ManagerOk, InBurst, Home
  <2>10. WriteSide(w2, s2)
    <3>1. Home(w2) = h BY <2>7 DEF Home, h
    <3>2. w.addr + 0 = w.addr BY <1>2
    <3>. QED BY <2>1, <2>4, <2>5, <2>7, <2>8, <3>1, <3>2 DEF WriteSide
  <2>11. MemoryIs(s2, f2) BY <2>3, <2>4, <2>5 DEF MemoryIs
  <2>. QED BY <2>3, <2>6, <2>9, <2>10, <2>11 DEF s2, w2, f2
<1>11. CASE w.phase = "DATA" /\ ~wv
  <2>1. w2 = w /\ f2 = ref BY <1>11 DEF w2, f2, NextWm, NextRef, Sends
  <2>. QED BY <1>7, <1>8, <1>11, <2>1 DEF s2, w2, f2
<1>12. CASE w.phase = "DATA" /\ wv
  <2> DEFINE x == w.addr + w.beat
  <2>1. /\ sub[h].wstate = "WDATA" /\ sub[h].waddr = x /\ sub[h].wid = w.id
        /\ \A k \in SubIds : k # h => sub[k].wstate = "IDLE"
    BY <1>5, <1>12 DEF WriteSide, h
  <2>2. Answers(aw, WReady) BY <1>5, <1>12, <2>1 DEF Answers, Responder, WReady
  <2>3. Sends(w, aw, wv) BY <1>12, <2>2 DEF Sends
  <2>4. f2 = [ref EXCEPT ![x] = v] BY <2>3 DEF f2, NextRef
  <2>5. /\ w.beat = w.len => w2 = [w EXCEPT !.phase = "RESP"]
        /\ w.beat # w.len => w2 = [w EXCEPT !.beat = @ + 1]
    BY <1>12, <2>3 DEF w2, NextWm
  <2>6. InBurst(w) /\ w.beat \in 0 .. w.len BY <1>2, <1>12 DEF ManagerOk, InBurst
  <2>7. x \in AddressSpace /\ x % Depth \in 0 .. Depth - 1 /\ x = h * Depth + (x % Depth)
    BY <1>2, <2>6, BeatsAtHome DEF h
  <2>. HIDE DEF x
  <2>8. /\ s2[h] \in Subordinates /\ s2[h].mem = [sub[h].mem EXCEPT ![x % Depth] = v]
        /\ s2[h].waddr = x + 1 /\ s2[h].wid = w.id
        /\ w.beat = w.len => s2[h].wstate = "WRESP"
        /\ w.beat # w.len => s2[h].wstate = "WDATA"
    <3>1. s2[h] = WriteFsm(sub[h], i) /\ sub[h] \in Subordinates BY <1>5, <1>6, <1>12
    <3>2. sub[h].wstate = "WDATA" /\ i.wvalid BY <1>1, <1>12, <2>1
    <3>. QED BY <1>1, <1>4, <2>1, <3>1, <3>2, WriteFsmData
  <2>9. ASSUME NEW k \in SubIds, k # h PROVE s2[k] = sub[k] BY <1>5, <1>6, <1>12, <2>9
  <2>10. s2 \in [SubIds -> Subordinates]
    <3>1. \A k \in SubIds : s2[k] \in Subordinates BY <1>6, <2>8, <2>9
    <3>. QED BY <1>15, <3>1
  <2>11. f2 \in [AddressSpace -> Values] BY <2>4, <2>7
  <2>12. /\ w2 \in Managers /\ w2.addr = w.addr /\ w2.len = w.len /\ w2.id = w.id
         /\ w2.beat <= w2.len
         /\ w.beat = w.len => w2.phase = "RESP"
         /\ w.beat # w.len => w2.phase = "DATA" /\ w2.beat = w.beat + 1
    <3>1. CASE w.beat = w.len
      <4>1. w2 = [w EXCEPT !.phase = "RESP"] BY <2>5, <3>1
      <4>. QED BY <1>2, <3>1, <4>1 DEF Managers
    <3>2. CASE w.beat # w.len
      <4>1. w2 = [w EXCEPT !.beat = @ + 1] BY <2>5, <3>2
      <4>2. w.beat + 1 \in Nat /\ w.beat + 1 <= w.len BY <1>2, <2>6, <3>2
      <4>. QED BY <1>2, <1>12, <3>2, <4>1, <4>2 DEF Managers
    <3>. QED BY <3>1, <3>2
  <2>13. ManagerOk(w2) BY <2>6, <2>12 DEF ManagerOk, InBurst, Home
  <2>14. WriteSide(w2, s2)
    <3>1. Home(w2) = h BY <2>12 DEF Home, h
    <3>2. x + 1 = w.addr + (w.beat + 1) BY <1>2 DEF x
    <3>. QED BY <2>1, <2>8, <2>9, <2>12, <3>1, <3>2 DEF WriteSide
  <2>15. MemoryIs(s2, f2)
    <3> SUFFICES ASSUME NEW k \in SubIds, NEW a \in 0 .. Depth - 1
                 PROVE  s2[k].mem[a] = f2[k * Depth + a]
      BY DEF MemoryIs
    <3>1. sub[k].mem[a] = ref[k * Depth + a] BY DEF MemoryIs
    <3>2. CASE k = h /\ a = x % Depth
      <4>1. sub[h].mem \in [0 .. Depth - 1 -> Values] BY <1>5, <1>6, <1>12 DEF Subordinates
      <4>2. s2[h].mem[a] = v BY <2>7, <2>8, <3>2, <4>1
      <4>3. f2[x] = v BY <2>4, <2>7
      <4>. QED BY <2>7, <3>2, <4>2, <4>3
    <3>3. CASE ~(k = h /\ a = x % Depth)
      <4>1. k * Depth + a # x
        <5> DEFINE e == x % Depth
        <5>1. /\ k \in Nat /\ a \in Nat /\ a < Depth /\ h \in Nat /\ e \in Nat /\ e < Depth
              /\ x = h * Depth + e /\ ~(k = h /\ a = e) /\ Depth \in Nat \ {0}
          BY <1>5, <1>12, <2>7, <3>3, Sizes DEF SubIds
        <5>. HIDE DEF e
        <5>2. CASE k = h BY <5>1, <5>2
        <5>3. CASE k < h
          <6>1. (k + 1) * Depth <= h * Depth BY <5>1, <5>3
          <6>2. (k + 1) * Depth = k * Depth + Depth BY <5>1
          <6>. QED BY <5>1, <6>1, <6>2
        <5>4. CASE h < k
          <6>1. (h + 1) * Depth <= k * Depth BY <5>1, <5>4
          <6>2. (h + 1) * Depth = h * Depth + Depth BY <5>1
          <6>. QED BY <5>1, <6>1, <6>2
        <5>. QED BY <5>1, <5>2, <5>3, <5>4
      <4>2. f2[k * Depth + a] = ref[k * Depth + a]
        <5>1. k * Depth + a \in AddressSpace BY WordsAreAddressed
        <5>. QED BY <2>4, <4>1, <5>1
      <4>3. s2[k].mem[a] = sub[k].mem[a]
        <5>1. CASE k = h
          <6>1. sub[h].mem \in [0 .. Depth - 1 -> Values] BY <1>5, <1>6, <1>12 DEF Subordinates
          <6>. QED BY <2>8, <3>3, <5>1, <6>1
        <5>2. CASE k # h BY <2>9, <5>2
        <5>. QED BY <5>1, <5>2
      <4>. QED BY <3>1, <4>2, <4>3
    <3>. QED BY <3>2, <3>3
  <2>. QED BY <2>10, <2>11, <2>13, <2>14, <2>15 DEF s2, w2, f2
<1>13. CASE w.phase = "RESP" /\ ~br
  <2>1. w2 = w /\ f2 = ref BY <1>13 DEF w2, f2, NextWm, NextRef, Sends
  <2>. QED BY <1>7, <1>8, <1>13, <2>1 DEF s2, w2, f2
<1>14. CASE w.phase = "RESP" /\ br
  <2>1. sub[h].wstate = "WRESP" /\ \A k \in SubIds : k # h => sub[k].wstate = "IDLE"
    BY <1>5, <1>14 DEF WriteSide, h
  <2>2. Answers(aw, BValid) BY <1>5, <1>14, <2>1 DEF Answers, Responder, BValid
  <2>3. w2 = IdleManager /\ f2 = ref
    BY <1>14, <2>2 DEF w2, f2, NextWm, NextRef, Sends
  <2>4. s2[h] \in Subordinates /\ s2[h].mem = sub[h].mem /\ s2[h].wstate = "IDLE"
    <3>1. s2[h] = WriteFsm(sub[h], i) /\ sub[h] \in Subordinates BY <1>5, <1>6, <1>14
    <3>2. sub[h].wstate = "WRESP" /\ i.bready BY <1>1, <1>14, <2>1
    <3>. QED BY <1>4, <3>1, <3>2, WriteFsmResponse
  <2>5. ASSUME NEW k \in SubIds, k # h PROVE s2[k] = sub[k] BY <1>5, <1>6, <1>14, <2>5
  <2>6. s2 \in [SubIds -> Subordinates]
    <3>1. \A k \in SubIds : s2[k] \in Subordinates BY <1>6, <2>4, <2>5
    <3>. QED BY <1>15, <3>1
  <2>7. ManagerOk(w2) /\ w2.phase = "IDLE"
    BY <2>3 DEF ManagerOk, IdleManager, Managers, Ids
  <2>8. WriteSide(w2, s2) BY <2>1, <2>4, <2>5, <2>7 DEF WriteSide
  <2>9. MemoryIs(s2, f2) BY <2>3, <2>4, <2>5 DEF MemoryIs
  <2>. QED BY <2>3, <2>6, <2>7, <2>8, <2>9 DEF s2, w2, f2
<1>. QED BY <1>2, <1>9, <1>10, <1>11, <1>12, <1>13, <1>14

-----------------------------------------------------------------------------
(* The read channels of one edge.                                          *)

AfterRead(r, ar, rr) ==
  [k \in SubIds |-> IF k = Selected(ar) THEN ReadFsm(sub[k], ReadInputs(r, ar, rr)) ELSE sub[k]]

LEMMA ReadFsmAddress ==
    ASSUME NEW s \in Subordinates, NEW i, i.araddr \in Nat, i.arid \in Ids, i.arlen \in Nat,
           s.rstate = "IDLE", i.arvalid
    PROVE  /\ ReadFsm(s, i) \in Subordinates /\ ReadFsm(s, i).rstate = "RDATA"
           /\ ReadFsm(s, i).raddr = i.araddr /\ ReadFsm(s, i).rid = i.arid
           /\ ReadFsm(s, i).rlen = i.arlen /\ ReadFsm(s, i).rbeat = 0
<1>1. ReadFsm(s, i) = [s EXCEPT !.raddr = i.araddr, !.rid = i.arid, !.rlen = i.arlen,
                                !.rbeat = 0, !.rstate = "RDATA"]
  BY DEF ReadFsm
<1> DEFINE a == [s EXCEPT !.raddr = i.araddr]
           b == [a EXCEPT !.rid = i.arid]
           c == [b EXCEPT !.rlen = i.arlen]
           d == [c EXCEPT !.rbeat = 0]
           e == [d EXCEPT !.rstate = "RDATA"]
<1>2. a \in Subordinates /\ a.raddr = i.araddr BY DEF Subordinates
<1>. HIDE DEF a
<1>3. b \in Subordinates /\ b.raddr = i.araddr /\ b.rid = i.arid BY <1>2 DEF Subordinates
<1>. HIDE DEF b
<1>4. c \in Subordinates /\ c.raddr = i.araddr /\ c.rid = i.arid /\ c.rlen = i.arlen
  BY <1>3 DEF Subordinates
<1>. HIDE DEF c
<1>5. /\ d \in Subordinates /\ d.raddr = i.araddr /\ d.rid = i.arid /\ d.rlen = i.arlen
      /\ d.rbeat = 0
  BY <1>4 DEF Subordinates
<1>. HIDE DEF d
<1>6. /\ e \in Subordinates /\ e.raddr = i.araddr /\ e.rid = i.arid /\ e.rlen = i.arlen
      /\ e.rbeat = 0 /\ e.rstate = "RDATA"
  BY <1>5 DEF Subordinates
<1>7. ReadFsm(s, i) = e BY <1>1 DEF a, b, c, d
<1>. QED BY <1>6, <1>7

LEMMA ReadFsmBeat ==
    ASSUME NEW s \in Subordinates, NEW i, s.rstate = "RDATA", i.rready
    PROVE  /\ ReadFsm(s, i) \in Subordinates
           /\ ReadFsm(s, i).raddr = s.raddr + 1 /\ ReadFsm(s, i).rbeat = s.rbeat + 1
           /\ ReadFsm(s, i).rid = s.rid /\ ReadFsm(s, i).rlen = s.rlen
           /\ s.rbeat = s.rlen => ReadFsm(s, i).rstate = "IDLE"
           /\ s.rbeat # s.rlen => ReadFsm(s, i).rstate = "RDATA"
<1>1. ReadFsm(s, i) = [s EXCEPT !.raddr = @ + 1, !.rbeat = @ + 1,
                                !.rstate = IF RLast(s) THEN "IDLE" ELSE "RDATA"]
  BY DEF ReadFsm
<1>2. s.raddr + 1 \in Nat /\ s.rbeat + 1 \in Nat BY DEF Subordinates
<1>. QED BY <1>1, <1>2 DEF Subordinates, RLast

LEMMA ReadFsmRests ==
    ASSUME NEW s, NEW i, ~i.arvalid, ~i.rready
    PROVE  ReadFsm(s, i) = s
  BY DEF ReadFsm

LEMMA ReadStep ==
    ASSUME Wanders # "always", direct \in BOOLEAN, sub \in [SubIds -> Subordinates],
           NEW r, ManagerOk(r), r.phase # "RESP", ReadSide(r, sub), NEW ar \in OnBus(r),
           NEW rr \in BOOLEAN
    PROVE  /\ AfterRead(r, ar, rr) \in [SubIds -> Subordinates]
           /\ ManagerOk(NextRm(r, ar, rr)) /\ NextRm(r, ar, rr).phase # "RESP"
           /\ ReadSide(NextRm(r, ar, rr), AfterRead(r, ar, rr))
<1> DEFINE i == ReadInputs(r, ar, rr)
           s2 == AfterRead(r, ar, rr)
           r2 == NextRm(r, ar, rr)
           h == Home(r)
<1>1. /\ i.arvalid <=> r.phase = "ADDR"
      /\ i.rready <=> r.phase = "DATA" /\ rr
      /\ i.araddr = ar /\ i.arid = r.id /\ i.arlen = r.len
  BY DEF ReadInputs
<1>2. r \in Managers /\ r.phase \in {"IDLE", "ADDR", "DATA"} /\ r.id \in Ids
      /\ r.addr \in Nat /\ r.len \in Nat /\ r.beat \in Nat
  BY DEF ManagerOk, Managers
<1>3. s2 = [k \in SubIds |-> IF k = Selected(ar) THEN ReadFsm(sub[k], i) ELSE sub[k]]
  BY DEF AfterRead
<1>. HIDE DEF i, s2, r2, h
<1>4. r.phase # "IDLE" => /\ Selected(ar) = h /\ h \in SubIds /\ h # Nothing
                          /\ r.phase = "ADDR" => ar = r.addr
  BY LedHome DEF h
<1>5. ASSUME NEW k \in SubIds
      PROVE  /\ k # Selected(ar) => s2[k] = sub[k]
             /\ k = Selected(ar) => s2[k] = ReadFsm(sub[k], i)
             /\ sub[k] \in Subordinates
  BY <1>3
<1>6. ASSUME ~(r.phase = "ADDR"), ~(r.phase = "DATA" /\ rr), r2 = r
      PROVE  s2 \in [SubIds -> Subordinates] /\ ManagerOk(r2) /\ r2.phase # "RESP"
             /\ ReadSide(r2, s2)
  <2>1. ~i.arvalid /\ ~i.rready BY <1>1, <1>6
  <2>2. \A k \in SubIds : s2[k] = sub[k] BY <1>5, <2>1, ReadFsmRests
  <2>3. s2 = sub BY <1>3, <2>2
  <2>. QED BY <1>6, <2>3
<1>7. CASE r.phase = "IDLE"
  <2>1. r2 = r BY <1>7 DEF r2, NextRm, BeatTaken
  <2>. QED BY <1>6, <1>7, <2>1 DEF s2, r2
<1>8. CASE r.phase = "ADDR"
  <2>1. sub[h].rstate = "IDLE" /\ \A k \in SubIds : sub[k].rstate = "IDLE"
    BY <1>4, <1>8 DEF ReadSide
  <2>2. Answers(ar, IdleR) BY <1>4, <1>8, <2>1 DEF Answers, Responder, IdleR
  <2>3. r2 = [r EXCEPT !.phase = "DATA"] BY <1>8, <2>2 DEF r2, NextRm, BeatTaken
  <2>4. /\ s2[h] \in Subordinates /\ s2[h].rstate = "RDATA" /\ s2[h].raddr = r.addr
        /\ s2[h].rid = r.id /\ s2[h].rlen = r.len /\ s2[h].rbeat = 0
    <3>1. s2[h] = ReadFsm(sub[h], i) /\ sub[h] \in Subordinates BY <1>4, <1>5, <1>8
    <3>2. sub[h].rstate = "IDLE" /\ i.arvalid BY <1>1, <1>8, <2>1
    <3>3. i.araddr = r.addr /\ i.arid = r.id /\ i.arlen = r.len BY <1>1, <1>4, <1>8
    <3>4. i.araddr \in Nat /\ i.arid \in Ids /\ i.arlen \in Nat BY <1>2, <3>3
    <3>. QED BY <3>1, <3>2, <3>3, <3>4, ReadFsmAddress
  <2>5. ASSUME NEW k \in SubIds, k # h PROVE s2[k] = sub[k] BY <1>4, <1>5, <1>8, <2>5
  <2>6. s2 \in [SubIds -> Subordinates]
    <3>1. \A k \in SubIds : s2[k] \in Subordinates BY <1>5, <2>4, <2>5
    <3>. QED BY <1>3, <3>1
  <2>7. /\ r2 \in Managers /\ r2.phase = "DATA" /\ r2.addr = r.addr /\ r2.len = r.len
        /\ r2.id = r.id /\ r2.beat = r.beat
    BY <1>2, <2>3 DEF Managers
  <2>8. InBurst(r) /\ r.beat = 0 BY <1>8 DEF ManagerOk
  <2>9. ManagerOk(r2) BY <2>7, <2>8 DEF ManagerOk, InBurst, Home
  <2>10. ReadSide(r2, s2)
    <3>1. Home(r2) = h BY <2>7 DEF Home, h
    <3>2. r.addr + 0 = r.addr BY <1>2
    <3>. QED BY <2>1, <2>4, <2>5, <2>7, <2>8, <3>1, <3>2 DEF ReadSide
  <2>. QED BY <2>6, <2>7, <2>9, <2>10 DEF s2, r2
<1>9. CASE r.phase = "DATA" /\ ~rr
  <2>1. r2 = r BY <1>9 DEF r2, NextRm, BeatTaken
  <2>. QED BY <1>6, <1>9, <2>1 DEF s2, r2
<1>10. CASE r.phase = "DATA" /\ rr
  <2>1. /\ sub[h].rstate = "RDATA" /\ sub[h].raddr = r.addr + r.beat /\ sub[h].rid = r.id
        /\ sub[h].rlen = r.len /\ sub[h].rbeat = r.beat
        /\ \A k \in SubIds : k # h => sub[k].rstate = "IDLE"
    BY <1>4, <1>10 DEF ReadSide, h
  <2>2. /\ Answers(ar, RValid)
        /\ Answers(ar, RLast) <=> r.beat = r.len
    BY <1>4, <1>10, <2>1 DEF Answers, Responder, RValid, RLast
  <2>3. /\ r.beat = r.len => r2 = IdleManager
        /\ r.beat # r.len => r2 = [r EXCEPT !.beat = @ + 1]
    BY <1>10, <2>2 DEF r2, NextRm, BeatTaken
  <2>4. /\ s2[h] \in Subordinates /\ s2[h].raddr = r.addr + r.beat + 1
        /\ s2[h].rbeat = r.beat + 1 /\ s2[h].rid = r.id /\ s2[h].rlen = r.len
        /\ r.beat = r.len => s2[h].rstate = "IDLE"
        /\ r.beat # r.len => s2[h].rstate = "RDATA"
    <3>1. s2[h] = ReadFsm(sub[h], i) /\ sub[h] \in Subordinates BY <1>4, <1>5, <1>10
    <3>2. sub[h].rstate = "RDATA" /\ i.rready BY <1>1, <1>10, <2>1
    <3>. QED BY <2>1, <3>1, <3>2, ReadFsmBeat
  <2>5. ASSUME NEW k \in SubIds, k # h PROVE s2[k] = sub[k] BY <1>4, <1>5, <1>10, <2>5
  <2>6. s2 \in [SubIds -> Subordinates]
    <3>1. \A k \in SubIds : s2[k] \in Subordinates BY <1>5, <2>4, <2>5
    <3>. QED BY <1>3, <3>1
  <2>7. InBurst(r) /\ r.beat <= r.len BY <1>10 DEF ManagerOk, InBurst
  <2>8. CASE r.beat = r.len
    <3>1. ManagerOk(r2) /\ r2.phase = "IDLE"
      BY <2>3, <2>8 DEF ManagerOk, IdleManager, Managers, Ids
    <3>2. ReadSide(r2, s2) BY <2>1, <2>4, <2>5, <2>8, <3>1 DEF ReadSide
    <3>. QED BY <2>6, <3>1, <3>2 DEF s2, r2
  <2>9. CASE r.beat # r.len
    <3>1. r.beat + 1 \in Nat /\ r.beat + 1 <= r.len BY <1>2, <2>7, <2>9
    <3>2. r2 = [r EXCEPT !.beat = @ + 1] BY <2>3, <2>9
    <3>3. /\ r2 \in Managers /\ r2.phase = "DATA" /\ r2.addr = r.addr /\ r2.len = r.len
          /\ r2.id = r.id /\ r2.beat = r.beat + 1
      BY <1>2, <1>10, <3>1, <3>2 DEF Managers
    <3>4. ManagerOk(r2) BY <2>7, <3>1, <3>3 DEF ManagerOk, InBurst, Home
    <3>5. ReadSide(r2, s2)
      <4>1. Home(r2) = h BY <3>3 DEF Home, h
      <4>2. r.addr + r.beat + 1 = r.addr + (r.beat + 1) BY <1>2
      <4>. QED BY <2>1, <2>4, <2>5, <2>9, <3>3, <4>1, <4>2 DEF ReadSide
    <3>. QED BY <2>6, <3>3, <3>4, <3>5 DEF s2, r2
  <2>. QED BY <2>8, <2>9
<1>. QED BY <1>2, <1>7, <1>8, <1>9, <1>10

-----------------------------------------------------------------------------
(* The edge is made of its write and its read half.                        *)
LEMMA AxiEdgeIs ==
    ASSUME NEW wv \in BOOLEAN, NEW br \in BOOLEAN, NEW rr \in BOOLEAN, NEW v \in Values,
           AxiEdge(wv, br, rr, v), sub \in [SubIds -> Subordinates]
    PROVE  \E w \in Offers(wm), r \in Offers(rm) : \E aw \in OnBus(w), ar \in OnBus(r) :
             /\ wm' = NextWm(w, aw, wv, br) /\ rm' = NextRm(r, ar, rr)
             /\ ref' = NextRef(w, aw, wv, v) /\ direct' = direct
             /\ sub' = [k \in SubIds |->
                  LET written == AfterWrite(w, aw, wv, br, v)[k]
                      read == AfterRead(r, ar, rr)[k]
                  IN [f \in DOMAIN sub[k] |->
                        IF f \in {"wstate", "waddr", "wid", "mem"} THEN written[f] ELSE read[f]]]
<1>2. PICK w \in Offers(wm), r \in Offers(rm) : \E aw \in OnBus(w), ar \in OnBus(r) :
        /\ wm' = NextWm(w, aw, wv, br) /\ rm' = NextRm(r, ar, rr)
        /\ ref' = NextRef(w, aw, wv, v) /\ direct' = direct
        /\ sub' = [k \in SubIds |-> SubEdge(k, aw, ar, WriteInputs(w, aw, wv, br, v),
                                            ReadInputs(r, ar, rr))]
  BY DEF AxiEdge
<1>4. PICK aw \in OnBus(w), ar \in OnBus(r) :
        /\ wm' = NextWm(w, aw, wv, br) /\ rm' = NextRm(r, ar, rr)
        /\ ref' = NextRef(w, aw, wv, v) /\ direct' = direct
        /\ sub' = [k \in SubIds |-> SubEdge(k, aw, ar, WriteInputs(w, aw, wv, br, v),
                                            ReadInputs(r, ar, rr))]
  BY <1>2
<1>3. ASSUME NEW k \in SubIds
      PROVE  SubEdge(k, aw, ar, WriteInputs(w, aw, wv, br, v), ReadInputs(r, ar, rr))
               = [f \in DOMAIN sub[k] |->
                    IF f \in {"wstate", "waddr", "wid", "mem"}
                    THEN AfterWrite(w, aw, wv, br, v)[k][f] ELSE AfterRead(r, ar, rr)[k][f]]
  <2>1. AfterWrite(w, aw, wv, br, v)[k]
          = IF k = Selected(aw) THEN WriteFsm(sub[k], WriteInputs(w, aw, wv, br, v)) ELSE sub[k]
    BY DEF AfterWrite
  <2>2. AfterRead(r, ar, rr)[k]
          = IF k = Selected(ar) THEN ReadFsm(sub[k], ReadInputs(r, ar, rr)) ELSE sub[k]
    BY DEF AfterRead
  <2>. QED BY <2>1, <2>2 DEF SubEdge
<1>. QED BY <1>4, <1>3

\* A record that takes four fields of one subordinate and five of another.
LEMMA HalvesAre ==
    ASSUME NEW s \in Subordinates, NEW a \in Subordinates, NEW b \in Subordinates,
           NEW c, c = [f \in DOMAIN s |->
                         IF f \in {"wstate", "waddr", "wid", "mem"} THEN a[f] ELSE b[f]]
    PROVE  /\ c \in Subordinates
           /\ c.wstate = a.wstate /\ c.waddr = a.waddr /\ c.wid = a.wid /\ c.mem = a.mem
           /\ c.rstate = b.rstate /\ c.raddr = b.raddr /\ c.rid = b.rid
           /\ c.rlen = b.rlen /\ c.rbeat = b.rbeat
<1>1. DOMAIN s = {"wstate", "waddr", "wid", "rstate", "raddr", "rid", "rlen", "rbeat", "mem"}
  BY DEF Subordinates
<1>2. /\ c.wstate = a.wstate /\ c.waddr = a.waddr /\ c.wid = a.wid /\ c.mem = a.mem
      /\ c.rstate = b.rstate /\ c.raddr = b.raddr /\ c.rid = b.rid
      /\ c.rlen = b.rlen /\ c.rbeat = b.rbeat
  BY <1>1
<1>3. c = [wstate |-> a.wstate, waddr |-> a.waddr, wid |-> a.wid, rstate |-> b.rstate,
           raddr |-> b.raddr, rid |-> b.rid, rlen |-> b.rlen, rbeat |-> b.rbeat, mem |-> a.mem]
  BY <1>1
<1>4. c \in Subordinates BY <1>3 DEF Subordinates
<1>. QED BY <1>2, <1>4

\* What the manager is about to do with a new burst disturbs nothing.
LEMMA OffersKeepSides ==
    ASSUME NEW m, ManagerOk(m), NEW o \in Offers(m), direct \in BOOLEAN
    PROVE  /\ ManagerOk(o) /\ (m.phase # "RESP" => o.phase # "RESP")
           /\ WriteSide(m, sub) => WriteSide(o, sub)
           /\ ReadSide(m, sub) => ReadSide(o, sub)
<1>1. ManagerOk(o) /\ (o = m \/ (m.phase = "IDLE" /\ o.phase = "ADDR")) BY OffersOk
<1>2. CASE o = m BY <1>1, <1>2
<1>3. CASE m.phase = "IDLE" /\ o.phase = "ADDR" BY <1>1, <1>3 DEF WriteSide, ReadSide
<1>. QED BY <1>1, <1>2, <1>3

LEMMA AxiEdgeKeeps ==
    ASSUME Wanders # "always", AxiInv, NEW wv \in BOOLEAN, NEW br \in BOOLEAN,
           NEW rr \in BOOLEAN, NEW v \in Values, AxiEdge(wv, br, rr, v)
    PROVE  AxiInv'
<1>1. PICK w \in Offers(wm), r \in Offers(rm) : \E aw \in OnBus(w), ar \in OnBus(r) :
        /\ wm' = NextWm(w, aw, wv, br) /\ rm' = NextRm(r, ar, rr)
        /\ ref' = NextRef(w, aw, wv, v) /\ direct' = direct
        /\ sub' = [k \in SubIds |->
             LET written == AfterWrite(w, aw, wv, br, v)[k]
                 read == AfterRead(r, ar, rr)[k]
             IN [f \in DOMAIN sub[k] |->
                   IF f \in {"wstate", "waddr", "wid", "mem"} THEN written[f] ELSE read[f]]]
  BY AxiEdgeIs DEF AxiInv
<1>2. PICK aw \in OnBus(w), ar \in OnBus(r) :
        /\ wm' = NextWm(w, aw, wv, br) /\ rm' = NextRm(r, ar, rr)
        /\ ref' = NextRef(w, aw, wv, v) /\ direct' = direct
        /\ sub' = [k \in SubIds |->
             LET written == AfterWrite(w, aw, wv, br, v)[k]
                 read == AfterRead(r, ar, rr)[k]
             IN [f \in DOMAIN sub[k] |->
                   IF f \in {"wstate", "waddr", "wid", "mem"} THEN written[f] ELSE read[f]]]
  BY <1>1
<1> DEFINE ws == AfterWrite(w, aw, wv, br, v)
           rs == AfterRead(r, ar, rr)
           w2 == NextWm(w, aw, wv, br)
           r2 == NextRm(r, ar, rr)
           f2 == NextRef(w, aw, wv, v)
<1>3. /\ direct \in BOOLEAN /\ sub \in [SubIds -> Subordinates]
      /\ ref \in [AddressSpace -> Values] /\ MemoryIs(sub, ref)
      /\ ManagerOk(wm) /\ ManagerOk(rm) /\ rm.phase # "RESP"
      /\ WriteSide(wm, sub) /\ ReadSide(rm, sub)
  BY DEF AxiInv
<1>4. ManagerOk(w) /\ WriteSide(w, sub) BY <1>3, OffersKeepSides
<1>5. ManagerOk(r) /\ r.phase # "RESP" /\ ReadSide(r, sub) BY <1>3, OffersKeepSides
<1>6. /\ ws \in [SubIds -> Subordinates] /\ ManagerOk(w2) /\ WriteSide(w2, ws)
      /\ f2 \in [AddressSpace -> Values] /\ MemoryIs(ws, f2)
  BY <1>3, <1>4, WriteStep
<1>7. rs \in [SubIds -> Subordinates] /\ ManagerOk(r2) /\ r2.phase # "RESP" /\ ReadSide(r2, rs)
  BY <1>3, <1>5, ReadStep
<1>8. /\ wm' = w2 /\ rm' = r2 /\ ref' = f2 /\ direct' = direct
      /\ sub' = [k \in SubIds |->
           [f \in DOMAIN sub[k] |->
              IF f \in {"wstate", "waddr", "wid", "mem"} THEN ws[k][f] ELSE rs[k][f]]]
  BY <1>2
<1>. HIDE DEF ws, rs, w2, r2, f2
<1>9. ASSUME NEW k \in SubIds
      PROVE  /\ sub'[k] \in Subordinates
             /\ sub'[k].wstate = ws[k].wstate /\ sub'[k].waddr = ws[k].waddr
             /\ sub'[k].wid = ws[k].wid /\ sub'[k].mem = ws[k].mem
             /\ sub'[k].rstate = rs[k].rstate /\ sub'[k].raddr = rs[k].raddr
             /\ sub'[k].rid = rs[k].rid /\ sub'[k].rlen = rs[k].rlen
             /\ sub'[k].rbeat = rs[k].rbeat
  <2>1. sub[k] \in Subordinates /\ ws[k] \in Subordinates /\ rs[k] \in Subordinates
    BY <1>3, <1>6, <1>7
  <2>2. sub'[k] = [f \in DOMAIN sub[k] |->
          IF f \in {"wstate", "waddr", "wid", "mem"} THEN ws[k][f] ELSE rs[k][f]]
    BY <1>8
  <2>. QED BY <2>1, <2>2, HalvesAre
<1>10. sub' \in [SubIds -> Subordinates] BY <1>8, <1>9
<1>11. WriteSide(w2, sub') BY <1>6, <1>9 DEF WriteSide
<1>12. ReadSide(r2, sub') BY <1>7, <1>9 DEF ReadSide
<1>13. MemoryIs(sub', f2) BY <1>6, <1>9 DEF MemoryIs
<1>14. ManagerOk(wm)' /\ ManagerOk(rm)'
  BY <1>6, <1>7, <1>8 DEF ManagerOk, InBurst
<1>. QED BY <1>3, <1>6, <1>7, <1>8, <1>10, <1>11, <1>12, <1>13, <1>14 DEF AxiInv

LEMMA AxiInitially ==
    ASSUME AxiInit
    PROVE  AxiInv
<1>1. PICK x \in Values :
        /\ sub = [k \in SubIds |->
                    [wstate |-> "IDLE", waddr |-> 0, wid |-> Nothing,
                     rstate |-> "IDLE", raddr |-> 0, rid |-> Nothing, rlen |-> 0, rbeat |-> 0,
                     mem |-> [a \in 0 .. Depth - 1 |-> x]]]
        /\ ref = [a \in AddressSpace |-> x]
  BY DEF AxiInit
<1>2. direct \in BOOLEAN /\ wm = IdleManager /\ rm = IdleManager BY DEF AxiInit
<1>3. ManagerOk(IdleManager) /\ IdleManager.phase = "IDLE"
  BY DEF ManagerOk, IdleManager, Managers, Ids
<1> DEFINE z == [wstate |-> "IDLE", waddr |-> 0, wid |-> Nothing,
                 rstate |-> "IDLE", raddr |-> 0, rid |-> Nothing, rlen |-> 0, rbeat |-> 0,
                 mem |-> [a \in 0 .. Depth - 1 |-> x]]
<1>4. /\ z \in Subordinates /\ z.wstate = "IDLE" /\ z.rstate = "IDLE"
      /\ \A a \in 0 .. Depth - 1 : z.mem[a] = x
  BY DEF Subordinates, Ids
<1>5. sub = [k \in SubIds |-> z] BY <1>1
<1>. HIDE DEF z
<1>6. sub \in [SubIds -> Subordinates] /\ ref \in [AddressSpace -> Values] BY <1>1, <1>4, <1>5
<1>7. WriteSide(IdleManager, sub) /\ ReadSide(IdleManager, sub)
  BY <1>3, <1>4, <1>5 DEF WriteSide, ReadSide
<1>8. MemoryIs(sub, ref)
  <2> SUFFICES ASSUME NEW k \in SubIds, NEW a \in 0 .. Depth - 1
               PROVE  sub[k].mem[a] = ref[k * Depth + a]
    BY DEF MemoryIs
  <2>1. k * Depth + a \in AddressSpace BY WordsAreAddressed
  <2>. QED BY <1>1, <1>4, <1>5, <2>1
<1>. QED BY <1>2, <1>3, <1>6, <1>7, <1>8 DEF AxiInv

\* A reset of a quiet bus changes no register that says anything.
LEMMA AxiResetKeeps ==
    ASSUME AxiInv, AxiReset
    PROVE  AxiInv'
<1>1. /\ wm = IdleManager /\ rm = IdleManager /\ wm' = wm /\ rm' = rm
      /\ ref' = ref /\ direct' = direct
      /\ sub' = [k \in SubIds |->
                   [sub[k] EXCEPT !.wstate = "IDLE", !.rstate = "IDLE", !.rbeat = 0]]
  BY DEF AxiReset
<1>2. ASSUME NEW k \in SubIds
      PROVE  /\ sub'[k] \in Subordinates /\ sub'[k].wstate = "IDLE"
             /\ sub'[k].rstate = "IDLE" /\ sub'[k].mem = sub[k].mem
  <2>1. sub[k] \in Subordinates BY DEF AxiInv
  <2>2. sub'[k] = [sub[k] EXCEPT !.wstate = "IDLE", !.rstate = "IDLE", !.rbeat = 0]
    BY <1>1
  <2> DEFINE a == [sub[k] EXCEPT !.wstate = "IDLE"]
             b == [a EXCEPT !.rstate = "IDLE"]
             c == [b EXCEPT !.rbeat = 0]
  <2>3. a \in Subordinates /\ a.wstate = "IDLE" /\ a.mem = sub[k].mem
    BY <2>1 DEF Subordinates
  <2>. HIDE DEF a
  <2>4. b \in Subordinates /\ b.wstate = "IDLE" /\ b.rstate = "IDLE" /\ b.mem = sub[k].mem
    BY <2>3 DEF Subordinates
  <2>. HIDE DEF b
  <2>5. /\ c \in Subordinates /\ c.wstate = "IDLE" /\ c.rstate = "IDLE"
        /\ c.mem = sub[k].mem
    BY <2>4 DEF Subordinates
  <2>6. sub'[k] = c BY <2>2 DEF a, b
  <2>. QED BY <2>5, <2>6
<1>3. sub' \in [SubIds -> Subordinates] BY <1>1, <1>2
<1>4. WriteSide(wm', sub') /\ ReadSide(rm', sub')
  BY <1>1, <1>2 DEF WriteSide, ReadSide, IdleManager
<1>5. MemoryIs(sub', ref') BY <1>1, <1>2 DEF MemoryIs, AxiInv
<1>6. ManagerOk(wm)' /\ ManagerOk(rm)' BY <1>1 DEF AxiInv, ManagerOk, InBurst
<1>. QED BY <1>1, <1>3, <1>4, <1>5, <1>6 DEF AxiInv

LEMMA AxiAlways ==
    ASSUME Wanders # "always"
    PROVE  AxiSpec => []AxiInv
<1>1. AxiInit => AxiInv BY AxiInitially
<1>2. AxiInv /\ [AxiNext]_axiVars => AxiInv'
  <2> SUFFICES ASSUME AxiInv, [AxiNext]_axiVars PROVE AxiInv' OBVIOUS
  <2>1. CASE UNCHANGED axiVars
    BY <2>1 DEF axiVars, AxiInv, ManagerOk, InBurst
  <2>2. CASE AxiReset BY <2>2, AxiResetKeeps
  <2>3. CASE \E wv, br, rr \in BOOLEAN, v \in Values : AxiEdge(wv, br, rr, v)
    <3>1. PICK wv \in BOOLEAN, br \in BOOLEAN, rr \in BOOLEAN, v \in Values :
            AxiEdge(wv, br, rr, v)
      BY <2>3
    <3>. QED BY <3>1, AxiEdgeKeeps
  <2>. QED BY <2>1, <2>2, <2>3 DEF AxiNext
<1>. QED BY <1>1, <1>2, PTL DEF AxiSpec

(* Whatever the number and the size of the subordinates and the lengths of  *)
(* the bursts: a beat that is read is the word last written at its address, *)
(* under the identifier of its burst, and the last one is marked.  For      *)
(* managers that keep the address of a burst on a crossbar's bus, as the    *)
(* crossbar requires that leads each beat by the address of that moment.    *)
THEOREM WhatIsReadWasWritten ==
    ASSUME Wanders # "always"
    PROVE  AxiSpec => []ReadsWhatWasWritten
<1>1. AxiInv => ReadsWhatWasWritten
  <2> SUFFICES ASSUME AxiInv, rm.phase = "DATA"
               PROVE  /\ Answers(rm.addr, RValid)
                      /\ WordAt(sub[Selected(rm.addr)]) = ref[rm.addr + rm.beat]
                      /\ sub[Selected(rm.addr)].rid = rm.id
                      /\ Answers(rm.addr, RLast) <=> rm.beat = rm.len
    BY DEF ReadsWhatWasWritten
  <2> DEFINE h == Home(rm)
             x == rm.addr + rm.beat
  <2>1. /\ ManagerOk(rm) /\ direct \in BOOLEAN /\ ReadSide(rm, sub) /\ MemoryIs(sub, ref)
        /\ rm \in Managers /\ InBurst(rm) /\ rm.beat \in 0 .. rm.len
    BY DEF AxiInv, ManagerOk, InBurst, Managers
  <2>2. /\ h \in SubIds /\ Selected(rm.addr) = h /\ h # Nothing
        /\ x % Depth \in 0 .. Depth - 1 /\ x = h * Depth + (x % Depth)
    BY <2>1, BeatsAtHome, Sizes
  <2>3. /\ sub[h].rid = rm.id /\ sub[h].rstate = "RDATA" /\ sub[h].raddr = x
        /\ sub[h].rlen = rm.len /\ sub[h].rbeat = rm.beat
    BY <2>1, <2>2 DEF ReadSide
  <2>4. WordAt(sub[h]) = ref[x]
    <3>1. WordAt(sub[h]) = sub[h].mem[x % Depth] BY <2>3 DEF WordAt
    <3>2. sub[h].mem[x % Depth] = ref[h * Depth + (x % Depth)] BY <2>1, <2>2 DEF MemoryIs
    <3>. QED BY <2>2, <3>1, <3>2
  <2>5. Answers(rm.addr, RValid) BY <2>2, <2>3 DEF Answers, Responder, RValid
  <2>6. Answers(rm.addr, RLast) <=> rm.beat = rm.len
    BY <2>2, <2>3 DEF Answers, Responder, RLast
  <2>. QED BY <2>2, <2>3, <2>4, <2>5, <2>6
<1>. QED BY <1>1, AxiAlways, PTL

(* Whatever the number and the size of the subordinates: a write is         *)
(* answered when its last beat is in, and not before, under its identifier, *)
(* and only the subordinate a burst is meant for is ever busy.              *)
THEOREM EveryWriteIsAnswered ==
    ASSUME Wanders # "always"
    PROVE  AxiSpec => []WritesAnswered
<1>1. AxiInv => WritesAnswered
  <2> SUFFICES ASSUME AxiInv PROVE WritesAnswered OBVIOUS
  <2> DEFINE h == Home(wm)
             g == Home(rm)
  <2>1. /\ ManagerOk(wm) /\ ManagerOk(rm) /\ rm.phase # "RESP" /\ direct \in BOOLEAN
        /\ WriteSide(wm, sub) /\ ReadSide(rm, sub)
        /\ wm.phase \in {"IDLE", "ADDR", "DATA", "RESP"}
    BY DEF AxiInv, ManagerOk, Managers
  <2>2. wm.phase # "IDLE" => h \in SubIds /\ Selected(wm.addr) = h
    <3>1. wm \in Managers /\ 0 \in 0 .. wm.len BY <2>1 DEF ManagerOk, Managers
    <3>. QED BY <2>1, <3>1, BeatsAtHome DEF ManagerOk
  <2>3. rm.phase # "IDLE" => g \in SubIds /\ Selected(rm.addr) = g
    <3>1. rm \in Managers /\ 0 \in 0 .. rm.len BY <2>1 DEF ManagerOk, Managers
    <3>. QED BY <2>1, <3>1, BeatsAtHome DEF ManagerOk
  <2>4. (\E k \in SubIds : BValid(sub[k])) <=> wm.phase = "RESP"
    BY <2>1, <2>2 DEF WriteSide, BValid
  <2>5. wm.phase = "RESP" => sub[Selected(wm.addr)].wid = wm.id
    BY <2>1, <2>2 DEF WriteSide
  <2>6. ASSUME NEW k \in SubIds
        PROVE  /\ sub[k].wstate # "IDLE" => wm.phase \in {"DATA", "RESP"} /\ k = Selected(wm.addr)
               /\ sub[k].rstate # "IDLE" => rm.phase = "DATA" /\ k = Selected(rm.addr)
    <3>1. sub[k].wstate # "IDLE" => wm.phase \in {"DATA", "RESP"} /\ k = h
      BY <2>1 DEF WriteSide
    <3>2. sub[k].rstate # "IDLE" => rm.phase = "DATA" /\ k = g BY <2>1 DEF ReadSide
    <3>. QED BY <2>2, <2>3, <3>1, <3>2
  <2>. QED BY <2>4, <2>5, <2>6 DEF WritesAnswered
<1>. QED BY <1>1, AxiAlways, PTL

-----------------------------------------------------------------------------
(***************************************************************************)
(* Words as bits.                                                          *)
(***************************************************************************)
\* Quotient and rest of a division are the only ones.
LEMMA DivModIs ==
    ASSUME NEW n \in Nat \ {0}, NEW q \in Nat, NEW r \in Nat, r < n,
           NEW x \in Nat, x = n * q + r
    PROVE  x \div n = q /\ x % n = r
<1> DEFINE d == x \div n
           e == x % n
<1>0. d \in Nat /\ e \in 0 .. n - 1 /\ x = n * d + e BY DivMod
<1>1. d \in Nat /\ e \in Nat /\ e < n /\ x = n * d + e BY <1>0
<1>. HIDE DEF d, e
<1>2. CASE d < q
  <2>1. n * (d + 1) <= n * q /\ n * (d + 1) = n * d + n BY <1>1, <1>2
  <2>. QED BY <1>1, <2>1
<1>3. CASE q < d
  <2>1. n * (q + 1) <= n * d /\ n * (q + 1) = n * q + n BY <1>1, <1>3
  <2>. QED BY <1>1, <2>1
<1>. QED BY <1>1, <1>2, <1>3 DEF d, e

Pow(k) == 2^k

LEMMA PowNext ==
    /\ Pow(0) = 1
    /\ \A k \in 0 .. 15 : Pow(k) \in Nat \ {0}
    /\ \A k \in 0 .. 14 : Pow(k + 1) = 2 * Pow(k)
<1>1. /\ Pow(0) = 1 /\ Pow(1) = 2 /\ Pow(2) = 4 /\ Pow(3) = 8 /\ Pow(4) = 16
      /\ Pow(5) = 32 /\ Pow(6) = 64 /\ Pow(7) = 128 /\ Pow(8) = 256 /\ Pow(9) = 512
      /\ Pow(10) = 1024 /\ Pow(11) = 2048 /\ Pow(12) = 4096 /\ Pow(13) = 8192
      /\ Pow(14) = 16384 /\ Pow(15) = 32768
  BY DEF Pow
<1>2. ASSUME NEW k \in 0 .. 15 PROVE Pow(k) \in Nat \ {0}
  BY <1>1
<1>3. ASSUME NEW k \in 0 .. 14 PROVE Pow(k + 1) = 2 * Pow(k)
  BY <1>1
<1>. QED BY <1>1, <1>2, <1>3

\* The least-number principle, for sets.
LEMMA LeastOf ==
    ASSUME NEW S, S \subseteq Nat, NEW e \in S
    PROVE  \E m \in S : \A n \in S : m <= n
<1> DEFINE R == {ss \in Nat \X Nat : ss[1] < ss[2]}
<1>1. IsWellFoundedOn(R, Nat) BY NatLessThanWellFounded DEF OpToRel
<1>2. \E m \in S : \A n \in S : ~ (<<n, m>> \in R)
  <2>. HIDE DEF R
  <2>. QED BY <1>1, WFMin
<1>3. PICK m \in S : \A n \in S : ~ (<<n, m>> \in R) BY <1>2
<1>4. ASSUME NEW n \in S PROVE m <= n
  <2>1. <<n, m>> \in R <=> n < m OBVIOUS
  <2>. QED BY <2>1, <1>3
<1>. QED BY <1>4

LEMMA PowSum ==
    ASSUME NEW a \in 0 .. 15, NEW b \in 0 .. 15, a + b <= 15
    PROVE  Pow(a + b) = Pow(a) * Pow(b)
<1> DEFINE Bad == {d \in 0 .. 15 - a : Pow(a + d) # Pow(a) * Pow(d)}
<1>1. ASSUME NEW e \in Bad PROVE FALSE
  <2>0. Bad \subseteq Nat OBVIOUS
  <2>1. PICK m \in Bad : \A n \in Bad : m <= n
    <3>. HIDE DEF Bad
    <3>. QED BY <2>0, <1>1, LeastOf
  <2>2. m # 0
    <3>1. a + 0 = a /\ Pow(a) * 1 = Pow(a) BY PowNext
    <3>. QED BY <2>1, <3>1, PowNext
  <2>3. m - 1 \in 0 .. 15 - a /\ m - 1 \notin Bad BY <2>1, <2>2
  <2>4. Pow(a + (m - 1)) = Pow(a) * Pow(m - 1) BY <2>3
  <2>5. /\ a + (m - 1) \in 0 .. 14 /\ m - 1 \in 0 .. 14
        /\ (a + (m - 1)) + 1 = a + m /\ (m - 1) + 1 = m
    BY <2>1, <2>2
  <2>6. Pow(a + m) = 2 * Pow(a + (m - 1)) /\ Pow(m) = 2 * Pow(m - 1)
    BY <2>5, PowNext
  <2>7. Pow(a) \in Nat /\ Pow(m - 1) \in Nat BY <2>5, PowNext
  <2>8. 2 * (Pow(a) * Pow(m - 1)) = Pow(a) * (2 * Pow(m - 1)) BY <2>7
  <2>. QED BY <2>1, <2>4, <2>6, <2>8
<1>2. b \in 0 .. 15 - a OBVIOUS
<1>. QED BY <1>1, <1>2

\* One bit more from the top: x in units of w, given in units of 2 * w.
LEMMA TopNext ==
    ASSUME NEW x \in Nat, NEW w \in Nat \ {0}
    PROVE  /\ x \div w = 2 * (x \div (2 * w)) + ((x \div w) % 2)
           /\ x \div w \in Nat /\ x \div w <= x /\ (x \div w) % 2 \in 0 .. 1
<1> DEFINE q == x \div (2 * w)
           l == x % (2 * w)
           b == l \div w
           r == l % w
<1>0. q \in Nat /\ l \in 0 .. (2 * w) - 1 /\ x = (2 * w) * q + l
  BY DivMod, 2 * w \in Nat \ {0}
<1>1. q \in Nat /\ l \in Nat /\ l < 2 * w /\ x = (2 * w) * q + l BY <1>0
<1>. HIDE DEF q, l
<1>2. b \in Nat /\ r \in Nat /\ r < w /\ l = w * b + r BY <1>1, DivMod
<1>. HIDE DEF b, r
<1>3. b < 2
  <2>1. ASSUME b >= 2 PROVE FALSE
    <3>1. w * b >= w * 2 BY <1>2, <2>1
    <3>. QED BY <1>1, <1>2, <3>1
  <2>. QED BY <1>2, <2>1
<1>4. x = w * (2 * q + b) + r
  <2>1. w * (2 * q + b) = (2 * w) * q + w * b BY <1>1, <1>2
  <2>. QED BY <1>1, <1>2, <2>1
<1>5. x \div w = 2 * q + b
  <2>1. 2 * q + b \in Nat BY <1>1, <1>2
  <2>. QED BY <1>2, <1>4, <2>1, DivModIs
<1>6. 2 * q + b <= x
  <2>1. w * (2 * q + b) >= 2 * q + b BY <1>1, <1>2
  <2>. QED BY <1>1, <1>2, <1>4, <2>1
<1>7. (2 * q + b) % 2 = b BY <1>1, <1>2, <1>3
<1>8. (x \div w) % 2 = b BY <1>5, <1>7
<1>. QED BY <1>1, <1>2, <1>3, <1>5, <1>6, <1>8 DEF q

\* What is left of x after some bits have been shifted out at the top: the next
\* bit, and what is left after that one.
LEMMA ShiftOut ==
    ASSUME NEW x \in Nat, NEW w \in Nat \ {0}, NEW f \in Nat \ {0}
    PROVE  /\ ((x % (2 * w)) * f) \div (w * f) = (x \div w) % 2
           /\ (((x % (2 * w)) * f) * 2) % (w * (2 * f)) = (x % w) * (2 * f)
<1> DEFINE q == x \div (2 * w)
           l == x % (2 * w)
           b == l \div w
           r == l % w
<1>0. q \in Nat /\ l \in 0 .. (2 * w) - 1 /\ x = (2 * w) * q + l
  BY DivMod, 2 * w \in Nat \ {0}
<1>1. q \in Nat /\ l \in Nat /\ l < 2 * w /\ x = (2 * w) * q + l BY <1>0
<1>. HIDE DEF q, l
<1>2. b \in Nat /\ r \in Nat /\ r < w /\ l = w * b + r BY <1>1, DivMod
<1>. HIDE DEF b, r
<1>3. b < 2
  <2>1. ASSUME b >= 2 PROVE FALSE
    <3>1. w * b >= w * 2 BY <1>2, <2>1
    <3>. QED BY <1>1, <1>2, <3>1
  <2>. QED BY <1>2, <2>1
<1>4. x \div w = 2 * q + b /\ x % w = r
  <2>1. w * (2 * q + b) = (2 * w) * q + w * b BY <1>1, <1>2
  <2>2. x = w * (2 * q + b) + r BY <1>1, <1>2, <2>1
  <2>3. 2 * q + b \in Nat BY <1>1, <1>2
  <2> DEFINE t == 2 * q + b
  <2>4. t \in Nat /\ x = w * t + r BY <2>2, <2>3
  <2>. HIDE DEF t
  <2>5. x \div w = t /\ x % w = r BY <1>2, <2>4, DivModIs
  <2>. QED BY <2>5 DEF t
<1>5. (2 * q + b) % 2 = b BY <1>1, <1>2, <1>3
<1>6. w * f \in Nat \ {0} /\ w * (2 * f) \in Nat \ {0}
  <2>1. w * f >= w /\ w * (2 * f) >= w OBVIOUS
  <2>. QED BY <2>1
<1>7. r * f \in Nat /\ r * f < w * f /\ r * (2 * f) \in Nat /\ r * (2 * f) < w * (2 * f)
  <2>1. (r + 1) * f <= w * f /\ (r + 1) * f = r * f + f BY <1>2
  <2>2. r * (2 * f) = 2 * (r * f) /\ w * (2 * f) = 2 * (w * f) BY <1>2
  <2>3. r * f \in Nat BY <1>2
  <2>. QED BY <1>2, <1>6, <2>1, <2>2, <2>3
<1>8. l * f = (w * f) * b + r * f
  <2>1. (w * b + r) * f = (w * f) * b + r * f BY <1>2
  <2>. QED BY <1>2, <2>1
<1>9. (l * f) * 2 = (w * (2 * f)) * b + r * (2 * f)
  <2>1. (w * (2 * f)) * b = 2 * ((w * f) * b) /\ r * (2 * f) = 2 * (r * f) BY <1>2
  <2>2. (w * f) * b \in Nat BY <1>2, <1>6
  <2>. QED BY <1>7, <1>8, <2>1, <2>2
<1>10. (l * f) \div (w * f) = b
  <2>1. l * f \in Nat BY <1>1
  <2>. QED BY <1>2, <1>6, <1>7, <1>8, <2>1, DivModIs
<1>11. ((l * f) * 2) % (w * (2 * f)) = r * (2 * f)
  <2>1. (l * f) * 2 \in Nat BY <1>1
  <2> DEFINE n == w * (2 * f)
             t == r * (2 * f)
             y == (l * f) * 2
  <2>2. n \in Nat \ {0} /\ t \in Nat /\ t < n /\ y = n * b + t /\ y \in Nat
    BY <1>6, <1>7, <1>9, <2>1
  <2>. HIDE DEF n, t, y
  <2>3. y % n = t BY <1>2, <2>2, DivModIs
  <2>. QED BY <2>3 DEF n, t, y
<1>. QED BY <1>4, <1>5, <1>10, <1>11 DEF l
(***************************************************************************)
(* The SPI controller.  Of a word x, Top(x, k) is the number made of its   *)
(* first k bits, Rest(x, k) what is in the shift register without them.    *)
(***************************************************************************)
SpiRange == 0 .. Pow(Width) - 1
Top(x, k) == x \div Pow(Width - k)
NextBit(x, k) == (x \div Pow(Width - (k + 1))) % 2
Rest(x, k) == (x % Pow(Width - k)) * Pow(k)

LEMMA WidthIs ==
    /\ Width \in 1 .. 15 /\ Pow(Width) \in Nat \ {0} /\ SpiWords # {} /\ SpiWords \subseteq SpiRange
    /\ Pow(Width) = 2^Width /\ Pow(Width - 1) = 2^(Width - 1) /\ Pow(Width - 1) \in Nat \ {0}
<1>1. Width \in 1 .. 15 /\ \A w \in SpiWords : w \in 0 .. 2^Width - 1 BY SpiAssumption
<1>2. Pow(Width) = 2^Width /\ Pow(Width - 1) = 2^(Width - 1) BY DEF Pow
<1>3. Width \in 0 .. 15 /\ Width - 1 \in 0 .. 15 BY <1>1
<1>4. Pow(Width) \in Nat \ {0} /\ Pow(Width - 1) \in Nat \ {0} BY <1>3, PowNext
<1>. QED BY <1>1, <1>2, <1>4, SpiAssumption DEF SpiRange

LEMMA AllBits ==
    ASSUME NEW x \in SpiRange
    PROVE  Top(x, 0) = 0 /\ Top(x, Width) = x /\ Rest(x, 0) = x
<1>1. /\ Width - 0 = Width /\ Width - Width = 0 /\ Pow(0) = 1 /\ Pow(Width) \in Nat \ {0}
      /\ x \in Nat /\ x < Pow(Width)
  BY WidthIs, PowNext DEF SpiRange
<1>2. x \div Pow(Width) = 0 /\ x % Pow(Width) = x BY <1>1, DivModIs
<1>3. x \div 1 = x BY <1>1
<1>. QED BY <1>1, <1>2, <1>3 DEF Top, Rest

LEMMA OneBit ==
    ASSUME NEW x \in SpiRange, NEW k \in 0 .. Width - 1
    PROVE  /\ (Top(x, k) * 2 + NextBit(x, k)) % Pow(Width) = Top(x, k + 1)
           /\ Rest(x, k) \div Pow(Width - 1) = NextBit(x, k)
           /\ (Rest(x, k) * 2) % Pow(Width) = Rest(x, k + 1)
<1> DEFINE m == Width - (k + 1)
           w == Pow(m)
           f == Pow(k)
<1>1. /\ m \in 0 .. 14 /\ k \in 0 .. 14 /\ m + 1 = Width - k /\ k + 1 \in 0 .. 15
      /\ m + k = Width - 1 /\ m + (k + 1) = Width /\ m \in 0 .. 15 /\ k \in 0 .. 15
      /\ m + k <= 15 /\ m + (k + 1) <= 15
  BY WidthIs
<1>2. x \in Nat /\ x < Pow(Width) /\ Pow(Width) \in Nat \ {0} BY WidthIs DEF SpiRange
<1>. HIDE DEF m
<1>3. w \in Nat \ {0} /\ f \in Nat \ {0} BY <1>1, PowNext
<1>4. 2 * w = Pow(Width - k) /\ 2 * f = Pow(k + 1) BY <1>1, PowNext
<1>5. w * f = Pow(Width - 1) BY <1>1, PowSum
<1>6. w * (2 * f) = Pow(Width) BY <1>1, <1>4, PowSum
<1>7. NextBit(x, k) = (x \div w) % 2 /\ Top(x, k + 1) = x \div w
      /\ Rest(x, k + 1) = (x % w) * (2 * f)
  BY <1>4 DEF NextBit, Top, Rest, m
<1>8. Top(x, k) = x \div (2 * w) /\ Rest(x, k) = (x % (2 * w)) * f
  BY <1>4 DEF Top, Rest
<1>. HIDE DEF w, f
<1>9. Top(x, k) * 2 + NextBit(x, k) = Top(x, k + 1)
      /\ Top(x, k + 1) \in Nat /\ Top(x, k + 1) < Pow(Width)
  <2>1. x \div w = 2 * (x \div (2 * w)) + ((x \div w) % 2)
        /\ x \div w \in Nat /\ x \div w <= x
    BY <1>2, <1>3, TopNext
  <2>2. x \div (2 * w) \in Nat BY <1>2, <1>3, 2 * w \in Nat \ {0}, DivMod
  <2>. QED BY <1>2, <1>7, <1>8, <2>1, <2>2
<1>10. (Top(x, k) * 2 + NextBit(x, k)) % Pow(Width) = Top(x, k + 1)
  BY <1>2, <1>9
<1>11. /\ ((x % (2 * w)) * f) \div (w * f) = (x \div w) % 2
       /\ (((x % (2 * w)) * f) * 2) % (w * (2 * f)) = (x % w) * (2 * f)
  BY <1>2, <1>3, ShiftOut
<1>. QED BY <1>5, <1>6, <1>7, <1>8, <1>10, <1>11

IsSpi(c) == c = [state |-> c.state, out |-> c.out, in |-> c.in, bit |-> c.bit, clk |-> c.clk,
                 sclk |-> c.sclk, fifo |-> c.fifo]

IsWire(p) == p = [sr |-> p.sr, rises |-> p.rises, word |-> p.word, answer |-> p.answer]

SpiStates == {"IDLE", "LOAD", "SHIFT", "DONE"}

SpiFifoOk(f) ==
  /\ f = [wptr |-> f.wptr, rptr |-> f.rptr, cnt |-> f.cnt, mem |-> f.mem]
  /\ f.wptr \in Nat /\ f.rptr \in Nat /\ f.mem \in [0..3 -> SpiRange]

\* A frame on its way: what either end has so far.
FrameInv(c, p) ==
  /\ c.state = "LOAD" => p.sr = 0 /\ p.rises = 0
  /\ c.state = "SHIFT" =>
       /\ c.bit \in 0 .. Width /\ (c.bit = Width => ~c.sclk /\ c.clk = 0)
       /\ p.rises = IF c.sclk THEN c.bit + 1 ELSE c.bit
       /\ p.sr = Top(p.word, p.rises)
       /\ c.in = Top(p.answer, c.bit)
       /\ c.out = Rest(p.word, c.bit)
  /\ c.state = "DONE" => p.rises = Width /\ c.in = p.answer /\ p.sr = p.word

SpiInv ==
  /\ IsSpi(spi) /\ spi.state \in SpiStates /\ spi.sclk \in BOOLEAN /\ SpiFifoOk(spi.fifo)
  /\ IsWire(wire) /\ wire.word \in SpiRange /\ wire.answer \in SpiRange
  /\ FrameInv(spi, wire)

\* What the shift logic makes of c.
Shifts(c, miso, s) ==
  /\ c.state = "LOAD" => /\ s.out = SpiFifoDout(c.fifo) /\ s.in = 0 /\ s.bit = 0
                         /\ s.clk = 0 /\ s.sclk = FALSE
  /\ c.state = "SHIFT" /\ c.clk # ClkDiv - 1 =>
       s.out = c.out /\ s.in = c.in /\ s.bit = c.bit /\ s.sclk = c.sclk
  /\ c.state = "SHIFT" /\ c.clk = ClkDiv - 1 /\ ~c.sclk =>
       s.out = c.out /\ s.in = c.in /\ s.bit = c.bit /\ s.clk = 0 /\ s.sclk = TRUE
  /\ c.state = "SHIFT" /\ c.clk = ClkDiv - 1 /\ c.sclk =>
       /\ s.out = (c.out * 2) % Pow(Width) /\ s.in = (c.in * 2 + miso) % Pow(Width)
       /\ s.bit = (c.bit + 1) % 16 /\ s.clk = 0 /\ s.sclk = FALSE
  /\ c.state \notin {"LOAD", "SHIFT"} => s = c

LEMMA ShiftLogicIs ==
    ASSUME NEW c, IsSpi(c), NEW miso, NEW s, s = ShiftLogic(c, miso)
    PROVE  IsSpi(s) /\ Shifts(c, miso, s)
<1>1. CASE c.state = "LOAD"
  <2>1. s = [c EXCEPT !.out = SpiFifoDout(c.fifo), !.in = 0, !.bit = 0, !.clk = 0, !.sclk = FALSE]
    BY <1>1 DEF ShiftLogic
  <2>. QED BY <1>1, <2>1 DEF IsSpi, Shifts
<1>2. CASE c.state = "SHIFT" /\ c.clk # ClkDiv - 1
  <2>1. s = [c EXCEPT !.clk = @ + 1] BY <1>2 DEF ShiftLogic
  <2>. QED BY <1>2, <2>1 DEF IsSpi, Shifts
<1>3. CASE c.state = "SHIFT" /\ c.clk = ClkDiv - 1 /\ ~c.sclk
  <2>1. s = [c EXCEPT !.clk = 0, !.sclk = TRUE] BY <1>3 DEF ShiftLogic
  <2>. QED BY <1>3, <2>1 DEF IsSpi, Shifts
<1>4. CASE c.state = "SHIFT" /\ c.clk = ClkDiv - 1 /\ c.sclk
  <2>1. s = [c EXCEPT !.clk = 0, !.sclk = FALSE, !.out = (c.out * 2) % Pow(Width),
                      !.in = (c.in * 2 + miso) % Pow(Width), !.bit = (c.bit + 1) % 16]
    BY <1>4 DEF ShiftLogic, Pow
  <2>. QED BY <1>4, <2>1 DEF IsSpi, Shifts
<1>5. CASE c.state \notin {"LOAD", "SHIFT"}
  <2>1. s = c BY <1>5 DEF ShiftLogic
  <2>. QED BY <1>5, <2>1 DEF Shifts
<1>. QED BY <1>1, <1>2, <1>3, <1>4, <1>5

LEMMA SpiEdgeIs ==
    ASSUME NEW c, IsSpi(c), NEW i, NEW s, s = ShiftLogic(c, i.miso), NEW d, d = SpiEdgeOf(c, i)
    PROVE  /\ IsSpi(d) /\ d.state = Ctrl(c)
           /\ d.fifo = SpiFifo(c.fifo, [push |-> i.txValid /\ TxReady(c), pop |-> Pop(c),
                                        din |-> i.txData])
           /\ d.out = s.out /\ d.in = s.in /\ d.bit = s.bit /\ d.clk = s.clk /\ d.sclk = s.sclk
<1>1. IsSpi(s) BY ShiftLogicIs
<1> DEFINE ff == SpiFifo(c.fifo, [push |-> i.txValid /\ TxReady(c), pop |-> Pop(c),
                                  din |-> i.txData])
           st == Ctrl(c)
<1>2. d = [s EXCEPT !.state = st, !.fifo = ff] BY DEF SpiEdgeOf
<1>. HIDE DEF ff, st
<1>3. /\ IsSpi(d) /\ d.state = st /\ d.fifo = ff
      /\ d.out = s.out /\ d.in = s.in /\ d.bit = s.bit /\ d.clk = s.clk /\ d.sclk = s.sclk
  BY <1>1, <1>2 DEF IsSpi
<1>. QED BY <1>3 DEF ff, st

LEMMA SpiFifoKept ==
    ASSUME NEW f, SpiFifoOk(f), NEW i, i.push => i.din \in SpiRange, NEW g, g = SpiFifo(f, i)
    PROVE  SpiFifoOk(g) /\ SpiFifoDout(f) \in SpiRange
<1>1. g = SyncFifoUpdate(4, f, i) BY DEF SpiFifo
<1>2. /\ g = [wptr |-> g.wptr, rptr |-> g.rptr, cnt |-> g.cnt, mem |-> g.mem]
      /\ g.wptr = (f.wptr + IF Pushes(4, f, i) THEN 1 ELSE 0) % (2 * 4)
      /\ g.rptr = (f.rptr + IF Pops(f, i) THEN 1 ELSE 0) % (2 * 4)
      /\ g.mem = [f.mem EXCEPT ![f.wptr % 4] = IF Pushes(4, f, i) THEN i.din ELSE @]
  BY <1>1 DEF SyncFifoUpdate
<1>3. g.wptr \in Nat /\ g.rptr \in Nat BY <1>2 DEF SpiFifoOk
<1>4. f.wptr % 4 \in 0 .. 3 /\ f.rptr % 4 \in 0 .. 3 BY DEF SpiFifoOk
<1>5. g.mem \in [0..3 -> SpiRange] BY <1>2, <1>4 DEF SpiFifoOk, Pushes
<1>. QED BY <1>2, <1>3, <1>4, <1>5 DEF SpiFifoOk, SpiFifoDout, SyncFifoDout

\* A rise of sclk takes a bit in, the end of LOAD starts a word.
Rises(c, d) == Sclk(d) /\ ~Sclk(c) /\ ~CsN(d)

LEMMA ShiftRegIs ==
    ASSUME NEW p, IsWire(p), NEW c, NEW d, NEW q, q = ShiftReg(p, c, d)
    PROVE  /\ IsWire(q) /\ q.answer = p.answer
           /\ Rises(c, d) => /\ q.sr = (p.sr * 2 + Mosi(d)) % Pow(Width)
                             /\ q.rises = p.rises + 1 /\ q.word = p.word
           /\ ~Rises(c, d) => /\ q.sr = p.sr /\ q.rises = p.rises
                              /\ q.word = IF c.state = "LOAD" THEN d.out ELSE p.word
<1>1. CASE Rises(c, d)
  <2>1. q = [p EXCEPT !.sr = (p.sr * 2 + Mosi(d)) % Pow(Width), !.rises = p.rises + 1]
    BY <1>1 DEF ShiftReg, Rises, Pow
  <2>. QED BY <1>1, <2>1 DEF IsWire
<1>2. CASE ~Rises(c, d)
  <2>1. q = [p EXCEPT !.word = IF c.state = "LOAD" THEN d.out ELSE p.word]
    BY <1>2 DEF ShiftReg, Rises
  <2>. QED BY <1>2, <2>1 DEF IsWire
<1>. QED BY <1>1, <1>2

\* One clock in which a word is on its way.
LEMMA FrameStep ==
    ASSUME SpiInv, NEW d, IsSpi(d), NEW s, s = ShiftLogic(spi, Miso(wire)),
           d.state = Ctrl(spi), d.out = s.out, d.in = s.in, d.bit = s.bit, d.clk = s.clk,
           d.sclk = s.sclk, ~Pop(spi), SpiFifoDout(spi.fifo) \in SpiRange,
           NEW q, q = ShiftReg(wire, spi, d)
    PROVE  FrameInv(d, q) /\ IsWire(q) /\ q.word \in SpiRange /\ q.answer \in SpiRange
           /\ d.sclk \in BOOLEAN
<1>0. /\ IsSpi(spi) /\ IsWire(wire) /\ spi.state \in SpiStates /\ spi.sclk \in BOOLEAN
      /\ wire.word \in SpiRange /\ wire.answer \in SpiRange /\ Width \in 1 .. 15
      /\ FrameInv(spi, wire)
  BY WidthIs DEF SpiInv
<1>6. Shifts(spi, Miso(wire), s) BY <1>0, ShiftLogicIs
<1>1. IsWire(q) /\ q.answer = wire.answer BY <1>0, ShiftRegIs
<1>2. CASE spi.state = "IDLE" \/ spi.state = "DONE"
  <2>1. d.state = "IDLE" BY <1>2 DEF Ctrl
  <2>2. ~Rises(spi, d) BY <2>1 DEF Rises, Sclk
  <2>3. q.word = wire.word BY <1>0, <1>2, <2>2, ShiftRegIs
  <2>4. s = spi BY <1>0, <1>2, <1>6 DEF Shifts
  <2>. QED BY <1>0, <1>1, <2>1, <2>3, <2>4 DEF FrameInv
<1>3. CASE spi.state = "LOAD"
  <2>1. d.state = "SHIFT" BY <1>3 DEF Ctrl
  <2>2. d.out = SpiFifoDout(spi.fifo) /\ d.in = 0 /\ d.bit = 0 /\ d.clk = 0 /\ d.sclk = FALSE
    BY <1>0, <1>3, <1>6 DEF Shifts
  <2>3. ~Rises(spi, d) BY <2>2 DEF Rises, Sclk
  <2>4. q.sr = 0 /\ q.rises = 0 /\ q.word = d.out
    BY <1>0, <1>3, <2>3, ShiftRegIs DEF FrameInv
  <2>5. q.word \in SpiRange BY <2>2, <2>4
  <2>6. Top(q.word, 0) = 0 /\ Top(q.answer, 0) = 0 /\ Rest(q.word, 0) = q.word
    BY <1>0, <1>1, <2>5, AllBits
  <2>7. FrameInv(d, q) BY <1>0, <2>1, <2>2, <2>4, <2>6 DEF FrameInv
  <2>. QED BY <1>0, <1>1, <2>2, <2>5, <2>7
<1>4. CASE spi.state = "SHIFT" /\ spi.bit = Width
  <2>1. d.state = "DONE" BY <1>0, <1>4 DEF Ctrl, FrameInv
  <2>2. ~Rises(spi, d) BY <2>1 DEF Rises, Sclk
  <2>3. q.sr = wire.sr /\ q.rises = wire.rises /\ q.word = wire.word
    BY <1>0, <1>4, <2>2, ShiftRegIs
  <2>4. d.in = spi.in /\ d.sclk \in BOOLEAN BY <1>0, <1>4, <1>6 DEF Shifts, FrameInv
  <2>5. q.rises = Width /\ q.sr = q.word /\ d.in = q.answer
    BY <1>0, <1>1, <1>4, <2>3, <2>4, AllBits DEF FrameInv
  <2>. QED BY <1>0, <1>1, <2>1, <2>3, <2>4, <2>5 DEF FrameInv
<1>5. CASE spi.state = "SHIFT" /\ spi.bit # Width
  <2>0. /\ spi.bit \in 0 .. Width - 1 /\ d.state = "SHIFT"
        /\ wire.rises = IF spi.sclk THEN spi.bit + 1 ELSE spi.bit
        /\ wire.sr = Top(wire.word, wire.rises)
        /\ spi.in = Top(wire.answer, spi.bit) /\ spi.out = Rest(wire.word, spi.bit)
    BY <1>0, <1>5 DEF Ctrl, FrameInv
  <2>1. CASE spi.clk # ClkDiv - 1
    <3>1. d.out = spi.out /\ d.in = spi.in /\ d.bit = spi.bit /\ d.sclk = spi.sclk
      BY <1>0, <1>5, <2>1, <1>6 DEF Shifts
    <3>2. ~Rises(spi, d) BY <1>5, <2>0, <3>1 DEF Rises, Sclk
    <3>3. q.sr = wire.sr /\ q.rises = wire.rises /\ q.word = wire.word
      BY <1>0, <1>5, <3>2, ShiftRegIs
    <3>. QED BY <1>0, <1>1, <1>5, <2>0, <3>1, <3>3 DEF FrameInv
  <2>2. CASE spi.clk = ClkDiv - 1 /\ ~spi.sclk
    <3>1. /\ d.out = spi.out /\ d.in = spi.in /\ d.bit = spi.bit
          /\ d.clk = 0 /\ d.sclk = TRUE
      BY <1>0, <1>5, <2>2, <1>6 DEF Shifts
    <3>2. Rises(spi, d) BY <2>0, <2>2, <3>1 DEF Rises, Sclk, CsN
    <3>3. Mosi(d) = NextBit(wire.word, spi.bit)
      <4>1. Mosi(d) = Rest(wire.word, spi.bit) \div Pow(Width - 1)
        BY <2>0, <3>1 DEF Mosi, Pow
      <4>. QED BY <1>0, <2>0, <4>1, OneBit
    <3>4. /\ q.sr = (wire.sr * 2 + Mosi(d)) % Pow(Width)
          /\ q.rises = wire.rises + 1 /\ q.word = wire.word
      BY <1>0, <3>2, ShiftRegIs
    <3>5. q.sr = Top(q.word, spi.bit + 1) BY <1>0, <2>0, <2>2, <3>3, <3>4, OneBit
    <3>6. q.rises = spi.bit + 1 BY <2>0, <2>2, <3>4
    <3>7. d.bit \in 0 .. Width /\ d.bit # Width BY <1>0, <2>0, <3>1
    <3>8. d.in = Top(q.answer, d.bit) /\ d.out = Rest(q.word, d.bit)
      BY <1>1, <2>0, <3>1, <3>4
    <3>. QED BY <1>0, <1>1, <2>0, <3>1, <3>4, <3>5, <3>6, <3>7, <3>8 DEF FrameInv
  <2>3. CASE spi.clk = ClkDiv - 1 /\ spi.sclk
    <3>1. /\ d.out = (spi.out * 2) % Pow(Width) /\ d.in = (spi.in * 2 + Miso(wire)) % Pow(Width)
          /\ d.bit = (spi.bit + 1) % 16 /\ d.clk = 0 /\ d.sclk = FALSE
      BY <1>0, <1>5, <2>3, <1>6 DEF Shifts
    <3>2. ~Rises(spi, d) BY <3>1 DEF Rises, Sclk
    <3>3. q.sr = wire.sr /\ q.rises = wire.rises /\ q.word = wire.word
      BY <1>0, <1>5, <3>2, ShiftRegIs
    <3>4. Miso(wire) = NextBit(wire.answer, spi.bit)
      <4>1. wire.rises = spi.bit + 1 /\ wire.rises # 0 /\ ~(wire.rises > Width)
        BY <1>0, <2>0, <2>3
      <4>. QED BY <4>1 DEF Miso, NextBit, Pow
    <3>5. d.bit = spi.bit + 1 BY <1>0, <2>0, <3>1
    <3>6. d.in = Top(q.answer, d.bit) BY <1>0, <1>1, <2>0, <3>1, <3>4, <3>5, OneBit
    <3>7. d.out = Rest(q.word, d.bit) BY <1>0, <2>0, <3>1, <3>3, <3>5, OneBit
    <3>8. q.rises = d.bit /\ q.sr = Top(q.word, q.rises) BY <2>0, <2>3, <3>3, <3>5
    <3>9. d.bit \in 0 .. Width BY <1>0, <2>0, <3>5
    <3>. QED BY <1>0, <1>1, <2>0, <3>1, <3>3, <3>6, <3>7, <3>8, <3>9 DEF FrameInv
  <2>. QED BY <1>0, <2>1, <2>2, <2>3
<1>. QED BY <1>0, <1>2, <1>3, <1>4, <1>5 DEF SpiStates

LEMMA SpiSend ==
    ASSUME SpiInv, NEW txValid \in BOOLEAN, NEW w \in SpiWords, Send(txValid, w)
    PROVE  SpiInv'
<1> DEFINE i == [txValid |-> txValid, txData |-> w, miso |-> Miso(wire)]
           s == ShiftLogic(spi, i.miso)
<1>0. IsSpi(spi) /\ SpiFifoOk(spi.fifo) /\ spi.state \in SpiStates BY DEF SpiInv
<1>1. spi' = SpiEdgeOf(spi, i) /\ i.txValid = txValid /\ i.txData = w /\ i.miso = Miso(wire)
  BY DEF Send
<1>2. s = ShiftLogic(spi, Miso(wire)) BY <1>1
<1>. HIDE DEF i, s
<1>3. /\ IsSpi(spi') /\ spi'.state = Ctrl(spi)
      /\ spi'.fifo = SpiFifo(spi.fifo, [push |-> i.txValid /\ TxReady(spi), pop |-> Pop(spi),
                                        din |-> i.txData])
      /\ spi'.out = s.out /\ spi'.in = s.in /\ spi'.bit = s.bit /\ spi'.clk = s.clk
      /\ spi'.sclk = s.sclk
  BY <1>0, <1>1, SpiEdgeIs DEF s
<1>4. SpiFifoOk(spi'.fifo) /\ SpiFifoDout(spi.fifo) \in SpiRange
  <2> DEFINE j == [push |-> i.txValid /\ TxReady(spi), pop |-> Pop(spi), din |-> i.txData]
  <2>1. j.din \in SpiRange BY <1>1, WidthIs
  <2>. HIDE DEF j
  <2>2. spi'.fifo = SpiFifo(spi.fifo, j) BY <1>3 DEF j
  <2>. QED BY <1>0, <2>1, <2>2, SpiFifoKept
<1>5. spi'.state \in SpiStates BY <1>0, <1>3 DEF Ctrl, SpiStates
<1>6. CASE Pop(spi)
  <2>1. PICK answer \in SpiWords : wire' = [IdleWire EXCEPT !.answer = answer]
    BY <1>6 DEF Send
  <2>2. wire' = [sr |-> 0, rises |-> 0, word |-> 0, answer |-> answer]
    BY <2>1 DEF IdleWire
  <2>3. spi'.state = "LOAD" BY <1>3, <1>6 DEF Ctrl, Pop
  <2>4. s = spi
    <3>1. Shifts(spi, Miso(wire), s) BY <1>0, <1>2, ShiftLogicIs
    <3>. QED BY <1>6, <3>1 DEF Shifts, Pop
  <2>5. spi'.sclk \in BOOLEAN BY <1>3, <2>4 DEF SpiInv
  <2>6. 0 \in SpiRange /\ answer \in SpiRange BY WidthIs DEF SpiRange
  <2>7. IsWire(wire') BY <2>2 DEF IsWire
  <2>8. FrameInv(spi', wire') BY <2>2, <2>3 DEF FrameInv
  <2>. QED BY <1>3, <1>4, <1>5, <2>2, <2>5, <2>6, <2>7, <2>8 DEF SpiInv
<1>7. CASE ~Pop(spi)
  <2>1. wire' = ShiftReg(wire, spi, spi') BY <1>7 DEF Send
  <2>2. FrameInv(spi', wire') /\ IsWire(wire') /\ wire'.word \in SpiRange
        /\ wire'.answer \in SpiRange /\ spi'.sclk \in BOOLEAN
    BY <1>2, <1>3, <1>4, <1>7, <2>1, FrameStep
  <2>. QED BY <1>3, <1>4, <1>5, <2>2 DEF SpiInv
<1>. QED BY <1>6, <1>7

LEMMA SpiQuiet ==
    ASSUME NEW c, IsSpi(c), c.state = "IDLE", c.sclk = FALSE, SpiFifoOk(c.fifo),
           NEW p, p = IdleWire
    PROVE  /\ c.state \in SpiStates /\ c.sclk \in BOOLEAN
           /\ IsWire(p) /\ p.word \in SpiRange /\ p.answer \in SpiRange
           /\ FrameInv(c, p)
<1>1. (CHOOSE w \in SpiWords : TRUE) \in SpiWords BY WidthIs
<1>2. 0 \in SpiRange BY WidthIs DEF SpiRange
<1>3. IsWire(p) /\ p.word = 0 /\ p.answer \in SpiWords BY <1>1 DEF IdleWire, IsWire
<1>. QED BY <1>2, <1>3, WidthIs DEF SpiStates, FrameInv

LEMMA SpiResets == ASSUME SpiInv, SpiReset PROVE SpiInv'
<1>0. IsSpi(spi) /\ SpiFifoOk(spi.fifo) BY DEF SpiInv
<1> DEFINE f == SyncFifoReset(spi.fifo)
<1>1. /\ IsSpi(spi') /\ spi'.state = "IDLE" /\ spi'.sclk = FALSE /\ spi'.fifo = f
      /\ wire' = IdleWire
  <2>. HIDE DEF f
  <2>1. spi' = [spi EXCEPT !.state = "IDLE", !.fifo = f, !.out = 0, !.in = 0,
                           !.bit = 0, !.clk = 0, !.sclk = FALSE]
        /\ wire' = IdleWire
    BY DEF SpiReset, f
  <2>. QED BY <1>0, <2>1 DEF IsSpi
<1>2. SpiFifoOk(f)
  <2> DEFINE e == spi.fifo
  <2>1. f = [e EXCEPT !.wptr = 0, !.rptr = 0, !.cnt = 0] BY DEF SyncFifoReset
  <2>2. SpiFifoOk(e) BY <1>0
  <2>. HIDE DEF e, f
  <2>3. f = [wptr |-> 0, rptr |-> 0, cnt |-> 0, mem |-> e.mem] BY <2>1, <2>2 DEF SpiFifoOk
  <2>. QED BY <2>2, <2>3 DEF SpiFifoOk
<1>. HIDE DEF f
<1>. QED BY <1>1, <1>2, SpiQuiet DEF SpiInv

LEMMA SpiInitially == ASSUME SpiInit PROVE SpiInv
<1>1. 0 \in SpiRange BY WidthIs DEF SpiRange
<1>2. /\ IsSpi(spi) /\ spi.state = "IDLE" /\ spi.sclk = FALSE /\ SpiFifoOk(spi.fifo)
      /\ wire = IdleWire
  BY <1>1 DEF SpiInit, IsSpi, SpiFifoOk
<1>. QED BY <1>2, SpiQuiet DEF SpiInv

(* For every width of the words and every divider of the clock: when the   *)
(* controller says that a word has been received, it has the word of the   *)
(* peripheral and the peripheral has the word that was loaded, whatever    *)
(* the driver sends meanwhile.                                             *)
THEOREM BothEndsHaveTheWord == SpiSpec => []FramesAreWhole
<1>1. SpiInit => SpiInv BY SpiInitially
<1>2. SpiInv /\ [SpiNext]_spiVars => SpiInv'
  <2>1. ASSUME SpiInv, UNCHANGED spiVars PROVE SpiInv'
    BY <2>1 DEF spiVars, SpiInv
  <2>. QED BY <2>1, SpiSend, SpiResets DEF SpiNext
<1>3. SpiInv => FramesAreWhole BY DEF SpiInv, FrameInv, FramesAreWhole, RxValid
<1>. QED BY <1>1, <1>2, <1>3, PTL DEF SpiSpec

(***************************************************************************)
(* The processor.  `arch' has executed every instruction that has left the *)
(* second stage.                                                           *)
(***************************************************************************)
Fetch(pc) == program[(pc % Len(program)) + 1]

\* The records have their fields; what is in them matters only where it is added or is an index.
IsEx(ex) == ex = [rs1 |-> ex.rs1, rs2 |-> ex.rs2, rd |-> ex.rd, imm |-> ex.imm, imm5 |-> ex.imm5,
                  data1 |-> ex.data1, data2 |-> ex.data2, alu |-> ex.alu, regWe |-> ex.regWe,
                  memRe |-> ex.memRe, memWe |-> ex.memWe, useImm |-> ex.useImm,
                  isJump |-> ex.isJump, isBeq |-> ex.isBeq, isHalt |-> ex.isHalt,
                  valid |-> ex.valid, pc |-> ex.pc]
IsWb(wb) == wb = [result |-> wb.result, store |-> wb.store, rd |-> wb.rd, regWe |-> wb.regWe,
                  memRe |-> wb.memRe, memWe |-> wb.memWe, valid |-> wb.valid, isHalt |-> wb.isHalt]
IsFd(fd) == fd = [instr |-> fd.instr, valid |-> fd.valid, pc |-> fd.pc]
IsCpu(c) == c = [pc |-> c.pc, fd |-> c.fd, ex |-> c.ex, wb |-> c.wb, rf |-> c.rf,
                 dmem |-> c.dmem, halted |-> c.halted]
IsArch(m) == m = [pc |-> m.pc, rf |-> m.rf, dmem |-> m.dmem, halted |-> m.halted]

CpuTyped ==
  /\ program \in Programs
  /\ IsCpu(cpu) /\ IsFd(cpu.fd) /\ IsEx(cpu.ex) /\ IsWb(cpu.wb) /\ IsArch(arch)
  /\ cpu.pc \in Nat /\ cpu.fd.pc \in Nat /\ cpu.ex.pc \in Nat
  /\ cpu.fd.instr \in Nat /\ cpu.ex.imm \in Nat /\ cpu.ex.imm5 \in Nat
  /\ cpu.ex.valid \in BOOLEAN /\ cpu.fd.valid \in BOOLEAN
  /\ cpu.wb.isHalt \in BOOLEAN
  /\ DOMAIN arch.rf = 0 .. 7

\* The instruction that is executed next is at pc.
HoldsInstruction(ex, pc) ==
  LET d == Decode(Fetch(pc)) IN
  /\ ex.pc = pc
  /\ ex.rs1 = d.rs1 /\ ex.rs2 = d.rs2 /\ ex.rd = d.rd /\ ex.imm = d.imm /\ ex.imm5 = d.imm5
  /\ ex.alu = d.alu /\ ex.regWe = d.regWe /\ ex.memRe = d.memRe /\ ex.memWe = d.memWe
  /\ ex.useImm = d.useImm /\ ex.isJump = d.isJump /\ ex.isBeq = d.isBeq /\ ex.isHalt = d.isHalt

\* Its operands are those of the machine without stages: nobody on the way writes them.
Operands ==
  /\ cpu.ex.data1 = arch.rf[cpu.ex.rs1] /\ cpu.ex.data2 = arch.rf[cpu.ex.rs2]
  /\ cpu.wb.valid /\ cpu.wb.regWe /\ cpu.wb.rd # 0 => cpu.wb.rd \notin {cpu.ex.rs1, cpu.ex.rs2}

\* The first two stages hold the next instructions, as far as they are valid.
NextOnes ==
  /\ cpu.ex.valid => cpu.fd.valid /\ HoldsInstruction(cpu.ex, arch.pc) /\ Operands
                     /\ cpu.fd.pc = Word(arch.pc + 1)
  /\ ~cpu.ex.valid /\ cpu.fd.valid => cpu.fd.pc = arch.pc
  /\ cpu.fd.valid => cpu.fd.instr = Fetch(cpu.fd.pc) /\ cpu.pc = Word(cpu.fd.pc + 1)
  /\ ~cpu.fd.valid => cpu.pc = arch.pc

CpuInv == CpuTyped /\ NextOnes /\ PipelineExecutesProgram

LEMMA FetchIs ==
  ASSUME NEW p \in Programs, NEW pc \in Nat
  PROVE  p[(pc % Len(p)) + 1] \in Nat
<1> DEFINE n == Len(p)
<1>1. p \in Seq(DataWords) /\ p # <<>> BY CpuAssumption DEF CpuAssumption
<1>2. DataWords \subseteq Nat BY DEF DataWords
<1>3. n \in Nat /\ n # 0 /\ DOMAIN p = 1 .. n /\ \A k \in 1 .. n : p[k] \in DataWords
  BY <1>1, EmptySeq, LenProperties
<1> HIDE DEF n
<1>4. pc % n \in 0 .. n - 1 BY <1>3
<1>5. (pc % n) + 1 \in 1 .. n BY <1>3, <1>4
<1>6. p[(pc % n) + 1] \in Nat BY <1>2, <1>3, <1>5
<1> QED BY <1>6 DEF n

LEMMA DecodeIs ==
  ASSUME NEW n \in Nat, NEW d, d = Decode(n)
  PROVE  /\ d.rs1 \in 0 .. 7 /\ d.rs2 \in 0 .. 7 /\ d.rd \in 0 .. 7
         /\ d.imm \in Nat /\ d.imm5 \in Nat
<1>1. /\ (n \div 256) % 8 \in 0 .. 7 /\ (n \div 32) % 8 \in 0 .. 7 /\ (n \div 4) % 8 \in 0 .. 7
      /\ n % 256 \in Nat /\ n % 32 \in Nat
  OBVIOUS
<1>2. SignExtend(n % 256, 8) \in Nat BY <1>1 DEF SignExtend
<1> QED BY <1>1, <1>2 DEF Decode

LEMMA CpuInitInv == CpuInit => CpuInv
<1> SUFFICES ASSUME CpuInit PROVE CpuInv OBVIOUS
<1>1. CpuTyped
  BY DEF CpuInit, CpuTyped, IsCpu, IsFd, IsEx, IsWb, IsArch, Bubble
<1>2. NextOnes BY DEF CpuInit, NextOnes, Bubble
<1>3. PipelineExecutesProgram BY DEF CpuInit, PipelineExecutesProgram, WrittenBack, Bubble
<1> QED BY <1>1, <1>2, <1>3 DEF CpuInv

LEMMA CpuResetInv == CpuInv /\ CpuResetEdge => CpuInv'
<1> SUFFICES ASSUME CpuInv, CpuResetEdge PROVE CpuInv' OBVIOUS
<1>1. /\ cpu' = [pc |-> 0, fd |-> [instr |-> cpu.fd.instr, valid |-> FALSE, pc |-> cpu.fd.pc],
                 ex |-> [cpu.ex EXCEPT !.valid = FALSE], wb |-> [cpu.wb EXCEPT !.valid = FALSE],
                 rf |-> cpu.rf, dmem |-> cpu.dmem, halted |-> FALSE]
  BY DEF CpuInv, CpuTyped, CpuResetEdge, CpuReset, IsCpu, IsFd
<1>2. arch' = [pc |-> 0, rf |-> arch.rf, dmem |-> arch.dmem, halted |-> cpu.wb.isHalt]
  BY DEF CpuInv, CpuTyped, CpuResetEdge, IsArch
<1>3. cpu.wb.isHalt = cpu'.wb.isHalt /\ cpu.wb.regWe = cpu'.wb.regWe /\ cpu'.wb.rd = cpu.wb.rd
      /\ cpu'.wb.memRe = cpu.wb.memRe /\ cpu'.wb.memWe = cpu.wb.memWe
      /\ cpu'.wb.result = cpu.wb.result /\ cpu'.wb.store = cpu.wb.store
      /\ cpu'.wb.valid = FALSE /\ IsWb(cpu'.wb)
  BY <1>1 DEF CpuInv, CpuTyped, IsWb
<1>4. cpu'.ex.valid = FALSE /\ cpu'.ex.pc = cpu.ex.pc /\ cpu'.ex.imm = cpu.ex.imm
      /\ cpu'.ex.imm5 = cpu.ex.imm5 /\ IsEx(cpu'.ex)
  BY <1>1 DEF CpuInv, CpuTyped, IsEx
<1>5. program' = program BY DEF CpuResetEdge
<1>6. CpuTyped'
  BY <1>1, <1>2, <1>3, <1>4, <1>5 DEF CpuInv, CpuTyped, IsCpu, IsFd, IsArch
<1>7. NextOnes' BY <1>1, <1>2, <1>4 DEF NextOnes
<1>8. PipelineExecutesProgram'
  <2>1. WrittenBack(cpu).rf = arch.rf /\ WrittenBack(cpu).dmem = arch.dmem
    BY DEF CpuInv, PipelineExecutesProgram
  <2>a. cpu'.rf = cpu.rf /\ cpu'.dmem = cpu.dmem /\ cpu'.halted = FALSE BY <1>1
  <2>b. WbWdata(cpu') = WbWdata(cpu) BY <2>a, <1>3 DEF WbWdata
  <2>2. WrittenBack(cpu').rf = WrittenBack(cpu).rf
    BY <2>a, <2>b, <1>3, Zenon DEF WrittenBack
  <2>3. WrittenBack(cpu').dmem = WrittenBack(cpu).dmem
    BY <2>a, <1>3, Zenon DEF WrittenBack
  <2>4. WrittenBack(cpu').halted = cpu.wb.isHalt
    BY <1>1, <1>3 DEF WrittenBack, CpuInv, CpuTyped
  <2> QED BY <2>1, <2>2, <2>3, <2>4, <1>2 DEF PipelineExecutesProgram, WrittenBack
<1> QED BY <1>6, <1>7, <1>8 DEF CpuInv

\* What an edge does when nothing is executed: the bubble in the last stage writes nothing.
LEMMA EdgeWithoutInstruction ==
  ASSUME CpuInv, CpuEdge, ~cpu.ex.valid
  PROVE  WrittenBack(cpu') = WrittenBack(cpu)
<1>1. cpu' = CpuSeq(cpu) BY DEF CpuEdge
<1>2. cpu'.wb.regWe = FALSE /\ cpu'.wb.memWe = FALSE /\ cpu'.wb.isHalt = FALSE
  BY <1>1 DEF CpuSeq
<1>3. cpu'.rf = WrittenBack(cpu).rf /\ cpu'.dmem = WrittenBack(cpu).dmem
      /\ cpu'.halted = WrittenBack(cpu).halted
  BY <1>1 DEF CpuSeq
<1>4. WrittenBack(cpu).halted \in BOOLEAN BY DEF WrittenBack
<1>5. WrittenBack(cpu') = [rf |-> cpu'.rf, dmem |-> cpu'.dmem, halted |-> cpu'.halted]
  BY <1>2, <1>3, <1>4 DEF WrittenBack
<1>6. WrittenBack(cpu) = [rf |-> WrittenBack(cpu).rf, dmem |-> WrittenBack(cpu).dmem,
                          halted |-> WrittenBack(cpu).halted]
  BY DEF WrittenBack
<1> QED BY <1>3, <1>5, <1>6

\* What it does when the instruction in the second stage is executed.
LEMMA EdgeExecutes ==
  ASSUME CpuInv, CpuEdge, cpu.ex.valid
  PROVE  /\ Forward(cpu, cpu.ex.rs1, cpu.ex.data1) = arch.rf[cpu.ex.rs1]
         /\ Forward(cpu, cpu.ex.rs2, cpu.ex.data2) = arch.rf[cpu.ex.rs2]
         /\ WrittenBack(cpu') = [rf |-> arch'.rf, dmem |-> arch'.dmem, halted |-> arch'.halted]
<1> DEFINE ex == cpu.ex
           d == Decode(Fetch(arch.pc))
           a == arch.rf[ex.rs1]
           b == arch.rf[ex.rs2]
           r == Alu(d.alu, a, IF d.useImm THEN d.imm ELSE b)
           w == WrittenBack(cpu)
<1>1. cpu' = CpuSeq(cpu) /\ arch' = Execute(arch) BY DEF CpuEdge
<1>2. HoldsInstruction(ex, arch.pc) /\ Operands BY DEF CpuInv, NextOnes
<1>3. Forward(cpu, ex.rs1, ex.data1) = a /\ Forward(cpu, ex.rs2, ex.data2) = b
  BY <1>2 DEF Operands, Forward
<1>4. w.rf = arch.rf /\ w.dmem = arch.dmem /\ w.halted = arch.halted
  BY DEF CpuInv, PipelineExecutesProgram
<1>5. /\ ex.rs1 = d.rs1 /\ ex.rs2 = d.rs2 /\ ex.rd = d.rd /\ ex.imm = d.imm /\ ex.alu = d.alu
      /\ ex.regWe = d.regWe /\ ex.memRe = d.memRe /\ ex.memWe = d.memWe /\ ex.useImm = d.useImm
      /\ ex.isHalt = d.isHalt
  BY <1>2 DEF HoldsInstruction
<1>6. /\ cpu'.rf = w.rf /\ cpu'.dmem = w.dmem /\ cpu'.halted = w.halted
      /\ cpu'.wb = [result |-> Alu(ex.alu, Forward(cpu, ex.rs1, ex.data1),
                                   IF ex.useImm THEN ex.imm ELSE Forward(cpu, ex.rs2, ex.data2)),
                    store |-> Forward(cpu, ex.rs2, ex.data2),
                    rd |-> ex.rd, regWe |-> ex.regWe /\ ex.valid, memRe |-> ex.memRe /\ ex.valid,
                    memWe |-> ex.memWe /\ ex.valid, valid |-> ex.valid,
                    isHalt |-> ex.isHalt /\ ex.valid]
  BY <1>1 DEF CpuSeq
<1>7. /\ cpu'.wb.result = r /\ cpu'.wb.store = b /\ cpu'.wb.rd = d.rd
      /\ (cpu'.wb.regWe <=> d.regWe) /\ (cpu'.wb.memRe <=> d.memRe) /\ (cpu'.wb.memWe <=> d.memWe)
      /\ (cpu'.wb.isHalt <=> d.isHalt)
  <2>1. cpu'.wb.result = Alu(ex.alu, a, IF ex.useImm THEN ex.imm ELSE b) /\ cpu'.wb.store = b
    BY <1>3, <1>6
  <2>2. cpu'.wb.result = r BY <1>5, <2>1
  <2>3. cpu'.wb.rd = d.rd BY <1>5, <1>6
  <2>4. /\ cpu'.wb.regWe = (ex.regWe /\ ex.valid)
        /\ cpu'.wb.memRe = (ex.memRe /\ ex.valid)
        /\ cpu'.wb.memWe = (ex.memWe /\ ex.valid)
        /\ cpu'.wb.isHalt = (ex.isHalt /\ ex.valid)
    BY <1>6
  <2>5. ex.valid OBVIOUS
  <2>6. /\ cpu'.wb.regWe <=> ex.regWe
        /\ cpu'.wb.memRe <=> ex.memRe
        /\ cpu'.wb.memWe <=> ex.memWe
        /\ cpu'.wb.isHalt <=> ex.isHalt
    BY <2>4, <2>5
  <2> QED BY <1>5, <2>1, <2>2, <2>3, <2>6
<1>8. Execute(arch) =
        [pc |-> Execute(arch).pc,
         rf |-> IF d.regWe /\ d.rd # 0
                THEN [arch.rf EXCEPT ![d.rd] = IF d.memRe THEN arch.dmem[r % DataDepth] ELSE r]
                ELSE arch.rf,
         dmem |-> IF d.memWe THEN [arch.dmem EXCEPT ![r % DataDepth] = b] ELSE arch.dmem,
         halted |-> arch.halted \/ d.isHalt]
  BY <1>5 DEF Execute, Fetch
<1> HIDE DEF d, a, b, r, w, ex
<1>9. WrittenBack(cpu') =
        [rf |-> IF d.regWe /\ d.rd # 0
                THEN [arch.rf EXCEPT ![d.rd] = IF d.memRe THEN arch.dmem[r % DataDepth] ELSE r]
                ELSE arch.rf,
         dmem |-> IF d.memWe THEN [arch.dmem EXCEPT ![r % DataDepth] = b] ELSE arch.dmem,
         halted |-> arch.halted \/ d.isHalt]
  <2>1. WbWdata(cpu') = IF d.memRe THEN arch.dmem[r % DataDepth] ELSE r
    BY <1>4, <1>6, <1>7 DEF WbWdata
  <2>2. cpu'.rf = arch.rf /\ cpu'.dmem = arch.dmem /\ cpu'.halted = arch.halted BY <1>4, <1>6
  <2>3. (IF cpu'.wb.regWe /\ cpu'.wb.rd # 0 THEN [cpu'.rf EXCEPT ![cpu'.wb.rd] = WbWdata(cpu')]
         ELSE cpu'.rf)
        = IF d.regWe /\ d.rd # 0
          THEN [arch.rf EXCEPT ![d.rd] = IF d.memRe THEN arch.dmem[r % DataDepth] ELSE r]
          ELSE arch.rf
    BY <1>7, <2>1, <2>2
  <2>4. (IF cpu'.wb.memWe THEN [cpu'.dmem EXCEPT ![cpu'.wb.result % DataDepth] = cpu'.wb.store]
         ELSE cpu'.dmem)
        = IF d.memWe THEN [arch.dmem EXCEPT ![r % DataDepth] = b] ELSE arch.dmem
    BY <1>7, <2>2
  <2>5. (cpu'.halted \/ cpu'.wb.isHalt) = (arch.halted \/ d.isHalt)
    BY <1>7, <2>2
  <2> QED BY <2>3, <2>4, <2>5 DEF WrittenBack
<1> QED BY <1>1, <1>3, <1>8, <1>9 DEF a, b, ex

\* Reading with the detour from the last stage gives the registers after all instructions before.
LEMMA ReadsWhatIsWritten ==
  ASSUME CpuInv, NEW r \in 0 .. 7
  PROVE  RfRead(cpu, r) = arch.rf[r]
<1>1. WrittenBack(cpu).rf = arch.rf BY DEF CpuInv, PipelineExecutesProgram
<1>2. DOMAIN arch.rf = 0 .. 7 BY DEF CpuInv, CpuTyped
<1>3. CASE cpu.wb.regWe /\ cpu.wb.rd # 0
  <2>1. arch.rf = [cpu.rf EXCEPT ![cpu.wb.rd] = WbWdata(cpu)] BY <1>1, <1>3 DEF WrittenBack
  <2>2. DOMAIN cpu.rf = 0 .. 7 BY <1>2, <2>1
  <2>3. arch.rf[r] = IF r = cpu.wb.rd THEN WbWdata(cpu) ELSE cpu.rf[r] BY <2>1, <2>2
  <2> QED BY <1>3, <2>3 DEF RfRead
<1>4. CASE ~(cpu.wb.regWe /\ cpu.wb.rd # 0)
  BY <1>1, <1>4 DEF WrittenBack, RfRead
<1> QED BY <1>3, <1>4

\* A bubble differs in its control bits only.
LEMMA BubbleIs ==
  ASSUME NEW ex, IsEx(ex), NEW b, b = Bubble(ex)
  PROVE  IsEx(b) /\ b.valid = FALSE /\ b.pc = ex.pc /\ b.imm = ex.imm /\ b.imm5 = ex.imm5
<1>1. DOMAIN ex = {"rs1", "rs2", "rd", "imm", "imm5", "data1", "data2", "alu", "regWe", "memRe",
                   "memWe", "useImm", "isJump", "isBeq", "isHalt", "valid", "pc"}
  BY DEF IsEx
<1>2. DOMAIN b = DOMAIN ex /\ b = [f \in DOMAIN ex |-> b[f]] BY DEF Bubble
<1>3. IsEx(b) BY <1>1, <1>2 DEF IsEx
<1>4. b.valid = FALSE /\ b.pc = ex.pc /\ b.imm = ex.imm /\ b.imm5 = ex.imm5 BY <1>1 DEF Bubble
<1> QED BY <1>3, <1>4

LEMMA CpuEdgeInv == CpuInv /\ CpuEdge => CpuInv'
<1> SUFFICES ASSUME CpuInv, CpuEdge PROVE CpuInv' OBVIOUS
<1> DEFINE ex == cpu.ex
           d == Decode(cpu.fd.instr)
           a == Forward(cpu, ex.rs1, ex.data1)
           b == Forward(cpu, ex.rs2, ex.data2)
           taken == TakeBranch(ex, a, b)
           stall == Stall(cpu, d)
           decoded == [rs1 |-> d.rs1, rs2 |-> d.rs2, rd |-> d.rd, imm |-> d.imm, imm5 |-> d.imm5,
                   data1 |-> RfRead(cpu, d.rs1), data2 |-> RfRead(cpu, d.rs2), alu |-> d.alu,
                   regWe |-> d.regWe, memRe |-> d.memRe, memWe |-> d.memWe,
                   useImm |-> d.useImm, isJump |-> d.isJump, isBeq |-> d.isBeq,
                   isHalt |-> d.isHalt, valid |-> TRUE, pc |-> cpu.fd.pc]
<1>1. cpu' = CpuSeq(cpu) /\ program' = program
      /\ arch' = IF ex.valid THEN Execute(arch) ELSE arch
  BY DEF CpuEdge
<1>2. CpuTyped /\ NextOnes BY DEF CpuInv
<1>3. /\ Fetch(cpu.pc) \in Nat /\ d.rs1 \in 0 .. 7 /\ d.rs2 \in 0 .. 7 /\ d.imm \in Nat
      /\ d.imm5 \in Nat
  BY <1>2, FetchIs, DecodeIs DEF CpuTyped, Fetch
<1>4. /\ RfRead(cpu, d.rs1) = arch.rf[d.rs1]
      /\ RfRead(cpu, d.rs2) = arch.rf[d.rs2]
  BY <1>3, ReadsWhatIsWritten
<1>5. /\ cpu'.pc = IF taken THEN BranchTarget(ex) ELSE IF stall THEN cpu.pc ELSE Word(cpu.pc + 1)
      /\ cpu'.fd = IF taken THEN [instr |-> 0, valid |-> FALSE, pc |-> 0]
                   ELSE IF stall THEN cpu.fd
                   ELSE [instr |-> Fetch(cpu.pc), valid |-> TRUE, pc |-> cpu.pc]
      /\ cpu'.ex = IF taken \/ stall \/ ~cpu.fd.valid THEN Bubble(ex) ELSE decoded
      /\ cpu'.wb.rd = ex.rd
      /\ cpu'.wb.regWe = (ex.regWe /\ ex.valid)
      /\ cpu'.wb.isHalt = (ex.isHalt /\ ex.valid)
      /\ IsCpu(cpu') /\ IsWb(cpu'.wb)
  BY <1>1 DEF CpuSeq, Fetch, IsCpu, IsWb
<1>6. ~ex.valid => ~taken /\ ~stall
  BY DEF TakeBranch, Stall
<1>7. Bubble(ex).valid = FALSE /\ Bubble(ex).pc = ex.pc /\ Bubble(ex).imm = ex.imm
      /\ Bubble(ex).imm5 = ex.imm5 /\ IsEx(Bubble(ex))
  <2>1. IsEx(ex) BY <1>2 DEF CpuTyped
  <2> QED BY <2>1, BubbleIs
<1>8. ASSUME ex.valid
      PROVE  /\ IsArch(arch')
             /\ arch'.pc = IF taken THEN BranchTarget(ex) ELSE Word(arch.pc + 1)
             /\ arch'.rf = arch.rf \/ (ex.regWe /\ ex.rd # 0
                   /\ \E v : arch'.rf = [arch.rf EXCEPT ![ex.rd] = v])
  <2>1. /\ HoldsInstruction(ex, arch.pc)
        /\ a = arch.rf[ex.rs1] /\ b = arch.rf[ex.rs2] /\ arch' = Execute(arch)
    BY <1>1, <1>2, <1>8, EdgeExecutes DEF NextOnes
  <2> DEFINE i == Decode(Fetch(arch.pc))
  <2>2. /\ ex.pc = arch.pc /\ ex.rs1 = i.rs1 /\ ex.rs2 = i.rs2 /\ ex.rd = i.rd /\ ex.imm = i.imm
        /\ ex.imm5 = i.imm5 /\ ex.regWe = i.regWe /\ ex.isJump = i.isJump /\ ex.isBeq = i.isBeq
    BY <2>1 DEF HoldsInstruction
  <2>3. IsArch(arch') BY <2>1 DEF Execute, IsArch
  <2>4. Execute(arch).pc =
          Word(arch.pc + IF i.isJump THEN SignExtend(i.imm % 256, 8)
               ELSE IF i.isBeq /\ arch.rf[i.rs1] = arch.rf[i.rs2] THEN SignExtend(i.imm5, 5) ELSE 1)
    BY DEF Execute, Fetch
  <2>5. Execute(arch).rf = arch.rf \/ (i.regWe /\ i.rd # 0
           /\ \E v : Execute(arch).rf = [arch.rf EXCEPT ![i.rd] = v])
    BY DEF Execute, Fetch
  <2>6. taken <=> (ex.isJump \/ (ex.isBeq /\ a = b)) BY <1>8 DEF TakeBranch
  <2>7. BranchTarget(ex) =
          Word(ex.pc + IF ex.isJump THEN SignExtend(ex.imm % 256, 8) ELSE SignExtend(ex.imm5, 5))
    BY DEF BranchTarget
  <2> HIDE DEF i, a, b, taken, ex
  <2>8. arch'.pc = IF taken THEN BranchTarget(ex) ELSE Word(arch.pc + 1)
    BY <2>1, <2>2, <2>4, <2>6, <2>7
  <2>9. arch'.rf = arch.rf \/ (ex.regWe /\ ex.rd # 0
                   /\ \E v : arch'.rf = [arch.rf EXCEPT ![ex.rd] = v])
    BY <2>1, <2>2, <2>5
  <2> QED BY <2>3, <2>8, <2>9
<1>9. PipelineExecutesProgram'
  <2>1. CASE ex.valid BY <2>1, EdgeExecutes DEF PipelineExecutesProgram
  <2>2. CASE ~ex.valid
    <3>1. WrittenBack(cpu') = WrittenBack(cpu) /\ arch' = arch BY <1>1, <2>2, EdgeWithoutInstruction
    <3> QED BY <3>1 DEF PipelineExecutesProgram, CpuInv
  <2> QED BY <2>1, <2>2
<1>10. CpuTyped'
  <2>1. BranchTarget(ex) \in Nat
    BY <1>2 DEF CpuTyped, BranchTarget, Word, SignExtend
  <2>2. cpu'.pc \in Nat BY <1>2, <1>5, <2>1 DEF CpuTyped, Word
  <2>3. IsFd(cpu'.fd) /\ cpu'.fd.pc \in Nat /\ cpu'.fd.instr \in Nat /\ cpu'.fd.valid \in BOOLEAN
    <3>1. CASE taken BY <1>5, <3>1 DEF IsFd
    <3>2. CASE ~taken /\ stall BY <1>2, <1>5, <3>2 DEF CpuTyped
    <3>3. CASE ~taken /\ ~stall BY <1>2, <1>3, <1>5, <3>3 DEF CpuTyped, IsFd
    <3> QED BY <3>1, <3>2, <3>3
  <2>4. IsEx(cpu'.ex) /\ cpu'.ex.pc \in Nat /\ cpu'.ex.imm \in Nat /\ cpu'.ex.imm5 \in Nat
        /\ cpu'.ex.valid \in BOOLEAN
    <3>1. CASE taken \/ stall \/ ~cpu.fd.valid BY <1>2, <1>5, <1>7, <3>1 DEF CpuTyped
    <3>2. CASE ~(taken \/ stall \/ ~cpu.fd.valid)
      <4>1. cpu'.ex = decoded BY <1>5, <3>2
      <4> QED BY <1>2, <1>3, <4>1 DEF CpuTyped, IsEx
    <3> QED BY <3>1, <3>2
  <2>5. IsArch(arch') /\ DOMAIN arch'.rf = 0 .. 7
    <3>1. CASE ~ex.valid BY <1>1, <1>2, <3>1 DEF CpuTyped
    <3>2. CASE ex.valid BY <1>2, <1>8, <3>2 DEF CpuTyped
    <3> QED BY <3>1, <3>2
  <2>6. cpu'.wb.isHalt \in BOOLEAN BY <1>5
  <2> QED BY <1>1, <1>2, <1>5, <2>2, <2>3, <2>4, <2>5, <2>6 DEF CpuTyped
<1>11. NextOnes'
  <2>1. CASE ~ex.valid /\ ~cpu.fd.valid
    <3>1. /\ cpu'.ex.valid = FALSE /\ cpu'.fd = [instr |-> Fetch(cpu.pc), valid |-> TRUE, pc |-> cpu.pc]
          /\ cpu'.pc = Word(cpu.pc + 1) /\ arch' = arch /\ cpu.pc = arch.pc
      BY <1>1, <1>2, <1>5, <1>6, <1>7, <2>1 DEF NextOnes
    <3> QED BY <1>1, <3>1 DEF NextOnes, Fetch
  <2>2. CASE ~ex.valid /\ cpu.fd.valid
    <3>1. /\ cpu'.ex = decoded /\ cpu'.fd = [instr |-> Fetch(cpu.pc), valid |-> TRUE, pc |-> cpu.pc]
          /\ cpu'.pc = Word(cpu.pc + 1) /\ arch' = arch /\ cpu.fd.pc = arch.pc
          /\ cpu.fd.instr = Fetch(arch.pc) /\ cpu.pc = Word(arch.pc + 1)
      BY <1>1, <1>2, <1>5, <1>6, <2>2 DEF NextOnes
    <3>2. HoldsInstruction(cpu.ex, arch.pc)'
      BY <1>1, <3>1 DEF HoldsInstruction, Fetch
    <3>3. cpu'.ex.rs1 = d.rs1 /\ cpu'.ex.rs2 = d.rs2 /\ cpu'.ex.valid = TRUE
          /\ cpu'.ex.data1 = RfRead(cpu, d.rs1) /\ cpu'.ex.data2 = RfRead(cpu, d.rs2)
      BY <3>1
    <3>4. ~cpu'.wb.regWe BY <1>5, <2>2
    <3>5. Operands' BY <1>4, <3>1, <3>3, <3>4 DEF Operands
    <3>7. cpu'.fd.valid = TRUE /\ cpu'.fd.pc = cpu.pc /\ cpu'.fd.instr = Fetch(cpu.pc) BY <3>1
    <3>8. cpu'.fd.instr = program'[(cpu'.fd.pc % Len(program')) + 1] BY <1>1, <3>7 DEF Fetch
    <3> QED BY <3>1, <3>2, <3>3, <3>5, <3>7, <3>8 DEF NextOnes, Fetch
  <2>3. CASE ex.valid /\ taken
    <3>1. cpu'.ex.valid = FALSE /\ cpu'.fd.valid = FALSE /\ cpu'.pc = arch'.pc
      BY <1>5, <1>7, <1>8, <2>3
    <3> QED BY <3>1 DEF NextOnes
  <2>4. CASE ex.valid /\ ~taken /\ stall
    <3>1. cpu'.ex.valid = FALSE /\ cpu'.fd = cpu.fd /\ cpu'.pc = cpu.pc
      BY <1>5, <1>7, <2>4
    <3>2. arch'.pc = Word(arch.pc + 1) BY <1>8, <2>4
    <3>3. cpu.fd.valid /\ cpu.fd.pc = Word(arch.pc + 1) /\ cpu.fd.instr = Fetch(cpu.fd.pc)
          /\ cpu.pc = Word(cpu.fd.pc + 1)
      BY <1>2, <2>4 DEF NextOnes
    <3> QED BY <1>1, <3>1, <3>2, <3>3 DEF NextOnes, Fetch
  <2>5. CASE ex.valid /\ ~taken /\ ~stall
    <3>1. cpu.fd.valid /\ cpu.fd.pc = Word(arch.pc + 1) /\ cpu.fd.instr = Fetch(cpu.fd.pc)
          /\ cpu.pc = Word(cpu.fd.pc + 1)
      BY <1>2, <2>5 DEF NextOnes
    <3>2. /\ cpu'.ex = decoded /\ cpu'.fd = [instr |-> Fetch(cpu.pc), valid |-> TRUE, pc |-> cpu.pc]
          /\ cpu'.pc = Word(cpu.pc + 1) /\ arch'.pc = cpu.fd.pc
      BY <1>5, <1>8, <2>5, <3>1
    <3>3. HoldsInstruction(cpu.ex, arch.pc)'
      BY SMTT(20), <1>1, <3>1, <3>2 DEF HoldsInstruction, Fetch
    <3>4. ex.regWe /\ ex.rd # 0 => ex.rd \notin {d.rs1, d.rs2} BY <2>5 DEF Stall
    <3>5. arch'.rf[d.rs1] = arch.rf[d.rs1] /\ arch'.rf[d.rs2] = arch.rf[d.rs2]
      <4>1. DOMAIN arch.rf = 0 .. 7 BY <1>2 DEF CpuTyped
      <4> HIDE DEF d, ex
      <4> QED BY <1>3, <1>8, <2>5, <3>4, <4>1
    <3>6. cpu'.ex.rs1 = d.rs1 /\ cpu'.ex.rs2 = d.rs2
          /\ cpu'.ex.data1 = RfRead(cpu, d.rs1) /\ cpu'.ex.data2 = RfRead(cpu, d.rs2)
      BY <3>2
    <3>7. Operands' BY <1>4, <1>5, <3>4, <3>5, <3>6 DEF Operands
    <3>8. cpu'.fd.valid = TRUE /\ cpu'.fd.pc = cpu.pc /\ cpu'.fd.instr = Fetch(cpu.pc)
          /\ cpu'.ex.valid = TRUE
      BY <3>2
    <3>9. cpu'.fd.instr = program'[(cpu'.fd.pc % Len(program')) + 1] BY <1>1, <3>8 DEF Fetch
    <3> QED BY <3>1, <3>2, <3>3, <3>7, <3>8, <3>9 DEF NextOnes, Fetch
  <2> QED BY <2>1, <2>2, <2>3, <2>4, <2>5
<1> QED BY <1>9, <1>10, <1>11 DEF CpuInv

(* For every program, every depth of the data memory and resets at any     *)
(* edge: what the pipeline has written back is what the instructions do    *)
(* one after the other, with stalls, forwarding and flushed branches.      *)
THEOREM PipelineIsCorrect == CpuSpec => []PipelineExecutesProgram
<1>1. CpuInv /\ [CpuNext]_cpuVars => CpuInv'
  <2> SUFFICES ASSUME CpuInv, [CpuNext]_cpuVars PROVE CpuInv' OBVIOUS
  <2>1. CASE CpuEdge BY <2>1, CpuEdgeInv
  <2>2. CASE CpuResetEdge BY <2>2, CpuResetInv
  <2>3. CASE UNCHANGED cpuVars
    <3>1. program' = program /\ cpu' = cpu /\ arch' = arch BY <2>3 DEF cpuVars
    <3> QED BY <3>1 DEF CpuInv, CpuTyped, NextOnes, HoldsInstruction, Operands, Fetch,
                        PipelineExecutesProgram
  <2> QED BY <2>1, <2>2, <2>3 DEF CpuNext, CpuStops
<1>2. CpuInv => PipelineExecutesProgram BY DEF CpuInv
<1> QED BY <1>1, <1>2, CpuInitInv, PTL DEF CpuSpec

-------------------------------------------------------------------------------
(***************************************************************************)
(* The blocks of ip.py and the bench that drives them.                     *)
(***************************************************************************)
LEMMA Parameters ==
    /\ FifoDepth \in Nat \ {0} /\ Requestors \in Nat \ {0} /\ Threshold \in Nat \ {0}
    /\ Credits \in Nat \ {0} /\ Space \in Nat \ {0} /\ Space > 1
  BY IpAssumption

(***************************************************************************)
(* Remainders                                                              *)
(***************************************************************************)
LEMMA ModRange ==
    ASSUME NEW n \in Nat \ {0}, NEW x \in Nat
    PROVE  x % n \in Nat /\ x % n < n /\ x % n \in 0 .. n - 1
  OBVIOUS

LEMMA ModIs ==
    ASSUME NEW n \in Nat \ {0}, NEW x \in Nat
    PROVE  /\ x < n => x % n = x
           /\ n <= x /\ x < 2 * n => x % n = x - n
  OBVIOUS

\* Division with a rest.
LEMMA DivRest ==
    ASSUME NEW n \in Nat \ {0}, NEW x \in Nat
    PROVE  /\ x \div n \in Nat /\ x % n \in Nat /\ x % n < n
           /\ x = n * (x \div n) + (x % n)
<1> DEFINE d == x \div n
<1>1. n * d <= x /\ x < n * d + n OBVIOUS
<1>2. d \in Int OBVIOUS
<1>6. x = n * (x \div n) + (x % n) OBVIOUS
<1>. HIDE DEF d
<1>4. ASSUME d < 0 PROVE FALSE
  <2>1. n * (d + 1) <= 0 BY <1>2, <1>4
  <2>2. n * (d + 1) = n * d + n BY <1>2
  <2>. QED BY <1>1, <1>2, <2>1, <2>2
<1>5. d \in Nat BY <1>2, <1>4
<1>. QED BY <1>5, <1>6, ModRange DEF d

LEMMA ModUnique ==
    ASSUME NEW n \in Nat \ {0}, NEW q \in Nat, NEW r \in Nat, r < n
    PROVE  (q * n + r) % n = r
<1> DEFINE x == q * n + r
           d == x \div n
<1>1. x \in Nat /\ q * n \in Nat OBVIOUS
<1>2. d \in Nat /\ x % n \in Nat /\ x % n < n /\ x = n * d + (x % n)
  <2>. HIDE DEF x
  <2>. QED BY <1>1, DivRest DEF d
<1>. HIDE DEF x, d
<1>3. x = q * n + r BY DEF x
<1>4. CASE d < q
  <2>1. n * (d + 1) <= n * q BY <1>2, <1>4
  <2>2. n * (d + 1) = n * d + n BY <1>2
  <2>. QED BY <1>2, <1>3, <2>1, <2>2
<1>5. CASE q < d
  <2>1. n * (q + 1) <= n * d BY <1>2, <1>5
  <2>2. n * (q + 1) = n * q + n OBVIOUS
  <2>. QED BY <1>2, <1>3, <2>1, <2>2
<1>6. CASE d = q BY <1>2, <1>3, <1>6
<1>. QED BY <1>2, <1>4, <1>5, <1>6 DEF x

\* A remainder may be taken early, of the modulus or of twice the modulus.
LEMMA ModEarly ==
    ASSUME NEW n \in Nat \ {0}, NEW x \in Nat, NEW y \in Nat
    PROVE  /\ ((x % n) + y) % n = (x + y) % n
           /\ ((x % (2 * n)) + y) % n = (x + y) % n
<1>1. ASSUME NEW z \in Nat, NEW k \in Nat PROVE (z + k * n) % n = z % n
  <2>1. z \div n \in Nat /\ z % n \in Nat /\ z % n < n /\ z = n * (z \div n) + (z % n) BY DivRest
  <2> DEFINE d == z \div n
             r == z % n
  <2>2. z + k * n = (d + k) * n + r
    <3>. HIDE DEF d, r
    <3>1. d \in Nat /\ r \in Nat /\ z = n * d + r BY <2>1 DEF d, r
    <3>. QED BY <3>1
  <2>3. d + k \in Nat BY <2>1
  <2>. HIDE DEF d
  <2>. QED BY <2>1, <2>2, <2>3, ModUnique
<1>2. x \div n \in Nat /\ x % n \in Nat /\ x = n * (x \div n) + (x % n)
  BY DivRest
<1>3. x \div (2 * n) \in Nat /\ x % (2 * n) \in Nat /\ x = (2 * n) * (x \div (2 * n)) + (x % (2 * n))
  BY DivRest, 2 * n \in Nat \ {0}
<1>4. ((x % n) + y) % n = (x + y) % n
  <2> DEFINE a == x % n
             b == x \div n
  <2>1. a \in Nat /\ b \in Nat /\ x = a + b * n BY <1>2
  <2>. HIDE DEF a, b
  <2>2. a + y \in Nat /\ x + y = (a + y) + b * n BY <2>1
  <2>3. ((a + y) + b * n) % n = (a + y) % n BY <1>1, <2>1, <2>2
  <2>. QED BY <2>2, <2>3 DEF a
<1>5. ((x % (2 * n)) + y) % n = (x + y) % n
  <2> DEFINE a == x % (2 * n)
             b == x \div (2 * n)
  <2>1. a \in Nat /\ b \in Nat /\ x = a + b * (2 * n) BY <1>3
  <2>. HIDE DEF a, b
  <2>2. a + y \in Nat /\ 2 * b \in Nat /\ x + y = (a + y) + (2 * b) * n BY <2>1
  <2>3. ((a + y) + (2 * b) * n) % n = (a + y) % n BY <1>1, <2>1, <2>2
  <2>. QED BY <2>2, <2>3 DEF a
<1>. QED BY <1>4, <1>5

\* Numbers less than n apart have different remainders.
LEMMA ModApart ==
    ASSUME NEW n \in Nat \ {0}, NEW x \in Nat, NEW y \in Nat, x < y, y < x + n
    PROVE  x % n # y % n
<1> DEFINE a == x \div n
           b == y \div n
<1>1. /\ a \in Nat /\ x % n \in Nat /\ x % n < n /\ x = n * a + (x % n)
      /\ b \in Nat /\ y % n \in Nat /\ y % n < n /\ y = n * b + (y % n)
  BY DivRest
<1>. HIDE DEF a, b
<1>2. CASE a = b BY <1>1, <1>2
<1>3. CASE a < b
  <2>1. n * b >= n * (a + 1) BY <1>1, <1>3
  <2>2. n * (a + 1) = n * a + n BY <1>1
  <2>. QED BY <1>1, <2>1, <2>2
<1>4. CASE b < a
  <2>1. n * a >= n * (b + 1) BY <1>1, <1>4
  <2>2. n * (b + 1) = n * b + n BY <1>1
  <2>. QED BY <1>1, <2>1, <2>2
<1>. QED BY <1>1, <1>2, <1>3, <1>4

\* The least-number principle, for sets.
LEMMA Least ==
    ASSUME NEW S, S \subseteq Nat, NEW e \in S
    PROVE  \E m \in S : \A n \in S : m <= n
<1> DEFINE R == {ss \in Nat \X Nat : ss[1] < ss[2]}
<1>1. IsWellFoundedOn(R, Nat) BY NatLessThanWellFounded DEF OpToRel
<1>2. \E m \in S : \A n \in S : ~ (<<n, m>> \in R)
  <2>. HIDE DEF R
  <2>. QED BY <1>1, WFMin
<1>3. PICK m \in S : \A n \in S : ~ (<<n, m>> \in R) BY <1>2
<1>4. ASSUME NEW n \in S PROVE m <= n
  <2>1. <<n, m>> \in R <=> n < m OBVIOUS
  <2>. QED BY <2>1, <1>3
<1>. QED BY <1>4

(***************************************************************************)
(* Each action belongs to one block, and no action changes it.             *)
(***************************************************************************)
LEMMA StepOfBlock ==
    ASSUME [IpNext]_ipVars
    PROVE  /\ block' = block
           /\ block = "SyncFifo" => SyncFifoEdge \/ ResetEdge \/ UNCHANGED ipVars
           /\ block = "RoundRobinArbiter" => ArbiterEdge \/ ResetEdge \/ UNCHANGED ipVars
           /\ block = "Debouncer" => DebouncerEdge \/ UNCHANGED ipVars
           /\ block = "CreditFlowControl" => CreditEdge \/ ResetEdge \/ UNCHANGED ipVars
           /\ block = "DmaEngine" =>
                \/ \E awake, answers, noise \in BOOLEAN : DmaEdge(awake, answers, noise)
                \/ ResetEdge \/ UNCHANGED ipVars
  BY DEF IpNext, ipVars, SyncFifoEdge, ArbiterEdge, DebouncerEdge, CreditEdge, DmaEdge, ResetEdge

(***************************************************************************)
(* Credits                                                                 *)
(***************************************************************************)
LEMMA CreditsHold == IpSpec => []CreditsConserved
<1>1. IpInit => CreditsConserved BY Parameters DEF IpInit, CreditsConserved
<1>2. CreditsConserved /\ [IpNext]_ipVars => CreditsConserved'
  <2> SUFFICES ASSUME CreditsConserved, [IpNext]_ipVars, block' = "CreditFlowControl"
               PROVE  reg' \in 0 .. Credits /\ seen' = Credits - reg'
    BY DEF CreditsConserved
  <2>1. block = "CreditFlowControl" /\ (CreditEdge \/ ResetEdge \/ UNCHANGED ipVars)
    BY StepOfBlock
  <2>2. reg \in 0 .. Credits /\ seen = Credits - reg BY <2>1 DEF CreditsConserved
  <2>3. CASE CreditEdge
    BY <2>2, <2>3, Parameters DEF CreditEdge, CreditUpdate, SendReady, RecvReady
  <2>4. CASE ResetEdge BY <2>1, <2>4, Parameters DEF ResetEdge
  <2>5. CASE UNCHANGED ipVars BY <2>2, <2>5 DEF ipVars
  <2>. QED BY <2>1, <2>3, <2>4, <2>5
<1>. QED BY <1>1, <1>2, PTL DEF IpSpec

(***************************************************************************)
(* The arbiter: an agent that has waited for some edges is so much nearer  *)
(* to the pointer.                                                         *)
(***************************************************************************)
Distance(k, ptr) == (k + Requestors - ptr) % Requestors

LEMMA DistanceIs ==
    ASSUME NEW k \in Agents, NEW ptr \in Agents
    PROVE  /\ Distance(k, ptr) = IF k < ptr THEN k + Requestors - ptr ELSE k - ptr
           /\ Distance(k, ptr) \in Agents
<1>1. /\ k \in Nat /\ ptr \in Nat /\ k < Requestors /\ ptr < Requestors
      /\ Requestors \in Nat \ {0}
  BY Parameters DEF Agents
<1>2. k + Requestors - ptr \in Nat BY <1>1
<1> DEFINE x == k + Requestors - ptr
<1>3. /\ x < Requestors => x % Requestors = x
      /\ Requestors <= x /\ x < 2 * Requestors => x % Requestors = x - Requestors
  <2>1. x \in Nat BY <1>2
  <2>. HIDE DEF x
  <2>. QED BY <1>1, <2>1, ModIs
<1>4. x = k + Requestors - ptr /\ Distance(k, ptr) = x % Requestors BY DEF Distance
<1>. HIDE DEF x
<1>5. Distance(k, ptr) = IF k < ptr THEN k + Requestors - ptr ELSE k - ptr
  BY <1>1, <1>3, <1>4
<1>. QED BY <1>1, <1>5 DEF Agents

\* One request is granted, and every other one is behind it.
LEMMA FirstFromIs ==
    ASSUME NEW ptr \in Agents, NEW req \in SUBSET Agents, req # {}
    PROVE  LET k == FirstFrom(Requestors, ptr, req) IN
           /\ k \in req
           /\ \A j \in req : Distance(k, ptr) <= Distance(j, ptr)
<1> DEFINE ds == {Distance(j, ptr) : j \in req}
<1>1. ds \subseteq Nat BY DistanceIs, Parameters DEF Agents
<1>2. PICK d \in ds : \A e \in ds : d <= e
  <2>1. PICK j \in req : TRUE OBVIOUS
  <2>2. Distance(j, ptr) \in ds OBVIOUS
  <2>. HIDE DEF ds
  <2>. QED BY <1>1, <2>2, Least
<1>3. \E k \in req : \A j \in req : Distance(k, ptr) <= Distance(j, ptr) BY <1>2
<1>4. FirstFrom(Requestors, ptr, req) =
        CHOOSE k \in req : \A j \in req : Distance(k, ptr) <= Distance(j, ptr)
  BY DEF FirstFrom, Distance
<1>. QED BY <1>3, <1>4

\* What is behind the one that is granted comes nearer, by one at least.
LEMMA Nearer ==
    ASSUME NEW ptr \in Agents, NEW k \in Agents, NEW a \in Agents, a # k,
           Distance(k, ptr) <= Distance(a, ptr)
    PROVE  /\ (k + 1) % Requestors \in Agents
           /\ Distance(a, (k + 1) % Requestors) < Distance(a, ptr)
<1> DEFINE n == Requestors
           p == (k + 1) % n
<1>1. /\ k \in Nat /\ ptr \in Nat /\ a \in Nat /\ k < n /\ ptr < n /\ a < n /\ n \in Nat \ {0}
  BY Parameters DEF Agents
<1>2. p = IF k + 1 = n THEN 0 ELSE k + 1
  <2> DEFINE x == k + 1
  <2>1. x \in Nat /\ n \in Nat \ {0} BY <1>1
  <2>2. (x < n => x % n = x) /\ (n <= x /\ x < 2 * n => x % n = x - n)
    <3>. HIDE DEF x, n
    <3>. QED BY <2>1, ModIs
  <2>3. p = x % n /\ x = k + 1 OBVIOUS
  <2>. HIDE DEF x, n, p
  <2>. QED BY <1>1, <2>1, <2>2, <2>3
<1>3. p \in Agents BY <1>1, <1>2 DEF Agents
<1>4. Distance(a, p) = IF a < p THEN a + n - p ELSE a - p BY <1>3, DistanceIs
<1>5. /\ Distance(a, ptr) = IF a < ptr THEN a + n - ptr ELSE a - ptr
      /\ Distance(k, ptr) = IF k < ptr THEN k + n - ptr ELSE k - ptr
  BY DistanceIs
<1>. HIDE DEF p, n
<1>6. Distance(a, p) < Distance(a, ptr) BY <1>1, <1>2, <1>4, <1>5
<1>. QED BY <1>3, <1>6 DEF p, n

ArbiterInv ==
  block = "RoundRobinArbiter" =>
    /\ reg.ptr \in Agents
    /\ seen \in [Agents -> Nat]
    /\ \A a \in Agents : seen[a] + Distance(a, reg.ptr) < Requestors
    /\ Cardinality(reg.grant) <= 1 /\ Cardinality(reg.fixed) <= 1

LEMMA ZeroAgent == 0 \in Agents BY Parameters DEF Agents

LEMMA OneAtMost == Cardinality({}) <= 1 /\ \A k : Cardinality({k}) <= 1
  BY FS_EmptySet, FS_Singleton

LEMMA ArbiterStart ==
    ASSUME reg.ptr = 0, reg.grant = {}, reg.fixed = {}, seen = [a \in Agents |-> 0]
    PROVE  ArbiterInv
<1>1. \A a \in Agents : Distance(a, 0) \in Agents BY ZeroAgent, DistanceIs
<1>2. \A a \in Agents : a < Requestors /\ a \in Nat BY Parameters DEF Agents
<1>3. \A a \in Agents : seen[a] + Distance(a, reg.ptr) < Requestors BY <1>1, <1>2
<1>. QED BY <1>3, ZeroAgent, OneAtMost DEF ArbiterInv

LEMMA ArbiterEdgeKeeps ==
    ASSUME ArbiterInv, ArbiterEdge
    PROVE  ArbiterInv'
<1>1. block = "RoundRobinArbiter" /\ block' = block BY DEF ArbiterEdge
<1>2. /\ reg.ptr \in Agents /\ seen \in [Agents -> Nat]
      /\ \A a \in Agents : seen[a] + Distance(a, reg.ptr) < Requestors
  BY <1>1 DEF ArbiterInv
<1>3. PICK req \in SUBSET Agents :
        /\ LET rr == RoundRobinUpdate(Requestors, [ptr |-> reg.ptr, grant |-> reg.grant], req)
           IN reg' = [ptr |-> rr.ptr, grant |-> rr.grant, fixed |-> PriorityUpdate(Requestors, req)]
        /\ seen' = [a \in Agents |-> IF a \in req \ reg'.grant THEN seen[a] + 1 ELSE 0]
  BY DEF ArbiterEdge
<1>4. Cardinality(reg'.fixed) <= 1 BY <1>3, OneAtMost DEF PriorityUpdate
<1>5. seen' \in [Agents -> Nat] BY <1>2, <1>3
<1>6. \A a \in Agents : \A p \in Agents : Distance(a, p) \in Nat /\ Distance(a, p) < Requestors
  BY DistanceIs, Parameters DEF Agents
<1>7. CASE req = {}
  <2>1. reg'.ptr = reg.ptr /\ reg'.grant = {} BY <1>3, <1>7 DEF RoundRobinUpdate
  <2>2. \A a \in Agents : seen'[a] = 0 BY <1>3, <1>7
  <2>3. \A a \in Agents : seen'[a] + Distance(a, reg'.ptr) < Requestors
    BY <1>2, <1>6, <2>1, <2>2
  <2>. QED BY <1>2, <1>4, <1>5, <2>1, <2>3, OneAtMost DEF ArbiterInv
<1>8. CASE req # {}
  <2> DEFINE k == FirstFrom(Requestors, reg.ptr, req)
  <2>1. reg'.ptr = (k + 1) % Requestors /\ reg'.grant = {k}
    BY <1>3, <1>8 DEF RoundRobinUpdate
  <2>2. k \in req /\ k \in Agents /\ \A j \in req : Distance(k, reg.ptr) <= Distance(j, reg.ptr)
    BY <1>2, <1>8, FirstFromIs
  <2>. HIDE DEF k
  <2>3. (k + 1) % Requestors \in Agents
    <3>1. k + 1 \in Nat /\ Requestors \in Nat \ {0} BY <2>2, Parameters DEF Agents
    <3>. QED BY <3>1, ModRange DEF Agents
  <2>4. ASSUME NEW a \in Agents PROVE seen'[a] + Distance(a, reg'.ptr) < Requestors
    <3>1. CASE a \in req /\ a # k
      <4>1. seen'[a] = seen[a] + 1 BY <1>3, <2>1, <3>1
      <4>2. Distance(a, reg'.ptr) < Distance(a, reg.ptr)
        BY <1>2, <2>1, <2>2, <3>1, Nearer
      <4>3. seen[a] \in Nat /\ seen[a] + Distance(a, reg.ptr) < Requestors BY <1>2
      <4>. QED BY <1>2, <1>6, <2>1, <2>3, <4>1, <4>2, <4>3, Parameters
    <3>2. CASE ~(a \in req /\ a # k)
      <4>1. seen'[a] = 0 BY <1>3, <2>1, <3>2
      <4>. QED BY <1>6, <2>1, <2>3, <4>1
    <3>. QED BY <3>1, <3>2
  <2>. QED BY <1>4, <1>5, <2>1, <2>3, <2>4, OneAtMost DEF ArbiterInv
<1>. QED BY <1>7, <1>8

(* Whatever the number of requestors: one that goes on asking is granted    *)
(* within as many edges as there are requestors, and no two are granted.    *)
THEOREM ArbiterIsFair == IpSpec => []NobodyStarves
<1>1. IpInit => ArbiterInv
  <2> SUFFICES ASSUME IpInit, block = "RoundRobinArbiter" PROVE ArbiterInv
    BY DEF ArbiterInv
  <2>. QED BY ArbiterStart DEF IpInit
<1>2. ArbiterInv /\ [IpNext]_ipVars => ArbiterInv'
  <2> SUFFICES ASSUME ArbiterInv, [IpNext]_ipVars, block' = "RoundRobinArbiter"
               PROVE  ArbiterInv'
    BY DEF ArbiterInv
  <2>1. block = "RoundRobinArbiter" /\ (ArbiterEdge \/ ResetEdge \/ UNCHANGED ipVars)
    BY StepOfBlock
  <2>2. CASE ResetEdge
    <3>1. reg' = [ptr |-> 0, grant |-> {}, fixed |-> {}] /\ seen' = [a \in Agents |-> 0]
      BY <2>1, <2>2 DEF ResetEdge
    <3>2. \A a \in Agents : Distance(a, 0) \in Agents BY ZeroAgent, DistanceIs
    <3>3. \A a \in Agents : a < Requestors /\ a \in Nat BY Parameters DEF Agents
    <3>4. \A a \in Agents : seen'[a] + Distance(a, reg'.ptr) < Requestors BY <3>1, <3>2, <3>3
    <3>. QED BY <3>1, <3>4, ZeroAgent, OneAtMost DEF ArbiterInv
  <2>3. CASE UNCHANGED ipVars BY <2>3 DEF ArbiterInv, ipVars
  <2>. QED BY <2>1, <2>2, <2>3, ArbiterEdgeKeeps
<1>3. ArbiterInv => NobodyStarves
  <2> SUFFICES ASSUME ArbiterInv, block = "RoundRobinArbiter" PROVE NobodyStarves
    BY DEF NobodyStarves
  <2>1. ASSUME NEW a \in Agents PROVE seen[a] < Requestors
    <3>1. /\ reg.ptr \in Agents /\ seen[a] \in Nat
          /\ seen[a] + Distance(a, reg.ptr) < Requestors
      BY DEF ArbiterInv
    <3>2. Distance(a, reg.ptr) \in Nat BY <3>1, DistanceIs DEF Agents
    <3>. QED BY <3>1, <3>2, Parameters
  <2>2. Cardinality(reg.grant) <= 1 /\ Cardinality(reg.fixed) <= 1 BY DEF ArbiterInv
  <2>. QED BY <2>1, <2>2 DEF NobodyStarves
<1>. QED BY <1>1, <1>2, <1>3, PTL DEF IpSpec

(***************************************************************************)
(* The debouncer                                                           *)
(***************************************************************************)
Sample(s, k) == s[Len(s) + 1 - k]

DebounceInv ==
  block = "Debouncer" =>
    /\ reg.deb \in [cnt : Nat, q : BOOLEAN]
    /\ seen \in Seq(BOOLEAN) /\ Len(seen) <= Threshold
    /\ reg.deb.cnt <= Len(seen) /\ reg.deb.cnt < Threshold
    /\ \A k \in 1 .. reg.deb.cnt : Sample(seen, k) # reg.deb.q
    /\ reg.deb.cnt < Len(seen) => Sample(seen, reg.deb.cnt + 1) = reg.deb.q
    /\ Len(seen) < Threshold => ~reg.deb.q

\* A sample comes at the end; what falls off is the oldest.
LEMMA SamplesShift ==
    ASSUME NEW s \in Seq(BOOLEAN), Len(s) <= Threshold, NEW d \in BOOLEAN,
           NEW t, Len(s) = Threshold => t = Append(Tail(s), d),
           Len(s) # Threshold => t = Append(s, d)
    PROVE  /\ t \in Seq(BOOLEAN) /\ Len(t) <= Threshold
           /\ Len(t) = IF Len(s) = Threshold THEN Threshold ELSE Len(s) + 1
           /\ Sample(t, 1) = d
           /\ \A k \in Nat \ {0} : k < Len(t) => Sample(t, k + 1) = Sample(s, k)
<1>1. Threshold \in Nat \ {0} /\ Len(s) \in Nat BY Parameters
<1>2. CASE Len(s) = Threshold
  <2>1. s # <<>> BY <1>1, <1>2
  <2>2. Tail(s) \in Seq(BOOLEAN) /\ Len(Tail(s)) = Threshold - 1
        /\ \A k \in 1 .. Threshold - 1 : Tail(s)[k] = s[k + 1]
    BY <1>1, <1>2, <2>1, HeadTailProperties
  <2>3. t = Append(Tail(s), d) BY <1>2
  <2>4. t \in Seq(BOOLEAN) /\ Len(t) = Threshold /\ t[Threshold] = d
        /\ \A k \in 1 .. Threshold - 1 : t[k] = Tail(s)[k]
    BY <1>1, <2>2, <2>3, AppendProperties
  <2>5. ASSUME NEW k \in Nat \ {0}, k < Len(t) PROVE Sample(t, k + 1) = Sample(s, k)
    <3>1. Threshold - k \in 1 .. Threshold - 1 BY <1>1, <2>4, <2>5
    <3>2. t[Threshold - k] = s[(Threshold - k) + 1] BY <2>2, <2>4, <3>1
    <3>3. Len(t) + 1 - (k + 1) = Threshold - k /\ Len(s) + 1 - k = (Threshold - k) + 1
      BY <1>1, <1>2, <2>4
    <3>. QED BY <3>2, <3>3 DEF Sample
  <2>6. Sample(t, 1) = d
    <3>1. Len(t) + 1 - 1 = Threshold BY <1>1, <2>4
    <3>. QED BY <2>4, <3>1 DEF Sample
  <2>. QED BY <1>1, <1>2, <2>4, <2>5, <2>6
<1>3. CASE Len(s) # Threshold
  <2>3. t = Append(s, d) BY <1>3
  <2>1. /\ Append(s, d) \in Seq(BOOLEAN) /\ Len(Append(s, d)) = Len(s) + 1
        /\ \A k \in 1 .. Len(s) : Append(s, d)[k] = s[k]
        /\ Append(s, d)[Len(s) + 1] = d
    BY AppendProperties
  <2>4. t \in Seq(BOOLEAN) /\ Len(t) = Len(s) + 1 /\ t[Len(s) + 1] = d
        /\ \A k \in 1 .. Len(s) : t[k] = s[k]
    BY <2>1, <2>3
  <2>5. ASSUME NEW k \in Nat \ {0}, k < Len(t) PROVE Sample(t, k + 1) = Sample(s, k)
    <3>1. Len(s) + 1 - k \in 1 .. Len(s) BY <1>1, <2>4, <2>5
    <3>2. Len(t) + 1 - (k + 1) = Len(s) + 1 - k
      <4>1. Len(t) = Len(s) + 1 /\ Len(s) \in Nat /\ k \in Nat BY <1>1, <2>4
      <4>. QED BY <4>1
    <3>. QED BY <2>4, <3>1, <3>2 DEF Sample
  <2>6. Sample(t, 1) = d
    <3>1. Len(t) + 1 - 1 = Len(s) + 1 BY <1>1, <2>4
    <3>. QED BY <2>4, <3>1 DEF Sample
  <2>. QED BY <1>1, <1>3, <2>4, <2>5, <2>6
<1>. QED BY <1>2, <1>3

LEMMA DebouncerEdgeKeeps ==
    ASSUME DebounceInv, DebouncerEdge
    PROVE  DebounceInv'
<1>1. block = "Debouncer" /\ block' = block BY DEF DebouncerEdge
<1>2. PICK d \in BOOLEAN :
        /\ reg'.deb = DebouncerLogic(Threshold, reg.deb, d)
        /\ seen' = IF Len(seen) = Threshold THEN Append(Tail(seen), d) ELSE Append(seen, d)
  BY DEF DebouncerEdge
<1> DEFINE n == reg.deb.cnt
           q == reg.deb.q
           n2 == reg'.deb.cnt
           q2 == reg'.deb.q
<1>3. /\ reg.deb \in [cnt : Nat, q : BOOLEAN] /\ n \in Nat /\ q \in BOOLEAN
      /\ seen \in Seq(BOOLEAN) /\ Len(seen) <= Threshold /\ Len(seen) \in Nat
      /\ n <= Len(seen) /\ n < Threshold
      /\ \A k \in 1 .. n : Sample(seen, k) # q
      /\ n < Len(seen) => Sample(seen, n + 1) = q
      /\ Len(seen) < Threshold => ~q
  BY <1>1 DEF DebounceInv
<1>4. /\ seen' \in Seq(BOOLEAN) /\ Len(seen') <= Threshold /\ Len(seen') \in Nat
      /\ Len(seen') = IF Len(seen) = Threshold THEN Threshold ELSE Len(seen) + 1
      /\ Sample(seen', 1) = d
      /\ \A k \in Nat \ {0} : k < Len(seen') => Sample(seen', k + 1) = Sample(seen, k)
  <2>1. /\ Len(seen) = Threshold => seen' = Append(Tail(seen), d)
        /\ Len(seen) # Threshold => seen' = Append(seen, d)
    BY <1>2
  <2>2. seen \in Seq(BOOLEAN) /\ Len(seen) <= Threshold BY <1>3
  <2>3. /\ seen' \in Seq(BOOLEAN) /\ Len(seen') <= Threshold
        /\ Len(seen') = IF Len(seen) = Threshold THEN Threshold ELSE Len(seen) + 1
        /\ Sample(seen', 1) = d
        /\ \A k \in Nat \ {0} : k < Len(seen') => Sample(seen', k + 1) = Sample(seen, k)
    BY <2>1, <2>2, SamplesShift
  <2>. QED BY <2>3
<1>5. /\ reg'.deb \in [cnt : Nat, q : BOOLEAN]
      /\ d = q \/ n = Threshold - 1 => n2 = 0 /\ q2 = d
      /\ d # q /\ n # Threshold - 1 => n2 = n + 1 /\ q2 = q
  <2> DEFINE r == reg.deb
             r2 == reg'.deb
  <2>1. r \in [cnt : Nat, q : BOOLEAN] /\ r2 = DebouncerLogic(Threshold, r, d)
    BY <1>2, <1>3
  <2>. HIDE DEF r, r2
  <2>2. /\ r2 \in [cnt : Nat, q : BOOLEAN]
        /\ d = r.q \/ r.cnt = Threshold - 1 => r2.cnt = 0 /\ r2.q = d
        /\ d # r.q /\ r.cnt # Threshold - 1 => r2.cnt = r.cnt + 1 /\ r2.q = r.q
    <3>1. CASE d = r.q
      <4>1. r2 = [r EXCEPT !.cnt = 0] BY <2>1, <3>1 DEF DebouncerLogic
      <4>2. r2.cnt = 0 /\ r2.q = r.q /\ r2 \in [cnt : Nat, q : BOOLEAN] BY <2>1, <4>1
      <4>. QED BY <3>1, <4>2
    <3>2. CASE d # r.q /\ r.cnt = Threshold - 1
      <4>1. r2 = [cnt |-> 0, q |-> d] BY <2>1, <3>2 DEF DebouncerLogic
      <4>2. r2.cnt = 0 /\ r2.q = d /\ r2 \in [cnt : Nat, q : BOOLEAN] BY <4>1
      <4>. QED BY <3>2, <4>1, <4>2
    <3>3. CASE d # r.q /\ r.cnt # Threshold - 1
      <4>1. r2 = [r EXCEPT !.cnt = @ + 1] BY <2>1, <3>3 DEF DebouncerLogic
      <4>2. r.cnt \in Nat BY <2>1
      <4>3. r2.cnt = r.cnt + 1 /\ r2.q = r.q /\ r2 \in [cnt : Nat, q : BOOLEAN]
        BY <2>1, <4>1, <4>2
      <4>. QED BY <3>3, <4>2, <4>3
    <3>. QED BY <3>1, <3>2, <3>3
  <2>. QED BY <2>2 DEF r, r2
<1>. HIDE DEF n, q, n2, q2
<1>6. n2 <= Len(seen') /\ n2 < Threshold BY <1>3, <1>4, <1>5, Parameters
<1>7. ASSUME NEW k \in 1 .. n2 PROVE Sample(seen', k) # q2
  <2>1. d # q /\ n2 = n + 1 /\ q2 = q BY <1>3, <1>5, <1>7
  <2>2. CASE k = 1 BY <1>4, <2>1, <2>2
  <2>3. CASE k # 1
    <3>1. k - 1 \in Nat \ {0} /\ k - 1 \in 1 .. n /\ k - 1 < Len(seen') /\ (k - 1) + 1 = k
      BY <1>3, <1>4, <1>6, <2>1, <2>3
    <3>2. Sample(seen', (k - 1) + 1) = Sample(seen, k - 1) BY <1>4, <3>1
    <3>. QED BY <1>3, <2>1, <3>1, <3>2
  <2>. QED BY <2>2, <2>3
<1>8. ASSUME n2 < Len(seen') PROVE Sample(seen', n2 + 1) = q2
  <2>1. CASE n2 = 0 BY <1>3, <1>4, <1>5, <2>1
  <2>2. CASE n2 # 0
    <3>1. d # q /\ n2 = n + 1 /\ q2 = q BY <1>3, <1>5, <2>2
    <3>2. n2 \in Nat \ {0} /\ n < Len(seen) BY <1>3, <1>4, <1>8, <3>1
    <3>3. Sample(seen', n2 + 1) = Sample(seen, n + 1) BY <1>4, <1>8, <3>1, <3>2
    <3>. QED BY <1>3, <3>1, <3>2, <3>3
  <2>. QED BY <2>1, <2>2
<1>9. Len(seen') < Threshold => ~q2 BY <1>3, <1>4, <1>5, Parameters
<1>. QED BY <1>4, <1>5, <1>6, <1>7, <1>8, <1>9 DEF DebounceInv, n, q, n2, q2

LEMMA DebouncerHolds == IpSpec => []DebounceCounts
<1>1. IpInit => DebounceInv
  <2>. SUFFICES ASSUME IpInit, block = "Debouncer" PROVE DebounceInv BY DEF DebounceInv
  <2>1. reg.deb = [cnt |-> 0, q |-> FALSE] /\ seen = <<>> BY DEF IpInit
  <2>2. seen \in Seq(BOOLEAN) /\ Len(seen) = 0 BY <2>1
  <2>. QED BY <2>1, <2>2, Parameters DEF DebounceInv
<1>2. DebounceInv /\ [IpNext]_ipVars => DebounceInv'
  <2> SUFFICES ASSUME DebounceInv, [IpNext]_ipVars, block' = "Debouncer" PROVE DebounceInv'
    BY DEF DebounceInv
  <2>1. block = "Debouncer" /\ (DebouncerEdge \/ UNCHANGED ipVars) BY StepOfBlock
  <2>2. CASE UNCHANGED ipVars BY <2>2 DEF DebounceInv, ipVars
  <2>. QED BY <2>1, <2>2, DebouncerEdgeKeeps
<1>3. DebounceInv => DebounceCounts BY DEF DebounceInv, DebounceCounts, Sample
<1>. QED BY <1>1, <1>2, <1>3, PTL DEF IpSpec

(***************************************************************************)
(* The FIFO: the words that were pushed and not popped lie from the read   *)
(* pointer on, and end at the write pointer; the last of them, as many as  *)
(* there are cells, are still in the memory.  There can be more of them    *)
(* than the counter says, because an edge that pushes and pops takes one   *)
(* off the counter alone.                                                  *)
(***************************************************************************)
Cells == 0 .. FifoDepth - 1

Pointers == 0 .. 2 * FifoDepth - 1

Memories == [Cells -> Words \cup {0}]

\* The words q are between the pointers r and w of the memory m.
Between(q, m, r, w) ==
  /\ q \in Seq(Words)
  /\ w = (r + Len(q)) % (2 * FifoDepth)
  /\ \A k \in 1 .. Len(q) :
       Len(q) - k < FifoDepth => q[k] = m[(r + (k - 1)) % FifoDepth]

FifoInv ==
  block = "SyncFifo" =>
    /\ reg \in [wptr : Pointers, rptr : Pointers, cnt : 0 .. FifoDepth, mem : Memories]
    /\ seen \in [words : Seq(Words), joint : Nat]
    /\ Len(seen.words) = reg.cnt + seen.joint
    /\ Between(seen.words, reg.mem, reg.rptr, reg.wptr)

\* Where the words of a queue of n words lie.
LEMMA CellsOf ==
    ASSUME NEW r \in Pointers, NEW n \in Nat
    PROVE  /\ (((r + n) % (2 * FifoDepth)) % FifoDepth) = (r + n) % FifoDepth
           /\ (((r + n) % (2 * FifoDepth)) + 1) % (2 * FifoDepth) = (r + (n + 1)) % (2 * FifoDepth)
           /\ \A k \in 1 .. n : (r + (k - 1)) % FifoDepth \in Cells
           /\ \A k \in 1 .. n : n + 1 - k < FifoDepth =>
                (r + (k - 1)) % FifoDepth # (r + n) % FifoDepth
           /\ (r + n) % FifoDepth \in Cells
<1>1. r \in Nat /\ n \in Nat /\ FifoDepth \in Nat \ {0} /\ 2 * FifoDepth \in Nat \ {0}
      /\ r + n \in Nat
  BY Parameters DEF Pointers
<1> DEFINE x == r + n
           D == FifoDepth
           T == 2 * FifoDepth
<1>2. x \in Nat /\ D \in Nat \ {0} /\ T \in Nat \ {0} /\ T = 2 * D BY <1>1
<1>3. x % T \in Nat /\ x % D \in 0 .. D - 1
  <2>. HIDE DEF x, D, T
  <2>. QED BY <1>2, ModRange
<1>4. (x % T) % D = x % D
  <2>. HIDE DEF x, D, T
  <2>1. ((x % (2 * D)) + 0) % D = (x + 0) % D BY <1>2, ModEarly, ZenonT(60)
  <2>. QED BY <1>2, <1>3, <2>1
<1>5. ((x % T) + 1) % T = (x + 1) % T
  <2>. HIDE DEF x, D, T
  <2>. QED BY <1>2, ModEarly, SMTT(30)
<1>6. x + 1 = r + (n + 1) BY <1>1
<1>7. ASSUME NEW k \in 1 .. n PROVE (r + (k - 1)) % D \in 0 .. D - 1
  <2>1. r + (k - 1) \in Nat BY <1>1
  <2>. HIDE DEF D
  <2>. QED BY <1>2, <2>1, ModRange
<1>8. ASSUME NEW k \in 1 .. n, n + 1 - k < D PROVE (r + (k - 1)) % D # x % D
  <2> DEFINE y == r + (k - 1)
  <2>1. y \in Nat /\ y < x /\ x < y + D BY <1>1, <1>8
  <2>2. y % D # x % D
    <3>. HIDE DEF x, y, D
    <3>. QED BY <1>2, <2>1, ModApart
  <2>. QED BY <2>2
<1>. QED BY <1>3, <1>4, <1>5, <1>6, <1>7, <1>8 DEF Cells

\* A word pushed, whether the memory has room for it or not.
LEMMA PushBetween ==
    ASSUME NEW q, NEW m \in Memories, NEW r \in Pointers, NEW w, NEW v \in Words,
           Between(q, m, r, w)
    PROVE  LET m2 == [m EXCEPT ![w % FifoDepth] = v]
               w2 == (w + 1) % (2 * FifoDepth)
           IN m2 \in Memories /\ w2 \in Pointers /\ Between(q \o <<v>>, m2, r, w2)
<1> DEFINE D == FifoDepth
           n == Len(q)
           m2 == [m EXCEPT ![w % FifoDepth] = v]
           w2 == (w + 1) % (2 * FifoDepth)
           q2 == q \o <<v>>
<1>1. /\ q \in Seq(Words) /\ n \in Nat
      /\ w = (r + n) % (2 * D)
      /\ \A k \in 1 .. n : n - k < D => q[k] = m[(r + (k - 1)) % D]
  BY DEF Between
<1>2. /\ w % D = (r + n) % D /\ (r + n) % D \in Cells
      /\ w2 = (r + (n + 1)) % (2 * D)
      /\ \A k \in 1 .. n : /\ (r + (k - 1)) % D \in Cells
                           /\ n + 1 - k < D => (r + (k - 1)) % D # (r + n) % D
  <2>. HIDE DEF n
  <2>. QED BY <1>1, CellsOf
<1>3. w2 \in Pointers
  <2>1. D \in Nat \ {0} BY Parameters
  <2>2. r \in Nat BY <2>1 DEF Pointers
  <2>3. r + (n + 1) \in Nat /\ 2 * D \in Nat \ {0} BY <1>1, <2>1, <2>2
  <2>. HIDE DEF n, w2
  <2>. QED BY <1>2, <2>3, ModRange DEF Pointers
<1>4. m2 \in Memories /\ m2[(r + n) % D] = v
      /\ \A c \in Cells : c # (r + n) % D => m2[c] = m[c]
  <2>. HIDE DEF n, w2, q2
  <2>. QED BY <1>2 DEF Memories
<1>5. /\ q2 \in Seq(Words) /\ Len(q2) = n + 1 /\ q2[n + 1] = v
      /\ \A k \in 1 .. n : q2[k] = q[k]
  BY <1>1
<1>6. ASSUME NEW k \in 1 .. n + 1, (n + 1) - k < D PROVE q2[k] = m2[(r + (k - 1)) % D]
  <2>. HIDE DEF n, m2, w2, q2
  <2>1. CASE k = n + 1
    <3>1. k - 1 = n BY <1>1, <2>1
    <3>. QED BY <1>4, <1>5, <2>1, <3>1
  <2>2. CASE k # n + 1
    <3>1. k \in 1 .. n /\ n - k < D /\ n + 1 - k < D BY <1>1, <1>6, <2>2, Parameters
    <3>2. m2[(r + (k - 1)) % D] = m[(r + (k - 1)) % D] BY <1>2, <1>4, <3>1
    <3>. QED BY <1>1, <1>5, <3>1, <3>2
  <2>. QED BY <2>1, <2>2
<1>7. Between(q2, m2, r, w2)
  <2>. HIDE DEF n, m2, w2, q2
  <2>. QED BY <1>2, <1>5, <1>6 DEF Between
<1>. QED BY <1>3, <1>4, <1>7

\* The oldest word popped.
LEMMA PopBetween ==
    ASSUME NEW q, NEW m, NEW r \in Pointers, NEW w, Between(q, m, r, w), q # <<>>
    PROVE  LET r2 == (r + 1) % (2 * FifoDepth)
           IN r2 \in Pointers /\ Between(Tail(q), m, r2, w)
<1> DEFINE D == FifoDepth
           n == Len(q)
           x == r + 1
           r2 == x % (2 * D)
           q2 == Tail(q)
<1>1. /\ q \in Seq(Words) /\ n \in Nat \ {0} /\ n - 1 \in Nat
      /\ w = (r + n) % (2 * D)
      /\ \A k \in 1 .. n : n - k < D => q[k] = m[(r + (k - 1)) % D]
  BY DEF Between
<1>2. D \in Nat \ {0} /\ 2 * D \in Nat \ {0} /\ r \in Nat /\ x \in Nat /\ x = r + 1
  <2>1. D \in Nat \ {0} BY Parameters
  <2>. HIDE DEF D
  <2>2. r \in Nat BY <2>1 DEF Pointers, D
  <2>. QED BY <2>1, <2>2
<1>3. r2 \in Pointers /\ r2 \in Nat
  <2>. HIDE DEF x
  <2>. QED BY <1>2, ModRange DEF Pointers
<1>4. /\ q2 \in Seq(Words) /\ Len(q2) = n - 1
      /\ \A k \in 1 .. n - 1 : q2[k] = q[k + 1]
  BY <1>1
<1>. HIDE DEF n, x, D, q2
<1>5. w = (r2 + (n - 1)) % (2 * D)
  <2>1. ((x % (2 * D)) + (n - 1)) % (2 * D) = (x + (n - 1)) % (2 * D)
    <3> DEFINE T == 2 * D
    <3>1. T \in Nat \ {0} BY <1>2
    <3>. HIDE DEF T
    <3>2. ((x % T) + (n - 1)) % T = (x + (n - 1)) % T BY <1>1, <1>2, <3>1, ModEarly
    <3>. QED BY <3>2 DEF T
  <2>2. x + (n - 1) = r + n BY <1>1, <1>2
  <2>. QED BY <1>1, <2>1, <2>2
<1>6. ASSUME NEW k \in 1 .. n - 1, (n - 1) - k < D PROVE q2[k] = m[(r2 + (k - 1)) % D]
  <2>1. k - 1 \in Nat /\ k + 1 \in 1 .. n /\ (k + 1) - 1 = k /\ n - (k + 1) < D BY <1>1, <1>2, <1>6
  <2>2. ((x % (2 * D)) + (k - 1)) % D = (x + (k - 1)) % D BY <1>2, <2>1, ModEarly
  <2>3. x + (k - 1) = r + k BY <1>2
  <2>4. q[k + 1] = m[(r + k) % D] BY <1>1, <2>1
  <2>. QED BY <1>4, <2>2, <2>3, <2>4
<1>7. Between(q2, m, r2, w)
  <2>. HIDE DEF r2
  <2>. QED BY <1>4, <1>5, <1>6 DEF Between, D
<1>. QED BY <1>3, <1>7 DEF r2, q2, x, D

\* Nothing lies between two pointers that are zero.
LEMMA NothingBetween ==
    ASSUME NEW m
    PROVE  Between(<<>>, m, 0, 0) /\ 0 \in Pointers /\ 0 \in 0 .. FifoDepth
<1>1. 0 = (0 + 0) % (2 * FifoDepth)
  <2> DEFINE T == 2 * FifoDepth
  <2>1. T \in Nat \ {0} BY Parameters
  <2>. HIDE DEF T
  <2>2. 0 % T = 0 BY <2>1, ModIs
  <2>. QED BY <2>2 DEF T
<1>2. <<>> \in Seq(Words) /\ Len(<<>>) = 0 OBVIOUS
<1>3. Between(<<>>, m, 0, 0) BY <1>1, <1>2 DEF Between
<1>. QED BY <1>3, Parameters DEF Pointers

\* An edge without reset: the word that comes out and the word that goes in.
LEMMA FifoEdgeKeeps ==
    ASSUME FifoInv, block = "SyncFifo", SyncFifoEdge
    PROVE  FifoInv'
<1>1. PICK push \in BOOLEAN, pop \in BOOLEAN, w \in Words :
        LET i == [push |-> push, pop |-> pop, din |-> w]
            in == Pushes(FifoDepth, reg, i)
            out == Pops(reg, i)
        IN /\ in /\ out => seen.joint < JointEdges
           /\ reg' = SyncFifoUpdate(FifoDepth, reg, i)
           /\ seen' = [words |-> (IF out THEN Tail(seen.words) ELSE seen.words)
                                    \o (IF in THEN <<w>> ELSE <<>>),
                       joint |-> seen.joint + IF in /\ out THEN 1 ELSE 0]
  BY DEF SyncFifoEdge
<1> DEFINE i == [push |-> push, pop |-> pop, din |-> w]
           in == Pushes(FifoDepth, reg, i)
           out == Pops(reg, i)
           left == IF out THEN Tail(seen.words) ELSE seen.words
           rptr2 == IF out THEN (reg.rptr + 1) % (2 * FifoDepth) ELSE reg.rptr
<1>2. /\ reg' = SyncFifoUpdate(FifoDepth, reg, i)
      /\ seen' = [words |-> left \o (IF in THEN <<w>> ELSE <<>>),
                  joint |-> seen.joint + IF in /\ out THEN 1 ELSE 0]
  BY <1>1
<1>3. /\ reg.wptr \in Pointers /\ reg.rptr \in Pointers /\ reg.cnt \in 0 .. FifoDepth
      /\ reg.mem \in Memories /\ seen.words \in Seq(Words) /\ seen.joint \in Nat
      /\ Len(seen.words) = reg.cnt + seen.joint
      /\ Between(seen.words, reg.mem, reg.rptr, reg.wptr)
  BY DEF FifoInv
<1>4. i.din = w /\ (in => reg.cnt # FifoDepth) /\ (out => reg.cnt # 0)
  BY DEF Pushes, Pops
<1>5. /\ (reg.wptr + 0) % (2 * FifoDepth) = reg.wptr
      /\ (reg.rptr + 0) % (2 * FifoDepth) = reg.rptr
  <2> DEFINE T == 2 * FifoDepth
  <2>1. /\ T \in Nat \ {0} /\ reg.wptr \in Nat /\ reg.wptr < T /\ reg.rptr \in Nat
        /\ reg.rptr < T
    BY <1>3, Parameters DEF Pointers
  <2>. HIDE DEF T
  <2>2. reg.wptr + 0 = reg.wptr /\ reg.rptr + 0 = reg.rptr BY <2>1
  <2>3. (reg.wptr % T) = reg.wptr /\ (reg.rptr % T) = reg.rptr BY <2>1, ModIs
  <2>. QED BY <2>2, <2>3 DEF T
<1>6. /\ reg'.wptr = IF in THEN (reg.wptr + 1) % (2 * FifoDepth) ELSE reg.wptr
      /\ reg'.rptr = rptr2
      /\ reg'.cnt = IF out THEN reg.cnt - 1 ELSE IF in THEN reg.cnt + 1 ELSE reg.cnt
      /\ reg'.mem = IF in THEN [reg.mem EXCEPT ![reg.wptr % FifoDepth] = w] ELSE reg.mem
      /\ reg' = [wptr |-> reg'.wptr, rptr |-> reg'.rptr, cnt |-> reg'.cnt, mem |-> reg'.mem]
  <2>. HIDE DEF i
  <2>1. /\ reg'.wptr = (reg.wptr + IF in THEN 1 ELSE 0) % (2 * FifoDepth)
        /\ reg'.rptr = (reg.rptr + IF out THEN 1 ELSE 0) % (2 * FifoDepth)
        /\ reg'.cnt = IF out THEN reg.cnt - 1 ELSE IF in THEN reg.cnt + 1 ELSE reg.cnt
        /\ reg'.mem = [reg.mem EXCEPT ![reg.wptr % FifoDepth] = IF in THEN i.din ELSE @]
        /\ reg' = [wptr |-> reg'.wptr, rptr |-> reg'.rptr, cnt |-> reg'.cnt, mem |-> reg'.mem]
    BY <1>2 DEF SyncFifoUpdate
  <2>. HIDE DEF in, out
  <2>2. [reg.mem EXCEPT ![reg.wptr % FifoDepth] = @] = reg.mem BY <1>3 DEF Memories
  <2>. QED BY <1>4, <1>5, <2>1, <2>2
<1>. HIDE DEF i, in, out
<1>7. /\ rptr2 \in Pointers /\ left \in Seq(Words)
      /\ Between(left, reg.mem, rptr2, reg.wptr)
      /\ Len(left) = Len(seen.words) - IF out THEN 1 ELSE 0
  <2>1. CASE out
    <3>1. seen.words # <<>> /\ Len(Tail(seen.words)) = Len(seen.words) - 1
          /\ Tail(seen.words) \in Seq(Words)
      BY <1>3, <1>4, <2>1
    <3>2. /\ (reg.rptr + 1) % (2 * FifoDepth) \in Pointers
          /\ Between(Tail(seen.words), reg.mem, (reg.rptr + 1) % (2 * FifoDepth), reg.wptr)
      BY <1>3, <3>1, PopBetween
    <3>. QED BY <2>1, <3>1, <3>2
  <2>2. CASE ~out BY <1>3, <2>2
  <2>. QED BY <2>1, <2>2
<1>. HIDE DEF left, rptr2
<1>8. /\ reg'.wptr \in Pointers /\ reg'.mem \in Memories /\ seen'.words \in Seq(Words)
      /\ Between(seen'.words, reg'.mem, reg'.rptr, reg'.wptr)
      /\ Len(seen'.words) = Len(left) + IF in THEN 1 ELSE 0
  <2>1. CASE in
    <3>1. seen'.words = left \o <<w>> BY <1>2, <2>1
    <3>2. /\ [reg.mem EXCEPT ![reg.wptr % FifoDepth] = w] \in Memories
          /\ (reg.wptr + 1) % (2 * FifoDepth) \in Pointers
          /\ Between(left \o <<w>>, [reg.mem EXCEPT ![reg.wptr % FifoDepth] = w], rptr2,
                     (reg.wptr + 1) % (2 * FifoDepth))
      BY <1>3, <1>7, PushBetween
    <3>3. left \o <<w>> \in Seq(Words) /\ Len(left \o <<w>>) = Len(left) + 1 BY <1>7
    <3>. QED BY <1>6, <2>1, <3>1, <3>2, <3>3
  <2>2. CASE ~in
    <3>1. seen'.words = left \o <<>> BY <1>2, <2>2
    <3>2. seen'.words = left /\ Len(left) \in Nat BY <1>7, <3>1
    <3>3. reg'.wptr = reg.wptr /\ reg'.mem = reg.mem /\ reg'.rptr = rptr2 BY <1>6, <2>2
    <3>. QED BY <1>3, <1>7, <2>2, <3>2, <3>3
  <2>. QED BY <2>1, <2>2
<1>9. /\ reg'.cnt \in 0 .. FifoDepth
      /\ seen'.joint = seen.joint + (IF in /\ out THEN 1 ELSE 0)
      /\ seen'.joint \in Nat
      /\ seen' = [words |-> seen'.words, joint |-> seen'.joint]
  <2>1. /\ seen'.joint = seen.joint + IF in /\ out THEN 1 ELSE 0
        /\ seen' = [words |-> seen'.words, joint |-> seen'.joint]
    <3>. HIDE DEF left
    <3>. QED BY <1>2
  <2>2. reg'.cnt \in 0 .. FifoDepth BY <1>3, <1>4, <1>6, Parameters
  <2>3. seen.joint + (IF in /\ out THEN 1 ELSE 0) \in Nat BY <1>3
  <2>. QED BY <2>1, <2>2, <2>3
<1>10. Len(seen'.words) = reg'.cnt + seen'.joint
  BY <1>3, <1>6, <1>7, <1>8, <1>9
<1>11. reg' \in [wptr : Pointers, rptr : Pointers, cnt : 0 .. FifoDepth, mem : Memories]
  <2>1. reg'.rptr \in Pointers BY <1>6, <1>7
  <2>. QED BY <1>6, <1>8, <1>9, <2>1
<1>12. seen' \in [words : Seq(Words), joint : Nat] BY <1>8, <1>9
<1>. QED BY <1>8, <1>10, <1>11, <1>12 DEF FifoInv

LEMMA FifoHolds == IpSpec => []FifoIsQueue
<1>1. IpInit => FifoInv
  <2> SUFFICES ASSUME IpInit, block = "SyncFifo" PROVE FifoInv BY DEF FifoInv
  <2>1. reg = [wptr |-> 0, rptr |-> 0, cnt |-> 0, mem |-> [a \in Cells |-> 0]]
        /\ seen = NothingPushed
    BY DEF IpInit, Cells
  <2>2. reg.wptr = 0 /\ reg.rptr = 0 /\ reg.cnt = 0 /\ seen.words = <<>> /\ seen.joint = 0
        /\ Len(seen.words) = 0
    BY <2>1 DEF NothingPushed
  <2>3. reg \in [wptr : Pointers, rptr : Pointers, cnt : 0 .. FifoDepth, mem : Memories]
    BY <2>1, NothingBetween DEF Memories
  <2>4. seen \in [words : Seq(Words), joint : Nat] BY <2>1 DEF NothingPushed
  <2>. QED BY <2>2, <2>3, <2>4, NothingBetween DEF FifoInv
<1>2. FifoInv /\ [IpNext]_ipVars => FifoInv'
  <2> SUFFICES ASSUME FifoInv, [IpNext]_ipVars, block' = "SyncFifo" PROVE FifoInv'
    BY DEF FifoInv
  <2>1. block = "SyncFifo" /\ block' = block
        /\ (SyncFifoEdge \/ ResetEdge \/ UNCHANGED ipVars)
    BY StepOfBlock
  <2>2. reg \in [wptr : Pointers, rptr : Pointers, cnt : 0 .. FifoDepth, mem : Memories]
    BY <2>1 DEF FifoInv
  <2>3. CASE UNCHANGED ipVars
    <3>1. block' = block /\ reg' = reg /\ seen' = seen BY <2>3 DEF ipVars
    <3>. QED BY <2>1, <3>1 DEF FifoInv
  <2>4. CASE ResetEdge
    <3>1. reg' = [reg EXCEPT !.wptr = 0, !.rptr = 0, !.cnt = 0] /\ seen' = NothingPushed
      BY <2>1, <2>4 DEF ResetEdge, SyncFifoReset
    <3>2. reg'.wptr = 0 /\ reg'.rptr = 0 /\ reg'.cnt = 0 /\ seen'.words = <<>>
          /\ seen'.joint = 0 /\ Len(seen'.words) = 0
      BY <2>2, <3>1 DEF NothingPushed
    <3>3. reg' \in [wptr : Pointers, rptr : Pointers, cnt : 0 .. FifoDepth, mem : Memories]
      BY <2>2, <3>1, NothingBetween
    <3>4. seen' \in [words : Seq(Words), joint : Nat] BY <3>1 DEF NothingPushed
    <3>. QED BY <3>2, <3>3, <3>4, NothingBetween DEF FifoInv
  <2>5. CASE SyncFifoEdge BY <2>1, <2>5, FifoEdgeKeeps
  <2>. QED BY <2>1, <2>3, <2>4, <2>5
<1>3. FifoInv => FifoIsQueue
  <2> SUFFICES ASSUME FifoInv, block = "SyncFifo" PROVE FifoIsQueue BY DEF FifoIsQueue
  <2> DEFINE q == seen.words
  <2>1. /\ q \in Seq(Words) /\ seen.joint \in Nat /\ Len(q) = reg.cnt + seen.joint
        /\ reg.cnt \in 0 .. FifoDepth /\ reg.rptr \in Pointers
        /\ \A k \in 1 .. Len(q) :
             Len(q) - k < FifoDepth => q[k] = reg.mem[(reg.rptr + (k - 1)) % FifoDepth]
    BY DEF FifoInv, Between
  <2>2. reg.rptr \in Nat BY <2>1, Parameters DEF Pointers
  <2>3. ASSUME Len(q) \in 1 .. FifoDepth PROVE SyncFifoDout(FifoDepth, reg) = Head(q)
    <3>1. 1 \in 1 .. Len(q) /\ Len(q) - 1 < FifoDepth /\ Head(q) = q[1]
      BY <2>1, <2>3, Parameters
    <3>2. reg.rptr + (1 - 1) = reg.rptr BY <2>2
    <3>. QED BY <2>1, <3>1, <3>2 DEF SyncFifoDout
  <2>4. reg.cnt = Len(q) - seen.joint /\ reg.cnt <= FifoDepth BY <2>1, Parameters
  <2>. QED BY <2>3, <2>4 DEF FifoIsQueue
<1>. QED BY <1>1, <1>2, <1>3, PTL DEF IpSpec

(* Whatever the depth of the FIFO, the number of credits and the threshold, *)
(* and whatever is pushed and popped, at one edge too: the count of the     *)
(* FIFO is the words pushed and not popped less the edges that did both,    *)
(* its oldest word is the one it shows unless it was overrun, the credits   *)
(* add up and the debouncer counts the samples that differ.                 *)
THEOREM BlocksCount == IpSpec => []BlocksKeepCount
<1>1. IpSpec => []FifoIsQueue BY FifoHolds
<1>. QED BY <1>1, CreditsHold, DebouncerHolds, PTL DEF BlocksKeepCount

(***************************************************************************)
(* The DMA engine and its driver.  The driver starts a transfer only when  *)
(* the engine is idle, because it has seen an interrupt that only the end  *)
(* of a transfer raises, and has cleared it.                               *)
(***************************************************************************)
Transfers == [src : Addresses, dst : Addresses, length : Addresses]

DmaType ==
  /\ reg.dma \in [state : {"IDLE", "READ", "WRITE", "DONE"}, src : Addresses, dst : Addresses,
                  remain : Addresses, buf : Addresses]
  /\ seen.driver \in {"enable", "idle", "wait", "handle"}
  /\ seen.asked \in Transfers
  /\ seen.moved \in Seq(Addresses \X Addresses)

EndIsSeen ==
  /\ 0 \in reg.int.ipr => reg.dma.state = "IDLE"
  /\ seen.driver \in {"enable", "idle"} => reg.dma.state = "IDLE" /\ ~(0 \in reg.int.ipr)
  /\ seen.driver = "handle" /\ 0 \in seen.pending => reg.dma.state = "IDLE"

WordsOf(asked) == IF asked.length = 0 THEN Space ELSE asked.length

\* The k-th word of a transfer: where it goes, and what it is.
WordOf(asked, k) == <<(asked.dst + (k - 1)) % Space, (asked.src + (k - 1)) % Space>>

\* What the registers hold when n of the words have been moved.
AfterWords(n) ==
  LET words == WordsOf(seen.asked)
  IN /\ n < words
     /\ reg.dma.remain = IF words - n = Space THEN 0 ELSE words - n
     /\ reg.dma.src = (seen.asked.src + n) % Space
     /\ reg.dma.dst = (seen.asked.dst + n) % Space

TransferInv ==
  /\ reg.dma.state # "IDLE" =>
       \A k \in 1 .. Len(seen.moved) : seen.moved[k] = WordOf(seen.asked, k)
  /\ reg.dma.state \in {"READ", "WRITE"} => AfterWords(Len(seen.moved))
  /\ reg.dma.state = "WRITE" => reg.dma.buf = reg.dma.src
  /\ reg.dma.state = "DONE" => Len(seen.moved) = WordsOf(seen.asked)

DmaInv == block = "DmaEngine" => DmaType /\ EndIsSeen /\ TransferInv

Starts(awake) == awake /\ seen.driver = "idle"

Clears(awake) == awake /\ seen.driver = "handle"

Moves(answers) == reg.dma.state = "WRITE" /\ answers

DmaInputs(t, awake, answers) ==
  [start |-> Starts(awake), src |-> t.src, dst |-> t.dst, length |-> t.length,
   rdValid |-> answers, rdData |-> reg.dma.src, wrReady |-> answers]

Irq(noise) == (IF DmaDone(reg.dma) THEN {0} ELSE {}) \cup (IF noise THEN {1} ELSE {})

IntInputs(awake, noise) ==
  [irq |-> Irq(noise), ierWe |-> awake /\ seen.driver = "enable", ierData |-> {0, 1},
   clear |-> IF Clears(awake) THEN seen.pending ELSE {}]

DriverNext(awake) ==
  IF ~awake THEN seen.driver
  ELSE CASE seen.driver = "enable" -> "idle"
         [] seen.driver = "idle" -> "wait"
         [] seen.driver = "wait" -> IF IrqOut(reg.int) THEN "handle" ELSE "wait"
         [] seen.driver = "handle" -> IF 0 \in seen.pending THEN "idle" ELSE "wait"

\* What one edge does to the engine, the interrupts and the observer.
LEMMA DmaEdgeIs ==
    ASSUME NEW awake \in BOOLEAN, NEW answers \in BOOLEAN, NEW noise \in BOOLEAN,
           DmaEdge(awake, answers, noise)
    PROVE  \E t \in Transfers :
             /\ reg'.dma = DmaFsm(Space, 1, reg.dma, DmaInputs(t, awake, answers))
             /\ reg'.int = IntUpdate(reg.int, IntInputs(awake, noise))
             /\ seen'.driver = DriverNext(awake)
             /\ Starts(awake) => seen'.asked = t /\ seen'.moved = <<>>
             /\ ~Starts(awake) =>
                  /\ seen'.asked = seen.asked
                  /\ Moves(answers) =>
                       seen'.moved = Append(seen.moved, <<reg.dma.dst, reg.dma.buf>>)
                  /\ ~Moves(answers) => seen'.moved = seen.moved
             /\ seen'.pending = IF awake /\ seen.driver = "wait" THEN reg.int.ipr
                                ELSE seen.pending
<1>1. \A t \in [src : {0, Space - 1}, dst : {0}, length : Addresses] : t \in Transfers
  BY Parameters DEF Transfers, Addresses
<1> DEFINE moved == IF Starts(awake) THEN <<>>
                    ELSE IF Moves(answers) THEN Append(seen.moved, <<reg.dma.dst, reg.dma.buf>>)
                    ELSE seen.moved
           pending == IF awake /\ seen.driver = "wait" THEN reg.int.ipr ELSE seen.pending
<1>2. PICK t \in [src : {0, Space - 1}, dst : {0}, length : Addresses] :
        /\ reg' = [dma |-> DmaFsm(Space, 1, reg.dma, DmaInputs(t, awake, answers)),
                   int |-> IntUpdate(reg.int, IntInputs(awake, noise))]
        /\ seen' = [driver |-> DriverNext(awake),
                    asked |-> IF Starts(awake) THEN t ELSE seen.asked,
                    moved |-> moved, pending |-> pending]
  BY DEF DmaEdge, DmaInputs, IntInputs, Irq, DriverNext, Starts, Clears, Moves
<1>3. t \in Transfers BY <1>1
<1>. HIDE DEF moved, pending
<1>4. /\ reg'.dma = DmaFsm(Space, 1, reg.dma, DmaInputs(t, awake, answers))
      /\ reg'.int = IntUpdate(reg.int, IntInputs(awake, noise))
      /\ seen'.driver = DriverNext(awake)
      /\ seen'.asked = IF Starts(awake) THEN t ELSE seen.asked
      /\ seen'.moved = moved /\ seen'.pending = pending
  BY <1>2
<1>. QED BY <1>3, <1>4 DEF moved, pending

LEMMA DriverNextIs ==
    ASSUME NEW awake \in BOOLEAN, DmaType
    PROVE  /\ DriverNext(awake) \in {"enable", "idle", "wait", "handle"}
           /\ Starts(awake) => DriverNext(awake) = "wait"
           /\ DriverNext(awake) \in {"enable", "idle"} =>
                \/ ~Starts(awake) /\ seen.driver \in {"enable", "idle"}
                \/ Clears(awake) /\ 0 \in seen.pending
           /\ DriverNext(awake) = "handle" =>
                seen.driver = "handle" \/ (awake /\ seen.driver = "wait")
<1>1. CASE ~awake
  <2>1. DriverNext(awake) = seen.driver BY <1>1 DEF DriverNext
  <2>2. Starts(awake) = FALSE BY <1>1 DEF Starts
  <2>3. seen.driver \in {"enable", "idle", "wait", "handle"} BY DEF DmaType
  <2>4. DriverNext(awake) \in {"enable", "idle"} => seen.driver \in {"enable", "idle"}
    BY <2>1
  <2>5. DriverNext(awake) = "handle" => seen.driver = "handle" BY <2>1
  <2>. QED BY <2>1, <2>2, <2>3, <2>4, <2>5
<1>2. CASE awake /\ seen.driver = "enable" BY <1>2 DEF DriverNext, Starts
<1>3. CASE awake /\ seen.driver = "idle" BY <1>3 DEF DriverNext
<1>4. CASE awake /\ seen.driver = "wait" BY <1>4 DEF DriverNext, Starts
<1>5. CASE awake /\ seen.driver = "handle" BY <1>5 DEF DriverNext, Starts, Clears
<1>. QED BY <1>1, <1>2, <1>3, <1>4, <1>5 DEF DmaType

\* One step of the DMA engine from r to r2 with the inputs i.
FsmStep(r, i, r2) ==
  /\ r.state = "IDLE" /\ ~i.start => r2 = r
  /\ r.state = "IDLE" /\ i.start =>
       r2 = [r EXCEPT !.src = i.src, !.dst = i.dst, !.remain = i.length, !.state = "READ"]
  /\ r.state = "READ" /\ ~i.rdValid => r2 = r
  /\ r.state = "READ" /\ i.rdValid => r2 = [r EXCEPT !.buf = i.rdData, !.state = "WRITE"]
  /\ r.state = "WRITE" /\ ~i.wrReady => r2 = r
  /\ r.state = "WRITE" /\ i.wrReady =>
       r2 = [r EXCEPT !.src = (@ + 1) % Space, !.dst = (@ + 1) % Space,
                      !.remain = (@ + Space - 1) % Space,
                      !.state = IF r.remain = 1 THEN "DONE" ELSE "READ"]
  /\ r.state = "DONE" => r2 = [r EXCEPT !.state = "IDLE"]

LEMMA FsmIs ==
    ASSUME DmaType, NEW i
    PROVE  FsmStep(reg.dma, i, DmaFsm(Space, 1, reg.dma, i))
<1> DEFINE r == reg.dma
<1>. HIDE DEF r
<1>1. CASE r.state = "IDLE" BY <1>1 DEF DmaFsm, FsmStep, r
<1>2. CASE r.state = "READ" BY <1>2 DEF DmaFsm, FsmStep, r
<1>3. CASE r.state = "WRITE" BY <1>3 DEF DmaFsm, FsmStep, r
<1>4. CASE r.state = "DONE" BY <1>4 DEF DmaFsm, FsmStep, r
<1>5. r.state \in {"IDLE", "READ", "WRITE", "DONE"} BY DEF DmaType, r
<1>. QED BY <1>1, <1>2, <1>3, <1>4, <1>5 DEF r

LEMMA AddressIs ==
    /\ \A x \in Nat : x % Space \in Addresses
    /\ \A x \in Addresses : x % Space = x
    /\ \A x \in Addresses : x \in Nat /\ x < Space
<1>1. Space \in Nat \ {0} BY Parameters
<1>2. \A x \in Nat : x % Space \in Addresses BY <1>1, ModRange DEF Addresses
<1>3. \A x \in Addresses : x \in Nat /\ x < Space BY <1>1 DEF Addresses
<1>. QED BY <1>1, <1>2, <1>3, ModIs

\* The counters after one word more.
LEMMA OneWordMore ==
    ASSUME NEW asked \in Transfers, NEW n \in Nat, n < WordsOf(asked),
           NEW remain, remain = IF WordsOf(asked) - n = Space THEN 0 ELSE WordsOf(asked) - n
    PROVE  /\ remain = 1 <=> n + 1 = WordsOf(asked)
           /\ n + 1 # WordsOf(asked) =>
                /\ n + 1 < WordsOf(asked)
                /\ (remain + Space - 1) % Space =
                     IF WordsOf(asked) - (n + 1) = Space THEN 0 ELSE WordsOf(asked) - (n + 1)
           /\ (((asked.src + n) % Space) + 1) % Space = (asked.src + (n + 1)) % Space
           /\ (((asked.dst + n) % Space) + 1) % Space = (asked.dst + (n + 1)) % Space
<1> DEFINE w == WordsOf(asked)
<1>1. Space \in Nat \ {0} /\ Space > 1 BY Parameters
<1>2. asked.src \in Nat /\ asked.dst \in Nat /\ asked.length \in Nat /\ asked.length < Space
  BY AddressIs DEF Transfers
<1>3. w \in Nat \ {0} /\ w <= Space /\ n < w BY <1>1, <1>2 DEF WordsOf
<1>4. remain = IF w - n = Space THEN 0 ELSE w - n OBVIOUS
<1>. HIDE DEF w
<1>5. remain = 1 <=> n + 1 = w BY <1>1, <1>3, <1>4
<1>6. ASSUME n + 1 # w
      PROVE  n + 1 < w /\ (remain + Space - 1) % Space = w - (n + 1) /\ w - (n + 1) # Space
  <2>1. n + 1 < w /\ w - (n + 1) \in Nat /\ w - (n + 1) < Space BY <1>1, <1>3, <1>6
  <2> DEFINE x == remain + Space - 1
  <2>2. CASE w - n = Space
    <3>1. x = Space - 1 /\ x \in Nat /\ x < Space /\ x = w - (n + 1) BY <1>1, <1>3, <1>4, <2>2
    <3>2. x % Space = x
      <4>. HIDE DEF x
      <4>. QED BY <1>1, <3>1, ModIs
    <3>. QED BY <2>1, <3>1, <3>2
  <2>3. CASE w - n # Space
    <3>1. x = (w - n) + Space - 1 /\ x \in Nat /\ Space <= x /\ x < 2 * Space
          /\ x - Space = w - (n + 1)
      BY <1>1, <1>3, <1>4, <2>1, <2>3
    <3>2. x % Space = x - Space
      <4>. HIDE DEF x
      <4>. QED BY <1>1, <3>1, ModIs
    <3>. QED BY <2>1, <3>1, <3>2
  <2>. QED BY <2>2, <2>3
<1>7. ASSUME NEW a \in Nat PROVE (((a + n) % Space) + 1) % Space = (a + (n + 1)) % Space
  <2> DEFINE x == a + n
  <2>1. x \in Nat /\ x + 1 = a + (n + 1) OBVIOUS
  <2>. HIDE DEF x
  <2>2. ((x % Space) + 1) % Space = (x + 1) % Space BY <1>1, <2>1, ModEarly
  <2>. QED BY <2>1, <2>2 DEF x
<1>. QED BY <1>2, <1>5, <1>6, <1>7 DEF w

LEMMA DmaEdgeKeeps ==
    ASSUME DmaInv, NEW awake \in BOOLEAN, NEW answers \in BOOLEAN, NEW noise \in BOOLEAN,
           DmaEdge(awake, answers, noise)
    PROVE  DmaInv'
<1>1. block = "DmaEngine" /\ block' = block BY DEF DmaEdge
<1>2. DmaType /\ EndIsSeen /\ TransferInv BY <1>1 DEF DmaInv
<1> DEFINE starts == Starts(awake)
           clears == Clears(awake)
           moves == Moves(answers)
           r == reg.dma
           r2 == reg'.dma
<1>3. PICK t \in Transfers :
        /\ r2 = DmaFsm(Space, 1, r, DmaInputs(t, awake, answers))
        /\ reg'.int = IntUpdate(reg.int, IntInputs(awake, noise))
        /\ seen'.driver = DriverNext(awake)
        /\ starts => seen'.asked = t /\ seen'.moved = <<>>
        /\ ~starts => /\ seen'.asked = seen.asked
                      /\ moves => seen'.moved = Append(seen.moved, <<r.dst, r.buf>>)
                      /\ ~moves => seen'.moved = seen.moved
        /\ seen'.pending = IF awake /\ seen.driver = "wait" THEN reg.int.ipr ELSE seen.pending
  BY DmaEdgeIs
<1>4. /\ seen'.driver \in {"enable", "idle", "wait", "handle"}
      /\ starts => seen'.driver = "wait"
      /\ seen'.driver \in {"enable", "idle"} =>
           \/ ~starts /\ seen.driver \in {"enable", "idle"}
           \/ clears /\ 0 \in seen.pending
      /\ seen'.driver = "handle" =>
           \/ seen'.pending = seen.pending /\ seen.driver = "handle"
           \/ seen'.pending = reg.int.ipr /\ seen.driver = "wait"
  BY <1>2, <1>3, DriverNextIs
<1>5. 0 \in reg'.int.ipr => /\ 0 \in reg.int.ipr \/ r.state = "DONE"
                            /\ ~(clears /\ 0 \in seen.pending)
  <2>1. reg'.int.ipr = (reg.int.ipr \cup (Irq(noise) \ reg.int.last))
                         \ (IF clears THEN seen.pending ELSE {})
    BY <1>3 DEF IntUpdate, IntInputs
  <2>2. 0 \in Irq(noise) => r.state = "DONE" BY DEF DmaDone, Irq
  <2>. QED BY <2>1, <2>2
<1>6. /\ r.state = "IDLE" /\ ~starts => r2 = r
      /\ r.state = "IDLE" /\ starts =>
           r2 = [r EXCEPT !.src = t.src, !.dst = t.dst, !.remain = t.length, !.state = "READ"]
      /\ r.state = "READ" /\ ~answers => r2 = r
      /\ r.state = "READ" /\ answers => r2 = [r EXCEPT !.buf = r.src, !.state = "WRITE"]
      /\ r.state = "WRITE" /\ ~answers => r2 = r
      /\ r.state = "WRITE" /\ answers =>
           r2 = [r EXCEPT !.src = (@ + 1) % Space, !.dst = (@ + 1) % Space,
                          !.remain = (@ + Space - 1) % Space,
                          !.state = IF r.remain = 1 THEN "DONE" ELSE "READ"]
      /\ r.state = "DONE" => r2 = [r EXCEPT !.state = "IDLE"]
  <2> DEFINE i == DmaInputs(t, awake, answers)
  <2>1. /\ i.start = starts /\ i.src = t.src /\ i.dst = t.dst /\ i.length = t.length
        /\ i.rdValid = answers /\ i.wrReady = answers /\ i.rdData = r.src
    BY DEF DmaInputs
  <2>2. r2 = DmaFsm(Space, 1, r, i) BY <1>3
  <2>. HIDE DEF i
  <2>3. FsmStep(r, i, r2)
    BY <1>2, <2>2, FsmIs
  <2>. HIDE DEF r, r2, starts
  <2>. QED BY <2>1, <2>3 DEF FsmStep
<1>7. /\ r \in [state : {"IDLE", "READ", "WRITE", "DONE"}, src : Addresses, dst : Addresses,
                remain : Addresses, buf : Addresses]
      /\ seen.moved \in Seq(Addresses \X Addresses) /\ seen.asked \in Transfers
      /\ seen.driver \in {"enable", "idle", "wait", "handle"}
  BY <1>2 DEF DmaType
<1>8. starts => r.state = "IDLE" /\ seen'.asked = t /\ seen'.moved = <<>>
  BY <1>2, <1>3 DEF EndIsSeen, Starts
<1>9. ~starts => /\ seen'.asked = seen.asked
                 /\ moves => seen'.moved = Append(seen.moved, <<r.dst, r.buf>>)
                 /\ ~moves => seen'.moved = seen.moved
  BY <1>3
<1>10. (r.state = "IDLE" /\ ~starts) \/ r.state = "DONE" => r2.state = "IDLE" BY <1>6, <1>7
<1>11. EndIsSeen'
  <2>1. 0 \in reg.int.ipr => r.state = "IDLE" /\ ~starts BY <1>2 DEF EndIsSeen, Starts
  <2>2. 0 \in reg'.int.ipr => r2.state = "IDLE" BY <1>5, <1>10, <2>1
  <2>3. clears /\ 0 \in seen.pending => r.state = "IDLE" /\ ~starts
    BY <1>2 DEF EndIsSeen, Starts, Clears
  <2>4. ~starts /\ seen.driver \in {"enable", "idle"} =>
          r.state = "IDLE" /\ ~(0 \in reg.int.ipr)
    BY <1>2 DEF EndIsSeen
  <2>5. seen'.driver \in {"enable", "idle"} => r2.state = "IDLE" /\ ~(0 \in reg'.int.ipr)
    BY <1>4, <1>5, <1>10, <2>3, <2>4
  <2>6. seen'.driver = "handle" /\ 0 \in seen'.pending => r.state = "IDLE" /\ ~starts
    BY <1>2, <1>4, <2>1 DEF EndIsSeen, Starts
  <2>. QED BY <1>10, <2>2, <2>5, <2>6 DEF EndIsSeen
<1>. HIDE DEF starts, clears, moves, r, r2
<1>12. CASE starts
  <2>1. r2 = [r EXCEPT !.src = t.src, !.dst = t.dst, !.remain = t.length, !.state = "READ"]
    BY <1>6, <1>8, <1>12
  <2>2. /\ t.src \in Addresses /\ t.dst \in Addresses /\ t.length \in Addresses
        /\ t.length \in Nat /\ t.length < Space
    BY AddressIs DEF Transfers
  <2>3. /\ r2 \in [state : {"IDLE", "READ", "WRITE", "DONE"}, src : Addresses,
                   dst : Addresses, remain : Addresses, buf : Addresses]
        /\ r2.state = "READ" /\ r2.src = t.src /\ r2.dst = t.dst /\ r2.remain = t.length
    BY <1>7, <2>1, <2>2
  <2>4. seen'.asked = t /\ seen'.moved = <<>> BY <1>8, <1>12
  <2>5. seen'.moved \in Seq(Addresses \X Addresses) /\ Len(seen'.moved) = 0 BY <2>4
  <2>6. DmaType' BY <1>4, <2>3, <2>4, <2>5 DEF DmaType, r2
  <2>7. WordsOf(t) \in Nat /\ 0 < WordsOf(t)
        /\ t.length = IF WordsOf(t) - 0 = Space THEN 0 ELSE WordsOf(t) - 0
    BY <2>2, Parameters DEF WordsOf
  <2>8. (t.src + 0) % Space = t.src /\ (t.dst + 0) % Space = t.dst
    <3>1. t.src + 0 = t.src /\ t.dst + 0 = t.dst BY <2>2, AddressIs
    <3>. QED BY <2>2, <3>1, AddressIs
  <2>9. AfterWords(Len(seen.moved))'
    BY <2>3, <2>4, <2>5, <2>7, <2>8 DEF AfterWords, r2
  <2>10. TransferInv' BY <2>3, <2>5, <2>9 DEF TransferInv, r2
  <2>. QED BY <1>1, <1>11, <2>6, <2>10 DEF DmaInv
<1>13. CASE ~starts /\ r2 = r /\ ~moves
  <2>1. reg'.dma = reg.dma /\ seen'.asked = seen.asked /\ seen'.moved = seen.moved
    BY <1>9, <1>13 DEF r, r2
  <2>2. DmaType' BY <1>2, <1>4, <2>1 DEF DmaType
  <2>3. TransferInv' BY <1>2, <2>1 DEF TransferInv, AfterWords
  <2>. QED BY <1>1, <1>11, <2>2, <2>3 DEF DmaInv
<1>14. CASE ~starts /\ r.state = "READ" /\ answers
  <2>1. r2 = [r EXCEPT !.buf = r.src, !.state = "WRITE"] BY <1>6, <1>14
  <2>2. /\ r2 \in [state : {"IDLE", "READ", "WRITE", "DONE"}, src : Addresses,
                   dst : Addresses, remain : Addresses, buf : Addresses]
        /\ r2.state = "WRITE" /\ r2.src = r.src /\ r2.dst = r.dst /\ r2.remain = r.remain
        /\ r2.buf = r2.src
    BY <1>7, <2>1
  <2>3. ~moves BY <1>14 DEF r, moves, Moves
  <2>4. seen'.asked = seen.asked /\ seen'.moved = seen.moved BY <1>9, <1>14, <2>3
  <2>5. DmaType' BY <1>4, <1>7, <2>2, <2>4 DEF DmaType, r2
  <2>6. AfterWords(Len(seen.moved))'
    <3>1. AfterWords(Len(seen.moved)) BY <1>2, <1>14 DEF TransferInv, r
    <3>. QED BY <2>2, <2>4, <3>1 DEF AfterWords, r, r2
  <2>7. \A k \in 1 .. Len(seen.moved) : seen.moved[k] = WordOf(seen.asked, k)
    BY <1>2, <1>14 DEF TransferInv, r
  <2>8. TransferInv' BY <2>2, <2>4, <2>6, <2>7 DEF TransferInv, r2
  <2>. QED BY <1>1, <1>11, <2>5, <2>8 DEF DmaInv
<1>15. CASE ~starts /\ r.state = "WRITE" /\ answers
  <2> DEFINE n == Len(seen.moved)
             asked == seen.asked
  <2>1. r2 = [r EXCEPT !.src = (@ + 1) % Space, !.dst = (@ + 1) % Space,
                       !.remain = (@ + Space - 1) % Space,
                       !.state = IF r.remain = 1 THEN "DONE" ELSE "READ"]
    BY <1>6, <1>15
  <2>2. r2.src = (r.src + 1) % Space /\ r2.dst = (r.dst + 1) % Space
        /\ r2.remain = (r.remain + Space - 1) % Space /\ r2.buf = r.buf
        /\ r2.state = (IF r.remain = 1 THEN "DONE" ELSE "READ")
    BY <1>7, <2>1
  <2>3. /\ (r.src + 1) % Space \in Addresses /\ (r.dst + 1) % Space \in Addresses
        /\ (r.remain + Space - 1) % Space \in Addresses
    <3>1. r.src + 1 \in Nat /\ r.dst + 1 \in Nat /\ r.remain + Space - 1 \in Nat
      <4>1. r.src \in Addresses /\ r.dst \in Addresses /\ r.remain \in Addresses BY <1>7
      <4>2. r.src \in Nat /\ r.dst \in Nat /\ r.remain \in Nat BY <4>1, AddressIs
      <4>. QED BY <4>2, Parameters
    <3>. QED BY <3>1, AddressIs
  <2>4. r2 \in [state : {"IDLE", "READ", "WRITE", "DONE"}, src : Addresses,
                dst : Addresses, remain : Addresses, buf : Addresses]
    BY <1>7, <2>1, <2>3
  <2>5. moves BY <1>15 DEF r, moves, Moves
  <2>6. asked' = asked /\ seen'.moved = Append(seen.moved, <<r.dst, r.buf>>)
    BY <1>9, <1>15, <2>5
  <2>7. /\ asked \in Transfers /\ n \in Nat /\ n < WordsOf(asked)
        /\ r.remain = IF WordsOf(asked) - n = Space THEN 0 ELSE WordsOf(asked) - n
        /\ r.src = (asked.src + n) % Space /\ r.dst = (asked.dst + n) % Space
        /\ r.buf = r.src
        /\ \A k \in 1 .. n : seen.moved[k] = WordOf(asked, k)
    BY <1>2, <1>7, <1>15 DEF TransferInv, AfterWords, r
  <2>8. /\ seen'.moved \in Seq(Addresses \X Addresses) /\ Len(seen'.moved) = n + 1
        /\ \A k \in 1 .. n : seen'.moved[k] = seen.moved[k]
        /\ seen'.moved[n + 1] = <<r.dst, r.buf>>
    BY <1>7, <2>6, AppendProperties
  <2>. HIDE DEF n, asked
  <2>9. /\ r.remain = 1 <=> n + 1 = WordsOf(asked)
        /\ n + 1 # WordsOf(asked) =>
             /\ n + 1 < WordsOf(asked)
             /\ r2.remain =
                  IF WordsOf(asked) - (n + 1) = Space THEN 0 ELSE WordsOf(asked) - (n + 1)
        /\ r2.src = (asked.src + (n + 1)) % Space
        /\ r2.dst = (asked.dst + (n + 1)) % Space
    BY <2>2, <2>7, OneWordMore
  <2>10. DmaType' BY <1>4, <2>4, <2>6, <2>7, <2>8 DEF DmaType, r2, asked
  <2>11. <<r.dst, r.buf>> = WordOf(asked, n + 1)
    <3>1. (n + 1) - 1 = n BY <2>7
    <3>. QED BY <2>7, <3>1 DEF WordOf
  <2>12. ASSUME NEW k \in 1 .. n + 1 PROVE seen'.moved[k] = WordOf(asked, k)
    <3>1. k \in 1 .. n \/ k = n + 1 BY <2>7
    <3>. QED BY <2>7, <2>8, <2>11, <3>1
  <2>13. r2.state = "READ" => AfterWords(Len(seen.moved))'
    BY <2>2, <2>6, <2>8, <2>9 DEF AfterWords, r2, asked
  <2>14. r2.state = "DONE" => Len(seen'.moved) = WordsOf(asked) BY <2>2, <2>8, <2>9
  <2>15. TransferInv'
    BY <2>2, <2>6, <2>8, <2>12, <2>13, <2>14 DEF TransferInv, r2, asked
  <2>. QED BY <1>1, <1>11, <2>10, <2>15 DEF DmaInv
<1>16. CASE ~starts /\ r.state = "DONE"
  <2>1. r2 = [r EXCEPT !.state = "IDLE"] /\ ~moves BY <1>6, <1>16 DEF r, moves, Moves
  <2>2. r2 \in [state : {"IDLE", "READ", "WRITE", "DONE"}, src : Addresses, dst : Addresses,
                remain : Addresses, buf : Addresses] /\ r2.state = "IDLE"
    BY <1>7, <2>1
  <2>3. seen'.asked = seen.asked /\ seen'.moved = seen.moved BY <1>9, <1>16, <2>1
  <2>4. DmaType' BY <1>4, <1>7, <2>2, <2>3 DEF DmaType, r2
  <2>5. TransferInv' BY <2>2 DEF TransferInv, r2
  <2>. QED BY <1>1, <1>11, <2>4, <2>5 DEF DmaInv
<1>17. ~starts => \/ r2 = r /\ ~moves
                  \/ r.state = "READ" /\ answers
                  \/ r.state = "WRITE" /\ answers
                  \/ r.state = "DONE"
  BY <1>6, <1>7 DEF r, moves, Moves
<1>. QED BY <1>12, <1>13, <1>14, <1>15, <1>16, <1>17

(* Whatever the size of the address space: the DMA engine moves what it was *)
(* asked to move, word by word and in order, and all of it at `done', when  *)
(* its driver starts a transfer only after the interrupt of the last one.   *)
THEOREM DmaMoves == IpSpec => []DmaMovesTheWords
<1>1. IpInit => DmaInv
  <2> SUFFICES ASSUME IpInit, block = "DmaEngine" PROVE DmaType /\ EndIsSeen /\ TransferInv
    BY DEF DmaInv
  <2>1. /\ reg = [dma |-> [state |-> "IDLE", src |-> 0, dst |-> 0, remain |-> 0, buf |-> 0],
                  int |-> [ier |-> {}, ipr |-> {}, last |-> {}]]
        /\ seen = [driver |-> "enable", asked |-> NoTransfer, moved |-> <<>>, pending |-> {}]
    BY DEF IpInit
  <2>2. 0 \in Addresses BY Parameters DEF Addresses
  <2>3. NoTransfer \in Transfers BY <2>2 DEF NoTransfer, Transfers
  <2>4. <<>> \in Seq(Addresses \X Addresses) OBVIOUS
  <2>. QED BY <2>1, <2>2, <2>3, <2>4 DEF DmaType, EndIsSeen, TransferInv
<1>2. DmaInv /\ [IpNext]_ipVars => DmaInv'
  <2> SUFFICES ASSUME DmaInv, [IpNext]_ipVars, block' = "DmaEngine" PROVE DmaInv'
    BY DEF DmaInv
  <2>1. /\ block = "DmaEngine"
        /\ \/ \E awake, answers, noise \in BOOLEAN : DmaEdge(awake, answers, noise)
           \/ ResetEdge \/ UNCHANGED ipVars
    BY StepOfBlock
  <2>2. CASE \E awake, answers, noise \in BOOLEAN : DmaEdge(awake, answers, noise)
    BY <2>2, DmaEdgeKeeps
  <2>3. CASE ResetEdge
    <3>1. /\ reg' = [dma |-> [reg.dma EXCEPT !.state = "IDLE", !.remain = 0],
                     int |-> [ier |-> {}, ipr |-> {}, last |-> {}]]
          /\ seen' = [driver |-> "enable", asked |-> NoTransfer, moved |-> <<>>, pending |-> {}]
      BY <2>1, <2>3 DEF ResetEdge, DmaReset
    <3>2. DmaType BY <2>1 DEF DmaInv
    <3>3. 0 \in Addresses BY Parameters DEF Addresses
    <3>4. NoTransfer \in Transfers BY <3>3 DEF NoTransfer, Transfers
    <3>5. <<>> \in Seq(Addresses \X Addresses) OBVIOUS
    <3>6. reg'.dma = [reg.dma EXCEPT !.state = "IDLE", !.remain = 0] BY <3>1
    <3>7. /\ reg'.dma \in [state : {"IDLE", "READ", "WRITE", "DONE"}, src : Addresses,
                           dst : Addresses, remain : Addresses, buf : Addresses]
          /\ reg'.dma.state = "IDLE"
      BY <3>2, <3>3, <3>6 DEF DmaType
    <3>8. DmaType' BY <3>1, <3>4, <3>5, <3>7 DEF DmaType
    <3>9. EndIsSeen' BY <3>1, <3>7 DEF EndIsSeen
    <3>10. TransferInv' BY <3>7 DEF TransferInv
    <3>. QED BY <3>8, <3>9, <3>10 DEF DmaInv
  <2>4. CASE UNCHANGED ipVars
    BY <2>4 DEF DmaInv, DmaType, EndIsSeen, TransferInv, AfterWords, ipVars
  <2>. QED BY <2>1, <2>2, <2>3, <2>4
<1>3. DmaInv => DmaMovesTheWords
  <2> DEFINE words == WordsOf(seen.asked)
             plan == [k \in 1 .. words |-> <<(seen.asked.dst + k - 1) % Space,
                                             (seen.asked.src + k - 1) % Space>>]
             m == Len(seen.moved)
  <2> SUFFICES ASSUME DmaInv, block = "DmaEngine", reg.dma.state # "IDLE"
               PROVE  /\ IsPrefix(seen.moved, plan)
                      /\ reg.dma.state = "DONE" => seen.moved = plan
    BY DEF DmaMovesTheWords, DmaBusy, DmaDone, WordsOf
  <2>1. /\ seen.asked \in Transfers /\ seen.moved \in Seq(Addresses \X Addresses)
        /\ \A k \in 1 .. m : seen.moved[k] = WordOf(seen.asked, k)
        /\ m <= words /\ m \in Nat /\ words \in Nat
        /\ reg.dma.state = "DONE" => m = words
    <3>1. DmaType /\ TransferInv BY DEF DmaInv
    <3>2. seen.asked \in Transfers /\ seen.moved \in Seq(Addresses \X Addresses)
      BY <3>1 DEF DmaType
    <3>3. words \in Nat BY <3>2, AddressIs, Parameters DEF WordsOf, Transfers
    <3>4. reg.dma.state \in {"READ", "WRITE"} => m < words BY <3>1 DEF TransferInv, AfterWords
    <3>5. reg.dma.state \in {"READ", "WRITE", "DONE"} BY <3>1 DEF DmaType
    <3>6. m \in Nat BY <3>2
    <3>. HIDE DEF m, words
    <3>. QED BY <3>1, <3>2, <3>3, <3>4, <3>5, <3>6 DEF TransferInv, m, words
  <2>2. ASSUME NEW k \in 1 .. words PROVE plan[k] = WordOf(seen.asked, k)
    <3>1. seen.asked.dst \in Nat /\ seen.asked.src \in Nat BY <2>1, AddressIs DEF Transfers
    <3>2. k \in Nat BY <2>1
    <3>3. (seen.asked.dst + k) - 1 = seen.asked.dst + (k - 1)
          /\ (seen.asked.src + k) - 1 = seen.asked.src + (k - 1)
      BY <3>1, <3>2
    <3>. QED BY <3>3 DEF WordOf
  <2>3. plan \in Seq(Nat \X Nat) /\ Len(plan) = words
    <3>1. ASSUME NEW k \in 1 .. words PROVE WordOf(seen.asked, k) \in Nat \X Nat
      <4>1. seen.asked.dst + (k - 1) \in Nat /\ seen.asked.src + (k - 1) \in Nat
        <5>1. seen.asked.dst \in Nat /\ seen.asked.src \in Nat
          BY <2>1, AddressIs DEF Transfers
        <5>2. k - 1 \in Nat BY <2>1
        <5>. QED BY <5>1, <5>2
      <4>. QED BY <4>1, AddressIs DEF WordOf
    <3>2. plan \in [1 .. words -> Nat \X Nat] BY <2>2, <3>1
    <3>. HIDE DEF plan, words
    <3>. QED BY <2>1, <3>2
  <2>. HIDE DEF plan, words, m
  <2>4. Len(seen.moved) = m BY DEF m
  <2>5. IsPrefix(seen.moved, plan)
    <3>1. SubSeq(seen.moved, 1, m) = SubSeq(plan, 1, m)
      BY <2>1, <2>2, <2>3, <2>4
    <3>. QED BY <2>1, <2>3, <2>4, <3>1 DEF IsPrefix
  <2>6. ASSUME reg.dma.state = "DONE" PROVE seen.moved = plan
    BY <2>1, <2>2, <2>3, <2>4, <2>6, SeqEqual
  <2>. QED BY <2>5, <2>6
<1>. QED BY <1>1, <1>2, <1>3, PTL DEF IpSpec
===============================================================================
