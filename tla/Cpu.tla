--------------------------------- MODULE Cpu ---------------------------------
(***************************************************************************)
(* examples/cpu_v1.py: a pipeline of three stages (fetch and decode,       *)
(* execute, write back) with forwarding, stalls and flushes.  Words have   *)
(* 16 bits.  `cpu' holds the registers and memories; `arch' is a machine   *)
(* that executes one instruction after the other, and takes a step         *)
(* whenever an instruction enters the last stage of the pipeline.          *)
(***************************************************************************)
EXTENDS Naturals, Sequences, FiniteSetsExt

CONSTANTS
  Programs,      \* contents of the instruction memory: sequences of words
  DataDepth,     \* words of data memory
  CpuCycles,     \* bound: edges of a behaviour
  CpuResets      \* bound: resets of a behaviour

DataWords == 0 .. 65535

ASSUME CpuAssumption ==
  /\ Programs \subseteq Seq(DataWords) /\ <<>> \notin Programs
  /\ DataDepth \in Nat \ {0}
  /\ CpuCycles \in Nat /\ CpuResets \in Nat

VARIABLES program, cpu, arch, spent

cpuVars == <<program, cpu, arch, spent>>

OpCodes == [LOAD |-> 1, STORE |-> 2, LI |-> 4, ADD |-> 5, SUB |-> 6, AND |-> 7, OR |-> 8,
            JMP |-> 13, BEQ |-> 14, HLT |-> 15, ADDI |-> 19]

Bit(w, i) == (w \div 2^i) % 2
And(a, b) == MapThenSumSet(LAMBDA i : 2^i * Bit(a, i) * Bit(b, i), 0 .. 15)
Or(a, b) == a + b - And(a, b)

\* The fields of an instruction are or-ed together: an immediate shares its
\* upper bits with rs1.
Enc(op, rd, rs1, rs2, imm) ==
  OpCodes[op] * 2048 + (rd % 8) * 256 + Or((rs1 % 8) * 32 + (rs2 % 8) * 4, imm % 256)

EncBeq(rs1, rs2, imm5) == Enc("BEQ", rs1, rs2, 0, imm5 % 32)

Word(n) == n % 65536

SignExtend(n, bits) == IF n >= 2^(bits - 1) THEN n + 65536 - 2^bits ELSE n

-----------------------------------------------------------------------------
(* The combinational blocks.                                               *)

Decode(instr) ==
  LET op == instr \div 2048
      rd == (instr \div 256) % 8
      rs1 == (instr \div 32) % 8
      rs2 == (instr \div 4) % 8
      Is(names) == \E o \in names : op = OpCodes[o]
  IN [rs1    |-> IF Is({"ADDI", "BEQ"}) THEN rd ELSE rs1,
      rs2    |-> IF Is({"STORE"}) THEN rd ELSE IF Is({"BEQ"}) THEN rs1 ELSE rs2,
      rd     |-> rd,
      imm    |-> IF Is({"ADDI"}) THEN SignExtend(instr % 256, 8) ELSE instr % 256,
      imm5   |-> instr % 32,
      regWe  |-> Is({"ADD", "SUB", "AND", "OR", "LI", "ADDI", "LOAD"}),
      memRe  |-> Is({"LOAD"}),
      memWe  |-> Is({"STORE"}),
      useImm |-> Is({"LI", "ADDI", "LOAD", "STORE"}),
      isJump |-> Is({"JMP"}),
      isBeq  |-> Is({"BEQ"}),
      isHalt |-> Is({"HLT"}),
      alu    |-> IF Is({"SUB"}) THEN "SUB" ELSE IF Is({"AND"}) THEN "AND"
                 ELSE IF Is({"OR"}) THEN "OR" ELSE IF Is({"LI"}) THEN "PASS" ELSE "ADD"]

Alu(op, a, b) ==
  CASE op = "SUB" -> Word(a + 65536 - b)
    [] op = "AND" -> And(a, b)
    [] op = "OR" -> Or(a, b)
    [] op = "PASS" -> b
    [] OTHER -> Word(a + b)

WbWdata(c) == IF c.wb.memRe THEN c.dmem[c.wb.result % DataDepth] ELSE c.wb.result

\* mutant: nothing is forwarded from the last stage to the first
RfReadLate(c, r) == c.rf[r]

RfRead(c, r) == IF c.wb.regWe /\ c.wb.rd # 0 /\ c.wb.rd = r THEN WbWdata(c) ELSE c.rf[r]

\* mutant: only the first operand is compared
StallOnFirst(c, d) == c.ex.valid /\ c.ex.regWe /\ c.ex.rd # 0 /\ c.ex.rd = d.rs1

Stall(c, d) == c.ex.valid /\ c.ex.regWe /\ c.ex.rd # 0 /\ c.ex.rd \in {d.rs1, d.rs2}

Forward(c, r, data) ==
  IF c.wb.valid /\ c.wb.regWe /\ c.wb.rd # 0 /\ c.wb.rd = r THEN c.wb.result ELSE data

TakeBranch(ex, a, b) == ex.valid /\ (ex.isJump \/ (ex.isBeq /\ a = b))

BranchTarget(ex) ==
  Word(ex.pc + IF ex.isJump THEN SignExtend(ex.imm % 256, 8) ELSE SignExtend(ex.imm5, 5))

-----------------------------------------------------------------------------
(* The clocked block.                                                      *)

Bubble(ex) ==
  [ex EXCEPT !.valid = FALSE, !.regWe = FALSE, !.memRe = FALSE, !.memWe = FALSE,
             !.isJump = FALSE, !.isBeq = FALSE, !.isHalt = FALSE]

\* Registers and memory when the instruction in the last stage has written.
WrittenBack(c) ==
  [rf   |-> IF c.wb.regWe /\ c.wb.rd # 0 THEN [c.rf EXCEPT ![c.wb.rd] = WbWdata(c)] ELSE c.rf,
   dmem |-> IF c.wb.memWe THEN [c.dmem EXCEPT ![c.wb.result % DataDepth] = c.wb.store]
            ELSE c.dmem,
   halted |-> c.halted \/ c.wb.isHalt]

CpuSeq(c) ==
  LET d == Decode(c.fd.instr)
      stall == Stall(c, d)
      a == Forward(c, c.ex.rs1, c.ex.data1)
      b == Forward(c, c.ex.rs2, c.ex.data2)
      taken == TakeBranch(c.ex, a, b)
      ex == c.ex
  IN [pc |-> IF taken THEN BranchTarget(ex) ELSE IF stall THEN c.pc ELSE Word(c.pc + 1),
      fd |-> IF taken THEN [instr |-> 0, valid |-> FALSE, pc |-> 0]
             ELSE IF stall THEN c.fd
             ELSE [instr |-> program[(c.pc % Len(program)) + 1], valid |-> TRUE, pc |-> c.pc],
      ex |-> IF taken \/ stall \/ ~c.fd.valid THEN Bubble(ex)
             ELSE [rs1 |-> d.rs1, rs2 |-> d.rs2, rd |-> d.rd, imm |-> d.imm, imm5 |-> d.imm5,
                   data1 |-> RfRead(c, d.rs1), data2 |-> RfRead(c, d.rs2), alu |-> d.alu,
                   regWe |-> d.regWe, memRe |-> d.memRe, memWe |-> d.memWe,
                   useImm |-> d.useImm, isJump |-> d.isJump, isBeq |-> d.isBeq,
                   isHalt |-> d.isHalt, valid |-> TRUE, pc |-> c.fd.pc],
      wb |-> [result |-> Alu(ex.alu, a, IF ex.useImm THEN ex.imm ELSE b), store |-> b,
              rd |-> ex.rd, regWe |-> ex.regWe /\ ex.valid, memRe |-> ex.memRe /\ ex.valid,
              memWe |-> ex.memWe /\ ex.valid, valid |-> ex.valid,
              isHalt |-> ex.isHalt /\ ex.valid],
      rf |-> WrittenBack(c).rf, dmem |-> WrittenBack(c).dmem,
      halted |-> WrittenBack(c).halted]

\* Reset clears the valid bits; what the last stage is about to write stays
\* there, and is written at the first edge after the reset.
CpuReset(c) ==
  [c EXCEPT !.pc = 0, !.fd.valid = FALSE, !.ex.valid = FALSE, !.wb.valid = FALSE,
            !.halted = FALSE]

-----------------------------------------------------------------------------
(* One instruction after the other.                                        *)

Execute(m) ==
  LET d == Decode(program[(m.pc % Len(program)) + 1])
      a == m.rf[d.rs1]
      b == m.rf[d.rs2]
      r == Alu(d.alu, a, IF d.useImm THEN d.imm ELSE b)
      offset == IF d.isJump THEN SignExtend(d.imm % 256, 8)
                ELSE IF d.isBeq /\ a = b THEN SignExtend(d.imm5, 5) ELSE 1
  IN [pc |-> Word(m.pc + offset),
      rf |-> IF d.regWe /\ d.rd # 0
             THEN [m.rf EXCEPT ![d.rd] = IF d.memRe THEN m.dmem[r % DataDepth] ELSE r] ELSE m.rf,
      dmem |-> IF d.memWe THEN [m.dmem EXCEPT ![r % DataDepth] = b] ELSE m.dmem,
      halted |-> m.halted \/ d.isHalt]

-----------------------------------------------------------------------------
CpuInit ==
  /\ program \in Programs
  /\ cpu = [pc |-> 0, fd |-> [instr |-> 0, valid |-> FALSE, pc |-> 0],
            ex |-> Bubble([rs1 |-> 0, rs2 |-> 0, rd |-> 0, imm |-> 0, imm5 |-> 0, data1 |-> 0,
                    data2 |-> 0, alu |-> "ADD", regWe |-> FALSE, memRe |-> FALSE,
                    memWe |-> FALSE, useImm |-> FALSE, isJump |-> FALSE, isBeq |-> FALSE,
                    isHalt |-> FALSE, valid |-> FALSE, pc |-> 0]),
            wb |-> [result |-> 0, store |-> 0, rd |-> 0, regWe |-> FALSE, memRe |-> FALSE,
                    memWe |-> FALSE, valid |-> FALSE, isHalt |-> FALSE],
            rf |-> [r \in 0..7 |-> 0], dmem |-> [a \in 0 .. DataDepth - 1 |-> 0],
            halted |-> FALSE]
  /\ arch = [pc |-> 0, rf |-> cpu.rf, dmem |-> cpu.dmem, halted |-> FALSE]
  /\ spent = [cycles |-> 0, resets |-> 0]

CpuEdge ==
  /\ spent.cycles < CpuCycles
  /\ cpu' = CpuSeq(cpu)
  /\ arch' = IF cpu.ex.valid THEN Execute(arch) ELSE arch
  /\ spent' = [spent EXCEPT !.cycles = @ + 1]
  /\ UNCHANGED program

\* The instructions in the first two stages are lost.
CpuResetEdge ==
  /\ spent.cycles < CpuCycles /\ spent.resets < CpuResets
  /\ cpu' = CpuReset(cpu)
  /\ arch' = [arch EXCEPT !.pc = 0, !.halted = cpu.wb.isHalt]
  /\ spent' = [cycles |-> spent.cycles + 1, resets |-> spent.resets + 1]
  /\ UNCHANGED program

\* The bound is reached.
CpuStops == spent.cycles = CpuCycles /\ UNCHANGED cpuVars

CpuNext == CpuEdge \/ CpuResetEdge \/ CpuStops

CpuSpec == CpuInit /\ [][CpuNext]_cpuVars

-----------------------------------------------------------------------------
(* The pipeline computes what the instructions say one after the other:    *)
(* registers, memory and halted, once the last stage has written, are      *)
(* those of the machine without a pipeline, for every hazard of loads,     *)
(* operands, branches and resets.                                          *)
PipelineExecutesProgram ==
  WrittenBack(cpu) = [rf |-> arch.rf, dmem |-> arch.dmem, halted |-> arch.halted]
=============================================================================
