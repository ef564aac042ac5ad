----------------------------- MODULE MCHardware -----------------------------
(***************************************************************************)
(* The hardware that comes with the library, each design on its own bench: *)
(* `bench' says which one is driven, the others stand still in one of      *)
(* their initial states.                                                   *)
(***************************************************************************)
EXTENDS IpBench, AsyncFifo, Axi4, Cpu, Spi, Pipelines, GdbStub

CONSTANT Benches

VARIABLE bench

vars == <<bench, ipVars, cdcVars, axiVars, cpuVars, spiVars, pipeVars, gdbVars>>

\* The FIFO between two clocks has four words, as the one in the tests.
PowersOfTwo == [i \in 0 .. AddrBits |-> 2 ^ i]

MCBursts ==
  {[addr |-> 0, len |-> 1, id |-> 1], [addr |-> 1, len |-> 0, id |-> 2],
   [addr |-> 2, len |-> 1, id |-> 2]}

\* One of each kind that can be in the way of another: operands, loads, stores,
\* branches, jumps, halt.
Instructions ==
  {Enc("ADDI", 1, 0, 0, 255), Enc("ADD", 2, 1, 1, 0), Enc("SUB", 1, 2, 1, 0),
   Enc("STORE", 1, 0, 0, 1), Enc("LOAD", 2, 0, 0, 1), EncBeq(1, 2, 30), Enc("JMP", 0, 0, 0, 2),
   Enc("HLT", 0, 0, 0, 0)}

MCPrograms == {<<Enc("LI", 1, 0, 0, 1), a, b, c>> : a, b, c \in Instructions}

Resting == LET halt == Enc("HLT", 0, 0, 0, 0) IN <<Enc("LI", 1, 0, 0, 1), halt, halt, halt>>

\* Debuggers: memory with a region over the end of another and a UART over the
\* end of both, a segment larger than its data.
ReadAll == <<"m", 0, 6>>
MCScripts ==
  [d \in {"gdb", "ide"} |->
     IF d = "gdb"
     THEN {<<<<"c">>, Interrupt, <<"M", 1, <<7, 8, 9>>>>, ReadAll>>,
           <<<<"P", 1, 2>>, Ack, <<"c">>, <<"g">>>>,
           <<<<"s">>, <<"k">>, Interrupt, ReadAll>>,
           <<<<"G", <<3, 1>>>>, <<"p", 3>>, Ack, Ack, <<"p", 2>>, <<"q">>>>}
     ELSE {<<<<"M", 0, <<4>>>>>>, <<<<"P", 3, 1>>>>}]
MCRegions == <<[base |-> 0, size |-> 2], [base |-> 1, size |-> 3]>>
MCUarts == <<[base |-> 3, size |-> 2]>>
MCSegments == <<[vaddr |-> 0, data |-> <<5, 6>>, memsz |-> 3]>>

Init ==
  /\ bench \in Benches
  /\ IpInit /\ (bench # "ip" => block = "CreditFlowControl")
  /\ CdcInit
  /\ AxiInit /\ (bench # "axi" => direct /\ ref[0] = 0)
  /\ CpuInit /\ (bench # "cpu" => program = Resting)
  /\ SpiInit /\ (bench # "spi" => host.polite)
  /\ PipeInit /\ (bench # "pipe" => ctrl = "signal")
  /\ GdbInit

Ip(A) == /\ bench = "ip" /\ A
         /\ UNCHANGED <<bench, cdcVars, axiVars, cpuVars, spiVars, pipeVars, gdbVars>>

Cdc(A) == /\ bench = "cdc" /\ A
          /\ UNCHANGED <<bench, ipVars, axiVars, cpuVars, spiVars, pipeVars, gdbVars>>

Axi(A) == /\ bench = "axi" /\ A
          /\ UNCHANGED <<bench, ipVars, cdcVars, cpuVars, spiVars, pipeVars, gdbVars>>

Processor(A) == /\ bench = "cpu" /\ A
                /\ UNCHANGED <<bench, ipVars, cdcVars, axiVars, spiVars, pipeVars, gdbVars>>

Bus(A) == /\ bench = "spi" /\ A
          /\ UNCHANGED <<bench, ipVars, cdcVars, axiVars, cpuVars, pipeVars, gdbVars>>

Builder(A) == /\ bench = "pipe" /\ A
              /\ UNCHANGED <<bench, ipVars, cdcVars, axiVars, cpuVars, spiVars, gdbVars>>

Stub(A) == /\ bench = "gdb" /\ A
           /\ UNCHANGED <<bench, ipVars, cdcVars, axiVars, cpuVars, spiVars, pipeVars>>

Next ==
  \/ Builder(PipeNext) \/ Ip(IpNext) \/ Axi(AxiNext) \/ Processor(CpuNext) \/ Bus(SpiNext)
  \/ Stub(GdbNext) \/ Cdc(CdcNext)

\* The conditions of the benches, which are one as `bench' never changes; those
\* of the two clocks are two, each about the flip-flops of its own side.
Fairness ==
  /\ WF_vars(Ip(IpProgress) \/ Axi(AxiProgress) \/ Bus(SpiProgress) \/ Stub(GdbProgress))
  /\ WF_<<rgray_s1, rgray_s2>>(Cdc(WriteEdge \/ BothEdges))
  /\ WF_<<wgray_s1, wgray_s2>>(Cdc(ReadEdge \/ BothEdges))

Spec == Init /\ [][Next]_vars /\ Fairness
=============================================================================
