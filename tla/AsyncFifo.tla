----------------------------- MODULE AsyncFifo -----------------------------
(***************************************************************************)
(* AsyncFIFO of cdc.py, a FIFO between two clock domains.  Each side keeps *)
(* a pointer and its Gray code; the Gray code passes through two flip-     *)
(* flops of the other side, which compares the late copy with its own.     *)
(*                                                                         *)
(* An action is one rising edge of one clock, or of both at one instant.   *)
(* When both rise at once the three back ends differ: in Verilog each side *)
(* samples the old Gray code of the other, the C model runs the groups in  *)
(* the order of their clock names, rclk first, and writes each back before *)
(* the next one, and the Python simulator runs the writer first.           *)
(*                                                                         *)
(* A Gray code is the set of its bits that are 1.                          *)
(***************************************************************************)
EXTENDS Integers, Sequences, FiniteSets

CONSTANTS
    Data, Zero,  \* the words, and the one memories and registers start with
    AddrBits,    \* depth.bit_length()
    Weight       \* Weight[i] is 2^i

\* The depth is a power of two.  A depth of 1 is no design: the comparison
\* with 3 << (addr_bits - 2) raises an exception.
ASSUME DepthAssumption ==
    /\ Zero \in Data
    /\ AddrBits \in Nat /\ AddrBits >= 2
    /\ Weight \in [0 .. AddrBits -> Nat]
    /\ Weight[0] = 1
    /\ \A i \in 0 .. AddrBits - 1 : Weight[i + 1] = 2 * Weight[i]

depth == Weight[AddrBits - 1]
Pointers == 0 .. 2 * depth - 1
Inc(p) == (p + 1) % (2 * depth)
Slot(p) == p % depth

PointerBit(p, i) == (p \div Weight[i]) % 2
\* mutant: the pointer crosses as it is
Binary(p) == {i \in 0 .. AddrBits - 1 : PointerBit(p, i) = 1}
\* p ^ (p >> 1)
Gray(p) == {i \in 0 .. AddrBits - 1 : PointerBit(p, i) # PointerBit(p, i + 1)}
Xor(g, h) == (g \ h) \cup (h \ g)


VARIABLES
    mem,
    wptr, wgray, rgray_s1, rgray_s2,    \* registers of the writer's domain
    rptr, rgray, wgray_s1, wgray_s2,    \* registers of the reader's domain
    wrst, rrst,                         \* the reset inputs
    \* The rest is not in the code.
    held,   \* the sides that have had no edge under the reset in progress
    taken   \* the word on rdata when the reader last advanced

writer == <<wptr, wgray, rgray_s1, rgray_s2>>
reader == <<rptr, rgray, wgray_s1, wgray_s2>>
cdcVars == <<mem, writer, reader, wrst, rrst, held, taken>>

\* The combinational flags, each from what its own side knows.
\* mutant: the comparison that suits pointers, not Gray codes
FullForBinary == Xor(wgray, rgray_s2) = {AddrBits - 1}
full == Xor(wgray, rgray_s2) = {AddrBits - 1, AddrBits - 2}
empty == rgray = wgray_s2
rdata == mem[Slot(rptr)]

CdcInit ==
    /\ mem = [a \in 0 .. depth - 1 |-> Zero]
    /\ wptr = 0 /\ wgray = {} /\ rgray_s1 = {} /\ rgray_s2 = {}
    /\ rptr = 0 /\ rgray = {} /\ wgray_s1 = {} /\ wgray_s2 = {}
    /\ wrst = FALSE /\ rrst = FALSE
    /\ held = {} /\ taken = Zero

-----------------------------------------------------------------------------
(* write_logic, on an edge of wclk at which the other side's Gray code     *)
(* reads g                                                                 *)

ResetWriter == /\ wrst
               /\ wptr' = 0 /\ wgray' = {}
               /\ rgray_s1' = {} /\ rgray_s2' = {}
               /\ UNCHANGED mem

\* mutant: the first flip-flop is not fed
SampleNothing(g) == rgray_s2' = rgray_s1 /\ UNCHANGED rgray_s1
SampleReader(g) == rgray_s2' = rgray_s1 /\ rgray_s1' = g

\* mutant: wen alone decides
AcceptAlways(d, g) == /\ ~ wrst
                      /\ SampleReader(g)
                      /\ mem' = [mem EXCEPT ![Slot(wptr)] = d]
                      /\ wptr' = Inc(wptr)
                      /\ wgray' = Gray(Inc(wptr))

\* wen is high
AcceptWord(d, g) ==
    /\ ~ wrst /\ ~ full
    /\ SampleReader(g)
    /\ mem' = [mem EXCEPT ![Slot(wptr)] = d]
    /\ wptr' = Inc(wptr)
    /\ wgray' = Gray(Inc(wptr))

\* wen is low, or the FIFO is full
IdleWriter(g) == /\ ~ wrst
                 /\ SampleReader(g)
                 /\ UNCHANGED <<mem, wptr, wgray>>

WriteLogic(g) == \/ ResetWriter
                 \/ \E d \in Data : AcceptWord(d, g)
                 \/ IdleWriter(g)

(* read_logic, on an edge of rclk at which the other side's Gray code      *)
(* reads g                                                                 *)

ResetReader == /\ rrst
               /\ rptr' = 0 /\ rgray' = {}
               /\ wgray_s1' = {} /\ wgray_s2' = {}
               /\ UNCHANGED taken

SampleWriter(g) == wgray_s2' = wgray_s1 /\ wgray_s1' = g

\* ren is high
Take(g) == /\ ~ rrst /\ ~ empty
           /\ SampleWriter(g)
           /\ rptr' = Inc(rptr)
           /\ rgray' = Gray(Inc(rptr))
           /\ taken' = rdata

\* ren is low, or the FIFO is empty
IdleReader(g) == /\ ~ rrst
                 /\ SampleWriter(g)
                 /\ UNCHANGED <<rptr, rgray, taken>>

ReadLogic(g) == ResetReader \/ Take(g) \/ IdleReader(g)

-----------------------------------------------------------------------------
WriteEdge == /\ WriteLogic(rgray)
             /\ held' = held \ {"w"}
             /\ UNCHANGED <<reader, taken, wrst, rrst>>

ReadEdge == /\ ReadLogic(wgray)
            /\ held' = held \ {"r"}
            /\ UNCHANGED <<writer, mem, wrst, rrst>>

BothEdges == /\ \/ WriteLogic(rgray) /\ ReadLogic(wgray)     \* Verilog
                \/ ReadLogic(wgray) /\ WriteLogic(rgray')    \* C
                \/ WriteLogic(rgray) /\ ReadLogic(wgray')    \* Python
             /\ held' = {}
             /\ UNCHANGED <<wrst, rrst>>

(***************************************************************************)
(* The environment resets both sides together, and releases each of them   *)
(* after both have had an edge, as the test benches of the FIFO do.        *)
(***************************************************************************)
AssertReset == /\ ~ wrst /\ ~ rrst
               /\ wrst' = TRUE /\ rrst' = TRUE /\ held' = {"w", "r"}
               /\ UNCHANGED <<mem, writer, reader, taken>>

ReleaseWriter == /\ wrst /\ held = {} /\ wrst' = FALSE
                 /\ UNCHANGED <<mem, writer, reader, rrst, held, taken>>

ReleaseReader == /\ rrst /\ held = {} /\ rrst' = FALSE
                 /\ UNCHANGED <<mem, writer, reader, wrst, held, taken>>

CdcNext ==
    \/ WriteEdge \/ ReadEdge \/ BothEdges
    \/ AssertReset \/ ReleaseWriter \/ ReleaseReader

CdcSpec == CdcInit /\ [][CdcNext]_cdcVars

-----------------------------------------------------------------------------
Codes == SUBSET (0 .. AddrBits - 1)

\* The registers keep the widths they are declared with.
CdcTypeOK ==
    /\ mem \in [0 .. depth - 1 -> Data]
    /\ wptr \in Pointers /\ rptr \in Pointers
    /\ {wgray, rgray, wgray_s1, wgray_s2, rgray_s1, rgray_s2} \subseteq Codes
    /\ wrst \in BOOLEAN /\ rrst \in BOOLEAN
    /\ held \subseteq {"w", "r"}
    /\ taken \in Data

\* How far pointer p is ahead of pointer q.
Ahead(p, q) == IF p >= q THEN p - q ELSE p - q + 2 * depth
used == Ahead(wptr, rptr)

(***************************************************************************)
(* The flags are late, and err on the safe side only: when full is low     *)
(* there is room for a word, and when empty is low there is a word.        *)
(***************************************************************************)
FlagsAreSafe ==
    held = {} => /\ ~ full => used < depth
                 /\ ~ empty => used > 0
                 /\ used <= depth

OneBit(g, h) == Cardinality(Xor(g, h)) <= 1

(***************************************************************************)
(* What crosses from one domain to the other changes in one bit at a time, *)
(* so that a flip-flop that samples it while it changes holds either the   *)
(* old code or the new one.  Only a reset changes more.                    *)
(***************************************************************************)
OneBitCrosses == [][/\ ~ wrst => OneBit(wgray, wgray')
                    /\ ~ rrst => OneBit(rgray, rgray')]_cdcVars

(***************************************************************************)
(* A flag that is high for no reason falls: a word inside is seen by the   *)
(* reader, and room is seen by the writer, unless a reset intervenes.      *)
(***************************************************************************)
FlagsCatchUp ==
    /\ (~ rrst /\ used > 0) ~> (~ empty \/ rrst)
    /\ (~ wrst /\ used < depth) ~> (~ full \/ wrst)

content == [i \in 1 .. used |-> mem[Slot((rptr + i - 1) % (2 * depth))]]
Fifo == INSTANCE BoundedFifo
            WITH queue <- IF held = {} THEN content ELSE << >>, Capacity <- depth

(***************************************************************************)
(* The two sides together are a FIFO: what is in memory between the two    *)
(* pointers is its content, and a reset that is not complete has already   *)
(* emptied it.                                                             *)
(***************************************************************************)
IsFifo == Fifo!Spec
=============================================================================
