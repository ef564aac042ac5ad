--------------------------------- MODULE SocBus ---------------------------------
(***************************************************************************)
(* Registers behind a generated bus: the address map of a system on chip   *)
(* and its AXI4-Lite interconnect (soc.py), the register banks it leads to *)
(* (axi4lite.py, csr.py), and the driver classes that csr.py generates,    *)
(* used by several threads of software over one bus.                       *)
(*                                                                         *)
(* A word is the set of its bits that are one, a mask a set of bits.       *)
(***************************************************************************)
EXTENDS Naturals, FiniteSets, Sequences

CONSTANTS
  Configs,      \* sequences of regions [name, base, size] with distinct names
  Banks,        \* the registers in each region: sets of [offset, fields], a
                \* field [lsb, msb, access, reset]
  AddrSpace,    \* 2^addr_width
  WordBits,     \* data_width
  ByteBits,     \* bits that go with one strobe
  Threads,      \* of software; register at `off' is written by OwnerOf[off] only
  OwnerOf,
  SocWords,     \* words that are written
  Handshakes    \* "joint": address, data and response at once; "split": one by one

Bits == 0 .. WordBits - 1
Lanes == 0 .. (WordBits \div ByteBits) - 1
NoSel == 0

VARIABLES
  config, phase,  \* the configuration; "config", "refused" or "up"
  regs,           \* [offset -> word], of all banks
  thread,         \* what each thread does
  bus,            \* the access that is on the bus
  wanted          \* what the threads and the hardware asked the registers to hold

socVars == <<config, phase, regs, thread, bus, wanted>>

-------------------------------------------------------------------------------
(* csr.py: fields, registers, register maps.                               *)

FieldMask(f) == f.lsb .. f.msb

\* Reg._validate and RegisterMap._validate.
ValidBank(bank) ==
  /\ \A r, q \in bank : r.offset = q.offset => r = q
  /\ \A r \in bank : \A f, g \in r.fields : FieldMask(f) \cap FieldMask(g) # {} => f = g

\* Reg.access: what all fields share, else "rw".
Access(r) ==
  LET kinds == {f.access : f \in r.fields}
  IN IF kinds \in {{"ro"}, {"wo"}} THEN CHOOSE k \in kinds : TRUE ELSE "rw"

AllRegs == UNION {Banks[n] : n \in DOMAIN Banks}
RegAt(off) == CHOOSE r \in AllRegs : r.offset = off

\* A word is a number of bytes and holds the fields of its register; a region
\* begins at an address, and may end past the last one.
ASSUME SocAssumption ==
  /\ WordBits \in Nat \ {0} /\ ByteBits \in Nat \ {0}
  /\ WordBits = (WordBits \div ByteBits) * ByteBits
  /\ \A n \in DOMAIN Banks : ValidBank(Banks[n])
  /\ \A r, q \in AllRegs : r.offset = q.offset => r = q
  /\ \A r \in AllRegs : r.offset \in Nat /\ \A f \in r.fields : FieldMask(f) \subseteq Bits
  /\ SocWords \subseteq SUBSET Bits
  /\ Handshakes \in {"joint", "split"}
  /\ AddrSpace \in Nat \ {0}
  /\ \A c \in Configs : /\ c \in Seq([name : DOMAIN Banks, base : Nat, size : Nat])
                         /\ \A i \in DOMAIN c : c[i].base < AddrSpace

-------------------------------------------------------------------------------
(* Axi4LiteSub: read_decode, handshake and write_logic of one bank.  `i'   *)
(* holds the inputs of the bank.                                           *)

ReadDecode(bank, i) ==
  LET hits == {r \in bank : r.offset = i.araddr /\ Access(r) # "wo"}
  IN [arready |-> i.arvalid, rvalid |-> i.arvalid,
      rdata |-> IF i.arvalid /\ hits # {} THEN regs[i.araddr] ELSE {}]

Handshake(i) ==
  [awready |-> i.awvalid, wready |-> i.wvalid, bvalid |-> i.awvalid /\ i.wvalid]

LaneMask(strb) == UNION {l * ByteBits .. (l + 1) * ByteBits - 1 : l \in strb}

WriteLogic(bank, i) ==
  [off \in DOMAIN regs |->
     IF /\ i.awvalid /\ i.wvalid /\ i.awaddr = off
        /\ \E r \in bank : r.offset = off /\ Access(r) # "ro"
     THEN (regs[off] \ LaneMask(i.wstrb)) \cup (i.wdata \cap LaneMask(i.wstrb))
     ELSE regs[off]]

\* `if self.reset': registers that software can write become zero, whatever the
\* reset values of their fields; the others stay.
WriteReset == [off \in DOMAIN regs |-> IF Access(RegAt(off)) # "ro" THEN {} ELSE regs[off]]

-------------------------------------------------------------------------------
(* soc.py: AddressMap and build_interconnect.                              *)

\* entries.sort(key=base), which is stable: the place of an entry is after those
\* with a smaller base and those with the same one that are listed before it.
Before(c, i, j) == c[i].base < c[j].base \/ (c[i].base = c[j].base /\ i < j)
SlotOf(c, j) == Cardinality({i \in DOMAIN c : Before(c, i, j)}) + 1
SortedMap(c) == [k \in DOMAIN c |-> c[CHOOSE j \in DOMAIN c : SlotOf(c, j) = k]]

\* AddressMap: neighbours in the order of their bases are compared.
MapRefused(c) ==
  LET m == SortedMap(c)
  IN \E i \in 1 .. Len(m) - 1 : m[i].base + m[i].size > m[i + 1].base

\* The registers the drivers know that lie in a region of a system are those of
\* the bank behind the region.
ASSUME PlacedAssumption ==
  \A c \in Configs : ~MapRefused(c) =>
    \A i \in DOMAIN c, r \in AllRegs :
      c[i].base <= r.offset /\ r.offset < c[i].base + c[i].size => r \in Banks[c[i].name]

\* mutant: the end of a region belongs to it
SelOverlong(m, addr) ==
  LET hits == {i \in DOMAIN m : m[i].base <= addr /\ addr <= (m[i].base + m[i].size) % AddrSpace}
  IN IF hits = {} THEN NoSel ELSE CHOOSE i \in hits : \A j \in hits : j <= i

\* wr_sel and rd_sel: a chain of ifs, of which the last that holds counts.  The
\* end of a region is a literal of addr_width bits, which is cut off: that of a
\* region up to the last address is zero.
Sel(m, addr) ==
  LET hits == {i \in DOMAIN m : m[i].base <= addr /\ addr < (m[i].base + m[i].size) % AddrSpace}
  IN IF hits = {} THEN NoSel ELSE CHOOSE i \in hits : \A j \in hits : j <= i

-------------------------------------------------------------------------------
(* The manager: what it puts on the bus for an access, and when it is done.*)

IdleBus == [by |-> "none", write |-> FALSE, addr |-> 0, data |-> {}, strb |-> {}, done |-> {}]

\* One cycle of the bus; `raised' are the channels the manager raises in it.
\* Nobody answers an address that is in no region.
BusCycle(raised) ==
  LET m == SortedMap(config)
      s == Sel(m, bus.addr)
      bank == IF s = NoSel THEN {} ELSE Banks[m[s].name]
      up(ch) == s # NoSel /\ ch \in raised
      in == [awvalid |-> bus.write /\ up("a"), awaddr |-> bus.addr,
             wvalid |-> bus.write /\ up("w"), wdata |-> bus.data, wstrb |-> bus.strb,
             arvalid |-> ~bus.write /\ up("a"), araddr |-> bus.addr]
      shake == Handshake(in)
      read == ReadDecode(bank, in)
      passed == {ch \in raised :
                   CASE ch = "a" -> IF bus.write THEN shake.awready ELSE read.arready
                     [] ch = "w" -> shake.wready
                     [] ch = "r" -> IF bus.write THEN shake.bvalid ELSE read.rvalid}
      done == bus.done \cup passed
  IN [regs |-> WriteLogic(bank, in), rdata |-> read.rdata, done |-> done,
      over |-> {"a", "r"} \cup (IF bus.write THEN {"w"} ELSE {}) \subseteq done]

\* The channels of an access that are still to come: address, data, response.
Channels == ({"a", "r"} \cup IF bus.write THEN {"w"} ELSE {}) \ bus.done

Raises == IF Handshakes = "joint" THEN {Channels} ELSE (SUBSET Channels) \ {{}}

-------------------------------------------------------------------------------
(* The generated driver (to_python_driver), one call for each thread.      *)

\* right: was the last word it read what the register held.
IdleThread == [call |-> "none", off |-> 0, mask |-> {}, bits |-> {}, at |-> "none",
               cur |-> {}, right |-> TRUE]

Readable(r) == Access(r) # "wo"
Writable(r) == Access(r) # "ro"

\* (val << shift) & mask
InField(f, val) == {b + f.lsb : b \in val} \cap FieldMask(f)

\* Reg.reset_val, from the reset values of all fields.
ResetVal(r) == UNION {InField(f, f.reset) : f \in r.fields}

\* The bank drops them: what holds of it after a reset, holds where they are zero.
ResetsAreZero == \A r \in AllRegs : Writable(r) => ResetVal(r) = {}

\* set_<reg>_<field> after its read: what it writes back.
\* mutant: the old bits of the field stay
MergedOnto(cur, mask, bits) == cur \cup bits
Merged(cur, mask, bits) == (cur \ mask) \cup bits

\* A call about a register; those that write it are left to its owner.
CallOf(kind, r, mask, bits) ==
  [IdleThread EXCEPT !.call = kind, !.off = r.offset, !.mask = mask, !.bits = bits]
Mine(t, r) == Writable(r) /\ OwnerOf[r.offset] = t

\* read_ and get_, which reads; a register that is write only has none.
ReadCalls(r) == IF Readable(r) THEN {CallOf("read", r, {}, {})} ELSE {}

WriteCalls(t, r) == IF Mine(t, r) THEN {CallOf("write", r, Bits, w) : w \in SocWords} ELSE {}

\* A store to some bytes, as a program does that knows the offset from the C
\* header.
StoreCalls(t, r) ==
  IF Mine(t, r)
  THEN {CallOf("store", r, LaneMask({l}), w) : l \in Lanes, w \in SocWords}
  ELSE {}

\* set_, of a field that is not read only: where there is no read_ it does not run.
SetCalls(t, r) ==
  IF Mine(t, r) /\ Readable(r)
  THEN {CallOf("set", r, FieldMask(f), InField(f, v)) :
          f \in {g \in r.fields : g.access # "ro"}, v \in SocWords}
  ELSE {}

Calls(t) ==
  UNION {ReadCalls(r) \cup WriteCalls(t, r) \cup StoreCalls(t, r) \cup SetCalls(t, r) :
           r \in AllRegs}

SocStart ==
  /\ phase = "config"
  /\ regs = [off \in {r.offset : r \in AllRegs} |-> {}]
  /\ wanted = regs
  /\ thread = [t \in Threads |-> IdleThread]
  /\ bus = IdleBus

SocInit == config \in Configs /\ SocStart

\* build_soc: the map is refused, or the system is built.
Build ==
  /\ phase = "config"
  /\ phase' = IF MapRefused(config) THEN "refused" ELSE "up"
  /\ UNCHANGED <<config, regs, thread, bus, wanted>>

Call(t) ==
  /\ phase = "up" /\ thread[t].call = "none"
  /\ \E c \in Calls(t) :
       thread' = [thread EXCEPT ![t] = [c EXCEPT !.at = IF c.call \in {"read", "set"}
                                                        THEN "reads" ELSE "writes"]]
  /\ UNCHANGED <<config, phase, regs, bus, wanted>>

\* bus.read or bus.write of a thread begins: one access at a time.
Issue(t) ==
  LET c == thread[t] IN
  /\ bus = IdleBus /\ c.at \in {"reads", "writes"}
  /\ bus' = [by |-> t, write |-> c.at = "writes", addr |-> c.off, done |-> {},
             data |-> IF c.call = "set" /\ c.at = "writes" THEN Merged(c.cur, c.mask, c.bits)
                      ELSE c.bits,
             strb |-> IF c.call = "store" THEN {l \in Lanes : LaneMask({l}) \subseteq c.mask}
                      ELSE Lanes]
  /\ UNCHANGED <<config, phase, regs, thread, wanted>>

\* A cycle of the clock with an access on the bus.
BusAccess(raised) ==
  /\ bus # IdleBus
  /\ LET t == bus.by
         c == thread[t]
         out == BusCycle(raised)
     IN /\ regs' = out.regs
        /\ bus' = IF out.over THEN IdleBus ELSE [bus EXCEPT !.done = out.done]
        /\ thread' = [thread EXCEPT ![t] =
             IF ~out.over THEN c
             ELSE IF bus.write THEN IdleThread
             ELSE IF c.call = "set" THEN [c EXCEPT !.at = "writes", !.cur = out.rdata]
             ELSE [IdleThread EXCEPT !.right = out.rdata = wanted[c.off]]]
        /\ wanted' = IF ~out.over \/ ~bus.write THEN wanted
                     ELSE [wanted EXCEPT ![c.off] = (@ \ c.mask) \cup (c.bits \cap c.mask)]
  /\ UNCHANGED <<config, phase>>

\* The logic next to a bank drives a register that software only reads.
HardwareWrites(r, w) ==
  /\ phase = "up" /\ ~Writable(r)
  /\ regs' = [regs EXCEPT ![r.offset] = w]
  /\ wanted' = [wanted EXCEPT ![r.offset] = w]
  /\ UNCHANGED <<config, phase, thread, bus>>

\* Reset of the platform: software starts again too, and counts on the reset
\* values of the registers it can write, as the C header and the documentation
\* have them.
SocReset ==
  /\ phase = "up"
  /\ regs' = WriteReset
  /\ wanted' = [off \in DOMAIN wanted |->
                  IF Writable(RegAt(off)) THEN ResetVal(RegAt(off)) ELSE wanted[off]]
  /\ thread' = [t \in Threads |-> IdleThread]
  /\ bus' = IdleBus
  /\ UNCHANGED <<config, phase>>

Refused == phase = "refused" /\ UNCHANGED socVars

BusGoesOn == \E raised \in Raises : BusAccess(raised)

SocNext ==
  \/ Build \/ Refused \/ BusGoesOn \/ SocReset
  \/ \E t \in Threads : Call(t) \/ Issue(t)
  \/ \E r \in AllRegs, w \in SocWords : HardwareWrites(r, w)

SocSpec == SocInit /\ [][SocNext]_socVars

-------------------------------------------------------------------------------
(* A configuration is refused only when one of its regions begins inside   *)
(* another.  Otherwise no address is led to a region it is not in, and a   *)
(* region that ends before the last address has every access to it.  One   *)
(* that reaches the last address has not: the decoder compares with an end *)
(* cut off to addr_width bits.                                             *)
AddressesDecoded ==
  LET in(e) == e.base .. e.base + e.size - 1
      m == SortedMap(config)
  IN /\ phase = "refused" => \E i, j \in DOMAIN config : i # j /\ config[j].base \in in(config[i])
     /\ phase = "up" =>
          \A a \in 0 .. AddrSpace - 1 :
            LET home == {i \in DOMAIN m : a \in in(m[i])}
            IN /\ Sel(m, a) # NoSel => Sel(m, a) \in home
               /\ \A i \in home : m[i].base + m[i].size < AddrSpace => Sel(m, a) = i

(* Every register holds what its writers and the hardware asked for, field *)
(* by field and byte by byte, whatever the threads do to other registers   *)
(* between the read and the write of a set_; a read or get_ returns what   *)
(* the register held; and after a reset a register holds its reset value.  *)
RegistersAsWanted ==
  /\ regs = wanted
  /\ \A t \in Threads : LET c == thread[t] IN
       /\ c.right
       /\ c.call = "set" /\ c.at = "writes" => c.cur = wanted[c.off]
=================================================================================
