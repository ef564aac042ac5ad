----------------------------- MODULE SocBusProofs -----------------------------
(***************************************************************************)
(* The address map leads every address to its region, registers hold what  *)
(* was asked of them, and the GDB stub answers everything a debugger asks,  *)
(* for all configurations, banks, threads, machines and scripts.           *)
(***************************************************************************)
EXTENDS SocBus, GdbStub, FiniteSetTheorems, SequenceTheorems, WellFoundedInduction, TLAPS

Entry == [name : DOMAIN Banks, base : Nat, size : Nat]

(***************************************************************************)
(* Sorting: places of entries are a permutation of 1 .. Len(c).            *)
(***************************************************************************)
Earlier(c, j) == {i \in DOMAIN c : Before(c, i, j)}

LEMMA BeforeOrders ==
    ASSUME NEW c \in Seq(Entry), NEW i \in DOMAIN c, NEW j \in DOMAIN c, NEW k \in DOMAIN c
    PROVE  /\ ~Before(c, i, i)
           /\ i # j => Before(c, i, j) \/ Before(c, j, i)
           /\ Before(c, i, j) /\ Before(c, j, k) => Before(c, i, k)
<1>0. c[i] \in Entry /\ c[j] \in Entry /\ c[k] \in Entry
  OBVIOUS
<1>1. /\ c[i].base \in Nat /\ c[j].base \in Nat /\ c[k].base \in Nat
      /\ i \in Nat /\ j \in Nat /\ k \in Nat
  BY <1>0 DEF Entry
<1>. QED BY <1>1 DEF Before

LEMMA DomainFinite ==
    ASSUME NEW c \in Seq(Entry)
    PROVE  /\ DOMAIN c = 1 .. Len(c) /\ Len(c) \in Nat
           /\ IsFiniteSet(DOMAIN c) /\ Cardinality(DOMAIN c) = Len(c)
<1>1. DOMAIN c = 1 .. Len(c) /\ Len(c) \in Nat OBVIOUS
<1>2. IsFiniteSet(1 .. Len(c)) /\ Cardinality(1 .. Len(c)) = Len(c)
  BY <1>1, FS_Interval
<1>. QED BY <1>1, <1>2

LEMMA EarlierFinite ==
    ASSUME NEW c \in Seq(Entry), NEW j \in DOMAIN c
    PROVE  /\ IsFiniteSet(Earlier(c, j)) /\ Cardinality(Earlier(c, j)) \in Nat
           /\ Cardinality(Earlier(c, j)) < Len(c)
           /\ SlotOf(c, j) = Cardinality(Earlier(c, j)) + 1
           /\ SlotOf(c, j) \in DOMAIN c
<1>1. Earlier(c, j) \subseteq DOMAIN c /\ j \notin Earlier(c, j)
  BY BeforeOrders DEF Earlier
<1>2. /\ IsFiniteSet(Earlier(c, j)) /\ Cardinality(Earlier(c, j)) <= Cardinality(DOMAIN c)
      /\ Cardinality(Earlier(c, j)) = Cardinality(DOMAIN c) => DOMAIN c = Earlier(c, j)
  BY <1>1, DomainFinite, FS_Subset
<1>3. Cardinality(Earlier(c, j)) \in Nat BY <1>2, FS_CardinalityType
<1>4. Cardinality(Earlier(c, j)) < Len(c) BY <1>1, <1>2, <1>3, DomainFinite
<1>5. SlotOf(c, j) = Cardinality(Earlier(c, j)) + 1 BY DEF SlotOf, Earlier
<1>. QED BY <1>2, <1>3, <1>4, <1>5, DomainFinite

LEMMA PlaceMonotone ==
    ASSUME NEW c \in Seq(Entry), NEW i \in DOMAIN c, NEW j \in DOMAIN c, Before(c, i, j)
    PROVE  SlotOf(c, i) < SlotOf(c, j)
<1>1. Earlier(c, i) \subseteq Earlier(c, j) BY BeforeOrders DEF Earlier
<1>2. i \in Earlier(c, j) /\ i \notin Earlier(c, i) BY BeforeOrders DEF Earlier
<1>3. /\ Cardinality(Earlier(c, i)) <= Cardinality(Earlier(c, j))
      /\ Cardinality(Earlier(c, i)) = Cardinality(Earlier(c, j)) => Earlier(c, j) = Earlier(c, i)
  BY <1>1, EarlierFinite, FS_Subset
<1>. QED BY <1>2, <1>3, EarlierFinite

LEMMA PlaceOnto ==
    ASSUME NEW c \in Seq(Entry), NEW k \in DOMAIN c
    PROVE  \E j \in DOMAIN c : SlotOf(c, j) = k
<1> DEFINE f == [j \in DOMAIN c |-> SlotOf(c, j)]
<1>1. f \in [DOMAIN c -> DOMAIN c] BY EarlierFinite
<1>2. ASSUME NEW i \in DOMAIN c, NEW j \in DOMAIN c, f[i] = f[j] PROVE i = j
  <2>1. SlotOf(c, i) \in Nat /\ SlotOf(c, j) \in Nat /\ SlotOf(c, i) = SlotOf(c, j)
    BY <1>2, EarlierFinite
  <2>. QED BY <2>1, PlaceMonotone, BeforeOrders
<1>3. f \in Injection(DOMAIN c, DOMAIN c) BY <1>1, <1>2 DEF Injection, IsInjective
<1>4. f \in Surjection(DOMAIN c, DOMAIN c) BY <1>3, DomainFinite, FS_Injection
<1>. QED BY <1>4 DEF Surjection

\* SortedMap is the configuration in another order, and that order is by base.
At(c, k) == CHOOSE j \in DOMAIN c : SlotOf(c, j) = k

LEMMA AtPlaces ==
    ASSUME NEW c \in Seq(Entry), NEW k \in DOMAIN c
    PROVE  At(c, k) \in DOMAIN c /\ SlotOf(c, At(c, k)) = k
  BY PlaceOnto DEF At

LEMMA SortedIs ==
    ASSUME NEW c \in Seq(Entry)
    PROVE  LET m == SortedMap(c) IN
           /\ DOMAIN m = DOMAIN c /\ Len(m) = Len(c)
           /\ \A k \in DOMAIN c : m[k] = c[At(c, k)] /\ m[k] \in Entry
           /\ \A j \in DOMAIN c : \E k \in DOMAIN c : m[k] = c[j]
           /\ \A i, k \in DOMAIN c : i < k => m[i].base <= m[k].base
<1> DEFINE m == SortedMap(c)
<1>1. /\ m = [k \in DOMAIN c |-> c[At(c, k)]]
      /\ DOMAIN m = 1 .. Len(c)
  BY DomainFinite DEF SortedMap, At
<1>2. Len(m) = Len(c) BY <1>1, DomainFinite
<1>3. ASSUME NEW k \in DOMAIN c PROVE m[k] = c[At(c, k)] /\ m[k] \in Entry
  BY <1>1, AtPlaces
<1>4. ASSUME NEW j \in DOMAIN c PROVE \E k \in DOMAIN c : m[k] = c[j]
  <2>1. SlotOf(c, j) \in DOMAIN c BY EarlierFinite
  <2>2. At(c, SlotOf(c, j)) \in DOMAIN c /\ SlotOf(c, At(c, SlotOf(c, j))) = SlotOf(c, j)
    BY <2>1, AtPlaces
  <2>3. SlotOf(c, j) \in Nat BY EarlierFinite
  <2>4. At(c, SlotOf(c, j)) = j BY <2>2, <2>3, PlaceMonotone, BeforeOrders
  <2>. QED BY <1>1, <2>1, <2>4
<1>5. ASSUME NEW i \in DOMAIN c, NEW k \in DOMAIN c, i < k PROVE m[i].base <= m[k].base
  <2>1. /\ At(c, i) \in DOMAIN c /\ At(c, k) \in DOMAIN c
        /\ SlotOf(c, At(c, i)) = i /\ SlotOf(c, At(c, k)) = k
    BY AtPlaces
  <2>2. i \in Nat /\ k \in Nat BY DomainFinite
  <2>3. ~Before(c, At(c, k), At(c, i)) BY <2>1, <2>2, <1>5, PlaceMonotone
  <2>4. At(c, k) # At(c, i) BY <2>1, <2>2, <1>5
  <2>5. Before(c, At(c, i), At(c, k)) BY <2>1, <2>3, <2>4, BeforeOrders
  <2>6. c[At(c, i)].base \in Nat /\ c[At(c, k)].base \in Nat
    <3>1. c[At(c, i)] \in Entry /\ c[At(c, k)] \in Entry BY <2>1
    <3>. QED BY <3>1 DEF Entry
  <2>. QED BY <1>1, <2>5, <2>6 DEF Before
<1>. QED BY <1>1, <1>2, <1>3, <1>4, <1>5

(***************************************************************************)
(* The address map                                                         *)
(***************************************************************************)
Addresses(e) == e.base .. e.base + e.size - 1

LEMMA ConfigIs ==
    ASSUME NEW c \in Configs
    PROVE  c \in Seq(Entry)
  BY SocAssumption DEF Entry

\* A refused map has a region that begins inside another.
LEMMA RefusedClashes ==
    ASSUME NEW c \in Configs, MapRefused(c)
    PROVE  \E i, j \in DOMAIN c : i # j /\ c[j].base \in Addresses(c[i])
<1> DEFINE m == SortedMap(c)
<1>1. c \in Seq(Entry) BY ConfigIs
<1>2. PICK k \in 1 .. Len(m) - 1 : m[k].base + m[k].size > m[k + 1].base
  BY DEF MapRefused
<1>3. k \in DOMAIN c /\ k + 1 \in DOMAIN c /\ k < k + 1
  BY <1>1, <1>2, SortedIs, DomainFinite
<1>4. m[k].base <= m[k + 1].base /\ m[k] \in Entry /\ m[k + 1] \in Entry
  BY <1>1, <1>3, SortedIs
<1>5. /\ m[k] = c[At(c, k)] /\ m[k + 1] = c[At(c, k + 1)]
      /\ At(c, k) \in DOMAIN c /\ At(c, k + 1) \in DOMAIN c
      /\ At(c, k) # At(c, k + 1)
  BY <1>1, <1>3, SortedIs, AtPlaces
<1>6. m[k + 1].base \in Addresses(m[k]) BY <1>2, <1>4 DEF Entry, Addresses
<1>. QED BY <1>5, <1>6

\* The regions of a map that is not refused follow one another.
LEMMA AcceptedFollows ==
    ASSUME NEW c \in Configs, ~MapRefused(c),
           NEW i \in DOMAIN c, NEW k \in DOMAIN c, i < k
    PROVE  SortedMap(c)[i].base + SortedMap(c)[i].size <= SortedMap(c)[k].base
<1> DEFINE m == SortedMap(c)
<1>1. c \in Seq(Entry) BY ConfigIs
<1>2. i \in 1 .. Len(m) - 1 /\ i + 1 \in DOMAIN c /\ (i + 1 = k \/ i + 1 < k)
  BY <1>1, SortedIs, DomainFinite, SMTT(30)
<1>3. ~(m[i].base + m[i].size > m[i + 1].base) BY <1>2 DEF MapRefused
<1>4. m[i] \in Entry /\ m[i + 1] \in Entry /\ m[k] \in Entry BY <1>1, <1>2, SortedIs
<1>5. i + 1 < k => m[i + 1].base <= m[k].base BY <1>1, <1>2, SortedIs
<1>. QED BY <1>2, <1>3, <1>4, <1>5 DEF Entry

\* The address falls into the region that is selected; and a region of a map
\* that is not refused is selected by the addresses in it.
Holding(m, addr) == {i \in DOMAIN m : addr \in Addresses(m[i])}

\* The end of a region, cut off to the width of an address.
LEMMA CutOff ==
    ASSUME NEW x \in Nat, NEW d \in Nat \ {0}
    PROVE  x % d \in Nat /\ x % d <= x /\ (x < d => x % d = x)
  OBVIOUS

LEMMA SelIs ==
    ASSUME NEW c \in Configs, ~MapRefused(c), NEW a \in Nat
    PROVE  LET m == SortedMap(c) IN
           /\ Sel(m, a) # NoSel => Holding(m, a) = {Sel(m, a)}
           /\ \A i \in Holding(m, a) : m[i].base + m[i].size < AddrSpace => Sel(m, a) = i
<1> DEFINE m == SortedMap(c)
           hits == {i \in DOMAIN m : m[i].base <= a /\ a < (m[i].base + m[i].size) % AddrSpace}
<1>1. c \in Seq(Entry) BY ConfigIs
<1>2. DOMAIN m = DOMAIN c BY <1>1, SortedIs
<1>3. ASSUME NEW i \in DOMAIN m
      PROVE  /\ m[i] \in Entry /\ m[i].base \in Nat /\ m[i].size \in Nat
             /\ m[i].base + m[i].size \in Nat
             /\ (m[i].base + m[i].size) % AddrSpace \in Nat
             /\ (m[i].base + m[i].size) % AddrSpace <= m[i].base + m[i].size
             /\ m[i].base + m[i].size < AddrSpace =>
                  (m[i].base + m[i].size) % AddrSpace = m[i].base + m[i].size
  <2>1. m[i] \in Entry BY <1>1, <1>2, <1>3, SortedIs
  <2>2. m[i].base \in Nat /\ m[i].size \in Nat /\ AddrSpace \in Nat \ {0}
    BY <2>1, SocAssumption DEF Entry
  <2> DEFINE end == m[i].base + m[i].size
  <2>3. end \in Nat BY <2>2
  <2>4. end % AddrSpace \in Nat /\ end % AddrSpace <= end
        /\ (end < AddrSpace => end % AddrSpace = end)
    <3>. HIDE DEF end
    <3>. QED BY <2>2, <2>3, CutOff
  <2>. QED BY <2>1, <2>2, <2>3, <2>4
<1>4. /\ hits \subseteq Holding(m, a)
      /\ \A i \in Holding(m, a) : m[i].base + m[i].size < AddrSpace => i \in hits
  <2>1. ASSUME NEW i \in DOMAIN m
        PROVE  (m[i].base <= a /\ a < m[i].base + m[i].size) <=> a \in Addresses(m[i])
    BY <1>3 DEF Addresses
  <2>2. ASSUME NEW i \in hits PROVE i \in Holding(m, a)
    BY <1>3, <2>1 DEF Holding
  <2>3. ASSUME NEW i \in Holding(m, a), m[i].base + m[i].size < AddrSpace PROVE i \in hits
    <3>1. i \in DOMAIN m /\ m[i].base <= a /\ a < m[i].base + m[i].size
      BY <2>1, <2>3 DEF Holding
    <3>. QED BY <1>3, <2>3, <3>1
  <2>. QED BY <2>2, <2>3
<1>5. ASSUME NEW i \in Holding(m, a), NEW k \in Holding(m, a) PROVE i = k
  <2>1. ASSUME NEW x \in Holding(m, a), NEW y \in Holding(m, a), x < y PROVE FALSE
    <3>0. x \in DOMAIN m /\ y \in DOMAIN m BY DEF Holding
    <3>1. m[x].base + m[x].size <= m[y].base BY <1>2, <2>1, <3>0, AcceptedFollows
    <3>2. a < m[x].base + m[x].size /\ m[y].base <= a
      BY <1>3, <3>0 DEF Holding, Addresses
    <3>. QED BY <1>3, <3>0, <3>1, <3>2
  <2>2. i \in Nat /\ k \in Nat BY <1>1, <1>2, DomainFinite DEF Holding
  <2>3. i < k \/ k < i \/ i = k BY <2>2
  <2>. QED BY <2>1, <2>3
<1>6. Sel(m, a) = IF hits = {} THEN NoSel ELSE CHOOSE i \in hits : \A j \in hits : j <= i
  BY DEF Sel
<1>7. ASSUME NEW h \in hits PROVE Sel(m, a) = h /\ Holding(m, a) = {h}
  <2>1. h \in Nat BY <1>1, <1>2, DomainFinite
  <2>2. \A j \in hits : j = h BY <1>4, <1>5
  <2>3. Sel(m, a) \in hits
    <3>1. h \in hits BY <1>7
    <3>2. \A j \in hits : j <= h BY <2>1, <2>2
    <3>3. Sel(m, a) = CHOOSE i \in hits : \A j \in hits : j <= i BY <1>6, <3>1
    <3>. HIDE DEF hits
    <3>. QED BY <3>1, <3>2, <3>3
  <2>. QED BY <1>4, <1>5, <2>2, <2>3
<1>8. Sel(m, a) # NoSel => \E h \in hits : TRUE
  <2>. HIDE DEF hits
  <2>. QED BY <1>6
<1>. HIDE DEF hits
<1>. QED BY <1>4, <1>7, <1>8

(***************************************************************************)
(* The configuration that is built is one that is not refused.             *)
(***************************************************************************)
Mapped ==
  /\ config \in Configs
  /\ phase \in {"config", "refused", "up"}
  /\ phase = "refused" => MapRefused(config)
  /\ phase = "up" => ~MapRefused(config)

LEMMA MappedHolds == SocSpec => []Mapped
<1>1. SocInit => Mapped BY DEF SocInit, SocStart, Mapped
<1>2. Mapped /\ [SocNext]_socVars => Mapped'
  BY DEF Mapped, SocNext, socVars, Build, Refused, BusGoesOn, BusAccess, SocReset, Call, Issue,
         HardwareWrites
<1>. QED BY <1>1, <1>2, PTL DEF SocSpec

LEMMA MappedDecodes == Mapped => AddressesDecoded
<1> SUFFICES ASSUME Mapped PROVE AddressesDecoded OBVIOUS
<1> DEFINE m == SortedMap(config)
<1>1. ASSUME phase = "refused"
      PROVE  \E i, j \in DOMAIN config :
               i # j /\ config[j].base \in config[i].base .. config[i].base + config[i].size - 1
  BY <1>1, RefusedClashes DEF Mapped, Addresses
<1>2. ASSUME phase = "up", NEW a \in 0 .. AddrSpace - 1
      PROVE  LET home == {i \in DOMAIN m : a \in m[i].base .. m[i].base + m[i].size - 1}
             IN /\ Sel(m, a) # NoSel => Sel(m, a) \in home
                /\ \A i \in home : m[i].base + m[i].size < AddrSpace => Sel(m, a) = i
  <2>1. a \in Nat BY SocAssumption
  <2>2. /\ Sel(m, a) # NoSel => Holding(m, a) = {Sel(m, a)}
        /\ \A i \in Holding(m, a) : m[i].base + m[i].size < AddrSpace => Sel(m, a) = i
    BY <1>2, <2>1, SelIs DEF Mapped
  <2>. QED BY <2>2 DEF Holding, Addresses
<1>. QED BY <1>1, <1>2 DEF AddressesDecoded

(* Whatever the regions of the system, as long as they begin at addresses:  *)
(* a configuration is refused only when one begins inside another, and      *)
(* otherwise the interconnect leads no address to a region it is not in,    *)
(* and every address of a region that ends before the last one to it.       *)
THEOREM AddressesAreDecoded == SocSpec => []AddressesDecoded
<1>. QED BY MappedHolds, MappedDecodes, PTL

(***************************************************************************)
(* Words                                                                   *)
(***************************************************************************)
Words == SUBSET Bits

LEMMA LanesInWord == \A L \in SUBSET Lanes : LaneMask(L) \subseteq Bits
<1> SUFFICES ASSUME NEW l \in Lanes, NEW b \in l * ByteBits .. (l + 1) * ByteBits - 1
             PROVE  b \in Bits
  BY DEF LaneMask
<1> DEFINE q == WordBits \div ByteBits
<1>1. q \in Nat /\ WordBits = q * ByteBits /\ ByteBits \in Nat \ {0} BY SocAssumption
<1>2. l \in Nat /\ l + 1 <= q BY <1>1 DEF Lanes
<1>3. l * ByteBits \in Nat /\ (l + 1) * ByteBits <= q * ByteBits
  <2>. HIDE DEF q
  <2>. QED BY <1>1, <1>2
<1>. QED BY <1>1, <1>2, <1>3 DEF Bits

\* The strobes of all bytes cover the word.
LEMMA LanesCover == LaneMask(Lanes) = Bits
<1> DEFINE q == WordBits \div ByteBits
<1>1. q \in Nat /\ WordBits = q * ByteBits /\ ByteBits \in Nat \ {0} BY SocAssumption
<1>2. ASSUME NEW b \in Bits PROVE b \in LaneMask(Lanes)
  <2> DEFINE l == b \div ByteBits
  <2>1. /\ b \in Nat /\ b < WordBits
    BY SocAssumption DEF Bits
  <2>2. l \in Nat /\ ByteBits * l <= b /\ b < ByteBits * l + ByteBits
    BY <1>1, <2>1
  <2>3. l < q
    <3>1. ASSUME q <= l PROVE q * ByteBits <= l * ByteBits
      <4>. HIDE DEF q, l
      <4>. QED BY <1>1, <2>2, <3>1
    <3>2. ASSUME q <= l PROVE FALSE
      <4>1. q * ByteBits <= l * ByteBits BY <3>1, <3>2
      <4>. HIDE DEF q, l
      <4>. QED BY <1>1, <2>1, <2>2, <4>1
    <3>. HIDE DEF q, l
    <3>. QED BY <1>1, <2>2, <3>2
  <2>4. l \in Lanes BY <1>1, <2>2, <2>3 DEF Lanes
  <2>5. b \in l * ByteBits .. (l + 1) * ByteBits - 1
    <3>. HIDE DEF l
    <3>. QED BY <1>1, <2>1, <2>2
  <2>. QED BY <2>4, <2>5 DEF LaneMask
<1>. QED BY <1>2, LanesInWord

\* The strobes of a store are the bytes it means.
LEMMA StrobesOf ==
    ASSUME NEW l \in Lanes
    PROVE  LaneMask({k \in Lanes : LaneMask({k}) \subseteq LaneMask({l})}) = LaneMask({l})
  BY DEF LaneMask

(***************************************************************************)
(* Types                                                                   *)
(***************************************************************************)
Offsets == {r.offset : r \in AllRegs}
CallKinds == {"none", "read", "write", "store", "set"}
CallRecords ==
  [call : CallKinds, off : Nat, mask : Words, bits : Words, at : {"none", "reads", "writes"},
   cur : Words, right : BOOLEAN]

BusType ==
  [by : Threads \cup {"none"}, write : BOOLEAN, addr : Nat, data : Words, strb : SUBSET Lanes,
   done : SUBSET {"a", "w", "r"}]

SocTypeOK ==
  /\ regs \in [Offsets -> Words] /\ wanted \in [Offsets -> Words]
  /\ thread \in [Threads -> CallRecords]
  /\ bus \in BusType

LEMMA OffsetsNat == Offsets \subseteq Nat BY SocAssumption DEF Offsets

LEMMA RegAtIs ==
    ASSUME NEW r \in AllRegs
    PROVE  RegAt(r.offset) = r
  BY SocAssumption DEF RegAt

\* What a call of thread t is.
CallFits(t, c) ==
  /\ c \in CallRecords
  /\ c.call # "none" => \E r \in AllRegs :
       /\ c.off = r.offset
       /\ c.call \in {"read", "set"} => Readable(r)
       /\ c.call # "read" => Writable(r) /\ OwnerOf[r.offset] = t
  /\ c.call = "write" => c.mask = Bits
  /\ c.call = "store" => \E l \in Lanes : c.mask = LaneMask({l})
  /\ c.call = "set" => c.bits \subseteq c.mask

LEMMA CallsFit ==
    ASSUME NEW t, NEW c \in Calls(t)
    PROVE  CallFits(t, c) /\ c.call # "none" /\ c.at = "none" /\ c.right
<1>1. PICK r \in AllRegs :
        c \in ReadCalls(r) \cup WriteCalls(t, r) \cup StoreCalls(t, r) \cup SetCalls(t, r)
  BY DEF Calls
<1>2. r.offset \in Nat BY SocAssumption
<1>3. ASSUME NEW kind \in CallKinds, NEW mask \in Words, NEW bits \in Words,
             c = CallOf(kind, r, mask, bits)
      PROVE  /\ c \in CallRecords /\ c.call = kind /\ c.off = r.offset
             /\ c.mask = mask /\ c.bits = bits /\ c.at = "none" /\ c.right
  BY <1>2, <1>3 DEF CallOf, IdleThread, CallRecords, Words
<1>4. CASE c \in ReadCalls(r)
  <2>1. {} \in Words /\ Readable(r) /\ c = CallOf("read", r, {}, {})
    BY <1>4 DEF Words, ReadCalls
  <2>. QED BY <1>3, <2>1 DEF CallFits, CallKinds
<1>5. CASE c \in WriteCalls(t, r)
  <2>1. PICK w \in SocWords : c = CallOf("write", r, Bits, w) BY <1>5 DEF WriteCalls
  <2>2. Bits \in Words /\ w \in Words BY SocAssumption DEF Words
  <2>3. Writable(r) /\ OwnerOf[r.offset] = t BY <1>5 DEF WriteCalls, Mine
  <2>. QED BY <1>3, <2>1, <2>2, <2>3 DEF CallFits, CallKinds
<1>7. CASE c \in StoreCalls(t, r)
  <2>1. PICK l \in Lanes, w \in SocWords : c = CallOf("store", r, LaneMask({l}), w)
    BY <1>7 DEF StoreCalls
  <2>2. LaneMask({l}) \in Words /\ w \in Words BY SocAssumption, LanesInWord DEF Words
  <2>3. Writable(r) /\ OwnerOf[r.offset] = t BY <1>7 DEF StoreCalls, Mine
  <2>4. /\ c \in CallRecords /\ c.call = "store" /\ c.off = r.offset
        /\ c.mask = LaneMask({l}) /\ c.at = "none" /\ c.right
    BY <1>3, <2>1, <2>2 DEF CallKinds
  <2>. QED BY <2>3, <2>4 DEF CallFits
<1>6. CASE c \in SetCalls(t, r)
  <2>1. PICK f \in r.fields, v \in SocWords : c = CallOf("set", r, FieldMask(f), InField(f, v))
    BY <1>6 DEF SetCalls
  <2>2. Readable(r) /\ Writable(r) /\ OwnerOf[r.offset] = t BY <1>6 DEF SetCalls, Mine
  <2>3. FieldMask(f) \in Words BY SocAssumption DEF Words
  <2>4. InField(f, v) \subseteq FieldMask(f) BY DEF InField
  <2>5. InField(f, v) \in Words BY <2>3, <2>4 DEF Words
  <2>. QED BY <1>3, <2>1, <2>2, <2>3, <2>4, <2>5 DEF CallFits, CallKinds
<1>. QED BY <1>1, <1>4, <1>5, <1>6, <1>7

(***************************************************************************)
(* The invariant, for a manager that raises its channels together: the     *)
(* access on the bus is the one its thread waits for, nothing of it is     *)
(* done, and what a set_ has read is what the register still holds.        *)
(***************************************************************************)
\* What Issue puts on the bus for thread t.
AccessOf(t, c) ==
  [by |-> t, write |-> c.at = "writes", addr |-> c.off, done |-> {},
   data |-> IF c.call = "set" /\ c.at = "writes" THEN Merged(c.cur, c.mask, c.bits) ELSE c.bits,
   strb |-> IF c.call = "store" THEN {l \in Lanes : LaneMask({l}) \subseteq c.mask} ELSE Lanes]

InAccess(t) == thread[t].at \in {"reads", "writes"}

ThreadFits(t) ==
  LET c == thread[t] IN
  /\ CallFits(t, c) /\ c.right
  /\ c.at = "none" <=> c.call = "none"
  /\ c.at = "reads" => c.call \in {"read", "set"}
  /\ c.at = "writes" => c.call \in {"write", "store", "set"}
  /\ c.call = "set" /\ c.at = "writes" => c.cur = wanted[c.off]

BusFits ==
  bus = IdleBus \/ \E t \in Threads : InAccess(t) /\ bus = AccessOf(t, thread[t])

Quiet == phase # "up" => bus = IdleBus /\ \A t \in Threads : ~InAccess(t)

SocInv ==
  /\ Mapped /\ SocTypeOK /\ regs = wanted
  /\ \A t \in Threads : ThreadFits(t)
  /\ BusFits /\ Quiet

LEMMA InvAsWanted == SocInv => RegistersAsWanted
  BY DEF SocInv, RegistersAsWanted, ThreadFits

LEMMA IdleFits ==
    \A t : /\ CallFits(t, IdleThread) /\ IdleThread.right
           /\ IdleThread.at = "none" /\ IdleThread.call = "none"
  BY DEF CallFits, IdleThread, CallRecords, CallKinds, Words

LEMMA SocInitInv == SocInit => SocInv
<1> SUFFICES ASSUME SocInit PROVE SocInv OBVIOUS
<1>1. /\ regs = [off \in Offsets |-> {}] /\ wanted = regs
      /\ thread = [t \in Threads |-> IdleThread] /\ bus = IdleBus
      /\ config \in Configs /\ phase = "config"
  BY DEF SocInit, SocStart, Offsets
<1>2. Mapped BY <1>1 DEF Mapped
<1>3. bus \in BusType BY <1>1 DEF IdleBus, BusType, Words
<1>4. SocTypeOK
  <2>1. IdleThread \in CallRecords BY IdleFits DEF CallFits
  <2>2. {} \in Words BY DEF Words
  <2>. QED BY <1>1, <1>3, <2>1, <2>2 DEF SocTypeOK
<1>5. \A t \in Threads : ThreadFits(t) /\ ~InAccess(t)
  BY <1>1, IdleFits DEF ThreadFits, InAccess
<1>. QED BY <1>1, <1>2, <1>4, <1>5 DEF SocInv, BusFits, Quiet

(***************************************************************************)
(* The steps that are not an access                                        *)
(***************************************************************************)
LEMMA BuildKeeps == SocInv /\ Mapped' /\ Build => SocInv'
  BY DEF SocInv, Build, SocTypeOK, BusFits, Quiet, ThreadFits, InAccess

LEMMA CallKeeps ==
    ASSUME NEW t \in Threads, SocInv, Mapped', Call(t)
    PROVE  SocInv'
<1>1. PICK c \in Calls(t) :
        thread' = [thread EXCEPT ![t] = [c EXCEPT !.at = IF c.call \in {"read", "set"}
                                                         THEN "reads" ELSE "writes"]]
  BY DEF Call
<1> DEFINE n == [c EXCEPT !.at = IF c.call \in {"read", "set"} THEN "reads" ELSE "writes"]
<1>2. /\ UNCHANGED <<config, phase, regs, bus, wanted>> /\ phase = "up"
      /\ thread[t].call = "none"
  BY DEF Call
<1>3. CallFits(t, c) /\ c.call # "none" /\ c.at = "none" /\ c.right BY CallsFit
<1>4. /\ n \in CallRecords /\ n.call = c.call /\ n.off = c.off /\ n.mask = c.mask
      /\ n.bits = c.bits /\ n.right
      /\ n.at = IF c.call \in {"read", "set"} THEN "reads" ELSE "writes"
  BY <1>3 DEF CallFits, CallRecords
<1>5. CallFits(t, n) BY <1>3, <1>4 DEF CallFits
<1>6. thread' = [thread EXCEPT ![t] = n] /\ thread \in [Threads -> CallRecords]
  BY <1>1 DEF SocInv, SocTypeOK
<1> HIDE DEF n
<1>7. n.call \in CallKinds BY <1>4 DEF CallRecords
<1>8. ThreadFits(t)'
  BY <1>3, <1>4, <1>5, <1>6, <1>7 DEF ThreadFits, CallKinds
<1>9. ASSUME NEW u \in Threads, u # t PROVE ThreadFits(u)' /\ thread'[u] = thread[u]
  BY <1>2, <1>6, <1>9 DEF ThreadFits, SocInv
<1>10. BusFits'
  <2>1. ~InAccess(t) BY <1>2 DEF SocInv, ThreadFits, InAccess
  <2>. QED BY <1>2, <1>9, <2>1 DEF SocInv, BusFits, InAccess
<1>. QED BY <1>2, <1>4, <1>6, <1>8, <1>9, <1>10 DEF SocInv, SocTypeOK, Quiet

LEMMA IssueKeeps ==
    ASSUME NEW t \in Threads, SocInv, Mapped', Issue(t)
    PROVE  SocInv'
<1> DEFINE c == thread[t]
<1>1. /\ UNCHANGED <<config, phase, regs, thread, wanted>>
      /\ InAccess(t) /\ bus' = AccessOf(t, c)
  BY DEF Issue, InAccess, AccessOf
<1>2. c \in CallRecords BY DEF SocInv, SocTypeOK
<1>3. AccessOf(t, c) \in BusType
  BY <1>2 DEF AccessOf, BusType, CallRecords, Words, Merged
<1>4. BusFits' BY <1>1 DEF BusFits, InAccess
<1>5. \A u \in Threads : ThreadFits(u)' BY <1>1 DEF SocInv, ThreadFits
<1>. QED BY <1>1, <1>3, <1>4, <1>5 DEF SocInv, SocTypeOK, Quiet, InAccess

LEMMA HardwareWritesKeeps ==
    ASSUME NEW r \in AllRegs, NEW w \in SocWords, SocInv, Mapped', HardwareWrites(r, w)
    PROVE  SocInv'
<1>1. /\ UNCHANGED <<config, phase, thread, bus>> /\ ~Writable(r)
      /\ regs' = [regs EXCEPT ![r.offset] = w] /\ wanted' = [wanted EXCEPT ![r.offset] = w]
  BY DEF HardwareWrites
<1>2. w \in Words BY SocAssumption DEF Words
<1>3. regs' = wanted' /\ regs' \in [Offsets -> Words]
  BY <1>1, <1>2 DEF SocInv, SocTypeOK
<1>4. ASSUME NEW t \in Threads PROVE ThreadFits(t)'
  <2>1. ThreadFits(t) BY DEF SocInv
  <2>2. ASSUME thread[t].call = "set" PROVE wanted'[thread[t].off] = wanted[thread[t].off]
    <3>1. PICK q \in AllRegs : thread[t].off = q.offset /\ Writable(q)
      BY <2>1, <2>2 DEF ThreadFits, CallFits
    <3>2. q.offset # r.offset BY <1>1, <3>1, SocAssumption
    <3>3. q.offset \in Offsets BY DEF Offsets
    <3>. QED BY <1>1, <3>1, <3>2, <3>3 DEF SocInv, SocTypeOK
  <2>. QED BY <1>1, <2>1, <2>2 DEF ThreadFits
<1>. QED BY <1>1, <1>3, <1>4 DEF SocInv, SocTypeOK, BusFits, Quiet, InAccess

LEMMA SocResetKeeps ==
    ASSUME SocInv, Mapped', SocReset, ResetsAreZero
    PROVE  SocInv'
<1>1. /\ UNCHANGED <<config, phase>> /\ bus' = IdleBus
      /\ thread' = [t \in Threads |-> IdleThread]
      /\ regs' = [off \in DOMAIN regs |-> IF Writable(RegAt(off)) THEN {} ELSE regs[off]]
      /\ wanted' = [off \in DOMAIN wanted |->
                      IF Writable(RegAt(off)) THEN ResetVal(RegAt(off)) ELSE wanted[off]]
  BY DEF SocReset, WriteReset, Writable
<1>2. regs = wanted /\ regs \in [Offsets -> Words] BY DEF SocInv, SocTypeOK
<1>3. regs' = wanted' /\ regs' \in [Offsets -> Words]
  <2>1. ASSUME NEW off \in Offsets, Writable(RegAt(off)) PROVE ResetVal(RegAt(off)) = {}
    <3>1. PICK r \in AllRegs : r.offset = off BY DEF Offsets
    <3>2. RegAt(off) = r BY <3>1, RegAtIs
    <3>. QED BY <2>1, <3>2 DEF ResetsAreZero
  <2>2. wanted' = [off \in Offsets |-> IF Writable(RegAt(off)) THEN {} ELSE wanted[off]]
    BY <1>1, <1>2, <2>1
  <2>. QED BY <1>1, <1>2, <2>2 DEF Words
<1>4. IdleThread \in CallRecords BY IdleFits DEF CallFits
<1>5. \A t \in Threads : ThreadFits(t)' /\ ~InAccess(t)'
  BY <1>1, IdleFits DEF ThreadFits, InAccess
<1>6. IdleBus \in BusType BY DEF IdleBus, BusType, Words
<1>. QED BY <1>1, <1>3, <1>4, <1>5, <1>6 DEF SocInv, SocTypeOK, BusFits, Quiet

(***************************************************************************)
(* A cycle with an access on the bus, all of whose channels are raised: in *)
(* no region nothing happens, in a region all of it.                       *)
(***************************************************************************)
Selected == Sel(SortedMap(config), bus.addr)
SelectedBank == Banks[SortedMap(config)[Selected].name]

LEMMA CycleIs ==
    ASSUME SocInv, bus.done = {}
    PROVE  LET out == BusCycle(Channels) IN
           /\ Selected = NoSel => out.regs = regs /\ ~out.over /\ out.done = {}
           /\ Selected # NoSel =>
                /\ out.over
                /\ ~bus.write =>
                     /\ out.regs = regs
                     /\ (\E r \in SelectedBank : r.offset = bus.addr /\ Readable(r))
                          => out.rdata = regs[bus.addr]
                /\ bus.write =>
                     out.regs =
                       [off \in DOMAIN regs |->
                          IF /\ bus.addr = off
                             /\ \E r \in SelectedBank : r.offset = off /\ Writable(r)
                          THEN (regs[off] \ LaneMask(bus.strb)) \cup (bus.data \cap LaneMask(bus.strb))
                          ELSE regs[off]]
<1> DEFINE raised == Channels
           s == Selected
           bank == IF s = NoSel THEN {} ELSE SelectedBank
           up(ch) == s # NoSel /\ ch \in raised
           in == [awvalid |-> bus.write /\ up("a"), awaddr |-> bus.addr,
                  wvalid |-> bus.write /\ up("w"), wdata |-> bus.data, wstrb |-> bus.strb,
                  arvalid |-> ~bus.write /\ up("a"), araddr |-> bus.addr]
           shake == Handshake(in)
           read == ReadDecode(bank, in)
           passed == {ch \in raised :
                        CASE ch = "a" -> IF bus.write THEN shake.awready ELSE read.arready
                          [] ch = "w" -> shake.wready
                          [] ch = "r" -> IF bus.write THEN shake.bvalid ELSE read.rvalid}
           done == bus.done \cup passed
           wants == {"a", "r"} \cup (IF bus.write THEN {"w"} ELSE {})
           out == BusCycle(Channels)
<1>1. out = [regs |-> WriteLogic(bank, in), rdata |-> read.rdata, done |-> done,
             over |-> wants \subseteq done]
  BY DEF BusCycle, Selected, SelectedBank
<1>2. raised = wants BY DEF Channels
<1>3. bus.write \in BOOLEAN BY DEF SocInv, SocTypeOK, BusType
<1>4. /\ shake.awready = in.awvalid /\ shake.wready = in.wvalid
      /\ shake.bvalid = (in.awvalid /\ in.wvalid)
      /\ read.arready = in.arvalid /\ read.rvalid = in.arvalid
  BY DEF Handshake, ReadDecode
<1>5. /\ in.awvalid = (bus.write /\ s # NoSel) /\ in.wvalid = (bus.write /\ s # NoSel)
      /\ in.arvalid = (~bus.write /\ s # NoSel) /\ in.awaddr = bus.addr /\ in.araddr = bus.addr
      /\ in.wdata = bus.data /\ in.wstrb = bus.strb
  BY <1>2, <1>3
<1>6. regs = [off \in DOMAIN regs |-> regs[off]] BY DEF SocInv, SocTypeOK
<1> HIDE DEF raised, shake, in, read, s, bank, out, wants
<1>7. /\ s = NoSel => passed = {}
      /\ s # NoSel => passed = wants
  BY <1>2, <1>3, <1>4, <1>5 DEF wants
<1>8. WriteLogic(bank, in) =
        [off \in DOMAIN regs |->
           IF /\ bus.write /\ s # NoSel /\ bus.addr = off
              /\ \E r \in bank : r.offset = off /\ Writable(r)
           THEN (regs[off] \ LaneMask(bus.strb)) \cup (bus.data \cap LaneMask(bus.strb))
           ELSE regs[off]]
  BY <1>5 DEF WriteLogic, Writable
<1>9. s # NoSel /\ ~bus.write /\ (\E r \in bank : r.offset = bus.addr /\ Readable(r))
        => read.rdata = regs[bus.addr]
  <2>1. SUFFICES ASSUME s # NoSel, ~bus.write, NEW r \in bank, r.offset = bus.addr, Readable(r)
                 PROVE  read.rdata = regs[bus.addr]
    OBVIOUS
  <2>2. {q \in bank : q.offset = in.araddr /\ Access(q) # "wo"} # {}
    BY <1>5, <2>1 DEF Readable
  <2>. QED BY <1>5, <2>1, <2>2 DEF read, ReadDecode
<1>10. CASE s = NoSel
  <2>1. WriteLogic(bank, in) = regs BY <1>6, <1>8, <1>10
  <2>2. done = {} BY <1>7, <1>10
  <2>3. ~(wants \subseteq done) BY <2>2 DEF wants
  <2>4. out.regs = regs /\ ~out.over /\ out.done = {} BY <1>1, <2>1, <2>2, <2>3
  <2>. QED BY <1>10, <2>4 DEF s, out
<1>11. CASE s # NoSel
  <2>1. wants \subseteq done BY <1>7, <1>11
  <2>2. out.over /\ out.regs = WriteLogic(bank, in) /\ out.rdata = read.rdata BY <1>1, <2>1
  <2>3. bank = SelectedBank BY <1>11 DEF bank
  <2>4. ~bus.write => out.regs = regs BY <1>6, <1>8, <2>2
  <2>5. bus.write => out.regs =
          [off \in DOMAIN regs |->
             IF bus.addr = off /\ \E r \in SelectedBank : r.offset = off /\ Writable(r)
             THEN (regs[off] \ LaneMask(bus.strb)) \cup (bus.data \cap LaneMask(bus.strb))
             ELSE regs[off]]
    BY <1>8, <1>11, <2>2, <2>3
  <2>. QED BY <1>9, <1>11, <2>2, <2>3, <2>4, <2>5 DEF s, out
<1>. QED BY <1>10, <1>11

\* The bank that is selected is the one of the register whose driver calls.
LEMMA BankHasRegister ==
    ASSUME Mapped, phase = "up", NEW r \in AllRegs, bus.addr = r.offset, Selected # NoSel
    PROVE  r \in SelectedBank
<1> DEFINE m == SortedMap(config)
<1>1. config \in Configs /\ ~MapRefused(config) /\ config \in Seq(Entry)
  BY ConfigIs DEF Mapped
<1>2. bus.addr \in Nat BY SocAssumption
<1>3. Holding(m, bus.addr) = {Selected}
  BY <1>1, <1>2, SelIs DEF Selected
<1>4. Selected \in DOMAIN m /\ bus.addr \in Addresses(m[Selected]) BY <1>3 DEF Holding
<1>5. Selected \in DOMAIN config /\ At(config, Selected) \in DOMAIN config
      /\ m[Selected] = config[At(config, Selected)] /\ m[Selected] \in Entry
  BY <1>1, <1>4, SortedIs, AtPlaces
<1>6. m[Selected].base <= r.offset /\ r.offset < m[Selected].base + m[Selected].size
  BY <1>2, <1>4, <1>5 DEF Entry, Addresses
<1>. QED BY <1>1, <1>5, <1>6, PlacedAssumption DEF SelectedBank

\* What a write leaves of a word is what its call asked for.
LEMMA WordIs ==
    ASSUME NEW t, NEW c \in CallRecords, CallFits(t, c), c.at = "writes",
           c.call \in {"write", "store", "set"}, NEW w \in Words,
           c.call = "set" => c.cur = w
    PROVE  LET a == AccessOf(t, c) IN
           (w \ LaneMask(a.strb)) \cup (a.data \cap LaneMask(a.strb))
             = (w \ c.mask) \cup (c.bits \cap c.mask)
<1> DEFINE a == AccessOf(t, c)
<1>1. /\ a.data = IF c.call = "set" THEN Merged(c.cur, c.mask, c.bits) ELSE c.bits
      /\ a.strb = IF c.call = "store" THEN {l \in Lanes : LaneMask({l}) \subseteq c.mask} ELSE Lanes
  BY DEF AccessOf
<1>2. c.mask \in Words /\ c.bits \in Words BY DEF CallRecords
<1>3. CASE c.call = "write"
  <2>1. c.mask = Bits BY <1>3 DEF CallFits
  <2>2. a.strb = Lanes /\ a.data = c.bits BY <1>1, <1>3
  <2>. QED BY <2>1, <2>2, LanesCover
<1>4. CASE c.call = "store"
  <2>1. PICK l \in Lanes : c.mask = LaneMask({l}) BY <1>4 DEF CallFits
  <2>2. a.strb = {k \in Lanes : LaneMask({k}) \subseteq c.mask} /\ a.data = c.bits
    BY <1>1, <1>4
  <2>3. \A k \in Lanes : k \in a.strb <=> LaneMask({k}) \subseteq LaneMask({l}) BY <2>1, <2>2
  <2>4. a.strb = {k \in Lanes : LaneMask({k}) \subseteq LaneMask({l})} BY <2>2, <2>3
  <2>5. LaneMask(a.strb) = c.mask BY <2>1, <2>4, StrobesOf
  <2>. QED BY <2>2, <2>5
<1>5. CASE c.call = "set"
  <2>1. c.bits \subseteq c.mask BY <1>5 DEF CallFits
  <2>2. a.strb = Lanes /\ a.data = (w \ c.mask) \cup c.bits BY <1>1, <1>5 DEF Merged
  <2>. QED BY <1>2, <2>1, <2>2, LanesCover DEF Words
<1>. QED BY <1>3, <1>4, <1>5

LEMMA AccessKeeps ==
    ASSUME SocInv, Mapped', Handshakes = "joint", NEW raised \in Raises, BusAccess(raised)
    PROVE  SocInv'
<1>1. PICK t \in Threads : InAccess(t) /\ bus = AccessOf(t, thread[t])
  BY DEF SocInv, BusFits, BusAccess
<1> DEFINE c == thread[t]
           out == BusCycle(Channels)
<1>2. /\ ThreadFits(t) /\ c \in CallRecords /\ phase = "up" /\ bus # IdleBus
      /\ c.at \in {"reads", "writes"}
  BY <1>1 DEF SocInv, SocTypeOK, Quiet, BusAccess, InAccess
<1>3. /\ bus.by = t /\ bus.done = {} /\ bus.addr = c.off
      /\ bus.write = (c.at = "writes")
  BY <1>1 DEF AccessOf
<1>4. raised = Channels BY <1>2 DEF Raises
<1>5. /\ regs' = out.regs /\ UNCHANGED <<config, phase>>
      /\ bus' = IF out.over THEN IdleBus ELSE [bus EXCEPT !.done = out.done]
      /\ thread' = [thread EXCEPT ![t] =
             IF ~out.over THEN c
             ELSE IF bus.write THEN IdleThread
             ELSE IF c.call = "set" THEN [c EXCEPT !.at = "writes", !.cur = out.rdata]
             ELSE [IdleThread EXCEPT !.right = out.rdata = wanted[c.off]]]
      /\ wanted' = IF ~out.over \/ ~bus.write THEN wanted
                   ELSE [wanted EXCEPT ![c.off] = (@ \ c.mask) \cup (c.bits \cap c.mask)]
  BY <1>3, <1>4 DEF BusAccess
<1>6. PICK r \in AllRegs :
        /\ c.off = r.offset
        /\ c.call \in {"read", "set"} => Readable(r)
        /\ c.call # "read" => Writable(r) /\ OwnerOf[r.offset] = t
  BY <1>2 DEF ThreadFits, CallFits
<1>7. c.off \in Offsets BY <1>6 DEF Offsets
<1>8. regs = wanted /\ regs \in [Offsets -> Words] /\ thread \in [Threads -> CallRecords]
      /\ bus \in BusType
  BY DEF SocInv, SocTypeOK
<1>9. Selected # NoSel => r \in SelectedBank
  BY <1>2, <1>3, <1>6, BankHasRegister DEF SocInv
<1>10. /\ Selected = NoSel => out.regs = regs /\ ~out.over /\ out.done = {}
       /\ Selected # NoSel =>
            /\ out.over
            /\ ~bus.write =>
                 /\ out.regs = regs
                 /\ (\E q \in SelectedBank : q.offset = bus.addr /\ Readable(q))
                      => out.rdata = regs[bus.addr]
            /\ bus.write =>
                 out.regs =
                   [off \in DOMAIN regs |->
                      IF /\ bus.addr = off
                         /\ \E q \in SelectedBank : q.offset = off /\ Writable(q)
                      THEN (regs[off] \ LaneMask(bus.strb)) \cup (bus.data \cap LaneMask(bus.strb))
                      ELSE regs[off]]
  BY <1>3, CycleIs
<1> HIDE DEF out
<1>11. CASE Selected = NoSel
  <2>1. UNCHANGED <<regs, wanted, thread, config, phase>> BY <1>5, <1>8, <1>10, <1>11
  <2>2. bus' = bus BY <1>3, <1>5, <1>8, <1>10, <1>11 DEF BusType
  <2>. QED BY <2>1, <2>2 DEF SocInv, SocTypeOK, ThreadFits, BusFits, Quiet, InAccess
<1>12. CASE Selected # NoSel /\ ~bus.write
  <2>1. out.over /\ out.regs = regs /\ out.rdata = wanted[c.off]
    <3>1. c.call \in {"read", "set"} BY <1>2, <1>3, <1>12 DEF ThreadFits
    <3>. QED BY <1>3, <1>6, <1>8, <1>9, <1>10, <1>12, <3>1
  <2>2. UNCHANGED <<regs, wanted>> /\ bus' = IdleBus BY <1>5, <1>12, <2>1
  <2> DEFINE n == IF c.call = "set" THEN [c EXCEPT !.at = "writes", !.cur = wanted[c.off]]
                  ELSE [IdleThread EXCEPT !.right = TRUE]
  <2>3. thread' = [thread EXCEPT ![t] = n] BY <1>5, <1>12, <2>1
  <2>4. wanted[c.off] \in Words BY <1>7, <1>8
  <2>5. ASSUME c.call = "set" PROVE ThreadFits(t)'
    <3>1. /\ n \in CallRecords /\ n.call = "set" /\ n.off = c.off /\ n.mask = c.mask
          /\ n.bits = c.bits /\ n.at = "writes" /\ n.cur = wanted[c.off] /\ n.right
      BY <1>2, <2>4, <2>5 DEF CallRecords, ThreadFits
    <3>2. CallFits(t, n) BY <1>2, <2>5, <3>1 DEF ThreadFits, CallFits
    <3>. HIDE DEF n
    <3>3. thread' \in [Threads -> CallRecords] /\ thread'[t] = n BY <1>8, <2>3, <3>1
    <3>. QED BY <2>2, <3>1, <3>2, <3>3 DEF ThreadFits
  <2>6. ASSUME c.call # "set" PROVE ThreadFits(t)'
    <3>1. n = IdleThread BY <2>6 DEF IdleThread
    <3>2. n \in CallRecords BY <3>1, IdleFits DEF CallFits
    <3>. HIDE DEF n
    <3>3. thread' \in [Threads -> CallRecords] /\ thread'[t] = n BY <1>8, <2>3, <3>2
    <3>. QED BY <3>1, <3>3, IdleFits DEF ThreadFits
  <2>. HIDE DEF n
  <2>7. thread' \in [Threads -> CallRecords] /\ ThreadFits(t)'
    <3>1. n \in CallRecords
      <4>1. CASE c.call = "set" BY <1>2, <2>4, <4>1 DEF CallRecords, n
      <4>2. CASE c.call # "set" BY <4>2, IdleFits DEF CallFits, n, IdleThread
      <4>. QED BY <4>1, <4>2
    <3>. QED BY <1>8, <2>3, <2>5, <2>6, <3>1
  <2>8. ASSUME NEW u \in Threads, u # t PROVE ThreadFits(u)'
    BY <1>8, <2>2, <2>3, <2>8 DEF ThreadFits, SocInv
  <2>9. IdleBus \in BusType BY DEF IdleBus, BusType, Words
  <2>. QED BY <1>2, <1>5, <1>8, <2>2, <2>7, <2>8, <2>9 DEF SocInv, SocTypeOK, BusFits, Quiet
<1>13. CASE Selected # NoSel /\ bus.write
  <2>1. c.call \in {"write", "store", "set"} /\ c.at = "writes"
    BY <1>2, <1>3, <1>13 DEF ThreadFits
  <2>2. out.over /\ bus' = IdleBus /\ thread' = [thread EXCEPT ![t] = IdleThread]
    BY <1>5, <1>10, <1>13
  <2> DEFINE word == (wanted[c.off] \ c.mask) \cup (c.bits \cap c.mask)
  <2>3. wanted' = [wanted EXCEPT ![c.off] = word] BY <1>5, <1>13, <2>2
  <2>4. wanted[c.off] \in Words /\ word \in Words
    BY <1>2, <1>7, <1>8 DEF CallRecords, Words
  <2>5. (wanted[c.off] \ LaneMask(bus.strb)) \cup (bus.data \cap LaneMask(bus.strb)) = word
    BY <1>1, <1>2, <2>1, <2>4, WordIs DEF ThreadFits
  <2>6. \E q \in SelectedBank : q.offset = c.off /\ Writable(q)
    BY <1>6, <1>9, <1>13, <2>1
  <2>7. out.regs = [regs EXCEPT ![c.off] = word]
    <3>1. out.regs =
            [off \in DOMAIN regs |->
               IF c.off = off /\ \E q \in SelectedBank : q.offset = off /\ Writable(q)
               THEN (regs[off] \ LaneMask(bus.strb)) \cup (bus.data \cap LaneMask(bus.strb))
               ELSE regs[off]]
      BY <1>3, <1>10, <1>13
    <3>2. DOMAIN out.regs = Offsets BY <1>8, <3>1
    <3>. HIDE DEF word
    <3>3. ASSUME NEW off \in Offsets
          PROVE  out.regs[off] = IF off = c.off THEN word ELSE regs[off]
      BY <1>8, <2>5, <2>6, <3>1
    <3>. QED BY <1>7, <1>8, <3>1, <3>2, <3>3
  <2>8. regs' = wanted' /\ regs' \in [Offsets -> Words]
    <3>. HIDE DEF word
    <3>. QED BY <1>5, <1>8, <2>3, <2>4, <2>7
  <2>9. IdleThread \in CallRecords BY IdleFits DEF CallFits
  <2>10. thread' \in [Threads -> CallRecords] /\ thread'[t] = IdleThread BY <1>8, <2>2, <2>9
  <2>11. ThreadFits(t)' BY <2>10, IdleFits DEF ThreadFits
  <2>12. ASSUME NEW u \in Threads, u # t PROVE ThreadFits(u)'
    <3>1. thread'[u] = thread[u] /\ ThreadFits(u) BY <1>8, <2>2, <2>12 DEF SocInv
    <3>2. ASSUME thread[u].call = "set" PROVE wanted'[thread[u].off] = wanted[thread[u].off]
      <4>1. PICK q \in AllRegs : thread[u].off = q.offset /\ OwnerOf[q.offset] = u
        BY <3>1, <3>2 DEF ThreadFits, CallFits
      <4>2. OwnerOf[c.off] = t BY <1>6, <2>1
      <4>3. q.offset # c.off BY <2>12, <4>1, <4>2
      <4>4. q.offset \in Offsets BY DEF Offsets
      <4>. HIDE DEF word
      <4>. QED BY <1>8, <2>3, <4>1, <4>3, <4>4
    <3>. QED BY <3>1, <3>2 DEF ThreadFits
  <2>13. IdleBus \in BusType BY DEF IdleBus, BusType, Words
  <2>. QED BY <1>2, <1>5, <2>2, <2>8, <2>10, <2>11, <2>12, <2>13
       DEF SocInv, SocTypeOK, BusFits, Quiet
<1>. QED BY <1>11, <1>12, <1>13

LEMMA SocNextInv ==
    ASSUME Handshakes = "joint", ResetsAreZero, SocInv, Mapped', [SocNext]_socVars
    PROVE  SocInv'
<1>1. ASSUME UNCHANGED socVars PROVE SocInv'
  BY <1>1 DEF socVars, SocInv, SocTypeOK, ThreadFits, BusFits, Quiet, InAccess
<1>2. ASSUME Refused PROVE SocInv' BY <1>1, <1>2 DEF Refused
<1>3. ASSUME BusGoesOn PROVE SocInv' BY <1>3, AccessKeeps DEF BusGoesOn
<1>4. ASSUME NEW t \in Threads, Call(t) \/ Issue(t) PROVE SocInv'
  BY <1>4, CallKeeps, IssueKeeps
<1>5. ASSUME NEW r \in AllRegs, NEW w \in SocWords, HardwareWrites(r, w) PROVE SocInv'
  BY <1>5, HardwareWritesKeeps
<1>. QED BY <1>1, <1>2, <1>3, <1>4, <1>5, BuildKeeps, SocResetKeeps DEF SocNext

(* With a manager that raises address, data and response together, whatever *)
(* the banks, the words and the threads, registers hold field by field and  *)
(* byte by byte what their writers and the hardware asked for, although     *)
(* set_ reads, and writes back, in two accesses with others in between; and *)
(* what a call reads is what the register holds.  The reset values of the   *)
(* registers that software writes are zero.                                 *)
THEOREM RegistersAreAsWanted ==
    ASSUME Handshakes = "joint", ResetsAreZero
    PROVE  SocSpec => []RegistersAsWanted
<1>1. SocInit => SocInv BY SocInitInv
<1>2. Mapped' /\ SocInv /\ [SocNext]_socVars => SocInv' BY SocNextInv
<1>. QED BY <1>1, <1>2, InvAsWanted, MappedHolds, PTL DEF SocSpec

(***************************************************************************)
(* The GDB stub.  Its machine is compared with a flat one; the stream of   *)
(* bytes with the items that were written; and, step by step, what was     *)
(* answered with what was due.                                             *)
(***************************************************************************)
(* Induction up to a bound, for a set.                                     *)
LEMMA SmallestOf ==
    ASSUME NEW S, S \subseteq Nat, NEW e \in S
    PROVE  \E m \in S : \A n \in S : m <= n
<1> DEFINE R == {ss \in Nat \X Nat : ss[1] < ss[2]}
<1>1. IsWellFoundedOn(R, Nat) BY NatLessThanWellFounded DEF OpToRel
<1>2. \E m \in S : \A n \in S : ~ (<<n, m>> \in R)
  <2>. HIDE DEF R
  <2>. QED BY <1>1, WFMin
<1>3. PICK m \in S : \A n \in S : ~ (<<n, m>> \in R) BY <1>2
<1>4. ASSUME NEW n \in S PROVE m <= n
  <2>1. <<n, m>> \in R <=> n < m OBVIOUS
  <2>. QED BY <2>1, <1>3
<1>. QED BY <1>4

\* Induction up to a bound, for a set.
LEMMA UpTo ==
  ASSUME NEW n \in Nat, NEW T, 0 \in T, \A k \in 1 .. n : k - 1 \in T => k \in T
  PROVE  \A k \in 0 .. n : k \in T
<1> SUFFICES ASSUME NEW k \in 0 .. n, k \notin T PROVE FALSE OBVIOUS
<1> DEFINE S == {i \in 0 .. n : i \notin T}
<1>1. S \subseteq Nat /\ k \in S OBVIOUS
<1> HIDE DEF S
<1>2. PICK m \in S : \A i \in S : m <= i BY <1>1, SmallestOf
<1>3. m \in 1 .. n /\ m \notin T BY <1>2 DEF S
<1>4. m - 1 \in 0 .. n /\ m - 1 < m BY <1>3
<1>5. m - 1 \in T BY <1>2, <1>3, <1>4 DEF S
<1> QED BY <1>3, <1>5

FoldsTo(f, n, s, g) == f[0] = s /\ \A k \in 1 .. n : f[k] = g[<<f[k - 1], k>>]

\* A fold over n steps written as a function of the step.
LEMMA FoldExists ==
  ASSUME NEW n \in Nat, NEW S, NEW s \in S, NEW g \in [S \X (1 .. n) -> S]
  PROVE  \E f \in [0 .. n -> S] : FoldsTo(f, n, s, g)
<1> DEFINE Good(f, m) == f[0] = s /\ \A k \in 1 .. m : f[k] = g[<<f[k - 1], k>>]
           T == {m \in 0 .. n : \E f \in [0 .. m -> S] : Good(f, m)}
<1>1. 0 \in T
  <2> DEFINE h == [k \in 0 .. 0 |-> s]
  <2>1. h \in [0 .. 0 -> S] /\ Good(h, 0) OBVIOUS
  <2> HIDE DEF h
  <2> QED BY <2>1
<1>2. ASSUME NEW m \in 1 .. n, m - 1 \in T PROVE m \in T
  <2>1. PICK f \in [0 .. m - 1 -> S] : Good(f, m - 1) BY <1>2
  <2> DEFINE h == [k \in 0 .. m |-> IF k = m THEN g[<<f[m - 1], m>>] ELSE f[k]]
  <2>2. f[m - 1] \in S BY <2>1
  <2>3. g[<<f[m - 1], m>>] \in S BY <2>2
  <2>4. h \in [0 .. m -> S] BY <2>1, <2>3
  <2>5. \A k \in 0 .. m - 1 : h[k] = f[k] OBVIOUS
  <2>6. h[m] = g[<<f[m - 1], m>>] OBVIOUS
  <2> HIDE DEF h
  <2>7. ASSUME NEW k \in 1 .. m PROVE h[k] = g[<<h[k - 1], k>>]
    <3>1. k - 1 \in 0 .. m - 1 OBVIOUS
    <3>2. CASE k = m BY <2>5, <2>6, <3>1, <3>2
    <3>3. CASE k # m
      <4>1. k \in 1 .. m - 1 BY <3>3
      <4>2. h[k] = f[k] /\ h[k - 1] = f[k - 1] BY <2>5, <3>1, <4>1
      <4> QED BY <2>1, <4>1, <4>2
    <3> QED BY <3>2, <3>3
  <2>8. h[0] = s BY <2>1, <2>5
  <2>9. Good(h, m) BY <2>7, <2>8
  <2> QED BY <2>4, <2>9
<1> HIDE DEF T
<1>3. n \in T BY <1>1, <1>2, UpTo
<1> QED BY <1>3 DEF T, FoldsTo

(* Memory.                                                                 *)
Bytes == 0 .. 255
Cells(i) == [0 .. Regions[i].size - 1 -> Bytes]
Memories == {m \in [DOMAIN Regions -> UNION {[0 .. k - 1 -> Bytes] : k \in Nat}] :
               \A i \in DOMAIN Regions : m[i] \in Cells(i)}
Socs == [mem : Memories, uart : Seq(Bytes)]

Region == [base : Nat, size : Nat]

\* The region an address is found in is the only one that holds it.
LEMMA LookUpIs ==
  ASSUME NEW rs \in Seq(Region), NEW a \in Nat
  PROVE  /\ LookUp(rs, a) \in Nat
         /\ LookUp(rs, a) # 0 => LookUp(rs, a) \in DOMAIN rs /\ In(rs[LookUp(rs, a)], a)
         /\ LookUp(rs, a) # 0 <=> \E i \in DOMAIN rs : In(rs[i], a)
         /\ \A i \in DOMAIN rs : In(rs[i], a) => LookUp(rs, a) <= i
<1> DEFINE hits == {i \in DOMAIN rs : In(rs[i], a)}
<1>1. DOMAIN rs = 1 .. Len(rs) /\ Len(rs) \in Nat OBVIOUS
<1>2. hits \subseteq Nat /\ 0 \notin hits BY <1>1
<1>3. LookUp(rs, a) = IF hits = {} THEN 0 ELSE CHOOSE i \in hits : \A j \in hits : i <= j
  BY DEF LookUp
<1> HIDE DEF hits
<1>4. CASE hits = {} BY <1>3, <1>4 DEF hits
<1>5. CASE hits # {}
  <2>1. PICK e \in hits : TRUE BY <1>5
  <2>2. \E m \in hits : \A j \in hits : m <= j BY <1>2, <2>1, SmallestOf
  <2>3. LookUp(rs, a) \in hits /\ \A j \in hits : LookUp(rs, a) <= j BY <1>3, <1>5, <2>2
  <2> QED BY <1>2, <2>3 DEF hits
<1> QED BY <1>4, <1>5

\* The assumption, as the type of the regions.
LEMMA RegionsAre == Regions \in Seq(Region) /\ Uarts \in Seq(Region)
<1>1. Regions \in Seq([base : Nat, size : Nat]) /\ Uarts \in Seq([base : Nat, size : Nat \ {0}])
  BY GdbAssumption DEF GdbAssumption
<1>2. [base : Nat, size : Nat \ {0}] \subseteq Region BY DEF Region
<1>3. Uarts \in Seq(Region) BY <1>1, <1>2, SeqMonotonic
<1> QED BY <1>1, <1>3 DEF Region

\* A byte stored in the region of an address, seen as a flat memory.
LEMMA FlatWriteIs ==
  ASSUME NEW mem \in Memories, NEW a \in Nat, NEW v \in Bytes
  PROVE  /\ FlatWrite(mem, a, v) \in Memories
         /\ \A x \in Nat : FlatRead(FlatWrite(mem, a, v), x) =
              IF x = a /\ LookUp(Regions, a) # 0 THEN v ELSE FlatRead(mem, x)
<1> DEFINE i == LookUp(Regions, a)
           w == FlatWrite(mem, a, v)
<1>1. Regions \in Seq(Region) BY RegionsAre
<1>2. CASE i = 0 BY <1>2 DEF FlatWrite
<1>3. CASE i # 0
  <2>1. i \in DOMAIN Regions /\ In(Regions[i], a) BY <1>1, <1>3, LookUpIs
  <2>2. Regions[i] \in Region BY <1>1, <2>1
  <2>3. a - Regions[i].base \in 0 .. Regions[i].size - 1 BY <2>1, <2>2 DEF In, Region
  <2>4. mem[i] \in Cells(i) BY <2>1 DEF Memories
  <2> DEFINE c == [mem[i] EXCEPT ![a - Regions[i].base] = v]
  <2>5. c \in Cells(i) BY <2>3, <2>4 DEF Cells
  <2>6. w = [mem EXCEPT ![i] = c] BY <1>3 DEF FlatWrite
  <2>7. c \in UNION {[0 .. k - 1 -> Bytes] : k \in Nat} BY <2>2, <2>5 DEF Cells, Region
  <2> HIDE DEF c, w
  <2>8. w \in Memories BY <2>1, <2>5, <2>6, <2>7 DEF Memories
  <2>9. ASSUME NEW x \in Nat
        PROVE  FlatRead(w, x) = IF x = a THEN v ELSE FlatRead(mem, x)
    <3> DEFINE j == LookUp(Regions, x)
    <3>1. j \in Nat /\ (j # 0 => j \in DOMAIN Regions /\ In(Regions[j], x)) BY <1>1, LookUpIs
    <3>2. CASE j = 0 BY <1>3, <3>2 DEF FlatRead
    <3>3. CASE j # 0
      <4>1. Regions[j] \in Region BY <1>1, <3>1, <3>3
      <4>2. x - Regions[j].base \in 0 .. Regions[j].size - 1 BY <3>1, <3>3, <4>1 DEF In, Region
      <4>3. DOMAIN mem = DOMAIN Regions BY DEF Memories
      <4>4. w[j] = IF j = i THEN c ELSE mem[j] BY <2>6, <3>1, <3>3, <4>3
      <4>5. x = a => j = i OBVIOUS
      <4>6. DOMAIN mem[i] = 0 .. Regions[i].size - 1 BY <2>4 DEF Cells
      <4>7. j = i => c[x - Regions[j].base] = IF x = a THEN v ELSE mem[j][x - Regions[j].base]
        BY <2>2, <2>3, <4>2, <4>6 DEF c, Region
      <4>8. FlatRead(w, x) = w[j][x - Regions[j].base] BY <3>3 DEF FlatRead
      <4>9. FlatRead(mem, x) = mem[j][x - Regions[j].base] BY <3>3 DEF FlatRead
      <4> QED BY <4>4, <4>5, <4>7, <4>8, <4>9
    <3> QED BY <3>2, <3>3
  <2> QED BY <1>3, <2>8, <2>9 DEF w
<1> QED BY <1>2, <1>3

(* Writing bytes one after the other.                                      *)
AfterBytes(s, addr, bytes) ==
  CHOOSE after : after = [i \in 0 .. Len(bytes) |->
    IF i = 0 THEN s ELSE SocWrite(after[i - 1], addr + i - 1, bytes[i])]

\* A byte written by address: it lands where it is read, or is printed, or is lost.
LEMMA SocWriteIs ==
  ASSUME NEW s \in Socs, NEW a \in Nat, NEW v \in Bytes
  PROVE  /\ SocWrite(s, a, v) \in Socs
         /\ \A x \in Nat : LookUp(Uarts, x) = 0 =>
              FlatRead(SocWrite(s, a, v).mem, x) =
                IF x = a /\ LookUp(Regions, a) # 0 THEN v ELSE FlatRead(s.mem, x)
         /\ SocWrite(s, a, v).uart =
              IF LookUp(Uarts, a) = 1 /\ a = Uarts[1].base THEN Append(s.uart, v) ELSE s.uart
<1> DEFINE u == LookUp(Uarts, a)
           w == SocWrite(s, a, v)
<1>1. s.mem \in Memories /\ s.uart \in Seq(Bytes) /\ s = [mem |-> s.mem, uart |-> s.uart]
  BY DEF Socs
<1>2. CASE u = 0
  <2>1. w = [mem |-> FlatWrite(s.mem, a, v), uart |-> s.uart] BY <1>1, <1>2 DEF SocWrite
  <2>2. FlatWrite(s.mem, a, v) \in Memories
        /\ \A x \in Nat : FlatRead(FlatWrite(s.mem, a, v), x) =
              IF x = a /\ LookUp(Regions, a) # 0 THEN v ELSE FlatRead(s.mem, x)
    BY <1>1, FlatWriteIs
  <2> QED BY <1>1, <1>2, <2>1, <2>2 DEF Socs
<1>3. CASE u = 1 /\ a = Uarts[1].base
  <2>1. w = [mem |-> s.mem, uart |-> Append(s.uart, v)] BY SMTT(20), <1>1, <1>3 DEF SocWrite
  <2>2. Append(s.uart, v) \in Seq(Bytes) BY <1>1
  <2> QED BY <1>1, <1>3, <2>1, <2>2 DEF Socs
<1>4. CASE u # 0 /\ ~(u = 1 /\ a = Uarts[1].base)
  <2>1. w = s BY <1>4 DEF SocWrite
  <2> QED BY <1>1, <1>4, <2>1
<1> QED BY <1>2, <1>3, <1>4

\* A run of bytes stored in one region.
LEMMA AfterBytesIs ==
  ASSUME NEW s \in Socs, NEW addr \in Nat, NEW bytes \in Seq(Bytes),
         NEW after, after = AfterBytes(s, addr, bytes)
  PROVE  /\ after[0] = s
         /\ \A k \in 1 .. Len(bytes) : after[k] = SocWrite(after[k - 1], addr + k - 1, bytes[k])
<1> DEFINE n == Len(bytes)
           Step(x, k) == SocWrite(x, addr + k - 1, bytes[k])
           g == [p \in Socs \X (1 .. n) |-> Step(p[1], p[2])]
<1>1. n \in Nat /\ \A k \in 1 .. n : bytes[k] \in Bytes /\ addr + k - 1 \in Nat OBVIOUS
<1>2. \A x \in Socs, k \in 1 .. n : Step(x, k) \in Socs BY <1>1, SocWriteIs
<1> HIDE DEF Step
<1>3. g \in [Socs \X (1 .. n) -> Socs] BY <1>2
<1>4. \A x \in Socs, k \in 1 .. n : g[<<x, k>>] = Step(x, k) OBVIOUS
<1> HIDE DEF g
<1>5. PICK f \in [0 .. n -> Socs] : FoldsTo(f, n, s, g) BY <1>1, <1>3, FoldExists
<1>6. \A k \in 1 .. n : f[k] = Step(f[k - 1], k)
  <2>1. \A k \in 1 .. n : k - 1 \in 0 .. n OBVIOUS
  <2> QED BY <1>4, <1>5, <2>1 DEF FoldsTo
<1>7. f = [i \in 0 .. n |-> IF i = 0 THEN s ELSE Step(f[i - 1], i)]
  BY <1>1, <1>5, <1>6 DEF FoldsTo
<1>8. after = [i \in 0 .. n |-> IF i = 0 THEN s ELSE Step(after[i - 1], i)]
  BY <1>7 DEF AfterBytes, Step
<1> HIDE DEF n
<1>9. after[0] = s /\ \A k \in 1 .. n : after[k] = Step(after[k - 1], k)
  BY <1>1, <1>8
<1> QED BY <1>9 DEF n, Step

\* Of a block, the bytes at a UART are printed and the others stored.
LEMMA TransmitIs ==
  ASSUME NEW a \in Nat
  PROVE  LookUp(Uarts, a) = 1 /\ a = Uarts[1].base <=> Uarts # <<>> /\ a = Uarts[1].base
<1>1. Uarts \in Seq(Region) BY RegionsAre
<1>2. ASSUME Uarts # <<>>, a = Uarts[1].base PROVE LookUp(Uarts, a) = 1
  <2>1. 1 \in DOMAIN Uarts BY <1>1, <1>2
  <2>2. Uarts[1].base \in Nat /\ Uarts[1].size \in Nat \ {0}
    <3> DEFINE R == [base : Nat, size : Nat \ {0}]
    <3>1. Uarts \in Seq(R) BY GdbAssumption DEF GdbAssumption
    <3>2. \A r \in R : r.base \in Nat /\ r.size \in Nat \ {0} OBVIOUS
    <3> HIDE DEF R
    <3>3. Uarts[1] \in R BY <2>1, <3>1
    <3> QED BY <3>2, <3>3
  <2>3. In(Uarts[1], a) BY <1>2, <2>2 DEF In
  <2>4. LookUp(Uarts, a) \in Nat /\ LookUp(Uarts, a) # 0 /\ LookUp(Uarts, a) <= 1
    BY <1>1, <2>1, <2>3, LookUpIs
  <2> QED BY <2>4
<1>3. ASSUME LookUp(Uarts, a) = 1 PROVE Uarts # <<>>
  <2>1. 1 \in DOMAIN Uarts BY <1>1, <1>3, LookUpIs
  <2> QED BY <2>1
<1> QED BY <1>2, <1>3

\* A block of bytes: the memory the reader sees and the text that is printed.
LEMMA WriteMemIs ==
  ASSUME NEW s \in Socs, NEW addr \in Nat, NEW bytes \in Seq(Bytes),
         NEW w, w = WriteMem(s, addr, bytes)
  PROVE  /\ w \in Socs
         /\ \A x \in Nat : LookUp(Uarts, x) = 0 =>
              FlatRead(w.mem, x) =
                IF x \in addr .. addr + Len(bytes) - 1 /\ LookUp(Regions, x) # 0
                THEN bytes[x - addr + 1] ELSE FlatRead(s.mem, x)
         /\ w.uart = s.uart \o Printed(addr, bytes)
<1> DEFINE n == Len(bytes)
           after == AfterBytes(s, addr, bytes)
           at == Uarts[1].base - addr + 1
           Reads(m, k) == \A x \in Nat : LookUp(Uarts, x) = 0 =>
              FlatRead(m, x) =
                IF x \in addr .. addr + k - 1 /\ LookUp(Regions, x) # 0
                THEN bytes[x - addr + 1] ELSE FlatRead(s.mem, x)
           Prints(u, k) == u = IF Uarts # <<>> /\ at \in 1 .. k THEN Append(s.uart, bytes[at])
                               ELSE s.uart
           T == {k \in 0 .. n : after[k] \in Socs /\ Reads(after[k].mem, k)
                                /\ Prints(after[k].uart, k)}
<1>1. n \in Nat /\ \A k \in 1 .. n : bytes[k] \in Bytes /\ addr + k - 1 \in Nat OBVIOUS
<1>2. /\ after[0] = s
      /\ \A k \in 1 .. n : after[k] = SocWrite(after[k - 1], addr + k - 1, bytes[k])
  BY AfterBytesIs
<1>3. w = after[n] BY DEF WriteMem, AfterBytes
<1>0. Uarts # <<>> => Uarts[1].base \in Nat
  <2>1. Uarts \in Seq(Region) BY RegionsAre
  <2>2. Uarts # <<>> => Uarts[1] \in Region BY <2>1
  <2> QED BY <2>2 DEF Region
<1> HIDE DEF after, n
<1>4. 0 \in T BY <1>1, <1>2
<1>5. ASSUME NEW k \in 1 .. n, k - 1 \in T PROVE k \in T
  <2> DEFINE a == addr + k - 1
             v == bytes[k]
             old == after[k - 1]
             new == after[k]
  <2>1. old \in Socs /\ Reads(old.mem, k - 1) /\ Prints(old.uart, k - 1) BY <1>5
  <2>2. a \in Nat /\ v \in Bytes /\ new = SocWrite(old, a, v) BY <1>1, <1>2
  <2> HIDE DEF a, v, old, new
  <2>3. /\ new \in Socs
        /\ \A x \in Nat : LookUp(Uarts, x) = 0 =>
             FlatRead(new.mem, x) =
               IF x = a /\ LookUp(Regions, a) # 0 THEN v ELSE FlatRead(old.mem, x)
        /\ new.uart = IF LookUp(Uarts, a) = 1 /\ a = Uarts[1].base THEN Append(old.uart, v)
                      ELSE old.uart
    BY ZenonT(30), <2>1, <2>2, SocWriteIs
  <2>4. Reads(new.mem, k)
    <3> SUFFICES ASSUME NEW x \in Nat, LookUp(Uarts, x) = 0
                 PROVE  FlatRead(new.mem, x) =
                          IF x \in addr .. addr + k - 1 /\ LookUp(Regions, x) # 0
                          THEN bytes[x - addr + 1] ELSE FlatRead(s.mem, x)
      OBVIOUS
    <3>1. FlatRead(new.mem, x) = IF x = a /\ LookUp(Regions, a) # 0 THEN v ELSE FlatRead(old.mem, x)
      BY <2>3
    <3>2. FlatRead(old.mem, x) =
            IF x \in addr .. addr + (k - 1) - 1 /\ LookUp(Regions, x) # 0
            THEN bytes[x - addr + 1] ELSE FlatRead(s.mem, x)
      BY <2>1
    <3>3. x = a => x - addr + 1 = k BY DEF a
    <3>4. x \in addr .. addr + k - 1 <=> x = a \/ x \in addr .. addr + (k - 1) - 1 BY DEF a
    <3>5. a \notin addr .. addr + (k - 1) - 1 BY DEF a
    <3> HIDE DEF T
    <3> QED BY <3>1, <3>2, <3>3, <3>4, <3>5 DEF v
  <2>5. Prints(new.uart, k)
    <3>1. new.uart = IF Uarts # <<>> /\ a = Uarts[1].base THEN Append(old.uart, v) ELSE old.uart
      BY <2>2, <2>3, TransmitIs
    <3>2. Uarts # <<>> => (a = Uarts[1].base <=> at = k) BY <1>0 DEF a
    <3>3. Uarts # <<>> => (at \in 1 .. k <=> at = k \/ at \in 1 .. k - 1) BY <1>0
    <3>4. k \notin 1 .. k - 1 OBVIOUS
    <3> QED BY <2>1, <3>1, <3>2, <3>3, <3>4 DEF v
  <2> QED BY <2>3, <2>4, <2>5 DEF new
<1> HIDE DEF T
<1>6. n \in T
  <2>1. n \in Nat BY <1>1
  <2>2. \A k \in 1 .. n : k - 1 \in T => k \in T BY <1>5
  <2>3. \A k \in 0 .. n : k \in T BY <1>4, <2>1, <2>2, UpTo
  <2> QED BY <2>1, <2>3
<1>7. w \in Socs /\ Reads(w.mem, n) /\ Prints(w.uart, n) BY <1>3, <1>6 DEF T
<1>8. w.uart = s.uart \o Printed(addr, bytes)
  <2>1. s.uart \in Seq(Bytes) BY DEF Socs
  <2>2. DOMAIN bytes = 1 .. n BY DEF n
  <2>3. CASE Uarts # <<>> /\ at \in 1 .. n
    <3>1. Printed(addr, bytes) = <<bytes[at]>> BY <2>2, <2>3 DEF Printed
    <3>2. bytes[at] \in Bytes BY <1>1, <2>3
    <3>3. Append(s.uart, bytes[at]) = s.uart \o <<bytes[at]>> BY <2>1, <3>2, AppendIsConcat
    <3> QED BY <1>7, <2>3, <3>1, <3>3
  <2>4. CASE ~(Uarts # <<>> /\ at \in 1 .. n)
    <3>1. Printed(addr, bytes) = <<>> BY <2>2, <2>4 DEF Printed
    <3> QED BY <1>7, <2>1, <2>4, <3>1, ConcatEmptySeq
  <2> QED BY <2>3, <2>4
<1> QED BY <1>7, <1>8 DEF n

(* The firmware.                                                           *)
SegmentByte(seg, i) == IF i <= Len(seg.data) THEN seg.data[i] ELSE 0

\* Segments and their bytes, as the assumption has them.
LEMMA SegmentsAre ==
  /\ DOMAIN Segments = 1 .. Len(Segments) /\ Len(Segments) \in Nat
  /\ \A j \in DOMAIN Segments :
       /\ Segments[j].vaddr \in Nat /\ Segments[j].memsz \in Nat
       /\ \A i \in 1 .. Segments[j].memsz : SegmentByte(Segments[j], i) \in Bytes
<1> DEFINE R == [vaddr : Nat, data : Seq(0 .. 255), memsz : Nat]
<1>1. Segments \in Seq(R) BY GdbAssumption DEF GdbAssumption
<1>2. \A r \in R : r.vaddr \in Nat /\ r.memsz \in Nat /\ r.data \in Seq(0 .. 255) OBVIOUS
<1>3. \A r \in R, i \in Nat \ {0} : SegmentByte(r, i) \in Bytes
  <2> TAKE r \in R, i \in Nat \ {0}
  <2>1. r.data \in Seq(Bytes) BY <1>2 DEF Bytes
  <2>2. i <= Len(r.data) => r.data[i] \in Bytes BY <2>1
  <2> QED BY <2>2 DEF SegmentByte, Bytes
<1> HIDE DEF R
<1>4. \A j \in DOMAIN Segments : Segments[j] \in R BY <1>1
<1>5. DOMAIN Segments = 1 .. Len(Segments) /\ Len(Segments) \in Nat BY <1>1
<1>6. \A n \in Nat : \A i \in 1 .. n : i \in Nat \ {0} OBVIOUS
<1> QED BY <1>2, <1>3, <1>4, <1>5, <1>6

LoadedBytes(mem, seg) ==
  CHOOSE after : after = [i \in 0 .. seg.memsz |->
        IF i = 0 THEN mem
        ELSE FlatWrite(after[i - 1], seg.vaddr + i - 1,
                       IF i <= Len(seg.data) THEN seg.data[i] ELSE 0)]

\* What one segment leaves of a memory.
LEMMA LoadedBytesAre ==
  ASSUME NEW mem \in Memories, NEW seg, seg.vaddr \in Nat, seg.memsz \in Nat,
         \A i \in 1 .. seg.memsz : SegmentByte(seg, i) \in Bytes,
         NEW after, after = LoadedBytes(mem, seg)
  PROVE  /\ after[0] = mem
         /\ \A k \in 1 .. seg.memsz :
              after[k] = FlatWrite(after[k - 1], seg.vaddr + k - 1, SegmentByte(seg, k))
<1> DEFINE n == seg.memsz
           Step(x, k) == FlatWrite(x, seg.vaddr + k - 1, SegmentByte(seg, k))
           g == [p \in Memories \X (1 .. n) |-> Step(p[1], p[2])]
<1>1. n \in Nat /\ \A k \in 1 .. n : seg.vaddr + k - 1 \in Nat OBVIOUS
<1>2. \A x \in Memories, k \in 1 .. n : Step(x, k) \in Memories BY <1>1, FlatWriteIs
<1>3. after = CHOOSE f : f = [i \in 0 .. n |-> IF i = 0 THEN mem ELSE Step(f[i - 1], i)]
  BY DEF LoadedBytes, SegmentByte
<1> HIDE DEF Step
<1>4. g \in [Memories \X (1 .. n) -> Memories] BY <1>2
<1>5. \A x \in Memories, k \in 1 .. n : g[<<x, k>>] = Step(x, k) OBVIOUS
<1> HIDE DEF g
<1>6. PICK f \in [0 .. n -> Memories] : FoldsTo(f, n, mem, g) BY <1>1, <1>4, FoldExists
<1>7. \A k \in 1 .. n : f[k] = Step(f[k - 1], k)
  <2>1. \A k \in 1 .. n : k - 1 \in 0 .. n OBVIOUS
  <2> QED BY <1>5, <1>6, <2>1 DEF FoldsTo
<1>8. f = [i \in 0 .. n |-> IF i = 0 THEN mem ELSE Step(f[i - 1], i)]
  BY <1>1, <1>6, <1>7 DEF FoldsTo
<1>9. after = [i \in 0 .. n |-> IF i = 0 THEN mem ELSE Step(after[i - 1], i)]
  BY <1>3, <1>8
<1>10. n \in Nat BY <1>1
<1> HIDE DEF n
<1>11. after[0] = mem /\ \A k \in 1 .. n : after[k] = Step(after[k - 1], k)
  BY <1>9, <1>10
<1> QED BY <1>11 DEF n, Step

\* load_segment, byte by byte.
LEMMA LoadSegmentIs ==
  ASSUME NEW mem \in Memories, NEW seg, seg.vaddr \in Nat, seg.memsz \in Nat,
         \A i \in 1 .. seg.memsz : SegmentByte(seg, i) \in Bytes,
         NEW w, w = LoadSegment(mem, seg)
  PROVE  /\ w \in Memories
         /\ \A x \in Nat : FlatRead(w, x) =
              IF x \in seg.vaddr .. seg.vaddr + seg.memsz - 1 /\ LookUp(Regions, x) # 0
              THEN SegmentByte(seg, x - seg.vaddr + 1) ELSE FlatRead(mem, x)
<1> DEFINE n == seg.memsz
           after == LoadedBytes(mem, seg)
           Reads(m, k) == \A x \in Nat : FlatRead(m, x) =
                IF x \in seg.vaddr .. seg.vaddr + k - 1 /\ LookUp(Regions, x) # 0
                THEN SegmentByte(seg, x - seg.vaddr + 1) ELSE FlatRead(mem, x)
           T == {k \in 0 .. n : after[k] \in Memories /\ Reads(after[k], k)}
<1>1. n \in Nat /\ \A k \in 1 .. n : seg.vaddr + k - 1 \in Nat OBVIOUS
<1>2. /\ after[0] = mem
      /\ \A k \in 1 .. n : after[k] = FlatWrite(after[k - 1], seg.vaddr + k - 1, SegmentByte(seg, k))
  BY LoadedBytesAre
<1>3. w = after[n] BY DEF LoadSegment, LoadedBytes
<1> HIDE DEF after, n
<1>4. 0 \in T BY <1>1, <1>2
<1>5. ASSUME NEW k \in 1 .. n, k - 1 \in T PROVE k \in T
  <2> DEFINE a == seg.vaddr + k - 1
             v == SegmentByte(seg, k)
             old == after[k - 1]
             new == after[k]
  <2>1. old \in Memories /\ Reads(old, k - 1) BY <1>5
  <2>2. a \in Nat /\ v \in Bytes /\ new = FlatWrite(old, a, v) BY <1>1, <1>2 DEF n
  <2> HIDE DEF a, v, old, new
  <2>3. /\ new \in Memories
        /\ \A x \in Nat : FlatRead(new, x) =
             IF x = a /\ LookUp(Regions, a) # 0 THEN v ELSE FlatRead(old, x)
    BY <2>1, <2>2, FlatWriteIs
  <2>4. Reads(new, k)
    <3> SUFFICES ASSUME NEW x \in Nat
                 PROVE  FlatRead(new, x) =
                          IF x \in seg.vaddr .. seg.vaddr + k - 1 /\ LookUp(Regions, x) # 0
                          THEN SegmentByte(seg, x - seg.vaddr + 1) ELSE FlatRead(mem, x)
      OBVIOUS
    <3>1. FlatRead(new, x) = IF x = a /\ LookUp(Regions, a) # 0 THEN v ELSE FlatRead(old, x)
      BY <2>3
    <3>2. FlatRead(old, x) =
            IF x \in seg.vaddr .. seg.vaddr + (k - 1) - 1 /\ LookUp(Regions, x) # 0
            THEN SegmentByte(seg, x - seg.vaddr + 1) ELSE FlatRead(mem, x)
      BY <2>1
    <3>3. x = a => x - seg.vaddr + 1 = k BY DEF a
    <3>4. /\ x \in seg.vaddr .. seg.vaddr + k - 1
               <=> x = a \/ x \in seg.vaddr .. seg.vaddr + (k - 1) - 1
          /\ a \notin seg.vaddr .. seg.vaddr + (k - 1) - 1
      BY DEF a
    <3> HIDE DEF T
    <3> QED BY <3>1, <3>2, <3>3, <3>4 DEF v
  <2> QED BY <2>3, <2>4 DEF new
<1> HIDE DEF T
<1>6. n \in T
  <2>1. n \in Nat BY <1>1
  <2>2. \A k \in 1 .. n : k - 1 \in T => k \in T BY <1>5
  <2>3. \A k \in 0 .. n : k \in T BY <1>4, <2>1, <2>2, UpTo
  <2> QED BY <2>1, <2>3
<1> QED BY <1>3, <1>6 DEF T, n

\* Memories start with zeros everywhere.
LEMMA BlankIs == Blank \in Memories /\ \A x \in Nat : FlatRead(Blank, x) = 0
<1>1. Regions \in Seq(Region) BY RegionsAre
<1>2. \A i \in DOMAIN Regions : Regions[i].size \in Nat /\ Regions[i].base \in Nat
  <2>1. \A i \in DOMAIN Regions : Regions[i] \in Region BY <1>1
  <2> QED BY <2>1 DEF Region
<1>3. \A i \in DOMAIN Regions : [o \in 0 .. Regions[i].size - 1 |-> 0] \in Cells(i)
  BY DEF Cells, Bytes
<1>4. \A i \in DOMAIN Regions :
        [o \in 0 .. Regions[i].size - 1 |-> 0] \in UNION {[0 .. k - 1 -> Bytes] : k \in Nat}
  BY <1>2, <1>3 DEF Cells
<1>5. Blank \in Memories BY <1>3, <1>4 DEF Memories, Blank
<1>6. ASSUME NEW x \in Nat PROVE FlatRead(Blank, x) = 0
  <2> DEFINE i == LookUp(Regions, x)
  <2>1. i # 0 => i \in DOMAIN Regions /\ In(Regions[i], x) BY <1>1, LookUpIs
  <2>2. CASE i = 0 BY <2>2 DEF FlatRead
  <2>3. CASE i # 0
    <3>1. x - Regions[i].base \in 0 .. Regions[i].size - 1 BY <1>2, <2>1, <2>3 DEF In
    <3>2. Blank[i][x - Regions[i].base] = 0 BY <2>1, <2>3, <3>1 DEF Blank
    <3> QED BY <2>3, <3>2 DEF FlatRead
  <2> QED BY <2>2, <2>3
<1> QED BY <1>5, <1>6

LoadedSegments ==
  CHOOSE after : after = [j \in 0 .. Len(Segments) |->
        IF j = 0 THEN Blank ELSE LoadSegment(after[j - 1], Segments[j])]

\* Segments are loaded one after the other.
LEMMA LoadedSegmentsAre ==
  ASSUME NEW after, after = LoadedSegments
  PROVE  /\ after[0] = Blank
         /\ \A j \in 1 .. Len(Segments) : after[j] = LoadSegment(after[j - 1], Segments[j])
<1> DEFINE n == Len(Segments)
           Step(x, k) == LoadSegment(x, Segments[k])
           g == [p \in Memories \X (1 .. n) |-> Step(p[1], p[2])]
<1>1. n \in Nat /\ Blank \in Memories BY SegmentsAre, BlankIs
<1>2. \A x \in Memories, k \in 1 .. n : Step(x, k) \in Memories
  <2> TAKE x \in Memories, k \in 1 .. n
  <2> DEFINE seg == Segments[k]
  <2>1. seg.vaddr \in Nat /\ seg.memsz \in Nat /\ \A i \in 1 .. seg.memsz : SegmentByte(seg, i) \in Bytes
    BY SegmentsAre
  <2> HIDE DEF seg
  <2>2. LoadSegment(x, seg) \in Memories BY <2>1, LoadSegmentIs
  <2> QED BY <2>2 DEF seg
<1>3. after = CHOOSE f : f = [i \in 0 .. n |-> IF i = 0 THEN Blank ELSE Step(f[i - 1], i)]
  BY DEF LoadedSegments
<1> HIDE DEF Step
<1>4. g \in [Memories \X (1 .. n) -> Memories] BY <1>2
<1>5. \A x \in Memories, k \in 1 .. n : g[<<x, k>>] = Step(x, k) OBVIOUS
<1> HIDE DEF g
<1>6. PICK f \in [0 .. n -> Memories] : FoldsTo(f, n, Blank, g) BY <1>1, <1>4, FoldExists
<1>7. \A k \in 1 .. n : f[k] = Step(f[k - 1], k)
  <2>1. \A k \in 1 .. n : k - 1 \in 0 .. n OBVIOUS
  <2> QED BY <1>5, <1>6, <2>1 DEF FoldsTo
<1>8. f = [i \in 0 .. n |-> IF i = 0 THEN Blank ELSE Step(f[i - 1], i)]
  BY <1>1, <1>6, <1>7 DEF FoldsTo
<1>9. after = [i \in 0 .. n |-> IF i = 0 THEN Blank ELSE Step(after[i - 1], i)]
  BY <1>3, <1>8
<1>10. n \in Nat BY <1>1
<1> HIDE DEF n
<1>11. after[0] = Blank /\ \A k \in 1 .. n : after[k] = Step(after[k - 1], k)
  BY <1>9, <1>10
<1> QED BY <1>11 DEF n, Step

InSegment(j, x) == x \in Segments[j].vaddr .. Segments[j].vaddr + Segments[j].memsz - 1
ByteOf(j, x) == SegmentByte(Segments[j], x - Segments[j].vaddr + 1)

\* The last of the first n segments that has the address decides.
Decided(value, x, n) ==
  /\ (\A j \in 1 .. n : ~InSegment(j, x)) => value = 0
  /\ \A j \in 1 .. n : InSegment(j, x) /\ (\A k \in j + 1 .. n : ~InSegment(k, x))
                         => value = ByteOf(j, x)

\* The last segment that holds an address decides its byte.
LEMMA LoadElfDecides ==
  /\ LoadElf \in Memories
  /\ \A x \in Nat : LookUp(Regions, x) # 0 => Decided(FlatRead(LoadElf, x), x, Len(Segments))
<1> DEFINE n == Len(Segments)
           after == LoadedSegments
           Good(k) == \A x \in Nat : LookUp(Regions, x) # 0 => Decided(FlatRead(after[k], x), x, k)
           T == {k \in 0 .. n : after[k] \in Memories /\ Good(k)}
<1>1. n \in Nat BY SegmentsAre
<1>2. after[0] = Blank /\ \A k \in 1 .. n : after[k] = LoadSegment(after[k - 1], Segments[k])
  BY LoadedSegmentsAre
<1>3. LoadElf = after[n] BY DEF LoadElf, LoadedSegments
<1> HIDE DEF after, n
<1>4. 0 \in T
  <2>1. \A x \in Nat : Decided(0, x, 0) BY DEF Decided
  <2> QED BY <1>1, <1>2, <2>1, BlankIs
<1>5. ASSUME NEW k \in 1 .. n, k - 1 \in T PROVE k \in T
  <2> DEFINE seg == Segments[k]
             old == after[k - 1]
             new == after[k]
  <2>1. old \in Memories
        /\ \A x \in Nat : LookUp(Regions, x) # 0 => Decided(FlatRead(old, x), x, k - 1)
    BY <1>5
  <2>2. /\ new = LoadSegment(old, seg)
        /\ seg.vaddr \in Nat /\ seg.memsz \in Nat
        /\ \A i \in 1 .. seg.memsz : SegmentByte(seg, i) \in Bytes
    BY <1>2, SegmentsAre DEF n
  <2> HIDE DEF seg, old, new
  <2>3. /\ new \in Memories
        /\ \A x \in Nat : FlatRead(new, x) =
             IF x \in seg.vaddr .. seg.vaddr + seg.memsz - 1 /\ LookUp(Regions, x) # 0
             THEN SegmentByte(seg, x - seg.vaddr + 1) ELSE FlatRead(old, x)
    BY <2>1, <2>2, LoadSegmentIs
  <2>4. ASSUME NEW x \in Nat, LookUp(Regions, x) # 0 PROVE Decided(FlatRead(new, x), x, k)
    <3>1. FlatRead(new, x) = IF InSegment(k, x) THEN ByteOf(k, x) ELSE FlatRead(old, x)
      BY <2>3, <2>4 DEF InSegment, ByteOf, seg
    <3>2. Decided(FlatRead(old, x), x, k - 1) BY <2>1, <2>4
    <3> DEFINE value == FlatRead(new, x)
               before == FlatRead(old, x)
    <3> HIDE DEF value, before
    <3>3. value = IF InSegment(k, x) THEN ByteOf(k, x) ELSE before BY <3>1 DEF value, before
    <3>4. Decided(before, x, k - 1) BY <3>2 DEF before
    <3>5. (\A j \in 1 .. k : ~InSegment(j, x)) => value = 0
      BY <3>3, <3>4 DEF Decided
    <3>6. ASSUME NEW j \in 1 .. k, InSegment(j, x), \A i \in j + 1 .. k : ~InSegment(i, x)
          PROVE  value = ByteOf(j, x)
      <4>1. CASE j = k BY <3>3, <3>6, <4>1
      <4>2. CASE j # k
        <5>1. k \in j + 1 .. k /\ j \in 1 .. k - 1 BY <4>2
        <5>2. ~InSegment(k, x) BY <3>6, <5>1
        <5>3. \A i \in j + 1 .. k - 1 : ~InSegment(i, x) BY <3>6
        <5> QED BY <3>3, <3>4, <3>6, <5>1, <5>2, <5>3 DEF Decided
      <4> QED BY <4>1, <4>2
    <3> QED BY <3>5, <3>6 DEF Decided, value
  <2> QED BY <2>3, <2>4 DEF new
<1> HIDE DEF T
<1>6. n \in T
  <2>1. \A k \in 1 .. n : k - 1 \in T => k \in T BY <1>5
  <2>2. \A k \in 0 .. n : k \in T BY <1>1, <1>4, <2>1, UpTo
  <2> QED BY <1>1, <2>2
<1> QED BY <1>3, <1>6 DEF T, n

\* A nonempty set of numbers with a bound has a largest.
LEMMA LargestOf ==
  ASSUME NEW n \in Nat, NEW S, S \subseteq 1 .. n, NEW e \in S
  PROVE  \E m \in S : \A k \in S : k <= m
<1> DEFINE R == {n - k : k \in S}
<1>1. R \subseteq Nat /\ n - e \in R OBVIOUS
<1> HIDE DEF R
<1>2. PICK r \in R : \A q \in R : r <= q BY <1>1, SmallestOf
<1>3. PICK m \in S : r = n - m BY <1>2 DEF R
<1>4. ASSUME NEW k \in S PROVE k <= m
  <2>1. n - k \in R BY DEF R
  <2>2. r <= n - k BY <1>2, <2>1
  <2> QED BY <1>3, <2>2
<1> QED BY <1>4

\* The machine after load_elf is the flat one.
LEMMA LoadElfIs ==
  \A x \in Nat : LookUp(Regions, x) # 0 => FlatRead(LoadElf, x) = FirmwareAt(x)
<1> SUFFICES ASSUME NEW x \in Nat, LookUp(Regions, x) # 0 PROVE FlatRead(LoadElf, x) = FirmwareAt(x)
  OBVIOUS
<1> DEFINE n == Len(Segments)
           has == {i \in DOMAIN Segments : In([base |-> Segments[i].vaddr, size |-> Segments[i].memsz], x)}
           top == CHOOSE i \in has : \A j \in has : j <= i
           v == FlatRead(LoadElf, x)
<1>1. Decided(v, x, n) BY LoadElfDecides
<1>2. n \in Nat /\ DOMAIN Segments = 1 .. n BY SegmentsAre
<1>3. \A i \in 1 .. n : i \in has <=> InSegment(i, x)
  <2> TAKE i \in 1 .. n
  <2>1. Segments[i].vaddr \in Nat /\ Segments[i].memsz \in Nat BY <1>2, SegmentsAre
  <2> QED BY <1>2, <2>1 DEF In, InSegment
<1>4. FirmwareAt(x) = IF has = {} \/ x - Segments[top].vaddr + 1 > Len(Segments[top].data) THEN 0
                      ELSE Segments[top].data[x - Segments[top].vaddr + 1]
  BY DEF FirmwareAt
<1>5. has \subseteq 1 .. n BY <1>2
<1>6. CASE has = {} BY <1>1, <1>3, <1>4, <1>6 DEF Decided
<1>7. CASE has # {}
  <2>1. PICK e \in has : TRUE BY <1>7
  <2> HIDE DEF has, n, v
  <2>2. \E m \in has : \A j \in has : j <= m BY <1>2, <1>5, <2>1, LargestOf
  <2>3. top \in has /\ \A j \in has : j <= top BY <2>2
  <2> HIDE DEF top
  <2>4. top \in 1 .. n /\ InSegment(top, x) BY <1>3, <1>5, <2>3
  <2>5. \A k \in top + 1 .. n : ~InSegment(k, x)
    <3> SUFFICES ASSUME NEW k \in top + 1 .. n, InSegment(k, x) PROVE FALSE OBVIOUS
    <3>1. k \in 1 .. n /\ k > top BY <1>2, <2>4
    <3>2. k \in has BY <1>3, <3>1
    <3> QED BY <2>3, <2>4, <3>1, <3>2
  <2>6. v = ByteOf(top, x) BY <1>1, <2>4, <2>5 DEF Decided
  <2>7. Segments[top].vaddr \in Nat /\ Len(Segments[top].data) \in Nat
    <3> DEFINE R == [vaddr : Nat, data : Seq(0 .. 255), memsz : Nat]
    <3>1. Segments \in Seq(R) BY GdbAssumption DEF GdbAssumption
    <3>2. \A r \in R : r.vaddr \in Nat /\ Len(r.data) \in Nat OBVIOUS
    <3>3. top \in DOMAIN Segments BY <1>2, <2>4
    <3> HIDE DEF R
    <3>4. Segments[top] \in R BY <3>1, <3>3
    <3> QED BY <3>2, <3>4
  <2> QED BY <1>4, <1>7, <2>6, <2>7 DEF ByteOf, SegmentByte, v
<1> QED BY <1>6, <1>7

(* One flat memory.                                                        *)
LEMMA KeptAre ==
  \A a : a \in AddressesKept <=> a \in Nat /\ LookUp(Regions, a) # 0 /\ LookUp(Uarts, a) = 0
<1> TAKE a
<1>1. Regions \in Seq(Region) /\ Uarts \in Seq(Region) BY RegionsAre
<1>2. \A i \in DOMAIN Regions : Regions[i].base \in Nat /\ Regions[i].size \in Nat
  <2>1. \A i \in DOMAIN Regions : Regions[i] \in Region BY <1>1
  <2> QED BY <2>1 DEF Region
<1>3. a \in UNION {r.base .. r.base + r.size - 1 : r \in Range(Regions)}
        <=> \E i \in DOMAIN Regions : a \in Regions[i].base .. Regions[i].base + Regions[i].size - 1
  BY DEF Range
<1>4. \A i \in DOMAIN Regions : a \in Regions[i].base .. Regions[i].base + Regions[i].size - 1
        <=> a \in Nat /\ In(Regions[i], a)
  <2> TAKE i \in DOMAIN Regions
  <2>1. Regions[i].base \in Nat /\ Regions[i].size \in Nat BY <1>2
  <2> QED BY <2>1 DEF In
<1>5. a \in AddressesKept <=> a \in Nat /\ Keeps(a) BY <1>3, <1>4 DEF AddressesKept, Keeps
<1>6. a \in Nat => /\ LookUp(Regions, a) # 0 <=> \E i \in DOMAIN Regions : In(Regions[i], a)
                   /\ LookUp(Uarts, a) # 0 <=> \E i \in DOMAIN Uarts : In(Uarts[i], a)
  BY <1>1, LookUpIs
<1> QED BY <1>5, <1>6 DEF Keeps

Flat(s, bytes) ==
  /\ s \in Socs
  /\ DOMAIN bytes = AddressesKept
  /\ \A a \in AddressesKept : FlatRead(s.mem, a) = bytes[a]

\* The machine the stub starts with is flat.
LEMMA FlatAtFirst ==
  Flat([mem |-> LoadElf, uart |-> <<>>], [a \in AddressesKept |-> FirmwareAt(a)])
BY LoadElfDecides, LoadElfIs, KeptAre DEF Flat, Socs

FlatBytes(bytes, addr, n) ==
  [i \in 1 .. n |-> IF addr + i - 1 \in AddressesKept THEN bytes[addr + i - 1] ELSE 0]

\* m: the bytes of a block are those of the flat memory.
LEMMA ReadsAreFlat ==
  ASSUME NEW s, NEW bytes, Flat(s, bytes), NEW addr \in Nat, NEW n \in Nat
  PROVE  ReadMem(s, addr, n) = FlatBytes(bytes, addr, n)
<1>1. ASSUME NEW a \in Nat PROVE SocRead(s, a) = IF a \in AddressesKept THEN bytes[a] ELSE 0
  BY KeptAre DEF Flat, SocRead, FlatRead
<1>2. \A i \in 1 .. n : addr + i - 1 \in Nat OBVIOUS
<1> QED BY <1>1, <1>2 DEF ReadMem, FlatBytes

\* M: a block written is a block written to the flat memory.
LEMMA WritesAreFlat ==
  ASSUME NEW s, NEW bytes, Flat(s, bytes), NEW addr \in Nat, NEW data \in Seq(Bytes)
  PROVE  /\ Flat(WriteMem(s, addr, data), Stored(bytes, addr, data))
         /\ WriteMem(s, addr, data).uart = s.uart \o Printed(addr, data)
<1> DEFINE w == WriteMem(s, addr, data)
           b == Stored(bytes, addr, data)
<1>1. s \in Socs BY DEF Flat
<1>2. /\ w \in Socs
      /\ \A x \in Nat : LookUp(Uarts, x) = 0 =>
           FlatRead(w.mem, x) =
             IF x \in addr .. addr + Len(data) - 1 /\ LookUp(Regions, x) # 0
             THEN data[x - addr + 1] ELSE FlatRead(s.mem, x)
      /\ w.uart = s.uart \o Printed(addr, data)
  BY <1>1, WriteMemIs
<1>3. DOMAIN b = AddressesKept
      /\ \A a \in AddressesKept :
           b[a] = IF a \in addr .. addr + Len(data) - 1 THEN data[a - addr + 1] ELSE bytes[a]
  BY DEF Flat, Stored
<1> HIDE DEF w, b
<1>4. ASSUME NEW a \in AddressesKept PROVE FlatRead(w.mem, a) = b[a]
  <2>1. a \in Nat /\ LookUp(Regions, a) # 0 /\ LookUp(Uarts, a) = 0 BY KeptAre
  <2>2. FlatRead(s.mem, a) = bytes[a] BY DEF Flat
  <2> QED BY <1>2, <1>3, <2>1, <2>2
<1>5. Flat(w, b) BY <1>2, <1>3, <1>4 DEF Flat
<1> QED BY <1>2, <1>5 DEF w, b

-----
(* The stream.                                                             *)
Items == UNION {UNION {Range(script) : script \in Scripts[d]} : d \in Debuggers}
Tokens == Items \cup {Ack, Interrupt, <<"$">>, <<"#">>, <<"digit">>}

\* What a debugger writes is an acknowledgement, an interrupt or a packet.
LEMMA ItemsAre == \A item \in Items : IsItem(item)
<1> SUFFICES ASSUME NEW d \in Debuggers, NEW script \in Scripts[d], NEW k \in DOMAIN script
             PROVE  IsItem(script[k])
  BY DEF Items, Range
<1> QED BY GdbAssumption DEF GdbAssumption

\* Pieces an item is cut into on the wire.
LEMMA TokensOfIs ==
  ASSUME NEW item \in Items, NEW t, t = TokensOf(item)
  PROVE  /\ t \in Seq(Tokens)
         /\ Len(t) = IF IsPacket(item) THEN 5 ELSE 1
         /\ IsPacket(item) => t[1] = <<"$">> /\ t[2] = item /\ t[3] = <<"#">>
                              /\ item # <<"#">>
         /\ ~IsPacket(item) => t[1] = item
<1>1. IsItem(item) BY ItemsAre
<1>2. CASE IsPacket(item)
  <2>1. t = <<<<"$">>, item, <<"#">>, <<"digit">>, <<"digit">>>> BY <1>2 DEF TokensOf, Packet
  <2>2. item # <<"#">> BY <1>1, <1>2 DEF IsItem, IsPacket, Kind
  <2>3. t \in Seq(Tokens) BY <2>1 DEF Tokens
  <2> QED BY <1>2, <2>1, <2>2, <2>3
<1>3. CASE ~IsPacket(item)
  <2>1. t = <<item>> BY <1>3 DEF TokensOf
  <2> QED BY <1>3, <2>1 DEF Tokens
<1> QED BY <1>2, <1>3

\* The tokens of stream are those of the items after the first n, whose places b gives.
Carries(stream, items, n, b) ==
  /\ n <= Len(items)
  /\ b \in [1 .. Len(items) + 1 -> Nat]
  /\ \A i \in 1 .. Len(items) : b[i + 1] = b[i] + Len(TokensOf(items[i]))
  /\ \A i, j \in 1 .. Len(items) + 1 : i <= j => b[i] <= b[j]
  /\ Len(stream) = b[Len(items) + 1] - b[n + 1]
  /\ \A i \in n + 1 .. Len(items) : \A j \in 1 .. Len(TokensOf(items[i])) :
       stream[b[i] - b[n + 1] + j] = TokensOf(items[i])[j]
Stream(stream, items, n) == \E b : Carries(stream, items, n, b)

\* Nothing written is nothing carried.
LEMMA StreamAtFirst == Stream(<<>>, <<>>, 0)
<1> DEFINE b == [i \in 1 .. 1 |-> 0]
<1>1. Len(<<>>) = 0 OBVIOUS
<1>2. Carries(<<>>, <<>>, 0, b) BY <1>1 DEF Carries
<1> QED BY <1>2 DEF Stream

\* An item written is carried behind the others.
LEMMA StreamGrows ==
  ASSUME NEW stream \in Seq(Tokens), NEW items \in Seq(Items), NEW n \in Nat,
         Stream(stream, items, n), NEW item \in Items
  PROVE  Stream(stream \o TokensOf(item), Append(items, item), n)
<1>1. PICK b : Carries(stream, items, n, b) BY DEF Stream
<1> DEFINE t == TokensOf(item)
           more == Append(items, item)
           l == Len(items)
           c == [i \in 1 .. l + 2 |-> IF i = l + 2 THEN b[l + 1] + Len(t) ELSE b[i]]
           s == stream \o t
<1>2. t \in Seq(Tokens) BY TokensOfIs
<1>3. l \in Nat /\ Len(t) \in Nat /\ Len(stream) \in Nat BY <1>2
<1>4. Len(more) = l + 1 /\ more[l + 1] = item /\ \A i \in 1 .. l : more[i] = items[i] OBVIOUS
<1>5. Len(s) = Len(stream) + Len(t)
      /\ (\A i \in 1 .. Len(stream) : s[i] = stream[i])
      /\ \A i \in 1 .. Len(t) : s[Len(stream) + i] = t[i]
  BY <1>2
<1>6. /\ n <= l
      /\ b \in [1 .. l + 1 -> Nat]
      /\ \A i \in 1 .. l : b[i + 1] = b[i] + Len(TokensOf(items[i]))
      /\ \A i, j \in 1 .. l + 1 : i <= j => b[i] <= b[j]
      /\ Len(stream) = b[l + 1] - b[n + 1]
      /\ \A i \in n + 1 .. l : \A j \in 1 .. Len(TokensOf(items[i])) :
           stream[b[i] - b[n + 1] + j] = TokensOf(items[i])[j]
  BY <1>1 DEF Carries
<1>7. \A i \in 1 .. l : Len(TokensOf(items[i])) \in Nat
  <2> TAKE i \in 1 .. l
  <2>1. items[i] \in Items OBVIOUS
  <2>2. TokensOf(items[i]) \in Seq(Tokens) BY <2>1, TokensOfIs
  <2> QED BY <2>2
<1>8. c[l + 2] = b[l + 1] + Len(t) /\ \A i \in 1 .. l + 1 : c[i] = b[i] BY <1>3
<1>9. c \in [1 .. l + 2 -> Nat]
  <2>1. \A i \in 1 .. l + 1 : b[i] \in Nat BY <1>6
  <2>2. l + 1 \in 1 .. l + 1 BY <1>3
  <2>3. b[l + 1] + Len(t) \in Nat BY <1>3, <2>1, <2>2
  <2>4. \A i \in 1 .. l + 2 : i # l + 2 => i \in 1 .. l + 1 BY <1>3
  <2> QED BY <2>1, <2>3, <2>4
<1> HIDE DEF t, more, l, c, s
<1>10. \A i \in 1 .. l + 1 : c[i + 1] = c[i] + Len(TokensOf(more[i]))
  <2> TAKE i \in 1 .. l + 1
  <2>1. CASE i = l + 1 BY <1>3, <1>4, <1>8, <2>1 DEF t
  <2>2. CASE i # l + 1
    <3>1. i \in 1 .. l /\ i + 1 \in 1 .. l + 1 BY <1>3, <2>2
    <3> QED BY <1>4, <1>6, <1>8, <3>1
  <2> QED BY <2>1, <2>2
<1>11. \A i, j \in 1 .. l + 2 : i <= j => c[i] <= c[j]
  <2> SUFFICES ASSUME NEW i \in 1 .. l + 2, NEW j \in 1 .. l + 2, i <= j PROVE c[i] <= c[j]
    OBVIOUS
  <2>1. CASE j # l + 2
    <3>1. i \in 1 .. l + 1 /\ j \in 1 .. l + 1 BY <1>3, <2>1
    <3> QED BY <1>6, <1>8, <3>1
  <2>2. CASE i = l + 2 BY <1>3, <1>9, <2>2
  <2>3. CASE j = l + 2 /\ i # l + 2
    <3>1. i \in 1 .. l + 1 /\ l + 1 \in 1 .. l + 1 BY <1>3, <2>3
    <3>2. b[i] <= b[l + 1] /\ b[i] \in Nat /\ b[l + 1] \in Nat BY <1>6, <3>1
    <3> QED BY <1>3, <1>8, <2>3, <3>1, <3>2
  <2> QED BY <2>1, <2>2, <2>3
<1>12. n + 1 \in 1 .. l + 1 /\ l + 1 \in 1 .. l + 1 BY <1>3, <1>6
<1>13. c[n + 1] = b[n + 1] /\ b[n + 1] \in Nat /\ b[l + 1] \in Nat BY <1>6, <1>8, <1>12
<1>14. Len(s) = c[l + 2] - c[n + 1] BY <1>3, <1>5, <1>6, <1>8, <1>13
<1>15. ASSUME NEW i \in n + 1 .. l + 1, NEW j \in 1 .. Len(TokensOf(more[i]))
       PROVE  s[c[i] - c[n + 1] + j] = TokensOf(more[i])[j]
  <2>1. CASE i = l + 1
    <3>1. c[i] - c[n + 1] = Len(stream) BY <1>6, <1>8, <1>12, <1>13, <2>1
    <3>2. TokensOf(more[i]) = t BY <1>4, <2>1 DEF t
    <3> QED BY <1>5, <3>1, <3>2
  <2>2. CASE i # l + 1
    <3>1. i \in 1 .. l /\ i \in n + 1 .. l /\ i + 1 \in 1 .. l + 1 /\ i \in 1 .. l + 1 BY <1>3, <2>2
    <3>2. more[i] = items[i] /\ c[i] = b[i] BY <1>4, <1>8, <3>1
    <3>3. stream[b[i] - b[n + 1] + j] = TokensOf(items[i])[j] BY <1>6, <3>1, <3>2
    <3>4. /\ b[i] \in Nat /\ b[i + 1] \in Nat
          /\ b[n + 1] <= b[i] /\ b[i + 1] <= b[l + 1]
          /\ b[i + 1] = b[i] + Len(TokensOf(items[i]))
      <4>1. n + 1 <= i /\ i + 1 <= l + 1 BY <1>3, <3>1
      <4> QED BY <1>6, <1>12, <3>1, <4>1
    <3>5. Len(TokensOf(items[i])) \in Nat BY <1>7, <3>1
    <3>6. b[i] - b[n + 1] + j \in 1 .. Len(stream) BY SMTT(20), <1>6, <1>13, <3>2, <3>4, <3>5
    <3> QED BY <1>5, <1>13, <3>2, <3>3, <3>6
  <2> QED BY <2>1, <2>2
<1>16. n <= l + 1 BY <1>3, <1>6
<1>17. Len(more) = l + 1 /\ Len(more) + 1 = l + 2 BY <1>3, <1>4
<1>18. Carries(s, more, n, c)
  BY <1>9, <1>10, <1>11, <1>14, <1>15, <1>16, <1>17 DEF Carries
<1> QED BY <1>18 DEF Stream, s, more, t

\* What stands at the head of a stream: a piece of the first item.
LEMMA StreamHead ==
  ASSUME NEW stream \in Seq(Tokens), NEW items \in Seq(Items), NEW n \in Nat,
         Stream(stream, items, n)
  PROVE  /\ n <= Len(items)
         /\ n = Len(items) => stream = <<>>
         /\ n < Len(items) =>
              /\ Len(TokensOf(items[n + 1])) <= Len(stream)
              /\ \A j \in 1 .. Len(TokensOf(items[n + 1])) : stream[j] = TokensOf(items[n + 1])[j]
              /\ Stream(SubSeq(stream, Len(TokensOf(items[n + 1])) + 1, Len(stream)), items, n + 1)
<1>1. PICK b : Carries(stream, items, n, b) BY DEF Stream
<1> DEFINE l == Len(items)
           t == TokensOf(items[n + 1])
           m == Len(t)
           s == SubSeq(stream, m + 1, Len(stream))
<1>2. /\ n <= l
      /\ b \in [1 .. l + 1 -> Nat]
      /\ \A i \in 1 .. l : b[i + 1] = b[i] + Len(TokensOf(items[i]))
      /\ \A i, j \in 1 .. l + 1 : i <= j => b[i] <= b[j]
      /\ Len(stream) = b[l + 1] - b[n + 1]
      /\ \A i \in n + 1 .. l : \A j \in 1 .. Len(TokensOf(items[i])) :
           stream[b[i] - b[n + 1] + j] = TokensOf(items[i])[j]
  BY <1>1 DEF Carries
<1>3. l \in Nat OBVIOUS
<1> HIDE DEF l
<1>4. n = l => stream = <<>>
  <2> SUFFICES ASSUME n = l PROVE stream = <<>> OBVIOUS
  <2>1. l + 1 \in 1 .. l + 1 BY <1>3
  <2>2. b[l + 1] \in Nat BY <1>2, <2>1
  <2>3. Len(stream) = 0 BY <1>2, <2>2
  <2> QED BY <2>3, EmptySeq
<1>5. ASSUME n < l
      PROVE  m <= Len(stream) /\ (\A j \in 1 .. m : stream[j] = t[j]) /\ Stream(s, items, n + 1)
  <2>1. n + 1 \in 1 .. l /\ n + 1 \in n + 1 .. l /\ n + 1 \in 1 .. l + 1 /\ n + 2 \in 1 .. l + 1
        /\ l + 1 \in 1 .. l + 1 /\ n + 2 <= l + 1 /\ (n + 1) + 1 = n + 2
    BY <1>3, <1>5
  <2>2. items[n + 1] \in Items BY <2>1 DEF l
  <2>3. t \in Seq(Tokens) /\ m \in Nat BY <2>2, TokensOfIs
  <2> HIDE DEF t, m
  <2>4. b[n + 1] \in Nat /\ b[n + 2] \in Nat /\ b[l + 1] \in Nat BY <1>2, <2>1
  <2>5. b[n + 2] = b[n + 1] + m BY <1>2, <2>1 DEF m, t
  <2>6. b[n + 2] <= b[l + 1] BY <1>2, <2>1
  <2>7. m <= Len(stream) BY <1>2, <2>3, <2>4, <2>5, <2>6
  <2>8. ASSUME NEW j \in 1 .. m PROVE stream[j] = t[j]
    <3>1. stream[b[n + 1] - b[n + 1] + j] = t[j] BY <1>2, <2>1 DEF m, t
    <3> QED BY <2>3, <2>4, <3>1
  <2>9. s \in Seq(Tokens) /\ Len(s) = Len(stream) - m
        /\ \A i \in 1 .. Len(stream) - m : s[i] = stream[m + i]
    <3>1. Len(stream) \in Nat OBVIOUS
    <3>2. s \in Seq(Tokens)
          /\ Len(s) = (IF m + 1 <= Len(stream) THEN Len(stream) - (m + 1) + 1 ELSE 0)
          /\ \A i \in 1 .. Len(stream) - (m + 1) + 1 : s[i] = stream[(m + 1) + i - 1]
      <4>1. m + 1 \in 1 .. Len(stream) + 1 BY <2>3, <2>7, <3>1
      <4>2. \A i \in (m + 1) .. Len(stream) : stream[i] \in Tokens BY <2>3, <3>1
      <4>3. m + 1 \in Int /\ Len(stream) \in Int BY <2>3, <3>1
      <4> QED BY <4>1, <4>2, <4>3, SubSeqProperties
    <3>3. \A i \in 1 .. Len(stream) - m : i \in 1 .. Len(stream) - (m + 1) + 1 /\ (m + 1) + i - 1 = m + i
      BY <2>3, <3>1
    <3> QED BY <2>3, <2>7, <3>1, <3>2, <3>3
  <2> HIDE DEF s
  <2>10. Len(s) = b[l + 1] - b[n + 2] BY <1>2, <2>3, <2>4, <2>5, <2>9
  <2>11. ASSUME NEW i \in n + 2 .. l, NEW j \in 1 .. Len(TokensOf(items[i]))
         PROVE  s[b[i] - b[n + 2] + j] = TokensOf(items[i])[j]
    <3>1. i \in n + 1 .. l /\ i \in 1 .. l /\ i \in 1 .. l + 1 /\ i + 1 \in 1 .. l + 1
          /\ n + 2 <= i /\ i + 1 <= l + 1
      BY <1>3
    <3>2. b[i] \in Nat /\ b[i + 1] \in Nat /\ b[n + 2] <= b[i] /\ b[i + 1] <= b[l + 1]
          /\ b[i + 1] = b[i] + Len(TokensOf(items[i]))
      BY <1>2, <2>1, <3>1
    <3>3. Len(TokensOf(items[i])) \in Nat
      <4>1. items[i] \in Items BY <3>1 DEF l
      <4>2. TokensOf(items[i]) \in Seq(Tokens) BY <4>1, TokensOfIs
      <4> QED BY <4>2
    <3>4. stream[b[i] - b[n + 1] + j] = TokensOf(items[i])[j] BY <1>2, <3>1
    <3> DEFINE x == b[i]
               y == b[n + 2]
               k == Len(TokensOf(items[i]))
    <3>8. x \in Nat /\ y \in Nat /\ k \in Nat /\ j \in 1 .. k /\ y <= x /\ x + k <= b[l + 1]
          /\ Len(stream) - m = b[l + 1] - y /\ b[l + 1] \in Nat
      BY <2>4, <2>9, <2>10, <3>2, <3>3
    <3>9. y = b[n + 1] + m BY <2>5
    <3> HIDE DEF x, y, k
    <3>5. x - y + j \in 1 .. Len(stream) - m BY <3>8
    <3>6. s[x - y + j] = stream[m + (x - y + j)] BY <2>9, <3>5
    <3>7. m + (x - y + j) = x - b[n + 1] + j
      <4> DEFINE z == b[n + 1]
      <4>1. x \in Nat /\ y \in Nat /\ z \in Nat /\ m \in Nat /\ j \in Int /\ y = z + m
        BY <2>3, <2>4, <3>8, <3>9
      <4> HIDE DEF z
      <4>2. m + (x - y + j) = x - z + j BY <4>1
      <4> QED BY <4>2 DEF z
    <3> QED BY <3>4, <3>6, <3>7 DEF x, y
  <2>12. Carries(s, items, n + 1, b) BY <1>2, <2>1, <2>10, <2>11 DEF Carries, l
  <2> QED BY <2>7, <2>8, <2>12 DEF Stream
<1> QED BY <1>2, <1>4, <1>5 DEF l

\* What the turn of the loop finds when the buffer begins with an item, or part of one.
LEMMA ParseIs ==
  ASSUME NEW buf \in Seq(Tokens), NEW item \in Items, NEW t, t = TokensOf(item),
         \A j \in 1 .. Len(t) : j <= Len(buf) => buf[j] = t[j], buf # <<>>,
         NEW p, p = Parse(buf)
  PROVE  /\ Len(buf) < Len(t) => p.what = "wait"
         /\ Len(t) <= Len(buf) =>
              /\ p.rest = SubSeq(buf, Len(t) + 1, Len(buf))
              /\ p.what = IF item = Ack THEN "skip" ELSE IF item = Interrupt THEN "interrupt"
                          ELSE "packet"
              /\ IsPacket(item) => p.cmd = item
<1> DEFINE start == Find(buf, <<"$">>, 1)
           end == Find(buf, <<"#">>, start + 1)
           rest(n) == SubSeq(buf, n, Len(buf))
<1>1. p = IF buf = <<>> THEN [what |-> "wait", cmd |-> NoReply, rest |-> buf]
          ELSE IF buf[1] = Ack THEN [what |-> "skip", cmd |-> NoReply, rest |-> rest(2)]
          ELSE IF buf[1] = Interrupt THEN [what |-> "interrupt", cmd |-> NoReply, rest |-> rest(2)]
          ELSE IF start = 0 THEN [what |-> "skip", cmd |-> NoReply, rest |-> <<>>]
          ELSE IF end = 0 \/ end + 2 > Len(buf) THEN [what |-> "wait", cmd |-> NoReply, rest |-> buf]
          ELSE [what |-> "packet", cmd |-> buf[start + 1], rest |-> rest(end + 3)]
  BY DEF Parse, ParseWith
<1>2. Len(buf) \in Nat /\ Len(buf) >= 1
  <2>1. Len(buf) \in Nat /\ Len(buf) # 0 BY EmptySeq
  <2> QED BY <2>1
<1>3. /\ Len(t) = IF IsPacket(item) THEN 5 ELSE 1
      /\ IsPacket(item) => t[1] = <<"$">> /\ t[2] = item /\ t[3] = <<"#">> /\ item # <<"#">>
      /\ ~IsPacket(item) => t[1] = item
  BY TokensOfIs
<1>4. buf[1] = t[1] BY <1>2, <1>3
<1> HIDE DEF start, end
<1>5. CASE ~IsPacket(item)
  <2>1. buf[1] = item /\ item \in {Ack, Interrupt} BY <1>3, <1>4, <1>5 DEF IsPacket
  <2>2. Ack # Interrupt BY DEF Ack, Interrupt
  <2>3. rest(2) = SubSeq(buf, Len(t) + 1, Len(buf)) BY <1>3, <1>5
  <2> QED BY <1>1, <1>2, <1>3, <1>5, <2>1, <2>2, <2>3
<1>6. CASE IsPacket(item)
  <2>1. buf[1] = <<"$">> BY <1>3, <1>4, <1>6
  <2>2. buf[1] # Ack /\ buf[1] # Interrupt BY <2>1 DEF Ack, Interrupt
  <2>3. start = 1
    <3> DEFINE I == {i \in 1 .. Len(buf) : buf[i] = <<"$">>}
    <3>1. start = IF I # {} THEN CHOOSE x \in I : \A y \in I : x <= y ELSE 0
      BY DEF start, Find, SelectInSubSeq, Min
    <3>2. 1 \in I /\ \A y \in I : 1 <= y /\ y \in Nat BY <1>2, <2>1
    <3> HIDE DEF I
    <3>3. \A x \in I : (\A y \in I : x <= y) => x = 1 BY <3>2
    <3> QED BY <3>1, <3>2, <3>3
  <2>4. end = IF 3 <= Len(buf) THEN 3 ELSE 0
    <3> DEFINE I == {i \in 2 .. Len(buf) : buf[i] = <<"#">>}
    <3>1. end = IF I # {} THEN CHOOSE x \in I : \A y \in I : x <= y ELSE 0
      BY <2>3 DEF end, Find, SelectInSubSeq, Min
    <3>2. 2 \notin I
      <4>1. 2 <= Len(buf) => buf[2] # <<"#">>
        <5>1. 2 <= Len(buf) => buf[2] = t[2] BY <1>2, <1>3, <1>6
        <5>2. t[2] = item /\ item # <<"#">> BY <1>3, <1>6
        <5> QED BY <5>1, <5>2
      <4> QED BY <1>2, <4>1
    <3>3. \A y \in I : y \in Nat /\ 3 <= y /\ y <= Len(buf) BY <1>2, <3>2
    <3>4. 3 <= Len(buf) => 3 \in I BY <1>2, <1>3, <1>6
    <3> HIDE DEF I
    <3>5. CASE 3 <= Len(buf)
      <4>1. \A x \in I : (\A y \in I : x <= y) => x = 3 BY <3>3, <3>4, <3>5
      <4> QED BY <3>1, <3>3, <3>4, <3>5, <4>1
    <3>6. CASE ~(3 <= Len(buf))
      <4>1. I = {} BY <1>2, <3>3, <3>6
      <4> QED BY <3>1, <3>6, <4>1
    <3> QED BY <3>5, <3>6
  <2>5. CASE Len(buf) < 5
    <3>1. end = 0 \/ end + 2 > Len(buf) BY <1>2, <2>4, <2>5
    <3>2. p.what = "wait" BY <1>1, <2>2, <2>3, <3>1
    <3> QED BY <1>2, <1>3, <1>6, <2>5, <3>2
  <2>6. CASE 5 <= Len(buf)
    <3>1. end = 3 /\ ~(end + 2 > Len(buf)) BY <1>2, <2>4, <2>6
    <3>2. p = [what |-> "packet", cmd |-> buf[2], rest |-> rest(6)]
      <4>1. end # 0 /\ start # 0 /\ start + 1 = 2 /\ end + 3 = 6 BY <2>3, <3>1
      <4> QED BY <1>1, <2>2, <3>1, <4>1
    <3>3. buf[2] = item BY <1>2, <1>3, <1>6, <2>6
    <3>4. item # Ack /\ item # Interrupt BY <1>6 DEF IsPacket
    <3> QED BY <1>2, <1>3, <1>6, <2>6, <3>2, <3>3, <3>4
  <2> QED BY <1>2, <2>5, <2>6
<1> QED BY <1>5, <1>6

-----
(* One debugger: c its connection, served and said what is due to it, at   *)
(* and buf the thread while it serves it.                                  *)
IsSeq(s) == s \in Seq({s[i] : i \in DOMAIN s})
Halted == <<"S05">>
Fields == {"state", "closed", "written", "wire", "out"}

Heard(c, said, at) ==
  ~c.closed => IsSeq(c.out) /\ said = IF at = "cont" THEN Append(c.out, Halted) ELSE c.out

Dialogue(c, served, said, at, buf) ==
  /\ DOMAIN c = Fields
  /\ c.state \in {"away", "waiting", "taken", "over"} /\ c.closed \in BOOLEAN
  /\ c.written \in Seq(Items) /\ c.wire \in Seq(Tokens)
  /\ served \in Seq(Items) /\ buf \in Seq(Tokens)
  /\ c.state = "taken" <=> at \in {"recv", "parse", "cont"}
  /\ c.state # "taken" => buf = <<>>
  /\ Len(served) <= Len(c.written) /\ \A i \in 1 .. Len(served) : served[i] = c.written[i]
  /\ c.state # "over" => Stream(buf \o c.wire, c.written, Len(served))
  /\ at = "recv" /\ Len(served) < Len(c.written)
       => Len(buf) < Len(TokensOf(c.written[Len(served) + 1]))
  /\ Heard(c, said, at)

Appends(s, a, b) ==
  /\ IsSeq(Append(s, a)) /\ IsSeq(s \o <<a>>) /\ IsSeq(s \o <<a, b>>)
  /\ Append(s, a) = s \o <<a>>
  /\ Append(Append(s, a), b) = s \o <<a, b>>
  /\ Front(Append(s, a)) = s

\* Sequences, and what is appended to them.
LEMMA IsSeqs == ASSUME NEW s, IsSeq(s), NEW a, NEW b PROVE Appends(s, a, b)
<1> DEFINE S == {s[i] : i \in DOMAIN s} \cup {a, b}
<1>1. s \in Seq(S)
  <2>1. {s[i] : i \in DOMAIN s} \subseteq S OBVIOUS
  <2>2. s \in Seq({s[i] : i \in DOMAIN s}) BY DEF IsSeq
  <2> QED BY <2>1, <2>2, SeqMonotonic
<1>2. a \in S /\ b \in S OBVIOUS
<1> HIDE DEF S
<1>3. ASSUME NEW t \in Seq(S) PROVE IsSeq(t)
  <2>1. \A i \in 1 .. Len(t) : t[i] \in {t[k] : k \in DOMAIN t} BY <1>3
  <2> QED BY <1>3, <2>1, IsASeq, SeqOfRange DEF IsSeq
<1>4. Append(s, a) \in Seq(S) /\ s \o <<a>> \in Seq(S) /\ s \o <<a, b>> \in Seq(S)
  BY <1>1, <1>2
<1>5. Append(s, a) = s \o <<a>> BY <1>1, <1>2, AppendIsConcat
<1>6. Append(Append(s, a), b) = s \o <<a, b>> BY <1>1, <1>2
<1>7. Front(Append(s, a)) = s BY <1>1, <1>2 DEF Front
<1> QED BY <1>3, <1>4, <1>5, <1>6, <1>7 DEF Appends

\* Whoever is accepted is read from its first byte.
LEMMA DialogueAccepts ==
  ASSUME NEW c, NEW served, NEW said, Dialogue(c, served, said, "accept", <<>>),
         c.state = "waiting"
  PROVE  Dialogue([c EXCEPT !.state = "taken"], served, said, "recv", <<>>)
<1> DEFINE e == [c EXCEPT !.state = "taken"]
<1>1. DOMAIN e = Fields /\ e.state = "taken" /\ e.closed = c.closed /\ e.written = c.written
      /\ e.wire = c.wire /\ e.out = c.out
  BY DEF Dialogue, Fields
<1> HIDE DEF e
<1>2. e.written \in Seq(Items) /\ e.wire \in Seq(Tokens) /\ served \in Seq(Items)
  BY <1>1 DEF Dialogue
<1>3. Len(served) < Len(e.written) => Len(<<>>) < Len(TokensOf(e.written[Len(served) + 1]))
  <2> SUFFICES ASSUME Len(served) < Len(e.written)
               PROVE  Len(<<>>) < Len(TokensOf(e.written[Len(served) + 1]))
    OBVIOUS
  <2> DEFINE item == e.written[Len(served) + 1]
  <2>1. item \in Items
    <3>1. Len(served) + 1 \in 1 .. Len(e.written) BY <1>2
    <3> QED BY <1>2, <3>1
  <2> HIDE DEF item
  <2>2. Len(TokensOf(item)) = IF IsPacket(item) THEN 5 ELSE 1 BY <2>1, TokensOfIs
  <2>3. Len(<<>>) = 0 OBVIOUS
  <2> QED BY <2>2, <2>3 DEF item
<1>4. <<>> \in Seq(Tokens) OBVIOUS
<1> QED BY <1>1, <1>3, <1>4 DEF Dialogue, Heard, e

\* A dialogue that is over holds without the server.
LEMMA DialogueOver ==
  ASSUME NEW c, NEW served, NEW said, NEW at, NEW buf, Dialogue(c, served, said, at, buf),
         NEW more \in Seq(Items), Len(more) <= Len(c.written),
         \A i \in 1 .. Len(more) : more[i] = c.written[i],
         NEW told, c.closed \/ (told = said /\ at # "cont"),
         NEW e, e = [c EXCEPT !.state = "over"]
  PROVE  Dialogue(e, more, told, "accept", <<>>)
<1>1. DOMAIN e = Fields /\ e.state = "over" /\ e.closed = c.closed /\ e.written = c.written
      /\ e.wire = c.wire /\ e.out = c.out
  BY DEF Dialogue, Fields
<1>2. <<>> \in Seq(Tokens) OBVIOUS
<1> QED BY <1>1, <1>2 DEF Dialogue, Heard

\* recv moves bytes from the wire to the buffer.
LEMMA DialogueReceives ==
  ASSUME NEW c, NEW served, NEW said, NEW buf, Dialogue(c, served, said, "recv", buf),
         NEW n \in 1 .. Len(c.wire),
         NEW e, e = [c EXCEPT !.wire = SubSeq(@, n + 1, Len(@))]
  PROVE  Dialogue(e, served, said, "parse", buf \o SubSeq(c.wire, 1, n))
<1>1. DOMAIN e = Fields /\ e.wire = SubSeq(c.wire, n + 1, Len(c.wire))
      /\ e.state = c.state /\ e.closed = c.closed /\ e.written = c.written /\ e.out = c.out
  BY DEF Dialogue, Fields
<1> DEFINE w == c.wire
<1>2. w \in Seq(Tokens) /\ buf \in Seq(Tokens) /\ n \in 1 .. Len(w) BY DEF Dialogue
<1> HIDE DEF w
<1>3. SubSeq(w, 1, n) \in Seq(Tokens) /\ SubSeq(w, n + 1, Len(w)) \in Seq(Tokens) BY <1>2
<1>4. SubSeq(w, 1, n) \o SubSeq(w, n + 1, Len(w)) = w
  <2>1. 1 \in 1 .. Len(w) + 1 /\ n \in 1 - 1 .. Len(w) /\ Len(w) \in n .. Len(w) BY <1>2
  <2>2. SubSeq(w, 1, n) \o SubSeq(w, n + 1, Len(w)) = SubSeq(w, 1, Len(w))
    BY <1>2, <2>1, ConcatAdjacentSubSeq
  <2>3. SubSeq(w, 1, Len(w)) = w BY <1>2, SubSeqFull
  <2> QED BY <2>2, <2>3
<1>5. (buf \o SubSeq(w, 1, n)) \o SubSeq(w, n + 1, Len(w)) = buf \o w
  <2> DEFINE x == SubSeq(w, 1, n)
             y == SubSeq(w, n + 1, Len(w))
  <2>1. x \in Seq(Tokens) /\ y \in Seq(Tokens) /\ buf \in Seq(Tokens) /\ x \o y = w
    BY <1>2, <1>3, <1>4
  <2> HIDE DEF x, y
  <2>3. \A s1, s2, s3 \in Seq(Tokens) : (s1 \o s2) \o s3 = s1 \o (s2 \o s3) BY ConcatAssociative
  <2>2. (buf \o x) \o y = buf \o (x \o y) BY <2>1, <2>3
  <2> QED BY <2>1, <2>2 DEF x, y
<1>6. buf \o SubSeq(w, 1, n) \in Seq(Tokens) BY <1>2, <1>3
<1> QED BY <1>1, <1>3, <1>5, <1>6 DEF Dialogue, Heard, w

\* Too little in the buffer: the server receives again.
LEMMA DialogueWaits ==
  ASSUME NEW c, NEW served, NEW said, NEW buf, Dialogue(c, served, said, "parse", buf),
         Parse(buf).what = "wait"
  PROVE  Dialogue(c, served, said, "recv", buf)
<1> DEFINE n == Len(served)
           stream == buf \o c.wire
           item == c.written[n + 1]
           t == TokensOf(item)
<1>1. ASSUME n < Len(c.written) PROVE Len(buf) < Len(t)
  <2>1. c.written \in Seq(Items) /\ served \in Seq(Items) /\ buf \in Seq(Tokens) /\ c.wire \in Seq(Tokens)
    BY DEF Dialogue
  <2>2. item \in Items
    <3>1. n + 1 \in 1 .. Len(c.written) BY <1>1, <2>1
    <3> QED BY <2>1, <3>1
  <2>3. t \in Seq(Tokens) /\ Len(t) >= 1
    <3>1. Len(t) = (IF IsPacket(item) THEN 5 ELSE 1) /\ t \in Seq(Tokens) BY <2>2, TokensOfIs
    <3> QED BY <3>1
  <2>4. CASE buf = <<>> BY <2>3, <2>4
  <2>5. CASE buf # <<>>
    <3>1. Stream(stream, c.written, n) BY DEF Dialogue
    <3>2. stream \in Seq(Tokens) /\ n \in Nat BY <2>1
    <3>3. Len(t) <= Len(stream) /\ \A j \in 1 .. Len(t) : stream[j] = t[j]
      BY <1>1, <2>1, <3>1, <3>2, StreamHead
    <3>4. \A j \in 1 .. Len(buf) : stream[j] = buf[j] BY <2>1
    <3> HIDE DEF stream, t, item
    <3>5. \A j \in 1 .. Len(t) : j <= Len(buf) => buf[j] = t[j] BY <2>1, <2>3, <3>3, <3>4
    <3>6. Len(t) <= Len(buf) => Parse(buf).what # "wait"
      <4> DEFINE p == Parse(buf)
      <4>1. Len(t) <= Len(buf) =>
              p.what = IF item = Ack THEN "skip" ELSE IF item = Interrupt THEN "interrupt" ELSE "packet"
        BY <2>1, <2>2, <2>5, <3>5, ParseIs DEF t
      <4> QED BY <4>1
    <3> QED BY <2>1, <2>3, <3>6
  <2> QED BY <2>4, <2>5
<1> QED BY <1>1 DEF Dialogue, Heard

\* Whatever is said now, the dialogue goes on with this rest of the buffer.
GoesOn(c, served, rest) ==
  \A e, told, at : /\ DOMAIN e = Fields
                   /\ \A f \in Fields \ {"out"} : e[f] = c[f]
                   /\ Heard(e, told, at)
                   /\ at \in {"parse", "cont"}
                   => Dialogue(e, served, told, at, rest)

\* A turn takes the next item the debugger wrote, and nothing else.
LEMMA DialogueTurns ==
  ASSUME NEW c, NEW served, NEW said, NEW buf, Dialogue(c, served, said, "parse", buf),
         NEW p, p = Parse(buf), p.what # "wait"
  PROVE  \E item \in Items :
           /\ p.what = IF item = Ack THEN "skip" ELSE IF item = Interrupt THEN "interrupt"
                       ELSE "packet"
           /\ p.what = "skip" => buf[1] = Ack
           /\ p.what = "packet" => p.cmd = item
           /\ Append(served, item) \in Seq(Items)
           /\ Len(Append(served, item)) <= Len(c.written)
           /\ \A i \in 1 .. Len(Append(served, item)) : Append(served, item)[i] = c.written[i]
           /\ GoesOn(c, Append(served, item), p.rest)
<1> DEFINE n == Len(served)
           stream == buf \o c.wire
           item == c.written[n + 1]
           t == TokensOf(item)
           more == Append(served, item)
<1>1. c.written \in Seq(Items) /\ served \in Seq(Items) /\ buf \in Seq(Tokens) /\ c.wire \in Seq(Tokens)
      /\ Stream(stream, c.written, n) /\ n <= Len(c.written)
  BY DEF Dialogue
<1>2. stream \in Seq(Tokens) /\ n \in Nat /\ Len(stream) = Len(buf) + Len(c.wire)
      /\ \A j \in 1 .. Len(buf) : stream[j] = buf[j]
  BY <1>1
<1>3. buf # <<>>
  <2>1. Parse(<<>>).what = "wait" BY DEF Parse, ParseWith
  <2> QED BY <2>1
<1>4. Len(buf) >= 1
  <2>1. Len(buf) \in Nat /\ Len(buf) # 0 BY <1>1, <1>3, EmptySeq
  <2> QED BY <2>1
<1>5. n < Len(c.written)
  <2>1. n = Len(c.written) => stream = <<>> BY <1>1, <1>2, StreamHead
  <2>2. stream # <<>>
    <3>1. Len(stream) >= 1 BY <1>1, <1>2, <1>4
    <3>2. Len(<<>>) = 0 OBVIOUS
    <3> HIDE DEF stream
    <3> QED BY <3>1, <3>2
  <2> QED BY <1>1, <1>2, <2>1, <2>2
<1>6. item \in Items
  <2>1. n + 1 \in 1 .. Len(c.written) BY <1>1, <1>5
  <2> QED BY <1>1, <2>1
<1>7. t \in Seq(Tokens) /\ Len(t) >= 1
  <2>1. Len(t) = (IF IsPacket(item) THEN 5 ELSE 1) /\ t \in Seq(Tokens) BY <1>6, TokensOfIs
  <2> QED BY <2>1
<1>8. /\ Len(t) <= Len(stream) /\ \A j \in 1 .. Len(t) : stream[j] = t[j]
      /\ Stream(SubSeq(stream, Len(t) + 1, Len(stream)), c.written, n + 1)
  BY <1>1, <1>2, <1>5, StreamHead
<1>9. \A j \in 1 .. Len(t) : j <= Len(buf) => buf[j] = t[j]
  <2> HIDE DEF stream, t, item
  <2> QED BY <1>1, <1>2, <1>7, <1>8
<1> HIDE DEF stream, item, t
<1>10. /\ Len(buf) < Len(t) => p.what = "wait"
       /\ Len(t) <= Len(buf) =>
            /\ p.rest = SubSeq(buf, Len(t) + 1, Len(buf))
            /\ p.what = IF item = Ack THEN "skip" ELSE IF item = Interrupt THEN "interrupt"
                        ELSE "packet"
            /\ IsPacket(item) => p.cmd = item
  BY <1>1, <1>3, <1>6, <1>9, ParseIs DEF t
<1>11. Len(t) <= Len(buf) BY <1>1, <1>7, <1>10
<1>12. p.what = "skip" => buf[1] = Ack
  <2>1. buf[1] = t[1] BY <1>4, <1>7, <1>9, <1>11
  <2>2. p.what = "skip" => item = Ack BY <1>10, <1>11
  <2>3. item = Ack => t[1] = Ack
    <3>1. ~IsPacket(Ack) BY DEF IsPacket
    <3>2. ~IsPacket(item) => t[1] = item BY <1>6, TokensOfIs DEF t
    <3> QED BY <3>1, <3>2
  <2> QED BY <2>1, <2>2, <2>3
<1>13. p.what = "packet" => p.cmd = item
  BY <1>10, <1>11 DEF IsPacket
<1>14. /\ more \in Seq(Items) /\ Len(more) = n + 1 /\ Len(more) <= Len(c.written)
       /\ \A i \in 1 .. Len(more) : more[i] = c.written[i]
  <2>1. more \in Seq(Items) /\ Len(more) = n + 1 /\ more[n + 1] = item
        /\ \A i \in 1 .. n : more[i] = served[i]
    BY <1>1, <1>6
  <2>2. \A i \in 1 .. n : served[i] = c.written[i] BY DEF Dialogue
  <2>3. \A i \in 1 .. n + 1 : i = n + 1 \/ i \in 1 .. n BY <1>2
  <2> HIDE DEF more
  <2>4. Len(more) <= Len(c.written) BY <1>1, <1>2, <1>5, <2>1
  <2> QED BY <2>1, <2>2, <2>3, <2>4 DEF item
<1>15. p.rest \o c.wire = SubSeq(stream, Len(t) + 1, Len(stream)) /\ p.rest \in Seq(Tokens)
  <2> DEFINE m == Len(t)
             r == SubSeq(buf, m + 1, Len(buf))
             u == SubSeq(stream, m + 1, Len(stream))
             w == c.wire
  <2>1. m \in Nat /\ m <= Len(buf) /\ Len(buf) \in Nat /\ Len(w) \in Nat /\ w \in Seq(Tokens)
    BY <1>1, <1>7, <1>11
  <2> HIDE DEF m, w
  <2>2. r \in Seq(Tokens) /\ Len(r) = Len(buf) - m /\ \A i \in 1 .. Len(buf) - m : r[i] = buf[m + i]
    BY <1>1, <2>1
  <2>3. u \in Seq(Tokens) /\ Len(u) = Len(stream) - m
        /\ \A i \in 1 .. Len(stream) - m : u[i] = stream[m + i]
    BY <1>2, <2>1 DEF w
  <2>4. \A j \in 1 .. Len(w) : stream[Len(buf) + j] = w[j]
    BY <1>1, <2>1 DEF stream, w
  <2> HIDE DEF r, u
  <2>5. r \o w \in Seq(Tokens) /\ Len(r \o w) = Len(r) + Len(w)
        /\ (\A i \in 1 .. Len(r) : (r \o w)[i] = r[i])
        /\ \A i \in 1 .. Len(w) : (r \o w)[Len(r) + i] = w[i]
    <3>1. r \in Seq(Tokens) /\ w \in Seq(Tokens) BY <2>1, <2>2
    <3> QED BY <3>1
  <2>6. Len(r \o w) = Len(u) BY <1>2, <2>1, <2>2, <2>3, <2>5 DEF w
  <2>7. ASSUME NEW i \in 1 .. Len(u) PROVE (r \o w)[i] = u[i]
    <3>1. Len(u) = Len(buf) + Len(w) - m BY <1>2, <2>1, <2>3 DEF w
    <3>2. u[i] = stream[m + i] BY <2>3
    <3>3. CASE i <= Len(r)
      <4>1. m + i \in 1 .. Len(buf) /\ i \in 1 .. Len(buf) - m BY <2>1, <2>2, <3>3
      <4> QED BY <1>2, <2>2, <2>5, <3>2, <3>3, <4>1
    <3>4. CASE ~(i <= Len(r))
      <4> DEFINE j == i - Len(r)
      <4>1. j \in 1 .. Len(w) /\ i = Len(r) + j /\ m + i = Len(buf) + j
        BY <2>1, <2>2, <3>1, <3>4
      <4> HIDE DEF j
      <4> QED BY <2>4, <2>5, <3>2, <4>1
    <3> QED BY <3>3, <3>4
  <2>8. r \o w = u BY <2>3, <2>5, <2>6, <2>7, SeqEqual
  <2> QED BY <1>10, <1>11, <2>2, <2>8 DEF m, r, u, w
<1>16. ASSUME NEW e, NEW told, NEW at, DOMAIN e = Fields,
              \A f \in Fields \ {"out"} : e[f] = c[f],
              Heard(e, told, at), at \in {"parse", "cont"}
       PROVE  Dialogue(e, more, told, at, p.rest)
  <2>1. e.state = c.state /\ e.closed = c.closed /\ e.written = c.written /\ e.wire = c.wire
    BY <1>16 DEF Fields
  <2>2. c.state = "taken" BY DEF Dialogue
  <2>3. Stream(p.rest \o e.wire, e.written, Len(more)) BY <1>8, <1>14, <1>15, <2>1
  <2> HIDE DEF more
  <2>4. at # "recv" /\ at \in {"recv", "parse", "cont"} BY <1>16
  <2>5. e.state = "taken" /\ e.closed \in BOOLEAN /\ e.written \in Seq(Items) /\ e.wire \in Seq(Tokens)
    BY <1>1, <2>1, <2>2 DEF Dialogue
  <2> QED BY <1>14, <1>15, <1>16, <2>1, <2>2, <2>3, <2>4, <2>5 DEF Dialogue
<1>17. GoesOn(c, more, p.rest) BY <1>16 DEF GoesOn
<1> QED BY <1>6, <1>10, <1>11, <1>12, <1>13, <1>14, <1>17

\* The halt answers the continue.
LEMMA DialogueHalts ==
  ASSUME NEW c, NEW served, NEW said, NEW buf, Dialogue(c, served, said, "cont", buf),
         NEW e, e = [c EXCEPT !.out = @ \o <<Halted>>]
  PROVE  Dialogue(e, served, said, "parse", buf)
<1>1. DOMAIN e = Fields /\ e.out = c.out \o <<Halted>>
      /\ e.state = c.state /\ e.closed = c.closed /\ e.written = c.written /\ e.wire = c.wire
  BY DEF Dialogue, Fields
<1>2. Heard(e, said, "parse")
  <2> SUFFICES ASSUME ~c.closed PROVE IsSeq(e.out) /\ said = e.out BY <1>1 DEF Heard
  <2>1. IsSeq(c.out) /\ said = Append(c.out, Halted) BY DEF Dialogue, Heard
  <2>2. Appends(c.out, Halted, Halted) BY <2>1, IsSeqs
  <2> QED BY <1>1, <2>1, <2>2 DEF Appends
<1> QED BY <1>1, <1>2 DEF Dialogue

\* A debugger closes its end.
LEMMA DialogueCloses ==
  ASSUME NEW c, NEW served, NEW said, NEW at, NEW buf, Dialogue(c, served, said, at, buf),
         NEW e, e = [c EXCEPT !.closed = TRUE]
  PROVE  Dialogue(e, served, said, at, buf)
<1>1. DOMAIN e = Fields /\ e.closed = TRUE
      /\ e.out = c.out /\ e.state = c.state /\ e.written = c.written /\ e.wire = c.wire
  BY DEF Dialogue, Fields
<1> QED BY <1>1 DEF Dialogue, Heard

\* A debugger connects.
LEMMA DialogueConnects ==
  ASSUME NEW c, NEW served, NEW said, NEW at, NEW buf, Dialogue(c, served, said, at, buf),
         c.state = "away",
         NEW e, e = [c EXCEPT !.state = "waiting"]
  PROVE  Dialogue(e, served, said, at, buf)
<1>1. DOMAIN e = Fields /\ e.state = "waiting"
      /\ e.out = c.out /\ e.closed = c.closed /\ e.written = c.written /\ e.wire = c.wire
  BY DEF Dialogue, Fields
<1> QED BY <1>1 DEF Dialogue, Heard

\* A debugger writes an item.
LEMMA DialogueWrites ==
  ASSUME NEW c, NEW served, NEW said, NEW at, NEW buf, Dialogue(c, served, said, at, buf),
         NEW item \in Items, c.state \in {"waiting", "taken"},
         NEW e, e = [c EXCEPT !.written = Append(@, item), !.wire = @ \o TokensOf(item)]
  PROVE  Dialogue(e, served, said, at, buf)
<1> DEFINE t == TokensOf(item)
           n == Len(served)
<1>1. DOMAIN e = Fields /\ e.written = Append(c.written, item) /\ e.wire = c.wire \o t
      /\ e.state = c.state /\ e.out = c.out /\ e.closed = c.closed
  BY DEF Dialogue, Fields
<1>2. c.written \in Seq(Items) /\ c.wire \in Seq(Tokens) /\ buf \in Seq(Tokens) /\ served \in Seq(Items)
      /\ n <= Len(c.written) /\ Stream(buf \o c.wire, c.written, n)
  BY DEF Dialogue
<1>3. t \in Seq(Tokens) /\ Len(t) >= 1
  <2>1. Len(t) = (IF IsPacket(item) THEN 5 ELSE 1) /\ t \in Seq(Tokens) BY TokensOfIs
  <2> QED BY <2>1
<1>4. e.written \in Seq(Items) /\ Len(e.written) = Len(c.written) + 1
      /\ e.written[Len(c.written) + 1] = item
      /\ \A i \in 1 .. Len(c.written) : e.written[i] = c.written[i]
  BY <1>1, <1>2
<1>5. buf \o e.wire = (buf \o c.wire) \o t /\ e.wire \in Seq(Tokens)
  <2> DEFINE w == c.wire
  <2>1. \A s1, s2, s3 \in Seq(Tokens) : (s1 \o s2) \o s3 = s1 \o (s2 \o s3) BY ConcatAssociative
  <2>2. w \in Seq(Tokens) /\ t \in Seq(Tokens) /\ buf \in Seq(Tokens) BY <1>2, <1>3
  <2> HIDE DEF w, t
  <2>3. (buf \o w) \o t = buf \o (w \o t) BY <2>1, <2>2
  <2>4. w \o t \in Seq(Tokens) BY <2>2
  <2> QED BY <1>1, <2>3, <2>4 DEF w
<1>6. Stream(buf \o e.wire, e.written, n)
  <2> DEFINE stream == buf \o c.wire
             items == c.written
  <2>1. stream \in Seq(Tokens) /\ items \in Seq(Items) /\ n \in Nat /\ Stream(stream, items, n)
    BY <1>2
  <2> HIDE DEF stream, items, n
  <2>2. Stream(stream \o TokensOf(item), Append(items, item), n) BY <2>1, StreamGrows
  <2> QED BY <1>1, <1>5, <2>2 DEF stream, items
<1>7. n <= Len(e.written) /\ \A i \in 1 .. n : served[i] = e.written[i]
  <2>1. n \in Nat /\ Len(c.written) \in Nat BY <1>2
  <2>2. \A i \in 1 .. n : i \in 1 .. Len(c.written) BY <1>2, <2>1
  <2>3. \A i \in 1 .. n : served[i] = c.written[i] BY DEF Dialogue
  <2> QED BY <1>2, <1>4, <2>1, <2>2, <2>3
<1>8. ASSUME at = "recv", n < Len(e.written) PROVE Len(buf) < Len(TokensOf(e.written[n + 1]))
  <2>1. n \in Nat /\ Len(c.written) \in Nat BY <1>2
  <2>2. CASE n < Len(c.written)
    <3>1. Len(buf) < Len(TokensOf(c.written[n + 1])) BY <1>8, <2>2 DEF Dialogue
    <3>2. n + 1 \in 1 .. Len(c.written) BY <2>1, <2>2
    <3> QED BY <1>4, <3>1, <3>2
  <2>3. CASE n = Len(c.written)
    <3>1. e.written[n + 1] = item BY <1>4, <2>3
    <3>2. Len(buf) = 0
      <4> DEFINE stream == buf \o c.wire
      <4>1. stream \in Seq(Tokens) /\ Len(stream) = Len(buf) + Len(c.wire)
            /\ Len(buf) \in Nat /\ Len(c.wire) \in Nat
        BY <1>2
      <4>2. stream = <<>> BY <1>2, <2>1, <2>3, <4>1, StreamHead
      <4>3. Len(<<>>) = 0 OBVIOUS
      <4> HIDE DEF stream
      <4> QED BY <4>1, <4>2, <4>3
    <3>3. TokensOf(e.written[n + 1]) = t BY <3>1
    <3> HIDE DEF t
    <3>4. 0 < Len(t) BY <1>3
    <3>5. Len(TokensOf(e.written[n + 1])) = Len(t) BY <3>3
    <3> QED BY <3>2, <3>4, <3>5
  <2> QED BY <1>2, <2>1, <2>2, <2>3
<1>9. Heard(e, said, at) BY <1>1 DEF Dialogue, Heard
<1>10. /\ e.state \in {"away", "waiting", "taken", "over"} /\ e.closed \in BOOLEAN
       /\ e.state = "taken" <=> at \in {"recv", "parse", "cont"}
       /\ e.state # "taken" => buf = <<>>
  BY <1>1 DEF Dialogue
<1> QED BY <1>1, <1>2, <1>4, <1>5, <1>6, <1>7, <1>8, <1>9, <1>10 DEF Dialogue

-----
(* The machine.                                                            *)
Dues == {"cpu", "bytes", "printed", "said", "served"}
IsDue(x) == DOMAIN x = Dues /\ DOMAIN x.said = Debuggers /\ DOMAIN x.served = Debuggers

\* The reply that Turn sends for a command.
RepliesTo(reply) == IF reply = NoReply THEN <<Ack>> ELSE <<Ack, reply>>

AlsoServed(y, x, r, d, cmd) ==
  /\ IsDue(y)
  /\ y.served = [x.served EXCEPT ![d] = Append(@, cmd)]
  /\ \A f \in Dues \ {"served"} : y[f] = r[f]

\* The due after one more item is asked.
LEMMA AskedIs ==
  ASSUME NEW x, IsDue(x), NEW d \in Debuggers, NEW cmd,
         NEW r, r = Replied(x, d, cmd), IsDue(r), r.served = x.served,
         NEW y, y = Asked(x, d, cmd)
  PROVE  AlsoServed(y, x, r, d, cmd)
<1>1. y = [r EXCEPT !.served[d] = Append(@, cmd)] BY DEF Asked
<1> QED BY <1>1 DEF IsDue, Dues, AlsoServed

RepliesAs(r, x, d, cmd) ==
  /\ IsDue(r) /\ r.served = x.served
  /\ cmd = Ack => r = x
  /\ cmd = Interrupt => /\ r.said = [x.said EXCEPT ![d] = @ \o <<Ack, Halted>>]
                        /\ r.cpu = x.cpu /\ r.bytes = x.bytes /\ r.printed = x.printed
  /\ IsPacket(cmd) /\ Kind(cmd) = "c" =>
       /\ r.said = [x.said EXCEPT ![d] = @ \o <<Ack, Halted>>]
       /\ r.cpu = [x.cpu EXCEPT ![2] = Break]
       /\ r.bytes = x.bytes /\ r.printed = x.printed

\* The due answers to an item, by its kind.
LEMMA RepliedIs ==
  ASSUME NEW x, IsDue(x), NEW d \in Debuggers, NEW cmd, NEW r, r = Replied(x, d, cmd)
  PROVE  RepliesAs(r, x, d, cmd)
<1> USE DEF RepliesAs
<1>1. Ack # Interrupt BY DEF Ack, Interrupt
<1>5. /\ \A k \in {"c", "k", "m", "M"} : Kind(Ack) # k /\ Kind(Interrupt) # k
      /\ ~IsPacket(Ack) /\ ~IsPacket(Interrupt)
  BY DEF Kind, Ack, Interrupt, IsPacket
<1>2. CASE cmd = Ack
  <2>1. r = x BY <1>1, <1>2, <1>5 DEF Replied
  <2> QED BY <1>1, <1>2, <1>5, <2>1
<1>3. CASE cmd = Interrupt
  <2>1. r = [x EXCEPT !.said = [x.said EXCEPT ![d] = @ \o <<Ack, <<"S05">>>>]]
    BY <1>1, <1>3, <1>5 DEF Replied
  <2> QED BY <1>1, <1>3, <1>5, <2>1 DEF IsDue, Dues, Halted
<1>4. CASE IsPacket(cmd)
  <2>1. cmd # Ack /\ cmd # Interrupt BY <1>4 DEF IsPacket
  <2>2. CASE Kind(cmd) = "c"
    <3>1. r = [x EXCEPT !.said = [x.said EXCEPT ![d] = @ \o <<Ack, <<"S05">>>>], !.cpu[2] = Break]
      BY <2>1, <2>2 DEF Replied
    <3> QED BY <2>1, <2>2, <3>1 DEF IsDue, Dues, Halted
  <2>3. CASE Kind(cmd) # "c" BY <2>1, <2>3 DEF Replied, IsDue, Dues
  <2> QED BY <2>2, <2>3
<1> QED BY <1>2, <1>3, <1>4 DEF IsPacket

\* Commands of these kinds leave memory alone and are answered.
LEMMA DispatchIs ==
  ASSUME NEW m, NEW s, NEW c, m = [cpu |-> c, soc |-> s], NEW cmd, NEW done, done = Dispatch(m, cmd)
  PROVE  /\ Kind(cmd) = "k" => done.machine = m /\ done.reply = NoReply
         /\ Kind(cmd) = "m" => done.machine = m /\ done.reply = <<"hex", ReadMem(s, cmd[2], cmd[3])>>
         /\ Kind(cmd) = "M" => /\ done.machine = [cpu |-> c, soc |-> WriteMem(s, cmd[2], cmd[3])]
                               /\ done.reply = <<"OK">>
         /\ Kind(cmd) \notin {"k", "m", "M"} => done.machine.soc = s /\ done.reply # NoReply
<1> DEFINE same(reply) == [machine |-> m, reply |-> reply]
           registers(r, reply) == [machine |-> [cpu |-> r, soc |-> s], reply |-> reply]
           k == Kind(cmd)
<1>1. \A r : [m EXCEPT !.cpu = r] = [cpu |-> r, soc |-> s] OBVIOUS
<1>2. /\ \A v : <<"hex", v>> # NoReply
      /\ <<"S05">> # NoReply /\ <<"OK">> # NoReply /\ <<"E01">> # NoReply
      /\ <<"QC1">> # NoReply /\ <<"">> # NoReply
  <2>1. /\ NoReply[1] = "none"
        /\ <<"S05">>[1] # "none" /\ <<"OK">>[1] # "none" /\ <<"E01">>[1] # "none"
        /\ <<"QC1">>[1] # "none" /\ <<"">>[1] # "none"
        /\ \A v : <<"hex", v>>[1] # "none"
    BY DEF NoReply
  <2> QED BY <2>1
<1>3. CASE k = "m"
  <2>1. done = same(<<"hex", ReadMem(s, cmd[2], cmd[3])>>) BY <1>3 DEF Dispatch
  <2> QED BY <1>3, <2>1
<1>4. CASE k = "M"
  <2>1. done = [machine |-> [m EXCEPT !.soc = WriteMem(s, cmd[2], cmd[3])], reply |-> <<"OK">>]
    BY <1>4 DEF Dispatch
  <2>2. done.reply = <<"OK">> /\ done.machine = [m EXCEPT !.soc = WriteMem(s, cmd[2], cmd[3])]
    BY <2>1
  <2>3. [m EXCEPT !.soc = WriteMem(s, cmd[2], cmd[3])] = [cpu |-> c, soc |-> WriteMem(s, cmd[2], cmd[3])]
    OBVIOUS
  <2> QED BY <1>4, <2>2, <2>3
<1>5. CASE k = "k"
  <2>1. done = same(NoReply) BY <1>5 DEF Dispatch
  <2> QED BY <1>5, <2>1
<1>6. CASE k \notin {"k", "m", "M"}
  <2> DEFINE Good == done.machine.soc = s /\ done.reply # NoReply
  <2> SUFFICES Good BY <1>6
  <2>1. CASE k = "?"
    <3>1. done = same(<<"S05">>) BY <2>1 DEF Dispatch
    <3>2. done.machine.soc = s /\ done.reply = <<"S05">> BY <3>1
    <3> QED BY <1>2, <3>2
  <2>2. CASE k = "g"
    <3>1. done = same(<<"hex", m.cpu>>) BY <2>2 DEF Dispatch
    <3>2. done.machine.soc = s /\ done.reply = <<"hex", m.cpu>> BY <3>1
    <3> QED BY <1>2, <3>2
  <2>3. CASE k = "G"
    <3>1. done = registers(cmd[2], <<"OK">>) BY <1>1, <2>3 DEF Dispatch
    <3>2. done.machine.soc = s /\ done.reply = <<"OK">> BY <3>1
    <3> QED BY <1>2, <3>2
  <2>4. CASE k = "p"
    <3>1. done = same(IF cmd[2] \in DOMAIN m.cpu THEN <<"hex", <<m.cpu[cmd[2]]>>>> ELSE <<"E01">>)
      BY <2>4 DEF Dispatch
    <3>2. done.machine.soc = s /\ done.reply = IF cmd[2] \in DOMAIN m.cpu
                                          THEN <<"hex", <<m.cpu[cmd[2]]>>>> ELSE <<"E01">>
      BY <3>1
    <3> QED BY <1>2, <3>2
  <2>5. CASE k = "P" /\ cmd[2] \in DOMAIN m.cpu
    <3> DEFINE r == [m.cpu EXCEPT ![cmd[2]] = cmd[3]]
    <3>1. done = [machine |-> [m EXCEPT !.cpu = r], reply |-> <<"OK">>] BY <2>5 DEF Dispatch
    <3> HIDE DEF r
    <3>2. done.machine.soc = s /\ done.reply = <<"OK">> BY <1>1, <3>1
    <3> QED BY <1>2, <3>2
  <2>6. CASE k = "P" /\ cmd[2] \notin DOMAIN m.cpu
    <3>1. done = same(<<"E01">>) BY <2>6 DEF Dispatch
    <3>2. done.machine.soc = s /\ done.reply = <<"E01">> BY <3>1
    <3> QED BY <1>2, <3>2
  <2>7. CASE k = "s"
    <3>1. done = registers(Steps(m.cpu), <<"S05">>) BY <1>1, <2>7 DEF Dispatch
    <3>2. done.machine.soc = s /\ done.reply = <<"S05">> BY <3>1
    <3> QED BY <1>2, <3>2
  <2>8. CASE k = "q"
    <3>1. done = same(<<"QC1">>) BY <2>8 DEF Dispatch
    <3>2. done.machine.soc = s /\ done.reply = <<"QC1">> BY <3>1
    <3> QED BY <1>2, <3>2
  <2>9. CASE k \notin {"?", "g", "G", "m", "M", "p", "P", "s", "k", "q"}
    <3> DEFINE empty == <<"">>
    <3>1. done = same(empty) BY <2>9 DEF Dispatch
    <3>2. empty # NoReply BY <1>2
    <3> HIDE DEF empty
    <3>3. done.machine.soc = s /\ done.reply = empty BY <3>1
    <3> QED BY <3>2, <3>3
  <2> HIDE DEF k, Good
  <2>10. Good BY <1>6, <2>1, <2>2, <2>3, <2>4, <2>5, <2>6, <2>7, <2>8, <2>9
  <2> QED BY <2>10
<1> QED BY <1>3, <1>4, <1>5, <1>6

DispatchedAs(r, x, d, done) ==
  /\ r.said = [x.said EXCEPT ![d] = @ \o RepliesTo(done.reply)]
  /\ r.cpu = done.machine.cpu
  /\ Flat(done.machine.soc, r.bytes)
  /\ done.machine.soc.uart = r.printed

\* A packet: what is due is what _dispatch does to a machine that is flat.
LEMMA RepliedIsDispatched ==
  ASSUME NEW x, IsDue(x), NEW d \in Debuggers, NEW cmd \in Items, IsPacket(cmd), Kind(cmd) # "c",
         Flat(soc, x.bytes), soc.uart = x.printed,
         NEW done, done = Dispatch([cpu |-> x.cpu, soc |-> soc], cmd),
         NEW r, r = Replied(x, d, cmd)
  PROVE  DispatchedAs(r, x, d, done)
<1> USE DEF DispatchedAs
<1> DEFINE m == [cpu |-> x.cpu, soc |-> soc]
<1>1. IsItem(cmd) /\ cmd # Ack /\ cmd # Interrupt BY ItemsAre DEF IsPacket
<1>2. /\ Kind(cmd) = "k" => done.machine = m /\ done.reply = NoReply
      /\ Kind(cmd) = "m" => done.machine = m /\ done.reply = <<"hex", ReadMem(soc, cmd[2], cmd[3])>>
      /\ Kind(cmd) = "M" => /\ done.machine = [cpu |-> x.cpu, soc |-> WriteMem(soc, cmd[2], cmd[3])]
                            /\ done.reply = <<"OK">>
      /\ Kind(cmd) \notin {"k", "m", "M"} => done.machine.soc = soc /\ done.reply # NoReply
  BY DispatchIs
<1>3. m.cpu = x.cpu /\ m.soc = soc OBVIOUS
<1> HIDE DEF m
<1>4. CASE Kind(cmd) = "k"
  <2>1. r = [x EXCEPT !.said = [x.said EXCEPT ![d] = @ \o <<Ack>>]] BY <1>1, <1>4 DEF Replied
  <2>2. r.said = [x.said EXCEPT ![d] = @ \o <<Ack>>] /\ r.cpu = x.cpu /\ r.bytes = x.bytes
        /\ r.printed = x.printed
    BY <2>1 DEF IsDue, Dues
  <2> QED BY <1>2, <1>3, <1>4, <2>2 DEF RepliesTo
<1>5. CASE Kind(cmd) = "m"
  <2> DEFINE at(a) == IF a \in AddressesKept THEN x.bytes[a] ELSE 0
             v == [i \in 1 .. cmd[3] |-> at(cmd[2] + i - 1)]
  <2>1. cmd[2] \in Nat /\ cmd[3] \in Nat BY <1>1, <1>5 DEF IsItem, Ack, Interrupt, Kind
  <2>2. ReadMem(soc, cmd[2], cmd[3]) = v
    <3> DEFINE b == x.bytes
               addr == cmd[2]
               n == cmd[3]
    <3>1. Flat(soc, b) /\ addr \in Nat /\ n \in Nat BY <2>1
    <3> HIDE DEF b, addr, n
    <3>2. ReadMem(soc, addr, n) = FlatBytes(b, addr, n) BY <3>1, ReadsAreFlat
    <3> QED BY <3>2 DEF b, addr, n, FlatBytes
  <2> HIDE DEF v
  <2>3. r = [x EXCEPT !.said = [x.said EXCEPT ![d] = @ \o <<Ack, <<"hex", v>>>>]]
    BY <1>1, <1>5 DEF Replied, v
  <2>4. r.said = [x.said EXCEPT ![d] = @ \o <<Ack, <<"hex", v>>>>] /\ r.cpu = x.cpu
        /\ r.bytes = x.bytes /\ r.printed = x.printed
    BY <2>3 DEF IsDue, Dues
  <2>5. <<"hex", v>> # NoReply
    <3>1. <<"hex", v>>[1] # NoReply[1] BY DEF NoReply
    <3> QED BY <3>1
  <2>6. RepliesTo(done.reply) = <<Ack, <<"hex", v>>>> BY <1>2, <1>5, <2>2, <2>5 DEF RepliesTo
  <2> QED BY <1>2, <1>3, <1>5, <2>4, <2>6
<1>6. CASE Kind(cmd) = "M"
  <2> DEFINE w == WriteMem(soc, cmd[2], cmd[3])
             b == Stored(x.bytes, cmd[2], cmd[3])
             u == x.printed \o Printed(cmd[2], cmd[3])
  <2>1. cmd[2] \in Nat /\ cmd[3] \in Seq(Bytes)
    BY <1>1, <1>6 DEF IsItem, Ack, Interrupt, Kind, Bytes
  <2>2. Flat(w, b) /\ w.uart = u
    <3> DEFINE old == x.bytes
               addr == cmd[2]
               data == cmd[3]
    <3>1. Flat(soc, old) /\ addr \in Nat /\ data \in Seq(Bytes) BY <2>1
    <3> HIDE DEF old, addr, data
    <3>2. /\ Flat(WriteMem(soc, addr, data), Stored(old, addr, data))
          /\ WriteMem(soc, addr, data).uart = soc.uart \o Printed(addr, data)
      BY <3>1, WritesAreFlat
    <3> QED BY <3>2 DEF old, addr, data
  <2> HIDE DEF w, b, u
  <2>3. r = [x EXCEPT !.said = [x.said EXCEPT ![d] = @ \o <<Ack, <<"OK">>>>],
                      !.bytes = b, !.printed = u]
    BY <1>1, <1>6 DEF Replied, b, u
  <2>4. r.said = [x.said EXCEPT ![d] = @ \o <<Ack, <<"OK">>>>] /\ r.cpu = x.cpu
        /\ r.bytes = b /\ r.printed = u
    BY <2>3 DEF IsDue, Dues
  <2>5. RepliesTo(done.reply) = <<Ack, <<"OK">>>>
    <3>1. <<"OK">> # NoReply
      <4>1. <<"OK">>[1] # NoReply[1] BY DEF NoReply
      <4> QED BY <4>1
    <3> QED BY <1>2, <1>6, <3>1 DEF RepliesTo
  <2>6. done.machine.cpu = x.cpu /\ done.machine.soc = w BY <1>2, <1>6 DEF w
  <2> QED BY <2>2, <2>4, <2>5, <2>6
<1>7. CASE Kind(cmd) \notin {"k", "m", "M"}
  <2>1. r = [x EXCEPT !.said = [x.said EXCEPT ![d] = @ \o <<Ack, done.reply>>],
                      !.cpu = done.machine.cpu]
    BY <1>1, <1>7 DEF Replied
  <2>2. r.said = [x.said EXCEPT ![d] = @ \o <<Ack, done.reply>>] /\ r.cpu = done.machine.cpu
        /\ r.bytes = x.bytes /\ r.printed = x.printed
    BY <2>1 DEF IsDue, Dues
  <2> QED BY <1>2, <1>7, <2>2 DEF RepliesTo
<1> QED BY <1>4, <1>5, <1>6, <1>7

-----
(* The invariant.                                                          *)
AtOf(s, d) == IF s.who = d THEN s.at ELSE "accept"
BufOf(s, d) == IF s.who = d THEN s.buf ELSE <<>>

Talk(d) == Dialogue(conn[d], due.served[d], due.said[d], AtOf(server, d), BufOf(server, d))

Thread ==
  /\ server \in [at : {"accept", "recv", "parse", "cont", "ended"},
                 who : Debuggers \cup {NoOne}, buf : Seq(Tokens)]
  /\ server.who = NoOne <=> server.at \in {"accept", "ended"}
  /\ server.at = "ended" => stopping \/ \E d \in Debuggers : conn[d].closed

Machine ==
  /\ Flat(soc, due.bytes)
  /\ soc.uart = due.printed
  /\ due.cpu = IF server.at = "cont" THEN [core EXCEPT ![2] = Break] ELSE core

Shaped == DOMAIN conn = Debuggers /\ IsDue(due)

GdbInv == Thread /\ Machine /\ Shaped /\ \A d \in Debuggers : Talk(d)

\* No debugger is the absent one.
LEMMA NoDebugger == NoOne \notin Debuggers
BY GdbAssumption DEF GdbAssumption, NoOne

Untouched(d) ==
  /\ conn'[d] = conn[d]
  /\ due'.served[d] = due.served[d] /\ due'.said[d] = due.said[d]
  /\ AtOf(server', d) = AtOf(server, d) /\ BufOf(server', d) = BufOf(server, d)

\* A step that leaves a debugger alone leaves its dialogue alone.
LEMMA UntouchedTalk ==
  ASSUME NEW d \in Debuggers, Talk(d), Untouched(d)
  PROVE  Talk(d)'
BY DEF Talk, Untouched

\* Only d is concerned: the thread serves nobody else before and after.
LEMMA OnlyTalk ==
  ASSUME \A e \in Debuggers : Talk(e), NEW d \in Debuggers,
         server' = server \/ (server.who \in {d, NoOne} /\ server'.who \in {d, NoOne}),
         \A e \in Debuggers \ {d} : conn'[e] = conn[e],
         \A e \in Debuggers \ {d} : due'.served[e] = due.served[e],
         \A e \in Debuggers \ {d} : due'.said[e] = due.said[e],
         Talk(d)'
  PROVE  \A e \in Debuggers : Talk(e)'
<1> SUFFICES ASSUME NEW e \in Debuggers, e # d PROVE Talk(e)' OBVIOUS
<1>1. AtOf(server', e) = AtOf(server, e) /\ BufOf(server', e) = BufOf(server, e)
  BY NoDebugger DEF AtOf, BufOf
<1>2. Untouched(e) BY <1>1 DEF Untouched
<1> QED BY <1>2, UntouchedTalk

\* The invariant holds at first.
LEMMA GdbInitInv == GdbInit => GdbInv
<1> SUFFICES ASSUME GdbInit PROVE GdbInv OBVIOUS
<1>1. server = [at |-> "accept", who |-> NoOne, buf |-> <<>>] BY DEF GdbInit, Idle
<1>2. Thread BY <1>1 DEF Thread
<1>3. due = [cpu |-> core, bytes |-> [a \in AddressesKept |-> FirmwareAt(a)], printed |-> <<>>,
            said |-> [d \in Debuggers |-> <<>>], served |-> [d \in Debuggers |-> <<>>]]
      /\ soc = [mem |-> LoadElf, uart |-> <<>>]
  BY DEF GdbInit
<1>4. Machine BY <1>1, <1>3, FlatAtFirst DEF Machine
<1>5. Shaped BY <1>3 DEF Shaped, IsDue, Dues, GdbInit
<1>6. ASSUME NEW d \in Debuggers PROVE Talk(d)
  <2>1. conn[d] = [state |-> "away", closed |-> FALSE, written |-> <<>>, wire |-> <<>>, out |-> <<>>]
    BY DEF GdbInit
  <2>2. due.served[d] = <<>> /\ due.said[d] = <<>> BY <1>3
  <2>3. AtOf(server, d) = "accept" /\ BufOf(server, d) = <<>>
    BY <1>1, NoDebugger DEF AtOf, BufOf
  <2>4. IsSeq(<<>>) BY DEF IsSeq
  <2>5. <<>> \o <<>> = <<>> /\ Len(<<>>) = 0 OBVIOUS
  <2> DEFINE c == conn[d]
  <2>6. DOMAIN c = Fields /\ c.state = "away" /\ c.closed = FALSE /\ c.written = <<>>
        /\ c.wire = <<>> /\ c.out = <<>>
    BY <2>1 DEF Fields
  <2> HIDE DEF c
  <2> DEFINE none == <<>>
  <2>8. none \in Seq(Items) /\ none \in Seq(Tokens) /\ Len(none) = 0 /\ none \o none = none
        /\ IsSeq(none) /\ Stream(none, none, 0)
    BY <2>4, StreamAtFirst
  <2>9. c.written = none /\ c.wire = none /\ c.out = none BY <2>6
  <2> HIDE DEF none
  <2>10. Heard(c, none, "accept") BY <2>8, <2>9 DEF Heard
  <2>12. /\ c.state \in {"away", "waiting", "taken", "over"} /\ c.closed \in BOOLEAN
         /\ c.state = "taken" <=> "accept" \in {"recv", "parse", "cont"}
    BY <2>6
  <2>11. /\ c.written \in Seq(Items) /\ c.wire \in Seq(Tokens)
         /\ Len(none) <= Len(c.written) /\ \A i \in 1 .. Len(none) : none[i] = c.written[i]
         /\ Stream(none \o c.wire, c.written, Len(none))
    BY <2>8, <2>9
  <2>7. Dialogue(c, none, none, "accept", none)
    BY <2>6, <2>8, <2>10, <2>11, <2>12 DEF Dialogue
  <2> QED BY <2>2, <2>3, <2>7 DEF Talk, c, none
<1> QED BY <1>2, <1>4, <1>5, <1>6 DEF GdbInv

\* The invariant says that every asking is answered.
LEMMA GdbInvAnswers == GdbInv => AnswersInOrder
<1> SUFFICES ASSUME GdbInv PROVE AnswersInOrder OBVIOUS
<1>1. ASSUME NEW d \in Debuggers
      PROVE  LET runs == server.at = "cont" /\ server.who = d IN
             /\ IsPrefix(due.served[d], conn[d].written)
             /\ ~conn[d].closed => conn[d].out = IF runs THEN Front(due.said[d]) ELSE due.said[d]
             /\ server.at = "recv" /\ server.who = d /\ conn[d].wire = <<>>
                  => due.served[d] = conn[d].written
  <2> DEFINE c == conn[d]
             v == due.served[d]
             w == due.said[d]
             at == AtOf(server, d)
             buf == BufOf(server, d)
  <2>1. Dialogue(c, v, w, at, buf) BY DEF GdbInv, Talk
  <2>2. at = "cont" <=> server.at = "cont" /\ server.who = d BY DEF AtOf
  <2>3. at = "recv" <=> server.at = "recv" /\ server.who = d BY DEF AtOf
  <2> HIDE DEF c, v, w, at, buf
  <2>4. c.written \in Seq(Items) /\ c.wire \in Seq(Tokens) /\ v \in Seq(Items) /\ buf \in Seq(Tokens)
        /\ Len(v) <= Len(c.written) /\ \A i \in 1 .. Len(v) : v[i] = c.written[i]
    BY <2>1 DEF Dialogue
  <2>5. IsPrefix(v, c.written)
    <3>1. SubSeq(v, 1, Len(v)) = v BY <2>4, SubSeqFull
    <3> DEFINE s == SubSeq(c.written, 1, Len(v))
    <3>2. s \in Seq(Items) /\ Len(s) = Len(v) /\ \A i \in 1 .. Len(v) : s[i] = c.written[i] BY <2>4
    <3> HIDE DEF s
    <3>3. s = v BY <2>4, <3>2, SeqEqual
    <3> QED BY <2>4, <3>1, <3>3 DEF IsPrefix, s
  <2>6. ~c.closed => c.out = IF at = "cont" THEN Front(w) ELSE w
    <3> SUFFICES ASSUME ~c.closed PROVE c.out = IF at = "cont" THEN Front(w) ELSE w OBVIOUS
    <3>1. IsSeq(c.out) /\ w = IF at = "cont" THEN Append(c.out, Halted) ELSE c.out
      BY <2>1 DEF Dialogue, Heard
    <3>2. Appends(c.out, Halted, Halted) BY <3>1, IsSeqs
    <3>3. Front(Append(c.out, Halted)) = c.out BY <3>2 DEF Appends
    <3> QED BY <3>1, <3>3
  <2>7. ASSUME at = "recv", c.wire = <<>> PROVE v = c.written
    <3>1. Stream(buf \o c.wire, c.written, Len(v)) BY <2>1, <2>7 DEF Dialogue
    <3>2. buf \o c.wire = buf BY <2>4, <2>7, ConcatEmptySeq
    <3>3. Len(v) \in Nat BY <2>4
    <3>4. Len(v) < Len(c.written) => Len(TokensOf(c.written[Len(v) + 1])) <= Len(buf)
      BY <2>4, <3>1, <3>2, <3>3, StreamHead
    <3>5. Len(v) < Len(c.written) => Len(buf) < Len(TokensOf(c.written[Len(v) + 1]))
      BY <2>1, <2>7 DEF Dialogue
    <3>6. Len(v) < Len(c.written) => Len(TokensOf(c.written[Len(v) + 1])) \in Nat
      <4> SUFFICES ASSUME Len(v) < Len(c.written)
                   PROVE  Len(TokensOf(c.written[Len(v) + 1])) \in Nat
        OBVIOUS
      <4>1. Len(v) + 1 \in 1 .. Len(c.written) BY <2>4
      <4>2. c.written[Len(v) + 1] \in Items BY <2>4, <4>1
      <4>3. TokensOf(c.written[Len(v) + 1]) \in Seq(Tokens) BY <4>2, TokensOfIs
      <4> QED BY <4>3
    <3>7. Len(v) = Len(c.written)
      <4>1. Len(buf) \in Nat /\ Len(c.written) \in Nat BY <2>4
      <4> QED BY <2>4, <3>3, <3>4, <3>5, <3>6, <4>1
    <3> QED BY <2>4, <3>7, SeqEqual
  <2> QED BY <2>2, <2>3, <2>5, <2>6, <2>7 DEF c, v, w
<1>2. soc.uart = due.printed BY DEF GdbInv, Machine
<1>3. server.at = "ended" => stopping \/ \E d \in Debuggers : conn[d].closed BY DEF GdbInv, Thread
<1> QED BY <1>1, <1>2, <1>3 DEF AnswersInOrder

(* The steps.                                                              *)
LEMMA AcceptStep == ASSUME GdbInv, NEW d \in Debuggers, Accept(d) PROVE GdbInv'
<1> DEFINE c == conn[d]
           s == [at |-> "recv", who |-> d, buf |-> <<>>]
           e == [c EXCEPT !.state = "taken"]
<1>1. server.at = "accept" /\ c.state = "waiting" /\ server' = s
      /\ conn' = [conn EXCEPT ![d] = e]
      /\ stopping' = stopping /\ soc' = soc /\ core' = core /\ due' = due
  BY DEF Accept
<1>2. server.who = NoOne /\ DOMAIN conn = Debuggers BY <1>1 DEF GdbInv, Thread, Shaped
<1>3. AtOf(server, d) = "accept" /\ BufOf(server, d) = <<>>
      /\ AtOf(s, d) = "recv" /\ BufOf(s, d) = <<>>
  BY <1>2, NoDebugger DEF AtOf, BufOf
<1>4. Dialogue(c, due.served[d], due.said[d], "accept", <<>>) BY <1>3 DEF GdbInv, Talk
<1> HIDE DEF c
<1>5. Dialogue(e, due.served[d], due.said[d], "recv", <<>>) BY <1>1, <1>4, DialogueAccepts
<1> HIDE DEF e
<1>6. conn'[d] = e /\ \A x \in Debuggers \ {d} : conn'[x] = conn[x] BY <1>1, <1>2
<1>7. Talk(d)' BY <1>1, <1>3, <1>5, <1>6 DEF Talk
<1>8. \A x \in Debuggers : Talk(x)' BY <1>1, <1>2, <1>6, <1>7, OnlyTalk DEF GdbInv
<1>9. Thread'
  <2>1. s.at = "recv" /\ s.who = d /\ s.buf = <<>> BY DEF s
  <2>2. server' \in [at : {"accept", "recv", "parse", "cont", "ended"},
                     who : Debuggers \cup {NoOne}, buf : Seq(Tokens)]
    BY <1>1
  <2>3. server'.at = "recv" /\ server'.who = d BY <1>1, <2>1
  <2> HIDE DEF s
  <2> QED BY <2>2, <2>3, NoDebugger DEF Thread
<1>10. Machine' BY <1>1 DEF GdbInv, Machine
<1>11. Shaped' BY <1>1 DEF GdbInv, Shaped
<1> QED BY <1>8, <1>9, <1>10, <1>11 DEF GdbInv

\* The server is told to stop between two debuggers.
LEMMA ServeEndsStep == ASSUME GdbInv, ServeEnds PROVE GdbInv'
<1>1. server.at = "accept" /\ stopping /\ server' = Ended
      /\ stopping' = stopping /\ conn' = conn /\ soc' = soc /\ core' = core /\ due' = due
  BY DEF ServeEnds
<1>2. Ended = [at |-> "ended", who |-> NoOne, buf |-> <<>>] BY DEF Ended, Idle
<1>3. server'.at = "ended" /\ server'.who = NoOne BY <1>1, <1>2
<1>4. server.who = NoOne BY <1>1 DEF GdbInv, Thread
<1>5. ASSUME NEW d \in Debuggers PROVE Talk(d)'
  <2>1. AtOf(server', d) = AtOf(server, d) /\ BufOf(server', d) = BufOf(server, d)
    BY <1>3, <1>4, NoDebugger DEF AtOf, BufOf
  <2>2. Untouched(d) BY <1>1, <2>1 DEF Untouched
  <2> QED BY <2>2, UntouchedTalk DEF GdbInv
<1>6. Thread' BY <1>1, <1>2, <1>3 DEF Thread
<1>7. Machine' BY <1>1, <1>3 DEF GdbInv, Machine
<1>8. Shaped' BY <1>1 DEF GdbInv, Shaped
<1> QED BY <1>5, <1>6, <1>7, <1>8 DEF GdbInv

\* The thread serves d.
LEMMA Serves ==
  ASSUME GdbInv, server.at \in {"recv", "parse", "cont"}
  PROVE  \E d \in Debuggers :
           /\ d = server.who /\ d # NoOne
           /\ Dialogue(conn[d], due.served[d], due.said[d], server.at, server.buf)
<1> DEFINE d == server.who
<1>1. server \in [at : {"accept", "recv", "parse", "cont", "ended"},
                  who : Debuggers \cup {NoOne}, buf : Seq(Tokens)]
      /\ (server.who = NoOne <=> server.at \in {"accept", "ended"})
  BY DEF GdbInv, Thread
<1>2. d \in Debuggers /\ d # NoOne BY <1>1
<1>3. AtOf(server, d) = server.at /\ BufOf(server, d) = server.buf BY DEF AtOf, BufOf
<1>4. Dialogue(conn[d], due.served[d], due.said[d], server.at, server.buf)
  BY <1>2, <1>3 DEF GdbInv, Talk
<1> QED BY <1>2, <1>4

\* The server with one field set.
LEMMA ServerSet ==
  ASSUME GdbInv, NEW a, NEW b
  PROVE  /\ [server EXCEPT !.at = a, !.buf = b] = [at |-> a, who |-> server.who, buf |-> b]
         /\ [server EXCEPT !.at = a] = [at |-> a, who |-> server.who, buf |-> server.buf]
         /\ [server EXCEPT !.buf = b] = [at |-> server.at, who |-> server.who, buf |-> b]
<1> DEFINE A == {"accept", "recv", "parse", "cont", "ended"}
           W == Debuggers \cup {NoOne}
           B == Seq(Tokens)
<1>1. server \in [at : A, who : W, buf : B] BY DEF GdbInv, Thread
<1> HIDE DEF A, W, B
<1>2. [server EXCEPT !.at = a, !.buf = b] = [at |-> a, who |-> server.who, buf |-> b]
  <2> DEFINE D == {"at", "who", "buf"}
             q == [server EXCEPT !.at = a, !.buf = b]
             r == [at |-> a, who |-> server.who, buf |-> b]
  <2>1. DOMAIN server = D BY <1>1
  <2>2. q = [f \in D |-> q[f]] BY <2>1
  <2>3. r = [f \in D |-> r[f]] OBVIOUS
  <2>4. q.at = a /\ q.who = server.who /\ q.buf = b BY <2>1
  <2>5. r.at = a /\ r.who = server.who /\ r.buf = b OBVIOUS
  <2> HIDE DEF q, r
  <2>6. \A f \in D : q[f] = r[f] BY <2>4, <2>5
  <2> HIDE DEF D
  <2>7. q = r BY <2>2, <2>3, <2>6
  <2> QED BY <2>7 DEF q, r
<1>3. [server EXCEPT !.at = a] = [at |-> a, who |-> server.who, buf |-> server.buf] BY <1>1
<1>4. [server EXCEPT !.buf = b] = [at |-> server.at, who |-> server.who, buf |-> b] BY <1>1
<1> QED BY <1>2, <1>3, <1>4

\* What a step of the thread that serves d has to establish.
LEMMA ServingStep ==
  ASSUME GdbInv, NEW d \in Debuggers, d = server.who, d # NoOne,
         NEW s, server' = s, DOMAIN s = {"at", "who", "buf"}, s = [at |-> s.at, who |-> s.who, buf |-> s.buf],
         \/ s.who = d /\ s.at \in {"recv", "parse", "cont"}
         \/ s.who = NoOne /\ s.at = "accept" /\ s.buf = <<>>
         \/ s.who = NoOne /\ s.at = "ended" /\ s.buf = <<>> /\ (stopping \/ conn[d].closed),
         stopping' = stopping,
         NEW e, conn' = [conn EXCEPT ![d] = e] \/ (conn' = conn /\ e = conn[d]),
         conn[d].closed => e.closed,
         IsDue(due'), \A x \in Debuggers \ {d} : due'.served[x] = due.served[x]
                                                 /\ due'.said[x] = due.said[x],
         Dialogue(e, due'.served[d], due'.said[d], IF s.who = d THEN s.at ELSE "accept", s.buf),
         Machine'
  PROVE  GdbInv'
<1>1. DOMAIN conn = Debuggers BY DEF GdbInv, Shaped
<1>2. conn'[d] = e /\ (\A x \in Debuggers \ {d} : conn'[x] = conn[x]) /\ DOMAIN conn' = Debuggers
  BY <1>1
<1>3. s.buf \in Seq(Tokens) BY DEF Dialogue
<1>4. AtOf(server', d) = IF s.who = d THEN s.at ELSE "accept" BY DEF AtOf
<1>5. BufOf(server', d) = s.buf BY DEF BufOf
<1>6. Talk(d)' BY <1>2, <1>4, <1>5 DEF Talk
<1>7. \A x \in Debuggers : Talk(x)' BY <1>2, <1>6, OnlyTalk DEF GdbInv
<1>8. Thread'
  <2>1. s \in [at : {"accept", "recv", "parse", "cont", "ended"},
               who : Debuggers \cup {NoOne}, buf : Seq(Tokens)]
    BY <1>3
  <2>2. s.who = NoOne <=> s.at \in {"accept", "ended"} OBVIOUS
  <2>3. s.at = "ended" => stopping' \/ \E x \in Debuggers : conn'[x].closed BY <1>2
  <2> QED BY <2>1, <2>2, <2>3 DEF Thread
<1>9. Shaped' BY <1>2 DEF Shaped
<1> QED BY <1>7, <1>8, <1>9 DEF GdbInv

\* recv.
LEMMA ReceiveStep == ASSUME GdbInv, NEW n, Receive(n) PROVE GdbInv'
<1>1. server.at = "recv" BY DEF Receive
<1>2. PICK d \in Debuggers :
        /\ d = server.who /\ d # NoOne
        /\ Dialogue(conn[d], due.served[d], due.said[d], "recv", server.buf)
  BY <1>1, Serves
<1> DEFINE c == conn[d]
           b == server.buf \o SubSeq(c.wire, 1, n)
           e == [c EXCEPT !.wire = SubSeq(@, n + 1, Len(@))]
           s == [at |-> "parse", who |-> d, buf |-> b]
<1>3. n \in 1 .. Len(c.wire)
      /\ server' = [server EXCEPT !.at = "parse", !.buf = b]
      /\ conn' = [conn EXCEPT ![d] = e]
      /\ stopping' = stopping /\ soc' = soc /\ core' = core /\ due' = due
  BY <1>2 DEF Receive
<1>4. server' = s BY <1>2, <1>3, ServerSet
<1>5. Dialogue(e, due.served[d], due.said[d], "parse", b) /\ (c.closed => e.closed)
  <2> HIDE DEF c
  <2>1. c.closed => [c EXCEPT !.wire = SubSeq(@, n + 1, Len(@))].closed
    BY <1>2 DEF Dialogue, Fields, c
  <2>2. Dialogue(c, due.served[d], due.said[d], "recv", server.buf) BY <1>2 DEF c
  <2> HIDE DEF e
  <2> QED BY <1>3, <2>1, <2>2, DialogueReceives DEF e
<1>6. s.at = "parse" /\ s.who = d /\ s.buf = b /\ DOMAIN s = {"at", "who", "buf"}
      /\ s = [at |-> s.at, who |-> s.who, buf |-> s.buf]
  OBVIOUS
<1> HIDE DEF s, b, e
<1>7. Machine' BY <1>1, <1>3, <1>4, <1>6 DEF GdbInv, Machine
<1>8. IsDue(due') BY <1>3 DEF GdbInv, Shaped
<1> QED BY ZenonT(30), <1>2, <1>3, <1>4, <1>5, <1>6, <1>7, <1>8, ServingStep DEF c

\* A debugger that closed is left.
LEMMA LeaveStep == ASSUME GdbInv, Leave PROVE GdbInv'
<1>1. server.at = "recv" BY DEF Leave
<1>2. PICK d \in Debuggers :
        /\ d = server.who /\ d # NoOne
        /\ Dialogue(conn[d], due.served[d], due.said[d], "recv", server.buf)
  BY <1>1, Serves
<1> DEFINE c == conn[d]
           e == [c EXCEPT !.state = "over"]
           s == [at |-> "accept", who |-> NoOne, buf |-> <<>>]
<1>3. server' = s /\ conn' = [conn EXCEPT ![d] = e]
      /\ stopping' = stopping /\ soc' = soc /\ core' = core /\ due' = due
  BY <1>2 DEF Leave, Idle
<1>5. Dialogue(e, due.served[d], due.said[d], "accept", <<>>) /\ (c.closed => e.closed)
  <2> DEFINE v == due.served[d]
             w == due.said[d]
  <2>1. Dialogue(c, v, w, "recv", server.buf) BY <1>2
  <2>2. c.closed => e.closed BY <2>1 DEF Dialogue, Fields
  <2> HIDE DEF c, v, w, e
  <2>3. v \in Seq(Items) /\ Len(v) <= Len(c.written) /\ \A i \in 1 .. Len(v) : v[i] = c.written[i]
    BY <2>1 DEF Dialogue
  <2>4. Dialogue(e, v, w, "accept", <<>>) BY <2>1, <2>3, DialogueOver DEF e
  <2> QED BY <2>2, <2>4 DEF v, w
<1>6. s.at = "accept" /\ s.who = NoOne /\ s.buf = <<>> /\ DOMAIN s = {"at", "who", "buf"}
      /\ s = [at |-> s.at, who |-> s.who, buf |-> s.buf]
  OBVIOUS
<1> HIDE DEF s, e
<1>7. Machine' BY <1>1, <1>3, <1>6 DEF GdbInv, Machine
<1>8. IsDue(due') BY <1>3 DEF GdbInv, Shaped
<1>9. s.who # d BY <1>2, <1>6
<1> QED BY <1>2, <1>3, <1>5, <1>6, <1>7, <1>8, <1>9, ServingStep DEF c

\* The thread ends because a peer that has closed cannot be answered.
LEMMA BrokenStep ==
  ASSUME GdbInv, NEW d \in Debuggers, d = server.who, d # NoOne,
         NEW at, Dialogue(conn[d], due.served[d], due.said[d], at, server.buf),
         conn[d].closed, server' = Ended, conn' = [conn EXCEPT ![d].state = "over"],
         stopping' = stopping, Machine', IsDue(due'),
         \A x \in Debuggers \ {d} : due'.served[x] = due.served[x] /\ due'.said[x] = due.said[x],
         due'.served[d] \in Seq(Items), Len(due'.served[d]) <= Len(conn[d].written),
         \A i \in 1 .. Len(due'.served[d]) : due'.served[d][i] = conn[d].written[i]
  PROVE  GdbInv'
<1> DEFINE c == conn[d]
           e == [c EXCEPT !.state = "over"]
           s == [at |-> "ended", who |-> NoOne, buf |-> <<>>]
           more == due'.served[d]
           told == due'.said[d]
<1>1. server' = s /\ conn' = [conn EXCEPT ![d] = e] BY DEF Ended, Idle
<1>2. Dialogue(e, more, told, "accept", <<>>) /\ e.closed
  <2> DEFINE v == due.served[d]
             w == due.said[d]
  <2>1. Dialogue(c, v, w, at, server.buf) /\ c.closed OBVIOUS
  <2>2. e.closed BY <2>1 DEF Dialogue, Fields
  <2>3. more \in Seq(Items) /\ Len(more) <= Len(c.written) /\ \A i \in 1 .. Len(more) : more[i] = c.written[i]
    OBVIOUS
  <2> HIDE DEF c, v, w, e, more, told
  <2>4. Dialogue(e, more, told, "accept", <<>>) BY <2>1, <2>3, DialogueOver DEF e
  <2> QED BY <2>2, <2>4
<1>3. s.at = "ended" /\ s.who = NoOne /\ s.buf = <<>> /\ DOMAIN s = {"at", "who", "buf"}
      /\ s = [at |-> s.at, who |-> s.who, buf |-> s.buf]
  OBVIOUS
<1> HIDE DEF s, e
<1>4. s.who # d BY <1>3
<1>5. Dialogue(e, due'.served[d], due'.said[d], IF s.who = d THEN s.at ELSE "accept", s.buf)
  BY <1>2, <1>3, <1>4
<1>6. c.closed => e.closed BY <1>2
<1> QED BY <1>1, <1>3, <1>5, <1>6, ServingStep DEF c

\* The processor halts.
LEMMA HaltStep == ASSUME GdbInv, Halt PROVE GdbInv'
<1>1. server.at = "cont" BY DEF Halt
<1>2. PICK d \in Debuggers :
        /\ d = server.who /\ d # NoOne
        /\ Dialogue(conn[d], due.served[d], due.said[d], "cont", server.buf)
  BY <1>1, Serves
<1> DEFINE s == [at |-> "parse", who |-> d, buf |-> server.buf]
<1>3. [server EXCEPT !.at = "parse"] = s BY <1>2, ServerSet
<1>4. s.at = "parse" /\ s.who = d /\ s.buf = server.buf /\ DOMAIN s = {"at", "who", "buf"}
      /\ s = [at |-> s.at, who |-> s.who, buf |-> s.buf]
  OBVIOUS
<1> HIDE DEF s
<1>5. core' = [core EXCEPT ![2] = Break] /\ Sent(s, <<Halted>>)
      /\ stopping' = stopping /\ soc' = soc /\ due' = due
  BY <1>3 DEF Halt, Halted
<1>6. IsDue(due') /\ IsDue(due) BY <1>5 DEF GdbInv, Shaped
<1>7. server'.at # "cont" => Machine' BY <1>1, <1>5 DEF GdbInv, Machine
<1>8. CASE server' = s /\ conn' = [conn EXCEPT ![d].out = @ \o <<Halted>>]
  <2> DEFINE c == conn[d]
             e == [c EXCEPT !.out = @ \o <<Halted>>]
             v == due.served[d]
             w == due.said[d]
  <2>1. conn' = [conn EXCEPT ![d] = e] BY <1>8
  <2>2. Dialogue(c, v, w, "cont", server.buf) BY <1>2
  <2>3. c.closed => e.closed BY <2>2 DEF Dialogue, Fields
  <2> HIDE DEF c, v, w, e
  <2>4. Dialogue(e, v, w, "parse", server.buf) BY <2>2, DialogueHalts DEF e
  <2>5. due'.served[d] = v /\ due'.said[d] = w BY <1>5 DEF v, w
  <2>6. Machine' BY <1>4, <1>7, <1>8
  <2>7. conn[d].closed => e.closed BY <2>3 DEF c
  <2>8. Dialogue(e, due'.served[d], due'.said[d], IF s.who = d THEN s.at ELSE "accept", s.buf)
    BY <1>4, <2>4, <2>5
  <2>9. \A x \in Debuggers \ {d} : due'.served[x] = due.served[x] /\ due'.said[x] = due.said[x]
    BY <1>5
  <2>10. d = server.who /\ d # NoOne /\ server' = s /\ stopping' = stopping BY <1>2, <1>5, <1>8
  <2> QED BY <1>4, <1>6, <2>1, <2>6, <2>7, <2>8, <2>9, <2>10, ServingStep
<1>9. CASE conn[d].closed /\ server' = Ended /\ conn' = [conn EXCEPT ![d].state = "over"]
  <2>1. Machine'
    <3>1. server'.at # "cont" BY <1>9 DEF Ended, Idle
    <3> QED BY <1>7, <3>1
  <2>2. due'.served[d] \in Seq(Items) /\ Len(due'.served[d]) <= Len(conn[d].written)
        /\ \A i \in 1 .. Len(due'.served[d]) : due'.served[d][i] = conn[d].written[i]
    BY <1>2, <1>5 DEF Dialogue
  <2>3. \A x \in Debuggers \ {d} : due'.served[x] = due.served[x] /\ due'.said[x] = due.said[x]
    BY <1>5
  <2> QED BY <1>2, <1>5, <1>6, <1>9, <2>1, <2>2, <2>3, BrokenStep
<1> QED BY <1>4, <1>5, <1>8, <1>9 DEF Sent

\* stop().
LEMMA StopStep == ASSUME GdbInv, Stop PROVE GdbInv'
<1>1. stopping' = TRUE /\ server' = server /\ conn' = conn /\ core' = core /\ soc' = soc /\ due' = due
  BY DEF Stop
<1>2. Thread' BY <1>1 DEF GdbInv, Thread
<1>3. Machine' BY <1>1 DEF GdbInv, Machine
<1>4. Shaped' BY <1>1 DEF GdbInv, Shaped
<1>5. ASSUME NEW d \in Debuggers PROVE Talk(d)' BY <1>1 DEF GdbInv, Talk
<1> QED BY <1>2, <1>3, <1>4, <1>5 DEF GdbInv

\* What a step of a debugger has to establish.
LEMMA DebuggerStep ==
  ASSUME GdbInv, NEW d \in Debuggers, NEW e, conn' = [conn EXCEPT ![d] = e],
         conn[d].closed => e.closed,
         \A v, w, at, buf : Dialogue(conn[d], v, w, at, buf) => Dialogue(e, v, w, at, buf),
         stopping' = stopping, server' = server, core' = core, soc' = soc, due' = due
  PROVE  GdbInv'
<1>1. conn'[d] = e /\ (\A x \in Debuggers \ {d} : conn'[x] = conn[x]) /\ DOMAIN conn' = Debuggers
  BY DEF GdbInv, Shaped
<1>2. \A x \in Debuggers : conn[x].closed => conn'[x].closed BY <1>1
<1>3. Thread' BY <1>2 DEF GdbInv, Thread
<1>4. Machine' BY DEF GdbInv, Machine
<1>5. Shaped' BY <1>1 DEF GdbInv, Shaped
<1>6. Talk(d)' BY <1>1 DEF GdbInv, Talk
<1>7. \A x \in Debuggers : Talk(x)' BY <1>1, <1>6, OnlyTalk DEF GdbInv
<1> QED BY <1>3, <1>4, <1>5, <1>7 DEF GdbInv

\* A debugger acts.
LEMMA DebugsStep == ASSUME GdbInv, Debugs PROVE GdbInv'
<1>1. PICK d \in Debuggers : \/ Connect(d) \/ Close(d)
                             \/ \E item \in UNION {Range(script) : script \in Scripts[d]} : Write(d, item)
  BY DEF Debugs
<1> DEFINE c == conn[d]
<1>2. DOMAIN c = Fields BY DEF GdbInv, Talk, Dialogue
<1>3. CASE Connect(d)
  <2> DEFINE e == [c EXCEPT !.state = "waiting"]
  <2>1. c.state = "away" /\ conn' = [conn EXCEPT ![d] = e]
        /\ stopping' = stopping /\ server' = server /\ core' = core /\ soc' = soc /\ due' = due
    BY <1>3 DEF Connect
  <2>2. c.closed => e.closed BY <1>2 DEF Fields
  <2> HIDE DEF c
  <2>3. \A v, w, at, buf : Dialogue(c, v, w, at, buf) => Dialogue(e, v, w, at, buf)
    BY <2>1, DialogueConnects
  <2> HIDE DEF e
  <2> QED BY <2>1, <2>2, <2>3, DebuggerStep DEF c
<1>4. CASE Close(d)
  <2> DEFINE e == [c EXCEPT !.closed = TRUE]
  <2>1. conn' = [conn EXCEPT ![d] = e]
        /\ stopping' = stopping /\ server' = server /\ core' = core /\ soc' = soc /\ due' = due
    BY <1>4 DEF Close
  <2>2. c.closed => e.closed BY <1>2 DEF Fields
  <2> HIDE DEF c
  <2>3. \A v, w, at, buf : Dialogue(c, v, w, at, buf) => Dialogue(e, v, w, at, buf)
    BY DialogueCloses
  <2> HIDE DEF e
  <2> QED BY <2>1, <2>2, <2>3, DebuggerStep DEF c
<1>5. CASE \E item \in UNION {Range(script) : script \in Scripts[d]} : Write(d, item)
  <2>1. PICK item \in UNION {Range(script) : script \in Scripts[d]} : Write(d, item) BY <1>5
  <2>2. item \in Items BY DEF Items
  <2> DEFINE e == [c EXCEPT !.written = Append(@, item), !.wire = @ \o TokensOf(item)]
  <2>3. c.state \in {"waiting", "taken"} BY <2>1 DEF Write
  <2>4. conn' = [conn EXCEPT ![d] = e]
        /\ stopping' = stopping /\ server' = server /\ core' = core /\ soc' = soc /\ due' = due
    BY <2>1 DEF Write
  <2>5. c.closed => e.closed BY <1>2 DEF Fields
  <2> HIDE DEF c
  <2>6. \A v, w, at, buf : Dialogue(c, v, w, at, buf) => Dialogue(e, v, w, at, buf)
    BY <2>2, <2>3, DialogueWrites
  <2> HIDE DEF e
  <2> QED BY <2>4, <2>5, <2>6, DebuggerStep DEF c
<1> QED BY <1>1, <1>3, <1>4, <1>5

\* The thread has said nothing to d, or what is due to it.
Tells(d, at) ==
  \/ conn' = conn /\ due'.said[d] = due.said[d] /\ at = "parse"
  \/ \E o : /\ conn' = [conn EXCEPT ![d] = [@ EXCEPT !.out = o]]
            /\ ~conn[d].closed
                 => IsSeq(o) /\ due'.said[d] = IF at = "cont" THEN Append(o, Halted) ELSE o

\* The thread has served an item of d, and goes on at s.
LEMMA ServedStep ==
  ASSUME GdbInv, NEW d \in Debuggers, d = server.who, d # NoOne,
         Dialogue(conn[d], due.served[d], due.said[d], "parse", server.buf),
         NEW item, NEW rest, NEW at \in {"parse", "cont"},
         GoesOn(conn[d], Append(due.served[d], item), rest),
         server' = [at |-> at, who |-> d, buf |-> rest],
         stopping' = stopping, IsDue(due'), due'.served[d] = Append(due.served[d], item),
         \A x \in Debuggers \ {d} : due'.served[x] = due.served[x] /\ due'.said[x] = due.said[x],
         Tells(d, at),
         Machine'
  PROVE  GdbInv'
<1> DEFINE c == conn[d]
           s == [at |-> at, who |-> d, buf |-> rest]
<1>1. DOMAIN c = Fields /\ Heard(c, due.said[d], "parse") BY DEF Dialogue
<1>2. s.at = at /\ s.who = d /\ s.buf = rest /\ DOMAIN s = {"at", "who", "buf"}
      /\ s = [at |-> s.at, who |-> s.who, buf |-> s.buf] /\ server' = s
  OBVIOUS
<1> HIDE DEF s
<1>3. ASSUME NEW e, DOMAIN e = Fields, \A f \in Fields \ {"out"} : e[f] = c[f],
             Heard(e, due'.said[d], at), conn' = [conn EXCEPT ![d] = e] \/ (conn' = conn /\ e = conn[d])
      PROVE  GdbInv'
  <2>1. Dialogue(e, Append(due.served[d], item), due'.said[d], at, rest) BY <1>3 DEF GoesOn
  <2>2. Dialogue(e, due'.served[d], due'.said[d], IF s.who = d THEN s.at ELSE "accept", s.buf)
    BY <1>2, <2>1
  <2>3. conn[d].closed => e.closed BY <1>3 DEF Fields
  <2>4. s.who = d /\ s.at \in {"recv", "parse", "cont"} BY <1>2
  <2> HIDE DEF c
  <2> QED BY <1>2, <1>3, <2>2, <2>3, <2>4, ServingStep
<1>4. CASE conn' = conn /\ due'.said[d] = due.said[d] /\ at = "parse"
  BY <1>1, <1>3, <1>4
<1>5. ASSUME NEW o, conn' = [conn EXCEPT ![d] = [@ EXCEPT !.out = o]],
             ~conn[d].closed
               => IsSeq(o) /\ due'.said[d] = IF at = "cont" THEN Append(o, Halted) ELSE o
      PROVE  GdbInv'
  <2> DEFINE e == [c EXCEPT !.out = o]
  <2>1. conn' = [conn EXCEPT ![d] = e] BY <1>5
  <2>2. DOMAIN e = Fields /\ e.out = o /\ (\A f \in Fields \ {"out"} : e[f] = c[f]) /\ e.closed = c.closed
    BY <1>1 DEF Fields
  <2> HIDE DEF e
  <2>3. Heard(e, due'.said[d], at) BY <1>5, <2>2 DEF Heard
  <2> QED BY <1>3, <2>1, <2>2, <2>3
<1> QED BY <1>4, <1>5 DEF Tells

\* What asking does to the due of d and of the others.
LEMMA AskedStep ==
  ASSUME IsDue(due), NEW d \in Debuggers, NEW item \in Items, due' = Asked(due, d, item),
         NEW r, r = Replied(due, d, item)
  PROVE  /\ IsDue(due') /\ due'.served[d] = Append(due.served[d], item)
         /\ \A x \in Debuggers \ {d} : due'.served[x] = due.served[x]
         /\ due'.said = r.said /\ due'.cpu = r.cpu /\ due'.bytes = r.bytes /\ due'.printed = r.printed
<1> DEFINE x == due
<1>0. IsDue(x) /\ r = Replied(x, d, item) OBVIOUS
<1> HIDE DEF x
<1>1. RepliesAs(r, x, d, item) BY <1>0, RepliedIs
<1> DEFINE y == Asked(x, d, item)
<1>5. IsDue(r) /\ r.served = x.served /\ y = Asked(x, d, item) BY <1>1 DEF RepliesAs
<1> HIDE DEF y
<1>6. AlsoServed(y, x, r, d, item) BY <1>0, <1>5, AskedIs
<1>2. /\ IsDue(Asked(x, d, item))
      /\ Asked(x, d, item).served = [x.served EXCEPT ![d] = Append(@, item)]
      /\ \A f \in Dues \ {"served"} : Asked(x, d, item)[f] = r[f]
  BY <1>5, <1>6 DEF AlsoServed
<1> USE DEF x
<1>3. due'.served = [due.served EXCEPT ![d] = Append(@, item)] BY <1>2
<1>4. DOMAIN due.served = Debuggers BY DEF IsDue
<1> QED BY <1>2, <1>3, <1>4 DEF Dues

\* One turn of the loop over the buffer.
LEMMA TurnStep == ASSUME GdbInv, Turn PROVE GdbInv'
<1>1. server.at = "parse" BY DEF Turn
<1>2. PICK d \in Debuggers :
        /\ d = server.who /\ d # NoOne
        /\ Dialogue(conn[d], due.served[d], due.said[d], "parse", server.buf)
  BY <1>1, Serves
<1> DEFINE p == Parse(server.buf)
           c == conn[d]
           v == due.served[d]
           w == due.said[d]
           going == [at |-> "parse", who |-> d, buf |-> p.rest]
<1>3. [server EXCEPT !.buf = p.rest] = going
      /\ [server EXCEPT !.at = "recv"] = [at |-> "recv", who |-> d, buf |-> server.buf]
  BY <1>1, <1>2, ServerSet
<1>4. [going EXCEPT !.at = "cont"] = [at |-> "cont", who |-> d, buf |-> p.rest] OBVIOUS
<1>5. stopping' = stopping BY DEF Turn
<1>6. \/ /\ p.what = "wait"
         /\ server' = [at |-> "recv", who |-> d, buf |-> server.buf]
         /\ conn' = conn /\ core' = core /\ soc' = soc /\ due' = due
      \/ /\ p.what = "skip" /\ server' = going
         /\ due' = IF server.buf[1] = Ack THEN Asked(due, d, Ack) ELSE due
         /\ conn' = conn /\ core' = core /\ soc' = soc
      \/ /\ p.what = "interrupt"
         /\ Sent(going, <<Ack, Halted>>) /\ due' = Asked(due, d, Interrupt)
         /\ core' = core /\ soc' = soc
      \/ /\ p.what = "packet" /\ c.closed /\ server' = Ended
         /\ conn' = [conn EXCEPT ![d].state = "over"]
         /\ core' = core /\ soc' = soc /\ due' = due
      \/ /\ p.what = "packet" /\ Kind(p.cmd) = "c"
         /\ server' = [at |-> "cont", who |-> d, buf |-> p.rest]
         /\ conn' = [conn EXCEPT ![d].out = Append(@, Ack)]
         /\ due' = Asked(due, d, p.cmd)
         /\ core' = core /\ soc' = soc
      \/ /\ p.what = "packet" /\ Kind(p.cmd) # "c"
         /\ \E done \in {Dispatch([cpu |-> core, soc |-> soc], p.cmd)} :
              /\ Sent(going, RepliesTo(done.reply))
              /\ core' = done.machine.cpu /\ soc' = done.machine.soc
         /\ due' = Asked(due, d, p.cmd)
  <2> DEFINE Body(q, e, g) ==
        \/ /\ q.what = "wait"
           /\ server' = [server EXCEPT !.at = "recv"]
           /\ conn' = conn /\ core' = core /\ soc' = soc /\ due' = due
        \/ /\ q.what = "skip" /\ server' = g
           /\ due' = IF server.buf[1] = Ack THEN Asked(due, e, Ack) ELSE due
           /\ conn' = conn /\ core' = core /\ soc' = soc
        \/ /\ q.what = "interrupt"
           /\ Sent(g, <<Ack, Halted>>) /\ due' = Asked(due, e, Interrupt)
           /\ core' = core /\ soc' = soc
        \/ /\ q.what = "packet" /\ conn[e].closed /\ server' = Ended
           /\ conn' = [conn EXCEPT ![e].state = "over"]
           /\ core' = core /\ soc' = soc /\ due' = due
        \/ /\ q.what = "packet" /\ Kind(q.cmd) = "c"
           /\ server' = [g EXCEPT !.at = "cont"]
           /\ conn' = [conn EXCEPT ![e].out = Append(@, Ack)]
           /\ due' = Asked(due, e, q.cmd)
           /\ core' = core /\ soc' = soc
        \/ /\ q.what = "packet" /\ Kind(q.cmd) # "c"
           /\ \E done \in {Dispatch([cpu |-> core, soc |-> soc], q.cmd)} :
                /\ Sent(g, RepliesTo(done.reply))
                /\ core' = done.machine.cpu /\ soc' = done.machine.soc
           /\ due' = Asked(due, e, q.cmd)
  <2>1. \E q \in {p}, e \in {server.who} : Body(q, e, [server EXCEPT !.buf = q.rest])
    BY Zenon DEF Turn, Halted, RepliesTo
  <2> HIDE DEF Body
  <2>2. Body(p, d, [server EXCEPT !.buf = p.rest]) BY <1>2, <2>1
  <2>3. Body(p, d, going) BY <1>3, <2>2
  <2> HIDE DEF p
  <2> QED BY <1>3, <1>4, <2>3 DEF Body
<1>7. IsDue(due) /\ DOMAIN due.said = Debuggers BY DEF GdbInv, Shaped, IsDue
<1>8. Flat(soc, due.bytes) /\ soc.uart = due.printed /\ due.cpu = core
  BY <1>1 DEF GdbInv, Machine
<1>9. Heard(c, w, "parse") BY <1>2 DEF Dialogue
<1>10. going.at = "parse" /\ going.who = d /\ going.buf = p.rest OBVIOUS
<1>11. CASE p.what = "wait"
  <2>1. /\ server' = [at |-> "recv", who |-> d, buf |-> server.buf]
        /\ conn' = conn /\ core' = core /\ soc' = soc /\ due' = due
    BY <1>6, <1>11
  <2> DEFINE s == [at |-> "recv", who |-> d, buf |-> server.buf]
  <2>2. s.at = "recv" /\ s.who = d /\ s.buf = server.buf /\ DOMAIN s = {"at", "who", "buf"}
        /\ s = [at |-> s.at, who |-> s.who, buf |-> s.buf] /\ server' = s
    BY <2>1
  <2> HIDE DEF s
  <2>3. Dialogue(c, v, w, "recv", server.buf)
    <3>1. Dialogue(c, v, w, "parse", server.buf) BY <1>2
    <3> DEFINE b == server.buf
    <3>2. Parse(b).what = "wait" /\ Dialogue(c, v, w, "parse", b) BY <1>11, <3>1
    <3> HIDE DEF c, v, w, b
    <3>3. Dialogue(c, v, w, "recv", b) BY <3>2, DialogueWaits
    <3> QED BY <3>3 DEF b
  <2>4. Dialogue(c, due'.served[d], due'.said[d], IF s.who = d THEN s.at ELSE "accept", s.buf)
    BY <2>1, <2>2, <2>3
  <2>5. Machine' BY <1>1, <2>1, <2>2 DEF GdbInv, Machine
  <2>6. IsDue(due') BY <1>7, <2>1
  <2>7. \A x \in Debuggers \ {d} : due'.served[x] = due.served[x] /\ due'.said[x] = due.said[x]
    BY <2>1
  <2>8. s.who = d /\ s.at \in {"recv", "parse", "cont"} BY <2>2
  <2> QED BY <1>2, <1>5, <2>1, <2>2, <2>4, <2>5, <2>6, <2>7, <2>8, ServingStep
<1>12. CASE p.what = "packet" /\ c.closed /\ server' = Ended /\ conn' = [conn EXCEPT ![d].state = "over"]
            /\ core' = core /\ soc' = soc /\ due' = due
  <2>1. server'.at # "cont" BY <1>12 DEF Ended, Idle
  <2>2. Machine' BY <1>1, <1>12, <2>1 DEF GdbInv, Machine
  <2>3. v \in Seq(Items) /\ Len(v) <= Len(conn[d].written)
        /\ \A i \in 1 .. Len(v) : v[i] = conn[d].written[i]
    BY <1>2 DEF Dialogue
  <2>4. due'.served[d] = v BY <1>12
  <2>5. \A x \in Debuggers \ {d} : due'.served[x] = due.served[x] /\ due'.said[x] = due.said[x]
    BY <1>12
  <2>6. IsDue(due') BY <1>7, <1>12
  <2>7. due'.served[d] \in Seq(Items) /\ Len(due'.served[d]) <= Len(conn[d].written)
        /\ \A i \in 1 .. Len(due'.served[d]) : due'.served[d][i] = conn[d].written[i]
    BY <2>3, <2>4
  <2> QED BY <1>2, <1>5, <1>12, <2>2, <2>5, <2>6, <2>7, BrokenStep
<1>13. CASE p.what # "wait" /\ ~(p.what = "packet" /\ c.closed /\ server' = Ended /\ due' = due
              /\ core' = core /\ soc' = soc /\ conn' = [conn EXCEPT ![d].state = "over"])
  <2>1. PICK item \in Items :
           /\ p.what = IF item = Ack THEN "skip" ELSE IF item = Interrupt THEN "interrupt"
                       ELSE "packet"
           /\ p.what = "skip" => server.buf[1] = Ack
           /\ p.what = "packet" => p.cmd = item
           /\ Append(v, item) \in Seq(Items)
           /\ Len(Append(v, item)) <= Len(c.written)
           /\ \A i \in 1 .. Len(Append(v, item)) : Append(v, item)[i] = c.written[i]
           /\ GoesOn(c, Append(v, item), p.rest)
    <3>1. Dialogue(c, v, w, "parse", server.buf) BY <1>2
    <3> DEFINE b == server.buf
               q == Parse(b)
    <3>2. q.what # "wait" /\ Dialogue(c, v, w, "parse", b) BY <1>13, <3>1
    <3> HIDE DEF c, v, w, b
    <3>3. \E item \in Items :
           /\ q.what = IF item = Ack THEN "skip" ELSE IF item = Interrupt THEN "interrupt"
                       ELSE "packet"
           /\ q.what = "skip" => b[1] = Ack
           /\ q.what = "packet" => q.cmd = item
           /\ Append(v, item) \in Seq(Items)
           /\ Len(Append(v, item)) <= Len(c.written)
           /\ \A i \in 1 .. Len(Append(v, item)) : Append(v, item)[i] = c.written[i]
           /\ GoesOn(c, Append(v, item), q.rest)
      BY <3>2, DialogueTurns
    <3> QED BY <3>3 DEF b
  <2> DEFINE r == Replied(due, d, item)
  <2>2. due' = Asked(due, d, item)
    BY <1>6, <1>13, <2>1
  <2>3. /\ IsDue(due') /\ due'.served[d] = Append(due.served[d], item)
        /\ \A x \in Debuggers \ {d} : due'.served[x] = due.served[x]
        /\ due'.said = r.said /\ due'.cpu = r.cpu /\ due'.bytes = r.bytes /\ due'.printed = r.printed
    BY <1>7, <2>2, AskedStep
  <2>4. GoesOn(conn[d], Append(due.served[d], item), p.rest) BY <2>1
  <2>5. /\ due'.served[d] \in Seq(Items) /\ Len(due'.served[d]) <= Len(conn[d].written)
        /\ \A i \in 1 .. Len(due'.served[d]) : due'.served[d][i] = conn[d].written[i]
    BY <2>1, <2>3
  <2> HIDE DEF r
  <2>6. ASSUME NEW replies, (\E a : replies = <<a>>) \/ \E a, b : replies = <<a, b>>,
               due'.said = [due.said EXCEPT ![d] = @ \o replies], Sent(going, replies),
               Flat(soc', due'.bytes), soc'.uart = due'.printed, due'.cpu = core'
        PROVE  GdbInv'
    <3>1. due'.said[d] = w \o replies /\ \A x \in Debuggers \ {d} : due'.said[x] = due.said[x]
      BY <1>7, <2>6
    <3>2. \A x \in Debuggers \ {d} : due'.served[x] = due.served[x] /\ due'.said[x] = due.said[x]
      BY <2>3, <3>1
    <3>3. server'.at # "cont" => Machine' BY <2>6 DEF Machine
    <3>4. CASE server' = going /\ conn' = [conn EXCEPT ![d].out = @ \o replies]
      <4> DEFINE o == c.out \o replies
      <4>1. conn' = [conn EXCEPT ![d] = [@ EXCEPT !.out = o]] BY <3>4
      <4>2. ~conn[d].closed => IsSeq(o) /\ due'.said[d] = o
        <5> SUFFICES ASSUME ~c.closed PROVE IsSeq(o) /\ due'.said[d] = o OBVIOUS
        <5>1. IsSeq(c.out) /\ w = c.out BY <1>9 DEF Heard
        <5> DEFINE q == c.out
        <5>2. IsSeq(q) BY <5>1
        <5> HIDE DEF q
        <5>3. IsSeq(q \o replies)
          <6>1. \A a, b : Appends(q, a, b) BY <5>2, IsSeqs
          <6>2. \A a, b : IsSeq(q \o <<a>>) /\ IsSeq(q \o <<a, b>>) BY <6>1 DEF Appends
          <6>3. ASSUME NEW a, replies = <<a>> PROVE IsSeq(q \o replies) BY <6>2, <6>3
          <6>4. ASSUME NEW a, NEW b, replies = <<a, b>> PROVE IsSeq(q \o replies) BY <6>2, <6>4
          <6> QED BY <2>6, <6>3, <6>4
        <5> QED BY <3>1, <5>1, <5>3 DEF q
      <4>3. server'.at # "cont" BY <1>10, <3>4
      <4>4. Machine' BY <3>3, <4>3
      <4> DEFINE rest == p.rest
                 at == "parse"
      <4>5. server' = [at |-> at, who |-> d, buf |-> rest] BY <3>4
      <4>6. GoesOn(conn[d], Append(due.served[d], item), rest)
        BY <2>4
      <4>7. ~conn[d].closed => IsSeq(o) /\ due'.said[d] = IF at = "cont" THEN Append(o, Halted) ELSE o
        BY <4>2
      <4>8. at \in {"parse", "cont"} OBVIOUS
      <4>9. Dialogue(conn[d], due.served[d], due.said[d], "parse", server.buf)
            /\ d = server.who /\ d # NoOne
        BY <1>2
      <4> HIDE DEF rest, o, at
      <4>10. Tells(d, at) BY <4>1, <4>7 DEF Tells
      <4> QED BY <1>5, <2>3, <3>2, <4>4, <4>5, <4>6, <4>8, <4>9, <4>10, ServedStep
    <3>5. CASE conn[d].closed /\ server' = Ended /\ conn' = [conn EXCEPT ![d].state = "over"]
      <4>1. server'.at # "cont" BY <3>5 DEF Ended, Idle
      <4>2. Machine' BY <3>3, <4>1
      <4>3. IsDue(due') BY <2>3
      <4> QED BY <1>2, <1>5, <2>5, <3>2, <3>5, <4>2, <4>3, BrokenStep
    <3> QED BY <1>10, <2>6, <3>4, <3>5 DEF Sent
  <2>7. CASE item = Ack
    <3>1. p.what = "skip" BY <2>1, <2>7
    <3>2. server' = going /\ conn' = conn /\ core' = core /\ soc' = soc BY <1>6, <3>1
    <3>3. r = due
      <4> DEFINE x == due
      <4>1. IsDue(x) /\ r = Replied(x, d, item) BY <1>7 DEF r
      <4> HIDE DEF x
      <4>2. RepliesAs(r, x, d, item) BY <4>1, RepliedIs
      <4> QED BY <2>7, <4>2 DEF x, RepliesAs
    <3>4. due'.said = due.said /\ due'.cpu = core /\ due'.bytes = due.bytes /\ due'.printed = due.printed
      BY <1>8, <2>3, <3>3
    <3>5. server'.at = "parse" BY <1>10, <3>2
    <3>6. Machine' BY <1>8, <3>2, <3>4, <3>5 DEF Machine
    <3>7. \A x \in Debuggers \ {d} : due'.served[x] = due.served[x] /\ due'.said[x] = due.said[x]
      BY <2>3, <3>4
    <3> DEFINE rest == p.rest
               at == "parse"
    <3>8. server' = [at |-> at, who |-> d, buf |-> rest] /\ at \in {"parse", "cont"} /\ at = "parse"
      BY <3>2
    <3>9. GoesOn(conn[d], Append(due.served[d], item), rest)
      BY <2>4
    <3>10. due'.said[d] = due.said[d] /\ conn' = conn BY <3>2, <3>4
    <3>11. Dialogue(conn[d], due.served[d], due.said[d], "parse", server.buf)
           /\ d = server.who /\ d # NoOne
      BY <1>2
    <3> HIDE DEF rest, at
    <3>12. Tells(d, at) BY <3>8, <3>10 DEF Tells
    <3> QED BY <1>5, <2>3, <3>6, <3>7, <3>8, <3>9, <3>11, <3>12, ServedStep
  <2>8. CASE item = Interrupt
    <3>1. p.what = "interrupt" BY <2>1, <2>8 DEF Ack, Interrupt
    <3>2. Sent(going, <<Ack, Halted>>) /\ core' = core /\ soc' = soc BY <1>6, <3>1
    <3>3. /\ r.said = [due.said EXCEPT ![d] = @ \o <<Ack, Halted>>]
          /\ r.cpu = due.cpu /\ r.bytes = due.bytes /\ r.printed = due.printed
      <4> DEFINE x == due
      <4>1. IsDue(x) /\ r = Replied(x, d, item) BY <1>7 DEF r
      <4> HIDE DEF x
      <4>2. RepliesAs(r, x, d, item) BY <4>1, RepliedIs
      <4> QED BY <2>8, <4>2 DEF x, RepliesAs
    <3>4. due'.said = [due.said EXCEPT ![d] = @ \o <<Ack, Halted>>] BY <2>3, <3>3
    <3>5. Flat(soc', due'.bytes) /\ soc'.uart = due'.printed /\ due'.cpu = core'
      BY <1>8, <2>3, <3>2, <3>3
    <3> DEFINE replies == <<Ack, Halted>>
    <3>6. \E a, b : replies = <<a, b>> OBVIOUS
    <3> HIDE DEF replies
    <3>7. due'.said = [due.said EXCEPT ![d] = @ \o replies] /\ Sent(going, replies)
      BY <3>2, <3>4 DEF replies
    <3> QED BY <2>6, <3>5, <3>6, <3>7
  <2>9. CASE item # Ack /\ item # Interrupt
    <3>1. p.what = "packet" /\ p.cmd = item /\ IsPacket(item) BY <2>1, <2>9 DEF IsPacket
    <3>2. CASE Kind(item) = "c"
      <4>1. /\ server' = [at |-> "cont", who |-> d, buf |-> p.rest]
            /\ conn' = [conn EXCEPT ![d].out = Append(@, Ack)]
            /\ core' = core /\ soc' = soc
        BY <1>6, <1>13, <3>1, <3>2
      <4>2. /\ r.said = [due.said EXCEPT ![d] = @ \o <<Ack, Halted>>]
            /\ r.cpu = [due.cpu EXCEPT ![2] = Break]
            /\ r.bytes = due.bytes /\ r.printed = due.printed
        <5> DEFINE x == due
        <5>1. IsDue(x) /\ r = Replied(x, d, item) BY <1>7 DEF r
        <5> HIDE DEF x
        <5>2. RepliesAs(r, x, d, item) BY <5>1, RepliedIs
        <5> QED BY <3>1, <3>2, <5>2 DEF x, RepliesAs
      <4>3. due'.said = [due.said EXCEPT ![d] = @ \o <<Ack, Halted>>] BY <2>3, <4>2
      <4>4. server'.at = "cont" BY <4>1
      <4>5. Machine' BY <1>8, <2>3, <4>1, <4>2, <4>4 DEF Machine
      <4>6. due'.said[d] = w \o <<Ack, Halted>>
            /\ \A x \in Debuggers \ {d} : due'.served[x] = due.served[x] /\ due'.said[x] = due.said[x]
        BY <1>7, <2>3, <4>3
      <4> DEFINE o == Append(c.out, Ack)
                 rest == p.rest
                 at == "cont"
      <4>7. conn' = [conn EXCEPT ![d] = [@ EXCEPT !.out = o]] BY <4>1
      <4>8. ~conn[d].closed => IsSeq(o) /\ due'.said[d] = Append(o, Halted)
        <5> SUFFICES ASSUME ~c.closed PROVE IsSeq(o) /\ due'.said[d] = Append(o, Halted) OBVIOUS
        <5>1. IsSeq(c.out) /\ w = c.out BY <1>9 DEF Heard
        <5> DEFINE q == c.out
        <5>2. IsSeq(q) BY <5>1
        <5> HIDE DEF q
        <5>3. IsSeq(Append(q, Ack)) /\ Append(Append(q, Ack), Halted) = q \o <<Ack, Halted>>
          <6>1. Appends(q, Ack, Halted) BY <5>2, IsSeqs
          <6> QED BY <6>1 DEF Appends
        <5> QED BY <4>6, <5>1, <5>3 DEF q
      <4>9. server' = [at |-> at, who |-> d, buf |-> rest] /\ at \in {"parse", "cont"} BY <4>1
      <4>10. GoesOn(conn[d], Append(due.served[d], item), rest)
        BY <2>4
      <4>11. ~conn[d].closed => IsSeq(o) /\ due'.said[d] = IF at = "cont" THEN Append(o, Halted) ELSE o
        BY <4>8
      <4>12. Dialogue(conn[d], due.served[d], due.said[d], "parse", server.buf)
             /\ d = server.who /\ d # NoOne
        BY <1>2
      <4> HIDE DEF rest, o, at
      <4>13. Tells(d, at) BY <4>7, <4>11 DEF Tells
      <4> QED BY <1>5, <2>3, <4>5, <4>6, <4>9, <4>10, <4>12, <4>13, ServedStep
    <3>3. CASE Kind(item) # "c"
      <4> DEFINE done == Dispatch([cpu |-> core, soc |-> soc], item)
      <4>1. Sent(going, RepliesTo(done.reply)) /\ core' = done.machine.cpu /\ soc' = done.machine.soc
        BY <1>6, <1>13, <3>1, <3>3
      <4>2. /\ r.said = [due.said EXCEPT ![d] = @ \o RepliesTo(done.reply)]
            /\ r.cpu = done.machine.cpu
            /\ Flat(done.machine.soc, r.bytes)
            /\ done.machine.soc.uart = r.printed
        <5> DEFINE x == due
        <5>1. IsDue(x) /\ r = Replied(x, d, item) /\ Flat(soc, x.bytes) /\ soc.uart = x.printed
              /\ done = Dispatch([cpu |-> x.cpu, soc |-> soc], item)
          BY <1>7, <1>8 DEF r
        <5> HIDE DEF x, done
        <5>2. DispatchedAs(r, x, d, done) BY <3>1, <3>3, <5>1, RepliedIsDispatched
        <5> QED BY <5>2 DEF x, DispatchedAs
      <4> HIDE DEF done
      <4> DEFINE replies == RepliesTo(done.reply)
      <4>3. (\E a : replies = <<a>>) \/ \E a, b : replies = <<a, b>> BY DEF RepliesTo
      <4>4. due'.said = [due.said EXCEPT ![d] = @ \o replies] BY <2>3, <4>2
      <4>5. Flat(soc', due'.bytes) /\ soc'.uart = due'.printed /\ due'.cpu = core'
        BY <2>3, <4>1, <4>2
      <4> HIDE DEF replies
      <4>6. Sent(going, replies) BY <4>1 DEF replies
      <4> QED BY <2>6, <4>3, <4>4, <4>5, <4>6
    <3> QED BY <3>2, <3>3
  <2> QED BY <2>7, <2>8, <2>9
<1> QED BY <1>6, <1>11, <1>12, <1>13

(* However the stream is cut into pieces and whenever a debugger closes or  *)
(* the stub is told to stop, each debugger gets one answer to everything it *)
(* asks, in its order, the answer of one flat machine that all of them use. *)
THEOREM EveryAskingIsAnswered == GdbSpec => []AnswersInOrder
<1>1. GdbInv /\ [GdbNext]_gdbVars => GdbInv'
  <2> SUFFICES ASSUME GdbInv, [GdbNext]_gdbVars PROVE GdbInv' OBVIOUS
  <2>1. ASSUME UNCHANGED gdbVars PROVE GdbInv'
    <3>1. stopping' = stopping /\ server' = server /\ conn' = conn /\ core' = core /\ soc' = soc
          /\ due' = due
      BY <2>1 DEF gdbVars
    <3> QED BY <3>1 DEF GdbInv, Thread, Machine, Shaped, Talk
  <2>2. ASSUME Takes PROVE GdbInv' BY <2>2, AcceptStep DEF Takes
  <2>3. ASSUME Arrives PROVE GdbInv' BY <2>3, ReceiveStep DEF Arrives
  <2> QED BY <2>1, <2>2, <2>3, LeaveStep, ServeEndsStep, TurnStep, HaltStep, DebugsStep, StopStep
          DEF GdbNext, Over
<1> QED BY <1>1, GdbInitInv, GdbInvAnswers, PTL DEF GdbSpec
===============================================================================
