-------------------------------- MODULE Axi4 --------------------------------
(***************************************************************************)
(* axi4.py: subordinates with a memory each (Axi4Sub), the crossbar that   *)
(* leads one manager to them by address (Axi4Crossbar), and that manager,  *)
(* which writes and reads bursts at once and obeys the handshake rules.    *)
(* An address is the number of a word; subordinate k has the addresses     *)
(* k * Depth .. (k + 1) * Depth - 1 and keeps Depth words.  Sizes, locks,  *)
(* caches, strobes and burst types are inputs nothing looks at.            *)
(***************************************************************************)
EXTENDS Naturals, FiniteSets

CONSTANTS
  Subs,        \* how many subordinates: 0 .. Subs - 1
  Depth,       \* words of each, a power of two
  Bursts,      \* the bursts the manager may want: [addr, len, id], len + 1 beats
  Values,
  Nothing,     \* no subordinate
  Wanders      \* may the manager move the address of a burst it waits for

ASSUME AxiAssumption ==
  /\ Subs \in Nat \ {0}
  /\ Depth \in Nat \ {0} /\ \E k \in 0..20 : Depth = 2^k
  /\ Nothing \notin 0 .. Subs - 1
  /\ Wanders \in {"always", "direct", "never"}
  /\ \A b \in Bursts : b.len \in 0..255 /\ b.addr \div Depth = (b.addr + b.len) \div Depth
  /\ \A b \in Bursts : b.addr \in 0 .. Subs * Depth - 1

VARIABLES
  direct,   \* is the manager wired to subordinate 0 itself
  sub,      \* registers and memory of each subordinate
  wm, rm,   \* what the manager does on its write and its read channels
  ref       \* what the manager has written where

axiVars == <<direct, sub, wm, rm, ref>>

SubIds == 0 .. Subs - 1

AddressSpace == 0 .. Subs * Depth - 1

-----------------------------------------------------------------------------
(* Axi4Sub.  `i' holds the inputs of the subordinate.                      *)

WordAt(s) == s.mem[s.raddr % Depth]

WReady(s) == s.wstate = "WDATA"

BValid(s) == s.wstate = "WRESP"

RValid(s) == s.rstate = "RDATA"

RLast(s) == s.rbeat = s.rlen

\* mutant: every beat is stored at the address of the burst
WriteFsmFixed(s, i) ==
  CASE s.wstate = "IDLE" /\ i.awvalid ->
         [s EXCEPT !.waddr = i.awaddr, !.wid = i.awid, !.wstate = "WDATA"]
    [] s.wstate = "WDATA" /\ i.wvalid ->
         [s EXCEPT !.mem[s.waddr % Depth] = i.wdata,
                   !.wstate = IF i.wlast THEN "WRESP" ELSE "WDATA"]
    [] s.wstate = "WRESP" /\ i.bready -> [s EXCEPT !.wstate = "IDLE"]
    [] OTHER -> s

\* mutant: the burst ends with its first beat
WriteFsmHasty(s, i) ==
  CASE s.wstate = "IDLE" /\ i.awvalid ->
         [s EXCEPT !.waddr = i.awaddr, !.wid = i.awid, !.wstate = "WDATA"]
    [] s.wstate = "WDATA" /\ i.wvalid ->
         [s EXCEPT !.mem[s.waddr % Depth] = i.wdata, !.waddr = @ + 1, !.wstate = "WRESP"]
    [] s.wstate = "WRESP" /\ i.bready -> [s EXCEPT !.wstate = "IDLE"]
    [] OTHER -> s

\* The end of a write burst is wlast; the length awlen is kept and not used.
WriteFsm(s, i) ==
  CASE s.wstate = "IDLE" /\ i.awvalid ->
         [s EXCEPT !.waddr = i.awaddr, !.wid = i.awid, !.wstate = "WDATA"]
    [] s.wstate = "WDATA" /\ i.wvalid ->
         [s EXCEPT !.mem[s.waddr % Depth] = i.wdata, !.waddr = @ + 1,
                   !.wstate = IF i.wlast THEN "WRESP" ELSE "WDATA"]
    [] s.wstate = "WRESP" /\ i.bready -> [s EXCEPT !.wstate = "IDLE"]
    [] OTHER -> s

ReadFsm(s, i) ==
  CASE s.rstate = "IDLE" /\ i.arvalid ->
         [s EXCEPT !.raddr = i.araddr, !.rid = i.arid, !.rlen = i.arlen, !.rbeat = 0,
                   !.rstate = "RDATA"]
    [] s.rstate = "RDATA" /\ i.rready ->
         [s EXCEPT !.raddr = @ + 1, !.rbeat = @ + 1,
                   !.rstate = IF RLast(s) THEN "IDLE" ELSE "RDATA"]
    [] OTHER -> s

-----------------------------------------------------------------------------
(* Axi4Crossbar: each half of it looks at the address that is on the bus   *)
(* now, for the data and the responses too.                                *)

Selected(addr) ==
  IF direct THEN 0 ELSE IF addr \in AddressSpace THEN addr \div Depth ELSE Nothing

\* mutant: requests are led by the address, responses come from subordinate 0
ResponderFirst(addr) == IF Selected(addr) = Nothing THEN Nothing ELSE 0

\* The subordinate whose signals lead to the manager.
Responder(addr) == Selected(addr)

Answers(addr, Of(_)) == Responder(addr) # Nothing /\ Of(sub[Responder(addr)])

SubEdge(k, awaddr, araddr, w, r) ==
  LET written == IF k = Selected(awaddr) THEN WriteFsm(sub[k], w) ELSE sub[k]
      read == IF k = Selected(araddr) THEN ReadFsm(sub[k], r) ELSE sub[k]
  IN [f \in DOMAIN sub[k] |->
        IF f \in {"wstate", "waddr", "wid", "mem"} THEN written[f] ELSE read[f]]

-----------------------------------------------------------------------------
(* The manager.                                                            *)

IdleManager == [phase |-> "IDLE", addr |-> 0, len |-> 0, id |-> Nothing, beat |-> 0]

\* What is on the address bus: the address of the burst, and after it has been
\* accepted, where the manager may wander, one of another subordinate.
OnBus(m) ==
  {m.addr} \cup IF m.phase # "ADDR" /\ (Wanders = "always" \/ (Wanders = "direct" /\ direct))
                THEN {(m.addr + Depth) % (Subs * Depth)} ELSE {}

AxiInit ==
  /\ direct \in BOOLEAN
  /\ \E v \in Values :
       /\ sub = [k \in SubIds |->
                   [wstate |-> "IDLE", waddr |-> 0, wid |-> Nothing,
                    rstate |-> "IDLE", raddr |-> 0, rid |-> Nothing, rlen |-> 0, rbeat |-> 0,
                    mem |-> [a \in 0 .. Depth - 1 |-> v]]]
       /\ ref = [a \in AddressSpace |-> v]
  /\ wm = IdleManager
  /\ rm = IdleManager

\* A new burst of manager m (an idle channel offers one or stays idle).
Offers(m) ==
  IF m.phase # "IDLE" THEN {m}
  ELSE {m} \cup {[phase |-> "ADDR", addr |-> b.addr, len |-> b.len, id |-> b.id, beat |-> 0] :
                   b \in {c \in Bursts : direct => c.addr < Depth}}

IdleW(s) == s.wstate = "IDLE"

IdleR(s) == s.rstate = "IDLE"

(* What the manager drives and what becomes of it.  aw, ar: what is on its *)
(* address buses; wv, br, rr: does it hold data for the beat, take the     *)
(* response, take read data; v: the word it holds.                         *)
WriteInputs(w, aw, wv, br, v) ==
  [awvalid |-> w.phase = "ADDR", awaddr |-> aw, awid |-> w.id,
   wvalid |-> w.phase = "DATA" /\ wv, wdata |-> v,
   wlast |-> w.beat = w.len, bready |-> w.phase = "RESP" /\ br]

ReadInputs(r, ar, rr) ==
  [arvalid |-> r.phase = "ADDR", araddr |-> ar, arid |-> r.id, arlen |-> r.len,
   rready |-> r.phase = "DATA" /\ rr]

Sends(w, aw, wv) == w.phase = "DATA" /\ wv /\ Answers(aw, WReady)

BeatTaken(r, ar, rr) == r.phase = "DATA" /\ rr /\ Answers(ar, RValid)

NextWm(w, aw, wv, br) ==
  CASE w.phase = "ADDR" /\ Answers(aw, IdleW) -> [w EXCEPT !.phase = "DATA"]
    [] Sends(w, aw, wv) ->
         IF w.beat = w.len THEN [w EXCEPT !.phase = "RESP"] ELSE [w EXCEPT !.beat = @ + 1]
    [] w.phase = "RESP" /\ br /\ Answers(aw, BValid) -> IdleManager
    [] OTHER -> w

NextRm(r, ar, rr) ==
  CASE r.phase = "ADDR" /\ Answers(ar, IdleR) -> [r EXCEPT !.phase = "DATA"]
    [] BeatTaken(r, ar, rr) ->
         IF Answers(ar, RLast) THEN IdleManager ELSE [r EXCEPT !.beat = @ + 1]
    [] OTHER -> r

NextRef(w, aw, wv, v) == IF Sends(w, aw, wv) THEN [ref EXCEPT ![w.addr + w.beat] = v] ELSE ref

\* One edge of the clock.
AxiEdge(wv, br, rr, v) ==
  /\ \E w \in Offers(wm), r \in Offers(rm) : \E aw \in OnBus(w), ar \in OnBus(r) :
       /\ sub' = [k \in SubIds |-> SubEdge(k, aw, ar, WriteInputs(w, aw, wv, br, v),
                                           ReadInputs(r, ar, rr))]
       /\ wm' = NextWm(w, aw, wv, br)
       /\ rm' = NextRm(r, ar, rr)
       /\ ref' = NextRef(w, aw, wv, v)
  /\ UNCHANGED direct

\* An edge with reset high while the manager is quiet: the states go back, the
\* memories and the other registers stay.
AxiReset ==
  /\ wm = IdleManager /\ rm = IdleManager
  /\ sub' = [k \in SubIds |-> [sub[k] EXCEPT !.wstate = "IDLE", !.rstate = "IDLE", !.rbeat = 0]]
  /\ UNCHANGED <<direct, wm, rm, ref>>

AxiNext == (\E wv, br, rr \in BOOLEAN, v \in Values : AxiEdge(wv, br, rr, v)) \/ AxiReset

AxiSpec == AxiInit /\ [][AxiNext]_axiVars

\* The manager has data and takes what it is given, again and again.
AxiProgress == \E v \in Values : AxiEdge(TRUE, TRUE, TRUE, v)

AxiFairness == WF_axiVars(AxiProgress)
-----------------------------------------------------------------------------
(* What the manager reads is what it wrote last at that address, beat by   *)
(* beat, under the identifier of its burst, and the last beat is marked,   *)
(* whatever is written meanwhile.                                          *)
ReadsWhatWasWritten ==
  rm.phase = "DATA" =>
    LET s == sub[Selected(rm.addr)]
    IN /\ Answers(rm.addr, RValid)
       /\ WordAt(s) = ref[rm.addr + rm.beat]
       /\ s.rid = rm.id
       /\ Answers(rm.addr, RLast) <=> rm.beat = rm.len

(* A write is answered when its last beat is in, and not before, with its  *)
(* identifier; no other subordinate is ever busy.                          *)
WritesAnswered ==
  /\ (\E k \in SubIds : BValid(sub[k])) <=> wm.phase = "RESP"
  /\ wm.phase = "RESP" => sub[Selected(wm.addr)].wid = wm.id
  /\ \A k \in SubIds :
       /\ sub[k].wstate # "IDLE" => wm.phase \in {"DATA", "RESP"} /\ k = Selected(wm.addr)
       /\ sub[k].rstate # "IDLE" => rm.phase = "DATA" /\ k = Selected(rm.addr)

(* Every burst the manager begins comes to its end.                        *)
BurstsEnd ==
  /\ wm.phase # "IDLE" ~> wm.phase = "IDLE"
  /\ rm.phase # "IDLE" ~> rm.phase = "IDLE"
=============================================================================
