------------------------------ MODULE IpBlocks ------------------------------
(***************************************************************************)
(* The blocks of ip.py: for each one what its clocked process makes of the *)
(* registers r and the inputs i, and what its outputs are.  A process      *)
(* assigns registers that take their value after the edge: it reads the    *)
(* values from before, and of two assignments the last one counts.  A bit  *)
(* vector of requests or interrupts is the set of the bits that are 1.     *)
(***************************************************************************)
EXTENDS Naturals, FiniteSets

-----------------------------------------------------------------------------
(* SyncFifo: `& mask' is the remainder for the depths that are powers of   *)
(* two; no other depth addresses all of its words.                         *)

SyncFifoReset(r) == [r EXCEPT !.wptr = 0, !.rptr = 0, !.cnt = 0]

Pushes(depth, r, i) == i.push /\ r.cnt # depth

Pops(r, i) == i.pop /\ r.cnt # 0

\* mutant: words are read at the write pointer
SyncFifoDoutAtWptr(depth, r) == r.mem[r.wptr % depth]

SyncFifoDout(depth, r) == r.mem[r.rptr % depth]

\* mutant: a push into a full FIFO is not refused
SyncFifoOverrun(depth, r, i) ==
  [wptr |-> (r.wptr + IF i.push THEN 1 ELSE 0) % (2 * depth),
   rptr |-> (r.rptr + IF Pops(r, i) THEN 1 ELSE 0) % (2 * depth),
   cnt  |-> IF Pops(r, i) THEN r.cnt - 1
            ELSE IF i.push THEN (r.cnt + 1) % (4 * depth) ELSE r.cnt,
   mem  |-> [r.mem EXCEPT ![r.wptr % depth] = IF i.push THEN i.din ELSE @]]

\* The pop comes second: its assignment of the counter is the one that counts.
SyncFifoUpdate(depth, r, i) ==
  [wptr |-> (r.wptr + IF Pushes(depth, r, i) THEN 1 ELSE 0) % (2 * depth),
   rptr |-> (r.rptr + IF Pops(r, i) THEN 1 ELSE 0) % (2 * depth),
   cnt  |-> IF Pops(r, i) THEN r.cnt - 1
            ELSE IF Pushes(depth, r, i) THEN r.cnt + 1 ELSE r.cnt,
   mem  |-> [r.mem EXCEPT ![r.wptr % depth] = IF Pushes(depth, r, i) THEN i.din ELSE @]]

-----------------------------------------------------------------------------
(* EdgeDetector, Debouncer, ClockDivider.                                  *)

EdgeDetectorSample(r, d) ==
  [prev |-> d, rise |-> d /\ ~r.prev, fall |-> ~d /\ r.prev, toggle |-> d # r.prev]

DebouncerLogic(threshold, r, d) ==
  IF d # r.q
  THEN IF r.cnt = threshold - 1 THEN [cnt |-> 0, q |-> d] ELSE [r EXCEPT !.cnt = @ + 1]
  ELSE [r EXCEPT !.cnt = 0]

ClockDividerDivide(divisor, r) ==
  IF r.cnt = divisor - 1 THEN [cnt |-> 0, out |-> ~r.out] ELSE [r EXCEPT !.cnt = @ + 1]

-----------------------------------------------------------------------------
(* RoundRobinArbiter, PriorityArbiter: requestors are 0 .. n - 1.          *)

\* The requests in the order in which the arbiter looks at them: the least
\* distance from the pointer wins.
FirstFrom(n, ptr, req) ==
  CHOOSE k \in req : \A j \in req : (k + n - ptr) % n <= (j + n - ptr) % n

\* mutant: the pointer stays at the one that was granted
RoundRobinStuck(n, r, req) ==
  IF req = {} THEN [r EXCEPT !.grant = {}]
  ELSE LET k == FirstFrom(n, r.ptr, req) IN [ptr |-> k, grant |-> {k}]

RoundRobinUpdate(n, r, req) ==
  IF req = {} THEN [r EXCEPT !.grant = {}]
  ELSE LET k == FirstFrom(n, r.ptr, req) IN [ptr |-> (k + 1) % n, grant |-> {k}]

PriorityUpdate(n, req) == IF req = {} THEN {} ELSE {FirstFrom(n, 0, req)}

-----------------------------------------------------------------------------
(* CreditFlowControl.                                                      *)

SendReady(r) == r # 0

RecvReady(credits, r) == r # credits

CreditUpdate(credits, r, i) ==
  LET send == i.send /\ SendReady(r)
      recv == i.recv /\ RecvReady(credits, r)
  IN IF send /\ ~recv THEN r - 1 ELSE IF recv /\ ~send THEN r + 1 ELSE r

-----------------------------------------------------------------------------
(* DmaEngine: addresses and the length are numbers below `space', the      *)
(* values of a register of addr_width bits; stride is data_width // 8.     *)

DmaReset(r) == [r EXCEPT !.state = "IDLE", !.remain = 0]

\* mutant: done when nothing remains, looked at before the word is counted
DmaFsmOneMore(space, stride, r, i) ==
  CASE r.state = "IDLE" /\ i.start ->
         [r EXCEPT !.src = i.src, !.dst = i.dst, !.remain = i.length, !.state = "READ"]
    [] r.state = "READ" /\ i.rdValid -> [r EXCEPT !.buf = i.rdData, !.state = "WRITE"]
    [] r.state = "WRITE" /\ i.wrReady ->
         [r EXCEPT !.src = (@ + stride) % space, !.dst = (@ + stride) % space,
                   !.remain = (@ + space - 1) % space,
                   !.state = IF r.remain = 0 THEN "DONE" ELSE "READ"]
    [] r.state = "DONE" -> [r EXCEPT !.state = "IDLE"]
    [] OTHER -> r

DmaFsm(space, stride, r, i) ==
  CASE r.state = "IDLE" /\ i.start ->
         [r EXCEPT !.src = i.src, !.dst = i.dst, !.remain = i.length, !.state = "READ"]
    [] r.state = "READ" /\ i.rdValid -> [r EXCEPT !.buf = i.rdData, !.state = "WRITE"]
    [] r.state = "WRITE" /\ i.wrReady ->
         [r EXCEPT !.src = (@ + stride) % space, !.dst = (@ + stride) % space,
                   !.remain = (@ + space - 1) % space,
                   !.state = IF r.remain = 1 THEN "DONE" ELSE "READ"]
    [] r.state = "DONE" -> [r EXCEPT !.state = "IDLE"]
    [] OTHER -> r

DmaDone(r) == r.state = "DONE"

DmaBusy(r) == r.state # "IDLE"

-----------------------------------------------------------------------------
(* IntController: pending interrupts are those that rose and were not      *)
(* cleared; a bit cleared at the edge it rises at stays clear.             *)

\* mutant: clearing one interrupt clears them all
IntClearsAll(r, i) ==
  [ier |-> IF i.ierWe THEN i.ierData ELSE r.ier,
   ipr |-> IF i.clear = {} THEN r.ipr \cup (i.irq \ r.last) ELSE {}, last |-> i.irq]

IntUpdate(r, i) ==
  [ier  |-> IF i.ierWe THEN i.ierData ELSE r.ier,
   ipr  |-> (r.ipr \cup (i.irq \ r.last)) \ i.clear,
   last |-> i.irq]

IrqOut(r) == r.ipr \cap r.ier # {}
=============================================================================
