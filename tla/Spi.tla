--------------------------------- MODULE Spi ---------------------------------
(***************************************************************************)
(* examples/spi_controller.py with the peripheral and the driver of        *)
(* examples/spi_driver.py.  The controller takes words into a FIFO of four *)
(* and shifts them out while it shifts the peripheral's bits in; `spi'     *)
(* holds its registers, `wire' what the peripheral has seen of the frame,  *)
(* `host' what the driver has sent and waits for.                          *)
(***************************************************************************)
EXTENDS IpBlocks, Sequences, SequencesExt

CONSTANTS
  Width,       \* bits of a word
  ClkDiv,      \* system clocks of half a period of sclk
  SpiWords     \* the words that are sent and answered

ASSUME SpiAssumption ==
  /\ Width \in 1..15
  /\ ClkDiv \in 1..255
  /\ SpiWords # {} /\ \A w \in SpiWords : w \in 0 .. 2^Width - 1

VARIABLES spi, wire, host

spiVars == <<spi, wire, host>>

SpiFifoDout(fifo) == SyncFifoDout(4, fifo)

SpiFifo(fifo, i) == SyncFifoUpdate(4, fifo, i)

Pop(c) == c.state = "IDLE" /\ c.fifo.cnt # 0

CsN(c) == c.state \notin {"LOAD", "SHIFT"}

Sclk(c) == c.state = "SHIFT" /\ c.sclk

Mosi(c) == IF c.state = "SHIFT" THEN c.out \div 2^(Width - 1) ELSE 0

TxReady(c) == c.fifo.cnt # 4

RxValid(c) == c.state = "DONE"

\* mutant: the transfer ends with the rise of the last bit
CtrlEarly(c) ==
  CASE c.state = "IDLE" -> IF Pop(c) THEN "LOAD" ELSE "IDLE"
    [] c.state = "LOAD" -> "SHIFT"
    [] c.state = "SHIFT" -> IF c.bit = Width - 1 /\ c.sclk THEN "DONE" ELSE "SHIFT"
    [] c.state = "DONE" -> "IDLE"

\* mutant: a word that waits is not seen
CtrlAsleep(c) ==
  CASE c.state = "IDLE" -> IF c.fifo.cnt > 1 THEN "LOAD" ELSE "IDLE"
    [] c.state = "LOAD" -> "SHIFT"
    [] c.state = "SHIFT" -> IF c.bit = Width /\ c.clk = 0 THEN "DONE" ELSE "SHIFT"
    [] c.state = "DONE" -> "IDLE"

Ctrl(c) ==
  CASE c.state = "IDLE" -> IF Pop(c) THEN "LOAD" ELSE "IDLE"
    [] c.state = "LOAD" -> "SHIFT"
    [] c.state = "SHIFT" -> IF c.bit = Width /\ c.clk = 0 THEN "DONE" ELSE "SHIFT"
    [] c.state = "DONE" -> "IDLE"

\* The FIFO has moved on when its output is loaded: it was popped one state
\* before.
ShiftLogic(c, miso) ==
  CASE c.state = "LOAD" ->
         [c EXCEPT !.out = SpiFifoDout(c.fifo), !.in = 0, !.bit = 0, !.clk = 0, !.sclk = FALSE]
    [] c.state = "SHIFT" /\ c.clk # ClkDiv - 1 -> [c EXCEPT !.clk = @ + 1]
    [] c.state = "SHIFT" /\ c.clk = ClkDiv - 1 /\ ~c.sclk ->
         [c EXCEPT !.clk = 0, !.sclk = TRUE]
    [] c.state = "SHIFT" /\ c.clk = ClkDiv - 1 /\ c.sclk ->
         [c EXCEPT !.clk = 0, !.sclk = FALSE, !.out = (@ * 2) % 2^Width,
                   !.in = (@ * 2 + miso) % 2^Width, !.bit = (@ + 1) % 16]
    [] OTHER -> c

SpiEdgeOf(c, i) ==
  [ShiftLogic(c, i.miso) EXCEPT
     !.state = Ctrl(c),
     !.fifo = SpiFifo(c.fifo, [push |-> i.txValid /\ TxReady(c), pop |-> Pop(c),
                               din |-> i.txData])]

-----------------------------------------------------------------------------
(* The peripheral: samples mosi at the rise of sclk, and shows its next    *)
(* bit at the fall; it answers a word of its own.  `word' is what the      *)
(* controller loaded for this frame.                                       *)

IdleWire == [sr |-> 0, rises |-> 0, word |-> 0, answer |-> CHOOSE w \in SpiWords : TRUE]

Miso(p) == IF p.rises > Width THEN 0 ELSE
           LET k == IF p.rises = 0 THEN 1 ELSE p.rises IN (p.answer \div 2^(Width - k)) % 2

ShiftReg(p, c, d) ==
  IF Sclk(d) /\ ~Sclk(c) /\ ~CsN(d)
  THEN [p EXCEPT !.sr = (@ * 2 + Mosi(d)) % 2^Width, !.rises = @ + 1]
  ELSE [p EXCEPT !.word = IF c.state = "LOAD" THEN d.out ELSE @]

-----------------------------------------------------------------------------
(* The driver sends, each time when tx_ready is high and for one clock;    *)
(* a polite one then waits for rx_valid before it sends again, another one *)
(* fills the FIFO, with one word all the time.                             *)

SpiInit ==
  /\ spi = [state |-> "IDLE", out |-> 0, in |-> 0, bit |-> 0, clk |-> 0, sclk |-> FALSE,
            fifo |-> [wptr |-> 0, rptr |-> 0, cnt |-> 0, mem |-> [a \in 0..3 |-> 0]]]
  /\ wire = IdleWire
  /\ \E polite \in BOOLEAN : host = [polite |-> polite, waits |-> FALSE, sent |-> <<>>]

Send(txValid, w) ==
  /\ txValid => TxReady(spi) /\ (host.polite => ~host.waits)
  /\ ~txValid \/ ~host.polite => w = CHOOSE x \in SpiWords : TRUE
  /\ spi' = SpiEdgeOf(spi, [txValid |-> txValid, txData |-> w, miso |-> Miso(wire)])
  /\ \E answer \in SpiWords :
       wire' = IF Pop(spi) THEN [IdleWire EXCEPT !.answer = answer]
               ELSE ShiftReg(wire, spi, spi')
  /\ host' = [host EXCEPT
       !.waits = txValid \/ (host.waits /\ ~RxValid(spi)),
       !.sent = IF txValid /\ host.polite THEN <<w>> ELSE @]

SpiReset ==
  /\ spi' = [spi EXCEPT !.state = "IDLE", !.fifo = SyncFifoReset(spi.fifo), !.out = 0, !.in = 0,
                        !.bit = 0, !.clk = 0, !.sclk = FALSE]
  /\ wire' = IdleWire
  /\ host' = [host EXCEPT !.waits = FALSE, !.sent = <<>>]

SpiNext == (\E txValid \in BOOLEAN, w \in SpiWords : Send(txValid, w)) \/ SpiReset

SpiSpec == SpiInit /\ [][SpiNext]_spiVars

\* The clock runs, the driver sends or does not.
SpiProgress == \E txValid \in BOOLEAN, w \in SpiWords : Send(txValid, w)

SpiFairness == WF_spiVars(SpiProgress)
-----------------------------------------------------------------------------
(* At the end of a transfer both ends have a word: the controller the one  *)
(* of the peripheral, the peripheral the one the controller loaded; and    *)
(* the frame had as many bits as a word.                                   *)
FramesAreWhole ==
  RxValid(spi) =>
    /\ wire.rises = Width
    /\ spi.in = wire.answer
    /\ wire.sr = wire.word

(* A driver that sends and then waits for rx_valid is answered.            *)
SendIsAnswered == (host.polite /\ host.waits) ~> (~host.waits \/ ~host.polite)
=============================================================================
