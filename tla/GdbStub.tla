-------------------------------- MODULE GdbStub --------------------------------
(***************************************************************************)
(* gdb_stub.py: a thread that serves the remote protocol of a debugger     *)
(* over a connection, and below it the memory of soc_sim.py.               *)
(*                                                                         *)
(* A debugger writes items: acknowledgements, interrupts and packets.  The *)
(* bytes of a packet are the tokens $, its command, # and two digits; they *)
(* arrive in pieces of any length.  The cpu is an object of the caller;    *)
(* here it has two registers, of which the second is the program counter.  *)
(***************************************************************************)
EXTENDS Integers, FiniteSets, Sequences, SequencesExt

CONSTANTS
  Debuggers,    \* connections, made one after the other or at once
  Scripts,      \* of each debugger, the sequences of items it may write
  Regions,      \* memory: a sequence of [base, size]
  Uarts,        \* a sequence of [base, size]
  Segments,     \* of the firmware: [vaddr, data, memsz]
  Break,        \* where a continuing cpu halts
  PcSpan        \* values of the program counter

VARIABLES
  stopping,     \* _stop_event
  listening,    \* is the server socket open
  server,       \* the thread: [at, who, buf]
  conn,         \* of each debugger: [state, closed, written, wire, out]
  core,         \* the registers of the cpu
  soc,          \* the buffers of the regions, and what the first UART has put out
  due           \* what a flat machine would have come to: see Asked

gdbVars == <<stopping, listening, server, conn, core, soc, due>>

-------------------------------------------------------------------------------
(* soc_sim.py.  Every access of the stub has one byte.                     *)

In(r, addr) == r.base <= addr /\ addr < r.base + r.size

\* FlatMemory._lookup: the first region that has the address.
LookUp(regions, addr) ==
  LET hits == {i \in DOMAIN regions : In(regions[i], addr)}
  IN IF hits = {} THEN 0 ELSE CHOOSE i \in hits : \A j \in hits : i <= j

FlatRead(mem, addr) ==
  LET i == LookUp(Regions, addr)
  IN IF i = 0 THEN 0 ELSE mem[i][addr - Regions[i].base]

FlatWrite(mem, addr, byte) ==
  LET i == LookUp(Regions, addr)
  IN IF i = 0 THEN mem ELSE [mem EXCEPT ![i][addr - Regions[i].base] = byte]

\* SocSim.read and SocSim.write: peripherals come first.
SocRead(s, addr) == IF LookUp(Uarts, addr) # 0 THEN 0 ELSE FlatRead(s.mem, addr)

SocWrite(s, addr, byte) ==
  LET u == LookUp(Uarts, addr)
  IN IF u = 0 THEN [s EXCEPT !.mem = FlatWrite(@, addr, byte)]
     ELSE IF u = 1 /\ addr = Uarts[1].base THEN [s EXCEPT !.uart = Append(@, byte)] ELSE s

\* load_elf: the bytes of each segment and zeros up to its size in memory, past
\* the peripherals.
LoadSegment(mem, seg) ==
  LET after[i \in 0 .. seg.memsz] ==
        IF i = 0 THEN mem
        ELSE FlatWrite(after[i - 1], seg.vaddr + i - 1,
                       IF i <= Len(seg.data) THEN seg.data[i] ELSE 0)
  IN after[seg.memsz]

Blank == [i \in DOMAIN Regions |-> [o \in 0 .. Regions[i].size - 1 |-> 0]]

LoadElf ==
  LET after[j \in 0 .. Len(Segments)] ==
        IF j = 0 THEN Blank ELSE LoadSegment(after[j - 1], Segments[j])
  IN after[Len(Segments)]

-------------------------------------------------------------------------------
(* _dispatch: the reply to a command and what it does to the machine.      *)

Kind(cmd) == cmd[1]

ReadMem(s, addr, n) == [i \in 1 .. n |-> SocRead(s, addr + i - 1)]

WriteMem(s, addr, bytes) ==
  LET after[i \in 0 .. Len(bytes)] ==
        IF i = 0 THEN s ELSE SocWrite(after[i - 1], addr + i - 1, bytes[i])
  IN after[Len(bytes)]

Steps(regs) == [regs EXCEPT ![2] = (@ + 1) % PcSpan]

NoReply == <<"none">>

\* m = [cpu, soc], the machine.  A read of one register beyond the last is E01.
Dispatch(m, cmd) ==
  LET same(reply) == [machine |-> m, reply |-> reply]
      regs(r, reply) == [machine |-> [m EXCEPT !.cpu = r], reply |-> reply]
  IN CASE Kind(cmd) = "?" -> same(<<"S05">>)
       [] Kind(cmd) = "g" -> same(<<"hex", m.cpu>>)
       [] Kind(cmd) = "G" -> regs(cmd[2], <<"OK">>)
       [] Kind(cmd) = "m" -> same(<<"hex", ReadMem(m.soc, cmd[2], cmd[3])>>)
       [] Kind(cmd) = "M" -> [machine |-> [m EXCEPT !.soc = WriteMem(@, cmd[2], cmd[3])],
                              reply |-> <<"OK">>]
       [] Kind(cmd) = "p" -> same(IF cmd[2] \in DOMAIN m.cpu THEN <<"hex", <<m.cpu[cmd[2]]>>>>
                                  ELSE <<"E01">>)
       [] Kind(cmd) = "P" -> IF cmd[2] \in DOMAIN m.cpu
                             THEN regs([m.cpu EXCEPT ![cmd[2]] = cmd[3]], <<"OK">>)
                             ELSE same(<<"E01">>)
       [] Kind(cmd) = "s" -> regs(Steps(m.cpu), <<"S05">>)
       [] Kind(cmd) = "k" -> same(NoReply)
       [] Kind(cmd) = "q" -> same(<<"QC1">>)
       [] OTHER -> same(<<"">>)

-------------------------------------------------------------------------------
(* _handle.                                                                *)

Ack == <<"+">>
Interrupt == <<"^C">>
Packet(cmd) == <<<<"$">>, cmd, <<"#">>, <<"digit">>, <<"digit">>>>
IsPacket(item) == item \notin {Ack, Interrupt}
TokensOf(item) == IF IsPacket(item) THEN Packet(item) ELSE <<item>>

\* Commands that can be parsed; their letters are not those of the other tokens.
IsItem(item) ==
  \/ item \in {Ack, Interrupt}
  \/ /\ Kind(item) \notin {"+", "^C", "$", "#", "digit"}
     /\ Kind(item) \in {"m", "M"} => item[2] \in Nat
     /\ Kind(item) = "m" => item[3] \in Nat
     /\ Kind(item) = "M" => item[3] \in Seq(0 .. 255)

ASSUME GdbAssumption ==
  /\ "none" \notin Debuggers
  /\ \A d \in Debuggers : \A script \in Scripts[d] : \A k \in DOMAIN script : IsItem(script[k])
  /\ Regions \in Seq([base : Nat, size : Nat])
  /\ Uarts \in Seq([base : Nat, size : Nat \ {0}])
  /\ Segments \in Seq([vaddr : Nat, data : Seq(0 .. 255), memsz : Nat])
  /\ \A j \in DOMAIN Segments : Len(Segments[j].data) <= Segments[j].memsz

Find(buf, token, from) == SelectInSubSeq(buf, from, Len(buf), LAMBDA t : t = token)

\* One turn of the loop over the buffer, given how much must follow the #.
\* what: "skip" (an acknowledgement, or bytes that begin no packet), "interrupt",
\* "packet", or "wait" for more data, which an empty buffer does.
ParseWith(buf, digits) ==
  LET start == Find(buf, <<"$">>, 1)
      end == Find(buf, <<"#">>, start + 1)
      rest(n) == SubSeq(buf, n, Len(buf))
      found(what, cmd, left) == [what |-> what, cmd |-> cmd, rest |-> left]
  IN IF buf = <<>> THEN found("wait", NoReply, buf)
     ELSE IF buf[1] = Ack THEN found("skip", NoReply, rest(2))
     ELSE IF buf[1] = Interrupt THEN found("interrupt", NoReply, rest(2))
     ELSE IF start = 0 THEN found("skip", NoReply, <<>>)
     ELSE IF end = 0 \/ end + digits > Len(buf) THEN found("wait", NoReply, buf)
     ELSE found("packet", buf[start + 1], rest(end + 3))

\* mutants: one digit of the checksum is enough; a byte after it is waited for
ParseHasty(buf) == ParseWith(buf, 1)
ParseLate(buf) == ParseWith(buf, 3)

Parse(buf) == ParseWith(buf, 2)

-------------------------------------------------------------------------------
(* What a debugger is to see: the registers, and one flat memory in which  *)
(* every address that is in a region and not in a peripheral keeps what    *)
(* was written to it last.                                                 *)

Keeps(a) == (\E i \in DOMAIN Regions : In(Regions[i], a)) /\ ~\E i \in DOMAIN Uarts : In(Uarts[i], a)

\* The firmware, each segment over the ones before it.
FirmwareAt(a) ==
  LET of == {i \in DOMAIN Segments : In([base |-> Segments[i].vaddr, size |-> Segments[i].memsz], a)}
      seg == Segments[CHOOSE i \in of : \A j \in of : j <= i]
      at == a - seg.vaddr + 1
  IN IF of = {} \/ at > Len(seg.data) THEN 0 ELSE seg.data[at]

Stored(bytes, addr, data) ==
  [a \in DOMAIN bytes |-> IF a \in addr .. addr + Len(data) - 1 THEN data[a - addr + 1] ELSE bytes[a]]

\* What a write puts into the transmit register of the first UART.
Printed(addr, data) ==
  IF Uarts = <<>> THEN <<>>
  ELSE LET at == Uarts[1].base - addr + 1 IN IF at \in DOMAIN data THEN <<data[at]>> ELSE <<>>

AddressesKept ==
  {a \in UNION {r.base .. r.base + r.size - 1 : r \in Range(Regions)} : Keeps(a)}

\* x = [cpu, bytes, printed, said, served] when the item of debugger d has been
\* served as well: what was said to each debugger and which of its items it answers.
Replied(x, d, cmd) ==
  LET done == Dispatch([cpu |-> x.cpu, soc |-> soc], cmd)
      says(replies) == [x.said EXCEPT ![d] = @ \o replies]
      at(a) == IF a \in AddressesKept THEN x.bytes[a] ELSE 0
  IN CASE cmd = Ack -> x
       [] cmd = Interrupt -> [x EXCEPT !.said = says(<<Ack, <<"S05">>>>)]
       [] Kind(cmd) = "c" -> [x EXCEPT !.said = says(<<Ack, <<"S05">>>>), !.cpu[2] = Break]
       [] Kind(cmd) = "k" -> [x EXCEPT !.said = says(<<Ack>>)]
       [] Kind(cmd) = "m" -> [x EXCEPT !.said =
            says(<<Ack, <<"hex", [i \in 1 .. cmd[3] |-> at(cmd[2] + i - 1)]>>>>)]
       [] Kind(cmd) = "M" -> [x EXCEPT !.said = says(<<Ack, <<"OK">>>>),
                                       !.bytes = Stored(@, cmd[2], cmd[3]),
                                       !.printed = @ \o Printed(cmd[2], cmd[3])]
       [] OTHER -> [x EXCEPT !.said = says(<<Ack, done.reply>>), !.cpu = done.machine.cpu]

Asked(x, d, cmd) == [Replied(x, d, cmd) EXCEPT !.served[d] = Append(@, cmd)]

-------------------------------------------------------------------------------
(* The thread.                                                             *)

NoOne == "none"
Idle == [at |-> "accept", who |-> NoOne, buf |-> <<>>]
Ended == [Idle EXCEPT !.at = "ended"]

GdbInit ==
  /\ stopping = FALSE /\ listening = TRUE
  /\ server = Idle
  /\ conn = [d \in Debuggers |-> [state |-> "away", closed |-> FALSE, written |-> <<>>,
                                  wire |-> <<>>, out |-> <<>>]]
  /\ core = [i \in 1 .. 2 |-> 0]
  /\ soc = [mem |-> LoadElf, uart |-> <<>>]
  /\ due = [cpu |-> core, bytes |-> [a \in AddressesKept |-> FirmwareAt(a)], printed |-> <<>>,
            said |-> [d \in Debuggers |-> <<>>], served |-> [d \in Debuggers |-> <<>>]]

\* sendall.  To a peer that has closed it may fail, which closes the connection
\* and ends the thread: only recv is guarded.
Sent(s, replies) ==
  LET d == s.who
  IN \/ /\ server' = s
        /\ conn' = [conn EXCEPT ![d].out = @ \o replies]
     \/ /\ conn[d].closed
        /\ server' = Ended
        /\ conn' = [conn EXCEPT ![d].state = "over"]

\* accept returns a connection, or _serve finds that it is to stop.
Accept(d) ==
  /\ server.at = "accept" /\ listening /\ conn[d].state = "waiting"
  /\ server' = [at |-> "recv", who |-> d, buf |-> <<>>]
  /\ conn' = [conn EXCEPT ![d].state = "taken"]
  /\ UNCHANGED <<stopping, listening, core, soc, due>>

ServeEnds ==
  /\ server.at = "accept" /\ stopping
  /\ server' = Ended
  /\ UNCHANGED <<stopping, listening, conn, core, soc, due>>

\* recv returns the next n tokens.
Receive(n) ==
  /\ server.at = "recv"
  /\ LET d == server.who IN
       /\ n \in 1 .. Len(conn[d].wire)
       /\ server' = [server EXCEPT !.at = "parse", !.buf = @ \o SubSeq(conn[d].wire, 1, n)]
       /\ conn' = [conn EXCEPT ![d].wire = SubSeq(@, n + 1, Len(@))]
  /\ UNCHANGED <<stopping, listening, core, soc, due>>

\* The debugger has closed, or the stub is to stop: back to _serve.
Leave ==
  /\ server.at = "recv"
  /\ \/ stopping
     \/ conn[server.who].closed /\ conn[server.who].wire = <<>>
  /\ server' = Idle
  /\ conn' = [conn EXCEPT ![server.who].state = "over"]
  /\ UNCHANGED <<stopping, listening, core, soc, due>>

\* A turn of `while buf'.  A packet is acknowledged before it is dispatched; the
\* acknowledgement may be what fails.
Turn ==
  /\ server.at = "parse"
  /\ \E p \in {Parse(server.buf)}, d \in {server.who} :
       LET going == [server EXCEPT !.buf = p.rest]
           serve(item) == due' = Asked(due, d, item)
       IN
        \/ /\ p.what = "wait"
           /\ server' = [server EXCEPT !.at = "recv"]
           /\ UNCHANGED <<conn, core, soc, due>>
        \/ /\ p.what = "skip"
           /\ server' = going
           /\ due' = IF server.buf[1] = Ack THEN Asked(due, d, Ack) ELSE due
           /\ UNCHANGED <<conn, core, soc>>
        \/ /\ p.what = "interrupt"
           /\ Sent(going, <<Ack, <<"S05">>>>)
           /\ serve(Interrupt)
           /\ UNCHANGED <<core, soc>>
        \/ /\ p.what = "packet" /\ conn[d].closed
           /\ server' = Ended
           /\ conn' = [conn EXCEPT ![d].state = "over"]
           /\ UNCHANGED <<core, soc, due>>
        \/ /\ p.what = "packet" /\ Kind(p.cmd) = "c"
           /\ server' = [going EXCEPT !.at = "cont"]
           /\ conn' = [conn EXCEPT ![d].out = Append(@, Ack)]
           /\ serve(p.cmd)
           /\ UNCHANGED <<core, soc>>
        \/ /\ p.what = "packet" /\ Kind(p.cmd) # "c"
           /\ \E done \in {Dispatch([cpu |-> core, soc |-> soc], p.cmd)} :
                /\ Sent(going, IF done.reply = NoReply THEN <<Ack>> ELSE <<Ack, done.reply>>)
                /\ core' = done.machine.cpu /\ soc' = done.machine.soc
           /\ serve(p.cmd)
  /\ UNCHANGED <<stopping, listening>>

\* cpu.cont() returns.
Halt ==
  /\ server.at = "cont"
  /\ core' = [core EXCEPT ![2] = Break]
  /\ Sent([server EXCEPT !.at = "parse"], <<<<"S05">>>>)
  /\ UNCHANGED <<stopping, listening, soc, due>>

\* stop(): it sets the event, closes the socket and waits two seconds for the
\* thread.
Stop ==
  /\ ~stopping
  /\ stopping' = TRUE /\ listening' = FALSE
  /\ UNCHANGED <<server, conn, core, soc, due>>

-------------------------------------------------------------------------------
(* The debuggers.                                                          *)

Connect(d) ==
  /\ conn[d].state = "away" /\ listening
  /\ conn' = [conn EXCEPT ![d].state = "waiting"]
  /\ UNCHANGED <<stopping, listening, server, core, soc, due>>

\* It writes the items of one script in turn, and may stop after each.
Write(d, item) ==
  /\ conn[d].state \in {"waiting", "taken"} /\ ~conn[d].closed
  /\ \E script \in Scripts[d] : IsPrefix(Append(conn[d].written, item), script)
  /\ conn' = [conn EXCEPT ![d].written = Append(@, item), ![d].wire = @ \o TokensOf(item)]
  /\ UNCHANGED <<stopping, listening, server, core, soc, due>>

Close(d) ==
  /\ conn[d].state \in {"waiting", "taken"} /\ ~conn[d].closed
  /\ conn' = [conn EXCEPT ![d].closed = TRUE]
  /\ UNCHANGED <<stopping, listening, server, core, soc, due>>

Takes == \E d \in Debuggers : Accept(d)
Arrives == \E d \in Debuggers : \E n \in DOMAIN conn[d].wire : d = server.who /\ Receive(n)

Debugs == \E d \in Debuggers : Connect(d) \/ Close(d)
                               \/ \E item \in UNION {Range(script) : script \in Scripts[d]} : Write(d, item)

\* The thread has ended, and the debuggers may stop as well.
Over == server.at = "ended" /\ UNCHANGED gdbVars

GdbNext == Over \/ Takes \/ Arrives \/ Leave \/ ServeEnds \/ Turn \/ Halt \/ Debugs \/ Stop

GdbSpec == GdbInit /\ [][GdbNext]_gdbVars

\* The thread goes on: it is one sequential program, so one condition is enough.
\* It assumes that data arrive and that a continuing cpu meets a breakpoint.
GdbProgress == Takes \/ Arrives \/ Leave \/ Turn \/ Halt
GdbFairness == WF_gdbVars(GdbProgress)

(* However the stream is cut into pieces, each debugger gets one answer to *)
(* everything it asks, in its order, the answer of a flat machine that     *)
(* was asked the same by all of them, and the UART prints what was written *)
(* to it; an interrupt that comes while the cpu runs is answered after the *)
(* answer to `c'.  Nothing is left in the buffer that could have been      *)
(* answered, and the thread ends only if it is told to stop or a debugger  *)
(* left.                                                                   *)
AnswersInOrder ==
  /\ \A d \in Debuggers :
       LET runs == server.at = "cont" /\ server.who = d IN
       /\ IsPrefix(due.served[d], conn[d].written)
       /\ ~conn[d].closed => conn[d].out = IF runs THEN Front(due.said[d]) ELSE due.said[d]
       /\ server.at = "recv" /\ server.who = d /\ conn[d].wire = <<>>
            => due.served[d] = conn[d].written
  /\ soc.uart = due.printed
  /\ server.at = "ended" => stopping \/ \E d \in Debuggers : conn[d].closed

(* A debugger that stays gets its answers while the stub is not stopped.   *)
Waits(d) == conn[d].state = "taken" /\ ~conn[d].closed
            /\ (due.served[d] # conn[d].written \/ (server.at = "cont" /\ server.who = d))
CommandsAnswered == \A d \in Debuggers : Waits(d) ~> ~Waits(d)
=================================================================================
