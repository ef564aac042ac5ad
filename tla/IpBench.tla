------------------------------- MODULE IpBench -------------------------------
(***************************************************************************)
(* One block of ip.py on a bench that drives its inputs in every way: at   *)
(* each edge of the clock any input, any time a reset.  `block' says which *)
(* block it is, `reg' holds its registers, `seen' what an observer of its  *)
(* ports has noted.  The DMA engine stands together with the interrupt     *)
(* controller its `done' is wired to and a driver that starts transfers,   *)
(* waits for the interrupt and clears it.                                  *)
(***************************************************************************)
EXTENDS IpBlocks, Sequences, SequencesExt

CONSTANTS
  FifoDepth, Words,      \* of the FIFO: a power of two, a set of words
  Requestors,            \* how many ask the arbiter
  Threshold,             \* of the debouncer
  Credits,               \* of the flow control
  Space,                 \* how many addresses the DMA engine has
  JointEdges             \* bound: edges between two resets that push and pop the FIFO

ASSUME IpAssumption ==
  /\ \E k \in 1..8 : FifoDepth = 2^k
  /\ Words # {}
  /\ {FifoDepth, Requestors, Threshold, Credits, Space} \subseteq Nat \ {0}
  /\ Space > 1
  /\ JointEdges \in Nat

VARIABLES block, reg, seen

ipVars == <<block, reg, seen>>

Agents == 0 .. Requestors - 1

Addresses == 0 .. Space - 1

NothingPushed == [words |-> <<>>, joint |-> 0]

NoTransfer == [src |-> 0, dst |-> 0, length |-> 0]

\* All registers are 0 at first, memories too.
IpInit ==
  \/ /\ block = "SyncFifo"
     /\ reg = [wptr |-> 0, rptr |-> 0, cnt |-> 0, mem |-> [a \in 0 .. FifoDepth - 1 |-> 0]]
     /\ seen = NothingPushed
  \/ /\ block = "RoundRobinArbiter"
     /\ reg = [ptr |-> 0, grant |-> {}, fixed |-> {}]
     /\ seen = [a \in Agents |-> 0]
  \/ /\ block = "Debouncer"
     /\ reg = [deb |-> [cnt |-> 0, q |-> FALSE],
               edge |-> [prev |-> FALSE, rise |-> FALSE, fall |-> FALSE, toggle |-> FALSE],
               div |-> [cnt |-> 0, out |-> FALSE]]
     /\ seen = <<>>
  \/ /\ block = "CreditFlowControl"
     /\ reg = Credits
     /\ seen = 0
  \/ /\ block = "DmaEngine"
     /\ reg = [dma |-> [state |-> "IDLE", src |-> 0, dst |-> 0, remain |-> 0, buf |-> 0],
               int |-> [ier |-> {}, ipr |-> {}, last |-> {}]]
     /\ seen = [driver |-> "enable", asked |-> NoTransfer, moved |-> <<>>, pending |-> {}]

-----------------------------------------------------------------------------
(* The edges of the clock.                                                 *)

\* The observer notes the words that went in and have not come out, and counts
\* the edges at which one did each.
SyncFifoEdge ==
  /\ block = "SyncFifo"
  /\ \E push, pop \in BOOLEAN, w \in Words :
       LET i == [push |-> push, pop |-> pop, din |-> w]
           in == Pushes(FifoDepth, reg, i)
           out == Pops(reg, i)
       IN /\ in /\ out => seen.joint < JointEdges
          /\ reg' = SyncFifoUpdate(FifoDepth, reg, i)
          /\ seen' = [words |-> (IF out THEN Tail(seen.words) ELSE seen.words)
                                   \o (IF in THEN <<w>> ELSE <<>>),
                      joint |-> seen.joint + IF in /\ out THEN 1 ELSE 0]
  /\ UNCHANGED block

\* The observer counts for how many edges each agent has asked in vain.
ArbiterEdge ==
  /\ block = "RoundRobinArbiter"
  /\ \E req \in SUBSET Agents :
       /\ LET rr == RoundRobinUpdate(Requestors, [ptr |-> reg.ptr, grant |-> reg.grant], req)
          IN reg' = [ptr |-> rr.ptr, grant |-> rr.grant, fixed |-> PriorityUpdate(Requestors, req)]
       /\ seen' = [a \in Agents |-> IF a \in req \ reg'.grant THEN seen[a] + 1 ELSE 0]
  /\ UNCHANGED block

\* The debouncer, the edge detector and the divider on one input; the observer
\* keeps the last samples.
DebouncerEdge ==
  /\ block = "Debouncer"
  /\ \E d \in BOOLEAN :
       /\ reg' = [deb |-> DebouncerLogic(Threshold, reg.deb, d),
                  edge |-> EdgeDetectorSample(reg.edge, d),
                  div |-> ClockDividerDivide(Threshold, reg.div)]
       /\ seen' = IF Len(seen) = Threshold THEN Append(Tail(seen), d) ELSE Append(seen, d)
  /\ UNCHANGED block

\* The observer counts what is on its way.
CreditEdge ==
  /\ block = "CreditFlowControl"
  /\ \E send, recv \in BOOLEAN :
       /\ reg' = CreditUpdate(Credits, reg, [send |-> send, recv |-> recv])
       /\ seen' = seen + (IF send /\ SendReady(reg) THEN 1 ELSE 0)
                       - (IF recv /\ RecvReady(Credits, reg) THEN 1 ELSE 0)
  /\ UNCHANGED block

(* The driver: enables both interrupts, starts a transfer for one edge,    *)
(* waits, reads what is pending, clears what it has read; it sleeps at     *)
(* every edge as long as it likes (`awake').  The bus answers when it      *)
(* likes (`answers'); the word at an address is the address.  Another      *)
(* source of interrupts is free (`noise').                                 *)
DmaEdge(awake, answers, noise) ==
  /\ block = "DmaEngine"
  /\ \E t \in [src : {0, Space - 1}, dst : {0}, length : Addresses] :
       LET starts == awake /\ seen.driver = "idle"
           clears == awake /\ seen.driver = "handle"
           dma == reg.dma
           moves == dma.state = "WRITE" /\ answers
       IN /\ ~starts => t = NoTransfer
          /\ reg' = [dma |-> DmaFsm(Space, 1, dma,
                               [start |-> starts, src |-> t.src, dst |-> t.dst,
                                length |-> t.length, rdValid |-> answers,
                                rdData |-> dma.src, wrReady |-> answers]),
                     int |-> IntUpdate(reg.int,
                               [irq |-> (IF DmaDone(dma) THEN {0} ELSE {})
                                          \cup (IF noise THEN {1} ELSE {}),
                                ierWe |-> awake /\ seen.driver = "enable", ierData |-> {0, 1},
                                clear |-> IF clears THEN seen.pending ELSE {}])]
          /\ seen' = [driver |->
                        IF ~awake THEN seen.driver
                        ELSE CASE seen.driver = "enable" -> "idle"
                               [] seen.driver = "idle" -> "wait"
                               [] seen.driver = "wait" ->
                                    IF IrqOut(reg.int) THEN "handle" ELSE "wait"
                               [] seen.driver = "handle" ->
                                    IF 0 \in seen.pending THEN "idle" ELSE "wait",
                      asked |-> IF starts THEN t ELSE seen.asked,
                      moved |-> IF starts THEN <<>>
                                ELSE IF moves THEN Append(seen.moved, <<dma.dst, dma.buf>>)
                                ELSE seen.moved,
                      pending |-> IF awake /\ seen.driver = "wait" THEN reg.int.ipr
                                  ELSE seen.pending]
  /\ UNCHANGED block

DriverIs(at) == block = "DmaEngine" /\ seen.driver = at

\* An edge with reset high; memories and data registers keep what they hold.
ResetEdge ==
  /\ \/ /\ block = "SyncFifo"
        /\ reg' = SyncFifoReset(reg)
        /\ seen' = NothingPushed
     \/ /\ block = "RoundRobinArbiter"
        /\ reg' = [ptr |-> 0, grant |-> {}, fixed |-> {}]
        /\ seen' = [a \in Agents |-> 0]
     \/ /\ block = "CreditFlowControl"
        /\ reg' = Credits
        /\ seen' = 0
     \/ /\ block = "DmaEngine"
        /\ reg' = [dma |-> DmaReset(reg.dma), int |-> [ier |-> {}, ipr |-> {}, last |-> {}]]
        /\ seen' = [driver |-> "enable", asked |-> NoTransfer, moved |-> <<>>, pending |-> {}]
  /\ UNCHANGED block

IpNext ==
  \/ SyncFifoEdge
  \/ ArbiterEdge
  \/ DebouncerEdge
  \/ CreditEdge
  \/ \E awake, answers, noise \in BOOLEAN : DmaEdge(awake, answers, noise)
  \/ ResetEdge

IpSpec == IpInit /\ [][IpNext]_ipVars

\* The bus answers again and again and the driver does not sleep for ever.
IpProgress == \E noise \in BOOLEAN : DmaEdge(TRUE, TRUE, noise)

IpFairness == WF_ipVars(IpProgress)
-----------------------------------------------------------------------------
FifoIsQueue ==
  block = "SyncFifo" =>
    /\ reg.cnt = Len(seen.words) - seen.joint
    /\ reg.cnt <= FifoDepth
    /\ Len(seen.words) \in 1 .. FifoDepth => SyncFifoDout(FifoDepth, reg) = Head(seen.words)

CreditsConserved ==
  block = "CreditFlowControl" => reg \in 0 .. Credits /\ seen = Credits - reg

\* n samples that differ from the output have come since the last that did not.
DebounceCounts ==
  block = "Debouncer" =>
    LET n == reg.deb.cnt
        sample(k) == seen[Len(seen) + 1 - k]
    IN /\ n <= Len(seen) /\ n < Threshold
       /\ \A k \in 1 .. n : sample(k) # reg.deb.q
       /\ n < Len(seen) => sample(n + 1) = reg.deb.q
       /\ Len(seen) < Threshold => ~reg.deb.q

(* The blocks that count agree with an observer of their ports.  The FIFO  *)
(* shows the oldest word as long as there are no more than it has room     *)
(* for, and its count is what was pushed and not popped less the edges     *)
(* that did both: such an edge moves both words and takes one off the      *)
(* count, whatever comes before and after.  Credits and what is on its way *)
(* add up, so that a sender that waits for send_ready never has more on    *)
(* its way than there is room for; and the debounced output has resisted   *)
(* every glitch, for the counter knows how many samples in a row were      *)
(* against it.                                                             *)
BlocksKeepCount == FifoIsQueue /\ CreditsConserved /\ DebounceCounts

(* The count of the FIFO is the words inside, pushed and not popped: the   *)
(* `current occupancy' of docs/guide.md:730.                               *)
CountIsOccupancy == block = "SyncFifo" => reg.cnt = Len(seen.words)

(* An agent that goes on asking is granted after at most as many edges as  *)
(* there are agents; never are two granted.                                *)
NobodyStarves ==
  block = "RoundRobinArbiter" =>
    /\ \A a \in Agents : seen[a] < Requestors
    /\ Cardinality(reg.grant) <= 1 /\ Cardinality(reg.fixed) <= 1

(* What the DMA engine was asked to move is moved, word by word and in     *)
(* order, and at `done' nothing is missing.  A length of zero is as many   *)
(* words as there are addresses: the counter wraps.                        *)
DmaMovesTheWords ==
  block = "DmaEngine" =>
    LET words == IF seen.asked.length = 0 THEN Space ELSE seen.asked.length
        plan == [k \in 1 .. words |-> <<(seen.asked.dst + k - 1) % Space,
                                        (seen.asked.src + k - 1) % Space>>]
    IN DmaBusy(reg.dma) =>
         /\ IsPrefix(seen.moved, plan)
         /\ DmaDone(reg.dma) => seen.moved = plan

(* A driver that waits for its transfer is told of its end, whatever else  *)
(* interrupts it meanwhile.                                                *)
TransferNoticed == DriverIs("wait") ~> DriverIs("idle")
=============================================================================
