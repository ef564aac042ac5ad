------------------------------ MODULE SimEngine ------------------------------
(***************************************************************************)
(* CySimEngine, the event loop that drives every veripy test bench.        *)
(*                                                                         *)
(* The engine is one thread.  Test bench blocks are Python generators; the *)
(* engine resumes one at a time and it runs until it yields a delay,       *)
(* yields an Until, returns, or raises.  Sleeping generators are in a heap *)
(* ordered by (time, sequence number); generators that wait for a          *)
(* condition are in a list that is scanned after each evaluation of the    *)
(* device under test.  When a clock is registered its toggles are          *)
(* interleaved with the heap by run() itself.                              *)
(*                                                                         *)
(* The control of run() is the variable mode:                              *)
(*   start   before the first eval        settle  eval after a generator   *)
(*   top     the test of the outer loop   check   inside _check_waiting    *)
(*   fast    the inner clock loop         run     a generator is running   *)
(*   done, deadlock, raised               run() has returned or raised     *)
(*                                                                         *)
(* A block is any program: it chooses freely what to do at each            *)
(* resumption, at most Fuel[p] times.  The device is abstracted to its clock  *)
(* pin, the rising edges it has evaluated, and one output, out, that any   *)
(* evaluation may change.                                                  *)
(***************************************************************************)
EXTENDS Integers, FiniteSets

CONSTANTS
  Initials,   \* blocks registered with initial()
  Alwayses,   \* blocks registered with always()
  Kids,       \* blocks that fork() and fork_any() may launch
  Rank,       \* registration order of the blocks, argument order of a fork
  Ranks,      \* a bound of the ranks
  Period,     \* the argument of clock(), 0 when no clock is registered
  Delays,     \* the delays a block yields
  Timeouts,   \* the timeouts of an until(), None among them or not
  Cycles,     \* the arguments of run_cycles()
  Fuel,       \* bound: yields and restarts of each block
  MaxTime,    \* bound: the last instant the clock may toggle at
  None

Roots == Initials \cup Alwayses
Procs == Roots \cup Kids

(* self._clk_half = period // 2                                            *)
Half == Period \div 2

ASSUME ConfigAssumption ==
  /\ IsFiniteSet(Initials)
  /\ Initials \cap Alwayses = {} /\ Roots \cap Kids = {}
  /\ None \notin Procs /\ None \notin Nat
  /\ Ranks \in Nat \ {0} /\ Rank \in [Procs -> 0..(Ranks - 1)]
  /\ \A p, q \in Procs : Rank[p] = Rank[q] => p = q
  /\ Period \in Nat /\ MaxTime \in Nat /\ Fuel \in [Procs -> Nat]
  /\ Delays \subseteq Nat /\ Cycles \subseteq Nat
  /\ Timeouts \subseteq Nat \cup {None}

VARIABLES
  mode,         \* where run() is
  ret,          \* where _check_waiting returns to: "top" or "fast"
  cur, how,     \* the running block; "event", "wake" or "throw"
  horizon,      \* next_gen_t
  cursor,       \* the last element of _waiting the scan has passed
  queue,        \* _queue: sleeping blocks
  waiting,      \* _waiting: blocks at an until, in the order of their stamps
  seq,          \* _seq; it stamps the elements of _waiting too
  time,         \* self.time
  clkVal, clkNext,    \* the clock state local to run()
  pin, prev,    \* the clock pin of the model, and its value at the last eval
  edges,        \* rising edges the model has evaluated
  out,          \* an output of the model
  finished,     \* _finished
  initialCount, \* _initial_count
  returned,     \* history: blocks that ended with StopIteration in _resume
  dropped,      \* history: blocks lost after a TimeoutError was thrown in
  joined,       \* the kids whose fork callback has run (the sets "done")
  asked,        \* history: a block has called finish()
  cycled,       \* history: run_cycles() has been called
  fuel          \* yields each block has left

loop   == <<ret, horizon, cursor>>
clock  == <<clkVal, clkNext, pin, prev, edges>>
ending == <<finished, initialCount, returned, dropped, joined, asked>>
vars   == <<mode, loop, cur, how, queue, waiting, seq, time, clock, out,
            ending, cycled, fuel>>

Sleeper == [at : Nat, seq : Nat, proc : Procs]
Cond    == [kind : {"high", "never", "all", "any"}, kids : SUBSET Kids]
Waiter  == [seq : Nat, proc : Procs, cond : Cond, dl : Nat \cup {None}]

Queued  == {e.proc : e \in queue}
Waits   == {w.proc : w \in waiting}
Running == {cur} \ {None}
Born    == Queued \cup Waits \cup Running \cup returned \cup dropped

(* What the lambda of an Until computes when it is called now.             *)
Holds(c) == CASE c.kind = "high"  -> out
              [] c.kind = "never" -> FALSE
              [] c.kind = "all"   -> c.kids \subseteq joined
              [] c.kind = "any"   -> c.kids \cap joined # {}

Expired(w) == w.dl # None /\ time >= w.dl

FiresAfterDeadline(w) ==                                        \* mutant
  Holds(w.cond) \/ (w.dl # None /\ time > w.dl)
Fires(w) == Holds(w.cond) \/ Expired(w)
-----------------------------------------------------------------------------
(* The heap entries of several blocks scheduled for t one after another.   *)
Entries(t, n, ps) == {[at |-> t, seq |-> n + Rank[p], proc |-> p] : p \in ps}

(* Registration: every root is scheduled at 0 in registration order.       *)
Init ==
  /\ mode = "start" /\ ret = "top" /\ cur = None /\ how = "event"
  /\ horizon = 0 /\ cursor = 0
  /\ queue = Entries(0, 0, Roots)
  /\ waiting = {} /\ seq = Ranks /\ time = 0
  /\ clkVal = 0 /\ clkNext = 0 /\ pin = 0 /\ prev = 0 /\ edges = 0
  /\ out = FALSE /\ finished = FALSE
  /\ initialCount = Cardinality(Initials)
  /\ returned = {} /\ dropped = {} /\ joined = {}
  /\ asked = FALSE /\ cycled = FALSE
  /\ fuel = Fuel

(* model.eval(): the registers see a rising edge if the pin was low at the *)
(* previous evaluation and is high now; the output may take any value.     *)
EvalPin(v) ==
  /\ prev' = v
  /\ edges' = IF prev = 0 /\ v = 1 THEN edges + 1 ELSE edges
  /\ out' \in BOOLEAN

FlipByAdding(v) == v + 1                                        \* mutant
Flip(v) == 1 - v

(* self.time = clk_next; set the pin; eval; clk_val ^= 1; clk_next += half *)
Toggle ==
  /\ clkNext <= MaxTime
  /\ time' = clkNext
  /\ pin' = clkVal
  /\ EvalPin(clkVal)
  /\ clkVal' = Flip(clkVal)
  /\ clkNext' = clkNext + Half

SkipCheck(r) == mode' = r /\ ret' = r /\ cursor' = 0            \* mutant
BeginCheck(r) == mode' = "check" /\ ret' = r /\ cursor' = 0

FirstScheduled(e) == \A f \in queue : e.seq <= f.seq            \* mutant
FirstEvent(e) ==
  \A f \in queue : e.at < f.at \/ (e.at = f.at /\ e.seq <= f.seq)
-----------------------------------------------------------------------------
(* run(): the outer loop.                                                  *)

Start ==
  /\ mode = "start" /\ mode' = "top"
  /\ EvalPin(pin)
  /\ UNCHANGED <<loop, cur, how, queue, waiting, seq, time, clkVal, clkNext,
                 pin, ending, cycled, fuel>>

LoopEnds ==
  /\ mode = "top"
  /\ finished \/ (queue = {} /\ waiting = {})
  /\ mode' = "done"
  /\ UNCHANGED <<loop, cur, how, queue, waiting, seq, time, clock, out,
                 ending, cycled, fuel>>

(* No block sleeps: the clock alone moves time to serve the waiting ones.  *)
TickForWaiters ==
  /\ mode = "top" /\ ~finished /\ queue = {} /\ waiting # {} /\ Half > 0
  /\ Toggle
  /\ BeginCheck("top")
  /\ UNCHANGED <<horizon, cur, how, queue, waiting, seq, ending, cycled,
                 fuel>>

JumpToDeadline ==
  /\ mode = "top" /\ ~finished /\ queue = {} /\ Half = 0
  /\ \E w \in waiting :
       /\ w.dl # None
       /\ \A v \in waiting : v.dl # None => w.dl <= v.dl
       /\ time' = w.dl
  /\ BeginCheck("top")
  /\ UNCHANGED <<horizon, cur, how, queue, waiting, seq, clock, out, ending,
                 cycled, fuel>>

RaiseDeadlock ==
  /\ mode = "top" /\ ~finished /\ queue = {} /\ waiting # {} /\ Half = 0
  /\ \A w \in waiting : w.dl = None
  /\ mode' = "deadlock"
  /\ UNCHANGED <<loop, cur, how, queue, waiting, seq, time, clock, out,
                 ending, cycled, fuel>>

PeekQueue ==
  /\ mode = "top" /\ ~finished
  /\ \E e \in queue : FirstEvent(e) /\ horizon' = e.at
  /\ mode' = "fast"
  /\ UNCHANGED <<ret, cursor, cur, how, queue, waiting, seq, time, clock, out,
                 ending, cycled, fuel>>

(* The inner loop: toggles until the instant read by PeekQueue.            *)
ToggleWellBefore == Half > 0 /\ clkNext + Half < horizon        \* mutant
ToggleDue == Half > 0 /\ clkNext < horizon

FastToggle ==
  /\ mode = "fast" /\ ToggleDue
  /\ Toggle
  /\ IF waiting # {} THEN BeginCheck("fast")
                     ELSE UNCHANGED <<mode, ret, cursor>>
  /\ UNCHANGED <<horizon, cur, how, queue, waiting, seq, ending, cycled,
                 fuel>>

(* A toggle due at the instant of the popped event only sets the pin: the  *)
(* evaluation comes after the block has run.                               *)
TieWithoutFlip(t) ==                                            \* mutant
  IF Half > 0 /\ clkNext = t
    THEN pin' = clkVal /\ clkNext' = clkNext + Half /\ UNCHANGED clkVal
    ELSE UNCHANGED <<pin, clkVal, clkNext>>
ToggleOnTie(t) ==
  IF Half > 0 /\ clkNext = t
    THEN pin' = clkVal /\ clkVal' = Flip(clkVal) /\ clkNext' = clkNext + Half
    ELSE UNCHANGED <<pin, clkVal, clkNext>>

Pop ==
  /\ mode = "fast" /\ ~ToggleDue
  /\ \E e \in queue :
       /\ FirstEvent(e)
       /\ queue' = queue \ {e}
       /\ time' = e.at
       /\ cur' = e.proc
       /\ ToggleOnTie(e.at)
  /\ mode' = "run" /\ how' = "event"
  /\ UNCHANGED <<loop, waiting, seq, prev, edges, out, ending, cycled, fuel>>

Settle ==
  /\ mode = "settle"
  /\ EvalPin(pin)
  /\ BeginCheck("top")
  /\ UNCHANGED <<horizon, cur, how, queue, waiting, seq, time, clkVal,
                 clkNext, pin, ending, cycled, fuel>>
-----------------------------------------------------------------------------
(* _check_waiting(): one pass over the live list.  A block that waits      *)
(* again while the pass runs is appended to the list and visited too.  The *)
(* elements that do not fire stay in the list; passing over them changes   *)
(* nothing, so a step goes straight to the first unvisited one that fires. *)

Unvisited == {w \in waiting : w.seq > cursor}

NextToFire(w) ==
  /\ Fires(w)
  /\ \A v \in Unvisited : v.seq < w.seq => ~Fires(v)

VisitFiring ==
  /\ mode = "check"
  /\ \E w \in Unvisited :
       /\ NextToFire(w)
       /\ waiting' = waiting \ {w}
       /\ cursor' = w.seq
       /\ cur' = w.proc
       /\ how' = IF Holds(w.cond) THEN "wake" ELSE "throw"
  /\ mode' = "run"
  /\ UNCHANGED <<ret, horizon, queue, seq, time, clock, out, ending, cycled,
                 fuel>>

EndCheck ==
  /\ mode = "check"
  /\ \A w \in Unvisited : ~Fires(w)
  /\ mode' = ret
  /\ UNCHANGED <<loop, cur, how, queue, waiting, seq, time, clock, out,
                 ending, cycled, fuel>>
-----------------------------------------------------------------------------
(* What a running block does (_resume and the operations it may call).     *)

Leave == cur' = None /\ mode' = IF how = "event" THEN "settle" ELSE "check"

Burn(p) == fuel[p] > 0 /\ fuel' = [fuel EXCEPT ![p] = @ - 1]

(* _schedule(t, p)                                                         *)
Schedule(t, p) ==
  /\ queue' = queue \cup {[at |-> t, seq |-> seq, proc |-> p]}
  /\ seq' = seq + 1

YieldDelay ==
  /\ mode = "run" /\ how # "throw"
  /\ \E d \in Delays : Schedule(time + d, cur)
  /\ Burn(cur) /\ Leave
  /\ UNCHANGED <<loop, how, waiting, time, clock, out, ending, cycled>>

WaitOutsideScan(c, dl) ==                                       \* mutant
  waiting' = IF how = "event"
               THEN waiting \cup
                 {[seq |-> seq, proc |-> cur, cond |-> c, dl |-> dl]}
               ELSE waiting
Wait(c, dl) ==
  waiting' = waiting \cup
               {[seq |-> seq, proc |-> cur, cond |-> c, dl |-> dl]}

YieldUntil ==
  /\ mode = "run" /\ how # "throw"
  /\ \E t \in Timeouts :
       Wait([kind |-> "high", kids |-> {}],
            IF t = None THEN None ELSE time + t)
  /\ seq' = seq + 1
  /\ Burn(cur) /\ Leave
  /\ UNCHANGED <<loop, how, queue, time, clock, out, ending, cycled>>

(* An until whose condition never comes, and no timeout; it costs no fuel.  *)
Park ==
  /\ mode = "run" /\ how # "throw"
  /\ Wait([kind |-> "never", kids |-> {}], None)
  /\ seq' = seq + 1
  /\ Leave
  /\ UNCHANGED <<loop, how, queue, time, clock, out, ending, cycled, fuel>>

(* yield self.fork(...) or yield self.fork_any(...): the children are      *)
(* scheduled now, in argument order, then the parent waits for all of      *)
(* them or for the first.                                                  *)
YieldFork ==
  /\ mode = "run" /\ how # "throw"
  /\ \E ks \in SUBSET (Kids \ Born) \ {{}}, k \in {"all", "any"} :
       /\ queue' = queue \cup Entries(time, seq, ks)
       /\ Wait([kind |-> k, kids |-> ks], None)
  /\ seq' = seq + Ranks
  /\ Burn(cur) /\ Leave
  /\ UNCHANGED <<loop, how, time, clock, out, ending, cycled>>

(* StopIteration.  An initial block has no restart function and is         *)
(* counted down; the restart function of a kid records it in "done" and    *)
(* yields no generator; an always block is scheduled again, now.           *)
CountBelowZero ==                                               \* mutant
  /\ initialCount' = initialCount - 1
  /\ finished' = (finished \/ initialCount - 1 < 0)
CountDown ==
  /\ initialCount' = initialCount - 1
  /\ finished' = (finished \/ initialCount - 1 <= 0)

ReturnInitial ==
  /\ mode = "run" /\ how # "throw" /\ cur \in Initials
  /\ returned' = returned \cup {cur}
  /\ CountDown
  /\ Leave
  /\ UNCHANGED <<loop, how, queue, waiting, seq, time, clock, out, dropped,
                 joined, asked, cycled, fuel>>

ReturnKid ==
  /\ mode = "run" /\ how # "throw" /\ cur \in Kids
  /\ returned' = returned \cup {cur}
  /\ joined' = joined \cup {cur}
  /\ Leave
  /\ UNCHANGED <<loop, how, queue, waiting, seq, time, clock, out, finished,
                 initialCount, dropped, asked, cycled, fuel>>

Restart ==
  /\ mode = "run" /\ how # "throw" /\ cur \in Alwayses
  /\ Schedule(time, cur)
  /\ Burn(cur) /\ Leave
  /\ UNCHANGED <<loop, how, waiting, time, clock, out, ending, cycled>>

(* A block that catches the TimeoutError thrown into it and yields again,  *)
(* or returns: gen.throw()'s result and StopIteration are both discarded.  *)
CatchTimeout ==
  /\ mode = "run" /\ how = "throw"
  /\ dropped' = dropped \cup {cur}
  /\ Leave
  /\ UNCHANGED <<loop, how, queue, waiting, seq, time, clock, out, finished,
                 initialCount, returned, joined, asked, cycled, fuel>>

(* An exception that leaves the block leaves run().                        *)
Raise ==
  /\ mode = "run" /\ mode' = "raised"
  /\ UNCHANGED <<loop, cur, how, queue, waiting, seq, time, clock, out,
                 ending, cycled, fuel>>

CallFinish ==
  /\ mode = "run" /\ ~finished
  /\ finished' = TRUE /\ asked' = TRUE
  /\ UNCHANGED <<mode, loop, cur, how, queue, waiting, seq, time, clock, out,
                 initialCount, returned, dropped, joined, cycled, fuel>>

(* run_cycles(n) toggles the pin itself.  The field _clk_next it writes    *)
(* back is read by run() on entry only.                                    *)
RunCycles ==
  /\ mode \in {"start", "run"} /\ ~cycled
  /\ \E n \in Cycles :
       IF Half = 0 \/ n = 0
         THEN UNCHANGED <<time, clkNext, pin, prev, edges, out>>
         ELSE /\ time' = time + n * Half * 2
              /\ clkNext' = IF mode = "start" THEN time' ELSE clkNext
              /\ pin' = 1 /\ prev' = 1 /\ edges' = edges + n
              /\ out' \in BOOLEAN
  /\ cycled' = TRUE
  /\ UNCHANGED <<mode, loop, cur, how, queue, waiting, seq, clkVal, ending,
                 fuel>>
-----------------------------------------------------------------------------
Loop  == \/ Start \/ LoopEnds \/ TickForWaiters \/ JumpToDeadline
         \/ RaiseDeadlock \/ PeekQueue \/ FastToggle \/ Pop \/ Settle
Scan  == VisitFiring \/ EndCheck
Block == \/ YieldDelay \/ YieldUntil \/ Park \/ YieldFork
         \/ ReturnInitial \/ ReturnKid \/ Restart \/ CatchTimeout
         \/ Raise \/ CallFinish \/ RunCycles

Next == Loop \/ Scan \/ Block

Spec == Init /\ [][Next]_vars
-----------------------------------------------------------------------------
Modes == {"start", "top", "fast", "run", "settle", "check",
          "done", "deadlock", "raised"}
Ended == {"done", "deadlock", "raised"}

(* The type of every variable; a block runs whenever run() is inside one.  *)
TypeOK ==
  /\ mode \in Modes /\ ret \in {"top", "fast"}
  /\ cur \in Procs \cup {None} /\ (mode = "run" => cur # None)
  /\ how \in {"event", "wake", "throw"}
  /\ horizon \in Nat /\ cursor \in Nat
  /\ queue \subseteq Sleeper /\ waiting \subseteq Waiter
  /\ seq \in Nat /\ time \in Nat /\ clkNext \in Nat /\ edges \in Nat
  /\ clkVal \in {0, 1} /\ pin \in {0, 1} /\ prev \in {0, 1}
  /\ out \in BOOLEAN /\ finished \in BOOLEAN /\ asked \in BOOLEAN
  /\ cycled \in BOOLEAN /\ initialCount \in Int
  /\ returned \subseteq Procs /\ dropped \subseteq Procs
  /\ joined \subseteq Kids /\ fuel \in [Procs -> Nat]

(* A block that was started is in exactly one place: asleep in the heap,   *)
(* in the waiting list, running, ended, or dropped; and it is there once.  *)
(* The list is scanned while resumed blocks append themselves to it and is *)
(* replaced at the end of the scan: an entry lost there is a test that     *)
(* silently stops checking, an entry kept twice is a generator resumed     *)
(* while it runs.                                                          *)
OneHome ==
  /\ \A e, f \in queue : e.proc = f.proc => e = f
  /\ \A v, w \in waiting : v.proc = w.proc => v = w
  /\ Queued \cap Waits = {} /\ cur \notin Queued \cup Waits
  /\ (Queued \cup Waits \cup Running) \cap (returned \cup dropped) = {}
  /\ returned \cap dropped = {}
  /\ Roots \subseteq Born

(* The run ends for one of two reasons only: a block called finish(), or   *)
(* every initial block has returned; forked blocks and always blocks never *)
(* count.  The counter that decides it is exact.                           *)
StopsWhenDue ==
  /\ initialCount = Cardinality(Initials \ returned)
  /\ finished <=> \/ asked
                  \/ Initials # {} /\ Initials \subseteq returned

(* When the loop goes on to choose what happens next, or gives up, nobody  *)
(* is left waiting for an output that is already high, or past a deadline: *)
(* every evaluation is followed by a scan that saw its outcome.            *)
WaitersServed ==
  mode \in {"top", "fast", "deadlock"} /\ ~cycled =>
    \A w \in waiting : ~Expired(w) /\ (w.cond.kind = "high" => ~out)

(* The device sees exactly the rising edges that the simulated time of the *)
(* next toggle calls for, also when an edge falls on the instant of an     *)
(* event and is evaluated only after the block has run: the number of      *)
(* cycles of the design and the simulated time agree.                      *)
EdgesOnSchedule ==
  mode = "top" /\ Half > 0 /\ ~cycled => edges = (clkNext \div Half) \div 2

(* Each run() comes to an end when every block stops yielding: the loop    *)
(* itself never spins, in particular not on a deadline it has moved to.    *)
RunTerminates == <>(mode \in Ended)

(* No block runs ahead of the clock: when a block runs at an instant, every *)
(* toggle due before it has reached the device, even when blocks woken in  *)
(* the inner loop have put earlier events into the heap meanwhile.         *)
ClockNotBehind ==
  Half > 0 /\ ~cycled => time <= clkNext

(* backend_csim.py:3341, "run clock toggles in C until next generator      *)
(* event": a toggle never passes the instant of an event in the heap.      *)
TogglesStopAtEvents ==
  [][clkNext' # clkNext => \A e \in queue : clkNext <= e.at]_vars

(* verify.py:252, fork returns an "Until that waits for all": the run does *)
(* not end in "Deadlock" while a block's children are all done.            *)
JoinNeverDeadlocks ==
  mode = "deadlock" => \A w \in waiting : ~Holds(w.cond)
-----------------------------------------------------------------------------
(* The refinement mapping to the event simulator.                          *)
Place ==
  [p \in Procs |-> IF p \in Queued THEN "asleep"
                   ELSE IF p \in Waits THEN "blocked"
                   ELSE IF p = cur THEN "running"
                   ELSE IF p \in returned \cup dropped THEN "gone"
                   ELSE "unborn"]
Due ==
  [p \in Procs |-> IF p \in Queued
                     THEN (CHOOSE e \in queue : e.proc = p).at ELSE None]

Sim == INSTANCE EventSim WITH now <- time, place <- Place, due <- Due

(* Without a clock the engine is an event simulator.                       *)
IsEventSim == Sim!Spec
=============================================================================
