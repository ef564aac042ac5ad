--------------------------- MODULE SimEngineProofs ---------------------------
(* Theorems about the event loop, for every test bench and every clock.    *)
EXTENDS SimEngine, FiniteSetTheorems, TLAPS

LEMMA HalfNat == Half \in Nat
  BY ConfigAssumption DEF Half

LEMMA TypeInit == Init => TypeOK
<1> USE ConfigAssumption, HalfNat
<1> SUFFICES ASSUME Init PROVE TypeOK
  OBVIOUS
<1>1. Cardinality(Initials) \in Nat
  BY FS_CardinalityType
<1>2. queue \subseteq Sleeper
  BY 0 \in Nat DEF Init, Entries, Sleeper, Procs
<1>3. waiting \subseteq Waiter /\ fuel \in [Procs -> Nat] /\ seq \in Nat
  BY DEF Init
<1>4. initialCount \in Int
  BY <1>1 DEF Init
<1> QED
  BY <1>2, <1>3, <1>4 DEF Init, TypeOK, Modes

(* Every variable keeps its type.                                          *)
THEOREM TypeCorrect == Spec => []TypeOK
<1> USE ConfigAssumption, HalfNat
<1>1. Init => TypeOK
  BY TypeInit
<1>2. TypeOK /\ [Next]_vars => TypeOK'
  <2> SUFFICES ASSUME TypeOK, [Next]_vars PROVE TypeOK'
    OBVIOUS
  <2> USE DEF TypeOK, Modes, loop, clock, ending
  <2>1. CASE Start
    BY <2>1 DEF Start, EvalPin
  <2>2. CASE LoopEnds
    BY <2>2 DEF LoopEnds
  <2>3. CASE TickForWaiters
    BY <2>3 DEF TickForWaiters, Toggle, EvalPin, Flip, BeginCheck
  <2>4. CASE JumpToDeadline
    BY <2>4 DEF JumpToDeadline, BeginCheck, Waiter
  <2>5. CASE RaiseDeadlock
    BY <2>5 DEF RaiseDeadlock
  <2>6. CASE PeekQueue
    BY <2>6 DEF PeekQueue, Sleeper
  <2>7. CASE FastToggle
    BY <2>7 DEF FastToggle, Toggle, EvalPin, Flip, BeginCheck
  <2>8. CASE Pop
    BY <2>8 DEF Pop, ToggleOnTie, Flip, Sleeper
  <2>9. CASE Settle
    BY <2>9 DEF Settle, EvalPin, BeginCheck
  <2>10. CASE VisitFiring
    BY <2>10 DEF VisitFiring, Unvisited, Waiter
  <2>11. CASE EndCheck
    BY <2>11 DEF EndCheck
  <2>12. CASE YieldDelay
    BY <2>12 DEF YieldDelay, Schedule, Burn, Leave, Sleeper
  <2>13. CASE YieldUntil
    BY <2>13 DEF YieldUntil, Wait, Burn, Leave, Waiter, Cond
  <2>14. CASE Park
    BY <2>14 DEF Park, Wait, Leave, Waiter, Cond
  <2>15. CASE YieldFork
    BY <2>15 DEF YieldFork, Wait, Burn, Leave, Waiter, Cond, Sleeper,
       Entries, Procs
  <2>16. CASE ReturnInitial
    BY <2>16 DEF ReturnInitial, CountDown, Leave
  <2>17. CASE ReturnKid
    BY <2>17 DEF ReturnKid, Leave
  <2>18. CASE Restart
    BY <2>18 DEF Restart, Schedule, Burn, Leave, Sleeper
  <2>19. CASE CatchTimeout
    BY <2>19 DEF CatchTimeout, Leave
  <2>20. CASE Raise
    BY <2>20 DEF Raise
  <2>21. CASE CallFinish
    BY <2>21 DEF CallFinish
  <2>22. CASE RunCycles
    BY <2>22 DEF RunCycles
  <2>23. CASE UNCHANGED vars
    BY <2>23 DEF vars
  <2> QED
    BY <2>1, <2>2, <2>3, <2>4, <2>5, <2>6, <2>7, <2>8, <2>9, <2>10, <2>11,
       <2>12, <2>13, <2>14, <2>15, <2>16, <2>17, <2>18, <2>19, <2>20, <2>21,
       <2>22, <2>23 DEF Next, Loop, Scan, Block
<1> QED
  BY <1>1, <1>2, PTL DEF Spec
-----------------------------------------------------------------------------
(* A block is between its resumption and its next yield exactly while the  *)
(* engine is inside next() or throw().                                     *)
CurIdle == cur # None <=> mode \in {"run", "raised"}

(* Steps of the loop that move no block.                                   *)
StillSteps ==
  \/ Start \/ LoopEnds \/ TickForWaiters \/ JumpToDeadline \/ RaiseDeadlock
  \/ PeekQueue \/ FastToggle \/ Settle \/ EndCheck \/ Raise \/ CallFinish
  \/ RunCycles

LEMMA StillMovesNothing ==
  ASSUME StillSteps \/ UNCHANGED vars
  PROVE  UNCHANGED <<cur, queue, waiting, returned, dropped>>
BY DEF StillSteps, Start, LoopEnds, TickForWaiters, JumpToDeadline,
       RaiseDeadlock, PeekQueue, FastToggle, Settle, EndCheck, Raise,
       CallFinish, RunCycles, vars, ending

LEMMA CurIdleStep ==
  ASSUME TypeOK, CurIdle, [Next]_vars
  PROVE  CurIdle'
<1> USE DEF CurIdle
<1>1. CASE Loop
  <2> USE DEF TypeOK, Sleeper, BeginCheck
  <2>1. CASE Pop
    BY <2>1, ConfigAssumption DEF Pop
  <2>2. CASE ~Pop
    BY <1>1, <2>2 DEF Loop, Start, LoopEnds, TickForWaiters, JumpToDeadline,
       RaiseDeadlock, PeekQueue, FastToggle, Settle
  <2> QED
    BY <2>1, <2>2
<1>2. CASE Scan
  <2>1. CASE VisitFiring
    BY <2>1, ConfigAssumption DEF VisitFiring, TypeOK, Waiter, Unvisited
  <2>2. CASE EndCheck
    BY <2>2 DEF EndCheck, TypeOK
  <2> QED
    BY <1>2, <2>1, <2>2 DEF Scan
<1>3. CASE Block
  BY <1>3 DEF Block, YieldDelay, YieldUntil, Park, YieldFork, ReturnInitial,
     ReturnKid, Restart, CatchTimeout, Raise, CallFinish, RunCycles, Leave,
     TypeOK
<1>4. CASE UNCHANGED vars
  BY <1>4 DEF vars
<1> QED
  BY <1>1, <1>2, <1>3, <1>4 DEF Next

(* At most one entry of a list or of the heap belongs to one block.        *)
Unique(entries) == \A e, f \in entries : e.proc = f.proc => e = f

LEMMA AddEffect ==
  ASSUME NEW S, NEW e, Unique(S), e.proc \notin {f.proc : f \in S}
  PROVE  /\ Unique(S \cup {e})
         /\ {f.proc : f \in S \cup {e}} = {f.proc : f \in S} \cup {e.proc}
BY DEF Unique

LEMMA ScheduleEffect ==
  ASSUME NEW t, Schedule(t, cur), Unique(queue), cur \notin Queued
  PROVE  Unique(queue') /\ Queued' = Queued \cup {cur}
<1> DEFINE e == [at |-> t, seq |-> seq, proc |-> cur]
<1>1. queue' = queue \cup {e} /\ e.proc = cur
  BY DEF Schedule
<1> HIDE DEF e
<1> QED
  BY <1>1, AddEffect DEF Queued

LEMMA WaitEffect ==
  ASSUME NEW c, NEW dl, Wait(c, dl), Unique(waiting), cur \notin Waits
  PROVE  Unique(waiting') /\ Waits' = Waits \cup {cur}
<1> DEFINE w == [seq |-> seq, proc |-> cur, cond |-> c, dl |-> dl]
<1>1. waiting' = waiting \cup {w} /\ w.proc = cur
  BY DEF Wait
<1> HIDE DEF w
<1> QED
  BY <1>1, AddEffect DEF Waits

LEMMA RemoveEffect ==
  ASSUME NEW S, NEW e \in S, Unique(S)
  PROVE  /\ Unique(S \ {e})
         /\ {f.proc : f \in S \ {e}} = {f.proc : f \in S} \ {e.proc}
BY DEF Unique

LEMMA UnionUnique ==
  ASSUME NEW S, NEW T, Unique(S), Unique(T),
         {f.proc : f \in S} \cap {f.proc : f \in T} = {}
  PROVE  Unique(S \cup T)
BY DEF Unique

LEMMA EntriesEffect ==
  ASSUME NEW S, NEW t, NEW n, NEW ps
  PROVE  /\ {f.proc : f \in Entries(t, n, ps)} = ps
         /\ {f.proc : f \in S \cup Entries(t, n, ps)} = {f.proc : f \in S} \cup ps
         /\ Unique(Entries(t, n, ps))
<1> DEFINE entry(c) == [at |-> t, seq |-> n + Rank[c], proc |-> c]
<1>1. /\ Entries(t, n, ps) = {entry(c) : c \in ps}
      /\ \A c \in ps : entry(c).proc = c
  BY DEF Entries
<1> HIDE DEF entry
<1> QED
  BY <1>1 DEF Unique

LEMMA OneHomeStep ==
  ASSUME TypeOK, CurIdle, OneHome, [Next]_vars
  PROVE  OneHome'
<1>0. /\ Unique(queue) /\ Unique(waiting) /\ None \notin Procs
      /\ mode = "run" => cur \in Procs /\ cur # None
      /\ mode \in {"fast", "check"} => cur = None
      /\ Queued \subseteq Procs /\ Waits \subseteq Procs
  BY ConfigAssumption DEF OneHome, Unique, TypeOK, CurIdle, Queued, Waits,
     Sleeper, Waiter
<1> USE DEF OneHome, Running, Born, ending
<1>1. CASE StillSteps \/ UNCHANGED vars
  BY <1>1, StillMovesNothing DEF Queued, Waits
<1>2. CASE Pop
  <2>1. PICK e \in queue : queue' = queue \ {e} /\ cur' = e.proc
    BY <1>2 DEF Pop
  <2>2. /\ cur = None /\ UNCHANGED <<waiting, returned, dropped>>
        /\ e.proc # None /\ e.proc \in Queued
    BY <1>0, <1>2, <2>1 DEF Pop, TypeOK, Sleeper, Queued
  <2>3. Unique(queue') /\ Queued' = Queued \ {e.proc} /\ Waits' = Waits
    BY <1>0, <2>1, <2>2, RemoveEffect DEF Queued, Waits
  <2> QED
    BY <2>1, <2>2, <2>3 DEF Unique
<1>3. CASE VisitFiring
  <2>1. PICK w \in waiting : waiting' = waiting \ {w} /\ cur' = w.proc
    BY <1>3 DEF VisitFiring, Unvisited
  <2>2. /\ cur = None /\ UNCHANGED <<queue, returned, dropped>>
        /\ w.proc # None /\ w.proc \in Waits
    BY <1>0, <1>3, <2>1 DEF VisitFiring, TypeOK, Waiter, Waits
  <2>3. Unique(waiting') /\ Waits' = Waits \ {w.proc} /\ Queued' = Queued
    BY <1>0, <2>1, <2>2, RemoveEffect DEF Queued, Waits
  <2> QED
    BY <2>1, <2>2, <2>3 DEF Unique
<1>4. CASE YieldDelay \/ Restart
  <2>1. /\ \E t : Schedule(t, cur)
        /\ cur' = None /\ cur \in Procs /\ cur # None
        /\ UNCHANGED <<waiting, returned, dropped>>
    BY <1>0, <1>4 DEF YieldDelay, Restart, Leave
  <2>2. Unique(queue') /\ Queued' = Queued \cup {cur} /\ Waits' = Waits
    BY <1>0, <2>1, ScheduleEffect DEF Waits
  <2> QED
    BY <1>0, <2>1, <2>2 DEF Unique
<1>5. CASE YieldUntil \/ Park
  <2>1. /\ \E c, dl : Wait(c, dl)
        /\ cur' = None /\ cur \in Procs /\ cur # None
        /\ UNCHANGED <<queue, returned, dropped>>
    BY <1>0, <1>5 DEF YieldUntil, Park, Leave
  <2>2. Unique(waiting') /\ Waits' = Waits \cup {cur} /\ Queued' = Queued
    BY <1>0, <2>1, WaitEffect DEF Queued
  <2> QED
    BY <1>0, <2>1, <2>2 DEF Unique
<1>6. CASE YieldFork
  <2>1. PICK ks \in SUBSET (Kids \ Born), k \in {"all", "any"} :
          /\ queue' = queue \cup Entries(time, seq, ks)
          /\ Wait([kind |-> k, kids |-> ks], None)
    BY <1>6 DEF YieldFork
  <2>2. /\ cur' = None /\ cur \in Procs /\ cur # None
        /\ UNCHANGED <<returned, dropped>>
    BY <1>0, <1>6 DEF YieldFork, Leave
  <2>3. ks \cap (Queued \cup Waits \cup {cur} \cup returned \cup dropped) = {}
    BY <2>1, <2>2
  <2>4. Queued' = Queued \cup ks
    BY <2>1, EntriesEffect DEF Queued
  <2>5. Unique(queue')
    <3>1. {f.proc : f \in Entries(time, seq, ks)} = ks
      BY EntriesEffect
    <3>2. {f.proc : f \in queue} \cap {f.proc : f \in Entries(time, seq, ks)} = {}
      BY <2>3, <3>1 DEF Queued
    <3> QED
      BY <1>0, <2>1, <3>2, EntriesEffect, UnionUnique
  <2>6. Unique(waiting') /\ Waits' = Waits \cup {cur}
    BY <1>0, <2>1, <2>2, WaitEffect
  <2> QED
    BY <1>0, <2>1, <2>2, <2>3, <2>4, <2>5, <2>6, ConfigAssumption
       DEF Unique, Procs
<1>7. CASE ReturnInitial \/ ReturnKid \/ CatchTimeout
  <2>1. /\ cur' = None /\ cur \in Procs /\ cur # None
        /\ UNCHANGED <<queue, waiting>>
        /\ \/ returned' = returned \cup {cur} /\ UNCHANGED dropped
           \/ dropped' = dropped \cup {cur} /\ UNCHANGED returned
    BY <1>0, <1>7 DEF ReturnInitial, ReturnKid, CatchTimeout, Leave
  <2>2. Queued' = Queued /\ Waits' = Waits
    BY <2>1 DEF Queued, Waits
  <2> QED
    BY <1>0, <2>1, <2>2
<1> QED
  BY <1>1, <1>2, <1>3, <1>4, <1>5, <1>6, <1>7
     DEF Next, Loop, Scan, Block, StillSteps

LEMMA HomeInit == Init => CurIdle /\ OneHome
<1> SUFFICES ASSUME Init PROVE CurIdle /\ OneHome
  OBVIOUS
<1>1. Queued = Roots /\ Unique(queue)
  BY EntriesEffect DEF Init, Queued
<1>2. Waits = {} /\ None \notin Roots /\ Unique(waiting)
  BY ConfigAssumption DEF Init, Waits, Unique, Procs
<1> QED
  BY <1>1, <1>2 DEF Init, CurIdle, OneHome, Running, Born, Unique

(* No generator is ever lost, duplicated or resumed while it runs.         *)
THEOREM BlocksHaveOneHome == Spec => []OneHome
<1>1. TypeOK /\ CurIdle /\ OneHome /\ [Next]_vars => (CurIdle /\ OneHome)'
  BY CurIdleStep, OneHomeStep
<1> QED
  BY HomeInit, <1>1, TypeCorrect, PTL DEF Spec
-----------------------------------------------------------------------------
(* Steps that leave the run's bookkeeping of ended blocks alone.           *)
LEMMA EndingKept ==
  ASSUME [Next]_vars, ~ReturnInitial, ~ReturnKid, ~CatchTimeout, ~CallFinish
  PROVE  UNCHANGED ending
BY DEF Next, Loop, Scan, Block, Start, LoopEnds, TickForWaiters,
       JumpToDeadline, RaiseDeadlock, PeekQueue, FastToggle, Pop, Settle,
       VisitFiring, EndCheck, YieldDelay, YieldUntil, Park, YieldFork,
       Restart, Raise, RunCycles, vars

LEMMA StopsWhenDueStep ==
  ASSUME TypeOK, CurIdle, OneHome, StopsWhenDue, [Next]_vars
  PROVE  StopsWhenDue'
<1> USE ConfigAssumption
<1>1. CASE ReturnInitial
  <2>1. /\ cur \in Initials \ returned
        /\ returned' = returned \cup {cur}
        /\ initialCount' = initialCount - 1
        /\ finished' = (finished \/ initialCount - 1 <= 0)
        /\ UNCHANGED asked
    BY <1>1 DEF ReturnInitial, CountDown, OneHome, Running, Procs, Roots
  <2>2. Initials \ returned' = (Initials \ returned) \ {cur}
    BY <2>1
  <2>3. IsFiniteSet(Initials \ returned)
    BY FS_Subset
  <2>4. /\ IsFiniteSet(Initials \ returned')
        /\ Cardinality(Initials \ returned')
             = Cardinality(Initials \ returned) - 1
    <3> DEFINE left == Initials \ returned
    <3>1. cur \in left /\ IsFiniteSet(left) BY <2>1, <2>3
    <3>. HIDE DEF left
    <3>2. IsFiniteSet(left \ {cur}) /\ Cardinality(left \ {cur}) = Cardinality(left) - 1
      BY <3>1, FS_RemoveElement
    <3>. QED BY <2>2, <3>2 DEF left
  <2>5. /\ Cardinality(Initials \ returned') \in Nat
        /\ Cardinality(Initials \ returned') = 0 <=> Initials \subseteq returned'
    <3>1. Initials \ returned' = {} <=> Initials \subseteq returned'
      OBVIOUS
    <3>2. Cardinality(Initials \ returned') = 0 <=> Initials \ returned' = {}
      BY <2>4, FS_EmptySet
    <3> QED
      BY <2>4, <3>1, <3>2, FS_CardinalityType
  <2>6. initialCount' = Cardinality(Initials \ returned')
    BY <2>1, <2>4 DEF StopsWhenDue
  <2>7. initialCount' <= 0 <=> Initials \subseteq returned'
    BY <2>5, <2>6
  <2> QED
    BY <2>1, <2>6, <2>7 DEF StopsWhenDue
<1>2. CASE ReturnKid
  <2>1. /\ Initials \ returned' = Initials \ returned
        /\ Initials \subseteq returned' <=> Initials \subseteq returned
        /\ UNCHANGED <<finished, initialCount, asked>>
    BY <1>2 DEF ReturnKid, Roots
  <2> QED
    BY <2>1 DEF StopsWhenDue
<1>3. CASE CatchTimeout
  BY <1>3 DEF CatchTimeout, StopsWhenDue
<1>4. CASE CallFinish
  BY <1>4 DEF CallFinish, StopsWhenDue
<1>5. CASE UNCHANGED ending
  BY <1>5 DEF ending, StopsWhenDue
<1> QED
  BY <1>1, <1>2, <1>3, <1>4, <1>5, EndingKept

(* The run stops exactly when it should: the counter of initial blocks is  *)
(* exact, whatever is forked, restarted or dropped in between.             *)
THEOREM RunStopsWhenDue == Spec => []StopsWhenDue
<1>1. Init => CurIdle /\ OneHome /\ StopsWhenDue
  <2> SUFFICES ASSUME Init PROVE CurIdle /\ OneHome /\ StopsWhenDue
    OBVIOUS
  <2>1. Initials \ returned = Initials /\ (Initials \subseteq returned => Initials = {})
    BY DEF Init
  <2> QED
    BY <2>1, HomeInit DEF Init, StopsWhenDue
<1>2. TypeOK /\ CurIdle /\ OneHome /\ StopsWhenDue /\ [Next]_vars
        => (CurIdle /\ OneHome /\ StopsWhenDue)'
  BY CurIdleStep, OneHomeStep, StopsWhenDueStep
<1> QED
  BY <1>1, <1>2, TypeCorrect, PTL DEF Spec
-----------------------------------------------------------------------------
(* ClockNotBehind is not inductive: Pop relies on the horizon read before  *)
(* the inner loop.  While the loop and the scans it calls last, an event   *)
(* at or before the horizon stays in the heap, so the event popped after   *)
(* the loop is not past the toggles still to come.                         *)
InnerLoop ==
  \/ mode = "fast"
  \/ ret = "fast" /\ (mode = "check" \/ (mode = "run" /\ how # "event"))

HorizonInv ==
  Half > 0 /\ ~cycled =>
    /\ time <= clkNext
    /\ InnerLoop => \E e \in queue : e.at <= horizon

LEMMA HorizonStep ==
  ASSUME TypeOK, HorizonInv, [Next]_vars
  PROVE  HorizonInv'
<1> SUFFICES ASSUME Half > 0, ~cycled'
             PROVE  /\ time' <= clkNext'
                    /\ InnerLoop' => \E e \in queue' : e.at <= horizon'
  BY DEF HorizonInv
<1> USE HalfNat DEF InnerLoop, loop, clock
<1>0. ~cycled
  BY DEF Next, Loop, Scan, Block, Start, LoopEnds, TickForWaiters,
     JumpToDeadline, RaiseDeadlock, PeekQueue, FastToggle, Pop, Settle,
     VisitFiring, EndCheck, YieldDelay, YieldUntil, Park, YieldFork,
     ReturnInitial, ReturnKid, CatchTimeout, CallFinish, RunCycles,
     Restart, Raise, vars
<1> USE <1>0 DEF HorizonInv
<1>1. CASE Start \/ LoopEnds \/ RaiseDeadlock \/ Settle \/ JumpToDeadline
  BY <1>1 DEF Start, LoopEnds, RaiseDeadlock, Settle, BeginCheck,
     JumpToDeadline
<1>2. CASE TickForWaiters
  BY <1>2 DEF TickForWaiters, Toggle, BeginCheck, TypeOK
<1>3. CASE PeekQueue
  BY <1>3 DEF PeekQueue, TypeOK, Sleeper
<1>4. CASE FastToggle
  BY <1>4 DEF FastToggle, Toggle, BeginCheck, TypeOK
<1>5. CASE Pop
  <2>1. PICK e \in queue : FirstEvent(e) /\ time' = e.at /\ ToggleOnTie(e.at)
    BY <1>5 DEF Pop
  <2>2. PICK f \in queue : f.at <= horizon
    BY <1>5 DEF Pop
  <2>3. e.at \in Nat /\ f.at \in Nat /\ horizon \in Nat /\ clkNext \in Nat
    BY DEF TypeOK, Sleeper
  <2>4. e.at <= f.at
    BY <2>1, <2>3 DEF FirstEvent
  <2>5. horizon <= clkNext
    BY <1>5, <2>3 DEF Pop, ToggleDue
  <2>6. time' <= clkNext'
    BY <2>1, <2>2, <2>3, <2>4, <2>5 DEF ToggleOnTie
  <2> QED
    BY <1>5, <2>6 DEF Pop
<1>6. CASE VisitFiring \/ EndCheck
  BY <1>6 DEF VisitFiring, EndCheck, TypeOK
<1>7. CASE YieldDelay \/ YieldUntil \/ Park \/ YieldFork \/ Restart
  BY <1>7 DEF YieldDelay, YieldUntil, Park, YieldFork, Restart, Schedule,
     Leave
<1>8. CASE ReturnInitial \/ ReturnKid \/ CatchTimeout
  BY <1>8 DEF ReturnInitial, ReturnKid, CatchTimeout, Leave
<1>9. CASE Raise \/ CallFinish \/ UNCHANGED vars
  BY <1>9 DEF Raise, CallFinish, vars
<1>10. CASE RunCycles
  BY <1>10 DEF RunCycles
<1> QED
  BY <1>1, <1>2, <1>3, <1>4, <1>5, <1>6, <1>7, <1>8, <1>9, <1>10
     DEF Next, Loop, Scan, Block

(* For every clock period and every test bench: no block runs at an        *)
(* instant some toggles of which, or before which, are still to come.      *)
THEOREM NoBlockAheadOfClock == Spec => []ClockNotBehind
<1>1. Init => HorizonInv
  BY DEF Init, HorizonInv, InnerLoop
<1>2. TypeOK /\ HorizonInv /\ [Next]_vars => HorizonInv'
  BY HorizonStep
<1>3. HorizonInv => ClockNotBehind
  BY DEF HorizonInv, ClockNotBehind
<1> QED
  BY <1>1, <1>2, <1>3, TypeCorrect, PTL DEF Spec
-----------------------------------------------------------------------------
(* EdgesOnSchedule speaks of the top of the loop.  Elsewhere a toggle that *)
(* fell on the instant of an event is in the pin and not yet evaluated:    *)
(* the invariant counts it as pending, and says when there may be one.     *)
Pending == IF pin = 1 /\ prev = 0 THEN 1 ELSE 0

EdgeInv ==
  Half > 0 /\ ~cycled =>
    /\ clkNext = Half * (2 * (edges + Pending) + clkVal)
    /\ pin = 1 => clkVal = 0
    /\ pin = 0 /\ clkVal = 0 => clkNext = 0
    /\ pin # prev => mode \in {"run", "settle", "raised"}
    /\ mode = "run" /\ pin # prev => how = "event"

LEMMA TimesNext ==
  ASSUME NEW h \in Nat, NEW n \in Nat
  PROVE  h * n + h = h * (n + 1)
OBVIOUS

LEMMA ToggleKeepsEdges ==
  ASSUME TypeOK, EdgeInv, Half > 0, ~cycled, pin = prev, Toggle
  PROVE  /\ clkNext' = Half * (2 * (edges' + Pending') + clkVal')
         /\ pin' = prev'
         /\ pin' = 1 => clkVal' = 0
         /\ pin' = 0 => clkVal' = 1
<1> USE HalfNat DEF TypeOK
<1>1. /\ clkNext = Half * (2 * edges + clkVal) /\ clkNext' = clkNext + Half
      /\ pin' = clkVal /\ prev' = clkVal /\ clkVal' = 1 - clkVal
      /\ clkVal = 1 => prev = 0
      /\ edges' = IF prev = 0 /\ clkVal = 1 THEN edges + 1 ELSE edges
  BY DEF EdgeInv, Pending, Toggle, EvalPin, Flip
<1>2. Pending' = 0
  BY <1>1 DEF Pending
<1>3. clkNext' = Half * ((2 * edges + clkVal) + 1)
  BY <1>1, TimesNext
<1>4. (2 * edges + clkVal) + 1 = 2 * (edges' + Pending') + clkVal'
  BY <1>1, <1>2
<1> QED
  BY <1>1, <1>3, <1>4

LEMMA EdgeStep ==
  ASSUME TypeOK, EdgeInv, [Next]_vars
  PROVE  EdgeInv'
<1> SUFFICES ASSUME Half > 0, ~cycled'
             PROVE  EdgeInv'
  BY DEF EdgeInv
<1> USE HalfNat DEF loop, clock
<1>0. ~cycled
  BY DEF Next, Loop, Scan, Block, Start, LoopEnds, TickForWaiters,
     JumpToDeadline, RaiseDeadlock, PeekQueue, FastToggle, Pop, Settle,
     VisitFiring, EndCheck, YieldDelay, YieldUntil, Park, YieldFork,
     ReturnInitial, ReturnKid, CatchTimeout, CallFinish, RunCycles,
     Restart, Raise, vars
<1>1. CASE TickForWaiters \/ FastToggle
  <2>1. pin = prev /\ Toggle
    BY <1>0, <1>1 DEF TickForWaiters, FastToggle, EdgeInv
  <2> QED
    BY <1>0, <2>1, ToggleKeepsEdges DEF EdgeInv
<1>2. CASE Pop
  <2>1. pin = prev /\ mode' = "run" /\ how' = "event" /\ UNCHANGED <<prev, edges>>
    BY <1>0, <1>2 DEF Pop, EdgeInv
  <2>2. CASE UNCHANGED <<pin, clkVal, clkNext>>
    BY <1>0, <2>1, <2>2 DEF EdgeInv, Pending
  <2>3. CASE pin' = clkVal /\ clkVal' = 1 - clkVal /\ clkNext' = clkNext + Half
    <3>1. clkNext = Half * (2 * edges + clkVal) /\ (clkVal = 1 => prev = 0)
      BY <1>0, <2>1 DEF EdgeInv, Pending, TypeOK
    <3>2. clkNext' = Half * ((2 * edges + clkVal) + 1)
      BY <2>3, <3>1, TimesNext DEF TypeOK
    <3>3. (2 * edges + clkVal) + 1 = 2 * (edges' + Pending') + clkVal'
      BY <2>1, <2>3, <3>1 DEF Pending, TypeOK
    <3> QED
      BY <2>1, <2>3, <3>2, <3>3 DEF EdgeInv, TypeOK
  <2> QED
    BY <1>2, <2>2, <2>3 DEF Pop, ToggleOnTie, Flip
<1>3. CASE Start \/ Settle
  <2>1. /\ prev' = pin /\ edges' = IF prev = 0 /\ pin = 1 THEN edges + 1 ELSE edges
        /\ UNCHANGED <<pin, clkVal, clkNext>> /\ mode' \in {"top", "check"}
    BY <1>3 DEF Start, Settle, EvalPin, BeginCheck
  <2>2. edges' + Pending' = edges + Pending
    BY <2>1 DEF Pending, TypeOK
  <2> QED
    BY <1>0, <2>1, <2>2 DEF EdgeInv
<1>4. CASE RunCycles
  BY <1>4 DEF RunCycles
<1>5. CASE UNCHANGED clock /\ (UNCHANGED <<mode, how>> \/ mode \notin {"run", "settle", "raised"})
  BY <1>0, <1>5 DEF EdgeInv, Pending
<1>6. CASE UNCHANGED <<clock, how>> /\ mode = "run" /\ (Leave \/ mode' = "raised")
  BY <1>0, <1>6 DEF EdgeInv, Pending, Leave
<1> QED
  BY <1>1, <1>2, <1>3, <1>4, <1>5, <1>6
     DEF Next, Loop, Scan, Block, LoopEnds, JumpToDeadline, RaiseDeadlock,
         PeekQueue, VisitFiring, EndCheck, YieldDelay, YieldUntil, Park,
         YieldFork, ReturnInitial, ReturnKid, CatchTimeout, CallFinish,
         Restart, Raise, vars

LEMMA DivideBack ==
  ASSUME NEW h \in Nat, h > 0, NEW r \in Nat, NEW c \in {0, 1}
  PROVE  ((h * (2 * r + c)) \div h) \div 2 = r
<1>1. \A n \in Nat : (h * n) \div h = n
  OBVIOUS
<1>2. (2 * r + c) \div 2 = r
  OBVIOUS
<1> QED
  BY <1>1, <1>2

(* For every clock period and every test bench that leaves the clock to    *)
(* the engine, the design has run exactly the cycles simulated time says.  *)
THEOREM CyclesMatchTime == Spec => []EdgesOnSchedule
<1>1. Init => EdgeInv
  BY HalfNat DEF Init, EdgeInv, Pending
<1>2. TypeOK /\ EdgeInv /\ [Next]_vars => EdgeInv'
  BY EdgeStep
<1>3. TypeOK /\ EdgeInv => EdgesOnSchedule
  <2> SUFFICES ASSUME TypeOK, EdgeInv, mode = "top", Half > 0, ~cycled
               PROVE  edges = (clkNext \div Half) \div 2
    BY DEF EdgesOnSchedule
  <2>1. clkNext = Half * (2 * edges + clkVal)
    BY DEF EdgeInv, Pending, TypeOK
  <2> QED
    BY <2>1, DivideBack, HalfNat DEF TypeOK
<1> QED
  BY <1>1, <1>2, <1>3, TypeCorrect, PTL DEF Spec
-----------------------------------------------------------------------------
(* WaitersServed speaks of the loop between its scans.  Within a scan it   *)
(* holds up to the cursor: the stamps of the list grow, so what a resumed  *)
(* block appends to the list is behind the cursor still, and visited.      *)
InScan == mode = "check" \/ (mode = "run" /\ how # "event")

Served(w) == ~Expired(w) /\ (w.cond.kind = "high" => ~out)

\* run_cycles() moves time past deadlines; without a clock it does nothing.
TimeIsKept == cycled => Half = 0

StampsInv ==
  /\ 0 < seq /\ cursor < seq
  /\ \A w \in waiting : 0 < w.seq /\ w.seq < seq
  /\ \A v, w \in waiting : v.seq = w.seq => v = w
  /\ mode = "start" => waiting = {}

ServedInv ==
  TimeIsKept =>
    /\ mode \in {"top", "fast", "deadlock"} => \A w \in waiting : Served(w)
    /\ InScan => \A w \in waiting : w.seq <= cursor => Served(w)

LEMMA StampsStep ==
  ASSUME TypeOK, StampsInv, [Next]_vars
  PROVE  StampsInv'
<1> USE ConfigAssumption DEF StampsInv, loop
<1>1. CASE StillSteps
  <2>1. mode' # "start" \/ mode' = mode
    BY <1>1 DEF StillSteps, Start, LoopEnds, TickForWaiters, JumpToDeadline,
       RaiseDeadlock, PeekQueue, FastToggle, Settle, EndCheck, Raise,
       CallFinish, RunCycles, BeginCheck, TypeOK
  <2>2. UNCHANGED <<waiting, seq>> /\ (cursor' = cursor \/ cursor' = 0)
    BY <1>1 DEF StillSteps, Start, LoopEnds, TickForWaiters, JumpToDeadline,
       RaiseDeadlock, PeekQueue, FastToggle, Settle, EndCheck, Raise,
       CallFinish, RunCycles, BeginCheck
  <2> QED
    BY <2>1, <2>2
<1>2. CASE Pop \/ ReturnInitial \/ ReturnKid \/ CatchTimeout \/ UNCHANGED vars
  BY <1>2 DEF Pop, ReturnInitial, ReturnKid, CatchTimeout, Leave, vars
<1>3. CASE VisitFiring
  BY <1>3 DEF VisitFiring, Unvisited
<1>4. CASE YieldDelay \/ Restart
  <2>1. UNCHANGED <<waiting, cursor>> /\ seq' = seq + 1 /\ mode' # "start"
    BY <1>4 DEF YieldDelay, Restart, Schedule, Leave
  <2>2. /\ seq \in Nat /\ cursor \in Nat
        /\ \A w \in waiting : w.seq \in Nat
    BY DEF TypeOK, Waiter
  <2> QED
    BY <2>1, <2>2
<1>5. CASE YieldUntil \/ Park \/ YieldFork
  <2>1. PICK c, dl : Wait(c, dl)
    BY <1>5 DEF YieldUntil, Park, YieldFork
  <2> DEFINE n == [seq |-> seq, proc |-> cur, cond |-> c, dl |-> dl]
  <2>2. waiting' = waiting \cup {n} /\ n.seq = seq
    BY <2>1 DEF Wait
  <2>3. seq < seq' /\ cursor' = cursor /\ mode' # "start"
    BY <1>5 DEF YieldUntil, Park, YieldFork, Leave, TypeOK
  <2>4. seq \in Nat /\ seq' \in Nat /\ cursor \in Nat /\ waiting \subseteq Waiter
    BY <1>5 DEF YieldUntil, Park, YieldFork, TypeOK
  <2>5. \A w \in waiting : w.seq \in Nat
    BY <2>4 DEF Waiter
  <2> HIDE DEF n
  <2> QED
    BY <2>2, <2>3, <2>4, <2>5
<1> QED
  BY <1>1, <1>2, <1>3, <1>4, <1>5 DEF Next, Loop, Scan, Block, StillSteps

LEMMA QuietServes ==
  ASSUME NEW w, ~Fires(w)
  PROVE  Served(w)
BY DEF Fires, Served, Holds

LEMMA ServedStep ==
  ASSUME TypeOK, StampsInv, ServedInv, [Next]_vars
  PROVE  ServedInv'
<1> SUFFICES ASSUME TimeIsKept'
             PROVE  /\ mode' \in {"top", "fast", "deadlock"} =>
                         \A w \in waiting' : Served(w)'
                    /\ InScan' => \A w \in waiting' : w.seq <= cursor' => Served(w)'
  BY DEF ServedInv
<1>0. TimeIsKept
  BY DEF TimeIsKept, Next, Loop, Scan, Block, Start, LoopEnds, TickForWaiters,
     JumpToDeadline, RaiseDeadlock, PeekQueue, FastToggle, Pop, Settle,
     VisitFiring, EndCheck, YieldDelay, YieldUntil, Park, YieldFork,
     ReturnInitial, ReturnKid, CatchTimeout, CallFinish, RunCycles,
     Restart, Raise, vars
<1>1. \A w \in waiting : w.seq \in Nat /\ 0 < w.seq /\ w.seq < seq
  BY DEF TypeOK, Waiter, StampsInv
<1> USE <1>0 DEF ServedInv, InScan, Served, Expired, loop, clock
<1>2. CASE TickForWaiters \/ JumpToDeadline \/ Settle
  BY <1>1, <1>2 DEF TickForWaiters, JumpToDeadline, Settle, BeginCheck
<1>3. CASE FastToggle
  BY <1>1, <1>3 DEF FastToggle, BeginCheck
<1>4. CASE Start
  BY <1>4 DEF Start, StampsInv
<1>5. CASE LoopEnds \/ RaiseDeadlock \/ PeekQueue \/ Pop \/ Raise \/ CallFinish
           \/ UNCHANGED vars
  BY <1>5 DEF LoopEnds, RaiseDeadlock, PeekQueue, Pop, Raise, CallFinish, ending, vars
<1>6. CASE VisitFiring
  <2>1. PICK n \in Unvisited :
          /\ NextToFire(n)
          /\ waiting' = waiting \ {n} /\ cursor' = n.seq
    BY <1>6 DEF VisitFiring
  <2>2. mode = "check" /\ mode' = "run" /\ UNCHANGED <<time, out>>
    BY <1>6 DEF VisitFiring
  <2>3. ASSUME NEW w \in waiting', w.seq <= cursor' PROVE Served(w)
    <3>1. w \in waiting /\ w # n /\ n \in waiting
      BY <2>1 DEF Unvisited
    <3>2. CASE w.seq <= cursor
      BY <2>2, <3>1, <3>2
    <3>3. CASE cursor < w.seq
      <4>1. w \in Unvisited /\ w.seq < n.seq
        BY <1>1, <2>1, <2>3, <3>1, <3>3 DEF Unvisited, StampsInv
      <4>2. ~Fires(w)
        BY <2>1, <4>1 DEF NextToFire
      <4> QED
        BY <4>2, QuietServes
    <3> QED
      BY <1>1, <3>1, <3>2, <3>3 DEF TypeOK
  <2> QED
    BY <2>2, <2>3
<1>7. CASE EndCheck
  <2>1. ASSUME NEW w \in waiting PROVE Served(w)
    <3>1. CASE w.seq <= cursor
      BY <1>7, <3>1 DEF EndCheck
    <3>2. CASE cursor < w.seq
      BY <1>7, <3>2, QuietServes DEF EndCheck, Unvisited
    <3> QED
      BY <1>1, <3>1, <3>2 DEF TypeOK
  <2> QED
    BY <1>7, <2>1 DEF EndCheck, TypeOK
<1>8. CASE YieldDelay \/ Restart \/ ReturnInitial \/ ReturnKid \/ CatchTimeout
  BY <1>8 DEF YieldDelay, Restart, ReturnInitial, ReturnKid, CatchTimeout, Leave
<1>9. CASE YieldUntil \/ Park \/ YieldFork
  <2>1. PICK c, dl : Wait(c, dl)
    BY <1>9 DEF YieldUntil, Park, YieldFork
  <2>2. \A w \in waiting' : w \in waiting \/ w.seq = seq
    BY <2>1 DEF Wait
  <2>3. cursor' = cursor /\ cursor < seq /\ seq \in Nat /\ cursor \in Nat
        /\ UNCHANGED <<time, out, how>> /\ Leave /\ mode = "run"
    BY <1>9 DEF YieldUntil, Park, YieldFork, StampsInv, TypeOK
  <2> QED
    BY <2>2, <2>3 DEF Leave
<1>10. CASE RunCycles
  <2>1. Half = 0
    BY <1>10 DEF RunCycles, TimeIsKept
  <2> QED
    BY <1>10, <2>1 DEF RunCycles
<1> QED
  BY <1>2, <1>3, <1>4, <1>5, <1>6, <1>7, <1>8, <1>9, <1>10
     DEF Next, Loop, Scan, Block

(* For every test bench and every clock: when the loop goes on, nobody is  *)
(* left waiting for an output that is high or past a deadline, although    *)
(* the list is scanned while resumed blocks append themselves to it.       *)
THEOREM NobodyIsPassedOver == Spec => []WaitersServed
<1>1. Init => StampsInv /\ ServedInv
  BY ConfigAssumption DEF Init, StampsInv, ServedInv, InScan
<1>2. TypeOK /\ StampsInv /\ ServedInv /\ [Next]_vars => (StampsInv /\ ServedInv)'
  BY StampsStep, ServedStep
<1>3. ServedInv => WaitersServed
  BY DEF ServedInv, Served, WaitersServed, TimeIsKept
<1> QED
  BY <1>1, <1>2, <1>3, TypeCorrect, PTL DEF Spec
-----------------------------------------------------------------------------
(* Without a clock the engine is an event simulator.  Due is a function of *)
(* the heap: an entry gives the instant of its block and of no other.      *)
DueIn(Q) ==
  [p \in Procs |-> IF p \in {e.proc : e \in Q}
                     THEN (CHOOSE e \in Q : e.proc = p).at ELSE None]

LEMMA DueIs == Due = DueIn(queue) /\ Due' = DueIn(queue')
BY DEF Due, DueIn, Queued

LEMMA DueAt ==
  ASSUME NEW Q, Unique(Q), NEW e \in Q, e.proc \in Procs
  PROVE  DueIn(Q)[e.proc] = e.at
<1>1. \A f \in Q : f.proc = e.proc => f = e
  BY DEF Unique
<1>2. (CHOOSE f \in Q : f.proc = e.proc) = e
  BY <1>1
<1> QED
  BY <1>2 DEF DueIn

LEMMA DueElsewhere ==
  ASSUME NEW Q, NEW R, Unique(Q), Unique(R), NEW p \in Procs,
         \A e : e.proc = p => (e \in Q <=> e \in R)
  PROVE  DueIn(Q)[p] = DueIn(R)[p]
<1>1. CASE \E e \in Q : e.proc = p
  <2>1. PICK e \in Q : e.proc = p
    BY <1>1
  <2> QED
    BY <2>1, DueAt
<1>2. CASE ~\E e \in Q : e.proc = p
  BY <1>2 DEF DueIn
<1> QED
  BY <1>1, <1>2

(* Nobody sleeps until an instant that has passed.                         *)
SleepInv == \A e \in queue : time <= e.at

LEMMA SleepStep ==
  ASSUME TypeOK, CurIdle, SleepInv, Half = 0, [Next]_vars
  PROVE  SleepInv'
<1>0. time \in Nat /\ \A e \in queue : e.at \in Nat
  BY DEF TypeOK, Sleeper
<1> USE DEF SleepInv, clock
<1>1. CASE StillSteps /\ ~JumpToDeadline
  <2>1. UNCHANGED time
    BY <1>1 DEF StillSteps, Start, LoopEnds, TickForWaiters, RaiseDeadlock,
       PeekQueue, FastToggle, ToggleDue, Settle, EndCheck, Raise, CallFinish, RunCycles
  <2> QED
    BY <1>1, <2>1, StillMovesNothing
<1>2. CASE JumpToDeadline
  BY <1>2 DEF JumpToDeadline
<1>3. CASE Pop
  BY <1>0, <1>3 DEF Pop, FirstEvent
<1>4. CASE YieldDelay \/ Restart
  <2>1. PICK t \in Nat : Schedule(t, cur) /\ time <= t
    BY <1>0, <1>4, ConfigAssumption DEF YieldDelay, Restart
  <2> QED
    BY <1>4, <2>1 DEF YieldDelay, Restart, Schedule
<1>5. CASE YieldFork
  BY <1>0, <1>5 DEF YieldFork, Entries
<1>6. CASE VisitFiring \/ YieldUntil \/ Park \/ ReturnInitial \/ ReturnKid \/ CatchTimeout
           \/ UNCHANGED vars
  BY <1>6 DEF VisitFiring, YieldUntil, Park, ReturnInitial, ReturnKid, CatchTimeout, vars
<1> QED
  BY <1>1, <1>2, <1>3, <1>4, <1>5, <1>6 DEF Next, Loop, Scan, Block, StillSteps

SimInv == TypeOK /\ CurIdle /\ OneHome /\ StampsInv /\ ServedInv /\ SleepInv

\* The place of a block, before and after a step.
LEMMA PlaceAt ==
  /\ Place = [p \in Procs |-> Place[p]] /\ Place' = [p \in Procs |-> Place'[p]]
  /\ Due = [p \in Procs |-> Due[p]] /\ Due' = [p \in Procs |-> Due'[p]]
  /\ \A p \in Procs :
       /\ Place[p] = IF p \in Queued THEN "asleep" ELSE IF p \in Waits THEN "blocked"
                     ELSE IF p = cur THEN "running"
                     ELSE IF p \in returned \cup dropped THEN "gone" ELSE "unborn"
       /\ Place'[p] = IF p \in Queued' THEN "asleep" ELSE IF p \in Waits' THEN "blocked"
                      ELSE IF p = cur' THEN "running"
                      ELSE IF p \in returned' \cup dropped' THEN "gone" ELSE "unborn"
BY DEF Place, Due

\* What the mapping says of a block, place by place.
LEMMA PlaceIs ==
  ASSUME SimInv
  PROVE  /\ \A p \in Queued : Place[p] = "asleep"
         /\ \A p \in Waits : Place[p] = "blocked"
         /\ cur \in Procs => Place[cur] = "running"
         /\ \A p \in Procs \ (Queued \cup Waits \cup {cur}) : Place[p] # "running"
         /\ \A p \in Procs : Place[p] = "asleep" <=> p \in Queued
         /\ \A p \in Procs \ Born : Place[p] = "unborn"
         /\ Queued \subseteq Procs /\ Waits \subseteq Procs
<1>1. Queued \subseteq Procs /\ Waits \subseteq Procs
  BY DEF SimInv, TypeOK, Queued, Waits, Sleeper, Waiter
<1>2. /\ Queued \cap Waits = {} /\ cur \notin Queued \cup Waits
      /\ (Queued \cup Waits \cup Running) \cap (returned \cup dropped) = {}
      /\ None \notin Procs
  BY ConfigAssumption DEF SimInv, OneHome
<1> QED
  BY <1>1, <1>2, PlaceAt DEF Born, Running

\* The simulator is idle exactly when no block runs.
LEMMA IdleIs ==
  ASSUME SimInv, cur = None
  PROVE  Sim!Idle /\ Sim!Asleep = Queued
<1>1. None \notin Procs
  BY ConfigAssumption
<1> QED
  BY <1>1, PlaceIs DEF Sim!Idle, Sim!Asleep

LEMMA StepsSimulate ==
  ASSUME SimInv, OneHome', Half = 0, [Next]_vars
  PROVE  [Sim!Next]_(Sim!svars)
<1>0. /\ Unique(queue) /\ Unique(queue') /\ None \notin Procs
      /\ mode = "run" => cur \in Procs /\ cur # None
      /\ mode \in {"top", "fast", "check"} => cur = None
      /\ time \in Nat
  BY ConfigAssumption DEF SimInv, OneHome, Unique, TypeOK, CurIdle
<1>1. CASE (StillSteps \/ UNCHANGED vars) /\ ~JumpToDeadline
  <2>1. UNCHANGED time
    BY <1>1 DEF StillSteps, Start, LoopEnds, TickForWaiters, RaiseDeadlock,
       PeekQueue, FastToggle, ToggleDue, Settle, EndCheck, Raise, CallFinish, RunCycles,
       vars, clock
  <2>2. UNCHANGED <<cur, queue, waiting, returned, dropped>>
    BY <1>1, StillMovesNothing DEF StillSteps
  <2>3. UNCHANGED <<Place, Due>>
    BY <2>2 DEF Place, Due, Queued, Waits
  <2> QED
    BY <2>1, <2>3 DEF Sim!svars
<1>2. CASE JumpToDeadline
  <2>1. UNCHANGED <<Place, Due>>
    BY <1>2, StillMovesNothing DEF StillSteps, Place, Due, Queued, Waits
  <2>2. PICK w \in waiting : w.dl # None /\ time' = w.dl
    BY <1>2 DEF JumpToDeadline
  <2>3. time < time'
    <3>1. TimeIsKept /\ mode = "top"
      BY <1>2 DEF JumpToDeadline, TimeIsKept
    <3>2. ~Expired(w)
      BY <3>1 DEF SimInv, ServedInv, Served
    <3>3. w.dl \in Nat
      BY <2>2 DEF SimInv, TypeOK, Waiter
    <3> QED
      BY <1>0, <2>2, <3>2, <3>3 DEF Expired
  <2>4. Sim!Idle /\ Sim!Asleep = {}
    BY <1>0, <1>2, IdleIs DEF JumpToDeadline, Queued
  <2>5. Sim!Pass
    BY <2>1, <2>3, <2>4 DEF Sim!Pass
  <2> QED
    BY <2>5 DEF Sim!Next
<1>3. CASE Pop
  <2>1. PICK e \in queue : FirstEvent(e) /\ queue' = queue \ {e} /\ time' = e.at
                           /\ cur' = e.proc
    BY <1>3 DEF Pop
  <2>2. /\ cur = None /\ UNCHANGED <<waiting, returned, dropped>>
        /\ e.proc \in Procs /\ e.proc \in Queued
    BY <1>0, <1>3, <2>1 DEF Pop, ending, SimInv, TypeOK, Sleeper, Queued
  <2>3. Queued' = Queued \ {e.proc} /\ Waits' = Waits
    BY <1>0, <2>1, <2>2, RemoveEffect DEF Queued, Waits
  <2>4. Sim!Idle /\ Sim!Asleep = Queued
    BY <2>2, IdleIs
  <2>5. Place' = [Place EXCEPT ![e.proc] = "running"]
    <3>1. e.proc \notin Waits
      BY <2>2 DEF SimInv, OneHome
    <3>2. Place'[e.proc] = "running"
      BY <2>1, <2>2, <2>3, <3>1, PlaceAt
    <3>3. \A p \in Procs \ {e.proc} : Place'[p] = Place[p]
      BY <1>0, <2>1, <2>2, <2>3, PlaceAt
    <3> QED
      BY <2>2, <3>2, <3>3, PlaceAt
  <2>6. \A f \in queue : Due[f.proc] = f.at /\ f.proc \in Procs /\ f.at \in Nat
    BY <1>0, DueIs, DueAt DEF SimInv, TypeOK, Sleeper
  <2>7. Due' = [Due EXCEPT ![e.proc] = None]
    <3>1. Due'[e.proc] = None
      BY <2>2, <2>3 DEF Due
    <3>2. \A p \in Procs \ {e.proc} : Due'[p] = Due[p]
      BY <1>0, <2>1, DueIs, DueElsewhere
    <3> QED
      BY <2>2, <3>1, <3>2, PlaceAt
  <2>8. time <= Due[e.proc] /\ time' = Due[e.proc]
    BY <2>1, <2>6 DEF SimInv, SleepInv
  <2>9. \A q \in Queued : Due[e.proc] <= Due[q]
    BY <2>1, <2>6 DEF FirstEvent, Queued
  <2>10. Sim!Wake(e.proc)
    BY <2>2, <2>4, <2>5, <2>7, <2>8, <2>9 DEF Sim!Wake
  <2> QED
    BY <2>2, <2>10 DEF Sim!Next
<1>4. CASE VisitFiring
  <2>1. PICK w \in waiting : waiting' = waiting \ {w} /\ cur' = w.proc
    BY <1>4 DEF VisitFiring, Unvisited
  <2>2. /\ cur = None /\ UNCHANGED <<queue, returned, dropped, time>>
        /\ w.proc \in Procs /\ w.proc \in Waits
    BY <1>0, <1>4, <2>1 DEF VisitFiring, ending, SimInv, TypeOK, Waiter, Waits
  <2>3. Waits' = Waits \ {w.proc} /\ Queued' = Queued
    BY <2>1, <2>2, RemoveEffect DEF Queued, Waits, SimInv, OneHome, Unique
  <2>4. Sim!Idle /\ Place[w.proc] = "blocked"
    BY <2>2, IdleIs, PlaceIs
  <2>5. Place' = [Place EXCEPT ![w.proc] = "running"]
    <3>1. w.proc \notin Queued
      BY <2>2 DEF SimInv, OneHome
    <3>2. Place'[w.proc] = "running"
      BY <2>1, <2>2, <2>3, <3>1, PlaceAt
    <3>3. \A p \in Procs \ {w.proc} : Place'[p] = Place[p]
      BY <1>0, <2>1, <2>2, <2>3, PlaceAt
    <3> QED
      BY <2>2, <3>2, <3>3, PlaceAt
  <2>6. Due' = Due
    BY <2>2 DEF Due, Queued
  <2>7. Sim!Unblock(w.proc)
    BY <2>2, <2>4, <2>5, <2>6 DEF Sim!Unblock
  <2> QED
    BY <2>2, <2>7 DEF Sim!Next
<1>5. CASE YieldDelay \/ Restart
  <2>1. PICK t \in Nat : Schedule(t, cur) /\ time <= t
    BY <1>0, <1>5, ConfigAssumption DEF YieldDelay, Restart
  <2>2. /\ cur' = None /\ cur \in Procs /\ cur # None
        /\ UNCHANGED <<waiting, returned, dropped, time>>
    BY <1>0, <1>5 DEF YieldDelay, Restart, Leave, ending
  <2>3. Queued' = Queued \cup {cur} /\ Waits' = Waits
    BY <1>0, <2>1, <2>2, ScheduleEffect DEF Waits, SimInv, OneHome
  <2> DEFINE e == [at |-> t, seq |-> seq, proc |-> cur]
  <2>4. queue' = queue \cup {e} /\ e.proc = cur /\ e.at = t
    BY <2>1 DEF Schedule
  <2> HIDE DEF e
  <2>5. Due'[cur] = t
    BY <1>0, <2>2, <2>4, DueIs, DueAt
  <2>6. \A p \in Procs \ {cur} : Due'[p] = Due[p]
    BY <1>0, <2>4, DueIs, DueElsewhere
  <2>7. Due' = [Due EXCEPT ![cur] = Due'[cur]]
    BY <2>2, <2>6, PlaceAt
  <2>8. Place' = [Place EXCEPT ![cur] = "asleep"] /\ Place[cur] = "running"
    <3>1. Place[cur] = "running"
      BY <2>2, PlaceIs
    <3>2. Place'[cur] = "asleep"
      BY <2>2, <2>3, PlaceAt
    <3>3. \A p \in Procs \ {cur} : Place'[p] = Place[p]
      BY <1>0, <2>2, <2>3, PlaceAt
    <3> QED
      BY <2>2, <3>1, <3>2, <3>3, PlaceAt
  <2>9. Sim!Sleep(cur)
    BY <2>1, <2>2, <2>5, <2>7, <2>8 DEF Sim!Sleep
  <2> QED
    BY <2>2, <2>9 DEF Sim!Next
<1>6. CASE YieldUntil \/ Park
  <2>1. /\ \E c, dl : Wait(c, dl)
        /\ cur' = None /\ cur \in Procs /\ cur # None
        /\ UNCHANGED <<queue, returned, dropped, time>>
    BY <1>0, <1>6 DEF YieldUntil, Park, Leave, ending
  <2>2. Waits' = Waits \cup {cur} /\ Queued' = Queued
    BY <2>1, WaitEffect DEF Queued, SimInv, OneHome, Unique
  <2>3. Due' = [q \in Procs |-> IF q \in {} THEN time ELSE Due[q]]
    BY <2>1 DEF Due, Queued
  <2>4. Place' = [q \in Procs |-> IF q = cur THEN "blocked"
                                  ELSE IF q \in {} THEN "asleep" ELSE Place[q]]
    <3>1. cur \notin Queued
      BY DEF SimInv, OneHome
    <3>2. Place'[cur] = "blocked"
      BY <2>1, <2>2, <3>1, PlaceAt
    <3>3. \A p \in Procs \ {cur} : Place'[p] = Place[p]
      BY <1>0, <2>1, <2>2, PlaceAt
    <3> QED
      BY <2>1, <3>2, <3>3, PlaceAt
  <2>5. Place[cur] = "running"
    BY <2>1, PlaceIs
  <2>6. Sim!Block(cur, {})
    BY <2>1, <2>3, <2>4, <2>5 DEF Sim!Block
  <2> QED
    BY <2>1, <2>6 DEF Sim!Next
<1>7. CASE YieldFork
  <2>1. PICK ks \in SUBSET (Kids \ Born), k \in {"all", "any"} :
          /\ queue' = queue \cup Entries(time, seq, ks)
          /\ Wait([kind |-> k, kids |-> ks], None)
    BY <1>7 DEF YieldFork
  <2>2. /\ cur' = None /\ cur \in Procs /\ cur # None
        /\ UNCHANGED <<returned, dropped, time>>
    BY <1>0, <1>7 DEF YieldFork, Leave, ending
  <2>3. ks \subseteq Procs /\ ks \cap (Queued \cup Waits \cup {cur} \cup returned \cup dropped) = {}
    BY <2>1, <2>2 DEF Born, Running, Procs
  <2>4. Queued' = Queued \cup ks
    BY <2>1, EntriesEffect DEF Queued
  <2>5. Waits' = Waits \cup {cur}
    BY <2>1, <2>2, WaitEffect DEF SimInv, OneHome, Unique
  <2>6. \A e \in Entries(time, seq, ks) : e.proc \in ks /\ e.at = time
    BY DEF Entries
  <2>7. \A q \in ks : \E e \in Entries(time, seq, ks) : e.proc = q
    <3> DEFINE entry(q) == [at |-> time, seq |-> seq + Rank[q], proc |-> q]
    <3>1. \A q \in ks : entry(q) \in Entries(time, seq, ks) /\ entry(q).proc = q
      BY DEF Entries
    <3> HIDE DEF entry
    <3> QED
      BY <3>1
  <2>8. ASSUME NEW q \in ks PROVE Due'[q] = time
    BY <1>0, <2>1, <2>3, <2>6, <2>7, DueIs, DueAt
  <2>9. ASSUME NEW q \in Procs \ ks PROVE Due'[q] = Due[q]
    BY <1>0, <2>1, <2>6, DueIs, DueElsewhere
  <2>10. Due' = [q \in Procs |-> IF q \in ks THEN time ELSE Due[q]]
    BY <2>8, <2>9, PlaceAt
  <2>11. Place' = [q \in Procs |-> IF q = cur THEN "blocked"
                                   ELSE IF q \in ks THEN "asleep" ELSE Place[q]]
    <3>1. cur \notin Queued
      BY DEF SimInv, OneHome
    <3>2. Place'[cur] = "blocked"
      BY <2>2, <2>3, <2>4, <2>5, <3>1, PlaceAt
    <3>3. \A p \in ks : Place'[p] = "asleep" /\ p # cur
      BY <2>3, <2>4, PlaceAt
    <3>4. \A p \in Procs \ (ks \cup {cur}) : Place'[p] = Place[p]
      BY <1>0, <2>2, <2>4, <2>5, PlaceAt
    <3> QED
      BY <2>2, <2>3, <3>2, <3>3, <3>4, PlaceAt
  <2>12. Place[cur] = "running" /\ \A q \in ks : Place[q] = "unborn"
    BY <2>2, <2>3, PlaceIs DEF Born, Running
  <2>13. Sim!Block(cur, ks)
    BY <2>2, <2>10, <2>11, <2>12 DEF Sim!Block
  <2> QED
    BY <2>2, <2>3, <2>13 DEF Sim!Next
<1>8. CASE ReturnInitial \/ ReturnKid \/ CatchTimeout
  <2>1. /\ cur' = None /\ cur \in Procs /\ cur # None
        /\ UNCHANGED <<queue, waiting, time>>
        /\ \/ returned' = returned \cup {cur} /\ UNCHANGED dropped
           \/ dropped' = dropped \cup {cur} /\ UNCHANGED returned
    BY <1>0, <1>8 DEF ReturnInitial, ReturnKid, CatchTimeout, Leave
  <2>2. Queued' = Queued /\ Waits' = Waits /\ Due' = Due
    BY <2>1 DEF Queued, Waits, Due
  <2>3. Place' = [Place EXCEPT ![cur] = "gone"] /\ Place[cur] = "running"
    <3>1. Place[cur] = "running" /\ cur \notin Queued \cup Waits
      BY <2>1, PlaceIs DEF SimInv, OneHome
    <3>2. Place'[cur] = "gone"
      BY <2>1, <2>2, <3>1, PlaceAt
    <3>3. \A p \in Procs \ {cur} : Place'[p] = Place[p]
      BY <1>0, <2>1, <2>2, PlaceAt
    <3> QED
      BY <2>1, <3>1, <3>2, <3>3, PlaceAt
  <2>4. Sim!End(cur)
    BY <2>1, <2>2, <2>3 DEF Sim!End
  <2> QED
    BY <2>1, <2>4 DEF Sim!Next
<1> QED
  BY <1>1, <1>2, <1>3, <1>4, <1>5, <1>6, <1>7, <1>8
     DEF Next, Loop, Scan, Block, StillSteps

LEMMA SimInvStep ==
  ASSUME SimInv, TypeOK', Half = 0, [Next]_vars
  PROVE  SimInv'
BY CurIdleStep, OneHomeStep, StampsStep, ServedStep, SleepStep DEF SimInv

LEMMA SimInit == ASSUME Init PROVE SimInv /\ Sim!Init
<1> USE ConfigAssumption
<1>1. TypeOK /\ CurIdle /\ OneHome
  BY HomeInit, TypeInit
<1>2. StampsInv /\ ServedInv
  BY DEF Init, StampsInv, ServedInv, InScan
<1>3. \A e \in queue : e.at = 0 /\ e.proc \in Roots
  BY DEF Init, Entries
<1>4. Queued = Roots /\ Waits = {} /\ Unique(queue)
  <2>1. queue = Entries(0, 0, Roots) /\ waiting = {} BY DEF Init
  <2>2. {f.proc : f \in Entries(0, 0, Roots)} = Roots /\ Unique(Entries(0, 0, Roots))
    <3>1. \A t, n, ps : {f.proc : f \in Entries(t, n, ps)} = ps /\ Unique(Entries(t, n, ps))
      <4> TAKE t, n, ps
      <4> QED BY EntriesEffect
    <3> QED BY <3>1
  <2>3. Queued = Roots BY <2>1, <2>2 DEF Queued
  <2>4. Waits = {} BY <2>1 DEF Waits
  <2> QED BY <2>1, <2>2, <2>3, <2>4
<1>5. SimInv
  BY <1>1, <1>2, <1>3 DEF SimInv, SleepInv, Init
<1>6. Due = [p \in Procs |-> IF p \in Roots THEN 0 ELSE None]
  <2>1. \A p \in Roots : \E e \in queue : e.proc = p
    BY <1>4 DEF Queued
  <2>2. \A p \in Roots : Due[p] = 0
    BY <1>3, <1>4, <2>1, DueIs, DueAt DEF Procs
  <2> QED
    BY <1>4, <2>2 DEF Due
<1>7. Place = [p \in Procs |-> IF p \in Roots THEN "asleep" ELSE "unborn"]
  BY <1>4 DEF Place, Init
<1> QED
  BY <1>5, <1>6, <1>7 DEF Sim!Init, Init

(* For every test bench without a clock (a period of 0 or 1): the engine   *)
(* implements the event simulator.  Time never goes back and never passes  *)
(* the instant a block sleeps for, one block runs at a time, at that       *)
(* instant, and none is lost, through heap, waiting list, deadlines, forks *)
(* and restarts.                                                           *)
THEOREM ImplementsEventSim ==
  ASSUME Half = 0
  PROVE  Spec => IsEventSim
<1>1. Init => SimInv /\ Sim!Init
  BY SimInit
<1>2. SimInv /\ TypeOK' /\ [Next]_vars => SimInv' /\ [Sim!Next]_(Sim!svars)
  BY SimInvStep, StepsSimulate DEF SimInv
<1> QED
  BY <1>1, <1>2, TypeCorrect, PTL DEF Spec, IsEventSim, Sim!Spec
=============================================================================
