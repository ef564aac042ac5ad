----------------------------- MODULE SvaMonitor -----------------------------
(***************************************************************************)
(* The monitor that emit_c (_emit_pending_fsm, backend_csim.py) writes     *)
(* into the model for a temporal assertion.  At each edge of the clock of  *)
(* the property it goes through an array of attempts in flight, moves each *)
(* on or removes it, and then begins a new attempt.  The array has a fixed *)
(* number of places; an attempt is its next step and the edges to wait.    *)
(*                                                                         *)
(* The loop over the array is modelled one turn at a time, because it      *)
(* removes an attempt by moving the last one into its place.               *)
(*                                                                         *)
(* trace and cleared are history: the values at the edges so far, and the  *)
(* edge at which the bench last cleared the failure flag.                  *)
(***************************************************************************)
EXTENDS SvaSequences

CONSTANTS
    Atoms,      \* the expressions in the properties
    Props,      \* the properties of a family, one of which is monitored
    Places,     \* the length of the array, 16 in the code
    MaxEdges    \* bound of the model: edges in a run

VARIABLES
    prop,       \* the property, constant
    pending,    \* the attempts in flight: _seq_pN_step and _seq_pN_dly
    turn,       \* of the loop
    phase,      \* "idle" between two edges, "advance" in the loop, "begin" behind it
    fail,       \* _assert_fail
    trace,      \* history
    cleared     \* history

monitorVars == <<prop, pending, turn, phase, fail, trace, cleared>>

Valuations == [Atoms -> BOOLEAN]
Steps == prop.steps
LastStep == Len(Steps)

\* The value of an expression at the edge that is being processed.
HoldsNow(e) == trace[Len(trace)][e]

IsProp(p) ==
    /\ p.trigger \in Atoms \cup {NoTrigger}
    /\ p.steps \in Seq([expr : Atoms, delay : Nat])
    /\ p.steps # <<>>
    /\ p.due \subseteq [expr : Atoms, after : Nat]

ASSUME PropAssumption == \A p \in Props : IsProp(p)
ASSUME BoundAssumption == Places \in Nat /\ MaxEdges \in Nat /\ NoTrigger \notin Atoms

(***************************************************************************)
(* The properties the monitor is right about: the due times add up from    *)
(* the delays and do not exceed the places, only the last step may be      *)
(* looked at together with the one before, and without an antecedent the   *)
(* first step is looked at at once.                                        *)
(***************************************************************************)
Timed(p, off) ==
    /\ off[1] = p.steps[1].delay
    /\ \A k \in 1 .. Len(p.steps) - 1 : off[k + 1] = off[k] + p.steps[k + 1].delay
    /\ p.due = {[expr |-> p.steps[k].expr, after |-> off[k]] : k \in 1 .. Len(p.steps)}

Supported ==
    /\ Places > 0
    /\ \A p \in Props :
        /\ \E off \in [1 .. Len(p.steps) -> 0 .. Places] : Timed(p, off)
        /\ \A k \in 2 .. Len(p.steps) - 1 : p.steps[k].delay > 0
        /\ p.trigger = NoTrigger => p.steps[1].delay = 0

MonitorInit ==
    /\ prop \in Props
    /\ pending = <<>>
    /\ turn = 1
    /\ phase = "idle"
    /\ fail = FALSE
    /\ trace = <<>>
    /\ cleared = 0

-----------------------------------------------------------------------------
(* The loop over the attempts in flight *)

Edge(v) ==
    /\ phase = "idle"
    /\ Len(trace) < MaxEdges
    /\ trace' = Append(trace, v)
    /\ turn' = 1
    /\ phase' = "advance"
    /\ UNCHANGED <<prop, pending, fail, cleared>>

WaitOn ==
    /\ phase = "advance"
    /\ turn <= Len(pending)
    /\ pending[turn].dly > 0
    /\ pending' = [pending EXCEPT ![turn].dly = @ - 1]
    /\ turn' = turn + 1
    /\ UNCHANGED <<prop, phase, fail, trace, cleared>>

\* The step after st is looked at in the same turn.
Joined(st) == st < LastStep /\ Steps[st + 1].delay = 0

\* The last attempt takes the place of attempt k.
Remove(k) == [j \in 1 .. Len(pending) - 1 |-> IF j = k THEN pending[Len(pending)] ELSE pending[j]]

Look(st) ==
    fail' = (\/ fail
             \/ ~ HoldsNow(Steps[st].expr)
             \/ (Joined(st) /\ ~ HoldsNow(Steps[st + 1].expr)))

\* mutant: the next step is looked at at the next edge, whatever its delay
CheckAndMoveAtOnce ==
    /\ phase = "advance"
    /\ turn <= Len(pending)
    /\ pending[turn].dly = 0
    /\ LET st == pending[turn].step IN
       /\ st < LastStep /\ ~ Joined(st)
       /\ Look(st)
       /\ pending' = [pending EXCEPT ![turn] = [step |-> st + 1, dly |-> 0]]
    /\ turn' = turn + 1
    /\ UNCHANGED <<prop, phase, trace, cleared>>

\* An attempt whose step is due goes on whether or not the step holds.
CheckAndMove ==
    /\ phase = "advance"
    /\ turn <= Len(pending)
    /\ pending[turn].dly = 0
    /\ LET st == pending[turn].step IN
       /\ st < LastStep /\ ~ Joined(st)
       /\ Look(st)
       /\ pending' = [pending EXCEPT ![turn] = [step |-> st + 1, dly |-> Steps[st + 1].delay - 1]]
    /\ turn' = turn + 1
    /\ UNCHANGED <<prop, phase, trace, cleared>>

\* mutant: the attempt that takes the place is passed over
CheckAndRemoveAndSkip ==
    /\ phase = "advance"
    /\ turn <= Len(pending)
    /\ pending[turn].dly = 0
    /\ LET st == pending[turn].step IN
       /\ st = LastStep \/ Joined(st)
       /\ Look(st)
    /\ pending' = Remove(turn)
    /\ turn' = turn + 1
    /\ UNCHANGED <<prop, phase, trace, cleared>>

CheckAndRemove ==
    /\ phase = "advance"
    /\ turn <= Len(pending)
    /\ pending[turn].dly = 0
    /\ LET st == pending[turn].step IN
       /\ st = LastStep \/ Joined(st)
       /\ Look(st)
    /\ pending' = Remove(turn)
    /\ UNCHANGED <<prop, turn, phase, trace, cleared>>

EndLoop ==
    /\ phase = "advance"
    /\ turn > Len(pending)
    /\ phase' = "begin"
    /\ UNCHANGED <<prop, pending, turn, fail, trace, cleared>>

-----------------------------------------------------------------------------
(* A new attempt *)

Triggers == prop.trigger # NoTrigger => HoldsNow(prop.trigger)

\* mutant: the step after the one to look at is stored
EnqueueNext(st) ==
    pending' = IF Len(pending) < Places
               THEN Append(pending, [step |-> st + 1, dly |-> Steps[st].delay - 1])
               ELSE pending

\* An attempt that finds no place is dropped.
Enqueue(st) ==
    pending' = IF Len(pending) < Places
               THEN Append(pending, [step |-> st, dly |-> Steps[st].delay - 1])
               ELSE pending

Begin == phase = "begin" /\ phase' = "idle" /\ UNCHANGED <<prop, turn, trace, cleared>>

NotTriggered ==
    /\ Begin
    /\ ~ Triggers
    /\ UNCHANGED <<pending, fail>>

BeginLater ==
    /\ Begin
    /\ Triggers
    /\ Steps[1].delay > 0
    /\ Enqueue(1)
    /\ UNCHANGED fail

\* (The emitter writes a property that is one boolean as this test alone.)
BeginSingle ==
    /\ Begin
    /\ Triggers
    /\ Steps[1].delay = 0 /\ LastStep = 1
    /\ fail' = (fail \/ ~ HoldsNow(Steps[1].expr))
    /\ UNCHANGED pending

\* The first step fails: of a consequent that is a failure, of a sequence it is not.
BeginFails ==
    /\ Begin
    /\ Triggers
    /\ Steps[1].delay = 0 /\ LastStep > 1
    /\ ~ HoldsNow(Steps[1].expr)
    /\ fail' = (fail \/ prop.trigger # NoTrigger)
    /\ UNCHANGED pending

BeginFollowed ==
    /\ Begin
    /\ Triggers
    /\ Steps[1].delay = 0 /\ LastStep > 1
    /\ HoldsNow(Steps[1].expr)
    /\ IF Joined(1)
       THEN /\ fail' = (fail \/ (Len(pending) < Places /\ ~ HoldsNow(Steps[2].expr)))
            /\ UNCHANGED pending
       ELSE Enqueue(2) /\ UNCHANGED fail

\* veripy_assert_clear: the flag only, attempts in flight stay.
AssertClear ==
    /\ phase = "idle"
    /\ fail' = FALSE
    /\ cleared' = Len(trace)
    /\ UNCHANGED <<prop, pending, turn, phase, trace>>

MonitorNext ==
    \/ \E v \in Valuations : Edge(v)
    \/ WaitOn \/ CheckAndMove \/ CheckAndRemove \/ EndLoop
    \/ NotTriggered \/ BeginLater \/ BeginSingle \/ BeginFails \/ BeginFollowed
    \/ AssertClear

MonitorSpec == MonitorInit /\ [][MonitorNext]_monitorVars

-----------------------------------------------------------------------------
(* Properties *)

Edges == 1 .. Len(trace)

\* An attempt begins at edge t.  A sequence of several steps without an antecedent
\* takes its first step for one (the comment at backend_csim.py:602).
Begins(t) ==
    /\ prop.trigger # NoTrigger => trace[t][prop.trigger]
    /\ prop.trigger = NoTrigger /\ LastStep > 1 => trace[t][Steps[1].expr]

\* The attempt of edge t has not met o, which was due at an edge that has passed.
Missed(t, o) ==
    /\ Begins(t)
    /\ t + o.after \in Edges
    /\ ~ trace[t + o.after][o.expr]

FirstMissed(t, o) ==
    /\ Missed(t, o)
    /\ \A p \in prop.due : Missed(t, p) => o.after <= p.after

\* Type invariant.  Steps, delays and places are in their ranges.
MonitorTypeOK ==
    /\ prop \in Props
    /\ pending \in Seq([step : 1 .. LastStep, dly : Nat])
    /\ Len(pending) <= Places
    /\ turn \in Nat \ {0}
    /\ phase \in {"idle", "advance", "begin"}
    /\ fail \in BOOLEAN
    /\ trace \in Seq(Valuations) /\ Len(trace) <= MaxEdges
    /\ cleared \in 0 .. Len(trace)

(***************************************************************************)
(* Between two edges, when the bench reads the flag: an attempt that was   *)
(* not met since the flag was cleared has set it.  The array must hold     *)
(* every attempt in flight, the loop must reach each of them once although *)
(* it moves them about, and the delays must add up.                        *)
(***************************************************************************)
NoFailureUnseen ==
    phase = "idle" =>
        \A t \in Edges, o \in prop.due :
            FirstMissed(t, o) /\ cleared < t + o.after => fail

(***************************************************************************)
(* The flag is up only if an attempt was not met since it was cleared: no  *)
(* false alarm from an attempt that is looked at too early or twice.       *)
(***************************************************************************)
NoFalseAlarm ==
    fail => \E t \in Edges, o \in prop.due : Missed(t, o) /\ cleared < t + o.after
=============================================================================
