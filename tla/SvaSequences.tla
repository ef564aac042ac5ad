---------------------------- MODULE SvaSequences ----------------------------
(***************************************************************************)
(* Linear temporal sequences, as sva.py builds them and as the C emitter   *)
(* flattens them (_seq_to_steps, backend_csim.py).  A sequence is a record *)
(*   steps  what the emitter makes of it: expressions, each with the delay *)
(*          to the one before,                                             *)
(*   due    what it means: which expression must hold how many edges after *)
(*          the sequence begins,                                           *)
(*   span   how many edges after its beginning it ends.                    *)
(* A property is a sequence together with the antecedent that starts it.   *)
(***************************************************************************)
EXTENDS Naturals, Sequences

CONSTANTS NoTrigger     \* in the place of an antecedent: there is none

\* The due times of a sequence that begins n edges later.
Later(due, n) == {[o EXCEPT !.after = @ + n] : o \in due}

\* The steps of a sequence that is looked at n edges later.
LaterSteps(steps, n) ==
    [k \in DOMAIN steps |-> IF k = 1 THEN [steps[k] EXCEPT !.delay = @ + n] ELSE steps[k]]

\* A boolean expression is a sequence of one edge.
Bool(e) ==
    [steps |-> <<[expr |-> e, delay |-> 0]>>, due |-> {[expr |-> e, after |-> 0]}, span |-> 0]

\* left ##n right
Concat(left, n, right) ==
    [steps |-> left.steps \o LaterSteps(right.steps, n),
     due   |-> left.due \cup Later(right.due, left.span + n),
     span  |-> left.span + n + right.span]

\* s[*n], n times without an edge between: the emitter repeats the steps as they are.
Repeat(s, n) ==
    LET len == Len(s.steps)
        all == 0 .. n - 1
    IN  [steps |-> [k \in 1 .. n * len |-> s.steps[((k - 1) % len) + 1]],
         due   |-> UNION {Later(s.due, m * (s.span + 1)) : m \in all},
         span  |-> n * s.span + n - 1]

\* e |-> s, and e |=> s, which looks one edge later
Overlapping(e, s) == [trigger |-> e, steps |-> s.steps, due |-> s.due]
NonOverlapping(e, s) == [trigger |-> e, steps |-> LaterSteps(s.steps, 1), due |-> Later(s.due, 1)]

\* A sequence that is a property of its own begins at every edge.
Always(s) == [trigger |-> NoTrigger, steps |-> s.steps, due |-> s.due]
=============================================================================
