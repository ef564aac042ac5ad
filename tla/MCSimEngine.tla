----------------------------- MODULE MCSimEngine -----------------------------
(* Small test benches for SimEngine.                                       *)
EXTENDS SimEngine

CONSTANTS i1, i2, a1, k1, k2

MCRank == [p \in Procs |-> CASE p = i1 -> 0 [] p = i2 -> 1 [] p = a1 -> 2
                             [] p = k1 -> 3 [] p = k2 -> 4]
MCFuel == [p \in Procs |-> IF p = i1 THEN 2 ELSE 1]

(* The loop without a clock, which goes on as long as it can: run() is one *)
(* thread, and nothing else has to happen for its next step.               *)
WithoutClock(A) == Half = 0 /\ A
UnclockedSpec == Init /\ [][WithoutClock(Next)]_vars /\ WF_vars(Next)
=============================================================================
