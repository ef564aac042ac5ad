------------------------------- MODULE EventSim -------------------------------
(***************************************************************************)
(* What a discrete-event simulator promises its processes, and what the    *)
(* test bench code of veripy is written against: simulated time never goes *)
(* back and never passes the instant a sleeping process has asked for; a   *)
(* sleeping process runs exactly at that instant; one process runs at a    *)
(* time and runs until it sleeps, blocks or ends; nothing is ever lost.    *)
(***************************************************************************)
EXTENDS Naturals

CONSTANTS Procs, Roots, None

VARIABLES now,    \* simulated time
          place,  \* what each process is doing
          due     \* the instant a sleeping process has asked for

svars == <<now, place, due>>

Idle       == \A p \in Procs : place[p] # "running"
Asleep     == {p \in Procs : place[p] = "asleep"}

Init ==
  /\ now = 0
  /\ place = [p \in Procs |-> IF p \in Roots THEN "asleep" ELSE "unborn"]
  /\ due   = [p \in Procs |-> IF p \in Roots THEN 0 ELSE None]

(* Time passes with nobody running, up to the first wake-up at most.       *)
Pass ==
  /\ Idle
  /\ now' > now
  /\ \A q \in Asleep : now' <= due[q]
  /\ UNCHANGED <<place, due>>

Wake(p) ==
  /\ Idle /\ p \in Asleep
  /\ now <= due[p] /\ \A q \in Asleep : due[p] <= due[q]
  /\ now' = due[p]
  /\ place' = [place EXCEPT ![p] = "running"]
  /\ due'   = [due EXCEPT ![p] = None]

Unblock(p) ==
  /\ Idle /\ place[p] = "blocked"
  /\ place' = [place EXCEPT ![p] = "running"]
  /\ UNCHANGED <<now, due>>

Sleep(p) ==
  /\ place[p] = "running"
  /\ place' = [place EXCEPT ![p] = "asleep"]
  /\ due'[p] >= now
  /\ due' = [due EXCEPT ![p] = due'[p]]
  /\ UNCHANGED now

(* A process blocks; it may have spawned others, which run at once.        *)
Block(p, spawned) ==
  /\ place[p] = "running"
  /\ \A q \in spawned : place[q] = "unborn"
  /\ place' = [q \in Procs |-> IF q = p THEN "blocked"
                               ELSE IF q \in spawned THEN "asleep" ELSE place[q]]
  /\ due' = [q \in Procs |-> IF q \in spawned THEN now ELSE due[q]]
  /\ UNCHANGED now

End(p) ==
  /\ place[p] = "running"
  /\ place' = [place EXCEPT ![p] = "gone"]
  /\ UNCHANGED <<now, due>>

Next ==
  \/ Pass
  \/ \E p \in Procs : Wake(p) \/ Unblock(p) \/ Sleep(p) \/ End(p)
  \/ \E p \in Procs, spawned \in SUBSET Procs : Block(p, spawned)

Spec == Init /\ [][Next]_svars
=============================================================================
