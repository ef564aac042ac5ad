--------------------------- MODULE MCCompiledEval ---------------------------
(***************************************************************************)
(* Small designs for CompiledEval, all signals one bit wide.               *)
(***************************************************************************)
EXTENDS CompiledEval

Not(x) == 1 - x
And(x, y) == x * y
Xor(x, y) == (x + y) % 2

\* A block that always assigns f of what it reads to `target'.
Assigns(reads, target, f(_)) ==
    [reads |-> reads, writes |-> {target},
     fn |-> [v \in [reads -> {0, 1}] |-> [s \in {target} |-> f(v)]]]
\* A block that assigns only when `when' holds of what it reads.
Guard(reads, target, when(_), f(_)) ==
    [reads |-> reads, writes |-> {target},
     fn |-> [v \in [reads -> {0, 1}] |->
                [s \in {t \in {target} : when(v)} |-> f(v)]]]
Clocked(on, block) ==
    [edges |-> on, reads |-> block.reads, writes |-> block.writes, fn |-> block.fn]

PosA == <<"posedge", "ca">>
PosB == <<"posedge", "cb">>
PosR == <<"posedge", "rst">>

\* Few enough signals for one word.
OneWord == [s \in Tracked \ Mems |-> 0]

(***************************************************************************)
(* Two clocks and an asynchronous reset.  r1 and r2 swap through a gate on *)
(* ca, r3 runs on cb and is read on no other clock, m is a memory written  *)
(* after the only block of its group that reads it.  w1 is a local merged  *)
(* into the block of y1; y1 feeds g, which r2 reads, and y2 depends on     *)
(* registers only through g; n needs no second evaluation; d and e, in two *)
(* words of the struct, are merged into the block of y3, which has a       *)
(* conditional assignment.                                                 *)
(***************************************************************************)
TwoClockComb == <<
    Assigns({"a", "r1"}, "w1", LAMBDA v : Xor(v["a"], v["r1"])),
    Assigns({"w1", "r2"}, "y1", LAMBDA v : And(v["w1"], v["r2"])),
    Assigns({"a"}, "n", LAMBDA v : Not(v["a"])),
    Assigns({"y1", "a"}, "g", LAMBDA v : Xor(v["y1"], v["a"])),
    Assigns({"g", "m", "n"}, "y2", LAMBDA v : IF v["n"] = 1 THEN v["g"] ELSE v["m"]),
    Assigns({"a", "r3"}, "d", LAMBDA v : Xor(v["a"], v["r3"])),
    Assigns({"d", "n"}, "e", LAMBDA v : Xor(v["d"], v["n"])),
    Guard({"e", "n"}, "y3", LAMBDA v : v["n"] = 0, LAMBDA v : v["e"]) >>
TwoClockPlain == 1 .. 7
TwoClockWord == [OneWord EXCEPT !["d"] = 1]
TwoClockSeqs == <<
    Clocked({PosA, PosR}, Assigns({"rst", "g"}, "r1",
            LAMBDA v : IF v["rst"] = 1 THEN 0 ELSE v["g"])),
    Clocked({PosA}, Assigns({"r1", "m"}, "r2", LAMBDA v : Xor(v["r1"], v["m"]))),
    Clocked({PosA}, Guard({"r1", "a"}, "m", LAMBDA v : v["a"] = 1, LAMBDA v : Not(v["r1"]))),
    Clocked({PosB}, Assigns({"r3", "a"}, "r3", LAMBDA v : Xor(v["r3"], v["a"]))) >>
TwoClockOrder == << PosA, PosB, PosR >>

(***************************************************************************)
(* y = 0; if r: y = 1, the usual shape of a combinational block.           *)
(***************************************************************************)
DefaultComb == <<
    Assigns({}, "y1", LAMBDA v : 0),
    Guard({"r1"}, "y1", LAMBDA v : v["r1"] = 1, LAMBDA v : 1) >>
DefaultPlain == {1}
ToggleSeqs == << Clocked({PosA}, Assigns({"r1", "a"}, "r1", LAMBDA v : Xor(v["r1"], v["a"]))) >>
ToggleOrder == << PosA >>

(***************************************************************************)
(* t = ~a; y1 = t ^ r; y2 = t & r, with t a local variable of the block.   *)
(***************************************************************************)
SharedComb == <<
    Assigns({"a"}, "t", LAMBDA v : Not(v["a"])),
    Assigns({"t", "r1"}, "y1", LAMBDA v : Xor(v["t"], v["r1"])),
    Assigns({"t", "r1"}, "y2", LAMBDA v : And(v["t"], v["r1"])) >>
SharedPlain == 1 .. 3

(***************************************************************************)
(* t = a & r; y1 = t ^ a; if y1: y2 = 1 else: y2 = a, with t a Register of *)
(* the module, which the `if' of its block keeps out of _inline_cont_assigns. *)
(***************************************************************************)
PackedComb == <<
    Assigns({"a", "r1"}, "t", LAMBDA v : And(v["a"], v["r1"])),
    Assigns({"t", "a"}, "y1", LAMBDA v : Xor(v["t"], v["a"])),
    Assigns({"y1", "a"}, "y2", LAMBDA v : IF v["y1"] = 1 THEN 1 ELSE v["a"]) >>
PackedPlain == {1, 2}
=============================================================================
