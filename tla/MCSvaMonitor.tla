---------------------------- MODULE MCSvaMonitor ----------------------------
(***************************************************************************)
(* Properties of the shapes that tests/test_csim_temporal.py compiles, and *)
(* longer ones: both implications, delays of one and two edges, steps at   *)
(* one edge at the end, and a sequence without an antecedent.              *)
(***************************************************************************)
EXTENDS SvaMonitor

Family == {
    Always(Bool("a")),
    Always(Concat(Bool("a"), 1, Bool("b"))),
    Always(Concat(Bool("a"), 3, Concat(Bool("b"), 0, Bool("a")))),
    Overlapping("a", Bool("b")),
    Overlapping("a", Concat(Bool("b"), 0, Bool("a"))),
    Overlapping("a", Concat(Bool("b"), 1, Concat(Bool("a"), 2, Bool("b")))),
    NonOverlapping("a", Concat(Bool("b"), 1, Repeat(Bool("a"), 1))),
    NonOverlapping("b", Concat(Bool("b"), 2, Concat(Bool("a"), 0, Bool("b"))))}

ASSUME FamilyIsSupported == Props = Family => Supported

\* Repetition, which the other family leaves out.
Repetitions == {Overlapping("a", Repeat(Bool("b"), 3))}
=============================================================================
