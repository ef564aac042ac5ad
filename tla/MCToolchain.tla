------------------------------- MODULE MCToolchain -------------------------------
(***************************************************************************)
(* Toolchain on bounded families of modules.  Flat modules have inputs a   *)
(* (one bit) and b, a register r, internal signals x, y and k and an       *)
(* output o; hierarchical ones have two instances u and v of one child     *)
(* each.  Every signal but a and the states of a machine has two bits.     *)
(*                                                                         *)
(* Odd adds the forms for which the code is known to lose the meaning (see *)
(* the README); it is empty in the runs.  Tools says which tools are used. *)
(***************************************************************************)
EXTENDS Toolchain, SocBus, TestRuns, TestBenches

CONSTANTS Odd, Tools

VARIABLE tool

S(n) == Sig(n)
N(n) == Name(n)
C(v) == Const(v)
Local(t, e) == Stmt("local", t, <<e>>, <<>>)
Aug(t, e) == Stmt("aug", t, <<e>>, <<>>)
AugLocal(t, e) == Stmt("auglocal", t, <<e>>, <<>>)
For(i, n, body) == Stmt("for", i, <<C(n)>>, <<body>>)
Break == Stmt("break", "", <<>>, <<>>)
Return(e) == Stmt("return", "", <<e>>, <<>>)
Comb(body) == [fsm |-> FALSE, body |-> body]
Fsm(body) == [fsm |-> TRUE, body |-> body]

Narrow == {"a", "_fsm_state", "_fsm_next"}
Module(ins, outs, inner, comb, always, subs) ==
  [ins |-> ins, outs |-> outs, inner |-> inner \ outs, comb |-> comb, always |-> always,
   subs |-> subs,
   width |-> [n \in ins \cup outs \cup inner |-> IF n \in Narrow THEN 1 ELSE 2]]

-------------------------------------------------------------------------------
(* Flat modules                                                            *)

\* Drivers of x, from b and r, and in the last forms from y.
DriveX ==
  { Comb(<<Assign("x", Bin("^", S("b"), S("r")))>>),
    Comb(<<Assign("x", S("b")), If(S("a"), <<Assign("x", S("r"))>>, <<>>)>>),
    \* a chain of comparisons, the selector on either side
    Comb(<<If(Cmp("==", S("r"), C(0)), <<Assign("x", C(3))>>,
            <<If(Cmp("==", C(2), S("r")), <<Assign("x", S("b"))>>,
                 <<Assign("x", C(1))>>)>>)>>),
    \* the first index that passes
    Comb(<<Assign("x", C(3)),
           For("i", 3, <<If(Cmp("<", S("b"), Bin("+", N("i"), C(1))),
                            <<Assign("x", N("i")), Break>>, <<>>)>>)>>),
    \* every index: the last one counts
    Comb(<<Assign("x", C(0)),
           For("i", 3, <<If(Cmp("==", S("b"), N("i")),
                            <<Assign("x", Bin("+", N("i"), C(1)))>>, <<>>)>>)>>),
    \* local variables
    Comb(<<Local("t", Bin("+", S("b"), S("r"))),
           If(Cmp("==", N("t"), C(1)), <<Assign("x", N("t"))>>,
              <<Assign("x", Bin("&", N("t"), C(2)))>>)>>),
    Comb(<<SliceAssign("x", 0, 0, S("a")),
           If(S("a"), <<SliceAssign("x", 1, 1, Slice(S("b"), 0, 0))>>,
              <<SliceAssign("x", 1, 1, C(1))>>)>>),
    Comb(<<Assign("x", Mux(Cmp("==", S("y"), C(2)), S("b"), S("r")))>>),
    Comb(<<Local("t", Bin("|", S("y"), C(1))), If(S("a"), <<Assign("x", N("t"))>>,
                                                    <<Assign("x", C(0))>>)>>) }

\* Drivers of y and of the constant k.
DriveY ==
  { Comb(<<Assign("y", Bin("-", S("x"), C(1)))>>),
    Comb(<<Assign("y", Bin("&", S("b"), S("k"))), Assign("k", C(2))>>),
    Comb(<<Assign("y", C(1)), Local("s", Un("~", S("x"))),
           If(Bool("&&", S("a"), Cmp("!=", N("s"), C(0))), <<Assign("y", N("s"))>>, <<>>)>>),
    Comb(<<If(Cmp("==", S("k"), C(2)), <<Assign("y", S("x"))>>, <<Assign("y", S("b"))>>)>>),
    Comb(<<If(Un("!", S("k")), <<Assign("y", C(3))>>,
              <<Assign("y", S("r")), If(S("a"), <<Assign("y", C(0))>>, <<>>)>>)>>) }

DriveK == { Comb(<<Assign("k", C(2))>>), Comb(<<Assign("k", C(0))>>) }

\* What drives the output and the register.
Ends ==
  { <<Comb(<<Assign("o", S("y"))>>), Comb(<<Assign("r", S("x"))>>)>>,
    <<Comb(<<Assign("o", Mux(S("a"), S("x"), Bin("+", S("y"), S("r"))))>>),
      Comb(<<If(S("a"), <<Assign("r", C(0))>>, <<Aug("r", S("b"))>>)>>)>>,
    <<Comb(<<Assign("o", Concat(Slice(S("y"), 0, 0), Slice(S("x"), 1, 1)))>>),
      Comb(<<Local("n", Bin("^", S("y"), S("r"))), Assign("r", N("n"))>>)>> }

FlatInner == {"x", "y", "k", "r"}
FlatModules ==
  {Module({"a", "b"}, {"o"} \cup (IF k.body[1].es[1].num = 0 THEN {} ELSE {"k"}),
          FlatInner,
          <<end[1], y>> \o (IF \E s \in Range(y.body) : "k" \in SourceWrites(s) THEN <<>> ELSE <<k>>)
          \o <<x>>, <<end[2]>>, <<>>) :
     x \in DriveX, y \in DriveY, k \in DriveK, end \in Ends}

-------------------------------------------------------------------------------
(* A machine of two states                                                 *)

MachineBodies ==
  { <<If(Cmp("==", N("state"), N("IDLE")),
         <<Assign("o", C(1)), If(S("a"), <<Return(N("BUSY"))>>, <<>>)>>,
         <<Assign("o", S("b")), If(Cmp("==", S("b"), C(3)), <<Return(N("IDLE"))>>, <<>>)>>)>>,
    <<Assign("o", S("b")),
      If(Cmp("==", N("state"), N("BUSY")), <<Return(N("IDLE"))>>,
         <<If(Cmp("<", S("b"), C(2)), <<Return(N("BUSY"))>>, <<>>)>>)>> }
FsmUpdate == Comb(<<If(S("a"), <<Assign("_fsm_state", C(0))>>,
                      <<Assign("_fsm_state", S("_fsm_next"))>>)>>)
MachineModules ==
  {Module({"a", "b"}, {"o"}, {"_fsm_state", "_fsm_next"}, <<Fsm(body)>>, <<FsmUpdate>>, <<>>) :
     body \in MachineBodies}

-------------------------------------------------------------------------------
(* Modules with two sub-modules                                            *)

Adder == Module({"i"}, {"o"}, {}, <<Comb(<<Assign("o", Bin("+", S("i"), Param("K")))>>)>>,
                <<>>, <<>>)
Chained == Module({"i"}, {"o"}, {"w"},
                  <<Comb(<<Assign("o", S("w"))>>),
                    Comb(<<Local("t", Bin("^", S("i"), Param("K"))),
                           If(Cmp("==", N("t"), C(0)), <<Assign("w", C(2))>>,
                              <<Assign("w", N("t"))>>)>>)>>, <<>>, <<>>)
Stored == Module({"i"}, {"o"}, {}, <<>>, <<Comb(<<Assign("o", S("i"))>>)>>, <<>>)
Mixed == Module({"i"}, {"o"}, {"q"}, <<Comb(<<Assign("o", Bin("^", S("i"), S("q")))>>)>>,
                <<Comb(<<Assign("q", Bin("+", S("q"), S("i")))>>)>>, <<>>)
Children == {<<Adder, Chained>>, <<Stored, Chained>>, <<Mixed, Adder>>,
             <<Mixed, Stored>>, <<Chained, Chained>>}
Sub(name, child, k) == [name |-> name, design |-> child, params |-> [n \in {"K"} |-> k]]

\* What the parent drives the two inputs with, and its output.
WiringU == { Comb(<<Assign("u_i", S("b"))>>),
             Comb(<<Assign("u_i", S("v_o"))>>),
             Comb(<<If(S("a"), <<Assign("u_i", S("b"))>>, <<Assign("u_i", C(1))>>)>>) }
WiringV == { Comb(<<Assign("v_i", S("u_o"))>>),
             Comb(<<Assign("v_i", Bin("|", S("b"), S("x")))>>),
             Comb(<<If(S("a"), <<Assign("v_i", S("u_o"))>>, <<Assign("v_i", S("x"))>>)>>) }
WiringO == { Comb(<<Assign("o", S("v_o")), Assign("x", C(1))>>),
             Comb(<<Assign("o", Bin("^", S("u_o"), S("v_o"))), Assign("x", S("b"))>>),
             Comb(<<Assign("x", S("u_o")), If(S("a"), <<Assign("o", S("x"))>>,
                                              <<Assign("o", S("v_o"))>>)>>) }
HierModules ==
  {Module({"a", "b"}, {"o"}, {"x"}, <<o, u, v>>, <<>>, <<Sub("u", c[1], 1), Sub("v", c[2], 2)>>) :
     c \in Children, u \in WiringU, v \in WiringV, o \in WiringO}

-------------------------------------------------------------------------------
(* Forms outside the run                                                   *)

Tail3(x) == Module({"a", "b"}, {"o", "k"}, FlatInner,
                   <<Comb(<<Assign("o", S("x"))>>), Comb(<<Assign("k", C(1))>>), x>>,
                   <<Comb(<<Assign("r", S("b"))>>)>>, <<>>)
OddModules ==
  {m \in {
    <<"nested", Tail3(Comb(<<If(S("a"), <<If(S("k"), <<Assign("x", C(1))>>,
                                             <<Assign("x", C(2))>>)>>,
                                <<Assign("x", C(3))>>)>>))>>,
    <<"slices", Tail3(Comb(<<SliceAssign("x", 0, 0, S("a")), SliceAssign("x", 1, 1, C(1))>>))>>,
    <<"reuse", Module({"a", "b"}, {"o"}, {"y", "r"},
                      <<Comb(<<Local("t", S("b")), Assign("o", N("t")), Local("t", S("r")),
                               Assign("y", N("t"))>>)>>,
                      <<Comb(<<Assign("r", S("y"))>>)>>, <<>>)>>,
    <<"auglocal", Tail3(Comb(<<Local("t", S("b")), AugLocal("t", C(1)), Assign("x", N("t"))>>))>>,
    <<"break", Tail3(Comb(<<Assign("x", S("b")),
                            For("i", 3, <<Assign("x", N("i")),
                                          If(Cmp("==", S("r"), N("i")), <<Break>>, <<>>)>>)>>))>>,
    \* x has a default and y none, and y feeds the default
    <<"false loop", Module({"a", "b"}, {"o"}, {"x", "y", "k", "r"},
                           <<Comb(<<Assign("x", S("k")),
                                    If(S("a"), <<Assign("x", C(1)), Assign("y", C(2))>>,
                                       <<Assign("y", C(3))>>)>>),
                             Comb(<<Assign("k", S("y"))>>), Comb(<<Assign("o", S("x"))>>)>>,
                           <<Comb(<<Assign("r", S("b"))>>)>>, <<>>)>>,
    <<"truth", Tail3(Comb(<<Assign("y", Bin("+", S("b"), C(1))),
                            Assign("x", Mux(S("y"), C(1), C(2)))>>))>>
   } : m[1] \in Odd}

-------------------------------------------------------------------------------
\* A module and a bench of nothing, for what is not used.
Resting == Module({}, {}, {}, <<>>, <<>>, <<>>)
MCDesigns == {Resting} \cup FlatModules \cup MachineModules \cup HierModules \cup {m[2] : m \in OddModules}
MCValues == {1, 2, 3}

-------------------------------------------------------------------------------
(* The system on chip                                                      *)

\* Registers: all read-write, all read-only, write-only next to read-write; and
\* maps, of which one reaches the last address and two are refused.
MCField(l, m, access) == [lsb |-> l, msb |-> m, access |-> access, reset |-> {}]
MCBanks ==
  [csr |-> {[offset |-> 4, fields |-> {MCField(0, 0, "rw"), MCField(1, 1, "rw")}],
            [offset |-> 5, fields |-> {MCField(0, 1, "ro")}]},
   io |-> {[offset |-> 8, fields |-> {MCField(0, 0, "wo"), MCField(1, 1, "rw")}]},
   ram |-> {}]
MCRegion(name, base, size) == [name |-> name, base |-> base, size |-> size]
MCConfigs ==
  {<<MCRegion("io", 8, 2), MCRegion("csr", 4, 4), MCRegion("ram", 0, 4)>>,
   <<MCRegion("csr", 4, 3), MCRegion("io", 8, 4)>>,
   <<MCRegion("ram", 0, 4), MCRegion("csr", 4, 3), MCRegion("io", 8, 8)>>,
   <<MCRegion("ram", 2, 10), MCRegion("csr", 4, 3), MCRegion("io", 8, 1)>>,
   <<MCRegion("csr", 4, 4), MCRegion("io", 8, 1), MCRegion("ram", 7, 1)>>}
MCSocWords == {{0}, {1}}
MCOwner == [off \in {4, 5, 8} |-> IF off = 4 THEN "app" ELSE "isr"]

-------------------------------------------------------------------------------
(* Two files of tests of one class, the second in a directory of its own;  *)
(* in one text it fails with the first seed, in the other with the second. *)

MCTest(way) == [way |-> way, cls |-> "C", params |-> "p"]
MCTests == [f1 |-> <<MCTest("flat")>>, f2 |-> <<MCTest("hier"), MCTest("cysim")>>]
MCPaths == {<<"f1", "f2">>, <<"f2">>}
MCFails == {<<<<"C", "p", 0>>, 1>>, <<<<"C", "p", 1>>, 0>>}

-------------------------------------------------------------------------------
(* Test benches of an accumulator with an enable, at a half period of two: *)
(* a start, then two parts.                                                *)

TbSet(n, e) == Stmt("set", n, <<e>>, <<>>)
TbWait(e) == Stmt("delay", "", <<e>>, <<>>)
TbLocal(n, e) == Stmt("local", n, <<e>>, <<>>)
TbFor(v, l, h, body) == Stmt("for", v, <<Const(l), Const(h)>>, <<body>>)
TbIf(c, A) == If(c, A, <<>>)
TbCall(m, args) == Stmt("call", m, args, <<>>)
TbBreak == Stmt("break", "", <<>>, <<>>)
TbAssert(e) == Stmt("assert", "", <<e>>, <<>>)
Cycles(n) == TbWait(Bin("*", Name("T"), Const(2 * n)))

MCDut == [ins |-> {"x", "en"}, regs |-> {"r"},
          comb |-> <<Assign("o", Bin("^", Sig("r"), Sig("x")))>>,
          seq |-> <<If(Sig("en"), <<Assign("r", Bin("+", Sig("r"), Sig("x")))>>, <<>>)>>,
          width |-> [x |-> 2, en |-> 1, r |-> 2, o |-> 2]]
MCMethods ==
  [wait |-> [params |-> <<"n">>, body |-> <<TbSet("x", Name("n")),
                                           TbFor("_", 0, 2, <<Cycles(1)>>)>>]]
Starts ==
  {<<TbSet("en", Const(1)), TbSet("x", Const(1)), Cycles(1)>>,
   <<Stmt("dict", "d", <<>>, <<<<TbSet("en", Const(0)), TbSet("x", Const(3))>>>>),
     Stmt("update", "d", <<>>, <<<<TbSet("en", Const(1))>>>>),
     Stmt("setall", "d", <<>>, <<>>), Cycles(1)>>}
Parts ==
  { <<TbFor("i", 0, 3, <<TbSet("x", Name("i")), Cycles(1)>>)>>,
    <<TbFor("_", 0, 4, <<Cycles(1), TbIf(Cmp("==", Sig("r"), Const(2)), <<TbBreak>>)>>),
      TbSet("en", Const(0)), Cycles(1)>>,
    <<TbFor("i", 1, 3, <<TbIf(Cmp("==", Sig("o"), Name("i")), <<TbBreak>>),
                         TbFor("_", 0, 3, <<Cycles(1), TbIf(Cmp("<", Sig("r"), Name("i")),
                                                           <<TbSet("en", Const(1)), TbBreak>>)>>)>>)>>,
    <<TbCall("wait", <<Const(2)>>)>>,
    <<TbLocal("t", Bin("+", Sig("o"), Const(2))), Cycles(1), TbSet("x", Name("t")), Cycles(1)>>,
    <<If(Bool("||", Cmp("==", Sig("o"), Const(0)), Bool("&&", Sig("en"), Cmp("<", Sig("r"), Const(2)))),
         <<TbSet("x", Sig("o")), Cycles(2)>>, <<TbSet("x", Bin("^", Sig("x"), Const(3))), Cycles(1)>>)>>,
    <<TbAssert(Cmp("!=", Sig("r"), Const(3))), TbSet("x", Mux(Sig("en"), Const(1), Sig("r"))), Cycles(1)>> }
Always(e) == <<TbSet("clk", Const(0)), TbWait(e), TbSet("clk", Const(1)), TbWait(e)>>
MCBench(body, always) ==
  [body |-> body, methods |-> MCMethods, outer |-> [n \in {"T"} |-> 2], half |-> 2,
   always |-> always, dut |-> MCDut]
OddParts == {p[2] : p \in {q \in {
  <<"not", <<TbIf(Un("!", Bool("&&", Sig("en"), Cmp("==", Sig("r"), Const(2)))), <<TbSet("x", Const(2))>>), Cycles(1)>>>>,
  <<"outer", <<TbFor("i", 0, 3, <<TbFor("_", 0, 2, <<Cycles(1), TbIf(Sig("o"), <<TbBreak>>)>>),
                                  TbIf(Cmp("==", Sig("r"), Const(2)), <<TbBreak>>)>>), Cycles(1)>>>>,
  <<"after", <<TbFor("i", 0, 2, <<Cycles(1)>>), TbSet("x", Name("i")), Cycles(1)>>>>,
  <<"shadow", <<TbLocal("T", Const(1)), TbSet("x", Name("T")), TbWait(Const(4))>>>>,
  <<"half", <<TbWait(Const(2)), TbSet("x", Const(3)), TbWait(Const(2)), TbWait(Const(4))>>>>,
  <<"branch", <<Stmt("dict", "d", <<>>, <<<<TbSet("x", Const(2))>>>>),
                TbIf(Cmp("==", Sig("r"), Const(3)), <<Stmt("update", "d", <<>>, <<<<TbSet("x", Const(0))>>>>)>>),
                Stmt("setall", "d", <<>>, <<>>), Cycles(2)>>>>,
  <<"minus", <<TbIf(Cmp("<", Bin("-", Sig("r"), Const(3)), Const(1)), <<TbSet("x", Const(2))>>), Cycles(1)>>>>
  } : q[1] \in Odd}}

RestingBench == [body |-> <<>>, methods |-> <<>>, outer |-> Empty, half |-> 2, always |-> <<>>,
                 dut |-> [ins |-> {}, regs |-> {}, comb |-> <<>>, seq |-> <<>>, width |-> Empty]]
MCBenches ==
  {RestingBench} \cup
  {MCBench(s \o p \o q, Always(a)) :
     s \in Starts, p \in Parts \cup OddParts, q \in Parts,
     a \in {Const(2), Bin("*", Const(1), Const(2))}}

-------------------------------------------------------------------------------
(* `tool' says what is used, the rest stays in one of its initial states.  *)

MCInit ==
  /\ tool \in Tools
  /\ Init /\ (tool # "compiler" => design = Resting)
  /\ SocInit /\ (tool # "soc" => Len(config) = 2)
  /\ TestInit
  /\ bench \in IF tool = "bench" THEN Benches ELSE {RestingBench}
  /\ BenchInit

Compiles == tool = "compiler" /\ Next /\ UNCHANGED <<tool, socVars, testVars, benchVars>>
Chip == tool = "soc" /\ SocNext /\ UNCHANGED <<tool, vars, testVars, benchVars>>
TestsRun == tool = "tests" /\ TestNext /\ UNCHANGED <<tool, vars, socVars, benchVars>>
BenchMaking == tool = "bench" /\ BenchNext /\ UNCHANGED <<tool, vars, socVars, testVars>>

MCSpec ==
  MCInit /\ [][Compiles \/ Chip \/ TestsRun \/ BenchMaking]_<<tool, vars, socVars, testVars, benchVars>>
===============================================================================
