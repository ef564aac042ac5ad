---------------------------------- MODULE Ir ----------------------------------
(***************************************************************************)
(* The intermediate representation of veripy (ir.py): expressions and      *)
(* statements, what they read and write (flatten.py), how names in them    *)
(* are replaced, and what the C text emitted for them computes             *)
(* (backend_csim.py, _expr and _emit_stmt).                                *)
(*                                                                         *)
(* An expression is a node [op, name, num, kids].  A statement is a record *)
(* [do, target, es, arms]: es are its expressions and arms the statement   *)
(* lists it may run.  The same records hold the Python source that is      *)
(* lowered, which has more kinds: a Python name, a parameter, a local      *)
(* variable, an augmented assignment, a loop, break and return.            *)
(***************************************************************************)
EXTENDS Integers, Sequences, FiniteSets, SequencesExt, Bitwise

CONSTANT Word     \* number of values of a C word; 2^64 in the emitted code

\* & and | of the values that occur, tabulated once.
AndTable == [p \in (0 .. Word - 1) \X (0 .. Word - 1) |-> p[1] & p[2]]
BitAnd(x, y) == AndTable[<<x, y>>]
BitXor(x, y) == x + y - 2 * BitAnd(x, y)
BitOr(x, y) == x + y - BitAnd(x, y)

Node(op, name, num, kids) ==
  [op |-> op, name |-> name, num |-> num, kids |-> kids]
Const(v) == Node("const", "", v, <<>>)
Sig(n) == Node("sig", n, 0, <<>>)
Name(n) == Node("name", n, 0, <<>>)          \* a Python variable
Param(n) == Node("param", n, 0, <<>>)
Bin(op, l, r) == Node("bin", op, 0, <<l, r>>)
Cmp(op, l, r) == Node("cmp", op, 0, <<l, r>>)
Bool(op, l, r) == Node("bool", op, 0, <<l, r>>)
Un(op, x) == Node("un", op, 0, <<x>>)
Mux(c, t, f) == Node("mux", "", 0, <<c, t, f>>)
Slice(x, hi, lo) == Node("slice", "", 0, <<x, Const(hi), Const(lo)>>)
Concat(h, l) == Node("concat", "", 0, <<h, l>>)

Stmt(do, target, es, arms) ==
  [do |-> do, target |-> target, es |-> es, arms |-> arms]
Assign(t, e) == Stmt("assign", t, <<e>>, <<>>)
SliceAssign(t, hi, lo, e) == Stmt("slice", t, <<e, Const(hi), Const(lo)>>, <<>>)
If(c, A, B) == Stmt("if", "", <<c>>, <<A, B>>)
Case(sel, values, bodies, default) ==
  Stmt("case", "", <<sel>> \o values, Append(bodies, default))
\* What _subst_stmt leaves in the place of an `if` it decided: a Python list.
Listed(A) == Stmt("list", "", <<>>, <<A>>)

Empty == [n \in {} |-> 0]
\* g over f where both are defined.
Over(g, f) == g @@ f

RECURSIVE ExprReads(_)
ExprReads(e) == IF e.op = "sig" THEN {e.name}
                ELSE UNION {ExprReads(k) : k \in Range(e.kids)}

\* _stmt_writes_reads knows the statements of the IR; a list is none of them.
RECURSIVE StmtReads(_)
StmtReads(s) ==
  IF s.do = "list" THEN {}
  ELSE UNION {ExprReads(e) : e \in Range(s.es)}
       \cup UNION {StmtReads(t) : t \in UNION {Range(A) : A \in Range(s.arms)}}

RECURSIVE StmtWrites(_)
StmtWrites(s) ==
  CASE s.do \in {"assign", "slice"} -> {s.target}
    [] s.do = "list" -> {}
    [] OTHER -> UNION {StmtWrites(t) : t \in UNION {Range(A) : A \in Range(s.arms)}}

ReadsOf(stmts) == UNION {StmtReads(s) : s \in Range(stmts)}
WritesOf(stmts) == UNION {StmtWrites(s) : s \in Range(stmts)}

\* A substitution gives expressions for leaves of some kinds: sub[op][name].
RECURSIVE Replace(_, _)
Replace(e, sub) ==
  IF e.op \in DOMAIN sub /\ e.name \in DOMAIN sub[e.op] THEN sub[e.op][e.name]
  ELSE [e EXCEPT !.kids = [i \in DOMAIN @ |-> Replace(@[i], sub)]]

\* ... and new names for the targets of assignments.
RECURSIVE ReplaceIn(_, _, _)
ReplaceIn(stmts, sub, targets) ==
  [i \in DOMAIN stmts |->
     [stmts[i] EXCEPT
        !.target = IF @ \in DOMAIN targets THEN targets[@] ELSE @,
        !.es = [j \in DOMAIN @ |-> Replace(@[j], sub)],
        !.arms = [j \in DOMAIN @ |-> ReplaceIn(@[j], sub, targets)]]]

\* The substitution of _rename_expr: signals get new names, parameters values.
Renaming(rename, params) ==
  [op \in {"sig", "param"} |->
     IF op = "sig" THEN [n \in DOMAIN rename |-> Sig(rename[n])]
     ELSE [k \in DOMAIN params |-> Const(params[k])]]

-------------------------------------------------------------------------------
(* What the C text computes.  W is the table of declared widths.           *)

DeclWidth(n, W, default) == IF n \in DOMAIN W THEN W[n] ELSE default

BitLength(v) == CHOOSE k \in 1 .. v + 1 : v < 2 ^ k /\ \A j \in 1 .. k - 1 : v >= 2 ^ j

\* _expr_width: 32 stands for a width it cannot tell.
RECURSIVE ExprWidth(_, _)
ExprWidth(e, W) ==
  CASE e.op = "const" -> BitLength(e.num)
    [] e.op = "sig" -> DeclWidth(e.name, W, 32)
    [] e.op = "slice" -> e.kids[2].num - e.kids[3].num + 1
    [] e.op = "concat" -> ExprWidth(e.kids[1], W) + ExprWidth(e.kids[2], W)
    [] e.op = "bin" -> Max({ExprWidth(e.kids[1], W), ExprWidth(e.kids[2], W)})
    [] e.op = "mux" -> Max({ExprWidth(e.kids[2], W), ExprWidth(e.kids[3], W)})
    [] e.op \in {"cmp", "bool"} -> 1
    [] e.op = "un" -> ExprWidth(e.kids[1], W)
    [] OTHER -> 32

\* A value that _mask(w) cuts; a width of the word or more leaves it alone.
Masked(v, w) == IF w = 0 \/ 2 ^ Min({w, 8}) >= Word THEN v ELSE v % 2 ^ w
Truth(b) == IF b THEN 1 ELSE 0

Compare(op, l, r) == Truth(CASE op = "==" -> l = r
                             [] op = "!=" -> l # r
                             [] op = "<" -> l < r)

Arith(op, l, r) == CASE op = "+" -> l + r
                     [] op = "-" -> l - r
                     [] op = "&" -> BitAnd(l, r)
                     [] op = "|" -> BitOr(l, r)
                     [] op = "^" -> BitXor(l, r)

\* _expr: arithmetic in the machine word, masks only at ~ of one bit and
\* around the operands of a comparison.  k and w: the values of the parts of e
\* and the widths that are assumed of them.
COp(e, env, k, w) ==
  CASE e.op = "const" -> e.num % Word
    [] e.op = "sig" -> env[e.name]
    [] e.op = "bin" -> Arith(e.name, k[1], k[2]) % Word
    [] e.op = "un" -> IF e.name = "!" THEN Truth(k[1] = 0)
                      ELSE IF e.kids[1].op = "sig" /\ w[1] = 1 THEN 1 - (k[1] % 2)
                      ELSE Word - 1 - k[1]
    [] e.op = "cmp" -> Compare(e.name, Masked(k[1], w[1]), Masked(k[2], w[2]))
    [] e.op = "bool" -> Truth(IF e.name = "&&" THEN k[1] # 0 /\ k[2] # 0
                                               ELSE k[1] # 0 \/ k[2] # 0)
    [] e.op = "mux" -> IF k[1] # 0 THEN k[2] ELSE k[3]
    [] e.op = "slice" -> (k[1] \div 2 ^ k[3]) % 2 ^ (k[2] - k[3] + 1)
    [] e.op = "concat" -> BitOr((k[1] * 2 ^ w[2]) % Word, k[2])
RECURSIVE CVal(_, _, _)
CVal(e, env, W) == COp(e, env, [i \in DOMAIN e.kids |-> CVal(e.kids[i], env, W)],
                               [i \in DOMAIN e.kids |-> ExprWidth(e.kids[i], W)])

\* The value a slice assignment leaves: the bits hi..lo of old from v.
PutSlice(old, hi, lo, v) ==
  LET w == hi - lo + 1
  IN old - ((old \div 2 ^ lo) % 2 ^ w) * 2 ^ lo + (v % 2 ^ w) * 2 ^ lo

\* _emit_stmt.  mem is [env, next]; a write to a signal of nba goes to its
\* `_nba_` copy.  A list inside a body is no statement: nothing is emitted.
\* v: the values of its expressions.
RECURSIVE CStmts(_, _, _, _)
CStep(s, v, mem, W, nba) ==
  LET put(x) == IF s.target \in nba
                THEN [mem EXCEPT !.next = Over([n \in {s.target} |-> x], @)]
                ELSE [mem EXCEPT !.env = Over([n \in {s.target} |-> x], @)]
      old == IF s.target \in DOMAIN mem.next THEN mem.next[s.target]
             ELSE mem.env[s.target]
  IN CASE s.do = "assign" -> put(Masked(v[1], DeclWidth(s.target, W, 0)))
       [] s.do = "slice" -> put(PutSlice(old, v[2], v[3], v[1]))
       [] s.do = "if" -> CStmts(IF v[1] # 0 THEN s.arms[1] ELSE s.arms[2], mem, W, nba)
       [] s.do = "case" ->
            LET hits == {i \in 1 .. Len(s.es) - 1 : v[i + 1] = v[1]}
                arm == IF hits = {} THEN Len(s.arms) ELSE Min(hits)
            IN CStmts(s.arms[arm], mem, W, nba)
       [] OTHER -> mem
CStmt(s, mem, W, nba) ==
  CStep(s, [i \in DOMAIN s.es |-> CVal(s.es[i], mem.env, W)], mem, W, nba)

CStmts(stmts, mem, W, nba) ==
  FoldLeft(LAMBDA m, s : CStmt(s, m, W, nba), mem, stmts)
===============================================================================
