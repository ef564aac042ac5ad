------------------------------ MODULE CombProofs ------------------------------
(***************************************************************************)
(* The passes over combinational logic, for every module.  The order of    *)
(* topo_sort_comb is right, and it refuses loops.  One evaluation of the C *)
(* model in that order is what the Python simulation settles to; inlining, *)
(* constant propagation and dead code elimination keep it; the rounds of   *)
(* _settle_comb come to it.                                                *)
(***************************************************************************)
EXTENDS CombPasses, FiniteSetTheorems, SequenceTheorems, WellFoundedInduction, TLAPS

CONSTANTS
  Bits,        \* the bits of the names of a design
  NameOf(_),   \* the name that a bit belongs to
  Vals         \* what a bit holds

(***************************************************************************)
(* The order of the blocks: Kahn's algorithm over the edges between nodes. *)
(***************************************************************************)
\* A nonempty set of numbers has a smallest.
LEMMA SmallestOf ==
    ASSUME NEW S, S \subseteq Nat, NEW e \in S
    PROVE  \E m \in S : \A n \in S : m <= n
<1> DEFINE R == {ss \in Nat \X Nat : ss[1] < ss[2]}
<1>1. IsWellFoundedOn(R, Nat) BY NatLessThanWellFounded DEF OpToRel
<1>2. \E m \in S : \A n \in S : ~ (<<n, m>> \in R)
  <2>. HIDE DEF R
  <2>. QED BY <1>1, WFMin
<1>3. PICK m \in S : \A n \in S : ~ (<<n, m>> \in R) BY <1>2
<1>4. ASSUME NEW n \in S PROVE m <= n
  <2>1. <<n, m>> \in R <=> n < m OBVIOUS
  <2>. QED BY <2>1, <1>3
<1>. QED BY <1>4

\* Induction up to a bound, for a set.
LEMMA UpTo ==
  ASSUME NEW n \in Nat, NEW T, 0 \in T, \A k \in 1 .. n : k - 1 \in T => k \in T
  PROVE  \A k \in 0 .. n : k \in T
<1> SUFFICES ASSUME NEW k \in 0 .. n, k \notin T PROVE FALSE OBVIOUS
<1> DEFINE S == {i \in 0 .. n : i \notin T}
<1>1. S \subseteq Nat /\ k \in S OBVIOUS
<1> HIDE DEF S
<1>2. PICK m \in S : \A i \in S : m <= i BY <1>1, SmallestOf
<1>3. m \in 1 .. n /\ m \notin T BY <1>2 DEF S
<1>4. m - 1 \in 0 .. n /\ m - 1 < m BY <1>3
<1>5. m - 1 \in T BY <1>2, <1>3, <1>4 DEF S
<1> QED BY <1>3, <1>5

FoldsTo(f, n, s, g) == f[0] = s /\ \A k \in 1 .. n : f[k] = g[<<f[k - 1], k>>]

\* A fold over n steps written as a function of the step.
LEMMA FoldExists ==
  ASSUME NEW n \in Nat, NEW S, NEW s \in S, NEW g \in [S \X (1 .. n) -> S]
  PROVE  \E f \in [0 .. n -> S] : FoldsTo(f, n, s, g)
<1> DEFINE Good(f, m) == f[0] = s /\ \A k \in 1 .. m : f[k] = g[<<f[k - 1], k>>]
           T == {m \in 0 .. n : \E f \in [0 .. m -> S] : Good(f, m)}
<1>1. 0 \in T
  <2> DEFINE h == [k \in 0 .. 0 |-> s]
  <2>1. h \in [0 .. 0 -> S] /\ Good(h, 0) OBVIOUS
  <2> HIDE DEF h
  <2> QED BY <2>1
<1>2. ASSUME NEW m \in 1 .. n, m - 1 \in T PROVE m \in T
  <2>1. PICK f \in [0 .. m - 1 -> S] : Good(f, m - 1) BY <1>2
  <2> DEFINE h == [k \in 0 .. m |-> IF k = m THEN g[<<f[m - 1], m>>] ELSE f[k]]
  <2>2. f[m - 1] \in S BY <2>1
  <2>3. g[<<f[m - 1], m>>] \in S BY <2>2
  <2>4. h \in [0 .. m -> S] BY <2>1, <2>3
  <2>5. \A k \in 0 .. m - 1 : h[k] = f[k] OBVIOUS
  <2>6. h[m] = g[<<f[m - 1], m>>] OBVIOUS
  <2> HIDE DEF h
  <2>7. ASSUME NEW k \in 1 .. m PROVE h[k] = g[<<h[k - 1], k>>]
    <3>1. k - 1 \in 0 .. m - 1 OBVIOUS
    <3>2. CASE k = m BY <2>5, <2>6, <3>1, <3>2
    <3>3. CASE k # m
      <4>1. k \in 1 .. m - 1 BY <3>3
      <4>2. h[k] = f[k] /\ h[k - 1] = f[k - 1] BY <2>5, <3>1, <4>1
      <4> QED BY <2>1, <4>1, <4>2
    <3> QED BY <3>2, <3>3
  <2>8. h[0] = s BY <2>1, <2>5
  <2>9. Good(h, m) BY <2>7, <2>8
  <2> QED BY <2>4, <2>9
<1> HIDE DEF T
<1>3. n \in T BY <1>1, <1>2, UpTo
<1> QED BY <1>3 DEF T, FoldsTo


(* The edges of n nodes.                                                   *)
Edges(n) == [1 .. n -> [1 .. n -> Nat]]

\* A row of sequences joined is a sequence.
LEMMA FlattenIs ==
  ASSUME NEW n \in Nat, n # 0, NEW seqs \in [1 .. n -> Seq(Nat)]
  PROVE  FlattenSeq(seqs) \in Seq(Nat)
<1> DEFINE S == Seq(Nat)
           g == [x \in S \X (1 .. n) |-> x[1] \o seqs[x[2]]]
           body(f) == [i \in 1 .. n |-> IF i = 1 THEN seqs[i] ELSE f[i - 1] \o seqs[i]]
           h == CHOOSE f : f = body(f)
<1>1. Len(seqs) = n /\ DOMAIN seqs = 1 .. n
  <2>1. \E m \in Nat : seqs \in [1 .. m -> Seq(Nat)] OBVIOUS
  <2>2. seqs \in Seq(Seq(Nat)) BY <2>1, SeqDef
  <2> QED BY <2>2
<1>2. FlattenSeq(seqs) = h[n] BY <1>1 DEF FlattenSeq
<1>3. \A a \in S, i \in 1 .. n : a \o seqs[i] \in S /\ seqs[i] \in S /\ <<>> \o seqs[i] = seqs[i]
  OBVIOUS
<1>4. <<>> \in S OBVIOUS
<1> HIDE DEF S
<1>5. g \in [S \X (1 .. n) -> S] BY <1>3
<1>6. \A a \in S, i \in 1 .. n : g[<<a, i>>] = a \o seqs[i] OBVIOUS
<1> HIDE DEF g
<1>7. PICK f \in [0 .. n -> S] : FoldsTo(f, n, <<>>, g) BY <1>4, <1>5, FoldExists
<1>8. f[0] = <<>> /\ \A k \in 1 .. n : f[k - 1] \in S /\ f[k] = f[k - 1] \o seqs[k]
  <2>1. \A k \in 1 .. n : k - 1 \in 0 .. n OBVIOUS
  <2>2. f[0] = <<>> /\ \A k \in 1 .. n : f[k - 1] \in S /\ f[k] = g[<<f[k - 1], k>>]
    BY <1>7, <2>1 DEF FoldsTo
  <2> QED BY <1>6, <2>2
<1> DEFINE r == [i \in 1 .. n |-> f[i]]
<1>9. r = body(r)
  <2>1. ASSUME NEW i \in 1 .. n PROVE r[i] = IF i = 1 THEN seqs[i] ELSE r[i - 1] \o seqs[i]
    <3>1. CASE i = 1
      <4>1. f[1] = f[0] \o seqs[1] /\ 1 \in 1 .. n
        <5>1. 1 \in 1 .. n /\ 1 - 1 = 0 OBVIOUS
        <5> QED BY <1>8, <5>1
      <4>2. f[1] = seqs[1] BY <1>3, <1>8, <4>1
      <4> QED BY <3>1, <4>1, <4>2
    <3>2. CASE i # 1
      <4>1. i - 1 \in 1 .. n BY <3>2
      <4> QED BY <1>8, <3>2, <4>1
    <3> QED BY <3>1, <3>2
  <2> HIDE DEF r
  <2>2. DOMAIN r = 1 .. n /\ r = [i \in DOMAIN r |-> r[i]] BY DEF r
  <2> QED BY <2>1, <2>2
<1> HIDE DEF r
<1>10. h = body(h) BY <1>9
<1> HIDE DEF h
<1>11. \A i \in 1 .. n : h[i] = IF i = 1 THEN seqs[i] ELSE h[i - 1] \o seqs[i] BY <1>10
<1> DEFINE T == {i \in 0 .. n : i = 0 \/ h[i] \in S}
<1>12. \A i \in 1 .. n : i - 1 \in T => i \in T
  <2> TAKE i \in 1 .. n
  <2> HAVE i - 1 \in T
  <2>1. CASE i = 1 BY <1>3, <1>11, <2>1
  <2>2. CASE i # 1 BY <1>3, <1>11, <2>2
  <2> QED BY <2>1, <2>2
<1>13. 0 \in T OBVIOUS
<1> HIDE DEF T
<1>14. n \in T
  <2>1. \A k \in 0 .. n : k \in T BY <1>12, <1>13, UpTo
  <2> QED BY <2>1
<1> QED BY <1>2, <1>14 DEF T, S

\* Keys are sequences of numbers.
LEMMA KeyIs ==
  ASSUME NEW n \in Nat, NEW edges \in Edges(n), NEW i \in 1 .. n
  PROVE  LevelKey(edges, i) \in Seq(Nat)
<1>1. Len(edges) = n
  <2>1. \E m \in Nat : edges \in [1 .. m -> [1 .. n -> Nat]] BY DEF Edges
  <2>2. edges \in Seq([1 .. n -> Nat]) BY <2>1, SeqDef
  <2> QED BY <2>2 DEF Edges
<1>2. edges[i] \in [1 .. n -> Nat] BY DEF Edges
<1> DEFINE row(j) == [k \in 1 .. edges[i][j] |-> j]
           rows == [j \in 1 .. n |-> row(j)]
<1>3. ASSUME NEW j \in 1 .. n PROVE row(j) \in Seq(Nat)
  <2>1. edges[i][j] \in Nat /\ row(j) \in [1 .. edges[i][j] -> Nat] BY <1>2
  <2>2. \E m \in Nat : row(j) \in [1 .. m -> Nat] BY <2>1
  <2> HIDE DEF row
  <2> QED BY <2>2, SeqDef
<1>4. LevelKey(edges, i) = <<n + 1>> \/ LevelKey(edges, i) = FlattenSeq(rows)
  BY <1>1 DEF LevelKey
<1> HIDE DEF row
<1>5. rows \in [1 .. n -> Seq(Nat)] BY <1>3
<1> HIDE DEF rows
<1>6. FlattenSeq(rows) \in Seq(Nat) BY <1>5, FlattenIs
<1>7. <<n + 1>> \in Seq(Nat) OBVIOUS
<1> QED BY <1>4, <1>6, <1>7

\* Keys are compared as Python compares tuples: a strict order of all of them.
LEMMA KeysOrder ==
  ASSUME NEW s \in Seq(Nat), NEW t \in Seq(Nat), NEW u \in Seq(Nat)
  PROVE  /\ ~KeyLess(s, s)
         /\ KeyLess(s, t) /\ KeyLess(t, u) => KeyLess(s, u)
         /\ s # t => KeyLess(s, t) \/ KeyLess(t, s)
<1>0. /\ Len(s) \in Nat /\ Len(t) \in Nat /\ Len(u) \in Nat
      /\ \A k \in 1 .. Len(s) : s[k] \in Nat
      /\ \A k \in 1 .. Len(t) : t[k] \in Nat
      /\ \A k \in 1 .. Len(u) : u[k] \in Nat
  OBVIOUS
<1>1. ~KeyLess(s, s) BY <1>0 DEF KeyLess
<1>2. ASSUME KeyLess(s, t), KeyLess(t, u) PROVE KeyLess(s, u)
  <2>1. PICK i \in 1 .. Len(t) :
          /\ \A k \in 1 .. i - 1 : k <= Len(s) /\ s[k] = t[k]
          /\ i > Len(s) \/ s[i] < t[i]
    BY <1>2 DEF KeyLess
  <2>2. PICK j \in 1 .. Len(u) :
          /\ \A k \in 1 .. j - 1 : k <= Len(t) /\ t[k] = u[k]
          /\ j > Len(t) \/ t[j] < u[j]
    BY <1>2 DEF KeyLess
  <2> DEFINE m == IF i < j THEN i ELSE j
  <2>3. m \in 1 .. Len(u) /\ m <= i /\ m <= j BY <1>0
  <2>4. (i < j => m = i) /\ (j < i => m = j) /\ (i = j => m = i) BY <1>0
  <2> HIDE DEF m
  <2>5. \A k \in 1 .. m - 1 : k <= Len(s) /\ s[k] = u[k]
    <3> TAKE k \in 1 .. m - 1
    <3>1. k \in 1 .. i - 1 /\ k \in 1 .. j - 1 BY <1>0, <2>3
    <3> QED BY <2>1, <2>2, <3>1
  <2>6. m > Len(s) \/ s[m] < u[m]
    <3>1. CASE i < j
      <4>1. i \in 1 .. j - 1 BY <1>0, <3>1
      <4>2. t[i] = u[i] BY <2>2, <4>1
      <4>3. m = i BY <2>4, <3>1
      <4> QED BY <2>1, <4>2, <4>3
    <3>2. CASE j < i
      <4>1. j \in 1 .. i - 1 /\ j <= Len(t) BY <1>0, <3>2
      <4>2. j <= Len(s) /\ s[j] = t[j] BY <2>1, <4>1
      <4>3. t[j] < u[j] BY <1>0, <2>2, <4>1
      <4>4. m = j BY <2>4, <3>2
      <4> QED BY <4>2, <4>3, <4>4
    <3>3. CASE i = j
      <4>1. t[i] < u[i] BY <1>0, <2>2, <3>3
      <4>2. m = i BY <2>4, <3>3
      <4>3. CASE i > Len(s) BY <4>3, <4>2
      <4>4. CASE i <= Len(s) /\ s[i] < t[i]
        <5>1. s[i] \in Nat /\ t[i] \in Nat /\ u[i] \in Nat BY <1>0, <3>3, <4>4
        <5>2. s[i] < u[i] BY <4>1, <4>4, <5>1
        <5> QED BY <4>2, <5>2
      <4> QED BY <1>0, <2>1, <4>3, <4>4
    <3> QED BY <1>0, <3>1, <3>2, <3>3
  <2> QED BY <2>3, <2>5, <2>6 DEF KeyLess
<1>3. ASSUME s # t PROVE KeyLess(s, t) \/ KeyLess(t, s)
  <2> DEFINE D == {k \in Nat : k \in 1 .. Len(s) /\ k \in 1 .. Len(t) /\ s[k] # t[k]}
  <2>1. CASE D # {}
    <3>1. D \subseteq Nat OBVIOUS
    <3>2. PICK e : e \in D BY <2>1
    <3> HIDE DEF D
    <3>3. PICK m \in D : \A k \in D : m <= k BY <3>1, <3>2, SmallestOf
    <3> USE DEF D
    <3>4. m \in 1 .. Len(s) /\ m \in 1 .. Len(t) /\ s[m] # t[m] BY <3>3
    <3>5. \A k \in 1 .. m - 1 : k <= Len(s) /\ k <= Len(t) /\ s[k] = t[k]
      <4> TAKE k \in 1 .. m - 1
      <4>1. k \in 1 .. Len(s) /\ k \in 1 .. Len(t) /\ k \in Nat /\ ~(m <= k) BY <1>0, <3>4
      <4> QED BY <3>3, <4>1
    <3>6. s[m] < t[m] \/ t[m] < s[m] BY <1>0, <3>4
    <3> QED BY <3>4, <3>5, <3>6 DEF KeyLess
  <2>2. CASE D = {}
    <3>1. \A k \in 1 .. Len(s) : k \in 1 .. Len(t) => s[k] = t[k] 
      <4> SUFFICES ASSUME NEW k \in 1 .. Len(s), k \in 1 .. Len(t), s[k] # t[k] PROVE FALSE OBVIOUS
      <4>1. k \in D BY <1>0
      <4> QED BY <2>2, <4>1
    <3>2. Len(s) # Len(t)
      <4> SUFFICES ASSUME Len(s) = Len(t) PROVE FALSE OBVIOUS
      <4>1. \A k \in 1 .. Len(s) : s[k] = t[k] BY <3>1
      <4> QED BY <1>3, <4>1, SeqEqual
    <3>3. CASE Len(s) < Len(t)
      <4>1. Len(s) + 1 \in 1 .. Len(t) BY <1>0, <3>3
      <4>2. \A k \in 1 .. (Len(s) + 1) - 1 : k <= Len(s) /\ s[k] = t[k] BY <1>0, <3>1, <3>3
      <4>3. Len(s) + 1 > Len(s) BY <1>0
      <4> QED BY <4>1, <4>2, <4>3 DEF KeyLess
    <3>4. CASE Len(t) < Len(s)
      <4>1. Len(t) + 1 \in 1 .. Len(s) BY <1>0, <3>4
      <4>2. \A k \in 1 .. (Len(t) + 1) - 1 : k <= Len(t) /\ t[k] = s[k] BY <1>0, <3>1, <3>4
      <4>3. Len(t) + 1 > Len(t) BY <1>0
      <4> QED BY <4>1, <4>2, <4>3 DEF KeyLess
    <3> QED BY <1>0, <3>2, <3>3, <3>4
  <2> QED BY <2>1, <2>2
<1> QED BY <1>1, <1>2, <1>3

\* Nodes of a level are in a strict order.
LEMMA LevelOrders ==
  ASSUME NEW n \in Nat, NEW edges \in Edges(n),
         NEW i \in 1 .. n, NEW j \in 1 .. n, NEW k \in 1 .. n
  PROVE  /\ ~LevelBefore(edges, i, i)
         /\ i # j => LevelBefore(edges, i, j) \/ LevelBefore(edges, j, i)
         /\ LevelBefore(edges, i, j) /\ LevelBefore(edges, j, k) => LevelBefore(edges, i, k)
<1> DEFINE s == LevelKey(edges, i)
           t == LevelKey(edges, j)
           u == LevelKey(edges, k)
<1>1. s \in Seq(Nat) /\ t \in Seq(Nat) /\ u \in Seq(Nat) BY KeyIs
<1>2. /\ LevelBefore(edges, i, i) <=> (KeyLess(s, s) \/ (i < i))
      /\ LevelBefore(edges, i, j) <=> (KeyLess(s, t) \/ (s = t /\ i < j))
      /\ LevelBefore(edges, j, i) <=> (KeyLess(t, s) \/ (t = s /\ j < i))
      /\ LevelBefore(edges, j, k) <=> (KeyLess(t, u) \/ (t = u /\ j < k))
      /\ LevelBefore(edges, i, k) <=> (KeyLess(s, u) \/ (s = u /\ i < k))
  BY DEF LevelBefore
<1> HIDE DEF s, t, u
<1>3. /\ ~KeyLess(s, s)
      /\ KeyLess(s, t) /\ KeyLess(t, u) => KeyLess(s, u)
      /\ s # t => KeyLess(s, t) \/ KeyLess(t, s)
  BY <1>1, KeysOrder
<1>4. i \in Nat /\ j \in Nat /\ k \in Nat OBVIOUS
<1>5. ~LevelBefore(edges, i, i) BY <1>2, <1>3, <1>4
<1>6. i # j => LevelBefore(edges, i, j) \/ LevelBefore(edges, j, i)
  <2>1. CASE s = t BY <1>2, <1>4, <2>1
  <2>2. CASE s # t BY <1>2, <1>3, <2>2
  <2> QED BY <2>1, <2>2
<1>7. ASSUME LevelBefore(edges, i, j), LevelBefore(edges, j, k) PROVE LevelBefore(edges, i, k)
  <2>1. KeyLess(s, t) \/ (s = t /\ i < j) BY <1>2, <1>7
  <2>2. KeyLess(t, u) \/ (t = u /\ j < k) BY <1>2, <1>7
  <2>3. KeyLess(s, u) \/ (s = u /\ i < k) BY <1>3, <1>4, <2>1, <2>2
  <2> QED BY <1>2, <2>3
<1> QED BY <1>5, <1>6, <1>7

\* A level is an enumeration of what is ready.
LEMMA LevelIs ==
  ASSUME NEW n \in Nat, NEW edges \in Edges(n), NEW ready \in SUBSET (1 .. n),
         NEW l, l = Level(edges, ready)
  PROVE  \E m \in Nat : /\ l \in [1 .. m -> ready]
                        /\ \A j \in ready : \E k \in 1 .. m : l[k] = j
                        /\ \A k, h \in 1 .. m : l[k] = l[h] => k = h
                        /\ ready # {} => m # 0
<1> DEFINE m == Cardinality(ready)
           Ahead(j) == {i \in ready : LevelBefore(edges, i, j)}
           place == [j \in ready |-> Cardinality(Ahead(j)) + 1]
<1>1. IsFiniteSet(ready) /\ m \in Nat /\ (ready # {} => m # 0)
  <2>1. IsFiniteSet(1 .. n) BY FS_Interval
  <2>2. IsFiniteSet(ready) BY <2>1, FS_Subset
  <2> QED BY <2>2, FS_CardinalityType, FS_EmptySet
<1>2. \A i, j, k \in ready :
        /\ ~LevelBefore(edges, i, i)
        /\ i # j => LevelBefore(edges, i, j) \/ LevelBefore(edges, j, i)
        /\ LevelBefore(edges, i, j) /\ LevelBefore(edges, j, k) => LevelBefore(edges, i, k)
  BY LevelOrders
<1>3. ASSUME NEW j \in ready
      PROVE  /\ IsFiniteSet(Ahead(j)) /\ Cardinality(Ahead(j)) \in 0 .. m - 1
             /\ place[j] = Cardinality(Ahead(j)) + 1
  <2>1. Ahead(j) \subseteq ready /\ j \notin Ahead(j) BY <1>2
  <2> HIDE DEF Ahead
  <2>2. /\ IsFiniteSet(Ahead(j)) /\ Cardinality(Ahead(j)) <= m
        /\ Cardinality(Ahead(j)) = m => Ahead(j) = ready
    BY <1>1, <2>1, FS_Subset
  <2>3. Cardinality(Ahead(j)) \in Nat BY <2>2, FS_CardinalityType
  <2>4. Cardinality(Ahead(j)) # m BY <2>1, <2>2
  <2> QED BY <1>1, <2>2, <2>3, <2>4
<1>4. ASSUME NEW i \in ready, NEW j \in ready, LevelBefore(edges, i, j)
      PROVE  place[i] < place[j]
  <2>1. Ahead(i) \subseteq Ahead(j) /\ i \in Ahead(j) /\ i \notin Ahead(i) BY <1>2, <1>4
  <2> HIDE DEF Ahead, place
  <2>2. /\ Cardinality(Ahead(i)) <= Cardinality(Ahead(j))
        /\ Cardinality(Ahead(i)) = Cardinality(Ahead(j)) => Ahead(i) = Ahead(j)
    BY <1>3, <2>1, FS_Subset
  <2>3. Cardinality(Ahead(i)) # Cardinality(Ahead(j)) BY <2>1, <2>2
  <2> QED BY <1>1, <1>3, <2>2, <2>3
<1>5. l = [k \in 1 .. m |-> CHOOSE j \in ready : place[j] - 1 = k - 1]
  <2>1. l = [k \in 1 .. m |-> CHOOSE j \in ready : Cardinality(Ahead(j)) = k - 1] BY DEF Level
  <2>2. ASSUME NEW k \in 1 .. m
        PROVE  (CHOOSE j \in ready : Cardinality(Ahead(j)) = k - 1)
               = CHOOSE j \in ready : place[j] - 1 = k - 1
    <3>1. \A j \in ready : Cardinality(Ahead(j)) = k - 1 <=> place[j] - 1 = k - 1
      <4> TAKE j \in ready
      <4> HIDE DEF Ahead, place
      <4> QED BY <1>1, <1>3
    <3> HIDE DEF Ahead, place
    <3> QED BY <3>1
  <2> HIDE DEF Ahead, place
  <2> QED BY <2>1, <2>2
<1>6. place \in [ready -> 1 .. m]
  <2>1. \A j \in ready : place[j] \in 1 .. m
    <3> TAKE j \in ready
    <3> HIDE DEF Ahead, place
    <3> QED BY <1>1, <1>3
  <2>2. place = [j \in ready |-> place[j]] OBVIOUS
  <2> HIDE DEF place
  <2> QED BY <2>1, <2>2
<1> HIDE DEF Ahead, place
<1>7. \A i, j \in ready : place[i] = place[j] => i = j
  <2> SUFFICES ASSUME NEW i \in ready, NEW j \in ready, i # j PROVE place[i] # place[j] OBVIOUS
  <2>1. place[i] \in 1 .. m /\ place[j] \in 1 .. m BY <1>6
  <2>2. place[i] < place[j] \/ place[j] < place[i] BY <1>2, <1>4
  <2> QED BY <2>1, <2>2
<1>8. \A k \in 1 .. m : \E j \in ready : place[j] = k
  <2>1. place \in Injection(ready, 1 .. m) BY <1>6, <1>7 DEF Injection, IsInjective
  <2>2. IsFiniteSet(1 .. m) /\ Cardinality(1 .. m) = m BY <1>1, FS_Interval
  <2>3. place \in Surjection(ready, 1 .. m) BY <1>1, <2>1, <2>2, FS_Injection
  <2> QED BY <2>3 DEF Surjection
<1>9. \A k \in 1 .. m : l[k] \in ready /\ place[l[k]] = k
  <2> TAKE k \in 1 .. m
  <2>1. l[k] = CHOOSE j \in ready : place[j] - 1 = k - 1 BY <1>5
  <2>2. PICK j \in ready : place[j] = k BY <1>8
  <2>3. l[k] \in ready /\ place[l[k]] - 1 = k - 1 BY <2>1, <2>2
  <2>4. place[l[k]] \in 1 .. m BY <1>6, <2>3
  <2> QED BY <2>3, <2>4
<1>10. \A j \in ready : \E k \in 1 .. m : l[k] = j
  <2> TAKE j \in ready
  <2>1. place[j] \in 1 .. m BY <1>6
  <2>2. l[place[j]] = j BY <1>7, <1>9, <2>1
  <2> QED BY <2>1, <2>2
<1>11. l \in [1 .. m -> ready]
  <2>1. DOMAIN l = 1 .. m /\ l = [k \in DOMAIN l |-> l[k]] BY <1>5
  <2> QED BY <1>9, <2>1
<1>12. \A k, h \in 1 .. m : l[k] = l[h] => k = h BY <1>9
<1> HIDE DEF m
<1> QED BY <1>1, <1>10, <1>11, <1>12

(* o has no node twice and every node after those that feed it.            *)
Placed(n, o) == o \in Seq(1 .. n) /\ \A p, q \in DOMAIN o : o[p] = o[q] => p = q
Fed(n, edges, o) ==
  \A p \in DOMAIN o : \A i \in 1 .. n : edges[i][o[p]] # 0 => \E q \in 1 .. p - 1 : o[q] = i

\* The order after each level.
Orders(n, edges, o) ==
  /\ o \in [0 .. n -> Seq(1 .. n)]
  /\ o[0] = <<>>
  /\ \A k \in 1 .. n : o[k] = o[k - 1] \o Level(edges, Ready(edges, Range(o[k - 1])))

\* Edges as a sequence of rows.
LEMMA EdgesAre ==
  ASSUME NEW n \in Nat, NEW edges \in Edges(n)
  PROVE  Len(edges) = n /\ DOMAIN edges = 1 .. n /\ \A i, j \in 1 .. n : edges[i][j] \in Nat
<1>1. \E m \in Nat : edges \in [1 .. m -> [1 .. n -> Nat]] BY DEF Edges
<1>2. edges \in Seq([1 .. n -> Nat]) BY <1>1, SeqDef
<1> QED BY <1>2 DEF Edges

\* What is ready after o, as a sequence.
LEMMA NextLevelIs ==
  ASSUME NEW n \in Nat, NEW edges \in Edges(n), NEW o \in Seq(1 .. n),
         NEW l, l = Level(edges, Ready(edges, Range(o)))
  PROVE  /\ l \in Seq(1 .. n)
         /\ \A p \in 1 .. Len(l) : l[p] \in Ready(edges, Range(o))
         /\ \A p, q \in 1 .. Len(l) : l[p] = l[q] => p = q
         /\ Ready(edges, Range(o)) = {} => l = <<>>
         /\ Ready(edges, Range(o)) # {} => Len(l) >= 1
<1> DEFINE ready == Ready(edges, Range(o))
<1>1. ready \in SUBSET (1 .. n) BY EdgesAre DEF Ready
<1> HIDE DEF ready
<1>2. l = Level(edges, ready) BY DEF ready
<1>3. PICK m \in Nat : /\ l \in [1 .. m -> ready]
                       /\ \A j \in ready : \E k \in 1 .. m : l[k] = j
                       /\ \A k, h \in 1 .. m : l[k] = l[h] => k = h
                       /\ ready # {} => m # 0
  BY <1>1, <1>2, LevelIs
<1>4. l \in Seq(1 .. n) /\ Len(l) = m
  <2>1. l \in [1 .. m -> 1 .. n] BY <1>1, <1>3
  <2>2. l \in Seq(1 .. n) BY <2>1, SeqDef
  <2> QED BY <2>1, <2>2
<1>5. ASSUME ready = {} PROVE l = <<>>
  <2>1. m = 0
    <3> SUFFICES ASSUME m # 0 PROVE FALSE OBVIOUS
    <3>1. l[1] \in ready BY <1>3
    <3> QED BY <1>5, <3>1
  <2> QED BY <1>4, <2>1
<1> QED BY <1>3, <1>4, <1>5 DEF ready

\* The recursive function of KahnOrder is there.
LEMMA OrdersExist ==
  ASSUME NEW n \in Nat, NEW edges \in Edges(n)
  PROVE  \E o : Orders(n, edges, o) /\ KahnOrder(edges) = o[n]
<1> DEFINE S == Seq(1 .. n)
           next(a) == a \o Level(edges, Ready(edges, Range(a)))
           g == [x \in S \X (1 .. n) |-> next(x[1])]
           body(f) == [k \in 0 .. n |-> IF k = 0 THEN <<>> ELSE next(f[k - 1])]
           h == CHOOSE f : f = body(f)
<1>1. KahnOrder(edges) = h[n]
  <2>1. Len(edges) = n BY EdgesAre
  <2> QED BY <2>1 DEF KahnOrder
<1>2. \A a \in S : next(a) \in S
  <2> TAKE a \in S
  <2> DEFINE l == Level(edges, Ready(edges, Range(a)))
  <2>1. l \in Seq(1 .. n) BY NextLevelIs
  <2> HIDE DEF l
  <2>2. a \o l \in Seq(1 .. n) BY <2>1
  <2> QED BY <2>2 DEF l
<1>3. <<>> \in S OBVIOUS
<1> HIDE DEF S, next
<1>4. g \in [S \X (1 .. n) -> S] BY <1>2
<1>5. \A a \in S, i \in 1 .. n : g[<<a, i>>] = next(a) OBVIOUS
<1> HIDE DEF g
<1>6. PICK f \in [0 .. n -> S] : FoldsTo(f, n, <<>>, g) BY <1>3, <1>4, FoldExists
<1>7. f[0] = <<>> /\ \A k \in 1 .. n : f[k - 1] \in S /\ f[k] = next(f[k - 1])
  <2>1. \A k \in 1 .. n : k - 1 \in 0 .. n OBVIOUS
  <2>2. f[0] = <<>> /\ \A k \in 1 .. n : f[k - 1] \in S /\ f[k] = g[<<f[k - 1], k>>]
    BY <1>6, <2>1 DEF FoldsTo
  <2> QED BY <1>5, <2>2
<1>8. f = body(f)
  <2>1. \A k \in 0 .. n : f[k] = IF k = 0 THEN <<>> ELSE next(f[k - 1])
    <3> TAKE k \in 0 .. n
    <3>1. CASE k = 0 BY <1>7, <3>1
    <3>2. CASE k # 0
      <4>1. k \in 1 .. n BY <3>2
      <4> QED BY <1>7, <3>2, <4>1
    <3> QED BY <3>1, <3>2
  <2>2. DOMAIN f = 0 .. n /\ f = [k \in DOMAIN f |-> f[k]] OBVIOUS
  <2> QED BY <2>1, <2>2
<1>9. h = body(h) BY <1>8
<1> HIDE DEF h
<1>10. DOMAIN h = 0 .. n /\ h = [k \in DOMAIN h |-> h[k]]
       /\ \A k \in 0 .. n : h[k] = IF k = 0 THEN <<>> ELSE next(h[k - 1])
  BY <1>9
<1>11. h[0] = <<>> /\ \A k \in 1 .. n : h[k] = next(h[k - 1])
  <2>1. 0 \in 0 .. n /\ \A k \in 1 .. n : k \in 0 .. n /\ k # 0 OBVIOUS
  <2> QED BY <1>10, <2>1
<1> DEFINE T == {k \in 0 .. n : h[k] \in S}
<1>12. 0 \in T BY <1>3, <1>11
<1>13. \A k \in 1 .. n : k - 1 \in T => k \in T BY <1>2, <1>11
<1> HIDE DEF T
<1>14. \A k \in 0 .. n : h[k] \in S
  <2>1. \A k \in 0 .. n : k \in T BY <1>12, <1>13, UpTo
  <2> QED BY <2>1 DEF T
<1>15. h \in [0 .. n -> S] BY <1>10, <1>14
<1>16. Orders(n, edges, h) BY <1>11, <1>15 DEF Orders, next, S
<1> QED BY <1>1, <1>16

\* A level placed behind what it waited for.
LEMMA LevelPlaces ==
  ASSUME NEW n \in Nat, NEW edges \in Edges(n), NEW o, Placed(n, o), Fed(n, edges, o),
         NEW w, w = o \o Level(edges, Ready(edges, Range(o)))
  PROVE  Placed(n, w) /\ Fed(n, edges, w)
<1> DEFINE l == Level(edges, Ready(edges, Range(o)))
<1>0. o \in Seq(1 .. n) /\ Len(o) \in Nat /\ DOMAIN o = 1 .. Len(o) BY DEF Placed
<1>1. /\ l \in Seq(1 .. n)
      /\ \A p \in 1 .. Len(l) : l[p] \in Ready(edges, Range(o))
      /\ \A p, q \in 1 .. Len(l) : l[p] = l[q] => p = q
  BY <1>0, NextLevelIs
<1> HIDE DEF l
<1>2. w = o \o l BY DEF l
<1>3. /\ w \in Seq(1 .. n) /\ Len(w) = Len(o) + Len(l) /\ DOMAIN w = 1 .. Len(w)
      /\ \A p \in 1 .. Len(w) : w[p] = IF p <= Len(o) THEN o[p] ELSE l[p - Len(o)]
  BY <1>0, <1>1, <1>2
<1>4. Len(l) \in Nat BY <1>1
<1>5. ASSUME NEW j \in Ready(edges, Range(o))
      PROVE  /\ \A p \in DOMAIN o : o[p] # j
             /\ \A i \in 1 .. n : edges[i][j] # 0 => \E q \in DOMAIN o : o[q] = i
  <2>1. DOMAIN edges = 1 .. n BY EdgesAre
  <2>2. j \notin Range(o) /\ \A i \in (1 .. n) \ Range(o) : edges[i][j] = 0
    BY <2>1 DEF Ready
  <2> QED BY <2>2 DEF Range
<1>6. ASSUME NEW p \in DOMAIN w, p > Len(o)
      PROVE  p - Len(o) \in 1 .. Len(l) /\ w[p] = l[p - Len(o)]
             /\ w[p] \in Ready(edges, Range(o))
  <2>1. p - Len(o) \in 1 .. Len(l) BY <1>0, <1>3, <1>4, <1>6
  <2>2. w[p] = l[p - Len(o)] BY <1>0, <1>3, <1>6
  <2> QED BY <1>1, <2>1, <2>2
<1>7. ASSUME NEW p \in DOMAIN w, p <= Len(o) PROVE p \in DOMAIN o /\ w[p] = o[p]
  BY <1>0, <1>3, <1>7
<1>8. ASSUME NEW p \in DOMAIN w, NEW q \in DOMAIN w, w[p] = w[q] PROVE p = q
  <2>0. p \in Nat /\ q \in Nat BY <1>3, <1>4
  <2>1. CASE p <= Len(o) /\ q <= Len(o) BY <1>7, <1>8, <2>1 DEF Placed
  <2>2. CASE p > Len(o) /\ q > Len(o)
    <3>1. p - Len(o) = q - Len(o) BY <1>1, <1>6, <1>8, <2>2
    <3> QED BY <1>0, <2>0, <3>1
  <2>3. CASE p <= Len(o) /\ q > Len(o) BY <1>5, <1>6, <1>7, <1>8, <2>3
  <2>4. CASE p > Len(o) /\ q <= Len(o) BY <1>5, <1>6, <1>7, <1>8, <2>4
  <2> QED BY <1>0, <2>0, <2>1, <2>2, <2>3, <2>4
<1>9. ASSUME NEW p \in DOMAIN w, NEW i \in 1 .. n, edges[i][w[p]] # 0
      PROVE  \E q \in 1 .. p - 1 : w[q] = i
  <2>0. p \in Nat BY <1>3, <1>4
  <2>1. CASE p <= Len(o)
    <3>1. PICK q \in 1 .. p - 1 : o[q] = i BY <1>7, <1>9, <2>1 DEF Fed
    <3>2. q \in DOMAIN w /\ q <= Len(o) BY <1>0, <1>3, <1>4, <2>0, <2>1, <3>1
    <3> QED BY <1>7, <3>1, <3>2
  <2>2. CASE p > Len(o)
    <3>1. PICK q \in DOMAIN o : o[q] = i BY <1>5, <1>6, <1>9, <2>2
    <3>2. q \in DOMAIN w /\ q <= Len(o) /\ q \in 1 .. p - 1 BY <1>0, <1>3, <1>4, <2>0, <2>2, <3>1
    <3> QED BY <1>7, <3>1, <3>2
  <2> QED BY <1>0, <2>0, <2>1, <2>2
<1> QED BY <1>3, <1>8, <1>9 DEF Placed, Fed

\* Without repetition all n nodes have a place exactly if there are n places.
LEMMA AllPlaced ==
  ASSUME NEW n \in Nat, NEW o, Placed(n, o)
  PROVE  /\ Len(o) <= n
         /\ Len(o) = n <=> 1 .. n \subseteq Range(o)
<1>0. o \in Seq(1 .. n) /\ Len(o) \in Nat /\ DOMAIN o = 1 .. Len(o) BY DEF Placed
<1>1. o \in [1 .. Len(o) -> 1 .. n] BY <1>0
<1>2. o \in Injection(1 .. Len(o), 1 .. n) BY <1>0, <1>1 DEF Placed, Injection, IsInjective
<1>3. /\ IsFiniteSet(1 .. n) /\ Cardinality(1 .. n) = n
      /\ IsFiniteSet(1 .. Len(o)) /\ Cardinality(1 .. Len(o)) = Len(o)
  <2>1. \A m \in Nat : IsFiniteSet(1 .. m) /\ Cardinality(1 .. m) = m
    <3> TAKE m \in Nat
    <3> QED BY FS_Interval
  <2> QED BY <1>0, <2>1
<1>4. Len(o) <= n /\ (Len(o) = n <=> o \in Surjection(1 .. Len(o), 1 .. n))
  BY <1>2, <1>3, FS_Injection
<1>5. o \in Surjection(1 .. Len(o), 1 .. n) <=> 1 .. n \subseteq Range(o)
  <2>1. ASSUME o \in Surjection(1 .. Len(o), 1 .. n) PROVE 1 .. n \subseteq Range(o)
    <3>1. \A t \in 1 .. n : \E s \in 1 .. Len(o) : o[s] = t BY <2>1 DEF Surjection
    <3> QED BY <1>0, <3>1 DEF Range
  <2>2. ASSUME 1 .. n \subseteq Range(o) PROVE o \in Surjection(1 .. Len(o), 1 .. n)
    <3>1. \A t \in 1 .. n : \E s \in 1 .. Len(o) : o[s] = t BY <1>0, <2>2 DEF Range
    <3> QED BY <1>1, <3>1 DEF Surjection
  <2> QED BY <2>1, <2>2
<1> QED BY <1>4, <1>5

(* Kahn's order: nothing twice, everything after what feeds it, and nothing *)
(* is left out that waits for nothing that is left out.                     *)
LEMMA KahnIs ==
  ASSUME NEW n \in Nat, NEW edges \in Edges(n), NEW w, w = KahnOrder(edges)
  PROVE  Placed(n, w) /\ Fed(n, edges, w) /\ Ready(edges, Range(w)) = {}
<1>1. PICK o : Orders(n, edges, o) /\ w = o[n] BY OrdersExist
<1>2. /\ o[0] = <<>>
      /\ \A k \in 1 .. n : o[k] = o[k - 1] \o Level(edges, Ready(edges, Range(o[k - 1])))
  BY <1>1 DEF Orders
<1> DEFINE Good(k) == /\ Placed(n, o[k]) /\ Fed(n, edges, o[k])
                      /\ Ready(edges, Range(o[k])) = {} \/ Len(o[k]) >= k
           T == {k \in 0 .. n : Good(k)}
<1>3. 0 \in T
  <2>1. Placed(n, <<>>) /\ Fed(n, edges, <<>>) /\ Len(<<>>) = 0 BY DEF Placed, Fed
  <2> QED BY <1>2, <2>1
<1>4. ASSUME NEW k \in 1 .. n, k - 1 \in T PROVE k \in T
  <2> DEFINE a == o[k - 1]
             w1 == o[k]
             l == Level(edges, Ready(edges, Range(a)))
  <2>1. Placed(n, a) /\ Fed(n, edges, a) /\ (Ready(edges, Range(a)) = {} \/ Len(a) >= k - 1)
    BY <1>4
  <2>2. w1 = a \o l BY <1>2
  <2> HIDE DEF a, w1
  <2>3. Placed(n, w1) /\ Fed(n, edges, w1) BY <2>1, <2>2, LevelPlaces
  <2>4. a \in Seq(1 .. n) BY <2>1 DEF Placed
  <2>5. /\ l \in Seq(1 .. n)
        /\ Ready(edges, Range(a)) = {} => l = <<>>
        /\ Ready(edges, Range(a)) # {} => Len(l) >= 1
    BY <2>4, NextLevelIs
  <2> HIDE DEF l
  <2>6. Len(w1) = Len(a) + Len(l) /\ Len(a) \in Nat /\ Len(l) \in Nat BY <2>2, <2>4, <2>5
  <2>7. Ready(edges, Range(w1)) = {} \/ Len(w1) >= k
    <3>1. CASE Ready(edges, Range(a)) = {}
      <4>1. w1 = a BY <2>2, <2>4, <2>5, <3>1
      <4> QED BY <3>1, <4>1
    <3>2. CASE Ready(edges, Range(a)) # {} BY <2>1, <2>5, <2>6, <3>2
    <3> QED BY <3>1, <3>2
  <2> QED BY <2>3, <2>7 DEF w1
<1> HIDE DEF T
<1>5. n \in T
  <2>1. \A k \in 1 .. n : k - 1 \in T => k \in T BY <1>4
  <2>2. \A k \in 0 .. n : k \in T BY <1>3, <2>1, UpTo
  <2> QED BY <2>2
<1>6. Placed(n, w) /\ Fed(n, edges, w) /\ (Ready(edges, Range(w)) = {} \/ Len(w) >= n)
  BY <1>1, <1>5 DEF T
<1>7. ASSUME Len(w) >= n PROVE Ready(edges, Range(w)) = {}
  <2>1. Len(w) = n
    <3>1. Len(w) <= n /\ Len(w) \in Nat BY <1>6, AllPlaced DEF Placed
    <3> QED BY <1>7, <3>1
  <2>2. 1 .. n \subseteq Range(w) BY <1>6, <2>1, AllPlaced
  <2> QED BY <2>2, EdgesAre DEF Ready
<1> QED BY <1>6, <1>7

(* A cycle of m edges.                                                     *)
Cycle(edges, m, c) ==
  /\ c \in [0 .. m -> DOMAIN edges] /\ c[0] = c[m]
  /\ \A k \in 1 .. m : edges[c[k - 1]][c[k]] # 0

\* Whoever is always fed from within S is on or behind a cycle.
LEMMA CycleExists ==
  ASSUME NEW n \in Nat, NEW edges \in Edges(n), NEW S \in SUBSET (1 .. n), S # {},
         \A j \in S : \E i \in S : edges[i][j] # 0
  PROVE  \E m \in Nat \ {0} : \E c : Cycle(edges, m, c)
<1> DEFINE feeds(j) == CHOOSE i \in S : edges[i][j] # 0
           g == [x \in S \X (1 .. n) |-> feeds(x[1])]
<1>1. \A j \in S : feeds(j) \in S /\ edges[feeds(j)][j] # 0 OBVIOUS
<1> HIDE DEF feeds
<1>2. g \in [S \X (1 .. n) -> S] BY <1>1
<1>3. \A j \in S, k \in 1 .. n : g[<<j, k>>] = feeds(j) OBVIOUS
<1> HIDE DEF g
<1>4. PICK s \in S : TRUE OBVIOUS
<1>5. PICK w \in [0 .. n -> S] : FoldsTo(w, n, s, g) BY <1>2, <1>4, FoldExists
<1>6. \A k \in 1 .. n : w[k - 1] \in S /\ w[k] \in S /\ edges[w[k]][w[k - 1]] # 0
  <2> TAKE k \in 1 .. n
  <2>1. k - 1 \in 0 .. n /\ k \in 0 .. n OBVIOUS
  <2>2. w[k - 1] \in S /\ w[k] \in S /\ w[k] = g[<<w[k - 1], k>>] BY <1>5, <2>1 DEF FoldsTo
  <2> QED BY <1>1, <1>3, <2>2
<1>7. PICK a \in 0 .. n, b \in 0 .. n : a < b /\ w[a] = w[b]
  <2>1. IsFiniteSet(0 .. n) /\ Cardinality(0 .. n) = n + 1 BY FS_Interval
  <2>2. IsFiniteSet(1 .. n) /\ Cardinality(1 .. n) = n BY FS_Interval
  <2>3. w \in [0 .. n -> 1 .. n] OBVIOUS
  <2>4. Cardinality(1 .. n) < Cardinality(0 .. n) BY <2>1, <2>2
  <2>5. \E x, y \in 0 .. n : x # y /\ w[x] = w[y] BY <2>1, <2>2, <2>3, <2>4, FS_PigeonHole
  <2>6. PICK x \in 0 .. n, y \in 0 .. n : x # y /\ w[x] = w[y] BY <2>5
  <2>7. x < y \/ y < x BY <2>6
  <2> QED BY <2>6, <2>7
<1> DEFINE m == b - a
           c == [k \in 0 .. m |-> w[b - k]]
<1>8. m \in Nat \ {0} BY <1>7
<1>9. \A k \in 0 .. m : c[k] = w[b - k] /\ b - k \in 0 .. n OBVIOUS
<1>10. DOMAIN edges = 1 .. n BY EdgesAre
<1>11. c \in [0 .. m -> DOMAIN edges] BY <1>9, <1>10
<1>12. c[0] = c[m] BY <1>7, <1>8, <1>9
<1>13. \A k \in 1 .. m : edges[c[k - 1]][c[k]] # 0
  <2> TAKE k \in 1 .. m
  <2>1. k \in 0 .. m /\ k - 1 \in 0 .. m BY <1>8
  <2>2. c[k] = w[b - k] /\ c[k - 1] = w[b - (k - 1)] BY <1>9, <2>1
  <2>3. b - (k - 1) \in 1 .. n /\ (b - (k - 1)) - 1 = b - k BY <1>8
  <2>4. edges[w[b - (k - 1)]][w[b - k]] # 0 BY <1>6, <2>3
  <2> QED BY <2>2, <2>4
<1> HIDE DEF c, m
<1> QED BY <1>8, <1>11, <1>12, <1>13 DEF Cycle

\* Some node has no place exactly if there is a cycle.
LEMMA KahnRefuses ==
  ASSUME NEW n \in Nat, NEW edges \in Edges(n), NEW w, w = KahnOrder(edges)
  PROVE  Len(w) # n <=> \E m \in Nat \ {0} : \E c : Cycle(edges, m, c)
<1>1. Placed(n, w) /\ Fed(n, edges, w) /\ Ready(edges, Range(w)) = {} BY KahnIs
<1>2. DOMAIN edges = 1 .. n BY EdgesAre
<1>3. ASSUME Len(w) # n PROVE \E m \in Nat \ {0} : \E c : Cycle(edges, m, c)
  <2> DEFINE S == (1 .. n) \ Range(w)
  <2>1. S # {} BY <1>1, <1>3, AllPlaced
  <2>2. \A j \in S : \E i \in S : edges[i][j] # 0 BY <1>1, <1>2 DEF Ready
  <2>3. S \in SUBSET (1 .. n) OBVIOUS
  <2> HIDE DEF S
  <2> QED BY <2>1, <2>2, <2>3, CycleExists
<1>4. ASSUME Len(w) = n, NEW m \in Nat \ {0}, NEW c, Cycle(edges, m, c) PROVE FALSE
  <2>1. /\ c \in [0 .. m -> 1 .. n] /\ c[0] = c[m]
        /\ \A k \in 1 .. m : edges[c[k - 1]][c[k]] # 0
    BY <1>2, <1>4 DEF Cycle
  <2>2. 1 .. n \subseteq Range(w) /\ DOMAIN w = 1 .. n
    <3>1. w \in Seq(1 .. n) BY <1>1 DEF Placed
    <3>2. DOMAIN w = 1 .. n BY <1>4, <3>1
    <3> QED BY <1>1, <1>4, <3>2, AllPlaced
  <2> DEFINE P == {p \in 1 .. n : \E k \in 0 .. m : w[p] = c[k]}
  <2>3. P \subseteq Nat OBVIOUS
  <2>4. \E p : p \in P
    <3>1. 0 \in 0 .. m /\ c[0] \in 1 .. n BY <2>1
    <3>2. \E p \in DOMAIN w : w[p] = c[0] BY <2>2, <3>1 DEF Range
    <3> QED BY <2>2, <3>1, <3>2
  <2> HIDE DEF P
  <2>5. PICK p \in P : \A q \in P : p <= q BY <2>3, <2>4, SmallestOf
  <2>6. PICK k \in 1 .. m : w[p] = c[k]
    <3>1. PICK k \in 0 .. m : w[p] = c[k] BY <2>5 DEF P
    <3>2. CASE k = 0
      <4>1. m \in 1 .. m OBVIOUS
      <4> QED BY <2>1, <3>1, <3>2, <4>1
    <3>3. CASE k # 0
      <4>1. k \in 1 .. m BY <3>3
      <4> QED BY <3>1, <4>1
    <3> QED BY <3>2, <3>3
  <2>7. k - 1 \in 0 .. m /\ c[k - 1] \in 1 .. n /\ edges[c[k - 1]][w[p]] # 0 BY <2>1, <2>6
  <2>8. p \in DOMAIN w /\ p \in 1 .. n BY <2>2, <2>5 DEF P
  <2>9. PICK q \in 1 .. p - 1 : w[q] = c[k - 1] BY <1>1, <2>7, <2>8 DEF Fed
  <2>10. q \in P /\ q < p BY <2>7, <2>8, <2>9 DEF P
  <2>11. p <= q BY <2>5, <2>10
  <2> QED BY <2>8, <2>9, <2>10, <2>11
<1> QED BY <1>3, <1>4

\* A nonempty set of numbers in an interval has a largest.
LEMMA LargestIn ==
  ASSUME NEW a \in Nat, NEW b \in Nat, NEW S \in SUBSET (a .. b), NEW e \in S
  PROVE  \E m \in S : \A x \in S : x <= m
<1> DEFINE U == {u \in Nat : \E x \in S : u = b - x}
<1>1. U \subseteq Nat /\ b - e \in U OBVIOUS
<1> HIDE DEF U
<1>2. PICK u \in U : \A x \in U : u <= x BY <1>1, SmallestOf
<1>3. PICK m \in S : u = b - m BY <1>2 DEF U
<1>4. ASSUME NEW x \in S PROVE x <= m
  <2>1. b - x \in U BY DEF U
  <2> QED BY <1>2, <1>3, <2>1
<1> QED BY <1>4

(* Nodes: what a node reads is finitely much.                              *)
AreNodes(nodes, n) ==
  nodes \in Seq({nodes[i] : i \in DOMAIN nodes}) /\ Len(nodes) = n
  /\ \A i \in 1 .. n : IsFiniteSet(nodes[i].reads)

\* There is an edge for a signal read or an order in the block.
LEMMA SortEdgesAre ==
  ASSUME NEW n \in Nat, NEW nodes, AreNodes(nodes, n), NEW locals
  PROVE  /\ SortEdges(nodes, locals) \in Edges(n)
         /\ \A i, j \in 1 .. n :
              SortEdges(nodes, locals)[i][j] # 0
                <=> i # j /\ (SignalsFrom(nodes, locals, i, j) # {} \/ Follows(nodes, locals, i, j))
<1>0. DOMAIN nodes = 1 .. n BY DEF AreNodes
<1>1. ASSUME NEW i \in 1 .. n, NEW j \in 1 .. n
      PROVE  /\ IsFiniteSet(SignalsFrom(nodes, locals, i, j))
             /\ Cardinality(SignalsFrom(nodes, locals, i, j)) \in Nat
             /\ Cardinality(SignalsFrom(nodes, locals, i, j)) = 0 <=> SignalsFrom(nodes, locals, i, j) = {}
  <2>1. SignalsFrom(nodes, locals, i, j) \subseteq nodes[j].reads BY DEF SignalsFrom
  <2>2. IsFiniteSet(nodes[j].reads) BY DEF AreNodes
  <2>3. IsFiniteSet(SignalsFrom(nodes, locals, i, j)) BY <2>1, <2>2, FS_Subset
  <2> QED BY <2>3, FS_CardinalityType, FS_EmptySet
<1> DEFINE E == SortEdges(nodes, locals)
           signals(i, j) == SignalsFrom(nodes, locals, i, j)
           value(i, j) == IF i = j THEN 0
                          ELSE IF signals(i, j) # {} THEN Cardinality(signals(i, j))
                          ELSE IF Follows(nodes, locals, i, j) THEN 1 ELSE 0
<1>2. E = [i \in 1 .. n |-> [j \in 1 .. n |-> value(i, j)]] BY <1>0 DEF SortEdges
<1> HIDE DEF E, signals
<1>3. \A i, j \in 1 .. n : /\ value(i, j) \in Nat
                           /\ value(i, j) # 0 <=> i # j /\ (signals(i, j) # {} \/ Follows(nodes, locals, i, j))
  BY <1>1 DEF signals
<1> HIDE DEF value
<1>4. E \in [1 .. n -> [1 .. n -> Nat]] /\ \A i, j \in 1 .. n : E[i][j] = value(i, j)
  BY <1>2, <1>3
<1> QED BY <1>3, <1>4 DEF E, signals, Edges

(* In an order of all nodes each has one place.                            *)
PlaceOf(order, i) == CHOOSE p \in DOMAIN order : order[p] = i

\* Places and nodes are one to one.
LEMMA PlacesOf ==
  ASSUME NEW n \in Nat, NEW order, Placed(n, order), Len(order) = n
  PROVE  /\ DOMAIN order = 1 .. n
         /\ \A p \in 1 .. n : order[p] \in 1 .. n /\ PlaceOf(order, order[p]) = p
         /\ \A i \in 1 .. n : PlaceOf(order, i) \in 1 .. n /\ order[PlaceOf(order, i)] = i
<1>1. order \in Seq(1 .. n) BY DEF Placed
<1>2. DOMAIN order = 1 .. n /\ \A p \in 1 .. n : order[p] \in 1 .. n BY <1>1
<1>3. 1 .. n \subseteq Range(order) BY AllPlaced
<1>4. \A i \in 1 .. n : \E p \in 1 .. n : order[p] = i BY <1>2, <1>3 DEF Range
<1>5. \A i \in 1 .. n : PlaceOf(order, i) \in 1 .. n /\ order[PlaceOf(order, i)] = i
  BY <1>2, <1>4 DEF PlaceOf
<1> QED BY <1>2, <1>5 DEF Placed

\* An edge leads forward.
LEMMA EdgesLead ==
  ASSUME NEW n \in Nat, NEW edges \in Edges(n), NEW order, Placed(n, order), Fed(n, edges, order),
         Len(order) = n, NEW i \in 1 .. n, NEW j \in 1 .. n, edges[i][j] # 0
  PROVE  PlaceOf(order, i) < PlaceOf(order, j)
<1> DEFINE p == PlaceOf(order, j)
<1>1. p \in 1 .. n /\ order[p] = j /\ DOMAIN order = 1 .. n BY PlacesOf
<1>2. PICK q \in 1 .. p - 1 : order[q] = i BY <1>1 DEF Fed
<1>3. q \in 1 .. n BY <1>1, <1>2
<1>4. PlaceOf(order, i) = q BY <1>2, <1>3, PlacesOf
<1> QED BY <1>1, <1>2, <1>4

(* In a block, writers of a name keep their order, and who reads a local,  *)
(* or writes the name, is behind all that write it above.                  *)
LEMMA WritersLead ==
  ASSUME NEW n \in Nat, NEW nodes, AreNodes(nodes, n), NEW locals,
         NEW edges, edges = SortEdges(nodes, locals),
         NEW order, Placed(n, order), Fed(n, edges, order), Len(order) = n,
         NEW s, NEW i \in 1 .. n, s \in nodes[i].writes
  PROVE  \A j \in 1 .. n : i < j /\ nodes[i].bid = nodes[j].bid /\ s \in InOrder(nodes[j], locals)
                             => PlaceOf(order, i) < PlaceOf(order, j)
<1> DEFINE Bad == {j \in 1 .. n : /\ i < j /\ nodes[i].bid = nodes[j].bid
                                  /\ s \in InOrder(nodes[j], locals)
                                  /\ ~(PlaceOf(order, i) < PlaceOf(order, j))}
<1>1. SUFFICES ASSUME Bad # {} PROVE FALSE OBVIOUS
<1>2. Bad \subseteq Nat OBVIOUS
<1>3. PICK b : b \in Bad BY <1>1
<1> HIDE DEF Bad
<1>4. PICK j \in Bad : \A x \in Bad : j <= x BY <1>2, <1>3, SmallestOf
<1>5. /\ j \in 1 .. n /\ i < j /\ nodes[i].bid = nodes[j].bid /\ s \in InOrder(nodes[j], locals)
      /\ ~(PlaceOf(order, i) < PlaceOf(order, j))
  BY <1>4 DEF Bad
<1> DEFINE W == {k \in i .. j - 1 : nodes[k].bid = nodes[i].bid /\ s \in nodes[k].writes}
<1>6. i \in W /\ W \in SUBSET (i .. j - 1) /\ j - 1 \in Nat /\ i \in Nat BY <1>5
<1> HIDE DEF W
<1>7. PICK k \in W : \A x \in W : x <= k BY <1>6, LargestIn
<1>8. k \in 1 .. n /\ i <= k /\ k < j /\ nodes[k].bid = nodes[i].bid /\ s \in nodes[k].writes
  BY <1>5, <1>7 DEF W
<1>9. Follows(nodes, locals, k, j)
  <2>1. ASSUME NEW x \in k + 1 .. j - 1, nodes[x].bid = nodes[k].bid, s \in nodes[x].writes
        PROVE  FALSE
    <3>1. x \in W BY <1>8, <2>1 DEF W
    <3> QED BY <1>7, <1>8, <2>1, <3>1
  <2> QED BY <1>5, <1>8, <2>1 DEF Follows
<1>10. edges \in Edges(n) /\ edges[k][j] # 0 BY <1>5, <1>8, <1>9, SortEdgesAre
<1>11. PlaceOf(order, k) < PlaceOf(order, j) BY <1>5, <1>8, <1>10, EdgesLead
<1>12. CASE k = i BY <1>5, <1>11, <1>12
<1>13. CASE k # i
  <2>1. i < k /\ s \in InOrder(nodes[k], locals) BY <1>8, <1>13 DEF InOrder
  <2>2. k \notin Bad BY <1>4, <1>5, <1>8
  <2>3. PlaceOf(order, i) < PlaceOf(order, k) BY <1>8, <2>1, <2>2 DEF Bad
  <2>4. PlaceOf(order, i) \in 1 .. n /\ PlaceOf(order, k) \in 1 .. n /\ PlaceOf(order, j) \in 1 .. n
    BY <1>5, <1>8, PlacesOf
  <2> QED BY <1>5, <1>11, <2>3, <2>4
<1> QED BY <1>12, <1>13

(* A signal that the node at p reads and, like all that write it, a        *)
(* statement of the block at q writes; a name that they write, or a local. *)
ReadsLater(nodes, locals, order, p, q) ==
  \A s \in (nodes[order[p]].reads \cap nodes[order[q]].writes) \ locals :
    (\A i \in Writers(nodes, s) : nodes[i].bid = nodes[order[q]].bid) => q < p
KeepsOrder(nodes, locals, order, p, q) ==
  nodes[order[p]].bid = nodes[order[q]].bid /\ order[q] < order[p]
    => \A s \in nodes[order[q]].writes : s \in InOrder(nodes[order[p]], locals) => q < p

(* topo_sort_comb refuses a module exactly if there is a cycle of edges.   *)
(* Else every node has one place; who reads a signal comes after all that  *)
(* write it, if these are statements of one block; and in a block writers  *)
(* of a name keep their order, and the reader of a local variable stays    *)
(* behind the writers above it.                                            *)
THEOREM SortIsRight ==
  ASSUME NEW n \in Nat, NEW nodes, AreNodes(nodes, n), NEW locals,
         NEW order, order = KahnOrder(SortEdges(nodes, locals))
  PROVE  /\ Len(order) # n
              <=> \E m \in Nat \ {0} : \E c : Cycle(SortEdges(nodes, locals), m, c)
         /\ Len(order) = n =>
              /\ \A i \in 1 .. n : \E p \in 1 .. n : order[p] = i
              /\ \A p, q \in 1 .. n : /\ p # q => ReadsLater(nodes, locals, order, p, q)
                                     /\ KeepsOrder(nodes, locals, order, p, q)
<1> DEFINE edges == SortEdges(nodes, locals)
<1>1. edges \in Edges(n) BY SortEdgesAre
<1>2. \A i, j \in 1 .. n : edges[i][j] # 0
        <=> i # j /\ (SignalsFrom(nodes, locals, i, j) # {} \/ Follows(nodes, locals, i, j))
  BY SortEdgesAre
<1> HIDE DEF edges
<1>3. order = KahnOrder(edges) BY DEF edges
<1>4. Placed(n, order) /\ Fed(n, edges, order) BY <1>1, <1>3, KahnIs
<1>5. Len(order) # n <=> \E m \in Nat \ {0} : \E c : Cycle(edges, m, c)
  BY <1>1, <1>3, KahnRefuses
<1>6. ASSUME Len(order) = n, NEW p \in 1 .. n, NEW q \in 1 .. n, NEW s,
             s \in nodes[order[q]].writes
      PROVE  /\ /\ nodes[order[p]].bid = nodes[order[q]].bid /\ order[q] < order[p]
                /\ s \in nodes[order[p]].writes \/ s \in nodes[order[p]].reads \cap locals
                => q < p
             /\ /\ p # q /\ s \in nodes[order[p]].reads \ locals
                /\ \A i \in Writers(nodes, s) : nodes[i].bid = nodes[order[q]].bid
                => q < p
  <2> DEFINE j == order[p]
             i == order[q]
  <2>1. /\ i \in 1 .. n /\ j \in 1 .. n /\ PlaceOf(order, i) = q /\ PlaceOf(order, j) = p
        /\ DOMAIN order = 1 .. n
    BY <1>4, <1>6, PlacesOf
  <2> HIDE DEF i, j
  <2>2. \A a \in 1 .. n : s \in nodes[a].writes =>
          \A b \in 1 .. n : a < b /\ nodes[a].bid = nodes[b].bid /\ s \in InOrder(nodes[b], locals)
                             => PlaceOf(order, a) < PlaceOf(order, b)
    BY <1>4, <1>6, WritersLead DEF edges
  <2>3. s \in nodes[i].writes BY <1>6 DEF i
  <2>4. ASSUME nodes[j].bid = nodes[i].bid, i < j,
               s \in nodes[j].writes \/ s \in nodes[j].reads \cap locals
        PROVE  q < p
    BY <2>1, <2>2, <2>3, <2>4 DEF InOrder
  <2>5. ASSUME p # q, s \in nodes[j].reads \ locals,
               \A a \in Writers(nodes, s) : nodes[a].bid = nodes[i].bid
        PROVE  q < p
    <3> DEFINE W == Writers(nodes, s)
               w == Max(W)
    <3>1. W \subseteq 1 .. n /\ i \in W
      <4>1. DOMAIN nodes = 1 .. n BY DEF AreNodes
      <4> QED BY <2>1, <2>3, <4>1 DEF Writers
    <3>2. \E m \in W : \A x \in W : m >= x
      <4> HIDE DEF W
      <4>1. W \in SUBSET (0 .. n) BY <3>1
      <4>2. \E m \in W : \A x \in W : x <= m BY <3>1, <4>1, LargestIn
      <4> QED BY <3>1, <4>2
    <3>3. w \in W /\ \A x \in W : w >= x
      <4> HIDE DEF W
      <4> QED BY <3>2 DEF Max
    <3>4. w \in 1 .. n /\ s \in nodes[w].writes /\ nodes[w].bid = nodes[i].bid
      BY <2>5, <3>1, <3>3 DEF Writers
    <3>5. w = Max(Writers(nodes, s)) OBVIOUS
    <3>6. i <= w BY <3>1, <3>3, <2>1
    <3> HIDE DEF w, W
    <3>7. i # j BY <2>1, <2>5
    <3>8. i < w => PlaceOf(order, i) < PlaceOf(order, w)
      BY <2>1, <2>2, <2>3, <3>4 DEF InOrder
    <3>9. CASE w = j BY <2>1, <3>4, <3>6, <3>7, <3>8, <3>9
    <3>10. CASE w # j
      <4>1. s \in SignalsFrom(nodes, locals, w, j) BY <2>5, <3>4, <3>5 DEF SignalsFrom
      <4>2. edges[w][j] # 0 BY <1>2, <2>1, <3>4, <3>10, <4>1
      <4>3. PlaceOf(order, w) < PlaceOf(order, j) BY <1>1, <1>4, <1>6, <2>1, <3>4, <4>2, EdgesLead
      <4>4. PlaceOf(order, w) \in 1 .. n BY <1>4, <1>6, <3>4, PlacesOf
      <4>5. CASE i = w BY <2>1, <4>3, <4>5
      <4>6. CASE i < w BY <2>1, <3>8, <4>3, <4>4, <4>6
      <4> QED BY <2>1, <3>4, <3>6, <4>5, <4>6
    <3> QED BY <3>9, <3>10
  <2> QED BY <2>4, <2>5 DEF i, j
<1>7. ASSUME Len(order) = n PROVE \A i \in 1 .. n : \E p \in 1 .. n : order[p] = i
  BY <1>4, <1>7, PlacesOf
<1> QED BY <1>5, <1>6, <1>7 DEF edges, ReadsLater, KeepsOrder, InOrder

(* What CompiledEval assumes of Comb (DesignAssumption): no node reads what *)
(* it or a later node writes, but for locals, if no node reads its own     *)
(* target and each signal is written in one block.                         *)
THEOREM SortedForEval ==
  ASSUME NEW n \in Nat, NEW nodes, AreNodes(nodes, n), NEW locals,
         NEW order, order = KahnOrder(SortEdges(nodes, locals)), Len(order) = n,
         \A i \in 1 .. n : nodes[i].reads \cap nodes[i].writes \subseteq locals,
         \A i, j \in 1 .. n : nodes[i].bid # nodes[j].bid
                                => nodes[i].writes \cap nodes[j].writes \subseteq locals
  PROVE  \A p, q \in 1 .. n : p <= q => nodes[order[p]].reads \cap nodes[order[q]].writes \subseteq locals
<1> SUFFICES ASSUME NEW p \in 1 .. n, NEW q \in 1 .. n, p <= q, NEW s,
                    s \in nodes[order[p]].reads, s \in nodes[order[q]].writes, s \notin locals
             PROVE  FALSE
  OBVIOUS
<1>1. Placed(n, order)
  <2>1. SortEdges(nodes, locals) \in Edges(n) BY SortEdgesAre
  <2> QED BY <2>1, KahnIs
<1>2. order[p] \in 1 .. n /\ order[q] \in 1 .. n BY <1>1, PlacesOf
<1>3. p # q BY <1>2
<1>4. \A i \in Writers(nodes, s) : nodes[i].bid = nodes[order[q]].bid
  <2>1. DOMAIN nodes = 1 .. n BY DEF AreNodes
  <2> QED BY <1>2, <2>1 DEF Writers
<1>5. \A t \in (nodes[order[p]].reads \cap nodes[order[q]].writes) \ locals :
        (\A i \in Writers(nodes, t) : nodes[i].bid = nodes[order[q]].bid) => q < p
  <2>1. ReadsLater(nodes, locals, order, p, q) BY <1>3, SortIsRight
  <2> QED BY <2>1 DEF ReadsLater
<1>6. q < p BY <1>4, <1>5
<1> QED BY <1>6

-------------------------------------------------------------------------------
(***************************************************************************)
(* What the nodes compute.  A name of the design is a number of bits (for  *)
(* a slice writes some of them); a valuation says what they hold; what a   *)
(* node does is an operation on valuations.                                *)
(***************************************************************************)
V == [Bits -> Vals]

\* It changes what it writes, and each bit of that from what it reads and from
\* what the bit was.
OnlyWrites(b, op) ==
  op \in [V -> V] /\ \A v \in V : \A x \in Bits : NameOf(x) \notin b.writes => op[v][x] = v[x]
Alike(names, v, w) == \A x \in Bits : NameOf(x) \in names => v[x] = w[x]
Obeys(b, op) ==
  /\ OnlyWrites(b, op)
  /\ \A v, w \in V : Alike(b.reads, v, w) =>
       \A x \in Bits : NameOf(x) \in b.writes /\ v[x] = w[x] => op[v][x] = op[w][x]
\* A bit that it gives a value whatever the bit was.
Fixes(b, op, x) ==
  /\ NameOf(x) \in b.writes
  /\ \A v, w \in V : Alike(b.reads, v, w) => op[v][x] = op[w][x]

\* The valuations that n operations lead through, one after the other.
IsTrace(n, ops, v, f) ==
  /\ f \in [0 .. n -> V] /\ f[0] = v
  /\ \A k \in 1 .. n : f[k] = ops[k][f[k - 1]]
Trace(n, ops, v) == CHOOSE f : IsTrace(n, ops, v, f)
After(n, ops, v) == Trace(n, ops, v)[n]

\* n operations lead somewhere.
LEMMA TraceIs ==
  ASSUME NEW n \in Nat, NEW ops, \A k \in 1 .. n : ops[k] \in [V -> V], NEW v \in V
  PROVE  IsTrace(n, ops, v, Trace(n, ops, v))
<1> DEFINE g == [x \in V \X (1 .. n) |-> ops[x[2]][x[1]]]
<1>1. g \in [V \X (1 .. n) -> V] OBVIOUS
<1>2. \A w \in V, k \in 1 .. n : g[<<w, k>>] = ops[k][w] OBVIOUS
<1> HIDE DEF g
<1>3. PICK f \in [0 .. n -> V] : FoldsTo(f, n, v, g) BY <1>1, FoldExists
<1>4. ASSUME NEW k \in 1 .. n PROVE f[k] = ops[k][f[k - 1]]
  <2>1. k - 1 \in 0 .. n OBVIOUS
  <2>2. f[k - 1] \in V /\ f[k] = g[<<f[k - 1], k>>] BY <1>3, <2>1 DEF FoldsTo
  <2> QED BY <1>2, <2>2
<1>5. IsTrace(n, ops, v, f) BY <1>3, <1>4 DEF IsTrace, FoldsTo
<1> QED BY <1>5 DEF Trace

\* The valuations that blocks lead through; blocks a+1 to b do not write a bit.
Traced(n, blocks, ops, v, f) ==
  IsTrace(n, ops, v, f) /\ \A k \in 1 .. n : OnlyWrites(blocks[k], ops[k])
Silent(blocks, x, a, b) == \A k \in a + 1 .. b : NameOf(x) \notin blocks[k].writes

\* What nobody writes from one place to another stays what it is.
LEMMA Kept ==
  ASSUME NEW n \in Nat, NEW blocks, NEW ops, NEW v, NEW f, Traced(n, blocks, ops, v, f),
         NEW x \in Bits, NEW a \in 0 .. n, NEW b \in a .. n, Silent(blocks, x, a, b)
  PROVE  f[a][x] = f[b][x]
<1> DEFINE T == {k \in 0 .. b - a : f[a + k][x] = f[a][x]}
<1>1. 0 \in T OBVIOUS
<1>2. ASSUME NEW k \in 1 .. b - a, k - 1 \in T PROVE k \in T
  <2>1. a + k \in a + 1 .. b /\ a + k \in 1 .. n /\ (a + k) - 1 = a + (k - 1) /\ a + (k - 1) \in 0 .. n
    OBVIOUS
  <2>2. f[a + k] = ops[a + k][f[a + (k - 1)]] /\ f[a + (k - 1)] \in V BY <2>1 DEF IsTrace, Traced
  <2>3. NameOf(x) \notin blocks[a + k].writes BY <2>1 DEF Silent
  <2>4. f[a + k][x] = f[a + (k - 1)][x] BY <2>1, <2>2, <2>3 DEF OnlyWrites, Traced
  <2> QED BY <1>2, <2>4
<1> HIDE DEF T
<1>3. b - a \in Nat /\ b - a \in 0 .. b - a OBVIOUS
<1>4. \A k \in 0 .. b - a : k \in T BY <1>1, <1>2, <1>3, UpTo
<1>5. b - a \in T BY <1>3, <1>4
<1>6. a + (b - a) = b OBVIOUS
<1> QED BY <1>5, <1>6 DEF T

\* Nodes and the order in which they all are.
Sorted(n, nodes, locals, order) ==
  AreNodes(nodes, n) /\ order = KahnOrder(SortEdges(nodes, locals)) /\ Len(order) = n

\* Where the nodes are: readers of a signal behind all that write it, the writers
\* of a name and the readers of a local variable in the order of the source.
LEMMA PlacesFollow ==
  ASSUME NEW n \in Nat, NEW nodes, NEW locals, NEW order, Sorted(n, nodes, locals, order),
         Lawful(n, nodes, locals)
  PROVE  /\ \A i \in 1 .. n : PlaceOf(order, i) \in 1 .. n /\ order[PlaceOf(order, i)] = i
         /\ \A p \in 1 .. n : order[p] \in 1 .. n /\ PlaceOf(order, order[p]) = p
         /\ \A i, j \in 1 .. n : (nodes[j].reads \cap nodes[i].writes) \ locals # {}
                                   => PlaceOf(order, i) < PlaceOf(order, j)
         /\ \A i, j \in 1 .. n : i < j /\ nodes[i].writes \cap InOrder(nodes[j], locals) # {}
                                   => PlaceOf(order, i) < PlaceOf(order, j)
<1>1. Placed(n, order)
  <2>1. SortEdges(nodes, locals) \in Edges(n) BY SortEdgesAre DEF Sorted
  <2> QED BY <2>1, KahnIs DEF Sorted
<1>2. /\ \A i \in 1 .. n : PlaceOf(order, i) \in 1 .. n /\ order[PlaceOf(order, i)] = i
      /\ \A p \in 1 .. n : order[p] \in 1 .. n /\ PlaceOf(order, order[p]) = p
  BY <1>1, PlacesOf DEF Sorted
<1>3. \A p, q \in 1 .. n : /\ p # q => ReadsLater(nodes, locals, order, p, q)
                           /\ KeepsOrder(nodes, locals, order, p, q)
  BY SortIsRight DEF Sorted
<1>4. DOMAIN nodes = 1 .. n BY DEF Sorted, AreNodes
<1>5. ASSUME NEW i \in 1 .. n, NEW j \in 1 .. n, NEW s \in (nodes[j].reads \cap nodes[i].writes) \ locals
      PROVE  PlaceOf(order, i) < PlaceOf(order, j)
  <2>1. \A k \in Writers(nodes, s) : nodes[k].bid = nodes[i].bid
    BY <1>4 DEF Writers, Lawful
  <2>2. i # j BY DEF Lawful
  <2>3. PlaceOf(order, i) # PlaceOf(order, j) BY <1>2, <2>2
  <2>4. ReadsLater(nodes, locals, order, PlaceOf(order, j), PlaceOf(order, i))
    BY <1>2, <1>3, <2>3
  <2> QED BY <1>2, <2>1, <2>4 DEF ReadsLater
<1>6. ASSUME NEW i \in 1 .. n, NEW j \in 1 .. n, i < j,
             NEW s \in nodes[i].writes \cap InOrder(nodes[j], locals)
      PROVE  PlaceOf(order, i) < PlaceOf(order, j)
  <2>1. nodes[i].bid = nodes[j].bid BY <1>6 DEF Lawful, InOrder
  <2>2. KeepsOrder(nodes, locals, order, PlaceOf(order, j), PlaceOf(order, i))
    BY <1>2, <1>3
  <2> QED BY <1>2, <1>6, <2>1, <2>2 DEF KeepsOrder
<1> QED BY <1>2, <1>5, <1>6

-------------------------------------------------------------------------------
(* One pass of the Python simulation over the statements of the module: a  *)
(* signal that a statement reads is as it was before the pass, what it     *)
(* assigns (a slice keeps the other bits) and the locals are as in the     *)
(* pass.                                                                   *)
Seen(b, locals, F, g) ==
  [x \in Bits |-> IF NameOf(x) \in locals \cup b.writes THEN g[x] ELSE F[x]]
SourceOp(b, locals, op, F) ==
  [g \in V |-> [x \in Bits |-> IF NameOf(x) \in b.writes THEN op[Seen(b, locals, F, g)][x]
                                                         ELSE g[x]]]
SourceOps(nodes, locals, ops, F) ==
  [i \in DOMAIN nodes |-> SourceOp(nodes[i], locals, ops[i], F)]
AtRest(n, nodes, locals, ops, F) ==
  \A x \in Bits : NameOf(x) \notin locals =>
    After(n, SourceOps(nodes, locals, ops, F), F)[x] = F[x]

\* One evaluation of the C model: the same nodes, as they are sorted.
Sweep(ops, order) == [p \in DOMAIN order |-> ops[order[p]]]

\* The first i nodes give bit x a value whatever it was.
SetBy(nodes, ops, i, x) == \E k \in 1 .. i : Fixes(nodes[k], ops[k], x)
Undriven(n, nodes, x) == \A k \in 1 .. n : NameOf(x) \notin nodes[k].writes

\* No latch: all bits of a signal that is written are set, and a local variable
\* is set before it is read.
NoLatch(n, nodes, locals, ops) ==
  \A x \in Bits :
    \/ Undriven(n, nodes, x)
    \/ /\ NameOf(x) \notin locals => SetBy(nodes, ops, n, x)
       /\ \A i \in 1 .. n : NameOf(x) \in nodes[i].reads \cap locals => SetBy(nodes, ops, i - 1, x)

\* What a node of the source pass does.
LEMMA SourceStep ==
  ASSUME NEW locals, NEW F \in V, NEW b, NEW op, Obeys(b, op), NEW g \in V
  PROVE  /\ Seen(b, locals, F, g) \in V
         /\ SourceOp(b, locals, op, F)[g] \in V
         /\ \A x \in Bits : SourceOp(b, locals, op, F)[g][x]
              = IF NameOf(x) \in b.writes THEN op[Seen(b, locals, F, g)][x] ELSE g[x]
<1>1. Seen(b, locals, F, g) \in V BY DEF Seen, V
<1>2. op[Seen(b, locals, F, g)] \in V BY <1>1 DEF Obeys, OnlyWrites
<1>3. [x \in Bits |-> IF NameOf(x) \in b.writes THEN op[Seen(b, locals, F, g)][x] ELSE g[x]] \in V
  BY <1>2 DEF V
<1>4. SourceOp(b, locals, op, F)[g]
        = [x \in Bits |-> IF NameOf(x) \in b.writes THEN op[Seen(b, locals, F, g)][x] ELSE g[x]]
  BY DEF SourceOp
<1> QED BY <1>1, <1>3, <1>4

\* A node of the source pass writes what the node writes.
LEMMA SourceWrites ==
  ASSUME NEW locals, NEW F \in V, NEW b, NEW op, Obeys(b, op)
  PROVE  OnlyWrites(b, SourceOp(b, locals, op, F))
<1> DEFINE so == SourceOp(b, locals, op, F)
<1>1. \A g \in V : so[g] \in V BY SourceStep
<1>2. so = [g \in V |-> so[g]] BY DEF SourceOp
<1>3. \A g \in V, x \in Bits : NameOf(x) \notin b.writes => so[g][x] = g[x] BY SourceStep
<1> HIDE DEF so
<1>4. so \in [V -> V] BY <1>1, <1>2
<1> QED BY <1>3, <1>4 DEF OnlyWrites, so

(* A pass g of the source over F and the sweep f of the C model from v.    *)
Runs(n, nodes, locals, order, ops, F, g, v, f) ==
  /\ n \in Nat /\ F \in V /\ v \in V
  /\ Sorted(n, nodes, locals, order) /\ Lawful(n, nodes, locals)
  /\ \A i \in 1 .. n : Obeys(nodes[i], ops[i])
  /\ NoLatch(n, nodes, locals, ops)
  /\ IsTrace(n, SourceOps(nodes, locals, ops, F), F, g)
  /\ IsTrace(n, Sweep(ops, order), v, f)

\* The nodes as they are sorted.
Placement(nodes, order) == [p \in DOMAIN order |-> nodes[order[p]]]

\* Both write what their nodes write.
LEMMA RunsAreTraced ==
  ASSUME NEW n, NEW nodes, NEW locals, NEW order, NEW ops, NEW F, NEW g, NEW v, NEW f,
         Runs(n, nodes, locals, order, ops, F, g, v, f)
  PROVE  /\ Traced(n, nodes, SourceOps(nodes, locals, ops, F), F, g)
         /\ Traced(n, Placement(nodes, order), Sweep(ops, order), v, f)
         /\ DOMAIN nodes = 1 .. n /\ DOMAIN order = 1 .. n
<1>0. n \in Nat /\ F \in V /\ v \in V BY DEF Runs
<1> USE <1>0
<1>1. DOMAIN nodes = 1 .. n /\ DOMAIN order = 1 .. n
  <2>1. SortEdges(nodes, locals) \in Edges(n) BY SortEdgesAre DEF Sorted, Runs
  <2>2. Placed(n, order) BY <2>1, KahnIs DEF Sorted, Runs
  <2> QED BY <2>2, PlacesOf DEF Sorted, AreNodes, Runs
<1>2. \A k \in 1 .. n : OnlyWrites(nodes[k], SourceOps(nodes, locals, ops, F)[k])
  <2>1. \A k \in 1 .. n : SourceOps(nodes, locals, ops, F)[k] = SourceOp(nodes[k], locals, ops[k], F)
    BY <1>1 DEF SourceOps
  <2> QED BY <2>1, SourceWrites DEF Runs
<1>3. \A p \in 1 .. n : order[p] \in 1 .. n BY PlacesFollow DEF Runs
<1>4. \A p \in 1 .. n : Placement(nodes, order)[p] = nodes[order[p]] BY <1>1 DEF Placement
<1>5. \A p \in 1 .. n : OnlyWrites(Placement(nodes, order)[p], Sweep(ops, order)[p])
  BY <1>1, <1>3, <1>4 DEF Sweep, Obeys, Runs
<1> QED BY <1>1, <1>2, <1>5 DEF Traced, Runs

(* The last writer of a bit before node i: the pass and the sweep both     *)
(* leave the bit alone between the two.                                    *)
LEMMA LastWriter ==
  ASSUME NEW n, NEW nodes, NEW locals, NEW order, NEW ops, NEW F, NEW g, NEW v, NEW f,
         Runs(n, nodes, locals, order, ops, F, g, v, f),
         NEW i \in 1 .. n, NEW x \in Bits,
         NameOf(x) \in InOrder(nodes[i], locals), SetBy(nodes, ops, i - 1, x)
  PROVE  \E m \in 1 .. i - 1 :
           /\ NameOf(x) \in nodes[m].writes /\ SetBy(nodes, ops, m, x)
           /\ PlaceOf(order, m) < PlaceOf(order, i)
           /\ g[i - 1][x] = g[m][x]
           /\ f[PlaceOf(order, i) - 1][x] = f[PlaceOf(order, m)][x]
<1>0. n \in Nat /\ F \in V /\ v \in V BY DEF Runs
<1> USE <1>0
<1> DEFINE P(k) == PlaceOf(order, k)
           W == {k \in 1 .. i - 1 : NameOf(x) \in nodes[k].writes}
<1>1. PICK k \in 1 .. i - 1 : Fixes(nodes[k], ops[k], x) BY DEF SetBy
<1>2. k \in W BY <1>1 DEF Fixes
<1>3. W \in SUBSET (1 .. i - 1) /\ i - 1 \in Nat /\ i - 1 \in 0 .. n OBVIOUS
<1>4. \E m \in W : \A j \in W : j <= m
  <2> HIDE DEF W
  <2> QED BY <1>2, <1>3, LargestIn
<1>5. PICK m \in W : \A j \in W : j <= m BY <1>4
<1>6. m \in 1 .. i - 1 /\ m \in 1 .. n /\ NameOf(x) \in nodes[m].writes OBVIOUS
<1>7. SetBy(nodes, ops, m, x)
  <2>1. k \in 1 .. m BY <1>2, <1>5
  <2> QED BY <1>1, <2>1 DEF SetBy
<1>8. P(m) \in 1 .. n /\ P(i) \in 1 .. n /\ order[P(i)] = i /\ order[P(m)] = m
  BY <1>6, PlacesFollow DEF Runs
<1>9. P(m) < P(i)
  <2>1. NameOf(x) \in nodes[m].writes \cap InOrder(nodes[i], locals) /\ m < i BY <1>6
  <2> QED BY <1>6, <2>1, PlacesFollow DEF Runs
<1>10. g[i - 1][x] = g[m][x]
  <2>1. Silent(nodes, x, m, i - 1) BY <1>5, <1>6 DEF Silent
  <2>2. m \in 0 .. n /\ i - 1 \in m .. n BY <1>6
  <2>3. Traced(n, nodes, SourceOps(nodes, locals, ops, F), F, g) BY RunsAreTraced
  <2> HIDE DEF W
  <2> QED BY <2>1, <2>2, <2>3, Kept
<1>11. f[P(i) - 1][x] = f[P(m)][x]
  <2>1. ASSUME NEW p \in P(m) + 1 .. P(i) - 1, NameOf(x) \in nodes[order[p]].writes PROVE FALSE
    <3> DEFINE q == order[p]
    <3>1. p \in 1 .. n /\ P(m) < p /\ p < P(i) BY <1>8
    <3>2. q \in 1 .. n /\ P(q) = p BY <3>1, PlacesFollow DEF Runs
    <3>3. q # i /\ q # m BY <3>1, <3>2
    <3>4. NameOf(x) \in nodes[q].writes BY <2>1
    <3> HIDE DEF q
    <3>5. CASE q < m
      <4>1. NameOf(x) \in nodes[q].writes \cap InOrder(nodes[m], locals) BY <1>6, <3>4 DEF InOrder
      <4>2. P(q) < P(m) BY <1>6, <3>2, <3>5, <4>1, PlacesFollow DEF Runs
      <4> QED BY <1>8, <3>1, <3>2, <4>2
    <3>6. CASE m < q /\ q < i
      <4>1. q \in W BY <3>2, <3>4, <3>6
      <4> QED BY <1>5, <3>6, <4>1
    <3>7. CASE i < q
      <4>1. NameOf(x) \in nodes[i].writes BY <3>2, <3>4, <3>7 DEF InOrder, Lawful, Runs
      <4>2. NameOf(x) \in nodes[i].writes \cap InOrder(nodes[q], locals) BY <3>4, <4>1 DEF InOrder
      <4>3. P(i) < P(q) BY <3>2, <3>7, <4>2, PlacesFollow DEF Runs
      <4> QED BY <1>8, <3>1, <3>2, <4>3
    <3> QED BY <1>6, <3>2, <3>3, <3>5, <3>6, <3>7
  <2>2. P(m) \in 0 .. n /\ P(i) - 1 \in P(m) .. n BY <1>8, <1>9
  <2>3. Traced(n, Placement(nodes, order), Sweep(ops, order), v, f) BY RunsAreTraced
  <2>4. Silent(Placement(nodes, order), x, P(m), P(i) - 1)
    <3>1. \A p \in 1 .. n : Placement(nodes, order)[p] = nodes[order[p]]
      <4>1. DOMAIN order = 1 .. n BY RunsAreTraced
      <4> QED BY <4>1 DEF Placement
    <3>2. \A p \in P(m) + 1 .. P(i) - 1 : p \in 1 .. n BY <1>8
    <3> HIDE DEF P, W
    <3> QED BY <2>1, <3>1, <3>2 DEF Silent
  <2> HIDE DEF W, P
  <2> QED BY <2>2, <2>3, <2>4, Kept
<1> QED BY <1>6, <1>7, <1>9, <1>10, <1>11

\* They agree on what node i writes.
AgreeAt(nodes, order, ops, g, f, i) ==
  \A x \in Bits : NameOf(x) \in nodes[i].writes /\ SetBy(nodes, ops, i, x) =>
    g[i][x] = f[PlaceOf(order, i)][x]

(* If the signals that node i reads are in F what the sweep has made of    *)
(* them, and they agree on the nodes before it, they agree on node i.      *)
LEMMA AgreeStep ==
  ASSUME NEW n, NEW nodes, NEW locals, NEW order, NEW ops, NEW F, NEW g, NEW v, NEW f,
         Runs(n, nodes, locals, order, ops, F, g, v, f), NEW i \in 1 .. n,
         Alike(nodes[i].reads \ locals, F, f[PlaceOf(order, i) - 1]),
         \A m \in 1 .. i - 1 : PlaceOf(order, m) < PlaceOf(order, i)
                                 => AgreeAt(nodes, order, ops, g, f, m),
         \A x \in Bits : NameOf(x) \in locals /\ Undriven(n, nodes, x) => F[x] = v[x]
  PROVE  AgreeAt(nodes, order, ops, g, f, i)
<1>0. n \in Nat /\ F \in V /\ v \in V BY DEF Runs
<1> USE <1>0
<1> DEFINE p == PlaceOf(order, i)
           b == nodes[i]
           old == g[i - 1]
           seen == Seen(b, locals, F, old)
           held == f[p - 1]
<1>1. p \in 1 .. n /\ order[p] = i /\ i - 1 \in 0 .. n /\ p - 1 \in 0 .. n
  BY PlacesFollow DEF Runs
<1>2. DOMAIN nodes = 1 .. n BY DEF Runs, Sorted, AreNodes
<1>3. DOMAIN order = 1 .. n
  <2>1. SortEdges(nodes, locals) \in Edges(n) BY SortEdgesAre DEF Sorted, Runs
  <2>2. Placed(n, order) BY <2>1, KahnIs DEF Sorted, Runs
  <2> QED BY <2>2, PlacesOf DEF Sorted, Runs
<1>4. old \in V /\ held \in V /\ seen \in V
  <2>1. old \in V /\ held \in V BY <1>1 DEF Runs, IsTrace
  <2> HIDE DEF old
  <2>2. Obeys(b, ops[i]) BY DEF Runs
  <2> QED BY <2>1, <2>2, SourceStep
<1>5. g[i] = SourceOps(nodes, locals, ops, F)[i][old] /\ f[p] = ops[i][held]
  BY <1>1, <1>3 DEF Runs, IsTrace, Sweep
<1>6. \A x \in Bits : NameOf(x) \in b.writes => g[i][x] = ops[i][seen][x]
  <2>1. Obeys(b, ops[i]) /\ SourceOps(nodes, locals, ops, F)[i] = SourceOp(b, locals, ops[i], F)
    BY <1>2 DEF SourceOps, Runs
  <2> HIDE DEF b, old
  <2> QED BY <1>4, <1>5, <2>1, SourceStep
<1>7. ASSUME NEW x \in Bits, NameOf(x) \in InOrder(b, locals), SetBy(nodes, ops, i - 1, x)
      PROVE  old[x] = held[x]
  <2>1. PICK m \in 1 .. i - 1 :
           /\ NameOf(x) \in nodes[m].writes /\ SetBy(nodes, ops, m, x)
           /\ PlaceOf(order, m) < PlaceOf(order, i)
           /\ g[i - 1][x] = g[m][x]
           /\ f[PlaceOf(order, i) - 1][x] = f[PlaceOf(order, m)][x]
    BY <1>7, LastWriter DEF Runs
  <2>2. g[m][x] = f[PlaceOf(order, m)][x] BY <2>1 DEF AgreeAt
  <2> QED BY <2>1, <2>2
<1>8. ASSUME NEW x \in Bits, NameOf(x) \in b.reads PROVE seen[x] = held[x]
  <2>1. CASE NameOf(x) \notin locals
    <3>1. NameOf(x) \notin b.writes BY <1>8, <2>1 DEF Lawful, Runs
    <3>2. F[x] = held[x] BY <1>8, <2>1 DEF Alike
    <3> QED BY <2>1, <3>1, <3>2 DEF Seen
  <2>2. CASE NameOf(x) \in locals /\ Undriven(n, nodes, x)
    <3>1. i - 1 \in 0 .. n /\ p - 1 \in 0 .. n /\ 0 \in 0 .. n BY <1>1
    <3>2. g[0][x] = g[i - 1][x]
      <4>1. Silent(nodes, x, 0, i - 1) BY <2>2 DEF Undriven, Silent
      <4>2. Traced(n, nodes, SourceOps(nodes, locals, ops, F), F, g) BY RunsAreTraced
      <4> QED BY <3>1, <4>1, <4>2, Kept
    <3>3. f[0][x] = f[p - 1][x]
      <4>1. \A k \in 1 .. n : order[k] \in 1 .. n BY PlacesFollow DEF Runs
      <4>2. \A k \in 0 + 1 .. p - 1 : k \in 1 .. n BY <1>1
      <4>3. \A k \in 1 .. n : Placement(nodes, order)[k] = nodes[order[k]] BY <1>3 DEF Placement
      <4>4. Silent(Placement(nodes, order), x, 0, p - 1)
        BY <2>2, <4>1, <4>2, <4>3 DEF Undriven, Silent
      <4>5. Traced(n, Placement(nodes, order), Sweep(ops, order), v, f) BY RunsAreTraced
      <4> HIDE DEF p
      <4> QED BY <3>1, <4>4, <4>5, Kept
    <3>4. g[0] = F /\ f[0] = v BY DEF Runs, IsTrace
    <3>5. seen[x] = old[x] BY <2>2 DEF Seen
    <3> QED BY <2>2, <3>2, <3>3, <3>4, <3>5
  <2>3. CASE NameOf(x) \in locals /\ ~Undriven(n, nodes, x)
    <3>1. SetBy(nodes, ops, i - 1, x) BY <1>8, <2>3 DEF NoLatch, Runs
    <3>2. NameOf(x) \in InOrder(b, locals) BY <1>8, <2>3 DEF InOrder
    <3>3. old[x] = held[x] BY <1>7, <3>1, <3>2
    <3>4. seen[x] = old[x] BY <2>3 DEF Seen
    <3> QED BY <3>3, <3>4
  <2> QED BY <2>1, <2>2, <2>3
<1> HIDE DEF seen, held
<1>9. Alike(b.reads, seen, held) BY <1>8 DEF Alike
<1>10. ASSUME NEW x \in Bits, NameOf(x) \in b.writes, SetBy(nodes, ops, i, x)
       PROVE  g[i][x] = f[p][x]
  <2>1. CASE Fixes(b, ops[i], x)
    <3>1. ops[i][seen][x] = ops[i][held][x] BY <1>4, <1>9, <2>1 DEF Fixes
    <3> QED BY <1>5, <1>6, <1>10, <3>1
  <2>2. CASE ~Fixes(b, ops[i], x)
    <3>1. PICK k \in 1 .. i : Fixes(nodes[k], ops[k], x) BY <1>10 DEF SetBy
    <3>2. k \in 1 .. i - 1 BY <2>2, <3>1
    <3>3. SetBy(nodes, ops, i - 1, x) BY <3>1, <3>2 DEF SetBy
    <3>4. old[x] = held[x] BY <1>7, <1>10, <3>3 DEF InOrder
    <3>5. seen[x] = held[x] BY <1>10, <3>4 DEF seen, Seen
    <3>6. ops[i][seen][x] = ops[i][held][x] BY <1>4, <1>9, <1>10, <3>5 DEF Runs, Obeys
    <3> QED BY <1>5, <1>6, <1>10, <3>6
  <2> QED BY <2>1, <2>2
<1> QED BY <1>10 DEF AgreeAt

\* A bit that no node writes is what it was, in the pass and in the sweep.
LEMMA UndrivenStays ==
  ASSUME NEW n, NEW nodes, NEW locals, NEW order, NEW ops, NEW F, NEW g, NEW v, NEW f,
         Runs(n, nodes, locals, order, ops, F, g, v, f),
         NEW x \in Bits, Undriven(n, nodes, x), NEW k \in 0 .. n
  PROVE  g[k][x] = F[x] /\ f[k][x] = v[x]
<1>0. n \in Nat /\ F \in V /\ v \in V BY DEF Runs
<1> USE <1>0
<1>1. 0 \in 0 .. n /\ g[0] = F /\ f[0] = v BY DEF Runs, IsTrace
<1>2. g[0][x] = g[k][x]
  <2>1. Silent(nodes, x, 0, k) BY DEF Undriven, Silent
  <2>2. Traced(n, nodes, SourceOps(nodes, locals, ops, F), F, g) BY RunsAreTraced
  <2> QED BY <1>1, <2>1, <2>2, Kept
<1>3. f[0][x] = f[k][x]
  <2>1. \A q \in 1 .. n : order[q] \in 1 .. n BY PlacesFollow DEF Runs
  <2>2. \A q \in 0 + 1 .. k : q \in 1 .. n OBVIOUS
  <2>3. DOMAIN order = 1 .. n BY RunsAreTraced
  <2>4. \A q \in 1 .. n : Placement(nodes, order)[q] = nodes[order[q]] BY <2>3 DEF Placement
  <2>5. Silent(Placement(nodes, order), x, 0, k) BY <2>1, <2>2, <2>4 DEF Undriven, Silent
  <2>6. Traced(n, Placement(nodes, order), Sweep(ops, order), v, f) BY RunsAreTraced
  <2> QED BY <1>1, <2>5, <2>6, Kept
<1> QED BY <1>1, <1>2, <1>3

\* Node m writes bit x last, in the pass and in the sweep, and before its readers.
IsLast(n, nodes, order, ops, g, f, x, m) ==
  /\ NameOf(x) \in nodes[m].writes /\ SetBy(nodes, ops, m, x)
  /\ g[n][x] = g[m][x]
  /\ \A p \in PlaceOf(order, m) .. n : f[p][x] = f[PlaceOf(order, m)][x]
  /\ \A i \in 1 .. n : NameOf(x) \in nodes[i].reads => PlaceOf(order, m) < PlaceOf(order, i)

(* The last writer of a signal in the source is the last in the order too, *)
(* and all that read the signal are behind it.                             *)
LEMMA LastOfAll ==
  ASSUME NEW n, NEW nodes, NEW locals, NEW order, NEW ops, NEW F, NEW g, NEW v, NEW f,
         Runs(n, nodes, locals, order, ops, F, g, v, f),
         NEW x \in Bits, NameOf(x) \notin locals, ~Undriven(n, nodes, x)
  PROVE  \E m \in 1 .. n : IsLast(n, nodes, order, ops, g, f, x, m)
<1>0. n \in Nat /\ F \in V /\ v \in V BY DEF Runs
<1> USE <1>0
<1> DEFINE P(k) == PlaceOf(order, k)
           W == {k \in 1 .. n : NameOf(x) \in nodes[k].writes}
<1>1. PICK e \in 1 .. n : NameOf(x) \in nodes[e].writes BY DEF Undriven
<1>2. e \in W /\ W \in SUBSET (1 .. n) BY <1>1
<1>3. \E m \in W : \A j \in W : j <= m
  <2> HIDE DEF W
  <2> QED BY <1>2, LargestIn
<1>4. PICK m \in W : \A j \in W : j <= m BY <1>3
<1>5. m \in 1 .. n /\ NameOf(x) \in nodes[m].writes OBVIOUS
<1>6. SetBy(nodes, ops, m, x)
  <2>1. SetBy(nodes, ops, n, x) BY DEF NoLatch, Runs
  <2>2. PICK k \in 1 .. n : Fixes(nodes[k], ops[k], x) BY <2>1 DEF SetBy
  <2>3. k \in 1 .. m BY <1>4, <2>2 DEF Fixes
  <2> QED BY <2>2, <2>3 DEF SetBy
<1>7. P(m) \in 1 .. n BY <1>5, PlacesFollow DEF Runs
<1>8. g[n][x] = g[m][x]
  <2>1. Silent(nodes, x, m, n) BY <1>4, <1>5 DEF Silent
  <2>2. m \in 0 .. n /\ n \in m .. n BY <1>5
  <2>3. Traced(n, nodes, SourceOps(nodes, locals, ops, F), F, g) BY RunsAreTraced
  <2> HIDE DEF W
  <2> QED BY <2>1, <2>2, <2>3, Kept
<1>9. ASSUME NEW p \in P(m) .. n PROVE f[p][x] = f[P(m)][x]
  <2>1. ASSUME NEW q \in P(m) + 1 .. p, NameOf(x) \in nodes[order[q]].writes PROVE FALSE
    <3> DEFINE k == order[q]
    <3>1. q \in 1 .. n BY <1>7
    <3>2. k \in 1 .. n /\ P(k) = q BY <3>1, PlacesFollow DEF Runs
    <3>3. NameOf(x) \in nodes[k].writes BY <2>1
    <3> HIDE DEF k
    <3>4. k \in W /\ k <= m BY <1>4, <3>2, <3>3
    <3>5. k # m BY <1>7, <3>2
    <3>6. k < m BY <1>5, <3>2, <3>4, <3>5
    <3>7. NameOf(x) \in nodes[k].writes \cap InOrder(nodes[m], locals) BY <1>5, <3>3 DEF InOrder
    <3>8. P(k) < P(m) BY <1>5, <3>2, <3>6, <3>7, PlacesFollow DEF Runs
    <3> QED BY <1>7, <3>1, <3>2, <3>8
  <2>2. DOMAIN order = 1 .. n BY RunsAreTraced
  <2>3. \A q \in P(m) + 1 .. p : Placement(nodes, order)[q] = nodes[order[q]]
    <3>1. \A q \in P(m) + 1 .. p : q \in 1 .. n BY <1>7
    <3> QED BY <2>2, <3>1 DEF Placement
  <2> HIDE DEF P, W
  <2>4. Silent(Placement(nodes, order), x, P(m), p) BY <2>1, <2>3 DEF Silent
  <2>5. Traced(n, Placement(nodes, order), Sweep(ops, order), v, f) BY RunsAreTraced
  <2>6. P(m) \in 0 .. n /\ p \in P(m) .. n BY <1>7
  <2> QED BY <2>4, <2>5, <2>6, Kept
<1>10. ASSUME NEW i \in 1 .. n, NameOf(x) \in nodes[i].reads PROVE P(m) < P(i)
  <2>1. NameOf(x) \in (nodes[i].reads \cap nodes[m].writes) \ locals BY <1>5, <1>10
  <2> QED BY <1>5, <2>1, PlacesFollow DEF Runs
<1> QED BY <1>5, <1>6, <1>8, <1>9, <1>10 DEF IsLast

\* A run from its parts.
LEMMA RunExists ==
  ASSUME NEW n \in Nat, NEW nodes, NEW locals, NEW order, Sorted(n, nodes, locals, order),
         Lawful(n, nodes, locals), NEW ops, \A i \in 1 .. n : Obeys(nodes[i], ops[i]),
         NoLatch(n, nodes, locals, ops), NEW F \in V, NEW v \in V
  PROVE  Runs(n, nodes, locals, order, ops, F,
              Trace(n, SourceOps(nodes, locals, ops, F), F), v, Trace(n, Sweep(ops, order), v))
<1>1. DOMAIN nodes = 1 .. n /\ DOMAIN order = 1 .. n
  <2>1. SortEdges(nodes, locals) \in Edges(n) BY SortEdgesAre DEF Sorted
  <2>2. Placed(n, order) BY <2>1, KahnIs DEF Sorted
  <2> QED BY <2>2, PlacesOf DEF Sorted, AreNodes
<1>2. ASSUME NEW k \in 1 .. n PROVE SourceOps(nodes, locals, ops, F)[k] \in [V -> V]
  <2>1. SourceOps(nodes, locals, ops, F)[k] = SourceOp(nodes[k], locals, ops[k], F)
    BY <1>1 DEF SourceOps
  <2> QED BY <2>1, SourceWrites DEF OnlyWrites
<1>3. ASSUME NEW p \in 1 .. n PROVE Sweep(ops, order)[p] \in [V -> V]
  <2>1. order[p] \in 1 .. n BY PlacesFollow
  <2> QED BY <1>1, <2>1 DEF Sweep, Obeys, OnlyWrites
<1> DEFINE sops == SourceOps(nodes, locals, ops, F)
           cops == Sweep(ops, order)
<1>4. IsTrace(n, sops, F, Trace(n, sops, F))
  <2> HIDE DEF sops
  <2> QED BY <1>2, TraceIs DEF sops
<1>5. IsTrace(n, cops, v, Trace(n, cops, v))
  <2> HIDE DEF cops
  <2> QED BY <1>3, TraceIs DEF cops
<1> QED BY <1>4, <1>5 DEF Runs

(* What the sweep leaves is at rest: one more pass of the Python           *)
(* simulation changes no signal.                                           *)
LEMMA SweepRests ==
  ASSUME NEW n, NEW nodes, NEW locals, NEW order, NEW ops, NEW F, NEW g, NEW v, NEW f,
         Runs(n, nodes, locals, order, ops, F, g, v, f), \A y \in Bits : F[y] = f[n][y],
         NEW x \in Bits, NameOf(x) \notin locals
  PROVE  g[n][x] = F[x]
<1>0. n \in Nat /\ F \in V /\ v \in V BY DEF Runs
<1> USE <1>0
<1> DEFINE P(k) == PlaceOf(order, k)
           Bad == {i \in 1 .. n : ~AgreeAt(nodes, order, ops, g, f, i)}
<1>1. \A y \in Bits : Undriven(n, nodes, y) => F[y] = v[y]
  <2>1. n \in 0 .. n OBVIOUS
  <2> QED BY <2>1, UndrivenStays
<1>2. \A i \in 1 .. n : P(i) \in 1 .. n BY PlacesFollow DEF Runs
<1>3. ASSUME NEW i \in 1 .. n PROVE Alike(nodes[i].reads \ locals, F, f[P(i) - 1])
  <2> SUFFICES ASSUME NEW y \in Bits, NameOf(y) \in nodes[i].reads, NameOf(y) \notin locals
               PROVE  F[y] = f[P(i) - 1][y]
    BY DEF Alike
  <2>1. P(i) - 1 \in 0 .. n BY <1>2
  <2>2. CASE Undriven(n, nodes, y)
    <3> HIDE DEF P
    <3> QED BY <1>1, <2>1, <2>2, UndrivenStays
  <2>3. CASE ~Undriven(n, nodes, y)
    <3>1. PICK m \in 1 .. n : IsLast(n, nodes, order, ops, g, f, y, m)
      BY <2>3, LastOfAll
    <3>2. P(i) - 1 \in P(m) .. n /\ n \in P(m) .. n BY <1>2, <3>1 DEF IsLast
    <3> QED BY <3>1, <3>2 DEF IsLast
  <2> QED BY <2>2, <2>3
<1>4. \A i \in 1 .. n : AgreeAt(nodes, order, ops, g, f, i)
  <2>1. SUFFICES ASSUME NEW e \in Bad PROVE FALSE OBVIOUS
  <2>2. Bad \subseteq Nat OBVIOUS
  <2>3. PICK i \in Bad : \A j \in Bad : i <= j
    <3> HIDE DEF Bad
    <3> QED BY <2>2, SmallestOf
  <2>4. i \in 1 .. n /\ ~AgreeAt(nodes, order, ops, g, f, i) OBVIOUS
  <2>5. \A m \in 1 .. i - 1 : AgreeAt(nodes, order, ops, g, f, m)
    <3>1. \A m \in 1 .. i - 1 : m \in 1 .. n /\ ~(i <= m) BY <2>4
    <3> QED BY <2>3, <3>1
  <2>6. Alike(nodes[i].reads \ locals, F, f[PlaceOf(order, i) - 1]) BY <1>3, <2>4
  <2> HIDE DEF Bad
  <2>7. AgreeAt(nodes, order, ops, g, f, i)
    <3>1. /\ Runs(n, nodes, locals, order, ops, F, g, v, f) /\ i \in 1 .. n
          /\ \A m \in 1 .. i - 1 : PlaceOf(order, m) < PlaceOf(order, i)
                                   => AgreeAt(nodes, order, ops, g, f, m)
          /\ \A y \in Bits : NameOf(y) \in locals /\ Undriven(n, nodes, y) => F[y] = v[y]
      BY <1>1, <2>4, <2>5
    <3> QED BY ONLY <2>6, <3>1, AgreeStep
  <2> QED BY <2>4, <2>7
<1>5. CASE Undriven(n, nodes, x)
  <2>1. n \in 0 .. n OBVIOUS
  <2> QED BY <1>5, <2>1, UndrivenStays
<1>6. CASE ~Undriven(n, nodes, x)
  <2>1. PICK m \in 1 .. n : IsLast(n, nodes, order, ops, g, f, x, m)
    BY <1>6, LastOfAll
  <2>2. n \in PlaceOf(order, m) .. n BY <1>2
  <2>3. g[m][x] = f[PlaceOf(order, m)][x] BY <1>4, <2>1 DEF AgreeAt, IsLast
  <2> QED BY <2>1, <2>2, <2>3 DEF IsLast
<1> QED BY <1>5, <1>6

\* Two runs at rest from the same inputs and registers end alike.
LEMMA RestIsUnique ==
  ASSUME NEW n, NEW nodes, NEW locals, NEW order, NEW ops, NEW F, NEW g, NEW v, NEW f,
         Runs(n, nodes, locals, order, ops, F, g, v, f),
         \A x \in Bits : NameOf(x) \notin locals => g[n][x] = F[x],
         \A x \in Bits : Undriven(n, nodes, x) => F[x] = v[x],
         NEW x \in Bits, NameOf(x) \notin locals
  PROVE  F[x] = f[n][x]
<1>0. n \in Nat /\ F \in V /\ v \in V BY DEF Runs
<1> USE <1>0
<1> DEFINE P(k) == PlaceOf(order, k)
           Bad == {p \in 1 .. n : ~AgreeAt(nodes, order, ops, g, f, order[p])}
<1>1. \A i \in 1 .. n : P(i) \in 1 .. n /\ order[P(i)] = i BY PlacesFollow DEF Runs
<1>2. \A p \in 1 .. n : order[p] \in 1 .. n /\ P(order[p]) = p BY PlacesFollow DEF Runs
<1>3. ASSUME NEW i \in 1 .. n,
             \A m \in 1 .. n : P(m) < P(i) => AgreeAt(nodes, order, ops, g, f, m)
      PROVE  AgreeAt(nodes, order, ops, g, f, i)
  <2>1. P(i) - 1 \in 0 .. n BY <1>1
  <2>2. ASSUME NEW y \in Bits, NameOf(y) \in nodes[i].reads, NameOf(y) \notin locals
        PROVE  F[y] = f[P(i) - 1][y]
    <3>1. CASE Undriven(n, nodes, y)
      <4> HIDE DEF P
      <4> QED BY <2>1, <3>1, UndrivenStays
    <3>2. CASE ~Undriven(n, nodes, y)
      <4>1. PICK m \in 1 .. n : IsLast(n, nodes, order, ops, g, f, y, m)
        BY <2>2, <3>2, LastOfAll
      <4>2. P(i) - 1 \in P(m) .. n BY <1>1, <2>2, <4>1 DEF IsLast
      <4>3. g[m][y] = f[PlaceOf(order, m)][y] BY <1>3, <2>2, <4>1 DEF AgreeAt, IsLast
      <4> QED BY <2>2, <4>1, <4>2, <4>3 DEF IsLast
    <3> QED BY <3>1, <3>2
  <2>3. Alike(nodes[i].reads \ locals, F, f[PlaceOf(order, i) - 1]) BY <2>2 DEF Alike
  <2>4. \A m \in 1 .. i - 1 : m \in 1 .. n OBVIOUS
  <2>5. /\ Runs(n, nodes, locals, order, ops, F, g, v, f)
        /\ \A m \in 1 .. i - 1 : PlaceOf(order, m) < PlaceOf(order, i)
                                 => AgreeAt(nodes, order, ops, g, f, m)
        /\ \A y \in Bits : NameOf(y) \in locals /\ Undriven(n, nodes, y) => F[y] = v[y]
    BY <1>3, <2>4
  <2> QED BY ONLY i \in 1 .. n, <2>3, <2>5, AgreeStep
<1>4. \A i \in 1 .. n : AgreeAt(nodes, order, ops, g, f, i)
  <2> SUFFICES ASSUME NEW d \in 1 .. n, ~AgreeAt(nodes, order, ops, g, f, d) PROVE FALSE
    OBVIOUS
  <2>1. P(d) \in Bad BY <1>1
  <2>2. Bad \subseteq Nat OBVIOUS
  <2>3. PICK p \in Bad : \A q \in Bad : p <= q
    <3> HIDE DEF Bad
    <3> QED BY <2>1, <2>2, SmallestOf
  <2>4. p \in 1 .. n /\ ~AgreeAt(nodes, order, ops, g, f, order[p]) OBVIOUS
  <2>5. order[p] \in 1 .. n /\ P(order[p]) = p BY <1>2, <2>4
  <2>6. \A m \in 1 .. n : P(m) < p => AgreeAt(nodes, order, ops, g, f, m)
    <3> SUFFICES ASSUME NEW m \in 1 .. n, P(m) < p, ~AgreeAt(nodes, order, ops, g, f, m) PROVE FALSE
      OBVIOUS
    <3>1. P(m) \in Bad BY <1>1
    <3>2. p <= P(m) BY <2>3, <3>1
    <3>3. P(m) \in 1 .. n BY <1>1
    <3> QED BY <2>4, <3>2, <3>3
  <2> HIDE DEF Bad, P
  <2>7. AgreeAt(nodes, order, ops, g, f, order[p]) BY <1>3, <2>5, <2>6
  <2> QED BY <2>4, <2>7
<1>5. CASE Undriven(n, nodes, x)
  <2>1. n \in 0 .. n OBVIOUS
  <2> QED BY <1>5, <2>1, UndrivenStays
<1>6. CASE ~Undriven(n, nodes, x)
  <2>1. PICK m \in 1 .. n : IsLast(n, nodes, order, ops, g, f, x, m)
    BY <1>6, LastOfAll
  <2>2. n \in PlaceOf(order, m) .. n BY <1>1
  <2>3. g[m][x] = f[PlaceOf(order, m)][x] BY <1>4, <2>1 DEF AgreeAt, IsLast
  <2> QED BY <2>1, <2>2, <2>3 DEF IsLast
<1> QED BY <1>5, <1>6

(* One evaluation of the C model settles: whatever the wires and variables *)
(* of v hold, it leaves the inputs and registers alone, and what it makes  *)
(* of the signals is at rest in the Python simulation of the source, and   *)
(* is the only rest with these inputs and registers.                       *)
THEOREM SweepSettles ==
  ASSUME NEW n \in Nat, NEW nodes, NEW locals, NEW order, Sorted(n, nodes, locals, order),
         Lawful(n, nodes, locals), NEW ops, \A i \in 1 .. n : Obeys(nodes[i], ops[i]),
         NoLatch(n, nodes, locals, ops), NEW v \in V,
         NEW w, w = After(n, Sweep(ops, order), v)
  PROVE  /\ w \in V /\ \A x \in Bits : Undriven(n, nodes, x) => w[x] = v[x]
         /\ AtRest(n, nodes, locals, ops, w)
         /\ \A F \in V : /\ AtRest(n, nodes, locals, ops, F)
                         /\ \A x \in Bits : Undriven(n, nodes, x) => F[x] = v[x]
                         => \A x \in Bits : NameOf(x) \notin locals => F[x] = w[x]
<1> DEFINE f == Trace(n, Sweep(ops, order), v)
           g(F) == Trace(n, SourceOps(nodes, locals, ops, F), F)
<1>1. \A F \in V : Runs(n, nodes, locals, order, ops, F, g(F), v, f) BY RunExists
<1>2. w = f[n] BY DEF After
<1>3. w \in V
  <2>1. n \in 0 .. n OBVIOUS
  <2>2. IsTrace(n, Sweep(ops, order), v, f) BY <1>1 DEF Runs
  <2> HIDE DEF f
  <2> QED BY <1>2, <2>1, <2>2 DEF IsTrace
<1> HIDE DEF f, g
<1>4. \A x \in Bits : Undriven(n, nodes, x) => w[x] = v[x]
  <2>1. n \in 0 .. n OBVIOUS
  <2>2. Runs(n, nodes, locals, order, ops, v, g(v), v, f) BY <1>1
  <2> QED BY <1>2, <2>1, <2>2, UndrivenStays
<1>5. AtRest(n, nodes, locals, ops, w)
  <2>1. ASSUME NEW F \in V, \A y \in Bits : F[y] = f[n][y], NEW x \in Bits, NameOf(x) \notin locals
        PROVE  g(F)[n][x] = F[x]
    <3>1. Runs(n, nodes, locals, order, ops, F, g(F), v, f) BY <1>1
    <3> QED BY <2>1, <3>1, SweepRests
  <2>2. \A x \in Bits : NameOf(x) \notin locals => g(w)[n][x] = w[x] BY <1>2, <1>3, <2>1
  <2> QED BY <2>2 DEF AtRest, After, g
<1>6. ASSUME NEW F \in V, AtRest(n, nodes, locals, ops, F),
             \A x \in Bits : Undriven(n, nodes, x) => F[x] = v[x],
             NEW x \in Bits, NameOf(x) \notin locals
      PROVE  F[x] = w[x]
  <2>1. Runs(n, nodes, locals, order, ops, F, g(F), v, f) BY <1>1
  <2>2. \A y \in Bits : NameOf(y) \notin locals => g(F)[n][y] = F[y]
    BY <1>6 DEF AtRest, After, g
  <2> QED BY <1>2, <1>6, <2>1, <2>2, RestIsUnique
<1> QED BY <1>3, <1>4, <1>5, <1>6

-------------------------------------------------------------------------------
(***************************************************************************)
(* The passes after the sort, on a list of blocks.                         *)
(***************************************************************************)
\* The places of Q alone, the others left out.
Id == [v \in V |-> v]
Only(n, ops, Q) == [p \in 1 .. n |-> IF p \in Q THEN ops[p] ELSE Id]

\* No block reads what a later one writes.
Forward(n, blocks) ==
  \A p \in 1 .. n : \A q \in p + 1 .. n : blocks[p].reads \cap blocks[q].writes = {}

\* The blocks of Q set one name each that nobody else writes.
Setters(n, blocks, ops, Q) ==
  \A q \in Q :
    /\ blocks[q].reads \cap blocks[q].writes = {}
    /\ \A p \in 1 .. n : p # q => blocks[p].writes \cap blocks[q].writes = {}
    /\ \A x \in Bits : NameOf(x) \in blocks[q].writes => Fixes(blocks[q], ops[q], x)
SetNames(blocks, Q) == UNION {blocks[q].writes : q \in Q}

\* A list of blocks with what they do.
Program(n, blocks, ops) ==
  /\ n \in Nat /\ Forward(n, blocks)
  /\ \A p \in 1 .. n : Obeys(blocks[p], ops[p])

\* Leaving blocks out leaves operations.
LEMMA OnlyIs ==
  ASSUME NEW n, NEW blocks, NEW ops, Program(n, blocks, ops), NEW Q
  PROVE  /\ \A p \in 1 .. n : OnlyWrites(blocks[p], Only(n, ops, Q)[p])
         /\ \A v \in V : Traced(n, blocks, Only(n, ops, Q), v, Trace(n, Only(n, ops, Q), v))
<1>1. OnlyWrites([writes |-> {}], Id) BY DEF OnlyWrites, Id
<1>2. ASSUME NEW p \in 1 .. n PROVE OnlyWrites(blocks[p], Only(n, ops, Q)[p])
  <2>1. CASE p \in Q BY <2>1 DEF Only, Program, Obeys
  <2>2. CASE p \notin Q
    <3>1. Only(n, ops, Q)[p] = Id BY <2>2 DEF Only
    <3> QED BY <3>1 DEF OnlyWrites, Id
  <2> QED BY <2>1, <2>2
<1>3. ASSUME NEW v \in V PROVE Traced(n, blocks, Only(n, ops, Q), v, Trace(n, Only(n, ops, Q), v))
  <2> DEFINE o == Only(n, ops, Q)
  <2>1. n \in Nat BY DEF Program
  <2>2. \A p \in 1 .. n : o[p] \in [V -> V] BY <1>2 DEF OnlyWrites
  <2>3. \A p \in 1 .. n : OnlyWrites(blocks[p], o[p]) BY <1>2
  <2> HIDE DEF o
  <2>4. IsTrace(n, o, v, Trace(n, o, v)) BY <2>1, <2>2, TraceIs
  <2> QED BY <2>3, <2>4 DEF Traced, o
<1> QED BY <1>2, <1>3

\* The list has run from v, as f; the setters of Q run again, as h, from what it
\* has made before place p, their own names aside.
Restarted(n, blocks, ops, Q, v, f, p, u, h) ==
  /\ Program(n, blocks, ops) /\ Q \in SUBSET (1 .. n) /\ Setters(n, blocks, ops, Q)
  /\ v \in V /\ Traced(n, blocks, ops, v, f) /\ u \in V
  /\ \A x \in Bits : NameOf(x) \notin SetNames(blocks, Q) => u[x] = f[p - 1][x]
  /\ Traced(n, blocks, Only(n, ops, Q), u, h)

(* Running the setters of Q over u, which is what the whole list has made  *)
(* before place p but for the names that they set, gives these too.        *)
LEMMA SubstitutedNames ==
  ASSUME NEW n, NEW blocks, NEW ops, NEW Q, NEW v, NEW f, NEW p \in 1 .. n + 1, NEW u, NEW h,
         Restarted(n, blocks, ops, Q, v, f, p, u, h)
  PROVE  /\ \A q \in Q : q < p => Alike(blocks[q].writes, h[n], f[p - 1])
         /\ \A x \in Bits : NameOf(x) \notin SetNames(blocks, Q) => h[n][x] = f[p - 1][x]
<1> Program(n, blocks, ops) /\ Q \in SUBSET (1 .. n) /\ Setters(n, blocks, ops, Q) /\ v \in V
    /\ Traced(n, blocks, ops, v, f) /\ u \in V /\ Traced(n, blocks, Only(n, ops, Q), u, h)
    /\ \A x \in Bits : NameOf(x) \notin SetNames(blocks, Q) => u[x] = f[p - 1][x]
  BY DEF Restarted
<1> DEFINE Bad == {q \in 1 .. n : q \in Q /\ q < p /\ ~Alike(blocks[q].writes, h[q], f[q])}
           bs == [k \in 1 .. n |-> [writes |-> IF k \in Q THEN blocks[k].writes ELSE {}]]
<1>0. n \in Nat /\ p - 1 \in 0 .. n /\ n \in 0 .. n BY DEF Program
<1>1. Traced(n, bs, Only(n, ops, Q), u, h)
  <2>1. ASSUME NEW k \in 1 .. n PROVE OnlyWrites(bs[k], Only(n, ops, Q)[k])
    <3>1. CASE k \in Q BY <3>1 DEF Only, Program, Obeys, OnlyWrites
    <3>2. CASE k \notin Q BY <3>2 DEF Only, OnlyWrites, Id
    <3> QED BY <3>1, <3>2
  <2> QED BY <2>1 DEF Traced
\* A name that no setter writes stays what u has.
<1>2. ASSUME NEW x \in Bits, NameOf(x) \notin SetNames(blocks, Q), NEW k \in 0 .. n
      PROVE  h[k][x] = u[x]
  <2>1. Silent(bs, x, 0, k)
    <3>1. \A q \in 1 .. n : NameOf(x) \notin bs[q].writes BY <1>2 DEF SetNames
    <3>2. \A q \in 0 + 1 .. k : q \in 1 .. n BY <1>0
    <3> HIDE DEF bs
    <3> QED BY <3>1, <3>2 DEF Silent
  <2>2. h[0] = u /\ 0 \in 0 .. n BY <1>0 DEF Traced, IsTrace
  <2> HIDE DEF bs
  <2>3. h[0][x] = h[k][x] BY <1>0, <1>1, <2>1, <2>2, Kept
  <2> QED BY <2>2, <2>3
\* What a setter writes stays, in both.
<1>3. ASSUME NEW q \in Q, NEW x \in Bits, NameOf(x) \in blocks[q].writes, NEW k \in q .. n
      PROVE  h[k][x] = h[q][x] /\ f[k][x] = f[q][x]
  <2>1. q \in 0 .. n /\ q \in 1 .. n BY <1>0
  <2>2. Silent(blocks, x, q, k) BY <1>0, <1>3, <2>1 DEF Silent, Setters
  <2>3. h[q][x] = h[k][x] BY <1>0, <2>1, <2>2, Kept
  <2>4. f[q][x] = f[k][x] BY <1>0, <2>1, <2>2, Kept
  <2> QED BY <2>3, <2>4
\* What a block before p reads, and does not write, stays until p.
<1>4. ASSUME NEW q \in 1 .. n, q <= p, NEW x \in Bits, NameOf(x) \in blocks[q].reads,
             q < p => NameOf(x) \notin blocks[q].writes
      PROVE  f[q - 1][x] = f[p - 1][x]
  <2>1. q - 1 \in 0 .. n /\ p - 1 \in q - 1 .. n BY <1>0, <1>4
  <2>2. Silent(blocks, x, q - 1, p - 1)
    <3>1. ASSUME NEW k \in (q - 1) + 1 .. p - 1 PROVE NameOf(x) \notin blocks[k].writes
      <4>1. CASE k = q BY <1>4, <4>1
      <4>2. CASE k # q
        <5>1. q \in 1 .. n /\ k \in q + 1 .. n BY <1>0, <4>2
        <5> QED BY <1>4, <5>1 DEF Program, Forward
      <4> QED BY <4>1, <4>2
    <3> QED BY <3>1 DEF Silent
  <2> QED BY <1>0, <2>1, <2>2, Kept
<1>5. \A q \in Q : q < p => Alike(blocks[q].writes, h[q], f[q])
  <2>1. SUFFICES ASSUME NEW e \in Bad PROVE FALSE OBVIOUS
  <2>2. Bad \subseteq Nat OBVIOUS
  <2>3. PICK q \in Bad : \A k \in Bad : q <= k
    <3> HIDE DEF Bad
    <3> QED BY <2>2, SmallestOf
  <2>4. q \in Q /\ q \in 1 .. n /\ q < p /\ ~Alike(blocks[q].writes, h[q], f[q]) OBVIOUS
  <2>5. q - 1 \in 0 .. n BY <1>0, <2>4
  <2>6. \A k \in Q : k < q => Alike(blocks[k].writes, h[k], f[k])
    <3> SUFFICES ASSUME NEW k \in Q, k < q, ~Alike(blocks[k].writes, h[k], f[k]) PROVE FALSE
      OBVIOUS
    <3>1. k \in Bad BY <1>0, <2>4
    <3>2. q <= k BY <2>3, <3>1
    <3> QED BY <2>4, <3>2
  <2> HIDE DEF Bad
  <2>7. ASSUME NEW y \in Bits, NameOf(y) \in blocks[q].reads PROVE h[q - 1][y] = f[q - 1][y]
    <3>1. CASE NameOf(y) \notin SetNames(blocks, Q)
      <4>1. h[q - 1][y] = u[y] BY <2>5, <3>1, <1>2
      <4>2. NameOf(y) \notin blocks[q].writes BY <2>4, <3>1 DEF SetNames
      <4>3. q \in 1 .. n /\ q <= p BY <2>4
      <4>4. f[q - 1][y] = f[p - 1][y] BY <2>7, <4>2, <4>3, <1>4
      <4> QED BY <3>1, <4>1, <4>4
    <3>2. CASE NameOf(y) \in SetNames(blocks, Q)
      <4>1. PICK k \in Q : NameOf(y) \in blocks[k].writes BY <3>2 DEF SetNames
      <4>2. k \in 1 .. n OBVIOUS
      <4>3. k # q BY <2>4, <2>7, <4>1 DEF Setters
      <4>4. ~(q < k)
        <5>1. q < k => k \in q + 1 .. n BY <2>4, <4>2
        <5> QED BY <2>4, <2>7, <4>1, <5>1 DEF Program, Forward
      <4>5. k < q BY <2>4, <4>2, <4>3, <4>4
      <4>6. h[k][y] = f[k][y] BY <2>6, <4>1, <4>5 DEF Alike
      <4>7. q - 1 \in k .. n BY <1>0, <2>4, <4>2, <4>5
      <4>8. h[q - 1][y] = h[k][y] /\ f[q - 1][y] = f[k][y] BY <1>3, <4>1, <4>7
      <4> QED BY <4>6, <4>8
    <3> QED BY <3>1, <3>2
  <2>8. h[q - 1] \in V /\ f[q - 1] \in V BY <2>5 DEF Traced, IsTrace
  <2>9. h[q] = ops[q][h[q - 1]] /\ f[q] = ops[q][f[q - 1]] BY <2>4 DEF Traced, IsTrace, Only
  <2>10. Alike(blocks[q].reads, h[q - 1], f[q - 1]) BY <2>7 DEF Alike
  <2>11. \A x \in Bits : NameOf(x) \in blocks[q].writes => Fixes(blocks[q], ops[q], x)
    BY <2>4 DEF Setters
  <2>12. \A x \in Bits : NameOf(x) \in blocks[q].writes => h[q][x] = f[q][x]
    BY <2>8, <2>9, <2>10, <2>11 DEF Fixes
  <2> QED BY <2>4, <2>12 DEF Alike
<1>6. ASSUME NEW x \in Bits, NameOf(x) \notin SetNames(blocks, Q) PROVE h[n][x] = f[p - 1][x]
  BY <1>0, <1>2, <1>6
<1>7. ASSUME NEW k \in Q, k < p, NEW x \in Bits, NameOf(x) \in blocks[k].writes
      PROVE  h[n][x] = f[p - 1][x]
  <2>1. h[k][x] = f[k][x] BY <1>5, <1>7 DEF Alike
  <2>2. p - 1 \in k .. n /\ n \in k .. n BY <1>0, <1>7
  <2>3. h[n][x] = h[k][x] /\ f[p - 1][x] = f[k][x] BY <1>3, <1>7, <2>2
  <2> QED BY <2>1, <2>3
<1> QED BY <1>6, <1>7 DEF Alike

\* So a block at p reads the same.
LEMMA SubstitutedReads ==
  ASSUME NEW n, NEW blocks, NEW ops, NEW Q, NEW v, NEW f, NEW p \in 1 .. n, NEW u, NEW h,
         Restarted(n, blocks, ops, Q, v, f, p, u, h)
  PROVE  /\ Alike(blocks[p].reads, h[n], f[p - 1])
         /\ \A x \in Bits : NameOf(x) \notin SetNames(blocks, Q) => h[n][x] = f[p - 1][x]
<1> Program(n, blocks, ops) /\ Q \in SUBSET (1 .. n) /\ Setters(n, blocks, ops, Q) /\ v \in V
    /\ Traced(n, blocks, ops, v, f) /\ u \in V /\ Traced(n, blocks, Only(n, ops, Q), u, h)
    /\ \A x \in Bits : NameOf(x) \notin SetNames(blocks, Q) => u[x] = f[p - 1][x]
  BY DEF Restarted
<1>1. n \in Nat /\ p \in 1 .. n + 1 BY DEF Program
<1>2. /\ \A q \in Q : q < p => Alike(blocks[q].writes, h[n], f[p - 1])
      /\ \A x \in Bits : NameOf(x) \notin SetNames(blocks, Q) => h[n][x] = f[p - 1][x]
  BY <1>1, SubstitutedNames
<1>3. ASSUME NEW x \in Bits, NameOf(x) \in blocks[p].reads PROVE h[n][x] = f[p - 1][x]
  <2>1. CASE NameOf(x) \notin SetNames(blocks, Q) BY <1>2, <2>1
  <2>2. CASE NameOf(x) \in SetNames(blocks, Q)
    <3>1. PICK k \in Q : NameOf(x) \in blocks[k].writes BY <2>2 DEF SetNames
    <3>2. k \in 1 .. n OBVIOUS
    <3>3. k # p BY <1>3, <3>1 DEF Setters
    <3>4. ~(p < k)
      <4>1. p < k => k \in p + 1 .. n BY <3>2
      <4> QED BY <1>3, <3>1, <4>1 DEF Program, Forward
    <3>5. k < p BY <3>2, <3>3, <3>4
    <3> QED BY <1>2, <3>1, <3>5 DEF Alike
  <2> QED BY <2>1, <2>2
<1> QED BY <1>2, <1>3 DEF Alike

(* Blocks whose reads of the names that Q sets are replaced by what Q sets *)
(* them to, and of which those of D are left out.                          *)
Substituted(n, blocks, ops, Q, D, ops2) ==
  \A p \in 1 .. n :
    /\ ops2[p] \in [V -> V]
    /\ \A v \in V : \A x \in Bits :
         ops2[p][v][x] = IF p \notin D /\ NameOf(x) \in blocks[p].writes
                         THEN ops[p][After(n, Only(n, ops, Q), v)][x] ELSE v[x]

\* Every place leaves what it left, but for the names that D sets.
LEMMA SubstitutionKeeps ==
  ASSUME NEW n, NEW blocks, NEW ops, Program(n, blocks, ops),
         NEW Q \in SUBSET (1 .. n), Setters(n, blocks, ops, Q), NEW D \in SUBSET Q,
         NEW ops2, Substituted(n, blocks, ops, Q, D, ops2),
         NEW v \in V, NEW f, Traced(n, blocks, ops, v, f),
         NEW f2, IsTrace(n, ops2, v, f2)
  PROVE  \A k \in 0 .. n : \A x \in Bits : NameOf(x) \notin SetNames(blocks, D) => f2[k][x] = f[k][x]
<1> DEFINE T == {k \in 0 .. n : \A x \in Bits : NameOf(x) \notin SetNames(blocks, D) => f2[k][x] = f[k][x]}
<1>0. n \in Nat BY DEF Program
<1>1. 0 \in T BY <1>0 DEF Traced, IsTrace
<1>2. ASSUME NEW p \in 1 .. n, p - 1 \in T PROVE p \in T
  <2>1. p - 1 \in 0 .. n /\ p \in 0 .. n BY <1>0
  <2> DEFINE u == f2[p - 1]
             h == Trace(n, Only(n, ops, Q), u)
  <2>2. u \in V /\ f[p - 1] \in V /\ f2[p] = ops2[p][u] /\ f[p] = ops[p][f[p - 1]]
    BY <2>1 DEF Traced, IsTrace
  <2>3. \A x \in Bits : NameOf(x) \notin SetNames(blocks, D) => u[x] = f[p - 1][x] BY <1>2
  <2>4. SetNames(blocks, D) \subseteq SetNames(blocks, Q) BY DEF SetNames
  <2>5. \A x \in Bits : NameOf(x) \notin SetNames(blocks, Q) => u[x] = f[p - 1][x] BY <2>3, <2>4
  <2> HIDE DEF u, T
  <2>6. Traced(n, blocks, Only(n, ops, Q), u, h) BY <2>2, OnlyIs
  <2>7. h[n] \in V /\ After(n, Only(n, ops, Q), u) = h[n] BY <1>0, <2>6 DEF Traced, IsTrace, After
  <2> HIDE DEF h
  <2>8. /\ Alike(blocks[p].reads, h[n], f[p - 1])
        /\ \A x \in Bits : NameOf(x) \notin SetNames(blocks, Q) => h[n][x] = f[p - 1][x]
    <3>1. Restarted(n, blocks, ops, Q, v, f, p, u, h) BY <2>2, <2>5, <2>6 DEF Restarted
    <3>2. Alike(blocks[p].reads, h[n], f[p - 1]) BY ONLY <3>1, p \in 1 .. n, SubstitutedReads
    <3>3. \A x \in Bits : NameOf(x) \notin SetNames(blocks, Q) => h[n][x] = f[p - 1][x]
      BY ONLY <3>1, p \in 1 .. n, SubstitutedReads
    <3> QED BY <3>2, <3>3
  <2>9. ASSUME NEW x \in Bits, NameOf(x) \notin SetNames(blocks, D) PROVE f2[p][x] = f[p][x]
    <3>1. f2[p][x] = IF p \notin D /\ NameOf(x) \in blocks[p].writes THEN ops[p][h[n]][x] ELSE u[x]
      BY <2>2, <2>7 DEF Substituted
    <3>2. CASE NameOf(x) \notin blocks[p].writes
      <4>1. f[p][x] = f[p - 1][x] BY <2>2, <3>2 DEF Program, Obeys, OnlyWrites
      <4> QED BY <2>3, <2>9, <3>1, <3>2, <4>1
    <3>3. CASE NameOf(x) \in blocks[p].writes
      <4>1. p \notin D BY <2>9, <3>3 DEF SetNames
      <4>2. f2[p][x] = ops[p][h[n]][x] BY <3>1, <3>3, <4>1
      <4>3. CASE NameOf(x) \notin SetNames(blocks, Q)
        <5>1. h[n][x] = f[p - 1][x] BY <2>8, <4>3
        <5>2. Obeys(blocks[p], ops[p]) BY DEF Program
        <5>3. ops[p][h[n]][x] = ops[p][f[p - 1]][x] BY <2>2, <2>7, <2>8, <3>3, <5>1, <5>2 DEF Obeys
        <5> QED BY <2>2, <4>2, <5>3
      <4>4. CASE NameOf(x) \in SetNames(blocks, Q)
        <5>1. PICK q \in Q : NameOf(x) \in blocks[q].writes BY <4>4 DEF SetNames
        <5>2. q = p BY <3>3, <5>1 DEF Setters
        <5>3. Fixes(blocks[p], ops[p], x) BY <3>3, <5>1, <5>2 DEF Setters
        <5>4. ops[p][h[n]][x] = ops[p][f[p - 1]][x] BY <2>2, <2>7, <2>8, <5>3 DEF Fixes
        <5> QED BY <2>2, <4>2, <5>4
      <4> QED BY <4>3, <4>4
    <3> QED BY <3>2, <3>3
  <2> QED BY <2>1, <2>9 DEF T
<1> HIDE DEF T
<1>3. \A k \in 0 .. n : k \in T BY <1>0, <1>1, <1>2, UpTo
<1> QED BY <1>3 DEF T

(* The blocks of K as a list of their own.                                 *)
Lists(m, e, n, K) ==
  /\ m \in Nat /\ e \in [1 .. m -> 1 .. n]
  /\ \A j, k \in 1 .. m : j < k => e[j] < e[k]
  /\ K = {e[j] : j \in 1 .. m}
\* The list in the places it is taken from, nothing in the others.
PlaceIn(m, e, p) == CHOOSE j \in 1 .. m : e[j] = p
Spread(n, m, e, ops) ==
  [p \in 1 .. n |-> IF \E j \in 1 .. m : e[j] = p THEN ops[PlaceIn(m, e, p)] ELSE Id]

\* Running the list is running the places it takes.
LEMMA ListRuns ==
  ASSUME NEW n \in Nat, NEW m, NEW e, NEW K, Lists(m, e, n, K),
         NEW ops, \A j \in 1 .. m : ops[j] \in [V -> V], NEW v \in V,
         NEW g, IsTrace(m, ops, v, g), NEW f, IsTrace(n, Spread(n, m, e, ops), v, f)
  PROVE  f[n] = g[m]
<1> DEFINE Upto(p, j) == \A i \in 1 .. m : e[i] <= p <=> i <= j
           T == {p \in 0 .. n : \E j \in 0 .. m : Upto(p, j) /\ f[p] = g[j]}
<1>0. m \in Nat /\ \A i \in 1 .. m : e[i] \in 1 .. n BY DEF Lists
<1>1. 0 \in T
  <2>1. Upto(0, 0) BY <1>0
  <2>2. f[0] = g[0] BY DEF IsTrace
  <2> QED BY <1>0, <2>1, <2>2
<1>2. ASSUME NEW p \in 1 .. n, p - 1 \in T PROVE p \in T
  <2>1. PICK j \in 0 .. m : Upto(p - 1, j) /\ f[p - 1] = g[j] BY <1>2
  <2>2. p - 1 \in 0 .. n /\ f[p - 1] \in V /\ f[p] = Spread(n, m, e, ops)[p][f[p - 1]]
    BY DEF IsTrace
  <2>3. CASE \E i \in 1 .. m : e[i] = p
    <3> DEFINE i == PlaceIn(m, e, p)
    <3>1. i \in 1 .. m /\ e[i] = p BY <2>3 DEF PlaceIn
    <3>2. Spread(n, m, e, ops)[p] = ops[i] BY <2>3 DEF Spread
    <3> HIDE DEF i
    <3>3. ~(i <= j) BY <1>0, <2>1, <3>1
    <3>4. i = j + 1
      <4>1. SUFFICES ASSUME j + 1 < i PROVE FALSE BY <1>0, <3>1, <3>3
      <4>2. j + 1 \in 1 .. m BY <1>0, <3>1, <4>1
      <4>3. e[j + 1] < p BY <3>1, <4>1, <4>2 DEF Lists
      <4>4. e[j + 1] <= p - 1 BY <1>0, <4>2, <4>3
      <4>5. j + 1 <= j BY <2>1, <4>2, <4>4
      <4> QED BY <4>5
    <3>5. Upto(p, i)
      <4> SUFFICES ASSUME NEW k \in 1 .. m PROVE e[k] <= p <=> k <= i OBVIOUS
      <4>1. k < i => e[k] < p BY <3>1 DEF Lists
      <4>2. i < k => p < e[k] BY <3>1 DEF Lists
      <4> QED BY <1>0, <3>1, <4>1, <4>2
    <3>6. f[p] = g[i]
      <4>1. g[i] = ops[i][g[i - 1]] /\ i - 1 = j BY <3>1, <3>4 DEF IsTrace
      <4> QED BY <2>1, <2>2, <3>2, <4>1
    <3>7. i \in 0 .. m BY <3>1
    <3> QED BY <3>5, <3>6, <3>7
  <2>4. CASE ~\E i \in 1 .. m : e[i] = p
    <3>1. Spread(n, m, e, ops)[p] = Id BY <2>4 DEF Spread
    <3>2. f[p] = f[p - 1] BY <2>2, <3>1 DEF Id
    <3>3. Upto(p, j)
      <4> SUFFICES ASSUME NEW k \in 1 .. m PROVE e[k] <= p <=> k <= j OBVIOUS
      <4>1. e[k] # p BY <2>4
      <4> QED BY <1>0, <2>1, <4>1
    <3> QED BY <2>1, <3>2, <3>3
  <2> QED BY <2>3, <2>4
<1> HIDE DEF T
<1>3. n \in T
  <2>1. \A p \in 0 .. n : p \in T BY <1>1, <1>2, UpTo
  <2> QED BY <2>1
<1>4. PICK j \in 0 .. m : Upto(n, j) /\ f[n] = g[j] BY <1>3 DEF T
<1>5. j = m
  <2>1. m \in 1 .. m => m <= j BY <1>0, <1>4
  <2> QED BY <1>0, <2>1
<1> QED BY <1>4, <1>5

(* One of the two substitutions: the list of n blocks becomes one of m,    *)
(* the blocks that are not in D.  They read what they read, or what those  *)
(* of Q before them read, and compute what they computed when the names    *)
(* that Q sets hold what Q makes of them.                                  *)
Substitutes(n, blocks, ops, Q, D, m, e, blocks2, ops2) ==
  /\ Lists(m, e, n, (1 .. n) \ D)
  /\ \A j \in 1 .. m :
       /\ Obeys(blocks2[j], ops2[j])
       /\ blocks2[j].writes \subseteq blocks[e[j]].writes
       /\ blocks2[j].reads \subseteq
            blocks[e[j]].reads \cup UNION {blocks[q].reads : q \in {q \in Q : q < e[j]}}
       /\ \A v \in V : \A x \in Bits : NameOf(x) \in blocks[e[j]].writes =>
            ops2[j][v][x] = ops[e[j]][After(n, Only(n, ops, Q), v)][x]

\* The list that is left computes the same but for the names that D sets.
LEMMA SubstitutesRight ==
  ASSUME NEW n, NEW blocks, NEW ops, Program(n, blocks, ops),
         NEW Q \in SUBSET (1 .. n), Setters(n, blocks, ops, Q), NEW D \in SUBSET Q,
         NEW m, NEW e, NEW blocks2, NEW ops2,
         Substitutes(n, blocks, ops, Q, D, m, e, blocks2, ops2), NEW v \in V
  PROVE  /\ Program(m, blocks2, ops2)
         /\ After(m, ops2, v) \in V
         /\ \A x \in Bits : NameOf(x) \notin SetNames(blocks, D) =>
              After(m, ops2, v)[x] = After(n, ops, v)[x]
<1>0. n \in Nat /\ m \in Nat /\ \A j \in 1 .. m : e[j] \in 1 .. n
  BY DEF Program, Substitutes, Lists
<1>1. Program(m, blocks2, ops2)
  <2> SUFFICES ASSUME NEW j \in 1 .. m, NEW k \in j + 1 .. m
               PROVE  blocks2[j].reads \cap blocks2[k].writes = {}
    BY <1>0 DEF Program, Forward, Substitutes
  <2>1. k \in 1 .. m /\ j < k BY <1>0
  <2>2. e[k] \in e[j] + 1 .. n BY <1>0, <2>1 DEF Substitutes, Lists
  <2>3. blocks[e[j]].reads \cap blocks[e[k]].writes = {} BY <1>0, <2>2 DEF Program, Forward
  <2>4. ASSUME NEW q \in Q, q < e[j] PROVE blocks[q].reads \cap blocks[e[k]].writes = {}
    <3>1. q \in 1 .. n /\ e[k] \in q + 1 .. n BY <1>0, <2>1, <2>2, <2>4
    <3> QED BY <3>1 DEF Program, Forward
  <2>5. blocks2[k].writes \subseteq blocks[e[k]].writes BY <2>1 DEF Substitutes
  <2>6. blocks2[j].reads \subseteq
            blocks[e[j]].reads \cup UNION {blocks[q].reads : q \in {q \in Q : q < e[j]}}
    BY DEF Substitutes
  <2>7. SUFFICES ASSUME NEW s \in blocks2[j].reads, s \in blocks2[k].writes PROVE FALSE OBVIOUS
  <2>8. s \in blocks[e[k]].writes BY <2>5, <2>7
  <2>9. CASE s \in blocks[e[j]].reads BY <2>3, <2>8, <2>9
  <2>10. CASE s \notin blocks[e[j]].reads
    <3>1. PICK q \in Q : q < e[j] /\ s \in blocks[q].reads BY <2>6, <2>10
    <3> QED BY <2>4, <2>8, <3>1
  <2> QED BY <2>9, <2>10
<1> DEFINE wide == Spread(n, m, e, ops2)
           f == Trace(n, ops, v)
           f2 == Trace(n, wide, v)
           g == Trace(m, ops2, v)
<1>2. \A j \in 1 .. m : OnlyWrites(blocks2[j], ops2[j]) /\ ops2[j] \in [V -> V]
  BY DEF Substitutes, Obeys, OnlyWrites
<1>3. IsTrace(m, ops2, v, g) BY <1>0, <1>2, TraceIs
<1>4. Traced(n, blocks, ops, v, f)
  <2>1. \A p \in 1 .. n : OnlyWrites(blocks[p], ops[p]) BY DEF Program, Obeys
  <2>2. \A p \in 1 .. n : ops[p] \in [V -> V] BY <2>1 DEF OnlyWrites
  <2>3. IsTrace(n, ops, v, f) BY <1>0, <2>2, TraceIs
  <2> QED BY <2>1, <2>3 DEF Traced
<1>5. Substituted(n, blocks, ops, Q, D, wide)
  <2> SUFFICES ASSUME NEW p \in 1 .. n
               PROVE  /\ wide[p] \in [V -> V]
                      /\ \A u \in V : \A x \in Bits :
                           wide[p][u][x] = IF p \notin D /\ NameOf(x) \in blocks[p].writes
                                           THEN ops[p][After(n, Only(n, ops, Q), u)][x] ELSE u[x]
    BY DEF Substituted
  <2>1. CASE p \in D
    <3>1. ~\E j \in 1 .. m : e[j] = p BY <2>1 DEF Substitutes, Lists
    <3>2. wide[p] = Id BY <3>1 DEF Spread
    <3> HIDE DEF wide
    <3> QED BY <2>1, <3>2 DEF Id
  <2>2. CASE p \notin D
    <3>1. \E j \in 1 .. m : e[j] = p BY <2>2 DEF Substitutes, Lists
    <3> DEFINE j == PlaceIn(m, e, p)
    <3>2. j \in 1 .. m /\ e[j] = p BY <3>1 DEF PlaceIn
    <3>3. wide[p] = ops2[j] BY <3>1 DEF Spread
    <3> HIDE DEF j, wide
    <3>4. blocks2[j].writes \subseteq blocks[p].writes BY <3>2 DEF Substitutes
    <3>5. ASSUME NEW u \in V, NEW x \in Bits
          PROVE  ops2[j][u][x] = IF NameOf(x) \in blocks[p].writes
                                 THEN ops[p][After(n, Only(n, ops, Q), u)][x] ELSE u[x]
      <4>1. CASE NameOf(x) \in blocks[p].writes BY <3>2, <4>1 DEF Substitutes
      <4>2. CASE NameOf(x) \notin blocks[p].writes BY <1>2, <3>2, <3>4, <4>2 DEF OnlyWrites
      <4> QED BY <4>1, <4>2
    <3> QED BY <1>2, <2>2, <3>2, <3>3, <3>5
  <2> QED BY <2>1, <2>2
<1>6. IsTrace(n, wide, v, f2)
  <2>1. \A p \in 1 .. n : wide[p] \in [V -> V] BY <1>5 DEF Substituted
  <2> HIDE DEF wide
  <2> QED BY <1>0, <2>1, TraceIs
<1>7. f2[n] = g[m]
  <2>1. Lists(m, e, n, (1 .. n) \ D) BY DEF Substitutes
  <2> HIDE DEF f2, g
  <2> QED BY <1>0, <1>2, <1>3, <1>6, <2>1, ListRuns
<1> HIDE DEF wide, f, f2, g
<1>8. \A x \in Bits : NameOf(x) \notin SetNames(blocks, D) => f2[n][x] = f[n][x]
  <2>1. n \in 0 .. n BY <1>0
  <2> QED BY <1>4, <1>5, <1>6, <2>1, SubstitutionKeeps
<1>9. g[m] \in V
  <2>1. m \in 0 .. m BY <1>0
  <2> QED BY <1>3, <2>1 DEF IsTrace
<1> QED BY <1>1, <1>7, <1>8, <1>9 DEF After, f, g

\* A list of n blocks.
AreBlocks(blocks, n) ==
  n \in Nat /\ blocks \in Seq({blocks[i] : i \in DOMAIN blocks}) /\ Len(blocks) = n

\* Where the rounds of LiveSignals lead.
LiveRounds(blocks, n, roots, live) ==
  /\ live[0] = roots
  /\ \A k \in 1 .. n : live[k] = live[k - 1] \cup
       UNION {blocks[i].reads : i \in {c \in 1 .. n : blocks[c].writes \cap live[k - 1] # {}}}

\* LiveSignals is where they lead.
LEMMA LiveExists ==
  ASSUME NEW n, NEW blocks, AreBlocks(blocks, n), NEW roots
  PROVE  \E live : LiveRounds(blocks, n, roots, live) /\ LiveSignals(blocks, roots) = live[n]
<1> DEFINE next(a) == a \cup UNION {b.reads : b \in {c \in Range(blocks) : c.writes \cap a # {}}}
           body(f) == [k \in 0 .. n |-> IF k = 0 THEN roots ELSE next(f[k - 1])]
           h == CHOOSE f : f = body(f)
           S == SUBSET (roots \cup UNION {b.reads : b \in Range(blocks)})
           g == [x \in S \X (1 .. n) |-> next(x[1])]
<1>0. n \in Nat /\ Len(blocks) = n /\ DOMAIN blocks = 1 .. n BY DEF AreBlocks
<1>1. LiveSignals(blocks, roots) = h[n] BY <1>0 DEF LiveSignals, Waking
<1>2. \A a \in S : next(a) \in S OBVIOUS
<1>3. roots \in S OBVIOUS
<1>4. \A a : next(a) = a \cup UNION {blocks[i].reads : i \in {c \in 1 .. n : blocks[c].writes \cap a # {}}}
  BY <1>0 DEF Range
<1> HIDE DEF S, next
<1>5. g \in [S \X (1 .. n) -> S] BY <1>2
<1>6. \A a \in S, i \in 1 .. n : g[<<a, i>>] = next(a) OBVIOUS
<1> HIDE DEF g
<1>7. PICK f \in [0 .. n -> S] : FoldsTo(f, n, roots, g) BY <1>0, <1>3, <1>5, FoldExists
<1>8. f[0] = roots /\ \A k \in 1 .. n : f[k] = next(f[k - 1])
  <2>1. \A k \in 1 .. n : k - 1 \in 0 .. n BY <1>0
  <2>2. f[0] = roots /\ \A k \in 1 .. n : f[k - 1] \in S /\ f[k] = g[<<f[k - 1], k>>]
    BY <1>7, <2>1 DEF FoldsTo
  <2> QED BY <1>6, <2>2
<1>9. f = body(f)
  <2>1. \A k \in 0 .. n : f[k] = IF k = 0 THEN roots ELSE next(f[k - 1])
    <3> TAKE k \in 0 .. n
    <3>1. CASE k = 0 BY <1>8, <3>1
    <3>2. CASE k # 0
      <4>1. k \in 1 .. n BY <1>0, <3>2
      <4> QED BY <1>8, <3>2, <4>1
    <3> QED BY <3>1, <3>2
  <2>2. DOMAIN f = 0 .. n /\ f = [k \in DOMAIN f |-> f[k]] BY <1>7
  <2> QED BY <2>1, <2>2
<1>10. h = body(h) BY <1>9
<1> HIDE DEF h
<1>11. \A k \in 0 .. n : h[k] = IF k = 0 THEN roots ELSE next(h[k - 1]) BY <1>10
<1>12. h[0] = roots /\ \A k \in 1 .. n : h[k] = next(h[k - 1])
  <2>1. 0 \in 0 .. n /\ \A k \in 1 .. n : k \in 0 .. n /\ k # 0 BY <1>0
  <2> QED BY <1>11, <2>1
<1>13. LiveRounds(blocks, n, roots, h) BY <1>4, <1>12 DEF LiveRounds
<1> QED BY <1>1, <1>13

(* As many rounds as there are blocks are enough: the live signals are     *)
(* closed, for a round that finds something new finds a new block.         *)
LEMMA LiveIsClosed ==
  ASSUME NEW n, NEW blocks, AreBlocks(blocks, n), NEW roots
  PROVE  /\ roots \subseteq LiveSignals(blocks, roots)
         /\ \A i \in LiveBlocks(blocks, roots) : blocks[i].reads \subseteq LiveSignals(blocks, roots)
<1>0. n \in Nat /\ DOMAIN blocks = 1 .. n BY DEF AreBlocks
<1>1. PICK live : LiveRounds(blocks, n, roots, live) /\ LiveSignals(blocks, roots) = live[n]
  BY LiveExists
<1> DEFINE L(k) == {i \in 1 .. n : blocks[i].writes \cap live[k] # {}}
           Closed(k) == \A i \in L(k) : blocks[i].reads \subseteq live[k]
           T == {k \in 0 .. n : roots \subseteq live[k] /\ (Closed(k) \/ Cardinality(L(k)) >= k + 1)}
<1>2. \A k \in 0 .. n : L(k) \in SUBSET (1 .. n) /\ IsFiniteSet(L(k)) /\ Cardinality(L(k)) \in Nat
                        /\ Cardinality(L(k)) <= n
  <2> TAKE k \in 0 .. n
  <2>1. IsFiniteSet(1 .. n) /\ Cardinality(1 .. n) = n BY <1>0, FS_Interval
  <2>2. L(k) \subseteq 1 .. n OBVIOUS
  <2> HIDE DEF L
  <2> QED BY <2>1, <2>2, FS_Subset, FS_CardinalityType
<1>3. 0 \in T
  <2>1. live[0] = roots BY <1>1 DEF LiveRounds
  <2>2. Closed(0) \/ \E i : i \in L(0) OBVIOUS
  <2>3. ASSUME NEW i \in L(0) PROVE Cardinality(L(0)) >= 1
    <3>1. 0 \in 0 .. n BY <1>0
    <3> HIDE DEF L
    <3> QED BY <1>2, <2>3, <3>1, FS_EmptySet
  <2> HIDE DEF L
  <2> QED BY <1>0, <2>1, <2>2, <2>3
<1>4. ASSUME NEW k \in 1 .. n, k - 1 \in T PROVE k \in T
  <2>0. k - 1 \in 0 .. n /\ k \in 0 .. n BY <1>0
  <2>1. live[k] = live[k - 1] \cup UNION {blocks[i].reads : i \in L(k - 1)} BY <1>1 DEF LiveRounds
  <2>2. roots \subseteq live[k] BY <1>4, <2>1
  <2>3. L(k - 1) \subseteq L(k) BY <2>1
  <2>4. CASE Closed(k - 1)
    <3>1. live[k] = live[k - 1] BY <2>1, <2>4
    <3>2. Closed(k) BY <2>4, <3>1
    <3> QED BY <2>0, <2>2, <3>2
  <2>5. CASE ~Closed(k - 1)
    <3>1. Cardinality(L(k - 1)) >= k BY <1>4, <2>5
    <3>2. CASE L(k) = L(k - 1)
      <4>1. Closed(k) BY <2>1, <3>2
      <4> QED BY <2>0, <2>2, <4>1
    <3>3. CASE L(k) # L(k - 1)
      <4> HIDE DEF L
      <4>1. Cardinality(L(k - 1)) < Cardinality(L(k))
        <5>1. IsFiniteSet(L(k)) /\ L(k - 1) \subseteq L(k) BY <1>2, <2>0, <2>3
        <5> DEFINE A == L(k - 1)
                   B == L(k)
        <5>2. IsFiniteSet(B) /\ A \in SUBSET B /\ A # B BY <3>3, <5>1
        <5> HIDE DEF A, B
        <5>3. IsFiniteSet(A) /\ Cardinality(A) <= Cardinality(B) /\ (Cardinality(A) = Cardinality(B) => A = B)
          BY <5>2, FS_Subset
        <5>4. Cardinality(A) \in Nat /\ Cardinality(B) \in Nat BY <5>2, <5>3, FS_CardinalityType
        <5>5. Cardinality(A) < Cardinality(B) BY <5>2, <5>3, <5>4
        <5> QED BY <5>5 DEF A, B
      <4>2. Cardinality(L(k)) \in Nat /\ Cardinality(L(k - 1)) \in Nat BY <1>2, <2>0
      <4>3. Cardinality(L(k)) >= k + 1 BY <3>1, <4>1, <4>2
      <4> QED BY <2>0, <2>2, <4>3
    <3> QED BY <3>2, <3>3
  <2> QED BY <2>4, <2>5
<1>5. n \in T
  <2> HIDE DEF T
  <2>1. \A k \in 0 .. n : k \in T BY <1>0, <1>3, <1>4, UpTo
  <2> QED BY <1>0, <2>1
<1>6. Closed(n)
  <2>0. n \in 0 .. n BY <1>0
  <2> HIDE DEF L
  <2>1. Cardinality(L(n)) \in Nat /\ Cardinality(L(n)) <= n BY <2>0, <1>2
  <2> QED BY <1>0, <1>5, <2>1
<1>7. LiveBlocks(blocks, roots) = L(n) BY <1>0, <1>1 DEF LiveBlocks, Setting
<1> QED BY <1>1, <1>5, <1>6, <1>7

(* Dead code: without the blocks that write no live signal the live        *)
(* signals are what they were.                                             *)
THEOREM DeadCodeIsDead ==
  ASSUME NEW n, NEW blocks, NEW ops, AreBlocks(blocks, n), \A p \in 1 .. n : Obeys(blocks[p], ops[p]),
         NEW roots, NEW m, NEW e, Lists(m, e, n, LiveBlocks(blocks, roots)),
         NEW ops2, \A j \in 1 .. m : ops2[j] = ops[e[j]], NEW v \in V
  PROVE  \A x \in Bits : NameOf(x) \in LiveSignals(blocks, roots) =>
           After(m, ops2, v)[x] = After(n, ops, v)[x]
<1>0. n \in Nat /\ m \in Nat /\ \A j \in 1 .. m : e[j] \in 1 .. n BY DEF AreBlocks, Lists
<1> DEFINE K == LiveBlocks(blocks, roots)
           live == LiveSignals(blocks, roots)
           wide == Spread(n, m, e, ops2)
           f == Trace(n, ops, v)
           f2 == Trace(n, wide, v)
           g == Trace(m, ops2, v)
<1>1. \A p \in 1 .. n : ops[p] \in [V -> V] BY DEF Obeys, OnlyWrites
<1>2. \A j \in 1 .. m : ops2[j] \in [V -> V] BY <1>0, <1>1
<1>3. \A p \in 1 .. n : p \in K => wide[p] = ops[p]
  <2> SUFFICES ASSUME NEW p \in 1 .. n, p \in K PROVE wide[p] = ops[p] OBVIOUS
  <2>1. \E j \in 1 .. m : e[j] = p BY DEF Lists
  <2>2. PlaceIn(m, e, p) \in 1 .. m /\ e[PlaceIn(m, e, p)] = p BY <2>1 DEF PlaceIn
  <2> QED BY <2>1, <2>2 DEF Spread
<1>4. \A p \in 1 .. n : p \notin K => wide[p] = Id
  <2> SUFFICES ASSUME NEW p \in 1 .. n, p \notin K PROVE wide[p] = Id OBVIOUS
  <2>1. ~\E j \in 1 .. m : e[j] = p BY DEF Lists
  <2> QED BY <2>1 DEF Spread
<1>5. IsTrace(m, ops2, v, g) BY <1>0, <1>2, TraceIs
<1>6. IsTrace(n, ops, v, f) BY <1>0, <1>1, TraceIs
<1>7. IsTrace(n, wide, v, f2)
  <2>1. \A p \in 1 .. n : wide[p] \in [V -> V]
    <3>1. Id \in [V -> V] BY DEF Id
    <3> HIDE DEF wide, K
    <3> QED BY <1>1, <1>3, <1>4, <3>1
  <2> HIDE DEF wide
  <2> QED BY <1>0, <2>1, TraceIs
<1>8. f2[n] = g[m]
  <2> HIDE DEF f2, g
  <2> QED BY <1>0, <1>2, <1>5, <1>7, ListRuns
<1> DEFINE T == {k \in 0 .. n : \A x \in Bits : NameOf(x) \in live => f2[k][x] = f[k][x]}
<1> HIDE DEF wide, f, f2, g, K, live
<1>9. \A p \in K : p \in 1 .. n /\ blocks[p].reads \subseteq live
  <2>1. \A p \in K : blocks[p].reads \subseteq live BY LiveIsClosed DEF K, live
  <2> QED BY <2>1 DEF K, LiveBlocks, Setting, AreBlocks
<1>10. \A p \in 1 .. n : p \notin K => blocks[p].writes \cap live = {}
  BY DEF K, live, LiveBlocks, Setting, AreBlocks
<1>11. 0 \in T BY <1>0, <1>6, <1>7 DEF IsTrace
<1>12. ASSUME NEW p \in 1 .. n, p - 1 \in T PROVE p \in T
  <2>1. /\ p - 1 \in 0 .. n /\ p \in 0 .. n /\ f[p - 1] \in V /\ f2[p - 1] \in V
        /\ f[p] = ops[p][f[p - 1]] /\ f2[p] = wide[p][f2[p - 1]]
    BY <1>0, <1>6, <1>7 DEF IsTrace
  <2>2. \A x \in Bits : NameOf(x) \in live => f2[p - 1][x] = f[p - 1][x] BY <1>12
  <2>3. Obeys(blocks[p], ops[p]) OBVIOUS
  <2>4. ASSUME NEW x \in Bits, NameOf(x) \in live PROVE f2[p][x] = f[p][x]
    <3>1. CASE p \in K
      <4>1. Alike(blocks[p].reads, f2[p - 1], f[p - 1]) BY <1>9, <2>2, <3>1 DEF Alike
      <4>2. f2[p] = ops[p][f2[p - 1]] BY <1>3, <2>1, <3>1
      <4>3. CASE NameOf(x) \in blocks[p].writes
        BY <2>1, <2>2, <2>3, <2>4, <4>1, <4>2, <4>3 DEF Obeys
      <4>4. CASE NameOf(x) \notin blocks[p].writes
        BY <2>1, <2>2, <2>3, <2>4, <4>2, <4>4 DEF Obeys, OnlyWrites
      <4> QED BY <4>3, <4>4
    <3>2. CASE p \notin K
      <4>1. f2[p] = f2[p - 1] BY <1>4, <2>1, <3>2 DEF Id
      <4>2. NameOf(x) \notin blocks[p].writes BY <1>10, <2>4, <3>2
      <4>3. f[p][x] = f[p - 1][x] BY <2>1, <2>3, <4>2 DEF Obeys, OnlyWrites
      <4> QED BY <2>2, <2>4, <4>1, <4>3
    <3> QED BY <3>1, <3>2
  <2> QED BY <2>1, <2>4
<1> HIDE DEF T
<1>13. n \in T
  <2>1. \A k \in 0 .. n : k \in T BY <1>0, <1>11, <1>12, UpTo
  <2> QED BY <1>0, <2>1
<1> QED BY <1>8, <1>13 DEF After, T, f, g, live

\* Blocks that are one assignment: they set a name, and a constant reads nothing.
Texts(n, blocks, ops) ==
  \A i \in 1 .. n :
    /\ blocks[i].lone => /\ \E s : blocks[i].writes = {s}
                         /\ \A x \in Bits : NameOf(x) \in blocks[i].writes => Fixes(blocks[i], ops[i], x)
    /\ blocks[i].constant => blocks[i].lone /\ blocks[i].reads = {}

\* The only writer of a name, and a lone assignment, sets it.
LEMMA SoleWritersSet ==
  ASSUME NEW n, NEW blocks, NEW ops, AreBlocks(blocks, n), Texts(n, blocks, ops),
         NEW which, \A i \in which \cap 1 .. n : blocks[i].lone,
         NEW names, \A s \in names : SoleWriter(blocks, s, which),
         \A i \in 1 .. n : blocks[i].reads \cap blocks[i].writes \cap names = {}
  PROVE  /\ Setting(blocks, names) \in SUBSET (1 .. n)
         /\ Setters(n, blocks, ops, Setting(blocks, names))
         /\ SetNames(blocks, Setting(blocks, names)) = names
<1> DEFINE Q == Setting(blocks, names)
<1>1. DOMAIN blocks = 1 .. n BY DEF AreBlocks
<1>2. Q \in SUBSET (1 .. n) BY <1>1 DEF Setting
<1>3. ASSUME NEW q \in Q
      PROVE  /\ q \in 1 .. n /\ blocks[q].lone
             /\ \E s \in names : blocks[q].writes = {s} /\ Writers(blocks, s) = {q}
  <2>1. PICK s \in names : s \in blocks[q].writes BY DEF Setting
  <2>2. q \in 1 .. n /\ q \in Writers(blocks, s) BY <1>1, <1>2, <2>1 DEF Writers
  <2>3. Writers(blocks, s) = {q} /\ q \in which BY <2>2 DEF SoleWriter
  <2>4. blocks[q].lone BY <2>2, <2>3
  <2>5. \E t : blocks[q].writes = {t} BY <2>2, <2>4 DEF Texts
  <2>6. blocks[q].writes = {s} BY <2>1, <2>5
  <2> QED BY <2>2, <2>3, <2>4, <2>6
<1>4. Setters(n, blocks, ops, Q)
  <2> SUFFICES ASSUME NEW q \in Q
               PROVE  /\ blocks[q].reads \cap blocks[q].writes = {}
                      /\ \A p \in 1 .. n : p # q => blocks[p].writes \cap blocks[q].writes = {}
                      /\ \A x \in Bits : NameOf(x) \in blocks[q].writes => Fixes(blocks[q], ops[q], x)
    BY DEF Setters
  <2>1. PICK s \in names : blocks[q].writes = {s} /\ Writers(blocks, s) = {q} BY <1>3
  <2>2. q \in 1 .. n /\ blocks[q].lone BY <1>3
  <2>3. blocks[q].reads \cap blocks[q].writes = {} BY <2>1, <2>2
  <2>4. \A p \in 1 .. n : p # q => s \notin blocks[p].writes BY <1>1, <2>1 DEF Writers
  <2> QED BY <2>1, <2>2, <2>3, <2>4 DEF Texts
<1>5. SetNames(blocks, Q) = names
  <2>1. \A q \in Q : blocks[q].writes \subseteq names BY <1>3
  <2>2. ASSUME NEW s \in names PROVE \E q \in Q : s \in blocks[q].writes
    <3>1. PICK i \in DOMAIN blocks : Writers(blocks, s) = {i} BY DEF SoleWriter
    <3>2. s \in blocks[i].writes BY <3>1 DEF Writers
    <3> QED BY <3>2 DEF Setting
  <2> HIDE DEF Q
  <2> QED BY <2>1, <2>2 DEF SetNames
<1> QED BY <1>2, <1>4, <1>5

(* Wires that are substituted: what is left computes the same.             *)
THEOREM InliningKeeps ==
  ASSUME NEW n, NEW blocks, NEW ops, Program(n, blocks, ops), AreBlocks(blocks, n),
         Texts(n, blocks, ops), NEW wires, NEW seqReads,
         \A i \in 1 .. n : blocks[i].reads \cap blocks[i].writes \cap wires = {},
         NEW gone, gone = Setting(blocks, Inlinable(blocks, wires, seqReads)),
         NEW m, NEW e, NEW blocks2, NEW ops2,
         Substitutes(n, blocks, ops, gone, gone, m, e, blocks2, ops2), NEW v \in V
  PROVE  /\ Program(m, blocks2, ops2)
         /\ After(m, ops2, v) \in V
         /\ \A x \in Bits : NameOf(x) \notin Inlinable(blocks, wires, seqReads) =>
              After(m, ops2, v)[x] = After(n, ops, v)[x]
<1> DEFINE names == Inlinable(blocks, wires, seqReads)
           which == {i \in DOMAIN blocks : blocks[i].lone}
<1>1. \A s \in names : SoleWriter(blocks, s, which) BY DEF Inlinable
<1>2. \A i \in 1 .. n : blocks[i].reads \cap blocks[i].writes \cap names = {} BY DEF Inlinable
<1>3. \A i \in which \cap 1 .. n : blocks[i].lone OBVIOUS
<1> HIDE DEF names, which
<1>4. gone = Setting(blocks, names) BY DEF names
<1>5. gone \in SUBSET (1 .. n) /\ Setters(n, blocks, ops, gone) /\ SetNames(blocks, gone) = names
  BY <1>1, <1>2, <1>3, <1>4, SoleWritersSet
<1>6. gone \in SUBSET gone OBVIOUS
<1>7. /\ Program(m, blocks2, ops2) /\ After(m, ops2, v) \in V
      /\ \A x \in Bits : NameOf(x) \notin SetNames(blocks, gone) =>
           After(m, ops2, v)[x] = After(n, ops, v)[x]
  BY <1>5, <1>6, SubstitutesRight
<1> QED BY <1>5, <1>7 DEF names

(* Constants that are substituted: everything computes the same, and what  *)
(* the whole list leaves is what its constants would put there again.      *)
THEOREM PropagationKeeps ==
  ASSUME NEW n, NEW blocks, NEW ops, Program(n, blocks, ops), AreBlocks(blocks, n),
         Texts(n, blocks, ops), NEW seqWrites,
         NEW consts, consts = Setting(blocks, Constants(blocks, seqWrites)),
         NEW m, NEW e, NEW blocks2, NEW ops2,
         Substitutes(n, blocks, ops, consts, {}, m, e, blocks2, ops2), NEW v \in V
  PROVE  /\ Program(m, blocks2, ops2)
         /\ After(m, ops2, v) \in V
         /\ \A x \in Bits : After(m, ops2, v)[x] = After(n, ops, v)[x]
         /\ \A x \in Bits : After(n, Only(n, ops, consts), After(n, ops, v))[x] = After(n, ops, v)[x]
<1> DEFINE names == Constants(blocks, seqWrites)
           which == {i \in DOMAIN blocks : blocks[i].constant}
<1>0. n \in Nat /\ DOMAIN blocks = 1 .. n BY DEF AreBlocks
<1>1. \A s \in names : SoleWriter(blocks, s, which) BY DEF Constants
<1>2. \A i \in which : blocks[i].reads = {} /\ blocks[i].lone BY <1>0 DEF Texts
<1>3. \A i \in 1 .. n : blocks[i].reads \cap blocks[i].writes \cap names = {}
  <2> SUFFICES ASSUME NEW i \in 1 .. n, NEW s \in names, s \in blocks[i].reads, s \in blocks[i].writes
               PROVE  FALSE
    OBVIOUS
  <2>1. SoleWriter(blocks, s, which) BY <1>1
  <2>2. i \in Writers(blocks, s) BY <1>0 DEF Writers
  <2>3. i \in which BY <2>1, <2>2 DEF SoleWriter
  <2> QED BY <1>2, <2>3
<1> HIDE DEF names, which
<1>4. consts = Setting(blocks, names) BY DEF names
<1>5. consts \in SUBSET (1 .. n) /\ Setters(n, blocks, ops, consts) /\ SetNames(blocks, consts) = names
  BY <1>1, <1>2, <1>3, <1>4, SoleWritersSet
<1>6. {} \in SUBSET consts /\ SetNames(blocks, {}) = {} BY DEF SetNames
<1>7. /\ Program(m, blocks2, ops2) /\ After(m, ops2, v) \in V
      /\ \A x \in Bits : NameOf(x) \notin SetNames(blocks, {}) =>
           After(m, ops2, v)[x] = After(n, ops, v)[x]
  BY <1>5, <1>6, SubstitutesRight
<1> DEFINE f == Trace(n, ops, v)
           u == f[n]
           h == Trace(n, Only(n, ops, consts), u)
<1>8. Traced(n, blocks, ops, v, f)
  <2>1. \A p \in 1 .. n : OnlyWrites(blocks[p], ops[p]) BY DEF Program, Obeys
  <2>2. \A p \in 1 .. n : ops[p] \in [V -> V] BY <2>1 DEF OnlyWrites
  <2>3. IsTrace(n, ops, v, f) BY <1>0, <2>2, TraceIs
  <2> QED BY <2>1, <2>3 DEF Traced
<1>9. u \in V BY <1>0, <1>8 DEF Traced, IsTrace
<1> HIDE DEF u, f
<1>10. Traced(n, blocks, Only(n, ops, consts), u, h) BY <1>9, OnlyIs
<1> HIDE DEF h
<1>11. Restarted(n, blocks, ops, consts, v, f, n + 1, u, h)
  <2>1. (n + 1) - 1 = n BY <1>0
  <2> QED BY <1>5, <1>8, <1>9, <1>10, <2>1 DEF Restarted, u
<1>12. ASSUME NEW x \in Bits PROVE h[n][x] = u[x]
  <2>1. PICK p \in 1 .. n + 1 : p = n + 1 /\ p - 1 = n BY <1>0
  <2>2. /\ \A q \in consts : q < p => Alike(blocks[q].writes, h[n], f[p - 1])
        /\ \A y \in Bits : NameOf(y) \notin SetNames(blocks, consts) => h[n][y] = f[p - 1][y]
    <3>1. Restarted(n, blocks, ops, consts, v, f, p, u, h) BY <1>11, <2>1
    <3> QED BY ONLY <3>1, p \in 1 .. n + 1, SubstitutedNames
  <2>3. \A q \in consts : q < p BY <1>0, <1>5, <2>1
  <2>4. f[p - 1] = u BY <2>1 DEF u
  <2> QED BY <2>2, <2>3, <2>4 DEF SetNames, Alike
<1>13. h[n] = After(n, Only(n, ops, consts), u) /\ u = After(n, ops, v) BY DEF h, u, f, After
<1> QED BY <1>6, <1>7, <1>12, <1>13

\* Sorted blocks are a program: none reads what a later one writes.
LEMMA SortedIsForward ==
  ASSUME NEW n \in Nat, NEW nodes, NEW locals, NEW order, Sorted(n, nodes, locals, order),
         Lawful(n, nodes, locals), NEW ops, \A i \in 1 .. n : Obeys(nodes[i], ops[i])
  PROVE  /\ Program(n, Placement(nodes, order), Sweep(ops, order))
         /\ AreBlocks(Placement(nodes, order), n)
         /\ \A p \in 1 .. n : /\ order[p] \in 1 .. n
                              /\ Placement(nodes, order)[p] = nodes[order[p]]
<1>1. DOMAIN order = 1 .. n
  <2>1. SortEdges(nodes, locals) \in Edges(n) BY SortEdgesAre DEF Sorted
  <2>2. Placed(n, order) BY <2>1, KahnIs DEF Sorted
  <2> QED BY <2>2, PlacesOf DEF Sorted
<1>2. \A p \in 1 .. n : order[p] \in 1 .. n /\ PlaceOf(order, order[p]) = p BY PlacesFollow
<1> DEFINE blocks == Placement(nodes, order)
           o == Sweep(ops, order)
<1>3. blocks = [p \in 1 .. n |-> nodes[order[p]]] /\ \A p \in 1 .. n : o[p] = ops[order[p]]
  BY <1>1 DEF Placement, Sweep
<1>4. AreBlocks(blocks, n)
  <2> HIDE DEF blocks
  <2>1. \A p \in 1 .. n : blocks[p] \in {blocks[i] : i \in DOMAIN blocks} BY <1>3
  <2>2. DOMAIN blocks = 1 .. n BY <1>3
  <2>3. blocks \in [1 .. n -> {blocks[i] : i \in DOMAIN blocks}] BY <1>3, <2>1, <2>2
  <2> QED BY <2>3 DEF AreBlocks
<1> HIDE DEF blocks, o
<1>5. \A p \in 1 .. n : Obeys(blocks[p], o[p]) BY <1>2, <1>3
<1>6. ASSUME NEW p \in 1 .. n, NEW q \in p + 1 .. n, NEW s, s \in blocks[p].reads, s \in blocks[q].writes
      PROVE  FALSE
  <2> DEFINE i == order[p]
             k == order[q]
  <2>1. q \in 1 .. n /\ p < q OBVIOUS
  <2>2. i \in 1 .. n /\ k \in 1 .. n /\ PlaceOf(order, i) = p /\ PlaceOf(order, k) = q BY <1>2, <2>1
  <2>3. s \in nodes[i].reads /\ s \in nodes[k].writes BY <1>3, <1>6, <2>1
  <2> HIDE DEF i, k
  <2>4. CASE s \notin locals
    <3>1. PlaceOf(order, k) < PlaceOf(order, i) BY <2>2, <2>3, <2>4, PlacesFollow
    <3> QED BY <2>1, <2>2, <3>1
  <2>5. CASE s \in locals
    <3>1. k <= i BY <2>2, <2>3, <2>5 DEF Lawful
    <3>2. k # i BY <2>1, <2>2
    <3>3. k < i BY <2>2, <3>1, <3>2
    <3>4. s \in nodes[k].writes \cap InOrder(nodes[i], locals) BY <2>3, <2>5 DEF InOrder
    <3>5. PlaceOf(order, k) < PlaceOf(order, i) BY <2>2, <3>3, <3>4, PlacesFollow
    <3> QED BY <2>1, <2>2, <3>5
  <2> QED BY <2>4, <2>5
<1>7. Forward(n, blocks) BY <1>6 DEF Forward
<1>8. \A p \in 1 .. n : blocks[p] = nodes[order[p]] BY <1>3
<1> QED BY <1>2, <1>4, <1>5, <1>7, <1>8 DEF Program, blocks, o

(* All passes after one another: from the sorted nodes over those that     *)
(* inlining and constant propagation leave to those that are left without  *)
(* the dead code, one evaluation gives from any values v of the wires the  *)
(* outputs, and the clocked blocks the registers, that the source gives    *)
(* when its simulation is at rest, in F, with the same inputs.             *)
THEOREM CompiledMeansTheSource ==
  ASSUME \* the combinational nodes of a module in the order of the sort
         NEW n \in Nat, NEW nodes, NEW locals, NEW order, Sorted(n, nodes, locals, order),
         Lawful(n, nodes, locals), NEW ops, \A i \in 1 .. n : Obeys(nodes[i], ops[i]),
         NoLatch(n, nodes, locals, ops), Texts(n, nodes, ops),
         \* the clocked blocks: what they read and assign, and what they do
         NEW seqReads, NEW seqWrites, NEW clocked,
         \A u, w \in V : Alike(seqReads \ locals, u, w) => clocked[u] = clocked[w],
         NEW wires, wires \cap locals = {}, NEW outs, outs \cap wires = {},
         \* the blocks after inlining
         NEW m, NEW e1, NEW blocks1, NEW ops1, AreBlocks(blocks1, m), Texts(m, blocks1, ops1),
         NEW sorted, sorted = Placement(nodes, order),
         NEW gone, gone = Setting(sorted, Inlinable(sorted, wires, seqReads)),
         Substitutes(n, sorted, Sweep(ops, order), gone, gone, m, e1, blocks1, ops1),
         \* after constant propagation, the clocked ones too
         NEW k, NEW e2, NEW blocks2, NEW ops2, AreBlocks(blocks2, k),
         NEW consts, consts = Setting(blocks1, Constants(blocks1, seqWrites)),
         Substitutes(m, blocks1, ops1, consts, {}, k, e2, blocks2, ops2),
         NEW seqReads2, seqReads2 \subseteq seqReads, NEW clocked2,
         \A u, w \in V : Alike(seqReads2 \ locals, u, w) => clocked2[u] = clocked2[w],
         \A u \in V : clocked2[u] = clocked[After(m, Only(m, ops1, consts), u)],
         \* and without the dead code
         NEW l, NEW e3, NEW ops3, Lists(l, e3, k, LiveBlocks(blocks2, outs \cup seqReads2)),
         \A j \in 1 .. l : ops3[j] = ops2[e3[j]],
         NEW v \in V, NEW F \in V, AtRest(n, nodes, locals, ops, F),
         \A x \in Bits : Undriven(n, nodes, x) => F[x] = v[x]
  PROVE  /\ \A x \in Bits : NameOf(x) \in outs \ locals => After(l, ops3, v)[x] = F[x]
         /\ clocked2[After(l, ops3, v)] = clocked[F]
<1> DEFINE o == Sweep(ops, order)
           a == After(n, o, v)
           a1 == After(m, ops1, v)
           a2 == After(k, ops2, v)
           a3 == After(l, ops3, v)
           names == Inlinable(sorted, wires, seqReads)
           roots == outs \cup seqReads2
           back == After(m, Only(m, ops1, consts), a1)
<1>1. /\ a \in V
      /\ \A x \in Bits : NameOf(x) \notin locals => F[x] = a[x]
  BY SweepSettles
<1>2. /\ Program(n, sorted, o) /\ AreBlocks(sorted, n)
      /\ \A p \in 1 .. n : order[p] \in 1 .. n /\ sorted[p] = nodes[order[p]]
  BY SortedIsForward
<1>3. DOMAIN order = 1 .. n
  <2>1. SortEdges(nodes, locals) \in Edges(n) BY SortEdgesAre DEF Sorted
  <2>2. Placed(n, order) BY <2>1, KahnIs DEF Sorted
  <2> QED BY <2>2, PlacesOf DEF Sorted
<1>4. \A p \in 1 .. n : o[p] = ops[order[p]] BY <1>3 DEF Sweep
<1> HIDE DEF o, a, a1, a2, a3, names, roots, back
<1>5. Texts(n, sorted, o)
  <2>1. ASSUME NEW p \in 1 .. n, sorted[p].lone
        PROVE  /\ \E s : sorted[p].writes = {s}
               /\ \A x \in Bits : NameOf(x) \in sorted[p].writes => Fixes(sorted[p], o[p], x)
    <3>1. order[p] \in 1 .. n /\ sorted[p] = nodes[order[p]] /\ o[p] = ops[order[p]] BY <1>2, <1>4
    <3> DEFINE i == order[p]
    <3> HIDE DEF i
    <3>2. i \in 1 .. n /\ sorted[p] = nodes[i] /\ o[p] = ops[i] /\ nodes[i].lone BY <2>1, <3>1 DEF i
    <3>3. /\ \E s : nodes[i].writes = {s}
          /\ \A x \in Bits : NameOf(x) \in nodes[i].writes => Fixes(nodes[i], ops[i], x)
      BY <3>2 DEF Texts
    <3> QED BY <3>2, <3>3
  <2>2. ASSUME NEW p \in 1 .. n, sorted[p].constant PROVE sorted[p].lone /\ sorted[p].reads = {}
    <3>1. order[p] \in 1 .. n /\ sorted[p] = nodes[order[p]] BY <1>2
    <3> QED BY <2>2, <3>1 DEF Texts
  <2> QED BY <2>1, <2>2 DEF Texts
<1>6. \A i \in 1 .. n : sorted[i].reads \cap sorted[i].writes \cap wires = {} BY <1>2 DEF Lawful
<1>7. Substitutes(n, sorted, o, gone, gone, m, e1, blocks1, ops1) BY DEF o
<1>8. /\ Program(m, blocks1, ops1) /\ a1 \in V
      /\ \A x \in Bits : NameOf(x) \notin names => a1[x] = a[x]
  BY <1>2, <1>5, <1>6, <1>7, InliningKeeps DEF a, a1, names
<1>9. /\ Program(k, blocks2, ops2) /\ a2 \in V
      /\ \A x \in Bits : a2[x] = a1[x]
      /\ \A x \in Bits : back[x] = a1[x]
  BY <1>8, PropagationKeeps DEF a1, a2, back
<1>10. a3 \in V
  <2>1. \A i \in 1 .. k : ops2[i] \in [V -> V] BY <1>9 DEF Program, Obeys, OnlyWrites
  <2>2. l \in Nat /\ \A j \in 1 .. l : ops3[j] \in [V -> V] BY <2>1 DEF Lists
  <2>3. IsTrace(l, ops3, v, Trace(l, ops3, v)) BY <2>2, TraceIs
  <2>4. l \in 0 .. l BY <2>2
  <2> QED BY <2>3, <2>4 DEF IsTrace, After, a3
<1>11. \A x \in Bits : NameOf(x) \in roots => a3[x] = a2[x]
  <2>1. \A p \in 1 .. k : Obeys(blocks2[p], ops2[p]) BY <1>9 DEF Program
  <2>2. Lists(l, e3, k, LiveBlocks(blocks2, roots)) BY DEF roots
  <2>3. \A x \in Bits : NameOf(x) \in LiveSignals(blocks2, roots) => a3[x] = a2[x]
    <3>1. /\ AreBlocks(blocks2, k) /\ Lists(l, e3, k, LiveBlocks(blocks2, roots))
          /\ \A j \in 1 .. l : ops3[j] = ops2[e3[j]]
      BY <2>2
    <3>2. \A x \in Bits : NameOf(x) \in LiveSignals(blocks2, roots) =>
            After(l, ops3, v)[x] = After(k, ops2, v)[x]
      BY ONLY <2>1, <3>1, v \in V, DeadCodeIsDead
    <3> QED BY <3>2 DEF a2, a3
  <2>4. roots \subseteq LiveSignals(blocks2, roots) BY LiveIsClosed
  <2> QED BY <2>3, <2>4
<1>12. names \cap outs = {} /\ names \cap seqReads = {} BY DEF names, Inlinable
<1>13. ASSUME NEW x \in Bits, NameOf(x) \in outs \ locals PROVE a3[x] = F[x]
  <2>1. NameOf(x) \in roots /\ NameOf(x) \notin names BY <1>12, <1>13 DEF roots
  <2> QED BY <1>1, <1>8, <1>9, <1>11, <1>13, <2>1
<1>14. clocked2[a3] = clocked[F]
  <2>1. Alike(seqReads2 \ locals, a3, a1) BY <1>9, <1>11 DEF Alike, roots
  <2>2. clocked2[a3] = clocked2[a1] BY <1>8, <1>10, <2>1
  <2>3. clocked2[a1] = clocked[back] BY <1>8 DEF back
  <2>4. back \in V
    <3> DEFINE q == Only(m, ops1, consts)
    <3>1. Traced(m, blocks1, q, a1, Trace(m, q, a1)) BY <1>8, OnlyIs
    <3>2. m \in 0 .. m BY <1>8 DEF Program
    <3> HIDE DEF q
    <3>3. Trace(m, q, a1)[m] \in V BY <3>1, <3>2 DEF Traced, IsTrace
    <3> QED BY <3>3 DEF back, After, q
  <2>5. Alike(seqReads \ locals, back, F) BY <1>1, <1>8, <1>9, <1>12 DEF Alike
  <2>6. clocked[back] = clocked[F] BY <2>4, <2>5
  <2> QED BY <2>2, <2>3, <2>6
<1> QED BY <1>13, <1>14 DEF a3

-------------------------------------------------------------------------------
\* Nodes that feed each other in a circle, each reading what the one before writes.
DataLoop(nodes, m, c) ==
  /\ c \in [0 .. m -> DOMAIN nodes] /\ c[0] = c[m]
  /\ \A k \in 1 .. m : /\ c[k - 1] # c[k]
                       /\ nodes[c[k]].reads \cap nodes[c[k - 1]].writes # {}

\* Along a loop no places can grow.
LEMMA NothingGrowsRound ==
  ASSUME NEW m \in Nat \ {0}, NEW h, \A k \in 0 .. m : h[k] \in Nat,
         \A k \in 1 .. m : h[k - 1] < h[k]
  PROVE  h[0] < h[m]
<1> DEFINE T == {k \in 0 .. m - 1 : h[0] < h[k + 1]}
<1>1. m - 1 \in Nat /\ 0 \in 0 .. m - 1 OBVIOUS
<1>2. 1 \in 1 .. m /\ 1 - 1 = 0 OBVIOUS
<1>3. h[0] < h[1] BY <1>2
<1>4. 0 \in T BY <1>1, <1>3
<1>5. ASSUME NEW k \in 1 .. m - 1, k - 1 \in T PROVE k \in T
  <2>1. k + 1 \in 1 .. m /\ (k + 1) - 1 = k /\ (k - 1) + 1 = k /\ k \in 0 .. m - 1 OBVIOUS
  <2>2. h[0] < h[k] BY <1>5, <2>1
  <2>3. h[k] < h[k + 1] BY <2>1
  <2>4. h[0] \in Nat /\ h[k] \in Nat /\ h[k + 1] \in Nat BY <2>1
  <2> QED BY <2>1, <2>2, <2>3, <2>4
<1> HIDE DEF T
<1>6. \A k \in 0 .. m - 1 : k \in T BY <1>1, <1>4, <1>5, UpTo
<1>7. m - 1 \in T BY <1>1, <1>6
<1> QED BY <1>7 DEF T

\* A module in which statements feed each other in a circle, through signals or
\* local variables, is refused; if no two statements write one name, no other is.
THEOREM LoopsAreRefused ==
  ASSUME NEW n \in Nat, NEW nodes, AreNodes(nodes, n), NEW locals, Lawful(n, nodes, locals),
         NEW order, order = KahnOrder(SortEdges(nodes, locals))
  PROVE  /\ \A m \in Nat \ {0} : \A c : DataLoop(nodes, m, c) => Len(order) # n
         /\ (\A i, j \in 1 .. n : nodes[i].writes \cap nodes[j].writes # {} => i = j) =>
              (Len(order) # n <=> \E m \in Nat \ {0} : \E c : DataLoop(nodes, m, c))
<1>0. DOMAIN nodes = 1 .. n BY DEF AreNodes
<1>1. ASSUME NEW m \in Nat \ {0}, NEW c, DataLoop(nodes, m, c), Len(order) = n PROVE FALSE
  <2>1. Sorted(n, nodes, locals, order) BY <1>1 DEF Sorted
  <2> DEFINE P(i) == PlaceOf(order, i)
             h == [k \in 0 .. m |-> P(c[k])]
  <2>2. \A k \in 0 .. m : c[k] \in 1 .. n BY <1>0, <1>1 DEF DataLoop
  <2>3. \A i \in 1 .. n : P(i) \in 1 .. n BY <2>1, PlacesFollow
  <2>4. ASSUME NEW i \in 1 .. n, NEW j \in 1 .. n, i # j, nodes[j].reads \cap nodes[i].writes # {}
        PROVE  P(i) < P(j)
    <3>1. PICK s \in nodes[j].reads \cap nodes[i].writes : TRUE BY <2>4
    <3>2. CASE s \in locals
      <4>1. i <= j BY <3>1, <3>2 DEF Lawful
      <4>2. i < j /\ nodes[i].writes \cap InOrder(nodes[j], locals) # {}
        BY <2>4, <3>1, <3>2, <4>1 DEF InOrder
      <4> QED BY <2>1, <4>2, PlacesFollow
    <3>3. CASE s \notin locals
      <4>1. (nodes[j].reads \cap nodes[i].writes) \ locals # {} BY <3>1, <3>3
      <4> QED BY <2>1, <4>1, PlacesFollow
    <3> QED BY <3>2, <3>3
  <2> HIDE DEF P
  <2>5. \A k \in 0 .. m : h[k] = P(c[k]) /\ h[k] \in Nat BY <2>2, <2>3
  <2>6. \A k \in 1 .. m : h[k - 1] < h[k]
    <3> TAKE k \in 1 .. m
    <3>1. k \in 0 .. m /\ k - 1 \in 0 .. m OBVIOUS
    <3>2. c[k - 1] # c[k] /\ nodes[c[k]].reads \cap nodes[c[k - 1]].writes # {} BY <1>1 DEF DataLoop
    <3> QED BY <2>2, <2>4, <2>5, <3>1, <3>2
  <2>7. h[0] = h[m]
    <3>1. 0 \in 0 .. m /\ m \in 0 .. m OBVIOUS
    <3> QED BY <1>1, <2>5, <3>1 DEF DataLoop
  <2> HIDE DEF h
  <2>8. h[0] < h[m] BY <2>5, <2>6, NothingGrowsRound
  <2>9. h[0] \in Nat BY <2>5
  <2> QED BY <2>7, <2>8, <2>9
<1>2. ASSUME \A i, j \in 1 .. n : nodes[i].writes \cap nodes[j].writes # {} => i = j, Len(order) # n
      PROVE  \E m \in Nat \ {0} : \E c : DataLoop(nodes, m, c)
  <2>1. PICK m \in Nat \ {0} : \E c : Cycle(SortEdges(nodes, locals), m, c) BY <1>2, SortIsRight
  <2>2. PICK c : Cycle(SortEdges(nodes, locals), m, c) BY <2>1
  <2>3. SortEdges(nodes, locals) \in Edges(n) BY SortEdgesAre
  <2>4. DOMAIN SortEdges(nodes, locals) = 1 .. n BY <2>3 DEF Edges
  <2>5. c \in [0 .. m -> 1 .. n] /\ c[0] = c[m] BY <2>2, <2>4 DEF Cycle
  <2>6. ASSUME NEW k \in 1 .. m
        PROVE  c[k - 1] # c[k] /\ nodes[c[k]].reads \cap nodes[c[k - 1]].writes # {}
    <3> DEFINE i == c[k - 1]
               j == c[k]
    <3>1. k \in 0 .. m /\ k - 1 \in 0 .. m OBVIOUS
    <3>2. i \in 1 .. n /\ j \in 1 .. n BY <2>5, <3>1
    <3>3. SortEdges(nodes, locals)[i][j] # 0 BY <2>2 DEF Cycle
    <3> HIDE DEF i, j
    <3>4. i # j /\ (SignalsFrom(nodes, locals, i, j) # {} \/ Follows(nodes, locals, i, j))
      BY <3>2, <3>3, SortEdgesAre
    <3>5. CASE SignalsFrom(nodes, locals, i, j) # {} BY <3>4, <3>5 DEF SignalsFrom, i, j
    <3>6. CASE Follows(nodes, locals, i, j)
      <4>1. PICK s \in nodes[i].writes : s \in InOrder(nodes[j], locals) BY <3>6 DEF Follows
      <4>2. s \notin nodes[j].writes BY <1>2, <3>2, <3>4, <4>1
      <4>3. s \in nodes[j].reads BY <4>1, <4>2 DEF InOrder
      <4> QED BY <3>4, <4>1, <4>3 DEF i, j
    <3> QED BY <3>4, <3>5, <3>6
  <2>7. DataLoop(nodes, m, c) BY <1>0, <2>5, <2>6 DEF DataLoop
  <2> QED BY <2>7
<1> QED BY <1>1, <1>2

-------------------------------------------------------------------------------
(* The rounds of _settle_comb: in round r the blocks of group[r] run on    *)
(* the values as they are, and the names of ticked[r] take what the blocks *)
(* make of them.                                                           *)
Round(group, ticked, blocks, ops, v) ==
  [x \in Bits |-> IF \E i \in group : NameOf(x) \in ticked \cap blocks[i].writes
                  THEN ops[CHOOSE i \in group : NameOf(x) \in ticked \cap blocks[i].writes][v][x]
                  ELSE v[x]]
Rounds(R, group, ticked, blocks, ops, v, f) ==
  /\ R \in Nat /\ f[0] = v
  /\ \A r \in 1 .. R : f[r] = Round(group[r], ticked[r], blocks, ops, f[r - 1])
\* What is final after each round, from the names that no block writes.
Finals(R, group, ticked, blocks, free, known) ==
  /\ known[0] = free
  /\ \A r \in 1 .. R : known[r] = known[r - 1] \cup
       (Learnt(known[r - 1], [i \in group[r] |-> blocks[i]]) \cap ticked[r])

\* Blocks that give a value to all that they write, one block for a name; w is
\* what they settle to, and v what was there before, with the same inputs.
Settling(n, blocks, ops, free, w, v) ==
  /\ n \in Nat /\ w \in V /\ v \in V
  /\ \A i \in 1 .. n : Obeys(blocks[i], ops[i])
  /\ \A i \in 1 .. n, x \in Bits : NameOf(x) \in blocks[i].writes =>
       Fixes(blocks[i], ops[i], x) /\ ops[i][w][x] = w[x]
  /\ \A i, j \in 1 .. n : blocks[i].writes \cap blocks[j].writes # {} => i = j
  /\ \A i \in 1 .. n : blocks[i].writes \cap free = {}
  /\ Alike(free, v, w)

\* A name is final only if all that its writer reads is, so it is written again
\* as it is.
LEMMA FinalsHold ==
  ASSUME NEW n, NEW blocks, NEW ops, NEW free, NEW w, NEW v, Settling(n, blocks, ops, free, w, v),
         NEW R, NEW group, NEW ticked, NEW f, Rounds(R, group, ticked, blocks, ops, v, f),
         \A r \in 1 .. R : group[r] \in SUBSET (1 .. n),
         NEW known, Finals(R, group, ticked, blocks, free, known)
  PROVE  \A r \in 0 .. R :
           /\ f[r] \in V /\ Alike(known[r], f[r], w)
           /\ \A i \in 1 .. n : blocks[i].writes \cap known[r] # {} => blocks[i].reads \subseteq known[r]
<1> DEFINE Holds(r) ==
             /\ f[r] \in V /\ Alike(known[r], f[r], w)
             /\ \A i \in 1 .. n : blocks[i].writes \cap known[r] # {} => blocks[i].reads \subseteq known[r]
           T == {r \in 0 .. R : Holds(r)}
<1>1. R \in Nat /\ n \in Nat /\ w \in V BY DEF Rounds, Settling
<1>2. Holds(0) BY DEF Rounds, Finals, Settling
<1>3. ASSUME NEW r \in 1 .. R, Holds(r - 1) PROVE Holds(r)
  <2> DEFINE k == known[r - 1]
             u == f[r - 1]
             gr == group[r]
             new == [i \in gr |-> blocks[i]]
             by(x) == CHOOSE i \in gr : NameOf(x) \in ticked[r] \cap blocks[i].writes
  <2>1. /\ u \in V /\ Alike(k, u, w) /\ gr \in SUBSET (1 .. n)
        /\ \A i \in 1 .. n : blocks[i].writes \cap k # {} => blocks[i].reads \subseteq k
    BY <1>3
  <2>2. \A x \in Bits : (\E i \in gr : NameOf(x) \in ticked[r] \cap blocks[i].writes) =>
          by(x) \in gr /\ by(x) \in 1 .. n /\ NameOf(x) \in blocks[by(x)].writes
    BY <2>1
  <2>3. \A x \in Bits : f[r][x] = IF \E i \in gr : NameOf(x) \in ticked[r] \cap blocks[i].writes
                                  THEN ops[by(x)][u][x] ELSE u[x]
    BY DEF Rounds, Round
  <2>4. f[r] \in V
    <3> HIDE DEF by, gr, u
    <3>1. \A x \in Bits : f[r][x] \in Vals
      <4> TAKE x \in Bits
      <4>1. u[x] \in Vals BY <2>1 DEF V
      <4>2. ASSUME \E i \in gr : NameOf(x) \in ticked[r] \cap blocks[i].writes
            PROVE  ops[by(x)][u][x] \in Vals
        <5>1. by(x) \in 1 .. n BY <2>2, <4>2
        <5>2. ops[by(x)] \in [V -> V] BY <5>1 DEF Settling, Obeys, OnlyWrites
        <5>3. ops[by(x)][u] \in V BY <2>1, <5>2
        <5> QED BY <5>3 DEF V
      <4> QED BY <2>3, <4>1, <4>2
    <3>2. f[r] = [x \in Bits |-> f[r][x]] BY DEF Rounds, Round
    <3> QED BY <3>1, <3>2 DEF V
  <2>5. known[r] = k \cup (Learnt(k, new) \cap ticked[r]) BY DEF Finals
  <2>6. Range(new) = {blocks[i] : i \in gr} BY DEF Range
  <2>7. \A s \in known[r] : s \in k \/ \E i \in gr : s \in blocks[i].writes \cap ticked[r] /\ blocks[i].reads \subseteq k
    <3> HIDE DEF new, k, gr
    <3> QED BY <2>5, <2>6 DEF Learnt
  <2> HIDE DEF new, k, gr, u, by
  <2>8. ASSUME NEW x \in Bits, NameOf(x) \in known[r] PROVE f[r][x] = w[x]
    <3>1. ASSUME NEW i \in 1 .. n, NameOf(x) \in blocks[i].writes, blocks[i].reads \subseteq k
          PROVE  ops[i][u][x] = w[x]
      <4>1. Alike(blocks[i].reads, u, w) BY <2>1, <3>1 DEF Alike
      <4>2. Fixes(blocks[i], ops[i], x) /\ ops[i][w][x] = w[x] BY <3>1 DEF Settling
      <4> QED BY <1>1, <2>1, <4>1, <4>2 DEF Fixes
    <3>2. CASE \E i \in gr : NameOf(x) \in ticked[r] \cap blocks[i].writes
      <4>1. by(x) \in 1 .. n /\ NameOf(x) \in blocks[by(x)].writes BY <2>2, <3>2
      <4>2. blocks[by(x)].reads \subseteq k
        <5>1. CASE NameOf(x) \in k BY <2>1, <4>1, <5>1
        <5>2. CASE NameOf(x) \notin k
          <6>1. PICK i \in gr : NameOf(x) \in blocks[i].writes /\ blocks[i].reads \subseteq k
            BY <2>7, <2>8, <5>2
          <6>2. i = by(x) BY <2>1, <4>1, <6>1 DEF Settling
          <6> QED BY <6>1, <6>2
        <5> QED BY <5>1, <5>2
      <4> QED BY <2>3, <3>1, <3>2, <4>1, <4>2
    <3>3. CASE ~\E i \in gr : NameOf(x) \in ticked[r] \cap blocks[i].writes
      <4>1. NameOf(x) \in k BY <2>7, <2>8, <3>3
      <4> QED BY <2>1, <2>3, <3>3, <4>1 DEF Alike
    <3> QED BY <3>2, <3>3
  <2>9. ASSUME NEW i \in 1 .. n, NEW s \in blocks[i].writes \cap known[r]
        PROVE  blocks[i].reads \subseteq known[r]
    <3>1. CASE s \in k BY <2>1, <2>5, <3>1
    <3>2. CASE s \notin k
      <4>1. PICK j \in gr : s \in blocks[j].writes /\ blocks[j].reads \subseteq k BY <2>7, <3>2
      <4>2. i = j BY <2>1, <4>1 DEF Settling
      <4> QED BY <2>5, <4>1, <4>2
    <3> QED BY <3>1, <3>2
  <2> QED BY <2>4, <2>8, <2>9 DEF Alike
<1> HIDE DEF Holds
<1>4. 0 \in T /\ \A r \in 1 .. R : r - 1 \in T => r \in T
  <2>1. 0 \in 0 .. R /\ \A r \in 1 .. R : r \in 0 .. R BY <1>1
  <2> QED BY <1>2, <1>3, <2>1
<1> HIDE DEF T
<1>5. \A r \in 0 .. R : r \in T BY <1>1, <1>4, UpTo
<1> QED BY <1>5 DEF T, Holds

\* Whatever was there before, the rounds of one call of _settle_comb, or of
\* several, leave at what the blocks settle to every name that they learn; and
\* they learn all names when they have run the blocks, among others, in an order
\* in which each reads what those before it write.
THEOREM CallsSettle ==
  ASSUME NEW n, NEW blocks, NEW ops, NEW free, NEW w, NEW v, Settling(n, blocks, ops, free, w, v),
         NEW R, NEW group, NEW ticked, NEW f, Rounds(R, group, ticked, blocks, ops, v, f),
         \A r \in 1 .. R : group[r] \in SUBSET (1 .. n),
         NEW known, Finals(R, group, ticked, blocks, free, known)
  PROVE  /\ \A x \in Bits : NameOf(x) \in known[R] => f[R][x] = w[x]
         /\ \A e, at :
              /\ \A p \in 1 .. n : e[p] \in 1 .. n /\ at[p] \in 1 .. R /\ e[p] \in group[at[p]]
              /\ \A p \in 1 .. n : blocks[e[p]].writes \subseteq ticked[at[p]]
              /\ \A p \in 1 .. n, q \in 1 .. n : p < q => at[p] < at[q]
              /\ \A p \in 1 .. n : blocks[e[p]].reads \subseteq
                   free \cup UNION {blocks[e[q]].writes : q \in 1 .. p - 1}
              => \A p \in 1 .. n : blocks[e[p]].writes \subseteq known[R]
<1>1. R \in Nat /\ n \in Nat /\ R \in 0 .. R BY DEF Rounds, Settling
<1>2. \A x \in Bits : NameOf(x) \in known[R] => f[R][x] = w[x] BY <1>1, FinalsHold DEF Alike
<1>3. \A r \in 1 .. R : known[r - 1] \subseteq known[r] BY DEF Finals
<1>4. ASSUME NEW a \in 0 .. R, NEW b \in a .. R PROVE known[a] \subseteq known[b]
  <2> DEFINE T == {d \in 0 .. b - a : known[a] \subseteq known[a + d]}
  <2>1. 0 \in T BY <1>1
  <2>2. ASSUME NEW d \in 1 .. b - a, d - 1 \in T PROVE d \in T
    <3>1. a + d \in 1 .. R /\ (a + d) - 1 = a + (d - 1) BY <1>1
    <3> QED BY <1>3, <2>2, <3>1
  <2> HIDE DEF T
  <2>3. b - a \in Nat /\ b - a \in 0 .. b - a BY <1>1
  <2>4. b - a \in T BY <2>1, <2>2, <2>3, UpTo
  <2>5. a + (b - a) = b BY <1>1
  <2> QED BY <2>4, <2>5 DEF T
<1>5. ASSUME NEW e, NEW at,
             \A p \in 1 .. n : e[p] \in 1 .. n /\ at[p] \in 1 .. R /\ e[p] \in group[at[p]],
             \A p \in 1 .. n : blocks[e[p]].writes \subseteq ticked[at[p]],
             \A p \in 1 .. n, q \in 1 .. n : p < q => at[p] < at[q],
             \A p \in 1 .. n : blocks[e[p]].reads \subseteq
               free \cup UNION {blocks[e[q]].writes : q \in 1 .. p - 1},
             NEW p \in 1 .. n, ~(blocks[e[p]].writes \subseteq known[R])
      PROVE  FALSE
  <2> DEFINE Late == {q \in 1 .. n : ~(blocks[e[q]].writes \subseteq known[at[q]])}
  <2>1. p \in Late
    <3>1. at[p] \in 0 .. R /\ R \in at[p] .. R BY <1>1, <1>5
    <3>2. known[at[p]] \subseteq known[R] BY <1>4, <3>1
    <3> QED BY <1>5, <3>2
  <2>2. Late \subseteq Nat BY <1>1
  <2> HIDE DEF Late
  <2>3. PICK q \in Late : \A m \in Late : q <= m BY <2>1, <2>2, SmallestOf
  <2>4. q \in 1 .. n /\ ~(blocks[e[q]].writes \subseteq known[at[q]]) BY <2>3 DEF Late
  <2>5. at[q] \in 1 .. R /\ at[q] - 1 \in 0 .. R BY <1>1, <1>5, <2>4
  <2>6. ASSUME NEW m \in 1 .. q - 1 PROVE blocks[e[m]].writes \subseteq known[at[q] - 1]
    <3>1. m \in 1 .. n /\ m < q BY <1>1, <2>4
    <3>2. m \notin Late BY <2>3, <2>4, <3>1
    <3>3. blocks[e[m]].writes \subseteq known[at[m]] BY <3>1, <3>2 DEF Late
    <3>4. at[m] < at[q] /\ at[m] \in 1 .. R BY <1>5, <2>4, <3>1
    <3>5. at[m] \in 0 .. R /\ at[q] - 1 \in at[m] .. R BY <2>5, <3>4
    <3>6. known[at[m]] \subseteq known[at[q] - 1] BY <1>4, <3>5
    <3> QED BY <3>3, <3>6
  <2>7. free \subseteq known[at[q] - 1]
    <3>1. 0 \in 0 .. R /\ at[q] - 1 \in 0 .. R BY <1>1, <2>5
    <3>2. known[0] = free BY DEF Finals
    <3> QED BY <1>4, <3>1, <3>2
  <2>8. blocks[e[q]].reads \subseteq known[at[q] - 1]
    <3>1. blocks[e[q]].reads \subseteq free \cup UNION {blocks[e[m]].writes : m \in 1 .. q - 1}
      BY <1>5, <2>4
    <3> QED BY <2>6, <2>7, <3>1
  <2>9. e[q] \in group[at[q]] /\ blocks[e[q]].writes \subseteq ticked[at[q]] BY <1>5, <2>4
  <2>10. blocks[e[q]].writes \subseteq known[at[q]]
    <3> DEFINE r == at[q]
               new == [i \in group[r] |-> blocks[i]]
    <3>1. known[r] = known[r - 1] \cup (Learnt(known[r - 1], new) \cap ticked[r])
      BY <2>5 DEF Finals
    <3>2. blocks[e[q]] \in Range(new) BY <2>9 DEF Range
    <3> HIDE DEF r, new
    <3>3. blocks[e[q]].writes \subseteq Learnt(known[r - 1], new) BY <2>8, <3>2 DEF Learnt, r
    <3> QED BY <2>9, <3>1, <3>3 DEF r
  <2> QED BY <2>4, <2>10
<1>6. ASSUME NEW e, NEW at,
              /\ \A p \in 1 .. n : e[p] \in 1 .. n /\ at[p] \in 1 .. R /\ e[p] \in group[at[p]]
              /\ \A p \in 1 .. n : blocks[e[p]].writes \subseteq ticked[at[p]]
              /\ \A p \in 1 .. n, q \in 1 .. n : p < q => at[p] < at[q]
              /\ \A p \in 1 .. n : blocks[e[p]].reads \subseteq
                   free \cup UNION {blocks[e[q]].writes : q \in 1 .. p - 1}
      PROVE  \A p \in 1 .. n : blocks[e[p]].writes \subseteq known[R]
  <2> SUFFICES ASSUME NEW p \in 1 .. n, ~(blocks[e[p]].writes \subseteq known[R]) PROVE FALSE
    OBVIOUS
  <2> QED BY <1>5, <1>6
<1> QED BY <1>2, <1>6
===============================================================================
