-------------------------------- MODULE TopoSort --------------------------------
(***************************************************************************)
(* topo_sort_comb (flatten.py): the edges between the combinational nodes  *)
(* of a module, and Kahn's algorithm, level by level.  A node has the      *)
(* number of its block and the names it reads and writes.                  *)
(***************************************************************************)
EXTENDS Integers, SequencesExt

Writers(nodes, s) == {i \in DOMAIN nodes : s \in nodes[i].writes}

\* The signals that a node reads from another: from the last of their writers.
SignalsFrom(nodes, locals, i, j) ==
  {s \in (nodes[j].reads \cap nodes[i].writes) \ locals : i = Max(Writers(nodes, s))}

\* In a block a local variable is read after the latest write above the reader,
\* and writes of one name keep their order.
HeldBy(node, locals) == node.reads \cap locals                      \* mutant
InOrder(node, locals) == (node.reads \cap locals) \cup node.writes
Follows(nodes, locals, i, j) ==
  /\ i < j /\ nodes[i].bid = nodes[j].bid
  /\ \E s \in nodes[i].writes \cap InOrder(nodes[j], locals) :
       \A k \in i + 1 .. j - 1 : ~(nodes[k].bid = nodes[i].bid /\ s \in nodes[k].writes)

\* How often node j is among the consumers of node i.
SortEdges(nodes, locals) ==
  [i \in DOMAIN nodes |-> [j \in DOMAIN nodes |->
     LET signals == SignalsFrom(nodes, locals, i, j)
     IN IF i = j THEN 0
        ELSE IF signals # {} THEN Cardinality(signals)
        ELSE IF Follows(nodes, locals, i, j) THEN 1 ELSE 0]]

\* The sort key of a level: the consumers in order; nodes without one are last.
LevelKey(edges, i) ==
  LET n == Len(edges)
  IN IF \A j \in 1 .. n : edges[i][j] = 0 THEN <<n + 1>>
     ELSE FlattenSeq([j \in 1 .. n |-> [k \in 1 .. edges[i][j] |-> j]])
KeyLess(s, t) ==
  \E i \in 1 .. Len(t) :
    /\ \A j \in 1 .. i - 1 : j <= Len(s) /\ s[j] = t[j]
    /\ i > Len(s) \/ s[i] < t[i]

\* Equal keys: the order of the nodes here, the order in which they became ready in
\* the code (two of a level have no edge).
LevelBefore(edges, i, j) ==
  \/ KeyLess(LevelKey(edges, i), LevelKey(edges, j))
  \/ LevelKey(edges, i) = LevelKey(edges, j) /\ i < j

\* The nodes that wait for none but those of done, and these in order.
Ready(edges, done) ==
  {j \in DOMAIN edges \ done : \A i \in DOMAIN edges \ done : edges[i][j] = 0}
Level(edges, ready) ==
  [k \in 1 .. Cardinality(ready) |->
     CHOOSE j \in ready : Cardinality({i \in ready : LevelBefore(edges, i, j)}) = k - 1]

\* Kahn's algorithm: as many levels as there are nodes are enough.
KahnOrder(edges) ==
  LET order[k \in 0 .. Len(edges)] ==
        IF k = 0 THEN <<>>
        ELSE LET prev == order[k - 1] IN prev \o Level(edges, Ready(edges, Range(prev)))
  IN order[Len(edges)]

\* What the sort presupposes of the nodes: none reads the signal that it drives,
\* the writers of a name are statements of one block, and so is the reader of a
\* local variable, which is not written again after it.
Lawful(n, nodes, locals) ==
  /\ \A i \in 1 .. n : nodes[i].reads \cap nodes[i].writes \subseteq locals
  /\ \A i, j \in 1 .. n : nodes[i].writes \cap nodes[j].writes # {} => nodes[i].bid = nodes[j].bid
  /\ \A i, j \in 1 .. n : nodes[j].reads \cap nodes[i].writes \cap locals # {}
                            => nodes[i].bid = nodes[j].bid /\ i <= j
=================================================================================
