--------------------------- MODULE MCTransferGraph ---------------------------
(***************************************************************************)
(* TransferGraph on every join graph over a few relations, where a pair of *)
(* relations has no condition, one or two inner conditions, or the         *)
(* condition of an outer join, which preserves one of the sides.           *)
(***************************************************************************)
EXTENDS TransferGraph, Graphs

CONSTANTS
  MaxTable,     \* the relations are 1..MaxTable
  Cardinalities \* the estimated cardinalities tried

Tables == 1..MaxTable

\* No two relations alike, and ties that std::sort may order either way.
DistinctAndTied == {<<1, 2, 3, 4>>, <<2, 1, 2, 2>>}

Cond(m, n, col, type) ==
  [left |-> m, lcol |-> col, right |-> n, rcol |-> col, type |-> type]

\* The conditions a pair of relations may have.
Links(m, n) ==
  << {},
     {Cond(m, n, 0, "INNER")},
     {Cond(m, n, 0, "INNER"), Cond(m, n, 1, "SEMI")},
     {Cond(m, n, 0, IF n = m + 1 THEN "LEFT" ELSE "RIGHT")} >>

Pairs == {p \in Tables \X Tables : p[1] < p[2]}

AllQueries ==
  {[nodes |-> Tables, card |-> k, conds |-> UNION {Links(p[1], p[2])[f[p]] : p \in Pairs}] :
     k \in Cardinalities, f \in [Pairs -> 1..4]}

-----------------------------------------------------------------------------

Heavy(E, w) ==
  [node |-> query.nodes,
   edge |-> {p \in query.nodes \X query.nodes : Cardinality(Between(E, p[1], p[2])) >= w}]

Components(G) ==
  LET C == ConnectionsIn(G)
  IN  {{n \in G.node : C[m, n]} : m \in G.node}

Finished == phase = "optimize" /\ edges # {}

\* LargestRoot returns a spanning forest of maximum weight: at every weight
\* the selected conditions connect what all conditions of that weight
\* connect, and they close no cycle.  A maximum-weight tree is what makes the
\* two passes reduce an acyclic query completely.
MaximumSpanningForest ==
  Finished =>
    /\ \A w \in 1..2 : Components(Heavy(selected, w)) = Components(Heavy(edges, w))
    /\ Cardinality(Heavy(selected, 1).edge) \div 2
         = Cardinality(query.nodes) - Cardinality(Components(Heavy(edges, 1)))

=============================================================================
