------------------------- MODULE MCPredicateTransfer -------------------------
(***************************************************************************)
(* PredicateTransfer on queries over three relations with two columns.     *)
(***************************************************************************)
EXTENDS PredicateTransfer

CONSTANT MaxRows  \* rows of one relation

Cond(m, mcol, n, ncol, type) ==
  [left |-> m, lcol |-> mcol, right |-> n, rcol |-> ncol, type |-> type]

Q(card, conds) == [nodes |-> 1..3, card |-> card, conds |-> conds]

Sizes == {<<1, 2, 3>>, <<3, 2, 2>>}

\* Acyclic, connected inner joins: a chain, a star, an edge with a composite
\* key, and a triangle of conditions that only a maximum-weight tree cuts open
\* without losing a condition.
Chain     == {Cond(1, 0, 2, 0, "INNER"), Cond(2, 1, 3, 0, "INNER")}
Star      == {Cond(1, 0, 2, 0, "INNER"), Cond(3, 0, 1, 1, "SEMI")}
Composite == {Cond(1, 0, 2, 0, "INNER"), Cond(1, 1, 2, 1, "INNER"), Cond(2, 1, 3, 0, "INNER")}
Shared    == Composite \cup {Cond(1, 1, 3, 0, "INNER")}

Acyclic == {Q(k, c) : k \in Sizes, c \in {Chain, Star, Composite, Shared}}

\* A cycle, outer joins in either direction, a composite outer join, two
\* components, and conditions on a table that is no node of the query.
Cycle    == {Cond(1, 0, 2, 0, "INNER"), Cond(2, 1, 3, 0, "INNER"), Cond(3, 1, 1, 1, "INNER")}
Outer    == {Cond(1, 0, 2, 0, "LEFT"), Cond(2, 1, 3, 0, "INNER")}
Outer2   == {Cond(1, 0, 2, 0, "RIGHT"), Cond(3, 0, 2, 1, "LEFT")}
Outer3   == {Cond(1, 0, 2, 0, "LEFT"), Cond(1, 1, 2, 1, "LEFT"), Cond(2, 1, 3, 0, "MARK")}
Separate == {Cond(1, 0, 2, 0, "INNER")}

General ==
  {Q(k, c) : k \in Sizes, c \in {Cycle, Outer, Outer2, Outer3, Separate}}
    \cup {[nodes |-> {1, 2}, card |-> <<1, 2, 3>>, conds |-> c] : c \in {Chain, {Cond(2, 1, 3, 0, "INNER")}}}
    \cup {[nodes |-> {1}, card |-> <<1, 2, 3>>, conds |-> {}]}

AsRow(p) == [i \in Column |-> p[i + 1]]

\* Relations without nulls.  Relation 1 has the row <<0, 0>>, which is no loss:
\* its columns are never joined with each other, so the values of each column,
\* and of the columns it is joined with, can be renamed.
SmallDatabases ==
  {d \in [Table -> {S \in SUBSET [Column -> Value \ {Null}] : Cardinality(S) \in 1..MaxRows}] :
     AsRow(<<0, 0>>) \in d[1]}

\* Rows of one relation with a null in either column or none.
NullRows == {<<0, 0>>, <<0, Null>>, <<Null, 1>>}

NullDatabases ==
  [Table -> {S \in SUBSET {AsRow(p) : p \in NullRows} : Cardinality(S) \in 1..MaxRows}]

OneLucky == {AsRow(<<0, Null>>)}

AllQueries == Acyclic \cup General

\* The acyclic queries run on relations whose rows no filter lets through by
\* accident, the others on relations with nulls and false positives.
MCDatabases(q) == IF q \in Acyclic THEN SmallDatabases ELSE NullDatabases

-----------------------------------------------------------------------------

\* After both passes every remaining row of an acyclic query whose filters are
\* exact takes part in the result: the two passes are a full reducer.
FullyReduced ==
  query \in Acyclic /\ phase = "execute" /\ Complete =>
    LET result == Abstract!JoinResult(base)
    IN  \A n \in query.nodes : \A r \in Live[n] :
          \E t \in result : n \in DOMAIN t /\ t[n] = r

=============================================================================
