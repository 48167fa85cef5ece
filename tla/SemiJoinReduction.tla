-------------------------- MODULE SemiJoinReduction --------------------------
(***************************************************************************)
(* What predicate transfer promises, free of how it does it: rows of the   *)
(* base relations disappear before the joins run, and a row disappears     *)
(* only if, for some other relation, no remaining row matches it on the    *)
(* conditions that join the two, where conditions that preserve the row's  *)
(* side do not count.  The result of the joins, outer joins included, is   *)
(* then what it would be without the reduction.                            *)
(***************************************************************************)
EXTENDS Integers, FiniteSets

CONSTANTS
  Table,   \* table indices
  Column,  \* column indices
  Value,   \* column values
  Null     \* the SQL null: equal to nothing

Row == [Column -> Value]

VARIABLES
  nodes,  \* the relations of the query
  conds,  \* its equality conditions
  base,   \* the rows each relation holds
  live    \* the rows each relation still hands to the joins

vars == <<nodes, conds, base, live>>

\* Conditions that join n with m and let a row of n go when m has no match.
Reducing(n, m) ==
  {c \in conds : \/ c.left = n /\ c.right = m /\ c.type # "LEFT"
                 \/ c.left = m /\ c.right = n /\ c.type # "RIGHT"}

SqlEq(x, y) == x = y /\ x # Null

\* Condition c between row r of relation n and row s of the other relation.
Holds(c, n, r, s) ==
  IF n = c.left THEN SqlEq(r[c.lcol], s[c.rcol]) ELSE SqlEq(s[c.lcol], r[c.rcol])

Dangling(n, r) ==
  \E m \in nodes :
    /\ Reducing(n, m) # {}
    /\ \A s \in live[m] : \E c \in Reducing(n, m) : ~Holds(c, n, r, s)

Init ==
  /\ nodes \subseteq Table
  /\ base \in [Table -> SUBSET Row]
  /\ live = base

\* Some dangling rows of relation n disappear.
Reduce(n, R) ==
  /\ R \subseteq {r \in live[n] : Dangling(n, r)}
  /\ live' = [live EXCEPT ![n] = live[n] \ R]
  /\ UNCHANGED <<nodes, conds, base>>

Next == \E n \in nodes : \E R \in SUBSET live[n] : Reduce(n, R)

Spec == Init /\ [][Next]_vars

-----------------------------------------------------------------------------

\* The outer join of condition c keeps rows of n that have no match.
Preserves(c, n) ==
  \/ c.type = "LEFT"  /\ n = c.left
  \/ c.type = "RIGHT" /\ n = c.right

\* Rows t of some of the relations satisfy condition c: both ends are there and
\* match, or only an end that c preserves.
Satisfies(t, c) ==
  LET ends == {c.left, c.right}
  IN  IF ends \subseteq DOMAIN t THEN SqlEq(t[c.left][c.lcol], t[c.right][c.rcol])
                                ELSE \A n \in ends \cap DOMAIN t : Preserves(c, n)

\* One row from each of some relations such that every condition is satisfied.
Combinations(rows) ==
  {t \in UNION {[D -> UNION {rows[n] : n \in D}] : D \in (SUBSET nodes) \ {{}}} :
     /\ \A n \in DOMAIN t : t[n] \in rows[n]
     /\ \A c \in conds : {c.left, c.right} \subseteq nodes => Satisfies(t, c)}

\* The rows of the result: the combinations that are not part of a larger one.
\* The columns of a relation outside DOMAIN t are filled with nulls.
JoinResult(rows) ==
  LET all == Combinations(rows)
  IN  {t \in all : \A u \in all :
         DOMAIN t \subseteq DOMAIN u /\ (\A n \in DOMAIN t : u[n] = t[n]) => u = t}

\* The joins have the result they would have without the reduction: no row of
\* it is lost, a preserved row without a match included, and no row that had a
\* match appears with nulls instead.
ResultKept == JoinResult(live) = JoinResult(base)

=============================================================================
