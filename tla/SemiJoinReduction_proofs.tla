---------------------- MODULE SemiJoinReduction_proofs ----------------------
(***************************************************************************)
(* Semi-join reduction does not change the result of the joins, for any    *)
(* query of inner and outer joins and any contents of the base relations.  *)
(***************************************************************************)
EXTENDS SemiJoinReduction, TLAPS

\* The reduction keeps all combinations of rows, not only those that make up
\* the result: a combination is in the result because others are missing.
Inv ==
  /\ nodes \subseteq Table
  /\ base \in [Table -> SUBSET Row]
  /\ live \in [Table -> SUBSET Row]
  /\ Combinations(live) = Combinations(base)

\* A row of a combination has a match in every relation that may remove it, so
\* it is not dangling: the combination has a row of that relation, because it
\* may leave out only relations whose conditions preserve the row.
LEMMA CombinedRowsNotDangling ==
  ASSUME nodes \subseteq Table, live \in [Table -> SUBSET Row],
         NEW t \in Combinations(live), NEW n \in DOMAIN t
  PROVE  ~Dangling(n, t[n])
<1>1. SUFFICES ASSUME NEW m \in nodes, Reducing(n, m) # {},
                      \A s \in live[m] : \E c \in Reducing(n, m) : ~Holds(c, n, t[n], s)
               PROVE  FALSE
  BY DEF Dangling
<1>2. n \in nodes
  BY DEF Combinations
<1>3. ASSUME NEW c \in Reducing(n, m)
      PROVE  /\ m \in DOMAIN t
             /\ Holds(c, n, t[n], t[m])
  <2>1. /\ c \in conds
        /\ \/ c.left = n /\ c.right = m /\ c.type # "LEFT"
           \/ c.left = m /\ c.right = n /\ c.type # "RIGHT"
    BY <1>3 DEF Reducing
  <2>2. Satisfies(t, c)
    BY <1>1, <1>2, <2>1 DEF Combinations
  <2>3. CASE {c.left, c.right} \subseteq DOMAIN t
    <3>1. SqlEq(t[c.left][c.lcol], t[c.right][c.rcol])
      BY <2>2, <2>3 DEF Satisfies
    <3> QED
      BY <2>1, <2>3, <3>1 DEF Holds
  <2>4. CASE ~({c.left, c.right} \subseteq DOMAIN t)
    <3>1. Preserves(c, n)
      BY <2>1, <2>2, <2>4 DEF Satisfies
    <3>2. m \notin DOMAIN t /\ m # n
      BY <2>1, <2>4
    <3> QED
      BY <2>1, <3>1, <3>2 DEF Preserves
  <2> QED
    BY <2>3, <2>4
<1>4. m \in DOMAIN t
  BY <1>1, <1>3
<1>5. t[m] \in live[m]
  BY <1>4 DEF Combinations
<1> QED
  BY <1>1, <1>3, <1>5

\* A step that removes dangling rows keeps the combinations.
LEMMA ReduceKeepsResult ==
  ASSUME Inv, NEW n \in nodes, NEW R \in SUBSET live[n], Reduce(n, R)
  PROVE  Inv'
<1> USE DEF Inv, Reduce
<1>1. /\ nodes' \subseteq Table
      /\ base' \in [Table -> SUBSET Row]
      /\ live' \in [Table -> SUBSET Row]
  OBVIOUS
<1>2. \A m \in Table : live'[m] = IF m = n THEN live[n] \ R ELSE live[m]
  OBVIOUS
<1>3. \A t \in Combinations(live) : n \in DOMAIN t => t[n] \notin R
  <2>1. SUFFICES ASSUME NEW t \in Combinations(live), n \in DOMAIN t, t[n] \in R
                 PROVE  FALSE
    OBVIOUS
  <2>2. Dangling(n, t[n])
    BY <2>1
  <2> QED
    BY <2>1, <2>2, CombinedRowsNotDangling
<1>4. Combinations(live') = Combinations(live)
  <2>1. ASSUME NEW t \in Combinations(live') PROVE t \in Combinations(live)
    <3>1. PICK D \in (SUBSET nodes) \ {{}} : t \in [D -> UNION {live'[m] : m \in D}]
      BY <2>1 DEF Combinations
    <3>2. \A m \in DOMAIN t : t[m] \in live[m]
      BY <1>2, <2>1, <3>1 DEF Combinations
    <3>3. t \in [D -> UNION {live[m] : m \in D}]
      BY <3>1, <3>2
    <3> QED
      BY <2>1, <3>1, <3>2, <3>3 DEF Combinations
  <2>2. ASSUME NEW t \in Combinations(live) PROVE t \in Combinations(live')
    <3>1. PICK D \in (SUBSET nodes) \ {{}} : t \in [D -> UNION {live[m] : m \in D}]
      BY <2>2 DEF Combinations
    <3>2. \A m \in DOMAIN t : t[m] \in live'[m]
      BY <1>2, <1>3, <2>2, <3>1 DEF Combinations
    <3>3. t \in [D -> UNION {live'[m] : m \in D}]
      BY <3>1, <3>2
    <3> QED
      BY <2>2, <3>1, <3>2, <3>3 DEF Combinations
  <2> QED
    BY <2>1, <2>2
<1>5. /\ Combinations(live)' = Combinations(live')
      /\ Combinations(base)' = Combinations(base)
  BY DEF Combinations, Satisfies
<1> QED
  BY <1>1, <1>4, <1>5

\* The result of the joins stays what it was, for every query of inner and
\* outer joins, every database and any number of reductions.
THEOREM ReductionKeepsResult == Spec => []ResultKept
<1>1. Init => Inv
  BY DEF Init, Inv
<1>2. Inv /\ [Next]_vars => Inv'
  <2>1. ASSUME Inv, Next PROVE Inv'
    BY <2>1, ReduceKeepsResult DEF Next
  <2>2. ASSUME Inv, UNCHANGED vars PROVE Inv'
    BY <2>2 DEF Inv, Combinations, Satisfies, vars
  <2> QED
    BY <2>1, <2>2
<1>3. Inv => ResultKept
  BY DEF Inv, ResultKept, JoinResult
<1> QED
  BY <1>1, <1>2, <1>3, PTL DEF Spec

=============================================================================
