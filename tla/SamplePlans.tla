----------------------------- MODULE SamplePlans -----------------------------
(***************************************************************************)
(* Plans over three relations with all combinations of transfers between   *)
(* them, in all orders of joining them, for several shapes of the plan.    *)
(***************************************************************************)
EXTENDS Integers, Sequences, SequencesExt

CONSTANT Shapes   \* see Upper and Lower

O(kind, child, flag) == [kind |-> kind, child |-> child, related |-> <<>>, flag |-> flag]

\* The operators of relation i are at Top(i) to Top(i) + 4: the backward
\* CreateBF and UseBF, the forward CreateBF and UseBF, and the relation itself.
Top(i)      == 5 * i - 1
Backward(i) == Top(i)
Forward(i)  == Top(i) + 2

\* An operator that no link needs is an ordinary one.
Use(creators, below) ==
  IF creators = {} THEN O("streaming", <<below>>, FALSE)
  ELSE [O("use_bf", <<below>>, FALSE) EXCEPT !.related = SetToSortSeq(creators, <)]

Create(links, i, below) ==
  O(IF \E l \in links : l.from = i THEN "create_bf" ELSE "streaming", <<below>>, FALSE)

Relation(i, forward, backward, bottom) ==
  LET t == Top(i)
  IN  <<Create(backward, i, t + 1),
        Use({Backward(l.from) : l \in {x \in backward : x.to = i}}, t + 2),
        Create(forward, i, t + 3),
        Use({Forward(l.from) : l \in {x \in forward : x.to = i}}, t + 4),
        bottom>>

\* Operators 2 and 3, for the relations in the order x, y, z.
Upper(shape, x, y, z, flag) ==
  CASE shape = "right"  -> <<O("join", <<Top(z), 3>>, flag), O("join", <<Top(x), Top(y)>>, TRUE)>>
    [] shape = "iejoin" -> <<O("iejoin", <<3, Top(z)>>, FALSE), O("join", <<Top(x), Top(y)>>, flag)>>
    [] shape = "ierhs"  -> <<O("iejoin", <<Top(z), 3>>, FALSE), O("join", <<Top(x), Top(y)>>, flag)>>
    [] shape = "union"  -> <<O("join", <<3, Top(z)>>, TRUE), O("union", <<Top(x), Top(y)>>, flag)>>
    [] OTHER            -> <<O("join", <<3, Top(z)>>, flag), O("join", <<Top(x), Top(y)>>, TRUE)>>

\* The third relation is a table, a set operation over a join, or an aggregate
\* over a join.
Lower(shape, flag) ==
  CASE shape = "setop"     -> O("union", <<20, 22>>, flag)
    [] shape = "aggregate" -> O("sink", <<20>>, FALSE)
    [] OTHER               -> O("source", <<>>, FALSE)

\* What is below it.
Bottom(shape) ==
  LET join == <<O("source", <<>>, FALSE), O("join", <<19, 21>>, TRUE), O("source", <<>>, FALSE)>>
  IN  CASE shape = "setop"     -> join \o <<O("source", <<>>, FALSE)>>
        [] shape = "aggregate" -> join
        [] OTHER               -> <<>>

Plan(shape, order, flag, forward, backward) ==
  <<O("sink", <<2>>, FALSE)>>
    \o Upper(shape, order[1], order[2], order[3], flag)
    \o Relation(1, forward, backward, O("source", <<>>, FALSE))
    \o Relation(2, forward, backward, O("source", <<>>, FALSE))
    \o Relation(3, forward, backward, Lower(shape, flag))
    \o Bottom(shape)

Link(i, j)    == [from |-> i, to |-> j]
ForwardLinks  == {Link(1, 2), Link(1, 3), Link(2, 3)}
BackwardLinks == {Link(3, 2), Link(3, 1), Link(2, 1)}

SamplePlansOf(flags) ==
  {Plan(s, p, g, f, b) :
     s \in Shapes, p \in SetToSeqs(1..3), g \in flags,
     f \in SUBSET ForwardLinks, b \in SUBSET BackwardLinks}
=============================================================================
