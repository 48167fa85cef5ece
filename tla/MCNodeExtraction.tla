-------------------------- MODULE MCNodeExtraction --------------------------
(***************************************************************************)
(* Plans of two inputs that are joined in all ways, each input being one   *)
(* of several subqueries.                                                  *)
(***************************************************************************)
EXTENDS NodeExtraction

CONSTANTS
  Inputs,   \* see Input
  Joins,    \* join types
  Filters   \* what a MARK join's mark is used for

Operator(kind, child, source) ==
  [kind |-> kind, child |-> child, source |-> source, join |-> "NONE", conds |-> {}, expr |-> "none"]
Get              == Operator("get", <<>>, NoColumn)
Project(s, col)  == Operator("projection", <<s>>, col)
Equal(l, r)      == {[left |-> l, right |-> r]}
Join(type, l, r, conds) == [Operator("join", <<l, r>>, NoColumn) EXCEPT !.join = type, !.conds = conds]
DelimGet         == Operator("delim_get", <<>>, NoColumn)
DelimJoin(type, l, r, conds) == [Join(type, l, r, conds) EXCEPT !.kind = "delim_join"]
Filter(expr, s)  == [Operator("filter", <<s>>, NoColumn) EXCEPT !.expr = expr]

\* Six operators at s to s + 5, the last ones unused.
Input(kind, s) ==
  CASE kind = "get"      -> <<Get, Get, Get, Get, Get, Get>>
    [] kind = "filter"   -> <<Filter("other", s + 1), Get, Get, Get, Get, Get>>
    [] kind = "project"  -> <<Project(s + 1, s + 1), Get, Get, Get, Get, Get>>
    [] kind = "computed" -> <<Project(s + 1, NoColumn), Get, Get, Get, Get, Get>>
    [] kind = "order"    -> <<Project(s + 1, s + 2), Operator("order", <<s + 2>>, NoColumn), Get, Get, Get, Get>>
    [] kind = "limit"    -> <<Project(s + 1, s + 2), Operator("limit", <<s + 2>>, NoColumn), Get, Get, Get, Get>>
    [] kind = "window"   -> <<Project(s + 1, s + 2), Operator("window", <<s + 2>>, NoColumn), Get, Get, Get, Get>>
    [] kind = "rank"     -> <<Project(s + 1, s + 1), Operator("window", <<s + 2>>, NoColumn), Get, Get, Get, Get>>
    [] kind = "total"    -> <<Project(s + 1, s + 1), Operator("total", <<s + 2>>, NoColumn), Get, Get, Get, Get>>
    [] kind = "union"    -> <<Project(s + 1, s + 1), Operator("union", <<s + 2, s + 3>>, NoColumn), Get, Get, Get, Get>>
    [] kind = "group"    -> <<Project(s + 1, s + 1), Operator("aggregate", <<s + 2>>, s + 3),
                              Join("INNER", s + 3, s + 4, Equal(s + 3, s + 4)), Get, Get, Get>>
    [] kind = "product"  -> <<Operator("product", <<s + 1, s + 2>>, NoColumn), Get, Get, Get, Get, Get>>
    [] kind = "not in"   -> <<Project(s + 1, s + 3), Filter("not", s + 2),
                              Join("MARK", s + 3, s + 4, Equal(s + 3, s + 4)), Get, Get, Get>>
    [] kind = "correlated" -> <<Filter("not", s + 1), DelimJoin("MARK", s + 2, s + 3, Equal(s + 2, s + 4)),
                                Get, Join("INNER", s + 4, s + 5, Equal(s + 4, s + 5)), Get, DelimGet>>
    [] kind = "lateral"  -> <<Project(s + 1, s + 2), DelimJoin("LEFT", s + 2, s + 3, Equal(s + 2, s + 3)),
                              Get, Operator("aggregate", <<s + 4>>, s + 4), DelimGet, Get>>

\* The column of an input that is joined.
JoinColumn(kind, s) ==
  CASE kind \in {"filter", "product"} -> s + 1
    [] kind = "correlated" -> s + 2
    [] OTHER -> s

Plan(top, type, l, r) ==
  <<Project(2, JoinColumn(l, 4)), top, Join(type, 4, 10, Equal(JoinColumn(l, 4), JoinColumn(r, 10)))>>
    \o Input(l, 4) \o Input(r, 10)

MCLogicalPlans ==
  {Plan(top, type, l, r) :
     top \in {Operator("order", <<3>>, NoColumn), Filter("not", 3)}, type \in Joins \ {"MARK"},
     l \in Inputs, r \in Inputs}
  \cup {Plan(top, type, l, r) :
     top \in {IF f = "none" THEN Operator("order", <<3>>, NoColumn) ELSE Filter(f, 3) : f \in Filters},
     type \in Joins \cap {"MARK"}, l \in Inputs, r \in Inputs}
=============================================================================
