---------------------------- MODULE NodeExtraction ----------------------------
(***************************************************************************)
(* What the transfer graph is made of: NodesManager::ExtractNodes walks    *)
(* the logical plan, collects the relations that can be filtered, the      *)
(* joins whose conditions become edges, and which columns are other        *)
(* columns renamed.                                                        *)
(*                                                                         *)
(* Every optimizer has its own NodesManager, but all optimizers of the     *)
(* process share the flag can_add_mark, a global variable without a lock.  *)
(* The calls of the recursive descent are a stack; one step reads or       *)
(* writes the flag at most once, except to set it after having read it.    *)
(***************************************************************************)
EXTENDS Integers, Sequences, FiniteSets, SequencesExt

CONSTANTS
  LogicalPlans,   \* the plans, as filter pushdown left them
  Connection,     \* each optimizes one query at a time
  MaxQueries      \* how many queries each connection optimizes

\* A plan maps its operators, numbered from the root 1, to records.  An operator
\* with a table index has one column, which has the operator's number.
\*   child    the operators below
\*   source   the column that a projection, or an aggregate as its group, renames
\*   join     the type of a join, conds its equalities of two columns
\*   expr     whether a filter keeps marked rows, drops them, or neither
Kinds == {"get", "filter", "projection", "aggregate", "total", "window", "limit",
          "order", "union", "join", "delim_join", "product", "delim_get"}
JoinTypes == {"INNER", "LEFT", "RIGHT", "SEMI", "RIGHT_SEMI", "MARK", "ANTI", "OUTER", "NONE"}

NoColumn == 0

\* A join decorrelates a subquery if it is a delim join; a delim get below it
\* reads the values the subquery is evaluated for.
JoinKinds == {"join", "delim_join"}
TableKinds == {"get", "delim_get"}

ASSUME NodeExtractionAssumption ==
  /\ MaxQueries \in Nat \ {0}
  /\ \A p \in LogicalPlans :
       /\ Len(p) \in Nat \ {0} /\ DOMAIN p = 1..Len(p)
       /\ \A op \in DOMAIN p :
            /\ p[op].kind \in Kinds
            /\ p[op].join \in JoinTypes
            /\ p[op].kind \notin JoinKinds => p[op].join = "NONE"
            /\ p[op].child \in Seq(DOMAIN p)
            /\ p[op].kind = "filter" => Len(p[op].child) = 1
            /\ \A i \in DOMAIN p[op].child :
                 /\ p[op].child[i] # 1
                 /\ \A x \in DOMAIN p : \A j \in DOMAIN p[x].child :
                      p[x].child[j] = p[op].child[i] => x = op

VARIABLES
  can_add_mark,   \* the global flag
  opt             \* the state of each connection's optimizer

vars == <<can_add_mark, opt>>

-----------------------------------------------------------------------------
(* The collections of a NodesManager *)

\* The table index of a node; that of a filter is the one of the table below.
TableIndex(p, op) == IF p[op].kind = "filter" THEN p[op].child[1] ELSE op

\* Only the first operator with a table index is kept.
AddNode(o, op) ==
  IF \E n \in o.nodes : TableIndex(o.plan, n) = TableIndex(o.plan, op) THEN o
  ELSE [o EXCEPT !.nodes = @ \cup {op}]

\* The columns of an operator that are columns of its child.
Rename(o, op) ==
  IF o.plan[op].source = NoColumn THEN o
  ELSE [o EXCEPT !.rename_cols = @ \cup {<<op, o.plan[op].source>>}]

\* Follow the renames to the column of a node.
FindRename(o, col) ==
  LET renamed(c) == {r \in o.rename_cols : r[1] = c}
      follow[n \in 0..Cardinality(o.rename_cols)] ==
        LET c == IF n = 0 THEN col ELSE follow[n - 1]
        IN  IF n > 0 /\ renamed(c) # {} THEN (CHOOSE r \in renamed(c) : TRUE)[2] ELSE c
  IN  follow[Cardinality(o.rename_cols)]

\* A join with an equality of two columns becomes an edge.
AddFilterOperator(o, op) ==
  IF o.plan[op].conds = {} THEN o ELSE [o EXCEPT !.filter_operators = @ \cup {op}]

-----------------------------------------------------------------------------
(* ExtractNodes *)

Call(fn, op) == [fn |-> fn, op |-> op]
Extract(ops) == [i \in DOMAIN ops |-> Call("ExtractNodes", ops[i])]

TopOp(k)   == Head(opt[k].calls).op
Top(k)     == opt[k].plan[TopOp(k)]
Child(k)   == opt[k].plan[Top(k).child[1]]

Calling(k, fn, kinds) ==
  /\ opt[k].calls # <<>>
  /\ Head(opt[k].calls).fn = fn
  /\ Top(k).kind \in kinds

\* The call on top is replaced by the calls it makes.
Continue(k, o, calls) == opt' = [opt EXCEPT ![k] = [o EXCEPT !.calls = calls \o Tail(@)]]

\* The loop passes operators with one child that are no relation.
PassOperator(k) ==
  /\ Calling(k, "ExtractNodes", {"limit", "order"})
  /\ Continue(k, opt[k], Extract(Top(k).child))
  /\ UNCHANGED can_add_mark

\* A filter over a table is a node; the table is not visited.
ExtractFilteredTable(k) ==
  /\ Calling(k, "ExtractNodes", {"filter"})
  /\ Child(k).kind = "get"
  /\ Continue(k, AddNode(opt[k], TopOp(k)), <<>>)
  /\ UNCHANGED can_add_mark

\* The join below is a comparison join; the join of a correlated NOT IN is not.
IsNotIn(k) == Top(k).expr = "not" /\ Child(k).kind = "join"

\* The filter does not tell the join below that its mark is negated.
ExtractFilterUnaware(k) ==
  /\ Calling(k, "ExtractNodes", {"filter"})
  /\ Child(k).kind # "get"
  /\ can_add_mark' = TRUE
  /\ Continue(k, opt[k], Extract(Top(k).child))

\* Any other filter sets the flag for the join below.
ExtractFilter(k) ==
  /\ Calling(k, "ExtractNodes", {"filter"})
  /\ Child(k).kind # "get"
  /\ can_add_mark' = ~IsNotIn(k)
  /\ Continue(k, opt[k], Extract(Top(k).child))

\* The join types whose conditions always become edges.
FilteringJoins == {"INNER", "LEFT", "RIGHT", "SEMI", "RIGHT_SEMI"}

ExtractJoin(k) ==
  /\ Calling(k, "ExtractNodes", JoinKinds)
  /\ LET adds == \/ Top(k).join \in FilteringJoins
                 \/ Top(k).join = "MARK" /\ can_add_mark
     IN  Continue(k, IF adds THEN AddFilterOperator(opt[k], TopOp(k)) ELSE opt[k],
                  <<Call("reset", TopOp(k))>> \o Extract(Top(k).child))
  /\ UNCHANGED can_add_mark

\* The flag keeps its value.
ResetNothing(k) ==
  /\ Calling(k, "reset", JoinKinds)
  /\ Continue(k, opt[k], <<>>)
  /\ UNCHANGED can_add_mark

\* if (!can_add_mark) can_add_mark = true
ResetMark(k) ==
  /\ Calling(k, "reset", JoinKinds)
  /\ can_add_mark' = TRUE
  /\ Continue(k, opt[k], <<>>)

ExtractProduct(k) ==
  /\ Calling(k, "ExtractNodes", {"product"})
  /\ Continue(k, opt[k], Extract(Top(k).child))
  /\ UNCHANGED can_add_mark

\* A total is treated like a group.
ExtractTotalAsGroup(k) ==
  /\ Calling(k, "ExtractNodes", {"total"})
  /\ Continue(k, [opt[k] EXCEPT !.rename_cols = @ \cup {<<TopOp(k), Top(k).child[1]>>}],
              Extract(Top(k).child) \o <<Call("AddNode", TopOp(k))>>)
  /\ UNCHANGED can_add_mark

\* An aggregate without groups becomes a node after what is below.
ExtractTotal(k) ==
  /\ Calling(k, "ExtractNodes", {"total"})
  /\ Continue(k, opt[k], Extract(Top(k).child) \o <<Call("AddNode", TopOp(k))>>)
  /\ UNCHANGED can_add_mark

AddTotal(k) ==
  /\ Calling(k, "AddNode", {"total"})
  /\ Continue(k, AddNode(opt[k], TopOp(k)), <<>>)
  /\ UNCHANGED can_add_mark

\* Projections, and aggregates for their groups, rename columns.
ExtractRenaming(k) ==
  /\ Calling(k, "ExtractNodes", {"projection", "aggregate"})
  /\ Continue(k, Rename(opt[k], TopOp(k)), Extract(Top(k).child))
  /\ UNCHANGED can_add_mark

\* AddNode ignores a window.
ExtractWindow(k) ==
  /\ Calling(k, "ExtractNodes", {"window"})
  /\ Continue(k, opt[k], Extract(Top(k).child))
  /\ UNCHANGED can_add_mark

\* A set operation is extracted like a projection: only one input.
ExtractSetOperationLeft(k) ==
  /\ Calling(k, "ExtractNodes", {"union"})
  /\ Continue(k, AddNode(opt[k], TopOp(k)), Extract(<<Top(k).child[1]>>))
  /\ UNCHANGED can_add_mark

\* A set operation is a node, and so are the relations of its two inputs.
ExtractSetOperation(k) ==
  /\ Calling(k, "ExtractNodes", {"union"})
  /\ Continue(k, AddNode(opt[k], TopOp(k)), Extract(Top(k).child))
  /\ UNCHANGED can_add_mark

ExtractTable(k) ==
  /\ Calling(k, "ExtractNodes", TableKinds)
  /\ Continue(k, AddNode(opt[k], TopOp(k)), <<>>)
  /\ UNCHANGED can_add_mark

NewOptimizer(queries) ==
  [plan |-> <<>>, calls |-> <<>>, nodes |-> {}, rename_cols |-> {}, filter_operators |-> {},
   queries |-> queries]

\* DAGManager::Build of the next query, with a new NodesManager.
Build(k) ==
  /\ opt[k].plan = <<>>
  /\ opt[k].queries < MaxQueries
  /\ \E p \in LogicalPlans :
       opt' = [opt EXCEPT ![k] = [NewOptimizer(@.queries + 1) EXCEPT !.plan = p, !.calls = Extract(<<1>>)]]
  /\ UNCHANGED can_add_mark

\* The query has been optimized.
EndQuery(k) ==
  /\ opt[k].plan # <<>>
  /\ opt[k].calls = <<>>
  /\ opt' = [opt EXCEPT ![k] = NewOptimizer(@.queries)]
  /\ UNCHANGED can_add_mark

Init ==
  /\ can_add_mark = TRUE
  /\ opt = [k \in Connection |-> NewOptimizer(0)]

Next ==
  \E k \in Connection :
    \/ Build(k)
    \/ EndQuery(k)
    \/ PassOperator(k)
    \/ ExtractFilteredTable(k)
    \/ ExtractFilter(k)
    \/ ExtractJoin(k)
    \/ ResetMark(k)
    \/ ExtractProduct(k)
    \/ ExtractTotal(k)
    \/ AddTotal(k)
    \/ ExtractRenaming(k)
    \/ ExtractWindow(k)
    \/ ExtractSetOperation(k)
    \/ ExtractTable(k)

Spec == Init /\ [][Next]_vars

-----------------------------------------------------------------------------
(* Properties *)

Extracted(o) == o.calls = <<>> /\ o.plan # <<>>

\* The operators at and below op.
Below(p, op) ==
  LET reached[n \in 0..Len(p)] ==
        IF n = 0 THEN {op}
        ELSE LET before == reached[n - 1] IN before \cup UNION {ToSet(p[x].child) : x \in before}
  IN  reached[Len(p)]

\* The operators between a and b below it.
Between(p, a, b) == {x \in Below(p, a) \ {a, b} : b \in Below(p, x)}

NodeOf(o, col) == {n \in o.nodes : TableIndex(o.plan, n) = FindRename(o, col)}

\* The conditions of the extracted joins, as ExtractEdges finds them: one without
\* a node on both sides is skipped.
Edges(o) ==
  UNION {UNION {[join : {j}, left : NodeOf(o, c.left), right : NodeOf(o, c.right)] :
                  c \in o.plan[j].conds} : j \in o.filter_operators}

\* The nodes that lose rows to an edge: not those that an outer join preserves.
Reduced(o, e) ==
  {n \in {e.left, e.right} :
     /\ o.plan[e.join].join = "LEFT"  => n # e.left
     /\ o.plan[e.join].join = "RIGHT" => n # e.right}

\* No operator of these kinds is between a join and a relation that it filters.
ReducedPast(kinds) ==
  \A k \in Connection :
    LET o == opt[k] IN
    Extracted(o) =>
      \A e \in Edges(o) : \A n \in Reduced(o, e) :
        \A x \in Between(o.plan, e.join, n) : o.plan[x].kind \notin kinds

\* The two ends of an edge are relations below the two sides of the join.  Between
\* a relation that is filtered and the join there is no total and no set
\* operation, whose rows are other rows than those the filter removes: renames do
\* not lead through them, because they are nodes themselves.
TransfersCommute ==
  /\ \A k \in Connection :
       LET o == opt[k] IN
       Extracted(o) =>
         \A e \in Edges(o) : /\ e.left \in Below(o.plan, o.plan[e.join].child[1])
                             /\ e.right \in Below(o.plan, o.plan[e.join].child[2])
  /\ ReducedPast({"total", "union"})

\* Nor is there a window or a limit, which number or count the rows that the filter
\* removes early.
WindowsSeeAllRows == ReducedPast({"window", "limit"})

\* The comparison join of a NOT IN keeps the rows that its mark join does not mark:
\* the filter that negates the mark is directly above, and the flag that it
\* clears is still clear when the join reads it.  Nothing between the two sets it,
\* and no other join of the plan takes it.
NotInKeepsRows ==
  \A k \in Connection : \A j \in opt[k].filter_operators :
    LET p == opt[k].plan IN
    p[j].kind = "join" /\ p[j].join = "MARK" =>
      ~\E f \in DOMAIN p : p[f].kind = "filter" /\ p[f].expr = "not" /\ p[f].child = <<j>>

\* A MARK join returns every row of its left side with a mark.  Its condition may
\* only become an edge when the filter above keeps just the marked rows.
MarkJoinsKeepRows ==
  \A k \in Connection : \A j \in opt[k].filter_operators :
    opt[k].plan[j].join = "MARK" =>
      \E f \in DOMAIN opt[k].plan : opt[k].plan[f].expr = "mark" /\ opt[k].plan[f].child = <<j>>

\* Whatever returns early, every table of the plan is behind a node and every
\* join that filters is found.
NothingMissed ==
  \A k \in Connection :
    LET o == opt[k] IN
    Extracted(o) =>
      \A x \in Below(o.plan, 1) :
        /\ o.plan[x].kind \in TableKinds => \E n \in o.nodes : TableIndex(o.plan, n) = x
        /\ o.plan[x].join \in FilteringJoins /\ o.plan[x].conds # {} => x \in o.filter_operators

\* No query leaves the flag behind that suppresses the mark joins of the next.
FlagRestored == (\A k \in Connection : opt[k].calls = <<>>) => can_add_mark
=============================================================================
