----------------------------- MODULE MCExecutor -----------------------------
(***************************************************************************)
(* Small plans for the Executor.                                           *)
(***************************************************************************)
EXTENDS Executor

O(kind, child) == [kind |-> kind, child |-> child, related |-> <<>>, flag |-> FALSE, inserts |-> FALSE]

\* A filter: the probe side of a join uses what its build side creates.
FilterPlan ==
  <<O("sink", <<2>>), O("join", <<3, 5>>), [O("use_bf", <<4>>) EXCEPT !.related = <<5>>],
    O("source", <<>>), O("create_bf", <<6>>), O("source", <<>>)>>

\* A join without predicate transfer, whose table is empty.
JoinPlan == <<O("sink", <<2>>), O("join", <<3, 4>>), O("source", <<>>), O("source", <<>>)>>

\* A join whose table is built by the tasks of an event of its own.
BuildPlan == [JoinPlan EXCEPT ![2].inserts = TRUE]

\* Two pipelines with the same sink.
UnionPlan == <<O("sink", <<2>>), O("union", <<3, 4>>), O("source", <<>>), O("source", <<>>)>>

FilterPlans == {FilterPlan}
PlainPlans  == {JoinPlan, BuildPlan, UnionPlan}
AllPlans    == FilterPlans \cup PlainPlans
=============================================================================
