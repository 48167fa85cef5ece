-------------------------- MODULE PredicateTransfer --------------------------
(***************************************************************************)
(* PredicateTransferOptimizer::Optimize on the transfer graph, and what    *)
(* the operators it inserts do to the base relations.  The forward pass    *)
(* walks ExecOrder from its last node to the root, the backward pass from  *)
(* the root; at each node CreateBloomFilter collects the filters sent to   *)
(* the node and creates one for each outgoing edge of the pass.  The plan  *)
(* then has, on top of each node, its forward stack (UseBF operators below *)
(* at most one CreateBF) and its backward stack.  Each stack runs once the *)
(* CreateBF operators its UseBF operators are linked to are complete.      *)
(***************************************************************************)
EXTENDS TransferGraph

CONSTANTS
  Value,          \* column values
  Null,           \* the SQL null
  Databases(_),   \* the contents of the base relations that are tried on a query
  FalsePositives  \* rows that any Bloom filter may let through by accident

Row == [Column -> Value]

Pass == {"forward", "backward"}

ASSUME PredicateTransferAssumption ==
  /\ \A q \in Queries : Databases(q) \subseteq [Table -> SUBSET Row]
  /\ FalsePositives \subseteq Row

VARIABLES
  pos,            \* loop counter of Optimize over both passes
  bloom_filters,  \* the filters on the incoming edges of the DAG nodes
  used,           \* the filters whose isUsed flag is set
  replace_map,    \* replace_map_forward and replace_map_backward
  base,           \* the rows of each relation
  out,            \* the rows that left the stacks that have run
  done            \* the stacks that have run

transferVars == <<pos, bloom_filters, used, replace_map, base, out, done>>
vars == <<graphVars, transferVars>>

-----------------------------------------------------------------------------
(* Optimize *)

Outgoing(n, dir) ==
  {x \in IF dir = "forward" THEN dag.forward_out ELSE dag.backward_out : x[1] = n}

\* One filter for each outgoing edge, over all the conditions of the edge.
GetAllBFCreate(n, dir) ==
  {[dir |-> dir, from |-> n, to |-> m,
    conds |-> {x[3] : x \in {y \in Outgoing(n, dir) : y[2] = m}}] :
     m \in {x[2] : x \in Outgoing(n, dir)}}

\* The filters that wait on the node's incoming edges of this pass.
GetAllBFUsed(n, dir) ==
  {f \in bloom_filters \ used : f.to = n /\ f.dir = dir}

\* BuildUseOperator follows a null pointer, or fails its assertion, when the
\* node a filter comes from is not found or has no CreateBF in this pass.
CreatorMissing(U) ==
  \E f \in U : f.from \notin nodes \/ replace_map[f.dir][f.from].create = {}

\* The stack is entered in the map of the other pass.
CreateBloomFilterWrongMap(n, dir) ==
  LET U == GetAllBFUsed(n, dir)
      C == GetAllBFCreate(n, dir)
      other == IF dir = "forward" THEN "backward" ELSE "forward"
  IN  /\ used' = used \cup U
      /\ bloom_filters' = bloom_filters \cup C
      /\ replace_map' = [replace_map EXCEPT ![other][n] = [use |-> U, create |-> C]]
      /\ phase' = IF CreatorMissing(U) THEN "crashed" ELSE phase

\* CreateBloomFilter, the operators it builds, and DAGManager::Add for each
\* filter it returns.
CreateBloomFilter(n, dir) ==
  LET U == GetAllBFUsed(n, dir)
      C == GetAllBFCreate(n, dir)
  IN  /\ used' = used \cup U
      /\ bloom_filters' = bloom_filters \cup C
      /\ replace_map' = [replace_map EXCEPT ![dir][n] = [use |-> U, create |-> C]]
      /\ phase' = IF CreatorMissing(U) THEN "crashed" ELSE phase

\* The forward loop started at the root.
VisitedRootFirst(i) ==
  IF i < Len(ExecOrder) THEN ExecOrder[i + 1] ELSE ExecOrder[i - Len(ExecOrder) + 1]

\* The node visited by step i: forward from the last node, backward from the root.
Visited(i) ==
  IF i < Len(ExecOrder) THEN ExecOrder[Len(ExecOrder) - i]
                        ELSE ExecOrder[i - Len(ExecOrder) + 1]

\* One iteration of one of the two loops of Optimize.
OptimizeNode ==
  /\ phase = "optimize"
  /\ pos < 2 * Len(ExecOrder)
  /\ CreateBloomFilter(Visited(pos), IF pos < Len(ExecOrder) THEN "forward" ELSE "backward")
  /\ pos' = pos + 1
  /\ UNCHANGED <<query, sort_nodes, edges, nodes, tree, prior_flag, priority,
                 ExecOrder, selected, dag, base, out, done>>

\* The forward stack of a node goes onto the node, the backward stack on top.
InsertCreateBFOperator ==
  /\ phase = "optimize"
  /\ pos = 2 * Len(ExecOrder)
  /\ phase' = "execute"
  /\ UNCHANGED <<query, sort_nodes, edges, nodes, tree, prior_flag, priority,
                 ExecOrder, selected, dag, transferVars>>

-----------------------------------------------------------------------------
(* Execution *)

\* Column bindings built and applied are exchanged.
SameHashSwapped(c, n, r, s) ==
  IF n = c.left THEN r[c.rcol] = s[c.lcol] ELSE s[c.rcol] = r[c.lcol]

\* Equal values have equal hashes, nulls included.
SameHash(c, n, r, s) ==
  IF n = c.left THEN r[c.lcol] = s[c.rcol] ELSE s[c.lcol] = r[c.rcol]

\* The columns of an edge are hashed together, so one row has to match in all.
Hit(f, r) ==
  \E s \in out[f.dir][f.from] : \A c \in f.conds : SameHash(c, f.to, r, s)

StackInput(n, dir) == IF dir = "forward" THEN base[n] ELSE out["forward"][n]

\* UseBF does not wait for the CreateBF it is linked to.
ReadyTooEarly(n, dir) == dir = "backward" => <<"forward", n>> \in done

\* UseBF is linked to the CreateBF of the backward pass whatever its own pass.
ReadyLinkedToBackward(n, dir) ==
  /\ dir = "backward" => <<"forward", n>> \in done
  /\ \A f \in replace_map[dir][n].use : <<"backward", f.from>> \in done

\* The pipelines of the linked CreateBF operators, and of the stack below.
Ready(n, dir) ==
  /\ dir = "backward" => <<"forward", n>> \in done
  /\ \A f \in replace_map[dir][n].use : <<f.dir, f.from>> \in done

\* Each stack runs to completion: every UseBF lets all hits through.
RunStack(n, dir) ==
  /\ phase = "execute"
  /\ <<dir, n>> \notin done
  /\ Ready(n, dir)
  /\ LET use  == replace_map[dir][n].use
         hits == {r \in StackInput(n, dir) : \A f \in use : Hit(f, r)}
     IN  \E lucky \in SUBSET (StackInput(n, dir) \cap FalsePositives) :
           out' = [out EXCEPT ![dir][n] = hits \cup (IF use = {} THEN {} ELSE lucky)]
  /\ done' = done \cup {<<dir, n>>}
  /\ UNCHANGED <<graphVars, pos, bloom_filters, used, replace_map, base>>

-----------------------------------------------------------------------------

EmptyStack == [use |-> {}, create |-> {}]

Init ==
  /\ GraphInit
  /\ pos = 0
  /\ bloom_filters = {}
  /\ used = {}
  /\ replace_map = [dir \in Pass |-> [n \in Table |-> EmptyStack]]
  /\ base \in Databases(query)
  /\ out = [dir \in Pass |-> [n \in Table |-> {}]]
  /\ done = {}

Complete == done = Pass \X query.nodes

Terminated == phase = "execute" /\ Complete /\ UNCHANGED vars

Next ==
  \/ GraphNext /\ UNCHANGED transferVars
  \/ OptimizeNode
  \/ InsertCreateBFOperator
  \/ \E n \in query.nodes, dir \in Pass : RunStack(n, dir)
  \/ Terminated

\* The optimizer is sequential code, and the scheduler keeps running pipelines
\* whose dependencies are complete.
Spec == Init /\ [][Next]_vars /\ WF_vars(Next)

-----------------------------------------------------------------------------
(* Properties *)

Filter == [dir : Pass, from : Table, to : Table, conds : SUBSET Condition]

\* The type invariant.
TypeOK ==
  /\ pos \in Nat
  /\ bloom_filters \in SUBSET Filter
  /\ used \in SUBSET bloom_filters
  /\ replace_map \in [Pass -> [Table -> [use : SUBSET Filter, create : SUBSET Filter]]]
  /\ base \in [Table -> SUBSET Row]
  /\ out \in [Pass -> [Table -> SUBSET Row]]
  /\ done \in SUBSET (Pass \X Table)

\* BuildUseOperator always finds a CreateBF in the replace map of the node a
\* filter comes from.
CreatorAlwaysFound == phase # "crashed"

\* When Optimize is through, every filter it creates is probed by exactly the
\* node it was sent to, and every selected condition has become a filter in
\* each direction that an outer join does not rule out.
EveryTransferHappens ==
  phase = "execute" =>
    /\ \A n \in query.nodes, dir \in Pass : \A f \in replace_map[dir][n].create :
         f \in replace_map[dir][f.to].use
    /\ \A e \in selected : \A n \in {e.large, e.small} \ Preserved(e.cond) :
         \E dir \in Pass : \E f \in replace_map[dir][n].use : e.cond \in f.conds

\* The rows a relation hands on at this point of the execution.
Live ==
  [n \in Table |-> CASE <<"backward", n>> \in done -> out["backward"][n]
                     [] <<"forward", n>> \in done /\ <<"backward", n>> \notin done
                          -> out["forward"][n]
                     [] OTHER -> base[n]]

Abstract ==
  INSTANCE SemiJoinReduction WITH nodes <- query.nodes, conds <- query.conds, live <- Live

\* Optimize and the execution of its stacks implement semi-join reduction: a
\* stack removes rows without a match only, whatever else has already run.
ImplementsReduction == Abstract!Spec

\* At any point the rows that are left have the result that all rows have: no
\* stack removes a row that is in the result, a preserved row without a match
\* included, because it filters the side an outer join preserves or probes a
\* filter before it is complete.
ResultPreserved == Abstract!ResultKept

\* No stack waits forever: the links between the stacks have no cycle.
ExecutionCompletes == <>(phase = "execute" /\ Complete)

=============================================================================
