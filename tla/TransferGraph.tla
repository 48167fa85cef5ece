---------------------------- MODULE TransferGraph ----------------------------
(***************************************************************************)
(* The transfer graph of predicate transfer: DAGManager::Build and what it *)
(* calls.  The nodes are the base relations of a query (NodesManager), the *)
(* edges its equality join conditions.  LargestRoot grows one tree per     *)
(* connected component, Prim style, from the largest relation; CreateDAG   *)
(* turns every selected condition into a forward transfer (leaves to root) *)
(* and a backward transfer (root to leaves), except into the side that an  *)
(* outer join preserves.                                                   *)
(***************************************************************************)
EXTENDS Integers, Sequences, FiniteSets

CONSTANTS
  Table,    \* table indices
  Column,   \* column indices
  Queries   \* the extracted queries: nodes, estimated cardinalities, conditions

JoinType == {"INNER", "LEFT", "RIGHT", "SEMI", "RIGHT_SEMI", "MARK"}

\* An equality of two bound columns, with the type of the join it belongs to.
Condition ==
  [left : Table, lcol : Column, right : Table, rcol : Column, type : JoinType]

Query ==
  [nodes : SUBSET Table, card : [Table -> Nat], conds : SUBSET Condition]

ASSUME TransferGraphAssumption ==
  /\ Queries \subseteq Query
  /\ \A q \in Queries : IsFiniteSet(q.nodes)
  /\ \A q \in Queries : \A c \in q.conds : c.left # c.right

VARIABLES
  query,        \* what ExtractNodes found in the plan
  phase,        \* where Build is
  sort_nodes,   \* NodesManager::sort_nodes, smallest relation first
  edges,        \* filters_and_bindings_: a set of DAGEdgeInfo
  nodes,        \* NodesManager::nodes: LargestRoot erases those it places
  tree,         \* constructed_set of the tree being grown
  prior_flag,   \* the priority the next node gets
  priority,     \* DAGNode::priority, -1 until the node is placed
  ExecOrder,    \* the nodes in the order they were placed
  selected,     \* selected_filters_and_bindings_
  dag           \* forward_in_, forward_out_, backward_in_, backward_out_

graphVars == <<query, phase, sort_nodes, edges, nodes, tree, prior_flag,
               priority, ExecOrder, selected, dag>>

-----------------------------------------------------------------------------
(* Conditions and edges *)

\* The side of a condition whose rows the join keeps even without a match.
Preserved(c) ==
  {n \in {c.left, c.right} : \/ c.type = "LEFT"  /\ n = c.left
                             \/ c.type = "RIGHT" /\ n = c.right}

InOrder(order, n) == CHOOSE i \in DOMAIN order : order[i] = n

\* A LEFT join whose preserved side is recorded as the other one.
EdgeInfoSwapped(c, order) ==
  LET leftIsLarge == InOrder(order, c.left) > InOrder(order, c.right)
  IN  [cond  |-> c,
       large |-> IF leftIsLarge THEN c.left ELSE c.right,
       small |-> IF leftIsLarge THEN c.right ELSE c.left,
       large_protect |-> \/ c.type = "LEFT"  /\ leftIsLarge
                         \/ c.type = "RIGHT" /\ leftIsLarge,
       small_protect |-> \/ c.type = "LEFT"  /\ ~leftIsLarge
                         \/ c.type = "RIGHT" /\ ~leftIsLarge]

\* DAGEdgeInfo: which side comes later in the sorted order, and which side an
\* outer join protects.
EdgeInfo(c, order) ==
  LET leftIsLarge == InOrder(order, c.left) > InOrder(order, c.right)
  IN  [cond  |-> c,
       large |-> IF leftIsLarge THEN c.left ELSE c.right,
       small |-> IF leftIsLarge THEN c.right ELSE c.left,
       large_protect |-> \/ c.type = "LEFT"  /\ leftIsLarge
                         \/ c.type = "RIGHT" /\ ~leftIsLarge,
       small_protect |-> \/ c.type = "LEFT"  /\ ~leftIsLarge
                         \/ c.type = "RIGHT" /\ leftIsLarge]

\* A condition on a table that is no node is skipped.
ExtractEdges(q, order) ==
  {EdgeInfo(c, order) : c \in {d \in q.conds : {d.left, d.right} \subseteq q.nodes}}

Between(E, m, n) == {e \in E : {e.large, e.small} = {m, n}}

Weight(m, n) == Cardinality(Between(edges, m, n))

-----------------------------------------------------------------------------
(* Growing the trees *)

\* std::sort by estimated cardinality: relations of equal size in any order.
Sorted(S, card) ==
  {s \in [1..Cardinality(S) -> S] :
     /\ \A m, n \in DOMAIN s : m # n => s[m] # s[n]
     /\ \A m, n \in DOMAIN s : m < n => card[s[m]] <= card[s[n]]}

\* An edge with the fewest conditions, as if weights were compared the other way.
FindEdgeLightest(T, U) ==
  {p \in T \X U :
     /\ Weight(p[1], p[2]) > 0
     /\ \A o \in T \X U : Weight(o[1], o[2]) > 0 => Weight(p[1], p[2]) <= Weight(o[1], o[2])}

\* The edges FindEdge may return: the most conditions, then the largest new
\* relation; the hash sets it walks leave remaining ties open.
FindEdge(T, U) ==
  {p \in T \X U :
     /\ Weight(p[1], p[2]) > 0
     /\ \A o \in T \X U :
          LET w == Weight(p[1], p[2])
              v == Weight(o[1], o[2])
          IN  v > 0 => \/ w > v
                       \/ w = v /\ query.card[p[2]] >= query.card[o[2]]}

\* The priority handed out is not consumed.
PlaceSamePriority(n, flag, T) ==
  /\ priority' = [priority EXCEPT ![n] = flag]
  /\ prior_flag' = flag
  /\ ExecOrder' = Append(ExecOrder, n)
  /\ nodes' = nodes \ {n}
  /\ tree' = T \cup {n}

\* Give node n the priority, append it to ExecOrder, erase it from the nodes
\* and add it to the tree.
Place(n, flag, T) ==
  /\ priority' = [priority EXCEPT ![n] = flag]
  /\ prior_flag' = flag - 1
  /\ ExecOrder' = Append(ExecOrder, n)
  /\ nodes' = nodes \ {n}
  /\ tree' = T \cup {n}

\* Build gives up on a query without two relations or without an edge.
BuildFails ==
  /\ phase = "build"
  /\ \/ Cardinality(query.nodes) < 2
     \/ \A c \in query.conds : ~({c.left, c.right} \subseteq query.nodes)
  /\ phase' = "optimize"
  /\ UNCHANGED <<query, sort_nodes, edges, nodes, tree, prior_flag, priority,
                 ExecOrder, selected, dag>>

\* SortNodes and ExtractEdges.
Build ==
  /\ phase = "build"
  /\ Cardinality(query.nodes) >= 2
  /\ \E order \in Sorted(query.nodes, query.card) :
       /\ ExtractEdges(query, order) # {}
       /\ sort_nodes' = order
       /\ edges' = ExtractEdges(query, order)
  /\ phase' = "root"
  /\ UNCHANGED <<query, nodes, tree, prior_flag, priority, ExecOrder, selected, dag>>

\* The root gets the number of nodes as its priority.
PickRootCountedFromOne ==
  /\ phase = "root"
  /\ Place(sort_nodes[Len(sort_nodes)], Cardinality(nodes), {})
  /\ phase' = "grow"
  /\ UNCHANGED <<query, sort_nodes, edges, selected, dag>>

\* LargestRoot up to its loop: the last of the sorted nodes is the root.
PickRoot ==
  /\ phase = "root"
  /\ Place(sort_nodes[Len(sort_nodes)], Cardinality(nodes) - 1, {})
  /\ phase' = "grow"
  /\ UNCHANGED <<query, sort_nodes, edges, selected, dag>>

\* One round of LargestRoot's loop.
GrowTree ==
  /\ phase = "grow"
  /\ \E p \in FindEdge(tree, nodes) :
       /\ selected' = selected \cup Between(edges, p[1], p[2])
       /\ Place(p[2], prior_flag, tree)
  /\ UNCHANGED <<query, phase, sort_nodes, edges, dag>>

\* The loop ends because no edge leaves the tree; the other relations are
\* sorted again for the next tree.
EndTree ==
  /\ phase = "grow"
  /\ nodes # {}
  /\ FindEdge(tree, nodes) = {}
  /\ sort_nodes' \in Sorted(nodes, query.card)
  /\ phase' = "root"
  /\ UNCHANGED <<query, edges, nodes, tree, prior_flag, priority, ExecOrder,
                 selected, dag>>

-----------------------------------------------------------------------------
(* Directing the selected edges *)

\* The end of an edge that was placed first, and the other one.
Upper(e) == IF priority[e.small] > priority[e.large] THEN e.small ELSE e.large
Lower(e) == IF priority[e.small] > priority[e.large] THEN e.large ELSE e.small

ProtectedBy(e, n) ==
  \/ n = e.large /\ e.large_protect
  \/ n = e.small /\ e.small_protect

\* The edges whose end Into(e) may be filtered.
Filtering(Into(_)) == {e \in selected : ~ProtectedBy(e, Into(e))}

\* The four edge lists of every DAGNode, each entry <<node, other node, condition>>.
CreateDAG ==
  [forward_in   |-> {<<Upper(e), Lower(e), e.cond>> : e \in Filtering(Upper)},
   forward_out  |-> {<<Lower(e), Upper(e), e.cond>> : e \in Filtering(Upper)},
   backward_in  |-> {<<Lower(e), Upper(e), e.cond>> : e \in Filtering(Lower)},
   backward_out |-> {<<Upper(e), Lower(e), e.cond>> : e \in Filtering(Lower)}]

\* All nodes are placed: ReSortNodes finds none, RecoverNodes brings them back,
\* and the second half of CreateDAG directs the edges.
Direct ==
  /\ phase = "grow"
  /\ nodes = {}
  /\ sort_nodes' = <<>>
  /\ nodes' = query.nodes
  /\ dag' = CreateDAG
  /\ phase' = "optimize"
  /\ UNCHANGED <<query, edges, tree, prior_flag, priority, ExecOrder, selected>>

-----------------------------------------------------------------------------

EmptyDAG == [forward_in |-> {}, forward_out |-> {}, backward_in |-> {}, backward_out |-> {}]

GraphInit ==
  /\ query \in Queries
  /\ phase = "build"
  /\ sort_nodes = <<>>
  /\ edges = {}
  /\ nodes = query.nodes
  /\ tree = {}
  /\ prior_flag = -1
  /\ priority = [n \in Table |-> -1]
  /\ ExecOrder = <<>>
  /\ selected = {}
  /\ dag = EmptyDAG

GraphNext == BuildFails \/ Build \/ PickRoot \/ GrowTree \/ EndTree \/ Direct

GraphSpec == GraphInit /\ [][GraphNext]_graphVars

-----------------------------------------------------------------------------
(* Properties *)

DAGEdgeInfo ==
  [cond : Condition, large : Table, small : Table,
   large_protect : BOOLEAN, small_protect : BOOLEAN]

EdgeList == SUBSET (Table \X Table \X Condition)

\* The priorities LargestRoot hands out, one for each node, and -1, what a node
\* has before and what is left when all are placed.
Priority == -1..(Cardinality(query.nodes) - 1)

\* The type invariant of DAGManager's fields.
GraphTypeOK ==
  /\ query \in Query
  /\ phase \in {"build", "root", "grow", "optimize"}
  /\ sort_nodes \in Seq(Table)
  /\ edges \in SUBSET DAGEdgeInfo
  /\ nodes \in SUBSET Table
  /\ tree \in SUBSET Table
  /\ prior_flag \in Priority
  /\ priority \in [Table -> Priority]
  /\ ExecOrder \in Seq(Table)
  /\ selected \in SUBSET edges
  /\ dag \in [forward_in : EdgeList, forward_out : EdgeList,
              backward_in : EdgeList, backward_out : EdgeList]

\* CreateDAG never lets a filter into the side an outer join preserves: rows
\* of that side appear in the result with or without a match.
PreservedSideNotFiltered ==
  \A x \in dag.forward_in \cup dag.backward_in : x[1] \notin Preserved(x[3])

\* Forward transfers climb towards nodes placed earlier and backward ones
\* descend, so Optimize, which walks ExecOrder backwards and then forwards,
\* meets the creator of every filter before its user.
TransfersFollowExecOrder ==
  /\ \A x \in dag.forward_in  : priority[x[1]] > priority[x[2]]
  /\ \A x \in dag.backward_in : priority[x[1]] < priority[x[2]]
  /\ \A i, j \in DOMAIN ExecOrder : i < j => priority[ExecOrder[i]] > priority[ExecOrder[j]]

=============================================================================
