----------------------- MODULE PredicateTransfer_proofs -----------------------
(***************************************************************************)
(* The transfer graph, what the two passes of Optimize insert along it,    *)
(* and what the inserted operators do to the rows, for any set of queries, *)
(* conditions and databases and any order of the sort and of hash sets.    *)
(***************************************************************************)
EXTENDS PredicateTransfer, FiniteSetTheorems, TLAPS

-----------------------------------------------------------------------------
(* The transfer graph *)

Placed == {ExecOrder[i] : i \in DOMAIN ExecOrder}

\* An edge records the protected side as its condition demands.
EdgeOK(e) ==
  /\ e.large # e.small
  /\ e.large_protect <=> e.large \in Preserved(e.cond)
  /\ e.small_protect <=> e.small \in Preserved(e.cond)

\* What LargestRoot knows at its three stages.
StageInv ==
  /\ phase = "build" => nodes = query.nodes /\ selected = {}
  /\ phase = "root" => nodes # {} /\ sort_nodes \in Sorted(nodes, query.card)
  /\ phase = "grow" => prior_flag = Cardinality(nodes) - 1

\* Priorities fall along ExecOrder, and stay above those still to be given.
OrderInv ==
  /\ \A i, j \in DOMAIN ExecOrder : i < j => priority[ExecOrder[i]] > priority[ExecOrder[j]]
  /\ phase # "optimize" =>
       /\ Placed \cap nodes = {}
       /\ \A i \in DOMAIN ExecOrder : priority[ExecOrder[i]] >= Cardinality(nodes)

\* Both ends of a selected edge are placed.
SelectedInv ==
  /\ tree \subseteq Placed
  /\ \A e \in selected : e.large \in Placed /\ e.small \in Placed

GraphInv ==
  /\ GraphTypeOK
  /\ query \in Queries
  /\ IsFiniteSet(nodes)
  /\ nodes \subseteq query.nodes
  /\ \A e \in edges : EdgeOK(e)
  /\ StageInv
  /\ OrderInv
  /\ SelectedInv
  /\ phase # "optimize" => dag = EmptyDAG
  /\ PreservedSideNotFiltered
  /\ TransfersFollowExecOrder

-----------------------------------------------------------------------------

\* A sorted order is a sequence of the relations it sorts.
LEMMA SortedIsSeq ==
  ASSUME NEW S, IsFiniteSet(S), NEW card, NEW s \in Sorted(S, card)
  PROVE  /\ s \in Seq(S)
         /\ Len(s) = Cardinality(S)
         /\ S # {} => Len(s) \in DOMAIN s
<1>1. Cardinality(S) \in Nat
  BY FS_CardinalityType
<1>2. s \in [1..Cardinality(S) -> S]
  BY DEF Sorted
<1>3. s \in Seq(S) /\ Len(s) = Cardinality(S)
  BY <1>1, <1>2
<1>4. S # {} => Cardinality(S) # 0
  BY FS_EmptySet
<1> QED
  BY <1>1, <1>2, <1>3, <1>4

\* Edges of a well-typed query are well typed and record the protected side.
LEMMA ExtractedEdges ==
  ASSUME NEW q \in Queries, NEW order, NEW e \in ExtractEdges(q, order)
  PROVE  e \in DAGEdgeInfo /\ EdgeOK(e)
<1>1. PICK c \in q.conds : e = EdgeInfo(c, order)
  BY DEF ExtractEdges
<1>2. c \in Condition /\ c.left # c.right
  BY <1>1, TransferGraphAssumption DEF Query
<1>3. e \in DAGEdgeInfo
  BY <1>1, <1>2 DEF EdgeInfo, DAGEdgeInfo, Condition
<1>4. EdgeOK(e)
  BY <1>1, <1>2 DEF EdgeInfo, EdgeOK, Preserved, Condition
<1> QED
  BY <1>3, <1>4

-----------------------------------------------------------------------------

\* Placing a node gives it the highest priority left and the next place in
\* ExecOrder.
LEMMA PlaceOrders ==
  ASSUME GraphInv, phase # "optimize", NEW n \in nodes, NEW T \in SUBSET Placed,
         Place(n, Cardinality(nodes) - 1, T)
  PROVE  /\ nodes' \in SUBSET Table /\ IsFiniteSet(nodes') /\ nodes' \subseteq query.nodes
         /\ tree' \in SUBSET Table
         /\ prior_flag' \in Priority /\ prior_flag' = Cardinality(nodes') - 1
         /\ priority' \in [Table -> Priority]
         /\ ExecOrder' \in Seq(Table)
         /\ Placed' = Placed \cup {n}
         /\ tree' \subseteq Placed'
         /\ OrderInv'
<1> DEFINE k == Cardinality(nodes)
<1>1. /\ n \in Table /\ nodes \in SUBSET Table /\ ExecOrder \in Seq(Table)
      /\ priority \in [Table -> Priority] /\ IsFiniteSet(nodes)
      /\ nodes \subseteq query.nodes /\ IsFiniteSet(query.nodes)
  BY TransferGraphAssumption DEF GraphInv, GraphTypeOK
<1>2. /\ IsFiniteSet(nodes') /\ k \in Nat /\ Cardinality(nodes') = k - 1
      /\ k <= Cardinality(query.nodes) /\ k # 0 /\ Cardinality(query.nodes) \in Nat
  BY <1>1, FS_RemoveElement, FS_CardinalityType, FS_Subset, FS_EmptySet DEF Place
<1>3. /\ ExecOrder' \in Seq(Table)
      /\ DOMAIN ExecOrder' = DOMAIN ExecOrder \cup {Len(ExecOrder) + 1}
      /\ \A i \in DOMAIN ExecOrder : ExecOrder'[i] = ExecOrder[i]
      /\ ExecOrder'[Len(ExecOrder) + 1] = n
      /\ \A i \in DOMAIN ExecOrder : i \in Nat /\ i < Len(ExecOrder) + 1
      /\ Len(ExecOrder) \in Nat
  BY <1>1 DEF Place
<1>4. Placed' = Placed \cup {n}
  BY <1>3 DEF Placed
<1>5. Placed \subseteq Table
  BY <1>1 DEF Placed
<1>6. n \notin Placed
  BY DEF GraphInv, OrderInv
<1>7. /\ priority' \in [Table -> Priority]
      /\ priority'[n] = k - 1
      /\ \A m \in Placed : priority'[m] = priority[m]
  BY <1>1, <1>2, <1>5, <1>6 DEF Place, Priority
<1>8. OrderInv'
  <2>1. (Placed \cap nodes = {})'
    BY <1>4 DEF GraphInv, OrderInv, Place
  <2>2. \A i \in DOMAIN ExecOrder : /\ ExecOrder[i] \in Placed
                                     /\ priority'[ExecOrder'[i]] = priority[ExecOrder[i]]
                                     /\ priority[ExecOrder[i]] \in Int
                                     /\ priority[ExecOrder[i]] >= k
    BY <1>1, <1>2, <1>3, <1>7 DEF Placed, GraphInv, OrderInv, Priority
  <2>3. (\A i, j \in DOMAIN ExecOrder : i < j => priority[ExecOrder[i]] > priority[ExecOrder[j]])'
    <3>1. SUFFICES ASSUME NEW i \in DOMAIN ExecOrder', NEW j \in DOMAIN ExecOrder', i < j
                   PROVE  priority'[ExecOrder'[i]] > priority'[ExecOrder'[j]]
      OBVIOUS
    <3>2. i \in DOMAIN ExecOrder
      BY <1>3, <3>1
    <3>3. CASE j \in DOMAIN ExecOrder
      BY <2>2, <3>1, <3>2, <3>3 DEF GraphInv, OrderInv
    <3>4. CASE j = Len(ExecOrder) + 1
      BY <1>2, <1>3, <1>7, <2>2, <3>2, <3>4
    <3> QED
      BY <1>3, <3>3, <3>4
  <2>4. (\A i \in DOMAIN ExecOrder : priority[ExecOrder[i]] >= Cardinality(nodes))'
    BY <1>2, <1>3, <1>7, <2>2
  <2> QED
    BY <2>1, <2>3, <2>4 DEF OrderInv
<1>9. tree' \in SUBSET Table /\ tree' \subseteq Placed'
  BY <1>1, <1>4, <1>5 DEF Place
<1> QED
  BY <1>1, <1>2, <1>3, <1>4, <1>7, <1>8, <1>9 DEF Place, Priority

\* With no transfers yet, the two safety properties speak of ExecOrder only.
LEMMA NoTransfersYet ==
  ASSUME dag' = EmptyDAG, OrderInv'
  PROVE  /\ dag' \in [forward_in : EdgeList, forward_out : EdgeList,
                      backward_in : EdgeList, backward_out : EdgeList]
         /\ PreservedSideNotFiltered' /\ TransfersFollowExecOrder'
<1>1. dag'.forward_in = {} /\ dag'.backward_in = {}
  BY DEF EmptyDAG
<1>2. dag' \in [forward_in : EdgeList, forward_out : EdgeList,
               backward_in : EdgeList, backward_out : EdgeList]
  BY DEF EmptyDAG, EdgeList
<1>3. PreservedSideNotFiltered'
  BY <1>1 DEF PreservedSideNotFiltered
<1>4. TransfersFollowExecOrder'
  BY <1>1 DEF TransfersFollowExecOrder, OrderInv
<1> QED
  BY <1>2, <1>3, <1>4

\* The initial state.
LEMMA InitGraphInv == GraphInit => GraphInv
<1> SUFFICES ASSUME GraphInit PROVE GraphInv
  OBVIOUS
<1> USE DEF GraphInit
<1>1. query \in Query /\ IsFiniteSet(query.nodes)
  BY TransferGraphAssumption
<1>2. dag \in [forward_in : EdgeList, forward_out : EdgeList,
              backward_in : EdgeList, backward_out : EdgeList]
  BY DEF EmptyDAG, EdgeList
<1>3. GraphTypeOK
  BY <1>1, <1>2, FS_CardinalityType DEF GraphTypeOK, Priority, Query
<1>4. Placed = {} /\ DOMAIN ExecOrder = {}
  BY DEF Placed
<1>5. StageInv /\ OrderInv /\ SelectedInv
  BY <1>4 DEF StageInv, OrderInv, SelectedInv
<1>6. PreservedSideNotFiltered
  BY DEF PreservedSideNotFiltered, EmptyDAG
<1>7. TransfersFollowExecOrder
  BY <1>4 DEF TransfersFollowExecOrder, EmptyDAG
<1> QED
  BY <1>1, <1>3, <1>5, <1>6, <1>7 DEF GraphInv

\* BuildFails leaves the graph empty.
LEMMA BuildFailsKeepsInv == GraphInv /\ BuildFails => GraphInv'
<1> SUFFICES ASSUME GraphInv, BuildFails PROVE GraphInv'
  OBVIOUS
<1> USE DEF GraphInv, BuildFails
<1>1. GraphTypeOK'
  BY DEF GraphTypeOK, Priority
<1>2. OrderInv' /\ SelectedInv' /\ StageInv'
  BY DEF OrderInv, SelectedInv, StageInv, Placed
<1>3. PreservedSideNotFiltered' /\ TransfersFollowExecOrder'
  BY DEF PreservedSideNotFiltered, TransfersFollowExecOrder
<1>4. (\A e \in edges : EdgeOK(e))'
  BY DEF EdgeOK
<1> QED
  BY <1>1, <1>2, <1>3, <1>4

\* Build extracts the edges and sorts the nodes.
LEMMA BuildKeepsInv == GraphInv /\ Build => GraphInv'
<1> SUFFICES ASSUME GraphInv, Build PROVE GraphInv'
  OBVIOUS
<1> USE DEF GraphInv, Build
<1>1. PICK order \in Sorted(query.nodes, query.card) :
        sort_nodes' = order /\ edges' = ExtractEdges(query, order)
  OBVIOUS
<1>2. nodes = query.nodes /\ IsFiniteSet(query.nodes) /\ query.nodes \subseteq Table
  BY DEF StageInv, GraphTypeOK
<1>3. query.nodes # {}
  BY FS_EmptySet
<1>4. sort_nodes' \in Seq(Table)
  <2>1. order \in Seq(query.nodes)
    BY <1>2, SortedIsSeq
  <2> QED
    BY <1>1, <1>2, <2>1
<1>5. edges' \in SUBSET DAGEdgeInfo /\ (\A e \in edges : EdgeOK(e))'
  BY <1>1, ExtractedEdges DEF EdgeOK
<1>6. selected' \in SUBSET edges'
  BY DEF StageInv
<1>7. StageInv'
  BY <1>1, <1>2, <1>3 DEF StageInv
<1>8. OrderInv' /\ SelectedInv'
  BY DEF OrderInv, SelectedInv, Placed
<1>9. dag' = EmptyDAG
  OBVIOUS
<1>10. GraphTypeOK'
  BY <1>4, <1>5, <1>6, <1>8, <1>9, NoTransfersYet DEF GraphTypeOK, Priority
<1> QED
  BY <1>5, <1>7, <1>8, <1>9, <1>10, NoTransfersYet

\* PickRoot places the largest relation.
LEMMA PickRootKeepsInv == GraphInv /\ PickRoot => GraphInv'
<1> SUFFICES ASSUME GraphInv, PickRoot PROVE GraphInv'
  OBVIOUS
<1> DEFINE root == sort_nodes[Len(sort_nodes)]
<1>1. Place(root, Cardinality(nodes) - 1, {}) /\ phase = "root" /\ phase' = "grow"
  BY DEF PickRoot
<1>2. UNCHANGED <<query, sort_nodes, edges, selected, dag>>
  BY DEF PickRoot
<1>3. root \in nodes
  <2>1. IsFiniteSet(nodes) /\ nodes # {} /\ sort_nodes \in Sorted(nodes, query.card)
    BY <1>1 DEF GraphInv, StageInv
  <2>2. sort_nodes \in Seq(nodes) /\ Len(sort_nodes) \in DOMAIN sort_nodes
    BY <2>1, SortedIsSeq
  <2> QED
    BY <2>2
<1>4. {} \in SUBSET Placed
  OBVIOUS
<1>5. /\ nodes' \in SUBSET Table /\ IsFiniteSet(nodes') /\ nodes' \subseteq query.nodes
      /\ tree' \in SUBSET Table
      /\ prior_flag' \in Priority /\ prior_flag' = Cardinality(nodes') - 1
      /\ priority' \in [Table -> Priority]
      /\ ExecOrder' \in Seq(Table)
      /\ Placed' = Placed \cup {root}
      /\ tree' \subseteq Placed'
      /\ OrderInv'
  BY <1>1, <1>3, <1>4, PlaceOrders
<1>6. dag' = EmptyDAG
  BY <1>1, <1>2 DEF GraphInv
<1>7. GraphTypeOK'
  BY <1>1, <1>2, <1>5, <1>6, NoTransfersYet DEF GraphInv, GraphTypeOK, Priority
<1>8. StageInv'
  BY <1>1, <1>5 DEF StageInv
<1>9. SelectedInv'
  BY <1>2, <1>5 DEF GraphInv, SelectedInv
<1>10. query' = query /\ query' \in Queries /\ (\A e \in edges : EdgeOK(e))'
  BY <1>2 DEF GraphInv, EdgeOK
<1> QED
  BY <1>5, <1>6, <1>7, <1>8, <1>9, <1>10, NoTransfersYet DEF GraphInv

\* GrowTree places the far end of an edge that leaves the tree.
LEMMA GrowTreeKeepsInv == GraphInv /\ GrowTree => GraphInv'
<1> SUFFICES ASSUME GraphInv, GrowTree PROVE GraphInv'
  OBVIOUS
<1>1. phase = "grow" /\ UNCHANGED <<query, phase, sort_nodes, edges, dag>>
  BY DEF GrowTree
<1>2. PICK p \in FindEdge(tree, nodes) :
        /\ selected' = selected \cup Between(edges, p[1], p[2])
        /\ Place(p[2], prior_flag, tree)
  BY DEF GrowTree
<1>3. p[1] \in tree /\ p[2] \in nodes
  BY DEF FindEdge
<1>4. prior_flag = Cardinality(nodes) - 1 /\ tree \in SUBSET Placed
  BY <1>1 DEF GraphInv, StageInv, SelectedInv
<1>5. /\ nodes' \in SUBSET Table /\ IsFiniteSet(nodes') /\ nodes' \subseteq query.nodes
      /\ tree' \in SUBSET Table
      /\ prior_flag' \in Priority /\ prior_flag' = Cardinality(nodes') - 1
      /\ priority' \in [Table -> Priority]
      /\ ExecOrder' \in Seq(Table)
      /\ Placed' = Placed \cup {p[2]}
      /\ tree' \subseteq Placed'
      /\ OrderInv'
  BY <1>1, <1>2, <1>3, <1>4, PlaceOrders
<1>6. dag' = EmptyDAG
  BY <1>1 DEF GraphInv
<1>7. selected' \in SUBSET edges'
  BY <1>1, <1>2 DEF Between, GraphInv, GraphTypeOK
<1>8. GraphTypeOK'
  BY <1>1, <1>5, <1>6, <1>7, NoTransfersYet DEF GraphInv, GraphTypeOK, Priority
<1>9. StageInv'
  BY <1>1, <1>5 DEF StageInv
<1>10. SelectedInv'
  <2>1. SUFFICES ASSUME NEW e \in selected' PROVE e.large \in Placed' /\ e.small \in Placed'
    BY <1>5 DEF SelectedInv
  <2>2. CASE e \in selected
    BY <1>5, <2>2 DEF GraphInv, SelectedInv
  <2>3. CASE e \in Between(edges, p[1], p[2])
    BY <1>3, <1>4, <1>5, <2>3 DEF Between
  <2> QED
    BY <1>2, <2>2, <2>3
<1>11. query' = query /\ query' \in Queries /\ (\A e \in edges : EdgeOK(e))'
  BY <1>1 DEF GraphInv, EdgeOK
<1> QED
  BY <1>5, <1>6, <1>8, <1>9, <1>10, <1>11, NoTransfersYet DEF GraphInv

\* EndTree sorts the relations that are left.
LEMMA EndTreeKeepsInv == GraphInv /\ EndTree => GraphInv'
<1> SUFFICES ASSUME GraphInv, EndTree PROVE GraphInv'
  OBVIOUS
<1> USE DEF GraphInv, EndTree
<1>1. sort_nodes' \in Seq(Table)
  <2>1. sort_nodes' \in Seq(nodes)
    BY SortedIsSeq
  <2> QED
    BY <2>1 DEF GraphTypeOK
<1>2. OrderInv' /\ SelectedInv' /\ StageInv'
  BY DEF OrderInv, SelectedInv, StageInv, Placed
<1>3. dag' = EmptyDAG
  OBVIOUS
<1>4. GraphTypeOK'
  BY <1>1 DEF GraphTypeOK, Priority
<1>5. (\A e \in edges : EdgeOK(e))'
  BY DEF EdgeOK
<1> QED
  BY <1>2, <1>3, <1>4, <1>5, NoTransfersYet

\* Of two ends of a selected edge, the upper one was placed first.
LEMMA UpperPlacedFirst ==
  ASSUME GraphInv, NEW e \in selected
  PROVE  /\ Upper(e) \in Table /\ Lower(e) \in Table
         /\ priority[Upper(e)] > priority[Lower(e)]
         /\ {Upper(e), Lower(e)} = {e.large, e.small}
<1>1. e \in DAGEdgeInfo /\ EdgeOK(e)
  BY DEF GraphInv, GraphTypeOK
<1>2. PICK i \in DOMAIN ExecOrder, j \in DOMAIN ExecOrder :
        ExecOrder[i] = e.large /\ ExecOrder[j] = e.small
  BY DEF GraphInv, SelectedInv, Placed
<1>3. i \in Nat /\ j \in Nat /\ i # j
  BY <1>1, <1>2 DEF EdgeOK, GraphInv, GraphTypeOK
<1>4. e.large \in Table /\ e.small \in Table
  BY <1>1 DEF DAGEdgeInfo
<1>5. priority[e.large] \in Int /\ priority[e.small] \in Int
  BY <1>4 DEF GraphInv, GraphTypeOK, Priority
<1>6. priority[e.large] > priority[e.small] \/ priority[e.small] > priority[e.large]
  BY <1>2, <1>3 DEF GraphInv, OrderInv
<1> QED
  BY <1>4, <1>5, <1>6 DEF Upper, Lower

\* Direct gives every selected edge its directions.
LEMMA DirectKeepsInv == GraphInv /\ Direct => GraphInv'
<1> SUFFICES ASSUME GraphInv, Direct PROVE GraphInv'
  OBVIOUS
<1>1. /\ dag' = CreateDAG /\ phase' = "optimize"
      /\ sort_nodes' = <<>> /\ nodes' = query.nodes
      /\ UNCHANGED <<query, edges, tree, prior_flag, priority, ExecOrder, selected>>
  BY DEF Direct
<1>2. \A e \in selected : e.cond \in Condition /\ EdgeOK(e)
  BY DEF GraphInv, GraphTypeOK, DAGEdgeInfo
<1>3. ASSUME NEW x \in dag'.forward_in
      PROVE  \E e \in selected : x = <<Upper(e), Lower(e), e.cond>> /\ ~ProtectedBy(e, Upper(e))
  BY <1>1, <1>3 DEF CreateDAG, Filtering
<1>4. ASSUME NEW x \in dag'.backward_in
      PROVE  \E e \in selected : x = <<Lower(e), Upper(e), e.cond>> /\ ~ProtectedBy(e, Lower(e))
  BY <1>1, <1>4 DEF CreateDAG, Filtering
<1>5. dag' \in [forward_in : EdgeList, forward_out : EdgeList,
               backward_in : EdgeList, backward_out : EdgeList]
  <2> DEFINE up == {e \in selected : ~ProtectedBy(e, Upper(e))}
             down == {e \in selected : ~ProtectedBy(e, Lower(e))}
             climb(S) == {<<Lower(e), Upper(e), e.cond>> : e \in S}
             descend(S) == {<<Upper(e), Lower(e), e.cond>> : e \in S}
  <2>1. dag' = [forward_in |-> descend(up), forward_out |-> climb(up),
                backward_in |-> climb(down), backward_out |-> descend(down)]
    BY <1>1 DEF CreateDAG, Filtering
  <2>2. ASSUME NEW S \in SUBSET selected
        PROVE  climb(S) \in EdgeList /\ descend(S) \in EdgeList
    <3>1. \A e \in S : <<Lower(e), Upper(e), e.cond>> \in Table \X Table \X Condition
      BY <1>2, UpperPlacedFirst
    <3>2. \A e \in S : <<Upper(e), Lower(e), e.cond>> \in Table \X Table \X Condition
      BY <1>2, UpperPlacedFirst
    <3> QED
      BY <3>1, <3>2 DEF EdgeList
  <2>3. up \in SUBSET selected /\ down \in SUBSET selected
    OBVIOUS
  <2> HIDE DEF up, down, climb, descend
  <2> QED
    BY <2>1, <2>2, <2>3
<1>6. GraphTypeOK'
  BY <1>1, <1>5 DEF GraphInv, GraphTypeOK, Priority, Query
<1>7. PreservedSideNotFiltered'
  <2>1. ASSUME NEW x \in dag'.forward_in PROVE x[1] \notin Preserved(x[3])
    <3>1. PICK e \in selected : x = <<Upper(e), Lower(e), e.cond>> /\ ~ProtectedBy(e, Upper(e))
      BY <1>3
    <3>2. Upper(e) \notin Preserved(e.cond)
      BY <1>2, <3>1, UpperPlacedFirst DEF ProtectedBy, EdgeOK
    <3> QED
      BY <3>1, <3>2
  <2>2. ASSUME NEW x \in dag'.backward_in PROVE x[1] \notin Preserved(x[3])
    <3>1. PICK e \in selected : x = <<Lower(e), Upper(e), e.cond>> /\ ~ProtectedBy(e, Lower(e))
      BY <1>4
    <3>2. Lower(e) \notin Preserved(e.cond)
      BY <1>2, <3>1, UpperPlacedFirst DEF ProtectedBy, EdgeOK
    <3> QED
      BY <3>1, <3>2
  <2> QED
    BY <2>1, <2>2 DEF PreservedSideNotFiltered
<1>8. TransfersFollowExecOrder'
  <2>1. ASSUME NEW x \in dag'.forward_in PROVE priority[x[1]] > priority[x[2]]
    BY <1>3, UpperPlacedFirst
  <2>2. ASSUME NEW x \in dag'.backward_in PROVE priority[x[1]] < priority[x[2]]
    <3>1. PICK e \in selected : x = <<Lower(e), Upper(e), e.cond>>
      BY <1>4
    <3>2. priority[Upper(e)] \in Int /\ priority[Lower(e)] \in Int
      BY UpperPlacedFirst DEF GraphInv, GraphTypeOK, Priority
    <3> QED
      BY <3>1, <3>2, UpperPlacedFirst
  <2> QED
    BY <1>1, <2>1, <2>2 DEF TransfersFollowExecOrder, GraphInv, OrderInv
<1>9. OrderInv' /\ SelectedInv' /\ StageInv'
  BY <1>1 DEF GraphInv, OrderInv, SelectedInv, StageInv, Placed
<1>10. IsFiniteSet(nodes)' /\ query' \in Queries /\ (\A e \in edges : EdgeOK(e))'
  BY <1>1, TransferGraphAssumption DEF GraphInv, EdgeOK
<1> QED
  BY <1>1, <1>6, <1>7, <1>8, <1>9, <1>10 DEF GraphInv

-----------------------------------------------------------------------------

\* GraphInv is an inductive invariant of DAGManager::Build.
LEMMA GraphInvariance == GraphSpec => []GraphInv
<1>1. GraphInv /\ [GraphNext]_graphVars => GraphInv'
  <2>1. ASSUME GraphInv, GraphNext PROVE GraphInv'
    BY <2>1, BuildFailsKeepsInv, BuildKeepsInv, PickRootKeepsInv, GrowTreeKeepsInv,
       EndTreeKeepsInv, DirectKeepsInv DEF GraphNext
  <2>2. ASSUME GraphInv, UNCHANGED graphVars PROVE GraphInv'
    BY <2>2 DEF GraphInv, graphVars, GraphTypeOK, Priority, StageInv, OrderInv, SelectedInv, Placed,
       EdgeOK, PreservedSideNotFiltered, TransfersFollowExecOrder
  <2> QED
    BY <2>1, <2>2
<1> QED
  BY <1>1, InitGraphInv, PTL DEF GraphSpec

\* The fields of DAGManager keep their types, for every set of queries.
THEOREM GraphTypeCorrect == GraphSpec => []GraphTypeOK
<1>1. GraphInv => GraphTypeOK
  BY DEF GraphInv
<1> QED
  BY <1>1, GraphInvariance, PTL

\* CreateDAG never directs a filter into the side an outer join preserves,
\* however many relations and conditions the query has and whatever order
\* LargestRoot places them in.
THEOREM OuterSidesProtected == GraphSpec => []PreservedSideNotFiltered
<1>1. GraphInv => PreservedSideNotFiltered
  BY DEF GraphInv
<1> QED
  BY <1>1, GraphInvariance, PTL

\* Every forward transfer climbs and every backward transfer descends along
\* ExecOrder, so the two loops of Optimize meet the creator of a filter
\* before its user.
THEOREM TransfersOrdered == GraphSpec => []TransfersFollowExecOrder
<1>1. GraphInv => TransfersFollowExecOrder
  BY DEF GraphInv
<1> QED
  BY <1>1, GraphInvariance, PTL

-----------------------------------------------------------------------------
(* The transfers *)

GraphPhase == {"build", "root", "grow", "optimize"}

\* An edge joins the two relations of one of the query's conditions.
EdgesInv ==
  \A e \in edges :
    /\ e.cond \in query.conds
    /\ {e.large, e.small} = {e.cond.left, e.cond.right}
    /\ {e.large, e.small} \subseteq query.nodes

\* The transfer graph while Optimize uses it.
BuiltInv ==
  /\ query \in Queries
  /\ EdgesInv
  /\ nodes \subseteq query.nodes
  /\ Placed \subseteq query.nodes
  /\ phase \in GraphPhase => GraphInv
  /\ phase = "optimize" => dag = CreateDAG /\ nodes = query.nodes

\* A filter that removes only rows of its target without a match at its source.
FilterOK(f) ==
  /\ f \in Filter
  /\ f.conds # {}
  /\ f.from \in query.nodes /\ f.to \in query.nodes
  /\ \A c \in f.conds : /\ c \in query.conds
                        /\ {c.left, c.right} = {f.from, f.to}
                        /\ f.to \notin Preserved(c)

-----------------------------------------------------------------------------
(* The graph *)

\* ExtractEdges keeps the conditions between two nodes of the query.
LEMMA EdgesJoinNodes ==
  ASSUME NEW q \in Queries, NEW order, NEW e \in ExtractEdges(q, order)
  PROVE  /\ e.cond \in q.conds
         /\ {e.large, e.small} = {e.cond.left, e.cond.right}
         /\ {e.large, e.small} \subseteq q.nodes
<1>1. PICK c \in q.conds : {c.left, c.right} \subseteq q.nodes /\ e = EdgeInfo(c, order)
  BY DEF ExtractEdges
<1> QED
  BY <1>1 DEF EdgeInfo

\* The graph of a new query is empty.
LEMMA InitBuiltInv == Init => BuiltInv
<1> SUFFICES ASSUME Init PROVE BuiltInv
  OBVIOUS
<1>1. GraphInit /\ GraphInv
  BY InitGraphInv DEF Init
<1> QED
  BY <1>1 DEF GraphInit, BuiltInv, EdgesInv, Placed

\* Each step of Build keeps the nodes and edges within the query.
LEMMA GraphStepBuiltInv == BuiltInv /\ GraphNext => BuiltInv'
<1> SUFFICES ASSUME BuiltInv, GraphNext PROVE BuiltInv'
  OBVIOUS
<1>1. phase \in GraphPhase /\ phase' \in GraphPhase /\ query' = query
  BY DEF GraphNext, BuildFails, Build, PickRoot, GrowTree, EndTree, Direct, GraphPhase
<1>2. GraphInv
  BY <1>1 DEF BuiltInv
<1>3. GraphInv'
  BY <1>2, BuildFailsKeepsInv, BuildKeepsInv, PickRootKeepsInv, GrowTreeKeepsInv,
     EndTreeKeepsInv, DirectKeepsInv DEF GraphNext
<1>4. ASSUME NEW n \in nodes, ExecOrder' = Append(ExecOrder, n)
      PROVE  Placed' \subseteq query.nodes
  <2>1. ExecOrder \in Seq(Table)
    BY <1>2 DEF GraphInv, GraphTypeOK
  <2>2. \A i \in DOMAIN ExecOrder' : ExecOrder'[i] = n \/ ExecOrder'[i] \in Placed
    BY <1>4, <2>1 DEF Placed
  <2> QED
    BY <2>2 DEF Placed, BuiltInv
<1>5. CASE BuildFails
  <2>1. selected = {} /\ dag = EmptyDAG /\ nodes = query.nodes
    BY <1>2, <1>5 DEF BuildFails, GraphInv, StageInv
  <2>2. CreateDAG' = EmptyDAG
    BY <1>5, <2>1 DEF BuildFails, CreateDAG, Filtering, EmptyDAG
  <2> QED
    BY <1>3, <1>5, <2>1, <2>2 DEF BuildFails, BuiltInv, EdgesInv, Placed
<1>6. CASE Build
  <2>1. EdgesInv'
    BY <1>1, <1>6, EdgesJoinNodes DEF Build, EdgesInv, BuiltInv
  <2> QED
    BY <1>3, <1>6, <2>1 DEF Build, BuiltInv, Placed
<1>7. CASE PickRoot
  <2>1. sort_nodes[Len(sort_nodes)] \in nodes
    BY <1>2, <1>7, SortedIsSeq DEF PickRoot, GraphInv, StageInv
  <2>2. Placed' \subseteq query.nodes
    BY <1>4, <1>7, <2>1 DEF PickRoot, Place
  <2> QED
    BY <1>3, <1>7, <2>2 DEF PickRoot, Place, BuiltInv, EdgesInv
<1>8. CASE GrowTree
  <2>1. PICK p \in FindEdge(tree, nodes) : Place(p[2], prior_flag, tree)
    BY <1>8 DEF GrowTree
  <2>2. p[2] \in nodes
    BY DEF FindEdge
  <2>3. Placed' \subseteq query.nodes
    BY <1>4, <2>1, <2>2 DEF Place
  <2> QED
    BY <1>3, <1>8, <2>1, <2>3 DEF GrowTree, Place, BuiltInv, EdgesInv
<1>9. CASE EndTree
  BY <1>3, <1>9 DEF EndTree, BuiltInv, EdgesInv, Placed
<1>10. CASE Direct
  <2>1. CreateDAG' = CreateDAG
    BY <1>10 DEF Direct, CreateDAG, Filtering, Upper, Lower, ProtectedBy
  <2> QED
    BY <1>3, <1>10, <2>1 DEF Direct, BuiltInv, EdgesInv, Placed
<1> QED
  BY <1>5, <1>6, <1>7, <1>8, <1>9, <1>10 DEF GraphNext


-----------------------------------------------------------------------------
(* The filters *)

\* An outgoing edge of a pass is a selected condition, directed into the end
\* that it may filter and that the pass visits later.
LEMMA OutgoingEdges ==
  ASSUME BuiltInv, phase = "optimize", NEW n, NEW dir \in Pass, NEW x \in Outgoing(n, dir)
  PROVE  /\ x[1] = n
         /\ x[1] \in Placed /\ x[2] \in Placed
         /\ x[3] \in Condition /\ x[3] \in query.conds
         /\ {x[1], x[2]} = {x[3].left, x[3].right}
         /\ x[2] \notin Preserved(x[3])
         /\ dir = "forward"  => priority[x[2]] > priority[x[1]]
         /\ dir = "backward" => priority[x[1]] > priority[x[2]]
<1>1. GraphInv /\ dag = CreateDAG /\ EdgesInv
  BY DEF BuiltInv, GraphPhase
<1>2. PICK e \in selected :
        \/ /\ dir = "forward" /\ x = <<Lower(e), Upper(e), e.cond>>
           /\ ~ProtectedBy(e, Upper(e))
        \/ /\ dir = "backward" /\ x = <<Upper(e), Lower(e), e.cond>>
           /\ ~ProtectedBy(e, Lower(e))
  BY <1>1 DEF Outgoing, CreateDAG, Filtering, Pass
<1>3. /\ e \in edges /\ EdgeOK(e) /\ e \in DAGEdgeInfo
      /\ e.large \in Placed /\ e.small \in Placed
  BY <1>1 DEF GraphInv, GraphTypeOK, SelectedInv
<1>4. /\ priority[Upper(e)] > priority[Lower(e)]
      /\ {Upper(e), Lower(e)} = {e.large, e.small}
  BY <1>1, UpperPlacedFirst
<1>5. e.cond \in Condition
  BY <1>3 DEF DAGEdgeInfo
<1>6. x[2] \notin Preserved(e.cond)
  BY <1>2, <1>3, <1>4 DEF ProtectedBy, EdgeOK
<1>7. x[1] = n
  BY DEF Outgoing
<1>8. {x[1], x[2]} = {e.large, e.small} /\ x[3] = e.cond
  BY <1>2, <1>4
<1>9. e.cond \in query.conds /\ {e.large, e.small} = {e.cond.left, e.cond.right}
  BY <1>1, <1>3 DEF EdgesInv
<1>10. /\ dir = "forward"  => priority[x[2]] > priority[x[1]]
       /\ dir = "backward" => priority[x[1]] > priority[x[2]]
  BY <1>2, <1>4
<1> QED
  BY <1>3, <1>5, <1>6, <1>7, <1>8, <1>9, <1>10

\* GetAllBFCreate makes sound filters, for nodes that the pass visits later.
LEMMA CreatedFilters ==
  ASSUME BuiltInv, phase = "optimize", NEW n, NEW dir \in Pass,
         NEW f \in GetAllBFCreate(n, dir)
  PROVE  /\ FilterOK(f)
         /\ f.from = n /\ f.dir = dir
         /\ f.from \in Placed /\ f.to \in Placed
         /\ dir = "forward"  => priority[f.to] > priority[f.from]
         /\ dir = "backward" => priority[f.from] > priority[f.to]
<1>1. PICK m \in {x[2] : x \in Outgoing(n, dir)} :
        f = [dir |-> dir, from |-> n, to |-> m,
             conds |-> {x[3] : x \in {y \in Outgoing(n, dir) : y[2] = m}}]
  BY DEF GetAllBFCreate
<1>2. PICK x \in Outgoing(n, dir) : x[2] = m
  BY <1>1
<1>3. /\ n \in Placed /\ m \in Placed
      /\ dir = "forward"  => priority[m] > priority[n]
      /\ dir = "backward" => priority[n] > priority[m]
  BY <1>2, OutgoingEdges
<1>4. \A c \in f.conds : \E y \in Outgoing(n, dir) : y[2] = m /\ c = y[3]
  BY <1>1
<1>5. \A c \in f.conds : /\ c \in Condition /\ c \in query.conds
                         /\ {c.left, c.right} = {n, m}
                         /\ m \notin Preserved(c)
  BY <1>4, OutgoingEdges
<1>6. Placed \subseteq query.nodes /\ query.nodes \subseteq Table
  BY TransferGraphAssumption DEF BuiltInv, Query
<1>7. f \in Filter
  BY <1>1, <1>3, <1>5, <1>6 DEF Filter
<1>8. f.conds # {}
  BY <1>1, <1>2
<1> QED
  BY <1>1, <1>3, <1>5, <1>6, <1>7, <1>8 DEF FilterOK

-----------------------------------------------------------------------------
(* The two passes *)

DirOf(i) == IF i < Len(ExecOrder) THEN "forward" ELSE "backward"

\* The pass dir has been at node n.
Seen(n, dir) == \E j \in 0..(pos - 1) : Visited(j) = n /\ DirOf(j) = dir

\* The operators that have been built when Optimize is at pos.  Whatever is
\* sent to a node is sent before the pass comes to it, and taken when it does.
PassInv ==
  /\ pos \in 0..(2 * Len(ExecOrder))
  /\ \A f \in bloom_filters : f.dir \in Pass /\ f \in GetAllBFCreate(f.from, f.dir)
  /\ \A f \in bloom_filters : Seen(f.from, f.dir)
  /\ \A f \in bloom_filters : Seen(f.to, f.dir) => f \in replace_map[f.dir][f.to].use
  /\ \A f \in used : f \in bloom_filters /\ Seen(f.to, f.dir)
  /\ \A dir \in Pass, n \in Table :
       /\ \A f \in replace_map[dir][n].create : f \in bloom_filters /\ f.dir = dir
       /\ Seen(n, dir) => replace_map[dir][n].create = GetAllBFCreate(n, dir)

NothingInserted ==
  /\ pos = 0 /\ bloom_filters = {} /\ used = {}
  /\ replace_map = [dir \in Pass |-> [n \in Table |-> EmptyStack]]

\* The filters a stack probes were sent to its node in its pass, and are sound.
UseInv ==
  \A dir \in Pass, n \in Table : \A f \in replace_map[dir][n].use :
    FilterOK(f) /\ f.to = n /\ f.dir = dir

PlanInv ==
  /\ phase \in GraphPhase \cup {"execute"}
  /\ phase \in {"build", "root", "grow"} => NothingInserted
  /\ phase = "optimize" => PassInv
  /\ UseInv
  /\ EveryTransferHappens

\* A pass visits a node once.
LEMMA VisitedOnce ==
  ASSUME GraphInv, NEW i \in 0..(2 * Len(ExecOrder) - 1), NEW j \in 0..(2 * Len(ExecOrder) - 1),
         DirOf(i) = DirOf(j)
  PROVE  /\ Visited(i) \in Placed /\ Visited(i) \in Table
         /\ Visited(i) = Visited(j) => i = j
         /\ DirOf(i) = "forward"  /\ priority[Visited(j)] > priority[Visited(i)] => j > i
         /\ DirOf(i) = "backward" /\ priority[Visited(i)] > priority[Visited(j)] => j > i
<1> DEFINE L == Len(ExecOrder)
           at(k) == IF k < L THEN L - k ELSE k - L + 1
<1>1. ExecOrder \in Seq(Table) /\ L \in Nat /\ DOMAIN ExecOrder = 1..L
  BY DEF GraphInv, GraphTypeOK
<1>2. \A k \in 0..(2 * L - 1) : at(k) \in 1..L /\ Visited(k) = ExecOrder[at(k)]
  BY <1>1 DEF Visited
<1>3. \A a, b \in 1..L : a < b => priority[ExecOrder[a]] > priority[ExecOrder[b]]
  BY <1>1 DEF GraphInv, OrderInv
<1>4. \A a \in 1..L : ExecOrder[a] \in Table /\ priority[ExecOrder[a]] \in Int
  BY <1>1 DEF GraphInv, GraphTypeOK, Priority
<1>5. \A a, b \in 1..L : /\ ExecOrder[a] = ExecOrder[b] => a = b
                         /\ priority[ExecOrder[a]] > priority[ExecOrder[b]] => a < b
  <2> SUFFICES ASSUME NEW a \in 1..L, NEW b \in 1..L
               PROVE  /\ ExecOrder[a] = ExecOrder[b] => a = b
                      /\ priority[ExecOrder[a]] > priority[ExecOrder[b]] => a < b
    OBVIOUS
  <2>1. a \in Int /\ b \in Int
    OBVIOUS
  <2>2. priority[ExecOrder[a]] \in Int /\ priority[ExecOrder[b]] \in Int
    BY <1>4
  <2>3. /\ a < b => priority[ExecOrder[a]] > priority[ExecOrder[b]]
        /\ b < a => priority[ExecOrder[b]] > priority[ExecOrder[a]]
    BY <1>3
  <2> QED
    BY <2>1, <2>2, <2>3
<1>6. Visited(i) \in Placed /\ Visited(i) \in Table
  BY <1>1, <1>2, <1>4 DEF Placed
<1>7. /\ at(i) \in 1..L /\ Visited(i) = ExecOrder[at(i)]
      /\ at(j) \in 1..L /\ Visited(j) = ExecOrder[at(j)]
  BY <1>2
<1>8. Visited(i) = Visited(j) => at(i) = at(j)
  BY <1>5, <1>7
<1>9. /\ priority[Visited(j)] > priority[Visited(i)] => at(j) < at(i)
      /\ priority[Visited(i)] > priority[Visited(j)] => at(i) < at(j)
  BY <1>5, <1>7
<1>10. /\ DirOf(i) = "forward"  => i < L /\ j < L
       /\ DirOf(i) = "backward" => ~(i < L) /\ ~(j < L)
       /\ DirOf(i) \in {"forward", "backward"}
  BY DEF DirOf
<1>11. /\ at(i) = at(j) => i = j
       /\ DirOf(i) = "forward"  /\ at(j) < at(i) => j > i
       /\ DirOf(i) = "backward" /\ at(i) < at(j) => j > i
  BY <1>1, <1>10
<1> QED
  BY <1>6, <1>8, <1>9, <1>11

\* Every placed node is visited by both passes.
LEMMA VisitedByBoth ==
  ASSUME GraphInv, NEW n \in Placed, NEW dir \in Pass
  PROVE  \E j \in 0..(2 * Len(ExecOrder) - 1) : Visited(j) = n /\ DirOf(j) = dir
<1>1. ExecOrder \in Seq(Table) /\ Len(ExecOrder) \in Nat /\ DOMAIN ExecOrder = 1..Len(ExecOrder)
  BY DEF GraphInv, GraphTypeOK
<1>2. PICK i \in 1..Len(ExecOrder) : ExecOrder[i] = n
  BY <1>1 DEF Placed
<1>3. CASE dir = "forward"
  <2>1. /\ Len(ExecOrder) - i \in 0..(2 * Len(ExecOrder) - 1)
        /\ Visited(Len(ExecOrder) - i) = n /\ DirOf(Len(ExecOrder) - i) = "forward"
    BY <1>1, <1>2 DEF Visited, DirOf
  <2> QED
    BY <1>3, <2>1
<1>4. CASE dir = "backward"
  <2>1. /\ Len(ExecOrder) + i - 1 \in 0..(2 * Len(ExecOrder) - 1)
        /\ Visited(Len(ExecOrder) + i - 1) = n /\ DirOf(Len(ExecOrder) + i - 1) = "backward"
    BY <1>1, <1>2 DEF Visited, DirOf
  <2> QED
    BY <1>4, <2>1
<1> QED
  BY <1>3, <1>4 DEF Pass

\* UseInv speaks of the query and the replace maps only.
LEMMA UseInvStays ==
  ASSUME UseInv, UNCHANGED <<query, replace_map>>
  PROVE  UseInv'
<1>1. \A f : FilterOK(f)' <=> FilterOK(f)
  BY DEF FilterOK
<1> QED
  BY <1>1 DEF UseInv

\* BuildUseOperator finds the creator of every filter that a node uses.
LEMMA CreatorsFound ==
  ASSUME TypeOK, BuiltInv, PlanInv, phase = "optimize", NEW n \in Table, NEW dir \in Pass
  PROVE  ~CreatorMissing(GetAllBFUsed(n, dir))
<1>1. SUFFICES ASSUME NEW f \in GetAllBFUsed(n, dir)
               PROVE  f.from \in nodes /\ replace_map[f.dir][f.from].create # {}
  BY DEF CreatorMissing
<1>2. f \in bloom_filters /\ f.dir \in Pass /\ f \in GetAllBFCreate(f.from, f.dir)
      /\ Seen(f.from, f.dir)
  BY <1>1 DEF GetAllBFUsed, PlanInv, PassInv
<1>3. FilterOK(f)
  BY <1>2, CreatedFilters
<1>4. f.from \in nodes /\ f.from \in Table
  BY <1>3 DEF FilterOK, Filter, BuiltInv
<1>5. replace_map[f.dir][f.from].create = GetAllBFCreate(f.from, f.dir)
  BY <1>2, <1>4 DEF PlanInv, PassInv
<1> QED
  BY <1>2, <1>4, <1>5

\* One iteration of Optimize: what it takes was all there, and what it sends is
\* sent to nodes that come later.
LEMMA OptimizeNodeKeepsInv ==
  TypeOK /\ BuiltInv /\ PlanInv /\ OptimizeNode => TypeOK' /\ BuiltInv' /\ PlanInv'
<1> SUFFICES ASSUME TypeOK, BuiltInv, PlanInv, OptimizeNode
             PROVE  TypeOK' /\ BuiltInv' /\ PlanInv'
  OBVIOUS
<1> DEFINE n == Visited(pos)
           dir == DirOf(pos)
           U == GetAllBFUsed(n, dir)
           C == GetAllBFCreate(n, dir)
<1>1. /\ phase = "optimize" /\ GraphInv /\ PassInv
      /\ pos \in 0..(2 * Len(ExecOrder) - 1) /\ pos' = pos + 1
      /\ UNCHANGED <<query, sort_nodes, edges, nodes, tree, prior_flag, priority,
                     ExecOrder, selected, dag, base, out, done>>
  <2>1. Len(ExecOrder) \in Nat
    BY DEF OptimizeNode, BuiltInv, GraphPhase, GraphInv, GraphTypeOK
  <2> QED
    BY <2>1 DEF OptimizeNode, BuiltInv, PlanInv, PassInv, GraphPhase
<1>2. dir \in Pass /\ n \in Table /\ n \in Placed
  BY <1>1, VisitedOnce DEF DirOf, Pass
<1>3. /\ used' = used \cup U
      /\ bloom_filters' = bloom_filters \cup C
      /\ replace_map' = [replace_map EXCEPT ![dir][n] = [use |-> U, create |-> C]]
      /\ phase' = "optimize"
  BY <1>1, <1>2, CreatorsFound DEF OptimizeNode, CreateBloomFilter, DirOf
<1>4. /\ \A f \in C : /\ FilterOK(f) /\ f.from = n /\ f.dir = dir /\ f.to \in Placed
                      /\ dir = "forward"  => priority[f.to] > priority[n]
                      /\ dir = "backward" => priority[n] > priority[f.to]
      /\ \A f \in bloom_filters : FilterOK(f)
  BY <1>1, <1>2, CreatedFilters DEF PassInv
<1>5. \A f \in U : f \in bloom_filters /\ f \notin used /\ f.to = n /\ f.dir = dir
  BY DEF GetAllBFUsed
<1>6. C \subseteq Filter /\ U \subseteq Filter
  BY <1>4, <1>5 DEF FilterOK
<1>7. /\ replace_map' \in [Pass -> [Table -> [use : SUBSET Filter, create : SUBSET Filter]]]
      /\ replace_map'[dir][n] = [use |-> U, create |-> C]
      /\ \A d \in Pass, m \in Table : <<d, m>> # <<dir, n>> => replace_map'[d][m] = replace_map[d][m]
  BY <1>2, <1>3, <1>6 DEF TypeOK
<1> HIDE DEF n, dir, U, C
<1>8. TypeOK'
  BY <1>1, <1>3, <1>5, <1>6, <1>7 DEF TypeOK
<1>9. BuiltInv'
  <2>1. GraphInv'
    BY <1>1, <1>3 DEF GraphInv, GraphTypeOK, Priority, StageInv, OrderInv, SelectedInv, Placed,
       EdgeOK, PreservedSideNotFiltered, TransfersFollowExecOrder
  <2>2. CreateDAG' = CreateDAG
    BY <1>1 DEF CreateDAG, Filtering, Upper, Lower, ProtectedBy
  <2> QED
    BY <1>1, <1>3, <2>1, <2>2 DEF BuiltInv, EdgesInv, Placed
<1>10. UseInv'
  <2>1. \A f : FilterOK(f)' <=> FilterOK(f)
    BY <1>1 DEF FilterOK
  <2>2. SUFFICES ASSUME NEW d \in Pass, NEW m \in Table, NEW f \in replace_map'[d][m].use
                 PROVE  FilterOK(f) /\ f.to = m /\ f.dir = d
    BY <2>1 DEF UseInv
  <2>3. CASE <<d, m>> = <<dir, n>>
    <3>1. d = dir /\ m = n
      BY <2>3
    <3>2. f \in U
      BY <1>7, <2>2, <3>1
    <3> QED
      BY <1>4, <1>5, <3>1, <3>2
  <2>4. CASE <<d, m>> # <<dir, n>>
    <3>1. f \in replace_map[d][m].use
      BY <1>7, <2>2, <2>4
    <3>2. UseInv
      BY DEF PlanInv
    <3> QED
      BY <3>1, <3>2 DEF UseInv
  <2> QED
    BY <2>3, <2>4
<1>11. PassInv'
  <2>1. /\ \A i : Visited(i)' = Visited(i) /\ DirOf(i)' = DirOf(i)
        /\ \A m, d : GetAllBFCreate(m, d)' = GetAllBFCreate(m, d)
    BY <1>1 DEF Visited, DirOf, GetAllBFCreate, Outgoing
  <2>2. \A m, d : Seen(m, d)' <=> (Seen(m, d) \/ (m = n /\ d = dir))
    BY <1>1, <2>1 DEF Seen, n, dir
  <2>3. ~Seen(n, dir)
    BY <1>1, VisitedOnce DEF Seen, n, dir
  <2>4. ASSUME NEW f \in C PROVE ~Seen(f.to, dir) /\ f.to # n
    <3>1. SUFFICES ASSUME NEW j \in 0..pos, Visited(j) = f.to, DirOf(j) = dir PROVE FALSE
      BY <1>1 DEF Seen, n, dir
    <3>2. /\ dir = "forward"  => priority[Visited(j)] > priority[Visited(pos)]
          /\ dir = "backward" => priority[Visited(pos)] > priority[Visited(j)]
      BY <1>4, <2>4, <3>1 DEF n
    <3>3. j > pos
      BY <1>1, <1>2, <3>1, <3>2, VisitedOnce DEF dir, Pass
    <3> QED
      BY <1>1, <3>1, <3>3
  <2>5. pos' \in 0..(2 * Len(ExecOrder'))
    BY <1>1
  <2>6. \A f \in bloom_filters' : f.dir \in Pass /\ f \in GetAllBFCreate(f.from, f.dir)'
    BY <1>1, <1>2, <1>3, <1>4, <2>1 DEF PassInv, C
  <2>7. \A f \in bloom_filters' : Seen(f.from, f.dir)'
    BY <1>1, <1>3, <1>4, <2>2 DEF PassInv
  <2>8. ASSUME NEW f \in bloom_filters', Seen(f.to, f.dir)'
        PROVE  f \in replace_map'[f.dir][f.to].use
    <3>1. f \notin C
      BY <1>4, <2>2, <2>4, <2>8
    <3>2. f \in bloom_filters /\ f.dir \in Pass /\ f.to \in Table
      BY <1>1, <1>3, <1>4, <3>1 DEF PassInv, FilterOK, Filter
    <3>3. CASE <<f.dir, f.to>> = <<dir, n>>
      <4>1. f \notin used
        BY <1>1, <2>3, <3>3 DEF PassInv
      <4>2. f \in U
        BY <3>2, <3>3, <4>1 DEF U, GetAllBFUsed
      <4> QED
        BY <1>7, <3>3, <4>2
    <3>4. CASE <<f.dir, f.to>> # <<dir, n>>
      <4>1. Seen(f.to, f.dir)
        BY <2>2, <2>8, <3>4
      <4> QED
        BY <1>1, <1>7, <3>2, <3>4, <4>1 DEF PassInv
    <3> QED
      BY <3>3, <3>4
  <2>9. \A f \in used' : f \in bloom_filters' /\ Seen(f.to, f.dir)'
    BY <1>1, <1>3, <1>5, <2>2 DEF PassInv
  <2>10. ASSUME NEW d \in Pass, NEW m \in Table
         PROVE  /\ \A f \in replace_map'[d][m].create : f \in bloom_filters' /\ f.dir = d
                /\ Seen(m, d)' => replace_map'[d][m].create = GetAllBFCreate(m, d)'
    <3>1. CASE <<d, m>> = <<dir, n>>
      BY <1>3, <1>4, <1>7, <2>1, <3>1 DEF C
    <3>2. CASE <<d, m>> # <<dir, n>>
      BY <1>1, <1>3, <1>7, <2>1, <2>2, <3>2 DEF PassInv
    <3> QED
      BY <3>1, <3>2
  <2> QED
    BY <2>5, <2>6, <2>7, <2>8, <2>9, <2>10 DEF PassInv
<1> QED
  BY <1>3, <1>8, <1>9, <1>10, <1>11 DEF PlanInv, GraphPhase, EveryTransferHappens

\* When both passes are through, every filter is used where it was sent to.
LEMMA FiltersUsed ==
  ASSUME TypeOK, BuiltInv, PlanInv, phase = "optimize", pos = 2 * Len(ExecOrder),
         NEW dir \in Pass, NEW n \in Table, NEW f \in GetAllBFCreate(n, dir)
  PROVE  f \in replace_map[dir][f.to].use
<1>1. GraphInv /\ PassInv
  BY DEF BuiltInv, GraphPhase, PlanInv
<1>2. f.from = n /\ f.dir = dir /\ f.from \in Placed /\ f.to \in Placed
  BY CreatedFilters
<1>3. Seen(n, dir) /\ Seen(f.to, dir)
  BY <1>1, <1>2, VisitedByBoth DEF Seen
<1>4. f \in bloom_filters
  BY <1>1, <1>3 DEF PassInv
<1> QED
  BY <1>1, <1>2, <1>3, <1>4 DEF PassInv

\* The end of Optimize.
LEMMA InsertKeepsInv ==
  TypeOK /\ BuiltInv /\ PlanInv /\ InsertCreateBFOperator => TypeOK' /\ BuiltInv' /\ PlanInv'
<1> SUFFICES ASSUME TypeOK, BuiltInv, PlanInv, InsertCreateBFOperator
             PROVE  TypeOK' /\ BuiltInv' /\ PlanInv'
  OBVIOUS
<1>1. /\ phase = "optimize" /\ pos = 2 * Len(ExecOrder) /\ phase' = "execute"
      /\ UNCHANGED <<query, sort_nodes, edges, nodes, tree, prior_flag, priority,
                     ExecOrder, selected, dag, transferVars>>
  BY DEF InsertCreateBFOperator
<1>2. GraphInv /\ PassInv /\ dag = CreateDAG
  BY <1>1 DEF BuiltInv, GraphPhase, PlanInv
<1>3. query.nodes \subseteq Table
  BY TransferGraphAssumption DEF BuiltInv, Query
<1>4. \A n \in query.nodes, dir \in Pass : \A f \in replace_map[dir][n].create :
        f \in replace_map[dir][f.to].use
  <2>1. SUFFICES ASSUME NEW n \in query.nodes, NEW dir \in Pass,
                        NEW f \in replace_map[dir][n].create
                 PROVE  f \in replace_map[dir][f.to].use
    OBVIOUS
  <2>2. f \in bloom_filters /\ f.dir = dir
    BY <1>2, <1>3, <2>1 DEF PassInv
  <2>3. f.dir \in Pass /\ f \in GetAllBFCreate(f.from, f.dir) /\ f.from \in Table
        /\ Seen(f.from, f.dir)
    BY <1>2, <2>2 DEF PassInv, TypeOK, Filter
  <2>4. f \in replace_map[f.dir][f.to].use
    BY <1>1, <2>3, FiltersUsed
  <2> QED
    BY <2>2, <2>4
<1>5. ASSUME NEW e \in selected, NEW n \in {e.large, e.small} \ Preserved(e.cond)
      PROVE  \E dir \in Pass : \E f \in replace_map[dir][n].use : e.cond \in f.conds
  <2>1. EdgeOK(e) /\ e.cond \in query.conds
    BY <1>2 DEF GraphInv, GraphTypeOK, BuiltInv, EdgesInv
  <2>2. {Upper(e), Lower(e)} = {e.large, e.small} /\ Upper(e) \in Table /\ Lower(e) \in Table
    BY <1>2, UpperPlacedFirst
  <2>3. ~ProtectedBy(e, n)
    BY <1>5, <2>1 DEF ProtectedBy, EdgeOK
  <2>4. \E dir \in Pass, m \in Table : <<m, n, e.cond>> \in Outgoing(m, dir)
    <3>1. CASE n = Upper(e)
      <4>1. <<Lower(e), n, e.cond>> \in Outgoing(Lower(e), "forward")
        BY <1>2, <2>3, <3>1 DEF Outgoing, CreateDAG, Filtering
      <4> QED
        BY <2>2, <4>1 DEF Pass
    <3>2. CASE n = Lower(e)
      <4>1. <<Upper(e), n, e.cond>> \in Outgoing(Upper(e), "backward")
        BY <1>2, <2>3, <3>2 DEF Outgoing, CreateDAG, Filtering
      <4> QED
        BY <2>2, <4>1 DEF Pass
    <3> QED
      BY <1>5, <2>2, <3>1, <3>2
  <2>5. PICK dir \in Pass, m \in Table : <<m, n, e.cond>> \in Outgoing(m, dir)
    BY <2>4
  <2> DEFINE x == <<m, n, e.cond>>
             f == [dir |-> dir, from |-> m, to |-> n,
                   conds |-> {z[3] : z \in {y \in Outgoing(m, dir) : y[2] = n}}]
  <2>6. x[2] = n /\ x[3] = e.cond /\ x \in Outgoing(m, dir)
    BY <2>5
  <2>7. f \in GetAllBFCreate(m, dir)
    BY <2>6 DEF GetAllBFCreate
  <2>8. e.cond \in f.conds /\ f.to = n
    BY <2>6
  <2>9. f \in replace_map[dir][f.to].use
    BY <1>1, <2>5, <2>7, FiltersUsed
  <2> QED
    BY <2>8, <2>9
<1>6. EveryTransferHappens'
  <2>1. (\A n \in query.nodes, dir \in Pass : \A f \in replace_map[dir][n].create :
           f \in replace_map[dir][f.to].use)'
    BY <1>1, <1>4 DEF transferVars
  <2>2. (\A e \in selected : \A n \in {e.large, e.small} \ Preserved(e.cond) :
           \E dir \in Pass : \E f \in replace_map[dir][n].use : e.cond \in f.conds)'
    BY <1>1, <1>5 DEF transferVars
  <2> QED
    BY <2>1, <2>2 DEF EveryTransferHappens
<1>7. TypeOK'
  BY <1>1 DEF TypeOK, transferVars
<1>8. BuiltInv'
  BY <1>1 DEF BuiltInv, EdgesInv, Placed, GraphPhase
<1>9. UseInv'
  BY <1>1, UseInvStays DEF PlanInv, transferVars
<1> QED
  BY <1>1, <1>6, <1>7, <1>8, <1>9 DEF PlanInv

-----------------------------------------------------------------------------
(* The rows *)

\* A stack hands on rows of its input only.
RowsInv ==
  /\ phase # "execute" => done = {}
  /\ \A n \in Table :
       /\ <<"forward", n>> \in done => out["forward"][n] \subseteq base[n]
       /\ <<"backward", n>> \in done =>
            <<"forward", n>> \in done /\ out["backward"][n] \subseteq out["forward"][n]

IInv == TypeOK /\ BuiltInv /\ PlanInv /\ RowsInv

\* What a relation still hands on is within the output of each of its stacks
\* that have run.
LEMMA LiveWithin ==
  ASSUME IInv, NEW m \in Table, NEW dir \in Pass, <<dir, m>> \in done
  PROVE  Live[m] \subseteq out[dir][m]
BY DEF IInv, RowsInv, Live, Pass

\* What a stack reads is what its relation still hands on.
LEMMA StackInputIsLive ==
  ASSUME IInv, NEW n \in Table, NEW dir \in Pass, <<dir, n>> \notin done, Ready(n, dir)
  PROVE  StackInput(n, dir) = Live[n]
BY DEF IInv, RowsInv, Live, Pass, Ready, StackInput

\* A row that some filter of the stack does not let through has no match in
\* the relation the filter comes from.
LEMMA MissedRowsDangle ==
  ASSUME IInv, NEW n \in query.nodes, NEW dir \in Pass, Ready(n, dir),
         NEW r, NEW f \in replace_map[dir][n].use, ~Hit(f, r)
  PROVE  Abstract!Dangling(n, r)
<1>1. n \in Table
  BY TransferGraphAssumption DEF IInv, BuiltInv, Query
<1>2. FilterOK(f) /\ f.to = n /\ f.dir = dir
  BY <1>1 DEF IInv, PlanInv, UseInv
<1>3. f.from \in query.nodes /\ f.from \in Table /\ <<dir, f.from>> \in done
  BY <1>2 DEF FilterOK, Filter, Ready
<1>4. ASSUME NEW c \in f.conds PROVE c \in Abstract!Reducing(n, f.from)
  <2>1. /\ c \in query.conds /\ {c.left, c.right} = {f.from, n}
        /\ n \notin Preserved(c) /\ c.left # c.right
    BY <1>2, <1>4, TransferGraphAssumption DEF FilterOK, IInv, BuiltInv
  <2> QED
    BY <2>1 DEF Abstract!Reducing, Preserved
<1>5. Abstract!Reducing(n, f.from) # {}
  BY <1>2, <1>4 DEF FilterOK
<1>6. ASSUME NEW s \in Live[f.from]
      PROVE  \E c \in Abstract!Reducing(n, f.from) : ~Abstract!Holds(c, n, r, s)
  <2>1. s \in out[f.dir][f.from]
    BY <1>2, <1>3, <1>6, LiveWithin
  <2>2. PICK c \in f.conds : ~SameHash(c, n, r, s)
    BY <1>2, <2>1 DEF Hit
  <2>3. ~Abstract!Holds(c, n, r, s)
    BY <2>2 DEF SameHash, Abstract!Holds, Abstract!SqlEq
  <2> QED
    BY <1>4, <2>2, <2>3
<1> QED
  BY <1>3, <1>5, <1>6 DEF Abstract!Dangling

\* A stack removes dangling rows of its relation and nothing else.
LEMMA RunStackReduces ==
  ASSUME IInv, NEW n \in query.nodes, NEW dir \in Pass, RunStack(n, dir)
  PROVE  IInv' /\ \E R \in SUBSET Live[n] : Abstract!Reduce(n, R)
<1>1. n \in Table
  BY TransferGraphAssumption DEF IInv, BuiltInv, Query
<1> DEFINE use == replace_map[dir][n].use
           hits == {r \in Live[n] : \A f \in use : Hit(f, r)}
<1>2. /\ phase = "execute" /\ <<dir, n>> \notin done /\ Ready(n, dir)
      /\ done' = done \cup {<<dir, n>>}
      /\ UNCHANGED <<graphVars, pos, bloom_filters, used, replace_map, base>>
  BY DEF RunStack
<1>3. StackInput(n, dir) = Live[n]
  BY <1>1, <1>2, StackInputIsLive
<1>4. PICK kept : /\ hits \subseteq kept /\ kept \subseteq Live[n]
                  /\ out' = [out EXCEPT ![dir][n] = kept]
  <2>1. PICK lucky \in SUBSET (Live[n] \cap FalsePositives) :
          out' = [out EXCEPT ![dir][n] = hits \cup (IF use = {} THEN {} ELSE lucky)]
    BY <1>3 DEF RunStack
  <2>2. /\ hits \subseteq hits \cup (IF use = {} THEN {} ELSE lucky)
        /\ hits \cup (IF use = {} THEN {} ELSE lucky) \subseteq Live[n]
    OBVIOUS
  <2> QED
    BY <2>1, <2>2
<1>5. Live \in [Table -> SUBSET Row]
  BY DEF IInv, TypeOK, Live, Pass
<1>6. /\ out' \in [Pass -> [Table -> SUBSET Row]]
      /\ out'[dir][n] = kept
      /\ \A d \in Pass, m \in Table : <<d, m>> # <<dir, n>> => out'[d][m] = out[d][m]
  BY <1>1, <1>4, <1>5 DEF IInv, TypeOK
<1>7. TypeOK'
  BY <1>1, <1>2, <1>6 DEF IInv, TypeOK
<1>8. BuiltInv'
  BY <1>2 DEF IInv, BuiltInv, EdgesInv, Placed, GraphPhase, graphVars
<1>9. PlanInv'
  <2>1. UseInv'
    BY <1>2, UseInvStays DEF IInv, PlanInv, graphVars
  <2>2. EveryTransferHappens'
    BY <1>2 DEF IInv, PlanInv, EveryTransferHappens, graphVars
  <2> QED
    BY <1>2, <2>1, <2>2 DEF PlanInv, graphVars
<1>10. RowsInv'
  <2>1. phase' = "execute"
    BY <1>2 DEF graphVars
  <2>2. dir = "backward" => <<"forward", n>> \in done
    BY <1>2 DEF Ready
  <2>3. kept \subseteq IF dir = "forward" THEN base[n] ELSE out["forward"][n]
    BY <1>3, <1>4 DEF StackInput
  <2>4. dir = "forward" => <<"backward", n>> \notin done
    BY <1>1, <1>2 DEF IInv, RowsInv
  <2>5. ASSUME NEW m \in Table
        PROVE  /\ <<"forward", m>> \in done' => out'["forward"][m] \subseteq base'[m]
               /\ <<"backward", m>> \in done' =>
                    <<"forward", m>> \in done' /\ out'["backward"][m] \subseteq out'["forward"][m]
    <3>1. CASE m # n
      BY <1>2, <1>6, <3>1 DEF IInv, RowsInv, Pass
    <3>2. CASE m = n /\ dir = "forward"
      BY <1>2, <1>6, <2>3, <2>4, <3>2
    <3>3. CASE m = n /\ dir = "backward"
      BY <1>2, <1>6, <2>2, <2>3, <3>3 DEF IInv, RowsInv, Pass
    <3> QED
      BY <3>1, <3>2, <3>3 DEF Pass
  <2> QED
    BY <2>1, <2>5 DEF RowsInv
<1>11. Live' = [Live EXCEPT ![n] = Live[n] \ (Live[n] \ kept)]
  <2>1. Live[n] \ (Live[n] \ kept) = kept
    BY <1>4
  <2>2. Live'[n] = kept
    <3>1. CASE dir = "forward"
      BY <1>1, <1>2, <1>6, <3>1 DEF Live, IInv, RowsInv
    <3>2. CASE dir = "backward"
      BY <1>1, <1>2, <1>6, <3>2 DEF Live
    <3> QED
      BY <3>1, <3>2 DEF Pass
  <2>3. ASSUME NEW m \in Table, m # n PROVE Live'[m] = Live[m]
    BY <1>2, <1>6, <2>3 DEF Live, Pass
  <2>4. Live' = [m \in Table |-> Live'[m]]
    BY DEF Live
  <2> QED
    BY <1>1, <1>5, <2>1, <2>2, <2>3, <2>4
<1>12. Live[n] \ kept \subseteq {r \in Live[n] : Abstract!Dangling(n, r)}
  <2>1. SUFFICES ASSUME NEW r \in Live[n], r \notin kept PROVE Abstract!Dangling(n, r)
    OBVIOUS
  <2>2. PICK f \in use : ~Hit(f, r)
    BY <1>4, <2>1
  <2> QED
    BY <1>2, <2>2, MissedRowsDangle
<1>13. Abstract!Reduce(n, Live[n] \ kept)
  BY <1>2, <1>11, <1>12 DEF Abstract!Reduce, graphVars
<1> QED
  BY <1>7, <1>8, <1>9, <1>10, <1>13 DEF IInv

-----------------------------------------------------------------------------

\* No operator has been built and no stack has run.
LEMMA InitIInv == Init => IInv
<1> SUFFICES ASSUME Init PROVE IInv
  OBVIOUS
<1>1. query \in Queries /\ base \in [Table -> SUBSET Row]
  BY PredicateTransferAssumption DEF Init, GraphInit
<1>2. TypeOK
  BY <1>1 DEF Init, TypeOK, EmptyStack, Pass
<1>3. UseInv
  BY DEF Init, UseInv, EmptyStack
<1>4. PlanInv /\ RowsInv
  BY <1>3 DEF Init, GraphInit, PlanInv, RowsInv, GraphPhase, NothingInserted, EveryTransferHappens
<1> QED
  BY <1>2, <1>4, InitBuiltInv DEF IInv

\* Build leaves the operators alone; its last step starts the two passes.
LEMMA GraphStepKeepsInv ==
  ASSUME IInv, GraphNext, UNCHANGED transferVars
  PROVE  IInv' /\ UNCHANGED <<query, base, Live>>
<1>1. BuiltInv'
  BY GraphStepBuiltInv DEF IInv
<1>2. phase \in {"build", "root", "grow"} /\ phase' \in GraphPhase /\ query' = query
  BY DEF GraphNext, BuildFails, Build, PickRoot, GrowTree, EndTree, Direct, GraphPhase
<1>3. TypeOK' /\ RowsInv' /\ base' = base
  BY <1>2 DEF IInv, TypeOK, RowsInv, transferVars, GraphPhase
<1>4. UseInv'
  BY <1>2, UseInvStays DEF IInv, PlanInv, transferVars
<1>5. NothingInserted /\ NothingInserted'
  BY <1>2 DEF IInv, PlanInv, NothingInserted, transferVars
<1>6. phase' = "optimize" => PassInv'
  <2>1. SUFFICES ASSUME phase' = "optimize" PROVE PassInv'
    OBVIOUS
  <2>2. Len(ExecOrder') \in Nat
    BY <1>1, <2>1 DEF BuiltInv, GraphPhase, GraphInv, GraphTypeOK
  <2>3. \A m, d : ~Seen(m, d)'
    BY <1>5 DEF Seen, NothingInserted
  <2>4. \A dir \in Pass, n \in Table : replace_map'[dir][n].create = {}
    BY <1>5 DEF NothingInserted, EmptyStack
  <2> QED
    BY <1>5, <2>2, <2>3, <2>4 DEF PassInv, NothingInserted
<1>7. PlanInv'
  BY <1>2, <1>4, <1>5, <1>6 DEF PlanInv, EveryTransferHappens, GraphPhase
<1>8. Live' = Live
  BY DEF Live, transferVars
<1> QED
  BY <1>1, <1>2, <1>3, <1>7, <1>8 DEF IInv

\* Every step keeps the invariant and is a step of semi-join reduction, or
\* leaves the rows alone.
LEMMA StepReduces ==
  ASSUME IInv, [Next]_vars
  PROVE  IInv' /\ [Abstract!Next]_(Abstract!vars)
<1>1. CASE GraphNext /\ UNCHANGED transferVars
  BY <1>1, GraphStepKeepsInv DEF Abstract!vars
<1>2. ASSUME OptimizeNode \/ InsertCreateBFOperator
      PROVE  IInv' /\ UNCHANGED <<query, base, Live>>
  <2>1. TypeOK' /\ BuiltInv' /\ PlanInv'
    BY <1>2, OptimizeNodeKeepsInv, InsertKeepsInv DEF IInv
  <2>2. phase = "optimize" /\ UNCHANGED <<query, base, out, done>>
    BY <1>2 DEF OptimizeNode, InsertCreateBFOperator, transferVars
  <2>3. RowsInv'
    BY <2>2 DEF IInv, RowsInv
  <2>4. Live' = Live
    BY <2>2 DEF Live
  <2> QED
    BY <2>1, <2>2, <2>3, <2>4 DEF IInv
<1>3. ASSUME NEW n \in query.nodes, NEW dir \in Pass, RunStack(n, dir)
      PROVE  IInv' /\ Abstract!Next
  BY <1>3, RunStackReduces DEF Abstract!Next
<1>4. ASSUME UNCHANGED vars
      PROVE  IInv' /\ UNCHANGED <<query, base, Live>>
  <2>1. UNCHANGED graphVars /\ UNCHANGED transferVars
    BY <1>4 DEF vars
  <2>2. TypeOK' /\ RowsInv'
    BY <2>1 DEF IInv, TypeOK, RowsInv, graphVars, transferVars
  <2>3. BuiltInv'
    <3>1. GraphInv => GraphInv'
      BY <2>1 DEF GraphInv, graphVars, GraphTypeOK, Priority, StageInv, OrderInv, SelectedInv, Placed,
         EdgeOK, PreservedSideNotFiltered, TransfersFollowExecOrder
    <3>2. CreateDAG' = CreateDAG
      BY <2>1 DEF graphVars, CreateDAG, Filtering, Upper, Lower, ProtectedBy
    <3> QED
      BY <2>1, <3>1, <3>2 DEF IInv, BuiltInv, EdgesInv, Placed, graphVars
  <2>4. PlanInv'
    <3>1. UseInv'
      BY <2>1, UseInvStays DEF IInv, PlanInv, graphVars, transferVars
    <3>2. EveryTransferHappens'
      BY <2>1 DEF IInv, PlanInv, EveryTransferHappens, graphVars, transferVars
    <3>3. PassInv => PassInv'
      BY <2>1 DEF PassInv, Seen, Visited, DirOf, GetAllBFCreate, Outgoing, graphVars, transferVars
    <3>4. NothingInserted => NothingInserted'
      BY <2>1 DEF NothingInserted, transferVars
    <3> QED
      BY <2>1, <3>1, <3>2, <3>3, <3>4 DEF IInv, PlanInv, graphVars
  <2> QED
    BY <2>1, <2>2, <2>3, <2>4 DEF IInv, Live, graphVars, transferVars
<1>5. CASE Terminated
  BY <1>4, <1>5 DEF Terminated, Abstract!vars
<1> QED
  BY <1>1, <1>2, <1>3, <1>4, <1>5 DEF Next, Abstract!vars

\* IInv is an inductive invariant of the optimizer and the execution.
LEMMA Invariance == Spec => []IInv
<1>1. IInv /\ [Next]_vars => IInv'
  BY StepReduces
<1> QED
  BY <1>1, InitIInv, PTL DEF Spec

\* The optimizer's structures and the rows keep their types.
THEOREM TypesCorrect == Spec => []TypeOK
<1>1. IInv => TypeOK
  BY DEF IInv
<1> QED
  BY <1>1, Invariance, PTL

\* BuildUseOperator always finds the CreateBF it links to, for every query and
\* every tree LargestRoot may grow: Optimize never follows a null pointer.
THEOREM CreatorsAreFound == Spec => []CreatorAlwaysFound
<1>1. IInv => CreatorAlwaysFound
  BY DEF IInv, PlanInv, CreatorAlwaysFound, GraphPhase
<1> QED
  BY <1>1, Invariance, PTL

\* Every filter Optimize creates is probed at the node it was sent to, and every
\* selected condition filters each side that no outer join preserves.
THEOREM TransfersHappen == Spec => []EveryTransferHappens
<1>1. IInv => EveryTransferHappens
  BY DEF IInv, PlanInv
<1> QED
  BY <1>1, Invariance, PTL

\* Optimize and the execution of its stacks, in any order and with any false
\* positives, implement semi-join reduction.
THEOREM TransferImplementsReduction == Spec => ImplementsReduction
<1>1. Init => Abstract!Init
  <2>1. SUFFICES ASSUME Init PROVE Abstract!Init
    OBVIOUS
  <2>2. query.nodes \subseteq Table
    BY <2>1, TransferGraphAssumption DEF Init, GraphInit, Query
  <2>3. base \in [Table -> SUBSET Row]
    BY <2>1, PredicateTransferAssumption DEF Init, GraphInit
  <2>4. Live = base
    BY <2>1, <2>3 DEF Init, Live
  <2> QED
    BY <2>2, <2>3, <2>4 DEF Abstract!Init, Abstract!Row, Row
<1>2. IInv /\ [Next]_vars => [Abstract!Next]_(Abstract!vars)
  BY StepReduces
<1> QED
  BY <1>1, <1>2, Invariance, PTL DEF Spec, ImplementsReduction, Abstract!Spec

\* The theorem about the abstract specification, for the refinement mapping.
Reduction ==
  INSTANCE SemiJoinReduction_proofs WITH nodes <- query.nodes, conds <- query.conds, live <- Live

\* Predicate transfer never changes the result of the joins, outer joins
\* included: at any point of the execution the rows that are left have the
\* result all rows have, rows filled with nulls among them, for every query,
\* database and order in which the stacks run.
THEOREM ResultsPreserved == Spec => []ResultPreserved
<1>1. Abstract!Init <=> Reduction!Init
  BY DEF Abstract!Init, Reduction!Init, Abstract!Row, Reduction!Row
<1>2. [Abstract!Next]_(Abstract!vars) <=> [Reduction!Next]_(Reduction!vars)
  BY DEF Abstract!Next, Reduction!Next, Abstract!vars, Reduction!vars, Abstract!Reduce,
     Reduction!Reduce, Abstract!Dangling, Reduction!Dangling, Abstract!Reducing,
     Reduction!Reducing, Abstract!Holds, Reduction!Holds, Abstract!SqlEq, Reduction!SqlEq
<1>3. Abstract!ResultKept <=> Reduction!ResultKept
  <2>1. \A t, c : Abstract!Satisfies(t, c) <=> Reduction!Satisfies(t, c)
    BY DEF Abstract!Satisfies, Reduction!Satisfies, Abstract!Preserves, Reduction!Preserves,
       Abstract!SqlEq, Reduction!SqlEq
  <2>2. \A rows : Abstract!Combinations(rows) = Reduction!Combinations(rows)
    BY <2>1 DEF Abstract!Combinations, Reduction!Combinations, Abstract!Row, Reduction!Row
  <2>3. \A rows : Abstract!JoinResult(rows) = Reduction!JoinResult(rows)
    BY <2>2 DEF Abstract!JoinResult, Reduction!JoinResult
  <2> QED
    BY <2>3 DEF Abstract!ResultKept, Reduction!ResultKept
<1>4. Reduction!Spec => []Reduction!ResultKept
  BY Reduction!ReductionKeepsResult
<1> QED
  BY <1>1, <1>2, <1>3, <1>4, TransferImplementsReduction, PTL
  DEF ImplementsReduction, ResultPreserved, Abstract!Spec, Reduction!Spec

=============================================================================
