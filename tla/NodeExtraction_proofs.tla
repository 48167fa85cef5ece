------------------------ MODULE NodeExtraction_proofs ------------------------
(***************************************************************************)
(* The flag can_add_mark: no query leaves it behind, however many          *)
(* connections share it, and a connection that has it for itself does not  *)
(* take the comparison join of a NOT IN for an edge.                       *)
(***************************************************************************)
EXTENDS NodeExtraction, SequenceTheorems, WellFoundedInduction, TLAPS

OptFields == {"plan", "calls", "nodes", "rename_cols", "filter_operators", "queries"}

\* Calls of ExtractNodes, on the operators of any plan.
AnyOp == UNION {DOMAIN p : p \in LogicalPlans}
Calls == [fn : {"ExtractNodes", "reset", "AddNode"}, op : AnyOp]

\* The pending calls of an optimizer are about operators of its plan.
OptOK(o) ==
  /\ DOMAIN o = OptFields
  /\ o.calls \in Seq(Calls)
  /\ IF o.plan = <<>> THEN o.calls = <<>>
     ELSE o.plan \in LogicalPlans /\ \A i \in DOMAIN o.calls : o.calls[i].op \in DOMAIN o.plan

TypesInv == DOMAIN opt = Connection /\ \A k \in Connection : OptOK(opt[k])

\* A call about a join that will set the flag again.
Restores(p, c) == p[c.op].kind \in JoinKinds /\ c.fn \in {"ExtractNodes", "reset"}

Restoring(o) == \E i \in DOMAIN o.calls : Restores(o.plan, o.calls[i])

\* Whoever cleared the flag, some connection has a join before it that has not
\* reset the flag yet.
FlagInv == can_add_mark = FALSE => \E k \in Connection : Restoring(opt[k])

-----------------------------------------------------------------------------
(* The calls of the descent *)

\* The children of an operator are visited.
LEMMA ExtractCalls ==
  ASSUME NEW p \in LogicalPlans, NEW ops \in Seq(DOMAIN p)
  PROVE  /\ Extract(ops) \in Seq(Calls) /\ DOMAIN Extract(ops) = DOMAIN ops
         /\ \A i \in DOMAIN ops : /\ Extract(ops)[i].op = ops[i] /\ Extract(ops)[i].op \in DOMAIN p
                                  /\ Extract(ops)[i].fn = "ExtractNodes"
<1>1. DOMAIN p \subseteq AnyOp
  BY DEF AnyOp
<1>2. /\ DOMAIN Extract(ops) = DOMAIN ops
      /\ \A i \in DOMAIN ops : Extract(ops)[i] = Call("ExtractNodes", ops[i])
  BY DEF Extract
<1>3. \A i \in DOMAIN ops : Call("ExtractNodes", ops[i]) \in Calls
  <2>1. \A i \in DOMAIN ops : ops[i] \in AnyOp
    BY <1>1
  <2> QED
    BY <2>1 DEF Call, Calls
<1>4. Extract(ops) \in [1..Len(ops) -> Calls] /\ Len(ops) \in Nat
  BY <1>3 DEF Extract
<1> QED
  BY <1>2, <1>4 DEF Call

\* The call on top is replaced.  Whatever would restore the flag is among the
\* new calls, among the others, or was on top.
LEMMA ContinueKeeps ==
  ASSUME NEW o, OptOK(o), o.plan # <<>>, o.calls # <<>>,
         NEW r, DOMAIN r = OptFields, r.plan = o.plan, r.calls = o.calls,
         NEW cs \in Seq(Calls), \A i \in DOMAIN cs : cs[i].op \in DOMAIN o.plan,
         NEW n, n = [r EXCEPT !.calls = cs \o Tail(@)]
  PROVE  /\ OptOK(n) /\ n.plan = o.plan /\ n.filter_operators = r.filter_operators
         /\ n.calls = cs \o Tail(o.calls)
         /\ (\E i \in DOMAIN cs : Restores(o.plan, cs[i])) => Restoring(n)
         /\ Restoring(o) => Restoring(n) \/ Restores(o.plan, Head(o.calls))
<1> DEFINE s == o.calls
           T == Tail(o.calls)
<1>1. /\ DOMAIN n = OptFields /\ n.plan = o.plan /\ n.filter_operators = r.filter_operators
      /\ n.calls = cs \o T
  BY DEF OptFields
<1>2. s \in Seq(Calls) /\ s # <<>> /\ \A i \in DOMAIN s : s[i].op \in DOMAIN o.plan
  BY DEF OptOK
<1> HIDE DEF s
<1>3. /\ T \in Seq(Calls) /\ Head(s) = s[1] /\ Len(T) = Len(s) - 1 /\ Len(s) \in Nat
      /\ \A i \in 1..Len(T) : T[i] = s[i + 1]
  BY <1>2, HeadTailProperties DEF s
<1> HIDE DEF T
<1>4. /\ cs \o T \in Seq(Calls) /\ Len(cs \o T) = Len(cs) + Len(T)
      /\ \A i \in 1..(Len(cs) + Len(T)) : (cs \o T)[i] = IF i <= Len(cs) THEN cs[i] ELSE T[i - Len(cs)]
      /\ Len(cs) \in Nat /\ Len(T) \in Nat
      /\ DOMAIN cs = 1..Len(cs) /\ DOMAIN (cs \o T) = 1..(Len(cs) + Len(T)) /\ DOMAIN s = 1..Len(s)
  <2>1. /\ cs \o T \in Seq(Calls) /\ Len(cs \o T) = Len(cs) + Len(T)
        /\ \A i \in 1..(Len(cs) + Len(T)) :
             (cs \o T)[i] = IF i <= Len(cs) THEN cs[i] ELSE T[i - Len(cs)]
    BY <1>3, ConcatProperties
  <2>2. /\ Len(cs) \in Nat /\ Len(T) \in Nat /\ DOMAIN cs = 1..Len(cs) /\ DOMAIN s = 1..Len(s)
    BY <1>2, <1>3
  <2>3. DOMAIN (cs \o T) = 1..Len(cs \o T)
    BY <2>1
  <2> QED
    BY <2>1, <2>2, <2>3
<1> DEFINE a == cs \o T
<1> HIDE DEF a
<1>5. \A i \in DOMAIN a : a[i].op \in DOMAIN o.plan
  <2>1. ASSUME NEW i \in DOMAIN a, i \notin DOMAIN cs
        PROVE  a[i] = s[i - Len(cs) + 1] /\ i - Len(cs) + 1 \in DOMAIN s
    <3>1. i \in 1..(Len(cs) + Len(T)) /\ ~(i <= Len(cs))
      BY <1>4, <2>1 DEF a
    <3>2. a[i] = T[i - Len(cs)] /\ i - Len(cs) \in 1..Len(T)
      BY <1>4, <3>1 DEF a
    <3> QED
      BY <1>3, <1>4, <3>2
  <2>2. ASSUME NEW i \in DOMAIN a, i \in DOMAIN cs
        PROVE  a[i] = cs[i]
    BY <1>4, <2>2 DEF a
  <2> QED
    BY <1>2, <2>1, <2>2
<1>6. OptOK(n)
  BY <1>1, <1>4, <1>5 DEF OptOK, a
<1>7. (\E i \in DOMAIN cs : Restores(o.plan, cs[i])) => Restoring(n)
  <2>1. ASSUME NEW i \in DOMAIN cs
        PROVE  i \in DOMAIN n.calls /\ n.calls[i] = cs[i]
    BY <1>1, <1>4
  <2> QED
    BY <1>1, <2>1 DEF Restoring
<1>8. Restoring(o) => Restoring(n) \/ Restores(o.plan, Head(o.calls))
  <2>1. ASSUME NEW i \in DOMAIN s, i # 1
        PROVE  Len(cs) + i - 1 \in DOMAIN n.calls /\ n.calls[Len(cs) + i - 1] = s[i]
    <3> DEFINE x == Len(cs) + i - 1
    <3>1. x \in 1..(Len(cs) + Len(T)) /\ ~(x <= Len(cs)) /\ x - Len(cs) = i - 1 /\ i - 1 \in 1..Len(T)
      BY <1>3, <1>4, <2>1
    <3>2. (cs \o T)[x] = T[i - 1]
      BY <1>4, <3>1
    <3>3. T[i - 1] = s[i]
      BY <1>3, <3>1
    <3> QED
      BY <1>1, <1>4, <3>1, <3>2, <3>3
  <2>2. ASSUME NEW i \in DOMAIN s, Restores(o.plan, s[i])
        PROVE  Restoring(n) \/ Restores(o.plan, Head(s))
    <3>1. CASE i = 1
      BY <1>3, <2>2, <3>1
    <3>2. CASE i # 1
      BY <1>1, <2>1, <2>2, <3>2 DEF Restoring
    <3> QED
      BY <3>1, <3>2
  <2> QED
    BY <2>2 DEF Restoring, s
<1> QED
  BY <1>1, <1>6, <1>7, <1>8 DEF T

\* One connection goes on with its descent.
LEMMA Advance ==
  ASSUME TypesInv, NEW k \in Connection, opt[k].calls # <<>>,
         NEW r, DOMAIN r = OptFields, r.plan = opt[k].plan, r.calls = opt[k].calls,
         NEW cs \in Seq(Calls), \A i \in DOMAIN cs : cs[i].op \in DOMAIN opt[k].plan,
         Continue(k, r, cs)
  PROVE  /\ TypesInv'
         /\ \A j \in Connection : j # k => opt'[j] = opt[j]
         /\ opt'[k].plan = opt[k].plan /\ opt'[k].filter_operators = r.filter_operators
         /\ opt'[k].calls = cs \o Tail(opt[k].calls)
         /\ (\E i \in DOMAIN cs : Restores(opt[k].plan, cs[i])) => Restoring(opt'[k])
         /\ Restoring(opt[k]) => Restoring(opt'[k]) \/ Restores(opt[k].plan, Head(opt[k].calls))
<1> DEFINE n == [r EXCEPT !.calls = cs \o Tail(@)]
<1>1. opt' = [opt EXCEPT ![k] = n]
  BY DEF Continue
<1>2. OptOK(opt[k]) /\ opt[k].plan # <<>> /\ DOMAIN opt = Connection
  BY DEF TypesInv, OptOK
<1>3. /\ OptOK(n) /\ n.plan = opt[k].plan /\ n.filter_operators = r.filter_operators
      /\ n.calls = cs \o Tail(opt[k].calls)
      /\ (\E i \in DOMAIN cs : Restores(opt[k].plan, cs[i])) => Restoring(n)
      /\ Restoring(opt[k]) => Restoring(n) \/ Restores(opt[k].plan, Head(opt[k].calls))
  BY <1>2, ContinueKeeps
<1> HIDE DEF n
<1>4. opt'[k] = n /\ \A j \in Connection : j # k => opt'[j] = opt[j]
  BY <1>1, <1>2
<1>5. TypesInv'
  BY <1>1, <1>2, <1>3, <1>4 DEF TypesInv
<1> QED
  BY <1>3, <1>4, <1>5

\* The flag stays, and so does whatever is to set it.
LEMMA FlagKept ==
  ASSUME FlagInv, NEW k \in Connection, can_add_mark' = can_add_mark,
         \A j \in Connection : j # k => opt'[j] = opt[j],
         Restoring(opt[k]) => Restoring(opt'[k])
  PROVE  FlagInv'
<1> SUFFICES ASSUME can_add_mark' = FALSE PROVE \E j \in Connection : Restoring(opt'[j])
  BY DEF FlagInv
<1>1. PICK j \in Connection : Restoring(opt[j])
  BY DEF FlagInv
<1>2. Restoring(opt'[j])
  BY <1>1
<1> QED
  BY <1>2

\* What a call finds.
LEMMA Visiting ==
  ASSUME TypesInv, NEW k \in Connection, NEW fn, NEW kinds, Calling(k, fn, kinds)
  PROVE  /\ opt[k].calls # <<>> /\ opt[k].plan \in LogicalPlans /\ TopOp(k) \in DOMAIN opt[k].plan
         /\ Top(k).child \in Seq(DOMAIN opt[k].plan) /\ (Top(k).kind = "filter" => Top(k).child # <<>>)
         /\ DOMAIN opt[k] = OptFields
         /\ Restores(opt[k].plan, Head(opt[k].calls)) => JoinKinds \cap kinds # {}
         /\ TopOp(k) \in AnyOp /\ OptOK(opt[k])
<1>1. /\ opt[k].calls # <<>> /\ OptOK(opt[k]) /\ Head(opt[k].calls).fn = fn
      /\ Top(k).kind \in kinds
  BY DEF TypesInv, Calling
<1>2. opt[k].plan \in LogicalPlans /\ opt[k].calls \in Seq(Calls)
      /\ \A i \in DOMAIN opt[k].calls : opt[k].calls[i].op \in DOMAIN opt[k].plan
  BY <1>1 DEF OptOK
<1>3. TopOp(k) \in DOMAIN opt[k].plan
  BY <1>1, <1>2 DEF TopOp
<1>4. /\ Top(k).child \in Seq(DOMAIN opt[k].plan)
      /\ Top(k).kind = "filter" => Top(k).child # <<>>
  <2>1. Top(k).child \in Seq(DOMAIN opt[k].plan) /\ (Top(k).kind = "filter" => Len(Top(k).child) = 1)
    BY <1>2, <1>3, NodeExtractionAssumption DEF Top
  <2>2. \A s : Len(s) = 1 => s # <<>>
    OBVIOUS
  <2> QED
    BY <2>1, <2>2, Zenon
<1>5. Restores(opt[k].plan, Head(opt[k].calls)) => JoinKinds \cap kinds # {}
  BY <1>1 DEF Restores, Top, TopOp
<1>6. DOMAIN opt[k] = OptFields
  BY <1>1 DEF OptOK
<1>7. TopOp(k) \in AnyOp
  BY <1>2, <1>3 DEF AnyOp
<1> QED
  BY <1>1, <1>2, <1>3, <1>4, <1>5, <1>6, <1>7

\* The collections change, the descent does not.
LEMMA Collected ==
  ASSUME NEW o, DOMAIN o = OptFields, NEW op
  PROVE  /\ DOMAIN AddNode(o, op) = OptFields /\ AddNode(o, op).plan = o.plan
         /\ AddNode(o, op).calls = o.calls /\ AddNode(o, op).filter_operators = o.filter_operators
         /\ DOMAIN Rename(o, op) = OptFields /\ Rename(o, op).plan = o.plan
         /\ Rename(o, op).calls = o.calls /\ Rename(o, op).filter_operators = o.filter_operators
         /\ DOMAIN AddFilterOperator(o, op) = OptFields /\ AddFilterOperator(o, op).plan = o.plan
         /\ AddFilterOperator(o, op).calls = o.calls
         /\ AddFilterOperator(o, op).filter_operators \subseteq o.filter_operators \cup {op}
<1>1. /\ DOMAIN AddNode(o, op) = OptFields /\ AddNode(o, op).plan = o.plan
      /\ AddNode(o, op).calls = o.calls /\ AddNode(o, op).filter_operators = o.filter_operators
  BY DEF AddNode, OptFields
<1>2. /\ DOMAIN Rename(o, op) = OptFields /\ Rename(o, op).plan = o.plan
      /\ Rename(o, op).calls = o.calls /\ Rename(o, op).filter_operators = o.filter_operators
  BY DEF Rename, OptFields
<1>3. /\ DOMAIN AddFilterOperator(o, op) = OptFields /\ AddFilterOperator(o, op).plan = o.plan
      /\ AddFilterOperator(o, op).calls = o.calls
      /\ AddFilterOperator(o, op).filter_operators \subseteq o.filter_operators \cup {op}
  BY DEF AddFilterOperator, OptFields
<1> QED
  BY <1>1, <1>2, <1>3

\* One call more, before or after others.
LEMMA CallAndExtract ==
  ASSUME NEW p \in LogicalPlans, NEW ops \in Seq(DOMAIN p), NEW c \in Calls, c.op \in DOMAIN p
  PROVE  /\ <<c>> \o Extract(ops) \in Seq(Calls) /\ Extract(ops) \o <<c>> \in Seq(Calls)
         /\ \A i \in DOMAIN (<<c>> \o Extract(ops)) : (<<c>> \o Extract(ops))[i].op \in DOMAIN p
         /\ \A i \in DOMAIN (Extract(ops) \o <<c>>) : (Extract(ops) \o <<c>>)[i].op \in DOMAIN p
         /\ 1 \in DOMAIN (<<c>> \o Extract(ops)) /\ (<<c>> \o Extract(ops))[1] = c
<1> DEFINE S == {x \in Calls : x.op \in DOMAIN p}
           e == Extract(ops)
<1>1. e \in Seq(S)
  <2>1. e \in Seq(Calls) /\ \A i \in DOMAIN e : e[i].op \in DOMAIN p
    BY ExtractCalls
  <2> HIDE DEF e
  <2>2. Len(e) \in Nat /\ DOMAIN e = 1..Len(e) /\ \A i \in DOMAIN e : e[i] \in S
    BY <2>1
  <2>3. e \in [1..Len(e) -> S]
    BY <2>1, <2>2
  <2> QED
    BY <2>2, <2>3
<1>2. <<c>> \in Seq(S) /\ Len(<<c>>) = 1 /\ <<c>>[1] = c
  OBVIOUS
<1>3. S \subseteq Calls /\ \A x \in S : x.op \in DOMAIN p
  OBVIOUS
<1> HIDE DEF e, S
<1>4. /\ <<c>> \o e \in Seq(S) /\ e \o <<c>> \in Seq(S) /\ Len(<<c>> \o e) = 1 + Len(e) /\ Len(e) \in Nat
      /\ (<<c>> \o e)[1] = c
  <2>1. /\ <<c>> \o e \in Seq(S) /\ Len(<<c>> \o e) = Len(<<c>>) + Len(e)
        /\ \A i \in 1..(Len(<<c>>) + Len(e)) :
             (<<c>> \o e)[i] = IF i <= Len(<<c>>) THEN <<c>>[i] ELSE e[i - Len(<<c>>)]
    BY <1>1, <1>2, ConcatProperties
  <2>2. e \o <<c>> \in Seq(S)
    BY <1>1, <1>2, ConcatProperties
  <2>3. Len(e) \in Nat
    BY <1>1
  <2> QED
    BY <1>2, <2>1, <2>2, <2>3
<1>5. \A s \in Seq(S) : s \in Seq(Calls) /\ \A i \in DOMAIN s : s[i].op \in DOMAIN p
  BY <1>3
<1>6. 1 \in DOMAIN (<<c>> \o e)
  BY <1>4
<1> QED
  BY <1>4, <1>5, <1>6 DEF e

-----------------------------------------------------------------------------
(* What the actions do to the calls *)

\* cs replaces the call on top and visits children of an operator that is no filter.
VisitsChildren(k, cs) ==
  /\ cs \in Seq(Calls)
  /\ opt[k].calls # <<>>
  /\ opt'[k].calls = cs \o Tail(opt[k].calls)
  /\ \A i \in DOMAIN cs : cs[i].fn = "ExtractNodes" =>
       Top(k).kind # "filter" /\ \E j \in DOMAIN Top(k).child : cs[i].op = Top(k).child[j]

\* A step that neither reads nor writes the flag.
PlainStep(k) ==
  /\ TypesInv'
  /\ \A j \in Connection : j # k => opt'[j] = opt[j]
  /\ opt'[k].plan = opt[k].plan /\ opt'[k].filter_operators = opt[k].filter_operators
  /\ can_add_mark' = can_add_mark
  /\ Restoring(opt[k]) => Restoring(opt'[k])
  /\ TopOp(k) \in DOMAIN opt[k].plan /\ opt[k].plan \in LogicalPlans
  /\ \E cs : VisitsChildren(k, cs)

\* The children of an operator are visited next.
LEMMA PlainExtract ==
  ASSUME TypesInv, NEW k \in Connection, NEW kinds, JoinKinds \cap kinds = {}, "filter" \notin kinds,
         Calling(k, "ExtractNodes", kinds), can_add_mark' = can_add_mark,
         NEW r, DOMAIN r = OptFields, r.plan = opt[k].plan, r.calls = opt[k].calls,
         r.filter_operators = opt[k].filter_operators,
         Continue(k, r, Extract(Top(k).child))
  PROVE  PlainStep(k)
<1> DEFINE cs == Extract(Top(k).child)
<1>1. /\ opt[k].calls # <<>> /\ opt[k].plan \in LogicalPlans /\ TopOp(k) \in DOMAIN opt[k].plan
      /\ Top(k).child \in Seq(DOMAIN opt[k].plan)
      /\ ~Restores(opt[k].plan, Head(opt[k].calls))
  BY Visiting
<1>2. Top(k).kind # "filter"
  BY DEF Calling
<1>3. /\ cs \in Seq(Calls) /\ DOMAIN cs = DOMAIN Top(k).child
      /\ \A i \in DOMAIN cs : cs[i].op = Top(k).child[i] /\ cs[i].op \in DOMAIN opt[k].plan
  BY <1>1, ExtractCalls
<1> HIDE DEF cs
<1>4. /\ TypesInv' /\ \A j \in Connection : j # k => opt'[j] = opt[j]
      /\ opt'[k].plan = opt[k].plan /\ opt'[k].filter_operators = r.filter_operators
      /\ opt'[k].calls = cs \o Tail(opt[k].calls)
      /\ Restoring(opt[k]) => Restoring(opt'[k]) \/ Restores(opt[k].plan, Head(opt[k].calls))
  <2>1. Continue(k, r, cs)
    BY DEF cs
  <2> QED
    BY <1>1, <1>3, <2>1, Advance
<1>5. VisitsChildren(k, cs)
  BY <1>1, <1>2, <1>3, <1>4 DEF VisitsChildren
<1> QED
  BY <1>1, <1>4, <1>5 DEF PlainStep

\* The call returns.
LEMMA PlainReturn ==
  ASSUME TypesInv, NEW k \in Connection, NEW fn, NEW kinds, JoinKinds \cap kinds = {},
         Calling(k, fn, kinds), can_add_mark' = can_add_mark,
         NEW r, DOMAIN r = OptFields, r.plan = opt[k].plan, r.calls = opt[k].calls,
         r.filter_operators = opt[k].filter_operators, Continue(k, r, <<>>)
  PROVE  PlainStep(k)
<1>1. /\ opt[k].calls # <<>> /\ opt[k].plan \in LogicalPlans /\ TopOp(k) \in DOMAIN opt[k].plan
      /\ ~Restores(opt[k].plan, Head(opt[k].calls))
  BY Visiting
<1>2. <<>> \in Seq(Calls) /\ DOMAIN <<>> = {}
  OBVIOUS
<1>3. /\ TypesInv' /\ \A j \in Connection : j # k => opt'[j] = opt[j]
      /\ opt'[k].plan = opt[k].plan /\ opt'[k].filter_operators = r.filter_operators
      /\ opt'[k].calls = <<>> \o Tail(opt[k].calls)
      /\ Restoring(opt[k]) => Restoring(opt'[k]) \/ Restores(opt[k].plan, Head(opt[k].calls))
  BY <1>1, <1>2, Advance
<1>4. VisitsChildren(k, <<>>)
  BY <1>1, <1>2, <1>3 DEF VisitsChildren
<1> QED
  BY <1>1, <1>3, <1>4 DEF PlainStep

\* An aggregate without groups is visited again after what is below.
LEMMA PlainTotal ==
  ASSUME TypesInv, NEW k \in Connection, ExtractTotal(k)
  PROVE  PlainStep(k)
<1> DEFINE c == Call("AddNode", TopOp(k))
           e == Extract(Top(k).child)
           cs == e \o <<c>>
<1>1. /\ Calling(k, "ExtractNodes", {"total"}) /\ Continue(k, opt[k], cs)
      /\ can_add_mark' = can_add_mark /\ Top(k).kind = "total"
  BY DEF ExtractTotal, Calling
<1>2. /\ opt[k].calls # <<>> /\ opt[k].plan \in LogicalPlans /\ TopOp(k) \in DOMAIN opt[k].plan
      /\ Top(k).child \in Seq(DOMAIN opt[k].plan) /\ DOMAIN opt[k] = OptFields /\ TopOp(k) \in AnyOp
      /\ ~Restores(opt[k].plan, Head(opt[k].calls))
  BY <1>1, Visiting DEF JoinKinds
<1>3. c \in Calls /\ c.op \in DOMAIN opt[k].plan /\ c.fn = "AddNode"
  BY <1>2 DEF Call, Calls
<1> HIDE DEF c
<1>4. cs \in Seq(Calls) /\ \A i \in DOMAIN cs : cs[i].op \in DOMAIN opt[k].plan
  BY <1>2, <1>3, CallAndExtract
<1>5. /\ e \in Seq(Calls) /\ DOMAIN e = DOMAIN Top(k).child
      /\ \A i \in DOMAIN e : e[i].op = Top(k).child[i]
  BY <1>2, ExtractCalls
<1> HIDE DEF e
<1>6. ASSUME NEW i \in DOMAIN cs, cs[i].fn = "ExtractNodes"
      PROVE  \E j \in DOMAIN Top(k).child : cs[i].op = Top(k).child[j]
  <2>1. <<c>> \in Seq(Calls) /\ Len(<<c>>) = 1 /\ <<c>>[1] = c
    BY <1>3
  <2>2. /\ Len(cs) = Len(e) + 1 /\ Len(e) \in Nat /\ DOMAIN cs = 1..Len(cs) /\ DOMAIN e = 1..Len(e)
        /\ \A j \in 1..(Len(e) + 1) : cs[j] = IF j <= Len(e) THEN e[j] ELSE <<c>>[j - Len(e)]
    <3>1. /\ Len(cs) = Len(e) + Len(<<c>>)
          /\ \A j \in 1..(Len(e) + Len(<<c>>)) : cs[j] = IF j <= Len(e) THEN e[j] ELSE <<c>>[j - Len(e)]
      BY <1>5, <2>1, ConcatProperties
    <3>2. Len(e) \in Nat /\ DOMAIN e = 1..Len(e)
      BY <1>5
    <3>3. DOMAIN cs = 1..Len(cs)
      BY <1>4
    <3> QED
      BY <2>1, <3>1, <3>2, <3>3
  <2> HIDE DEF cs
  <2>3. CASE i <= Len(e)
    BY <1>5, <2>2, <2>3
  <2>4. CASE ~(i <= Len(e))
    <3>1. i - Len(e) = 1
      BY <2>2, <2>4
    <3>2. cs[i] = <<c>>[i - Len(e)]
      BY <2>2, <2>4
    <3> QED
      BY <1>3, <1>6, <2>1, <3>1, <3>2
  <2> QED
    BY <2>3, <2>4
<1> HIDE DEF cs
<1>7. /\ TypesInv' /\ \A j \in Connection : j # k => opt'[j] = opt[j]
      /\ opt'[k].plan = opt[k].plan /\ opt'[k].filter_operators = opt[k].filter_operators
      /\ opt'[k].calls = cs \o Tail(opt[k].calls)
      /\ Restoring(opt[k]) => Restoring(opt'[k]) \/ Restores(opt[k].plan, Head(opt[k].calls))
  BY <1>1, <1>2, <1>4, Advance
<1>8. VisitsChildren(k, cs)
  BY <1>1, <1>2, <1>4, <1>6, <1>7 DEF VisitsChildren
<1> QED
  BY <1>1, <1>2, <1>7, <1>8 DEF PlainStep

\* All steps of the descent but those of a join and of the filter above it.
LEMMA PlainSteps ==
  ASSUME TypesInv, NEW k \in Connection,
         \/ PassOperator(k) \/ ExtractFilteredTable(k) \/ ExtractProduct(k) \/ ExtractTotal(k)
         \/ AddTotal(k) \/ ExtractRenaming(k) \/ ExtractWindow(k) \/ ExtractSetOperation(k)
         \/ ExtractTable(k)
  PROVE  PlainStep(k)
<1> DEFINE o == opt[k]
           op == TopOp(k)
<1>1. ASSUME NEW fn, NEW kinds, Calling(k, fn, kinds)
      PROVE  DOMAIN o = OptFields
  BY <1>1, Visiting
<1>2. CASE PassOperator(k)
  BY <1>1, <1>2, PlainExtract DEF PassOperator, JoinKinds
<1>3. CASE ExtractProduct(k)
  BY <1>1, <1>3, PlainExtract DEF ExtractProduct, JoinKinds
<1>4. CASE ExtractWindow(k)
  BY <1>1, <1>4, PlainExtract DEF ExtractWindow, JoinKinds
<1>5. CASE ExtractRenaming(k)
  <2>1. DOMAIN o = OptFields
    BY <1>1, <1>5 DEF ExtractRenaming
  <2>2. /\ DOMAIN Rename(o, op) = OptFields /\ Rename(o, op).plan = o.plan
        /\ Rename(o, op).calls = o.calls /\ Rename(o, op).filter_operators = o.filter_operators
    BY <2>1, Collected
  <2> QED
    BY <1>5, <2>2, PlainExtract DEF ExtractRenaming, JoinKinds
<1>6. CASE ExtractSetOperation(k)
  <2>1. DOMAIN o = OptFields
    BY <1>1, <1>6 DEF ExtractSetOperation
  <2>2. /\ DOMAIN AddNode(o, op) = OptFields /\ AddNode(o, op).plan = o.plan
        /\ AddNode(o, op).calls = o.calls /\ AddNode(o, op).filter_operators = o.filter_operators
    BY <2>1, Collected
  <2> QED
    BY <1>6, <2>2, PlainExtract DEF ExtractSetOperation, JoinKinds
<1>7. CASE ExtractFilteredTable(k)
  <2>1. DOMAIN o = OptFields
    BY <1>1, <1>7 DEF ExtractFilteredTable
  <2>2. /\ DOMAIN AddNode(o, op) = OptFields /\ AddNode(o, op).plan = o.plan
        /\ AddNode(o, op).calls = o.calls /\ AddNode(o, op).filter_operators = o.filter_operators
    BY <2>1, Collected
  <2> QED
    BY <1>7, <2>2, PlainReturn DEF ExtractFilteredTable, JoinKinds
<1>8. CASE AddTotal(k)
  <2>1. DOMAIN o = OptFields
    BY <1>1, <1>8 DEF AddTotal
  <2>2. /\ DOMAIN AddNode(o, op) = OptFields /\ AddNode(o, op).plan = o.plan
        /\ AddNode(o, op).calls = o.calls /\ AddNode(o, op).filter_operators = o.filter_operators
    BY <2>1, Collected
  <2> QED
    BY <1>8, <2>2, PlainReturn DEF AddTotal, JoinKinds
<1>9. CASE ExtractTable(k)
  <2>1. DOMAIN o = OptFields
    BY <1>1, <1>9 DEF ExtractTable
  <2>2. /\ DOMAIN AddNode(o, op) = OptFields /\ AddNode(o, op).plan = o.plan
        /\ AddNode(o, op).calls = o.calls /\ AddNode(o, op).filter_operators = o.filter_operators
    BY <2>1, Collected
  <2> QED
    BY <1>9, <2>2, PlainReturn DEF ExtractTable, JoinKinds, TableKinds
<1> QED
  BY <1>2, <1>3, <1>4, <1>5, <1>6, <1>7, <1>8, <1>9, PlainTotal

\* A filter leaves the flag to the join below it.
LEMMA FilterStep ==
  ASSUME TypesInv, NEW k \in Connection, ExtractFilter(k)
  PROVE  /\ TypesInv' /\ \A j \in Connection : j # k => opt'[j] = opt[j]
         /\ opt'[k].plan = opt[k].plan /\ opt'[k].filter_operators = opt[k].filter_operators
         /\ opt[k].calls # <<>> /\ opt[k].plan \in LogicalPlans /\ TopOp(k) \in DOMAIN opt[k].plan
         /\ Top(k).child \in Seq(DOMAIN opt[k].plan) /\ Top(k).kind = "filter"
         /\ opt'[k].calls = Extract(Top(k).child) \o Tail(opt[k].calls)
         /\ Restoring(opt[k]) => Restoring(opt'[k])
         /\ can_add_mark' = ~IsNotIn(k) /\ can_add_mark' \in BOOLEAN
         /\ can_add_mark' = FALSE => Restoring(opt'[k])
<1> DEFINE cs == Extract(Top(k).child)
<1>1. /\ Calling(k, "ExtractNodes", {"filter"}) /\ Continue(k, opt[k], cs)
      /\ can_add_mark' = ~IsNotIn(k) /\ Top(k).kind = "filter"
  BY DEF ExtractFilter, Calling
<1>2. /\ opt[k].calls # <<>> /\ opt[k].plan \in LogicalPlans /\ TopOp(k) \in DOMAIN opt[k].plan
      /\ Top(k).child \in Seq(DOMAIN opt[k].plan) /\ DOMAIN opt[k] = OptFields
      /\ ~Restores(opt[k].plan, Head(opt[k].calls)) /\ Top(k).child # <<>>
  BY <1>1, Visiting DEF JoinKinds
<1>3. /\ cs \in Seq(Calls) /\ DOMAIN cs = DOMAIN Top(k).child
      /\ \A i \in DOMAIN cs : /\ cs[i].op = Top(k).child[i] /\ cs[i].op \in DOMAIN opt[k].plan
                              /\ cs[i].fn = "ExtractNodes"
  BY <1>2, ExtractCalls
<1>4. 1 \in DOMAIN cs
  <2>1. 1 \in DOMAIN Top(k).child
    BY <1>2
  <2> QED
    BY <1>3, <2>1
<1> HIDE DEF cs
<1>5. /\ TypesInv' /\ \A j \in Connection : j # k => opt'[j] = opt[j]
      /\ opt'[k].plan = opt[k].plan /\ opt'[k].filter_operators = opt[k].filter_operators
      /\ opt'[k].calls = cs \o Tail(opt[k].calls)
      /\ (\E i \in DOMAIN cs : Restores(opt[k].plan, cs[i])) => Restoring(opt'[k])
      /\ Restoring(opt[k]) => Restoring(opt'[k]) \/ Restores(opt[k].plan, Head(opt[k].calls))
  BY <1>1, <1>2, <1>3, Advance
<1>6. can_add_mark' = FALSE => Restoring(opt'[k])
  <2>1. ASSUME can_add_mark' = FALSE
        PROVE  Restores(opt[k].plan, cs[1])
    <3>1. Child(k).kind = "join"
      BY <1>1, <2>1 DEF IsNotIn
    <3> QED
      BY <1>3, <1>4, <3>1 DEF Child, Restores, JoinKinds
  <2> QED
    BY <1>4, <1>5, <2>1
<1>7. can_add_mark' \in BOOLEAN
  BY <1>1
<1> QED
  BY <1>1, <1>2, <1>5, <1>6, <1>7 DEF cs

\* A join visits its children, and has the flag set before that.
LEMMA JoinStep ==
  ASSUME TypesInv, NEW k \in Connection, ExtractJoin(k)
  PROVE  /\ TypesInv' /\ \A j \in Connection : j # k => opt'[j] = opt[j]
         /\ opt'[k].plan = opt[k].plan /\ can_add_mark' = can_add_mark
         /\ opt'[k].filter_operators \subseteq opt[k].filter_operators \cup {TopOp(k)}
         /\ Top(k).join = "MARK" /\ ~can_add_mark => opt'[k].filter_operators = opt[k].filter_operators
         /\ Restoring(opt'[k])
         /\ TopOp(k) \in DOMAIN opt[k].plan /\ opt[k].plan \in LogicalPlans
         /\ Head(opt[k].calls).fn = "ExtractNodes"
         /\ \E cs : VisitsChildren(k, cs)
<1> DEFINE c == Call("reset", TopOp(k))
           e == Extract(Top(k).child)
           cs == <<c>> \o e
           adds == Top(k).join \in FilteringJoins \/ (Top(k).join = "MARK" /\ can_add_mark)
           r == IF adds THEN AddFilterOperator(opt[k], TopOp(k)) ELSE opt[k]
<1>1. /\ Calling(k, "ExtractNodes", JoinKinds) /\ Continue(k, r, cs)
      /\ can_add_mark' = can_add_mark /\ Top(k).kind \in JoinKinds
      /\ Head(opt[k].calls).fn = "ExtractNodes"
  BY DEF ExtractJoin, Calling
<1>2. /\ opt[k].calls # <<>> /\ opt[k].plan \in LogicalPlans /\ TopOp(k) \in DOMAIN opt[k].plan
      /\ Top(k).child \in Seq(DOMAIN opt[k].plan) /\ DOMAIN opt[k] = OptFields /\ TopOp(k) \in AnyOp
  BY <1>1, Visiting
<1>3. c \in Calls /\ c.op \in DOMAIN opt[k].plan /\ c.fn = "reset" /\ Restores(opt[k].plan, c)
  BY <1>1, <1>2 DEF Call, Calls, Restores, Top
<1> HIDE DEF c
<1>4. /\ cs \in Seq(Calls) /\ \A i \in DOMAIN cs : cs[i].op \in DOMAIN opt[k].plan
      /\ 1 \in DOMAIN cs /\ cs[1] = c
  BY <1>2, <1>3, CallAndExtract
<1>5. /\ e \in Seq(Calls) /\ DOMAIN e = DOMAIN Top(k).child
      /\ \A i \in DOMAIN e : e[i].op = Top(k).child[i]
  BY <1>2, ExtractCalls
<1> HIDE DEF e
<1>6. ASSUME NEW i \in DOMAIN cs, cs[i].fn = "ExtractNodes"
      PROVE  \E j \in DOMAIN Top(k).child : cs[i].op = Top(k).child[j]
  <2>1. <<c>> \in Seq(Calls) /\ Len(<<c>>) = 1
    BY <1>3
  <2>2. /\ Len(cs) = 1 + Len(e) /\ Len(e) \in Nat /\ DOMAIN cs = 1..Len(cs) /\ DOMAIN e = 1..Len(e)
        /\ \A j \in 1..(1 + Len(e)) : cs[j] = IF j <= 1 THEN <<c>>[j] ELSE e[j - 1]
    <3>1. /\ Len(cs) = Len(<<c>>) + Len(e)
          /\ \A j \in 1..(Len(<<c>>) + Len(e)) :
               cs[j] = IF j <= Len(<<c>>) THEN <<c>>[j] ELSE e[j - Len(<<c>>)]
      BY <1>5, <2>1, ConcatProperties
    <3>2. Len(e) \in Nat /\ DOMAIN e = 1..Len(e)
      BY <1>5
    <3>3. DOMAIN cs = 1..Len(cs)
      BY <1>4
    <3> QED
      BY <2>1, <3>1, <3>2, <3>3
  <2> HIDE DEF cs
  <2>3. i # 1
    BY <1>3, <1>4, <1>6
  <2>4. i - 1 \in DOMAIN e /\ cs[i] = e[i - 1]
    BY <2>2, <2>3
  <2> QED
    BY <1>5, <2>4
<1>7. /\ DOMAIN r = OptFields /\ r.plan = opt[k].plan /\ r.calls = opt[k].calls
      /\ r.filter_operators \subseteq opt[k].filter_operators \cup {TopOp(k)}
      /\ Top(k).join = "MARK" /\ ~can_add_mark => r = opt[k]
  <2>1. CASE adds
    <3>1. Top(k).join = "MARK" => can_add_mark
      BY <2>1 DEF FilteringJoins
    <3>2. r = AddFilterOperator(opt[k], TopOp(k))
      BY <2>1
    <3> QED
      BY <1>2, <3>1, <3>2, Collected
  <2>2. CASE ~adds
    BY <1>2, <2>2
  <2> QED
    BY <2>1, <2>2
<1> HIDE DEF cs, r, adds
<1>8. /\ TypesInv' /\ \A j \in Connection : j # k => opt'[j] = opt[j]
      /\ opt'[k].plan = opt[k].plan /\ opt'[k].filter_operators = r.filter_operators
      /\ opt'[k].calls = cs \o Tail(opt[k].calls)
      /\ (\E i \in DOMAIN cs : Restores(opt[k].plan, cs[i])) => Restoring(opt'[k])
  BY <1>1, <1>2, <1>4, <1>7, Advance
<1>9. VisitsChildren(k, cs)
  BY <1>1, <1>2, <1>4, <1>6, <1>8 DEF VisitsChildren, JoinKinds
<1> QED
  BY <1>1, <1>2, <1>3, <1>4, <1>7, <1>8, <1>9

\* ResetMark sets the flag again and touches nothing but it and its own call.
LEMMA ResetStep ==
  ASSUME TypesInv, NEW k \in Connection, ResetMark(k)
  PROVE  /\ TypesInv' /\ can_add_mark' = TRUE
         /\ opt'[k].plan = opt[k].plan /\ opt'[k].filter_operators = opt[k].filter_operators
         /\ TopOp(k) \in DOMAIN opt[k].plan /\ opt[k].plan \in LogicalPlans
         /\ \E cs : VisitsChildren(k, cs)
<1>1. Calling(k, "reset", JoinKinds) /\ Continue(k, opt[k], <<>>) /\ can_add_mark' = TRUE
  BY DEF ResetMark
<1>2. /\ opt[k].calls # <<>> /\ opt[k].plan \in LogicalPlans /\ TopOp(k) \in DOMAIN opt[k].plan
      /\ DOMAIN opt[k] = OptFields
  BY <1>1, Visiting
<1>3. <<>> \in Seq(Calls) /\ DOMAIN <<>> = {}
  OBVIOUS
<1>4. /\ TypesInv' /\ opt'[k].plan = opt[k].plan /\ opt'[k].filter_operators = opt[k].filter_operators
      /\ opt'[k].calls = <<>> \o Tail(opt[k].calls)
  BY <1>1, <1>2, <1>3, Advance
<1>5. VisitsChildren(k, <<>>)
  BY <1>2, <1>3, <1>4 DEF VisitsChildren
<1> QED
  BY <1>1, <1>2, <1>4, <1>5

\* A query begins with a call on the root of its plan, and ends without calls.
LEMMA BuildStep ==
  ASSUME TypesInv, NEW k \in Connection, Build(k)
  PROVE  /\ TypesInv' /\ can_add_mark' = can_add_mark
         /\ \A j \in Connection : j # k => opt'[j] = opt[j]
         /\ opt[k].calls = <<>> /\ opt'[k].plan \in LogicalPlans /\ opt'[k].filter_operators = {}
         /\ \A i \in DOMAIN opt'[k].calls : opt'[k].calls[i].op = 1
<1>1. PICK p \in LogicalPlans :
        opt' = [opt EXCEPT ![k] = [NewOptimizer(@.queries + 1) EXCEPT !.plan = p, !.calls = Extract(<<1>>)]]
  BY DEF Build
<1> DEFINE n == [NewOptimizer(opt[k].queries + 1) EXCEPT !.plan = p, !.calls = Extract(<<1>>)]
<1>2. opt' = [opt EXCEPT ![k] = n] /\ can_add_mark' = can_add_mark /\ opt[k].plan = <<>>
  BY <1>1 DEF Build
<1>3. /\ DOMAIN n = OptFields /\ n.plan = p /\ n.calls = Extract(<<1>>) /\ n.filter_operators = {}
  BY DEF NewOptimizer, OptFields
<1> HIDE DEF n
<1>4. 1 \in DOMAIN p /\ p # <<>>
  BY NodeExtractionAssumption
<1>5. /\ Extract(<<1>>) \in Seq(Calls)
      /\ \A i \in DOMAIN Extract(<<1>>) : Extract(<<1>>)[i].op = 1
  <2> DEFINE ops == <<1>>
  <2>1. ops \in Seq(DOMAIN p) /\ \A i \in DOMAIN ops : ops[i] = 1
    BY <1>4
  <2> HIDE DEF ops
  <2>2. /\ Extract(ops) \in Seq(Calls) /\ DOMAIN Extract(ops) = DOMAIN ops
        /\ \A i \in DOMAIN ops : Extract(ops)[i].op = ops[i]
    BY <2>1, ExtractCalls
  <2>3. \A i \in DOMAIN Extract(ops) : Extract(ops)[i].op = 1
    BY <2>1, <2>2
  <2> QED
    BY <2>2, <2>3 DEF ops
<1>6. OptOK(n)
  BY <1>3, <1>4, <1>5 DEF OptOK
<1>7. opt'[k] = n /\ \A j \in Connection : j # k => opt'[j] = opt[j]
  BY <1>2 DEF TypesInv
<1>8. TypesInv'
  BY <1>2, <1>6, <1>7 DEF TypesInv
<1>9. opt[k].calls = <<>>
  BY <1>2 DEF TypesInv, OptOK
<1> QED
  BY <1>2, <1>3, <1>5, <1>7, <1>8, <1>9

\* The end of a query clears what the optimizer of its connection kept.
LEMMA EndStep ==
  ASSUME TypesInv, NEW k \in Connection, EndQuery(k)
  PROVE  /\ TypesInv' /\ can_add_mark' = can_add_mark
         /\ \A j \in Connection : j # k => opt'[j] = opt[j]
         /\ opt[k].calls = <<>> /\ opt'[k].calls = <<>> /\ opt'[k].filter_operators = {}
<1> DEFINE n == NewOptimizer(opt[k].queries)
<1>1. opt' = [opt EXCEPT ![k] = n] /\ can_add_mark' = can_add_mark /\ opt[k].calls = <<>>
  BY DEF EndQuery
<1>2. DOMAIN n = OptFields /\ n.plan = <<>> /\ n.calls = <<>> /\ n.filter_operators = {}
  BY DEF NewOptimizer, OptFields
<1> HIDE DEF n
<1>3. OptOK(n)
  BY <1>2 DEF OptOK
<1>4. opt'[k] = n /\ \A j \in Connection : j # k => opt'[j] = opt[j]
  BY <1>1 DEF TypesInv
<1>5. TypesInv'
  BY <1>1, <1>3, <1>4 DEF TypesInv
<1> QED
  BY <1>1, <1>2, <1>4, <1>5

-----------------------------------------------------------------------------
(* The flag is restored *)

IInv == TypesInv /\ can_add_mark \in BOOLEAN /\ FlagInv

\* No optimizer has begun.
LEMMA InitInv == Init => IInv
<1> SUFFICES ASSUME Init PROVE IInv
  OBVIOUS
<1> DEFINE n == NewOptimizer(0)
<1>1. opt = [k \in Connection |-> n] /\ can_add_mark = TRUE
  BY DEF Init
<1>2. DOMAIN n = OptFields /\ n.plan = <<>> /\ n.calls = <<>>
  BY DEF NewOptimizer, OptFields
<1> HIDE DEF n
<1>3. OptOK(n)
  BY <1>2 DEF OptOK
<1> QED
  BY <1>1, <1>3 DEF IInv, TypesInv, FlagInv

\* Every step keeps the invariant.
LEMMA NextInv == IInv /\ [Next]_vars => IInv'
<1> SUFFICES ASSUME IInv, [Next]_vars PROVE IInv'
  OBVIOUS
<1>1. ASSUME NEW k \in Connection, Build(k)
      PROVE  IInv'
  <2>1. ~Restoring(opt[k])
    BY <1>1, BuildStep DEF Restoring, IInv
  <2> QED
    BY <1>1, <2>1, BuildStep, FlagKept DEF IInv
<1>2. ASSUME NEW k \in Connection, EndQuery(k)
      PROVE  IInv'
  <2>1. ~Restoring(opt[k])
    BY <1>2, EndStep DEF Restoring, IInv
  <2> QED
    BY <1>2, <2>1, EndStep, FlagKept DEF IInv
<1>3. ASSUME NEW k \in Connection, PlainStep(k)
      PROVE  IInv'
  BY <1>3, FlagKept DEF IInv, PlainStep
<1>4. ASSUME NEW k \in Connection, ExtractFilter(k)
      PROVE  IInv'
  BY <1>4, FilterStep DEF IInv, FlagInv
<1>5. ASSUME NEW k \in Connection, ExtractJoin(k)
      PROVE  IInv'
  BY <1>5, JoinStep DEF IInv, FlagInv
<1>6. ASSUME NEW k \in Connection, ResetMark(k)
      PROVE  IInv'
  BY <1>6, ResetStep DEF IInv, FlagInv
<1>7. CASE UNCHANGED vars
  BY <1>7 DEF vars, IInv, TypesInv, FlagInv
<1>8. TypesInv
  BY DEF IInv
<1> QED
  BY <1>1, <1>2, <1>3, <1>4, <1>5, <1>6, <1>7, <1>8, PlainSteps DEF Next

\* However many connections share the flag, and however their descents
\* interleave, it is set again when none of them is extracting nodes.
THEOREM FlagIsRestored == Spec => []FlagRestored
<1>1. IInv => FlagRestored
  <2> SUFFICES ASSUME IInv, \A k \in Connection : opt[k].calls = <<>> PROVE can_add_mark
    BY DEF FlagRestored
  <2>1. \A k \in Connection : ~Restoring(opt[k])
    BY DEF Restoring
  <2> QED
    BY <2>1 DEF IInv, FlagInv
<1> QED
  BY <1>1, InitInv, NextInv, PTL DEF Spec

-----------------------------------------------------------------------------
(* NOT IN *)

\* The comparison join of a NOT IN.
NotInJoin(p, j) ==
  /\ p[j].kind = "join" /\ p[j].join = "MARK"
  /\ \E f \in DOMAIN p : p[f].kind = "filter" /\ p[f].expr = "not" /\ p[f].child = <<j>>

VisitsNotIn(o, i) == o.calls[i].fn = "ExtractNodes" /\ NotInJoin(o.plan, o.calls[i].op)

\* The descent is at such a join only directly after the filter above it, and the
\* flag is still what the filter has left.
DescentInv(o, flag) == \A i \in DOMAIN o.calls : VisitsNotIn(o, i) => i = 1 /\ ~flag

TakenInv(o) == \A j \in o.filter_operators : ~NotInJoin(o.plan, j)

NotInInv == \A k \in Connection : DescentInv(opt[k], can_add_mark) /\ TakenInv(opt[k])

\* Only the filter above the join of a NOT IN has it for a child, and the root is
\* no child.
LEMMA OneParent ==
  ASSUME NEW p \in LogicalPlans, NEW j, NotInJoin(p, j)
  PROVE  /\ j # 1
         /\ \A op \in DOMAIN p : \A i \in DOMAIN p[op].child : p[op].child[i] = j =>
              p[op].kind = "filter" /\ p[op].expr = "not" /\ p[op].child = <<j>>
<1>1. PICK f \in DOMAIN p : p[f].kind = "filter" /\ p[f].expr = "not" /\ p[f].child = <<j>>
  BY DEF NotInJoin
<1>2. 1 \in DOMAIN p[f].child /\ p[f].child[1] = j
  BY <1>1
<1>3. /\ j # 1
      /\ \A x \in DOMAIN p : \A i \in DOMAIN p[x].child : p[x].child[i] = j => x = f
  BY <1>2, NodeExtractionAssumption
<1> QED
  BY <1>1, <1>3

\* The calls below the top stay, further down or further up.
LEMMA CallsBelow ==
  ASSUME NEW s \in Seq(Calls), s # <<>>, NEW cs \in Seq(Calls), NEW i \in DOMAIN (cs \o Tail(s))
  PROVE  \/ i \in DOMAIN cs /\ (cs \o Tail(s))[i] = cs[i]
         \/ \E j \in DOMAIN s : j # 1 /\ (cs \o Tail(s))[i] = s[j]
<1> DEFINE T == Tail(s)
<1>1. /\ T \in Seq(Calls) /\ Len(T) = Len(s) - 1 /\ Len(s) \in Nat /\ DOMAIN s = 1..Len(s)
      /\ \A j \in 1..Len(T) : T[j] = s[j + 1]
  BY HeadTailProperties
<1> HIDE DEF T
<1> DEFINE a == cs \o T
<1>2. /\ a \in Seq(Calls) /\ Len(a) = Len(cs) + Len(T)
      /\ \A j \in 1..(Len(cs) + Len(T)) : a[j] = IF j <= Len(cs) THEN cs[j] ELSE T[j - Len(cs)]
  BY <1>1, ConcatProperties
<1>3. i \in DOMAIN a
  BY DEF T
<1> HIDE DEF a
<1>4. /\ Len(cs) \in Nat /\ Len(T) \in Nat /\ DOMAIN cs = 1..Len(cs) /\ i \in 1..(Len(cs) + Len(T))
  BY <1>1, <1>2, <1>3
<1>5. CASE i <= Len(cs)
  <2>1. i \in DOMAIN cs /\ a[i] = cs[i]
    BY <1>2, <1>4, <1>5
  <2> QED
    BY <2>1 DEF a, T
<1>6. CASE ~(i <= Len(cs))
  <2> DEFINE x == i - Len(cs)
  <2>1. a[i] = T[x]
    BY <1>2, <1>4, <1>6
  <2> DEFINE m == Len(T)
             c == Len(cs)
             l == Len(s)
  <2>3. m \in Nat /\ c \in Nat /\ l \in Nat /\ m = l - 1 /\ i \in 1..(c + m) /\ ~(i <= c) /\ DOMAIN s = 1..l
    BY <1>1, <1>4, <1>6
  <2> HIDE DEF m, c, l
  <2>4. i - c \in 1..m /\ (i - c) + 1 \in DOMAIN s /\ (i - c) + 1 # 1
    BY <2>3
  <2>5. x \in 1..Len(T) /\ x + 1 \in DOMAIN s /\ x + 1 # 1
    BY <2>4 DEF m, c
  <2>2. T[x] = s[x + 1]
    BY <1>1, <2>5
  <2> QED
    BY <2>1, <2>2, <2>5 DEF a, T
<1> QED
  BY <1>5, <1>6

\* Below an operator that is no filter there is no join of a NOT IN.
LEMMA NoNotInNext ==
  ASSUME NEW k \in Connection, OptOK(opt[k]), DescentInv(opt[k], can_add_mark),
         opt[k].plan \in LogicalPlans, TopOp(k) \in DOMAIN opt[k].plan,
         opt'[k].plan = opt[k].plan, NEW cs, VisitsChildren(k, cs), NEW flag
  PROVE  DescentInv(opt'[k], flag)
<1> DEFINE s == opt[k].calls
           o == opt'[k]
<1> SUFFICES ASSUME NEW i \in DOMAIN o.calls, VisitsNotIn(o, i) PROVE FALSE
  BY DEF DescentInv
<1>1. /\ s \in Seq(Calls) /\ s # <<>> /\ cs \in Seq(Calls) /\ o.calls = cs \o Tail(s)
  BY DEF OptOK, VisitsChildren
<1>2. \/ i \in DOMAIN cs /\ o.calls[i] = cs[i]
      \/ \E j \in DOMAIN s : j # 1 /\ o.calls[i] = s[j]
  BY <1>1, CallsBelow
<1>3. CASE i \in DOMAIN cs /\ o.calls[i] = cs[i]
  <2>1. /\ cs[i].fn = "ExtractNodes" /\ NotInJoin(opt[k].plan, cs[i].op)
    BY <1>3 DEF VisitsNotIn
  <2>2. PICK j \in DOMAIN Top(k).child : Top(k).kind # "filter" /\ cs[i].op = Top(k).child[j]
    BY <1>3, <2>1 DEF VisitsChildren
  <2> QED
    BY <2>1, <2>2, OneParent DEF Top
<1>4. ASSUME NEW j \in DOMAIN s, j # 1, o.calls[i] = s[j]
      PROVE  FALSE
  BY <1>4 DEF VisitsNotIn, DescentInv
<1> QED
  BY <1>2, <1>3, <1>4

\* A filter clears the flag for the join of a NOT IN below it.
LEMMA NotInBelowFilter ==
  ASSUME TypesInv, NEW k \in Connection, ExtractFilter(k), DescentInv(opt[k], can_add_mark)
  PROVE  DescentInv(opt'[k], can_add_mark')
<1> DEFINE s == opt[k].calls
           p == opt[k].plan
           cs == Extract(Top(k).child)
           o == opt'[k]
<1>1. /\ s # <<>> /\ p \in LogicalPlans /\ TopOp(k) \in DOMAIN p
      /\ Top(k).child \in Seq(DOMAIN p) /\ o.plan = p /\ o.calls = cs \o Tail(s)
      /\ can_add_mark' = ~IsNotIn(k)
  BY FilterStep
<1>2. s \in Seq(Calls)
  BY DEF TypesInv, OptOK
<1>3. /\ cs \in Seq(Calls) /\ DOMAIN cs = DOMAIN Top(k).child
      /\ \A i \in DOMAIN cs : cs[i].op = Top(k).child[i]
  BY <1>1, ExtractCalls
<1> HIDE DEF cs
<1> SUFFICES ASSUME NEW i \in DOMAIN o.calls, VisitsNotIn(o, i)
             PROVE  i = 1 /\ ~can_add_mark'
  BY DEF DescentInv
<1>4. \/ i \in DOMAIN cs /\ o.calls[i] = cs[i]
      \/ \E j \in DOMAIN s : j # 1 /\ o.calls[i] = s[j]
  BY <1>1, <1>2, <1>3, CallsBelow
<1>5. CASE i \in DOMAIN cs /\ o.calls[i] = cs[i]
  <2> DEFINE c == Top(k).child
  <2>1. NotInJoin(p, c[i]) /\ i \in DOMAIN c
    BY <1>1, <1>3, <1>5 DEF VisitsNotIn
  <2>2. Top(k).expr = "not" /\ c = <<c[i]>>
    BY <1>1, <2>1, OneParent DEF Top
  <2>3. i = 1 /\ c[1] = c[i]
    BY <2>1, <2>2
  <2>4. Child(k).kind = "join"
    BY <2>1, <2>3 DEF NotInJoin, Child
  <2> QED
    BY <1>1, <2>2, <2>3, <2>4 DEF IsNotIn
<1>6. ASSUME NEW j \in DOMAIN s, j # 1, o.calls[i] = s[j]
      PROVE  FALSE
  BY <1>1, <1>6 DEF VisitsNotIn, DescentInv
<1> QED
  BY <1>4, <1>5, <1>6

\* A join that is taken is not that of a NOT IN.
LEMMA NotInNotTaken ==
  ASSUME TypesInv, NEW k \in Connection, ExtractJoin(k), can_add_mark \in BOOLEAN,
         DescentInv(opt[k], can_add_mark), TakenInv(opt[k])
  PROVE  TakenInv(opt'[k])
<1> DEFINE s == opt[k].calls
<1>1. /\ opt'[k].plan = opt[k].plan
      /\ opt'[k].filter_operators \subseteq opt[k].filter_operators \cup {TopOp(k)}
      /\ Top(k).join = "MARK" /\ ~can_add_mark => opt'[k].filter_operators = opt[k].filter_operators
      /\ Head(s).fn = "ExtractNodes"
  BY JoinStep
<1>2. s # <<>> /\ s \in Seq(Calls)
  BY DEF ExtractJoin, Calling, TypesInv, OptOK
<1>3. 1 \in DOMAIN s /\ Head(s) = s[1]
  BY <1>2
<1>4. CASE NotInJoin(opt[k].plan, TopOp(k))
  <2>1. VisitsNotIn(opt[k], 1)
    BY <1>1, <1>3, <1>4 DEF VisitsNotIn, TopOp
  <2>2. ~can_add_mark
    BY <1>3, <2>1 DEF DescentInv
  <2>3. Top(k).join = "MARK"
    BY <1>4 DEF NotInJoin, Top
  <2> QED
    BY <1>1, <2>2, <2>3 DEF TakenInv
<1>5. CASE ~NotInJoin(opt[k].plan, TopOp(k))
  BY <1>1, <1>5 DEF TakenInv
<1> QED
  BY <1>4, <1>5

\* One connection, which nobody disturbs, keeps what the flag says.
LEMMA NextNotIn ==
  ASSUME \A j, k \in Connection : j = k, IInv, NotInInv, [Next]_vars
  PROVE  NotInInv'
<1>1. CASE UNCHANGED vars
  BY <1>1 DEF vars, NotInInv
<1>2. CASE Next
  <2>1. PICK k \in Connection :
          \/ Build(k)
          \/ EndQuery(k)
          \/ PassOperator(k)
          \/ ExtractFilteredTable(k)
          \/ ExtractFilter(k)
          \/ ExtractJoin(k)
          \/ ResetMark(k)
          \/ ExtractProduct(k)
          \/ ExtractTotal(k)
          \/ AddTotal(k)
          \/ ExtractRenaming(k)
          \/ ExtractWindow(k)
          \/ ExtractSetOperation(k)
          \/ ExtractTable(k)
    BY <1>2 DEF Next
  <2>2. TypesInv /\ can_add_mark \in BOOLEAN /\ OptOK(opt[k])
        /\ DescentInv(opt[k], can_add_mark) /\ TakenInv(opt[k])
    BY DEF IInv, NotInInv, TypesInv
  <2> SUFFICES DescentInv(opt'[k], can_add_mark') /\ TakenInv(opt'[k])
    BY DEF NotInInv
  <2>3. CASE Build(k)
    <3>1. /\ opt'[k].plan \in LogicalPlans /\ opt'[k].filter_operators = {}
          /\ \A i \in DOMAIN opt'[k].calls : opt'[k].calls[i].op = 1
      BY <2>2, <2>3, BuildStep
    <3> QED
      BY <3>1, OneParent DEF DescentInv, TakenInv, VisitsNotIn
  <2>4. CASE EndQuery(k)
    <3>1. opt'[k].calls = <<>> /\ opt'[k].filter_operators = {}
      BY <2>2, <2>4, EndStep
    <3> QED
      BY <3>1 DEF DescentInv, TakenInv
  <2>5. CASE ExtractFilter(k)
    <3>1. opt'[k].plan = opt[k].plan /\ opt'[k].filter_operators = opt[k].filter_operators
      BY <2>2, <2>5, FilterStep
    <3>2. TakenInv(opt'[k])
      BY <2>2, <3>1 DEF TakenInv
    <3> QED
      BY <2>2, <2>5, <3>2, NotInBelowFilter
  <2>6. CASE ExtractJoin(k)
    <3>1. /\ opt'[k].plan = opt[k].plan /\ opt[k].plan \in LogicalPlans
          /\ TopOp(k) \in DOMAIN opt[k].plan /\ \E cs : VisitsChildren(k, cs)
      BY <2>2, <2>6, JoinStep
    <3>2. PICK cs : VisitsChildren(k, cs)
      BY <3>1
    <3> QED
      BY <2>2, <2>6, <3>1, <3>2, NoNotInNext, NotInNotTaken
  <2>7. CASE ResetMark(k)
    <3>1. /\ opt'[k].plan = opt[k].plan /\ opt[k].plan \in LogicalPlans
          /\ opt'[k].filter_operators = opt[k].filter_operators
          /\ TopOp(k) \in DOMAIN opt[k].plan /\ \E cs : VisitsChildren(k, cs)
      BY <2>2, <2>7, ResetStep
    <3>2. PICK cs : VisitsChildren(k, cs)
      BY <3>1
    <3>3. TakenInv(opt'[k])
      BY <2>2, <3>1 DEF TakenInv
    <3> QED
      BY <2>2, <3>1, <3>2, <3>3, NoNotInNext
  <2>8. CASE PlainStep(k)
    <3>1. PICK cs : VisitsChildren(k, cs)
      BY <2>8 DEF PlainStep
    <3>2. TakenInv(opt'[k])
      BY <2>2, <2>8 DEF TakenInv, PlainStep
    <3> QED
      BY <2>2, <2>8, <3>1, <3>2, NoNotInNext DEF PlainStep
  <2> QED
    BY <2>1, <2>2, <2>3, <2>4, <2>5, <2>6, <2>7, <2>8, PlainSteps
<1> QED
  BY <1>1, <1>2

\* A connection that optimizes alone never takes the comparison join of a NOT IN for
\* an edge of the transfer graph, whatever joins and filters are above and below
\* it.  With a second connection it may: ExtractionConcurrent.cfg.
THEOREM NotInIsKept ==
  ASSUME \A j, k \in Connection : j = k
  PROVE  Spec => []NotInKeepsRows
<1>1. Init => NotInInv
  <2> SUFFICES ASSUME Init PROVE NotInInv
    OBVIOUS
  <2> DEFINE n == NewOptimizer(0)
  <2>1. opt = [k \in Connection |-> n]
    BY DEF Init
  <2>2. n.calls = <<>> /\ n.filter_operators = {}
    BY DEF NewOptimizer
  <2> HIDE DEF n
  <2> QED
    BY <2>1, <2>2 DEF NotInInv, DescentInv, TakenInv
<1>2. IInv /\ NotInInv /\ [Next]_vars => NotInInv'
  BY NextNotIn
<1>3. NotInInv => NotInKeepsRows
  BY DEF NotInInv, TakenInv, NotInKeepsRows, NotInJoin
<1> QED
  BY <1>1, <1>2, <1>3, InitInv, NextInv, PTL DEF Spec

-----------------------------------------------------------------------------
(* Nothing is missed *)

\* Induction up to a bound.
LEMMA UpTo ==
  ASSUME NEW N \in Nat, NEW T, 0 \in T, \A n \in 1..N : n - 1 \in T => n \in T
  PROVE  0..N \subseteq T
<1> SUFFICES ASSUME (0..N) \ T # {} PROVE FALSE
  OBVIOUS
<1> DEFINE R == OpToRel(<, Nat)
           I == (0..N) \ T
<1>1. IsWellFoundedOn(R, Nat)
  BY NatLessThanWellFounded
<1>2. \A x, y \in Nat : y < x => <<y, x>> \in R
  BY DEF OpToRel
<1>3. I \subseteq Nat /\ I # {}
  OBVIOUS
<1> HIDE DEF R, I
<1>4. PICK x \in I : \A y \in I : ~(<<y, x>> \in R)
  BY <1>1, <1>3, WFMin
<1>5. x \in 1..N /\ x - 1 \in Nat /\ x \in Nat /\ x - 1 < x /\ x \notin T /\ x - 1 \in 0..N
  BY <1>4 DEF I
<1>6. x - 1 \notin T
  BY <1>5
<1>7. x - 1 \in I
  BY <1>5, <1>6 DEF I
<1> QED
  BY <1>2, <1>4, <1>5, <1>7

\* The rounds of a computation on values of V.
Rounds(N, V, a, G, f) ==
  f \in [0..N -> V] /\ f[0] = a /\ \A n \in 1..N : f[n] = G[f[n - 1]]

\* They exist.
LEMMA RoundsExist ==
  ASSUME NEW N \in Nat, NEW V, NEW a \in V, NEW G \in [V -> V]
  PROVE  \E f : Rounds(N, V, a, G, f)
<1> DEFINE T == {m \in Nat : \E f : Rounds(m, V, a, G, f)}
<1>1. 0 \in T
  <2> DEFINE f == [i \in 0..0 |-> a]
  <2>1. Rounds(0, V, a, G, f)
    BY DEF Rounds
  <2> QED
    BY <2>1
<1>2. ASSUME NEW m \in 1..N, m - 1 \in T
      PROVE  m \in T
  <2>1. PICK f : Rounds(m - 1, V, a, G, f)
    BY <1>2
  <2> DEFINE g == [i \in 0..m |-> IF i = m THEN G[f[m - 1]] ELSE f[i]]
  <2>2. f[m - 1] \in V /\ G[f[m - 1]] \in V
    BY <2>1 DEF Rounds
  <2>3. g \in [0..m -> V] /\ g[0] = a
    BY <2>1, <2>2 DEF Rounds
  <2>4. ASSUME NEW n \in 1..m
        PROVE  g[n] = G[g[n - 1]]
    <3>1. g[n - 1] = f[n - 1]
      OBVIOUS
    <3>2. CASE n = m
      BY <3>1, <3>2
    <3>3. CASE n # m
      <4>1. n \in 1..(m - 1) /\ g[n] = f[n]
        BY <3>3
      <4> QED
        BY <2>1, <3>1, <4>1 DEF Rounds
    <3> QED
      BY <3>2, <3>3
  <2>5. Rounds(m, V, a, G, g)
    BY <2>3, <2>4 DEF Rounds
  <2>6. m \in Nat
    OBVIOUS
  <2> HIDE DEF g
  <2> QED
    BY <2>5, <2>6
<1> HIDE DEF T
<1>3. 0..N \subseteq T
  BY <1>1, <1>2, UpTo
<1> QED
  BY <1>3 DEF T

ChildrenOf(p, S) == UNION {ToSet(p[x].child) : x \in S}

\* What lies below an operator is computed in rounds.
BelowRounds(p, op, g) ==
  /\ Below(p, op) = g[Len(p)] /\ g[0] = {op}
  /\ \A n \in 1..Len(p) : g[n] = g[n - 1] \cup ChildrenOf(p, g[n - 1])

\* They are what the recursive function of Below has.
LEMMA BelowRoundsExist ==
  ASSUME NEW p \in LogicalPlans, NEW op \in DOMAIN p
  PROVE  \E g : BelowRounds(p, op, g)
<1> DEFINE N == Len(p)
           V == SUBSET DOMAIN p
           a == {op}
           G == [v \in V |-> v \cup ChildrenOf(p, v)]
           Loop(f) == f = [n \in 0..N |-> IF n = 0 THEN a ELSE f[n - 1] \cup ChildrenOf(p, f[n - 1])]
<1>1. N \in Nat
  BY NodeExtractionAssumption
<1>2. a \in V /\ G \in [V -> V] /\ \A v \in V : G[v] = v \cup ChildrenOf(p, v)
  <2>1. \A x \in DOMAIN p : ToSet(p[x].child) \subseteq DOMAIN p
    BY NodeExtractionAssumption DEF ToSet
  <2>2. \A v \in V : v \cup ChildrenOf(p, v) \in V
    BY <2>1 DEF ChildrenOf
  <2> QED
    BY <2>2
<1>3. Below(p, op) = (CHOOSE f : Loop(f))[N]
  BY DEF Below, ChildrenOf
<1> HIDE DEF N, V, a, G
<1>4. PICK f : Rounds(N, V, a, G, f)
  BY <1>1, <1>2, RoundsExist
<1>5. Loop(f)
  <2>1. \A n \in 1..N : f[n - 1] \in V
    BY <1>1, <1>4 DEF Rounds
  <2>2. \A n \in 1..N : f[n] = f[n - 1] \cup ChildrenOf(p, f[n - 1])
    BY <1>2, <1>4, <2>1 DEF Rounds
  <2> QED
    BY <1>4, <2>2 DEF Rounds
<1> DEFINE g == CHOOSE h : Loop(h)
<1>6. g = [n \in 0..N |-> IF n = 0 THEN a ELSE g[n - 1] \cup ChildrenOf(p, g[n - 1])]
  BY <1>5
<1> HIDE DEF g, Loop
<1>7. g[0] = a /\ \A n \in 1..N : g[n] = g[n - 1] \cup ChildrenOf(p, g[n - 1])
  <2> DEFINE Q(n) == g[n - 1] \cup ChildrenOf(p, g[n - 1])
  <2>1. g = [n \in 0..N |-> IF n = 0 THEN a ELSE Q(n)]
    BY <1>6
  <2> HIDE DEF Q
  <2>2. 0 \in 0..N /\ \A n \in 1..N : n \in 0..N /\ n # 0
    BY <1>1
  <2>3. g[0] = a /\ \A n \in 1..N : g[n] = Q(n)
    BY <2>1, <2>2, Zenon
  <2> QED
    BY <2>3 DEF Q
<1>8. Below(p, op) = g[N]
  BY <1>3 DEF g
<1>9. BelowRounds(p, op, g)
  BY <1>7, <1>8, Zenon DEF N, a, BelowRounds
<1> QED
  BY <1>9

\* A set that has an operator and the children of its members has all below it.
LEMMA BelowWithin ==
  ASSUME NEW p \in LogicalPlans, NEW op \in DOMAIN p, NEW D, op \in D,
         \A x \in D : \A k \in DOMAIN p[x].child : p[x].child[k] \in D
  PROVE  Below(p, op) \subseteq D
<1> DEFINE N == Len(p)
<1>1. N \in Nat
  BY NodeExtractionAssumption
<1>a. PICK g : BelowRounds(p, op, g)
  BY BelowRoundsExist
<1>2. /\ Below(p, op) = g[N] /\ g[0] = {op}
      /\ \A n \in 1..N : g[n] = g[n - 1] \cup ChildrenOf(p, g[n - 1])
  BY <1>a, Zenon DEF BelowRounds
<1> HIDE DEF N
<1>3. \A v : v \subseteq D => v \cup ChildrenOf(p, v) \subseteq D
  <2>1. \A x \in D : ToSet(p[x].child) \subseteq D
    BY DEF ToSet
  <2> QED
    BY <2>1 DEF ChildrenOf
<1> DEFINE T == {n \in 0..N : g[n] \subseteq D}
<1>4. 0 \in T
  BY <1>1, <1>2
<1>5. \A n \in 1..N : n - 1 \in T => n \in T
  BY <1>1, <1>2, <1>3
<1> HIDE DEF T
<1>6. N \in T
  <2>1. 0..N \subseteq T
    BY <1>1, <1>4, <1>5, UpTo
  <2> QED
    BY <1>1, <2>1
<1> QED
  BY <1>2, <1>6 DEF T

\* A table function that reads a subquery has it below; it is a node, and what is
\* below is not visited.
TablesAreLeaves == \A p \in LogicalPlans : \A op \in DOMAIN p : p[op].kind \in TableKinds => p[op].child = <<>>

\* What NothingMissed asks of an operator.
Settled(o, x) ==
  /\ o.plan[x].kind \in TableKinds => \E n \in o.nodes : TableIndex(o.plan, n) = x
  /\ o.plan[x].join \in FilteringJoins /\ o.plan[x].conds # {} => x \in o.filter_operators

\* A call for an operator is among cs.
IsCalled(cs, x) == \E i \in DOMAIN cs : cs[i].fn = "ExtractNodes" /\ cs[i].op = x

\* The operators visited are settled, and their children are visited or to be.
VisitedOK(o, V) ==
  /\ V \subseteq DOMAIN o.plan
  /\ 1 \in V \/ IsCalled(o.calls, 1)
  /\ \A x \in V : /\ Settled(o, x)
                  /\ \A j \in DOMAIN o.plan[x].child :
                       o.plan[x].child[j] \in V \/ IsCalled(o.calls, o.plan[x].child[j])

WalkInv(o) == o.plan # <<>> => \E V : VisitedOK(o, V)

\* The call on top is replaced by cs: what was called still is, or has been visited.
LEMMA StillCalled ==
  ASSUME NEW s \in Seq(Calls), s # <<>>, NEW cs \in Seq(Calls), NEW x
  PROVE  /\ IsCalled(s, x) => IsCalled(cs \o Tail(s), x) \/ (Head(s).fn = "ExtractNodes" /\ Head(s).op = x)
         /\ IsCalled(cs, x) => IsCalled(cs \o Tail(s), x)
<1> DEFINE T == Tail(s)
           a == cs \o T
           l == Len(s)
           c == Len(cs)
<1>1. /\ T \in Seq(Calls) /\ Len(T) = l - 1 /\ l \in Nat /\ DOMAIN s = 1..l /\ Head(s) = s[1]
      /\ \A j \in 1..(l - 1) : T[j] = s[j + 1]
  BY HeadTailProperties
<1> HIDE DEF T
<1>2. /\ a \in Seq(Calls) /\ Len(a) = c + Len(T)
      /\ \A j \in 1..(c + Len(T)) : a[j] = IF j <= c THEN cs[j] ELSE T[j - c]
  BY <1>1, ConcatProperties
<1> HIDE DEF a
<1>3. c \in Nat /\ DOMAIN cs = 1..c /\ DOMAIN a = 1..(c + (l - 1))
  BY <1>1, <1>2
<1> HIDE DEF l, c
<1>4. \A j \in 1..(c + (l - 1)) : a[j] = IF j <= c THEN cs[j] ELSE T[j - c]
  BY <1>1, <1>2
<1>5. ASSUME NEW i \in DOMAIN cs PROVE i \in DOMAIN a /\ a[i] = cs[i]
  BY <1>1, <1>3, <1>4
<1>6. ASSUME NEW i \in DOMAIN s, i # 1 PROVE c + (i - 1) \in DOMAIN a /\ a[c + (i - 1)] = s[i]
  <2> DEFINE j == c + (i - 1)
  <2>1. j \in 1..(c + (l - 1)) /\ ~(j <= c) /\ j - c = i - 1 /\ i - 1 \in 1..(l - 1) /\ (i - 1) + 1 = i
    BY <1>1, <1>3, <1>6
  <2> HIDE DEF j
  <2>2. a[j] = T[i - 1]
    BY <1>4, <2>1
  <2>3. T[i - 1] = s[i]
    BY <1>1, <2>1
  <2> QED
    BY <1>3, <2>1, <2>2, <2>3 DEF j
<1>7. IsCalled(cs, x) => IsCalled(a, x)
  BY <1>5 DEF IsCalled
<1>8. IsCalled(s, x) => IsCalled(a, x) \/ (Head(s).fn = "ExtractNodes" /\ Head(s).op = x)
  <2>1. ASSUME NEW i \in DOMAIN s, s[i].fn = "ExtractNodes", s[i].op = x
        PROVE  IsCalled(a, x) \/ (Head(s).fn = "ExtractNodes" /\ Head(s).op = x)
    <3>1. CASE i = 1
      BY <1>1, <2>1, <3>1
    <3>2. CASE i # 1
      BY <1>6, <2>1, <3>2 DEF IsCalled
    <3> QED
      BY <3>1, <3>2
  <2> QED
    BY <2>1 DEF IsCalled
<1> QED
  BY <1>7, <1>8 DEF a, T

\* The call on top visits W, and the calls that replace it are for what is below.
LEMMA Walked ==
  ASSUME TypesInv, NEW k \in Connection, NEW fn, NEW kinds, Calling(k, fn, kinds),
         NEW r, DOMAIN r = OptFields, r.plan = opt[k].plan, r.calls = opt[k].calls,
         opt[k].nodes \subseteq r.nodes, opt[k].filter_operators \subseteq r.filter_operators,
         NEW cs \in Seq(Calls), Continue(k, r, cs),
         NEW W \in SUBSET DOMAIN opt[k].plan, fn = "ExtractNodes" => TopOp(k) \in W,
         \A x \in W : Settled(r, x),
         \A x \in W : \A j \in DOMAIN opt[k].plan[x].child :
           opt[k].plan[x].child[j] \in W \/ IsCalled(cs, opt[k].plan[x].child[j]),
         \A j \in Connection : WalkInv(opt[j])
  PROVE  \A j \in Connection : WalkInv(opt'[j])
<1> DEFINE o == opt[k]
           p == opt[k].plan
           s == opt[k].calls
           n == [r EXCEPT !.calls = cs \o Tail(@)]
<1>1. opt' = [opt EXCEPT ![k] = n]
  BY DEF Continue
<1>2. /\ s # <<>> /\ p \in LogicalPlans /\ OptOK(o) /\ s \in Seq(Calls) /\ Head(s).fn = fn
  BY Visiting DEF OptOK, Calling
<1>3. /\ n.plan = p /\ n.nodes = r.nodes /\ n.filter_operators = r.filter_operators
      /\ n.calls = cs \o Tail(s)
  BY DEF OptFields
<1> HIDE DEF n
<1>4. opt'[k] = n /\ \A j \in Connection : j # k => opt'[j] = opt[j]
  BY <1>1 DEF TypesInv
<1>5. PICK V : VisitedOK(o, V)
  <2>1. p # <<>>
    BY <1>2, NodeExtractionAssumption
  <2> QED
    BY <2>1 DEF WalkInv
<1> DEFINE U == V \cup W
<1>6. \A x : Settled(o, x) \/ Settled(r, x) => Settled(n, x)
  BY <1>3 DEF Settled
<1>7. \A x : /\ IsCalled(s, x) => IsCalled(n.calls, x) \/ x \in U
             /\ IsCalled(cs, x) => IsCalled(n.calls, x)
  <2> SUFFICES ASSUME NEW x PROVE /\ IsCalled(s, x) => IsCalled(n.calls, x) \/ x \in U
                                  /\ IsCalled(cs, x) => IsCalled(n.calls, x)
    OBVIOUS
  <2>1. /\ IsCalled(s, x) => IsCalled(n.calls, x) \/ (Head(s).fn = "ExtractNodes" /\ Head(s).op = x)
        /\ IsCalled(cs, x) => IsCalled(n.calls, x)
    BY <1>2, <1>3, StillCalled
  <2> QED
    BY <1>2, <2>1 DEF TopOp
<1>8. VisitedOK(n, U)
  <2>1. /\ V \subseteq DOMAIN p /\ (1 \in V \/ IsCalled(s, 1))
        /\ \A x \in V : /\ Settled(o, x)
                        /\ \A j \in DOMAIN p[x].child : p[x].child[j] \in V \/ IsCalled(s, p[x].child[j])
    BY <1>5 DEF VisitedOK
  <2>2. U \subseteq DOMAIN n.plan /\ (1 \in U \/ IsCalled(n.calls, 1))
    BY <1>3, <1>7, <2>1
  <2>3. \A x \in U : Settled(n, x)
    BY <1>6, <2>1
  <2>4. \A x \in U : \A j \in DOMAIN p[x].child : p[x].child[j] \in U \/ IsCalled(n.calls, p[x].child[j])
    BY <1>7, <2>1
  <2> HIDE DEF U
  <2> QED
    BY <1>3, <2>2, <2>3, <2>4 DEF VisitedOK
<1>9. WalkInv(n)
  BY <1>8 DEF WalkInv
<1> QED
  BY <1>4, <1>9

\* What AddNode and AddFilterOperator leave.
LEMMA Gathered ==
  ASSUME NEW o, DOMAIN o = OptFields, NEW op
  PROVE  /\ o.nodes \subseteq AddNode(o, op).nodes
         /\ \E n \in AddNode(o, op).nodes : TableIndex(o.plan, n) = TableIndex(o.plan, op)
         /\ Rename(o, op).nodes = o.nodes
         /\ AddFilterOperator(o, op).nodes = o.nodes
         /\ o.filter_operators \subseteq AddFilterOperator(o, op).filter_operators
         /\ o.plan[op].conds # {} => op \in AddFilterOperator(o, op).filter_operators
<1>1. /\ o.nodes \subseteq AddNode(o, op).nodes
      /\ \E n \in AddNode(o, op).nodes : TableIndex(o.plan, n) = TableIndex(o.plan, op)
  <2>1. CASE \E n \in o.nodes : TableIndex(o.plan, n) = TableIndex(o.plan, op)
    BY <2>1 DEF AddNode
  <2>2. CASE ~\E n \in o.nodes : TableIndex(o.plan, n) = TableIndex(o.plan, op)
    <3>1. AddNode(o, op).nodes = o.nodes \cup {op}
      BY <2>2 DEF AddNode, OptFields
    <3> QED
      BY <3>1
  <2> QED
    BY <2>1, <2>2
<1>2. Rename(o, op).nodes = o.nodes
  BY DEF Rename, OptFields
<1>3. /\ AddFilterOperator(o, op).nodes = o.nodes
      /\ o.filter_operators \subseteq AddFilterOperator(o, op).filter_operators
      /\ o.plan[op].conds # {} => op \in AddFilterOperator(o, op).filter_operators
  BY DEF AddFilterOperator, OptFields
<1> QED
  BY <1>1, <1>2, <1>3

\* All children of an operator are called.
LEMMA ChildrenCalled ==
  ASSUME NEW p \in LogicalPlans, NEW ops \in Seq(DOMAIN p), NEW c \in Calls
  PROVE  \A j \in DOMAIN ops : /\ IsCalled(Extract(ops), ops[j])
                               /\ IsCalled(<<c>> \o Extract(ops), ops[j])
                               /\ IsCalled(Extract(ops) \o <<c>>, ops[j])
<1> DEFINE e == Extract(ops)
<1> SUFFICES ASSUME NEW j \in DOMAIN ops
             PROVE  IsCalled(e, ops[j]) /\ IsCalled(<<c>> \o e, ops[j]) /\ IsCalled(e \o <<c>>, ops[j])
  OBVIOUS
<1>1. e \in Seq(Calls) /\ j \in DOMAIN e /\ e[j].fn = "ExtractNodes" /\ e[j].op = ops[j]
  BY ExtractCalls
<1>2. <<c>> \in Seq(Calls) /\ Len(<<c>>) = 1
  OBVIOUS
<1> HIDE DEF e
<1> DEFINE l == Len(e)
           a == <<c>> \o e
           b == e \o <<c>>
<1>3. l \in Nat /\ DOMAIN e = 1..l
  BY <1>1
<1>4. DOMAIN a = 1..(1 + l) /\ \A i \in 1..(1 + l) : a[i] = IF i <= 1 THEN <<c>>[i] ELSE e[i - 1]
  <2>1. a \in Seq(Calls) /\ Len(a) = Len(<<c>>) + Len(e) /\ \A i \in 1..(Len(<<c>>) + Len(e)) :
          a[i] = IF i <= Len(<<c>>) THEN <<c>>[i] ELSE e[i - Len(<<c>>)]
    BY <1>1, <1>2, ConcatProperties, Zenon
  <2> HIDE DEF a
  <2>2. DOMAIN a = 1..Len(a)
    BY <2>1
  <2> QED
    BY <1>2, <2>1, <2>2
<1>5. DOMAIN b = 1..(l + 1) /\ \A i \in 1..(l + 1) : b[i] = IF i <= l THEN e[i] ELSE <<c>>[i - l]
  <2>1. b \in Seq(Calls) /\ Len(b) = Len(e) + Len(<<c>>) /\ \A i \in 1..(Len(e) + Len(<<c>>)) :
          b[i] = IF i <= Len(e) THEN e[i] ELSE <<c>>[i - Len(e)]
    BY <1>1, <1>2, ConcatProperties, Zenon
  <2> HIDE DEF b
  <2>2. DOMAIN b = 1..Len(b)
    BY <2>1
  <2> QED
    BY <1>2, <2>1, <2>2
<1> HIDE DEF l, a, b
<1>6. j \in DOMAIN b /\ b[j] = e[j]
  BY <1>1, <1>3, <1>5
<1>7. j + 1 \in DOMAIN a /\ a[j + 1] = e[j]
  <2>1. j + 1 \in 1..(1 + l) /\ ~(j + 1 <= 1) /\ (j + 1) - 1 = j
    BY <1>1, <1>3
  <2> QED
    BY <1>4, <2>1
<1> QED
  BY <1>1, <1>6, <1>7 DEF IsCalled, a, b

\* An operator that is neither a table nor a join is settled by its children's calls.
LEMMA WalkOn ==
  ASSUME TypesInv, NEW k \in Connection, NEW kinds, Calling(k, "ExtractNodes", kinds),
         TableKinds \cap kinds = {}, JoinKinds \cap kinds = {},
         NEW r, DOMAIN r = OptFields, r.plan = opt[k].plan, r.calls = opt[k].calls,
         opt[k].nodes \subseteq r.nodes, opt[k].filter_operators \subseteq r.filter_operators,
         NEW cs \in Seq(Calls), Continue(k, r, cs),
         \A j \in DOMAIN Top(k).child : IsCalled(cs, Top(k).child[j]),
         \A j \in Connection : WalkInv(opt[j])
  PROVE  \A j \in Connection : WalkInv(opt'[j])
<1> DEFINE W == {TopOp(k)}
<1>1. TopOp(k) \in DOMAIN opt[k].plan /\ opt[k].plan \in LogicalPlans /\ Top(k).kind \in kinds
  BY Visiting DEF Calling
<1>2. Settled(r, TopOp(k))
  <2>1. Top(k).kind \notin TableKinds /\ Top(k).join = "NONE"
    BY <1>1, NodeExtractionAssumption DEF Top
  <2> QED
    BY <2>1 DEF Settled, Top, FilteringJoins
<1>3. W \in SUBSET DOMAIN opt[k].plan /\ TopOp(k) \in W /\ \A x \in W : Settled(r, x)
  BY <1>1, <1>2
<1>4. \A x \in W : \A j \in DOMAIN opt[k].plan[x].child :
        opt[k].plan[x].child[j] \in W \/ IsCalled(cs, opt[k].plan[x].child[j])
  BY DEF Top
<1> HIDE DEF W
<1> QED
  BY <1>3, <1>4, Walked

\* A call that visits nothing returns.
LEMMA WalkBack ==
  ASSUME TypesInv, NEW k \in Connection, NEW fn, NEW kinds, Calling(k, fn, kinds), fn # "ExtractNodes",
         NEW r, DOMAIN r = OptFields, r.plan = opt[k].plan, r.calls = opt[k].calls,
         opt[k].nodes \subseteq r.nodes, opt[k].filter_operators \subseteq r.filter_operators,
         Continue(k, r, <<>>),
         \A j \in Connection : WalkInv(opt[j])
  PROVE  \A j \in Connection : WalkInv(opt'[j])
<1> DEFINE W == {}
           cs == <<>>
<1>1. cs \in Seq(Calls) /\ Continue(k, r, cs)
  OBVIOUS
<1>2. W \in SUBSET DOMAIN opt[k].plan
  OBVIOUS
<1>3. /\ \A x \in W : Settled(r, x)
      /\ \A x \in W : \A j \in DOMAIN opt[k].plan[x].child :
           opt[k].plan[x].child[j] \in W \/ IsCalled(cs, opt[k].plan[x].child[j])
  OBVIOUS
<1> HIDE DEF W, cs
<1>4. fn = "ExtractNodes" => TopOp(k) \in W
  OBVIOUS
<1> QED
  BY <1>1, <1>2, <1>3, <1>4, Walked, ZenonT(30)

\* The steps of the descent that call the children of an operator.
LEMMA WalkChildren ==
  ASSUME TypesInv, NEW k \in Connection, \A j \in Connection : WalkInv(opt[j]),
         \/ PassOperator(k) \/ ExtractFilter(k) \/ ExtractProduct(k) \/ ExtractTotal(k)
         \/ ExtractRenaming(k) \/ ExtractWindow(k) \/ ExtractSetOperation(k)
  PROVE  \A j \in Connection : WalkInv(opt'[j])
<1> DEFINE o == opt[k]
           op == TopOp(k)
           e == Extract(Top(k).child)
           c == Call("AddNode", TopOp(k))
           t == e \o <<c>>
<1>1. PICK kinds : Calling(k, "ExtractNodes", kinds) /\ TableKinds \cap kinds = {} /\ JoinKinds \cap kinds = {}
  <2>1. CASE PassOperator(k)
    BY <2>1 DEF PassOperator, JoinKinds, TableKinds
  <2>2. CASE ExtractFilter(k)
    BY <2>2 DEF ExtractFilter, JoinKinds, TableKinds
  <2>3. CASE ExtractProduct(k)
    BY <2>3 DEF ExtractProduct, JoinKinds, TableKinds
  <2>4. CASE ExtractTotal(k)
    BY <2>4 DEF ExtractTotal, JoinKinds, TableKinds
  <2>5. CASE ExtractRenaming(k)
    BY <2>5 DEF ExtractRenaming, JoinKinds, TableKinds
  <2>6. CASE ExtractWindow(k)
    BY <2>6 DEF ExtractWindow, JoinKinds, TableKinds
  <2>7. CASE ExtractSetOperation(k)
    BY <2>7 DEF ExtractSetOperation, JoinKinds, TableKinds
  <2> QED
    BY <2>1, <2>2, <2>3, <2>4, <2>5, <2>6, <2>7
<1>2. /\ o.plan \in LogicalPlans /\ op \in DOMAIN o.plan /\ op \in AnyOp
      /\ Top(k).child \in Seq(DOMAIN o.plan) /\ DOMAIN o = OptFields
  BY <1>1, Visiting
<1>3. c \in Calls /\ c.op \in DOMAIN o.plan
  BY <1>2 DEF Call, Calls
<1> HIDE DEF c
<1>4. e \in Seq(Calls) /\ t \in Seq(Calls)
  BY <1>2, <1>3, ExtractCalls, CallAndExtract
<1>5. \A j \in DOMAIN Top(k).child : IsCalled(e, Top(k).child[j]) /\ IsCalled(t, Top(k).child[j])
  BY <1>2, <1>3, ChildrenCalled
<1>6. \/ Continue(k, o, e) \/ Continue(k, o, t)
      \/ Continue(k, Rename(o, op), e) \/ Continue(k, AddNode(o, op), e)
  BY DEF PassOperator, ExtractFilter, ExtractProduct, ExtractTotal, ExtractRenaming, ExtractWindow,
         ExtractSetOperation, c
<1> HIDE DEF e, t
<1>7. ASSUME NEW r \in {o, Rename(o, op), AddNode(o, op)}
      PROVE  /\ DOMAIN r = OptFields /\ r.plan = o.plan /\ r.calls = o.calls
             /\ o.nodes \subseteq r.nodes /\ o.filter_operators \subseteq r.filter_operators
  BY <1>2, <1>7, Collected, Gathered, SMTT(30)
<1>8. ASSUME NEW r \in {o, Rename(o, op), AddNode(o, op)}, NEW cs \in {e, t}, Continue(k, r, cs)
      PROVE  \A j \in Connection : WalkInv(opt'[j])
  <2>1. cs \in Seq(Calls) /\ \A j \in DOMAIN Top(k).child : IsCalled(cs, Top(k).child[j])
    BY <1>4, <1>5, <1>8
  <2> QED
    BY <1>1, <1>7, <1>8, <2>1, WalkOn
<1> QED
  BY <1>6, <1>8

\* A join is found, and its children are called.
LEMMA WalkJoin ==
  ASSUME TypesInv, NEW k \in Connection, \A j \in Connection : WalkInv(opt[j]), ExtractJoin(k)
  PROVE  \A j \in Connection : WalkInv(opt'[j])
<1> DEFINE o == opt[k]
           op == TopOp(k)
           c == Call("reset", TopOp(k))
           cs == <<c>> \o Extract(Top(k).child)
           adds == Top(k).join \in FilteringJoins \/ (Top(k).join = "MARK" /\ can_add_mark)
           r == IF adds THEN AddFilterOperator(o, op) ELSE o
           W == {op}
<1>1. Calling(k, "ExtractNodes", JoinKinds) /\ Continue(k, r, cs) /\ Top(k).kind \in JoinKinds
  BY DEF ExtractJoin, Calling
<1>2. /\ o.plan \in LogicalPlans /\ op \in DOMAIN o.plan /\ op \in AnyOp
      /\ Top(k).child \in Seq(DOMAIN o.plan) /\ DOMAIN o = OptFields
  BY <1>1, Visiting
<1>3. c \in Calls /\ c.op \in DOMAIN o.plan
  BY <1>2 DEF Call, Calls
<1> HIDE DEF c
<1>4. cs \in Seq(Calls) /\ \A j \in DOMAIN Top(k).child : IsCalled(cs, Top(k).child[j])
  BY <1>2, <1>3, CallAndExtract, ChildrenCalled
<1> HIDE DEF cs
<1>5. /\ DOMAIN r = OptFields /\ r.plan = o.plan /\ r.calls = o.calls
      /\ o.nodes \subseteq r.nodes /\ o.filter_operators \subseteq r.filter_operators
      /\ adds /\ o.plan[op].conds # {} => op \in r.filter_operators
  BY <1>2, Collected, Gathered
<1> HIDE DEF r
<1>6. Settled(r, op)
  BY <1>1, <1>5 DEF Settled, Top, JoinKinds, TableKinds
<1>7. /\ W \in SUBSET DOMAIN o.plan /\ op \in W /\ \A x \in W : Settled(r, x)
      /\ \A x \in W : \A j \in DOMAIN o.plan[x].child :
           o.plan[x].child[j] \in W \/ IsCalled(cs, o.plan[x].child[j])
  BY <1>2, <1>4, <1>6 DEF Top
<1> HIDE DEF W
<1> QED
  BY <1>1, <1>4, <1>5, <1>7, Walked

\* A table is a node, with the filter above it or without.
LEMMA WalkTable ==
  ASSUME TablesAreLeaves, TypesInv, NEW k \in Connection, \A j \in Connection : WalkInv(opt[j]),
         ExtractTable(k) \/ ExtractFilteredTable(k)
  PROVE  \A j \in Connection : WalkInv(opt'[j])
<1> DEFINE o == opt[k]
           op == TopOp(k)
           r == AddNode(o, op)
           x == TableIndex(o.plan, op)
           W == {op, x}
           cs == <<>>
<1>1. PICK kinds \in {TableKinds, {"filter"}} : Calling(k, "ExtractNodes", kinds) /\ Top(k).kind \in kinds
  BY DEF ExtractTable, ExtractFilteredTable, Calling
<1>2. /\ Continue(k, r, cs) /\ (Top(k).kind = "filter" => Child(k).kind = "get")
  <2>1. CASE ExtractTable(k)
    BY <2>1 DEF ExtractTable, Calling, TableKinds
  <2>2. CASE ExtractFilteredTable(k)
    BY <2>2 DEF ExtractFilteredTable
  <2> QED
    BY <2>1, <2>2
<1>3. /\ o.plan \in LogicalPlans /\ op \in DOMAIN o.plan
      /\ Top(k).child \in Seq(DOMAIN o.plan) /\ DOMAIN o = OptFields
  BY <1>1, Visiting
<1>4. cs \in Seq(Calls)
  OBVIOUS
<1>5. /\ DOMAIN r = OptFields /\ r.plan = o.plan /\ r.calls = o.calls
      /\ o.nodes \subseteq r.nodes /\ o.filter_operators \subseteq r.filter_operators
      /\ \E n \in r.nodes : TableIndex(r.plan, n) = x
  BY <1>3, Collected, Gathered, SMTT(30)
<1> HIDE DEF r, cs
<1>6. /\ x \in DOMAIN o.plan /\ o.plan[x].kind \in TableKinds /\ (op = x \/ Top(k).kind = "filter")
      /\ \A j \in DOMAIN Top(k).child : Top(k).kind = "filter" => Top(k).child[j] = x
  <2>1. CASE Top(k).kind \in TableKinds
    BY <1>3, <2>1 DEF Top, TableIndex, TableKinds
  <2>2. CASE Top(k).kind = "filter"
    <3>1. Len(Top(k).child) = 1
      BY <1>3, <2>2, NodeExtractionAssumption DEF Top
    <3>2. x = Top(k).child[1]
      BY <2>2 DEF TableIndex, Top
    <3> HIDE DEF x
    <3>3. DOMAIN Top(k).child = {1} /\ Top(k).child[1] \in DOMAIN o.plan
      BY <1>3, <3>1
    <3> QED
      BY <1>2, <2>2, <3>2, <3>3 DEF Child, TableKinds
  <2> QED
    BY <1>1, <2>1, <2>2
<1> HIDE DEF x
<1>7. o.plan[x].child = <<>> /\ o.plan[x].join = "NONE"
  BY <1>3, <1>6, NodeExtractionAssumption DEF TablesAreLeaves, TableKinds, JoinKinds
<1>8. Settled(r, x)
  BY <1>5, <1>7 DEF Settled, FilteringJoins
<1>9. op # x => Settled(r, op)
  <2>1. op # x => Top(k).kind = "filter" /\ Top(k).join = "NONE"
    BY <1>3, <1>6, NodeExtractionAssumption DEF Top, TableKinds, JoinKinds
  <2> QED
    BY <1>5, <2>1 DEF Settled, FilteringJoins, Top, TableKinds, JoinKinds
<1>10. /\ W \in SUBSET DOMAIN o.plan /\ op \in W /\ \A y \in W : Settled(r, y)
       /\ \A y \in W : \A j \in DOMAIN o.plan[y].child :
            o.plan[y].child[j] \in W \/ IsCalled(cs, o.plan[y].child[j])
  BY <1>3, <1>6, <1>7, <1>8, <1>9 DEF Top
<1> HIDE DEF W
<1> QED
  BY <1>1, <1>2, <1>4, <1>5, <1>10, Walked

\* Every step keeps what has been visited.
LEMMA NextWalk ==
  ASSUME TablesAreLeaves, TypesInv, \A j \in Connection : WalkInv(opt[j]), [Next]_vars
  PROVE  \A j \in Connection : WalkInv(opt'[j])
<1>1. ASSUME NEW k \in Connection, Build(k)
      PROVE  \A j \in Connection : WalkInv(opt'[j])
  <2>1. PICK p \in LogicalPlans :
          opt' = [opt EXCEPT ![k] = [NewOptimizer(@.queries + 1) EXCEPT !.plan = p, !.calls = Extract(<<1>>)]]
    BY <1>1 DEF Build
  <2> DEFINE n == [NewOptimizer(opt[k].queries + 1) EXCEPT !.plan = p, !.calls = Extract(<<1>>)]
  <2>2. n.calls = Extract(<<1>>)
    BY DEF NewOptimizer
  <2> HIDE DEF n
  <2>3. opt'[k] = n /\ \A j \in Connection : j # k => opt'[j] = opt[j]
    BY <2>1 DEF TypesInv, n
  <2>4. IsCalled(n.calls, 1)
    <3> DEFINE ops == <<1>>
    <3>1. ops \in Seq(DOMAIN p) /\ 1 \in DOMAIN ops /\ ops[1] = 1
      BY NodeExtractionAssumption
    <3> HIDE DEF ops
    <3>2. DOMAIN Extract(ops) = DOMAIN ops /\ Extract(ops)[1].op = 1 /\ Extract(ops)[1].fn = "ExtractNodes"
      BY <3>1, ExtractCalls
    <3> QED
      BY <2>2, <3>1, <3>2 DEF IsCalled, ops
  <2>5. VisitedOK(n, {})
    BY <2>4 DEF VisitedOK
  <2> QED
    BY <2>3, <2>5 DEF WalkInv
<1>2. ASSUME NEW k \in Connection, EndQuery(k)
      PROVE  \A j \in Connection : WalkInv(opt'[j])
  <2> DEFINE n == NewOptimizer(opt[k].queries)
  <2>1. opt' = [opt EXCEPT ![k] = n]
    BY <1>2 DEF EndQuery
  <2>2. n.plan = <<>>
    BY DEF NewOptimizer
  <2> HIDE DEF n
  <2>3. opt'[k] = n /\ \A j \in Connection : j # k => opt'[j] = opt[j]
    BY <2>1 DEF TypesInv
  <2> QED
    BY <2>2, <2>3 DEF WalkInv
<1>3. ASSUME NEW k \in Connection, ResetMark(k)
      PROVE  \A j \in Connection : WalkInv(opt'[j])
  <2>1. Calling(k, "reset", JoinKinds) /\ Continue(k, opt[k], <<>>)
    BY <1>3 DEF ResetMark
  <2>2. DOMAIN opt[k] = OptFields
    BY <2>1, Visiting
  <2> QED
    BY <2>1, <2>2, WalkBack
<1>4. ASSUME NEW k \in Connection, AddTotal(k)
      PROVE  \A j \in Connection : WalkInv(opt'[j])
  <2> DEFINE r == AddNode(opt[k], TopOp(k))
  <2>1. Calling(k, "AddNode", {"total"}) /\ Continue(k, r, <<>>)
    BY <1>4 DEF AddTotal
  <2>2. DOMAIN opt[k] = OptFields
    BY <2>1, Visiting
  <2>3. /\ DOMAIN r = OptFields /\ r.plan = opt[k].plan /\ r.calls = opt[k].calls
        /\ opt[k].nodes \subseteq r.nodes /\ opt[k].filter_operators \subseteq r.filter_operators
    BY <2>2, Collected, Gathered
  <2> HIDE DEF r
  <2> QED
    BY <2>1, <2>3, WalkBack
<1>5. CASE UNCHANGED vars
  BY <1>5 DEF vars
<1> QED
  BY <1>1, <1>2, <1>3, <1>4, <1>5, WalkChildren, WalkJoin, WalkTable DEF Next

\* When the descent has returned from the root, every table of the plan is behind a
\* node and every join that filters has been found, whatever the plan and however
\* the descents of the connections interleave, if no table has a subquery below it.
THEOREM NothingIsMissed ==
  ASSUME TablesAreLeaves
  PROVE  Spec => []NothingMissed
<1> DEFINE Inv == TypesInv /\ \A j \in Connection : WalkInv(opt[j])
<1>1. Init => Inv
  <2> SUFFICES ASSUME Init PROVE Inv
    OBVIOUS
  <2> DEFINE n == NewOptimizer(0)
  <2>1. opt = [k \in Connection |-> n]
    BY DEF Init
  <2>2. n.plan = <<>>
    BY DEF NewOptimizer
  <2> HIDE DEF n
  <2> QED
    BY <2>1, <2>2, InitInv DEF WalkInv, IInv
<1>2. IInv /\ Inv /\ [Next]_vars => Inv'
  <2> SUFFICES ASSUME IInv, Inv, [Next]_vars PROVE Inv'
    OBVIOUS
  <2>1. TypesInv'
    BY NextInv DEF IInv
  <2>2. \A j \in Connection : WalkInv(opt'[j])
    BY NextWalk
  <2> QED
    BY <2>1, <2>2
<1>3. Inv => NothingMissed
  <2> SUFFICES ASSUME Inv, NEW k \in Connection, Extracted(opt[k]), NEW x \in Below(opt[k].plan, 1)
               PROVE  Settled(opt[k], x)
    BY DEF NothingMissed, Settled
  <2> DEFINE o == opt[k]
             p == opt[k].plan
  <2>1. p # <<>> /\ o.calls = <<>> /\ p \in LogicalPlans
    BY DEF Extracted, TypesInv, OptOK
  <2>2. PICK V : VisitedOK(o, V)
    BY <2>1 DEF WalkInv
  <2>3. \A y : ~IsCalled(o.calls, y)
    BY <2>1 DEF IsCalled
  <2>4. 1 \in DOMAIN p /\ 1 \in V /\ \A y \in V : \A j \in DOMAIN p[y].child : p[y].child[j] \in V
    BY <2>2, <2>3 DEF VisitedOK
  <2>5. x \in V
    BY <2>1, <2>4, BelowWithin
  <2> QED
    BY <2>2, <2>5 DEF VisitedOK
<1> HIDE DEF Inv
<1> QED
  BY <1>1, <1>2, <1>3, InitInv, NextInv, PTL DEF Spec

=============================================================================
