---------------------------- MODULE PartitionSort ----------------------------
(***************************************************************************)
(* PartitionSort::Eval, the bucket sort that groups the hashes of a batch  *)
(* by partition, loop by loop.  prtn_ranges serves three purposes in turn: *)
(* counters, start of each partition, and end of each partition.           *)
(***************************************************************************)
EXTENDS Integers, Sequences

CONSTANT Width  \* bits of an element of prtn_ranges

ASSUME PartitionSortAssumption == Width \in Nat \ {0}

Wrapped(x) == x % 2^Width

\* First loop: count the rows of each partition, one place up.  prtn_id gives
\* the partition of each row; counted[n] is prtn_ranges after n rows.
Counted(prtn_id, num_prtns) ==
  LET counted[n \in 0..Len(prtn_id)] ==
        IF n = 0 THEN [p \in 0..num_prtns |-> 0]
        ELSE [counted[n - 1] EXCEPT ![prtn_id[n] + 1] = Wrapped(@ + 1)]
  IN  counted

Counts(prtn_id, num_prtns) == Counted(prtn_id, num_prtns)[Len(prtn_id)]

\* The running sum of the second loop.
Sums(counts, num_prtns) ==
  LET sum[i \in 0..num_prtns] == IF i = 0 THEN 0 ELSE Wrapped(sum[i - 1] + counts[i])
  IN  sum

\* The sum includes the partition's own rows.
StartsInclusive(counts, num_prtns) ==
  [p \in 0..num_prtns |-> Sums(counts, num_prtns)[p]]

\* Second loop: replace each count by the rows of the partitions before.
Starts(counts, num_prtns) ==
  [p \in 0..num_prtns |-> IF p = 0 THEN counts[0] ELSE Sums(counts, num_prtns)[p - 1]]

\* Third loop: output each row where its partition goes on; placed[n] is what
\* n rows have done.
Placed(prtn_id, starts) ==
  LET placed[n \in 0..Len(prtn_id)] ==
        IF n = 0 THEN [ranges |-> starts, out |-> <<>>]
        ELSE LET s == placed[n - 1]
                 p == prtn_id[n] + 1
                 i == s.ranges[p] + 1
             IN  [ranges |-> [s.ranges EXCEPT ![p] = Wrapped(@ + 1)],
                  out |-> [j \in DOMAIN s.out \cup {i} |-> IF j = i THEN n ELSE s.out[j]]]
  IN  placed

Place(prtn_id, starts) == Placed(prtn_id, starts)[Len(prtn_id)]

\* The row written to each output position, and prtn_ranges.
Eval(prtn_id, num_prtns) == Place(prtn_id, Starts(Counts(prtn_id, num_prtns), num_prtns))

-----------------------------------------------------------------------------

\* What the callers rely on: the output has every row once, those of partition
\* p at the positions from ranges[p] + 1 to ranges[p + 1], and none is beyond.
PartitionSorted(prtn_id, num_prtns, result) ==
  /\ DOMAIN result.out = DOMAIN prtn_id
  /\ {result.out[i] : i \in DOMAIN result.out} = DOMAIN prtn_id
  /\ result.ranges[0] = 0 /\ result.ranges[num_prtns] = Len(prtn_id)
  /\ \A p \in 0..num_prtns : result.ranges[p] \in 0..Len(prtn_id)
  /\ \A p \in 0..(num_prtns - 1) : \A i \in DOMAIN prtn_id :
       prtn_id[result.out[i]] = p <=> i \in (result.ranges[p] + 1)..result.ranges[p + 1]
=============================================================================
