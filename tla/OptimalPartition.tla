-------------------------- MODULE OptimalPartition --------------------------
(***************************************************************************)
(* How partitioned_sequence cuts a list: compute_partition splits it into  *)
(* superblocks, and optimal_partition.hpp looks for the cheapest partition *)
(* of each with a set of windows, one for each of a few costs.  A window   *)
(* keeps its end when its start moves on, so not every part is looked at.  *)
(*                                                                         *)
(* The parameters fix_cost, eps1, eps2 and eps3 have defaults in the code; *)
(* the last three are percentages here.                                    *)
(***************************************************************************)
EXTENDS Integers, Sequences, FiniteSetsExt, SequencesExt

CONSTANTS word_size, linear_scan_threshold, fix_cost, eps1, eps2, eps3

Base == INSTANCE IndexedSequence

base_bitsize(params, strict, universe, n) ==
  IF strict THEN Base!strict_sequence_bitsize(params, universe, n)
  ELSE Base!bitsize(params, universe, n)

cost_fun(params, strict, universe, n) ==
  base_bitsize(params, strict, universe, n) + fix_cost

\* What each window may cost: from lowest on, by a factor, until a single part
\* costs no more.
Bounds(lowest, single) ==
  LET limit == (100 * lowest) \div eps1
      Another(bounds, k) ==
        LET next == (Last(bounds) * (100 + eps2)) \div 100
        IN IF Last(bounds) < single /\ next * eps1 < 100 * lowest
             THEN Append(bounds, next) ELSE bounds
  IN FoldLeft(Another, <<lowest>>, [k \in 1..limit |-> k])

\* What is to be cut, as a record q: a list of values that are at least q.base,
\* and how it will be written.  Its part after the first i elements up to the one
\* number e costs this in a window.
WindowCost(q, i, e) ==
  LET min_p == IF i = 0 THEN q.base ELSE q.list[i] + 1
  IN cost_fun(q.params, q.strict, q.list[e] - min_p + 1, e - i)

\* The ends of the windows, at every start: a window goes on from the end of the
\* window before it, or from its own at the start before, until the part costs
\* what it may.
Ends(q, bounds) ==
  LET size == Len(q.list)
      From(rows, row, w, i) ==
        Max({i + 1} \cup (IF row = << >> THEN {} ELSE {Last(row)})
                   \cup (IF i = 0 THEN {} ELSE {Last(rows)[w]}))
      Slide(rows, row, w, i) ==
        LET from == From(rows, row, w, i)
        IN Append(row, Min({e \in from..size :
                              e = size \/ WindowCost(q, i, e) >= bounds[w]}))
      Row(rows, i) == FoldLeft(LAMBDA row, w : Slide(rows, row, w, i), << >>,
                               [w \in 1..Len(bounds) |-> w])
  IN FoldLeft(LAMBDA rows, i : Append(rows, Row(rows, i)), << >>,
              [i \in 1..size |-> i - 1])

\* The ends of the parts that start after i elements and are looked at: window w
\* looks at those it slides over.
Looked(ends, i, w) ==
  LET before == (IF w = 1 THEN {i + 1} ELSE {ends[i + 1][w - 1]})
                  \cup (IF i = 0 THEN {} ELSE {ends[i][w]})
  IN Max(before)..ends[i + 1][w]

\* Mutated form of Cheapest: only the cost of the last part counts.
CheapestLastPart(q, best, e, ends, single) ==
  LET starts == {i \in 0..(e - 1) : \E w \in 1..Len(ends[1]) : e \in Looked(ends, i, w)}
      least == Min({single} \cup {WindowCost(q, i, e) : i \in starts})
  IN [min_cost |-> least,
      path |-> IF least = single THEN 0
               ELSE Min({i \in starts : WindowCost(q, i, e) = least})]

\* min_cost and path for e elements, when `best` has those for fewer: the first of
\* the cheapest ways, if it is cheaper than a single part for the list.
Cheapest(q, best, e, ends, single) ==
  LET starts == {i \in 0..(e - 1) : \E w \in 1..Len(ends[1]) : e \in Looked(ends, i, w)}
      Via(i) == best[i + 1].min_cost + WindowCost(q, i, e)
      least == Min({single} \cup {Via(i) : i \in starts})
  IN [min_cost |-> least,
      path |-> IF least = single THEN 0
               ELSE Min({i \in starts : Via(i) = least})]

\* min_cost and path for 0, 1, ... elements.
Search(q, universe) ==
  LET size == Len(q.list)
      single == cost_fun(q.params, q.strict, universe - q.base, size)
      ends == Ends(q, Bounds(cost_fun(q.params, q.strict, 1, 1), single))
  IN FoldLeft(LAMBDA best, e : Append(best, Cheapest(q, best, e, ends, single)),
              <<[min_cost |-> 0, path |-> 0]>>, [e \in 1..size |-> e])

\* The ends of the parts, which are found from the last one back.
optimal_partition(q, universe) ==
  LET best == Search(q, universe)
      parts[e \in 0..Len(q.list)] ==
        IF e = 0 THEN << >> ELSE Append(parts[best[e + 1].path], e)
  IN parts[Len(q.list)]

superblock_bound == (fix_cost * 100) \div eps3

superblocks(n) == Max({1, n \div superblock_bound})

\* The last superblock has what is left.
SuperblockBegin(b) == (b - 1) * superblock_bound
SuperblockEnd(n, b) == IF b = superblocks(n) THEN n ELSE b * superblock_bound

\* It has the universe of the list, every other one that of its values.
Superblock(list, params, strict, b) ==
  [list |-> SubSeq(list, SuperblockBegin(b) + 1, SuperblockEnd(Len(list), b)),
   base |-> IF b = 1 THEN list[1] ELSE list[SuperblockBegin(b)] + 1,
   params |-> params, strict |-> strict]
SuperblockUniverse(list, universe, b) ==
  IF b = superblocks(Len(list)) THEN universe
  ELSE list[SuperblockEnd(Len(list), b)] + 1

compute_partition(list, universe, params, strict) ==
  LET Within(b) == optimal_partition(Superblock(list, params, strict, b),
                                     SuperblockUniverse(list, universe, b))
  IN IF base_bitsize(params, strict, universe, Len(list)) < 2 * fix_cost
       THEN <<Len(list)>>
       ELSE FlattenSeq([b \in 1..superblocks(Len(list)) |->
              LET ends == Within(b)
              IN [p \in 1..Len(ends) |-> SuperblockBegin(b) + ends[p]]])
=============================================================================
