----------------------------- MODULE QueryInputs -----------------------------
(* The collections and calls TLC runs the three algorithms on: three terms    *)
(* over six documents in two clusters, of which all_ranges makes [0, 3) and   *)
(* [4, 6), so that document 3 is in no range.                                 *)
EXTENDS Integers, FiniteSets, Sequences

QTerms == {"a", "b", "c"}
QEnds == <<3, 6>>

\* The posting lists over the subsets of D with the given scores.
ListsOver(D, score(_)) == {[d \in A |-> score(d)] : A \in (SUBSET D) \ {{}}}

\* Few high scores in a, so that a becomes essential last; b with ties; c long,
\* with blocks of different bounds and an own score in each range.
Posts ==
  {[a |-> la, b |-> lb, c |-> lc] :
     la \in ListsOver({0, 2, 5}, LAMBDA d : IF d = 2 THEN 4 ELSE 3),
     lb \in ListsOver({2, 4, 5}, LAMBDA d : 2),
     lc \in {[d \in 0..5 |-> 1],
             [d \in 0..5 |-> IF d \in {2, 3} THEN 3 ELSE 1],
             [d \in {1, 3, 4, 5} |-> IF d = 1 THEN 2 ELSE 1],
             [d \in {4} |-> 5]}}

Args(kind, threshold, selected, max_clusters, timeout, range_size) ==
  [kind |-> kind, threshold |-> threshold, selected |-> selected,
   max_clusters |-> max_clusters, timeout |-> timeout, range_size |-> range_size]

Calls ==
  {Args("full", t, <<>>, 0, 0, 0) : t \in {0, 3, 7}}
  \cup {Args("ordered", 0, s, m, 0, 0) : m \in {1, 2}, s \in {<<1, 2>>, <<2, 1>>}}
  \cup {Args("ordered", 3, <<2, 1>>, 2, 0, 0)}
  \cup {Args("boundsum", 0, <<>>, m, 0, 0) : m \in {0, 2}}
  \cup {Args("boundsum", 3, <<>>, 2, 0, 0)}
  \cup {Args("timeout", 0, <<>>, 0, t, 0) : t \in {0, 2}}
  \cup {Args("full", 0, <<>>, 0, 0, 2)}

\* A repeated term is tried with the longer lists of a only.
Weights(p) ==
  {[t \in QTerms |-> 1]}
  \cup {[t \in QTerms |-> IF t = "b" THEN 3 ELSE 1] : d \in DOMAIN p.a \cap {5}}

QInputs ==
  UNION {{[post |-> p, weight |-> w, block_size |-> 2, risk |-> 1,
           kind |-> c.kind, threshold |-> c.threshold, selected |-> c.selected,
           max_clusters |-> c.max_clusters, timeout |-> c.timeout,
           range_size |-> c.range_size] : w \in Weights(p), c \in Calls} :
         p \in Posts}
=============================================================================
