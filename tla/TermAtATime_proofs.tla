-------------------------- MODULE TermAtATime_proofs --------------------------
(***************************************************************************)
(* What term-at-a-time queries promise that run one at a time, for lists,  *)
(* ranges, counters and queues of any size: aggregate reads the scores of  *)
(* the query in hand, whatever the accumulators held before, and the       *)
(* answer is the one of the other algorithms.                              *)
(***************************************************************************)
EXTENDS TermAtATime, CommonFacts

-----------------------------------------------------------------------------
(* The invariant of queries that run one at a time.                         *)

Alone == q.threads = 1

\* What the heap of a queue, and what a list, holds.
Hit == [docid : Doc, score : Nat]

Queues == [heap : SUBSET Hit, threshold : Nat, sorted : BOOLEAN]

TaatTypeOK ==
  /\ q \in Inputs
  /\ pc \in [Query -> {"waiting", "init", "accumulate", "aggregate", "done"}]
  /\ lower \in [Query -> 0..max_docid]
  /\ end \in [Query -> 0..max_docid]
  /\ docid \in [Query -> 0..max_docid]
  /\ left \in [Query -> Seq(Hit)]
  /\ queue \in [Query -> Queues]
  /\ scores \in [Doc -> Nat]
  /\ counters \in [Doc -> Nat]
  /\ m_counter \in 0..(cycle - 1)

\* One query runs, and those that wait have not begun.
OneRuns ==
  /\ \A i, j \in Running : i = j
  /\ \A i \in Query : pc[i] = "waiting" => lower[i] = 0

\* What aggregate takes the accumulator of a document for.
Value(d) == IF Current(d) THEN scores[d] ELSE 0

\* What the first n of some postings give a document.
Partial(P, n, d) ==
  SumFunctionOnSet([p \in 1..Len(P) |-> IF P[p].docid = d THEN P[p].score ELSE 0], 1..n)

\* The accumulators hold what was accumulated in this range, and nothing else.
AccumulatorsInv ==
  \A i \in Query :
    /\ pc[i] = "accumulate" =>
         LET P == Postings(i, lower[i], end[i])
         IN \E n \in 0..Len(P) : /\ left[i] = SubSeq(P, n + 1, Len(P))
                                 /\ \A d \in Doc : Value(d) = Partial(P, n, d)
    /\ pc[i] = "aggregate" =>
         \A d \in Doc : Value(d) = IF lower[i] <= d /\ d < end[i] THEN Score(i, d) ELSE 0

\* No counter is ahead of the one in use, and between two ranges every one is
\* behind it unless it begins anew.
CountersInv ==
  q.lazy =>
    IF \E i \in Query : pc[i] \in {"accumulate", "aggregate"}
      THEN \A d \in Doc : counters[d] <= m_counter
      ELSE m_counter = 0 \/ \A d \in Doc : counters[d] < m_counter

\* The documents query i is done with.
Finished(i, d) ==
  \/ pc[i] = "done"
  \/ d < lower[i]
  \/ pc[i] = "aggregate" /\ d < end[i] /\ d < docid[i]

\* A queue of its own has documents with their scores, no lower than its
\* threshold, and of those the query is done with all others score no higher.
QueuesInv ==
  q.client # "queries" =>
    \A i \in Query : pc[i] # "waiting" =>
      /\ queue[i].sorted => pc[i] = "done"
      /\ \A e \in queue[i].heap : e.score = Score(i, e.docid) /\ e.score >= queue[i].threshold
      /\ \A d \in Doc : Finished(i, d) =>
           \/ [docid |-> d, score |-> Score(i, d)] \in queue[i].heap
           \/ Score(i, d) <= queue[i].threshold

AloneInv == OneRuns /\ AccumulatorsInv /\ CountersInv /\ QueuesInv

TaatInv == TaatTypeOK /\ (Alone => AloneInv)

-----------------------------------------------------------------------------
(* The query and its lists.                                                 *)

\* What the assumption on inputs says of the one in hand.
LEMMA CallTypes ==
  ASSUME q \in Inputs
  PROVE  /\ q.threads \in Nat \ {0} /\ q.threshold \in Nat /\ q.range_size \in Nat
         /\ q.lazy \in BOOLEAN
         /\ Len(q.lists) \in Nat /\ Query = 1..Len(q.lists)
         /\ \A i \in Query :
              /\ Len(q.lists[i]) \in Nat /\ DOMAIN q.lists[i] = 1..Len(q.lists[i])
              /\ \A t \in DOMAIN q.lists[i] :
                   /\ DOMAIN q.lists[i][t] \in SUBSET Doc
                   /\ \A d \in DOMAIN q.lists[i][t] : q.lists[i][t][d] \in Nat \ {0}
<1>1. /\ q.lazy \in BOOLEAN /\ IsSeq(q.lists)
      /\ \A lists \in Range(q.lists) : IsSeq(lists) /\ \A post \in Range(lists) : IsList(post)
      /\ {q.threshold, q.range_size} \subseteq Nat /\ q.threads \in Nat \ {0}
  BY InputAssumption, Zenon
<1>2. ASSUME NEW s, IsSeq(s)
      PROVE  /\ Len(s) \in Nat /\ DOMAIN s = 1..Len(s)
             /\ \A k \in DOMAIN s : s[k] \in Range(s)
  <2>1. s \in Seq(Range(s))
    BY <1>2 DEF IsSeq
  <2>2. Len(s) \in Nat /\ DOMAIN s = 1..Len(s)
    BY <2>1, LenProperties
  <2> QED BY <2>2 DEF Range
<1>3. Len(q.lists) \in Nat /\ Query = 1..Len(q.lists) /\ \A i \in Query : q.lists[i] \in Range(q.lists)
  BY <1>1, <1>2 DEF Query
<1>4. ASSUME NEW i \in Query
      PROVE  /\ Len(q.lists[i]) \in Nat /\ DOMAIN q.lists[i] = 1..Len(q.lists[i])
             /\ \A t \in DOMAIN q.lists[i] : IsList(q.lists[i][t])
  <2>1. IsSeq(q.lists[i]) /\ \A post \in Range(q.lists[i]) : IsList(post)
    BY <1>1, <1>3, <1>4
  <2> QED BY <1>2, <2>1
<1>5. ASSUME NEW post, IsList(post)
      PROVE  DOMAIN post \in SUBSET Doc /\ \A d \in DOMAIN post : post[d] \in Nat \ {0}
  BY <1>5 DEF IsList
<1> QED BY <1>1, <1>3, <1>4, <1>5

\* A score is a natural number.
LEMMA ScoreIsSum ==
  ASSUME q \in Inputs, NEW i \in Query, NEW d
  PROVE  /\ Score(i, d) \in Nat
         /\ Score(i, d) = SumFunctionOnSet(
              [t \in 1..Len(q.lists[i]) |->
                 IF d \in DOMAIN q.lists[i][t] THEN q.lists[i][t][d] ELSE 0],
              1..Len(q.lists[i]))
<1> DEFINE n == Len(q.lists[i])
           f == [t \in 1..n |-> IF d \in DOMAIN q.lists[i][t] THEN q.lists[i][t][d] ELSE 0]
<1>1. n \in Nat /\ DOMAIN q.lists[i] = 1..n
      /\ \A t \in 1..n : \A c \in DOMAIN q.lists[i][t] : q.lists[i][t][c] \in Nat
  BY CallTypes
<1>2. Score(i, d) = SumFunctionOnSet(f, 1..n)
  BY <1>1 DEF Score, SumFunction
<1>3. \A t \in 1..n : f[t] \in Nat
  BY <1>1
<1>4. IsFiniteSet(1..n)
  BY <1>1, FS_Interval
<1> HIDE DEF n, f
<1>5. SumFunctionOnSet(f, 1..n) \in Nat
  BY <1>3, <1>4, SumNat
<1> QED BY <1>2, <1>5 DEF f, n

\* The part of a list has each of its documents there once, with its score.
LEMMA ListPartFacts ==
  ASSUME NEW list, DOMAIN list \in SUBSET Doc, \A d \in DOMAIN list : list[d] \in Nat,
         NEW l \in Nat, NEW e \in Nat
  PROVE  /\ ListPart(list, l, e) \in Seq(Hit)
         /\ \A n \in 1..Len(ListPart(list, l, e)) :
              LET p == ListPart(list, l, e)[n]
              IN p.docid \in DOMAIN list /\ l <= p.docid /\ p.docid < e /\ p.score = list[p.docid]
         /\ \A n, m \in 1..Len(ListPart(list, l, e)) :
              ListPart(list, l, e)[n].docid = ListPart(list, l, e)[m].docid => n = m
         /\ \A d \in DOMAIN list : l <= d /\ d < e =>
              \E n \in 1..Len(ListPart(list, l, e)) : ListPart(list, l, e)[n].docid = d
<1> DEFINE D == {d \in DOMAIN list : l <= d /\ d < e}
           P == ListPart(list, l, e)
<1>1. D \in SUBSET Nat /\ D \subseteq Doc /\ D \subseteq DOMAIN list
  BY SizesAssumption DEF Doc
<1>2. IsFiniteSet(D)
  <2>1. IsFiniteSet(Doc)
    BY SizesAssumption, FS_Interval DEF Doc
  <2> QED BY <1>1, <2>1, FS_Subset
<1>3. P = [n \in 1..Cardinality(D) |->
             [docid |-> Ascending(D)[n], score |-> list[Ascending(D)[n]]]]
  BY DEF ListPart, Ascending
<1>4. /\ Cardinality(D) \in Nat
      /\ \A n \in 1..Cardinality(D) : Ascending(D)[n] \in D
      /\ \A n, m \in 1..Cardinality(D) : n < m => Ascending(D)[n] < Ascending(D)[m]
      /\ \A x \in D : \E n \in 1..Cardinality(D) : Ascending(D)[n] = x
  <2> HIDE DEF D
  <2> QED BY <1>1, <1>2, AscendingFacts
<1> DEFINE c == Cardinality(D)
           a == Ascending(D)
<1>5. \A d \in D : d \in DOMAIN list /\ l <= d /\ d < e /\ list[d] \in Nat /\ d \in Doc /\ d \in Nat
  BY <1>1
<1>6. \A d \in DOMAIN list : l <= d /\ d < e => d \in D
  OBVIOUS
<1> HIDE DEF D, P, c, a
<1>7. P \in [1..c -> Hit]
  BY <1>3, <1>4, <1>5 DEF Hit, c
<1>8. P \in Seq(Hit) /\ Len(P) = c
  BY <1>4, <1>7 DEF c
<1>9. \A n \in 1..c : P[n].docid = a[n] /\ P[n].score = list[a[n]] /\ a[n] \in D
  BY <1>3, <1>4 DEF c, a
<1>10. \A n, m \in 1..c : a[n] = a[m] => n = m
  <2> SUFFICES ASSUME NEW n \in 1..c, NEW m \in 1..c, n # m PROVE a[n] # a[m]
    OBVIOUS
  <2>1. n < m \/ m < n
    BY <1>4 DEF c
  <2>2. a[n] < a[m] \/ a[m] < a[n]
    BY <1>4, <2>1 DEF a, c
  <2>3. a[n] \in Nat /\ a[m] \in Nat
    BY <1>5, <1>9
  <2> QED BY <2>2, <2>3
<1>11. \A d \in D : \E n \in 1..c : P[n].docid = d
  BY <1>4, <1>9 DEF a, c
<1>12. \A n \in 1..c : /\ P[n].docid \in DOMAIN list /\ l <= P[n].docid /\ P[n].docid < e
                       /\ P[n].score = list[P[n].docid]
  BY <1>5, <1>9
<1>13. \A n, m \in 1..c : P[n].docid = P[m].docid => n = m
  BY <1>9, <1>10
<1>14. \A d \in DOMAIN list : l <= d /\ d < e => \E n \in 1..c : P[n].docid = d
  BY <1>6, <1>11
<1> QED BY <1>8, <1>12, <1>13, <1>14 DEF P

-----------------------------------------------------------------------------
(* Sums of accumulated postings.                                            *)

\* A sum over the first numbers, one after the other.
LEMMA SumOfFirst ==
  ASSUME NEW n \in Nat, NEW f, \A p \in 1..n : f[p] \in Nat
  PROVE  /\ SumFunctionOnSet(f, 1..0) = 0
         /\ \A m \in 0..n : SumFunctionOnSet(f, 1..m) \in Nat
         /\ \A m \in 0..n : m < n =>
              SumFunctionOnSet(f, 1..(m + 1)) = SumFunctionOnSet(f, 1..m) + f[m + 1]
<1>1. IsFiniteSet(1..n) /\ \A m \in 0..n : 1..m \in SUBSET (1..n)
  BY FS_Interval
<1>2. SumFunctionOnSet(f, {}) = 0
  BY <1>1, SumUnfolds
<1>3. ASSUME NEW m \in 0..n PROVE SumFunctionOnSet(f, 1..m) \in Nat
  <2>1. IsFiniteSet(1..m) /\ \A p \in 1..m : f[p] \in Nat
    BY FS_Interval
  <2> QED BY <2>1, SumNat
<1>4. ASSUME NEW m \in 0..n, m < n
      PROVE  SumFunctionOnSet(f, 1..(m + 1)) = SumFunctionOnSet(f, 1..m) + f[m + 1]
  <2>1. 1..(m + 1) = (1..m) \cup {m + 1} /\ m + 1 \in (1..n) \ (1..m)
    BY <1>4
  <2>2. \A p \in 1..n : f[p] \in Int
    OBVIOUS
  <2>3. \A A \in SUBSET (1..n) : \A x \in (1..n) \ A :
          SumFunctionOnSet(f, A \cup {x}) = f[x] + SumFunctionOnSet(f, A)
    BY <1>1, <2>2, SumAdds
  <2>4. PICK A \in SUBSET (1..n) : A = 1..m
    BY <1>1
  <2>5. SumFunctionOnSet(f, A \cup {m + 1}) = f[m + 1] + SumFunctionOnSet(f, A)
    BY <2>1, <2>3, <2>4
  <2>6. f[m + 1] \in Nat /\ SumFunctionOnSet(f, A) \in Nat
    BY <1>3, <2>1, <2>4
  <2>7. 1..(m + 1) = A \cup {m + 1}
    BY <2>1, <2>4
  <2>8. SumFunctionOnSet(f, 1..(m + 1)) = f[m + 1] + SumFunctionOnSet(f, A)
    BY <2>5, <2>7
  <2>9. f[m + 1] + SumFunctionOnSet(f, A) = SumFunctionOnSet(f, A) + f[m + 1]
    BY <2>6
  <2> QED BY <2>4, <2>8, <2>9
<1> QED BY <1>2, <1>3, <1>4

\* Of the len numbers behind s those in M count, for v, and that is one at most.
OneCounts(f, s, len, v, M) ==
  /\ M \subseteq 1..len /\ \A j, k \in M : j = k
  /\ \A j \in 1..len : f[s + j] = IF j \in M THEN v ELSE 0

\* They make no more of a sum than that one.
LEMMA SumOfRun ==
  ASSUME NEW s \in Nat, NEW len \in Nat, NEW v \in Nat, NEW f, NEW M,
         OneCounts(f, s, len, v, M), \A p \in 1..(s + len) : f[p] \in Nat
  PROVE  SumFunctionOnSet(f, 1..(s + len))
           = SumFunctionOnSet(f, 1..s) + (IF M = {} THEN 0 ELSE v)
<1> USE DEF OneCounts
<1> DEFINE n == s + len
           S(m) == SumFunctionOnSet(f, 1..m)
           T == {j \in Nat : j <= len =>
                   S(s + j) = S(s) + (IF M \cap (1..j) = {} THEN 0 ELSE v)}
<1>1. /\ \A m \in 0..n : S(m) \in Nat
      /\ \A m \in 0..n : m < n => S(m + 1) = S(m) + f[m + 1]
  <2> HIDE DEF OneCounts
  <2>1. n \in Nat
    OBVIOUS
  <2> QED BY <2>1, SumOfFirst
<1> HIDE DEF S
<1>2. 0 \in T
  <2>1. s + 0 = s /\ M \cap (1..0) = {} /\ s \in 0..n
    OBVIOUS
  <2> QED BY <1>1, <2>1
<1>3. ASSUME NEW j \in Nat, j \in T PROVE j + 1 \in T
  <2> SUFFICES ASSUME j + 1 <= len
               PROVE  S(s + (j + 1)) = S(s) + (IF M \cap (1..(j + 1)) = {} THEN 0 ELSE v)
    OBVIOUS
  <2>1. /\ s + j \in 0..n /\ s + j < n /\ (s + j) + 1 = s + (j + 1) /\ j <= len
        /\ j + 1 \in 1..len /\ s \in 0..n
    OBVIOUS
  <2>2. S(s + (j + 1)) = S(s + j) + f[s + (j + 1)]
    BY <1>1, <2>1
  <2>3. f[s + (j + 1)] = IF j + 1 \in M THEN v ELSE 0
    BY <2>1
  <2>4. S(s + j) = S(s) + (IF M \cap (1..j) = {} THEN 0 ELSE v) /\ S(s) \in Nat
    BY <1>1, <1>3, <2>1
  <2>5. CASE j + 1 \in M
    <3>1. M \cap (1..j) = {} /\ M \cap (1..(j + 1)) # {}
      BY <2>5
    <3> QED BY <2>2, <2>3, <2>4, <2>5, <3>1
  <2>6. CASE j + 1 \notin M
    <3>1. M \cap (1..(j + 1)) = M \cap (1..j)
      BY <2>6
    <3> QED BY <2>2, <2>3, <2>4, <2>6, <3>1
  <2> QED BY <2>5, <2>6
<1>4. len \in T
  <2>1. \A j \in Nat : j \in T
    <3> HIDE DEF T
    <3> QED BY <1>2, <1>3, SetOfNaturals
  <2> QED BY <2>1
<1>5. M \cap (1..len) = M
  OBVIOUS
<1> QED BY <1>4, <1>5 DEF S

\* All postings of a range together give each document of it its score, and no
\* other document anything.
LEMMA PostingsFacts ==
  ASSUME q \in Inputs, NEW i \in Query, NEW l \in Nat, NEW e \in Nat
  PROVE  /\ Postings(i, l, e) \in Seq(Hit)
         /\ \A d \in Doc :
              Partial(Postings(i, l, e), Len(Postings(i, l, e)), d)
                = IF l <= d /\ d < e THEN Score(i, d) ELSE 0
<1> DEFINE n == Len(q.lists[i])
           list(t) == q.lists[i][t]
           parts == [t \in DOMAIN q.lists[i] |-> ListPart(list(t), l, e)]
           P == Postings(i, l, e)
<1>1. n \in Nat /\ DOMAIN q.lists[i] = 1..n
      /\ \A t \in 1..n : DOMAIN list(t) \in SUBSET Doc /\ \A d \in DOMAIN list(t) : list(t)[d] \in Nat
  BY CallTypes
<1> HIDE DEF n, list
<1>2. ASSUME NEW t \in 1..n
      PROVE  /\ parts[t] \in Seq(Hit)
             /\ \A k \in 1..Len(parts[t]) :
                  /\ parts[t][k].docid \in DOMAIN list(t)
                  /\ l <= parts[t][k].docid /\ parts[t][k].docid < e
                  /\ parts[t][k].score = list(t)[parts[t][k].docid]
             /\ \A k, m \in 1..Len(parts[t]) : parts[t][k].docid = parts[t][m].docid => k = m
             /\ \A d \in DOMAIN list(t) : l <= d /\ d < e =>
                  \E k \in 1..Len(parts[t]) : parts[t][k].docid = d
  <2>1. parts[t] = ListPart(list(t), l, e)
    BY <1>1, <1>2
  <2>2. PICK post : post = list(t)
    OBVIOUS
  <2>3. DOMAIN post \in SUBSET Doc /\ \A d \in DOMAIN post : post[d] \in Nat
    BY <1>1, <1>2, <2>2
  <2> HIDE DEF parts
  <2>4. /\ ListPart(post, l, e) \in Seq(Hit)
        /\ \A k \in 1..Len(ListPart(post, l, e)) :
             LET p == ListPart(post, l, e)[k]
             IN p.docid \in DOMAIN post /\ l <= p.docid /\ p.docid < e /\ p.score = post[p.docid]
        /\ \A k, m \in 1..Len(ListPart(post, l, e)) :
             ListPart(post, l, e)[k].docid = ListPart(post, l, e)[m].docid => k = m
        /\ \A d \in DOMAIN post : l <= d /\ d < e =>
             \E k \in 1..Len(ListPart(post, l, e)) : ListPart(post, l, e)[k].docid = d
    BY <2>3, ListPartFacts
  <2> QED BY <2>1, <2>2, <2>4
<1>3. parts \in Seq(Seq(Hit)) /\ Len(parts) = n
  <2>1. parts \in [1..n -> Seq(Hit)]
    <3>1. DOMAIN parts = 1..n
      BY <1>1
    <3>2. \A t \in 1..n : parts[t] \in Seq(Hit)
      BY <1>2
    <3>3. parts = [t \in 1..n |-> parts[t]]
      BY <1>1
    <3> QED BY <3>2, <3>3
  <2> HIDE DEF parts
  <2> QED BY <1>1, <2>1
<1>4. P = FlattenSeq(parts)
  BY DEF Postings, list
<1> HIDE DEF parts, P
<1>5. P \in Seq(Hit) /\ \E starts : Starts(parts, P, starts)
  BY <1>3, <1>4, FlattenFacts
<1>6. PICK starts : Starts(parts, P, starts)
  BY <1>5
<1>7. /\ starts \in [1..(n + 1) -> Nat] /\ starts[1] = 0 /\ starts[n + 1] = Len(P)
      /\ \A t \in 1..n : /\ starts[t + 1] = starts[t] + Len(parts[t])
                         /\ starts[t + 1] <= Len(P)
                         /\ \A j \in 1..Len(parts[t]) : P[starts[t] + j] = parts[t][j]
  BY <1>3, <1>6 DEF Starts
<1>8. ASSUME NEW d \in Doc
      PROVE  Partial(P, Len(P), d) = IF l <= d /\ d < e THEN Score(i, d) ELSE 0
  <2> DEFINE f == [p \in 1..Len(P) |-> IF P[p].docid = d THEN P[p].score ELSE 0]
             g == [t \in 1..n |-> IF d \in DOMAIN list(t) THEN list(t)[d] ELSE 0]
             S(m) == SumFunctionOnSet(f, 1..m)
             G(t) == SumFunctionOnSet(g, 1..t)
             inside == l <= d /\ d < e
             T == {t \in Nat : t <= n => S(starts[t + 1]) = IF inside THEN G(t) ELSE 0}
  <2>1. Len(P) \in Nat /\ \A p \in 1..Len(P) : f[p] \in Nat
    <3>1. Len(P) \in Nat /\ \A p \in 1..Len(P) : P[p] \in Hit
      BY <1>5
    <3>2. \A p \in 1..Len(P) : P[p].score \in Nat
      BY <3>1 DEF Hit
    <3> QED BY <3>1, <3>2
  <2>2. \A t \in 1..n : g[t] \in Nat
    BY <1>1
  <2>3. ASSUME NEW t \in 1..n
        PROVE  S(starts[t + 1]) = S(starts[t]) + (IF inside THEN g[t] ELSE 0)
    <3> DEFINE s == starts[t]
               len == Len(parts[t])
               v == g[t]
               M == {j \in 1..len : parts[t][j].docid = d}
    <3>1. s \in Nat /\ len \in Nat /\ s + len <= Len(P) /\ starts[t + 1] = s + len /\ v \in Nat
      <4>1. t \in 1..(n + 1)
        BY <1>1, <2>3
      <4>2. parts[t] \in Seq(Hit)
        BY <1>2, <2>3
      <4> HIDE DEF g
      <4> QED BY <1>7, <2>2, <2>3, <4>1, <4>2
    <3>2. M \subseteq 1..len /\ \A j, k \in M : j = k
      <4>1. M \subseteq 1..len
        OBVIOUS
      <4>2. ASSUME NEW j \in M, NEW k \in M PROVE j = k
        BY <1>2, <2>3
      <4> QED BY <4>1, <4>2
    <3>3. \A j \in 1..len : f[s + j] = IF j \in M THEN v ELSE 0
      <4> SUFFICES ASSUME NEW j \in 1..len PROVE f[s + j] = IF j \in M THEN v ELSE 0
        OBVIOUS
      <4>1. s + j \in 1..Len(P) /\ P[s + j] = parts[t][j]
        <5>1. P[s + j] = parts[t][j]
          BY <1>7, <2>3, <3>1
        <5>2. s \in Nat /\ starts[t + 1] = s + Len(parts[t]) /\ starts[t + 1] <= Len(P)
          BY <1>7, <2>3, <3>1
        <5> QED BY <2>1, <3>1, <5>1, <5>2
      <4>2. /\ parts[t][j].docid \in DOMAIN list(t)
            /\ parts[t][j].score = list(t)[parts[t][j].docid]
        BY <1>2, <2>3
      <4>3. f[s + j] = IF parts[t][j].docid = d THEN parts[t][j].score ELSE 0
        BY <4>1
      <4> QED BY <2>3, <4>2, <4>3
    <3>4. (IF M = {} THEN 0 ELSE v) = IF inside THEN v ELSE 0
      <4>1. CASE M = {}
        <5>1. inside => d \notin DOMAIN list(t)
          BY <1>2, <2>3, <4>1
        <5> QED BY <2>3, <4>1, <5>1
      <4>2. CASE M # {}
        <5>1. inside
          BY <1>2, <2>3, <4>2
        <5> QED BY <4>2, <5>1
      <4> QED BY <4>1, <4>2
    <3> HIDE DEF f, g, s, len, v, M, inside
    <3>5. SumFunctionOnSet(f, 1..(s + len)) = SumFunctionOnSet(f, 1..s) + (IF M = {} THEN 0 ELSE v)
      <4>1. OneCounts(f, s, len, v, M)
        BY <3>2, <3>3 DEF OneCounts
      <4>2. \A p \in 1..(s + len) : f[p] \in Nat
        BY <2>1, <3>1
      <4> QED BY <3>1, <4>1, <4>2, SumOfRun
    <3> QED BY <3>1, <3>4, <3>5 DEF s, v
  <2>4. /\ S(0) = 0 /\ G(0) = 0
        /\ \A m \in 0..Len(P) : S(m) \in Nat
        /\ \A t \in 0..n : G(t) \in Nat
        /\ \A t \in 0..n : t < n => G(t + 1) = G(t) + g[t + 1]
    <3> HIDE DEF f, g
    <3>1. /\ S(0) = 0 /\ \A m \in 0..Len(P) : S(m) \in Nat
      BY <2>1, SumOfFirst
    <3>2. /\ G(0) = 0
          /\ \A t \in 0..n : G(t) \in Nat
          /\ \A t \in 0..n : t < n => G(t + 1) = G(t) + g[t + 1]
      BY <1>1, <2>2, SumOfFirst
    <3> QED BY <3>1, <3>2
  <2> HIDE DEF S, G, f, g, inside
  <2>5. 0 \in T
    BY <1>7, <2>4
  <2>6. ASSUME NEW t \in Nat, t \in T PROVE t + 1 \in T
    <3> SUFFICES ASSUME t + 1 <= n
                 PROVE  S(starts[(t + 1) + 1]) = IF inside THEN G(t + 1) ELSE 0
      OBVIOUS
    <3>1. t + 1 \in 1..n /\ t \in 0..n /\ t < n
      BY <1>1
    <3>2. S(starts[(t + 1) + 1]) = S(starts[t + 1]) + (IF inside THEN g[t + 1] ELSE 0)
      BY <2>3, <3>1
    <3>3. S(starts[t + 1]) = IF inside THEN G(t) ELSE 0
      BY <2>6, <3>1
    <3>4. G(t + 1) = G(t) + g[t + 1]
      BY <2>4, <3>1
    <3> QED BY <3>2, <3>3, <3>4
  <2>7. n \in T
    <3>1. \A t \in Nat : t \in T
      <4> HIDE DEF T
      <4> QED BY <2>5, <2>6, SetOfNaturals
    <3> QED BY <1>1, <3>1
  <2>8. S(Len(P)) = IF inside THEN G(n) ELSE 0
    BY <1>1, <1>7, <2>7
  <2>9. Partial(P, Len(P), d) = S(Len(P))
    BY DEF Partial, S, f
  <2>10. Score(i, d) = G(n)
    BY ScoreIsSum DEF G, g, n, list
  <2> QED BY <2>8, <2>9, <2>10 DEF inside
<1> QED BY <1>5, <1>8 DEF P

-----------------------------------------------------------------------------
(* The queue.                                                               *)

\* What an insertion makes of a queue that is a heap: of the entries there and
\* the new one those that are dropped can no longer enter.
LEMMA InsertedFacts ==
  ASSUME NEW qu \in Queues, NEW e \in Hit, NEW new \in Inserted(qu, e)
  PROVE  /\ new \in Queues
         /\ ~qu.sorted /\ (\A f \in qu.heap : f.score >= qu.threshold) =>
              /\ ~new.sorted
              /\ new.threshold >= qu.threshold
              /\ new.heap \subseteq qu.heap \cup {e}
              /\ \A f \in new.heap : f.score >= new.threshold
              /\ \A f \in qu.heap \cup {e} : f \in new.heap \/ f.score <= new.threshold
<1> DEFINE S == qu.heap \cup {e}
<1>1. /\ S \in SUBSET Hit /\ qu.threshold \in Nat /\ qu.sorted \in BOOLEAN
      /\ \A f \in S : f.score \in Nat
      /\ qu = [heap |-> qu.heap, threshold |-> qu.threshold, sorted |-> qu.sorted]
  BY DEF Queues, Hit
<1>2. CASE new = qu /\ e.score <= qu.threshold
  BY <1>1, <1>2
<1>3. CASE new = [qu EXCEPT !.heap = S] /\ ~(e.score <= qu.threshold)
  <2>1. new = [heap |-> S, threshold |-> qu.threshold, sorted |-> qu.sorted]
    BY <1>1, <1>3
  <2> HIDE DEF S
  <2>2. new \in Queues
    BY <1>1, <2>1 DEF Queues
  <2>3. \A f \in S : f \in qu.heap \/ f = e
    BY DEF S
  <2>4. new.heap = S /\ new.threshold = qu.threshold /\ new.sorted = qu.sorted
    BY <2>1
  <2>5. qu.threshold >= qu.threshold /\ e.score >= qu.threshold
    BY <1>1, <1>3 DEF S
  <2>6. S \subseteq qu.heap \cup {e} /\ \A f \in qu.heap \cup {e} : f \in S
    BY DEF S
  <2> QED BY <2>2, <2>3, <2>4, <2>5, <2>6
<1>4. ASSUME NEW T \in SUBSET S, NEW f \in InFront(T, qu.sorted),
             T = S \/ \E l \in InFront(S, qu.sorted) : T = S \ {l},
             ~(e.score <= qu.threshold),
             new = [heap |-> T, threshold |-> f.score, sorted |-> qu.sorted]
      PROVE  /\ new \in Queues
             /\ ~qu.sorted /\ (\A g \in qu.heap : g.score >= qu.threshold) =>
                  /\ ~new.sorted
                  /\ new.threshold >= qu.threshold
                  /\ new.heap \subseteq qu.heap \cup {e}
                  /\ \A g \in new.heap : g.score >= new.threshold
                  /\ \A g \in qu.heap \cup {e} : g \in new.heap \/ g.score <= new.threshold
  <2>1. f \in T /\ f.score \in Nat
    BY <1>1, <1>4 DEF InFront, Lowest
  <2>2. new \in Queues
    BY <1>1, <1>4, <2>1 DEF Queues
  <2>3. new.heap = T /\ new.threshold = f.score /\ new.sorted = qu.sorted
    BY <1>4
  <2>4. ASSUME ~qu.sorted, \A g \in qu.heap : g.score >= qu.threshold
        PROVE  /\ f.score >= qu.threshold
               /\ \A g \in T : g.score >= f.score
               /\ \A g \in S : g \in T \/ g.score <= f.score
    <3>1. \A g \in S : g.score >= qu.threshold
      BY <1>1, <1>4, <2>4
    <3>2. \A g \in T : f.score <= g.score
      BY <1>4, <2>4 DEF InFront, Lowest
    <3>3. \A g \in T : g.score >= f.score
      BY <1>1, <2>1, <3>2
    <3>4. ASSUME NEW g \in S, g \notin T PROVE g.score <= f.score
      <4>1. PICK l \in InFront(S, qu.sorted) : T = S \ {l}
        BY <1>4, <3>4
      <4>2. g = l /\ l.score <= f.score
        BY <2>1, <2>4, <3>4, <4>1 DEF InFront, Lowest
      <4> QED BY <4>2
    <3> QED BY <2>1, <3>1, <3>3, <3>4
  <2> QED BY <2>2, <2>3, <2>4
<1>5. \/ new = qu /\ e.score <= qu.threshold
      \/ new = [qu EXCEPT !.heap = S] /\ ~(e.score <= qu.threshold)
      \/ /\ ~(e.score <= qu.threshold)
         /\ \E T \in IF Cardinality(S) = K THEN {S} ELSE {S \ {l} : l \in InFront(S, qu.sorted)} :
              \E f \in InFront(T, qu.sorted) :
                 new = [heap |-> T, threshold |-> f.score, sorted |-> qu.sorted]
  <2>1. CASE e.score <= qu.threshold
    BY <2>1 DEF Inserted
  <2>2. CASE ~(e.score <= qu.threshold) /\ Cardinality(S) < K
    BY <2>2 DEF Inserted
  <2>3. CASE ~(e.score <= qu.threshold) /\ ~(Cardinality(S) < K)
    <3> DEFINE Ts == IF Cardinality(S) = K THEN {S} ELSE {S \ {l} : l \in InFront(S, qu.sorted)}
               Of(T) == {[heap |-> T, threshold |-> f.score, sorted |-> qu.sorted] :
                           f \in InFront(T, qu.sorted)}
    <3>1. Inserted(qu, e) = UNION {Of(T) : T \in Ts}
      BY <2>3 DEF Inserted
    <3>2. PICK T \in Ts : new \in Of(T)
      <4> HIDE DEF Ts, Of
      <4> QED BY <3>1
    <3>3. PICK f \in InFront(T, qu.sorted) :
            new = [heap |-> T, threshold |-> f.score, sorted |-> qu.sorted]
      BY <3>2
    <3> QED BY <2>3, <3>2, <3>3
  <2> QED BY <2>1, <2>2, <2>3
<1>6. CASE /\ ~(e.score <= qu.threshold)
           /\ \E T \in IF Cardinality(S) = K THEN {S} ELSE {S \ {l} : l \in InFront(S, qu.sorted)} :
                \E f \in InFront(T, qu.sorted) :
                   new = [heap |-> T, threshold |-> f.score, sorted |-> qu.sorted]
  <2>1. PICK T \in IF Cardinality(S) = K THEN {S} ELSE {S \ {l} : l \in InFront(S, qu.sorted)} :
               \E f \in InFront(T, qu.sorted) :
                  new = [heap |-> T, threshold |-> f.score, sorted |-> qu.sorted]
    BY <1>6
  <2>2. PICK f \in InFront(T, qu.sorted) :
               new = [heap |-> T, threshold |-> f.score, sorted |-> qu.sorted]
    BY <2>1
  <2>3. T \in SUBSET S /\ (T = S \/ \E l \in InFront(S, qu.sorted) : T = S \ {l})
    BY <2>1
  <2> QED BY <1>4, <1>6, <2>2, <2>3
<1> QED BY <1>2, <1>3, <1>5, <1>6

-----------------------------------------------------------------------------
(* The steps.                                                               *)

\* The end of a range lies behind its beginning, up to the last document.
LEMMA NextEndType ==
  ASSUME q \in Inputs, NEW e \in 0..max_docid
  PROVE  NextEnd(e) \in 0..max_docid
BY CallTypes, SizesAssumption DEF NextEnd

\* The counter goes on by one, or back to 0.
LEMMA NextCounter ==
  ASSUME NEW c \in 0..(cycle - 1)
  PROVE  /\ (c + 1) % cycle \in 0..(cycle - 1)
         /\ (c + 1) % cycle = 0 \/ (c + 1) % cycle = c + 1
<1>1. PICK n \in Nat \ {0} : n = cycle
  BY SizesAssumption
<1>2. c + 1 < n \/ c + 1 = n
  BY <1>1
<1>3. CASE c + 1 < n
  <2>1. (c + 1) % n = c + 1
    BY <1>1, <1>3
  <2> QED BY <1>1, <1>3, <2>1
<1>4. CASE c + 1 = n
  <2>1. (c + 1) % n = 0
    BY <1>1, <1>4
  <2> QED BY <1>1, <1>4, <2>1
<1> QED BY <1>2, <1>3, <1>4

\* The queues queries begin with are queues.
LEMMA NewQueueType ==
  ASSUME TaatTypeOK, NEW i \in Query
  PROVE  NewQueue(i) \in Queues
<1>1. EmptyQueue \in Queues /\ q.threshold \in Nat
  BY CallTypes DEF TaatTypeOK, EmptyQueue, Queues
<1>2. i > 1 => i - 1 \in Query
  BY CallTypes DEF TaatTypeOK
<1>3. i > 1 => queue[i - 1] \in Queues
  BY <1>2 DEF TaatTypeOK
<1>4. \A qu \in Queues : [qu EXCEPT !.threshold = q.threshold] \in Queues
  BY <1>1 DEF Queues
<1> QED BY <1>1, <1>3, <1>4 DEF NewQueue

\* Type correctness is kept by every step.
LEMMA TypeStep ==
  ASSUME TaatTypeOK, [Next]_vars
  PROVE  TaatTypeOK'
<1> USE DEF TaatTypeOK
<1>1. q \in Inputs /\ (q' = q => Query' = Query)
  BY DEF Query
<1>2. max_docid \in Nat /\ 0 \in 0..max_docid /\ 0 \in 0..(cycle - 1) /\ Zero \in [Doc -> Nat]
  BY SizesAssumption DEF Zero
<1>3. ASSUME NEW i \in Query, StartQuery(i) PROVE TaatTypeOK'
  <2>1. NewQueue(i) \in Queues
    BY NewQueueType
  <2>2. queue' \in [Query -> Queues] /\ pc' \in [Query -> {"waiting", "init", "accumulate", "aggregate", "done"}]
    BY <1>3, <2>1 DEF StartQuery
  <2>3. scores' \in [Doc -> Nat] /\ counters' \in [Doc -> Nat] /\ m_counter' \in 0..(cycle - 1)
    BY <1>2, <1>3 DEF StartQuery, accumulatorVars
  <2> QED BY <1>1, <1>3, <2>2, <2>3 DEF StartQuery
<1>4. ASSUME NEW i \in Query, InitAccumulator(i) PROVE TaatTypeOK'
  <2>1. lower[i] \in Nat /\ end[i] \in Nat
    BY <1>2
  <2>2. Postings(i, lower[i], end[i]) \in Seq(Hit)
    BY <1>1, <2>1, PostingsFacts
  <2>3. left' \in [Query -> Seq(Hit)] /\ pc' \in [Query -> {"waiting", "init", "accumulate", "aggregate", "done"}]
    BY <1>4, <2>2 DEF InitAccumulator
  <2>4. scores' \in [Doc -> Nat] /\ counters' \in [Doc -> Nat]
    BY <1>2, <1>4 DEF InitAccumulator
  <2> QED BY <1>1, <1>4, <2>3, <2>4 DEF InitAccumulator
<1>5. ASSUME NEW i \in Query, Accumulate(i) PROVE TaatTypeOK'
  <2>1. left[i] \in Seq(Hit) /\ left[i] # << >>
    BY <1>5 DEF Accumulate
  <2>2. Head(left[i]) \in Hit /\ Tail(left[i]) \in Seq(Hit)
    BY <2>1
  <2>3. PICK p \in Hit : p = Head(left[i])
    BY <2>2
  <2>4. p.docid \in Doc /\ p.score \in Nat /\ m_counter \in Nat
    BY <1>2, <2>3, SizesAssumption DEF Hit
  <2>5. /\ scores' = [scores EXCEPT ![p.docid] = IF Current(p.docid) THEN @ + p.score ELSE p.score]
        /\ counters' = [counters EXCEPT ![p.docid] = m_counter]
        /\ left' = [left EXCEPT ![i] = Tail(@)]
        /\ UNCHANGED <<q, pc, lower, end, docid, queue, m_counter>>
    BY <1>5, <2>3 DEF Accumulate, Accumulated
  <2>6. scores' \in [Doc -> Nat] /\ counters' \in [Doc -> Nat]
    BY <2>4, <2>5
  <2>7. left' \in [Query -> Seq(Hit)]
    BY <2>2, <2>5
  <2> QED BY <1>1, <2>5, <2>6, <2>7
<1>6. ASSUME NEW i \in Query, StartAggregate(i) PROVE TaatTypeOK'
  BY <1>1, <1>2, <1>6 DEF StartAggregate, accumulatorVars
<1>7. ASSUME NEW i \in Query, Aggregate(i) PROVE TaatTypeOK'
  <2>1. docid[i] \in Doc /\ docid[i] + 1 \in 0..max_docid
    <3>1. docid[i] \in 0..max_docid /\ docid[i] < max_docid
      BY <1>7 DEF Aggregate
    <3> HIDE DEF TaatTypeOK
    <3> QED BY <3>1, SizesAssumption DEF Doc
  <2>2. queue' \in [Query -> Queues]
    <3>1. [docid |-> docid[i], score |-> scores[docid[i]]] \in Hit
      BY <2>1 DEF Hit
    <3>2. CASE \E qu \in Inserted(queue[i], [docid |-> docid[i], score |-> scores[docid[i]]]) :
                 queue' = [queue EXCEPT ![i] = qu]
      BY <3>1, <3>2, InsertedFacts
    <3>3. CASE queue' = queue
      BY <3>3
    <3> QED BY <1>7, <3>2, <3>3 DEF Aggregate
  <2> QED BY <1>1, <1>7, <2>1, <2>2 DEF Aggregate, accumulatorVars
<1>8. ASSUME NEW i \in Query, EndAggregate(i) PROVE TaatTypeOK'
  <2>1. m_counter' \in 0..(cycle - 1)
    BY <1>8, NextCounter DEF EndAggregate
  <2>2. lower' \in [Query -> 0..max_docid] /\ end' \in [Query -> 0..max_docid]
    <3>1. end[i] \in 0..max_docid /\ NextEnd(end[i]) \in 0..max_docid
      BY <1>1, NextEndType
    <3>2. \/ lower' = [lower EXCEPT ![i] = end[i]] /\ end' = [end EXCEPT ![i] = NextEnd(end[i])]
          \/ lower' = lower /\ end' = end
      BY <1>8 DEF EndAggregate
    <3> QED BY <3>1, <3>2
  <2>3. queue' \in [Query -> Queues]
    <3>1. PICK qu \in Queues : qu = queue[i]
      OBVIOUS
    <3>2. [qu EXCEPT !.sorted = TRUE] \in Queues
      BY DEF Queues
    <3>3. queue' = queue \/ queue' = [queue EXCEPT ![i] = [qu EXCEPT !.sorted = TRUE]]
      BY <1>8, <3>1 DEF EndAggregate
    <3> QED BY <3>2, <3>3
  <2>4. pc' \in [Query -> {"waiting", "init", "accumulate", "aggregate", "done"}]
    BY <1>8 DEF EndAggregate
  <2> QED BY <1>1, <1>8, <2>1, <2>2, <2>3, <2>4 DEF EndAggregate
<1>9. CASE UNCHANGED vars
  BY <1>1, <1>9 DEF vars, queryVars, accumulatorVars
<1> QED
  BY <1>3, <1>4, <1>5, <1>6, <1>7, <1>8, <1>9 DEF Next, Done

\* The query does not change, nor what depends on it only.
LEMMA SameQuery ==
  ASSUME q' = q
  PROVE  /\ Query' = Query /\ Alone' = Alone
         /\ \A j, d : Score(j, d)' = Score(j, d)
         /\ \A j, l, e : Postings(j, l, e)' = Postings(j, l, e)
BY DEF Query, Alone, Score, Postings

\* Where the accumulators do not change their values do not.
LEMMA SameValues ==
  ASSUME q' = q, UNCHANGED accumulatorVars
  PROVE  \A d : Value(d)' = Value(d)
BY DEF accumulatorVars, Value, Current

\* The running queries are those with these program counters.
LEMMA RunningFacts ==
  ASSUME TaatTypeOK, OneRuns, NEW i \in Query, pc[i] \notin {"waiting", "done"}
  PROVE  \A j \in Query : j # i => pc[j] \in {"waiting", "done"}
BY DEF OneRuns, Running

\* Alone, a query begins when no other runs.
LEMMA NothingRuns ==
  ASSUME TaatTypeOK, Alone, NEW i \in Query, StartQuery(i)
  PROVE  \A j \in Query : pc[j] \in {"waiting", "done"}
<1>1. IsFiniteSet(Query)
  BY CallTypes, FS_Interval DEF TaatTypeOK
<1>2. Running \in SUBSET Query
  BY DEF Running
<1>3. IsFiniteSet(Running) /\ Cardinality(Running) \in Nat
  BY <1>1, <1>2, FS_Subset, FS_CardinalityType
<1>4. Cardinality(Running) = 0
  BY <1>3 DEF StartQuery, Alone
<1>5. Running = {}
  BY <1>3, <1>4, FS_EmptySet
<1> QED BY <1>5 DEF Running

\* A query begins.
LEMMA StartQueryStep ==
  ASSUME TaatTypeOK, Alone, AloneInv, NEW i \in Query, StartQuery(i)
  PROVE  AloneInv'
<1>1. /\ q' = q /\ lower' = lower /\ end' = end /\ left' = left /\ docid' = docid
      /\ pc[i] = "waiting" /\ pc' = [pc EXCEPT ![i] = "init"]
      /\ queue' = [queue EXCEPT ![i] = NewQueue(i)]
  BY DEF StartQuery
<1>2. \A j \in Query : pc[j] \in {"waiting", "done"}
  BY NothingRuns
<1>3. pc'[i] = "init" /\ \A j \in Query : j # i => pc'[j] = pc[j]
  BY <1>1 DEF TaatTypeOK
<1>4. Query' = Query /\ \A j, d : Score(j, d)' = Score(j, d)
  BY <1>1, SameQuery
<1>5. OneRuns'
  BY <1>1, <1>2, <1>3, <1>4 DEF OneRuns, Running, AloneInv
<1>6. AccumulatorsInv'
  BY <1>2, <1>3, <1>4 DEF AccumulatorsInv
<1>7. CountersInv'
  <2>1. q.lazy => m_counter = 0 \/ \A d \in Doc : counters[d] < m_counter
    BY <1>2 DEF AloneInv, CountersInv
  <2>2. q'.lazy => m_counter' = 0 \/ \A d \in Doc : counters'[d] < m_counter'
    BY <1>1, <2>1 DEF StartQuery, accumulatorVars
  <2>3. ~\E j \in Query' : pc'[j] \in {"accumulate", "aggregate"}
    BY <1>2, <1>3, <1>4
  <2> QED BY <2>2, <2>3 DEF CountersInv
<1>8. QueuesInv'
  <2> SUFFICES ASSUME q.client # "queries", NEW j \in Query, pc'[j] # "waiting"
               PROVE  /\ queue'[j].sorted => pc'[j] = "done"
                      /\ \A e \in queue'[j].heap :
                           e.score = Score(j, e.docid) /\ e.score >= queue'[j].threshold
                      /\ \A d \in Doc : Finished(j, d)' =>
                           \/ [docid |-> d, score |-> Score(j, d)] \in queue'[j].heap
                           \/ Score(j, d) <= queue'[j].threshold
    BY <1>1, <1>4 DEF QueuesInv
  <2>1. CASE j = i
    <3>1. queue'[i] = [heap |-> {}, threshold |-> q.threshold, sorted |-> FALSE]
      <4>1. queue'[i] = NewQueue(i)
        BY <1>1 DEF TaatTypeOK
      <4> QED BY <4>1 DEF NewQueue, EmptyQueue
    <3>2. lower[i] = 0
      BY <1>1 DEF AloneInv, OneRuns
    <3>3. \A d \in Doc : ~Finished(i, d)'
      BY <1>1, <1>3, <3>2, SizesAssumption DEF Finished, Doc
    <3> QED BY <2>1, <3>1, <3>3
  <2>2. CASE j # i
    <3>1. queue'[j] = queue[j] /\ pc'[j] = pc[j]
      BY <1>1, <1>3, <2>2 DEF TaatTypeOK
    <3>2. \A d \in Doc : Finished(j, d)' = Finished(j, d)
      BY <1>1, <3>1 DEF Finished
    <3> QED BY <3>1, <3>2 DEF AloneInv, QueuesInv
  <2> QED BY <2>1, <2>2
<1> QED BY <1>5, <1>6, <1>7, <1>8 DEF AloneInv

\* The queues of queries that stay with what they are done with.
LEMMA SameQueues ==
  ASSUME TaatTypeOK, QueuesInv, q' = q, queue' = queue,
         \A j \in Query : pc'[j] # "waiting" => pc[j] # "waiting" /\ (pc[j] = "done" => pc'[j] = "done"),
         \A j \in Query : pc'[j] # "waiting" => \A d \in Doc : Finished(j, d)' => Finished(j, d)
  PROVE  QueuesInv'
BY SameQuery DEF QueuesInv

\* The accumulators are prepared for a range.
LEMMA InitAccumulatorStep ==
  ASSUME TaatTypeOK, Alone, AloneInv, NEW i \in Query, InitAccumulator(i)
  PROVE  AloneInv'
<1>1. /\ q' = q /\ lower' = lower /\ end' = end /\ docid' = docid /\ queue' = queue
      /\ m_counter' = m_counter
      /\ pc[i] = "init" /\ pc' = [pc EXCEPT ![i] = "accumulate"]
      /\ left' = [left EXCEPT ![i] = Postings(i, lower[i], end[i])]
  BY DEF InitAccumulator
<1>2. \A j \in Query : j # i => pc[j] \in {"waiting", "done"}
  BY <1>1, RunningFacts DEF AloneInv
<1>3. pc'[i] = "accumulate" /\ \A j \in Query : j # i => pc'[j] = pc[j]
  BY <1>1 DEF TaatTypeOK
<1>4. /\ Query' = Query /\ \A j, d : Score(j, d)' = Score(j, d)
      /\ \A j, l, e : Postings(j, l, e)' = Postings(j, l, e)
  BY <1>1, SameQuery
<1>5. OneRuns'
  BY <1>1, <1>2, <1>3, <1>4 DEF OneRuns, Running, AloneInv
<1>6. q.lazy => m_counter = 0 \/ \A d \in Doc : counters[d] < m_counter
  BY <1>1, <1>2 DEF AloneInv, CountersInv
<1>7. \A d \in Doc : Value(d)' = 0
  <2>1. CASE Reset
    <3>1. \A d \in Doc : scores'[d] = 0
      BY <2>1 DEF InitAccumulator, Zero
    <3> QED BY <3>1 DEF Value
  <2>2. CASE ~Reset
    <3>1. q.lazy /\ m_counter # 0
      BY <2>2, CallTypes DEF Reset, TaatTypeOK
    <3>2. \A d \in Doc : counters[d] < m_counter /\ counters[d] \in Nat /\ m_counter \in Nat
      BY <1>6, <3>1, SizesAssumption DEF TaatTypeOK
    <3>3. \A d \in Doc : counters'[d] # m_counter'
      BY <1>1, <2>2, <3>2 DEF InitAccumulator
    <3> QED BY <1>1, <3>1, <3>3 DEF Value, Current
  <2> QED BY <2>1, <2>2
<1>8. AccumulatorsInv'
  <2> DEFINE P == Postings(i, lower[i], end[i])
  <2>1. lower[i] \in Nat /\ end[i] \in Nat
    BY SizesAssumption DEF TaatTypeOK
  <2>2. P \in Seq(Hit)
    BY <2>1, PostingsFacts DEF TaatTypeOK
  <2>3. left'[i] = P
    BY <1>1 DEF TaatTypeOK
  <2> HIDE DEF P
  <2>4. Len(P) \in Nat /\ P = SubSeq(P, 0 + 1, Len(P)) /\ 0 \in 0..Len(P)
    BY <2>2
  <2>5. \A d \in Doc : Partial(P, 0, d) = 0
    <3> SUFFICES ASSUME NEW d \in Doc PROVE Partial(P, 0, d) = 0
      OBVIOUS
    <3> DEFINE f == [p \in 1..Len(P) |-> IF P[p].docid = d THEN P[p].score ELSE 0]
    <3>1. \A p \in 1..Len(P) : P[p] \in Hit
      BY <2>2
    <3>2. \A p \in 1..Len(P) : f[p] \in Nat
      BY <3>1 DEF Hit
    <3> HIDE DEF f
    <3>3. SumFunctionOnSet(f, 1..0) = 0
      BY <2>4, <3>2, SumOfFirst
    <3> QED BY <3>3 DEF Partial, f
  <2>6. Postings(i, lower[i], end[i])' = P
    BY <1>1 DEF P, Postings
  <2>7. \E n \in 0..Len(P) : /\ left'[i] = SubSeq(P, n + 1, Len(P))
                             /\ \A d \in Doc : Value(d)' = Partial(P, n, d)
    BY <1>7, <2>3, <2>4, <2>5
  <2>8. \A j \in Query : j # i => pc'[j] \notin {"accumulate", "aggregate"}
    BY <1>2, <1>3
  <2>9. \A j \in Query : pc'[j] # "aggregate" /\ (pc'[j] = "accumulate" => j = i)
    BY <1>3, <2>8
  <2> SUFFICES ASSUME NEW j \in Query, pc'[j] = "accumulate"
               PROVE  \E n \in 0..Len(Postings(j, lower[j], end[j])') :
                        /\ left'[j] = SubSeq(Postings(j, lower[j], end[j])', n + 1,
                                             Len(Postings(j, lower[j], end[j])'))
                        /\ \A d \in Doc : Value(d)' = Partial(Postings(j, lower[j], end[j])', n, d)
    BY <1>4, <2>9, Zenon DEF AccumulatorsInv, Partial
  <2>10. j = i
    BY <2>9
  <2>11. Postings(j, lower[j], end[j])' = P
    BY <2>6, <2>10
  <2> QED BY <2>7, <2>10, <2>11
<1>9. CountersInv'
  <2>1. ASSUME q.lazy, NEW d \in Doc PROVE counters'[d] <= m_counter'
    <3>1. counters[d] \in Nat /\ m_counter \in Nat
      BY SizesAssumption DEF TaatTypeOK
    <3>2. CASE Reset
      BY <1>1, <3>1, <3>2 DEF InitAccumulator, Zero
    <3>3. CASE ~Reset
      <4>1. m_counter # 0 /\ counters'[d] = counters[d]
        BY <2>1, <3>3 DEF Reset, InitAccumulator
      <4> QED BY <1>1, <1>6, <2>1, <3>1, <4>1
    <3> QED BY <3>2, <3>3
  <2> QED BY <1>1, <1>3, <1>4, <2>1 DEF CountersInv
<1>10. QueuesInv'
  <2>1. ASSUME NEW j \in Query, NEW d \in Doc, Finished(j, d)' PROVE Finished(j, d)
    BY <1>1, <1>3, <2>1 DEF Finished
  <2> QED BY <1>1, <1>3, <2>1, SameQueues DEF AloneInv
<1> QED BY <1>5, <1>8, <1>9, <1>10 DEF AloneInv

\* A posting is accumulated.
LEMMA AccumulateStep ==
  ASSUME TaatTypeOK, Alone, AloneInv, NEW i \in Query, Accumulate(i)
  PROVE  AloneInv'
<1>1. /\ q' = q /\ pc' = pc /\ lower' = lower /\ end' = end /\ docid' = docid
      /\ queue' = queue /\ m_counter' = m_counter
      /\ pc[i] = "accumulate" /\ left[i] # << >>
      /\ left' = [left EXCEPT ![i] = Tail(@)]
  BY DEF Accumulate
<1>2. \A j \in Query : j # i => pc[j] \in {"waiting", "done"}
  BY <1>1, RunningFacts DEF AloneInv
<1>3. /\ Query' = Query /\ \A j, d : Score(j, d)' = Score(j, d)
      /\ \A j, l, e : Postings(j, l, e)' = Postings(j, l, e)
  BY <1>1, SameQuery
<1>4. OneRuns'
  BY <1>1, <1>3 DEF OneRuns, Running, AloneInv
<1> DEFINE P == Postings(i, lower[i], end[i])
<1>5. P \in Seq(Hit)
  <2>1. lower[i] \in Nat /\ end[i] \in Nat
    BY SizesAssumption DEF TaatTypeOK
  <2> QED BY <2>1, PostingsFacts DEF TaatTypeOK
<1> HIDE DEF P
<1>6. PICK n \in 0..Len(P) : /\ left[i] = SubSeq(P, n + 1, Len(P))
                            /\ \A d \in Doc : Value(d) = Partial(P, n, d)
  BY <1>1 DEF AloneInv, AccumulatorsInv, P
<1>7. Len(P) \in Nat /\ n < Len(P) /\ n + 1 \in 0..Len(P) /\ n + 1 \in 1..Len(P) /\ n \in 0..Len(P)
  <2>1. n = Len(P) => SubSeq(P, n + 1, Len(P)) = << >>
    BY <1>5, <1>6
  <2>2. n # Len(P)
    BY <1>1, <1>6, <2>1
  <2> QED BY <1>5, <2>2
<1>8. Head(left[i]) = P[n + 1] /\ Tail(left[i]) = SubSeq(P, (n + 1) + 1, Len(P))
  BY <1>5, <1>6, <1>7
<1>9. PICK p \in Hit : p = P[n + 1]
  BY <1>5, <1>7
<1>10. p.docid \in Doc /\ p.score \in Nat /\ m_counter \in Nat
  <2>1. p.docid \in Doc /\ p.score \in Nat
    BY <1>9 DEF Hit
  <2>2. m_counter \in Nat
    BY SizesAssumption DEF TaatTypeOK
  <2> QED BY <2>1, <2>2
<1>11. /\ scores' = [scores EXCEPT ![p.docid] = IF Current(p.docid) THEN @ + p.score ELSE p.score]
       /\ counters' = [counters EXCEPT ![p.docid] = m_counter]
  BY <1>8, <1>9 DEF Accumulate, Accumulated
<1>12. ASSUME NEW d \in Doc
       PROVE  Value(d)' = Value(d) + (IF p.docid = d THEN p.score ELSE 0)
  <2>1. scores[d] \in Nat /\ scores \in [Doc -> Nat] /\ counters \in [Doc -> Nat]
    BY DEF TaatTypeOK
  <2>2. CASE p.docid = d
    <3>1. Current(d)' /\ scores'[d] = IF Current(d) THEN scores[d] + p.score ELSE p.score
      BY <1>1, <1>11, <2>1, <2>2 DEF Current
    <3> QED BY <1>10, <2>1, <2>2, <3>1 DEF Value
  <2>3. CASE p.docid # d
    <3>1. counters'[d] = counters[d] /\ scores'[d] = scores[d]
      BY <1>11, <2>1, <2>3
    <3> QED BY <1>1, <2>1, <2>3, <3>1 DEF Value, Current
  <2> QED BY <2>2, <2>3
<1>13. ASSUME NEW d \in Doc
       PROVE  Partial(P, n + 1, d) = Partial(P, n, d) + (IF p.docid = d THEN p.score ELSE 0)
  <2> DEFINE f == [k \in 1..Len(P) |-> IF P[k].docid = d THEN P[k].score ELSE 0]
  <2>1. \A k \in 1..Len(P) : P[k] \in Hit
    BY <1>5
  <2>2. \A k \in 1..Len(P) : f[k] \in Nat
    BY <2>1 DEF Hit
  <2>3. f[n + 1] = IF p.docid = d THEN p.score ELSE 0
    BY <1>7, <1>9
  <2> HIDE DEF f
  <2>4. SumFunctionOnSet(f, 1..(n + 1)) = SumFunctionOnSet(f, 1..n) + f[n + 1]
    BY <1>7, <2>2, SumOfFirst
  <2> QED BY <2>3, <2>4 DEF Partial, f
<1>14. AccumulatorsInv'
  <2>1. left'[i] = SubSeq(P, (n + 1) + 1, Len(P))
    BY <1>1, <1>8 DEF TaatTypeOK
  <2>2. \A d \in Doc : Value(d)' = Partial(P, n + 1, d)
    BY <1>6, <1>12, <1>13
  <2>3. \E m \in 0..Len(P) : /\ left'[i] = SubSeq(P, m + 1, Len(P))
                             /\ \A d \in Doc : Value(d)' = Partial(P, m, d)
    BY <1>7, <2>1, <2>2
  <2>4. Postings(i, lower[i], end[i])' = P
    BY <1>1 DEF P, Postings
  <2>5. \A j \in Query : j # i => pc'[j] \notin {"accumulate", "aggregate"}
    BY <1>1, <1>2
  <2>6. Query' = Query /\ pc'[i] = "accumulate"
    BY <1>1, <1>3
  <2> QED BY <2>3, <2>4, <2>5, <2>6 DEF AccumulatorsInv
<1>15. CountersInv'
  <2>1. ASSUME q.lazy, NEW d \in Doc PROVE counters'[d] <= m_counter'
    <3>1. counters[d] \in Nat /\ counters[d] <= m_counter /\ counters \in [Doc -> Nat]
      BY <1>1, <2>1 DEF AloneInv, CountersInv, TaatTypeOK
    <3> QED BY <1>1, <1>10, <1>11, <3>1
  <2> QED BY <1>1, <1>3, <2>1 DEF CountersInv
<1>16. QueuesInv'
  <2>1. ASSUME NEW j \in Query, NEW d \in Doc, Finished(j, d)' PROVE Finished(j, d)
    BY <1>1, <2>1 DEF Finished
  <2> QED BY <1>1, <2>1, SameQueues DEF AloneInv
<1> QED BY <1>4, <1>14, <1>15, <1>16 DEF AloneInv

\* All postings of a range are accumulated.
LEMMA StartAggregateStep ==
  ASSUME TaatTypeOK, Alone, AloneInv, NEW i \in Query, StartAggregate(i)
  PROVE  AloneInv'
<1>1. /\ q' = q /\ lower' = lower /\ end' = end /\ left' = left /\ queue' = queue
      /\ UNCHANGED accumulatorVars
      /\ pc[i] = "accumulate" /\ left[i] = << >>
      /\ pc' = [pc EXCEPT ![i] = "aggregate"] /\ docid' = [docid EXCEPT ![i] = 0]
  BY DEF StartAggregate
<1>2. \A j \in Query : j # i => pc[j] \in {"waiting", "done"}
  BY <1>1, RunningFacts DEF AloneInv
<1>3. /\ pc'[i] = "aggregate" /\ docid'[i] = 0
      /\ \A j \in Query : j # i => pc'[j] = pc[j] /\ docid'[j] = docid[j]
  BY <1>1 DEF TaatTypeOK
<1>4. Query' = Query /\ \A j, d : Score(j, d)' = Score(j, d)
  BY <1>1, SameQuery
<1>5. OneRuns'
  BY <1>1, <1>2, <1>3, <1>4 DEF OneRuns, Running, AloneInv
<1>6. AccumulatorsInv'
  <2> DEFINE P == Postings(i, lower[i], end[i])
  <2>1. /\ P \in Seq(Hit)
        /\ \A d \in Doc : Partial(P, Len(P), d)
                           = IF lower[i] <= d /\ d < end[i] THEN Score(i, d) ELSE 0
    <3>1. lower[i] \in Nat /\ end[i] \in Nat
      BY SizesAssumption DEF TaatTypeOK
    <3> QED BY <3>1, PostingsFacts DEF TaatTypeOK
  <2>2. PICK n \in 0..Len(P) : /\ left[i] = SubSeq(P, n + 1, Len(P))
                              /\ \A d \in Doc : Value(d) = Partial(P, n, d)
    BY <1>1 DEF AloneInv, AccumulatorsInv
  <2> HIDE DEF P
  <2>3. n = Len(P)
    <3>1. n < Len(P) => Len(SubSeq(P, n + 1, Len(P))) = Len(P) - n
      BY <2>1, <2>2
    <3>2. Len(<< >>) = 0 /\ Len(P) \in Nat
      BY <2>1
    <3> QED BY <1>1, <2>2, <3>1, <3>2
  <2>4. \A d \in Doc : Value(d)' = IF lower[i] <= d /\ d < end[i] THEN Score(i, d) ELSE 0
    BY <1>1, <2>1, <2>2, <2>3, SameValues
  <2>5. \A j \in Query : j # i => pc'[j] \notin {"accumulate", "aggregate"}
    BY <1>2, <1>3
  <2> QED BY <1>1, <1>3, <1>4, <2>4, <2>5 DEF AccumulatorsInv
<1>7. CountersInv'
  <2>1. q.lazy => \A d \in Doc : counters[d] <= m_counter
    BY <1>1 DEF AloneInv, CountersInv
  <2>2. q'.lazy => \A d \in Doc : counters'[d] <= m_counter'
    BY <1>1, <2>1 DEF accumulatorVars
  <2> QED BY <1>3, <1>4, <2>2 DEF CountersInv
<1>8. QueuesInv'
  <2>1. ASSUME NEW j \in Query, NEW d \in Doc, Finished(j, d)' PROVE Finished(j, d)
    BY <1>1, <1>3, <2>1, SizesAssumption DEF Finished, Doc
  <2> QED BY <1>1, <1>3, <2>1, SameQueues DEF AloneInv
<1> QED BY <1>5, <1>6, <1>7, <1>8 DEF AloneInv

\* A document is looked at.
LEMMA AggregateStep ==
  ASSUME TaatTypeOK, Alone, AloneInv, NEW i \in Query, Aggregate(i)
  PROVE  AloneInv'
<1> DEFINE d == docid[i]
           hit == [docid |-> d, score |-> scores[d]]
<1>1. /\ q' = q /\ pc' = pc /\ lower' = lower /\ end' = end /\ left' = left
      /\ UNCHANGED accumulatorVars
      /\ pc[i] = "aggregate" /\ docid[i] < max_docid
      /\ docid' = [docid EXCEPT ![i] = @ + 1]
      /\ IF Current(d) THEN \E qu \in Inserted(queue[i], hit) : queue' = [queue EXCEPT ![i] = qu]
                       ELSE queue' = queue
  BY DEF Aggregate
<1>2. \A j \in Query : j # i => pc[j] \in {"waiting", "done"}
  BY <1>1, RunningFacts DEF AloneInv
<1>3. docid'[i] = docid[i] + 1 /\ \A j \in Query : j # i => docid'[j] = docid[j] /\ queue'[j] = queue[j]
  BY <1>1 DEF TaatTypeOK
<1>4. Query' = Query /\ \A j, c : Score(j, c)' = Score(j, c)
  BY <1>1, SameQuery
<1>5. OneRuns'
  BY <1>1, <1>4 DEF OneRuns, Running, AloneInv
<1>6. \A c : Value(c)' = Value(c)
  BY <1>1, SameValues
<1>7. AccumulatorsInv'
  <2>1. \A j \in Query : pc[j] # "accumulate"
    BY <1>1, <1>2
  <2>2. \A c \in Doc : Value(c) = IF lower[i] <= c /\ c < end[i] THEN Score(i, c) ELSE 0
    BY <1>1 DEF AloneInv, AccumulatorsInv
  <2>3. \A j \in Query : j # i => pc'[j] \notin {"accumulate", "aggregate"}
    BY <1>1, <1>2
  <2>4. pc'[i] = "aggregate"
    BY <1>1
  <2> QED BY <1>1, <1>4, <1>6, <2>2, <2>3, <2>4 DEF AccumulatorsInv
<1>8. CountersInv'
  <2>1. counters' = counters /\ m_counter' = m_counter
    BY <1>1 DEF accumulatorVars
  <2> QED BY <1>1, <1>4, <2>1 DEF AloneInv, CountersInv
<1>9. QueuesInv'
  <2> SUFFICES ASSUME q.client # "queries", NEW j \in Query, pc'[j] # "waiting"
               PROVE  /\ queue'[j].sorted => pc'[j] = "done"
                      /\ \A e \in queue'[j].heap :
                           e.score = Score(j, e.docid) /\ e.score >= queue'[j].threshold
                      /\ \A c \in Doc : Finished(j, c)' =>
                           \/ [docid |-> c, score |-> Score(j, c)] \in queue'[j].heap
                           \/ Score(j, c) <= queue'[j].threshold
    BY <1>1, <1>4 DEF QueuesInv
  <2>1. /\ queue[j].sorted => pc[j] = "done"
        /\ \A e \in queue[j].heap :
             e.score = Score(j, e.docid) /\ e.score >= queue[j].threshold
        /\ \A c \in Doc : Finished(j, c) =>
             \/ [docid |-> c, score |-> Score(j, c)] \in queue[j].heap
             \/ Score(j, c) <= queue[j].threshold
    BY <1>1 DEF AloneInv, QueuesInv
  <2>2. CASE j # i
    <3>1. queue'[j] = queue[j] /\ \A c \in Doc : Finished(j, c)' = Finished(j, c)
      BY <1>1, <1>3, <2>2 DEF Finished
    <3> QED BY <1>1, <2>1, <3>1
  <2>3. CASE j = i
    <3>1. d \in Doc /\ scores[d] \in Nat /\ hit \in Hit /\ queue[i] \in Queues
      <4>1. d \in Doc
        BY <1>1, SizesAssumption DEF TaatTypeOK, Doc
      <4> QED BY <4>1 DEF TaatTypeOK, Hit
    <3>2. Value(d) = IF lower[i] <= d /\ d < end[i] THEN Score(i, d) ELSE 0
      BY <1>1, <3>1 DEF AloneInv, AccumulatorsInv
    <3>3. \A c \in Doc : Finished(i, c)' => Finished(i, c) \/ (c = d /\ lower[i] <= d /\ d < end[i])
      <4> SUFFICES ASSUME NEW c \in Doc, Finished(i, c)', ~Finished(i, c)
                   PROVE  c = d /\ lower[i] <= d /\ d < end[i]
        OBVIOUS
      <4>1. ~(c < lower[i]) /\ c < end[i] /\ c < docid[i] + 1 /\ ~(c < docid[i])
        BY <1>1, <1>3 DEF Finished
      <4>2. c \in Int /\ docid[i] \in Int /\ lower[i] \in Int
        BY SizesAssumption DEF TaatTypeOK, Doc
      <4>3. c = docid[i]
        BY <4>1, <4>2
      <4> QED BY <4>1, <4>2, <4>3
    <3>4. Score(i, d) \in Nat /\ queue[i].threshold \in Nat
      BY <3>1, ScoreIsSum DEF TaatTypeOK, Queues
    <3>5. CASE ~(Current(d) /\ lower[i] <= d /\ d < end[i])
      <4>1. queue'[i] = queue[i]
        <5>1. CASE ~Current(d)
          BY <1>1, <5>1
        <5>2. CASE Current(d)
          <6>1. scores[d] <= queue[i].threshold
            BY <3>2, <3>4, <3>5, <5>2 DEF Value
          <6>2. Inserted(queue[i], hit) = {queue[i]}
            BY <6>1 DEF Inserted
          <6>3. queue' = [queue EXCEPT ![i] = queue[i]]
            BY <1>1, <5>2, <6>2
          <6> QED BY <6>3 DEF TaatTypeOK
        <5> QED BY <5>1, <5>2
      <4>2. lower[i] <= d /\ d < end[i] => Score(i, d) <= queue[i].threshold
        <5>1. ASSUME lower[i] <= d, d < end[i] PROVE Score(i, d) <= queue[i].threshold
          <6>1. Score(i, d) = 0
            BY <3>2, <3>5, <5>1 DEF Value
          <6> QED BY <3>4, <6>1
        <5> QED BY <5>1
      <4> QED BY <1>1, <2>1, <2>3, <3>3, <4>1, <4>2
    <3>6. CASE Current(d) /\ lower[i] <= d /\ d < end[i]
      <4>1. PICK qu \in Inserted(queue[i], hit) : queue' = [queue EXCEPT ![i] = qu]
        BY <1>1, <3>6
      <4>2. queue'[i] = qu
        BY <4>1 DEF TaatTypeOK
      <4>3. ~queue[i].sorted
        BY <1>1, <2>1, <2>3
      <4>4. \A f \in queue[i].heap : f.score >= queue[i].threshold
        BY <2>1, <2>3
      <4>5. hit = [docid |-> d, score |-> Score(i, d)]
        BY <3>2, <3>6 DEF Value
      <4> HIDE DEF hit
      <4>6. /\ qu \in Queues /\ ~qu.sorted
            /\ qu.threshold >= queue[i].threshold
            /\ qu.heap \subseteq queue[i].heap \cup {hit}
            /\ \A f \in qu.heap : f.score >= qu.threshold
            /\ \A f \in queue[i].heap \cup {hit} : f \in qu.heap \/ f.score <= qu.threshold
        BY <3>1, <4>1, <4>3, <4>4, InsertedFacts
      <4>7. qu.threshold \in Nat
        BY <4>6 DEF Queues
      <4>8. \A e \in qu.heap : e.score = Score(i, e.docid)
        BY <2>1, <2>3, <4>5, <4>6
      <4>9. ASSUME NEW c \in Doc, Finished(i, c)'
            PROVE  \/ [docid |-> c, score |-> Score(i, c)] \in qu.heap
                   \/ Score(i, c) <= qu.threshold
        <5>1. CASE c = d
          BY <4>5, <4>6, <5>1
        <5>2. CASE c # d
          <6> DEFINE r == [docid |-> c, score |-> Score(i, c)]
          <6>1. r \in queue[i].heap \/ Score(i, c) <= queue[i].threshold
            BY <2>1, <2>3, <3>3, <4>9, <5>2
          <6>2. CASE r \in queue[i].heap
            <7>1. r \in qu.heap \/ r.score <= qu.threshold
              <8> HIDE DEF r
              <8> QED BY <4>6, <6>2
            <7> QED BY <7>1
          <6>3. CASE Score(i, c) <= queue[i].threshold
            <7>1. Score(i, c) \in Nat
              BY ScoreIsSum DEF TaatTypeOK
            <7> QED BY <3>4, <4>6, <4>7, <6>3, <7>1
          <6> QED BY <6>1, <6>2, <6>3
        <5> QED BY <5>1, <5>2
      <4> QED BY <1>1, <2>3, <4>2, <4>6, <4>8, <4>9
    <3> QED BY <3>5, <3>6
  <2> QED BY <2>2, <2>3
<1> QED BY <1>5, <1>7, <1>8, <1>9 DEF AloneInv

\* A range ends: the query goes on to the next one or is done.
LEMMA EndAggregateStep ==
  ASSUME TaatTypeOK, Alone, AloneInv, NEW i \in Query, EndAggregate(i)
  PROVE  AloneInv'
<1>1. /\ q' = q /\ left' = left /\ docid' = docid /\ scores' = scores /\ counters' = counters
      /\ pc[i] = "aggregate" /\ docid[i] = max_docid
      /\ m_counter' = IF q.lazy THEN (m_counter + 1) % cycle ELSE m_counter
      /\ \/ /\ end[i] < max_docid /\ pc' = [pc EXCEPT ![i] = "init"]
            /\ lower' = [lower EXCEPT ![i] = end[i]] /\ end' = [end EXCEPT ![i] = NextEnd(@)]
            /\ queue' = queue
         \/ /\ ~(end[i] < max_docid) /\ pc' = [pc EXCEPT ![i] = "done"]
            /\ queue' = [queue EXCEPT ![i].sorted = TRUE]
            /\ lower' = lower /\ end' = end
  BY DEF EndAggregate
<1>2. \A j \in Query : j # i => pc[j] \in {"waiting", "done"}
  BY <1>1, RunningFacts DEF AloneInv
<1>3. /\ pc'[i] \in {"init", "done"} /\ \A j \in Query : j # i => pc'[j] = pc[j]
      /\ \A j \in Query : j # i => lower'[j] = lower[j] /\ end'[j] = end[j] /\ queue'[j] = queue[j]
  BY <1>1 DEF TaatTypeOK
<1>4. Query' = Query /\ \A j, d : Score(j, d)' = Score(j, d)
  BY <1>1, SameQuery
<1>5. \A j \in Query : pc'[j] \notin {"accumulate", "aggregate"}
  BY <1>2, <1>3
<1>6. OneRuns'
  <2>1. \A j, k \in Query : pc'[j] \notin {"waiting", "done"} /\ pc'[k] \notin {"waiting", "done"} => j = k
    BY <1>2, <1>3
  <2>2. \A j \in Query : pc'[j] = "waiting" => lower'[j] = 0
    BY <1>3 DEF AloneInv, OneRuns
  <2> QED BY <1>4, <2>1, <2>2 DEF OneRuns, Running
<1>7. AccumulatorsInv'
  BY <1>4, <1>5 DEF AccumulatorsInv
<1>8. CountersInv'
  <2>1. ASSUME q.lazy, m_counter' # 0, NEW d \in Doc PROVE counters'[d] < m_counter'
    <3>1. counters[d] <= m_counter /\ counters[d] \in Nat /\ m_counter \in Nat
      <4>1. counters[d] <= m_counter
        BY <1>1, <2>1 DEF AloneInv, CountersInv
      <4>2. counters[d] \in Nat
        BY <2>1 DEF TaatTypeOK
      <4>3. m_counter \in Nat
        BY SizesAssumption DEF TaatTypeOK
      <4> QED BY <4>1, <4>2, <4>3
    <3>2. m_counter' = m_counter + 1
      BY <1>1, <2>1, NextCounter DEF TaatTypeOK
    <3> QED BY <1>1, <3>1, <3>2
  <2> QED BY <1>1, <1>4, <1>5, <2>1 DEF CountersInv
<1>9. QueuesInv'
  <2> SUFFICES ASSUME q.client # "queries", NEW j \in Query, pc'[j] # "waiting"
               PROVE  /\ queue'[j].sorted => pc'[j] = "done"
                      /\ \A e \in queue'[j].heap :
                           e.score = Score(j, e.docid) /\ e.score >= queue'[j].threshold
                      /\ \A c \in Doc : Finished(j, c)' =>
                           \/ [docid |-> c, score |-> Score(j, c)] \in queue'[j].heap
                           \/ Score(j, c) <= queue'[j].threshold
    BY <1>1, <1>4 DEF QueuesInv
  <2>1. /\ queue[j].sorted => pc[j] = "done"
        /\ \A e \in queue[j].heap :
             e.score = Score(j, e.docid) /\ e.score >= queue[j].threshold
        /\ \A c \in Doc : Finished(j, c) =>
             \/ [docid |-> c, score |-> Score(j, c)] \in queue[j].heap
             \/ Score(j, c) <= queue[j].threshold
    BY <1>1, <1>2, <1>3 DEF AloneInv, QueuesInv
  <2>2. CASE j # i
    <3>1. queue'[j] = queue[j] /\ pc'[j] = pc[j]
      BY <1>3, <2>2
    <3>2. \A c \in Doc : Finished(j, c)' = Finished(j, c)
      BY <1>1, <1>3, <2>2, <3>1 DEF Finished
    <3> QED BY <2>1, <3>1, <3>2
  <2>3. CASE j = i
    <3>1. \A c \in Doc : c < docid[i] /\ c \in Int
      BY <1>1, SizesAssumption DEF Doc
    <3>2. end[i] \in 0..max_docid /\ max_docid \in Nat
      BY SizesAssumption DEF TaatTypeOK
    <3>3. \A c \in Doc : Finished(i, c)' => Finished(i, c)
      <4>1. \A c \in Doc : c < end[i] => Finished(i, c)
        BY <1>1, <3>1 DEF Finished
      <4>2. CASE end[i] < max_docid
        <5>1. pc'[i] = "init" /\ lower'[i] = end[i]
          BY <1>1, <4>2 DEF TaatTypeOK
        <5> QED BY <4>1, <5>1 DEF Finished
      <4>3. CASE ~(end[i] < max_docid)
        <5>1. \A c \in Doc : c < end[i]
          BY <3>2, <4>3, SizesAssumption DEF Doc
        <5> QED BY <4>1, <5>1
      <4> QED BY <4>2, <4>3
    <3>4. /\ queue'[i].heap = queue[i].heap /\ queue'[i].threshold = queue[i].threshold
          /\ queue'[i].sorted => pc'[i] = "done"
      <4>1. CASE end[i] < max_docid
        BY <1>1, <2>1, <2>3, <4>1
      <4>2. CASE ~(end[i] < max_docid)
        <5>1. PICK qu \in Queues : qu = queue[i]
          BY DEF TaatTypeOK
        <5>2. queue'[i] = [qu EXCEPT !.sorted = TRUE] /\ pc'[i] = "done"
          BY <1>1, <4>2, <5>1 DEF TaatTypeOK
        <5>3. [qu EXCEPT !.sorted = TRUE].heap = qu.heap /\ [qu EXCEPT !.sorted = TRUE].threshold = qu.threshold
          BY DEF Queues
        <5> QED BY <5>1, <5>2, <5>3
      <4> QED BY <4>1, <4>2
    <3> QED BY <2>1, <2>3, <3>3, <3>4
  <2> QED BY <2>2, <2>3
<1> QED BY <1>6, <1>7, <1>8, <1>9 DEF AloneInv

-----------------------------------------------------------------------------
(* The theorems.                                                            *)

\* Nothing runs at first, and nothing was accumulated.
LEMMA TaatInit == Init => TaatInv
<1> SUFFICES ASSUME Init PROVE TaatInv
  OBVIOUS
<1>1. q \in Inputs /\ 0 \in 0..max_docid /\ 0 \in 0..(cycle - 1) /\ Zero \in [Doc -> Nat]
  BY SizesAssumption DEF Init, Zero
<1>2. EmptyQueue \in Queues /\ << >> \in Seq(Hit) /\ NextEnd(0) \in 0..max_docid
  BY <1>1, NextEndType DEF EmptyQueue, Queues
<1>3. TaatTypeOK
  BY <1>1, <1>2 DEF Init, TaatTypeOK
<1>4. \A i \in Query : pc[i] = "waiting" /\ lower[i] = 0
  BY DEF Init
<1>5. AloneInv
  BY <1>4 DEF Init, AloneInv, OneRuns, Running, AccumulatorsInv, CountersInv, QueuesInv
<1> QED BY <1>3, <1>5 DEF TaatInv

\* The accumulators are right, and the queues, when queries run one at a time.
LEMMA TaatStep == TaatInv /\ [Next]_vars => TaatInv'
<1> SUFFICES ASSUME TaatInv, [Next]_vars PROVE TaatInv'
  OBVIOUS
<1>1. TaatTypeOK'
  BY TypeStep DEF TaatInv
<1>2. ASSUME Alone' PROVE AloneInv'
  <2>1. q' = q
    BY DEF Next, Done, vars, StartQuery, InitAccumulator, Accumulate, StartAggregate, Aggregate,
           EndAggregate
  <2>2. TaatTypeOK /\ Alone /\ AloneInv
    BY <1>2, <2>1 DEF TaatInv, Alone
  <2>3. CASE UNCHANGED vars
    <3>1. UNCHANGED <<q, pc, lower, end, left, docid, queue, scores, counters, m_counter>>
      BY <2>3 DEF vars, queryVars, accumulatorVars
    <3>2. /\ Query' = Query /\ \A j, d : Score(j, d)' = Score(j, d)
          /\ \A j, l, e : Postings(j, l, e)' = Postings(j, l, e)
          /\ \A d : Value(d)' = Value(d)
      BY <2>1, <3>1, SameQuery, SameValues DEF accumulatorVars
    <3>3. OneRuns' /\ CountersInv'
      BY <2>2, <3>1, <3>2 DEF AloneInv, OneRuns, Running, CountersInv
    <3>4. QueuesInv'
      BY <2>2, <3>1, SameQueues DEF AloneInv, Finished
    <3>5. AccumulatorsInv'
      BY <2>2, <3>1, <3>2 DEF AloneInv, AccumulatorsInv
    <3> QED BY <3>3, <3>4, <3>5 DEF AloneInv
  <2> QED
    BY <2>2, <2>3, StartQueryStep, InitAccumulatorStep, AccumulateStep, StartAggregateStep,
       AggregateStep, EndAggregateStep DEF Next, Done
<1> QED BY <1>1, <1>2 DEF TaatInv

\* In every reachable state, whatever the number of queries, documents and
\* ranges and the size of the counters.
THEOREM TaatCorrect == Spec => []TaatInv
BY TaatInit, TaatStep, PTL DEF Spec

\* What the accumulators of earlier queries and ranges hold does not show: while
\* queries run one at a time, aggregate reads the scores of the one in hand.
THEOREM AccumulatorCorrect == Spec => [](Alone => AccumulatorHoldsScores)
<1>1. TaatInv => (Alone => AccumulatorHoldsScores)
  BY DEF TaatInv, AloneInv, AccumulatorsInv, AccumulatorHoldsScores, Value
<1> QED BY <1>1, TaatCorrect, PTL

\* A query with a queue of its own is answered with documents and their scores,
\* and leaves none out that scores above the threshold.
THEOREM TaatAnswersRanked == Spec => [](Alone => OwnQueueAnswer)
<1>1. TaatInv => (Alone => OwnQueueAnswer)
  BY DEF TaatInv, AloneInv, QueuesInv, OwnQueueAnswer, RankedAnswer, IsRanked, Finished
<1> QED BY <1>1, TaatCorrect, PTL
=============================================================================
