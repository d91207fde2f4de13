------------------------ MODULE WandDataBuilder_proofs ------------------------
(***************************************************************************)
(* What the construction of the wand data builds for every collection: the *)
(* blocks of the partition and a bound for every cluster a list is in.     *)
(*                                                                         *)
(* The loop of static_block_partition is described by what it has built    *)
(* from the first i postings of a list; a list that is finished keeps its  *)
(* place in the data, which is the number of lists kept up to it.          *)
(***************************************************************************)
EXTENDS WandDataBuilder, CommonFacts

-----------------------------------------------------------------------------
(* The inductive invariant.                                                 *)

\* What is pushed when a block or a range ends.
BlockEntry == [docid : Int, score : Nat]
RangeEntry == [id : Nat, score : Nat]

\* The cluster doc_to_range[d] gives for a document, in a map or added to it.
At(map, d) == IF d \in DOMAIN map THEN map[d] ELSE 0

\* Entry b of the blocks, when the list goes on after it.
FullBlock(l, size, b) ==
  [docid |-> l[b * size + 1].doc - 1,
   score |-> Max(ScoresIn(l, (b - 1) * size + 1, b * size))]

\* From the first k postings of l: bs are the blocks pushed, cb their number and
\* the one in hand, mx its maximum.
BlocksSoFar(l, size, k, bs, cb, mx) ==
  /\ cb \in Nat
  /\ bs = [b \in 1..cb |-> FullBlock(l, size, b)]
  /\ k = 0 => cb = 0 /\ mx = 0
  /\ k # 0 => /\ cb * size < k /\ k <= cb * size + size
              /\ mx = Max(ScoresIn(l, cb * size + 1, k))

\* An entry of rs bounds posting p of the cluster map gives it, and a search for
\* that cluster finds it.
Bounded(map, rs, p) ==
  \E e \in 1..Len(rs) : /\ rs[e].id = map[p.doc] /\ p.score <= rs[e].score
                        /\ \A f \in 1..(e - 1) : rs[f].id < rs[e].id

\* Score s of cluster id is that of one of the first k postings, if it is not 0.
Attained(map, l, k, id, s) ==
  s > 0 => \E j \in 1..k : l[j].score = s /\ At(map, l[j].doc) = id

\* From the first k postings of l: rs are the ranges pushed, cur the one in hand
\* and mx its maximum.
RangesSoFar(map, l, k, rs, cur, mx) ==
  /\ rs \in Seq(RangeEntry) /\ cur \in Nat /\ mx \in Nat
  /\ k = 0 => rs = <<>> /\ mx = 0 /\ cur = At(map, l[1].doc)
  /\ k # 0 => cur = At(map, l[k].doc)
  /\ k # 0 /\ l[k].doc \in DOMAIN map => \A e \in 1..Len(rs) : rs[e].id < cur
  /\ \A j \in 1..k : l[j].doc \in DOMAIN map =>
       \/ Bounded(map, rs, l[j])
       \/ /\ map[l[j].doc] = cur /\ l[j].score <= mx
          /\ \A e \in 1..Len(rs) : rs[e].id < cur
  /\ \A e \in 1..Len(rs) : Attained(map, l, k, rs[e].id, rs[e].score)
  /\ Attained(map, l, k, cur, mx)

\* The ranges of a finished list.
RangesBuilt(map, l, rs) ==
  /\ rs \in Seq(RangeEntry) /\ rs # <<>>
  /\ \A j \in 1..Len(l) : l[j].doc \in DOMAIN map => Bounded(map, rs, l[j])
  /\ \A e \in 1..Len(rs) : Attained(map, l, Len(l), rs[e].id, rs[e].score)

\* m is the highest score of list l.
IsHighest(l, m) ==
  /\ m \in Nat
  /\ \A j \in 1..Len(l) : l[j].score <= m
  /\ \E j \in 1..Len(l) : l[j].score = m

BuilderTypeOK ==
  /\ input \in Inputs
  /\ pc \in {"list", "posting", "built", "exit"}
  /\ term \in 1..(Len(input.coll) + 1)
  /\ i \in Nat
  /\ pc # "built" => /\ blocks \in Seq(Seq(BlockEntry))
                     /\ ranges \in Seq(Seq(RangeEntry))
                     /\ max_term_weight \in Seq(Nat)

ClusterMap == DocToRange(input.clusters)

\* Entries added to the map of clusters are the 0 a missing one is read as.
MapInv ==
  /\ DOMAIN ClusterMap \subseteq DOMAIN doc_to_range
  /\ \A d \in DOMAIN doc_to_range : doc_to_range[d] = At(ClusterMap, d)

\* How many lists are kept before a place.
Done(n) == Cardinality({u \in Kept : u < n})

\* The lists the data has are those kept before the one in hand, and that one.
PlacesInv ==
  IF pc = "built"
    THEN term = Len(input.coll) + 1
    ELSE LET all == IF pc = "posting" THEN Done(term) + 1 ELSE Done(term)
         IN /\ Len(max_term_weight) = Done(term)
            /\ Len(blocks) = all /\ Len(ranges) = all

\* The list in hand, whose blocks and ranges are the last ones.
LoopInv ==
  pc = "posting" =>
    /\ term \in Kept
    /\ i <= Len(List)
    /\ BlocksSoFar(List, input.block_size, i, blocks[Len(blocks)],
                   current_block, block_max_score)
    /\ RangesSoFar(ClusterMap, List, i, ranges[Len(ranges)],
                   current_range, range_max_score)

\* The lists before it, until the scores are quantized.
ListsInv ==
  \A t \in Kept : t < term =>
    LET k == Place(input, t)
    IN /\ RangesBuilt(ClusterMap, input.coll[t], ranges[k])
       /\ pc # "built" => /\ blocks[k] = Blocks(input.coll[t], input.block_size)
                          /\ IsHighest(input.coll[t], max_term_weight[k])

Quantized(score) == Quantize(score, HighestScore, input.steps)

\* What the format stores for a score.
Stored(score) ==
  CASE input.format = "compressed" -> Quantized(score) - 1
    [] input.format = "raw" /\ input.is_quantized -> Quantized(score)
    [] OTHER -> score

\* The data that was built.
BuiltInv ==
  pc = "built" =>
    \A t \in Kept :
      LET k == Place(input, t)
          bs == Blocks(input.coll[t], input.block_size)
      IN /\ blocks[k] = [b \in 1..Len(bs) |-> [docid |-> bs[b].docid,
                                              score |-> Stored(bs[b].score)]]
         /\ \E m \in {p.score : p \in Range(input.coll[t])} :
              /\ IsHighest(input.coll[t], m)
              /\ max_term_weight[k] = IF input.is_quantized THEN Quantized(m) ELSE m

DataInv ==
  /\ BuilderTypeOK
  /\ MapInv
  /\ PlacesInv
  /\ LoopInv
  /\ ListsInv
  /\ BuiltInv

-----------------------------------------------------------------------------
(* One posting list.                                                        *)

\* A posting list as the inputs have it.
IsList(l) == l \in Seq(Posting) /\ IsPostingList(l)

\* The places and the numbers of a list.
LEMMA ListFacts ==
  ASSUME NEW l, IsList(l)
  PROVE  /\ Len(l) \in Nat \ {0} /\ DOMAIN l = 1..Len(l)
         /\ \A j \in 1..Len(l) : l[j].doc \in Nat /\ l[j].score \in Nat
         /\ \A j, k \in 1..Len(l) : j < k => l[j].doc < l[k].doc
<1>1. l \in Seq(Posting) /\ l # <<>>
  BY DEF IsList, IsPostingList
<1>2. Len(l) \in Nat /\ DOMAIN l = 1..Len(l) /\ Len(l) # 0
  BY <1>1, LenProperties, EmptySeq
<1>3. \A j \in 1..Len(l) : l[j] \in Posting
  BY <1>1, <1>2, ElementOfSeq
<1>4. \A j \in 1..Len(l) : l[j].doc \in Nat /\ l[j].score \in Nat
  BY <1>3 DEF Posting
<1>5. \A j, k \in 1..Len(l) : j < k => l[j].doc < l[k].doc
  BY <1>2 DEF IsList, IsPostingList
<1> QED BY <1>2, <1>4, <1>5

\* Max2 of two numbers is the greater one.
LEMMA GreaterOfTwo ==
  ASSUME NEW a \in Nat, NEW b \in Nat
  PROVE  /\ Max2(a, b) \in Nat /\ a <= Max2(a, b) /\ b <= Max2(a, b)
         /\ Max2(a, b) = a \/ Max2(a, b) = b
BY DEF Max2

\* A number that bounds a set of numbers from within is its maximum.
LEMMA MaxIs ==
  ASSUME NEW S \in SUBSET Int, NEW m \in S, \A n \in S : n <= m
  PROVE  Max(S) = m
<1>1. \E n \in S : \A k \in S : n >= k
  OBVIOUS
<1>2. Max(S) \in S /\ \A k \in S : Max(S) >= k
  BY <1>1 DEF Max
<1>3. Max(S) \in Int /\ m \in Int /\ Max(S) <= m /\ Max(S) >= m
  BY <1>2
<1> QED BY <1>3

\* The running maximum of the scores of a list from a place on.
LEMMA RunningMax ==
  ASSUME NEW l, IsList(l), NEW from \in 1..Len(l), NEW k \in from..Len(l)
  PROVE  /\ Max(ScoresIn(l, from, k)) \in Nat
         /\ Max(ScoresIn(l, from, from)) = l[from].score
         /\ k + 1 <= Len(l) =>
              Max(ScoresIn(l, from, k + 1)) = Max2(Max(ScoresIn(l, from, k)), l[k + 1].score)
<1>1. /\ Len(l) \in Nat \ {0}
      /\ \A j \in 1..Len(l) : l[j].score \in Nat
  BY ListFacts
<1>2. \A m \in from..Len(l) :
        /\ ScoresIn(l, from, m) \in SUBSET Nat
        /\ IsFiniteSet(ScoresIn(l, from, m))
        /\ ScoresIn(l, from, m) # {}
  <2> SUFFICES ASSUME NEW m \in from..Len(l)
               PROVE  /\ ScoresIn(l, from, m) \in SUBSET Nat
                      /\ IsFiniteSet(ScoresIn(l, from, m))
                      /\ ScoresIn(l, from, m) # {}
    OBVIOUS
  <2> DEFINE f == [j \in from..m |-> l[j].score]
  <2>1. f \in Surjection(from..m, ScoresIn(l, from, m))
    BY DEF Surjection, ScoresIn
  <2>2. IsFiniteSet(from..m)
    BY <1>1, FS_Interval
  <2>3. IsFiniteSet(ScoresIn(l, from, m))
    <3> HIDE DEF f
    <3> QED BY <2>1, <2>2, FS_Surjection
  <2>4. \A j \in from..m : j \in 1..Len(l)
    BY <1>1
  <2>5. from \in from..m
    BY <1>1
  <2> QED BY <1>1, <2>3, <2>4, <2>5 DEF ScoresIn
<1>3. \A m \in from..Len(l) :
        /\ Max(ScoresIn(l, from, m)) \in ScoresIn(l, from, m)
        /\ \A s \in ScoresIn(l, from, m) : s <= Max(ScoresIn(l, from, m))
  <2>1. \A m \in from..Len(l) : ScoresIn(l, from, m) \in SUBSET Int
    BY <1>2
  <2> QED BY <1>2, <2>1, MaxOfFinite
<1>4. Max(ScoresIn(l, from, from)) = l[from].score
  <2>1. ScoresIn(l, from, from) = {l[from].score}
    BY <1>1 DEF ScoresIn
  <2>2. from \in from..Len(l)
    BY <1>1
  <2> QED BY <1>3, <2>1, <2>2
<1>5. ASSUME k + 1 <= Len(l)
      PROVE  Max(ScoresIn(l, from, k + 1)) = Max2(Max(ScoresIn(l, from, k)), l[k + 1].score)
  <2> DEFINE m == Max(ScoresIn(l, from, k))
             s == l[k + 1].score
  <2>1. ScoresIn(l, from, k + 1) = ScoresIn(l, from, k) \cup {s}
    BY <1>1, <1>5 DEF ScoresIn
  <2>2. m \in Nat /\ m \in ScoresIn(l, from, k) /\ \A n \in ScoresIn(l, from, k) : n <= m
    BY <1>2, <1>3
  <2>3. s \in Nat
    BY <1>1, <1>5
  <2>4. ScoresIn(l, from, k + 1) \in SUBSET Int
    BY <1>1, <1>2, <1>5
  <2> HIDE DEF m, s
  <2>5. Max2(m, s) \in ScoresIn(l, from, k + 1)
    BY <2>1, <2>2, <2>3, GreaterOfTwo
  <2>6. \A n \in ScoresIn(l, from, k + 1) : n <= Max2(m, s)
    <3>1. Max2(m, s) \in Nat /\ m <= Max2(m, s) /\ s <= Max2(m, s)
      BY <2>2, <2>3, GreaterOfTwo
    <3>2. \A n \in ScoresIn(l, from, k) : n \in Nat
      BY <1>2
    <3> QED BY <2>1, <2>2, <2>3, <3>1, <3>2
  <2>7. Max(ScoresIn(l, from, k + 1)) = Max2(m, s)
    BY <2>4, <2>5, <2>6, MaxIs
  <2> QED BY <2>7 DEF m, s
<1>6. Max(ScoresIn(l, from, k)) \in Nat
  BY <1>2, <1>3
<1> QED BY <1>4, <1>5, <1>6

\* A block is full when the next posting is in another one.
LEMMA BlockOfPosting ==
  ASSUME NEW size \in Nat \ {0}, NEW cb \in Nat, NEW k \in Nat \ {0},
         cb * size < k, k <= cb * size + size
  PROVE  /\ cb * size \in Nat /\ (cb + 1) * size = cb * size + size
         /\ k \div size = cb => k < cb * size + size
         /\ k \div size # cb => k = cb * size + size
<1>1. cb * size \in Nat
  OBVIOUS
<1>2. (cb + 1) * size = cb * size + size
  OBVIOUS
<1>3. PICK d \in Int : d = k \div size /\ d * size <= k /\ k < d * size + size
  <2>1. k \div size \in Int /\ (k \div size) * size <= k /\ k < (k \div size) * size + size
    BY SMT
  <2> QED BY <2>1
<1>4. ASSUME d # cb PROVE k = cb * size + size
  <2>1. ASSUME d < cb PROVE FALSE
    <3>1. (d + 1) * size <= cb * size /\ (d + 1) * size = d * size + size
      BY <2>1
    <3> QED BY <1>1, <1>3, <3>1
  <2>2. d >= cb + 1
    BY <1>4, <2>1
  <2>3. d * size >= (cb + 1) * size
    BY <2>2
  <2> QED BY <1>1, <1>2, <1>3, <2>3
<1> QED BY <1>1, <1>2, <1>3, <1>4

\* The posting that stays in the block in hand, and the one that opens the next.
LEMMA PostingBlock ==
  ASSUME NEW l, IsList(l), NEW size \in Nat \ {0}, NEW k \in 0..(Len(l) - 1),
         NEW bs, NEW cb, NEW mx, BlocksSoFar(l, size, k, bs, cb, mx)
  PROVE  /\ mx \in Nat
         /\ k = 0 \/ k \div size = cb =>
              BlocksSoFar(l, size, k + 1, bs, cb, Max2(mx, l[k + 1].score))
         /\ ~(k = 0 \/ k \div size = cb) =>
              BlocksSoFar(l, size, k + 1,
                          Append(bs, [docid |-> l[k + 1].doc - 1, score |-> mx]),
                          cb + 1, l[k + 1].score)
<1>1. /\ Len(l) \in Nat \ {0}
      /\ \A j \in 1..Len(l) : l[j].doc \in Nat /\ l[j].score \in Nat
  BY ListFacts
<1>2. /\ cb \in Nat /\ bs = [b \in 1..cb |-> FullBlock(l, size, b)]
      /\ k = 0 => cb = 0 /\ mx = 0
      /\ k # 0 => /\ cb * size < k /\ k <= cb * size + size
                  /\ mx = Max(ScoresIn(l, cb * size + 1, k))
  BY DEF BlocksSoFar
<1>3. k \in Nat /\ k + 1 \in 1..Len(l) /\ l[k + 1].score \in Nat
  BY <1>1
<1>4. CASE k = 0
  <2>1. cb = 0 /\ mx = 0 /\ cb * size = 0
    BY <1>2, <1>4
  <2>2. Max(ScoresIn(l, 1, 1)) = l[1].score
    <3>1. 1 \in 1..Len(l) /\ 1 \in 1..Len(l)
      BY <1>1
    <3> QED BY <3>1, RunningMax
  <2>3. Max2(mx, l[1].score) = l[1].score
    BY <1>3, <1>4, <2>1 DEF Max2
  <2>4. BlocksSoFar(l, size, 1, bs, cb, l[1].score)
    BY <1>2, <2>1, <2>2 DEF BlocksSoFar
  <2> QED BY <1>4, <2>1, <2>3, <2>4
<1>5. CASE k # 0
  <2> DEFINE from == cb * size + 1
  <2>1. /\ cb * size \in Nat /\ (cb + 1) * size = cb * size + size
        /\ k \div size = cb => k < cb * size + size
        /\ k \div size # cb => k = cb * size + size
    BY <1>2, <1>3, <1>5, BlockOfPosting
  <2>2. from \in 1..Len(l) /\ k \in from..Len(l) /\ k + 1 <= Len(l)
    BY <1>2, <1>3, <1>5, <2>1
  <2>3. /\ mx \in Nat
        /\ Max(ScoresIn(l, from, k + 1)) = Max2(mx, l[k + 1].score)
    <3> HIDE DEF from
    <3>1. mx = Max(ScoresIn(l, from, k))
      BY <1>2, <1>5 DEF from
    <3> QED BY <2>2, <3>1, RunningMax
  <2>4. CASE k \div size = cb
    <3>1. k + 1 # 0 /\ cb * size < k + 1 /\ k + 1 <= cb * size + size
      BY <1>2, <1>3, <1>5, <2>1, <2>4
    <3>2. BlocksSoFar(l, size, k + 1, bs, cb, Max2(mx, l[k + 1].score))
      BY <1>2, <2>3, <3>1 DEF BlocksSoFar
    <3> QED BY <1>5, <2>3, <2>4, <3>2
  <2>5. CASE k \div size # cb
    <3> DEFINE e == [docid |-> l[k + 1].doc - 1, score |-> mx]
    <3>1. k = cb * size + size /\ k = (cb + 1) * size
      BY <2>1, <2>5
    <3>2. e = FullBlock(l, size, cb + 1)
      <4>1. (cb + 1) - 1 = cb
        BY <1>2
      <4> QED BY <1>2, <1>5, <3>1, <4>1 DEF FullBlock
    <3>3. Append(bs, e) = [b \in 1..(cb + 1) |-> FullBlock(l, size, b)]
      <4> HIDE DEF e
      <4>1. Len(bs) = cb /\ Append(bs, e) = [b \in 1..(cb + 1) |-> IF b <= cb THEN bs[b] ELSE e]
        BY <1>2
      <4>2. \A b \in 1..(cb + 1) : (IF b <= cb THEN bs[b] ELSE e) = FullBlock(l, size, b)
        BY <1>2, <3>2
      <4> QED BY <4>1, <4>2
    <3>4. /\ (cb + 1) * size < k + 1 /\ k + 1 <= (cb + 1) * size + size
          /\ l[k + 1].score = Max(ScoresIn(l, (cb + 1) * size + 1, k + 1))
      <4>1. Max(ScoresIn(l, k + 1, k + 1)) = l[k + 1].score
        <5>1. k + 1 \in 1..Len(l) /\ k + 1 \in (k + 1)..Len(l)
          BY <1>1, <1>3
        <5>2. PICK f \in Nat : f = k + 1
          BY <1>3
        <5> QED BY <5>1, <5>2, RunningMax
      <4>2. (cb + 1) * size < k + 1 /\ k + 1 <= (cb + 1) * size + size
        BY <1>3, <3>1
      <4> QED BY <3>1, <4>1, <4>2
    <3>5. cb + 1 \in Nat /\ k + 1 # 0
      BY <1>2, <1>3
    <3> HIDE DEF e
    <3>6. BlocksSoFar(l, size, k + 1, Append(bs, e), cb + 1, l[k + 1].score)
      BY <3>3, <3>4, <3>5 DEF BlocksSoFar
    <3> QED BY <1>5, <2>3, <2>5, <3>6 DEF e
  <2> QED BY <2>4, <2>5
<1> QED BY <1>4, <1>5

\* The last block makes the blocks those of the partition.
LEMMA LastBlock ==
  ASSUME NEW l, IsList(l), NEW size \in Nat \ {0},
         NEW bs, NEW cb, NEW mx, BlocksSoFar(l, size, Len(l), bs, cb, mx)
  PROVE  /\ mx \in Nat
         /\ Append(bs, [docid |-> l[Len(l)].doc, score |-> mx]) = Blocks(l, size)
<1>1. PICK n \in Nat \ {0} : n = Len(l)
  BY ListFacts
<1>2. /\ cb \in Nat /\ bs = [b \in 1..cb |-> FullBlock(l, size, b)]
      /\ cb * size < n /\ n <= cb * size + size
      /\ mx = Max(ScoresIn(l, cb * size + 1, n))
  BY <1>1 DEF BlocksSoFar
<1>3. cb * size \in Nat
  BY <1>2
<1>4. (n + size - 1) \div size = cb + 1
  <2>1. PICK m \in Nat : m = n + size - 1
    OBVIOUS
  <2>2. PICK d \in Int : d = m \div size
    OBVIOUS
  <2>3. d * size <= m /\ m < d * size + size
    BY <2>2, SMT
  <2>4. PICK x \in Nat : x = cb * size
    BY <1>3
  <2>5. x + size <= m /\ m < x + size + size
    BY <1>2, <2>1, <2>4
  <2>6. ASSUME d <= cb PROVE FALSE
    <3>1. d * size <= x
      BY <1>2, <2>4, <2>6
    <3>2. PICK y \in Int : y = d * size
      BY <2>2
    <3> QED BY <2>3, <2>5, <3>1, <3>2
  <2>7. ASSUME d >= cb + 2 PROVE FALSE
    <3>1. (cb + 2) * size <= d * size /\ (cb + 2) * size = cb * size + size + size
      BY <1>2, <2>7
    <3>2. PICK y \in Int : y = d * size
      BY <2>2
    <3>3. x + size + size <= y
      BY <2>4, <3>1, <3>2
    <3> QED BY <2>3, <2>5, <3>2, <3>3
  <2> QED BY <1>2, <2>1, <2>2, <2>6, <2>7
<1> DEFINE e == [docid |-> l[n].doc, score |-> mx]
           entry(b) == [docid |-> IF b = cb + 1 THEN l[n].doc ELSE l[b * size + 1].doc - 1,
                        score |-> Max(ScoresIn(l, (b - 1) * size + 1,
                                               IF b = cb + 1 THEN n ELSE b * size))]
<1>5. Blocks(l, size) = [b \in 1..(cb + 1) |-> entry(b)]
  BY <1>1, <1>4 DEF Blocks
<1>6. Len(bs) = cb /\ Append(bs, e) = [b \in 1..(cb + 1) |-> IF b <= cb THEN bs[b] ELSE e]
  <2> HIDE DEF e
  <2> QED BY <1>2
<1>7. ASSUME NEW b \in 1..(cb + 1) PROVE (IF b <= cb THEN bs[b] ELSE e) = entry(b)
  <2>1. CASE b <= cb
    <3>1. b # cb + 1 /\ b \in 1..cb
      BY <1>2, <2>1
    <3> QED BY <1>2, <2>1, <3>1 DEF FullBlock
  <2>2. CASE ~(b <= cb)
    <3>1. b = cb + 1 /\ b - 1 = cb
      BY <1>2, <2>2
    <3> QED BY <1>2, <2>2, <3>1
  <2> QED BY <2>1, <2>2
<1>8. mx \in Nat
  <2>1. PICK f \in Nat : f = cb * size + 1
    BY <1>3
  <2>2. f \in 1..Len(l) /\ Len(l) \in f..Len(l)
    BY <1>1, <1>2, <1>3, <2>1
  <2>3. Max(ScoresIn(l, f, Len(l))) \in Nat
    BY <2>2, RunningMax
  <2> QED BY <1>1, <1>2, <2>1, <2>3
<1>9. Append(bs, e) = Blocks(l, size)
  <2> HIDE DEF e, entry
  <2> QED BY <1>5, <1>6, <1>7
<1> QED BY <1>1, <1>8, <1>9

\* A new cluster is that of a later document: the entries before stay below it.
LEMMA PostingRange ==
  ASSUME NEW l, IsList(l), NEW k \in 0..(Len(l) - 1), NEW ends \in Seq(Nat),
         NEW map, map = DocToRange(ends),
         NEW rs, NEW cur, NEW mx, RangesSoFar(map, l, k, rs, cur, mx),
         NEW p, p = l[k + 1]
  PROVE  /\ At(map, p.doc) = cur => RangesSoFar(map, l, k + 1, rs, cur, Max2(mx, p.score))
         /\ At(map, p.doc) # cur =>
              RangesSoFar(map, l, k + 1, Append(rs, [id |-> cur, score |-> mx]),
                          At(map, p.doc), p.score)
<1>1. /\ Len(l) \in Nat \ {0}
      /\ \A j \in 1..Len(l) : l[j].doc \in Nat /\ l[j].score \in Nat
      /\ \A j, m \in 1..Len(l) : j < m => l[j].doc < l[m].doc
  BY ListFacts
<1>2. /\ \A d \in DOMAIN map : d \in Nat /\ map[d] \in Nat
      /\ \A d \in DOMAIN map, e \in Nat : e < d => e \in DOMAIN map /\ map[e] <= map[d]
  BY ClustersInOrder
<1>3. \A d : At(map, d) \in Nat
  BY <1>2 DEF At
<1>4. /\ rs \in Seq(RangeEntry) /\ cur \in Nat /\ mx \in Nat
      /\ k = 0 => rs = <<>> /\ mx = 0 /\ cur = At(map, l[1].doc)
      /\ k # 0 => cur = At(map, l[k].doc)
      /\ k # 0 /\ l[k].doc \in DOMAIN map => \A e \in 1..Len(rs) : rs[e].id < cur
      /\ \A j \in 1..k : l[j].doc \in DOMAIN map =>
           \/ Bounded(map, rs, l[j])
           \/ /\ map[l[j].doc] = cur /\ l[j].score <= mx
              /\ \A e \in 1..Len(rs) : rs[e].id < cur
      /\ \A e \in 1..Len(rs) : Attained(map, l, k, rs[e].id, rs[e].score)
      /\ Attained(map, l, k, cur, mx)
  BY DEF RangesSoFar
<1>5. k \in Nat /\ k + 1 \in 1..Len(l) /\ p.doc \in Nat /\ p.score \in Nat
  BY <1>1
<1>6. Len(rs) \in Nat /\ \A e \in 1..Len(rs) : rs[e].id \in Nat /\ rs[e].score \in Nat
  <2>1. Len(rs) \in Nat
    BY <1>4, LenProperties
  <2>2. \A e \in 1..Len(rs) : rs[e] \in RangeEntry
    BY <1>4, ElementOfSeq
  <2> QED BY <2>1, <2>2 DEF RangeEntry
\* Where the posting is in a cluster, so is the one before.
<1>7. ASSUME p.doc \in DOMAIN map
      PROVE  /\ \A e \in 1..Len(rs) : rs[e].id < cur
             /\ cur <= map[p.doc]
  <2>1. CASE k = 0
    <3>1. Len(rs) = 0 /\ p = l[1]
      BY <1>4, <2>1
    <3>2. cur = map[p.doc] /\ map[p.doc] \in Nat
      BY <1>2, <1>4, <1>7, <2>1, <3>1 DEF At
    <3> QED BY <3>1, <3>2
  <2>2. CASE k # 0
    <3>1. k \in 1..Len(l) /\ k < k + 1
      BY <1>1, <1>5, <2>2
    <3>2. l[k].doc \in Nat /\ l[k].doc < p.doc
      BY <1>1, <1>5, <3>1
    <3>3. l[k].doc \in DOMAIN map /\ map[l[k].doc] <= map[p.doc]
      BY <1>2, <1>7, <3>2
    <3> QED BY <1>4, <2>2, <3>3 DEF At
  <2> QED BY <2>1, <2>2
\* What was attained stays so.
<1>8. \A id, s : Attained(map, l, k, id, s) => Attained(map, l, k + 1, id, s)
  <2>1. \A j \in 1..k : j \in 1..(k + 1)
    BY <1>5
  <2> QED BY <2>1 DEF Attained
<1>9. \A id, s : s = p.score /\ At(map, p.doc) = id => Attained(map, l, k + 1, id, s)
  <2>1. k + 1 \in 1..(k + 1)
    BY <1>5
  <2> QED BY <2>1 DEF Attained
<1>10. \A j \in 1..(k + 1) : j \in 1..k \/ j = k + 1
  BY <1>5
<1>11. k + 1 # 0 /\ l[k + 1] = p
  BY <1>5
<1>12. CASE At(map, p.doc) = cur
  <2> DEFINE m == Max2(mx, p.score)
  <2>1. m \in Nat /\ mx <= m /\ p.score <= m /\ (m = mx \/ m = p.score)
    BY <1>4, <1>5, GreaterOfTwo
  <2> HIDE DEF m
  <2>2. l[k + 1].doc \in DOMAIN map => \A e \in 1..Len(rs) : rs[e].id < cur
    BY <1>7, <1>11
  <2>3. ASSUME NEW j \in 1..(k + 1), l[j].doc \in DOMAIN map
        PROVE  \/ Bounded(map, rs, l[j])
               \/ /\ map[l[j].doc] = cur /\ l[j].score <= m
                  /\ \A e \in 1..Len(rs) : rs[e].id < cur
    <3>1. CASE j \in 1..k
      <4>1. l[j].score \in Nat
        BY <1>1, <1>5, <3>1
      <4>2. l[j].score <= mx => l[j].score <= m
        BY <1>4, <2>1, <4>1
      <4> QED BY <1>4, <2>3, <3>1, <4>2
    <3>2. CASE j = k + 1
      BY <1>7, <1>11, <1>12, <2>1, <2>3, <3>2 DEF At
    <3> QED BY <1>10, <3>1, <3>2
  <2>4. \A e \in 1..Len(rs) : Attained(map, l, k + 1, rs[e].id, rs[e].score)
    BY <1>4, <1>8
  <2>5. Attained(map, l, k + 1, cur, m)
    BY <1>4, <1>8, <1>9, <1>12, <2>1
  <2>6. cur = At(map, l[k + 1].doc)
    BY <1>11, <1>12
  <2>7. RangesSoFar(map, l, k + 1, rs, cur, m)
    BY <1>4, <1>11, <2>1, <2>2, <2>3, <2>4, <2>5, <2>6 DEF RangesSoFar
  <2> QED BY <1>12, <2>7 DEF m
<1>13. CASE At(map, p.doc) # cur
  <2> DEFINE r == [id |-> cur, score |-> mx]
             new == Append(rs, r)
             n == Len(rs)
             id == At(map, p.doc)
  <2>1. r \in RangeEntry /\ r.id = cur /\ r.score = mx
    BY <1>4 DEF RangeEntry
  <2> HIDE DEF r
  <2>2. /\ new \in Seq(RangeEntry) /\ Len(new) = n + 1
        /\ \A e \in 1..n : new[e] = rs[e]
        /\ new[n + 1] = r
    BY <1>4, <1>6, <2>1, AppendProperties
  <2> HIDE DEF new
  <2>3. \A e \in 1..(n + 1) : e \in 1..n \/ e = n + 1
    BY <1>6
  <2>4. p.doc \in DOMAIN map => \A e \in 1..Len(new) : new[e].id < id
    <3>1. p.doc \in DOMAIN map => cur < id
      BY <1>3, <1>4, <1>7, <1>13 DEF At
    <3>2. p.doc \in DOMAIN map => \A e \in 1..n : rs[e].id < id
      <4>1. id \in Nat
        BY <1>3
      <4> HIDE DEF id
      <4>2. p.doc \in DOMAIN map => \A e \in 1..n : rs[e].id \in Nat /\ rs[e].id < cur
        BY <1>6, <1>7
      <4>3. cur \in Nat
        BY <1>4
      <4>4. \A a \in Nat : a < cur /\ cur < id => a < id
        BY <4>1, <4>3
      <4> QED BY <1>6, <3>1, <4>2, <4>4
    <3> QED BY <2>1, <2>2, <2>3, <3>1, <3>2
  <2>5. ASSUME NEW j \in 1..(k + 1), l[j].doc \in DOMAIN map
        PROVE  \/ Bounded(map, new, l[j])
               \/ /\ map[l[j].doc] = id /\ l[j].score <= p.score
                  /\ \A e \in 1..Len(new) : new[e].id < id
    <3>1. CASE j \in 1..k
      <4>1. CASE Bounded(map, rs, l[j])
        <5>1. PICK e \in 1..n : /\ rs[e].id = map[l[j].doc] /\ l[j].score <= rs[e].score
                                /\ \A f \in 1..(e - 1) : rs[f].id < rs[e].id
          BY <4>1 DEF Bounded
        <5>2. e \in 1..Len(new) /\ \A f \in 1..(e - 1) : f \in 1..n
          BY <1>6, <2>2
        <5>3. /\ new[e].id = map[l[j].doc] /\ l[j].score <= new[e].score
              /\ \A f \in 1..(e - 1) : new[f].id < new[e].id
          BY <2>2, <5>1, <5>2
        <5> QED BY <5>2, <5>3 DEF Bounded
      <4>2. CASE ~Bounded(map, rs, l[j])
        <5>1. /\ map[l[j].doc] = cur /\ l[j].score <= mx
              /\ \A e \in 1..n : rs[e].id < cur
          BY <1>4, <2>5, <3>1, <4>2
        <5>2. n + 1 \in 1..Len(new) /\ (n + 1) - 1 = n
          BY <1>6, <2>2
        <5>3. /\ new[n + 1].id = map[l[j].doc] /\ l[j].score <= new[n + 1].score
              /\ \A f \in 1..((n + 1) - 1) : new[f].id < new[n + 1].id
          BY <2>1, <2>2, <5>1, <5>2
        <5> QED BY <5>2, <5>3 DEF Bounded
      <4> QED BY <4>1, <4>2
    <3>2. CASE j = k + 1
      <4>1. l[j] = p /\ map[l[j].doc] = id /\ l[j].score <= p.score
        BY <1>5, <1>11, <2>5, <3>2 DEF At
      <4> QED BY <2>4, <2>5, <4>1
    <3> QED BY <1>10, <3>1, <3>2
  <2>6. \A e \in 1..Len(new) : Attained(map, l, k + 1, new[e].id, new[e].score)
    BY <1>4, <1>8, <2>1, <2>2, <2>3
  <2>7. Attained(map, l, k + 1, id, p.score)
    BY <1>9
  <2>8. id \in Nat /\ id = At(map, l[k + 1].doc)
    BY <1>3, <1>11
  <2> HIDE DEF id
  <2>9. RangesSoFar(map, l, k + 1, new, id, p.score)
    BY <1>5, <1>11, <2>2, <2>4, <2>5, <2>6, <2>7, <2>8 DEF RangesSoFar
  <2> QED BY <1>13, <2>9 DEF new, r, id
<1> QED BY <1>12, <1>13

\* The last range makes the ranges those of the list.
LEMMA LastRange ==
  ASSUME NEW l, IsList(l), NEW map,
         NEW rs, NEW cur, NEW mx, RangesSoFar(map, l, Len(l), rs, cur, mx)
  PROVE  RangesBuilt(map, l, Append(rs, [id |-> cur, score |-> mx]))
<1> DEFINE r == [id |-> cur, score |-> mx]
           new == Append(rs, r)
           n == Len(rs)
<1>1. /\ rs \in Seq(RangeEntry) /\ cur \in Nat /\ mx \in Nat
      /\ \A j \in 1..Len(l) : l[j].doc \in DOMAIN map =>
           \/ Bounded(map, rs, l[j])
           \/ /\ map[l[j].doc] = cur /\ l[j].score <= mx
              /\ \A e \in 1..Len(rs) : rs[e].id < cur
      /\ \A e \in 1..Len(rs) : Attained(map, l, Len(l), rs[e].id, rs[e].score)
      /\ Attained(map, l, Len(l), cur, mx)
  BY DEF RangesSoFar
<1>2. r \in RangeEntry /\ r.id = cur /\ r.score = mx
  BY <1>1 DEF RangeEntry
<1> HIDE DEF r
<1>3. n \in Nat
  BY <1>1, LenProperties
<1>4. /\ new \in Seq(RangeEntry) /\ Len(new) = n + 1
      /\ \A e \in 1..n : new[e] = rs[e]
      /\ new[n + 1] = r
  BY <1>1, <1>2, AppendProperties
<1> HIDE DEF new
<1>5. \A e \in 1..(n + 1) : e \in 1..n \/ e = n + 1
  BY <1>3
<1>6. ASSUME NEW j \in 1..Len(l), l[j].doc \in DOMAIN map PROVE Bounded(map, new, l[j])
  <2>1. CASE Bounded(map, rs, l[j])
    <3>1. PICK e \in 1..n : /\ rs[e].id = map[l[j].doc] /\ l[j].score <= rs[e].score
                            /\ \A f \in 1..(e - 1) : rs[f].id < rs[e].id
      BY <2>1 DEF Bounded
    <3>2. e \in 1..Len(new) /\ \A f \in 1..(e - 1) : f \in 1..n
      BY <1>3, <1>4
    <3>3. /\ new[e].id = map[l[j].doc] /\ l[j].score <= new[e].score
          /\ \A f \in 1..(e - 1) : new[f].id < new[e].id
      BY <1>4, <3>1, <3>2
    <3> QED BY <3>2, <3>3 DEF Bounded
  <2>2. CASE ~Bounded(map, rs, l[j])
    <3>1. /\ map[l[j].doc] = cur /\ l[j].score <= mx
          /\ \A e \in 1..n : rs[e].id < cur
      BY <1>1, <1>6, <2>2
    <3>2. n + 1 \in 1..Len(new) /\ (n + 1) - 1 = n
      BY <1>3, <1>4
    <3>3. /\ new[n + 1].id = map[l[j].doc] /\ l[j].score <= new[n + 1].score
          /\ \A f \in 1..((n + 1) - 1) : new[f].id < new[n + 1].id
      BY <1>2, <1>4, <3>1, <3>2
    <3> QED BY <3>2, <3>3 DEF Bounded
  <2> QED BY <2>1, <2>2
<1>7. \A e \in 1..Len(new) : Attained(map, l, Len(l), new[e].id, new[e].score)
  BY <1>1, <1>2, <1>4, <1>5
<1>8. new # <<>>
  BY <1>3, <1>4
<1>9. RangesBuilt(map, l, new)
  BY <1>4, <1>6, <1>7, <1>8 DEF RangesBuilt
<1> QED BY <1>9 DEF new, r

\* The maximum of the blocks of a list is its highest score.
LEMMA HighestOfBlocks ==
  ASSUME NEW l, IsList(l), NEW size \in Nat \ {0}
  PROVE  IsHighest(l, Max({b.score : b \in Range(Blocks(l, size))}))
<1> DEFINE n == Len(l)
           bs == Blocks(l, size)
           count == (n + size - 1) \div size
           last(b) == IF b = count THEN n ELSE b * size
           S == {b.score : b \in Range(bs)}
<1>1. /\ n \in Nat \ {0} /\ DOMAIN l = 1..n
      /\ \A j \in 1..n : l[j].doc \in Nat /\ l[j].score \in Nat
      /\ \A j, k \in 1..n : j < k => l[j].doc < l[k].doc
  BY ListFacts
<1>2. /\ count \in Nat \ {0}
      /\ \A b \in 0..(count - 1) : b * size \in Nat /\ b * size < n
  BY <1>1, BlockCount
<1>3. /\ DOMAIN bs = 1..count
      /\ \A b \in 1..count : bs[b].score = Max(ScoresIn(l, (b - 1) * size + 1, last(b)))
  BY DEF Blocks
<1>4. \A b \in 1..count : /\ (b - 1) * size + 1 \in 1..n /\ last(b) \in ((b - 1) * size + 1)..n
  <2> SUFFICES ASSUME NEW b \in 1..count
               PROVE  (b - 1) * size + 1 \in 1..n /\ last(b) \in ((b - 1) * size + 1)..n
    OBVIOUS
  <2> HIDE DEF count, n
  <2>1. b \in Nat /\ b - 1 \in 0..(count - 1)
    BY <1>2
  <2>2. (b - 1) * size \in Nat /\ (b - 1) * size < n
    BY <1>2, <2>1
  <2>3. PICK x \in Nat : x = (b - 1) * size
    BY <2>2
  <2>4. x + 1 \in 1..n
    BY <1>1, <2>2, <2>3
  <2>5. CASE b = count
    BY <1>1, <2>3, <2>4, <2>5
  <2>6. CASE b # count
    <3>1. b \in 0..(count - 1) /\ b * size < n
      BY <1>2, <2>6
    <3>2. b * size = x + size
      BY <2>1, <2>3
    <3>3. last(b) = x + size
      BY <2>6, <3>2
    <3> HIDE DEF last
    <3>4. x + size \in (x + 1)..n
      BY <1>1, <2>3, <3>1, <3>2
    <3> QED BY <2>3, <2>4, <3>3, <3>4
  <2> QED BY <2>5, <2>6
<1>5. S \in SUBSET Nat /\ IsFiniteSet(S) /\ S # {}
  <2>1. \A b \in 1..count : bs[b].score \in Nat
    <3> SUFFICES ASSUME NEW b \in 1..count PROVE bs[b].score \in Nat
      OBVIOUS
    <3> DEFINE from == (b - 1) * size + 1
               to == last(b)
    <3>1. from \in 1..n /\ to \in from..n /\ bs[b].score = Max(ScoresIn(l, from, to))
      BY <1>3, <1>4
    <3> HIDE DEF from, to, bs
    <3> QED BY <3>1, RunningMax, SMTT(20)
  <2> HIDE DEF bs, count
  <2>2. [b \in 1..count |-> bs[b].score] \in Surjection(1..count, S)
    BY <1>3 DEF Surjection, Range
  <2>3. IsFiniteSet(1..count)
    BY <1>2, FS_Interval
  <2>4. IsFiniteSet(S)
    <3> HIDE DEF S
    <3> QED BY <2>2, <2>3, FS_Surjection
  <2>5. S \in SUBSET Nat
    BY <1>3, <2>1 DEF Range
  <2>6. 1 \in 1..count
    BY <1>2
  <2>7. bs[1].score \in S
    BY <1>3, <2>6 DEF Range
  <2> QED BY <2>4, <2>5, <2>7
<1>6. Max(S) \in S /\ \A s \in S : s <= Max(S)
  <2>1. S \in SUBSET Int
    BY <1>5
  <2> HIDE DEF S
  <2> QED BY <1>5, <2>1, MaxOfFinite
\* Every posting is in a block, and a block has the score of one of its postings.
<1>7. \A b \in 1..count : \E j \in 1..n : l[j].score = bs[b].score
  <2> SUFFICES ASSUME NEW b \in 1..count PROVE \E j \in 1..n : l[j].score = bs[b].score
    OBVIOUS
  <2> DEFINE from == (b - 1) * size + 1
             to == last(b)
             P == ScoresIn(l, from, to)
  <2>1. from \in 1..n /\ to \in from..n /\ bs[b].score = Max(P)
    BY <1>3, <1>4
  <2> HIDE DEF from, to, bs
  <2>2. IsFiniteSet(from..to) /\ \A j \in from..to : j \in 1..n
    BY <1>1, <2>1, FS_Interval
  <2>3. [j \in from..to |-> l[j].score] \in Surjection(from..to, P)
    BY DEF Surjection, ScoresIn
  <2>4. IsFiniteSet(P)
    <3> HIDE DEF P
    <3> QED BY <2>2, <2>3, FS_Surjection
  <2>5. from \in from..to
    BY <2>1
  <2>6. P \in SUBSET Int /\ P # {}
    BY <1>1, <2>2, <2>5 DEF ScoresIn
  <2>7. Max(P) \in P
    <3> HIDE DEF P
    <3> QED BY <2>4, <2>6, MaxOfFinite
  <2> QED BY <2>1, <2>2, <2>7 DEF ScoresIn
<1>8. \A j \in 1..n : l[j].score <= Max(S)
  <2> SUFFICES ASSUME NEW j \in 1..n PROVE l[j].score <= Max(S)
    OBVIOUS
  <2> HIDE DEF n, count, last
  <2>1. Len(bs) = count
    BY <1>2, <1>3 DEF n, count, Blocks
  <2>2. /\ \A b \in 1..Len(bs) : bs[b].docid \in Nat /\ bs[b].score \in Nat
        /\ \A b \in 1..Len(bs) : \A k \in 1..n :
             /\ b = Len(bs) \/ bs[b].docid >= l[k].doc
             /\ b = 1 \/ bs[b - 1].docid < l[k].doc
             => l[k].score <= bs[b].score
    BY <1>1, BlocksOfList DEF n
  <2> HIDE DEF bs
  <2> DEFINE reach == {b \in 1..count : b = count \/ bs[b].docid >= l[j].doc}
  <2>3. PICK b \in reach : \A c \in reach : b <= c
    <3>1. count \in reach /\ reach \in SUBSET Nat
      BY <1>2
    <3> HIDE DEF reach
    <3> QED BY <3>1, LeastNatural
  <2>4. b = 1 \/ bs[b - 1].docid < l[j].doc
    <3>1. CASE b # 1
      <4>1. b - 1 \in 1..count /\ b - 1 \notin reach
        BY <1>2, <2>3, <3>1
      <4>2. ~(bs[b - 1].docid >= l[j].doc) /\ bs[b - 1].docid \in Nat /\ l[j].doc \in Nat
        BY <1>1, <2>1, <2>2, <4>1
      <4> QED BY <4>2
    <3> QED BY <3>1
  <2>5. l[j].score <= bs[b].score
    BY <2>1, <2>2, <2>3, <2>4
  <2>6. bs[b].score \in S
    BY <1>3, <2>3 DEF Range
  <2>7. bs[b].score <= Max(S) /\ Max(S) \in Nat /\ bs[b].score \in Nat /\ l[j].score \in Nat
    <3> HIDE DEF S, reach
    <3> QED BY <1>1, <1>5, <1>6, <2>6
  <2> HIDE DEF S
  <2> QED BY <2>5, <2>7
<1>9. \E j \in 1..n : l[j].score = Max(S)
  <2>1. PICK b \in 1..count : bs[b].score = Max(S)
    <3>1. PICK s \in Range(bs) : s.score = Max(S)
      BY <1>6
    <3> HIDE DEF S, count, bs
    <3> QED BY <1>3, <3>1 DEF Range
  <2> HIDE DEF S, count, bs
  <2> QED BY <1>7, <2>1
<1>10. Max(S) \in Nat
  <2> HIDE DEF S
  <2> QED BY <1>5, <1>6
<1>11. IsHighest(l, Max(S))
  <2> HIDE DEF S
  <2> QED BY <1>8, <1>9, <1>10 DEF IsHighest
<1> QED BY <1>11

-----------------------------------------------------------------------------
(* The lists of the input and their places.                                 *)

\* What is assumed of an input.
LEMMA InputFacts ==
  ASSUME input \in Inputs
  PROVE  /\ Len(input.coll) \in Nat /\ DOMAIN input.coll = 1..Len(input.coll)
         /\ input.clusters \in Seq(Nat)
         /\ \A b, c \in DOMAIN input.clusters : b < c => input.clusters[b] <= input.clusters[c]
         /\ input.block_size \in Nat \ {0} /\ input.steps \in Nat \ {0}
         /\ input.format \in {"raw", "compressed"} /\ input.is_quantized \in BOOLEAN
         /\ \A t \in Kept : t \in 1..Len(input.coll) /\ IsList(input.coll[t])
         /\ \A t \in 1..Len(input.coll) : t \in Kept <=> t \notin input.terms_to_drop
<1>1. /\ input \in Input
      /\ \A t \in DOMAIN input.coll : IsPostingList(input.coll[t])
      /\ \A b, c \in DOMAIN input.clusters : b < c => input.clusters[b] <= input.clusters[c]
  BY InputAssumption
<1>2. /\ input.coll \in Seq(Seq(Posting)) /\ input.clusters \in Seq(Nat)
      /\ input.block_size \in Nat \ {0} /\ input.steps \in Nat \ {0}
      /\ input.format \in {"raw", "compressed"} /\ input.is_quantized \in BOOLEAN
  BY <1>1 DEF Input
<1>3. Len(input.coll) \in Nat /\ DOMAIN input.coll = 1..Len(input.coll)
  BY <1>2, LenProperties
<1>4. \A t \in 1..Len(input.coll) : input.coll[t] \in Seq(Posting)
  BY <1>2, ElementOfSeq
<1>5. /\ \A t \in Kept : t \in 1..Len(input.coll) /\ IsList(input.coll[t])
      /\ \A t \in 1..Len(input.coll) : t \in Kept <=> t \notin input.terms_to_drop
  BY <1>1, <1>3, <1>4 DEF Kept, KeptTerms, IsList
<1> QED BY <1>1, <1>2, <1>3, <1>5

\* A list that is kept takes the next place, one that is dropped takes none; places
\* of the lists before n are those up to Done(n), each taken.
LEMMA Places ==
  ASSUME input \in Inputs
  PROVE  /\ Done(1) = 0
         /\ \A n \in 1..Len(input.coll) :
              /\ Done(n) \in Nat
              /\ n \in Kept => Done(n + 1) = Done(n) + 1 /\ Place(input, n) = Done(n) + 1
              /\ n \notin Kept => Done(n + 1) = Done(n)
         /\ \A n \in 1..(Len(input.coll) + 1) :
              /\ Done(n) \in Nat
              /\ \A t \in Kept : t < n => Place(input, t) \in 1..Done(n)
              /\ \A k \in 1..Done(n) : \E t \in Kept : t < n /\ Place(input, t) = k
<1> DEFINE m == Len(input.coll)
           Before(n) == {u \in Kept : u < n}
           UpTo(n) == {u \in Kept : u <= n}
<1>1. m \in Nat /\ \A t \in Kept : t \in 1..m
  BY InputFacts
<1>2. \A S \in SUBSET Kept : IsFiniteSet(S) /\ Cardinality(S) \in Nat
  <2>1. IsFiniteSet(1..m) /\ Kept \in SUBSET (1..m)
    BY <1>1, FS_Interval
  <2> QED BY <2>1, FS_Subset, FS_CardinalityType
<1>3. Done(1) = 0
  <2>1. Before(1) = {}
    BY <1>1
  <2> QED BY <2>1, FS_EmptySet DEF Done
<1>4. ASSUME NEW n \in 1..m
      PROVE  /\ Done(n) \in Nat
             /\ n \in Kept => Done(n + 1) = Done(n) + 1 /\ Place(input, n) = Done(n) + 1
             /\ n \notin Kept => Done(n + 1) = Done(n)
  <2>1. Before(n + 1) = UpTo(n)
    BY <1>1, <1>4
  <2>2. IsFiniteSet(Before(n)) /\ Cardinality(Before(n)) \in Nat /\ n \notin Before(n)
    BY <1>1, <1>2, <1>4
  <2>3. CASE n \in Kept
    <3>1. UpTo(n) = Before(n) \cup {n}
      <4>1. n \in Nat /\ \A u \in Kept : u <= n <=> u < n \/ u = n
        BY <1>1
      <4> QED BY <2>3, <4>1
    <3>2. Cardinality(UpTo(n)) = Cardinality(Before(n)) + 1
      <4> HIDE DEF Before, UpTo
      <4> QED BY <2>2, <3>1, FS_AddElement
    <3> QED BY <2>1, <2>2, <2>3, <3>2 DEF Done, Place, Kept
  <2>4. CASE n \notin Kept
    <3>1. UpTo(n) = Before(n)
      BY <1>1, <2>4
    <3> QED BY <2>1, <2>2, <2>4, <3>1 DEF Done
  <2> QED BY <2>3, <2>4
<1>5. ASSUME NEW n \in 1..(m + 1)
      PROVE  /\ Done(n) \in Nat
             /\ \A t \in Kept : t < n => Place(input, t) \in 1..Done(n)
             /\ \A k \in 1..Done(n) : \E t \in Kept : t < n /\ Place(input, t) = k
  <2> DEFINE D == Before(n)
  <2>1. /\ D \in SUBSET Nat /\ IsFiniteSet(D) /\ Cardinality(D) \in Nat
        /\ Done(n) = Cardinality(D)
    BY <1>1, <1>2 DEF Done
  <2>2. \A t \in D : Place(input, t) = RankIn(D, t)
    <3> SUFFICES ASSUME NEW t \in D PROVE Place(input, t) = RankIn(D, t)
      OBVIOUS
    <3>1. {u \in Kept : u <= t} = {e \in D : e <= t}
      BY <1>1
    <3> QED BY <3>1 DEF Place, RankIn, Kept
  <2>3. \A t \in Kept : t < n => t \in D
    OBVIOUS
  <2>4. \A t \in D : t \in Kept /\ t < n
    OBVIOUS
  <2>5. /\ \A d \in D : RankIn(D, d) \in 1..Cardinality(D)
        /\ \A j \in 1..Cardinality(D) : \E d \in D : RankIn(D, d) = j
    <3> HIDE DEF D
    <3> QED BY <2>1, Ranks
  <2> HIDE DEF D
  <2> QED BY <2>1, <2>2, <2>3, <2>4, <2>5
<1> QED BY <1>3, <1>4, <1>5

-----------------------------------------------------------------------------
(* What the steps change.                                                   *)

\* What is defined by the input alone stays.
LEMMA SameInput ==
  ASSUME input' = input
  PROVE  /\ Kept' = Kept /\ ClusterMap' = ClusterMap
         /\ \A n : Done(n)' = Done(n)
BY DEF Kept, ClusterMap, Done

\* The map gives a document its cluster, also after an entry was added for it.
LEMMA MapEntries ==
  ASSUME MapInv, input' = input
  PROVE  /\ \A d : RangeOf(d) = At(ClusterMap, d)
         /\ \A d : doc_to_range' = Touched(d) => MapInv'
         /\ doc_to_range' = doc_to_range => MapInv'
<1>1. /\ DOMAIN ClusterMap \subseteq DOMAIN doc_to_range
      /\ \A d \in DOMAIN doc_to_range : doc_to_range[d] = At(ClusterMap, d)
  BY DEF MapInv
<1>2. ClusterMap' = ClusterMap
  BY SameInput
<1>3. \A d, e : /\ DOMAIN Touched(d) = DOMAIN doc_to_range \cup {d}
                /\ e \in DOMAIN Touched(d) => Touched(d)[e] = At(ClusterMap, e)
  BY <1>1 DEF Touched, At
<1>4. \A d : RangeOf(d) = At(ClusterMap, d)
  BY <1>3 DEF RangeOf
<1>5. ASSUME NEW d, doc_to_range' = Touched(d) PROVE MapInv'
  <2>1. /\ DOMAIN ClusterMap' \subseteq DOMAIN doc_to_range'
        /\ \A e \in DOMAIN doc_to_range' : doc_to_range'[e] = At(ClusterMap', e)
    BY <1>1, <1>2, <1>3, <1>5
  <2> QED BY <2>1 DEF MapInv
<1>6. ASSUME doc_to_range' = doc_to_range PROVE MapInv'
  BY <1>1, <1>2, <1>6 DEF MapInv
<1> QED BY <1>4, <1>5, <1>6

\* Pushed changes the last of the lists only, and that at its end.
LEMMA PushedFacts ==
  ASSUME NEW S, NEW all \in Seq(Seq(S)), Len(all) # 0, NEW e \in S
  PROVE  /\ Pushed(all, e) \in Seq(Seq(S)) /\ Len(Pushed(all, e)) = Len(all)
         /\ Pushed(all, e)[Len(all)] = Append(all[Len(all)], e)
         /\ \A k \in 1..Len(all) : k # Len(all) => Pushed(all, e)[k] = all[k]
<1>1. Len(all) \in 1..Len(all)
  BY LenProperties
<1>2. all[Len(all)] \in Seq(S)
  BY <1>1, ElementOfSeq
<1>3. Append(all[Len(all)], e) \in Seq(S)
  BY <1>2, AppendProperties
<1>4. Pushed(all, e) = [all EXCEPT ![Len(all)] = Append(all[Len(all)], e)]
  BY DEF Pushed
<1> QED BY <1>1, <1>3, <1>4, ExceptSeq

\* The lists that are finished, as long as their places keep what they hold.
LEMMA FinishedLists ==
  ASSUME DataInv, input' = input, pc' # "built", pc # "built",
         \A k \in 1..Done(term) : /\ blocks'[k] = blocks[k] /\ ranges'[k] = ranges[k]
                                  /\ max_term_weight'[k] = max_term_weight[k]
  PROVE  \A t \in Kept : t < term =>
           LET k == Place(input, t)
           IN /\ RangesBuilt(ClusterMap, input.coll[t], ranges'[k])
              /\ blocks'[k] = Blocks(input.coll[t], input.block_size)
              /\ IsHighest(input.coll[t], max_term_weight'[k])
<1>1. input \in Inputs /\ term \in 1..(Len(input.coll) + 1)
  BY DEF DataInv, BuilderTypeOK
<1>2. \A t \in Kept : t < term => Place(input, t) \in 1..Done(term)
  BY <1>1, Places
<1>3. ListsInv
  BY DEF DataInv
<1> QED BY <1>2, <1>3 DEF ListsInv

-----------------------------------------------------------------------------
(* The invariant.                                                           *)

\* Nothing is built at first.
LEMMA DataInit == Init => DataInv
<1> SUFFICES ASSUME Init PROVE DataInv
  OBVIOUS
<1> USE DEF Init
<1>1. input \in Inputs
  OBVIOUS
<1>2. Len(input.coll) \in Nat
  BY <1>1, InputFacts
<1>3. BuilderTypeOK
  <2>1. term \in 1..(Len(input.coll) + 1)
    BY <1>2
  <2>2. blocks \in Seq(Seq(BlockEntry)) /\ ranges \in Seq(Seq(RangeEntry)) /\ max_term_weight \in Seq(Nat)
    BY EmptySeq
  <2> QED BY <2>1, <2>2 DEF BuilderTypeOK
<1>4. MapInv
  BY DEF MapInv, ClusterMap, At
<1>5. PlacesInv
  <2>1. Done(1) = 0
    BY <1>1, Places
  <2> QED BY <2>1 DEF PlacesInv
<1>6. LoopInv /\ BuiltInv
  BY DEF LoopInv, BuiltInv
<1>7. ListsInv
  <2>1. \A t \in Kept : t \in 1..Len(input.coll)
    BY <1>1, InputFacts
  <2>2. \A t \in Kept : ~(t < term)
    BY <1>2, <2>1
  <2> QED BY <2>2 DEF ListsInv
<1> QED BY <1>3, <1>4, <1>5, <1>6, <1>7 DEF DataInv

\* A list left out changes no place.
LEMMA SkipKeeps == DataInv /\ SkipList => DataInv'
<1> SUFFICES ASSUME DataInv, SkipList PROVE DataInv'
  OBVIOUS
<1>1. /\ pc = "list" /\ term <= Len(input.coll) /\ Dropped /\ term' = term + 1
      /\ input' = input /\ pc' = pc /\ i' = i /\ doc_to_range' = doc_to_range
      /\ blocks' = blocks /\ ranges' = ranges /\ max_term_weight' = max_term_weight
  BY DEF SkipList
<1>2. BuilderTypeOK /\ MapInv /\ PlacesInv
  BY DEF DataInv
<1>3. input \in Inputs /\ term \in 1..(Len(input.coll) + 1) /\ Len(input.coll) \in Nat
  BY <1>2, InputFacts DEF BuilderTypeOK
<1>4. term \in 1..Len(input.coll) /\ term \notin Kept
  <2>1. term \in 1..Len(input.coll)
    BY <1>1, <1>3
  <2> QED BY <1>1, <1>3, <2>1, InputFacts DEF Dropped
<1>5. Done(term + 1) = Done(term)
  BY <1>3, <1>4, Places
<1>6. Kept' = Kept /\ ClusterMap' = ClusterMap /\ \A n : Done(n)' = Done(n)
  BY <1>1, SameInput
<1>7. BuilderTypeOK'
  <2>1. term + 1 \in 1..(Len(input.coll) + 1)
    BY <1>3, <1>4
  <2> QED BY <1>1, <1>2, <2>1 DEF BuilderTypeOK
<1>8. MapInv'
  BY <1>1, <1>2, MapEntries
<1>9. PlacesInv'
  BY <1>1, <1>2, <1>5, <1>6 DEF PlacesInv
<1>10. LoopInv' /\ BuiltInv'
  BY <1>1 DEF LoopInv, BuiltInv
<1>11. ListsInv'
  <2>1. \A t \in Kept : t < term + 1 => t < term
    <3>1. \A t \in Kept : t \in Nat /\ t # term
      BY <1>3, <1>4, InputFacts
    <3> QED BY <1>3, <3>1
  <2>2. ListsInv
    BY DEF DataInv
  <2> QED BY <1>1, <1>6, <2>1, <2>2 DEF ListsInv
<1> QED BY <1>7, <1>8, <1>9, <1>10, <1>11 DEF DataInv

\* add_sequence opens a place for the list, with no block and no range in it.
LEMMA BeginKeeps == DataInv /\ BeginList => DataInv'
<1> SUFFICES ASSUME DataInv, BeginList PROVE DataInv'
  OBVIOUS
<1>1. /\ pc = "list" /\ term <= Len(input.coll) /\ ~Dropped
      /\ doc_to_range' = Touched(List[1].doc)
      /\ current_range' = RangeOf(List[1].doc)
      /\ i' = 0 /\ current_block' = 0 /\ block_max_score' = 0 /\ range_max_score' = 0
      /\ blocks' = Append(blocks, <<>>) /\ ranges' = Append(ranges, <<>>)
      /\ pc' = "posting"
      /\ input' = input /\ term' = term /\ max_term_weight' = max_term_weight
  BY DEF BeginList
<1>2. BuilderTypeOK /\ MapInv /\ PlacesInv
  BY DEF DataInv
<1>3. input \in Inputs /\ term \in 1..(Len(input.coll) + 1) /\ Len(input.coll) \in Nat
  BY <1>2, InputFacts DEF BuilderTypeOK
<1>4. /\ blocks \in Seq(Seq(BlockEntry)) /\ ranges \in Seq(Seq(RangeEntry))
      /\ max_term_weight \in Seq(Nat)
  BY <1>1, <1>2 DEF BuilderTypeOK
<1>5. term \in Kept
  <2>1. term \in 1..Len(input.coll)
    BY <1>1, <1>3
  <2> QED BY <1>1, <1>3, <2>1, InputFacts DEF Dropped
<1>6. Kept' = Kept /\ ClusterMap' = ClusterMap /\ \A n : Done(n)' = Done(n)
  BY <1>1, SameInput
<1>7. /\ Done(term) \in Nat /\ Len(max_term_weight) = Done(term)
      /\ Len(blocks) = Done(term) /\ Len(ranges) = Done(term)
  <2>1. Done(term) \in Nat
    BY <1>3, Places
  <2> QED BY <1>1, <1>2, <2>1 DEF PlacesInv
<1>8. /\ blocks' \in Seq(Seq(BlockEntry)) /\ Len(blocks') = Done(term) + 1
      /\ \A k \in 1..Done(term) : blocks'[k] = blocks[k]
      /\ blocks'[Done(term) + 1] = <<>>
  <2>1. <<>> \in Seq(BlockEntry)
    BY EmptySeq
  <2> QED BY <1>1, <1>4, <1>7, <2>1, AppendProperties
<1>9. /\ ranges' \in Seq(Seq(RangeEntry)) /\ Len(ranges') = Done(term) + 1
      /\ \A k \in 1..Done(term) : ranges'[k] = ranges[k]
      /\ ranges'[Done(term) + 1] = <<>>
  <2>1. <<>> \in Seq(RangeEntry)
    BY EmptySeq
  <2> QED BY <1>1, <1>4, <1>7, <2>1, AppendProperties
<1>10. BuilderTypeOK'
  BY <1>1, <1>3, <1>4, <1>8, <1>9 DEF BuilderTypeOK
<1>11. MapInv'
  BY <1>1, <1>2, MapEntries
<1>12. PlacesInv'
  BY <1>1, <1>6, <1>7, <1>8, <1>9 DEF PlacesInv
<1>13. LoopInv'
  <2>1. IsList(List) /\ List' = List
    BY <1>1, <1>3, <1>5, InputFacts DEF List
  <2>2. Len(List) \in Nat
    BY <2>1, ListFacts
  <2>3. BlocksSoFar(List, input.block_size, 0, <<>>, 0, 0)
    BY DEF BlocksSoFar
  <2>4. RangesSoFar(ClusterMap, List, 0, <<>>, At(ClusterMap, List[1].doc), 0)
    <3>1. At(ClusterMap, List[1].doc) \in Nat
      <4>1. input.clusters \in Seq(Nat)
        BY <1>3, InputFacts
      <4>2. \A d \in DOMAIN ClusterMap : ClusterMap[d] \in Nat
        BY <4>1, ClustersInOrder DEF ClusterMap
      <4> QED BY <4>2 DEF At
    <3>2. Len(<<>>) = 0 /\ <<>> \in Seq(RangeEntry)
      BY EmptySeq
    <3>3. Attained(ClusterMap, List, 0, At(ClusterMap, List[1].doc), 0)
      BY DEF Attained
    <3> QED BY <3>1, <3>2, <3>3 DEF RangesSoFar
  <2>5. current_range' = At(ClusterMap, List[1].doc)
    BY <1>1, <1>2, MapEntries
  <2> QED BY <1>1, <1>5, <1>6, <1>8, <1>9, <2>1, <2>2, <2>3, <2>4, <2>5 DEF LoopInv
<1>14. ListsInv'
  <2>1. \A t \in Kept : t < term =>
          LET k == Place(input, t)
          IN /\ RangesBuilt(ClusterMap, input.coll[t], ranges'[k])
             /\ blocks'[k] = Blocks(input.coll[t], input.block_size)
             /\ IsHighest(input.coll[t], max_term_weight'[k])
    BY <1>1, <1>8, <1>9, FinishedLists
  <2> QED BY <1>1, <1>6, <2>1 DEF ListsInv
<1>15. BuiltInv'
  BY <1>1 DEF BuiltInv
<1> QED BY <1>10, <1>11, <1>12, <1>13, <1>14, <1>15 DEF DataInv

\* The compressed format that refuses clusters leaves what is there.
LEMMA RefuseKeeps == DataInv /\ Refuse => DataInv'
<1> SUFFICES ASSUME DataInv, Refuse PROVE DataInv'
  OBVIOUS
<1>1. /\ pc = "list" /\ pc' = "exit"
      /\ input' = input /\ term' = term /\ i' = i /\ doc_to_range' = doc_to_range
      /\ blocks' = blocks /\ ranges' = ranges /\ max_term_weight' = max_term_weight
  BY DEF Refuse
<1>2. Kept' = Kept /\ ClusterMap' = ClusterMap /\ \A n : Done(n)' = Done(n)
  BY <1>1, SameInput
<1>3. BuilderTypeOK'
  BY <1>1 DEF DataInv, BuilderTypeOK
<1>4. MapInv'
  BY <1>1, MapEntries DEF DataInv
<1>5. PlacesInv'
  BY <1>1, <1>2 DEF DataInv, PlacesInv
<1>6. LoopInv' /\ BuiltInv'
  BY <1>1 DEF LoopInv, BuiltInv
<1>7. ListsInv'
  BY <1>1, <1>2 DEF DataInv, ListsInv
<1> QED BY <1>3, <1>4, <1>5, <1>6, <1>7 DEF DataInv

\* A posting stays in the block and in the range in hand, or opens the next one.
LEMMA PostingKeeps == DataInv /\ AddPosting => DataInv'
<1> SUFFICES ASSUME DataInv, AddPosting PROVE DataInv'
  OBVIOUS
<1> DEFINE p == List[i + 1]
           size == input.block_size
<1>1. /\ pc = "posting" /\ i < Len(List) /\ PostingInBlock(p) /\ PostingInRange(p)
      /\ doc_to_range' = Touched(p.doc) /\ i' = i + 1
      /\ input' = input /\ pc' = pc /\ term' = term /\ max_term_weight' = max_term_weight
  BY DEF AddPosting
<1>2. BuilderTypeOK /\ MapInv /\ PlacesInv /\ LoopInv
  BY DEF DataInv
<1>3. /\ input \in Inputs /\ term \in 1..(Len(input.coll) + 1) /\ i \in Nat
      /\ blocks \in Seq(Seq(BlockEntry)) /\ ranges \in Seq(Seq(RangeEntry))
      /\ max_term_weight \in Seq(Nat)
  BY <1>1, <1>2 DEF BuilderTypeOK
<1>4. /\ term \in Kept
      /\ BlocksSoFar(List, size, i, blocks[Len(blocks)], current_block, block_max_score)
      /\ RangesSoFar(ClusterMap, List, i, ranges[Len(ranges)], current_range, range_max_score)
  BY <1>1, <1>2 DEF LoopInv
<1>5. Kept' = Kept /\ ClusterMap' = ClusterMap /\ \A n : Done(n)' = Done(n)
  BY <1>1, SameInput
<1>6. PICK n \in Nat \ {0} : n = Done(term) + 1 /\ Len(blocks) = n /\ Len(ranges) = n
  <2>1. Done(term) \in Nat
    BY <1>3, Places
  <2> QED BY <1>1, <1>2, <2>1 DEF PlacesInv
<1>7. Done(term) \in Nat /\ \A k \in 1..Done(term) : k \in 1..n /\ k # n
  BY <1>3, <1>6, Places
<1>8. /\ IsList(List) /\ List' = List /\ size \in Nat \ {0} /\ input.clusters \in Seq(Nat)
  BY <1>1, <1>3, <1>4, InputFacts DEF List
<1>9. /\ i \in 0..(Len(List) - 1) /\ Len(List) \in Nat \ {0}
      /\ p.doc \in Nat /\ p.score \in Nat
  BY <1>1, <1>3, <1>8, ListFacts, SMTT(20)
\* What the posting does to the blocks.
<1>10. /\ blocks' \in Seq(Seq(BlockEntry)) /\ Len(blocks') = n
       /\ \A k \in 1..n : k # n => blocks'[k] = blocks[k]
       /\ BlocksSoFar(List, size, i + 1, blocks'[n], current_block', block_max_score')
  <2>1. /\ block_max_score \in Nat
        /\ i = 0 \/ i \div size = current_block =>
             BlocksSoFar(List, size, i + 1, blocks[n], current_block,
                         Max2(block_max_score, p.score))
        /\ ~(i = 0 \/ i \div size = current_block) =>
             BlocksSoFar(List, size, i + 1,
                         Append(blocks[n], [docid |-> p.doc - 1, score |-> block_max_score]),
                         current_block + 1, p.score)
    BY <1>4, <1>6, <1>8, <1>9, PostingBlock
  <2>2. CASE i = 0 \/ i \div size = current_block
    <3>1. /\ block_max_score' = Max2(block_max_score, p.score)
          /\ current_block' = current_block /\ blocks' = blocks
      BY <1>1, <2>2 DEF PostingInBlock
    <3> QED BY <1>3, <1>6, <2>1, <2>2, <3>1
  <2>3. CASE ~(i = 0 \/ i \div size = current_block)
    <3> DEFINE e == [docid |-> p.doc - 1, score |-> block_max_score]
    <3>1. /\ blocks' = Pushed(blocks, e) /\ current_block' = current_block + 1
          /\ block_max_score' = p.score
      BY <1>1, <2>3 DEF PostingInBlock
    <3>2. e \in BlockEntry
      <4>1. p.doc - 1 \in Int
        BY <1>9
      <4> QED BY <2>1, <4>1 DEF BlockEntry
    <3>3. BlocksSoFar(List, size, i + 1, Append(blocks[n], e), current_block + 1, p.score)
      BY <2>1, <2>3
    <3> HIDE DEF e, p
    <3>4. /\ blocks' \in Seq(Seq(BlockEntry)) /\ Len(blocks') = n
          /\ blocks'[n] = Append(blocks[n], e)
          /\ \A k \in 1..n : k # n => blocks'[k] = blocks[k]
      <4>1. blocks \in Seq(Seq(BlockEntry)) /\ Len(blocks) # 0
        BY <1>3, <1>6
      <4>2. /\ Pushed(blocks, e) \in Seq(Seq(BlockEntry)) /\ Len(Pushed(blocks, e)) = Len(blocks)
            /\ Pushed(blocks, e)[Len(blocks)] = Append(blocks[Len(blocks)], e)
            /\ \A k \in 1..Len(blocks) : k # Len(blocks) => Pushed(blocks, e)[k] = blocks[k]
        BY <3>2, <4>1, PushedFacts
      <4> QED BY <1>6, <3>1, <4>2
    <3> QED BY <3>1, <3>3, <3>4
  <2> QED BY <2>2, <2>3
\* What it does to the ranges.
<1>11. /\ ranges' \in Seq(Seq(RangeEntry)) /\ Len(ranges') = n
       /\ \A k \in 1..n : k # n => ranges'[k] = ranges[k]
       /\ RangesSoFar(ClusterMap, List, i + 1, ranges'[n], current_range', range_max_score')
  <2>1. RangeOf(p.doc) = At(ClusterMap, p.doc)
    BY <1>1, <1>2, MapEntries
  <2>2. /\ At(ClusterMap, p.doc) = current_range =>
             RangesSoFar(ClusterMap, List, i + 1, ranges[n], current_range,
                         Max2(range_max_score, p.score))
        /\ At(ClusterMap, p.doc) # current_range =>
             RangesSoFar(ClusterMap, List, i + 1,
                         Append(ranges[n], [id |-> current_range, score |-> range_max_score]),
                         At(ClusterMap, p.doc), p.score)
    <3>1. ClusterMap = DocToRange(input.clusters)
      BY DEF ClusterMap
    <3> QED BY <1>4, <1>6, <1>8, <1>9, <3>1, PostingRange
  <2>3. CASE RangeOf(p.doc) = current_range
    <3>1. /\ range_max_score' = Max2(range_max_score, p.score)
          /\ current_range' = current_range /\ ranges' = ranges
      BY <1>1, <2>3 DEF PostingInRange
    <3> QED BY <1>3, <1>6, <2>1, <2>2, <2>3, <3>1
  <2>4. CASE RangeOf(p.doc) # current_range
    <3> DEFINE e == [id |-> current_range, score |-> range_max_score]
    <3>1. /\ ranges' = Pushed(ranges, e) /\ current_range' = At(ClusterMap, p.doc)
          /\ range_max_score' = p.score
      BY <1>1, <2>1, <2>4 DEF PostingInRange
    <3>2. e \in RangeEntry
      BY <1>4 DEF RangesSoFar, RangeEntry
    <3>3. RangesSoFar(ClusterMap, List, i + 1, Append(ranges[n], e), At(ClusterMap, p.doc), p.score)
      BY <2>1, <2>2, <2>4
    <3> HIDE DEF e, p
    <3>4. /\ ranges' \in Seq(Seq(RangeEntry)) /\ Len(ranges') = n
          /\ ranges'[n] = Append(ranges[n], e)
          /\ \A k \in 1..n : k # n => ranges'[k] = ranges[k]
      <4>1. ranges \in Seq(Seq(RangeEntry)) /\ Len(ranges) # 0
        BY <1>3, <1>6
      <4>2. /\ Pushed(ranges, e) \in Seq(Seq(RangeEntry)) /\ Len(Pushed(ranges, e)) = Len(ranges)
            /\ Pushed(ranges, e)[Len(ranges)] = Append(ranges[Len(ranges)], e)
            /\ \A k \in 1..Len(ranges) : k # Len(ranges) => Pushed(ranges, e)[k] = ranges[k]
        BY <3>2, <4>1, PushedFacts
      <4> QED BY <1>6, <3>1, <4>2
    <3> QED BY <3>1, <3>3, <3>4
  <2> QED BY <2>3, <2>4
<1>12. BuilderTypeOK'
  BY <1>1, <1>2, <1>3, <1>10, <1>11 DEF BuilderTypeOK
<1>13. MapInv'
  BY <1>1, <1>2, MapEntries
<1>14. PlacesInv'
  BY <1>1, <1>2, <1>5, <1>6, <1>10, <1>11 DEF PlacesInv
<1>15. LoopInv'
  <2>1. i + 1 <= Len(List)
    BY <1>9
  <2> QED BY <1>1, <1>4, <1>5, <1>8, <1>10, <1>11, <2>1 DEF LoopInv
<1>16. ListsInv'
  <2>1. \A t \in Kept : t < term =>
          LET k == Place(input, t)
          IN /\ RangesBuilt(ClusterMap, input.coll[t], ranges'[k])
             /\ blocks'[k] = Blocks(input.coll[t], input.block_size)
             /\ IsHighest(input.coll[t], max_term_weight'[k])
    BY <1>1, <1>7, <1>10, <1>11, FinishedLists
  <2> QED BY <1>1, <1>5, <2>1 DEF ListsInv
<1>17. BuiltInv'
  BY <1>1 DEF BuiltInv
<1> QED BY <1>12, <1>13, <1>14, <1>15, <1>16, <1>17 DEF DataInv

\* After the last posting the list has its blocks, its ranges and its maximum.
LEMMA EndKeeps == DataInv /\ EndList => DataInv'
<1> SUFFICES ASSUME DataInv, EndList PROVE DataInv'
  OBVIOUS
<1> DEFINE size == input.block_size
           be == [docid |-> List[Len(List)].doc, score |-> block_max_score]
           re == [id |-> current_range, score |-> range_max_score]
<1>1. /\ pc = "posting" /\ i = Len(List)
      /\ blocks' = Pushed(blocks, be) /\ ranges' = Pushed(ranges, re)
      /\ max_term_weight' = Append(max_term_weight, Max({b.score : b \in Range(Last(blocks'))}))
      /\ term' = term + 1 /\ pc' = "list"
      /\ input' = input /\ i' = i /\ doc_to_range' = doc_to_range
  BY DEF EndList
<1>2. BuilderTypeOK /\ MapInv /\ PlacesInv /\ LoopInv
  BY DEF DataInv
<1>3. /\ input \in Inputs /\ term \in 1..(Len(input.coll) + 1) /\ i \in Nat
      /\ blocks \in Seq(Seq(BlockEntry)) /\ ranges \in Seq(Seq(RangeEntry))
      /\ max_term_weight \in Seq(Nat)
  BY <1>1, <1>2 DEF BuilderTypeOK
<1>4. /\ term \in Kept
      /\ BlocksSoFar(List, size, i, blocks[Len(blocks)], current_block, block_max_score)
      /\ RangesSoFar(ClusterMap, List, i, ranges[Len(ranges)], current_range, range_max_score)
  BY <1>1, <1>2 DEF LoopInv
<1>5. Kept' = Kept /\ ClusterMap' = ClusterMap /\ \A n : Done(n)' = Done(n)
  BY <1>1, SameInput
<1>6. PICK n \in Nat \ {0} : /\ n = Done(term) + 1 /\ Len(blocks) = n /\ Len(ranges) = n
                             /\ Len(max_term_weight) = n - 1
  <2>1. Done(term) \in Nat
    BY <1>3, Places
  <2> QED BY <1>1, <1>2, <2>1 DEF PlacesInv
<1>7. Done(term) \in Nat /\ \A k \in 1..Done(term) : k \in 1..n /\ k # n
  <2>1. Done(term) \in Nat
    BY <1>3, Places
  <2> QED BY <1>6, <2>1
<1>8. /\ IsList(List) /\ size \in Nat \ {0} /\ List = input.coll[term]
      /\ term \in 1..Len(input.coll)
  BY <1>3, <1>4, InputFacts DEF List
<1>9. Len(List) \in Nat \ {0} /\ List[Len(List)].doc \in Nat
  <2>1. Len(List) \in Nat \ {0}
    BY <1>8, ListFacts
  <2>2. Len(List) \in 1..Len(List)
    BY <2>1
  <2> QED BY <1>8, <2>1, <2>2, ListFacts
<1>10. block_max_score \in Nat /\ Append(blocks[n], be) = Blocks(List, size)
  BY <1>1, <1>4, <1>6, <1>8, LastBlock
<1>11. RangesBuilt(ClusterMap, List, Append(ranges[n], re))
  BY <1>1, <1>4, <1>6, <1>8, LastRange
<1>12. be \in BlockEntry /\ re \in RangeEntry
  <2>1. current_range \in Nat /\ range_max_score \in Nat
    BY <1>4 DEF RangesSoFar
  <2> QED BY <1>9, <1>10, <2>1 DEF BlockEntry, RangeEntry
<1> HIDE DEF be, re
<1>13. /\ blocks' \in Seq(Seq(BlockEntry)) /\ Len(blocks') = n
       /\ \A k \in 1..n : k # n => blocks'[k] = blocks[k]
       /\ blocks'[n] = Blocks(List, size)
  <2>1. blocks \in Seq(Seq(BlockEntry)) /\ Len(blocks) # 0
    BY <1>3, <1>6
  <2>2. /\ Pushed(blocks, be) \in Seq(Seq(BlockEntry)) /\ Len(Pushed(blocks, be)) = Len(blocks)
        /\ Pushed(blocks, be)[Len(blocks)] = Append(blocks[Len(blocks)], be)
        /\ \A k \in 1..Len(blocks) : k # Len(blocks) => Pushed(blocks, be)[k] = blocks[k]
    BY <1>12, <2>1, PushedFacts
  <2> QED BY <1>1, <1>6, <1>10, <2>2
<1>14. /\ ranges' \in Seq(Seq(RangeEntry)) /\ Len(ranges') = n
       /\ \A k \in 1..n : k # n => ranges'[k] = ranges[k]
       /\ ranges'[n] = Append(ranges[n], re)
  <2>1. ranges \in Seq(Seq(RangeEntry)) /\ Len(ranges) # 0
    BY <1>3, <1>6
  <2>2. /\ Pushed(ranges, re) \in Seq(Seq(RangeEntry)) /\ Len(Pushed(ranges, re)) = Len(ranges)
        /\ Pushed(ranges, re)[Len(ranges)] = Append(ranges[Len(ranges)], re)
        /\ \A k \in 1..Len(ranges) : k # Len(ranges) => Pushed(ranges, re)[k] = ranges[k]
    BY <1>12, <2>1, PushedFacts
  <2> QED BY <1>1, <1>6, <2>2
<1>15. /\ max_term_weight' \in Seq(Nat) /\ Len(max_term_weight') = n
       /\ \A k \in 1..Done(term) : max_term_weight'[k] = max_term_weight[k]
       /\ IsHighest(List, max_term_weight'[n])
  <2> DEFINE m == Max({b.score : b \in Range(Blocks(List, size))})
  <2>1. max_term_weight' = Append(max_term_weight, m)
    BY <1>1, <1>13 DEF Last
  <2>2. IsHighest(List, m)
    BY <1>8, HighestOfBlocks
  <2> HIDE DEF m
  <2>3. m \in Nat
    BY <2>2 DEF IsHighest
  <2>4. n - 1 = Done(term) /\ (n - 1) + 1 = n
    BY <1>6, <1>7
  <2> QED BY <1>3, <1>6, <2>1, <2>2, <2>3, <2>4, AppendProperties
<1>16. Done(term + 1) = n /\ Place(input, term) = n
  BY <1>3, <1>4, <1>6, <1>8, Places
<1>17. BuilderTypeOK'
  <2>1. term + 1 \in 1..(Len(input.coll) + 1)
    BY <1>3, <1>8, InputFacts
  <2> QED BY <1>1, <1>3, <1>13, <1>14, <1>15, <2>1 DEF BuilderTypeOK
<1>18. MapInv'
  BY <1>1, <1>2, MapEntries
<1>19. PlacesInv'
  BY <1>1, <1>5, <1>13, <1>14, <1>15, <1>16 DEF PlacesInv
<1>20. LoopInv' /\ BuiltInv'
  BY <1>1 DEF LoopInv, BuiltInv
<1>21. ListsInv'
  <2> SUFFICES ASSUME NEW t \in Kept, t < term + 1
               PROVE  LET k == Place(input, t)
                      IN /\ RangesBuilt(ClusterMap, input.coll[t], ranges'[k])
                         /\ blocks'[k] = Blocks(input.coll[t], input.block_size)
                         /\ IsHighest(input.coll[t], max_term_weight'[k])
    BY <1>1, <1>5 DEF ListsInv
  <2>1. CASE t = term
    BY <1>8, <1>11, <1>13, <1>14, <1>15, <1>16, <2>1
  <2>2. CASE t # term
    <3>1. t < term
      <4>1. t \in Nat
        BY <1>3, InputFacts
      <4> QED BY <1>3, <2>2, <4>1
    <3> QED BY <1>1, <1>7, <1>13, <1>14, <1>15, <3>1, FinishedLists
  <2> QED BY <2>1, <2>2
<1> QED BY <1>17, <1>18, <1>19, <1>20, <1>21 DEF DataInv

\* The maximum of the lists is the highest score of all postings.
LEMMA HighestOfLists ==
  ASSUME DataInv, pc = "list", term > Len(input.coll)
  PROVE  /\ IndexMax = HighestScore /\ HighestScore \in Nat
         /\ \A t \in Kept : \A p \in Range(input.coll[t]) : p.score <= HighestScore
         /\ \A k \in 1..Len(max_term_weight) : max_term_weight[k] <= HighestScore
<1> DEFINE W == {0} \cup Range(max_term_weight)
           S == {0} \cup UNION {{p.score : p \in Range(input.coll[t])} : t \in Kept}
           m == Max(W)
<1>1. /\ input \in Inputs /\ term \in 1..(Len(input.coll) + 1) /\ max_term_weight \in Seq(Nat)
  BY DEF DataInv, BuilderTypeOK
<1>2. Len(input.coll) \in Nat /\ term = Len(input.coll) + 1
  BY <1>1, InputFacts
<1>3. Len(max_term_weight) = Done(term) /\ Done(term) \in Nat
  BY <1>1, Places DEF DataInv, PlacesInv
<1>4. /\ \A k \in 1..Done(term) : max_term_weight[k] \in Nat
      /\ DOMAIN max_term_weight = 1..Done(term)
  BY <1>1, <1>3, ElementOfSeq, LenProperties
<1>5. \A t \in Kept : /\ Place(input, t) \in 1..Done(term)
                      /\ IsHighest(input.coll[t], max_term_weight[Place(input, t)])
  <2>1. \A t \in Kept : t < term
    BY <1>1, <1>2, InputFacts
  <2> QED BY <1>1, <2>1, Places DEF DataInv, ListsInv
<1>6. \A t \in Kept : DOMAIN input.coll[t] = 1..Len(input.coll[t])
  BY <1>1, InputFacts, ListFacts
<1>7. W \in SUBSET Int /\ IsFiniteSet(W) /\ W # {}
  <2>1. max_term_weight \in Surjection(1..Done(term), Range(max_term_weight))
    BY <1>4, <1>1, <1>3, LenProperties DEF Surjection, Range
  <2>2. IsFiniteSet(1..Done(term))
    BY <1>3, FS_Interval
  <2>3. IsFiniteSet(Range(max_term_weight))
    BY <2>1, <2>2, FS_Surjection
  <2>4. IsFiniteSet(W)
    BY <2>3, FS_AddElement
  <2> QED BY <1>4, <2>4 DEF Range
<1>8. m \in W /\ \A w \in W : w <= m
  <2> HIDE DEF W
  <2> QED BY <1>7, MaxOfFinite
<1>9. m \in Nat /\ \A k \in 1..Done(term) : max_term_weight[k] <= m
  <2>1. \A w \in W : w \in Nat
    BY <1>4 DEF Range
  <2>2. \A k \in 1..Done(term) : max_term_weight[k] \in W
    BY <1>4 DEF Range
  <2> HIDE DEF W
  <2> QED BY <1>8, <2>1, <2>2
<1> HIDE DEF m
<1>10. ASSUME NEW t \in Kept, NEW p \in Range(input.coll[t])
       PROVE  p.score \in Nat /\ p.score <= m
  <2>1. PICK j \in 1..Len(input.coll[t]) : p = input.coll[t][j]
    BY <1>6 DEF Range
  <2>2. p.score \in Nat
    BY <1>1, <2>1, InputFacts, ListFacts
  <2>3. PICK k \in 1..Done(term) : k = Place(input, t)
    BY <1>5
  <2>4. p.score <= max_term_weight[k]
    BY <1>5, <2>1, <2>3 DEF IsHighest
  <2> QED BY <1>4, <1>9, <2>2, <2>3, <2>4
<1>11. m \in S
  <2>1. CASE m = 0
    BY <2>1
  <2>2. CASE m # 0
    <3>1. PICK k \in 1..Done(term) : max_term_weight[k] = m
      BY <1>4, <1>8, <2>2 DEF Range
    <3>2. PICK t \in Kept : Place(input, t) = k
      BY <1>1, Places
    <3>3. PICK j \in 1..Len(input.coll[t]) : input.coll[t][j].score = m
      BY <1>5, <3>1, <3>2 DEF IsHighest
    <3>4. input.coll[t][j] \in Range(input.coll[t])
      BY <1>6 DEF Range
    <3> QED BY <3>3, <3>4
  <2> QED BY <2>1, <2>2
<1>12. S \in SUBSET Int /\ \A s \in S : s <= m
  BY <1>9, <1>10
<1>13. Max(S) = m
  <2> HIDE DEF S
  <2> QED BY <1>11, <1>12, MaxIs
<1>14. IndexMax = m
  BY DEF IndexMax, m
<1>15. HighestScore = m
  BY <1>13 DEF HighestScore
<1> QED BY <1>3, <1>9, <1>10, <1>14, <1>15

\* The blocks of a list are records, of which storing replaces the score.
LEMMA StoredEntries ==
  ASSUME NEW l, IsList(l), NEW size \in Nat \ {0}, NEW bs, bs = Blocks(l, size)
  PROVE  /\ Len(bs) \in Nat \ {0} /\ DOMAIN bs = 1..Len(bs)
         /\ bs = [b \in 1..Len(bs) |-> [docid |-> bs[b].docid, score |-> bs[b].score]]
         /\ \A b \in 1..Len(bs) : \A s :
              [bs[b] EXCEPT !.score = s] = [docid |-> bs[b].docid, score |-> s]
<1>1. PICK n \in Nat \ {0} : n = (Len(l) + size - 1) \div size
  <2>1. Len(l) \in Nat \ {0}
    BY ListFacts
  <2> QED BY <2>1, BlockCount
<1>2. bs = [b \in 1..n |-> [docid |-> bs[b].docid, score |-> bs[b].score]]
  BY <1>1 DEF Blocks
<1>3. Len(bs) = n /\ DOMAIN bs = 1..n
  BY <1>2
<1>4. ASSUME NEW b \in 1..n, NEW s
      PROVE  [bs[b] EXCEPT !.score = s] = [docid |-> bs[b].docid, score |-> s]
  <2>1. PICK d, r : bs[b] = [docid |-> d, score |-> r]
    BY <1>2
  <2> QED BY <2>1
<1> QED BY <1>2, <1>3, <1>4

\* The scores of the blocks are stored as the format asks, and the maxima with them.
LEMMA BuildKeeps == DataInv /\ EndBuild => DataInv'
<1> SUFFICES ASSUME DataInv, EndBuild PROVE DataInv'
  OBVIOUS
<1>1. /\ pc = "list" /\ term > Len(input.coll) /\ pc' = "built" /\ blocks' = StoredBlocks
      /\ max_term_weight' = IF input.is_quantized
                              THEN [t \in DOMAIN max_term_weight |-> Steps(max_term_weight[t])]
                              ELSE max_term_weight
      /\ input' = input /\ term' = term /\ i' = i /\ doc_to_range' = doc_to_range
      /\ ranges' = ranges
  BY DEF EndBuild
<1>2. BuilderTypeOK /\ MapInv /\ PlacesInv /\ ListsInv
  BY DEF DataInv
<1>3. /\ input \in Inputs /\ term \in 1..(Len(input.coll) + 1)
      /\ blocks \in Seq(Seq(BlockEntry)) /\ max_term_weight \in Seq(Nat)
  BY <1>1, <1>2 DEF BuilderTypeOK
<1>4. Len(input.coll) \in Nat /\ term = Len(input.coll) + 1
  BY <1>1, <1>3, InputFacts
<1>5. Kept' = Kept /\ ClusterMap' = ClusterMap /\ HighestScore' = HighestScore
  BY <1>1, SameInput DEF HighestScore
<1>6. BuilderTypeOK'
  BY <1>1, <1>2 DEF BuilderTypeOK
<1>7. MapInv'
  BY <1>1, <1>2, MapEntries
<1>8. PlacesInv' /\ LoopInv'
  BY <1>1, <1>4 DEF PlacesInv, LoopInv
<1>9. ListsInv'
  BY <1>1, <1>2, <1>5 DEF ListsInv
<1>10. BuiltInv'
  <2>1. IndexMax = HighestScore
    BY <1>1, HighestOfLists
  <2>2. \A s : Steps(s) = Quantized(s) /\ StepIndex(s) = Quantized(s) - 1
    BY <2>1 DEF Steps, StepIndex, Quantized
  <2> SUFFICES ASSUME NEW t \in Kept
               PROVE  LET k == Place(input, t)
                          bs == Blocks(input.coll[t], input.block_size)
                      IN /\ blocks'[k] = [b \in 1..Len(bs) |->
                               [docid |-> bs[b].docid, score |-> Stored(bs[b].score)]]
                         /\ \E m \in {p.score : p \in Range(input.coll[t])} :
                              /\ IsHighest(input.coll[t], m)
                              /\ max_term_weight'[k] = IF input.is_quantized
                                                         THEN Quantized(m) ELSE m
    <3>1. \A s : Stored(s)' = Stored(s) /\ Quantized(s)' = Quantized(s)
      BY <1>1, <1>5 DEF Stored, Quantized
    <3> QED BY <1>1, <1>5, <3>1 DEF BuiltInv
  <2> DEFINE l == input.coll[t]
             bs == Blocks(l, input.block_size)
             k == Place(input, t)
  <2>3. IsList(l) /\ input.block_size \in Nat \ {0} /\ t < term
    BY <1>3, <1>4, InputFacts
  <2>4. blocks[k] = bs /\ IsHighest(l, max_term_weight[k])
    BY <1>1, <1>2, <2>3 DEF ListsInv
  <2>5. k \in DOMAIN blocks /\ k \in DOMAIN max_term_weight
    <3>1. k \in 1..Done(term)
      BY <1>3, <2>3, Places
    <3>2. Len(blocks) = Done(term) /\ Len(max_term_weight) = Done(term)
      BY <1>1, <1>2 DEF PlacesInv
    <3> QED BY <1>3, <3>1, <3>2, LenProperties
  <2>6. /\ DOMAIN bs = 1..Len(bs)
        /\ bs = [b \in 1..Len(bs) |-> [docid |-> bs[b].docid, score |-> bs[b].score]]
        /\ \A b \in 1..Len(bs) : \A s :
             [bs[b] EXCEPT !.score = s] = [docid |-> bs[b].docid, score |-> s]
    BY <2>3, StoredEntries
  <2> HIDE DEF bs, k
  <2>7. blocks'[k] = [b \in 1..Len(bs) |-> [docid |-> bs[b].docid, score |-> Stored(bs[b].score)]]
    <3>1. CASE input.format = "compressed"
      <4>1. blocks'[k] = [b \in DOMAIN bs |-> [bs[b] EXCEPT !.score = StepIndex(bs[b].score)]]
        BY <1>1, <2>4, <2>5, <3>1 DEF StoredBlocks, WithScores
      <4> QED BY <2>2, <2>6, <3>1, <4>1 DEF Stored
    <3>2. CASE input.format = "raw" /\ input.is_quantized
      <4>1. blocks'[k] = [b \in DOMAIN bs |-> [bs[b] EXCEPT !.score = Steps(bs[b].score)]]
        BY <1>1, <2>4, <2>5, <3>2 DEF StoredBlocks, WithScores
      <4> QED BY <2>2, <2>6, <3>2, <4>1 DEF Stored
    <3>3. CASE input.format # "compressed" /\ ~(input.format = "raw" /\ input.is_quantized)
      <4>1. blocks'[k] = bs
        BY <1>1, <2>4, <3>3 DEF StoredBlocks
      <4>2. \A s : Stored(s) = s
        BY <3>3 DEF Stored
      <4> QED BY <2>6, <4>1, <4>2
    <3> QED BY <3>1, <3>2, <3>3
  <2>8. /\ max_term_weight[k] \in {p.score : p \in Range(l)}
        /\ IsHighest(l, max_term_weight[k])
        /\ max_term_weight'[k] = IF input.is_quantized THEN Quantized(max_term_weight[k])
                                                      ELSE max_term_weight[k]
    <3>1. PICK j \in 1..Len(l) : l[j].score = max_term_weight[k]
      BY <2>4 DEF IsHighest
    <3>2. DOMAIN l = 1..Len(l)
      BY <2>3, ListFacts
    <3>3. max_term_weight[k] \in {p.score : p \in Range(l)}
      BY <3>1, <3>2 DEF Range
    <3> QED BY <1>1, <2>2, <2>4, <2>5, <3>3
  <2> QED BY <2>7, <2>8 DEF bs, k
<1> QED BY <1>6, <1>7, <1>8, <1>9, <1>10 DEF DataInv

\* Nothing else happens to the data.
LEMMA DataStutters == DataInv /\ UNCHANGED vars => DataInv'
<1> SUFFICES ASSUME DataInv, UNCHANGED vars PROVE DataInv'
  OBVIOUS
<1>1. /\ input' = input /\ pc' = pc /\ term' = term /\ i' = i
      /\ doc_to_range' = doc_to_range /\ current_block' = current_block
      /\ block_max_score' = block_max_score /\ current_range' = current_range
      /\ range_max_score' = range_max_score /\ blocks' = blocks /\ ranges' = ranges
      /\ max_term_weight' = max_term_weight
  BY DEF vars, locals
<1>2. /\ Kept' = Kept /\ ClusterMap' = ClusterMap /\ HighestScore' = HighestScore
      /\ List' = List /\ \A n : Done(n)' = Done(n)
  BY <1>1, SameInput DEF HighestScore, List
<1>3. \A s : Stored(s)' = Stored(s) /\ Quantized(s)' = Quantized(s)
  BY <1>1, <1>2 DEF Stored, Quantized
<1>4. BuilderTypeOK'
  BY <1>1 DEF DataInv, BuilderTypeOK
<1>5. MapInv'
  BY <1>1, MapEntries DEF DataInv
<1>6. PlacesInv'
  BY <1>1, <1>2 DEF DataInv, PlacesInv
<1>7. LoopInv'
  BY <1>1, <1>2 DEF DataInv, LoopInv
<1>8. ListsInv'
  BY <1>1, <1>2 DEF DataInv, ListsInv
<1>9. BuiltInv'
  BY <1>1, <1>2, <1>3 DEF DataInv, BuiltInv
<1> QED BY <1>4, <1>5, <1>6, <1>7, <1>8, <1>9 DEF DataInv

\* Every state of the construction: what the lists in the data and the list in hand
\* hold is what the postings read so far ask for.
THEOREM DataCorrect == Spec => []DataInv
<1>1. DataInv /\ [Next]_vars => DataInv'
  <2> SUFFICES ASSUME DataInv, [Next]_vars PROVE DataInv'
    OBVIOUS
  <2>1. CASE SkipList
    BY <2>1, SkipKeeps
  <2>2. CASE BeginList
    BY <2>2, BeginKeeps
  <2>3. CASE Refuse
    BY <2>3, RefuseKeeps
  <2>4. CASE AddPosting
    BY <2>4, PostingKeeps
  <2>5. CASE EndList
    BY <2>5, EndKeeps
  <2>6. CASE EndBuild
    BY <2>6, BuildKeeps
  <2>7. CASE Finished \/ UNCHANGED vars
    BY <2>7, DataStutters DEF Finished
  <2> QED BY <2>1, <2>2, <2>3, <2>4, <2>5, <2>6, <2>7 DEF Next
<1> QED BY <1>1, DataInit, PTL DEF Spec

-----------------------------------------------------------------------------
(* What a query may rely on.                                                *)

\* A step of the quantizer is not below the score, and a higher score has no lower step.
LEMMA QuantizeFacts ==
  ASSUME NEW max \in Nat \ {0}, NEW steps \in Nat \ {0}, NEW s \in Nat, NEW r \in Nat, r <= s
  PROVE  /\ Quantize(s, max, steps) \in Int
         /\ r * steps <= Quantize(s, max, steps) * max
         /\ Quantize(r, max, steps) <= Quantize(s, max, steps)
<1>1. PICK x \in Nat, y \in Nat : x = s * steps /\ y = r * steps /\ y <= x
  <2>1. s * steps \in Nat /\ r * steps \in Nat /\ r * steps <= s * steps
    OBVIOUS
  <2> QED BY <2>1
<1>2. PICK q \in Int : /\ q = (x + max - 1) \div max
                       /\ q * max <= x + max - 1 /\ x + max - 1 < q * max + max
  <2>1. PICK m \in Nat : m = x + max - 1
    OBVIOUS
  <2>2. /\ m \div max \in Int /\ (m \div max) * max <= m
        /\ m < (m \div max) * max + max
    BY SMT
  <2> QED BY <2>1, <2>2
<1>3. PICK z \in Int : /\ z = (y + max - 1) \div max /\ z * max <= y + max - 1
  <2>1. PICK m \in Nat : m = y + max - 1
    OBVIOUS
  <2>2. m \div max \in Int /\ (m \div max) * max <= m
    BY SMT
  <2> QED BY <2>1, <2>2
<1>4. y <= q * max
  <2>1. q * max \in Int
    OBVIOUS
  <2> QED BY <1>1, <1>2, <2>1
<1>5. z <= q
  <2>1. ASSUME z >= q + 1 PROVE FALSE
    <3>1. (q + 1) * max <= z * max /\ (q + 1) * max = q * max + max
      BY <2>1
    <3>2. q * max \in Int /\ z * max \in Int
      OBVIOUS
    <3> QED BY <1>1, <1>2, <1>3, <3>1, <3>2
  <2> QED BY <2>1
<1> QED BY <1>1, <1>2, <1>3, <1>4, <1>5 DEF Quantize

\* The scores of the lists that are kept are numbers up to the highest score.
LEMMA HighestFacts ==
  ASSUME input \in Inputs
  PROVE  /\ HighestScore \in Nat
         /\ \A t \in Kept : \A p \in Range(input.coll[t]) :
              /\ p.doc \in Nat /\ p.score \in Nat /\ p.score <= HighestScore
              /\ \E j \in 1..Len(input.coll[t]) : p = input.coll[t][j]
<1> DEFINE scores(t) == {p.score : p \in Range(input.coll[t])}
           C == {scores(t) : t \in Kept}
           S == {0} \cup UNION C
<1>1. \A t \in Kept : DOMAIN input.coll[t] = 1..Len(input.coll[t]) /\ Len(input.coll[t]) \in Nat
  BY InputFacts, ListFacts
<1>2. ASSUME NEW t \in Kept, NEW p \in Range(input.coll[t])
      PROVE  /\ p.doc \in Nat /\ p.score \in Nat
             /\ \E j \in 1..Len(input.coll[t]) : p = input.coll[t][j]
  <2>1. PICK j \in 1..Len(input.coll[t]) : p = input.coll[t][j]
    BY <1>1 DEF Range
  <2> QED BY <2>1, InputFacts, ListFacts
<1>3. ASSUME NEW t \in Kept PROVE IsFiniteSet(scores(t))
  <2> DEFINE n == Len(input.coll[t])
             f == [j \in 1..n |-> input.coll[t][j].score]
  <2>1. f \in Surjection(1..n, scores(t))
    BY <1>1 DEF Surjection, Range
  <2>2. IsFiniteSet(1..n)
    BY <1>1, FS_Interval
  <2> HIDE DEF f, scores
  <2> QED BY <2>1, <2>2, FS_Surjection
<1>4. IsFiniteSet(C)
  <2>1. [t \in Kept |-> scores(t)] \in Surjection(Kept, C)
    BY DEF Surjection
  <2>2. IsFiniteSet(Kept)
    <3>1. Len(input.coll) \in Nat /\ Kept \in SUBSET (1..Len(input.coll))
      BY InputFacts
    <3>2. IsFiniteSet(1..Len(input.coll))
      BY <3>1, FS_Interval
    <3> QED BY <3>1, <3>2, FS_Subset
  <2> HIDE DEF C
  <2> QED BY <2>1, <2>2, FS_Surjection
<1>5. IsFiniteSet(S)
  <2>1. \A T \in C : IsFiniteSet(T)
    BY <1>3
  <2> HIDE DEF C
  <2>2. PICK U : U = UNION C
    OBVIOUS
  <2>3. IsFiniteSet(U)
    BY <1>4, <2>1, <2>2, FS_UNION
  <2>4. IsFiniteSet(U \cup {0})
    BY <2>3, FS_AddElement
  <2>5. {0} \cup U = U \cup {0}
    OBVIOUS
  <2> QED BY <2>2, <2>4, <2>5
<1>6. S \in SUBSET Nat /\ 0 \in S
  BY <1>2
<1>7. Max(S) \in S /\ \A s \in S : s <= Max(S)
  <2> HIDE DEF S
  <2>1. S \in SUBSET Int
    BY <1>6
  <2> QED BY <1>5, <1>6, <2>1, MaxOfFinite
<1>8. HighestScore = Max(S)
  BY DEF HighestScore
<1>9. \A t \in Kept : \A p \in Range(input.coll[t]) : p.score \in S
  OBVIOUS
<1>10. Max(S) \in Nat
  <2> HIDE DEF S
  <2> QED BY <1>6, <1>7
<1> HIDE DEF S
<1> QED BY <1>2, <1>7, <1>8, <1>9, <1>10

\* Where scores are quantized some posting has one above 0, so the quantizer divides
\* by a number above 0.
LEMMA HighestAboveZero ==
  ASSUME input \in Inputs, input.is_quantized \/ input.format = "compressed",
         Kept # {}
  PROVE  HighestScore # 0
<1>1. IsScored(input)
  BY InputAssumption
<1>2. HighestScore \in Nat
  BY HighestFacts
<1>3. \A t \in Kept : /\ DOMAIN input.coll[t] = 1..Len(input.coll[t])
                      /\ Len(input.coll[t]) \in Nat \ {0}
  BY InputFacts, ListFacts
<1>4. \A t \in Kept : \A j \in DOMAIN input.coll[t] :
        input.coll[t][j].score \in Nat /\ input.coll[t][j].score <= HighestScore
  <2>1. \A t \in Kept : \A j \in DOMAIN input.coll[t] : input.coll[t][j] \in Range(input.coll[t])
    BY DEF Range
  <2> QED BY <2>1, HighestFacts
<1>5. CASE input.is_quantized
  <2>1. PICK t \in Kept : \E j \in DOMAIN input.coll[t] : input.coll[t][j].score > 0
    BY <1>1, <1>5 DEF IsScored, Kept
  <2>2. PICK j \in DOMAIN input.coll[t] : input.coll[t][j].score > 0
    BY <2>1
  <2> QED BY <1>2, <1>4, <2>2
<1>6. CASE input.format = "compressed"
  <2>1. PICK t \in Kept : TRUE
    OBVIOUS
  <2>2. 1 \in DOMAIN input.coll[t]
    BY <1>3
  <2>3. input.coll[t][1].score > 0
    BY <1>1, <1>6, <2>2 DEF IsScored, Kept
  <2> QED BY <1>2, <1>4, <2>2, <2>3
<1> QED BY <1>5, <1>6

\* What the data has for a list when it is built.
LEMMA BuiltList ==
  ASSUME DataInv, pc = "built", NEW t \in Kept,
         NEW bs, bs = Blocks(input.coll[t], input.block_size)
  PROVE  /\ input \in Inputs /\ IsList(input.coll[t])
         /\ Len(blocks[Place(input, t)]) = Len(bs)
         /\ \A b \in 1..Len(bs) : /\ blocks[Place(input, t)][b].docid = bs[b].docid
                                  /\ blocks[Place(input, t)][b].score = Stored(bs[b].score)
         /\ RangesBuilt(ClusterMap, input.coll[t], ranges[Place(input, t)])
         /\ Len(bs) \in Nat \ {0}
         /\ \A b \in 1..Len(bs) : bs[b].docid \in Nat /\ bs[b].score \in Nat
         /\ \A b \in 1..Len(bs) : \A j \in 1..Len(input.coll[t]) :
              /\ b = Len(bs) \/ bs[b].docid >= input.coll[t][j].doc
              /\ b = 1 \/ bs[b - 1].docid < input.coll[t][j].doc
              => input.coll[t][j].score <= bs[b].score
         /\ \A j \in 1..Len(input.coll[t]) : input.coll[t][j].doc <= bs[Len(bs)].docid
         /\ \A b \in 2..Len(bs) : bs[b - 1].docid < bs[b].docid
<1>1. input \in Inputs
  BY DEF DataInv, BuilderTypeOK
<1>2. IsList(input.coll[t]) /\ input.block_size \in Nat \ {0} /\ t \in 1..Len(input.coll)
      /\ Len(input.coll) \in Nat
  BY <1>1, InputFacts
<1>3. PICK l : l = input.coll[t]
  OBVIOUS
<1>4. /\ Len(bs) \in Nat \ {0}
      /\ \A b \in 1..Len(bs) : bs[b].docid \in Nat /\ bs[b].score \in Nat
      /\ \A b \in 1..Len(bs) : \A j \in 1..Len(l) :
           /\ b = Len(bs) \/ bs[b].docid >= l[j].doc
           /\ b = 1 \/ bs[b - 1].docid < l[j].doc
           => l[j].score <= bs[b].score
      /\ \A j \in 1..Len(l) : l[j].doc <= bs[Len(bs)].docid
      /\ \A b \in 2..Len(bs) : bs[b - 1].docid < bs[b].docid
  <2>1. PICK n \in Nat \ {0} :
          /\ n = Len(l)
          /\ \A j \in 1..n : l[j].doc \in Nat /\ l[j].score \in Nat
          /\ \A j, k \in 1..n : j < k => l[j].doc < l[k].doc
    BY <1>2, <1>3, ListFacts
  <2>2. PICK size \in Nat \ {0} : bs = Blocks(l, size)
    BY <1>2, <1>3
  <2> QED BY <2>1, <2>2, BlocksOfList
<1>5. blocks[Place(input, t)] = [b \in 1..Len(bs) |-> [docid |-> bs[b].docid,
                                                      score |-> Stored(bs[b].score)]]
  BY DEF DataInv, BuiltInv
<1>6. /\ Len(blocks[Place(input, t)]) = Len(bs)
      /\ \A b \in 1..Len(bs) : /\ blocks[Place(input, t)][b].docid = bs[b].docid
                               /\ blocks[Place(input, t)][b].score = Stored(bs[b].score)
  BY <1>4, <1>5
<1>7. RangesBuilt(ClusterMap, input.coll[t], ranges[Place(input, t)])
  <2>1. t < term
    BY <1>2 DEF DataInv, PlacesInv
  <2> QED BY <2>1 DEF DataInv, ListsInv
<1> QED BY <1>1, <1>2, <1>3, <1>4, <1>6, <1>7

\* A query that looks for a posting in the blocks of its list reads a bound that is
\* not below its score, and so is the bound of the list.
LEMMA BlocksBound == DataInv => BlockBoundsHold
<1> SUFFICES ASSUME DataInv, pc = "built",
                    ~(input.format = "compressed" /\ input.is_quantized),
                    NEW t \in Kept, NEW p \in Range(input.coll[t]),
                    NEW k, k = Place(input, t),
                    NEW b, b = BlockGeq(blocks[k], 1, p.doc)
             PROVE  /\ p.doc <= blocks[k][b].docid
                    /\ Covers(blocks[k][b].score, p)
                    /\ QueryScore(p) <= max_term_weight[k]
  BY DEF BlockBoundsHold
<1>1. PICK l, bs : l = input.coll[t] /\ bs = Blocks(input.coll[t], input.block_size)
  OBVIOUS
<1>2. /\ input \in Inputs /\ Len(blocks[k]) = Len(bs)
      /\ \A c \in 1..Len(bs) : /\ blocks[k][c].docid = bs[c].docid
                               /\ blocks[k][c].score = Stored(bs[c].score)
      /\ Len(bs) \in Nat \ {0}
      /\ \A c \in 1..Len(bs) : bs[c].docid \in Nat /\ bs[c].score \in Nat
      /\ \A c \in 1..Len(bs) : \A j \in 1..Len(l) :
           /\ c = Len(bs) \/ bs[c].docid >= l[j].doc
           /\ c = 1 \/ bs[c - 1].docid < l[j].doc
           => l[j].score <= bs[c].score
      /\ \A j \in 1..Len(l) : l[j].doc <= bs[Len(bs)].docid
  BY <1>1, BuiltList
<1>3. /\ HighestScore \in Nat /\ p.doc \in Nat /\ p.score \in Nat
      /\ p.score <= HighestScore
      /\ \E j \in 1..Len(l) : p = l[j]
  BY <1>1, <1>2, HighestFacts
<1>4. PICK j \in 1..Len(l) : p = l[j]
  BY <1>3
<1>5. PICK n \in Nat \ {0} : n = Len(bs)
  BY <1>2
<1>6. /\ b \in 1..n
      /\ b = n \/ blocks[k][b].docid >= p.doc
      /\ \A c \in 1..(b - 1) : ~(blocks[k][c].docid >= p.doc)
  <2>1. PICK B : B = blocks[k]
    OBVIOUS
  <2>2. Len(B) \in Nat /\ Len(B) = n /\ 1 \in 1..Len(B) /\ b = BlockGeq(B, 1, p.doc)
    BY <1>2, <1>5, <2>1
  <2>3. PICK lower : lower = p.doc
    OBVIOUS
  <2>4. /\ b \in 1..Len(B)
        /\ b = Len(B) \/ B[b].docid >= lower
        /\ \A c \in 1..(b - 1) : ~(B[c].docid >= lower)
    BY <2>2, <2>3, BlockGeqFacts
  <2> QED BY <2>1, <2>2, <2>3, <2>4
<1>7. p.doc <= blocks[k][b].docid /\ blocks[k][b].score = Stored(bs[b].score)
  BY <1>2, <1>3, <1>4, <1>5, <1>6
<1>8. p.score <= bs[b].score /\ bs[b].score \in Nat
  <2>1. b = 1 \/ bs[b - 1].docid < l[j].doc
    <3>1. CASE b # 1
      <4>1. b - 1 \in 1..n /\ b - 1 \in 1..(b - 1)
        BY <1>6, <3>1
      <4>2. ~(bs[b - 1].docid >= p.doc) /\ bs[b - 1].docid \in Nat
        BY <1>2, <1>5, <1>6, <4>1
      <4> QED BY <1>3, <1>4, <4>2
    <3> QED BY <3>1
  <2>2. b = Len(bs) \/ bs[b].docid >= l[j].doc
    BY <1>2, <1>4, <1>5, <1>6
  <2> QED BY <1>2, <1>4, <1>5, <1>6, <2>1, <2>2
<1>9. PICK m \in Nat : /\ p.score <= m
                       /\ max_term_weight[k] = IF input.is_quantized THEN Quantized(m) ELSE m
  <2>1. PICK m : /\ IsHighest(input.coll[t], m)
                 /\ max_term_weight[k] = IF input.is_quantized THEN Quantized(m) ELSE m
    BY DEF DataInv, BuiltInv
  <2> QED BY <1>1, <1>4, <2>1 DEF IsHighest
<1>10. /\ input.steps \in Nat \ {0} /\ input.is_quantized \in BOOLEAN
       /\ input.format \in {"raw", "compressed"}
  BY <1>2, InputFacts
<1>11. input.is_quantized \/ input.format = "compressed" => HighestScore \in Nat \ {0}
  BY <1>2, <1>3, HighestAboveZero
<1>12. ASSUME input.is_quantized \/ input.format = "compressed", NEW s \in Nat, p.score <= s
       PROVE  /\ Quantized(s) \in Int
              /\ p.score * input.steps <= Quantized(s) * HighestScore
              /\ Quantized(p.score) <= Quantized(s)
  <2>1. HighestScore \in Nat \ {0}
    BY <1>11, <1>12
  <2> QED BY <1>3, <1>10, <1>12, <2>1, QuantizeFacts DEF Quantized
<1>13. QueryScore(p) = IF input.is_quantized THEN Quantized(p.score) ELSE p.score
  BY DEF QueryScore, Quantized
<1>14. Covers(blocks[k][b].score, p)
  <2>1. CASE input.format = "compressed"
    <3>1. Stored(bs[b].score) = Quantized(bs[b].score) - 1
      BY <2>1 DEF Stored
    <3>2. /\ Quantized(bs[b].score) \in Int
          /\ p.score * input.steps <= Quantized(bs[b].score) * HighestScore
      BY <1>8, <1>12, <2>1
    <3>3. (Quantized(bs[b].score) - 1) + 1 = Quantized(bs[b].score)
      BY <3>2
    <3> QED BY <1>7, <2>1, <3>1, <3>2, <3>3 DEF Covers
  <2>2. CASE input.format # "compressed" /\ input.is_quantized
    <3>1. Stored(bs[b].score) = Quantized(bs[b].score)
      BY <1>10, <2>2 DEF Stored
    <3>2. Quantized(p.score) <= Quantized(bs[b].score)
      BY <1>8, <1>12, <2>2
    <3> QED BY <1>7, <1>13, <2>2, <3>1, <3>2 DEF Covers
  <2>3. CASE input.format # "compressed" /\ ~input.is_quantized
    <3>1. Stored(bs[b].score) = bs[b].score
      BY <2>3 DEF Stored
    <3> QED BY <1>7, <1>8, <1>13, <2>3, <3>1 DEF Covers
  <2> QED BY <2>1, <2>2, <2>3
<1>15. QueryScore(p) <= max_term_weight[k]
  <2>1. CASE input.is_quantized
    <3>1. Quantized(p.score) <= Quantized(m)
      BY <1>9, <1>12, <2>1
    <3> QED BY <1>9, <1>13, <2>1, <3>1
  <2>2. CASE ~input.is_quantized
    BY <1>9, <1>13, <2>2
  <2> QED BY <2>1, <2>2
<1> QED BY <1>7, <1>14, <1>15

\* Unquantized blocks are those of the partition.
LEMMA BlocksExact == DataInv => BlocksAsSpecified
<1> SUFFICES ASSUME DataInv, pc = "built", input.format = "raw", ~input.is_quantized,
                    NEW t \in Kept
             PROVE  LET bs == blocks[Place(input, t)]
                    IN /\ bs = Blocks(input.coll[t], input.block_size)
                       /\ \A b \in 2..Len(bs) : bs[b - 1].docid < bs[b].docid
  BY DEF BlocksAsSpecified
<1>1. PICK bs : bs = Blocks(input.coll[t], input.block_size)
  OBVIOUS
<1>2. \A b \in 2..Len(bs) : bs[b - 1].docid < bs[b].docid
  BY <1>1, BuiltList
<1>3. bs = [b \in 1..Len(bs) |-> [docid |-> bs[b].docid, score |-> bs[b].score]]
  <2>1. IsList(input.coll[t]) /\ input.block_size \in Nat \ {0}
    <3>1. input \in Inputs
      BY DEF DataInv, BuilderTypeOK
    <3> QED BY <3>1, InputFacts
  <2> QED BY <1>1, <2>1, StoredEntries
<1>4. blocks[Place(input, t)] = [b \in 1..Len(bs) |-> [docid |-> bs[b].docid,
                                                      score |-> Stored(bs[b].score)]]
  BY <1>1 DEF DataInv, BuiltInv
<1>5. \A s : Stored(s) = s
  BY DEF Stored
<1>6. blocks[Place(input, t)] = bs
  BY <1>3, <1>4, <1>5
<1> QED BY <1>1, <1>2, <1>6

\* A search for a cluster in the ranges of a list.
LEMMA RangeScoreFacts ==
  ASSUME NEW rs \in Seq(RangeEntry), rs # <<>>, NEW id \in Nat
  PROVE  /\ \A e \in 1..Len(rs) : /\ rs[e].id = id
                                  /\ \A f \in 1..(e - 1) : rs[f].id < rs[e].id
                                  => RangeScore(rs, id) = rs[e].score
         /\ RangeScore(rs, id) # 0 =>
              \E e \in 1..Len(rs) : rs[e].id = id /\ RangeScore(rs, id) = rs[e].score
<1> DEFINE S == {e \in 1..Len(rs) : e = Len(rs) \/ rs[e].id >= id}
           at == Min(S)
<1>1. Len(rs) \in Nat \ {0} /\ \A e \in 1..Len(rs) : rs[e].id \in Nat
  <2>1. Len(rs) \in Nat \ {0}
    BY EmptySeq
  <2>2. \A e \in 1..Len(rs) : rs[e] \in RangeEntry
    BY ElementOfSeq
  <2> QED BY <2>1, <2>2 DEF RangeEntry
<1>2. S \in SUBSET Nat /\ Len(rs) \in S
  BY <1>1
<1>3. at \in S /\ \A e \in S : at <= e
  <2> HIDE DEF S
  <2> QED BY <1>2, MinOfNaturals
<1>4. RangeScore(rs, id) = IF rs[at].id = id THEN rs[at].score ELSE 0
  BY DEF RangeScore
<1> HIDE DEF at
<1>5. at \in 1..Len(rs) /\ (at = Len(rs) \/ rs[at].id >= id)
  BY <1>3
<1>6. ASSUME NEW e \in 1..Len(rs), rs[e].id = id,
             \A f \in 1..(e - 1) : rs[f].id < rs[e].id
      PROVE  RangeScore(rs, id) = rs[e].score
  <2>1. e \in S
    BY <1>1, <1>6
  <2>2. at <= e
    BY <1>3, <2>1
  <2>3. ASSUME at # e PROVE FALSE
    <3>1. at \in 1..(e - 1) /\ at # Len(rs)
      BY <1>1, <1>5, <2>2, <2>3
    <3>2. rs[at].id < id /\ rs[at].id >= id /\ rs[at].id \in Nat
      BY <1>1, <1>5, <1>6, <3>1
    <3> QED BY <3>2
  <2> QED BY <1>4, <1>6, <2>3
<1> QED BY <1>4, <1>5, <1>6

\* The bound of a range is not below a posting a query visits in it, and none above 0
\* is looser than the best posting of the cluster.
LEMMA RangesBound == DataInv => RangeBounds
<1> SUFFICES ASSUME DataInv, pc = "built", NEW t \in Kept
             PROVE  /\ \A c \in DOMAIN AllRanges(input.clusters) :
                         \A p \in Range(input.coll[t]) :
                           InRange(AllRanges(input.clusters)[c], p.doc) =>
                             p.score <= RangeScore(ranges[Place(input, t)], c - 1)
                    /\ \A c \in DOMAIN input.clusters :
                         LET bound == RangeScore(ranges[Place(input, t)], c - 1)
                         IN bound > 0 =>
                              \E p \in Range(input.coll[t]) :
                                /\ p.score = bound
                                /\ IF p.doc \in DOMAIN DocToRange(input.clusters)
                                     THEN DocToRange(input.clusters)[p.doc] = c - 1
                                     ELSE c = 1
  BY DEF RangeBounds, RangeBoundsHold, RangeBoundsTight
<1>1. PICK l, rs, ends, map : /\ l = input.coll[t] /\ rs = ranges[Place(input, t)]
                              /\ ends = input.clusters /\ map = DocToRange(ends)
  OBVIOUS
<1>2. input \in Inputs /\ IsList(l) /\ RangesBuilt(map, l, rs)
  BY <1>1, BuiltList DEF ClusterMap
<1>3. /\ ends \in Seq(Nat) /\ \A b, c \in DOMAIN ends : b < c => ends[b] <= ends[c]
  BY <1>1, <1>2, InputFacts
<1>4. /\ rs \in Seq(RangeEntry) /\ rs # <<>>
      /\ \A j \in 1..Len(l) : l[j].doc \in DOMAIN map => Bounded(map, rs, l[j])
      /\ \A e \in 1..Len(rs) : Attained(map, l, Len(l), rs[e].id, rs[e].score)
  BY <1>2 DEF RangesBuilt
<1>5. Len(ends) \in Nat /\ DOMAIN ends = 1..Len(ends) /\ DOMAIN AllRanges(ends) = 1..Len(ends)
  BY <1>3, LenProperties DEF AllRanges
<1>6. ASSUME NEW c \in 1..Len(ends), NEW p \in Range(l), InRange(AllRanges(ends)[c], p.doc)
      PROVE  p.score <= RangeScore(rs, c - 1)
  <2>1. PICK j \in 1..Len(l) : p = l[j]
    BY <1>1, <1>2, HighestFacts
  <2>2. PICK d \in Nat : d = p.doc
    BY <1>2, <2>1, ListFacts
  <2>3. d \in DOMAIN map /\ map[d] = c - 1
    BY <1>1, <1>3, <1>6, <2>2, RangesInClusters
  <2>4. PICK e \in 1..Len(rs) : /\ rs[e].id = map[l[j].doc] /\ l[j].score <= rs[e].score
                                /\ \A f \in 1..(e - 1) : rs[f].id < rs[e].id
    BY <1>4, <2>1, <2>2, <2>3 DEF Bounded
  <2>5. c - 1 \in Nat
    BY <1>5
  <2>6. RangeScore(rs, c - 1) = rs[e].score
    BY <1>4, <2>1, <2>2, <2>3, <2>4, <2>5, RangeScoreFacts
  <2> QED BY <2>1, <2>4, <2>6
<1>7. ASSUME NEW c \in 1..Len(ends), RangeScore(rs, c - 1) > 0
      PROVE  \E p \in Range(l) :
               /\ p.score = RangeScore(rs, c - 1)
               /\ IF p.doc \in DOMAIN map THEN map[p.doc] = c - 1 ELSE c = 1
  <2>1. c - 1 \in Nat
    BY <1>5
  <2>2. PICK e \in 1..Len(rs) : rs[e].id = c - 1 /\ RangeScore(rs, c - 1) = rs[e].score
    BY <1>4, <1>7, <2>1, RangeScoreFacts
  <2>3. PICK j \in 1..Len(l) : l[j].score = rs[e].score /\ At(map, l[j].doc) = c - 1
    BY <1>4, <1>7, <2>2 DEF Attained
  <2>4. l[j] \in Range(l)
    BY <1>2, ListFacts DEF Range
  <2>5. IF l[j].doc \in DOMAIN map THEN map[l[j].doc] = c - 1 ELSE c = 1
    BY <2>1, <2>3 DEF At
  <2> QED BY <2>2, <2>3, <2>4, <2>5
<1> QED BY <1>1, <1>5, <1>6, <1>7

\* Whatever the collection, the clusters, the size of a block and the format: when the
\* data is built, next_geq and global_geq lead every posting to a block whose bound
\* covers its score, and the bound of the list does.
THEOREM BlockBoundsCorrect == Spec => []BlockBoundsHold
BY DataCorrect, BlocksBound, PTL

\* The one pass over the postings builds the blocks of the partition.
THEOREM BlocksCorrect == Spec => []BlocksAsSpecified
BY DataCorrect, BlocksExact, PTL

\* The bounds of the ranges hold and are tight, whatever the clusters and however the
\* reads of doc_to_range extend the map.
THEOREM RangeBoundsCorrect == Spec => []RangeBounds
BY DataCorrect, RangesBound, PTL
=============================================================================
