-------------------------- MODULE RangeQuery_proofs --------------------------
(***************************************************************************)
(* What wand_query, block_max_wand_query and maxscore_query promise, for   *)
(* collections, clusters and results of any number, and what the proofs    *)
(* about all algorithms share: where a cursor goes, that the bounds of the *)
(* wand data hold, what an insertion does to the documents decided, and    *)
(* how a range is entered.                                                 *)
(*                                                                         *)
(* An algorithm is an instance of its module, with copies of the operators *)
(* of RangeQuery; the lemmas named after its actions say them in           *)
(* RangeQuery's own.                                                       *)
(***************************************************************************)
EXTENDS QueryAlgorithms, CommonFacts

-----------------------------------------------------------------------------
(* The call.                                                                *)

\* The call is one of the inputs, with the wand data of its lists, and the
\* documents D are ranked.
Call(D) ==
  /\ q \in Inputs
  /\ wdata = WandDataOf(q.post, q.block_size)
  /\ corpus = CorpusOver(D)

\* What the assumption on inputs says of the call in hand.
LEMMA CallTypes ==
  ASSUME q \in Inputs
  PROVE  /\ \A t \in Term : Docs(t) \in SUBSET Doc /\ Docs(t) # {}
         /\ \A t \in Term : \A d \in Docs(t) : q.post[t][d] \in Nat \ {0}
         /\ q.weight \in [Term -> Nat \ {0}]
         /\ q.block_size \in Nat \ {0}
         /\ q.kind \in Kind /\ q.selected \in Seq(Cluster)
         /\ q.threshold \in Nat /\ q.max_clusters \in Nat /\ q.timeout \in Nat
         /\ q.risk \in Nat /\ q.range_size \in Nat
<1>1. /\ DOMAIN q.post = Term /\ \A t \in Term : IsList(q.post[t])
      /\ q.weight \in [Term -> Nat \ {0}]
      /\ q.block_size \in Nat \ {0}
      /\ q.kind \in Kind /\ q.selected \in Seq(Cluster)
      /\ {q.threshold, q.max_clusters, q.timeout, q.risk, q.range_size} \subseteq Nat
  BY InputAssumption, Zenon
<1>2. \A t \in Term : Docs(t) \in SUBSET Doc /\ Docs(t) # {}
  BY <1>1 DEF IsList, Docs
<1>3. \A t \in Term : \A d \in Docs(t) : q.post[t][d] \in Nat \ {0}
  BY <1>1 DEF IsList, Docs
<1> QED BY <1>1, <1>2, <1>3

\* A score is a natural number, and not zero just when there is a posting.
LEMMA ScoreTypes ==
  ASSUME q \in Inputs
  PROVE  \A t \in Term : \A d : Score(t, d) \in Nat /\ (d \in Docs(t) <=> Score(t, d) > 0)
BY CallTypes DEF Score

\* The call does not change.
LEMMA SameCall ==
  ASSUME UNCHANGED inputVars
  PROVE  /\ \A t : Docs(t)' = Docs(t)
         /\ \A t, d : Score(t, d)' = Score(t, d) /\ Geq(t, d)' = Geq(t, d)
         /\ \A d : FullScore(d)' = FullScore(d)
         /\ \A D : Call(D) => Call(D)'
BY DEF inputVars, Docs, Score, Geq, FullScore, Call, CorpusOver, WandDataOf, ScoreOver,
       Highest, Scope, Docs, Score

-----------------------------------------------------------------------------
(* Cursors.                                                                 *)

\* Where a cursor stands: at a posting or past the last one.
CursorsInLists ==
  /\ docid \in [Term -> Nat]
  /\ \A t \in Term : docid[t] \in Docs(t) \cup {max_docid}

\* geq goes to the first posting from a document on.
LEMMA GeqFacts ==
  ASSUME q \in Inputs
  PROVE  \A t \in Term : \A d \in Nat :
           /\ Geq(t, d) \in Docs(t) \cup {max_docid}
           /\ Geq(t, d) \in Nat /\ Geq(t, d) <= max_docid
           /\ d <= max_docid => d <= Geq(t, d)
           /\ \A e \in Docs(t) : d <= e => Geq(t, d) <= e
           /\ d \in Docs(t) => Geq(t, d) = d
<1> SUFFICES ASSUME NEW t \in Term, NEW d \in Nat
             PROVE  /\ Geq(t, d) \in Docs(t) \cup {max_docid}
                    /\ Geq(t, d) \in Nat /\ Geq(t, d) <= max_docid
                    /\ d <= max_docid => d <= Geq(t, d)
                    /\ \A e \in Docs(t) : d <= e => Geq(t, d) <= e
                    /\ d \in Docs(t) => Geq(t, d) = d
  OBVIOUS
<1> DEFINE S == {e \in Docs(t) : d <= e} \cup {max_docid}
<1>1. Docs(t) \in SUBSET (0..(max_docid - 1)) /\ max_docid \in Nat
  BY CallTypes, DocAssumption
<1>2. S \in SUBSET Nat /\ S # {}
  BY <1>1
<1>3. Geq(t, d) = Min(S)
  BY DEF Geq
<1>4. Min(S) \in S /\ \A n \in S : Min(S) <= n
  <2> HIDE DEF S
  <2> QED BY <1>2, MinOfNaturals
<1> QED BY <1>1, <1>3, <1>4

\* The greater of two numbers.
LEMMA MaxOfTwo ==
  ASSUME NEW a \in Nat, NEW b \in Nat
  PROVE  Max({a, b}) = IF a <= b THEN b ELSE a
BY DEF Max

\* There is nothing behind the last document.
LEMMA GeqPast ==
  ASSUME q \in Inputs, NEW t \in Term, NEW d \in Nat, ~(d <= max_docid)
  PROVE  Geq(t, d) = max_docid
<1>1. Geq(t, d) \in Docs(t) \cup {max_docid} /\ Docs(t) \in SUBSET (0..(max_docid - 1))
  BY GeqFacts, CallTypes, DocAssumption
<1>2. {e \in Docs(t) : d <= e} = {} /\ max_docid \in Nat
  BY <1>1, DocAssumption
<1>3. Geq(t, d) = Min({max_docid})
  BY <1>2 DEF Geq
<1> QED BY <1>2, <1>3, MinOfNaturals

\* next_geq does not move a cursor back and goes to the first posting from a
\* document on; next goes behind the one in hand.
LEMMA NextFacts ==
  ASSUME q \in Inputs, CursorsInLists
  PROVE  \A t \in Term :
           /\ docid[t] \in Nat /\ docid[t] <= max_docid
           /\ \A d \in Nat :
                /\ NextGeq(t, d) \in Docs(t) \cup {max_docid}
                /\ NextGeq(t, d) \in Nat /\ NextGeq(t, d) <= max_docid
                /\ \A c \in 0..max_docid : c <= d => c <= NextGeq(t, d)
                /\ docid[t] <= NextGeq(t, d)
                /\ \A e \in Docs(t) : d <= e /\ docid[t] <= e => NextGeq(t, d) <= e
           /\ NextPosting(t) \in Docs(t) \cup {max_docid}
           /\ NextPosting(t) \in Nat /\ NextPosting(t) <= max_docid
           /\ docid[t] < max_docid => docid[t] < NextPosting(t)
           /\ \A e \in Docs(t) : docid[t] < e => NextPosting(t) <= e
<1> SUFFICES ASSUME NEW t \in Term
             PROVE  /\ docid[t] \in Nat /\ docid[t] <= max_docid
                    /\ \A d \in Nat :
                         /\ NextGeq(t, d) \in Docs(t) \cup {max_docid}
                         /\ NextGeq(t, d) \in Nat /\ NextGeq(t, d) <= max_docid
                         /\ \A c \in 0..max_docid : c <= d => c <= NextGeq(t, d)
                         /\ docid[t] <= NextGeq(t, d)
                         /\ \A e \in Docs(t) : d <= e /\ docid[t] <= e => NextGeq(t, d) <= e
                    /\ NextPosting(t) \in Docs(t) \cup {max_docid}
                    /\ NextPosting(t) \in Nat /\ NextPosting(t) <= max_docid
                    /\ docid[t] < max_docid => docid[t] < NextPosting(t)
                    /\ \A e \in Docs(t) : docid[t] < e => NextPosting(t) <= e
  OBVIOUS
<1>1. Docs(t) \in SUBSET (0..(max_docid - 1)) /\ max_docid \in Nat
  BY CallTypes, DocAssumption
<1>2. docid[t] \in Nat /\ docid[t] <= max_docid
  BY <1>1 DEF CursorsInLists
<1>3. ASSUME NEW d \in Nat
      PROVE  /\ NextGeq(t, d) \in Docs(t) \cup {max_docid}
             /\ NextGeq(t, d) \in Nat /\ NextGeq(t, d) <= max_docid
             /\ \A c \in 0..max_docid : c <= d => c <= NextGeq(t, d)
             /\ docid[t] <= NextGeq(t, d)
             /\ \A e \in Docs(t) : d <= e /\ docid[t] <= e => NextGeq(t, d) <= e
  <2> DEFINE m == IF d <= docid[t] THEN docid[t] ELSE d
  <2>1. m \in Nat /\ d <= m /\ docid[t] <= m /\ (d <= max_docid => m <= max_docid)
    BY <1>1, <1>2
  <2>2. NextGeq(t, d) = Geq(t, m)
    BY <1>2, MaxOfTwo DEF NextGeq
  <2>3. \A e \in Docs(t) : e \in Nat
    BY <1>1
  <2>4. /\ Geq(t, m) \in Docs(t) \cup {max_docid}
        /\ Geq(t, m) \in Nat /\ Geq(t, m) <= max_docid
        /\ m <= max_docid => m <= Geq(t, m)
        /\ \A e \in Docs(t) : m <= e => Geq(t, m) <= e
    BY <2>1, GeqFacts
  <2>5. (\A c \in 0..max_docid : c <= d => c <= Geq(t, m)) /\ docid[t] <= Geq(t, m)
    <3>1. CASE m <= max_docid
      BY <1>1, <1>2, <2>1, <2>4, <3>1
    <3>2. CASE ~(m <= max_docid)
      <4>1. d > max_docid /\ m = d
        BY <1>1, <1>2, <2>1, <3>2
      <4>2. Geq(t, m) = max_docid
        BY <1>1, <2>1, <2>3, <2>4, <3>2, GeqPast
      <4> QED BY <1>1, <1>2, <4>1, <4>2
    <3> QED BY <3>1, <3>2
  <2> QED BY <1>1, <1>2, <2>2, <2>3, <2>4, <2>5
<1>4. /\ NextPosting(t) \in Docs(t) \cup {max_docid}
      /\ NextPosting(t) \in Nat /\ NextPosting(t) <= max_docid
      /\ docid[t] < max_docid => docid[t] < NextPosting(t)
      /\ \A e \in Docs(t) : docid[t] < e => NextPosting(t) <= e
  <2>1. docid[t] + 1 \in Nat /\ \A e \in Docs(t) : e \in Nat
    BY <1>1, <1>2
  <2>2. /\ Geq(t, docid[t] + 1) \in Docs(t) \cup {max_docid}
        /\ Geq(t, docid[t] + 1) \in Nat /\ Geq(t, docid[t] + 1) <= max_docid
        /\ docid[t] + 1 <= max_docid => docid[t] + 1 <= Geq(t, docid[t] + 1)
        /\ \A e \in Docs(t) : docid[t] + 1 <= e => Geq(t, docid[t] + 1) <= e
    BY <2>1, GeqFacts
  <2> QED BY <1>1, <1>2, <2>1, <2>2 DEF NextPosting
<1> QED BY <1>2, <1>3, <1>4

-----------------------------------------------------------------------------
(* Scores and bounds.                                                       *)

\* The score over some of the terms is a part of the sum over all of them.
LEMMA ScoreOverTerms ==
  ASSUME q \in Inputs, NEW S \in SUBSET Term, NEW d
  PROVE  /\ ScoreOver(S, d) = SumFunctionOnSet([t \in Term |-> Score(t, d)], S)
         /\ ScoreOver(S, d) \in Nat
<1> DEFINE f == [t \in Term |-> Score(t, d)]
           g == [t \in S |-> Score(t, d)]
<1>1. IsFiniteSet(S)
  BY TermAssumption, FS_Subset
<1>2. \A t \in S : g[t] \in Int /\ g[t] = f[t]
  BY ScoreTypes
<1>3. \A t \in S : g[t] \in Nat
  BY ScoreTypes
<1>4. SumFunctionOnSet(g, S) = SumFunctionOnSet(f, S) /\ SumFunctionOnSet(g, S) \in Nat
  <2> HIDE DEF f, g
  <2> QED BY <1>1, <1>2, <1>3, SumEqual, SumNat
<1> QED BY <1>4 DEF ScoreOver

\* The score of a document is the score over the terms that have it, and more
\* terms do not lower it.
LEMMA ScoreOverMonotonic ==
  ASSUME q \in Inputs, NEW S \in SUBSET Term, NEW U \in SUBSET S, NEW d
  PROVE  /\ ScoreOver(U, d) <= ScoreOver(S, d)
         /\ (\A t \in S \ U : d \notin Docs(t)) => ScoreOver(U, d) = ScoreOver(S, d)
<1> DEFINE f == [t \in Term |-> Score(t, d)]
<1>1. IsFiniteSet(S)
  BY TermAssumption, FS_Subset
<1>2. \A t \in S : f[t] \in Nat /\ (d \notin Docs(t) => f[t] = 0)
  BY ScoreTypes
<1>3. /\ ScoreOver(S, d) = SumFunctionOnSet(f, S)
      /\ ScoreOver(U, d) = SumFunctionOnSet(f, U)
  BY ScoreOverTerms
<1>4. /\ SumFunctionOnSet(f, U) <= SumFunctionOnSet(f, S)
      /\ (\A t \in S \ U : f[t] = 0) => SumFunctionOnSet(f, U) = SumFunctionOnSet(f, S)
  <2> HIDE DEF f
  <2> QED BY <1>1, <1>2, SumOfPart
<1> QED BY <1>2, <1>3, <1>4

\* A document scores nothing when no list has it.
LEMMA NoPostingNoScore ==
  ASSUME q \in Inputs, NEW S \in SUBSET Term, NEW d, \A t \in S : d \notin Docs(t)
  PROVE  ScoreOver(S, d) = 0
<1>1. ScoreOver({}, d) = 0
  BY SumUnfolds, FS_EmptySet DEF ScoreOver
<1> QED BY <1>1, ScoreOverMonotonic

\* The terms A, with bounds on their scores, have all that a document scores.
LEMMA ScoreBounded ==
  ASSUME q \in Inputs, NEW S \in SUBSET Term, NEW A \in SUBSET Term, NEW f, NEW d,
         \A t \in A : f[t] \in Nat /\ Score(t, d) <= f[t],
         \A t \in S : d \in Docs(t) => t \in A
  PROVE  ScoreOver(S, d) <= SumFunctionOnSet(f, A)
<1> DEFINE g == [t \in Term |-> Score(t, d)]
<1>1. IsFiniteSet(A)
  BY TermAssumption, FS_Subset
<1>2. \A t \in A : g[t] \in Int /\ f[t] \in Int /\ g[t] <= f[t]
  BY ScoreTypes
<1>3. SumFunctionOnSet(g, A) <= SumFunctionOnSet(f, A)
  <2> HIDE DEF g
  <2> QED BY <1>1, <1>2, SumMonotonic
<1>4. ScoreOver(A, d) = SumFunctionOnSet(g, A) /\ ScoreOver(A, d) \in Nat
  BY ScoreOverTerms
<1>5. ScoreOver(S, d) = ScoreOver(S \cap A, d) /\ ScoreOver(S \cap A, d) <= ScoreOver(A, d)
  BY ScoreOverMonotonic
<1>6. SumFunctionOnSet(f, A) \in Nat /\ ScoreOver(S, d) \in Nat
  BY <1>1, SumNat, ScoreOverTerms
<1> QED BY <1>3, <1>4, <1>5, <1>6

\* Sums of the bounds of the cursors.
LEMMA SumOfBoundsFacts ==
  ASSUME max_score \in [Term -> Nat]
  PROVE  \A S \in SUBSET Term :
           /\ SumOfBounds(S) \in Nat
           /\ \A U \in SUBSET S : SumOfBounds(U) <= SumOfBounds(S)
<1> SUFFICES ASSUME NEW S \in SUBSET Term
             PROVE  /\ SumOfBounds(S) \in Nat
                    /\ \A U \in SUBSET S : SumOfBounds(U) <= SumOfBounds(S)
  OBVIOUS
<1>1. IsFiniteSet(S) /\ \A t \in S : max_score[t] \in Nat
  BY TermAssumption, FS_Subset
<1> QED BY <1>1, SumNat, SumOfPart DEF SumOfBounds

\* The highest score of the documents D bounds each of them.
LEMMA HighestFacts ==
  ASSUME q \in Inputs, NEW t \in Term, NEW D \in SUBSET Doc
  PROVE  /\ Highest(t, D) \in Nat
         /\ \A d \in D : Score(t, d) <= Highest(t, D)
<1> DEFINE f == [d \in D |-> Score(t, d)]
           S == {Score(t, d) : d \in D}
<1>1. IsFiniteSet(D)
  <2>1. IsFiniteSet(Doc)
    BY DocAssumption, FS_Interval
  <2> QED BY <2>1, FS_Subset
<1>2. f \in Surjection(D, S)
  BY DEF Surjection
<1>3. IsFiniteSet(S)
  BY <1>1, <1>2, FS_Surjection
<1>4. IsFiniteSet({0} \cup S) /\ {0} \cup S \in SUBSET Nat /\ {0} \cup S # {}
  <2>1. IsFiniteSet(S \cup {0}) /\ S \cup {0} = {0} \cup S
    BY <1>3, FS_AddElement
  <2> QED BY <2>1, ScoreTypes
<1>5. Max({0} \cup S) \in {0} \cup S /\ \A n \in {0} \cup S : n <= Max({0} \cup S)
  <2>1. {0} \cup S \in SUBSET Int
    BY <1>4
  <2> HIDE DEF S
  <2> QED BY <1>4, <2>1, MaxOfFinite
<1> QED BY <1>4, <1>5 DEF Highest

\* A bound counted more than once is no lower.
LEMMA TimesWeight ==
  ASSUME NEW w \in Nat \ {0}, NEW n \in Nat
  PROVE  w * n \in Nat /\ n <= w * n
<1>1. w * n = (w - 1) * n + n /\ w - 1 \in Nat
  OBVIOUS
<1>2. (w - 1) * n \in Nat
  BY <1>1
<1> QED BY <1>1, <1>2

\* The bound of a list holds for every document.
LEMMA ListBoundHolds ==
  ASSUME NEW CONSTANT D, Call(D)
  PROVE  \A t \in Term : ListBound(t) \in Nat /\ \A d \in Doc : Score(t, d) <= ListBound(t)
<1> SUFFICES ASSUME NEW t \in Term
             PROVE  ListBound(t) \in Nat /\ \A d \in Doc : Score(t, d) <= ListBound(t)
  OBVIOUS
<1>1. wdata.list[t] = Highest(t, Doc)
  BY DEF Call, WandDataOf
<1>2. wdata.list[t] \in Nat /\ \A d \in Doc : Score(t, d) <= wdata.list[t]
  BY <1>1, HighestFacts DEF Call
<1>3. q.weight[t] \in Nat \ {0}
  BY CallTypes DEF Call
<1>4. ListBound(t) \in Nat /\ wdata.list[t] <= ListBound(t)
  BY <1>2, <1>3, TimesWeight DEF ListBound
<1>5. \A d \in Doc : Score(t, d) \in Nat
  BY ScoreTypes DEF Call
<1> QED BY <1>2, <1>4, <1>5

\* A query takes a document to be in a range only if the wand data does.
LEMMA RangeIsCluster ==
  ASSUME NEW c \in Cluster, NEW d \in Scope(RangeOf[c])
  PROVE  d \in DOMAIN ClusterOf /\ ClusterOf[d] = c - 1
<1>1. Ends \in Seq(Nat) /\ \A b, e \in DOMAIN Ends : b < e => Ends[b] <= Ends[e]
  BY EndsAssumption, DocAssumption
<1>2. c \in 1..Len(Ends)
  BY EndsAssumption DEF Cluster
<1>3. d \in Nat /\ InRange(AllRanges(Ends)[c], d)
  BY DocAssumption DEF Scope, RangeOf
<1> QED BY <1>1, <1>2, <1>3, RangesInClusters DEF ClusterOf

\* The clusters hold documents of the collection.
LEMMA ClusterInDocs == DOMAIN ClusterOf \in SUBSET Doc
<1> DEFINE ends == 1..Len(Ends)
           T == {Ends[e] : e \in ends}
           M == {m \in 0..(IF ends = {} THEN 0 ELSE Max(T)) : \E e \in ends : m < Ends[e]}
<1>1. /\ \A e \in ends : Ends[e] \in Nat /\ Ends[e] <= max_docid
      /\ max_docid \in Nat /\ Doc = 0..(max_docid - 1)
  BY EndsAssumption, DocAssumption
<1>2. DOMAIN ClusterOf = M
  BY DEF ClusterOf, DocToRange
<1>3. ASSUME NEW m \in M PROVE m \in Doc
  <2>1. ends # {} /\ T # {} /\ T \in SUBSET Nat /\ \A n \in T : n <= max_docid
    BY <1>1
  <2>2. Max(T) \in Nat
    <3> HIDE DEF T
    <3> QED BY <1>1, <2>1, MaxOfBounded
  <2>3. m \in Nat /\ \E e \in ends : m < Ends[e]
    BY <2>1, <2>2
  <2> QED BY <1>1, <2>3
<1> QED BY <1>2, <1>3

\* The bound of a range holds for every document of the range.
LEMMA RangeBoundHolds ==
  ASSUME NEW CONSTANT D, Call(D), NEW c \in Cluster
  PROVE  \A t \in Term :
           /\ wdata.range[t][c] \in Nat
           /\ RangeBound(t, c) \in Nat /\ wdata.range[t][c] <= RangeBound(t, c)
           /\ \A d \in Scope(RangeOf[c]) :
                Score(t, d) <= wdata.range[t][c] /\ Score(t, d) <= RangeBound(t, c)
<1> SUFFICES ASSUME NEW t \in Term
             PROVE  /\ wdata.range[t][c] \in Nat
                    /\ RangeBound(t, c) \in Nat /\ wdata.range[t][c] <= RangeBound(t, c)
                    /\ \A d \in Scope(RangeOf[c]) :
                         Score(t, d) <= wdata.range[t][c] /\ Score(t, d) <= RangeBound(t, c)
  OBVIOUS
<1> DEFINE M == {d \in DOMAIN ClusterOf : ClusterOf[d] = c - 1}
           S == {d \in Docs(t) : d \in M}
<1>1. wdata.range[t][c] = Highest(t, M)
  BY DEF Call, WandDataOf
<1>2. wdata.range[t][c] \in Nat /\ \A d \in M : Score(t, d) <= wdata.range[t][c]
  <2>1. M \in SUBSET Doc
    BY ClusterInDocs
  <2> HIDE DEF M
  <2> QED BY <1>1, <2>1, HighestFacts DEF Call
<1>3. q.weight[t] \in Nat \ {0}
  BY CallTypes DEF Call
<1>4. RangeBound(t, c) \in Nat /\ wdata.range[t][c] <= RangeBound(t, c)
  BY <1>2, <1>3, TimesWeight DEF RangeBound
<1>5. \A d \in Scope(RangeOf[c]) : d \in M /\ Score(t, d) \in Nat
  BY ScoreTypes, RangeIsCluster DEF Call
<1> HIDE DEF M
<1> QED BY <1>2, <1>4, <1>5

\* The unweighted sum that orders the ranges is not above that of the bounds the
\* cursors get.
LEMMA BoundSumBelow ==
  ASSUME NEW CONSTANT D, Call(D), NEW c \in Cluster, NEW b \in [Term -> Nat],
         \A t \in Term : b[t] = RangeBound(t, c)
  PROVE  BoundSum(c) \in Nat /\ BoundSum(c) <= SumFunctionOnSet(b, Term)
<1> DEFINE f == [t \in Term |-> wdata.range[t][c]]
<1>1. BoundSum(c) = SumFunctionOnSet(f, Term)
  BY DEF BoundSum, Call, CorpusOver, SumFunction
<1>2. \A t \in Term : f[t] \in Nat /\ b[t] \in Nat /\ f[t] <= b[t]
  BY RangeBoundHolds
<1>3. IsFiniteSet(Term) /\ \A t \in Term : f[t] \in Int /\ b[t] \in Int /\ f[t] <= b[t]
  BY <1>2, TermAssumption
<1> HIDE DEF f
<1> QED BY <1>1, <1>2, <1>3, SumNat, SumMonotonic

\* The blocks of a list hold: from the block that the cursor would go to for a
\* document, its score does not stick out; the last block reaches every posting.
LEMMA BlockBoundHolds ==
  ASSUME NEW CONSTANT D, Call(D), NEW t \in Term
  PROVE  /\ Len(wdata.blocks[t]) \in Nat \ {0}
         /\ \A b \in 1..Len(wdata.blocks[t]) :
              wdata.blocks[t][b].docid \in Nat /\ wdata.blocks[t][b].score \in Nat
         /\ \A b \in 1..Len(wdata.blocks[t]) : \A e \in Doc :
              /\ b = Len(wdata.blocks[t]) \/ wdata.blocks[t][b].docid >= e
              /\ b = 1 \/ wdata.blocks[t][b - 1].docid < e
              => Score(t, e) <= q.weight[t] * wdata.blocks[t][b].score
         /\ \A e \in Docs(t) : e <= wdata.blocks[t][Len(wdata.blocks[t])].docid
<1>1. PICK post, size, blocks : /\ post = q.post[t] /\ size = q.block_size
                                /\ blocks = wdata.blocks[t]
  OBVIOUS
<1>2. blocks = Blocks(PostingList(post), size) /\ size \in Nat \ {0}
  BY <1>1, CallTypes DEF Call, WandDataOf
<1>3. /\ DOMAIN post = Docs(t) /\ Docs(t) \in SUBSET Doc /\ Docs(t) # {}
      /\ \A d \in DOMAIN post : post[d] \in Nat
  BY <1>1, CallTypes DEF Call, Docs
<1>4. Doc \in SUBSET Nat /\ IsFiniteSet(Doc)
  BY DocAssumption, FS_Interval
<1>5. DOMAIN post \in SUBSET Nat /\ IsFiniteSet(DOMAIN post) /\ DOMAIN post # {}
  BY <1>3, <1>4, FS_Subset
<1>6. /\ Len(blocks) \in Nat \ {0}
      /\ \A b \in 1..Len(blocks) : blocks[b].docid \in Nat /\ blocks[b].score \in Nat
      /\ \A b \in 1..Len(blocks) : \A e \in DOMAIN post :
           /\ b = Len(blocks) \/ blocks[b].docid >= e
           /\ b = 1 \/ blocks[b - 1].docid < e
           => post[e] <= blocks[b].score
      /\ \A e \in DOMAIN post : e <= blocks[Len(blocks)].docid
  BY <1>2, <1>3, <1>5, BlockCovers
<1>7. ASSUME NEW b \in 1..Len(blocks), NEW e \in Doc,
             b = Len(blocks) \/ blocks[b].docid >= e,
             b = 1 \/ blocks[b - 1].docid < e
      PROVE  Score(t, e) <= q.weight[t] * blocks[b].score
  <2>1. q.weight[t] \in Nat \ {0}
    BY CallTypes DEF Call
  <2>2. PICK s, w : s = blocks[b].score /\ w = q.weight[t]
    OBVIOUS
  <2>3. s \in Nat /\ w * s \in Nat /\ s <= w * s
    BY <1>6, <2>1, <2>2, TimesWeight
  <2>4. Score(t, e) \in Nat /\ Score(t, e) <= s
    <3>1. CASE e \in Docs(t)
      BY <1>1, <1>3, <1>6, <1>7, <2>2, <3>1 DEF Score
    <3>2. CASE e \notin Docs(t)
      BY <2>3, <3>2 DEF Score
    <3> QED BY <3>1, <3>2
  <2> QED BY <2>2, <2>3, <2>4
<1> QED BY <1>1, <1>3, <1>6, <1>7

\* The score of the documents ranked is that over all terms.
LEMMA FullScoreFacts ==
  ASSUME NEW CONSTANT D, Call(D)
  PROVE  \A d \in Doc :
           /\ FullScore(d) = IF d \in D THEN ScoreOver(Term, d) ELSE 0
           /\ FullScore(d) \in Nat
           /\ FullScore(d) <= ScoreOver(Term, d)
<1> SUFFICES ASSUME NEW d \in Doc
             PROVE  /\ FullScore(d) = IF d \in D THEN ScoreOver(Term, d) ELSE 0
                    /\ FullScore(d) \in Nat
                    /\ FullScore(d) <= ScoreOver(Term, d)
  OBVIOUS
<1>1. FullScore(d) = IF d \in D THEN ScoreOver(Term, d) ELSE 0
  BY DEF FullScore, Call, CorpusOver
<1>2. ScoreOver(Term, d) \in Nat
  BY ScoreOverTerms DEF Call
<1> QED BY <1>1, <1>2

-----------------------------------------------------------------------------
(* The queue.                                                               *)

\* The queue is a good one that began with the threshold of the call, and no
\* entry comes from a later range.
QueueOK ==
  /\ GoodQueue(q.threshold)
  /\ \A en \in m_q : en.visit <= processed

\* Nothing is left to do for a document.
Decided(e) == InResult(e) \/ ~WouldEnter(FullScore(e))

\* A document that was not inserted in this range yet goes to the queue: what
\* was decided remains so, and with its full score it is decided itself.
LEMMA InsertStep ==
  ASSUME NEW CONSTANT D, Call(D), QueueOK, processed \in Nat,
         NEW d \in Doc, NEW s \in Nat,
         \A en \in m_q : en.docid # d \/ en.visit # processed,
         InsertDocument(d, s), UNCHANGED <<inputVars, processed>>
  PROVE  /\ QueueOK'
         /\ m_threshold' >= m_threshold /\ m_threshold \in Nat /\ m_threshold' \in Nat
         /\ \A en \in m_q' : en \in m_q \/ (en.docid = d /\ en.visit = processed)
         /\ \A e \in Doc : Decided(e) => Decided(e)'
         /\ s = FullScore(d) => Decided(d)'
         /\ s <= m_threshold => UNCHANGED queueVars
<1> DEFINE entry == [score |-> s, docid |-> d, visit |-> processed]
<1>1. PICK floor : floor = q.threshold
  OBVIOUS
<1>2. floor \in Nat /\ GoodQueue(floor)
  BY <1>1, CallTypes DEF QueueOK, Call
<1>3. entry \in Entry /\ entry \notin m_q
  BY DEF Entry
<1>4. Insert(entry)
  BY DEF InsertDocument
<1>5. /\ \A e \in Doc : FullScore(e) \in Nat
      /\ \A e \in Doc : FullScore(e)' = FullScore(e)
  BY FullScoreFacts, SameCall
<1>6. q' = q /\ processed' = processed
  BY DEF inputVars
<1>7. CASE Reject(entry)
  <2>1. UNCHANGED queueVars /\ s <= m_threshold
    BY <1>2, <1>7 DEF Reject, WouldEnter, GoodQueue
  <2>2. QueueOK'
    BY <1>6, <2>1 DEF QueueOK, GoodQueue, HeapInv, queueVars
  <2>3. \A e \in Doc : Decided(e) => Decided(e)'
    BY <1>5, <1>6, <2>1 DEF Decided, InResult, WouldEnter, queueVars
  <2>4. s = FullScore(d) => Decided(d)'
    BY <1>2, <1>5, <2>1 DEF Decided, WouldEnter, queueVars, GoodQueue
  <2> QED BY <1>2, <2>1, <2>2, <2>3, <2>4 DEF queueVars, GoodQueue
<1>8. CASE Push(entry) \/ Replace(entry)
  <2>1. /\ m_q' \in SUBSET Entry
        /\ IsFiniteSet(m_q')
        /\ m_threshold' \in Nat
        /\ Cardinality(m_q') <= K
        /\ IF Cardinality(m_q') = K THEN IsFront(m_threshold', m_q')
                                    ELSE m_threshold' = floor
        /\ \A e \in m_q' : e.score > floor
        /\ m_threshold' >= m_threshold
        /\ m_q' \subseteq m_q \cup {entry}
        /\ \A e \in (m_q \cup {entry}) \ m_q' : e.score <= m_threshold'
    <3>1. PICK S \in SUBSET Entry : S = m_q
      BY <1>2 DEF GoodQueue
    <3>2. PICK t \in Nat : t = m_threshold
      BY <1>2 DEF GoodQueue
    <3>3. PICK T : T = m_q'
      OBVIOUS
    <3>4. PICK u : u = m_threshold'
      OBVIOUS
    <3>5. PICK new \in Entry : new = entry
      BY <1>3
    <3> HIDE DEF entry
    <3>6. QueueFrom(floor, K, S, t)
      BY <1>2, <3>1, <3>2 DEF GoodQueue, HeapInv, IsFront, IsLowest, FrontScore, QueueFrom
    <3>7. new \notin S /\ Enters(K, S, t, new, T, u)
      BY <1>3, <1>8, <3>1, <3>2, <3>3, <3>4, <3>5
      DEF Push, Replace, WouldEnter, ThresholdFromFront, IsFront, IsLowest, FrontScore, Enters
    <3>8. \A e \in Entry : e.score \in Nat
      BY DEF Entry
    <3>9. /\ T \in SUBSET Entry /\ u \in Nat /\ QueueFrom(floor, K, T, u)
          /\ u >= t
          /\ T \subseteq S \cup {new}
          /\ \A e \in (S \cup {new}) \ T : e.score <= u
      BY <1>2, <3>1, <3>2, <3>5, <3>6, <3>7, <3>8, KAssumption, InsertFacts
    <3> QED BY <3>1, <3>2, <3>3, <3>4, <3>5, <3>9 DEF QueueFrom, IsFront, IsLowest, FrontScore
  <2>2. m_threshold \in Nat /\ s > m_threshold
    BY <1>2, <1>8 DEF GoodQueue, Push, Replace, WouldEnter
  <2>3. \A en \in m_q' : en \in m_q \/ (en.docid = d /\ en.visit = processed)
    BY <2>1
  <2>4. QueueOK'
    <3>1. GoodQueue(q.threshold)'
      BY <1>1, <1>6, <2>1 DEF GoodQueue, HeapInv
    <3>2. \A en \in m_q' : en.visit <= processed'
      BY <1>6, <2>3 DEF QueueOK
    <3> QED BY <3>1, <3>2 DEF QueueOK
  <2>5. ASSUME NEW e \in Doc, Decided(e) PROVE Decided(e)'
    <3>1. CASE ~WouldEnter(FullScore(e))
      BY <1>5, <2>1, <2>2, <3>1 DEF Decided, WouldEnter
    <3>2. CASE InResult(e)
      <4> DEFINE r == [score |-> FullScore(e), docid |-> e, visit |-> processed]
      <4>1. r \in m_q /\ r.score = FullScore(e)
        BY <3>2 DEF InResult
      <4>2. CASE r \in m_q'
        BY <1>5, <1>6, <4>2 DEF Decided, InResult
      <4>3. CASE r \notin m_q'
        <5>1. FullScore(e) <= m_threshold'
          BY <2>1, <4>1, <4>3
        <5> QED BY <1>5, <2>1, <5>1 DEF Decided, WouldEnter
      <4> QED BY <4>2, <4>3
    <3> QED BY <2>5, <3>1, <3>2 DEF Decided
  <2>6. ASSUME s = FullScore(d) PROVE Decided(d)'
    <3>1. CASE entry \in m_q'
      BY <1>5, <1>6, <2>6, <3>1 DEF Decided, InResult
    <3>2. CASE entry \notin m_q'
      <4>1. s <= m_threshold'
        BY <2>1, <3>2
      <4> QED BY <1>5, <2>1, <2>6, <4>1 DEF Decided, WouldEnter
    <3> QED BY <3>1, <3>2
  <2>7. ~(s <= m_threshold)
    BY <2>2
  <2> QED BY <2>1, <2>2, <2>3, <2>4, <2>5, <2>6, <2>7
<1> QED BY <1>4, <1>7, <1>8 DEF Insert

\* Without an insertion nothing changes for the documents of the range.
LEMMA QueueKept ==
  ASSUME UNCHANGED <<queueVars, inputVars, processed>>
  PROVE  /\ QueueOK => QueueOK'
         /\ \A e : Decided(e) <=> Decided(e)'
BY DEF queueVars, inputVars, QueueOK, GoodQueue, HeapInv, Decided, InResult, WouldEnter,
       FullScore

-----------------------------------------------------------------------------
(* The ranges.                                                              *)

\* The scores of the documents of the range are within the bounds of the cursors.
Bounded == \A t \in Term : \A d \in Scope(range) : Score(t, d) <= max_score[t]

\* No cursor has passed document e without its posting there.
Ahead(e) == \A t \in Term : e \in Docs(t) => docid[t] <= e

\* What holds between the steps of every algorithm that goes range by range: at
\* the beginning of a range every document of it is ahead, and nothing has been
\* inserted in it.
RangeInv(D) ==
  /\ Call(D)
  /\ pc \in {"select", "setup", "doc", "done"}
  /\ CursorsInLists
  /\ max_score \in [Term -> Nat]
  /\ range \in [lower : Nat, upper : 0..max_docid]
  /\ processed \in Nat
  /\ QueueOK
  /\ pc \in {"setup", "doc"} => Bounded
  /\ pc = "setup" => /\ \A t \in Term : docid[t] < max_docid => range.lower <= docid[t]
                     /\ \A e \in Doc : range.lower <= e => Ahead(e)
                     /\ \A en \in m_q : en.visit < processed

\* Nothing changes.
LEMMA RangeKept ==
  ASSUME NEW CONSTANT D, RangeInv(D), UNCHANGED rangeVars
  PROVE  RangeInv(D)'
<1>1. /\ UNCHANGED <<queueVars, inputVars, processed>> /\ UNCHANGED inputVars
      /\ UNCHANGED <<docid, max_score, range, pc, m_q>>
  BY DEF rangeVars, loopVars, cursorVars, queueVars
<1>2. Call(D)' /\ QueueOK'
  BY <1>1, SameCall, QueueKept DEF RangeInv
<1>3. /\ \A t : Docs(t)' = Docs(t)
      /\ \A t, d : Score(t, d)' = Score(t, d)
  BY <1>1, SameCall
<1>4. CursorsInLists'
  BY <1>1, <1>3 DEF RangeInv, CursorsInLists
<1>5. Bounded => Bounded'
  BY <1>1, <1>3 DEF Bounded, Scope
<1>6. \A e : Ahead(e) => Ahead(e)'
  BY <1>1, <1>3 DEF Ahead
<1> QED BY <1>1, <1>2, <1>4, <1>5, <1>6 DEF RangeInv

\* A query starts with the cursors on their first postings and nothing decided.
LEMMA RangeInitInv ==
  ASSUME NEW CONSTANT D, RangeInit(D)
  PROVE  RangeInv(D)
<1>1. Call(D) /\ q \in Inputs
  BY DEF RangeInit, Call
<1>2. max_docid \in Nat /\ 0 \in Nat /\ 0 <= max_docid /\ Doc \in SUBSET Nat
  BY DocAssumption
<1>3. docid = [t \in Term |-> Geq(t, 0)]
  BY DEF RangeInit
<1>4. CursorsInLists /\ (\A e \in Doc : Ahead(e)) /\ \A t \in Term : range.lower <= docid[t]
  <2>1. \A t \in Term : Geq(t, 0) \in Nat /\ Geq(t, 0) \in Docs(t) \cup {max_docid}
    BY <1>1, <1>2, GeqFacts
  <2>2. \A t \in Term : \A e \in Docs(t) : e \in Nat /\ Geq(t, 0) <= e
    <3>1. \A t \in Term : \A e \in Docs(t) : e \in Nat /\ 0 <= e
      BY <1>1, CallTypes, DocAssumption
    <3> QED BY <1>1, <1>2, <3>1, GeqFacts
  <2>3. range.lower = 0
    BY DEF RangeInit, WholeCollection, NoRange
  <2> QED BY <1>3, <2>1, <2>2, <2>3 DEF CursorsInLists, Ahead
<1>5. max_score = [t \in Term |-> ListBound(t)]
  BY DEF RangeInit
<1>6. max_score \in [Term -> Nat] /\ Bounded
  <2>1. \A t \in Term : ListBound(t) \in Nat /\ \A d \in Doc : Score(t, d) <= ListBound(t)
    BY <1>1, ListBoundHolds
  <2>2. Scope(range) \in SUBSET Doc
    BY DEF Scope
  <2> QED BY <1>5, <2>1, <2>2 DEF Bounded
<1>7. range \in [lower : Nat, upper : 0..max_docid]
  BY <1>2 DEF RangeInit, WholeCollection, NoRange
<1>8. QueueOK /\ \A en \in m_q : en.visit < processed
  <2>1. PICK floor : floor = q.threshold
    OBVIOUS
  <2>2. floor \in Nat /\ m_q = {} /\ m_threshold = floor
    BY <1>1, <2>1, CallTypes DEF RangeInit
  <2>3. GoodQueue(floor)
    BY <2>2, FS_EmptySet, KAssumption DEF GoodQueue, HeapInv
  <2> QED BY <2>1, <2>2, <2>3 DEF QueueOK
<1>9. pc \in {"select", "setup"} /\ processed = 0
  BY DEF RangeInit
<1> QED BY <1>1, <1>4, <1>6, <1>7, <1>8, <1>9 DEF RangeInv

\* A range begins.
LEMMA StartRangeInv ==
  ASSUME NEW CONSTANT D, RangeInv(D), NEW c \in Cluster, StartRange(c)
  PROVE  /\ RangeInv(D)'
         /\ pc' = "setup" /\ range' = RangeOf[c] /\ processed' = processed + 1
         /\ ~Hopeless(c) /\ BoundSum(c) \in Nat
         /\ BoundSum(c) <= SumFunctionOnSet(max_score', Term)
         /\ m_threshold' = m_threshold /\ m_threshold \in Nat
<1>1. /\ pc' = "setup" /\ range' = RangeOf[c] /\ processed' = processed + 1
      /\ docid' = [t \in Term |-> Geq(t, range'.lower)]
      /\ max_score' = [t \in Term |-> RangeBound(t, c)]
      /\ UNCHANGED <<queueVars, inputVars>> /\ ~Hopeless(c)
  BY DEF StartRange
<1>2. Call(D)' /\ Call(D) /\ q \in Inputs
  BY <1>1, SameCall DEF RangeInv, Call
<1>3. range' \in [lower : Nat, upper : 0..max_docid] /\ range'.lower \in Nat
  <2>1. /\ Cluster = 1..Len(Ends) /\ Len(Ends) \in Nat
        /\ \A e \in Cluster : Ends[e] \in 0..max_docid
        /\ max_docid \in Nat
    BY EndsAssumption, DocAssumption DEF Cluster
  <2>2. range' = [lower |-> IF c = 1 THEN 0 ELSE Ends[c - 1] + 1, upper |-> Ends[c]]
    BY <1>1, <2>1 DEF RangeOf, AllRanges
  <2>3. c # 1 => c - 1 \in Cluster
    BY <2>1
  <2> QED BY <2>1, <2>2, <2>3
<1>4. /\ CursorsInLists' /\ \A e \in Doc : range'.lower <= e => Ahead(e)'
      /\ \A t \in Term : docid'[t] < max_docid => range'.lower <= docid'[t]
  <2>1. \A t \in Term : /\ Geq(t, range'.lower) \in Nat
                        /\ Geq(t, range'.lower) \in Docs(t) \cup {max_docid}
                        /\ \A e \in Docs(t) : range'.lower <= e => Geq(t, range'.lower) <= e
    BY <1>2, <1>3, GeqFacts
  <2>2. \A t : Docs(t)' = Docs(t)
    BY <1>1, SameCall
  <2>3. docid' \in [Term -> Nat] /\ \A t \in Term : docid'[t] = Geq(t, range'.lower)
    BY <1>1, <2>1
  <2>4. CursorsInLists'
    BY <2>1, <2>2, <2>3 DEF CursorsInLists
  <2>5. \A e \in Doc : range'.lower <= e => Ahead(e)'
    BY <2>1, <2>2, <2>3 DEF Ahead
  <2>6. \A t \in Term : docid'[t] < max_docid => range'.lower <= docid'[t]
    <3> SUFFICES ASSUME NEW t \in Term, docid'[t] < max_docid
                 PROVE  range'.lower <= docid'[t]
      OBVIOUS
    <3>1. max_docid \in Nat /\ Geq(t, range'.lower) < max_docid
      BY <2>3, DocAssumption
    <3>2. range'.lower <= max_docid
      BY <1>2, <1>3, <3>1, GeqPast
    <3> QED BY <1>2, <1>3, <2>3, <3>2, GeqFacts
  <2> QED BY <2>4, <2>5, <2>6
<1>5. max_score' \in [Term -> Nat] /\ \A t \in Term : max_score'[t] = RangeBound(t, c)
  BY <1>1, <1>2, RangeBoundHolds
<1>6. Bounded'
  <2>1. \A t \in Term : \A d \in Scope(RangeOf[c]) : Score(t, d) <= RangeBound(t, c)
    BY <1>2, RangeBoundHolds
  <2>2. Scope(range)' = Scope(RangeOf[c])
    BY <1>1 DEF Scope
  <2>3. \A t, d : Score(t, d)' = Score(t, d)
    BY <1>1, SameCall
  <2> QED BY <1>5, <2>1, <2>2, <2>3 DEF Bounded
<1>7. processed \in Nat /\ processed' \in Nat /\ m_q' = m_q /\ q' = q
      /\ m_threshold' = m_threshold /\ m_threshold \in Nat
  BY <1>1 DEF RangeInv, queueVars, inputVars, QueueOK, GoodQueue
<1>8. QueueOK' /\ \A en \in m_q' : en.visit < processed'
  <2>1. \A en \in m_q : en.visit \in Nat /\ en.visit <= processed
    BY DEF RangeInv, QueueOK, GoodQueue, Entry
  <2>2. \A en \in m_q' : en.visit < processed' /\ en.visit <= processed'
    BY <1>1, <1>7, <2>1
  <2> QED BY <1>1, <1>7, <2>2 DEF RangeInv, QueueOK, GoodQueue, HeapInv
<1>9. BoundSum(c) \in Nat /\ BoundSum(c) <= SumFunctionOnSet(max_score', Term)
  <2>1. PICK b : b = max_score'
    OBVIOUS
  <2>2. BoundSum(c) \in Nat /\ BoundSum(c) <= SumFunctionOnSet(b, Term)
    BY <1>2, <1>5, <2>1, BoundSumBelow
  <2> QED BY <2>1, <2>2
<1> QED BY <1>1, <1>2, <1>3, <1>4, <1>5, <1>6, <1>7, <1>8, <1>9 DEF RangeInv

\* A range is left, or the search ends: nothing is asked of a range any more.
LEMMA OutsideInv ==
  ASSUME NEW CONSTANT D, RangeInv(D), pc' \in {"select", "done"},
         range' \in {range, NoRange},
         UNCHANGED <<queueVars, inputVars, cursorVars, processed>>
  PROVE  RangeInv(D)'
<1>1. Call(D)'
  BY SameCall DEF RangeInv
<1>2. CursorsInLists' /\ max_score' \in [Term -> Nat] /\ processed' \in Nat
  BY SameCall DEF RangeInv, CursorsInLists, cursorVars
<1>3. range' \in [lower : Nat, upper : 0..max_docid]
  BY DocAssumption DEF RangeInv, NoRange
<1>4. QueueOK'
  BY QueueKept DEF RangeInv
<1> QED BY <1>1, <1>2, <1>3, <1>4 DEF RangeInv

\* The search stays in the range and its cursors move on, after an insertion or
\* without one.
LEMMA InsideInv ==
  ASSUME NEW CONSTANT D, RangeInv(D), pc \in {"setup", "doc"}, pc' = "doc",
         CursorsInLists', max_score' = max_score, QueueOK', StayInRange
  PROVE  RangeInv(D)'
<1>1. Call(D)' /\ \A t, d : Score(t, d)' = Score(t, d)
  BY SameCall DEF RangeInv, StayInRange
<1>2. range' = range /\ processed' = processed
  BY DEF StayInRange, loopVars
<1>3. Bounded'
  BY <1>1, <1>2 DEF RangeInv, Bounded, Scope
<1> QED BY <1>1, <1>2, <1>3 DEF RangeInv

-----------------------------------------------------------------------------
(* Pivots.                                                                  *)

\* What holds between the steps of the algorithms with pivots: a document of the
\* range is decided, or no cursor has passed it; what was inserted in this range
\* lies before every cursor.
PivotInv ==
  /\ RangeInv(Doc)
  /\ pc = "doc" =>
       /\ \A e \in Scope(range) : Ahead(e) \/ Decided(e)
       /\ \A en \in m_q : en.visit = processed => \A t \in Term : en.docid < docid[t]

\* A pivot is a document of the range at which a cursor stands.
LEMMA PivotFacts ==
  ASSUME PivotInv, pc = "doc", NEW p \in Pivot
  PROVE  /\ p \in Doc /\ p \in Nat /\ p < max_docid /\ p < range.upper
         /\ p \in Candidates /\ \A d \in Candidates : p <= d
         /\ \E t \in Term : docid[t] = p
         /\ UpTo(p) \in SUBSET Term
<1>1. /\ p \in Candidates /\ \A d \in Candidates : p <= d
      /\ p < range.upper /\ UpTo(p) \in SUBSET Term
  BY DEF Pivot, Candidates, UpTo
<1>2. PICK t \in Term : docid[t] = p
  BY <1>1 DEF Candidates
<1>3. docid[t] \in Nat /\ range.upper \in 0..max_docid /\ max_docid \in Nat
  BY DocAssumption DEF PivotInv, RangeInv, CursorsInLists
<1>4. p \in Nat /\ p < max_docid
  BY <1>1, <1>2, <1>3
<1> QED BY <1>1, <1>2, <1>4, DocAssumption

\* A document whose cursors have too low bounds is decided.
LEMMA BoundDecides ==
  ASSUME PivotInv, pc = "doc", NEW e \in Scope(range), Ahead(e),
         ~WouldEnter(SumOfBounds(UpTo(e)))
  PROVE  Decided(e)
<1>1. e \in Doc /\ q \in Inputs /\ m_threshold \in Nat /\ max_score \in [Term -> Nat]
  BY DEF Scope, PivotInv, RangeInv, Call, QueueOK, GoodQueue
<1>2. FullScore(e) \in Nat /\ FullScore(e) <= ScoreOver(Term, e)
  BY <1>1, FullScoreFacts DEF PivotInv, RangeInv
<1>3. UpTo(e) \in SUBSET Term /\ \A t \in Term : e \in Docs(t) => t \in UpTo(e)
  BY DEF UpTo, Ahead
<1>4. \A t \in UpTo(e) : max_score[t] \in Nat /\ Score(t, e) <= max_score[t]
  BY <1>1, <1>3 DEF PivotInv, RangeInv, Bounded
<1>5. ScoreOver(Term, e) <= SumOfBounds(UpTo(e))
  BY <1>1, <1>3, <1>4, ScoreBounded DEF SumOfBounds
<1>6. ScoreOver(Term, e) \in Nat /\ SumOfBounds(UpTo(e)) \in Nat
  BY <1>1, <1>3, ScoreOverTerms, SumOfBoundsFacts
<1> QED BY <1>1, <1>2, <1>5, <1>6 DEF Decided, WouldEnter

\* The bounds of the cursors up to a document before the pivot do not add up to
\* enough.
LEMMA BoundsBeforePivot ==
  ASSUME PivotInv, pc = "doc", NEW e \in Nat, e < range.upper,
         \A d \in Candidates : e < d
  PROVE  ~WouldEnter(SumOfBounds(UpTo(e)))
<1>1. m_threshold \in Nat /\ docid \in [Term -> Nat] /\ max_score \in [Term -> Nat]
      /\ range.upper \in Nat
  BY DocAssumption DEF PivotInv, RangeInv, CursorsInLists, QueueOK, GoodQueue
<1>2. CASE UpTo(e) = {}
  <2>1. SumOfBounds({}) = 0
    BY FS_EmptySet, SumUnfolds DEF SumOfBounds
  <2> QED BY <1>1, <1>2, <2>1 DEF WouldEnter
<1>3. CASE UpTo(e) # {}
  <2> DEFINE S == {docid[t] : t \in UpTo(e)}
  <2>1. S \in SUBSET Nat /\ S # {} /\ \A d \in S : d <= e
    BY <1>1, <1>3 DEF UpTo
  <2>2. Max(S) \in S /\ \A d \in S : d <= Max(S)
    <3> HIDE DEF S
    <3> QED BY <2>1, MaxOfBounded
  <2>3. PICK d \in S : \A c \in S : c <= d
    BY <2>2
  <2>4. d \in Nat /\ d <= e /\ d \in {docid[t] : t \in Term}
    BY <2>1, <2>3 DEF UpTo
  <2>5. UpTo(d) = UpTo(e)
    BY <1>1, <2>3, <2>4 DEF UpTo
  <2>6. d \notin Candidates
    BY <2>4
  <2>7. d < range.upper
    BY <1>1, <2>4
  <2> QED BY <2>4, <2>5, <2>6, <2>7 DEF Candidates
<1> QED BY <1>2, <1>3

\* Before a pivot everything is decided.
LEMMA DecidedBeforePivot ==
  ASSUME PivotInv, pc = "doc", NEW p \in Pivot, NEW e \in Scope(range), e < p
  PROVE  Decided(e)
<1>1. e \in Nat /\ p \in Nat /\ e < range.upper /\ \A d \in Candidates : e < d
  <2>1. e \in Nat /\ e < range.upper
    BY DocAssumption DEF Scope, InRange
  <2>2. p \in Nat /\ \A d \in Candidates : p <= d /\ d \in Nat
    BY PivotFacts DEF Candidates, PivotInv, RangeInv, CursorsInLists
  <2> QED BY <2>1, <2>2
<1> QED BY <1>1, BoundsBeforePivot, BoundDecides DEF PivotInv

\* No document before every cursor can enter any more.
LEMMA NothingSkippedHolds == PivotInv => NothingSkipped
<1> SUFFICES ASSUME PivotInv, pc = "doc",
                    NEW e \in Scope(range), e < Min({docid[t] : t \in Term})
             PROVE  InResult(e) \/ ~WouldEnter(FullScore(e))
  BY DEF NothingSkipped, SettledBelow
<1> DEFINE S == {docid[t] : t \in Term}
<1>1. e \in Nat /\ e \in Doc
  BY DocAssumption DEF Scope
<1>2. S \in SUBSET Nat /\ S # {}
  BY TermAssumption DEF PivotInv, RangeInv, CursorsInLists
<1>3. Min(S) \in Nat /\ \A d \in S : Min(S) <= d
  <2> HIDE DEF S
  <2> QED BY <1>2, MinOfNaturals
<1>4. \A t \in Term : docid[t] \in Nat /\ ~(docid[t] <= e)
  <2> SUFFICES ASSUME NEW t \in Term PROVE docid[t] \in Nat /\ ~(docid[t] <= e)
    OBVIOUS
  <2>1. docid[t] \in S /\ docid[t] \in Nat
    BY <1>2
  <2>2. e < Min(S)
    OBVIOUS
  <2> HIDE DEF S
  <2> QED BY <1>1, <1>3, <2>1, <2>2
<1>5. CASE Ahead(e)
  <2>1. \A t \in Term : e \notin Docs(t)
    BY <1>4, <1>5 DEF Ahead
  <2>2. ScoreOver(Term, e) = 0
    BY <2>1, NoPostingNoScore DEF PivotInv, RangeInv, Call
  <2>3. FullScore(e) \in Nat /\ FullScore(e) <= 0
    BY <1>1, <2>2, FullScoreFacts DEF PivotInv, RangeInv
  <2> QED BY <2>3 DEF WouldEnter, PivotInv, RangeInv, QueueOK, GoodQueue
<1>6. CASE Decided(e)
  BY <1>6 DEF Decided
<1> QED BY <1>5, <1>6 DEF PivotInv

\* The pivot is scored and the cursors at it go on.  If the score is not that of
\* all of them, the document cannot enter.
LEMMA MatchPivot ==
  ASSUME PivotInv, pc = "doc", NEW p \in Pivot, Aligned(p), NEW S \in SUBSET UpTo(p),
         S = UpTo(p) \/ (Ahead(p) => ~WouldEnter(FullScore(p))),
         InsertDocument(p, ScoreOver(S, p)), MoveCursors(UpTo(p), NextPosting),
         StayInRange, UNCHANGED <<pc, max_score>>
  PROVE  /\ PivotInv'
         /\ \A t \in Term : docid'[t] = IF t \in UpTo(p) THEN NextPosting(t) ELSE docid[t]
         /\ \A t \in Term : docid'[t] >= docid[t] /\ docid'[t] > p
         /\ \A e \in Doc : Decided(e) => Decided(e)'
         /\ m_threshold' >= m_threshold
<1>1. /\ p \in Doc /\ p \in Nat /\ p < max_docid /\ p < range.upper
      /\ UpTo(p) \in SUBSET Term /\ \E t \in Term : docid[t] = p
  BY PivotFacts
<1>2. /\ RangeInv(Doc) /\ Call(Doc) /\ q \in Inputs /\ CursorsInLists /\ QueueOK
      /\ processed \in Nat /\ m_threshold \in Nat /\ max_docid \in Nat
      /\ docid \in [Term -> Nat]
  BY DocAssumption DEF PivotInv, RangeInv, Call, QueueOK, GoodQueue, CursorsInLists
<1>3. ScoreOver(S, p) \in Nat
  BY <1>1, <1>2, ScoreOverTerms
<1>4. \A t \in Term : docid'[t] = IF t \in UpTo(p) THEN NextPosting(t) ELSE docid[t]
  BY DEF MoveCursors
<1>5. \A t \in Term : /\ docid'[t] \in Nat /\ docid'[t] \in Docs(t) \cup {max_docid}
                      /\ docid'[t] >= docid[t] /\ docid'[t] > p
                      /\ \A e \in Docs(t) : p < e /\ docid[t] <= e => docid'[t] <= e
  <2> SUFFICES ASSUME NEW t \in Term
               PROVE  /\ docid'[t] \in Nat /\ docid'[t] \in Docs(t) \cup {max_docid}
                      /\ docid'[t] >= docid[t] /\ docid'[t] > p
                      /\ \A e \in Docs(t) : p < e /\ docid[t] <= e => docid'[t] <= e
    OBVIOUS
  <2>1. CASE t \in UpTo(p)
    <3>1. docid[t] = p /\ docid'[t] = NextPosting(t)
      BY <1>4, <2>1 DEF Aligned
    <3>2. /\ NextPosting(t) \in Docs(t) \cup {max_docid} /\ NextPosting(t) \in Nat
          /\ docid[t] < NextPosting(t)
          /\ \A e \in Docs(t) : docid[t] < e => NextPosting(t) <= e
      BY <1>1, <1>2, <3>1, NextFacts
    <3> QED BY <1>1, <3>1, <3>2
  <2>2. CASE t \notin UpTo(p)
    <3>1. docid'[t] = docid[t] /\ docid[t] \in Nat /\ ~(docid[t] <= p)
      BY <1>2, <1>4, <2>2 DEF UpTo
    <3>2. docid[t] \in Docs(t) \cup {max_docid}
      BY <1>2 DEF CursorsInLists
    <3> QED BY <1>1, <3>1, <3>2
  <2> QED BY <2>1, <2>2
<1>6. /\ QueueOK'
      /\ m_threshold' >= m_threshold /\ m_threshold' \in Nat
      /\ \A en \in m_q' : en \in m_q \/ (en.docid = p /\ en.visit = processed)
      /\ \A e \in Doc : Decided(e) => Decided(e)'
      /\ ScoreOver(S, p) = FullScore(p) => Decided(p)'
  <2>1. \A en \in m_q : en.docid # p \/ en.visit # processed
    <3>1. \A en \in m_q : en.visit = processed => \A t \in Term : en.docid < docid[t]
      BY DEF PivotInv
    <3>2. PICK t \in Term : docid[t] = p
      BY <1>1
    <3> QED BY <1>1, <3>1, <3>2
  <2>2. UNCHANGED <<inputVars, processed>>
    BY DEF StayInRange, loopVars
  <2> QED BY <1>1, <1>2, <1>3, <2>1, <2>2, InsertStep
<1>7. CursorsInLists'
  <2>1. \A t : Docs(t)' = Docs(t)
    BY SameCall DEF StayInRange
  <2>2. docid' \in [Term -> Nat]
    BY <1>5 DEF MoveCursors
  <2> QED BY <1>5, <2>1, <2>2 DEF CursorsInLists
<1>8. RangeInv(Doc)'
  BY <1>2, <1>6, <1>7, InsideInv
<1>9. /\ \A t : Docs(t)' = Docs(t)
      /\ Scope(range)' = Scope(range) /\ processed' = processed
  BY SameCall DEF StayInRange, loopVars, Scope
<1>10. ASSUME NEW e \in Scope(range) PROVE Ahead(e)' \/ Decided(e)'
  <2>1. e \in Doc /\ e \in Nat
    BY DocAssumption DEF Scope
  <2>2. CASE Decided(e)
    BY <1>6, <2>1, <2>2
  <2>3. CASE e < p
    BY <1>6, <2>1, <2>3, DecidedBeforePivot
  <2>4. CASE p < e /\ Ahead(e)
    BY <1>5, <1>9, <2>4 DEF Ahead
  <2>5. CASE e = p /\ Ahead(e)
    <3>1. CASE S = UpTo(p)
      <4>1. \A t \in Term \ UpTo(p) : p \notin Docs(t)
        BY <2>5 DEF Ahead, UpTo
      <4>2. ScoreOver(S, p) = ScoreOver(Term, p)
        BY <1>1, <1>2, <3>1, <4>1, ScoreOverMonotonic
      <4>3. FullScore(p) = ScoreOver(Term, p)
        BY <1>1, <1>2, FullScoreFacts
      <4> QED BY <1>6, <2>5, <4>2, <4>3
    <3>2. CASE Ahead(p) => ~WouldEnter(FullScore(p))
      BY <1>6, <2>1, <2>5, <3>2 DEF Decided
    <3> QED BY <3>1, <3>2
  <2>6. p < e \/ e < p \/ e = p
    BY <1>1, <2>1
  <2> QED BY <2>2, <2>3, <2>4, <2>5, <2>6 DEF PivotInv
<1>11. ASSUME NEW en \in m_q', en.visit = processed', NEW t \in Term
       PROVE  en.docid < docid'[t]
  <2>1. CASE en \in m_q
    <3>1. en.docid \in Nat /\ en.docid < docid[t]
      BY <1>2, <1>9, <1>11, <2>1, DocAssumption DEF PivotInv, QueueOK, GoodQueue, Entry
    <3>2. docid'[t] >= docid[t] /\ docid'[t] \in Nat /\ docid[t] \in Nat
      BY <1>2, <1>5
    <3> QED BY <3>1, <3>2
  <2>2. CASE en.docid = p
    BY <1>1, <1>5, <2>2
  <2> QED BY <1>6, <2>1, <2>2
<1> QED BY <1>4, <1>5, <1>6, <1>8, <1>9, <1>10, <1>11 DEF PivotInv

\* One cursor moves up to document n, and what it passes from the pivot on is
\* decided.
LEMMA MoveCursor ==
  ASSUME PivotInv, pc = "doc", NEW p \in Pivot, NEW t \in Term, NEW n \in Nat, p <= n,
         \A e \in Scope(range) : p <= e /\ e < n /\ Ahead(e) => Decided(e),
         MoveCursors({t}, LAMBDA s : NextGeq(s, n)),
         StayInRange, UNCHANGED <<queueVars, pc, max_score>>
  PROVE  /\ PivotInv'
         /\ \A s \in Term : s # t => docid'[s] = docid[s]
         /\ docid'[t] >= docid[t] /\ docid'[t] >= p
         /\ \A e \in Doc : Decided(e) => Decided(e)'
<1>1. p \in Doc /\ p \in Nat /\ p < max_docid /\ p < range.upper
  BY PivotFacts
<1>2. /\ RangeInv(Doc) /\ q \in Inputs /\ CursorsInLists /\ QueueOK
      /\ max_docid \in Nat /\ docid \in [Term -> Nat]
  BY DocAssumption DEF PivotInv, RangeInv, Call, CursorsInLists
<1>3. \A s \in Term : docid'[s] = IF s = t THEN NextGeq(s, n) ELSE docid[s]
  BY DEF MoveCursors
<1>4. /\ docid'[t] \in Nat /\ docid'[t] \in Docs(t) \cup {max_docid}
      /\ docid'[t] >= docid[t] /\ docid'[t] >= p
      /\ \A e \in Docs(t) : n <= e /\ docid[t] <= e => docid'[t] <= e
  <2>1. /\ NextGeq(t, n) \in Docs(t) \cup {max_docid} /\ NextGeq(t, n) \in Nat
        /\ docid[t] <= NextGeq(t, n)
        /\ \A c \in 0..max_docid : c <= n => c <= NextGeq(t, n)
        /\ \A e \in Docs(t) : n <= e /\ docid[t] <= e => NextGeq(t, n) <= e
    BY <1>2, NextFacts
  <2>2. p \in 0..max_docid
    BY <1>1, <1>2
  <2> QED BY <1>2, <1>3, <2>1, <2>2
<1>5. CursorsInLists'
  <2>1. \A s : Docs(s)' = Docs(s)
    BY SameCall DEF StayInRange
  <2>2. docid' \in [Term -> Nat]
    BY <1>2, <1>3, <1>4 DEF MoveCursors
  <2> QED BY <1>2, <1>3, <1>4, <2>1, <2>2 DEF CursorsInLists
<1>6. QueueOK' /\ \A e : Decided(e) <=> Decided(e)'
  BY <1>2, QueueKept DEF StayInRange, loopVars
<1>7. RangeInv(Doc)'
  BY <1>2, <1>5, <1>6, InsideInv
<1>8. /\ \A s : Docs(s)' = Docs(s)
      /\ Scope(range)' = Scope(range) /\ processed' = processed /\ m_q' = m_q
  BY SameCall DEF StayInRange, loopVars, Scope, queueVars
<1>9. ASSUME NEW e \in Scope(range) PROVE Ahead(e)' \/ Decided(e)'
  <2>1. e \in Doc /\ e \in Nat
    BY DocAssumption DEF Scope
  <2>2. CASE Decided(e)
    BY <1>6, <2>2
  <2>3. CASE e < p
    BY <1>6, <2>3, DecidedBeforePivot
  <2>4. CASE p <= e /\ e < n /\ Ahead(e)
    BY <1>6, <2>4
  <2>5. CASE n <= e /\ Ahead(e)
    BY <1>3, <1>4, <1>8, <2>5 DEF Ahead
  <2>6. e < p \/ (p <= e /\ e < n) \/ n <= e
    BY <1>1, <2>1
  <2> QED BY <2>2, <2>3, <2>4, <2>5, <2>6 DEF PivotInv
<1>10. ASSUME NEW en \in m_q', en.visit = processed', NEW s \in Term
       PROVE  en.docid < docid'[s]
  <2>1. en.docid \in Nat /\ en.docid < docid[s]
    BY <1>2, <1>8, <1>10, DocAssumption DEF PivotInv, QueueOK, GoodQueue, Entry
  <2>2. docid'[s] >= docid[s] /\ docid'[s] \in Nat /\ docid[s] \in Nat
    BY <1>2, <1>3, <1>4
  <2> QED BY <2>1, <2>2
<1> QED BY <1>3, <1>4, <1>6, <1>7, <1>8, <1>9, <1>10 DEF PivotInv

\* The steps that do not deal with a pivot.
LEMMA AroundPivots ==
  ASSUME PivotInv,
         \/ \E c \in Cluster : StartRange(c)
         \/ Stop \/ SetUpPivots \/ NoPivot
         \/ UNCHANGED rangeVars
  PROVE  PivotInv'
<1>1. RangeInv(Doc)
  BY DEF PivotInv
<1>2. CASE \E c \in Cluster : StartRange(c)
  BY <1>1, <1>2, StartRangeInv DEF PivotInv
<1>3. CASE Stop
  BY <1>1, <1>3, OutsideInv DEF PivotInv, Stop
<1>4. CASE SetUpPivots /\ Dead
  BY <1>1, <1>4, OutsideInv DEF PivotInv, SetUpPivots, LeaveRange
<1>5. CASE SetUpPivots /\ ~Dead
  <2>1. /\ pc = "setup" /\ pc' = "doc" /\ StayInRange
        /\ UNCHANGED <<queueVars, cursorVars>>
    BY <1>5 DEF SetUpPivots
  <2>2. /\ CursorsInLists' /\ max_score' = max_score
        /\ \A t : Docs(t)' = Docs(t)
    BY <1>1, <2>1, SameCall DEF RangeInv, CursorsInLists, cursorVars, StayInRange
  <2>3. QueueOK'
    BY <1>1, <2>1, QueueKept DEF RangeInv, StayInRange, loopVars
  <2>4. RangeInv(Doc)'
    BY <1>1, <2>1, <2>2, <2>3, InsideInv
  <2>5. \A e \in Scope(range)' : Ahead(e)'
    <3>1. \A e \in Doc : range.lower <= e => Ahead(e)
      BY <1>1, <2>1 DEF RangeInv
    <3> QED BY <2>1, <2>2, <3>1 DEF Scope, InRange, Ahead, StayInRange, loopVars, cursorVars
  <2>6. \A en \in m_q' : en.visit # processed'
    <3>1. \A en \in m_q : en.visit \in Nat /\ en.visit < processed
      BY <1>1, <2>1 DEF RangeInv, QueueOK, GoodQueue, Entry
    <3>2. m_q' = m_q /\ processed' = processed /\ processed \in Nat
      BY <1>1, <2>1 DEF RangeInv, StayInRange, loopVars, queueVars
    <3> QED BY <3>1, <3>2
  <2> QED BY <2>4, <2>5, <2>6 DEF PivotInv
<1>6. CASE NoPivot
  BY <1>1, <1>6, OutsideInv DEF PivotInv, NoPivot, LeaveRange
<1>7. CASE UNCHANGED rangeVars
  <2>1. RangeInv(Doc)'
    BY <1>1, <1>7, RangeKept
  <2>2. /\ \A e : Decided(e) <=> Decided(e)'
        /\ \A t : Docs(t)' = Docs(t)
    BY <1>7, QueueKept, SameCall DEF rangeVars, loopVars
  <2> QED BY <1>7, <2>1, <2>2 DEF PivotInv, rangeVars, queueVars, cursorVars, loopVars,
                                   Scope, Ahead
<1> QED BY <1>2, <1>3, <1>4, <1>5, <1>6, <1>7 DEF SetUpPivots

-----------------------------------------------------------------------------
(* wand_query.                                                              *)

\* The loop over the ranges is that of RangeQuery.
LEMMA WandRanges ==
  /\ Wand!Init <=> RangeInit(Doc)
  /\ \A c : Wand!StartRange(c) <=> StartRange(c)
  /\ Wand!Stop <=> Stop
  /\ Wand!SetUpPivots <=> SetUpPivots
  /\ Wand!NoPivot <=> NoPivot
<1>1. Wand!Init <=> RangeInit(Doc)
  BY DEF Wand!Init, Wand!RangeInit, RangeInit, Wand!WandDataOf, WandDataOf,
         Wand!CorpusOver, CorpusOver, Wand!Highest, Highest, Wand!Max, Max, Wand!Score, Score,
         Wand!Docs, Docs, Wand!ClusterOf, ClusterOf, Wand!DocToRange, DocToRange,
         Wand!Cluster, Cluster, Wand!Blocks, Blocks, Wand!PostingList, PostingList,
         Wand!Cardinality, Cardinality, Wand!ScoresIn, ScoresIn, Wand!Min, Min,
         Wand!ScoreOver, ScoreOver, Wand!SumFunctionOnSet, SumFunctionOnSet,
         Wand!FoldFunctionOnSet, FoldFunctionOnSet, Wand!MapThenFoldSet, MapThenFoldSet,
         Wand!SumFunction, SumFunction, Wand!Scope, Scope, Wand!InRange, InRange,
         Wand!RangeOf, RangeOf, Wand!AllRanges, AllRanges, Wand!Full, Full,
         Wand!Geq, Geq, Wand!ListBound, ListBound, Wand!WholeCollection, WholeCollection,
         Wand!NoRange, NoRange
<1>2. \A c : Wand!StartRange(c) <=> StartRange(c)
  BY DEF Wand!StartRange, StartRange, Wand!IsNext, IsNext, Wand!BoundSum, BoundSum,
         Wand!OutOfBudget, OutOfBudget, Wand!OutOfTime, OutOfTime, Wand!Hopeless, Hopeless,
         Wand!WouldEnter, WouldEnter, Wand!RangeOf, RangeOf, Wand!AllRanges, AllRanges,
         Wand!Geq, Geq, Wand!Min, Min, Wand!Docs, Docs, Wand!RangeBound, RangeBound,
         Wand!queueVars, queueVars, Wand!inputVars, inputVars
<1>3. Wand!Stop <=> Stop
  BY DEF Wand!Stop, Stop, Wand!IsNext, IsNext, Wand!BoundSum, BoundSum,
         Wand!OutOfBudget, OutOfBudget, Wand!OutOfTime, OutOfTime, Wand!Hopeless, Hopeless,
         Wand!WouldEnter, WouldEnter, Wand!Cluster, Cluster,
         Wand!queueVars, queueVars, Wand!inputVars, inputVars, Wand!cursorVars, cursorVars
<1>4. Wand!SetUpPivots <=> SetUpPivots
  BY DEF Wand!SetUpPivots, SetUpPivots, Wand!Dead, Dead, Wand!WouldEnter, WouldEnter,
         Wand!SumOfBounds, SumOfBounds, Wand!SumFunctionOnSet, SumFunctionOnSet,
         Wand!FoldFunctionOnSet, FoldFunctionOnSet, Wand!MapThenFoldSet, MapThenFoldSet,
         Wand!LeaveRange, LeaveRange, Wand!StayInRange, StayInRange, Wand!Full, Full,
         Wand!Scope, Scope, Wand!InRange, InRange, Wand!NoRange, NoRange,
         Wand!queueVars, queueVars, Wand!inputVars, inputVars, Wand!cursorVars, cursorVars,
         Wand!loopVars, loopVars
<1>5. Wand!NoPivot <=> NoPivot
  BY DEF Wand!NoPivot, NoPivot, Wand!Pivot, Pivot, Wand!Candidates, Candidates,
         Wand!WouldEnter, WouldEnter, Wand!UpTo, UpTo,
         Wand!SumOfBounds, SumOfBounds, Wand!SumFunctionOnSet, SumFunctionOnSet,
         Wand!FoldFunctionOnSet, FoldFunctionOnSet, Wand!MapThenFoldSet, MapThenFoldSet,
         Wand!LeaveRange, LeaveRange, Wand!Full, Full,
         Wand!Scope, Scope, Wand!InRange, InRange, Wand!NoRange, NoRange,
         Wand!queueVars, queueVars, Wand!inputVars, inputVars, Wand!cursorVars, cursorVars
<1> QED BY <1>1, <1>2, <1>3, <1>4, <1>5

\* Wand!Match and Wand!Advance.
MatchesPivot(p) ==
  /\ Aligned(p)
  /\ InsertDocument(p, ScoreOver(UpTo(p), p))
  /\ MoveCursors(UpTo(p), NextPosting)
AdvancesToPivot(p) ==
  /\ \E t \in Term : MoveCursors({t}, LAMBDA s : NextGeq(s, p))
  /\ UNCHANGED queueVars

\* One iteration of wand_query looks at a pivot: it scores its document when the
\* first list is there, and moves one list on when it is not.
LEMMA WandAtPivot ==
  ASSUME Wand!AtPivot
  PROVE  /\ pc = "doc" /\ StayInRange /\ UNCHANGED <<pc, max_score>>
         /\ \E p \in Pivot : MatchesPivot(p) \/ AdvancesToPivot(p)
BY Zenon
   DEF Wand!AtPivot, Wand!Match, Wand!Advance, MatchesPivot, AdvancesToPivot,
       Wand!Pivot, Pivot, Wand!Candidates, Candidates,
       Wand!WouldEnter, WouldEnter, Wand!UpTo, UpTo, Wand!Aligned, Aligned,
       Wand!SumOfBounds, SumOfBounds, Wand!SumFunctionOnSet, SumFunctionOnSet,
       Wand!FoldFunctionOnSet, FoldFunctionOnSet, Wand!MapThenFoldSet, MapThenFoldSet,
       Wand!StayInRange, StayInRange, Wand!queueVars, queueVars, Wand!inputVars, inputVars,
       Wand!loopVars, loopVars, Wand!IsFarthest, Wand!MoveCursors, MoveCursors,
       Wand!NextGeq, NextGeq, Wand!Geq, Geq, Wand!Min, Min, Wand!Max, Max, Wand!Docs, Docs,
       Wand!NextPosting, NextPosting, Wand!ScoreOver, ScoreOver, Wand!Score, Score,
       Wand!InsertDocument, InsertDocument, Wand!Insert, Insert, Wand!Reject, Reject,
       Wand!Push, Push, Wand!Replace, Replace, Wand!ThresholdFromFront, ThresholdFromFront,
       Wand!IsFront, IsFront, Wand!IsLowest, IsLowest, Wand!Cardinality, Cardinality

\* The steps of wand_query.
LEMMA WandSteps ==
  ASSUME Wand!Next
  PROVE  \/ \E c \in Cluster : StartRange(c)
         \/ Stop \/ SetUpPivots \/ NoPivot \/ Wand!AtPivot
         \/ UNCHANGED rangeVars
<1>1. Wand!Cluster = Cluster /\ Wand!rangeVars = rangeVars
  BY DEF Wand!Cluster, Cluster, Wand!rangeVars, rangeVars, Wand!queueVars, queueVars,
         Wand!inputVars, inputVars, Wand!cursorVars, cursorVars, Wand!loopVars, loopVars
<1>2. \/ \E c \in Wand!Cluster : Wand!StartRange(c)
      \/ Wand!Stop \/ Wand!SetUpPivots \/ Wand!NoPivot \/ Wand!AtPivot
      \/ Wand!Finished
  BY DEF Wand!Next, Wand!Whole, Wand!ordered_range_query, Wand!boundsum_range_query,
         Wand!boundsum_timeout_query, Wand!Evaluate, Wand!VisitRange
<1>3. Wand!Finished => UNCHANGED rangeVars
  BY DEF Wand!Finished, Wand!rangeVars, rangeVars, Wand!queueVars, queueVars,
         Wand!inputVars, inputVars, Wand!cursorVars, cursorVars, Wand!loopVars, loopVars
<1> QED BY <1>1, <1>2, <1>3, WandRanges

\* Every step of wand_query keeps what the loop has decided.
LEMMA WandStep ==
  ASSUME PivotInv, Wand!Next
  PROVE  PivotInv'
<1>1. \/ \E c \in Cluster : StartRange(c)
      \/ Stop \/ SetUpPivots \/ NoPivot \/ Wand!AtPivot
      \/ UNCHANGED rangeVars
  BY WandSteps
<1>2. CASE Wand!AtPivot
  <2>1. /\ pc = "doc" /\ StayInRange /\ UNCHANGED <<pc, max_score>>
        /\ \E p \in Pivot : MatchesPivot(p) \/ AdvancesToPivot(p)
    BY <1>2, WandAtPivot
  <2>2. PICK p \in Pivot : MatchesPivot(p) \/ AdvancesToPivot(p)
    BY <2>1
  <2>3. CASE MatchesPivot(p)
    BY <2>1, <2>3, MatchPivot DEF MatchesPivot
  <2>4. CASE AdvancesToPivot(p)
    <3>1. PICK t \in Term : MoveCursors({t}, LAMBDA s : NextGeq(s, p))
      BY <2>4 DEF AdvancesToPivot
    <3>2. p \in Nat
      BY <2>1, PivotFacts
    <3>3. \A e \in Scope(range) : p <= e /\ e < p /\ Ahead(e) => Decided(e)
      BY <3>2, DocAssumption DEF Scope
    <3>4. p <= p /\ UNCHANGED <<queueVars, pc, max_score>>
      BY <2>1, <2>4, <3>2 DEF AdvancesToPivot
    <3> QED BY <2>1, <3>1, <3>2, <3>3, <3>4, MoveCursor
  <2> QED BY <2>2, <2>3, <2>4
<1> QED BY <1>1, <1>2, AroundPivots

-----------------------------------------------------------------------------
\* The query keeps its algorithm.
LEMMA AlgorithmFixed == [Next]_vars => UNCHANGED algorithm
<1>1. Collection!Next => UNCHANGED algorithm
  BY DEF Collection!Next, Collection!SetUp, Collection!Or, Collection!And, Collection!BlockMaxAnd,
         Collection!BlockMaxMaxScore, Collection!NextRange, Collection!EndOfCall,
         Collection!Iteration, Collection!collectionVars
<1> QED BY <1>1 DEF Next, vars, wand_query, block_max_wand_query, maxscore_query, other_query

\* Of what began with wand_query.
LEMMA WandInit == Init /\ algorithm = "wand" => PivotInv
<1>1. ~(algorithm = "wand" /\ Collection!Init)
  BY DEF Collection!Init, Collection!Disjunctive, Collection!Conjunctive
<1>2. Init /\ algorithm = "wand" => RangeInit(Doc)
  BY <1>1, WandRanges DEF Init
<1>3. RangeInit(Doc) => RangeInv(Doc) /\ pc # "doc"
  BY RangeInitInv DEF RangeInit
<1> QED BY <1>2, <1>3 DEF PivotInv

\* In every range of wand_query a document is decided, or no cursor has passed it.
THEOREM WandCorrect == Spec => [](algorithm = "wand" => PivotInv)
<1>1. Init => (algorithm = "wand" => PivotInv)
  BY WandInit
<1>2. (algorithm = "wand" => PivotInv) /\ [Next]_vars => (algorithm = "wand" => PivotInv)'
  <2> SUFFICES ASSUME algorithm = "wand" => PivotInv, [Next]_vars, algorithm' = "wand"
               PROVE  PivotInv'
    OBVIOUS
  <2>1. algorithm = "wand" /\ PivotInv
    BY AlgorithmFixed
  <2>2. CASE Next
    BY <2>1, <2>2, WandStep DEF Next, wand_query, block_max_wand_query, maxscore_query, other_query
  <2>3. CASE UNCHANGED vars
    BY <2>1, <2>3, AroundPivots DEF vars
  <2> QED BY <2>2, <2>3
<1> QED BY <1>1, <1>2, PTL DEF Spec

-----------------------------------------------------------------------------
(* maxscore_query.                                                          *)

\* The operators of RangeQuery that its own steps use.
LEMMA MaxScoreSame ==
  /\ MaxScore!Position = Position /\ MaxScore!Cardinality(Term) = Cardinality(Term)
  /\ \A S : MaxScore!SumOfBounds(S) = SumOfBounds(S)
  /\ \A S : MaxScore!Min(S) = Min(S) /\ MaxScore!Max(S) = Max(S)
  /\ \A S, d : MaxScore!ScoreOver(S, d) = ScoreOver(S, d)
  /\ \A t, d : MaxScore!NextGeq(t, d) = NextGeq(t, d) /\ MaxScore!Geq(t, d) = Geq(t, d)
  /\ \A t : MaxScore!NextPosting(t) = NextPosting(t)
  /\ \A n : MaxScore!WouldEnter(n) <=> WouldEnter(n)
  /\ MaxScore!StayInRange <=> StayInRange
  /\ \A by : MaxScore!LeaveRange(by) <=> LeaveRange(by)
  /\ \A d, s : MaxScore!InsertDocument(d, s) <=> InsertDocument(d, s)
  /\ MaxScore!queueVars = queueVars /\ MaxScore!cursorVars = cursorVars
<1>1. MaxScore!Position = Position /\ MaxScore!Cardinality(Term) = Cardinality(Term)
  BY DEF MaxScore!Position, Position, MaxScore!Cardinality, Cardinality
<1>2. \A S : MaxScore!SumOfBounds(S) = SumOfBounds(S)
  BY DEF MaxScore!SumOfBounds, SumOfBounds, MaxScore!SumFunctionOnSet, SumFunctionOnSet,
         MaxScore!FoldFunctionOnSet, FoldFunctionOnSet, MaxScore!MapThenFoldSet, MapThenFoldSet
<1>3. \A S : MaxScore!Min(S) = Min(S) /\ MaxScore!Max(S) = Max(S)
  BY DEF MaxScore!Min, Min, MaxScore!Max, Max
<1>4. \A S, d : MaxScore!ScoreOver(S, d) = ScoreOver(S, d)
  BY DEF MaxScore!ScoreOver, ScoreOver, MaxScore!SumFunctionOnSet, SumFunctionOnSet,
         MaxScore!FoldFunctionOnSet, FoldFunctionOnSet, MaxScore!MapThenFoldSet, MapThenFoldSet,
         MaxScore!Score, Score, MaxScore!Docs, Docs
<1>5. \A t, d : MaxScore!NextGeq(t, d) = NextGeq(t, d) /\ MaxScore!Geq(t, d) = Geq(t, d)
  BY DEF MaxScore!NextGeq, NextGeq, MaxScore!Geq, Geq, MaxScore!Min, Min, MaxScore!Max, Max,
         MaxScore!Docs, Docs
<1>6. \A t : MaxScore!NextPosting(t) = NextPosting(t)
  BY DEF MaxScore!NextPosting, NextPosting, MaxScore!Geq, Geq, MaxScore!Min, Min,
         MaxScore!Docs, Docs
<1>7. \A n : MaxScore!WouldEnter(n) <=> WouldEnter(n)
  BY DEF MaxScore!WouldEnter, WouldEnter
<1>8. MaxScore!StayInRange <=> StayInRange
  BY DEF MaxScore!StayInRange, StayInRange, MaxScore!inputVars, inputVars,
         MaxScore!loopVars, loopVars
<1>9. \A by : MaxScore!LeaveRange(by) <=> LeaveRange(by)
  BY DEF MaxScore!LeaveRange, LeaveRange, MaxScore!Full, Full, MaxScore!Scope, Scope,
         MaxScore!InRange, InRange, MaxScore!NoRange, NoRange, MaxScore!inputVars, inputVars
<1>10. \A d, s : MaxScore!InsertDocument(d, s) <=> InsertDocument(d, s)
  BY DEF MaxScore!InsertDocument, InsertDocument, MaxScore!Insert, Insert,
         MaxScore!Reject, Reject, MaxScore!Push, Push, MaxScore!Replace, Replace,
         MaxScore!ThresholdFromFront, ThresholdFromFront, MaxScore!IsFront, IsFront,
         MaxScore!IsLowest, IsLowest, MaxScore!Cardinality, Cardinality,
         MaxScore!WouldEnter, WouldEnter, MaxScore!queueVars, queueVars
<1>11. MaxScore!queueVars = queueVars /\ MaxScore!cursorVars = cursorVars
  BY DEF MaxScore!queueVars, queueVars, MaxScore!cursorVars, cursorVars
<1> QED BY <1>1, <1>2, <1>3, <1>4, <1>5, <1>6, <1>7, <1>8, <1>9, <1>10, <1>11

\* The loop over the ranges is that of RangeQuery.
LEMMA MaxScoreRanges ==
  /\ MaxScore!RangeInit(Doc) <=> RangeInit(Doc)
  /\ \A c : MaxScore!StartRange(c) <=> StartRange(c)
  /\ MaxScore!Stop <=> Stop
  /\ MaxScore!Finished <=> Finished
  /\ MaxScore!Cluster = Cluster
<1>1. MaxScore!RangeInit(Doc) <=> RangeInit(Doc)
  BY DEF MaxScore!RangeInit, RangeInit, MaxScore!WandDataOf, WandDataOf,
         MaxScore!CorpusOver, CorpusOver, MaxScore!Highest, Highest, MaxScore!Max, Max,
         MaxScore!Score, Score, MaxScore!Docs, Docs, MaxScore!ClusterOf, ClusterOf,
         MaxScore!DocToRange, DocToRange, MaxScore!Cluster, Cluster, MaxScore!Blocks, Blocks,
         MaxScore!PostingList, PostingList, MaxScore!Cardinality, Cardinality,
         MaxScore!ScoresIn, ScoresIn, MaxScore!Min, Min, MaxScore!ScoreOver, ScoreOver,
         MaxScore!SumFunctionOnSet, SumFunctionOnSet, MaxScore!FoldFunctionOnSet,
         FoldFunctionOnSet, MaxScore!MapThenFoldSet, MapThenFoldSet,
         MaxScore!SumFunction, SumFunction, MaxScore!Scope, Scope, MaxScore!InRange, InRange,
         MaxScore!RangeOf, RangeOf, MaxScore!AllRanges, AllRanges, MaxScore!Full, Full,
         MaxScore!Geq, Geq, MaxScore!ListBound, ListBound,
         MaxScore!WholeCollection, WholeCollection, MaxScore!NoRange, NoRange
<1>2. \A c : MaxScore!StartRange(c) <=> StartRange(c)
  BY DEF MaxScore!StartRange, StartRange, MaxScore!IsNext, IsNext, MaxScore!BoundSum, BoundSum,
         MaxScore!OutOfBudget, OutOfBudget, MaxScore!OutOfTime, OutOfTime,
         MaxScore!Hopeless, Hopeless, MaxScore!WouldEnter, WouldEnter, MaxScore!RangeOf, RangeOf,
         MaxScore!AllRanges, AllRanges, MaxScore!Geq, Geq, MaxScore!Min, Min,
         MaxScore!Docs, Docs, MaxScore!RangeBound, RangeBound,
         MaxScore!queueVars, queueVars, MaxScore!inputVars, inputVars
<1>3. MaxScore!Stop <=> Stop
  BY DEF MaxScore!Stop, Stop, MaxScore!IsNext, IsNext, MaxScore!BoundSum, BoundSum,
         MaxScore!OutOfBudget, OutOfBudget, MaxScore!OutOfTime, OutOfTime,
         MaxScore!Hopeless, Hopeless, MaxScore!WouldEnter, WouldEnter,
         MaxScore!Cluster, Cluster, MaxScore!queueVars, queueVars,
         MaxScore!inputVars, inputVars, MaxScore!cursorVars, cursorVars
<1>4. MaxScore!Finished <=> Finished
  BY DEF MaxScore!Finished, Finished, MaxScore!rangeVars, rangeVars,
         MaxScore!queueVars, queueVars, MaxScore!inputVars, inputVars,
         MaxScore!cursorVars, cursorVars, MaxScore!loopVars, loopVars
<1>5. MaxScore!Cluster = Cluster
  BY DEF MaxScore!Cluster, Cluster
<1> QED BY <1>1, <1>2, <1>3, <1>4, <1>5

\* The terms at the positions from i to j.
TermsAt(i, j) == {order[k] : k \in i..j}

\* The lists are sorted, and while a range is evaluated: the bounds of the lists
\* that are looked up do not add up to the threshold; no essential list has
\* passed the candidate and no list a document from there on; before it
\* everything is decided, and so was what the range inserted.
EvaluatesRange ==
  /\ first_lookup \in 0..Cardinality(Term)
  /\ upper_bounds = [p \in Position |-> SumOfBounds(TermsAt(p, Cardinality(Term)))]
  /\ first_lookup < Cardinality(Term) => upper_bounds[first_lookup + 1] <= m_threshold
  /\ next_docid \in 0..max_docid
  /\ next_docid < range.upper => range.lower <= next_docid
  /\ \A t \in MaxScore!Essential : next_docid <= docid[t]
  /\ \A e \in Doc : next_docid <= e => Ahead(e)
  /\ \A e \in Scope(range) : e < next_docid => Decided(e)
  /\ \A en \in m_q : en.visit = processed => en.docid < next_docid

\* The clock has been read after every range but the one in hand, which has an
\* essential list.
ClockRuns ==
  /\ timed \in Nat
  /\ pc = "select" => processed = timed
  /\ pc \in {"setup", "doc"} => processed = timed + 1
  /\ pc = "setup" => WouldEnter(SumOfBounds(Term))

MaxScoreInv ==
  /\ RangeInv(Doc)
  /\ order \in [Position -> Term]
  /\ TermsAt(1, Cardinality(Term)) = Term
  /\ pc = "doc" => EvaluatesRange
  /\ q.kind = "timeout" => ClockRuns

\* There is at least one term, and the essential lists are the first ones.
LEMMA PositionFacts ==
  ASSUME MaxScoreInv
  PROVE  /\ Cardinality(Term) \in Nat \ {0} /\ Position = 1..Cardinality(Term)
         /\ \A i \in Nat \ {0}, j \in 0..Cardinality(Term) : TermsAt(i, j) \in SUBSET Term
         /\ MaxScore!Essential = TermsAt(1, first_lookup)
<1>1. Cardinality(Term) \in Nat \ {0}
  BY TermAssumption, FS_CardinalityType, FS_EmptySet
<1>2. \A i \in Nat \ {0}, j \in 0..Cardinality(Term) : TermsAt(i, j) \in SUBSET Term
  BY <1>1 DEF MaxScoreInv, TermsAt, Position
<1> QED BY <1>1, <1>2 DEF Position, MaxScore!Essential, TermsAt

\* A sorted sequence of the terms has all of them.
LEMMA SortedHasAll ==
  ASSUME NEW o \in [Position -> Term], \A i, j \in Position : o[i] = o[j] => i = j
  PROVE  {o[k] : k \in 1..Cardinality(Term)} = Term
<1> DEFINE N == Cardinality(Term)
           S == {o[k] : k \in 1..N}
<1>1. N \in Nat /\ Position = 1..N /\ IsFiniteSet(Term)
  BY TermAssumption, FS_CardinalityType DEF Position
<1>2. IsFiniteSet(Position) /\ Cardinality(Position) = N
  BY <1>1, FS_Interval
<1>3. S \in SUBSET Term /\ \A i \in Position : o[i] \in S
  BY <1>1
<1>4. o \in [Position -> S]
  BY <1>3
<1>5. o \in Surjection(Position, S)
  BY <1>1, <1>4 DEF Surjection
<1>6. o \in Injection(Position, S)
  BY <1>4 DEF Injection, IsInjective
<1>7. Cardinality(S) = N
  BY <1>2, <1>5, <1>6, FS_Surjection
<1> QED BY <1>1, <1>3, <1>7, FS_Subset

\* The call of maxscore_query begins.
LEMMA MaxScoreInit == MaxScore!Init => MaxScoreInv
<1> SUFFICES ASSUME MaxScore!Init PROVE MaxScoreInv
  OBVIOUS
<1>1. RangeInit(Doc) /\ order \in [Position -> Term]
      /\ \A i, j \in Position : order[i] = order[j] => i = j
  BY MaxScoreSame, MaxScoreRanges DEF MaxScore!Init, MaxScore!InOrder
<1>2. RangeInv(Doc)
  BY <1>1, RangeInitInv
<1>3. TermsAt(1, Cardinality(Term)) = Term
  BY <1>1, SortedHasAll DEF TermsAt
<1>4. pc # "doc" /\ (q.kind = "timeout" => pc = "select") /\ processed = 0 /\ timed = 0
  BY <1>1 DEF RangeInit, Full
<1> QED BY <1>1, <1>2, <1>3, <1>4 DEF MaxScoreInv, ClockRuns

\* How many lists stay essential.
LEMMA StillEssential ==
  ASSUME NEW N \in Nat, NEW bounds \in [1..N -> Nat], NEW n \in 0..N, NEW floor \in Nat,
         NEW r, r = MaxScore!update_non_essential_lists(bounds, n, floor)
  PROVE  /\ r \in 0..n
         /\ r < n => bounds[r + 1] <= floor
         /\ n >= 1 /\ bounds[1] > floor => r >= 1
<1> DEFINE S == {0} \cup {p \in 1..n : bounds[p] > floor}
<1>1. n \in Nat /\ S \in SUBSET Nat /\ S # {} /\ \A p \in S : p <= n
  OBVIOUS
<1>2. r \in S /\ \A p \in S : p <= r
  <2>1. r = Max(S)
    BY MaxScoreSame DEF MaxScore!update_non_essential_lists
  <2> HIDE DEF S
  <2> QED BY <1>1, <2>1, MaxOfBounded
<1>3. r \in 0..n
  BY <1>2
<1>4. ASSUME r < n PROVE bounds[r + 1] <= floor
  <2>1. r + 1 \in 1..n /\ r + 1 \notin S
    BY <1>2, <1>3, <1>4
  <2>2. bounds[r + 1] \in Nat
    BY <2>1
  <2> QED BY <2>1, <2>2
<1>5. ASSUME n >= 1, bounds[1] > floor PROVE r >= 1
  BY <1>2, <1>5
<1> QED BY <1>3, <1>4, <1>5

\* calc_upper_bounds in these words.
LEMMA CalcUpperBounds ==
  MaxScore!calc_upper_bounds = [p \in Position |-> SumOfBounds(TermsAt(p, Cardinality(Term)))]
BY DEF MaxScore!calc_upper_bounds, TermsAt, MaxScore!Position, Position,
       MaxScore!Cardinality, Cardinality, MaxScore!SumOfBounds, SumOfBounds,
       MaxScore!SumFunctionOnSet, SumFunctionOnSet, MaxScore!FoldFunctionOnSet,
       FoldFunctionOnSet, MaxScore!MapThenFoldSet, MapThenFoldSet

\* The bounds summed up from the end.
LEMMA BoundsAreSums ==
  ASSUME MaxScoreInv, NEW ub,
         ub = [p \in Position |-> SumOfBounds(TermsAt(p, Cardinality(Term)))]
  PROVE  /\ ub \in [1..Cardinality(Term) -> Nat]
         /\ ub[1] = SumOfBounds(Term)
<1>1. max_score \in [Term -> Nat] /\ Cardinality(Term) \in Nat \ {0}
      /\ Position = 1..Cardinality(Term)
  BY PositionFacts DEF MaxScoreInv, RangeInv
<1>2. \A p \in Position : TermsAt(p, Cardinality(Term)) \in SUBSET Term
  BY <1>1 DEF MaxScoreInv, TermsAt
<1>3. \A p \in Position : SumOfBounds(TermsAt(p, Cardinality(Term))) \in Nat
  BY <1>1, <1>2, SumOfBoundsFacts
<1>4. 1 \in Position /\ TermsAt(1, Cardinality(Term)) = Term
  BY <1>1 DEF MaxScoreInv
<1> QED BY <1>1, <1>3, <1>4

\* The bounds are summed up, and a range that cannot hold a result is skipped.
LEMMA SetUpStep ==
  ASSUME MaxScore!SetUp
  PROVE  /\ pc = "setup" /\ UNCHANGED <<queueVars, cursorVars, order>>
         /\ upper_bounds' = [p \in Position |-> SumOfBounds(TermsAt(p, Cardinality(Term)))]
         /\ first_lookup' = MaxScore!update_non_essential_lists(upper_bounds', Cardinality(Term),
                                                                m_threshold)
         /\ next_docid' = Min({docid[t] : t \in Term})
         /\ \/ pc' = "doc" /\ StayInRange
            \/ /\ (q.kind = "ordered" /\ ~WouldEnter(SumOfBounds(Term))) \/ first_lookup' = 0
               /\ LeaveRange("continue")
<1> DEFINE N == Cardinality(Term)
<1>1. /\ pc = "setup" /\ UNCHANGED <<queueVars, cursorVars, order>>
      /\ upper_bounds' = MaxScore!calc_upper_bounds
      /\ first_lookup' = MaxScore!update_non_essential_lists(upper_bounds', N, m_threshold)
      /\ next_docid' = MaxScore!min_docid
      /\ \/ pc' = "doc" /\ StayInRange
         \/ /\ (q.kind = "ordered" /\ ~WouldEnter(SumOfBounds(Term))) \/ first_lookup' = 0
            /\ LeaveRange("continue")
  <2>1. MaxScore!Cardinality(Term) = N /\ MaxScore!queueVars = queueVars
        /\ MaxScore!cursorVars = cursorVars
        /\ (MaxScore!StayInRange <=> StayInRange)
        /\ (MaxScore!LeaveRange("continue") <=> LeaveRange("continue"))
        /\ (MaxScore!WouldEnter(MaxScore!SumOfBounds(Term)) <=> WouldEnter(SumOfBounds(Term)))
    BY MaxScoreSame
  <2>2. pc = "setup" /\ upper_bounds' = MaxScore!calc_upper_bounds
        /\ next_docid' = MaxScore!min_docid
    BY DEF MaxScore!SetUp
  <2>3. first_lookup' = MaxScore!update_non_essential_lists(
                          upper_bounds', MaxScore!Cardinality(Term), m_threshold)
    BY DEF MaxScore!SetUp
  <2>4. UNCHANGED <<MaxScore!queueVars, MaxScore!cursorVars, order>>
    BY DEF MaxScore!SetUp
  <2>5. \/ pc' = "doc" /\ MaxScore!StayInRange
        \/ /\ (q.kind = "ordered" /\ ~MaxScore!WouldEnter(MaxScore!SumOfBounds(Term))) \/ first_lookup' = 0
           /\ MaxScore!LeaveRange("continue")
    BY DEF MaxScore!SetUp
  <2>6. UNCHANGED <<queueVars, cursorVars>>
    BY <2>4 DEF MaxScore!queueVars, queueVars, MaxScore!cursorVars, cursorVars
  <2> QED BY <2>1, <2>2, <2>3, <2>4, <2>5, <2>6
<1>2. MaxScore!min_docid = Min({docid[t] : t \in Term})
  BY MaxScoreSame DEF MaxScore!min_docid
<1>3. MaxScore!calc_upper_bounds = [p \in Position |-> SumOfBounds(TermsAt(p, N))]
  BY CalcUpperBounds
<1> QED BY <1>1, <1>2, <1>3

\* A range is set up.
LEMMA MaxScoreSetUp ==
  ASSUME MaxScoreInv, MaxScore!SetUp
  PROVE  MaxScoreInv'
<1> DEFINE N == Cardinality(Term)
<1>1. /\ N \in Nat \ {0} /\ Position = 1..N /\ q \in Inputs
      /\ RangeInv(Doc) /\ CursorsInLists /\ docid \in [Term -> Nat] /\ QueueOK
      /\ m_threshold \in Nat /\ processed \in Nat /\ max_docid \in Nat /\ Doc = 0..(max_docid - 1)
      /\ max_score \in [Term -> Nat]
  BY PositionFacts, DocAssumption
     DEF MaxScoreInv, RangeInv, Call, CursorsInLists, QueueOK, GoodQueue
<1>2. /\ pc = "setup" /\ UNCHANGED <<queueVars, cursorVars, order>>
      /\ upper_bounds' = [p \in Position |-> SumOfBounds(TermsAt(p, N))]
      /\ first_lookup' = MaxScore!update_non_essential_lists(upper_bounds', N, m_threshold)
      /\ next_docid' = Min({docid[t] : t \in Term})
      /\ \/ pc' = "doc" /\ StayInRange
         \/ /\ q.kind = "ordered" \/ first_lookup' = 0
            /\ LeaveRange("continue")
  BY SetUpStep
<1>3. /\ upper_bounds' \in [1..N -> Nat] /\ upper_bounds'[1] = SumOfBounds(Term)
  <2>1. PICK ub : ub = upper_bounds'
    OBVIOUS
  <2> QED BY <1>2, <2>1, BoundsAreSums
<1>4. /\ first_lookup' \in 0..N
      /\ first_lookup' < N => upper_bounds'[first_lookup' + 1] <= m_threshold
      /\ upper_bounds'[1] > m_threshold => first_lookup' >= 1
  <2>1. PICK ub, r : ub = upper_bounds' /\ r = first_lookup'
    OBVIOUS
  <2>2. N \in 0..N /\ N >= 1
    BY <1>1
  <2>3. PICK floor : floor = m_threshold
    OBVIOUS
  <2>4. ub \in [1..N -> Nat] /\ floor \in Nat /\ N \in Nat
        /\ r = MaxScore!update_non_essential_lists(ub, N, floor)
    BY <1>1, <1>2, <1>3, <2>1, <2>3
  <2>5. /\ r \in 0..N
        /\ r < N => ub[r + 1] <= floor
        /\ N >= 1 /\ ub[1] > floor => r >= 1
    <3> HIDE DEF N
    <3> QED BY <2>2, <2>4, StillEssential
  <2> QED BY <2>1, <2>2, <2>3, <2>5
<1>5. /\ q.kind = "timeout" => first_lookup' # 0
  BY <1>1, <1>2, <1>3, <1>4 DEF MaxScoreInv, ClockRuns, WouldEnter
<1>6. CASE LeaveRange("continue") /\ (q.kind = "ordered" \/ first_lookup' = 0)
  <2>1. RangeInv(Doc)' /\ pc' # "doc" /\ pc' # "setup"
    BY <1>1, <1>2, <1>6, OutsideInv DEF LeaveRange
  <2>2. q.kind # "timeout" /\ q' = q
    BY <1>5, <1>6 DEF LeaveRange, inputVars
  <2> QED BY <1>2, <2>1, <2>2 DEF MaxScoreInv, TermsAt
<1>7. CASE pc' = "doc" /\ StayInRange
  <2>1. /\ UNCHANGED <<m_q, m_threshold, docid, max_score, range, processed, timed, q>>
        /\ UNCHANGED <<queueVars, inputVars, processed>> /\ UNCHANGED inputVars
    BY <1>2, <1>7 DEF queueVars, cursorVars, StayInRange, loopVars, inputVars
  <2>2. CursorsInLists' /\ QueueOK' /\ \A t : Docs(t)' = Docs(t)
    BY <1>1, <2>1, SameCall, QueueKept DEF CursorsInLists
  <2>3. RangeInv(Doc)'
    BY <1>1, <1>2, <1>7, <2>1, <2>2, InsideInv
  <2> DEFINE S == {docid[t] : t \in Term}
  <2>4. next_docid' \in S /\ \A t \in Term : next_docid' <= docid[t]
    <3>1. S \in SUBSET Nat /\ S # {} /\ \A t \in Term : docid[t] \in S
      BY <1>1, TermAssumption
    <3>2. Min(S) \in S /\ \A n \in S : Min(S) <= n
      <4> HIDE DEF S
      <4> QED BY <3>1, MinOfNaturals
    <3> HIDE DEF S
    <3> QED BY <1>2, <3>1, <3>2 DEF S
  <2>5. next_docid' \in 0..max_docid
    <3>1. \A t \in Term : docid[t] \in Nat /\ docid[t] <= max_docid
      BY <1>1, NextFacts
    <3> QED BY <1>1, <2>4, <3>1
  <2>6. \A e \in Doc : next_docid' <= e => Ahead(e)
    <3> SUFFICES ASSUME NEW e \in Doc, next_docid' <= e PROVE Ahead(e)
      OBVIOUS
    <3>1. PICK t \in Term : next_docid' = docid[t]
      BY <2>4
    <3>2. docid[t] < max_docid /\ range.lower <= docid[t] /\ docid[t] \in Nat /\ range.lower \in Nat
      BY <1>1, <1>2, <3>1 DEF RangeInv
    <3>3. range.lower <= e
      BY <1>1, <3>1, <3>2
    <3> QED BY <1>1, <1>2, <3>3 DEF RangeInv
  <2>7. \A e \in Scope(range) : e < next_docid' => Decided(e)
    <3> SUFFICES ASSUME NEW e \in Scope(range), e < next_docid' PROVE Decided(e)
      OBVIOUS
    <3>1. e \in Doc /\ e \in Nat /\ Ahead(e)
      BY <1>1, <1>2 DEF Scope, InRange, RangeInv
    <3>2. \A t \in Term : ~(docid[t] <= e)
      <4> SUFFICES ASSUME NEW t \in Term PROVE ~(docid[t] <= e)
        OBVIOUS
      <4>1. next_docid' <= docid[t] /\ docid[t] \in Nat /\ next_docid' \in Nat
        BY <1>1, <2>4, <2>5
      <4> QED BY <3>1, <4>1
    <3>3. \A t \in Term : e \notin Docs(t)
      BY <3>1, <3>2 DEF Ahead
    <3>4. FullScore(e) \in Nat /\ FullScore(e) <= 0
      <4>1. ScoreOver(Term, e) = 0
        BY <1>1, <3>3, NoPostingNoScore
      <4>2. PICK D : D = Doc
        OBVIOUS
      <4>3. FullScore(e) \in Nat /\ FullScore(e) <= ScoreOver(Term, e)
        BY <1>1, <3>1, <4>2, FullScoreFacts DEF RangeInv
      <4> QED BY <4>1, <4>3
    <3> QED BY <1>1, <3>4 DEF Decided, WouldEnter
  <2>8. \A en \in m_q : en.visit # processed
    <3>1. \A en \in m_q : en.visit \in Nat /\ en.visit < processed
      BY <1>1, <1>2 DEF RangeInv, QueueOK, GoodQueue, Entry
    <3> QED BY <1>1, <3>1
  <2>9. \A t \in MaxScore!Essential' : next_docid' <= docid'[t]
    <3>1. MaxScore!Essential' \in SUBSET Term
      <4>1. \A i \in 1..first_lookup' : order[i] \in Term
        BY <1>1, <1>4 DEF MaxScoreInv
      <4> QED BY <1>2, <4>1 DEF MaxScore!Essential
    <3> QED BY <2>1, <2>4, <3>1
  <2>10. /\ \A e : Ahead(e) => Ahead(e)'
         /\ \A e : Decided(e) <=> Decided(e)'
         /\ Scope(range)' = Scope(range)
    BY <2>1, <2>2, QueueKept DEF Ahead, Scope
  <2>11. upper_bounds' = [p \in Position |-> SumOfBounds(TermsAt(p, N))']
    BY <1>2, <2>1 DEF SumOfBounds, TermsAt
  <2>14. next_docid' < range'.upper => range'.lower <= next_docid'
    <3>1. PICK t \in Term : next_docid' = docid[t]
      BY <2>4
    <3>2. docid[t] < max_docid => range.lower <= docid[t]
      BY <1>1, <1>2 DEF RangeInv
    <3>3. range.upper \in Nat /\ range.upper <= max_docid /\ docid[t] \in Nat
      BY <1>1 DEF RangeInv
    <3> QED BY <1>1, <2>1, <3>1, <3>2, <3>3
  <2>12. EvaluatesRange'
    BY <1>4, <2>1, <2>5, <2>6, <2>7, <2>8, <2>9, <2>10, <2>11, <2>14 DEF EvaluatesRange
  <2>13. (q.kind = "timeout" => ClockRuns)'
    BY <1>2, <1>7, <2>1 DEF MaxScoreInv, ClockRuns
  <2> QED BY <1>2, <2>3, <2>12, <2>13 DEF MaxScoreInv, TermsAt
<1> QED BY <1>2, <1>6, <1>7

\* A range begins, and its bounds add up to more than the threshold.
LEMMA MaxScoreStart ==
  ASSUME MaxScoreInv, NEW c \in Cluster, StartRange(c), UNCHANGED order
  PROVE  MaxScoreInv'
<1>1. /\ RangeInv(Doc)' /\ pc' = "setup" /\ processed' = processed + 1
      /\ ~Hopeless(c) /\ BoundSum(c) \in Nat
      /\ BoundSum(c) <= SumFunctionOnSet(max_score', Term)
      /\ m_threshold' = m_threshold /\ m_threshold \in Nat
  BY StartRangeInv DEF MaxScoreInv
<1>2. pc = "select" /\ timed' = timed /\ q' = q /\ processed \in Nat
  BY DEF StartRange, inputVars, MaxScoreInv, RangeInv
<1>3. ASSUME q.kind = "timeout" PROVE ClockRuns'
  <2>1. WouldEnter(BoundSum(c)) /\ timed \in Nat /\ processed = timed
    BY <1>1, <1>2, <1>3 DEF Hopeless, MaxScoreInv, ClockRuns
  <2>2. SumFunctionOnSet(max_score', Term) \in Nat
    <3>1. \A t \in Term : max_score'[t] \in Nat
      BY <1>1 DEF RangeInv
    <3>2. PICK b : b = max_score'
      OBVIOUS
    <3>3. SumFunctionOnSet(b, Term) \in Nat
      BY <3>1, <3>2, TermAssumption, SumNat
    <3> QED BY <3>2, <3>3
  <2>3. SumFunctionOnSet(max_score', Term) > m_threshold'
    BY <1>1, <2>1, <2>2 DEF WouldEnter
  <2>4. WouldEnter(SumOfBounds(Term))'
    BY <2>3 DEF WouldEnter, SumOfBounds
  <2> QED BY <1>1, <1>2, <2>1, <2>4 DEF ClockRuns
<1> QED BY <1>1, <1>2, <1>3 DEF MaxScoreInv, TermsAt

\* The score of the candidate before the lists from position p on are looked up.
ScoreUpTo(p) ==
  ScoreOver({t \in MaxScore!Essential \cup TermsAt(first_lookup + 1, p - 1) :
               NextGeq(t, next_docid) = next_docid}, next_docid)

\* The steps of a candidate.
LEMMA CandidateStep ==
  ASSUME MaxScore!Candidate
  PROVE  /\ pc = "doc" /\ first_lookup > 0 /\ next_docid < range.upper
         /\ docid' = [t \in Term |->
                        IF t \in MaxScore!Essential
                          THEN IF docid[t] = next_docid THEN NextPosting(t) ELSE docid[t]
                          ELSE IF t \in MaxScore!LookedUp THEN NextGeq(t, next_docid)
                                                          ELSE docid[t]]
         /\ next_docid' = Min({range.upper} \cup {docid'[t] : t \in MaxScore!Essential})
         /\ MaxScore!Blocked = {} =>
              /\ InsertDocument(next_docid, ScoreUpTo(Cardinality(Term) + 1))
              /\ first_lookup' = MaxScore!update_non_essential_lists(upper_bounds, first_lookup,
                                                                     m_threshold')
         /\ MaxScore!Blocked # {} => UNCHANGED queueVars /\ UNCHANGED first_lookup
         /\ StayInRange /\ UNCHANGED <<pc, max_score, order, upper_bounds>>
<1>1. \A p : MaxScore!ScoreBefore(p) = ScoreUpTo(p)
  BY DEF MaxScore!ScoreBefore, ScoreUpTo, TermsAt, MaxScore!ScoreOver, ScoreOver,
         MaxScore!SumFunctionOnSet, SumFunctionOnSet, MaxScore!FoldFunctionOnSet,
         FoldFunctionOnSet, MaxScore!MapThenFoldSet, MapThenFoldSet,
         MaxScore!Score, Score, MaxScore!Docs, Docs, MaxScore!NextGeq, NextGeq,
         MaxScore!Geq, Geq, MaxScore!Min, Min, MaxScore!Max, Max
<1>2. pc = "doc" /\ first_lookup > 0 /\ next_docid < range.upper
  BY DEF MaxScore!Candidate, MaxScore!HasCandidate
<1>3. docid' = [t \in Term |->
                  IF t \in MaxScore!Essential
                    THEN IF docid[t] = next_docid THEN NextPosting(t) ELSE docid[t]
                    ELSE IF t \in MaxScore!LookedUp THEN NextGeq(t, next_docid) ELSE docid[t]]
  BY DEF MaxScore!Candidate, MaxScore!Moved, MaxScore!NextGeq, NextGeq,
         MaxScore!NextPosting, NextPosting, MaxScore!Geq, Geq, MaxScore!Min, Min,
         MaxScore!Max, Max, MaxScore!Docs, Docs
<1>4. next_docid' = Min({range.upper} \cup {docid'[t] : t \in MaxScore!Essential})
  BY DEF MaxScore!Candidate, MaxScore!Min, Min
<1>5. MaxScore!Blocked = {} =>
        /\ InsertDocument(next_docid, ScoreUpTo(Cardinality(Term) + 1))
        /\ first_lookup' = MaxScore!update_non_essential_lists(upper_bounds, first_lookup,
                                                               m_threshold')
  <2>1. MaxScore!Blocked = {} =>
          /\ MaxScore!InsertDocument(next_docid,
                                     MaxScore!ScoreBefore(MaxScore!Cardinality(Term) + 1))
          /\ first_lookup' = MaxScore!update_non_essential_lists(upper_bounds, first_lookup,
                                                                 m_threshold')
    BY DEF MaxScore!Candidate
  <2> QED BY <1>1, <2>1, MaxScoreSame
<1>6. MaxScore!Blocked # {} => UNCHANGED queueVars /\ UNCHANGED first_lookup
  BY DEF MaxScore!Candidate, MaxScore!queueVars, queueVars
<1>7. StayInRange /\ UNCHANGED <<pc, max_score, order, upper_bounds>>
  BY MaxScoreSame DEF MaxScore!Candidate
<1> QED BY <1>2, <1>3, <1>4, <1>5, <1>6, <1>7

\* A position is blocked by the score so far and the bounds from there on.
LEMMA BlockedFacts ==
  \A p \in MaxScore!Blocked :
    /\ p \in (first_lookup + 1)..Cardinality(Term)
    /\ ~WouldEnter(ScoreUpTo(p) + upper_bounds[p])
BY Zenon
   DEF MaxScore!Blocked, MaxScore!ScoreBefore, ScoreUpTo, TermsAt, MaxScore!ScoreOver, ScoreOver,
       MaxScore!SumFunctionOnSet, SumFunctionOnSet, MaxScore!FoldFunctionOnSet,
       FoldFunctionOnSet, MaxScore!MapThenFoldSet, MapThenFoldSet,
       MaxScore!Score, Score, MaxScore!Docs, Docs, MaxScore!NextGeq, NextGeq,
       MaxScore!Geq, Geq, MaxScore!Min, Min, MaxScore!Max, Max,
       MaxScore!WouldEnter, WouldEnter, MaxScore!Cardinality, Cardinality

\* What is known while a range is evaluated.
LEMMA EvaluationFacts ==
  ASSUME MaxScoreInv, pc = "doc"
  PROVE  /\ Cardinality(Term) \in Nat \ {0} /\ Position = 1..Cardinality(Term)
         /\ first_lookup \in 0..Cardinality(Term)
         /\ MaxScore!Essential = TermsAt(1, first_lookup) /\ MaxScore!Essential \in SUBSET Term
         /\ order \in [Position -> Term] /\ TermsAt(1, Cardinality(Term)) = Term
         /\ upper_bounds \in [1..Cardinality(Term) -> Nat]
         /\ \A p \in Position : upper_bounds[p] = SumOfBounds(TermsAt(p, Cardinality(Term)))
         /\ next_docid \in Nat /\ next_docid <= max_docid
         /\ RangeInv(Doc) /\ Call(Doc) /\ q \in Inputs /\ CursorsInLists /\ QueueOK /\ Bounded
         /\ docid \in [Term -> Nat] /\ max_score \in [Term -> Nat]
         /\ m_threshold \in Nat /\ processed \in Nat /\ range.upper \in Nat
         /\ range.upper <= max_docid /\ max_docid \in Nat /\ Doc = 0..(max_docid - 1)
<1>1. RangeInv(Doc) /\ EvaluatesRange
  BY DEF MaxScoreInv
<1>2. upper_bounds \in [1..Cardinality(Term) -> Nat]
  <2>1. PICK ub : ub = upper_bounds
    OBVIOUS
  <2> QED BY <1>1, <2>1, BoundsAreSums DEF EvaluatesRange
<1>3. MaxScore!Essential \in SUBSET Term
  BY <1>1, PositionFacts DEF EvaluatesRange
<1>4. /\ Call(Doc) /\ q \in Inputs /\ CursorsInLists /\ QueueOK /\ Bounded
      /\ docid \in [Term -> Nat] /\ max_score \in [Term -> Nat]
      /\ m_threshold \in Nat /\ processed \in Nat /\ range.upper \in Nat
      /\ range.upper <= max_docid /\ max_docid \in Nat /\ Doc = 0..(max_docid - 1)
  BY <1>1, DocAssumption DEF RangeInv, Call, CursorsInLists, QueueOK, GoodQueue
<1>5. /\ first_lookup \in 0..Cardinality(Term) /\ next_docid \in Nat /\ next_docid <= max_docid
      /\ \A p \in Position : upper_bounds[p] = SumOfBounds(TermsAt(p, Cardinality(Term)))
  BY <1>1, <1>4 DEF EvaluatesRange
<1> QED BY <1>1, <1>2, <1>3, <1>4, <1>5, PositionFacts DEF MaxScoreInv

\* The lists from a position on add at most their bounds to a score.
LEMMA LookupsBounded ==
  ASSUME MaxScoreInv, pc = "doc", NEW d \in Scope(range), NEW p \in 1..Cardinality(Term)
  PROVE  ScoreOver(Term, d) <= ScoreOver(TermsAt(1, p - 1), d) + upper_bounds[p]
<1> DEFINE N == Cardinality(Term)
           T == TermsAt(1, p - 1)
           A == TermsAt(p, N)
           f == [t \in Term |-> Score(t, d)]
<1>1. /\ N \in Nat /\ q \in Inputs /\ max_score \in [Term -> Nat] /\ d \in Doc
      /\ Bounded /\ upper_bounds[p] = SumOfBounds(A)
      /\ order \in [1..N -> Term] /\ TermsAt(1, N) = Term
  BY EvaluationFacts DEF Scope
<1>2. T \in SUBSET Term /\ A \in SUBSET Term /\ Term \ T \in SUBSET A
  <2>1. \A i \in 1..(p - 1) : i \in 1..N
    BY <1>1
  <2>2. T \in SUBSET Term /\ A \in SUBSET Term
    BY <1>1, <2>1 DEF TermsAt
  <2>3. ASSUME NEW t \in Term \ T PROVE t \in A
    <3>1. PICK i \in 1..N : t = order[i]
      BY <1>1, <2>3 DEF TermsAt
    <3>2. i \notin 1..(p - 1)
      BY <2>3, <3>1 DEF TermsAt
    <3>3. i \in p..N
      BY <1>1, <3>2
    <3> QED BY <3>1, <3>3 DEF TermsAt
  <2> QED BY <2>2, <2>3
<1>3. \A t \in Term : f[t] \in Int
  BY <1>1, ScoreTypes
<1>4. SumFunctionOnSet(f, Term) = SumFunctionOnSet(f, T) + SumFunctionOnSet(f, Term \ T)
  <2> HIDE DEF f, T
  <2> QED BY <1>2, <1>3, TermAssumption, SumOfParts
<1>5. /\ ScoreOver(Term, d) = SumFunctionOnSet(f, Term) /\ ScoreOver(Term, d) \in Nat
      /\ ScoreOver(T, d) = SumFunctionOnSet(f, T) /\ ScoreOver(T, d) \in Nat
      /\ ScoreOver(Term \ T, d) = SumFunctionOnSet(f, Term \ T) /\ ScoreOver(Term \ T, d) \in Nat
  BY <1>1, <1>2, ScoreOverTerms
<1>6. ScoreOver(Term \ T, d) <= SumFunctionOnSet(max_score, A)
  <2>1. \A t \in A : max_score[t] \in Nat /\ Score(t, d) <= max_score[t]
    BY <1>1, <1>2 DEF Bounded
  <2>2. Term \ T \in SUBSET Term /\ \A t \in Term \ T : d \in Docs(t) => t \in A
    BY <1>2
  <2> HIDE DEF T, A
  <2> QED BY <1>1, <1>2, <2>1, <2>2, ScoreBounded
<1>7. SumOfBounds(A) \in Nat
  BY <1>1, <1>2, SumOfBoundsFacts
<1>8. ScoreOver(Term, d) <= ScoreOver(T, d) + SumOfBounds(A)
  <2> HIDE DEF f, T, A
  <2> QED BY <1>4, <1>5, <1>6, <1>7 DEF SumOfBounds
<1> QED BY <1>1, <1>8

\* The score of the candidate so far is that over the terms before position p.
LEMMA ScoreUpToFacts ==
  ASSUME MaxScoreInv, pc = "doc", next_docid \in Doc,
         NEW p \in (first_lookup + 1)..(Cardinality(Term) + 1)
  PROVE  ScoreUpTo(p) = ScoreOver(TermsAt(1, p - 1), next_docid)
<1> DEFINE N == Cardinality(Term)
           n == first_lookup
           c == next_docid
           T == TermsAt(1, p - 1)
           U == {t \in T : NextGeq(t, c) = c}
<1>1. /\ N \in Nat /\ n \in 0..N /\ MaxScore!Essential = TermsAt(1, n)
      /\ q \in Inputs /\ CursorsInLists /\ c \in Nat /\ c <= max_docid /\ max_docid \in Nat
      /\ order \in [1..N -> Term] /\ docid \in [Term -> Nat]
  BY EvaluationFacts
<1>2. MaxScore!Essential \cup TermsAt(n + 1, p - 1) = T
  <2>1. \A i : i \in 1..(p - 1) <=> (i \in 1..n \/ i \in (n + 1)..(p - 1))
    BY <1>1
  <2> QED BY <1>1, <2>1 DEF TermsAt
<1>3. T \in SUBSET Term /\ U \in SUBSET T
  <2>1. \A i \in 1..(p - 1) : i \in 1..N
    BY <1>1
  <2> QED BY <1>1, <2>1 DEF TermsAt
<1>4. ScoreUpTo(p) = ScoreOver(U, c)
  BY <1>2 DEF ScoreUpTo
<1>5. ASSUME NEW t \in T \ U PROVE c \notin Docs(t)
  <2> SUFFICES ASSUME c \in Docs(t) PROVE FALSE
    OBVIOUS
  <2>1. docid[t] <= c
    BY <1>3 DEF MaxScoreInv, EvaluatesRange, Ahead
  <2>2. NextGeq(t, c) \in Nat /\ NextGeq(t, c) <= c /\ c <= NextGeq(t, c)
    <3>1. c \in 0..max_docid /\ t \in Term /\ c <= c
      BY <1>1, <1>3
    <3> QED BY <1>1, <2>1, <3>1, NextFacts
  <2>3. NextGeq(t, c) = c
    BY <1>1, <2>2
  <2> QED BY <2>3
<1>6. ScoreOver(U, c) = ScoreOver(T, c)
  <2> HIDE DEF U, T
  <2> QED BY <1>1, <1>3, <1>5, ScoreOverMonotonic
<1> QED BY <1>4, <1>6

\* A candidate is dealt with.
LEMMA MaxScoreCandidate ==
  ASSUME MaxScoreInv, MaxScore!Candidate
  PROVE  /\ MaxScoreInv'
         /\ pc = "doc" /\ StayInRange /\ pc' = pc
         /\ \A t \in Term : docid'[t] >= docid[t]
         /\ \/ UNCHANGED queueVars
            \/ /\ InsertDocument(next_docid, FullScore(next_docid))
               /\ next_docid \in Scope(range)
               /\ \A en \in m_q : en.docid # next_docid \/ en.visit # processed
<1> DEFINE N == Cardinality(Term)
           n == first_lookup
           c == next_docid
           E == MaxScore!Essential
<1>1. /\ N \in Nat \ {0} /\ Position = 1..N
      /\ n \in 1..N /\ E = TermsAt(1, n) /\ E \in SUBSET Term
      /\ upper_bounds \in [1..N -> Nat]
      /\ \A p \in Position : upper_bounds[p] = SumOfBounds(TermsAt(p, N))
      /\ c \in Nat /\ c < range.upper
      /\ RangeInv(Doc) /\ Call(Doc) /\ q \in Inputs /\ CursorsInLists /\ QueueOK /\ Bounded
      /\ docid \in [Term -> Nat] /\ max_score \in [Term -> Nat]
      /\ m_threshold \in Nat /\ processed \in Nat /\ range.upper \in Nat
      /\ range.upper <= max_docid /\ max_docid \in Nat /\ Doc = 0..(max_docid - 1)
      /\ pc = "doc" /\ EvaluatesRange
  BY CandidateStep, EvaluationFacts DEF MaxScoreInv
<1>2. c \in Doc /\ c < max_docid
  BY <1>1
<1>3. /\ \A t \in Term : docid'[t] = IF t \in E
                                      THEN IF docid[t] = c THEN NextPosting(t) ELSE docid[t]
                                      ELSE IF t \in MaxScore!LookedUp THEN NextGeq(t, c)
                                                                      ELSE docid[t]
      /\ DOMAIN docid' = Term /\ docid' = [t \in Term |-> docid'[t]]
      /\ next_docid' = Min({range.upper} \cup {docid'[t] : t \in E})
      /\ MaxScore!Blocked = {} =>
           /\ InsertDocument(c, ScoreUpTo(N + 1))
           /\ first_lookup' = MaxScore!update_non_essential_lists(upper_bounds, n, m_threshold')
      /\ MaxScore!Blocked # {} => UNCHANGED queueVars /\ UNCHANGED first_lookup
      /\ StayInRange /\ UNCHANGED <<pc, max_score, order, upper_bounds>>
  BY CandidateStep
<1>4. /\ UNCHANGED <<inputVars, processed, range, timed>> /\ UNCHANGED inputVars /\ q' = q
      /\ \A t : Docs(t)' = Docs(t)
      /\ Scope(range)' = Scope(range)
  BY <1>3, SameCall DEF StayInRange, loopVars, inputVars, Scope
<1>5. \A t \in Term : /\ docid'[t] \in Nat /\ docid'[t] \in Docs(t) \cup {max_docid}
                      /\ docid'[t] >= docid[t]
                      /\ \A e \in Docs(t) : c < e /\ docid[t] <= e => docid'[t] <= e
                      /\ t \in E => docid'[t] > c
  <2> SUFFICES ASSUME NEW t \in Term
               PROVE  /\ docid'[t] \in Nat /\ docid'[t] \in Docs(t) \cup {max_docid}
                      /\ docid'[t] >= docid[t]
                      /\ \A e \in Docs(t) : c < e /\ docid[t] <= e => docid'[t] <= e
                      /\ t \in E => docid'[t] > c
    OBVIOUS
  <2>1. /\ docid[t] \in Nat /\ docid[t] \in Docs(t) \cup {max_docid}
        /\ \A e \in Docs(t) : e \in Nat
    <3>1. Docs(t) \in SUBSET Doc
      BY <1>1, CallTypes
    <3>2. \A e \in Docs(t) : e \in Nat
      BY <3>1, DocAssumption
    <3> QED BY <1>1, <3>2 DEF CursorsInLists
  <2>2. CASE t \in E /\ docid[t] = c
    <3>1. docid'[t] = NextPosting(t)
      BY <1>3, <2>2
    <3>2. /\ NextPosting(t) \in Docs(t) \cup {max_docid} /\ NextPosting(t) \in Nat
          /\ docid[t] < NextPosting(t)
          /\ \A e \in Docs(t) : docid[t] < e => NextPosting(t) <= e
      BY <1>1, <1>2, <2>2, NextFacts
    <3> QED BY <2>1, <2>2, <3>1, <3>2
  <2>3. CASE t \in E /\ docid[t] # c
    <3>1. c <= docid[t]
      BY <2>3, <1>1 DEF EvaluatesRange
    <3> QED BY <1>1, <1>3, <2>1, <2>3, <3>1
  <2>4. CASE t \notin E /\ t \in MaxScore!LookedUp
    <3>1. docid'[t] = NextGeq(t, c)
      BY <1>3, <2>4
    <3>2. /\ NextGeq(t, c) \in Docs(t) \cup {max_docid} /\ NextGeq(t, c) \in Nat
          /\ docid[t] <= NextGeq(t, c)
          /\ \A e \in Docs(t) : c <= e /\ docid[t] <= e => NextGeq(t, c) <= e
      BY <1>1, NextFacts
    <3>3. \A e \in Docs(t) : c < e => c <= e
      BY <1>1, <2>1
    <3> QED BY <2>1, <2>4, <3>1, <3>2, <3>3
  <2>5. CASE t \notin E /\ t \notin MaxScore!LookedUp
    BY <1>3, <2>1, <2>5
  <2> QED BY <2>2, <2>3, <2>4, <2>5
<1>6. CursorsInLists'
  <2>1. docid' \in [Term -> Nat]
    BY <1>3, <1>5
  <2> QED BY <1>4, <1>5, <2>1 DEF CursorsInLists
<1>7. /\ next_docid' \in Nat /\ c < next_docid' /\ next_docid' <= range.upper
      /\ \A t \in E : next_docid' <= docid'[t]
  <2> DEFINE S == {range.upper} \cup {docid'[t] : t \in E}
  <2>1. S \in SUBSET Nat /\ S # {} /\ range.upper \in S /\ \A t \in E : docid'[t] \in S
    BY <1>1, <1>5
  <2>2. \A d \in S : c < d
    BY <1>1, <1>5
  <2>3. Min(S) \in S /\ \A d \in S : Min(S) <= d
    <3> HIDE DEF S
    <3> QED BY <2>1, MinOfNaturals
  <2>4. next_docid' = Min(S)
    BY <1>3
  <2> HIDE DEF S
  <2> QED BY <2>1, <2>2, <2>3, <2>4
<1>8. /\ QueueOK'
      /\ m_threshold' \in Nat /\ m_threshold' >= m_threshold
      /\ \A en \in m_q' : en \in m_q \/ (en.docid = c /\ en.visit = processed)
      /\ \A e \in Doc : Decided(e) => Decided(e)'
      /\ \A e \in Doc : e = c /\ MaxScore!Blocked = {} => Decided(e)'
      /\ first_lookup' \in 0..n
      /\ first_lookup' < n => upper_bounds[first_lookup' + 1] <= m_threshold'
      /\ \/ UNCHANGED queueVars
         \/ /\ InsertDocument(c, FullScore(c))
            /\ \A en \in m_q : en.docid # c \/ en.visit # processed
  <2>1. CASE MaxScore!Blocked # {}
    <3>1. UNCHANGED <<queueVars, inputVars, processed>> /\ UNCHANGED <<m_q, m_threshold>>
          /\ first_lookup' = n
      BY <1>3, <1>4, <2>1 DEF queueVars
    <3> QED BY <1>1, <2>1, <3>1, QueueKept
  <2>2. CASE MaxScore!Blocked = {}
    <3>1. ScoreUpTo(N + 1) = ScoreOver(Term, c) /\ ScoreOver(Term, c) \in Nat
          /\ FullScore(c) = ScoreOver(Term, c)
      <4>1. N + 1 \in (n + 1)..(N + 1) /\ N + 1 - 1 = N
        BY <1>1
      <4>2. ScoreUpTo(N + 1) = ScoreOver(TermsAt(1, N), c)
        BY <1>1, <1>2, <4>1, ScoreUpToFacts
      <4>3. TermsAt(1, N) = Term
        BY DEF MaxScoreInv
      <4>4. ScoreOver(Term, c) \in Nat /\ FullScore(c) = ScoreOver(Term, c)
        BY <1>1, <1>2, ScoreOverTerms, FullScoreFacts
      <4> QED BY <4>2, <4>3, <4>4
    <3>2. \A en \in m_q : en.docid # c \/ en.visit # processed
      <4>1. \A en \in m_q : en.visit = processed => en.docid < c
        BY <1>1 DEF EvaluatesRange
      <4> QED BY <1>1, <4>1
    <3>3. /\ QueueOK'
          /\ m_threshold' \in Nat /\ m_threshold' >= m_threshold
          /\ \A en \in m_q' : en \in m_q \/ (en.docid = c /\ en.visit = processed)
          /\ \A e \in Doc : Decided(e) => Decided(e)'
          /\ \A e \in Doc : e = c => Decided(e)'
      <4>1. PICK d, s : d = c /\ s = ScoreUpTo(N + 1)
        OBVIOUS
      <4>2. InsertDocument(d, s) /\ s \in Nat /\ s = FullScore(d) /\ d \in Doc
        BY <1>2, <1>3, <2>2, <3>1, <4>1
      <4>3. \A en \in m_q : en.docid # d \/ en.visit # processed
        BY <3>2, <4>1
      <4>4. UNCHANGED <<inputVars, processed>>
        BY <1>4
      <4>5. /\ QueueOK'
            /\ m_threshold' \in Nat /\ m_threshold' >= m_threshold
            /\ \A en \in m_q' : en \in m_q \/ (en.docid = d /\ en.visit = processed)
            /\ \A e \in Doc : Decided(e) => Decided(e)'
            /\ Decided(d)'
        BY <1>1, <4>2, <4>3, <4>4, InsertStep
      <4> QED BY <4>1, <4>5
    <3>4. /\ first_lookup' \in 0..n
          /\ first_lookup' < n => upper_bounds[first_lookup' + 1] <= m_threshold'
      <4>1. PICK ub, floor, r : ub = upper_bounds /\ floor = m_threshold' /\ r = first_lookup'
        OBVIOUS
      <4>2. /\ ub \in [1..N -> Nat] /\ floor \in Nat /\ N \in Nat /\ n \in 0..N
            /\ r = MaxScore!update_non_essential_lists(ub, n, floor)
        BY <1>1, <1>3, <2>2, <3>3, <4>1
      <4>3. r \in 0..n /\ (r < n => ub[r + 1] <= floor)
        BY <4>2, StillEssential
      <4> QED BY <4>1, <4>3
    <3>5. InsertDocument(c, FullScore(c))
      BY <1>3, <2>2, <3>1
    <3> QED BY <2>2, <3>2, <3>3, <3>4, <3>5
  <2> QED BY <2>1, <2>2
<1>9. RangeInv(Doc)'
  BY <1>1, <1>3, <1>6, <1>8, InsideInv
<1>10. ASSUME NEW e \in Scope(range), e < next_docid' PROVE Decided(e)'
  <2>1. e \in Doc /\ e \in Nat
    BY <1>1 DEF Scope
  <2>2. FullScore(e) \in Nat /\ FullScore(e) <= ScoreOver(Term, e) /\ ScoreOver(Term, e) \in Nat
    BY <1>1, <2>1, FullScoreFacts, ScoreOverTerms
  <2>3. CASE e < c
    BY <1>1, <1>8, <2>1, <2>3 DEF EvaluatesRange
  <2>4. CASE e = c /\ MaxScore!Blocked # {}
    <3>1. PICK p \in MaxScore!Blocked : TRUE
      BY <2>4
    <3>2. p \in (n + 1)..N /\ ~WouldEnter(ScoreUpTo(p) + upper_bounds[p])
      BY BlockedFacts
    <3>3. p \in 1..N /\ p \in (n + 1)..(N + 1) /\ upper_bounds[p] \in Nat
      BY <1>1, <3>2
    <3>4. ScoreUpTo(p) = ScoreOver(TermsAt(1, p - 1), e)
      BY <1>1, <1>2, <2>4, <3>3, ScoreUpToFacts
    <3>5. ScoreOver(Term, e) <= ScoreOver(TermsAt(1, p - 1), e) + upper_bounds[p]
      BY <1>1, <3>3, LookupsBounded
    <3>6. ScoreOver(TermsAt(1, p - 1), e) \in Nat
      <4>1. 1 \in Nat \ {0} /\ p - 1 \in 0..N
        BY <1>1, <3>3
      <4> QED BY <1>1, <4>1, PositionFacts, ScoreOverTerms
    <3>7. ~WouldEnter(FullScore(e))
      BY <1>1, <2>2, <3>2, <3>3, <3>4, <3>5, <3>6 DEF WouldEnter
    <3> QED BY <1>8, <2>1, <3>7 DEF Decided
  <2>5. CASE e = c /\ MaxScore!Blocked = {}
    BY <1>8, <2>1, <2>5
  <2>6. CASE c < e
    <3>1. \A t \in E : e \notin Docs(t)
      <4> SUFFICES ASSUME NEW t \in E, e \in Docs(t) PROVE FALSE
        OBVIOUS
      <4>1. docid[t] <= e
        BY <1>1, <2>1, <2>6 DEF EvaluatesRange, Ahead
      <4>2. docid'[t] <= e /\ docid'[t] \in Nat /\ next_docid' <= docid'[t]
        BY <1>1, <1>5, <1>7, <2>6, <4>1
      <4> QED BY <1>7, <1>10, <2>1, <4>2
    <3>2. ScoreOver(E, e) = 0
      BY <1>1, <3>1, NoPostingNoScore
    <3>3. CASE n = N
      <4>1. E = Term
        BY <1>1, <3>3 DEF MaxScoreInv
      <4> QED BY <1>1, <1>8, <2>1, <2>2, <3>2, <4>1 DEF Decided, WouldEnter
    <3>4. CASE n # N
      <4>1. n + 1 \in 1..N /\ n < N /\ n + 1 - 1 = n
        <5>1. n \in 1..N /\ N \in Nat
          BY <1>1
        <5> QED BY <3>4, <5>1
      <4>2. ScoreOver(Term, e) <= ScoreOver(TermsAt(1, n), e) + upper_bounds[n + 1]
        BY <1>1, <4>1, LookupsBounded
      <4>3. upper_bounds[n + 1] \in Nat /\ upper_bounds[n + 1] <= m_threshold
        BY <1>1, <4>1 DEF EvaluatesRange
      <4>4. ~WouldEnter(FullScore(e))
        BY <1>1, <2>2, <3>2, <4>2, <4>3 DEF WouldEnter
      <4> QED BY <1>8, <2>1, <4>4 DEF Decided
    <3> QED BY <3>3, <3>4
  <2> QED BY <1>1, <2>1, <2>3, <2>4, <2>5, <2>6
<1>11. EvaluatesRange'
  <2>1. first_lookup' \in 0..N
    BY <1>1, <1>8
  <2>2. upper_bounds' = [p \in Position |-> SumOfBounds(TermsAt(p, N))']
    BY <1>1, <1>3 DEF EvaluatesRange, SumOfBounds, TermsAt
  <2>3. first_lookup' < N => upper_bounds'[first_lookup' + 1] <= m_threshold'
    <3>1. CASE first_lookup' = n /\ n < N
      <4>1. upper_bounds[n + 1] <= m_threshold /\ upper_bounds[n + 1] \in Nat
        BY <1>1, <3>1 DEF EvaluatesRange
      <4> QED BY <1>1, <1>3, <1>8, <3>1, <4>1
    <3>2. CASE first_lookup' < n
      BY <1>3, <1>8, <3>2
    <3> QED BY <1>1, <1>8, <3>1, <3>2
  <2>4. next_docid' \in 0..max_docid
    BY <1>1, <1>7
  <2>5. \A t \in MaxScore!Essential' : next_docid' <= docid'[t]
    <3>1. MaxScore!Essential' \in SUBSET E
      <4>1. \A i \in 1..first_lookup' : i \in 1..n
        BY <1>1, <1>8
      <4> QED BY <1>1, <1>3, <4>1 DEF MaxScore!Essential
    <3> QED BY <1>7, <3>1
  <2>6. \A e \in Doc : next_docid' <= e => Ahead(e)'
    <3> SUFFICES ASSUME NEW e \in Doc, next_docid' <= e, NEW t \in Term, e \in Docs(t)
                 PROVE  docid'[t] <= e
      BY <1>4 DEF Ahead
    <3>1. c < e
      BY <1>1, <1>7
    <3>2. docid[t] <= e
      BY <1>1, <3>1 DEF EvaluatesRange, Ahead
    <3> QED BY <1>5, <3>1, <3>2
  <2>7. \A e \in Scope(range)' : e < next_docid' => Decided(e)'
    BY <1>4, <1>10
  <2>8. \A en \in m_q' : en.visit = processed' => en.docid < next_docid'
    <3> SUFFICES ASSUME NEW en \in m_q', en.visit = processed PROVE en.docid < next_docid'
      BY <1>4
    <3>1. CASE en \in m_q
      <4>1. en.docid \in Nat /\ en.docid < c
        BY <1>1, <3>1 DEF EvaluatesRange, QueueOK, GoodQueue, Entry
      <4> QED BY <1>1, <1>7, <4>1
    <3>2. CASE en.docid = c
      BY <1>7, <3>2
    <3> QED BY <1>8, <3>1, <3>2
  <2>9. next_docid' < range'.upper => range'.lower <= next_docid'
    <3>1. range.lower <= c /\ range.lower \in Nat
      BY <1>1 DEF EvaluatesRange, RangeInv
    <3> QED BY <1>1, <1>4, <1>7, <3>1
  <2> QED BY <2>1, <2>2, <2>3, <2>4, <2>5, <2>6, <2>7, <2>8, <2>9 DEF EvaluatesRange
<1>12. (q.kind = "timeout" => ClockRuns)'
  BY <1>1, <1>3, <1>4 DEF MaxScoreInv, ClockRuns
<1>13. MaxScoreInv'
  BY <1>3, <1>9, <1>11, <1>12 DEF MaxScoreInv, TermsAt
<1>14. c \in Scope(range)
  BY <1>1, <1>2 DEF EvaluatesRange, Scope, InRange
<1> QED BY <1>1, <1>3, <1>5, <1>8, <1>13, <1>14

\* Nothing changes.
LEMMA MaxScoreKept ==
  ASSUME MaxScoreInv, UNCHANGED rangeVars, UNCHANGED MaxScore!scoreVars
  PROVE  MaxScoreInv'
<1>1. RangeInv(Doc)'
  BY RangeKept DEF MaxScoreInv
<1>2. /\ \A e : Decided(e) <=> Decided(e)'
      /\ \A t : Docs(t)' = Docs(t)
  BY QueueKept, SameCall DEF rangeVars, loopVars
<1>3. UNCHANGED <<order, upper_bounds, first_lookup, next_docid, m_q, m_threshold, q, pc,
                  docid, max_score, range, processed, timed>>
  BY DEF rangeVars, loopVars, inputVars, cursorVars, queueVars, MaxScore!scoreVars
<1>4. EvaluatesRange => EvaluatesRange'
  <2> SUFFICES ASSUME EvaluatesRange PROVE EvaluatesRange'
    OBVIOUS
  <2>1. upper_bounds' = [p \in Position |-> SumOfBounds(TermsAt(p, Cardinality(Term)))']
    BY <1>3 DEF EvaluatesRange, SumOfBounds, TermsAt
  <2>2. \A t \in MaxScore!Essential' : next_docid' <= docid'[t]
    BY <1>3 DEF EvaluatesRange, MaxScore!Essential
  <2>3. \A e \in Doc : next_docid' <= e => Ahead(e)'
    BY <1>2, <1>3 DEF EvaluatesRange, Ahead
  <2>4. \A e \in Scope(range)' : e < next_docid' => Decided(e)'
    BY <1>2, <1>3 DEF EvaluatesRange, Scope
  <2> QED BY <1>3, <2>1, <2>2, <2>3, <2>4 DEF EvaluatesRange
<1>5. ClockRuns => ClockRuns'
  BY <1>3 DEF ClockRuns, WouldEnter, SumOfBounds
<1> QED BY <1>1, <1>3, <1>4, <1>5 DEF MaxScoreInv, TermsAt

\* The steps of maxscore_query that leave a range or end the search.
LEMMA MaxScoreLeaves ==
  ASSUME MaxScoreInv, Stop \/ MaxScore!NoCandidate, UNCHANGED order
  PROVE  MaxScoreInv'
<1>1. CASE Stop
  <2>1. RangeInv(Doc)' /\ pc' = "done" /\ timed' = timed /\ q' = q
    BY <1>1, OutsideInv DEF MaxScoreInv, Stop, inputVars
  <2> QED BY <2>1 DEF MaxScoreInv, TermsAt, ClockRuns
<1>2. CASE MaxScore!NoCandidate
  <2>1. pc = "doc" /\ LeaveRange("end") /\ UNCHANGED <<queueVars, cursorVars>>
    BY <1>2, MaxScoreSame DEF MaxScore!NoCandidate, MaxScore!queueVars, queueVars,
                              MaxScore!cursorVars, cursorVars
  <2>2. /\ pc' \in {"select", "done"} /\ range' = NoRange
        /\ UNCHANGED <<inputVars, processed>> /\ q' = q
        /\ q.kind = "timeout" => timed' = timed + 1
    BY <2>1 DEF LeaveRange, inputVars
  <2>3. RangeInv(Doc)'
    BY <2>1, <2>2, OutsideInv DEF MaxScoreInv
  <2>4. (q.kind = "timeout" => ClockRuns)'
    BY <2>1, <2>2 DEF MaxScoreInv, ClockRuns
  <2> QED BY <2>2, <2>3, <2>4 DEF MaxScoreInv, TermsAt
<1> QED BY <1>1, <1>2

\* Every step of maxscore_query keeps what the loop has decided.
LEMMA MaxScoreStep ==
  ASSUME MaxScoreInv, MaxScore!Next
  PROVE  MaxScoreInv'
<1>1. \/ (Stop \/ \E c \in Cluster : StartRange(c)) /\ UNCHANGED MaxScore!scoreVars
      \/ MaxScore!SetUp \/ MaxScore!Candidate \/ MaxScore!NoCandidate
      \/ Finished /\ UNCHANGED MaxScore!scoreVars
  <2>1. \/ (MaxScore!Stop \/ \E c \in MaxScore!Cluster : MaxScore!StartRange(c))
           /\ UNCHANGED MaxScore!scoreVars
        \/ MaxScore!SetUp \/ MaxScore!Candidate \/ MaxScore!NoCandidate
        \/ MaxScore!Finished /\ UNCHANGED MaxScore!scoreVars
    BY DEF MaxScore!Next, MaxScore!run_sorted, MaxScore!ordered_range_query,
           MaxScore!boundsum_range_query, MaxScore!boundsum_timeout_query,
           MaxScore!Evaluate, MaxScore!VisitRange
  <2> QED BY <2>1, MaxScoreRanges
<1>2. MaxScore!NoCandidate => UNCHANGED order
  BY DEF MaxScore!NoCandidate, MaxScore!scoreVars
<1>3. CASE Finished /\ UNCHANGED MaxScore!scoreVars
  BY <1>3, MaxScoreKept DEF Finished, MaxScore!scoreVars
<1> QED BY <1>1, <1>2, <1>3, MaxScoreLeaves, MaxScoreStart, MaxScoreSetUp, MaxScoreCandidate
     DEF MaxScore!scoreVars

\* In every range of maxscore_query everything before the candidate is decided,
\* and no essential list has passed it.
THEOREM MaxScoreCorrect == Spec => [](algorithm = "maxscore" => MaxScoreInv)
<1>1. Init => (algorithm = "maxscore" => MaxScoreInv)
  <2>1. ~(algorithm = "maxscore" /\ Collection!Init)
    BY DEF Collection!Init, Collection!Disjunctive, Collection!Conjunctive
  <2> QED BY <2>1, MaxScoreInit DEF Init
<1>2. (algorithm = "maxscore" => MaxScoreInv) /\ [Next]_vars => (algorithm = "maxscore" => MaxScoreInv)'
  <2> SUFFICES ASSUME algorithm = "maxscore" => MaxScoreInv, [Next]_vars, algorithm' = "maxscore"
               PROVE  MaxScoreInv'
    OBVIOUS
  <2>1. algorithm = "maxscore" /\ MaxScoreInv
    BY AlgorithmFixed
  <2>2. CASE Next
    BY <2>1, <2>2, MaxScoreStep DEF Next, wand_query, block_max_wand_query, maxscore_query,
                                    other_query
  <2>3. CASE UNCHANGED vars
    BY <2>1, <2>3, MaxScoreKept DEF vars, scoreVars, MaxScore!scoreVars
  <2> QED BY <2>2, <2>3
<1> QED BY <1>1, <1>2, PTL DEF Spec

\* The timeout of maxscore_query is never compared with an old latency: the
\* continue that skips the clock is not taken, because a range that is entered
\* has an essential list.
THEOREM LatencyIsFresh == Spec => []ClockIsFresh
<1>1. (algorithm = "maxscore" => MaxScoreInv) => ClockIsFresh
  BY DEF ClockIsFresh, MaxScore!ClockIsFresh, MaxScoreInv, ClockRuns
<1> QED BY <1>1, MaxScoreCorrect, PTL

-----------------------------------------------------------------------------
(* block_max_wand_query.                                                    *)

\* The loop over the ranges is that of RangeQuery.
LEMMA BlockMaxRanges ==
  /\ BlockMaxWand!RangeInit(Doc) <=> RangeInit(Doc)
  /\ \A c : BlockMaxWand!StartRange(c) <=> StartRange(c)
  /\ BlockMaxWand!Stop <=> Stop
  /\ BlockMaxWand!SetUpPivots <=> SetUpPivots
  /\ BlockMaxWand!NoPivot <=> NoPivot
  /\ BlockMaxWand!Finished <=> Finished
  /\ BlockMaxWand!Cluster = Cluster
<1>1. BlockMaxWand!RangeInit(Doc) <=> RangeInit(Doc)
  BY DEF BlockMaxWand!RangeInit, RangeInit, BlockMaxWand!WandDataOf, WandDataOf,
         BlockMaxWand!CorpusOver, CorpusOver, BlockMaxWand!Highest, Highest,
         BlockMaxWand!Max, Max, BlockMaxWand!Score, Score, BlockMaxWand!Docs, Docs,
         BlockMaxWand!ClusterOf, ClusterOf, BlockMaxWand!DocToRange, DocToRange,
         BlockMaxWand!Cluster, Cluster, BlockMaxWand!Blocks, Blocks,
         BlockMaxWand!PostingList, PostingList, BlockMaxWand!Cardinality, Cardinality,
         BlockMaxWand!ScoresIn, ScoresIn, BlockMaxWand!Min, Min,
         BlockMaxWand!ScoreOver, ScoreOver, BlockMaxWand!SumFunctionOnSet, SumFunctionOnSet,
         BlockMaxWand!FoldFunctionOnSet, FoldFunctionOnSet,
         BlockMaxWand!MapThenFoldSet, MapThenFoldSet, BlockMaxWand!SumFunction, SumFunction,
         BlockMaxWand!Scope, Scope, BlockMaxWand!InRange, InRange,
         BlockMaxWand!RangeOf, RangeOf, BlockMaxWand!AllRanges, AllRanges,
         BlockMaxWand!Full, Full, BlockMaxWand!Geq, Geq, BlockMaxWand!ListBound, ListBound,
         BlockMaxWand!WholeCollection, WholeCollection, BlockMaxWand!NoRange, NoRange
<1>2. \A c : BlockMaxWand!StartRange(c) <=> StartRange(c)
  BY DEF BlockMaxWand!StartRange, StartRange, BlockMaxWand!IsNext, IsNext,
         BlockMaxWand!BoundSum, BoundSum, BlockMaxWand!OutOfBudget, OutOfBudget,
         BlockMaxWand!OutOfTime, OutOfTime, BlockMaxWand!Hopeless, Hopeless,
         BlockMaxWand!WouldEnter, WouldEnter, BlockMaxWand!RangeOf, RangeOf,
         BlockMaxWand!AllRanges, AllRanges, BlockMaxWand!Geq, Geq, BlockMaxWand!Min, Min,
         BlockMaxWand!Docs, Docs, BlockMaxWand!RangeBound, RangeBound,
         BlockMaxWand!queueVars, queueVars, BlockMaxWand!inputVars, inputVars
<1>3. BlockMaxWand!Stop <=> Stop
  BY DEF BlockMaxWand!Stop, Stop, BlockMaxWand!IsNext, IsNext,
         BlockMaxWand!BoundSum, BoundSum, BlockMaxWand!OutOfBudget, OutOfBudget,
         BlockMaxWand!OutOfTime, OutOfTime, BlockMaxWand!Hopeless, Hopeless,
         BlockMaxWand!WouldEnter, WouldEnter, BlockMaxWand!Cluster, Cluster,
         BlockMaxWand!queueVars, queueVars, BlockMaxWand!inputVars, inputVars,
         BlockMaxWand!cursorVars, cursorVars
<1>4. BlockMaxWand!SetUpPivots <=> SetUpPivots
  BY DEF BlockMaxWand!SetUpPivots, SetUpPivots, BlockMaxWand!Dead, Dead,
         BlockMaxWand!WouldEnter, WouldEnter, BlockMaxWand!SumOfBounds, SumOfBounds,
         BlockMaxWand!SumFunctionOnSet, SumFunctionOnSet,
         BlockMaxWand!FoldFunctionOnSet, FoldFunctionOnSet,
         BlockMaxWand!MapThenFoldSet, MapThenFoldSet,
         BlockMaxWand!LeaveRange, LeaveRange, BlockMaxWand!StayInRange, StayInRange,
         BlockMaxWand!Full, Full, BlockMaxWand!Scope, Scope, BlockMaxWand!InRange, InRange,
         BlockMaxWand!NoRange, NoRange, BlockMaxWand!queueVars, queueVars,
         BlockMaxWand!inputVars, inputVars, BlockMaxWand!cursorVars, cursorVars,
         BlockMaxWand!loopVars, loopVars
<1>5. BlockMaxWand!NoPivot <=> NoPivot
  BY DEF BlockMaxWand!NoPivot, NoPivot, BlockMaxWand!Pivot, Pivot,
         BlockMaxWand!Candidates, Candidates, BlockMaxWand!WouldEnter, WouldEnter,
         BlockMaxWand!UpTo, UpTo, BlockMaxWand!SumOfBounds, SumOfBounds,
         BlockMaxWand!SumFunctionOnSet, SumFunctionOnSet,
         BlockMaxWand!FoldFunctionOnSet, FoldFunctionOnSet,
         BlockMaxWand!MapThenFoldSet, MapThenFoldSet,
         BlockMaxWand!LeaveRange, LeaveRange, BlockMaxWand!Full, Full,
         BlockMaxWand!Scope, Scope, BlockMaxWand!InRange, InRange,
         BlockMaxWand!NoRange, NoRange, BlockMaxWand!queueVars, queueVars,
         BlockMaxWand!inputVars, inputVars, BlockMaxWand!cursorVars, cursorVars
<1>6. BlockMaxWand!Finished <=> Finished
  BY DEF BlockMaxWand!Finished, Finished, BlockMaxWand!rangeVars, rangeVars,
         BlockMaxWand!queueVars, queueVars, BlockMaxWand!inputVars, inputVars,
         BlockMaxWand!cursorVars, cursorVars, BlockMaxWand!loopVars, loopVars
<1>7. BlockMaxWand!Cluster = Cluster
  BY DEF BlockMaxWand!Cluster, Cluster
<1> QED BY <1>1, <1>2, <1>3, <1>4, <1>5, <1>6, <1>7

\* The block that a cursor is in when it has been moved.
BlockNow(t) == wdata.blocks[t][block'[t]]

\* The bound of document p when the cursors S have been scored.
BlocksBound(p, S) ==
  SumFunction([t \in UpTo(p) |-> IF t \in S THEN Score(t, p)
                                  ELSE q.weight[t] * BlockNow(t).score])

\* Where a cursor goes when the blocks of the pivot do not pass.
JumpOver(p) ==
  Max({p + 1,
       Min({BlockNow(t).docid + 1 : t \in UpTo(p)}
           \cup {range.upper + 1} \cup {docid[t] : t \in Term \ UpTo(p)})})

\* BlockMaxWand!Match, Advance and SkipBlocks.
MatchesBlocks(p) ==
  /\ Aligned(p)
  /\ \E S \in SUBSET UpTo(p) :
       /\ S = UpTo(p) \/ ~WouldEnter(BlocksBound(p, S))
       /\ InsertDocument(p, ScoreOver(S, p))
  /\ MoveCursors(UpTo(p), NextPosting)
JumpsBlocks(p) ==
  /\ ~WouldEnter(BlocksBound(p, {}))
  /\ \E t \in Term : MoveCursors({t}, LAMBDA s : NextGeq(s, JumpOver(p)))
  /\ UNCHANGED queueVars

\* One iteration of block_max_wand_query moves the blocks of the lists up to the
\* pivot to it, and then scores the document, moves a list on or jumps over the
\* blocks.
LEMMA BlockMaxAtPivot ==
  ASSUME BlockMaxWand!AtPivot
  PROVE  /\ pc = "doc" /\ StayInRange /\ UNCHANGED <<pc, max_score>>
         /\ \E p \in Pivot :
              /\ block' = [t \in Term |-> IF t \in UpTo(p)
                                            THEN BlockGeq(wdata.blocks[t], block[t], p)
                                            ELSE block[t]]
              /\ MatchesBlocks(p) \/ AdvancesToPivot(p) \/ JumpsBlocks(p)
<1>1. PICK p \in BlockMaxWand!Pivot :
        /\ BlockMaxWand!MoveBlocks(p)
        /\ BlockMaxWand!Match(p) \/ BlockMaxWand!Advance(p) \/ BlockMaxWand!SkipBlocks(p)
  BY DEF BlockMaxWand!AtPivot
<1>2. pc = "doc" /\ StayInRange /\ UNCHANGED <<pc, max_score>>
  BY DEF BlockMaxWand!AtPivot, BlockMaxWand!StayInRange, StayInRange,
         BlockMaxWand!inputVars, inputVars, BlockMaxWand!loopVars, loopVars
<1>3. BlockMaxWand!Pivot = Pivot
  BY DEF BlockMaxWand!Pivot, Pivot, BlockMaxWand!Candidates, Candidates,
         BlockMaxWand!WouldEnter, WouldEnter, BlockMaxWand!UpTo, UpTo,
         BlockMaxWand!SumOfBounds, SumOfBounds,
         BlockMaxWand!SumFunctionOnSet, SumFunctionOnSet,
         BlockMaxWand!FoldFunctionOnSet, FoldFunctionOnSet,
         BlockMaxWand!MapThenFoldSet, MapThenFoldSet
<1>4. block' = [t \in Term |-> IF t \in UpTo(p) THEN BlockGeq(wdata.blocks[t], block[t], p)
                                                 ELSE block[t]]
  BY <1>1 DEF BlockMaxWand!MoveBlocks, BlockMaxWand!UpTo, UpTo,
              BlockMaxWand!BlockGeq, BlockGeq, BlockMaxWand!Min, Min
<1>5. \A S : BlockMaxWand!BlockUpperBound(p, S) = BlocksBound(p, S)
  BY DEF BlockMaxWand!BlockUpperBound, BlocksBound, BlockMaxWand!Block, BlockNow,
         BlockMaxWand!SumFunction, SumFunction, BlockMaxWand!UpTo, UpTo,
         BlockMaxWand!SumFunctionOnSet, SumFunctionOnSet,
         BlockMaxWand!FoldFunctionOnSet, FoldFunctionOnSet,
         BlockMaxWand!MapThenFoldSet, MapThenFoldSet, BlockMaxWand!Score, Score,
         BlockMaxWand!Docs, Docs
<1>6. ASSUME BlockMaxWand!Match(p) PROVE MatchesBlocks(p)
  <2>1. /\ BlockMaxWand!Aligned(p) <=> Aligned(p)
        /\ BlockMaxWand!UpTo(p) = UpTo(p)
        /\ \A n : BlockMaxWand!WouldEnter(n) <=> WouldEnter(n)
    BY DEF BlockMaxWand!Aligned, Aligned, BlockMaxWand!UpTo, UpTo,
           BlockMaxWand!WouldEnter, WouldEnter
  <2>2. \A S : BlockMaxWand!InsertDocument(p, BlockMaxWand!ScoreOver(S, p))
                 <=> InsertDocument(p, ScoreOver(S, p))
    BY DEF BlockMaxWand!ScoreOver, ScoreOver, BlockMaxWand!Score, Score,
           BlockMaxWand!Docs, Docs, BlockMaxWand!SumFunctionOnSet, SumFunctionOnSet,
           BlockMaxWand!FoldFunctionOnSet, FoldFunctionOnSet,
           BlockMaxWand!MapThenFoldSet, MapThenFoldSet,
           BlockMaxWand!InsertDocument, InsertDocument, BlockMaxWand!WouldEnter, WouldEnter,
           BlockMaxWand!Insert, Insert, BlockMaxWand!Reject, Reject,
           BlockMaxWand!Push, Push, BlockMaxWand!Replace, Replace,
           BlockMaxWand!ThresholdFromFront, ThresholdFromFront,
           BlockMaxWand!IsFront, IsFront, BlockMaxWand!IsLowest, IsLowest,
           BlockMaxWand!Cardinality, Cardinality, BlockMaxWand!queueVars, queueVars
  <2>3. MoveCursors(UpTo(p), NextPosting)
    BY <1>6 DEF BlockMaxWand!Match, BlockMaxWand!MoveCursors, MoveCursors,
                BlockMaxWand!UpTo, UpTo, BlockMaxWand!NextPosting, NextPosting,
                BlockMaxWand!Geq, Geq, BlockMaxWand!Min, Min, BlockMaxWand!Docs, Docs
  <2>4. PICK S \in SUBSET BlockMaxWand!UpTo(p) :
          /\ S = BlockMaxWand!UpTo(p)
             \/ ~BlockMaxWand!WouldEnter(BlockMaxWand!BlockUpperBound(p, S))
          /\ BlockMaxWand!InsertDocument(p, BlockMaxWand!ScoreOver(S, p))
    BY <1>6 DEF BlockMaxWand!Match, BlockMaxWand!Scored
  <2>5. BlockMaxWand!Aligned(p)
    BY <1>6 DEF BlockMaxWand!Match
  <2> QED BY <1>5, <2>1, <2>2, <2>3, <2>4, <2>5 DEF MatchesBlocks
<1>7. ASSUME BlockMaxWand!Advance(p) PROVE AdvancesToPivot(p)
  BY <1>7 DEF BlockMaxWand!Advance, AdvancesToPivot, BlockMaxWand!MoveCursors, MoveCursors,
              BlockMaxWand!NextGeq, NextGeq, BlockMaxWand!Geq, Geq, BlockMaxWand!Min, Min,
              BlockMaxWand!Max, Max, BlockMaxWand!Docs, Docs,
              BlockMaxWand!queueVars, queueVars
<1>8. ASSUME BlockMaxWand!SkipBlocks(p) PROVE JumpsBlocks(p)
  <2>1. ~WouldEnter(BlocksBound(p, {}))
    BY <1>5, <1>8 DEF BlockMaxWand!SkipBlocks, BlockMaxWand!BlocksPass,
                      BlockMaxWand!WouldEnter, WouldEnter
  <2>2. UNCHANGED queueVars
    BY <1>8 DEF BlockMaxWand!SkipBlocks, BlockMaxWand!queueVars, queueVars
  <2>3. \E t \in Term : MoveCursors({t}, LAMBDA s : NextGeq(s, JumpOver(p)))
    BY <1>8, Zenon
            DEF BlockMaxWand!SkipBlocks, BlockMaxWand!MoveCursors, MoveCursors,
                BlockMaxWand!NextGeq, NextGeq, BlockMaxWand!Geq, Geq, BlockMaxWand!Min, Min,
                BlockMaxWand!Max, Max, BlockMaxWand!Docs, Docs,
                BlockMaxWand!NextCandidate, JumpOver, BlockMaxWand!Block, BlockNow,
                BlockMaxWand!UpTo, UpTo
  <2> QED BY <2>1, <2>2, <2>3 DEF JumpsBlocks
<1> QED BY <1>1, <1>2, <1>3, <1>4, <1>6, <1>7, <1>8


\* The pivots of a range do not decrease.
LEMMA PivotsIncrease ==
  ASSUME PivotInv, pc = "doc", NEW p \in Pivot, docid' \in [Term -> Nat],
         UNCHANGED <<max_score, range>>, m_threshold' \in Nat, m_threshold' >= m_threshold,
         \A t \in Term : docid'[t] >= docid[t] /\ (docid'[t] = docid[t] \/ docid'[t] >= p)
  PROVE  \A d \in Candidates' : p <= d
<1>1. /\ p \in Nat /\ \A d \in Candidates : p <= d
      /\ docid \in [Term -> Nat] /\ m_threshold \in Nat /\ range.upper \in Nat
      /\ max_score \in [Term -> Nat]
  BY PivotFacts, DocAssumption DEF PivotInv, RangeInv, CursorsInLists, QueueOK, GoodQueue
<1> SUFFICES ASSUME NEW d \in Candidates', ~(p <= d) PROVE FALSE
  OBVIOUS
<1>2. PICK t \in Term : d = docid'[t]
  BY DEF Candidates
<1>3. d \in Nat /\ d = docid[t] /\ d < range.upper
  BY <1>1, <1>2 DEF Candidates
<1> DEFINE U == {s \in Term : docid'[s] <= d}
<1>4. SumFunctionOnSet(max_score, U) > m_threshold'
  BY DEF Candidates, WouldEnter, SumOfBounds, UpTo
<1>5. U \in SUBSET UpTo(d) /\ UpTo(d) \in SUBSET Term
  <2>1. \A s \in Term : docid'[s] <= d => docid[s] <= d
    <3>1. \A s \in Term : docid'[s] \in Nat /\ docid[s] \in Nat /\ docid'[s] >= docid[s]
      BY <1>1
    <3> QED BY <1>3, <3>1
  <2> QED BY <2>1 DEF UpTo
<1>6. SumOfBounds(U) \in Nat /\ SumOfBounds(UpTo(d)) \in Nat /\ SumOfBounds(U) <= SumOfBounds(UpTo(d))
  <2> HIDE DEF U
  <2>1. U \in SUBSET Term
    BY <1>5
  <2> QED BY <1>1, <1>5, <2>1, SumOfBoundsFacts
<1>7. WouldEnter(SumOfBounds(UpTo(d)))
  <2> HIDE DEF U
  <2> QED BY <1>1, <1>4, <1>6 DEF WouldEnter, SumOfBounds
<1>8. d \in Candidates
  BY <1>2, <1>3, <1>7 DEF Candidates
<1> QED BY <1>1, <1>8

\* The block that a cursor is in begins before every document that can still be
\* a pivot of the range.
BlocksBehind ==
  /\ block \in [Term -> Nat]
  /\ \A t \in Term : block[t] \in 1..Len(wdata.blocks[t])
  /\ \A t \in Term : block[t] = 1 \/
       LET before == wdata.blocks[t][block[t] - 1].docid
       IN /\ pc = "setup" => before < range.lower
          /\ pc = "doc" => \A d \in Candidates : before < d
BlockMaxInv == PivotInv /\ BlocksBehind

\* block_max_wand_query starts with the blocks of every list at the first one.
LEMMA BlockMaxInit == BlockMaxWand!Init => BlockMaxInv
<1> SUFFICES ASSUME BlockMaxWand!Init PROVE BlockMaxInv
  OBVIOUS
<1>1. RangeInit(Doc) /\ block = [t \in Term |-> 1]
  BY BlockMaxRanges DEF BlockMaxWand!Init
<1>2. RangeInv(Doc) /\ pc # "doc"
  BY <1>1, RangeInitInv DEF RangeInit
<1>3. \A t \in Term : Len(wdata.blocks[t]) \in Nat \ {0}
  BY <1>2, BlockBoundHolds DEF RangeInv
<1> QED BY <1>1, <1>2, <1>3 DEF BlockMaxInv, PivotInv, BlocksBehind

\* The blocks start with a range: the first that reaches its first document.
LEMMA BlockMaxStart ==
  ASSUME BlockMaxInv, NEW c \in BlockMaxWand!Cluster, BlockMaxWand!StartBlocks(c)
  PROVE  BlockMaxInv'
<1>1. StartRange(c) /\ c \in Cluster
      /\ block' = [t \in Term |-> BlockGeq(wdata.blocks[t], 1, range'.lower)]
  BY BlockMaxRanges DEF BlockMaxWand!StartBlocks, BlockMaxWand!BlockGeq, BlockGeq,
                        BlockMaxWand!Min, Min
<1>2. PivotInv' /\ pc' = "setup" /\ wdata' = wdata
  BY <1>1, AroundPivots DEF BlockMaxInv, StartRange, inputVars
<1>3. \A t \in Term : /\ Len(wdata.blocks[t]) \in Nat \ {0}
                      /\ \A b \in 1..Len(wdata.blocks[t]) : wdata.blocks[t][b].docid \in Int
  BY BlockBoundHolds DEF BlockMaxInv, PivotInv, RangeInv
<1>4. range'.lower \in Nat
  BY <1>2 DEF PivotInv, RangeInv
<1>5. ASSUME NEW t \in Term
      PROVE  /\ block'[t] \in 1..Len(wdata.blocks[t])
             /\ block'[t] = 1 \/ wdata.blocks[t][block'[t] - 1].docid < range'.lower
  <2>1. PICK g, lower, blocks : /\ g = block'[t] /\ lower = range'.lower
                                /\ blocks = wdata.blocks[t]
    OBVIOUS
  <2>2. g = BlockGeq(blocks, 1, lower) /\ Len(blocks) \in Nat \ {0} /\ 1 \in 1..Len(blocks)
    BY <1>1, <1>3, <2>1
  <2>3. /\ g \in 1..Len(blocks)
        /\ \A b \in 1..(g - 1) : ~(blocks[b].docid >= lower)
    BY <2>2, BlockGeqFacts
  <2>4. g # 1 => blocks[g - 1].docid < lower
    <3> SUFFICES ASSUME g # 1 PROVE blocks[g - 1].docid < lower
      OBVIOUS
    <3>1. g - 1 \in 1..(g - 1) /\ g - 1 \in 1..Len(blocks)
      BY <2>2, <2>3
    <3>2. blocks[g - 1].docid \in Int /\ lower \in Nat
      BY <1>3, <1>4, <2>1, <3>1
    <3> QED BY <2>3, <3>1, <3>2
  <2> QED BY <2>1, <2>3, <2>4
<1>6. block' \in [Term -> Nat]
  <2>1. \A t \in Term : block'[t] \in Nat
    BY <1>3, <1>5
  <2> QED BY <1>1, <2>1
<1> QED BY <1>2, <1>5, <1>6 DEF BlockMaxInv, BlocksBehind

\* The steps without a pivot.
LEMMA BlockMaxAround ==
  ASSUME BlockMaxInv, Stop \/ SetUpPivots \/ NoPivot \/ UNCHANGED rangeVars, UNCHANGED block
  PROVE  BlockMaxInv'
<1>1. PivotInv' /\ wdata' = wdata
  BY AroundPivots DEF BlockMaxInv, Stop, SetUpPivots, NoPivot, LeaveRange, StayInRange,
                      inputVars, rangeVars
<1>2. CASE Stop \/ NoPivot
  BY <1>1, <1>2 DEF BlockMaxInv, BlocksBehind, Stop, NoPivot, LeaveRange
<1>3. CASE SetUpPivots /\ Dead
  BY <1>1, <1>3 DEF BlockMaxInv, BlocksBehind, SetUpPivots, LeaveRange
<1>4. CASE SetUpPivots /\ ~Dead
  <2>1. /\ pc = "setup" /\ pc' = "doc" /\ UNCHANGED <<docid, range>>
    BY <1>4 DEF SetUpPivots, StayInRange, loopVars, cursorVars
  <2>2. \A d \in Candidates' : d \in Nat /\ range.lower <= d
    <3> SUFFICES ASSUME NEW d \in Candidates' PROVE d \in Nat /\ range.lower <= d
      OBVIOUS
    <3>1. PICK t \in Term : d = docid[t] /\ d < range.upper
      BY <2>1 DEF Candidates
    <3>2. range.upper \in Nat /\ range.upper <= max_docid /\ max_docid \in Nat /\ docid[t] \in Nat
      BY DocAssumption DEF BlockMaxInv, PivotInv, RangeInv, CursorsInLists
    <3>3. docid[t] < max_docid
      BY <3>1, <3>2
    <3> QED BY <2>1, <3>1, <3>2, <3>3 DEF BlockMaxInv, PivotInv, RangeInv
  <2>3. ASSUME NEW t \in Term, block[t] # 1, NEW d \in Candidates'
        PROVE  wdata.blocks[t][block[t] - 1].docid < d
    <3>1. wdata.blocks[t][block[t] - 1].docid < range.lower
      BY <2>1, <2>3 DEF BlockMaxInv, BlocksBehind
    <3>2. wdata.blocks[t][block[t] - 1].docid \in Int /\ range.lower \in Nat
      <4>1. Len(wdata.blocks[t]) \in Nat /\ block[t] \in 1..Len(wdata.blocks[t])
        BY BlockBoundHolds DEF BlockMaxInv, PivotInv, RangeInv, BlocksBehind
      <4>2. block[t] - 1 \in 1..Len(wdata.blocks[t])
        BY <2>3, <4>1
      <4> QED BY <4>2, BlockBoundHolds DEF BlockMaxInv, PivotInv, RangeInv
    <3> QED BY <2>2, <3>1, <3>2
  <2> QED BY <1>1, <2>1, <2>3 DEF BlockMaxInv, BlocksBehind
<1>5. CASE UNCHANGED rangeVars
  <2>1. Candidates' = Candidates /\ range' = range /\ pc' = pc
    BY <1>5 DEF rangeVars, cursorVars, loopVars, queueVars, Candidates, WouldEnter,
                SumOfBounds, UpTo
  <2> QED BY <1>1, <2>1 DEF BlockMaxInv, BlocksBehind
<1> QED BY <1>2, <1>3, <1>4, <1>5

\* Where the blocks are when they have moved up to the pivot.
LEMMA BlocksMoved ==
  ASSUME BlockMaxInv, pc = "doc", NEW p \in Pivot,
         block' = [t \in Term |-> IF t \in UpTo(p) THEN BlockGeq(wdata.blocks[t], block[t], p)
                                                   ELSE block[t]]
  PROVE  \A t \in Term :
           /\ block'[t] \in Nat /\ block'[t] \in 1..Len(wdata.blocks[t])
           /\ block'[t] = 1 \/ wdata.blocks[t][block'[t] - 1].docid < p
           /\ t \in UpTo(p) => block'[t] = Len(wdata.blocks[t]) \/ BlockNow(t).docid >= p
           /\ BlockNow(t).docid \in Nat /\ BlockNow(t).score \in Nat
           /\ block'[t] # 1 => wdata.blocks[t][block'[t] - 1].docid \in Nat
<1> SUFFICES ASSUME NEW t \in Term
             PROVE  /\ block'[t] \in Nat /\ block'[t] \in 1..Len(wdata.blocks[t])
                    /\ block'[t] = 1 \/ wdata.blocks[t][block'[t] - 1].docid < p
                    /\ t \in UpTo(p) => block'[t] = Len(wdata.blocks[t]) \/ BlockNow(t).docid >= p
                    /\ BlockNow(t).docid \in Nat /\ BlockNow(t).score \in Nat
                    /\ block'[t] # 1 => wdata.blocks[t][block'[t] - 1].docid \in Nat
  OBVIOUS
<1>1. p \in Nat /\ p \in Candidates /\ UpTo(p) \in SUBSET Term
  BY PivotFacts DEF BlockMaxInv
<1>2. PICK g, pos, blocks : /\ g = block'[t] /\ pos = block[t] /\ blocks = wdata.blocks[t]
  OBVIOUS
<1>3. /\ Len(blocks) \in Nat \ {0}
      /\ \A b \in 1..Len(blocks) : blocks[b].docid \in Nat /\ blocks[b].score \in Nat
  BY <1>2, BlockBoundHolds DEF BlockMaxInv, PivotInv, RangeInv
<1>4. pos \in 1..Len(blocks) /\ (pos = 1 \/ blocks[pos - 1].docid < p)
  BY <1>1, <1>2 DEF BlockMaxInv, BlocksBehind
<1>5. CASE t \in UpTo(p)
  <2>1. g = BlockGeq(blocks, pos, p)
    BY <1>2, <1>5
  <2>2. /\ g \in pos..Len(blocks)
        /\ g = Len(blocks) \/ blocks[g].docid >= p
        /\ \A b \in pos..(g - 1) : ~(blocks[b].docid >= p)
    BY <1>3, <1>4, <2>1, BlockGeqFacts
  <2>3. g \in 1..Len(blocks) /\ (g # 1 => g - 1 \in 1..Len(blocks))
    BY <1>3, <1>4, <2>2
  <2>4. g = 1 \/ blocks[g - 1].docid < p
    <3>1. CASE g = pos
      BY <1>4, <3>1
    <3>2. CASE g # pos
      <4>1. g - 1 \in pos..(g - 1) /\ g # 1
        BY <1>3, <1>4, <2>2, <3>2
      <4>2. blocks[g - 1].docid \in Nat
        BY <1>3, <2>3, <4>1
      <4> QED BY <1>1, <2>2, <4>1, <4>2
    <3> QED BY <3>1, <3>2
  <2>5. /\ g \in Nat /\ g \in 1..Len(blocks)
        /\ g = Len(blocks) \/ blocks[g].docid >= p
        /\ blocks[g].docid \in Nat /\ blocks[g].score \in Nat
        /\ g # 1 => blocks[g - 1].docid \in Nat
    BY <1>3, <2>2, <2>3
  <2> QED BY <1>2, <2>4, <2>5 DEF BlockNow
<1>6. CASE t \notin UpTo(p)
  <2>1. g = pos
    BY <1>2, <1>6
  <2>2. g # 1 => g - 1 \in 1..Len(blocks)
    BY <1>3, <1>4, <2>1
  <2> QED BY <1>2, <1>3, <1>4, <1>6, <2>1, <2>2 DEF BlockNow
<1> QED BY <1>5, <1>6

\* A document at the pivot, or after it but not after any of the blocks, scores no
\* more than the blocks say, or than the scores that have replaced them.
LEMMA BlocksBoundHolds ==
  ASSUME BlockMaxInv, pc = "doc", NEW p \in Pivot,
         block' = [t \in Term |-> IF t \in UpTo(p) THEN BlockGeq(wdata.blocks[t], block[t], p)
                                                   ELSE block[t]],
         NEW e \in Doc, p <= e, \A t \in Term : e \in Docs(t) => t \in UpTo(p),
         NEW S \in SUBSET UpTo(p),
         e = p \/ (S = {} /\ \A t \in UpTo(p) : BlockNow(t).docid >= e),
         ~WouldEnter(BlocksBound(p, S))
  PROVE  ~WouldEnter(FullScore(e))
<1> DEFINE f == [t \in UpTo(p) |-> IF t \in S THEN Score(t, p)
                                    ELSE q.weight[t] * BlockNow(t).score]
<1>1. /\ p \in Nat /\ p \in Doc /\ UpTo(p) \in SUBSET Term
      /\ q \in Inputs /\ Call(Doc) /\ m_threshold \in Nat /\ e \in Doc /\ e \in Nat
  BY PivotFacts, DocAssumption DEF BlockMaxInv, PivotInv, RangeInv, Call, QueueOK, GoodQueue
<1>2. BlocksBound(p, S) = SumFunctionOnSet(f, UpTo(p))
  BY DEF BlocksBound, SumFunction
<1>3. ASSUME NEW t \in UpTo(p) PROVE f[t] \in Nat /\ Score(t, e) <= f[t]
  <2>1. t \in Term /\ Score(t, e) \in Nat
    BY <1>1, ScoreTypes
  <2>2. CASE t \in S
    BY <2>1, <2>2
  <2>3. CASE t \notin S
    <3> HIDE DEF f
    <3>1. PICK b : b = block'[t]
      OBVIOUS
    <3>2. /\ block'[t] \in 1..Len(wdata.blocks[t])
          /\ block'[t] = 1 \/ wdata.blocks[t][block'[t] - 1].docid < p
          /\ block'[t] = Len(wdata.blocks[t]) \/ BlockNow(t).docid >= p
          /\ BlockNow(t).score \in Nat
          /\ block'[t] # 1 => wdata.blocks[t][block'[t] - 1].docid \in Nat
      BY <1>3, <2>1, BlocksMoved
    <3>3. BlockNow(t) = wdata.blocks[t][b]
      BY <3>1, Zenon DEF BlockNow
    <3>4. /\ b \in 1..Len(wdata.blocks[t])
          /\ b = 1 \/ wdata.blocks[t][b - 1].docid < p
          /\ b = Len(wdata.blocks[t]) \/ wdata.blocks[t][b].docid >= p
          /\ wdata.blocks[t][b].score \in Nat
          /\ b # 1 => wdata.blocks[t][b - 1].docid \in Nat
      <4>1. /\ b \in 1..Len(wdata.blocks[t])
            /\ b = 1 \/ wdata.blocks[t][b - 1].docid < p
            /\ b # 1 => wdata.blocks[t][b - 1].docid \in Nat
        BY <3>1, <3>2, Zenon
      <4>2. /\ b = Len(wdata.blocks[t]) \/ wdata.blocks[t][b].docid >= p
            /\ wdata.blocks[t][b].score \in Nat
        BY <3>1, <3>2, <3>3, Zenon
      <4> QED BY <4>1, <4>2
    <3>5. b = Len(wdata.blocks[t]) \/ wdata.blocks[t][b].docid >= e
      <4>1. e = p \/ BlockNow(t).docid >= e
        BY <1>3
      <4> QED BY <3>4, <3>3, <4>1
    <3>6. b = 1 \/ wdata.blocks[t][b - 1].docid < e
      BY <1>1, <3>4
    <3>7. Score(t, e) <= q.weight[t] * wdata.blocks[t][b].score
      BY <1>1, <2>1, <3>4, <3>5, <3>6, BlockBoundHolds
    <3>8. q.weight[t] \in Nat
      BY <1>1, <2>1, CallTypes
    <3>9. q.weight[t] * wdata.blocks[t][b].score \in Nat
      <4>1. PICK w \in Nat, s \in Nat : w = q.weight[t] /\ s = wdata.blocks[t][b].score
        BY <3>4, <3>8
      <4>2. w * s \in Nat
        OBVIOUS
      <4> QED BY <4>1, <4>2
    <3>10. f[t] = q.weight[t] * wdata.blocks[t][b].score
      BY <1>3, <2>3, <3>1 DEF BlockNow, f
    <3> QED BY <3>7, <3>9, <3>10
  <2> QED BY <2>2, <2>3
<1>4. ScoreOver(Term, e) <= SumFunctionOnSet(f, UpTo(p))
  <2> HIDE DEF f
  <2> QED BY <1>1, <1>3, ScoreBounded
<1>5. SumFunctionOnSet(f, UpTo(p)) \in Nat
  <2>1. IsFiniteSet(UpTo(p))
    BY <1>1, TermAssumption, FS_Subset
  <2> HIDE DEF f
  <2> QED BY <1>3, <2>1, SumNat
<1>6. FullScore(e) \in Nat /\ FullScore(e) <= ScoreOver(Term, e) /\ ScoreOver(Term, e) \in Nat
  BY <1>1, FullScoreFacts, ScoreOverTerms
<1> HIDE DEF f
<1> QED BY <1>1, <1>2, <1>4, <1>5, <1>6 DEF WouldEnter

\* What is inserted at a pivot has its full score, or the blocks keep it out.
LEMMA BlocksDecide ==
  ASSUME BlockMaxInv, pc = "doc", NEW p \in Pivot,
         block' = [t \in Term |-> IF t \in UpTo(p) THEN BlockGeq(wdata.blocks[t], block[t], p)
                                                   ELSE block[t]],
         MatchesBlocks(p)
  PROVE  /\ Aligned(p) /\ MoveCursors(UpTo(p), NextPosting)
         /\ \E S \in SUBSET UpTo(p) :
              /\ S = UpTo(p) \/ (Ahead(p) => ~WouldEnter(FullScore(p)))
              /\ InsertDocument(p, ScoreOver(S, p))
<1>1. PICK S \in SUBSET UpTo(p) : /\ S = UpTo(p) \/ ~WouldEnter(BlocksBound(p, S))
                                  /\ InsertDocument(p, ScoreOver(S, p))
  BY DEF MatchesBlocks
<1>2. S = UpTo(p) \/ (Ahead(p) => ~WouldEnter(FullScore(p)))
  <2> SUFFICES ASSUME S # UpTo(p), Ahead(p) PROVE ~WouldEnter(FullScore(p))
    OBVIOUS
  <2>1. \A t \in Term : p \in Docs(t) => t \in UpTo(p)
    BY DEF Ahead, UpTo
  <2>2. p \in Doc /\ p <= p /\ ~WouldEnter(BlocksBound(p, S))
    BY <1>1, PivotFacts DEF BlockMaxInv
  <2> QED BY <2>1, <2>2, BlocksBoundHolds
<1>3. Aligned(p) /\ MoveCursors(UpTo(p), NextPosting)
  BY DEF MatchesBlocks
<1> QED BY <1>1, <1>2, <1>3

\* A pivot is dealt with.
LEMMA BlockMaxPivot ==
  ASSUME BlockMaxInv, BlockMaxWand!AtPivot
  PROVE  BlockMaxInv' /\ \A t \in Term : docid'[t] >= docid[t]
<1>1. /\ pc = "doc" /\ StayInRange /\ UNCHANGED <<pc, max_score>> /\ PivotInv
      /\ \E p \in Pivot :
           /\ block' = [t \in Term |-> IF t \in UpTo(p)
                                         THEN BlockGeq(wdata.blocks[t], block[t], p)
                                         ELSE block[t]]
           /\ MatchesBlocks(p) \/ AdvancesToPivot(p) \/ JumpsBlocks(p)
  BY BlockMaxAtPivot DEF BlockMaxInv
<1>2. PICK p \in Pivot :
        /\ block' = [t \in Term |-> IF t \in UpTo(p)
                                      THEN BlockGeq(wdata.blocks[t], block[t], p)
                                      ELSE block[t]]
        /\ MatchesBlocks(p) \/ AdvancesToPivot(p) \/ JumpsBlocks(p)
  BY <1>1
<1>3. /\ p \in Doc /\ p \in Nat /\ p < range.upper /\ UpTo(p) \in SUBSET Term
      /\ docid \in [Term -> Nat] /\ m_threshold \in Nat /\ range.upper \in Nat
      /\ UNCHANGED <<range, wdata>>
  BY <1>1, PivotFacts, DocAssumption
     DEF PivotInv, RangeInv, CursorsInLists, QueueOK, GoodQueue, StayInRange, loopVars, inputVars
<1>4. \A t \in Term :
        /\ block'[t] \in Nat /\ block'[t] \in 1..Len(wdata.blocks[t])
        /\ block'[t] = 1 \/ wdata.blocks[t][block'[t] - 1].docid < p
        /\ BlockNow(t).docid \in Nat
        /\ block'[t] # 1 => wdata.blocks[t][block'[t] - 1].docid \in Nat
  BY <1>1, <1>2, BlocksMoved
<1>5. PivotInv' /\ m_threshold' >= m_threshold
      /\ \A t \in Term : docid'[t] >= docid[t] /\ (docid'[t] = docid[t] \/ docid'[t] >= p)
  <2>1. CASE MatchesBlocks(p)
    <3>1. /\ Aligned(p) /\ MoveCursors(UpTo(p), NextPosting)
          /\ \E S \in SUBSET UpTo(p) :
               /\ S = UpTo(p) \/ (Ahead(p) => ~WouldEnter(FullScore(p)))
               /\ InsertDocument(p, ScoreOver(S, p))
      BY <1>1, <1>2, <2>1, BlocksDecide
    <3>2. PICK S \in SUBSET UpTo(p) : /\ S = UpTo(p) \/ (Ahead(p) => ~WouldEnter(FullScore(p)))
                                      /\ InsertDocument(p, ScoreOver(S, p))
      BY <3>1
    <3>4. /\ PivotInv' /\ m_threshold' >= m_threshold
          /\ \A t \in Term : docid'[t] >= docid[t] /\ docid'[t] > p
      BY <1>1, <3>1, <3>2, MatchPivot
    <3>5. \A t \in Term : docid'[t] \in Nat
      BY <3>4 DEF PivotInv, RangeInv, CursorsInLists
    <3> QED BY <1>3, <3>4, <3>5
  <2>2. CASE AdvancesToPivot(p)
    <3>1. PICK t \in Term : MoveCursors({t}, LAMBDA s : NextGeq(s, p))
      BY <2>2 DEF AdvancesToPivot
    <3>2. /\ \A e \in Scope(range) : p <= e /\ e < p /\ Ahead(e) => Decided(e)
          /\ p <= p /\ UNCHANGED <<queueVars, pc, max_score>>
      BY <1>1, <1>3, <2>2, DocAssumption DEF Scope, AdvancesToPivot
    <3>3. /\ PivotInv'
          /\ \A s \in Term : s # t => docid'[s] = docid[s]
          /\ docid'[t] >= docid[t] /\ docid'[t] >= p
      BY <1>1, <1>3, <3>1, <3>2, MoveCursor
    <3> QED BY <1>3, <2>2, <3>3 DEF AdvancesToPivot, queueVars
  <2>3. CASE JumpsBlocks(p)
    <3> DEFINE T == {BlockNow(t).docid + 1 : t \in UpTo(p)}
                    \cup {range.upper + 1} \cup {docid[t] : t \in Term \ UpTo(p)}
    <3>1. PICK n, m : n = JumpOver(p) /\ m = Min(T)
      OBVIOUS
    <3>2. T \in SUBSET Nat /\ T # {}
      BY <1>3, <1>4
    <3>3. m \in T /\ m \in Nat /\ \A k \in T : m <= k
      <4> HIDE DEF T
      <4> QED BY <3>1, <3>2, MinOfNaturals
    <3>4. n = (IF p + 1 <= m THEN m ELSE p + 1) /\ n \in Nat /\ p <= n
      <4>1. n = Max({p + 1, m})
        BY <3>1 DEF JumpOver
      <4>2. p + 1 \in Nat
        BY <1>3
      <4> QED BY <1>3, <3>3, <4>1, <4>2, MaxOfTwo
    <3>5. ASSUME NEW e \in Scope(range), p <= e, e < n, Ahead(e) PROVE Decided(e)
      <4>1. e \in Doc /\ e \in Nat /\ e < range.upper
        BY DocAssumption DEF Scope, InRange
      <4>2. CASE e = p
        <5>1. \A t \in Term : e \in Docs(t) => t \in UpTo(p)
          BY <3>5, <4>2 DEF Ahead, UpTo
        <5>2. {} \in SUBSET UpTo(p) /\ ~WouldEnter(BlocksBound(p, {}))
          BY <2>3 DEF JumpsBlocks
        <5>3. ~WouldEnter(FullScore(e))
          BY <1>1, <1>2, <3>5, <4>1, <4>2, <5>1, <5>2, BlocksBoundHolds
        <5> QED BY <5>3 DEF Decided
      <4>3. CASE e # p
        <5>1. e < m
          BY <1>3, <3>3, <3>4, <3>5, <4>1, <4>3
        <5>2. \A t \in Term : e \in Docs(t) => t \in UpTo(p)
          <6> SUFFICES ASSUME NEW t \in Term, e \in Docs(t), t \notin UpTo(p) PROVE FALSE
            OBVIOUS
          <6>1. docid[t] <= e /\ docid[t] \in T
            BY <3>5 DEF Ahead
          <6>2. m <= docid[t] /\ docid[t] \in Nat
            <7> HIDE DEF T
            <7> QED BY <1>3, <3>3, <6>1
          <6> QED BY <3>3, <4>1, <5>1, <6>1, <6>2
        <5>3. \A t \in UpTo(p) : BlockNow(t).docid >= e
          <6> SUFFICES ASSUME NEW t \in UpTo(p) PROVE BlockNow(t).docid >= e
            OBVIOUS
          <6>1. BlockNow(t).docid + 1 \in T /\ BlockNow(t).docid \in Nat
            BY <1>3, <1>4
          <6>2. m <= BlockNow(t).docid + 1
            <7> HIDE DEF T
            <7> QED BY <3>3, <6>1
          <6> QED BY <3>3, <4>1, <5>1, <6>1, <6>2
        <5>4. {} \in SUBSET UpTo(p) /\ ~WouldEnter(BlocksBound(p, {}))
          BY <2>3 DEF JumpsBlocks
        <5>5. ~WouldEnter(FullScore(e))
          BY <1>1, <1>2, <3>5, <4>1, <5>2, <5>3, <5>4, BlocksBoundHolds
        <5> QED BY <5>5 DEF Decided
      <4> QED BY <4>2, <4>3
    <3>6. PICK t \in Term :
            docid' = [s \in Term |-> IF s \in {t} THEN NextGeq(s, n) ELSE docid[s]]
      <4> HIDE DEF T
      <4>1. PICK t \in Term :
              docid' = [s \in Term |-> IF s \in {t} THEN NextGeq(s, JumpOver(p)) ELSE docid[s]]
        BY <2>3 DEF JumpsBlocks, MoveCursors
      <4>2. JumpOver(p) = n
        BY <3>1
      <4> QED BY <4>1, <4>2
    <3>7. UNCHANGED <<queueVars, pc, max_score>>
      BY <1>1, <2>3 DEF JumpsBlocks
    <3>9. MoveCursors({t}, LAMBDA s : NextGeq(s, n))
      <4> HIDE DEF T
      <4> QED BY <3>6 DEF MoveCursors
    <3>10. \A e \in Scope(range) : p <= e /\ e < n /\ Ahead(e) => Decided(e)
      <4> HIDE DEF T
      <4> QED BY <3>5
    <3>11. StayInRange /\ PivotInv /\ p <= n /\ n \in Nat
      <4> HIDE DEF T
      <4> QED BY <1>1, <3>4
    <3>8. /\ PivotInv'
          /\ \A s \in Term : s # t => docid'[s] = docid[s]
          /\ docid'[t] >= docid[t] /\ docid'[t] >= p
      <4> HIDE DEF T
      <4> QED BY <1>1, <3>7, <3>9, <3>10, <3>11, MoveCursor
    <3> QED BY <1>3, <3>7, <3>8 DEF queueVars
  <2> QED BY <1>2, <2>1, <2>2, <2>3
<1>6. \A d \in Candidates' : p <= d /\ d \in Nat
  <2>1. docid' \in [Term -> Nat] /\ m_threshold' \in Nat
    BY <1>5 DEF PivotInv, RangeInv, CursorsInLists, QueueOK, GoodQueue
  <2>2. \A d \in Candidates' : p <= d
    BY <1>1, <1>3, <1>5, <2>1, PivotsIncrease
  <2>3. \A d \in Candidates' : d \in Nat
    BY <2>1 DEF Candidates
  <2> QED BY <2>2, <2>3
<1>7. ASSUME NEW t \in Term, block'[t] # 1, NEW d \in Candidates'
      PROVE  wdata.blocks[t][block'[t] - 1].docid < d
  <2>1. p <= d /\ d \in Nat
    BY <1>6, <1>7
  <2>2. PICK m : m = wdata.blocks[t][block'[t] - 1].docid
    OBVIOUS
  <2>3. m < p /\ m \in Nat
    BY <1>4, <1>7, <2>2
  <2>4. m < d
    BY <1>3, <2>1, <2>3
  <2> QED BY <2>2, <2>4
<1>8. block' \in [Term -> Nat]
  BY <1>2, <1>4
<1> QED BY <1>1, <1>3, <1>4, <1>5, <1>7, <1>8 DEF BlockMaxInv, BlocksBehind

\* Every step of block_max_wand_query keeps what the loop has decided, and the
\* blocks behind the pivots.
LEMMA BlockMaxStep ==
  ASSUME BlockMaxInv, BlockMaxWand!Next
  PROVE  BlockMaxInv'
<1>1. \/ (BlockMaxWand!Stop \/ BlockMaxWand!SetUpPivots \/ BlockMaxWand!NoPivot
           \/ BlockMaxWand!Finished) /\ UNCHANGED block
      \/ \E c \in BlockMaxWand!Cluster : BlockMaxWand!StartBlocks(c)
      \/ BlockMaxWand!AtPivot
  BY DEF BlockMaxWand!Next, BlockMaxWand!Whole, BlockMaxWand!ordered_range_query,
         BlockMaxWand!boundsum_range_query, BlockMaxWand!boundsum_timeout_query,
         BlockMaxWand!Evaluate, BlockMaxWand!VisitRange
<1> QED BY <1>1, BlockMaxRanges, BlockMaxAround, BlockMaxStart, BlockMaxPivot DEF Finished

\* In every range of block_max_wand_query a document is decided, or no cursor has
\* passed it, and no block has run ahead of the documents still to come.
THEOREM BlockMaxCorrect == Spec => [](algorithm = "block_max_wand" => BlockMaxInv)
<1>1. Init => (algorithm = "block_max_wand" => BlockMaxInv)
  <2>1. ~(algorithm = "block_max_wand" /\ Collection!Init)
    BY DEF Collection!Init, Collection!Disjunctive, Collection!Conjunctive
  <2> QED BY <2>1, BlockMaxInit DEF Init
<1>2. (algorithm = "block_max_wand" => BlockMaxInv) /\ [Next]_vars
        => (algorithm = "block_max_wand" => BlockMaxInv)'
  <2> SUFFICES ASSUME algorithm = "block_max_wand" => BlockMaxInv, [Next]_vars,
                      algorithm' = "block_max_wand"
               PROVE  BlockMaxInv'
    OBVIOUS
  <2>1. algorithm = "block_max_wand" /\ BlockMaxInv
    BY AlgorithmFixed
  <2>2. CASE Next
    BY <2>1, <2>2, BlockMaxStep DEF Next, wand_query, block_max_wand_query, maxscore_query,
                                    other_query
  <2>3. CASE UNCHANGED vars
    BY <2>1, <2>3, BlockMaxAround DEF vars
  <2> QED BY <2>2, <2>3
<1> QED BY <1>1, <1>2, PTL DEF Spec

\* wand_query and block_max_wand_query pass over no document that could enter.
THEOREM NoDocumentSkipped == Spec => []CursorsSkipNothing
<1>1. /\ algorithm = "wand" => PivotInv
      /\ algorithm = "block_max_wand" => BlockMaxInv
      => CursorsSkipNothing
  BY NothingSkippedHolds DEF CursorsSkipNothing, BlockMaxInv
<1> QED BY <1>1, WandCorrect, BlockMaxCorrect, PTL

\* The block of a cursor is never a later one than the pivot lies in, whose bound
\* could be lower.
THEOREM BlocksDoNotRunAhead == Spec => []BlocksBehindPivot
<1>1. (algorithm = "block_max_wand" => BlockMaxInv) => BlocksBehindPivot
  <2> SUFFICES ASSUME BlockMaxInv PROVE BlockMaxWand!BlocksBehindPivot
    BY DEF BlocksBehindPivot
  <2>1. BlockMaxWand!Pivot \in SUBSET Candidates
    BY DEF BlockMaxWand!Pivot, Candidates, BlockMaxWand!Candidates,
         BlockMaxWand!WouldEnter, WouldEnter, BlockMaxWand!UpTo, UpTo,
         BlockMaxWand!SumOfBounds, SumOfBounds,
         BlockMaxWand!SumFunctionOnSet, SumFunctionOnSet,
         BlockMaxWand!FoldFunctionOnSet, FoldFunctionOnSet,
         BlockMaxWand!MapThenFoldSet, MapThenFoldSet
  <2>2. \A t \in Term : block[t] > 1 => block[t] # 1
    BY DEF BlockMaxInv, BlocksBehind
  <2> QED BY <2>1, <2>2 DEF BlockMaxWand!BlocksBehindPivot, BlockMaxInv, BlocksBehind
<1> QED BY <1>1, BlockMaxCorrect, PTL
=============================================================================
