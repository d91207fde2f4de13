----------------------- MODULE QueryAlgorithms_proofs -----------------------
(***************************************************************************)
(* What the algorithms that search the whole collection promise, that      *)
(* every query algorithm implements AnytimeSearch, and that what is proved *)
(* of an anytime search holds of the answers of every algorithm.           *)
(*                                                                         *)
(* A step of an algorithm begins a range, ends the search, may insert one  *)
(* document of the range with its full score, or leaves a range in which   *)
(* everything is decided.  There is one lemma for each of the algorithms,  *)
(* and one that such a step is one of AnytimeSearch or stutters.           *)
(***************************************************************************)
EXTENDS RangeQuery_proofs

-----------------------------------------------------------------------------
(* The algorithms that have operator() only.                                *)

Conjunctive == Collection!Conjunctive
Boolean == Collection!Boolean

\* The documents that have every term, those that have what the query asks for,
\* and those a queue ranks.
WithEveryTerm == {d \in Doc : \A t \in Term : d \in Docs(t)}
Wanted == IF algorithm \in Conjunctive THEN WithEveryTerm ELSE UNION {Docs(t) : t \in Term}
Ranked == IF algorithm \in Boolean THEN {}
          ELSE IF algorithm \in Conjunctive THEN WithEveryTerm ELSE Doc

\* The documents that still have to be found.
Listed == {results[i].docid : i \in 1..Len(results)}
Open == IF algorithm \in Boolean THEN Wanted \ Listed ELSE {e \in Doc : ~Decided(e)}

\* The call, and where its cursors and blocks can stand.
CollectionState ==
  /\ algorithm \in Collection!Disjunctive \cup Conjunctive
  /\ q.kind = "full"
  /\ Call(Ranked)
  /\ pc \in {"setup", "doc", "done"}
  /\ CursorsInLists
  /\ max_score = [t \in Term |-> ListBound(t)]
  /\ pc \in {"setup", "doc"} => range = WholeCollection
  /\ processed = 0
  /\ QueueOK
  /\ end \in 0..max_docid
  /\ next_docid \in Nat
  /\ first_lookup \in Nat
  /\ block \in [Term -> Nat]
  /\ \A t \in Term : block[t] \in 1..Len(wdata.blocks[t])
  /\ pc = "doc" => order \in [Position -> Term] /\ TermsAt(1, Cardinality(Term)) = Term

\* A Boolean query is one range; what it has listed lies before the candidate,
\* in order, and it lists all when it ends.
ListsInOrder ==
  algorithm \in Boolean =>
    /\ end = max_docid
    /\ results \in Seq([docid : Wanted, score : Nat])
    /\ \A i, j \in 1..Len(results) : i < j => results[i].docid < results[j].docid
    /\ algorithm = "scored_and" =>
         \A i \in 1..Len(results) : results[i].score = ScoreOver(Term, results[i].docid)
    /\ pc = "setup" => results = <<>>
    /\ pc = "doc" => \A i \in 1..Len(results) : results[i].docid < next_docid
    /\ pc = "done" => Open = {}

\* ranked_or_query and or_query: every document is before all cursors, and not
\* open, or no cursor has passed it; what the queue holds lies before every
\* cursor; the candidate is where the first of them stands.
OrInv ==
  pc \in {"setup", "doc"} =>
    /\ \A e \in Doc : Ahead(e) \/ (e \notin Open /\ \A t \in Term : e < docid[t])
    /\ \A en \in m_q : \A t \in Term : en.docid < docid[t]
    /\ pc = "doc" => /\ \A t \in Term : next_docid <= docid[t]
                     /\ next_docid < end => \E t \in Term : docid[t] = next_docid

\* No block has passed document e.
BlocksAhead(e) ==
  \A t \in Term : block[t] = 1 \/ wdata.blocks[t][block[t] - 1].docid < e

\* The conjunctive queries: no cursor and no block has passed an open document
\* and the candidate is not behind one; some cursor has passed what the queue
\* holds; when the first list is not checked, it stands at the candidate.
AndInv ==
  pc \in {"setup", "doc"} =>
    /\ \A e \in Open : Ahead(e) /\ BlocksAhead(e)
    /\ \A en \in m_q : \E t \in Term : en.docid < docid[t]
    /\ pc = "doc" => /\ \A e \in Open : next_docid <= e
                     /\ candidate_list \in {1, 2}
                     /\ candidate_list = 2 => docid[order[1]] = next_docid

\* block_max_maxscore_query has got as far as document h: from there on no cursor
\* and no block has passed a document, and what lies before is decided and could
\* not enter again with the terms that have not passed it.
ReachedUpTo(h) ==
  /\ \A e \in Doc : h <= e => Ahead(e) /\ BlocksAhead(e)
  /\ \A e \in Doc : e < h =>
       /\ Decided(e)
       /\ ~WouldEnter(ScoreOver(UpTo(e), e))
  /\ \A en \in m_q : en.docid < h
  /\ first_lookup > 0 => h <= next_docid

\* The lists that are only looked up do not add up to the threshold, and no other
\* cursor has passed the candidate.
BlockMaxMaxScoreInv ==
  /\ \E h \in 0..max_docid : ReachedUpTo(h)
  /\ pc = "doc" =>
       /\ first_lookup \in 0..Cardinality(Term)
       /\ upper_bounds = [p \in Position |-> SumOfBounds(TermsAt(1, p))]
       /\ first_lookup > 0 => upper_bounds[first_lookup] <= m_threshold
       /\ \A t \in Term \ TermsAt(1, first_lookup) : next_docid <= docid[t]

CollectionInv ==
  /\ CollectionState
  /\ ListsInOrder
  /\ algorithm \in {"ranked_or", "or"} => OrInv
  /\ algorithm \in Conjunctive => AndInv
  /\ algorithm = "block_max_maxscore" => BlockMaxMaxScoreInv

\* The operators of RangeQuery that their steps use.
LEMMA CollectionSame ==
  /\ Collection!Position = Position /\ Collection!Last = Cardinality(Term)
  /\ \A S : Collection!SumOfBounds(S) = SumOfBounds(S)
  /\ \A S : Collection!Min(S) = Min(S) /\ Collection!Max(S) = Max(S)
  /\ \A S, d : Collection!ScoreOver(S, d) = ScoreOver(S, d)
  /\ \A t, d : Collection!NextGeq(t, d) = NextGeq(t, d) /\ Collection!Geq(t, d) = Geq(t, d)
  /\ \A t : Collection!NextPosting(t) = NextPosting(t) /\ Collection!Docs(t) = Docs(t)
  /\ \A n : Collection!WouldEnter(n) <=> WouldEnter(n)
  /\ Collection!StayInRange <=> StayInRange
  /\ \A by : Collection!LeaveRange(by) <=> LeaveRange(by)
  /\ \A d, s : Collection!InsertDocument(d, s) <=> InsertDocument(d, s)
  /\ Collection!queueVars = queueVars /\ Collection!cursorVars = cursorVars
<1>1. Collection!Position = Position /\ Collection!Last = Cardinality(Term)
  BY DEF Collection!Position, Position, Collection!Last, Collection!Cardinality, Cardinality
<1>2. \A S : Collection!SumOfBounds(S) = SumOfBounds(S)
  BY DEF Collection!SumOfBounds, SumOfBounds, Collection!SumFunctionOnSet, SumFunctionOnSet,
         Collection!FoldFunctionOnSet, FoldFunctionOnSet, Collection!MapThenFoldSet,
         MapThenFoldSet
<1>3. \A S : Collection!Min(S) = Min(S) /\ Collection!Max(S) = Max(S)
  BY DEF Collection!Min, Min, Collection!Max, Max
<1>4. \A S, d : Collection!ScoreOver(S, d) = ScoreOver(S, d)
  BY DEF Collection!ScoreOver, ScoreOver, Collection!SumFunctionOnSet, SumFunctionOnSet,
         Collection!FoldFunctionOnSet, FoldFunctionOnSet, Collection!MapThenFoldSet,
         MapThenFoldSet, Collection!Score, Score, Collection!Docs, Docs
<1>5. \A t, d : Collection!NextGeq(t, d) = NextGeq(t, d) /\ Collection!Geq(t, d) = Geq(t, d)
  BY DEF Collection!NextGeq, NextGeq, Collection!Geq, Geq, Collection!Min, Min,
         Collection!Max, Max, Collection!Docs, Docs
<1>6. \A t : Collection!NextPosting(t) = NextPosting(t) /\ Collection!Docs(t) = Docs(t)
  BY DEF Collection!NextPosting, NextPosting, Collection!Geq, Geq, Collection!Min, Min,
         Collection!Docs, Docs
<1>7. \A n : Collection!WouldEnter(n) <=> WouldEnter(n)
  BY DEF Collection!WouldEnter, WouldEnter
<1>8. Collection!StayInRange <=> StayInRange
  BY DEF Collection!StayInRange, StayInRange, Collection!inputVars, inputVars,
         Collection!loopVars, loopVars
<1>9. \A by : Collection!LeaveRange(by) <=> LeaveRange(by)
  BY DEF Collection!LeaveRange, LeaveRange, Collection!Full, Full, Collection!Scope, Scope,
         Collection!InRange, InRange, Collection!NoRange, NoRange,
         Collection!inputVars, inputVars
<1>10. \A d, s : Collection!InsertDocument(d, s) <=> InsertDocument(d, s)
  BY DEF Collection!InsertDocument, InsertDocument, Collection!Insert, Insert,
         Collection!Reject, Reject, Collection!Push, Push, Collection!Replace, Replace,
         Collection!ThresholdFromFront, ThresholdFromFront, Collection!IsFront, IsFront,
         Collection!IsLowest, IsLowest, Collection!Cardinality, Cardinality,
         Collection!WouldEnter, WouldEnter, Collection!queueVars, queueVars
<1>11. Collection!queueVars = queueVars /\ Collection!cursorVars = cursorVars
  BY DEF Collection!queueVars, queueVars, Collection!cursorVars, cursorVars
<1> QED BY <1>1, <1>2, <1>3, <1>4, <1>5, <1>6, <1>7, <1>8, <1>9, <1>10, <1>11

\* Their beginning, with the documents they rank.
LEMMA CollectionRanges ==
  /\ \A D : Collection!RangeInit(D) <=> RangeInit(D)
  /\ Collection!Answer = Ranked
  /\ Collection!Cardinality(Term) = Cardinality(Term)
<1>1. \A D : Collection!RangeInit(D) <=> RangeInit(D)
  BY DEF Collection!RangeInit, RangeInit, Collection!WandDataOf, WandDataOf,
         Collection!CorpusOver, CorpusOver, Collection!Highest, Highest, Collection!Max, Max,
         Collection!Score, Score, Collection!Docs, Docs, Collection!ClusterOf, ClusterOf,
         Collection!DocToRange, DocToRange, Collection!Cluster, Cluster, Collection!Blocks, Blocks,
         Collection!PostingList, PostingList, Collection!Cardinality, Cardinality,
         Collection!ScoresIn, ScoresIn, Collection!Min, Min, Collection!ScoreOver, ScoreOver,
         Collection!SumFunctionOnSet, SumFunctionOnSet, Collection!FoldFunctionOnSet,
         FoldFunctionOnSet, Collection!MapThenFoldSet, MapThenFoldSet,
         Collection!SumFunction, SumFunction, Collection!Scope, Scope, Collection!InRange, InRange,
         Collection!RangeOf, RangeOf, Collection!AllRanges, AllRanges, Collection!Full, Full,
         Collection!Geq, Geq, Collection!ListBound, ListBound,
         Collection!WholeCollection, WholeCollection, Collection!NoRange, NoRange
<1>2. Collection!Answer = Ranked
  BY DEF Collection!Answer, Ranked, Collection!Conjunction, WithEveryTerm, Collection!Docs, Docs,
         Boolean, Conjunctive
<1>3. Collection!Cardinality(Term) = Cardinality(Term)
  BY DEF Collection!Cardinality, Cardinality
<1> QED BY <1>1, <1>2, <1>3

\* What of the state the invariant says holds everywhere, in the words that the
\* lemmas of RangeQuery ask for.
LEMMA CollectionTypes ==
  ASSUME CollectionState
  PROVE  /\ q \in Inputs /\ Call(Ranked) /\ CursorsInLists /\ QueueOK
         /\ docid \in [Term -> Nat] /\ \A t \in Term : docid[t] <= max_docid
         /\ max_score \in [Term -> Nat]
         /\ m_threshold \in Nat /\ processed \in Nat /\ processed = 0
         /\ max_docid \in Nat /\ Doc = 0..(max_docid - 1)
         /\ end \in Nat /\ end <= max_docid /\ next_docid \in Nat
         /\ Cardinality(Term) \in Nat \ {0} /\ Position = 1..Cardinality(Term)
<1>1. /\ q \in Inputs /\ Call(Ranked) /\ CursorsInLists /\ QueueOK
      /\ docid \in [Term -> Nat] /\ m_threshold \in Nat /\ processed \in Nat /\ processed = 0
      /\ max_docid \in Nat /\ Doc = 0..(max_docid - 1)
      /\ end \in Nat /\ end <= max_docid /\ next_docid \in Nat
  BY DocAssumption DEF CollectionState, Call, CursorsInLists, QueueOK, GoodQueue
<1>2. Cardinality(Term) \in Nat \ {0} /\ Position = 1..Cardinality(Term)
  BY TermAssumption, FS_CardinalityType, FS_EmptySet DEF Position
<1>3. max_score \in [Term -> Nat]
  <2>1. PICK D : D = Ranked
    OBVIOUS
  <2>2. \A t \in Term : ListBound(t) \in Nat
    BY <1>1, <2>1, ListBoundHolds
  <2> QED BY <2>2 DEF CollectionState
<1>4. \A t \in Term : docid[t] <= max_docid
  BY <1>1, NextFacts
<1> QED BY <1>1, <1>2, <1>3, <1>4

\* An open document is one that is wanted; so is one with a score.
LEMMA OpenFacts ==
  ASSUME CollectionState
  PROVE  /\ Open \in SUBSET Wanted /\ Wanted \in SUBSET Doc
         /\ WithEveryTerm \in SUBSET Wanted
         /\ \A d \in Wanted : \E t \in Term : d \in Docs(t)
         /\ \A d \in Doc : algorithm \in Boolean => Decided(d)
         /\ \A d \in Doc \ Open : Decided(d)
         /\ algorithm \notin Boolean => \A d \in Wanted : FullScore(d) = ScoreOver(Term, d)
<1>1. /\ q \in Inputs /\ Call(Ranked) /\ m_threshold \in Nat
  BY CollectionTypes
<1>2. PICK D : D = Ranked
  OBVIOUS
<1>3. \A d \in Doc : /\ FullScore(d) = IF d \in D THEN ScoreOver(Term, d) ELSE 0
                     /\ FullScore(d) \in Nat
  BY <1>1, <1>2, FullScoreFacts
<1>4. \A t \in Term : Docs(t) \in SUBSET Doc
  BY <1>1, CallTypes
<1>5. /\ Wanted \in SUBSET Doc /\ WithEveryTerm \in SUBSET Wanted
      /\ \A d \in Wanted : \E t \in Term : d \in Docs(t)
  BY <1>4, TermAssumption DEF Wanted, WithEveryTerm
<1>6. ASSUME NEW d \in Doc, d \notin Wanted PROVE FullScore(d) = 0
  <2>1. CASE algorithm \in Conjunctive
    BY <1>2, <1>3, <1>6, <2>1 DEF Ranked, Wanted
  <2>2. CASE algorithm \notin Conjunctive
    <3>1. \A t \in Term : d \notin Docs(t)
      BY <1>6, <2>2 DEF Wanted
    <3>2. ScoreOver(Term, d) = 0
      BY <1>1, <3>1, NoPostingNoScore
    <3> QED BY <1>3, <3>2
  <2> QED BY <2>1, <2>2
<1>7. \A d \in Doc : FullScore(d) = 0 => Decided(d)
  BY <1>1 DEF Decided, WouldEnter
<1>8. \A d \in Doc : algorithm \in Boolean => Decided(d)
  BY <1>2, <1>3, <1>7 DEF Ranked
<1>9. Open \in SUBSET Wanted
  BY <1>5, <1>6, <1>7 DEF Open
<1>10. \A d \in Doc \ Open : Decided(d)
  BY <1>8 DEF Open
<1>11. ASSUME algorithm \notin Boolean, NEW d \in Wanted PROVE FullScore(d) = ScoreOver(Term, d)
  <2>1. d \in D
    BY <1>2, <1>5, <1>11 DEF Ranked, Wanted
  <2> QED BY <1>3, <1>5, <2>1
<1> QED BY <1>5, <1>8, <1>9, <1>10, <1>11

\* The document in hand is found, with its score.
Finds(score) ==
  IF algorithm \in Boolean
    THEN /\ results' = Append(results, [docid |-> next_docid,
                                        score |-> IF algorithm = "scored_and" THEN score ELSE 0])
         /\ UNCHANGED queueVars
    ELSE InsertDocument(next_docid, score) /\ UNCHANGED results

\* The call goes on.
LEMMA SameCollection ==
  ASSUME UNCHANGED <<inputVars, processed, algorithm>>
  PROVE  /\ Ranked' = Ranked /\ Wanted' = Wanted /\ WithEveryTerm' = WithEveryTerm
         /\ (algorithm \in Boolean)' = (algorithm \in Boolean)
         /\ (algorithm \in Conjunctive)' = (algorithm \in Conjunctive)
         /\ \A t : Docs(t)' = Docs(t) /\ ListBound(t)' = ListBound(t)
         /\ Call(Ranked) => Call(Ranked)'
<1>1. \A t : Docs(t)' = Docs(t)
  BY SameCall
<1>2. /\ (algorithm \in Boolean)' = (algorithm \in Boolean)
      /\ (algorithm \in Conjunctive)' = (algorithm \in Conjunctive)
  BY DEF Boolean, Conjunctive, Collection!Boolean, Collection!Conjunctive
<1>3. WithEveryTerm' = WithEveryTerm
  BY <1>1 DEF WithEveryTerm
<1>4. Ranked' = Ranked /\ Wanted' = Wanted
  BY <1>1, <1>2, <1>3 DEF Ranked, Wanted
<1>5. \A t : ListBound(t)' = ListBound(t)
  BY DEF ListBound, inputVars
<1>6. PICK D : D = Ranked
  OBVIOUS
<1>7. Call(D) => Call(D)'
  BY SameCall
<1>8. Call(Ranked) => Call(Ranked)'
  BY <1>4, <1>6, <1>7 DEF Call
<1> QED BY <1>1, <1>2, <1>3, <1>4, <1>5, <1>8

\* Nothing is found.
LEMMA NothingFound ==
  ASSUME CollectionState, UNCHANGED <<queueVars, results, inputVars, processed, algorithm>>
  PROVE  /\ QueueOK' /\ Open' = Open
         /\ \A d \in Doc : Decided(d)' <=> Decided(d)
<1>1. /\ Wanted' = Wanted /\ (algorithm \in Boolean)' = (algorithm \in Boolean)
  BY SameCollection
<1>2. QueueOK' /\ \A d : Decided(d)' <=> Decided(d)
  BY QueueKept DEF CollectionState
<1>3. Listed' = Listed
  BY DEF Listed
<1> QED BY <1>1, <1>2, <1>3 DEF Open

\* The lists of a Boolean query grow at their end.
LEMMA ListGrows ==
  ASSUME NEW R, \A x \in R : x.docid \in Nat,
         NEW r \in Seq(R), NEW e \in R,
         \A i, j \in 1..Len(r) : i < j => r[i].docid < r[j].docid,
         \A i \in 1..Len(r) : r[i].docid < e.docid,
         NEW new, new = Append(r, e)
  PROVE  /\ new \in Seq(R)
         /\ \A i, j \in 1..Len(new) : i < j => new[i].docid < new[j].docid
         /\ \A i \in 1..Len(new) : new[i].docid <= e.docid
         /\ \A i \in 1..Len(new) : (i \in 1..Len(r) /\ new[i] = r[i]) \/ new[i] = e
         /\ {new[i].docid : i \in 1..Len(new)} = {r[i].docid : i \in 1..Len(r)} \cup {e.docid}
<1>1. Len(r) \in Nat /\ Len(new) = Len(r) + 1 /\ new \in Seq(R)
  OBVIOUS
<1>2. new[Len(r) + 1] = e /\ \A i \in 1..Len(r) : new[i] = r[i] /\ r[i] \in R
  OBVIOUS
<1>3. \A i \in 1..Len(new) : i \in 1..Len(r) \/ i = Len(r) + 1
  BY <1>1
<1>4. \A i \in 1..Len(r) : r[i].docid \in Nat
  BY <1>2
<1>5. \A i \in 1..Len(new) :
        (i \in 1..Len(r) /\ new[i] = r[i]) \/ (i = Len(r) + 1 /\ new[i] = e)
  BY <1>2, <1>3
<1>6. \A i, j \in 1..Len(new) : i < j => new[i].docid < new[j].docid
  <2> SUFFICES ASSUME NEW i \in 1..Len(new), NEW j \in 1..Len(new), i < j
               PROVE  new[i].docid < new[j].docid
    OBVIOUS
  <2>1. i \in 1..Len(r)
    BY <1>1
  <2>2. CASE j \in 1..Len(r)
    BY <1>2, <2>1, <2>2
  <2>3. CASE j = Len(r) + 1
    BY <1>2, <2>1, <2>3
  <2> QED BY <1>3, <2>2, <2>3
<1>7. \A i \in 1..Len(new) : new[i].docid <= e.docid
  BY <1>4, <1>5
<1>8. {new[i].docid : i \in 1..Len(new)} = {r[i].docid : i \in 1..Len(r)} \cup {e.docid}
  <2>1. \A i \in 1..Len(r) : i \in 1..Len(new)
    BY <1>1
  <2>2. Len(r) + 1 \in 1..Len(new)
    BY <1>1
  <2> QED BY <1>2, <1>5, <2>1, <2>2
<1> QED BY <1>1, <1>5, <1>6, <1>7, <1>8

\* What is listed is in order, up to document c.
ListedUpTo(c) ==
  algorithm \in Boolean =>
    /\ results \in Seq([docid : Wanted, score : Nat])
    /\ \A i, j \in 1..Len(results) : i < j => results[i].docid < results[j].docid
    /\ algorithm = "scored_and" =>
         \A i \in 1..Len(results) : results[i].score = ScoreOver(Term, results[i].docid)
    /\ \A i \in 1..Len(results) : results[i].docid <= c

\* What enters the queue is the candidate, with its full score and for the first
\* time.
EntersInFull ==
  \/ UNCHANGED queueVars
  \/ /\ next_docid \in Doc
     /\ InsertDocument(next_docid, FullScore(next_docid))
     /\ \A en \in m_q : en.docid # next_docid

\* Nor does a cursor go back.
GoesOn ==
  /\ EntersInFull
  /\ \A t \in Term : docid'[t] >= docid[t]

\* A document that is found is open no more, and no document becomes open.
LEMMA FoundStep ==
  ASSUME CollectionState, ListsInOrder, pc = "doc", next_docid \in Wanted,
         NEW s \in Nat, s = ScoreOver(Term, next_docid), Finds(s),
         \A en \in m_q : en.docid # next_docid,
         UNCHANGED <<inputVars, processed, algorithm>>
  PROVE  /\ QueueOK'
         /\ Open' \in SUBSET (Open \ {next_docid})
         /\ \A en \in m_q' : en \in m_q \/ en.docid = next_docid
         /\ \E c \in Nat : c = next_docid /\ ListedUpTo(c)'
         /\ EntersInFull
<1> DEFINE c == next_docid
<1>1. /\ q \in Inputs /\ Call(Ranked) /\ QueueOK /\ processed \in Nat /\ c \in Nat
      /\ Doc = 0..(max_docid - 1) /\ max_docid \in Nat
  BY CollectionTypes
<1>2. /\ Wanted' = Wanted /\ (algorithm \in Boolean)' = (algorithm \in Boolean)
      /\ q' = q /\ Wanted \in SUBSET Doc /\ Wanted \in SUBSET Nat /\ c \in Doc
      /\ \A d : ScoreOver(Term, d)' = ScoreOver(Term, d)
  <2>1. \A t, d : Score(t, d)' = Score(t, d)
    BY SameCall
  <2> QED BY <1>1, <2>1, SameCollection, OpenFacts DEF ScoreOver, inputVars
<1>3. PICK D, d : D = Ranked /\ d = next_docid
  OBVIOUS
<1>4. CASE algorithm \in Boolean
  <2>1. PICK r, n, R :
          /\ r = results /\ n = (IF algorithm = "scored_and" THEN s ELSE 0)
          /\ R = [docid : Wanted, score : Nat]
    OBVIOUS
  <2>2. PICK e, new : e = [docid |-> d, score |-> n] /\ new = Append(r, e)
    OBVIOUS
  <2>3. results' = new /\ UNCHANGED queueVars
    BY <1>3, <1>4, <2>1, <2>2 DEF Finds
  <2>4. /\ r \in Seq(R) /\ e \in R /\ e.docid = d
        /\ \A x \in R : x.docid \in Nat
        /\ \A i, j \in 1..Len(r) : i < j => r[i].docid < r[j].docid
        /\ algorithm = "scored_and" =>
             \A i \in 1..Len(r) : r[i].score = ScoreOver(Term, r[i].docid)
        /\ \A i \in 1..Len(r) : r[i].docid < e.docid
    <3>1. n \in Nat /\ d \in Wanted
      BY <1>3, <2>1
    <3>2. e \in R /\ e.docid = d
      BY <2>1, <2>2, <3>1
    <3>3. \A x \in R : x.docid \in Nat
      BY <1>2, <2>1
    <3> QED BY <1>3, <1>4, <2>1, <3>2, <3>3 DEF ListsInOrder
  <2>5. /\ new \in Seq(R)
        /\ \A i, j \in 1..Len(new) : i < j => new[i].docid < new[j].docid
        /\ \A i \in 1..Len(new) : new[i].docid <= d
        /\ \A i \in 1..Len(new) : (i \in 1..Len(r) /\ new[i] = r[i]) \/ new[i] = e
        /\ {new[i].docid : i \in 1..Len(new)} = {r[i].docid : i \in 1..Len(r)} \cup {d}
    BY <2>2, <2>4, ListGrows
  <2>6. QueueOK' /\ m_q' = m_q
    BY <2>3, QueueKept DEF CollectionState, queueVars
  <2>7. Listed' = Listed \cup {d}
    <3>1. Listed = {r[i].docid : i \in 1..Len(r)}
      BY <2>1 DEF Listed
    <3>2. Listed' = {new[i].docid : i \in 1..Len(new)}
      BY <2>3 DEF Listed
    <3> QED BY <2>5, <3>1, <3>2
  <2>8. Open' = Open \ {d}
    BY <1>2, <1>4, <2>7 DEF Open
  <2>9. algorithm = "scored_and" =>
          \A i \in 1..Len(new) : new[i].score = ScoreOver(Term, new[i].docid)
    <3> SUFFICES ASSUME algorithm = "scored_and", NEW i \in 1..Len(new)
                 PROVE  new[i].score = ScoreOver(Term, new[i].docid)
      OBVIOUS
    <3>1. CASE i \in 1..Len(r) /\ new[i] = r[i]
      BY <2>4, <3>1
    <3>2. CASE new[i] = e
      BY <1>3, <2>1, <2>2, <3>2
    <3> QED BY <2>5, <3>1, <3>2
  <2>10. ListedUpTo(d)'
    BY <1>2, <2>1, <2>3, <2>5, <2>9 DEF ListedUpTo
  <2>11. EntersInFull
    BY <2>3 DEF EntersInFull
  <2> QED BY <1>1, <1>3, <2>6, <2>8, <2>10, <2>11
<1>5. CASE algorithm \notin Boolean
  <2>1. InsertDocument(d, s) /\ UNCHANGED results
    BY <1>3, <1>5 DEF Finds
  <2>2. d \in Doc /\ \A en \in m_q : en.docid # d \/ en.visit # processed
    BY <1>2, <1>3
  <2>3. /\ QueueOK'
        /\ \A en \in m_q' : en \in m_q \/ (en.docid = d /\ en.visit = processed)
        /\ \A e \in Doc : Decided(e) => Decided(e)'
        /\ s = FullScore(d) => Decided(d)'
    BY <1>1, <1>3, <2>1, <2>2, InsertStep
  <2>4. s = FullScore(d)
    BY <1>3, <1>5, OpenFacts
  <2>5. Open' \in SUBSET (Open \ {d})
    BY <1>2, <1>5, <2>3, <2>4 DEF Open
  <2>6. ListedUpTo(d)'
    BY <1>2, <1>5 DEF ListedUpTo
  <2>7. EntersInFull
    <3>1. d \in Doc /\ InsertDocument(d, FullScore(d)) /\ \A en \in m_q : en.docid # d
      BY <1>2, <1>3, <2>1, <2>4
    <3> QED BY <1>3, <3>1 DEF EntersInFull
  <2> QED BY <1>1, <1>3, <2>3, <2>5, <2>6, <2>7
<1> QED BY <1>4, <1>5

\* The call begins.
LEMMA CollectionInit == Collection!Init => CollectionInv
<1> SUFFICES ASSUME Collection!Init PROVE CollectionInv
  OBVIOUS
<1>1. /\ algorithm \in Collection!Disjunctive \cup Conjunctive
      /\ RangeInit(Ranked) /\ q.kind = "full"
      /\ q.range_size = 0 \/ algorithm \notin Boolean
      /\ block = [t \in Term |-> 1] /\ first_lookup = 0 /\ next_docid = 0
      /\ end = Collection!NextEnd(0) /\ results = <<>>
  BY CollectionRanges DEF Collection!Init, Conjunctive, Boolean
<1>2. PICK D : D = Ranked
  OBVIOUS
<1>3. RangeInv(D) /\ Call(D)
  BY <1>1, <1>2, RangeInitInv DEF RangeInv
<1>4. /\ pc = "setup" /\ m_q = {} /\ processed = 0 /\ range = WholeCollection
      /\ max_score = [t \in Term |-> ListBound(t)]
  BY <1>1 DEF RangeInit, Full
<1>5. max_docid \in Nat /\ Doc = 0..(max_docid - 1) /\ q.range_size \in Nat
  BY <1>3, DocAssumption, CallTypes DEF Call
<1>6. end \in 0..max_docid /\ (algorithm \in Boolean => end = max_docid)
  BY <1>1, <1>5 DEF Collection!NextEnd
<1>7. CollectionState
  <2>1. \A t \in Term : Len(wdata.blocks[t]) \in Nat \ {0}
    BY <1>3, BlockBoundHolds
  <2>2. block \in [Term -> Nat] /\ \A t \in Term : block[t] \in 1..Len(wdata.blocks[t])
    BY <1>1, <2>1
  <2> QED BY <1>1, <1>2, <1>3, <1>4, <1>6, <2>2 DEF CollectionState, RangeInv
<1>8. ListsInOrder
  <2>1. results \in Seq([docid : Wanted, score : Nat]) /\ Len(results) = 0
    BY <1>1
  <2>2. 1..Len(results) = {}
    BY <2>1
  <2> QED BY <1>1, <1>4, <1>6, <2>1, <2>2 DEF ListsInOrder
<1>9. \A e \in Doc : Ahead(e) /\ BlocksAhead(e)
  BY <1>1, <1>3, <1>4, <1>5 DEF RangeInv, WholeCollection, BlocksAhead
<1>10. OrInv
  BY <1>4, <1>9 DEF OrInv
<1>11. AndInv
  <2>1. Open \in SUBSET Doc
    BY <1>7, OpenFacts
  <2> QED BY <1>1, <1>4, <1>9, <2>1 DEF AndInv
<1>12. BlockMaxMaxScoreInv
  <2>1. ReachedUpTo(0)
    BY <1>1, <1>4, <1>5, <1>9 DEF ReachedUpTo
  <2>2. 0 \in 0..max_docid
    BY <1>5
  <2> QED BY <1>4, <2>1, <2>2 DEF BlockMaxMaxScoreInv
<1> QED BY <1>7, <1>8, <1>10, <1>11, <1>12 DEF CollectionInv

\* The loop over the documents is entered for another range, or left, or nothing
\* happens.
LEMMA CollectionKept ==
  ASSUME CollectionInv,
         UNCHANGED <<queueVars, inputVars, cursorVars, processed, algorithm, block, order,
                     upper_bounds, first_lookup, next_docid, candidate_list, results>>,
         \/ UNCHANGED <<pc, range, end>>
         \/ /\ pc = "doc" /\ pc' = "setup" /\ range' = range /\ end' \in 0..max_docid
            /\ algorithm \notin Boolean
         \/ pc' = "done" /\ end' = end /\ (algorithm \in Boolean => Open = {})
  PROVE  CollectionInv'
<1>1. CollectionState /\ UNCHANGED <<inputVars, processed, algorithm>>
      /\ UNCHANGED <<queueVars, results, inputVars, processed, algorithm>>
      /\ UNCHANGED inputVars
  BY DEF CollectionInv
<1>2. /\ Ranked' = Ranked /\ Wanted' = Wanted
      /\ (algorithm \in Boolean)' = (algorithm \in Boolean)
      /\ (algorithm \in Conjunctive)' = (algorithm \in Conjunctive)
      /\ \A t : Docs(t)' = Docs(t) /\ ListBound(t)' = ListBound(t)
      /\ Call(Ranked)'
  BY <1>1, SameCollection DEF CollectionState
<1>3. QueueOK' /\ Open' = Open /\ \A d \in Doc : Decided(d)' <=> Decided(d)
  BY <1>1, NothingFound
<1>4. /\ docid' = docid /\ max_score' = max_score /\ m_q' = m_q /\ m_threshold' = m_threshold
      /\ wdata' = wdata /\ q' = q
  BY DEF cursorVars, queueVars, inputVars
<1>5. /\ \A e : (Ahead(e)' <=> Ahead(e)) /\ UpTo(e)' = UpTo(e)
      /\ \A e : BlocksAhead(e)' <=> BlocksAhead(e)
  BY <1>2, <1>4 DEF Ahead, UpTo, BlocksAhead
<1>6. CollectionState'
  BY <1>1, <1>2, <1>3, <1>4 DEF CollectionState, CursorsInLists, TermsAt
<1>7. ListsInOrder'
  <2>1. \A d : ScoreOver(Term, d)' = ScoreOver(Term, d)
    BY <1>1, SameCall DEF ScoreOver
  <2> QED BY <1>2, <1>3, <2>1 DEF ListsInOrder, CollectionInv
<1>8. OrInv => OrInv'
  BY <1>3, <1>4, <1>5 DEF OrInv
<1>9. AndInv => AndInv'
  BY <1>3, <1>4, <1>5 DEF AndInv
<1>10. BlockMaxMaxScoreInv => BlockMaxMaxScoreInv'
  <2>1. ASSUME NEW h \in 0..max_docid, ReachedUpTo(h) PROVE ReachedUpTo(h)'
    <3>1. \A e \in Doc : ScoreOver(UpTo(e), e)' = ScoreOver(UpTo(e), e)
      BY <1>1, <1>5, SameCall DEF ScoreOver
    <3> QED BY <1>3, <1>4, <1>5, <2>1, <3>1 DEF ReachedUpTo, WouldEnter
  <2>2. \A S : SumOfBounds(S)' = SumOfBounds(S)
    BY <1>4 DEF SumOfBounds
  <2>3. \A i, j : TermsAt(i, j)' = TermsAt(i, j)
    BY DEF TermsAt
  <2> QED BY <1>4, <2>1, <2>2, <2>3 DEF BlockMaxMaxScoreInv
<1> QED BY <1>2, <1>6, <1>7, <1>8, <1>9, <1>10 DEF CollectionInv

\* A range is set up.
LEMMA CollectionSetUp == CollectionInv /\ Collection!SetUp => CollectionInv'
<1> SUFFICES ASSUME CollectionInv, Collection!SetUp PROVE CollectionInv'
  OBVIOUS
<1> DEFINE N == Cardinality(Term)
<1>1. /\ pc = "setup" /\ pc' = "doc" /\ StayInRange /\ first_lookup' = 0 /\ candidate_list' = 2
      /\ UNCHANGED <<queueVars, cursorVars, algorithm, block, end, results>>
      /\ \E o \in [Position -> Term] :
           /\ \A i, j \in Position : i < j => o[i] # o[j]
           /\ order' = o
           /\ upper_bounds' = [p \in Position |-> SumOfBounds({o[i] : i \in 1..p})]
           /\ next_docid' = IF algorithm \in Conjunctive THEN docid[o[1]]
                            ELSE Min({docid[t] : t \in Term})
  <2>1. /\ pc = "setup" /\ pc' = "doc" /\ Collection!StayInRange
        /\ first_lookup' = 0 /\ candidate_list' = 2
        /\ UNCHANGED <<Collection!queueVars, Collection!cursorVars>>
        /\ UNCHANGED <<algorithm, block, end, results>>
    BY DEF Collection!SetUp
  <2>2. PICK o \in [Collection!Position -> Term] :
          /\ \A i, j \in Collection!Position : i < j => o[i] # o[j]
          /\ order' = o
          /\ upper_bounds' = [p \in Collection!Position |->
                               Collection!SumOfBounds({o[i] : i \in 1..p})]
          /\ next_docid' = IF algorithm \in Collection!Conjunctive THEN docid[o[1]]
                           ELSE Collection!Min({docid[t] : t \in Term})
    BY DEF Collection!SetUp
  <2>3. upper_bounds' = [p \in Position |-> SumOfBounds({o[i] : i \in 1..p})]
    BY <2>2, CollectionSame
  <2>4. next_docid' = IF algorithm \in Conjunctive THEN docid[o[1]]
                      ELSE Min({docid[t] : t \in Term})
    BY <2>2, CollectionSame DEF Conjunctive
  <2>5. o \in [Position -> Term] /\ \A i, j \in Position : i < j => o[i] # o[j]
    BY <2>2, CollectionSame
  <2>6. StayInRange /\ UNCHANGED <<queueVars, cursorVars>>
    BY <2>1, CollectionSame DEF queueVars, cursorVars, Collection!queueVars, Collection!cursorVars
  <2> QED BY <2>1, <2>2, <2>3, <2>4, <2>5, <2>6
<1>2. PICK o \in [Position -> Term] :
        /\ \A i, j \in Position : i < j => o[i] # o[j]
        /\ order' = o
        /\ upper_bounds' = [p \in Position |-> SumOfBounds({o[i] : i \in 1..p})]
        /\ next_docid' = IF algorithm \in Conjunctive THEN docid[o[1]]
                         ELSE Min({docid[t] : t \in Term})
  BY <1>1
<1>3. /\ CollectionState /\ UNCHANGED <<inputVars, processed, algorithm>>
      /\ UNCHANGED <<queueVars, results, inputVars, processed, algorithm>> /\ UNCHANGED inputVars
      /\ range' = range
  BY <1>1 DEF CollectionInv, StayInRange, loopVars
<1>4. /\ N \in Nat \ {0} /\ Position = 1..N /\ docid \in [Term -> Nat]
      /\ \A t \in Term : docid[t] <= max_docid
      /\ max_docid \in Nat /\ Doc = 0..(max_docid - 1) /\ processed = 0
  BY <1>3, CollectionTypes
<1>5. /\ Ranked' = Ranked /\ Wanted' = Wanted
      /\ (algorithm \in Boolean)' = (algorithm \in Boolean)
      /\ (algorithm \in Conjunctive)' = (algorithm \in Conjunctive)
      /\ \A t : Docs(t)' = Docs(t) /\ ListBound(t)' = ListBound(t)
      /\ Call(Ranked)'
  BY <1>3, SameCollection DEF CollectionState
<1>6. QueueOK' /\ Open' = Open /\ \A d \in Doc : Decided(d)' <=> Decided(d)
  BY <1>3, NothingFound
<1>7. /\ docid' = docid /\ max_score' = max_score /\ m_q' = m_q /\ m_threshold' = m_threshold
      /\ wdata' = wdata /\ q' = q
  BY <1>3, <1>1 DEF cursorVars, queueVars, inputVars
<1>17. \A t : docid'[t] = docid[t]
  BY <1>7
<1>8. /\ \A e : (Ahead(e)' <=> Ahead(e)) /\ UpTo(e)' = UpTo(e)
      /\ \A e : BlocksAhead(e)' <=> BlocksAhead(e)
  BY <1>1, <1>5, <1>7 DEF Ahead, UpTo, BlocksAhead
<1>9. TermsAt(1, N)' = Term /\ \A i, j : TermsAt(i, j)' = {o[k] : k \in i..j}
  <2>1. \A i, j \in Position : o[i] = o[j] => i = j
    <3> SUFFICES ASSUME NEW i \in Position, NEW j \in Position, o[i] = o[j], i # j PROVE FALSE
      OBVIOUS
    <3>1. i < j \/ j < i
      BY <1>4
    <3> QED BY <1>2, <3>1
  <2>2. \A i, j : TermsAt(i, j)' = {o[k] : k \in i..j}
    BY <1>2 DEF TermsAt
  <2> QED BY <2>1, <2>2, SortedHasAll
<1>10. 1 \in Position /\ o[1] \in Term /\ {docid[t] : t \in Term} \in SUBSET Nat
       /\ {docid[t] : t \in Term} # {}
  BY <1>2, <1>4
<1>11. /\ next_docid' \in Nat /\ next_docid' <= max_docid
       /\ \E t \in Term : docid[t] = next_docid'
       /\ algorithm \notin Conjunctive => \A t \in Term : next_docid' <= docid[t]
  <2>1. CASE algorithm \in Conjunctive
    BY <1>2, <1>4, <1>10, <2>1
  <2>2. CASE algorithm \notin Conjunctive
    <3>1. next_docid' \in {docid[t] : t \in Term}
          /\ \A n \in {docid[t] : t \in Term} : next_docid' <= n
      BY <1>2, <1>10, <2>2, MinOfNaturals
    <3> QED BY <1>4, <2>2, <3>1
  <2> QED BY <2>1, <2>2
<1>12. CollectionState'
  <2>1. order' \in [Position -> Term]
    BY <1>2
  <2> QED BY <1>1, <1>3, <1>4, <1>5, <1>6, <1>7, <1>9, <1>11, <2>1
          DEF CollectionState, CursorsInLists
<1>13. ListsInOrder'
  <2>1. algorithm \in Boolean => results' = <<>> /\ results = <<>> /\ end' = max_docid
    BY <1>1, <1>3 DEF ListsInOrder, CollectionInv
  <2>2. <<>> \in Seq([docid : Wanted', score : Nat]) /\ 1..Len(<<>>) = {}
    OBVIOUS
  <2> QED BY <1>1, <1>5, <2>1, <2>2 DEF ListsInOrder
<1>14. algorithm \in {"ranked_or", "or"} => OrInv'
  <2> SUFFICES ASSUME algorithm \in {"ranked_or", "or"} PROVE OrInv'
    OBVIOUS
  <2>1. algorithm \notin Conjunctive
    BY DEF Conjunctive, Collection!Conjunctive
  <2>2. /\ \A e \in Doc : Ahead(e) \/ (e \notin Open /\ \A t \in Term : e < docid[t])
        /\ \A en \in m_q : \A t \in Term : en.docid < docid[t]
    BY <1>1 DEF OrInv, CollectionInv
  <2>3. \A e \in Doc : Ahead(e)' \/ (e \notin Open' /\ \A t \in Term : e < docid'[t])
    BY <1>6, <1>7, <1>8, <2>2
  <2>4. \A t \in Term : next_docid' <= docid'[t]
    BY <1>11, <1>17, <2>1
  <2>5. \E t \in Term : docid'[t] = next_docid'
    BY <1>11, <1>17
  <2>6. \A en \in m_q' : \A t \in Term : en.docid < docid'[t]
    BY <1>7, <2>2
  <2> QED BY <2>3, <2>4, <2>5, <2>6 DEF OrInv
<1>15. algorithm \in Conjunctive => AndInv'
  <2> SUFFICES ASSUME algorithm \in Conjunctive PROVE AndInv'
    OBVIOUS
  <2>1. next_docid' = docid[o[1]]
    BY <1>2
  <2>2. ASSUME NEW e \in Open PROVE next_docid' <= e
    <3>1. Ahead(e) /\ e \in WithEveryTerm
      BY <1>1, <1>3, <2>2, OpenFacts DEF AndInv, CollectionInv, Wanted
    <3>2. docid[o[1]] <= e
      BY <1>10, <3>1 DEF Ahead, WithEveryTerm
    <3> QED BY <2>1, <3>2
  <2> QED BY <1>1, <1>2, <1>6, <1>7, <1>8, <2>1, <2>2 DEF AndInv, CollectionInv
<1>16. algorithm = "block_max_maxscore" => BlockMaxMaxScoreInv'
  <2> SUFFICES ASSUME algorithm = "block_max_maxscore" PROVE BlockMaxMaxScoreInv'
    OBVIOUS
  <2>1. algorithm \notin Conjunctive
    BY DEF Conjunctive, Collection!Conjunctive
  <2>2. PICK h \in 0..max_docid : ReachedUpTo(h)
    BY DEF CollectionInv, BlockMaxMaxScoreInv
  <2>3. ReachedUpTo(h)'
    <3>1. \A e \in Doc : ScoreOver(UpTo(e), e)' = ScoreOver(UpTo(e), e)
      BY <1>3, <1>8, SameCall DEF ScoreOver
    <3> QED BY <1>1, <1>6, <1>7, <1>8, <2>2, <3>1 DEF ReachedUpTo, WouldEnter
  <2>4. upper_bounds' = [p \in Position |-> SumOfBounds(TermsAt(1, p))']
    <3>1. \A S : SumOfBounds(S)' = SumOfBounds(S)
      BY <1>7 DEF SumOfBounds
    <3>2. \A p \in Position : SumOfBounds(TermsAt(1, p))' = SumOfBounds({o[i] : i \in 1..p})
      BY <1>7, <1>9 DEF SumOfBounds
    <3> QED BY <1>2, <3>2
  <2>5. first_lookup' = 0 /\ first_lookup' \in 0..N
    BY <1>1, <1>4
  <2>6. \A t \in Term : next_docid' <= docid'[t]
    BY <1>11, <1>17, <2>1
  <2>7. ~(first_lookup' > 0)
    BY <2>5
  <2>8. \E g \in 0..max_docid : ReachedUpTo(g)'
    BY <2>2, <2>3
  <2> QED BY <2>4, <2>5, <2>6, <2>7, <2>8 DEF BlockMaxMaxScoreInv
<1> QED BY <1>1, <1>5, <1>12, <1>13, <1>14, <1>15, <1>16 DEF CollectionInv

\* A document is dealt with, in the loop over the documents.
Iterates ==
  /\ pc = "doc" /\ next_docid < end /\ first_lookup < Cardinality(Term)
  /\ StayInRange
  /\ UNCHANGED <<pc, max_score, algorithm, order, upper_bounds, end>>

\* The operators that their steps share.
LEMMA IterationSame ==
  /\ Collection!Iteration => Iterates
  /\ \A s : Collection!Found(s) <=> Finds(s)
<1>1. Collection!Iteration => Iterates
  BY CollectionSame DEF Collection!Iteration, Collection!InLoop, Iterates
<1>2. \A s : Collection!Found(s) <=> Finds(s)
  <2> SUFFICES ASSUME NEW s PROVE Collection!Found(s) <=> Finds(s)
    OBVIOUS
  <2>1. Collection!InsertDocument(next_docid, s) <=> InsertDocument(next_docid, s)
    BY CollectionSame
  <2>2. UNCHANGED Collection!queueVars <=> UNCHANGED queueVars
    BY DEF Collection!queueVars, queueVars
  <2> QED BY <2>1, <2>2 DEF Collection!Found, Finds, Boolean
<1> QED BY <1>1, <1>2

\* What the state has to do with where the cursors are.
LEMMA IterationState ==
  ASSUME CollectionInv, Iterates, CursorsInLists', QueueOK', next_docid' \in Nat,
         first_lookup' \in Nat, block' \in [Term -> Nat],
         \A t \in Term : block'[t] \in 1..Len(wdata.blocks[t])
  PROVE  CollectionState'
<1>1. CollectionState /\ UNCHANGED <<inputVars, processed, algorithm>> /\ range' = range
  BY DEF CollectionInv, Iterates, StayInRange, loopVars
<1>2. /\ (algorithm \in Conjunctive)' = (algorithm \in Conjunctive)
      /\ \A t : ListBound(t)' = ListBound(t)
      /\ Call(Ranked)' /\ wdata' = wdata /\ q' = q
  BY <1>1, SameCollection DEF CollectionState, inputVars
<1>3. \A i, j : TermsAt(i, j)' = TermsAt(i, j)
  BY DEF TermsAt, Iterates
<1> QED BY <1>1, <1>2, <1>3 DEF CollectionState, Iterates

\* The lists of a Boolean query end before the next candidate.
LEMMA IterationLists ==
  ASSUME CollectionInv, Iterates, next_docid' \in Nat,
         NEW c \in Nat, ListedUpTo(c)', algorithm \in Boolean => c < next_docid'
  PROVE  ListsInOrder'
<1>1. CollectionState /\ UNCHANGED <<inputVars, processed, algorithm>> /\ pc' = pc /\ pc = "doc"
      /\ end' = end
  BY DEF CollectionInv, Iterates, StayInRange, loopVars
<1>2. Wanted' = Wanted /\ (algorithm \in Boolean)' = (algorithm \in Boolean)
  BY <1>1, SameCollection
<1>3. SUFFICES ASSUME algorithm \in Boolean PROVE ListsInOrder'
  BY <1>2 DEF ListsInOrder
<1>4. end' = max_docid
  BY <1>1, <1>3 DEF CollectionInv, ListsInOrder
<1>5. PICK r, W : r = results' /\ W = Wanted'
  OBVIOUS
<1>6. r \in Seq([docid : W, score : Nat]) /\ \A i \in 1..Len(r) : r[i].docid <= c
  BY <1>2, <1>3, <1>5 DEF ListedUpTo
<1>7. W \in SUBSET Nat
  BY <1>1, <1>2, <1>5, CollectionTypes, OpenFacts
<1>8. \A i \in 1..Len(r) : r[i].docid < next_docid'
  <2> SUFFICES ASSUME NEW i \in 1..Len(r) PROVE r[i].docid < next_docid'
    OBVIOUS
  <2>1. PICK R : R = [docid : W, score : Nat]
    OBVIOUS
  <2>2. r[i] \in R
    <3>1. r \in Seq(R)
      BY <1>6, <2>1
    <3> QED BY <3>1
  <2>3. r[i].docid \in Nat
    BY <1>7, <2>1, <2>2
  <2> QED BY <1>3, <1>6, <2>3
<1> QED BY <1>1, <1>2, <1>3, <1>4, <1>5, <1>8 DEF ListedUpTo, ListsInOrder

\* So they do when nothing was found.
LEMMA IterationListsKept ==
  ASSUME CollectionInv, Iterates, UNCHANGED results, next_docid' \in Nat,
         algorithm \in Boolean => next_docid <= next_docid'
  PROVE  ListsInOrder'
<1>1. CollectionState /\ UNCHANGED <<inputVars, processed, algorithm>> /\ pc' = pc /\ pc = "doc"
      /\ end' = end /\ next_docid \in Nat /\ UNCHANGED inputVars
  BY DEF CollectionInv, CollectionState, Iterates, StayInRange, loopVars
<1>2. /\ Wanted' = Wanted /\ (algorithm \in Boolean)' = (algorithm \in Boolean)
      /\ \A d : ScoreOver(Term, d)' = ScoreOver(Term, d)
  BY <1>1, SameCollection, SameCall DEF ScoreOver
<1>3. SUFFICES ASSUME algorithm \in Boolean PROVE ListsInOrder'
  BY <1>2 DEF ListsInOrder
<1>4. PICK r, W : r = results /\ W = Wanted
  OBVIOUS
<1>5. r \in Seq([docid : W, score : Nat]) /\ \A i \in 1..Len(r) : r[i].docid < next_docid
  BY <1>1, <1>3, <1>4 DEF ListsInOrder, CollectionInv
<1>6. W \in SUBSET Nat
  BY <1>1, <1>4, CollectionTypes, OpenFacts
<1>7. \A i \in 1..Len(r) : r[i].docid < next_docid'
  <2> SUFFICES ASSUME NEW i \in 1..Len(r) PROVE r[i].docid < next_docid'
    OBVIOUS
  <2>1. PICK R : R = [docid : W, score : Nat]
    OBVIOUS
  <2>2. r[i] \in R
    <3>1. r \in Seq(R)
      BY <1>5, <2>1
    <3> QED BY <3>1
  <2>3. r[i].docid \in Nat
    BY <1>6, <2>1, <2>2
  <2> QED BY <1>1, <1>3, <1>5, <2>3
<1> QED BY <1>1, <1>2, <1>3, <1>4, <1>7 DEF CollectionInv, ListsInOrder

\* ranked_or_query and or_query deal with the first document of the cursors.
LEMMA CollectionOr == CollectionInv /\ Collection!Or => CollectionInv' /\ GoesOn
<1> SUFFICES ASSUME CollectionInv, Collection!Or PROVE CollectionInv' /\ GoesOn
  OBVIOUS
<1> DEFINE A == {t \in Term : docid[t] = next_docid}
<1>1. /\ algorithm \in {"ranked_or", "or"} /\ Iterates
      /\ Finds(ScoreOver(A, next_docid))
      /\ docid' = [t \in Term |-> IF t \in A THEN NextPosting(t) ELSE docid[t]]
      /\ next_docid' = Min({end} \cup {docid'[t] : t \in Term})
      /\ UNCHANGED <<block, first_lookup, candidate_list>>
  <2>1. /\ algorithm \in {"ranked_or", "or"} /\ Collection!Iteration
        /\ Collection!Found(Collection!ScoreOf(A))
        /\ docid' = [t \in Term |-> IF t \in A THEN Collection!NextPosting(t) ELSE docid[t]]
        /\ next_docid' = Collection!Min({end} \cup {docid'[t] : t \in Term})
        /\ UNCHANGED <<block, first_lookup, candidate_list>>
    BY DEF Collection!Or, Collection!AtCandidate, Collection!MoveCursors
  <2>2. Collection!ScoreOf(A) = ScoreOver(A, next_docid)
    BY CollectionSame DEF Collection!ScoreOf
  <2>3. docid' = [t \in Term |-> IF t \in A THEN NextPosting(t) ELSE docid[t]]
    BY <2>1, CollectionSame
  <2>4. next_docid' = Min({end} \cup {docid'[t] : t \in Term})
    BY <2>1, CollectionSame
  <2> HIDE DEF A
  <2> QED BY <2>1, <2>2, <2>3, <2>4, IterationSame
<1>2. PICK c : c = next_docid
  OBVIOUS
<1>3. /\ CollectionState /\ ListsInOrder /\ OrInv /\ pc = "doc" /\ c < end
      /\ UNCHANGED <<inputVars, processed, algorithm>> /\ UNCHANGED inputVars
  BY <1>1, <1>2 DEF CollectionInv, Iterates, StayInRange, loopVars
<1>4. /\ q \in Inputs /\ CursorsInLists /\ docid \in [Term -> Nat] /\ c \in Nat
      /\ end \in Nat /\ end <= max_docid /\ max_docid \in Nat /\ Doc = 0..(max_docid - 1)
      /\ c < max_docid /\ c \in Doc /\ A \in SUBSET Term
  BY <1>2, <1>3, CollectionTypes
<1>5. /\ algorithm \notin Conjunctive /\ (algorithm \in Conjunctive)' = (algorithm \in Conjunctive)
      /\ \A t : Docs(t)' = Docs(t) /\ wdata' = wdata
  BY <1>1, <1>3, SameCollection DEF Conjunctive, Collection!Conjunctive, inputVars
<1>6. /\ \A e \in Doc : Ahead(e) \/ (e \notin Open /\ \A t \in Term : e < docid[t])
      /\ \A en \in m_q : \A t \in Term : en.docid < docid[t]
      /\ \A t \in Term : c <= docid[t]
      /\ \E t \in Term : docid[t] = c
  BY <1>2, <1>3 DEF OrInv
<1>7. PICK first \in Term : docid[first] = c
  BY <1>6
<1>8. c \in Wanted
  <2>1. c \in Docs(first)
    BY <1>4, <1>7 DEF CursorsInLists
  <2> QED BY <1>5, <2>1 DEF Wanted
<1>9. Ahead(c)
  BY <1>4, <1>6, <1>7
<1>10. ScoreOver(A, c) = ScoreOver(Term, c) /\ ScoreOver(Term, c) \in Nat
  <2>1. \A t \in Term \ A : c \notin Docs(t)
    BY <1>2, <1>4, <1>6, <1>9 DEF Ahead
  <2> HIDE DEF A
  <2> QED BY <1>4, <2>1, ScoreOverMonotonic, ScoreOverTerms
<1>11. /\ QueueOK'
       /\ Open' \in SUBSET (Open \ {c})
       /\ \A en \in m_q' : en \in m_q \/ en.docid = c
       /\ ListedUpTo(c)'
       /\ EntersInFull
  <2>1. \A en \in m_q : en.docid # c
    BY <1>4, <1>6, <1>7
  <2>2. PICK s : s = ScoreOver(Term, c)
    OBVIOUS
  <2>3. s \in Nat /\ Finds(s) /\ s = ScoreOver(Term, next_docid)
    <3> HIDE DEF A
    <3> QED BY <1>1, <1>2, <1>10, <2>2
  <2>4. /\ QueueOK'
        /\ Open' \in SUBSET (Open \ {next_docid})
        /\ \A en \in m_q' : en \in m_q \/ en.docid = next_docid
        /\ \E d \in Nat : d = next_docid /\ ListedUpTo(d)'
        /\ EntersInFull
    BY <1>2, <1>3, <1>8, <2>1, <2>3, FoundStep
  <2>5. PICK d \in Nat : d = next_docid /\ ListedUpTo(d)'
    BY <2>4
  <2>6. d = c
    BY <1>2, <2>5
  <2> QED BY <1>2, <2>4, <2>5, <2>6
<1>12. ASSUME NEW t \in Term
       PROVE  /\ docid'[t] \in Nat /\ docid'[t] \in Docs(t) \cup {max_docid} /\ docid'[t] > c
              /\ docid'[t] >= docid[t]
              /\ \A e \in Docs(t) : c < e /\ docid[t] <= e => docid'[t] <= e
  <2>1. /\ docid[t] \in Nat /\ docid[t] \in Docs(t) \cup {max_docid}
        /\ \A e \in Docs(t) : e \in Nat
    BY <1>4, CallTypes DEF CursorsInLists
  <2>2. CASE docid[t] = c
    <3>1. docid'[t] = NextPosting(t)
      BY <1>1, <1>2, <2>2
    <3>2. /\ NextPosting(t) \in Docs(t) \cup {max_docid} /\ NextPosting(t) \in Nat
          /\ docid[t] < max_docid => docid[t] < NextPosting(t)
          /\ \A e \in Docs(t) : docid[t] < e => NextPosting(t) <= e
      BY <1>4, NextFacts
    <3> QED BY <1>4, <2>1, <2>2, <3>1, <3>2
  <2>3. CASE docid[t] # c
    <3>1. docid'[t] = docid[t]
      BY <1>1, <1>2, <2>3
    <3> QED BY <1>4, <1>6, <2>1, <2>3, <3>1
  <2> QED BY <2>2, <2>3
<1>13. /\ next_docid' \in Nat /\ next_docid' > c
       /\ \A t \in Term : next_docid' <= docid'[t]
       /\ next_docid' < end' => \E t \in Term : docid'[t] = next_docid'
  <2> DEFINE S == {end} \cup {docid'[t] : t \in Term}
  <2>1. S \in SUBSET Nat /\ S # {}
    BY <1>4, <1>12
  <2>2. \A n \in S : n > c
    BY <1>3, <1>12
  <2>3. PICK m : m = next_docid'
    OBVIOUS
  <2>4. m \in S /\ \A n \in S : m <= n
    <3>1. m = Min(S)
      BY <1>1, <2>3
    <3> HIDE DEF S
    <3> QED BY <2>1, <3>1, MinOfNaturals
  <2>5. m \in Nat /\ m > c
    <3> HIDE DEF S
    <3> QED BY <2>1, <2>2, <2>4
  <2>6. \A t \in Term : m <= docid'[t]
    BY <2>4
  <2>7. m = end \/ \E t \in Term : docid'[t] = m
    BY <2>4
  <2>8. end' = end
    BY <1>1 DEF Iterates
  <2> QED BY <1>4, <2>3, <2>5, <2>6, <2>7, <2>8
<1>14. CursorsInLists'
  <2>1. docid' \in [Term -> Nat]
    BY <1>1, <1>12
  <2> QED BY <1>5, <1>12, <2>1 DEF CursorsInLists
<1>15. CollectionState'
  <2>1. first_lookup' \in Nat /\ block' \in [Term -> Nat]
        /\ \A t \in Term : block'[t] \in 1..Len(wdata.blocks[t])
    BY <1>1, <1>3 DEF CollectionState
  <2> QED BY <1>1, <1>11, <1>13, <1>14, <2>1, IterationState
<1>16. ListsInOrder'
  BY <1>1, <1>4, <1>11, <1>13, IterationLists
<1>17. OrInv'
  <2>1. ASSUME NEW e \in Doc
        PROVE  Ahead(e)' \/ (e \notin Open' /\ \A t \in Term : e < docid'[t])
    <3>1. e \in Nat /\ Open' \in SUBSET Open /\ c \notin Open'
      BY <1>4, <1>11
    <3>2. CASE e > c /\ Ahead(e)
      BY <1>5, <1>12, <3>2 DEF Ahead
    <3>3. CASE e > c /\ ~Ahead(e)
      <4>1. e \notin Open /\ \A t \in Term : e < docid[t]
        BY <1>6, <3>3
      <4>2. \A t \in Term : e < docid'[t]
        BY <1>4, <1>12, <3>1, <4>1
      <4> QED BY <3>1, <4>1, <4>2
    <3>4. CASE ~(e > c)
      <4>1. \A t \in Term : e < docid'[t]
        BY <1>4, <1>12, <3>1, <3>4
      <4>2. e \notin Open'
        <5> SUFFICES ASSUME e \in Open, e # c PROVE FALSE
          BY <3>1
        <5>1. PICK t \in Term : e \in Docs(t)
          BY <1>3, OpenFacts
        <5>2. docid[t] > e
          BY <1>4, <1>6, <3>1, <3>4
        <5>3. docid[t] <= e
          BY <1>6, <5>1 DEF Ahead
        <5> QED BY <1>4, <3>1, <5>2, <5>3
      <4> QED BY <4>1, <4>2
    <3> QED BY <3>2, <3>3, <3>4
  <2>2. ASSUME NEW en \in m_q', NEW t \in Term PROVE en.docid < docid'[t]
    <3>1. CASE en.docid = c
      BY <1>4, <1>12, <3>1
    <3>2. CASE en \in m_q
      <4>1. en.docid \in Nat
        BY <1>3, <1>4, <3>2 DEF CollectionState, QueueOK, GoodQueue, Entry
      <4>2. en.docid < docid[t]
        BY <1>6, <3>2
      <4> QED BY <1>4, <1>12, <4>1, <4>2
    <3> QED BY <1>11, <3>1, <3>2
  <2> QED BY <1>13, <2>1, <2>2 DEF OrInv
<1>18. algorithm' \notin Conjunctive' /\ algorithm' # "block_max_maxscore"
  BY <1>1, <1>3, <1>5
<1>19. GoesOn
  BY <1>11, <1>12 DEF GoesOn
<1> QED BY <1>15, <1>16, <1>17, <1>18, <1>19 DEF CollectionInv

\* Where the blocks are after a step that moves some of them up to document c.
BlocksMoveUp(c) ==
  \E B \in SUBSET Term :
    block' = [t \in Term |-> IF t \in B THEN BlockGeq(wdata.blocks[t], block[t], c)
                                        ELSE block[t]]

\* They pass no document from c on.
LEMMA BlocksMoveUpFacts ==
  ASSUME CollectionState, NEW c \in Nat, BlocksMoveUp(c), wdata' = wdata
  PROVE  /\ block' \in [Term -> Nat]
         /\ \A t \in Term : /\ block'[t] \in 1..Len(wdata.blocks[t])
                            /\ block'[t] = BlockGeq(wdata.blocks[t], block[t], c) =>
                                 \/ block'[t] = Len(wdata.blocks[t])
                                 \/ wdata.blocks[t][block'[t]].docid >= c
         /\ \A e \in Doc : c <= e /\ BlocksAhead(e) => BlocksAhead(e)'
<1>1. Call(Ranked) /\ \A e \in Doc : e \in Nat
  BY CollectionTypes
<1>2. PICK D : D = Ranked
  OBVIOUS
<1>3. PICK B \in SUBSET Term :
        block' = [t \in Term |-> IF t \in B THEN BlockGeq(wdata.blocks[t], block[t], c)
                                            ELSE block[t]]
  BY DEF BlocksMoveUp
<1>4. ASSUME NEW t \in Term
      PROVE  /\ block'[t] \in Nat /\ block'[t] \in 1..Len(wdata.blocks[t])
             /\ block'[t] = BlockGeq(wdata.blocks[t], block[t], c) =>
                  \/ block'[t] = Len(wdata.blocks[t])
                  \/ wdata.blocks[t][block'[t]].docid >= c
             /\ \A e \in Doc : c <= e /\ (block[t] = 1 \/ wdata.blocks[t][block[t] - 1].docid < e)
                  => block'[t] = 1 \/ wdata.blocks[t][block'[t] - 1].docid < e
  <2>1. PICK g, h, pos, blocks : /\ g = block'[t] /\ pos = block[t] /\ blocks = wdata.blocks[t]
                                 /\ h = BlockGeq(blocks, pos, c)
    OBVIOUS
  <2>2. /\ Len(blocks) \in Nat \ {0}
        /\ \A b \in 1..Len(blocks) : blocks[b].docid \in Nat
    BY <1>1, <1>2, <2>1, BlockBoundHolds
  <2>3. pos \in 1..Len(blocks)
    BY <2>1 DEF CollectionState
  <2>4. /\ h \in pos..Len(blocks)
        /\ h = Len(blocks) \/ blocks[h].docid >= c
        /\ \A b \in pos..(h - 1) : ~(blocks[b].docid >= c)
    BY <2>1, <2>2, <2>3, BlockGeqFacts
  <2>5. g = pos \/ g = h
    BY <1>3, <2>1
  <2>6. g \in Nat /\ g \in 1..Len(blocks)
    BY <2>2, <2>3, <2>4, <2>5
  <2>7. ASSUME NEW e \in Doc, c <= e, pos = 1 \/ blocks[pos - 1].docid < e, g # 1
        PROVE  blocks[g - 1].docid < e
    <3>1. CASE g = pos
      BY <2>7, <3>1
    <3>2. CASE g # pos
      <4>1. g - 1 \in pos..(h - 1) /\ g - 1 \in 1..Len(blocks)
        BY <2>2, <2>3, <2>4, <2>5, <3>2
      <4>2. blocks[g - 1].docid \in Nat /\ ~(blocks[g - 1].docid >= c) /\ e \in Nat
        BY <1>1, <2>2, <2>4, <4>1
      <4> QED BY <2>7, <4>2
    <3> QED BY <3>1, <3>2
  <2> QED BY <2>1, <2>4, <2>6, <2>7
<1>5. block' \in [Term -> Nat]
  BY <1>3, <1>4
<1>6. ASSUME NEW e \in Doc, c <= e, BlocksAhead(e) PROVE BlocksAhead(e)'
  BY <1>4, <1>6 DEF BlocksAhead
<1> QED BY <1>4, <1>5, <1>6

\* Collection!Mismatch and Collection!Agreement.
ListDiffers ==
  /\ \E P \in SUBSET Term : \E t \in P :
       /\ NextGeq(t, next_docid) # next_docid
       /\ docid' = [s \in Term |-> IF s \in P THEN NextGeq(s, next_docid) ELSE docid[s]]
       /\ next_docid' = docid'[t]
  /\ candidate_list' = 1
  /\ UNCHANGED <<queueVars, results>>
ListsAgree ==
  /\ \A p \in Position : candidate_list <= p => NextGeq(order[p], next_docid) = next_docid
  /\ Finds(ScoreOver(Term, next_docid))
  /\ docid' = [t \in Term |-> IF t = order[1] THEN Geq(t, next_docid + 1) ELSE next_docid]
  /\ next_docid' = docid'[order[1]]
  /\ candidate_list' = 2

\* An iteration of ranked_and_query, in terms of the first list that is not at the
\* candidate, or of all lists being there.
LEMMA ConjunctionSame ==
  ASSUME CollectionInv, algorithm \in Conjunctive, Iterates
  PROVE  /\ Collection!Mismatch => ListDiffers
         /\ Collection!Agreement => ListsAgree
<1> DEFINE c == next_docid
           N == Cardinality(Term)
           M == {p \in candidate_list..N : NextGeq(order[p], c) # c}
<1>1. /\ N \in Nat \ {0} /\ Position = 1..N /\ order \in [Position -> Term]
      /\ candidate_list \in {1, 2}
  BY CollectionTypes DEF CollectionInv, AndInv, CollectionState, Iterates
<1>2. Collection!Missing = M
  BY CollectionSame DEF Collection!Missing
<1>3. M \in SUBSET Nat /\ M \in SUBSET Position
  BY <1>1
<1>4. ASSUME Collection!Mismatch PROVE ListDiffers
  <2>1. /\ M # {}
        /\ docid' = [t \in Term |-> IF t \in Collection!ListsFrom(candidate_list, Min(M))
                                      THEN NextGeq(t, c) ELSE docid[t]]
        /\ next_docid' = docid'[order[Min(M)]]
        /\ candidate_list' = 1 /\ UNCHANGED <<queueVars, results>>
    <3>1. /\ Collection!Missing # {}
          /\ docid' = [t \in Term |->
                IF t \in Collection!ListsFrom(candidate_list, Collection!Min(Collection!Missing))
                  THEN Collection!NextGeq(t, c) ELSE docid[t]]
          /\ next_docid' = docid'[order[Collection!Min(Collection!Missing)]]
          /\ candidate_list' = 1 /\ UNCHANGED <<Collection!queueVars, results>>
      BY <1>4 DEF Collection!Mismatch, Collection!MoveCursors
    <3>2. Collection!Min(Collection!Missing) = Min(M)
      BY <1>2, CollectionSame
    <3>3. docid' = [t \in Term |-> IF t \in Collection!ListsFrom(candidate_list, Min(M))
                                     THEN NextGeq(t, c) ELSE docid[t]]
      BY <3>1, <3>2, CollectionSame
    <3>4. UNCHANGED queueVars
      BY <3>1 DEF queueVars, Collection!queueVars
    <3> QED BY <1>2, <3>1, <3>2, <3>3, <3>4
  <2>2. PICK p : p = Min(M)
    OBVIOUS
  <2>3. p \in M
    <3> HIDE DEF M
    <3> QED BY <1>3, <2>1, <2>2, MinOfNaturals
  <2>4. p \in candidate_list..N /\ NextGeq(order[p], c) # c /\ p \in Position
    BY <1>3, <2>3
  <2> DEFINE P == {order[i] : i \in candidate_list..p}
  <2>5. P \in SUBSET Term /\ order[p] \in P
    <3>1. \A i \in candidate_list..p : i \in Position
      BY <1>1, <2>4
    <3>2. p \in candidate_list..p
      BY <1>1, <2>4
    <3> QED BY <1>1, <3>1, <3>2
  <2>6. docid' = [t \in Term |-> IF t \in P THEN NextGeq(t, c) ELSE docid[t]]
    BY <2>1, <2>2 DEF Collection!ListsFrom
  <2>7. next_docid' = docid'[order[p]]
    BY <2>1, <2>2
  <2> HIDE DEF P
  <2> QED BY <2>1, <2>4, <2>5, <2>6, <2>7 DEF ListDiffers
<1>5. ASSUME Collection!Agreement PROVE ListsAgree
  <2>1. /\ M = {} /\ Collection!Found(Collection!ScoreOf(Term))
        /\ docid' = [t \in Term |-> IF t = order[1] THEN Collection!Geq(t, c + 1) ELSE c]
        /\ next_docid' = docid'[order[1]] /\ candidate_list' = 2
    BY <1>2, <1>5 DEF Collection!Agreement
  <2>2. Collection!ScoreOf(Term) = ScoreOver(Term, c)
    BY CollectionSame DEF Collection!ScoreOf
  <2>3. docid' = [t \in Term |-> IF t = order[1] THEN Geq(t, c + 1) ELSE c]
    BY <2>1, CollectionSame
  <2>4. \A p \in Position : candidate_list <= p => NextGeq(order[p], c) = c
    BY <1>1, <2>1
  <2>5. Finds(ScoreOver(Term, c))
    BY <2>1, <2>2, IterationSame
  <2> QED BY <2>1, <2>3, <2>4, <2>5 DEF ListsAgree
<1> QED BY <1>4, <1>5

\* What the steps of the conjunctive queries start from.
LEMMA AndFacts ==
  ASSUME CollectionInv, algorithm \in Conjunctive, Iterates
  PROVE  /\ CollectionState /\ ListsInOrder /\ pc = "doc" /\ pc' = "doc" /\ q \in Inputs
         /\ UNCHANGED <<inputVars, processed, algorithm>> /\ UNCHANGED inputVars
         /\ q' = q /\ wdata' = wdata /\ order' = order /\ algorithm' \in Conjunctive'
         /\ CursorsInLists /\ docid \in [Term -> Nat] /\ next_docid \in Nat
         /\ end \in Nat /\ end <= max_docid /\ max_docid \in Nat /\ Doc = 0..(max_docid - 1)
         /\ next_docid < end /\ next_docid < max_docid /\ next_docid \in Doc
         /\ Cardinality(Term) \in Nat \ {0} /\ Position = 1..Cardinality(Term)
         /\ order \in [Position -> Term] /\ order[1] \in Term
         /\ \A t \in Term : \E p \in Position : order[p] = t
         /\ \A t : Docs(t)' = Docs(t)
         /\ \A e \in Open : /\ Ahead(e) /\ BlocksAhead(e) /\ next_docid <= e
                            /\ e \in Doc /\ e \in Nat /\ e \in WithEveryTerm
         /\ \A en \in m_q : en.docid \in Nat /\ \E t \in Term : en.docid < docid[t]
         /\ candidate_list \in {1, 2}
         /\ candidate_list = 2 => docid[order[1]] = next_docid
         /\ algorithm \notin {"ranked_or", "or", "block_max_maxscore"}
<1>1. /\ CollectionState /\ ListsInOrder /\ AndInv /\ pc = "doc" /\ pc' = "doc"
      /\ UNCHANGED <<inputVars, processed, algorithm>> /\ UNCHANGED inputVars
      /\ next_docid < end /\ order' = order
  BY DEF CollectionInv, Iterates, StayInRange, loopVars
<1>2. /\ q \in Inputs /\ CursorsInLists /\ docid \in [Term -> Nat] /\ next_docid \in Nat
      /\ end \in Nat /\ end <= max_docid /\ max_docid \in Nat /\ Doc = 0..(max_docid - 1)
      /\ Cardinality(Term) \in Nat \ {0} /\ Position = 1..Cardinality(Term)
  BY <1>1, CollectionTypes
<1>3. /\ order \in [Position -> Term] /\ order[1] \in Term
      /\ \A t \in Term : \E p \in Position : order[p] = t
  <2>1. order \in [Position -> Term] /\ TermsAt(1, Cardinality(Term)) = Term
    BY <1>1 DEF CollectionState
  <2> QED BY <1>2, <2>1 DEF TermsAt
<1>4. /\ \A t : Docs(t)' = Docs(t)
      /\ (algorithm \in Conjunctive)' = (algorithm \in Conjunctive)
      /\ q' = q /\ wdata' = wdata
  BY <1>1, SameCollection DEF inputVars
<1>5. \A e \in Open : e \in WithEveryTerm /\ e \in Doc
  BY <1>1, OpenFacts DEF Wanted, WithEveryTerm
<1>6. \A en \in m_q : en.docid \in Nat
  BY <1>1, <1>2 DEF CollectionState, QueueOK, GoodQueue, Entry
<1>7. next_docid < max_docid /\ next_docid \in Doc
  BY <1>1, <1>2
<1>8. algorithm \notin {"ranked_or", "or", "block_max_maxscore"}
  BY DEF Conjunctive, Collection!Conjunctive
<1> QED BY <1>1, <1>2, <1>3, <1>4, <1>5, <1>6, <1>7, <1>8 DEF AndInv

\* A list is found that does not have the candidate.
LEMMA DiffersStep ==
  ASSUME CollectionInv, algorithm \in Conjunctive, Iterates, ListDiffers,
         BlocksMoveUp(next_docid), UNCHANGED first_lookup
  PROVE  CollectionInv' /\ GoesOn
<1>1. PICK c : c = next_docid
  OBVIOUS
<1>2. PICK P \in SUBSET Term : \E t0 \in P :
        /\ NextGeq(t0, c) # c
        /\ docid' = [s \in Term |-> IF s \in P THEN NextGeq(s, c) ELSE docid[s]]
        /\ next_docid' = docid'[t0]
  BY <1>1 DEF ListDiffers
<1>2t. PICK t0 \in P :
        /\ NextGeq(t0, c) # c
        /\ docid' = [s \in Term |-> IF s \in P THEN NextGeq(s, c) ELSE docid[s]]
        /\ next_docid' = docid'[t0]
  BY <1>2
<1>3. candidate_list' = 1 /\ UNCHANGED <<queueVars, results>>
  BY DEF ListDiffers
<1>4. /\ CollectionState /\ pc = "doc" /\ q \in Inputs
      /\ UNCHANGED <<inputVars, processed, algorithm>> /\ wdata' = wdata
      /\ CursorsInLists /\ docid \in [Term -> Nat] /\ c \in Nat /\ c < max_docid
      /\ max_docid \in Nat /\ Doc = 0..(max_docid - 1)
      /\ \A t : Docs(t)' = Docs(t)
      /\ \A e \in Open : /\ Ahead(e) /\ BlocksAhead(e) /\ c <= e
                         /\ e \in Doc /\ e \in Nat /\ e \in WithEveryTerm
      /\ \A en \in m_q : en.docid \in Nat /\ \E t \in Term : en.docid < docid[t]
  BY <1>1, AndFacts
<1>5. ASSUME NEW t \in Term
      PROVE  /\ docid'[t] \in Nat /\ docid'[t] \in Docs(t) \cup {max_docid}
             /\ docid'[t] >= docid[t]
             /\ \A e \in Docs(t) : c <= e /\ docid[t] <= e => docid'[t] <= e
  <2>1. docid[t] \in Nat /\ docid[t] \in Docs(t) \cup {max_docid}
    BY <1>4 DEF CursorsInLists
  <2>2. /\ NextGeq(t, c) \in Docs(t) \cup {max_docid} /\ NextGeq(t, c) \in Nat
        /\ docid[t] <= NextGeq(t, c)
        /\ \A e \in Docs(t) : c <= e /\ docid[t] <= e => NextGeq(t, c) <= e
    BY <1>4, NextFacts
  <2>3. docid'[t] = NextGeq(t, c) \/ docid'[t] = docid[t]
    BY <1>2t
  <2> QED BY <2>1, <2>2, <2>3
<1>6. next_docid' \in Nat /\ next_docid' > c
  <2>1. t0 \in Term /\ next_docid' = NextGeq(t0, c)
    BY <1>2t
  <2>2. c \in 0..max_docid /\ c <= c
    BY <1>4
  <2>3. NextGeq(t0, c) \in Nat /\ c <= NextGeq(t0, c)
    BY <1>4, <2>1, <2>2, NextFacts
  <2> QED BY <1>2t, <1>4, <2>1, <2>3
<1>7. QueueOK' /\ Open' = Open /\ m_q' = m_q
  BY <1>3, <1>4, NothingFound DEF queueVars
<1>8. CursorsInLists'
  <2>1. docid' \in [Term -> Nat]
    BY <1>2t, <1>5
  <2> QED BY <1>4, <1>5, <2>1 DEF CursorsInLists
<1>9. /\ block' \in [Term -> Nat] /\ \A t \in Term : block'[t] \in 1..Len(wdata.blocks[t])
      /\ \A e \in Doc : c <= e /\ BlocksAhead(e) => BlocksAhead(e)'
  BY <1>1, <1>4, BlocksMoveUpFacts
<1>10. CollectionState'
  <2>1. first_lookup' \in Nat
    BY <1>4 DEF CollectionState
  <2> QED BY <1>6, <1>7, <1>8, <1>9, <2>1, IterationState
<1>11. ListsInOrder'
  <2>1. next_docid <= next_docid' /\ UNCHANGED results
    BY <1>1, <1>3, <1>4, <1>6
  <2> QED BY <1>6, <2>1, IterationListsKept
<1>12. ASSUME NEW e \in Open' PROVE Ahead(e)' /\ BlocksAhead(e)' /\ next_docid' <= e
  <2>1. e \in Open /\ Ahead(e) /\ BlocksAhead(e) /\ c <= e /\ e \in Doc /\ e \in WithEveryTerm
    BY <1>4, <1>7, <1>12
  <2>2. Ahead(e)'
    BY <1>4, <1>5, <2>1 DEF Ahead
  <2>3. e \in Docs(t0)
    BY <1>2t, <2>1 DEF WithEveryTerm
  <2>4. docid'[t0] <= e
    BY <1>2t, <1>5, <2>1, <2>3 DEF Ahead
  <2> QED BY <1>2t, <1>9, <2>1, <2>2, <2>4
<1>13. ASSUME NEW en \in m_q' PROVE \E t \in Term : en.docid < docid'[t]
  <2>1. PICK t \in Term : en.docid < docid[t]
    BY <1>4, <1>7
  <2>2. en.docid \in Nat /\ docid[t] \in Nat /\ docid'[t] \in Nat /\ docid'[t] >= docid[t]
    BY <1>4, <1>5, <1>7
  <2> QED BY <2>1, <2>2
<1>14. AndInv'
  BY <1>3, <1>12, <1>13 DEF AndInv
<1>15. algorithm' \in Conjunctive' /\ algorithm' \notin {"ranked_or", "or", "block_max_maxscore"}
  BY <1>4, AndFacts
<1>16. GoesOn
  BY <1>3, <1>5 DEF GoesOn, EntersInFull, queueVars
<1> QED BY <1>10, <1>11, <1>14, <1>15, <1>16 DEF CollectionInv

\* Every list has the candidate.
LEMMA AgreesStep ==
  ASSUME CollectionInv, algorithm \in Conjunctive, Iterates, ListsAgree,
         BlocksMoveUp(next_docid), UNCHANGED first_lookup
  PROVE  CollectionInv' /\ GoesOn
<1>1. PICK c, o : c = next_docid /\ o = order[1]
  OBVIOUS
<1>2. /\ \A p \in Position : candidate_list <= p => NextGeq(order[p], c) = c
      /\ Finds(ScoreOver(Term, c))
      /\ docid' = [t \in Term |-> IF t = o THEN Geq(t, c + 1) ELSE c]
      /\ next_docid' = docid'[o]
      /\ candidate_list' = 2
  BY <1>1 DEF ListsAgree
<1>3. /\ CollectionState /\ ListsInOrder /\ pc = "doc" /\ q \in Inputs
      /\ UNCHANGED <<inputVars, processed, algorithm>> /\ wdata' = wdata /\ order' = order
      /\ CursorsInLists /\ docid \in [Term -> Nat] /\ c \in Nat /\ c < max_docid
      /\ max_docid \in Nat /\ Doc = 0..(max_docid - 1) /\ c \in Doc
      /\ order \in [Position -> Term] /\ o \in Term
      /\ \A t \in Term : \E p \in Position : order[p] = t
      /\ \A t : Docs(t)' = Docs(t)
      /\ \A e \in Open : /\ Ahead(e) /\ BlocksAhead(e) /\ c <= e
                         /\ e \in Doc /\ e \in Nat /\ e \in WithEveryTerm
      /\ \A en \in m_q : en.docid \in Nat /\ \E t \in Term : en.docid < docid[t]
      /\ candidate_list \in {1, 2}
      /\ candidate_list = 2 => docid[o] = c
      /\ Position = 1..Cardinality(Term) /\ Cardinality(Term) \in Nat \ {0}
  BY <1>1, AndFacts
<1>4. ASSUME NEW t \in Term PROVE c \in Docs(t) /\ docid[t] <= c
  <2>1. docid[t] \in Nat /\ docid[t] \in Docs(t) \cup {max_docid}
    BY <1>3 DEF CursorsInLists
  <2>2. PICK p \in Position : order[p] = t
    BY <1>3
  <2>3. CASE candidate_list <= p
    <3>1. NextGeq(t, c) = c
      BY <1>2, <2>2, <2>3
    <3>2. NextGeq(t, c) \in Docs(t) \cup {max_docid} /\ docid[t] <= NextGeq(t, c)
      BY <1>3, NextFacts
    <3> QED BY <1>3, <3>1, <3>2
  <2>4. CASE ~(candidate_list <= p)
    <3>1. p \in Nat \ {0}
      BY <1>3
    <3>2. candidate_list = 2 /\ p = 1
      BY <1>3, <2>4, <3>1
    <3>3. docid[t] = c
      BY <1>1, <1>3, <2>2, <3>2
    <3> QED BY <1>3, <2>1, <3>3
  <2> QED BY <2>3, <2>4
<1>5. c \in WithEveryTerm /\ c \in Wanted
  BY <1>3, <1>4, OpenFacts DEF WithEveryTerm
<1>6. /\ QueueOK'
      /\ Open' \in SUBSET (Open \ {c})
      /\ \A en \in m_q' : en \in m_q \/ en.docid = c
      /\ ListedUpTo(c)'
      /\ EntersInFull
  <2>1. \A en \in m_q : en.docid # c
    BY <1>3, <1>4
  <2>2. PICK s : s = ScoreOver(Term, c)
    OBVIOUS
  <2>3. s \in Nat /\ Finds(s) /\ s = ScoreOver(Term, next_docid)
    BY <1>1, <1>2, <1>3, <2>2, ScoreOverTerms
  <2>4. /\ QueueOK'
        /\ Open' \in SUBSET (Open \ {next_docid})
        /\ \A en \in m_q' : en \in m_q \/ en.docid = next_docid
        /\ \E d \in Nat : d = next_docid /\ ListedUpTo(d)'
        /\ EntersInFull
    BY <1>1, <1>3, <1>5, <2>1, <2>3, FoundStep
  <2>5. PICK d \in Nat : d = next_docid /\ ListedUpTo(d)'
    BY <2>4
  <2>6. d = c
    BY <1>1, <2>5
  <2> QED BY <1>1, <2>4, <2>5, <2>6
<1>7. /\ Geq(o, c + 1) \in Nat /\ Geq(o, c + 1) > c
      /\ Geq(o, c + 1) \in Docs(o) \cup {max_docid}
      /\ \A e \in Docs(o) : c + 1 <= e => Geq(o, c + 1) <= e
  <2>1. c + 1 \in Nat /\ c + 1 <= max_docid
    BY <1>3
  <2>2. /\ Geq(o, c + 1) \in Nat /\ Geq(o, c + 1) \in Docs(o) \cup {max_docid}
        /\ c + 1 <= Geq(o, c + 1)
        /\ \A e \in Docs(o) : c + 1 <= e => Geq(o, c + 1) <= e
    BY <1>3, <2>1, GeqFacts
  <2> QED BY <1>3, <2>2
<1>8. /\ docid'[o] = Geq(o, c + 1) /\ next_docid' = Geq(o, c + 1)
      /\ \A t \in Term : t # o => docid'[t] = c
  BY <1>2, <1>3
<1>9. CursorsInLists'
  <2>1. \A t \in Term : docid'[t] \in Nat /\ docid'[t] \in Docs(t) \cup {max_docid}
    BY <1>3, <1>4, <1>7, <1>8
  <2>2. docid' \in [Term -> Nat]
    BY <1>2, <2>1
  <2> QED BY <1>3, <2>1, <2>2 DEF CursorsInLists
<1>10. /\ block' \in [Term -> Nat] /\ \A t \in Term : block'[t] \in 1..Len(wdata.blocks[t])
       /\ \A e \in Doc : c <= e /\ BlocksAhead(e) => BlocksAhead(e)'
  BY <1>1, <1>3, BlocksMoveUpFacts
<1>11. CollectionState'
  <2>1. first_lookup' \in Nat /\ next_docid' \in Nat
    BY <1>3, <1>7, <1>8 DEF CollectionState
  <2> QED BY <1>6, <1>9, <1>10, <2>1, IterationState
<1>12. ListsInOrder'
  <2>1. next_docid' \in Nat /\ c < next_docid'
    BY <1>3, <1>7, <1>8
  <2> QED BY <1>3, <1>6, <2>1, IterationLists
<1>13. ASSUME NEW e \in Open' PROVE Ahead(e)' /\ BlocksAhead(e)' /\ next_docid' <= e
  <2>1. /\ e \in Open /\ Ahead(e) /\ BlocksAhead(e) /\ c <= e /\ e \in Doc /\ e \in Nat
        /\ e \in WithEveryTerm /\ e # c
    BY <1>3, <1>6, <1>13
  <2>2. e \in Docs(o) /\ c + 1 <= e
    BY <1>3, <2>1 DEF WithEveryTerm
  <2>3. docid'[o] <= e
    BY <1>7, <1>8, <2>2
  <2>4. Ahead(e)'
    <3>1. \A t \in Term : docid'[t] <= e
      BY <1>8, <2>1, <2>3
    <3> QED BY <3>1 DEF Ahead
  <2> QED BY <1>2, <1>10, <2>1, <2>3, <2>4
<1>14. ASSUME NEW en \in m_q' PROVE \E t \in Term : en.docid < docid'[t]
  <2>1. CASE en.docid = c
    BY <1>3, <1>7, <1>8, <2>1
  <2>2. CASE en \in m_q
    <3>1. PICK t \in Term : en.docid < docid[t]
      BY <1>3, <2>2
    <3>2. en.docid \in Nat /\ docid[t] \in Nat /\ docid[t] <= c
      BY <1>3, <1>4, <2>2
    <3> QED BY <1>3, <1>7, <1>8, <3>1, <3>2
  <2> QED BY <1>6, <2>1, <2>2
<1>15. AndInv'
  <2>1. docid'[order'[1]] = next_docid'
    BY <1>1, <1>2, <1>3
  <2> QED BY <1>2, <1>13, <1>14, <2>1 DEF AndInv
<1>16. algorithm' \in Conjunctive' /\ algorithm' \notin {"ranked_or", "or", "block_max_maxscore"}
  BY <1>3, AndFacts
<1>17. GoesOn
  <2>1. ASSUME NEW t \in Term PROVE docid'[t] >= docid[t]
    <3>1. docid'[t] = c \/ (docid'[t] \in Nat /\ docid'[t] > c)
      BY <1>7, <1>8
    <3>2. docid[t] \in Nat /\ docid[t] <= c
      BY <1>3, <1>4
    <3> QED BY <1>3, <3>1, <3>2
  <2> QED BY <1>6, <2>1 DEF GoesOn
<1> QED BY <1>11, <1>12, <1>15, <1>16, <1>17 DEF CollectionInv

\* ranked_and_query, and_query and scored_and_query deal with the candidate.
LEMMA CollectionAnd == CollectionInv /\ Collection!And => CollectionInv' /\ GoesOn
<1> SUFFICES ASSUME CollectionInv, Collection!And PROVE CollectionInv' /\ GoesOn
  OBVIOUS
<1>1. /\ Collection!Iteration /\ (Collection!Mismatch \/ Collection!Agreement)
      /\ UNCHANGED <<block, first_lookup>>
      /\ algorithm \in Conjunctive
  BY DEF Collection!And, Conjunctive, Collection!Conjunctive
<1>2. Iterates
  BY <1>1, IterationSame
<1>3. ListDiffers \/ ListsAgree
  BY <1>1, <1>2, ConjunctionSame
<1>4. BlocksMoveUp(next_docid)
  <2>1. block \in [Term -> Nat] /\ block' = block
    BY <1>1 DEF CollectionInv, CollectionState
  <2>2. PICK B \in SUBSET Term : B = {}
    OBVIOUS
  <2>3. block' = [t \in Term |-> IF t \in B THEN BlockGeq(wdata.blocks[t], block[t], next_docid)
                                             ELSE block[t]]
    BY <2>1, <2>2
  <2> QED BY <2>3 DEF BlocksMoveUp
<1> QED BY <1>1, <1>2, <1>3, <1>4, DiffersStep, AgreesStep

\* The block of t that the candidate lies in, or the last one; the sum of the
\* bounds of such blocks.
BlockAtCandidate(t) == BlockGeq(wdata.blocks[t], block[t], next_docid)
Here(t) == wdata.blocks[t][BlockAtCandidate(t)]
BoundHere(S) == SumFunctionOnSet([t \in S |-> q.weight[t] * Here(t).score], S)

\* CollectionQuery says the same.
LEMMA BlocksSame ==
  /\ \A t : Collection!BlockOf(t) = BlockAtCandidate(t) /\ Collection!BlockAt(t) = Here(t)
  /\ \A S : Collection!BlockBound(S) = BoundHere(S)
<1>1. \A t : Collection!BlockOf(t) = BlockAtCandidate(t)
  BY DEF Collection!BlockOf, BlockAtCandidate, Collection!BlockGeq, BlockGeq,
         Collection!Min, Min
<1>2. \A t : Collection!BlockAt(t) = Here(t)
  BY <1>1 DEF Collection!BlockAt, Here
<1>3. \A S, f : Collection!SumFunctionOnSet(f, S) = SumFunctionOnSet(f, S)
  BY DEF Collection!SumFunctionOnSet, SumFunctionOnSet, Collection!FoldFunctionOnSet,
         FoldFunctionOnSet, Collection!MapThenFoldSet, MapThenFoldSet
<1>4. ASSUME NEW S PROVE Collection!BlockBound(S) = BoundHere(S)
  <2> DEFINE f == [t \in S |-> q.weight[t] * Collection!BlockAt(t).score]
  <2>1. f = [t \in S |-> q.weight[t] * Here(t).score]
    BY <1>2
  <2>2. DOMAIN f = S
    OBVIOUS
  <2>3. Collection!BlockBound(S) = Collection!SumFunctionOnSet(f, DOMAIN f)
    BY DEF Collection!BlockBound, Collection!SumFunction
  <2>4. Collection!SumFunctionOnSet(f, DOMAIN f) = SumFunctionOnSet(f, S)
    <3> HIDE DEF f
    <3> QED BY <1>3, <2>2
  <2> QED BY <2>1, <2>3, <2>4 DEF BoundHere
<1> QED BY <1>1, <1>2, <1>4

\* Such a block bounds the candidate and the documents after it that it reaches.
LEMMA HereFacts ==
  ASSUME CollectionState
  PROVE  \A t \in Term :
           /\ BlockAtCandidate(t) \in Nat
           /\ BlockAtCandidate(t) \in 1..Len(wdata.blocks[t])
           /\ Here(t).docid \in Nat /\ Here(t).score \in Nat
           /\ q.weight[t] * Here(t).score \in Nat
           /\ \A e \in Doc :
                /\ next_docid <= e /\ BlocksAhead(e)
                /\ e = next_docid \/ e <= Here(t).docid
                => Score(t, e) <= q.weight[t] * Here(t).score
           /\ Here(t).docid < next_docid =>
                \A e \in Docs(t) : e <= Here(t).docid
<1>1. Call(Ranked) /\ q \in Inputs /\ (\A e \in Doc : e \in Nat) /\ next_docid \in Nat
  BY CollectionTypes
<1>2. PICK D, c : D = Ranked /\ c = next_docid
  OBVIOUS
<1> SUFFICES ASSUME NEW t \in Term
             PROVE  /\ BlockAtCandidate(t) \in Nat
                    /\ BlockAtCandidate(t) \in 1..Len(wdata.blocks[t])
                    /\ Here(t).docid \in Nat /\ Here(t).score \in Nat
                    /\ q.weight[t] * Here(t).score \in Nat
                    /\ \A e \in Doc :
                         /\ next_docid <= e /\ BlocksAhead(e)
                         /\ e = next_docid \/ e <= Here(t).docid
                         => Score(t, e) <= q.weight[t] * Here(t).score
                    /\ Here(t).docid < next_docid =>
                         \A e \in Docs(t) : e <= Here(t).docid
  OBVIOUS
<1>3. PICK g, pos, blocks : /\ g = BlockAtCandidate(t) /\ pos = block[t]
                            /\ blocks = wdata.blocks[t]
  OBVIOUS
<1>4. /\ Len(blocks) \in Nat \ {0}
      /\ \A b \in 1..Len(blocks) : blocks[b].docid \in Nat /\ blocks[b].score \in Nat
      /\ \A b \in 1..Len(blocks) : \A e \in Doc :
           /\ b = Len(blocks) \/ blocks[b].docid >= e
           /\ b = 1 \/ blocks[b - 1].docid < e
           => Score(t, e) <= q.weight[t] * blocks[b].score
      /\ \A e \in Docs(t) : e <= blocks[Len(blocks)].docid
  BY <1>1, <1>2, <1>3, BlockBoundHolds
<1>5. pos \in 1..Len(blocks)
  BY <1>3 DEF CollectionState
<1>6. /\ g \in pos..Len(blocks)
      /\ g = Len(blocks) \/ blocks[g].docid >= c
      /\ \A b \in pos..(g - 1) : ~(blocks[b].docid >= c)
  <2>1. g = BlockGeq(blocks, pos, c)
    BY <1>2, <1>3 DEF BlockAtCandidate
  <2> QED BY <1>4, <1>5, <2>1, BlockGeqFacts
<1>7. g \in Nat /\ g \in 1..Len(blocks) /\ blocks[g].docid \in Nat /\ blocks[g].score \in Nat
  BY <1>4, <1>5, <1>6
<1>8. q.weight[t] * blocks[g].score \in Nat
  BY <1>1, <1>7, CallTypes, TimesWeight
<1>9. ASSUME NEW e \in Doc, c <= e, BlocksAhead(e), e = c \/ e <= blocks[g].docid
      PROVE  Score(t, e) <= q.weight[t] * blocks[g].score
  <2>1. g = Len(blocks) \/ blocks[g].docid >= e
    BY <1>1, <1>6, <1>7, <1>9
  <2>2. g = 1 \/ blocks[g - 1].docid < e
    <3>1. CASE g = pos
      BY <1>3, <1>9, <3>1 DEF BlocksAhead
    <3>2. CASE g # pos
      <4>1. g - 1 \in pos..(g - 1) /\ g - 1 \in 1..Len(blocks)
        BY <1>4, <1>5, <1>6, <3>2
      <4>2. blocks[g - 1].docid \in Nat /\ ~(blocks[g - 1].docid >= c) /\ e \in Nat /\ c \in Nat
        BY <1>1, <1>2, <1>4, <1>6, <4>1
      <4> QED BY <1>9, <4>2
    <3> QED BY <3>1, <3>2
  <2> QED BY <1>4, <1>7, <1>9, <2>1, <2>2
<1>10. ASSUME blocks[g].docid < c PROVE g = Len(blocks)
  BY <1>1, <1>2, <1>6, <1>7, <1>10
<1> QED BY <1>2, <1>3, <1>4, <1>7, <1>8, <1>9, <1>10 DEF Here

\* The candidate jumps behind the first of the blocks that ends, and over no
\* document that is open.
LEMMA BlocksLeft ==
  ASSUME CollectionInv, algorithm = "block_max_ranked_and", Iterates,
         block' = [t \in Term |-> BlockAtCandidate(t)],
         ~WouldEnter(BoundHere(Term)),
         NEW j, j = Min({end} \cup {Here(t).docid : t \in Term}),
         next_docid' = (IF next_docid = j + 1 THEN end ELSE j + 1),
         candidate_list' = 1,
         UNCHANGED <<queueVars, docid, results, first_lookup>>
  PROVE  CollectionInv' /\ GoesOn
<1>1. PICK c, f : c = next_docid /\ f = [t \in Term |-> q.weight[t] * Here(t).score]
  OBVIOUS
<1>2. algorithm \in Conjunctive /\ algorithm \notin Boolean
  BY DEF Conjunctive, Collection!Conjunctive, Boolean, Collection!Boolean
<1>3. /\ CollectionState /\ pc = "doc" /\ q \in Inputs
      /\ UNCHANGED <<inputVars, processed, algorithm>> /\ wdata' = wdata
      /\ CursorsInLists /\ docid \in [Term -> Nat] /\ c \in Nat /\ c < end
      /\ end \in Nat /\ m_threshold \in Nat /\ Call(Ranked)
      /\ \A t : Docs(t)' = Docs(t)
      /\ \A e \in Open : /\ Ahead(e) /\ BlocksAhead(e) /\ c <= e
                         /\ e \in Doc /\ e \in Nat /\ e \in WithEveryTerm
      /\ \A en \in m_q : \E t \in Term : en.docid < docid[t]
  BY <1>1, <1>2, AndFacts, CollectionTypes DEF CollectionInv
<1>4. \A t \in Term : Here(t).docid \in Nat
  BY <1>3, HereFacts
<1>5. /\ j \in Nat /\ j <= end /\ \A t \in Term : j <= Here(t).docid
      /\ j = end \/ \E t \in Term : j = Here(t).docid
  <2>1. PICK S : S = {end} \cup {Here(t).docid : t \in Term}
    OBVIOUS
  <2>2. S \in SUBSET Nat /\ S # {}
    BY <1>3, <1>4, <2>1
  <2>3. j \in S /\ \A n \in S : j <= n
    BY <2>1, <2>2, MinOfNaturals
  <2> QED BY <1>3, <2>1, <2>2, <2>3
<1>6. ASSUME NEW e \in Open PROVE j < e
  <2>1. /\ e \in Doc /\ e \in Nat /\ c <= e /\ BlocksAhead(e) /\ ~Decided(e)
    BY <1>2, <1>3 DEF Open
  <2> SUFFICES ASSUME e <= j PROVE FALSE
    BY <1>5, <2>1
  <2>2. \A t \in Term : f[t] \in Nat /\ Score(t, e) <= f[t]
    <3> SUFFICES ASSUME NEW t \in Term PROVE f[t] \in Nat /\ Score(t, e) <= f[t]
      OBVIOUS
    <3>1. e <= Here(t).docid
      BY <1>4, <1>5, <2>1
    <3>2. f[t] = q.weight[t] * Here(t).score
      BY <1>1
    <3> QED BY <1>1, <1>3, <2>1, <3>1, <3>2, HereFacts
  <2>3. ScoreOver(Term, e) <= SumFunctionOnSet(f, Term)
    BY <1>3, <2>2, ScoreBounded
  <2>4. SumFunctionOnSet(f, Term) \in Nat
    BY <2>2, TermAssumption, SumNat
  <2>5. BoundHere(Term) = SumFunctionOnSet(f, Term)
    BY <1>1 DEF BoundHere
  <2>6. FullScore(e) \in Nat /\ FullScore(e) <= ScoreOver(Term, e) /\ ScoreOver(Term, e) \in Nat
    <3>1. PICK D : D = Ranked
      OBVIOUS
    <3> QED BY <1>3, <2>1, <3>1, FullScoreFacts, ScoreOverTerms
  <2>7. ~WouldEnter(FullScore(e))
    BY <1>3, <2>3, <2>4, <2>5, <2>6 DEF WouldEnter
  <2> QED BY <2>1, <2>7 DEF Decided
<1>7. ASSUME NEW e \in Open, c = j + 1 PROVE FALSE
  <2>1. e \in WithEveryTerm /\ e \in Nat /\ c <= e
    BY <1>3
  <2>2. j # end /\ j < c
    BY <1>3, <1>5, <1>7
  <2>3. PICK t \in Term : j = Here(t).docid
    BY <1>5, <2>2
  <2>4. e <= j
    BY <1>1, <1>3, <2>1, <2>2, <2>3, HereFacts DEF WithEveryTerm
  <2> QED BY <1>3, <1>5, <2>1, <2>2, <2>4
<1>8. next_docid' \in Nat
  BY <1>3, <1>5
<1>9. ASSUME NEW e \in Open PROVE next_docid' <= e
  <2>1. e \in Nat /\ j < e /\ c # j + 1
    BY <1>3, <1>6, <1>7, <1>9
  <2>2. next_docid' = j + 1
    BY <1>1, <2>1
  <2> QED BY <1>5, <2>1, <2>2
<1>10. QueueOK' /\ Open' = Open /\ m_q' = m_q
  BY <1>3, NothingFound DEF queueVars
<1>11. BlocksMoveUp(c)
  <2>1. PICK B \in SUBSET Term : B = Term
    OBVIOUS
  <2>2. block' = [t \in Term |-> IF t \in B THEN BlockGeq(wdata.blocks[t], block[t], c)
                                            ELSE block[t]]
    BY <1>1, <2>1 DEF BlockAtCandidate
  <2> QED BY <2>2 DEF BlocksMoveUp
<1>12. /\ block' \in [Term -> Nat] /\ \A t \in Term : block'[t] \in 1..Len(wdata.blocks[t])
       /\ \A e \in Doc : c <= e /\ BlocksAhead(e) => BlocksAhead(e)'
  BY <1>3, <1>11, BlocksMoveUpFacts
<1>13. CursorsInLists'
  BY <1>3 DEF CursorsInLists, inputVars
<1>14. CollectionState'
  <2>1. first_lookup' \in Nat
    BY <1>3 DEF CollectionState
  <2> QED BY <1>8, <1>10, <1>12, <1>13, <2>1, IterationState
<1>15. ListsInOrder'
  <2>1. UNCHANGED results
    OBVIOUS
  <2> QED BY <1>2, <1>8, <2>1, IterationListsKept
<1>16. ASSUME NEW e \in Open' PROVE Ahead(e)' /\ BlocksAhead(e)' /\ next_docid' <= e
  <2>1. e \in Open /\ Ahead(e) /\ BlocksAhead(e) /\ c <= e /\ e \in Doc
    BY <1>3, <1>10, <1>16
  <2>2. next_docid' <= e
    BY <1>9, <2>1
  <2>3. BlocksAhead(e)'
    BY <1>12, <2>1
  <2>4. Ahead(e)'
    <3>1. docid' = docid
      OBVIOUS
    <3> QED BY <1>3, <2>1, <3>1 DEF Ahead
  <2> QED BY <2>2, <2>3, <2>4
<1>17. \A en \in m_q' : \E t \in Term : en.docid < docid'[t]
  BY <1>3, <1>10
<1>18. AndInv'
  <2>1. candidate_list' \in {1, 2} /\ (candidate_list' = 2 => docid'[order'[1]] = next_docid')
    OBVIOUS
  <2>2. /\ \A e \in Open' : Ahead(e)' /\ BlocksAhead(e)'
        /\ \A e \in Open' : next_docid' <= e
    BY <1>16
  <2>3. AndInv'
    BY <1>17, <2>1, <2>2 DEF AndInv
  <2> QED BY <2>3
<1>19. algorithm' \in Conjunctive' /\ algorithm' \notin {"ranked_or", "or", "block_max_maxscore"}
  BY <1>2, AndFacts
<1>20. GoesOn
  <2>1. \A t \in Term : docid'[t] = docid[t] /\ docid[t] \in Nat
    BY <1>3
  <2>2. EntersInFull
    BY DEF EntersInFull
  <2> QED BY <2>1, <2>2 DEF GoesOn
<1> QED BY <1>14, <1>15, <1>18, <1>19, <1>20 DEF CollectionInv

\* block_max_ranked_and_query deals with the candidate.
LEMMA CollectionBlockMaxAnd ==
  CollectionInv /\ Collection!BlockMaxAnd => CollectionInv' /\ GoesOn
<1> SUFFICES ASSUME CollectionInv, Collection!BlockMaxAnd PROVE CollectionInv' /\ GoesOn
  OBVIOUS
<1>1. /\ Collection!Iteration /\ algorithm = "block_max_ranked_and"
      /\ block' = [t \in Term |-> IF t \in Term THEN Collection!BlockOf(t) ELSE block[t]]
      /\ Collection!LeaveBlocks \/ Collection!Mismatch \/ Collection!Agreement
      /\ UNCHANGED first_lookup
  BY DEF Collection!BlockMaxAnd, Collection!MoveBlocks
<1>2. Iterates
  BY <1>1, IterationSame
<1>3. block' = [t \in Term |-> BlockAtCandidate(t)]
  BY <1>1, BlocksSame
<1>4. algorithm \in Conjunctive
  BY <1>1 DEF Conjunctive, Collection!Conjunctive
<1>5. BlocksMoveUp(next_docid)
  <2>1. PICK B \in SUBSET Term : B = Term
    OBVIOUS
  <2>2. block' = [t \in Term |-> IF t \in B THEN BlockGeq(wdata.blocks[t], block[t], next_docid)
                                            ELSE block[t]]
    BY <1>3, <2>1 DEF BlockAtCandidate
  <2> QED BY <2>2 DEF BlocksMoveUp
<1>6. CASE Collection!LeaveBlocks
  <2>1. PICK j : j = Min({end} \cup {Here(t).docid : t \in Term})
    OBVIOUS
  <2>2. Collection!Min({end} \cup {Collection!BlockAt(t).docid : t \in Term}) = j
    BY <2>1, BlocksSame, CollectionSame
  <2>3. /\ ~Collection!WouldEnter(Collection!BlockBound(Term))
        /\ next_docid' = (IF next_docid = j + 1 THEN end ELSE j + 1)
        /\ candidate_list' = 1
        /\ UNCHANGED <<Collection!queueVars, docid, results>>
    BY <1>6, <2>2 DEF Collection!LeaveBlocks
  <2>4. ~WouldEnter(BoundHere(Term)) /\ UNCHANGED queueVars
    BY <2>3, BlocksSame, CollectionSame DEF Collection!queueVars, queueVars
  <2> QED BY <1>1, <1>2, <1>3, <2>1, <2>3, <2>4, BlocksLeft
<1>7. CASE Collection!Mismatch \/ Collection!Agreement
  <2>1. ListDiffers \/ ListsAgree
    BY <1>2, <1>4, <1>7, ConjunctionSame
  <2> QED BY <1>1, <1>2, <1>4, <1>5, <2>1, DiffersStep, AgreesStep
<1> QED BY <1>1, <1>6, <1>7

\* block_max_maxscore_query: the lists it goes through, and those of them that
\* have the candidate.
Essential == Term \ TermsAt(1, first_lookup)
AtCandidate == {t \in Essential : docid[t] = next_docid}
EssentialScore == ScoreOver(AtCandidate, next_docid)

\* What the candidate can get when the blocks from position p on have been looked
\* at, and when the lists from position p on have been.
BoundWithBlocks(p) ==
  EssentialScore + SumOfBounds(TermsAt(1, p - 1)) + BoundHere(TermsAt(p, first_lookup))
ScoreWithLists(p) ==
  EssentialScore + BoundHere(TermsAt(1, p - 1))
  + ScoreOver({t \in TermsAt(p, first_lookup) : NextGeq(t, next_docid) = next_docid}, next_docid)

\* The candidate cannot enter.
Hindered ==
  \E p \in 1..first_lookup :
    ~WouldEnter(BoundWithBlocks(p)) \/ ~WouldEnter(ScoreWithLists(p))

\* A step deals with the candidate: some blocks and some lists have been looked at.
Evaluates ==
  /\ \E D, A \in SUBSET TermsAt(1, first_lookup) :
       /\ block' = [t \in Term |-> IF t \in D THEN BlockAtCandidate(t) ELSE block[t]]
       /\ docid' = [t \in Term |-> IF t \in AtCandidate THEN NextPosting(t)
                                   ELSE IF t \in A THEN NextGeq(t, next_docid) ELSE docid[t]]
  /\ Hindered => UNCHANGED queueVars
  /\ ~Hindered => InsertDocument(next_docid, ScoreWithLists(1))
  /\ first_lookup' \in first_lookup..Cardinality(Term)
  /\ first_lookup' = first_lookup \/ upper_bounds[first_lookup'] <= m_threshold'
  /\ UNCHANGED queueVars => first_lookup' = first_lookup
  /\ next_docid' = Min({end} \cup {docid'[t] : t \in Essential})
  /\ UNCHANGED results

\* What the evaluation starts from.
LEMMA BlockMaxMaxScoreFacts ==
  ASSUME CollectionInv, algorithm = "block_max_maxscore", pc = "doc"
  PROVE  /\ CollectionState /\ q \in Inputs /\ Call(Doc) /\ CursorsInLists /\ QueueOK
         /\ Ranked = Doc /\ algorithm \notin Boolean /\ algorithm \notin Conjunctive
         /\ docid \in [Term -> Nat] /\ max_score \in [Term -> Nat]
         /\ \A t \in Term : max_score[t] \in Nat /\ \A d \in Doc : Score(t, d) <= max_score[t]
         /\ m_threshold \in Nat /\ processed \in Nat /\ next_docid \in Nat
         /\ end \in Nat /\ end <= max_docid /\ max_docid \in Nat /\ Doc = 0..(max_docid - 1)
         /\ Cardinality(Term) \in Nat \ {0} /\ Position = 1..Cardinality(Term)
         /\ order \in [Position -> Term] /\ TermsAt(1, Cardinality(Term)) = Term
         /\ first_lookup \in 0..Cardinality(Term) /\ first_lookup \in Nat
         /\ upper_bounds = [p \in Position |-> SumOfBounds(TermsAt(1, p))]
         /\ \A i \in Nat \ {0}, j \in 0..Cardinality(Term) : TermsAt(i, j) \in SUBSET Term
         /\ Essential \in SUBSET Term
         /\ \A t \in Essential : next_docid <= docid[t]
         /\ first_lookup > 0 => SumOfBounds(TermsAt(1, first_lookup)) <= m_threshold
         /\ first_lookup = 0 => TermsAt(1, first_lookup) = {}
<1>1. CollectionState /\ BlockMaxMaxScoreInv
  BY DEF CollectionInv
<1>2. algorithm \notin Boolean /\ algorithm \notin Conjunctive
  BY DEF Boolean, Conjunctive, Collection!Boolean, Collection!Conjunctive
<1>3. Ranked = Doc
  BY <1>2 DEF Ranked
<1>4. /\ q \in Inputs /\ Call(Ranked) /\ CursorsInLists /\ QueueOK
      /\ docid \in [Term -> Nat] /\ max_score \in [Term -> Nat]
      /\ m_threshold \in Nat /\ processed \in Nat /\ next_docid \in Nat
      /\ end \in Nat /\ end <= max_docid /\ max_docid \in Nat /\ Doc = 0..(max_docid - 1)
      /\ Cardinality(Term) \in Nat \ {0} /\ Position = 1..Cardinality(Term)
  BY <1>1, CollectionTypes
<1>5. \A t \in Term : max_score[t] \in Nat /\ \A d \in Doc : Score(t, d) <= max_score[t]
  <2>1. \A t \in Term : max_score[t] = ListBound(t)
    BY <1>1 DEF CollectionState
  <2>2. PICK D : D = Ranked
    OBVIOUS
  <2> QED BY <1>4, <2>1, <2>2, ListBoundHolds
<1>6. order \in [Position -> Term] /\ TermsAt(1, Cardinality(Term)) = Term
  BY <1>1 DEF CollectionState
<1>7. \A i \in Nat \ {0}, j \in 0..Cardinality(Term) : TermsAt(i, j) \in SUBSET Term
  BY <1>4, <1>6 DEF TermsAt
<1>8. /\ first_lookup \in 0..Cardinality(Term) /\ first_lookup \in Nat
      /\ upper_bounds = [p \in Position |-> SumOfBounds(TermsAt(1, p))]
      /\ \A t \in Essential : next_docid <= docid[t]
      /\ first_lookup > 0 => upper_bounds[first_lookup] <= m_threshold
  BY <1>1, <1>4 DEF BlockMaxMaxScoreInv, Essential
<1>9. first_lookup > 0 => SumOfBounds(TermsAt(1, first_lookup)) <= m_threshold
  BY <1>4, <1>8
<1>10. first_lookup = 0 => TermsAt(1, first_lookup) = {}
  BY DEF TermsAt
<1> QED BY <1>1, <1>2, <1>3, <1>4, <1>5, <1>6, <1>7, <1>8, <1>9, <1>10 DEF Essential

\* The lists of a step are lists that are only looked up.
LEMMA LookedUpAreLookups ==
  ASSUME first_lookup \in Nat
  PROVE  /\ Collection!BlocksLookedAt \in SUBSET TermsAt(1, first_lookup)
         /\ Collection!ListsLookedUp \in SUBSET TermsAt(1, first_lookup)
<1>1. PICK n : n = first_lookup
  OBVIOUS
<1>2. PICK F, B : F = Collection!Failed /\ B = Collection!Blocked
  OBVIOUS
<1>3. F \in SUBSET (1..n) /\ B \in SUBSET (1..n) /\ n \in Nat
  BY <1>1, <1>2 DEF Collection!Failed, Collection!Blocked
<1>4. \A S \in SUBSET (1..n) : S # {} => Max(S) \in S
  BY <1>3, MaxOfBounded
<1>5. \A S \in SUBSET (1..n) : S # {} =>
        Collection!ListsFrom(Collection!Max(S), n) \in SUBSET TermsAt(1, n)
  <2> SUFFICES ASSUME NEW S \in SUBSET (1..n), S # {}
               PROVE  Collection!ListsFrom(Collection!Max(S), n) \in SUBSET TermsAt(1, n)
    OBVIOUS
  <2>1. PICK m : m = Max(S)
    OBVIOUS
  <2>2. Collection!Max(S) = m /\ m \in 1..n
    BY <1>4, <2>1, CollectionSame
  <2>3. \A i \in m..n : i \in 1..n
    BY <1>3, <2>2
  <2> QED BY <2>2, <2>3 DEF Collection!ListsFrom, TermsAt
<1>6. Collection!Lookups(n) = TermsAt(1, n)
  BY DEF Collection!Lookups, Collection!ListsFrom, TermsAt
<1>7. Collection!BlocksLookedAt \in SUBSET TermsAt(1, first_lookup)
  BY <1>1, <1>2, <1>3, <1>5, <1>6 DEF Collection!BlocksLookedAt
<1>8. Collection!ListsLookedUp \in SUBSET TermsAt(1, first_lookup)
  <2>1. CASE F # {}
    BY <1>2, <2>1 DEF Collection!ListsLookedUp
  <2>2. CASE F = {} /\ B = {}
    BY <1>1, <1>2, <1>6, <2>2 DEF Collection!ListsLookedUp
  <2>3. CASE F = {} /\ B # {}
    BY <1>1, <1>2, <1>3, <1>5, <2>3 DEF Collection!ListsLookedUp
  <2> QED BY <2>1, <2>2, <2>3
<1> QED BY <1>7, <1>8

\* CollectionQuery says the same.
LEMMA BoundsSame ==
  /\ Collection!AtCandidate(Collection!EssentialLists) = AtCandidate
  /\ Collection!EssentialLists = Essential
  /\ \A p : Collection!BoundFrom(p) = BoundWithBlocks(p)
  /\ \A p : Collection!ScoreFrom(p) = ScoreWithLists(p)
<1>1. \A i, j : Collection!ListsFrom(i, j) = TermsAt(i, j)
  BY DEF Collection!ListsFrom, TermsAt
<1>2. \A p : Collection!Lookups(p) = TermsAt(1, p)
  BY <1>1 DEF Collection!Lookups
<1>3. Collection!EssentialLists = Essential
  BY <1>2 DEF Collection!EssentialLists, Essential
<1>4. Collection!AtCandidate(Collection!EssentialLists) = AtCandidate
  BY <1>3 DEF Collection!AtCandidate, AtCandidate
<1>5. Collection!EssentialScore = EssentialScore
  BY <1>4, CollectionSame DEF Collection!EssentialScore, Collection!ScoreOf, EssentialScore
<1>6. \A p : Collection!BoundFrom(p) = BoundWithBlocks(p)
  BY <1>1, <1>2, <1>5, CollectionSame, BlocksSame DEF Collection!BoundFrom, BoundWithBlocks
<1>7. ASSUME NEW p PROVE Collection!ScoreFrom(p) = ScoreWithLists(p)
  <2>1. {t \in Collection!ListsFrom(p, first_lookup) : Collection!NextGeq(t, next_docid) = next_docid}
        = {t \in TermsAt(p, first_lookup) : NextGeq(t, next_docid) = next_docid}
    BY <1>1, CollectionSame
  <2>2. Collection!ScoreFrom(p) =
          Collection!EssentialScore + Collection!BlockBound(Collection!Lookups(p - 1))
          + Collection!ScoreOver({t \in TermsAt(p, first_lookup) :
                                    NextGeq(t, next_docid) = next_docid}, next_docid)
    BY <2>1 DEF Collection!ScoreFrom, Collection!ScoreOf
  <2> QED BY <1>2, <1>5, <2>2, CollectionSame, BlocksSame DEF ScoreWithLists
<1> QED BY <1>3, <1>4, <1>6, <1>7

\* What the step of CollectionQuery amounts to.
LEMMA Evaluation ==
  ASSUME CollectionInv, Collection!BlockMaxMaxScore
  PROVE  algorithm = "block_max_maxscore" /\ Iterates /\ Evaluates
<1> DEFINE n == first_lookup
           N == Cardinality(Term)
<1>1. /\ algorithm = "block_max_maxscore" /\ Iterates /\ pc = "doc"
  BY IterationSame DEF Collection!BlockMaxMaxScore, Iterates
<1>2. n \in Nat /\ N \in Nat /\ Position = 1..N /\ n \in 0..N /\ m_threshold \in Nat
  BY <1>1, BlockMaxMaxScoreFacts
<1>3. /\ block' = [t \in Term |-> IF t \in Collection!BlocksLookedAt THEN Collection!BlockOf(t)
                                                                     ELSE block[t]]
      /\ docid' = [t \in Term |->
                     IF t \in Collection!AtCandidate(Collection!EssentialLists)
                       THEN Collection!NextPosting(t)
                     ELSE IF t \in Collection!ListsLookedUp THEN Collection!NextGeq(t, next_docid)
                                                            ELSE docid[t]]
      /\ IF Collection!Failed = {} /\ Collection!Blocked = {}
           THEN Collection!InsertDocument(next_docid, Collection!ScoreFrom(1))
           ELSE UNCHANGED Collection!queueVars
      /\ Collection!GrowLookups
      /\ next_docid' = Collection!Min({end} \cup {docid'[t] : t \in Collection!EssentialLists})
      /\ UNCHANGED results
  BY DEF Collection!BlockMaxMaxScore, Collection!MoveBlocks
<1>4. PICK D, A \in SUBSET TermsAt(1, n) :
        D = Collection!BlocksLookedAt /\ A = Collection!ListsLookedUp
  BY <1>2, LookedUpAreLookups
<1>5. block' = [t \in Term |-> IF t \in D THEN BlockAtCandidate(t) ELSE block[t]]
  BY <1>3, <1>4, BlocksSame
<1>6. docid' = [t \in Term |-> IF t \in AtCandidate THEN NextPosting(t)
                               ELSE IF t \in A THEN NextGeq(t, next_docid) ELSE docid[t]]
  BY <1>3, <1>4, BoundsSame, CollectionSame
<1>7. Hindered <=> ~(Collection!Failed = {} /\ Collection!Blocked = {})
  <2>1. Collection!Failed = {p \in 1..n : ~WouldEnter(BoundWithBlocks(p))}
    BY BoundsSame, CollectionSame DEF Collection!Failed
  <2>2. Collection!Blocked = {p \in 1..n : ~WouldEnter(ScoreWithLists(p))}
    BY BoundsSame, CollectionSame DEF Collection!Blocked
  <2> QED BY <2>1, <2>2 DEF Hindered
<1>8. /\ Hindered => UNCHANGED queueVars
      /\ ~Hindered => InsertDocument(next_docid, ScoreWithLists(1))
  BY <1>3, <1>7, BoundsSame, CollectionSame DEF queueVars, Collection!queueVars
<1>9. next_docid' = Min({end} \cup {docid'[t] : t \in Essential})
  BY <1>3, BoundsSame, CollectionSame
<1>10. /\ first_lookup' \in n..N
       /\ first_lookup' = n \/ upper_bounds[first_lookup'] <= m_threshold'
       /\ UNCHANGED queueVars => first_lookup' = n
  <2>1. first_lookup' = IF queueVars' = queueVars THEN n
                        ELSE Collection!Max({n} \cup {p \in Position : upper_bounds[p] <= m_threshold'})
    BY <1>3, CollectionSame DEF Collection!GrowLookups, queueVars, Collection!queueVars
  <2>2. PICK S : S = {n} \cup {p \in Position : upper_bounds[p] <= m_threshold'}
    OBVIOUS
  <2>3. S \in SUBSET Nat /\ S # {} /\ \A i \in S : i <= N
    BY <1>2, <2>2
  <2>4. Max(S) \in S /\ \A i \in S : i <= Max(S)
    BY <1>2, <2>3, MaxOfBounded
  <2>5. CASE UNCHANGED queueVars
    BY <1>2, <2>1, <2>5
  <2>6. CASE ~UNCHANGED queueVars
    <3>1. first_lookup' = Max(S)
      BY <2>1, <2>2, <2>6, CollectionSame
    <3> QED BY <1>2, <2>2, <2>3, <2>4, <2>6, <3>1
  <2> QED BY <2>5, <2>6
<1>11. \E X, Y \in SUBSET TermsAt(1, first_lookup) :
         /\ block' = [t \in Term |-> IF t \in X THEN BlockAtCandidate(t) ELSE block[t]]
         /\ docid' = [t \in Term |-> IF t \in AtCandidate THEN NextPosting(t)
                                     ELSE IF t \in Y THEN NextGeq(t, next_docid) ELSE docid[t]]
  BY <1>4, <1>5, <1>6
<1> QED BY <1>1, <1>3, <1>8, <1>9, <1>10, <1>11 DEF Evaluates

\* The score over two sets of terms is no more than the two scores.
LEMMA ScoreOfUnion ==
  ASSUME q \in Inputs, NEW A \in SUBSET Term, NEW B \in SUBSET Term, NEW d
  PROVE  /\ ScoreOver(A \cup B, d) <= ScoreOver(A, d) + ScoreOver(B, d)
         /\ A \cap B = {} => ScoreOver(A \cup B, d) = ScoreOver(A, d) + ScoreOver(B, d)
         /\ ScoreOver(A \cup B, d) \in Nat /\ ScoreOver(A, d) \in Nat /\ ScoreOver(B, d) \in Nat
<1>1. PICK f, U, C : /\ f = [t \in Term |-> Score(t, d)]
                     /\ U = A \cup B /\ C = U \ A
  OBVIOUS
<1>2. U \in SUBSET Term /\ A \in SUBSET U /\ C \in SUBSET B /\ IsFiniteSet(U)
  BY <1>1, TermAssumption, FS_Subset
<1>3. \A t \in Term : f[t] \in Int
  BY <1>1, ScoreTypes
<1>4. SumFunctionOnSet(f, U) = SumFunctionOnSet(f, A) + SumFunctionOnSet(f, C)
  BY <1>1, <1>2, <1>3, SumOfParts
<1>5. /\ ScoreOver(U, d) = SumFunctionOnSet(f, U) /\ ScoreOver(U, d) \in Nat
      /\ ScoreOver(A, d) = SumFunctionOnSet(f, A) /\ ScoreOver(A, d) \in Nat
      /\ ScoreOver(C, d) = SumFunctionOnSet(f, C) /\ ScoreOver(C, d) \in Nat
      /\ ScoreOver(B, d) \in Nat
  BY <1>1, <1>2, ScoreOverTerms
<1>6. ScoreOver(C, d) <= ScoreOver(B, d)
  BY <1>2, ScoreOverMonotonic
<1>7. A \cap B = {} => C = B
  BY <1>1
<1> QED BY <1>1, <1>4, <1>5, <1>6, <1>7

\* The lists that are only looked up do not add up to the threshold.
LEMMA LookupsTooLow ==
  ASSUME CollectionInv, algorithm = "block_max_maxscore", pc = "doc",
         NEW S \in SUBSET Term, NEW e \in Doc,
         \A t \in S : e \in Docs(t) => t \in TermsAt(1, first_lookup)
  PROVE  ScoreOver(S, e) \in Nat /\ ScoreOver(S, e) <= m_threshold
<1>1. PICK L : L = TermsAt(1, first_lookup)
  OBVIOUS
<1>2. /\ q \in Inputs /\ m_threshold \in Nat /\ L \in SUBSET Term
      /\ max_score \in [Term -> Nat] /\ first_lookup \in Nat
      /\ \A t \in Term : max_score[t] \in Nat /\ Score(t, e) <= max_score[t]
      /\ first_lookup > 0 => SumOfBounds(L) <= m_threshold
      /\ first_lookup = 0 => L = {}
  BY <1>1, BlockMaxMaxScoreFacts
<1>3. ScoreOver(S, e) \in Nat
  BY <1>2, ScoreOverTerms
<1>4. CASE first_lookup > 0
  <2>1. PICK f : f = max_score
    OBVIOUS
  <2>2. ScoreOver(S, e) <= SumFunctionOnSet(f, L)
    <3>1. \A t \in L : f[t] \in Nat /\ Score(t, e) <= f[t]
      BY <1>2, <2>1
    <3>2. \A t \in S : e \in Docs(t) => t \in L
      BY <1>1
    <3> QED BY <1>2, <3>1, <3>2, ScoreBounded
  <2>3. SumOfBounds(L) = SumFunctionOnSet(f, L)
    BY <2>1 DEF SumOfBounds
  <2>4. SumOfBounds(L) \in Nat
    BY <1>2, SumOfBoundsFacts
  <2> QED BY <1>2, <1>3, <1>4, <2>2, <2>3, <2>4
<1>5. CASE first_lookup = 0
  <2>1. \A t \in S : e \notin Docs(t)
    BY <1>1, <1>2, <1>5
  <2> QED BY <1>2, <1>3, <2>1, NoPostingNoScore
<1> QED BY <1>2, <1>4, <1>5

\* The bounds of the candidate hold when no cursor and no block has passed it, and
\* what they have become at the end is its score.
LEMMA CandidateBounds ==
  ASSUME CollectionInv, algorithm = "block_max_maxscore", pc = "doc",
         next_docid \in Doc, Ahead(next_docid), BlocksAhead(next_docid)
  PROVE  /\ ScoreWithLists(1) = FullScore(next_docid)
         /\ Hindered => ~WouldEnter(FullScore(next_docid))
<1>1. PICK c, n, L, E : /\ c = next_docid /\ n = first_lookup
                        /\ L = TermsAt(1, n) /\ E = Essential
  OBVIOUS
<1>2. /\ q \in Inputs /\ m_threshold \in Nat /\ n \in Nat /\ n \in 0..Cardinality(Term)
      /\ Cardinality(Term) \in Nat
      /\ CursorsInLists /\ docid \in [Term -> Nat] /\ c \in Nat /\ c \in Doc /\ c \in 0..max_docid
      /\ max_score \in [Term -> Nat]
      /\ \A t \in Term : max_score[t] \in Nat /\ Score(t, c) <= max_score[t]
      /\ E \in SUBSET Term /\ E = Term \ L /\ L \in SUBSET Term
      /\ \A i \in Nat \ {0}, j \in 0..Cardinality(Term) : TermsAt(i, j) \in SUBSET Term
      /\ \A t \in E : c <= docid[t]
      /\ CollectionState /\ Call(Doc)
  BY <1>1, BlockMaxMaxScoreFacts DEF Essential
<1>3. FullScore(c) = ScoreOver(Term, c) /\ FullScore(c) \in Nat
  <2>1. PICK D : D = Doc
    OBVIOUS
  <2> QED BY <1>2, <2>1, FullScoreFacts
<1>4. EssentialScore = ScoreOver(E, c) /\ ScoreOver(E, c) \in Nat
  <2>1. PICK S : S = AtCandidate
    OBVIOUS
  <2>2. S \in SUBSET E /\ \A t \in E \ S : c \notin Docs(t)
    <3>1. S = {t \in E : docid[t] = c}
      BY <1>1, <2>1 DEF AtCandidate
    <3>2. ASSUME NEW t \in E, c \in Docs(t) PROVE docid[t] = c
      <4>1. t \in Term /\ docid[t] \in Nat /\ c <= docid[t]
        BY <1>2
      <4>2. docid[t] <= c
        BY <1>1, <3>2, <4>1 DEF Ahead
      <4> QED BY <1>2, <4>1, <4>2
    <3> QED BY <3>1, <3>2
  <2>3. ScoreOver(S, c) = ScoreOver(E, c)
    BY <1>2, <2>2, ScoreOverMonotonic
  <2>4. ScoreOver(E, c) \in Nat
    BY <1>2, ScoreOverTerms
  <2> QED BY <1>1, <2>1, <2>3, <2>4 DEF EssentialScore
<1>5. /\ ScoreOver(Term, c) = ScoreOver(E, c) + ScoreOver(L, c)
      /\ ScoreOver(L, c) \in Nat
  <2>1. E \cup L = Term /\ E \cap L = {}
    BY <1>2
  <2>2. q \in Inputs /\ E \in SUBSET Term /\ L \in SUBSET Term
    BY <1>2
  <2>3. /\ E \cap L = {} => ScoreOver(E \cup L, c) = ScoreOver(E, c) + ScoreOver(L, c)
        /\ ScoreOver(L, c) \in Nat
    BY <2>2, ScoreOfUnion
  <2> QED BY <2>1, <2>3
<1>6. ASSUME NEW t \in Term, c \in Docs(t) PROVE NextGeq(t, c) = c
  <2>1. docid[t] <= c
    BY <1>1, <1>6 DEF Ahead
  <2>2. /\ NextGeq(t, c) \in Nat /\ c <= NextGeq(t, c)
        /\ c <= c /\ docid[t] <= c => NextGeq(t, c) <= c
    BY <1>2, <1>6, NextFacts
  <2> QED BY <1>2, <2>1, <2>2
<1>7. ASSUME NEW S \in SUBSET Term
      PROVE  ScoreOver({t \in S : NextGeq(t, c) = c}, c) = ScoreOver(S, c)
  <2>1. PICK U : U = {t \in S : NextGeq(t, c) = c}
    OBVIOUS
  <2>2. U \in SUBSET S /\ \A t \in S \ U : c \notin Docs(t)
    BY <1>6, <1>7, <2>1
  <2> QED BY <1>2, <2>1, <2>2, ScoreOverMonotonic
<1>8. ASSUME NEW S \in SUBSET Term PROVE ScoreOver(S, c) <= BoundHere(S) /\ BoundHere(S) \in Nat
  <2>1. PICK f : f = [t \in S |-> q.weight[t] * Here(t).score]
    OBVIOUS
  <2>2. \A t \in S : f[t] \in Nat /\ Score(t, c) <= f[t]
    <3> SUFFICES ASSUME NEW t \in S PROVE f[t] \in Nat /\ Score(t, c) <= f[t]
      OBVIOUS
    <3>1. /\ q.weight[t] * Here(t).score \in Nat
          /\ Score(t, c) <= q.weight[t] * Here(t).score
      BY <1>1, <1>2, HereFacts
    <3> QED BY <2>1, <3>1
  <2>3. ScoreOver(S, c) <= SumFunctionOnSet(f, S)
    BY <1>2, <2>2, ScoreBounded
  <2>4. IsFiniteSet(S)
    BY TermAssumption, FS_Subset
  <2>5. SumFunctionOnSet(f, S) \in Nat
    BY <2>2, <2>4, SumNat
  <2> QED BY <2>1, <2>3, <2>5 DEF BoundHere
<1>9. ASSUME NEW S \in SUBSET Term PROVE ScoreOver(S, c) <= SumOfBounds(S) /\ SumOfBounds(S) \in Nat
  <2>1. PICK f : f = max_score
    OBVIOUS
  <2>2. \A t \in S : f[t] \in Nat /\ Score(t, c) <= f[t]
    BY <1>2, <2>1
  <2>3. ScoreOver(S, c) <= SumFunctionOnSet(f, S)
    BY <1>2, <2>2, ScoreBounded
  <2> QED BY <1>2, <2>1, <2>3, SumOfBoundsFacts DEF SumOfBounds
<1>10. ASSUME NEW p \in 1..(n + 1)
       PROVE  /\ TermsAt(1, p - 1) \in SUBSET Term /\ TermsAt(p, n) \in SUBSET Term
              /\ L = TermsAt(1, p - 1) \cup TermsAt(p, n)
  <2>1. p \in Nat \ {0} /\ p - 1 \in 0..Cardinality(Term)
    BY <1>2
  <2>2. \A i \in 1..n : i \in 1..(p - 1) \/ i \in p..n
    BY <1>2, <2>1
  <2>3. (\A i \in 1..(p - 1) : i \in 1..n) /\ (\A i \in p..n : i \in 1..n)
    BY <1>2, <2>1
  <2> QED BY <1>1, <1>2, <2>1, <2>2, <2>3 DEF TermsAt
<1>11. ASSUME NEW p \in 1..(n + 1)
       PROVE  /\ FullScore(c) <= BoundWithBlocks(p) /\ BoundWithBlocks(p) \in Nat
              /\ FullScore(c) <= ScoreWithLists(p) /\ ScoreWithLists(p) \in Nat
  <2>1. PICK A, B : A = TermsAt(1, p - 1) /\ B = TermsAt(p, n)
    OBVIOUS
  <2>2. A \in SUBSET Term /\ B \in SUBSET Term /\ L = A \cup B
    BY <1>10, <2>1
  <2>3. /\ ScoreOver(L, c) <= ScoreOver(A, c) + ScoreOver(B, c)
        /\ ScoreOver(A, c) \in Nat /\ ScoreOver(B, c) \in Nat
    BY <1>2, <2>2, ScoreOfUnion
  <2>4. /\ ScoreOver(A, c) <= SumOfBounds(A) /\ SumOfBounds(A) \in Nat
        /\ ScoreOver(A, c) <= BoundHere(A) /\ BoundHere(A) \in Nat
        /\ ScoreOver(B, c) <= BoundHere(B) /\ BoundHere(B) \in Nat
    BY <1>8, <1>9, <2>2
  <2>5. BoundWithBlocks(p) = ScoreOver(E, c) + SumOfBounds(A) + BoundHere(B)
    BY <1>1, <1>4, <2>1 DEF BoundWithBlocks
  <2>6. ScoreWithLists(p) = ScoreOver(E, c) + BoundHere(A) + ScoreOver(B, c)
    <3>1. ScoreWithLists(p) = ScoreOver(E, c) + BoundHere(A)
                              + ScoreOver({t \in B : NextGeq(t, c) = c}, c)
      BY <1>1, <1>4, <2>1 DEF ScoreWithLists
    <3> QED BY <1>7, <2>2, <3>1
  <2> QED BY <1>3, <1>4, <1>5, <2>3, <2>4, <2>5, <2>6
<1>12. ScoreWithLists(1) = FullScore(c)
  <2>1. TermsAt(1, 1 - 1) = {} /\ TermsAt(1, n) = L
    BY <1>1 DEF TermsAt
  <2>2. BoundHere({}) = 0
    <3>1. PICK f : f = [t \in {} |-> q.weight[t] * Here(t).score]
      OBVIOUS
    <3>2. SumFunctionOnSet(f, {}) = 0
      BY TermAssumption, SumUnfolds
    <3> QED BY <3>1, <3>2 DEF BoundHere
  <2>3. ScoreWithLists(1) = ScoreOver(E, c) + 0 + ScoreOver({t \in L : NextGeq(t, c) = c}, c)
    BY <1>1, <1>4, <2>1, <2>2 DEF ScoreWithLists
  <2>4. ScoreOver({t \in L : NextGeq(t, c) = c}, c) = ScoreOver(L, c)
    BY <1>2, <1>7
  <2> QED BY <1>3, <1>4, <1>5, <2>3, <2>4
<1>13. ASSUME Hindered PROVE ~WouldEnter(FullScore(c))
  <2>1. PICK p \in 1..n : ~WouldEnter(BoundWithBlocks(p)) \/ ~WouldEnter(ScoreWithLists(p))
    BY <1>1, <1>13 DEF Hindered
  <2>2. p \in 1..(n + 1)
    BY <1>2
  <2> QED BY <1>2, <1>3, <1>11, <2>1, <2>2 DEF WouldEnter
<1> QED BY <1>1, <1>12, <1>13

\* Where the cursors and the blocks are after a step.
LEMMA EvaluationMoves ==
  ASSUME CollectionInv, algorithm = "block_max_maxscore", Iterates, Evaluates
  PROVE  /\ CursorsInLists' /\ docid' \in [Term -> Nat]
         /\ \A t \in Term : docid'[t] >= docid[t]
         /\ \A t \in Term : \A e \in Docs(t) :
              docid[t] <= e /\ next_docid < e => docid'[t] <= e
         /\ \A t \in Essential : next_docid' <= docid'[t]
         /\ next_docid' \in Nat /\ next_docid < next_docid' /\ next_docid' <= end
         /\ BlocksMoveUp(next_docid)
<1>1. PICK c, L, E : c = next_docid /\ L = TermsAt(1, first_lookup) /\ E = Essential
  OBVIOUS
<1>2. PICK D \in SUBSET L : \E A \in SUBSET L :
        /\ block' = [t \in Term |-> IF t \in D THEN BlockAtCandidate(t) ELSE block[t]]
        /\ docid' = [t \in Term |-> IF t \in AtCandidate THEN NextPosting(t)
                                    ELSE IF t \in A THEN NextGeq(t, c) ELSE docid[t]]
  BY <1>1 DEF Evaluates
<1>3. PICK A \in SUBSET L :
        /\ block' = [t \in Term |-> IF t \in D THEN BlockAtCandidate(t) ELSE block[t]]
        /\ docid' = [t \in Term |-> IF t \in AtCandidate THEN NextPosting(t)
                                    ELSE IF t \in A THEN NextGeq(t, c) ELSE docid[t]]
  BY <1>2
<1>4. /\ q \in Inputs /\ CursorsInLists /\ docid \in [Term -> Nat] /\ c \in Nat
      /\ c < end /\ end \in Nat /\ end <= max_docid /\ max_docid \in Nat
      /\ E \in SUBSET Term /\ L \in SUBSET Term /\ E = Term \ L
      /\ \A t \in E : c <= docid[t]
      /\ UNCHANGED inputVars /\ \A t : Docs(t)' = Docs(t)
  <2>1. /\ pc = "doc" /\ c < end /\ UNCHANGED inputVars
    BY <1>1 DEF Iterates, StayInRange
  <2> QED BY <1>1, <2>1, BlockMaxMaxScoreFacts, SameCall DEF Essential
<1>5. ASSUME NEW t \in Term
      PROVE  /\ docid'[t] \in Nat /\ docid'[t] \in Docs(t) \cup {max_docid}
             /\ docid'[t] >= docid[t]
             /\ \A e \in Docs(t) : docid[t] <= e /\ c < e => docid'[t] <= e
             /\ t \in E => docid'[t] > c
  <2>1. docid[t] \in Nat /\ docid[t] <= max_docid /\ docid[t] \in Docs(t) \cup {max_docid}
    BY <1>4, NextFacts DEF CursorsInLists
  <2>2. \A e \in Docs(t) : e \in Nat
    BY <1>4, CallTypes, DocAssumption
  <2>3. CASE t \in AtCandidate
    <3>1. docid'[t] = NextPosting(t) /\ docid[t] = c
      BY <1>1, <1>3, <2>3 DEF AtCandidate
    <3>2. /\ NextPosting(t) \in Nat /\ NextPosting(t) \in Docs(t) \cup {max_docid}
          /\ docid[t] < max_docid => docid[t] < NextPosting(t)
          /\ \A e \in Docs(t) : docid[t] < e => NextPosting(t) <= e
      BY <1>4, NextFacts
    <3> QED BY <1>4, <2>2, <3>1, <3>2
  <2>4. CASE t \notin AtCandidate /\ t \in A
    <3>1. docid'[t] = NextGeq(t, c) /\ t \notin E
      BY <1>3, <1>4, <2>4
    <3>2. /\ NextGeq(t, c) \in Nat /\ NextGeq(t, c) \in Docs(t) \cup {max_docid}
          /\ docid[t] <= NextGeq(t, c)
          /\ \A e \in Docs(t) : c <= e /\ docid[t] <= e => NextGeq(t, c) <= e
      BY <1>4, NextFacts
    <3> QED BY <1>4, <2>1, <2>2, <3>1, <3>2
  <2>5. CASE t \notin AtCandidate /\ t \notin A
    <3>1. docid'[t] = docid[t]
      BY <1>3, <2>5
    <3>2. t \in E => docid[t] # c
      BY <1>1, <2>5 DEF AtCandidate
    <3> QED BY <1>4, <2>1, <3>1, <3>2
  <2> QED BY <2>3, <2>4, <2>5
<1>6. docid' \in [Term -> Nat]
  BY <1>3, <1>5
<1>7. CursorsInLists'
  BY <1>4, <1>5, <1>6 DEF CursorsInLists
<1>8. /\ next_docid' \in Nat /\ c < next_docid' /\ next_docid' <= end
      /\ \A t \in E : next_docid' <= docid'[t]
  <2>1. PICK S : S = {end} \cup {docid'[t] : t \in E}
    OBVIOUS
  <2>2. next_docid' = Min(S)
    BY <1>1, <2>1 DEF Evaluates
  <2>3. S \in SUBSET Nat /\ S # {} /\ \A n \in S : c < n
    BY <1>4, <1>5, <2>1
  <2>4. Min(S) \in S /\ \A n \in S : Min(S) <= n
    BY <2>3, MinOfNaturals
  <2> QED BY <1>4, <2>1, <2>2, <2>3, <2>4
<1>9. BlocksMoveUp(c)
  <2>1. D \in SUBSET Term
    BY <1>4
  <2> QED BY <1>1, <1>3, <2>1 DEF BlocksMoveUp, BlockAtCandidate
<1> QED BY <1>1, <1>5, <1>6, <1>7, <1>8, <1>9

\* The candidate has been evaluated in an earlier range: it does not enter again.
LEMMA EvaluatedAgain ==
  ASSUME CollectionInv, algorithm = "block_max_maxscore", Iterates, Evaluates,
         NEW h \in 0..max_docid, ReachedUpTo(h), next_docid < h
  PROVE  UNCHANGED queueVars /\ ReachedUpTo(h)'
<1>1. PICK c : c = next_docid
  OBVIOUS
<1>2. /\ pc = "doc" /\ UNCHANGED inputVars /\ UNCHANGED <<inputVars, processed, algorithm>>
      /\ UNCHANGED max_score
  BY DEF Iterates, StayInRange, loopVars
<1>3. /\ q \in Inputs /\ CursorsInLists /\ docid \in [Term -> Nat] /\ c \in Nat
      /\ m_threshold \in Nat /\ max_docid \in Nat /\ Doc = 0..(max_docid - 1)
      /\ first_lookup \in Nat /\ (first_lookup = 0 => TermsAt(1, first_lookup) = {})
      /\ CollectionState /\ \A t \in Essential : c <= docid[t]
      /\ h \in Nat /\ c < h /\ h <= max_docid
  BY <1>1, <1>2, BlockMaxMaxScoreFacts
<1>4. first_lookup = 0 /\ Essential = Term
  <2>1. first_lookup = 0
    BY <1>1, <1>3 DEF ReachedUpTo
  <2> QED BY <1>3, <2>1 DEF Essential
<1>5. AtCandidate = UpTo(c)
  BY <1>1, <1>3, <1>4 DEF AtCandidate, UpTo
<1>6. ~Hindered
  BY <1>4 DEF Hindered
<1>7. PICK s : s = ScoreWithLists(1)
  OBVIOUS
<1>8. s = ScoreOver(UpTo(c), c)
  <2>1. PICK U : U = UpTo(c)
    OBVIOUS
  <2>2. TermsAt(1, 1 - 1) = {} /\ TermsAt(1, first_lookup) = {}
    BY <1>3, <1>4 DEF TermsAt
  <2>3. BoundHere({}) = 0
    <3>1. PICK f : f = [t \in {} |-> q.weight[t] * Here(t).score]
      OBVIOUS
    <3>2. SumFunctionOnSet(f, {}) = 0
      BY TermAssumption, SumUnfolds
    <3> QED BY <3>1, <3>2 DEF BoundHere
  <2>4. {t \in {} : NextGeq(t, next_docid) = next_docid} = {}
    OBVIOUS
  <2>5. ScoreOver({}, c) = 0
    <3>1. {} \in SUBSET Term /\ \A t \in {} : c \notin Docs(t)
      OBVIOUS
    <3> QED BY <1>3, <3>1, NoPostingNoScore
  <2>6. EssentialScore = ScoreOver(U, c) /\ ScoreOver(U, c) \in Nat
    <3>1. U \in SUBSET Term
      BY <2>1 DEF UpTo
    <3> QED BY <1>1, <1>3, <1>5, <2>1, <3>1, ScoreOverTerms DEF EssentialScore
  <2>7. s = ScoreOver(U, c) + 0 + 0
    BY <1>1, <1>7, <2>2, <2>3, <2>4, <2>5, <2>6 DEF ScoreWithLists
  <2> QED BY <2>1, <2>6, <2>7
<1>9. ~WouldEnter(s)
  <2>1. c \in Doc
    BY <1>3
  <2> QED BY <1>3, <1>8, <2>1 DEF ReachedUpTo
<1>10. UNCHANGED queueVars
  <2>1. InsertDocument(c, s)
    BY <1>1, <1>6, <1>7 DEF Evaluates
  <2>2. PICK x : x = [score |-> s, docid |-> c, visit |-> processed]
    OBVIOUS
  <2>3. x.score = s /\ Insert(x)
    BY <2>1, <2>2 DEF InsertDocument
  <2> QED BY <1>9, <2>3 DEF Insert, Reject, Push, Replace
<1>11. first_lookup' = 0
  BY <1>4, <1>10 DEF Evaluates
<1>12. /\ \A t \in Term : docid'[t] \in Nat /\ docid'[t] >= docid[t]
       /\ \A t \in Term : \A e \in Docs(t) : docid[t] <= e /\ c < e => docid'[t] <= e
       /\ BlocksMoveUp(c)
  BY <1>1, EvaluationMoves
<1>13. /\ \A e \in Doc : Decided(e) => Decided(e)'
       /\ m_q' = m_q /\ m_threshold' = m_threshold
       /\ \A t : Docs(t)' = Docs(t)
       /\ \A t, d : Score(t, d)' = Score(t, d)
       /\ wdata' = wdata
  BY <1>2, <1>10, QueueKept, SameCall DEF queueVars, inputVars
<1>14. ASSUME NEW e \in Doc, h <= e PROVE Ahead(e)' /\ BlocksAhead(e)'
  <2>1. Ahead(e) /\ BlocksAhead(e) /\ e \in Nat /\ c < e
    BY <1>3, <1>14 DEF ReachedUpTo
  <2>2. Ahead(e)'
    BY <1>12, <1>13, <2>1 DEF Ahead
  <2>3. BlocksAhead(e)'
    BY <1>3, <1>12, <1>13, <2>1, BlocksMoveUpFacts
  <2> QED BY <2>2, <2>3
<1>15. ASSUME NEW e \in Doc, e < h PROVE Decided(e)' /\ ~WouldEnter(ScoreOver(UpTo(e), e))'
  <2>1. Decided(e) /\ ~WouldEnter(ScoreOver(UpTo(e), e)) /\ e \in Nat
    BY <1>3, <1>15 DEF ReachedUpTo
  <2>2. PICK U, V : U = UpTo(e) /\ V = UpTo(e)'
    OBVIOUS
  <2>3. U \in SUBSET Term /\ V \in SUBSET U
    <3>1. \A t \in Term : docid[t] \in Nat
      BY <1>3
    <3> QED BY <1>12, <2>1, <2>2, <3>1 DEF UpTo
  <2>4. /\ ScoreOver(V, e) <= ScoreOver(U, e)
        /\ ScoreOver(V, e) \in Nat /\ ScoreOver(U, e) \in Nat
    BY <1>3, <2>3, ScoreOverMonotonic, ScoreOverTerms
  <2>5. ScoreOver(V, e)' = ScoreOver(V, e)
    BY <1>13 DEF ScoreOver
  <2>6. ~WouldEnter(ScoreOver(V, e))
    BY <1>3, <2>1, <2>2, <2>4 DEF WouldEnter
  <2>7. ~WouldEnter(ScoreOver(UpTo(e), e))'
    BY <1>13, <2>2, <2>5, <2>6 DEF WouldEnter
  <2> QED BY <1>13, <2>1, <2>7
<1>16. \A en \in m_q' : en.docid < h
  BY <1>13 DEF ReachedUpTo
<1> QED BY <1>10, <1>11, <1>14, <1>15, <1>16 DEF ReachedUpTo

\* The candidate has not been evaluated before: all is decided up to the next one.
LEMMA EvaluatedFirst ==
  ASSUME CollectionInv, algorithm = "block_max_maxscore", Iterates, Evaluates,
         NEW h \in 0..max_docid, ReachedUpTo(h), h <= next_docid
  PROVE  /\ QueueOK' /\ m_threshold' >= m_threshold /\ m_threshold' \in Nat
         /\ \E x \in 0..max_docid : ReachedUpTo(x)'
         /\ EntersInFull
<1>1. PICK c, L, E, x : /\ c = next_docid /\ L = TermsAt(1, first_lookup) /\ E = Essential
                        /\ x = next_docid'
  OBVIOUS
<1>2. /\ pc = "doc" /\ UNCHANGED inputVars /\ UNCHANGED <<inputVars, processed, algorithm>>
      /\ UNCHANGED <<inputVars, processed>> /\ UNCHANGED max_score /\ c < end
  BY <1>1 DEF Iterates, StayInRange, loopVars
<1>3. /\ q \in Inputs /\ CursorsInLists /\ docid \in [Term -> Nat] /\ c \in Nat
      /\ m_threshold \in Nat /\ max_docid \in Nat /\ Doc = 0..(max_docid - 1)
      /\ end \in Nat /\ end <= max_docid /\ c \in Doc /\ processed \in Nat
      /\ CollectionState /\ Call(Doc) /\ QueueOK
      /\ E \in SUBSET Term /\ L \in SUBSET Term /\ E = Term \ L
      /\ \A t \in E : c <= docid[t]
      /\ h \in Nat /\ h <= c
  <2>1. /\ q \in Inputs /\ CursorsInLists /\ docid \in [Term -> Nat] /\ c \in Nat
        /\ m_threshold \in Nat /\ max_docid \in Nat /\ Doc = 0..(max_docid - 1)
        /\ end \in Nat /\ end <= max_docid /\ processed \in Nat
        /\ CollectionState /\ Call(Doc) /\ QueueOK
        /\ E \in SUBSET Term /\ L \in SUBSET Term /\ E = Term \ L
        /\ \A t \in E : c <= docid[t]
    BY <1>1, <1>2, BlockMaxMaxScoreFacts DEF Essential
  <2> QED BY <1>1, <1>2, <2>1
<1>4. PICK s, D : s = ScoreWithLists(1) /\ D = Doc
  OBVIOUS
<1>5. /\ s = FullScore(c) /\ s \in Nat /\ (Hindered => ~WouldEnter(FullScore(c)))
  <2>1. Ahead(c) /\ BlocksAhead(c)
    BY <1>3 DEF ReachedUpTo
  <2> QED BY <1>1, <1>2, <1>3, <1>4, <2>1, CandidateBounds, FullScoreFacts
<1>6. /\ QueueOK' /\ m_threshold' \in Nat /\ m_threshold' >= m_threshold
      /\ \A en \in m_q' : en \in m_q \/ en.docid = c
      /\ \A e \in Doc : Decided(e) => Decided(e)'
      /\ Decided(c)'
      /\ EntersInFull
  <2>1. CASE Hindered
    <3>1. UNCHANGED queueVars
      BY <2>1 DEF Evaluates
    <3>2. UNCHANGED <<queueVars, inputVars, processed>>
      BY <1>2, <3>1
    <3>3. QueueOK' /\ \A e : Decided(e) <=> Decided(e)'
      BY <1>3, <3>2, QueueKept
    <3>4. Decided(c)
      BY <1>5, <2>1 DEF Decided
    <3>5. m_q' = m_q /\ m_threshold' = m_threshold
      BY <3>1 DEF queueVars
    <3>6. EntersInFull
      BY <3>1 DEF EntersInFull
    <3> QED BY <1>3, <3>3, <3>4, <3>5, <3>6
  <2>2. CASE ~Hindered
    <3>1. InsertDocument(c, s)
      BY <1>1, <1>4, <2>2 DEF Evaluates
    <3>2. \A en \in m_q : en.docid # c
      <4>1. \A en \in m_q : en.docid < h
        BY DEF ReachedUpTo
      <4>2. \A en \in m_q : en.docid \in Nat
        BY <1>3 DEF QueueOK, GoodQueue, Entry
      <4> QED BY <1>3, <4>1, <4>2
    <3>3. /\ QueueOK' /\ m_threshold' >= m_threshold /\ m_threshold' \in Nat
          /\ \A en \in m_q' : en \in m_q \/ (en.docid = c /\ en.visit = processed)
          /\ \A e \in Doc : Decided(e) => Decided(e)'
          /\ s = FullScore(c) => Decided(c)'
      BY <1>2, <1>3, <1>4, <1>5, <3>1, <3>2, InsertStep
    <3>4. EntersInFull
      BY <1>1, <1>3, <1>5, <3>1, <3>2 DEF EntersInFull
    <3> QED BY <1>5, <3>3, <3>4
  <2> QED BY <2>1, <2>2
<1>7. /\ \A t \in Term : docid'[t] \in Nat /\ docid[t] \in Nat /\ docid'[t] >= docid[t]
      /\ \A t \in Term : \A e \in Docs(t) : docid[t] <= e /\ c < e => docid'[t] <= e
      /\ \A t \in E : x <= docid'[t]
      /\ x \in Nat /\ c < x /\ x <= end
      /\ BlocksMoveUp(c)
  BY <1>1, <1>3, EvaluationMoves
<1>8. /\ \A t : Docs(t)' = Docs(t)
      /\ \A t, d : Score(t, d)' = Score(t, d)
      /\ \A d : FullScore(d)' = FullScore(d) /\ wdata' = wdata
  BY <1>2, SameCall DEF inputVars
<1>9. ASSUME NEW e \in Doc, x <= e PROVE Ahead(e)' /\ BlocksAhead(e)'
  <2>1. e \in Nat /\ c < e /\ h <= e
    BY <1>3, <1>7, <1>9
  <2>2. Ahead(e) /\ BlocksAhead(e)
    BY <1>9, <2>1 DEF ReachedUpTo
  <2>3. Ahead(e)'
    BY <1>7, <1>8, <2>1, <2>2 DEF Ahead
  <2>4. BlocksAhead(e)'
    BY <1>3, <1>7, <1>8, <1>9, <2>1, <2>2, BlocksMoveUpFacts
  <2> QED BY <2>3, <2>4
<1>10. ASSUME NEW e \in Doc, NEW S \in SUBSET Term,
              \A t \in S : e \in Docs(t) => t \in L
       PROVE  ScoreOver(S, e) \in Nat /\ ScoreOver(S, e) <= m_threshold
  BY <1>1, <1>2, <1>10, LookupsTooLow
<1>11. ASSUME NEW e \in Doc, e < x
       PROVE  /\ Decided(e)'
              /\ ScoreOver(UpTo(e)', e) \in Nat
              /\ ScoreOver(UpTo(e)', e) <= m_threshold'
  <2>1. PICK U, V : U = UpTo(e) /\ V = UpTo(e)'
    OBVIOUS
  <2>2. U \in SUBSET Term /\ V \in SUBSET U /\ V \in SUBSET Term /\ e \in Nat
        /\ \A t \in Term : (t \in V <=> docid'[t] <= e)
    BY <1>3, <1>7, <2>1 DEF UpTo
  <2>3. /\ ScoreOver(V, e) <= ScoreOver(U, e)
        /\ ScoreOver(V, e) \in Nat /\ ScoreOver(U, e) \in Nat
    BY <1>3, <2>2, ScoreOverMonotonic, ScoreOverTerms
  <2>4. CASE e < h
    <3>1. Decided(e) /\ ~WouldEnter(ScoreOver(U, e))
      BY <1>11, <2>1, <2>4 DEF ReachedUpTo
    <3>2. ScoreOver(V, e) <= m_threshold'
      BY <1>3, <1>6, <2>3, <3>1 DEF WouldEnter
    <3> QED BY <1>6, <2>1, <2>3, <3>1, <3>2
  <2>5. CASE e = c
    <3>1. \A t \in V : t \in L
      BY <1>3, <1>7, <2>2, <2>5
    <3>2. ScoreOver(V, e) <= m_threshold
      BY <1>10, <2>2, <3>1
    <3>3. ScoreOver(V, e) <= m_threshold'
      BY <1>3, <1>6, <2>3, <3>2
    <3> QED BY <1>6, <2>1, <2>3, <2>5, <3>3
  <2>6. CASE ~(e < h) /\ e # c
    <3>1. h <= e /\ Ahead(e)
      BY <1>3, <1>11, <2>2, <2>6 DEF ReachedUpTo
    <3>2. ASSUME NEW t \in Term, e \in Docs(t), t \in E PROVE FALSE
      <4>1. docid[t] <= e /\ docid[t] \in Nat /\ c <= docid[t]
        BY <1>3, <1>7, <3>1, <3>2 DEF Ahead
      <4>2. c < e
        BY <1>3, <2>2, <2>6, <4>1
      <4>3. docid'[t] <= e /\ x <= docid'[t] /\ docid'[t] \in Nat
        BY <1>7, <3>2, <4>1, <4>2
      <4> QED BY <1>7, <1>11, <2>2, <4>3
    <3>3. ScoreOver(Term, e) \in Nat /\ ScoreOver(Term, e) <= m_threshold
      <4>1. \A t \in Term : e \in Docs(t) => t \in L
        BY <1>3, <3>2
      <4> QED BY <1>10, <4>1
    <3>4. Decided(e)
      <4>1. FullScore(e) \in Nat /\ FullScore(e) <= ScoreOver(Term, e)
        BY <1>3, <1>4, FullScoreFacts
      <4> QED BY <1>3, <3>3, <4>1 DEF Decided, WouldEnter
    <3>5. ScoreOver(V, e) <= m_threshold
      <4>1. \A t \in V : e \in Docs(t) => t \in L
        BY <1>3, <2>2, <3>2
      <4> QED BY <1>10, <2>2, <4>1
    <3>6. ScoreOver(V, e) <= m_threshold'
      BY <1>3, <1>6, <2>3, <3>5
    <3> QED BY <1>6, <2>1, <2>3, <3>4, <3>6
  <2> QED BY <2>4, <2>5, <2>6
<1>12. ASSUME NEW e \in Doc, e < x PROVE Decided(e)' /\ ~WouldEnter(ScoreOver(UpTo(e), e))'
  <2>1. PICK V : V = UpTo(e)'
    OBVIOUS
  <2>2. ScoreOver(V, e)' = ScoreOver(V, e)
    BY <1>8 DEF ScoreOver
  <2>3. ~WouldEnter(ScoreOver(UpTo(e), e))'
    BY <1>6, <1>11, <1>12, <2>1, <2>2 DEF WouldEnter
  <2> QED BY <1>11, <1>12, <2>3
<1>13. \A en \in m_q' : en.docid < x
  <2> SUFFICES ASSUME NEW en \in m_q' PROVE en.docid < x
    OBVIOUS
  <2>1. CASE en.docid = c
    BY <1>7, <2>1
  <2>2. CASE en \in m_q
    <3>1. en.docid < h /\ en.docid \in Nat
      BY <1>3, <2>2 DEF ReachedUpTo, QueueOK, GoodQueue, Entry
    <3> QED BY <1>3, <1>7, <3>1
  <2> QED BY <1>6, <2>1, <2>2
<1>14. ReachedUpTo(x)'
  BY <1>1, <1>7, <1>9, <1>12, <1>13 DEF ReachedUpTo
<1>15. x \in 0..max_docid
  BY <1>3, <1>7
<1> QED BY <1>6, <1>14, <1>15

\* block_max_maxscore_query deals with the candidate.
LEMMA CollectionBlockMaxMaxScore ==
  CollectionInv /\ Collection!BlockMaxMaxScore => CollectionInv' /\ GoesOn
<1> SUFFICES ASSUME CollectionInv, Collection!BlockMaxMaxScore PROVE CollectionInv' /\ GoesOn
  OBVIOUS
<1>1. algorithm = "block_max_maxscore" /\ Iterates /\ Evaluates
  BY Evaluation
<1>2. /\ pc = "doc" /\ pc' = "doc" /\ algorithm' = algorithm /\ wdata' = wdata
      /\ UNCHANGED <<order, upper_bounds, max_score>> /\ UNCHANGED <<inputVars, processed>>
      /\ UNCHANGED results
  BY <1>1 DEF Iterates, StayInRange, inputVars, loopVars, Evaluates
<1>3. /\ CollectionState /\ QueueOK /\ m_threshold \in Nat /\ next_docid \in Nat
      /\ algorithm \notin Boolean /\ algorithm \notin Conjunctive
      /\ Cardinality(Term) \in Nat \ {0} /\ Position = 1..Cardinality(Term)
      /\ first_lookup \in 0..Cardinality(Term) /\ first_lookup \in Nat
      /\ upper_bounds = [p \in Position |-> SumOfBounds(TermsAt(1, p))]
      /\ max_score \in [Term -> Nat]
      /\ \A i \in Nat \ {0}, j \in 0..Cardinality(Term) : TermsAt(i, j) \in SUBSET Term
      /\ first_lookup > 0 => SumOfBounds(TermsAt(1, first_lookup)) <= m_threshold
  BY <1>1, <1>2, BlockMaxMaxScoreFacts
<1>4. PICK h \in 0..max_docid : ReachedUpTo(h)
  BY <1>1 DEF CollectionInv, BlockMaxMaxScoreInv
<1>5. /\ QueueOK' /\ m_threshold' >= m_threshold /\ m_threshold' \in Nat
      /\ \E x \in 0..max_docid : ReachedUpTo(x)'
      /\ EntersInFull
  <2>1. CASE h <= next_docid
    BY <1>1, <1>4, <2>1, EvaluatedFirst
  <2>2. CASE ~(h <= next_docid)
    <3>1. next_docid < h
      BY <1>3, <1>4, <2>2, DocAssumption
    <3>2. UNCHANGED queueVars /\ ReachedUpTo(h)'
      BY <1>1, <1>4, <3>1, EvaluatedAgain
    <3>3. QueueOK' /\ m_threshold' = m_threshold
      BY <1>2, <1>3, <3>2, QueueKept DEF queueVars
    <3>4. EntersInFull
      BY <3>2 DEF EntersInFull
    <3> QED BY <1>3, <1>4, <3>2, <3>3, <3>4
  <2> QED BY <2>1, <2>2
<1>6. /\ CursorsInLists' /\ next_docid' \in Nat
      /\ \A t \in Essential : next_docid' <= docid'[t]
      /\ BlocksMoveUp(next_docid)
  BY <1>1, EvaluationMoves
<1>7. /\ first_lookup' \in first_lookup..Cardinality(Term) /\ first_lookup' \in Nat
      /\ first_lookup' \in 0..Cardinality(Term)
      /\ first_lookup' = first_lookup \/ upper_bounds[first_lookup'] <= m_threshold'
  BY <1>1, <1>3 DEF Evaluates
<1>8. CollectionState'
  <2>1. block' \in [Term -> Nat] /\ \A t \in Term : block'[t] \in 1..Len(wdata.blocks[t])
    BY <1>2, <1>3, <1>6, BlocksMoveUpFacts
  <2> QED BY <1>1, <1>5, <1>6, <1>7, <2>1, IterationState
<1>9. ListsInOrder'
  BY <1>1, <1>2, <1>3, <1>6, IterationListsKept
<1>10. \A i, j : TermsAt(i, j)' = TermsAt(i, j)
  BY <1>2 DEF TermsAt
<1>11. \A S : SumOfBounds(S)' = SumOfBounds(S)
  BY <1>2 DEF SumOfBounds
<1>12. BlockMaxMaxScoreInv'
  <2>1. upper_bounds' = [p \in Position |-> SumOfBounds(TermsAt(1, p))']
    BY <1>2, <1>3, <1>10, <1>11
  <2>2. first_lookup' > 0 => upper_bounds'[first_lookup'] <= m_threshold'
    <3>1. CASE first_lookup' = first_lookup /\ first_lookup' > 0
      <4>1. upper_bounds'[first_lookup'] = SumOfBounds(TermsAt(1, first_lookup))
        BY <1>2, <1>3, <3>1
      <4>2. SumOfBounds(TermsAt(1, first_lookup)) \in Nat
        <5>1. 1 \in Nat \ {0}
          OBVIOUS
        <5>2. TermsAt(1, first_lookup) \in SUBSET Term
          BY <1>3, <5>1
        <5> QED BY <1>3, <5>2, SumOfBoundsFacts
      <4> QED BY <1>3, <1>5, <3>1, <4>1, <4>2
    <3>2. CASE first_lookup' # first_lookup
      BY <1>2, <1>7, <3>2
    <3> QED BY <3>1, <3>2
  <2>3. \A t \in Term \ TermsAt(1, first_lookup') : next_docid' <= docid'[t]
    <3>1. \A i \in 1..first_lookup : i \in 1..first_lookup'
      BY <1>3, <1>7
    <3>2. TermsAt(1, first_lookup) \in SUBSET TermsAt(1, first_lookup')
      BY <3>1 DEF TermsAt
    <3> QED BY <1>6, <3>2 DEF Essential
  <2>4. \A t \in Term \ TermsAt(1, first_lookup)' : next_docid' <= docid'[t]
    BY <1>2, <2>3 DEF TermsAt
  <2> QED BY <1>5, <1>7, <2>1, <2>2, <2>4 DEF BlockMaxMaxScoreInv
<1>13. /\ algorithm' = "block_max_maxscore"
       /\ algorithm' \notin Conjunctive'
  BY <1>1, <1>2, <1>3 DEF Conjunctive, Collection!Conjunctive
<1>14. GoesOn
  BY <1>1, <1>5, EvaluationMoves DEF GoesOn
<1> QED BY <1>8, <1>9, <1>12, <1>13, <1>14 DEF CollectionInv

\* The lists that are only looked up are lists; only block_max_maxscore_query has
\* any.
LookupLists ==
  /\ order \in [Position -> Term]
  /\ first_lookup \in 0..Cardinality(Term)
  /\ algorithm # "block_max_maxscore" => first_lookup = 0

\* The loop over the documents ends; a Boolean query has listed all.
LEMMA LoopEnds ==
  ASSUME CollectionInv, LookupLists, pc = "doc", ~Collection!InLoop, end = max_docid
  PROVE  algorithm \in Boolean => Open = {}
<1> SUFFICES ASSUME algorithm \in Boolean, NEW e \in Open PROVE FALSE
  OBVIOUS
<1>1. algorithm # "block_max_maxscore" /\ (algorithm \in Conjunctive \/ algorithm = "or")
  BY DEF Boolean, Conjunctive, Collection!Boolean, Collection!Conjunctive
<1>2. CollectionState /\ first_lookup = 0
  BY <1>1 DEF CollectionInv, LookupLists
<1>3. /\ Cardinality(Term) \in Nat \ {0} /\ next_docid \in Nat /\ end \in Nat
      /\ max_docid \in Nat /\ Doc = 0..(max_docid - 1) /\ docid \in [Term -> Nat]
  BY <1>2, CollectionTypes
<1>4. end <= next_docid
  BY <1>2, <1>3, CollectionSame DEF Collection!InLoop
<1>5. e \in Doc /\ e \in Nat /\ e < max_docid /\ \E t \in Term : e \in Docs(t)
  BY <1>2, <1>3, OpenFacts
<1>6. CASE algorithm \in Conjunctive
  <2>1. next_docid <= e
    BY <1>6 DEF CollectionInv, AndInv
  <2> QED BY <1>3, <1>4, <1>5, <2>1
<1>7. CASE algorithm = "or"
  <2>1. Ahead(e) /\ \A t \in Term : next_docid <= docid[t]
    BY <1>5, <1>7 DEF CollectionInv, OrInv
  <2>2. PICK t \in Term : e \in Docs(t)
    BY <1>5
  <2>3. docid[t] <= e /\ next_docid <= docid[t] /\ docid[t] \in Nat
    BY <1>3, <2>1, <2>2 DEF Ahead
  <2> QED BY <1>3, <1>4, <1>5, <2>3
<1> QED BY <1>1, <1>6, <1>7

\* Every step of the algorithms that have operator() only.
LEMMA CollectionStep ==
  ASSUME CollectionInv, LookupLists, Collection!Next
  PROVE  CollectionInv'
<1>1. CASE Collection!NextRange
  <2>1. /\ pc = "doc" /\ pc' = "setup" /\ end < max_docid /\ end' = Collection!NextEnd(end)
        /\ Collection!StayInRange
        /\ UNCHANGED <<Collection!queueVars, Collection!cursorVars>>
        /\ UNCHANGED <<algorithm, block, order, upper_bounds, first_lookup, next_docid,
                       candidate_list, results>>
    BY <1>1 DEF Collection!NextRange
  <2>2. /\ UNCHANGED <<queueVars, cursorVars>> /\ UNCHANGED <<inputVars, processed>>
        /\ range' = range
    BY <2>1, CollectionSame DEF queueVars, cursorVars, Collection!queueVars,
       Collection!cursorVars, StayInRange, loopVars
  <2>3. /\ CollectionState /\ max_docid \in Nat /\ end \in Nat /\ q.range_size \in Nat
    BY CollectionTypes, CallTypes DEF CollectionInv
  <2>4. end' \in 0..max_docid
    BY <2>1, <2>3 DEF Collection!NextEnd
  <2>5. algorithm \notin Boolean
    BY <2>1, <2>3 DEF CollectionInv, ListsInOrder
  <2> QED BY <2>1, <2>2, <2>4, <2>5, CollectionKept
<1>2. CASE Collection!EndOfCall
  <2>1. /\ pc = "doc" /\ ~Collection!InLoop /\ end = max_docid
        /\ Collection!LeaveRange("end")
        /\ UNCHANGED <<Collection!queueVars, Collection!cursorVars>>
        /\ UNCHANGED <<algorithm, block, order, upper_bounds, first_lookup, next_docid,
                       candidate_list, end, results>>
    BY <1>2 DEF Collection!EndOfCall, Collection!collectionVars
  <2>2. LeaveRange("end") /\ UNCHANGED <<queueVars, cursorVars>>
    BY <2>1, CollectionSame DEF queueVars, cursorVars, Collection!queueVars,
       Collection!cursorVars
  <2>3. pc' = "done" /\ UNCHANGED <<inputVars, processed>>
    BY <2>2 DEF LeaveRange, Full, CollectionInv, CollectionState
  <2>4. algorithm \in Boolean => Open = {}
    BY <2>1, LoopEnds
  <2> QED BY <2>1, <2>2, <2>3, <2>4, CollectionKept
<1>3. CASE Collection!Finished /\ UNCHANGED Collection!collectionVars
  <2>1. UNCHANGED <<Collection!rangeVars, Collection!collectionVars>>
    BY <1>3 DEF Collection!Finished
  <2>2. /\ UNCHANGED <<queueVars, inputVars, cursorVars, processed, algorithm, block, order,
                       upper_bounds, first_lookup, next_docid, candidate_list, results>>
        /\ UNCHANGED <<pc, range, end>>
    BY <2>1 DEF Collection!rangeVars, Collection!collectionVars, Collection!queueVars,
       Collection!inputVars, Collection!cursorVars, Collection!loopVars,
       queueVars, inputVars, cursorVars
  <2> QED BY <2>2, CollectionKept
<1> QED BY <1>1, <1>2, <1>3, CollectionSetUp, CollectionOr, CollectionAnd, CollectionBlockMaxAnd,
           CollectionBlockMaxMaxScore DEF Collection!Next

\* And what it does to the lists that are only looked up.
LEMMA LookupListsStep ==
  ASSUME CollectionInv, LookupLists, Collection!Next
  PROVE  LookupLists'
<1>1. CASE Collection!SetUp
  <2>1. /\ \E o \in [Collection!Position -> Term] : order' = o
        /\ first_lookup' = 0 /\ algorithm' = algorithm
    BY <1>1 DEF Collection!SetUp
  <2>2. Cardinality(Term) \in Nat \ {0}
    BY TermAssumption, FS_CardinalityType, FS_EmptySet
  <2> QED BY <2>1, <2>2, CollectionSame DEF LookupLists
<1>2. CASE Collection!Or \/ Collection!And \/ Collection!BlockMaxAnd
  <2>1. UNCHANGED <<order, first_lookup, algorithm>>
    BY <1>2 DEF Collection!Or, Collection!And, Collection!BlockMaxAnd, Collection!Iteration
  <2> QED BY <2>1 DEF LookupLists
<1>3. CASE Collection!BlockMaxMaxScore
  <2>1. algorithm = "block_max_maxscore" /\ Iterates /\ Evaluates
    BY <1>3, Evaluation
  <2>2. /\ UNCHANGED <<order, algorithm>>
        /\ first_lookup' \in first_lookup..Cardinality(Term)
    BY <2>1 DEF Iterates, Evaluates
  <2>3. Cardinality(Term) \in Nat
    BY TermAssumption, FS_CardinalityType
  <2> QED BY <2>1, <2>2, <2>3 DEF LookupLists
<1>4. CASE Collection!NextRange \/ Collection!EndOfCall
           \/ (Collection!Finished /\ UNCHANGED Collection!collectionVars)
  <2>1. UNCHANGED <<order, first_lookup, algorithm>>
    BY <1>4 DEF Collection!NextRange, Collection!EndOfCall, Collection!collectionVars
  <2> QED BY <2>1 DEF LookupLists
<1> QED BY <1>1, <1>2, <1>3, <1>4 DEF Collection!Next

\* The algorithms of CollectionQuery.
Lone == algorithm \notin {"wand", "block_max_wand", "maxscore"}

\* Or-queries, and-queries and block_max_maxscore_query pass over no document that
\* could still enter, or that a Boolean query has to list.
THEOREM CollectionCorrect == Spec => [](Lone => CollectionInv /\ LookupLists)
<1>1. Init => (Lone => CollectionInv /\ LookupLists)
  <2> SUFFICES ASSUME Init, Lone PROVE CollectionInv /\ LookupLists
    OBVIOUS
  <2>1. Collection!Init
    BY DEF Init, Lone
  <2>2. LookupLists
    <3>1. (CHOOSE t \in Term : TRUE) \in Term
      BY TermAssumption
    <3>2. Cardinality(Term) \in Nat
      BY TermAssumption, FS_CardinalityType
    <3> QED BY <2>1, <3>1, <3>2, CollectionSame DEF Collection!Init, LookupLists
  <2> QED BY <2>1, <2>2, CollectionInit
<1>2. (Lone => CollectionInv /\ LookupLists) /\ [Next]_vars
      => (Lone => CollectionInv /\ LookupLists)'
  <2> SUFFICES ASSUME Lone => CollectionInv /\ LookupLists, [Next]_vars, Lone'
               PROVE  CollectionInv' /\ LookupLists'
    OBVIOUS
  <2>1. Lone /\ CollectionInv /\ LookupLists
    BY AlgorithmFixed DEF Lone
  <2>2. CASE Next
    <3>1. Collection!Next
      BY <2>1, <2>2 DEF Next, wand_query, block_max_wand_query, maxscore_query, other_query, Lone
    <3> QED BY <2>1, <3>1, CollectionStep, LookupListsStep
  <2>3. CASE UNCHANGED vars
    <3>1. /\ UNCHANGED <<queueVars, inputVars, cursorVars, processed, algorithm, block, order,
                         upper_bounds, first_lookup, next_docid, candidate_list, results>>
          /\ UNCHANGED <<pc, range, end>>
      BY <2>3 DEF vars, rangeVars, scoreVars, loneVars, loopVars
    <3>2. CollectionInv'
      BY <2>1, <3>1, CollectionKept
    <3> QED BY <2>1, <3>1, <3>2 DEF LookupLists
  <2> QED BY <2>2, <2>3
<1> QED BY <1>1, <1>2, PTL DEF Spec

\* A Boolean query lists what it asks for, in order and once.
THEOREM BooleanAnswersRight == Spec => []BooleanAnswer
<1>1. (Lone => CollectionInv /\ LookupLists) => BooleanAnswer
  <2> SUFFICES ASSUME Lone => CollectionInv, pc = "done", algorithm \in Collection!Boolean
               PROVE  /\ {results[i].docid : i \in DOMAIN results} =
                           IF algorithm = "or" THEN UNION {Collection!Docs(t) : t \in Term}
                                               ELSE Collection!Conjunction
                      /\ \A i, j \in DOMAIN results : i < j => results[i].docid < results[j].docid
                      /\ algorithm = "scored_and" =>
                           \A i \in DOMAIN results :
                             results[i].score = Collection!ScoreOver(Term, results[i].docid)
    BY DEF BooleanAnswer, Collection!BooleanAnswer
  <2>1. Lone /\ algorithm \in Boolean /\ algorithm \in {"or", "and", "scored_and"}
    BY DEF Lone, Boolean, Collection!Boolean
  <2>2. CollectionInv
    BY <2>1
  <2>3. PICK r : r = results
    OBVIOUS
  <2>4. /\ r \in Seq([docid : Wanted, score : Nat])
        /\ \A i, j \in 1..Len(r) : i < j => r[i].docid < r[j].docid
        /\ algorithm = "scored_and" =>
             \A i \in 1..Len(r) : r[i].score = ScoreOver(Term, r[i].docid)
        /\ Open = {}
    BY <2>1, <2>2, <2>3 DEF CollectionInv, ListsInOrder
  <2>5. DOMAIN r = 1..Len(r) /\ \A i \in 1..Len(r) : r[i].docid \in Wanted
    <3>1. PICK W, R : W = Wanted /\ R = [docid : W, score : Nat]
      OBVIOUS
    <3>2. r \in Seq(R)
      BY <2>4, <3>1
    <3>3. DOMAIN r = 1..Len(r) /\ \A i \in 1..Len(r) : r[i] \in R
      BY <3>2
    <3>4. \A x \in R : x.docid \in W
      BY <3>1
    <3> QED BY <3>1, <3>3, <3>4
  <2>6. Wanted \in SUBSET Listed /\ Listed \in SUBSET Wanted
    <3>1. \A i \in 1..Len(r) : r[i].docid \in Wanted
      BY <2>5
    <3> QED BY <2>1, <2>3, <2>4, <3>1 DEF Open, Listed
  <2>7. Wanted = IF algorithm = "or" THEN UNION {Docs(t) : t \in Term} ELSE WithEveryTerm
    BY <2>1 DEF Wanted, Conjunctive, Collection!Conjunctive
  <2>8. /\ UNION {Collection!Docs(t) : t \in Term} = UNION {Docs(t) : t \in Term}
        /\ Collection!Conjunction = WithEveryTerm
    BY DEF Collection!Docs, Docs, Collection!Conjunction, WithEveryTerm
  <2> QED BY <2>3, <2>4, <2>5, <2>6, <2>7, <2>8, CollectionSame DEF Listed
<1> QED BY <1>1, CollectionCorrect, PTL

\* Before the candidate everything is decided.
LEMMA CollectionComplete ==
  ASSUME CollectionInv, pc = "doc", NEW e \in Doc, e < next_docid
  PROVE  Decided(e)
<1>1. /\ CollectionState /\ docid \in [Term -> Nat] /\ next_docid \in Nat /\ e \in Nat
      /\ m_threshold \in Nat
  BY CollectionTypes DEF CollectionInv
<1>2. CASE algorithm \in {"ranked_or", "or"}
  <2>1. /\ Ahead(e) \/ e \notin Open
        /\ \A t \in Term : next_docid <= docid[t]
    BY <1>2 DEF CollectionInv, OrInv
  <2>2. ASSUME e \in Open PROVE FALSE
    <3>1. PICK t \in Term : e \in Docs(t)
      BY <1>1, <2>2, OpenFacts
    <3>2. docid[t] <= e /\ next_docid <= docid[t] /\ docid[t] \in Nat
      BY <1>1, <2>1, <2>2, <3>1 DEF Ahead
    <3> QED BY <1>1, <3>2
  <2> QED BY <1>1, <2>2, OpenFacts
<1>3. CASE algorithm \in Conjunctive
  <2>1. \A d \in Open : next_docid <= d
    BY <1>3 DEF CollectionInv, AndInv
  <2>2. e \notin Open
    BY <1>1, <2>1
  <2> QED BY <1>1, <2>2, OpenFacts
<1>4. CASE algorithm = "block_max_maxscore"
  <2>1. /\ Call(Doc) /\ q \in Inputs /\ \A t \in Essential : next_docid <= docid[t]
    BY <1>4, BlockMaxMaxScoreFacts
  <2>2. PICK h \in 0..max_docid : ReachedUpTo(h)
    BY <1>4 DEF CollectionInv, BlockMaxMaxScoreInv
  <2>3. CASE e < h
    BY <2>2, <2>3 DEF ReachedUpTo
  <2>4. CASE ~(e < h)
    <3>1. Ahead(e)
      BY <1>1, <2>2, <2>4, DocAssumption DEF ReachedUpTo
    <3>2. ASSUME NEW t \in Term, e \in Docs(t) PROVE t \in TermsAt(1, first_lookup)
      <4>1. docid[t] <= e /\ docid[t] \in Nat
        BY <1>1, <3>1, <3>2 DEF Ahead
      <4>2. t \notin Essential
        BY <1>1, <2>1, <4>1
      <4> QED BY <4>2 DEF Essential
    <3>3. ScoreOver(Term, e) \in Nat /\ ScoreOver(Term, e) <= m_threshold
      BY <1>4, <3>2, LookupsTooLow
    <3>4. FullScore(e) \in Nat /\ FullScore(e) <= ScoreOver(Term, e)
      <4>1. PICK D : D = Doc
        OBVIOUS
      <4> QED BY <2>1, <4>1, FullScoreFacts
    <3> QED BY <1>1, <3>3, <3>4 DEF Decided, WouldEnter
  <2> QED BY <2>3, <2>4
<1>5. algorithm \in {"ranked_or", "or"} \/ algorithm \in Conjunctive
      \/ algorithm = "block_max_maxscore"
  BY <1>1 DEF CollectionState, Collection!Disjunctive
<1> QED BY <1>2, <1>3, <1>4, <1>5

\* The algorithms that go from candidate to candidate pass over no document before
\* the next one.
THEOREM NoCandidateSkipped == Spec => []CandidatesComplete
<1>1. /\ (algorithm = "maxscore" => MaxScoreInv)
      /\ (Lone => CollectionInv /\ LookupLists)
      => CandidatesComplete
  <2> SUFFICES ASSUME algorithm = "maxscore" => MaxScoreInv, Lone => CollectionInv,
                      algorithm \notin {"wand", "block_max_wand"}, pc = "doc",
                      NEW e \in Scope(range), e < next_docid
               PROVE  Decided(e)
    BY DEF CandidatesComplete, MaxScore!CandidatesComplete, MaxScore!SettledBelow,
           MaxScore!Scope, Scope, MaxScore!InRange, InRange, MaxScore!InResult, InResult,
           MaxScore!FullScore, FullScore, MaxScore!WouldEnter, WouldEnter, Decided
  <2>1. e \in Doc
    BY DEF Scope
  <2>2. CASE algorithm = "maxscore"
    BY <2>2 DEF MaxScoreInv, EvaluatesRange
  <2>3. CASE Lone
    BY <2>1, <2>3, CollectionComplete
  <2> QED BY <2>2, <2>3 DEF Lone
<1> QED BY <1>1, MaxScoreCorrect, CollectionCorrect, PTL

\* A list that has not passed any document from c on is asked for the same, whether
\* its cursor may go back or not.
LEMMA NoWayBack ==
  ASSUME q \in Inputs, CursorsInLists, NEW t \in Term, NEW c \in Nat,
         \A e \in Docs(t) : c <= e => docid[t] <= e
  PROVE  NextGeq(t, c) = Geq(t, c)
<1>1. /\ docid[t] \in Nat /\ docid[t] \in Docs(t) \cup {max_docid} /\ docid[t] <= max_docid
      /\ max_docid \in Nat /\ \A e \in Docs(t) : e \in Nat /\ e < max_docid
  <2>1. docid[t] \in Nat /\ docid[t] <= max_docid
    BY NextFacts
  <2>2. Docs(t) \in SUBSET Doc
    BY CallTypes
  <2>3. docid[t] \in Docs(t) \cup {max_docid}
    BY DEF CursorsInLists
  <2> QED BY <2>1, <2>2, <2>3, DocAssumption
<1>2. CASE docid[t] <= c
  BY <1>1, <1>2, MaxOfTwo DEF NextGeq
<1>3. CASE ~(docid[t] <= c)
  <2>1. NextGeq(t, c) = Geq(t, docid[t])
    BY <1>1, <1>3, MaxOfTwo DEF NextGeq
  <2>2. PICK g, m : g = Geq(t, c) /\ m = Geq(t, docid[t])
    OBVIOUS
  <2>3. /\ g \in Docs(t) \cup {max_docid} /\ g \in Nat
        /\ c <= max_docid => c <= g
        /\ \A e \in Docs(t) : c <= e => g <= e
        /\ g <= max_docid
    BY <2>2, GeqFacts
  <2>4. /\ m \in Docs(t) \cup {max_docid} /\ m \in Nat /\ docid[t] <= m
        /\ docid[t] \in Docs(t) => m = docid[t]
    BY <1>1, <2>2, GeqFacts
  <2>5. c <= max_docid
    BY <1>1, <1>3
  <2>6. CASE docid[t] \in Docs(t)
    <3>1. m = docid[t] /\ g <= docid[t]
      BY <1>1, <1>3, <2>3, <2>4, <2>6
    <3>2. g # max_docid
      BY <1>1, <2>3, <2>6, <3>1
    <3>3. g \in Docs(t) /\ c <= g
      BY <2>3, <2>5, <3>2
    <3>4. docid[t] <= g
      BY <3>3
    <3> QED BY <1>1, <2>1, <2>2, <2>3, <3>1, <3>4
  <2>7. CASE docid[t] \notin Docs(t)
    <3>1. docid[t] = max_docid /\ m = max_docid
      BY <1>1, <2>4, <2>7
    <3>2. ASSUME g \in Docs(t) PROVE FALSE
      <4>1. c <= g
        BY <2>3, <2>5
      <4>2. docid[t] <= g
        BY <3>2, <4>1
      <4> QED BY <1>1, <3>1, <3>2, <4>2
    <3>3. g = max_docid
      BY <2>3, <3>2
    <3> QED BY <2>1, <2>2, <3>1, <3>3
  <2> QED BY <2>6, <2>7
<1> QED BY <1>2, <1>3

\* Lists that are only looked up are asked for documents before that of their
\* cursor, and never for one at which there is a posting to go back to.
THEOREM LookupsNeverGoBack == Spec => []LookupsIndifferent
<1>1. /\ (algorithm = "maxscore" => MaxScoreInv)
      /\ (Lone => CollectionInv /\ LookupLists)
      => LookupsIndifferent
  <2> SUFFICES ASSUME algorithm = "maxscore" => MaxScoreInv,
                      Lone => CollectionInv /\ LookupLists,
                      NEW t,
                      \/ algorithm = "maxscore" /\ MaxScore!HasCandidate /\ t \in MaxScore!LookedUp
                      \/ algorithm = "block_max_maxscore" /\ t \in Collection!ListsLookedUp
               PROVE  NextGeq(t, next_docid) = Geq(t, next_docid)
    <3> DEFINE L == CASE algorithm = "maxscore" /\ MaxScore!HasCandidate -> MaxScore!LookedUp
                      [] algorithm = "block_max_maxscore" -> Collection!ListsLookedUp
                      [] OTHER -> {}
    <3>1. ASSUME NEW t \in L
          PROVE  \/ algorithm = "maxscore" /\ MaxScore!HasCandidate /\ t \in MaxScore!LookedUp
                 \/ algorithm = "block_max_maxscore" /\ t \in Collection!ListsLookedUp
      OBVIOUS
    <3>2. LookupsIndifferent <=> \A t \in L : NextGeq(t, next_docid) = Geq(t, next_docid)
      BY DEF LookupsIndifferent
    <3> HIDE DEF L
    <3> QED BY <3>1, <3>2
  <2>1. CASE algorithm = "maxscore" /\ MaxScore!HasCandidate /\ t \in MaxScore!LookedUp
    <3>1. MaxScoreInv /\ pc = "doc"
      BY <2>1 DEF MaxScore!HasCandidate
    <3>2. /\ q \in Inputs /\ CursorsInLists /\ next_docid \in Nat
          /\ order \in [Position -> Term] /\ Position = 1..Cardinality(Term)
          /\ first_lookup \in 0..Cardinality(Term) /\ Cardinality(Term) \in Nat
          /\ \A d \in Term : Docs(d) \in SUBSET Doc
      BY <3>1, EvaluationFacts, CallTypes
    <3>3. t \in Term
      <4>1. \A i \in (first_lookup + 1)..Cardinality(Term) : i \in Position
        BY <3>2
      <4>2. MaxScore!Cardinality(Term) = Cardinality(Term)
        BY MaxScoreSame
      <4> QED BY <2>1, <3>2, <4>1, <4>2 DEF MaxScore!LookedUp
    <3>4. \A e \in Docs(t) : next_docid <= e => docid[t] <= e
      BY <3>1, <3>2, <3>3 DEF MaxScoreInv, EvaluatesRange, Ahead
    <3> QED BY <3>2, <3>3, <3>4, NoWayBack
  <2>2. CASE algorithm = "block_max_maxscore" /\ t \in Collection!ListsLookedUp
    <3>1. CollectionInv /\ LookupLists
      BY <2>2 DEF Lone
    <3>2. /\ q \in Inputs /\ CursorsInLists /\ next_docid \in Nat
          /\ Position = 1..Cardinality(Term) /\ Cardinality(Term) \in Nat
          /\ first_lookup \in 0..Cardinality(Term) /\ first_lookup \in Nat
          /\ \A d \in Term : Docs(d) \in SUBSET Doc
      BY <3>1, CollectionTypes, CallTypes DEF CollectionInv, LookupLists
    <3>3. t \in TermsAt(1, first_lookup)
      BY <2>2, <3>2, LookedUpAreLookups
    <3>4. t \in Term /\ first_lookup > 0
      BY <3>1, <3>2, <3>3 DEF LookupLists, TermsAt
    <3>5. PICK h \in 0..max_docid : ReachedUpTo(h)
      BY <2>2, <3>1 DEF CollectionInv, BlockMaxMaxScoreInv
    <3>6. h <= next_docid /\ \A e \in Doc : h <= e => Ahead(e)
      BY <3>4, <3>5 DEF ReachedUpTo
    <3>7. ASSUME NEW e \in Docs(t), next_docid <= e PROVE docid[t] <= e
      <4>1. e \in Doc /\ e \in Nat /\ h \in Nat
        BY <3>2, <3>4, <3>7, DocAssumption
      <4>2. Ahead(e)
        BY <3>2, <3>6, <3>7, <4>1
      <4> QED BY <3>4, <4>2 DEF Ahead
    <3> QED BY <3>2, <3>4, <3>7, NoWayBack
  <2> QED BY <2>1, <2>2
<1> QED BY <1>1, MaxScoreCorrect, CollectionCorrect, PTL

-----------------------------------------------------------------------------
(* A query is an anytime search.                                            *)

\* What the loop over the ranges keeps, and that no cursor stands before the range
\* in hand.
SearchInv ==
  /\ q \in Inputs
  /\ todo \in SUBSET Cluster
  /\ processed \in Nat /\ elapsed \in Nat
  /\ pc \in {"select", "setup", "doc", "done"}
  /\ pc = "select" => ~Full
  /\ pc # "done" => cut = FALSE
  /\ q.kind = "ordered" => processed <= Len(q.selected)
  /\ processed = 0 => elapsed = 0
  /\ pc \in {"setup", "doc"} => Full \/ processed > 0
  /\ range.lower \in Nat
  /\ pc \in {"setup", "doc"} => \A t \in Term : docid[t] < max_docid => range.lower <= docid[t]

\* Inside a range a document of it that the queue does not hold may be inserted
\* with its full score, and no cursor goes back.
Evaluating ==
  /\ pc \in {"setup", "doc"} /\ pc' \in {"setup", "doc"}
  /\ StayInRange
  /\ \/ UNCHANGED queueVars
     \/ \E d \in Scope(range) :
          /\ InsertDocument(d, FullScore(d))
          /\ \A en \in m_q : en.docid # d \/ en.visit # processed
  /\ \A t \in Term : docid'[t] >= docid[t]

\* A range is left when everything in it is decided.
Leaving ==
  /\ pc \in {"setup", "doc"}
  /\ \E by : LeaveRange(by)
  /\ UNCHANGED queueVars
  /\ \A e \in Scope(range) : Decided(e)

Searching ==
  \/ \E c \in Cluster : StartRange(c)
  \/ Stop
  \/ Evaluating
  \/ Leaving
  \/ UNCHANGED rangeVars

\* The range of a cluster begins at a document number.
LEMMA RangesBegin == \A c \in Cluster : RangeOf[c].lower \in Nat
<1>1. /\ Cluster = 1..Len(Ends) /\ Len(Ends) \in Nat
      /\ \A e \in Cluster : Ends[e] \in 0..max_docid
      /\ max_docid \in Nat
  BY EndsAssumption, DocAssumption DEF Cluster
<1>2. \A c \in Cluster : RangeOf[c] = [lower |-> IF c = 1 THEN 0 ELSE Ends[c - 1] + 1, upper |-> Ends[c]]
  BY <1>1 DEF RangeOf, AllRanges
<1>3. \A c \in Cluster : c # 1 => c - 1 \in Cluster
  BY <1>1
<1>4. SUFFICES ASSUME NEW c \in Cluster
               PROVE  RangeOf[c].lower \in Nat
  OBVIOUS
<1>5. PICK n : n = IF c = 1 THEN 0 ELSE Ends[c - 1] + 1
  OBVIOUS
<1>6. n \in Nat
  BY <1>1, <1>3, <1>5
<1>7. RangeOf[c] = [lower |-> n, upper |-> Ends[c]]
  BY <1>2, <1>5
<1> QED BY <1>6, <1>7

\* The loop keeps what it keeps.
LEMMA SearchInvKept ==
  ASSUME SearchInv, Searching, docid \in [Term -> Nat], docid' \in [Term -> Nat]
  PROVE  SearchInv'
<1>1. CASE \E c \in Cluster : StartRange(c)
  <2>1. PICK c \in Cluster : StartRange(c)
    BY <1>1
  <2>2. /\ pc' = "setup" /\ todo' = todo \ {c} /\ processed' = processed + 1
        /\ range' = RangeOf[c] /\ docid' = [t \in Term |-> Geq(t, range'.lower)]
        /\ q' = q /\ UNCHANGED <<cut, elapsed>> /\ pc = "select" /\ IsNext(c)
    BY <2>1 DEF StartRange, inputVars
  <2>3. range'.lower \in Nat
    BY <2>2, RangesBegin
  <2>4. \A t \in Term : docid'[t] < max_docid => range'.lower <= docid'[t]
    <3> SUFFICES ASSUME NEW t \in Term, docid'[t] < max_docid
                 PROVE  range'.lower <= docid'[t]
      OBVIOUS
    <3>1. PICK n \in Nat : n = range'.lower
      BY <2>3
    <3>2. docid'[t] = Geq(t, n) /\ q \in Inputs /\ max_docid \in Nat
      BY <2>2, <3>1, DocAssumption DEF SearchInv
    <3>3. n <= max_docid
      BY <3>2, GeqPast
    <3> QED BY <3>1, <3>2, <3>3, GeqFacts
  <2>5. q.kind = "ordered" => processed + 1 <= Len(q.selected)
    <3>1. q.selected \in Seq(Cluster)
      BY CallTypes DEF SearchInv
    <3>2. q.kind = "ordered" => processed < Len(q.selected) /\ Len(q.selected) \in Nat
      BY <2>2, <3>1 DEF IsNext
    <3> QED BY <3>2 DEF SearchInv
  <2> QED BY <2>2, <2>3, <2>4, <2>5 DEF SearchInv
<1>2. CASE Stop
  <2>1. pc' = "done" /\ UNCHANGED <<q, range, todo, processed, elapsed>>
    BY <1>2 DEF Stop, inputVars
  <2> QED BY <2>1 DEF SearchInv
<1>3. CASE Evaluating
  <2>1. /\ pc \in {"setup", "doc"} /\ pc' \in {"setup", "doc"}
        /\ UNCHANGED <<q, range, todo, processed, cut, elapsed>>
        /\ \A t \in Term : docid'[t] >= docid[t]
    BY <1>3 DEF Evaluating, StayInRange, inputVars, loopVars
  <2>2. \A t \in Term : docid'[t] < max_docid => range'.lower <= docid'[t]
    BY <2>1, DocAssumption DEF SearchInv
  <2> QED BY <2>1, <2>2 DEF SearchInv, Full
<1>4. CASE Leaving
  <2>1. /\ pc' = (IF Full THEN "done" ELSE "select") /\ range' = NoRange
        /\ UNCHANGED <<q, todo, processed, cut>>
        /\ elapsed' \in elapsed..MaxElapsed \/ elapsed' = elapsed
        /\ q.kind # "timeout" => elapsed' = elapsed
        /\ pc \in {"setup", "doc"}
    BY <1>4 DEF Leaving, LeaveRange, inputVars
  <2>2. elapsed' \in Nat /\ (processed = 0 => elapsed' = 0)
    BY <2>1 DEF SearchInv, Full
  <2> QED BY <2>1, <2>2 DEF SearchInv, Full, NoRange
<1>5. CASE UNCHANGED rangeVars
  BY <1>5 DEF SearchInv, rangeVars, inputVars, cursorVars, loopVars, Full
<1> QED BY <1>1, <1>2, <1>3, <1>4, <1>5 DEF Searching

\* Among finitely many there is one with the highest value.
LEMMA HighestExists ==
  ASSUME NEW T, IsFiniteSet(T), T # {}, NEW f, \A x \in T : f[x] \in Int
  PROVE  \E a \in T : \A b \in T : f[b] <= f[a]
<1>1. PICK C : C = {A \in SUBSET T : A # {} => \E a \in A : \A b \in A : f[b] <= f[a]}
  OBVIOUS
<1>2. {} \in C
  BY <1>1
<1>3. ASSUME NEW A \in SUBSET T, NEW x \in T \ A, A \in C
      PROVE  A \cup {x} \in C
  <2>1. \E a \in A \cup {x} : \A b \in A \cup {x} : f[b] <= f[a]
    <3>1. CASE A = {}
      BY <3>1
    <3>2. CASE A # {}
      <4>1. PICK a \in A : \A b \in A : f[b] <= f[a]
        BY <1>1, <1>3, <3>2
      <4>2. CASE f[x] <= f[a]
        BY <4>1, <4>2
      <4>3. CASE ~(f[x] <= f[a])
        <5>1. \A b \in A \cup {x} : f[b] <= f[x]
          BY <4>1, <4>3
        <5> QED BY <5>1
      <4> QED BY <4>2, <4>3
    <3> QED BY <3>1, <3>2
  <2> QED BY <1>1, <2>1
<1>4. T \in C
  BY <1>2, <1>3, SetOfSets
<1> QED BY <1>1, <1>4

\* A range is begun as AnytimeSearch begins one.
LEMMA StartIsSearch ==
  ASSUME NEW CONSTANT D, Call(D), NEW c \in Cluster, StartRange(c)
  PROVE  Search!StartRange(c)
<1>1. /\ pc = "select" /\ pc' = "setup" /\ IsNext(c) /\ ~OutOfBudget /\ ~Hopeless(c)
      /\ todo' = todo \ {c} /\ processed' = processed + 1 /\ range' = RangeOf[c]
      /\ UNCHANGED <<m_q, m_threshold, q, corpus, covered, cut>>
  BY DEF StartRange, queueVars, inputVars
<1>2. Scope(range)' = corpus.docsOf[c]
  BY <1>1 DEF Scope, Call, CorpusOver
<1>3. Search!IsNext(c)
  BY <1>1 DEF IsNext, Hopeless, BoundSum, WouldEnter, Search!IsNext, Search!IsBest, Search!Ordered,
              Search!WouldEnter
<1>4. Search!Budget
  BY <1>1 DEF OutOfBudget, Search!Budget
<1> QED BY <1>1, <1>2, <1>3, <1>4 DEF Search!StartRange, Search!queueVars, Search!inputVars

\* The loop ends as in AnytimeSearch: because no range is left that could hold a
\* result, or early.
LEMMA StopIsSearch ==
  ASSUME NEW CONSTANT D, Call(D), SearchInv, m_threshold \in Nat, Stop
  PROVE  Search!StopExhausted \/ Search!StopEarly
<1>1. /\ pc = "select" /\ pc' = "done"
      /\ \A c \in Cluster : IsNext(c) => OutOfBudget \/ Hopeless(c)
      /\ cut' = \E c \in Cluster : IsNext(c) /\ ~Hopeless(c)
      /\ UNCHANGED <<m_q, m_threshold, q, corpus, range, todo, processed, covered>>
  BY DEF Stop, queueVars, inputVars
<1>2. \A c \in Cluster : BoundSum(c) \in Nat
  <2> SUFFICES ASSUME NEW c \in Cluster
               PROVE  BoundSum(c) \in Nat
    OBVIOUS
  <2>1. PICK b : b = [t \in Term |-> RangeBound(t, c)]
    OBVIOUS
  <2>2. b \in [Term -> Nat] /\ \A t \in Term : b[t] = RangeBound(t, c)
    BY <2>1, RangeBoundHolds
  <2> QED BY <2>2, BoundSumBelow
<1>3. q.selected \in Seq(Cluster) /\ q.kind \in Kind /\ ~Full /\ cut = FALSE
  BY <1>1, CallTypes DEF SearchInv
<1>4. Scope(range)' = Scope(range)
  BY <1>1 DEF Scope
<1>5. CASE \E c \in Cluster : IsNext(c) /\ ~Hopeless(c)
  <2>1. PICK c \in Cluster : IsNext(c) /\ ~Hopeless(c)
    BY <1>5
  <2>2. OutOfBudget
    BY <1>1, <2>1
  <2>3. ~Search!Exhausted
    <3>1. CASE q.kind = "ordered"
      BY <2>1, <3>1 DEF IsNext, Search!Exhausted, Search!Ordered
    <3>2. CASE q.kind # "ordered"
      <4>1. c \in todo /\ (\A s \in todo : BoundSum(s) <= BoundSum(c)) /\ BoundSum(c) > m_threshold
        BY <2>1, <3>2 DEF IsNext, Hopeless, WouldEnter
      <4>2. \A r \in todo : BoundSum(c) <= BoundSum(r) => BoundSum(r) > m_threshold
        BY <1>2, <4>1 DEF SearchInv
      <4> QED BY <3>2, <4>1, <4>2 DEF Search!Exhausted, Search!Ordered, Search!IsBest, Search!WouldEnter,
                                 BoundSum
    <3> QED BY <3>1, <3>2
  <2>4. IF q.kind = "timeout" THEN processed > 0 ELSE processed = q.max_clusters
    <3>1. CASE q.kind = "timeout"
      <4>1. elapsed * processed + q.risk * elapsed > q.timeout * processed
        BY <2>2, <3>1 DEF OutOfBudget, OutOfTime
      <4>2. processed = 0 => elapsed = 0
        BY DEF SearchInv
      <4>3. q.risk \in Nat /\ q.timeout \in Nat /\ processed \in Nat
        BY CallTypes DEF SearchInv
      <4> QED BY <3>1, <4>1, <4>2, <4>3
    <3>2. CASE q.kind # "timeout"
      BY <2>2, <3>2 DEF OutOfBudget
    <3> QED BY <3>1, <3>2
  <2>5. cut' = TRUE
    BY <1>1, <1>5
  <2> QED BY <1>1, <1>4, <2>3, <2>4, <2>5 DEF Search!StopEarly, Search!queueVars, Search!inputVars
<1>6. CASE ~\E c \in Cluster : IsNext(c) /\ ~Hopeless(c)
  <2>1. Search!Exhausted
    <3>1. CASE q.kind = "ordered"
      <4>1. Len(q.selected) \in Nat /\ processed \in Nat /\ processed <= Len(q.selected)
        BY <1>3, <3>1 DEF SearchInv
      <4>2. ASSUME processed < Len(q.selected)
            PROVE  FALSE
        <5>1. processed + 1 \in 1..Len(q.selected)
          BY <4>1, <4>2
        <5>2. q.selected[processed + 1] \in Cluster
          BY <1>3, <5>1
        <5> QED BY <1>6, <3>1, <4>2, <5>2 DEF IsNext, Hopeless
      <4>3. processed = Len(q.selected)
        BY <4>1, <4>2
      <4> QED BY <3>1, <4>3 DEF Search!Exhausted, Search!Ordered
    <3>2. CASE q.kind # "ordered"
      <4>1. CASE todo = {}
        BY <3>2, <4>1 DEF Search!Exhausted, Search!Ordered
      <4>2. CASE todo # {}
        <5>1. IsFiniteSet(Cluster) /\ IsFiniteSet(todo)
          <6>1. Cluster = 1..Len(Ends) /\ Len(Ends) \in Nat
            BY EndsAssumption DEF Cluster
          <6>2. IsFiniteSet(Cluster)
            BY <6>1, FS_Interval
          <6> QED BY <6>2, FS_Subset DEF SearchInv
        <5>2. PICK f, T : f = corpus.bound /\ T = todo
          OBVIOUS
        <5>3. IsFiniteSet(T) /\ T # {} /\ \A x \in T : f[x] \in Int
          BY <1>2, <4>2, <5>1, <5>2 DEF SearchInv, BoundSum
        <5>4. PICK a \in T : \A b \in T : f[b] <= f[a]
          BY <5>3, HighestExists
        <5>5. a \in Cluster /\ IsNext(a)
          BY <3>2, <5>2, <5>4 DEF IsNext, BoundSum, SearchInv
        <5>6. ~WouldEnter(corpus.bound[a])
          BY <1>6, <5>5 DEF Hopeless, BoundSum
        <5>7. a \in todo /\ \A s \in todo : corpus.bound[s] <= corpus.bound[a]
          BY <5>2, <5>4
        <5> QED BY <3>2, <5>6, <5>7 DEF Search!Exhausted, Search!Ordered, Search!IsBest, Search!WouldEnter,
                                   WouldEnter
      <4> QED BY <4>1, <4>2
    <3> QED BY <3>1, <3>2
  <2>2. cut' = cut
    BY <1>1, <1>3, <1>6
  <2> QED BY <1>1, <1>4, <2>1, <2>2
          DEF Search!StopExhausted, Search!queueVars, Search!inputVars, Search!searchVars
<1> QED BY <1>5, <1>6

\* A range is left as in AnytimeSearch.
LEMMA LeaveIsSearch ==
  ASSUME Leaving
  PROVE  Search!FinishRange
<1>1. /\ pc \in {"setup", "doc"} /\ pc' = (IF Full THEN "done" ELSE "select")
      /\ covered' = covered \cup Scope(range) /\ range' = NoRange
      /\ UNCHANGED <<m_q, m_threshold, q, corpus, todo, processed, cut>>
      /\ \A e \in Scope(range) : Decided(e)
  BY DEF Leaving, LeaveRange, queueVars, inputVars
<1>2. Scope(range)' = {}
  BY <1>1, DocAssumption DEF Scope, NoRange, InRange
<1>3. Search!RangeSettled
  BY <1>1 DEF Search!RangeSettled, Search!EntryFor, Search!WouldEnter, WouldEnter, Decided, InResult,
              FullScore
<1>4. Search!Full <=> Full
  BY DEF Search!Full, Full
<1> QED BY <1>1, <1>2, <1>3, <1>4 DEF Search!FinishRange, Search!queueVars, Search!inputVars

\* Inside a range documents enter the queue as in AnytimeSearch.
LEMMA EvaluationIsSearch ==
  ASSUME Evaluating
  PROVE  (\E d \in Doc : Search!Enter(d)) \/ UNCHANGED Search!vars
<1>1. /\ pc \in {"setup", "doc"} /\ pc' \in {"setup", "doc"}
      /\ UNCHANGED <<q, corpus, range, todo, processed, covered, cut>>
  BY DEF Evaluating, StayInRange, inputVars, loopVars
<1>2. Scope(range)' = Scope(range)
  BY <1>1 DEF Scope
<1>3. CASE UNCHANGED queueVars
  BY <1>1, <1>2, <1>3 DEF Search!vars, Search!queueVars, queueVars, Search!inputVars, Search!searchVars
<1>4. CASE ~UNCHANGED queueVars
  <2>1. PICK d \in Scope(range) :
          /\ InsertDocument(d, FullScore(d))
          /\ \A en \in m_q : en.docid # d \/ en.visit # processed
    BY <1>4 DEF Evaluating
  <2>2. PICK en : en = [score |-> FullScore(d), docid |-> d, visit |-> processed]
    OBVIOUS
  <2>3. Push(en) \/ Replace(en)
    BY <1>4, <2>1, <2>2 DEF InsertDocument, Insert, Reject
  <2>4. Search!EntryFor(d) = en /\ en \notin m_q
    BY <2>1, <2>2 DEF Search!EntryFor, FullScore
  <2>5. Search!Push(en) \/ Search!Replace(en)
    BY <2>3, Zenon
       DEF Push, Search!Push, Replace, Search!Replace, WouldEnter, Search!WouldEnter,
           ThresholdFromFront, Search!ThresholdFromFront, IsFront, Search!IsFront,
           IsLowest, Search!IsLowest, Cardinality, Search!Cardinality
  <2>6. d \in Doc
    BY DEF Scope
  <2>7. Search!Enter(d)
    BY <1>1, <1>2, <2>1, <2>4, <2>5 DEF Search!Enter, Search!inputVars, Search!searchVars
  <2> QED BY <2>6, <2>7
<1> QED BY <1>3, <1>4

\* Every step of a search is one of AnytimeSearch.
LEMMA SearchStep ==
  ASSUME NEW CONSTANT D, Call(D), SearchInv, m_threshold \in Nat, Searching
  PROVE  [Search!Next]_Search!vars
<1>1. CASE \E c \in Cluster : StartRange(c)
  BY <1>1, StartIsSearch DEF Search!Next
<1>2. CASE Stop
  BY <1>2, StopIsSearch DEF Search!Next
<1>3. CASE Evaluating
  BY <1>3, EvaluationIsSearch DEF Search!Next
<1>4. CASE Leaving
  BY <1>4, LeaveIsSearch DEF Search!Next
<1>5. CASE UNCHANGED rangeVars
  BY <1>5 DEF rangeVars, inputVars, cursorVars, loopVars, queueVars, Scope,
              Search!vars, Search!queueVars, Search!inputVars, Search!searchVars
<1> QED BY <1>1, <1>2, <1>3, <1>4, <1>5 DEF Searching

\* What the collection of a query is for AnytimeSearch.
LEMMA CorpusIsCorpus ==
  ASSUME NEW CONSTANT D, Call(D)
  PROVE  corpus \in {c \in [score : [Doc -> Nat],
                             docsOf : [Cluster -> SUBSET Doc],
                             bound : [Cluster -> Nat]] :
                        /\ \A r \in Cluster : \A d \in c.docsOf[r] : c.score[d] <= c.bound[r]
                        /\ \A r, s \in Cluster :
                             r # s => c.docsOf[r] \cap c.docsOf[s] = {}}
<1>1. /\ corpus = [score |-> corpus.score, docsOf |-> corpus.docsOf, bound |-> corpus.bound]
      /\ corpus.score = [d \in Doc |-> FullScore(d)]
      /\ corpus.docsOf = [c \in Cluster |-> Scope(RangeOf[c])]
      /\ corpus.bound = [c \in Cluster |-> BoundSum(c)]
  BY DEF Call, CorpusOver, FullScore, BoundSum
<1>2. corpus.score \in [Doc -> Nat]
  BY <1>1, FullScoreFacts
<1>3. corpus.docsOf \in [Cluster -> SUBSET Doc]
  BY <1>1 DEF Scope
<1>4. \A c \in Cluster : BoundSum(c) \in Nat
  <2> SUFFICES ASSUME NEW c \in Cluster
               PROVE  BoundSum(c) \in Nat
    OBVIOUS
  <2>1. PICK b : b = [t \in Term |-> RangeBound(t, c)]
    OBVIOUS
  <2>2. b \in [Term -> Nat] /\ \A t \in Term : b[t] = RangeBound(t, c)
    BY <2>1, RangeBoundHolds
  <2> QED BY <2>2, BoundSumBelow
<1>5. corpus.bound \in [Cluster -> Nat]
  BY <1>1, <1>4
<1>6. ASSUME NEW r \in Cluster, NEW d \in corpus.docsOf[r]
      PROVE  corpus.score[d] <= corpus.bound[r]
  <2>1. d \in Doc /\ d \in Scope(RangeOf[r])
    BY <1>1 DEF Scope
  <2>2. PICK f : f = [t \in Term |-> wdata.range[t][r]]
    OBVIOUS
  <2>3. \A t \in Term : f[t] \in Nat /\ Score(t, d) <= f[t]
    BY <2>1, <2>2, RangeBoundHolds
  <2>4. ScoreOver(Term, d) <= SumFunctionOnSet(f, Term)
    BY <2>3, ScoreBounded DEF Call
  <2>5. corpus.bound[r] = SumFunctionOnSet(f, Term)
    BY <2>2 DEF Call, CorpusOver, SumFunction
  <2>6. ScoreOver(Term, d) \in Nat /\ FullScore(d) \in Nat /\ FullScore(d) <= ScoreOver(Term, d)
    BY <2>1, FullScoreFacts, ScoreOverTerms DEF Call
  <2>7. corpus.bound[r] \in Nat
    BY <1>5
  <2> QED BY <2>4, <2>5, <2>6, <2>7 DEF FullScore
<1>7. ASSUME NEW r \in Cluster, NEW s \in Cluster, r # s, NEW d \in Scope(RangeOf[r]),
             d \in Scope(RangeOf[s])
      PROVE  FALSE
  <2>1. ClusterOf[d] = r - 1 /\ ClusterOf[d] = s - 1
    BY <1>7, RangeIsCluster
  <2>2. r \in Int /\ s \in Int
    BY EndsAssumption DEF Cluster
  <2> QED BY <1>7, <2>1, <2>2
<1>8. \A r, s \in Cluster : r # s => corpus.docsOf[r] \cap corpus.docsOf[s] = {}
  BY <1>1, <1>7
<1>9. corpus \in [score : [Doc -> Nat], docsOf : [Cluster -> SUBSET Doc], bound : [Cluster -> Nat]]
  BY <1>1, <1>2, <1>3, <1>5
<1> QED BY <1>6, <1>8, <1>9

\* A query begins as a search.
LEMMA InitIsSearch ==
  ASSUME NEW CONSTANT D, RangeInit(D)
  PROVE  Search!Init /\ SearchInv
<1>1. Call(D) /\ q \in Inputs
  BY DEF RangeInit, Call
<1>2. /\ m_q = {} /\ m_threshold = q.threshold
      /\ pc = (IF Full THEN "setup" ELSE "select")
      /\ docid = [t \in Term |-> Geq(t, 0)]
      /\ range = (IF Full THEN WholeCollection ELSE NoRange)
      /\ todo = Cluster /\ processed = 0 /\ covered = {} /\ cut = FALSE /\ elapsed = 0
  BY DEF RangeInit
<1>3. /\ q.kind \in Kind /\ q.selected \in Seq(Cluster) /\ q.max_clusters \in Nat
      /\ q.threshold \in Nat
  BY <1>1, CallTypes
<1>4. range.lower = 0
  BY <1>2 DEF WholeCollection, NoRange
<1>5. Scope(range) = IF Full THEN Doc ELSE {}
  <2>1. /\ Scope(WholeCollection) = Doc /\ Scope(NoRange) = {}
    BY DocAssumption DEF Scope, WholeCollection, NoRange, InRange
  <2> QED BY <1>2, <2>1
<1>6. [kind |-> q.kind, selected |-> q.selected, max_clusters |-> q.max_clusters,
       threshold |-> q.threshold, safe |-> FALSE]
      \in [kind : Kind, selected : Seq(Cluster), max_clusters : Nat, threshold : Nat, safe : BOOLEAN]
  BY <1>3
<1>7. corpus \in {c \in [score : [Doc -> Nat],
                         docsOf : [Cluster -> SUBSET Doc],
                         bound : [Cluster -> Nat]] :
                    /\ \A r \in Cluster : \A d \in c.docsOf[r] : c.score[d] <= c.bound[r]
                    /\ \A r, s \in Cluster :
                         r # s => c.docsOf[r] \cap c.docsOf[s] = {}}
  BY <1>1, CorpusIsCorpus
<1>8. Search!Full <=> Full
  BY DEF Search!Full, Full
<1>9. Search!Init
  BY <1>2, <1>5, <1>6, <1>7, <1>8 DEF Search!Init
<1>10. \A t \in Term : docid[t] \in Nat
  BY <1>1, <1>2, GeqFacts
<1>11. SearchInv
  BY <1>1, <1>2, <1>3, <1>4, <1>10 DEF SearchInv, Full
<1> QED BY <1>9, <1>11

\* A pivot belongs to the range, and the range has not inserted it yet.
LEMMA PivotIsNew ==
  ASSUME PivotInv, SearchInv, pc = "doc", NEW p \in Pivot
  PROVE  /\ p \in Scope(range)
         /\ \A en \in m_q : en.docid # p \/ en.visit # processed
<1>1. /\ p \in Doc /\ p \in Nat /\ p < max_docid /\ p < range.upper
      /\ \E t \in Term : docid[t] = p
  BY PivotFacts
<1>2. PICK t \in Term : docid[t] = p
  BY <1>1
<1>3. range.lower <= p
  BY <1>1, <1>2 DEF SearchInv
<1>4. \A en \in m_q : en.visit = processed => en.docid < p
  BY <1>2 DEF PivotInv
<1>5. \A en \in m_q : en.docid # p \/ en.visit # processed
  BY <1>1, <1>4
<1> QED BY <1>1, <1>3, <1>5 DEF Scope, InRange

\* What is inserted at a pivot either has its full score or does not enter.
LEMMA PivotEnters ==
  ASSUME PivotInv, SearchInv, pc = "doc", NEW p \in Pivot, NEW S \in SUBSET UpTo(p),
         S = UpTo(p) \/ (Ahead(p) => ~WouldEnter(FullScore(p))),
         InsertDocument(p, ScoreOver(S, p)), StayInRange
  PROVE  \/ UNCHANGED queueVars
         \/ \E d \in Scope(range) :
              /\ InsertDocument(d, FullScore(d))
              /\ \A en \in m_q : en.docid # d \/ en.visit # processed
<1>1. /\ p \in Scope(range) /\ p \in Doc
      /\ \A en \in m_q : en.docid # p \/ en.visit # processed
      /\ UpTo(p) \in SUBSET Term
  BY PivotIsNew, PivotFacts
<1>2. /\ Call(Doc) /\ q \in Inputs /\ QueueOK /\ processed \in Nat /\ m_threshold \in Nat
  BY DEF PivotInv, RangeInv, Call, QueueOK, GoodQueue
<1>3. /\ FullScore(p) = ScoreOver(Term, p) /\ ScoreOver(Term, p) \in Nat
      /\ ScoreOver(S, p) \in Nat /\ ScoreOver(S, p) <= ScoreOver(Term, p)
      /\ (\A t \in Term \ S : p \notin Docs(t)) => ScoreOver(S, p) = ScoreOver(Term, p)
  <2>1. FullScore(p) = ScoreOver(Term, p)
    BY <1>1, <1>2, FullScoreFacts
  <2>2. S \in SUBSET Term /\ Term \in SUBSET Term
    BY <1>1
  <2>3. ScoreOver(Term, p) \in Nat /\ ScoreOver(S, p) \in Nat
    BY <1>2, <2>2, ScoreOverTerms
  <2>4. /\ ScoreOver(S, p) <= ScoreOver(Term, p)
        /\ (\A t \in Term \ S : p \notin Docs(t)) => ScoreOver(S, p) = ScoreOver(Term, p)
    BY <1>2, <2>2, ScoreOverMonotonic
  <2> QED BY <2>1, <2>3, <2>4
<1>4. CASE S = UpTo(p) /\ Ahead(p)
  <2>1. \A t \in Term \ S : p \notin Docs(t)
    BY <1>4 DEF Ahead, UpTo
  <2>2. InsertDocument(p, FullScore(p))
    BY <1>3, <2>1
  <2> QED BY <1>1, <2>2
<1>5. CASE ~(S = UpTo(p) /\ Ahead(p))
  <2>1. ~WouldEnter(FullScore(p))
    <3>1. Ahead(p) \/ Decided(p)
      BY <1>1 DEF PivotInv
    <3>2. ~InResult(p)
      BY <1>1 DEF InResult
    <3> QED BY <1>5, <3>1, <3>2 DEF Decided
  <2>2. ScoreOver(S, p) <= m_threshold
    BY <1>2, <1>3, <2>1 DEF WouldEnter
  <2>3. UNCHANGED <<inputVars, processed>>
    BY DEF StayInRange, loopVars
  <2>4. UNCHANGED queueVars
    BY <1>1, <1>2, <1>3, <2>2, <2>3, InsertStep
  <2> QED BY <2>4
<1> QED BY <1>4, <1>5

\* The algorithms with pivots skip a range, enter it and leave it as a search may.
LEMMA PivotsAreSearch ==
  ASSUME PivotInv, SearchInv, SetUpPivots \/ NoPivot
  PROVE  Searching
<1>1. /\ q \in Inputs /\ Call(Doc) /\ m_threshold \in Nat /\ max_score \in [Term -> Nat]
      /\ docid \in [Term -> Nat]
  BY DEF PivotInv, RangeInv, Call, QueueOK, GoodQueue, CursorsInLists
<1>2. CASE SetUpPivots /\ Dead
  <2>1. pc = "setup" /\ LeaveRange("continue") /\ UNCHANGED queueVars
    BY <1>2 DEF SetUpPivots
  <2>2. ASSUME NEW e \in Scope(range)
        PROVE  Decided(e)
    <3>1. e \in Doc
      BY DEF Scope
    <3>2. \A t \in Term : max_score[t] \in Nat /\ Score(t, e) <= max_score[t]
      BY <1>1, <2>1 DEF PivotInv, RangeInv, Bounded
    <3>3. ScoreOver(Term, e) <= SumOfBounds(Term)
      BY <1>1, <3>2, ScoreBounded DEF SumOfBounds
    <3>4. /\ FullScore(e) \in Nat /\ FullScore(e) <= ScoreOver(Term, e)
          /\ ScoreOver(Term, e) \in Nat /\ SumOfBounds(Term) \in Nat
      BY <1>1, <3>1, FullScoreFacts, ScoreOverTerms, SumOfBoundsFacts
    <3>5. ~WouldEnter(SumOfBounds(Term))
      BY <1>2 DEF Dead
    <3> QED BY <1>1, <3>3, <3>4, <3>5 DEF Decided, WouldEnter
  <2> QED BY <2>1, <2>2 DEF Leaving, Searching
<1>3. CASE SetUpPivots /\ ~Dead
  <2>1. pc = "setup" /\ pc' = "doc" /\ StayInRange /\ UNCHANGED queueVars /\ docid' = docid
    BY <1>3 DEF SetUpPivots, cursorVars
  <2>2. \A t \in Term : docid'[t] >= docid[t]
    BY <1>1, <2>1
  <2> QED BY <2>1, <2>2 DEF Evaluating, Searching
<1>4. CASE NoPivot
  <2>1. pc = "doc" /\ LeaveRange("end") /\ UNCHANGED queueVars /\ Pivot = {}
    BY <1>4 DEF NoPivot
  <2>2. Candidates = {}
    <3> SUFFICES ASSUME Candidates # {}
                 PROVE  FALSE
      OBVIOUS
    <3>1. Candidates \in SUBSET Nat
      BY <1>1 DEF Candidates
    <3>2. PICK n \in Candidates : \A m \in Candidates : n <= m
      BY <3>1, LeastNatural
    <3> QED BY <2>1, <3>2 DEF Pivot
  <2>3. ASSUME NEW e \in Scope(range)
        PROVE  Decided(e)
    <3>1. e \in Nat /\ e < range.upper
      BY DocAssumption DEF Scope, InRange
    <3>2. ~WouldEnter(SumOfBounds(UpTo(e)))
      BY <2>1, <2>2, <3>1, BoundsBeforePivot
    <3> QED BY <2>1, <3>2, BoundDecides DEF PivotInv
  <2> QED BY <2>1, <2>3 DEF Leaving, Searching
<1> QED BY <1>2, <1>3, <1>4

\* wand_query searches.
LEMMA WandSearches ==
  ASSUME PivotInv, SearchInv, Wand!Next
  PROVE  Searching
<1>1. \/ \E c \in Cluster : StartRange(c)
      \/ Stop \/ SetUpPivots \/ NoPivot \/ Wand!AtPivot
      \/ UNCHANGED rangeVars
  BY WandSteps
<1>2. CASE Wand!AtPivot
  <2>1. pc = "doc" /\ StayInRange /\ UNCHANGED <<pc, max_score>>
    BY <1>2, WandAtPivot
  <2>2. PICK p \in Pivot : MatchesPivot(p) \/ AdvancesToPivot(p)
    BY <1>2, WandAtPivot
  <2>3. CASE MatchesPivot(p)
    <3>1. Aligned(p) /\ InsertDocument(p, ScoreOver(UpTo(p), p)) /\ MoveCursors(UpTo(p), NextPosting)
      BY <2>3 DEF MatchesPivot
    <3>2. \A t \in Term : docid'[t] >= docid[t]
      BY <2>1, <3>1, MatchPivot
    <3>3. UpTo(p) \in SUBSET UpTo(p)
      OBVIOUS
    <3> QED BY <2>1, <3>1, <3>2, <3>3, PivotEnters DEF Evaluating, Searching
  <2>4. CASE AdvancesToPivot(p)
    <3>1. PICK t \in Term : MoveCursors({t}, LAMBDA s : NextGeq(s, p))
      BY <2>4 DEF AdvancesToPivot
    <3>2. UNCHANGED queueVars /\ p \in Nat /\ docid \in [Term -> Nat]
      BY <2>1, <2>4, PivotFacts DEF AdvancesToPivot, PivotInv, RangeInv, CursorsInLists
    <3>3. \A e \in Scope(range) : p <= e /\ e < p /\ Ahead(e) => Decided(e)
      BY <3>2, DocAssumption DEF Scope
    <3>4. p <= p /\ UNCHANGED <<queueVars, pc, max_score>>
      BY <2>1, <3>2
    <3>5. (\A s \in Term : s # t => docid'[s] = docid[s]) /\ docid'[t] >= docid[t]
      BY <2>1, <3>1, <3>2, <3>3, <3>4, MoveCursor
    <3>6. \A s \in Term : docid'[s] >= docid[s]
      BY <3>2, <3>5
    <3> QED BY <2>1, <3>2, <3>6 DEF Evaluating, Searching
  <2> QED BY <2>2, <2>3, <2>4
<1> QED BY <1>1, <1>2, PivotsAreSearch DEF Searching

\* When all the bounds together would not enter, everything in the range is decided.
LEMMA TooLow ==
  ASSUME RangeInv(Doc), pc \in {"setup", "doc"}, ~WouldEnter(SumOfBounds(Term)),
         NEW e \in Scope(range)
  PROVE  Decided(e)
<1>1. /\ q \in Inputs /\ Call(Doc) /\ m_threshold \in Nat /\ max_score \in [Term -> Nat]
      /\ e \in Doc
  BY DEF RangeInv, Call, QueueOK, GoodQueue, Scope
<1>2. \A t \in Term : max_score[t] \in Nat /\ Score(t, e) <= max_score[t]
  BY <1>1 DEF RangeInv, Bounded
<1>3. ScoreOver(Term, e) <= SumOfBounds(Term)
  BY <1>1, <1>2, ScoreBounded DEF SumOfBounds
<1>4. /\ FullScore(e) \in Nat /\ FullScore(e) <= ScoreOver(Term, e)
      /\ ScoreOver(Term, e) \in Nat /\ SumOfBounds(Term) \in Nat
  BY <1>1, FullScoreFacts, ScoreOverTerms, SumOfBoundsFacts
<1> QED BY <1>1, <1>3, <1>4 DEF Decided, WouldEnter

\* block_max_wand_query searches.
LEMMA BlockMaxSearches ==
  ASSUME BlockMaxInv, SearchInv, BlockMaxWand!Next
  PROVE  Searching
<1>1. PivotInv
  BY DEF BlockMaxInv
<1>2. \/ \E c \in Cluster : StartRange(c)
      \/ Stop \/ SetUpPivots \/ NoPivot \/ BlockMaxWand!AtPivot \/ Finished
  <2>1. \/ \E c \in BlockMaxWand!Cluster : BlockMaxWand!StartRange(c)
        \/ BlockMaxWand!Stop \/ BlockMaxWand!SetUpPivots \/ BlockMaxWand!NoPivot
        \/ BlockMaxWand!AtPivot \/ BlockMaxWand!Finished
    BY DEF BlockMaxWand!Next, BlockMaxWand!Whole, BlockMaxWand!ordered_range_query,
           BlockMaxWand!boundsum_range_query, BlockMaxWand!boundsum_timeout_query,
           BlockMaxWand!Evaluate, BlockMaxWand!VisitRange, BlockMaxWand!StartBlocks
  <2> QED BY <2>1, BlockMaxRanges
<1>3. CASE BlockMaxWand!AtPivot
  <2>1. pc = "doc" /\ StayInRange /\ UNCHANGED <<pc, max_score>>
    BY <1>3, BlockMaxAtPivot
  <2>2. PICK p \in Pivot :
          /\ block' = [t \in Term |-> IF t \in UpTo(p)
                                        THEN BlockGeq(wdata.blocks[t], block[t], p)
                                        ELSE block[t]]
          /\ MatchesBlocks(p) \/ AdvancesToPivot(p) \/ JumpsBlocks(p)
    BY <1>3, BlockMaxAtPivot
  <2>3. \A t \in Term : docid'[t] >= docid[t]
    BY <1>3, BlockMaxPivot
  <2>4. CASE MatchesBlocks(p)
    <3>1. PICK S \in SUBSET UpTo(p) :
            /\ S = UpTo(p) \/ (Ahead(p) => ~WouldEnter(FullScore(p)))
            /\ InsertDocument(p, ScoreOver(S, p))
      BY <2>1, <2>2, <2>4, BlocksDecide
    <3> QED BY <1>1, <2>1, <2>3, <3>1, PivotEnters DEF Evaluating, Searching
  <2>5. CASE AdvancesToPivot(p) \/ JumpsBlocks(p)
    <3>1. UNCHANGED queueVars
      BY <2>5 DEF AdvancesToPivot, JumpsBlocks
    <3> QED BY <2>1, <2>3, <3>1 DEF Evaluating, Searching
  <2> QED BY <2>2, <2>4, <2>5
<1>4. CASE Finished
  BY <1>4 DEF Finished, Searching
<1> QED BY <1>1, <1>2, <1>3, <1>4, PivotsAreSearch DEF Searching

\* maxscore_query searches.
LEMMA MaxScoreSearches ==
  ASSUME MaxScoreInv, SearchInv, MaxScore!Next
  PROVE  Searching
<1>1. RangeInv(Doc) /\ docid \in [Term -> Nat] /\ m_threshold \in Nat
  BY DEF MaxScoreInv, RangeInv, CursorsInLists, QueueOK, GoodQueue
<1>2. \/ \E c \in Cluster : StartRange(c)
      \/ Stop \/ MaxScore!SetUp \/ MaxScore!Candidate \/ MaxScore!NoCandidate \/ Finished
  <2>1. \/ (MaxScore!Stop \/ \E c \in MaxScore!Cluster : MaxScore!StartRange(c))
        \/ MaxScore!SetUp \/ MaxScore!Candidate \/ MaxScore!NoCandidate
        \/ MaxScore!Finished
    BY DEF MaxScore!Next, MaxScore!run_sorted, MaxScore!ordered_range_query,
           MaxScore!boundsum_range_query, MaxScore!boundsum_timeout_query,
           MaxScore!Evaluate, MaxScore!VisitRange
  <2> QED BY <2>1, MaxScoreRanges
<1>3. CASE MaxScore!SetUp
  <2>1. /\ pc = "setup" /\ UNCHANGED <<queueVars, cursorVars>> /\ UNCHANGED queueVars
        /\ docid' = docid
        /\ upper_bounds' = [p \in Position |-> SumOfBounds(TermsAt(p, Cardinality(Term)))]
        /\ first_lookup' = MaxScore!update_non_essential_lists(upper_bounds', Cardinality(Term),
                                                               m_threshold)
    BY <1>3, SetUpStep DEF cursorVars
  <2>2. CASE pc' = "doc" /\ StayInRange
    <3>1. \A t \in Term : docid'[t] >= docid[t]
      BY <1>1, <2>1
    <3> QED BY <2>1, <2>2, <3>1 DEF Evaluating, Searching
  <2>3. CASE /\ (q.kind = "ordered" /\ ~WouldEnter(SumOfBounds(Term))) \/ first_lookup' = 0
             /\ LeaveRange("continue")
    <3>1. ~WouldEnter(SumOfBounds(Term))
      <4> SUFFICES ASSUME first_lookup' = 0
                   PROVE  ~WouldEnter(SumOfBounds(Term))
        BY <2>3
      <4>1. PICK N \in Nat : N = Cardinality(Term) /\ N # 0
        BY PositionFacts
      <4>2. PICK ub : ub = upper_bounds'
        OBVIOUS
      <4>3. PICK floor \in Nat : floor = m_threshold
        BY <1>1
      <4>4. ub \in [1..N -> Nat] /\ ub[1] = SumOfBounds(Term)
        BY <2>1, <4>1, <4>2, BoundsAreSums
      <4>5. 0 = MaxScore!update_non_essential_lists(ub, N, floor) /\ N \in 0..N
        BY <2>1, <4>1, <4>2, <4>3
      <4>6. 0 < N => ub[0 + 1] <= floor
        BY <4>1, <4>4, <4>5, StillEssential
      <4> QED BY <4>1, <4>3, <4>4, <4>6 DEF WouldEnter
    <3>2. \A e \in Scope(range) : Decided(e)
      BY <1>1, <2>1, <3>1, TooLow
    <3> QED BY <2>1, <2>3, <3>2 DEF Leaving, Searching
  <2> QED BY <1>3, <2>2, <2>3, SetUpStep
<1>4. CASE MaxScore!Candidate
  BY <1>4, MaxScoreCandidate DEF Evaluating, Searching
<1>5. CASE MaxScore!NoCandidate
  <2>1. /\ pc = "doc" /\ LeaveRange("end") /\ UNCHANGED queueVars
        /\ ~(first_lookup > 0 /\ next_docid < range.upper)
    <3>1. pc = "doc" /\ MaxScore!LeaveRange("end") /\ ~MaxScore!HasCandidate
      BY <1>5 DEF MaxScore!NoCandidate
    <3>2. UNCHANGED queueVars
      BY <1>5 DEF MaxScore!NoCandidate, MaxScore!queueVars, queueVars
    <3>3. ~(first_lookup > 0 /\ next_docid < range.upper)
      BY <3>1 DEF MaxScore!HasCandidate
    <3> QED BY <3>1, <3>2, <3>3, MaxScoreSame
  <2>2. ASSUME NEW e \in Scope(range)
        PROVE  Decided(e)
    <3>1. CASE first_lookup = 0
      <4>1. Cardinality(Term) \in Nat \ {0}
        BY PositionFacts
      <4>2. upper_bounds[1] <= m_threshold /\ upper_bounds[1] = SumOfBounds(Term)
        BY <2>1, <3>1, <4>1, EvaluationFacts DEF MaxScoreInv, EvaluatesRange
      <4>3. upper_bounds[1] \in Nat
        BY <2>1, <4>1, EvaluationFacts
      <4> QED BY <1>1, <2>1, <4>2, <4>3, TooLow DEF WouldEnter
    <3>2. CASE first_lookup # 0
      <4>1. first_lookup \in Nat /\ next_docid \in Nat /\ range.upper \in Nat
        BY <2>1, EvaluationFacts
      <4>2. e < range.upper /\ e \in Nat
        BY DocAssumption DEF Scope, InRange
      <4>3. e < next_docid
        BY <2>1, <3>2, <4>1, <4>2
      <4> QED BY <2>1, <4>3 DEF MaxScoreInv, EvaluatesRange
    <3> QED BY <3>1, <3>2
  <2> QED BY <2>1, <2>2 DEF Leaving, Searching
<1>6. CASE Finished
  BY <1>6 DEF Finished, Searching
<1> QED BY <1>2, <1>3, <1>4, <1>5, <1>6 DEF Searching

\* The algorithms that have operator() only search the collection in one range.
LEMMA CollectionSearches ==
  ASSUME CollectionInv, LookupLists, SearchInv, Collection!Next
  PROVE  Searching
<1>1. /\ CollectionState /\ docid \in [Term -> Nat] /\ next_docid \in Nat /\ m_threshold \in Nat
      /\ max_docid \in Nat /\ Doc = 0..(max_docid - 1) /\ processed = 0
      /\ Cardinality(Term) \in Nat \ {0}
  BY CollectionTypes DEF CollectionInv
<1>2. pc \in {"setup", "doc"} => Scope(range) = Doc
  BY <1>1 DEF CollectionState, Scope, WholeCollection, InRange
<1>3. ASSUME pc \in {"setup", "doc"}, pc' \in {"setup", "doc"}, StayInRange, GoesOn
      PROVE  Searching
  <2>1. \/ UNCHANGED queueVars
        \/ \E d \in Scope(range) :
             /\ InsertDocument(d, FullScore(d))
             /\ \A en \in m_q : en.docid # d \/ en.visit # processed
    BY <1>2, <1>3 DEF GoesOn, EntersInFull
  <2> QED BY <1>3, <2>1 DEF GoesOn, Evaluating, Searching
<1>4. ASSUME Iterates, GoesOn PROVE Searching
  BY <1>3, <1>4 DEF Iterates
<1>5. ASSUME UNCHANGED queueVars, docid' = docid PROVE GoesOn
  BY <1>1, <1>5 DEF GoesOn, EntersInFull
<1>6. CASE Collection!SetUp
  <2>1. /\ pc = "setup" /\ pc' = "doc" /\ Collection!StayInRange
        /\ UNCHANGED <<Collection!queueVars, Collection!cursorVars>>
    BY <1>6 DEF Collection!SetUp
  <2>2. StayInRange /\ UNCHANGED queueVars /\ docid' = docid
    BY <2>1, CollectionSame DEF Collection!queueVars, queueVars, Collection!cursorVars
  <2> QED BY <1>3, <1>5, <2>1, <2>2
<1>7. CASE Collection!Or
  <2>1. Iterates
    BY <1>7, IterationSame DEF Collection!Or
  <2> QED BY <1>4, <1>7, <2>1, CollectionOr
<1>8. CASE Collection!And
  <2>1. Iterates
    BY <1>8, IterationSame DEF Collection!And
  <2> QED BY <1>4, <1>8, <2>1, CollectionAnd
<1>9. CASE Collection!BlockMaxAnd
  <2>1. Iterates
    BY <1>9, IterationSame DEF Collection!BlockMaxAnd
  <2> QED BY <1>4, <1>9, <2>1, CollectionBlockMaxAnd
<1>10. CASE Collection!BlockMaxMaxScore
  <2>1. Iterates
    BY <1>10, Evaluation
  <2> QED BY <1>4, <1>10, <2>1, CollectionBlockMaxMaxScore
<1>11. CASE Collection!NextRange
  <2>1. /\ pc = "doc" /\ pc' = "setup" /\ Collection!StayInRange
        /\ UNCHANGED <<Collection!queueVars, Collection!cursorVars>>
    BY <1>11 DEF Collection!NextRange
  <2>2. StayInRange /\ UNCHANGED queueVars /\ docid' = docid
    BY <2>1, CollectionSame DEF Collection!queueVars, queueVars, Collection!cursorVars
  <2> QED BY <1>3, <1>5, <2>1, <2>2
<1>12. CASE Collection!EndOfCall
  <2>1. /\ pc = "doc" /\ ~Collection!InLoop /\ end = max_docid
        /\ Collection!LeaveRange("end")
        /\ UNCHANGED <<Collection!queueVars, Collection!cursorVars>>
    BY <1>12 DEF Collection!EndOfCall
  <2>2. LeaveRange("end") /\ UNCHANGED queueVars
    BY <2>1, CollectionSame DEF Collection!queueVars, queueVars
  <2>3. next_docid >= max_docid \/ first_lookup = Cardinality(Term)
    <3>1. ~(next_docid < end /\ first_lookup < Cardinality(Term))
      BY <2>1, CollectionSame DEF Collection!InLoop
    <3> QED BY <1>1, <2>1, <3>1 DEF LookupLists
  <2>4. ASSUME NEW e \in Doc
        PROVE  Decided(e)
    <3>1. CASE next_docid >= max_docid
      <4>1. e < next_docid
        BY <1>1, <3>1
      <4> QED BY <2>1, <4>1, CollectionComplete
    <3>2. CASE first_lookup = Cardinality(Term)
      <4>1. algorithm = "block_max_maxscore"
        BY <1>1, <3>2 DEF LookupLists
      <4>2. Call(Doc) /\ TermsAt(1, first_lookup) = Term
        BY <2>1, <3>2, <4>1, BlockMaxMaxScoreFacts
      <4>3. ScoreOver(Term, e) \in Nat /\ ScoreOver(Term, e) <= m_threshold
        <5>1. \A t \in Term : e \in Docs(t) => t \in TermsAt(1, first_lookup)
          BY <4>2
        <5> QED BY <2>1, <4>1, <5>1, LookupsTooLow
      <4>4. FullScore(e) \in Nat /\ FullScore(e) <= ScoreOver(Term, e)
        <5>1. PICK D : D = Doc
          OBVIOUS
        <5> QED BY <4>2, <5>1, FullScoreFacts
      <4> QED BY <1>1, <4>3, <4>4 DEF Decided, WouldEnter
    <3> QED BY <2>3, <3>1, <3>2
  <2>5. \A e \in Scope(range) : Decided(e)
    BY <1>2, <2>1, <2>4
  <2> QED BY <2>1, <2>2, <2>5 DEF Leaving, Searching
<1>13. CASE Collection!Finished
  <2>1. UNCHANGED rangeVars
    BY <1>13 DEF Collection!Finished, Collection!rangeVars, rangeVars, Collection!queueVars,
       queueVars, Collection!inputVars, inputVars, Collection!cursorVars, cursorVars,
       Collection!loopVars, loopVars
  <2> QED BY <2>1 DEF Searching
<1> QED BY <1>6, <1>7, <1>8, <1>9, <1>10, <1>11, <1>12, <1>13 DEF Collection!Next

\* What holds of the algorithm that answers the query.
AlgorithmInv ==
  /\ algorithm = "wand" => PivotInv
  /\ algorithm = "block_max_wand" => BlockMaxInv
  /\ algorithm = "maxscore" => MaxScoreInv
  /\ Lone => CollectionInv /\ LookupLists

\* It says what the documents of the collection are, and where the cursors can stand.
LEMMA AlgorithmTypes ==
  ASSUME AlgorithmInv
  PROVE  /\ \E D : Call(D)
         /\ docid \in [Term -> Nat] /\ m_threshold \in Nat
<1>1. ASSUME RangeInv(Doc)
      PROVE  Call(Doc) /\ docid \in [Term -> Nat] /\ m_threshold \in Nat
  BY <1>1 DEF RangeInv, CursorsInLists, QueueOK, GoodQueue
<1>2. CASE Lone
  BY <1>2, CollectionTypes DEF AlgorithmInv, CollectionInv
<1>3. CASE ~Lone
  BY <1>1, <1>3 DEF AlgorithmInv, Lone, PivotInv, BlockMaxInv, MaxScoreInv
<1> QED BY <1>2, <1>3

\* A step of any algorithm is one of a search.
LEMMA AlgorithmSearches ==
  ASSUME AlgorithmInv, SearchInv, [Next]_vars
  PROVE  Searching
<1>1. CASE wand_query
  BY <1>1, WandSearches DEF wand_query, AlgorithmInv
<1>2. CASE block_max_wand_query
  BY <1>2, BlockMaxSearches DEF block_max_wand_query, AlgorithmInv
<1>3. CASE maxscore_query
  BY <1>3, MaxScoreSearches DEF maxscore_query, AlgorithmInv
<1>4. CASE other_query
  BY <1>4, CollectionSearches DEF other_query, AlgorithmInv, Lone
<1>5. CASE UNCHANGED vars
  BY <1>5 DEF vars, Searching
<1> QED BY <1>1, <1>2, <1>3, <1>4, <1>5 DEF Next

\* A query begins as a search.
LEMMA QueryInit == Init => Search!Init /\ SearchInv
<1>1. Wand!Init \/ BlockMaxWand!Init \/ MaxScore!Init => RangeInit(Doc)
  BY WandRanges, BlockMaxRanges, MaxScoreRanges DEF BlockMaxWand!Init, MaxScore!Init
<1>2. Collection!Init => RangeInit(Ranked)
  BY CollectionRanges DEF Collection!Init
<1>3. ASSUME NEW D, RangeInit(D)
      PROVE  Search!Init /\ SearchInv
  <2>1. PICK E : E = D
    OBVIOUS
  <2> QED BY <1>3, <2>1, InitIsSearch
<1> QED BY <1>1, <1>2, <1>3 DEF Init

\* Whatever the algorithm, a query is an anytime search: documents enter the
\* queue once and with their full scores, a range is left only when everything in
\* it is in the result or cannot enter any more, and the search ends when no
\* range is left that could hold a result, or early for its budget.
THEOREM ImplementsAnytime == Spec => AnytimeSpec
<1>1. Spec => []AlgorithmInv
  BY WandCorrect, BlockMaxCorrect, MaxScoreCorrect, CollectionCorrect, PTL DEF AlgorithmInv
<1>2. AlgorithmInv => docid \in [Term -> Nat]
  BY AlgorithmTypes
<1>3. (AlgorithmInv => docid \in [Term -> Nat])'
  BY <1>2, PTL
<1>4. AlgorithmInv /\ AlgorithmInv' /\ SearchInv /\ [Next]_vars
        => SearchInv' /\ [Search!Next]_Search!vars
  <2> SUFFICES ASSUME AlgorithmInv, AlgorithmInv', SearchInv, [Next]_vars
               PROVE  SearchInv' /\ [Search!Next]_Search!vars
    OBVIOUS
  <2>1. Searching
    BY AlgorithmSearches
  <2>2. docid \in [Term -> Nat] /\ docid' \in [Term -> Nat] /\ m_threshold \in Nat
    BY <1>3, AlgorithmTypes
  <2>3. PICK D : Call(D)
    BY AlgorithmTypes
  <2> QED BY <2>1, <2>2, <2>3, SearchInvKept, SearchStep
<1> QED BY <1>1, <1>4, QueryInit, PTL DEF Spec, AnytimeSpec, Search!Spec

-----------------------------------------------------------------------------
(* The answers.                                                             *)

\* AnytimeSearch_proofs speaks of its own copy of the search.
SearchProofs == INSTANCE AnytimeSearch_proofs WITH
  Corpora <- {c \in [score : [Doc -> Nat],
                     docsOf : [Cluster -> SUBSET Doc],
                     bound : [Cluster -> Nat]] :
                /\ \A r \in Cluster : \A d \in c.docsOf[r] : c.score[d] <= c.bound[r]
                /\ \A r, s \in Cluster :
                     r # s => c.docsOf[r] \cap c.docsOf[s] = {}},
  Plans <- [kind : Kind, selected : Seq(Cluster), max_clusters : Nat,
            threshold : Nat, safe : BOOLEAN],
  plan <- [kind |-> q.kind, selected |-> q.selected,
           max_clusters |-> q.max_clusters, threshold |-> q.threshold,
           safe |-> FALSE],
  pc <- CASE pc \in {"setup", "doc"} -> "range"
          [] pc \in {"select", "done"} -> pc,
  attempt <- 1,
  scope <- Scope(range)

\* The inputs of every query are ones the search is assumed to be given.
LEMMA SearchAssumptions ==
  /\ SearchProofs!CorporaAssumption
  /\ SearchProofs!PlansAssumption
  /\ SearchProofs!BoundAssumption
  /\ SearchProofs!DisjointAssumption
  /\ SearchProofs!KAssumption
<1>1. SearchProofs!CorporaAssumption
  BY DEF SearchProofs!Corpus
<1>2. SearchProofs!PlansAssumption
  BY DEF SearchProofs!Plan, Kind
<1>3. SearchProofs!BoundAssumption
  OBVIOUS
<1>4. SearchProofs!DisjointAssumption
  OBVIOUS
<1>5. SearchProofs!KAssumption
  BY KAssumption
<1> QED BY <1>1, <1>2, <1>3, <1>4, <1>5

\* The two copies of the search are one.
LEMMA SameSearch ==
  /\ Search!Spec <=> SearchProofs!Spec
  /\ Search!DoneIsRankSafe <=> SearchProofs!DoneIsRankSafe
  /\ Search!NoDuplicates <=> SearchProofs!NoDuplicates
<1>1. Search!Init <=> SearchProofs!Init
  BY DEF Search!Init, SearchProofs!Init, Search!Full, SearchProofs!Full
<1>2. \A r : Search!StartRange(r) <=> SearchProofs!StartRange(r)
  BY DEF Search!StartRange, SearchProofs!StartRange, Search!IsNext, SearchProofs!IsNext,
         Search!Ordered, SearchProofs!Ordered, Search!IsBest, SearchProofs!IsBest,
         Search!WouldEnter, SearchProofs!WouldEnter, Search!Budget, SearchProofs!Budget,
         Search!queueVars, SearchProofs!queueVars, Search!inputVars,
         SearchProofs!inputVars
<1>3. \A d : Search!Enter(d) <=> SearchProofs!Enter(d)
  <2>1. \A entry : Search!Push(entry) <=> SearchProofs!Push(entry)
    BY DEF Search!Push, SearchProofs!Push, Search!WouldEnter, SearchProofs!WouldEnter,
           Search!IsLowest, SearchProofs!IsLowest, Search!IsFront, SearchProofs!IsFront,
           Search!ThresholdFromFront, SearchProofs!ThresholdFromFront,
           Search!Cardinality, SearchProofs!Cardinality
  <2>2. \A entry : Search!Replace(entry) <=> SearchProofs!Replace(entry)
    BY DEF Search!Replace, SearchProofs!Replace, Search!WouldEnter, SearchProofs!WouldEnter,
           Search!IsLowest, SearchProofs!IsLowest, Search!IsFront, SearchProofs!IsFront,
           Search!ThresholdFromFront, SearchProofs!ThresholdFromFront,
           Search!Cardinality, SearchProofs!Cardinality
  <2>3. \A d : Search!EntryFor(d) = SearchProofs!EntryFor(d)
    BY DEF Search!EntryFor, SearchProofs!EntryFor
  <2> QED BY <2>1, <2>2, <2>3
          DEF Search!Enter, SearchProofs!Enter, Search!inputVars, SearchProofs!inputVars,
              Search!searchVars, SearchProofs!searchVars
<1>4. Search!FinishRange <=> SearchProofs!FinishRange
  BY DEF Search!FinishRange, SearchProofs!FinishRange, Search!RangeSettled,
         SearchProofs!RangeSettled, Search!EntryFor, SearchProofs!EntryFor,
         Search!WouldEnter, SearchProofs!WouldEnter, Search!Full, SearchProofs!Full,
         Search!queueVars, SearchProofs!queueVars, Search!inputVars,
         SearchProofs!inputVars
<1>5. Search!StopExhausted <=> SearchProofs!StopExhausted
  BY DEF Search!StopExhausted, SearchProofs!StopExhausted, Search!Exhausted,
         SearchProofs!Exhausted, Search!Ordered, SearchProofs!Ordered, Search!IsBest,
         SearchProofs!IsBest, Search!WouldEnter, SearchProofs!WouldEnter,
         Search!queueVars, SearchProofs!queueVars, Search!inputVars,
         SearchProofs!inputVars, Search!searchVars, SearchProofs!searchVars
<1>6. Search!StopEarly <=> SearchProofs!StopEarly
  BY DEF Search!StopEarly, SearchProofs!StopEarly, Search!Exhausted,
         SearchProofs!Exhausted, Search!Ordered, SearchProofs!Ordered, Search!IsBest,
         SearchProofs!IsBest, Search!WouldEnter, SearchProofs!WouldEnter,
         Search!queueVars, SearchProofs!queueVars, Search!inputVars,
         SearchProofs!inputVars
<1>7. Search!Return <=> SearchProofs!Return
  BY DEF Search!Return, SearchProofs!Return, Search!Finalize, SearchProofs!Finalize,
         Search!inputVars, SearchProofs!inputVars, Search!searchVars,
         SearchProofs!searchVars
<1>8. Search!Rerun <=> SearchProofs!Rerun
  BY DEF Search!Rerun, SearchProofs!Rerun, Search!TooFew, SearchProofs!TooFew,
         Search!Restart, SearchProofs!Restart, Search!Full, SearchProofs!Full,
         Search!inputVars, SearchProofs!inputVars, Search!Cardinality,
         SearchProofs!Cardinality
<1>9. Search!Accept <=> SearchProofs!Accept
  BY DEF Search!Accept, SearchProofs!Accept, Search!TooFew, SearchProofs!TooFew,
         Search!queueVars, SearchProofs!queueVars, Search!inputVars,
         SearchProofs!inputVars, Search!searchVars, SearchProofs!searchVars,
         Search!Cardinality, SearchProofs!Cardinality
<1>10. Search!Answered <=> SearchProofs!Answered
  BY DEF Search!Answered, SearchProofs!Answered, Search!vars, SearchProofs!vars,
         Search!queueVars, SearchProofs!queueVars, Search!inputVars,
         SearchProofs!inputVars, Search!searchVars, SearchProofs!searchVars
<1>11. Search!vars = SearchProofs!vars
  BY DEF Search!vars, SearchProofs!vars, Search!queueVars, SearchProofs!queueVars,
         Search!inputVars, SearchProofs!inputVars, Search!searchVars,
         SearchProofs!searchVars
<1>12. [Search!Next]_Search!vars <=> [SearchProofs!Next]_SearchProofs!vars
  <2>1. Search!Next <=> SearchProofs!Next
    BY <1>2, <1>3, <1>4, <1>5, <1>6, <1>7, <1>8, <1>9, <1>10
       DEF Search!Next, SearchProofs!Next
  <2>2. UNCHANGED Search!vars <=> UNCHANGED SearchProofs!vars
    BY DEF Search!vars, Search!queueVars, Search!inputVars, Search!searchVars,
           SearchProofs!vars, SearchProofs!queueVars, SearchProofs!inputVars,
           SearchProofs!searchVars
  <2> QED BY <2>1, <2>2
<1>13. Search!Spec <=> SearchProofs!Spec
  BY <1>1, <1>12, PTL DEF Search!Spec, SearchProofs!Spec
<1>14. Search!DoneIsRankSafe <=> SearchProofs!DoneIsRankSafe
  BY DEF Search!DoneIsRankSafe, SearchProofs!DoneIsRankSafe, Search!Eligible,
         SearchProofs!Eligible, Search!EligibleRanges, SearchProofs!EligibleRanges,
         Search!Full, SearchProofs!Full, Search!Ordered, SearchProofs!Ordered,
         Search!InResult, SearchProofs!InResult
<1>15. Search!NoDuplicates <=> SearchProofs!NoDuplicates
  BY DEF Search!NoDuplicates, SearchProofs!NoDuplicates
<1> QED BY <1>13, <1>14, <1>15

\* Whatever the algorithm, a search that nothing cut short has left no document
\* out that could have entered, those of ranges it never visited included.
THEOREM AnswersRankSafe == Spec => []Search!DoneIsRankSafe
<1>1. SearchProofs!Spec => []SearchProofs!DoneIsRankSafe
  BY SearchProofs!DoneRankSafe, SearchAssumptions
<1> QED BY <1>1, ImplementsAnytime, SameSearch, PTL DEF AnytimeSpec

\* Whatever the algorithm, a document is in the result once.
THEOREM AnswersDistinct == Spec => []Search!NoDuplicates
<1>1. SearchProofs!Spec => []SearchProofs!NoDuplicates
  BY SearchProofs!ResultsDistinct, SearchAssumptions
<1> QED BY <1>1, ImplementsAnytime, SameSearch, PTL DEF AnytimeSpec
=============================================================================
