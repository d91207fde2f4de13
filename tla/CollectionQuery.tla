--------------------------- MODULE CollectionQuery ---------------------------
(***************************************************************************)
(* The document-at-a-time algorithms that have operator() only:            *)
(* ranked_or_query, ranked_and_query, block_max_ranked_and_query and       *)
(* block_max_maxscore_query, which fill a queue, and the Boolean or_query, *)
(* and_query and scored_and_query, which list documents.  range_query.hpp  *)
(* wraps the first four: it runs one of them on the same cursors up to the *)
(* end of each range of range_size documents.                              *)
(*                                                                         *)
(* One iteration of the outer loop of an algorithm is one step.            *)
(***************************************************************************)
EXTENDS RangeQuery

VARIABLES
  algorithm,            \* which of them is called
  block,                \* where the cursor of each term stands in the blocks
  ordered_cursors,      \* the terms as the algorithm sorts them
  upper_bounds,         \* sums of the bounds of the first terms
  non_essential_lists,  \* how many of the terms are only looked up
  candidate,            \* the document to look at: cur_doc in the or queries
  candidate_list,       \* the first list to check against it
  end,                  \* the max_docid of the running call
  results               \* what a Boolean query has found

collectionVars ==
  <<algorithm, block, ordered_cursors, upper_bounds, non_essential_lists,
    candidate, candidate_list, end, results>>
vars == <<rangeVars, collectionVars>>

Disjunctive == {"ranked_or", "block_max_maxscore", "or"}
Conjunctive == {"ranked_and", "block_max_ranked_and", "and", "scored_and"}
Boolean == {"or", "and", "scored_and"}

Position == 1..Cardinality(Term)
Last == Cardinality(Term)

\* The documents with every term.
Conjunction == {d \in Doc : \A t \in Term : d \in Docs(t)}

\* The results a queue is filled with; a Boolean query has no queue.
Answer == IF algorithm \in Boolean THEN {}
          ELSE IF algorithm \in Conjunctive THEN Conjunction ELSE Doc

\* The key the cursors are sorted by; the or queries do not sort.
SortKey(t) == CASE algorithm \in Conjunctive -> Cardinality(Docs(t))
                [] algorithm = "block_max_maxscore" -> max_score[t]
                [] OTHER -> 0

\* The loop of range_query: whole ranges while another one fits behind, then the
\* rest of the collection.
NextEnd(e) == IF q.range_size > 0 /\ e + q.range_size + q.range_size < max_docid
                THEN e + q.range_size ELSE max_docid

Init ==
  /\ algorithm \in Disjunctive \cup Conjunctive
  /\ RangeInit(Answer)
  /\ q.kind = "full"
  /\ q.range_size = 0 \/ algorithm \notin Boolean
  /\ block = [t \in Term |-> 1]
  /\ ordered_cursors = [p \in Position |-> CHOOSE t \in Term : TRUE]
  /\ upper_bounds = [p \in Position |-> 0]
  /\ non_essential_lists = 0
  /\ candidate = 0
  /\ candidate_list = 1
  /\ end = NextEnd(0)
  /\ results = <<>>

-----------------------------------------------------------------------------
\* What comes before the outer loop: equal keys are sorted in any order.  A
\* conjunctive query begins with the document of its shortest list.
SetUp ==
  /\ pc = "setup"
  /\ \E o \in [Position -> Term] :
       /\ \A i, j \in Position : i < j => o[i] # o[j] /\ SortKey(o[i]) <= SortKey(o[j])
       /\ ordered_cursors' = o
       /\ upper_bounds' = [p \in Position |-> SumOfBounds({o[i] : i \in 1..p})]
       /\ candidate' = IF algorithm \in Conjunctive THEN docid[o[1]]
                       ELSE Min({docid[t] : t \in Term})
  /\ non_essential_lists' = 0
  /\ candidate_list' = 2
  /\ pc' = "doc"
  /\ StayInRange
  /\ UNCHANGED <<queueVars, cursorVars, algorithm, block, end, results>>

InLoop == pc = "doc" /\ candidate < end /\ non_essential_lists < Last

\* What is common to the iterations of every algorithm.
Iteration ==
  /\ InLoop
  /\ StayInRange
  /\ UNCHANGED <<pc, max_score, algorithm, ordered_cursors, upper_bounds, end>>

AtCandidate(S) == {t \in S : docid[t] = candidate}
ScoreOf(S) == ScoreOver(S, candidate)

\* A document is found; or_query, which only counts, and and_query do not score.
Found(score) ==
  IF algorithm \in Boolean
    THEN /\ results' = Append(results, [docid |-> candidate,
                                       score |-> IF algorithm = "scored_and" THEN score
                                                                             ELSE 0])
         /\ UNCHANGED queueVars
    ELSE InsertDocument(candidate, score) /\ UNCHANGED results

\* ranked_or_query and or_query: every cursor at the document goes on.
Or ==
  /\ algorithm \in {"ranked_or", "or"}
  /\ Iteration
  /\ Found(ScoreOf(AtCandidate(Term)))
  /\ MoveCursors(AtCandidate(Term), NextPosting)
  /\ candidate' = Min({end} \cup {docid'[t] : t \in Term})
  /\ UNCHANGED <<block, non_essential_lists, candidate_list>>

\* The terms at the positions from i to j.
ListsFrom(i, j) == {ordered_cursors[p] : p \in i..j}

\* The positions of the lists that do not have the candidate.
Missing ==
  {p \in candidate_list..Last : NextGeq(ordered_cursors[p], candidate) # candidate}

\* Mutated form of Mismatch: the list that was found to differ is not checked
\* again, and the lists before it neither.
MismatchGoesOn ==
  /\ Missing # {}
  /\ LET p == Min(Missing) IN
       /\ MoveCursors(ListsFrom(candidate_list, p), LAMBDA t : NextGeq(t, candidate))
       /\ candidate' = docid'[ordered_cursors[p]]
       /\ candidate_list' = p + 1
  /\ UNCHANGED <<queueVars, results>>

\* The first list without the candidate gives the next one.
Mismatch ==
  /\ Missing # {}
  /\ LET p == Min(Missing) IN
       /\ MoveCursors(ListsFrom(candidate_list, p), LAMBDA t : NextGeq(t, candidate))
       /\ candidate' = docid'[ordered_cursors[p]]
  /\ candidate_list' = 1
  /\ UNCHANGED <<queueVars, results>>

\* Every list has the candidate: it is a result, and the first list goes on.
Agreement ==
  /\ Missing = {}
  /\ Found(ScoreOf(Term))
  /\ docid' = [t \in Term |-> IF t = ordered_cursors[1]
                                THEN Geq(t, candidate + 1) ELSE candidate]
  /\ candidate' = docid'[ordered_cursors[1]]
  /\ candidate_list' = 2

\* ranked_and_query, and_query and scored_and_query.
And ==
  /\ algorithm \in {"ranked_and", "and", "scored_and"}
  /\ Iteration
  /\ Mismatch \/ Agreement
  /\ UNCHANGED <<block, non_essential_lists>>

-----------------------------------------------------------------------------
\* The block of t that the candidate lies in, or the last one.
BlockOf(t) == BlockGeq(wdata.blocks[t], block[t], candidate)
BlockAt(t) == wdata.blocks[t][BlockOf(t)]

\* block_max_next_geq on the terms S.
MoveBlocks(S) == block' = [t \in Term |-> IF t \in S THEN BlockOf(t) ELSE block[t]]

\* block_max_score() * query_weight() over the terms S.
BlockBound(S) == SumFunction([t \in S |-> q.weight[t] * BlockAt(t).score])

\* Mutated form of LeaveBlocks: the search ends one block early.
LeaveBlocksEarly ==
  /\ ~WouldEnter(BlockBound(Term))
  /\ LET next_jump == Min({end} \cup {BlockAt(t).docid : t \in Term})
     IN candidate' = IF candidate >= next_jump - 1 THEN end ELSE next_jump + 1
  /\ candidate_list' = 1
  /\ UNCHANGED <<queueVars, docid, results>>

\* The blocks cannot hold a result: the candidate jumps behind the first of them
\* that ends.  One that has been left for good ends the search.
LeaveBlocks ==
  /\ ~WouldEnter(BlockBound(Term))
  /\ LET next_jump == Min({end} \cup {BlockAt(t).docid : t \in Term})
     IN candidate' = IF candidate = next_jump + 1 THEN end ELSE next_jump + 1
  /\ candidate_list' = 1
  /\ UNCHANGED <<queueVars, docid, results>>

\* block_max_ranked_and_query.
BlockMaxAnd ==
  /\ algorithm = "block_max_ranked_and"
  /\ Iteration
  /\ MoveBlocks(Term)
  /\ \/ LeaveBlocks
     \/ WouldEnter(BlockBound(Term)) /\ (Mismatch \/ Agreement)
  /\ UNCHANGED non_essential_lists

\* block_max_maxscore_query: the terms at the first positions are looked up.
Lookups(p) == ListsFrom(1, p)
EssentialLists == Term \ Lookups(non_essential_lists)
EssentialScore == ScoreOf(AtCandidate(EssentialLists))

\* What the document can still get when the lookup lists from position p on have
\* replaced the bound of the list by that of the block.
BoundFrom(p) ==
  EssentialScore + SumOfBounds(Lookups(p - 1)) + BlockBound(ListsFrom(p, non_essential_lists))

\* Blocks are looked at from the last lookup list down, until the bound fails.
Failed == {p \in 1..non_essential_lists : ~WouldEnter(BoundFrom(p))}
BlocksLookedAt == IF Failed = {} THEN Lookups(non_essential_lists)
                                 ELSE ListsFrom(Max(Failed), non_essential_lists)

\* The score when the lists from position p on have been looked up and the
\* others still count with their blocks.
ScoreFrom(p) ==
  EssentialScore + BlockBound(Lookups(p - 1))
  + ScoreOf({t \in ListsFrom(p, non_essential_lists) : NextGeq(t, candidate) = candidate})

\* Lists are looked up in the same way, unless the blocks have failed.
Blocked == {p \in 1..non_essential_lists : ~WouldEnter(ScoreFrom(p))}
ListsLookedUp == CASE Failed # {} -> {}
                   [] Failed = {} /\ Blocked = {} -> Lookups(non_essential_lists)
                   [] OTHER -> ListsFrom(Max(Blocked), non_essential_lists)

\* The lists whose bounds no longer add up to the threshold are only looked up.
GrowLookups ==
  non_essential_lists' =
    IF queueVars' = queueVars THEN non_essential_lists
    ELSE Max({non_essential_lists} \cup {p \in Position : upper_bounds[p] <= m_threshold'})

\* One document: a bound that fails leaves a score that does not enter.
BlockMaxMaxScore ==
  /\ algorithm = "block_max_maxscore"
  /\ Iteration
  /\ MoveBlocks(BlocksLookedAt)
  /\ docid' = [t \in Term |->
                 IF t \in AtCandidate(EssentialLists) THEN NextPosting(t)
                 ELSE IF t \in ListsLookedUp THEN NextGeq(t, candidate) ELSE docid[t]]
  /\ IF Failed = {} /\ Blocked = {}
       THEN InsertDocument(candidate, ScoreFrom(1))
       ELSE UNCHANGED queueVars
  /\ GrowLookups
  /\ candidate' = Min({end} \cup {docid'[t] : t \in EssentialLists})
  /\ UNCHANGED <<candidate_list, results>>

-----------------------------------------------------------------------------
\* The outer loop ends; range_query goes on to its next range.
NextRange ==
  /\ pc = "doc" /\ ~InLoop
  /\ end < max_docid
  /\ pc' = "setup"
  /\ end' = NextEnd(end)
  /\ StayInRange
  /\ UNCHANGED <<queueVars, cursorVars, algorithm, block, ordered_cursors, upper_bounds,
                 non_essential_lists, candidate, candidate_list, results>>

EndOfCall ==
  /\ pc = "doc" /\ ~InLoop
  /\ end = max_docid
  /\ LeaveRange("end")
  /\ UNCHANGED <<queueVars, cursorVars, collectionVars>>

Next ==
  \/ SetUp
  \/ Or
  \/ And
  \/ BlockMaxAnd
  \/ BlockMaxMaxScore
  \/ NextRange
  \/ EndOfCall
  \/ Finished /\ UNCHANGED collectionVars

Spec == Init /\ [][Next]_vars
FairSpec == Spec /\ WF_vars(Next)

-----------------------------------------------------------------------------
\* A Boolean query finds the documents with some term, or with all terms, in the
\* order of their numbers, each once and scored_and_query with its full score.
BooleanAnswer ==
  pc = "done" /\ algorithm \in Boolean =>
    /\ {results[i].docid : i \in DOMAIN results} =
         IF algorithm = "or" THEN UNION {Docs(t) : t \in Term} ELSE Conjunction
    /\ \A i, j \in DOMAIN results : i < j => results[i].docid < results[j].docid
    /\ algorithm = "scored_and" =>
         \A i \in DOMAIN results :
           results[i].score = ScoreOver(Term, results[i].docid)
=============================================================================
