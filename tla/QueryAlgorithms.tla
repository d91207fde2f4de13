-------------------------- MODULE QueryAlgorithms --------------------------
(***************************************************************************)
(* The dispatch of tools/queries.cpp: a query is answered by one of the    *)
(* document-at-a-time algorithms, picked by its name.  Whichever it is, it *)
(* must implement AnytimeSearch on the documents it ranks.                 *)
(***************************************************************************)
EXTENDS RangeQuery

VARIABLES algorithm, block, order, upper_bounds, first_lookup, next_docid,
          candidate_list, end, results

scoreVars == <<order, upper_bounds, first_lookup, next_docid>>
loneVars == <<candidate_list, end, results>>
vars == <<rangeVars, algorithm, block, scoreVars, loneVars>>

Wand == INSTANCE WandQuery
BlockMaxWand == INSTANCE BlockMaxWandQuery
MaxScore == INSTANCE MaxScoreQuery
Collection == INSTANCE CollectionQuery WITH
  ordered_cursors <- order,
  non_essential_lists <- first_lookup,
  candidate <- next_docid

Position == 1..Cardinality(Term)

\* What the algorithm picked does not use stays at one value.
NoBlocks == block = [t \in Term |-> 1]
NoScores ==
  /\ order = [p \in Position |-> CHOOSE t \in Term : TRUE]
  /\ upper_bounds = [p \in Position |-> 0]
  /\ first_lookup = 0
  /\ next_docid = 0
NotAlone ==
  /\ q.range_size = 0
  /\ candidate_list = 1
  /\ end = max_docid
  /\ results = <<>>

Init ==
  \/ algorithm = "wand" /\ Wand!Init /\ NoBlocks /\ NoScores /\ NotAlone
  \/ algorithm = "block_max_wand" /\ BlockMaxWand!Init /\ NoScores /\ NotAlone
  \/ algorithm = "maxscore" /\ MaxScore!Init /\ NoBlocks /\ NotAlone
  \/ Collection!Init

wand_query ==
  algorithm = "wand" /\ Wand!Next /\ UNCHANGED <<algorithm, block, scoreVars, loneVars>>
block_max_wand_query ==
  algorithm = "block_max_wand" /\ BlockMaxWand!Next
  /\ UNCHANGED <<algorithm, scoreVars, loneVars>>
maxscore_query ==
  algorithm = "maxscore" /\ MaxScore!Next /\ UNCHANGED <<algorithm, block, loneVars>>
other_query ==
  algorithm \notin {"wand", "block_max_wand", "maxscore"} /\ Collection!Next

Next == wand_query \/ block_max_wand_query \/ maxscore_query \/ other_query

Spec == Init /\ [][Next]_vars
FairSpec == Spec /\ WF_vars(Next)

-----------------------------------------------------------------------------
\* wand_query and block_max_wand_query pass over no document: before every
\* cursor everything is decided, and a pivot never leaves a result behind.
CursorsSkipNothing == algorithm \in {"wand", "block_max_wand"} => NothingSkipped

\* The algorithms that go from candidate to candidate pass over no document
\* before the next one, although lists they look up have postings there that
\* no cursor visits.
CandidatesComplete ==
  algorithm \notin {"wand", "block_max_wand"} => MaxScore!CandidatesComplete

\* The blocks of block_max_wand_query never run ahead of the pivot.
BlocksBehindPivot == algorithm = "block_max_wand" => BlockMaxWand!BlocksBehindPivot

\* The timeout of maxscore_query is never compared with an old latency.
ClockIsFresh == algorithm = "maxscore" => MaxScore!ClockIsFresh

\* A Boolean query lists the documents with some or with all of the terms, in
\* order and once.
BooleanAnswer == Collection!BooleanAnswer

\* Lists that are only looked up are asked for documents before that of their
\* cursor, although block_posting_list.hpp asserts that nobody does.  There is
\* never a posting to go back to, so that it does not matter that the sequences
\* of a freq_index go back and a block_posting_list stays.
LookupsIndifferent ==
  LET LookedUp == CASE algorithm = "maxscore" /\ MaxScore!HasCandidate -> MaxScore!LookedUp
                    [] algorithm = "block_max_maxscore" -> Collection!ListsLookedUp
                    [] OTHER -> {}
  IN \A t \in LookedUp : NextGeq(t, next_docid) = Geq(t, next_docid)
=============================================================================
