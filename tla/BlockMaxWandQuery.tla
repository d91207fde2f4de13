-------------------------- MODULE BlockMaxWandQuery --------------------------
(***************************************************************************)
(* block_max_wand_query.hpp.  As wand_query, but a pivot must also pass    *)
(* the bounds of the blocks it lies in; when it does not, a cursor skips   *)
(* to where one of the blocks ends.  One iteration of the inner loop is    *)
(* one step.                                                               *)
(***************************************************************************)
EXTENDS RangeQuery

VARIABLE block  \* where the cursor of each term stands in the blocks of its list

vars == <<rangeVars, block>>

Init == RangeInit(Doc) /\ block = [t \in Term |-> 1]

\* Mutated form of StartBlocks: the blocks stay where the last range left them.
StartWithOldBlocks(c) ==
  /\ StartRange(c)
  /\ UNCHANGED block

\* block_max_global_geq comes with global_geq.
StartBlocks(c) ==
  /\ StartRange(c)
  /\ block' = [t \in Term |-> BlockGeq(wdata.blocks[t], 1, range'.lower)]

\* The blocks of the cursors up to the pivot move to the pivot.
MoveBlocks(pivot_id) ==
  block' = [t \in Term |-> IF t \in UpTo(pivot_id)
                             THEN BlockGeq(wdata.blocks[t], block[t], pivot_id)
                             ELSE block[t]]

\* A cursor's block after that.
Block(t) == wdata.blocks[t][block'[t]]

\* block_upper_bound when the cursors S have been scored: their bound is
\* replaced by their score.
BlockUpperBound(pivot_id, S) ==
  SumFunction([t \in UpTo(pivot_id) |-> IF t \in S THEN Score(t, pivot_id)
                                         ELSE q.weight[t] * Block(t).score])

BlocksPass(pivot_id) == WouldEnter(BlockUpperBound(pivot_id, {}))

\* The cursors scored before the loop over them ends, with all of them or as
\* soon as the bound that is left would not enter.
Scored(pivot_id, S) ==
  /\ \E t \in S : WouldEnter(BlockUpperBound(pivot_id, S \ {t}))
  /\ S = UpTo(pivot_id) \/ ~WouldEnter(BlockUpperBound(pivot_id, S))

\* Every cursor before the pivot is at it: the document is scored and all of
\* them go on.
Match(pivot_id) ==
  /\ BlocksPass(pivot_id) /\ Aligned(pivot_id)
  /\ \E S \in SUBSET UpTo(pivot_id) :
       /\ Scored(pivot_id, S)
       /\ InsertDocument(pivot_id, ScoreOver(S, pivot_id))
  /\ MoveCursors(UpTo(pivot_id), NextPosting)

\* No match: the farthest cursor moves up to the pivot.
Advance(pivot_id) ==
  /\ BlocksPass(pivot_id) /\ ~Aligned(pivot_id)
  /\ \E t \in Term :
       /\ IsFarthest(t, pivot_id)
       /\ MoveCursors({t}, LAMBDA s : NextGeq(s, pivot_id))
  /\ UNCHANGED queueVars

\* The first document that may have higher block bounds: after the first end of
\* a block, but not after the next cursor, and always after the pivot.
NextCandidate(pivot_id) ==
  Max({pivot_id + 1,
       Min({Block(t).docid + 1 : t \in UpTo(pivot_id)}
           \cup {range.upper + 1} \cup {docid[t] : t \in Term \ UpTo(pivot_id)})})

\* The cursor with the highest bound of those up to the pivot; among equal
\* ones a cursor at the pivot, else the first in the order of documents.
IsHeaviest(t, pivot_id) ==
  /\ t \in UpTo(pivot_id)
  /\ \A s \in UpTo(pivot_id) : max_score[s] <= max_score[t]
  /\ docid[t] < pivot_id =>
       /\ \E s \in UpTo(pivot_id) :
            docid[s] = pivot_id /\ max_score[s] < max_score[t]
       /\ \A s \in UpTo(pivot_id) :
            docid[s] < docid[t] => max_score[s] < max_score[t]

\* The blocks do not pass: the cursor with the highest bound skips ahead.
SkipBlocks(pivot_id) ==
  /\ ~BlocksPass(pivot_id)
  /\ \E t \in Term :
       /\ IsHeaviest(t, pivot_id)
       /\ MoveCursors({t}, LAMBDA s : NextGeq(s, NextCandidate(pivot_id)))
  /\ UNCHANGED queueVars

\* The pivot is dealt with.
AtPivot ==
  /\ pc = "doc"
  /\ \E pivot_id \in Pivot :
       /\ MoveBlocks(pivot_id)
       /\ Match(pivot_id) \/ Advance(pivot_id) \/ SkipBlocks(pivot_id)
  /\ StayInRange
  /\ UNCHANGED <<pc, max_score>>

Evaluate ==
  \/ (SetUpPivots \/ NoPivot) /\ UNCHANGED block
  \/ AtPivot
VisitRange ==
  \/ Stop /\ UNCHANGED block
  \/ \E c \in Cluster : StartBlocks(c)

\* The member functions.
Whole == Full /\ Evaluate
ordered_range_query == q.kind = "ordered" /\ (VisitRange \/ Evaluate)
boundsum_range_query == q.kind = "boundsum" /\ (VisitRange \/ Evaluate)
boundsum_timeout_query == q.kind = "timeout" /\ (VisitRange \/ Evaluate)

Next ==
  \/ Whole
  \/ ordered_range_query
  \/ boundsum_range_query
  \/ boundsum_timeout_query
  \/ Finished /\ UNCHANGED block

Spec == Init /\ [][Next]_vars
FairSpec == Spec /\ WF_vars(Next)

-----------------------------------------------------------------------------
\* The block of a cursor is never a later one than the pivot lies in, whose
\* bound could be lower: blocks only move forward in a range, so this needs the
\* pivots of a range to increase.
BlocksBehindPivot ==
  pc = "doc" =>
    \A pivot_id \in Pivot, t \in Term :
      block[t] > 1 => wdata.blocks[t][block[t] - 1].docid < pivot_id
=============================================================================
