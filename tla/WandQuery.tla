------------------------------ MODULE WandQuery ------------------------------
(***************************************************************************)
(* wand_query.hpp.  One iteration of the inner loop is one step.           *)
(***************************************************************************)
EXTENDS RangeQuery

vars == rangeVars

Init == RangeInit(Doc)

\* Mutated form of Match: the cursors stay at the document.
MatchStays(pivot_id) ==
  /\ Aligned(pivot_id)
  /\ InsertDocument(pivot_id, ScoreOver(UpTo(pivot_id), pivot_id))
  /\ UNCHANGED docid

\* Every cursor before the pivot is at it: the document is scored.
Match(pivot_id) ==
  /\ Aligned(pivot_id)
  /\ InsertDocument(pivot_id, ScoreOver(UpTo(pivot_id), pivot_id))
  /\ MoveCursors(UpTo(pivot_id), NextPosting)

\* Mutated form of Advance: the cursor moves past the pivot.
AdvanceTooFar(pivot_id) ==
  /\ ~Aligned(pivot_id)
  /\ \E t \in Term :
       /\ IsFarthest(t, pivot_id)
       /\ MoveCursors({t}, LAMBDA s : NextGeq(s, pivot_id + 1))
  /\ UNCHANGED queueVars

\* No match: the farthest cursor moves up to the pivot.
Advance(pivot_id) ==
  /\ ~Aligned(pivot_id)
  /\ \E t \in Term :
       /\ IsFarthest(t, pivot_id)
       /\ MoveCursors({t}, LAMBDA s : NextGeq(s, pivot_id))
  /\ UNCHANGED queueVars

\* The pivot is dealt with.
AtPivot ==
  /\ pc = "doc"
  /\ \E pivot_id \in Pivot : Match(pivot_id) \/ Advance(pivot_id)
  /\ StayInRange
  /\ UNCHANGED <<pc, max_score>>

Evaluate == SetUpPivots \/ NoPivot \/ AtPivot
VisitRange == Stop \/ \E c \in Cluster : StartRange(c)

\* The member functions.
Whole == Full /\ Evaluate
ordered_range_query == q.kind = "ordered" /\ (VisitRange \/ Evaluate)
boundsum_range_query == q.kind = "boundsum" /\ (VisitRange \/ Evaluate)
boundsum_timeout_query == q.kind = "timeout" /\ (VisitRange \/ Evaluate)

Next ==
  \/ Whole
  \/ ordered_range_query
  \/ boundsum_range_query
  \/ boundsum_timeout_query
  \/ Finished

Spec == Init /\ [][Next]_vars
FairSpec == Spec /\ WF_vars(Next)

=============================================================================
