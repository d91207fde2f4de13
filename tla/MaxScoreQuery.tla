---------------------------- MODULE MaxScoreQuery ----------------------------
(***************************************************************************)
(* maxscore_query.hpp.  The cursors are sorted once by decreasing bound.   *)
(* The first ones are essential: a document that has none of them cannot   *)
(* enter, so only they produce candidates, and the others are looked up.   *)
(* One candidate document is one step.                                     *)
(***************************************************************************)
EXTENDS RangeQuery

VARIABLES
  order,         \* the terms as sorted() leaves them
  upper_bounds,  \* the bound of the terms from each position on
  first_lookup,  \* how many of the terms are essential
  next_docid     \* the next candidate

scoreVars == <<order, upper_bounds, first_lookup, next_docid>>
vars == <<rangeVars, scoreVars>>

Position == 1..Cardinality(Term)

\* sorted(): by the bound of the whole list, equal bounds in any order.
InOrder(o) ==
  /\ \A i, j \in Position : o[i] = o[j] => i = j
  /\ \A i, j \in Position : i < j => max_score[o[i]] >= max_score[o[j]]

min_docid == Min({docid[t] : t \in Term})

Init ==
  /\ RangeInit(Doc)
  /\ order \in [Position -> Term] /\ InOrder(order)
  /\ upper_bounds = [p \in Position |-> 0]
  /\ first_lookup = 0
  /\ next_docid = max_docid

\* calc_upper_bounds and its copies in the range functions.
calc_upper_bounds ==
  [p \in Position |-> SumOfBounds({order[i] : i \in p..Cardinality(Term)})]

\* update_non_essential_lists: how many of n essential lists stay so; 0 ends
\* the range.
update_non_essential_lists(bounds, n, threshold) ==
  Max({0} \cup {p \in 1..n : bounds[p] > threshold})

\* The bounds of the range are summed up; ordered_range_query skips a dead range
\* first, and all skip it when no list is essential.
SetUp ==
  /\ pc = "setup"
  /\ upper_bounds' = calc_upper_bounds
  /\ first_lookup' =
       update_non_essential_lists(upper_bounds', Cardinality(Term), m_threshold)
  /\ next_docid' = min_docid
  /\ IF \/ q.kind = "ordered" /\ ~WouldEnter(SumOfBounds(Term))
        \/ first_lookup' = 0
       THEN LeaveRange("continue")
       ELSE pc' = "doc" /\ StayInRange
  /\ UNCHANGED <<queueVars, cursorVars, order>>

Essential == {order[i] : i \in 1..first_lookup}

\* The score of a document before position p is looked up: all essential lists
\* and the lookup lists before p that next_geq brings to the document.
ScoreBefore(p) ==
  LET terms == Essential \cup {order[i] : i \in (first_lookup + 1)..(p - 1)}
  IN ScoreOver({t \in terms : NextGeq(t, next_docid) = next_docid}, next_docid)

\* The positions at which the score and the bounds that are left do not enter.
Blocked ==
  {p \in (first_lookup + 1)..Cardinality(Term) :
     ~WouldEnter(ScoreBefore(p) + upper_bounds[p])}
LookedUp ==
  {order[i] : i \in {p \in (first_lookup + 1)..Cardinality(Term) :
                       \A b \in Blocked : p < b}}

\* Mutated form of Moved: a list that is looked up goes on by one posting.
MovedByNext ==
  [t \in Term |->
     IF t \in Essential
       THEN IF docid[t] = next_docid THEN NextPosting(t) ELSE docid[t]
       ELSE IF t \in LookedUp THEN NextPosting(t) ELSE docid[t]]

\* The positions of the cursors after the candidate was scored.
Moved ==
  [t \in Term |->
     IF t \in Essential
       THEN IF docid[t] = next_docid THEN NextPosting(t) ELSE docid[t]
       ELSE IF t \in LookedUp THEN NextGeq(t, next_docid) ELSE docid[t]]

HasCandidate == pc = "doc" /\ first_lookup > 0 /\ next_docid < range.upper

\* One candidate: the essential lists move on, the others are looked up until
\* the bound rules the document out; if it does not, the document is inserted.
\* A score that does not enter leaves the lists as they are.
Candidate ==
  /\ HasCandidate
  /\ docid' = Moved
  /\ next_docid' = Min({range.upper} \cup {docid'[t] : t \in Essential})
  /\ IF Blocked = {}
       THEN /\ InsertDocument(next_docid, ScoreBefore(Cardinality(Term) + 1))
            /\ first_lookup' = update_non_essential_lists(upper_bounds, first_lookup, m_threshold')
       ELSE UNCHANGED <<queueVars, first_lookup>>
  /\ StayInRange
  /\ UNCHANGED <<pc, max_score, order, upper_bounds>>

\* No candidate is left in the range or no list is essential any more.  In the
\* range functions the end of the range is then inserted with score 0, which
\* never enters.
NoCandidate ==
  /\ pc = "doc"
  /\ ~HasCandidate
  /\ LeaveRange("end")
  /\ UNCHANGED <<queueVars, cursorVars, scoreVars>>

Evaluate == SetUp \/ Candidate \/ NoCandidate
VisitRange ==
  /\ Stop \/ \E c \in Cluster : StartRange(c)
  /\ UNCHANGED scoreVars

\* The member functions.
run_sorted == Full /\ Evaluate
ordered_range_query == q.kind = "ordered" /\ (VisitRange \/ Evaluate)
boundsum_range_query == q.kind = "boundsum" /\ (VisitRange \/ Evaluate)
boundsum_timeout_query == q.kind = "timeout" /\ (VisitRange \/ Evaluate)

Next ==
  \/ run_sorted
  \/ ordered_range_query
  \/ boundsum_range_query
  \/ boundsum_timeout_query
  \/ Finished /\ UNCHANGED scoreVars

Spec == Init /\ [][Next]_vars
FairSpec == Spec /\ WF_vars(Next)

-----------------------------------------------------------------------------
\* No document before the next candidate is passed over, although the lists
\* that are looked up have postings there that no cursor ever visits.
CandidatesComplete == pc = "doc" => SettledBelow(next_docid)

\* Whenever the timeout is looked at, the latency it is compared with includes
\* every range processed: the continue that skips the clock is never taken, as
\* a range whose BoundSum would enter has an essential list.
ClockIsFresh == pc = "select" /\ q.kind = "timeout" => timed = processed
=============================================================================
