----------------------------- MODULE TopKClient -----------------------------
(***************************************************************************)
(* topk_queue as the query algorithms use it: one queue, an estimate of    *)
(* the threshold set while it is empty, then insertions, then finalize.    *)
(* clear makes the queue ready for the next query.  What the calls have    *)
(* offered since the last clear is remembered, so that the content of the  *)
(* queue can be compared with what a top-k query promises.                 *)
(***************************************************************************)
EXTENDS TopKQueue

CONSTANTS
  Scores,   \* the scores documents are offered with
  MaxCalls  \* bound on the insertions between two clears

ASSUME ScoresAssumption == Scores \subseteq Nat
ASSUME MaxCallsAssumption == MaxCalls \in Nat

VARIABLES
  offered,  \* entries offered since the last clear
  floor,    \* the threshold the current query started from
  calls,    \* insertions since the last clear
  stage     \* "fill" until finalize, then "ranked"

clientVars == <<m_q, m_threshold, offered, floor, calls, stage>>

InitClient ==
  /\ InitQueue
  /\ offered = {}
  /\ floor = 0
  /\ calls = 0
  /\ stage = "fill"

\* The callers set the threshold right after the queue is built.
UseEstimate(t) ==
  /\ stage = "fill"
  /\ calls = 0
  /\ SetThreshold(t)
  /\ floor' = t
  /\ UNCHANGED <<offered, calls, stage>>

Offer(score, docid) ==
  LET entry == [score |-> score, docid |-> docid, visit |-> calls]
  IN /\ stage = "fill"
     /\ calls < MaxCalls
     /\ Insert(entry)
     /\ offered' = offered \cup {entry}
     /\ calls' = calls + 1
     /\ UNCHANGED <<floor, stage>>

Rank ==
  /\ stage = "fill"
  /\ Finalize
  /\ stage' = "ranked"
  /\ UNCHANGED <<offered, floor, calls>>

Reuse ==
  /\ Clear
  /\ offered' = {}
  /\ floor' = 0
  /\ calls' = 0
  /\ stage' = "fill"

NextClient ==
  \/ \E t \in Scores : UseEstimate(t)
  \/ \E score \in Scores, docid \in Doc : Offer(score, docid)
  \/ Rank
  \/ Reuse

SpecClient == InitClient /\ [][NextClient]_clientVars

-----------------------------------------------------------------------------
\* Type invariant of the queue and of what is remembered of its use.
ClientTypeOK ==
  /\ m_q \in SUBSET Entry
  /\ IsFiniteSet(m_q)
  /\ m_threshold \in Nat
  /\ offered \in SUBSET Entry
  /\ floor \in Nat
  /\ calls \in 0..MaxCalls
  /\ stage \in {"fill", "ranked"}

\* The threshold is the lowest score of a full queue and the estimate the
\* query started from while there is room: what insert maintains by hand in
\* its two branches.
ThresholdIsFront == HeapInv(floor)

\* The queue holds the best of all it was offered: an entry that is not in it
\* scores no more than any entry that is, and is left out while there is room
\* only when its score does not exceed the estimate the query started from.
HoldsTheBest ==
  \A e \in offered \ m_q :
    /\ e.score <= m_threshold
    /\ Cardinality(m_q) < K => e.score <= floor

\* finalize cuts the ranking at the first score that is not positive; it must
\* never cut a result, and so returns as many results as the queue has
\* accepted, up to K.
FinalizeLosesNothing ==
  [][stage' = "ranked" =>
       Cardinality(m_q') =
         IF Cardinality({e \in offered : e.score > floor}) < K
           THEN Cardinality({e \in offered : e.score > floor})
           ELSE K]_clientVars
=============================================================================
