----------------------------- MODULE RangeQuery -----------------------------
(***************************************************************************)
(* What the member functions of maxscore_query, wand_query and             *)
(* block_max_wand_query have in common: the loop over document ranges, the *)
(* cursors it positions, the bounds it reads and the clock.  MaxScoreQuery,*)
(* WandQuery and BlockMaxWandQuery add how a range is evaluated.           *)
(*                                                                         *)
(* A cursor is the document it stands at, max_docid past its last posting; *)
(* scores are integers, so sums do not depend on their order.  operator()  *)
(* is one range that holds the whole collection.                           *)
(***************************************************************************)
EXTENDS TopKQueue, WandData

CONSTANTS
  Term,       \* the terms of the query
  max_docid,  \* the number of documents
  Ends,       \* the end points of the clusters
  Inputs,     \* the posting lists and arguments of a call
  MaxElapsed  \* bound of the clock

\* A query without terms returns at once.
ASSUME TermAssumption == Term # {} /\ IsFiniteSet(Term)
ASSUME DocAssumption == max_docid \in Nat /\ Doc = 0..(max_docid - 1)

\* The clusters follow one another, and the documents are numbered by cluster.
ASSUME EndsAssumption ==
  /\ Ends \in Seq(0..max_docid)
  /\ \A c, d \in DOMAIN Ends : c <= d => Ends[c] <= Ends[d]

Cluster == DOMAIN Ends
RangeOf == AllRanges(Ends)      \* m_range_to_docid
ClusterOf == DocToRange(Ends)   \* how the wand data assigns documents
Kind == {"full", "ordered", "boundsum", "timeout"}

\* post is the score of every posting of a term; weight is how often the query
\* has the term; block_size is the number of postings in a block of the wand
\* data; range_size is that of range_query, 0 without it; the rest are the member
\* function called and its arguments.
IsList(post) ==
  /\ DOMAIN post \in (SUBSET Doc) \ {{}}
  /\ \A d \in DOMAIN post : post[d] \in Nat \ {0}
ASSUME InputAssumption ==
  \A in \in Inputs :
    /\ DOMAIN in.post = Term /\ \A t \in Term : IsList(in.post[t])
    /\ in.weight \in [Term -> Nat \ {0}]
    /\ in.block_size \in Nat \ {0}
    /\ in.kind \in Kind /\ in.selected \in Seq(Cluster)
    /\ {in.threshold, in.max_clusters, in.timeout, in.risk, in.range_size} \subseteq Nat

VARIABLES
  q,          \* the call, fixed
  wdata,      \* the wand data of the posting lists, fixed
  corpus,     \* what the lists amount to, as AnytimeSearch has it, fixed
  pc,         \* "select", "setup", "doc" or "done"
  docid,      \* where the cursor of each term stands
  max_score,  \* the bound of each cursor
  range,      \* [start, end) of the range being evaluated
  todo,       \* ranges not visited yet
  processed,  \* processed_clusters
  covered,    \* documents of the ranges evaluated so far
  cut,        \* TRUE when max_clusters or the clock ended the search
  elapsed,    \* elapsed_latency
  timed       \* how often the clock was read

inputVars == <<q, wdata, corpus>>
cursorVars == <<docid, max_score>>
loopVars == <<range, todo, processed, covered, cut, elapsed, timed>>
rangeVars == <<queueVars, inputVars, pc, cursorVars, loopVars>>

-----------------------------------------------------------------------------
(* Cursors and bounds.                                                      *)

Docs(t) == DOMAIN q.post[t]
Score(t, d) == IF d \in Docs(t) THEN q.post[t][d] ELSE 0

\* The score of document d over the terms S.
ScoreOver(S, d) == SumFunctionOnSet([t \in S |-> Score(t, d)], S)

\* The first posting of t at or after document d: global_geq(d).
Geq(t, d) == Min({e \in Docs(t) : d <= e} \cup {max_docid})

\* next_geq(d) does not move back, next() goes to the following posting.
NextGeq(t, d) == Geq(t, Max({d, docid[t]}))
NextPosting(t) == Geq(t, docid[t] + 1)

Highest(t, D) == Max({0} \cup {Score(t, d) : d \in D})

\* What WandDataBuilder builds for the lists, as sets of documents tell it.
WandDataOf(post, size) ==
  [list |-> [t \in Term |-> Highest(t, Doc)],
   range |-> [t \in Term |->
                [c \in Cluster |->
                   Highest(t, {d \in DOMAIN ClusterOf : ClusterOf[d] = c - 1})]],
   blocks |-> [t \in Term |-> Blocks(PostingList(post[t]), size)]]

\* The bounds of a cursor: update_range_max_score and the constructor take the
\* weight of the term in, get_range_max_score does not, and neither does score().
RangeBound(t, c) == q.weight[t] * wdata.range[t][c]
ListBound(t) == q.weight[t] * wdata.list[t]

\* The sum of get_range_max_score over the cursors.
BoundSum(c) == corpus.bound[c]
SumOfBounds(S) == SumFunctionOnSet(max_score, S)

\* The documents the range in hand is about.
Scope(r) == {d \in Doc : InRange(r, d)}
FullScore(d) == corpus.score[d]

\* The collection as the queue sees it, for an algorithm whose results are the
\* documents D.
CorpusOver(D) ==
  [score |-> [d \in Doc |-> IF d \in D THEN ScoreOver(Term, d) ELSE 0],
   docsOf |-> [c \in Cluster |-> Scope(RangeOf[c])],
   bound |-> [c \in Cluster |-> SumFunction([t \in Term |-> wdata.range[t][c]])]]

WholeCollection == [lower |-> 0, upper |-> max_docid]
NoRange == [lower |-> 0, upper |-> 0]

-----------------------------------------------------------------------------
(* The loop over the ranges.                                                *)

Full == q.kind = "full"

\* A call for the documents D with a queue that holds nothing; operator() starts
\* evaluating.
RangeInit(D) ==
  /\ q \in Inputs
  /\ wdata = WandDataOf(q.post, q.block_size)
  /\ corpus = CorpusOver(D)
  /\ m_q = {}
  /\ m_threshold = q.threshold
  /\ pc = IF Full THEN "setup" ELSE "select"
  /\ docid = [t \in Term |-> Geq(t, 0)]
  /\ max_score = [t \in Term |-> ListBound(t)]
  /\ range = IF Full THEN WholeCollection ELSE NoRange
  /\ todo = Cluster
  /\ processed = 0
  /\ covered = {}
  /\ cut = FALSE
  /\ elapsed = 0
  /\ timed = 0

\* Mutated form of IsNext: the ranges are visited from the lowest bound.
IsWorst(c) ==
  IF q.kind = "ordered"
    THEN processed < Len(q.selected) /\ c = q.selected[processed + 1]
    ELSE c \in todo /\ \A s \in todo : BoundSum(s) >= BoundSum(c)

\* The next range of the list given, or of the ranges by decreasing BoundSum.
IsNext(c) ==
  IF q.kind = "ordered"
    THEN processed < Len(q.selected) /\ c = q.selected[processed + 1]
    ELSE c \in todo /\ \A s \in todo : BoundSum(s) <= BoundSum(c)

\* elapsed_latency + risk_factor * mean_latency > timeout_microseconds, where
\* the mean is elapsed_latency / processed_clusters once a range was timed.
OutOfTime == elapsed * processed + q.risk * elapsed > q.timeout * processed

OutOfBudget == IF q.kind = "timeout" THEN OutOfTime
                                     ELSE processed = q.max_clusters

\* Mutated form of Hopeless: the search visits every range.
NeverHopeless(c) == FALSE

\* The bound of no range left reaches the threshold.
Hopeless(c) == q.kind # "ordered" /\ ~WouldEnter(BoundSum(c))

\* One iteration begins: its range is picked, the cursors are positioned at its
\* first document and get its bounds.
StartRange(c) ==
  /\ pc = "select"
  /\ IsNext(c)
  /\ ~OutOfBudget /\ ~Hopeless(c)
  /\ pc' = "setup"
  /\ todo' = todo \ {c}
  /\ processed' = processed + 1
  /\ range' = RangeOf[c]
  /\ docid' = [t \in Term |-> Geq(t, range'.lower)]
  /\ max_score' = [t \in Term |-> RangeBound(t, c)]
  /\ UNCHANGED <<queueVars, inputVars, covered, cut, elapsed, timed>>

\* The termination check, or no range left.
Stop ==
  /\ pc = "select"
  /\ \A c \in Cluster : IsNext(c) => OutOfBudget \/ Hopeless(c)
  /\ pc' = "done"
  /\ cut' = \E c \in Cluster : IsNext(c) /\ ~Hopeless(c)
  /\ UNCHANGED <<queueVars, inputVars, cursorVars, range, todo, processed, covered,
                 elapsed, timed>>

\* The range in hand is left: with continue, which skips the clock, or at the
\* end of the body, where boundsum_timeout_query reads it.
LeaveRange(by) ==
  /\ pc' = IF Full THEN "done" ELSE "select"
  /\ covered' = covered \cup Scope(range)
  /\ range' = NoRange
  /\ IF by = "end" /\ q.kind = "timeout"
       THEN elapsed' \in elapsed..MaxElapsed /\ timed' = timed + 1
       ELSE UNCHANGED <<elapsed, timed>>
  /\ UNCHANGED <<inputVars, todo, processed, cut>>

\* Inside a range: the loop over the ranges waits.
StayInRange == UNCHANGED <<inputVars, loopVars>>

\* A document with its score goes to the queue.
InsertDocument(d, score) ==
  Insert([score |-> score, docid |-> d, visit |-> processed])

Finished == pc = "done" /\ UNCHANGED rangeVars

-----------------------------------------------------------------------------
(* What wand_query and block_max_wand_query share: the cursors are kept      *)
(* sorted by document, and the pivot is the first of them at which the sum   *)
(* of the bounds would enter.  std::sort leaves the order of cursors at the  *)
(* same document open; so do the sets below.                                 *)

\* Skip ranges that are dead, which ordered_range_query tells from the sum of the
\* weighted bounds.  boundsum_range_query of wand_query only repeats the check
\* it has just passed.
Dead == q.kind = "ordered" /\ ~WouldEnter(SumOfBounds(Term))

SetUpPivots ==
  /\ pc = "setup"
  /\ IF Dead THEN LeaveRange("continue")
             ELSE pc' = "doc" /\ StayInRange
  /\ UNCHANGED <<queueVars, cursorVars>>

\* The cursors at or before document d.
UpTo(d) == {t \in Term : docid[t] <= d}

\* The documents of the range at which the bounds add up to enough; the first
\* of them, if any, is the pivot's.
Candidates ==
  {d \in {docid[t] : t \in Term} :
     d < range.upper /\ WouldEnter(SumOfBounds(UpTo(d)))}
Pivot == {d \in Candidates : \A e \in Candidates : d <= e}

\* Every cursor before the pivot is at its document.
Aligned(pivot_id) == \A t \in UpTo(pivot_id) : docid[t] = pivot_id

\* t is the last cursor before the pivot in some sorted order.
IsFarthest(t, pivot_id) ==
  /\ docid[t] < pivot_id
  /\ \A s \in Term : docid[s] < pivot_id => docid[s] <= docid[t]

\* The cursors t move to the documents to(t).
MoveCursors(S, to(_)) ==
  docid' = [t \in Term |-> IF t \in S THEN to(t) ELSE docid[t]]

\* No pivot found: the range is finished.
NoPivot ==
  /\ pc = "doc"
  /\ Pivot = {}
  /\ LeaveRange("end")
  /\ UNCHANGED <<queueVars, cursorVars>>

-----------------------------------------------------------------------------
InResult(d) == [score |-> FullScore(d), docid |-> d, visit |-> processed] \in m_q

\* Everything in the range that lies before document d is decided: it is in the
\* result with its full score or could not enter any more.
SettledBelow(d) ==
  \A e \in Scope(range) : e < d => InResult(e) \/ ~WouldEnter(FullScore(e))

\* No document is passed over: before every cursor everything is decided.
NothingSkipped == pc = "doc" => SettledBelow(Min({docid[t] : t \in Term}))

\* The algorithm is an implementation of AnytimeSearch: a range is left only
\* when it is settled, documents enter with their full score and once.
Search == INSTANCE AnytimeSearch WITH
  Corpora <- {c \in [score : [Doc -> Nat],
                     docsOf : [Cluster -> SUBSET Doc],
                     bound : [Cluster -> Nat]] :
                /\ \A r \in Cluster : \A d \in c.docsOf[r] : c.score[d] <= c.bound[r]
                /\ \A r, s \in Cluster :
                     r # s => c.docsOf[r] \cap c.docsOf[s] = {}},
  Plans <- [kind : Kind, selected : Seq(Cluster), max_clusters : Nat,
            threshold : Nat, safe : BOOLEAN],
  plan <- [kind |-> q.kind, selected |-> q.selected,
           max_clusters |-> q.max_clusters, threshold |-> q.threshold,
           safe |-> FALSE],
  pc <- CASE pc \in {"setup", "doc"} -> "range"
          [] pc \in {"select", "done"} -> pc,
  attempt <- 1,
  scope <- Scope(range)

AnytimeSpec == Search!Spec

\* Every query ends: each iteration moves a cursor.
Terminates == <>(pc = "done")
=============================================================================
