------------------------ MODULE AnytimeSearch_proofs ------------------------
(***************************************************************************)
(* Rank safety of the anytime search for every collection, every K, every  *)
(* order of ranges and every budget.                                       *)
(***************************************************************************)
EXTENDS AnytimeSearch, CommonFacts

\* The inputs are among the collections and calls the assumptions speak of.
InputInv == corpus \in Corpora /\ plan \in Plans

\* Which ranges were begun, and that every one begun is in scope or covered.
VisitInv ==
  /\ \A r \in Cluster \ todo : corpus.docsOf[r] \subseteq covered \cup scope
  /\ pc # "range" => scope = {}
  /\ Full => (pc = "range" /\ scope = Doc) \/ covered = Doc
  /\ Full => pc # "select"
  /\ Ordered => /\ processed <= Len(plan.selected)
                /\ \A i \in 1..processed : plan.selected[i] \notin todo

\* What a search that ended, and a query that was answered, rest on.
EndInv ==
  /\ pc \in {"done", "returned", "answered"} /\ ~cut /\ ~Full =>
       IF Ordered
         THEN processed = Len(plan.selected)
         ELSE \A r \in todo : corpus.bound[r] <= m_threshold
  /\ pc = "answered" => attempt = 2 \/ ~TooFew

Ended == {"done", "returned", "answered"}

\* The inductive invariant.
IInv ==
  /\ InputInv
  /\ TypeOK
  /\ QueueInv
  /\ CoveredIsRankSafe
  /\ VisitInv
  /\ EndInv

\* What the assumptions say of the inputs.
LEMMA InputTypes ==
  ASSUME InputInv
  PROVE  /\ corpus.score \in [Doc -> Nat]
         /\ corpus.docsOf \in [Cluster -> SUBSET Doc]
         /\ corpus.bound \in [Cluster -> Nat]
         /\ plan.kind \in {"full", "ordered", "boundsum", "timeout"}
         /\ plan.selected \in Seq(Cluster)
         /\ plan.max_clusters \in Nat
         /\ plan.threshold \in Nat
         /\ plan.safe \in BOOLEAN
         /\ corpus \in Corpus
         /\ plan \in Plan
         /\ \A r \in Cluster : \A d \in corpus.docsOf[r] :
              corpus.score[d] <= corpus.bound[r]
BY CorporaAssumption, PlansAssumption, BoundAssumption
DEF InputInv, Corpus, Plan

\* A query starts with a good queue and nothing covered.
LEMMA SearchInit == Init => IInv
<1> SUFFICES ASSUME Init PROVE IInv
  OBVIOUS
<1>1. InputInv
  BY DEF Init, InputInv
<1>2. GoodQueue(plan.threshold)
  BY <1>1, InputTypes, FS_EmptySet, KAssumption DEF Init, GoodQueue, HeapInv
<1>3. TypeOK
  BY <1>1, <1>2, InputTypes DEF Init, TypeOK, GoodQueue, Full
<1>4. QueueInv
  BY <1>2 DEF Init, QueueInv, Floor, GoodQueue
<1>5. CoveredIsRankSafe
  BY DEF Init, CoveredIsRankSafe
<1>6. VisitInv
  BY <1>1, InputTypes DEF Init, VisitInv, Full, Ordered
<1>7. EndInv
  BY DEF Init, EndInv, Full
<1> QED BY <1>1, <1>3, <1>4, <1>5, <1>6, <1>7 DEF IInv

\* A step that leaves the queue, the attempt and the inputs alone keeps QueueInv.
LEMMA QueueUnchanged ==
  ASSUME QueueInv, UNCHANGED <<queueVars, inputVars, attempt>>
  PROVE  QueueInv'
BY DEF QueueInv, HeapInv, Floor, IsFront, IsLowest, queueVars, inputVars

\* No step changes the collection or the call.
LEMMA StepInputs ==
  ASSUME IInv, [Next]_vars
  PROVE  InputInv' /\ corpus' = corpus /\ plan' = plan
BY DEF IInv, InputInv, Next, vars, inputVars, StartRange, Enter, FinishRange,
       StopExhausted, StopEarly, Return, Rerun, Accept, Answered

\* The queue of a search is good from the threshold its run started with.
LEMMA SearchQueueGood ==
  ASSUME IInv
  PROVE  /\ Floor \in Nat
         /\ GoodQueue(Floor)
         /\ \A d \in Doc : EntryFor(d) \in Entry
BY InputTypes DEF IInv, TypeOK, QueueInv, GoodQueue, Floor, EntryFor, Entry

\* What entering makes of the queue.
LEMMA EnterQueue ==
  ASSUME IInv, NEW d \in Doc, Enter(d)
  PROVE  /\ m_q' \in SUBSET Entry
         /\ IsFiniteSet(m_q')
         /\ m_threshold' \in Nat
         /\ Cardinality(m_q') <= K
         /\ IF Cardinality(m_q') = K THEN IsFront(m_threshold', m_q')
                                     ELSE m_threshold' = Floor
         /\ \A e \in m_q' : e.score > Floor
         /\ m_threshold' >= m_threshold
         /\ m_q' \subseteq m_q \cup {EntryFor(d)}
         /\ \A e \in (m_q \cup {EntryFor(d)}) \ m_q' : e.score <= m_threshold'
<1>1. PICK floor \in Nat : floor = Floor
  BY SearchQueueGood
<1>2. PICK entry \in Entry : entry = EntryFor(d)
  BY SearchQueueGood
<1>3. PICK S \in SUBSET Entry : S = m_q
  BY SearchQueueGood DEF GoodQueue
<1>4. PICK t \in Nat : t = m_threshold
  BY SearchQueueGood DEF GoodQueue
<1>5. PICK T : T = m_q'
  OBVIOUS
<1>6. PICK u : u = m_threshold'
  OBVIOUS
<1>7. QueueFrom(floor, K, S, t)
  BY <1>1, <1>3, <1>4, SearchQueueGood
  DEF GoodQueue, HeapInv, IsFront, IsLowest, FrontScore, QueueFrom
<1>8. entry \notin S /\ Enters(K, S, t, entry, T, u)
  BY <1>2, <1>3, <1>4, <1>5, <1>6
  DEF Enter, Push, Replace, WouldEnter, ThresholdFromFront, IsFront, IsLowest, FrontScore, Enters
<1>9. \A e \in Entry : e.score \in Nat
  BY DEF Entry
<1>10. /\ T \in SUBSET Entry /\ u \in Nat /\ QueueFrom(floor, K, T, u)
       /\ u >= t
       /\ T \subseteq S \cup {entry}
       /\ \A e \in (S \cup {entry}) \ T : e.score <= u
  BY <1>7, <1>8, <1>9, KAssumption, InsertFacts
<1> QED
  BY <1>1, <1>2, <1>3, <1>4, <1>5, <1>6, <1>10 DEF QueueFrom, IsFront, IsLowest, FrontScore

\* A document enters: what it displaces can no longer enter.
LEMMA EnterStep ==
  ASSUME IInv, NEW d \in Doc, Enter(d)
  PROVE  IInv'
<1>1. /\ UNCHANGED <<inputVars, pc, attempt, searchVars>>
      /\ Floor' = Floor /\ pc = "range"
      /\ EntryFor(d) \notin m_q
  BY DEF Enter, Floor, inputVars
<1>2. /\ m_q' \in SUBSET Entry
      /\ IsFiniteSet(m_q')
      /\ m_threshold' \in Nat
      /\ Cardinality(m_q') <= K
      /\ IF Cardinality(m_q') = K THEN IsFront(m_threshold', m_q')
                                  ELSE m_threshold' = Floor
      /\ \A e \in m_q' : e.score > Floor
      /\ m_threshold' >= m_threshold
      /\ m_q' \subseteq m_q \cup {EntryFor(d)}
      /\ \A e \in (m_q \cup {EntryFor(d)}) \ m_q' : e.score <= m_threshold'
  BY EnterQueue
<1>3. InputInv'
  BY <1>1 DEF IInv, InputInv, inputVars
<1>4. TypeOK'
  BY <1>1, <1>2 DEF IInv, TypeOK, inputVars, searchVars
<1>5. QueueInv'
  <2>1. HeapInv(Floor)'
    BY <1>1, <1>2 DEF HeapInv
  <2>2. \A e \in m_q' : e.score = corpus.score[e.docid]
    BY <1>2 DEF IInv, QueueInv, EntryFor
  <2> QED BY <1>1, <2>1, <2>2 DEF QueueInv, inputVars
<1>6. CoveredIsRankSafe'
  <2> SUFFICES ASSUME NEW c \in covered
               PROVE  InResult(c)' \/ corpus.score[c] <= m_threshold'
    BY <1>1 DEF CoveredIsRankSafe, inputVars, searchVars
  <2>1. CASE InResult(c)
    <3>1. PICK e \in m_q : e.docid = c /\ e.score = corpus.score[c]
      BY <2>1 DEF InResult, IInv, QueueInv
    <3> QED BY <1>2, <3>1 DEF InResult
  <2>2. CASE corpus.score[c] <= m_threshold
    <3>1. corpus.score[c] \in Nat /\ m_threshold \in Nat
      BY InputTypes DEF IInv, TypeOK
    <3> QED BY <1>2, <2>2, <3>1
  <2> QED BY <2>1, <2>2 DEF IInv, CoveredIsRankSafe
<1>7. VisitInv'
  BY <1>1 DEF IInv, VisitInv, Full, Ordered, inputVars, searchVars
<1>8. EndInv'
  BY <1>1 DEF EndInv
<1> QED BY <1>3, <1>4, <1>5, <1>6, <1>7, <1>8 DEF IInv

\* The steps that choose a range or end the loop.
LEMMA StartRangeStep ==
  ASSUME IInv, NEW r \in Cluster, StartRange(r)
  PROVE  IInv'
<1>1. UNCHANGED <<queueVars, inputVars, attempt, covered, cut>>
  BY DEF StartRange
<1>2. InputInv' /\ QueueInv'
  BY <1>1, QueueUnchanged DEF IInv, InputInv, inputVars
<1>3. TypeOK'
  BY <1>1, InputTypes DEF IInv, TypeOK, StartRange, queueVars, inputVars
<1>4. CoveredIsRankSafe'
  BY <1>1 DEF IInv, CoveredIsRankSafe, InResult, queueVars, inputVars
<1>5. VisitInv'
  <2>1. ~Full /\ scope = {} /\ pc' = "range"
    BY DEF IInv, VisitInv, StartRange
  <2>2. /\ todo' = todo \ {r} /\ scope' = corpus.docsOf[r]
        /\ processed' = processed + 1
    BY DEF StartRange
  <2>3. \A s \in Cluster \ todo' : corpus.docsOf[s] \subseteq covered \cup scope'
    BY <2>1, <2>2 DEF IInv, VisitInv
  <2>4. ASSUME Ordered
        PROVE  /\ processed' <= Len(plan.selected)
               /\ \A i \in 1..processed' : plan.selected[i] \notin todo'
    <3>1. processed < Len(plan.selected) /\ r = plan.selected[processed + 1]
      BY <2>4 DEF StartRange, IsNext
    <3>2. processed \in Nat /\ Len(plan.selected) \in Nat
      BY InputTypes DEF IInv, TypeOK
    <3>3. \A i \in 1..processed : plan.selected[i] \notin todo
      BY <2>4 DEF IInv, VisitInv
    <3> QED BY <2>2, <3>1, <3>2, <3>3
  <2> QED BY <1>1, <2>1, <2>3, <2>4 DEF VisitInv, Full, Ordered, inputVars
<1>6. EndInv'
  BY DEF StartRange, EndInv
<1> QED BY <1>2, <1>3, <1>4, <1>5, <1>6 DEF IInv

\* A settled range is covered: what is not in the queue would not enter.
LEMMA FinishRangeStep ==
  ASSUME IInv, FinishRange
  PROVE  IInv'
<1>1. /\ UNCHANGED <<queueVars, inputVars, attempt, todo, processed, cut>>
      /\ covered' = covered \cup scope /\ scope' = {}
      /\ pc' = IF Full THEN "done" ELSE "select"
  BY DEF FinishRange
<1>2. InputInv' /\ QueueInv'
  BY <1>1, QueueUnchanged DEF IInv, InputInv, inputVars
<1>3. TypeOK'
  BY <1>1 DEF IInv, TypeOK, queueVars, inputVars
<1>4. CoveredIsRankSafe'
  <2>1. \A d \in scope : InResult(d) \/ corpus.score[d] <= m_threshold
    <3> SUFFICES ASSUME NEW d \in scope
                 PROVE  InResult(d) \/ corpus.score[d] <= m_threshold
      OBVIOUS
    <3>1. EntryFor(d) \in m_q \/ ~WouldEnter(corpus.score[d])
      BY DEF FinishRange, RangeSettled
    <3>2. corpus.score[d] \in Nat /\ m_threshold \in Nat
      BY InputTypes DEF IInv, TypeOK
    <3> QED BY <3>1, <3>2 DEF InResult, EntryFor, WouldEnter
  <2> QED
    BY <1>1, <2>1 DEF IInv, CoveredIsRankSafe, InResult, queueVars, inputVars
<1>5. VisitInv'
  BY <1>1 DEF IInv, TypeOK, VisitInv, Full, Ordered, inputVars
<1>6. EndInv'
  BY <1>1 DEF EndInv, Full, inputVars
<1> QED BY <1>2, <1>3, <1>4, <1>5, <1>6 DEF IInv

\* The loop is over: no range left can hold a document that would enter.
LEMMA StopExhaustedStep ==
  ASSUME IInv, StopExhausted
  PROVE  IInv'
<1>1. UNCHANGED <<queueVars, inputVars, attempt, searchVars>> /\ pc' = "done"
  BY DEF StopExhausted
<1>2. InputInv' /\ QueueInv'
  BY <1>1, QueueUnchanged DEF IInv, InputInv, inputVars
<1>3. TypeOK'
  BY <1>1 DEF IInv, TypeOK, queueVars, inputVars, searchVars
<1>4. CoveredIsRankSafe'
  BY <1>1 DEF IInv, CoveredIsRankSafe, InResult, queueVars, inputVars, searchVars
<1>5. VisitInv'
  BY <1>1 DEF IInv, VisitInv, Full, Ordered, inputVars, searchVars, StopExhausted
<1>6. EndInv'
  <2>1. CASE Ordered
    BY <1>1, <2>1 DEF EndInv, Full, Ordered, inputVars, searchVars,
                      StopExhausted, Exhausted
  <2>2. CASE ~Ordered
    <3>1. \A r \in todo : corpus.bound[r] <= m_threshold
      <4> SUFFICES ASSUME NEW s \in todo PROVE corpus.bound[s] <= m_threshold
        OBVIOUS
      <4>1. PICK r \in todo : IsBest(r) /\ ~WouldEnter(corpus.bound[r])
        BY <2>2 DEF StopExhausted, Exhausted
      <4>2. /\ corpus.bound[r] \in Nat /\ corpus.bound[s] \in Nat
            /\ m_threshold \in Nat
        BY InputTypes DEF IInv, TypeOK
      <4> QED BY <4>1, <4>2 DEF IsBest, WouldEnter
    <3> QED BY <1>1, <2>2, <3>1 DEF EndInv, Full, Ordered, queueVars, inputVars,
                                    searchVars
  <2> QED BY <2>1, <2>2
<1> QED BY <1>2, <1>3, <1>4, <1>5, <1>6 DEF IInv

\* A search that is cut short promises nothing of the ranges left.
LEMMA StopEarlyStep ==
  ASSUME IInv, StopEarly
  PROVE  IInv'
<1>1. /\ UNCHANGED <<queueVars, inputVars, attempt, todo, processed, scope, covered>>
      /\ pc' = "done" /\ cut' = TRUE /\ pc = "select"
  BY DEF StopEarly
<1>2. InputInv' /\ QueueInv'
  BY <1>1, QueueUnchanged DEF IInv, InputInv, inputVars
<1>3. TypeOK'
  BY <1>1 DEF IInv, TypeOK, queueVars, inputVars
<1>4. CoveredIsRankSafe'
  BY <1>1 DEF IInv, CoveredIsRankSafe, InResult, queueVars, inputVars
<1>5. VisitInv'
  BY <1>1 DEF IInv, VisitInv, Full, Ordered, inputVars
<1>6. EndInv'
  BY <1>1 DEF EndInv
<1> QED BY <1>2, <1>3, <1>4, <1>5, <1>6 DEF IInv

\* finalize keeps every result, so returning changes only the control state.
LEMMA ReturnStep ==
  ASSUME IInv, Return
  PROVE  IInv'
<1>1. UNCHANGED <<queueVars, inputVars, attempt, searchVars>>
  <2>1. \A e \in m_q : e.score > 0
    BY SearchQueueGood DEF GoodQueue, HeapInv, Entry
  <2> QED BY <2>1 DEF Return, Finalize, queueVars
<1>2. pc = "done" /\ pc' = "returned"
  BY DEF Return
<1>3. InputInv' /\ QueueInv'
  BY <1>1, QueueUnchanged DEF IInv, InputInv, inputVars
<1>4. TypeOK'
  BY <1>1, <1>2 DEF IInv, TypeOK, queueVars, inputVars, searchVars
<1>5. CoveredIsRankSafe'
  BY <1>1 DEF IInv, CoveredIsRankSafe, InResult, queueVars, inputVars, searchVars
<1>6. VisitInv'
  BY <1>1, <1>2 DEF IInv, VisitInv, Full, Ordered, inputVars, searchVars
<1>7. EndInv'
  BY <1>1, <1>2 DEF IInv, EndInv, Full, Ordered, queueVars, inputVars, searchVars
<1> QED BY <1>3, <1>4, <1>5, <1>6, <1>7 DEF IInv

\* The safe re-run starts as a query with no estimate.
LEMMA RerunStep ==
  ASSUME IInv, Rerun
  PROVE  IInv'
<1>1. /\ m_q' = {} /\ m_threshold' = 0 /\ attempt' = 2
      /\ UNCHANGED inputVars
      /\ pc' = IF Full THEN "range" ELSE "select"
      /\ todo' = Cluster /\ processed' = 0 /\ covered' = {} /\ cut' = FALSE
      /\ scope' = IF Full THEN Doc ELSE {}
  BY DEF Rerun, Restart
<1>2. InputInv'
  BY <1>1 DEF IInv, InputInv, inputVars
<1>3. TypeOK'
  BY <1>1, FS_EmptySet DEF IInv, TypeOK, inputVars
<1>4. QueueInv'
  BY <1>1, FS_EmptySet, KAssumption DEF QueueInv, HeapInv, Floor
<1>5. CoveredIsRankSafe'
  BY <1>1 DEF CoveredIsRankSafe
<1>6. VisitInv'
  BY <1>1, InputTypes DEF IInv, VisitInv, Full, Ordered, inputVars
<1>7. EndInv'
  BY <1>1 DEF EndInv, Full, inputVars
<1> QED BY <1>2, <1>3, <1>4, <1>5, <1>6, <1>7 DEF IInv

\* An answer is accepted only when it has enough results or was re-run.
LEMMA AcceptAnswerStep ==
  ASSUME IInv, Accept
  PROVE  IInv'
<1>1. /\ UNCHANGED <<queueVars, inputVars, attempt, searchVars>>
      /\ pc = "returned" /\ pc' = "answered"
      /\ attempt = 2 \/ ~TooFew
  BY DEF Accept
<1>2. InputInv' /\ QueueInv'
  BY <1>1, QueueUnchanged DEF IInv, InputInv, inputVars
<1>3. TypeOK'
  BY <1>1 DEF IInv, TypeOK, queueVars, inputVars, searchVars
<1>4. CoveredIsRankSafe'
  BY <1>1 DEF IInv, CoveredIsRankSafe, InResult, queueVars, inputVars, searchVars
<1>5. VisitInv'
  BY <1>1 DEF IInv, VisitInv, Full, Ordered, inputVars, searchVars
<1>6. EndInv'
  BY <1>1 DEF IInv, EndInv, Full, Ordered, TooFew, queueVars, inputVars, searchVars
<1> QED BY <1>2, <1>3, <1>4, <1>5, <1>6 DEF IInv

\* A stuttering step changes nothing the invariant speaks of.
LEMMA SearchStutter ==
  ASSUME IInv, UNCHANGED vars
  PROVE  IInv'
<1>1. UNCHANGED <<queueVars, inputVars, pc, attempt, searchVars>>
  BY DEF vars
<1>2. InputInv' /\ QueueInv'
  BY <1>1, QueueUnchanged DEF IInv, InputInv, inputVars
<1>3. TypeOK' /\ VisitInv'
  BY <1>1 DEF IInv, TypeOK, VisitInv, Full, Ordered, queueVars, inputVars,
              searchVars
<1>4. CoveredIsRankSafe'
  BY <1>1 DEF IInv, CoveredIsRankSafe, InResult, queueVars, inputVars, searchVars
<1>5. EndInv'
  BY <1>1 DEF IInv, EndInv, Full, Ordered, TooFew, queueVars, inputVars, searchVars
<1> QED BY <1>2, <1>3, <1>4, <1>5 DEF IInv

\* The inductive invariant holds of every reachable state.
THEOREM SearchInvariant == Spec => []IInv
<1>1. IInv /\ [Next]_vars => IInv'
  BY EnterStep, StartRangeStep, FinishRangeStep, StopExhaustedStep,
     StopEarlyStep, ReturnStep, RerunStep, AcceptAnswerStep, SearchStutter
  DEF Next, Answered
<1> QED BY <1>1, SearchInit, PTL DEF Spec

\* Type correctness.
THEOREM TypeCorrect == Spec => []TypeOK
<1>1. IInv => TypeOK
  BY DEF IInv
<1> QED BY <1>1, SearchInvariant, PTL

\* The threshold ranges and documents are skipped with is always the lowest
\* score of a full queue of true scores.
THEOREM QueueCorrect == Spec => []QueueInv
<1>1. IInv => QueueInv
  BY DEF IInv
<1> QED BY <1>1, SearchInvariant, PTL

\* Whatever was evaluated so far is rank safe, however the search goes on.
THEOREM CoveredRankSafe == Spec => []CoveredIsRankSafe
<1>1. IInv => CoveredIsRankSafe
  BY DEF IInv
<1> QED BY <1>1, SearchInvariant, PTL

\* The loop visited every range that could matter.
LEMMA DoneLemma == IInv => DoneIsRankSafe
<1> SUFFICES ASSUME IInv, pc \in Ended, ~cut, NEW d \in Eligible
             PROVE  InResult(d) \/ corpus.score[d] <= m_threshold
  BY DEF DoneIsRankSafe, Ended
<1> DEFINE Safe == InResult(d) \/ corpus.score[d] <= m_threshold
<1>1. scope = {} /\ (d \in covered => Safe)
  BY DEF IInv, VisitInv, CoveredIsRankSafe, Ended
<1>2. CASE Full
  BY <1>1, <1>2 DEF IInv, VisitInv, Eligible, Ended
<1>3. CASE Ordered
  <2>1. PICK i \in 1..Len(plan.selected) : d \in corpus.docsOf[plan.selected[i]]
    BY <1>3 DEF Eligible, EligibleRanges, Full, Ordered
  <2>2. plan.selected[i] \in Cluster
    BY InputTypes DEF IInv
  <2>3. plan.selected[i] \notin todo
    BY <1>3 DEF IInv, EndInv, VisitInv, Full, Ordered, Ended
  <2> QED BY <1>1, <2>1, <2>2, <2>3 DEF IInv, VisitInv
<1>4. CASE ~Full /\ ~Ordered
  <2>1. PICK r \in Cluster : d \in corpus.docsOf[r]
    BY <1>4 DEF Eligible, EligibleRanges
  <2>2. CASE r \in todo
    <3>1. corpus.bound[r] <= m_threshold
      BY <1>4, <2>2 DEF IInv, EndInv, Ended
    <3>2. d \in Doc /\ corpus.score[d] <= corpus.bound[r]
      BY <2>1, InputTypes DEF IInv
    <3>3. /\ corpus.score[d] \in Nat /\ corpus.bound[r] \in Nat
          /\ m_threshold \in Nat
      BY <3>2, InputTypes DEF IInv, TypeOK
    <3> QED BY <3>1, <3>2, <3>3
  <2>3. CASE r \notin todo
    BY <1>1, <2>1, <2>3 DEF IInv, VisitInv
  <2> QED BY <2>2, <2>3
<1> QED BY <1>2, <1>3, <1>4

\* A search that nothing cut short is rank safe, in every mode: the ranges the
\* bound-sum order leaves out could not have changed the result.
THEOREM DoneRankSafe == Spec => []DoneIsRankSafe
BY DoneLemma, SearchInvariant, PTL

\* The safe re-run makes the answer exact, however wrong the estimate.
THEOREM SafeAnswerCorrect == Spec => []SafeAnswerIsExact
<1>1. IInv => SafeAnswerIsExact
  <2> SUFFICES ASSUME IInv, pc = "answered", ~cut,
                      plan.safe \/ plan.threshold = 0,
                      NEW d \in Eligible, ~InResult(d)
               PROVE  \/ corpus.score[d] = 0
                      \/ /\ Cardinality(m_q) = K
                         /\ \A e \in m_q : corpus.score[d] <= e.score
    BY DEF SafeAnswerIsExact
  <2>1. d \in Doc
    BY InputTypes DEF IInv, Eligible, EligibleRanges
  <2>2. /\ corpus.score[d] <= m_threshold
        /\ corpus.score[d] \in Nat /\ m_threshold \in Nat
    BY <2>1, DoneLemma, InputTypes DEF DoneIsRankSafe, IInv, TypeOK
  <2>3. CASE Cardinality(m_q) = K
    <3>1. \A e \in m_q : m_threshold <= e.score /\ e.score \in Nat
      BY SearchQueueGood, KAssumption DEF GoodQueue, HeapInv, IsFront, IsLowest, Entry
    <3> QED BY <2>2, <2>3, <3>1
  <2>4. CASE Cardinality(m_q) # K
    <3>1. Cardinality(m_q) < K
      BY <2>4, FS_CardinalityType, KAssumption DEF IInv, TypeOK, QueueInv, HeapInv
    <3>2. m_threshold = Floor
      BY <2>4 DEF IInv, QueueInv, HeapInv
    <3>3. Floor = 0
      <4>1. plan.safe => attempt = 2
        BY <3>1 DEF IInv, EndInv, TooFew
      <4> QED BY <4>1 DEF Floor
    <3> QED BY <2>2, <3>2, <3>3
  <2> QED BY <2>3, <2>4
<1> QED BY <1>1, SearchInvariant, PTL

\* No step of a run lowers the threshold.
THEOREM ThresholdMonotone == Spec => ThresholdNeverFalls
<1>1. IInv /\ [Next]_vars =>
        [attempt' = attempt => m_threshold' >= m_threshold]_vars
  <2> SUFFICES ASSUME IInv, Next, attempt' = attempt
               PROVE  m_threshold' >= m_threshold
    OBVIOUS
  <2>1. m_threshold \in Nat
    BY DEF IInv, TypeOK
  <2>2. ASSUME NEW d \in Doc, Enter(d) PROVE m_threshold' >= m_threshold
    BY <2>2, EnterQueue
  <2>3. CASE Rerun
    BY <2>3 DEF Rerun
  <2>4. CASE Return
    BY <2>1, <2>4 DEF Return, Finalize
  <2> QED
    BY <2>1, <2>2, <2>3, <2>4
    DEF Next, StartRange, FinishRange, StopExhausted, StopEarly, Accept,
        Answered, queueVars, vars
<1> QED BY <1>1, SearchInvariant, PTL DEF Spec, ThresholdNeverFalls

-----------------------------------------------------------------------------
\* No caller lists a range twice.
Distinct == \A i, j \in 1..Len(plan.selected) :
              plan.selected[i] = plan.selected[j] => i = j

\* The strengthening NoDuplicates needs: the range in scope is new, so an entry
\* for one of its documents was made in this visit.
DupInv ==
  /\ NoDuplicates
  /\ Distinct => scope \cap covered = {}
  /\ \A e \in m_q : e.docid \in covered \cup scope
  /\ Distinct => \A e \in m_q : e.docid \in scope => e.visit = processed
  /\ Full => covered = {} \/ scope = {}
  /\ ~Full => covered \cup scope \subseteq
                UNION {corpus.docsOf[r] : r \in Cluster \ todo}
  /\ Ordered => \A r \in Cluster \ todo :
                  \E i \in 1..processed : plan.selected[i] = r

\* An empty queue has no duplicates.
LEMMA DupInit == Init => DupInv
BY DEF Init, DupInv, NoDuplicates, Full

\* The range a loop visits next was not visited before.
LEMMA NextRangeIsNew ==
  ASSUME IInv, DupInv, Distinct, NEW r \in Cluster, IsNext(r)
  PROVE  r \in todo
<1>1. CASE Ordered
  <2>1. /\ processed \in Nat /\ Len(plan.selected) \in Nat
        /\ processed + 1 \in 1..Len(plan.selected)
        /\ r = plan.selected[processed + 1]
    BY <1>1, InputTypes DEF IInv, TypeOK, IsNext
  <2>2. \A i \in 1..processed : plan.selected[i] # r
    BY <2>1 DEF Distinct
  <2> QED BY <1>1, <2>2 DEF DupInv
<1>2. CASE ~Ordered
  BY <1>2 DEF IsNext, IsBest
<1> QED BY <1>1, <1>2

\* A range that begins has a new visit number and none of the documents seen.
LEMMA DupStartRange ==
  ASSUME IInv, DupInv, NEW r \in Cluster, StartRange(r)
  PROVE  DupInv'
<1>1. /\ UNCHANGED <<queueVars, inputVars, attempt, covered, cut>>
      /\ todo' = todo \ {r} /\ scope' = corpus.docsOf[r]
      /\ processed' = processed + 1
      /\ IsNext(r) /\ scope = {} /\ ~Full
  BY DEF StartRange, IInv, VisitInv
<1>2. processed \in Nat /\ todo \in SUBSET Cluster
  BY DEF IInv, TypeOK
<1>3. ASSUME Distinct PROVE scope' \cap covered = {}
  <2>1. r \in todo
    BY <1>1, <1>3, NextRangeIsNew
  <2>2. \A s \in Cluster \ todo : corpus.docsOf[r] \cap corpus.docsOf[s] = {}
    BY <2>1, DisjointAssumption DEF IInv, InputInv
  <2> QED BY <1>1, <2>2 DEF DupInv
<1>4. NoDuplicates'
  BY <1>1 DEF DupInv, NoDuplicates, queueVars, inputVars
<1>5. /\ \A e \in m_q : e.docid \in covered
      /\ \A e \in m_q : e.docid \in covered \cup scope'
  BY <1>1 DEF DupInv
<1>6. covered \cup scope' \subseteq
        UNION {corpus.docsOf[s] : s \in Cluster \ todo'}
  BY <1>1, <1>2 DEF DupInv
<1>7. ASSUME Ordered
      PROVE  \A s \in Cluster \ todo' :
               \E i \in 1..processed' : plan.selected[i] = s
  <2>1. r = plan.selected[processed + 1]
    BY <1>1, <1>7 DEF IsNext
  <2> QED BY <1>1, <1>2, <1>7, <2>1 DEF DupInv
<1> QED
  BY <1>1, <1>3, <1>4, <1>5, <1>6, <1>7
  DEF DupInv, Distinct, Full, Ordered, queueVars, inputVars

\* A document enters once a visit.
LEMMA DupEnter ==
  ASSUME IInv, DupInv, NEW d \in Doc, Enter(d)
  PROVE  DupInv'
<1>1. /\ UNCHANGED <<inputVars, pc, attempt, searchVars>>
      /\ EntryFor(d) \notin m_q /\ d \in scope
      /\ m_q' \subseteq m_q \cup {EntryFor(d)}
  BY EnterQueue DEF Enter
<1>2. EntryFor(d).docid = d /\ EntryFor(d).visit = processed
  BY DEF EntryFor
<1>3. ASSUME Distinct, NEW e \in m_q PROVE e.docid # d
  <2> SUFFICES ASSUME e.docid = d PROVE FALSE
    OBVIOUS
  <2>1. e.visit = processed /\ e.score = corpus.score[d]
    BY <1>1, <1>3 DEF DupInv, IInv, QueueInv
  <2>2. e = EntryFor(d)
    BY <2>1 DEF IInv, TypeOK, Entry, EntryFor
  <2> QED BY <1>1, <2>2
<1>4. NoDuplicates'
  BY <1>1, <1>2, <1>3 DEF DupInv, NoDuplicates, Distinct, inputVars
<1>5. /\ \A e \in m_q' : e.docid \in covered \cup scope
      /\ Distinct => \A e \in m_q' : e.docid \in scope => e.visit = processed
  BY <1>1, <1>2 DEF DupInv
<1> QED
  BY <1>1, <1>4, <1>5 DEF DupInv, Distinct, Full, Ordered, inputVars, searchVars

\* Leaving a range keeps the record of the ranges seen.
LEMMA DupFinishRange ==
  ASSUME IInv, DupInv, FinishRange
  PROVE  DupInv'
<1>1. /\ UNCHANGED <<queueVars, inputVars, attempt, todo, processed, cut>>
      /\ covered' = covered \cup scope /\ scope' = {}
  BY DEF FinishRange
<1>2. NoDuplicates'
  BY <1>1 DEF DupInv, NoDuplicates, queueVars, inputVars
<1> QED
  BY <1>1, <1>2 DEF DupInv, Distinct, Full, Ordered, queueVars, inputVars

\* Steps that change neither the queue nor the record of visits.
LEMMA DupSame ==
  ASSUME DupInv, UNCHANGED <<queueVars, inputVars, todo, processed, scope, covered>>
  PROVE  DupInv'
BY DEF DupInv, NoDuplicates, Distinct, Full, Ordered, queueVars, inputVars

\* No step puts a document into the queue twice.
LEMMA DupStep == IInv /\ DupInv /\ [Next]_vars => DupInv'
<1> SUFFICES ASSUME IInv, DupInv, [Next]_vars PROVE DupInv'
  OBVIOUS
<1>1. CASE Return
  <2>1. m_q' = m_q
    BY <1>1, SearchQueueGood DEF Return, Finalize, GoodQueue, HeapInv, Entry
  <2> QED BY <1>1, <2>1, DupSame DEF Return, Finalize, queueVars, searchVars
<1>2. CASE Rerun
  BY <1>2 DEF Rerun, Restart, DupInv, NoDuplicates, Full, inputVars
<1>3. CASE StopExhausted \/ StopEarly \/ Accept \/ UNCHANGED vars
  BY <1>3, DupSame DEF StopExhausted, StopEarly, Accept, vars, searchVars
<1> QED
  BY <1>1, <1>2, <1>3, DupStartRange, DupEnter, DupFinishRange DEF Next, Answered

\* A document is returned once, for every collection and every call that does
\* not list a range twice.
THEOREM ResultsDistinct == Spec => []NoDuplicates
<1>1. DupInv => NoDuplicates
  BY DEF DupInv
<1> QED BY <1>1, DupInit, DupStep, SearchInvariant, PTL DEF Spec
=============================================================================
