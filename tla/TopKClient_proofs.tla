------------------------- MODULE TopKClient_proofs -------------------------
(***************************************************************************)
(* The queue always holds the best of what it was offered, for every K,    *)
(* every set of documents and scores and every number of insertions.       *)
(***************************************************************************)
EXTENDS TopKClient, CommonFacts

\* The inductive invariant of the client: the queue is good, holds only what it
\* was offered, and what it dropped scores no more than the threshold.  Visits
\* number the insertions, so that every one offers a new entry.
ClientInv ==
  /\ ClientTypeOK
  /\ HeapInv(floor)
  /\ m_q \subseteq offered
  /\ IsFiniteSet(offered)
  /\ \A e \in offered : e.visit < calls
  /\ \A e \in offered \ m_q : e.score <= m_threshold

\* The client starts with an empty queue and threshold 0.
LEMMA ClientInit == InitClient => ClientInv
<1> SUFFICES ASSUME InitClient PROVE ClientInv
  OBVIOUS
<1>1. GoodQueue(0)
  BY FS_EmptySet, KAssumption DEF InitClient, InitQueue, GoodQueue, HeapInv
<1> QED
  BY <1>1, FS_EmptySet, MaxCallsAssumption
  DEF InitClient, InitQueue, ClientInv, ClientTypeOK, GoodQueue

\* finalize drops nothing: every entry scores above floor, hence above 0.
LEMMA FinalizeKeeps ==
  ASSUME ClientInv, Finalize
  PROVE  m_q' = m_q /\ m_threshold' = m_threshold
BY DEF ClientInv, ClientTypeOK, HeapInv, Finalize, Entry

\* No call breaks the invariant.
LEMMA ClientStep == ClientInv /\ [NextClient]_clientVars => ClientInv'
<1> SUFFICES ASSUME ClientInv, [NextClient]_clientVars PROVE ClientInv'
  OBVIOUS
<1> USE DEF ClientInv, ClientTypeOK
<1>1. ASSUME NEW t \in Scores, UseEstimate(t) PROVE ClientInv'
  <2>1. m_q = {} /\ m_q' = {} /\ offered = {} /\ offered' = {}
    BY <1>1 DEF UseEstimate, SetThreshold, Entry
  <2>2. t \in Nat /\ m_threshold' = t /\ floor' = t
    BY <1>1, ScoresAssumption DEF UseEstimate, SetThreshold
  <2>3. HeapInv(floor)'
    BY <2>1, <2>2, FS_EmptySet, KAssumption DEF HeapInv
  <2> QED BY <1>1, <2>1, <2>2, <2>3 DEF UseEstimate
<1>2. ASSUME NEW score \in Scores, NEW docid \in Doc, Offer(score, docid)
      PROVE  ClientInv'
  <2> DEFINE entry == [score |-> score, docid |-> docid, visit |-> calls]
  <2>1. entry \in Entry /\ entry \notin offered /\ entry.visit = calls
    BY <1>2, ScoresAssumption DEF Entry
  <2>2. /\ offered' = offered \cup {entry} /\ calls' = calls + 1
        /\ floor' = floor /\ stage' = stage /\ calls' \in 0..MaxCalls
    BY <1>2, MaxCallsAssumption DEF Offer
  <2>3. IsFiniteSet(offered') /\ offered' \in SUBSET Entry
    BY <2>1, <2>2, FS_AddElement
  <2>4. \A e \in offered' : e.visit < calls'
    BY <2>1, <2>2 DEF Entry
  <2>5. CASE Reject(entry)
    <3>1. m_q' = m_q /\ m_threshold' = m_threshold /\ entry.score <= m_threshold
      BY <2>1, <2>5 DEF Reject, WouldEnter, queueVars, Entry
    <3>2. HeapInv(floor)'
      BY <2>2, <3>1 DEF HeapInv, IsFront, IsLowest
    <3> QED BY <2>1, <2>2, <2>3, <2>4, <3>1, <3>2
  <2>6. CASE Push(entry) \/ Replace(entry)
    <3>1. PICK f \in Nat : f = floor
      BY DEF ClientInv
    <3>2. PICK S \in SUBSET Entry : S = m_q
      BY DEF ClientInv
    <3>3. PICK t \in Nat : t = m_threshold
      BY DEF ClientInv
    <3>4. PICK T : T = m_q'
      OBVIOUS
    <3>5. PICK u : u = m_threshold'
      OBVIOUS
    <3>6. PICK new \in Entry : new = entry
      BY <2>1
    <3>7. IsFiniteSet(m_q)
      OBVIOUS
    <3>8. QueueFrom(f, K, S, t)
      BY <3>1, <3>2, <3>3, <3>7 DEF HeapInv, IsFront, IsLowest, FrontScore, QueueFrom
    <3>9. new \notin S /\ Enters(K, S, t, new, T, u)
      BY <2>1, <2>6, <3>2, <3>3, <3>4, <3>5, <3>6
      DEF Push, Replace, WouldEnter, ThresholdFromFront, IsFront, IsLowest, FrontScore, Enters
    <3>10. \A e \in Entry : e.score \in Nat
      BY DEF Entry
    <3>11. /\ T \in SUBSET Entry /\ u \in Nat /\ QueueFrom(f, K, T, u)
           /\ u >= t
           /\ T \subseteq S \cup {new}
           /\ \A e \in (S \cup {new}) \ T : e.score <= u
      BY <3>1, <3>2, <3>3, <3>6, <3>8, <3>9, <3>10, KAssumption, InsertFacts
    <3>12. /\ m_q' \in SUBSET Entry /\ IsFiniteSet(m_q')
           /\ m_threshold' \in Nat
           /\ m_threshold' >= m_threshold
           /\ m_q' \subseteq m_q \cup {entry}
           /\ \A e \in (m_q \cup {entry}) \ m_q' : e.score <= m_threshold'
      BY <3>2, <3>3, <3>4, <3>5, <3>6, <3>11 DEF QueueFrom
    <3>13. HeapInv(floor)'
      BY <2>2, <3>1, <3>4, <3>5, <3>11 DEF HeapInv, IsFront, IsLowest, FrontScore, QueueFrom
    <3>14. \A e \in offered' \ m_q' : e.score <= m_threshold'
      BY <2>2, <3>12 DEF Entry
    <3> QED BY <2>1, <2>2, <2>3, <2>4, <3>12, <3>13, <3>14
  <2> QED BY <1>2, <2>5, <2>6 DEF Offer, Insert
<1>3. CASE Rank
  BY <1>3, FinalizeKeeps DEF Rank, HeapInv, IsFront, IsLowest
<1>4. CASE Reuse
  <2>1. HeapInv(floor)'
    BY <1>4, FS_EmptySet, KAssumption DEF Reuse, Clear, HeapInv
  <2> QED BY <1>4, <2>1, FS_EmptySet, MaxCallsAssumption DEF Reuse, Clear
<1>5. CASE UNCHANGED clientVars
  BY <1>5 DEF clientVars, HeapInv, IsFront, IsLowest
<1> QED BY <1>1, <1>2, <1>3, <1>4, <1>5 DEF NextClient

\* Every reachable state of the client satisfies the inductive invariant.
THEOREM ClientInvariant == SpecClient => []ClientInv
BY ClientInit, ClientStep, PTL DEF SpecClient

\* Type correctness of the queue and of its use.
THEOREM ClientTypeCorrect == SpecClient => []ClientTypeOK
<1>1. ClientInv => ClientTypeOK
  BY DEF ClientInv
<1> QED BY <1>1, ClientInvariant, PTL

\* For every K, the threshold the algorithms prune with is the lowest score of
\* a full queue, and never anything but the estimate before that.
THEOREM ThresholdCorrect == SpecClient => []ThresholdIsFront
<1>1. ClientInv => ThresholdIsFront
  BY DEF ClientInv, ThresholdIsFront
<1> QED BY <1>1, ClientInvariant, PTL

\* For every K and every sequence of insertions, the queue holds the best of
\* what it was offered.
THEOREM TopKCorrect == SpecClient => []HoldsTheBest
<1>1. ClientInv => HoldsTheBest
  <2> SUFFICES ASSUME ClientInv, NEW e \in offered \ m_q
               PROVE  /\ e.score <= m_threshold
                      /\ Cardinality(m_q) < K => e.score <= floor
    BY DEF HoldsTheBest
  <2>1. Cardinality(m_q) < K => m_threshold = floor
    BY FS_CardinalityType, KAssumption DEF ClientInv, ClientTypeOK, HeapInv
  <2> QED BY <2>1 DEF ClientInv
<1> QED BY <1>1, ClientInvariant, PTL

\* How many of the offers beat the estimate decides how many results there are.
LEMMA ResultSize ==
  ASSUME ClientInv
  PROVE  LET best == {e \in offered : e.score > floor}
         IN Cardinality(m_q) = IF Cardinality(best) < K THEN Cardinality(best)
                                                        ELSE K
<1> DEFINE best == {e \in offered : e.score > floor}
<1> USE DEF ClientInv, ClientTypeOK
<1>1. m_q \subseteq best
  BY DEF HeapInv
<1>2. /\ IsFiniteSet(best)
      /\ Cardinality(best) \in Nat
      /\ Cardinality(m_q) \in Nat
      /\ Cardinality(m_q) <= Cardinality(best)
      /\ Cardinality(m_q) <= K
  <2>1. IsFiniteSet(best)
    BY FS_Subset
  <2> QED BY <1>1, <2>1, FS_Subset, FS_CardinalityType DEF HeapInv
<1>3. CASE Cardinality(m_q) = K
  BY <1>2, <1>3, KAssumption
<1>4. CASE Cardinality(m_q) # K
  <2>1. m_threshold = floor
    BY <1>4 DEF HeapInv
  <2>2. best \subseteq m_q
    BY <2>1 DEF Entry
  <2>3. best = m_q
    BY <1>1, <2>2
  <2> QED BY <1>2, <1>4, <2>3, KAssumption
<1> QED BY <1>3, <1>4

\* finalize loses no result, whatever the size of the queue.
THEOREM FinalizeCorrect == SpecClient => FinalizeLosesNothing
<1> DEFINE NoLoss ==
      stage' = "ranked" =>
        Cardinality(m_q') =
          IF Cardinality({e \in offered : e.score > floor}) < K
            THEN Cardinality({e \in offered : e.score > floor})
            ELSE K
<1>1. ClientInv /\ [NextClient]_clientVars => [NoLoss]_clientVars
  <2> SUFFICES ASSUME ClientInv, [NextClient]_clientVars,
                      stage' = "ranked", ~ UNCHANGED clientVars
               PROVE  NoLoss
    OBVIOUS
  <2>1. Rank
    BY DEF NextClient, UseEstimate, Offer, Reuse, ClientInv, ClientTypeOK
  <2>2. m_q' = m_q
    BY <2>1, FinalizeKeeps DEF Rank
  <2> QED BY <2>2, ResultSize
<1> QED BY <1>1, ClientInvariant, PTL DEF SpecClient, FinalizeLosesNothing
=============================================================================
