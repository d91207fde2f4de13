------------------------- MODULE IndexPipeline_proofs -------------------------
(***************************************************************************)
(* What holds of building an index for any collection, any number of       *)
(* threads and any batches: jobs are committed in order, and no more       *)
(* batches are in memory than the queue has places.                        *)
(***************************************************************************)
EXTENDS IndexPipeline, CommonFacts

-----------------------------------------------------------------------------
(* The semiasync_queue.                                                     *)

Thread == [jobs : Seq(Nat), prepared : Nat]

\* before[i] jobs were added before those of running thread i, the last place being
\* that of the next thread.
Numbered(before) ==
  LET n == Len(m_running_threads)
  IN /\ before[1] = Len(committed)
     /\ \A i \in 1..n :
          /\ before[i + 1] = before[i] + Len(m_running_threads[i].jobs)
          /\ \A j \in 1..Len(m_running_threads[i].jobs) :
               m_running_threads[i].jobs[j] = before[i] + j
     /\ \A j \in 1..Len(m_next_thread) : m_next_thread[j] = before[n + 1] + j
     /\ added = before[n + 1] + Len(m_next_thread)

\* The jobs committed, those of the running threads in turn and those of the next
\* thread are all jobs added, in order.
JobsInOrder == \E before \in [1..(Len(m_running_threads) + 1) -> 0..added] : Numbered(before)

QueueTypeOK ==
  /\ limits \in [max_threads : Nat, work_per_thread : Nat]
  /\ queue_pc \in {"idle", "add", "spawn", "last", "drain", "done"}
  /\ added \in Nat
  /\ committed \in Seq(Nat)
  /\ m_next_thread \in Seq(Nat)
  /\ m_running_threads \in Seq(Thread)

\* Where the caller is and what it has left.
CallerInv ==
  /\ queue_pc \in {"last", "drain", "done"} => added = Len(work)
  /\ queue_pc \in {"idle", "drain", "done"} => m_next_thread = <<>>
  /\ queue_pc \in {"idle", "done"} => m_running_threads = <<>>
  /\ queue_pc \in {"spawn", "last"} => limits.max_threads # 0
  /\ limits.max_threads = 0 => m_next_thread = <<>>
  /\ Len(m_running_threads) <= limits.max_threads

QueueInv ==
  /\ QueueTypeOK
  /\ CallerInv
  /\ JobsInOrder
  /\ committed = [j \in 1..Len(committed) |-> j]

\* Lengths and elements of what a queue keeps.
LEMMA QueueTypes ==
  ASSUME QueueTypeOK
  PROVE  /\ added \in Nat
         /\ committed \in Seq(Nat) /\ Len(committed) \in Nat
         /\ m_next_thread \in Seq(Nat) /\ Len(m_next_thread) \in Nat
         /\ m_running_threads \in Seq(Thread) /\ Len(m_running_threads) \in Nat
         /\ DOMAIN m_running_threads = 1..Len(m_running_threads)
         /\ \A i \in 1..Len(m_running_threads) :
              /\ m_running_threads[i] \in Thread
              /\ m_running_threads[i].jobs \in Seq(Nat)
              /\ Len(m_running_threads[i].jobs) \in Nat
<1>1. /\ added \in Nat /\ committed \in Seq(Nat) /\ m_next_thread \in Seq(Nat)
      /\ m_running_threads \in Seq(Thread)
  BY DEF QueueTypeOK
<1>2. /\ Len(committed) \in Nat /\ Len(m_next_thread) \in Nat
      /\ Len(m_running_threads) \in Nat
      /\ DOMAIN m_running_threads = 1..Len(m_running_threads)
  BY <1>1, LenProperties
<1>3. \A i \in 1..Len(m_running_threads) : m_running_threads[i] \in Thread
  BY <1>1, ElementOfSeq
<1>4. \A t \in Thread : t.jobs \in Seq(Nat) /\ Len(t.jobs) \in Nat
  <2>1. \A t \in Thread : t.jobs \in Seq(Nat)
    BY DEF Thread
  <2> QED BY <2>1, LenProperties
<1> QED BY <1>1, <1>2, <1>3, <1>4

\* A queue starts without jobs.
LEMMA QueueInit == Container!QueueIdle => QueueInv
<1> SUFFICES ASSUME Container!QueueIdle PROVE QueueInv
  OBVIOUS
<1> USE DEF Container!QueueIdle
<1>1. QueueTypeOK
  BY DEF QueueTypeOK
<1>2. CallerInv
  BY DEF CallerInv
<1>3. JobsInOrder
  <2>1. [i \in 1..1 |-> 0] \in [1..(Len(m_running_threads) + 1) -> 0..added]
    OBVIOUS
  <2>2. Numbered([i \in 1..1 |-> 0])
    BY DEF Numbered
  <2> QED BY <2>1, <2>2 DEF JobsInOrder
<1>4. committed = [j \in 1..Len(committed) |-> j]
  OBVIOUS
<1> QED BY <1>1, <1>2, <1>3, <1>4 DEF QueueInv

\* Making a queue fixes its limits and its work.
LEMMA QueueMade ==
  ASSUME QueueInv, NEW w, Container!MakeQueue(w)
  PROVE  QueueInv'
<1> USE DEF Container!MakeQueue
<1>1. QueueTypeOK'
  BY QueueLimitsAssumption DEF QueueInv, QueueTypeOK
<1>2. CallerInv'
  BY <1>1 DEF QueueInv, CallerInv, QueueTypeOK
<1>3. JobsInOrder'
  BY DEF QueueInv, JobsInOrder, Numbered
<1> QED BY <1>1, <1>2, <1>3 DEF QueueInv

\* A job is added after all others.
LEMMA JobAdded ==
  ASSUME QueueInv, Container!AddJob
  PROVE  QueueInv'
<1>1. /\ QueueTypeOK
      /\ added' = added + 1 /\ m_next_thread' = Append(m_next_thread, added + 1)
      /\ UNCHANGED <<limits, m_running_threads, committed>>
      /\ limits.max_threads # 0
      /\ queue_pc' \in {"add", "spawn"}
  BY DEF Container!AddJob, QueueInv
<1>2. /\ m_next_thread' \in Seq(Nat)
      /\ Len(m_next_thread') = Len(m_next_thread) + 1
      /\ \A j \in 1..Len(m_next_thread) : m_next_thread'[j] = m_next_thread[j]
      /\ m_next_thread'[Len(m_next_thread) + 1] = added + 1
  BY <1>1, QueueTypes, AppendProperties
<1>3. QueueTypeOK'
  BY <1>1, <1>2 DEF QueueTypeOK
<1>4. CallerInv'
  BY <1>1 DEF QueueInv, CallerInv
<1>5. JobsInOrder'
  <2>1. PICK b \in [1..(Len(m_running_threads) + 1) -> 0..added] : Numbered(b)
    BY DEF QueueInv, JobsInOrder
  <2>2. b \in [1..(Len(m_running_threads) + 1) -> 0..added']
    BY <1>1, QueueTypes
  <2>3. b[Len(m_running_threads) + 1] \in Nat
    <3>1. PICK n \in Nat : n = Len(m_running_threads)
      BY <1>1, QueueTypes
    <3>2. added \in Nat
      BY <1>1, QueueTypes
    <3>3. n + 1 \in 1..(n + 1) /\ b \in [1..(n + 1) -> 0..added]
      BY <3>1
    <3>4. b[n + 1] \in 0..added
      BY <3>3
    <3> QED BY <3>1, <3>2, <3>4
  <2>4. Numbered(b)'
    <3>1. /\ b[1] = Len(committed')
          /\ \A i \in 1..Len(m_running_threads') :
               /\ b[i + 1] = b[i] + Len(m_running_threads'[i].jobs)
               /\ \A j \in 1..Len(m_running_threads'[i].jobs) :
                    m_running_threads'[i].jobs[j] = b[i] + j
      BY <1>1, <2>1 DEF Numbered
    <3>2. PICK m \in Nat, k \in Nat :
            /\ m = b[Len(m_running_threads) + 1] /\ k = Len(m_next_thread)
      BY <1>1, <2>3, QueueTypes
    <3>3. added = m + k /\ \A j \in 1..k : m_next_thread[j] = m + j
      BY <2>1, <3>2 DEF Numbered
    <3>4. ASSUME NEW j \in 1..(k + 1) PROVE m_next_thread'[j] = m + j
      <4>1. CASE j \in 1..k
        BY <1>2, <3>2, <3>3, <4>1
      <4>2. CASE j = k + 1
        <5>1. m_next_thread'[j] = added + 1
          BY <1>2, <3>2, <4>2
        <5> QED BY <3>2, <3>3, <4>2, <5>1
      <4> QED BY <4>1, <4>2
    <3>5. Len(m_next_thread') = k + 1 /\ added' = m + (k + 1)
      BY <1>1, <1>2, <3>2, <3>3
    <3> QED BY <1>1, <3>1, <3>2, <3>4, <3>5 DEF Numbered
  <2> QED BY <1>1, <2>2, <2>4 DEF JobsInOrder
<1> QED BY <1>1, <1>3, <1>4, <1>5 DEF QueueInv

\* Without threads all jobs added are committed.
LEMMA JobCommittedAtOnce ==
  ASSUME QueueInv, Container!AddSynchronous
  PROVE  QueueInv'
<1> USE DEF Container!AddSynchronous
<1>1. QueueTypeOK'
  BY DEF QueueInv, QueueTypeOK
<1>2. CallerInv'
  BY DEF QueueInv, CallerInv, QueueTypeOK
<1>3. m_next_thread = <<>> /\ Len(m_running_threads) = 0
  BY DEF QueueInv, QueueTypeOK, CallerInv
<1>4. Len(committed) = added
  BY <1>3 DEF QueueInv, QueueTypeOK, JobsInOrder, Numbered
<1>5. JobsInOrder'
  <2>1. PICK c : c = [i \in 1..1 |-> added + 1]
    OBVIOUS
  <2>2. /\ c \in [1..(Len(m_running_threads') + 1) -> 0..added']
        /\ c[1] = added + 1 /\ Len(committed') = added + 1
    BY <1>3, <1>4, <2>1 DEF QueueInv, QueueTypeOK
  <2>3. Numbered(c)'
    BY <1>3, <2>2 DEF Numbered, QueueInv, QueueTypeOK
  <2> QED BY <2>2, <2>3 DEF JobsInOrder
<1>6. committed' = [j \in 1..Len(committed') |-> j]
  BY <1>4 DEF QueueInv, QueueTypeOK
<1> QED BY <1>1, <1>2, <1>5, <1>6 DEF QueueInv

\* A thread that is spawned takes the last jobs added.
LEMMA ThreadSpawned ==
  ASSUME QueueInv, Container!spawn_next_thread
  PROVE  QueueInv'
<1> DEFINE n == Len(m_running_threads)
           t == [jobs |-> m_next_thread, prepared |-> 0]
<1>1. /\ QueueTypeOK
      /\ m_running_threads' = Append(m_running_threads, t)
      /\ m_next_thread' = <<>>
      /\ UNCHANGED <<limits, work, added, committed>>
      /\ queue_pc \in {"spawn", "last"}
      /\ queue_pc' = IF queue_pc = "last" THEN "drain" ELSE "add"
      /\ n # limits.max_threads
  BY DEF Container!spawn_next_thread, QueueInv
<1>2. t \in Thread
  BY <1>1, QueueTypes DEF Thread
<1>3. /\ n \in Nat
      /\ m_running_threads' \in Seq(Thread)
      /\ Len(m_running_threads') = n + 1
      /\ \A i \in 1..n : m_running_threads'[i] = m_running_threads[i]
      /\ m_running_threads'[n + 1] = t
  BY <1>1, <1>2, QueueTypes, AppendProperties
<1>4. QueueTypeOK'
  BY <1>1, <1>3 DEF QueueTypeOK
<1>5. CallerInv'
  BY <1>1, <1>3 DEF QueueInv, CallerInv, QueueTypeOK
<1>6. PICK b \in [1..(n + 1) -> 0..added] : Numbered(b)
  BY DEF QueueInv, JobsInOrder
<1>7. PICK c : c = [i \in 1..(n + 2) |-> IF i <= n + 1 THEN b[i] ELSE added]
  OBVIOUS
<1>8. /\ c \in [1..(n + 2) -> 0..added]
      /\ c[n + 2] = added
      /\ \A i \in 1..(n + 1) : c[i] = b[i]
  BY <1>1, <1>3, <1>7, QueueTypes
<1>9. \A i \in 1..(n + 1) :
        /\ c[i + 1] = c[i] + Len(m_running_threads'[i].jobs)
        /\ \A j \in 1..Len(m_running_threads'[i].jobs) :
             m_running_threads'[i].jobs[j] = c[i] + j
  <2> SUFFICES ASSUME NEW i \in 1..(n + 1)
               PROVE  /\ c[i + 1] = c[i] + Len(m_running_threads'[i].jobs)
                      /\ \A j \in 1..Len(m_running_threads'[i].jobs) :
                           m_running_threads'[i].jobs[j] = c[i] + j
    OBVIOUS
  <2>1. CASE i \in 1..n
    <3>1. m_running_threads'[i] = m_running_threads[i]
      BY <1>3, <2>1
    <3>2. i + 1 \in 1..(n + 1) /\ c[i + 1] = b[i + 1] /\ c[i] = b[i]
      BY <1>3, <1>8, <2>1
    <3>3. /\ b[i + 1] = b[i] + Len(m_running_threads[i].jobs)
          /\ \A j \in 1..Len(m_running_threads[i].jobs) :
               m_running_threads[i].jobs[j] = b[i] + j
      BY <1>6, <2>1 DEF Numbered
    <3> QED BY <3>1, <3>2, <3>3
  <2>2. CASE i = n + 1
    <3>1. c[i + 1] = added /\ c[i] = b[n + 1] /\ m_running_threads'[i].jobs = m_next_thread
      BY <1>3, <1>8, <2>2
    <3> QED BY <1>6, <3>1 DEF Numbered
  <2> QED BY <1>3, <2>1, <2>2
<1>10. JobsInOrder'
  <2>1. c[1] = Len(committed') /\ added' = c[n + 2]
    BY <1>1, <1>3, <1>6, <1>8 DEF Numbered
  <2>2. Len(m_next_thread') = 0 /\ c[n + 2] \in Nat
    BY <1>1, <2>1, QueueTypes
  <2>3. Numbered(c)'
    BY <1>3, <1>9, <2>1, <2>2 DEF Numbered
  <2>4. c \in [1..(Len(m_running_threads') + 1) -> 0..added']
    BY <1>1, <1>3, <1>8
  <2> QED BY <2>3, <2>4 DEF JobsInOrder
<1> QED BY <1>1, <1>4, <1>5, <1>10 DEF QueueInv

\* Whatever a thread prepares, its jobs stay.
LEMMA JobPrepared ==
  ASSUME QueueInv, NEW k \in DOMAIN m_running_threads, Container!Prepare(k)
  PROVE  QueueInv'
<1> DEFINE t == [m_running_threads[k] EXCEPT !.prepared = @ + 1]
<1>1. /\ QueueTypeOK
      /\ m_running_threads' = [m_running_threads EXCEPT ![k] = t]
      /\ UNCHANGED <<limits, queue_pc, work, added, m_next_thread, committed>>
  BY DEF Container!Prepare, QueueInv
<1>2. t \in Thread /\ t.jobs = m_running_threads[k].jobs
  <2>1. k \in 1..Len(m_running_threads) /\ m_running_threads[k] \in Thread
    BY <1>1, QueueTypes
  <2> QED BY <2>1 DEF Thread
<1>3. /\ m_running_threads' \in Seq(Thread)
      /\ Len(m_running_threads') = Len(m_running_threads)
      /\ \A i \in 1..Len(m_running_threads) :
           m_running_threads'[i].jobs = m_running_threads[i].jobs
  <2> HIDE DEF t
  <2> QED BY <1>1, <1>2, QueueTypes, ExceptSeq
<1>4. QueueTypeOK'
  BY <1>1, <1>3 DEF QueueTypeOK
<1>5. CallerInv'
  BY <1>1, <1>3 DEF QueueInv, CallerInv, QueueTypeOK
<1>6. \A b : Numbered(b) => Numbered(b)'
  BY <1>1, <1>3 DEF Numbered
<1>7. JobsInOrder'
  BY <1>1, <1>3, <1>6 DEF QueueInv, JobsInOrder
<1> QED BY <1>1, <1>4, <1>5, <1>7 DEF QueueInv

\* The first thread has the jobs that come after those committed.
LEMMA ThreadCommitted ==
  ASSUME QueueInv, Container!commit_thread
  PROVE  QueueInv'
<1> DEFINE n == Len(m_running_threads)
           h == Head(m_running_threads).jobs
<1>1. /\ QueueTypeOK
      /\ m_running_threads # <<>>
      /\ m_running_threads' = Tail(m_running_threads)
      /\ committed' = committed \o h
      /\ UNCHANGED <<limits, queue_pc, work, added, m_next_thread>>
      /\ queue_pc \in {"spawn", "last", "drain"}
  BY DEF Container!commit_thread, Container!MustCommit, QueueInv
<1>2. /\ n \in Nat \ {0}
      /\ m_running_threads' \in Seq(Thread)
      /\ Len(m_running_threads') = n - 1
      /\ \A i \in 1..(n - 1) : m_running_threads'[i] = m_running_threads[i + 1]
      /\ Head(m_running_threads) = m_running_threads[1]
  BY <1>1, QueueTypes, HeadTailProperties, EmptySeq
<1>3. h \in Seq(Nat) /\ Len(h) \in Nat /\ h = m_running_threads[1].jobs
  BY <1>1, <1>2, QueueTypes
<1>4. /\ committed' \in Seq(Nat)
      /\ Len(committed') = Len(committed) + Len(h)
      /\ \A j \in 1..Len(committed') :
           committed'[j] = IF j <= Len(committed) THEN committed[j]
                                                  ELSE h[j - Len(committed)]
  <2> HIDE DEF h
  <2> QED BY <1>1, <1>3, QueueTypes, ConcatProperties
<1>5. QueueTypeOK'
  BY <1>1, <1>2, <1>4 DEF QueueTypeOK
<1>6. CallerInv'
  BY <1>1, <1>2 DEF QueueInv, CallerInv, QueueTypeOK
<1>7. PICK b \in [1..(n + 1) -> 0..added] : Numbered(b)
  BY DEF QueueInv, JobsInOrder
<1>8. /\ b[1] = Len(committed) /\ b[2] = b[1] + Len(h)
      /\ \A j \in 1..Len(h) : h[j] = b[1] + j
  <2>1. 1 \in 1..n /\ 1 + 1 = 2
    BY <1>2
  <2> QED BY <1>3, <1>7, <2>1 DEF Numbered
<1>9. JobsInOrder'
  <2>1. PICK c : c = [i \in 1..n |-> b[i + 1]]
    OBVIOUS
  <2>2. c \in [1..n -> 0..added] /\ \A i \in 1..n : c[i] = b[i + 1]
    BY <1>2, <2>1
  <2>3. c[1] = Len(committed')
    BY <1>2, <1>4, <1>8, <2>2
  <2>4. \A i \in 1..(n - 1) :
          /\ c[i + 1] = c[i] + Len(m_running_threads'[i].jobs)
          /\ \A j \in 1..Len(m_running_threads'[i].jobs) :
               m_running_threads'[i].jobs[j] = c[i] + j
    <3> SUFFICES ASSUME NEW i \in 1..(n - 1)
                 PROVE  /\ c[i + 1] = c[i] + Len(m_running_threads'[i].jobs)
                        /\ \A j \in 1..Len(m_running_threads'[i].jobs) :
                             m_running_threads'[i].jobs[j] = c[i] + j
      OBVIOUS
    <3>1. i + 1 \in 1..n /\ i \in 1..n
      BY <1>2
    <3>2. /\ c[i + 1] = b[(i + 1) + 1] /\ c[i] = b[i + 1]
          /\ m_running_threads'[i] = m_running_threads[i + 1]
      BY <1>2, <2>2, <3>1
    <3> QED BY <1>7, <3>1, <3>2 DEF Numbered
  <2>5. c[n] = b[n + 1]
    BY <1>2, <2>2
  <2>6. Numbered(c)'
    <3>1. /\ added' = c[n] + Len(m_next_thread')
          /\ \A j \in 1..Len(m_next_thread') : m_next_thread'[j] = c[n] + j
      BY <1>1, <1>7, <2>5 DEF Numbered
    <3>2. (n - 1) + 1 = n
      BY <1>2
    <3> QED BY <1>2, <2>3, <2>4, <3>1, <3>2 DEF Numbered
  <2> QED BY <1>1, <1>2, <2>2, <2>6 DEF JobsInOrder
<1>10. committed' = [j \in 1..Len(committed') |-> j]
  <2>1. \A j \in 1..Len(committed) : committed[j] = j
    BY DEF QueueInv
  <2>2. Len(committed) \in Nat
    BY <1>1, QueueTypes
  <2>3. \A j \in 1..Len(h) : h[j] = Len(committed) + j
    BY <1>8
  <2> HIDE DEF h
  <2>4. ASSUME NEW j \in 1..Len(committed')
        PROVE  committed'[j] = j
    <3>1. CASE j <= Len(committed)
      <4>1. committed'[j] = committed[j] /\ j \in 1..Len(committed)
        BY <1>4, <2>2, <3>1
      <4> QED BY <2>1, <4>1
    <3>2. CASE ~(j <= Len(committed))
      <4>1. PICK i : i = j - Len(committed)
        OBVIOUS
      <4>2. i \in 1..Len(h) /\ committed'[j] = h[i] /\ Len(committed) + i = j
        BY <1>3, <1>4, <2>2, <3>2, <4>1
      <4> QED BY <2>3, <4>2
    <3> QED BY <3>1, <3>2
  <2> QED BY <1>4, <2>4, LenProperties
<1> QED BY <1>5, <1>6, <1>9, <1>10 DEF QueueInv

\* The other steps of the caller move no job.
LEMMA CallerGoesOn ==
  ASSUME QueueInv, Container!Complete \/ Container!Completed
  PROVE  QueueInv'
<1>1. /\ UNCHANGED <<limits, work, added, m_next_thread, m_running_threads, committed>>
      /\ \/ /\ added = Len(work)
            /\ queue_pc' = IF m_next_thread # <<>> THEN "last" ELSE "drain"
         \/ /\ queue_pc = "drain" /\ queue_pc' = "done"
            /\ m_running_threads = <<>>
      /\ queue_pc \in {"add", "drain"}
  BY DEF Container!Complete, Container!Completed
<1>2. QueueTypeOK'
  BY <1>1 DEF QueueInv, QueueTypeOK
<1>3. CallerInv'
  BY <1>1 DEF QueueInv, CallerInv, QueueTypeOK
<1>4. JobsInOrder'
  <2>1. PICK b \in [1..(Len(m_running_threads) + 1) -> 0..added] : Numbered(b)
    BY DEF QueueInv, JobsInOrder
  <2>2. Numbered(b)'
    BY <1>1, <2>1 DEF Numbered
  <2> QED BY <1>1, <2>1, <2>2 DEF JobsInOrder
<1>5. committed' = [j \in 1..Len(committed') |-> j]
  BY <1>1 DEF QueueInv
<1> QED BY <1>2, <1>3, <1>4, <1>5 DEF QueueInv

\* Every step of a queue keeps its jobs in order.
LEMMA QueueStepInv == QueueInv /\ Container!QueueStep => QueueInv'
BY JobAdded, JobCommittedAtOnce, ThreadSpawned, JobPrepared, ThreadCommitted, CallerGoesOn
DEF Container!QueueStep

\* And so does what does not touch it.
LEMMA QueueUnchanged == QueueInv /\ UNCHANGED Container!queueVars => QueueInv'
<1> SUFFICES ASSUME QueueInv, UNCHANGED Container!queueVars PROVE QueueInv'
  OBVIOUS
<1> USE DEF Container!queueVars
<1>1. QueueTypeOK'
  BY DEF QueueInv, QueueTypeOK
<1>2. CallerInv'
  BY DEF QueueInv, CallerInv
<1>3. JobsInOrder'
  BY DEF QueueInv, JobsInOrder, Numbered
<1> QED BY <1>1, <1>2, <1>3 DEF QueueInv

\* Every step of the pipeline is one of the queue or leaves it as it is.
LEMMA QueueNext == QueueInv /\ [Next]_vars => QueueInv'
<1> SUFFICES ASSUME QueueInv, [Next]_vars PROVE QueueInv'
  OBVIOUS
<1> USE QueueStepInv, QueueUnchanged
<1>1. CASE UNCHANGED containerVars
  BY <1>1 DEF containerVars, Container!queueVars
<1>2. CASE \E lists, c : c \in CompressCalls(lists, reorder.method) /\ Container!Compress(c)
  BY <1>2, QueueMade DEF Container!Compress
<1>3. CASE Container!ContainerStep
  BY <1>3 DEF Container!ContainerStep, Container!AddPostingList, Container!WriteDocs,
    Container!WriteFreqs, Container!AddBlocks, Container!AddSequences,
    Container!BuildContainer, Container!Verify
<1> QED
  BY <1>1, <1>2, <1>3 DEF Next, vars, ParseCollection, PartitionForward, InvertForward,
    ReorderIndex, CompressIndex, Finished

\* The inductive invariant of the queue.
THEOREM QueueCorrect == Spec => []QueueInv
<1>1. Init => QueueInv
  BY QueueInit DEF Init, Container!ContainerIdle
<1> QED BY <1>1, QueueNext, PTL DEF Spec

\* Jobs of a semiasync_queue are committed in the order they were added, each once and
\* none left behind, by any number of threads and however long the jobs.
THEOREM JobsCommitInOrder == Spec => []CommitsInOrder
<1>1. QueueInv => CommitsInOrder
  <2> SUFFICES ASSUME QueueInv PROVE Container!CommitsInOrder
    BY DEF CommitsInOrder
  <2>1. queue_pc = "done" => Len(committed) = added
    BY DEF QueueInv, QueueTypeOK, CallerInv, JobsInOrder, Numbered
  <2> QED BY <2>1 DEF QueueInv, CallerInv, Container!CommitsInOrder
<1> QED BY <1>1, QueueCorrect, PTL
-----------------------------------------------------------------------------
(* The bounded queue of the forward_index_builder.                          *)

Record == [title : Nat, content : Seq(Nat)]
Batch == [records : Seq(Record), state : {"ready", "written", "threw", "over"}]

BuilderTypeOK ==
  /\ call \in [records : Seq(Seq(Nat)), batch_size : Nat \ {0}, threads : Nat]
  /\ build_pc \in {"idle", "read", "push", "last", "wait", "done", "failed"}
  /\ is \in Seq(Record)
  /\ record_batch \in Seq(Record)
  /\ queue \in Nat
  /\ task \in Seq(Batch)

\* The batches whose task keeps a place in the queue.
Kept == {b \in DOMAIN task : task[b].state # "over"}

\* The places taken are those of the tasks that are not over, a task that threw
\* among them.
PlacesInv ==
  /\ queue = Cardinality(Kept)
  /\ queue <= IF build_pc = "idle" THEN 0 ELSE Builder!Capacity
  /\ build_pc = "idle" => call.threads = 0

BuilderInv == BuilderTypeOK /\ PlacesInv

\* The builder counts as this module does.
LEMMA SameCardinality == \A S : Builder!Cardinality(S) = Cardinality(S)
BY DEF Builder!Cardinality, Cardinality, Builder!IsFiniteSet, IsFiniteSet

\* The greater of a number and zero.
LEMMA MaxZero ==
  ASSUME NEW n \in Int
  PROVE  /\ Builder!Max({0, n}) \in Nat
         /\ n \in Nat => Builder!Max({0, n}) = n
<1>1. \E x \in {0, n} : \A y \in {0, n} : x >= y
  OBVIOUS
<1>2. Builder!Max({0, n}) \in {0, n} /\ \A y \in {0, n} : Builder!Max({0, n}) >= y
  BY <1>1 DEF Builder!Max
<1> QED BY <1>2

\* The tasks are finitely many.
LEMMA BuilderTypes ==
  ASSUME BuilderTypeOK
  PROVE  /\ DOMAIN task = 1..Len(task) /\ Len(task) \in Nat
         /\ \A b \in DOMAIN task : task[b] \in Batch
         /\ IsFiniteSet(DOMAIN task) /\ IsFiniteSet(Kept)
         /\ Builder!Capacity \in Int
<1>1. task \in Seq(Batch) /\ call.threads \in Nat
  BY DEF BuilderTypeOK
<1>2. /\ DOMAIN task = 1..Len(task) /\ Len(task) \in Nat
      /\ \A b \in DOMAIN task : task[b] \in Batch
  BY <1>1, LenProperties, ElementOfSeq
<1>3. IsFiniteSet(DOMAIN task)
  BY <1>2, FS_Interval
<1>4. IsFiniteSet(Kept)
  BY <1>3, FS_Subset DEF Kept
<1> QED BY <1>1, <1>2, <1>3, <1>4 DEF Builder!Capacity

\* A builder starts with an empty queue.
LEMMA BuilderInit == Builder!BuilderIdle => BuilderInv
<1> SUFFICES ASSUME Builder!BuilderIdle PROVE BuilderInv
  OBVIOUS
<1>1. BuilderTypeOK
  BY DEF Builder!BuilderIdle, BuilderTypeOK
<1>2. Kept = {}
  BY DEF Builder!BuilderIdle, Kept
<1> QED BY <1>1, <1>2, FS_EmptySet DEF Builder!BuilderIdle, BuilderInv, PlacesInv

\* build() is called with enough threads for a place in the queue.
LEMMA BuildCalled ==
  ASSUME BuilderInv, NEW c \in BuildCalls, Builder!Build(c)
  PROVE  BuilderInv'
<1>1. c \in [records : Seq(Seq(Nat)), batch_size : Nat \ {0}, threads : Nat]
  BY BuildCallsAssumption
<1>2. is' \in Seq(Record)
  <2>1. c.records \in Seq(Seq(Nat))
    BY <1>1
  <2>2. /\ Len(c.records) \in Nat /\ DOMAIN c.records = 1..Len(c.records)
        /\ \A i \in 1..Len(c.records) : c.records[i] \in Seq(Nat)
    BY <2>1, LenProperties, ElementOfSeq
  <2>3. is' \in [1..Len(c.records) -> Record]
    BY <2>2 DEF Builder!Build, Record
  <2>4. \A n \in Nat : [1..n -> Record] \subseteq Seq(Record)
    BY SeqDef
  <2> QED BY <2>2, <2>3, <2>4
<1>3. BuilderTypeOK'
  BY <1>1, <1>2 DEF Builder!Build, BuilderInv, BuilderTypeOK
<1>4. Kept' = Kept
  BY DEF Builder!Build, Kept
<1>5. PlacesInv'
  <2>1. call' = c /\ queue = 0 /\ queue' = queue /\ build_pc' = "read" /\ c.threads >= 2
    BY DEF Builder!Build, BuilderInv, PlacesInv, BuilderTypeOK
  <2>2. (c.threads - 1) * 2 >= 0
    BY <1>1, <2>1
  <2> QED BY <1>4, <2>1, <2>2 DEF BuilderInv, PlacesInv, Builder!Capacity
<1> QED BY <1>3, <1>5 DEF BuilderInv

\* Reading and merging leave the queue alone.
LEMMA BatchesKept ==
  ASSUME BuilderInv, Builder!ReadRecord \/ Builder!EndOfInput \/ Builder!Merge
  PROVE  BuilderInv'
<1>1. /\ UNCHANGED <<call, queue, task>>
      /\ build_pc # "idle"
      /\ build_pc' \in {"read", "push", "last", "done", "failed"}
  BY DEF Builder!ReadRecord, Builder!EndOfInput, Builder!Merge
<1>2. is' \in Seq(Record) /\ record_batch' \in Seq(Record)
  <2>1. is \in Seq(Record) /\ record_batch \in Seq(Record)
    BY DEF BuilderInv, BuilderTypeOK
  <2>2. CASE Builder!ReadRecord
    BY <2>1, <2>2, HeadTailProperties, AppendProperties DEF Builder!ReadRecord
  <2>3. CASE Builder!EndOfInput \/ Builder!Merge
    BY <2>1, <2>3 DEF Builder!EndOfInput, Builder!Merge
  <2> QED BY <2>2, <2>3
<1>3. BuilderTypeOK'
  BY <1>1, <1>2 DEF BuilderInv, BuilderTypeOK
<1>4. Kept' = Kept
  BY <1>1 DEF Kept
<1> QED BY <1>1, <1>3, <1>4 DEF BuilderInv, PlacesInv, Builder!Capacity

\* A batch takes a free place.
LEMMA BatchRuns ==
  ASSUME BuilderInv, Builder!RunBatch
  PROVE  BuilderInv'
<1> DEFINE n == Len(task)
           t == [records |-> record_batch, state |-> "ready"]
<1>1. /\ BuilderTypeOK
      /\ queue < Builder!Capacity /\ queue' = queue + 1
      /\ task' = Append(task, t)
      /\ record_batch' = <<>>
      /\ UNCHANGED <<call, is>>
      /\ build_pc # "idle" /\ build_pc' \in {"wait", "read"}
  BY DEF Builder!RunBatch, BuilderInv
<1>2. t \in Batch
  BY <1>1 DEF Batch, BuilderTypeOK
<1>3. /\ task' \in Seq(Batch)
      /\ Len(task') = n + 1
      /\ \A i \in 1..n : task'[i] = task[i]
      /\ task'[n + 1] = t
  <2> HIDE DEF t
  <2> QED BY <1>1, <1>2, AppendProperties DEF BuilderTypeOK
<1>4. BuilderTypeOK'
  BY <1>1, <1>3 DEF BuilderTypeOK
<1>5. Kept' = Kept \cup {n + 1} /\ n + 1 \notin Kept
  <2>1. DOMAIN task = 1..n /\ n \in Nat /\ DOMAIN task' = 1..(n + 1)
    BY <1>1, <1>3, <1>4, BuilderTypes
  <2> QED BY <1>3, <2>1 DEF Kept
<1>6. Cardinality(Kept') = queue + 1
  BY <1>1, <1>5, BuilderTypes, FS_AddElement DEF BuilderInv, PlacesInv
<1>7. Builder!Capacity' = Builder!Capacity
  BY <1>1 DEF Builder!Capacity
<1>8. PlacesInv'
  <2>1. queue' <= Builder!Capacity
    BY <1>1, BuilderTypes DEF BuilderTypeOK
  <2>2. build_pc' # "idle" /\ queue' = Cardinality(Kept')
    BY <1>1, <1>6
  <2> QED BY <1>7, <2>1, <2>2 DEF PlacesInv
<1> QED BY <1>4, <1>8 DEF BuilderInv

\* A task that runs or throws keeps its place, one that ends frees it.
LEMMA TaskRuns ==
  ASSUME BuilderInv, NEW b \in DOMAIN task, Builder!Task(b)
  PROVE  BuilderInv'
<1>1. PICK s \in {"written", "threw", "over"} :
        /\ task' = [task EXCEPT ![b].state = s]
        /\ s = "over" <=> Builder!PopQueue(b)
  BY DEF Builder!Task, Builder!ProcessBatch, Builder!ThrowBatch, Builder!PopQueue,
    Builder!CanStart
<1> DEFINE t == [task[b] EXCEPT !.state = s]
<1>2. /\ BuilderTypeOK
      /\ UNCHANGED <<call, build_pc, is, record_batch>>
      /\ task[b].state # "over"
      /\ queue' = IF s = "over" THEN Builder!Max({0, queue - 1}) ELSE queue
  BY <1>1 DEF Builder!Task, Builder!ProcessBatch, Builder!ThrowBatch, Builder!PopQueue,
    Builder!CanStart, BuilderInv
<1>3. t \in Batch /\ t.state = s
  BY <1>2, BuilderTypes DEF Batch
<1>4. /\ task' \in Seq(Batch)
      /\ DOMAIN task' = DOMAIN task
      /\ \A i \in DOMAIN task : task'[i] = IF i = b THEN t ELSE task[i]
  <2>1. task \in Seq(Batch) /\ b \in 1..Len(task) /\ task' = [task EXCEPT ![b] = t]
    BY <1>1, <1>2, BuilderTypes DEF BuilderTypeOK
  <2> HIDE DEF t
  <2>2. task' \in Seq(Batch)
    BY <1>3, <2>1, ExceptSeq
  <2> QED BY <2>1, <2>2
<1>5. b \in Kept /\ queue \in Nat \ {0}
  <2>1. b \in Kept
    BY <1>2 DEF Kept
  <2>2. Cardinality(Kept) # 0
    BY <1>2, <2>1, BuilderTypes, FS_EmptySet
  <2> QED BY <1>2, <2>1, <2>2 DEF BuilderInv, PlacesInv, BuilderTypeOK
<1>6. queue' = IF s = "over" THEN queue - 1 ELSE queue
  BY <1>2, <1>5, MaxZero
<1>7. BuilderTypeOK'
  BY <1>2, <1>4, <1>5, <1>6 DEF BuilderTypeOK
<1>8. Cardinality(Kept') = queue'
  <2>1. CASE s = "over"
    <3>1. Kept' = Kept \ {b}
      BY <1>3, <1>4, <2>1 DEF Kept
    <3> QED BY <1>2, <1>5, <1>6, <2>1, <3>1, BuilderTypes, FS_RemoveElement
         DEF BuilderInv, PlacesInv
  <2>2. CASE s # "over"
    <3>1. Kept' = Kept
      BY <1>2, <1>3, <1>4, <2>2 DEF Kept
    <3> QED BY <1>6, <2>2, <3>1 DEF BuilderInv, PlacesInv
  <2> QED BY <2>1, <2>2
<1>9. PlacesInv'
  <2>1. Builder!Capacity' = Builder!Capacity /\ Builder!Capacity \in Int
    BY <1>2, BuilderTypes DEF Builder!Capacity
  <2>2. queue' <= queue /\ queue' \in Nat
    BY <1>5, <1>6
  <2> QED BY <1>2, <1>5, <1>8, <2>1, <2>2 DEF BuilderInv, PlacesInv
<1> QED BY <1>7, <1>9 DEF BuilderInv

\* What does not touch the builder.
LEMMA BuilderUnchanged ==
  ASSUME BuilderInv, UNCHANGED builderVars
  PROVE  BuilderInv'
<1>1. UNCHANGED <<call, build_pc, is, record_batch, queue, task>>
  BY DEF builderVars
<1>2. BuilderTypeOK'
  BY <1>1 DEF BuilderInv, BuilderTypeOK
<1>3. Kept' = Kept
  BY <1>1 DEF Kept
<1> QED BY <1>1, <1>2, <1>3 DEF BuilderInv, PlacesInv, Builder!Capacity

\* Every step of the pipeline is one of the builder or leaves it as it is.
LEMMA BuilderNext == BuilderInv /\ [Next]_vars => BuilderInv'
<1> SUFFICES ASSUME BuilderInv, [Next]_vars PROVE BuilderInv'
  OBVIOUS
<1>1. CASE UNCHANGED builderVars
  BY <1>1, BuilderUnchanged
<1>2. CASE \E c \in BuildCalls : Builder!Build(c)
  BY <1>2, BuildCalled
<1>3. CASE Builder!Producer
  BY <1>3, BatchesKept, BatchRuns DEF Builder!Producer
<1>4. CASE \E b \in DOMAIN task : Builder!Task(b)
  BY <1>4, TaskRuns
<1> QED
  BY <1>1, <1>2, <1>3, <1>4 DEF Next, vars, ParseCollection, PartitionForward, InvertForward,
    ReorderIndex, CompressIndex, Finished, Builder!BuilderStep

\* The inductive invariant of the builder.
THEOREM BuilderCorrect == Spec => []BuilderInv
<1>1. Init => BuilderInv
  BY BuilderInit DEF Init
<1> QED BY <1>1, BuilderNext, PTL DEF Spec

\* However many threads run the tasks, in whatever order they end or throw, no more
\* batches are in memory than the queue has places.
THEOREM MemoryIsBounded == Spec => []BoundedMemory
<1>1. BuilderInv => BoundedMemory
  <2> SUFFICES ASSUME BuilderInv PROVE Builder!BoundedMemory
    BY DEF BoundedMemory
  <2> DEFINE inMemory == {b \in DOMAIN task : task[b].state \in {"ready", "written"}}
  <2>1. BuilderTypeOK /\ inMemory \subseteq Kept
    BY DEF BuilderInv, Kept
  <2>2. Cardinality(inMemory) <= Cardinality(Kept) /\ Cardinality(inMemory) \in Nat
    BY <2>1, BuilderTypes, FS_Subset, FS_CardinalityType
  <2>3. Cardinality(Kept) = queue /\ queue \in Nat
    BY DEF BuilderInv, PlacesInv, BuilderTypeOK
  <2>4. queue <= Builder!Max({0, Builder!Capacity})
    BY <2>1, <2>3, BuilderTypes, MaxZero DEF BuilderInv, PlacesInv
  <2>5. Builder!Max({0, Builder!Capacity}) \in Nat
    BY <2>1, BuilderTypes, MaxZero
  <2>6. Cardinality(inMemory) <= Builder!Max({0, Builder!Capacity})
    <3> HIDE DEF inMemory
    <3> QED BY <2>2, <2>3, <2>4, <2>5
  <2> QED BY <2>6, SameCardinality DEF Builder!BoundedMemory
<1> QED BY <1>1, BuilderCorrect, PTL

-----------------------------------------------------------------------------
(* The files of a batch.                                                    *)

\* The builder puts numbers in order as CommonFacts does.
LEMMA SameOrder == \A S : Builder!Ascending(S) = Ascending(S)
BY DEF Builder!Ascending, Ascending, Builder!Cardinality, Cardinality, Builder!IsFiniteSet,
  IsFiniteSet

\* The builder puts sequences one after the other as CommonFacts does.
LEMMA SameFlatten == \A s : Builder!FlattenSeq(s) = FlattenSeq(s)
BY DEF Builder!FlattenSeq, FlattenSeq

\* A range is one.
LEMMA SameRange == \A f : Builder!Range(f) = Range(f)
BY DEF Builder!Range, Range

\* A function on places from 1 on is a sequence.
LEMMA FunctionIsSeq ==
  ASSUME NEW S, NEW n \in Nat, NEW f \in [1..n -> S]
  PROVE  f \in Seq(S) /\ Len(f) = n
OBVIOUS

\* Each element of a sequence once.
LEMMA OccurrencesKept ==
  ASSUME NEW s \in Seq(Nat)
  PROVE  /\ Builder!FirstOccurrences(s) \in Seq(Nat)
         /\ Range(Builder!FirstOccurrences(s)) = Range(s)
<1> DEFINE first == {i \in DOMAIN s : \A j \in 1..(i - 1) : s[j] # s[i]}
           n == Cardinality(first)
           order == Ascending(first)
<1>1. DOMAIN s = 1..Len(s) /\ Len(s) \in Nat /\ \A i \in 1..Len(s) : s[i] \in Nat
  BY LenProperties, ElementOfSeq
<1>2. first \in SUBSET Nat /\ IsFiniteSet(first)
  <2>1. first \in SUBSET (1..Len(s)) /\ IsFiniteSet(1..Len(s))
    BY <1>1, FS_Interval
  <2> HIDE DEF first
  <2>2. IsFiniteSet(first)
    BY <2>1, FS_Subset
  <2>3. \A i \in 1..Len(s) : i \in Nat
    BY <1>1
  <2> QED BY <2>1, <2>2, <2>3
<1>3. /\ n \in Nat
      /\ \A k \in 1..n : order[k] \in first
      /\ \A x \in first : \E k \in 1..n : order[k] = x
  <2> HIDE DEF first
  <2> QED BY <1>2, AscendingFacts
<1>4. Builder!FirstOccurrences(s) = [k \in 1..n |-> s[order[k]]]
  BY SameCardinality, SameOrder DEF Builder!FirstOccurrences
<1>5. \A k \in 1..n : order[k] \in DOMAIN s
  BY <1>3
<1>6. Builder!FirstOccurrences(s) \in Seq(Nat)
  <2>1. Builder!FirstOccurrences(s) \in [1..n -> Nat]
    <3> HIDE DEF n, order
    <3> QED BY <1>1, <1>4, <1>5
  <2> HIDE DEF n
  <2> QED BY <1>3, <2>1
<1>7. ASSUME NEW i \in DOMAIN s PROVE \E k \in 1..n : s[order[k]] = s[i]
  <2> DEFINE same == {j \in DOMAIN s : s[j] = s[i]}
  <2>1. same \in SUBSET Nat /\ same # {}
    BY <1>1, <1>7
  <2>2. PICK j \in same : \A m \in same : j <= m
    <3> HIDE DEF same
    <3> QED BY <2>1, LeastNatural
  <2>3. j \in first
    <3>1. j \in 1..Len(s) /\ s[j] = s[i]
      BY <1>1, <2>2
    <3>2. ASSUME NEW m \in 1..(j - 1), s[m] = s[j] PROVE FALSE
      <4>1. m \in 1..Len(s) /\ m < j
        BY <1>1, <3>1
      <4>2. m \in same
        BY <1>1, <3>1, <3>2, <4>1
      <4> QED BY <1>1, <2>2, <4>1, <4>2
    <3> QED BY <1>1, <3>1, <3>2
  <2>4. PICK k \in 1..n : order[k] = j
    <3> HIDE DEF first
    <3> QED BY <1>3, <2>3
  <2> QED BY <2>2, <2>4
<1>8. Range(Builder!FirstOccurrences(s)) = Range(s)
  <2>1. DOMAIN Builder!FirstOccurrences(s) = 1..n
    BY <1>4
  <2> HIDE DEF n, order
  <2>2. \A k \in 1..n : Builder!FirstOccurrences(s)[k] = s[order[k]]
    BY <1>4
  <2>3. \A x \in Range(Builder!FirstOccurrences(s)) : x \in Range(s)
    BY <1>5, <2>1, <2>2 DEF Range
  <2>4. \A x \in Range(s) : x \in Range(Builder!FirstOccurrences(s))
    BY <1>7, <2>1, <2>2 DEF Range
  <2> QED BY <2>3, <2>4
<1> QED BY <1>6, <1>8

\* The place of an element that is in the sequence.
LEMMA PlaceOf ==
  ASSUME NEW s \in Seq(Nat), NEW x \in Range(s)
  PROVE  /\ Builder!IdIn(s, x) \in Nat /\ Builder!IdIn(s, x) < Len(s)
         /\ s[Builder!IdIn(s, x) + 1] = x
<1> DEFINE I == {i \in 1..Len(s) : s[i] = x}
<1>1. DOMAIN s = 1..Len(s) /\ Len(s) \in Nat
  BY LenProperties
<1>2. I \in SUBSET Nat /\ I # {}
  BY <1>1 DEF Range
<1>3. Min(I) \in I
  <2> HIDE DEF I
  <2> QED BY <1>2, MinOfNaturals
<1>4. Builder!IdIn(s, x) = Min(I) - 1
  BY <1>2 DEF Builder!IdIn, Builder!SelectInSeq, Builder!Min, Min
<1>5. Min(I) \in 1..Len(s) /\ s[Min(I)] = x
  BY <1>3
<1> HIDE DEF I
<1>6. Min(I) - 1 + 1 = Min(I)
  BY <1>1, <1>5
<1> QED BY <1>1, <1>4, <1>5, <1>6

\* The files of a batch are its documents over its terms.
FilesOf(records, files) ==
  /\ files.titles = [i \in 1..Len(records) |-> records[i].title]
  /\ files.terms \in Seq(Nat)
  /\ Range(files.terms) = UNION {Range(records[i].content) : i \in 1..Len(records)}
  /\ DOMAIN files.docs = 1..Len(records)
  /\ \A i \in 1..Len(records) :
       /\ files.docs[i] \in Seq(Nat) /\ Len(files.docs[i]) = Len(records[i].content)
       /\ \A j \in 1..Len(records[i].content) :
            /\ files.docs[i][j] < Len(files.terms)
            /\ files.terms[files.docs[i][j] + 1] = records[i].content[j]

\* What run() writes.
LEMMA FilesFacts ==
  ASSUME NEW records \in Seq(Record)
  PROVE  FilesOf(records, Builder!Files(records))
<1> DEFINE n == Len(records)
           contents == [i \in DOMAIN records |-> records[i].content]
           flat == FlattenSeq(contents)
           terms == Builder!FirstOccurrences(flat)
<1>1. /\ DOMAIN records = 1..n /\ n \in Nat
      /\ \A i \in 1..n : /\ records[i].content \in Seq(Nat)
                         /\ DOMAIN records[i].content = 1..Len(records[i].content)
                         /\ Len(records[i].content) \in Nat
  <2>1. \A i \in 1..n : records[i] \in Record
    BY ElementOfSeq
  <2>2. \A i \in 1..n : records[i].content \in Seq(Nat)
    BY <2>1 DEF Record
  <2> QED BY <2>2, LenProperties
<1>2. contents \in Seq(Seq(Nat)) /\ Len(contents) = n
  <2>1. contents \in [1..n -> Seq(Nat)]
    BY <1>1
  <2> HIDE DEF contents, n
  <2> QED BY <1>1, <2>1
<1>3. flat \in Seq(Nat) /\ \E starts : Starts(contents, flat, starts)
  <2> HIDE DEF contents
  <2> QED BY <1>2, FlattenFacts
<1>4. PICK starts : Starts(contents, flat, starts)
  BY <1>3
<1>5. DOMAIN flat = 1..Len(flat) /\ Len(flat) \in Nat
  <2> HIDE DEF flat
  <2> QED BY <1>3, LenProperties
<1>6. \A i \in 1..n : contents[i] = records[i].content
  BY <1>1
<1>7. terms \in Seq(Nat) /\ Range(terms) = Range(flat)
  <2> HIDE DEF flat
  <2> QED BY <1>3, OccurrencesKept
<1>8. \A i \in 1..n : \A j \in 1..Len(records[i].content) : records[i].content[j] \in Range(flat)
  <2> SUFFICES ASSUME NEW i \in 1..n, NEW j \in 1..Len(records[i].content)
               PROVE  records[i].content[j] \in Range(flat)
    OBVIOUS
  <2>1. contents[i] = records[i].content
    BY <1>6
  <2> HIDE DEF contents, flat
  <2>2. flat[starts[i] + j] = records[i].content[j] /\ starts[i] + j \in 1..Len(flat)
    <3>1. /\ starts[i + 1] = starts[i] + Len(contents[i]) /\ starts[i + 1] <= Len(flat)
          /\ flat[starts[i] + j] = contents[i][j]
      BY <1>2, <1>4, <2>1 DEF Starts
    <3>2. starts[i] \in Nat
      <4>1. i \in 1..(n + 1) /\ starts \in [1..(n + 1) -> Nat]
        BY <1>1, <1>2, <1>4 DEF Starts
      <4> QED BY <4>1
    <3> QED BY <1>1, <1>5, <2>1, <3>1, <3>2, SMTT(20)
  <2> QED BY <1>5, <2>2 DEF Range
<1>9. Range(flat) = UNION {Range(records[i].content) : i \in 1..n}
  <2>1. ASSUME NEW x \in Range(flat) PROVE \E i \in 1..n : x \in Range(records[i].content)
    <3> HIDE DEF contents, flat
    <3>1. PICK p \in 1..Len(flat) : flat[p] = x
      BY <1>5, <2>1 DEF Range
    <3>2. PICK i \in 1..n : \E j \in 1..Len(contents[i]) : p = starts[i] + j
      BY <1>2, <1>4 DEF Starts
    <3>3. PICK j \in 1..Len(contents[i]) : p = starts[i] + j
      BY <3>2
    <3>4. x = records[i].content[j] /\ j \in DOMAIN records[i].content
      BY <1>1, <1>2, <1>4, <1>6, <3>1, <3>3, SMTT(20) DEF Starts
    <3> QED BY <3>4 DEF Range
  <2>2. \A i \in 1..n : \A x \in Range(records[i].content) : x \in Range(flat)
    <3> HIDE DEF contents, flat
    <3> QED BY <1>1, <1>8 DEF Range
  <2> HIDE DEF flat
  <2> QED BY <2>1, <2>2
<1>10. Builder!Files(records) =
         [titles |-> [i \in DOMAIN records |-> records[i].title],
          terms |-> terms,
          docs |-> [i \in DOMAIN records |->
                      [j \in DOMAIN records[i].content |-> Builder!IdIn(terms, records[i].content[j])]]]
  BY SameFlatten DEF Builder!Files
<1> HIDE DEF terms, flat, n
<1> DEFINE ids(i) == [j \in DOMAIN records[i].content |-> Builder!IdIn(terms, records[i].content[j])]
<1>11. ASSUME NEW i \in 1..n
       PROVE  /\ ids(i) \in Seq(Nat) /\ Len(ids(i)) = Len(records[i].content)
              /\ \A j \in 1..Len(records[i].content) :
                   /\ ids(i)[j] < Len(terms)
                   /\ terms[ids(i)[j] + 1] = records[i].content[j]
  <2>1. ASSUME NEW j \in 1..Len(records[i].content)
        PROVE  /\ Builder!IdIn(terms, records[i].content[j]) \in Nat
               /\ Builder!IdIn(terms, records[i].content[j]) < Len(terms)
               /\ terms[Builder!IdIn(terms, records[i].content[j]) + 1] = records[i].content[j]
    BY <1>7, <1>8, PlaceOf
  <2>2. /\ ids(i) \in [1..Len(records[i].content) -> Nat]
        /\ \A j \in 1..Len(records[i].content) :
             ids(i)[j] = Builder!IdIn(terms, records[i].content[j])
    BY <1>1, <2>1
  <2>3. Len(records[i].content) \in Nat
    BY <1>1
  <2> HIDE DEF ids
  <2>4. ids(i) \in Seq(Nat) /\ Len(ids(i)) = Len(records[i].content)
    BY <2>2, <2>3
  <2> QED BY <2>1, <2>2, <2>4
<1> DEFINE files == Builder!Files(records)
<1>12. /\ files.titles = [i \in 1..n |-> records[i].title]
       /\ files.terms = terms
       /\ DOMAIN files.docs = 1..n /\ \A i \in 1..n : files.docs[i] = ids(i)
  BY <1>1, <1>10
<1> HIDE DEF ids, files
<1>13. FilesOf(records, files)
  BY <1>7, <1>9, <1>11, <1>12 DEF FilesOf, n
<1> QED BY <1>13 DEF files

-----------------------------------------------------------------------------
(* The merge.                                                               *)

Span == [terms : SUBSET Nat, lvl : Nat]

\* The terms of all spans.
SpanTerms(spans) == UNION {spans[i].terms : i \in 1..Len(spans)}

\* However spans are merged, they have the terms that were pushed.
LEMMA SpanPushed ==
  ASSUME NEW spans \in Seq(Span), NEW T \in SUBSET Nat,
         NEW pushed, pushed = Builder!PushSpan(spans, T)
  PROVE  pushed \in Seq(Span) /\ SpanTerms(pushed) = SpanTerms(spans) \cup T
<1> DEFINE n == Len(spans)
           J == {0} \cup {j \in 1..n : \A i \in 0..(j - 1) : spans[n - i].lvl = i}
           k == Builder!Max(J)
           under == SubSeq(spans, 1, n - k)
           top == [terms |-> T \cup UNION {spans[i].terms : i \in (n - k + 1)..n}, lvl |-> k]
<1>1. n \in Nat /\ \A i \in 1..n : spans[i] \in Span
  BY LenProperties, ElementOfSeq
<1>2. k \in 0..n
  <2>1. J \in SUBSET (0..n) /\ J \in SUBSET Nat /\ J # {} /\ \A j \in J : j <= n
    BY <1>1
  <2>2. Max(J) \in J
    <3> HIDE DEF J, n
    <3> QED BY <1>1, <2>1, MaxOfBounded
  <2>3. Builder!Max(J) = Max(J)
    BY DEF Builder!Max, Max
  <2> HIDE DEF J, n
  <2> QED BY <2>1, <2>2, <2>3
<1> HIDE DEF k, n
<1>3. /\ under \in Seq(Span) /\ Len(under) = n - k
      /\ \A i \in 1..(n - k) : under[i] = spans[i]
  <2>1. 1 \in Int /\ n - k \in Int /\ \A i \in 1..(n - k) : spans[i] \in Span
    BY <1>1, <1>2
  <2>2. /\ under \in Seq(Span)
        /\ Len(under) = IF 1 <= n - k THEN n - k - 1 + 1 ELSE 0
        /\ \A i \in 1..(n - k - 1 + 1) : under[i] = spans[1 + i - 1]
    BY <2>1, SubSeqProperties
  <2> HIDE DEF under
  <2> QED BY <1>1, <1>2, <2>2
<1>4. top \in Span
  <2>1. \A i \in (n - k + 1)..n : spans[i].terms \in SUBSET Nat
    BY <1>1, <1>2 DEF Span
  <2>2. UNION {spans[i].terms : i \in (n - k + 1)..n} \in SUBSET Nat
    BY <2>1
  <2>3. T \cup UNION {spans[i].terms : i \in (n - k + 1)..n} \in SUBSET Nat
    BY <2>2
  <2>4. k \in Nat
    BY <1>1, <1>2
  <2> QED BY <2>3, <2>4, Zenon DEF Span
<1>5. pushed = Append(under, top)
  BY DEF Builder!PushSpan, k, n
<1>6. /\ pushed \in Seq(Span) /\ Len(pushed) = n - k + 1
      /\ \A i \in 1..(n - k) : pushed[i] = spans[i]
      /\ pushed[n - k + 1] = top
  <2> HIDE DEF under, top
  <2> QED BY <1>3, <1>4, <1>5, AppendProperties
<1>7. ASSUME NEW x PROVE x \in SpanTerms(pushed) <=> x \in SpanTerms(spans) \/ x \in T
  <2>1. x \in SpanTerms(pushed) <=>
          (\E i \in 1..(n - k) : x \in spans[i].terms) \/ x \in top.terms
    <3>1. x \in SpanTerms(pushed) <=> \E i \in 1..(n - k + 1) : x \in pushed[i].terms
      BY <1>6 DEF SpanTerms
    <3>2. \A i \in 1..(n - k + 1) : i \in 1..(n - k) \/ i = n - k + 1
      BY <1>1, <1>2
    <3>3. n - k + 1 \in 1..(n - k + 1) /\ \A i \in 1..(n - k) : i \in 1..(n - k + 1)
      BY <1>1, <1>2
    <3> HIDE DEF top
    <3> QED BY <1>6, <3>1, <3>2, <3>3
  <2>2. x \in top.terms <=> x \in T \/ \E i \in (n - k + 1)..n : x \in spans[i].terms
    OBVIOUS
  <2>3. \A i : i \in 1..n <=> i \in 1..(n - k) \/ i \in (n - k + 1)..n
    BY <1>1, <1>2
  <2>4. x \in SpanTerms(spans) <=> \E i \in 1..n : x \in spans[i].terms
    BY DEF SpanTerms, n
  <2> HIDE DEF top
  <2> QED BY <2>1, <2>2, <2>3, <2>4
<1> QED BY <1>6, <1>7

\* The lexicon has the terms of all batches, in order.
LEMMA TermsCollected ==
  ASSUME NEW files, Len(files) \in Nat, \A b \in 1..Len(files) : files[b].terms \in Seq(Nat),
         NEW all, all = UNION {Range(files[b].terms) : b \in 1..Len(files)}
  PROVE  Builder!collect_terms(files) = Ascending(all)
<1> DEFINE n == Len(files)
           T(b) == Range(files[b].terms)
           Rec(m, f) == f = [b \in 0..m |-> IF b = 0 THEN <<>> ELSE Builder!PushSpan(f[b - 1], T(b))]
           S == {m \in Nat : \E f : Rec(m, f)}
<1>1. 0 \in S
  <2>1. Rec(0, [b \in 0..0 |-> <<>>])
    OBVIOUS
  <2> QED BY <2>1
<1>2. ASSUME NEW m \in Nat, m \in S PROVE m + 1 \in S
  <2>1. PICK f : Rec(m, f)
    BY <1>2
  <2> DEFINE g == [b \in 0..(m + 1) |-> IF b = 0 THEN <<>> ELSE Builder!PushSpan(f[b - 1], T(b))]
  <2>2. ASSUME NEW b \in 0..m PROVE g[b] = f[b]
    <3>1. f[b] = IF b = 0 THEN <<>> ELSE Builder!PushSpan(f[b - 1], T(b))
      BY <2>1, Zenon
    <3>2. b \in 0..(m + 1)
      OBVIOUS
    <3> HIDE DEF T
    <3> QED BY <3>1, <3>2, Zenon
  <2>3. \A b \in 0..(m + 1) : b # 0 => g[b - 1] = f[b - 1]
    <3>1. \A b \in 0..(m + 1) : b # 0 => b - 1 \in 0..m
      OBVIOUS
    <3> HIDE DEF g
    <3> QED BY <2>2, <3>1
  <2>4. Rec(m + 1, g)
    <3>1. ASSUME NEW b \in 0..(m + 1)
          PROVE  (IF b = 0 THEN <<>> ELSE Builder!PushSpan(f[b - 1], T(b)))
                   = (IF b = 0 THEN <<>> ELSE Builder!PushSpan(g[b - 1], T(b)))
      <4> HIDE DEF g, T
      <4> QED BY <2>3
    <3> QED BY <3>1, Zenon
  <2> HIDE DEF g, Rec
  <2> QED BY <2>4
<1>3. \E f : Rec(n, f)
  <2>1. n \in S
    <3> HIDE DEF S
    <3> QED BY <1>1, <1>2, SetOfNaturals
  <2> QED BY <2>1
<1> DEFINE spans == CHOOSE f : Rec(n, f)
<1>4. Rec(n, spans)
  <2> HIDE DEF Rec
  <2> QED BY <1>3
<1>5. Builder!collect_terms(files)
        = Builder!Ascending(UNION {spans[n][i].terms : i \in DOMAIN spans[n]})
  BY Zenon DEF Builder!collect_terms, Builder!Range, Range
<1> HIDE DEF spans
<1>6. /\ spans[0] = <<>>
      /\ \A b \in 1..n : spans[b] = Builder!PushSpan(spans[b - 1], T(b))
  <2>1. spans[0] = IF 0 = 0 THEN <<>> ELSE Builder!PushSpan(spans[0 - 1], T(0))
    <3>1. 0 \in 0..n
      OBVIOUS
    <3> QED BY <1>4, <3>1, Zenon
  <2>2. ASSUME NEW b \in 1..n PROVE spans[b] = Builder!PushSpan(spans[b - 1], T(b))
    <3>1. b \in 0..n /\ b # 0
      OBVIOUS
    <3>2. spans[b] = IF b = 0 THEN <<>> ELSE Builder!PushSpan(spans[b - 1], T(b))
      BY <1>4, <3>1, Zenon
    <3> HIDE DEF T
    <3> QED BY <3>1, <3>2
  <2> HIDE DEF T
  <2> QED BY <2>1, <2>2
<1> DEFINE U(k) == UNION {T(c) : c \in 1..k}
           Good(b) == spans[b] \in Seq(Span) /\ SpanTerms(spans[b]) = U(b)
           G == {b \in Nat : b <= n => Good(b)}
<1>7. 0 \in G
  <2>1. <<>> \in Seq(Span) /\ SpanTerms(<<>>) = {}
    BY DEF SpanTerms
  <2>2. U(0) = {}
    OBVIOUS
  <2> HIDE DEF T
  <2> QED BY <1>6, <2>1, <2>2
<1>8. ASSUME NEW b \in Nat, b \in G PROVE b + 1 \in G
  <2> SUFFICES ASSUME b + 1 <= n PROVE Good(b + 1)
    OBVIOUS
  <2>1. Good(b) /\ b + 1 \in 1..n /\ (b + 1) - 1 = b
    <3> HIDE DEF Good
    <3> QED BY <1>8
  <2>2. T(b + 1) \in SUBSET Nat
    BY <2>1, RangeOfSeq DEF Range
  <2>3. spans[b + 1] = Builder!PushSpan(spans[b], T(b + 1))
    <3> HIDE DEF T
    <3> QED BY <1>6, <2>1
  <2>4. /\ spans[b + 1] \in Seq(Span)
        /\ SpanTerms(spans[b + 1]) = SpanTerms(spans[b]) \cup T(b + 1)
    <3> HIDE DEF T
    <3> QED BY <2>1, <2>2, <2>3, SpanPushed
  <2> HIDE DEF T
  <2>5. U(b + 1) = U(b) \cup T(b + 1)
    <3>1. 1..(b + 1) = 1..b \cup {b + 1}
      OBVIOUS
    <3>2. \A k, x : x \in U(k) <=> \E c \in 1..k : x \in T(c)
      OBVIOUS
    <3>3. \A x : x \in U(b + 1) <=> x \in U(b) \/ x \in T(b + 1)
      <4> HIDE DEF U
      <4> QED BY <3>1, <3>2
    <3> HIDE DEF U
    <3> QED BY <3>3
  <2> HIDE DEF U
  <2> QED BY <2>1, <2>4, <2>5
<1>9. Good(n)
  <2>1. n \in G
    <3> HIDE DEF G
    <3> QED BY <1>7, <1>8, SetOfNaturals
  <2> HIDE DEF Good
  <2> QED BY <2>1
<1>10. UNION {spans[n][i].terms : i \in DOMAIN spans[n]} = UNION {T(c) : c \in 1..n}
  <2>1. DOMAIN spans[n] = 1..Len(spans[n])
    BY <1>9, LenProperties
  <2> HIDE DEF T
  <2> QED BY <1>9, <2>1 DEF SpanTerms
<1> QED BY <1>5, <1>10, SameOrder

\* No sequence is lost when none but the last is empty.
LEMMA NothingLost ==
  ASSUME NEW S, NEW seqs \in Seq(Seq(S)), seqs # <<>>,
         \A b \in 1..(Len(seqs) - 1) : seqs[b] # <<>>
  PROVE  Builder!Concatenation(seqs) = FlattenSeq(seqs)
<1> DEFINE n == Len(seqs)
           failed == {i \in DOMAIN seqs : seqs[i] = <<>>}
<1>1. n \in Nat \ {0} /\ DOMAIN seqs = 1..n
  BY LenProperties, EmptySeq
<1>2. failed \cup {n} = {n}
  <2>1. ASSUME NEW i \in failed PROVE i = n
    <3>1. i \in 1..n /\ seqs[i] = <<>>
      BY <1>1, <2>1
    <3>2. ~(i \in 1..(n - 1))
      BY <3>1
    <3> QED BY <1>1, <3>1, <3>2
  <2> HIDE DEF failed
  <2> QED BY <2>1
<1>3. Builder!Min(failed \cup {n}) = n
  BY <1>1, <1>2 DEF Builder!Min
<1>4. SubSeq(seqs, 1, n) = seqs
  BY SubSeqFull
<1> QED BY <1>3, <1>4, SameFlatten DEF Builder!Concatenation

\* Sequences of the same lengths have their elements in the same places.
LEMMA SamePlaces ==
  ASSUME NEW a, NEW f, NEW s, Starts(a, f, s), NEW b, NEW g, NEW t, Starts(b, g, t),
         Len(a) \in Nat, Len(b) = Len(a),
         \A k \in 1..Len(a) : Len(a[k]) \in Nat /\ Len(b[k]) = Len(a[k])
  PROVE  s = t /\ Len(f) = Len(g)
<1> DEFINE n == Len(a)
           E == {k \in Nat : k <= n => s[k + 1] = t[k + 1]}
<1>1. 0 \in E
  BY DEF Starts
<1>2. ASSUME NEW k \in Nat, k \in E PROVE k + 1 \in E
  <2> SUFFICES ASSUME k + 1 <= n PROVE s[k + 2] = t[k + 2]
    OBVIOUS
  <2>1. k + 1 \in 1..n /\ (k + 1) + 1 = k + 2 /\ s[k + 1] = t[k + 1]
    BY <1>2
  <2> QED BY <2>1 DEF Starts
<1>3. \A k \in Nat : k \in E
  <2> HIDE DEF E
  <2> QED BY <1>1, <1>2, SetOfNaturals
<1>4. \A k \in 1..(n + 1) : s[k] = t[k]
  <2> SUFFICES ASSUME NEW k \in 1..(n + 1) PROVE s[k] = t[k]
    OBVIOUS
  <2>1. k - 1 \in Nat /\ k - 1 <= n /\ (k - 1) + 1 = k
    OBVIOUS
  <2> QED BY <1>3, <2>1
<1>5. s \in [1..(n + 1) -> Nat] /\ t \in [1..(n + 1) -> Nat]
  BY DEF Starts
<1>6. s = t
  BY <1>4, <1>5
<1>7. Len(f) = s[n + 1] /\ Len(g) = t[n + 1]
  BY DEF Starts
<1> QED BY <1>6, <1>7

\* What occurs in sequences of numbers is finite.
LEMMA RangesFinite ==
  ASSUME NEW seqs \in Seq(Seq(Nat))
  PROVE  /\ IsFiniteSet(UNION {Range(seqs[d]) : d \in 1..Len(seqs)})
         /\ UNION {Range(seqs[d]) : d \in 1..Len(seqs)} \in SUBSET Nat
<1> DEFINE n == Len(seqs)
           row == [d \in 1..n |-> Range(seqs[d])]
           R == {Range(seqs[d]) : d \in 1..n}
<1>1. /\ n \in Nat
      /\ \A d \in 1..n : seqs[d] \in Seq(Nat) /\ Len(seqs[d]) \in Nat
                         /\ DOMAIN seqs[d] = 1..Len(seqs[d])
  BY LenProperties, ElementOfSeq
<1>2. IsFiniteSet(R)
  <2>1. row \in Surjection(1..n, R)
    <3>1. row \in [1..n -> R] /\ \A T \in R : \E d \in 1..n : row[d] = T
      OBVIOUS
    <3> HIDE DEF row, R
    <3> QED BY <3>1 DEF Surjection
  <2>2. IsFiniteSet(1..n)
    BY <1>1, FS_Interval
  <2> HIDE DEF row, R
  <2> QED BY <2>1, <2>2, FS_Surjection
<1>3. ASSUME NEW T \in R PROVE IsFiniteSet(T) /\ T \in SUBSET Nat
  <2>1. PICK d \in 1..n : T = Range(seqs[d])
    BY <1>3
  <2>2. IsFiniteSet(1..Len(seqs[d])) /\ seqs[d] \in Surjection(1..Len(seqs[d]), T)
    <3>1. seqs[d] \in [1..Len(seqs[d]) -> T] /\ \A x \in T : \E j \in 1..Len(seqs[d]) : seqs[d][j] = x
      <4> HIDE DEF R, n
      <4> QED BY <1>1, <2>1 DEF Range
    <3>2. IsFiniteSet(1..Len(seqs[d]))
      <4>1. Len(seqs[d]) \in Nat
        BY <1>1
      <4> QED BY <4>1, FS_Interval
    <3> HIDE DEF R, n
    <3> QED BY <3>1, <3>2 DEF Surjection
  <2>3. IsFiniteSet(T)
    <3> HIDE DEF R, n
    <3> QED BY <2>2, FS_Surjection
  <2>4. T \in SUBSET Nat
    <3> HIDE DEF R, n
    <3> QED BY <1>1, <2>1, RangeOfSeq DEF Range
  <2> QED BY <2>3, <2>4
<1>4. IsFiniteSet(UNION R) /\ UNION R \in SUBSET Nat
  <2> HIDE DEF R
  <2> QED BY <1>2, <1>3, FS_UNION
<1> QED BY <1>4

\* What is read of a collection.
InputOf(records) == [i \in DOMAIN records |-> [title |-> i, content |-> records[i]]]

\* files are the forward index of the records.
IndexOf(records, files) ==
  /\ files.titles = [d \in 1..Len(records) |-> d]
  /\ files.terms \in Seq(Nat)
  /\ \A i, j \in 1..Len(files.terms) : i < j => files.terms[i] < files.terms[j]
  /\ Range(files.terms) = UNION {Range(records[d]) : d \in 1..Len(records)}
  /\ files.docs \in Seq(Seq(Nat)) /\ Len(files.docs) = Len(records)
  /\ \A d \in 1..Len(records) :
       /\ Len(files.docs[d]) = Len(records[d])
       /\ \A j \in 1..Len(records[d]) :
            /\ files.docs[d][j] < Len(files.terms)
            /\ files.terms[files.docs[d][j] + 1] = records[d][j]

\* The merge of batches of which none but the last is empty.
LEMMA MergedFacts ==
  ASSUME NEW records \in Seq(Seq(Nat)), NEW parts \in Seq(Seq(Record)), parts # <<>>,
         \A b \in 1..(Len(parts) - 1) : parts[b] # <<>>,
         NEW starts, Starts(parts, InputOf(records), starts),
         NEW files, DOMAIN files = DOMAIN parts, Len(files) = Len(parts),
         \A b \in DOMAIN parts : FilesOf(parts[b], files[b])
  PROVE  IndexOf(records, Builder!Merged(files))
<1> DEFINE n == Len(parts)
           N == Len(records)
           input == InputOf(records)
           L == UNION {Range(files[b].terms) : b \in 1..n}
           lexicon == Ascending(L)
           tparts == [b \in DOMAIN files |-> files[b].titles]
           dparts == [b \in DOMAIN files |-> Builder!Remapped(files[b], lexicon)]
<1>1. /\ n \in Nat \ {0} /\ DOMAIN parts = 1..n
      /\ \A b \in 1..n : parts[b] \in Seq(Record) /\ Len(parts[b]) \in Nat
      /\ \A b \in 1..n : \A i \in 1..Len(parts[b]) : parts[b][i] \in Record
  BY LenProperties, EmptySeq, ElementOfSeq
<1>2. /\ N \in Nat /\ DOMAIN records = 1..N
      /\ \A d \in 1..N : records[d] \in Seq(Nat) /\ Len(records[d]) \in Nat
                         /\ DOMAIN records[d] = 1..Len(records[d])
  BY LenProperties, ElementOfSeq
<1>3. /\ Len(input) = N
      /\ \A d \in 1..N : input[d].title = d /\ input[d].content = records[d]
  <2>1. input = [d \in 1..N |-> [title |-> d, content |-> records[d]]]
    BY <1>2 DEF InputOf
  <2> HIDE DEF input
  <2> QED BY <1>2, <2>1
<1>4. DOMAIN files = 1..n /\ Len(files) = n /\ \A b \in 1..n : FilesOf(parts[b], files[b])
  BY <1>1
<1> HIDE DEF n, N, input
<1>5. /\ \A d \in 1..N : \E b \in 1..n : \E i \in 1..Len(parts[b]) : d = starts[b] + i
      /\ \A b \in 1..n : \A i \in 1..Len(parts[b]) :
           starts[b] + i \in 1..N /\ input[starts[b] + i] = parts[b][i]
  <2>1. Starts(parts, input, starts)
    BY DEF input
  <2>2. starts \in [1..(n + 1) -> Nat]
    BY <2>1 DEF Starts, n
  <2>3. ASSUME NEW b \in 1..n, NEW i \in 1..Len(parts[b])
        PROVE  starts[b] + i \in 1..N /\ input[starts[b] + i] = parts[b][i]
    <3>1. /\ starts[b + 1] = starts[b] + Len(parts[b]) /\ starts[b + 1] <= N
          /\ input[starts[b] + i] = parts[b][i]
      BY <1>3, <2>1 DEF Starts, n
    <3>2. starts[b] \in Nat
      <4>1. b \in 1..(n + 1)
        BY <1>1
      <4> QED BY <2>2, <4>1
    <3>3. Len(parts[b]) \in Nat /\ N \in Nat
      BY <1>1, <1>2 DEF N, n
    <3> QED BY <2>3, <3>1, <3>2, <3>3, SMTT(20)
  <2>4. \A d \in 1..N : \E b \in 1..n : \E i \in 1..Len(parts[b]) : d = starts[b] + i
    BY <1>3, <2>1 DEF Starts, n
  <2> QED BY <2>3, <2>4
\* The content of a record is that of its place in a batch.
<1>6. \A b \in 1..n : \A i \in 1..Len(parts[b]) :
        /\ parts[b][i].title = starts[b] + i
        /\ parts[b][i].content = records[starts[b] + i]
  BY <1>3, <1>5
<1>7. L \in SUBSET Nat /\ IsFiniteSet(L) /\ L = UNION {Range(records[d]) : d \in 1..N}
  <2>1. \A b \in 1..n : files[b].terms \in Seq(Nat)
    BY <1>4 DEF FilesOf
  <2>2. ASSUME NEW b \in 1..n PROVE Range(files[b].terms) \in SUBSET Nat
    <3>1. files[b].terms \in Seq(Nat)
      BY <2>1, <2>2
    <3> QED BY <3>1, RangeOfSeq
  <2>3. \A x : x \in L <=> \E b \in 1..n : \E i \in 1..Len(parts[b]) : x \in Range(parts[b][i].content)
    <3>1. \A x : x \in L <=> \E b \in 1..n : x \in Range(files[b].terms)
      OBVIOUS
    <3>2. \A b \in 1..n : Range(files[b].terms)
                            = UNION {Range(parts[b][i].content) : i \in 1..Len(parts[b])}
      BY <1>4 DEF FilesOf
    <3>3. \A b \in 1..n : \A x : x \in Range(files[b].terms)
                                   <=> \E i \in 1..Len(parts[b]) : x \in Range(parts[b][i].content)
      <4> SUFFICES ASSUME NEW b \in 1..n, NEW x
                   PROVE  x \in Range(files[b].terms)
                            <=> \E i \in 1..Len(parts[b]) : x \in Range(parts[b][i].content)
        OBVIOUS
      <4>1. Range(files[b].terms) = UNION {Range(parts[b][i].content) : i \in 1..Len(parts[b])}
        BY <3>2
      <4> QED BY <4>1, Zenon
    <3> HIDE DEF L
    <3> QED BY <3>1, <3>3
  <2>4. \A x : x \in L <=> \E d \in 1..N : x \in Range(records[d])
    <3> HIDE DEF L
    <3>1. ASSUME NEW x, NEW b \in 1..n, NEW i \in 1..Len(parts[b]), x \in Range(parts[b][i].content)
          PROVE  \E d \in 1..N : x \in Range(records[d])
      <4>1. starts[b] + i \in 1..N /\ parts[b][i].content = records[starts[b] + i]
        BY <1>5, <1>6, <3>1
      <4>2. x \in Range(records[starts[b] + i])
        BY <3>1, <4>1
      <4> QED BY <4>1, <4>2
    <3>2. ASSUME NEW x, NEW d \in 1..N, x \in Range(records[d])
          PROVE  \E b \in 1..n : \E i \in 1..Len(parts[b]) : x \in Range(parts[b][i].content)
      <4>1. PICK b \in 1..n : \E i \in 1..Len(parts[b]) : d = starts[b] + i
        BY <1>5
      <4>2. PICK i \in 1..Len(parts[b]) : d = starts[b] + i
        BY <4>1
      <4>3. x \in Range(parts[b][i].content)
        BY <1>6, <3>2, <4>2
      <4> QED BY <4>3
    <3> QED BY <2>3, <3>1, <3>2
  <2>5. L \in SUBSET Nat
    <3>1. \A x \in L : \E b \in 1..n : x \in Range(files[b].terms)
      OBVIOUS
    <3> HIDE DEF L
    <3> QED BY <2>2, <3>1
  <2> DEFINE M == UNION {Range(records[d]) : d \in 1..N}
  <2>6. \A x : x \in M <=> \E d \in 1..N : x \in Range(records[d])
    OBVIOUS
  <2>7. L = M
    <3> HIDE DEF L, M
    <3> QED BY <2>4, <2>6
  <2> HIDE DEF L
  <2>8. IsFiniteSet(M)
    <3> HIDE DEF M
    <3> QED BY RangesFinite DEF M, N
  <2> QED BY <2>5, <2>7, <2>8
<1>8. /\ lexicon \in Seq(Nat) /\ Range(lexicon) = L
      /\ \A i, j \in 1..Len(lexicon) : i < j => lexicon[i] < lexicon[j]
  <2> HIDE DEF L
  <2>1. /\ Cardinality(L) \in Nat /\ lexicon \in Seq(L) /\ Len(lexicon) = Cardinality(L)
        /\ \A i, j \in 1..Cardinality(L) : i < j => lexicon[i] < lexicon[j]
        /\ \A x \in L : \E i \in 1..Cardinality(L) : lexicon[i] = x
    BY <1>7, AscendingFacts
  <2> HIDE DEF lexicon
  <2>2. lexicon \in Seq(Nat)
    BY <1>7, <2>1, SeqMonotonic
  <2>3. DOMAIN lexicon = 1..Len(lexicon) /\ \A i \in 1..Len(lexicon) : lexicon[i] \in L
    BY <2>1, LenProperties, ElementOfSeq
  <2>4. Range(lexicon) = L
    BY <2>1, <2>3 DEF Range
  <2> QED BY <2>1, <2>2, <2>4
<1>9. ASSUME NEW b \in 1..n
      PROVE  /\ tparts[b] \in Seq(Nat) /\ Len(tparts[b]) = Len(parts[b])
             /\ \A i \in 1..Len(parts[b]) : tparts[b][i] = starts[b] + i
  <2>1. /\ tparts[b] = [i \in 1..Len(parts[b]) |-> parts[b][i].title]
        /\ Len(parts[b]) \in Nat
        /\ \A i \in 1..Len(parts[b]) : parts[b][i].title = starts[b] + i /\ starts[b] + i \in 1..N
    BY <1>1, <1>4, <1>5, <1>6 DEF FilesOf
  <2>2. /\ tparts[b] \in [1..Len(parts[b]) -> Nat]
        /\ \A i \in 1..Len(parts[b]) : tparts[b][i] = starts[b] + i
    <3> HIDE DEF tparts
    <3> QED BY <1>2, <2>1, SMTT(20) DEF N
  <2> HIDE DEF tparts
  <2> QED BY <2>1, <2>2
\* What merging makes of a sequence for each batch.
<1> DEFINE Fits(s) == Len(s) = n /\ \A b \in 1..n : Len(s[b]) = Len(parts[b])
           Placed(S, s) ==
             /\ Builder!Concatenation(s) \in Seq(S) /\ Len(Builder!Concatenation(s)) = N
             /\ \A b \in 1..n : \A i \in 1..Len(parts[b]) :
                  Builder!Concatenation(s)[starts[b] + i] = s[b][i]
<1>10. ASSUME NEW S, NEW s, s \in Seq(Seq(S)), Fits(s) PROVE Placed(S, s)
  <2>1. Builder!Concatenation(s) = FlattenSeq(s)
    <3>1. s # <<>>
      BY <1>1, <1>10
    <3>2. ASSUME NEW b \in 1..(Len(s) - 1) PROVE s[b] # <<>>
      <4>1. parts[b] # <<>> /\ b \in 1..n
        BY <1>1, <1>10 DEF n
      <4>2. Len(parts[b]) # 0
        BY <1>1, <4>1, EmptySeq
      <4> QED BY <1>10, <4>1, <4>2
    <3> QED BY <1>10, <3>1, <3>2, NothingLost
  <2>2. FlattenSeq(s) \in Seq(S) /\ \E places : Starts(s, FlattenSeq(s), places)
    BY <1>10, FlattenFacts
  <2>3. PICK places : Starts(s, FlattenSeq(s), places)
    BY <2>2
  <2>4. Starts(parts, input, starts)
    BY DEF input
  <2>5. places = starts /\ Len(FlattenSeq(s)) = N
    <3>1. /\ Len(parts) \in Nat /\ Len(s) = Len(parts) /\ Len(input) = N
          /\ \A b \in 1..Len(parts) : Len(parts[b]) \in Nat /\ Len(s[b]) = Len(parts[b])
      BY <1>1, <1>3, <1>10 DEF n
    <3>2. starts = places /\ Len(input) = Len(FlattenSeq(s))
      <4> DEFINE flat == FlattenSeq(s)
      <4>1. Starts(s, flat, places)
        BY <2>3
      <4> HIDE DEF flat
      <4>2. starts = places /\ Len(input) = Len(flat)
        BY <2>4, <3>1, <4>1, SamePlaces, SMTT(20)
      <4> QED BY <4>2 DEF flat
    <3> QED BY <3>1, <3>2
  <2>6. \A b \in 1..n : \A i \in 1..Len(parts[b]) : FlattenSeq(s)[starts[b] + i] = s[b][i]
    BY <1>10, <2>3, <2>5 DEF Starts
  <2> QED BY <2>1, <2>2, <2>5, <2>6
<1>11. Builder!Concatenation(tparts) = [d \in 1..N |-> d]
  <2>1. tparts \in Seq(Seq(Nat)) /\ Len(tparts) = n
    <3>1. tparts \in [1..n -> Seq(Nat)]
      BY <1>4, <1>9
    <3>2. n \in Nat
      BY <1>1
    <3> HIDE DEF tparts
    <3> QED BY <3>1, <3>2, FunctionIsSeq
  <2> DEFINE c == Builder!Concatenation(tparts)
  <2>2. /\ c \in Seq(Nat) /\ Len(c) = N
        /\ \A b \in 1..n : \A i \in 1..Len(parts[b]) : c[starts[b] + i] = starts[b] + i
    <3> HIDE DEF tparts
    <3>1. \A b \in 1..n : Len(tparts[b]) = Len(parts[b])
      BY <1>9
    <3>2. Fits(tparts)
      BY <2>1, <3>1
    <3>3. Placed(Nat, tparts)
      <4> HIDE DEF Fits, Placed
      <4> QED BY <1>10, <2>1, <3>2, Zenon
    <3> QED BY <1>9, <3>3
  <2>3. \A d \in 1..N : c[d] = d
    <3> SUFFICES ASSUME NEW d \in 1..N PROVE c[d] = d
      OBVIOUS
    <3>1. PICK b \in 1..n : \E i \in 1..Len(parts[b]) : d = starts[b] + i
      BY <1>5
    <3>2. PICK i \in 1..Len(parts[b]) : d = starts[b] + i
      BY <3>1
    <3> HIDE DEF c
    <3> QED BY <2>2, <3>2
  <2>4. DOMAIN c = 1..N /\ c \in [1..N -> Nat]
    <3> HIDE DEF c
    <3> QED BY <2>2, LenProperties
  <2> HIDE DEF c
  <2> QED BY <2>3, <2>4 DEF c
<1>12. ASSUME NEW b \in 1..n
       PROVE  /\ dparts[b] \in Seq(Seq(Nat)) /\ Len(dparts[b]) = Len(parts[b])
              /\ \A i \in 1..Len(parts[b]) :
                   /\ Len(dparts[b][i]) = Len(records[starts[b] + i])
                   /\ \A j \in 1..Len(records[starts[b] + i]) :
                        /\ dparts[b][i][j] < Len(lexicon)
                        /\ lexicon[dparts[b][i][j] + 1] = records[starts[b] + i][j]
  <2> DEFINE len(i) == Len(records[starts[b] + i])
             id(i, j) == Builder!IdIn(lexicon, files[b].terms[files[b].docs[i][j] + 1])
  <2>1. ASSUME NEW i \in 1..Len(parts[b])
        PROVE  /\ files[b].docs[i] \in Seq(Nat) /\ Len(files[b].docs[i]) = len(i)
               /\ DOMAIN files[b].docs[i] = 1..len(i) /\ len(i) \in Nat
               /\ \A j \in 1..len(i) :
                    files[b].terms[files[b].docs[i][j] + 1] = records[starts[b] + i][j]
    <3>1. starts[b] + i \in 1..N /\ parts[b][i].content = records[starts[b] + i]
      BY <1>5, <1>6
    <3>2. /\ files[b].docs[i] \in Seq(Nat) /\ Len(files[b].docs[i]) = len(i)
          /\ \A j \in 1..len(i) :
               files[b].terms[files[b].docs[i][j] + 1] = records[starts[b] + i][j]
      <4>1. FilesOf(parts[b], files[b])
        BY <1>4, <1>12
      <4>2. /\ files[b].docs[i] \in Seq(Nat)
            /\ Len(files[b].docs[i]) = Len(parts[b][i].content)
            /\ \A j \in 1..Len(parts[b][i].content) :
                 files[b].terms[files[b].docs[i][j] + 1] = parts[b][i].content[j]
        BY <2>1, <4>1 DEF FilesOf
      <4> QED BY <3>1, <4>2
    <3>3. len(i) \in Nat
      BY <1>2, <3>1 DEF N
    <3> HIDE DEF len
    <3> QED BY <3>2, <3>3, LenProperties
  <2>2. ASSUME NEW i \in 1..Len(parts[b]), NEW j \in 1..len(i)
        PROVE  /\ id(i, j) \in Nat /\ id(i, j) < Len(lexicon)
               /\ lexicon[id(i, j) + 1] = records[starts[b] + i][j]
    <3>1. records[starts[b] + i][j] \in Range(lexicon)
      <4>1. starts[b] + i \in 1..N
        BY <1>5
      <4>2. records[starts[b] + i][j] \in Range(records[starts[b] + i])
        BY <1>2, <4>1 DEF Range, N
      <4> HIDE DEF L, lexicon
      <4> QED BY <1>7, <1>8, <4>1, <4>2
    <3>2. id(i, j) = Builder!IdIn(lexicon, records[starts[b] + i][j])
      BY <2>1
    <3> HIDE DEF lexicon, id, len
    <3> QED BY <1>8, <3>1, <3>2, PlaceOf
  <2>3. dparts[b] = [i \in 1..Len(parts[b]) |-> [j \in 1..len(i) |-> id(i, j)]]
    <3>1. dparts[b] = [i \in DOMAIN files[b].docs |-> [j \in DOMAIN files[b].docs[i] |-> id(i, j)]]
      BY <1>4 DEF Builder!Remapped
    <3>2. DOMAIN files[b].docs = 1..Len(parts[b])
      BY <1>4 DEF FilesOf
    <3> HIDE DEF dparts, id, len
    <3> QED BY <2>1, <3>1, <3>2
  <2> HIDE DEF dparts, id, lexicon
  <2>4. ASSUME NEW i \in 1..Len(parts[b])
        PROVE  /\ dparts[b][i] \in Seq(Nat) /\ Len(dparts[b][i]) = len(i)
               /\ \A j \in 1..len(i) : dparts[b][i][j] = id(i, j)
    <3>1. dparts[b][i] = [j \in 1..len(i) |-> id(i, j)]
      BY <2>3
    <3>2. dparts[b][i] \in [1..len(i) -> Nat]
      <4> HIDE DEF len
      <4> QED BY <2>2, <3>1
    <3>3. len(i) \in Nat
      BY <2>1
    <3> HIDE DEF len
    <3>4. dparts[b][i] \in Seq(Nat) /\ Len(dparts[b][i]) = len(i)
      BY <3>2, <3>3, FunctionIsSeq
    <3>5. \A j \in 1..len(i) : dparts[b][i][j] = id(i, j)
      BY <3>1
    <3> QED BY <3>4, <3>5
  <2>5. dparts[b] \in [1..Len(parts[b]) -> Seq(Nat)]
    <3> HIDE DEF len
    <3> QED BY <2>3, <2>4
  <2>6. dparts[b] \in Seq(Seq(Nat)) /\ Len(dparts[b]) = Len(parts[b])
    <3>1. Len(parts[b]) \in Nat
      BY <1>1, <1>12
    <3> QED BY <2>5, <3>1, FunctionIsSeq
  <2> QED BY <2>2, <2>4, <2>6
<1> DEFINE docs == Builder!Concatenation(dparts)
<1>13. /\ docs \in Seq(Seq(Nat)) /\ Len(docs) = N
       /\ \A b \in 1..n : \A i \in 1..Len(parts[b]) : docs[starts[b] + i] = dparts[b][i]
  <2>1. dparts \in Seq(Seq(Seq(Nat))) /\ Len(dparts) = n
    <3>1. dparts \in [1..n -> Seq(Seq(Nat))]
      <4>1. \A b \in 1..n : dparts[b] \in Seq(Seq(Nat))
        BY <1>12
      <4> HIDE DEF lexicon
      <4> QED BY <1>4, <4>1
    <3> HIDE DEF dparts
    <3>2. n \in Nat
      BY <1>1
    <3> QED BY <3>1, <3>2, FunctionIsSeq
  <2> HIDE DEF dparts, lexicon
  <2>2. \A b \in 1..n : Len(dparts[b]) = Len(parts[b])
    BY <1>12
  <2>3. Fits(dparts)
    BY <2>1, <2>2
  <2>4. Placed(Seq(Nat), dparts)
    <3> HIDE DEF Fits, Placed
    <3> QED BY <1>10, <2>1, <2>3, Zenon
  <2> QED BY <2>4
<1>14. \A d \in 1..N :
         /\ Len(docs[d]) = Len(records[d])
         /\ \A j \in 1..Len(records[d]) : /\ docs[d][j] < Len(lexicon)
                                          /\ lexicon[docs[d][j] + 1] = records[d][j]
  <2> HIDE DEF dparts, lexicon, docs
  <2> SUFFICES ASSUME NEW d \in 1..N
               PROVE  /\ Len(docs[d]) = Len(records[d])
                      /\ \A j \in 1..Len(records[d]) : /\ docs[d][j] < Len(lexicon)
                                                       /\ lexicon[docs[d][j] + 1] = records[d][j]
    OBVIOUS
  <2>1. PICK b \in 1..n : \E i \in 1..Len(parts[b]) : d = starts[b] + i
    BY <1>5
  <2>2. PICK i \in 1..Len(parts[b]) : d = starts[b] + i
    BY <2>1
  <2>3. docs[d] = dparts[b][i]
    BY <1>13, <2>2
  <2> QED BY <1>12, <2>2, <2>3
<1>15. Builder!collect_terms(files) = lexicon
  <2>1. \A b \in 1..n : files[b].terms \in Seq(Nat)
    BY <1>4 DEF FilesOf
  <2>2. Len(files) \in Nat
    BY <1>1, <1>4
  <2>3. \A b \in 1..Len(files) : files[b].terms \in Seq(Nat)
    BY <1>4, <2>1
  <2>4. L = UNION {Range(files[b].terms) : b \in 1..Len(files)}
    BY <1>4
  <2> HIDE DEF L
  <2> QED BY <2>2, <2>3, <2>4, TermsCollected
<1>16. Builder!Merged(files) = [titles |-> [d \in 1..N |-> d], terms |-> lexicon, docs |-> docs]
  <2>1. Builder!Merged(files) =
          [titles |-> Builder!Concatenation(tparts), terms |-> lexicon, docs |-> docs]
    BY <1>15 DEF Builder!Merged
  <2> HIDE DEF tparts, docs, lexicon
  <2> QED BY <1>11, <2>1
<1> DEFINE merged == Builder!Merged(files)
<1>17. merged.titles = [d \in 1..N |-> d] /\ merged.terms = lexicon /\ merged.docs = docs
  <2> HIDE DEF docs, lexicon
  <2> QED BY <1>16
<1> HIDE DEF docs, lexicon, L
<1>18. Range(merged.terms) = UNION {Range(records[d]) : d \in 1..N}
  <2> HIDE DEF merged
  <2> QED BY <1>7, <1>8, <1>17
<1> HIDE DEF merged
<1>19. IndexOf(records, merged)
  BY <1>8, <1>13, <1>14, <1>17, <1>18 DEF IndexOf, N
<1> QED BY <1>19 DEF merged

-----------------------------------------------------------------------------
(* The forward index of all records.                                        *)

\* The records of the batches that have a task.
Parts == [b \in DOMAIN task |-> task[b].records]

\* No record is lost, or moved, on its way from the input through the batch that is
\* read to the tasks; only the last batch may be empty; and what is merged is the
\* forward index of the collection.
RecordsInv ==
  /\ InputOf(call.records) = (FlattenSeq(Parts) \o record_batch) \o is
  /\ build_pc = "idle" => task = <<>> /\ record_batch = <<>>
  /\ build_pc \in {"last", "wait", "done", "failed"} => is = <<>>
  /\ build_pc \in {"wait", "done", "failed"} => record_batch = <<>> /\ task # <<>>
  /\ build_pc = "push" => record_batch # <<>>
  /\ \A b \in DOMAIN task :
       task[b].records = <<>> => b = Len(task) /\ build_pc \in {"wait", "done", "failed"}
  /\ build_pc = "done" => IndexOf(call.records, forward)

\* Flattening grows with what is appended.
LEMMA FlattenAppend ==
  ASSUME NEW S, NEW seqs \in Seq(Seq(S)), NEW x \in Seq(S)
  PROVE  FlattenSeq(Append(seqs, x)) = FlattenSeq(seqs) \o x
<1> DEFINE n == Len(seqs)
           t == Append(seqs, x)
<1>1. n \in Nat /\ Len(t) = n + 1 /\ t[n + 1] = x /\ \A i \in 1..n : t[i] = seqs[i]
  BY LenProperties, AppendProperties
<1> HIDE DEF n, t
<1>2. PICK g : /\ g = [i \in 1..(n + 1) |-> IF i = 1 THEN t[i] ELSE g[i - 1] \o t[i]]
               /\ FlattenSeq(t) = g[n + 1]
  <2>1. Len(t) \in Nat \ {0}
    BY <1>1
  <2> QED BY <1>1, <2>1, FlattenUnfolds
<1>3. CASE n = 0
  <2>1. g[n + 1] = x
    BY <1>1, <1>2, <1>3
  <2>2. seqs = <<>>
    BY <1>3, EmptySeq DEF n
  <2>3. FlattenSeq(seqs) = <<>>
    BY <2>2 DEF FlattenSeq
  <2>4. <<>> \o x = x
    BY ConcatEmptySeq
  <2> QED BY <1>2, <2>1, <2>3, <2>4 DEF t
<1>4. CASE n # 0
  <2>1. PICK f : /\ f = [i \in 1..n |-> IF i = 1 THEN seqs[i] ELSE f[i - 1] \o seqs[i]]
                 /\ FlattenSeq(seqs) = f[n]
    <3>1. Len(seqs) \in Nat \ {0}
      BY <1>1, <1>4 DEF n
    <3> QED BY <3>1, FlattenUnfolds DEF n
  <2>2. f[1] = seqs[1] /\ \A i \in 1..(n - 1) : f[i + 1] = f[i] \o seqs[i + 1]
    <3>1. f[1] = seqs[1]
      BY <1>1, <1>4, <2>1
    <3>2. ASSUME NEW i \in 1..(n - 1) PROVE f[i + 1] = f[i] \o seqs[i + 1]
      <4>1. i + 1 \in 1..n /\ i + 1 # 1 /\ (i + 1) - 1 = i
        BY <1>1, <3>2
      <4> QED BY <2>1, <4>1
    <3> QED BY <3>1, <3>2
  <2>3. g[1] = t[1] /\ \A i \in 1..n : g[i + 1] = g[i] \o t[i + 1]
    <3>1. g[1] = t[1]
      BY <1>1, <1>2
    <3>2. ASSUME NEW i \in 1..n PROVE g[i + 1] = g[i] \o t[i + 1]
      <4>1. i + 1 \in 1..(n + 1) /\ i + 1 # 1 /\ (i + 1) - 1 = i
        BY <1>1, <3>2
      <4> QED BY <1>2, <4>1
    <3> QED BY <3>1, <3>2
  <2> DEFINE E == {k \in Nat : k + 1 <= n => g[k + 1] = f[k + 1]}
  <2>4. 0 \in E
    BY <1>1, <1>4, <2>2, <2>3
  <2>5. ASSUME NEW k \in Nat, k \in E PROVE k + 1 \in E
    <3> SUFFICES ASSUME (k + 1) + 1 <= n PROVE g[(k + 1) + 1] = f[(k + 1) + 1]
      OBVIOUS
    <3>1. k + 1 \in 1..(n - 1) /\ k + 1 \in 1..n /\ (k + 1) + 1 \in 1..n
      BY <1>1
    <3>2. g[k + 1] = f[k + 1]
      BY <2>5, <3>1
    <3> QED BY <1>1, <2>2, <2>3, <3>1, <3>2
  <2>6. n - 1 \in E
    <3>1. n - 1 \in Nat
      BY <1>1, <1>4
    <3> HIDE DEF E
    <3> QED BY <2>4, <2>5, <3>1, SetOfNaturals
  <2>7. g[n] = f[n]
    BY <1>1, <1>4, <2>6
  <2>8. g[n + 1] = f[n] \o x
    <3>1. n \in 1..n /\ t[n + 1] = x
      BY <1>1, <1>4
    <3>2. g[n + 1] = g[n] \o t[n + 1]
      BY <2>3, <3>1
    <3> QED BY <2>7, <3>1, <3>2
  <2> QED BY <1>2, <2>1, <2>8 DEF t
<1> QED BY <1>3, <1>4

\* Concatenation, as an operator whose definition the provers need not see.
Joined(s, t) == s \o t

\* Concatenation is associative.
LEMMA JoinedFacts ==
  \A S : \A x, y, z \in Seq(S) :
    /\ Joined(x, y) \in Seq(S)
    /\ Joined(Joined(x, y), z) = Joined(x, Joined(y, z))
BY ConcatProperties, ConcatAssociative DEF Joined

\* A sequence is its first element and the others.
LEMMA FirstAndRest ==
  ASSUME NEW S, NEW c \in Seq(S), c # <<>>
  PROVE  /\ <<Head(c)>> \in Seq(S) /\ Head(c) \in S /\ Tail(c) \in Seq(S)
         /\ c = Joined(<<Head(c)>>, Tail(c))
<1> DEFINE h == <<Head(c)>>
           t == Tail(c)
           d == h \o t
<1>1. Head(c) \in S /\ t \in Seq(S) /\ h \in Seq(S)
  BY HeadTailProperties
<1>2. /\ Len(c) \in Nat \ {0} /\ Head(c) = c[1] /\ Len(t) = Len(c) - 1
      /\ \A i \in 1..Len(t) : t[i] = c[i + 1]
  BY HeadTailProperties, LenProperties, EmptySeq
<1>3. Len(h) = 1 /\ h[1] = Head(c)
  OBVIOUS
<1>4. /\ d \in Seq(S) /\ Len(d) = Len(h) + Len(t)
      /\ \A i \in 1..(Len(h) + Len(t)) : d[i] = IF i <= Len(h) THEN h[i] ELSE t[i - Len(h)]
  <2> HIDE DEF h, t
  <2> QED BY <1>1, ConcatProperties
<1>5. ASSUME NEW i \in 1..Len(c) PROVE d[i] = c[i]
  <2>1. CASE i = 1
    BY <1>2, <1>3, <1>4, <2>1
  <2>2. CASE i # 1
    <3>1. i - 1 \in 1..Len(t) /\ (i - 1) + 1 = i /\ i \in 1..(Len(h) + Len(t)) /\ ~(i <= Len(h))
      BY <1>2, <1>3, <2>2
    <3>2. d[i] = t[i - 1]
      BY <1>3, <1>4, <3>1
    <3>3. t[i - 1] = c[(i - 1) + 1]
      BY <1>2, <3>1
    <3> HIDE DEF d, t
    <3> QED BY <3>1, <3>2, <3>3
  <2> QED BY <2>1, <2>2
<1>6. Len(d) = Len(c)
  BY <1>2, <1>3, <1>4
<1>7. d = c
  <2> HIDE DEF d
  <2> QED BY <1>4, <1>5, <1>6, SeqEqual
<1> QED BY <1>1, <1>7 DEF Joined

\* What is read moves from the input to the batch.
LEMMA ReadMoves ==
  ASSUME NEW S, NEW a \in Seq(S), NEW b \in Seq(S), NEW c \in Seq(S), c # <<>>
  PROVE  Joined(Joined(a, Append(b, Head(c))), Tail(c)) = Joined(Joined(a, b), c)
<1> DEFINE h == <<Head(c)>>
           t == Tail(c)
<1>1. h \in Seq(S) /\ t \in Seq(S) /\ c = Joined(h, t)
  BY FirstAndRest
<1>2. Append(b, Head(c)) = Joined(b, h)
  BY FirstAndRest, AppendIsConcat DEF Joined
<1> HIDE DEF h, t
<1>3. /\ Joined(b, h) \in Seq(S) /\ Joined(h, t) \in Seq(S)
      /\ Joined(Joined(b, h), t) = Joined(b, Joined(h, t))
  BY <1>1, JoinedFacts
<1>4. Joined(Joined(a, Joined(b, h)), t) = Joined(a, Joined(Joined(b, h), t))
  BY <1>1, <1>3, JoinedFacts
<1>5. Joined(a, Joined(b, Joined(h, t))) = Joined(Joined(a, b), Joined(h, t))
  BY <1>1, <1>3, JoinedFacts
<1> QED BY <1>1, <1>2, <1>3, <1>4, <1>5 DEF t

\* The parts are sequences of records.
LEMMA PartsType ==
  ASSUME BuilderTypeOK
  PROVE  /\ Parts \in Seq(Seq(Record)) /\ Len(Parts) = Len(task)
         /\ DOMAIN Parts = DOMAIN task
         /\ \A b \in DOMAIN task : Parts[b] = task[b].records
         /\ FlattenSeq(Parts) \in Seq(Record)
<1>1. /\ DOMAIN task = 1..Len(task) /\ Len(task) \in Nat
      /\ \A b \in DOMAIN task : task[b].records \in Seq(Record)
  BY BuilderTypes DEF Batch
<1>2. Parts \in [1..Len(task) -> Seq(Record)]
  BY <1>1 DEF Parts
<1>3. Parts \in Seq(Seq(Record)) /\ Len(Parts) = Len(task)
  BY <1>1, <1>2, FunctionIsSeq
<1>4. FlattenSeq(Parts) \in Seq(Record)
  BY <1>3, FlattenFacts
<1> QED BY <1>3, <1>4 DEF Parts

\* Nothing is read in the beginning.
LEMMA RecordsInit == Builder!BuilderIdle => RecordsInv
<1> SUFFICES ASSUME Builder!BuilderIdle PROVE RecordsInv
  OBVIOUS
<1>1. /\ call.records = <<>> /\ build_pc = "idle" /\ is = <<>> /\ record_batch = <<>>
      /\ task = <<>>
  BY DEF Builder!BuilderIdle
<1>2. Parts = <<>> /\ InputOf(call.records) = <<>>
  BY <1>1 DEF Parts, InputOf
<1>3. FlattenSeq(<<>>) = <<>>
  BY DEF FlattenSeq
<1> QED BY <1>1, <1>2, <1>3 DEF RecordsInv

\* build() starts with all records in its input.
LEMMA InputOpened ==
  ASSUME BuilderTypeOK', RecordsInv, NEW c \in BuildCalls, Builder!Build(c)
  PROVE  RecordsInv'
<1>1. /\ call' = c /\ build_pc' = "read" /\ task' = <<>> /\ record_batch' = <<>>
      /\ is' = InputOf(call'.records)
  BY DEF Builder!Build, RecordsInv, InputOf
<1>2. is' \in Seq(Record)
  BY DEF BuilderTypeOK
<1>3. Parts' = <<>>
  BY <1>1 DEF Parts
<1>4. FlattenSeq(<<>>) = <<>>
  BY DEF FlattenSeq
<1>5. (<<>> \o <<>>) \o is' = is'
  BY <1>2, ConcatEmptySeq
<1>6. InputOf(call'.records) = (FlattenSeq(Parts') \o record_batch') \o is'
  BY <1>1, <1>3, <1>4, <1>5
<1> QED BY <1>1, <1>6 DEF RecordsInv

\* A record joins the batch that is read, or there is none left.
LEMMA InputRead ==
  ASSUME BuilderTypeOK, RecordsInv, Builder!ReadRecord \/ Builder!EndOfInput
  PROVE  RecordsInv'
<1>1. UNCHANGED <<call, task, forward>> /\ Parts' = Parts /\ build_pc = "read"
  BY DEF Builder!ReadRecord, Builder!EndOfInput, Parts
<1>2. /\ is \in Seq(Record) /\ record_batch \in Seq(Record) /\ FlattenSeq(Parts) \in Seq(Record)
      /\ call.batch_size \in Nat
  BY PartsType DEF BuilderTypeOK
<1>3. \A b \in DOMAIN task : task[b].records # <<>>
  BY <1>1 DEF RecordsInv
<1>4. CASE Builder!ReadRecord
  <2>1. /\ is # <<>> /\ record_batch' = Append(record_batch, Head(is)) /\ is' = Tail(is)
        /\ build_pc' \in {"read", "push"}
    BY <1>4 DEF Builder!ReadRecord
  <2>2. (FlattenSeq(Parts) \o record_batch') \o is' = (FlattenSeq(Parts) \o record_batch) \o is
    <3>1. \A x \in Seq(Record) :
            Joined(Joined(x, Append(record_batch, Head(is))), Tail(is))
              = Joined(Joined(x, record_batch), is)
      BY <1>2, <2>1, ReadMoves
    <3>2. \A x \in Seq(Record) : (x \o record_batch') \o is' = (x \o record_batch) \o is
      BY <2>1, <3>1 DEF Joined
    <3> QED BY <1>2, <3>2
  <2>3. record_batch' # <<>>
    BY <1>2, <2>1, HeadTailProperties, AppendProperties
  <2>4. InputOf(call'.records) = (FlattenSeq(Parts') \o record_batch') \o is'
    BY <1>1, <2>2 DEF RecordsInv
  <2> QED BY <1>1, <1>3, <2>1, <2>3, <2>4 DEF RecordsInv
<1>5. CASE Builder!EndOfInput
  <2>1. is = <<>> /\ build_pc' = "last" /\ UNCHANGED <<is, record_batch>>
    BY <1>5 DEF Builder!EndOfInput
  <2>2. InputOf(call'.records) = (FlattenSeq(Parts') \o record_batch') \o is'
    BY <1>1, <2>1 DEF RecordsInv
  <2> QED BY <1>1, <1>3, <2>1, <2>2 DEF RecordsInv
<1> QED BY <1>4, <1>5

\* A batch becomes the last part.
LEMMA PartRuns ==
  ASSUME BuilderTypeOK, BuilderTypeOK', RecordsInv, Builder!RunBatch
  PROVE  RecordsInv'
<1> DEFINE t == [records |-> record_batch, state |-> "ready"]
           n == Len(task)
<1>1. /\ task' = Append(task, t) /\ record_batch' = <<>> /\ UNCHANGED <<call, is, forward>>
      /\ build_pc \in {"push", "last"}
      /\ build_pc' = IF build_pc = "last" THEN "wait" ELSE "read"
  BY DEF Builder!RunBatch
<1>2. is \in Seq(Record) /\ record_batch \in Seq(Record) /\ task \in Seq(Batch)
  BY DEF BuilderTypeOK
<1>3. /\ t \in Batch /\ n \in Nat /\ DOMAIN task = 1..n
      /\ DOMAIN task' = 1..(n + 1) /\ Len(task') = n + 1
      /\ task'[n + 1] = t /\ \A i \in 1..n : task'[i] = task[i]
  <2>1. t \in Batch
    BY <1>2 DEF Batch
  <2> HIDE DEF t
  <2>2. task' \in Seq(Batch) /\ Len(task') = n + 1
        /\ task'[n + 1] = t /\ \A i \in 1..n : task'[i] = task[i]
    BY <1>1, <1>2, <2>1, AppendProperties
  <2> QED BY <1>2, <2>1, <2>2, LenProperties
<1>4. Parts' = Append(Parts, record_batch)
  <2>1. Parts \in Seq(Seq(Record)) /\ Len(Parts) = n /\ \A i \in 1..n : Parts[i] = task[i].records
    BY <1>3, PartsType
  <2> DEFINE p == Append(Parts, record_batch)
  <2>2. /\ p \in Seq(Seq(Record)) /\ Len(p) = n + 1 /\ p[n + 1] = record_batch
        /\ \A i \in 1..n : p[i] = Parts[i]
    BY <1>2, <2>1, AppendProperties
  <2> HIDE DEF p, n
  <2>3. DOMAIN p = 1..(n + 1) /\ \A i \in 1..(n + 1) : p[i] = task'[i].records
    <3>1. DOMAIN p = 1..(n + 1)
      BY <2>2, LenProperties
    <3>2. t.records = record_batch
      OBVIOUS
    <3> HIDE DEF t
    <3>3. p[n + 1] = task'[n + 1].records
      BY <1>3, <2>2, <3>2
    <3>4. \A i \in 1..n : p[i] = task'[i].records
      BY <1>3, <2>1, <2>2
    <3>5. n \in Nat
      BY <1>3
    <3>6. \A i \in 1..(n + 1) : i \in 1..n \/ i = n + 1
      BY <3>5
    <3> QED BY <3>1, <3>3, <3>4, <3>6
  <2>4. p = [i \in 1..(n + 1) |-> task'[i].records]
    BY <2>2, <2>3
  <2> QED BY <1>3, <2>4 DEF Parts, p
<1>5. FlattenSeq(Parts') = FlattenSeq(Parts) \o record_batch
  BY <1>2, <1>4, PartsType, FlattenAppend
<1>6. InputOf(call'.records) = (FlattenSeq(Parts') \o record_batch') \o is'
  <2>1. FlattenSeq(Parts') \in Seq(Record)
    BY <1>2, <1>5, PartsType, ConcatProperties
  <2>2. FlattenSeq(Parts') \o <<>> = FlattenSeq(Parts')
    BY <2>1, ConcatEmptySeq
  <2> QED BY <1>1, <1>5, <2>2 DEF RecordsInv
<1>7. task' # <<>>
  BY <1>3, EmptySeq
<1>8. build_pc' \in {"wait", "done", "failed"} => is' = <<>>
  BY <1>1 DEF RecordsInv
<1>9. ASSUME NEW b \in DOMAIN task', task'[b].records = <<>>
      PROVE  b = Len(task') /\ build_pc' \in {"wait", "done", "failed"}
  <2>1. CASE b \in 1..n
    <3>1. task[b].records = <<>> /\ b \in DOMAIN task
      BY <1>3, <1>9, <2>1
    <3> QED BY <1>1, <3>1 DEF RecordsInv
  <2>2. CASE b = n + 1
    <3>1. record_batch = <<>>
      BY <1>3, <1>9, <2>2
    <3>2. build_pc = "last"
      BY <1>1, <3>1 DEF RecordsInv
    <3> QED BY <1>1, <1>3, <2>2, <3>2
  <2> QED BY <1>3, <2>1, <2>2
<1> QED BY <1>1, <1>6, <1>7, <1>8, <1>9 DEF RecordsInv

\* A task keeps its records whatever it does.
LEMMA PartKept ==
  ASSUME BuilderTypeOK, RecordsInv, NEW b \in DOMAIN task, Builder!Task(b)
  PROVE  RecordsInv'
<1>1. PICK s \in {"written", "threw", "over"} : task' = [task EXCEPT ![b].state = s]
  BY DEF Builder!Task, Builder!ProcessBatch, Builder!ThrowBatch, Builder!PopQueue
<1>2. UNCHANGED <<call, build_pc, is, record_batch, forward>>
  BY DEF Builder!Task, Builder!ProcessBatch, Builder!ThrowBatch, Builder!PopQueue
<1>3. \A i \in DOMAIN task : task[i] \in Batch
  BY BuilderTypes
<1>4. /\ DOMAIN task' = DOMAIN task
      /\ \A i \in DOMAIN task : task'[i].records = task[i].records
  BY <1>1, <1>3 DEF Batch
<1>5. Len(task') = Len(task) /\ (task' = <<>> <=> task = <<>>)
  <2>1. task \in Seq(Batch)
    BY DEF BuilderTypeOK
  <2>2. task' \in Seq(Batch)
    <3> DEFINE t == [task[b] EXCEPT !.state = s]
    <3>1. b \in 1..Len(task) /\ task' = [task EXCEPT ![b] = t] /\ t \in Batch
      BY <1>1, <1>3, BuilderTypes DEF Batch
    <3> HIDE DEF t
    <3> QED BY <2>1, <3>1, ExceptSeq
  <2> QED BY <1>4, <2>1, <2>2, LenProperties, EmptySeq
<1>6. Parts' = Parts
  BY <1>4 DEF Parts
<1>7. InputOf(call'.records) = (FlattenSeq(Parts') \o record_batch') \o is'
  BY <1>2, <1>6 DEF RecordsInv
<1> QED BY <1>2, <1>4, <1>5, <1>7 DEF RecordsInv

\* When all tasks are over their files are merged into the index of the collection.
LEMMA PartsMerged ==
  ASSUME BuilderTypeOK, RecordsInv, Builder!Merge
  PROVE  RecordsInv'
<1>1. /\ build_pc = "wait" /\ UNCHANGED <<call, is, record_batch, queue, task>>
      /\ build_pc' \in {"failed", "done"} /\ Parts' = Parts
  BY DEF Builder!Merge, Parts
<1>2. is = <<>> /\ record_batch = <<>> /\ task # <<>>
  BY <1>1 DEF RecordsInv
<1>3. ASSUME build_pc' = "done" PROVE IndexOf(call.records, forward')
  <2>1. ~Builder!Cancelled /\ Builder!TasksOver /\ forward' = Builder!Merged(Builder!BatchFiles)
    BY <1>3 DEF Builder!Merge
  <2>2. \A b \in DOMAIN task : task[b].state = "over"
    <3>1. \A b \in DOMAIN task : task[b] \in Batch
      BY BuilderTypes
    <3>2. \A b \in DOMAIN task : task[b].state # "threw"
      BY <2>1 DEF Builder!Cancelled, Builder!InState
    <3> QED BY <2>1, <3>1, <3>2 DEF Builder!TasksOver, Batch
  <2> DEFINE files == Builder!BatchFiles
  <2>3. /\ DOMAIN files = DOMAIN task /\ Len(files) = Len(task)
        /\ \A b \in DOMAIN task : files[b] = Builder!Files(task[b].records)
    <3>1. DOMAIN task = 1..Len(task) /\ Len(task) \in Nat
      BY BuilderTypes
    <3>2. /\ DOMAIN files = DOMAIN task
          /\ \A b \in DOMAIN task : files[b] = Builder!Files(task[b].records)
      BY <2>2 DEF Builder!BatchFiles
    <3>3. files = [b \in 1..Len(task) |-> files[b]]
      BY <3>1 DEF Builder!BatchFiles
    <3> HIDE DEF files
    <3> QED BY <3>1, <3>2, <3>3
  <2> HIDE DEF files
  <2>4. ASSUME NEW b \in DOMAIN Parts PROVE FilesOf(Parts[b], files[b])
    <3>1. task[b].records \in Seq(Record) /\ Parts[b] = task[b].records /\ b \in DOMAIN task
      BY <2>4, PartsType, BuilderTypes DEF Batch
    <3> QED BY <2>3, <3>1, FilesFacts
  <2>5. InputOf(call.records) = FlattenSeq(Parts)
    <3>1. FlattenSeq(Parts) \in Seq(Record)
      BY PartsType
    <3>2. (FlattenSeq(Parts) \o <<>>) \o <<>> = FlattenSeq(Parts)
      BY <3>1, ConcatEmptySeq
    <3> QED BY <1>2, <3>2 DEF RecordsInv
  <2>6. PICK starts : Starts(Parts, InputOf(call.records), starts)
    BY <2>5, PartsType, FlattenFacts
  <2>7. /\ Parts \in Seq(Seq(Record)) /\ Parts # <<>>
        /\ \A b \in 1..(Len(Parts) - 1) : Parts[b] # <<>>
    <3>1. DOMAIN task = 1..Len(task) /\ Len(task) \in Nat
      BY BuilderTypes
    <3>2. Parts \in Seq(Seq(Record)) /\ Len(Parts) = Len(task)
      BY PartsType
    <3>3. Len(task) # 0
      BY <1>2, EmptySeq DEF BuilderTypeOK
    <3>4. ASSUME NEW b \in 1..(Len(Parts) - 1) PROVE Parts[b] # <<>>
      <4>1. b \in DOMAIN task /\ b # Len(task)
        <5>1. b \in 1..(Len(task) - 1)
          BY <3>2, <3>4
        <5>2. PICK n \in Nat : n = Len(task)
          BY <3>1
        <5>3. b \in 1..(n - 1) /\ DOMAIN task = 1..n
          BY <3>1, <5>1, <5>2
        <5>4. b \in 1..n /\ b # n
          BY <5>3
        <5> QED BY <5>2, <5>3, <5>4
      <4>2. task[b].records # <<>>
        BY <4>1 DEF RecordsInv
      <4> QED BY <4>1, <4>2, PartsType
    <3> QED BY <3>2, <3>3, <3>4, EmptySeq
  <2>8. call.records \in Seq(Seq(Nat))
    BY DEF BuilderTypeOK
  <2>9. DOMAIN files = DOMAIN Parts /\ Len(files) = Len(Parts)
    BY <2>3, PartsType
  <2>10. IndexOf(call.records, Builder!Merged(files))
    BY <2>4, <2>6, <2>7, <2>8, <2>9, MergedFacts
  <2> QED BY <2>1, <2>10 DEF files
<1>4. InputOf(call'.records) = (FlattenSeq(Parts') \o record_batch') \o is'
  BY <1>1 DEF RecordsInv
<1>5. \A b \in DOMAIN task : task[b].records = <<>> => b = Len(task)
  BY DEF RecordsInv
<1> QED BY <1>1, <1>2, <1>3, <1>4, <1>5 DEF RecordsInv

\* What does not touch the builder.
LEMMA RecordsUnchanged ==
  ASSUME RecordsInv, UNCHANGED builderVars
  PROVE  RecordsInv'
BY DEF RecordsInv, builderVars, Parts

\* Every step of the pipeline is one of the builder or leaves it as it is.
LEMMA RecordsNext ==
  BuilderInv /\ BuilderInv' /\ RecordsInv /\ [Next]_vars => RecordsInv'
<1> SUFFICES ASSUME BuilderInv, BuilderInv', RecordsInv, [Next]_vars PROVE RecordsInv'
  OBVIOUS
<1>1. BuilderTypeOK /\ BuilderTypeOK'
  BY DEF BuilderInv
<1>2. CASE UNCHANGED builderVars
  BY <1>2, RecordsUnchanged
<1>3. CASE \E c \in BuildCalls : Builder!Build(c)
  BY <1>1, <1>3, InputOpened
<1>4. CASE Builder!Producer
  BY <1>1, <1>4, InputRead, PartRuns, PartsMerged DEF Builder!Producer
<1>5. CASE \E b \in DOMAIN task : Builder!Task(b)
  BY <1>1, <1>5, PartKept
<1> QED
  BY <1>2, <1>3, <1>4, <1>5 DEF Next, vars, ParseCollection, PartitionForward, InvertForward,
    ReorderIndex, CompressIndex, Finished, Builder!BuilderStep

\* Every record is in one place, in the order of the input, until all are in the
\* forward index.
THEOREM RecordsCorrect == Spec => []RecordsInv
<1>1. Init => RecordsInv
  BY RecordsInit DEF Init
<1> QED BY <1>1, RecordsNext, BuilderCorrect, PTL DEF Spec

\* Whatever the threads and the size of the batches, a forward index that is built is
\* the collection: each document in the place it was read from, with its title and its
\* terms, over the sorted terms of the collection.
THEOREM ForwardIndexCorrect == Spec => []ForwardIsCollection
<1>1. BuilderInv /\ RecordsInv => ForwardIsCollection
  <2> SUFFICES ASSUME BuilderTypeOK, RecordsInv, build_pc = "done"
               PROVE  /\ forward.titles = [d \in DOMAIN call.records |-> d]
                      /\ [d \in DOMAIN forward.docs |->
                            [j \in DOMAIN forward.docs[d] |-> forward.terms[forward.docs[d][j] + 1]]]
                           = call.records
                      /\ \A i, j \in DOMAIN forward.terms :
                           i < j => forward.terms[i] < forward.terms[j]
                      /\ Builder!Range(forward.terms)
                           = UNION {Builder!Range(call.records[d]) : d \in DOMAIN call.records}
    BY DEF ForwardIsCollection, Builder!ForwardIsCollection, BuilderInv
  <2> DEFINE R == call.records
             N == Len(R)
  <2>1. IndexOf(R, forward)
    BY DEF RecordsInv
  <2>2. /\ R \in Seq(Seq(Nat)) /\ DOMAIN R = 1..N
        /\ \A d \in 1..N : R[d] \in Seq(Nat) /\ DOMAIN R[d] = 1..Len(R[d])
                           /\ R[d] = [j \in 1..Len(R[d]) |-> R[d][j]]
    <3>1. R \in Seq(Seq(Nat))
      BY DEF BuilderTypeOK
    <3> HIDE DEF R
    <3> QED BY <3>1, LenProperties, ElementOfSeq
  <2>3. /\ DOMAIN forward.terms = 1..Len(forward.terms) /\ DOMAIN forward.docs = 1..N
        /\ \A d \in 1..N : DOMAIN forward.docs[d] = 1..Len(R[d])
    <3> HIDE DEF R
    <3> QED BY <2>1, LenProperties, ElementOfSeq DEF IndexOf
  <2> HIDE DEF R, N
  <2>4. forward.titles = [d \in DOMAIN R |-> d]
    BY <2>1, <2>2 DEF IndexOf, N
  <2>5. [d \in DOMAIN forward.docs |->
           [j \in DOMAIN forward.docs[d] |-> forward.terms[forward.docs[d][j] + 1]]] = R
    <3> DEFINE row(d) == [j \in DOMAIN forward.docs[d] |-> forward.terms[forward.docs[d][j] + 1]]
    <3>1. ASSUME NEW d \in 1..N PROVE row(d) = R[d]
      <4>1. \A j \in 1..Len(R[d]) : forward.terms[forward.docs[d][j] + 1] = R[d][j]
        BY <2>1, <3>1 DEF IndexOf, N
      <4>2. row(d) = [j \in 1..Len(R[d]) |-> R[d][j]]
        BY <2>3, <3>1, <4>1
      <4> HIDE DEF row
      <4> QED BY <2>2, <3>1, <4>2
    <3>2. R = [d \in 1..N |-> R[d]]
      BY <2>2
    <3>3. [d \in DOMAIN forward.docs |-> row(d)] = [d \in 1..N |-> R[d]]
      <4> HIDE DEF row
      <4> QED BY <2>3, <3>1
    <3> QED BY <3>2, <3>3
  <2>6. \A i, j \in DOMAIN forward.terms : i < j => forward.terms[i] < forward.terms[j]
    BY <2>1, <2>3 DEF IndexOf
  <2>7. Builder!Range(forward.terms) = UNION {Builder!Range(R[d]) : d \in DOMAIN R}
    <3>1. Range(forward.terms) = UNION {Range(R[d]) : d \in 1..N}
      BY <2>1 DEF IndexOf, N
    <3>2. UNION {Builder!Range(R[d]) : d \in DOMAIN R} = UNION {Range(R[d]) : d \in 1..N}
      BY <2>2, SameRange
    <3> QED BY <3>1, <3>2, SameRange
  <2> QED BY <2>4, <2>5, <2>6, <2>7 DEF R
<1> QED BY <1>1, BuilderCorrect, RecordsCorrect, PTL

-----------------------------------------------------------------------------
(* The shards.                                                              *)

\* A forward index over a sorted lexicon.
GoodForward(fwd) ==
  /\ fwd.terms \in Seq(Nat)
  /\ \A i, j \in 1..Len(fwd.terms) : i < j => fwd.terms[i] < fwd.terms[j]
  /\ fwd.docs \in Seq(Seq(Nat))
  /\ \A d \in 1..Len(fwd.docs) : \A j \in 1..Len(fwd.docs[d]) :
       fwd.docs[d][j] < Len(fwd.terms)

\* The documents that are mapped to a shard, in order.
DocsOf(shard_of, s) == Ascending({d \in DOMAIN shard_of : shard_of[d] = s - 1})

\* A shard before it is given its own terms.
CutFrom(fwd, docs, shard) ==
  /\ shard.titles = [i \in DOMAIN docs |-> fwd.titles[docs[i]]]
  /\ shard.terms = fwd.terms
  /\ shard.docs = [i \in DOMAIN docs |-> fwd.docs[docs[i]]]

\* A shard of these documents.
ShardOf(fwd, docs, shard) ==
  /\ shard.titles = [i \in DOMAIN docs |-> fwd.titles[docs[i]]]
  /\ [d \in DOMAIN shard.docs |-> Shards!Contents(shard, d)]
       = [i \in DOMAIN docs |-> Shards!Contents(fwd, docs[i])]
  /\ \A i, j \in DOMAIN shard.terms : i < j => shard.terms[i] < shard.terms[j]
  /\ Range(shard.terms)
       = UNION {Range(Shards!Contents(shard, d)) : d \in DOMAIN shard.docs}

\* What is being cut stays the forward index that was built; every shard has its
\* documents, at first with the numbers of the whole lexicon.
ShardsInv ==
  /\ shard_pc \in {"idle", "rearrange", "process", "done"}
  /\ shard_pc # "idle" =>
       /\ GoodForward(part.fwd)
       /\ part.mapping \in [DOMAIN part.fwd.docs -> Nat]
  /\ shard_pc \in {"process", "done"} =>
       \A s \in DOMAIN shards :
         IF shards[s].finished THEN ShardOf(part.fwd, DocsOf(part.mapping, s), shards[s])
                               ELSE CutFrom(part.fwd, DocsOf(part.mapping, s), shards[s])
  /\ shard_pc = "done" => \A s \in DOMAIN shards : shards[s].finished

\* The tool numbers, orders and counts as CommonFacts does.
LEMMA SameInShards ==
  /\ \A S : Shards!InOrder(S) = Ascending(S) /\ Shards!Cardinality(S) = Cardinality(S)
  /\ \A f : Shards!Range(f) = Range(f)
  /\ \A S \in SUBSET Nat : S # {} => Shards!Min(S) \in S /\ \A n \in S : Shards!Min(S) <= n
<1>1. \A S : Shards!Cardinality(S) = Cardinality(S)
  BY DEF Shards!Cardinality, Cardinality, Shards!IsFiniteSet, IsFiniteSet
<1>2. \A S : Shards!InOrder(S) = Ascending(S)
  BY Zenon DEF Shards!InOrder, Ascending, Shards!Cardinality, Cardinality,
    Shards!IsFiniteSet, IsFiniteSet
<1>3. \A f : Shards!Range(f) = Range(f)
  BY DEF Shards!Range, Range
<1>4. ASSUME NEW S \in SUBSET Nat, S # {}
      PROVE  Shards!Min(S) \in S /\ \A n \in S : Shards!Min(S) <= n
  BY <1>4, LeastNatural DEF Shards!Min
<1> QED BY <1>1, <1>2, <1>3, <1>4

\* A term's number in the shard is its place among those that occur there.
LEMMA TermRemapped ==
  ASSUME NEW shard, NEW T \in SUBSET Nat, IsFiniteSet(T), T = Shards!has_term(shard),
         NEW x \in T
  PROVE  /\ Shards!remapped_term_id(shard, x) + 1 \in 1..Cardinality(T)
         /\ Ascending(T)[Shards!remapped_term_id(shard, x) + 1] = x
<1> DEFINE least == Shards!Min(T)
           upTo == {u \in T : u <= x}
           r == Shards!remapped_term_id(shard, x)
<1>1. least \in T /\ \A n \in T : least <= n
  BY SameInShards
<1>2. r = Cardinality({u \in T \ {least} : u <= x})
  BY SameInShards DEF Shards!remapped_term_id
<1> HIDE DEF least, r
<1>3. {u \in T \ {least} : u <= x} = upTo \ {least} /\ least \in upTo
  BY <1>1
<1>4. IsFiniteSet(upTo)
  BY FS_Subset
<1>5. r = Cardinality(upTo) - 1
  <2> HIDE DEF upTo
  <2> QED BY <1>2, <1>3, <1>4, FS_RemoveElement
<1>6. PICK i \in 1..Cardinality(T) : Ascending(T)[i] = x
  BY AscendingFacts
<1>7. Cardinality(upTo) = i
  <2>1. RankIn(T, Ascending(T)[i]) = i
    BY <1>6, AscendingFacts
  <2> QED BY <1>6, <2>1 DEF RankIn
<1>8. r + 1 = i
  <2>1. i \in Nat
    BY <1>6, AscendingFacts
  <2> HIDE DEF upTo
  <2> QED BY <1>5, <1>7, <2>1
<1> QED BY <1>6, <1>8 DEF r

\* A shard with its own terms.
LEMMA ShardProcessed ==
  ASSUME NEW fwd, GoodForward(fwd), NEW docs \in Seq(DOMAIN fwd.docs),
         NEW shard, CutFrom(fwd, docs, shard),
         NEW new, new.titles = shard.titles,
         NEW order, order = Ascending(Shards!has_term(shard)),
         new.terms = [i \in DOMAIN order |-> shard.terms[order[i] + 1]],
         new.docs = [d \in DOMAIN shard.docs |->
                       [j \in DOMAIN shard.docs[d] |->
                          Shards!remapped_term_id(shard, shard.docs[d][j])]]
  PROVE  ShardOf(fwd, docs, new)
<1> DEFINE n == Len(docs)
           m == Len(fwd.terms)
           T == Shards!has_term(shard)
           c == Cardinality(T)
           id(d, j) == Shards!remapped_term_id(shard, shard.docs[d][j])
<1>1. /\ n \in Nat /\ DOMAIN docs = 1..n
      /\ \A d \in 1..n : docs[d] \in DOMAIN fwd.docs
      /\ DOMAIN fwd.docs = 1..Len(fwd.docs)
  BY LenProperties, ElementOfSeq DEF GoodForward
<1>2. /\ shard.docs = [i \in 1..n |-> fwd.docs[docs[i]]]
      /\ shard.terms = fwd.terms
      /\ new.titles = [i \in DOMAIN docs |-> fwd.titles[docs[i]]]
  BY <1>1 DEF CutFrom
<1>3. DOMAIN shard.docs = 1..n
  BY <1>2
<1>4. ASSUME NEW d \in 1..n
      PROVE  /\ shard.docs[d] = fwd.docs[docs[d]]
             /\ shard.docs[d] \in Seq(Nat) /\ DOMAIN shard.docs[d] = 1..Len(shard.docs[d])
             /\ \A j \in DOMAIN shard.docs[d] : shard.docs[d][j] \in 0..(m - 1)
  <2>1. shard.docs[d] = fwd.docs[docs[d]] /\ docs[d] \in 1..Len(fwd.docs)
    BY <1>1, <1>2, <1>4
  <2>2. fwd.docs[docs[d]] \in Seq(Nat)
    BY <2>1, ElementOfSeq DEF GoodForward
  <2>3. /\ DOMAIN shard.docs[d] = 1..Len(shard.docs[d])
        /\ \A j \in 1..Len(shard.docs[d]) : shard.docs[d][j] \in Nat
    BY <2>1, <2>2, LenProperties, ElementOfSeq
  <2>4. \A j \in 1..Len(shard.docs[d]) : shard.docs[d][j] < m
    BY <2>1 DEF GoodForward
  <2>5. m \in Nat
    BY LenProperties DEF GoodForward
  <2>6. \A j \in 1..Len(shard.docs[d]) : shard.docs[d][j] \in 0..(m - 1)
    <3> HIDE DEF m
    <3> QED BY <2>3, <2>4, <2>5
  <2> QED BY <2>1, <2>2, <2>3, <2>6
<1> HIDE DEF n, m
<1>5. \A x : x \in T <=> \E d \in 1..n : \E j \in DOMAIN shard.docs[d] : x = shard.docs[d][j]
  <2>1. T = UNION {Range(shard.docs[d]) : d \in 1..n}
    BY <1>3, SameInShards DEF Shards!has_term
  <2>2. \A x : x \in T <=> \E d \in 1..n : x \in Range(shard.docs[d])
    BY <2>1
  <2> HIDE DEF T
  <2> QED BY <2>2 DEF Range
<1>6. T \in SUBSET (0..(m - 1)) /\ T \in SUBSET Nat /\ IsFiniteSet(T) /\ m \in Nat
  <2> HIDE DEF T
  <2>1. T \in SUBSET (0..(m - 1))
    BY <1>4, <1>5
  <2>2. m \in Nat
    BY LenProperties DEF GoodForward, m
  <2>3. IsFiniteSet(0..(m - 1))
    BY <2>2, FS_Interval
  <2>4. IsFiniteSet(T)
    BY <2>1, <2>3, FS_Subset
  <2>5. T \in SUBSET Nat
    BY <2>1
  <2> QED BY <2>1, <2>2, <2>4, <2>5
<1>7. /\ c \in Nat /\ DOMAIN order = 1..c
      /\ \A i \in 1..c : order[i] \in T
      /\ \A i, j \in 1..c : i < j => order[i] < order[j]
      /\ \A x \in T : \E i \in 1..c : order[i] = x
  <2>1. order = Ascending(T)
    OBVIOUS
  <2> HIDE DEF T
  <2> DEFINE asc == Ascending(T)
  <2>2. /\ Cardinality(T) \in Nat /\ asc \in Seq(T) /\ Len(asc) = Cardinality(T)
        /\ \A i \in 1..Cardinality(T) : asc[i] \in T
        /\ \A i, j \in 1..Cardinality(T) : i < j => asc[i] < asc[j]
        /\ \A x \in T : \E i \in 1..Cardinality(T) : asc[i] = x
    BY <1>6, AscendingFacts, Zenon
  <2>3. order = asc
    BY <2>1
  <2> HIDE DEF asc
  <2>4. /\ c \in Nat /\ order \in Seq(T) /\ Len(order) = c
        /\ \A i \in 1..c : order[i] \in T
        /\ \A i, j \in 1..c : i < j => order[i] < order[j]
        /\ \A x \in T : \E i \in 1..c : order[i] = x
    BY <2>2, <2>3, Zenon
  <2> QED BY <2>4, LenProperties
<1>8. ASSUME NEW d \in 1..n, NEW j \in DOMAIN shard.docs[d]
      PROVE  id(d, j) + 1 \in 1..c /\ order[id(d, j) + 1] = shard.docs[d][j]
  <2> DEFINE x == shard.docs[d][j]
  <2>1. x \in T
    <3> HIDE DEF T
    <3> QED BY <1>5, <1>8
  <2> HIDE DEF x, T
  <2>2. /\ Shards!remapped_term_id(shard, x) + 1 \in 1..c
        /\ Ascending(T)[Shards!remapped_term_id(shard, x) + 1] = x
    BY <1>6, <2>1, TermRemapped DEF T
  <2> QED BY <2>2 DEF x, T
<1>9. /\ DOMAIN new.terms = 1..c
      /\ \A i \in 1..c : new.terms[i] = fwd.terms[order[i] + 1]
  <2> HIDE DEF c, T
  <2> QED BY <1>2, <1>7
<1>10. \A i, j \in DOMAIN new.terms : i < j => new.terms[i] < new.terms[j]
  <2> SUFFICES ASSUME NEW i \in 1..c, NEW j \in 1..c, i < j
               PROVE  new.terms[i] < new.terms[j]
    BY <1>9
  <2>1. order[i] \in 0..(m - 1) /\ order[j] \in 0..(m - 1) /\ order[i] < order[j]
    <3> HIDE DEF c, T
    <3> QED BY <1>6, <1>7
  <2>2. order[i] + 1 \in 1..m /\ order[j] + 1 \in 1..m /\ order[i] + 1 < order[j] + 1
    BY <1>6, <2>1, SMTT(20)
  <2>3. fwd.terms[order[i] + 1] < fwd.terms[order[j] + 1]
    BY <2>2 DEF GoodForward, m
  <2> HIDE DEF c, T
  <2> QED BY <1>9, <2>3
<1>11. ASSUME NEW d \in 1..n
       PROVE  Shards!Contents(new, d) = Shards!Contents(fwd, docs[d])
  <2>1. /\ new.docs[d] = [j \in DOMAIN shard.docs[d] |-> id(d, j)]
        /\ DOMAIN new.docs = 1..n
    BY <1>3
  <2> HIDE DEF id, c, T
  <2>2. /\ DOMAIN new.docs[d] = DOMAIN shard.docs[d]
        /\ \A j \in DOMAIN shard.docs[d] : new.docs[d][j] = id(d, j)
    BY <2>1
  <2>3. \A j \in DOMAIN shard.docs[d] :
          new.terms[new.docs[d][j] + 1] = fwd.terms[shard.docs[d][j] + 1]
    <3> SUFFICES ASSUME NEW j \in DOMAIN shard.docs[d]
                 PROVE  new.terms[new.docs[d][j] + 1] = fwd.terms[shard.docs[d][j] + 1]
      OBVIOUS
    <3>1. id(d, j) + 1 \in 1..c /\ order[id(d, j) + 1] = shard.docs[d][j]
      BY <1>8
    <3>2. new.docs[d][j] = id(d, j)
      BY <2>2
    <3>3. new.terms[id(d, j) + 1] = fwd.terms[order[id(d, j) + 1] + 1]
      BY <1>9, <3>1
    <3> QED BY <3>1, <3>2, <3>3
  <2>4. Shards!Contents(new, d)
          = [j \in DOMAIN shard.docs[d] |-> fwd.terms[shard.docs[d][j] + 1]]
    BY <2>2, <2>3 DEF Shards!Contents
  <2> QED BY <1>4, <2>4 DEF Shards!Contents
<1>12. DOMAIN new.docs = 1..n
  BY <1>3
<1>13. [d \in DOMAIN new.docs |-> Shards!Contents(new, d)]
         = [i \in DOMAIN docs |-> Shards!Contents(fwd, docs[i])]
  BY <1>1, <1>11, <1>12 DEF n
<1>14. Range(new.terms) = UNION {Range(Shards!Contents(new, d)) : d \in DOMAIN new.docs}
  <2>1. \A x : x \in Range(new.terms) <=> \E t \in T : x = fwd.terms[t + 1]
    <3> HIDE DEF T, c
    <3>1. \A x : x \in Range(new.terms) <=> \E i \in 1..c : x = fwd.terms[order[i] + 1]
      BY <1>9 DEF Range
    <3> QED BY <1>7, <3>1
  <2>2. ASSUME NEW d \in 1..n, NEW x
        PROVE  x \in Range(Shards!Contents(new, d))
                 <=> \E j \in DOMAIN shard.docs[d] : x = fwd.terms[shard.docs[d][j] + 1]
    <3>1. Shards!Contents(new, d)
            = [j \in DOMAIN shard.docs[d] |-> fwd.terms[shard.docs[d][j] + 1]]
      BY <1>4, <1>11, <2>2 DEF Shards!Contents
    <3> DEFINE f == Shards!Contents(new, d)
    <3>2. /\ DOMAIN f = DOMAIN shard.docs[d]
          /\ \A j \in DOMAIN shard.docs[d] : f[j] = fwd.terms[shard.docs[d][j] + 1]
      BY <3>1
    <3>3. x \in Range(f) <=> \E j \in DOMAIN f : x = f[j]
      BY DEF Range
    <3> HIDE DEF f
    <3>4. x \in Range(f) <=> \E j \in DOMAIN shard.docs[d] :
                               x = fwd.terms[shard.docs[d][j] + 1]
      BY <3>2, <3>3
    <3> QED BY <3>4 DEF f
  <2> DEFINE U == UNION {Range(Shards!Contents(new, d)) : d \in DOMAIN new.docs}
  <2>3. \A x : x \in U <=> \E d \in 1..n : x \in Range(Shards!Contents(new, d))
    <3>1. U = UNION {Range(Shards!Contents(new, d)) : d \in 1..n}
      BY <1>12
    <3>2. \A x : x \in UNION {Range(Shards!Contents(new, d)) : d \in 1..n}
                   <=> \E d \in 1..n : x \in Range(Shards!Contents(new, d))
      OBVIOUS
    <3> HIDE DEF U
    <3> QED BY <3>1, <3>2
  <2>4. \A x : x \in U <=> x \in Range(new.terms)
    <3> HIDE DEF T, U
    <3>1. \A x : x \in U <=> \E d \in 1..n : \E j \in DOMAIN shard.docs[d] :
                               x = fwd.terms[shard.docs[d][j] + 1]
      <4>1. ASSUME NEW x
            PROVE  x \in U <=> \E d \in 1..n : \E j \in DOMAIN shard.docs[d] :
                                 x = fwd.terms[shard.docs[d][j] + 1]
        <5>1. x \in U <=> \E d \in 1..n : x \in Range(Shards!Contents(new, d))
          BY <2>3
        <5>2. \A d \in 1..n : x \in Range(Shards!Contents(new, d))
                <=> \E j \in DOMAIN shard.docs[d] : x = fwd.terms[shard.docs[d][j] + 1]
          BY <2>2
        <5> QED BY <5>1, <5>2
      <4> QED BY <4>1
    <3>2. \A x : (\E t \in T : x = fwd.terms[t + 1])
                   <=> \E d \in 1..n : \E j \in DOMAIN shard.docs[d] :
                         x = fwd.terms[shard.docs[d][j] + 1]
      BY <1>5
    <3> SUFFICES ASSUME NEW x PROVE x \in U <=> x \in Range(new.terms)
      OBVIOUS
    <3>3. x \in U <=> \E t \in T : x = fwd.terms[t + 1]
      BY <3>1, <3>2
    <3> QED BY <2>1, <3>3
  <2> HIDE DEF U
  <2>5. U = Range(new.terms)
    BY <2>4
  <2> QED BY <2>5 DEF U
<1> QED BY <1>2, <1>10, <1>13, <1>14 DEF ShardOf

\* The documents of a shard are documents.
LEMMA DocsOfFacts ==
  ASSUME NEW D, NEW N \in Nat, D = 1..N, NEW shard_of \in [D -> Nat], NEW s
  PROVE  DocsOf(shard_of, s) \in Seq(D)
<1> DEFINE P == {d \in DOMAIN shard_of : shard_of[d] = s - 1}
<1>1. P \in SUBSET D /\ P \in SUBSET Nat /\ IsFiniteSet(D)
  BY FS_Interval
<1>2. IsFiniteSet(P)
  BY <1>1, FS_Subset
<1> HIDE DEF P
<1>3. Ascending(P) \in Seq(P)
  BY <1>1, <1>2, AscendingFacts
<1>4. Ascending(P) \in Seq(D)
  BY <1>1, <1>3, SeqMonotonic
<1> QED BY <1>4 DEF DocsOf, P

\* The steps of the tool.
LEMMA ShardsStep ==
  ASSUME ShardsInv, Shards!ShardingStep
  PROVE  ShardsInv'
<1>1. CASE Shards!Rearrange
  <2>1. /\ shard_pc = "rearrange" /\ shard_pc' = "process" /\ part' = part
        /\ GoodForward(part.fwd) /\ part.mapping \in [DOMAIN part.fwd.docs -> Nat]
    BY <1>1 DEF Shards!Rearrange, ShardsInv
  <2>2. ASSUME NEW s \in DOMAIN shards'
        PROVE  /\ ~shards'[s].finished
               /\ CutFrom(part.fwd, DocsOf(part.mapping, s), shards'[s])
    <3> DEFINE docs == Shards!InOrder({d \in DOMAIN part.mapping : part.mapping[d] = s - 1})
    <3>1. shards'[s] = [titles |-> [i \in DOMAIN docs |-> part.fwd.titles[docs[i]]],
                        terms |-> part.fwd.terms,
                        docs |-> [i \in DOMAIN docs |-> part.fwd.docs[docs[i]]],
                        finished |-> FALSE]
      BY <1>1, <2>2 DEF Shards!Rearrange
    <3>2. docs = DocsOf(part.mapping, s)
      BY SameInShards DEF DocsOf
    <3> HIDE DEF docs
    <3> QED BY <3>1, <3>2 DEF CutFrom
  <2> QED BY <2>1, <2>2 DEF ShardsInv
<1>2. ASSUME NEW s \in DOMAIN shards, Shards!ProcessShard(s) PROVE ShardsInv'
  <2> DEFINE shard == shards[s]
             order == Ascending(Shards!has_term(shard))
             docs == DocsOf(part.mapping, s)
             new == [titles |-> shard.titles,
                     terms |-> [i \in DOMAIN order |-> shard.terms[order[i] + 1]],
                     docs |-> [d \in DOMAIN shard.docs |->
                                 [j \in DOMAIN shard.docs[d] |->
                                    Shards!remapped_term_id(shard, shard.docs[d][j])]],
                     finished |-> TRUE]
  <2>1. /\ shard_pc = "process" /\ shard_pc' = "process" /\ part' = part /\ ~shard.finished
        /\ shards' = [shards EXCEPT ![s] = new]
        /\ GoodForward(part.fwd) /\ part.mapping \in [DOMAIN part.fwd.docs -> Nat]
    BY <1>2, SameInShards DEF Shards!ProcessShard, ShardsInv
  <2>2. /\ CutFrom(part.fwd, docs, shard)
        /\ docs \in Seq(DOMAIN part.fwd.docs)
    <3>1. DOMAIN part.fwd.docs = 1..Len(part.fwd.docs) /\ Len(part.fwd.docs) \in Nat
      BY <2>1, LenProperties DEF GoodForward
    <3>2. docs \in Seq(DOMAIN part.fwd.docs)
      BY <2>1, <3>1, DocsOfFacts
    <3> QED BY <1>2, <2>1, <3>2 DEF ShardsInv
  <2>3. ShardOf(part.fwd, docs, new) /\ new.finished
    <3>1. /\ new.titles = shard.titles /\ new.finished
          /\ new.terms = [i \in DOMAIN order |-> shard.terms[order[i] + 1]]
          /\ new.docs = [d \in DOMAIN shard.docs |->
                           [j \in DOMAIN shard.docs[d] |->
                              Shards!remapped_term_id(shard, shard.docs[d][j])]]
      OBVIOUS
    <3> HIDE DEF new, docs
    <3>2. ShardOf(part.fwd, docs, new)
      BY <2>1, <2>2, <3>1, ShardProcessed, SMTT(20)
    <3> QED BY <3>1, <3>2
  <2> HIDE DEF new
  <2>4. /\ DOMAIN shards' = DOMAIN shards
        /\ \A t \in DOMAIN shards : shards'[t] = IF t = s THEN new ELSE shards[t]
    BY <2>1
  <2> QED BY <2>1, <2>3, <2>4 DEF ShardsInv
<1>3. CASE Shards!ShardsFinished
  BY <1>3 DEF Shards!ShardsFinished, ShardsInv
<1> QED BY <1>1, <1>2, <1>3 DEF Shards!ShardingStep

\* Every step of the pipeline is one of the tool or leaves it as it is.
LEMMA ShardsNext == RecordsInv /\ ShardsInv /\ [Next]_vars => ShardsInv'
<1> SUFFICES ASSUME RecordsInv, ShardsInv, [Next]_vars PROVE ShardsInv'
  OBVIOUS
<1>1. CASE UNCHANGED shardingVars
  BY <1>1 DEF shardingVars, ShardsInv
<1>2. CASE Shards!ShardingStep
  BY <1>2, ShardsStep
<1>3. ASSUME NEW m \in ShardMappings(forward), build_pc = "done",
             Shards!Partition([fwd |-> forward, mapping |-> m])
      PROVE  ShardsInv'
  <2>1. /\ part' = [fwd |-> forward, mapping |-> m] /\ shard_pc' = "rearrange"
        /\ m \in [DOMAIN forward.docs -> Nat]
    BY <1>3 DEF Shards!Partition
  <2>2. GoodForward(forward)
    BY <1>3 DEF RecordsInv, IndexOf, GoodForward
  <2> QED BY <2>1, <2>2 DEF ShardsInv
<1> QED
  BY <1>1, <1>2, <1>3 DEF Next, vars, ParseCollection, PartitionForward, InvertForward,
    ReorderIndex, CompressIndex, Finished

\* Shards are cut from the forward index that was built, in every reachable state.
THEOREM ShardsCorrect == Spec => []ShardsInv
<1>1. Init => ShardsInv
  BY DEF Init, Shards!ShardingIdle, ShardsInv
<1> QED BY <1>1, ShardsNext, RecordsCorrect, PTL DEF Spec

\* Whatever the mapping, each shard has its documents, in order, with their titles and
\* their terms, over its own sorted lexicon, in which every term occurs.
THEOREM ShardingCorrect == Spec => []ShardsAreCollection
<1>1. ShardsInv => ShardsAreCollection
  <2> SUFFICES ASSUME ShardsInv, shard_pc = "done", NEW s \in DOMAIN shards
               PROVE  LET docs == Shards!InOrder({d \in DOMAIN part.mapping :
                                                    part.mapping[d] = s - 1})
                      IN /\ shards[s].titles
                              = [i \in DOMAIN docs |-> part.fwd.titles[docs[i]]]
                         /\ [d \in DOMAIN shards[s].docs |-> Shards!Contents(shards[s], d)]
                              = [i \in DOMAIN docs |-> Shards!Contents(part.fwd, docs[i])]
                         /\ \A i, j \in DOMAIN shards[s].terms :
                              i < j => shards[s].terms[i] < shards[s].terms[j]
                         /\ Shards!Range(shards[s].terms)
                              = UNION {Shards!Range(Shards!Contents(shards[s], d)) :
                                         d \in DOMAIN shards[s].docs}
    BY Zenon DEF ShardsAreCollection, Shards!ShardsAreCollection
  <2> DEFINE docs == Shards!InOrder({d \in DOMAIN part.mapping : part.mapping[d] = s - 1})
             shard == shards[s]
  <2>1. docs = DocsOf(part.mapping, s)
    BY SameInShards DEF DocsOf
  <2>2. ShardOf(part.fwd, DocsOf(part.mapping, s), shard)
    BY DEF ShardsInv
  <2> HIDE DEF docs
  <2>3. ShardOf(part.fwd, docs, shard)
    BY <2>1, <2>2
  <2> HIDE DEF shard
  <2>4. Shards!Range(shard.terms)
          = UNION {Shards!Range(Shards!Contents(shard, d)) : d \in DOMAIN shard.docs}
    BY <2>3, SameInShards DEF ShardOf
  <2> QED BY <2>3, <2>4, Zenon DEF ShardOf, docs, shard
<1> QED BY <1>1, ShardsCorrect, PTL
=============================================================================
