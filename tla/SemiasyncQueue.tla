---------------------------- MODULE SemiasyncQueue ----------------------------
(***************************************************************************)
(* util/semiasync_queue.hpp: jobs are prepared by threads, each of which   *)
(* has a part of them, and committed by the caller in the order in which   *)
(* they were added.  A job is a number, from 1 in the order added; so is   *)
(* the expected work of each.                                              *)
(***************************************************************************)
EXTENDS Integers, FiniteSets, SequencesExt

CONSTANT QueueLimits  \* what the machine and the client of a queue may set

VARIABLES
  limits,           \* m_max_threads, m_work_per_thread
  queue_pc,         \* what the caller does: adds jobs, spawns or completes
  work,             \* the expected work of the jobs to be added
  added,            \* how many jobs were added
  m_next_thread,    \* the jobs of the thread spawned next
  m_expected_work,
  m_running_threads, \* the jobs of each and how many of them are prepared
  committed         \* the jobs committed

queueVars == <<limits, queue_pc, work, added, m_next_thread, m_expected_work,
               m_running_threads, committed>>

QueueIdle ==
  /\ limits = [max_threads |-> 0, work_per_thread |-> 1]
  /\ queue_pc = "idle"
  /\ work = <<>>
  /\ added = 0
  /\ m_next_thread = <<>>
  /\ m_expected_work = 0
  /\ m_running_threads = <<>>
  /\ committed = <<>>

\* A queue is made for jobs with so much work.
MakeQueue(w) ==
  /\ queue_pc = "idle"
  /\ limits' \in QueueLimits
  /\ work' = w
  /\ queue_pc' = "add"
  /\ UNCHANGED <<added, m_next_thread, m_expected_work, m_running_threads, committed>>

\* add_job without threads: the job is prepared and committed at once.
AddSynchronous ==
  /\ queue_pc = "add" /\ added < Len(work)
  /\ limits.max_threads = 0
  /\ added' = added + 1
  /\ committed' = Append(committed, added')
  /\ UNCHANGED <<limits, queue_pc, work, m_next_thread, m_expected_work, m_running_threads>>

\* add_job: enough work makes for a thread.
AddJob ==
  /\ queue_pc = "add" /\ added < Len(work)
  /\ limits.max_threads # 0
  /\ added' = added + 1
  /\ m_next_thread' = Append(m_next_thread, added')
  /\ m_expected_work' = m_expected_work + work[added']
  /\ queue_pc' = IF m_expected_work' >= limits.work_per_thread THEN "spawn" ELSE "add"
  /\ UNCHANGED <<limits, work, m_running_threads, committed>>

\* complete() spawns a thread for the jobs left.
Complete ==
  /\ queue_pc = "add" /\ added = Len(work)
  /\ queue_pc' = IF m_next_thread # <<>> THEN "last" ELSE "drain"
  /\ UNCHANGED <<limits, work, added, m_next_thread, m_expected_work,
                 m_running_threads, committed>>

\* spawn_next_thread, when there are not too many already.
spawn_next_thread ==
  /\ queue_pc \in {"spawn", "last"}
  /\ Len(m_running_threads) # limits.max_threads
  /\ m_running_threads' = Append(m_running_threads, [jobs |-> m_next_thread, prepared |-> 0])
  /\ m_next_thread' = <<>>
  /\ m_expected_work' = 0
  /\ queue_pc' = IF queue_pc = "last" THEN "drain" ELSE "add"
  /\ UNCHANGED <<limits, work, added, committed>>

\* Thread i prepares its next job.
Prepare(i) ==
  /\ m_running_threads[i].prepared < Len(m_running_threads[i].jobs)
  /\ m_running_threads' = [m_running_threads EXCEPT ![i].prepared = @ + 1]
  /\ UNCHANGED <<limits, queue_pc, work, added, m_next_thread, m_expected_work, committed>>

Over(i) == m_running_threads[i].prepared = Len(m_running_threads[i].jobs)

\* When the caller waits for a thread.
MustCommit ==
  /\ m_running_threads # <<>>
  /\ \/ queue_pc \in {"spawn", "last"} /\ Len(m_running_threads) = limits.max_threads
     \/ queue_pc = "drain"

\* Mutated form of commit_thread: whichever thread is over is committed.
CommitAnyThread ==
  /\ MustCommit
  /\ \E i \in DOMAIN m_running_threads :
       /\ Over(i)
       /\ committed' = committed \o m_running_threads[i].jobs
       /\ m_running_threads' = RemoveAt(m_running_threads, i)
  /\ UNCHANGED <<limits, queue_pc, work, added, m_next_thread, m_expected_work>>

\* Mutated form of commit_thread: only complete() commits.
CommitOnComplete ==
  /\ MustCommit /\ queue_pc = "drain"
  /\ Over(1)
  /\ committed' = committed \o Head(m_running_threads).jobs
  /\ m_running_threads' = Tail(m_running_threads)
  /\ UNCHANGED <<limits, queue_pc, work, added, m_next_thread, m_expected_work>>

\* commit_thread joins the first thread and commits its jobs.
commit_thread ==
  /\ MustCommit
  /\ Over(1)
  /\ committed' = committed \o Head(m_running_threads).jobs
  /\ m_running_threads' = Tail(m_running_threads)
  /\ UNCHANGED <<limits, queue_pc, work, added, m_next_thread, m_expected_work>>

\* complete() returns.
Completed ==
  /\ queue_pc = "drain"
  /\ m_running_threads = <<>>
  /\ queue_pc' = "done"
  /\ UNCHANGED <<limits, work, added, m_next_thread, m_expected_work,
                 m_running_threads, committed>>

QueueStep ==
  \/ AddSynchronous
  \/ AddJob
  \/ Complete
  \/ spawn_next_thread
  \/ \E i \in DOMAIN m_running_threads : Prepare(i)
  \/ commit_thread
  \/ Completed

\* The threads go on, and so does the caller.
QueueFairness == WF_queueVars(QueueStep)

-----------------------------------------------------------------------------
\* Jobs are committed in the order in which they were added, each once and none
\* left behind, although they are prepared by threads in any order; and there are
\* never more threads than the machine has.
CommitsInOrder ==
  /\ committed = [j \in 1..Len(committed) |-> j]
  /\ queue_pc = "done" => Len(committed) = Len(work)
  /\ Len(m_running_threads) <= limits.max_threads

\* A queue that is completed returns: the caller waits only for threads that end.
QueueReturns == queue_pc # "idle" ~> queue_pc = "done"
=============================================================================
