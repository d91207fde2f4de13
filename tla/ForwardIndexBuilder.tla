------------------------- MODULE ForwardIndexBuilder -------------------------
(***************************************************************************)
(* forward_index_builder.hpp.  The producer reads records and cuts them    *)
(* into batches; every batch is processed by a task of a group, while a    *)
(* bounded queue keeps the producer from running ahead; then the batches   *)
(* are merged.  Documents are processed contents: sequences of terms.      *)
(***************************************************************************)
EXTENDS Integers, FiniteSets, TLC, SequencesExt

CONSTANT MayThrow  \* TRUE when tasks may throw

\* A term is a number, in the order of the strings.  The title of a record is
\* its place in the input.
Missing == [titles |-> <<>>, terms |-> <<>>, docs |-> <<>>]

VARIABLES
  call,          \* the arguments of build: records, batch_size, threads
  build_pc,      \* where build() is
  is,            \* records not read yet
  record_batch,  \* records read and not yet in a batch
  queue,         \* the number of elements in the bounded queue
  task,          \* the batches: their records and the state of their task
  forward        \* the merged files

builderVars == <<call, build_pc, is, record_batch, queue, task, forward>>

BuilderIdle ==
  /\ call = [records |-> <<>>, batch_size |-> 1, threads |-> 0]
  /\ build_pc = "idle"
  /\ is = <<>> /\ record_batch = <<>>
  /\ queue = 0
  /\ task = <<>>
  /\ forward = Missing

-----------------------------------------------------------------------------
(* The files of one batch.                                                  *)

\* The elements of a set of numbers from the lowest on.
Ascending(S) == [i \in 1..Cardinality(S) |->
                   CHOOSE x \in S : Cardinality({y \in S : y < x}) = i - 1]

\* The distinct elements of s in the order they first occur.
FirstOccurrences(s) ==
  LET first == {i \in DOMAIN s : \A j \in 1..(i - 1) : s[j] # s[i]}
  IN [k \in 1..Cardinality(first) |-> s[Ascending(first)[k]]]

\* Where x stands in s, from 0.
IdIn(s, x) == SelectInSeq(s, LAMBDA y : y = x) - 1

\* run(): a term gets the next number of the batch when it is first seen.
Files(records) ==
  LET terms == FirstOccurrences(FlattenSeq([i \in DOMAIN records |-> records[i].content]))
  IN [titles |-> [i \in DOMAIN records |-> records[i].title],
      terms |-> terms,
      docs |-> [i \in DOMAIN records |->
                  [j \in DOMAIN records[i].content |->
                     IdIn(terms, records[i].content[j])]]]

-----------------------------------------------------------------------------
(* The merge.                                                               *)

\* push_span: the spans on top that have the level of s are merged with it, one
\* after the other, which raises the level.  A span is sorted and has no
\* duplicates, so it is the set of its terms.
PushSpan(spans, terms) ==
  LET n == Len(spans)
      k == Max({0} \cup {j \in 1..n : \A i \in 0..(j - 1) : spans[n - i].lvl = i})
  IN Append(SubSeq(spans, 1, n - k),
            [terms |-> terms \cup UNION {spans[i].terms : i \in (n - k + 1)..n},
             lvl |-> k])

\* collect_terms: the spans left in the end are merged from the top.
collect_terms(files) ==
  LET spans[b \in 0..Len(files)] ==
        IF b = 0 THEN <<>> ELSE PushSpan(spans[b - 1], Range(files[b].terms))
      all == spans[Len(files)]
  IN Ascending(UNION {all[i].terms : i \in DOMAIN all})

\* A stream to which the parts are written with os << is.rdbuf(), which fails
\* for an empty part; a stream that failed takes nothing more.
Concatenation(parts) ==
  LET failed == {i \in DOMAIN parts : parts[i] = <<>>}
  IN FlattenSeq(SubSeq(parts, 1, Min(failed \cup {Len(parts)})))

\* The documents of a batch with the numbers the terms have in the lexicon.
Remapped(file, terms) ==
  [d \in DOMAIN file.docs |->
     [j \in DOMAIN file.docs[d] |-> IdIn(terms, file.terms[file.docs[d][j] + 1])]]

\* merge().
Merged(files) ==
  LET terms == collect_terms(files)
  IN [titles |-> Concatenation([b \in DOMAIN files |-> files[b].titles]),
      terms |-> terms,
      docs |-> Concatenation([b \in DOMAIN files |-> Remapped(files[b], terms)])]

-----------------------------------------------------------------------------
(* build().                                                                 *)

\* Called with a stream of records; fewer than two threads end the program.
Build(c) ==
  /\ build_pc = "idle"
  /\ c.threads >= 2
  /\ call' = c
  /\ build_pc' = "read"
  /\ is' = [i \in DOMAIN c.records |-> [title |-> i, content |-> c.records[i]]]
  /\ UNCHANGED <<record_batch, queue, task, forward>>

\* next_record has a record: it joins the batch, which may be full then.
ReadRecord ==
  /\ build_pc = "read"
  /\ is # <<>>
  /\ record_batch' = Append(record_batch, Head(is))
  /\ is' = Tail(is)
  /\ build_pc' = IF Len(record_batch') = call.batch_size THEN "push" ELSE "read"
  /\ UNCHANGED <<call, queue, task, forward>>

\* No record left: what is read so far, be it nothing, is the last batch.
EndOfInput ==
  /\ build_pc = "read"
  /\ is = <<>>
  /\ build_pc' = "last"
  /\ UNCHANGED <<call, is, record_batch, queue, task, forward>>

Capacity == (call.threads - 1) * 2

\* Mutated form of RunBatch: the queue is not asked.
RunBatchUnbounded ==
  /\ build_pc \in {"push", "last"}
  /\ task' = Append(task, [records |-> record_batch, state |-> "ready"])
  /\ record_batch' = <<>>
  /\ build_pc' = IF build_pc = "last" THEN "wait" ELSE "read"
  /\ UNCHANGED <<call, is, queue, forward>>

\* queue.push(0), which waits for a free place, and batch_group.run.
RunBatch ==
  /\ build_pc \in {"push", "last"}
  /\ queue < Capacity
  /\ queue' = queue + 1
  /\ task' = Append(task, [records |-> record_batch, state |-> "ready"])
  /\ record_batch' = <<>>
  /\ build_pc' = IF build_pc = "last" THEN "wait" ELSE "read"
  /\ UNCHANGED <<call, is, forward>>

InState(s) == {b \in DOMAIN task : task[b].state = s}

\* A task that threw cancels its group: tasks not started are dropped.
Cancelled == InState("threw") # {}

CanStart(b) ==
  /\ task[b].state = "ready"
  /\ ~Cancelled
  /\ Cardinality(InState("written")) < call.threads

\* A task runs its batch: its files are its own, and are read after it is over.
ProcessBatch(b) ==
  /\ CanStart(b)
  /\ task' = [task EXCEPT ![b].state = "written"]
  /\ UNCHANGED <<call, build_pc, is, record_batch, queue, forward>>

\* The task throws instead; its files are not complete and it frees no place.
ThrowBatch(b) ==
  /\ MayThrow
  /\ CanStart(b)
  /\ task' = [task EXCEPT ![b].state = "threw"]
  /\ UNCHANGED <<call, build_pc, is, record_batch, queue, forward>>

\* Mutated form of PopQueue: the place in the queue is kept.
PopQueueNever(b) ==
  /\ task[b].state = "written"
  /\ task' = [task EXCEPT ![b].state = "over"]
  /\ UNCHANGED <<call, build_pc, is, record_batch, queue, forward>>

\* queue.try_pop at the end of the task.
PopQueue(b) ==
  /\ task[b].state = "written"
  /\ task' = [task EXCEPT ![b].state = "over"]
  /\ queue' = Max({0, queue - 1})
  /\ UNCHANGED <<call, build_pc, is, record_batch, forward>>

\* What is on disk of the batches when they are merged.
BatchFiles ==
  [b \in DOMAIN task |-> IF task[b].state = "over" THEN Files(task[b].records) ELSE Missing]

TasksOver == \A b \in DOMAIN task : task[b].state \notin {"ready", "written"}

\* Mutated form of Merge: the tasks are not waited for.
MergeAtOnce ==
  /\ build_pc = "wait"
  /\ build_pc' = "done"
  /\ forward' = Merged(BatchFiles)
  /\ UNCHANGED <<call, is, record_batch, queue, task>>

\* batch_group.wait(), then merge; the wait ends with the exception of a task
\* that threw, when those that run are over.
Merge ==
  /\ build_pc = "wait"
  /\ IF Cancelled
       THEN InState("written") = {} /\ build_pc' = "failed" /\ UNCHANGED forward
       ELSE TasksOver /\ build_pc' = "done" /\ forward' = Merged(BatchFiles)
  /\ UNCHANGED <<call, is, record_batch, queue, task>>

Producer == ReadRecord \/ EndOfInput \/ RunBatch \/ Merge
Task(b) == ProcessBatch(b) \/ ThrowBatch(b) \/ PopQueue(b)
BuilderStep == Producer \/ \E b \in DOMAIN task : Task(b)

\* The producer waits for a place that a task that threw, or was dropped, keeps.
ProducerHangs == Cancelled /\ build_pc \in {"push", "last"} /\ queue = Capacity
                 /\ InState("written") = {} /\ UNCHANGED builderVars

\* The producer goes on when it can, and so does some task.
BuilderFairness ==
  /\ WF_builderVars(RunBatch)
  /\ WF_builderVars(\E b \in DOMAIN task : Task(b))

-----------------------------------------------------------------------------
\* At any time at most Capacity batches are held in memory besides the one being
\* read, whatever the order in which tasks run and end.
BoundedMemory ==
  Cardinality({b \in DOMAIN task : task[b].state \in {"ready", "written"}}) <= Max({0, Capacity})

\* The forward index is the collection: every document in the place it was read
\* from, with its title and its terms, over the sorted terms of the collection;
\* so nothing is merged before the tasks are over, and a task that threw leaves
\* no index with holes.
ForwardIsCollection ==
  build_pc = "done" =>
    /\ forward.titles = [d \in DOMAIN call.records |-> d]
    /\ [d \in DOMAIN forward.docs |->
          [j \in DOMAIN forward.docs[d] |-> forward.terms[forward.docs[d][j] + 1]]]
         = call.records
    /\ \A i, j \in DOMAIN forward.terms : i < j => forward.terms[i] < forward.terms[j]
    /\ Range(forward.terms) = UNION {Range(call.records[d]) : d \in DOMAIN call.records}

\* Unless a task throws, the producer never waits for ever for a place in the
\* queue: two threads make for a queue with two places, and every task frees one.
ProducerGoesOn ==
  build_pc \in {"push", "last"} ~> build_pc \in {"read", "wait"} \/ Cancelled
=============================================================================
