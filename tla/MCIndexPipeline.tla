--------------------------- MODULE MCIndexPipeline ---------------------------
(***************************************************************************)
(* IndexPipeline for TLC.  Many small collections go through               *)
(* parse_collection, where the tasks interleave; two of them go on.        *)
(***************************************************************************)
EXTENDS IndexPipeline

Contents == {<<>>, <<3>>, <<2, 1, 2>>}
Long == << <<1>>, <<3, 2>>, <<2>>, <<1, 1>>, <<4>> >>
Collection == << <<2, 1, 2>>, <<3>>, <<>>, <<1, 3, 2, 3>> >>

MCBuildCalls ==
  [records : UNION {[1..n -> Contents] : n \in 0..3} \cup {Long, Collection},
   batch_size : {1, 2}, threads : {2, 3}]

MCContinues(c) == c = [records |-> Collection, batch_size |-> 2, threads |-> 2]

MCShardMappings(fwd) ==
  {Shards!mapping_from_files(fwd.titles, << <<4, 2>>, <<1, 2>> >>)}
  \cup Shards!RandomMappings(Len(fwd.docs), 3)

MCInvertCalls(fwd) ==
  [batch_size : IF Len(fwd.docs) < 4 THEN {2} ELSE {2, 4}, threads : {2}]

Random == [method : {"random", "random_postings", "random_docids"}]
Trees == {{Reorderer!Split(0, 0, 4, 2, 1)}, {Reorderer!Split(0, 0, 4, 1, 2)},
          {Reorderer!Split(0, 0, 4, 2, 0)},
          {Reorderer!Split(0, 0, 4, 1, Reorderer!NoDepth),
           Reorderer!Split(1, 0, 2, 1, Reorderer!NoDepth),
           Reorderer!Split(1, 2, 4, 2, Reorderer!NoDepth)}}

\* Only the whole collection is reordered.
Whole(idx) == Len(idx.sizes) = Len(Collection)

Bisections(compression) ==
  [method : {"bp"}, min_length : {0, 2}, compressed : compression, threads : {1, 2},
   nodes : Trees]

Features == [method : {"feature"}, feature : {<<3, 1, 4, 1>>, <<2, 3, 1, 4>>, <<1, 2>>}]
Lines == {<< [prev_id |-> 1, new_id |-> 0], [prev_id |-> 0, new_id |-> 2],
             [prev_id |-> 2, new_id |-> 3], [prev_id |-> 3, new_id |-> 1] >>,
          << [prev_id |-> 0, new_id |-> 0] >>}

With(calls, idx) == {[f \in DOMAIN c \cup {"index"} |-> IF f = "index" THEN idx ELSE c[f]] :
                       c \in calls}

MCReorderCalls(idx) ==
  IF ~Whole(idx) THEN {}
  ELSE With(Random \cup Features \cup Bisections({TRUE})
            \cup [method : {"mapping"}, lines : Lines], idx)

\* As --nogb.
Uncompressed(idx) == IF Whole(idx) THEN With(Bisections({FALSE}), idx) ELSE {}

MCQueueLimits == [max_threads : 0..2, work_per_thread : {1, 3}]

\* Everything is made of an index that was not reordered.
MCCompressCalls(lists, method) ==
  [kind : IF method = "bp" THEN {"freq"} ELSE {"freq", "block"}, lists : {lists},
   quantized : IF method = "none" THEN BOOLEAN ELSE {FALSE}, check : {TRUE},
   quants : {[t \in DOMAIN lists |-> [i \in DOMAIN lists[t] |-> i]]}]
  \cup
  [kind : IF method = "none" THEN {"sequences"} ELSE {}, lists : {lists},
   quantized : {FALSE}, check : {TRUE}, quants : {<<>>}]
=============================================================================
