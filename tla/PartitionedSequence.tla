------------------------ MODULE PartitionedSequence ------------------------
(***************************************************************************)
(* partitioned_sequence.hpp and uniform_partitioned_sequence.hpp: a        *)
(* sequence is cut into partitions, each of which is a sequence of its     *)
(* own, written less what comes before it.  The last value of every        *)
(* partition and, unless all have the same size, the sizes are stored in   *)
(* Elias-Fano form and searched for the partition a call needs.  The       *)
(* enumerator keeps one partition open.                                    *)
(*                                                                         *)
(* The base sequence is an indexed_sequence for documents and a            *)
(* strict_sequence for frequencies.  The offsets in the bit vector at      *)
(* which the parts start are left out.                                     *)
(***************************************************************************)
EXTENDS Integers, Sequences, FiniteSetsExt

CONSTANTS word_size, linear_scan_threshold

EF == INSTANCE EliasFano
Base == INSTANCE IndexedSequence

\* The ends of partitions of the same size, of which the last may be shorter.
uniform_partition(n, params) ==
  LET size == 2^params.log_partition_size
  IN [p \in 1..((n + size - 1) \div size) |-> Min({p * size, n})]

Start(partition, p) == IF p = 1 THEN 0 ELSE partition[p - 1]

\* cur_base: the first value, then one more than the last value before.
BaseOf(list, partition, p) ==
  IF p = 1 THEN list[1] ELSE list[partition[p - 1]] + 1

\* A partition as its base sequence is given it, and its universe.
Part(list, partition, p) ==
  [i \in 1..(partition[p] - Start(partition, p)) |->
     list[Start(partition, p) + i] - BaseOf(list, partition, p)]
PartUniverse(list, partition, p) ==
  list[partition[p]] - BaseOf(list, partition, p) + 1

WriteParts(list, partition, strict, params) ==
  [p \in 1..Len(partition) |->
     LET part == Part(list, partition, p)
         u == PartUniverse(list, partition, p)
     IN IF strict THEN Base!strict_sequence_write(part, u, params)
        ELSE Base!indexed_write(part, u, params)]

\* With one partition its bound is written as a difference, 0 if it is tight; a
\* sequence without the other bounds and without sizes has << >> for them.
write(list, universe, partition, strict, uniform, params) ==
  LET k == Len(partition)
      last == list[Len(list)]
  IN [type |-> IF uniform THEN "uniform" ELSE "partitioned",
      universe |-> universe, n |-> Len(list), partitions |-> k,
      size |-> 2^params.log_partition_size,
      sequences |-> WriteParts(list, partition, strict, params),
      base |-> list[1],
      delta |-> IF last + 1 = universe THEN 0 ELSE last - list[1],
      upper_bounds |->
        IF k = 1 THEN << >>
        ELSE EF!write(<<list[1]>> \o [p \in 1..k |-> list[partition[p]]],
                      universe, params),
      sizes |->
        IF k = 1 \/ uniform THEN << >>
        ELSE EF!write([p \in 1..(k - 1) |-> partition[p]], Len(list), params)]

-----------------------------------------------------------------------------
Sequence(w, e) == w.sequences[e.cur_partition + 1]

\* What a method returns when the enumerator of the open partition is at `part`.
InPart(w, e, part) ==
  [e EXCEPT !.part = part, !.value = e.cur_base + Base!ValueOf(Sequence(w, e), part)]

uniform_begin(w, partition) == partition * w.size
uniform_end(w, partition) == Min({w.n, (partition + 1) * w.size})

\* Another partition is opened; the enumerators of the bounds and, unless all sizes
\* are the same, of the sizes are at its end.
Open(w, e, partition, sizes, bounds) ==
  LET uniform == w.type = "uniform"
  IN [e EXCEPT
        !.cur_partition = partition,
        !.sizes = sizes,
        !.cur_end = IF uniform THEN uniform_end(w, partition) ELSE sizes.value,
        !.cur_begin = IF uniform THEN uniform_begin(w, partition)
                      ELSE EF!prev_value(w.sizes, sizes),
        !.upper_bounds = bounds,
        !.cur_upper_bound = bounds.value,
        !.cur_base = EF!prev_value(w.upper_bounds, bounds)
                       + (IF partition # 0 THEN 1 ELSE 0),
        !.part = Base!enumerator(w.sequences[partition + 1])]

switch_partition(w, e, partition) ==
  Open(w, e, partition,
       IF w.type = "uniform" THEN e.sizes ELSE EF!move(w.sizes, e.sizes, partition),
       EF!move(w.upper_bounds, e.upper_bounds, partition + 1))

uniform_partition_of(w, position) == position \div w.size

\* Past the end the last partition is opened.  Else, with equal sizes, the partition
\* is computed; or it is the first one whose end is past the position.
slow_move_open(w, e, position) ==
  IF position = w.n
    THEN IF w.partitions > 1 THEN switch_partition(w, e, w.partitions - 1) ELSE e
  ELSE IF w.type = "uniform"
    THEN switch_partition(w, e, uniform_partition_of(w, position))
  ELSE LET found == [e EXCEPT !.sizes = EF!next_geq(w.sizes, e.sizes, position + 1)]
       IN switch_partition(w, found, found.sizes.position)

\* To a position of the open partition, or past the end.
MoveInPart(w, e, position) ==
  IF position = w.n
    THEN [e EXCEPT !.position = position, !.value = w.universe,
                   !.part = Base!move(Sequence(w, e), e.part, Sequence(w, e).n)]
    ELSE InPart(w, [e EXCEPT !.position = position],
                Base!move(Sequence(w, e), e.part, position - e.cur_begin))

slow_move(w, e, position) == MoveInPart(w, slow_move_open(w, e, position), position)

\* The constructor opens the only partition and ends by a move past the end.
enumerator(w) ==
  LET ub == IF w.n = 1 THEN 0
            ELSE IF w.delta # 0 THEN w.delta ELSE w.universe - w.base - 1
      one == w.partitions = 1
  IN slow_move(w,
       [position |-> w.n, value |-> w.universe,
        cur_partition |-> 0, cur_begin |-> 0,
        cur_end |-> IF one THEN w.n ELSE 0,
        cur_base |-> IF one THEN w.base ELSE 0,
        cur_upper_bound |-> IF one THEN w.base + ub ELSE 0,
        sizes |-> IF one \/ w.type = "uniform" THEN << >> ELSE EF!enumerator(w.sizes),
        upper_bounds |-> IF one THEN << >> ELSE EF!enumerator(w.upper_bounds),
        part |-> Base!enumerator(w.sequences[1])], w.n)

move(w, e, position) ==
  IF e.cur_begin <= position /\ position < e.cur_end
    THEN MoveInPart(w, e, position)
    ELSE slow_move(w, e, position)

\* What next_geq returns when the search in the open partition is at `part`.
FoundInPart(w, e, part) ==
  InPart(w, [e EXCEPT !.position = e.cur_begin + part.position], part)

next_geq_in_part(w, e, lower_bound) ==
  FoundInPart(w, e, Base!next_geq(Sequence(w, e), e.part, lower_bound - e.cur_base))

\* The partition is the one before the bound that is found, as the first value is
\* among the bounds.
slow_next_geq_from(w, e, lower_bound) ==
  IF e.upper_bounds.position \in {0, w.upper_bounds.n}
    THEN move(w, e, IF e.upper_bounds.position = 0 THEN 0 ELSE w.n)
    ELSE next_geq_in_part(w, switch_partition(w, e, e.upper_bounds.position - 1),
                          lower_bound)

slow_next_geq(w, e, lower_bound) ==
  IF w.partitions = 1
    THEN move(w, e, IF lower_bound < e.cur_base THEN 0 ELSE w.n)
    ELSE slow_next_geq_from(w,
           [e EXCEPT !.upper_bounds =
              EF!next_geq(w.upper_bounds, e.upper_bounds, lower_bound)],
           lower_bound)

next_geq(w, e, lower_bound) ==
  IF e.cur_base <= lower_bound /\ lower_bound <= e.cur_upper_bound
    THEN next_geq_in_part(w, e, lower_bound)
    ELSE slow_next_geq(w, e, lower_bound)

slow_next(w, e) ==
  IF e.position = w.n
    THEN [e EXCEPT !.value = w.universe, !.part = Base!next(Sequence(w, e), e.part)]
    ELSE MoveInPart(w, switch_partition(w, e, e.cur_partition + 1), e.position)

next(w, e) ==
  LET stepped == [e EXCEPT !.position = e.position + 1]
  IN IF stepped.position < e.cur_end
       THEN InPart(w, stepped, Base!next(Sequence(w, e), e.part))
       ELSE slow_next(w, stepped)

prev_value(w, e) ==
  IF e.position = e.cur_begin
    THEN IF e.cur_partition # 0 THEN e.cur_base - 1 ELSE 0
    ELSE e.cur_base + Base!prev_value(Sequence(w, e), e.part)
=============================================================================
