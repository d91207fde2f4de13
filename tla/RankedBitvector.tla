-------------------------- MODULE RankedBitvector --------------------------
(***************************************************************************)
(* compact_ranked_bitvector.hpp: a bit for every number below the          *)
(* universe.  Samples of the rank at every 2^log_rank1_sampling-th bit and *)
(* pointers to every 2^log_sampling1-th one let an enumerator jump.        *)
(* Sequences and enumerators are records as in EliasFano.                  *)
(***************************************************************************)
EXTENDS UnaryEnumerator, Integers, Sequences

CONSTANT linear_scan_threshold

bitsize(params, universe, n) ==
  (universe \div 2^params.rb_log_rank1_sampling) * ceil_log2(n + 1)
    + (n \div 2^params.rb_log_sampling1) * ceil_log2(universe) + universe

\* What the calls of set_rank1_samples leave in the sample at bit `at`: the ones
\* before it.  They do not reach a sample at the universe.
RankSample(list, universe, at) ==
  IF at < universe THEN Cardinality({i \in 1..Len(list) : list[i] < at}) ELSE 0

write(list, universe, params) ==
  LET n == Len(list)
      step_rank == 2^params.rb_log_rank1_sampling
      step1 == 2^params.rb_log_sampling1
  IN [type |-> "ranked_bitvector", universe |-> universe, n |-> n,
      bits |-> {list[i] : i \in 1..n},
      step_rank |-> step_rank, step1 |-> step1,
      rank1_samples |-> [k \in 1..(universe \div step_rank) |->
                           RankSample(list, universe, k * step_rank)],
      pointers1 |-> [k \in 1..(n \div step1) |->
                       IF k * step1 < n THEN list[k * step1 + 1] ELSE 0]]

pointer(pointers, i) == IF i = 0 THEN 0 ELSE pointers[i]

-----------------------------------------------------------------------------
enumerator(w) ==
  [position |-> w.n, value |-> w.universe,
   ones |-> [position |-> 0, buf |-> {}]]

AtEnd(w, e) == [e EXCEPT !.position = w.n, !.value = w.universe]

\* The value number i, when the enumerator of the ones has just returned its one.
ReadAt(ones, i) == [position |-> i, value |-> ones.position, ones |-> ones]

\* To the value number i by k calls of next() from `ones`.
Reads(w, ones, k, i) == ReadAt(next_times(w.bits, ones, k), i)

slow_move(w, e, position) ==
  LET skipped == position - e.position
      near == position > e.position /\ skipped < w.step1
      ptr == position \div w.step1
      start == unary_enumerator(w.bits, pointer(w.pointers1, ptr))
  IN IF position = w.n THEN AtEnd(w, e)
     ELSE Reads(w, skip(w.bits, IF near THEN e.ones ELSE start,
                        IF near THEN skipped - 1 ELSE position - ptr * w.step1),
                1, position)

move(w, e, position) ==
  LET skipped == position - e.position
  IN IF position = e.position THEN e
     ELSE IF position > e.position /\ skipped <= linear_scan_threshold
       THEN IF position = w.n THEN AtEnd(w, e)
            ELSE Reads(w, e.ones, skipped, position)
       ELSE slow_move(w, e, position)

\* The ones from `begin` to lower_bound are counted, begin being the cursor's own
\* when it is near, or else the sample before.  The call of move(size()) ends past
\* the last value.
slow_next_geq(w, e, lower_bound) ==
  LET near == /\ lower_bound > e.value
              /\ lower_bound - e.value < w.step_rank
      block == lower_bound \div w.step_rank
      begin == IF near THEN e.value ELSE block * w.step_rank
      rank == IF near THEN e.position ELSE pointer(w.rank1_samples, block)
      position == rank + Cardinality({p \in w.bits : begin <= p /\ p < lower_bound})
      ones == unary_enumerator(w.bits, lower_bound)
  IN IF lower_bound >= w.universe THEN AtEnd(w, e)
     ELSE IF position < w.n
       THEN Reads(w, ones, 1, position)
       ELSE [position |-> position, value |-> w.universe, ones |-> ones]

\* The loop of next_geq: the values after the cursor's are read until one is not
\* below lower_bound, `found` being the numbers of reads after which one is.
ScanFound(w, e, found) ==
  IF found = {}
    THEN AtEnd(w, [e EXCEPT !.ones =
           next_times(w.bits, e.ones,
                      IF e.position + 1 < w.n THEN w.n - e.position - 1 ELSE 0)])
    ELSE Reads(w, e.ones, Min(found), e.position + Min(found))

Scan(w, e, lower_bound) ==
  ScanFound(w, e, {k \in 1..(w.n - e.position - 1) :
                     Reads(w, e.ones, k, e.position + k).value >= lower_bound})

next_geq(w, e, lower_bound) ==
  IF lower_bound = e.value THEN e
  ELSE IF lower_bound > e.value /\ lower_bound - e.value <= linear_scan_threshold
    THEN Scan(w, e, lower_bound)
    ELSE slow_next_geq(w, e, lower_bound)

next(w, e) ==
  IF e.position + 1 < w.n
    THEN Reads(w, e.ones, 1, e.position + 1)
    ELSE AtEnd(w, e)

prev_value(w, e) ==
  IF e.position = 0 THEN 0
  ELSE predecessor1(w.bits, IF e.position < w.n THEN e.ones.position - 1
                              ELSE w.universe - 1)
=============================================================================
