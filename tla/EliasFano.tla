----------------------------- MODULE EliasFano -----------------------------
(***************************************************************************)
(* compact_elias_fano.hpp.  The high part of a value is stored in unary,   *)
(* as a one in a bit vector with a zero for every increment; its low bits  *)
(* are stored apart.  Pointers to every 2^log_sampling1-th one and every   *)
(* 2^log_sampling0-th zero let an enumerator jump.                         *)
(*                                                                         *)
(* A sequence as written is a record w; positions in it are counted from   *)
(* higher_bits_offset.  An enumerator is a record e of its position, the   *)
(* value there and m_high_enumerator; what the code's methods return is    *)
(* e.position and e.value.                                                 *)
(***************************************************************************)
EXTENDS UnaryEnumerator, Integers, Sequences

CONSTANT linear_scan_threshold

lower_bits(universe, n) == IF universe > n THEN msb(universe \div n) ELSE 0

higher_bits_length(universe, n) ==
  n + universe \div 2^lower_bits(universe, n) + 2

bitsize(params, universe, n) ==
  LET length == higher_bits_length(universe, n)
      pointers0 == (length - n) \div 2^params.ef_log_sampling0
      pointers1 == n \div 2^params.ef_log_sampling1
  IN (pointers0 + pointers1) * ceil_log2(length) + length
       + n * lower_bits(universe, n)

\* The one of the value number i, from 0.
High(list, l, i) == list[i + 1] \div 2^l + i + 1

\* The runs of zeros that set_ptr0s is called for, in order: the one before the
\* value number r, that after the last one for r = n.
RunStart(list, l, r) == IF r = 0 THEN 1 ELSE High(list, l, r - 1) + 1
RunEnd(list, l, length, r) == IF r = Len(list) THEN length ELSE High(list, l, r)

\* Where the zero number `zero` is, 0 if no run reaches it: r ones come first.
PointerToZero(list, l, length, zero) ==
  LET runs == {r \in 0..Len(list) :
                 /\ RunStart(list, l, r) - r <= zero
                 /\ zero < RunEnd(list, l, length, r) - r}
  IN IF runs = {} THEN 0 ELSE zero + Max(runs)

write(list, universe, params) ==
  LET n == Len(list)
      l == lower_bits(universe, n)
      length == higher_bits_length(universe, n)
      step0 == 2^params.ef_log_sampling0
      step1 == 2^params.ef_log_sampling1
  IN [type |-> "elias_fano", universe |-> universe, n |-> n, lower_bits |-> l,
      higher_bits |-> {High(list, l, i) : i \in 0..(n - 1)},
      end |-> length - 1,
      lows |-> [i \in 0..(n - 1) |-> list[i + 1] % 2^l],
      step0 |-> step0, step1 |-> step1,
      pointers0 |-> [k \in 1..((length - n) \div step0) |->
                       PointerToZero(list, l, length, k * step0)],
      pointers1 |-> [k \in 1..(n \div step1) |->
                       IF k * step1 < n THEN High(list, l, k * step1) ELSE 0]]

pointer(pointers, i) == IF i = 0 THEN 0 ELSE pointers[i]

-----------------------------------------------------------------------------
enumerator(w) ==
  [position |-> w.n, value |-> w.universe,
   high |-> [position |-> 0, buf |-> {}]]

\* The cursor past the last value; the enumerator of the ones stays as it is.
AtEnd(w, e) == [e EXCEPT !.position = w.n, !.value = w.universe]

\* The value number i, when the enumerator of the ones has just returned its one.
ReadAt(w, high, i) ==
  [position |-> i, high |-> high,
   value |-> (high.position - i - 1) * 2^w.lower_bits + w.lows[i]]

\* To the value number i by k calls of next() from `high`.
Reads(w, high, k, i) == ReadAt(w, next_times(w.higher_bits, high, k), i)

\* The loops of next_geq and slow_next_geq: the values from number `from` on are
\* read until one is not below lower_bound, `found` being the numbers of reads
\* after which one is.
ScanFound(w, e, high, from, found) ==
  IF found = {}
    THEN AtEnd(w, [e EXCEPT !.high =
           next_times(w.higher_bits, high, IF from < w.n THEN w.n - from ELSE 0)])
    ELSE Reads(w, high, Min(found), from + Min(found) - 1)

Scan(w, e, high, from, lower_bound) ==
  ScanFound(w, e, high, from,
            {k \in 1..(w.n - from) :
               Reads(w, high, k, from + k - 1).value >= lower_bound})

slow_move(w, e, position) ==
  LET skipped == position - e.position
      near == position > e.position /\ skipped < w.step1
      ptr == position \div w.step1
      start == unary_enumerator(w.higher_bits, pointer(w.pointers1, ptr))
  IN IF position = w.n THEN AtEnd(w, e)
     ELSE Reads(w, skip(w.higher_bits, IF near THEN e.high ELSE start,
                        IF near THEN skipped - 1 ELSE position - ptr * w.step1),
                1, position)

move(w, e, position) ==
  LET skipped == position - e.position
  IN IF position = e.position THEN e
     ELSE IF position > e.position /\ skipped <= linear_scan_threshold
       THEN IF position = w.n THEN AtEnd(w, e)
            ELSE Reads(w, e.high, skipped, position)
       ELSE slow_move(w, e, position)

\* The zeros before the cursor `high` are counted out of the values.
ScanAfterZeros(w, e, high, zeros, lower_bound) ==
  Scan(w, e, high, high.position - zeros, lower_bound)

\* A one that was consumed counts as the first zero from the cursor on.  The call
\* of move(size()) ends past the last value.
slow_next_geq(w, e, lower_bound) ==
  LET high_lower_bound == lower_bound \div 2^w.lower_bits
      high_diff == high_lower_bound - e.value \div 2^w.lower_bits
      near == lower_bound > e.value /\ high_diff < w.step0
      ptr == high_lower_bound \div w.step0
      start == unary_enumerator(w.higher_bits, pointer(w.pointers0, ptr))
  IN IF lower_bound >= w.universe THEN AtEnd(w, e)
     ELSE ScanAfterZeros(w, e,
            skip0(w.higher_bits, IF near THEN e.high ELSE start,
                  IF near THEN high_diff ELSE high_lower_bound - ptr * w.step0),
            high_lower_bound, lower_bound)

\* Mutated form of next_geq: a bound behind the value in hand is looked for
\* after it.
next_geq_forward(w, e, lower_bound) ==
  LET high_diff == lower_bound \div 2^w.lower_bits - e.value \div 2^w.lower_bits
  IN IF lower_bound = e.value THEN e
     ELSE IF high_diff <= linear_scan_threshold
       THEN Scan(w, e, e.high, e.position + 1, lower_bound)
       ELSE slow_next_geq(w, e, lower_bound)

next_geq(w, e, lower_bound) ==
  LET high_diff == lower_bound \div 2^w.lower_bits - e.value \div 2^w.lower_bits
  IN IF lower_bound = e.value THEN e
     ELSE IF lower_bound > e.value /\ high_diff <= linear_scan_threshold
       THEN Scan(w, e, e.high, e.position + 1, lower_bound)
       ELSE slow_next_geq(w, e, lower_bound)

next(w, e) ==
  IF e.position + 1 < w.n
    THEN Reads(w, e.high, 1, e.position + 1)
    ELSE AtEnd(w, e)

prev_value(w, e) ==
  LET before == IF e.position < w.n THEN e.high.position - 1 ELSE w.end
      prev_pos == e.position - 1
  IN IF e.position = 0 THEN 0
     ELSE (predecessor1(w.higher_bits, before) - prev_pos - 1) * 2^w.lower_bits
            + w.lows[prev_pos]
=============================================================================
