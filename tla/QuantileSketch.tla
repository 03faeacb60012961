--------------------------- MODULE QuantileSketch ---------------------------
(***************************************************************************)
(* The quantile sketch behind every Quantile metric (Metrics.h) and behind *)
(* the adaptive sampling of the handlers: kll_sketch with its levels, its  *)
(* compactions and its lazily built sorted view.                           *)
(*                                                                         *)
(* The items buffer and its level boundaries are the sequence levels:      *)
(* levels[h + 1] holds the items of level h, each standing for 2^h values. *)
(* The free space at the bottom of the buffer is size less what is held.   *)
(* A compaction keeps the items at the odd or at the even positions; the   *)
(* random bit that says which is a choice of the action.                   *)
(*                                                                         *)
(* Two histories ride in the record of a sketch: truth, how often each     *)
(* value was really seen, and err, 2^h for each compaction of level h.     *)
(***************************************************************************)
EXTENDS Integers, Sequences, SequencesExt, FiniteSetsExt, Functions

CONSTANTS
    Values,    \* the values that are measured: a set of naturals
    K,         \* k of the sketch (DEFAULT_K is 200)
    M,         \* m, the least capacity of a level (DEFAULT_M is 8)
    MaxValues  \* bound: values in the two sketches together

VARIABLES
    sketch,    \* the sketch of the metric
    other,     \* a second sketch, that is merged into it
    view,      \* sorted_view_ of sketch: None or a sequence of pairs
    answer     \* what the last get_quantiles returned; None after a change

vars == <<sketch, other, view, answer>>

None == <<>>

Less(a, b) == a < b

\* round(k * (2/3)^depth), and never less than m.
LevelCapacity(levels, h) ==
    LET depth == levels - h - 1
        rounded == ((2 * K * 2^depth) \div 3^depth + 1) \div 2
    IN  Max({M, rounded})

TotalCapacity(levels) ==
    FoldSet(LAMBDA h, sum : sum + LevelCapacity(levels, h), 0, 0..(levels - 1))

Held(levels) == FoldSeq(LAMBDA level, sum : sum + Len(level), 0, levels)

Weight(levels) ==
    FoldSet(LAMBDA h, sum : sum + 2^(h - 1) * Len(levels[h]), 0, DOMAIN levels)

NewSketch ==
    [levels |-> << <<>> >>, sorted |-> FALSE, size |-> K, n |-> 0,
     least |-> 0, most |-> 0, truth |-> [v \in Values |-> 0], err |-> 0]

-----------------------------------------------------------------------------
(* Compaction                                                              *)

Sorted(items) == SortSeq(items, Less)

\* The items at the positions of one parity: randomly_halve_up and
\* randomly_halve_down keep the same two candidates, in order.
Halve(items, bit) == [i \in 1..(Len(items) \div 2) |-> items[2 * i - bit]]

\* Mutant of Compact: level zero is halved in the order of arrival.
CompactUnsorted(levels, h, isSorted, bit) ==
    LET raw  == levels[h + 1]
        left == IF Len(raw) % 2 = 1 THEN <<raw[1]>> ELSE <<>>
        half == Halve(SubSeq(raw, Len(left) + 1, Len(raw)), bit)
    IN  [levels EXCEPT ![h + 1] = left, ![h + 2] = Sorted(@ \o half)]

\* Level h + 1 takes half of level h; an odd item, the first, is left over.
Compact(levels, h, isSorted, bit) ==
    LET raw  == levels[h + 1]
        left == IF Len(raw) % 2 = 1 THEN <<raw[1]>> ELSE <<>>
        pair == SubSeq(raw, Len(left) + 1, Len(raw))
        half == Halve(IF h = 0 /\ ~isSorted THEN Sorted(pair) ELSE pair, bit)
    IN  [levels EXCEPT ![h + 1] = left, ![h + 2] = Sorted(@ \o half)]

\* The lowest level that is at its capacity.
LevelToCompact(levels) ==
    Min({h \in 0..(Len(levels) - 1) :
            Len(levels[h + 1]) >= LevelCapacity(Len(levels), h)})

\* The buffer is full: one level is compacted, after a new top level has been
\* added when it is the top one.
CompressWhileUpdating(s, bit) ==
    LET h     == LevelToCompact(s.levels)
        isTop == h = Len(s.levels) - 1
    IN  [s EXCEPT
            !.levels = Compact(IF isTop THEN Append(@, <<>>) ELSE @, h, s.sorted, bit),
            !.size = @ + IF isTop THEN LevelCapacity(Len(s.levels) + 1, 0) ELSE 0,
            !.err = @ + 2^h]

\* Mutant of InternalUpdate: level zero is still taken for sorted.
InternalUpdateSorted(s, v, bit) ==
    LET room == IF Held(s.levels) = s.size THEN CompressWhileUpdating(s, bit) ELSE s
    IN  [room EXCEPT !.levels[1] = <<v>> \o @, !.n = @ + 1]

\* A value joins level zero, at its low end.
InternalUpdate(s, v, bit) ==
    LET room == IF Held(s.levels) = s.size THEN CompressWhileUpdating(s, bit) ELSE s
    IN  [room EXCEPT !.levels[1] = <<v>> \o @, !.n = @ + 1, !.sorted = FALSE]

Seen(s, v) ==
    [s EXCEPT !.least = IF s.n = 0 THEN v ELSE Min({@, v}),
              !.most = IF s.n = 0 THEN v ELSE Max({@, v}),
              !.truth[v] = @ + 1]

-----------------------------------------------------------------------------
(* Merging                                                                 *)

\* general_compress: from the lowest level up, a level that is at its capacity
\* is compacted for as long as the items do not fit; target is what fits.
RECURSIVE GeneralCompress(_, _, _, _)
GeneralCompress(s, h, target, bits) ==
    IF h = Len(s.levels) THEN [s EXCEPT !.size = target]
    ELSE IF Held(s.levels) < target
            \/ Len(s.levels[h + 1]) < LevelCapacity(Len(s.levels), h)
    THEN GeneralCompress(s, h + 1, target, bits)
    ELSE LET isTop == h = Len(s.levels) - 1
             grown == IF isTop THEN Append(s.levels, <<>>) ELSE s.levels
         IN  GeneralCompress(
                [s EXCEPT !.levels = Compact(grown, h, s.sorted, bits[h % 2]),
                          !.err = @ + 2^h],
                h + 1,
                target + IF isTop THEN LevelCapacity(Len(grown), 0) ELSE 0,
                bits)

SafeLevel(levels, h) == IF h <= Len(levels) THEN levels[h] ELSE <<>>

MergeHigherLevels(s, o, bits) ==
    LET most == Max({Len(s.levels), Len(o.levels)})
        work == [h \in 1..most |->
                    IF h = 1 THEN s.levels[1]
                    ELSE Sorted(SafeLevel(s.levels, h) \o SafeLevel(o.levels, h))]
    IN  GeneralCompress([s EXCEPT !.levels = work], 0, TotalCapacity(most), bits)

\* merge: the other's level zero is inserted item by item, its higher levels
\* are merged level by level.
Merged(s, o, bits) ==
    LET zero  == FoldLeft(LAMBDA acc, v : InternalUpdate(acc, v, bits[0]), s, o.levels[1])
        whole == IF Len(o.levels) >= 2 THEN MergeHigherLevels(zero, o, bits) ELSE zero
    IN  IF o.n = 0 THEN s
        ELSE [whole EXCEPT
                !.n = s.n + o.n,
                !.least = IF s.n = 0 THEN o.least ELSE Min({s.least, o.least}),
                !.most = IF s.n = 0 THEN o.most ELSE Max({s.most, o.most}),
                !.truth = [v \in Values |-> s.truth[v] + o.truth[v]],
                !.err = @ + o.err]

-----------------------------------------------------------------------------
(* The sorted view and its quantiles                                       *)

Heavier(a, b) == a[1] < b[1]

\* Every item with its weight, in order; then the weights are added up.
Cumulative(pairs) ==
    [i \in DOMAIN pairs |->
        <<pairs[i][1],
          FoldSeq(LAMBDA p, sum : sum + p[2], 0, SubSeq(pairs, 1, i))>>]

SortedView(levels) ==
    LET weighted == [h \in DOMAIN levels |->
                        [i \in DOMAIN levels[h] |-> <<levels[h][i], 2^(h - 1)>>]]
    IN  Cumulative(SortSeq(FlattenSeq(weighted), Heavier))

\* p50, p90, p95, p99 of the table QUANTILES, as fractions.
QUANTILES == << <<50, 100>>, <<90, 100>>, <<95, 100>>, <<99, 100>> >>

WantedWeight(rank, n) == (rank[1] * n + rank[2] - 1) \div rank[2]

\* The first item whose cumulative weight reaches rank * n, rounded up.
QuantileOf(sorted, n, rank) ==
    LET reach == {i \in DOMAIN sorted : sorted[i][2] >= WantedWeight(rank, n)}
    IN  IF reach = {} THEN sorted[Len(sorted)][1] ELSE sorted[Min(reach)][1]

-----------------------------------------------------------------------------
Init ==
    /\ sketch = NewSketch
    /\ other = NewSketch
    /\ view = None
    /\ answer = None

\* The second sketch is filled first; it belongs to another bucket.
UpdateOther(v, bit) ==
    /\ sketch.n = 0
    /\ other.n < MaxValues
    /\ other' = InternalUpdate(Seen(other, v), v, bit)
    /\ UNCHANGED <<sketch, view, answer>>

\* Mutant of Update: the sorted view of an earlier export is kept.
UpdateKeepsView(v, bit) ==
    /\ sketch.n + other.n < MaxValues
    /\ sketch' = InternalUpdate(Seen(sketch, v), v, bit)
    /\ answer' = None
    /\ UNCHANGED <<other, view>>

Update(v, bit) ==
    /\ sketch.n + other.n < MaxValues
    /\ sketch' = InternalUpdate(Seen(sketch, v), v, bit)
    /\ view' = None
    /\ answer' = None
    /\ UNCHANGED other

\* Quantile::merge under every aggregate but SUM. The other bucket is done with.
Merge(bits) ==
    /\ other.n > 0
    /\ sketch' = Merged(sketch, other, bits)
    /\ other' = NewSketch
    /\ view' = None
    /\ answer' = None

\* get_quantiles: level zero is sorted in place and the view kept for later.
GetQuantiles ==
    /\ sketch.n > 0
    /\ LET now == IF view = None THEN SortedView(sketch.levels) ELSE view
       IN  /\ view' = now
           /\ answer' = [q \in DOMAIN QUANTILES |-> QuantileOf(now, sketch.n, QUANTILES[q])]
           /\ sketch' = IF view = None /\ ~sketch.sorted
                        THEN [sketch EXCEPT !.levels[1] = Sorted(@), !.sorted = TRUE]
                        ELSE sketch
    /\ UNCHANGED other

Next ==
    \/ \E v \in Values, bit \in {0, 1} : UpdateOther(v, bit)
    \/ \E v \in Values, bit \in {0, 1} : Update(v, bit)
    \/ \E bits \in [{0, 1} -> {0, 1}] : Merge(bits)
    \/ GetQuantiles

Spec == Init /\ [][Next]_vars

-----------------------------------------------------------------------------
UbOnNumLevels(n) == IF n = 0 THEN 1 ELSE 1 + Max({b \in 0..n : 2^b <= n})

\* None of the sketch's own consistency checks ("capacity calculation error",
\* "current capacity mismatch", "levels must be sorted", "merge error", "Total
\* weight does not match N") can ever throw out of an update, a merge or an
\* export: the weights of the retained items add up to the values seen, the
\* items fit a buffer of exactly the capacity of the levels, and every level a
\* compaction will treat as sorted is.
NeverInconsistent ==
    \A s \in {sketch, other} :
        /\ Weight(s.levels) = s.n
        /\ s.size = TotalCapacity(Len(s.levels))
        /\ Held(s.levels) <= s.size
        /\ Len(s.levels) <= UbOnNumLevels(s.n)
        /\ \A h \in DOMAIN s.levels : h > 1 \/ s.sorted => IsSorted(s.levels[h], <=)

RankIn(levels, v) ==
    FoldSet(LAMBDA h, sum :
                sum + 2^(h - 1) * Cardinality({i \in DOMAIN levels[h] : levels[h][i] <= v}),
            0, DOMAIN levels)

RankInTruth(truth, v) ==
    FoldSet(LAMBDA w, sum : sum + IF w <= v THEN truth[w] ELSE 0, 0, Values)

\* Each compaction of a level shifts the rank of a value by at most the weight
\* of that level, however updates and merges are interleaved and whatever the
\* random bits are: an estimated rank is never further from the real one than
\* the compactions explain, and the least and greatest item stay exact.
RanksWithinError ==
    \A s \in {sketch, other} :
        /\ \A v \in Values :
              /\ RankIn(s.levels, v) - RankInTruth(s.truth, v) <= s.err
              /\ RankInTruth(s.truth, v) - RankIn(s.levels, v) <= s.err
        /\ s.n > 0 => /\ s.least = Min({v \in Values : s.truth[v] > 0})
                      /\ s.most = Max({v \in Values : s.truth[v] > 0})

\* The percentiles an export shows are those of the values seen so far, up to
\* that error: the view built lazily for one export never outlives an update or
\* a merge, and its cumulative weights place each quantile where it belongs.
QuantilesWithinError ==
    answer # None =>
        \A q \in DOMAIN QUANTILES :
            LET wanted == WantedWeight(QUANTILES[q], sketch.n)
            IN  /\ RankInTruth(sketch.truth, answer[q]) >= wanted - sketch.err
                /\ RankInTruth(sketch.truth, answer[q] - 1) < wanted + sketch.err
=============================================================================
