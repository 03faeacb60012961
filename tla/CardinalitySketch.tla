-------------------------- MODULE CardinalitySketch -------------------------
(***************************************************************************)
(* The cpc sketch of distinct values, and the table of coupons under it.   *)
(* The sections are specified apart.                                       *)
(***************************************************************************)
EXTENDS Integers, FiniteSets, FiniteSetsExt, SequencesExt

-----------------------------------------------------------------------------
(***************************************************************************)
(* The sketch behind a Cardinality metric (src/src/Metrics.h): the         *)
(* compressed probabilistic counting of                                    *)
(* src/3rd/datasketches/cpc/include.  A value is hashed to a coupon, a row *)
(* and a column.  The sketch is a matrix of the coupons seen, kept in      *)
(* three ways: first as a table of coupons; then as a window of Width      *)
(* columns, with a table of the surprises outside it, coupons to its right *)
(* that were seen and coupons to its left that were not; and the window    *)
(* moves right as coupons are collected.  A merge goes through a cpc_union *)
(* that keeps a small sketch or the whole matrix.                          *)
(*                                                                         *)
(* The sizes of the code, 64 columns, a window of 8 and thresholds of      *)
(* 3K/32 and 19K/8, are constants here.  Every sketch of pktvisor has the  *)
(* same number of rows, so the union never reduces it.                     *)
(***************************************************************************)
CONSTANTS
    Rows, Columns,   \* the matrix: a set of rows, a number of columns
    Width,           \* columns in the window: 8
    SparseEnd,       \* coupons at which the window begins: 3K/32
    Low,             \* 19K/8: the window is at (C - Low) / K
    Refresh,         \* moves of the window between two refreshes of kxp: 8
    Streams          \* what other sketches, to be merged, have seen

VARIABLES
    sketch,          \* the sketch of the metric
    truth,           \* history: every coupon it should know of
    merges           \* history: the streams that were merged

sketchVars == <<sketch, truth, merges>>

K == Cardinality(Rows)
Coupons == Rows \X (0..(Columns - 1))
MaxOffset == Columns - Width

NewSketch ==
    [n |-> 0, table |-> {}, windowed |-> FALSE, window |-> [r \in Rows |-> {}],
     offset |-> 0, first |-> 0, kxp |-> K * 2^Columns, merged |-> FALSE]

CorrectOffset(n) == IF n < Low THEN 0 ELSE (n - Low) \div K

\* Nothing tells the hybrid flavor of the code, below K/2, from the pinned one.
Flavor(n) ==
    CASE n = 0 -> "empty"
      [] n > 0 /\ n < SparseEnd -> "sparse"
      [] n >= SparseEnd /\ n < Low + K -> "pinned"
      [] OTHER -> "sliding"

-----------------------------------------------------------------------------
(* The matrix, and its window and surprises                                *)

\* Ones to the left of the window, the window's bits, and the surprises
\* flipped.
BuildBitMatrix(s) ==
    LET early == {c \in Coupons : c[2] < s.offset}
        bits == {c \in Coupons : c[2] - s.offset \in s.window[c[1]]}
        rows == early \cup (IF s.windowed THEN bits ELSE {})
    IN  IF s.n = 0 THEN early
        ELSE (rows \ s.table) \cup (s.table \ rows)

WindowOf(matrix, offset) ==
    [r \in Rows |-> {b \in 0..(Width - 1) : <<r, offset + b>> \in matrix}]

SurprisesOf(matrix, offset) ==
    {c \in matrix : c[2] >= offset + Width} \cup {c \in Coupons \ matrix : c[2] < offset}

\* Mutant of FirstInteresting: not limited to the offset.
FirstInterestingLate(surprises, offset) ==
    Min({c[2] : c \in surprises} \cup {Columns})

\* Columns before this one hold every coupon.
FirstInteresting(surprises, offset) ==
    Min({c[2] : c \in surprises} \cup {offset})

\* The chance of a column, in units of 2^-Columns.
ColumnChance(col) == 2^(Columns - col - 1)

\* The chance that the next value is a new coupon: the mass of the unset ones,
\* which the code looks up byte by byte.
Chance(matrix) ==
    FoldSet(LAMBDA c, sum : sum + ColumnChance(c[2]), 0, Coupons \ matrix)

-----------------------------------------------------------------------------
(* Updates                                                                 *)

\* Mutant of UpdateHip: the chance of the column before.
UpdateHipBefore(s, coupon) ==
    [s EXCEPT !.n = @ + 1, !.kxp = @ - 2 * ColumnChance(coupon[2])]

UpdateHip(s, coupon) ==
    [s EXCEPT !.n = @ + 1, !.kxp = @ - ColumnChance(coupon[2])]

\* The coupons of the first Width columns become the window.
PromoteSparseToWindowed(s) ==
    [s EXCEPT !.windowed = TRUE,
              !.window = WindowOf(s.table, 0),
              !.table = {c \in @ : c[2] >= Width}]

\* Everything is made anew from the matrix.
MoveWindow(s) ==
    LET matrix == BuildBitMatrix(s)
        new == s.offset + 1
        surprises == SurprisesOf(matrix, new)
    IN  [s EXCEPT !.offset = new, !.window = WindowOf(matrix, new), !.table = surprises,
                  !.first = FirstInteresting(surprises, new),
                  !.kxp = IF new % Refresh = 0 THEN Chance(matrix) ELSE @]

UpdateSparse(s, coupon) ==
    LET t == UpdateHip([s EXCEPT !.table = @ \cup {coupon}], coupon)
    IN  IF coupon \in s.table THEN s
        ELSE IF t.n >= SparseEnd THEN PromoteSparseToWindowed(t) ELSE t

\* To the left of the window a coupon is new when its surprise is there to be
\* deleted.
Novel(s, coupon) ==
    CASE coupon[2] < s.offset -> coupon \in s.table
      [] coupon[2] >= s.offset + Width -> coupon \notin s.table
      [] OTHER -> coupon[2] - s.offset \notin s.window[coupon[1]]

Noted(s, coupon) ==
    CASE coupon[2] < s.offset -> [s EXCEPT !.table = @ \ {coupon}]
      [] coupon[2] >= s.offset + Width -> [s EXCEPT !.table = @ \cup {coupon}]
      [] OTHER -> [s EXCEPT !.window[coupon[1]] = @ \cup {coupon[2] - s.offset}]

UpdateWindowed(s, coupon) ==
    LET t == UpdateHip(Noted(s, coupon), coupon)
    IN  IF ~Novel(s, coupon) THEN s
        ELSE IF t.n >= Low + K * (s.offset + 1) THEN MoveWindow(t) ELSE t

RowColUpdate(s, coupon) ==
    IF coupon[2] < s.first THEN s
    ELSE IF s.windowed THEN UpdateWindowed(s, coupon) ELSE UpdateSparse(s, coupon)

-----------------------------------------------------------------------------
(* The union: a sparse sketch, or the matrix once one is past that         *)

NewUnion == [matrix |-> FALSE, accumulator |-> NewSketch, bits |-> {}]

SwitchToBitMatrix(u) ==
    [matrix |-> TRUE, accumulator |-> NewSketch, bits |-> BuildBitMatrix(u.accumulator)]

WalkTable(u, table) ==
    LET a == FoldLeft(RowColUpdate, u.accumulator, SetToSeq(table))
        v == [u EXCEPT !.accumulator = a]
    IN  IF Flavor(a.n) \in {"empty", "sparse"} THEN v ELSE SwitchToBitMatrix(v)

OrWindow(s) ==
    {c \in Coupons : c[2] - s.offset \in s.window[c[1]]}

InternalUpdate(u, s) ==
    CASE Flavor(s.n) = "empty" -> u
      [] Flavor(s.n) = "sparse" /\ ~u.matrix ->
            IF u.accumulator.n = 0 THEN [u EXCEPT !.accumulator = s] ELSE WalkTable(u, s.table)
      [] Flavor(s.n) = "sparse" /\ u.matrix -> [u EXCEPT !.bits = @ \cup s.table]
      [] OTHER ->
            LET v == IF u.matrix THEN u ELSE SwitchToBitMatrix(u)
            IN  [v EXCEPT !.bits = @ \cup (IF Flavor(s.n) = "sliding" THEN BuildBitMatrix(s)
                                            ELSE OrWindow(s) \cup s.table)]

FromAccumulator(u) ==
    IF u.accumulator.n = 0 THEN NewSketch ELSE [u.accumulator EXCEPT !.merged = TRUE]

\* Mutant of FromBitMatrix: the window stays at the first column.
FromBitMatrixUnmoved(u) ==
    [n |-> Cardinality(u.bits), table |-> SurprisesOf(u.bits, 0), windowed |-> TRUE,
     window |-> WindowOf(u.bits, 0), offset |-> 0, first |-> 0, kxp |-> 0, merged |-> TRUE]

FromBitMatrix(u) ==
    LET n == Cardinality(u.bits)
        offset == CorrectOffset(n)
        surprises == SurprisesOf(u.bits, offset)
    IN  [n |-> n, table |-> surprises, windowed |-> TRUE, window |-> WindowOf(u.bits, offset),
         offset |-> offset, first |-> FirstInteresting(surprises, offset), kxp |-> 0,
         merged |-> TRUE]

GetResult(u) == IF u.matrix THEN FromBitMatrix(u) ELSE FromAccumulator(u)

-----------------------------------------------------------------------------
SketchInit ==
    /\ sketch = NewSketch
    /\ truth = {}
    /\ merges = {}

\* Bound: the window never leaves the matrix.
Fits(seen) == CorrectOffset(Cardinality(seen)) <= MaxOffset

\* A bucket that took another one in is not written any more.
Update(coupon) ==
    /\ merges = {}
    /\ Fits(truth \cup {coupon})
    /\ sketch' = RowColUpdate(sketch, coupon)
    /\ truth' = truth \cup {coupon}
    /\ UNCHANGED merges

\* Cardinality::merge: through a union of both.
Merge(stream) ==
    /\ stream \notin merges
    /\ Fits(truth \cup ToSet(stream))
    /\ LET other == FoldLeft(RowColUpdate, NewSketch, stream)
       IN  sketch' = GetResult(InternalUpdate(InternalUpdate(NewUnion, sketch), other))
    /\ truth' = truth \cup ToSet(stream)
    /\ merges' = merges \cup {stream}

SketchNext ==
    \/ \E coupon \in Coupons : Update(coupon)
    \/ \E stream \in Streams : Merge(stream)

SketchSpec == SketchInit /\ [][SketchNext]_sketchVars

-----------------------------------------------------------------------------
\* The sketch knows exactly the coupons of the values it has seen and of the
\* sketches merged into it, and counts them once: no coupon is lost to the
\* columns that updates skip as complete, to a move of the window, to the
\* promotion from the table or to a union of two representations.
CouponsKept ==
    /\ BuildBitMatrix(sketch) = truth
    /\ sketch.n = Cardinality(truth)

\* None of the sketch's own checks ("wrong window offset", "c32pre >= 3 * k",
\* "c8pre is wrong", "new_offset is wrong", "wrong flavor") can throw out of an
\* update or a merge: the representation, the place of the window and the
\* number of coupons always go together.
ChecksHold ==
    /\ sketch.windowed <=> Flavor(sketch.n) \notin {"empty", "sparse"}
    /\ sketch.offset = CorrectOffset(sketch.n)
    /\ sketch.table \cap {c \in Coupons : sketch.windowed
                            /\ c[2] \in sketch.offset..(sketch.offset + Width - 1)} = {}

\* The register that weighs a new coupon in the estimate stays the chance of
\* seeing one, across the moves that make it anew from the matrix; they differ
\* by the mass beyond the last column, which the refresh leaves out.
ChanceTracked ==
    merges = {} => sketch.kxp - Chance(truth) \in {0, K}

-----------------------------------------------------------------------------
(***************************************************************************)
(* The u32_table of the cardinality sketch                                 *)
(* (src/3rd/datasketches/cpc/include/u32_table_impl.hpp): a set of         *)
(* numbers kept by open addressing.  The high bits of an item say where    *)
(* probing starts; the table doubles above three quarters of its size,     *)
(* halves below one quarter, and a deletion puts the rest of the cluster   *)
(* back in.  CardinalitySketch uses it as the set it is shown to be here.  *)
(***************************************************************************)
CONSTANTS
    Items,        \* the numbers that are kept
    ValidBits,    \* num_valid_bits
    LgLeast,      \* the least lg_size: 2
    MaxItems      \* bound: items kept at a time

VARIABLES
    slots,        \* the table, slot by slot
    lg,           \* lg_size
    num,          \* num_items
    members,      \* history: the items that were inserted and not deleted
    answer        \* history: what the last call returned, and what it should have

couponsVars == <<slots, lg, num, members, answer>>

None == -1        \* UINT32_MAX
SizeOf(l) == 2^l
EmptySlots(l) == [i \in 0..(SizeOf(l) - 1) |-> None]

\* The first slot, from the one the high bits name, that holds the item or
\* nothing.
Lookup(s, l, item) ==
    LET home == item \div 2^(ValidBits - l)
        At(d) == (home + d) % SizeOf(l)
    IN  At(CHOOSE d \in 0..(SizeOf(l) - 1) :
              /\ s[At(d)] \in {item, None}
              /\ \A e \in 0..(d - 1) : s[At(e)] \notin {item, None})

MustInsert(s, l, item) == [s EXCEPT ![Lookup(s, l, item)] = item]

Rebuild(s, l, newLg) ==
    FoldLeft(LAMBDA t, i : IF s[i] = None THEN t ELSE MustInsert(t, newLg, s[i]),
             EmptySlots(newLg), [i \in 1..SizeOf(l) |-> i - 1])

\* The slots of the cluster behind a freed slot, in order.
ClusterAfter(s, l, index) ==
    LET At(d) == (index + d) % SizeOf(l)
        length == Min({d \in 1..SizeOf(l) : s[At(d)] = None}) - 1
    IN  [d \in 1..length |-> At(d)]

\* Mutant of Reinserted: the cluster stays where it is.
ReinsertedNone(s, l, index) == s

\* What follows the freed slot is taken out and inserted again, one by one.
Reinserted(s, l, index) ==
    FoldLeft(LAMBDA t, i : MustInsert([t EXCEPT ![i] = None], l, t[i]),
             s, ClusterAfter(s, l, index))

----------------------------------------------------------------------------
CouponsInit ==
    /\ slots = EmptySlots(LgLeast)
    /\ lg = LgLeast
    /\ num = 0
    /\ members = {}
    /\ answer = <<TRUE, TRUE>>

MaybeInsert(item) ==
    LET index == Lookup(slots, lg, item)
        novel == slots[index] # item
        filled == [slots EXCEPT ![index] = item]
        grows == 4 * (num + 1) > 3 * SizeOf(lg)
    IN  /\ Cardinality(members) < MaxItems \/ item \in members
        /\ answer' = <<novel, item \notin members>>
        /\ members' = members \cup {item}
        /\ IF novel
             THEN /\ num' = num + 1
                  /\ lg' = IF grows THEN lg + 1 ELSE lg
                  /\ slots' = IF grows THEN Rebuild(filled, lg, lg + 1) ELSE filled
             ELSE UNCHANGED <<slots, lg, num>>

MaybeDelete(item) ==
    LET index == Lookup(slots, lg, item)
        found == slots[index] = item
        freed == Reinserted([slots EXCEPT ![index] = None], lg, index)
        shrinks == 4 * (num - 1) < SizeOf(lg) /\ lg > LgLeast
    IN  /\ answer' = <<found, item \in members>>
        /\ members' = members \ {item}
        /\ IF found
             THEN /\ num' = num - 1
                  /\ lg' = IF shrinks THEN lg - 1 ELSE lg
                  /\ slots' = IF shrinks THEN Rebuild(freed, lg, lg - 1) ELSE freed
             ELSE UNCHANGED <<slots, lg, num>>

\* The size stays.
Clear ==
    /\ slots' = EmptySlots(lg)
    /\ num' = 0
    /\ members' = {}
    /\ answer' = <<TRUE, TRUE>>
    /\ UNCHANGED lg

CouponsNext == (\E item \in Items : MaybeInsert(item) \/ MaybeDelete(item)) \/ Clear

CouponsSpec == CouponsInit /\ [][CouponsNext]_couponsVars

----------------------------------------------------------------------------
\* The table is the set it stands for, after any sequence of insertions,
\* deletions and clears: an item is found exactly when it is in, a call says
\* truly whether the item was new or there, no item is in two slots, and a slot
\* is always left empty, so that probing ends, in clusters that wrap around and
\* across growing and shrinking alike.
TableIsSet ==
    /\ answer[1] = answer[2]
    /\ num = Cardinality(members)
    /\ {slots[i] : i \in DOMAIN slots} = members \cup {None}
    /\ Cardinality({i \in DOMAIN slots : slots[i] # None}) = num
    /\ \A item \in members : slots[Lookup(slots, lg, item)] = item
=============================================================================
