---------------------------- MODULE FrequentItems ----------------------------
(***************************************************************************)
(* The table behind TopN (src/src/Metrics.h): the frequent-items sketch    *)
(* and its reverse_purge_hash_map (src/3rd/datasketches/fi/include).  An   *)
(* open-addressing table with linear probing grows to its largest size;    *)
(* then a new key makes it purge: about the median of the counts is taken  *)
(* off every count, keys that reach zero are deleted by shifting their     *)
(* cluster, and the amount is added to the sketch's offset.                *)
(***************************************************************************)
EXTENDS Integers, Sequences, FiniteSets, FiniteSetsExt, SequencesExt, Functions

CONSTANTS
    Items,        \* the keys, numbers from 1
    Hashes,       \* hash functions tried, [Items -> Nat]
    LgStart, LgMax,
    Capacity(_),  \* get_capacity of a table of 2^lg cells
    SampleSize,   \* MAX_SAMPLE_SIZE
    Others,       \* sketches to merge: [count, offset, truth, lost] records
    MaxWeight     \* bound on the updates

VARIABLES
    hash,         \* fmix64(H()(key))
    lg,           \* lg_cur_size_
    table,        \* keys_, values_ and states_, cell by cell
    offset,       \* the sketch's offset
    total,        \* total_weight
    truth,        \* history: how often each item was seen
    lost          \* history: offsets of sketches merged when they tracked nothing

vars == <<hash, lg, table, offset, total, truth, lost>>

Empty == [key |-> 0, value |-> 0, state |-> 0]
NewTable(l) == [c \in 0..(2^l - 1) |-> Empty]
Size(t) == Cardinality(DOMAIN t)

Active(t) == {c \in DOMAIN t : t[c].state > 0}

----------------------------------------------------------------------------
(* reverse_purge_hash_map                                                   *)

\* the number of probes until the key's cell or the first empty one
Probes(t, h, key) ==
    CHOOSE d \in 1..Size(t) :
        LET At(e) == t[(h[key] + e - 1) % Size(t)]
        IN  /\ At(d).state = 0 \/ At(d).key = key
            /\ \A e \in 1..(d - 1) : At(e).state > 0 /\ At(e).key # key

Get(t, h, key) == t[(h[key] + Probes(t, h, key) - 1) % Size(t)].value

\* internal_adjust_or_insert and the placement of the key
Insert(t, h, key, value) ==
    LET d == Probes(t, h, key)
        c == (h[key] + d - 1) % Size(t)
    IN  IF t[c].state > 0 THEN [t EXCEPT ![c].value = @ + value]
        ELSE [t EXCEPT ![c] = [key |-> key, value |-> value, state |-> d]]

\* hash_delete: cells behind the hole move into it when their drift allows
RECURSIVE Shift(_, _, _, _)
Shift(t, hole, probe, drift) ==
    IF t[probe].state = 0 THEN t
    ELSE LET next == (probe + 1) % Size(t)
         IN  IF t[probe].state > drift
               THEN Shift([t EXCEPT ![hole] = [t[probe] EXCEPT !.state = @ - drift],
                                    ![probe] = Empty], probe, next, 1)
               ELSE Shift(t, hole, next, drift + 1)

\* Mutant of HashDelete: the cells behind the hole stay where they are.
HashDeleteOnly(t, c) == [t EXCEPT ![c] = Empty]

HashDelete(t, c) == Shift([t EXCEPT ![c] = Empty], c, (c + 1) % Size(t), 1)

\* Mutant of SubtractAt: a count that stays positive is kept as it is.
SubtractAtFrom(t, c, amount) ==
    IF t[c].state > 0 /\ t[c].value <= amount THEN HashDelete(t, c) ELSE t

\* one cell of subtract_and_keep_positive_only
SubtractAt(t, c, amount) ==
    CASE t[c].state = 0 -> t
      [] t[c].state > 0 /\ t[c].value <= amount -> HashDelete(t, c)
      [] OTHER -> [t EXCEPT ![c].value = @ - amount]

\* from the last empty cell towards the front, then the cells behind it
Subtract(t, amount) ==
    LET first == Max({c \in DOMAIN t : t[c].state = 0})
        order == Reverse([i \in 1..first |-> i - 1])
                 \o Reverse([i \in 1..(Size(t) - first) |-> first + i - 1])
    IN  FoldLeft(LAMBDA u, c : SubtractAt(u, c, amount), t, order)

\* purge: the upper median of the first counts in cell order
Median(t) ==
    LET cells == SetToSortSeq(Active(t), LAMBDA a, b : a < b)
        n == Min({SampleSize, Len(cells)})
        samples == SortSeq([i \in 1..n |-> t[cells[i]].value], LAMBDA a, b : a < b)
    IN  samples[n \div 2 + 1]

Resize(t, h, l) ==
    FoldLeft(LAMBDA u, c : IF t[c].state > 0 THEN Insert(u, h, t[c].key, t[c].value) ELSE u,
             NewTable(l), [i \in 1..Size(t) |-> i - 1])

\* Mutant of AdjustOrInsert: what a purge takes off is not reported.
AdjustOrInsertSilent(r, h, key, value) ==
    LET t == Insert(r.table, h, key, value)
    IN  IF Cardinality(Active(t)) <= Capacity(r.lg) THEN [r EXCEPT !.table = t]
        ELSE IF r.lg < LgMax
               THEN [r EXCEPT !.table = Resize(t, h, r.lg + 1), !.lg = r.lg + 1]
               ELSE [r EXCEPT !.table = Subtract(t, Median(t))]

\* adjust_or_insert: the new table, its size and the amount purged
AdjustOrInsert(r, h, key, value) ==
    LET t == Insert(r.table, h, key, value)
    IN  IF Cardinality(Active(t)) <= Capacity(r.lg)
          \/ Cardinality(Active(t)) = Cardinality(Active(r.table))
          THEN [r EXCEPT !.table = t]
          ELSE IF r.lg < LgMax
                 THEN [r EXCEPT !.table = Resize(t, h, r.lg + 1), !.lg = r.lg + 1]
                 ELSE [r EXCEPT !.table = Subtract(t, Median(t)), !.purged = @ + Median(t)]

----------------------------------------------------------------------------
(* frequent_items_sketch                                                    *)

Init ==
    /\ hash \in Hashes
    /\ lg = LgStart
    /\ table = NewTable(LgStart)
    /\ offset = 0
    /\ total = 0
    /\ truth = [i \in Items |-> 0]
    /\ lost = 0

Current == [table |-> table, lg |-> lg, purged |-> 0]

Become(r) == table' = r.table /\ lg' = r.lg

Update(item) ==
    /\ SumFunction(truth) < MaxWeight
    /\ LET r == AdjustOrInsert(Current, hash, item, 1)
       IN  Become(r) /\ offset' = offset + r.purged
    /\ total' = total + 1
    /\ truth' = [truth EXCEPT ![item] = @ + 1]
    /\ UNCHANGED <<hash, lost>>

\* merge: a sketch without active items is taken for an empty one
Merge(other) ==
    /\ SumFunction(truth) + SumFunction(other.truth) <= MaxWeight
    /\ truth' = [i \in Items |-> truth[i] + other.truth[i]]
    /\ IF \A i \in Items : other.count[i] = 0
         THEN /\ lost' = lost + other.lost + other.offset
              /\ UNCHANGED <<lg, table, offset, total>>
         ELSE /\ \E order \in SetToSeqs({i \in Items : other.count[i] > 0}) :
                    LET r == FoldLeft(LAMBDA q, i : AdjustOrInsert(q, hash, i, other.count[i]),
                                      Current, order)
                    IN  Become(r) /\ offset' = offset + r.purged + other.offset
              /\ total' = total + SumFunction(other.truth)
              /\ lost' = lost + other.lost
    /\ UNCHANGED hash

Next ==
    \/ \E item \in Items : Update(item)
    \/ \E other \in Others : Merge(other)

Spec == Init /\ [][Next]_vars

----------------------------------------------------------------------------
(* Properties                                                               *)

Count == [i \in Items |-> Get(table, hash, i)]

\* Every key in the table is found by probing from its hash, in the cell its
\* state says, and no key is there twice: deletion by shifting and growing
\* leave no unreachable cell behind, also where a cluster wraps around.
ProbingFinds ==
    /\ \A c \in Active(table) :
          /\ (hash[table[c].key] + table[c].state - 1) % Size(table) = c
          /\ \A d \in Active(table) : table[c].key = table[d].key => c = d
          /\ \A e \in 1..(table[c].state - 1) :
                table[(hash[table[c].key] + e - 1) % Size(table)].state > 0
    /\ Cardinality(Active(table)) <= Capacity(lg)

\* The lower bound the sketch reports never exceeds an item's true count, and
\* the upper bound falls short of it by no more than the offsets of sketches
\* merged when they had purged all of their items: is_empty() looks at the
\* active items only, and merge() returns at once for such a sketch.
BoundsEnclose ==
    \A i \in Items : Count[i] <= truth[i] /\ truth[i] <= Count[i] + offset + lost

Bounds == INSTANCE FrequencyBounds
    WITH count <- Count, Weights <- {1}, Tables <- Others

\* The table implements FrequencyBounds: a purge takes one amount off all the
\* counts alike and adds it to the offset; a merge loses no more than the
\* offset gains, unless the other sketch tracks nothing: its offset is dropped.
PurgeIsUniform == Bounds!Spec
=============================================================================
