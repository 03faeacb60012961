--------------------------- MODULE FrequencyBounds --------------------------
(***************************************************************************)
(* What a top-N table keeps to, whatever structure holds it                *)
(* (src/3rd/datasketches/fi/include/frequent_items_sketch.hpp): a count    *)
(* for each item that is never too high, and an offset that says how far   *)
(* below the truth it may be.  The one thing the offset does not cover is  *)
(* a merged table that tracked no item any more: merge() returns at once   *)
(* for it, and what that table had purged is lost.  FrequentItems, with    *)
(* its open-addressing table, implements this specification.               *)
(***************************************************************************)
EXTENDS Integers, TLAPS

CONSTANTS
    Items,
    Weights,      \* weights of one update
    Tables        \* tables that may be merged: [count, offset, truth, lost] records

VARIABLES
    count,        \* the count kept for each item; 0 when it is not tracked
    offset,       \* the bound on what the counts leave out
    truth,        \* history: how often each item was really seen
    lost          \* history: the offsets of tables merged when they were empty

vars == <<count, offset, truth, lost>>

Less(n, m) == IF n > m THEN n - m ELSE 0

Init ==
    /\ count = [i \in Items |-> 0]
    /\ offset = 0
    /\ truth = [i \in Items |-> 0]
    /\ lost = 0

\* the same amount, 0 when the table has room, is taken off every count
Update(item, weight) ==
    /\ truth' = [truth EXCEPT ![item] = @ + weight]
    /\ offset' \in Nat /\ offset' >= offset
    /\ count' = [i \in Items |->
          Less(count[i] + (IF i = item THEN weight ELSE 0), offset' - offset)]
    /\ UNCHANGED lost

Encloses(t) ==
    /\ t.count \in [Items -> Nat] /\ t.truth \in [Items -> Nat]
    /\ t.offset \in Nat /\ t.lost \in Nat
    /\ \A i \in Items : t.count[i] <= t.truth[i] /\ t.truth[i] <= t.count[i] + t.offset + t.lost

\* is_empty(): no item is tracked, whatever was purged before
Emptied(t) == \A i \in Items : t.count[i] = 0

\* Another table's counts are added, and its offset; no count loses more on
\* the way than the offset gains beyond that.  merge() returns at once when
\* the other table tracks nothing, and its offset is dropped.
Merge(t) ==
    /\ Encloses(t)
    /\ truth' = [i \in Items |-> truth[i] + t.truth[i]]
    /\ \/ /\ Emptied(t)
          /\ lost' = lost + t.lost + t.offset
          /\ UNCHANGED <<count, offset>>
       \/ /\ ~Emptied(t)
          /\ lost' = lost + t.lost
          /\ offset' \in Nat /\ offset' >= offset + t.offset
          /\ count' \in [Items -> Nat]
          /\ \A i \in Items :
                /\ count'[i] <= count[i] + t.count[i]
                /\ count[i] + t.count[i] <= count'[i] + (offset' - offset - t.offset)

Next ==
    \/ \E item \in Items, weight \in Weights : Update(item, weight)
    \/ \E t \in Tables : Merge(t)

Spec == Init /\ [][Next]_vars

\* Counts, offset and what was lost are natural numbers.
TypeOK ==
    /\ count \in [Items -> Nat]
    /\ offset \in Nat
    /\ truth \in [Items -> Nat]
    /\ lost \in Nat

\* get_lower_bound never exceeds the real frequency, and get_upper_bound falls
\* short of it by no more than the offsets of tables merged when empty.
EnclosedUpToLost ==
    \A i \in Items : count[i] <= truth[i] /\ truth[i] <= count[i] + offset + lost

\* What frequent_items_sketch.hpp says of get_lower_bound and get_upper_bound:
\* they enclose the real frequency.
Enclosed == \A i \in Items : count[i] <= truth[i] /\ truth[i] <= count[i] + offset

-----------------------------------------------------------------------------
(***************************************************************************)
(* The bounds a top-N table gives, for any set of items, any weights, any  *)
(* purges, and any tables merged.                                          *)
(***************************************************************************)
\* An empty table is exact.
LEMMA EnclosedInit == Init => TypeOK /\ EnclosedUpToLost /\ lost = 0
BY DEF Init, TypeOK, EnclosedUpToLost

\* An update adds to the item and then takes the same amount off every count,
\* and the offset grows by that amount.
LEMMA EnclosedUpdate ==
    ASSUME Weights \subseteq Nat, TypeOK, EnclosedUpToLost,
           NEW item \in Items, NEW weight \in Weights, Update(item, weight)
    PROVE  (TypeOK /\ EnclosedUpToLost)' /\ lost' = lost
<1> DEFINE extra(i) == IF i = item THEN weight ELSE 0
<1>1. /\ offset \in Nat /\ offset' \in Nat /\ offset' >= offset /\ weight \in Nat
      /\ lost \in Nat /\ lost' = lost
  BY DEF Update, TypeOK
<1>2. ASSUME NEW i \in Items
      PROVE  /\ count[i] \in Nat /\ truth[i] \in Nat /\ extra(i) \in Nat
             /\ truth'[i] = truth[i] + extra(i)
             /\ count'[i] = Less(count[i] + extra(i), offset' - offset)
  BY <1>1 DEF Update, TypeOK
<1> HIDE DEF extra
<1>3. ASSUME NEW i \in Items
      PROVE  count'[i] \in Nat /\ truth'[i] \in Nat
  BY <1>1, <1>2 DEF Less
<1>4. TypeOK'
  BY <1>1, <1>3 DEF Update, TypeOK
<1>5. ASSUME NEW i \in Items
      PROVE  count'[i] <= truth'[i] /\ truth'[i] <= count'[i] + offset' + lost'
  <2>1. count[i] <= truth[i] /\ truth[i] <= count[i] + offset + lost
    BY DEF EnclosedUpToLost
  <2> QED
    BY <1>1, <1>2, <2>1 DEF Less
<1> QED
  BY <1>1, <1>4, <1>5 DEF EnclosedUpToLost

\* A merge adds counts, offsets and truths; what it leaves out of the offset
\* is what the other table had purged when that table was empty.
LEMMA EnclosedMerge ==
    ASSUME TypeOK, EnclosedUpToLost, NEW t \in Tables, Merge(t)
    PROVE  (TypeOK /\ EnclosedUpToLost)'
<1>1. /\ offset \in Nat /\ t.offset \in Nat /\ lost \in Nat /\ t.lost \in Nat
  BY DEF Merge, Encloses, TypeOK
<1>2. ASSUME NEW i \in Items
      PROVE  /\ count[i] \in Nat /\ truth[i] \in Nat /\ t.count[i] \in Nat /\ t.truth[i] \in Nat
             /\ truth'[i] = truth[i] + t.truth[i]
             /\ t.count[i] <= t.truth[i] /\ t.truth[i] <= t.count[i] + t.offset + t.lost
             /\ count[i] <= truth[i] /\ truth[i] <= count[i] + offset + lost
  BY DEF Merge, Encloses, TypeOK, EnclosedUpToLost
<1>3. truth' \in [Items -> Nat]
  BY <1>2 DEF Merge
<1>4. CASE Emptied(t) /\ lost' = lost + t.lost + t.offset /\ UNCHANGED <<count, offset>>
  <2>1. TypeOK'
    BY <1>1, <1>3, <1>4 DEF TypeOK
  <2>2. ASSUME NEW i \in Items
        PROVE  count'[i] <= truth'[i] /\ truth'[i] <= count'[i] + offset' + lost'
    BY <1>1, <1>2, <1>4 DEF Emptied
  <2> QED
    BY <2>1, <2>2 DEF EnclosedUpToLost
<1>5. CASE /\ lost' = lost + t.lost
           /\ offset' \in Nat /\ offset' >= offset + t.offset
           /\ count' \in [Items -> Nat]
           /\ \A i \in Items :
                 /\ count'[i] <= count[i] + t.count[i]
                 /\ count[i] + t.count[i] <= count'[i] + (offset' - offset - t.offset)
  <2>1. TypeOK'
    BY <1>1, <1>3, <1>5 DEF TypeOK
  <2>2. ASSUME NEW i \in Items
        PROVE  count'[i] <= truth'[i] /\ truth'[i] <= count'[i] + offset' + lost'
    <3>1. /\ count'[i] \in Nat /\ count'[i] <= count[i] + t.count[i]
          /\ count[i] + t.count[i] <= count'[i] + (offset' - offset - t.offset)
      BY <1>5
    <3> QED
      BY <1>1, <1>2, <1>5, <3>1
  <2> QED
    BY <2>1, <2>2 DEF EnclosedUpToLost
<1> QED
  BY <1>4, <1>5 DEF Merge

\* After any updates, purges and merges the lower bound of a top-N table is
\* right for every item, and the upper bound falls short of the real frequency
\* by no more than what tables merged when they were empty had purged.
THEOREM BoundsEncloseUpToLost ==
    ASSUME Weights \subseteq Nat
    PROVE  Spec => []EnclosedUpToLost
<1>1. TypeOK /\ EnclosedUpToLost /\ [Next]_vars => (TypeOK /\ EnclosedUpToLost)'
  <2> SUFFICES ASSUME TypeOK, EnclosedUpToLost, [Next]_vars
               PROVE  (TypeOK /\ EnclosedUpToLost)'
    OBVIOUS
  <2>1. CASE UNCHANGED vars
    BY <2>1 DEF vars, TypeOK, EnclosedUpToLost
  <2> QED
    BY <2>1, EnclosedUpdate, EnclosedMerge DEF Next
<1> QED
  BY <1>1, EnclosedInit, PTL DEF Spec

\* The bounds the header guarantees do hold as long as no table is merged that
\* has purged all it tracked: only then does merge() drop an offset.
THEOREM GuaranteedUnlessEmptied ==
    ASSUME Weights \subseteq Nat,
           \A t \in Tables : t.lost = 0 /\ (Emptied(t) => t.offset = 0)
    PROVE  Spec => []Enclosed
<1> DEFINE IInv == TypeOK /\ EnclosedUpToLost /\ lost = 0
<1>1. IInv /\ [Next]_vars => IInv'
  <2> SUFFICES ASSUME IInv, [Next]_vars PROVE IInv'
    OBVIOUS
  <2>1. CASE UNCHANGED vars
    BY <2>1 DEF vars, TypeOK, EnclosedUpToLost
  <2>2. ASSUME NEW t \in Tables, Merge(t) PROVE IInv'
    <3>1. lost' = 0
      BY <2>2 DEF Merge
    <3> QED
      BY <2>2, <3>1, EnclosedMerge
  <2>3. ASSUME NEW item \in Items, NEW weight \in Weights, Update(item, weight) PROVE IInv'
    BY <2>3, EnclosedUpdate
  <2> QED
    BY <2>1, <2>2, <2>3 DEF Next
<1>2. IInv => Enclosed
  BY DEF TypeOK, EnclosedUpToLost, Enclosed
<1>3. Init => IInv
  BY EnclosedInit
<1> QED
  BY <1>1, <1>2, <1>3, PTL DEF Spec
=============================================================================
