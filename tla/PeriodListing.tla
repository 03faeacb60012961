--------------------------- MODULE PeriodListing ---------------------------
(***************************************************************************)
(* The list of a handler's windows in the answer about a policy            *)
(* (StreamHandler.h, common_info_json), read while the input's thread      *)
(* shifts the window.  The number of windows and each window are asked of  *)
(* the manager anew for every field, under its lock for the length of that *)
(* call, and a window is used after the lock is gone.                      *)
(***************************************************************************)
EXTENDS Integers, Sequences, FiniteSets, TLAPS, SequenceTheorems

CONSTANTS
    NumPeriods,
    Fields,        \* how often a row asks for its window (six or seven times in the code)
    MaxWindows     \* bound: windows that begin

VARIABLES
    buckets,       \* windows held, newest first
    expiring,      \* the window a shift took out and has not destroyed yet, or 0
    freed,         \* windows destroyed
    pc, index,     \* where the listing is, and the row it is at
    pointer,       \* the window its last call returned
    row, rows,     \* the windows of the fields of this row, and of all rows
    lasting        \* history: windows held ever since the listing began

listingVars == <<buckets, expiring, freed, pc, index, pointer, row, rows, lasting>>

SeqSet(s) == {s[k] : k \in DOMAIN s}

ListingInit ==
    /\ buckets = <<1>>
    /\ expiring = 0
    /\ freed = {}
    /\ pc = "idle" /\ index = 0 /\ pointer = 0 /\ row = <<>> /\ rows = {}
    /\ lasting = {}

\* Mutant of Grown: the new window goes behind the live one.
GrownBehind == <<buckets[1], Cardinality(freed) + Len(buckets) + 1>> \o Tail(buckets)

\* Windows are numbered as they begin.
Grown == <<buckets[1] + 1>> \o buckets

\* _period_shift, up to the release of the bucket lock.
PeriodShift ==
    LET grown == Grown
        full == Len(grown) > NumPeriods
    IN  /\ expiring = 0
        /\ buckets[1] < MaxWindows
        /\ buckets' = IF full THEN SubSeq(grown, 1, NumPeriods) ELSE grown
        /\ expiring' = IF full THEN grown[Len(grown)] ELSE 0
        /\ lasting' = lasting \ (IF full THEN {grown[Len(grown)]} ELSE {})
        /\ UNCHANGED <<freed, pc, index, pointer, row, rows>>

\* Its end: the window that went is destroyed.
Expire ==
    /\ expiring # 0
    /\ freed' = freed \cup {expiring}
    /\ expiring' = 0
    /\ UNCHANGED <<buckets, pc, index, pointer, row, rows, lasting>>

ListBegin ==
    /\ pc = "idle"
    /\ pc' = "count"
    /\ index' = 0
    /\ rows' = {}
    /\ lasting' = SeqSet(buckets)
    /\ UNCHANGED <<buckets, expiring, freed, pointer, row>>

\* Mutant of Goes: one row too many.
GoesOneMore == index <= Len(buckets)

\* The loop's condition.
Goes == index < Len(buckets)

CurrentPeriods ==
    /\ pc = "count"
    /\ pc' = IF Goes THEN "bucket" ELSE "listed"
    /\ row' = <<>>
    /\ UNCHANGED <<buckets, expiring, freed, index, pointer, rows, lasting>>

\* bucket(i): the index is checked, and the pointer outlives the lock.
Bucket ==
    /\ pc = "bucket"
    /\ IF index < Len(buckets)
         THEN pointer' = buckets[index + 1] /\ pc' = "field"
         ELSE pc' = "thrown" /\ UNCHANGED pointer
    /\ UNCHANGED <<buckets, expiring, freed, index, row, rows, lasting>>

\* Mutant of NextRow: two windows on.
NextRowTwoOn == index + 2

NextRow == index + 1

\* The field is read; after the last one comes the next row.
Field ==
    /\ pc = "field"
    /\ row' = Append(row, pointer)
    /\ IF Len(row) + 1 < Fields
         THEN pc' = "bucket" /\ UNCHANGED <<index, rows>>
         ELSE pc' = "count" /\ index' = NextRow /\ rows' = rows \cup {row'}
    /\ UNCHANGED <<buckets, expiring, freed, pointer, lasting>>

ListEnd ==
    /\ pc \in {"listed", "thrown"}
    /\ pc' = "idle"
    /\ UNCHANGED <<buckets, expiring, freed, index, pointer, row, rows, lasting>>

ListingNext ==
    \/ PeriodShift \/ Expire
    \/ ListBegin \/ CurrentPeriods \/ Bucket \/ Field \/ ListEnd

ListingSpec == ListingInit /\ [][ListingNext]_listingVars

-----------------------------------------------------------------------------
\* The count a row was entered with is still good when its windows are asked
\* for: a shift in between never makes bucket(i) throw.
ListingNeverThrows == pc # "thrown"

\* A window held from the beginning of a listing to its end is in it: shifts in
\* between move windows to later rows, so that one may come twice but none is
\* passed over.
LastingAreListed ==
    pc = "listed" => lasting \subseteq UNION {SeqSet(r) : r \in rows}

\* Fields of one row may come from different windows when shifts fall between
\* them, but never from a newer one to an older; and a window that was destroyed
\* before its field is read was the oldest of all when it was returned.
RowsMoveForward ==
    /\ \A r \in rows : \A k \in 1..(Fields - 1) : r[k] <= r[k + 1]
    /\ pc = "field" /\ pointer \in freed =>
         \A w \in SeqSet(buckets) : pointer < w

-----------------------------------------------------------------------------
(***************************************************************************)
(* Proofs, for any number of periods and fields and any shifts in between: *)
(* a listing never throws, never goes back to an older window within a row *)
(* and passes over no window that stays.                                   *)
(***************************************************************************)
\* Windows are held newest first, and all that expired are older.
WInv ==
    /\ buckets \in Seq(Nat)
    /\ Len(buckets) >= 1 /\ Len(buckets) <= NumPeriods
    /\ \A a, b \in 1..Len(buckets) : a < b => buckets[a] > buckets[b]
    /\ expiring \in Nat /\ freed \subseteq Nat
    /\ \A a \in 1..Len(buckets) : expiring < buckets[a] /\ \A f \in freed : f < buckets[a]

Forward(r) == \A k \in 1..(Len(r) - 1) : r[k] <= r[k + 1]

\* The row a listing is at exists, and a window it holds is never newer than
\* the one at that place now: shifts only bring newer ones there.
LInv ==
    /\ WInv
    /\ index \in Nat /\ pointer \in Nat
    /\ row \in Seq(Nat) /\ Forward(row)
    /\ rows \subseteq {r \in Seq(Nat) : Len(r) = Fields /\ Forward(r)}
    /\ pc \in {"idle", "count", "bucket", "field", "listed"}
    /\ pc \in {"bucket", "field"} =>
         /\ index < Len(buckets) /\ Len(row) < Fields
         /\ Len(row) > 0 => row[Len(row)] <= buckets[index + 1]
    /\ pc = "field" =>
         /\ pointer <= buckets[index + 1]
         /\ Len(row) > 0 => row[Len(row)] <= pointer

\* What a shift does to the windows, place by place.
LEMMA ShiftWindows ==
    ASSUME NumPeriods \in Nat \ {0}, WInv, PeriodShift
    PROVE  /\ buckets' \in Seq(Nat)
           /\ Len(buckets') >= Len(buckets) /\ Len(buckets') <= NumPeriods
           /\ Len(buckets') <= Len(buckets) + 1
           /\ buckets'[1] = buckets[1] + 1
           /\ \A a \in 1..Len(buckets') : a > 1 => buckets'[a] = buckets[a - 1]
           /\ \/ expiring' = 0 /\ Len(buckets') = Len(buckets) + 1
              \/ expiring' = buckets[Len(buckets)] /\ Len(buckets') = Len(buckets)
           /\ lasting' \subseteq lasting
           /\ Len(buckets') = Len(buckets) => expiring' \notin lasting'
<1> DEFINE grown == <<buckets[1] + 1>> \o buckets
<1>1. /\ buckets \in Seq(Nat) /\ Len(buckets) \in Nat /\ buckets[1] \in Nat
      /\ Len(buckets) >= 1 /\ Len(buckets) <= NumPeriods
  BY DEF WInv
<1>2. /\ grown \in Seq(Nat) /\ Len(grown) = Len(buckets) + 1
      /\ grown[1] = buckets[1] + 1
      /\ \A a \in 2..Len(grown) : grown[a] = buckets[a - 1]
  BY <1>1
<1>3. /\ buckets' = IF Len(grown) > NumPeriods THEN SubSeq(grown, 1, NumPeriods) ELSE grown
      /\ expiring' = IF Len(grown) > NumPeriods THEN grown[Len(grown)] ELSE 0
      /\ lasting' = lasting \ (IF Len(grown) > NumPeriods THEN {grown[Len(grown)]} ELSE {})
  BY DEF PeriodShift, Grown
<1> HIDE DEF grown
<1>4. CASE Len(grown) > NumPeriods
  <2>1. Len(buckets) = NumPeriods /\ NumPeriods \in 1..Len(grown)
    BY <1>1, <1>2, <1>4
  <2>2. /\ SubSeq(grown, 1, NumPeriods) \in Seq(Nat)
        /\ Len(SubSeq(grown, 1, NumPeriods)) = NumPeriods
        /\ \A a \in 1..NumPeriods : SubSeq(grown, 1, NumPeriods)[a] = grown[a]
    BY <1>2, <2>1
  <2>3. grown[Len(grown)] = buckets[Len(buckets)]
    BY <1>1, <1>2
  <2>4. /\ lasting' \subseteq lasting /\ expiring' \notin lasting'
        /\ expiring' = buckets[Len(buckets)] /\ buckets' = SubSeq(grown, 1, NumPeriods)
    BY <1>3, <1>4, <2>3
  <2> QED
    BY <1>1, <1>2, <2>1, <2>2, <2>4
<1>5. CASE ~(Len(grown) > NumPeriods)
  <2>1. buckets' = grown /\ expiring' = 0 /\ lasting' \subseteq lasting
    BY <1>3, <1>5
  <2>2. Len(grown) \in Nat /\ Len(grown) <= NumPeriods /\ Len(grown) > Len(buckets)
    BY <1>1, <1>2, <1>5
  <2>3. /\ buckets' \in Seq(Nat) /\ buckets'[1] = buckets[1] + 1
        /\ \A a \in 1..Len(buckets') : a > 1 => buckets'[a] = buckets[a - 1]
    <3>1. \A a \in 1..Len(grown) : a > 1 => a \in 2..Len(grown)
      BY <2>2
    <3> QED
      BY <1>2, <2>1, <3>1, Zenon
  <2>4. /\ Len(buckets') >= Len(buckets) /\ Len(buckets') <= NumPeriods
        /\ Len(buckets') = Len(buckets) + 1 /\ Len(buckets') # Len(buckets)
    BY <1>1, <1>2, <2>1, <2>2
  <2> QED
    BY <1>1, <2>1, <2>3, <2>4
<1> QED
  BY <1>4, <1>5

\* A shift keeps the order of the windows.
LEMMA ShiftKeepsOrder ==
    ASSUME NumPeriods \in Nat \ {0}, WInv, PeriodShift
    PROVE  WInv'
<1>1. /\ buckets' \in Seq(Nat) /\ Len(buckets') \in Nat /\ Len(buckets) \in Nat
      /\ Len(buckets') >= Len(buckets) /\ Len(buckets') <= NumPeriods
      /\ Len(buckets') <= Len(buckets) + 1
      /\ buckets'[1] = buckets[1] + 1
      /\ \A a \in 1..Len(buckets') : a > 1 => buckets'[a] = buckets[a - 1]
  BY ShiftWindows DEF WInv
<1>2. /\ Len(buckets) >= 1 /\ \A a \in 1..Len(buckets) : buckets[a] \in Nat
      /\ \A a \in 1..Len(buckets) : buckets[1] >= buckets[a]
      /\ \A a, b \in 1..Len(buckets) : a < b => buckets[a] > buckets[b]
  <2>1. \A a \in 1..Len(buckets) : buckets[a] \in Nat
    BY DEF WInv
  <2>2. ASSUME NEW a \in 1..Len(buckets) PROVE buckets[1] >= buckets[a]
    <3>1. 1 \in 1..Len(buckets) /\ (a = 1 \/ 1 < a)
      BY <1>1
    <3>2. CASE a = 1
      BY <2>1, <3>2
    <3>3. CASE 1 < a
      BY <2>1, <3>1, <3>3 DEF WInv
    <3> QED
      BY <3>1, <3>2, <3>3
  <2> QED
    BY <2>1, <2>2 DEF WInv
<1>3. ASSUME NEW a \in 1..Len(buckets'), NEW b \in 1..Len(buckets'), a < b
      PROVE  buckets'[a] > buckets'[b]
  <2>1. b > 1 /\ b - 1 \in 1..Len(buckets) /\ buckets'[b] = buckets[b - 1]
    BY <1>1, <1>3
  <2>2. CASE a = 1
    <3>1. PICK c \in 1..Len(buckets) : c = b - 1
      BY <2>1
    <3>2. 1 \in 1..Len(buckets)
      BY <1>1, <1>2
    <3>3. buckets[1] >= buckets[c] /\ buckets[1] \in Nat /\ buckets[c] \in Nat
      BY <1>2, <3>2
    <3>4. buckets'[a] = buckets[1] + 1 /\ buckets'[b] = buckets[c]
      BY <1>1, <2>1, <2>2, <3>1, Zenon
    <3> QED
      BY <3>3, <3>4
  <2>3. CASE a > 1
    <3>1. a - 1 \in 1..Len(buckets) /\ a - 1 < b - 1 /\ buckets'[a] = buckets[a - 1]
      BY <1>1, <1>3, <2>3
    <3> QED
      BY <1>2, <2>1, <3>1
  <2> QED
    BY <2>2, <2>3
<1>4. ASSUME NEW a \in 1..Len(buckets'), NEW f \in freed PROVE f < buckets'[a]
  <2>1. f \in Nat /\ \A b \in 1..Len(buckets) : f < buckets[b]
    BY DEF WInv
  <2>2. CASE a = 1
    BY <1>1, <1>2, <2>1, <2>2
  <2>3. CASE a > 1
    <3>1. a - 1 \in 1..Len(buckets) /\ buckets'[a] = buckets[a - 1]
      BY <1>1, <2>3
    <3> QED
      BY <2>1, <3>1
  <2> QED
    BY <2>2, <2>3
<1>5. ASSUME NEW a \in 1..Len(buckets') PROVE expiring' \in Nat /\ expiring' < buckets'[a]
  <2>1. 0 < buckets[1] /\ \A b \in 1..Len(buckets) : 0 < buckets[b]
    BY <1>1, <1>2 DEF WInv, PeriodShift
  <2>2. CASE expiring' = 0
    <3>1. CASE a = 1
      BY <1>1, <1>2, <2>2, <3>1
    <3>2. CASE a > 1
      <4>1. a - 1 \in 1..Len(buckets) /\ buckets'[a] = buckets[a - 1]
        BY <1>1, <3>2
      <4> QED
        BY <2>1, <2>2, <4>1
    <3> QED
      BY <3>1, <3>2
  <2>3. CASE expiring' = buckets[Len(buckets)] /\ Len(buckets') = Len(buckets)
    <3>0. Len(buckets) \in 1..Len(buckets)
      BY <1>1, <1>2
    <3>1. CASE a = 1
      BY <1>1, <1>2, <2>3, <3>0, <3>1
    <3>2. CASE a > 1
      <4>1. a - 1 \in 1..Len(buckets) /\ a - 1 < Len(buckets) /\ buckets'[a] = buckets[a - 1]
        BY <1>1, <2>3, <3>2
      <4> QED
        BY <1>2, <2>3, <3>0, <4>1
    <3> QED
      BY <3>1, <3>2
  <2> QED
    BY <2>2, <2>3, ShiftWindows
<1>6. expiring' \in Nat /\ freed' = freed /\ freed \subseteq Nat
  BY <1>1, <1>2, <1>5 DEF WInv, PeriodShift
<1>7. /\ buckets' \in Seq(Nat) /\ Len(buckets') >= 1 /\ Len(buckets') <= NumPeriods
  BY <1>1, <1>2
<1>8. \A a \in 1..Len(buckets') : expiring' < buckets'[a] /\ \A f \in freed' : f < buckets'[a]
  BY <1>4, <1>5, <1>6
<1> QED
  BY <1>3, <1>6, <1>7, <1>8, Zenon DEF WInv

\* A shift in the middle of a listing: its row is still there, with a newer window.
LEMMA ShiftKeepsListing ==
    ASSUME NumPeriods \in Nat \ {0}, LInv, PeriodShift
    PROVE  LInv'
<1>1. WInv /\ WInv'
  BY ShiftKeepsOrder DEF LInv
<1>2. UNCHANGED <<index, pointer, row, rows, pc>>
  BY DEF PeriodShift
<1>3. ASSUME index < Len(buckets)
      PROVE  /\ index < Len(buckets')
             /\ buckets[index + 1] \in Nat /\ buckets'[index + 1] \in Nat
             /\ buckets[index + 1] <= buckets'[index + 1]
  <2>1. index \in Nat /\ index + 1 \in 1..Len(buckets) /\ index + 1 \in 1..Len(buckets')
    <3>1. index \in Nat /\ Len(buckets) \in Nat /\ Len(buckets') \in Nat
      BY <1>1 DEF LInv, WInv
    <3>2. Len(buckets') >= Len(buckets)
      BY <1>1, ShiftWindows
    <3> QED
      BY <1>3, <3>1, <3>2
  <2>2. buckets[index + 1] \in Nat /\ buckets'[index + 1] \in Nat /\ index < Len(buckets')
    <3>1. buckets \in Seq(Nat) /\ buckets' \in Seq(Nat)
      BY <1>1, Zenon DEF WInv
    <3>2. buckets[index + 1] \in Nat
      BY <2>1, <3>1
    <3>3. buckets'[index + 1] \in Nat
      BY <2>1, <3>1
    <3>4. index < Len(buckets')
      BY <2>1, <3>1
    <3> QED
      BY <3>2, <3>3, <3>4
  <2>3. CASE index = 0
    <3>1. buckets'[1] = buckets[1] + 1
      BY <1>1, ShiftWindows
    <3> QED
      BY <2>2, <2>3, <3>1
  <2>4. CASE index > 0
    <3>1. index \in 1..Len(buckets) /\ buckets'[index + 1] = buckets[(index + 1) - 1]
      BY <1>1, <2>1, <2>4, ShiftWindows
    <3>2. buckets'[index + 1] = buckets[index] /\ buckets[index] > buckets[index + 1]
      <4>1. (index + 1) - 1 = index /\ index < index + 1
        BY <2>1
      <4>2. \A a, b \in 1..Len(buckets) : a < b => buckets[a] > buckets[b]
        BY <1>1, Zenon DEF WInv
      <4>3. buckets'[index + 1] = buckets[index]
        BY <3>1, <4>1
      <4>4. buckets[index] > buckets[index + 1]
        BY <2>1, <3>1, <4>1, <4>2, Zenon
      <4> QED
        BY <4>3, <4>4
    <3>3. buckets[index] \in Nat
      <4>1. buckets \in Seq(Nat) /\ index \in 1..Len(buckets)
        BY <1>1, <3>1, Zenon DEF WInv
      <4> QED
        BY <4>1
    <3> QED
      BY <2>2, <3>2, <3>3
  <2> QED
    BY <2>1, <2>3, <2>4
<1>4. \A k \in 1..Len(row) : row[k] \in Nat
  BY DEF LInv
<1>5. pc \in {"bucket", "field"} =>
         /\ index < Len(buckets') /\ Len(row) < Fields
         /\ Len(row) > 0 => row[Len(row)] <= buckets'[index + 1]
  <2> SUFFICES ASSUME pc \in {"bucket", "field"}
               PROVE  /\ index < Len(buckets') /\ Len(row) < Fields
                      /\ Len(row) > 0 => row[Len(row)] <= buckets'[index + 1]
    OBVIOUS
  <2>1. /\ index < Len(buckets) /\ Len(row) < Fields /\ Len(row) \in Nat
        /\ Len(row) > 0 => row[Len(row)] <= buckets[index + 1]
    BY DEF LInv
  <2>2. Len(row) > 0 => row[Len(row)] \in Nat
    BY <1>4, <2>1
  <2> QED
    BY <1>3, <2>1, <2>2
<1>6. pc = "field" => pointer <= buckets'[index + 1]
  BY <1>3 DEF LInv
<1> QED
  BY <1>1, <1>2, <1>5, <1>6 DEF LInv, Forward

\* A field read from the window at the row's place, or an older one, goes on
\* from the fields before it.
LEMMA FieldKeepsForward ==
    ASSUME LInv, pc = "field"
    PROVE  /\ Append(row, pointer) \in Seq(Nat) /\ Len(Append(row, pointer)) = Len(row) + 1
           /\ Append(row, pointer)[Len(row) + 1] = pointer
           /\ Forward(Append(row, pointer))
<1>1. /\ row \in Seq(Nat) /\ Len(row) \in Nat /\ pointer \in Nat /\ Forward(row)
      /\ Len(row) > 0 => row[Len(row)] <= pointer
  BY DEF LInv
<1>2. /\ Append(row, pointer) \in Seq(Nat) /\ Len(Append(row, pointer)) = Len(row) + 1
      /\ Append(row, pointer)[Len(row) + 1] = pointer
      /\ \A k \in 1..Len(row) : Append(row, pointer)[k] = row[k]
  BY <1>1, AppendProperties
<1>3. ASSUME NEW k \in 1..Len(row) PROVE Append(row, pointer)[k] <= Append(row, pointer)[k + 1]
  <2>1. CASE k = Len(row)
    BY <1>1, <1>2, <2>1
  <2>2. CASE k < Len(row)
    <3>1. k \in 1..(Len(row) - 1) /\ k + 1 \in 1..Len(row)
      BY <1>1, <2>2
    <3>2. row[k] <= row[k + 1]
      BY <1>1, <3>1 DEF Forward
    <3> QED
      BY <1>2, <3>1, <3>2
  <2> QED
    BY <1>1, <2>1, <2>2
<1>4. Forward(Append(row, pointer))
  <2>1. Len(Append(row, pointer)) - 1 = Len(row)
    BY <1>1, <1>2
  <2> QED
    BY <1>3, <2>1 DEF Forward
<1> QED
  BY <1>2, <1>4

\* Nothing has been listed at the beginning.
LEMMA LInvInit ==
    ASSUME NumPeriods \in Nat \ {0}, ListingInit
    PROVE  LInv
<1>1. /\ buckets = <<1>> /\ buckets \in Seq(Nat) /\ Len(buckets) = 1 /\ buckets[1] = 1
      /\ expiring = 0 /\ freed = {}
  BY DEF ListingInit
<1>2. WInv
  BY <1>1 DEF WInv
<1>3. row = <<>> /\ row \in Seq(Nat) /\ Len(row) = 0 /\ Forward(row)
  BY DEF ListingInit, Forward
<1>4. index = 0 /\ pointer = 0 /\ rows = {} /\ pc = "idle"
  BY DEF ListingInit
<1> QED
  BY <1>2, <1>3, <1>4 DEF LInv

\* Every step of the listing and of the input's thread keeps the invariant.
LEMMA LInvNext ==
    ASSUME NumPeriods \in Nat \ {0}, Fields \in Nat \ {0}, LInv, [ListingNext]_listingVars
    PROVE  LInv'
<1>1. CASE PeriodShift
  BY <1>1, ShiftKeepsListing
<1>2. CASE Expire
  <2>1. WInv'
    <3>1. WInv /\ UNCHANGED buckets /\ freed' = freed \cup {expiring} /\ expiring' = 0
      BY <1>2 DEF LInv, Expire
    <3>2. \A a \in 1..Len(buckets) : buckets[a] \in Nat /\ 0 < buckets[a]
      BY <3>1 DEF WInv
    <3> QED
      BY <3>1, <3>2 DEF WInv
  <2> QED
    BY <1>2, <2>1 DEF LInv, Expire
<1>3. CASE ListBegin
  BY <1>3 DEF LInv, WInv, ListBegin
<1>4. CASE CurrentPeriods
  <2>1. row' = <<>> /\ Len(row') = 0 /\ row' \in Seq(Nat) /\ Forward(row')
    BY <1>4 DEF CurrentPeriods, Forward
  <2>2. WInv'
    BY <1>4 DEF LInv, WInv, CurrentPeriods
  <2>3. pc' \in {"bucket", "listed"} /\ (pc' = "bucket" => index < Len(buckets))
    BY <1>4 DEF CurrentPeriods, Goes
  <2> QED
    BY <1>4, <2>1, <2>2, <2>3 DEF LInv, CurrentPeriods
<1>5. CASE Bucket
  <2>1. WInv'
    BY <1>5 DEF LInv, WInv, Bucket
  <2>2. index < Len(buckets) /\ index + 1 \in 1..Len(buckets)
    BY <1>5 DEF LInv, WInv, Bucket
  <2>3. buckets[index + 1] \in Nat /\ pointer' = buckets[index + 1] /\ pc' = "field"
    <3>1. buckets \in Seq(Nat)
      BY DEF LInv, WInv
    <3>2. buckets[index + 1] \in Nat
      BY <2>2, <3>1
    <3> QED
      BY <1>5, <2>2, <3>2 DEF Bucket
  <2> QED
    BY <1>5, <2>1, <2>2, <2>3 DEF LInv, Bucket
<1>6. CASE Field
  <2>1. WInv' /\ UNCHANGED <<buckets, pointer>> /\ row' = Append(row, pointer)
    BY <1>6 DEF LInv, WInv, Field
  <2>2. /\ row' \in Seq(Nat) /\ Len(row') = Len(row) + 1 /\ row'[Len(row')] = pointer
        /\ Forward(row')
    BY <1>6, <2>1, FieldKeepsForward DEF Field, Forward
  <2>3. /\ Len(row) \in Nat /\ Len(row) < Fields
        /\ pointer <= buckets[index + 1] /\ index < Len(buckets)
    BY <1>6 DEF LInv, Field
  <2>4. CASE Len(row) + 1 < Fields
    <3>1. pc' = "bucket" /\ UNCHANGED <<index, rows>>
      BY <1>6, <2>4 DEF Field
    <3> QED
      BY <2>1, <2>2, <2>3, <2>4, <3>1 DEF LInv
  <2>5. CASE ~(Len(row) + 1 < Fields)
    <3>1. pc' = "count" /\ index' = index + 1 /\ rows' = rows \cup {row'}
      BY <1>6, <2>5 DEF Field, NextRow
    <3>2. Len(row') = Fields
      BY <2>2, <2>3, <2>5
    <3>3. rows' \subseteq {r \in Seq(Nat) : Len(r) = Fields /\ Forward(r)}
      <4>1. row' \in {r \in Seq(Nat) : Len(r) = Fields /\ Forward(r)}
        BY <2>2, <3>2
      <4> HIDE DEF Forward
      <4> QED
        BY <3>1, <4>1, Zenon DEF LInv
    <3>4. WInv' /\ index' \in Nat /\ pointer' \in Nat
      BY <2>1, <3>1 DEF LInv
    <3> QED
      BY <2>2, <3>1, <3>3, <3>4, Zenon DEF LInv
  <2> QED
    BY <2>4, <2>5
<1>7. CASE ListEnd
  BY <1>7 DEF LInv, WInv, ListEnd
<1>8. CASE UNCHANGED listingVars
  BY <1>8 DEF LInv, WInv, listingVars
<1> QED
  BY <1>1, <1>2, <1>3, <1>4, <1>5, <1>6, <1>7, <1>8 DEF ListingNext

\* However often windows shift during a listing, bucket(i) never throws.
THEOREM NoListingThrows ==
    ASSUME NumPeriods \in Nat \ {0}, Fields \in Nat \ {0}
    PROVE  ListingSpec => []ListingNeverThrows
<1>1. LInv => ListingNeverThrows
  BY DEF LInv, ListingNeverThrows
<1>2. ListingInit => LInv
  BY LInvInit
<1>3. LInv /\ [ListingNext]_listingVars => LInv'
  BY LInvNext
<1> QED
  BY <1>1, <1>2, <1>3, PTL DEF ListingSpec

\* A row never goes back to an older window, and a window destroyed before its
\* field is read is older than all that are held.
THEOREM RowsAlwaysMoveForward ==
    ASSUME NumPeriods \in Nat \ {0}, Fields \in Nat \ {0}
    PROVE  ListingSpec => []RowsMoveForward
<1>1. LInv => RowsMoveForward
  <2> SUFFICES ASSUME LInv PROVE RowsMoveForward
    OBVIOUS
  <2>1. \A r \in rows : \A k \in 1..(Fields - 1) : r[k] <= r[k + 1]
    BY DEF LInv, Forward
  <2>2. ASSUME pointer \in freed, NEW w \in SeqSet(buckets) PROVE pointer < w
    <3>1. PICK a \in 1..Len(buckets) : w = buckets[a]
      BY DEF LInv, WInv, SeqSet
    <3>2. \A f \in freed : f < buckets[a]
      BY DEF LInv, WInv
    <3> QED
      BY <2>2, <3>1, <3>2
  <2> QED
    BY <2>1, <2>2, Zenon DEF RowsMoveForward
<1>2. ListingInit => LInv
  BY LInvInit
<1>3. LInv /\ [ListingNext]_listingVars => LInv'
  BY LInvNext
<1> QED
  BY <1>1, <1>2, <1>3, PTL DEF ListingSpec

\* The windows of the rows listed so far.
Listed == UNION {SeqSet(r) : r \in rows}

\* The listing has yet to come to window w: it stands at a later row, or at the one the
\* listing is at, and then no other window is held for the field to be read.
Ahead(w) ==
    \E p \in 1..Len(buckets) :
        /\ buckets[p] = w
        /\ p > index
        /\ pc = "field" /\ p = index + 1 => pointer = w

\* While a listing goes on, every window that lasted is in it or ahead of it.
KInv ==
    /\ pc \in {"count", "bucket", "field"} => \A w \in lasting : w \in Listed \/ Ahead(w)
    /\ pc = "listed" => lasting \subseteq Listed

\* A shift moves a window that is ahead to a later place, or takes it out.
LEMMA ShiftKeepsAhead ==
    ASSUME NumPeriods \in Nat \ {0}, LInv, KInv, PeriodShift
    PROVE  KInv'
<1>1. /\ WInv /\ index \in Nat /\ Len(buckets) \in Nat /\ Len(buckets') \in Nat
  BY ShiftWindows DEF LInv, WInv
<1>2. UNCHANGED <<index, pointer, rows, pc>> /\ Listed' = Listed
  BY DEF PeriodShift, Listed, SeqSet
<1>3. ASSUME NEW w \in lasting', Ahead(w) PROVE Ahead(w)'
  <2>1. PICK p \in 1..Len(buckets) : buckets[p] = w /\ p > index
    BY <1>3 DEF Ahead
  <2>2. Len(buckets') = Len(buckets) + 1 \/ p < Len(buckets)
    <3>1. CASE Len(buckets') = Len(buckets)
      <4>1. expiring' = buckets[Len(buckets)] /\ w # expiring'
        BY <1>1, <1>3, <3>1, ShiftWindows
      <4> QED
        BY <1>1, <2>1, <4>1
    <3> QED
      BY <1>1, <3>1, ShiftWindows
  <2>3. p + 1 \in 1..Len(buckets') /\ p + 1 > index + 1
    BY <1>1, <2>1, <2>2, ShiftWindows
  <2>4. buckets'[p + 1] = w
    <3>1. buckets'[p + 1] = buckets[(p + 1) - 1]
      BY <1>1, <2>1, <2>3, ShiftWindows
    <3> QED
      BY <2>1, <3>1
  <2>5. p + 1 > index' /\ p + 1 # index' + 1
    BY <1>1, <1>2, <2>3
  <2> QED
    BY <2>3, <2>4, <2>5 DEF Ahead
<1>4. lasting' \subseteq lasting
  BY <1>1, ShiftWindows
<1> QED
  BY <1>2, <1>3, <1>4 DEF KInv

\* A row that ends has the window of its place in it when that has not come before.
LEMMA FieldKeepsListed ==
    ASSUME Fields \in Nat \ {0}, LInv, KInv, Field
    PROVE  KInv'
<1>1. /\ pc = "field" /\ row' = Append(row, pointer) /\ UNCHANGED <<buckets, pointer, lasting>>
      /\ index \in Nat /\ Len(buckets) \in Nat /\ row \in Seq(Nat) /\ pointer \in Nat
  BY DEF Field, LInv, WInv
<1>2. CASE Len(row) + 1 < Fields
  <2>1. pc' = "bucket" /\ UNCHANGED <<index, rows>>
    BY <1>2 DEF Field
  <2>2. Listed' = Listed
    BY <2>1 DEF Listed, SeqSet
  <2>3. \A w \in lasting : Ahead(w) => Ahead(w)'
    BY <1>1, <2>1 DEF Ahead
  <2> QED
    BY <1>1, <2>1, <2>2, <2>3 DEF KInv
<1>3. CASE ~(Len(row) + 1 < Fields)
  <2>1. pc' = "count" /\ index' = index + 1 /\ rows' = rows \cup {row'}
    BY <1>3 DEF Field, NextRow
  <2>2. Listed \subseteq Listed' /\ SeqSet(row') \subseteq Listed'
    BY <2>1 DEF Listed, SeqSet
  <2>3. pointer \in SeqSet(row')
    <3>1. Len(row) + 1 \in DOMAIN row' /\ row'[Len(row) + 1] = pointer
      BY <1>1, AppendProperties
    <3> QED
      BY <3>1 DEF SeqSet
  <2>4. ASSUME NEW w \in lasting, Ahead(w) PROVE w \in Listed' \/ Ahead(w)'
    <3>1. PICK p \in 1..Len(buckets) :
             buckets[p] = w /\ p > index /\ (p = index + 1 => pointer = w)
      BY <1>1, <2>4 DEF Ahead
    <3>2. CASE p = index + 1
      BY <2>2, <2>3, <3>1, <3>2
    <3>3. CASE p # index + 1
      <4>1. p > index' /\ pc' # "field" /\ p \in 1..Len(buckets') /\ buckets'[p] = w
        BY <1>1, <2>1, <3>1, <3>3
      <4> QED
        BY <4>1 DEF Ahead
    <3> QED
      BY <3>2, <3>3
  <2>5. \A w \in lasting' : w \in Listed' \/ Ahead(w)'
    BY <1>1, <2>2, <2>4 DEF KInv
  <2> QED
    BY <2>1, <2>5 DEF KInv
<1> QED
  BY <1>2, <1>3

\* Every step keeps KInv.
LEMMA KInvNext ==
    ASSUME NumPeriods \in Nat \ {0}, Fields \in Nat \ {0}, LInv, KInv,
           [ListingNext]_listingVars
    PROVE  KInv'
<1>0. index \in Nat /\ Len(buckets) \in Nat /\ DOMAIN buckets = 1..Len(buckets)
  BY DEF LInv, WInv
<1>1. CASE PeriodShift
  BY <1>1, ShiftKeepsAhead
<1>2. CASE Expire \/ UNCHANGED listingVars
  <2>1. UNCHANGED <<buckets, pc, index, pointer, rows, lasting>>
    BY <1>2 DEF Expire, listingVars
  <2> QED
    BY <2>1 DEF KInv, Ahead, Listed, SeqSet
<1>3. CASE ListBegin
  <2>1. pc' = "count" /\ index' = 0 /\ lasting' = SeqSet(buckets) /\ buckets' = buckets
    BY <1>3 DEF ListBegin
  <2>2. ASSUME NEW w \in lasting' PROVE Ahead(w)'
    <3>1. PICK p \in 1..Len(buckets) : buckets[p] = w
      BY <1>0, <2>1, <2>2 DEF SeqSet
    <3> QED
      BY <2>1, <3>1 DEF Ahead
  <2> QED
    BY <2>1, <2>2 DEF KInv
<1>4. CASE CurrentPeriods
  <2>1. pc = "count" /\ UNCHANGED <<buckets, index, pointer, rows, lasting>>
    BY <1>4 DEF CurrentPeriods
  <2>2. Listed' = Listed
    BY <2>1 DEF Listed, SeqSet
  <2>3. CASE index < Len(buckets)
    <3>1. pc' = "bucket"
      BY <1>4, <2>3 DEF CurrentPeriods, Goes
    <3>2. \A w \in lasting : Ahead(w) => Ahead(w)'
      BY <2>1, <3>1 DEF Ahead
    <3> QED
      BY <2>1, <2>2, <3>1, <3>2 DEF KInv
  <2>4. CASE ~(index < Len(buckets))
    <3>1. pc' = "listed"
      BY <1>4, <2>4 DEF CurrentPeriods, Goes
    <3>2. \A w \in lasting : ~Ahead(w)
      BY <1>0, <2>4 DEF Ahead
    <3>3. lasting' \subseteq Listed'
      BY <2>1, <2>2, <3>2 DEF KInv
    <3> QED
      BY <3>1, <3>3 DEF KInv
  <2> QED
    BY <2>3, <2>4
<1>5. CASE Bucket
  <2>1. /\ pc = "bucket" /\ pc' = "field" /\ pointer' = buckets[index + 1]
        /\ UNCHANGED <<buckets, index, rows, lasting>>
    BY <1>5 DEF Bucket, LInv
  <2>2. Listed' = Listed
    BY <2>1 DEF Listed, SeqSet
  <2>3. \A w \in lasting : Ahead(w) => Ahead(w)'
    BY <2>1 DEF Ahead
  <2> QED
    BY <2>1, <2>2, <2>3 DEF KInv
<1>6. CASE Field
  BY <1>6, FieldKeepsListed
<1>7. CASE ListEnd
  BY <1>7 DEF ListEnd, KInv
<1> QED
  BY <1>1, <1>2, <1>3, <1>4, <1>5, <1>6, <1>7 DEF ListingNext

\* However often windows shift during a listing, it passes over no window that is held
\* from its beginning to its end.
THEOREM LastingAlwaysListed ==
    ASSUME NumPeriods \in Nat \ {0}, Fields \in Nat \ {0}
    PROVE  ListingSpec => []LastingAreListed
<1>1. KInv => LastingAreListed
  BY DEF KInv, LastingAreListed, Listed
<1>2. ListingInit => LInv /\ KInv
  BY LInvInit DEF ListingInit, KInv
<1>3. LInv /\ KInv /\ [ListingNext]_listingVars => LInv' /\ KInv'
  BY LInvNext, KInvNext
<1> QED
  BY <1>1, <1>2, <1>3, PTL DEF ListingSpec
=============================================================================
