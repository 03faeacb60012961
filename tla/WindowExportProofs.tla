-------------------------- MODULE WindowExportProofs -------------------------
(***************************************************************************)
(* Proofs about the exports of MetricsWindow for an input with one         *)
(* delivering thread: no window expires unpushed, the export marker is     *)
(* exact, and the handler with its exporter implements WindowExport.       *)
(***************************************************************************)
EXTENDS MetricsWindowProofs

\* The starts of the windows increase, and by whole seconds.
StartsApart == \A j, k \in 1..Live : j < k => win[j].start.sec < win[k].start.sec

\* The next shift is due a period after the live window started; only the first
\* window may be due sooner, by what the constructor took.
ShiftDue ==
    /\ (\A w \in Writers : wpc[w] # "restamp") =>
          /\ win[Live].start.sec < nextShift
          /\ nextShift <= win[Live].start.sec + PeriodSec
          /\ Live > 1 => nextShift = win[Live].start.sec + PeriodSec
    /\ \A w \in Writers : wpc[w] = "shift" => stamp[w].sec >= nextShift
    /\ \A w \in Writers : wpc[w] = "restamp" => Live > 1 /\ stamp[w].sec = win[Live].start.sec

\* Only the newest closed window can be waiting for its push, and then there was
\* no check since shortly after it closed.
OnlyNewestWaits ==
    /\ \A k \in 1..Live - 2 : win[k].pushed = 1
    /\ Live > 1 /\ win[Live - 1].pushed = 0 => checkedAt <= win[Live].start.sec + MaxLag

\* What the windows show of the exports so far.
PushedInv ==
    /\ \A k \in 1..Live : win[k].start.sec >= 0
    /\ StartsApart
    /\ oldest = 1 \/ oldest < Live
    /\ MarkerExact
    /\ win[Live].pushed = 0 /\ StartsAfter(win[Live].start, lastStart)
    /\ OnlyNewestWaits

\* Inductive for one writer.
ExportInv == BoundInv /\ PushedInv /\ OnTime /\ ShiftDue /\ EventInItsWindow

\* The invariant holds when the constructor returns.
LEMMA ExportInit == Init => ExportInv
<1> SUFFICES ASSUME Init PROVE ExportInv
  BY Zenon
<1> USE WindowConstants, CheckedInTime
<1>1. PICK d \in 0..MaxLag, n \in Nsecs :
        /\ now = d
        /\ win = <<NewBucket([sec |-> d, nsec |-> n])>>
        /\ checkedAt \in d - ExportSec .. d
  BY Zenon DEF Init
<1>2. [sec |-> d, nsec |-> n] \in Stamps
  BY DEF Stamps
<1>3. /\ NewBucket([sec |-> d, nsec |-> n]).start = [sec |-> d, nsec |-> n]
      /\ NewBucket([sec |-> d, nsec |-> n]).pushed = 0
  BY <1>2, NewBucketFacts, Zenon
<1>4. Live = 1 /\ win[1].start.sec = d /\ win[1].pushed = 0
  BY <1>1, <1>3 DEF Live
<1>5. BoundInv
  BY BoundInit, Zenon
<1>6. PushedInv
  BY <1>4 DEF Init, PushedInv, StartsApart, MarkerExact, OnlyNewestWaits, StartsAfter
<1>7. OnTime
  BY <1>1 DEF Init, OnTime
<1>8. ShiftDue
  BY <1>4 DEF Init, ShiftDue
<1>9. EventInItsWindow
  BY Zenon DEF Init, EventInItsWindow
<1> QED
  BY <1>5, <1>6, <1>7, <1>8, <1>9, Zenon DEF ExportInv

\* A step that keeps the starts, the pushes and the marker keeps PushedInv.
LEMMA SamePushes ==
    ASSUME TypeOK, PushedInv, Len(win') = Len(win),
           \A k \in 1..Len(win) : win'[k].start = win[k].start /\ win'[k].pushed = win[k].pushed,
           UNCHANGED <<oldest, lastStart, checkedAt>>
    PROVE  PushedInv' /\ Live' = Live /\ win'[Live].start = win[Live].start
<1>1. Live = Len(win) /\ Live \in Nat /\ Live >= 1
  BY WindowsTyped, Zenon
<1>2. Live' = Live /\ \A k \in 1..Live : win'[k].start = win[k].start /\ win'[k].pushed = win[k].pushed
  BY <1>1, Zenon DEF Live
<1>3. StartsApart'
  BY <1>1, <1>2 DEF PushedInv, StartsApart
<1>4. MarkerExact'
  BY <1>1, <1>2 DEF PushedInv, MarkerExact
<1>5. OnlyNewestWaits'
  BY <1>1, <1>2 DEF PushedInv, OnlyNewestWaits
<1> QED
  BY <1>1, <1>2, <1>3, <1>4, <1>5 DEF PushedInv

\* When the single writer shifts, every closed window has been pushed: the shift
\* comes a period after the last one, and a check came in between.
LEMMA PushedBeforeShift ==
    ASSUME OneWriter, ExportInv, NEW w \in Writers, wpc[w] = "shift"
    PROVE  /\ \A k \in 1..Live - 1 : win[k].pushed = 1
           /\ win[Live].start.sec < stamp[w].sec
<1> USE WindowConstants, CheckedInTime
<1>1. TypeOK
  BY Zenon DEF ExportInv, BoundInv
<1>2. /\ Live \in Nat /\ Live >= 1 /\ now \in Nat /\ checkedAt \in Int /\ nextShift \in Int
      /\ stamp[w].sec \in Int /\ win[Live].start.sec \in Int
      /\ \A k \in 1..Live : win[k].pushed \in Nat
  BY <1>1, WindowsTyped
<1>3. \A v \in Writers : wpc[v] # "restamp"
  BY Zenon DEF OneWriter
<1>4. /\ stamp[w].sec >= nextShift /\ win[Live].start.sec < nextShift
      /\ Live > 1 => nextShift = win[Live].start.sec + PeriodSec
  BY <1>3, Zenon DEF ExportInv, ShiftDue
<1>5. stamp[w].sec <= now /\ now <= checkedAt + ExportSec + MaxPost
  BY Zenon DEF ExportInv, OnTime
<1>6. ASSUME Live > 1 PROVE win[Live - 1].pushed = 1
  <2>1. win[Live - 1].pushed \in {0, 1}
    BY <1>2, <1>6 DEF ExportInv, PushedInv, MarkerExact
  <2>2. ASSUME win[Live - 1].pushed = 0 PROVE FALSE
    <3>1. checkedAt <= win[Live].start.sec + MaxLag
      BY <1>6, <2>2, Zenon DEF ExportInv, PushedInv, OnlyNewestWaits
    <3> QED
      BY <1>2, <1>4, <1>5, <1>6, <3>1
  <2> QED
    BY <2>1, <2>2, Zenon
<1>7. ASSUME NEW k \in 1..Live - 1 PROVE win[k].pushed = 1
  <2>1. CASE k = Live - 1
    BY <1>2, <1>6, <2>1
  <2>2. CASE k # Live - 1
    BY <1>2, <2>2 DEF ExportInv, PushedInv, OnlyNewestWaits
  <2> QED
    BY <2>1, <2>2, Zenon
<1> QED
  BY <1>2, <1>4, <1>7

\* The shift of the single writer.
LEMMA ShiftKeepsExport ==
    ASSUME OneWriter, ExportInv, NEW w \in Writers, PeriodShift(w)
    PROVE  ExportInv'
<1> USE WindowConstants, CheckedInTime
<1> DEFINE s == stamp[w]
<1>1. TypeOK /\ TypeOK'
  BY ShiftKeepsBound, Zenon DEF ExportInv, BoundInv
<1>2. /\ win \in Seq(Buckets) /\ Live = Len(win) /\ Live \in Nat /\ Live >= 1
      /\ oldest \in 1..Live /\ lastStart \in Stamps
      /\ now \in Nat /\ checkedAt \in Int /\ nextShift \in Int
      /\ s \in Stamps /\ s.sec \in Int
      /\ \A k \in 1..Live : win[k] \in Buckets /\ win[k].start \in Stamps /\ win[k].start.sec \in Int
  BY <1>1, WindowsTyped, Zenon
<1>3. /\ \A k \in 1..Live - 1 : win[k].pushed = 1
      /\ win[Live].start.sec < s.sec
  BY PushedBeforeShift, Zenon DEF PeriodShift
<1>4. /\ win' = Shifted(win, s)
      /\ oldest' = OldestAfterShift(win, oldest, NumPeriods)
      /\ wpc' = [wpc EXCEPT ![w] = "restamp"] /\ wpc[w] = "shift"
      /\ UNCHANGED <<now, nextShift, stamp, lastStart, checkedAt>>
  BY Zenon DEF PeriodShift
<1>5. wpc'[w] = "restamp" /\ \A v \in Writers : v = w
  BY <1>1, <1>4, Zenon DEF TypeOK, OneWriter
<1>6. s.sec <= now /\ now <= s.sec + MaxLag /\ checkedAt <= now /\ now <= checkedAt + ExportSec + MaxPost
  BY <1>4, Zenon DEF ExportInv, OnTime
<1> HIDE DEF s
<1>7. /\ Len(win') = Len(win) + 1
      /\ win'[Len(win) + 1] = NewBucket(s)
      /\ win'[Len(win)] = SetReadOnly(win[Len(win)], s)
      /\ \A k \in 1..Len(win) - 1 : win'[k] = win[k]
  BY <1>2, <1>4, ShiftedFacts, Zenon
<1>8. Live' = Live + 1 /\ win'[Live + 1].start = s /\ win'[Live + 1].pushed = 0
  BY <1>2, <1>7, NewBucketFacts, Zenon DEF Live
<1>9. \A k \in 1..Live : win'[k].start = win[k].start /\ win'[k].pushed = win[k].pushed
  <2>1. win'[Live].start = win[Live].start /\ win'[Live].pushed = win[Live].pushed
    BY <1>2, <1>7, SetReadOnlyFacts
  <2>2. \A k \in 1..Live : k = Live \/ k \in 1..Live - 1
    BY <1>2
  <2>3. \A k \in 1..Live - 1 : win'[k] = win[k]
    BY <1>7, Zenon DEF Live
  <2> QED
    BY <2>1, <2>2, <2>3, Zenon
<1>L. Live \in Nat /\ Live >= 1 /\ s.sec \in Int /\ \A k \in 1..Live : win[k].start.sec \in Int
  BY <1>2, Zenon
<1>10. BoundInv'
  BY ShiftKeepsBound, Zenon DEF ExportInv
<1>11. PushedInv'
  <2>1. win[Live].pushed = 0 /\ StartsAfter(win[Live].start, lastStart)
    BY Zenon DEF ExportInv, PushedInv
  <2>2. ASSUME NEW k \in 1..Live' PROVE win'[k].start.sec >= 0
    <3>1. \A i \in 1..Live : win[i].start.sec >= 0
      BY Zenon DEF ExportInv, PushedInv
    <3>2. CASE k = Live + 1
      BY <1>L, <1>3, <1>8, <3>1, <3>2
    <3>3. CASE k # Live + 1
      <4>1. k \in 1..Live
        BY <1>L, <1>8, <3>3
      <4> QED
        BY <1>9, <3>1, <4>1, Zenon
    <3> QED
      BY <3>2, <3>3, Zenon
  <2>3. StartsApart'
    <3> SUFFICES ASSUME NEW j \in 1..Live + 1, NEW k \in 1..Live + 1, j < k
                 PROVE  win'[j].start.sec < win'[k].start.sec
      BY <1>8, Zenon DEF StartsApart
    <3>1. CASE k <= Live
      BY <1>L, <1>9, <3>1 DEF ExportInv, PushedInv, StartsApart
    <3>2. CASE k = Live + 1
      <4>1. j \in 1..Live /\ Live \in 1..Live
        BY <1>L, <3>2
      <4>2. j = Live \/ win[j].start.sec < win[Live].start.sec
        BY <1>L, <4>1 DEF ExportInv, PushedInv, StartsApart
      <4>3. win[j].start.sec < s.sec
        BY <1>L, <1>3, <4>1, <4>2
      <4>4. win'[j].start = win[j].start /\ win'[k].start = s
        BY <1>8, <1>9, <3>2, <4>1, Zenon
      <4> QED
        BY <4>3, <4>4, Zenon
    <3> QED
      BY <1>L, <3>1, <3>2
  <2>4. oldest' = 1 \/ oldest' < Live'
    BY <1>2, <1>4, <1>8 DEF OldestAfterShift, Size
  <2>5. MarkerExact'
    <3> SUFFICES ASSUME NEW k \in 1..Live
                 PROVE  win'[k].pushed = IF StartsAfter(win'[k].start, lastStart') THEN 0 ELSE 1
      BY <1>L, <1>8 DEF MarkerExact
    <3>1. win'[k].start = win[k].start /\ win'[k].pushed = win[k].pushed /\ lastStart' = lastStart
      BY <1>4, <1>9, Zenon
    <3>2. CASE k = Live
      BY <2>1, <3>1, <3>2, Zenon
    <3>3. CASE k # Live
      <4>1. k \in 1..Live - 1
        BY <1>L, <3>3
      <4> QED
        BY <3>1, <4>1, Zenon DEF ExportInv, PushedInv, MarkerExact
    <3> QED
      BY <3>2, <3>3, Zenon
  <2>6. StartsAfter(s, lastStart)
    BY <1>2, <1>3, <2>1 DEF StartsAfter, Stamps
  <2>7. OnlyNewestWaits'
    <3>1. \A k \in 1..Live' - 2 : win'[k].pushed = 1
      BY <1>L, <1>3, <1>8, <1>9
    <3>2. checkedAt' <= win'[Live'].start.sec + MaxLag
      <4>1. win'[Live'].start = s /\ checkedAt' = checkedAt
        BY <1>4, <1>8, Zenon
      <4> QED
        BY <1>2, <1>6, <4>1, SMTT(30)
    <3> QED
      BY <3>1, <3>2, Zenon DEF OnlyNewestWaits
  <2> QED
    BY <1>2, <1>4, <1>8, <2>2, <2>3, <2>4, <2>5, <2>6, <2>7, Zenon DEF PushedInv
<1>12. OnTime'
  BY <1>4, <1>5, <1>6, Zenon DEF OnTime, s
<1>13. ShiftDue'
  <2>1. Live' > 1
    BY <1>L, <1>8
  <2>2. stamp'[w].sec = win'[Live'].start.sec
    BY <1>4, <1>8, Zenon DEF s
  <2>3. \A v \in Writers : wpc'[v] = "restamp" /\ stamp'[v].sec = win'[Live'].start.sec
    BY <1>5, <2>2, Zenon
  <2>4. w \in Writers
    BY Zenon
  <2> QED
    BY <2>1, <2>3, <2>4, Zenon DEF ShiftDue
<1>14. EventInItsWindow'
  BY <1>5, Zenon DEF EventInItsWindow
<1> QED
  BY <1>10, <1>11, <1>12, <1>13, <1>14, Zenon DEF ExportInv

\* After an export every closed window has been pushed once, the expired ones
\* included, and no window of the deque starts at or before the marker but
\* those.
LEMMA ExportPushesAll ==
    ASSUME ExportInv, Export
    PROVE  /\ \A k \in 1..Live - 1 : win'[k].pushed = 1
           /\ win'[Live].pushed = 0
           /\ \A k \in 1..Live - 1 : ~StartsAfter(win[k].start, lastStart')
           /\ StartsAfter(win[Live].start, lastStart')
<1>1. TypeOK
  BY Zenon DEF ExportInv, BoundInv
<1>2. /\ win \in Seq(Buckets) /\ Live = Len(win) /\ Live \in Nat /\ Live >= 1
      /\ oldest \in 1..Live /\ lastStart \in Stamps
      /\ \A k \in 1..Live : /\ win[k].start \in Stamps /\ win[k].start.sec \in Int
                            /\ win[k].pushed \in Nat
  BY <1>1, WindowsTyped, Zenon
<1>3. /\ \A j, k \in 1..Live : j < k => win[j].start.sec < win[k].start.sec
      /\ \A k \in 1..Live : win[k].start.sec >= 0
      /\ oldest = 1 \/ oldest < Live
      /\ win[Live].pushed = 0 /\ StartsAfter(win[Live].start, lastStart)
      /\ \A k \in 1..Live - 2 : win[k].pushed = 1
  BY Zenon DEF ExportInv, PushedInv, StartsApart, OnlyNewestWaits
<1>4. \A k \in 1..Live - 1 : win[k].pushed = IF StartsAfter(win[k].start, lastStart) THEN 0 ELSE 1
  BY Zenon DEF ExportInv, PushedInv, MarkerExact
<1>5. ~win[Live].readOnly
  BY Zenon DEF ExportInv, BoundInv
<1> DEFINE todo == Unexported(win, oldest, lastStart)
<1>6. \A k \in 1..Live : win'[k].pushed = IF k \in todo THEN win[k].pushed + 1 ELSE win[k].pushed
  BY <1>2, ExportedFacts DEF Export
<1>7. \A k : k \in todo <=> k \in oldest..Live - 1 /\ StartsAfter(win[k].start, lastStart)
  BY <1>2, <1>5, Zenon DEF Unexported, NewestClosed
<1>8. lastStart' = LastExported(win, oldest, lastStart)
  BY Zenon DEF Export
<1>9. CASE todo = {}
  <2>1. lastStart' = lastStart
    BY <1>8, <1>9, Zenon DEF LastExported
  <2>2. ASSUME NEW k \in 1..Live - 1 PROVE ~StartsAfter(win[k].start, lastStart)
    <3>1. CASE k \in oldest..Live - 1
      BY <1>7, <1>9, <3>1, Zenon
    <3>2. CASE k \notin oldest..Live - 1
      BY <1>2, <1>3, <1>4, <3>2
    <3> QED
      BY <3>1, <3>2, Zenon
  <2>3. \A k \in 1..Live - 1 : win[k].pushed = 1
    BY <1>4, <2>2, Zenon
  <2> HIDE DEF todo
  <2> QED
    BY <1>2, <1>3, <1>6, <1>9, <2>1, <2>2, <2>3
<1>10. CASE todo # {}
  <2>1. lastStart' = win[Live - 1].start /\ Live - 1 \in oldest..Live
    BY <1>2, <1>3, <1>5, <1>8, <1>10, LastExportedFacts, Zenon
  <2>2. Live - 1 \in 1..Live - 1
    BY <1>2, <2>1
  <2>3. win[Live - 1].start # NoStamp
    <3>1. Live - 1 \in 1..Live
      BY <1>2, <2>2
    <3>2. win[Live - 1].start.sec >= 0
      BY <1>3, <3>1, Zenon
    <3> QED
      BY <3>2 DEF NoStamp
  <2>4. ASSUME NEW k \in 1..Live - 1 PROVE ~StartsAfter(win[k].start, lastStart')
    <3>1. k = Live - 1 \/ win[k].start.sec < win[Live - 1].start.sec
      BY <1>2, <1>3, <2>2
    <3>2. win[k].start \in Stamps /\ win[Live - 1].start \in Stamps
      BY <1>2, <2>2
    <3> QED
      BY <2>1, <2>3, <3>1, <3>2 DEF StartsAfter, Stamps
  <2>5. StartsAfter(win[Live].start, lastStart')
    <3>1. win[Live - 1].start.sec < win[Live].start.sec
      BY <1>2, <1>3, <2>2
    <3> QED
      BY <2>1, <3>1, <1>2, <2>2 DEF StartsAfter
  <2>6. ASSUME NEW k \in 1..Live - 1 PROVE win'[k].pushed = 1
    <3>1. CASE k \in todo
      BY <1>2, <1>4, <1>6, <1>7, <3>1
    <3>2. CASE k \notin todo
      <4>1. CASE k \in oldest..Live - 1
        <5>1. ~StartsAfter(win[k].start, lastStart) /\ k \in 1..Live
          BY <1>2, <1>7, <3>2, <4>1
        <5>2. win[k].pushed = 1
          BY <1>4, <5>1, Zenon
        <5> QED
          BY <1>6, <3>2, <5>1, <5>2, Zenon
      <4>2. CASE k \notin oldest..Live - 1
        <5>1. k \in 1..Live - 2
          BY <1>2, <1>3, <4>2
        <5>2. win[k].pushed = 1 /\ k \in 1..Live
          BY <1>2, <1>3, <5>1
        <5> QED
          BY <1>6, <3>2, <5>2, Zenon
      <4> QED
        BY <4>1, <4>2, Zenon
    <3> QED
      BY <3>1, <3>2, Zenon
  <2>7. win'[Live].pushed = 0
    BY <1>2, <1>3, <1>6, <1>7
  <2> QED
    BY <2>4, <2>5, <2>6, <2>7, Zenon
<1> QED
  BY <1>9, <1>10, Zenon

\* The check of the exporter.
LEMMA ExportKeepsExport ==
    ASSUME ExportInv, Export
    PROVE  ExportInv'
<1> USE WindowConstants, CheckedInTime
<1>1. TypeOK /\ BoundInv'
  BY ExportKeepsBound, Zenon DEF ExportInv, BoundInv
<1>2. /\ win \in Seq(Buckets) /\ Live = Len(win) /\ Live \in Nat /\ Live >= 1
      /\ now \in Nat /\ checkedAt \in Int
  BY <1>1, WindowsTyped, Zenon
<1>3. Len(win') = Len(win) /\ \A k \in 1..Len(win) : win'[k].start = win[k].start
  <2>1. win' = Exported(win, oldest, lastStart)
    BY Zenon DEF Export
  <2>2. win \in Seq(Buckets)
    BY <1>2, Zenon
  <2> QED
    BY <2>1, <2>2, ExportedStarts
<1>4. Live' = Live /\ \A k \in 1..Live : win'[k].start = win[k].start
  BY <1>2, <1>3, Zenon DEF Live
<1>5. /\ \A k \in 1..Live - 1 : win'[k].pushed = 1
      /\ win'[Live].pushed = 0
      /\ \A k \in 1..Live - 1 : ~StartsAfter(win[k].start, lastStart')
      /\ StartsAfter(win[Live].start, lastStart')
  BY ExportPushesAll, Zenon
<1>6. /\ oldest' = oldest /\ nextShift' = nextShift /\ wpc' = wpc /\ stamp' = stamp
      /\ now' = now /\ checkedAt' = now
  BY Zenon DEF Export, writerVars
<1>7. PushedInv'
  <2>1. StartsApart'
    BY <1>4 DEF ExportInv, PushedInv, StartsApart
  <2>2. MarkerExact'
    BY <1>2, <1>4, <1>5 DEF MarkerExact
  <2>3. OnlyNewestWaits'
    BY <1>2, <1>4, <1>5 DEF OnlyNewestWaits
  <2> QED
    BY <1>2, <1>4, <1>5, <1>6, <2>1, <2>2, <2>3 DEF ExportInv, PushedInv
<1>8. OnTime'
  BY <1>2, <1>6 DEF ExportInv, OnTime
<1>9. ShiftDue' /\ EventInItsWindow'
  BY <1>2, <1>4, <1>6 DEF ExportInv, ShiftDue, EventInItsWindow
<1> QED
  BY <1>1, <1>7, <1>8, <1>9, Zenon DEF ExportInv

\* ExportInv is preserved by every step of a system with one writer.
LEMMA ExportNext ==
    ASSUME OneWriter
    PROVE  ExportInv /\ [Next]_vars => ExportInv'
<1> SUFFICES ASSUME ExportInv, [Next]_vars PROVE ExportInv'
  BY Zenon
<1> USE WindowConstants, CheckedInTime
<1>B. BoundInv'
  BY BoundNext, Zenon DEF ExportInv
<1>T. TypeOK /\ TypeOK'
  BY <1>B, Zenon DEF ExportInv, BoundInv
<1>W. /\ win \in Seq(Buckets) /\ Live = Len(win) /\ Live \in Nat /\ Live >= 1
      /\ now \in Nat /\ checkedAt \in Int /\ nextShift \in Int /\ win[Live].start.sec \in Int
      /\ \A v \in Writers : stamp[v].sec \in Int
  BY <1>T, WindowsTyped
\* Steps that leave the windows alone.
<1>U. ASSUME UNCHANGED <<win, oldest, lastStart, checkedAt>>
      PROVE  PushedInv' /\ Live' = Live /\ win'[Live].start = win[Live].start
  BY <1>T, <1>U, SamePushes, Zenon DEF ExportInv
<1>1. ASSUME NEW w \in Writers, NewEvent(w) PROVE ExportInv'
  <2>1. UNCHANGED <<now, win, oldest, nextShift, lastStart, checkedAt>>
    BY <1>1, Zenon DEF NewEvent
  <2>2. PICK f \in FreshStamps :
          /\ stamp' = [stamp EXCEPT ![w] = f]
          /\ wpc' = [wpc EXCEPT ![w] = IF WillShift(f) THEN "shift" ELSE "count"]
    BY <1>1, Zenon DEF NewEvent
  <2>3. f \in Stamps /\ f.sec \in Int /\ f.sec <= now /\ now <= f.sec + MaxLag
    BY <1>T, FreshStampsType, Zenon DEF Stamps
  <2>4. /\ stamp'[w] = f /\ wpc[w] = "idle" /\ \A v \in Writers : v = w
        /\ wpc'[w] = IF f.sec >= nextShift THEN "shift" ELSE "count"
    BY <1>1, <1>T, <2>2 DEF TypeOK, NewEvent, OneWriter, WillShift
  <2>5. /\ win[Live].start.sec < nextShift
        /\ nextShift <= win[Live].start.sec + PeriodSec
        /\ Live > 1 => nextShift = win[Live].start.sec + PeriodSec
    BY <2>4, Zenon DEF ExportInv, ShiftDue
  <2>6. OnTime'
    BY <2>1, <2>3, <2>4, Zenon DEF ExportInv, OnTime
  <2>7. ShiftDue'
    BY <1>U, <2>1, <2>3, <2>4, <2>5, Zenon DEF ShiftDue
  <2>8. EventInItsWindow'
    <3>1. wpc'[w] = "count" => f.sec < win[Live].start.sec + PeriodSec
      BY <1>W, <2>3, <2>4, <2>5
    <3>2. win'[Live'].start.sec = win[Live].start.sec
      BY <1>U, <2>1, Zenon
    <3> QED
      BY <2>4, <3>1, <3>2, Zenon DEF EventInItsWindow
  <2> QED
    BY <1>B, <1>U, <2>1, <2>6, <2>7, <2>8, Zenon DEF ExportInv
<1>2. ASSUME NEW w \in Writers, CheckPeriodShift(w) PROVE ExportInv'
  <2>1. UNCHANGED <<now, win, oldest, nextShift, lastStart, checkedAt>>
    BY <1>2, Zenon DEF CheckPeriodShift
  <2>2. CASE UNCHANGED <<stamp, wpc, job>>
    <3>1. OnTime' /\ ShiftDue' /\ EventInItsWindow'
      BY <1>U, <2>1, <2>2, Zenon DEF ExportInv, OnTime, ShiftDue, EventInItsWindow
    <3> QED
      BY <1>B, <1>U, <2>1, <3>1, Zenon DEF ExportInv
  <2>3. ASSUME NEW f \in FreshStamps, WillShift(f),
               stamp' = [stamp EXCEPT ![w] = f], wpc' = [wpc EXCEPT ![w] = "shift"]
        PROVE  ExportInv'
    <3>1. f \in Stamps /\ f.sec \in Int /\ f.sec <= now /\ now <= f.sec + MaxLag
      BY <1>T, FreshStampsType, Zenon DEF Stamps
    <3>2. /\ stamp'[w] = f /\ wpc[w] = "idle" /\ wpc'[w] = "shift" /\ f.sec >= nextShift
          /\ \A v \in Writers : v = w
      BY <1>2, <1>T, <2>3 DEF TypeOK, CheckPeriodShift, OneWriter, WillShift
    <3>3. /\ win[Live].start.sec < nextShift
          /\ nextShift <= win[Live].start.sec + PeriodSec
          /\ Live > 1 => nextShift = win[Live].start.sec + PeriodSec
      BY <3>2, Zenon DEF ExportInv, ShiftDue
    <3>4. OnTime'
      BY <2>1, <3>1, <3>2, Zenon DEF ExportInv, OnTime
    <3>5. ShiftDue' /\ EventInItsWindow'
      BY <1>U, <2>1, <3>1, <3>2, <3>3, Zenon DEF ShiftDue, EventInItsWindow
    <3> QED
      BY <1>B, <1>U, <2>1, <3>4, <3>5, Zenon DEF ExportInv
  <2> QED
    BY <1>2, <2>2, <2>3, Zenon DEF CheckPeriodShift
<1>3. ASSUME NEW w \in Writers, PeriodShift(w) PROVE ExportInv'
  BY <1>3, ShiftKeepsExport, Zenon
<1>4. ASSUME NEW w \in Writers, Restamp(w) PROVE ExportInv'
  <2>1. UNCHANGED <<now, win, oldest, stamp, lastStart, checkedAt>> /\ wpc[w] = "restamp"
    BY <1>4, Zenon DEF Restamp
  <2>2. /\ wpc'[w] \in {"count", "idle"} /\ \A v \in Writers : v = w
        /\ nextShift' = stamp[w].sec + PeriodSec
    BY <1>4, <1>T, Zenon DEF TypeOK, Restamp, OneWriter
  <2>3. stamp[w].sec = win[Live].start.sec
    BY <2>1, Zenon DEF ExportInv, ShiftDue
  <2>4. OnTime'
    BY <2>1, <2>2, Zenon DEF ExportInv, OnTime
  <2>5. ShiftDue'
    BY <1>U, <1>W, <2>1, <2>2, <2>3, SMTT(30) DEF ShiftDue
  <2>6. EventInItsWindow'
    BY <1>U, <1>W, <2>1, <2>2, <2>3, SMTT(30) DEF EventInItsWindow
  <2> QED
    BY <1>B, <1>U, <2>1, <2>4, <2>5, <2>6, Zenon DEF ExportInv
<1>5. ASSUME NEW w \in Writers, CountEvent(w) PROVE ExportInv'
  <2>1. Len(win') = Len(win) /\ \A k \in 1..Len(win) : win'[k].start = win[k].start /\ win'[k].pushed = win[k].pushed
    <3>1. Len(win) \in 1..Len(win) /\ win' = [win EXCEPT ![Len(win)].events = @ + 1]
      BY <1>5, <1>W DEF CountEvent
    <3>2. /\ Len(win') = Len(win)
          /\ win'[Len(win)].start = win[Len(win)].start /\ win'[Len(win)].pushed = win[Len(win)].pushed
          /\ \A k \in 1..Len(win) : k # Len(win) => win'[k] = win[k]
      BY <1>W, <3>1, EventCounted
    <3> QED
      BY <3>2, Zenon
  <2>2. UNCHANGED <<now, oldest, nextShift, stamp, lastStart, checkedAt>>
    BY <1>5, Zenon DEF CountEvent
  <2>3. PushedInv' /\ Live' = Live /\ win'[Live].start = win[Live].start
    BY <1>T, <2>1, <2>2, SamePushes, Zenon DEF ExportInv
  <2>4. wpc[w] = "count" /\ wpc'[w] = "fetch" /\ \A v \in Writers : v = w
    BY <1>5, <1>T, Zenon DEF TypeOK, CountEvent, OneWriter
  <2>5. OnTime' /\ ShiftDue' /\ EventInItsWindow'
    BY <2>2, <2>3, <2>4, Zenon DEF ExportInv, OnTime, ShiftDue, EventInItsWindow
  <2> QED
    BY <1>B, <2>3, <2>5, Zenon DEF ExportInv
<1>6. ASSUME NEW w \in Writers, LiveBucket(w) PROVE ExportInv'
  <2>1. UNCHANGED <<now, win, oldest, nextShift, stamp, lastStart, checkedAt>>
    BY <1>6, Zenon DEF LiveBucket
  <2>2. wpc[w] = "fetch" /\ wpc'[w] = "record" /\ \A v \in Writers : v = w
    BY <1>6, <1>T, Zenon DEF TypeOK, LiveBucket, OneWriter
  <2>3. OnTime' /\ ShiftDue' /\ EventInItsWindow'
    BY <1>U, <2>1, <2>2, Zenon DEF ExportInv, OnTime, ShiftDue, EventInItsWindow
  <2> QED
    BY <1>B, <1>U, <2>1, <2>3, Zenon DEF ExportInv
<1>7. ASSUME NEW w \in Writers, Record(w) PROVE ExportInv'
  <2>1. Len(win') = Len(win) /\ \A k \in 1..Len(win) : win'[k].start = win[k].start /\ win'[k].pushed = win[k].pushed
    <3>1. ptr[w] \in 1..Len(win) /\ win' = [win EXCEPT ![ptr[w]].metrics = @ + 1]
      BY <1>7, <1>W, Zenon DEF Record, ExportInv, BoundInv
    <3>2. /\ Len(win') = Len(win)
          /\ win'[ptr[w]].start = win[ptr[w]].start /\ win'[ptr[w]].pushed = win[ptr[w]].pushed
          /\ \A k \in 1..Len(win) : k # ptr[w] => win'[k] = win[k]
      BY <1>W, <3>1, MetricsRecorded
    <3> QED
      BY <3>2, Zenon
  <2>2. UNCHANGED <<now, oldest, nextShift, stamp, lastStart, checkedAt>>
    BY <1>7, Zenon DEF Record
  <2>3. PushedInv' /\ Live' = Live /\ win'[Live].start = win[Live].start
    BY <1>T, <2>1, <2>2, SamePushes, Zenon DEF ExportInv
  <2>4. wpc[w] = "record" /\ wpc'[w] = "idle" /\ \A v \in Writers : v = w
    BY <1>7, <1>T, Zenon DEF TypeOK, Record, OneWriter
  <2>5. OnTime' /\ ShiftDue' /\ EventInItsWindow'
    BY <2>2, <2>3, <2>4, Zenon DEF ExportInv, OnTime, ShiftDue, EventInItsWindow
  <2> QED
    BY <1>B, <2>3, <2>5, Zenon DEF ExportInv
<1>8. ASSUME Export PROVE ExportInv'
  BY <1>8, ExportKeepsExport, Zenon
<1>9. ASSUME UNCHANGED <<now, win, oldest, nextShift, writerVars, lastStart, checkedAt>> PROVE ExportInv'
  <2>1. OnTime' /\ ShiftDue' /\ EventInItsWindow'
    BY <1>U, <1>9, Zenon DEF ExportInv, OnTime, ShiftDue, EventInItsWindow, writerVars
  <2> QED
    BY <1>B, <1>U, <1>9, <2>1, Zenon DEF ExportInv
<1>10. ASSUME Tick PROVE ExportInv'
  <2>1. UNCHANGED <<win, oldest, nextShift, wpc, stamp, lastStart, checkedAt>>
    BY <1>10, Zenon DEF Tick, writerVars
  <2>2. OnTime'
    BY <1>10, <1>W, <2>1 DEF Tick, ExportInv, OnTime
  <2>3. ShiftDue' /\ EventInItsWindow'
    BY <1>U, <2>1, Zenon DEF ExportInv, ShiftDue, EventInItsWindow
  <2> QED
    BY <1>B, <1>U, <2>1, <2>2, <2>3, Zenon DEF ExportInv
<1>11. ASSUME NEW r \in Readers, Reader(r)
       PROVE  UNCHANGED <<now, win, oldest, nextShift, writerVars, lastStart, checkedAt>>
  BY <1>11, Zenon DEF Reader, CurrentPeriods, WindowPrometheus
<1>12. ASSUME UNCHANGED vars
       PROVE  UNCHANGED <<now, win, oldest, nextShift, writerVars, lastStart, checkedAt>>
  BY <1>12, Zenon DEF vars
<1> QED
  BY <1>1, <1>2, <1>3, <1>4, <1>5, <1>6, <1>7, <1>8, <1>9, <1>10, <1>11, <1>12, Zenon DEF Next, Writer

\* With one writer the invariant of the exports holds throughout.
THEOREM ExportInvariant ==
    ASSUME OneWriter
    PROVE  Spec => []ExportInv
BY ExportInit, ExportNext, PTL DEF Spec

\* No window of an input with one delivering thread expires before it was
\* pushed, provided a check comes at least every ExportSec + MaxPost seconds:
\* what main.cpp expects of clamping the interval to half a window.
THEOREM NoWindowLost ==
    ASSUME OneWriter
    PROVE  Spec => []NoneExpiresUnpushed
<1>1. ExportInv => NoneExpiresUnpushed
  <2> SUFFICES ASSUME ExportInv, NEW k \in 1..oldest - 1 PROVE win[k].pushed >= 1
    BY Zenon DEF NoneExpiresUnpushed
  <2>1. Live \in Nat /\ oldest \in 1..Live
    BY WindowsTyped, Zenon DEF ExportInv, BoundInv
  <2>2. k \in 1..Live - 2
    BY <2>1 DEF ExportInv, PushedInv
  <2> QED
    BY <2>2 DEF ExportInv, PushedInv, OnlyNewestWaits
<1> QED
  BY <1>1, ExportInvariant, PTL

\* The marker _otel_last_window tells exactly which closed windows were pushed,
\* each once.
THEOREM MarkerIsExact ==
    ASSUME OneWriter
    PROVE  Spec => []MarkerExact
<1>1. ExportInv => MarkerExact
  BY Zenon DEF ExportInv, PushedInv
<1> QED
  BY <1>1, ExportInvariant, PTL

\* Each window starts later than the one before.
THEOREM WindowStartsIncrease ==
    ASSUME OneWriter
    PROVE  Spec => []StartsIncrease
<1>1. ExportInv => StartsIncrease
  <2> SUFFICES ASSUME ExportInv, NEW k \in 1..Live - 1
               PROVE  StartsAfter(win[k + 1].start, win[k].start)
    BY Zenon DEF StartsIncrease
  <2>1. Live \in Nat /\ k + 1 \in 1..Live /\ k \in 1..Live
    BY WindowsTyped DEF ExportInv, BoundInv
  <2>2. win[k].start.sec < win[k + 1].start.sec
    BY <2>1 DEF ExportInv, PushedInv, StartsApart
  <2>3. win[k].start.sec \in Int /\ win[k + 1].start.sec \in Int
    BY <2>1, WindowsTyped, Zenon DEF ExportInv, BoundInv
  <2> QED
    BY <2>2, <2>3, Zenon DEF StartsAfter
<1> QED
  BY <1>1, ExportInvariant, PTL

\* An event never lands in a window that should have closed before it.
THEOREM EventsInTheirWindows ==
    ASSUME OneWriter
    PROVE  Spec => []EventInItsWindow
<1>1. ExportInv => EventInItsWindow
  BY Zenon DEF ExportInv
<1> QED
  BY <1>1, ExportInvariant, PTL

\* A sequence of counts with a zero added, written as a function.
LEMMA AppendZero ==
    ASSUME NEW c \in Seq(Nat), NEW n \in Nat, Len(c) = n - 1
    PROVE  Append(c, 0) = [k \in 1..n |-> IF k = n THEN 0 ELSE c[k]]
<1> DEFINE d == [k \in 1..n |-> IF k = n THEN 0 ELSE c[k]]
<1>1. d \in Seq(Nat) /\ Len(d) = n
  OBVIOUS
<1>2. /\ Append(c, 0) \in Seq(Nat) /\ Len(Append(c, 0)) = n
      /\ \A k \in 1..n - 1 : Append(c, 0)[k] = c[k]
      /\ Append(c, 0)[n] = 0
  OBVIOUS
<1>3. ASSUME NEW k \in 1..n PROVE Append(c, 0)[k] = d[k]
  BY <1>2
<1> HIDE DEF d
<1>4. Append(c, 0) = d
  BY <1>1, <1>2, <1>3
<1> QED
  BY <1>4, Zenon DEF d

\* What the windows show of the exports, read as a state of WindowExport, starts
\* in its initial state.
LEMMA RefinesInit == Init => Promised!Init
<1> SUFFICES ASSUME Init PROVE Promised!Init
  BY Zenon
<1>1. Live = 1
  BY DEF Init, Live
<1>2. [k \in 1..Live - 1 |-> win[k].pushed] = << >>
  BY <1>1
<1> QED
  BY <1>2, Zenon DEF Promised!Init

\* Every step of the handler and its exporter is a step WindowExport allows: a
\* shift closes a window, a check pushes what waits, the rest changes nothing.
LEMMA RefinesNext ==
    ASSUME OneWriter, ExportInv, [Next]_vars
    PROVE  [Promised!Next]_([k \in 1..Live - 1 |-> win[k].pushed])
<1> USE DEF Promised!Next, Promised!Close, Promised!Check
<1> DEFINE copies == [k \in 1..Live - 1 |-> win[k].pushed]
<1>W. /\ win \in Seq(Buckets) /\ Live = Len(win) /\ Live \in Nat /\ Live >= 1
      /\ \A k \in 1..Live : win[k] \in Buckets /\ win[k].pushed \in Nat
      /\ \A w \in Writers : stamp[w] \in Stamps
  BY WindowsTyped, Zenon DEF ExportInv, BoundInv
<1>C. copies \in Seq(Nat) /\ Len(copies) = Live - 1 /\ DOMAIN copies = 1..Live - 1
  BY <1>W
<1>1. ASSUME NEW w \in Writers, PeriodShift(w) PROVE Promised!Close
  <2>1. /\ Len(win') = Len(win) + 1
        /\ win'[Len(win)] = SetReadOnly(win[Len(win)], stamp[w])
        /\ \A k \in 1..Len(win) - 1 : win'[k] = win[k]
    BY <1>1, <1>W, ShiftedFacts, Zenon DEF PeriodShift
  <2>2. SetReadOnly(win[Live], stamp[w]).pushed = win[Live].pushed
    BY <1>W, SetReadOnlyFacts
  <2>3. win[Live].pushed = 0
    BY Zenon DEF ExportInv, PushedInv
  <2>4. Live' = Live + 1 /\ win'[Live].pushed = 0 /\ \A k \in 1..Live - 1 : win'[k].pushed = win[k].pushed
    BY <1>W, <2>1, <2>2, <2>3, Zenon DEF Live
  <2>5. copies' = [k \in 1..Live |-> IF k = Live THEN 0 ELSE copies[k]]
    BY <1>W, <2>4, SMTT(30)
  <2> HIDE DEF copies
  <2>6. copies' = Append(copies, 0)
    BY <1>W, <1>C, <2>5, AppendZero, Zenon
  <2> QED
    BY <2>6, Zenon DEF copies
<1>2. ASSUME Export PROVE Promised!Check
  <2>1. \A k \in 1..Live - 1 : win'[k].pushed = 1
    BY <1>2, ExportPushesAll, Zenon
  <2>2. Live' = Live
    BY <1>2, <1>W, ExportedFacts, Zenon DEF Export, Live
  <2>3. copies' = [k \in 1..Live - 1 |-> 1]
    BY <2>1, <2>2, Zenon
  <2> QED
    BY <1>C, <2>3, Zenon
<1>3. ASSUME Len(win') = Len(win), \A k \in 1..Len(win) : win'[k].pushed = win[k].pushed
      PROVE  copies' = copies
  BY <1>3, <1>W DEF Live
<1>4. ASSUME NEW w \in Writers, CountEvent(w) PROVE copies' = copies
  <2>1. Len(win) \in 1..Len(win) /\ win' = [win EXCEPT ![Len(win)].events = @ + 1]
    BY <1>4, <1>W DEF CountEvent
  <2>2. Len(win') = Len(win) /\ \A k \in 1..Len(win) : win'[k].pushed = win[k].pushed
    BY <1>W, <2>1, EventCounted
  <2> QED
    BY <1>3, <2>2, Zenon
<1>5. ASSUME NEW w \in Writers, Record(w) PROVE copies' = copies
  <2>1. ptr[w] \in 1..Len(win) /\ win' = [win EXCEPT ![ptr[w]].metrics = @ + 1]
    BY <1>5, <1>W, Zenon DEF Record, ExportInv, BoundInv
  <2>2. Len(win') = Len(win) /\ \A k \in 1..Len(win) : win'[k].pushed = win[k].pushed
    BY <1>W, <2>1, MetricsRecorded
  <2> QED
    BY <1>3, <2>2, Zenon
<1>6. ASSUME UNCHANGED win PROVE copies' = copies
  BY <1>6, Zenon DEF Live
<1>7. ASSUME NEW w \in Writers, NewEvent(w) \/ CheckPeriodShift(w) \/ Restamp(w) \/ LiveBucket(w)
      PROVE  UNCHANGED win
  BY <1>7, Zenon DEF NewEvent, CheckPeriodShift, Restamp, LiveBucket
<1>8. ASSUME NEW r \in Readers, Reader(r) PROVE UNCHANGED win
  BY <1>8, Zenon DEF Reader, CurrentPeriods, WindowPrometheus
<1>9. Tick \/ UNCHANGED vars => UNCHANGED win
  BY Zenon DEF Tick, vars
<1> QED
  BY <1>1, <1>2, <1>4, <1>5, <1>6, <1>7, <1>8, <1>9, Zenon DEF Next, Writer

\* A handler with one delivering thread, with its exporter, implements
\* WindowExport: each closed window is pushed once, at the first check after it
\* closes, and none is given up.
THEOREM ImplementsExport ==
    ASSUME OneWriter
    PROVE  Spec => ExportsEachWindowOnce
<1>1. ExportInv /\ [Next]_vars => [Promised!Next]_([k \in 1..Live - 1 |-> win[k].pushed])
  BY RefinesNext, Zenon
<1> QED
  BY <1>1, RefinesInit, ExportInvariant, PTL DEF Spec, ExportsEachWindowOnce, Promised!Spec
=============================================================================
