------------------------- MODULE MetricsWindowProofs ------------------------
(***************************************************************************)
(* Proofs about MetricsWindow, for every value of its constants that       *)
(* satisfies WindowConstants and CheckedInTime.                            *)
(*                                                                         *)
(* The first part holds for any number of writers: the container keeps its *)
(* bound and each window ends where the next starts, however shifts        *)
(* interleave.  The second part is for one delivering thread (OneWriter):  *)
(* closed windows hold whole events and never change.  The exports are in  *)
(* WindowExportProofs, several writers in WindowRaceProofs.                *)
(***************************************************************************)
EXTENDS MetricsWindow, TLAPS, WellFoundedInduction

-----------------------------------------------------------------------------
(***************************************************************************)
(* What the operations of MetricsBuckets do to the windows, as facts about *)
(* single windows.  The proofs about the streams rest on these lemmas and  *)
(* not on the definitions.                                                 *)
(***************************************************************************)
\* A nonempty set of indices below a bound has a largest element, the one the
\* export loop writes last.
LEMMA LargestExists ==
    ASSUME NEW n \in Nat, NEW T, T \subseteq 1..n, T # {}
    PROVE  \E k \in T : \A j \in T : j <= k
<1> DEFINE R == OpToRel(<, Nat)
<1> DEFINE D == {n - k : k \in T}
<1>0. \A k \in T : k \in Int /\ n - k \in Nat
  OBVIOUS
<1>1. D \subseteq Nat /\ D # {}
  <2>1. D \subseteq Nat
    BY <1>0, Zenon
  <2>2. PICK k \in T : TRUE
    OBVIOUS
  <2>3. n - k \in D
    BY <2>2
  <2> QED
    BY <2>1, <2>3
<1>2. \E x \in D : \A y \in D : ~(<<y, x>> \in R)
  <2> HIDE DEF R, D
  <2>1. IsWellFoundedOn(R, Nat)
    BY NatLessThanWellFounded, Zenon DEF R
  <2> QED
    BY <1>1, <2>1, WFMin, Zenon
<1>3. PICK x \in D : \A y \in D : ~(<<y, x>> \in R)
  BY <1>2, Zenon
<1>4. \A y \in D : ~(y < x)
  BY <1>1, <1>3 DEF OpToRel
<1>5. PICK k \in T : x = n - k
  OBVIOUS
<1>6. ASSUME NEW j \in T PROVE j <= k
  <2>1. n - j \in D
    OBVIOUS
  <2>2. ~(n - j < n - k)
    BY <1>4, <1>5, <2>1
  <2> QED
    BY <1>0, <2>2
<1> QED
  BY <1>6

\* A fresh window is a window that is open, empty and not pushed.
LEMMA NewBucketFacts ==
    ASSUME NEW s \in Stamps
    PROVE  /\ NewBucket(s) \in Buckets
           /\ NewBucket(s).start = s
           /\ ~NewBucket(s).readOnly
           /\ NewBucket(s).events = 0
           /\ NewBucket(s).metrics = 0
           /\ NewBucket(s).pushed = 0
BY DEF NewBucket, Buckets, Stamps

\* set_read_only closes a window and changes nothing else of it but its end.
LEMMA SetReadOnlyFacts ==
    ASSUME NEW b \in Buckets, NEW s \in Stamps
    PROVE  /\ SetReadOnly(b, s) \in Buckets
           /\ SetReadOnly(b, s).readOnly
           /\ SetReadOnly(b, s).end = s.sec
           /\ SetReadOnly(b, s).start = b.start
           /\ SetReadOnly(b, s).events = b.events
           /\ SetReadOnly(b, s).metrics = b.metrics
           /\ SetReadOnly(b, s).pushed = b.pushed
BY Zenon DEF SetReadOnly, Buckets, Stamps

\* _period_shift closes the live window, adds one that starts at the stamp, and
\* leaves every other window alone.
LEMMA ShiftedFacts ==
    ASSUME NEW ws \in Seq(Buckets), Len(ws) >= 1, NEW s \in Stamps
    PROVE  /\ Shifted(ws, s) \in Seq(Buckets)
           /\ Len(Shifted(ws, s)) = Len(ws) + 1
           /\ Shifted(ws, s)[Len(ws) + 1] = NewBucket(s)
           /\ Shifted(ws, s)[Len(ws)] = SetReadOnly(ws[Len(ws)], s)
           /\ \A k \in 1..Len(ws) - 1 : Shifted(ws, s)[k] = ws[k]
<1> DEFINE b == SetReadOnly(ws[Len(ws)], s)
<1> DEFINE closed == [ws EXCEPT ![Len(ws)] = b]
<1>1. ws[Len(ws)] \in Buckets
  OBVIOUS
<1>2. b \in Buckets
  BY <1>1, SetReadOnlyFacts, Zenon
<1>3. NewBucket(s) \in Buckets
  BY NewBucketFacts, Zenon
<1> HIDE DEF b
<1>4. /\ closed \in Seq(Buckets)
      /\ Len(closed) = Len(ws)
      /\ closed[Len(ws)] = b
      /\ \A k \in 1..Len(ws) - 1 : closed[k] = ws[k]
  BY <1>2
<1>5. Shifted(ws, s) = Append(closed, NewBucket(s))
  BY Zenon DEF Shifted, b
<1> HIDE DEF closed
<1> QED
  BY <1>3, <1>4, <1>5 DEF b

\* A window pushed once more is the same window otherwise.
LEMMA PushedFacts ==
    ASSUME NEW b \in Buckets
    PROVE  LET c == [b EXCEPT !.pushed = @ + 1]
           IN  /\ c \in Buckets
               /\ c.start = b.start /\ c.end = b.end /\ c.readOnly = b.readOnly
               /\ c.events = b.events /\ c.metrics = b.metrics
               /\ c.pushed = b.pushed + 1
BY DEF Buckets

\* Two windows that differ in nothing but how often they were pushed.
LEMMA SameButPushed ==
    ASSUME NEW b \in Buckets, NEW c \in Buckets,
           c.start = b.start, c.end = b.end, c.readOnly = b.readOnly,
           c.events = b.events, c.metrics = b.metrics
    PROVE  [c EXCEPT !.pushed = 0] = [b EXCEPT !.pushed = 0]
BY Zenon DEF Buckets

\* One more event in a window changes its event counter only.
LEMMA EventFacts ==
    ASSUME NEW b \in Buckets
    PROVE  LET c == [b EXCEPT !.events = @ + 1]
           IN  /\ c \in Buckets
               /\ c.start = b.start /\ c.end = b.end /\ c.readOnly = b.readOnly
               /\ c.pushed = b.pushed /\ c.metrics = b.metrics
               /\ c.events = b.events + 1
BY DEF Buckets

\* What a handler adds to a window changes its metrics only.
LEMMA MetricsFacts ==
    ASSUME NEW b \in Buckets
    PROVE  LET c == [b EXCEPT !.metrics = @ + 1]
           IN  /\ c \in Buckets
               /\ c.start = b.start /\ c.end = b.end /\ c.readOnly = b.readOnly
               /\ c.pushed = b.pushed /\ c.events = b.events
               /\ c.metrics = b.metrics + 1
BY DEF Buckets

\* Counting an event leaves the other windows alone.
LEMMA EventCounted ==
    ASSUME NEW ws \in Seq(Buckets), NEW i \in 1..Len(ws)
    PROVE  LET v == [ws EXCEPT ![i].events = @ + 1]
           IN  /\ v \in Seq(Buckets)
               /\ Len(v) = Len(ws)
               /\ v[i].start = ws[i].start /\ v[i].end = ws[i].end
               /\ v[i].readOnly = ws[i].readOnly /\ v[i].pushed = ws[i].pushed
               /\ v[i].metrics = ws[i].metrics /\ v[i].events = ws[i].events + 1
               /\ \A k \in 1..Len(ws) : k # i => v[k] = ws[k]
<1> DEFINE b == [ws[i] EXCEPT !.events = @ + 1]
<1> DEFINE v == [ws EXCEPT ![i].events = @ + 1]
<1>1. ws[i] \in Buckets
  OBVIOUS
<1>2. /\ b \in Buckets
      /\ b.start = ws[i].start /\ b.end = ws[i].end
      /\ b.readOnly = ws[i].readOnly /\ b.pushed = ws[i].pushed
      /\ b.metrics = ws[i].metrics /\ b.events = ws[i].events + 1
  BY <1>1, EventFacts, Zenon
<1>3. v = [ws EXCEPT ![i] = b]
  BY Zenon
<1> HIDE DEF b, v
<1>4. /\ v \in Seq(Buckets)
      /\ Len(v) = Len(ws)
      /\ v[i] = b
      /\ \A k \in 1..Len(ws) : k # i => v[k] = ws[k]
  BY <1>2, <1>3
<1> QED
  BY <1>2, <1>4, Zenon DEF v

\* So does adding metrics.
LEMMA MetricsRecorded ==
    ASSUME NEW ws \in Seq(Buckets), NEW i \in 1..Len(ws)
    PROVE  LET v == [ws EXCEPT ![i].metrics = @ + 1]
           IN  /\ v \in Seq(Buckets)
               /\ Len(v) = Len(ws)
               /\ v[i].start = ws[i].start /\ v[i].end = ws[i].end
               /\ v[i].readOnly = ws[i].readOnly /\ v[i].pushed = ws[i].pushed
               /\ v[i].events = ws[i].events /\ v[i].metrics = ws[i].metrics + 1
               /\ \A k \in 1..Len(ws) : k # i => v[k] = ws[k]
<1> DEFINE b == [ws[i] EXCEPT !.metrics = @ + 1]
<1> DEFINE v == [ws EXCEPT ![i].metrics = @ + 1]
<1>1. ws[i] \in Buckets
  OBVIOUS
<1>2. /\ b \in Buckets
      /\ b.start = ws[i].start /\ b.end = ws[i].end
      /\ b.readOnly = ws[i].readOnly /\ b.pushed = ws[i].pushed
      /\ b.events = ws[i].events /\ b.metrics = ws[i].metrics + 1
  BY <1>1, MetricsFacts, Zenon
<1>3. v = [ws EXCEPT ![i] = b]
  BY Zenon
<1> HIDE DEF b, v
<1>4. /\ v \in Seq(Buckets)
      /\ Len(v) = Len(ws)
      /\ v[i] = b
      /\ \A k \in 1..Len(ws) : k # i => v[k] = ws[k]
  BY <1>2, <1>3
<1> QED
  BY <1>2, <1>4, Zenon DEF v

\* An export adds one to `pushed' of the windows it writes and changes nothing
\* else.
LEMMA ExportedFacts ==
    ASSUME NEW ws \in Seq(Buckets), NEW back, NEW last
    PROVE  /\ Exported(ws, back, last) \in Seq(Buckets)
           /\ Len(Exported(ws, back, last)) = Len(ws)
           /\ \A k \in 1..Len(ws) :
                LET b == Exported(ws, back, last)[k]
                IN  /\ b.start = ws[k].start
                    /\ b.end = ws[k].end
                    /\ b.readOnly = ws[k].readOnly
                    /\ b.events = ws[k].events
                    /\ b.metrics = ws[k].metrics
                    /\ b.pushed = IF k \in Unexported(ws, back, last)
                                  THEN ws[k].pushed + 1
                                  ELSE ws[k].pushed
<1> DEFINE b(k) == IF k \in Unexported(ws, back, last)
                   THEN [ws[k] EXCEPT !.pushed = @ + 1]
                   ELSE ws[k]
<1>1. ASSUME NEW k \in 1..Len(ws)
      PROVE  /\ b(k) \in Buckets
             /\ b(k).start = ws[k].start
             /\ b(k).end = ws[k].end
             /\ b(k).readOnly = ws[k].readOnly
             /\ b(k).events = ws[k].events
             /\ b(k).metrics = ws[k].metrics
             /\ b(k).pushed = IF k \in Unexported(ws, back, last)
                              THEN ws[k].pushed + 1
                              ELSE ws[k].pushed
  <2>1. ws[k] \in Buckets
    OBVIOUS
  <2>2. CASE k \in Unexported(ws, back, last)
    BY <2>1, <2>2, PushedFacts, Zenon
  <2>3. CASE k \notin Unexported(ws, back, last)
    BY <2>1, <2>3, Zenon
  <2> QED
    BY <2>2, <2>3, Zenon
<1>2. Exported(ws, back, last) = [k \in 1..Len(ws) |-> b(k)]
  BY Zenon DEF Exported
<1> HIDE DEF b
<1>3. /\ Exported(ws, back, last) \in Seq(Buckets)
      /\ Len(Exported(ws, back, last)) = Len(ws)
  BY <1>1, <1>2
<1>4. \A k \in 1..Len(ws) : Exported(ws, back, last)[k] = b(k)
  BY <1>2, Zenon
<1> QED
  BY <1>1, <1>3, <1>4

\* What starts in a later second than a stamp after the marker is after it too.
LEMMA LaterStartsAfter ==
    ASSUME NEW s \in Stamps, NEW t \in Stamps, NEW last \in Stamps,
           StartsAfter(s, last), s.sec < t.sec
    PROVE  StartsAfter(t, last)
<1>1. s.sec \in Int /\ t.sec \in Int /\ last.sec \in Int
  BY Zenon DEF Stamps
<1>2. last = NoStamp \/ s.sec > last.sec \/ s.sec = last.sec
  BY Zenon DEF StartsAfter
<1>3. last = NoStamp \/ t.sec > last.sec
  BY <1>1, <1>2
<1> QED
  BY <1>3, Zenon DEF StartsAfter

\* While the live window is open and the starts increase, the windows an export
\* writes end with the newest closed one, so the marker moves to its start.
LEMMA LastExportedFacts ==
    ASSUME NEW ws \in Seq(Buckets), Len(ws) >= 1, ~ws[Len(ws)].readOnly,
           NEW back \in 1..Len(ws), NEW last \in Stamps,
           \A j, k \in 1..Len(ws) : j < k => ws[j].start.sec < ws[k].start.sec,
           Unexported(ws, back, last) # {}
    PROVE  /\ Len(ws) - 1 \in back..Len(ws)
           /\ LastExported(ws, back, last) = ws[Len(ws) - 1].start
<1> DEFINE todo == Unexported(ws, back, last)
<1>1. NewestClosed(ws) = Len(ws) - 1
  BY Zenon DEF NewestClosed
<1>2. \A k \in todo : k \in back..Len(ws) - 1 /\ StartsAfter(ws[k].start, last)
  BY <1>1, Zenon DEF Unexported
<1>3. PICK k \in todo : TRUE
  BY Zenon
<1>4. k \in back..Len(ws) - 1 /\ StartsAfter(ws[k].start, last)
  BY <1>2, <1>3, Zenon
<1>5. StartsAfter(ws[Len(ws) - 1].start, last)
  <2>1. ws[k].start \in Stamps /\ ws[Len(ws) - 1].start \in Stamps
    <3>1. ws[k] \in Buckets /\ ws[Len(ws) - 1] \in Buckets
      BY <1>4
    <3> QED
      BY <3>1, Zenon DEF Buckets
  <2>2. CASE k = Len(ws) - 1
    BY <1>4, <2>2, Zenon
  <2>3. CASE k < Len(ws) - 1
    <3>1. ws[k].start.sec < ws[Len(ws) - 1].start.sec
      BY <1>4, <2>3
    <3> QED
      BY <1>4, <2>1, <3>1, LaterStartsAfter, Zenon
  <2> QED
    BY <1>4, <2>2, <2>3
<1>6. Len(ws) - 1 \in todo
  BY <1>1, <1>4, <1>5 DEF Unexported
<1>7. \A j \in todo : j \in Int /\ j <= Len(ws) - 1
  BY <1>2
<1> HIDE DEF todo
<1> DEFINE newest == CHOOSE m \in todo : \A j \in todo : j <= m
<1>8. newest \in todo /\ \A j \in todo : j <= newest
  BY <1>6, <1>7, Zenon
<1>9. LastExported(ws, back, last) = ws[newest].start
  BY <1>6, Zenon DEF LastExported, todo
<1> HIDE DEF newest
<1>10. newest = Len(ws) - 1
  BY <1>6, <1>7, <1>8
<1> QED
  BY <1>4, <1>9, <1>10

-----------------------------------------------------------------------------
(* Any number of writers *)

\* Inductive: the live window is open, and a pointer that live_bucket()
\* returned is to a window that was made.
BoundInv ==
    /\ TypeOK
    /\ WindowBound
    /\ Contiguous
    /\ ~win[Live].readOnly
    /\ \A w \in Writers : wpc[w] = "record" => ptr[w] \in 1..Live

\* The invariant holds when the constructor returns.
LEMMA BoundInit == Init => BoundInv
<1> SUFFICES ASSUME Init PROVE BoundInv
  BY Zenon
<1> USE WindowConstants
<1>1. PICK d \in 0..MaxLag, n \in Nsecs :
        /\ now = d
        /\ win = <<NewBucket([sec |-> d, nsec |-> n])>>
        /\ checkedAt \in d - ExportSec .. d
  BY Zenon DEF Init
<1>2. [sec |-> d, nsec |-> n] \in Stamps
  BY DEF Stamps
<1>3. NewBucket([sec |-> d, nsec |-> n]) \in Buckets /\ ~NewBucket([sec |-> d, nsec |-> n]).readOnly
  BY <1>2, NewBucketFacts, Zenon
<1>4. win \in Seq(Buckets) /\ Len(win) = 1 /\ ~win[1].readOnly
  BY <1>1, <1>3
<1>5. NoStamp \in Stamps
  BY DEF NoStamp, Stamps
<1>6. TypeOK
  BY <1>1, <1>4, <1>5 DEF Init, TypeOK, Live
<1>7. WindowBound
  BY <1>4 DEF Init, WindowBound, Size
<1>8. Contiguous
  BY <1>4 DEF Contiguous, Live
<1>9. \A w \in Writers : wpc[w] # "record"
  BY Zenon DEF Init
<1> QED
  BY <1>4, <1>6, <1>7, <1>8, <1>9, Zenon DEF BoundInv, Live

\* The steps that change windows leave a sequence of windows behind.
LEMMA ShiftKeepsBound ==
    ASSUME BoundInv, NEW w \in Writers, PeriodShift(w)
    PROVE  BoundInv'
<1> USE WindowConstants DEF BoundInv
<1> DEFINE s == stamp[w]
<1>1. win \in Seq(Buckets) /\ Len(win) >= 1 /\ s \in Stamps /\ oldest \in 1..Len(win)
  BY DEF TypeOK, Live
<1>2. win' = Shifted(win, s)
  BY Zenon DEF PeriodShift
<1> HIDE DEF s
<1>3. /\ win' \in Seq(Buckets)
      /\ Len(win') = Len(win) + 1
      /\ win'[Len(win) + 1] = NewBucket(s)
      /\ win'[Len(win)] = SetReadOnly(win[Len(win)], s)
      /\ \A k \in 1..Len(win) - 1 : win'[k] = win[k]
  BY <1>1, <1>2, ShiftedFacts, Zenon
<1>4. NewBucket(s).start = s /\ ~NewBucket(s).readOnly
  BY <1>1, NewBucketFacts, Zenon
<1>5. win[Len(win)] \in Buckets
  BY <1>1
<1>6. /\ SetReadOnly(win[Len(win)], s).readOnly
      /\ SetReadOnly(win[Len(win)], s).end = s.sec
      /\ SetReadOnly(win[Len(win)], s).start = win[Len(win)].start
  BY <1>1, <1>5, SetReadOnlyFacts, Zenon
<1>7. oldest' = OldestAfterShift(win, oldest, NumPeriods)
  BY Zenon DEF PeriodShift
<1>8. WindowBound'
  BY <1>1, <1>3, <1>7 DEF WindowBound, Size, OldestAfterShift
<1>9. oldest' \in 1..Live'
  BY <1>1, <1>3, <1>7 DEF WindowBound, Size, OldestAfterShift, Live
<1>10. TypeOK'
  BY <1>1, <1>3, <1>9 DEF TypeOK, Live, PeriodShift, readerVars
<1>11. Contiguous'
  <2> SUFFICES ASSUME NEW k \in 1..Len(win)
               PROVE  win'[k].readOnly /\ win'[k].end = win'[k + 1].start.sec
    BY <1>1, <1>3 DEF Contiguous, Live
  <2>1. CASE k = Len(win)
    BY <1>3, <1>4, <1>6, <2>1, Zenon
  <2>2. CASE k = Len(win) - 1
    <3>1. win[k].readOnly /\ win[k].end = win[k + 1].start.sec
      BY <1>1, <2>2 DEF Contiguous, Live
    <3> QED
      BY <1>1, <1>3, <1>6, <2>2, <3>1
  <2>3. CASE k < Len(win) - 1
    <3>1. win[k].readOnly /\ win[k].end = win[k + 1].start.sec
      BY <1>1, <2>3 DEF Contiguous, Live
    <3> QED
      BY <1>1, <1>3, <2>3, <3>1, SMTT(40)
  <2> QED
    BY <1>1, <2>1, <2>2, <2>3
<1>12. ~win'[Live'].readOnly
  BY <1>3, <1>4, Zenon DEF Live
<1>13. \A v \in Writers : wpc'[v] = "record" => ptr'[v] \in 1..Live'
  BY <1>1, <1>3 DEF PeriodShift, TypeOK, Live
<1> QED
  BY <1>8, <1>10, <1>11, <1>12, <1>13, Zenon

\* A step that keeps the start, the end and the state of every window keeps what
\* BoundInv says of them.
LEMMA SameShape ==
    ASSUME BoundInv, oldest' = oldest,
           win' \in Seq(Buckets), Len(win') = Len(win),
           \A k \in 1..Len(win) : /\ win'[k].start = win[k].start
                                 /\ win'[k].end = win[k].end
                                 /\ win'[k].readOnly = win[k].readOnly
    PROVE  WindowBound' /\ Contiguous' /\ ~win'[Live'].readOnly /\ Live' = Live
<1>1. win \in Seq(Buckets) /\ Len(win) >= 1 /\ oldest \in 1..Len(win)
  BY DEF BoundInv, TypeOK, Live
<1>2. WindowBound'
  BY <1>1, Zenon DEF BoundInv, WindowBound, Size
<1>3. Contiguous'
  BY <1>1, SMTT(40) DEF BoundInv, Contiguous, Live
<1> QED
  BY <1>1, <1>2, <1>3 DEF BoundInv, Live

\* Counting an event in the live window.
LEMMA CountKeepsBound ==
    ASSUME BoundInv, NEW w \in Writers, CountEvent(w)
    PROVE  BoundInv'
<1>1. win \in Seq(Buckets) /\ Len(win) >= 1 /\ Len(win) \in 1..Len(win)
  BY DEF BoundInv, TypeOK, Live
<1>2. win' = [win EXCEPT ![Len(win)].events = @ + 1]
  BY Zenon DEF CountEvent, Live
<1>3. /\ win' \in Seq(Buckets) /\ Len(win') = Len(win)
      /\ win'[Len(win)].start = win[Len(win)].start
      /\ win'[Len(win)].end = win[Len(win)].end
      /\ win'[Len(win)].readOnly = win[Len(win)].readOnly
      /\ \A k \in 1..Len(win) : k # Len(win) => win'[k] = win[k]
  BY <1>1, <1>2, EventCounted
<1>4. WindowBound' /\ Contiguous' /\ ~win'[Live'].readOnly /\ Live' = Live
  BY <1>3, SameShape, Zenon DEF CountEvent
<1>5. TypeOK'
  BY <1>3, <1>4, Zenon DEF BoundInv, TypeOK, CountEvent, readerVars
<1>6. \A v \in Writers : wpc'[v] = "record" => ptr'[v] \in 1..Live'
  BY <1>4, Zenon DEF BoundInv, TypeOK, CountEvent
<1> QED
  BY <1>4, <1>5, <1>6, Zenon DEF BoundInv

\* Adding metrics through a pointer.
LEMMA RecordKeepsBound ==
    ASSUME BoundInv, NEW w \in Writers, Record(w)
    PROVE  BoundInv'
<1> DEFINE i == ptr[w]
<1>1. win \in Seq(Buckets) /\ Len(win) >= 1 /\ i \in 1..Len(win)
  BY DEF BoundInv, TypeOK, Live, Record
<1>2. win' = [win EXCEPT ![i].metrics = @ + 1]
  BY Zenon DEF Record
<1> HIDE DEF i
<1>3. /\ win' \in Seq(Buckets) /\ Len(win') = Len(win)
      /\ win'[i].start = win[i].start
      /\ win'[i].end = win[i].end
      /\ win'[i].readOnly = win[i].readOnly
      /\ \A k \in 1..Len(win) : k # i => win'[k] = win[k]
  BY <1>1, <1>2, MetricsRecorded
<1>4. WindowBound' /\ Contiguous' /\ ~win'[Live'].readOnly /\ Live' = Live
  BY <1>3, SameShape, Zenon DEF Record
<1>5. TypeOK'
  BY <1>3, <1>4, Zenon DEF BoundInv, TypeOK, Record, readerVars
<1>6. \A v \in Writers : wpc'[v] = "record" => ptr'[v] \in 1..Live'
  BY <1>4, Zenon DEF BoundInv, TypeOK, Record
<1> QED
  BY <1>4, <1>5, <1>6, Zenon DEF BoundInv

\* Exporting the closed windows.
LEMMA ExportKeepsBound ==
    ASSUME BoundInv, Export
    PROVE  BoundInv'
<1> USE WindowConstants
<1>1. win \in Seq(Buckets) /\ Len(win) >= 1 /\ oldest \in 1..Len(win) /\ lastStart \in Stamps
  BY DEF BoundInv, TypeOK, Live
<1>2. /\ win' \in Seq(Buckets) /\ Len(win') = Len(win)
      /\ \A k \in 1..Len(win) : /\ win'[k].start = win[k].start
                                /\ win'[k].end = win[k].end
                                /\ win'[k].readOnly = win[k].readOnly
  BY <1>1, ExportedFacts DEF Export
<1>3. WindowBound' /\ Contiguous' /\ ~win'[Live'].readOnly /\ Live' = Live
  BY <1>2, SameShape, Zenon DEF Export
<1>4. lastStart' \in Stamps
  <2> DEFINE todo == Unexported(win, oldest, lastStart)
  <2> DEFINE newest == CHOOSE k \in todo : \A j \in todo : j <= k
  <2>1. CASE todo = {}
    BY <1>1, <2>1, Zenon DEF Export, LastExported
  <2>2. CASE todo # {}
    <3>1. NewestClosed(win) = Len(win) - 1
      BY <1>1, Zenon DEF NewestClosed, BoundInv, Live
    <3>2. todo \subseteq 1..Len(win) - 1
      BY <1>1, <3>1 DEF Unexported
    <3>3. lastStart' = win[newest].start
      BY <2>2, Zenon DEF Export, LastExported
    <3>4. newest \in todo
      <4>1. \E k \in todo : \A j \in todo : j <= k
        BY <1>1, <2>2, <3>2, LargestExists
      <4> QED
        BY <4>1, Zenon
    <3> HIDE DEF newest, todo
    <3>5. win[newest] \in Buckets
      BY <1>1, <3>2, <3>4
    <3> QED
      BY <3>3, <3>5, Zenon DEF Buckets
  <2> QED
    BY <2>1, <2>2, Zenon
<1>5. TypeOK'
  BY <1>2, <1>3, <1>4 DEF BoundInv, TypeOK, Export, writerVars, readerVars
<1>6. \A v \in Writers : wpc'[v] = "record" => ptr'[v] \in 1..Live'
  BY <1>3, Zenon DEF BoundInv, Export, writerVars
<1> QED
  BY <1>3, <1>5, <1>6, Zenon DEF BoundInv

\* The windows and what is in them, as facts the provers can use directly.
LEMMA WindowsTyped ==
    ASSUME TypeOK
    PROVE  /\ win \in Seq(Buckets) /\ Live = Len(win) /\ Live \in Nat /\ Live >= 1
           /\ oldest \in 1..Live /\ lastStart \in Stamps
           /\ now \in Nat /\ checkedAt \in Int /\ nextShift \in Int
           /\ \A k \in 1..Live : /\ win[k] \in Buckets
                                 /\ win[k].start \in Stamps /\ win[k].start.sec \in Int
                                 /\ win[k].pushed \in Nat
                                 /\ win[k].events \in Nat /\ win[k].metrics \in Nat
           /\ \A w \in Writers : stamp[w] \in Stamps /\ stamp[w].sec \in Int
<1>1. /\ win \in Seq(Buckets) /\ Live = Len(win) /\ Live \in Nat /\ Live >= 1
      /\ oldest \in 1..Live /\ lastStart \in Stamps
      /\ now \in Nat /\ checkedAt \in Int /\ nextShift \in Int
      /\ \A w \in Writers : stamp[w] \in Stamps
  BY DEF TypeOK, Live
<1>2. \A k \in 1..Live : win[k] \in Buckets
  BY <1>1
<1>3. \A b \in Buckets : b.start \in Stamps /\ b.pushed \in Nat /\ b.events \in Nat /\ b.metrics \in Nat
  BY Zenon DEF Buckets
<1>4. \A f \in Stamps : f.sec \in Int
  BY Zenon DEF Stamps
<1> QED
  BY <1>1, <1>2, <1>3, <1>4, Zenon

\* The stamps that reach the handler are time stamps.
LEMMA FreshStampsType ==
    ASSUME TypeOK, NEW f \in FreshStamps
    PROVE  f \in Stamps /\ f.sec <= now /\ now <= f.sec + MaxLag
<1>1. now \in Nat
  BY Zenon DEF TypeOK
<1>2. f \in [sec : now - MaxLag .. now, nsec : Nsecs]
  BY Zenon DEF FreshStamps
<1>3. f.sec \in now - MaxLag .. now /\ f.nsec \in Nat /\ f = [sec |-> f.sec, nsec |-> f.nsec]
  BY <1>2, WindowConstants, Zenon
<1>4. f.sec \in Int /\ f.sec <= now /\ now <= f.sec + MaxLag
  BY <1>1, <1>3, WindowConstants
<1> QED
  BY <1>3, <1>4, Zenon DEF Stamps

\* BoundInv is preserved by every step.
LEMMA BoundNext == BoundInv /\ [Next]_vars => BoundInv'
<1> SUFFICES ASSUME BoundInv, [Next]_vars PROVE BoundInv'
  BY Zenon
<1> USE WindowConstants
<1>T. TypeOK
  BY Zenon DEF BoundInv
<1>1. ASSUME NEW w \in Writers, NewEvent(w) PROVE BoundInv'
  <2>1. PICK f \in FreshStamps :
          /\ stamp' = [stamp EXCEPT ![w] = f]
          /\ wpc' = [wpc EXCEPT ![w] = IF WillShift(f) THEN "shift" ELSE "count"]
    BY <1>1, Zenon DEF NewEvent
  <2>2. f \in Stamps
    BY <1>T, FreshStampsType, Zenon
  <2>3. TypeOK'
    BY <1>T, <1>1, <2>1, <2>2 DEF NewEvent, TypeOK, Live, readerVars
  <2> QED
    BY <1>1, <2>1, <2>3, ZenonT(40) DEF NewEvent, BoundInv, WindowBound, Contiguous, Live, TypeOK
<1>2. ASSUME NEW w \in Writers, CheckPeriodShift(w) PROVE BoundInv'
  <2>1. PICK f \in FreshStamps :
          \/ /\ stamp' = [stamp EXCEPT ![w] = f]
             /\ wpc' = [wpc EXCEPT ![w] = "shift"]
             /\ job' = [job EXCEPT ![w] = "heartbeat"]
          \/ UNCHANGED <<stamp, wpc, job>>
    BY <1>2, Zenon DEF CheckPeriodShift
  <2>2. f \in Stamps
    BY <1>T, FreshStampsType, Zenon
  <2>3. /\ stamp' \in [Writers -> Stamps]
        /\ wpc' \in [Writers -> {"idle", "shift", "restamp", "count", "fetch", "record"}]
        /\ job' \in [Writers -> {"event", "heartbeat"}]
        /\ \A v \in Writers : wpc'[v] = "record" => wpc[v] = "record"
    <3>1. CASE UNCHANGED <<stamp, wpc, job>>
      BY <1>T, <3>1, Zenon DEF TypeOK
    <3>2. CASE /\ stamp' = [stamp EXCEPT ![w] = f]
               /\ wpc' = [wpc EXCEPT ![w] = "shift"]
               /\ job' = [job EXCEPT ![w] = "heartbeat"]
      BY <1>T, <2>2, <3>2, Zenon DEF TypeOK
    <3> QED
      BY <2>1, <3>1, <3>2, Zenon
  <2>4. UNCHANGED <<now, win, oldest, nextShift, delivered, ptr, lastStart, checkedAt, rpc, rsize>>
    BY <1>2, Zenon DEF CheckPeriodShift, readerVars
  <2>5. TypeOK'
    BY <1>T, <2>3, <2>4, Zenon DEF TypeOK, Live
  <2> QED
    BY <2>3, <2>4, <2>5, Zenon DEF BoundInv, WindowBound, Contiguous, Live
<1>3. ASSUME NEW w \in Writers, PeriodShift(w) PROVE BoundInv'
  BY <1>3, ShiftKeepsBound, Zenon
<1>4. ASSUME NEW w \in Writers, Restamp(w) PROVE BoundInv'
  <2>1. stamp[w].sec + PeriodSec \in Int
    BY <1>T DEF TypeOK, Stamps
  <2>2. TypeOK'
    BY <1>T, <1>4, <2>1, SMTT(40) DEF Restamp, TypeOK, Live, readerVars
  <2> QED
    BY <1>4, <2>2, Zenon DEF Restamp, BoundInv, WindowBound, Contiguous, Live, TypeOK
<1>5. ASSUME NEW w \in Writers, CountEvent(w) PROVE BoundInv'
  BY <1>5, CountKeepsBound, Zenon
<1>6. ASSUME NEW w \in Writers, LiveBucket(w) PROVE BoundInv'
  <2>1. Live \in Nat /\ Live >= 1
    BY <1>T DEF TypeOK, Live
  <2>2. TypeOK'
    BY <1>T, <1>6, <2>1 DEF LiveBucket, TypeOK, Live, readerVars
  <2> QED
    BY <1>6, <2>1, <2>2 DEF LiveBucket, BoundInv, WindowBound, Contiguous, Live, TypeOK
<1>7. ASSUME NEW w \in Writers, Record(w) PROVE BoundInv'
  BY <1>7, RecordKeepsBound, Zenon
<1>8. ASSUME Export PROVE BoundInv'
  BY <1>8, ExportKeepsBound, Zenon
<1>9. ASSUME NEW r \in Readers, Reader(r) PROVE BoundInv'
  <2>1. Size(win, oldest) \in 0..NumPeriods /\ \A i \in 0..Size(win, oldest) - 1 : Live - i \in 0..Live
    BY <1>T DEF BoundInv, WindowBound, Size, TypeOK, Live
  <2>2. TypeOK'
    BY <1>T, <1>9, <2>1, ZenonT(40)
       DEF Reader, CurrentPeriods, WindowPrometheus, TypeOK, Live, writerVars
  <2> QED
    BY <1>9, <2>2, Zenon
       DEF Reader, CurrentPeriods, WindowPrometheus,
           BoundInv, WindowBound, Contiguous, Live, writerVars
<1>10. ASSUME Tick PROVE BoundInv'
  <2>1. TypeOK'
    BY <1>T, <1>10 DEF Tick, TypeOK, Live, writerVars, readerVars
  <2> QED
    BY <1>10, <2>1, Zenon DEF Tick, BoundInv, WindowBound, Contiguous, Live, writerVars
<1>11. ASSUME UNCHANGED vars PROVE BoundInv'
  <2>1. TypeOK'
    BY <1>T, <1>11, Zenon DEF vars, TypeOK, Live, writerVars, readerVars
  <2> QED
    BY <1>11, <2>1, Zenon DEF vars, BoundInv, WindowBound, Contiguous, Live, writerVars
<1> QED
  BY <1>1, <1>2, <1>3, <1>4, <1>5, <1>6, <1>7, <1>8, <1>9, <1>10, <1>11, Zenon DEF Next, Writer

\* The inductive invariant holds throughout, for any number of writers.
THEOREM BoundInvariant == Spec => []BoundInv
BY BoundInit, BoundNext, PTL DEF Spec

\* Type correctness.
THEOREM TypeCorrect == Spec => []TypeOK
<1>1. BoundInv => TypeOK
  BY Zenon DEF BoundInv
<1> QED
  BY <1>1, BoundInvariant, PTL

\* However the shifts of the input's threads interleave, _metric_buckets holds
\* between one and num_periods windows.
THEOREM WindowsBounded == Spec => []WindowBound
<1>1. BoundInv => WindowBound
  BY Zenon DEF BoundInv
<1> QED
  BY <1>1, BoundInvariant, PTL

\* However the shifts of any number of writers interleave, every window but the
\* live one is closed and ends in the second in which the next one starts.
THEOREM WindowsContiguous == Spec => []Contiguous
<1>1. BoundInv => Contiguous
  BY Zenon DEF BoundInv
<1> QED
  BY <1>1, BoundInvariant, PTL

-----------------------------------------------------------------------------
(* One writer *)

\* The input delivers from one thread: every input but the libpcap one, whose
\* heartbeat comes from the statistics thread.
OneWriter == \A v, w \in Writers : v = w

\* Inductive together with BoundInv for one writer: every window holds whole
\* events but for the event being worked on, which belongs to the live one.
WholeInv ==
    /\ \A w \in Writers : wpc[w] = "record" => ptr[w] = Live
    /\ \A w \in Writers : wpc[w] \in {"fetch", "record"} => win[Live].events = win[Live].metrics + 1
    /\ (\A w \in Writers : wpc[w] \notin {"fetch", "record"}) => win[Live].events = win[Live].metrics
    /\ WholeEvents

\* WholeInv is preserved by every step of a system with one writer.
LEMMA WholeNext ==
    ASSUME OneWriter
    PROVE  BoundInv /\ WholeInv /\ [Next]_vars => WholeInv'
<1> SUFFICES ASSUME BoundInv, WholeInv, [Next]_vars PROVE WholeInv'
  BY Zenon
<1>T. TypeOK
  BY Zenon DEF BoundInv
<1>W. /\ win \in Seq(Buckets) /\ Live = Len(win) /\ Live \in Nat /\ Live >= 1
      /\ \A k \in 1..Live : win[k] \in Buckets /\ win[k].events \in Nat /\ win[k].metrics \in Nat
      /\ \A w \in Writers : stamp[w] \in Stamps
  BY <1>T, WindowsTyped, Zenon
<1>1. ASSUME NEW w \in Writers, NewEvent(w) \/ CheckPeriodShift(w) \/ Restamp(w) PROVE WholeInv'
  <2>1. UNCHANGED <<win, ptr>> /\ wpc[w] \in {"idle", "restamp"} /\ \A v \in Writers : v = w
    BY <1>1, Zenon DEF NewEvent, CheckPeriodShift, Restamp, OneWriter
  <2>2. wpc'[w] \in {"idle", "shift", "count"}
    BY <1>1, <1>T, Zenon DEF NewEvent, CheckPeriodShift, Restamp, TypeOK
  <2> QED
    BY <2>1, <2>2, Zenon DEF WholeInv, WholeEvents, Live
<1>2. ASSUME NEW w \in Writers, PeriodShift(w) PROVE WholeInv'
  <2>1. /\ Len(win') = Len(win) + 1
        /\ win'[Len(win) + 1] = NewBucket(stamp[w])
        /\ win'[Len(win)] = SetReadOnly(win[Len(win)], stamp[w])
        /\ \A k \in 1..Len(win) - 1 : win'[k] = win[k]
    BY <1>2, <1>W, ShiftedFacts, Zenon DEF PeriodShift
  <2>2. /\ SetReadOnly(win[Live], stamp[w]).events = win[Live].events
        /\ SetReadOnly(win[Live], stamp[w]).metrics = win[Live].metrics
    BY <1>W, SetReadOnlyFacts
  <2>3. NewBucket(stamp[w]).events = 0 /\ NewBucket(stamp[w]).metrics = 0
    BY <1>W, NewBucketFacts, Zenon
  <2>4. wpc[w] = "shift" /\ wpc'[w] = "restamp" /\ \A v \in Writers : v = w
    BY <1>2, <1>T, Zenon DEF PeriodShift, TypeOK, OneWriter
  <2>5. win[Live].events = win[Live].metrics
    BY <2>4, Zenon DEF WholeInv
  <2>6. Live' = Live + 1 /\ win'[Live'].events = 0 /\ win'[Live'].metrics = 0
    BY <1>W, <2>1, <2>3, Zenon DEF Live
  <2>7. \A k \in 1..Live : win'[k].events = win'[k].metrics
    BY <1>W, <2>1, <2>2, <2>5, SMTT(40) DEF WholeInv, WholeEvents
  <2>8. WholeEvents'
    BY <1>W, <2>6, <2>7 DEF WholeEvents
  <2> QED
    BY <2>4, <2>6, <2>8, Zenon DEF WholeInv
<1>3. ASSUME NEW w \in Writers, CountEvent(w) PROVE WholeInv'
  <2>1. Len(win) \in 1..Len(win) /\ win' = [win EXCEPT ![Len(win)].events = @ + 1]
    BY <1>3, <1>W DEF CountEvent
  <2>2. /\ Len(win') = Len(win)
        /\ win'[Len(win)].metrics = win[Len(win)].metrics
        /\ win'[Len(win)].events = win[Len(win)].events + 1
        /\ \A k \in 1..Len(win) : k # Len(win) => win'[k] = win[k]
    BY <1>W, <2>1, EventCounted
  <2>3. wpc[w] = "count" /\ wpc'[w] = "fetch" /\ \A v \in Writers : v = w
    BY <1>3, <1>T, Zenon DEF CountEvent, TypeOK, OneWriter
  <2>4. win[Live].events = win[Live].metrics
    BY <2>3, Zenon DEF WholeInv
  <2>5. WholeEvents'
    BY <1>W, <2>2, SMTT(30) DEF WholeInv, WholeEvents, Live
  <2>6. Live' = Live /\ win'[Live].events = win'[Live].metrics + 1
    BY <1>W, <2>2, <2>4, SMTT(40) DEF Live
  <2> QED
    BY <2>3, <2>5, <2>6, Zenon DEF WholeInv
<1>4. ASSUME NEW w \in Writers, LiveBucket(w) PROVE WholeInv'
  <2>1. UNCHANGED win /\ wpc[w] = "fetch" /\ wpc'[w] = "record" /\ ptr'[w] = Live /\ \A v \in Writers : v = w
    BY <1>4, <1>T, Zenon DEF LiveBucket, TypeOK, OneWriter
  <2> QED
    BY <2>1, Zenon DEF WholeInv, WholeEvents, Live
<1>5. ASSUME NEW w \in Writers, Record(w) PROVE WholeInv'
  <2>1. ptr[w] = Live
    BY <1>5, Zenon DEF Record, WholeInv
  <2>2. Len(win) \in 1..Len(win) /\ win' = [win EXCEPT ![Len(win)].metrics = @ + 1]
    BY <1>5, <1>W, <2>1 DEF Record
  <2>3. /\ Len(win') = Len(win)
        /\ win'[Len(win)].events = win[Len(win)].events
        /\ win'[Len(win)].metrics = win[Len(win)].metrics + 1
        /\ \A k \in 1..Len(win) : k # Len(win) => win'[k] = win[k]
    BY <1>W, <2>2, MetricsRecorded
  <2>4. wpc[w] = "record" /\ wpc'[w] = "idle" /\ \A v \in Writers : v = w
    BY <1>5, <1>T, Zenon DEF Record, TypeOK, OneWriter
  <2>5. win[Live].events = win[Live].metrics + 1
    BY <2>4, Zenon DEF WholeInv
  <2>6. WholeEvents'
    BY <1>W, <2>3 DEF WholeInv, WholeEvents, Live
  <2>7. Live' = Live /\ win'[Live].events = win'[Live].metrics
    BY <1>W, <2>3, <2>5, Zenon DEF Live
  <2> QED
    BY <2>4, <2>6, <2>7, Zenon DEF WholeInv
<1>6. ASSUME Export PROVE WholeInv'
  <2>1. /\ Len(win') = Len(win)
        /\ \A k \in 1..Len(win) : win'[k].events = win[k].events /\ win'[k].metrics = win[k].metrics
    BY <1>6, <1>W, ExportedFacts, SMTT(40) DEF Export
  <2>2. UNCHANGED <<wpc, ptr>>
    BY <1>6, Zenon DEF Export, writerVars
  <2> QED
    BY <1>W, <2>1, <2>2, SMTT(40) DEF WholeInv, WholeEvents, Live
<1>7. ASSUME UNCHANGED <<win, wpc, ptr>> PROVE WholeInv'
  BY <1>7, Zenon DEF WholeInv, WholeEvents, Live
<1>8. ASSUME NEW r \in Readers, Reader(r) PROVE UNCHANGED <<win, wpc, ptr>>
  BY <1>8, SMTT(40) DEF Reader, CurrentPeriods, WindowPrometheus, writerVars
<1>9. Tick \/ UNCHANGED vars => UNCHANGED <<win, wpc, ptr>>
  BY Zenon DEF Tick, vars, writerVars
<1> QED
  BY <1>1, <1>2, <1>3, <1>4, <1>5, <1>6, <1>7, <1>8, <1>9, SMTT(40) DEF Next, Writer

\* At first there is one empty window.
LEMMA WholeInit == Init => WholeInv
<1> SUFFICES ASSUME Init PROVE WholeInv
  BY Zenon
<1>1. PICK d \in 0..MaxLag, n \in Nsecs : win = <<NewBucket([sec |-> d, nsec |-> n])>>
  BY Zenon DEF Init
<1>2. [sec |-> d, nsec |-> n] \in Stamps
  BY WindowConstants DEF Stamps
<1>3. Live = 1 /\ win[1].events = 0 /\ win[1].metrics = 0
  BY <1>1, <1>2, NewBucketFacts, Zenon DEF Live
<1> QED
  BY <1>3 DEF Init, WholeInv, WholeEvents

\* With one writer a closed window holds whole events: no event is split between
\* the window that counted it and the window that got its metrics.
THEOREM WindowsHoldWholeEvents ==
    ASSUME OneWriter
    PROVE  Spec => []WholeEvents
<1>1. WholeInv => WholeEvents
  BY Zenon DEF WholeInv
<1> QED
  BY <1>1, WholeInit, WholeNext, BoundInvariant, PTL DEF Spec

\* With one writer no step changes a closed window, except that the exporter
\* counts it as pushed.
THEOREM ClosedWindowsFrozen ==
    ASSUME OneWriter
    PROVE  Spec => ClosedFrozen
<1> DEFINE Frozen == \A k \in 1..Live : win[k].readOnly =>
                        [win'[k] EXCEPT !.pushed = 0] = [win[k] EXCEPT !.pushed = 0]
<1>1. ASSUME BoundInv, WholeInv, [Next]_vars PROVE [Frozen]_vars
  <2>W. /\ win \in Seq(Buckets) /\ Live = Len(win) /\ Live \in Nat /\ Live >= 1
        /\ \A k \in 1..Live : win[k] \in Buckets
        /\ \A w \in Writers : stamp[w] \in Stamps
    BY <1>1, WindowsTyped, Zenon DEF BoundInv
  <2>O. ~win[Live].readOnly
    BY <1>1, Zenon DEF BoundInv
  <2>1. ASSUME \A k \in 1..Live - 1 : win'[k] = win[k] PROVE Frozen
    BY <2>O, <2>W, <2>1
  <2>2. ASSUME NEW w \in Writers, PeriodShift(w) PROVE Frozen
    <3>1. \A k \in 1..Len(win) - 1 : win'[k] = win[k]
      BY <2>2, <2>W, ShiftedFacts, Zenon DEF PeriodShift
    <3> QED
      BY <2>1, <2>W, <3>1, Zenon
  <2>3. ASSUME NEW w \in Writers, CountEvent(w) PROVE Frozen
    <3>1. Len(win) \in 1..Len(win) /\ win' = [win EXCEPT ![Len(win)].events = @ + 1]
      BY <2>3, <2>W DEF CountEvent
    <3>2. \A k \in 1..Len(win) : k # Len(win) => win'[k] = win[k]
      BY <2>W, <3>1, EventCounted
    <3> QED
      BY <2>1, <2>W, <3>2
  <2>4. ASSUME NEW w \in Writers, Record(w) PROVE Frozen
    <3>1. ptr[w] = Live
      BY <1>1, <2>4, Zenon DEF Record, WholeInv
    <3>2. Len(win) \in 1..Len(win) /\ win' = [win EXCEPT ![Len(win)].metrics = @ + 1]
      BY <2>4, <2>W, <3>1 DEF Record
    <3>3. \A k \in 1..Len(win) : k # Len(win) => win'[k] = win[k]
      BY <2>W, <3>2, MetricsRecorded
    <3> QED
      BY <2>1, <2>W, <3>3
  <2>5. ASSUME Export PROVE Frozen
    <3>1. /\ win' \in Seq(Buckets) /\ Len(win') = Len(win)
          /\ \A k \in 1..Len(win) : /\ win'[k].start = win[k].start
                                    /\ win'[k].end = win[k].end
                                    /\ win'[k].readOnly = win[k].readOnly
                                    /\ win'[k].events = win[k].events
                                    /\ win'[k].metrics = win[k].metrics
      BY <2>5, <2>W, ExportedFacts, SMTT(40) DEF Export
    <3>2. \A k \in 1..Live : win'[k] \in Buckets
      BY <2>W, <3>1
    <3> QED
      BY <2>W, <3>1, <3>2, SameButPushed, SMTT(40)
  <2>6. ASSUME UNCHANGED win PROVE Frozen
    BY <2>1, <2>6, Zenon
  <2>7. ASSUME NEW w \in Writers, NewEvent(w) \/ CheckPeriodShift(w) \/ Restamp(w) \/ LiveBucket(w)
        PROVE  UNCHANGED win
    BY <2>7, SMTT(40) DEF NewEvent, CheckPeriodShift, Restamp, LiveBucket
  <2>8. ASSUME NEW r \in Readers, Reader(r) PROVE UNCHANGED win
    BY <2>8, Zenon DEF Reader, CurrentPeriods, WindowPrometheus
  <2>9. Tick \/ UNCHANGED vars => UNCHANGED win
    BY Zenon DEF Tick, vars
  <2> HIDE DEF Frozen
  <2> QED
    BY <1>1, <2>2, <2>3, <2>4, <2>5, <2>6, <2>7, <2>8, <2>9, Zenon DEF Next, Writer
<1>2. BoundInv /\ WholeInv /\ [Next]_vars => [Frozen]_vars
  BY <1>1, Zenon
<1> QED
  BY <1>2, WholeInit, WholeNext, BoundInvariant, PTL DEF Spec, ClosedFrozen

-----------------------------------------------------------------------------
(* For the proofs about the exports and about the races *)
\* The clock stays close to the last check and to the stamp being worked on.
OnTime ==
    /\ checkedAt <= now /\ now <= checkedAt + ExportSec + MaxPost
    /\ \A w \in Writers : wpc[w] # "idle" => stamp[w].sec <= now /\ now <= stamp[w].sec + MaxLag

\* A push keeps the windows and their starts, and counts itself at those it exports.
LEMMA ExportedStarts ==
    ASSUME NEW before \in Seq(Buckets), NEW back, NEW last,
           NEW after, after = Exported(before, back, last)
    PROVE  /\ Len(after) = Len(before)
           /\ \A k \in 1..Len(before) :
                 /\ after[k].start = before[k].start
                 /\ after[k].pushed = IF k \in Unexported(before, back, last)
                                      THEN before[k].pushed + 1
                                      ELSE before[k].pushed
BY ExportedFacts
=============================================================================
