-------------------------- MODULE WindowRaceProofs --------------------------
(***************************************************************************)
(* Theorems about a stream whose windows several threads use at once.      *)
(* However many threads shift between the two locks of a scrape, the       *)
(* period it asks for is held.  With two writers, the packet thread of a   *)
(* libpcap input and its statistics thread, neither writes to a window     *)
(* that expired and no closed window is pushed twice, however their shifts *)
(* race.                                                                   *)
(***************************************************************************)
EXTENDS MetricsWindowProofs

\* Inductive: a reader between its two locks holds a number of windows that is not more
\* than are held now.
ReaderInv ==
    \A r \in Readers :
        rpc[r] # "thrown" /\ (rpc[r] = "scrape" => rsize[r] \in 1..Size(win, oldest))

\* The container does not shrink: a shift drops a window only to add one.
LEMMA SizeGrows ==
    ASSUME BoundInv, NEW w \in Writers, PeriodShift(w)
    PROVE  /\ Size(win, oldest)' >= Size(win, oldest)
           /\ Live' = Live + 1 /\ oldest' \in {oldest, oldest + 1} /\ oldest' < Live'
<1>1. /\ win \in Seq(Buckets) /\ Len(win) >= 1 /\ oldest \in 1..Len(win) /\ stamp[w] \in Stamps
  BY DEF BoundInv, TypeOK, Live
<1>2. win' = Shifted(win, stamp[w]) /\ oldest' = OldestAfterShift(win, oldest, NumPeriods)
  BY Zenon DEF PeriodShift
<1>3. Len(win') = Len(win) + 1
  BY <1>1, <1>2, ShiftedFacts, Zenon
<1>4. Size(win, oldest) \in 1..NumPeriods /\ NumPeriods \in 2..10
  BY WindowConstants, Zenon DEF BoundInv, WindowBound
<1> QED
  BY <1>1, <1>2, <1>3, <1>4 DEF Size, OldestAfterShift, Live

\* Every step of a writer, a reader or the exporter keeps it.
LEMMA ReaderNext == BoundInv /\ ReaderInv /\ [Next]_vars => ReaderInv'
<1> SUFFICES ASSUME BoundInv, ReaderInv, [Next]_vars PROVE ReaderInv'
  BY Zenon
<1>W. /\ rpc \in [Readers -> {"idle", "scrape", "thrown"}] /\ rsize \in [Readers -> 0..NumPeriods]
      /\ Size(win, oldest) \in 1..NumPeriods /\ NumPeriods \in 2..10
      /\ win \in Seq(Buckets) /\ Live = Len(win)
      /\ \A w \in Writers : wpc[w] = "record" => ptr[w] \in 1..Len(win)
  BY WindowConstants, Zenon DEF BoundInv, TypeOK, WindowBound, Live
<1>1. ASSUME UNCHANGED <<rpc, rsize>>, Size(win, oldest)' \in Nat,
             Size(win, oldest)' >= Size(win, oldest)
      PROVE  ReaderInv'
  BY <1>1, <1>W DEF ReaderInv
<1>2. ASSUME NEW w \in Writers, Writer(w) PROVE ReaderInv'
  <2>1. UNCHANGED <<rpc, rsize>>
    BY <1>2, Zenon DEF Writer, NewEvent, CheckPeriodShift, PeriodShift, Restamp, CountEvent,
                LiveBucket, Record, readerVars
  <2>2. CASE PeriodShift(w)
    <3>1. Size(win, oldest)' >= Size(win, oldest)
      BY <2>2, SizeGrows, Zenon
    <3>2. BoundInv'
      BY BoundNext, Zenon
    <3>3. Size(win, oldest)' \in Nat
      BY <3>2, <1>W DEF BoundInv, WindowBound
    <3> QED
      BY <1>1, <2>1, <3>1, <3>3, Zenon
  <2>3. CASE ~PeriodShift(w)
    <3>1. Len(win') = Len(win) /\ oldest' = oldest
      <4>1. CASE CountEvent(w)
        <5>1. Len(win) \in 1..Len(win) /\ win' = [win EXCEPT ![Len(win)].events = @ + 1]
          BY <1>W, <4>1 DEF CountEvent, BoundInv, TypeOK
        <5> QED
          BY <1>W, <4>1, <5>1, EventCounted DEF CountEvent
      <4>2. CASE Record(w)
        <5>1. ptr[w] \in 1..Len(win) /\ win' = [win EXCEPT ![ptr[w]].metrics = @ + 1]
          BY <1>W, <4>2, Zenon DEF Record
        <5> QED
          BY <1>W, <4>2, <5>1, MetricsRecorded DEF Record
      <4>3. CASE NewEvent(w) \/ CheckPeriodShift(w) \/ Restamp(w) \/ LiveBucket(w)
        BY <4>3, Zenon DEF NewEvent, CheckPeriodShift, Restamp, LiveBucket
      <4> QED
        BY <1>2, <2>3, <4>1, <4>2, <4>3, Zenon DEF Writer
    <3> QED
      BY <1>1, <1>W, <2>1, <3>1 DEF Size
  <2> QED
    BY <2>2, <2>3, Zenon
<1>3. ASSUME NEW r \in Readers, CurrentPeriods(r) PROVE ReaderInv'
  <2>1. /\ rsize' = [rsize EXCEPT ![r] = Size(win, oldest)]
        /\ rpc' = [rpc EXCEPT ![r] = "scrape"] /\ win' = win /\ oldest' = oldest
    BY <1>3, Zenon DEF CurrentPeriods
  <2>2. Size(win, oldest)' = Size(win, oldest)
    BY <2>1, Zenon DEF Size
  <2> QED
    BY <1>W, <2>1, <2>2 DEF ReaderInv
<1>4. ASSUME NEW r \in Readers, WindowPrometheus(r) PROVE ReaderInv'
  <2>1. /\ rpc[r] = "scrape" /\ win' = win /\ oldest' = oldest /\ rsize' = rsize
        /\ rpc' = [rpc EXCEPT ![r] = IF PeriodHeld(PrometheusPeriod(r)) THEN "idle" ELSE "thrown"]
    BY <1>4, Zenon DEF WindowPrometheus
  <2>2. rsize[r] \in 1..Size(win, oldest)
    BY <2>1, Zenon DEF ReaderInv
  <2>3. PeriodHeld(PrometheusPeriod(r))
    BY <1>W, <2>2 DEF PeriodHeld, PrometheusPeriod
  <2>4. rpc' = [rpc EXCEPT ![r] = "idle"]
    BY <2>1, <2>3, Zenon
  <2>5. Size(win, oldest)' = Size(win, oldest)
    BY <2>1, Zenon DEF Size
  <2> QED
    BY <1>W, <2>1, <2>4, <2>5, Zenon DEF ReaderInv
<1>5. CASE Export
  <2>1. Len(win') = Len(win) /\ oldest' = oldest /\ UNCHANGED <<rpc, rsize>>
    BY <1>5, <1>W, ExportedFacts, Zenon DEF Export, readerVars
  <2> QED
    BY <1>1, <1>W, <2>1 DEF Size
<1>6. CASE Tick \/ UNCHANGED vars
  <2>1. UNCHANGED <<win, oldest, rpc, rsize>>
    BY <1>6, Zenon DEF Tick, vars, readerVars
  <2> QED
    BY <1>1, <1>W, <2>1 DEF Size
<1> QED
  BY <1>2, <1>3, <1>4, <1>5, <1>6, Zenon DEF Next, Reader

\* However many threads shift between the two locks of a scrape, the period it asks for
\* is held.
THEOREM ScrapesNeverThrow == Spec => []ScrapeNeverThrows
<1>1. Init => ReaderInv
  BY Zenon DEF Init, ReaderInv
<1>2. ReaderInv => ScrapeNeverThrows
  BY Zenon DEF ReaderInv, ScrapeNeverThrows
<1> QED
  BY <1>1, <1>2, ReaderNext, BoundInvariant, PTL DEF Spec

-----------------------------------------------------------------------------
(* What every step does, for any number of writers. *)
\* Where the windows start after a shift, and how often each was pushed.
LEMMA ShiftedStarts ==
    ASSUME NEW before \in Seq(Buckets), Len(before) >= 1, NEW s \in Stamps,
           NEW after, after = Shifted(before, s)
    PROVE  /\ after[Len(before) + 1].start = s /\ after[Len(before) + 1].pushed = 0
           /\ \A k \in 1..Len(before) : /\ after[k].start = before[k].start
                                        /\ after[k].pushed = before[k].pushed
<1>1. /\ after[Len(before) + 1] = NewBucket(s)
      /\ after[Len(before)] = SetReadOnly(before[Len(before)], s)
      /\ \A k \in 1..Len(before) - 1 : after[k] = before[k]
  BY ShiftedFacts, Zenon
<1>2. NewBucket(s).start = s /\ NewBucket(s).pushed = 0
  BY NewBucketFacts, Zenon
<1>3. /\ after[Len(before)].start = before[Len(before)].start
      /\ after[Len(before)].pushed = before[Len(before)].pushed
  <2>1. before[Len(before)] \in Buckets
    OBVIOUS
  <2> QED
    BY <1>1, <2>1, SetReadOnlyFacts
<1> QED
  BY <1>1, <1>2, <1>3

\* Work on stamps and the exporter's checks begin in time, with any number of writers ...
LEMMA OnTimeInit == Init => OnTime
<1> SUFFICES ASSUME Init PROVE OnTime
  BY Zenon
<1>1. PICK d \in 0..MaxLag : now = d /\ checkedAt \in d - ExportSec .. d
  BY Zenon DEF Init
<1> QED
  BY <1>1, WindowConstants DEF Init, OnTime

\* ... and stay so.
LEMMA OnTimeNext == BoundInv /\ OnTime /\ [Next]_vars => OnTime'
<1> SUFFICES ASSUME BoundInv, OnTime, [Next]_vars PROVE OnTime'
  BY Zenon
<1> USE WindowConstants
<1>T. TypeOK
  BY Zenon DEF BoundInv
<1>W. /\ now \in Nat /\ checkedAt \in Int
      /\ \A w \in Writers : stamp[w] \in Stamps /\ stamp[w].sec \in Int
      /\ wpc \in [Writers -> {"idle", "shift", "restamp", "count", "fetch", "record"}]
      /\ stamp \in [Writers -> Stamps]
  BY <1>T, WindowsTyped, Zenon DEF TypeOK
<1>1. ASSUME NEW w \in Writers, NewEvent(w) \/ CheckPeriodShift(w) PROVE OnTime'
  <2>1. UNCHANGED <<now, checkedAt>> /\ wpc[w] = "idle"
    BY <1>1, Zenon DEF NewEvent, CheckPeriodShift
  <2>2. PICK f \in FreshStamps, s \in {"shift", "count"} :
           \/ stamp' = [stamp EXCEPT ![w] = f] /\ wpc' = [wpc EXCEPT ![w] = s]
           \/ stamp' = stamp /\ wpc' = wpc
    <3>1. CASE NewEvent(w)
      BY <3>1, Zenon DEF NewEvent
    <3>2. CASE CheckPeriodShift(w)
      BY <3>2, Zenon DEF CheckPeriodShift
    <3> QED
      BY <1>1, <3>1, <3>2, Zenon
  <2>3. f \in Stamps /\ f.sec <= now /\ now <= f.sec + MaxLag
    BY <1>T, FreshStampsType, Zenon
  <2>4. ASSUME NEW v \in Writers, wpc'[v] # "idle"
        PROVE  stamp'[v].sec <= now /\ now <= stamp'[v].sec + MaxLag
    <3>1. CASE stamp' = stamp /\ wpc' = wpc
      BY <2>4, <3>1, Zenon DEF OnTime
    <3>2. CASE /\ stamp' = [stamp EXCEPT ![w] = f]
               /\ wpc' = [wpc EXCEPT ![w] = s]
      <4>1. CASE v = w
        BY <1>W, <2>3, <3>2, <4>1, Zenon
      <4>2. CASE v # w
        BY <1>W, <2>4, <3>2, <4>2, Zenon DEF OnTime
      <4> QED
        BY <4>1, <4>2, Zenon
    <3> QED
      BY <2>2, <3>1, <3>2, Zenon
  <2> QED
    BY <2>1, <2>4, Zenon DEF OnTime
<1>2. ASSUME NEW w \in Writers,
             PeriodShift(w) \/ Restamp(w) \/ CountEvent(w) \/ LiveBucket(w) \/ Record(w)
      PROVE  OnTime'
  <2>1. /\ UNCHANGED <<now, checkedAt, stamp>> /\ wpc[w] # "idle"
        /\ \A v \in Writers : v # w => wpc'[v] = wpc[v]
    BY <1>2, <1>W, Zenon DEF PeriodShift, Restamp, CountEvent, LiveBucket, Record
  <2> QED
    BY <2>1, Zenon DEF OnTime
<1>3. CASE Export
  BY <1>3, <1>W DEF Export, writerVars, OnTime
<1>4. ASSUME NEW r \in Readers, Reader(r) PROVE OnTime'
  BY <1>4, Zenon DEF Reader, CurrentPeriods, WindowPrometheus, writerVars, OnTime
<1>5. CASE Tick
  <2>1. /\ now' = now + 1 /\ UNCHANGED <<checkedAt, wpc, stamp>>
        /\ \A w \in Writers : wpc[w] # "idle" => now < stamp[w].sec + MaxLag
        /\ now < checkedAt + ExportSec + MaxPost
    BY <1>5, Zenon DEF Tick, writerVars
  <2> QED
    BY <1>W, <2>1 DEF OnTime
<1>6. CASE UNCHANGED vars
  BY <1>6, Zenon DEF vars, writerVars, OnTime
<1> QED
  BY <1>1, <1>2, <1>3, <1>4, <1>5, <1>6, Zenon DEF Next, Writer

\* A step that leaves the windows, the export marker and the shifts under way alone.
Quiet ==
    /\ Len(win') = Len(win)
    /\ \A k \in 1..Len(win) : win'[k].start = win[k].start /\ win'[k].pushed = win[k].pushed
    /\ UNCHANGED <<oldest, lastStart, checkedAt, nextShift>>
    /\ now <= now'
    /\ \A v \in Writers : /\ wpc'[v] = "shift" <=> wpc[v] = "shift"
                          /\ wpc'[v] = "restamp" <=> wpc[v] = "restamp"
                          /\ wpc[v] \in {"shift", "restamp"} => stamp'[v] = stamp[v]

\* An event or a heartbeat finds that it is time to shift.
Due(w, f) ==
    /\ wpc[w] = "idle"
    /\ f \in FreshStamps /\ f.sec >= nextShift
    /\ stamp' = [stamp EXCEPT ![w] = f]
    /\ wpc' = [wpc EXCEPT ![w] = "shift"]
    /\ UNCHANGED <<now, win, oldest, nextShift, lastStart, checkedAt>>

\* The steps that matter to the windows and the exports.
LEMMA StepKinds ==
    ASSUME BoundInv, [Next]_vars
    PROVE  \/ Quiet
           \/ Export
           \/ \E w \in Writers : PeriodShift(w) \/ Restamp(w) \/ \E f \in FreshStamps : Due(w, f)
<1> USE WindowConstants
<1>T. TypeOK
  BY Zenon DEF BoundInv
<1>W. /\ win \in Seq(Buckets) /\ Live = Len(win) /\ Live \in Nat /\ Live >= 1 /\ now \in Nat
      /\ wpc \in [Writers -> {"idle", "shift", "restamp", "count", "fetch", "record"}]
      /\ stamp \in [Writers -> Stamps]
  BY <1>T, WindowsTyped, Zenon DEF TypeOK
<1>1. ASSUME NEW w \in Writers, NewEvent(w) \/ CheckPeriodShift(w)
      PROVE  Quiet \/ \E f \in FreshStamps : Due(w, f)
  <2>1. wpc[w] = "idle" /\ UNCHANGED <<now, win, oldest, nextShift, lastStart, checkedAt>>
    BY <1>1, Zenon DEF NewEvent, CheckPeriodShift
  <2>2. PICK f \in FreshStamps :
           \/ WillShift(f) /\ stamp' = [stamp EXCEPT ![w] = f] /\ wpc' = [wpc EXCEPT ![w] = "shift"]
           \/ stamp' = [stamp EXCEPT ![w] = f] /\ wpc' = [wpc EXCEPT ![w] = "count"]
           \/ stamp' = stamp /\ wpc' = wpc
    <3>1. CASE NewEvent(w)
      BY <3>1, Zenon DEF NewEvent
    <3>2. CASE CheckPeriodShift(w)
      BY <3>2, Zenon DEF CheckPeriodShift
    <3> QED
      BY <1>1, <3>1, <3>2, Zenon
  <2>3. CASE WillShift(f) /\ stamp' = [stamp EXCEPT ![w] = f] /\ wpc' = [wpc EXCEPT ![w] = "shift"]
    BY <2>1, <2>3, Zenon DEF Due, WillShift
  <2>4. CASE stamp' = [stamp EXCEPT ![w] = f] /\ wpc' = [wpc EXCEPT ![w] = "count"]
    <3>1. ASSUME NEW v \in Writers
          PROVE  /\ wpc'[v] = "shift" <=> wpc[v] = "shift"
                 /\ wpc'[v] = "restamp" <=> wpc[v] = "restamp"
                 /\ wpc[v] \in {"shift", "restamp"} => stamp'[v] = stamp[v]
      BY <1>W, <2>1, <2>4, Zenon
    <3> QED
      BY <1>W, <2>1, <3>1 DEF Quiet
  <2>5. CASE stamp' = stamp /\ wpc' = wpc
    BY <1>W, <2>1, <2>5 DEF Quiet
  <2> QED
    BY <2>2, <2>3, <2>4, <2>5, Zenon
<1>2. ASSUME NEW w \in Writers, CountEvent(w) \/ LiveBucket(w) \/ Record(w) PROVE Quiet
  <2>1. /\ UNCHANGED <<now, oldest, lastStart, checkedAt, nextShift, stamp>>
        /\ wpc[w] \in {"count", "fetch", "record"}
        /\ \E s \in {"idle", "fetch", "record"} : wpc' = [wpc EXCEPT ![w] = s]
    BY <1>2, Zenon DEF CountEvent, LiveBucket, Record
  <2>2. \A v \in Writers : /\ wpc'[v] = "shift" <=> wpc[v] = "shift"
                           /\ wpc'[v] = "restamp" <=> wpc[v] = "restamp"
    BY <1>W, <2>1, Zenon
  <2>3. /\ Len(win') = Len(win)
        /\ \A k \in 1..Len(win) : win'[k].start = win[k].start /\ win'[k].pushed = win[k].pushed
    <3>1. CASE CountEvent(w)
      <4>1. Len(win) \in 1..Len(win) /\ win' = [win EXCEPT ![Len(win)].events = @ + 1]
        BY <1>W, <3>1 DEF CountEvent
      <4> QED
        BY <1>W, <4>1, EventCounted
    <3>2. CASE LiveBucket(w)
      BY <3>2, Zenon DEF LiveBucket
    <3>3. CASE Record(w)
      <4>1. ptr[w] \in 1..Len(win) /\ win' = [win EXCEPT ![ptr[w]].metrics = @ + 1]
        BY <1>W, <3>3, Zenon DEF Record, BoundInv
      <4> QED
        BY <1>W, <4>1, MetricsRecorded
    <3> QED
      BY <1>2, <3>1, <3>2, <3>3, Zenon
  <2> QED
    BY <1>W, <2>1, <2>2, <2>3 DEF Quiet
<1>3. ASSUME NEW r \in Readers, Reader(r) PROVE Quiet
  <2>1. UNCHANGED <<now, win, oldest, nextShift, wpc, stamp, lastStart, checkedAt>>
    BY <1>3, Zenon DEF Reader, CurrentPeriods, WindowPrometheus, writerVars
  <2> QED
    BY <1>W, <2>1 DEF Quiet
<1>4. CASE Tick
  BY <1>4, <1>W DEF Tick, Quiet, writerVars
<1>5. CASE UNCHANGED vars
  BY <1>5, <1>W DEF vars, writerVars, Quiet
<1> QED
  BY <1>1, <1>2, <1>3, <1>4, <1>5, Zenon DEF Next, Writer

-----------------------------------------------------------------------------
(***************************************************************************)
(* Two writers: the packet thread of a libpcap input and its statistics    *)
(* thread, whose shifts may race.                                          *)
(***************************************************************************)
\* There are at most two writers.
TwoWriters == \A u, v, w \in Writers : u = v \/ v = w \/ u = w

\* Inductive for two writers: a writer with a pointer holds the live window, or the one
\* before it, and then the other writer will not shift again while it does.
RecordInv ==
    \A w \in Writers : wpc[w] = "record" =>
        \/ ptr[w] = Live
        \/ /\ ptr[w] = Live - 1
           /\ \A v \in Writers : v # w =>
                 \/ wpc[v] = "restamp"
                 \/ wpc[v] # "shift" /\ nextShift > stamp[w].sec + MaxLag

\* No step of two writers breaks it.
LEMMA RecordNext ==
    ASSUME TwoWriters, 2 * MaxLag < PeriodSec
    PROVE  BoundInv /\ OnTime /\ RecordInv /\ [Next]_vars => RecordInv'
<1> SUFFICES ASSUME BoundInv, OnTime, RecordInv, [Next]_vars PROVE RecordInv'
  BY Zenon
<1> USE WindowConstants
<1>T. TypeOK
  BY Zenon DEF BoundInv
<1>W. /\ win \in Seq(Buckets) /\ Live = Len(win) /\ Live \in Nat /\ Live >= 1
      /\ now \in Nat /\ nextShift \in Int
      /\ \A w \in Writers : stamp[w] \in Stamps /\ stamp[w].sec \in Int
      /\ wpc \in [Writers -> {"idle", "shift", "restamp", "count", "fetch", "record"}]
      /\ stamp \in [Writers -> Stamps] /\ ptr \in [Writers -> 0..Live]
  BY <1>T, WindowsTyped, Zenon DEF TypeOK
\* What RecordInv says of a writer.
<1> DEFINE Safe(u) ==
        \/ ptr[u] = Live
        \/ /\ ptr[u] = Live - 1
           /\ \A v \in Writers : v # u =>
                 \/ wpc[v] = "restamp"
                 \/ wpc[v] # "shift" /\ nextShift > stamp[u].sec + MaxLag
<1>D. /\ \A u \in Writers : wpc[u] = "record" => Safe(u)
      /\ RecordInv' <=> \A u \in Writers : wpc'[u] = "record" => Safe(u)'
  BY Zenon DEF RecordInv

\* A step of w that changes neither windows nor the next shift, and leaves w at "shift"
\* only when that is due.
<1>1. ASSUME NEW w \in Writers, Live' = Live, ptr' = ptr, nextShift' = nextShift,
             \A v \in Writers : v # w => wpc'[v] = wpc[v] /\ stamp'[v] = stamp[v],
             wpc[w] # "restamp", wpc'[w] # "record", wpc'[w] = "shift" => now >= nextShift
      PROVE  RecordInv'
  <2> SUFFICES ASSUME NEW u \in Writers, wpc'[u] = "record" PROVE Safe(u)'
    BY <1>D, Zenon
  <2>1. u # w /\ wpc[u] = "record" /\ stamp'[u] = stamp[u]
    BY <1>1, Zenon
  <2>2. Safe(u) /\ now <= stamp[u].sec + MaxLag
    BY <1>D, <2>1, Zenon DEF OnTime
  <2>3. CASE ptr[u] = Live
    BY <1>1, <2>3, Zenon
  <2>4. CASE ptr[u] # Live
    <3>1. ASSUME NEW v \in Writers, v # u
          PROVE  \/ wpc'[v] = "restamp"
                 \/ wpc'[v] # "shift" /\ nextShift' > stamp'[u].sec + MaxLag
      BY <1>1, <1>W, <2>1, <2>2, <2>4, <3>1
    <3> QED
      BY <1>1, <2>2, <2>4, <3>1, Zenon
  <2> QED
    BY <2>3, <2>4, Zenon
<1>2. ASSUME NEW w \in Writers, NewEvent(w) \/ CheckPeriodShift(w) PROVE RecordInv'
  <2>1. wpc[w] = "idle" /\ UNCHANGED <<now, win, nextShift, ptr>>
    BY <1>2, Zenon DEF NewEvent, CheckPeriodShift
  <2>2. PICK f \in FreshStamps, s \in {"shift", "count"} :
           \/ /\ stamp' = [stamp EXCEPT ![w] = f] /\ wpc' = [wpc EXCEPT ![w] = s]
              /\ s = "shift" => WillShift(f)
           \/ stamp' = stamp /\ wpc' = wpc
    <3>1. CASE NewEvent(w)
      BY <3>1, Zenon DEF NewEvent
    <3>2. CASE CheckPeriodShift(w)
      BY <3>2, Zenon DEF CheckPeriodShift
    <3> QED
      BY <1>2, <3>1, <3>2, Zenon
  <2>3. f \in Stamps /\ f.sec <= now
    BY <1>T, FreshStampsType, Zenon
  <2>4. f.sec \in Int
    BY <2>3, Zenon DEF Stamps
  <2>5. /\ \A v \in Writers : v # w => wpc'[v] = wpc[v] /\ stamp'[v] = stamp[v]
        /\ wpc'[w] # "record" /\ (wpc'[w] = "shift" => now >= nextShift)
    BY <1>W, <2>1, <2>2, <2>3, <2>4 DEF WillShift
  <2> QED
    BY <1>1, <2>1, <2>5, Zenon DEF Live
<1>3. ASSUME NEW w \in Writers, PeriodShift(w) PROVE RecordInv'
  <2> SUFFICES ASSUME NEW u \in Writers, wpc'[u] = "record" PROVE Safe(u)'
    BY <1>D, Zenon
  <2>1. /\ wpc[w] = "shift" /\ wpc' = [wpc EXCEPT ![w] = "restamp"]
        /\ UNCHANGED <<nextShift, stamp, ptr>>
    BY <1>3, Zenon DEF PeriodShift
  <2>2. Live' = Live + 1
    BY <1>3, SizeGrows, Zenon
  <2>3. u # w /\ wpc[u] = "record"
    BY <1>W, <2>1, Zenon
  <2>4. ptr[u] = Live
    BY <1>D, <2>1, <2>3, Zenon
  <2>5. \A v \in Writers : v # u => v = w
    BY <2>3, Zenon DEF TwoWriters
  <2> QED
    BY <1>W, <2>1, <2>2, <2>4, <2>5
<1>4. ASSUME NEW w \in Writers, Restamp(w) PROVE RecordInv'
  <2> SUFFICES ASSUME NEW u \in Writers, wpc'[u] = "record" PROVE Safe(u)'
    BY <1>D, Zenon
  <2>1. /\ wpc[w] = "restamp" /\ nextShift' = stamp[w].sec + PeriodSec
        /\ wpc' = [wpc EXCEPT ![w] = IF job[w] = "event" THEN "count" ELSE "idle"]
        /\ UNCHANGED <<win, stamp, ptr>>
    BY <1>4, Zenon DEF Restamp
  <2>2. u # w /\ wpc[u] = "record" /\ wpc'[w] # "shift" /\ Live' = Live
    BY <1>W, <2>1, Zenon DEF Live
  <2>3. Safe(u)
    BY <1>D, <2>2, Zenon
  <2>4. now <= stamp[w].sec + MaxLag /\ stamp[u].sec <= now
    BY <2>1, <2>2, Zenon DEF OnTime
  <2>5. nextShift' > stamp[u].sec + MaxLag
    <3>1. /\ now \in Int /\ stamp[w].sec \in Int /\ stamp[u].sec \in Int
          /\ nextShift' = stamp[w].sec + PeriodSec
      BY <1>W, <2>1
    <3>2. \A a, b, c \in Int : a <= b + MaxLag /\ c <= a => b + PeriodSec > c + MaxLag
      OBVIOUS
    <3> QED
      BY <2>4, <3>1, <3>2, Zenon
  <2>6. \A v \in Writers : v # u => v = w
    BY <2>2, Zenon DEF TwoWriters
  <2> QED
    BY <2>1, <2>2, <2>3, <2>5, <2>6, Zenon
<1>5. ASSUME NEW w \in Writers, CountEvent(w) \/ Record(w) PROVE RecordInv'
  <2>1. /\ UNCHANGED <<now, nextShift, stamp, ptr>> /\ wpc[w] \in {"count", "record"}
        /\ \E s \in {"idle", "fetch"} : wpc' = [wpc EXCEPT ![w] = s]
    BY <1>5, Zenon DEF CountEvent, Record
  <2>2. Len(win') = Len(win)
    <3>1. CASE CountEvent(w)
      <4>1. Len(win) \in 1..Len(win) /\ win' = [win EXCEPT ![Len(win)].events = @ + 1]
        BY <1>W, <3>1 DEF CountEvent
      <4> QED
        BY <1>W, <4>1, EventCounted, Zenon
    <3>2. CASE Record(w)
      <4>1. ptr[w] \in 1..Len(win) /\ win' = [win EXCEPT ![ptr[w]].metrics = @ + 1]
        BY <1>W, <3>2, Zenon DEF Record, BoundInv
      <4> QED
        BY <1>W, <4>1, MetricsRecorded, Zenon
    <3> QED
      BY <1>5, <3>1, <3>2, Zenon
  <2>3. /\ \A v \in Writers : v # w => wpc'[v] = wpc[v]
        /\ wpc'[w] \in {"idle", "fetch"}
    BY <1>W, <2>1, Zenon
  <2> QED
    BY <1>1, <2>1, <2>2, <2>3, Zenon DEF Live
<1>6. ASSUME NEW w \in Writers, LiveBucket(w) PROVE RecordInv'
  <2> SUFFICES ASSUME NEW u \in Writers, wpc'[u] = "record" PROVE Safe(u)'
    BY <1>D, Zenon
  <2>1. /\ UNCHANGED <<win, nextShift, stamp>> /\ wpc[w] = "fetch"
        /\ ptr' = [ptr EXCEPT ![w] = Live] /\ wpc' = [wpc EXCEPT ![w] = "record"]
    BY <1>6, Zenon DEF LiveBucket
  <2>2. Live' = Live
    BY <2>1, Zenon DEF Live
  <2>3. CASE u = w
    BY <1>W, <2>1, <2>2, <2>3, Zenon
  <2>4. CASE u # w
    <3>1. wpc[u] = "record" /\ ptr'[u] = ptr[u]
      BY <1>W, <2>1, <2>4, Zenon
    <3>2. Safe(u)
      BY <1>D, <3>1, Zenon
    <3>3. \A v \in Writers : /\ wpc'[v] = "restamp" <=> wpc[v] = "restamp"
                             /\ wpc'[v] = "shift" <=> wpc[v] = "shift"
      BY <1>W, <2>1, Zenon
    <3> QED
      BY <2>1, <2>2, <3>1, <3>2, <3>3, Zenon
  <2> QED
    BY <2>3, <2>4, Zenon
<1>7. ASSUME UNCHANGED <<nextShift, wpc, stamp, ptr>>, Len(win') = Len(win) PROVE RecordInv'
  BY <1>7, Zenon DEF RecordInv, Live
<1>8. CASE Export
  BY <1>7, <1>8, <1>W, ExportedFacts, Zenon DEF Export, writerVars
<1>9. ASSUME NEW r \in Readers, Reader(r) PROVE RecordInv'
  BY <1>7, <1>9, Zenon DEF Reader, CurrentPeriods, WindowPrometheus, writerVars
<1>10. CASE Tick \/ UNCHANGED vars
  BY <1>7, <1>10, Zenon DEF Tick, vars, writerVars
<1> QED
  BY <1>2, <1>3, <1>4, <1>5, <1>6, <1>8, <1>9, <1>10, Zenon DEF Next, Writer

\* Every window is followed in the container by the live one, so that a window one
\* shift old is still held.
LEMMA PreviousHeld ==
    /\ Init => oldest = 1 \/ oldest < Live
    /\ BoundInv /\ (oldest = 1 \/ oldest < Live) /\ [Next]_vars => (oldest = 1 \/ oldest < Live)'
<1>1. Init => oldest = 1 \/ oldest < Live
  BY Zenon DEF Init
<1>2. ASSUME BoundInv, oldest = 1 \/ oldest < Live, [Next]_vars
      PROVE  (oldest = 1 \/ oldest < Live)'
  <2>W. win \in Seq(Buckets) /\ Live = Len(win) /\ oldest \in 1..Live
    BY <1>2, Zenon DEF BoundInv, TypeOK, Live
  <2>1. ASSUME NEW w \in Writers, PeriodShift(w) PROVE oldest' < Live'
    BY <1>2, <2>1, SizeGrows, Zenon
  <2>2. CASE Quiet \/ Export
    <3>1. Len(win') = Len(win) /\ oldest' = oldest
      BY <2>2, <2>W, ExportedFacts, Zenon DEF Quiet, Export
    <3> QED
      BY <1>2, <3>1, Zenon DEF Live
  <2>3. ASSUME NEW w \in Writers, Restamp(w) \/ \E f \in FreshStamps : Due(w, f)
        PROVE  UNCHANGED <<win, oldest>>
    BY <2>3, Zenon DEF Restamp, Due
  <2> QED
    BY <1>2, <2>1, <2>2, <2>3, StepKinds, Zenon DEF Live
<1> QED
  BY <1>1, <1>2, Zenon

\* Two writers whose stamps are less than half a period old when they are done: neither
\* writes to a window that the other's shifts expired.
THEOREM NoWriteToExpired ==
    ASSUME TwoWriters, 2 * MaxLag < PeriodSec
    PROVE  Spec => []NoExpiredWrite
<1>1. BoundInv /\ (oldest = 1 \/ oldest < Live) /\ RecordInv => NoExpiredWrite
  <2> SUFFICES ASSUME BoundInv, oldest = 1 \/ oldest < Live, RecordInv,
                      NEW w \in Writers, wpc[w] = "record"
               PROVE  ptr[w] >= oldest
    BY Zenon DEF NoExpiredWrite
  <2>1. oldest \in 1..Live /\ Live \in Nat /\ ptr[w] \in 1..Live
    BY DEF BoundInv, TypeOK, Live
  <2>2. ptr[w] = Live \/ ptr[w] = Live - 1
    BY Zenon DEF RecordInv
  <2> QED
    BY <2>1, <2>2
<1>2. Init => RecordInv
  BY Zenon DEF Init, RecordInv
<1>3. BoundInv /\ OnTime /\ RecordInv /\ [Next]_vars => RecordInv'
  BY RecordNext, Zenon
<1> QED
  BY <1>1, <1>2, <1>3, PreviousHeld, OnTimeInit, OnTimeNext, BoundInvariant, PTL DEF Spec

-----------------------------------------------------------------------------
\* The next check comes no later.
Deadline == checkedAt + ExportSec + MaxPost

\* No writer will shift before the next check: none is about to, and either the next
\* shift is due later or each of them is about to say that it is.
NoMoreShifts ==
    /\ \A v \in Writers : wpc[v] # "shift"
    /\ nextShift > Deadline \/ \A v \in Writers : wpc[v] = "restamp"

\* The closed windows that are held and wait for their push.
Waiting == {k \in oldest..Live - 1 : StartsAfter(win[k].start, lastStart)}

\* What the stamps say: the last conjunct is about a writer that shifts with a stamp
\* before the start of the live window.  The other made that window.
Stamped ==
    /\ lastStart = NoStamp \/ lastStart.sec >= 0
    /\ \A k \in 1..Live : win[k].start.sec >= 0
    /\ nextShift >= 0
    /\ \A w \in Writers : wpc[w] \in {"shift", "restamp"} => stamp[w].sec >= 0
    /\ win[Live].start.sec <= now
    /\ \/ win[Live].start.sec < nextShift
       \/ \E v \in Writers : wpc[v] = "restamp" /\ stamp[v] = win[Live].start
    /\ \A w \in Writers : wpc[w] = "shift" /\ StartsAfter(win[Live].start, stamp[w]) =>
          \A v \in Writers : v # w =>
             \/ wpc[v] = "restamp" /\ stamp[v] = win[Live].start
             \/ wpc[v] \notin {"shift", "restamp"} /\ nextShift >= stamp[w].sec + PeriodSec

\* Between two checks each writer shifts at most once, so that at most two windows wait;
\* the later one does not start before the earlier one.
WaitingInv ==
    /\ Live - 1 \in Waiting =>
          /\ \E w \in Writers : wpc[w] # "shift" /\ (wpc[w] = "restamp" \/ nextShift > Deadline)
          /\ NoMoreShifts \/ ~StartsAfter(win[Live - 1].start, win[Live].start)
    /\ \A k \in Waiting : k < Live - 1 => NoMoreShifts
    /\ \A j, k \in Waiting : j < k => ~StartsAfter(win[j].start, win[k].start)

\* A window that was pushed is closed, was pushed once, and is not pushed again.
PushedOnceInv ==
    \A k \in 1..Live : win[k].pushed > 0 =>
        win[k].pushed = 1 /\ k < Live /\ ~StartsAfter(win[k].start, lastStart)

\* Inductive for two writers, with BoundInv and OnTime.
RaceInv == Stamped /\ WaitingInv /\ PushedOnceInv

\* The types these proofs need.
LEMMA RaceTypes ==
    ASSUME BoundInv
    PROVE  /\ win \in Seq(Buckets) /\ Live = Len(win) /\ Live \in Nat /\ Live >= 1
           /\ oldest \in 1..Live /\ lastStart \in Stamps
           /\ now \in Nat /\ checkedAt \in Int /\ nextShift \in Int
           /\ \A k \in 1..Live : /\ win[k] \in Buckets
                                 /\ win[k].start \in Stamps /\ win[k].start.sec \in Int
                                 /\ win[k].pushed \in Nat
           /\ \A w \in Writers : stamp[w] \in Stamps /\ stamp[w].sec \in Int
           /\ wpc \in [Writers -> {"idle", "shift", "restamp", "count", "fetch", "record"}]
           /\ stamp \in [Writers -> Stamps]
           /\ PeriodSec \in Nat /\ ExportSec \in Nat /\ MaxPost \in Nat /\ MaxLag \in Nat
           /\ ExportSec + MaxPost + MaxLag < PeriodSec
<1>1. TypeOK
  BY Zenon DEF BoundInv
<1> QED
  BY <1>1, WindowsTyped, WindowConstants, CheckedInTime, Zenon DEF TypeOK

\* Facts about the order of the stamps.
LEMMA StartsAfterFacts ==
    ASSUME NEW s \in Stamps, NEW t \in Stamps, NEW u \in Stamps, t.sec >= 0, u.sec >= 0
    PROVE  /\ t # NoStamp /\ ~StartsAfter(t, t)
           /\ StartsAfter(s, t) => s.sec >= t.sec
           /\ ~StartsAfter(s, t) /\ StartsAfter(u, t) => ~StartsAfter(s, u)
           /\ StartsAfter(u, t) => u # t /\ ~StartsAfter(t, u)
BY DEF Stamps, StartsAfter, NoStamp

\* A quiet step.
LEMMA QuietRace ==
    ASSUME BoundInv, BoundInv', RaceInv, Quiet
    PROVE  RaceInv'
<1> USE DEF RaceInv
<1>W. Live = Len(win) /\ Live \in Nat /\ Live >= 1 /\ oldest \in 1..Live /\ now \in Nat
      /\ \A k \in 1..Live : win[k].start.sec \in Int
  BY RaceTypes, Zenon
<1>1. /\ Live' = Live
      /\ \A k \in 1..Live : win'[k].start = win[k].start /\ win'[k].pushed = win[k].pushed
  BY <1>W, Zenon DEF Quiet, Live
<1>N. now' \in Nat
  BY Zenon DEF BoundInv, TypeOK
<1>2. Stamped'
  <2>1. win'[Live'].start = win[Live].start
    BY <1>W, <1>1
  <2>2. UNCHANGED <<lastStart, nextShift>> /\ now <= now' /\ now' \in Int
    BY <1>N DEF Quiet
  <2>3. \A k \in 1..Live' : win'[k].start.sec >= 0
    BY <1>1, Zenon DEF Stamped
  <2>4. \A v \in Writers : wpc'[v] \in {"shift", "restamp"} => stamp'[v].sec >= 0
    BY Zenon DEF Stamped, Quiet
  <2>5. win'[Live'].start.sec <= now'
    BY <1>W, <2>1, <2>2 DEF Stamped
  <2>6. \/ win'[Live'].start.sec < nextShift'
        \/ \E v \in Writers : wpc'[v] = "restamp" /\ stamp'[v] = win'[Live'].start
    BY <2>1, <2>2, Zenon DEF Stamped, Quiet
  <2>7. ASSUME NEW u \in Writers, wpc'[u] = "shift",
               StartsAfter(win'[Live'].start, stamp'[u]), NEW v \in Writers, v # u
        PROVE  \/ wpc'[v] = "restamp" /\ stamp'[v] = win'[Live'].start
               \/ wpc'[v] \notin {"shift", "restamp"} /\ nextShift' >= stamp'[u].sec + PeriodSec
    <3>1. wpc[u] = "shift" /\ stamp'[u] = stamp[u]
      BY <2>7, Zenon DEF Quiet
    <3>2. \/ wpc[v] = "restamp" /\ stamp[v] = win[Live].start
          \/ wpc[v] \notin {"shift", "restamp"} /\ nextShift >= stamp[u].sec + PeriodSec
      BY <2>1, <2>7, <3>1, Zenon DEF Stamped
    <3> QED
      BY <2>1, <2>2, <3>1, <3>2, Zenon DEF Quiet
  <2> QED
    BY <2>2, <2>3, <2>4, <2>5, <2>6, <2>7, Zenon DEF Stamped
<1>3. Deadline' = Deadline /\ (NoMoreShifts => NoMoreShifts')
  BY Zenon DEF Quiet, Deadline, NoMoreShifts
<1>4. Waiting' = Waiting
  BY <1>W, <1>1 DEF Waiting, Quiet
<1>5. \A k \in Waiting : k \in 1..Live - 1
  BY <1>W DEF Waiting
<1>6. WaitingInv'
  <2>1. ASSUME Live - 1 \in Waiting
        PROVE  /\ \E v \in Writers :
                     wpc'[v] # "shift" /\ (wpc'[v] = "restamp" \/ nextShift' > Deadline')
               /\ NoMoreShifts' \/ ~StartsAfter(win'[Live' - 1].start, win'[Live'].start)
    <3>1. PICK v \in Writers : wpc[v] # "shift" /\ (wpc[v] = "restamp" \/ nextShift > Deadline)
      BY <2>1, Zenon DEF WaitingInv
    <3>2. wpc'[v] # "shift" /\ (wpc'[v] = "restamp" \/ nextShift' > Deadline')
      BY <1>3, <3>1, Zenon DEF Quiet
    <3>3. win'[Live' - 1].start = win[Live - 1].start /\ win'[Live'].start = win[Live].start
      BY <1>W, <1>1, <1>5, <2>1
    <3> QED
      BY <1>3, <2>1, <3>2, <3>3, Zenon DEF WaitingInv
  <2>2. \A k \in Waiting : k < Live - 1 => NoMoreShifts'
    BY <1>3, Zenon DEF WaitingInv
  <2>3. ASSUME NEW j \in Waiting, NEW k \in Waiting, j < k
        PROVE  ~StartsAfter(win'[j].start, win'[k].start)
    <3>1. win'[j].start = win[j].start /\ win'[k].start = win[k].start
      BY <1>W, <1>1, <1>5
    <3> QED
      BY <2>3, <3>1, Zenon DEF WaitingInv
  <2> QED
    BY <1>1, <1>4, <2>1, <2>2, <2>3, Zenon DEF WaitingInv
<1>7. PushedOnceInv'
  BY <1>W, <1>1, Zenon DEF PushedOnceInv, Quiet
<1> QED
  BY <1>2, <1>6, <1>7, Zenon

\* A writer finds that a shift is due.  No shift is due before the deadline while two
\* closed windows wait.
LEMMA DueRace ==
    ASSUME TwoWriters, BoundInv, OnTime, RaceInv,
           NEW w \in Writers, NEW f \in FreshStamps, Due(w, f)
    PROVE  RaceInv'
<1> USE DEF RaceInv
<1>W. /\ Live \in Nat /\ Live >= 1 /\ oldest \in 1..Live /\ now \in Nat
      /\ checkedAt \in Int /\ nextShift \in Int
      /\ \A k \in 1..Live : win[k].start \in Stamps /\ win[k].start.sec \in Int
      /\ \A v \in Writers : stamp[v] \in Stamps /\ stamp[v].sec \in Int
      /\ wpc \in [Writers -> {"idle", "shift", "restamp", "count", "fetch", "record"}]
      /\ stamp \in [Writers -> Stamps]
      /\ PeriodSec \in Nat /\ ExportSec \in Nat /\ MaxPost \in Nat /\ MaxLag \in Nat
      /\ MaxLag < PeriodSec
  BY RaceTypes
<1>F. f \in Stamps /\ f.sec \in Int /\ f.sec <= now /\ f.sec >= nextShift
  <2>1. TypeOK
    BY Zenon DEF BoundInv
  <2>2. f \in Stamps /\ f.sec <= now
    BY <2>1, FreshStampsType, Zenon
  <2> QED
    BY <2>2, Zenon DEF Due, Stamps
<1>1. /\ wpc[w] = "idle" /\ wpc' = [wpc EXCEPT ![w] = "shift"]
      /\ stamp' = [stamp EXCEPT ![w] = f]
      /\ UNCHANGED <<now, win, oldest, nextShift, lastStart, checkedAt>>
  BY Zenon DEF Due
<1>2. /\ \A v \in Writers : v # w => wpc'[v] = wpc[v] /\ stamp'[v] = stamp[v]
      /\ wpc'[w] = "shift" /\ stamp'[w] = f
  BY <1>W, <1>1, Zenon
<1>3. Live' = Live /\ Waiting' = Waiting /\ Deadline' = Deadline
  BY <1>1, Zenon DEF Live, Waiting, Deadline
<1>4. nextShift <= Deadline
  BY <1>W, <1>F DEF OnTime, Deadline
<1>5. ~NoMoreShifts
  BY <1>1, <1>4, <1>W DEF NoMoreShifts, Deadline
<1>6. Stamped'
  <2>1. nextShift >= 0
    BY Zenon DEF Stamped
  <2>2. \A v \in Writers : wpc'[v] \in {"shift", "restamp"} => stamp'[v].sec >= 0
    BY <1>2, <1>F, <1>W, <2>1 DEF Stamped
  <2>3. \/ win[Live].start.sec < nextShift
        \/ \E v \in Writers : wpc'[v] = "restamp" /\ stamp'[v] = win[Live].start
    BY <1>1, <1>2, Zenon DEF Stamped
  <2>4. ASSUME NEW u \in Writers, wpc'[u] = "shift", StartsAfter(win[Live].start, stamp'[u]),
               NEW v \in Writers, v # u
        PROVE  \/ wpc'[v] = "restamp" /\ stamp'[v] = win[Live].start
               \/ wpc'[v] \notin {"shift", "restamp"} /\ nextShift >= stamp'[u].sec + PeriodSec
    <3>1. CASE u = w
      <4>1. win[Live].start.sec >= f.sec
        <5>1. f.sec >= 0 /\ StartsAfter(win[Live].start, f)
          BY <1>2, <1>F, <1>W, <2>1, <2>4, <3>1
        <5> QED
          BY <1>F, <1>W, <5>1, StartsAfterFacts
      <4>2. ~(win[Live].start.sec < nextShift)
        BY <1>F, <1>W, <4>1
      <4>3. PICK x \in Writers : wpc[x] = "restamp" /\ stamp[x] = win[Live].start
        BY <4>2, Zenon DEF Stamped
      <4>4. x # w
        BY <1>1, <4>3, Zenon
      <4>5. x = v
        BY <2>4, <3>1, <4>4, Zenon DEF TwoWriters
      <4> QED
        BY <1>2, <4>3, <4>4, <4>5, Zenon
    <3>2. CASE u # w
      <4>1. wpc[u] = "shift" /\ stamp'[u] = stamp[u]
        BY <1>2, <2>4, <3>2, Zenon
      <4>2. \/ wpc[v] = "restamp" /\ stamp[v] = win[Live].start
            \/ wpc[v] \notin {"shift", "restamp"} /\ nextShift >= stamp[u].sec + PeriodSec
        BY <2>4, <4>1, Zenon DEF Stamped
      <4>3. v = w
        BY <2>4, <3>2, Zenon DEF TwoWriters
      <4>4. nextShift >= stamp[u].sec + PeriodSec
        BY <1>1, <4>2, <4>3, Zenon
      <4>5. now <= stamp[u].sec + MaxLag
        BY <4>1, Zenon DEF OnTime
      <4> QED
        BY <1>F, <1>W, <4>4, <4>5
    <3> QED
      BY <3>1, <3>2, Zenon
  <2> QED
    BY <1>1, <1>3, <2>2, <2>3, <2>4, Zenon DEF Stamped
<1>7. WaitingInv'
  <2>1. \A k \in Waiting : k < Live - 1 => FALSE
    BY <1>5, Zenon DEF WaitingInv
  <2>2. ASSUME Live - 1 \in Waiting
        PROVE  /\ \E v \in Writers :
                     wpc'[v] # "shift" /\ (wpc'[v] = "restamp" \/ nextShift > Deadline)
               /\ ~StartsAfter(win[Live - 1].start, win[Live].start)
    <3>1. PICK v \in Writers : wpc[v] # "shift" /\ (wpc[v] = "restamp" \/ nextShift > Deadline)
      BY <2>2, Zenon DEF WaitingInv
    <3>2. wpc[v] = "restamp" /\ v # w
      BY <1>1, <1>4, <1>W, <3>1 DEF Deadline
    <3>3. ~StartsAfter(win[Live - 1].start, win[Live].start)
      BY <1>5, <2>2, Zenon DEF WaitingInv
    <3> QED
      BY <1>2, <3>2, <3>3, Zenon
  <2> QED
    BY <1>1, <1>3, <2>1, <2>2, Zenon DEF WaitingInv
<1>8. PushedOnceInv'
  BY <1>1, <1>3, Zenon DEF PushedOnceInv
<1> QED
  BY <1>6, <1>7, <1>8, Zenon

\* A writer moves the next shift.
LEMMA RestampRace ==
    ASSUME BoundInv, OnTime, RaceInv, NEW w \in Writers, Restamp(w)
    PROVE  RaceInv'
<1> USE DEF RaceInv
<1>W. /\ Live \in Nat /\ Live >= 1 /\ oldest \in 1..Live /\ now \in Nat
      /\ checkedAt \in Int /\ nextShift \in Int
      /\ \A k \in 1..Live : win[k].start \in Stamps /\ win[k].start.sec \in Int
      /\ \A v \in Writers : stamp[v] \in Stamps /\ stamp[v].sec \in Int
      /\ wpc \in [Writers -> {"idle", "shift", "restamp", "count", "fetch", "record"}]
      /\ PeriodSec \in Nat /\ ExportSec \in Nat /\ MaxPost \in Nat /\ MaxLag \in Nat
      /\ ExportSec + MaxPost + MaxLag < PeriodSec
  BY RaceTypes, Zenon
<1>1. /\ wpc[w] = "restamp" /\ nextShift' = stamp[w].sec + PeriodSec
      /\ wpc' = [wpc EXCEPT ![w] = IF job[w] = "event" THEN "count" ELSE "idle"]
      /\ UNCHANGED <<now, win, oldest, stamp, lastStart, checkedAt>>
  BY Zenon DEF Restamp
<1>2. /\ \A v \in Writers : v # w => wpc'[v] = wpc[v]
      /\ wpc'[w] \in {"count", "idle"}
  BY <1>W, <1>1, Zenon
<1>3. Live' = Live /\ Waiting' = Waiting /\ Deadline' = Deadline
  BY <1>1, Zenon DEF Live, Waiting, Deadline
<1>4. stamp[w].sec <= now /\ now <= stamp[w].sec + MaxLag /\ checkedAt <= now /\ stamp[w].sec >= 0
  BY <1>1, Zenon DEF OnTime, Stamped
<1>5. nextShift' > Deadline /\ nextShift' > now /\ nextShift' >= 0
  BY <1>W, <1>1, <1>4 DEF Deadline
<1>6. Stamped'
  <2>1. win[Live].start.sec < nextShift'
    <3>1. win[Live].start.sec <= now
      BY Zenon DEF Stamped
    <3>2. win[Live].start.sec \in Int /\ now \in Int /\ nextShift' \in Int
      BY <1>W, <1>1
    <3> QED
      BY <1>5, <3>1, <3>2
  <2>2. ASSUME NEW u \in Writers, wpc'[u] = "shift", StartsAfter(win[Live].start, stamp[u]),
               NEW v \in Writers, v # u
        PROVE  \/ wpc'[v] = "restamp" /\ stamp[v] = win[Live].start
               \/ wpc'[v] \notin {"shift", "restamp"} /\ nextShift' >= stamp[u].sec + PeriodSec
    <3>1. u # w /\ wpc[u] = "shift"
      BY <1>2, <2>2, Zenon
    <3>2. ASSUME NEW x \in Writers, x # u
          PROVE  \/ wpc[x] = "restamp" /\ stamp[x] = win[Live].start
                 \/ wpc[x] \notin {"shift", "restamp"} /\ nextShift >= stamp[u].sec + PeriodSec
      BY <2>2, <3>1, <3>2, Zenon DEF Stamped
    <3>3. stamp[w] = win[Live].start
      BY <1>1, <3>1, <3>2, Zenon
    <3>4. stamp[u].sec >= 0
      BY <3>1, Zenon DEF Stamped
    <3>5. win[Live].start.sec >= stamp[u].sec
      <4>1. win[Live].start \in Stamps /\ stamp[u] \in Stamps
        BY <1>W
      <4> QED
        BY <2>2, <3>4, <4>1, StartsAfterFacts, Zenon
    <3>6. nextShift' >= stamp[u].sec + PeriodSec
      BY <1>W, <1>1, <3>3, <3>5
    <3>7. CASE v = w
      BY <1>2, <3>6, <3>7, Zenon
    <3>8. CASE v # w
      BY <1>2, <2>2, <3>2, <3>6, <3>8, Zenon
    <3> QED
      BY <3>7, <3>8, Zenon
  <2> QED
    BY <1>1, <1>2, <1>3, <1>5, <2>1, <2>2, Zenon DEF Stamped
<1>7. WaitingInv'
  <2>1. NoMoreShifts => NoMoreShifts'
    BY <1>2, <1>3, <1>5, Zenon DEF NoMoreShifts
  <2>2. \E v \in Writers : wpc'[v] # "shift" /\ (wpc'[v] = "restamp" \/ nextShift' > Deadline)
    BY <1>2, <1>5, Zenon
  <2> QED
    BY <1>1, <1>3, <2>1, <2>2, Zenon DEF WaitingInv
<1>8. PushedOnceInv'
  BY <1>1, <1>3, Zenon DEF PushedOnceInv
<1> QED
  BY <1>6, <1>7, <1>8, Zenon

\* A writer shifts.  It is the first to do so since the last check, or the second, and
\* then no third follows before the next check.
LEMMA ShiftRace ==
    ASSUME TwoWriters, BoundInv, OnTime, RaceInv, NEW w \in Writers, PeriodShift(w)
    PROVE  RaceInv'
<1> USE DEF RaceInv
<1> DEFINE s == stamp[w]
           L == Len(win)
<1>W. /\ win \in Seq(Buckets) /\ Live = L /\ L \in Nat /\ L >= 1 /\ oldest \in 1..L
      /\ now \in Nat /\ checkedAt \in Int /\ nextShift \in Int /\ lastStart \in Stamps
      /\ \A k \in 1..L : win[k] \in Buckets /\ win[k].start \in Stamps
                         /\ win[k].start.sec \in Int /\ win[k].pushed \in Nat
      /\ \A v \in Writers : stamp[v] \in Stamps /\ stamp[v].sec \in Int
      /\ wpc \in [Writers -> {"idle", "shift", "restamp", "count", "fetch", "record"}]
      /\ PeriodSec \in Nat /\ ExportSec \in Nat /\ MaxPost \in Nat /\ MaxLag \in Nat
      /\ ExportSec + MaxPost + MaxLag < PeriodSec
  BY RaceTypes, Zenon
<1>N. /\ L \in Nat /\ L >= 1 /\ oldest \in 1..L
      /\ now \in Nat /\ checkedAt \in Int /\ nextShift \in Int
      /\ PeriodSec \in Nat /\ ExportSec \in Nat /\ MaxPost \in Nat /\ MaxLag \in Nat
      /\ ExportSec + MaxPost + MaxLag < PeriodSec
  BY <1>W, Zenon
<1>1. /\ wpc[w] = "shift" /\ wpc' = [wpc EXCEPT ![w] = "restamp"]
      /\ UNCHANGED <<now, nextShift, stamp, lastStart, checkedAt>>
  BY Zenon DEF PeriodShift
<1>2. /\ \A v \in Writers : v # w => wpc'[v] = wpc[v]
      /\ wpc'[w] = "restamp"
  BY <1>W, <1>1, Zenon
<1>3. /\ s \in Stamps /\ s.sec \in Int /\ s.sec >= 0
      /\ s.sec <= now /\ now <= s.sec + MaxLag /\ checkedAt <= now
  BY <1>W, <1>1, Zenon DEF Stamped, OnTime
<1>4. Live' = L + 1 /\ oldest' \in {oldest, oldest + 1} /\ oldest' < Live'
  BY <1>W, SizeGrows, Zenon
<1>5. /\ win'[L + 1].start = s /\ win'[L + 1].pushed = 0
      /\ \A k \in 1..L : win'[k].start = win[k].start /\ win'[k].pushed = win[k].pushed
  <2>1. win' = Shifted(win, s)
    BY Zenon DEF PeriodShift
  <2>2. win \in Seq(Buckets) /\ L >= 1 /\ s \in Stamps
    BY <1>W, <1>3, Zenon
  <2> QED
    BY <2>1, <2>2, ShiftedStarts
<1> HIDE DEF s, L
<1>6. ~NoMoreShifts
  BY <1>1, Zenon DEF NoMoreShifts
<1>7. Deadline' = Deadline /\ Deadline \in Int /\ Deadline < s.sec + PeriodSec
  <2>1. Deadline' = Deadline /\ Deadline \in Int
    BY <1>N, <1>1 DEF Deadline
  <2>2. checkedAt + ExportSec + MaxPost < s.sec + PeriodSec
    BY <1>N, <1>3
  <2> QED
    BY <2>1, <2>2, Zenon DEF Deadline
\* The windows that wait are the one that closes now and the one before it.
<1>8. ASSUME NEW k \in Waiting' PROVE k \in L - 1 .. L /\ (k < L => k \in Waiting)
  <2>1. k \in oldest'..L /\ StartsAfter(win'[k].start, lastStart)
    BY <1>1, <1>4, <1>W, <1>8 DEF Waiting
  <2>2. k \in 1..L /\ k >= oldest
    BY <1>4, <1>W, <2>1
  <2>3. k < L => k \in Waiting
    BY <1>5, <1>W, <2>1, <2>2 DEF Waiting
  <2>4. ~(k < L - 1)
    BY <1>6, <1>W, <2>2, <2>3 DEF WaitingInv
  <2> QED
    BY <1>W, <2>2, <2>3, <2>4
\* When the other writer's shift went ahead with a later stamp, there will be no more
\* shifts before the next check.
<1>9. StartsAfter(win[L].start, s) => NoMoreShifts'
  <2> SUFFICES ASSUME StartsAfter(win[L].start, s) PROVE NoMoreShifts'
    BY Zenon
  <2>1. \A v \in Writers : v # w =>
           \/ wpc[v] = "restamp"
           \/ wpc[v] \notin {"shift", "restamp"} /\ nextShift >= s.sec + PeriodSec
    BY <1>1, <1>W, Zenon DEF Stamped, s
  <2>2. \A v \in Writers : wpc'[v] # "shift"
    BY <1>2, <2>1, Zenon
  <2>3. CASE nextShift >= s.sec + PeriodSec
    <3>1. nextShift' > Deadline'
      BY <1>1, <1>3, <1>7, <1>N, <2>3
    <3> QED
      BY <2>2, <3>1, Zenon DEF NoMoreShifts
  <2>4. CASE ~(nextShift >= s.sec + PeriodSec)
    BY <1>2, <2>1, <2>2, <2>4, Zenon DEF NoMoreShifts
  <2> QED
    BY <2>3, <2>4, Zenon
<1>10. Stamped'
  <2>1. ASSUME NEW k \in 1..Live' PROVE win'[k].start.sec >= 0
    <3>1. CASE k = L + 1
      BY <1>3, <1>5, <3>1, Zenon
    <3>2. CASE k # L + 1
      <4>1. k \in 1..L
        BY <1>4, <1>N, <3>2
      <4>2. Live = L
        BY <1>W, Zenon
      <4>3. win[k].start.sec >= 0
        BY <4>1, <4>2, Zenon DEF Stamped
      <4> QED
        BY <1>5, <4>1, <4>3, Zenon
    <3> QED
      BY <3>1, <3>2, Zenon
  <2>2. \A v \in Writers : wpc'[v] \in {"shift", "restamp"} => stamp'[v].sec >= 0
    BY <1>1, <1>2, Zenon DEF Stamped
  <2>3. wpc'[w] = "restamp" /\ stamp'[w] = win'[Live'].start /\ win'[Live'].start.sec <= now'
    BY <1>1, <1>2, <1>3, <1>4, <1>5, Zenon DEF s
  <2>4. ASSUME NEW u \in Writers, wpc'[u] = "shift", NEW v \in Writers, v # u
        PROVE  wpc'[v] = "restamp" /\ stamp'[v] = win'[Live'].start
    <3>1. u # w
      BY <1>2, <2>4, Zenon
    <3>2. v = w
      BY <2>4, <3>1, Zenon DEF TwoWriters
    <3> QED
      BY <2>3, <3>2, Zenon
  <2> QED
    BY <1>1, <2>1, <2>2, <2>3, <2>4, Zenon DEF Stamped
<1>11. WaitingInv'
  <2>1. Live' - 1 = L
    BY <1>4, <1>N
  <2>2. \E v \in Writers : wpc'[v] # "shift" /\ (wpc'[v] = "restamp" \/ nextShift' > Deadline')
    BY <1>2, Zenon
  <2>3. NoMoreShifts' \/ ~StartsAfter(win'[L].start, win'[Live'].start)
    <3>1. L \in 1..L
      BY <1>N
    <3>2. win'[L].start = win[L].start /\ win'[Live'].start = s
      BY <1>4, <1>5, <3>1, Zenon
    <3> QED
      BY <1>9, <3>2, Zenon
  <2>4. ASSUME NEW k \in Waiting', k < L PROVE NoMoreShifts'
    <3>1. k = L - 1 /\ L - 1 \in Waiting
      BY <1>8, <1>N, <2>4
    <3>2. PICK v \in Writers : wpc[v] # "shift" /\ (wpc[v] = "restamp" \/ nextShift > Deadline)
      BY <1>W, <3>1, Zenon DEF WaitingInv
    <3>3. v # w
      BY <1>1, <3>2, Zenon
    <3>4. \A u \in Writers : u = v \/ u = w
      BY <3>3, Zenon DEF TwoWriters
    <3>5. \A u \in Writers : wpc'[u] # "shift"
      BY <1>2, <3>2, <3>4, Zenon
    <3>6. nextShift' > Deadline' \/ \A u \in Writers : wpc'[u] = "restamp"
      BY <1>1, <1>2, <1>7, <3>2, <3>3, <3>4, Zenon
    <3> QED
      BY <3>5, <3>6, Zenon DEF NoMoreShifts
  <2>5. ASSUME NEW j \in Waiting', NEW k \in Waiting', j < k
        PROVE  ~StartsAfter(win'[j].start, win'[k].start)
    <3>0. j \in L - 1 .. L /\ k \in L - 1 .. L /\ (j < L => j \in Waiting)
      BY <1>8, Zenon
    <3>1. j = L - 1 /\ k = L /\ L - 1 \in Waiting
      BY <1>N, <2>5, <3>0
    <3>2. ~StartsAfter(win[L - 1].start, win[L].start)
      BY <1>6, <1>W, <3>1, Zenon DEF WaitingInv
    <3>3. L - 1 \in 1..L
      BY <1>W, <3>1 DEF Waiting
    <3> QED
      BY <1>5, <1>W, <3>1, <3>2, <3>3
  <2> QED
    BY <2>1, <2>2, <2>3, <2>4, <2>5, Zenon DEF WaitingInv
<1>12. PushedOnceInv'
  <2> SUFFICES ASSUME NEW k \in 1..L + 1, win'[k].pushed > 0
               PROVE  win'[k].pushed = 1 /\ k < L + 1 /\ ~StartsAfter(win'[k].start, lastStart)
    BY <1>1, <1>4, Zenon DEF PushedOnceInv
  <2>1. k \in 1..L
    BY <1>5, <1>W
  <2> QED
    BY <1>5, <1>W, <2>1 DEF PushedOnceInv
<1> QED
  BY <1>10, <1>11, <1>12, Zenon

\* A check pushes the windows that wait, each for the first time, and none waits after it.
LEMMA ExportRace ==
    ASSUME BoundInv, RaceInv, Export
    PROVE  RaceInv'
<1> USE DEF RaceInv
<1>W. /\ win \in Seq(Buckets) /\ Live = Len(win) /\ Live \in Nat /\ Live >= 1 /\ oldest \in 1..Live
      /\ lastStart \in Stamps
      /\ \A k \in 1..Live : win[k].start \in Stamps /\ win[k].start.sec \in Int
                            /\ win[k].pushed \in Nat
  BY RaceTypes, Zenon
<1>1. UNCHANGED <<now, oldest, nextShift, wpc, stamp>>
  BY Zenon DEF Export, writerVars
<1>2. Unexported(win, oldest, lastStart) = Waiting
  <2>1. NewestClosed(win) = Live - 1
    BY <1>W, Zenon DEF NewestClosed, BoundInv
  <2> QED
    BY <2>1, Zenon DEF Unexported, Waiting
<1>3. /\ Live' = Live
      /\ \A k \in 1..Live : /\ win'[k].start = win[k].start
                            /\ win'[k].pushed = IF k \in Waiting THEN win[k].pushed + 1
                                                                 ELSE win[k].pushed
  <2>1. win \in Seq(Buckets) /\ Live = Len(win)
    BY <1>W, Zenon
  <2>2. win' = Exported(win, oldest, lastStart)
    BY Zenon DEF Export
  <2>3. /\ Len(win') = Len(win)
        /\ \A k \in 1..Len(win) :
              /\ win'[k].start = win[k].start
              /\ win'[k].pushed = IF k \in Unexported(win, oldest, lastStart)
                                  THEN win[k].pushed + 1
                                  ELSE win[k].pushed
    BY <2>1, <2>2, ExportedStarts
  <2>4. Live' = Live
    BY <2>1, <2>3, Zenon DEF Live
  <2> QED
    BY <1>2, <2>1, <2>3, <2>4, Zenon
<1>4. \A k \in Waiting : k \in 1..Live - 1 /\ StartsAfter(win[k].start, lastStart)
  BY <1>W DEF Waiting
<1>5. \A k \in Waiting : win[k].pushed = 0
  BY <1>4, <1>W DEF PushedOnceInv
<1>6. \A k \in 1..Live : win[k].start.sec >= 0
  BY Zenon DEF Stamped
\* The marker moves to a start that none of the windows that waited comes after, and no
\* window that did not comes after it either.
<1>7. /\ lastStart' = NoStamp \/ lastStart'.sec >= 0
      /\ \A k \in 1..Live : \/ k \in Waiting
                            \/ ~StartsAfter(win[k].start, lastStart)
                            => ~StartsAfter(win[k].start, lastStart')
  <2>1. CASE Waiting = {}
    <3>1. lastStart' = lastStart
      BY <1>2, <2>1, Zenon DEF Export, LastExported
    <3> QED
      BY <2>1, <3>1, Zenon DEF Stamped
  <2>2. CASE Waiting # {}
    <3> DEFINE m == CHOOSE k \in Waiting : \A j \in Waiting : j <= k
    <3>1. m \in Waiting /\ \A j \in Waiting : j <= m
      <4>1. Waiting \subseteq 1..Live
        BY <1>4, <1>W
      <4>2. \E k \in Waiting : \A j \in Waiting : j <= k
        BY <1>W, <2>2, <4>1, LargestExists, Zenon
      <4> QED
        BY <4>2, Zenon
    <3>2. lastStart' = win[m].start
      BY <1>2, <2>2, Zenon DEF Export, LastExported
    <3> HIDE DEF m
    <3>3. m \in 1..Live /\ win[m].start \in Stamps /\ win[m].start.sec >= 0
          /\ StartsAfter(win[m].start, lastStart)
      BY <1>4, <1>6, <1>W, <3>1
    <3>4. ASSUME NEW k \in Waiting PROVE ~StartsAfter(win[k].start, win[m].start)
      <4>1. CASE k = m
        BY <3>3, <4>1, StartsAfterFacts, Zenon
      <4>2. CASE k # m
        <5>1. k < m
          BY <1>4, <3>1, <3>3, <4>2
        <5> QED
          BY <3>1, <5>1, Zenon DEF WaitingInv
      <4> QED
        BY <4>1, <4>2, Zenon
    <3>5. ASSUME NEW k \in 1..Live, ~StartsAfter(win[k].start, lastStart)
          PROVE  ~StartsAfter(win[k].start, win[m].start)
      <4>1. lastStart # NoStamp
        BY <3>5, Zenon DEF StartsAfter
      <4>2. lastStart.sec >= 0
        BY <4>1, Zenon DEF Stamped
      <4> QED
        BY <1>W, <3>3, <3>5, <4>2, StartsAfterFacts, Zenon
    <3> QED
      BY <3>2, <3>3, <3>4, <3>5, Zenon
  <2> QED
    BY <2>1, <2>2, Zenon
<1>8. Waiting' = {}
  <2> SUFFICES ASSUME NEW k \in Waiting' PROVE FALSE
    BY Zenon
  <2>1. k \in oldest..Live - 1 /\ StartsAfter(win'[k].start, lastStart')
    BY <1>1, <1>3, Zenon DEF Waiting
  <2>2. k \in 1..Live /\ win'[k].start = win[k].start
    BY <1>3, <1>W, <2>1
  <2>3. k \in Waiting \/ ~StartsAfter(win[k].start, lastStart)
    BY <2>1, <2>2, Zenon DEF Waiting
  <2> QED
    BY <1>7, <2>1, <2>2, <2>3, Zenon
<1>9. Stamped'
  <2>1. win'[Live'].start = win[Live].start
    BY <1>3, <1>W
  <2> QED
    BY <1>1, <1>3, <1>6, <1>7, <2>1, Zenon DEF Stamped
<1>10. WaitingInv'
  BY <1>8, Zenon DEF WaitingInv
<1>11. PushedOnceInv'
  <2> SUFFICES ASSUME NEW k \in 1..Live, win'[k].pushed > 0
               PROVE  win'[k].pushed = 1 /\ k < Live /\ ~StartsAfter(win[k].start, lastStart')
    BY <1>3, Zenon DEF PushedOnceInv
  <2>1. CASE k \in Waiting
    BY <1>3, <1>4, <1>5, <1>7, <1>W, <2>1
  <2>2. CASE k \notin Waiting
    BY <1>3, <1>7, <2>2, Zenon DEF PushedOnceInv
  <2> QED
    BY <2>1, <2>2, Zenon
<1> QED
  BY <1>9, <1>10, <1>11, Zenon

\* No window was pushed and none waits at the start.
LEMMA RaceInit == Init => RaceInv
<1> SUFFICES ASSUME Init PROVE RaceInv
  BY Zenon
<1> USE WindowConstants, CheckedInTime
<1>1. PICK d \in 0..MaxLag, n \in Nsecs :
        /\ now = d
        /\ win = <<NewBucket([sec |-> d, nsec |-> n])>>
  BY Zenon DEF Init
<1>2. [sec |-> d, nsec |-> n] \in Stamps
  BY DEF Stamps
<1>3. Live = 1 /\ win[1].start.sec = d /\ win[1].pushed = 0
  BY <1>1, <1>2, NewBucketFacts DEF Live
<1>4. Stamped
  BY <1>1, <1>3 DEF Init, Stamped
<1>5. Waiting = {}
  BY <1>3 DEF Init, Waiting
<1> QED
  BY <1>3, <1>4, <1>5 DEF RaceInv, WaitingInv, PushedOnceInv

\* Two writers, however they race: no closed window is pushed twice.
THEOREM NonePushedTwice ==
    ASSUME TwoWriters
    PROVE  Spec => []PushedAtMostOnce
<1>1. BoundInv /\ BoundInv' /\ OnTime /\ RaceInv /\ [Next]_vars => RaceInv'
  <2> SUFFICES ASSUME BoundInv, BoundInv', OnTime, RaceInv, [Next]_vars PROVE RaceInv'
    BY Zenon
  <2> QED
    BY StepKinds, QuietRace, ExportRace, ShiftRace, RestampRace, DueRace, Zenon
<1>2. BoundInv /\ RaceInv => PushedAtMostOnce
  <2> SUFFICES ASSUME BoundInv, RaceInv, NEW k \in 1..Live PROVE win[k].pushed <= 1
    BY Zenon DEF PushedAtMostOnce
  <2>1. win[k].pushed \in Nat
    BY RaceTypes, Zenon
  <2> QED
    BY <2>1 DEF RaceInv, PushedOnceInv
<1> QED
  BY <1>1, <1>2, RaceInit, OnTimeInit, OnTimeNext, BoundInvariant, PTL DEF Spec
=============================================================================
