---------------------------- MODULE MetricsWindow ----------------------------
(***************************************************************************)
(* The metrics windows of one stream handler fed by a live input.          *)
(*                                                                         *)
(* Writers are the threads of the input that call into the handler: each   *)
(* delivers events (AbstractMetricsManager::new_event followed by          *)
(* live_bucket()->process_...) and heartbeats (check_period_shift).  Most  *)
(* inputs have one; a libpcap input has two, because its statistics        *)
(* callback, which sends the heartbeat, runs on a thread of its own.       *)
(* Readers are HTTP threads that scrape the handler.  The exporter is the  *)
(* timer thread of OpenTelemetry.h.                                        *)
(*                                                                         *)
(* The steps of a thread are the critical sections of _base_mutex and      *)
(* _bucket_mutex in the code; between two of them any other thread may     *)
(* run.  Time is a clock in seconds.                                       *)
(***************************************************************************)
EXTENDS MetricsBuckets

CONSTANTS
    Writers,     \* threads that deliver events and heartbeats
    Readers,     \* threads that scrape
    NumPeriods,  \* _num_periods, the windows kept
    PeriodSec,   \* METRICS_PERIOD_SEC, the length of a window
    ExportSec,   \* the interval of the exporter's timer
    MaxPost,     \* bound: how late a check may come, the last POST included
    MaxLag,      \* bound: age of a stamp when its processing ends
    Nsecs,       \* the nanosecond parts a stamp may have
    MaxTime,     \* bound on the clock
    MaxEvents    \* bound on the events delivered

ASSUME WindowConstants ==
    /\ NumPeriods \in 2..10
    /\ PeriodSec \in Nat /\ ExportSec \in Nat /\ MaxPost \in Nat
    /\ MaxLag \in Nat /\ MaxTime \in Nat /\ MaxEvents \in Nat
    /\ Nsecs \subseteq Nat /\ Nsecs # {}

\* main.cpp clamps the interval to half a window; what is left of the window
\* has to cover the POST and the lag of the stamps.
ASSUME CheckedInTime == ExportSec > 0 /\ ExportSec + MaxPost + MaxLag < PeriodSec

VARIABLES
    now,         \* the clock
    win,         \* the windows, see MetricsBuckets
    oldest,      \* the oldest window held
    nextShift,   \* _next_shift_tstamp.tv_sec
    delivered,   \* events delivered so far
    wpc,         \* what each writer does next
    job,         \* ... for an "event" or a "heartbeat"
    stamp,       \* ... with this time stamp
    ptr,         \* ... into this window, once live_bucket() returned it
    lastStart,   \* StreamMetricsHandler::_otel_last_window
    checkedAt,   \* when the exporter last checked
    rpc,         \* what each reader does next
    rsize        \* ... with this result of current_periods()

writerVars == <<delivered, wpc, job, stamp, ptr>>
readerVars == <<rpc, rsize>>
vars == <<now, win, oldest, nextShift, writerVars, lastStart, checkedAt, readerVars>>

Live == Len(win)

\* The constructor reads the clock for _next_shift_tstamp, then makes the first
\* window, which reads it again; the exporter's timer runs already.
Init ==
    /\ \E d \in 0..MaxLag, n \in Nsecs :
         /\ now = d
         /\ win = <<NewBucket([sec |-> d, nsec |-> n])>>
         /\ checkedAt \in d - ExportSec .. d
    /\ oldest = 1
    /\ nextShift = PeriodSec
    /\ delivered = 0
    /\ wpc = [w \in Writers |-> "idle"]
    /\ job = [w \in Writers |-> "heartbeat"]
    /\ stamp = [w \in Writers |-> NoStamp]
    /\ ptr = [w \in Writers |-> 0]
    /\ lastStart = NoStamp
    /\ rpc = [r \in Readers |-> "idle"]
    /\ rsize = [r \in Readers |-> 0]

-----------------------------------------------------------------------------
(* Writers *)

\* Mutant: a stamp in the second of the next shift does not shift.
WillShiftLate(s) == NumPeriods > 1 /\ s.sec > nextShift

\* The test both entry points make under _base_mutex before they let it go.
WillShift(s) == NumPeriods > 1 /\ s.sec >= nextShift

\* The stamp was taken when the packet or the heartbeat was; it reaches the
\* handler up to MaxLag seconds later.
FreshStamps == [sec : now - MaxLag .. now, nsec : Nsecs]

\* new_event: the base lock section.
NewEvent(w) ==
    /\ wpc[w] = "idle"
    /\ delivered < MaxEvents
    /\ delivered' = delivered + 1
    /\ \E s \in FreshStamps :
         /\ stamp' = [stamp EXCEPT ![w] = s]
         /\ wpc' = [wpc EXCEPT ![w] = IF WillShift(s) THEN "shift" ELSE "count"]
    /\ job' = [job EXCEPT ![w] = "event"]
    /\ UNCHANGED <<now, win, oldest, nextShift, ptr, lastStart, checkedAt, readerVars>>

\* check_period_shift: the base lock section.
CheckPeriodShift(w) ==
    /\ wpc[w] = "idle"
    /\ \E s \in FreshStamps :
         \/ /\ WillShift(s)
            /\ stamp' = [stamp EXCEPT ![w] = s]
            /\ wpc' = [wpc EXCEPT ![w] = "shift"]
            /\ job' = [job EXCEPT ![w] = "heartbeat"]
         \/ ~WillShift(s) /\ UNCHANGED <<stamp, wpc, job>>
    /\ UNCHANGED <<now, win, oldest, nextShift, delivered, ptr, lastStart, checkedAt, readerVars>>

\* _period_shift: the bucket lock section.
PeriodShift(w) ==
    /\ wpc[w] = "shift"
    /\ win' = Shifted(win, stamp[w])
    /\ oldest' = OldestAfterShift(win, oldest, NumPeriods)
    /\ wpc' = [wpc EXCEPT ![w] = "restamp"]
    /\ UNCHANGED <<now, nextShift, delivered, job, stamp, ptr, lastStart, checkedAt, readerVars>>

\* Mutant: the shift does not move the next one.
NoRestamp(w) ==
    /\ wpc[w] = "restamp"
    /\ wpc' = [wpc EXCEPT ![w] = IF job[w] = "event" THEN "count" ELSE "idle"]
    /\ UNCHANGED <<now, win, oldest, nextShift, delivered, job, stamp, ptr, lastStart, checkedAt, readerVars>>

\* _period_shift: the base lock section.  on_period_shift comes next; what the
\* handlers do there is not part of the window.
Restamp(w) ==
    /\ wpc[w] = "restamp"
    /\ nextShift' = stamp[w].sec + PeriodSec
    /\ wpc' = [wpc EXCEPT ![w] = IF job[w] = "event" THEN "count" ELSE "idle"]
    /\ UNCHANGED <<now, win, oldest, delivered, job, stamp, ptr, lastStart, checkedAt, readerVars>>

\* Mutant: the event is counted in the window at the back of the deque.
CountInOldest(w) ==
    /\ wpc[w] = "count"
    /\ win' = [win EXCEPT ![oldest].events = @ + 1]
    /\ wpc' = [wpc EXCEPT ![w] = "fetch"]
    /\ UNCHANGED <<now, oldest, nextShift, delivered, job, stamp, ptr, lastStart, checkedAt, readerVars>>

\* new_event: the bucket lock section counts the event in the live window.
CountEvent(w) ==
    /\ wpc[w] = "count"
    /\ win' = [win EXCEPT ![Live].events = @ + 1]
    /\ wpc' = [wpc EXCEPT ![w] = "fetch"]
    /\ UNCHANGED <<now, oldest, nextShift, delivered, job, stamp, ptr, lastStart, checkedAt, readerVars>>

\* Mutant: the window after the live one.
BucketPastLive(w) ==
    /\ wpc[w] = "fetch"
    /\ ptr' = [ptr EXCEPT ![w] = Live + 1]
    /\ wpc' = [wpc EXCEPT ![w] = "record"]
    /\ UNCHANGED <<now, win, oldest, nextShift, delivered, job, stamp, lastStart, checkedAt, readerVars>>

\* live_bucket() returns a raw pointer and lets the lock go.
LiveBucket(w) ==
    /\ wpc[w] = "fetch"
    /\ ptr' = [ptr EXCEPT ![w] = Live]
    /\ wpc' = [wpc EXCEPT ![w] = "record"]
    /\ UNCHANGED <<now, win, oldest, nextShift, delivered, job, stamp, lastStart, checkedAt, readerVars>>

\* The handler adds its own metrics through that pointer.
Record(w) ==
    /\ wpc[w] = "record"
    /\ win' = [win EXCEPT ![ptr[w]].metrics = @ + 1]
    /\ wpc' = [wpc EXCEPT ![w] = "idle"]
    /\ UNCHANGED <<now, oldest, nextShift, delivered, job, stamp, ptr, lastStart, checkedAt, readerVars>>

-----------------------------------------------------------------------------
(* The exporter *)

\* The timer of OpenTelemetry.h fires and reaches window_opentelemetry: more
\* than one period is kept, so the windows close and
\* window_closed_opentelemetry runs under both locks.
Export ==
    /\ now >= checkedAt + ExportSec
    /\ win' = Exported(win, oldest, lastStart)
    /\ lastStart' = LastExported(win, oldest, lastStart)
    /\ checkedAt' = now
    /\ UNCHANGED <<now, oldest, nextShift, writerVars, readerVars>>

-----------------------------------------------------------------------------
(* Readers *)

\* window_prometheus and merge ask for the number of windows ...
CurrentPeriods(r) ==
    /\ rpc[r] = "idle"
    /\ rsize' = [rsize EXCEPT ![r] = Size(win, oldest)]
    /\ rpc' = [rpc EXCEPT ![r] = "scrape"]
    /\ UNCHANGED <<now, win, oldest, nextShift, writerVars, lastStart, checkedAt>>

\* ... and, with the lock taken anew, for this one.
PrometheusPeriod(r) == IF rsize[r] > 1 THEN 1 ELSE 0

\* window_single_prometheus: a period that is not held throws PeriodException.
PeriodHeld(period) == period < NumPeriods /\ period < Size(win, oldest)

WindowPrometheus(r) ==
    /\ rpc[r] = "scrape"
    /\ rpc' = [rpc EXCEPT ![r] = IF PeriodHeld(PrometheusPeriod(r)) THEN "idle" ELSE "thrown"]
    /\ UNCHANGED <<now, win, oldest, nextShift, writerVars, lastStart, checkedAt, rsize>>

-----------------------------------------------------------------------------
\* A second passes.  Work on a stamp ends before it is MaxLag old and a check
\* comes at most MaxPost late.
Tick ==
    /\ now < MaxTime
    /\ \A w \in Writers : wpc[w] # "idle" => now < stamp[w].sec + MaxLag
    /\ now < checkedAt + ExportSec + MaxPost
    /\ now' = now + 1
    /\ UNCHANGED <<win, oldest, nextShift, writerVars, lastStart, checkedAt, readerVars>>

Writer(w) ==
    \/ NewEvent(w)
    \/ CheckPeriodShift(w)
    \/ PeriodShift(w)
    \/ Restamp(w)
    \/ CountEvent(w)
    \/ LiveBucket(w)
    \/ Record(w)

Reader(r) ==
    \/ CurrentPeriods(r)
    \/ WindowPrometheus(r)

Next ==
    \/ \E w \in Writers : Writer(w)
    \/ \E r \in Readers : Reader(r)
    \/ Export
    \/ Tick

Spec == Init /\ [][Next]_vars

-----------------------------------------------------------------------------
(* Properties *)

\* The variables have their types.
TypeOK ==
    /\ now \in Nat
    /\ win \in Seq(Buckets)
    /\ oldest \in 1..Live
    /\ nextShift \in Int
    /\ delivered \in 0..MaxEvents
    /\ wpc \in [Writers -> {"idle", "shift", "restamp", "count", "fetch", "record"}]
    /\ job \in [Writers -> {"event", "heartbeat"}]
    /\ stamp \in [Writers -> Stamps]
    /\ ptr \in [Writers -> 0..Live]
    /\ lastStart \in Stamps
    /\ checkedAt \in Int
    /\ rpc \in [Readers -> {"idle", "scrape", "thrown"}]
    /\ rsize \in [Readers -> 0..NumPeriods]

\* The container never holds more than num_periods windows, however the shifts
\* of two threads interleave, and it always holds the live one.
WindowBound == Size(win, oldest) \in 1..NumPeriods

\* A closed window ends in the second in which the next one starts, and every
\* window but the live one is closed, however shifts race.  That the starts
\* are in order it does not say: of two racing shifts the one with the later
\* stamp may come first, and the window between them ends before it starts
\* (StartsIncrease holds for one writer only).
Contiguous == \A k \in 1..Live - 1 : win[k].readOnly /\ win[k].end = win[k + 1].start.sec

\* Each window starts later than the one before it, which is what
\* _starts_after relies on to tell what was pushed already.
StartsIncrease == \A k \in 1..Live - 1 : StartsAfter(win[k + 1].start, win[k].start)

\* Exactly the closed windows that do not start after _otel_last_window were
\* pushed, and each of them once: the marker neither skips a window that is
\* held nor repeats one.
MarkerExact ==
    \A k \in 1..Live - 1 :
        win[k].pushed = IF StartsAfter(win[k].start, lastStart) THEN 0 ELSE 1

\* No closed window is pushed twice: "a window pushed again is stored again
\* downstream" (StreamHandler.h).
PushedAtMostOnce == \A k \in 1..Live : win[k].pushed <= 1

\* No window expires before it was pushed: "checking at least twice a window
\* keeps one from expiring unpushed" (main.cpp).
NoneExpiresUnpushed == \A k \in 1..oldest - 1 : win[k].pushed >= 1

\* An event is counted in a window that should not have closed before it: no
\* window takes in events of more than PERIOD_SEC seconds.
EventInItsWindow ==
    \A w \in Writers : wpc[w] = "count" => stamp[w].sec < win[Live].start.sec + PeriodSec

\* A closed window holds whole events: what new_event counted there and what
\* the handler added through live_bucket() belong together.
WholeEvents == \A k \in 1..Live - 1 : win[k].events = win[k].metrics

\* A writer never adds metrics through a pointer to a window that a shift of
\* the other thread has expired.
NoExpiredWrite == \A w \in Writers : wpc[w] = "record" => ptr[w] >= oldest

\* A window never changes again once it is closed, so what is pushed is final.
ClosedFrozen ==
    [][\A k \in 1..Live : win[k].readOnly =>
          [win'[k] EXCEPT !.pushed = 0] = [win[k] EXCEPT !.pushed = 0]]_vars

\* A Prometheus scrape never fails with PeriodException although the number of
\* windows is read under one lock and used under another.
ScrapeNeverThrows == \A r \in Readers : rpc[r] # "thrown"

\* The handler with its exporter does what WindowExport promises.
Promised == INSTANCE WindowExport WITH copies <- [k \in 1..Live - 1 |-> win[k].pushed]

\* Each closed window is pushed once, at the first check after it closes.
ExportsEachWindowOnce == Promised!Spec
=============================================================================
