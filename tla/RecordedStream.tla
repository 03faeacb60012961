--------------------------- MODULE RecordedStream ---------------------------
(***************************************************************************)
(* The metrics windows of a handler fed from a capture file.  One thread   *)
(* replays the file (PcapInputStream::_open_pcap) as fast as it can, with  *)
(* the stamps of the packets, so windows open and close with no relation   *)
(* to the exporter's clock: the exporter may check at any time.  The end   *)
(* of the file closes the live window.                                     *)
(***************************************************************************)
EXTENDS MetricsBuckets

CONSTANTS
    Periods,     \* the num_periods a policy may have
    PeriodSec,   \* METRICS_PERIOD_SEC
    FileSecs,    \* the seconds the packets of the file carry, in any order
    MaxPackets   \* bound: packets of the file

VARIABLES
    numPeriods, \* _num_periods, clamped by the constructor to 1..10
    phase,      \* "opening", "reading", "ended": where the replay thread is
    packets,    \* packets replayed
    lastSec,    \* end_tstamp, the stamp of the packet replayed last
    highest,    \* the latest stamp replayed so far
    win,        \* the windows, see MetricsBuckets
    oldest,
    nextShift,  \* _next_shift_tstamp.tv_sec
    epc,        \* "idle", or "live" once the exporter saw a window that never closes
    everLive,   \* _otel_last_live has a value
    lastStart   \* _otel_last_window

vars == <<numPeriods, phase, packets, lastSec, highest, win, oldest, nextShift, epc, everLive, lastStart>>
replayVars == <<phase, packets, lastSec, highest, win, oldest, nextShift>>

At(sec) == [sec |-> sec, nsec |-> 0]
Live == Len(win)

\* The handler is made when the policy loads; the clock is past the file's
\* stamps by then.
Init ==
    /\ numPeriods \in Periods
    /\ phase = "opening"
    /\ packets = 0
    /\ lastSec \in FileSecs
    /\ highest = 0
    /\ \E made \in FileSecs : win = <<NewBucket(At(made))>> /\ nextShift = made + PeriodSec
    /\ oldest = 1
    /\ epc = "idle"
    /\ everLive = FALSE
    /\ lastStart = NoStamp

-----------------------------------------------------------------------------
(* The replay thread *)

\* new_event with a packet's stamp.  No other thread shifts, so the sections of
\* new_event and _period_shift are one step here; the exporter looks at closed
\* windows only and cannot tell.
NewEvent(sec) ==
    LET shifts  == numPeriods > 1 /\ sec >= nextShift
        shifted == IF shifts THEN Shifted(win, At(sec)) ELSE win
    IN  /\ win' = [shifted EXCEPT ![Len(shifted)].events = @ + 1,
                                  ![Len(shifted)].metrics = @ + 1]
        /\ oldest' = IF shifts THEN OldestAfterShift(win, oldest, numPeriods) ELSE oldest
        /\ nextShift' = IF shifts THEN sec + PeriodSec ELSE nextShift

\* The first packet: set_start_tstamp moves the live window and the next shift
\* to its stamp before the packet itself is processed.
Open ==
    /\ phase = "opening"
    /\ phase' = "reading"
    /\ packets' = 1
    /\ \E sec \in FileSecs :
         /\ win' = [win EXCEPT ![Live].start = At(sec),
                               ![Live].events = 1, ![Live].metrics = 1]
         /\ nextShift' = sec + PeriodSec
         /\ highest' = sec
    /\ UNCHANGED <<numPeriods, lastSec, oldest, epc, everLive, lastStart>>

\* The following ones.
Replay ==
    /\ phase = "reading"
    /\ packets < MaxPackets
    /\ packets' = packets + 1
    /\ \E sec \in FileSecs :
         /\ NewEvent(sec)
         /\ lastSec' = sec
         /\ highest' = IF sec > highest THEN sec ELSE highest
    /\ UNCHANGED <<numPeriods, phase, epc, everLive, lastStart>>

\* Mutant: the end of the file only stamps the live window.
EndKeepsOpen ==
    /\ phase # "ended"
    /\ phase' = "ended"
    /\ win' = [win EXCEPT ![Live].end = lastSec]
    /\ UNCHANGED <<numPeriods, packets, lastSec, highest, oldest, nextShift, epc, everLive, lastStart>>

\* The end of the file: set_end_tstamp closes the live window.  The stamp it
\* gets is that of the last packet after the first; a file of one packet leaves
\* it uninitialised, which is any value (lastSec is arbitrary until Replay), and
\* so does an empty file.
End ==
    /\ phase # "ended"
    /\ phase' = "ended"
    /\ win' = [win EXCEPT ![Live] = SetReadOnly(@, At(lastSec))]
    /\ UNCHANGED <<numPeriods, packets, lastSec, highest, oldest, nextShift, epc, everLive, lastStart>>

\* Mutant: the events flushed after the end keep running on the wall clock.
FlushStampedNow ==
    /\ phase = "ended"
    /\ packets < MaxPackets
    /\ packets' = packets + 1
    /\ \E sec \in FileSecs : NewEvent(sec)
    /\ UNCHANGED <<numPeriods, phase, lastSec, highest, epc, everLive, lastStart>>

\* Then closeAllConnections flushes what TCP reassembly still holds, which can
\* deliver events with the stamps of packets replayed before.
Flush ==
    /\ phase = "ended"
    /\ packets < MaxPackets
    /\ packets' = packets + 1
    /\ \E sec \in FileSecs : sec <= highest /\ NewEvent(sec)
    /\ UNCHANGED <<numPeriods, phase, lastSec, highest, epc, everLive, lastStart>>

-----------------------------------------------------------------------------
(* The exporter: StreamMetricsHandler::window_opentelemetry *)

ClosesWindows == numPeriods > 1 \/ win[Live].readOnly

ExportClosed ==
    /\ epc = "idle"
    /\ ClosesWindows
    /\ win' = Exported(win, oldest, lastStart)
    /\ lastStart' = LastExported(win, oldest, lastStart)
    /\ UNCHANGED <<numPeriods, phase, packets, lastSec, highest, oldest, nextShift, epc, everLive>>

\* A single window that has not closed: closes_windows() returned false ...
SeesLive ==
    /\ epc = "idle"
    /\ ~ClosesWindows
    /\ epc' = "live"
    /\ UNCHANGED <<numPeriods, replayVars, everLive, lastStart>>

\* ... and then live_window_due decides, by a clock that the replay does not
\* see, whether window_single_opentelemetry pushes the live window.
ExportLive ==
    /\ epc = "live"
    /\ epc' = "idle"
    /\ \/ /\ everLive' = TRUE
          /\ win' = IF win[Live].readOnly THEN [win EXCEPT ![Live].pushed = @ + 1] ELSE win
       \/ everLive /\ UNCHANGED <<everLive, win>>
    /\ UNCHANGED <<numPeriods, phase, packets, lastSec, highest, oldest, nextShift, lastStart>>

Exporter == ExportClosed \/ SeesLive \/ ExportLive

Next == Open \/ Replay \/ End \/ Flush \/ Exporter

\* The timer of OpenTelemetry.h keeps firing and the file is read to its end.
Fairness == WF_vars(Exporter) /\ WF_vars(End)

Spec == Init /\ [][Next]_vars /\ Fairness

-----------------------------------------------------------------------------
(* Properties *)

\* The variables have their types, and num_periods bounds the windows held.
TypeOK ==
    /\ numPeriods \in Periods
    /\ phase \in {"opening", "reading", "ended"}
    /\ packets \in 0..MaxPackets
    /\ lastSec \in FileSecs
    /\ highest \in {0} \cup FileSecs
    /\ win \in Seq([start : [sec : FileSecs, nsec : {0}], end : {0} \cup FileSecs,
                    readOnly : BOOLEAN, events : Nat, metrics : Nat, pushed : Nat])
    /\ oldest \in 1..Live /\ Size(win, oldest) <= numPeriods
    /\ nextShift \in Nat
    /\ epc \in {"idle", "live"}
    /\ everLive \in BOOLEAN
    /\ lastStart \in {NoStamp} \cup [sec : FileSecs, nsec : {0}]

\* "A push that comes late, or a replay that closes windows faster than the
\* exporter checks, then loses none of the windows still held": a closed window
\* held and not yet pushed is one the next check pushes.
HeldNotSkipped ==
    \A k \in oldest..NewestClosed(win) :
        win[k].pushed = 0 => StartsAfter(win[k].start, lastStart)

\* Where more than one period is kept, "Pushes each closed window once".
ClosedPushedAtMostOnce == numPeriods > 1 => \A k \in 1..Live : win[k].pushed <= 1

\* The same for any number of periods.
PushedAtMostOnce == \A k \in 1..Live : win[k].pushed <= 1

\* Nothing that happens after the end of the file opens another window: the
\* flushed events go to the last one, so closing it at the end was right.
NoShift == phase = "ended" => Len(win') = Len(win)

NoShiftAfterEnd == [][NoShift]_vars

LastPushed == phase = "ended" /\ win[Live].pushed >= 1

\* The last window is pushed once the stream has ended.
LastWindowPushed == <>LastPushed
=============================================================================
