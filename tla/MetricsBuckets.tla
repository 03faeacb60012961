--------------------------- MODULE MetricsBuckets ---------------------------
(***************************************************************************)
(* The container of metrics windows of one stream handler                  *)
(* (AbstractMetricsManager::_metric_buckets) and the operations on it.     *)
(*                                                                         *)
(* The code keeps a deque whose front is the live window.  A window enters *)
(* only at the front and leaves only at the back, so the deque is always a *)
(* contiguous run of the windows ever made.  Here `win' is the sequence of *)
(* all windows ever made, the live one last, and `oldest' the index of the *)
(* one at the back of the deque: deque index i is window Len(win) - i.     *)
(* The entries below `oldest' are destroyed in the code; they are kept as  *)
(* history for the properties, and no operation may use them.              *)
(***************************************************************************)
EXTENDS Integers, Sequences

\* timespec; the stamp of a packet may lie before the start of the model's clock.
Stamps == [sec : Int, nsec : Nat]

\* An AbstractMetricsBucket: `events' is its base event counter, `metrics' stands
\* for everything a handler adds to it.  `pushed' is history: how often the
\* window was given to the exporter after it closed.
Buckets == [start : Stamps, end : Int, readOnly : BOOLEAN,
            events : Nat, metrics : Nat, pushed : Nat]

\* std::optional<timespec> without a value.
NoStamp == [sec |-> -1, nsec |-> 0]

\* Mutant: the comparison lets a window come after itself.
StartsNotBefore(t, after) ==
    \/ after = NoStamp
    \/ t.sec > after.sec
    \/ t.sec = after.sec /\ t.nsec >= after.nsec

\* AbstractMetricsManager::_starts_after.
StartsAfter(t, after) ==
    \/ after = NoStamp
    \/ t.sec > after.sec
    \/ t.sec = after.sec /\ t.nsec > after.nsec

\* A fresh AbstractMetricsBucket.
NewBucket(stamp) ==
    [start |-> stamp, end |-> 0, readOnly |-> FALSE,
     events |-> 0, metrics |-> 0, pushed |-> 0]

\* AbstractMetricsBucket::set_read_only.
SetReadOnly(bucket, stamp) ==
    [bucket EXCEPT !.end = stamp.sec, !.readOnly = TRUE]

\* The number of windows held: current_periods().
Size(win, oldest) == Len(win) - oldest + 1

\* Mutant: the window that stops being live is not closed.
ShiftedOpen(win, stamp) == Append(win, NewBucket(stamp))

\* The windows of the deque after the part of _period_shift that runs under
\* _bucket_mutex: the live window closes and a new one starts at stamp.
Shifted(win, stamp) ==
    Append([win EXCEPT ![Len(win)] = SetReadOnly(@, stamp)], NewBucket(stamp))

\* Mutant: the container is allowed one window too many.
ExpireLate(win, oldest, numPeriods) ==
    IF Size(win, oldest) > numPeriods THEN oldest + 1 ELSE oldest

\* Mutant: a window expires as soon as num_periods are held.
ExpireEarly(win, oldest, numPeriods) ==
    IF Size(win, oldest) + 1 >= numPeriods THEN oldest + 1 ELSE oldest

\* Mutant: a full container drops two windows at once.
ExpireTwo(win, oldest, numPeriods) ==
    IF Size(win, oldest) + 1 > numPeriods THEN oldest + 2 ELSE oldest

\* ... and the back of the deque after it: the oldest window expires when more
\* than num_periods are held.
OldestAfterShift(win, oldest, numPeriods) ==
    IF Size(win, oldest) + 1 > numPeriods THEN oldest + 1 ELSE oldest

\* Mutant: the live window counts as closed.
NewestIsLive(win) == Len(win)

\* AbstractMetricsManager::_newest_closed.
NewestClosed(win) ==
    IF win[Len(win)].readOnly THEN Len(win) ELSE Len(win) - 1

\* The windows window_closed_opentelemetry exports: every closed one held that
\* starts after the last one exported.
Unexported(win, oldest, last) ==
    {k \in oldest..NewestClosed(win) : StartsAfter(win[k].start, last)}

\* window_closed_opentelemetry: each window of Unexported is written once (by a
\* handler with some group enabled; with none, _bucket_opentelemetry returns and
\* the marker goes past a window of which nothing was written) ...
Exported(win, oldest, last) ==
    [k \in 1..Len(win) |->
        IF k \in Unexported(win, oldest, last)
        THEN [win[k] EXCEPT !.pushed = @ + 1]
        ELSE win[k]]

\* Mutant: the start of the live window is recorded.
LastIsLive(win, oldest, last) == win[Len(win)].start

\* ... oldest first, and the start of the one written last is recorded.
LastExported(win, oldest, last) ==
    LET todo == Unexported(win, oldest, last)
    IN  IF todo = {}
        THEN last
        ELSE win[CHOOSE k \in todo : \A j \in todo : j <= k].start
=============================================================================
