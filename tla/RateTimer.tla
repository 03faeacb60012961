----------------------------- MODULE RateTimer -----------------------------
(***************************************************************************)
(* The rates of a bucket and the one timer thread that samples all of      *)
(* them.  A Rate counts events in _counter; once per interval the timer    *)
(* moves the count to _rate and adds it to the quantile sketch.  The       *)
(* window that closes cancels its rates, and destroys them when it         *)
(* expires.                                                                *)
(*                                                                         *)
(* The timer walks its list of events under its own lock, in steps that    *)
(* interleave with the owners of the rates: a cancel only raises a flag,   *)
(* which the timer looks at before it calls a rate, never during the call. *)
(***************************************************************************)
EXTENDS Naturals, Sequences, Functions

CONSTANTS
    Windows,    \* how many windows there are; each has one rate, its number
    Interval,   \* the ticks of 100 ms in the interval of 1 s
    MaxAdds     \* bound on the events that the rates count in all

VARIABLES
    owner,      \* what the owner of each rate has done with it
    cancelled,  \* the rates whose cancel event is signalled
    counter,    \* _counter
    rate,       \* _rate
    sampled,    \* the sum of the samples in _quantile
    events,     \* m_events: the rates in the list, with the ticks elapsed
    timer,      \* where the timer thread is: its step and its place in m_events
    taken,      \* what the timer took from _counter and has not stored yet
    added,      \* ghost: the events counted
    late        \* ghost: the samples a read only rate was given

Rates == 1..Windows

rateVars == <<owner, cancelled, counter, rate, sampled, events, timer, taken, added, late>>

\* Between two ticks the timer waits before the first event.
Waiting == [step |-> "wait", at |-> 1]

Init ==
    /\ owner = [r \in Rates |-> "none"]
    /\ cancelled = {}
    /\ counter = [r \in Rates |-> 0]
    /\ rate = [r \in Rates |-> 0]
    /\ sampled = [r \in Rates |-> 0]
    /\ events = <<>>
    /\ timer = Waiting
    /\ taken = 0
    /\ added = [r \in Rates |-> 0]
    /\ late = [r \in Rates |-> 0]

\* The rate of the event that the timer is at.
Here == events[timer.at].rate

\* The timer holds m_events_lock from the tick to the end of the list.
EventsLocked == timer.step # "wait"

\* cancel() holds the _sketch_mutex while it clears the rate.
SketchLocked(r) == owner[r] = "clearing"

-----------------------------------------------------------------------------
(* The owners. *)
\* A shift makes the rate of the next window, whose constructor puts its interval
\* into the timer's list, and then closes the window before.
SetInterval(r) ==
    /\ owner[r] = "none"
    /\ \A n \in Rates : n < r => owner[n] # "none"
    /\ ~EventsLocked
    /\ owner' = [owner EXCEPT ![r] = "live"]
    /\ events' = Append(events, [rate |-> r, elapsed |-> 0])
    /\ UNCHANGED <<cancelled, counter, rate, sampled, timer, taken, added, late>>

\* The newest window counts.
Newest(r) == \A n \in Rates : n > r => owner[n] = "none"

Add(r) ==
    /\ owner[r] = "live" /\ Newest(r)
    /\ FoldFunction(+, 0, added) < MaxAdds
    /\ counter' = [counter EXCEPT ![r] = @ + 1]
    /\ added' = [added EXCEPT ![r] = @ + 1]
    /\ UNCHANGED <<owner, cancelled, rate, sampled, events, timer, taken, late>>

\* cancel(): the signal, then the two stores under the _sketch_mutex.  The last
\* window's comes with the end of its handler.
Cancel(r) ==
    /\ owner[r] = "live" /\ (Newest(r) => r = Windows)
    /\ owner' = [owner EXCEPT ![r] = "cancelling"]
    /\ cancelled' = cancelled \cup {r}
    /\ UNCHANGED <<counter, rate, sampled, events, timer, taken, added, late>>

ClearRate(r) ==
    /\ owner[r] = "cancelling"
    /\ owner' = [owner EXCEPT ![r] = "clearing"]
    /\ rate' = [rate EXCEPT ![r] = 0]
    /\ UNCHANGED <<cancelled, counter, sampled, events, timer, taken, added, late>>

ClearCounter(r) ==
    /\ owner[r] = "clearing"
    /\ owner' = [owner EXCEPT ![r] = "readonly"]
    /\ counter' = [counter EXCEPT ![r] = 0]
    /\ UNCHANGED <<cancelled, rate, sampled, events, timer, taken, added, late>>

\* The destructor cancels once more, which changes nothing that somebody sees.
\* What the timer does to a rate that is gone is not followed.
Destroy(r) ==
    /\ owner[r] = "readonly"
    /\ owner' = [owner EXCEPT ![r] = "freed"]
    /\ rate' = [rate EXCEPT ![r] = 0]
    /\ sampled' = [sampled EXCEPT ![r] = 0]
    /\ late' = [late EXCEPT ![r] = 0]
    /\ UNCHANGED <<cancelled, counter, events, timer, taken, added>>

-----------------------------------------------------------------------------
(* The timer thread. *)
\* On to the next event; the end of the list gives the lock back.
GoOn(list, at) ==
    /\ events' = list
    /\ timer' = IF at > Len(list) THEN Waiting ELSE [step |-> "visit", at |-> at]

Without(i) == [k \in 1..(Len(events) - 1) |-> events[IF k < i THEN k ELSE k + 1]]

Elapsed(i, n) == [events EXCEPT ![i].elapsed = n]

Due(i) == events[i].elapsed + 1 >= Interval

\* Mutant of WasCancelled: a cancel goes unnoticed until the rate is gone.
WasDestroyed(r) == owner[r] = "freed"

\* The event's procedure first looks at its cancel event, and asks to be removed.
WasCancelled(r) == r \in cancelled

\* Mutant of Remove: the event is put off and not removed.
RemoveNothing(i) == GoOn(Elapsed(i, 0), i + 1)

Remove(i) == GoOn(Without(i), i)

\* One event of the list; the first one comes with the tick and the lock.
Visit ==
    /\ timer.step \in {"wait", "visit"}
    /\ events # <<>>
    /\ LET i == timer.at
       IN  \/ ~Due(i) /\ GoOn(Elapsed(i, events[i].elapsed + 1), i + 1)
           \/ Due(i) /\ WasCancelled(Here) /\ Remove(i)
           \/ /\ Due(i) /\ ~WasCancelled(Here)
              /\ timer' = [timer EXCEPT !.step = "exchange"]
              /\ UNCHANGED events
    /\ UNCHANGED <<owner, cancelled, counter, rate, sampled, taken, added, late>>

\* Mutant of Exchange: the count is read and not reset.
ReadCounter ==
    /\ timer.step = "exchange"
    /\ taken' = counter[Here]
    /\ timer' = [timer EXCEPT !.step = "store"]
    /\ UNCHANGED <<owner, cancelled, counter, rate, sampled, events, added, late>>

\* The rate's callback: _rate.store(_counter.exchange(0)), two atomic steps.
Exchange ==
    /\ timer.step = "exchange"
    /\ taken' = counter[Here]
    /\ counter' = [counter EXCEPT ![Here] = 0]
    /\ timer' = [timer EXCEPT !.step = "store"]
    /\ UNCHANGED <<owner, cancelled, rate, sampled, events, added, late>>

Store ==
    /\ timer.step = "store"
    /\ rate' = [rate EXCEPT ![Here] = taken]
    /\ taken' = 0
    /\ timer' = [timer EXCEPT !.step = "update"]
    /\ UNCHANGED <<owner, cancelled, counter, sampled, events, added, late>>

\* Mutant of Kept: the procedure asks to be removed, as that of a timeout does.
KeptNot == GoOn(Without(timer.at), timer.at)

Kept == GoOn(Elapsed(timer.at, 0), timer.at + 1)

\* The update of the sketch reads _rate again, under the _sketch_mutex; the
\* procedure of an interval then asks to be kept.
Update ==
    /\ timer.step = "update"
    /\ ~SketchLocked(Here)
    /\ sampled' = [sampled EXCEPT ![Here] = @ + rate[Here]]
    /\ late' = [late EXCEPT ![Here] = IF owner[Here] = "readonly" THEN @ + 1 ELSE @]
    /\ Kept
    /\ UNCHANGED <<owner, cancelled, counter, rate, taken, added>>

Timer == Visit \/ Exchange \/ Store \/ Update

Clear == \E r \in Rates : ClearRate(r) \/ ClearCounter(r)

Next ==
    \/ \E r \in Rates : SetInterval(r) \/ Add(r) \/ Cancel(r) \/ Destroy(r)
    \/ Clear
    \/ Timer

\* The timer's thread never rests for good, and a cancel() under way goes on.
Fairness == WF_rateVars(Timer) /\ WF_rateVars(Clear)

Spec == Init /\ [][Next]_rateVars /\ Fairness

-----------------------------------------------------------------------------
\* What the timer has taken from a rate and not sampled yet.
OnWay(r) ==
    CASE timer.step = "store" /\ Here = r -> taken
      [] timer.step = "update" /\ Here = r -> rate[r]
      [] OTHER -> 0

\* An event that a live rate counted is in one sample, on its way to one, or
\* still in _counter, and never in two: the callback's exchange, store and
\* update lose and repeat nothing, whenever the writer counts.
AddsSampledOnce ==
    \A r \in Rates : owner[r] = "live" => sampled[r] + OnWay(r) + counter[r] = added[r]

\* A rate that its window has cancelled is read only but for one sample, that of
\* the callback the timer was in when cancel() was called.
OneLateSample == \A r \in Rates : late[r] <= 1

\* Again and again the timer's list is free of cancelled rates: each is removed
\* by the visit after its cancel().
NoneCancelled == \A i \in 1..Len(events) : events[i].rate \notin cancelled
CancelledLeave == []<>NoneCancelled

\* Whatever a live rate counts is sampled, unless the rate is cancelled first:
\* once the writer pauses, every _counter returns to zero.
NothingCounted == \A r \in Rates : counter[r] = 0
CountsAreSampled == []<>NothingCounted

=============================================================================
