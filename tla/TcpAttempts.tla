----------------------------- MODULE TcpAttempts ----------------------------
(***************************************************************************)
(* One TcpProbe and the outcome its handler counts for each of its         *)
(* attempts.  All of it runs on the input's loop: the interval timer, the  *)
(* callbacks of the connection and the cancelled callback of a connection  *)
(* the probe closed, which comes a loop turn later, when the next attempt  *)
(* may be under way.  Time is in ticks; a blocked loop runs timers late.   *)
(***************************************************************************)
EXTENDS Integers

CONSTANTS
    Interval, Timeout,  \* interval_msec and timeout_msec, in ticks; Timeout <= Interval
    Ttl,                \* the handler's xact_ttl
    MaxCancels          \* bound on the cancelled callbacks waiting

VARIABLES
    client,     \* _client: "none", "connecting", "connected" or "closed"
    connecting, \* _connecting
    age,        \* time since _attempt_start
    due,        \* time until the interval timer fires
    cancels,    \* connect callbacks of closed clients, still to come
    open,       \* age of the attempt's transaction in the handler, or NotOpen
    outcomes,   \* outcomes counted since the last attempt was
    uncounted,  \* the last attempt succeeded after a period shift had cleared it
    attempt,    \* history: parity of the attempts
    skipped,    \* history: an attempt started before the last one had its outcome
    stopped

attemptVars == <<client, connecting, age, due, cancels, open, outcomes, uncounted, attempt,
                 skipped, stopped>>

NotOpen == -1
Oldest == IF Timeout > Ttl THEN Timeout ELSE Ttl

AttemptInit ==
    /\ client = "none" /\ connecting = FALSE /\ age = 0 /\ due = 0 /\ cancels = 0
    /\ open = NotOpen /\ outcomes = 1 /\ uncounted = FALSE /\ attempt = 0 /\ skipped = FALSE
    /\ stopped = FALSE

Older(t) == IF t < Oldest THEN t + 1 ELSE t

Pass ==
    /\ ~stopped
    /\ age' = Older(age)
    /\ due' = IF due > 0 THEN due - 1 ELSE 0
    /\ open' = IF open = NotOpen THEN NotOpen ELSE Older(open)
    /\ UNCHANGED <<client, connecting, cancels, outcomes, uncounted, attempt, skipped, stopped>>

Alive == client \in {"connecting", "connected"}

\* Mutant of PutOff: the attempt gets a whole timeout again.
PutOffAnew ==
    /\ ~stopped /\ due = 0
    /\ Alive /\ connecting /\ age < Timeout
    /\ due' = Timeout - age /\ age' = 0
    /\ UNCHANGED <<client, connecting, cancels, open, outcomes, uncounted, attempt, skipped, stopped>>

\* _drop_attempt puts the tick off.
PutOff ==
    /\ ~stopped /\ due = 0
    /\ Alive /\ connecting /\ age < Timeout
    /\ due' = Timeout - age
    /\ UNCHANGED <<client, connecting, age, cancels, open, outcomes, uncounted, attempt, skipped, stopped>>

\* The rest of _drop_attempt: a connection that is still connecting has timed out.  The
\* interval counts from the loop's clock: lookups since then have used some of it.
Dropped ==
    /\ ~stopped /\ due = 0
    /\ ~(Alive /\ connecting /\ age < Timeout)
    /\ due' \in 0..Interval
    /\ cancels' = IF client = "connecting" THEN cancels + 1 ELSE cancels
    /\ cancels' <= MaxCancels

DroppedOutcome == IF Alive /\ connecting THEN outcomes + 1 ELSE outcomes

\* The lookup fails or the address does not parse: a failure and no attempt.
TickWithoutAttempt ==
    /\ Dropped
    /\ client' = IF Alive THEN "closed" ELSE client
    /\ connecting' = FALSE
    /\ outcomes' = DroppedOutcome
    /\ UNCHANGED <<age, open, uncounted, attempt, skipped, stopped>>

\* _perform_tcp_process: _send counts the attempt, then connect() may fail at once.
TickAttempt ==
    /\ Dropped
    /\ skipped' = (skipped \/ (DroppedOutcome = 0 /\ ~uncounted))
    /\ open' = 0 /\ uncounted' = FALSE /\ attempt' = 1 - attempt
    /\ \/ client' = "connecting" /\ connecting' = TRUE /\ age' = 0 /\ outcomes' = 0
       \/ client' = "closed" /\ connecting' = FALSE /\ outcomes' = 1 /\ UNCHANGED age
    /\ UNCHANGED stopped

\* connect_event: the handler ends the transaction, as Valid or as TimedOut by its ttl.
Connected ==
    /\ ~stopped /\ client = "connecting"
    /\ client' = "connected" /\ connecting' = FALSE
    /\ outcomes' = IF open = NotOpen THEN outcomes ELSE outcomes + 1
    /\ uncounted' = (open = NotOpen)
    /\ open' = NotOpen
    /\ UNCHANGED <<age, due, cancels, attempt, skipped, stopped>>

\* Mutant of Failed: a cancelled connection is counted like a refused one.
FailedAnyhow(code) ==
    /\ IF connecting
       THEN connecting' = FALSE /\ outcomes' = outcomes + 1
       ELSE UNCHANGED <<connecting, outcomes>>
    /\ UNCHANGED <<age, due, open, uncounted, attempt, skipped, stopped>>

\* error_event.  An error of the shutdown comes with _connecting off.
Failed(code) ==
    /\ IF code # "cancelled" /\ connecting
       THEN connecting' = FALSE /\ outcomes' = outcomes + 1
       ELSE UNCHANGED <<connecting, outcomes>>
    /\ UNCHANGED <<age, due, open, uncounted, attempt, skipped, stopped>>

Refused ==
    /\ ~stopped /\ Alive
    /\ Failed("refused")
    /\ client' = "closed" /\ UNCHANGED cancels

Cancelled ==
    /\ cancels > 0
    /\ cancels' = cancels - 1
    /\ Failed("cancelled")
    /\ UNCHANGED client

\* shutdown_event
Shutdown ==
    /\ ~stopped /\ client = "connected"
    /\ client' = "closed"
    /\ UNCHANGED <<connecting, age, due, cancels, open, outcomes, uncounted, attempt, skipped, stopped>>

\* Another event of the handler shifts the period: on_period_shift clears the manager.
Shift ==
    /\ ~stopped /\ open # NotOpen
    /\ open' = NotOpen
    /\ UNCHANGED <<client, connecting, age, due, cancels, outcomes, uncounted, attempt, skipped, stopped>>

StopTcp ==
    /\ ~stopped /\ stopped' = TRUE
    /\ client' = IF Alive THEN "closed" ELSE client
    /\ cancels' = IF client = "connecting" THEN cancels + 1 ELSE cancels
    /\ UNCHANGED <<connecting, age, due, open, outcomes, uncounted, attempt, skipped>>

Tick == PutOff \/ TickWithoutAttempt \/ TickAttempt

AttemptNext ==
    \/ Pass \/ Tick
    \/ Connected \/ Refused \/ Cancelled \/ Shutdown
    \/ Shift \/ StopTcp

AttemptSpec == AttemptInit /\ [][AttemptNext]_attemptVars

(***************************************************************************)
(* The counters account for every attempt: one success, timeout or connect *)
(* failure each, and it is there before the next attempt begins, unless a  *)
(* period shift cleared the attempt before it succeeded.  A late callback  *)
(* of the connection before is not counted for this one.                   *)
(***************************************************************************)
OutcomeOnce == outcomes <= 1 /\ ~skipped

Waiting(a) == connecting /\ attempt = a

(***************************************************************************)
(* A probe that connects for ever to a target that does not answer still   *)
(* gets its outcome: the put-off tick comes again.                         *)
(***************************************************************************)
AttemptEnds == \A a \in {0, 1} : Waiting(a) ~> (~Waiting(a) \/ stopped)

=============================================================================
