-------------------------- MODULE DnsTransactions --------------------------
(***************************************************************************)
(* How the DNS handler (v2) pairs queries with responses.  A query opens a *)
(* transaction in the TransactionManager of its direction, the response    *)
(* ends it, and what stays open too long is purged when the handler's      *)
(* window shifts.  A packet that does not pass the handler's filters is    *)
(* followed too, so that the answer to a filtered query can be told apart  *)
(* from an answer to nothing.                                              *)
(*                                                                         *)
(* Time is in milliseconds, kept as the source keeps it, in seconds and a  *)
(* rest.  Stamps do not decrease.  What the filters look at is left out: a *)
(* packet passes them or not.  The handler keeps more than one period, so  *)
(* that its windows do shift.                                              *)
(***************************************************************************)
EXTENDS Integers, FiniteSets

CONSTANTS
    Flows, XIds,    \* flow keys and DNS transaction ids
    L3Key,          \* the protocol type of the layer below TCP, as a flow key
    Transports,     \* a subset of {"udp", "tcp"}
    NoXact,
    TtlMs,          \* xact_ttl_ms
    Period,         \* PERIOD_SEC
    Ticks,          \* how far the clock may move at once, in milliseconds
    MaxPackets, MaxTime     \* bounds: packets in all, seconds

ASSUME DnsConstants ==
    /\ TtlMs \in Nat /\ Period \in Nat \ {0}
    /\ Ticks \subseteq 0 .. 999
    /\ MaxPackets \in Nat /\ MaxTime \in Nat
    /\ Transports \subseteq {"udp", "tcp"}

VARIABLES
    now,        \* the stamp of the packet at hand
    lastShift,  \* _last_shift_tstamp, in seconds
    open,       \* the three TransactionManagers: key -> transaction, or NoXact
    metrics,    \* the counters of the buckets, summed over windows
    asked,      \* history: the queries on the wire no response came for yet
    seen        \* history: the packets, and the queries among them

vars == <<now, lastShift, open, metrics, asked, seen>>

Stamps == {t \in [s : Nat, ms : Nat] : t.ms < 1000}
Directions == {"toHost", "fromHost", "unknown"}
Xacts == [at : Stamps, filtered : BOOLEAN]
Keys == (Flows \cup {L3Key}) \X XIds \X {"in", "out", "unknown"}
\* A key is a hash of 32 bits, an id of 16 and a direction.
ASSUME FiniteKeys == IsFiniteSet(Keys)
\* A transaction that is not there is not one of them.
ASSUME NoXactIsNone == NoXact \notin Xacts

Queries == Flows \X XIds \X Directions

Ms(t) == t.s * 1000 + t.ms
Age(t) == Ms(now) - Ms(t)

-----------------------------------------------------------------------------
\* TransactionManager
TtlSecs == IF TtlMs > 1000 THEN TtlMs \div 1000 ELSE 0
TtlRest == IF TtlMs > 1000 THEN TtlMs - TtlSecs * 1000 ELSE TtlMs

\* A plausible slip: the borrow is taken twice.
DiffTwoBorrows(a, b) ==
    LET s == IF a.s > b.s THEN a.s - b.s ELSE b.s - a.s
    IN  IF a.ms < b.ms THEN [s |-> s - 2, ms |-> a.ms - b.ms + 1000]
                       ELSE [s |-> s, ms |-> a.ms - b.ms]

TimespecDiff(a, b) ==
    LET s == IF a.s > b.s THEN a.s - b.s ELSE b.s - a.s
    IN  IF a.ms < b.ms THEN [s |-> s - 1, ms |-> a.ms - b.ms + 1000]
                       ELSE [s |-> s, ms |-> a.ms - b.ms]

TimedOut(total) ==
    \/ total.s > TtlSecs
    \/ total.s = TtlSecs /\ total.ms >= TtlRest

\* What maybe_end_transaction says of the transaction under a key of xacts.
Result(xacts, k) ==
    CASE xacts[k] = NoXact -> "NotExist"
      [] xacts[k] # NoXact /\ TimedOut(TimespecDiff(now, xacts[k].at)) -> "TimedOut"
      [] OTHER -> "Valid"

Erased(xacts, k) == [xacts EXCEPT ![k] = NoXact]

\* A plausible slip: the purge is off by one second.
OldByOneMore(k) == open[k] # NoXact /\ now.s > TtlSecs + open[k].at.s

\* A plausible slip: the purge forgets the TTL.
OldAtOnce(k) == open[k] # NoXact /\ now.s >= open[k].at.s

\* purge_old_transactions counts in whole seconds.
Old(k) == open[k] # NoXact /\ now.s >= TtlSecs + open[k].at.s

-----------------------------------------------------------------------------
\* new_event and check_period_shift, with on_period_shift
WillShift == now.s >= lastShift + Period

Purged == {k \in Keys : WillShift /\ Old(k)}

\* A plausible slip: the purged transactions are counted and not erased.
LeftAll == open

Left == [k \in Keys |-> IF k \in Purged THEN NoXact ELSE open[k]]

\* The windows shift if it is time: old transactions go, counted in the new window.
Shift == lastShift' = IF WillShift THEN now.s ELSE lastShift

\* A plausible slip: the purged transactions are taken off the counter.
CountOff(xacts, timeouts, orphans, filtered) ==
    metrics' = [xacts    |-> metrics.xacts + xacts,
                timeouts |-> metrics.timeouts + timeouts - Cardinality(Purged),
                orphans  |-> metrics.orphans + orphans,
                filtered |-> metrics.filtered + filtered]

\* What a packet adds to the counters, after the purge it may have caused.
Count(xacts, timeouts, orphans, filtered) ==
    metrics' = [xacts    |-> metrics.xacts + xacts,
                timeouts |-> metrics.timeouts + timeouts + Cardinality(Purged),
                orphans  |-> metrics.orphans + orphans,
                filtered |-> metrics.filtered + filtered]

QueryDirection(dir) ==
    CASE dir = "toHost" -> "in" [] dir = "fromHost" -> "out" [] OTHER -> "unknown"

\* A plausible slip: a response looks in the direction of its own packet.
SameDirection(dir) == QueryDirection(dir)

\* For a response to match, its direction is switched.
ResponseDirection(dir) ==
    CASE dir = "toHost" -> "out" [] dir = "fromHost" -> "in" [] OTHER -> "unknown"

\* Where the query this packet answers came from.
Opposite(dir) ==
    CASE dir = "toHost" -> "fromHost" [] dir = "fromHost" -> "toHost" [] OTHER -> dir

\* The flow key a packet is filed under when the filters drop it: the handler of
\* TCP messages passes the protocol type where _filtering expects the flow key.
FilterFlow(f, transport) == IF transport = "tcp" THEN L3Key ELSE f

\* process_dns_layer, of a query
ProcessQuery(f, x, dir) ==
    /\ Shift
    /\ open' = [Left EXCEPT ![<<f, x, QueryDirection(dir)>>] =
                   [at |-> now, filtered |-> FALSE]]
    /\ Count(0, 0, 0, 0)

\* process_dns_layer, of a response
ProcessResponse(f, x, dir) ==
    LET k == <<f, x, ResponseDirection(dir)>>
        result == Result(Left, k)
        filtered == Left[k] # NoXact /\ Left[k].filtered
    IN  /\ Shift
        /\ open' = Erased(Left, k)
        /\ \/ result = "Valid" /\ ~filtered /\ Count(1, 0, 0, 0)
           \/ filtered /\ Count(0, 0, 0, 1)
           \/ result = "TimedOut" /\ ~filtered /\ Count(0, 1, 0, 0)
           \/ result = "NotExist" /\ Count(0, 0, 1, 0)

\* process_filtered, of a query
FilteredQuery(f, x, dir, transport) ==
    /\ Shift
    /\ open' = [Left EXCEPT ![<<FilterFlow(f, transport), x, QueryDirection(dir)>>] =
                   [at |-> now, filtered |-> TRUE]]
    /\ Count(0, 0, 0, 1)

\* process_filtered, of a response
FilteredResponse(f, x, dir, transport) ==
    LET k == <<FilterFlow(f, transport), x, ResponseDirection(dir)>>
    IN  /\ Shift
        /\ open' = Erased(Left, k)
        /\ \/ Result(Left, k) = "Valid" /\ ~Left[k].filtered /\ Count(0, 0, 0, 2)
           \/ ~(Result(Left, k) = "Valid" /\ ~Left[k].filtered) /\ Count(0, 0, 0, 1)

-----------------------------------------------------------------------------
Init ==
    /\ now = [s |-> 0, ms |-> 0]
    /\ lastShift = 0
    /\ open = [k \in Keys |-> NoXact]
    /\ metrics = [xacts |-> 0, timeouts |-> 0, orphans |-> 0, filtered |-> 0]
    /\ asked = [q \in Queries |-> NoXact]
    /\ seen = [packets |-> 0, queries |-> 0]

\* A query on the wire passes the filters or does not.
Query(f, x, dir, transport) ==
    /\ seen.packets < MaxPackets
    /\ \/ ProcessQuery(f, x, dir)
       \/ FilteredQuery(f, x, dir, transport)
    /\ seen' = [packets |-> seen.packets + 1, queries |-> seen.queries + 1]
    /\ asked' = [asked EXCEPT ![<<f, x, dir>>] = now]
    /\ UNCHANGED now

\* So does a response.
Response(f, x, dir, transport) ==
    /\ seen.packets < MaxPackets
    /\ \/ ProcessResponse(f, x, dir)
       \/ FilteredResponse(f, x, dir, transport)
    /\ seen' = [seen EXCEPT !.packets = @ + 1]
    /\ asked' = [asked EXCEPT ![<<f, x, Opposite(dir)>>] = NoXact]
    /\ UNCHANGED now

\* The heartbeat of the input shifts the windows when no packet does.
Heartbeat ==
    /\ WillShift
    /\ Shift
    /\ open' = Left
    /\ Count(0, 0, 0, 0)
    /\ UNCHANGED <<now, asked, seen>>

Tick ==
    /\ \E d \in Ticks :
          now' = [s  |-> IF now.ms + d > 999 THEN now.s + 1 ELSE now.s,
                  ms |-> IF now.ms + d > 999 THEN now.ms + d - 1000 ELSE now.ms + d]
    /\ now'.s <= MaxTime
    /\ UNCHANGED <<lastShift, open, metrics, asked, seen>>

Next ==
    \/ \E f \in Flows, x \in XIds, dir \in Directions, tr \in Transports :
          Query(f, x, dir, tr) \/ Response(f, x, dir, tr)
    \/ Heartbeat
    \/ Tick

Spec == Init /\ [][Next]_vars

-----------------------------------------------------------------------------
\* The managers hold transactions under their keys, and no counter goes below zero.
TypeOK ==
    /\ now \in Stamps
    /\ lastShift \in Nat
    /\ open \in [Keys -> Xacts \cup {NoXact}]
    /\ metrics \in [xacts : Nat, timeouts : Nat, orphans : Nat, filtered : Nat]
    /\ asked \in [Queries -> Stamps \cup {NoXact}]
    /\ seen \in [packets : Nat, queries : Nat]

\* A query ends at most once: as a transaction, as timed out, or as neither (a
\* later query took its id, or a filter its answer), and not while it is open.
QueriesEndOnce ==
    metrics.xacts + metrics.timeouts + Cardinality({k \in Keys : open[k] # NoXact})
        <= seen.queries

\* A transaction is counted only if its query passed the filters and the answer
\* came within the TTL, in real milliseconds: timespec_diff and the comparison
\* by seconds and rest are right for stamps that do not decrease.
CountedInTime ==
    [][metrics'.xacts # metrics.xacts =>
         \E k \in Keys :
            /\ open[k] # NoXact /\ open'[k] = NoXact
            /\ ~open[k].filtered
            /\ Age(open[k].at) < TtlMs]_vars

\* The purge counts in whole seconds, so it may come early; but a query counted as
\* timed out is never as much as a second younger than the TTL's whole seconds.
NotPurgedYoung ==
    [][metrics'.timeouts - metrics.timeouts <=
         Cardinality({k \in Keys : /\ open[k] # NoXact
                                   /\ Age(open[k].at) > TtlSecs * 1000 - 1000})]_vars

\* A manager holds nothing that was already old at the last shift: the number of
\* open transactions is bounded by the queries of one period and one TTL.
OpenAreRecent ==
    \A k \in Keys : open[k] # NoXact =>
        \/ open[k].at.s >= lastShift
        \/ open[k].at.s + TtlSecs > lastShift

\* "responses that do not have a corresponding query": a response counted as an
\* orphan answers no query seen less than the TTL's whole seconds before.
OrphanHasNoQuery ==
    [][metrics'.orphans # metrics.orphans =>
         \A q \in Queries : asked[q] # NoXact /\ asked'[q] = NoXact =>
            Age(asked[q]) > TtlSecs * 1000 - 1000]_vars
=============================================================================
