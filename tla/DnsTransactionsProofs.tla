----------------------- MODULE DnsTransactionsProofs -----------------------
(***************************************************************************)
(* Proofs about DnsTransactions, for any TTL, any period, any ids and any  *)
(* number of packets.  The inductive invariant DInv says, beside the       *)
(* types, that no open transaction started after the present stamp (so     *)
(* that timespec_diff is asked only for differences it gets right) and     *)
(* that none was already old at the last shift.  A second invariant counts *)
(* how the queries ended, and a third, for UDP alone, keeps the open       *)
(* transactions beside the queries that wait for an answer.                *)
(***************************************************************************)
EXTENDS DnsTransactions, FiniteSetTheorems, TLAPS

\* a is not after b
NotAfter(a, b) == a.s < b.s \/ (a.s = b.s /\ a.ms <= b.ms)

DInv ==
    /\ TypeOK
    /\ lastShift <= now.s
    /\ \A k \in Keys : open[k] # NoXact => NotAfter(open[k].at, now)
    /\ OpenAreRecent

-----------------------------------------------------------------------------
\* The TTL is split into seconds and a rest without loss.
LEMMA TtlSplit ==
    /\ TtlSecs \in Nat
    /\ TtlRest \in Nat
    /\ TtlSecs * 1000 + TtlRest = TtlMs
<1>1. TtlMs \in Nat
  BY DnsConstants
<1>2. TtlSecs \in Nat
  BY <1>1 DEF TtlSecs
<1>3. TtlSecs * 1000 <= TtlMs
  BY <1>1 DEF TtlSecs
<1> QED
  BY <1>1, <1>2, <1>3 DEF TtlSecs, TtlRest

\* The arithmetic of DiffExact: s seconds and m milliseconds below ts and tr.
LEMMA BelowTtl ==
    ASSUME NEW s \in Int, NEW m \in Int, NEW ts \in Int, NEW tr \in Int,
           m < 1000, tr >= 0, ~(s > ts), ~(s = ts /\ m >= tr)
    PROVE  s * 1000 + m < ts * 1000 + tr
OBVIOUS

\* timespec_diff of a stamp and an earlier one, compared by seconds and rest,
\* says no time-out only when fewer milliseconds than the TTL lie between them.
LEMMA DiffExact ==
    ASSUME NEW a \in Stamps, NEW b \in Stamps, NotAfter(b, a),
           ~TimedOut(TimespecDiff(a, b))
    PROVE  Ms(a) - Ms(b) < TtlMs
<1>1. /\ a.s \in Int /\ a.ms \in Int /\ 0 <= a.ms /\ a.ms <= 999
      /\ b.s \in Int /\ b.ms \in Int /\ 0 <= b.ms /\ b.ms <= 999
  BY DEF Stamps
<1>2. TtlSecs \in Nat /\ TtlRest \in Nat /\ TtlMs \in Nat
      /\ TtlSecs * 1000 + TtlRest = TtlMs
  BY TtlSplit, DnsConstants
<1>3. CASE a.ms < b.ms
  <2>1. a.s > b.s
    BY <1>1, <1>3 DEF NotAfter
  <2>2. TimespecDiff(a, b) = [s |-> a.s - b.s - 1, ms |-> a.ms - b.ms + 1000]
    BY <1>3, <2>1, Zenon DEF TimespecDiff
  <2>3. /\ ~(a.s - b.s - 1 > TtlSecs)
        /\ ~(a.s - b.s - 1 = TtlSecs /\ a.ms - b.ms + 1000 >= TtlRest)
    BY <2>2 DEF TimedOut
  <2> DEFINE s == a.s - b.s - 1
             m == a.ms - b.ms + 1000
  <2>4. s \in Int /\ m \in Int /\ m < 1000
    BY <1>1, <1>3
  <2>5. s * 1000 + m < TtlSecs * 1000 + TtlRest
    <3> HIDE DEF s, m
    <3>1. ~(s > TtlSecs) /\ ~(s = TtlSecs /\ m >= TtlRest)
      BY <2>3, Zenon DEF s, m
    <3> QED
      BY <1>2, <2>4, <3>1, BelowTtl
  <2>6. Ms(a) - Ms(b) = s * 1000 + m
    BY <1>1 DEF Ms
  <2> QED
    BY <1>2, <2>5, <2>6
<1>4. CASE ~(a.ms < b.ms)
  <2>1. a.s >= b.s
    BY <1>1 DEF NotAfter
  <2>2. (IF a.s > b.s THEN a.s - b.s ELSE b.s - a.s) = a.s - b.s
    BY <1>1, <2>1
  <2>3. TimespecDiff(a, b) = [s |-> a.s - b.s, ms |-> a.ms - b.ms]
    BY <1>4, <2>2, Zenon DEF TimespecDiff
  <2>4. /\ ~(a.s - b.s > TtlSecs)
        /\ ~(a.s - b.s = TtlSecs /\ a.ms - b.ms >= TtlRest)
    BY <2>3 DEF TimedOut
  <2> DEFINE s == a.s - b.s
             m == a.ms - b.ms
  <2>5. s \in Int /\ m \in Int /\ m < 1000
    BY <1>1
  <2>6. s * 1000 + m < TtlSecs * 1000 + TtlRest
    <3> HIDE DEF s, m
    <3>1. ~(s > TtlSecs) /\ ~(s = TtlSecs /\ m >= TtlRest)
      BY <2>4, Zenon DEF s, m
    <3> QED
      BY <1>2, <2>5, <3>1, BelowTtl
  <2>7. Ms(a) - Ms(b) = s * 1000 + m
    BY <1>1 DEF Ms
  <2> QED
    BY <1>2, <2>6, <2>7
<1> QED
  BY <1>3, <1>4, Zenon

-----------------------------------------------------------------------------
\* What DInv says of the managers, for a map of transactions and a shift time.
Recent(xacts, shift) ==
    \A k \in Keys : xacts[k] # NoXact =>
        /\ NotAfter(xacts[k].at, now)
        /\ xacts[k].at.s >= shift \/ xacts[k].at.s + TtlSecs > shift

\* What DInv says, with the open transactions as a parameter.
LEMMA Unfold == DInv <=> TypeOK /\ lastShift <= now.s /\ Recent(open, lastShift)
BY Zenon DEF DInv, Recent, OpenAreRecent

\* After the shift a packet may cause, the managers are as DInv wants them.
LEMMA AfterShift ==
    ASSUME DInv, Shift
    PROVE  /\ lastShift' \in Nat
           /\ lastShift' <= now.s
           /\ Left \in [Keys -> Xacts \cup {NoXact}]
           /\ Recent(Left, lastShift')
           /\ \A k \in Keys : Left[k] # NoXact => Left[k] = open[k]
<1>1. /\ now.s \in Nat /\ lastShift \in Nat /\ lastShift <= now.s
      /\ open \in [Keys -> Xacts \cup {NoXact}]
  BY DEF DInv, TypeOK, Stamps
<1>2. TtlSecs \in Nat
  BY TtlSplit, Zenon
<1>3. lastShift' \in Nat /\ lastShift' <= now.s
  BY <1>1 DEF Shift
<1>4. Left \in [Keys -> Xacts \cup {NoXact}]
  BY <1>1, Zenon DEF Left
<1>5. \A k \in Keys : Left[k] # NoXact => Left[k] = open[k] /\ k \notin Purged
  BY Zenon DEF Left
<1>6. Recent(Left, lastShift')
  <2> SUFFICES ASSUME NEW k \in Keys, Left[k] # NoXact
               PROVE  /\ NotAfter(Left[k].at, now)
                      /\ \/ Left[k].at.s >= lastShift'
                         \/ Left[k].at.s + TtlSecs > lastShift'
    BY Zenon DEF Recent
  <2>1. Left[k] = open[k] /\ open[k] # NoXact /\ k \notin Purged
    BY <1>5, Zenon
  <2>2. /\ NotAfter(open[k].at, now)
        /\ open[k].at.s >= lastShift \/ open[k].at.s + TtlSecs > lastShift
    BY <2>1, Unfold, Zenon DEF Recent
  <2>3. open[k].at.s \in Nat
    BY <1>1, <2>1 DEF Xacts, Stamps
  <2>4. CASE WillShift
    <3>1. ~(now.s >= TtlSecs + open[k].at.s)
      BY <2>1, <2>4, Zenon DEF Purged, Old
    <3>2. lastShift' = now.s
      BY <2>4, Zenon DEF Shift
    <3> QED
      BY <1>1, <1>2, <2>1, <2>2, <2>3, <3>1, <3>2
  <2>5. CASE ~WillShift
    <3>1. lastShift' = lastShift
      BY <2>5, Zenon DEF Shift
    <3> QED
      BY <2>1, <2>2, <3>1, Zenon
  <2> QED
    BY <2>4, <2>5, Zenon
<1> QED
  BY <1>3, <1>4, <1>5, <1>6, Zenon

\* The shift, followed by a transaction that starts now or ends.
LEMMA OneChanged ==
    ASSUME DInv, Shift, NEW k \in Keys, NEW x \in Xacts \cup {NoXact},
           x # NoXact => x.at = now,
           open' = [Left EXCEPT ![k] = x]
    PROVE  open' \in [Keys -> Xacts \cup {NoXact}] /\ Recent(open', lastShift')
<1>1. /\ lastShift' \in Nat /\ lastShift' <= now.s
      /\ Left \in [Keys -> Xacts \cup {NoXact}] /\ Recent(Left, lastShift')
  BY AfterShift, Zenon
<1>2. now.s \in Nat /\ now.ms \in Nat
  BY DEF DInv, TypeOK, Stamps
<1>3. open' \in [Keys -> Xacts \cup {NoXact}]
  BY <1>1, Zenon
<1>4. Recent(open', lastShift')
  <2> SUFFICES ASSUME NEW j \in Keys, open'[j] # NoXact
               PROVE  /\ NotAfter(open'[j].at, now)
                      /\ \/ open'[j].at.s >= lastShift'
                         \/ open'[j].at.s + TtlSecs > lastShift'
    BY Zenon DEF Recent
  <2>1. CASE j = k
    <3>1. open'[j].at = now
      BY <1>1, <2>1, Zenon
    <3> QED
      BY <1>1, <1>2, <3>1 DEF NotAfter
  <2>2. CASE j # k
    <3>1. open'[j] = Left[j]
      BY <1>1, <2>2, Zenon
    <3> QED
      BY <1>1, <3>1, Zenon DEF Recent
  <2> QED
    BY <2>1, <2>2, Zenon
<1> QED
  BY <1>3, <1>4, Zenon

\* A packet adds natural numbers to the counters.
LEMMA Counted ==
    ASSUME TypeOK, NEW a \in Nat, NEW b \in Nat, NEW c \in Nat, NEW d \in Nat,
           Count(a, b, c, d)
    PROVE  /\ metrics' \in [xacts : Nat, timeouts : Nat, orphans : Nat, filtered : Nat]
           /\ metrics'.xacts = metrics.xacts + a
<1>1. Cardinality(Purged) \in Nat
  <2>1. IsFiniteSet(Purged)
    <3>1. Purged \subseteq Keys
      BY Zenon DEF Purged
    <3> QED
      BY <3>1, FiniteKeys, FS_Subset, Zenon
  <2> QED
    BY <2>1, FS_CardinalityType, Zenon
<1>2. /\ metrics.xacts \in Nat /\ metrics.timeouts \in Nat
      /\ metrics.orphans \in Nat /\ metrics.filtered \in Nat
  BY Zenon DEF TypeOK
<1> QED
  BY <1>1, <1>2 DEF Count

\* The keys of a query and of a response are keys of the managers.
LEMMA KeyTypes ==
    ASSUME NEW f \in Flows \cup {L3Key}, NEW x \in XIds, NEW dir
    PROVE  /\ <<f, x, QueryDirection(dir)>> \in Keys
           /\ <<f, x, ResponseDirection(dir)>> \in Keys
<1>1. QueryDirection(dir) \in {"in", "out", "unknown"}
  BY Zenon DEF QueryDirection
<1>2. ResponseDirection(dir) \in {"in", "out", "unknown"}
  BY Zenon DEF ResponseDirection
<1> QED
  BY <1>1, <1>2, Zenon DEF Keys

\* What a packet does to the managers, whichever of the four ways it is handled.
Handled ==
    /\ Shift
    /\ \E k \in Keys, x \in Xacts \cup {NoXact} :
          (x # NoXact => x.at = now) /\ open' = [Left EXCEPT ![k] = x]
    /\ \E a \in Nat, b \in Nat, c \in Nat, d \in Nat : Count(a, b, c, d)

\* A query, filtered or not, keeps what DInv says.
LEMMA QueryHandled ==
    ASSUME DInv, NEW f \in Flows, NEW x \in XIds, NEW dir, NEW tr,
           ProcessQuery(f, x, dir) \/ FilteredQuery(f, x, dir, tr)
    PROVE  Handled
<1>1. now \in Stamps
  BY Zenon DEF DInv, TypeOK
<1>2. FilterFlow(f, tr) \in Flows \cup {L3Key}
  BY Zenon DEF FilterFlow
<1>3. CASE ProcessQuery(f, x, dir)
  <2>1. <<f, x, QueryDirection(dir)>> \in Keys
    BY KeyTypes, Zenon
  <2>2. [at |-> now, filtered |-> FALSE] \in Xacts
    BY <1>1, Zenon DEF Xacts
  <2> QED
    BY <1>3, <2>1, <2>2, Zenon DEF ProcessQuery, Handled
<1>4. CASE FilteredQuery(f, x, dir, tr)
  <2>1. <<FilterFlow(f, tr), x, QueryDirection(dir)>> \in Keys
    BY <1>2, KeyTypes, Zenon
  <2>2. [at |-> now, filtered |-> TRUE] \in Xacts
    BY <1>1, Zenon DEF Xacts
  <2> QED
    BY <1>4, <2>1, <2>2, Zenon DEF FilteredQuery, Handled
<1> QED
  BY <1>3, <1>4, Zenon

\* A response, filtered or not, keeps what DInv says.
LEMMA ResponseHandled ==
    ASSUME DInv, NEW f \in Flows, NEW x \in XIds, NEW dir, NEW tr,
           ProcessResponse(f, x, dir) \/ FilteredResponse(f, x, dir, tr)
    PROVE  Handled
<1>1. FilterFlow(f, tr) \in Flows \cup {L3Key}
  BY Zenon DEF FilterFlow
<1>2. CASE ProcessResponse(f, x, dir)
  <2>1. <<f, x, ResponseDirection(dir)>> \in Keys
    BY KeyTypes, Zenon
  <2> QED
    BY <1>2, <2>1, Zenon DEF ProcessResponse, Erased, Handled
<1>3. CASE FilteredResponse(f, x, dir, tr)
  <2>1. <<FilterFlow(f, tr), x, ResponseDirection(dir)>> \in Keys
    BY <1>1, KeyTypes, Zenon
  <2> QED
    BY <1>3, <2>1, Zenon DEF FilteredResponse, Erased, Handled
<1> QED
  BY <1>2, <1>3, Zenon

\* A handled packet keeps everything DInv says but of the histories.
LEMMA HandledKeeps ==
    ASSUME DInv, Handled, now' = now
    PROVE  /\ lastShift' \in Nat /\ lastShift' <= now'.s
           /\ open' \in [Keys -> Xacts \cup {NoXact}]
           /\ Recent(open', lastShift')
           /\ metrics' \in [xacts : Nat, timeouts : Nat, orphans : Nat, filtered : Nat]
<1>1. lastShift' \in Nat /\ lastShift' <= now'.s
  BY AfterShift, Zenon DEF Handled
<1>2. open' \in [Keys -> Xacts \cup {NoXact}] /\ Recent(open', lastShift')
  <2>1. PICK k \in Keys, x \in Xacts \cup {NoXact} :
           (x # NoXact => x.at = now) /\ open' = [Left EXCEPT ![k] = x]
    BY Zenon DEF Handled
  <2> QED
    BY <2>1, OneChanged, Zenon DEF Handled
<1>3. metrics' \in [xacts : Nat, timeouts : Nat, orphans : Nat, filtered : Nat]
  <2>1. PICK a \in Nat, b \in Nat, c \in Nat, d \in Nat : Count(a, b, c, d)
    BY Zenon DEF Handled
  <2> QED
    BY <2>1, Counted, Zenon DEF DInv
<1> QED
  BY <1>1, <1>2, <1>3, Zenon

-----------------------------------------------------------------------------
\* DInv holds when the handler starts.
LEMMA InitDInv == Init => DInv
<1> SUFFICES ASSUME Init PROVE DInv
  BY Zenon
<1>1. now \in Stamps
  BY DEF Init, Stamps
<1>2. TypeOK
  BY <1>1, Zenon DEF Init, TypeOK
<1> QED
  BY <1>2, Unfold DEF Init, Recent

\* Every packet and every tick keeps DInv.
LEMMA NextDInv == DInv /\ [Next]_vars => DInv'
<1> SUFFICES ASSUME DInv, [Next]_vars PROVE DInv'
  BY Zenon
<1>1. TypeOK /\ lastShift <= now.s /\ Recent(open, lastShift)
  BY Unfold, Zenon
<1>2. ASSUME NEW f \in Flows, NEW x \in XIds, NEW dir \in Directions,
             NEW tr \in Transports,
             Query(f, x, dir, tr) \/ Response(f, x, dir, tr)
      PROVE  DInv'
  <2>1. Handled /\ now' = now
    BY <1>2, QueryHandled, ResponseHandled, Zenon DEF Query, Response
  <2>2. asked' \in [Queries -> Stamps \cup {NoXact}]
    <3>1. now \in Stamps /\ asked \in [Queries -> Stamps \cup {NoXact}]
      BY <1>1, Zenon DEF TypeOK
    <3> QED
      BY <1>2, <3>1, Zenon DEF Query, Response
  <2>3. seen' \in [packets : Nat, queries : Nat]
    <3>1. seen \in [packets : Nat, queries : Nat]
      BY <1>1, Zenon DEF TypeOK
    <3> QED
      BY <1>2, <3>1 DEF Query, Response
  <2>4. TypeOK'
    BY <1>1, <2>1, <2>2, <2>3, HandledKeeps, Zenon DEF TypeOK
  <2>5. (lastShift <= now.s)' /\ Recent(open, lastShift)'
    BY <2>1, HandledKeeps, Zenon DEF Recent
  <2> QED
    BY <2>4, <2>5, Zenon DEF DInv, Recent, OpenAreRecent
<1>3. CASE Heartbeat
  <2>1. now' = now /\ asked' = asked /\ seen' = seen /\ Shift /\ open' = Left
    BY <1>3, Zenon DEF Heartbeat
  <2>2. metrics' \in [xacts : Nat, timeouts : Nat, orphans : Nat, filtered : Nat]
    BY <1>1, <1>3, Counted, Zenon DEF Heartbeat
  <2>3. /\ lastShift' \in Nat /\ lastShift' <= now'.s
        /\ open' \in [Keys -> Xacts \cup {NoXact}] /\ Recent(open', lastShift')
    BY <2>1, AfterShift, Zenon
  <2>4. TypeOK'
    BY <1>1, <2>1, <2>2, <2>3, Zenon DEF TypeOK
  <2> QED
    BY <2>1, <2>3, <2>4, Zenon DEF DInv, Recent, OpenAreRecent
<1>4. CASE Tick
  <2>1. PICK d \in Ticks :
           now' = [s  |-> IF now.ms + d > 999 THEN now.s + 1 ELSE now.s,
                   ms |-> IF now.ms + d > 999 THEN now.ms + d - 1000 ELSE now.ms + d]
    BY <1>4, Zenon DEF Tick
  <2>2. d \in Nat /\ d < 1000
    BY DnsConstants
  <2>3. now.s \in Nat /\ now.ms \in Nat /\ now.ms < 1000
    BY <1>1 DEF TypeOK, Stamps
  <2>4. /\ now'.s \in Nat /\ now'.ms \in Nat /\ now'.ms < 1000
        /\ NotAfter(now, now')
    BY <2>1, <2>2, <2>3 DEF NotAfter
  <2>5. now' \in Stamps
    BY <2>1, <2>2, <2>3 DEF Stamps
  <2>6. UNCHANGED <<lastShift, open, metrics, asked, seen>>
    BY <1>4, Zenon DEF Tick
  <2>7. TypeOK'
    BY <1>1, <2>5, <2>6, Zenon DEF TypeOK
  <2>8. lastShift' <= now'.s
    BY <1>1, <2>3, <2>4, <2>6 DEF NotAfter, TypeOK
  <2>9. ASSUME NEW k \in Keys, open[k] # NoXact
        PROVE  NotAfter(open[k].at, now')
    <3>1. NotAfter(open[k].at, now)
      BY <1>1, <2>9, Zenon DEF Recent
    <3>2. open[k].at \in Stamps
      BY <1>1, <2>9, Zenon DEF TypeOK, Xacts
    <3>3. open[k].at.s \in Nat /\ open[k].at.ms \in Nat
      BY <3>2 DEF Stamps
    <3> QED
      BY <2>3, <2>4, <3>1, <3>3 DEF NotAfter
  <2> QED
    BY <1>1, <2>6, <2>7, <2>8, <2>9, Zenon DEF DInv, OpenAreRecent, Recent
<1>5. CASE UNCHANGED vars
  BY <1>5, Zenon DEF vars, DInv, TypeOK, OpenAreRecent, NotAfter
<1> QED
  BY <1>2, <1>3, <1>4, <1>5, Zenon DEF Next

\* The three facts together.
THEOREM Invariance == Spec => []DInv
BY InitDInv, NextDInv, PTL DEF Spec

\* The variables of the DNS handler's pairing keep their types.
THEOREM DnsTypeCorrect == Spec => []TypeOK
<1>1. DInv => TypeOK
  BY Zenon DEF DInv
<1> QED
  BY <1>1, Invariance, PTL

\* Nothing that was old at the last window shift is held any longer.
THEOREM OpenTransactionsRecent == Spec => []OpenAreRecent
<1>1. DInv => OpenAreRecent
  BY Zenon DEF DInv
<1> QED
  BY <1>1, Invariance, PTL

-----------------------------------------------------------------------------
\* What CountedInTime says of a step.
InTime ==
    metrics'.xacts # metrics.xacts =>
        \E k \in Keys :
           /\ open[k] # NoXact /\ open'[k] = NoXact
           /\ ~open[k].filtered
           /\ Age(open[k].at) < TtlMs

\* Handling that adds no transaction to the counters.
LEMMA NoneCounted ==
    ASSUME DInv, NEW b \in Nat, NEW c \in Nat, NEW d \in Nat, Count(0, b, c, d)
    PROVE  InTime
<1>1. metrics'.xacts = metrics.xacts + 0
  BY Counted, Zenon DEF DInv
<1>2. metrics.xacts \in Nat
  BY Zenon DEF DInv, TypeOK
<1> QED
  BY <1>1, <1>2 DEF InTime

\* A response that passes the filters counts a transaction only in time.
LEMMA ResponseInTime ==
    ASSUME DInv, NEW f \in Flows, NEW x \in XIds, NEW dir, ProcessResponse(f, x, dir)
    PROVE  InTime
<1> DEFINE k == <<f, x, ResponseDirection(dir)>>
           filtered == Left[k] # NoXact /\ Left[k].filtered
<1>1. k \in Keys
  BY KeyTypes, Zenon
<1>2. CASE Result(Left, k) = "Valid" /\ ~filtered
  <2>1. Left[k] # NoXact /\ ~TimedOut(TimespecDiff(now, Left[k].at))
    BY <1>2, Zenon DEF Result
  <2>2. /\ Left \in [Keys -> Xacts \cup {NoXact}]
        /\ Left[k] = open[k] /\ NotAfter(Left[k].at, now)
    BY <1>1, <2>1, AfterShift, Zenon DEF ProcessResponse, Recent
  <2>3. now \in Stamps /\ open[k].at \in Stamps
    BY <1>1, <2>1, <2>2, Zenon DEF DInv, TypeOK, Xacts
  <2>4. Age(open[k].at) < TtlMs
    BY <2>1, <2>2, <2>3, DiffExact, Zenon DEF Age
  <2>5. open'[k] = NoXact
    BY <1>1, <2>2, Zenon DEF ProcessResponse, Erased
  <2> QED
    BY <1>1, <1>2, <2>1, <2>2, <2>4, <2>5, Zenon DEF InTime
<1>3. CASE ~(Result(Left, k) = "Valid" /\ ~filtered)
  <2>1. Count(0, 0, 0, 1) \/ Count(0, 1, 0, 0) \/ Count(0, 0, 1, 0)
    BY <1>3, Zenon DEF ProcessResponse
  <2> QED
    BY <2>1, NoneCounted, Zenon
<1> QED
  BY <1>2, <1>3, Zenon

\* A transaction is counted only when query and response are less than the TTL
\* apart and the query passed the filters, for any TTL and any packets.
THEOREM TransactionsInTime == Spec => CountedInTime
<1>1. ASSUME DInv, [Next]_vars PROVE [InTime]_vars
  <2>1. ASSUME NEW f \in Flows, NEW x \in XIds, NEW dir \in Directions,
               NEW tr \in Transports,
               Query(f, x, dir, tr) \/ Response(f, x, dir, tr)
        PROVE  InTime
    <3>1. CASE ProcessResponse(f, x, dir)
      BY <1>1, <3>1, ResponseInTime, Zenon
    <3>2. CASE ProcessQuery(f, x, dir) \/ FilteredQuery(f, x, dir, tr)
               \/ FilteredResponse(f, x, dir, tr)
      <4>1. Count(0, 0, 0, 0) \/ Count(0, 0, 0, 1) \/ Count(0, 0, 0, 2)
        BY <3>2, Zenon DEF ProcessQuery, FilteredQuery, FilteredResponse
      <4> QED
        BY <1>1, <4>1, NoneCounted, Zenon
    <3> QED
      BY <2>1, <3>1, <3>2, Zenon DEF Query, Response
  <2>2. CASE Heartbeat
    BY <1>1, <2>2, NoneCounted, Zenon DEF Heartbeat
  <2>3. CASE Tick
    BY <2>3, Zenon DEF Tick, InTime
  <2>4. CASE UNCHANGED vars
    BY <2>4, Zenon
  <2> QED
    BY <1>1, <2>1, <2>2, <2>3, <2>4, Zenon DEF Next
<1>2. [][InTime]_vars <=> CountedInTime
  BY PTL DEF CountedInTime, InTime
<1> QED
  BY <1>1, <1>2, Invariance, PTL DEF Spec

-----------------------------------------------------------------------------
\* The keys under which a transaction is open.
OpenKeys(xacts) == {k \in Keys : xacts[k] # NoXact}

\* The purge takes open transactions out and nothing else, so what it counts is
\* what the managers lose.
LEMMA PurgeCounts ==
    /\ Purged \subseteq OpenKeys(open)
    /\ IsFiniteSet(Purged) /\ Cardinality(Purged) \in Nat
    /\ IsFiniteSet(OpenKeys(open)) /\ Cardinality(OpenKeys(open)) \in Nat
    /\ IsFiniteSet(OpenKeys(Left)) /\ Cardinality(OpenKeys(Left)) \in Nat
    /\ Cardinality(OpenKeys(Left)) = Cardinality(OpenKeys(open)) - Cardinality(Purged)
<1>1. OpenKeys(open) \subseteq Keys
  BY Zenon DEF OpenKeys
<1>2. Purged \subseteq OpenKeys(open)
  BY Zenon DEF Purged, Old, OpenKeys
<1>3. IsFiniteSet(OpenKeys(open))
  BY <1>1, FiniteKeys, FS_Subset, Zenon
<1>4. IsFiniteSet(Purged)
  BY <1>2, <1>3, FS_Subset, Zenon
<1>5. OpenKeys(Left) = OpenKeys(open) \ Purged
  BY <1>2, Zenon DEF OpenKeys, Left
<1>6. OpenKeys(open) \cap Purged = Purged
  BY <1>2, Zenon
<1>7. /\ IsFiniteSet(OpenKeys(Left))
      /\ Cardinality(OpenKeys(Left)) = Cardinality(OpenKeys(open)) - Cardinality(Purged)
  BY <1>3, <1>5, <1>6, FS_Difference, Zenon
<1> QED
  BY <1>2, <1>3, <1>4, <1>7, FS_CardinalityType, Zenon

\* What a packet adds to each counter.
LEMMA Added ==
    ASSUME TypeOK, NEW a \in Nat, NEW b \in Nat, NEW c \in Nat, NEW d \in Nat,
           Count(a, b, c, d)
    PROVE  /\ metrics'.xacts = metrics.xacts + a
           /\ metrics'.timeouts = metrics.timeouts + b + Cardinality(Purged)
           /\ metrics'.orphans = metrics.orphans + c
           /\ metrics.xacts \in Nat /\ metrics.timeouts \in Nat /\ metrics.orphans \in Nat
BY Zenon DEF Count, TypeOK

\* If the counters gain no more than the managers lose and the wire brings, the
\* balance of QueriesEndOnce is kept.
LEMMA BalanceKept ==
    ASSUME TypeOK, QueriesEndOnce, NEW a \in Nat, NEW b \in Nat, NEW c \in Nat, NEW d \in Nat,
           Count(a, b, c, d), NEW n \in Nat, seen'.queries = seen.queries + n,
           Cardinality(OpenKeys(open')) \in Nat,
           a + b + Cardinality(OpenKeys(open')) <= Cardinality(OpenKeys(Left)) + n
    PROVE  QueriesEndOnce'
<1>1. seen.queries \in Nat
  BY Zenon DEF TypeOK
<1>2. metrics.xacts + metrics.timeouts + Cardinality(OpenKeys(open)) <= seen.queries
  BY Zenon DEF QueriesEndOnce, OpenKeys
<1>3. metrics'.xacts + metrics'.timeouts + Cardinality(OpenKeys(open')) <= seen'.queries
  <2>1. /\ metrics'.xacts = metrics.xacts + a
        /\ metrics'.timeouts = metrics.timeouts + b + Cardinality(Purged)
        /\ metrics.xacts \in Nat /\ metrics.timeouts \in Nat
    BY Added, Zenon
  <2>2. /\ Cardinality(Purged) \in Nat /\ Cardinality(OpenKeys(open)) \in Nat
        /\ Cardinality(OpenKeys(Left)) = Cardinality(OpenKeys(open)) - Cardinality(Purged)
    BY PurgeCounts, Zenon
  <2> QED
    BY <1>1, <1>2, <2>1, <2>2
<1> QED
  BY <1>3, Zenon DEF QueriesEndOnce, OpenKeys

\* A query opens at most one transaction.
LEMMA QueryOpensOne ==
    ASSUME NEW k \in Keys, NEW x, open' = [Left EXCEPT ![k] = x]
    PROVE  /\ Cardinality(OpenKeys(open')) \in Nat
           /\ Cardinality(OpenKeys(open')) <= Cardinality(OpenKeys(Left)) + 1
<1> DEFINE more == OpenKeys(Left) \cup {k}
<1>1. IsFiniteSet(more) /\ Cardinality(more) \in Nat
      /\ Cardinality(more) <= Cardinality(OpenKeys(Left)) + 1
  <2>1. IsFiniteSet(OpenKeys(Left)) /\ Cardinality(OpenKeys(Left)) \in Nat
    BY PurgeCounts, Zenon
  <2>2. /\ IsFiniteSet(more)
        /\ Cardinality(more) = IF k \in OpenKeys(Left) THEN Cardinality(OpenKeys(Left))
                               ELSE Cardinality(OpenKeys(Left)) + 1
    BY <2>1, FS_AddElement, Zenon
  <2> QED
    BY <2>1, <2>2, FS_CardinalityType
<1>2. \A j \in Keys : j # k => open'[j] = Left[j]
  BY Zenon DEF Left
<1>3. OpenKeys(open') \subseteq more
  BY <1>2, Zenon DEF OpenKeys
<1> HIDE DEF more
<1>4. /\ Cardinality(OpenKeys(open')) \in Nat
      /\ Cardinality(OpenKeys(open')) <= Cardinality(more)
  BY <1>1, <1>3, FS_Subset, FS_CardinalityType, Zenon
<1> QED
  BY <1>1, <1>4, PurgeCounts

\* A response closes the transaction it finds, and none when it finds none.
LEMMA ResponseClosesOne ==
    ASSUME NEW k \in Keys, open' = Erased(Left, k)
    PROVE  /\ Cardinality(OpenKeys(open')) \in Nat
           /\ Cardinality(OpenKeys(open')) =
                Cardinality(OpenKeys(Left)) - (IF Left[k] # NoXact THEN 1 ELSE 0)
<1>1. open'[k] = NoXact /\ \A j \in Keys : j # k => open'[j] = Left[j]
  BY Zenon DEF Erased, Left
<1>2. OpenKeys(open') = OpenKeys(Left) \ {k}
  BY <1>1, Zenon DEF OpenKeys
<1>3. k \in OpenKeys(Left) <=> Left[k] # NoXact
  BY Zenon DEF OpenKeys
<1>4. /\ IsFiniteSet(OpenKeys(open'))
      /\ Cardinality(OpenKeys(open')) =
           IF k \in OpenKeys(Left) THEN Cardinality(OpenKeys(Left)) - 1
                                   ELSE Cardinality(OpenKeys(Left))
  BY <1>2, PurgeCounts, FS_RemoveElement
<1>5. Cardinality(OpenKeys(open')) \in Nat
  BY <1>4, FS_CardinalityType, Zenon
<1> QED
  BY <1>3, <1>4, <1>5, PurgeCounts

\* Nothing has ended when the handler starts.
LEMMA InitEndOnce == Init => QueriesEndOnce
<1> SUFFICES ASSUME Init PROVE QueriesEndOnce
  BY Zenon
<1>1. {k \in Keys : open[k] # NoXact} = {}
  BY Zenon DEF Init
<1>2. Cardinality({k \in Keys : open[k] # NoXact}) = 0
  BY <1>1, FS_EmptySet, Zenon
<1> QED
  BY <1>2 DEF Init, QueriesEndOnce

\* Every packet and every tick keeps the balance of queries and their ends.
LEMMA NextEndOnce == DInv /\ QueriesEndOnce /\ [Next]_vars => QueriesEndOnce'
<1> SUFFICES ASSUME DInv, QueriesEndOnce, [Next]_vars PROVE QueriesEndOnce'
  BY Zenon
<1>1. TypeOK /\ seen.queries \in Nat
  BY Zenon DEF DInv, TypeOK
<1>2. ASSUME NEW f \in Flows, NEW x \in XIds, NEW dir \in Directions,
             NEW tr \in Transports, Query(f, x, dir, tr)
      PROVE  QueriesEndOnce'
  <2>1. seen'.queries = seen.queries + 1
    BY <1>2, Zenon DEF Query
  <2>2. FilterFlow(f, tr) \in Flows \cup {L3Key}
    BY Zenon DEF FilterFlow
  <2>3. PICK k \in Keys : \E b \in BOOLEAN :
           open' = [Left EXCEPT ![k] = [at |-> now, filtered |-> b]]
    BY <1>2, <2>2, KeyTypes, Zenon DEF Query, ProcessQuery, FilteredQuery
  <2>4. /\ Cardinality(OpenKeys(open')) \in Nat
        /\ Cardinality(OpenKeys(open')) <= Cardinality(OpenKeys(Left)) + 1
    BY <2>3, QueryOpensOne, Zenon
  <2>5. Count(0, 0, 0, 0) \/ Count(0, 0, 0, 1)
    BY <1>2, Zenon DEF Query, ProcessQuery, FilteredQuery
  <2> QED
    BY <1>1, <2>1, <2>4, <2>5, BalanceKept
<1>3. ASSUME NEW f \in Flows, NEW x \in XIds, NEW dir \in Directions,
             NEW tr \in Transports, Response(f, x, dir, tr)
      PROVE  QueriesEndOnce'
  <2>1. seen'.queries = seen.queries + 0
    BY <1>1, <1>3 DEF Response, TypeOK
  <2>2. FilterFlow(f, tr) \in Flows \cup {L3Key}
    BY Zenon DEF FilterFlow
  <2>3. CASE ProcessResponse(f, x, dir)
    <3> DEFINE k == <<f, x, ResponseDirection(dir)>>
    <3>1. k \in Keys /\ open' = Erased(Left, k)
      BY <2>3, KeyTypes, Zenon DEF ProcessResponse
    <3>2. \/ Left[k] # NoXact /\ (Count(1, 0, 0, 0) \/ Count(0, 1, 0, 0))
          \/ Count(0, 0, 0, 1) \/ Count(0, 0, 1, 0)
      BY <2>3, Zenon DEF ProcessResponse, Result
    <3> HIDE DEF k
    <3>3. /\ Cardinality(OpenKeys(open')) \in Nat
          /\ Cardinality(OpenKeys(open')) =
               Cardinality(OpenKeys(Left)) - (IF Left[k] # NoXact THEN 1 ELSE 0)
      BY <3>1, ResponseClosesOne, Zenon
    <3>4. CASE Left[k] # NoXact /\ (Count(1, 0, 0, 0) \/ Count(0, 1, 0, 0))
      BY <1>1, <2>1, <3>3, <3>4, PurgeCounts, BalanceKept
    <3>5. CASE Count(0, 0, 0, 1) \/ Count(0, 0, 1, 0)
      BY <1>1, <2>1, <3>3, <3>5, PurgeCounts, BalanceKept
    <3> QED
      BY <3>2, <3>4, <3>5, Zenon
  <2>4. CASE FilteredResponse(f, x, dir, tr)
    <3> DEFINE k == <<FilterFlow(f, tr), x, ResponseDirection(dir)>>
    <3>1. k \in Keys /\ open' = Erased(Left, k)
      BY <2>2, <2>4, KeyTypes, Zenon DEF FilteredResponse
    <3>2. Count(0, 0, 0, 2) \/ Count(0, 0, 0, 1)
      BY <2>4, Zenon DEF FilteredResponse
    <3> HIDE DEF k
    <3>3. /\ Cardinality(OpenKeys(open')) \in Nat
          /\ Cardinality(OpenKeys(open')) =
               Cardinality(OpenKeys(Left)) - (IF Left[k] # NoXact THEN 1 ELSE 0)
      BY <3>1, ResponseClosesOne, Zenon
    <3> QED
      BY <1>1, <2>1, <3>2, <3>3, PurgeCounts, BalanceKept
  <2> QED
    BY <1>3, <2>3, <2>4, Zenon DEF Response
<1>4. CASE Heartbeat
  <2>1. open' = Left /\ Count(0, 0, 0, 0) /\ seen'.queries = seen.queries + 0
    BY <1>1, <1>4 DEF Heartbeat
  <2>2. Cardinality(OpenKeys(open')) = Cardinality(OpenKeys(Left))
    BY <2>1, Zenon
  <2> QED
    BY <1>1, <2>1, <2>2, PurgeCounts, BalanceKept
<1>5. CASE Tick \/ UNCHANGED vars
  <2>1. UNCHANGED <<open, metrics, seen>>
    BY <1>5, Zenon DEF Tick, vars
  <2> QED
    BY <2>1, Zenon DEF QueriesEndOnce
<1> QED
  BY <1>2, <1>3, <1>4, <1>5, Zenon DEF Next

\* Every query ends at most once, for any TTL, any ids and any number of packets.
THEOREM QueriesCountedOnce == Spec => []QueriesEndOnce
BY InitEndOnce, NextEndOnce, Invariance, PTL DEF Spec
-----------------------------------------------------------------------------
\* The arithmetic of DiffOld: s seconds and m milliseconds not below ts and tr.
LEMMA AboveTtl ==
    ASSUME NEW s \in Int, NEW m \in Int, NEW ts \in Int, NEW tr \in Int,
           0 <= m, m < 1000, s > ts \/ (s = ts /\ m >= tr)
    PROVE  s * 1000 + m >= ts * 1000
OBVIOUS

\* What DiffExact leaves open: when timespec_diff says time-out, at least the whole
\* seconds of the TTL have passed.
LEMMA DiffOld ==
    ASSUME NEW a \in Stamps, NEW b \in Stamps, NotAfter(b, a),
           TimedOut(TimespecDiff(a, b))
    PROVE  Ms(a) - Ms(b) >= TtlSecs * 1000
<1>1. /\ a.s \in Int /\ a.ms \in Int /\ 0 <= a.ms /\ a.ms <= 999
      /\ b.s \in Int /\ b.ms \in Int /\ 0 <= b.ms /\ b.ms <= 999
  BY DEF Stamps
<1>2. TtlSecs \in Nat /\ TtlRest \in Nat
  BY TtlSplit, Zenon
<1>3. CASE a.ms < b.ms
  <2>1. a.s > b.s
    BY <1>1, <1>3 DEF NotAfter
  <2>2. TimespecDiff(a, b) = [s |-> a.s - b.s - 1, ms |-> a.ms - b.ms + 1000]
    BY <1>3, <2>1, Zenon DEF TimespecDiff
  <2>3. \/ a.s - b.s - 1 > TtlSecs
        \/ a.s - b.s - 1 = TtlSecs /\ a.ms - b.ms + 1000 >= TtlRest
    BY <2>2 DEF TimedOut
  <2> DEFINE s == a.s - b.s - 1
             m == a.ms - b.ms + 1000
  <2>4. s \in Int /\ m \in Int /\ 0 <= m /\ m < 1000
    BY <1>1, <1>3
  <2>5. s * 1000 + m >= TtlSecs * 1000
    <3> HIDE DEF s, m
    <3>1. s > TtlSecs \/ (s = TtlSecs /\ m >= TtlRest)
      BY <2>3, Zenon DEF s, m
    <3> QED
      BY <1>2, <2>4, <3>1, AboveTtl
  <2>6. Ms(a) - Ms(b) = s * 1000 + m
    BY <1>1 DEF Ms
  <2> QED
    BY <2>5, <2>6
<1>4. CASE ~(a.ms < b.ms)
  <2>1. a.s >= b.s
    BY <1>1 DEF NotAfter
  <2>2. (IF a.s > b.s THEN a.s - b.s ELSE b.s - a.s) = a.s - b.s
    BY <1>1, <2>1
  <2>3. TimespecDiff(a, b) = [s |-> a.s - b.s, ms |-> a.ms - b.ms]
    BY <1>4, <2>2, Zenon DEF TimespecDiff
  <2>4. \/ a.s - b.s > TtlSecs
        \/ a.s - b.s = TtlSecs /\ a.ms - b.ms >= TtlRest
    BY <2>3 DEF TimedOut
  <2> DEFINE s == a.s - b.s
             m == a.ms - b.ms
  <2>5. s \in Int /\ m \in Int /\ 0 <= m /\ m < 1000
    BY <1>1, <1>4
  <2>6. s * 1000 + m >= TtlSecs * 1000
    <3> HIDE DEF s, m
    <3>1. s > TtlSecs \/ (s = TtlSecs /\ m >= TtlRest)
      BY <2>4, Zenon DEF s, m
    <3> QED
      BY <1>2, <2>5, <3>1, AboveTtl
  <2>7. Ms(a) - Ms(b) = s * 1000 + m
    BY <1>1 DEF Ms
  <2> QED
    BY <2>6, <2>7
<1> QED
  BY <1>3, <1>4

\* A stamp that old may have been purged or answered too late.
Stale(t) == Age(t) > TtlSecs * 1000 - 1000

\* The keys NotPurgedYoung counts.
StaleKeys == {k \in Keys : open[k] # NoXact /\ Stale(open[k].at)}

\* What the purge of whole seconds takes is less than a second younger than the
\* whole seconds of the TTL.
LEMMA PurgedAreStale ==
    ASSUME DInv
    PROVE  Purged \subseteq StaleKeys
<1> SUFFICES ASSUME NEW k \in Purged PROVE k \in StaleKeys
  BY Zenon
<1>1. k \in Keys /\ open[k] # NoXact /\ now.s >= TtlSecs + open[k].at.s
  BY Zenon DEF Purged, Old
<1>2. now \in Stamps /\ open[k].at \in Stamps /\ TtlSecs \in Nat
  BY <1>1, TtlSplit, Zenon DEF DInv, TypeOK, Xacts
<1>3. /\ now.s \in Int /\ now.ms \in Int /\ 0 <= now.ms
      /\ open[k].at.s \in Int /\ open[k].at.ms \in Int /\ open[k].at.ms < 1000
  BY <1>2 DEF Stamps
<1>4. Stale(open[k].at)
  BY <1>1, <1>2, <1>3 DEF Stale, Age, Ms
<1> QED
  BY <1>1, <1>4, Zenon DEF StaleKeys

\* Neither is what a response finds timed out, and the purge did not count it.
LEMMA TimedOutIsStale ==
    ASSUME DInv, Shift, NEW k \in Keys, Result(Left, k) = "TimedOut"
    PROVE  k \in StaleKeys \ Purged
<1>1. Left[k] # NoXact /\ TimedOut(TimespecDiff(now, Left[k].at))
  BY Zenon DEF Result
<1>2. /\ Left[k] = open[k] /\ NotAfter(Left[k].at, now)
      /\ k \notin Purged
  BY <1>1, AfterShift, Zenon DEF Recent, Left
<1>3. now \in Stamps /\ open[k].at \in Stamps
  BY <1>1, <1>2, Zenon DEF DInv, TypeOK, Xacts
<1>4. Ms(now) - Ms(open[k].at) >= TtlSecs * 1000
  BY <1>1, <1>2, <1>3, DiffOld
<1>5. Ms(now) \in Int /\ Ms(open[k].at) \in Int /\ TtlSecs \in Nat
  BY <1>3, TtlSplit DEF Ms, Stamps
<1>6. Stale(open[k].at)
  BY <1>4, <1>5 DEF Stale, Age
<1> QED
  BY <1>1, <1>2, <1>6, Zenon DEF StaleKeys

\* What NotPurgedYoung says of a step.
OnlyStale ==
    metrics'.timeouts - metrics.timeouts <=
        Cardinality({k \in Keys : /\ open[k] # NoXact
                                  /\ Age(open[k].at) > TtlSecs * 1000 - 1000})

\* OnlyStale in terms of the stale keys.
LEMMA OnlyStaleKeys ==
    ASSUME metrics'.timeouts - metrics.timeouts <= Cardinality(StaleKeys)
    PROVE  OnlyStale
BY Zenon DEF OnlyStale, StaleKeys, Stale

\* Handling that times out what the purge took, and at most one stale transaction beside
\* it, times out stale ones only.
LEMMA StaleCounted ==
    ASSUME DInv, NEW a \in Nat, NEW b \in Nat, NEW c \in Nat, NEW d \in Nat,
           Count(a, b, c, d),
           \/ b = 0
           \/ b = 1 /\ \E k \in Keys : k \in StaleKeys \ Purged
    PROVE  OnlyStale
<1>1. IsFiniteSet(StaleKeys)
  <2>1. StaleKeys \subseteq Keys
    BY Zenon DEF StaleKeys
  <2> QED
    BY <2>1, FiniteKeys, FS_Subset, Zenon
<1>2. IsFiniteSet(Purged) /\ Cardinality(Purged) \in Nat
  BY PurgeCounts, Zenon
<1>3. b + Cardinality(Purged) <= Cardinality(StaleKeys)
  <2>1. CASE b = 0
    <3>1. Cardinality(Purged) <= Cardinality(StaleKeys)
      BY <1>1, PurgedAreStale, FS_Subset, Zenon
    <3> QED
      BY <1>2, <2>1, <3>1
  <2>2. CASE b = 1 /\ \E k \in Keys : k \in StaleKeys \ Purged
    <3>1. PICK k \in Keys : k \in StaleKeys \ Purged
      BY <2>2, Zenon
    <3>2. Purged \cup {k} \subseteq StaleKeys
      BY <3>1, PurgedAreStale, Zenon
    <3>3. Cardinality(Purged \cup {k}) = Cardinality(Purged) + 1
      BY <1>2, <3>1, FS_AddElement, Zenon
    <3>4. Cardinality(Purged \cup {k}) <= Cardinality(StaleKeys)
      BY <1>1, <3>2, FS_Subset, Zenon
    <3> QED
      BY <1>2, <2>2, <3>3, <3>4
  <2> QED
    BY <2>1, <2>2, Zenon
<1>4. Cardinality(StaleKeys) \in Nat
  BY <1>1, FS_CardinalityType, Zenon
<1>5. /\ metrics'.timeouts = metrics.timeouts + b + Cardinality(Purged)
      /\ metrics.timeouts \in Nat
  BY Added, Zenon DEF DInv
<1> QED
  BY <1>2, <1>3, <1>4, <1>5, OnlyStaleKeys

\* No query is counted as timed out a second before the TTL's whole seconds are over.
THEOREM YoungAreNotPurged == Spec => NotPurgedYoung
<1>1. ASSUME DInv, [Next]_vars PROVE [OnlyStale]_vars
  <2>1. ASSUME NEW f \in Flows, NEW x \in XIds, NEW dir \in Directions,
               NEW tr \in Transports,
               Query(f, x, dir, tr) \/ Response(f, x, dir, tr)
        PROVE  OnlyStale
    <3>1. CASE ProcessResponse(f, x, dir)
      <4> DEFINE k == <<f, x, ResponseDirection(dir)>>
      <4>1. k \in Keys /\ Shift
        BY <3>1, KeyTypes, Zenon DEF ProcessResponse
      <4>2. \/ Count(1, 0, 0, 0) \/ Count(0, 0, 0, 1) \/ Count(0, 0, 1, 0)
            \/ Result(Left, k) = "TimedOut" /\ Count(0, 1, 0, 0)
        BY <3>1, Zenon DEF ProcessResponse
      <4> HIDE DEF k
      <4>3. CASE Result(Left, k) = "TimedOut" /\ Count(0, 1, 0, 0)
        BY <1>1, <4>1, <4>3, TimedOutIsStale, StaleCounted, Zenon
      <4>4. CASE Count(1, 0, 0, 0) \/ Count(0, 0, 0, 1) \/ Count(0, 0, 1, 0)
        BY <1>1, <4>4, StaleCounted, Zenon
      <4> QED
        BY <4>2, <4>3, <4>4, Zenon
    <3>2. CASE ProcessQuery(f, x, dir) \/ FilteredQuery(f, x, dir, tr)
               \/ FilteredResponse(f, x, dir, tr)
      <4>1. Count(0, 0, 0, 0) \/ Count(0, 0, 0, 1) \/ Count(0, 0, 0, 2)
        BY <3>2, Zenon DEF ProcessQuery, FilteredQuery, FilteredResponse
      <4> QED
        BY <1>1, <4>1, StaleCounted, Zenon
    <3> QED
      BY <2>1, <3>1, <3>2, Zenon DEF Query, Response
  <2>2. CASE Heartbeat
    BY <1>1, <2>2, StaleCounted, Zenon DEF Heartbeat
  <2>3. CASE Tick
    <3>1. metrics' = metrics /\ metrics.timeouts \in Nat
      BY <1>1, <2>3, Zenon DEF Tick, DInv, TypeOK
    <3>2. IsFiniteSet(StaleKeys)
      <4>1. StaleKeys \subseteq Keys
        BY Zenon DEF StaleKeys
      <4> QED
        BY <4>1, FiniteKeys, FS_Subset, Zenon
    <3>3. Cardinality(StaleKeys) \in Nat
      BY <3>2, FS_CardinalityType, Zenon
    <3> QED
      BY <3>1, <3>3, OnlyStaleKeys
  <2>4. CASE UNCHANGED vars
    BY <2>4, Zenon
  <2> QED
    BY <1>1, <2>1, <2>2, <2>3, <2>4, Zenon DEF Next
<1>2. [][OnlyStale]_vars <=> NotPurgedYoung
  BY PTL DEF NotPurgedYoung, OnlyStale
<1> QED
  BY <1>1, <1>2, Invariance, PTL DEF Spec
-----------------------------------------------------------------------------
\* The key a query is filed under when it is not of TCP.
KeyOf(q) == <<q[1], q[2], QueryDirection(q[3])>>

\* A query no response came for yet is open, with its stamp, or stale.
AskedAreOpen ==
    \A q \in Queries : asked[q] # NoXact =>
        \/ open[KeyOf(q)] # NoXact /\ open[KeyOf(q)].at = asked[q]
        \/ Stale(asked[q])

\* Queries that differ have keys that differ, and a response looks under the key of the
\* query it answers.
LEMMA KeyOfFacts ==
    /\ \A q \in Queries : KeyOf(q) \in Keys
    /\ \A p, q \in Queries : KeyOf(p) = KeyOf(q) => p = q
    /\ \A f \in Flows, x \in XIds, dir \in Directions :
          /\ <<f, x, dir>> \in Queries /\ <<f, x, Opposite(dir)>> \in Queries
          /\ KeyOf(<<f, x, dir>>) = <<f, x, QueryDirection(dir)>>
          /\ KeyOf(<<f, x, Opposite(dir)>>) = <<f, x, ResponseDirection(dir)>>
<1>1. ASSUME NEW q \in Queries PROVE KeyOf(q) \in Keys
  BY KeyTypes, Zenon DEF Queries, KeyOf
<1>2. ASSUME NEW p \in Queries, NEW q \in Queries, KeyOf(p) = KeyOf(q) PROVE p = q
  <2>1. /\ p = <<p[1], p[2], p[3]>> /\ q = <<q[1], q[2], q[3]>>
        /\ p[3] \in Directions /\ q[3] \in Directions
    BY DEF Queries
  <2>2. p[1] = q[1] /\ p[2] = q[2] /\ QueryDirection(p[3]) = QueryDirection(q[3])
    BY <1>2, Zenon DEF KeyOf
  <2>3. p[3] = q[3]
    BY <2>1, <2>2 DEF QueryDirection, Directions
  <2> QED
    BY <2>1, <2>2, <2>3, Zenon
<1>3. ASSUME NEW f \in Flows, NEW x \in XIds, NEW dir \in Directions
      PROVE  /\ <<f, x, dir>> \in Queries /\ <<f, x, Opposite(dir)>> \in Queries
             /\ KeyOf(<<f, x, dir>>) = <<f, x, QueryDirection(dir)>>
             /\ KeyOf(<<f, x, Opposite(dir)>>) = <<f, x, ResponseDirection(dir)>>
  <2>1. /\ Opposite(dir) \in Directions
        /\ QueryDirection(Opposite(dir)) = ResponseDirection(dir)
    BY Zenon DEF Opposite, Directions, QueryDirection, ResponseDirection
  <2> QED
    BY <2>1, Zenon DEF Queries, KeyOf
<1> QED
  BY <1>1, <1>2, <1>3, Zenon

\* The purge leaves every query that is not stale where it was.
LEMMA AskedAfterPurge ==
    ASSUME DInv, AskedAreOpen, NEW q \in Queries, asked[q] # NoXact, ~Stale(asked[q])
    PROVE  Left[KeyOf(q)] = open[KeyOf(q)] /\ open[KeyOf(q)] # NoXact
           /\ open[KeyOf(q)].at = asked[q]
<1>1. /\ KeyOf(q) \in Keys /\ open[KeyOf(q)] # NoXact /\ open[KeyOf(q)].at = asked[q]
  BY KeyOfFacts, Zenon DEF AskedAreOpen
<1>2. KeyOf(q) \notin StaleKeys
  BY <1>1, Zenon DEF StaleKeys
<1>3. KeyOf(q) \notin Purged
  BY <1>2, PurgedAreStale, Zenon
<1> QED
  BY <1>1, <1>3, Zenon DEF Left

\* The four ways to handle a packet that is not of TCP, seen from the managers.
LEMMA QueryFiled ==
    ASSUME DInv, NEW f \in Flows, NEW x \in XIds, NEW dir \in Directions,
           NEW tr \in Transports, tr # "tcp", Query(f, x, dir, tr)
    PROVE  /\ asked' = [asked EXCEPT ![<<f, x, dir>>] = now] /\ now' = now
           /\ \E b \in BOOLEAN :
                 open' = [Left EXCEPT ![KeyOf(<<f, x, dir>>)] = [at |-> now, filtered |-> b]]
BY KeyOfFacts, Zenon DEF Query, ProcessQuery, FilteredQuery, FilterFlow

\* A response not over TCP takes its query from the wire and from its key.
LEMMA ResponseErases ==
    ASSUME DInv, NEW f \in Flows, NEW x \in XIds, NEW dir \in Directions,
           NEW tr \in Transports, tr # "tcp", Response(f, x, dir, tr)
    PROVE  /\ asked' = [asked EXCEPT ![<<f, x, Opposite(dir)>>] = NoXact] /\ now' = now
           /\ open' = [Left EXCEPT ![KeyOf(<<f, x, Opposite(dir)>>)] = NoXact]
BY KeyOfFacts, Zenon DEF Response, ProcessResponse, FilteredResponse, FilterFlow, Erased

\* No query is on the wire when the handler starts.
LEMMA InitAsked == Init => AskedAreOpen
BY Zenon DEF Init, AskedAreOpen

\* Without TCP every packet and every tick keeps AskedAreOpen.
LEMMA NextAsked ==
    ASSUME "tcp" \notin Transports
    PROVE  DInv /\ AskedAreOpen /\ [Next]_vars => AskedAreOpen'
<1> SUFFICES ASSUME DInv, AskedAreOpen, [Next]_vars PROVE AskedAreOpen'
  BY Zenon
<1>1. /\ open \in [Keys -> Xacts \cup {NoXact}]
      /\ asked \in [Queries -> Stamps \cup {NoXact}] /\ now \in Stamps
  BY Zenon DEF DInv, TypeOK
<1>2. Left \in [Keys -> Xacts \cup {NoXact}]
  BY <1>1, Zenon DEF Left
<1>3. ASSUME NEW p \in Queries, NEW v, NEW u, now' = now,
             asked' = [asked EXCEPT ![p] = u],
             open' = [Left EXCEPT ![KeyOf(p)] = v],
             u # NoXact => v # NoXact /\ v.at = u
      PROVE  AskedAreOpen'
  <2> SUFFICES ASSUME NEW q \in Queries, asked'[q] # NoXact, ~Stale(asked[q])'
               PROVE  open'[KeyOf(q)] # NoXact /\ open'[KeyOf(q)].at = asked'[q]
    BY DEF AskedAreOpen, KeyOf, Stale, Age, Ms
  <2>1. KeyOf(p) \in Keys /\ KeyOf(q) \in Keys
    BY KeyOfFacts, Zenon
  <2>2. CASE q = p
    BY <1>1, <1>2, <1>3, <2>1, <2>2, Zenon
  <2>3. CASE q # p
    <3>1. asked'[q] = asked[q]
      BY <1>1, <1>3, <2>3, Zenon
    <3>2. KeyOf(q) # KeyOf(p)
      BY <2>3, KeyOfFacts, Zenon
    <3>3. open'[KeyOf(q)] = Left[KeyOf(q)]
      BY <1>2, <1>3, <2>1, <3>2, Zenon
    <3>4. ~Stale(asked[q])
      BY <1>3, <3>1 DEF Stale, Age, Ms
    <3> QED
      BY <3>1, <3>3, <3>4, AskedAfterPurge, Zenon
  <2> QED
    BY <2>2, <2>3, Zenon
<1>4. ASSUME NEW f \in Flows, NEW x \in XIds, NEW dir \in Directions,
             NEW tr \in Transports, Query(f, x, dir, tr)
      PROVE  AskedAreOpen'
  <2>1. tr # "tcp"
    BY Zenon
  <2>2. PICK b \in BOOLEAN :
           open' = [Left EXCEPT ![KeyOf(<<f, x, dir>>)] = [at |-> now, filtered |-> b]]
    BY <1>4, <2>1, QueryFiled
  <2>3. asked' = [asked EXCEPT ![<<f, x, dir>>] = now] /\ now' = now
    BY <1>4, <2>1, QueryFiled
  <2> DEFINE v == [at |-> now, filtered |-> b]
  <2>4. v \in Xacts /\ v.at = now
    BY <1>1, Zenon DEF Xacts
  <2>5. v # NoXact
    BY <2>4, NoXactIsNone, Zenon
  <2>6. <<f, x, dir>> \in Queries
    BY KeyOfFacts, Zenon
  <2> HIDE DEF v
  <2> QED
    BY <1>3, <2>2, <2>3, <2>4, <2>5, <2>6, Zenon DEF v
<1>5. ASSUME NEW f \in Flows, NEW x \in XIds, NEW dir \in Directions,
             NEW tr \in Transports, Response(f, x, dir, tr)
      PROVE  AskedAreOpen'
  <2>1. tr # "tcp"
    BY Zenon
  <2>2. /\ asked' = [asked EXCEPT ![<<f, x, Opposite(dir)>>] = NoXact] /\ now' = now
        /\ open' = [Left EXCEPT ![KeyOf(<<f, x, Opposite(dir)>>)] = NoXact]
    BY <1>5, <2>1, ResponseErases, Zenon
  <2>3. <<f, x, Opposite(dir)>> \in Queries
    BY KeyOfFacts, Zenon
  <2> QED
    BY <1>3, <2>2, <2>3, Zenon
<1>6. CASE Heartbeat
  <2>1. now' = now /\ asked' = asked /\ open' = Left
    BY <1>6, Zenon DEF Heartbeat
  <2> SUFFICES ASSUME NEW q \in Queries, asked'[q] # NoXact, ~Stale(asked[q])'
               PROVE  open'[KeyOf(q)] # NoXact /\ open'[KeyOf(q)].at = asked'[q]
    BY DEF AskedAreOpen, KeyOf, Stale, Age, Ms
  <2>2. ~Stale(asked[q])
    BY <2>1 DEF Stale, Age, Ms
  <2> QED
    BY <2>1, <2>2, AskedAfterPurge, Zenon
<1>7. CASE Tick
  <2>1. PICK d \in Ticks :
           now' = [s  |-> IF now.ms + d > 999 THEN now.s + 1 ELSE now.s,
                   ms |-> IF now.ms + d > 999 THEN now.ms + d - 1000 ELSE now.ms + d]
    BY <1>7, Zenon DEF Tick
  <2>2. d \in Nat /\ d < 1000
    BY DnsConstants
  <2>3. now.s \in Nat /\ now.ms \in Nat /\ now.ms < 1000
    BY <1>1 DEF Stamps
  <2>4. Ms(now') = Ms(now) + d
    BY <2>1, <2>2, <2>3 DEF Ms
  <2>5. open' = open /\ asked' = asked
    BY <1>7, Zenon DEF Tick
  <2> SUFFICES ASSUME NEW q \in Queries, asked[q] # NoXact, ~Stale(asked[q])'
               PROVE  open[KeyOf(q)] # NoXact /\ open[KeyOf(q)].at = asked[q]
    BY <2>5 DEF AskedAreOpen, KeyOf, Stale, Age, Ms
  <2>6. asked[q].s \in Nat /\ asked[q].ms \in Nat
    BY <1>1 DEF Stamps
  <2>7. Ms(asked[q]) \in Int /\ Ms(now) \in Int /\ TtlSecs \in Nat
    BY <2>3, <2>6, TtlSplit DEF Ms
  <2>8. ~(Ms(now') - Ms(asked[q]) > TtlSecs * 1000 - 1000)
    BY <2>5 DEF Stale, Age, Ms
  <2>9. ~Stale(asked[q])
    BY <2>2, <2>4, <2>7, <2>8 DEF Stale, Age
  <2> QED
    BY <2>9, AskedAfterPurge, Zenon
<1>8. CASE UNCHANGED vars
  BY <1>8 DEF vars, AskedAreOpen, KeyOf, Stale, Age, Ms
<1> QED
  BY <1>4, <1>5, <1>6, <1>7, <1>8, Zenon DEF Next

\* What OrphanHasNoQuery says of a step.
OnlyOrphans ==
    metrics'.orphans # metrics.orphans =>
        \A q \in Queries : asked[q] # NoXact /\ asked'[q] = NoXact =>
            Age(asked[q]) > TtlSecs * 1000 - 1000

\* Handling that adds nothing to the orphans.
LEMMA NoOrphan ==
    ASSUME DInv, NEW a \in Nat, NEW b \in Nat, NEW d \in Nat, Count(a, b, 0, d)
    PROVE  OnlyOrphans
<1>1. metrics'.orphans = metrics.orphans + 0 /\ metrics.orphans \in Nat
  BY Added, Zenon DEF DInv
<1> QED
  BY <1>1 DEF OnlyOrphans

\* A response that finds nothing under its key has no query, or a stale one.
LEMMA OrphanStale ==
    ASSUME DInv, AskedAreOpen, "tcp" \notin Transports,
           NEW f \in Flows, NEW x \in XIds, NEW dir \in Directions,
           NEW tr \in Transports, Response(f, x, dir, tr),
           Result(Left, <<f, x, ResponseDirection(dir)>>) = "NotExist"
    PROVE  OnlyOrphans
<1>1. asked' = [asked EXCEPT ![<<f, x, Opposite(dir)>>] = NoXact]
  BY Zenon DEF Response
<1>2. asked \in [Queries -> Stamps \cup {NoXact}]
  BY Zenon DEF DInv, TypeOK
<1>3. Left[<<f, x, ResponseDirection(dir)>>] = NoXact
  BY Zenon DEF Result
<1>4. ASSUME NEW q \in Queries, asked[q] # NoXact, asked'[q] = NoXact
      PROVE  Stale(asked[q])
  <2>1. q = <<f, x, Opposite(dir)>>
    BY <1>1, <1>2, <1>4, Zenon
  <2>2. Left[KeyOf(q)] = NoXact
    BY <1>3, <2>1, KeyOfFacts, Zenon
  <2> QED
    BY <1>4, <2>2, AskedAfterPurge, Zenon
<1> QED
  BY <1>4 DEF OnlyOrphans, Stale

\* With queries and answers over UDP, a response counted as an orphan answers no query
\* younger than the whole seconds of the TTL, less one.
THEOREM OrphansAnswerNothing ==
    ASSUME "tcp" \notin Transports
    PROVE  Spec => OrphanHasNoQuery
<1>1. ASSUME DInv, AskedAreOpen, [Next]_vars PROVE [OnlyOrphans]_vars
  <2>1. ASSUME NEW f \in Flows, NEW x \in XIds, NEW dir \in Directions,
               NEW tr \in Transports, Query(f, x, dir, tr)
        PROVE  OnlyOrphans
    <3>1. Count(0, 0, 0, 0) \/ Count(0, 0, 0, 1)
      BY <2>1, Zenon DEF Query, ProcessQuery, FilteredQuery
    <3> QED
      BY <1>1, <3>1, NoOrphan, Zenon
  <2>2. ASSUME NEW f \in Flows, NEW x \in XIds, NEW dir \in Directions,
               NEW tr \in Transports, Response(f, x, dir, tr)
        PROVE  OnlyOrphans
    <3>1. CASE ProcessResponse(f, x, dir)
      <4>1. \/ Count(1, 0, 0, 0) \/ Count(0, 0, 0, 1) \/ Count(0, 1, 0, 0)
            \/ Result(Left, <<f, x, ResponseDirection(dir)>>) = "NotExist"
        BY <3>1, Zenon DEF ProcessResponse
      <4>2. CASE Result(Left, <<f, x, ResponseDirection(dir)>>) = "NotExist"
        BY <1>1, <2>2, <4>2, OrphanStale, Zenon
      <4>3. CASE Count(1, 0, 0, 0) \/ Count(0, 0, 0, 1) \/ Count(0, 1, 0, 0)
        BY <1>1, <4>3, NoOrphan, Zenon
      <4> QED
        BY <4>1, <4>2, <4>3, Zenon
    <3>2. CASE FilteredResponse(f, x, dir, tr)
      <4>1. Count(0, 0, 0, 1) \/ Count(0, 0, 0, 2)
        BY <3>2, Zenon DEF FilteredResponse
      <4> QED
        BY <1>1, <4>1, NoOrphan, Zenon
    <3> QED
      BY <2>2, <3>1, <3>2, Zenon DEF Response
  <2>3. CASE Heartbeat
    BY <1>1, <2>3, NoOrphan, Zenon DEF Heartbeat
  <2>4. CASE Tick
    BY <2>4 DEF Tick, OnlyOrphans
  <2>5. CASE UNCHANGED vars
    BY <2>5, Zenon
  <2> QED
    BY <1>1, <2>1, <2>2, <2>3, <2>4, <2>5, Zenon DEF Next
<1>2. [][OnlyOrphans]_vars <=> OrphanHasNoQuery
  BY PTL DEF OrphanHasNoQuery, OnlyOrphans
<1>3. DInv /\ AskedAreOpen /\ [Next]_vars => AskedAreOpen'
  BY NextAsked, Zenon
<1>4. Spec => []AskedAreOpen
  BY <1>3, InitAsked, Invariance, PTL DEF Spec
<1> QED
  BY <1>1, <1>2, <1>4, Invariance, PTL DEF Spec
=============================================================================
