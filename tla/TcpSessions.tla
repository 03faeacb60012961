----------------------------- MODULE TcpSessions ----------------------------
(***************************************************************************)
(* TCP connections: the DNS messages that a handler puts together from     *)
(* them, and the list of connections that a capture keeps.  The sections   *)
(* are specified apart.                                                    *)
(***************************************************************************)
EXTENDS Integers, Sequences, SequencesExt, FiniteSets

-----------------------------------------------------------------------------
(***************************************************************************)
(* How the DNS handlers (v1 and v2 alike) and the BGP handler take messages*)
(* out of TCP connections.  A handler tracks the connections with one of   *)
(* its ports, and keeps a session for each side of one.  DNS messages come *)
(* with their length in two bytes before them, in segments cut anywhere;   *)
(* a BGP session hands on every segment as it is.  A session is made with  *)
(* the callback of its side's first segment and keeps that callback, which *)
(* holds the time stamp of that segment.                                   *)
(*                                                                         *)
(* The connections are those of PcapPlusPlus's TcpReassembly (external),   *)
(* one after the other under one flow key.  A handler may start in the     *)
(* middle of one, and data that is lost is replaced by a mark in the data. *)
(***************************************************************************)
CONSTANTS
    Base,       \* values of a byte
    MinQuery,   \* MIN_DNS_QUERY_SIZE
    Scripts,    \* what the two sides may send: pairs of sequences of messages
    Mark,       \* the bytes that stand for lost ones
    MaxConns

VARIABLES
    kind,       \* "dns" or "bgp"
    watched,    \* one of the connection's ports is the handler's
    listening,  \* the handler has started
    conn,       \* the library: "none" or "open"
    script,     \* what each side sends in this connection
    sent,       \* how many bytes of it each side has sent
    tracked,    \* the flow key is in _tcp_connections
    session,    \* sessionData of each side
    conns       \* connections so far

sessionsVars == <<kind, watched, listening, conn, script, sent, tracked, session, conns>>

Sides == 1..2
NoSession == [made |-> FALSE]
NoSessions == [side \in Sides |-> NoSession]

Prefix(message) == <<Len(message) \div Base, Len(message) % Base>>
Framed(message) == IF kind = "dns" THEN Prefix(message) \o message ELSE message
Wire(side) == FlattenSeq([i \in DOMAIN script[side] |-> Framed(script[side][i])])

SessionsInit ==
    /\ kind \in {"dns", "bgp"} /\ watched \in BOOLEAN
    /\ listening = FALSE /\ conn = "none"
    /\ script = [side \in Sides |-> <<>>] /\ sent = [side \in Sides |-> 0]
    /\ tracked = FALSE /\ session = NoSessions
    /\ conns = 0

\* start connects the handler to the signals of the input.
Listen ==
    /\ ~listening
    /\ listening' = TRUE
    /\ UNCHANGED <<kind, watched, conn, script, sent, tracked, session, conns>>

\* tcp_connection_start_cb
ConnectionStart ==
    /\ conn = "none" /\ conns < MaxConns
    /\ conn' = "open" /\ conns' = conns + 1
    /\ script' \in Scripts
    /\ sent' = [side \in Sides |-> 0]
    /\ tracked' = (tracked \/ (listening /\ watched))
    /\ UNCHANGED <<kind, watched, listening, session>>

\* The constructor of TcpSessionData, with the callback of the segment at hand.
\* Two ghosts: clean, the session has all of its side from the first byte on;
\* stale, a message was handed to the callback of an earlier segment.
NewSession(side) ==
    [made |-> TRUE, buffer |-> <<>>, invalid |-> FALSE, got |-> <<>>, input |-> <<>>,
     clean |-> sent[side] = 0, stale |-> FALSE]

Short(buffer) == buffer[1] * Base + buffer[2] < MinQuery

\* Mutant of Take: the length stays in the buffer.
TakeOnly(s) ==
    LET size == s.buffer[1] * Base + s.buffer[2] IN
    [s EXCEPT !.buffer = SubSeq(@, size + 1, Len(@)),
              !.got = Append(@, SubSeq(s.buffer, 3, size + 2))]

\* One message is cut off the buffer and handed on.
Take(s) ==
    LET size == s.buffer[1] * Base + s.buffer[2] IN
    [s EXCEPT !.buffer = SubSeq(@, size + 3, Len(@)),
              !.got = Append(@, SubSeq(s.buffer, 3, size + 2))]

\* Mutant of TakeAll: one message for every segment.
TakeOne(s) ==
    IF Len(s.buffer) < MinQuery + 2 THEN s
    ELSE IF Short(s.buffer) THEN [s EXCEPT !.buffer = <<>>, !.invalid = TRUE]
    ELSE IF Len(s.buffer) < s.buffer[1] * Base + s.buffer[2] + 2 THEN s
    ELSE Take(s)

\* The loop of DnsTcpSessionData::receive_tcp_data, n times at most.
TakeAll(s) ==
    LET Loop[n \in Nat] ==
            LET t == IF n = 0 THEN s ELSE Loop[n - 1] IN
            IF n = 0 \/ Len(t.buffer) < MinQuery + 2 THEN t
            ELSE IF Short(t.buffer) THEN [t EXCEPT !.buffer = <<>>, !.invalid = TRUE]
            ELSE IF Len(t.buffer) < t.buffer[1] * Base + t.buffer[2] + 2 THEN t
            ELSE Take(t)
    IN Loop[Len(s.buffer)]

ReceiveDns(s, data) ==
    IF s.invalid THEN s ELSE TakeAll([s EXCEPT !.buffer = @ \o data, !.input = @ \o data])

ReceiveBgp(s, data) == [s EXCEPT !.got = Append(@, data), !.input = @ \o data]

Receive(s, data) == IF kind = "dns" THEN ReceiveDns(s, data) ELSE ReceiveBgp(s, data)

\* tcp_message_ready_cb, for data that ends at byte last of the side.
MessageReady(side, data, last, whole) ==
    LET old == session[side]
        s == IF old.made THEN old ELSE NewSession(side)
        t == Receive([s EXCEPT !.clean = @ /\ whole], data)
    IN
    /\ conn = "open"
    /\ sent' = [sent EXCEPT ![side] = last]
    /\ IF listening /\ (tracked \/ watched)
       THEN /\ tracked' = TRUE
            /\ session' = [session EXCEPT ![side] = [t EXCEPT !.stale = @ \/ (old.made /\ t.got # old.got)]]
       ELSE UNCHANGED <<tracked, session>>
    /\ UNCHANGED <<kind, watched, listening, conn, script, conns>>

\* The next bytes of a side arrive in one segment.
Segment(side) ==
    \E last \in (sent[side] + 1)..Len(Wire(side)) :
        MessageReady(side, SubSeq(Wire(side), sent[side] + 1, last), last, TRUE)

\* A byte of a side is lost, once in a session, and the library marks its place.
Lost(side) ==
    /\ session[side].made => session[side].clean
    /\ \E last \in (sent[side] + 2)..Len(Wire(side)) :
           MessageReady(side, Mark \o SubSeq(Wire(side), sent[side] + 2, last), last, FALSE)

\* Mutant of ConnectionEnd: the entry of the flow stays.
ConnectionEndKeeps ==
    /\ conn = "open"
    /\ conn' = "none"
    /\ UNCHANGED <<kind, watched, listening, script, sent, tracked, session, conns>>

\* tcp_connection_end_cb, from whatever cause; a handler that does not listen
\* has no entry.
ConnectionEnd ==
    /\ conn = "open"
    /\ conn' = "none"
    /\ tracked' = FALSE /\ session' = NoSessions
    /\ UNCHANGED <<kind, watched, listening, script, sent, conns>>

SessionsNext ==
    \/ Listen \/ ConnectionStart \/ ConnectionEnd
    \/ \E side \in Sides : Segment(side) \/ Lost(side)

SessionsSpec == SessionsInit /\ [][SessionsNext]_sessionsVars

-----------------------------------------------------------------------------
(* No byte that reaches a session is lost or used twice: what it handed on *)
(* and what it still holds are what it received, until a length that no    *)
(* message has ends it.                                                    *)
BytesConserved ==
    \A side \in {x \in Sides : session[x].made} :
        LET s == session[side]
            used == FlattenSeq([i \in DOMAIN s.got |-> Framed(s.got[i])])
        IN IF ~s.invalid THEN used \o s.buffer = s.input
           ELSE /\ IsPrefix(used, s.input)
                /\ Short(SubSeq(s.input, Len(used) + 1, Len(used) + 2))

(* However the bytes were cut, a DNS session that has its side whole hands *)
(* on every message as soon as its last byte is there, up to the first one *)
(* that is too short to be a query.                                        *)
MessagesHandedOn ==
    \A side \in {x \in Sides : session[x].made /\ session[x].clean /\ kind = "dns"} :
        LET m == script[side]
            End(k) == Len(FlattenSeq([i \in 1..k |-> Framed(m[i])]))
            due == {k \in 0..Len(m) : End(k) <= Len(session[side].input)
                                      /\ \A i \in 1..k : Len(m[i]) >= MinQuery}
        IN \E k \in due : session[side].got = SubSeq(m, 1, k) /\ \A j \in due : j <= k

(* The handler holds an entry only for a connection that is open and has   *)
(* one of its ports, so that no message continues one of an earlier        *)
(* connection.                                                             *)
TrackedAreOpen ==
    /\ tracked => conn = "open" /\ watched /\ listening
    /\ ~tracked => session = NoSessions

(* "for tcp, endTime is updated by pcpp to represent the time stamp from   *)
(* the latest packet in the stream": a message is counted with the stamp   *)
(* of the segment that completed it.                                       *)
OwnStamp == \A side \in Sides : session[side].made => ~session[side].stale

-----------------------------------------------------------------------------
(***************************************************************************)
(* The TCP connections of a packet capture (PcapInputStream.cpp): the      *)
(* reassembly library keeps them, the input keeps a least-recently-used    *)
(* list of them (VisorLRUList.h) and closes the idle ones and those that   *)
(* no longer fit.  One TCP packet is one step: the callbacks the library   *)
(* makes from it, the cleanup of idle connections and the walk over the    *)
(* overflow all happen inside process_raw_packet.                          *)
(*                                                                         *)
(* The library (PcapPlusPlus TcpReassembly) is external.  What the input   *)
(* relies on: a new flow is announced once, data in order is handed over   *)
(* at once, data out of order is buffered and handed over when the gap     *)
(* closes or when the connection is closed, and closing an open connection *)
(* announces its end.                                                      *)
(***************************************************************************)
CONSTANTS Keys,         \* flow keys
          Limit,        \* size of the list; 0 is unlimited
          Timeout,      \* TCP_TIMEOUT
          MaxCleanups,  \* MAX_TCP_CLEANUPS
          MaxTime

VARIABLES flows,        \* the library: "none", "open" or "closed"
          buffered,     \* flows with data out of order
          lastSeen,     \* ConnectionData::endTime of a flow
          list,         \* _lru_list, most recently used first
          overflow,     \* _lru_overflow
          now,          \* time stamp of the packet
          cleaned,      \* how many connections the last cleanup closed
          untracked,    \* ghost: flows dropped from the list while the overflow was walked
          strayed       \* ghost: the walk read a key after the vector had grown

connectionsVars == <<flows, buffered, lastSeen, list, overflow, now, cleaned, untracked,
                     strayed>>

State == [conns |-> flows, buffered |-> buffered, lastSeen |-> lastSeen, list |-> list,
          overflow |-> overflow, cleaned |-> 0, untracked |-> untracked,
          strayed |-> strayed]

Become(S) ==
    /\ flows' = S.conns /\ buffered' = S.buffered /\ lastSeen' = S.lastSeen
    /\ list' = S.list /\ overflow' = S.overflow
    /\ cleaned' = S.cleaned /\ untracked' = S.untracked /\ strayed' = S.strayed

Without(l, k) == SelectSeq(l, LAMBDA e : e.key # k)

(* LRUList::put and the push onto _lru_overflow of the element it drops. *)
Put(S, k, t) ==
    LET moved == <<[key |-> k, time |-> t]>> \o Without(S.list, k)
        full == Limit > 0 /\ Len(moved) > Limit
    IN [S EXCEPT !.list = IF full THEN Front(moved) ELSE moved,
                 !.overflow = IF full THEN Append(@, Last(moved).key) ELSE @,
                 !.untracked = @ \ {k}]

(* LRUList::eraseElement. *)
EraseElement(S, k) == [S EXCEPT !.list = Without(@, k)]

TcpConnectionStart(S, k, t) == Put(S, k, t)
TcpMessageReady(S, k) == Put(S, k, S.lastSeen[k])
\* Mutant of TcpConnectionEnd: the connection stays on the list.
TcpConnectionEndKeeps(S, k) == S

TcpConnectionEnd(S, k) == EraseElement(S, k)

(* The library closes a connection: what is still buffered is handed over, *)
(* then the end is announced.  A flow that is not open is left alone.      *)
CloseConnection(S, k) ==
    LET flushed == IF k \in S.buffered THEN TcpMessageReady(S, k) ELSE S
        ended == TcpConnectionEnd(flushed, k)
    IN IF S.conns[k] # "open" THEN S
       ELSE [ended EXCEPT !.conns[k] = "closed", !.buffered = @ \ {k}, !.untracked = @ \ {k}]

(* The ways the library can take a TCP packet of flow k at time t. *)
Reassemblies(S, k, t) ==
    LET opened == [S EXCEPT !.conns[k] = "open", !.lastSeen[k] = t]
        started == IF S.conns[k] = "none" THEN TcpConnectionStart(opened, k, t) ELSE opened
        handed == TcpMessageReady(started, k)
        held == [started EXCEPT !.buffered = @ \cup {k}]
        filled == [handed EXCEPT !.buffered = @ \ {k}]
    IN IF S.conns[k] = "closed"
       THEN {S}                                      \* Ignore_PacketOfClosedFlow
       ELSE {started,                                \* Ignore_PacketWithNoData and the like
             held,                                   \* OutOfOrderTcpMessageBuffered
             filled,                                 \* TcpMessageHandled
             CloseConnection(started, k),            \* FIN_RSTWithNoData
             CloseConnection(handed, k)}

\* Mutant of CleanOne: a connection times out one later than the timeout.
CleanOneLate(S) ==
    IF S.list = <<>> \/ now' <= Last(S.list).time + Timeout THEN S
    ELSE LET k == Last(S.list).key
         IN [EraseElement(CloseConnection(S, k), k) EXCEPT !.cleaned = @ + 1]

(* One turn of the cleanup loop; a turn that breaks changes nothing, and   *)
(* neither do the turns after it.                                          *)
CleanOne(S) ==
    IF S.list = <<>> \/ now' < Last(S.list).time + Timeout THEN S
    ELSE LET k == Last(S.list).key
         IN [EraseElement(CloseConnection(S, k), k) EXCEPT !.cleaned = @ + 1]

Cleanup(S) == FoldLeft(LAMBDA acc, i : CleanOne(acc), S, [i \in 1..MaxCleanups |-> i])

(* The range loop over _lru_overflow ends where the vector ended when it   *)
(* began.  Handing over buffered data inside the loop puts the connection  *)
(* back on a full list, which drops another one onto the vector; that one  *)
(* is cleared with the rest and is on no list any more.  A vector that has *)
(* grown may have moved, so that a turn after that would read its key from *)
(* memory the vector has left.                                             *)
CloseTurn(S, k, size) ==
    [CloseConnection(S, k) EXCEPT !.strayed = @ \/ Len(S.overflow) > size]

\* Mutant of CloseOverflow: the vector is not cleared.
CloseOverflowKeeps(S) ==
    LET size == Len(S.overflow)
    IN FoldLeft(LAMBDA acc, k : CloseTurn(acc, k, size), S, S.overflow)

CloseOverflow(S) ==
    LET size == Len(S.overflow)
        closed == FoldLeft(LAMBDA acc, k : CloseTurn(acc, k, size), S, S.overflow)
        added == {closed.overflow[i] : i \in size + 1..Len(closed.overflow)}
    IN [closed EXCEPT !.overflow = <<>>,
                      !.untracked = @ \cup {k \in added : closed.conns[k] = "open"}]

ConnectionsInit ==
    /\ flows = [k \in Keys |-> "none"] /\ buffered = {}
    /\ lastSeen = [k \in Keys |-> 0]
    /\ list = <<>> /\ overflow = <<>>
    /\ now = 0 /\ cleaned = 0 /\ untracked = {} /\ strayed = FALSE

(* process_raw_packet for a TCP packet. *)
ProcessTcpPacket(k) ==
    \E t \in {u \in now..MaxTime : u <= now + Timeout} :
        /\ now' = t
        /\ \E S \in {CloseOverflow(Cleanup(R)) : R \in Reassemblies(State, k, t)} : Become(S)

(* The library forgets closed connections after a while. *)
Purge(k) ==
    /\ flows[k] = "closed"
    /\ flows' = [flows EXCEPT ![k] = "none"]
    /\ UNCHANGED <<buffered, lastSeen, list, overflow, now, cleaned, untracked, strayed>>

(* stop() and the end of a capture file: closeAllConnections, after which  *)
(* start() may run again on the same object.                               *)
CloseAllConnections ==
    /\ LET orders == SetToSeqs({k \in Keys : flows[k] = "open"})
       IN  \E S \in {FoldLeft(CloseConnection, State, order) : order \in orders} : Become(S)
    /\ UNCHANGED now

ConnectionsNext == (\E k \in Keys : ProcessTcpPacket(k) \/ Purge(k)) \/ CloseAllConnections

ConnectionsSpec == ConnectionsInit /\ [][ConnectionsNext]_connectionsVars

-----------------------------------------------------------------------------
(* The list and the library agree about which connections are open: no     *)
(* closed connection stays on the list, and an open one is on it, so that  *)
(* it can time out, or was dropped while the overflow was being walked,    *)
(* the one way the code loses track of a connection.  The list stays       *)
(* within its limit.                                                       *)
OpenAreTracked ==
    LET keys == {list[i].key : i \in DOMAIN list}
        open == {k \in Keys : flows[k] = "open"}
    IN /\ keys \subseteq open
       /\ open \subseteq keys \cup untracked
       /\ Cardinality(keys) = Len(list)
       /\ Limit > 0 => Len(list) <= Limit

(* The walk over the overflow reads no key of a vector that has grown and  *)
(* may have moved: only a connection that was dropped by the packet at     *)
(* hand can make it grow, and that one is the last the walk comes to.      *)
OverflowWalkedInPlace == ~strayed

(* A connection that stayed idle for the timeout is closed by the next TCP *)
(* packet of any flow, except when that packet already closed as many as   *)
(* one packet may.                                                         *)
IdleAreClosed ==
    cleaned < MaxCleanups => \A i \in DOMAIN list : now < list[i].time + Timeout
=============================================================================
