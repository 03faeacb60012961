---------------------------- MODULE NetProbeInput ---------------------------
(***************************************************************************)
(* The input that probes targets: how it starts, when a ping probe sends,  *)
(* and how replies reach the probe they are for.  The sections are         *)
(* specified apart.                                                        *)
(***************************************************************************)
EXTENDS Integers, Sequences, FiniteSets, MetricGroups, FiniteSetsExt

-----------------------------------------------------------------------------
(***************************************************************************)
(* NetProbeInputStream::start: the checks on the configuration, then the   *)
(* loop and one probe per target.  A check that fails throws and leaves    *)
(* what was set up so far as it is.  Configurations are a plain one of     *)
(* each test type with up to two fields changed.                           *)
(***************************************************************************)
VARIABLES
    pconfig,
    state,      \* "new", "building", "running" or "failed"
    cause,      \* what start() threw
    loop,       \* the uv loop exists, with its async and timer handles
    built       \* targets with a started probe

probeVars == <<pconfig, state, cause, loop, built>>

Types == {"ping", "tcp", "udp", "http", "doh", "other"}
Web == {"http", "doh"}

Plain(type) ==
    [type |-> type, interval |-> 4, timeout |-> 3, packets |-> 1, gap |-> 2,
     payload |-> "fits", method |-> "default", qname |-> IF type = "doh" THEN "name" ELSE "none",
     qtype |-> "known", checks |-> "none", body |-> FALSE, proxy |-> "none",
     tls |-> "none", version |-> 0, resolve |-> "none", headers |-> FALSE, port |-> TRUE,
     targets |-> IF type \in Web THEN <<"url", "url">> ELSE <<"v4", "name">>]

Fields ==
    [timeout |-> {3, 4, 5}, packets |-> {0, 1, 2, 3}, gap |-> {0, 2}, payload |-> {"large"},
     method |-> {"GET", "POST", "HEAD"},
     qname |-> {"none", "root", "name", "emptyLabel", "longLabel", "tooLong"},
     qtype |-> {"unknown"}, checks |-> {"valid", "invalid"}, body |-> {TRUE},
     proxy |-> {"url", "blank"}, tls |-> {"complete", "certOnly", "missing"},
     version |-> {4, 5, 6}, resolve |-> {"valid", "invalid"}, headers |-> {TRUE},
     port |-> {FALSE},
     targets |-> {<<>>, <<"v4">>, <<"v6">>, <<"name">>, <<"word">>, <<"url">>, <<"v4", "v6", "name">>}]

Configs == UNION {Vary(Fields, c) : c \in UNION {Vary(Fields, Plain(t)) : t \in Types}}

\* The checks in the order of the code; each names what it rejects.
TestTypeBad(c) == c.type = "other"
\* Mutant of TimingBad: a test may be longer than its interval.
TimingBadOnly(c) == c.timeout > c.interval \/ c.packets = 0

TimingBad(c) ==
    \/ c.timeout > c.interval
    \/ c.packets = 0
    \/ c.packets * c.gap > c.interval
PayloadBad(c) == c.payload = "large"
DohMethodBad(c) == c.type = "doh" /\ c.method \notin {"default", "GET", "POST"}

\* Status entries, regular expressions, JSON pointers, sizes, versions, header rules.
ChecksBad(c) == c.checks = "invalid"

\* parse_target_ip_resolve
IpResolveBad(c) == c.version \notin {0, 4, 6} \/ c.resolve = "invalid"

TargetBad(c, target) ==
    CASE c.type = "http" -> target # "url" \/ IpResolveBad(c)
      [] c.type = "doh" -> target # "url" \/ c.headers \/ IpResolveBad(c)
      [] OTHER ->
           \/ c.type = "tcp" /\ ~c.port
           \/ c.version \notin {0, 4, 6}
           \/ target \in {"v4", "v6"} /\ c.version # 0 /\ (c.version = 6) # (target = "v6")
           \/ target = "word"

TargetsBad(c) == \E i \in DOMAIN c.targets : TargetBad(c, c.targets[i])

\* Mutant of QnameBad: the name is not looked at.
QnameBadType(c) == c.type = "doh" /\ (c.qname = "none" \/ c.qtype = "unknown")

\* RFC 1035 limits of the name DohProbe will encode.
QnameBad(c) == c.type = "doh" /\ (c.qname \notin {"root", "name"} \/ c.qtype = "unknown")

ScopeBad(c) ==
    \/ c.type # "http" /\ (c.checks # "none" \/ c.body)
    \/ c.type \notin Web /\ (c.proxy # "none" \/ c.tls # "none")
    \/ c.type = "http" /\ c.body /\ c.method # "POST"

TlsBad(c) == c.tls \in {"certOnly", "missing"}

ProxyBad(c) == c.proxy = "blank"

Rejected(c) ==
    \/ TestTypeBad(c) \/ TimingBad(c) \/ PayloadBad(c) \/ DohMethodBad(c) \/ ChecksBad(c)
    \/ TargetsBad(c) \/ QnameBad(c) \/ ScopeBad(c) \/ TlsBad(c) \/ ProxyBad(c)

ProbeInit ==
    /\ pconfig \in Configs
    /\ state = "new" /\ cause = "none" /\ loop = FALSE /\ built = {}

Reject ==
    /\ state = "new" /\ Rejected(pconfig)
    /\ state' = "failed" /\ cause' = "config"
    /\ UNCHANGED <<pconfig, loop, built>>

\* The loop of _create_netprobe_loop and its handles.
CreateLoop ==
    /\ state = "new" /\ ~Rejected(pconfig)
    /\ state' = "building" /\ loop' = TRUE
    /\ UNCHANGED <<pconfig, cause, built>>

\* What the constructor or start() of a probe may throw.  DohProbe encodes its query.
ProbeThrows(c) ==
    CASE c.type = "udp" -> {"unsupported"}
      [] c.type = "ping" -> {"none", "receiver"}
      [] c.type = "doh" /\ c.qname \notin {"root", "name"} -> {"encoding"}
      [] OTHER -> {"none"}

BuildProbe ==
    /\ state = "building" /\ built # DOMAIN pconfig.targets
    /\ \E i \in DOMAIN pconfig.targets \ built, e \in ProbeThrows(pconfig) :
        IF e = "none"
        THEN built' = built \cup {i} /\ UNCHANGED <<state, cause>>
        ELSE state' = "failed" /\ cause' = e /\ UNCHANGED built
    /\ UNCHANGED <<pconfig, loop>>

StartThread ==
    /\ state = "building" /\ built = DOMAIN pconfig.targets
    /\ state' = "running"
    /\ UNCHANGED <<pconfig, cause, loop, built>>

ProbeNext == Reject \/ CreateLoop \/ BuildProbe \/ StartThread

(***************************************************************************)
(* A stream that runs can run its probes: a ping test fits in its interval,*)
(* a TCP attempt can time out before the next one, an address is of the    *)
(* family asked for, a DoH name can be encoded.                            *)
(***************************************************************************)
RunningIsRunnable ==
    state = "running" =>
        /\ pconfig.timeout <= pconfig.interval
        /\ pconfig.packets * pconfig.gap <= pconfig.interval /\ pconfig.packets > 0
        /\ pconfig.type = "doh" => pconfig.qname \in {"root", "name"}
        /\ \A i \in DOMAIN pconfig.targets :
            /\ pconfig.type \in Web => pconfig.targets[i] = "url"
            /\ pconfig.version = 6 /\ pconfig.type \notin Web => pconfig.targets[i] # "v4"

(***************************************************************************)
(* A start that throws after the loop exists does not close it.  The only  *)
(* ways there are a test type that is accepted and not implemented (udp)   *)
(* and a ping receiver that cannot open its socket: "An invalid name would *)
(* otherwise make DnsLayer::addQuery() fail at probe start".               *)
(***************************************************************************)
LoopLeftByKnownCauses ==
    state = "failed" /\ loop => cause \in {"unsupported", "receiver"}

-----------------------------------------------------------------------------
(***************************************************************************)
(* The timers of one PingProbe.  The interval timer starts a test: it sends*)
(* the first echo request and makes an internal timer that sends the rest, *)
(* one packets_interval_msec apart, and closes itself when the test is     *)
(* done.  The probe keeps one pointer to an internal timer and one counter *)
(* for all of them.  Timers fire as libuv fires them: by due time, then in *)
(* the order they were armed, re-armed before the callback runs and not at *)
(* all with a repeat of 0.  Another probe's DNS lookup may block the loop. *)
(***************************************************************************)
CONSTANTS
    Intervals, Packets, Gaps,  \* values of interval_msec, packets_per_test, packets_interval_msec
    Byte,       \* 2^8, scaled down: the range of the counter
    MaxTime

VARIABLES
    config,
    now,
    timers,     \* open internal timers and the interval timer: [id, due, order]
    armed,      \* timers armed so far
    current,    \* id of _internal_timer, 0 before the first test
    counter,    \* _internal_sequence
    tsent,      \* echo requests of this test
    short,      \* history: a test that began sent too few
    late,       \* history: a timer fired late
    stopped

testVars == <<config, now, timers, armed, current, counter, tsent, short, late, stopped>>

Interval == 0

\* What start() accepts.
Accepted(c) == c.packets > 0 /\ c.packets * c.gap <= c.interval

Timer(id, due, order) == [id |-> id, due |-> due, order |-> order]

Never == -1

\* With packets_interval_msec 0 the timer fires once; start() allows it.
Regular ==
    /\ config.gap > 0 /\ config.packets < Byte
    /\ config.packets * config.gap < config.interval

TestInit ==
    /\ config \in {c \in [interval : Intervals, packets : Packets, gap : Gaps] : Accepted(c)}
    /\ now = 0
    /\ timers = {Timer(Interval, 0, 0)} /\ armed = 1
    /\ current = 0 /\ counter = 0 /\ tsent = 0
    /\ short = FALSE /\ late = FALSE /\ stopped = FALSE

Due == {t \in timers : t.due # Never /\ t.due <= now}

\* The next timer uv__run_timers runs.
First(t) == t \in Due /\ \A u \in Due :
    u.due > t.due \/ (u.due = t.due /\ u.order >= t.order)

Fires(t) ==
    /\ ~stopped /\ First(t)
    /\ late' = (late \/ t.due < now)

\* The interval timer's callback.  A lookup or a socket may fail.
StartTest ==
    /\ \E t \in timers :
        /\ t.id = Interval /\ Fires(t)
        /\ short' = (short \/ (tsent \in 1..(config.packets - 1) /\ ~late))
        /\ \/ /\ timers' = (timers \ {t}) \cup {Timer(Interval, now + config.interval, armed),
                                              Timer(armed, now + config.gap, armed + 1)}
              /\ current' = armed
              /\ armed' = armed + 2
              /\ counter' = 1 /\ tsent' = 1
           \/ /\ timers' = (timers \ {t}) \cup {Timer(Interval, now + config.interval, armed)}
              /\ armed' = armed + 1
              /\ counter' = 0 /\ tsent' = 0
              /\ UNCHANGED current
    /\ UNCHANGED <<config, now, stopped>>

\* Mutant of SendNext: one request too many.
SendNextOneMore ==
    /\ \E t \in timers :
        /\ t.id # Interval /\ Fires(t)
        /\ IF counter <= config.packets % Byte
           THEN /\ counter' = (counter + 1) % Byte
                /\ tsent' = tsent + 1
                /\ timers' = (timers \ {t}) \cup
                     {Timer(t.id, IF config.gap = 0 THEN Never ELSE now + config.gap, armed)}
           ELSE timers' = timers \ {t} /\ UNCHANGED <<counter, tsent>>
    /\ armed' = armed + 1
    /\ UNCHANGED <<config, now, current, short, stopped>>

\* Mutant of SendNext: one request too few.
SendNextOneLess ==
    /\ \E t \in timers :
        /\ t.id # Interval /\ Fires(t)
        /\ IF counter + 1 < config.packets % Byte
           THEN /\ counter' = (counter + 1) % Byte
                /\ tsent' = tsent + 1
                /\ timers' = (timers \ {t}) \cup
                     {Timer(t.id, IF config.gap = 0 THEN Never ELSE now + config.gap, armed)}
           ELSE timers' = timers \ {t} /\ UNCHANGED <<counter, tsent>>
    /\ armed' = armed + 1
    /\ UNCHANGED <<config, now, current, short, stopped>>

\* An internal timer's callback; the limit is cast to a byte.
SendNext ==
    /\ \E t \in timers :
        /\ t.id # Interval /\ Fires(t)
        /\ IF counter < config.packets % Byte
           THEN /\ counter' = (counter + 1) % Byte
                /\ tsent' = tsent + 1
                /\ timers' = (timers \ {t}) \cup
                     {Timer(t.id, IF config.gap = 0 THEN Never ELSE now + config.gap, armed)}
           ELSE timers' = timers \ {t} /\ UNCHANGED <<counter, tsent>>
    /\ armed' = armed + 1
    /\ UNCHANGED <<config, now, current, short, stopped>>

\* Time passes; past a timer that is due only while the loop is blocked.
Tick ==
    /\ ~stopped /\ now < MaxTime
    /\ now' = now + 1
    /\ UNCHANGED <<config, timers, armed, current, counter, tsent, short, late, stopped>>

\* Mutant of StopProbe: only the interval timer is closed.
StopProbeInterval ==
    /\ ~stopped
    /\ stopped' = TRUE
    /\ timers' = {t \in timers : t.id # Interval}
    /\ UNCHANGED <<config, now, armed, current, counter, tsent, short, late>>

\* stop(), from the input's async callback: the two timers it knows of.
StopProbe ==
    /\ ~stopped
    /\ stopped' = TRUE
    /\ timers' = {t \in timers : t.id \notin {Interval, current}}
    /\ UNCHANGED <<config, now, armed, current, counter, tsent, short, late>>

TestNext == StartTest \/ SendNext \/ Tick \/ StopProbe

(***************************************************************************)
(* A test never sends more than packets_per_test requests, even when the   *)
(* timer of an earlier test still runs: the timers share the counter.      *)
(***************************************************************************)
NoExtraPackets == tsent <= config.packets

(***************************************************************************)
(* When the loop is not blocked, a test sends all of its packets before the*)
(* next one starts.                                                        *)
(***************************************************************************)
TestsComplete == Regular => ~short

(***************************************************************************)
(* "Every handle (including probe-owned ones) was closed ... so the loop is*)
(* quiescent and close() succeeds."  It holds while timers fire in time and*)
(* the packets leave room in the interval; otherwise a test may begin with *)
(* the last one's timer still open, and stop() only knows the newer.       *)
(***************************************************************************)
StopClosesTimers == Regular /\ ~late /\ stopped => timers = {}

-----------------------------------------------------------------------------
(***************************************************************************)
(* Echo replies from the network to the counters of the netprobe handlers. *)
(* One process-wide PingReceiver collects replies, publishes a batch every *)
(* 100 ms and wakes every probe of every stream.  A probe copies whatever  *)
(* is published when its thread runs and hands all of it to its stream's   *)
(* handler, which pairs replies with requests by id and sequence number.   *)
(* The network may lose, delay, reorder and duplicate replies.             *)
(***************************************************************************)
CONSTANTS
    Probes,
    Streams,
    PerTest,    \* packets per test
    SeqRange,   \* 2^8, scaled: tests before the sequence byte comes round
    MaxSent,    \* bound on the requests
    MaxBatch,   \* bound on the replies of a batch
    MaxShifts   \* bound on the period shifts

VARIABLES
    streamOf,   \* the stream of each probe
    sent,       \* requests of each probe so far
    net,        \* replies under way, with the number of the copy
    batch,      \* PingReceiver::_recv_packets
    published,  \* PingReceiver::recv_packets
    woken,      \* probes whose async handle is signalled
    inbox,      \* the private copy of each probe
    open,       \* per stream: requests of the transaction manager, by key
    attempts, answered,  \* per probe, of the live window: attempts; successes and timeouts
    shifts,
    credit      \* history: pairs of a request and the reply it was counted for

repliesVars == <<streamOf, sent, net, batch, published, woken, inbox, open, attempts,
          answered, shifts, credit>>

\* Mutant of Key: the number of the test is left out.
KeyWithoutTest(r) == <<r.probe, r.n % PerTest>>

\* The n-th request of a probe, and the id and sequence number it carries.
Key(r) == <<r.probe, (r.n \div PerTest) % SeqRange, r.n % PerTest>>

RepliesInit ==
    /\ streamOf \in [Probes -> Streams]
    /\ sent = [p \in Probes |-> 0]
    /\ net = {} /\ batch = <<>> /\ published = <<>> /\ woken = {}
    /\ inbox = [p \in Probes |-> <<>>]
    /\ open = [s \in Streams |-> {}]
    /\ attempts = [p \in Probes |-> 0] /\ answered = [p \in Probes |-> 0]
    /\ shifts = 0 /\ credit = {}

Of(s) == {p \in Probes : streamOf[p] = s}

\* new_event of the stream's handler: on_period_shift clears the requests.
NewEvent(s, shifted) == IF shifted THEN {} ELSE open[s]

Restart(count, s, shifted) ==
    [p \in Probes |-> IF shifted /\ p \in Of(s) THEN 0 ELSE count[p]]

Shifting == {FALSE} \cup (IF shifts < MaxShifts THEN {TRUE} ELSE {})

Shifted(b) == shifts' = IF b THEN shifts + 1 ELSE shifts

\* _send_icmp, and the request side of process_netprobe_icmp; the request
\* may be answered, even twice.
SendRequest(p) ==
    LET r == [probe |-> p, n |-> sent[p]]
        s == streamOf[p]
    IN  /\ MapThenSumSet(LAMBDA q : sent[q], Probes) < MaxSent
        /\ sent' = [sent EXCEPT ![p] = @ + 1]
        /\ \E copies \in 0..2 : net' = net \cup {<<r, c>> : c \in 1..copies}
        /\ \E shifted \in Shifting :
            /\ Shifted(shifted)
            /\ open' = [open EXCEPT ![s] =
                 {o \in NewEvent(s, shifted) : Key(o) # Key(r)} \cup {r}]
            /\ attempts' = [Restart(attempts, s, shifted) EXCEPT ![p] = @ + 1]
            /\ answered' = Restart(answered, s, shifted)
        /\ UNCHANGED <<streamOf, batch, published, woken, inbox, credit>>

\* The poll callback of the receiver.
Receive(reply) ==
    /\ Len(batch) < MaxBatch
    /\ batch' = Append(batch, reply[1])
    /\ net' = net \ {reply}
    /\ UNCHANGED <<streamOf, sent, published, woken, inbox, open, attempts, answered,
                   shifts, credit>>

\* The receiver's timer.  What was published before is gone, read or not.
Publish ==
    /\ batch # <<>>
    /\ published' = batch /\ batch' = <<>>
    /\ woken' = Probes
    /\ UNCHANGED <<streamOf, sent, net, inbox, open, attempts, answered, shifts, credit>>

\* The probe's async callback copies the batch, then handles it packet by packet.
Copy(p) ==
    /\ p \in woken /\ inbox[p] = <<>>
    /\ woken' = woken \ {p}
    /\ inbox' = [inbox EXCEPT ![p] = published]
    /\ UNCHANGED <<streamOf, sent, net, batch, published, open, attempts, answered, shifts, credit>>

\* Mutant of HandleReply: the answered request stays open.
HandleReplyKeeps(p) ==
    LET s == streamOf[p]
        r == Head(inbox[p])
    IN  /\ inbox[p] # <<>>
        /\ inbox' = [inbox EXCEPT ![p] = Tail(@)]
        /\ LET match == {o \in open[s] : Key(o) = Key(r)}
           IN  /\ answered' = [q \in Probes |->
                     answered[q] + Cardinality({o \in match : o.probe = q})]
               /\ credit' = credit \cup {<<o, r>> : o \in match}
        /\ UNCHANGED <<streamOf, sent, net, batch, published, woken, open, attempts, shifts>>

\* _recv, and the reply side of process_netprobe_icmp: NotExist counts nothing, Valid a
\* success and TimedOut a timeout.
HandleReply(p) ==
    LET s == streamOf[p]
        r == Head(inbox[p])
    IN  /\ inbox[p] # <<>>
        /\ inbox' = [inbox EXCEPT ![p] = Tail(@)]
        /\ \E shifted \in Shifting :
            LET match == {o \in NewEvent(s, shifted) : Key(o) = Key(r)}
            IN  /\ Shifted(shifted)
                /\ open' = [open EXCEPT ![s] = NewEvent(s, shifted) \ match]
                /\ attempts' = Restart(attempts, s, shifted)
                /\ answered' = [q \in Probes |->
                     Restart(answered, s, shifted)[q] + Cardinality({o \in match : o.probe = q})]
                /\ credit' = credit \cup {<<o, r>> : o \in match}
        /\ UNCHANGED <<streamOf, sent, net, batch, published, woken>>

RepliesNext ==
    \/ \E p \in Probes : SendRequest(p) \/ Copy(p) \/ HandleReply(p)
    \/ \E reply \in net : Receive(reply)
    \/ Publish

(***************************************************************************)
(* In every window and for every target, the successes and timeouts are no *)
(* more than the attempts: not with duplicates, not when a batch is copied *)
(* twice, not when two probes hand the same reply to one handler.          *)
(***************************************************************************)
AnsweredWithinAttempts == \A p \in Probes : answered[p] <= attempts[p]

(***************************************************************************)
(* A request is counted for its own reply: not for another probe's, and    *)
(* not for one of an earlier test while the sequence byte has not wrapped. *)
(***************************************************************************)
CreditIsReal == \A c \in credit : c[1] = c[2]
=============================================================================
