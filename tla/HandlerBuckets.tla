--------------------------- MODULE HandlerBuckets ---------------------------
(***************************************************************************)
(* What every stream handler shares: its buckets, its connections to the   *)
(* signals of its input, and how a merge treats what is no plain counter.  *)
(* The sections are specified apart.                                       *)
(***************************************************************************)
EXTENDS Naturals, FiniteSets, SequencesExt

-----------------------------------------------------------------------------
(***************************************************************************)
(* The part every stream handler shares: a handler counts an event in its  *)
(* live bucket (new_event of the base class, then its own process_ method),*)
(* buckets are merged (merge of the base class, then specialized_merge),   *)
(* and a bucket, merged or not, is written out by to_json, to_prometheus   *)
(* and to_opentelemetry.  A handler is given by the operators below, which *)
(* the module of the handler defines; a metric's value is the number of    *)
(* events that contributed to it (by an increment of a counter, an item of *)
(* a sketch, a sample of a rate).                                          *)
(***************************************************************************)
CONSTANTS
    Handlers,             \* the handlers checked together
    Configs(_),           \* configurations (groups, filters) of a handler
    Events(_, _),         \* events a handler may receive under a configuration
    Touched(_, _, _),     \* metrics one event contributes to
    Deep(_, _, _),        \* whether an event counts as a deep sample
    Carried(_, _),        \* metrics specialized_merge adds up
    Json(_, _), Prometheus(_, _), OpenTelemetry(_, _),  \* metrics written out
    MaxEvents(_),         \* bound on the events of a handler
    MaxWindows

VARIABLES
    handler, config,      \* chosen at the start, never changed
    live,                 \* the live bucket: metric -> contributions
    merged,               \* the bucket the closed windows were merged into
    seen,                 \* history: contributions of all events
    windows               \* history: windows merged so far

bucketsVars == <<handler, config, live, merged, seen, windows>>

BaseMetrics == {"base"} \X {"events", "deep_samples", "event_rate"}

Count(bucket, m) == IF m \in DOMAIN bucket THEN bucket[m] ELSE 0

Add(bucket, ms) ==
    [m \in DOMAIN bucket \cup ms |->
        Count(bucket, m) + (IF m \in ms THEN 1 ELSE 0)]

\* new_event of the base class, with the sampling decision.
NewEvent(deep) ==
    {"base"} \X ({"events", "event_rate"} \cup {d \in {"deep_samples"} : deep})

\* merge of the base class, then the handler's specialized_merge.
Merge(bucket, other) ==
    LET carried == (BaseMetrics \cup Carried(handler, config)) \cap DOMAIN other
    IN  [m \in DOMAIN bucket \cup carried |->
            Count(bucket, m) + (IF m \in carried THEN other[m] ELSE 0)]

Empty == [m \in {} |-> 0]

TotalEvents == Count(seen, <<"base", "events">>)

-----------------------------------------------------------------------------

BucketsInit ==
    /\ handler \in Handlers
    /\ config \in Configs(handler)
    /\ live = Empty
    /\ merged = Empty
    /\ seen = Empty
    /\ windows = 0

Event(e) ==
    LET ms == NewEvent(Deep(handler, config, e)) \cup Touched(handler, config, e)
    IN  /\ live' = Add(live, ms)
        /\ seen' = Add(seen, ms)
        /\ UNCHANGED <<handler, config, merged, windows>>

CloseAndMerge ==
    /\ windows < MaxWindows
    /\ live # Empty
    /\ merged' = Merge(merged, live)
    /\ live' = Empty
    /\ windows' = windows + 1
    /\ UNCHANGED <<handler, config, seen>>

BucketsNext ==
    \/ TotalEvents < MaxEvents(handler) /\ \E e \in Events(handler, config) : Event(e)
    \/ CloseAndMerge

-----------------------------------------------------------------------------
NamesIn(metrics, bucket) == {m[2] : m \in metrics \cap DOMAIN bucket}

(***************************************************************************)
(* Merging loses nothing that is written out: whatever the groups enabled, *)
(* the merged bucket and the live one together hold, for each metric some  *)
(* exporter writes, every contribution the events made to it.              *)
(***************************************************************************)
MergeKeepsWritten ==
    \A m \in Json(handler, config) \cup Prometheus(handler, config)
                \cup OpenTelemetry(handler, config) :
        Count(merged, m) + Count(live, m) = Count(seen, m)

(***************************************************************************)
(* The three exporters agree: a window that has contributions to a metric  *)
(* shows that metric in all of JSON, Prometheus and OpenTelemetry, or in   *)
(* none of them.                                                           *)
(***************************************************************************)
ExportsAgree ==
    \A b \in {live, merged} :
        LET names == NamesIn(Json(handler, config), b)
        IN  /\ names = NamesIn(Prometheus(handler, config), b)
            /\ names = NamesIn(OpenTelemetry(handler, config), b)

-----------------------------------------------------------------------------
(***************************************************************************)
(* A stream handler connects to the signals of its input stream's proxy    *)
(* when it starts and disconnects when it stops; a signal calls whoever is *)
(* connected, so a connection that outlives its handler is a call into     *)
(* freed memory.  The sets are the handlers' start and stop methods.       *)
(***************************************************************************)
CONSTANTS
    Attachments,         \* handler, input and mode triples
    Connected(_),        \* the signals start connects to
    Disconnected(_),     \* the signals stop disconnects from
    Early(_)             \* those connected before start can fail

VARIABLES attachment, running, connected

signalsVars == <<attachment, running, connected>>

SignalsInit ==
    /\ attachment \in Attachments
    /\ running = "new"
    /\ connected = {}

\* start: does nothing when running.
Start ==
    /\ running \in {"new", "running", "stopped"}
    /\ IF running = "running" THEN UNCHANGED connected
       ELSE connected' = connected \cup Connected(attachment)
    /\ running' = "running"
    /\ UNCHANGED attachment

\* start throws on a filter it cannot parse; the handler is then destroyed.
StartFails ==
    /\ running = "new"
    /\ running' = "failed"
    /\ connected' = Early(attachment)
    /\ UNCHANGED attachment

\* stop: does nothing unless running.
Stop ==
    /\ running \in {"running", "new"}
    /\ IF running = "running"
       THEN running' = "stopped" /\ connected' = connected \ Disconnected(attachment)
       ELSE UNCHANGED <<running, connected>>
    /\ UNCHANGED attachment

SignalsNext == Start \/ StartFails \/ Stop

SignalsSpec == SignalsInit /\ [][SignalsNext]_signalsVars

(***************************************************************************)
(* Whatever input a handler is attached to, a stopped handler is connected *)
(* to no signal of it, however often it was started and stopped.           *)
(***************************************************************************)
StoppedIsDisconnected == running = "stopped" => connected = {}

-----------------------------------------------------------------------------
(***************************************************************************)
(* The pcap handler: TCP reassembly errors, and the packets that libpcap   *)
(* says the system and the interface dropped.  libpcap counts from the     *)
(* start of the capture, so a bucket remembers the count it last saw and   *)
(* adds differences; a bucket's first statistics only set that baseline.   *)
(***************************************************************************)
CONSTANT MaxDrops

Kinds == {"os_drop", "if_drop"}

VARIABLES
    dropped,    \* external: libpcap's counters, per kind
    last,       \* pcap_last_os_drop, pcap_last_if_drop; None is UINT64_MAX
    counted,    \* pcap_os_drop, pcap_if_drop of the live bucket
    dmerged,    \* the same, of the bucket the closed ones were merged into
    unseen,     \* history: drops libpcap counted between two buckets' statistics
    dwindows

dropsVars == <<dropped, last, counted, dmerged, unseen, dwindows>>

NoStats == MaxDrops + 1

Zero == [k \in Kinds |-> 0]

DropsInit ==
    /\ dropped = Zero
    /\ last = [k \in Kinds |-> NoStats]
    /\ counted = Zero
    /\ dmerged = Zero
    /\ unseen = Zero
    /\ dwindows = 0

\* external: the capture drops a packet.
Drop(k) ==
    /\ dropped[k] < MaxDrops
    /\ dropped' = [dropped EXCEPT ![k] = @ + 1]
    /\ UNCHANGED <<last, counted, dmerged, unseen, dwindows>>

\* Mutant of Difference: libpcap's count is taken for the difference.
DifferenceFromStart(k) == dropped[k]

\* What one bucket counter grows by.
Difference(k) == IF dropped[k] > last[k] THEN dropped[k] - last[k] ELSE 0

ProcessPcapStats ==
    /\ IF \E k \in Kinds : last[k] = NoStats
       THEN /\ last' = dropped
            /\ unseen' = [k \in Kinds |->
                            dropped[k] - dmerged[k] - counted[k]]
            /\ UNCHANGED counted
       ELSE /\ counted' = [k \in Kinds |-> counted[k] + Difference(k)]
            /\ last' = [k \in Kinds |-> IF dropped[k] > last[k] THEN dropped[k] ELSE last[k]]
            /\ UNCHANGED unseen
    /\ UNCHANGED <<dropped, dmerged, dwindows>>

\* A period shift, and specialized_merge of the bucket it closes.
Shift ==
    /\ dwindows < MaxWindows
    /\ dwindows' = dwindows + 1
    /\ dmerged' = [k \in Kinds |-> dmerged[k] + counted[k]]
    /\ counted' = Zero
    /\ last' = [k \in Kinds |-> NoStats]
    /\ UNCHANGED <<dropped, unseen>>

DropsNext == (\E k \in Kinds : Drop(k)) \/ ProcessPcapStats \/ Shift

DropsSpec == DropsInit /\ [][DropsNext]_dropsVars

(***************************************************************************)
(* No drop is counted twice and none that falls between two statistics of  *)
(* one bucket is lost: what the windows count, and the drops that fell     *)
(* before a bucket's first statistics, add up to what libpcap had counted  *)
(* at the last statistics.                                                 *)
(***************************************************************************)
DropsAddUp ==
    \A k \in Kinds :
        last[k] # NoStats => dmerged[k] + counted[k] + unseen[k] = last[k]

-----------------------------------------------------------------------------
(***************************************************************************)
(* The certificate expiry of a probe's target is a gauge.  A bucket keeps  *)
(* the last one seen, and a merge, which takes the buckets newest first,   *)
(* keeps the first one that is not zero.                                   *)
(***************************************************************************)
CONSTANTS
    Epochs,      \* expiry times, positive
    MaxClosed    \* closed buckets

VARIABLES
    expiry,      \* tls_cert_expiry_epoch of the live bucket
    expiries,    \* of the others, newest first
    newest       \* history: the expiry of the certificate seen last

gaugesVars == <<expiry, expiries, newest>>

NoExpiry == 0

GaugesInit == expiry = NoExpiry /\ expiries = <<>> /\ newest = NoExpiry

\* process_netprobe_http and process_netprobe_doh; a result without TLS has
\* no expiry.
Result(epoch) ==
    /\ expiry' = IF epoch # NoExpiry THEN epoch ELSE expiry
    /\ newest' = IF epoch # NoExpiry THEN epoch ELSE newest
    /\ UNCHANGED expiries

GaugeShift ==
    /\ Len(expiries) < MaxClosed
    /\ expiries' = <<expiry>> \o expiries
    /\ expiry' = NoExpiry
    /\ UNCHANGED newest

\* Mutant of MergeExpiry: the oldest bucket wins.
MergeOldestExpiry(into, bucket) == IF bucket = NoExpiry THEN into ELSE bucket

\* specialized_merge
MergeExpiry(into, bucket) == IF into = NoExpiry THEN bucket ELSE into

GaugesNext == (\E epoch \in Epochs \cup {NoExpiry} : Result(epoch)) \/ GaugeShift

GaugesSpec == GaugesInit /\ [][GaugesNext]_gaugesVars

(***************************************************************************)
(* A merge of the windows reports the certificate seen last, even when it  *)
(* expires before one seen earlier, and whichever windows saw none.        *)
(***************************************************************************)
MergedExpiryIsNewest == FoldLeft(MergeExpiry, NoExpiry, <<expiry>> \o expiries) = newest
=============================================================================
