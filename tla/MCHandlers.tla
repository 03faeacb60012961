----------------------------- MODULE MCHandlers -----------------------------
(***************************************************************************)
(* What the stream handlers have of their own, checked together.  The      *)
(* parts do not interact: a behaviour picks one of them at the start,      *)
(* whose variables are the first of v1 .. v6 (or those of                  *)
(* ResourcesWindow), and leaves the others alone.                          *)
(***************************************************************************)
EXTENDS ResourcesWindow, FiniteSets

CONSTANTS MaxEventsSmall, MaxEventsLarge, MaxWindows, MaxDrops, Epochs

VARIABLES part, v1, v2, v3, v4, v5, v6

Other == INSTANCE OtherBuckets
Dns == INSTANCE DnsBuckets
Net == INSTANCE NetBuckets

HandlerNames == {"bgp", "dhcp", "dns", "dns2", "flow", "net", "net2", "netprobe"}

\* The handlers with few kinds of events are taken further.
MaxEvents(h) == IF h \in {"bgp", "dhcp", "netprobe"} THEN MaxEventsSmall ELSE MaxEventsLarge

Configs(h) ==
    CASE h = "bgp" -> Other!BgpConfigs [] h = "dhcp" -> Other!DhcpConfigs
      [] h = "dns" -> Dns!Configs [] h = "dns2" -> Dns!Configs2
      [] h = "flow" -> Other!FlowConfigs [] h = "net" -> Net!Configs
      [] h = "net2" -> Net!Configs2 [] h = "netprobe" -> Other!ProbeConfigs

Events(h, c) ==
    CASE h = "bgp" -> Other!BgpEvents [] h = "dhcp" -> Other!DhcpEvents
      [] h = "dns" -> Dns!Events [] h = "dns2" -> Dns!Events2
      [] h = "flow" -> Other!FlowEvents(c) [] h = "net" -> Net!Events(c)
      [] h = "net2" -> Net!Events2(c) [] h = "netprobe" -> Other!ProbeEvents

Touched(h, c, e) ==
    CASE h = "bgp" -> Other!BgpTouched(e) [] h = "dhcp" -> Other!DhcpTouched(e)
      [] h = "dns" -> Dns!Touched(c, e) [] h = "dns2" -> Dns!Touched2(c, e)
      [] h = "flow" -> Other!FlowTouched(c, e) [] h = "net" -> Net!Touched(c, e)
      [] h = "net2" -> Net!Touched2(c, e) [] h = "netprobe" -> Other!ProbeTouched(c, e)

Deep(h, c, e) ==
    CASE h \in {"bgp", "dhcp"} -> e.deep
      [] h = "dns" -> Dns!Deep(c, e) [] h = "dns2" -> Dns!Deep2(c, e)
      [] h = "flow" -> Other!FlowDeep(c, e) [] h = "net" -> Net!Deep(c, e)
      [] h = "net2" -> Net!Deep2(c, e) [] h = "netprobe" -> Other!ProbeDeep(c, e)

Carried(h, c) ==
    CASE h = "bgp" -> Other!BgpCarried [] h = "dhcp" -> Other!DhcpCarried
      [] h = "dns" -> Dns!Carried(c) [] h = "dns2" -> Dns!Carried2(c)
      [] h = "flow" -> Other!FlowCarried(c) [] h = "net" -> Net!Carried(c)
      [] h = "net2" -> Net!Carried2(c) [] h = "netprobe" -> Other!ProbeCarried(c)

Json(h, c) ==
    CASE h = "bgp" -> Other!BgpJson [] h = "dhcp" -> Other!DhcpJson
      [] h = "dns" -> Dns!Json(c) [] h = "dns2" -> Dns!Json2(c)
      [] h = "flow" -> Other!FlowJson(c) [] h = "net" -> Net!Json(c)
      [] h = "net2" -> Net!Json2(c) [] h = "netprobe" -> Other!ProbeJson(c)

Prometheus(h, c) ==
    CASE h = "bgp" -> Other!BgpPrometheus [] h = "dhcp" -> Other!DhcpPrometheus
      [] h = "dns" -> Dns!Prometheus(c) [] h = "dns2" -> Dns!Prometheus2(c)
      [] h = "flow" -> Other!FlowPrometheus(c) [] h = "net" -> Net!Prometheus(c)
      [] h = "net2" -> Net!Prometheus2(c) [] h = "netprobe" -> Other!ProbePrometheus(c)

OpenTelemetry(h, c) ==
    CASE h = "bgp" -> Other!BgpOpenTelemetry [] h = "dhcp" -> Other!DhcpOpenTelemetry
      [] h = "dns" -> Dns!OpenTelemetry(c) [] h = "dns2" -> Dns!OpenTelemetry2(c)
      [] h = "flow" -> Other!FlowOpenTelemetry(c) [] h = "net" -> Net!OpenTelemetry(c)
      [] h = "net2" -> Net!OpenTelemetry2(c) [] h = "netprobe" -> Other!ProbeOpenTelemetry(c)

Balanced(h, c, C(_)) ==
    CASE h = "bgp" -> Other!BgpBalanced(C) [] h = "dhcp" -> Other!DhcpBalanced(C)
      [] h = "dns" -> Dns!Balanced(c, C) [] h = "dns2" -> Dns!Balanced2(c, C)
      [] h = "flow" -> Other!FlowBalanced(c, C) [] h = "net" -> Net!Balanced(c, C)
      [] h = "net2" -> Net!Balanced2(c, C) [] h = "netprobe" -> Other!ProbeBalanced(c, C)

\* Handler, input stream, and whether it is chained or has UDP predicates.
Attachments ==
    {<<h, i, m>> : h \in {"net", "net2", "dns"}, i \in {"pcap", "dnstap"}, m \in BOOLEAN}
    \cup {<<"dns2", i, FALSE>> : i \in {"pcap", "dnstap"}}
    \cup {<<"bgp", "pcap", FALSE>>, <<"dhcp", "pcap", FALSE>>, <<"flow", "flow", FALSE>>,
          <<"netprobe", "netprobe", FALSE>>}

Connected(a) ==
    CASE a[1] = "bgp" -> Other!BgpConnected [] a[1] = "dhcp" -> Other!DhcpConnected
      [] a[1] = "dns" -> Dns!Connected(a[2], a[3]) [] a[1] = "dns2" -> Dns!Connected2(a[2])
      [] a[1] = "flow" -> Other!FlowConnected(a[2]) [] a[1] = "net" -> Net!Connected(a[2], a[3])
      [] a[1] = "net2" -> Net!Connected2(a[2], a[3]) [] a[1] = "netprobe" -> Other!ProbeConnected(a[2])

Disconnected(a) ==
    CASE a[1] = "bgp" -> Other!BgpDisconnected [] a[1] = "dhcp" -> Other!DhcpDisconnected
      [] a[1] = "dns" -> Dns!Disconnected(a[2], a[3]) [] a[1] = "dns2" -> Dns!Disconnected2(a[2])
      [] a[1] = "flow" -> Other!FlowDisconnected(a[2]) [] a[1] = "net" -> Net!Disconnected(a[2], a[3])
      [] a[1] = "net2" -> Net!Disconnected2(a[2], a[3]) [] a[1] = "netprobe" -> Other!ProbeDisconnected(a[2])

Early(a) == IF a[1] = "dns" /\ a[3] THEN {"udp_predicate"} ELSE {}

Handlers == INSTANCE HandlerBuckets
    WITH Handlers <- HandlerNames, handler <- v1, config <- v2, live <- v3, merged <- v4,
         seen <- v5, windows <- v6,
         attachment <- v1, running <- v2, connected <- v3,
         dropped <- v1, last <- v2, counted <- v3, dmerged <- v4, unseen <- v5, dwindows <- v6,
         expiry <- v1, expiries <- v2, newest <- v3

-----------------------------------------------------------------------------
bank == <<v1, v2, v3, v4, v5, v6>>
allVars == <<part, bank, vars>>

\* The variables that a part does not use keep one value.
Unused3 == v4 = 0 /\ v5 = 0 /\ v6 = 0

PartInit ==
    /\ Init
    /\ \/ part = "resources" /\ v1 = 0 /\ v2 = 0 /\ v3 = 0 /\ Unused3
       \/ part = "buckets" /\ Handlers!BucketsInit
       \/ part = "signals" /\ Handlers!SignalsInit /\ Unused3
       \/ part = "drops" /\ Handlers!DropsInit
       \/ part = "gauges" /\ Handlers!GaugesInit /\ Unused3

PartNext ==
    \/ part = "resources" /\ Next /\ UNCHANGED <<part, bank>>
    \/ part = "buckets" /\ Handlers!BucketsNext /\ UNCHANGED <<part, vars>>
    \/ part = "signals" /\ Handlers!SignalsNext /\ UNCHANGED <<part, v4, v5, v6, vars>>
    \/ part = "drops" /\ Handlers!DropsNext /\ UNCHANGED <<part, vars>>
    \/ part = "gauges" /\ Handlers!GaugesNext /\ UNCHANGED <<part, v4, v5, v6, vars>>

PartSpec == PartInit /\ [][PartNext]_allVars

-----------------------------------------------------------------------------
(***************************************************************************)
(* A merge of windows loses nothing and counts nothing twice: every metric *)
(* an exporter writes has all contributions of the events (specialized_    *)
(* merge of the handlers), the packets a capture dropped are counted once  *)
(* over all windows, and the certificate expiry is that seen last.         *)
(***************************************************************************)
MergesLoseNothing ==
    /\ part = "buckets" => Handlers!MergeKeepsWritten
    /\ part = "drops" => Handlers!DropsAddUp
    /\ part = "gauges" => Handlers!MergedExpiryIsNewest

\* to_json, to_prometheus and to_opentelemetry of a bucket show the same metrics.
ExportsAgree == part = "buckets" => Handlers!ExportsAgree

(***************************************************************************)
(* The counters of a handler balance: the parts of a whole (directions,    *)
(* protocols, response codes, outcomes) add up as its Balanced operator    *)
(* says, for what the events of all windows contributed.                   *)
(***************************************************************************)
CountsBalance ==
    part = "buckets" =>
        LET Seen(m) == Handlers!Count(v5, m)
        IN  Balanced(v1, v2, Seen)

\* However often a handler was started and stopped, once stopped it is
\* connected to no signal of its input.
StoppedIsDisconnected == part = "signals" => Handlers!StoppedIsDisconnected
=============================================================================
