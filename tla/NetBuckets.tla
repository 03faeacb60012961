----------------------------- MODULE NetBuckets -----------------------------
(***************************************************************************)
(* The two versions of the network handler.  The names of version 2 end in *)
(* 2 where version 1 has them too.                                         *)
(***************************************************************************)
EXTENDS MetricGroups

-----------------------------------------------------------------------------
(***************************************************************************)
(* The net handler, version 1: packets of a capture or messages of a       *)
(* dnstap stream, counted by direction, network and transport protocol,    *)
(* with addresses, GeoIP and ASN tables when the event is sampled for deep *)
(* inspection.                                                             *)
(***************************************************************************)
Groups == {"counters", "cardinality", "top_geo", "top_ips"}

\* filters: geo or asn filters switched on; dbs: the databases loaded.
Configs ==
    {c \in [groups : GroupChoices(Groups), filters : SUBSET {"geo", "asn"},
            dbs : {{}, {"geo", "asn"}}] :
        c.filters = {} \/ c.groups = Groups}

\* src, dst: the event gives an address there; passes: the filters that the
\* peer's address satisfies.
EventRecords ==
    [kind : {"packet", "dnstap"}, dir : {"in", "out", "unk"},
     l3 : {"ipv4", "ipv6", "other"}, l4 : {"udp", "tcp", "other"},
     syn : BOOLEAN, src : BOOLEAN, dst : BOOLEAN,
     passes : SUBSET {"geo", "asn"}, deep : BOOLEAN]

\* process_packet takes the peer's address from the direction.
IsPacket(e) ==
    /\ e.kind = "packet"
    /\ e.syn => e.l4 = "tcp"
    /\ e.src = (e.dir = "in" /\ e.l3 # "other")
    /\ e.dst = (e.dir = "out" /\ e.l3 # "other")

\* process_dnstap derives the direction from the message type and takes the
\* addresses the message has, if the family is known.
IsDnstap(e) ==
    /\ e.kind = "dnstap"
    /\ e.dir # "unk"
    /\ ~e.syn
    /\ e.l3 = "other" => ~e.src /\ ~e.dst
    /\ e.passes = {}

Events(config) ==
    {e \in EventRecords :
        (IsPacket(e) \/ IsDnstap(e)) /\ e.passes \subseteq config.filters}

\* _filtering: without the database, or without a direction, everything goes.
Filtered(config, e) ==
    /\ e.kind = "packet"
    /\ \E f \in config.filters :
        \/ f \notin config.dbs
        \/ e.dir = "unk"
        \/ e.l3 # "other" /\ f \notin e.passes

ProcessFiltered(config) == InGroup(config, "counters", All({"filtered"}))

Total == [in |-> "total_in", out |-> "total_out", unk |-> "total_unk"]

L3 == [ipv4 |-> {"IPv4"}, ipv6 |-> {"IPv6"}, other |-> {}]

L4 == [udp |-> "UDP", tcp |-> "TCP", other |-> "OtherL4"]

DirectionRates ==
    [in |-> {"rate_in", "throughput_in"}, out |-> {"rate_out", "throughput_out"}, unk |-> {}]

\* process_net_layer without deep inspection.
Layer(config, e) ==
    All({"rate_total", "throughput_total", "payload_size"} \cup DirectionRates[e.dir])
    \cup InGroup(config, "counters", All({"total", Total[e.dir], L4[e.l4]} \cup L3[e.l3]))

\* _process_geo_metrics
Geo(config) ==
    InGroup(config, "top_geo",
        All(If("geo" \in config.dbs, {"topGeoLoc"}) \cup If("asn" \in config.dbs, {"topASN"})))

\* process_net_layer with deep inspection.
DeepLayer(config, e) ==
    Layer(config, e)
    \cup InGroup(config, "counters", All(If(e.l4 = "tcp" /\ e.syn, {"TCP_SYN"})))
    \cup InGroup(config, "cardinality",
            All(If(e.src, {"srcIPCard"}) \cup If(e.dst, {"dstIPCard"})))
    \cup If(e.src \/ e.dst,
            InGroup(config, "top_ips", All({IF e.l3 = "ipv4" THEN "topIPv4" ELSE "topIPv6"}))
            \cup Geo(config))

Touched(config, e) ==
    IF Filtered(config, e) THEN ProcessFiltered(config)
    ELSE IF e.deep THEN DeepLayer(config, e) ELSE Layer(config, e)

\* A filtered event is not sampled anew: it counts with the last decision.
Deep(config, e) == e.deep

Counters ==
    All({"UDP", "TCP", "OtherL4", "IPv4", "IPv6", "TCP_SYN", "total_in",
         "total_out", "total_unk", "total", "filtered"})

Rates ==
    All({"rate_in", "rate_out", "rate_total",
         "throughput_in", "throughput_out", "throughput_total"})

Carried(config) ==
    Rates \cup InGroup(config, "counters", Counters)
    \cup InGroup(config, "cardinality", All({"srcIPCard", "dstIPCard"}))
    \cup InGroup(config, "top_ips", All({"topIPv4", "topIPv6"}))
    \cup InGroup(config, "top_geo", All({"topGeoLoc", "topASN"}))
    \cup All({"payload_size"})

Prometheus(config) ==
    Rates \cup BaseMetrics \cup InGroup(config, "counters", Counters)
    \cup InGroup(config, "cardinality", All({"srcIPCard", "dstIPCard"}))
    \cup InGroup(config, "top_ips", All({"topIPv4", "topIPv6"}))
    \cup InGroup(config, "top_geo", All({"topGeoLoc", "topASN"}))
    \cup All({"payload_size"})

OpenTelemetry(config) ==
    Rates \cup BaseMetrics \cup InGroup(config, "counters", Counters)
    \cup InGroup(config, "cardinality", All({"srcIPCard", "dstIPCard"}))
    \cup InGroup(config, "top_ips", All({"topIPv4", "topIPv6"}))
    \cup InGroup(config, "top_geo", All({"topGeoLoc", "topASN"}))
    \cup All({"payload_size"})

Json(config) ==
    Rates \cup BaseMetrics \cup InGroup(config, "counters", Counters)
    \cup InGroup(config, "cardinality", All({"srcIPCard", "dstIPCard"}))
    \cup InGroup(config, "top_ips", All({"topIPv4", "topIPv6"}))
    \cup InGroup(config, "top_geo", All({"topGeoLoc", "topASN"}))
    \cup All({"payload_size"})

\* Every packet has one direction and one transport, at most one network
\* protocol, and is counted or filtered.
Balanced(config, C(_)) ==
    LET N(name) == C(<<"all", name>>)
    IN  /\ N("total") = N("total_in") + N("total_out") + N("total_unk")
        /\ N("total") = N("UDP") + N("TCP") + N("OtherL4")
        /\ N("IPv4") + N("IPv6") <= N("total")
        /\ N("TCP_SYN") <= N("TCP")
        /\ "counters" \in config.groups =>
               C(<<"base", "events">>) = N("total") + N("filtered")

Tcp == {"tcp_start", "tcp_message", "tcp_end"}

\* input: the event proxy the handler was given; chained: whether another
\* handler of the policy listens to this one.
Connected(input, chained) ==
    CASE input = "pcap" -> {"packet", "tcp_reassembled", "start_tstamp", "end_tstamp",
                            "heartbeat"} \cup If(chained, Tcp)
      [] input = "dnstap" -> {"dnstap", "heartbeat"}
      [] OTHER -> {}

Disconnected(input, chained) ==
    {"heartbeat"} \cup
    (CASE input = "pcap" -> {"packet", "start_tstamp", "end_tstamp", "tcp_reassembled"}
                            \cup If(chained, Tcp)
       [] input = "dnstap" -> {"dnstap"}
       [] OTHER -> {})

-----------------------------------------------------------------------------
(***************************************************************************)
(* The net handler, version 2: the counters and tables of version 1, kept  *)
(* per direction in a map (_net) that an event of the direction creates.   *)
(***************************************************************************)
Groups2 == {"counters", "cardinality", "quantiles", "top_geo", "top_ips"}

Configs2 ==
    {c \in [groups : GroupChoices(Groups2), filters : SUBSET {"geo", "asn"},
            dbs : {{}, {"geo", "asn"}}] :
        c.filters = {} \/ c.groups = Groups2}

Directions == {"in", "out", "unknown"}

EventRecords2 ==
    [kind : {"packet", "dnstap"}, dir : Directions,
     l3 : {"ipv4", "ipv6", "other"}, l4 : {"udp", "tcp", "other"},
     syn : BOOLEAN, src : BOOLEAN, dst : BOOLEAN,
     passes : SUBSET {"geo", "asn"}, deep : BOOLEAN]

\* process_packet: the peer's address, or both when the direction is unknown.
IsPacket2(e) ==
    /\ e.kind = "packet"
    /\ e.syn => e.l4 = "tcp"
    /\ e.src = (e.dir # "out" /\ e.l3 # "other")
    /\ e.dst = (e.dir # "in" /\ e.l3 # "other")

IsDnstap2(e) ==
    /\ e.kind = "dnstap"
    /\ e.dir # "unknown"
    /\ ~e.syn
    /\ e.l3 = "other" => ~e.src /\ ~e.dst
    /\ e.passes = {}

Events2(config) ==
    {e \in EventRecords2 :
        (IsPacket2(e) \/ IsDnstap2(e)) /\ e.passes \subseteq config.filters}

\* _filtering
Filtered2(config, e) ==
    /\ e.kind = "packet"
    /\ \E f \in config.filters :
        \/ f \notin config.dbs
        \/ e.dir = "unknown"
        \/ e.l3 # "other" /\ f \notin e.passes

ProcessFiltered2(config) == InGroup(config, "counters", All({"filtered"}))

L32 == [ipv4 |-> {"IPv4"}, ipv6 |-> {"IPv6"}, other |-> {}]

L42 == [udp |-> "UDP", tcp |-> "TCP", other |-> "OtherL4"]

\* process_net_layer without deep inspection: the rates and the payload size
\* are recorded whether or not their group is enabled.
Layer2(config, e) ==
    {e.dir} \X ({"rate", "throughput", "payload_size"} \cup
                InGroup(config, "counters", {"total", L42[e.l4]} \cup L32[e.l3]))

Geo2(config, e) ==
    InGroup(config, "top_geo",
        {e.dir} \X (If("geo" \in config.dbs, {"topGeoLoc"}) \cup
                    If("asn" \in config.dbs, {"topASN"})))

\* process_net_layer with deep inspection.
DeepLayer2(config, e) ==
    Layer2(config, e)
    \cup InGroup(config, "counters", {e.dir} \X If(e.l4 = "tcp" /\ e.syn, {"TCP_SYN"}))
    \cup If(e.src \/ e.dst,
            InGroup(config, "cardinality", {<<e.dir, "ipCard">>})
            \cup InGroup(config, "top_ips",
                    {<<e.dir, IF e.l3 = "ipv4" THEN "topIPv4" ELSE "topIPv6">>})
            \cup Geo2(config, e))

Touched2(config, e) ==
    IF Filtered2(config, e) THEN ProcessFiltered2(config)
    ELSE IF e.deep THEN DeepLayer2(config, e) ELSE Layer2(config, e)

\* A filtered event is not sampled anew: it counts with the last decision.
Deep2(config, e) == e.deep

Counters2 ==
    Directions \X {"UDP", "TCP", "OtherL4", "IPv4", "IPv6", "TCP_SYN", "total"}

Carried2(config) ==
    InGroup(config, "quantiles", Directions \X {"rate", "throughput"})
    \cup InGroup(config, "counters", All({"filtered"}) \cup Counters2)
    \cup InGroup(config, "cardinality", Directions \X {"ipCard"})
    \cup InGroup(config, "top_ips", Directions \X {"topIPv4", "topIPv6"})
    \cup InGroup(config, "top_geo", Directions \X {"topGeoLoc", "topASN"})
    \cup InGroup(config, "quantiles", Directions \X {"payload_size"})

Prometheus2(config) ==
    BaseMetrics
    \cup InGroup(config, "quantiles", Directions \X {"rate", "throughput"})
    \cup InGroup(config, "counters", All({"filtered"}) \cup Counters2)
    \cup InGroup(config, "cardinality", Directions \X {"ipCard"})
    \cup InGroup(config, "top_ips", Directions \X {"topIPv4", "topIPv6"})
    \cup InGroup(config, "top_geo", Directions \X {"topGeoLoc", "topASN"})
    \cup InGroup(config, "quantiles", Directions \X {"payload_size"})

OpenTelemetry2(config) ==
    BaseMetrics
    \cup InGroup(config, "quantiles", Directions \X {"rate", "throughput"})
    \cup InGroup(config, "counters", All({"filtered"}) \cup Counters2)
    \cup InGroup(config, "cardinality", Directions \X {"ipCard"})
    \cup InGroup(config, "top_ips", Directions \X {"topIPv4", "topIPv6"})
    \cup InGroup(config, "top_geo", Directions \X {"topGeoLoc", "topASN"})
    \cup InGroup(config, "quantiles", Directions \X {"payload_size"})

Json2(config) ==
    BaseMetrics
    \cup InGroup(config, "quantiles", Directions \X {"rate", "throughput"})
    \cup InGroup(config, "counters", All({"filtered"}) \cup Counters2)
    \cup InGroup(config, "cardinality", Directions \X {"ipCard"})
    \cup InGroup(config, "top_ips", Directions \X {"topIPv4", "topIPv6"})
    \cup InGroup(config, "top_geo", Directions \X {"topGeoLoc", "topASN"})
    \cup InGroup(config, "quantiles", Directions \X {"payload_size"})

\* In each direction every packet has one transport and at most one network
\* protocol, and every packet is counted in one direction or filtered.
Balanced2(config, C(_)) ==
    /\ \A d \in Directions :
        LET N(name) == C(<<d, name>>)
        IN  /\ N("total") = N("UDP") + N("TCP") + N("OtherL4")
            /\ N("IPv4") + N("IPv6") <= N("total")
            /\ N("TCP_SYN") <= N("TCP")
    /\ "counters" \in config.groups =>
           C(<<"base", "events">>) = C(<<"in", "total">>) + C(<<"out", "total">>)
               + C(<<"unknown", "total">>) + C(<<"all", "filtered">>)

Tcp2 == {"tcp_start", "tcp_message", "tcp_end"}

Connected2(input, chained) ==
    CASE input = "pcap" -> {"packet", "tcp_reassembled", "start_tstamp", "end_tstamp",
                            "heartbeat"} \cup If(chained, Tcp2)
      [] input = "dnstap" -> {"dnstap", "heartbeat"}
      [] OTHER -> {}

Disconnected2(input, chained) ==
    {"heartbeat"} \cup
    (CASE input = "pcap" -> {"packet", "start_tstamp", "end_tstamp", "tcp_reassembled"}
                            \cup If(chained, Tcp2)
       [] input = "dnstap" -> {"dnstap"}
       [] OTHER -> {})
=============================================================================
