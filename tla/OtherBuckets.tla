---------------------------- MODULE OtherBuckets ----------------------------
(***************************************************************************)
(* The handlers of probes, of BGP, of DHCP and of flows.                   *)
(***************************************************************************)
EXTENDS MetricGroups

-----------------------------------------------------------------------------
(***************************************************************************)
(* The network probe handler: results of ping, TCP, HTTP and DNS-over-HTTPS*)
(* probes, counted per target.  A ping or TCP answer arrives with what     *)
(* maybe_end_transaction said of it (NetProbeInput and TcpAttempts).       *)
(***************************************************************************)
ProbeGroups == {"counters", "quantiles", "histograms", "http_response_phases"}

ProbeConfigs == [groups : GroupChoices(ProbeGroups)]

ProbeTargets == {"t1", "t2"}

\* Ping and TCP: an attempt sent, or an answer; HTTP and DoH: one result per
\* probe; fail: what a probe reports without an answer.
ProbeErrors == {"Timeout", "SocketError", "DnsLookupFailure", "InvalidIp", "ConnectFailure"}

ProbePacketEvents == {"sent", "valid", "timed_out", "unpaired"}

ProbeHttpEvents == {"http_status_bad", "http_content_bad", "http_ok"}

ProbeDohEvents == {"doh_status_bad", "doh_ok", "doh_rcode_bad", "doh_unparsed"}

ProbeEvents ==
    [kind : ProbePacketEvents \cup ProbeHttpEvents \cup ProbeDohEvents, error : {"none"},
     target : ProbeTargets, deep : BOOLEAN]
    \cup [kind : {"packet_fail", "http_fail", "doh_fail"}, error : ProbeErrors,
          target : ProbeTargets, deep : {TRUE}]

\* process_failure of the bucket.
ProbeFailure(error) ==
    CASE error = "DnsLookupFailure" -> {"dns_failures"}
      [] error = "Timeout" -> {"timed_out"}
      [] error \in {"SocketError", "InvalidIp", "ConnectFailure"} -> {"connect_failures"}

\* new_transaction of the bucket.
ProbeNewTransaction(config, e) ==
    InGroup(config, "counters", {"successes"})
    \cup If(e.deep, InGroup(config, "histograms", {"h_time_us"})
                    \cup InGroup(config, "quantiles", {"q_time_us"}))

ProbePhases == {"q_dns_us", "q_connect_us", "q_tls_us", "q_ttfb_us"}

\* process_netprobe_http: one outcome per result.
ProbeHttp(config, e) ==
    InGroup(config, "counters",
        {"top_status_codes"}
        \cup (CASE e.kind = "http_status_bad" -> {"http_status_failures"}
                [] e.kind = "http_content_bad" -> {"content_failures"}
                [] e.kind = "http_ok" -> {"successes"}))
    \cup If(e.deep, InGroup(config, "histograms", {"h_time_us"})
                    \cup InGroup(config, "quantiles", {"q_time_us", "q_response_size"})
                    \cup InGroup(config, "http_response_phases", ProbePhases))

\* process_netprobe_doh
ProbeDoh(config, e) ==
    InGroup(config, "counters",
        {"top_status_codes"}
        \cup (CASE e.kind = "doh_status_bad" -> {"http_status_failures"}
                [] e.kind = "doh_ok" -> {"top_rcodes", "successes"}
                [] e.kind \in {"doh_rcode_bad", "doh_unparsed"} ->
                       {"top_rcodes", "dns_response_failures"}))
    \cup If(e.deep, InGroup(config, "histograms", {"h_time_us"})
                    \cup InGroup(config, "quantiles", {"q_time_us"})
                    \cup InGroup(config, "http_response_phases", ProbePhases))

ProbeAttempts(config) == InGroup(config, "counters", {"attempts"})

ProbeFailed(config, e) == InGroup(config, "counters", ProbeFailure(e.error))

\* The manager's entry points.
ProbeNames(config, e) ==
    CASE e.kind = "sent" -> ProbeAttempts(config)
      [] e.kind = "valid" -> ProbeNewTransaction(config, e)
      [] e.kind = "timed_out" -> InGroup(config, "counters", ProbeFailure("Timeout"))
      [] e.kind = "unpaired" -> {}
      [] e.kind = "packet_fail" -> ProbeFailed(config, e)
      [] e.kind \in {"http_fail", "doh_fail"} -> ProbeAttempts(config) \cup ProbeFailed(config, e)
      [] e.kind \in ProbeHttpEvents -> ProbeAttempts(config) \cup ProbeHttp(config, e)
      [] e.kind \in ProbeDohEvents -> ProbeAttempts(config) \cup ProbeDoh(config, e)

ProbeTouched(config, e) == {e.target} \X ProbeNames(config, e)

ProbeDeep(config, e) == e.deep

ProbeCounters ==
    {"attempts", "successes", "connect_failures", "dns_failures", "timed_out",
     "http_status_failures", "content_failures", "top_status_codes",
     "dns_response_failures", "top_rcodes"}

\* The gauges (certificate expiry, minimum and maximum) are in HandlerBuckets.
ProbeCarried(config) ==
    ProbeTargets \X (InGroup(config, "counters", ProbeCounters)
                \cup InGroup(config, "histograms", {"h_time_us"})
                \cup InGroup(config, "quantiles", {"q_time_us", "q_response_size"})
                \cup InGroup(config, "http_response_phases", ProbePhases))

ProbePrometheus(config) ==
    ProbeTargets \X (InGroup(config, "counters", ProbeCounters)
                \cup InGroup(config, "histograms", {"h_time_us"})
                \cup InGroup(config, "quantiles", {"q_time_us", "q_response_size"})
                \cup InGroup(config, "http_response_phases", ProbePhases))

ProbeOpenTelemetry(config) ==
    ProbeTargets \X (InGroup(config, "counters", ProbeCounters)
                \cup InGroup(config, "histograms", {"h_time_us"})
                \cup InGroup(config, "quantiles", {"q_time_us", "q_response_size"})
                \cup InGroup(config, "http_response_phases", ProbePhases))

ProbeJson(config) ==
    ProbeTargets \X (InGroup(config, "counters", ProbeCounters)
                \cup InGroup(config, "histograms", {"h_time_us"})
                \cup InGroup(config, "quantiles", {"q_time_us", "q_response_size"})
                \cup InGroup(config, "http_response_phases", ProbePhases))

\* An HTTP or DoH probe that reported has one attempt and one outcome, so
\* the attempts of a target are at most its outcomes and the packets sent;
\* a response code is counted for each DNS answer.
ProbeBalanced(config, C(_)) ==
    "counters" \in config.groups =>
    \A t \in ProbeTargets :
        LET N(name) == C(<<t, name>>)
        IN  /\ N("http_status_failures") + N("content_failures")
                 + N("dns_response_failures") <= N("attempts")
            /\ N("top_status_codes") <= N("attempts")
            /\ N("top_rcodes") <= N("top_status_codes")
            /\ N("dns_response_failures") <= N("top_rcodes")

ProbeConnected(input) ==
    IF input = "netprobe"
    THEN {"probe_send", "probe_recv", "probe_fail", "probe_http_result", "probe_doh_result",
          "heartbeat"}
    ELSE {}

ProbeDisconnected(input) ==
    {"probe_send", "probe_recv", "probe_fail", "probe_http_result", "probe_doh_result",
     "heartbeat"}

-----------------------------------------------------------------------------
(* The BGP handler: messages of reassembled TCP sessions, counted by type.  *)
(* It has no groups, and its filter lets everything through.                *)
BgpTypes == {"OPEN", "UPDATE", "NOTIFICATION", "KEEPALIVE", "ROUTEREFRESH"}

BgpCounters == All(BgpTypes \cup {"total", "filtered"})

BgpRates == All({"rate_total"})

BgpConfigs == {[groups |-> {}]}

BgpFiltered(e) == FALSE

\* A message of a TCP session one of whose ports is BGP's.
BgpEvents == [type : BgpTypes, deep : BOOLEAN]

\* Mutant of BgpLayer: no case for a keepalive.
BgpLayerWithoutKeepalive(e) == All({"total", "rate_total"} \cup ({e.type} \ {"KEEPALIVE"}))

BgpLayer(e) == All({"total", "rate_total", e.type})

BgpTouched(e) == IF BgpFiltered(e) THEN All({"filtered"}) ELSE BgpLayer(e)

\* Mutant of BgpCarried: the rate is not merged.
BgpCarriedWithoutRates == BgpCounters

BgpCarried == BgpRates \cup BgpCounters

BgpPrometheus == BgpRates \cup BaseMetrics \cup BgpCounters

BgpOpenTelemetry == BgpRates \cup BaseMetrics \cup BgpCounters

BgpJson == BgpRates \cup BaseMetrics \cup BgpCounters

\* Every message is of one type, so the types add up to the total.
BgpBalanced(C(_)) ==
    C(<<"all", "total">>) =
        C(<<"all", "OPEN">>) + C(<<"all", "UPDATE">>) + C(<<"all", "NOTIFICATION">>)
          + C(<<"all", "KEEPALIVE">>) + C(<<"all", "ROUTEREFRESH">>)

\* The signals start connects to, and the ones stop disconnects from.
BgpConnected == {"tcp_start", "tcp_end", "tcp_message", "start_tstamp",
              "end_tstamp", "heartbeat"}

BgpDisconnected == {"tcp_start", "tcp_end", "tcp_message", "start_tstamp",
                 "end_tstamp", "heartbeat"}

-----------------------------------------------------------------------------
(* The DHCP handler: UDP packets on the DHCP ports, counted by message type. *)
DhcpTypes == {"DISCOVER", "OFFER", "REQUEST", "ACK", "OTHER"}

DhcpTypesV6 == {"SOLICIT", "ADVERTISE", "REQUESTV6", "REPLY", "OTHERV6"}

DhcpCounters == All((DhcpTypes \cup DhcpTypesV6 \cup {"total", "filtered"})
                \ {"OTHER", "OTHERV6"})

DhcpConfigs == {[groups |-> {}]}

\* named: the options and layers the deep inspection looks for are there;
\* paired: an ACK whose REQUEST is open in the transaction manager.
DhcpEvents ==
    {e \in [type : DhcpTypes \cup DhcpTypesV6, named : BOOLEAN, paired : BOOLEAN, deep : BOOLEAN] :
        e.paired => e.type = "ACK"}

\* process_dhcp_layer and new_dhcp_transaction of the bucket.
DhcpLayer(e) ==
    All({"total", "rate_total"} \cup ({e.type} \ {"OTHER"})
        \cup If(e.deep /\ e.type = "OFFER" /\ e.named, {"topServers"})
        \cup If(e.deep /\ e.paired /\ e.named, {"topClients"}))

\* process_dhcp_v6_layer of the bucket: no total, no rate.
DhcpLayerV6(e) ==
    All(({e.type} \ {"OTHERV6"})
        \cup If(e.deep /\ e.type \in {"REPLY", "ADVERTISE"} /\ e.named, {"topServers"}))

DhcpTouched(e) == IF e.type \in DhcpTypes THEN DhcpLayer(e) ELSE DhcpLayerV6(e)

DhcpRates == All({"rate_total"})

DhcpTopTables == All({"topClients", "topServers"})

DhcpCarried == DhcpRates \cup DhcpCounters \cup DhcpTopTables

DhcpPrometheus == DhcpRates \cup BaseMetrics \cup DhcpCounters \cup DhcpTopTables

\* Mutant of DhcpOpenTelemetry: the tables are forgotten.
DhcpOpenTelemetryWithoutTables == DhcpRates \cup BaseMetrics \cup DhcpCounters

DhcpOpenTelemetry == DhcpRates \cup BaseMetrics \cup DhcpCounters \cup DhcpTopTables

DhcpJson == DhcpRates \cup BaseMetrics \cup DhcpCounters \cup DhcpTopTables

\* A DHCPv4 packet has at most one counted type.
DhcpBalanced(C(_)) ==
    /\ C(<<"all", "DISCOVER">>) + C(<<"all", "OFFER">>) + C(<<"all", "REQUEST">>)
         + C(<<"all", "ACK">>) <= C(<<"all", "total">>)
    /\ C(<<"all", "topClients">>) <= C(<<"all", "ACK">>)

DhcpConnected == {"udp", "start_tstamp", "end_tstamp", "heartbeat"}

DhcpDisconnected == {"udp", "start_tstamp", "end_tstamp", "heartbeat"}

-----------------------------------------------------------------------------
(***************************************************************************)
(* The flow handler: sFlow samples and NetFlow/IPFIX records, counted per  *)
(* device and per interface, by bytes and by packets.  One flow per packet *)
(* and one interface per side are enough to tell the metrics apart: the    *)
(* parts of a bucket are the device, its incoming and outgoing interface,  *)
(* and the four tables an interface has by direction and unit.             *)
(***************************************************************************)
FlowGroups ==
    {"by_packets", "by_bytes", "cardinality", "conversations", "counters", "top_ports",
     "top_ips", "top_ips_ports", "top_tos", "top_geo", "top_interfaces"}

FlowFilterChoices ==
    {{}, {"only_ips"}, {"only_ports"}, {"only_device_interfaces"}, {"disable_in"},
     {"disable_out"}, {"disable_in", "disable_out"}, {"geoloc_notfound"}, {"asn_notfound"},
     {"disable_in", "only_device_interfaces"}}

FlowConfigs ==
    [groups : GroupChoices(FlowGroups), filters : {{}}, dbs : {{}, {"geo", "asn"}}]
    \cup [groups : {FlowGroups}, filters : FlowFilterChoices, dbs : {{"geo", "asn"}}]

\* listed: what of the flow the filters' lists name; found: both addresses are
\* in the databases; src, dst: the port and the address are not zero.
FlowEventRecords ==
    [l3 : {"IPv4", "IPv6"}, l4 : {"UDP", "TCP", "OtherL4"}, deep : BOOLEAN,
     src : {{}, {"ip"}, {"ip", "port"}}, dst : {{}, {"ip"}, {"ip", "port"}},
     listed : SUBSET {"device", "ip", "port", "in", "out"}, found : BOOLEAN]

FlowRelevant ==
    [only_ips |-> {"ip"}, only_ports |-> {"port"}, disable_in |-> {}, disable_out |-> {},
     only_device_interfaces |-> {"device", "in", "out"}, geoloc_notfound |-> {},
     asn_notfound |-> {}]

FlowEvents(config) ==
    {e \in FlowEventRecords :
        /\ e.listed \subseteq UNION {FlowRelevant[f] : f \in config.filters}
        /\ e.found => config.filters \cap {"geoloc_notfound", "asn_notfound"} # {}
        /\ ~e.deep => e.src = {} /\ e.dst = {}
        /\ config.filters # {} => e.src = {} /\ e.dst = {} /\ e.l4 = "UDP"}

\* _filtering, tests in order.  An IPv6 flow that the list of IPv6 subnets
\* lets through is tested against the list of IPv4 subnets next, with the
\* IPv4 addresses it does not have.
FlowOnlyIps(e) == e.l3 = "IPv6" \/ "ip" \notin e.listed

FlowInterfaces(config, e) ==
    {side \in {"in", "out"} :
        "only_device_interfaces" \in config.filters => side \in e.listed}

FlowKept(config, e) ==
    {side \in FlowInterfaces(config, e) :
        (IF side = "in" THEN "disable_in" ELSE "disable_out") \notin config.filters}

FlowFiltering(config, e) ==
    \/ "only_ips" \in config.filters /\ FlowOnlyIps(e)
    \/ "only_ports" \in config.filters /\ "port" \notin e.listed
    \/ FlowInterfaces(config, e) = {}
    \/ {"disable_in", "disable_out"} \subseteq config.filters
    \/ "geoloc_notfound" \in config.filters /\ "geo" \in config.dbs /\ e.found
    \/ "asn_notfound" \in config.filters /\ "asn" \in config.dbs /\ e.found

\* The sending device is not one the filter names: the whole packet is
\* filtered, whether or not the counters are enabled.
FlowDeviceFiltered(config, e) ==
    "only_device_interfaces" \in config.filters /\ "device" \notin e.listed

\* process_interface for one unit ("bytes" or "packets") and one side.
FlowTable == [in |-> [bytes |-> "InBytes", packets |-> "InPackets"],
              out |-> [bytes |-> "OutBytes", packets |-> "OutPackets"]]

FlowSide == [in |-> "In", out |-> "Out"]

FlowUnit ==
    [bytes |-> [geo |-> "topGeoLocBytes", asn |-> "topASNBytes", conv |-> "topConversationsBytes"],
     packets |-> [geo |-> "topGeoLocPackets", asn |-> "topASNPackets",
                  conv |-> "topConversationsPackets"]]

FlowGeoMetrics(config, unit) ==
    InGroup(config, "top_geo",
        {FlowUnit[unit].geo : d \in config.dbs \cap {"geo"}}
        \cup {FlowUnit[unit].asn : d \in config.dbs \cap {"asn"}})

FlowEndpoint(config, at, names) ==
    If("port" \in at, InGroup(config, "top_ports", {names.port}))
    \cup If("ip" \in at, InGroup(config, "top_ips", {names.ip}))
    \cup If({"ip", "port"} \subseteq at, InGroup(config, "top_ips_ports", {names.ipport}))

FlowSrc == [port |-> "topSrcPort", ip |-> "topSrcIP", ipport |-> "topSrcIPPort"]

FlowDst == [port |-> "topDstPort", ip |-> "topDstIP", ipport |-> "topDstIPPort"]

FlowProcessInterface(config, e, side, unit) ==
    {FlowTable[side][unit]} \X
        (InGroup(config, "counters", {"total", e.l3, e.l4})
         \cup If(e.deep,
                 FlowEndpoint(config, e.src, FlowSrc) \cup FlowEndpoint(config, e.dst, FlowDst)
                 \cup InGroup(config, "top_tos", {"topDSCP", "topECN"})))
    \cup If(e.deep,
            {FlowSide[side]} \X
              (InGroup(config, "cardinality",
                    If("ip" \in e.src, {"srcIPCard"}) \cup If("port" \in e.src, {"srcPortCard"})
                    \cup If("ip" \in e.dst, {"dstIPCard"}) \cup If("port" \in e.dst, {"dstPortCard"}))
               \cup If("ip" \in e.src \cup e.dst, FlowGeoMetrics(config, unit))
               \cup If("port" \in e.src /\ "port" \in e.dst,
                       InGroup(config, "conversations",
                           {FlowUnit[unit].conv} \cup InGroup(config, "cardinality", {"conversationsCard"})))))

FlowIfIndex == [in |-> [bytes |-> "topInIfIndexBytes", packets |-> "topInIfIndexPackets"],
                out |-> [bytes |-> "topOutIfIndexBytes", packets |-> "topOutIfIndexPackets"]]

FlowUnits(config) ==
    InGroup(config, "by_bytes", {"bytes"}) \cup InGroup(config, "by_packets", {"packets"})

\* process_sflow_cb and process_netflow_cb, process_flow.
FlowTouched(config, e) ==
    IF FlowDeviceFiltered(config, e) THEN {<<"device", "filtered">>}
    ELSE IF FlowFiltering(config, e) THEN InGroup(config, "counters", {<<"device", "filtered">>})
    ELSE InGroup(config, "counters", {<<"device", "total">>})
         \cup UNION {FlowProcessInterface(config, e, side, unit)
                     \cup If(e.deep, InGroup(config, "top_interfaces", {<<"device", FlowIfIndex[side][unit]>>}))
                       : side \in FlowKept(config, e), unit \in FlowUnits(config)}

\* A filtered event is not sampled anew: it counts with the last decision.
FlowDeep(config, e) == e.deep

FlowDeviceMetrics(config) ==
    {"device"} \X (InGroup(config, "counters", {"total", "filtered"})
                   \cup InGroup(config, "top_interfaces",
                            {FlowIfIndex[side][unit] : side \in {"in", "out"}, unit \in FlowUnits(config)}))

FlowDirectionMetrics(config) ==
    {FlowTable[side][unit] : side \in {"in", "out"}, unit \in FlowUnits(config)} \X
        (InGroup(config, "counters", {"UDP", "TCP", "OtherL4", "IPv4", "IPv6", "total"})
         \cup InGroup(config, "top_ips", {"topSrcIP", "topDstIP"})
         \cup InGroup(config, "top_ports", {"topSrcPort", "topDstPort"})
         \cup InGroup(config, "top_ips_ports", {"topSrcIPPort", "topDstIPPort"})
         \cup InGroup(config, "top_tos", {"topDSCP", "topECN"}))

FlowInterfaceMetrics(config) ==
    {"In", "Out"} \X
        (InGroup(config, "cardinality",
            {"srcIPCard", "dstIPCard", "srcPortCard", "dstPortCard"}
            \cup InGroup(config, "conversations", {"conversationsCard"}))
         \cup UNION {InGroup(config, "top_geo", {FlowUnit[unit].geo, FlowUnit[unit].asn})
                     \cup InGroup(config, "conversations", {FlowUnit[unit].conv}) : unit \in FlowUnits(config)})

FlowCarried(config) ==
    FlowDeviceMetrics(config) \cup FlowInterfaceMetrics(config) \cup FlowDirectionMetrics(config)

FlowJson(config) ==
    FlowDeviceMetrics(config) \cup FlowInterfaceMetrics(config) \cup FlowDirectionMetrics(config)

\* The device-labelled conversation cardinality of these two is told apart
\* from the interface's by its label only, so it is the same metric here.
FlowPrometheus(config) ==
    FlowDeviceMetrics(config) \cup FlowInterfaceMetrics(config) \cup FlowDirectionMetrics(config)

FlowOpenTelemetry(config) ==
    FlowDeviceMetrics(config) \cup FlowInterfaceMetrics(config) \cup FlowDirectionMetrics(config)

\* Every flow is counted or filtered, is of one network and one transport
\* protocol on each interface, and is counted on an interface unless the
\* filters disabled the only side that they list.
FlowBalanced(config, C(_)) ==
    /\ "counters" \in config.groups =>
           C(<<"base", "events">>) = C(<<"device", "total">>) + C(<<"device", "filtered">>)
    /\ \A t \in {FlowTable[side][unit] : side \in {"in", "out"}, unit \in FlowUnits(config)} :
           LET N(name) == C(<<t, name>>)
           IN  /\ N("total") = N("IPv4") + N("IPv6")
               /\ N("total") = N("UDP") + N("TCP") + N("OtherL4")
               /\ N("total") <= C(<<"device", "total">>)
    /\ ("by_bytes" \in config.groups
          /\ ~({"disable_in", "only_device_interfaces"} \subseteq config.filters)) =>
           C(<<"InBytes", "total">>) + C(<<"OutBytes", "total">>) >= C(<<"device", "total">>)

FlowConnected(input) == IF input = "flow" THEN {"sflow", "netflow", "heartbeat"} ELSE {}

FlowDisconnected(input) == {"heartbeat"} \cup If(input = "flow", {"sflow", "netflow"})
=============================================================================
