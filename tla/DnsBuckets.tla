----------------------------- MODULE DnsBuckets -----------------------------
(***************************************************************************)
(* The two versions of the DNS handler.  The names of version 2 end in 2   *)
(* where version 1 has them too.                                           *)
(***************************************************************************)
EXTENDS MetricGroups

-----------------------------------------------------------------------------
(***************************************************************************)
(* The DNS handler, version 1: every DNS message is counted, and with the  *)
(* transactions group a response is paired with its query.  (For a dnstap  *)
(* event that is not sampled, or carries no message, process_dnstap takes  *)
(* the bucket's mutex and calls process_dns_layer, which takes it again:   *)
(* what follows is undefined.  The dnstap events here are the others.)     *)
(***************************************************************************)
Groups ==
    {"cardinality", "counters", "quantiles", "histograms", "dns_transactions",
     "top_ecs", "top_qnames", "top_qnames_details", "top_ports"}

Configs == [groups : GroupChoices(Groups), dbs : {{}, {"geo", "asn"}}]

Rcodes == {"NoError", "SrvFail", "NXDomain", "Refused", "other"}

\* l4 "doh", "dot": a dnstap message's; parsed: parseResources succeeds and
\* there is a query record; deeper: the name has a third label; ecs: a query
\* with a client subnet; xact: what maybe_end_transaction says of a response
\* and the direction of the packet.
Fields ==
    [filtered |-> BOOLEAN, qr |-> {"query", "response"}, rcode |-> Rcodes, answers |-> BOOLEAN,
     l3 |-> {"ipv4", "ipv6"}, l4 |-> {"udp", "tcp", "dot", "doh", "unknown"},
     deep |-> BOOLEAN, parsed |-> BOOLEAN, deeper |-> BOOLEAN, ecs |-> BOOLEAN,
     xact |-> {"none", "in", "out", "unknown", "timed_out"}, slow |-> BOOLEAN]

Query ==
    [filtered |-> FALSE, qr |-> "query", rcode |-> "NoError", answers |-> FALSE,
     l3 |-> "ipv4", l4 |-> "udp", deep |-> TRUE, parsed |-> TRUE, deeper |-> FALSE,
     ecs |-> FALSE, xact |-> "none", slow |-> FALSE]

Response == [Query EXCEPT !.qr = "response", !.answers = TRUE, !.xact = "in"]

\* A query has no response code, answers or transaction, and only a parsed
\* message has names or a client subnet.
Events ==
    {e \in UNION {Vary(Fields, f) : f \in Vary(Fields, Query) \cup Vary(Fields, Response)} :
        /\ e.qr = "query" => e.rcode = "NoError" /\ ~e.answers /\ e.xact = "none"
        /\ e.qr = "response" => ~e.ecs
        /\ (e.deeper \/ e.ecs) => e.parsed
        /\ e.slow => e.xact \in {"in", "out"}}

ProcessFiltered(config) == InGroup(config, "counters", All({"filtered"}))

L4 == [udp |-> {"UDP"}, tcp |-> {"TCP"}, dot |-> {"DOT"}, doh |-> {"DOH"}, unknown |-> {}]

RcodeCounter ==
    [NoError |-> {"RNOERROR"}, SrvFail |-> {"SRVFAIL"}, NXDomain |-> {"NX"},
     Refused |-> {"REFUSED"}, other |-> {}]

\* process_dns_layer, up to its early return.
Layer(config, e) ==
    All({"rate_total"}) \cup
    InGroup(config, "counters",
        All({"total", IF e.l3 = "ipv6" THEN "IPv6" ELSE "IPv4"} \cup L4[e.l4]
            \cup (IF e.qr = "query" THEN {"queries"}
                  ELSE {"replies"} \cup RcodeCounter[e.rcode]
                       \cup If(e.rcode = "NoError" /\ ~e.answers, {"NODATA"}))))

\* The names table of a response's code, and the aggregated names.
Names(config, e) ==
    LET details == "top_qnames_details" \in config.groups
    IN  If(e.qr = "response",
            (CASE e.rcode = "SrvFail" -> {"topSRVFAIL"}
               [] e.rcode = "NXDomain" -> {"topNX"}
               [] e.rcode = "Refused" -> {"topREFUSED"}
               [] e.rcode = "NoError" -> If(details, {"topNOERROR"})
                                         \cup If(~e.answers, {"topNODATA"})
               [] OTHER -> {})
            \cup If(details, {"topSizedQnameResp"}))
        \cup {"topQname2"} \cup If(e.deeper, {"topQname3"})

Ecs(config) ==
    All({"topQueryECS"} \cup If("geo" \in config.dbs, {"topGeoLocECS"})
        \cup If("asn" \in config.dbs, {"topASNECS"}))
    \cup InGroup(config, "counters", All({"queryECS"}))

\* process_dns_layer, the deep part.
DeepLayer(config, e) ==
    InGroup(config, "top_ports", All({"topUDPPort"}))
    \cup If(e.parsed,
            All({"topQType"} \cup If(e.qr = "response", {"topRCode"}))
            \cup InGroup(config, "cardinality", All({"qnameCard"}))
            \cup InGroup(config, "top_qnames", All(Names(config, e)))
            \cup If(e.ecs, InGroup(config, "top_ecs", Ecs(config))))

\* new_dns_transaction: a response to the host answers a query sent out.
Transaction(config, e) ==
    IF e.xact = "timed_out" THEN All({"xacts_timed_out"})
    ELSE All({"xacts_total"}
             \cup (CASE e.xact = "out" -> {"xacts_out"}
                     [] e.xact = "in" -> {"xacts_in"}
                     [] OTHER -> {})
             \cup If(e.deep, {"xactRatio"})
             \cup If(e.deep /\ e.xact = "out", InGroup(config, "quantiles", {"xactFromTimeUs"})
                                               \cup InGroup(config, "histograms", {"xactFromHist"}))
             \cup If(e.deep /\ e.xact = "in", InGroup(config, "quantiles", {"xactToTimeUs"})
                                              \cup InGroup(config, "histograms", {"xactToHist"}))
             \cup If(e.deep /\ e.slow, {IF e.xact = "out" THEN "slowXactOut" ELSE "slowXactIn"}))

\* process_dns_layer of the manager.
Touched(config, e) ==
    IF e.filtered THEN ProcessFiltered(config)
    ELSE Layer(config, e)
         \cup If(e.deep, DeepLayer(config, e))
         \cup If(e.xact # "none", InGroup(config, "dns_transactions", Transaction(config, e)))

\* A filtered event is not sampled anew: it counts with the last decision.
Deep(config, e) == e.deep

Counters ==
    All({"queries", "replies", "UDP", "TCP", "IPv4", "IPv6", "NX", "REFUSED",
         "SRVFAIL", "RNOERROR", "NODATA", "total", "filtered"})

Transactions(config) ==
    All({"xacts_total", "xacts_in", "xacts_out", "xacts_timed_out",
         "slowXactIn", "slowXactOut"}
        \cup InGroup(config, "quantiles", {"xactFromTimeUs", "xactToTimeUs", "xactRatio"})
        \cup InGroup(config, "histograms", {"xactFromHist", "xactToHist"}))

EcsTables(config) ==
    InGroup(config, "counters", All({"queryECS"}))
    \cup All({"topGeoLocECS", "topASNECS", "topQueryECS"})

QnameTables(config) ==
    All({"topQname2", "topQname3", "topNX", "topREFUSED", "topSRVFAIL", "topNODATA"}
        \cup InGroup(config, "top_qnames_details", {"topSizedQnameResp", "topNOERROR"}))

Carried(config) ==
    All({"rate_total"}) \cup InGroup(config, "counters", Counters)
    \cup InGroup(config, "dns_transactions", Transactions(config))
    \cup InGroup(config, "cardinality", All({"qnameCard"}))
    \cup InGroup(config, "top_ecs", EcsTables(config))
    \cup InGroup(config, "top_qnames", QnameTables(config))
    \cup InGroup(config, "top_ports", All({"topUDPPort"}))
    \cup All({"topQType", "topRCode"})

Json(config) ==
    All({"rate_total"}) \cup BaseMetrics \cup InGroup(config, "counters", Counters)
    \cup InGroup(config, "cardinality", All({"qnameCard"}))
    \cup InGroup(config, "dns_transactions", Transactions(config))
    \cup InGroup(config, "top_ports", All({"topUDPPort"}))
    \cup InGroup(config, "top_ecs", EcsTables(config))
    \cup InGroup(config, "top_qnames", QnameTables(config))
    \cup All({"topQType", "topRCode"})

Prometheus(config) ==
    All({"rate_total"}) \cup BaseMetrics \cup InGroup(config, "counters", Counters)
    \cup InGroup(config, "cardinality", All({"qnameCard"}))
    \cup InGroup(config, "dns_transactions", Transactions(config))
    \cup InGroup(config, "top_ports", All({"topUDPPort"}))
    \cup InGroup(config, "top_ecs", EcsTables(config))
    \cup InGroup(config, "top_qnames", QnameTables(config))
    \cup All({"topQType", "topRCode"})

OpenTelemetry(config) ==
    All({"rate_total"}) \cup BaseMetrics \cup InGroup(config, "counters", Counters)
    \cup InGroup(config, "cardinality", All({"qnameCard"}))
    \cup InGroup(config, "dns_transactions", Transactions(config))
    \cup InGroup(config, "top_ports", All({"topUDPPort"}))
    \cup InGroup(config, "top_ecs", EcsTables(config))
    \cup InGroup(config, "top_qnames", QnameTables(config))
    \cup All({"topQType", "topRCode"})

\* Every message is a query or a reply, a reply has at most one counted code,
\* a reply without data is one without error, transactions are replies, and
\* every event is counted or filtered.
Balanced(config, C(_)) ==
    LET N(name) == C(<<"all", name>>)
    IN  /\ N("total") = N("queries") + N("replies")
        /\ N("UDP") + N("TCP") + N("DOT") + N("DOH") <= N("total")
        /\ N("RNOERROR") + N("SRVFAIL") + N("NX") + N("REFUSED") <= N("replies")
        /\ N("NODATA") <= N("RNOERROR")
        /\ N("xacts_in") + N("xacts_out") <= N("xacts_total")
        /\ "counters" \in config.groups =>
               /\ N("xacts_total") + N("xacts_timed_out") <= N("replies")
               /\ C(<<"base", "events">>) = N("total") + N("filtered")

\* predicates: only_rcode or only_qname filters delivered as UDP predicates.
Connected(input, predicates) ==
    CASE input = "pcap" ->
            {"tcp_reassembled", "start_tstamp", "end_tstamp", "tcp_start", "tcp_end",
             "tcp_message", "heartbeat", IF predicates THEN "udp_predicate" ELSE "udp"}
      [] input = "dnstap" -> {"dnstap", "heartbeat"}
      [] OTHER -> {}

\* Mutant of Disconnected: the predicate stays registered.
DisconnectedPlainly(input, predicates) ==
    Connected(input, FALSE) \cup {"heartbeat"}

Disconnected(input, predicates) ==
    {"heartbeat"} \cup
    (CASE input = "pcap" ->
             {"udp", "tcp_reassembled", "start_tstamp", "end_tstamp", "tcp_start",
              "tcp_end", "tcp_message"} \cup If(predicates, {"udp_predicate"})
       [] input = "dnstap" -> {"dnstap"}
       [] OTHER -> {})

-----------------------------------------------------------------------------
(***************************************************************************)
(* The DNS handler, version 2: only transactions are counted, each in the  *)
(* direction of its query.  What a query or a response makes of the open   *)
(* transactions is module DnsTransactions; here a response arrives with    *)
(* what maybe_end_transaction said of it.                                  *)
(***************************************************************************)
Groups2 ==
    {"cardinality", "counters", "quantiles", "top_ecs", "top_qnames", "top_ports",
     "top_qtypes", "top_rcodes", "top_size", "xact_times"}

Configs2 == [groups : GroupChoices(Groups2), dbs : {{}, {"geo", "asn"}}]

Directions == {"in", "out", "unknown"}

Rcodes2 == {"NoError", "SrvFail", "NXDomain", "Refused", "other"}

Outcomes == {"query", "valid", "query_filtered", "timed_out", "orphan", "filtered"}

\* flags: what the headers of query and response had set.
Fields2 ==
    [outcome |-> Outcomes, dir |-> Directions, rcode |-> Rcodes2, answers |-> BOOLEAN,
     l3 |-> {"ipv4", "ipv6"},
     l4 |-> {"UDP", "TCP", "DOT", "DOH", "cryptUDP", "cryptTCP", "DOQ", "unknown"},
     flags |-> {{}, {"checkDisabled"}, {"authAnswer"}, {"authData"}},
     deep |-> BOOLEAN, parsed |-> BOOLEAN, deeper |-> BOOLEAN, ecs |-> BOOLEAN, slow |-> BOOLEAN]

Plain ==
    [outcome |-> "valid", dir |-> "in", rcode |-> "NoError", answers |-> TRUE, l3 |-> "ipv4",
     l4 |-> "UDP", flags |-> {}, deep |-> TRUE, parsed |-> TRUE, deeper |-> FALSE,
     ecs |-> FALSE, slow |-> FALSE]

\* Only a parsed message has names or a client subnet.
Events2 ==
    {e \in UNION {Vary(Fields2, f) : f \in Vary(Fields2, Plain)} :
        (e.deeper \/ e.ecs \/ e.slow) => e.parsed}

L3 == [ipv4 |-> {"IPv4"}, ipv6 |-> {"IPv6"}]

RcodeCounter2 ==
    [NoError |-> {"RNOERROR"}, SrvFail |-> {"SRVFAIL"}, NXDomain |-> {"NX"},
     Refused |-> {"REFUSED"}, other |-> {}]

RcodeTable ==
    [NoError |-> {"topNOERROR"}, SrvFail |-> {"topSRVFAIL"}, NXDomain |-> {"topNX"},
     Refused |-> {"topREFUSED"}, other |-> {}]

\* new_dns_transaction, up to its early return.
Shallow(config, e) ==
    InGroup(config, "counters",
        {"xacts"} \cup L3[e.l3] \cup ({e.l4} \ {"unknown"}) \cup e.flags
        \cup RcodeCounter2[e.rcode] \cup If(e.rcode = "NoError" /\ ~e.answers, {"NODATA"}))
    \cup InGroup(config, "quantiles", {"dnsRate"})

\* The tables of the first query's name.
Names2(config, e) ==
    InGroup(config, "cardinality", {"qnameCard"}) \cup {"topQType"}
    \cup InGroup(config, "top_rcodes",
            RcodeTable[e.rcode] \cup If(e.rcode = "NoError" /\ ~e.answers, {"topNODATA"}))
    \cup InGroup(config, "top_size", {"topSizedQnameResp"})
    \cup If(e.slow, InGroup(config, "xact_times", {"topSlow"}))
    \cup InGroup(config, "top_qnames", {"topQname2"} \cup If(e.deeper, {"topQname3"}))

Ecs2(config) ==
    InGroup(config, "counters", {"ECS"}) \cup {"topQueryECS"}
    \cup If("geo" \in config.dbs, {"topGeoLocECS"}) \cup If("asn" \in config.dbs, {"topASNECS"})

\* new_dns_transaction, the deep part.
DeepPart(config, e) ==
    InGroup(config, "top_size", {"dnsRatio"})
    \cup InGroup(config, "top_ports", {"topUDPPort"})
    \cup InGroup(config, "xact_times", {"dnsTimeUs", "dnsHistTimeUs"})
    \cup If(e.parsed, {"topRCode"} \cup Names2(config, e)
                      \cup If(e.ecs, InGroup(config, "top_ecs", Ecs2(config))))

ProcessFiltered2(config) == InGroup(config, "counters", All({"filtered"}))

\* process_dns_layer and process_filtered of the manager.
Touched2(config, e) ==
    CASE e.outcome = "query" -> {}
      [] e.outcome = "valid" ->
            {e.dir} \X (Shallow(config, e) \cup If(e.deep, DeepPart(config, e)))
      [] e.outcome \in {"query_filtered", "filtered"} -> ProcessFiltered2(config)
      [] e.outcome = "timed_out" -> {<<e.dir, "timeout">>}
      [] e.outcome = "orphan" -> {<<e.dir, "orphan">>}

\* A filtered event is not sampled anew: it counts with the last decision.
Deep2(config, e) == e.deep

Counters2 ==
    {"xacts", "UDP", "TCP", "DOT", "DOH", "cryptUDP", "cryptTCP", "DOQ", "IPv4", "IPv6",
     "NX", "ECS", "REFUSED", "SRVFAIL", "RNOERROR", "NODATA", "authData", "authAnswer",
     "checkDisabled", "timeout", "orphan"}

Carried2(config) ==
    InGroup(config, "counters", All({"filtered"}))
    \cup Directions \X
      (InGroup(config, "quantiles", {"dnsRate"})
       \cup InGroup(config, "counters", Counters2)
       \cup InGroup(config, "cardinality", {"qnameCard"})
       \cup InGroup(config, "top_ecs", {"topGeoLocECS", "topASNECS", "topQueryECS"})
       \cup InGroup(config, "top_rcodes", {"topNX", "topREFUSED", "topSRVFAIL", "topNODATA",
                                           "topNOERROR", "topRCode"})
       \cup InGroup(config, "top_qnames", {"topQname2", "topQname3"})
       \cup InGroup(config, "top_size", {"topSizedQnameResp", "dnsRatio"})
       \cup InGroup(config, "top_ports", {"topUDPPort"})
       \cup InGroup(config, "top_qtypes", {"topQType"})
       \cup InGroup(config, "xact_times", {"dnsTimeUs", "dnsHistTimeUs", "topSlow"}))

Json2(config) ==
    BaseMetrics \cup InGroup(config, "counters", All({"filtered"}))
    \cup Directions \X
      (InGroup(config, "quantiles", {"dnsRate"})
       \cup InGroup(config, "counters", Counters2)
       \cup InGroup(config, "cardinality", {"qnameCard"})
       \cup InGroup(config, "top_ports", {"topUDPPort"})
       \cup InGroup(config, "top_ecs", {"topGeoLocECS", "topASNECS", "topQueryECS"})
       \cup InGroup(config, "top_rcodes", {"topNX", "topREFUSED", "topSRVFAIL", "topNODATA",
                                           "topNOERROR", "topRCode"})
       \cup InGroup(config, "top_qnames", {"topQname2", "topQname3"})
       \cup InGroup(config, "top_size", {"topSizedQnameResp", "dnsRatio"})
       \cup InGroup(config, "top_qtypes", {"topQType"})
       \cup InGroup(config, "xact_times", {"dnsTimeUs", "dnsHistTimeUs", "topSlow"}))

Prometheus2(config) ==
    BaseMetrics \cup InGroup(config, "counters", All({"filtered"}))
    \cup Directions \X
      (InGroup(config, "quantiles", {"dnsRate"})
       \cup InGroup(config, "counters", Counters2)
       \cup InGroup(config, "cardinality", {"qnameCard"})
       \cup InGroup(config, "top_ports", {"topUDPPort"})
       \cup InGroup(config, "top_ecs", {"topGeoLocECS", "topASNECS", "topQueryECS"})
       \cup InGroup(config, "top_rcodes", {"topNX", "topREFUSED", "topSRVFAIL", "topNODATA",
                                           "topNOERROR", "topRCode"})
       \cup InGroup(config, "top_qnames", {"topQname2", "topQname3"})
       \cup InGroup(config, "top_size", {"topSizedQnameResp", "dnsRatio"})
       \cup InGroup(config, "top_qtypes", {"topQType"})
       \cup InGroup(config, "xact_times", {"dnsTimeUs", "dnsHistTimeUs", "topSlow"}))

OpenTelemetry2(config) ==
    BaseMetrics \cup InGroup(config, "counters", All({"filtered"}))
    \cup Directions \X
      (InGroup(config, "quantiles", {"dnsRate"})
       \cup InGroup(config, "counters", Counters2)
       \cup InGroup(config, "cardinality", {"qnameCard"})
       \cup InGroup(config, "top_ports", {"topUDPPort"})
       \cup InGroup(config, "top_ecs", {"topGeoLocECS", "topASNECS", "topQueryECS"})
       \cup InGroup(config, "top_rcodes", {"topNX", "topREFUSED", "topSRVFAIL", "topNODATA",
                                           "topNOERROR", "topRCode"})
       \cup InGroup(config, "top_qnames", {"topQname2", "topQname3"})
       \cup InGroup(config, "top_size", {"topSizedQnameResp", "dnsRatio"})
       \cup InGroup(config, "top_qtypes", {"topQType"})
       \cup InGroup(config, "xact_times", {"dnsTimeUs", "dnsHistTimeUs", "topSlow"}))

\* In each direction a transaction has one network protocol, at most one
\* transport and one counted code; timeouts and orphans are not transactions.
Balanced2(config, C(_)) ==
    \A d \in Directions :
        LET N(name) == C(<<d, name>>)
        IN  /\ N("xacts") = N("IPv4") + N("IPv6")
            /\ N("UDP") + N("TCP") + N("DOT") + N("DOH") + N("cryptUDP")
                 + N("cryptTCP") + N("DOQ") <= N("xacts")
            /\ N("RNOERROR") + N("SRVFAIL") + N("NX") + N("REFUSED") <= N("xacts")
            /\ N("NODATA") <= N("RNOERROR")
            /\ N("xacts") + N("timeout") + N("orphan") <= C(<<"base", "events">>)

Connected2(input) ==
    CASE input = "pcap" ->
            {"udp", "tcp_reassembled", "start_tstamp", "end_tstamp", "tcp_start",
             "tcp_end", "tcp_message", "heartbeat"}
      [] input = "dnstap" -> {"dnstap", "heartbeat"}
      [] OTHER -> {}

Disconnected2(input) ==
    {"heartbeat"} \cup
    (CASE input = "pcap" ->
             {"udp", "tcp_reassembled", "start_tstamp", "end_tstamp", "tcp_start",
              "tcp_end", "tcp_message"}
       [] input = "dnstap" -> {"dnstap"}
       [] OTHER -> {})
=============================================================================
