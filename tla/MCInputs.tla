------------------------------ MODULE MCInputs ------------------------------
(***************************************************************************)
(* How data gets in: the datagrams, frames, messages and replies that the  *)
(* inputs take apart, and what the handlers pair from them.  The parts do  *)
(* not interact: a behaviour picks one at the start, whose variables are   *)
(* the first of v1 .. v15 (or those of DnsTransactions), and leaves the    *)
(* others alone.                                                           *)
(***************************************************************************)
EXTENDS DnsTransactions, Sequences, SequencesExt, MetricGroups

VARIABLES part, v1, v2, v3, v4, v5, v6, v7, v8, v9, v10, v11, v12, v13, v14, v15

\* Two ports of one device; a layout without fields, with one of length 0 alone
\* and beside another, with two, and in IPFIX one of variable length.
Senders == {<<"l1", "a", "p1", 0>>, <<"l1", "a", "p2", 0>>}

Layouts(version) ==
    {<<>>, <<0>>, <<0, 1>>, <<2, 1>>} \cup If(version = 10, {<<65535, 1>>})

Parsers(Datagrams) == INSTANCE FlowParsers
    WITH Ids <- {256}, Sizes <- {0, 1, 3}, MaxSets <- 2,
         Base <- 2, Targets <- {1, 2, 4}, Widths <- {1, 2, 4, 8},
         version <- v1, templates <- v2, options <- v3, job <- v4, result <- v5,
         announced <- v6, due <- v7,
         target <- v1, field <- v2, member <- v3,
         datagram <- v1, pos <- v2, s <- v3, elements <- v4, status <- v5

\* Sampled sFlow datagrams.  A packet header is a plain IPv4 or IPv6 one with up
\* to two fields changed; a datagram has one or two samples, and may announce
\* another number of them or be cut short.
PlainHeader ==
    [protocol |-> "ethernet", bytes |-> 64, tags |-> 0, link |-> "plain", ether |-> 4,
     nibble |-> 4, quads |-> 5, fragment |-> FALSE, known |-> TRUE, extensions |-> 0]

HeaderFields ==
    [protocol |-> {"ethernet", "ipv4", "ipv6", "wifi", "undecoded", "undefined"},
     bytes |-> {10, 19, 33, 34, 42, 46, 54, 62, 64}, tags |-> 0..2,
     link |-> {"plain", "snap", "8022", "ipx", "vendor", "other"}, ether |-> {4, 6, 0},
     nibble |-> {4, 6}, quads |-> {4, 5, 6}, fragment |-> BOOLEAN, known |-> BOOLEAN,
     extensions |-> {0, 8}]

Headers ==
    UNION {Vary(HeaderFields, h) : h \in Vary(HeaderFields, PlainHeader)
                                     \cup {[PlainHeader EXCEPT !.ether = 6, !.nibble = 6]}}

WithHeader(version, h) ==
    [tag |-> "header", header |-> h, length |-> (IF version > 4 THEN 16 ELSE 12) + h.bytes]

Tagged(tag, length) == [tag |-> tag, header |-> PlainHeader, length |-> length]

Elements5 ==
    {WithHeader(5, PlainHeader), Tagged("ethernet", 24), Tagged("ipv4", 32),
     Tagged("ipv6", 56), Tagged("skip", 5), Tagged("ipv4", 28)}

\* A sample whose length is right; version 4 has none.
Sample(version, type, elements, expanded) ==
    LET sample == [type |-> type, expanded |-> expanded, extended |-> FALSE,
                   elements |-> elements, length |-> 0]
    IN  IF version < 5 THEN sample
        ELSE [sample EXCEPT !.length = Parsers({})!Body(version, sample)]

Flow(version, elements) == Sample(version, "flow", elements, FALSE)

Counters(version, elements) == Sample(version, "counters", elements, FALSE)

Other == [type |-> "other", expanded |-> FALSE, extended |-> FALSE, elements |-> <<>>, length |-> 3]

Samples4 ==
    {Flow(4, <<WithHeader(4, h)>>) : h \in {PlainHeader, [PlainHeader EXCEPT !.protocol = "undefined"]}}
    \cup {Flow(4, <<e>>) : e \in {Tagged("ipv4", 32), Tagged("ipv6", 56), Tagged("skip", 4)}}
    \cup {[Flow(4, <<Tagged("ipv4", 32)>>) EXCEPT !.extended = TRUE]}
    \cup {Counters(4, <<Tagged(t, 88)>>) : t \in {"generic", "vlan", "skip"}}
    \cup {Other}

Samples5 ==
    {Flow(5, <<WithHeader(5, h)>>) : h \in Headers}
    \cup {Sample(5, "flow", es, x) : es \in {<<>>} \cup {<<e>> : e \in Elements5}
                                            \cup (Elements5 \X Elements5), x \in BOOLEAN}
    \cup {[Flow(5, <<>>) EXCEPT !.length = 9]}
    \cup {Sample(5, "counters", <<Tagged("generic", n)>>, x) : n \in {88, 84}, x \in BOOLEAN}
    \cup {Counters(5, <<Tagged("skip", 9)>>), Other}

Firsts(version) ==
    {Flow(version, <<WithHeader(version, PlainHeader)>>), Counters(version, <<Tagged("generic", 88)>>)}

Datagram(version, agent, declared, samples, cut) ==
    [version |-> version, agent |-> agent, declared |-> declared, samples |-> samples, cut |-> cut]

SflowDatagrams ==
    {Datagram(3, 4, 1, <<Other>>, 0)}
    \cup {Datagram(4, 4, 2, <<f, x>>, 0) : f \in Firsts(4), x \in Samples4}
    \cup {Datagram(5, 4, 2, <<f, x>>, 0) : f \in Firsts(5), x \in Samples5}
    \cup {Datagram(v, a, n, <<f>>, c) : v \in {2, 4, 5}, a \in {4, 6}, n \in 0..2, c \in 0..4,
                                        f \in Firsts(4) \cup Firsts(5)}
    \cup {Datagram(5, a, n, <<f, f>>, c) : a \in {4, 6}, n \in 0..3, c \in 0..40, f \in Firsts(5)}

-----------------------------------------------------------------------------
\* Labels "A", "BA" and "C"; under "A" the list has "A.A" and "BA.C.A".
Listed(tld) == IF tld = <<65>> THEN <<<<65, 46, 65>>, <<66, 65, 46, 67, 46, 65>>>> ELSE <<>>

Messages == INSTANCE DnsMessage
    WITH MaxCount <- 2, Limit <- 6, Names <- {"n", "m"}, MaxNodes <- 4, Ordered <- TRUE,
         built <- v1, count <- v2, wire <- v3, nodes <- v4, head <- v5, first <- v6,
         parsed <- v7, forced <- v8,
         Labels <- {<<65>>, <<66, 65>>, <<67>>}, MaxLabels <- 5, Tlds <- {<<65>>, <<66, 65>>},
         Depth <- 2, task <- v1, input <- v2, output <- v3

\* Two messages and one; and a message too short to be a query between two.
Sessions == INSTANCE TcpSessions
    WITH Base <- 4, MinQuery <- 2, MaxConns <- 2, Mark <- <<1, 2>>,
         Scripts <- {<<<<<<1, 0>>, <<0, 1, 3>>>>, <<<<1, 1>>>>>>,
                     <<<<<<1, 1>>, <<2>>, <<1, 1>>>>, <<>>>>},
         kind <- v1, watched <- v2, listening <- v3, conn <- v4, script <- v5, sent <- v6,
         tracked <- v7, session <- v8, conns <- v9,
         Keys <- {"a", "b", "c"}, Limit <- 2, Timeout <- 1, MaxCleanups <- 1, MaxTime <- 2,
         flows <- v1, buffered <- v2, lastSeen <- v3, list <- v4, overflow <- v5, now <- v6,
         cleaned <- v7, untracked <- v8, strayed <- v9

\* Content types of no, one, two and too many cells, with those of integers.
Queue == INSTANCE FrameQueue
    WITH QueueSize <- 4, OutputSize <- 2, MaxEntries <- 5,
         data <- v1, head <- v2, tail <- v3, ppc <- v4, ptail <- v5, next <- v6, cpc <- v7,
         chead <- v8, entry <- v9, outq <- v10, opened <- v11, shuttingDown <- v12,
         accepted <- v13, written <- v14, freed <- v15,
         FrameMax <- 10, TypeMax <- 2, MaxTypes <- 2,
         ContentTypes <- {<<>>, <<1>>, <<0, 1>>, <<1, 1, 1>>},
         control <- v1, header <- v2, wire <- v3, damaged <- v4, got <- v5, pc <- v6

Probes == INSTANCE NetProbeInput
    WITH pconfig <- v1, state <- v2, cause <- v3, loop <- v4, built <- v5,
         Intervals <- {3, 4}, Packets <- 1..4, Gaps <- 0..2, Byte <- 4, MaxTime <- 9,
         config <- v1, now <- v2, timers <- v3, armed <- v4, current <- v5, counter <- v6,
         tsent <- v7, short <- v8, late <- v9, stopped <- v10,
         Probes <- {1, 2}, Streams <- {1, 2}, PerTest <- 1, SeqRange <- 2, MaxSent <- 2,
         MaxBatch <- 1, MaxShifts <- 1,
         streamOf <- v1, sent <- v2, net <- v3, batch <- v4, published <- v5, woken <- v6,
         inbox <- v7, open <- v8, attempts <- v9, answered <- v10, shifts <- v11, credit <- v12

\* The second handler is on another capture and filters by response code.
ProxyOf(h) == IF h = "h2" THEN "c2" ELSE "c1"

FilterChoices(h) ==
    IF h = "h2" THEN {[only_rcode |-> "0", only_qname |-> "none"]}
    ELSE [only_rcode : {"none", "0"}, only_qname : {"none", "n"}]

\* The header lines of a transfer with redirects, in order, and the assertions.
HeaderLines ==
    {<<"status", "good", "fresh">>, <<"status", "bad", "status", "good">>,
     <<"status", "good", "status">>, <<"status", "other", "other", "bad">>,
     <<"status", "other", "other", "good">>,
     <<"status", "other", "fresh", "other", "status", "bad">>,
     <<"status", "other", "other", "other", "status", "fresh">>}

Assertions ==
    {"wanted", "json", "forbidden", "min", "max", "noBadHeader", "goodHeader", "fresh", "version"}

\* Every shape of a name of up to two letters and dots, and some with capitals
\* and at the limits.
Verdicts == INSTANCE ProbeVerdicts
    WITH Names <- SeqOf({"a", "."}, 2)
                  \cup {<<"A", ".", "a">>, <<"a", "a", "a">>, <<"a", ".", ".">>,
                        <<"a", ".", "A", "a">>, <<"a", ".", "A", "a", ".">>,
                        <<"a", "a", ".", "a", "a">>, <<"a", "a", "a", ".", "a">>},
         NameMax <- 4, LabelMax <- 2, Expiries <- {0, 5, 7}, MaxOpen <- 2,
         qname <- v1, method <- v2, state <- v3, get <- v4, open <- v5, cache <- v6,
         response <- v7, result <- v8, known <- v9,
         AtMost <- 2, HeaderCap <- 2, config <- v1, page <- v2, verdict <- v3

\* Handlers with up to two settings; messages that differ from a plain query or
\* response in one respect, or in the direction and another, or have none.
FilterSettings ==
    [exclude |-> {TRUE},
     only_rcode |-> {{<<"c3">>}, {<<"nxdomain", "c0">>}, {<<"NXDOMAIN", "c3">>}, {<<>>}, {<<"c99">>}, {<<"bogus">>}},
     only_xact_directions |-> {{{"in"}}, {{"out", "unknown"}}, {{}}, {{"bogus"}}},
     answer_count |-> {{0}, {1}}, dnssec |-> {TRUE},
     only_qtype |-> {{<<"t28">>}, {<<"aaaa", "t1">>}, {<<"c99">>}},
     only_qname |-> {{{<<"B", ".", "a">>}}, {{<<"b", ".", "A">>, <<"b", ".", "a">>}}, {{}}},
     only_qname_suffix |-> {{<<<<"b">>, <<".", "A">>>>}},
     notfound |-> {{"geo"}, {"geo", "asn"}}, databases |-> {FALSE},
     public_suffix_list |-> {TRUE}, only_queries |-> {TRUE}, only_responses |-> {TRUE}]

FilterConfigs ==
    LET plain == {[version |-> v, exclude |-> FALSE, only_rcode |-> {}, only_xact_directions |-> {},
                   answer_count |-> {}, dnssec |-> FALSE, only_qtype |-> {}, only_qname |-> {},
                   only_qname_suffix |-> {}, notfound |-> {}, databases |-> TRUE,
                   public_suffix_list |-> FALSE, only_queries |-> FALSE, only_responses |-> FALSE] :
                     v \in {1, 2}}
        known(c) == IF c.version = 1 THEN c.only_xact_directions = {}
                    ELSE ~c.only_queries /\ ~c.only_responses
        varied(S) == UNION {Vary(FilterSettings, c) : c \in S}
    IN  {c \in varied(varied(plain)) : known(c)}

FilterMessages ==
    LET query == [response |-> FALSE, dir |-> "toHost", whole |-> TRUE, qtype |-> 1,
                  qname |-> <<"b", ".", "a">>, rcode |-> 0, answers |-> 0, signed |-> FALSE,
                  subnet |-> {{}}, tcp |-> FALSE]
        response == [query EXCEPT !.response = TRUE, !.dir = "fromHost", !.answers = 1, !.signed = TRUE,
                                  !.subnet = {}]
        turned(m, dirs) == {[m EXCEPT !.dir = d] : d \in dirs}
        known == {"toHost", "fromHost"}
        fields == [whole |-> {TRUE, FALSE}, tcp |-> {TRUE}, qtype |-> {28}, rcode |-> {3}, answers |-> {0, 1, 2},
                   signed |-> {FALSE}, subnet |-> {{}, {{"geo"}}, {{"asn"}}},
                   qname |-> {<<"B", ".", "A">>, <<"a">>, <<"a", "b">>}]
    IN  UNION {Vary(fields, m) : m \in turned(query, known) \cup turned(response, known)}
        \cup turned(query, {"unknown"}) \cup turned(response, {"unknown"})

Filters == INSTANCE DnsFilters
    WITH Configs <- FilterConfigs, Arrivals <- FilterMessages, PublicSuffix <- <<".", "a">>,
         config <- v1, state <- v2, f <- v3, suffix <- v4, open <- v5, last <- v6,
         Captures <- {"c1", "c2"}, Starters <- {"s1"}, Handlers <- {"h1", "h2"}, Flows <- {1},
         MaxPackets <- 2, MaxStamp <- 2,
         filters <- v1, up <- v2, owner <- v3, cache <- v4, packet <- v5, todo <- v6,
         pc <- v7, got <- v8, arrived <- v9, stale <- v10

-----------------------------------------------------------------------------
\* The variables of the bank that a part with k variables leaves.
Rest3 == <<v4, v5, v6, v7, v8, v9, v10, v11, v12, v13, v14, v15>>
Rest5 == <<v6, v7, v8, v9, v10, v11, v12, v13, v14, v15>>
Rest6 == <<v7, v8, v9, v10, v11, v12, v13, v14, v15>>
Rest7 == <<v8, v9, v10, v11, v12, v13, v14, v15>>
Rest8 == <<v9, v10, v11, v12, v13, v14, v15>>
Rest9 == <<v10, v11, v12, v13, v14, v15>>
Rest10 == <<v11, v12, v13, v14, v15>>
Rest12 == <<v13, v14, v15>>

bank == <<v1, v2, v3, v4, v5, v6, v7, v8, v9, v10, v11, v12, v13, v14, v15>>
dnsVars == <<now, lastShift, open, metrics, asked, seen>>
allVars == <<part, bank, dnsVars>>

\* The variables that a part does not use keep one value.
Unused12 == v13 = 0 /\ v14 = 0 /\ v15 = 0
Unused10 == v11 = 0 /\ v12 = 0 /\ Unused12
Unused9 == v10 = 0 /\ Unused10
Unused8 == v9 = 0 /\ Unused9
Unused7 == v8 = 0 /\ Unused8
Unused6 == v7 = 0 /\ Unused7
Unused5 == v6 = 0 /\ Unused6
Unused3 == v4 = 0 /\ v5 = 0 /\ Unused5
Unused0 == v1 = 0 /\ v2 = 0 /\ v3 = 0 /\ Unused3

PartInit ==
    /\ Init
    /\ \/ part = "transactions" /\ Unused0
       \/ part = "templates" /\ Parsers({})!TemplatesInit /\ Unused7
       \/ part = "fields" /\ Parsers({})!FieldsInit /\ Unused3
       \/ part = "sflow" /\ Parsers(SflowDatagrams)!SflowInit /\ Unused5
       \/ part = "messages" /\ Messages!MessageInit /\ Unused8
       \/ part = "names" /\ Messages!NamesInit /\ Unused3
       \/ part = "connections" /\ Sessions!ConnectionsInit /\ Unused9
       \/ part = "sessions" /\ Sessions!SessionsInit /\ Unused9
       \/ part = "layers" /\ Filters!LayersInit /\ Unused10
       \/ part = "queue" /\ Queue!QueueInit
       \/ part = "controls" /\ Queue!ControlInit /\ Unused6
       \/ part = "filters" /\ Filters!FiltersInit /\ Unused6
       \/ part = "queries" /\ Verdicts!DohInit /\ Unused9
       \/ part = "probes" /\ Probes!ProbeInit /\ Unused5
       \/ part = "timers" /\ Probes!TestInit /\ Unused10
       \/ part = "replies" /\ Probes!RepliesInit /\ Unused12
       \/ part = "verdicts" /\ Verdicts!HttpInit /\ Unused3

PartNext ==
    \/ part = "transactions" /\ Next /\ UNCHANGED <<part, bank>>
    \/ part = "templates" /\ Parsers({})!TemplatesNext /\ UNCHANGED <<part, Rest7, dnsVars>>
    \/ part = "fields" /\ Parsers({})!FieldsNext /\ UNCHANGED <<part, Rest3, dnsVars>>
    \/ part = "sflow" /\ Parsers(SflowDatagrams)!SflowNext /\ UNCHANGED <<part, Rest5, dnsVars>>
    \/ part = "messages" /\ Messages!MessageNext /\ UNCHANGED <<part, Rest8, dnsVars>>
    \/ part = "names" /\ Messages!NamesNext /\ UNCHANGED <<part, Rest3, dnsVars>>
    \/ part = "connections" /\ Sessions!ConnectionsNext /\ UNCHANGED <<part, Rest9, dnsVars>>
    \/ part = "sessions" /\ Sessions!SessionsNext /\ UNCHANGED <<part, Rest9, dnsVars>>
    \/ part = "layers" /\ Filters!LayersNext /\ UNCHANGED <<part, Rest10, dnsVars>>
    \/ part = "queue" /\ Queue!QueueNext /\ UNCHANGED <<part, dnsVars>>
    \/ part = "controls" /\ Queue!ControlNext /\ UNCHANGED <<part, Rest6, dnsVars>>
    \/ part = "filters" /\ Filters!FiltersNext /\ UNCHANGED <<part, Rest6, dnsVars>>
    \/ part = "queries" /\ Verdicts!DohNext /\ UNCHANGED <<part, Rest9, dnsVars>>
    \/ part = "probes" /\ Probes!ProbeNext /\ UNCHANGED <<part, Rest5, dnsVars>>
    \/ part = "timers" /\ Probes!TestNext /\ UNCHANGED <<part, Rest10, dnsVars>>
    \/ part = "replies" /\ Probes!RepliesNext /\ UNCHANGED <<part, Rest12, dnsVars>>
    \/ part = "verdicts" /\ Verdicts!HttpNext /\ UNCHANGED <<part, Rest3, dnsVars>>

PartSpec == PartInit /\ [][PartNext]_allVars

-----------------------------------------------------------------------------
(***************************************************************************)
(* What a flow exporter sent is what is read: a record goes by the last    *)
(* template its own sender announced whole, every record of a flowset is   *)
(* handed on with the values sent, for fixed-length fields of the widths   *)
(* be_copy converts, the process is only ended by records of length 0, and *)
(* an sFlow datagram is taken whole or refused, each sample for itself,    *)
(* with the network header found behind the tags and lengths it has.       *)
(***************************************************************************)
FlowsReadAsSent ==
    /\ part = "templates" => /\ Parsers({})!LastAnnouncementRules
                             /\ Parsers({})!EndsOnlyAtZeroLength
                             /\ Parsers({})!DeliversWhatWasSent
    /\ part = "fields" => Parsers({})!FieldKeepsValue
    /\ part = "sflow" => /\ Parsers({})!DatagramIsWhole
                         /\ Parsers({})!SamplesIndependent
                         /\ Parsers({})!HeaderFoundInPlace


(***************************************************************************)
(* Streams lose nothing on the way: bytes of a TCP connection go into its  *)
(* messages once and in order, and a message is handed on when its last    *)
(* byte is there; handlers and captures keep track of open connections and *)
(* of those only, and the walk over a capture's overflow stays inside its  *)
(* vector; a frame queued by a producer is written in its order and freed  *)
(* once.                                                                   *)
(***************************************************************************)
StreamsAreWhole ==
    /\ part = "sessions" => /\ Sessions!BytesConserved
                            /\ Sessions!MessagesHandedOn
                            /\ Sessions!TrackedAreOpen
    /\ part = "connections" => /\ Sessions!OpenAreTracked
                               /\ Sessions!OverflowWalkedInPlace
                               /\ Sessions!IdleAreClosed
    /\ part = "queue" => Queue!FreedOnce /\ Queue!WrittenInOrder

(***************************************************************************)
(* A DNS handler counts the packets its filters ask for, the query as well *)
(* as its response, and cuts names by the suffix of their own message.  It *)
(* counts each once; but version 1 counts a UDP packet once for every      *)
(* value of only_rcode and only_qname that it matches, so one that matches *)
(* both filters twice, and takes a query for NOERROR over TCP and by name. *)
(* A packet is judged by the message of another one only when the two      *)
(* share flow and stamp, or captures share the predicate.                  *)
(***************************************************************************)
CountedAsFiltered ==
    /\ part = "filters" => /\ Filters!CountedIsAsked
                           /\ Filters!AskedIsCounted
                           /\ Filters!CountedPerText
                           /\ Filters!SuffixIsOwn
    /\ part = "layers" => Filters!StaleHasCause /\ Filters!CountedPerFilter

(***************************************************************************)
(* What the probes report is true: an input runs only with settings its    *)
(* probes can run with; a ping test sends the packets configured, and a    *)
(* request is counted for its own reply; a check of an HTTP or DNS answer  *)
(* passes or fails for what the answer is, and is left open only when it   *)
(* cannot be decided.                                                      *)
(***************************************************************************)
ProbesTellTruth ==
    /\ part = "probes" => Probes!RunningIsRunnable /\ Probes!LoopLeftByKnownCauses
    /\ part = "timers" => /\ Probes!NoExtraPackets
                          /\ Probes!TestsComplete
                          /\ Probes!StopClosesTimers
    /\ part = "replies" => Probes!AnsweredWithinAttempts /\ Probes!CreditIsReal
    /\ part = "queries" => /\ Verdicts!HonestAnswerPasses
                           /\ Verdicts!SuccessAnswersTheName
                           /\ Verdicts!SamplesCarryExpiry
                           /\ Verdicts!GetCarriesQuery
    /\ part = "verdicts" => /\ Verdicts!PassIsTrue
                            /\ Verdicts!FailHasCause
                            /\ Verdicts!UncheckedIsUndecidable
=============================================================================
