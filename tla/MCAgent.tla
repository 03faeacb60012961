------------------------------ MODULE MCAgent ------------------------------
(***************************************************************************)
(* How the agent is configured and started, what its sketches hold, and    *)
(* how its answers and pushes are put together.  The parts do not          *)
(* interact: a behaviour picks one at the start, whose variables are the   *)
(* first of v1 .. v14 (or those of FrequentItems or PeriodListing), and    *)
(* leaves the others alone.                                                *)
(***************************************************************************)
EXTENDS FrequentItems, PeriodListing

VARIABLES part, v1, v2, v3, v4, v5, v6, v7, v8, v9, v10, v11, v12, v13, v14

\* Keys in the order of their hashes, and a load factor of one half.
HashesOf == {h \in [Items -> 0..3] : \A i, j \in Items : i < j => h[i] <= h[j]}

CapacityOf(size) == 2^size \div 2

\* Sketches to merge: exact ones, one that purged, one that purged all it had,
\* and one that such a sketch had been merged into.
OtherSketches ==
    {[count |-> <<1, 0, 0, 0>>, offset |-> 0, truth |-> <<1, 0, 0, 0>>, lost |-> 0],
     [count |-> <<0, 1, 1, 0>>, offset |-> 0, truth |-> <<0, 1, 1, 0>>, lost |-> 0],
     [count |-> <<0, 0, 2, 0>>, offset |-> 1, truth |-> <<0, 1, 2, 1>>, lost |-> 0],
     [count |-> <<0, 0, 0, 0>>, offset |-> 1, truth |-> <<1, 1, 0, 1>>, lost |-> 0],
     [count |-> <<0, 0, 0, 1>>, offset |-> 0, truth |-> <<1, 0, 0, 1>>, lost |-> 1]}

Quantiles == INSTANCE QuantileSketch
    WITH Values <- {1, 2}, K <- 3, M <- 2, MaxValues <- 8,
         sketch <- v1, other <- v2, view <- v3, answer <- v4

\* Streams of coupons for a sparse sketch, a windowed one and two whose window
\* has moved.
CouponStreams ==
    {<< <<1, 0>> >>, << <<2, 4>> >>,
     << <<1, 0>>, <<1, 1>>, <<2, 3>> >>,
     << <<1, 0>>, <<1, 1>>, <<2, 1>>, <<2, 2>>, <<1, 3>> >>,
     << <<2, 0>>, <<1, 1>>, <<2, 1>>, <<2, 2>>, <<1, 3>>, <<1, 0>>, <<2, 4>> >>}

Distinct == INSTANCE CardinalitySketch
    WITH Rows <- {1, 2}, Columns <- 5, Width <- 2, SparseEnd <- 2, Low <- 2, Refresh <- 2,
         Streams <- CouponStreams, sketch <- v1, truth <- v2, merges <- v3,
         Items <- {0, 3, 4, 12, 13, 14, 15}, ValidBits <- 4, LgLeast <- 2, MaxItems <- 7,
         slots <- v1, lg <- v2, num <- v3, members <- v4, answer <- v5

Exports == INSTANCE QuantileExports
    WITH Exporters <- {"e1", "e2"}, ShiftReads <- FALSE, Samples <- {1, 2, 3}, MaxSamples <- 4,
         items <- v1, sorted <- v2, views <- v3, current <- v4, closed <- v5, pc <- v6,
         held <- v7, answer <- v8, recorded <- v9

Outputs == INSTANCE PolicyOutputs
    WITH Threads <- {1, 2}, Names <- {"p", "q"}, MaxLoads <- 2,
         registered <- v1, loads <- v2, request <- v3, name <- v4, rpc <- v5, todo <- v6,
         rheld <- v7, written <- v8, early <- v9, stayed <- v10, left <- v11, status <- v12,
         removals <- v13, dangling <- v14,
         Classes <- [schema : {"dns", "net"}, version : {"1.0", "2.0"}],
         MaxHandlers <- 3, NumPeriods <- 3, MaxWindows <- 3,
         class <- v1, closed <- v2, last <- v3, pc <- v4, starts <- v5, at <- v6,
         buckets <- v7, sent <- v8, scopes <- v9,
         PolicyHandlers <- <<[schema |-> "pcap", empty |-> TRUE], [schema |-> "dns", empty |-> FALSE],
                             [schema |-> "packets", empty |-> FALSE]>>,
         AnswerPeriods <- 3, Periods <- {0, 1, 2, 4}, Ttl <- 2, MaxTime <- 3,
         now <- v1, held <- v2, cache <- v3, answer <- v4, routes <- v5

-----------------------------------------------------------------------------
\* Documents: taps with tags and selectors over them, or global handler
\* settings and a policy that uses them.
Value(n) == <<"int", n>>

TagMaps ==
    {<<>>, [a |-> Value(1)], [a |-> <<"str", 1>>], [a |-> Value(1), b |-> Value(1)], [b |-> Value(2)]}

TapNode(name, type, tags) == [name |-> name, input_type |-> type, tags |-> tags]

PlainTap == TapNode("t", "pcap", [a |-> Value(1)])

TapLists ==
    {<<TapNode("t", "pcap", t)>> : t \in TagMaps}
    \cup {<<TapNode("t", "pcap", t), TapNode("u", "pcap", u)>> : t \in TagMaps, u \in TagMaps}
    \cup {<<>>, <<PlainTap, PlainTap>>, <<PlainTap, TapNode("u", "other", <<>>)>>}

Entries == {[key |-> k, value |-> Value(1)] : k \in {"a", "b"}}

Selector(op, entries) == [op |-> op, entries |-> entries]

Selectors ==
    {Selector(op, es) : op \in {"all", "any"},
                        es \in {<<>>} \cup {<<e>> : e \in Entries} \cup (Entries \X Entries)}

Global(type, keys) == [type |-> type, map |-> TRUE, keys |-> keys]

NoMap == [type |-> "net", map |-> FALSE, keys |-> {}]

GlobalLists ==
    {<<>>, <<Global("dns", {"k"})>>, <<Global("other", {}), Global("dns", {"k"})>>,
     <<Global("dns", {"k", "num_periods"}), NoMap>>,
     <<Global("net", {"k"}), Global("dns", {"k"})>>,
     <<Global("dns", {"k"}), Global("dns", {"l"})>>}

NoWindow == [given |-> FALSE, keys |-> {}]

HandlerModules == [type : {"dns", "net", "other"}, keys : SUBSET {"k", "num_periods"}]

Document(taps, globals, selector, window, module) ==
    [taps |-> taps, globals |-> globals, selector |-> selector, window |-> window, module |-> module]

Documents ==
    {Document(t, <<>>, s, NoWindow, [type |-> "dns", keys |-> {}]) : t \in TapLists, s \in Selectors}
    \cup {Document(<<PlainTap>>, g, Selector("any", <<[key |-> "a", value |-> Value(1)]>>), w, m) :
            g \in GlobalLists, w \in {NoWindow, [given |-> TRUE, keys |-> {"num_periods"}]},
            m \in HandlerModules}

OptionGroups ==
    {{"iface", "admin_api", "otel", "otel_interval"}, {"iface", "otel_host", "otel_path", "otel"},
     {"iface", "tls", "tls_key", "tls_cert"},
     {"iface", "otel", "otel_tls", "otel_tls_key", "otel_tls_cert"},
     {"admin_api", "cp_token", "cp_url", "cp_path", "cp_disable"},
     {"iface", "geo_city", "default_geo_city", "log_file", "daemon"},
     {"admin_api", "iana", "default_service_registry", "module_list"}}

Programs == INSTANCE Commands
    WITH Groups <- OptionGroups, Intervals <- {0, 5, 30, 31},
         args <- v1, file <- v2, config <- v3, interval <- v4, options <- v5, pc <- v6,
         cause <- v7, running <- v8, every <- v9,
         Periods <- {0, 1, 2, 5, 10, 11}, MaxPackets <- 2,
         input <- v1, periods <- v2, rpc <- v3, handlers <- v4, read <- v5, stopped <- v6,
         shutdown <- v7, written <- v8, status <- v9,
         Defaults <- {"num_periods", "deep_sample_rate"},
         doc <- v1, single <- v2, dpc <- v3, at <- v4, taps <- v5, globals <- v6,
         selected <- v7, handlerConfig <- v8

-----------------------------------------------------------------------------
\* Databases with two addresses that read alike and one that they do not have.
GeoEntry(a) ==
    CASE a = <<1, 12>> -> {"continent", "iso", "latitude", "number"}
      [] a = <<11, 2>> -> {"country", "city", "number", "organization"}
      [] OTHER -> {}

GeoAddresses ==
    [v4 |-> {<<1, 12>>, <<11, 2>>}, v6 |-> {<<1, 12>>, <<11, 2>>},
     text |-> {<<3, 4>>}, sockaddr |-> {<<1, 12>>}]

Databases == INSTANCE GeoLookup
    WITH Threads <- {1, 2}, Addresses <- GeoAddresses, Entry <- GeoEntry, CacheSizes <- {0, 2},
         type <- v1, open <- v2, size <- v3, list <- v4, index <- v5, cached <- v6,
         enabled <- v7, pc <- v8, call <- v9, answer <- v10

-----------------------------------------------------------------------------
\* Flow handlers with device maps, or with subnets, wildcards and AS options.
Net(family, prefix, bits) == [family |-> family, fault |-> "none", prefix |-> prefix, addr |-> bits]

AllZero == <<0, 0, 0, 0>>

SubnetLists ==
    {<<>>, <<Net(4, 2, <<1, 0, 0, 0>>), Net(6, 3, AllZero)>>,
     <<Net(4, 0, AllZero), Net(6, 1, <<1, 0, 0, 0>>)>>,
     <<Net(4, 1, AllZero), Net(6, 4, AllZero)>>, <<Net(4, 3, AllZero), Net(4, 2, AllZero)>>,
     <<Net(6, 2, AllZero), Net(4, 1, <<1, 0, 1, 0>>), Net(4, 3, <<1, 1, 1, 0>>)>>}

ExcludeLists == {<<>>, <<Net(4, 3, <<1, 0, 1, 0>>), Net(6, 1, <<1, 0, 0, 0>>)>>}

Device(form) == [key |-> [form |-> form, id |-> 1], named |-> TRUE, interfaces |-> "named"]

DeviceMaps ==
    {{Device("v4"), Device("mapped")}, {Device("mapped"), Device("hexmapped"), Device("v6")},
     {Device("v4"), Device("hexmapped"), Device("mapped")}, {Device("invalid")},
     {[Device("v4") EXCEPT !.named = FALSE]},
     {Device("v6"), [Device("v4") EXCEPT !.interfaces = "none"]},
     {[Device("mapped") EXCEPT !.interfaces = "unnamed"]}}

PlainFlows ==
    [devices |-> {}, enrichment |-> TRUE, byAsn |-> FALSE, excludeUnknown |-> FALSE,
     excludeAsns |-> {}, subnets |-> <<>>, exclude |-> <<>>]

FlowConfigs ==
    {[PlainFlows EXCEPT !.devices = d, !.enrichment = e] : d \in DeviceMaps, e \in BOOLEAN}
    \cup {[PlainFlows EXCEPT !.byAsn = a, !.excludeUnknown = u, !.excludeAsns = x,
                             !.subnets = s, !.exclude = e] :
            a \in BOOLEAN, u \in BOOLEAN, x \in {{}, {1}}, s \in SubnetLists, e \in ExcludeLists}

FlowAddresses ==
    {[family |-> f, bits |-> b] :
        f \in {4, 6}, b \in {<<0, 0, 0, 1>>, <<1, 0, 1, 0>>, <<1, 0, 1, 1>>, <<1, 1, 1, 1>>}}

FlowAsn(a) ==
    CASE a.bits = <<1, 0, 1, 0>> -> [number |-> 1, organization |-> TRUE]
      [] a.bits = <<1, 0, 1, 1>> -> [number |-> 1, organization |-> FALSE]
      [] a.bits = <<1, 1, 1, 1>> -> [number |-> 2, organization |-> TRUE]
      [] OTHER -> [number |-> 0, organization |-> FALSE]

FlowNames == INSTANCE FlowSettings
    WITH ByteBits <- 2, Bits <- 4, Configs <- FlowConfigs, Flows <- FlowAddresses, Asn <- FlowAsn,
         CacheSize <- 1, config <- v1, state <- v2, enrich <- v3, summary <- v4,
         asnEnabled <- v5, cache <- v6, address <- v7, name <- v8,
         MaxHosts <- 1,
         spec <- v1, hosts4 <- v2, hosts6 <- v3, parse <- v4, packet <- v5, direction <- v6

-----------------------------------------------------------------------------
\* Label values of backslashes, digits, quotes, newlines and bytes that are, or
\* are not, UTF-8; and bytes at the edges of the UTF-8 table.
UpTo(S, n) == UNION {[1..k -> S] : k \in 0..n}

LabelValues == UpTo({92, 48, 57, 50, 34, 10, 194, 128, 255}, 4) \cup UpTo({92, 48, 50, 255}, 5)

LeadBytes ==
    {65, 127, 128, 191, 192, 193, 194, 223, 224, 225, 236, 237, 238, 239, 240, 241, 243, 244, 245,
     247, 248}

Written == INSTANCE MetricOutputs
    WITH Items <- [name : {"a", ""}, place : {"", "x"}], Estimates <- {1, 2}, TopCounts <- {0, 1, 3},
         Percentiles <- {0, 50, 100}, Formats <- {"json", "prometheus", "otel"},
         estimate <- v1, settings <- v2, items <- v3, format <- v4, at <- v5, labels <- v6, rows <- v7,
         Values <- LabelValues,
         Quads <- LeadBytes \X {65, 127, 128, 143, 144, 159, 160, 191, 192} \X {65, 128, 191}
                     \X {65, 128, 191},
         task <- v1, input <- v2, rendered <- v3, escaped <- v4,
         Bases <- {"a", "b"}, Types <- {"gauge", "counter"}, Helps <- {"h", "i"},
         Static <- <<"s", "t">>, LabelMaps <- {<<"a">>, [k \in {2, 3} |-> "b"]}, MaxWrites <- 3,
         order <- v1, families <- v2, out <- v3, written <- v4

-----------------------------------------------------------------------------
\* The variables of the bank that a part with k variables leaves.
Rest3 == <<v4, v5, v6, v7, v8, v9, v10, v11, v12, v13, v14>>
Rest4 == <<v5, v6, v7, v8, v9, v10, v11, v12, v13, v14>>
Rest5 == <<v6, v7, v8, v9, v10, v11, v12, v13, v14>>
Rest6 == <<v7, v8, v9, v10, v11, v12, v13, v14>>
Rest7 == <<v8, v9, v10, v11, v12, v13, v14>>
Rest8 == <<v9, v10, v11, v12, v13, v14>>
Rest9 == <<v10, v11, v12, v13, v14>>
Rest10 == <<v11, v12, v13, v14>>

bank == <<v1, v2, v3, v4, v5, v6, v7, v8, v9, v10, v11, v12, v13, v14>>
allVars == <<part, bank, vars, listingVars>>

\* The variables that a part does not use keep one value.
Unused10 == v11 = 0 /\ v12 = 0 /\ v13 = 0 /\ v14 = 0
Unused9 == v10 = 0 /\ Unused10
Unused8 == v9 = 0 /\ Unused9
Unused7 == v8 = 0 /\ Unused8
Unused6 == v7 = 0 /\ Unused7
Unused5 == v6 = 0 /\ Unused6
Unused4 == v5 = 0 /\ Unused5
Unused3 == v4 = 0 /\ Unused4
Unused0 == v1 = 0 /\ v2 = 0 /\ v3 = 0 /\ Unused3

ItemsIdle == Init /\ hash = [i \in Items |-> 0]

PartInit ==
    /\ ListingInit
    /\ \/ part = "items" /\ Init /\ Unused0
       \/ part = "quantiles" /\ ItemsIdle /\ Quantiles!Init /\ Unused4
       \/ part = "coupons" /\ ItemsIdle /\ Distinct!CouponsInit /\ Unused5
       \/ part = "distinct" /\ ItemsIdle /\ Distinct!SketchInit /\ Unused3
       \/ part = "exports" /\ ItemsIdle /\ Exports!Init /\ Unused9
       \/ part = "tables" /\ ItemsIdle /\ Written!RowsInit /\ Unused7
       \/ part = "daemon" /\ ItemsIdle /\ Programs!StartupInit /\ Unused9
       \/ part = "summary" /\ ItemsIdle /\ Programs!ReaderInit /\ Unused9
       \/ part = "routes" /\ ItemsIdle /\ Outputs!RoutesInit
       \/ part = "push" /\ ItemsIdle /\ Outputs!PushInit /\ Unused9
       \/ part = "settings" /\ ItemsIdle /\ Programs!DocumentInit /\ Unused8
       \/ part = "databases" /\ ItemsIdle /\ Databases!Init /\ Unused10
       \/ part = "flows" /\ ItemsIdle /\ FlowNames!FlowsInit /\ Unused8
       \/ part = "answers" /\ ItemsIdle /\ Outputs!AnswersInit /\ Unused5
       \/ part = "listing" /\ ItemsIdle /\ Unused0
       \/ part = "hosts" /\ ItemsIdle /\ FlowNames!HostsInit /\ Unused6
       \/ part = "texts" /\ ItemsIdle /\ Written!TextInit /\ Unused4
       \/ part = "families" /\ ItemsIdle /\ Written!FamiliesInit /\ Unused4

PartNext ==
    \/ part = "items" /\ Next /\ UNCHANGED <<part, bank, listingVars>>
    \/ part = "quantiles" /\ Quantiles!Next /\ UNCHANGED <<part, Rest4, vars, listingVars>>
    \/ part = "coupons" /\ Distinct!CouponsNext /\ UNCHANGED <<part, Rest5, vars, listingVars>>
    \/ part = "distinct" /\ Distinct!SketchNext /\ UNCHANGED <<part, Rest3, vars, listingVars>>
    \/ part = "exports" /\ Exports!Next /\ UNCHANGED <<part, Rest9, vars, listingVars>>
    \/ part = "tables" /\ Written!RowsNext /\ UNCHANGED <<part, Rest7, vars, listingVars>>
    \/ part = "daemon" /\ Programs!StartupNext /\ UNCHANGED <<part, Rest9, vars, listingVars>>
    \/ part = "summary" /\ Programs!ReaderNext /\ UNCHANGED <<part, Rest9, vars, listingVars>>
    \/ part = "routes" /\ Outputs!RoutesNext /\ UNCHANGED <<part, vars, listingVars>>
    \/ part = "push" /\ Outputs!PushNext /\ UNCHANGED <<part, Rest9, vars, listingVars>>
    \/ part = "settings" /\ Programs!DocumentNext /\ UNCHANGED <<part, Rest8, vars, listingVars>>
    \/ part = "databases" /\ Databases!Next /\ UNCHANGED <<part, Rest10, vars, listingVars>>
    \/ part = "flows" /\ FlowNames!FlowsNext /\ UNCHANGED <<part, Rest8, vars, listingVars>>
    \/ part = "answers" /\ Outputs!AnswersNext /\ UNCHANGED <<part, Rest5, vars, listingVars>>
    \/ part = "listing" /\ ListingNext /\ UNCHANGED <<part, bank, vars>>
    \/ part = "hosts" /\ FlowNames!HostsNext /\ UNCHANGED <<part, Rest6, vars, listingVars>>
    \/ part = "texts" /\ Written!TextNext /\ UNCHANGED <<part, Rest4, vars, listingVars>>
    \/ part = "families" /\ Written!FamiliesNext /\ UNCHANGED <<part, Rest4, vars, listingVars>>

PartSpec == PartInit /\ [][PartNext]_allVars

-----------------------------------------------------------------------------
(***************************************************************************)
(* What a sketch answers is within what it saw: keys of a top-N table are  *)
(* found by probing and its bounds enclose the real counts, but for what   *)
(* sketches merged when they were empty had purged; ranks and              *)
(* quantiles are off by no more than the compactions allow, and exports    *)
(* one at a time lose no sample; a cardinality sketch holds exactly the    *)
(* coupons it saw, in each of its forms and after merges, and the chance   *)
(* its estimate works with is that of the coupons unseen.  None of them    *)
(* meets a state that its own checks reject.                               *)
(***************************************************************************)
SketchesSound ==
    /\ part = "items" => ProbingFinds /\ BoundsEnclose
    /\ part = "quantiles" => /\ Quantiles!NeverInconsistent
                             /\ Quantiles!RanksWithinError
                             /\ Quantiles!QuantilesWithinError
    /\ part = "exports" => Exports!ExportsKeepSamples
    /\ part = "coupons" => Distinct!TableIsSet
    /\ part = "distinct" => /\ Distinct!CouponsKept
                            /\ Distinct!ChecksHold
                            /\ Distinct!ChanceTracked

(***************************************************************************)
(* What is written is what was counted: a table shows its largest items,   *)
(* each row with the labels of its own item (not so in OpenTelemetry,      *)
(* whose rows keep labels of the item before); a label's value is valid    *)
(* UTF-8 that reads back to its bytes; a family of the Prometheus text is  *)
(* one block, and no label is twice in a series.                           *)
(***************************************************************************)
WrittenAsCounted ==
    /\ part = "tables" => /\ v4 # "otel" => Written!RowsDescribeOneItem
                          /\ Written!LargestAreShown
    /\ part = "texts" => /\ Written!ValuesStayApart
                         /\ Written!TextReadsBack
                         /\ Written!LengthIsUnicode
    /\ part = "families" => Written!OneBlockPerFamily /\ Written!LabelsOnce

(***************************************************************************)
(* Answers and pushes are whole: a scrape has every policy that was there  *)
(* all along, or fails for a removal, and a policy that two requests       *)
(* delete is destroyed once; a merged window is pushed at most once and    *)
(* none older is left out, with each class of handlers in its own bucket;  *)
(* what a route says of a handler was read for that request, and documents *)
(* of handlers stay apart as long as one kind of route is asked.  A        *)
(* database answers for the address asked, cached or not, and is read only *)
(* while it is open.                                                       *)
(***************************************************************************)
AnswersAreWhole ==
    /\ part = "routes" => Outputs!ScrapesAreWhole /\ Outputs!RemovedOnce
    /\ part = "push" => Outputs!SentExactly /\ Outputs!LikeIsMerged
    /\ part = "answers" => /\ Outputs!OwnWindowIsFresh
                           /\ Outputs!DocumentsStayApart
                           /\ Outputs!LegacyDocumentIsWhole
    /\ part = "databases" => /\ Databases!CacheIsOne
                             /\ Databases!AnswerIsOfAddress
                             /\ Databases!ReadWhenOpen

(***************************************************************************)
(* Settings take effect as they were given: the daemon serves what its     *)
(* options and its file ask for and ends by itself only for a cause, the   *)
(* reader succeeds only with every handler's window written; a policy gets *)
(* the taps its selector matches, is refused only for a fault, and its     *)
(* handlers get their own keys first.  The direction of a packet is the    *)
(* side the host subnets are on; a flow's address goes by a subnet that it *)
(* is in, by its AS or by itself, and only names given before the AS       *)
(* database was enabled are stale.                                         *)
(***************************************************************************)
SettingsTakeEffect ==
    /\ part = "daemon" => Programs!ServesAsAsked /\ Programs!EndsForCause
    /\ part = "summary" => Programs!SuccessIsWhole
    /\ part = "settings" => /\ Programs!SelectedAsTagged
                            /\ Programs!RefusedForCause
                            /\ Programs!HandlerGetsItsKeys
    /\ part = "hosts" => FlowNames!DirectionIsHostSide
    /\ part = "flows" => /\ FlowNames!DevicesAreFound
                         /\ FlowNames!NameCoversAddress
                         /\ FlowNames!ExcludedGoByThemselves
                         /\ FlowNames!StaleNamesAreEarly
=============================================================================
