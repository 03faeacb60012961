----------------------------- MODULE DnsFilters -----------------------------
(***************************************************************************)
(* Which DNS messages a handler counts: its filters, and the message kept  *)
(* for the handlers of one packet.  The sections are specified apart.      *)
(***************************************************************************)
EXTENDS Sequences, SequencesExt, FiniteSets, Integers

-----------------------------------------------------------------------------
(***************************************************************************)
(* The filters of the DNS handlers, from the texts of the configuration to *)
(* the messages that are counted.  Version 2 filters queries and responses *)
(* by different rules and counts pairs, so it follows filtered queries too;*)
(* version 1 holds every rule against every message that reaches it, and   *)
(* one with only_rcode or only_qname is reached over UDP only by predicate *)
(* signals, one for every value that is listed.  There is one flow and one *)
(* transaction id, in version 2 over UDP; what TCP does differently there  *)
(* and when transactions end by time is in DnsTransactions; how predicates *)
(* share parsed messages follows below.  An optional setting is the set of *)
(* its values: empty, or with one member.                                  *)
(***************************************************************************)
CONSTANTS
    Configs,        \* the configurations of interest
    Arrivals,       \* the messages of interest
    PublicSuffix    \* an entry of the public suffix list

VARIABLES
    config,     \* as written
    state,      \* "new", "refused" or "running"
    f,          \* _f_enabled, _f_rcodes, _f_qtypes, _f_qnames, ...
    suffix,     \* _static_suffix_size
    open,       \* the transaction of each direction: whether it is filtered, and
                \* (ghost) whether its query is asked for
    last        \* what became of the last message

filterVars == <<config, state, f, suffix, open, last>>

Letters == [A |-> "a", B |-> "b"]
Lower(name) == [i \in 1..Len(name) |-> IF name[i] \in DOMAIN Letters THEN Letters[name[i]] ELSE name[i]]

-----------------------------------------------------------------------------
(* start: numbers and names of codes, in capitals or not. *)
Digits == [c0 |-> 0, c3 |-> 3, c99 |-> 99, t1 |-> 1, t28 |-> 28]
ToUpper == [nxdomain |-> "NXDOMAIN", NXDOMAIN |-> "NXDOMAIN", aaaa |-> "AAAA", AAAA |-> "AAAA",
            bogus |-> "BOGUS"]
RCodeNumbers == [NOERROR |-> 0, NXDOMAIN |-> 3]
QTypeNumbers == [A |-> 1, AAAA |-> 28]

ValuesOf(table) == {table[n] : n \in DOMAIN table}

\* The numbers that a text stands for: none when it is refused.
Codes(text, table) ==
    IF text \in DOMAIN Digits
    THEN {Digits[text]} \cap ValuesOf(table)
    ELSE {table[n] : n \in {ToUpper[text]} \cap DOMAIN table}

CodesOf(list, table) == UNION {Codes(t, table) : t \in ToSet(list)}

ListOk(list, table) == \A t \in ToSet(list) : Codes(t, table) # {}

\* only_rcode, unless exclude_noerror is set; an empty list leaves want_code at 0.
RcodesOk(c) == c.exclude \/ \A list \in c.only_rcode : ListOk(list, RCodeNumbers)

Rcodes(c) ==
    {IF list = <<>> THEN {0} ELSE CodesOf(list, RCodeNumbers) : list \in c.only_rcode}

DirectionsOk(c) == \A dirs \in c.only_xact_directions : dirs \subseteq {"in", "out", "unknown"}

\* Mutant of Disabled: in and out are exchanged.
DisabledCrossed(c) ==
    LET other == [in |-> "out", out |-> "in", unknown |-> "unknown"]
    IN  UNION {DOMAIN other \ {other[d] : d \in dirs \cap DOMAIN other} : dirs \in c.only_xact_directions}

Disabled(c) == UNION {{"in", "out", "unknown"} \ dirs : dirs \in c.only_xact_directions}

QtypesOk(c) == \A list \in c.only_qtype : ListOk(list, QTypeNumbers)

\* _register_predicate_filter of version 1: a connection under the jump key of
\* each value listed; an empty only_rcode registers want_code.
Connections(c) ==
    (IF c.exclude THEN {}
     ELSE UNION {IF list = <<>> THEN {<<"only_rcode", 0, 1>>}
                 ELSE UNION {{<<"only_rcode", code, i>> : code \in Codes(list[i], RCodeNumbers)} :
                                i \in DOMAIN list} : list \in c.only_rcode})
    \cup {<<"only_qname", Lower(n), n>> : n \in UNION c.only_qname}

Compiled(c) ==
    [excluding |-> c.exclude,
     rcodes |-> IF c.exclude THEN {} ELSE Rcodes(c),
     disabled |-> Disabled(c),
     qtypes |-> {CodesOf(list, QTypeNumbers) : list \in c.only_qtype},
     connections |-> Connections(c),
     qnames |-> {{Lower(n) : n \in names} : names \in c.only_qname},
     suffixes |-> {[i \in 1..Len(list) |-> Lower(list[i])] : list \in c.only_qname_suffix}]

NoFilters ==
    [excluding |-> FALSE, rcodes |-> {}, connections |-> {}, disabled |-> {}, qtypes |-> {}, qnames |-> {}, suffixes |-> {}]

Nothing == [what |-> "none", asked |-> FALSE, own |-> TRUE, lenient |-> FALSE, times |-> 0, texts |-> 0]

FiltersInit ==
    /\ config \in Configs
    /\ state = "new" /\ suffix = 0 /\ last = Nothing
    /\ f = NoFilters
    /\ open = [d \in {"in", "out", "unknown"} |-> {}]

Start ==
    /\ state = "new"
    /\ IF RcodesOk(config) /\ DirectionsOk(config) /\ QtypesOk(config)
       THEN state' = "running" /\ f' = Compiled(config)
       ELSE state' = "refused" /\ UNCHANGED f
    /\ UNCHANGED <<config, suffix, open, last>>

-----------------------------------------------------------------------------
(* _filtering: what each filter drops. *)
ByExclusion(m) == f.excluding /\ m.rcode = 0

ByRcode(m) == \E codes \in f.rcodes : m.rcode \notin codes

ByAnswerCount(m) == \E n \in config.answer_count : m.answers # n

BySignature(m) == config.dnssec /\ ~(m.answers > 0 /\ m.whole /\ m.signed)

ByQtype(m) == \E types \in f.qtypes : ~m.whole \/ m.qtype \notin types

\* geoloc_notfound and asn_notfound: those with a subnet that the database has.
ByDatabase(m) ==
    \E db \in config.notfound :
        \/ ~config.databases
        \/ ~m.whole
        \/ m.subnet = {}
        \/ \E found \in m.subnet : db \in found

ByQname(m) == \E names \in f.qnames : ~m.whole \/ Lower(m.qname) \notin names

BySuffix(m) == \E list \in f.suffixes : ~m.whole \/ \A i \in 1..Len(list) : ~IsSuffix(list[i], Lower(m.qname))

\* The size that a name which passes leaves in _static_suffix_size.
SuffixSize(m) ==
    LET list == CHOOSE l \in f.suffixes : TRUE
    IN  Len(list[SelectInSeq(list, LAMBDA s : IsSuffix(s, Lower(m.qname)))])

\* Of a message that gets as far as that filter.
SuffixLeft(m) == IF f.suffixes # {} /\ ~BySuffix(m) THEN SuffixSize(m) ELSE suffix

\* The directions that packets of a transaction have.
QueryDirection == [toHost |-> "in", fromHost |-> "out", unknown |-> "unknown"]
ResponseDirection == [toHost |-> "out", fromHost |-> "in", unknown |-> "unknown"]

Direction(m) == IF m.response THEN ResponseDirection[m.dir] ELSE QueryDirection[m.dir]

\* Version 2.
ResponseFiltered(m) ==
    \/ Direction(m) \in f.disabled
    \/ ByExclusion(m)
    \/ ByRcode(m)
    \/ ByAnswerCount(m)
    \/ BySignature(m)
    \/ ByQtype(m)

QueryFiltered(m) ==
    \/ Direction(m) \in f.disabled
    \/ ByDatabase(m)
    \/ ByQname(m)
    \/ BySuffix(m)

\* Version 1: those before only_qname_suffix, and those after it.  The filter
\* whose predicate called is not tested again.
EarlyFiltered(m, by) ==
    \/ ByExclusion(m)
    \/ by # "only_rcode" /\ ByRcode(m)
    \/ ByAnswerCount(m)
    \/ config.only_queries /\ m.response
    \/ config.only_responses /\ ~m.response
    \/ config.dnssec /\ ~m.response
    \/ BySignature(m)
    \/ ByQtype(m)
    \/ by # "only_qname" /\ ByQname(m)

LateFiltered(m) == (config.notfound # {} /\ m.response) \/ ByDatabase(m)

\* _configs, and the size that process_dns_layer gets.
Handed(m, left) ==
    IF config.public_suffix_list /\ f.suffixes = {} /\ m.whole
    THEN IF IsSuffix(PublicSuffix, Lower(m.qname)) THEN Len(PublicSuffix) ELSE 0
    ELSE left

-----------------------------------------------------------------------------
(* What the configuration asks for, of the texts as they are written. *)
SameName(a, b) == Lower(a) = Lower(b)

EndsWith(name, end) == \E i \in 1..Len(name) + 1 : SameName(SubSeq(name, i, Len(name)), end)

Means(text, code, table) ==
    \/ text \in DOMAIN Digits /\ Digits[text] = code
    \/ \E n \in DOMAIN table : text \in DOMAIN ToUpper /\ ToUpper[text] = n /\ table[n] = code

RcodeListed(m) ==
    /\ config.exclude => m.rcode # 0
    /\ ~config.exclude => \A list \in config.only_rcode :
           IF list = <<>> THEN m.rcode = 0 ELSE \E t \in ToSet(list) : Means(t, m.rcode, RCodeNumbers)

\* only_rcode asks for responses; the header of a query has a code too.
RcodeAsked(m) == RcodeListed(m) /\ (~config.exclude /\ config.only_rcode # {} => m.response)

AnswersAsked(m) ==
    /\ \A n \in config.answer_count : m.answers = n
    /\ config.dnssec => m.response /\ m.answers > 0 /\ m.whole /\ m.signed
    /\ \A list \in config.only_qtype : m.whole /\ \E t \in ToSet(list) : Means(t, m.qtype, QTypeNumbers)

NameAsked(m) ==
    /\ \A names \in config.only_qname : m.whole /\ \E n \in names : SameName(m.qname, n)
    /\ \A list \in config.only_qname_suffix : m.whole /\ \E s \in ToSet(list) : EndsWith(m.qname, s)

SubnetAsked(m) ==
    config.notfound # {} =>
        config.databases /\ m.whole /\ ~m.response /\ \E found \in m.subnet : config.notfound \cap found = {}

DirectionAsked(m) == \A dirs \in config.only_xact_directions : Direction(m) \in dirs

OthersAsked1(m) ==
    /\ AnswersAsked(m) /\ NameAsked(m) /\ SubnetAsked(m)
    /\ config.only_queries => ~m.response
    /\ config.only_responses => m.response

Asked(m) ==
    IF config.version = 2
    THEN /\ DirectionAsked(m)
         /\ IF m.response THEN RcodeAsked(m) /\ AnswersAsked(m) ELSE NameAsked(m) /\ SubnetAsked(m)
    ELSE RcodeAsked(m) /\ OthersAsked1(m)

\* A query that a handler with only_rcode gets over TCP, or by its name, and
\* whose header has a code that is listed.
Lenient(m) ==
    /\ ~m.response /\ (m.tcp \/ config.only_qname # {})
    /\ RcodeListed(m) /\ OthersAsked1(m)

\* The listed values that mean a message that comes over UDP; an empty list
\* stands for NOERROR.
TextsMeaning(m) ==
    LET rcodes == UNION {IF list = <<>> THEN {0} \cap {m.rcode}
                         ELSE {i \in DOMAIN list : Means(list[i], m.rcode, RCodeNumbers)} :
                            list \in config.only_rcode}
        names == {n \in UNION config.only_qname : SameName(n, m.qname)}
    IN  IF m.tcp THEN 0
        ELSE (IF m.response /\ ~config.exclude THEN Cardinality(rcodes) ELSE 0)
             + (IF m.whole THEN Cardinality(names) ELSE 0)

\* The size is that of an end of the name which the configuration lists.
Own(m, size) ==
    size # 0 => \E end \in UNION {ToSet(list) : list \in config.only_qname_suffix} \cup {PublicSuffix} :
                    Len(end) = size /\ EndsWith(m.qname, end)

-----------------------------------------------------------------------------
(* process_udp_packet_cb and tcp_message_ready_cb *)
\* Mutant of Calls: the handler is connected to udp_signal as well.
CallsBesides(m) ==
    {<<"plain">>} \cup {c \in f.connections : IF c[1] = "only_rcode" THEN m.response /\ c[2] = m.rcode
                                              ELSE m.whole /\ c[2] = Lower(m.qname)}

\* Who calls the handler with a message: udp_signal or a TCP stream, or the
\* connections under the message's jump keys; a query has no key of its rcode.
Calls(m) ==
    IF m.tcp \/ f.connections = {} THEN {<<"plain">>}
    ELSE {c \in f.connections : IF c[1] = "only_rcode" THEN m.response /\ c[2] = m.rcode
                                ELSE m.whole /\ c[2] = Lower(m.qname)}

\* Version 1: process_filtered counts, process_dns_layer counts the message,
\* in each of the calls.
Message1(m) ==
    /\ state = "running" /\ config.version = 1
    /\ LET calls == Calls(m)
           left == IF \A c \in calls : EarlyFiltered(m, c[1]) THEN suffix ELSE SuffixLeft(m)
           passed == {c \in calls : ~(EarlyFiltered(m, c[1]) \/ BySuffix(m) \/ LateFiltered(m))}
       IN  /\ suffix' = IF passed # {} THEN 0 ELSE left
           /\ last' = [what |-> CASE calls = {} -> "unseen"
                                  [] calls # {} /\ passed = {} -> "filtered"
                                  [] OTHER -> "counted",
                       asked |-> Asked(m), lenient |-> Lenient(m),
                       own |-> passed # {} => Own(m, Handed(m, left)),
                       times |-> Cardinality(passed), texts |-> TextsMeaning(m)]
    /\ UNCHANGED <<config, state, f, open>>

\* Mutant of Opened: a query that is filtered is like another.
OpenedPlain(filtered, asked) == {[filtered |-> FALSE, asked |-> asked]}

\* start_transaction
Opened(filtered, asked) == {[filtered |-> filtered, asked |-> asked]}

\* Mutant of Reset: the size stays.
ResetNot(size) == size

\* The size is used up.
Reset(size) == 0

Query2(m) ==
    /\ state = "running" /\ config.version = 2 /\ ~m.tcp /\ ~m.response
    /\ LET filtered == QueryFiltered(m)
           left == SuffixLeft(m)
       IN  /\ open' = [open EXCEPT ![Direction(m)] = Opened(filtered, Asked(m))]
           /\ suffix' = IF filtered THEN suffix ELSE Reset(left)
           /\ last' = [Nothing EXCEPT !.what = "opened", !.own = ~filtered => Own(m, Handed(m, left))]
    /\ UNCHANGED <<config, state, f>>

\* maybe_end_transaction, and what its result is counted as.
Response2(m) ==
    /\ state = "running" /\ config.version = 2 /\ ~m.tcp /\ m.response
    /\ LET filtered == ResponseFiltered(m)
           xact == open[Direction(m)]
       IN  /\ open' = [open EXCEPT ![Direction(m)] = {}]
           /\ suffix' = IF filtered THEN suffix ELSE Reset(suffix)
           /\ last' = [Nothing EXCEPT
                         !.what = CASE filtered -> "filtered"
                                    [] ~filtered /\ xact = {} -> "orphan"
                                    [] ~filtered /\ \E x \in xact : x.filtered -> "filtered"
                                    [] ~filtered /\ \E x \in xact : ~x.filtered -> "counted",
                         !.asked = Asked(m) /\ \E x \in xact : x.asked,
                         !.own = ~filtered => Own(m, Handed(m, suffix)),
                         !.times = 1]
    /\ UNCHANGED <<config, state, f>>

FiltersNext ==
    \/ Start
    \/ \E m \in Arrivals : Message1(m)
    \/ \E m \in Arrivals : Query2(m)
    \/ \E m \in Arrivals : Response2(m)

FiltersSpec == FiltersInit /\ [][FiltersNext]_filterVars

-----------------------------------------------------------------------------
\* What is counted was asked for: in version 2 both the response and the query
\* that it ends, which came earlier and had filters of its own.  Version 1 with
\* only_rcode also counts queries by the code in their header, when they come
\* over TCP or by their name; over UDP they never match it.
CountedIsAsked == last.what = "counted" => last.asked \/ last.lenient

\* What was asked for is counted, however the settings are combined.
AskedIsCounted == last.asked => last.what = "counted"

\* A message is counted once, but version 1 counts one over UDP once for every
\* value of only_rcode and only_qname that means it.
CountedPerText == last.what = "counted" => last.times = Max({1, last.texts})

\* The size that the names of a message are cut by comes from that message,
\* not from an earlier one that left it behind.
SuffixIsOwn == last.own

-----------------------------------------------------------------------------
(***************************************************************************)
(* How a UDP packet reaches the DNS handlers of a capture: the signal of   *)
(* all UDP packets, and the predicates that pick a signal by rcode or by   *)
(* query name (PcapInputEventProxy in PcapInputStream.h, DnsStreamHandler  *)
(* v1).  The parsed message is cached per thread under the flow key and    *)
(* the time stamp of its packet.  A predicate, however, keeps a reference  *)
(* to the cache of the thread that registered it, which is the thread that *)
(* started the handler, and it runs on the capture thread.                 *)
(***************************************************************************)
CONSTANTS Captures,     \* capture threads, each with its own event proxy
          Starters,     \* threads that start handlers
          Handlers,     \* DNS handlers
          ProxyOf(_),   \* the capture whose proxy a handler is connected to
          FilterChoices(_),   \* the filters a handler may be configured with
          Flows,        \* flow keys; a query and its response have the same one
          MaxPackets,
          MaxStamp

VARIABLES filters,      \* only_rcode and only_qname of each handler
          up,           \* started handlers
          owner,        \* per proxy and predicate, the thread whose cache it refers to
          cache,        \* _cached_dns_layer of each thread
          packet,       \* the packet each capture is working on
          todo,         \* predicates still to run for it
          pc,           \* "idle", "look", "build" or "use"
          got,          \* how often each handler counted the packet; -1 before its first
          arrived,      \* packets so far
          stale         \* ghost: packets whose handling used another packet's message

layersVars == <<filters, up, owner, cache, packet, todo, pc, got, arrived, stale>>

Predicates == <<"only_qname", "only_rcode">>      \* in the order of the map
None == "none"
NoMessage == [id |-> 0, flow |-> 0, stamp |-> 0, kind |-> "query", qname |-> None]

\* Mutant of JumpKey: a query has the response code of its header, zero.
JumpKeyOfHeader(p, m) ==
    IF p = "only_qname" THEN m.qname
    ELSE IF m.kind = "query" THEN "0" ELSE m.kind

(* The value a predicate computes from the parsed message. *)
JumpKey(p, m) ==
    IF p = "only_qname" THEN m.qname
    ELSE IF m.kind = "query" THEN "255" ELSE m.kind

(* getDnsHeader()->responseCode: zero in a query. *)
Rcode(m) == IF m.kind = "query" THEN "0" ELSE m.kind

\* Mutant of SameKey: packets of one flow are taken for the same packet.
SameKeyOfFlow(c, m) == c.flow = m.flow

SameKey(c, m) == c.flow = m.flow /\ c.stamp = m.stamp

(* The cache of the capture thread, looked up and filled in one go. *)
Lookup(t, m) == IF SameKey(cache[t], m) THEN cache[t] ELSE [flow |-> m.flow, stamp |-> m.stamp, layer |-> m]

(* _filtering: the filter whose predicate called is not tested again. *)
Filtered(h, by, m) ==
    \/ filters[h].only_rcode # None /\ by # "only_rcode" /\ Rcode(m) # filters[h].only_rcode
    \/ filters[h].only_qname # None /\ by # "only_qname" /\ m.qname # filters[h].only_qname

UsesPredicates(h) == filters[h].only_rcode # None \/ filters[h].only_qname # None

LayersInit ==
    /\ filters \in [Handlers -> [only_rcode : {None, "0"}, only_qname : {None, "n"}]]
    /\ \A h \in Handlers : filters[h] \in FilterChoices(h)
    /\ up = {}
    /\ owner = [c \in Captures |-> [p \in ToSet(Predicates) |-> None]]
    /\ cache = [t \in Captures \cup Starters |-> [flow |-> 0, stamp |-> 0, layer |-> NoMessage]]
    /\ packet = [c \in Captures |-> NoMessage]
    /\ todo = [c \in Captures |-> <<>>]
    /\ pc = [c \in Captures |-> "idle"]
    /\ got = [h \in Handlers |-> -1]
    /\ arrived = 0
    /\ stale = {}

(* start() with _register_predicate_filter and register_udp_predicate_signal:*)
(* the first handler of a proxy to register a predicate installs it.       *)
StartHandler(h, t) ==
    /\ h \notin up
    /\ pc[ProxyOf(h)] = "idle"
    /\ up' = up \cup {h}
    /\ owner' = [owner EXCEPT ![ProxyOf(h)] =
                    [p \in ToSet(Predicates) |-> IF filters[h][p] # None /\ @[p] = None THEN t ELSE @[p]]]
    /\ got' = [got EXCEPT ![h] = -1]
    /\ UNCHANGED <<filters, cache, packet, todo, pc, arrived, stale>>

(* stop() with unregister_udp_predicate_signal; predicates stay installed. *)
StopHandler(h) ==
    /\ h \in up
    /\ pc[ProxyOf(h)] = "idle"
    /\ up' = up \ {h}
    /\ UNCHANGED <<filters, owner, cache, packet, todo, pc, got, arrived, stale>>

On(c) == {h \in up : ProxyOf(h) = c}

(* process_udp_packet_cb of the proxy: the plain signal first. *)
Arrive(c) ==
    /\ pc[c] = "idle"
    /\ arrived < MaxPackets
    /\ arrived' = arrived + 1
    /\ \E flow \in Flows, stamp \in packet[c].stamp..packet[c].stamp + 1,
          kind \in {"query", "0", "3"}, qname \in {"n", "m"} :
        /\ stamp \in 1..MaxStamp
        /\ packet' = [packet EXCEPT ![c] = [id |-> arrived', flow |-> flow, stamp |-> stamp,
                                            kind |-> kind, qname |-> qname]]
    /\ todo' = [todo EXCEPT ![c] = SelectSeq(Predicates, LAMBDA p : owner[c][p] # None)]
    /\ pc' = [pc EXCEPT ![c] = IF todo'[c] = <<>> THEN "idle" ELSE "look"]
    /\ LET plain == {h \in On(c) : ~UsesPredicates(h)}
           before == [h \in Handlers |-> IF ProxyOf(h) = c THEN 0 ELSE got[h]]
           mine == Lookup(c, packet'[c])
       IN /\ cache' = [cache EXCEPT ![c] = IF plain = {} THEN @ ELSE mine]
          /\ got' = [h \in Handlers |-> IF h \in plain THEN 1 ELSE before[h]]
          /\ stale' = IF plain # {} /\ mine.layer # packet'[c] THEN stale \cup {c} ELSE stale \ {c}
    /\ UNCHANGED <<filters, up, owner>>

(* The predicate compares the key of the cache it refers to ... *)
Look(c) ==
    LET t == owner[c][Head(todo[c])] IN
    /\ pc[c] = "look"
    /\ IF SameKey(cache[t], packet[c])
       THEN /\ pc' = [pc EXCEPT ![c] = "use"]
            /\ UNCHANGED cache
       ELSE /\ pc' = [pc EXCEPT ![c] = "build"]
            /\ cache' = [cache EXCEPT ![t].flow = packet[c].flow, ![t].stamp = packet[c].stamp]
    /\ UNCHANGED <<filters, up, owner, packet, todo, got, arrived, stale>>

(* ... parses the packet into it ... *)
Build(c) ==
    LET t == owner[c][Head(todo[c])] IN
    /\ pc[c] = "build"
    /\ cache' = [cache EXCEPT ![t].layer = packet[c]]
    /\ pc' = [pc EXCEPT ![c] = "use"]
    /\ UNCHANGED <<filters, up, owner, packet, todo, got, arrived, stale>>

(* ... and reads the jump key from it; the handlers connected to that key  *)
(* then look the packet up in the cache of the capture thread.             *)
Use(c) ==
    LET p == Head(todo[c])
        layer == cache[owner[c][p]].layer
        hs == {h \in On(c) : filters[h][p] # None /\ filters[h][p] = JumpKey(p, layer)}
        mine == Lookup(c, packet[c])
    IN
    /\ pc[c] = "use"
    /\ todo' = [todo EXCEPT ![c] = Tail(@)]
    /\ pc' = [pc EXCEPT ![c] = IF todo'[c] = <<>> THEN "idle" ELSE "look"]
    /\ cache' = [cache EXCEPT ![c] = IF hs = {} THEN @ ELSE mine]
    /\ got' = [h \in Handlers |-> IF h \in hs /\ ~Filtered(h, p, mine.layer) THEN got[h] + 1 ELSE got[h]]
    /\ stale' = IF layer # packet[c] \/ (hs # {} /\ mine.layer # packet[c]) THEN stale \cup {c} ELSE stale
    /\ UNCHANGED <<filters, up, owner, packet, arrived>>

LayersNext ==
    \/ \E h \in Handlers, t \in Starters : StartHandler(h, t)
    \/ \E h \in Handlers : StopHandler(h)
    \/ \E c \in Captures : Arrive(c) \/ Look(c) \/ Build(c) \/ Use(c)

LayersSpec == LayersInit /\ [][LayersNext]_layersVars

-----------------------------------------------------------------------------
(* A handler judges a packet by another packet's message only when its     *)
(* capture thread just saw a packet of the same flow with the same time    *)
(* stamp, or when the predicate's cache is shared with another capture.    *)
Repeats(c) == \E t \in {c} \cup ({owner[c][p] : p \in ToSet(Predicates)} \ {None}) :
                 /\ cache[t].layer # packet[c]
                 /\ cache[t].layer.flow = packet[c].flow
                 /\ cache[t].layer.stamp = packet[c].stamp
Shares(c) == \E d \in Captures \ {c}, p, q \in ToSet(Predicates) :
                owner[c][p] # None /\ owner[c][p] = owner[d][q]
StaleHasCause == \A c \in stale : Repeats(c) \/ Shares(c)

(* The comment on the predicates says they are installed once per thread:  *)
(* no capture ever judges a packet by the message of another one.          *)
OwnMessageOnly == stale = {}

(* A handler counts a packet that passes its filters once for each filter  *)
(* whose predicate picks it.  So with one filter it counts the packets     *)
(* that match, once each; with both it counts them twice, and a query once *)
(* by its name when only_rcode is 0, the code in a query's header.         *)
Picks(h, p, m) == filters[h][p] = IF p = "only_rcode" THEN m.kind ELSE m.qname
Passes(h, m) ==
    /\ filters[h].only_rcode # None => m.kind = filters[h].only_rcode
                                       \/ (m.kind = "query" /\ filters[h].only_rcode = "0")
    /\ filters[h].only_qname # None => m.qname = filters[h].only_qname
CountedPerFilter ==
    \A h \in up :
        LET c == ProxyOf(h)
            m == packet[c]
        IN  pc[c] = "idle" /\ got[h] >= 0 /\ c \notin stale =>
                got[h] = IF ~UsesPredicates(h) THEN 1
                         ELSE IF Passes(h, m) THEN Cardinality({p \in ToSet(Predicates) : Picks(h, p, m)})
                         ELSE 0
=============================================================================
