---------------------------- MODULE FlowSettings ----------------------------
(***************************************************************************)
(* Subnets, and what the options of captures and flow handlers make of     *)
(* them: the direction of a packet and the names of a flow's addresses.    *)
(* The sections are specified apart.                                       *)
(***************************************************************************)
EXTENDS Integers, Sequences, SequencesExt, FiniteSets

-----------------------------------------------------------------------------
(***************************************************************************)
(* The host subnets of a capture and the direction they give a packet      *)
(* (libs/visor_utils/utils.cpp, PcapInputStream::process_raw_packet and    *)
(* parse_host_spec).  An address is a sequence of bits, most significant   *)
(* first; an IPv6 address is read in bytes of ByteBits bits, as the code   *)
(* compares whole bytes and then the bits that are left.                   *)
(***************************************************************************)
CONSTANTS ByteBits,     \* bits of a byte
          Bits,         \* bits of an address, the same for both families
          MaxHosts      \* entries of a host_spec

VARIABLES spec,         \* the entries of the host_spec option
          hosts4,       \* _hostIPv4
          hosts6,       \* _hostIPv6
          parse,        \* "new", "parsed" or "thrown": how far start() came
          packet,       \* the packet looked at last
          direction     \* _packet_dir_cache after it

hostsVars == <<spec, hosts4, hosts6, parse, packet, direction>>

Addresses == [1..Bits -> 0..1]
Zero == [i \in 1..Bits |-> 0]

(* What an entry can be: no slash, a prefix that is not a number, a number *)
(* out of range, text before the slash that is not an address, or a subnet.*)
Fault == {"slash", "digits", "address", "none"}
Entries == [family : {4, 6}, fault : {"none"}, prefix : 0..Bits + 1,
            addr : {Zero, [Zero EXCEPT ![1] = 1], [i \in 1..Bits |-> i % 2]}]
           \cup [family : {4}, fault : Fault \ {"none"}, prefix : {1}, addr : {Zero}]

(* One turn of the loop of parse_host_specs. *)
BadEntry(e) == e.fault # "none" \/ e.prefix > Bits

(* The entries before the first bad one are in the lists when it throws.   *)
Parsed(family) ==
    LET good == {n \in 0..Len(spec) : \A i \in 1..n : ~BadEntry(spec[i])}
        last == CHOOSE n \in good : \A m \in good : m <= n
    IN SelectSeq(SubSeq(spec, 1, last), LAMBDA e : e.family = family)

(* get_subnet(a ^ n, cidr): the first cidr bits of the difference. *)
SameBits(a, n, from, to) == \A i \in from..to : a[i] = n[i]

(* match_subnet for IPv4: the zero address matches no subnet. *)
Match4(list, a) ==
    /\ a # Zero
    /\ \E i \in DOMAIN list : list[i].prefix = 0 \/ SameBits(a, list[i].addr, 1, list[i].prefix)

\* Mutant of Match6: only whole bytes are compared.
Match6WholeBytes(list, a) ==
    \E i \in DOMAIN list :
        LET compareByteCount == list[i].prefix \div ByteBits
        IN compareByteCount > 0 /\ SameBits(a, list[i].addr, 1, compareByteCount * ByteBits)

(* match_subnet for IPv6: whole bytes first, then the remaining bits. *)
Match6(list, a) ==
    \E i \in DOMAIN list :
        LET compareByteCount == list[i].prefix \div ByteBits
            compareBitCount == list[i].prefix % ByteBits
            whole == compareByteCount > 0 /\ SameBits(a, list[i].addr, 1, compareByteCount * ByteBits)
        IN IF (whole \/ list[i].prefix < ByteBits) /\ compareBitCount > 0
           THEN SameBits(a, list[i].addr, compareByteCount * ByteBits + 1, list[i].prefix)
           ELSE whole

(* The cached direction: the destination is looked at before the source. *)
Direction(p) ==
    LET Match(a) == IF p.family = 4 THEN Match4(hosts4, a) ELSE Match6(hosts6, a)
    IN CASE p.family = 0 -> "unknown"
         [] p.family # 0 /\ Match(p.dst) -> "toHost"
         [] p.family # 0 /\ ~Match(p.dst) /\ Match(p.src) -> "fromHost"
         [] OTHER -> "unknown"

NoPacket == [family |-> 0, dst |-> Zero, src |-> Zero]

HostsInit ==
    /\ spec \in UNION {[1..n -> Entries] : n \in 0..MaxHosts}
    /\ hosts4 = <<>> /\ hosts6 = <<>>
    /\ parse = "new"
    /\ packet = NoPacket
    /\ direction = "unknown"

(* PcapInputStream::parse_host_spec, called by every start(). *)
ParseHostSpec ==
    /\ parse = "new"
    /\ hosts4' = Parsed(4)
    /\ hosts6' = Parsed(6)
    /\ parse' = IF \E i \in DOMAIN spec : BadEntry(spec[i]) THEN "thrown" ELSE "parsed"
    /\ UNCHANGED <<spec, packet, direction>>

(* The part of process_raw_packet that sets _packet_dir_cache. *)
ProcessRawPacket ==
    /\ parse = "parsed"
    /\ \E p \in [family : {4, 6}, dst : Addresses, src : {Zero, [Zero EXCEPT ![1] = 1]}] \cup {NoPacket} :
        /\ packet' = p
        /\ direction' = Direction(p)
    /\ UNCHANGED <<spec, hosts4, hosts6, parse>>

HostsNext == ParseHostSpec \/ ProcessRawPacket

HostsSpec == HostsInit /\ [][HostsNext]_hostsVars

-----------------------------------------------------------------------------
(* What a subnet means: the address and the network agree on the prefix.   *)
(* An IPv6 prefix of length zero and the IPv4 address zero are the two     *)
(* cases the code leaves out.                                              *)
In(e, a) ==
    /\ e.family = 6 => e.prefix > 0
    /\ e.family = 4 => a # Zero
    /\ SubSeq(a, 1, e.prefix) = SubSeq(e.addr, 1, e.prefix)

(* The direction given to a packet is the side of the configured subnets   *)
(* its addresses lie on: to the host when the destination is in one of     *)
(* them, from the host when only the source is, whatever the prefix length *)
(* and however it falls on the byte boundary.                              *)
DirectionIsHostSide ==
    LET InHosts(a) == \E e \in ToSet(hosts4 \o hosts6) : e.family = packet.family /\ In(e, a)
    IN direction = CASE InHosts(packet.dst) -> "toHost"
                     [] ~InHosts(packet.dst) /\ InHosts(packet.src) -> "fromHost"
                     [] OTHER -> "unknown"

-----------------------------------------------------------------------------
(***************************************************************************)
(* What FlowStreamHandler::start makes of the device_map and of the        *)
(* summarisation options, and how ip_summarization then names the          *)
(* addresses of flows: by themselves, by their AS, by a listed subnet or   *)
(* by the subnet a wildcard cuts out.  Names are cached per handler        *)
(* (FlowCache), and the AS database may be enabled while flows already     *)
(* come in.                                                                *)
(*                                                                         *)
(* An address is [family, bits].                                       *)
(***************************************************************************)
CONSTANTS
    Configs,            \* the options of a handler
    Flows,              \* addresses of flows
    Asn(_),             \* the AS database: UnknownAsn, or [number, organization]
    CacheSize           \* names kept per family: 1000

VARIABLES
    config,             \* the options
    state,              \* "new", "started" or "refused"
    enrich,             \* _enrich_data: device address to the key it was written as
    summary,            \* _summary_data
    asnEnabled,         \* the AS database is enabled
    cache,              \* lru_ipv4_list and lru_ipv6_list: names, newest first
    address, name       \* the address of a flow looked at last, and its name

flowsVars == <<config, state, enrich, summary, asnEnabled, cache, address, name>>

UnknownAsn == [number |-> 0, organization |-> FALSE]

-----------------------------------------------------------------------------
(* The device map                                                          *)

\* A key is an address as it is written: [form, id], with the IPv4 address id
\* also in one of two mapped forms.
Unmapped(key) == IF key.form \in {"mapped", "hexmapped"} THEN [key EXCEPT !.form = "v4"] ELSE key

BadDevice(d) ==
    \/ d.key.form = "invalid"
    \/ ~d.named
    \/ d.interfaces = "none"
    \/ d.interfaces = "unnamed"

Extended(f, key, v) == [k \in DOMAIN f \cup {key} |-> IF k = key THEN v ELSE f[k]]

\* Mutant of Enriched: the last key of a device counts.
EnrichedLast(devices, f, d) == Extended(f, Unmapped(d.key), d.key)

\* A key in IPv4 form takes precedence over the mapped forms.
Enriched(devices, f, d) ==
    LET key == Unmapped(d.key)
    IN  IF key = d.key \/ \A e \in devices : e.key # key THEN Extended(f, key, d.key) ELSE f

-----------------------------------------------------------------------------
(* The summarisation options                                               *)

OfFamily(list, family) == SelectSeq(list, LAMBDA e : e.family = family)

IsWildcard(e) == e.addr = Zero

Wildcards(list, family) == SelectSeq(OfFamily(list, family), IsWildcard)

\* The lists without the wildcard, and the wildcard, of each family.
SummaryOf(c) ==
    [type |-> IF c.byAsn THEN "asn" ELSE IF c.subnets # <<>> THEN "subnet" ELSE "none",
     exclude |-> c.exclude,
     unknown |-> c.byAsn /\ c.excludeUnknown,
     asns |-> IF c.byAsn THEN c.excludeAsns ELSE {},
     listed |-> SelectSeq(c.subnets, LAMBDA e : ~IsWildcard(e)),
     wildcard |-> [f \in {4, 6} |-> Wildcards(c.subnets, f)]]

TwoWildcards(c) == \E f \in {4, 6} : Len(Wildcards(c.subnets, f)) > 1

-----------------------------------------------------------------------------
(* ip_summarization                                                        *)

Matches(e, a) ==
    /\ e.family = a.family
    /\ IF a.family = 4 THEN Match4(<<e>>, a.bits) ELSE Match6(<<e>>, a.bits)

MatchSubnet(list, a) == SelectSeq(list, LAMBDA e : Matches(e, a))

\* A prefix of zero shifts the mask by its whole width, which is undefined:
\* the build may keep every bit or none.
GetSubnet4(bits, cidr) ==
    IF cidr = 0 THEN {bits, Zero}
    ELSE {[i \in 1..Bits |-> IF i <= cidr THEN bits[i] ELSE 0]}

\* Mutant of GetSubnet6: the byte the prefix ends in is kept.
GetSubnet6Bytes(bits, cidr) ==
    LET byteCount == cidr \div ByteBits
    IN  {[i \in 1..Bits |-> IF (i - 1) \div ByteBits > byteCount THEN 0 ELSE bits[i]]}

GetSubnet6(bits, cidr) ==
    LET byteCount == cidr \div ByteBits
        bitCount == cidr % ByteBits
        Cleared(i) == LET b == (i - 1) \div ByteBits
                      IN  b > byteCount \/ (b = byteCount /\ (i - 1) % ByteBits >= bitCount)
    IN  {[i \in 1..Bits |-> IF Cleared(i) THEN 0 ELSE bits[i]]}

Itself(a) == [kind |-> "address", bits |-> a.bits, prefix |-> Bits]

BySubnet(s, a) ==
    LET listed == MatchSubnet(s.listed, a)
        wild == s.wildcard[a.family]
        Cut(cidr) == IF a.family = 4 THEN GetSubnet4(a.bits, cidr) ELSE GetSubnet6(a.bits, cidr)
    IN  IF listed # <<>>
        THEN {[kind |-> "listed", bits |-> listed[1].addr, prefix |-> listed[1].prefix]}
        ELSE IF wild # <<>>
        THEN {[kind |-> "cut", bits |-> b, prefix |-> wild[1].prefix] : b \in Cut(wild[1].prefix)}
        ELSE {Itself(a)}

\* An AS number is excluded with the slash that its organisation follows.
AsnExcluded(s, asn) ==
    \/ s.unknown /\ asn = UnknownAsn
    \/ asn # UnknownAsn /\ asn.organization /\ asn.number \in s.asns

\* Mutant of IpSummarization: the AS comes before the excluded subnets.
IpSummarizationAsnFirst(s, enabled, a) ==
    LET asn == Asn(a)
        byAsn == s.type = "asn" /\ enabled
    IN  IF byAsn /\ ~AsnExcluded(s, asn) THEN {[kind |-> "asn", asn |-> asn]}
        ELSE IF s.type = "none" \/ MatchSubnet(s.exclude, a) # <<>> THEN {Itself(a)}
        ELSE IF s.type = "subnet" \/ byAsn THEN BySubnet(s, a)
        ELSE {Itself(a)}

\* Subnets are tried for an excluded AS, but not for want of a database.
IpSummarization(s, enabled, a) ==
    LET asn == Asn(a)
        byAsn == s.type = "asn" /\ enabled
    IN  IF s.type = "none" \/ MatchSubnet(s.exclude, a) # <<>> THEN {Itself(a)}
        ELSE IF byAsn /\ ~AsnExcluded(s, asn) THEN {[kind |-> "asn", asn |-> asn]}
        ELSE IF s.type = "subnet" \/ byAsn THEN BySubnet(s, a)
        ELSE {Itself(a)}

-----------------------------------------------------------------------------
NoSummary == [type |-> "none", exclude |-> <<>>, unknown |-> FALSE, asns |-> {},
              listed |-> <<>>, wildcard |-> [f \in {4, 6} |-> <<>>]]

NoAddress == [family |-> 0]

FlowsInit ==
    /\ config \in Configs
    /\ state = "new"
    /\ enrich = <<>>
    /\ summary = NoSummary
    /\ asnEnabled = FALSE
    /\ cache = <<>>
    /\ address = NoAddress
    /\ name = NoAddress

\* The keys of a map come in any order.
Start ==
    /\ state = "new"
    /\ \E order \in SetToSeqs(config.devices) :
         LET E(f, d) == Enriched(config.devices, f, d)
             refused == (\E d \in config.devices : BadDevice(d)) \/ TwoWildcards(config)
         IN  /\ state' = IF refused THEN "refused" ELSE "started"
             /\ enrich' = IF refused \/ ~config.enrichment THEN enrich
                          ELSE FoldLeft(E, enrich, order)
             /\ summary' = IF refused \/ SummaryOf(config).type = "none" THEN summary
                           ELSE SummaryOf(config)
    /\ UNCHANGED <<config, asnEnabled, cache, address, name>>

EnableAsn ==
    /\ ~asnEnabled
    /\ asnEnabled' = TRUE
    /\ UNCHANGED <<config, state, enrich, summary, cache, address, name>>

Cached(a) == SelectSeq(cache, LAMBDA c : c.address = a)

\* The newest names of a family that fit.
Kept(c) ==
    LET Newer(i) == Cardinality({j \in 1..i : c[j].address.family = c[i].address.family})
        fits == {i \in DOMAIN c : Newer(i) <= CacheSize}
    IN  [k \in 1..Cardinality(fits) |->
            c[CHOOSE i \in fits : Cardinality({j \in fits : j <= i}) = k]]

\* Mutant of NameFlow: a new name is kept under the flow's other address.
NameFlowOtherKey(a) ==
    /\ state = "started"
    /\ address' = a
    /\ IF Cached(a) # <<>>
         THEN name' = Cached(a)[1].name /\ UNCHANGED cache
         ELSE \E n \in IpSummarization(summary, asnEnabled, a) :
                LET key == IF address.family = a.family THEN address ELSE a
                IN  /\ name' = n
                    /\ cache' = Kept(<<[address |-> key, name |-> n, asn |-> asnEnabled]>> \o cache)
    /\ UNCHANGED <<config, state, enrich, summary, asnEnabled>>

\* An address of a flow in process_interface: the name in the cache, or a new
\* one, which pushes the oldest of the family out.
NameFlow(a) ==
    /\ state = "started"
    /\ address' = a
    /\ IF Cached(a) # <<>>
         THEN name' = Cached(a)[1].name /\ UNCHANGED cache
         ELSE \E n \in IpSummarization(summary, asnEnabled, a) :
                /\ name' = n
                /\ cache' = Kept(<<[address |-> a, name |-> n, asn |-> asnEnabled]>> \o cache)
    /\ UNCHANGED <<config, state, enrich, summary, asnEnabled>>

FlowsNext == Start \/ EnableAsn \/ \E a \in Flows : NameFlow(a)

FlowsSpec == FlowsInit /\ [][FlowsNext]_flowsVars

-----------------------------------------------------------------------------
\* A device is found under its address however it was written in the device
\* map, and an entry in IPv4 form wins over the mapped forms of the same
\* device, in whatever order the map is walked.
DevicesAreFound ==
    state = "started" /\ config.enrichment =>
        \A d \in config.devices :
            LET key == Unmapped(d.key)
            IN  /\ key \in DOMAIN enrich
                /\ Unmapped(enrich[key]) = key
                /\ (\E e \in config.devices : e.key = key) => enrich[key] = key

\* A subnet that stands for an address contains it.  One cut out by a wildcard
\* has no bits beyond its prefix, so that addresses of one subnet share the
\* name; an IPv4 wildcard of prefix zero is left out, its mask is undefined.
NameCoversAddress ==
    name # NoAddress /\ name.kind \in {"listed", "cut"} =>
        /\ (address.family = 4 /\ name.prefix = 0)
             \/ \A i \in 1..name.prefix : name.bits[i] = address.bits[i]
        /\ name.kind = "cut" /\ (address.family = 6 \/ name.prefix > 0) =>
             \A i \in (name.prefix + 1)..Bits : name.bits[i] = 0

\* Addresses excluded from summarisation always go by themselves.
ExcludedGoByThemselves ==
    name # NoAddress /\ (\E i \in DOMAIN config.exclude : Matches(config.exclude[i], address)) =>
        name = Itself(address)

\* The name of an address follows the options and the AS database.  The only
\* stale names are those of addresses that were cached before the database was
\* enabled: they go without their AS until the cache drops them.
StaleNamesAreEarly ==
    name # NoAddress =>
        \/ name \in IpSummarization(summary, asnEnabled, address)
        \/ /\ name \in IpSummarization(summary, FALSE, address)
           /\ Cached(address) # <<>> /\ ~Cached(address)[1].asn
=============================================================================
