----------------------------- MODULE FlowParsers ----------------------------
(***************************************************************************)
(* What arrives on the flow input's sockets: NetFlow and IPFIX packets and *)
(* their templates, the fields of their records, and sFlow datagrams.  The *)
(* sections are specified apart.                                           *)
(***************************************************************************)
EXTENDS Integers, Sequences, SequencesExt, Functions

-----------------------------------------------------------------------------
(***************************************************************************)
(* What the flow input makes of a NetFlow or IPFIX datagram                *)
(* (src/src/inputs/flow/NetflowData.h, called by FlowInputStream.cpp).     *)
(* Versions 9 and 10 (IPFIX) describe their records by templates that      *)
(* arrive in earlier datagrams and are kept in process-wide maps keyed by  *)
(* the exporter; versions 1, 5 and 7 have records of a fixed size.         *)
(*                                                                         *)
(* A datagram is read flowset by flowset.  A flowset is a record that says *)
(* what the parser can tell about it; field values are left out but for    *)
(* their widths (the conversion between widths is a machine of its own).   *)
(***************************************************************************)
CONSTANTS
    Senders,      \* <<listener, address, port, source id>> tuples that send
    Ids,          \* template ids, 256 and above
    Layouts(_),   \* field lists a version announces: tuples of lengths
    Sizes,        \* numbers of bytes of data a data flowset carries
    MaxSets       \* bound on the flowsets of one datagram

VARIABLES
    version,      \* 9 or 10; each version has maps of its own
    templates,    \* nf9_template_map / nf10_template_map
    options,      \* nf9_options_template_map / nf10_options_template_map
    job,          \* the datagram being parsed
    result,       \* what the stream did with the last datagram
    announced,    \* history: the last well-formed announcement for each id
    due           \* history: the flows the current datagram really carries

templatesVars == <<version, templates, options, job, result, announced, due>>

None == <<-1>>
Held == <<-2>>    \* an options template; its fields are never read
Var == 65535      \* 0xFFFF: an IPFIX field of variable length

\* Mutant of Key: the port of the exporter is left out.
KeyWithoutPort(sender, id) == <<sender[2], sender[1], sender[4], id>>

\* NfMapID: exporter address, listener, source id, template id, exporter port
Key(sender, id) == <<sender[2], sender[1], sender[4], id, sender[3]>>

Keys == {Key(s, id) : s \in Senders, id \in Ids}

\* total_len of a template: a variable field counts one byte (its length)
TotalLen(layout) == FoldSeq(LAMBDA n, sum : sum + (IF n = Var THEN 1 ELSE n), 0, layout)

(***************************************************************************)
(* Template and options records.  `cut` says where the flowset ends in its *)
(* last record: nowhere ("no"), inside the header, in front of a field,    *)
(* inside its last field, or in front of an enterprise number.  Nothing    *)
(* but the start of a template's field is compared with the flowset's end, *)
(* so a number that lies beyond it is read from whatever bytes follow:     *)
(* `behind`.  `rest` is what follows the last record; `scope` and `others` *)
(* are the two lengths (version 9) or the number of scope fields and of    *)
(* all fields (IPFIX) an options record declares.                          *)
(***************************************************************************)
TemplateRecords ==
    [id : Ids, layout : Layouts(version), cut : {"no"}]
    \cup [id : Ids, layout : {<<>>}, cut : {"header"}]
    \cup [id : Ids, layout : Layouts(version) \ {<<>>},
          cut : {"before field", "in field"}
                \cup (IF version = 10 THEN {"before enterprise"} ELSE {})]
TemplateSets ==
    {<<r>> : r \in TemplateRecords}
    \cup {<<q, r>> : q \in [id : Ids, layout : {<<>>, <<1>>}, cut : {"no"}], r \in TemplateRecords}
TemplateRests(records) ==
    IF Last(records).cut = "no" THEN {"nothing", "four zeros", "padding"} ELSE {"nothing"}
Behind(records, rest) ==
    IF rest = "padding" \/ Last(records).cut \in {"header", "in field"} THEN {0, 1} ELSE {0}

\* a record as it is kept: the length of a torn field comes from behind
AsRead(r, behind) ==
    [r EXCEPT !.layout = IF r.cut = "in field" THEN Front(@) \o <<behind>> ELSE @]

OptionsRecords == [id : Ids, scope : {0, 1, 2, 4}, others : {0, 1, 2, 4}, cut : BOOLEAN]
Rests(r) == IF r.cut THEN {"nothing"} ELSE {"nothing", "padding", "nonzero", "four or more"}

\* One to three bytes that are left are read as one more header, whose number
\* of fields lies behind the flowset: any number but 0 asks for a field there.
\* Four zeros are an empty template, of id 0.
HeaderOk(records, rest, behind) ==
    rest = "padding" \/ Last(records).cut = "header" => behind = 0

\* every record is read before one of them is committed
TemplateOk9(records, rest, behind) ==
    /\ \A i \in DOMAIN records : records[i].cut # "before field"
    /\ HeaderOk(records, rest, behind)
TemplateOk10(records, rest, behind) ==
    /\ \A i \in DOMAIN records : records[i].cut \notin {"before field", "before enterprise"}
    /\ HeaderOk(records, rest, behind)

OptionsOk9(r, rest) ==
    /\ r.scope % 4 = 0 /\ r.others % 4 = 0
    /\ ~r.cut
    /\ rest \in {"nothing", "padding"}

OptionsOk10(r, rest) ==
    /\ r.scope <= r.others
    /\ r.others > 0 => r.scope > 0
    /\ ~r.cut
    /\ rest \in {"nothing", "padding"}

TemplateOk(records, rest, behind) ==
    IF version = 9 THEN TemplateOk9(records, rest, behind) ELSE TemplateOk10(records, rest, behind)
OptionsOk(r, rest) == IF version = 9 THEN OptionsOk9(r, rest) ELSE OptionsOk10(r, rest)

\* the last record of a flowset that names an id is the one that stays
LastFor(records, sender, k) ==
    LET named == {i \in DOMAIN records : Key(sender, records[i].id) = k}
    IN  IF named = {} THEN 0 ELSE CHOOSE i \in named : \A j \in named : j <= i

\* the loop that follows the parse: map[id] = record, and the id leaves the
\* other map
CommitTemplates(sender, records) ==
    /\ templates' = [k \in Keys |->
          LET i == LastFor(records, sender, k)
          IN  IF i = 0 THEN templates[k] ELSE records[i].layout]
    /\ options' = [k \in Keys |->
          IF LastFor(records, sender, k) = 0 THEN options[k] ELSE None]

CommitOptions(sender, r) ==
    /\ options' = [options EXCEPT ![Key(sender, r.id)] = Held]
    /\ templates' = [templates EXCEPT ![Key(sender, r.id)] = None]

(***************************************************************************)
(* Data flowsets: the records a flowset of `size` bytes is cut into.  A    *)
(* flow is the key, the record's first byte, and the offset of each field. *)
(* A variable field is one length byte and as many bytes as `filled` says. *)
(***************************************************************************)
FieldOffsets(layout, filled) ==
    [j \in DOMAIN layout |->
        FoldSeq(LAMBDA n, sum : sum + (IF n = Var THEN 1 + filled ELSE n), 0,
                SubSeq(layout, 1, j - 1))]

Flow(k, layout, start, filled) ==
    [key |-> k, start |-> start, fields |-> FieldOffsets(layout, filled),
     variable |-> Var \in Range(layout)]

\* a template whose fields all have length 0 is kept like any other, and the
\* number of its records is a division by 0
DividesByZero(layout) == Len(layout) > 0 /\ TotalLen(layout) = 0

\* too many records for the 0x4000 limit cannot fit a datagram of these sizes
DataOk(layout, size) ==
    Len(layout) > 0 /\ TotalLen(layout) > 0 /\ size \div TotalLen(layout) > 0

\* Mutant of Decode9: the first record is passed over.
Decode9FromSecond(k, layout, size) ==
    [i \in 1..(size \div TotalLen(layout)) |->
        Flow(k, layout, i * TotalLen(layout), 0)]

Decode9(k, layout, size) ==
    [i \in 1..(size \div TotalLen(layout)) |->
        Flow(k, layout, (i - 1) * TotalLen(layout), 0)]

\* the next record starts total_len further on, whatever the variable fields held
Decode10(k, layout, size, filled) ==
    [i \in 1..(size \div TotalLen(layout)) |->
        Flow(k, layout, (i - 1) * TotalLen(layout), filled)]

Decode(k, layout, size, filled) ==
    IF version = 9 THEN Decode9(k, layout, size) ELSE Decode10(k, layout, size, filled)

----------------------------------------------------------------------------
(* The datagram                                                             *)

Idle == [sender |-> <<>>, sets |-> 0, flows |-> <<>>]
Ended == [Idle EXCEPT !.sets = -1]    \* the process has ended
NoResult == [ok |-> TRUE, flows |-> <<>>, due |-> <<>>]

TemplatesInit ==
    /\ version \in {9, 10}
    /\ templates = [k \in Keys |-> None]
    /\ options = [k \in Keys |-> None]
    /\ job = Idle
    /\ result = NoResult
    /\ announced = [a \in Senders \X Ids |-> [kind |-> "none", layout |-> None]]
    /\ due = <<>>

\* udp_data_event with a version 9 or 10 header that is whole
Arrive(sender) ==
    /\ job = Idle
    /\ job' = [Idle EXCEPT !.sender = sender]
    /\ result' = NoResult
    /\ UNCHANGED <<version, templates, options, announced, due>>

\* header only: accepted when it is IPFIX, or when it declares no flowsets
ArriveEmpty(count) ==
    /\ job = Idle
    /\ result' = [NoResult EXCEPT !.ok = version = 10 \/ count = 0]
    /\ UNCHANGED <<version, templates, options, job, announced, due>>

Reading == job \notin {Idle, Ended} /\ job.sets < MaxSets

\* the parse ends in an error: error_count, no event
Reject ==
    /\ result' = [NoResult EXCEPT !.ok = FALSE]
    /\ job' = Idle
    /\ due' = <<>>

Advance(flows) == job' = [job EXCEPT !.sets = @ + 1, !.flows = @ \o flows]

\* process_netflow_v9_template / process_netflow_v10_template and their caller
TemplateSet(records, rest, behind) ==
    /\ Reading
    /\ IF TemplateOk(records, rest, behind)
         THEN /\ CommitTemplates(job.sender, [i \in DOMAIN records |-> AsRead(records[i], behind)])
              /\ announced' = FoldLeft(LAMBDA a, r :
                    [a EXCEPT ![<<job.sender, r.id>>] =
                        [kind |-> IF r.cut = "no" THEN "data" ELSE "torn", layout |-> r.layout]],
                    announced, records)
              /\ Advance(<<>>)
              /\ UNCHANGED <<result, due>>
         ELSE /\ Reject
              /\ UNCHANGED <<templates, options, announced>>
    /\ UNCHANGED version

\* process_netflow_v9_options_template / v10: a malformed set is passed over
OptionsSet(r, rest) ==
    /\ Reading
    /\ IF OptionsOk(r, rest)
         THEN /\ CommitOptions(job.sender, r)
              /\ announced' = [announced EXCEPT ![<<job.sender, r.id>>] =
                                  [kind |-> "options", layout |-> Held]]
         ELSE UNCHANGED <<templates, options, announced>>
    /\ Advance(<<>>)
    /\ UNCHANGED <<version, result, due>>

\* ids below 256 that are no template set
ReservedSet ==
    /\ Reading
    /\ Advance(<<>>)
    /\ UNCHANGED <<version, templates, options, result, announced, due>>

\* what the exporter meant: records one after the other, as it announced them,
\* or as they are read when the flowset that announced them was torn
Meant(id, size, filled) ==
    LET k == Key(job.sender, id)
        layout == announced[<<job.sender, id>>].layout
        width == FoldSeq(LAMBDA n, sum : sum + (IF n = Var THEN 1 + filled ELSE n), 0, layout)
    IN  CASE announced[<<job.sender, id>>].kind = "torn" -> Decode(k, templates[k], size, filled)
          [] announced[<<job.sender, id>>].kind = "data" /\ Len(layout) > 0 ->
                [i \in 1..(size \div width) |-> Flow(k, layout, (i - 1) * width, filled)]
          [] OTHER -> <<>>

\* the default case of the switch
DataSet(id, size, filled) ==
    /\ Reading
    /\ LET k == Key(job.sender, id)
       IN  IF options[k] # None \/ templates[k] = None
             THEN Advance(<<>>) /\ due' = due \o Meant(id, size, filled) /\ UNCHANGED result
             ELSE IF DataOk(templates[k], size)
                    THEN /\ Advance(Decode(k, templates[k], size, filled))
                         /\ due' = due \o Meant(id, size, filled)
                         /\ UNCHANGED result
                    ELSE Reject
    /\ UNCHANGED <<version, templates, options, announced>>

\* A division by 0 is undefined: on the processors that trap it the process
\* ends, on the others the quotient is 0 and the flowset is rejected (DataSet).
Divide(id) ==
    /\ Reading
    /\ LET k == Key(job.sender, id)
       IN  options[k] = None /\ templates[k] # None /\ DividesByZero(templates[k])
    /\ job' = Ended
    /\ result' = NoResult
    /\ due' = <<>>
    /\ UNCHANGED <<version, templates, options, announced>>

\* a length that passes the datagram's end, or is shorter than its own header
CutSet ==
    /\ Reading
    /\ Reject
    /\ UNCHANGED <<version, templates, options, announced>>

\* the end of the datagram: netflow_event
Deliver ==
    /\ job \notin {Idle, Ended} /\ job.sets > 0
    /\ result' = [ok |-> TRUE, flows |-> job.flows, due |-> due]
    /\ job' = Idle
    /\ due' = <<>>
    /\ UNCHANGED <<version, templates, options, announced>>

(***************************************************************************)
(* Versions 1, 5 and 7: the declared number of flows must be in range and  *)
(* the datagram exactly as long as that many records need.                 *)
(***************************************************************************)
Fixed(header, record, most, count, length) ==
    IF count = 0 \/ count > most \/ length # header + count * record
      THEN <<>>
      ELSE [i \in 1..count |-> header + (i - 1) * record]

ProcessV1(count, length) == Fixed(16, 52, 24, count, length)
ProcessV5(count, length) == Fixed(24, 48, 30, count, length)
ProcessV7(count, length) == Fixed(24, 52, 28, count, length)

FixedDatagram(v, count, length) ==
    /\ job = Idle
    /\ LET starts == CASE v = 1 -> ProcessV1(count, length)
                       [] v = 5 -> ProcessV5(count, length)
                       [] v = 7 -> ProcessV7(count, length)
           flows == [i \in DOMAIN starts |->
                       Flow(<<v, length>>, <<>>, starts[i], 0)]
       IN  result' = [ok |-> flows # <<>>, flows |-> flows, due |-> flows]
    /\ UNCHANGED <<version, templates, options, job, announced, due>>

\* lengths around the one that fits `count` records
FixedLengths(v, count) ==
    LET header == IF v = 1 THEN 16 ELSE 24
        record == IF v = 5 THEN 48 ELSE 52
    IN  {header + count * record + d : d \in -1..1}

TemplatesNext ==
    \/ \E s \in Senders : Arrive(s)
    \/ \E count \in 0..1 : ArriveEmpty(count)
    \/ \E records \in TemplateSets :
          \E rest \in TemplateRests(records) :
             \E behind \in Behind(records, rest) : TemplateSet(records, rest, behind)
    \/ \E r \in OptionsRecords : \E rest \in Rests(r) : OptionsSet(r, rest)
    \/ ReservedSet
    \/ \E id \in Ids, size \in Sizes, filled \in 0..1 : DataSet(id, size, filled)
    \/ \E id \in Ids : Divide(id)
    \/ CutSet
    \/ Deliver
    \/ \E v \in {1, 5, 7}, count \in {0, 1, 2, 24, 25, 28, 29, 30, 31} :
          \E length \in FixedLengths(v, count) : FixedDatagram(v, count, length)

TemplatesSpec == TemplatesInit /\ [][TemplatesNext]_templatesVars

----------------------------------------------------------------------------
(* Properties                                                               *)

\* For every exporter and template id the two maps hold what the last accepted
\* announcement of that exporter said: a data template, an options template,
\* never both, never another exporter's, and nothing of a flowset that was
\* rejected (the staging in `pending`, the two erase()s and the five-part
\* NfMapID).  A flowset torn inside a field is accepted: of that template the
\* fields in front of the tear are the announced ones.
LastAnnouncementRules ==
    \A s \in Senders, id \in Ids :
        LET last == announced[<<s, id>>]
            held == templates[Key(s, id)]
        IN  /\ CASE last.kind = "data" -> held = last.layout
                 [] last.kind = "torn" -> /\ Len(held) = Len(last.layout)
                                          /\ held # <<>> => Front(held) = Front(last.layout)
                 [] OTHER -> held = None
            /\ options[Key(s, id)] = IF last.kind = "options" THEN last.layout ELSE None

\* No datagram ends the process unless its exporter announced a template whose
\* fields all have length 0, or one whose last field was torn: a division by
\* the length of the records needs no other check.
EndsOnlyAtZeroLength ==
    job = Ended =>
        \E a \in Senders \X Ids :
            LET last == announced[a]
            IN  \/ last.kind = "data" /\ DividesByZero(last.layout)
                \/ last.kind = "torn" /\ TotalLen(Front(last.layout)) = 0

\* An accepted datagram hands on every flow it carries and no other, each cut
\* out where its exporter put it, and a rejected one hands on nothing.  Flows
\* of a template with variable-length fields are left out: the first of a
\* flowset is right, and the parser looks for the next total_len further on.
\* Of a torn template nothing is said: it is not known what its flows are.
DeliversWhatWasSent ==
    LET Plain(f) == f.variable = FALSE
    IN  IF result.ok
          THEN SelectSeq(result.flows, Plain) = SelectSeq(result.due, Plain)
          ELSE result.flows = <<>>

-----------------------------------------------------------------------------
(***************************************************************************)
(* be_copy and the byte swap after it (src/src/inputs/flow/NetflowData.h): *)
(* a big-endian field of a NetFlow or IPFIX record stored in a member of   *)
(* another width, on the little-endian hosts the program is built for.     *)
(***************************************************************************)
CONSTANTS
    Base,         \* values a byte has: 256, scaled down
    Targets,      \* widths of the members: 1, 2 or 4
    Widths        \* widths of the fields on the wire

VARIABLES
    target,       \* width of the member
    field,        \* the bytes on the wire, first byte first
    member        \* the member's bytes in memory, or <<>> before the copy

fieldsVars == <<target, field, member>>

Zeros(n) == [i \in 1..n |-> 0]

FieldsInit ==
    /\ target \in Targets
    /\ \E rec \in Widths : field \in [1..rec -> 0..(Base - 1)]
    /\ member = <<>>

\* Mutant of BeCopy: a narrowing keeps the first bytes.
BeCopyFirst(bytes, width) ==
    IF width >= Len(bytes) THEN Zeros(width - Len(bytes)) \o bytes ELSE SubSeq(bytes, 1, width)

\* memcpy into an integer of the host puts the first byte lowest, so that the
\* shift keeps the last bytes of the field
BeCopy(bytes, width) ==
    LET rec == Len(bytes)
    IN  CASE width >= rec -> Zeros(width - rec) \o bytes
          [] width = 2 /\ rec = 4 -> SubSeq(bytes, 3, 4)
          [] width = 4 /\ rec = 8 -> SubSeq(bytes, 5, 8)
          [] OTHER -> Zeros(width)

\* be16toh / be32toh: the number whose first byte in memory is the highest
Number(bytes) == FoldLeft(LAMBDA n, b : Base * n + b, 0, bytes)

Store ==
    /\ member = <<>>
    /\ member' = BeCopy(field, target)
    /\ UNCHANGED <<target, field>>

FieldsNext == Store

FieldsSpec == FieldsInit /\ [][FieldsNext]_fieldsVars

----------------------------------------------------------------------------
\* be_copy handles a field that is no wider than its member, and the two
\* narrowings its comment calls known common types
Handled == target >= Len(field) \/ <<target, Len(field)>> \in {<<2, 4>>, <<4, 8>>}

\* A stored field is the number on the wire, reduced to the member's width;
\* a narrowing be_copy does not handle leaves zero, never some of the bytes.
FieldKeepsValue ==
    member # <<>> =>
        Number(member) = IF Handled
                           THEN Number(SubSeq(field, IF Len(field) > target
                                                       THEN Len(field) - target + 1 ELSE 1,
                                              Len(field)))
                           ELSE 0

-----------------------------------------------------------------------------
(***************************************************************************)
(* What the flow input makes of an sFlow datagram                          *)
(* (src/src/inputs/flow/SflowData.h, called by FlowInputStream.cpp): a     *)
(* cursor moves over 32-bit words, every read past the datagram's end and  *)
(* every length that does not add up throws, and the handlers get either   *)
(* all the samples or none.  Positions are in words; field values are left *)
(* out, but for the addresses and ports that reach the handlers.           *)
(***************************************************************************)
CONSTANTS
    Datagrams     \* [version, agent, declared, samples, cut] records:
                  \*   agent     4 or 6, the family of the agent's address
                  \*   declared  number of samples the header announces
                  \*   cut       words missing at the end

VARIABLES
    datagram, pos, s, elements, status

sflowVars == <<datagram, pos, s, elements, status>>

(***************************************************************************)
(* The sampled packet header: its captured bytes, the VLAN tags, what      *)
(* follows them, and the IP header (first nibble, length in words, first   *)
(* fragment or not, protocol known or not; bytes of IPv6 extensions).      *)
(***************************************************************************)
NotFound == [got |-> 0, offset |-> 0]

\* Mutant of LinkLayer: a VLAN tag is skipped by its two bytes of tag only.
LinkLayerShortTag(h) ==
    LET ptr == 14 + 2 * h.tags
    IN  IF h.bytes - ptr >= 20 /\ h.nibble = 4 /\ h.quads >= 5
          THEN [got |-> 4, offset |-> ptr] ELSE NotFound

\* 14 bytes of Ethernet, 4 for each tag, then the type: an EtherType, an 802.2
\* header with SNAP (8 bytes) or IP (3 bytes), or something not decoded
LinkLayer(h) ==
    LET ptr == 14 + 4 * h.tags
            + (CASE h.link = "snap" -> 8 [] h.link = "8022" -> 3 [] OTHER -> 0)
        is4 == h.link = "8022" \/ h.ether = 4
    IN  CASE h.bytes < 14 + 4 * h.tags -> NotFound
          [] h.bytes < 20 -> NotFound
          [] h.link \in {"ipx", "vendor", "other"} -> NotFound
          [] is4 -> IF h.bytes - ptr >= 20 /\ h.nibble = 4 /\ h.quads >= 5
                      THEN [got |-> 4, offset |-> ptr] ELSE NotFound
          [] h.ether = 6 -> IF h.nibble = 6 THEN [got |-> 6, offset |-> ptr] ELSE NotFound
          [] OTHER -> NotFound

\* decodeIPLayer4: ports need 8 captured bytes and one of ICMP, TCP, UDP
Layer4(h, e, ptr) == [e EXCEPT !.ports = IF ptr <= h.bytes - 8 /\ h.known THEN ptr ELSE @]

DecodeIPV4(h, e) ==
    IF h.bytes - e.offset4 < 20 THEN e
    ELSE LET f == [e EXCEPT !.address = 4]
         IN  IF h.fragment \/ h.bytes - e.offset4 < 4 * h.quads THEN f
             ELSE Layer4(h, f, e.offset4 + 4 * h.quads)

DecodeIPV6(h, e) ==
    IF h.bytes - e.offset6 < 40 \/ h.nibble # 6 THEN e
    ELSE LET f == [e EXCEPT !.address = 6]
         IN  IF e.offset6 + 40 + h.extensions > h.bytes THEN f
             ELSE Layer4(h, f, e.offset6 + 40 + h.extensions)

\* decodeLinkLayer: both families are forgotten, then one may be found
Found(e, at) ==
    [e EXCEPT !.got4 = at.got = 4, !.offset4 = IF at.got = 4 THEN at.offset ELSE @,
              !.got6 = at.got = 6, !.offset6 = IF at.got = 6 THEN at.offset ELSE @]

\* readFlowSample_header; an 802.11 header is read for its MAC addresses only,
\* and the protocols that are not decoded leave what an earlier header found
ReadHeader(h, e) ==
    LET f == CASE h.protocol = "ethernet" -> Found(e, LinkLayer(h))
               [] h.protocol = "ipv4" -> [e EXCEPT !.got4 = TRUE, !.offset4 = 0]
               [] h.protocol = "ipv6" -> [e EXCEPT !.got6 = TRUE, !.offset6 = 0]
               [] h.protocol = "wifi" -> Found(e, NotFound)
               [] OTHER -> e
    IN  CASE f.got4 -> DecodeIPV4(h, f)
          [] ~f.got4 /\ f.got6 -> DecodeIPV6(h, f)
          [] OTHER -> f

Quads(bytes) == (bytes + 3) \div 4

(***************************************************************************)
(* The elements of a sample: how many words the reader consumes, and what  *)
(* it stores.  An element's `length` is the number of bytes it declares.   *)
(***************************************************************************)
Words(v, x) ==
    CASE x.tag = "header" -> (IF v > 4 THEN 4 ELSE 3) + Quads(x.header.bytes)
      [] x.tag = "ethernet" -> 6
      [] x.tag = "ipv4" -> 8
      [] x.tag = "ipv6" -> 14
      [] x.tag = "generic" -> 22
      [] OTHER -> Quads(x.length)

\* lengthCheck
Agrees(v, x) == Words(v, x) = Quads(x.length)

Undefined(x) == x.tag = "header" /\ x.header.protocol = "undefined"

ReadElement(x, e) ==
    CASE x.tag = "header" -> ReadHeader(x.header, e)
      [] x.tag = "ipv4" -> [e EXCEPT !.address = 4, !.ports = 0]
      [] x.tag = "ipv6" -> [e EXCEPT !.address = 6, !.ports = 0]
      [] OTHER -> e

NoPorts == -1
Element(type) ==
    [type |-> type, got4 |-> FALSE, offset4 |-> 0, got6 |-> FALSE, offset6 |-> 0,
     address |-> 0, ports |-> NoPorts]

(***************************************************************************)
(* Samples.  `expanded` ones have the data source and the ports in words   *)
(* of their own; `length` is the sample's declared number of words.        *)
(***************************************************************************)
FlowFixed(x) == IF x.expanded THEN 11 ELSE 8
CountersFixed(x) == IF x.expanded THEN 4 ELSE 3

\* words after the length of a version 5 sample
Body(v, x) ==
    (IF x.type = "flow" THEN FlowFixed(x) ELSE CountersFixed(x))
    + FoldSeq(LAMBDA y, sum : sum + 2 + Words(v, y), 0, x.elements)

SampleWords(v, x) ==
    CASE x.type = "other" -> 2 + x.length
      [] v >= 5 -> 2 + Body(v, x)
      [] x.type = "flow" -> 10 + Words(v, x.elements[1])
      [] OTHER -> 5 + (IF x.elements[1].tag = "generic" THEN 22 ELSE 0)

\* what makes readFlowSample, readCountersSample and their version 2 and 4
\* forms throw, other than the datagram's end
SampleThrows(v, x) ==
    IF v >= 5
      THEN /\ x.type # "other"
           /\ \/ x.length # Body(v, x)
              \/ \E i \in DOMAIN x.elements :
                    ~Agrees(v, x.elements[i]) \/ Undefined(x.elements[i])
      ELSE \/ x.type = "other"
           \/ x.type = "flow" /\ (x.extended \/ x.elements[1].tag \notin {"header", "ipv4", "ipv6"})
           \/ x.type = "flow" /\ Undefined(x.elements[1])
           \/ x.type = "counters" /\ x.elements[1].tag \notin {"generic", "vlan"}

\* Mutant of Stored: the sample is read over what the one before it left in s.
StoredOverLast(x, e) ==
    LET last == [s EXCEPT !.type = x.type]
    IN  IF x.type = "flow" THEN FoldLeft(LAMBDA f, y : ReadElement(y, f), last, x.elements)
        ELSE last

Stored(x, e) ==
    IF x.type = "flow" THEN FoldLeft(LAMBDA f, y : ReadElement(y, f), e, x.elements) ELSE e

----------------------------------------------------------------------------
HeaderWords(d) == 1 + (IF d.agent = 4 THEN 2 ELSE 5) + (IF d.version >= 5 THEN 4 ELSE 3)

Total(d) == HeaderWords(d)
    + FoldSeq(LAMBDA x, sum : sum + SampleWords(d.version, x), 0, d.samples)

End == Total(datagram) - datagram.cut

SflowInit ==
    /\ datagram \in Datagrams
    /\ pos = 0
    /\ s = Element("none")
    /\ elements = <<>>
    /\ status = "header"

Throw ==
    /\ status' = "error"
    /\ UNCHANGED <<datagram, pos, s, elements>>

\* read_sflow_datagram up to the loop
ReadDatagram ==
    /\ status = "header"
    /\ IF datagram.version \notin {2, 4, 5} \/ HeaderWords(datagram) > End
         THEN Throw
         ELSE /\ pos' = HeaderWords(datagram)
              /\ status' = "samples"
              /\ UNCHANGED <<datagram, s, elements>>

\* Mutant of ReadSample: the reader does not look for the datagram's end.
ReadSampleOn ==
    /\ status = "samples"
    /\ Len(elements) < Len(datagram.samples) /\ Len(elements) < datagram.declared
    /\ LET x == datagram.samples[Len(elements) + 1]
       IN  IF SampleThrows(datagram.version, x) THEN Throw
           ELSE /\ pos' = pos + SampleWords(datagram.version, x)
                /\ s' = Stored(x, Element(x.type))
                /\ elements' = Append(elements, s')
                /\ UNCHANGED <<datagram, status>>

\* one round of the loop; what lies behind the last sample is a word the
\* reader takes for a sample's type, and cannot be one
ReadSample ==
    /\ status = "samples"
    /\ Len(elements) < datagram.declared
    /\ IF Len(elements) = Len(datagram.samples) \/ pos >= End
         THEN Throw
         ELSE LET x == datagram.samples[Len(elements) + 1]
                  after == pos + SampleWords(datagram.version, x)
              IN  IF after > End \/ SampleThrows(datagram.version, x)
                    THEN Throw
                    ELSE /\ pos' = after
                         /\ s' = Stored(x, Element(x.type))
                         /\ elements' = Append(elements, s')
                         /\ UNCHANGED <<datagram, status>>

\* sflow_event
DeliverElement ==
    /\ status = "samples"
    /\ Len(elements) = datagram.declared
    /\ status' = "event"
    /\ UNCHANGED <<datagram, pos, s, elements>>

SflowNext == ReadDatagram \/ ReadSample \/ DeliverElement

SflowSpec == SflowInit /\ [][SflowNext]_sflowVars

----------------------------------------------------------------------------
(* Properties                                                               *)

\* The handlers see a datagram only as a whole: as many elements as its header
\* declares, read from bytes that are all there, with the cursor exactly at the
\* end of the last one - so that no length in it was wrong.
DatagramIsWhole ==
    status = "event" =>
        /\ Len(elements) = datagram.declared
        /\ pos <= End
        /\ pos = HeaderWords(datagram)
              + FoldSeq(LAMBDA x, sum : sum + SampleWords(datagram.version, x), 0,
                        SubSeq(datagram.samples, 1, datagram.declared))

\* An element depends on its own sample only: no address, port or found header
\* survives from an earlier sample of the datagram (the reset of the per-sample
\* fields before each sample).
SamplesIndependent ==
    \A i \in DOMAIN elements :
        LET x == datagram.samples[i]
            Without(tags) == \A j \in DOMAIN x.elements : x.elements[j].tag \notin tags
        IN  /\ elements[i].type = x.type
            /\ (x.type # "flow" \/ Without({"header", "ipv4", "ipv6"})) =>
                  elements[i] = Element(x.type)
            /\ Without({"header"}) => ~elements[i].got4 /\ ~elements[i].got6

\* The one sampled header of an element
Sampled(i, h) ==
    /\ datagram.samples[i].type = "flow"
    /\ \E x \in ToSet(datagram.samples[i].elements) : x.tag = "header" /\ x.header = h
    /\ Len(datagram.samples[i].elements) = 1

\* An IP header is found where the layers in front of it end, and only when
\* the capture holds all of it; ports are read only inside the capture, behind
\* the IP header, and never from a later fragment.
HeaderFoundInPlace ==
    \A i \in DOMAIN elements : \A x \in ToSet(datagram.samples[i].elements) :
        (x.tag = "header" /\ Sampled(i, x.header)) =>
            LET h == x.header
                e == elements[i]
                at == IF e.address = 4 THEN e.offset4 ELSE e.offset6
                layers == 14 + 4 * h.tags
                    + (CASE h.link = "snap" -> 8 [] h.link = "8022" -> 3 [] OTHER -> 0)
                header == IF e.address = 4 THEN 4 * h.quads ELSE 40 + h.extensions
            IN  /\ e.address # 0 => /\ at = IF h.protocol = "ethernet" THEN layers ELSE 0
                                    /\ at + (IF e.address = 4 THEN 20 ELSE 40) <= h.bytes
                /\ e.ports # NoPorts => /\ e.ports = at + header
                                        /\ e.ports + 8 <= h.bytes
                                        /\ e.address = 4 => ~h.fragment
=============================================================================
