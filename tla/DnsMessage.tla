----------------------------- MODULE DnsMessage -----------------------------
(***************************************************************************)
(* The DNS message as the packet library keeps it, and its names.  The     *)
(* sections are specified apart.                                           *)
(***************************************************************************)
EXTENDS Integers, Sequences, SequencesExt, FiniteSets, Functions, FiniteSetsExt

-----------------------------------------------------------------------------
(***************************************************************************)
(* The records of a DNS message as DnsLayer (src/libs/visor_dns) keeps     *)
(* them: a linked list in the order of the message, with a pointer to the  *)
(* first record of each section. A message that was received is parsed,    *)
(* perhaps several times: for its question only, and again by force for    *)
(* its other sections. A message that is built gets its records one by one *)
(* and may lose them again.                                                *)
(*                                                                         *)
(* The bytes after the header are cells: a question takes one, any other   *)
(* record two, each cell names the record it belongs to. A node of the     *)
(* list is known by its place in nodes; 0 is the null pointer.             *)
(***************************************************************************)
CONSTANTS
    MaxCount,     \* bound: records a header announces for a section
    Limit,        \* records beyond which a message is taken for a bad one (100)
    Names,        \* names of records that are added
    MaxNodes,     \* bound: list nodes that are created while building
    Ordered       \* records are only added behind those of earlier sections

VARIABLES
    built,        \* the message is being built rather than received
    count,        \* the four counts of the header
    wire,         \* the cells after the header
    nodes,        \* the list nodes that were allocated
    head,         \* m_ResourceList
    first,        \* m_FirstQuery, m_FirstAnswer, m_FirstAuthority, m_FirstAdditional
    parsed,       \* m_ResourcesParsed and m_ResourcesParseResult
    forced        \* history: parses by force

messageVars == <<built, count, wire, nodes, head, first, parsed, forced>>

Query == 1
Additional == 4
Sections == 1..4

Size(section) == IF section = Query THEN 1 ELSE 2

\* The sections of the records, in the order of the message.
Layout(n) ==
    FlattenSeq([s \in Sections |-> [i \in 1..n[s] |-> s]])

Cells(layout) ==
    FlattenSeq([i \in DOMAIN layout |-> [c \in 1..Size(layout[i]) |-> i]])

Unparsed == [done |-> FALSE, ok |-> FALSE]

MessageInit ==
    /\ built \in BOOLEAN
    /\ count \in [Sections -> 0..(IF built THEN 0 ELSE MaxCount)]
    /\ LET whole == Cells(Layout(count))
       IN  \E cut \in 0..Len(whole) : wire = SubSeq(whole, 1, Len(whole) - cut)
    /\ nodes = <<>>
    /\ head = 0
    /\ first = [s \in Sections |-> 0]
    /\ parsed = Unparsed
    /\ forced = 0

-----------------------------------------------------------------------------
(* Parsing                                                                 *)

\* Mutant of ParseRecord: each record becomes the first of its section.
ParseRecordLastWins(acc, section, queryOnly, additionalOnly) ==
    LET id   == Len(acc.nodes) + 1
        node == [section |-> section, offset |-> acc.offset, next |-> 0, name |-> "", live |-> TRUE]
        new  == Append(acc.nodes, node)
    IN  IF acc.offset + Size(section) > Len(wire)
        THEN [acc EXCEPT !.status = "failed"]
        ELSE [nodes |-> IF acc.head = 0 THEN new ELSE [new EXCEPT ![acc.current].next = id],
              head |-> IF acc.head = 0 THEN id ELSE acc.head,
              current |-> id,
              offset |-> acc.offset + Size(section),
              first |-> [acc.first EXCEPT ![section] = id],
              status |-> acc.status]

\* One record: a node behind the current one, unless it ends past the data.
ParseRecord(acc, section, queryOnly, additionalOnly) ==
    LET id   == Len(acc.nodes) + 1
        node == [section |-> section, offset |-> acc.offset, next |-> 0, name |-> "", live |-> TRUE]
        new  == Append(acc.nodes, node)
        isFirst == acc.first[section] = 0
    IN  IF acc.status # "run" THEN acc
        ELSE IF acc.offset + Size(section) > Len(wire)
        THEN [acc EXCEPT !.status = "failed"]
        ELSE [nodes |-> IF acc.head = 0 THEN new ELSE [new EXCEPT ![acc.current].next = id],
              head |-> IF acc.head = 0 THEN id ELSE acc.head,
              current |-> id,
              offset |-> acc.offset + Size(section),
              first |-> IF isFirst THEN [acc.first EXCEPT ![section] = id] ELSE acc.first,
              status |-> IF isFirst /\ (\/ queryOnly /\ section = Query
                                        \/ additionalOnly /\ section = Additional)
                         THEN "stopped" ELSE "run"]

\* Mutant of ParseAll: a forced parse starts a list of its own.
ParseAllAnew(queryOnly, additionalOnly) ==
    FoldLeft(LAMBDA acc, s : ParseRecord(acc, s, queryOnly, additionalOnly),
             [nodes |-> nodes, head |-> 0, current |-> 0, offset |-> 0,
              first |-> [s \in Sections |-> 0], status |-> "run"],
             Layout(count))

ParseAll(queryOnly, additionalOnly) ==
    FoldLeft(LAMBDA acc, s : ParseRecord(acc, s, queryOnly, additionalOnly),
             [nodes |-> nodes, head |-> head, current |-> head, offset |-> 0,
              first |-> first, status |-> "run"],
             Layout(count))

\* parseResources: the result is remembered; force parses again what parsed well.
ParseResources(queryOnly, additionalOnly, force) ==
    /\ ~built
    /\ forced < 2
    /\ ~parsed.done \/ (force /\ parsed.ok)
    /\ forced' = forced + IF force THEN 1 ELSE 0
    /\ IF Len(Layout(count)) > Limit
       THEN /\ parsed' = [done |-> TRUE, ok |-> FALSE]
            /\ UNCHANGED <<nodes, head, first>>
       ELSE LET end == ParseAll(queryOnly, additionalOnly)
            IN  /\ nodes' = end.nodes
                /\ head' = end.head
                /\ first' = end.first
                /\ parsed' = [done |-> TRUE, ok |-> end.status # "failed"]
    /\ UNCHANGED <<built, count, wire>>

-----------------------------------------------------------------------------
(* Building                                                                *)

\* The nodes that follow one another from a node on.
Chain(from) ==
    LET f[k \in 0..Len(nodes)] ==
            IF k = 0 THEN IF from = 0 THEN <<>> ELSE <<from>>
            ELSE LET sofar == f[k - 1]
                 IN  IF sofar = <<>> \/ nodes[sofar[Len(sofar)]].next = 0 THEN sofar
                     ELSE Append(sofar, nodes[sofar[Len(sofar)]].next)
    IN  f[Len(nodes)]

\* Mutant of Moved: the record behind the gap keeps its offset.
MovedAfterNext(all, from, by) ==
    [i \in DOMAIN all |->
        IF i \in Range(Chain(from)) \ {from} THEN [all[i] EXCEPT !.offset = @ + by] ELSE all[i]]

\* extendLayer and shortenLayer move every record behind the one given.
Moved(all, from, by) ==
    [i \in DOMAIN all |->
        IF i \in Range(Chain(from)) THEN [all[i] EXCEPT !.offset = @ + by] ELSE all[i]]

InsertCells(offset, id, n) ==
    SubSeq(wire, 1, offset) \o [c \in 1..n |-> id] \o SubSeq(wire, offset + 1, Len(wire))

CutCells(offset, n) ==
    SubSeq(wire, 1, offset) \o SubSeq(wire, offset + n + 1, Len(wire))

SizeOf(seq) == FoldSeq(LAMBDA i, sum : sum + Size(nodes[i].section), 0, seq)

\* The records of sections up to s at the front of the list: the last of them
\* is the one the new record goes behind.
UpTo(s) == SelectSeq(Chain(head), LAMBDA i : nodes[i].section <= s)

Link(s, name, current, next, offset) ==
    LET id == Len(nodes) + 1
        grown == Append(Moved(nodes, next, Size(s)),
                        [section |-> s, offset |-> offset, next |-> next,
                         name |-> name, live |-> TRUE])
    IN  /\ Len(nodes) < MaxNodes
        /\ wire' = InsertCells(offset, id, Size(s))
        /\ nodes' = IF current = 0 THEN grown ELSE [grown EXCEPT ![current].next = id]
        /\ count' = [count EXCEPT ![s] = @ + 1]
        /\ UNCHANGED <<built, parsed, forced>>

\* addQuery looks among the questions only.
AddQuery(name) ==
    LET before == UpTo(Query)
        id == Len(nodes) + 1
    IN  /\ built
        /\ IF before = <<>>
           THEN /\ Link(Query, name, 0, head, 0)
                /\ head' = id
                /\ first' = [first EXCEPT ![Query] = id]
           ELSE LET last == before[Len(before)]
                IN  /\ Link(Query, name, last, nodes[last].next, SizeOf(before))
                    /\ UNCHANGED <<head, first>>

\* addResource for the other sections. With no record before it in the message
\* the new record's next is the head, and the head's next is the new record.
AddResource(s, name) ==
    LET before == UpTo(s)
        id == Len(nodes) + 1
        last == IF before = <<>> THEN head ELSE before[Len(before)]
    IN  /\ built
        /\ s # Query
        /\ Ordered => before # <<>> \/ head = 0
        /\ Link(s, name, last, IF before = <<>> THEN head ELSE nodes[last].next, SizeOf(before))
        /\ head' = IF before = <<>> THEN id ELSE head
        /\ first' = IF last = 0 \/ nodes[last].section # s
                    THEN [first EXCEPT ![s] = id] ELSE first

Freed == [section |-> 0, offset |-> 0, next |-> 0, name |-> "", live |-> FALSE]

\* getResourceByName: the first of the section's records with that name.
ByName(s, name) ==
    SelectSeq(SubSeq(Chain(first[s]), 1, IF first[s] = 0 THEN 0 ELSE count[s]),
              LAMBDA i : nodes[i].name = name)

RemoveResource(s, name) ==
    /\ built
    /\ ByName(s, name) # <<>>
    /\ LET gone == ByName(s, name)[1]
           next == nodes[gone].next
           left == [Moved(nodes, next, -Size(s)) EXCEPT ![gone] = Freed]
           previous == {i \in Range(Chain(head)) : nodes[i].next = gone}
       IN  /\ nodes' = [i \in DOMAIN left |->
                            IF i \in previous THEN [left[i] EXCEPT !.next = next] ELSE left[i]]
           /\ head' = IF head = gone THEN next ELSE head
           /\ first' = IF first[s] # gone THEN first
                       ELSE [first EXCEPT ![s] = IF next # 0 /\ nodes[next].section = s
                                                 THEN next ELSE 0]
           /\ wire' = CutCells(nodes[gone].offset, Size(s))
    /\ count' = [count EXCEPT ![s] = @ - 1]
    /\ UNCHANGED <<built, parsed, forced>>

MessageNext ==
    \/ ParseResources(TRUE, FALSE, FALSE)
    \/ ParseResources(FALSE, TRUE, TRUE)
    \/ \E name \in Names : AddQuery(name)
    \/ \E s \in Sections, name \in Names : AddResource(s, name)
    \/ \E s \in Sections, name \in Names : RemoveResource(s, name)

MessageSpec == MessageInit /\ [][MessageNext]_messageVars

-----------------------------------------------------------------------------
\* Records of one section that follow a node.
Section(i) ==
    LET chain == Chain(i)
    IN  SelectSeq(chain, LAMBDA n : nodes[n].section = nodes[i].section)

\* The list of a message that is built is the message: its records follow one
\* another by section, each one's bytes are where its offset says, the header
\* counts them, and the pointer to a section's first record is right. Adding
\* and removing in any order keeps all four together.
ListMatchesWire ==
    built =>
        LET list == Chain(head)
        IN  /\ \A i \in 1..(Len(list) - 1) :
                  nodes[list[i]].section <= nodes[list[i + 1]].section
            /\ FlattenSeq([i \in DOMAIN list |->
                  [c \in 1..Size(nodes[list[i]].section) |-> list[i]]]) = wire
            /\ \A i \in DOMAIN list :
                  /\ nodes[list[i]].live
                  /\ wire[nodes[list[i]].offset + 1] = list[i]
            /\ \A s \in Sections :
                  LET mine == SelectSeq(list, LAMBDA n : nodes[n].section = s)
                  IN  /\ count[s] = Len(mine)
                      /\ first[s] = IF mine = <<>> THEN 0 ELSE mine[1]

Before(s) == FoldSet(LAMBDA t, sum : sum + Size(t) * count[t], 0, 1..(s - 1))

\* Whatever sequence of parses a packet goes through (for its question, then by
\* force for an answer or an additional record), the first record of a section
\* stays the one at the start of that section, and the answers and authorities
\* that follow it are as many as the header announces, once each.
SectionsStayPut ==
    ~built /\ parsed.ok =>
        \A s \in Sections : first[s] # 0 =>
            /\ nodes[first[s]].section = s
            /\ nodes[first[s]].offset = Before(s)
            /\ s \in {2, 3} /\ count[Query] > 0 =>
                  [i \in DOMAIN Section(first[s]) |-> nodes[Section(first[s])[i]].offset]
                    = [i \in 1..count[s] |-> Before(s) + (i - 1) * Size(s)]

\* Parsing a packet for its question and then once by force leaves no node that
\* the destructor, which walks the list, would miss.
NodesAreFreed ==
    ~built /\ forced <= 1 /\ count[Query] > 0 =>
        Range(Chain(head)) = DOMAIN nodes

-----------------------------------------------------------------------------
(***************************************************************************)
(* Names in DNS messages (src/libs/visor_dns): decoding one from the bytes *)
(* of a message, encoding one, and cutting one down to the registered      *)
(* domain for the top tables, behind a public suffix or a suffix of the    *)
(* policy. A name is text: a sequence of characters, numbers above Dot.    *)
(***************************************************************************)
CONSTANTS
    Labels,        \* labels names are made of: sequences of characters
    MaxLabels,     \* bound: labels of a name
    Tlds,          \* keys of ICANN_DOMAINS: labels
    Listed(_),   \* the suffixes listed under one, in order: texts
    Depth          \* pointers that are followed (20)

VARIABLES
    task,          \* what is done: "aggregate" or "decode"
    input,         \* the name, or the bytes and the offset of one
    output         \* the result; None before

namesVars == <<task, input, output>>

None == [q2 |-> <<-1>>, q3 |-> <<-1>>]

Dot == 46
Pointer == 192

Join(labels) ==
    FlattenSeq([i \in DOMAIN labels |->
        IF i = 1 THEN labels[i] ELSE <<Dot>> \o labels[i]])

NamesOf(n) == UNION {[1..k -> Labels] : k \in 1..n}

Drop(text, n) == SubSeq(text, n + 1, Len(text))

EndsWith(text, suffix) ==
    /\ Len(text) >= Len(suffix)
    /\ Drop(text, Len(text) - Len(suffix)) = suffix

\* rfind: the last dot among the first so many characters, counted from 1; 0
\* for npos.
LastDot(text, upTo) ==
    LET dots == {i \in 1..Min({upTo, Len(text)}) : text[i] = Dot}
    IN  IF dots = {} THEN 0 ELSE Max(dots)

\* match_public_suffix: the size of the first listed suffix the text ends with,
\* else of the top-level domain, and one for the dot; 0 when neither is listed.
MatchPublicSuffix(text) ==
    LET dot == LastDot(text, Len(text))
        tld == Drop(text, dot)
        hit == IF tld \notin Tlds THEN <<>>
               ELSE SelectSeq(Listed(tld), LAMBDA s : EndsWith(text, s))
    IN  IF dot = 0 \/ tld = <<>> \/ tld \notin Tlds THEN 0
        ELSE IF hit # <<>> THEN Len(hit[1]) + 1
        ELSE Len(tld) + 1

\* Mutant of AggregateDomain: the search for the second dot starts on the first.
AggregateDomainSameDot(text, suffixSize) ==
    LET size   == Len(text)
        end    == IF suffixSize > 0 /\ size > suffixSize THEN size - suffixSize + 1 ELSE size
        dot1   == LastDot(text, end)
        dot2   == LastDot(text, dot1)
    IN  IF dot2 = 0 THEN [q2 |-> text, q3 |-> <<>>]
        ELSE [q2 |-> Drop(text, dot2 - 1), q3 |-> text]

\* aggregateDomain: the name from its second dot on and from its third dot on,
\* counted from the end of the suffix. Names shorter than a.b.c are left alone.
AggregateDomain(text, suffixSize) ==
    LET size   == Len(text)
        end    == IF suffixSize > 0 /\ size > suffixSize THEN size - suffixSize + 1
                  ELSE IF text[size] = Dot THEN size - 1 ELSE size
        dot1   == LastDot(text, end)
        dot2   == LastDot(text, dot1 - 1)
        dot3   == LastDot(text, dot2 - 1)
    IN  IF size < 5 THEN [q2 |-> text, q3 |-> <<>>]
        ELSE IF dot1 <= 1 THEN [q2 |-> text, q3 |-> text]
        ELSE IF dot2 = 0 THEN [q2 |-> text, q3 |-> <<>>]
        ELSE [q2 |-> Drop(text, dot2 - 1),
              q3 |-> IF dot3 = 0 THEN text ELSE Drop(text, dot3 - 1)]

-----------------------------------------------------------------------------
\* encodeName: each label behind its length, a zero at the end.
EncodeName(labels) ==
    FlattenSeq([i \in DOMAIN labels |-> <<Len(labels[i])>> \o labels[i]]) \o <<0>>

\* Mutant of DecodeName: a name ends with its first label.
DecodeNameFirst(bytes, offset, iteration) ==
    IF bytes[offset] \in {0, Pointer} THEN [text |-> <<>>, consumed |-> 1]
    ELSE [text |-> SubSeq(bytes, offset + 1, offset + bytes[offset]), consumed |-> bytes[offset] + 1]

\* decodeName: labels until a zero or a pointer, which is followed to the name
\* it points to; the last dot goes unless a pointer ended the name. consumed
\* counts the bytes of the name where it stands.
RECURSIVE DecodeName(_, _, _)
DecodeName(bytes, offset, iteration) ==
    IF offset > Len(bytes) \/ iteration > Depth THEN [text |-> <<>>, consumed |-> 0]
    ELSE IF bytes[offset] = 0 THEN [text |-> <<>>, consumed |-> 1]
    ELSE IF bytes[offset] = Pointer
    THEN IF offset + 1 > Len(bytes) THEN [text |-> <<>>, consumed |-> 0]
         ELSE [text |-> DecodeName(bytes, bytes[offset + 1], iteration + 1).text, consumed |-> 2]
    ELSE LET length == bytes[offset]
             label  == SubSeq(bytes, offset + 1, offset + length)
             rest   == DecodeName(bytes, offset + length + 1, iteration)
         IN  IF offset + length > Len(bytes) THEN [text |-> <<>>, consumed |-> 1]
             ELSE [text |-> IF rest.text = <<>> THEN label ELSE label \o <<Dot>> \o rest.text,
                   consumed |-> length + 1 + rest.consumed]

\* A message of two names: one in full and one whose end is a pointer to the
\* label of the first with that number.
Bytes(whole, front, label) ==
    LET target == 1 + Len(EncodeName(SubSeq(whole, 1, label - 1))) - 1
        own    == SubSeq(EncodeName(front), 1, Len(EncodeName(front)) - 1)
    IN  EncodeName(whole) \o own \o <<Pointer, target>>

-----------------------------------------------------------------------------
NamesInit ==
    /\ output = None
    /\ \/ /\ task = "aggregate"
          /\ input \in [labels : NamesOf(MaxLabels), root : BOOLEAN, suffix : 0..(MaxLabels - 1)]
       \/ /\ task = "decode"
          /\ \E whole \in NamesOf(2), front \in NamesOf(2) \cup {<<>>} :
                \E label \in DOMAIN whole :
                    input = [whole |-> whole, front |-> front, label |-> label]

Text(name) == IF name.root THEN Append(Join(name.labels), Dot) ELSE Join(name.labels)

\* The suffix size of a policy: that many labels at the end, with their dot.
SuffixSize(name) ==
    LET n == Min({name.suffix, Len(name.labels)})
    IN  IF n = 0 THEN MatchPublicSuffix(Text(name))
        ELSE Len(Text([name EXCEPT !.labels = Drop(@, Len(@) - n)])) + 1

Aggregate ==
    /\ task = "aggregate"
    /\ output = None
    /\ output' = AggregateDomain(Text(input), SuffixSize(input))
    /\ UNCHANGED <<task, input>>

\* Both names of the message are decoded.
Decode ==
    /\ task = "decode"
    /\ output = None
    /\ LET bytes  == Bytes(input.whole, input.front, input.label)
           second == Len(EncodeName(input.whole)) + 1
       IN  output' = [q2 |-> DecodeName(bytes, 1, 0).text,
                      q3 |-> DecodeName(bytes, second, 0).text]
    /\ UNCHANGED <<task, input>>

NamesNext == Aggregate \/ Decode

NamesSpec == NamesInit /\ [][NamesNext]_namesVars

-----------------------------------------------------------------------------
\* The labels of the longest suffix, label by label, that is listed for a name.
ListedLabels(labels) ==
    LET tld  == labels[Len(labels)]
        fits == {n \in 1..Len(labels) :
                    n = 1 \/ \E i \in DOMAIN Listed(tld) :
                                Join(Drop(labels, Len(labels) - n)) = Listed(tld)[i]}
    IN  IF tld \in Tlds THEN Max(fits) ELSE 1

\* A listed suffix that ends the text in the middle of a label: ends_with
\* compares characters only.
LooksListed(name) ==
    LET tld == name.labels[Len(name.labels)]
    IN  /\ name.suffix = 0
        /\ ~name.root
        /\ tld \in Tlds
        /\ \E i \in DOMAIN Listed(tld) :
              /\ EndsWith(Text(name), Listed(tld)[i])
              /\ \A n \in 1..Len(name.labels) :
                    Join(Drop(name.labels, Len(name.labels) - n)) # Listed(tld)[i]

\* The top tables hold whole labels: the two aggregates of a name are its
\* suffix with one and with two labels before it, the second one empty when
\* there is none, for suffixes of the policy and of the public list alike.
AggregatesAreLabels ==
    task = "aggregate" /\ output # None /\ Len(Text(input)) >= 5 /\ Len(input.labels) > 1
        /\ ~LooksListed(input) =>
        LET n == Len(input.labels)
            wanted == IF input.suffix > 0 THEN input.suffix
                      ELSE IF input.root THEN 1 ELSE ListedLabels(input.labels)
            suffix == IF wanted < n THEN wanted ELSE 1
            tail(k) == Text([input EXCEPT !.labels = Drop(@, n - k)])
            from(k) == IF k < n THEN <<Dot>> \o tail(k) ELSE Text(input)
        IN  /\ output.q2 = from(suffix + 1)
            /\ output.q3 = IF suffix + 1 < n THEN from(suffix + 2) ELSE <<>>

\* A name decodes to what was encoded, also when its end is a pointer into an
\* earlier name of the message.
DecodesWhatWasEncoded ==
    task = "decode" /\ output # None =>
        /\ output.q2 = Join(input.whole)
        /\ output.q3 = Join(input.front \o Drop(input.whole, input.label - 1))
=============================================================================
