---------------------------- MODULE ProbeVerdicts ---------------------------
(***************************************************************************)
(* What a probe says of the answer it got: DNS over HTTPS, and HTTP checks. *)
(* The sections are specified apart.                                       *)
(***************************************************************************)
EXTENDS Sequences, SequencesExt, MetricGroups, Integers

-----------------------------------------------------------------------------
(***************************************************************************)
(* A DNS over HTTPS probe, from the name in the configuration to the       *)
(* verdict on a response.  Several requests may be open at once, and are   *)
(* answered in any order, also after the probe has stopped.  A name is a   *)
(* sequence of letters and dots.                                           *)
(***************************************************************************)
CONSTANTS
    Names,      \* values of qname
    NameMax,    \* the 253 characters of a name
    LabelMax,   \* the 63 characters of a label
    Expiries,   \* expiry times of certificates; 0 where a transfer has none
    MaxOpen     \* bound on the requests open at once

VARIABLES
    qname,      \* the configured name
    method,     \* http_method
    state,      \* "new", "refused", "running" or "stopped"
    get,        \* the dns parameter of _get_url, as numbers below 64
    open,       \* the requests that wait for their transfer
    cache,      \* *_cert_cache
    response,   \* ghost: what was answered last
    result,     \* what doh_result or fail was told last
    known       \* ghost: the last expiry that a transfer came with

dohVars == <<qname, method, state, get, open, cache, response, result, known>>

Dot == "."
Root == <<Dot>>
Nothing == [kind |-> "none"]

-----------------------------------------------------------------------------
(* The configuration. *)
\* A trailing dot goes, but for the root's.
Normalised(name) == IF Len(name) > 1 /\ Last(name) = Dot THEN Front(name) ELSE name

\* The texts between the dots.
Ends(name) == SelectSeq([i \in 1..Len(name) |-> i], LAMBDA i : name[i] = Dot) \o <<Len(name) + 1>>

Labels(name) ==
    LET ends == Ends(name)
    IN  [i \in 1..Len(ends) |-> SubSeq(name, IF i = 1 THEN 1 ELSE ends[i - 1] + 1, ends[i] - 1)]

ValidName(name) ==
    /\ name # <<>>
    /\ Len(name) <= NameMax
    /\ name # Root => \A i \in 1..Len(Labels(name)) : Len(Labels(name)[i]) \in 1..LabelMax

\* Mutant of WireName: the root is a dot.
WireNameDot(name) == name

WireName(name) == IF name = Root THEN <<>> ELSE name

\* addQuery: header, labels with their lengths, type and class.
Byte(letter) == IF letter = "a" THEN 97 ELSE 65

EncodedLabel(label) == <<Len(label)>> \o [i \in 1..Len(label) |-> Byte(label[i])]

Texts(name) == SelectSeq(Labels(name), LAMBDA label : label # <<>>)

QueryWire(name) ==
    <<0, 0, 1, 0, 0, 1, 0, 0, 0, 0, 0, 0>>
    \o FlattenSeq([i \in 1..Len(Texts(name)) |-> EncodedLabel(Texts(name)[i])])
    \o <<0, 0, 1, 0, 1>>

\* getName: the labels with dots between.
Decoded(name) ==
    LET texts == Texts(name)
        dotted == [i \in 1..Len(texts) |-> IF i = 1 THEN texts[i] ELSE <<Dot>> \o texts[i]]
    IN  FlattenSeq(dotted)

\* base64url of the bytes from i on: three at a time, and one or two at the end.
Group(n, digits) == SubSeq(<<n \div 262144, (n \div 4096) % 64, (n \div 64) % 64, n % 64>>, 1, digits)

\* Mutant of Tail64: the bytes left over are not moved up.
Tail64Low(rest) ==
    CASE Len(rest) = 0 -> <<>>
      [] Len(rest) = 1 -> Group(rest[1], 2)
      [] Len(rest) = 2 -> Group(rest[1] * 256 + rest[2], 3)

Tail64(rest) ==
    CASE Len(rest) = 0 -> <<>>
      [] Len(rest) = 1 -> Group(rest[1] * 65536, 2)
      [] Len(rest) = 2 -> Group(rest[1] * 65536 + rest[2] * 256, 3)

RECURSIVE Base64Url(_)
Base64Url(in) ==
    IF Len(in) < 3 THEN Tail64(in)
    ELSE Group(in[1] * 65536 + in[2] * 256 + in[3], 4) \o Base64Url(SubSeq(in, 4, Len(in)))

DohInit ==
    /\ qname \in Names
    /\ method \in {"GET", "POST"}
    /\ state = "new" /\ get = <<>> /\ open = 0 /\ cache = 0
    /\ response = Nothing /\ result = Nothing /\ known = 0

Start ==
    /\ state = "new"
    /\ LET name == Normalised(qname)
       IN  \/ /\ ValidName(name)
              /\ state' = "running"
              /\ get' = IF method = "GET" THEN Base64Url(QueryWire(WireName(name))) ELSE <<>>
           \/ ~ValidName(name) /\ state' = "refused" /\ UNCHANGED get
    /\ UNCHANGED <<qname, method, open, cache, response, result, known>>

\* The interval timer.
Fire ==
    /\ state = "running" /\ open < MaxOpen
    /\ open' = open + 1
    /\ UNCHANGED <<qname, method, state, get, cache, response, result, known>>

Stop ==
    /\ state = "running"
    /\ state' = "stopped"
    /\ UNCHANGED <<qname, method, get, open, cache, response, result, known>>

-----------------------------------------------------------------------------
(* The completion of a request. *)
\* A content type is the media type of DNS messages ("m", or "M" in capitals),
\* blanks, semicolons and other text.
ContentTypes ==
    {<<"m">>, <<"M">>, <<" ", "m", " ", ";", "x">>, <<"m", ";">>, <<"x">>, <<"x", ";", "m">>,
     <<>>, <<" ">>, <<"m", "x">>, <<" ", ";", "m">>}

\* doh_content_type_ok
ContentTypeOk(type) ==
    LET base == SelectInSeq(type, LAMBDA t : t = ";")
        media == IF base = 0 THEN type ELSE SubSeq(type, 1, base - 1)
        text == SelectSeq(media, LAMBDA t : t # " ")
    IN  text \in {<<"m">>, <<"M">>}

\* A message whose question is the probe's, in other capitals, another one's, or
\* missing; with as many declared and parsed records as the pairs say.
Fields ==
    [type |-> ContentTypes, whole |-> BOOLEAN, reply |-> BOOLEAN,
     question |-> {"same", "flipped", "longer", "none"}, qtype |-> {"same", "other"},
     tc |-> BOOLEAN, answers |-> {<<0, 0>>, <<2, 2>>, <<1, 0>>, <<2, 1>>},
     authority |-> {<<0, 0>>, <<1, 1>>, <<2, 1>>}, rcode |-> {0, 3}]

Good(expiry) ==
    [kind |-> "answer", type |-> <<"m">>, whole |-> TRUE, reply |-> TRUE, question |-> "same",
     qtype |-> "same", tc |-> FALSE, answers |-> <<1, 1>>, authority |-> <<0, 0>>, rcode |-> 0,
     expiry |-> expiry]

\* A response differs from a good one in one respect; a certificate comes with a
\* whole message as well as with a broken one.
Responses ==
    Vary(Fields, Good(0)) \cup UNION {Vary([whole |-> BOOLEAN], Good(e)) : e \in Expiries}

Flipped(name) == [i \in 1..Len(name) |-> CASE name[i] = "a" -> "A" [] name[i] = "A" -> "a" [] OTHER -> Dot]

\* The name that the response's question decodes to.
Echoed(r) ==
    LET sent == Decoded(WireName(Normalised(qname)))
    IN  CASE r.question = "same" -> sent
          [] r.question = "flipped" -> Flipped(sent)
          [] r.question = "longer" -> Append(sent, "a")

Lower(name) == [i \in 1..Len(name) |-> IF name[i] = "A" THEN "a" ELSE name[i]]

QuestionOk(r) ==
    /\ r.question # "none"
    /\ r.qtype = "same"
    /\ Lower(Echoed(r)) = Lower(WireName(Normalised(qname)))

\* Mutant of FullyParsed: the answers are all that matters.
AnswersParsed(r) == r.answers[2] >= r.answers[1]

\* doh_response_fully_parsed
FullyParsed(r) == r.answers[2] >= r.answers[1] /\ r.authority[2] >= r.authority[1]

ParseOk(r) ==
    /\ ContentTypeOk(r.type)
    /\ r.whole
    /\ r.reply
    /\ QuestionOk(r)
    /\ ~r.tc
    /\ FullyParsed(r)

\* Mutant of Remember: what a transfer brings is not kept.
RememberNot(expiry) == cache' = cache

Remember(expiry) == cache' = IF expiry # 0 THEN expiry ELSE cache

Answer(r) ==
    /\ open > 0
    /\ open' = open - 1
    /\ Remember(r.expiry)
    /\ LET ok == ParseOk(r)
       IN  result' = [kind |-> "sample", ok |-> ok, rcode |-> IF ok THEN r.rcode ELSE 0,
                      expiry |-> IF r.expiry # 0 THEN r.expiry ELSE cache]
    /\ response' = r
    /\ known' = IF r.expiry # 0 THEN r.expiry ELSE known
    /\ UNCHANGED <<qname, method, state, get>>

\* The error that a code of curl is counted as.
ErrorOf ==
    [resolve |-> "DnsLookupFailure", proxy |-> "DnsLookupFailure", connect |-> "ConnectFailure",
     timedout |-> "Timeout", other |-> "SocketError"]

TransportError(code) ==
    /\ open > 0
    /\ open' = open - 1
    /\ result' = [kind |-> "fail", error |-> ErrorOf[code]]
    /\ response' = Nothing
    /\ UNCHANGED <<qname, method, state, get, cache, known>>

DohNext ==
    \/ Start
    \/ Fire
    \/ Stop
    \/ \E r \in Responses : Answer(r)
    \/ \E code \in DOMAIN ErrorOf : TransportError(code)

DohSpec == DohInit /\ [][DohNext]_dohVars

-----------------------------------------------------------------------------
Sampled == result.kind = "sample"

\* What the user asked for: the labels of the name, however it ends.
Wanted == Lower(Decoded(qname))

\* A whole answer that echoes the question, in whatever capitals, is a success:
\* for every name that the configuration lets through, the root and names with
\* a trailing dot included.
HonestAnswerPasses ==
    /\ Sampled
    /\ ContentTypeOk(response.type) /\ response.whole /\ response.reply /\ ~response.tc
    /\ response.question \in {"same", "flipped"} /\ response.qtype = "same"
    /\ response.answers[1] = response.answers[2] /\ response.authority[1] = response.authority[2]
    => result.ok /\ result.rcode = response.rcode

\* A success is an answer to the name that was configured, with no record of its
\* answer or authority sections missing, and only a success has an rcode.
SuccessAnswersTheName ==
    Sampled =>
        /\ result.ok =>
               /\ response.whole /\ response.reply /\ ~response.tc
               /\ Lower(Echoed(response)) = Wanted
               /\ response.answers[1] = response.answers[2]
               /\ response.authority[1] = response.authority[2]
        /\ result.rcode # 0 => result.ok

\* Once a transfer came with a certificate, every sample carries the last expiry
\* known, whichever of the open requests it was and however they overtake.
SamplesCarryExpiry == Sampled => result.expiry = known

\* The parameter of a GET holds the query that a POST would send.
RECURSIVE FromBase64(_)
FromBase64(digits) ==
    CASE Len(digits) = 0 -> <<>>
      [] Len(digits) = 2 -> <<digits[1] * 4 + (digits[2] \div 16)>>
      [] Len(digits) = 3 -> <<digits[1] * 4 + (digits[2] \div 16),
                              (digits[2] % 16) * 16 + (digits[3] \div 4)>>
      [] Len(digits) > 3 -> <<digits[1] * 4 + (digits[2] \div 16),
                              (digits[2] % 16) * 16 + (digits[3] \div 4),
                              (digits[3] % 4) * 64 + digits[4]>>
                            \o FromBase64(SubSeq(digits, 5, Len(digits)))

GetCarriesQuery == get # <<>> => FromBase64(get) = QueryWire(qname)

-----------------------------------------------------------------------------
(***************************************************************************)
(* What HttpProbe concludes from a response: the capture of its headers    *)
(* and body under their limits, the status rule and the content assertions *)
(* of the configuration.  A response is described by what the assertions   *)
(* can tell apart, captured or not.                                        *)
(***************************************************************************)
CONSTANTS
    Assertions, \* content assertions a configuration may combine
    AtMost,     \* how many of them one configuration has
    HeaderLines,\* header lines of all responses of a transfer, in order
    HeaderCap   \* lines that fit in the capture

VARIABLES config, page, verdict

httpVars == <<config, page, verdict>>

Configs ==
    [asks : {a \in SUBSET Assertions : \E n \in 0..AtMost : \E f \in [1..n -> Assertions] :
                a = {f[i] : i \in 1..n}},
     expected : {"default", "all", "none"}, failure : BOOLEAN]

\* Where the body has the wanted text, the forbidden text and the JSON value.
Pages ==
    [status : {200, 404}, truncated : BOOLEAN, wanted : BOOLEAN, json : BOOLEAN,
     forbidden : {"nowhere", "prefix", "tail"}, size : 0..2,
     headers : HeaderLines, version : {"2", ""}]

\* StatusMatcher::matches and the status rule of the probe.
StatusOk(c, status) ==
    IF c.failure /\ status = 404 THEN FALSE
    ELSE CASE c.expected = "all" -> TRUE
           [] c.expected = "none" -> FALSE
           [] OTHER -> status \in 200..399

\* Mutant of HeaderLine: the headers of a redirect stay.
HeaderLineAll(got, line) ==
    IF line = "status" THEN got
    ELSE IF Len(got.seen) + 1 > HeaderCap THEN [got EXCEPT !.truncated = TRUE]
    ELSE [got EXCEPT !.seen = Append(@, line)]

\* header_capture: a status line starts over; what does not fit is dropped and flagged.
HeaderLine(got, line) ==
    IF line = "status" THEN [seen |-> <<>>, truncated |-> FALSE]
    ELSE IF Len(got.seen) + 1 > HeaderCap THEN [got EXCEPT !.truncated = TRUE]
    ELSE [got EXCEPT !.seen = Append(@, line)]

Captured(lines) == FoldLeft(HeaderLine, [seen |-> <<>>, truncated |-> FALSE], lines)

Has(seq, x) == \E i \in DOMAIN seq : seq[i] = x

\* BodyCheck, JsonPointerCheck and BodyNegativeCheck on the captured body.
BodyFails(asks, r) ==
    \/ "wanted" \in asks /\ ~r.wanted
    \/ "json" \in asks /\ ~r.json
    \/ "forbidden" \in asks /\ r.forbidden # "nowhere"

\* HeaderMatchers::matches on the captured headers.
HeadersMatch(asks, seen) ==
    /\ "noBadHeader" \in asks => ~Has(seen, "bad")
    /\ "goodHeader" \in asks => Has(seen, "good")

BodyAsks == {"wanted", "json", "forbidden"}
SizeAsks == {"min", "max"}
HeaderAsks == {"noBadHeader", "goodHeader"}

\* A forbidden text in the part of a truncated body that was kept.
Visible(asks, r) == "forbidden" \in asks /\ r.forbidden = "prefix"

\* Mutant of Checked: only body assertions count as a check.
CheckedBody(asks, r) == asks \cap BodyAsks # {} /\ (~r.truncated \/ Visible(asks, r))

\* content_checked: some assertion could be evaluated.
Checked(asks, r) ==
    \/ asks \cap BodyAsks # {} /\ (~r.truncated \/ Visible(asks, r))
    \/ asks \cap (SizeAsks \cup HeaderAsks \cup {"fresh", "version"}) # {}

\* Mutant of Fails: only the body is looked at.
FailsBody(asks, r) ==
    /\ asks \cap BodyAsks # {}
    /\ IF r.truncated THEN Visible(asks, r) ELSE BodyFails(asks, r)

Fails(asks, r) ==
    LET got == Captured(r.headers)
    IN  \/ asks \cap BodyAsks # {}
           /\ IF r.truncated THEN Visible(asks, r) ELSE BodyFails(asks, r)
        \/ "min" \in asks /\ r.size < 1
        \/ "max" \in asks /\ r.size > 1
        \/ asks \cap HeaderAsks # {} /\ ~HeadersMatch(asks, got.seen)
        \/ "noBadHeader" \in asks /\ got.truncated
        \/ "fresh" \in asks /\ ~Has(got.seen, "fresh")
        \/ "version" \in asks /\ r.version # "2"

\* content_check: 0 not evaluated, 1 passed, 2 failed.
ContentCheck(c, r) ==
    IF ~StatusOk(c, r.status) \/ ~Checked(c.asks, r) THEN 0
    ELSE IF Fails(c.asks, r) THEN 2 ELSE 1

None == [ok |-> FALSE, content |-> -1]

HttpInit ==
    /\ config \in Configs /\ page \in Pages
    /\ verdict = None
    \* only what the configuration asks about varies
    /\ "wanted" \notin config.asks => page.wanted
    /\ "json" \notin config.asks => page.json
    /\ "forbidden" \notin config.asks => page.forbidden = "nowhere"
    /\ config.asks \cap BodyAsks = {} => ~page.truncated
    /\ config.asks \cap SizeAsks = {} => page.size = 1
    /\ config.asks \cap (HeaderAsks \cup {"fresh"}) = {} =>
        page.headers = CHOOSE h \in HeaderLines : TRUE
    /\ "version" \notin config.asks => page.version = "2"

Judge ==
    /\ verdict = None
    /\ verdict' = [ok |-> StatusOk(config, page.status),
                   content |-> ContentCheck(config, page)]
    /\ UNCHANGED <<config, page>>

HttpNext == Judge

\* What is true of the final response, whatever was captured of it.
FinalHeaders(lines) ==
    LET starts == {i \in DOMAIN lines : lines[i] = "status"}
    IN  {lines[i] : i \in {j \in DOMAIN lines : \A s \in starts : j > s}}

Holds(ask) ==
    CASE ask = "wanted" -> page.wanted
      [] ask = "json" -> page.json
      [] ask = "forbidden" -> page.forbidden = "nowhere"
      [] ask = "min" -> page.size >= 1
      [] ask = "max" -> page.size <= 1
      [] ask = "noBadHeader" -> "bad" \notin FinalHeaders(page.headers)
      [] ask = "goodHeader" -> "good" \in FinalHeaders(page.headers)
      [] ask = "fresh" -> "fresh" \in FinalHeaders(page.headers)
      [] ask = "version" -> page.version = "2"

(***************************************************************************)
(* A content check that passes is true of what the server sent: of the     *)
(* final response and not of a redirect, and also where the capture was    *)
(* cut, except for body assertions on a truncated body, which do not count.*)
(***************************************************************************)
PassIsTrue ==
    verdict.content = 1 =>
        \A ask \in config.asks : Holds(ask) \/ (ask \in BodyAsks /\ page.truncated)

(***************************************************************************)
(* A content check that fails has a cause in the response: an assertion is *)
(* false of it, or too many headers left one undecided.                    *)
(***************************************************************************)
FailHasCause ==
    verdict.content = 2 =>
        \/ \E ask \in config.asks : ~Holds(ask)
        \/ Captured(page.headers).truncated

(***************************************************************************)
(* Nothing is left unchecked silently: no verdict means a bad status, no   *)
(* assertion, or only body assertions on a truncated body.                 *)
(***************************************************************************)
UncheckedIsUndecidable ==
    verdict.content = 0 /\ verdict.ok =>
        config.asks = {} \/ (config.asks \subseteq BodyAsks /\ page.truncated)
=============================================================================
