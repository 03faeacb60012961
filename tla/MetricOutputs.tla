---------------------------- MODULE MetricOutputs ---------------------------
(***************************************************************************)
(* How metrics are written out: the rows of top-N tables, the text of      *)
(* labels, and the Prometheus exposition.  The sections are specified      *)
(* apart.                                                                  *)
(***************************************************************************)
EXTENDS Integers, Sequences, SequencesExt, FiniteSetsExt, FiniteSets

-----------------------------------------------------------------------------
(***************************************************************************)
(* The rows a TopN metric (src/src/Metrics.h) exports: the items of its    *)
(* sketch by falling estimate, no more than top_count of them, cut at the  *)
(* percentile threshold, each with its labels. One loop per format walks   *)
(* the rows; the label map it carries from one row to the next is its      *)
(* state. Geographic items have a place label only when it is known.       *)
(***************************************************************************)
CONSTANTS
    Items,         \* [name, place] records; the place of an item may be ""
    Estimates,     \* estimates an item may have
    TopCounts,     \* values of top_count
    Percentiles,   \* values of topn_percentile_threshold
    Formats        \* the exports that are run: "json", "prometheus", "otel"

VARIABLES
    estimate,      \* the sketch: the items it holds and their estimates
    settings,      \* top_count and percentile threshold
    items,         \* get_frequent_items as the export got them
    format,        \* the export that runs
    at,            \* the rows it has gone through
    labels,        \* its label map: the item's name and place
    rows           \* what it has written

rowsVars == <<estimate, settings, items, format, at, labels, rows>>

NoLabels == [name |-> "", place |-> ""]

\* Sorted by falling estimate; the order among equals is not specified.
Orders(est) ==
    {order \in SetToSeqs(DOMAIN est) :
        \A i \in 1..(Len(order) - 1) : est[order[i]] >= est[order[i + 1]]}

Shown(order, set) == SubSeq(order, 1, Min({set.top, Len(order)}))

\* Mutant of Threshold: the rank is counted from the largest.
ThresholdFromTop(est, order, set) ==
    LET shown  == Shown(order, set)
        wanted == (set.percentile * Len(shown) + 99) \div 100
    IN  IF shown = <<>> THEN 0 ELSE est[shown[Max({1, wanted})]]

\* The quantile, at the percentile, of the estimates that may be shown.
Threshold(est, order, set) ==
    LET shown  == Shown(order, set)
        wanted == (set.percentile * Len(shown) + 99) \div 100
        rank   == Max({1, wanted})
    IN  IF shown = <<>> THEN 0 ELSE est[shown[Len(shown) + 1 - rank]]

RowsInit ==
    /\ \E held \in SUBSET Items : estimate \in [held -> Estimates]
    /\ settings \in [top : TopCounts, percentile : Percentiles]
    /\ items \in Orders(estimate)
    /\ format \in Formats
    /\ at = 0
    /\ labels = NoLabels
    /\ rows = <<>>

\* The formatter sets the name, and the place only when there is one.
Format(map, item) ==
    [map EXCEPT !.name = item.name, !.place = IF item.place = "" THEN @ ELSE item.place]

InRange ==
    /\ at < Len(Shown(items, settings))
    /\ estimate[items[at + 1]] >= Threshold(estimate, items, settings)

Row(map) == [item |-> items[at + 1], labels |-> map, estimate |-> estimate[items[at + 1]]]

\* to_json: an object of its own for every row.
JsonRow ==
    /\ format = "json"
    /\ InRange
    /\ rows' = Append(rows, Row(Format(NoLabels, items[at + 1])))
    /\ at' = at + 1
    /\ UNCHANGED <<estimate, settings, items, format, labels>>

\* Mutant of PrometheusRow: the rows share a label map.
PrometheusRowShared ==
    /\ format = "prometheus"
    /\ InRange
    /\ labels' = Format(labels, items[at + 1])
    /\ rows' = Append(rows, Row(labels'))
    /\ at' = at + 1
    /\ UNCHANGED <<estimate, settings, items, format>>

\* to_prometheus: a fresh label map for every row.
PrometheusRow ==
    /\ format = "prometheus"
    /\ InRange
    /\ rows' = Append(rows, Row(Format(NoLabels, items[at + 1])))
    /\ at' = at + 1
    /\ UNCHANGED <<estimate, settings, items, format, labels>>

\* to_opentelemetry: one label map for all the rows; no row without a name.
OpenTelemetryRow ==
    /\ format = "otel"
    /\ InRange
    /\ labels' = Format(labels, items[at + 1])
    /\ rows' = IF labels'.name = "" THEN rows ELSE Append(rows, Row(labels'))
    /\ at' = at + 1
    /\ UNCHANGED <<estimate, settings, items, format>>

RowsNext == JsonRow \/ PrometheusRow \/ OpenTelemetryRow

RowsSpec == RowsInit /\ [][RowsNext]_rowsVars

-----------------------------------------------------------------------------
\* A row describes one item: it carries that item's labels and none that an
\* earlier row of the same export left behind.
RowsDescribeOneItem ==
    \A i \in DOMAIN rows : rows[i].labels = rows[i].item

\* An export that has ended shows the largest items: nothing it leaves out is
\* larger than what it shows, unless top_count is zero it shows at least one,
\* and every row is at least as large as the given share of the candidates.
\* Only OpenTelemetry leaves an item without a name out.
LargestAreShown ==
    ~InRange =>
        LET shown == {rows[i].item : i \in DOMAIN rows}
            named == {x \in DOMAIN estimate : format # "otel" \/ x.name # ""}
        IN  /\ named = DOMAIN estimate /\ named # {} /\ settings.top > 0 => rows # <<>>
            /\ \A i \in DOMAIN rows :
                  /\ \A x \in named \ shown : estimate[x] <= rows[i].estimate
                  /\ 100 * Cardinality({k \in DOMAIN Shown(items, settings) :
                                          estimate[items[k]] <= rows[i].estimate})
                        >= settings.percentile * Len(Shown(items, settings))

-----------------------------------------------------------------------------
(***************************************************************************)
(* The values of labels in the Prometheus and OTLP outputs.  They are      *)
(* bytes taken from packets; a byte that is not part of well formed UTF-8  *)
(* is written as a backslash and three digits, and Prometheus escapes the  *)
(* backslash, the quote and the newline once more.  A value is a sequence  *)
(* of bytes.                                                               *)
(***************************************************************************)
CONSTANTS
    Values,     \* the label values
    Quads       \* four bytes each, to be looked at for a UTF-8 sequence

VARIABLES
    task,       \* what is to be done with the bytes, or was
    input,      \* the bytes
    rendered,   \* utf8_label_value, or the length of a sequence
    escaped     \* append_escaped

Backslash == 92
Quote == 34
Newline == 10
LetterN == 110
IsDigit(b) == b \in 48..57

-----------------------------------------------------------------------------
\* The length that a lead byte announces, and the bounds of the second byte;
\* Table 3-7 of Unicode.
LeadLength(b) ==
    CASE b < 128 -> 1
      [] b \in 194..223 -> 2
      [] b \in 224..239 -> 3
      [] b \in 240..244 -> 4
      [] OTHER -> 0

\* Mutant of Second: any continuation byte will do.
SecondAny(lead) == 128..191

Second(lead) ==
    CASE lead = 224 -> 160..191
      [] lead = 237 -> 128..159
      [] lead = 240 -> 144..191
      [] lead = 244 -> 128..143
      [] OTHER -> 128..191

\* utf8_sequence_length
SequenceLength(v, i) ==
    LET len == LeadLength(v[i])
    IN  IF /\ len > 0
           /\ Len(v) - i + 1 >= len
           /\ len > 1 => v[i + 1] \in Second(v[i])
           /\ \A k \in 2..(len - 1) : v[i + k] \in 128..191
        THEN len ELSE 0

\* Mutant of BeforeDigits: a backslash is never taken for the start of an escape.
BeforeNone(v, i) == FALSE

\* backslash_before_digits
BeforeDigits(v, i) ==
    /\ v[i] = Backslash
    /\ Len(v) - i + 1 > 3
    /\ \A k \in 1..3 : IsDigit(v[i + k])

\* label_value_needs_escape: from i on.
RECURSIVE NeedsEscape(_, _)
NeedsEscape(v, i) ==
    IF i > Len(v) THEN FALSE
    ELSE \/ SequenceLength(v, i) = 0
         \/ BeforeDigits(v, i)
         \/ NeedsEscape(v, i + SequenceLength(v, i))

ThreeDigits(b) == <<Backslash, 48 + (b \div 100), 48 + ((b \div 10) % 10), 48 + (b % 10)>>

\* utf8_label_value: from i on.
RECURSIVE RenderFrom(_, _)
RenderFrom(v, i) ==
    IF i > Len(v) THEN <<>>
    ELSE IF BeforeDigits(v, i) THEN ThreeDigits(Backslash) \o RenderFrom(v, i + 1)
    ELSE LET len == SequenceLength(v, i)
         IN  IF len > 0 THEN SubSeq(v, i, i + len - 1) \o RenderFrom(v, i + len)
             ELSE ThreeDigits(v[i]) \o RenderFrom(v, i + 1)

Utf8LabelValue(v) == IF NeedsEscape(v, 1) THEN RenderFrom(v, 1) ELSE v

\* Mutant of EscapedByte: the backslash is left as it is.
EscapedByteQuoteOnly(b) ==
    CASE b = Quote -> <<Backslash, Quote>>
      [] b = Newline -> <<Backslash, LetterN>>
      [] OTHER -> <<b>>

EscapedByte(b) ==
    CASE b = Backslash -> <<Backslash, Backslash>>
      [] b = Quote -> <<Backslash, Quote>>
      [] b = Newline -> <<Backslash, LetterN>>
      [] OTHER -> <<b>>

\* append_escaped
Escaped(v) == FlattenSeq([i \in 1..Len(v) |-> EscapedByte(v[i])])

-----------------------------------------------------------------------------
TextInit ==
    /\ \/ task = "value" /\ input \in Values
       \/ task = "quad" /\ input \in Quads
    /\ rendered = <<>> /\ escaped = <<>>

Render ==
    /\ task = "value"
    /\ rendered' = Utf8LabelValue(input)
    /\ escaped' = Escaped(rendered')
    /\ task' = "rendered"
    /\ UNCHANGED input

Measure ==
    /\ task = "quad"
    /\ rendered' = <<SequenceLength(input, 1)>>
    /\ task' = "measured"
    /\ UNCHANGED <<input, escaped>>

TextNext == Render \/ Measure

TextSpec == TextInit /\ [][TextNext]_<<task, input, rendered, escaped>>

-----------------------------------------------------------------------------
\* What a byte string means to a reader of the outputs: a backslash before three
\* digits is a byte; before that, in the Prometheus text, a backslash takes the
\* next byte.
StartsWithByte(v) == Len(v) >= 4 /\ v[1] = Backslash /\ IsDigit(v[2]) /\ IsDigit(v[3]) /\ IsDigit(v[4])

RECURSIVE ReadBytes(_)
ReadBytes(v) ==
    IF v = <<>> THEN <<>>
    ELSE IF StartsWithByte(v)
    THEN <<(v[2] - 48) * 100 + (v[3] - 48) * 10 + v[4] - 48>> \o ReadBytes(SubSeq(v, 5, Len(v)))
    ELSE <<v[1]>> \o ReadBytes(Tail(v))

RECURSIVE ReadText(_)
ReadText(v) ==
    IF v = <<>> THEN <<>>
    ELSE IF Head(v) = Backslash /\ Len(v) > 1
    THEN <<IF v[2] = LetterN THEN Newline ELSE v[2]>> \o ReadText(SubSeq(v, 3, Len(v)))
    ELSE <<v[1]>> \o ReadText(Tail(v))

RECURSIVE WellFormed(_)
WellFormed(v) ==
    IF v = <<>> THEN TRUE
    ELSE /\ SequenceLength(v, 1) > 0
         /\ WellFormed(SubSeq(v, 1 + SequenceLength(v, 1), Len(v)))

\* A label value is valid UTF-8 in the outputs, whatever the packet held, and
\* can be read back to the packet's bytes: two values never become one series.
ValuesStayApart ==
    task = "rendered" => WellFormed(rendered) /\ ReadBytes(rendered) = input

\* In the Prometheus text a value ends at its own closing quote, on its own line,
\* and reads back as it was rendered.
TextReadsBack ==
    task = "rendered" =>
        /\ ReadText(escaped) = rendered
        /\ Newline \notin ToSet(escaped)
        /\ \A i \in 1..Len(escaped) : escaped[i] = Quote => i > 1 /\ escaped[i - 1] = Backslash

\* The scalar value that the first n of four bytes encode, their bits put
\* together.
Scalar(q, n) ==
    CASE n = 1 -> q[1]
      [] n = 2 -> (q[1] - 192) * 64 + (q[2] - 128)
      [] n = 3 -> (q[1] - 224) * 4096 + (q[2] - 128) * 64 + (q[3] - 128)
      [] n = 4 -> (q[1] - 240) * 262144 + (q[2] - 128) * 4096 + (q[3] - 128) * 64 + (q[4] - 128)

\* The lead bytes of n bytes by their bits, and the least scalar value that needs
\* n bytes.
LeadBits == <<0..127, 192..223, 224..239, 240..247>>
Least == <<0, 128, 2048, 65536>>

\* utf8_sequence_length accepts exactly the shortest encodings of the Unicode
\* scalar values: no overlong form, no surrogate, nothing above 10FFFF.
LengthIsUnicode ==
    task = "measured" =>
        \A n \in 1..4 :
            rendered[1] = n <=>
                /\ input[1] \in LeadBits[n]
                /\ \A k \in 2..n : input[k] \in 128..191
                /\ Scalar(input, n) \in Least[n]..1114111
                /\ Scalar(input, n) \notin 55296..57343

-----------------------------------------------------------------------------
(***************************************************************************)
(* PrometheusSerializer: the metrics of all policies write their series    *)
(* one after the other, in any order, and finalize() renders each family   *)
(* as one block.  The names of labels are numbers, in the order that the   *)
(* LabelMap has them.                                                      *)
(***************************************************************************)
CONSTANTS
    Bases,      \* the names of families
    Types,      \* their types
    Helps,      \* the HELP texts but the empty one
    Static,     \* prometheus_static_labels()
    LabelMaps,  \* the labels given with a series
    MaxWrites   \* bound on the series

VARIABLES
    order,      \* _order
    families,   \* _families
    out,        \* the result of finalize(), a sequence of blocks
    written     \* ghost: the arguments of the writes

expositionVars == <<order, families, out, written>>

NoHelp == ""

FamiliesInit ==
    /\ order = <<>>
    /\ families = [b \in {} |-> 0]
    /\ out = <<>>
    /\ written = <<>>

-----------------------------------------------------------------------------
Pairs(labelMap, keys) ==
    LET sorted == SetToSortSeq(keys, <)
    IN  [i \in 1..Len(sorted) |-> <<sorted[i], labelMap[sorted[i]]>>]

\* Mutant of AppendLabels: every static label is written.
AppendAllLabels(labelMap) == Pairs(Static, DOMAIN Static) \o Pairs(labelMap, DOMAIN labelMap)

\* append_labels: a static label gives way to one of the call.
AppendLabels(labelMap) ==
    Pairs(Static, DOMAIN Static \ DOMAIN labelMap) \o Pairs(labelMap, DOMAIN labelMap)

\* The first write fixes type and HELP, a later one fills an empty HELP.
NewFamily(type, help) == [type |-> type, help |-> help, body |-> <<>>]

\* Mutant of Filled: the HELP stays as the first write gave it.
FilledNot(family, help) == family

Filled(family, help) ==
    IF family.help = NoHelp /\ help # NoHelp THEN [family EXCEPT !.help = help] ELSE family

WithSeries(family, labelMap) == [family EXCEPT !.body = Append(@, AppendLabels(labelMap))]

Write(base, type, help, labelMap) ==
    /\ out = <<>>
    /\ Len(written) < MaxWrites
    /\ LET known == base \in DOMAIN families
           family == IF known THEN Filled(families[base], help) ELSE NewFamily(type, help)
       IN  /\ order' = IF known THEN order ELSE Append(order, base)
           /\ families' = [b \in DOMAIN families \cup {base} |->
                              IF b = base THEN WithSeries(family, labelMap) ELSE families[b]]
    /\ written' = Append(written, [base |-> base, type |-> type, help |-> help, labels |-> labelMap])
    /\ UNCHANGED out

Block(base) ==
    [base |-> base, help |-> families[base].help, type |-> families[base].type,
     series |-> families[base].body]

Finalize ==
    /\ out = <<>>
    /\ out' = [i \in 1..Len(order) |-> Block(order[i])]
    /\ UNCHANGED <<order, families, written>>

FamiliesNext ==
    \/ \E b \in Bases, t \in Types, h \in Helps \cup {NoHelp}, l \in LabelMaps : Write(b, t, h, l)
    \/ Finalize

FamiliesSpec == FamiliesInit /\ [][FamiliesNext]_expositionVars

-----------------------------------------------------------------------------
WritesOf(base) == SelectSeq(written, LAMBDA w : w.base = base)

HelpOf(writes) ==
    LET told == SelectSeq(writes, LAMBDA w : w.help # NoHelp)
    IN  IF told = <<>> THEN NoHelp ELSE told[1].help

\* However the writes of different metrics interleave, every family is one block
\* of the text, with the type of its first write, the first HELP that any of them
\* gave, and a series for each of them.
OneBlockPerFamily ==
    out # <<>> =>
        /\ {out[i].base : i \in 1..Len(out)} = {written[i].base : i \in 1..Len(written)}
        /\ \A i, j \in 1..Len(out) : out[i].base = out[j].base => i = j
        /\ \A i \in 1..Len(out) :
               LET writes == WritesOf(out[i].base)
               IN  /\ out[i].type = writes[1].type
                   /\ out[i].help = HelpOf(writes)
                   /\ Len(out[i].series) = Len(writes)

\* No label is twice in a series; each has the value given with the series, or
\* else the static one.
LabelsOnce ==
    \A i \in 1..Len(out) : \A n \in 1..Len(out[i].series) :
        LET series == out[i].series[n]
            given == WritesOf(out[i].base)[n].labels
        IN  /\ Len(series) = Cardinality(DOMAIN Static \cup DOMAIN given)
            /\ \A k \in 1..Len(series) :
                   series[k][2] = IF series[k][1] \in DOMAIN given
                                  THEN given[series[k][1]] ELSE Static[series[k][1]]
=============================================================================
