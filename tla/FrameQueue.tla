----------------------------- MODULE FrameQueue -----------------------------
(***************************************************************************)
(* The writer's side of the frame streams library: the queue of frames     *)
(* between two threads, and the coding of control frames.  The sections are *)
(* specified apart.                                                        *)
(***************************************************************************)
EXTENDS Naturals, SequencesExt, Sequences

-----------------------------------------------------------------------------
(***************************************************************************)
(* libfstrm's I/O thread: one producer hands entries over through a ring   *)
(* without a lock (my_queue_mb, head written by the producer only and tail *)
(* by the I/O thread only), and the I/O thread gathers them in an output   *)
(* queue, writes them through a writer that may fail and be opened again,  *)
(* and frees every entry exactly once.  The steps are the ring's loads and *)
(* stores in program order, which its barriers keep.                       *)
(***************************************************************************)
CONSTANTS QueueSize, OutputSize, MaxEntries

VARIABLES
    data, head, tail,           \* struct my_queue
    ppc, ptail, next,           \* producer: its step, the tail it read, entries made
    cpc, chead, entry,          \* I/O thread: its step, the head it read, entry in hand
    outq, opened, shuttingDown, \* struct fstrm_iothr
    accepted, written, freed    \* history

producerVars == <<ppc, ptail, next, accepted>>
threadVars == <<cpc, chead, entry, outq, opened, written, freed>>
queueVars == <<data, head, tail, shuttingDown, producerVars, threadVars>>

\* q_space and q_count; the size is a power of two.
Space(h, t) == (t + QueueSize - ((h + 1) % QueueSize)) % QueueSize

Queued(h, t) == (h + QueueSize - t) % QueueSize

QueueInit ==
    /\ data = [i \in 0..(QueueSize - 1) |-> 0] /\ head = 0 /\ tail = 0
    /\ ppc = "idle" /\ ptail = 0 /\ next = 1
    /\ cpc = "loop" /\ chead = 0 /\ entry = 0
    /\ outq = <<>> /\ opened \in BOOLEAN /\ shuttingDown = FALSE
    /\ accepted = <<>> /\ written = <<>> /\ freed = <<>>

-----------------------------------------------------------------------------
\* fstrm_iothr_submit: the checks, and the load of tail.
Submit ==
    /\ ppc = "idle" /\ next <= MaxEntries /\ ~shuttingDown
    /\ ptail' = tail
    /\ ppc' = "fill"
    /\ UNCHANGED <<data, head, tail, shuttingDown, next, accepted, threadVars>>

\* my_queue_mb_insert up to the write barrier, or fstrm_res_again.
Fill ==
    /\ ppc = "fill"
    /\ IF Space(head, ptail) >= 1
       THEN data' = [data EXCEPT ![head] = next] /\ ppc' = "publish" /\ UNCHANGED next
       ELSE ppc' = "idle" /\ next' = next + 1 /\ UNCHANGED data
    /\ UNCHANGED <<head, tail, shuttingDown, ptail, accepted, threadVars>>

Publish ==
    /\ ppc = "publish"
    /\ head' = (head + 1) % QueueSize
    /\ accepted' = Append(accepted, next)
    /\ next' = next + 1
    /\ ppc' = "idle"
    /\ UNCHANGED <<data, tail, shuttingDown, ptail, threadVars>>

\* fstrm_iothr_destroy up to the join.
Destroy ==
    /\ ~shuttingDown
    /\ shuttingDown' = TRUE
    /\ UNCHANGED <<data, head, tail, producerVars, threadVars>>

-----------------------------------------------------------------------------
\* fstrm__iothr_flush_output: a failed write closes the writer, and the
\* entries are freed whether they were written or not.
FlushOutput ==
    /\ \/ opened /\ outq # <<>> /\ written' = written \o outq /\ opened' = opened
       \/ opened /\ outq # <<>> /\ written' = written /\ opened' = FALSE
       \/ (~opened \/ outq = <<>>) /\ UNCHANGED <<written, opened>>
    /\ freed' = freed \o outq

\* fstrm__iothr_maybe_open: when the interval has passed the open may succeed.
MaybeOpen ==
    /\ cpc = "loop" /\ ~shuttingDown /\ ~opened
    /\ opened' = TRUE
    /\ UNCHANGED <<data, head, tail, shuttingDown, producerVars, cpc, chead, entry,
                   outq, written, freed>>

\* my_queue_mb_remove: the load of head, the copy, the store of tail.
ReadHead ==
    /\ cpc = "loop"
    /\ chead' = head
    /\ cpc' = IF Queued(head, tail) >= 1 THEN "copy"
              ELSE IF shuttingDown THEN "last" ELSE "sleep"
    /\ UNCHANGED <<data, head, tail, shuttingDown, producerVars, entry, outq, opened,
                   written, freed>>

Copy ==
    /\ cpc = "copy"
    /\ entry' = data[tail]
    /\ cpc' = "advance"
    /\ UNCHANGED <<data, head, tail, shuttingDown, producerVars, chead, outq, opened,
                   written, freed>>

Advance ==
    /\ cpc = "advance"
    /\ tail' = (tail + 1) % QueueSize
    /\ cpc' = "process"
    /\ UNCHANGED <<data, head, shuttingDown, producerVars, chead, entry, outq, opened,
                   written, freed>>

\* Mutant of ProcessEntry: the entry goes to the front of the output queue.
ProcessEntryFirst ==
    /\ cpc = "process"
    /\ \/ /\ ~opened
          /\ freed' = Append(freed, entry)
          /\ UNCHANGED <<outq, opened, written>>
       \/ /\ opened /\ Len(outq) < OutputSize
          /\ outq' = <<entry>> \o outq
          /\ UNCHANGED <<opened, written, freed>>
       \/ /\ opened /\ outq # <<>>
          /\ FlushOutput
          /\ outq' = <<entry>>
    /\ cpc' = "loop"
    /\ UNCHANGED <<data, head, tail, shuttingDown, producerVars, chead, entry>>

\* fstrm__iothr_process_queue_entry: with the writer closed the entry is
\* discarded, otherwise it joins the output queue, which is flushed first when
\* it is full or holds more bytes than the buffer hint.
ProcessEntry ==
    /\ cpc = "process"
    /\ \/ /\ ~opened
          /\ freed' = Append(freed, entry)
          /\ UNCHANGED <<outq, opened, written>>
       \/ /\ opened /\ Len(outq) < OutputSize
          /\ outq' = Append(outq, entry)
          /\ UNCHANGED <<opened, written, freed>>
       \/ /\ opened /\ outq # <<>>
          /\ FlushOutput
          /\ outq' = <<entry>>
    /\ cpc' = "loop"
    /\ UNCHANGED <<data, head, tail, shuttingDown, producerVars, chead, entry>>

\* pthread_cond_timedwait: woken by a signal, or timed out and flushing.
Sleep ==
    /\ cpc = "sleep"
    /\ cpc' = "loop"
    /\ \/ UNCHANGED <<outq, opened, written, freed>>
       \/ FlushOutput /\ outq' = <<>>
    /\ UNCHANGED <<data, head, tail, shuttingDown, producerVars, chead, entry>>

\* The end of the thread, once a drain finds the ring empty.
Exit ==
    /\ cpc = "last"
    /\ FlushOutput
    /\ outq' = <<>>
    /\ cpc' = "exited"
    /\ UNCHANGED <<data, head, tail, shuttingDown, producerVars, chead, entry>>

\* Mutant of FreeQueues: the ring is taken to be empty after the join.
FreeQueuesEmpty ==
    /\ cpc = "exited" /\ ppc = "idle"
    /\ tail' = head
    /\ cpc' = "destroyed"
    /\ UNCHANGED <<data, head, shuttingDown, producerVars, chead, entry, outq, opened, written, freed>>

\* fstrm__iothr_free_queues, after the join: an entry accepted behind the
\* drain is still in the ring.  The caller has stopped submitting by now.
FreeQueues ==
    /\ cpc = "exited" /\ ppc = "idle"
    /\ freed' = freed \o [i \in 1..Queued(head, tail) |-> data[(tail + i - 1) % QueueSize]]
    /\ tail' = head
    /\ cpc' = "destroyed"
    /\ UNCHANGED <<data, head, shuttingDown, producerVars, chead, entry, outq, opened, written>>

Producer == Submit \/ Fill \/ Publish

Thread ==
    \/ ReadHead \/ Copy \/ Advance \/ ProcessEntry \/ Sleep \/ Exit \/ FreeQueues

QueueNext == Producer \/ Thread \/ MaybeOpen \/ Destroy

(***************************************************************************)
(* No entry is freed twice, and when fstrm_iothr_destroy returns every     *)
(* accepted entry has been freed: the ones written, the ones discarded with*)
(* a closed writer, and those accepted behind the last drain.              *)
(***************************************************************************)
FreedOnce ==
    /\ IsInjective(freed)
    /\ cpc = "destroyed" => ToSet(freed) = ToSet(accepted)

(***************************************************************************)
(* What the writer gets is in the order of submission, each entry at most  *)
(* once, and only entries that were published: the ring never shows the    *)
(* I/O thread a slot before it is filled or after it is overwritten.       *)
(***************************************************************************)
WrittenInOrder ==
    /\ \A i, j \in DOMAIN written : i < j => written[i] < written[j]
    /\ ToSet(written) \subseteq ToSet(accepted)

-----------------------------------------------------------------------------
(***************************************************************************)
(* The control frames of Frame Streams as they go over the wire: one end   *)
(* encodes a control object, a cell of the frame may be damaged on the     *)
(* way, and the other end decodes it.  A frame is a sequence of cells; a   *)
(* 32 bit integer is one cell and so is a byte of a content type, and the  *)
(* lengths count cells.                                                    *)
(***************************************************************************)
CONSTANTS
    FrameMax,       \* FSTRM_CONTROL_FRAME_LENGTH_MAX
    TypeMax,        \* FSTRM_CONTROL_FIELD_CONTENT_TYPE_LENGTH_MAX
    ContentTypes,   \* the content types of the objects
    MaxTypes        \* bound on the content types of one object

VARIABLES
    control,    \* the object encoded
    header,     \* FSTRM_CONTROL_FLAG_WITH_HEADER
    wire,       \* the frame
    damaged,    \* whether the frame is not one the encoder made
    got,        \* the object decoded
    pc          \* what has been done

\* The types of a control frame, and the one type of field it may have.
ACCEPT == 1
START == 2
STOP == 3
READY == 4
FINISH == 5
Types == {ACCEPT, START, STOP, READY, FINISH}
CONTENT_TYPE == 1

\* fstrm_control_reset
Nothing == [ok |-> FALSE, type |-> 0, types |-> <<>>]

\* fstrm_control_set_type and fstrm_control_add_field_content_type
Objects == [ok : {TRUE}, type : Types, types : BoundedSeq(ContentTypes, MaxTypes)]

ControlInit ==
    /\ control \in Objects
    /\ header \in BOOLEAN
    /\ wire = <<>> /\ damaged = FALSE /\ got = Nothing /\ pc = "encode"

-----------------------------------------------------------------------------
\* The content types that an object's frame carries: STOP and FINISH none, START
\* the first one.
Carried(c) ==
    CASE c.type \in {STOP, FINISH} -> <<>>
      [] c.type = START /\ c.types # <<>> -> <<Head(c.types)>>
      [] OTHER -> c.types

Field(t) == <<CONTENT_TYPE, Len(t)>> \o t

Body(c) == <<c.type>> \o FlattenSeq([i \in 1..Len(Carried(c)) |-> Field(Carried(c)[i])])

\* fstrm_control_encoded_size counts the header, and refuses what is over.
HeaderSize(h) == IF h THEN 2 ELSE 0

EncodedSize(c, h) == HeaderSize(h) + Len(Body(c))

Encodable(c, h) ==
    /\ \A i \in 1..Len(Carried(c)) : Len(Carried(c)[i]) <= TypeMax
    /\ EncodedSize(c, h) <= FrameMax

\* fstrm_control_encode: the length in the header leaves the header out.
Encoded(c, h) == (IF h THEN <<0, EncodedSize(c, h) - HeaderSize(h)>> ELSE <<>>) \o Body(c)

Encode ==
    /\ pc = "encode"
    /\ \/ Encodable(control, header) /\ wire' = Encoded(control, header) /\ pc' = "decode"
       \/ ~Encodable(control, header) /\ pc' = "refused" /\ UNCHANGED wire
    /\ UNCHANGED <<control, header, damaged, got>>

\* A writer that is not this library may send what this one refuses.
Foreign ==
    /\ pc = "encode"
    /\ ~Encodable(control, header)
    /\ wire' = Encoded(control, header) /\ pc' = "decode" /\ damaged' = TRUE
    /\ UNCHANGED <<control, header, got>>

\* A cell is another one, the last is missing, or there is one more.
Cells == 0..6

Damage ==
    /\ pc = "decode" /\ ~damaged
    /\ \/ \E i \in 1..Len(wire), x \in Cells : x # wire[i] /\ wire' = [wire EXCEPT ![i] = x]
       \/ wire' = Front(wire)
       \/ \E x \in Cells : wire' = Append(wire, x)
    /\ damaged' = TRUE
    /\ UNCHANGED <<control, header, got, pc>>

-----------------------------------------------------------------------------
(* fstrm_control_decode.  A failure leaves what was read until then. *)
Failed(type, types) == [ok |-> FALSE, type |-> type, types |-> types]

From(buf, i) == SubSeq(buf, i, Len(buf))

\* Mutant of HeaderOk: the length is only bounded.
HeaderBounded(buf) == Len(buf) >= 2 /\ buf[1] = 0 /\ buf[2] <= FrameMax

HeaderOk(buf) == HeaderBounded(buf) /\ buf[2] = Len(buf) - 2

\* The content types that a frame of its type may have.
CountOk(type, types) ==
    CASE type = START -> Len(types) <= 1
      [] type \in {STOP, FINISH} -> types = <<>>
      [] OTHER -> TRUE

\* Mutant of FieldOk: a content type may have any length that fits.
FieldFits(buf) == Len(buf) >= 2 /\ buf[1] = CONTENT_TYPE /\ buf[2] <= Len(buf) - 2

FieldOk(buf) == FieldFits(buf) /\ buf[2] <= TypeMax

RECURSIVE DecodeFields(_, _, _)
DecodeFields(type, types, buf) ==
    IF buf = <<>> THEN [ok |-> CountOk(type, types), type |-> type, types |-> types]
    ELSE IF ~FieldOk(buf) THEN Failed(type, types)
    ELSE DecodeFields(type, Append(types, SubSeq(buf, 3, 2 + buf[2])), From(buf, 3 + buf[2]))

DecodeBody(buf) ==
    IF buf = <<>> THEN Nothing
    ELSE IF Head(buf) \notin Types THEN Nothing
    ELSE DecodeFields(Head(buf), <<>>, Tail(buf))

Decoded(buf, h) ==
    CASE h -> IF HeaderOk(buf) THEN DecodeBody(From(buf, 3)) ELSE Nothing
      [] ~h -> IF Len(buf) <= FrameMax THEN DecodeBody(buf) ELSE Nothing

Decode ==
    /\ pc = "decode"
    /\ got' = Decoded(wire, header)
    /\ pc' = "decoded"
    /\ UNCHANGED <<control, header, wire, damaged>>

ControlNext == Encode \/ Foreign \/ Damage \/ Decode

ControlSpec == ControlInit /\ [][ControlNext]_<<control, header, wire, damaged, got, pc>>

-----------------------------------------------------------------------------
(* fstrm_control_match_field_content_type *)
\* Mutant of Num: START counts as many as the object has.
NumAll(c) == IF c.type \in {STOP, FINISH} THEN 0 ELSE Len(c.types)

\* fstrm_control_get_num_field_content_type
Num(c) ==
    CASE c.type \in {STOP, FINISH} -> 0
      [] c.type = START /\ Len(c.types) > 1 -> 1
      [] OTHER -> Len(c.types)

Match(c, t) ==
    /\ c.type \notin {STOP, FINISH}
    /\ Num(c) = 0 \/ \E i \in 1..Num(c) : c.types[i] = t

\* An object that was encoded comes out of the decoder as what its frame
\* carries, and every content type matches at the one end as at the other: no
\* two ends negotiate on different lists.
RoundTrip ==
    pc = "decoded" /\ ~damaged =>
        /\ got = [ok |-> TRUE, type |-> control.type, types |-> Carried(control)]
        /\ \A t \in ContentTypes : Match(got, t) <=> Match(control, t)

\* Whatever frame the decoder accepts, from the encoder or not, is the encoding
\* of what it read: a frame is read in one way, to its last cell.
ReadsAllOfIt == pc = "decoded" /\ got.ok => Encoded(got, header) = wire

\* The decoder accepts no frame beyond the limits of the encoder, but for the
\* header, whose cells only the encoder counts.
LimitsAgree ==
    pc = "decoded" /\ got.ok =>
        \/ Encodable(got, header)
        \/ header /\ Encodable(got, FALSE)
=============================================================================
