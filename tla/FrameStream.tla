----------------------------- MODULE FrameStream -----------------------------
(***************************************************************************)
(* A frame stream from a writer (libfstrm's fstrm_writer) to pktvisor: over*)
(* a socket, where the dnstap input's FrameSessionData reads it and answers*)
(* (a bi-directional stream), or in a file, which fstrm_reader reads later *)
(* (a uni-directional one).  A frame is a few pieces, a length and a body  *)
(* for data, and an escape, a length and a body for control; a socket read *)
(* may end after any of them, and the connection may break at any point.   *)
(***************************************************************************)
EXTENDS Naturals, SequencesExt

CONSTANTS
    OurType,        \* CONTENT_TYPE, the one content type the session takes
    WriterTypes,    \* the sequences of content types a writer may offer
    Payloads,       \* data frames; Huge is one over the maximum size
    Huge,
    MaxFrames

VARIABLES
    transport,      \* "socket" or "file"
    types,          \* content_types of the writer
    wpc,            \* what the writer does next
    up,             \* the connection, or the writer's open file
    toReader, toWriter,  \* pieces written and not yet read
    buffer,         \* _buffer of the session
    rpc,            \* reader: "wait", "parse", "closed", "aborted", "unsent"
    state, bidir,   \* _state and _is_bidir of the session; state of the reader
    sent, got       \* history: data frames written, and given to the handlers

writerVars == <<wpc, types, sent>>
sessionVars == <<buffer, rpc, state, bidir, got>>
vars == <<transport, up, toReader, toWriter, writerVars, sessionVars>>

Control(type, contentTypes) == [type |-> type, types |-> contentTypes]

\* fstrm_control_encode with its header, and a data frame.
Encode(control) ==
    <<[piece |-> "escape"], [piece |-> "length"], [piece |-> "control", frame |-> control]>>

DataFrame(p) == <<[piece |-> "size", huge |-> p = Huge], [piece |-> "data", payload |-> p]>>

\* Mutant of Matches: only the first content type is looked at.
MatchesFirst(control, type) ==
    /\ control.type \notin {"STOP", "FINISH"}
    /\ control.types = <<>> \/ control.types[1] = type

\* fstrm_control_match_field_content_type: STOP and FINISH never match, a
\* frame without content types matches any, START looks at its first only.
Matches(control, type) ==
    /\ control.type \notin {"STOP", "FINISH"}
    /\ \/ control.types = <<>>
       \/ control.type = "START" /\ control.types[1] = type
       \/ control.type # "START" /\ type \in ToSet(control.types)

-----------------------------------------------------------------------------
Init ==
    /\ transport \in {"socket", "file"}
    /\ types \in WriterTypes
    /\ wpc = IF transport = "socket" THEN "ready" ELSE "start"
    /\ up = TRUE
    /\ toReader = <<>> /\ toWriter = <<>>
    /\ buffer = <<>> /\ rpc = "wait" /\ state = "New" /\ bidir = FALSE
    /\ sent = <<>> /\ got = <<>>

WriterWrites(pieces) == up /\ toReader' = toReader \o pieces

\* fstrm__writer_open_bidirectional
WriteReady ==
    /\ wpc = "ready"
    /\ WriterWrites(Encode(Control("READY", types)))
    /\ wpc' = "accept"
    /\ UNCHANGED <<transport, up, toWriter, types, sent, sessionVars>>

\* The loop over the content types remembers that one did not match, so the
\* negotiation succeeds exactly when the first of them does.
Negotiated(accept) == types = <<>> \/ Matches(accept, types[1])

ReadAccept ==
    /\ wpc = "accept" /\ up /\ toWriter # <<>>
    /\ toWriter' = Tail(toWriter)
    /\ IF Head(toWriter).type = "ACCEPT" /\ Negotiated(Head(toWriter))
       THEN wpc' = "start" /\ up' = up
       ELSE wpc' = "failed" /\ up' = FALSE
    /\ UNCHANGED <<transport, toReader, types, sent, sessionVars>>

\* The START frame, of either kind of open.
WriteStart ==
    /\ wpc = "start"
    /\ WriterWrites(Encode(Control("START", IF types = <<>> THEN <<>> ELSE <<types[1]>>)))
    /\ wpc' = "write"
    /\ UNCHANGED <<transport, up, toWriter, types, sent, sessionVars>>

\* fstrm_writer_write
WriteData(p) ==
    /\ wpc = "write" /\ Len(sent) < MaxFrames
    /\ WriterWrites(DataFrame(p))
    /\ sent' = Append(sent, p)
    /\ UNCHANGED <<transport, up, toWriter, wpc, types, sessionVars>>

\* Mutant of WriteStop: the writer does not wait for FINISH.
WriteStopAndGo ==
    /\ wpc = "write"
    /\ WriterWrites(Encode(Control("STOP", <<>>)))
    /\ wpc' = "close"
    /\ UNCHANGED <<transport, up, toWriter, types, sent, sessionVars>>

\* fstrm_writer_close
WriteStop ==
    /\ wpc = "write"
    /\ WriterWrites(Encode(Control("STOP", <<>>)))
    /\ wpc' = IF transport = "socket" THEN "finish" ELSE "close"
    /\ UNCHANGED <<transport, up, toWriter, types, sent, sessionVars>>

ReadFinish ==
    /\ wpc = "finish" /\ up /\ toWriter # <<>>
    /\ toWriter' = Tail(toWriter)
    /\ wpc' = IF Head(toWriter).type = "FINISH" THEN "close" ELSE "failed"
    /\ up' = (Head(toWriter).type = "FINISH")
    /\ UNCHANGED <<transport, toReader, types, sent, sessionVars>>

CloseWriter ==
    /\ wpc = "close"
    /\ wpc' = "done" /\ up' = FALSE
    /\ UNCHANGED <<transport, toReader, toWriter, types, sent, sessionVars>>

\* A read or a write fails on a closed transport.
WriterFails ==
    /\ ~up /\ wpc \notin {"done", "failed", "close"}
    /\ wpc' = "failed"
    /\ UNCHANGED <<transport, up, toReader, toWriter, types, sent, sessionVars>>

\* The connection breaks, or the writer dies with its file: what was written
\* and not yet read is cut off anywhere.
Break ==
    /\ up /\ wpc # "done"
    /\ up' = FALSE
    /\ toWriter' = <<>>
    /\ \E n \in 0..Len(toReader) : toReader' = SubSeq(toReader, 1, n)
    /\ UNCHANGED <<transport, writerVars, sessionVars>>

-----------------------------------------------------------------------------
\* A data_event: receive_socket_data appends what one read brought.
ReceiveSocketData ==
    /\ transport = "socket" /\ rpc = "wait" /\ toReader # <<>>
    /\ \E n \in 1..Len(toReader) :
        /\ buffer' = buffer \o SubSeq(toReader, 1, n)
        /\ toReader' = SubSeq(toReader, n + 1, Len(toReader))
    /\ rpc' = "parse"
    /\ UNCHANGED <<transport, up, toWriter, writerVars, state, bidir, got>>

\* A DnstapException ends the session: the client's handle is closed.
Abort == rpc' = "aborted" /\ up' = FALSE /\ UNCHANGED <<toWriter, buffer, state, bidir, got>>

NeedMore == rpc' = "wait" /\ UNCHANGED <<up, toWriter, buffer, state, bidir, got>>

Consumed(n) ==
    /\ buffer' = SubSeq(buffer, n + 1, Len(buffer))
    /\ rpc' = IF Len(buffer) > n THEN "parse" ELSE "wait"

\* _send_control_frame, the last thing a control frame asks for: a write that
\* fails throws as well, and the client's handle is closed.
Send(control) ==
    \/ /\ toWriter' = IF up THEN Append(toWriter, control) ELSE toWriter
       /\ Consumed(3)
       /\ UNCHANGED up
    \/ /\ rpc' = "unsent" /\ up' = FALSE
       /\ UNCHANGED <<toWriter, buffer>>

\* _decode_control_frame
HandleStart(c) ==
    /\ c.type = "START"
    /\ IF state = (IF bidir THEN "Ready" ELSE "New") /\ Matches(c, OurType)
       THEN /\ state' = "Running" /\ Consumed(3)
            /\ UNCHANGED <<up, toWriter, bidir, got>>
       ELSE Abort

HandleReady(c) ==
    /\ c.type = "READY"
    /\ IF state = "New" /\ Matches(c, OurType)
       THEN /\ state' = "Ready" /\ bidir' = TRUE
            /\ Send(Control("ACCEPT", <<OurType>>))
            /\ UNCHANGED got
       ELSE Abort

\* Mutant of HandleStop: the writer gets no FINISH.
HandleStopSilently(c) ==
    /\ c.type = "STOP"
    /\ state' = "Finishing" /\ Consumed(3)
    /\ UNCHANGED <<up, toWriter, bidir, got>>

HandleStop(c) ==
    /\ c.type = "STOP"
    /\ state' = "Finishing"
    /\ IF bidir THEN Send(Control("FINISH", <<>>)) ELSE Consumed(3) /\ UNCHANGED <<up, toWriter>>
    /\ UNCHANGED <<bidir, got>>

HandleControl(c) == HandleStart(c) \/ HandleReady(c) \/ HandleStop(c)

\* Mutant of YieldData: the frame stays in the buffer.
YieldDataKeeps ==
    /\ got' = Append(got, buffer[2].payload)
    /\ Consumed(0)
    /\ UNCHANGED <<up, toWriter, state, bidir>>

\* The data frame at the front of the buffer goes to the handlers.
YieldData ==
    /\ got' = Append(got, buffer[2].payload)
    /\ Consumed(2)
    /\ UNCHANGED <<up, toWriter, state, bidir>>

\* _try_yield_frame
TryYieldFrame ==
    /\ transport = "socket" /\ rpc = "parse"
    /\ IF buffer = <<>> THEN NeedMore
       ELSE IF state = "Finishing" THEN Abort
       ELSE IF buffer[1].piece = "size"
       THEN IF state # "Running" \/ buffer[1].huge THEN Abort
            ELSE IF Len(buffer) < 2 THEN NeedMore
            ELSE YieldData
       ELSE IF Len(buffer) < 3 THEN NeedMore
       ELSE HandleControl(buffer[3].frame)
    /\ UNCHANGED <<transport, toReader, writerVars>>

\* end_event or error_event of the client's handle.
SessionCloses ==
    /\ transport = "socket" /\ rpc = "wait" /\ ~up /\ toReader = <<>>
    /\ rpc' = "closed"
    /\ UNCHANGED <<transport, up, toReader, toWriter, writerVars, buffer, state, bidir, got>>

-----------------------------------------------------------------------------
\* The file is read once its writer is gone.
FileReady == transport = "file" /\ rpc = "wait" /\ ~up

Piece(n, kind) == Len(toReader) >= n /\ toReader[n].piece = kind

ControlNext == Piece(1, "escape") /\ Piece(2, "length") /\ Piece(3, "control")

DataNext == Piece(1, "size") /\ ~toReader[1].huge /\ Piece(2, "data")

OversizedNext == Piece(1, "size") /\ toReader[1].huge

\* fstrm_reader_open, without content types of its own: it takes any.
OpenFile ==
    /\ FileReady /\ state = "New"
    /\ IF ControlNext /\ toReader[3].frame.type = "START"
       THEN /\ state' = "Running" /\ rpc' = rpc
            /\ toReader' = SubSeq(toReader, 4, Len(toReader))
       ELSE state' = state /\ rpc' = "aborted" /\ toReader' = toReader
    /\ UNCHANGED <<transport, up, toWriter, writerVars, buffer, bidir, got>>

\* fstrm__reader_next_data, and the loop of _read_frame_stream_file.  The end
\* of the file ends the stream like a STOP.  An oversized frame fails the
\* reader with the result of its last read, which is success: the loop takes
\* the uninitialized data for a frame, in effect the last frame once more or
\* one that does not parse, and learns of the failure from its next read.
ReadFile ==
    /\ FileReady /\ state = "Running"
    /\ \/ /\ DataNext
          /\ got' = Append(got, toReader[2].payload)
          /\ toReader' = SubSeq(toReader, 3, Len(toReader))
          /\ UNCHANGED <<rpc, state>>
       \/ /\ OversizedNext
          /\ got' \in {got} \cup {Append(got, got[n]) : n \in {Len(got)} \ {0}}
          /\ state' = "Failed"
          /\ UNCHANGED <<rpc, toReader>>
       \/ /\ ControlNext
          /\ toReader' = SubSeq(toReader, 4, Len(toReader))
          /\ IF toReader[3].frame.type = "STOP"
             THEN rpc' = "closed" /\ state' = "Finishing"
             ELSE UNCHANGED <<rpc, state>>
          /\ UNCHANGED got
       \/ /\ ~ControlNext /\ ~DataNext /\ ~OversizedNext
          /\ rpc' = "closed" /\ state' = "Failed"
          /\ UNCHANGED <<toReader, got>>
    /\ UNCHANGED <<transport, up, toWriter, writerVars, buffer, bidir>>

\* fstrm_reader_read of a failed reader.
ReadFailed ==
    /\ FileReady /\ state = "Failed"
    /\ rpc' = "aborted"
    /\ UNCHANGED <<transport, up, toReader, toWriter, writerVars, buffer, state, bidir, got>>

-----------------------------------------------------------------------------
Writer ==
    \/ WriteReady \/ ReadAccept \/ WriteStart \/ WriteStop \/ ReadFinish
    \/ CloseWriter \/ WriterFails

Reader ==
    \/ ReceiveSocketData \/ TryYieldFrame \/ SessionCloses \/ OpenFile \/ ReadFile
    \/ ReadFailed

Next == Writer \/ Reader \/ Break \/ \E p \in Payloads : WriteData(p)

\* The writer closes its stream in the end, and both sides' loops run.
Fairness == WF_vars(Writer) /\ WF_vars(Reader)

Spec == Init /\ [][Next]_vars /\ Fairness

(***************************************************************************)
(* The handlers get the data frames that were written, in that order, none *)
(* twice and none made up, wherever the reads of the socket end, and       *)
(* wherever the connection or the file is cut off.  The one exception is a *)
(* file with an oversized frame: see ReadFile.                             *)
(***************************************************************************)
FramesInOrder ==
    transport = "socket" \/ Huge \notin ToSet(sent) => IsPrefix(got, sent)

(***************************************************************************)
(* A writer whose close succeeded over a socket knows that every frame it  *)
(* wrote was given to the handlers: FINISH comes after all of them.        *)
(***************************************************************************)
FinishMeansAll == transport = "socket" /\ wpc = "done" => got = sent

(***************************************************************************)
(* A session is aborted for what the writer sent (no content type of ours, *)
(* or an oversized frame) or because an answer could not be written        *)
(* ("unsent"), and for nothing else: no split of the stream makes the      *)
(* session take a good frame for a bad one.                                *)
(***************************************************************************)
AbortHasCause ==
    transport = "socket" /\ rpc = "aborted" =>
        Huge \in ToSet(sent) \/ (types # <<>> /\ OurType \notin ToSet(types))

Ended == wpc \in {"done", "failed"} /\ rpc \in {"closed", "aborted", "unsent"}

(***************************************************************************)
(* Both ends get rid of the stream in the end: the writer is done or has   *)
(* failed, and the reader has closed or aborted; neither waits for ever    *)
(* for the other's ACCEPT, FINISH or next frame.                           *)
(***************************************************************************)
StreamEnds == <>Ended
=============================================================================
