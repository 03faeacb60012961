----------------------------- MODULE PcapInput -----------------------------
(***************************************************************************)
(* The life of a packet capture input (PcapInputStream.cpp, afpacket.cpp): *)
(* start(), stop() and the destructor on the caller's thread, next to the  *)
(* thread that captures: PcapPlusPlus's own for libpcap, the AFPacket      *)
(* thread, the mock generator, or, for a capture file, the caller itself,  *)
(* interrupted by the signal handler of pktvisor-reader.                   *)
(***************************************************************************)
EXTENDS Integers, FiniteSets

CONSTANTS MaxStarts,
          MaxPackets    \* blocks of packets the network delivers

VARIABLES source,       \* "file", "libpcap", "af_packet" or "mock"
          running,      \* _running
          pc,           \* where the caller is
          device,       \* libpcap: "none", "open" or "capturing"
          flag,         \* AFPacket::running
          thread,       \* AFPacket's thread
          mock,         \* the mock generator's thread
          ring,         \* blocks the kernel filled
          busy,         \* threads inside the TCP reassembly
          starts,
          packets,
          missed,       \* ghost: the mock thread looked at _running before start() set it
          clash         \* ghost: the reassembly was entered by a signal handler
                        \* while in use, or after it was destroyed

vars == <<source, running, pc, device, flag, thread, mock, ring, busy, starts, packets, missed, clash>>

Init ==
    /\ source \in {"file", "libpcap", "af_packet", "mock"}
    /\ running = FALSE /\ pc = "idle"
    /\ device = "none"
    /\ flag = FALSE /\ thread = "none"
    /\ mock = "none"
    /\ ring = 0 /\ busy = {}
    /\ starts = 0 /\ packets = 0
    /\ missed = FALSE /\ clash = FALSE

(* start(): a running input is left alone, a bad configuration throws. *)
Start ==
    /\ pc = "idle" /\ ~running /\ starts < MaxStarts
    /\ starts' = starts + 1
    /\ \/ /\ source = "file"                        \* _open_pcap reads in this thread
          /\ running' = TRUE
          /\ pc' = "reading"
          /\ UNCHANGED <<device, thread, mock>>
       \/ /\ source = "libpcap"
          /\ pc' = "open"
          /\ device' = "open"
          /\ UNCHANGED <<running, thread, mock>>
       \/ /\ source = "af_packet"                   \* the new AFPacket replaces the old one
          /\ pc' = IF thread \in {"none", "exited"} THEN "setup" ELSE "replace"
          /\ UNCHANGED <<running, device, thread, mock>>
       \/ /\ source = "mock"
          /\ mock' = "check"
          /\ pc' = "started"
          /\ UNCHANGED <<running, device, thread>>
       \/ /\ pc' = "idle"                           \* an exception before anything was opened
          /\ UNCHANGED <<running, device, thread, mock>>
    /\ UNCHANGED <<source, flag, ring, busy, packets, missed, clash>>

(* _open_libpcap_iface: open, filter, startCapture; each may throw. *)
OpenLibpcap ==
    /\ pc = "open"
    /\ \/ device' = "capturing" /\ pc' = "started"
       \/ UNCHANGED device /\ pc' = "idle"
    /\ UNCHANGED <<source, running, flag, thread, mock, ring, busy, starts, packets, missed, clash>>

(* Assigning the new AFPacket destroys the old one, which joins its thread.*)
ReplaceAfPacket ==
    /\ pc = "replace"
    /\ thread = "exited"
    /\ pc' = "setup"
    /\ UNCHANGED <<source, running, device, flag, thread, mock, ring, busy, starts, packets, missed, clash>>

(* start_capture: setup may throw; then the flag and the thread. *)
StartCapture ==
    /\ pc = "setup"
    /\ \/ flag' = TRUE /\ thread' = "check" /\ ring' = 0 /\ pc' = "started"
       \/ flag' = FALSE /\ thread' = "none" /\ ring' = 0 /\ pc' = "idle"
    /\ UNCHANGED <<source, running, device, mock, busy, starts, packets, missed, clash>>

(* The last line of start(). *)
Started ==
    /\ pc = "started"
    /\ running' = TRUE
    /\ pc' = "idle"
    /\ UNCHANGED <<source, device, flag, thread, mock, ring, busy, starts, packets, missed, clash>>

(* _open_pcap: the packets of the file, then the end of all connections.   *)
(* _running stays set: only stop() clears it.                              *)
ReadPacket ==
    /\ pc = "reading" /\ running /\ busy = {} /\ packets < MaxPackets
    /\ busy' = {"caller"}
    /\ packets' = packets + 1
    /\ UNCHANGED <<source, running, pc, device, flag, thread, mock, ring, starts, missed, clash>>

PacketRead ==
    /\ pc = "reading" /\ busy = {"caller"}
    /\ busy' = {}
    /\ UNCHANGED <<source, running, pc, device, flag, thread, mock, ring, starts, packets, missed, clash>>

FileEnds ==
    /\ pc = "reading" /\ busy = {}
    /\ pc' = "idle"
    /\ UNCHANGED <<source, running, device, flag, thread, mock, ring, busy, starts, packets, missed, clash>>

(* The signal handler of pktvisor-reader calls stop() in the middle of     *)
(* reading: all connections are closed, then the loop finds _running clear.*)
StopFromSignal ==
    /\ pc = "reading" /\ running
    /\ clash' = (clash \/ busy # {})
    /\ running' = FALSE
    /\ UNCHANGED <<source, pc, device, flag, thread, mock, ring, busy, starts, packets, missed>>

\* Mutant of Stop: the live device is closed later.
StopDeviceLater ==
    /\ pc = "idle" /\ running
    /\ flag' = FALSE
    /\ pc' = "closing"
    /\ UNCHANGED <<source, running, device, thread, mock, ring, busy, starts, packets, missed, clash>>

(* stop(): the live device is stopped, which waits for its thread; the     *)
(* AFPacket thread is only told to stop.                                   *)
Stop ==
    /\ pc = "idle" /\ running
    /\ device = "capturing" => busy = {}
    /\ device' = "none"
    /\ flag' = FALSE
    /\ pc' = "closing"
    /\ UNCHANGED <<source, running, thread, mock, ring, busy, starts, packets, missed, clash>>

(* stop(): closeAllConnections. *)
CloseAll ==
    /\ pc = "closing" /\ "caller" \notin busy
    /\ busy' = busy \cup {"caller"}
    /\ UNCHANGED <<source, running, pc, device, flag, thread, mock, ring, starts, packets, missed, clash>>

\* Mutant of AllClosed: _running is cleared after the join only.
AllClosedRunning ==
    /\ pc = "closing" /\ "caller" \in busy
    /\ busy' = busy \ {"caller"}
    /\ pc' = "join"
    /\ UNCHANGED <<source, running, device, flag, thread, mock, ring, starts, packets, missed, clash>>

AllClosed ==
    /\ pc = "closing" /\ "caller" \in busy
    /\ busy' = busy \ {"caller"}
    /\ running' = FALSE
    /\ pc' = "join"
    /\ UNCHANGED <<source, device, flag, thread, mock, ring, starts, packets, missed, clash>>

(* stop(): the mock thread is joined. *)
JoinMock ==
    /\ pc = "join"
    /\ mock \in {"none", "exited"}
    /\ mock' = "none"
    /\ pc' = "idle"
    /\ UNCHANGED <<source, running, device, flag, thread, ring, busy, starts, packets, missed, clash>>

(* The destructor: members go in the reverse order of their declaration,   *)
(* the reassembly before the AFPacket, whose destructor joins the thread.  *)
Destroy ==
    /\ pc = "idle" /\ ~running
    /\ pc' = "destroying"
    /\ flag' = FALSE
    /\ clash' = (clash \/ busy # {})
    /\ UNCHANGED <<source, running, device, thread, mock, ring, busy, starts, packets, missed>>

Destroyed ==
    /\ pc = "destroying"
    /\ thread \in {"none", "exited"}
    /\ pc' = "gone"
    /\ UNCHANGED <<source, running, device, flag, thread, mock, ring, busy, starts, packets, missed, clash>>

-----------------------------------------------------------------------------
(* PcapPlusPlus's capture thread hands over a packet. *)
DevicePacket ==
    /\ device = "capturing" /\ packets < MaxPackets /\ "capture" \notin busy
    /\ packets' = packets + 1
    /\ busy' = busy \cup {"capture"}
    /\ UNCHANGED <<source, running, pc, device, flag, thread, mock, ring, starts, missed, clash>>

DevicePacketDone ==
    /\ source = "libpcap" /\ "capture" \in busy
    /\ busy' = busy \ {"capture"}
    /\ UNCHANGED <<source, running, pc, device, flag, thread, mock, ring, starts, packets, missed, clash>>

(* The kernel fills a block of the ring and wakes a thread in poll. *)
BlockArrives ==
    /\ thread \in {"check", "poll", "walk"} /\ packets < MaxPackets
    /\ packets' = packets + 1
    /\ ring' = ring + 1
    /\ UNCHANGED <<source, running, pc, device, flag, thread, mock, busy, starts, missed, clash>>

(* The loop of AFPacket's thread: the flag, then the next block or poll    *)
(* without a timeout.                                                      *)
CheckBlock ==
    /\ thread = "check"
    /\ thread' = IF ~flag THEN "exited" ELSE IF ring > 0 THEN "walk" ELSE "poll"
    /\ UNCHANGED <<source, running, pc, device, flag, mock, ring, busy, starts, packets, missed, clash>>

PollReturns ==
    /\ thread = "poll" /\ ring > 0
    /\ thread' = "check"
    /\ UNCHANGED <<source, running, pc, device, flag, mock, ring, busy, starts, packets, missed, clash>>

WalkBlock ==
    /\ thread = "walk" /\ "capture" \notin busy
    /\ busy' = busy \cup {"capture"}
    /\ clash' = (clash \/ pc = "destroying")
    /\ UNCHANGED <<source, running, pc, device, flag, thread, mock, ring, starts, packets, missed>>

FlushBlock ==
    /\ thread = "walk" /\ "capture" \in busy
    /\ busy' = busy \ {"capture"}
    /\ ring' = ring - 1
    /\ thread' = "check"
    /\ UNCHANGED <<source, running, pc, device, flag, mock, starts, packets, missed, clash>>

(* The mock thread: _running, one packet, a pause. *)
MockCheck ==
    /\ mock = "check"
    /\ mock' = IF running THEN "generate" ELSE "exited"
    /\ missed' = (missed \/ (~running /\ pc = "started"))
    /\ UNCHANGED <<source, running, pc, device, flag, thread, ring, busy, starts, packets, clash>>

\* Mutant of GenerateMockTraffic: the thread ends after a packet.
GenerateOnce ==
    /\ mock = "generate"
    /\ mock' = "exited"
    /\ UNCHANGED <<source, running, pc, device, flag, thread, ring, busy, starts, packets, missed, clash>>

GenerateMockTraffic ==
    /\ mock = "generate"
    /\ mock' = "check"
    /\ UNCHANGED <<source, running, pc, device, flag, thread, ring, busy, starts, packets, missed, clash>>

-----------------------------------------------------------------------------
Caller == OpenLibpcap \/ ReplaceAfPacket \/ StartCapture \/ Started \/ ReadPacket \/ PacketRead \/ FileEnds
          \/ CloseAll \/ AllClosed \/ JoinMock \/ Destroyed
Owner == Start \/ StopFromSignal \/ Stop \/ Destroy
Capture ==
    \/ DevicePacketDone
    \/ CheckBlock \/ PollReturns \/ WalkBlock \/ FlushBlock
    \/ MockCheck \/ GenerateMockTraffic
Network == DevicePacket \/ BlockArrives

Next == Caller \/ Owner \/ Capture \/ Network

Spec == Init /\ [][Next]_vars /\ WF_vars(Caller) /\ WF_vars(Capture)

-----------------------------------------------------------------------------
(* The TCP reassembly and the list beside it have no lock of their own.    *)
(* Two threads are inside them at once, or one is after they were          *)
(* destroyed, only for an AF_PACKET capture, whose thread stop() does not  *)
(* wait for; they are re-entered only by the signal that interrupts a      *)
(* capture file.  A live libpcap capture is stopped before anything is     *)
(* closed.                                                                 *)
ReassemblyUsedAlone ==
    /\ Cardinality(busy) > 1 => source = "af_packet"
    /\ clash => source \in {"af_packet", "file"}

Returned == pc \in {"idle", "gone"} \/ thread = "poll"

(* What is begun on the caller's thread ends: start(), stop() and the      *)
(* destructor return, unless the AFPacket thread sits in poll and no       *)
(* packet ever arrives.                                                    *)
CallerReturns == pc # "idle" ~> Returned

MockRuns == source = "mock" /\ running /\ ~missed

(* A mock input that runs keeps generating packets until it is stopped,    *)
(* unless its thread looked at _running before start() had set it.         *)
MockKeepsGoing == MockRuns ~> (mock = "generate" \/ ~running)
=============================================================================
