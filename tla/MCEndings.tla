----------------------------- MODULE MCEndings -----------------------------
(***************************************************************************)
(* What must come to an end: loads and removals of policies, requests on   *)
(* taps, frame streams, the loops and threads of the inputs, connection    *)
(* attempts, transfers, and the last window of a capture file.  The parts  *)
(* do not interact: a behaviour picks one at the start, whose variables    *)
(* are the first of v1 .. v13 (or those of PolicyLifecycle or of           *)
(* TcpAttempts), and leaves the others alone.                              *)
(***************************************************************************)
EXTENDS PolicyLifecycle, TcpAttempts, TLC

CONSTANTS p1, p2, p3, i1, i2, r1, r2, f

\* A policy on the first input or on both, and one on either input.
SharedReach == p1 :> {<<i1>>, <<i1, i2>>} @@ p2 :> {<<i1>>, <<i2>>}

\* The same, and another one on either.
ThreeReach == SharedReach @@ p3 :> {<<i1>>, <<i2>>}

\* Every policy on the one input there is.
OneReach == [p \in {p1, p2, p3} |-> {<<i1>>}]

\* Only the second policy filters what it gets from its input.
Filters == p1 :> NoFilter @@ p2 :> f @@ p3 :> NoFilter

OwnNames == i1 :> r1 @@ i2 :> r2

\* The second policy has the name of the second input's resources policy.
TakenNames == i1 :> r1 @@ i2 :> p2

VARIABLES part, v1, v2, v3, v4, v5, v6, v7, v8, v9, v10, v11, v12, v13

Frames == INSTANCE FrameStream
    WITH OurType <- "d", Payloads <- {"a", "b", "h"}, Huge <- "h", MaxFrames <- 2,
         WriterTypes <- {<<>>, <<"d">>, <<"o">>, <<"d", "o">>, <<"o", "d">>},
         transport <- v1, types <- v2, wpc <- v3, up <- v4, toReader <- v5, toWriter <- v6,
         buffer <- v7, rpc <- v8, state <- v9, bidir <- v10, sent <- v11, got <- v12

Loops == INSTANCE InputLoop
    WITH Clients <- {"c1", "c2"}, MaxStarts <- 2, Alone <- TRUE,
         kind <- v1, running <- v2, pc <- v3, handles <- v4, sessions <- v5, loop <- v6,
         sent <- v7, stopFlag <- v8, path <- v9, stolen <- v10, starts <- v11

Transfers == INSTANCE HttpTransfers
    WITH Requests <- {1, 2, 3},
         stage <- v1, waits <- v2, easy <- v3, timer <- v4, processing <- v5, done <- v6,
         closed <- v7, answers <- v8, dropped <- v9

Capture == INSTANCE PcapInput
    WITH MaxStarts <- 2, MaxPackets <- 3,
         source <- v1, running <- v2, pc <- v3, device <- v4, flag <- v5, thread <- v6,
         mock <- v7, ring <- v8, busy <- v9, starts <- v10, packets <- v11, missed <- v12,
         clash <- v13

TapThreads == {"t1", "t2"}

Taps == INSTANCE TapRoutes
    WITH Threads <- TapThreads, Taps <- {"x1", "x2"}, Policies <- {"p1", "p2"}, None <- "none",
         MaxRequests <- 7,
         taps <- v1, reg <- v2, points <- v3, freed <- v4, tapLock <- v5, polLock <- v6,
         pc <- v7, tap <- v8, policy <- v9, asked <- v10

Replay == INSTANCE RecordedStream
    WITH Periods <- {1, 2}, PeriodSec <- 2, FileSecs <- 1..7, MaxPackets <- 5,
         numPeriods <- v1, phase <- v2, packets <- v3, lastSec <- v4, highest <- v5, win <- v6,
         oldest <- v7, nextShift <- v8, epc <- v9, everLive <- v10, lastStart <- v11

Rates == INSTANCE RateTimer
    WITH Windows <- 2, Interval <- 2, MaxAdds <- 2,
         owner <- v1, cancelled <- v2, counter <- v3, rate <- v4, sampled <- v5, events <- v6,
         timer <- v7, taken <- v8, added <- v9, late <- v10

-----------------------------------------------------------------------------
\* The variables of the bank that a part with k variables uses, and leaves.
Used9 == <<v1, v2, v3, v4, v5, v6, v7, v8, v9>>
Rest9 == <<v10, v11, v12, v13>>
Used10 == <<v1, v2, v3, v4, v5, v6, v7, v8, v9, v10>>
Rest10 == <<v11, v12, v13>>
Used11 == <<v1, v2, v3, v4, v5, v6, v7, v8, v9, v10, v11>>
Rest11 == <<v12, v13>>
Used12 == <<v1, v2, v3, v4, v5, v6, v7, v8, v9, v10, v11, v12>>
Rest12 == <<v13>>

bank == <<v1, v2, v3, v4, v5, v6, v7, v8, v9, v10, v11, v12, v13>>
allVars == <<part, bank, vars, attemptVars>>

\* The variables that a part does not use keep one value.
Unused12 == v13 = 0
Unused11 == v12 = 0 /\ Unused12
Unused10 == v11 = 0 /\ Unused11
Unused9 == v10 = 0 /\ Unused10
Unused0 ==
    /\ v1 = 0 /\ v2 = 0 /\ v3 = 0 /\ v4 = 0 /\ v5 = 0 /\ v6 = 0 /\ v7 = 0 /\ v8 = 0
    /\ v9 = 0 /\ Unused9

PartInit ==
    /\ Init /\ AttemptInit
    /\ \/ part = "policies" /\ Unused0
       \/ part = "frames" /\ Frames!Init /\ Unused12
       \/ part = "loops" /\ Loops!Init /\ Unused11
       \/ part = "attempts" /\ Unused0
       \/ part = "transfers" /\ Transfers!Init /\ Unused9
       \/ part = "capture" /\ Capture!Init
       \/ part = "taps" /\ Taps!Init /\ Unused10
       \/ part = "replay" /\ Replay!Init /\ Unused11
       \/ part = "rates" /\ Rates!Init /\ Unused10

PartNext ==
    \/ part = "policies" /\ CalmNext /\ UNCHANGED <<part, bank, attemptVars>>
    \/ part = "frames" /\ Frames!Next /\ UNCHANGED <<part, Rest12, vars, attemptVars>>
    \/ part = "loops" /\ Loops!Next /\ UNCHANGED <<part, Rest11, vars, attemptVars>>
    \/ part = "attempts" /\ AttemptNext /\ UNCHANGED <<part, bank, vars>>
    \/ part = "transfers" /\ Transfers!Next /\ UNCHANGED <<part, Rest9, vars, attemptVars>>
    \/ part = "capture" /\ Capture!Next /\ UNCHANGED <<part, vars, attemptVars>>
    \/ /\ part = "taps"
       /\ \E t \in TapThreads : Taps!Ask(t) \/ Taps!QuietGo(t)
       /\ UNCHANGED <<part, Rest10, vars, attemptVars>>
    \/ part = "replay" /\ Replay!Next /\ UNCHANGED <<part, Rest11, vars, attemptVars>>
    \/ part = "rates" /\ Rates!Next /\ UNCHANGED <<part, Rest10, vars, attemptVars>>

\* What each part's own module says of its threads.
PartFairness ==
    /\ WF_vars(part = "policies" /\ LoadStep /\ mapLock # "remove")
    /\ WF_vars(part = "policies" /\ LockedStep)
    /\ WF_Used12(part = "frames" /\ Frames!Writer)
    /\ WF_Used12(part = "frames" /\ Frames!Reader)
    /\ WF_Used11(part = "loops" /\ Loops!Caller)
    /\ WF_Used11(part = "loops" /\ Loops!AsyncEvent)
    /\ WF_Used11(part = "loops" /\ Loops!CloseCallbacks)
    /\ WF_Used11(part = "loops" /\ Loops!CloseLoop)
    /\ WF_attemptVars(part = "attempts" /\ Pass)
    /\ WF_attemptVars(part = "attempts" /\ Tick)
    /\ WF_attemptVars(part = "attempts" /\ Cancelled)
    /\ WF_Used9(part = "transfers" /\ Transfers!Drive)
    /\ WF_bank(part = "capture" /\ Capture!Caller)
    /\ WF_bank(part = "capture" /\ Capture!Capture)
    /\ \A t \in TapThreads : WF_Used10(part = "taps" /\ Taps!QuietGo(t))
    /\ WF_Used11(part = "replay" /\ Replay!Exporter)
    /\ WF_Used11(part = "replay" /\ Replay!End)
    /\ WF_Used10(part = "rates" /\ Rates!Timer)
    /\ WF_Used10(part = "rates" /\ Rates!Clear)

PartSpec == PartInit /\ [][PartNext]_allVars /\ PartFairness

\* The policies alone, with removals that may overlap whatever they race.
RaceSpec ==
    /\ Init /\ AttemptInit /\ part = "policies" /\ Unused0
    /\ [][dangling = {} /\ Next /\ UNCHANGED <<part, bank, attemptVars>>]_allVars

-----------------------------------------------------------------------------
(***************************************************************************)
(* What ends leaves nothing half done.  The input of a policy's resources  *)
(* handler is there as long as the handler is.  Frames arrive in the order *)
(* written whatever the transport splits, a close that succeeds over a     *)
(* socket means that all of them arrived, and a session is aborted only    *)
(* for its content type or for an oversized frame.  A loop closes with no  *)
(* handle left, every open dnstap client has its session, and start()      *)
(* removes only a socket nobody listens on.  An HTTP request is answered   *)
(* once, and the socket contexts are those curl holds.  One thread at a    *)
(* time is in the TCP reassembly, but for AF_PACKET captures and the       *)
(* signal in a file.  No policy points to a tap that was destroyed.  The   *)
(* pushes of a recording pass over no window still held and repeat none.   *)
(* An event of a live rate is in one sample, and a cancelled rate is given *)
(* one more at most.                                                       *)
(***************************************************************************)
EndsAreClean ==
    /\ part = "policies" => ResourcesHaveInput
    /\ part = "frames" => /\ Frames!FramesInOrder
                          /\ Frames!FinishMeansAll
                          /\ Frames!AbortHasCause
    /\ part = "loops" => /\ Loops!LoopClosesClean
                         /\ Loops!SessionsMatchClients
                         /\ Loops!LiveSocketKept
    /\ part = "transfers" => Transfers!AnsweredOnce /\ Transfers!ContextsMatchCurl
    /\ part = "capture" => Capture!ReassemblyUsedAlone
    /\ part = "taps" => Taps!NoDanglingTap
    /\ part = "replay" => Replay!HeldNotSkipped /\ Replay!ClosedPushedAtMostOnce
    /\ part = "rates" => Rates!AddsSampledOnce /\ Rates!OneLateSample

(***************************************************************************)
(* Everything comes to its end: a frame stream by a handshake, a close or  *)
(* an abort; a stop of an input's loop; a TCP attempt although nothing     *)
(* answers; an HTTP request; start(), stop() and the destructor of a       *)
(* capture, unless its thread waits for a packet for ever; a request on    *)
(* taps, when one delete is under way at a time; a recording, with its     *)
(* last window pushed; a cancelled rate, which leaves the timer's list.    *)
(* What goes on goes on: a mock capture until it is stopped, and whatever  *)
(* a rate counts is sampled unless it is cancelled first.  And nothing is  *)
(* ended by another: a policy that runs is stopped by its own removal      *)
(* only, and after the end of a recording no window shifts.                *)
(***************************************************************************)
EverythingEnds ==
    /\ <>(part = "frames" => Frames!Ended)
    /\ (part = "loops" /\ Loops!Stopping) ~> (part = "loops" => ~v2)
    /\ \A a \in {0, 1} : Waiting(a) ~> (~Waiting(a) \/ stopped)
    /\ \A r \in 1..3 :
          (part = "transfers" /\ r \in v3) ~> (part = "transfers" => Transfers!Answered(r))
    /\ (part = "capture" /\ v3 # "idle") ~> (part = "capture" => Capture!Returned)
    /\ (part = "capture" /\ Capture!MockRuns)
          ~> (part = "capture" => v7 = "generate" \/ ~v2)
    /\ \A t \in TapThreads :
          (part = "taps" /\ v7[t] # "idle") ~> (part = "taps" => v7[t] = "idle")
    /\ <>(part = "replay" => Replay!LastPushed)
    /\ []<>(part = "rates" => Rates!NoneCancelled)
    /\ []<>(part = "rates" => Rates!NothingCounted)
    /\ StoppedByOwnRemoval
    /\ [][part = "replay" => Replay!NoShift]_allVars
=============================================================================
