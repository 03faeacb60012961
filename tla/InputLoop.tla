------------------------------- MODULE InputLoop -------------------------------
(***************************************************************************)
(* The socket inputs: dnstap over a Unix or a TCP socket, and flow over    *)
(* UDP.  Each runs a libuv loop in its own thread; start() binds before the*)
(* thread exists and must undo everything when it fails, stop() wakes the  *)
(* loop with an async handle and joins the thread, and the thread closes   *)
(* the loop, which libuv refuses (EBUSY) while a handle is not closed.     *)
(* The loop's iteration is libuv's: events, then the close callbacks, then *)
(* the stop flag.  The Unix socket's path is shared with other processes.  *)
(***************************************************************************)
EXTENDS Naturals, FiniteSets

CONSTANTS Clients, MaxStarts, Alone

VARIABLES
    kind,       \* "unix", "tcp" or "udp"
    running,    \* _running
    pc,         \* the thread in start() or stop()
    handles,    \* handle -> "none", "open", "closing", "closed"
    sessions,   \* keys of _unix_sessions or _tcp_sessions
    loop,       \* "none", "unstarted", "polling", "returned", "closed", "busy"
    sent,       \* _async_h->send() has been called
    stopFlag,   \* _io_loop->stop() has been called
    path,       \* what the socket's path names
    stolen,     \* history: start() removed a live server's socket
    starts

vars == <<kind, running, pc, handles, sessions, loop, sent, stopFlag, path, stolen, starts>>

Own == {"async", "timer", "server"}

Handles == Own \cup Clients

Init ==
    /\ kind \in {"unix", "tcp", "udp"}
    /\ running = FALSE /\ pc = "idle"
    /\ handles = [h \in Handles |-> "none"]
    /\ sessions = {} /\ loop = "none" /\ sent = FALSE /\ stopFlag = FALSE
    /\ path \in IF kind = "unix" THEN {"absent", "stale", "live", "other"} ELSE {"absent"}
    /\ stolen = FALSE /\ starts = 0

\* h \in S with its handle as given.
With(S, s) == [h \in Handles |-> IF h \in S THEN s ELSE handles[h]]

\* close() of a handle that is not closing yet.
Closing(S) == [h \in Handles |-> IF h \in S /\ handles[h] = "open" THEN "closing" ELSE handles[h]]

\* uv_loop_close
CloseResult == IF \A h \in Handles : handles[h] \in {"none", "closed"} THEN "closed" ELSE "busy"

-----------------------------------------------------------------------------
\* The loop and its three handles.
CreateLoop ==
    /\ handles' = With(Own, "open")
    /\ loop' = "unstarted" /\ sent' = FALSE /\ stopFlag' = FALSE
    /\ UNCHANGED <<kind, running, sessions, path, stolen>>

\* A handle that cannot be initialized: start() throws and leaves the loop and
\* the handles it has made as they are, until the next start() replaces them.
CreateFails ==
    /\ \E made \in {{}, {"async"}, {"async", "timer"}} :
          handles' = [h \in Handles |-> IF h \in made THEN "open" ELSE "none"]
    /\ loop' = "unstarted" /\ sent' = FALSE /\ stopFlag' = FALSE /\ pc' = pc
    /\ UNCHANGED <<kind, running, sessions, path, stolen>>

\* What start() throws before there is a loop: it leaves nothing.
Refused == pc' = pc /\ UNCHANGED <<kind, running, handles, sessions, loop, sent, stopFlag, path, stolen>>

Starting(k) ==
    /\ kind = k /\ pc = "idle" /\ ~running /\ starts < MaxStarts
    /\ starts' = starts + 1

StartUnix == Starting("unix") /\ (CreateFails \/ (CreateLoop /\ pc' = "check"))

\* An address that is not HOST:PORT is refused.
StartTcp == Starting("tcp") /\ (Refused \/ CreateFails \/ (CreateLoop /\ pc' = "bind"))

\* So are a flow type, a port or an address to bind that is none.
StartUdp == Starting("udp") /\ (Refused \/ CreateFails \/ (CreateLoop /\ pc' = "bind"))

Start == StartUnix \/ StartTcp \/ StartUdp

\* Mutant of CheckPath: any socket at the path is taken for a stale one.
CheckPathOnly ==
    /\ pc = "check"
    /\ pc' = CASE path = "absent" -> "bind" [] path = "other" -> "undo" [] OTHER -> "remove"
    /\ UNCHANGED <<kind, running, handles, sessions, loop, sent, stopFlag, path, stolen, starts>>

\* The path of a Unix socket: only a socket nobody listens on is replaced.
CheckPath ==
    /\ pc = "check"
    /\ pc' \in CASE path = "absent" -> {"bind"}
                 [] path = "other"  -> {"undo"}
                 [] path = "live"   -> {"bind", "undo"}
                 [] path = "stale"  -> {"remove", "undo"}
    /\ UNCHANGED <<kind, running, handles, sessions, loop, sent, stopFlag, path, stolen, starts>>

RemoveStale ==
    /\ pc = "remove"
    /\ \/ pc' = "bind" /\ path' = "absent" /\ stolen' = (stolen \/ path = "live")
       \/ pc' = "undo" /\ UNCHANGED <<path, stolen>>
    /\ UNCHANGED <<kind, running, handles, sessions, loop, sent, stopFlag, starts>>

\* bind and listen (or recv) may each fail; then there is no thread.
BindFails ==
    /\ pc' = "undo"
    /\ UNCHANGED <<path, running, loop>>

SpawnLoop == running' = TRUE /\ loop' = "polling" /\ pc' = "idle"

BindUnix ==
    /\ kind = "unix" /\ pc = "bind"
    /\ \/ path = "absent" /\ path' = "ours" /\ SpawnLoop
       \/ BindFails
    /\ UNCHANGED <<kind, handles, sessions, sent, stopFlag, stolen, starts>>

BindTcp ==
    /\ kind = "tcp" /\ pc = "bind"
    /\ \/ SpawnLoop /\ UNCHANGED path
       \/ BindFails
    /\ UNCHANGED <<kind, handles, sessions, sent, stopFlag, stolen, starts>>

BindUdp ==
    /\ kind = "udp" /\ pc = "bind"
    /\ \/ SpawnLoop /\ UNCHANGED path
       \/ BindFails
    /\ UNCHANGED <<kind, handles, sessions, sent, stopFlag, stolen, starts>>

\* _close_unstarted_loop: close, one pass of the loop, close the loop, reset.
Undo ==
    /\ kind # "udp" /\ pc = "undo"
    /\ handles' = Closing(Own)
    /\ pc' = "pass"
    /\ UNCHANGED <<kind, running, sessions, loop, sent, stopFlag, path, stolen, starts>>

\* The same of FlowInputStream.
UndoUdp ==
    /\ kind = "udp" /\ pc = "undo"
    /\ handles' = Closing(Own)
    /\ pc' = "pass"
    /\ UNCHANGED <<kind, running, sessions, loop, sent, stopFlag, path, stolen, starts>>

Pass ==
    /\ pc = "pass"
    /\ handles' = [h \in Handles |-> IF handles[h] = "closing" THEN "closed" ELSE handles[h]]
    /\ pc' = "reset"
    /\ UNCHANGED <<kind, running, sessions, loop, sent, stopFlag, path, stolen, starts>>

Reset ==
    /\ pc = "reset"
    /\ loop' = IF CloseResult = "closed" THEN "none" ELSE "busy"
    /\ handles' = With(Own, "none")
    /\ pc' = "idle"
    /\ UNCHANGED <<kind, running, sessions, sent, stopFlag, path, stolen, starts>>

\* stop(): wake the loop, join the thread.
Stop ==
    /\ pc = "idle" /\ running
    /\ sent' = TRUE
    /\ pc' = "join"
    /\ UNCHANGED <<kind, running, handles, sessions, loop, stopFlag, path, stolen, starts>>

Join ==
    /\ pc = "join" /\ loop \in {"closed", "busy"}
    /\ running' = FALSE /\ pc' = "idle"
    /\ UNCHANGED <<kind, handles, sessions, loop, sent, stopFlag, path, stolen, starts>>

-----------------------------------------------------------------------------
\* listen_event: accept and read may each fail.
Accept(c) ==
    /\ loop = "polling" /\ ~stopFlag
    /\ handles["server"] = "open" /\ handles[c] \in {"none", "closed"}
    /\ \/ handles' = With({c}, "closing") /\ UNCHANGED sessions
       \/ handles' = With({c}, "closing") /\ sessions' = sessions \cup {c}
       \/ handles' = With({c}, "open") /\ sessions' = sessions \cup {c}
    /\ UNCHANGED <<kind, running, pc, loop, sent, stopFlag, path, stolen, starts>>

ListenUnix(c) == kind = "unix" /\ Accept(c)
ListenTcp(c) == kind = "tcp" /\ Accept(c)

\* error_event, end_event, or a DnstapException of data_event.
EndClient(c) ==
    /\ loop = "polling" /\ ~stopFlag /\ handles[c] = "open"
    /\ handles' = Closing({c})
    /\ UNCHANGED <<kind, running, pc, sessions, loop, sent, stopFlag, path, stolen, starts>>

ClientEndsUnix(c) == kind = "unix" /\ EndClient(c)
ClientEndsTcp(c) == kind = "tcp" /\ EndClient(c)

\* async_event: close these handles and stop the loop.
CloseAndStop(S) ==
    /\ loop = "polling" /\ sent /\ ~stopFlag
    /\ handles' = Closing(S)
    /\ stopFlag' = TRUE
    /\ UNCHANGED <<kind, running, pc, sessions, loop, sent, path, stolen, starts>>

\* Mutant of AsyncUnix: the clients are left open.
AsyncUnixOwn == kind = "unix" /\ CloseAndStop(Own)

\* Mutant of AsyncTcp: the handles are closed, the loop is not stopped.
AsyncTcpGoesOn ==
    /\ kind = "tcp" /\ loop = "polling" /\ sent /\ ~stopFlag
    /\ handles' = Closing(Own \cup sessions)
    /\ UNCHANGED <<kind, running, pc, sessions, loop, sent, stopFlag, path, stolen, starts>>

AsyncUnix == kind = "unix" /\ CloseAndStop(Own \cup sessions)
AsyncTcp == kind = "tcp" /\ CloseAndStop(Own \cup sessions)
AsyncUdp == kind = "udp" /\ CloseAndStop(Own)

AsyncEvent == AsyncUnix \/ AsyncTcp \/ AsyncUdp

\* Mutant of CloseCallbacks: the session of a closed client is kept.
CloseCallbacksOnly ==
    /\ loop = "polling" /\ (stopFlag \/ \E h \in Handles : handles[h] = "closing")
    /\ handles' = [h \in Handles |-> IF handles[h] = "closing" THEN "closed" ELSE handles[h]]
    /\ path' = IF handles["server"] = "closing" /\ path = "ours" THEN "absent" ELSE path
    /\ loop' = IF stopFlag THEN "returned" ELSE "polling"
    /\ UNCHANGED <<kind, running, pc, sessions, sent, stopFlag, stolen, starts>>

\* The end of an iteration: close_event of every closing handle; libuv also
\* unlinks the path of a bound Unix socket that is closed.
CloseCallbacks ==
    /\ loop = "polling" /\ (stopFlag \/ \E h \in Handles : handles[h] = "closing")
    /\ handles' = [h \in Handles |-> IF handles[h] = "closing" THEN "closed" ELSE handles[h]]
    /\ sessions' = sessions \ {c \in Clients : handles[c] = "closing"}
    /\ path' = IF handles["server"] = "closing" /\ path = "ours" THEN "absent" ELSE path
    /\ loop' = IF stopFlag THEN "returned" ELSE "polling"
    /\ UNCHANGED <<kind, running, pc, sent, stopFlag, stolen, starts>>

\* The io thread after run().
CloseLoop ==
    /\ loop = "returned"
    /\ loop' = CloseResult
    /\ UNCHANGED <<kind, running, pc, handles, sessions, sent, stopFlag, path, stolen, starts>>

\* Another process takes the path, leaves it, or dies and leaves the file.
OtherServer ==
    /\ kind = "unix" /\ (Alone => pc \notin {"check", "remove", "bind"})
    /\ \/ path \in {"absent", "stale"} /\ path' = "live"
       \/ path = "live" /\ path' \in {"absent", "stale"}
    /\ UNCHANGED <<kind, running, pc, handles, sessions, loop, sent, stopFlag, stolen, starts>>

\* A call that was begun goes on.
Caller ==
    \/ CheckPath \/ RemoveStale \/ BindUnix \/ BindTcp \/ BindUdp
    \/ Undo \/ UndoUdp \/ Pass \/ Reset \/ Join

IoThread == AsyncEvent \/ CloseCallbacks \/ CloseLoop

Next ==
    \/ Start \/ Caller \/ Stop \/ IoThread \/ OtherServer
    \/ \E c \in Clients :
        ListenUnix(c) \/ ListenTcp(c) \/ ClientEndsUnix(c) \/ ClientEndsTcp(c)

(***************************************************************************)
(* The loop can be closed whenever it is: no handle, of the input or of a  *)
(* client, is still open or closing, neither after stop() nor after a start*)
(* that failed once its loop was set up ("every handle is closed").  A     *)
(* start that cannot set it up leaves the loop unclosed: see CreateFails.  *)
(***************************************************************************)
LoopClosesClean == loop # "busy"

(***************************************************************************)
(* Every session belongs to a handle that is not closed yet, and while the *)
(* loop runs every open client has one: data_event always finds the session*)
(* it dereferences.                                                        *)
(***************************************************************************)
SessionsMatchClients ==
    /\ \A c \in sessions : handles[c] \in {"open", "closing"}
    /\ \A c \in Clients : handles[c] = "open" => c \in sessions

(***************************************************************************)
(* "removing a live server's socket would take its clients": start() only  *)
(* removes a socket nobody listens on.  Checked for a path nobody else     *)
(* changes between the probe and the bind (Alone).                         *)
(***************************************************************************)
LiveSocketKept == ~stolen

Stopping == pc = "join"

(***************************************************************************)
(* stop() returns: the loop gets the async event, runs its close callbacks *)
(* and ends, whatever its clients do.                                      *)
(***************************************************************************)
StopReturns == Stopping ~> ~running
=============================================================================
