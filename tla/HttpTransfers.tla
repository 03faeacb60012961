---------------------------- MODULE HttpTransfers ----------------------------
(***************************************************************************)
(* HttpClient: transfers of a curl multi handle driven by one uv loop.     *)
(* curl is external: a transfer it holds waits for a socket or for the     *)
(* timer curl asked for, and driving it moves it on until it is finished.  *)
(* check_multi_info drains every finished transfer before it runs the      *)
(* first callback; a callback may ask for another transfer or close the    *)
(* client, in which case nothing may drive curl again until the drain ends.*)
(***************************************************************************)
EXTENDS Integers, Sequences, FiniteSets, SequencesExt

CONSTANT Requests

VARIABLES
    stage,      \* curl's view: "none", "added", "running", "finished", "gone"
    waits,      \* transfers that wait for their socket; the others wait for the timer
    easy,       \* _easy
    timer,      \* the uv timer is active
    processing, \* _processing
    done,       \* collected callbacks not yet run
    closed,     \* _closed
    answers,    \* history: how often on_done of each request ran
    dropped     \* history: requests in flight at close()

vars == <<stage, waits, easy, timer, processing, done, closed, answers, dropped>>

Init ==
    /\ stage = [r \in Requests |-> "none"] /\ waits = {} /\ easy = {}
    /\ timer = FALSE /\ processing = FALSE /\ done = <<>> /\ closed = FALSE
    /\ answers = [r \in Requests |-> 0] /\ dropped = {}

InCurl == {r \in Requests : stage[r] \in {"added", "running"}}

\* curl_multi_socket_action (external): the transfers driven move on, and curl then asks
\* for the timer when one of its transfers waits for it.
SocketAction(st, driven) ==
    \E moved \in [driven -> {"running", "finished"}], sockets \in SUBSET Requests :
        LET after == [r \in Requests |->
                        IF r \notin driven THEN st[r]
                        ELSE IF st[r] = "running" THEN "finished" ELSE moved[r]]
            running == {r \in Requests : after[r] \in {"added", "running"}}
        IN  /\ sockets \subseteq running \cap driven
            /\ waits' = ((waits \ driven) \cup sockets) \cap running
            /\ timer' = (running \ waits' # {})
            /\ stage' = [r \in Requests |-> IF after[r] = "finished" THEN "gone" ELSE after[r]]
            \* check_multi_info: read, remove and erase every finished transfer
            /\ \E order \in SetToSeqs({r \in Requests : after[r] = "finished"}) :
                done' = order
            /\ processing' = TRUE

\* Mutant of Drain: the finished transfers stay in _easy.
DrainNothing(held) == easy' = held

\* The transfers leave _easy as they are drained.
Drain(held) == easy' = {r \in held : stage'[r] # "gone"}

\* request().  It may fail at once (no handle, no memory), answering in the call.
RequestFails(r) ==
    /\ ~closed /\ stage[r] = "none"
    /\ stage' = [stage EXCEPT ![r] = "gone"]
    /\ answers' = [answers EXCEPT ![r] = @ + 1]
    /\ UNCHANGED <<waits, easy, timer, processing, done, closed, dropped>>

\* Mutant of RequestInCallback: the timer is not armed.
RequestInCallbackUntimed(r) ==
    /\ ~closed /\ stage[r] = "none" /\ processing
    /\ stage' = [stage EXCEPT ![r] = "added"]
    /\ easy' = easy \cup {r}
    /\ UNCHANGED <<waits, timer, processing, done, closed, answers, dropped>>

\* Inside a callback the kick is left to the timer.
RequestInCallback(r) ==
    /\ ~closed /\ stage[r] = "none" /\ processing
    /\ stage' = [stage EXCEPT ![r] = "added"]
    /\ easy' = easy \cup {r}
    /\ timer' = TRUE
    /\ UNCHANGED <<waits, processing, done, closed, answers, dropped>>

Request(r) ==
    /\ ~closed /\ stage[r] = "none" /\ ~processing
    /\ LET added == [stage EXCEPT ![r] = "added"]
       IN  SocketAction(added, {q \in Requests : added[q] \in {"added", "running"}} \ waits)
    /\ Drain(easy \cup {r})
    /\ UNCHANGED <<closed, answers, dropped>>

OnTimeout ==
    /\ timer /\ ~processing /\ ~closed
    /\ SocketAction(stage, InCurl \ waits)
    /\ Drain(easy)
    /\ UNCHANGED <<closed, answers, dropped>>

OnSocketEvent(r) ==
    /\ r \in waits /\ ~processing /\ ~closed
    /\ SocketAction(stage, {r})
    /\ Drain(easy)
    /\ UNCHANGED <<closed, answers, dropped>>

\* One callback of the drain, and the end of the drain.
Callback ==
    /\ processing /\ done # <<>>
    /\ answers' = [answers EXCEPT ![Head(done)] = @ + 1]
    /\ done' = Tail(done)
    /\ UNCHANGED <<stage, waits, easy, timer, processing, closed, dropped>>

Unwind ==
    /\ processing /\ done = <<>>
    /\ processing' = FALSE
    /\ UNCHANGED <<stage, waits, easy, timer, done, closed, answers, dropped>>

\* Mutant of Close: transfers in flight are answered.
CloseAnswers ==
    /\ ~closed /\ closed' = TRUE
    /\ dropped' = easy
    /\ answers' = [r \in Requests |-> IF r \in easy THEN answers[r] + 1 ELSE answers[r]]
    /\ easy' = {} /\ waits' = {} /\ timer' = FALSE
    /\ stage' = [r \in Requests |-> IF r \in easy THEN "gone" ELSE stage[r]]
    /\ UNCHANGED <<processing, done>>

\* close(), on the loop thread or inside a callback.
Close ==
    /\ ~closed /\ closed' = TRUE
    /\ dropped' = easy
    /\ easy' = {} /\ waits' = {} /\ timer' = FALSE
    /\ stage' = [r \in Requests |-> IF r \in easy THEN "gone" ELSE stage[r]]
    /\ UNCHANGED <<processing, done, answers>>

Drive == OnTimeout \/ (\E r \in Requests : OnSocketEvent(r)) \/ Callback \/ Unwind

Next ==
    \/ \E r \in Requests : RequestFails(r) \/ RequestInCallback(r) \/ Request(r)
    \/ Drive
    \/ Close

(***************************************************************************)
(* on_done runs at most once for a request, and "in-flight transfers are   *)
(* dropped WITHOUT invoking their on_done".                                *)
(***************************************************************************)
AnsweredOnce ==
    \A r \in Requests : answers[r] <= 1 /\ (r \in dropped => answers[r] = 0)

(***************************************************************************)
(* _easy holds a context for exactly the transfers curl holds, also while  *)
(* callbacks run: none is leaked and none is freed under curl's feet.      *)
(***************************************************************************)
ContextsMatchCurl == easy = InCurl

Answered(r) == answers[r] = 1 \/ closed

(***************************************************************************)
(* Every request is answered or dropped by close(): one made inside a      *)
(* callback does not stall.                                                *)
(***************************************************************************)
RequestAnswered == \A r \in Requests : r \in easy ~> Answered(r)
=============================================================================
