----------------------------- MODULE TapRoutes -----------------------------
(***************************************************************************)
(* The requests of the admin API on taps, beside those that load and       *)
(* remove policies.  A policy keeps raw pointers to its taps; DELETE takes *)
(* a tap out of every registered policy before it destroys it, which needs *)
(* the locks of both managers.  Requests run on the threads of the HTTP    *)
(* server.  A step is a critical section of a manager's map lock; only     *)
(* DELETE keeps one lock while it waits for another.                       *)
(***************************************************************************)
EXTENDS Naturals, FiniteSets

CONSTANTS
    Threads, Taps, Policies, None,
    MaxRequests     \* how many requests are asked in all

VARIABLES
    taps,       \* TapManager: the taps
    reg,        \* PolicyManager: the policies registered
    points,     \* Policy::_taps of each policy object
    freed,      \* history: <<p, x>> when policy p points to tap x, destroyed
    tapLock, polLock,   \* the owners of the map locks, or None
    pc, tap, policy,    \* of each thread: its place and what it is asked for
    asked               \* the requests so far

stores == <<taps, reg, points, freed>>
locks == <<tapLock, polLock>>
vars == <<stores, locks, pc, tap, policy, asked>>

Init ==
    /\ taps = {} /\ reg = {} /\ freed = {}
    /\ points = [p \in Policies |-> {}]
    /\ tapLock = None /\ polLock = None
    /\ pc = [t \in Threads |-> "idle"]
    /\ tap = [t \in Threads |-> None]
    /\ policy = [t \in Threads |-> None]
    /\ asked = 0

Goto(t, place) == pc' = [pc EXCEPT ![t] = place]

Reply(t) ==
    /\ Goto(t, "idle")
    /\ tap' = [tap EXCEPT ![t] = None]
    /\ policy' = [policy EXCEPT ![t] = None]

-----------------------------------------------------------------------------
\* POST /taps: TapManager::load registers the tap, or finds its name taken.
PostTap(t, x) ==
    /\ pc[t] = "idle" /\ tapLock = None
    /\ x \notin taps
    /\ taps' = taps \cup {x}
    /\ UNCHANGED <<reg, points, freed, locks, pc, tap, policy>>

\* POST /policies: with _load_mutex, the policy's name is free and its tap there.
PostPolicy(t, p, x) ==
    /\ pc[t] = "idle" /\ tapLock = None /\ polLock = None
    /\ p \notin reg /\ x \in taps
    /\ \A u \in Threads : pc[u] \notin {"load_tap", "load_register"}
    /\ Goto(t, "load_tap")
    /\ tap' = [tap EXCEPT ![t] = x]
    /\ policy' = [policy EXCEPT ![t] = p]
    /\ UNCHANGED <<stores, locks>>

\* The tap is found again and the policy points to it, under the taps' lock.
LoadTap(t) ==
    /\ pc[t] = "load_tap" /\ tapLock = None
    /\ \/ /\ tap[t] \in taps
          /\ points' = [points EXCEPT ![policy[t]] = {tap[t]}]
          /\ Goto(t, "load_register")
          /\ UNCHANGED <<tap, policy>>
       \/ tap[t] \notin taps /\ Reply(t) /\ UNCHANGED points
    /\ UNCHANGED <<taps, reg, freed, locks>>

\* The policy starts and is registered, or fails to and goes.
LoadRegister(t) ==
    /\ pc[t] = "load_register" /\ polLock = None
    /\ \/ /\ reg' = reg \cup {policy[t]}
          /\ Goto(t, "load_reply")
          /\ UNCHANGED <<points, freed, tap, policy>>
       \/ /\ points' = [points EXCEPT ![policy[t]] = {}]
          /\ freed' = {f \in freed : f[1] # policy[t]}
          /\ Reply(t)
          /\ UNCHANGED reg
    /\ UNCHANGED <<taps, locks>>

\* The reply: info_json of the policy, through the pointer load() returned.
LoadReply(t) ==
    /\ pc[t] = "load_reply"
    /\ Reply(t)
    /\ UNCHANGED <<stores, locks>>

\* DELETE /policies: the policy and its pointers go.
RemovePolicy(t, p) ==
    /\ pc[t] = "idle" /\ polLock = None
    /\ p \in reg
    /\ reg' = reg \ {p}
    /\ points' = [points EXCEPT ![p] = {}]
    /\ freed' = {f \in freed : f[1] # p}
    /\ UNCHANGED <<taps, locks, pc, tap, policy>>

\* DELETE /taps: the tap exists ...
DeleteTap(t, x) ==
    /\ pc[t] = "idle" /\ tapLock = None
    /\ x \in taps
    /\ Goto(t, "delete_tap")
    /\ tap' = [tap EXCEPT ![t] = x]
    /\ UNCHANGED <<stores, locks, policy>>

\* ... is found again, and the taps' lock kept ...
DeleteLockTaps(t) ==
    /\ pc[t] = "delete_tap" /\ tapLock = None
    /\ \/ /\ tap[t] \in taps
          /\ tapLock' = t
          /\ Goto(t, "delete_policies")
          /\ UNCHANGED <<tap, policy>>
       \/ tap[t] \notin taps /\ Reply(t) /\ UNCHANGED tapLock
    /\ UNCHANGED <<stores, polLock>>

\* As mistakes would have it: the tap is not taken out of the policies ...
DeleteFromNone(t) ==
    /\ pc[t] = "delete_policies" /\ polLock = None
    /\ polLock' = t /\ tapLock' = None
    /\ Goto(t, "delete_remove")
    /\ UNCHANGED <<stores, tap, policy>>

\* ... and the taps' lock is not let go before module_remove takes it again.
DeleteKeepLock(t) ==
    /\ pc[t] = "delete_policies" /\ polLock = None
    /\ polLock' = t
    /\ points' = [p \in Policies |-> IF p \in reg THEN points[p] \ {tap[t]} ELSE points[p]]
    /\ Goto(t, "delete_remove")
    /\ UNCHANGED <<taps, reg, freed, tapLock, tap, policy>>

\* ... until, under the policies' lock, it is taken out of every registered one.
DeleteFromPolicies(t) ==
    /\ pc[t] = "delete_policies" /\ polLock = None
    /\ polLock' = t /\ tapLock' = None
    /\ points' = [p \in Policies |-> IF p \in reg THEN points[p] \ {tap[t]} ELSE points[p]]
    /\ Goto(t, "delete_remove")
    /\ UNCHANGED <<taps, reg, freed, tap, policy>>

\* With the policies' lock still held the taps' lock is taken again to destroy
\* the tap.  It is there: only the owner of the policies' lock destroys taps.
DeleteRemove(t) ==
    /\ pc[t] = "delete_remove" /\ tapLock = None
    /\ taps' = taps \ {tap[t]}
    /\ freed' = freed \cup {<<p, tap[t]>> : p \in {q \in Policies : tap[t] \in points[q]}}
    /\ polLock' = None
    /\ Reply(t)
    /\ UNCHANGED <<reg, points, tapLock>>

-----------------------------------------------------------------------------
Go(t) ==
    /\ \/ LoadTap(t)
       \/ LoadRegister(t)
       \/ LoadReply(t)
       \/ DeleteLockTaps(t)
       \/ DeleteFromPolicies(t)
       \/ DeleteRemove(t)
    /\ UNCHANGED asked

Ask(t) ==
    /\ asked < MaxRequests /\ asked' = asked + 1
    /\ \/ \E x \in Taps : PostTap(t, x)
       \/ \E p \in Policies, x \in Taps : PostPolicy(t, p, x)
       \/ \E p \in Policies : RemovePolicy(t, p)
       \/ \E x \in Taps : DeleteTap(t, x)

\* A request that was asked goes on whenever the lock it needs is free; it waits
\* for finitely many others.
Spec ==
    /\ Init /\ [][\E t \in Threads : Ask(t) \/ Go(t)]_vars
    /\ \A t \in Threads : WF_vars(Go(t))

\* The same where a deletion, from the taps' lock on, meets no other one and no
\* load that has its tap.
Deleting == \E t \in Threads : pc[t] \in {"delete_policies", "delete_remove"}

QuietGo(t) ==
    /\ pc[t] \in {"load_tap", "delete_tap"} => ~Deleting
    /\ pc[t] = "delete_tap" => \A u \in Threads : pc[u] # "load_register"
    /\ Go(t)

QuietSpec ==
    /\ Init /\ [][\E t \in Threads : Ask(t) \/ QuietGo(t)]_vars
    /\ \A t \in Threads : WF_vars(QuietGo(t))

-----------------------------------------------------------------------------
\* No policy points to a tap that DELETE destroyed: GET /policies follows the
\* pointers (Policy::info_json).
NoDanglingTap == freed = {}

\* Every request is answered: no two wait for each other's lock.
RequestsEnd == \A t \in Threads : pc[t] # "idle" ~> pc[t] = "idle"
=============================================================================
