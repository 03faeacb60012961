--------------------------- MODULE ResourcesWindow --------------------------
(***************************************************************************)
(* The input resources handler keeps, in every bucket, how many policies   *)
(* are attached to the input stream.  A bucket starts at zero, so at every *)
(* period shift the handler adds the running total to the fresh bucket;    *)
(* a policy that is attached or removed changes the total first, then the  *)
(* live bucket.  Policies change on the admin thread, and windows shift    *)
(* with any event, on that thread or on the capture thread.  (The number   *)
(* of handlers is kept beside it, by the same steps.)                      *)
(***************************************************************************)
EXTENDS Integers, Sequences, TLAPS

CONSTANTS
    MaxPolicies,
    MaxShifts,
    MaxClosed,  \* closed buckets kept (num_periods - 1)
    Calm        \* TRUE: no shift falls due while a policy is changed

VARIABLES
    attached,   \* history: policies attached to the stream
    total,      \* policy_total
    live,       \* _policy_count of the live bucket
    closed,     \* of the read-only ones, newest first
    due,        \* the next event shifts the period
    change,     \* what the admin thread is adding: 0 when idle
    pc, shifts

vars == <<attached, total, live, closed, due, change, pc, shifts>>

Init ==
    /\ attached = 0 /\ total = 0 /\ live = 0 /\ closed = <<>>
    /\ due = FALSE /\ change = 0 /\ pc = "idle" /\ shifts = 0

\* process_policies of the bucket: a removal never takes it below zero.
ProcessPolicies(count, n) == IF n < 0 /\ -n > count THEN 0 ELSE count + n

\* Mutant of PeriodShift: the fresh bucket starts at zero.
PeriodShiftBare ==
    /\ closed' = SubSeq(<<live>> \o closed, 1, IF Len(closed) < MaxClosed THEN Len(closed) + 1 ELSE MaxClosed)
    /\ live' = 0
    /\ due' = FALSE

\* A period shift, on_period_shift included: the new bucket is the live one
\* when the total is added to it.
PeriodShift ==
    /\ closed' = SubSeq(<<live>> \o closed, 1, IF Len(closed) < MaxClosed THEN Len(closed) + 1 ELSE MaxClosed)
    /\ live' = ProcessPolicies(0, total)
    /\ due' = FALSE

\* new_event: shifts first when the period is over.
NewEvent == IF due THEN PeriodShift ELSE UNCHANGED <<closed, live, due>>

-----------------------------------------------------------------------------

TimePasses ==
    /\ ~due /\ shifts < MaxShifts
    /\ Calm => pc = "idle"
    /\ due' = TRUE
    /\ shifts' = shifts + 1
    /\ UNCHANGED <<attached, total, live, closed, change, pc>>

\* process_resources, or check_period_shift on a heartbeat.
CaptureEvent ==
    /\ NewEvent
    /\ UNCHANGED <<attached, total, change, pc, shifts>>

\* process_policies of the manager: the total, the event, the live bucket.
ChangePolicies(n) ==
    /\ pc = "idle"
    /\ attached + n \in 0..MaxPolicies
    /\ Calm => ~due
    /\ attached' = attached + n
    /\ total' = total + n
    /\ change' = n
    /\ pc' = "event"
    /\ UNCHANGED <<live, closed, due, shifts>>

PolicyEvent ==
    /\ pc = "event"
    /\ NewEvent
    /\ pc' = "count"
    /\ UNCHANGED <<attached, total, change, shifts>>

CountPolicy ==
    /\ pc = "count"
    /\ live' = ProcessPolicies(live, change)
    /\ change' = 0
    /\ pc' = "idle"
    /\ UNCHANGED <<attached, total, closed, due, shifts>>

Next ==
    \/ TimePasses \/ CaptureEvent \/ PolicyEvent \/ CountPolicy
    \/ \E n \in {1, -1} : ChangePolicies(n)

Spec == Init /\ [][Next]_vars

\* specialized_merge: the buckets are merged newest first, and only the
\* first one's count is taken.
MergedCount == (<<live>> \o closed)[1]

(***************************************************************************)
(* The exported number of policies, of the live window or of a merge that  *)
(* starts with it, is the number of policies attached to the input stream  *)
(* whenever no change is under way.                                        *)
(***************************************************************************)
PolicyCountExact == pc = "idle" => live = attached /\ MergedCount = attached

-----------------------------------------------------------------------------
(***************************************************************************)
(* The number of policies the input resources handler exports is exact,    *)
(* for any number of policies, shifts and windows, as long as no shift     *)
(* falls due while a policy is being changed.                              *)
(***************************************************************************)
\* What is left of a change is what the live bucket lacks of the total, and no
\* shift is due before it is there.
RInv ==
    /\ attached \in Nat /\ total = attached
    /\ change \in {-1, 0, 1}
    /\ live \in Nat /\ live + change = attached
    /\ closed \in Seq(Nat)
    /\ due \in BOOLEAN
    /\ pc \in {"idle", "event", "count"}
    /\ pc = "idle" => change = 0
    /\ pc # "idle" => due = FALSE

\* A closed bucket joins the others.
LEMMA ClosedSeq ==
    ASSUME MaxClosed \in Nat, RInv
    PROVE  SubSeq(<<live>> \o closed, 1, IF Len(closed) < MaxClosed THEN Len(closed) + 1 ELSE MaxClosed)
             \in Seq(Nat)
<1> DEFINE all == <<live>> \o closed
<1> DEFINE n == IF Len(closed) < MaxClosed THEN Len(closed) + 1 ELSE MaxClosed
<1>1. all \in Seq(Nat) /\ Len(all) = Len(closed) + 1
  BY DEF RInv
<1>2. n \in Nat /\ n <= Len(all)
  BY <1>1 DEF RInv
<1> HIDE DEF all, n
<1>3. SubSeq(all, 1, n) \in Seq(Nat)
  BY <1>1, <1>2
<1> QED
  BY <1>3 DEF all, n

\* An event shifts the window or leaves it; the live bucket has the total either way.
LEMMA EventKeeps ==
    ASSUME MaxClosed \in Nat, RInv, NewEvent, change = 0 \/ due = FALSE
    PROVE  /\ live' \in Nat /\ live' + change = attached
           /\ closed' \in Seq(Nat) /\ due' = FALSE
<1>1. CASE due = FALSE
  BY <1>1 DEF RInv, NewEvent
<1>2. CASE due = TRUE
  <2>1. PeriodShift /\ change = 0
    BY <1>2 DEF NewEvent
  <2>2. closed' \in Seq(Nat)
    BY <2>1, ClosedSeq DEF PeriodShift
  <2> QED
    BY <2>1, <2>2 DEF RInv, PeriodShift, ProcessPolicies
<1> QED
  BY <1>1, <1>2 DEF RInv

\* Nothing is attached to a new stream, and its bucket says so.
LEMMA RInvInit == Init => RInv
<1> SUFFICES ASSUME Init PROVE RInv
  OBVIOUS
<1>1. due = FALSE
  BY Zenon DEF Init
<1>2. /\ attached \in Nat /\ total = attached /\ change \in {-1, 0, 1}
      /\ live \in Nat /\ live + change = attached
      /\ pc = "idle" /\ change = 0
  BY DEF Init
<1>3. closed \in Seq(Nat)
  BY DEF Init
<1> QED
  BY <1>1, <1>2, <1>3 DEF RInv

\* Every step keeps the account.
LEMMA RInvNext ==
    ASSUME Calm, MaxClosed \in Nat, MaxPolicies \in Nat, RInv, [Next]_vars
    PROVE  RInv'
<1>1. CASE TimePasses
  BY <1>1 DEF RInv, TimePasses
<1>2. CASE CaptureEvent
  <2>1. change = 0 \/ due = FALSE
    BY DEF RInv
  <2> QED
    BY <1>2, <2>1, EventKeeps DEF RInv, CaptureEvent
<1>3. CASE PolicyEvent
  <2>1. due = FALSE
    BY <1>3 DEF RInv, PolicyEvent
  <2> QED
    BY <1>3, <2>1, EventKeeps DEF RInv, PolicyEvent
<1>4. CASE CountPolicy
  BY <1>4 DEF RInv, CountPolicy, ProcessPolicies
<1>5. ASSUME NEW n \in {1, -1}, ChangePolicies(n) PROVE RInv'
  <2>1. attached + n \in Nat
    BY <1>5 DEF ChangePolicies
  <2> QED
    BY <1>5, <2>1 DEF RInv, ChangePolicies
<1>6. CASE UNCHANGED vars
  BY <1>6 DEF RInv, vars
<1> QED
  BY <1>1, <1>2, <1>3, <1>4, <1>5, <1>6 DEF Next

\* In a calm stream the exported number of policies is always the number of
\* policies attached to it, in the live window and in a merge that starts there.
THEOREM PolicyCountInCalm ==
    ASSUME Calm, MaxClosed \in Nat, MaxPolicies \in Nat
    PROVE  Spec => []PolicyCountExact
<1>1. RInv => PolicyCountExact
  BY DEF RInv, PolicyCountExact, MergedCount
<1>2. RInv /\ [Next]_vars => RInv'
  BY RInvNext
<1> QED
  BY <1>1, <1>2, RInvInit, PTL DEF Spec
=============================================================================
