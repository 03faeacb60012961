---------------------------- MODULE EndingsProofs ----------------------------
(***************************************************************************)
(* What is proved of the attempts of a TCP probe and of the policies'      *)
(* loads and removals, for every interval and timeout and for any number   *)
(* of policies, inputs and filters: the inductive invariants, for every    *)
(* action that it keeps them, and at the end the theorems.                 *)
(*                                                                         *)
(* The policies: with their names apart from those of the resources        *)
(* policies, and with removals that run to their end between two steps of  *)
(* a load (CalmSpec).  A removal that overlaps a load's steps can leave a  *)
(* pointer dangling, so that none of this holds of Spec.                   *)
(*                                                                         *)
(* The library's theorems on finite sets and on the naturals come in at    *)
(* the end only: what the steps need of them is FiniteLaws, a conjunct of  *)
(* the invariant that is proved there once.  Each of them in sight would   *)
(* slow every step of a long proof down.                                   *)
(***************************************************************************)
EXTENDS PolicyLifecycle, TcpAttempts, TLAPS

-----------------------------------------------------------------------------
(* The attempts of a TCP probe *)

\* Why it holds: an attempt that is connecting has no outcome yet and its
\* client is the one the probe holds, and an attempt that is not connecting
\* has its outcome, unless its transaction was cleared before it succeeded.
\* A probe that was stopped may leave the flag on, and does nothing more.
AInv ==
    /\ connecting \in BOOLEAN /\ uncounted \in BOOLEAN /\ skipped = FALSE
    /\ stopped \in BOOLEAN
    /\ outcomes \in {0, 1}
    /\ connecting => outcomes = 0
    /\ connecting /\ ~stopped => client = "connecting"
    /\ client = "connecting" => connecting
    /\ ~connecting /\ outcomes = 0 => uncounted

\* A new probe has no attempt that waits for its outcome.
LEMMA AInvInit == AttemptInit => AInv
  <1>1. 1 # 0
    OBVIOUS
  <1> QED
    BY <1>1, Zenon DEF AttemptInit, AInv

\* Every callback and timer keeps the account.
LEMMA AInvNext == AInv /\ [AttemptNext]_attemptVars => AInv'
  <1> SUFFICES ASSUME AInv, [AttemptNext]_attemptVars PROVE AInv'
    OBVIOUS
  <1>1. CASE Pass
    BY <1>1 DEF AInv, Pass
  <1>2. CASE PutOff
    BY <1>2 DEF AInv, PutOff
  <1>3. ASSUME Dropped PROVE DroppedOutcome \in {0, 1} /\ (DroppedOutcome = 0 => uncounted)
    BY <1>3 DEF AInv, Dropped, DroppedOutcome, Alive
  <1>4. CASE TickWithoutAttempt
    BY <1>3, <1>4, Zenon DEF AInv, TickWithoutAttempt, Dropped, Alive
  <1>5. CASE TickAttempt
    <2>1. 1 # 0
      OBVIOUS
    <2>2. Dropped /\ ~stopped
      BY <1>5, Zenon DEF TickAttempt, Dropped
    <2>3. skipped' = FALSE
      BY <1>3, <1>5, <2>2, Zenon DEF AInv, TickAttempt
    <2>4. stopped' = stopped /\ uncounted' = FALSE
      BY <1>5, Zenon DEF TickAttempt
    <2>5. CASE client' = "connecting" /\ connecting' = TRUE /\ outcomes' = 0
      BY <2>3, <2>4, <2>5, Zenon DEF AInv
    <2>6. CASE client' = "closed" /\ connecting' = FALSE /\ outcomes' = 1
      BY <2>1, <2>3, <2>4, <2>6, Zenon DEF AInv
    <2> QED
      BY <1>5, <2>5, <2>6, Zenon DEF TickAttempt
  <1>6. CASE Connected
    <2>1. 1 # 0 /\ (outcomes = 0 => outcomes + 1 = 1)
      OBVIOUS
    <2>2. /\ client = "connecting" /\ client' = "connected" /\ connecting' = FALSE
          /\ uncounted' = (open = NotOpen) /\ skipped' = skipped /\ stopped' = stopped
      BY <1>6, Zenon DEF Connected
    <2>3. outcomes = 0
      BY <2>2, Zenon DEF AInv
    <2>4. CASE open = NotOpen
      <3>1. outcomes' = 0 /\ uncounted' = TRUE
        BY <1>6, <2>2, <2>3, <2>4, Zenon DEF Connected
      <3> QED
        BY <2>1, <2>2, <3>1, Zenon DEF AInv
    <2>5. CASE open # NotOpen
      <3>1. outcomes' = 1 /\ uncounted' = FALSE
        BY <1>6, <2>1, <2>2, <2>3, <2>5, Zenon DEF Connected
      <3> QED
        BY <2>1, <2>2, <3>1, Zenon DEF AInv
    <2> QED
      BY <2>4, <2>5
  <1>7. CASE Refused
    <2>1. 1 # 0 /\ (outcomes = 0 => outcomes + 1 = 1)
      OBVIOUS
    <2>2. /\ client' = "closed" /\ UNCHANGED <<uncounted, skipped, stopped>>
      BY <1>7, Zenon DEF Refused, Failed
    <2>3. CASE connecting
      <3>1. connecting' = FALSE /\ outcomes' = 1
        BY <1>7, <2>1, <2>3, Zenon DEF AInv, Refused, Failed
      <3> QED
        BY <2>1, <2>2, <3>1, Zenon DEF AInv
    <2>4. CASE ~connecting
      <3>1. connecting' = connecting /\ outcomes' = outcomes
        BY <1>7, <2>4, Zenon DEF Refused, Failed
      <3> QED
        BY <2>2, <2>4, <3>1, Zenon DEF AInv
    <2> QED
      BY <2>3, <2>4
  <1>8. CASE Cancelled
    BY <1>8 DEF AInv, Cancelled, Failed
  <1>9. CASE Shutdown
    BY <1>9 DEF AInv, Shutdown
  <1>10. CASE Shift
    BY <1>10 DEF AInv, Shift
  <1>11. CASE StopTcp
    BY <1>11 DEF AInv, StopTcp, Alive
  <1>12. CASE UNCHANGED attemptVars
    BY <1>12 DEF AInv, attemptVars
  <1> QED
    BY <1>1, <1>2, <1>4, <1>5, <1>6, <1>7, <1>8, <1>9, <1>10, <1>11, <1>12 DEF AttemptNext, Tick

\* The account says what OutcomeOnce says.
LEMMA AInvOutcome == AInv => OutcomeOnce
  BY DEF AInv, OutcomeOnce

-----------------------------------------------------------------------------
(***************************************************************************)
(* The policies.  The invariant says at every step what NothingLeaked and  *)
(* PoliciesServed say at rest, with the exceptions that are open there:    *)
(* what the load in progress has made and not yet handed to its policy,    *)
(* and what the removal in progress has not yet taken away.                *)
(***************************************************************************)
\* No policy is loaded under the name of a resources policy.  The code makes that
\* name of the input's name, and takes a policy of that name while it is free.
NamesApart == \A i \in Inputs : ResourcesName[i] \notin Policies

\* What the proofs use of finite sets and of the naturals: the empty set, adding
\* and removing an element, sets of no and of one element, the smallest of a set.
FiniteLaws ==
    /\ IsFiniteSet({}) /\ Cardinality({}) = 0
    /\ \A S, x : IsFiniteSet(S) => IsFiniteSet(S \cup {x}) /\ IsFiniteSet(S \ {x})
    /\ \A S : IsFiniteSet(S) =>
           /\ Cardinality(S) \in Nat
           /\ Cardinality(S) = 0 => S = {}
           /\ Cardinality(S) = 1 <=> \E x : S = {x}
    /\ \A T \in SUBSET Nat : T # {} => \E k \in T : \A j \in T : k <= j

\* The lists of inputs the code loops over: no tap is named twice.
Lists == {s \in Seq(Inputs) : Distinct(s)}

\* The steps of load() while it builds the policy, those of its rollback, and
\* those after Policy::start has returned.
Adding == {"tap", "attach", "resources", "handlers", "inputs",
           "start_res", "register_res", "register"}
Undoing == {"rb_stop", "rb_detach", "rb_resources", "rb_handlers", "rb_inputs"}
Running == {"start_res", "register_res", "register"}

\* The steps of a removal inside Policy::stop and in _remove_input_if_unused.
Stopping == {"stop", "stop_input"}
Leaving == {"one", "res", "res_stop", "zero", "free"}

\* The resources policies that this load made and has not registered yet.
Pending == {Res(i) : i \in made \ resAdded}

\* The module maps and what the modules know; only modules that exist run.
ModuleTypes ==
    /\ reg \in SUBSET Objects /\ started \in SUBSET Objects
    /\ inputs \in SUBSET Inputs /\ irun \in SUBSET inputs
    /\ handlers \in SUBSET (Objects \X Inputs) /\ hrun \in SUBSET handlers
    /\ streams \in [Objects -> Lists]

\* InputStream::_policies of each input is a finite set.
AttachedType ==
    /\ attached \in [Inputs -> SUBSET Objects]
    /\ \A i \in Inputs : IsFiniteSet(attached[i])

\* The local variables of load() and of the thread that holds the map lock.
CallTypes ==
    /\ todo \in Lists /\ joined \in Lists /\ ctodo \in Lists
    /\ fresh \in SUBSET Inputs /\ made \in SUBSET fresh /\ resAdded \in SUBSET made
    /\ lpc \in {"idle"} \cup Adding \cup Undoing
    /\ cpc \in {"idle", "handlers"} \cup Stopping \cup Leaving
    /\ mapLock \in {"free", "remove", "rollback"}

\* A registered policy that is not being removed is served at every moment: it
\* runs, its handlers run, and its inputs run and count it.
AllServed ==
    \A o \in reg \ {leaving} :
        /\ o \in started
        /\ \A i \in Elems(streams[o]) : <<o, i>> \in hrun /\ i \in irun /\ o \in attached[i]

\* Whom an input counts: a registered policy, the one being loaded once it has
\* joined, or a resources policy on its way into the map; each knows the input.
AttachedBy ==
    \A i \in Inputs : \A o \in attached[i] :
        /\ i \in inputs /\ i \in Elems(streams[o])
        /\ \/ o \in reg
           \/ o = loading /\ i \in Elems(joined)
           \/ lpc = "register_res" /\ o = Res(i) /\ i = Head(todo)

\* Which policies run: registered ones, and those that load() has just started.
StartedBy ==
    \A o \in started :
        \/ o \in reg
        \/ o = loading /\ lpc \in Running
        \/ lpc = "register_res" /\ o = Res(Head(todo))

\* Whose handlers are in the map of the HandlerManager.
HandlersBy ==
    \A o \in Objects, i \in Inputs :
        <<o, i>> \in handlers => i \in Elems(streams[o]) /\ o \in reg \cup {loading} \cup Pending

\* A policy object that is gone knows no input; a resources policy knows its own.
StreamsBy ==
    /\ \A o \in Objects : o \notin reg \cup {loading} \cup Pending => streams[o] = << >>
    /\ \A i \in Inputs : Res(i) \in reg \cup Pending => streams[Res(i)] = <<i>>

\* The inputs that the removal in progress has still to look at.
Unsettled ==
    IF cpc \in Stopping \cup {"handlers"} THEN Elems(streams[leaving]) ELSE Elems(ctodo)

\* An input exists because an ordinary policy is on it, because the running load
\* made it, or because the running removal has not come to it yet.
InputsUsed ==
    \A i \in inputs : attached[i] \cap Policies # {} \/ i \in fresh \/ i \in Unsettled

\* The only registered policy on an input that the running load made is its
\* resources policy: nobody else can have joined it, loads exclude each other.
FreshOwn ==
    \A i \in fresh : \A o \in reg : i \in Elems(streams[o]) => o = Res(i) /\ i \in resAdded

\* Between two loads nothing of the last one is left in the local variables.
IdleNow == lpc = "idle" =>
    /\ loading = None /\ fresh = {} /\ made = {} /\ resAdded = {}
    /\ joined = << >> /\ todo = << >>

\* The policy being loaded is not registered.
LoadingNow == lpc # "idle" => loading \in Policies /\ loading \notin reg

\* While it is built, the policy is counted by the inputs it knows, and has a
\* handler on each.
JoinedNow == lpc \in Adding =>
    /\ Elems(streams[loading]) = Elems(joined)
    /\ \A i \in Elems(joined) : loading \in attached[i] /\ <<loading, i>> \in handlers
    /\ lpc \notin {"tap", "attach"} => Elems(joined) # {}

\* An input made by this load has been joined, or is joined next.
FreshNow == lpc \in Adding =>
    fresh \subseteq Elems(joined) \cup (IF lpc = "attach" THEN {Head(todo)} ELSE {})

\* The taps still to come are none of those joined.
TapNow == lpc \in {"tap", "attach"} => todo # << >> /\ Elems(todo) \cap Elems(joined) = {}

\* The handler of a resources policy runs as soon as the policy is made.
PendingNow == lpc \in Adding =>
    /\ \A i \in made \ resAdded : <<Res(i), i>> \in hrun
    /\ lpc \in {"tap", "attach", "resources"} => made = {}
    /\ lpc \notin Running => resAdded = {}

\* The handlers of the policy run after start() has started them and not before.
HandlersNow == lpc \in Adding =>
    IF lpc \in Running \cup {"inputs"}
    THEN \A i \in Elems(joined) : <<loading, i>> \in hrun
    ELSE \A i \in Inputs : <<loading, i>> \notin hrun

\* The loop of Policy::start over the inputs: those behind it run.
StartingNow == lpc = "inputs" =>
    /\ todo # << >> /\ Elems(todo) \subseteq Elems(joined)
    /\ \A i \in Elems(joined) : i \in irun \/ i \in Elems(todo)

\* After start(): the inputs joined run, and the resources policies not yet
\* registered are those the loop has before it.
RunningNow == lpc \in Running =>
    /\ loading \in started
    /\ \A i \in Elems(joined) : i \in irun
    /\ made \ resAdded \subseteq Elems(todo)
    /\ Elems(todo) \subseteq Elems(joined) /\ Elems(todo) \cap resAdded = {}
    /\ todo # << >> => Head(todo) \in made
    /\ lpc = "register" => todo = << >>
    /\ lpc = "register_res" =>
         /\ todo # << >>
         /\ Res(Head(todo)) \in started
         /\ Res(Head(todo)) \in attached[Head(todo)]

\* In a rollback: no handler of the policy runs, no resources policy was
\* registered, and the policy leaves its inputs one by one.
UndoingNow == lpc \in Undoing =>
    /\ resAdded = {}
    /\ lpc # "rb_detach" => todo = << >>
    /\ \A i \in Inputs : <<loading, i>> \notin hrun
    /\ \A i \in Inputs : loading \in attached[i] =>
          lpc = "rb_stop" \/ (lpc = "rb_detach" /\ i \in Elems(todo))
    /\ lpc = "rb_inputs" =>
         /\ \A i \in Inputs : <<loading, i>> \notin handlers
         /\ \A i \in made : <<Res(i), i>> \notin handlers

\* Who holds the map lock, and how far a removal has come with its policy.
LockNow ==
    /\ mapLock = "free" => cpc = "idle" /\ leaving = None /\ ctodo = << >>
    /\ mapLock = "rollback" =>
         /\ lpc = "rb_detach" /\ leaving = loading /\ cpc \in Leaving
         /\ Elems(ctodo) \cap (fresh \cup Elems(todo)) = {}
    /\ mapLock = "remove" =>
         /\ cpc # "idle"
         /\ leaving \in reg /\ Elems(ctodo) \subseteq Elems(streams[leaving])
         /\ cpc \in Stopping => \A i \in Inputs : leaving \in attached[i] <=> i \in Elems(ctodo)
         /\ cpc \notin Stopping =>
              /\ leaving \notin started
              /\ \A i \in Inputs : <<leaving, i>> \notin hrun /\ leaving \notin attached[i]
         /\ cpc \in Leaving => \A i \in Inputs : <<leaving, i>> \notin handlers

\* What the last test of a removal saw is still true when the next step uses it:
\* nobody joins or leaves an input while the map lock is held.
StepNow ==
    /\ cpc \in {"stop_input", "res", "res_stop", "zero", "free"} => ctodo # << >>
    /\ cpc = "stop_input" =>
         \A i \in cstop : i = Head(ctodo) /\ attached[i] \subseteq {leaving}
    /\ cpc \in {"res", "res_stop"} =>
         /\ Res(Head(ctodo)) \in reg /\ Res(Head(ctodo)) # leaving
         /\ attached[Head(ctodo)] = {Res(Head(ctodo))}
    /\ cpc = "res_stop" => cstop \subseteq {Head(ctodo)}
    /\ cpc = "zero" => attached[Head(ctodo)] = {} \/ attached[Head(ctodo)] \cap Policies # {}
    /\ cpc = "free" => attached[Head(ctodo)] = {}

\* The inductive invariant.
LifecycleInv ==
    /\ NamesApart /\ FiniteLaws
    /\ ModuleTypes /\ AttachedType /\ CallTypes
    /\ AllServed /\ AttachedBy /\ StartedBy /\ HandlersBy /\ StreamsBy /\ InputsUsed /\ FreshOwn
    /\ IdleNow /\ LoadingNow /\ JoinedNow /\ FreshNow /\ TapNow /\ PendingNow /\ HandlersNow
    /\ StartingNow /\ RunningNow /\ UndoingNow /\ LockNow /\ StepNow /\ dangling = {}

\* The input of a resources policy that is itself being removed still has an
\* ordinary policy on it, so that it stays.
LeavingResourcesNow ==
    mapLock = "remove" => \A i \in Inputs : leaving = Res(i) => attached[i] \cap Policies # {}

-----------------------------------------------------------------------------
(* Names, pairs, lists and finite sets *)

\* The two facts about constants hold in the next state too.
LEMMA ConstantsKept ==
    ASSUME NamesApart, FiniteLaws
    PROVE  NamesApart' /\ FiniteLaws'
  BY Zenon DEF NamesApart, FiniteLaws

\* Policies, resources policies and None are told apart.
LEMMA ObjectFacts ==
    /\ Policies \subseteq Objects /\ None \notin Objects
    /\ \A i \in Inputs : Res(i) \in Objects /\ Res(i) \notin Policies /\ Res(i) # None
    /\ \A i, j \in Inputs : Res(i) = Res(j) => i = j
    /\ \A o \in Objects : o \in Policies \/ \E i \in Inputs : o = Res(i)
  BY LifecycleConstants DEF Objects, Res

\* With the names apart, a name finds the policy object it was made for.
LEMMA NameFacts ==
    ASSUME NamesApart, reg \subseteq Objects
    PROVE  /\ \A p \in Policies : Exists(p) <=> p \in reg
           /\ \A i \in Inputs : Exists(ResourcesName[i]) <=> Res(i) \in reg
           /\ \A i \in Inputs : Res(i) \in reg => ResourcesPolicy(i) = Res(i)
           /\ \A i \in Inputs, o \in Objects : Name(o) = ResourcesName[i] <=> o = Res(i)
  <1>1. \A i \in Inputs : Name(Res(i)) = ResourcesName[i]
    BY ObjectFacts, Zenon DEF Name, Res
  <1>2. \A p \in Policies : Name(p) = p
    BY DEF Name
  <1>3. \A i \in Inputs, o \in Objects : Name(o) = ResourcesName[i] <=> o = Res(i)
    BY <1>1, <1>2, ObjectFacts, LifecycleConstants DEF NamesApart
  <1>4. \A p \in Policies, o \in Objects : Name(o) = p <=> o = p
    BY <1>1, <1>2, ObjectFacts DEF NamesApart
  <1>5. \A i \in Inputs : Res(i) \in reg => ResourcesPolicy(i) = Res(i)
    BY <1>3, ObjectFacts DEF ResourcesPolicy
  <1> QED
    BY <1>3, <1>4, <1>5, ObjectFacts DEF Exists

\* A pair in a set of pairs that has got one more.
LEMMA PairAdded ==
    \A R, Q, a, b, c, d :
        Q \in {R, R \cup {<<a, b>>}} /\ <<c, d>> \in Q => <<c, d>> \in R \/ (c = a /\ d = b)
  OBVIOUS

\* A handler is a policy and an input.
LEMMA HandlerIsPair ==
    ModuleTypes => \A h \in handlers : \E o \in Objects, i \in Inputs : h = <<o, i>>
  BY DEF ModuleTypes

\* The empty list.
LEMMA EmptyList == << >> \in Lists /\ Elems(<< >>) = {}
  BY DEF Lists, Distinct, Elems

\* A list of one input, as a rollback gives it to _remove_input_if_unused.
LEMMA OneList == \A x \in Inputs : <<x>> \in Lists /\ Elems(<<x>>) = {x} /\ Head(<<x>>) = x
  BY DEF Lists, Distinct, Elems

\* The elements of a list, and which list has none.
LEMMA ListElems == \A s \in Lists : Elems(s) \subseteq Inputs /\ (Elems(s) = {} => s = << >>)
  <1> SUFFICES ASSUME NEW s \in Lists
               PROVE  Elems(s) \subseteq Inputs /\ (Elems(s) = {} => s = << >>)
    OBVIOUS
  <1>1. s \in Seq(Inputs) /\ Len(s) \in Nat /\ DOMAIN s = 1..Len(s)
    BY DEF Lists
  <1>2. \A k \in 1..Len(s) : s[k] \in Inputs
    BY <1>1
  <1>3. s # << >> => 1 \in 1..Len(s)
    BY <1>1
  <1> QED
    BY <1>1, <1>2, <1>3 DEF Elems

\* A list put in another order is a list of the same inputs.
LEMMA ListOrders ==
    \A s \in Lists : \A t \in Orders(s) : t \in Lists /\ Elems(t) = Elems(s)
  <1> SUFFICES ASSUME NEW s \in Lists, NEW t \in Orders(s)
               PROVE  t \in Lists
    BY DEF Orders
  <1>1. Len(s) \in Nat /\ DOMAIN s = 1..Len(s) /\ Elems(s) \subseteq Inputs
    BY ListElems DEF Lists
  <1>2. t \in [1..Len(s) -> Inputs] /\ Distinct(t)
    BY <1>1 DEF Orders
  <1>3. t \in Seq(Inputs)
    BY <1>1, <1>2
  <1> QED
    BY <1>2, <1>3 DEF Lists

\* A loop takes the head of its list and leaves the others.
LEMMA ListTail ==
    \A s \in Lists : s # << >> =>
        /\ Head(s) \in Elems(s) /\ Head(s) \in Inputs
        /\ Tail(s) \in Lists
        /\ Elems(Tail(s)) = Elems(s) \ {Head(s)}
  <1> SUFFICES ASSUME NEW s \in Lists, s # << >>
               PROVE  /\ Head(s) \in Elems(s) /\ Head(s) \in Inputs
                      /\ Tail(s) \in Lists
                      /\ Elems(Tail(s)) = Elems(s) \ {Head(s)}
    OBVIOUS
  <1>1. s \in Seq(Inputs) /\ Len(s) \in Nat \ {0} /\ DOMAIN s = 1..Len(s)
    BY DEF Lists
  <1>2. Head(s) = s[1] /\ s[1] \in Inputs
    BY <1>1
  <1>3. /\ Tail(s) \in Seq(Inputs) /\ DOMAIN Tail(s) = 1..(Len(s) - 1)
        /\ \A k \in 1..(Len(s) - 1) : Tail(s)[k] = s[k + 1]
    BY <1>1
  <1>4. \A j, k \in 1..Len(s) : s[j] = s[k] => j = k
    BY <1>1 DEF Lists, Distinct
  <1>5. Tail(s) \in Lists
    <2>1. \A k \in 1..(Len(s) - 1) : k \in Int /\ k + 1 \in 1..Len(s)
      BY <1>1
    <2>2. \A j, k \in 1..(Len(s) - 1) : Tail(s)[j] = Tail(s)[k] => j + 1 = k + 1
      BY <1>3, <1>4, <2>1
    <2>3. \A j, k \in 1..(Len(s) - 1) : j + 1 = k + 1 => j = k
      BY <2>1
    <2>4. Distinct(Tail(s))
      BY <1>3, <2>2, <2>3 DEF Distinct
    <2> QED
      BY <1>3, <2>4 DEF Lists
  <1>6. Elems(Tail(s)) \subseteq Elems(s) \ {Head(s)}
    BY <1>1, <1>2, <1>3, <1>4 DEF Elems
  <1>7. ASSUME NEW x \in Elems(s), x # Head(s) PROVE x \in Elems(Tail(s))
    <2>1. PICK k \in 1..Len(s) : x = s[k]
      BY <1>1 DEF Elems
    <2>2. k - 1 \in 1..(Len(s) - 1) /\ (k - 1) + 1 = k
      BY <1>1, <1>2, <1>7, <2>1
    <2> QED
      BY <1>3, <2>1, <2>2, Zenon DEF Elems
  <1>8. Head(s) \in Elems(s)
    BY <1>1, <1>2 DEF Elems
  <1> QED
    BY <1>2, <1>5, <1>6, <1>7, <1>8

\* A new element at the end of a list.
LEMMA ListAppend ==
    \A s \in Lists, x \in Inputs : x \notin Elems(s) =>
        Append(s, x) \in Lists /\ Elems(Append(s, x)) = Elems(s) \cup {x}
  <1> SUFFICES ASSUME NEW s \in Lists, NEW x \in Inputs, x \notin Elems(s)
               PROVE  Append(s, x) \in Lists /\ Elems(Append(s, x)) = Elems(s) \cup {x}
    OBVIOUS
  <1>1. s \in Seq(Inputs) /\ Len(s) \in Nat /\ DOMAIN s = 1..Len(s)
    BY DEF Lists
  <1>2. /\ Append(s, x) \in Seq(Inputs) /\ DOMAIN Append(s, x) = 1..(Len(s) + 1)
        /\ Append(s, x)[Len(s) + 1] = x
        /\ \A k \in 1..Len(s) : Append(s, x)[k] = s[k]
    BY <1>1
  <1>3. \A j, k \in 1..Len(s) : s[j] = s[k] => j = k
    BY <1>1 DEF Lists, Distinct
  <1>4. \A k \in 1..Len(s) : s[k] # x
    BY <1>1 DEF Elems
  <1>5. \A k \in 1..(Len(s) + 1) : k \in 1..Len(s) \/ k = Len(s) + 1
    BY <1>1
  <1>6. Append(s, x) \in Lists
    <2>1. Distinct(Append(s, x))
      BY <1>2, <1>3, <1>4, <1>5 DEF Distinct
    <2> QED
      BY <1>2, <2>1 DEF Lists
  <1>7. Elems(Append(s, x)) = Elems(s) \cup {x}
    BY <1>1, <1>2, <1>5 DEF Elems
  <1> QED
    BY <1>6, <1>7

\* An input's set of policies stays finite as policies join and leave it.
LEMMA FiniteFacts ==
    ASSUME FiniteLaws
    PROVE  /\ IsFiniteSet({}) /\ Cardinality({}) = 0
           /\ \A S, x : IsFiniteSet(S) => IsFiniteSet(S \cup {x}) /\ IsFiniteSet(S \ {x})
  BY Zenon DEF FiniteLaws

\* What the tests of a count against one say of the set.
LEMMA AtMostOne ==
    ASSUME FiniteLaws
    PROVE  \A S : IsFiniteSet(S) =>
               /\ Cardinality(S) <= 1 => \A x \in S : S \subseteq {x}
               /\ Cardinality(S) = 1 <=> \E x : S = {x}
  <1> SUFFICES ASSUME NEW S, IsFiniteSet(S)
               PROVE  /\ Cardinality(S) <= 1 => \A x \in S : S \subseteq {x}
                      /\ Cardinality(S) = 1 <=> \E x : S = {x}
    OBVIOUS
  <1>1. /\ Cardinality(S) \in Nat
        /\ Cardinality(S) = 0 => S = {}
        /\ Cardinality(S) = 1 <=> \E x : S = {x}
    BY Zenon DEF FiniteLaws
  <1>2. Cardinality(S) <= 1 => Cardinality(S) = 0 \/ Cardinality(S) = 1
    BY <1>1
  <1> QED
    BY <1>1, <1>2, Zenon

\* A loop over some elements of a list misses none of them.
LEMMA ListFrom ==
    ASSUME FiniteLaws
    PROVE  \A s \in Lists, some \in SUBSET Inputs :
               /\ From(s, some) \in Lists
               /\ Elems(From(s, some)) \subseteq Elems(s)
               /\ Elems(s) \cap some \subseteq Elems(From(s, some))
               /\ From(s, some) # << >> => Head(From(s, some)) \in some
  <1> SUFFICES ASSUME NEW s \in Lists, NEW some \in SUBSET Inputs
               PROVE  /\ From(s, some) \in Lists
                      /\ Elems(From(s, some)) \subseteq Elems(s)
                      /\ Elems(s) \cap some \subseteq Elems(From(s, some))
                      /\ From(s, some) # << >> => Head(From(s, some)) \in some
    OBVIOUS
  <1> DEFINE ks == {k \in DOMAIN s : s[k] \in some}
             m == CHOOSE k \in ks : \A j \in ks : k <= j
             t == SubSeq(s, m, Len(s))
  <1>1. s \in Seq(Inputs) /\ Len(s) \in Nat /\ DOMAIN s = 1..Len(s)
    BY DEF Lists
  <1>2. CASE ks = {}
    <2>1. From(s, some) = << >>
      BY <1>2 DEF From
    <2>2. Elems(s) \cap some = {}
      BY <1>2 DEF Elems
    <2> QED
      BY <2>1, <2>2, EmptyList
  <1>3. CASE ks # {}
    <2>1. From(s, some) = t
      BY <1>3, Zenon DEF From
    <2>2. ks \in SUBSET Nat /\ ks \subseteq 1..Len(s)
      BY <1>1
    <2>3. \E k \in ks : \A j \in ks : k <= j
      BY <1>3, <2>2, Zenon DEF FiniteLaws
    <2>4. m \in ks /\ \A j \in ks : m <= j
      BY <2>3
    <2> HIDE DEF m
    <2>5. m \in 1..Len(s) /\ s[m] \in some
      BY <1>1, <2>4
    <2>6. /\ t \in Seq(Inputs) /\ DOMAIN t = 1..(Len(s) - m + 1)
          /\ \A k \in 1..(Len(s) - m + 1) : t[k] = s[m + k - 1]
      BY <1>1, <2>5
    <2>7. t # << >> /\ Head(t) = s[m]
      <3>1. Len(s) - m + 1 \in Nat \ {0} /\ 1 \in 1..(Len(s) - m + 1) /\ m + 1 - 1 = m
        BY <1>1, <2>5
      <3> HIDE DEF t
      <3>2. t[1] = s[m] /\ t # << >>
        BY <2>6, <3>1
      <3> QED
        BY <2>6, <3>2
    <2>8. \A j, k \in 1..Len(s) : s[j] = s[k] => j = k
      BY <1>1 DEF Lists, Distinct
    <2>9. \A k \in 1..(Len(s) - m + 1) : m + k - 1 \in 1..Len(s)
      BY <1>1, <2>5
    <2> HIDE DEF t
    <2>10. t \in Lists
      <3>1. \A j, k \in 1..(Len(s) - m + 1) : t[j] = t[k] => m + j - 1 = m + k - 1
        BY <2>6, <2>8, <2>9, Zenon
      <3>2. \A j, k \in 1..(Len(s) - m + 1) : m + j - 1 = m + k - 1 => j = k
        BY <1>1, <2>5
      <3>3. Distinct(t)
        BY <2>6, <3>1, <3>2 DEF Distinct
      <3> QED
        BY <2>6, <3>3 DEF Lists
    <2>11. Elems(t) \subseteq Elems(s)
      BY <1>1, <2>6, <2>9 DEF Elems
    <2>12. ASSUME NEW x \in Elems(s), x \in some PROVE x \in Elems(t)
      <3>1. PICK k \in 1..Len(s) : x = s[k]
        BY <1>1 DEF Elems
      <3>2. k \in ks
        BY <1>1, <2>12, <3>1
      <3>3. m <= k
        BY <2>4, <3>2
      <3>4. (k - m + 1) \in 1..(Len(s) - m + 1) /\ m + (k - m + 1) - 1 = k
        BY <1>1, <2>5, <3>3
      <3> QED
        BY <2>6, <3>1, <3>4 DEF Elems
    <2> QED
      BY <2>1, <2>5, <2>7, <2>10, <2>11, <2>12
  <1> QED
    BY <1>2, <1>3

-----------------------------------------------------------------------------
(* No step from here on needs arithmetic. *)
USE Zenon

\* Where load() may step, outside the loop of its rollback that leaves the inputs,
\* nobody holds the map lock.
LEMMA Quiet ==
    ASSUME LifecycleInv, mapLock # "remove", lpc # "rb_detach"
    PROVE  mapLock = "free" /\ leaving = None /\ cpc = "idle" /\ ctodo = << >>
  BY DEF LifecycleInv, CallTypes, LockNow

\* The policy being loaded is one of its own.
LEMMA LoadingFacts ==
    ASSUME LifecycleInv, lpc # "idle"
    PROVE  /\ loading \in Policies /\ loading \in Objects /\ loading # None
           /\ loading \notin reg /\ loading \notin Pending
           /\ lpc \notin Running => loading \notin started
  <1>1. loading \in Policies /\ loading \notin reg /\ loading \in Objects /\ loading # None
    BY ObjectFacts DEF LifecycleInv, LoadingNow
  <1>2. loading \notin Pending
    BY <1>1, ObjectFacts DEF Pending, LifecycleInv, CallTypes
  <1> QED
    BY <1>1, <1>2 DEF LifecycleInv, StartedBy, Running

\* The resources policy of a new input is registered by this load only.
LEMMA FreshUnregistered ==
    ASSUME LifecycleInv
    PROVE  \A i \in fresh : i \notin resAdded => Res(i) \notin reg
  <1> SUFFICES ASSUME NEW i \in fresh, Res(i) \in reg
               PROVE  i \in resAdded
    OBVIOUS
  <1>1. i \in Inputs
    BY DEF LifecycleInv, CallTypes
  <1>2. streams[Res(i)] = <<i>>
    BY <1>1 DEF LifecycleInv, StreamsBy
  <1>3. i \in Elems(streams[Res(i)])
    BY <1>1, <1>2, OneList
  <1> QED
    BY <1>3 DEF LifecycleInv, FreshOwn

-----------------------------------------------------------------------------
(* load() *)

\* Tap: an input that is found, or made, has nobody new on it yet.
LEMMA TapKeeps ==
    ASSUME LifecycleInv, mapLock # "remove", Tap
    PROVE  LifecycleInv'
  <1> USE DEF LifecycleInv
  <1>1. /\ lpc = "tap" /\ lpc' \in {"attach", "rb_stop"}
        /\ mapLock = "free" /\ leaving = None /\ cpc = "idle" /\ ctodo = << >>
        /\ UNCHANGED <<reg, handlers, streams, started, irun, attached, hrun, dangling>>
        /\ UNCHANGED <<loading, joined, made, resAdded, mapLock, cpc, leaving, ctodo, cstop>>
    BY Quiet DEF Tap, Rollback, lockVars
  <1>2. /\ loading \in Policies /\ loading \notin started /\ todo # << >>
        /\ Head(todo) \in Inputs /\ made = {} /\ resAdded = {}
    BY <1>1, LoadingFacts, ListTail DEF TapNow, PendingNow, Adding, Running, CallTypes
  <1>3. \/ lpc' = "attach" /\ Head(todo) \in inputs /\ UNCHANGED <<inputs, fresh, todo>>
        \/ /\ lpc' = "attach" /\ Head(todo) \notin inputs /\ UNCHANGED todo
           /\ inputs' = inputs \cup {Head(todo)} /\ fresh' = fresh \cup {Head(todo)}
        \/ lpc' = "rb_stop" /\ todo' = << >> /\ UNCHANGED <<inputs, fresh>>
    BY <1>1, <1>2 DEF Tap, Rollback
  <1>4. ModuleTypes' /\ AttachedType'
    BY <1>1, <1>2, <1>3 DEF ModuleTypes, AttachedType
  <1>5. CallTypes'
    BY <1>1, <1>2, <1>3, EmptyList DEF CallTypes, Adding, Undoing
  <1>6. AllServed' /\ StartedBy' /\ HandlersBy' /\ StreamsBy'
    BY <1>1 DEF AllServed, StartedBy, HandlersBy, StreamsBy, Pending, Running
  <1>7. AttachedBy'
    BY <1>1, <1>3 DEF AttachedBy
  <1>8. InputsUsed'
    BY <1>1, <1>3 DEF InputsUsed, Unsettled
  <1>9. FreshOwn'
    <2>1. \A o \in reg : Head(todo) \notin inputs => Head(todo) \notin Elems(streams[o])
      BY <1>1, ObjectFacts DEF AllServed, ModuleTypes
    <2> QED
      BY <1>1, <1>3, <2>1 DEF FreshOwn
  <1>10. IdleNow' /\ LoadingNow' /\ LockNow' /\ StepNow' /\ dangling' = {}
    BY <1>1 DEF IdleNow, LoadingNow, LockNow, StepNow, Stopping, Leaving
  <1>11. JoinedNow' /\ PendingNow' /\ HandlersNow' /\ StartingNow' /\ RunningNow'
    BY <1>1, <1>2 DEF JoinedNow, PendingNow, HandlersNow, StartingNow, RunningNow, Adding, Running
  <1>12. FreshNow' /\ TapNow'
    BY <1>1, <1>3 DEF FreshNow, TapNow, Adding
  <1>13. UndoingNow'
    BY <1>1, <1>2, <1>3 DEF UndoingNow, HandlersNow, Adding, Undoing, Running
  <1> QED
    BY <1>4, <1>5, <1>6, <1>7, <1>8, <1>9, <1>10, <1>11, <1>12, <1>13, ConstantsKept

\* Attach: the policy joins an input, with its handler, or the load fails on it.
LEMMA AttachKeeps ==
    ASSUME LifecycleInv, mapLock # "remove", Attach
    PROVE  LifecycleInv'
  <1> USE DEF LifecycleInv
  <1> DEFINE i == Head(todo)
  <1>1. /\ lpc = "attach"
        /\ mapLock = "free" /\ leaving = None /\ cpc = "idle" /\ ctodo = << >>
        /\ UNCHANGED <<reg, inputs, started, irun, hrun, dangling>>
        /\ UNCHANGED <<loading, fresh, made, resAdded, mapLock, cpc, leaving, ctodo, cstop>>
    BY Quiet DEF Attach, lockVars
  <1>2. /\ loading \in Policies /\ loading \in Objects /\ loading \notin reg
        /\ loading \notin started /\ made = {} /\ resAdded = {}
    BY <1>1, LoadingFacts DEF PendingNow, Adding, Running, CallTypes
  <1>3. /\ todo \in Lists /\ todo # << >> /\ streams[loading] \in Lists /\ joined \in Lists
        /\ Elems(todo) \cap Elems(joined) = {} /\ Elems(streams[loading]) = Elems(joined)
    BY <1>1, <1>2 DEF ModuleTypes, CallTypes, TapNow, JoinedNow, Adding
  <1>4. /\ i \in Inputs /\ i \in Elems(todo) /\ i \notin Elems(joined)
        /\ Tail(todo) \in Lists /\ Elems(Tail(todo)) = Elems(todo) \ {i}
    BY <1>3, ListTail
  <1>5. /\ Append(streams[loading], i) \in Lists
        /\ Elems(Append(streams[loading], i)) = Elems(joined) \cup {i}
        /\ Append(joined, i) \in Lists /\ Elems(Append(joined, i)) = Elems(joined) \cup {i}
    BY <1>3, <1>4, ListAppend
  <1>6. CASE lpc' = "rb_stop" /\ todo' = << >> /\ UNCHANGED <<streams, handlers, attached, joined>>
    <2>1. ModuleTypes' /\ AttachedType'
      BY <1>1, <1>6 DEF ModuleTypes, AttachedType
    <2>2. CallTypes'
      BY <1>1, <1>6, EmptyList DEF CallTypes, Adding, Undoing
    <2>3. AllServed' /\ AttachedBy' /\ StartedBy' /\ HandlersBy' /\ StreamsBy'
      BY <1>1, <1>6 DEF AllServed, AttachedBy, StartedBy, Running, HandlersBy, StreamsBy, Pending
    <2>4. InputsUsed' /\ FreshOwn'
      BY <1>1, <1>6 DEF InputsUsed, Unsettled, FreshOwn
    <2>5. IdleNow' /\ LoadingNow' /\ LockNow' /\ StepNow' /\ dangling' = {}
      BY <1>1, <1>6 DEF IdleNow, LoadingNow, LockNow, StepNow, Stopping, Leaving
    <2>6. /\ JoinedNow' /\ FreshNow' /\ TapNow' /\ PendingNow' /\ HandlersNow' /\ StartingNow'
          /\ RunningNow'
      BY <1>6 DEF JoinedNow, FreshNow, TapNow, PendingNow, HandlersNow, StartingNow, RunningNow,
                  Adding, Running
    <2>7. UndoingNow'
      BY <1>1, <1>2, <1>6 DEF UndoingNow, HandlersNow, Adding, Undoing, Running
    <2> QED
      BY <2>1, <2>2, <2>3, <2>4, <2>5, <2>6, <2>7, ConstantsKept
  <1>7. CASE /\ i \in inputs /\ streams' = [streams EXCEPT ![loading] = Append(@, i)]
             /\ handlers' \in {handlers, handlers \cup {<<loading, i>>}}
             /\ lpc' = "rb_stop" /\ todo' = << >> /\ UNCHANGED <<attached, joined>>
    <2>1. /\ \A o \in Objects : o # loading => streams'[o] = streams[o]
          /\ streams' \in [Objects -> Lists] /\ Elems(streams'[loading]) = Elems(joined) \cup {i}
      BY <1>2, <1>5, <1>7 DEF ModuleTypes
    <2>2. ModuleTypes' /\ AttachedType'
      <3>1. <<loading, i>> \in Objects \X Inputs
        BY <1>2, <1>4
      <3>2. handlers' \in SUBSET (Objects \X Inputs) /\ handlers \subseteq handlers'
        BY <1>7, <3>1 DEF ModuleTypes
      <3>3. ModuleTypes'
        BY <1>1, <2>1, <3>2 DEF ModuleTypes
      <3>4. AttachedType'
        BY <1>7 DEF AttachedType
      <3> QED
        BY <3>3, <3>4
    <2>3. CallTypes'
      BY <1>1, <1>7, EmptyList DEF CallTypes, Adding, Undoing
    <2>4. AllServed' /\ StartedBy'
      <3>1. \A o \in reg : streams'[o] = streams[o]
        BY <1>2, <2>1 DEF ModuleTypes
      <3>2. AllServed'
        BY <1>1, <1>7, <3>1 DEF AllServed
      <3>3. StartedBy'
        BY <1>1, <1>7 DEF StartedBy, Running
      <3> QED
        BY <3>2, <3>3
    <2>5. AttachedBy'
      BY <1>1, <1>2, <1>3, <1>7, <2>1 DEF AttachedBy, AttachedType
    <2>6. HandlersBy'
      <3>1. Pending' = Pending
        BY <1>1 DEF Pending
      <3>2. \A o \in Objects, j \in Inputs : <<o, j>> \in handlers' =>
               <<o, j>> \in handlers \/ (o = loading /\ j = i)
        BY <1>7, PairAdded
      <3>3. \A o \in Objects : Elems(streams[o]) \subseteq Elems(streams'[o])
        BY <1>3, <2>1
      <3> QED
        BY <1>1, <2>1, <3>1, <3>2, <3>3 DEF HandlersBy
    <2>7. StreamsBy'
      BY <1>1, <1>2, <1>7, <2>1, ObjectFacts DEF StreamsBy, Pending
    <2>8. InputsUsed'
      BY <1>1, <1>7 DEF InputsUsed, Unsettled, Stopping
    <2>9. FreshOwn'
      BY <1>1, <1>2, <2>1 DEF FreshOwn, ModuleTypes
    <2>10. IdleNow' /\ LoadingNow' /\ LockNow' /\ StepNow' /\ dangling' = {}
      BY <1>1, <1>7 DEF IdleNow, LoadingNow, LockNow, StepNow, Stopping, Leaving
    <2>11. /\ JoinedNow' /\ FreshNow' /\ TapNow' /\ PendingNow' /\ HandlersNow' /\ StartingNow'
           /\ RunningNow'
      BY <1>7 DEF JoinedNow, FreshNow, TapNow, PendingNow, HandlersNow, StartingNow, RunningNow,
                  Adding, Running
    <2>12. UndoingNow'
      BY <1>1, <1>2, <1>7 DEF UndoingNow, HandlersNow, Adding, Undoing, Running
    <2> QED
      BY <2>2, <2>3, <2>4, <2>5, <2>6, <2>7, <2>8, <2>9, <2>10, <2>11, <2>12, ConstantsKept
  <1>8. CASE /\ i \in inputs /\ streams' = [streams EXCEPT ![loading] = Append(@, i)]
             /\ handlers' = handlers \cup {<<loading, i>>}
             /\ attached' = [attached EXCEPT ![i] = @ \cup {loading}]
             /\ joined' = Append(joined, i) /\ todo' = Tail(todo)
             /\ lpc' = IF Tail(todo) = << >> THEN "resources" ELSE "tap"
    <2>1. /\ \A o \in Objects : o # loading => streams'[o] = streams[o]
          /\ streams' \in [Objects -> Lists]
          /\ Elems(streams'[loading]) = Elems(joined) \cup {i}
          /\ Elems(joined') = Elems(joined) \cup {i}
      BY <1>2, <1>5, <1>8 DEF ModuleTypes
    <2>2. /\ attached' \in [Inputs -> SUBSET Objects]
          /\ \A j \in Inputs : j # i => attached'[j] = attached[j]
          /\ attached'[i] = attached[i] \cup {loading}
      BY <1>2, <1>4, <1>8 DEF AttachedType
    <2>3. ModuleTypes'
      <3>1. <<loading, i>> \in Objects \X Inputs
        BY <1>2, <1>4
      <3>2. handlers' \in SUBSET (Objects \X Inputs) /\ handlers \subseteq handlers'
        BY <1>8, <3>1 DEF ModuleTypes
      <3> QED
        BY <1>1, <2>1, <3>2 DEF ModuleTypes
    <2>4. AttachedType'
      <3>1. IsFiniteSet(attached[i] \cup {loading})
        BY <1>4, FiniteFacts DEF AttachedType
      <3> QED
        BY <2>2, <3>1 DEF AttachedType
    <2>5. CallTypes'
      BY <1>1, <1>4, <1>5, <1>8 DEF CallTypes, Adding
    <2>6. AllServed' /\ StartedBy'
      <3>1. \A o \in reg : streams'[o] = streams[o] /\ Elems(streams[o]) \subseteq Inputs
        BY <1>2, <2>1, ListElems DEF ModuleTypes
      <3>2. \A j \in Inputs : attached[j] \subseteq attached'[j]
        BY <2>2
      <3>3. AllServed'
        BY <1>1, <3>1, <3>2 DEF AllServed
      <3>4. StartedBy'
        BY <1>1, <1>8 DEF StartedBy, Running
      <3> QED
        BY <3>3, <3>4
    <2>7. AttachedBy'
      <3>1. \A j \in Inputs : \A o \in attached'[j] :
               o \in attached[j] \/ (o = loading /\ j = i)
        BY <2>2
      <3>2. \A j \in Inputs : \A o \in attached[j] : Elems(streams[o]) \subseteq Elems(streams'[o])
        BY <1>3, <2>1 DEF AttachedType
      <3>3. \A j \in Inputs : \A o \in attached[j] :
               j \in inputs /\ j \in Elems(streams[o]) /\ (o \in reg \/ (o = loading /\ j \in Elems(joined)))
        BY <1>1 DEF AttachedBy
      <3> QED
        BY <1>1, <1>8, <2>1, <3>1, <3>2, <3>3 DEF AttachedBy
    <2>8. HandlersBy'
      BY <1>1, <1>2, <1>3, <1>8, <2>1 DEF HandlersBy, Pending
    <2>9. StreamsBy'
      BY <1>1, <1>2, <2>1, ObjectFacts DEF StreamsBy, Pending
    <2>10. InputsUsed'
      BY <1>1, <1>2, <1>4, <2>2 DEF InputsUsed, Unsettled, Stopping, ModuleTypes
    <2>11. FreshOwn'
      BY <1>1, <1>2, <2>1 DEF FreshOwn, ModuleTypes
    <2>12. IdleNow' /\ LoadingNow' /\ LockNow' /\ StepNow' /\ dangling' = {}
      BY <1>1, <1>8 DEF IdleNow, LoadingNow, LockNow, StepNow, Stopping, Leaving
    <2>13. JoinedNow'
      BY <1>1, <1>2, <1>3, <1>4, <1>8, <2>1, <2>2, ListElems DEF JoinedNow, Adding
    <2>14. FreshNow' /\ TapNow'
      BY <1>1, <1>3, <1>4, <1>8, <2>1 DEF FreshNow, TapNow, Adding
    <2>15. PendingNow' /\ HandlersNow' /\ StartingNow' /\ RunningNow' /\ UndoingNow'
      BY <1>1, <1>2, <1>8 DEF PendingNow, HandlersNow, StartingNow, RunningNow, UndoingNow,
                              Adding, Undoing, Running
    <2> QED
      BY <2>3, <2>4, <2>5, <2>6, <2>7, <2>8, <2>9, <2>10, <2>11, <2>12, <2>13, <2>14, <2>15, ConstantsKept
  <1> QED
    BY <1>2, <1>6, <1>7, <1>8 DEF Attach, Rollback

\* CreateResources: for all new inputs, or for some of them before one fails.
LEMMA CreateResourcesKeeps ==
    ASSUME LifecycleInv, mapLock # "remove", CreateResources
    PROVE  LifecycleInv'
  <1> USE DEF LifecycleInv
  <1>1. /\ lpc = "resources"
        /\ mapLock = "free" /\ leaving = None /\ cpc = "idle" /\ ctodo = << >>
        /\ UNCHANGED <<reg, inputs, started, irun, attached, dangling>>
        /\ UNCHANGED <<loading, fresh, joined, resAdded, mapLock, cpc, leaving, ctodo, cstop>>
    BY Quiet DEF CreateResources, lockVars
  <1>2. /\ loading \in Policies /\ loading \in Objects /\ loading \notin reg
        /\ loading \notin started /\ made = {} /\ resAdded = {}
    BY <1>1, LoadingFacts DEF PendingNow, Adding, Running, CallTypes
  <1>3. PICK done \in SUBSET fresh :
          /\ streams' = [o \in Objects |-> IF \E i \in done : o = Res(i) THEN <<o[2]>> ELSE streams[o]]
          /\ handlers' = handlers \cup {<<Res(i), i>> : i \in done}
          /\ hrun' = hrun \cup {<<Res(i), i>> : i \in done}
          /\ made' = done
          /\ \/ lpc' = "handlers" /\ UNCHANGED todo
             \/ lpc' = "rb_stop" /\ todo' = << >>
    BY <1>2 DEF CreateResources, Rollback
  <1>4. /\ done \subseteq Inputs /\ \A i \in done : i \in fresh /\ i \in Inputs /\ Res(i) \in Objects
        /\ \A i \in done : Res(i) # loading /\ Res(i) \notin reg
    <2>1. done \subseteq Inputs /\ \A i \in done : i \in fresh /\ i \in Inputs /\ Res(i) \in Objects
      BY ObjectFacts DEF CallTypes
    <2>2. \A i \in done : Res(i) \notin reg
      BY <1>2, <2>1, FreshUnregistered
    <2> QED
      BY <1>2, <2>1, <2>2, ObjectFacts
  <1>5. /\ \A i \in done : streams'[Res(i)] = <<i>>
        /\ \A o \in Objects : (\A i \in done : o # Res(i)) => streams'[o] = streams[o]
    BY <1>3, <1>4, ObjectFacts DEF Res
  <1>6. /\ streams'[loading] = streams[loading]
        /\ \A o \in reg : streams'[o] = streams[o]
    BY <1>2, <1>4, <1>5 DEF ModuleTypes
  <1>7. streams' \in [Objects -> Lists]
    <2>1. \A o \in Objects : streams'[o] \in Lists
      BY <1>4, <1>5, OneList DEF ModuleTypes
    <2> QED
      BY <1>3, <2>1
  <1>8. ModuleTypes' /\ AttachedType'
    <2>1. \A i \in done : <<Res(i), i>> \in Objects \X Inputs
      BY <1>4
    <2>2. handlers' \in SUBSET (Objects \X Inputs) /\ hrun' \in SUBSET handlers'
      <3>1. handlers \in SUBSET (Objects \X Inputs) /\ hrun \in SUBSET handlers
        BY DEF ModuleTypes
      <3>2. \A h \in {<<Res(i), i>> : i \in done} : h \in Objects \X Inputs
        BY <2>1
      <3> QED
        BY <1>3, <3>1, <3>2
    <2>3. ModuleTypes'
      BY <1>1, <1>7, <2>2 DEF ModuleTypes
    <2>4. AttachedType'
      BY <1>1 DEF AttachedType
    <2> QED
      BY <2>3, <2>4
  <1>9. CallTypes'
    BY <1>1, <1>2, <1>3, EmptyList DEF CallTypes, Adding, Undoing
  <1>10. AllServed'
    <2>1. hrun \subseteq hrun'
      BY <1>3
    <2> QED
      BY <1>1, <1>6, <2>1 DEF AllServed
  <1>11. AttachedBy' /\ StartedBy'
    BY <1>1, <1>3, <1>6 DEF AttachedBy, StartedBy, Running
  <1>12. Pending = {} /\ Pending' = {Res(i) : i \in done}
    BY <1>1, <1>2, <1>3 DEF Pending
  <1>13. HandlersBy'
    <2> SUFFICES ASSUME NEW o \in Objects, NEW i \in Inputs, <<o, i>> \in handlers'
                 PROVE  i \in Elems(streams'[o]) /\ o \in reg \cup {loading} \cup Pending'
      BY <1>1 DEF HandlersBy
    <2>1. CASE <<o, i>> \in handlers
      BY <1>6, <1>12, <2>1 DEF HandlersBy
    <2>2. CASE <<o, i>> \notin handlers
      <3>1. o = Res(i) /\ i \in done
        BY <1>3, <2>2
      <3> QED
        BY <1>5, <1>12, <3>1, OneList
    <2> QED
      BY <2>1, <2>2
  <1>14. StreamsBy'
    <2>1. \A o \in Objects : o \notin reg \cup {loading} \cup Pending' => streams'[o] = << >>
      BY <1>5, <1>12 DEF StreamsBy
    <2>2. \A i \in Inputs : Res(i) \in reg => streams'[Res(i)] = <<i>>
      BY <1>6 DEF StreamsBy
    <2>3. \A i \in Inputs : Res(i) \in Pending' => streams'[Res(i)] = <<i>>
      BY <1>4, <1>5, <1>12, ObjectFacts
    <2> QED
      BY <1>1, <2>1, <2>2, <2>3 DEF StreamsBy
  <1>15. InputsUsed'
    BY <1>1 DEF InputsUsed, Unsettled, Stopping
  <1>16. FreshOwn'
    BY <1>1, <1>6 DEF FreshOwn
  <1>17. IdleNow' /\ LoadingNow' /\ LockNow' /\ StepNow' /\ dangling' = {}
    BY <1>1, <1>3 DEF IdleNow, LoadingNow, LockNow, StepNow, Stopping, Leaving
  <1>18. JoinedNow' /\ FreshNow' /\ TapNow' /\ StartingNow' /\ RunningNow'
    BY <1>1, <1>3, <1>6 DEF JoinedNow, FreshNow, TapNow, StartingNow, RunningNow, Adding, Running
  <1>19. \A i \in Inputs : <<loading, i>> \notin hrun'
    BY <1>1, <1>3, <1>4 DEF HandlersNow, Adding, Running
  <1>20. PendingNow' /\ HandlersNow' /\ UndoingNow'
    BY <1>1, <1>2, <1>3, <1>19 DEF PendingNow, HandlersNow, UndoingNow, Adding, Undoing, Running
  <1> QED
    BY <1>8, <1>9, <1>10, <1>11, <1>13, <1>14, <1>15, <1>16, <1>17, <1>18, <1>20, ConstantsKept

\* StartHandlers: all handlers of the policy run, or none.
LEMMA StartHandlersKeeps ==
    ASSUME LifecycleInv, mapLock # "remove", StartHandlers
    PROVE  LifecycleInv'
  <1> USE DEF LifecycleInv
  <1>1. /\ lpc = "handlers"
        /\ mapLock = "free" /\ leaving = None /\ cpc = "idle" /\ ctodo = << >>
        /\ UNCHANGED <<reg, inputs, handlers, streams, started, irun, attached, dangling>>
        /\ UNCHANGED <<loading, fresh, joined, made, resAdded, mapLock, cpc, leaving, ctodo, cstop>>
    BY Quiet DEF StartHandlers, lockVars
  <1>2. /\ loading \in Policies /\ loading \in Objects /\ loading \notin reg
        /\ loading \notin started /\ resAdded = {}
    BY <1>1, LoadingFacts DEF PendingNow, Adding, Running
  <1>3. /\ streams[loading] \in Lists /\ streams[loading] # << >>
        /\ Elems(streams[loading]) = Elems(joined) /\ Elems(joined) \subseteq Inputs
        /\ \A i \in Elems(joined) : <<loading, i>> \in handlers
    BY <1>1, <1>2, EmptyList, ListElems DEF JoinedNow, Adding, ModuleTypes, CallTypes
  <1>4. \/ /\ hrun' = hrun \cup {<<loading, i>> : i \in Elems(joined)}
           /\ lpc' = "inputs" /\ todo' = streams[loading]
        \/ lpc' = "rb_stop" /\ todo' = << >> /\ UNCHANGED hrun
    BY <1>2, <1>3 DEF StartHandlers, Rollback, HandlersOf
  <1>5. hrun \subseteq hrun' /\ hrun' \subseteq handlers
    BY <1>3, <1>4 DEF ModuleTypes
  <1>6. ModuleTypes' /\ AttachedType'
    BY <1>1, <1>5 DEF ModuleTypes, AttachedType
  <1>7. CallTypes'
    BY <1>1, <1>3, <1>4, EmptyList DEF CallTypes, Adding, Undoing
  <1>8. AllServed'
    BY <1>1, <1>5 DEF AllServed
  <1>9. AttachedBy' /\ StartedBy' /\ HandlersBy' /\ StreamsBy'
    BY <1>1, <1>4 DEF AttachedBy, StartedBy, Running, HandlersBy, StreamsBy, Pending
  <1>10. InputsUsed' /\ FreshOwn'
    BY <1>1 DEF InputsUsed, Unsettled, Stopping, FreshOwn
  <1>11. IdleNow' /\ LoadingNow' /\ LockNow' /\ StepNow' /\ dangling' = {}
    BY <1>1, <1>4 DEF IdleNow, LoadingNow, LockNow, StepNow, Stopping, Leaving
  <1>12. JoinedNow' /\ FreshNow' /\ TapNow' /\ RunningNow'
    BY <1>1, <1>4 DEF JoinedNow, FreshNow, TapNow, RunningNow, Adding, Running
  <1>13. PendingNow'
    BY <1>1, <1>4, <1>5 DEF PendingNow, Adding, Running
  <1>14. HandlersNow' /\ StartingNow'
    BY <1>1, <1>3, <1>4 DEF HandlersNow, StartingNow, Adding, Running
  <1>15. UndoingNow'
    BY <1>1, <1>2, <1>4 DEF UndoingNow, HandlersNow, Adding, Undoing, Running
  <1> QED
    BY <1>6, <1>7, <1>8, <1>9, <1>10, <1>11, <1>12, <1>13, <1>14, <1>15, ConstantsKept

\* StartInput: the next input runs; the last one makes the policy run.
LEMMA StartInputKeeps ==
    ASSUME LifecycleInv, mapLock # "remove", StartInput
    PROVE  LifecycleInv'
  <1> USE DEF LifecycleInv
  <1> DEFINE i == Head(todo)
  <1>1. /\ lpc = "inputs"
        /\ mapLock = "free" /\ leaving = None /\ cpc = "idle" /\ ctodo = << >>
        /\ UNCHANGED <<reg, inputs, handlers, streams, attached, dangling>>
        /\ UNCHANGED <<loading, fresh, joined, made, resAdded, mapLock, cpc, leaving, ctodo, cstop>>
    BY Quiet DEF StartInput, lockVars
  <1>2. /\ loading \in Policies /\ loading \in Objects /\ loading \notin reg
        /\ loading \notin started /\ resAdded = {}
    BY <1>1, LoadingFacts DEF PendingNow, Adding, Running
  <1>3. /\ streams[loading] \in Lists /\ todo \in Lists /\ todo # << >>
        /\ Elems(streams[loading]) = Elems(joined) /\ Elems(joined) \subseteq Inputs
        /\ Elems(todo) \subseteq Elems(joined)
        /\ fresh \subseteq Elems(joined) /\ made \subseteq Elems(joined) /\ made \in SUBSET Inputs
    BY <1>1, <1>2, ListElems
    DEF JoinedNow, StartingNow, FreshNow, Adding, ModuleTypes, CallTypes
  <1>4. /\ i \in Elems(joined) /\ i \in Inputs /\ Tail(todo) \in Lists
        /\ Elems(Tail(todo)) = Elems(todo) \ {i}
    BY <1>3, ListTail
  <1>5. i \in inputs
    BY <1>1, <1>4 DEF JoinedNow, Adding, AttachedBy
  <1>6. CASE /\ irun' = irun \cup {i} /\ Tail(todo) # << >> /\ todo' = Tail(todo)
             /\ UNCHANGED <<lpc, started, hrun>>
    <2>1. ModuleTypes' /\ AttachedType'
      BY <1>1, <1>5, <1>6 DEF ModuleTypes, AttachedType
    <2>2. CallTypes'
      BY <1>1, <1>4, <1>6 DEF CallTypes
    <2>3. AllServed' /\ AttachedBy' /\ StartedBy' /\ HandlersBy' /\ StreamsBy'
      BY <1>1, <1>6 DEF AllServed, AttachedBy, StartedBy, Running, HandlersBy, StreamsBy, Pending
    <2>4. InputsUsed' /\ FreshOwn'
      BY <1>1, <1>6 DEF InputsUsed, Unsettled, Stopping, FreshOwn
    <2>5. IdleNow' /\ LoadingNow' /\ LockNow' /\ StepNow' /\ dangling' = {}
      BY <1>1, <1>6 DEF IdleNow, LoadingNow, LockNow, StepNow, Stopping, Leaving
    <2>6. /\ JoinedNow' /\ FreshNow' /\ TapNow' /\ PendingNow' /\ HandlersNow' /\ RunningNow'
          /\ UndoingNow'
      BY <1>1, <1>6 DEF JoinedNow, FreshNow, TapNow, PendingNow, HandlersNow, RunningNow,
                        UndoingNow, Adding, Running, Undoing
    <2>7. StartingNow'
      BY <1>1, <1>3, <1>4, <1>6 DEF StartingNow
    <2> QED
      BY <2>1, <2>2, <2>3, <2>4, <2>5, <2>6, <2>7, ConstantsKept
  <1>7. CASE /\ irun' = irun \cup {i} /\ Tail(todo) = << >>
             /\ started' = started \cup {loading} /\ lpc' = "start_res"
             /\ todo' = From(streams[loading], made) /\ UNCHANGED hrun
    <2>1. /\ todo' \in Lists /\ Elems(todo') \subseteq Elems(joined)
          /\ made \subseteq Elems(todo')
          /\ todo' # << >> => Head(todo') \in made
      BY <1>3, <1>7, ListFrom
    <2>2. ModuleTypes' /\ AttachedType'
      BY <1>1, <1>2, <1>5, <1>7 DEF ModuleTypes, AttachedType
    <2>3. CallTypes'
      BY <1>1, <1>7, <2>1 DEF CallTypes, Adding
    <2>4. AllServed' /\ AttachedBy' /\ StartedBy' /\ HandlersBy' /\ StreamsBy'
      BY <1>1, <1>7 DEF AllServed, AttachedBy, StartedBy, Running, HandlersBy, StreamsBy, Pending
    <2>5. InputsUsed' /\ FreshOwn'
      BY <1>1 DEF InputsUsed, Unsettled, Stopping, FreshOwn
    <2>6. IdleNow' /\ LoadingNow' /\ LockNow' /\ StepNow' /\ dangling' = {}
      BY <1>1, <1>7 DEF IdleNow, LoadingNow, LockNow, StepNow, Stopping, Leaving
    <2>7. /\ JoinedNow' /\ FreshNow' /\ TapNow' /\ PendingNow' /\ HandlersNow' /\ StartingNow'
          /\ UndoingNow'
      BY <1>1, <1>7 DEF JoinedNow, FreshNow, TapNow, PendingNow, HandlersNow, StartingNow,
                        UndoingNow, Adding, Running, Undoing
    <2>8. \A j \in Elems(joined) : j \in irun'
      BY <1>1, <1>3, <1>4, <1>7, EmptyList DEF StartingNow
    <2>9. RunningNow'
      BY <1>1, <1>2, <1>7, <2>1, <2>8 DEF RunningNow, Running
    <2> QED
      BY <2>2, <2>3, <2>4, <2>5, <2>6, <2>7, <2>9, ConstantsKept
  <1>8. CASE /\ hrun' = hrun \ HandlersOf(loading) /\ lpc' = "rb_stop" /\ todo' = << >>
             /\ UNCHANGED <<irun, started>>
    <2>1. /\ hrun' \subseteq hrun
          /\ \A o \in Objects, j \in Inputs : o # loading /\ <<o, j>> \in hrun => <<o, j>> \in hrun'
          /\ \A j \in Inputs : <<loading, j>> \notin hrun'
      <3>1. \A j \in Inputs : <<loading, j>> \in hrun => j \in Elems(streams[loading])
        BY <1>2 DEF HandlersBy, ModuleTypes
      <3> QED
        BY <1>8, <3>1 DEF HandlersOf
    <2>2. ModuleTypes' /\ AttachedType'
      BY <1>1, <1>8, <2>1 DEF ModuleTypes, AttachedType
    <2>3. CallTypes'
      BY <1>1, <1>8, EmptyList DEF CallTypes, Undoing
    <2>4. AllServed'
      BY <1>1, <1>2, <1>8, <2>1, ListElems DEF AllServed, ModuleTypes
    <2>5. AttachedBy' /\ StartedBy' /\ HandlersBy' /\ StreamsBy'
      BY <1>1, <1>8 DEF AttachedBy, StartedBy, Running, HandlersBy, StreamsBy, Pending
    <2>6. InputsUsed' /\ FreshOwn'
      BY <1>1 DEF InputsUsed, Unsettled, Stopping, FreshOwn
    <2>7. IdleNow' /\ LoadingNow' /\ LockNow' /\ StepNow' /\ dangling' = {}
      BY <1>1, <1>8 DEF IdleNow, LoadingNow, LockNow, StepNow, Stopping, Leaving
    <2>8. /\ JoinedNow' /\ FreshNow' /\ TapNow' /\ PendingNow' /\ HandlersNow' /\ StartingNow'
          /\ RunningNow'
      BY <1>8 DEF JoinedNow, FreshNow, TapNow, PendingNow, HandlersNow, StartingNow, RunningNow,
                  Adding, Running
    <2>9. UndoingNow'
      BY <1>1, <1>2, <1>8, <2>1 DEF UndoingNow, Undoing
    <2> QED
      BY <2>2, <2>3, <2>4, <2>5, <2>6, <2>7, <2>8, <2>9, ConstantsKept
  <1> QED
    BY <1>2, <1>6, <1>7, <1>8 DEF StartInput, Rollback

\* StartResources: a resources policy runs and joins its input.
LEMMA StartResourcesKeeps ==
    ASSUME LifecycleInv, mapLock # "remove", StartResources
    PROVE  LifecycleInv'
  <1> USE DEF LifecycleInv
  <1> DEFINE i == Head(todo)
  <1>1. /\ lpc = "start_res"
        /\ mapLock = "free" /\ leaving = None /\ cpc = "idle" /\ ctodo = << >>
        /\ UNCHANGED <<reg, inputs, handlers, streams, hrun, dangling>>
        /\ UNCHANGED <<loading, todo, fresh, joined, made, resAdded, mapLock, cpc, leaving, ctodo, cstop>>
    BY Quiet DEF StartResources, lockVars
  <1>2. CASE todo = << >> /\ lpc' = "register" /\ UNCHANGED <<irun, started, attached>>
    <2>1. ModuleTypes' /\ AttachedType'
      BY <1>1, <1>2 DEF ModuleTypes, AttachedType
    <2>2. CallTypes'
      BY <1>1, <1>2 DEF CallTypes, Adding
    <2>3. AllServed' /\ AttachedBy' /\ StartedBy' /\ HandlersBy' /\ StreamsBy'
      BY <1>1, <1>2 DEF AllServed, AttachedBy, StartedBy, Running, HandlersBy, StreamsBy, Pending
    <2>4. InputsUsed' /\ FreshOwn'
      BY <1>1, <1>2 DEF InputsUsed, Unsettled, Stopping, FreshOwn
    <2>5. IdleNow' /\ LoadingNow' /\ LockNow' /\ StepNow' /\ dangling' = {}
      BY <1>1, <1>2 DEF IdleNow, LoadingNow, LockNow, StepNow, Stopping, Leaving
    <2>6. /\ JoinedNow' /\ FreshNow' /\ TapNow' /\ PendingNow' /\ HandlersNow' /\ StartingNow'
          /\ UndoingNow'
      BY <1>1, <1>2 DEF JoinedNow, FreshNow, TapNow, PendingNow, HandlersNow, StartingNow,
                        UndoingNow, Adding, Running, Undoing
    <2>7. RunningNow'
      BY <1>1, <1>2 DEF RunningNow, Running
    <2> QED
      BY <2>1, <2>2, <2>3, <2>4, <2>5, <2>6, <2>7, ConstantsKept
  <1>3. CASE /\ todo # << >> /\ irun' = irun \cup {i} /\ started' = started \cup {Res(i)}
             /\ attached' = [attached EXCEPT ![i] = @ \cup {Res(i)}]
             /\ lpc' = "register_res"
    <2>1. /\ i \in Elems(todo) /\ i \in Inputs /\ i \in Elems(joined) /\ i \in irun
          /\ i \in made /\ i \notin resAdded /\ i \in inputs
      BY <1>1, <1>3, ListTail DEF RunningNow, Running, CallTypes, ModuleTypes
    <2>2. Res(i) \in Objects /\ Res(i) \in Pending /\ streams[Res(i)] = <<i>> /\ irun' = irun
      BY <1>3, <2>1, ObjectFacts DEF Pending, StreamsBy
    <2>3. /\ attached' \in [Inputs -> SUBSET Objects]
          /\ \A j \in Inputs : j # i => attached'[j] = attached[j]
          /\ attached'[i] = attached[i] \cup {Res(i)}
      BY <1>3, <2>1, <2>2 DEF AttachedType
    <2>4. ModuleTypes'
      BY <1>1, <1>3, <2>2 DEF ModuleTypes
    <2>5. AttachedType'
      <3>1. IsFiniteSet(attached[i] \cup {Res(i)})
        BY <2>1, FiniteFacts DEF AttachedType
      <3> QED
        BY <2>3, <3>1 DEF AttachedType
    <2>6. CallTypes'
      BY <1>1, <1>3 DEF CallTypes, Adding
    <2>7. AllServed'
      BY <1>1, <1>3, <2>2, <2>3, ListElems DEF AllServed, ModuleTypes
    <2>8. AttachedBy'
      <3>1. i \in Elems(streams[Res(i)])
        BY <2>1, <2>2, OneList
      <3> QED
        BY <1>1, <1>3, <2>1, <2>3, <3>1 DEF AttachedBy
    <2>9. StartedBy' /\ HandlersBy' /\ StreamsBy'
      BY <1>1, <1>3 DEF StartedBy, Running, HandlersBy, StreamsBy, Pending
    <2>10. InputsUsed'
      BY <1>1, <2>1, <2>3 DEF InputsUsed, Unsettled, Stopping, ModuleTypes
    <2>11. FreshOwn'
      BY <1>1 DEF FreshOwn
    <2>12. IdleNow' /\ LoadingNow' /\ LockNow' /\ StepNow' /\ dangling' = {}
      BY <1>1, <1>3 DEF IdleNow, LoadingNow, LockNow, StepNow, Stopping, Leaving
    <2>13. JoinedNow'
      BY <1>1, <1>3, <2>1, <2>3, ListElems DEF JoinedNow, Adding, CallTypes
    <2>14. /\ FreshNow' /\ TapNow' /\ PendingNow' /\ HandlersNow' /\ StartingNow'
           /\ UndoingNow'
      BY <1>1, <1>3 DEF FreshNow, TapNow, PendingNow, HandlersNow, StartingNow,
                        UndoingNow, Adding, Running, Undoing
    <2>15. RunningNow'
      BY <1>1, <1>3, <2>1, <2>2, <2>3 DEF RunningNow, Running
    <2> QED
      BY <2>4, <2>5, <2>6, <2>7, <2>8, <2>9, <2>10, <2>11, <2>12, <2>13, <2>14, <2>15, ConstantsKept
  <1> QED
    BY <1>2, <1>3 DEF StartResources

\* RegisterResources: the name is free, as the names are apart.
LEMMA RegisterResourcesKeeps ==
    ASSUME LifecycleInv, mapLock # "remove", RegisterResources
    PROVE  LifecycleInv'
  <1> USE DEF LifecycleInv
  <1> DEFINE i == Head(todo)
  <1>1. /\ lpc = "register_res"
        /\ mapLock = "free" /\ leaving = None /\ cpc = "idle" /\ ctodo = << >>
        /\ UNCHANGED <<inputs, handlers, streams, dangling>>
        /\ UNCHANGED <<loading, fresh, joined, made, mapLock, cpc, leaving, ctodo, cstop>>
    BY Quiet DEF RegisterResources, lockVars
  <1>2. todo \in Lists /\ todo # << >> /\ made \in SUBSET Inputs /\ made \subseteq fresh
    BY <1>1 DEF RunningNow, Running, CallTypes
  <1>3. /\ i \in Elems(todo) /\ i \in Inputs /\ i \in Elems(joined) /\ i \in irun
        /\ i \in made /\ i \notin resAdded
        /\ Tail(todo) \in Lists /\ Elems(Tail(todo)) = Elems(todo) \ {i}
    BY <1>1, <1>2, ListTail DEF RunningNow, Running
  <1>4. /\ Res(i) \notin reg /\ Res(i) \in Objects /\ Res(i) # loading
        /\ Res(i) \in started /\ Res(i) \in attached[i] /\ <<Res(i), i>> \in hrun
        /\ streams[Res(i)] = <<i>> /\ Elems(streams[Res(i)]) = {i}
    <2>1. Res(i) \notin reg /\ Res(i) \in Objects /\ Res(i) # loading
      BY <1>1, <1>2, <1>3, FreshUnregistered, ObjectFacts, LoadingFacts
    <2>2. Res(i) \in started /\ Res(i) \in attached[i] /\ <<Res(i), i>> \in hrun
      BY <1>1, <1>3 DEF RunningNow, PendingNow, Running, Adding
    <2>3. streams[Res(i)] = <<i>>
      BY <1>3 DEF StreamsBy, Pending
    <2> QED
      BY <1>3, <2>1, <2>2, <2>3, OneList
  <1>5. /\ reg' = reg \cup {Res(i)} /\ resAdded' = resAdded \cup {i}
        /\ todo' = From(Tail(todo), made) /\ lpc' = "start_res"
        /\ UNCHANGED <<irun, attached, hrun, started>>
    BY <1>1, <1>3, <1>4, NameFacts DEF RegisterResources, ModuleTypes
  <1>6. /\ todo' \in Lists /\ Elems(todo') \subseteq Elems(todo) \ {i}
        /\ (Elems(todo) \ {i}) \cap made \subseteq Elems(todo')
        /\ todo' # << >> => Head(todo') \in made
    BY <1>2, <1>3, <1>5, ListFrom
  <1>7. reg' \cup Pending' = reg \cup Pending
    BY <1>1, <1>3, <1>5 DEF Pending
  <1>8. ModuleTypes' /\ AttachedType'
    BY <1>1, <1>4, <1>5 DEF ModuleTypes, AttachedType
  <1>9. CallTypes'
    BY <1>1, <1>3, <1>5, <1>6 DEF CallTypes, Adding
  <1>10. AllServed'
    BY <1>1, <1>3, <1>4, <1>5 DEF AllServed
  <1>11. AttachedBy'
    BY <1>1, <1>5 DEF AttachedBy
  <1>12. StartedBy'
    BY <1>1, <1>5 DEF StartedBy, Running
  <1>13. HandlersBy'
    BY <1>1, <1>7 DEF HandlersBy
  <1>14. StreamsBy'
    BY <1>1, <1>7 DEF StreamsBy
  <1>15. InputsUsed'
    BY <1>1, <1>5 DEF InputsUsed, Unsettled, Stopping
  <1>16. FreshOwn'
    BY <1>1, <1>4, <1>5 DEF FreshOwn
  <1>17. IdleNow' /\ LoadingNow' /\ LockNow' /\ StepNow' /\ dangling' = {}
    BY <1>1, <1>4, <1>5 DEF IdleNow, LoadingNow, LockNow, StepNow, Stopping, Leaving
  <1>18. /\ JoinedNow' /\ FreshNow' /\ TapNow' /\ PendingNow' /\ HandlersNow' /\ StartingNow'
         /\ UndoingNow'
    BY <1>1, <1>5 DEF JoinedNow, FreshNow, TapNow, PendingNow, HandlersNow, StartingNow,
                      UndoingNow, Adding, Running, Undoing
  <1>19. RunningNow'
    BY <1>1, <1>5, <1>6 DEF RunningNow, Running
  <1> QED
    BY <1>8, <1>9, <1>10, <1>11, <1>12, <1>13, <1>14, <1>15, <1>16, <1>17, <1>18, <1>19, ConstantsKept

\* Register: the load is over, and all that it made belongs to the policy.
LEMMA RegisterKeeps ==
    ASSUME LifecycleInv, mapLock # "remove", Register
    PROVE  LifecycleInv'
  <1> USE DEF LifecycleInv
  <1>1. /\ lpc = "register"
        /\ mapLock = "free" /\ leaving = None /\ cpc = "idle" /\ ctodo = << >>
        /\ UNCHANGED <<inputs, handlers, streams, started, irun, attached, hrun, dangling>>
        /\ UNCHANGED <<mapLock, cpc, leaving, ctodo, cstop>>
    BY Quiet DEF Register, lockVars
  <1>2. loading \in Policies /\ loading \in Objects /\ loading \notin reg /\ loading # None
    BY <1>1, LoadingFacts
  <1>3. /\ reg' = reg \cup {loading}
        /\ lpc' = "idle" /\ loading' = None /\ todo' = << >>
        /\ fresh' = {} /\ joined' = << >> /\ made' = {} /\ resAdded' = {}
    BY <1>2, NameFacts DEF Register, LoadEnds, ModuleTypes
  <1>4. Pending = {} /\ Pending' = {}
    BY <1>1, <1>3, EmptyList DEF Pending, RunningNow, Running
  <1>5. ModuleTypes' /\ AttachedType'
    BY <1>1, <1>2, <1>3 DEF ModuleTypes, AttachedType
  <1>6. CallTypes'
    BY <1>1, <1>3, EmptyList DEF CallTypes
  <1>7. AllServed'
    <2>1. \A i \in Elems(streams[loading]) :
             <<loading, i>> \in hrun /\ i \in irun /\ loading \in attached[i]
      BY <1>1 DEF RunningNow, JoinedNow, HandlersNow, Running, Adding
    <2>2. loading \in started
      BY <1>1 DEF RunningNow, Running
    <2>3. \A o \in reg' : o \in reg \ {leaving} \/ o = loading
      BY <1>1, <1>3, ObjectFacts DEF ModuleTypes
    <2>4. \A o \in reg' : /\ o \in started
                          /\ \A i \in Elems(streams[o]) :
                                <<o, i>> \in hrun /\ i \in irun /\ o \in attached[i]
      BY <2>1, <2>2, <2>3 DEF AllServed
    <2> QED
      BY <1>1, <2>4 DEF AllServed
  <1>8. AttachedBy' /\ StartedBy'
    BY <1>1, <1>3 DEF AttachedBy, StartedBy
  <1>9. HandlersBy' /\ StreamsBy'
    <2>1. \A o \in Objects : o \in reg' \cup {loading'} \cup Pending' <=>
                             o \in reg \cup {loading} \cup Pending
      BY <1>3, <1>4, ObjectFacts
    <2>2. \A i \in Inputs : Res(i) \in reg' \cup Pending' => Res(i) \in reg \cup Pending
      BY <1>2, <1>3, <1>4, ObjectFacts
    <2>3. HandlersBy'
      BY <1>1, <2>1 DEF HandlersBy
    <2>4. StreamsBy'
      BY <1>1, <2>1, <2>2 DEF StreamsBy
    <2> QED
      BY <2>3, <2>4
  <1>10. InputsUsed'
    BY <1>1, <1>2, <1>3 DEF InputsUsed, Unsettled, Stopping, FreshNow, JoinedNow, Adding
  <1>11. FreshOwn'
    BY <1>3 DEF FreshOwn
  <1>12. IdleNow' /\ LoadingNow' /\ LockNow' /\ StepNow' /\ dangling' = {}
    BY <1>1, <1>3 DEF IdleNow, LoadingNow, LockNow, StepNow, Stopping, Leaving
  <1>13. /\ JoinedNow' /\ FreshNow' /\ TapNow' /\ PendingNow' /\ HandlersNow' /\ StartingNow'
         /\ RunningNow' /\ UndoingNow'
    BY <1>3 DEF JoinedNow, FreshNow, TapNow, PendingNow, HandlersNow, StartingNow, RunningNow,
                UndoingNow, Adding, Running, Undoing
  <1> QED
    BY <1>5, <1>6, <1>7, <1>8, <1>9, <1>10, <1>11, <1>12, <1>13, ConstantsKept

-----------------------------------------------------------------------------
(* The rollback of a load *)

\* RollbackStopCheck: the policy does not run, so that stop() has nothing to do.
LEMMA RollbackStopKeeps ==
    ASSUME LifecycleInv, mapLock # "remove", RollbackStopCheck
    PROVE  LifecycleInv'
  <1> USE DEF LifecycleInv
  <1>1. /\ lpc = "rb_stop"
        /\ mapLock = "free" /\ leaving = None /\ cpc = "idle" /\ ctodo = << >>
        /\ UNCHANGED <<reg, inputs, handlers, streams, irun, attached, dangling>>
        /\ UNCHANGED <<loading, fresh, joined, made, resAdded, mapLock, cpc, leaving, ctodo, cstop>>
    BY Quiet DEF RollbackStopCheck, lockVars
  <1>2. /\ loading \in Policies /\ loading \in Objects /\ loading \notin reg
        /\ loading \notin started
    BY <1>1, LoadingFacts DEF Running
  <1>3. /\ lpc' = "rb_detach" /\ todo' = joined
        /\ started' = started \ {loading} /\ hrun' = hrun \ HandlersOf(loading)
    BY <1>1 DEF RollbackStopCheck, UndoingNow, Undoing
  <1>4. started' = started /\ hrun' = hrun
    <2>1. \A i \in Elems(streams[loading]) : <<loading, i>> \notin hrun
      BY <1>1, <1>2, ListElems DEF UndoingNow, Undoing, ModuleTypes
    <2> QED
      BY <1>2, <1>3, <2>1 DEF HandlersOf
  <1>5. ModuleTypes' /\ AttachedType'
    BY <1>1, <1>4 DEF ModuleTypes, AttachedType
  <1>6. CallTypes'
    BY <1>1, <1>3 DEF CallTypes, Undoing
  <1>7. AllServed' /\ AttachedBy' /\ StartedBy' /\ HandlersBy' /\ StreamsBy'
    BY <1>1, <1>3, <1>4 DEF AllServed, AttachedBy, StartedBy, Running, HandlersBy, StreamsBy, Pending
  <1>8. InputsUsed' /\ FreshOwn'
    BY <1>1 DEF InputsUsed, Unsettled, Stopping, FreshOwn
  <1>9. IdleNow' /\ LoadingNow' /\ LockNow' /\ StepNow' /\ dangling' = {}
    BY <1>1, <1>3 DEF IdleNow, LoadingNow, LockNow, StepNow, Stopping, Leaving
  <1>10. /\ JoinedNow' /\ FreshNow' /\ TapNow' /\ PendingNow' /\ HandlersNow' /\ StartingNow'
         /\ RunningNow'
    BY <1>3 DEF JoinedNow, FreshNow, TapNow, PendingNow, HandlersNow, StartingNow, RunningNow,
                Adding, Running
  <1>11. \A i \in Inputs : loading \in attached[i] => i \in Elems(joined)
    BY <1>1, <1>2 DEF AttachedBy
  <1>12. UndoingNow'
    BY <1>1, <1>3, <1>4, <1>11 DEF UndoingNow, Undoing
  <1> QED
    BY <1>5, <1>6, <1>7, <1>8, <1>9, <1>10, <1>12, ConstantsKept

\* RollbackDetach: the policy leaves an input; a reused one is looked at next.
LEMMA RollbackDetachKeeps ==
    ASSUME LifecycleInv, mapLock # "remove", RollbackDetach
    PROVE  LifecycleInv'
  <1> USE DEF LifecycleInv
  <1> DEFINE i == Head(todo)
  <1>1. /\ lpc = "rb_detach" /\ todo # << >> /\ todo' = Tail(todo)
        /\ mapLock = "free" /\ leaving = None /\ cpc = "idle" /\ ctodo = << >>
        /\ UNCHANGED <<reg, inputs, handlers, streams, started, irun, hrun, dangling>>
        /\ UNCHANGED <<lpc, loading, fresh, joined, made, resAdded>>
    BY DEF RollbackDetach, LockNow
  <1>2. /\ loading \in Policies /\ loading \in Objects /\ loading \notin reg /\ loading # None
    BY <1>1, LoadingFacts
  <1>3. /\ i \in Elems(todo) /\ i \in Inputs /\ Tail(todo) \in Lists
        /\ Elems(todo') = Elems(todo) \ {i}
    BY <1>1, ListTail DEF CallTypes
  <1>4. /\ attached' \in [Inputs -> SUBSET Objects]
        /\ \A j \in Inputs : j # i => attached'[j] = attached[j]
        /\ attached'[i] = attached[i] \ {loading}
    BY <1>1, <1>2, <1>3 DEF RollbackDetach, AttachedType, AttachedBy
  <1>5. \/ UNCHANGED <<mapLock, cpc, leaving, ctodo, cstop>> /\ (i \notin inputs \/ i \in fresh)
        \/ /\ i \notin fresh /\ mapLock' = "rollback" /\ cpc' = "one" /\ leaving' = loading
           /\ ctodo' = <<i>> /\ UNCHANGED cstop
    BY DEF RollbackDetach, lockVars
  <1>6. ModuleTypes'
    BY <1>1 DEF ModuleTypes
  <1>7. AttachedType'
    <2>1. IsFiniteSet(attached[i] \ {loading})
      BY <1>3, FiniteFacts DEF AttachedType
    <2> QED
      BY <1>4, <2>1 DEF AttachedType
  <1>8. CallTypes'
    BY <1>1, <1>3, <1>5, OneList DEF CallTypes, Leaving
  <1>9. AllServed'
    <2>1. \A o \in reg : o # leaving /\ o # leaving'
      BY <1>1, <1>2, <1>5, ObjectFacts DEF ModuleTypes
    <2>2. \A o \in reg, j \in Inputs : o \in attached[j] => o \in attached'[j]
      BY <1>2, <1>4
    <2> QED
      BY <1>1, <2>1, <2>2, ListElems DEF AllServed, ModuleTypes
  <1>10. AttachedBy'
    BY <1>1, <1>4 DEF AttachedBy
  <1>11. StartedBy' /\ HandlersBy' /\ StreamsBy'
    BY <1>1 DEF StartedBy, Running, HandlersBy, StreamsBy, Pending
  <1>12. InputsUsed'
    <2>1. Unsettled = {} /\ (i \in inputs /\ i \notin fresh => i \in Unsettled')
      BY <1>1, <1>3, <1>5, EmptyList, OneList DEF Unsettled, Stopping
    <2> QED
      BY <1>1, <1>4, <2>1 DEF InputsUsed, ModuleTypes
  <1>13. FreshOwn'
    BY <1>1 DEF FreshOwn
  <1>14. IdleNow' /\ LoadingNow'
    BY <1>1 DEF IdleNow, LoadingNow
  <1>15. LockNow'
    BY <1>1, <1>3, <1>5, OneList DEF LockNow, Leaving
  <1>16. StepNow' /\ dangling' = {}
    BY <1>1, <1>5 DEF StepNow
  <1>17. /\ JoinedNow' /\ FreshNow' /\ TapNow' /\ PendingNow' /\ HandlersNow' /\ StartingNow'
         /\ RunningNow'
    BY <1>1 DEF JoinedNow, FreshNow, TapNow, PendingNow, HandlersNow, StartingNow, RunningNow,
                Adding, Running
  <1>18. UndoingNow'
    BY <1>1, <1>3, <1>4 DEF UndoingNow, Undoing
  <1> QED
    BY <1>6, <1>7, <1>8, <1>9, <1>10, <1>11, <1>12, <1>13, <1>14, <1>15, <1>16, <1>17, <1>18, ConstantsKept

\* RollbackDetached and RollbackResourcesStop: no resources policy was registered.
LEMMA RollbackDetachedKeeps ==
    ASSUME LifecycleInv, mapLock # "remove", RollbackDetached \/ RollbackResourcesStop
    PROVE  LifecycleInv'
  <1> USE DEF LifecycleInv
  <1>1. /\ lpc \in {"rb_detach", "rb_resources"} /\ resAdded = {} /\ todo = << >>
        /\ mapLock = "free" /\ leaving = None /\ cpc = "idle" /\ ctodo = << >>
    <2>1. lpc \in {"rb_detach", "rb_resources"} /\ resAdded = {}
      BY DEF RollbackDetached, RollbackResourcesStop, UndoingNow, Undoing
    <2>2. todo = << >> /\ mapLock # "rollback"
      BY <2>1 DEF RollbackDetached, RollbackResourcesStop, UndoingNow, Undoing, LockNow
    <2> QED
      BY <2>1, <2>2 DEF LockNow, CallTypes
  <1>2. loading \in Objects /\ streams[loading] \in Lists
    BY <1>1, LoadingFacts DEF ModuleTypes
  <1>3. /\ \/ lpc = "rb_detach" /\ lpc' = "rb_resources"
           \/ lpc = "rb_resources" /\ lpc' = "rb_handlers"
        /\ todo' = << >>
        /\ UNCHANGED <<reg, inputs, handlers, streams, started, irun, attached, hrun, dangling>>
        /\ UNCHANGED <<loading, fresh, joined, made, resAdded, mapLock, cpc, leaving, ctodo, cstop>>
    <2>1. From(streams[loading], resAdded) = << >>
      BY <1>1, <1>2, ListFrom
    <2> QED
      BY <1>1, <2>1 DEF RollbackDetached, RollbackResourcesStop, moduleVars, lockVars
  <1>4. ModuleTypes' /\ AttachedType'
    BY <1>3 DEF ModuleTypes, AttachedType
  <1>5. CallTypes'
    BY <1>3, EmptyList DEF CallTypes, Undoing
  <1>6. AllServed' /\ AttachedBy' /\ StartedBy' /\ HandlersBy' /\ StreamsBy'
    BY <1>3 DEF AllServed, AttachedBy, StartedBy, Running, HandlersBy, StreamsBy, Pending
  <1>7. InputsUsed' /\ FreshOwn'
    BY <1>3 DEF InputsUsed, Unsettled, Stopping, FreshOwn
  <1>8. IdleNow' /\ LoadingNow' /\ LockNow' /\ StepNow' /\ dangling' = {}
    BY <1>1, <1>3 DEF IdleNow, LoadingNow, LockNow, StepNow, Stopping, Leaving
  <1>9. /\ JoinedNow' /\ FreshNow' /\ TapNow' /\ PendingNow' /\ HandlersNow' /\ StartingNow'
        /\ RunningNow'
    BY <1>3 DEF JoinedNow, FreshNow, TapNow, PendingNow, HandlersNow, StartingNow, RunningNow,
                Adding, Running
  <1>10. UndoingNow'
    BY <1>1, <1>3, EmptyList DEF UndoingNow, Undoing
  <1> QED
    BY <1>4, <1>5, <1>6, <1>7, <1>8, <1>9, <1>10, ConstantsKept

\* RollbackHandlers: the handlers this load made go.
LEMMA RollbackHandlersKeeps ==
    ASSUME LifecycleInv, mapLock # "remove", RollbackHandlers
    PROVE  LifecycleInv'
  <1> USE DEF LifecycleInv
  <1> DEFINE gone == HandlersOf(loading) \cup {<<Res(i), i>> : i \in made}
  <1>1. /\ lpc = "rb_handlers" /\ lpc' = "rb_inputs"
        /\ handlers' = handlers \ gone /\ hrun' = hrun \ gone
        /\ mapLock = "free" /\ leaving = None /\ cpc = "idle" /\ ctodo = << >>
        /\ UNCHANGED <<reg, inputs, streams, started, irun, attached, dangling>>
        /\ UNCHANGED <<loading, todo, fresh, joined, made, resAdded, mapLock, cpc, leaving, ctodo, cstop>>
    BY Quiet DEF RollbackHandlers, lockVars
  <1>2. /\ loading \in Objects /\ loading \notin reg /\ resAdded = {} /\ made \subseteq fresh
        /\ made \subseteq Inputs
    BY <1>1, LoadingFacts DEF UndoingNow, Undoing, CallTypes
  <1>3. \A o \in reg, i \in Inputs : <<o, i>> \notin gone
    BY <1>2, FreshUnregistered DEF HandlersOf
  <1>4. /\ \A i \in Inputs : <<loading, i>> \in handlers => <<loading, i>> \in gone
        /\ \A i \in made : <<Res(i), i>> \in gone
    BY <1>2 DEF HandlersOf, HandlersBy
  <1> HIDE DEF gone
  <1>5. ModuleTypes' /\ AttachedType'
    BY <1>1 DEF ModuleTypes, AttachedType
  <1>6. CallTypes'
    BY <1>1 DEF CallTypes, Undoing
  <1>7. AllServed'
    BY <1>1, <1>3, ListElems DEF AllServed, ModuleTypes
  <1>8. AttachedBy' /\ StartedBy' /\ HandlersBy' /\ StreamsBy'
    BY <1>1 DEF AttachedBy, StartedBy, Running, HandlersBy, StreamsBy, Pending
  <1>9. InputsUsed' /\ FreshOwn'
    BY <1>1 DEF InputsUsed, Unsettled, Stopping, FreshOwn
  <1>10. IdleNow' /\ LoadingNow' /\ LockNow' /\ StepNow' /\ dangling' = {}
    BY <1>1 DEF IdleNow, LoadingNow, LockNow, StepNow, Stopping, Leaving
  <1>11. /\ JoinedNow' /\ FreshNow' /\ TapNow' /\ PendingNow' /\ HandlersNow' /\ StartingNow'
         /\ RunningNow'
    BY <1>1 DEF JoinedNow, FreshNow, TapNow, PendingNow, HandlersNow, StartingNow, RunningNow,
                Adding, Running
  <1>12. UndoingNow'
    BY <1>1, <1>4 DEF UndoingNow, Undoing
  <1> QED
    BY <1>5, <1>6, <1>7, <1>8, <1>9, <1>10, <1>11, <1>12, ConstantsKept

\* An input without a running handler has no consumer.
LEMMA NoConsumers ==
    ASSUME FiniteLaws, NEW i, \A o \in Objects : <<o, i>> \notin hrun
    PROVE  ConsumerCount(i) = 0
  <1>1. {o \in Objects : <<o, i>> \in hrun /\ FilterOf(o) = proxies[i][Len(proxies[i])]} = {}
    OBVIOUS
  <1> QED
    BY <1>1, FiniteFacts DEF ConsumerCount

\* At the end of a rollback nobody has a handler on an input that this load made.
LEMMA NobodyOnFresh ==
    ASSUME LifecycleInv, lpc = "rb_inputs", NEW i \in fresh, NEW o \in Objects
    PROVE  <<o, i>> \notin handlers
  <1> USE DEF LifecycleInv
  <1> SUFFICES ASSUME <<o, i>> \in handlers PROVE FALSE
    OBVIOUS
  <1>1. resAdded = {} /\ made \subseteq fresh /\ fresh \subseteq Inputs
    BY DEF UndoingNow, Undoing, CallTypes
  <1>2. i \in Inputs /\ i \in Elems(streams[o]) /\ o \in reg \cup {loading} \cup Pending
    BY <1>1 DEF HandlersBy
  <1>3. o \notin reg
    BY <1>1, <1>2 DEF FreshOwn
  <1>4. o # loading
    BY <1>2 DEF UndoingNow, Undoing
  <1>5. PICK j \in made : o = Res(j)
    BY <1>2, <1>3, <1>4 DEF Pending
  <1>6. streams[o] = <<j>> /\ j \in Inputs
    BY <1>1, <1>2, <1>3, <1>4, <1>5 DEF StreamsBy
  <1>7. i = j
    BY <1>2, <1>6, OneList
  <1> QED
    BY <1>5, <1>7 DEF UndoingNow, Undoing

\* RollbackInputs: the inputs this load made go, all of them.
LEMMA RollbackInputsKeeps ==
    ASSUME LifecycleInv, mapLock # "remove", RollbackInputs
    PROVE  LifecycleInv'
  <1> USE DEF LifecycleInv
  <1> DEFINE gone == {i \in fresh \cap inputs : ConsumerCount(i) = 0}
  <1>1. /\ lpc = "rb_inputs" /\ lpc' = "idle" /\ loading' = None /\ todo' = << >>
        /\ fresh' = {} /\ joined' = << >> /\ made' = {} /\ resAdded' = {}
        /\ mapLock = "free" /\ leaving = None /\ cpc = "idle" /\ ctodo = << >>
        /\ UNCHANGED <<reg, handlers, started, hrun, dangling, mapLock, cpc, leaving, ctodo, cstop>>
    BY Quiet DEF RollbackInputs, LoadEnds, lockVars
  <1>2. /\ loading \in Policies /\ loading \in Objects /\ loading \notin reg /\ loading # None
        /\ resAdded = {} /\ made \subseteq fresh /\ fresh \subseteq Inputs
    BY <1>1, LoadingFacts DEF UndoingNow, Undoing, CallTypes
  <1>3. \A i \in made : Res(i) \notin reg /\ Res(i) \in Objects
    BY <1>2, FreshUnregistered, ObjectFacts
  <1>4. \A i \in fresh, o \in Objects : <<o, i>> \notin handlers
    BY <1>1, NobodyOnFresh
  <1>5. gone = fresh \cap inputs
    BY <1>4, NoConsumers DEF ModuleTypes
  <1>6. /\ inputs' = inputs \ fresh /\ irun' = irun \ (fresh \cap inputs)
        /\ attached' = [i \in Inputs |-> IF i \in fresh \cap inputs THEN {} ELSE attached[i]]
        /\ streams' = [o \in Objects |-> IF o = loading \/ \E i \in made : o = Res(i) /\ o \notin reg
                                         THEN << >> ELSE streams[o]]
    BY <1>5 DEF RollbackInputs, Destroy
  <1>7. \A o \in reg : streams'[o] = streams[o]
    BY <1>2, <1>6 DEF ModuleTypes
  <1>8. /\ \A o \in Objects : o = loading \/ o \in Pending => streams'[o] = << >>
        /\ \A o \in Objects : o # loading /\ o \notin Pending => streams'[o] = streams[o]
    BY <1>2, <1>3, <1>6 DEF Pending
  <1>9. Pending' = {}
    BY <1>1 DEF Pending
  <1>10. ModuleTypes'
    <2>1. streams' \in [Objects -> Lists]
      BY <1>6, EmptyList DEF ModuleTypes
    <2> QED
      BY <1>1, <1>6, <2>1 DEF ModuleTypes
  <1>11. AttachedType'
    BY <1>6, FiniteFacts DEF AttachedType
  <1>12. CallTypes'
    BY <1>1, EmptyList DEF CallTypes
  <1>13. AllServed'
    <2>1. \A o \in reg : \A i \in Elems(streams[o]) : i \in Inputs /\ i \notin fresh
      BY <1>2, ListElems DEF FreshOwn, ModuleTypes
    <2>2. \A i \in Inputs : i \notin fresh => attached'[i] = attached[i] /\ (i \in irun => i \in irun')
      BY <1>6
    <2> QED
      BY <1>1, <1>7, <2>1, <2>2 DEF AllServed
  <1>14. AttachedBy'
    BY <1>1, <1>2, <1>6, <1>7 DEF AttachedBy, AttachedType, UndoingNow, Undoing, ModuleTypes
  <1>15. StartedBy'
    BY <1>1 DEF StartedBy, Running
  <1>16. HandlersBy'
    <2> SUFFICES ASSUME NEW o \in Objects, NEW i \in Inputs, <<o, i>> \in handlers
                 PROVE  i \in Elems(streams'[o]) /\ o \in reg
      BY <1>1 DEF HandlersBy
    <2>1. i \in Elems(streams[o]) /\ o \in reg \cup {loading} \cup Pending
      BY DEF HandlersBy
    <2>2. o # loading
      BY <1>1 DEF UndoingNow, Undoing
    <2>3. o \notin Pending
      <3> SUFFICES ASSUME NEW j \in made, o = Res(j) PROVE FALSE
        BY DEF Pending
      <3>1. streams[o] = <<j>> /\ j \in Inputs
        BY <1>2 DEF StreamsBy, Pending
      <3>2. i = j
        BY <2>1, <3>1, OneList
      <3> QED
        BY <1>1, <3>2 DEF UndoingNow, Undoing
    <2> QED
      BY <1>7, <2>1, <2>2, <2>3
  <1>17. StreamsBy'
    BY <1>1, <1>7, <1>8, <1>9, ObjectFacts DEF StreamsBy
  <1>18. InputsUsed'
    BY <1>1, <1>6 DEF InputsUsed, Unsettled, Stopping, ModuleTypes
  <1>19. FreshOwn'
    BY <1>1 DEF FreshOwn
  <1>20. IdleNow' /\ LoadingNow' /\ LockNow' /\ StepNow' /\ dangling' = {}
    BY <1>1 DEF IdleNow, LoadingNow, LockNow, StepNow, Stopping, Leaving
  <1>21. /\ JoinedNow' /\ FreshNow' /\ TapNow' /\ PendingNow' /\ HandlersNow' /\ StartingNow'
         /\ RunningNow' /\ UndoingNow'
    BY <1>1 DEF JoinedNow, FreshNow, TapNow, PendingNow, HandlersNow, StartingNow, RunningNow,
                UndoingNow, Adding, Running, Undoing
  <1> QED
    BY <1>10, <1>11, <1>12, <1>13, <1>14, <1>15, <1>16, <1>17, <1>18, <1>19, <1>20, <1>21, ConstantsKept

-----------------------------------------------------------------------------
(* The requests *)

\* Load: a new load has changed nothing yet.
LEMMA LoadKeeps ==
    ASSUME LifecycleInv, NEW p \in Policies, Load(p)
    PROVE  LifecycleInv'
  <1> USE DEF LifecycleInv
  <1>1. /\ lpc = "idle" /\ lpc' = "tap" /\ loading' = p /\ todo' \in Reach[p]
        /\ mapLock = "free" /\ leaving = None /\ cpc = "idle" /\ ctodo = << >>
        /\ UNCHANGED <<reg, inputs, handlers, streams, started, irun, attached, hrun, dangling>>
        /\ UNCHANGED <<fresh, joined, made, resAdded, mapLock, cpc, leaving, ctodo, cstop>>
    BY DEF Load, LockNow, moduleVars, lockVars
  <1>2. /\ loading = None /\ fresh = {} /\ made = {} /\ resAdded = {}
        /\ joined = << >> /\ Elems(joined) = {} /\ Pending = {} /\ Pending' = {}
    BY <1>1, EmptyList DEF IdleNow, Pending
  <1>3. p \notin reg /\ p # None /\ p \in Objects
    <2>1. ~Exists(p)
      BY DEF Load
    <2>2. reg \subseteq Objects
      BY DEF ModuleTypes
    <2> QED
      BY <2>1, <2>2, NameFacts, ObjectFacts
  <1>4. todo' \in Lists /\ todo' # << >>
    BY <1>1, LifecycleConstants DEF Lists, Distinct
  <1>5. Elems(streams[p]) = {} /\ \A i \in Inputs : <<p, i>> \notin hrun
    <2>1. streams[p] = << >>
      BY <1>2, <1>3 DEF StreamsBy
    <2>2. \A i \in Inputs : <<p, i>> \notin handlers
      BY <1>2, <1>3 DEF HandlersBy
    <2> QED
      BY <2>1, <2>2, EmptyList DEF ModuleTypes
  <1>6. ModuleTypes' /\ AttachedType'
    BY <1>1 DEF ModuleTypes, AttachedType
  <1>7. CallTypes'
    BY <1>1, <1>4 DEF CallTypes, Adding
  <1>8. AllServed'
    BY <1>1 DEF AllServed
  <1>9. AttachedBy' /\ StartedBy'
    BY <1>1, <1>2, ObjectFacts DEF AttachedBy, StartedBy, AttachedType, ModuleTypes
  <1>10. HandlersBy' /\ StreamsBy'
    BY <1>1, <1>2, ObjectFacts DEF HandlersBy, StreamsBy
  <1>11. InputsUsed' /\ FreshOwn'
    BY <1>1 DEF InputsUsed, Unsettled, Stopping, FreshOwn
  <1>12. IdleNow' /\ LoadingNow' /\ LockNow' /\ StepNow' /\ dangling' = {}
    BY <1>1, <1>3 DEF IdleNow, LoadingNow, LockNow, StepNow, Stopping, Leaving
  <1>13. JoinedNow' /\ FreshNow' /\ TapNow' /\ PendingNow'
    BY <1>1, <1>2, <1>4, <1>5 DEF JoinedNow, FreshNow, TapNow, PendingNow, Adding, Running
  <1>14. HandlersNow' /\ StartingNow' /\ RunningNow' /\ UndoingNow'
    BY <1>1, <1>5 DEF HandlersNow, StartingNow, RunningNow, UndoingNow, Adding, Running, Undoing
  <1> QED
    BY <1>6, <1>7, <1>8, <1>9, <1>10, <1>11, <1>12, <1>13, <1>14, ConstantsKept

\* RemovePolicy: the map lock is taken and the removal begins with stop().
LEMMA RemovePolicyKeeps ==
    ASSUME LifecycleInv, NEW o \in Objects, RemovePolicy(o)
    PROVE  LifecycleInv'
  <1> USE DEF LifecycleInv
  <1>1. /\ mapLock = "free" /\ leaving = None /\ cpc = "idle" /\ ctodo = << >>
        /\ mapLock' = "remove" /\ leaving' = o /\ cpc' = "stop" /\ o \in reg
        /\ UNCHANGED <<reg, inputs, handlers, streams, started, irun, attached, hrun, dangling>>
        /\ UNCHANGED <<lpc, loading, todo, fresh, joined, made, resAdded, cstop>>
    BY DEF RemovePolicy, LockNow, moduleVars, loadVars
  <1>2. ctodo' = streams[o] /\ streams[o] \in Lists
    BY <1>1, ObjectFacts DEF RemovePolicy, AllServed, ModuleTypes
  <1>3. \A i \in Inputs : o \in attached[i] <=> i \in Elems(streams[o])
    <2>1. o \in reg \ {leaving}
      BY <1>1, ObjectFacts
    <2>2. \A i \in Elems(streams[o]) : o \in attached[i]
      BY <2>1 DEF AllServed
    <2> QED
      BY <2>2 DEF AttachedBy
  <1>4. ModuleTypes' /\ AttachedType'
    BY <1>1 DEF ModuleTypes, AttachedType
  <1>5. CallTypes'
    BY <1>1, <1>2 DEF CallTypes, Stopping
  <1>6. AllServed' /\ AttachedBy' /\ StartedBy' /\ HandlersBy' /\ StreamsBy'
    <2>1. AllServed'
      <3>1. \A q \in reg : q # None
        BY ObjectFacts DEF ModuleTypes
      <3>2. \A q \in reg : q \in reg \ {leaving}
        BY <1>1, <3>1
      <3> QED
        BY <1>1, <3>2 DEF AllServed
    <2>2. AttachedBy' /\ StartedBy' /\ HandlersBy' /\ StreamsBy'
      BY <1>1 DEF AttachedBy, StartedBy, HandlersBy, StreamsBy, Pending
    <2> QED
      BY <2>1, <2>2
  <1>7. InputsUsed' /\ FreshOwn'
    BY <1>1, EmptyList DEF InputsUsed, Unsettled, Stopping, FreshOwn
  <1>8. IdleNow' /\ LoadingNow'
    BY <1>1 DEF IdleNow, LoadingNow
  <1>9. LockNow' /\ StepNow' /\ dangling' = {}
    BY <1>1, <1>2, <1>3 DEF LockNow, StepNow, Stopping, Leaving
  <1>10. /\ JoinedNow' /\ FreshNow' /\ TapNow' /\ PendingNow' /\ HandlersNow' /\ StartingNow'
         /\ RunningNow' /\ UndoingNow'
    BY <1>1 DEF JoinedNow, FreshNow, TapNow, PendingNow, HandlersNow, StartingNow, RunningNow,
                UndoingNow
  <1> QED
    BY <1>4, <1>5, <1>6, <1>7, <1>8, <1>9, <1>10, ConstantsKept

-----------------------------------------------------------------------------
(* Policy::stop of a policy that is removed *)

\* The policy being removed is registered, and no load is about it.
LEMMA LeavingFacts ==
    ASSUME LifecycleInv, mapLock = "remove"
    PROVE  /\ leaving \in reg /\ leaving \in Objects /\ leaving # None /\ leaving # loading
           /\ streams[leaving] \in Lists
           /\ \A i \in made \ resAdded : Res(i) # leaving
  <1>1. leaving \in reg /\ leaving \in Objects /\ leaving # None /\ streams[leaving] \in Lists
    <2>1. leaving \in reg
      BY DEF LifecycleInv, LockNow
    <2>2. reg \subseteq Objects /\ streams \in [Objects -> Lists]
      BY DEF LifecycleInv, ModuleTypes
    <2> QED
      BY <2>1, <2>2, ObjectFacts
  <1>2. leaving # loading
    BY <1>1, ObjectFacts DEF LifecycleInv, LoadingNow, IdleNow
  <1>3. \A i \in made \ resAdded : Res(i) # leaving
    BY <1>1, FreshUnregistered DEF LifecycleInv, CallTypes
  <1> QED
    BY <1>1, <1>2, <1>3

\* StopCheck: an input that may be stopped has no other policy; at the end of
\* stop() the handlers stop.
LEMMA StopCheckKeeps ==
    ASSUME LifecycleInv, StopCheck
    PROVE  LifecycleInv'
  <1> USE DEF LifecycleInv
  <1>1. /\ cpc = "stop" /\ mapLock = "remove"
        /\ UNCHANGED <<reg, inputs, handlers, streams, irun, attached, dangling>>
        /\ UNCHANGED <<lpc, loading, todo, fresh, joined, made, resAdded, mapLock, leaving, ctodo>>
    BY DEF StopCheck, LockNow, CallTypes, Leaving, loadVars
  <1>2. /\ leaving \in reg /\ leaving \in Objects /\ leaving # None /\ leaving # loading
        /\ \A i \in made \ resAdded : Res(i) # leaving
    BY <1>1, LeavingFacts
  <1>3. AttachedType' /\ AttachedBy' /\ HandlersBy' /\ StreamsBy' /\ FreshOwn'
    BY <1>1 DEF AttachedType, AttachedBy, HandlersBy, StreamsBy, Pending, FreshOwn
  <1>4. IdleNow' /\ LoadingNow' /\ JoinedNow' /\ FreshNow' /\ TapNow' /\ StartingNow'
    BY <1>1 DEF IdleNow, LoadingNow, JoinedNow, FreshNow, TapNow, StartingNow
  <1>5. CASE /\ ctodo # << >> /\ cstop' = Stoppable({Head(ctodo)}) /\ cpc' = "stop_input"
             /\ UNCHANGED <<started, hrun>>
    <2>1. /\ Head(ctodo) \in Inputs /\ leaving \in attached[Head(ctodo)]
          /\ IsFiniteSet(attached[Head(ctodo)])
      BY <1>1, <1>5, ListTail DEF CallTypes, LockNow, Stopping, AttachedType
    <2>2. \A i \in cstop' : i = Head(ctodo) /\ attached[i] \subseteq {leaving}
      <3>1. \A i \in cstop' : i = Head(ctodo) /\ Cardinality(attached[i]) <= 1
        BY <1>5 DEF Stoppable
      <3>2. Cardinality(attached[Head(ctodo)]) <= 1 => attached[Head(ctodo)] \subseteq {leaving}
        BY <2>1, AtMostOne
      <3> QED
        BY <3>1, <3>2
    <2>3. ModuleTypes' /\ CallTypes'
      BY <1>1, <1>5 DEF ModuleTypes, CallTypes, Stopping
    <2>4. AllServed' /\ StartedBy' /\ InputsUsed'
      BY <1>1, <1>5 DEF AllServed, StartedBy, InputsUsed, Unsettled, Stopping
    <2>5. PendingNow' /\ HandlersNow' /\ RunningNow' /\ UndoingNow'
      BY <1>1, <1>5 DEF PendingNow, HandlersNow, RunningNow, UndoingNow
    <2>6. LockNow' /\ StepNow' /\ dangling' = {}
      BY <1>1, <1>5, <2>2 DEF LockNow, StepNow, Stopping, Leaving
    <2> QED
      BY <1>3, <1>4, <2>3, <2>4, <2>5, <2>6, ConstantsKept
  <1>6. CASE /\ ctodo = << >> /\ started' = started \ {leaving}
             /\ hrun' = hrun \ HandlersOf(leaving) /\ cpc' = "handlers"
    <2>1. /\ hrun' \subseteq hrun
          /\ \A o \in Objects, i \in Inputs : o # leaving /\ <<o, i>> \in hrun => <<o, i>> \in hrun'
          /\ \A i \in Inputs : <<leaving, i>> \notin hrun'
      BY <1>2, <1>6 DEF HandlersOf, HandlersBy, ModuleTypes
    <2>2. ModuleTypes' /\ CallTypes'
      BY <1>1, <1>6, <2>1 DEF ModuleTypes, CallTypes
    <2>3. AllServed'
      BY <1>1, <1>6, <2>1, ListElems DEF AllServed, ModuleTypes
    <2>4. StartedBy' /\ InputsUsed'
      BY <1>1, <1>6 DEF StartedBy, InputsUsed, Unsettled, Stopping
    <2>5. PendingNow'
      BY <1>1, <1>2, <2>1, ObjectFacts DEF PendingNow, CallTypes
    <2>6. HandlersNow'
      BY <1>1, <1>2, <2>1, LoadingFacts, ListElems DEF HandlersNow, CallTypes, Adding
    <2>7. RunningNow'
      <3>1. lpc = "register_res" => Head(todo) \in made \ resAdded
        BY ListTail DEF RunningNow, Running, CallTypes
      <3> QED
        BY <1>1, <1>2, <1>6, <3>1 DEF RunningNow, Running
    <2>8. UndoingNow'
      BY <1>1, <2>1 DEF UndoingNow
    <2>9. \A i \in Inputs : leaving \notin attached[i]
      BY <1>1, <1>6, EmptyList DEF LockNow, Stopping
    <2>10. LockNow' /\ StepNow' /\ dangling' = {}
      BY <1>1, <1>6, <2>1, <2>9 DEF LockNow, StepNow, Stopping, Leaving
    <2> QED
      BY <1>3, <1>4, <2>2, <2>3, <2>4, <2>5, <2>6, <2>7, <2>8, <2>10, ConstantsKept
  <1> QED
    BY <1>5, <1>6 DEF StopCheck

\* StopInput: an input stops only if the policy being removed is alone on it.
LEMMA StopInputKeeps ==
    ASSUME LifecycleInv, StopInput
    PROVE  LifecycleInv'
  <1> USE DEF LifecycleInv
  <1> DEFINE i == Head(ctodo)
  <1>1. /\ cpc = "stop_input" /\ cpc' = "stop" /\ mapLock = "remove" /\ ctodo # << >>
        /\ irun' = irun \ cstop /\ ctodo' = Tail(ctodo)
        /\ attached' = [attached EXCEPT ![i] = @ \ {leaving}]
        /\ UNCHANGED <<reg, inputs, handlers, streams, started, hrun, dangling>>
        /\ UNCHANGED <<lpc, loading, todo, fresh, joined, made, resAdded, mapLock, leaving, cstop>>
    BY DEF StopInput, LockNow, StepNow, CallTypes, Leaving, loadVars
  <1>2. /\ leaving \in reg /\ leaving \in Objects /\ leaving # None /\ leaving # loading
        /\ \A j \in made \ resAdded : Res(j) # leaving
    BY <1>1, LeavingFacts
  <1>3. /\ i \in Elems(ctodo) /\ i \in Inputs /\ Tail(ctodo) \in Lists
        /\ Elems(ctodo') = Elems(ctodo) \ {i}
    BY <1>1, ListTail DEF CallTypes
  <1>4. /\ attached' \in [Inputs -> SUBSET Objects]
        /\ \A j \in Inputs : j # i => attached'[j] = attached[j]
        /\ attached'[i] = attached[i] \ {leaving}
    BY <1>1, <1>3 DEF AttachedType
  <1>5. \A j \in Inputs, o \in Objects : o \in attached[j] /\ o # leaving => j \notin cstop /\ o \in attached'[j]
    BY <1>1, <1>4 DEF StepNow
  <1>6. ModuleTypes'
    BY <1>1 DEF ModuleTypes
  <1>7. AttachedType'
    <2>1. IsFiniteSet(attached[i] \ {leaving})
      BY <1>3, FiniteFacts DEF AttachedType
    <2> QED
      BY <1>4, <2>1 DEF AttachedType
  <1>8. CallTypes'
    BY <1>1, <1>3 DEF CallTypes, Stopping
  <1>9. AllServed'
    BY <1>1, <1>5, ListElems DEF AllServed, ModuleTypes
  <1>10. AttachedBy'
    BY <1>1, <1>4 DEF AttachedBy
  <1>11. StartedBy' /\ HandlersBy' /\ StreamsBy' /\ FreshOwn'
    BY <1>1 DEF StartedBy, HandlersBy, StreamsBy, Pending, FreshOwn
  <1>12. InputsUsed'
    <2>1. i \in Elems(streams[leaving]) /\ Unsettled = Elems(streams[leaving]) /\ Unsettled' = Unsettled
      BY <1>1, <1>3 DEF LockNow, Unsettled, Stopping
    <2> QED
      BY <1>1, <1>4, <2>1 DEF InputsUsed, ModuleTypes
  <1>13. IdleNow' /\ LoadingNow' /\ FreshNow' /\ TapNow' /\ PendingNow' /\ HandlersNow'
    BY <1>1 DEF IdleNow, LoadingNow, FreshNow, TapNow, PendingNow, HandlersNow
  <1>14. \A j \in Elems(joined) : j \in Inputs
    BY ListElems DEF CallTypes
  <1>15. JoinedNow'
    BY <1>1, <1>2, <1>5, <1>14, LoadingFacts DEF JoinedNow, Adding
  <1>16. lpc \in Adding => \A j \in Elems(joined) : j \notin cstop
    BY <1>2, <1>5, <1>14, LoadingFacts DEF JoinedNow, Adding
  <1>17. StartingNow'
    BY <1>1, <1>16 DEF StartingNow, Adding
  <1>18. RunningNow'
    <2>1. lpc = "register_res" => Head(todo) \in made \ resAdded /\ Head(todo) \in Inputs
      BY ListTail DEF RunningNow, Running, CallTypes
    <2> QED
      BY <1>1, <1>2, <1>5, <1>16, <2>1, ObjectFacts DEF RunningNow, Running, Adding
  <1>19. UndoingNow'
    BY <1>1, <1>4 DEF UndoingNow
  <1>20. LockNow' /\ StepNow' /\ dangling' = {}
    BY <1>1, <1>3, <1>4 DEF LockNow, StepNow, Stopping, Leaving
  <1> QED
    BY <1>6, <1>7, <1>8, <1>9, <1>10, <1>11, <1>12, <1>13, <1>15, <1>17, <1>18, <1>19, <1>20, ConstantsKept

\* RemoveHandlers: the handlers of the policy go.
LEMMA RemoveHandlersKeeps ==
    ASSUME LifecycleInv, RemoveHandlers
    PROVE  LifecycleInv'
  <1> USE DEF LifecycleInv
  <1>1. /\ cpc = "handlers" /\ cpc' = "one" /\ mapLock = "remove"
        /\ ctodo' \in Orders(streams[leaving])
        /\ handlers' = handlers \ HandlersOf(leaving)
        /\ UNCHANGED <<reg, inputs, streams, started, irun, attached, hrun, dangling>>
        /\ UNCHANGED <<lpc, loading, todo, fresh, joined, made, resAdded, mapLock, leaving, cstop>>
    BY DEF RemoveHandlers, LockNow, CallTypes, Leaving, loadVars
  <1>2. /\ leaving \in reg /\ leaving \in Objects /\ leaving # None /\ leaving # loading
        /\ streams[leaving] \in Lists /\ ctodo' \in Lists /\ Elems(ctodo') = Elems(streams[leaving])
    BY <1>1, LeavingFacts, ListOrders
  <1>3. /\ handlers' \subseteq handlers
        /\ \A o \in Objects, i \in Inputs :
              o # leaving /\ <<o, i>> \in handlers => <<o, i>> \in handlers'
        /\ \A i \in Inputs : <<leaving, i>> \notin handlers'
    BY <1>1, <1>2 DEF HandlersOf, HandlersBy
  <1>4. hrun \subseteq handlers'
    <2>1. \A i \in Elems(streams[leaving]) : <<leaving, i>> \notin hrun
      BY <1>1, <1>2, ListElems DEF LockNow, Stopping
    <2> QED
      BY <1>1, <2>1 DEF HandlersOf, ModuleTypes
  <1>5. ModuleTypes' /\ AttachedType'
    BY <1>1, <1>3, <1>4 DEF ModuleTypes, AttachedType
  <1>6. CallTypes'
    BY <1>1, <1>2 DEF CallTypes, Leaving
  <1>7. AllServed' /\ AttachedBy' /\ StartedBy' /\ StreamsBy' /\ FreshOwn'
    BY <1>1 DEF AllServed, AttachedBy, StartedBy, StreamsBy, Pending, FreshOwn
  <1>8. HandlersBy'
    BY <1>1, <1>3 DEF HandlersBy, Pending
  <1>9. InputsUsed'
    BY <1>1, <1>2 DEF InputsUsed, Unsettled, Stopping
  <1>10. /\ IdleNow' /\ LoadingNow' /\ FreshNow' /\ TapNow' /\ PendingNow' /\ HandlersNow'
         /\ StartingNow' /\ RunningNow'
    BY <1>1 DEF IdleNow, LoadingNow, FreshNow, TapNow, PendingNow, HandlersNow, StartingNow,
                RunningNow
  <1>11. JoinedNow'
    BY <1>1, <1>2, <1>3, LoadingFacts, ListElems DEF JoinedNow, Adding, CallTypes
  <1>12. UndoingNow'
    BY <1>1, <1>3 DEF UndoingNow
  <1>13. LockNow' /\ StepNow' /\ dangling' = {}
    BY <1>1, <1>2, <1>3 DEF LockNow, StepNow, Stopping, Leaving
  <1> QED
    BY <1>5, <1>6, <1>7, <1>8, <1>9, <1>10, <1>11, <1>12, <1>13, ConstantsKept

-----------------------------------------------------------------------------
(* _remove_input_if_unused and the end of a removal *)

\* In _remove_input_if_unused the policy has left the inputs still to be seen to.
LEMMA LeavingStep ==
    ASSUME LifecycleInv, cpc \in Leaving
    PROVE  /\ mapLock \in {"remove", "rollback"}
           /\ leaving \in Objects /\ leaving # None
           /\ \A i \in Elems(ctodo) : i \in Inputs /\ leaving \notin attached[i] /\ i \notin fresh \ resAdded
  <1> USE DEF LifecycleInv
  <1>1. mapLock \in {"remove", "rollback"}
    BY DEF LockNow, CallTypes, Leaving
  <1>2. Elems(ctodo) \subseteq Inputs
    BY ListElems DEF CallTypes
  <1>3. CASE mapLock = "remove"
    <2>1. leaving \in reg /\ leaving \in Objects /\ leaving # None
      BY <1>3, LeavingFacts
    <2>2. cpc \notin Stopping
      BY DEF Leaving, Stopping
    <2>3. \A i \in Elems(ctodo) : i \in Elems(streams[leaving]) /\ leaving \notin attached[i]
      BY <1>2, <1>3, <2>2 DEF LockNow
    <2>4. \A i \in Elems(ctodo) : i \in fresh => i \in resAdded
      BY <2>1, <2>3 DEF FreshOwn
    <2> QED
      BY <1>1, <1>2, <2>1, <2>3, <2>4
  <1>4. CASE mapLock = "rollback"
    <2>1. /\ lpc = "rb_detach" /\ leaving = loading
          /\ Elems(ctodo) \cap (fresh \cup Elems(todo)) = {}
      BY <1>4 DEF LockNow
    <2>2. leaving \in Objects /\ leaving # None
      BY <2>1, ObjectFacts DEF LoadingNow
    <2>3. \A i \in Elems(ctodo) : leaving \notin attached[i] /\ i \notin fresh
      BY <1>2, <2>1 DEF UndoingNow, Undoing
    <2> QED
      BY <1>1, <1>2, <2>2, <2>3
  <1> QED
    BY <1>1, <1>3, <1>4

\* When no ordinary policy is on an input, its resources policy is alone on it.
LEMMA OnlyResourcesLeft ==
    ASSUME LifecycleInv, NEW i \in Inputs, i \notin fresh \ resAdded,
           attached[i] # {}, attached[i] \cap Policies = {}
    PROVE  attached[i] = {Res(i)} /\ Res(i) \in reg
  <1> USE DEF LifecycleInv
  <1>1. ASSUME NEW o \in attached[i] PROVE o = Res(i) /\ o \in reg
    <2>1. o \in Objects /\ o \notin Policies /\ i \in Elems(streams[o])
      BY DEF AttachedType, AttachedBy
    <2>2. PICK j \in Inputs : o = Res(j)
      BY <2>1, ObjectFacts
    <2>3. o # loading
      BY <2>1, ObjectFacts DEF LoadingNow, IdleNow
    <2>4. lpc = "register_res" => Head(todo) \in made \ resAdded /\ Head(todo) \in fresh
      BY ListTail DEF RunningNow, Running, CallTypes
    <2>5. o \in reg
      BY <2>3, <2>4 DEF AttachedBy
    <2>6. i \in Elems(<<j>>)
      BY <2>1, <2>2, <2>5 DEF StreamsBy
    <2>7. Elems(<<j>>) = {j}
      BY OneList
    <2> QED
      BY <2>2, <2>5, <2>6, <2>7
  <1> QED
    BY <1>1

\* CountOne: one policy left and a resources policy found means it is that one.
LEMMA CountOneKeeps ==
    ASSUME LifecycleInv, CountOne
    PROVE  LifecycleInv'
  <1> USE DEF LifecycleInv
  <1> DEFINE i == Head(ctodo)
  <1>1. /\ cpc = "one" /\ cpc' \in {"res", "zero"} /\ ctodo # << >>
        /\ UNCHANGED <<reg, inputs, handlers, streams, started, irun, attached, hrun, dangling>>
        /\ UNCHANGED <<lpc, loading, todo, fresh, joined, made, resAdded>>
        /\ UNCHANGED <<mapLock, leaving, ctodo, cstop>>
    BY DEF CountOne, moduleVars, loadVars
  <1>2. /\ i \in Inputs /\ i \in Elems(ctodo) /\ leaving \notin attached[i]
        /\ i \notin fresh \ resAdded /\ leaving \in Objects
    BY <1>1, ListTail, LeavingStep DEF CallTypes, Leaving
  <1>3. /\ Exists(ResourcesName[i]) <=> Res(i) \in reg
        /\ Name(leaving) = ResourcesName[i] <=> leaving = Res(i)
    BY <1>2, NameFacts DEF ModuleTypes
  <1>4. IsFiniteSet(attached[i])
    BY <1>2 DEF AttachedType
  <1>5. cpc' = "res" => /\ Res(i) \in reg /\ Res(i) # leaving /\ attached[i] = {Res(i)}
    <2> SUFFICES ASSUME cpc' = "res" PROVE Res(i) \in reg /\ Res(i) # leaving /\ attached[i] = {Res(i)}
      OBVIOUS
    <2>1. Cardinality(attached[i]) = 1 /\ Res(i) \in reg /\ Res(i) # leaving
      BY <1>3 DEF CountOne
    <2>2. streams[Res(i)] = <<i>> /\ Elems(<<i>>) = {i}
      BY <1>2, <2>1, OneList DEF StreamsBy
    <2>3. Res(i) \in attached[i]
      BY <2>1, <2>2 DEF AllServed
    <2>4. PICK x : attached[i] = {x}
      BY <1>4, <2>1, AtMostOne
    <2> QED
      BY <2>1, <2>3, <2>4
  <1>6. cpc' = "zero" => attached[i] = {} \/ attached[i] \cap Policies # {}
    <2> SUFFICES ASSUME cpc' = "zero", attached[i] # {}, attached[i] \cap Policies = {} PROVE FALSE
      OBVIOUS
    <2>1. attached[i] = {Res(i)} /\ Res(i) \in reg
      BY <1>2, OnlyResourcesLeft
    <2>2. Cardinality(attached[i]) = 1
      BY <1>4, <2>1, AtMostOne
    <2>3. Name(leaving) # ResourcesName[i] /\ Exists(ResourcesName[i])
      BY <1>2, <1>3, <2>1
    <2> QED
      BY <2>2, <2>3 DEF CountOne
  <1>7. ModuleTypes' /\ AttachedType'
    BY <1>1 DEF ModuleTypes, AttachedType
  <1>8. CallTypes'
    BY <1>1 DEF CallTypes, Leaving
  <1>9. AllServed' /\ AttachedBy' /\ StartedBy' /\ HandlersBy' /\ StreamsBy'
    BY <1>1 DEF AllServed, AttachedBy, StartedBy, HandlersBy, StreamsBy, Pending
  <1>10. InputsUsed' /\ FreshOwn'
    BY <1>1 DEF InputsUsed, Unsettled, Stopping, FreshOwn
  <1>11. IdleNow' /\ LoadingNow' /\ JoinedNow' /\ FreshNow' /\ TapNow' /\ PendingNow'
    BY <1>1 DEF IdleNow, LoadingNow, JoinedNow, FreshNow, TapNow, PendingNow
  <1>12. HandlersNow' /\ StartingNow' /\ RunningNow' /\ UndoingNow'
    BY <1>1 DEF HandlersNow, StartingNow, RunningNow, UndoingNow
  <1>13. LockNow' /\ dangling' = {}
    BY <1>1 DEF LockNow, Stopping, Leaving
  <1>14. StepNow'
    BY <1>1, <1>5, <1>6 DEF StepNow
  <1> QED
    BY <1>7, <1>8, <1>9, <1>10, <1>11, <1>12, <1>13, <1>14, ConstantsKept

\* StopResourcesCheck: only the input of the resources policy may be stopped.
LEMMA StopResourcesCheckKeeps ==
    ASSUME LifecycleInv, StopResourcesCheck
    PROVE  LifecycleInv'
  <1> USE DEF LifecycleInv
  <1> DEFINE i == Head(ctodo)
  <1>1. /\ cpc = "res" /\ cpc' = "res_stop" /\ ctodo # << >>
        /\ UNCHANGED <<reg, inputs, handlers, streams, started, irun, attached, hrun, dangling>>
        /\ UNCHANGED <<lpc, loading, todo, fresh, joined, made, resAdded>>
        /\ UNCHANGED <<mapLock, leaving, ctodo>>
    BY DEF StopResourcesCheck, StepNow, moduleVars, loadVars
  <1>2. i \in Inputs /\ Res(i) \in reg
    BY <1>1, ListTail DEF CallTypes, StepNow
  <1>3. ResourcesPolicy(i) = Res(i) /\ streams[Res(i)] = <<i>>
    BY <1>2, NameFacts DEF ModuleTypes, StreamsBy
  <1>4. cstop' \subseteq {i}
    <2>1. cstop' \subseteq Elems(<<i>>)
      BY <1>3 DEF StopResourcesCheck, Stoppable
    <2> QED
      BY <1>2, <2>1, OneList
  <1>5. ModuleTypes' /\ AttachedType'
    BY <1>1 DEF ModuleTypes, AttachedType
  <1>6. CallTypes'
    BY <1>1 DEF CallTypes, Leaving
  <1>7. AllServed' /\ AttachedBy' /\ StartedBy' /\ HandlersBy' /\ StreamsBy'
    BY <1>1 DEF AllServed, AttachedBy, StartedBy, HandlersBy, StreamsBy, Pending
  <1>8. InputsUsed' /\ FreshOwn'
    BY <1>1 DEF InputsUsed, Unsettled, Stopping, FreshOwn
  <1>9. IdleNow' /\ LoadingNow' /\ JoinedNow' /\ FreshNow' /\ TapNow' /\ PendingNow'
    BY <1>1 DEF IdleNow, LoadingNow, JoinedNow, FreshNow, TapNow, PendingNow
  <1>10. HandlersNow' /\ StartingNow' /\ RunningNow' /\ UndoingNow'
    BY <1>1 DEF HandlersNow, StartingNow, RunningNow, UndoingNow
  <1>11. LockNow' /\ dangling' = {}
    BY <1>1 DEF LockNow, Stopping, Leaving
  <1>12. StepNow'
    BY <1>1, <1>4 DEF StepNow
  <1> QED
    BY <1>5, <1>6, <1>7, <1>8, <1>9, <1>10, <1>11, <1>12, ConstantsKept

\* RemoveResources: its handler is found, nothing is thrown, and nobody is left.
LEMMA RemoveResourcesKeeps ==
    ASSUME LifecycleInv, RemoveResources
    PROVE  LifecycleInv'
  <1> USE DEF LifecycleInv
  <1> DEFINE i == Head(ctodo)
             r == Res(i)
  <1>1. cpc = "res_stop" /\ ctodo # << >> /\ i \in Inputs /\ r \in reg /\ r # leaving
    BY ListTail DEF RemoveResources, StepNow, CallTypes
  <1>2. /\ ResourcesPolicy(i) = r /\ streams[r] = <<i>> /\ Elems(streams[r]) = {i}
        /\ r \in Objects /\ r \notin Policies /\ r # None
    BY <1>1, NameFacts, ObjectFacts, OneList DEF ModuleTypes, StreamsBy
  <1>3. <<r, i>> \in handlers
    BY <1>1, <1>2 DEF AllServed, ModuleTypes
  <1>4. /\ cpc' = "zero" /\ irun' = irun \ cstop
        /\ attached' = [j \in Inputs |-> attached[j] \ {r}]
        /\ started' = started \ {r} /\ hrun' = hrun \ HandlersOf(r)
        /\ handlers' = handlers \ {<<r, i>>} /\ reg' = reg \ {r}
        /\ streams' = [streams EXCEPT ![r] = << >>]
        /\ UNCHANGED <<inputs, dangling, lpc, loading, todo, fresh, joined, made, resAdded>>
        /\ UNCHANGED <<mapLock, leaving, ctodo, cstop>>
    BY <1>2, <1>3 DEF RemoveResources, loadVars
  <1>5. /\ HandlersOf(r) = {<<r, i>>} /\ hrun' = hrun \ {<<r, i>>}
        /\ \A j \in Inputs : <<r, j>> \notin handlers'
    <2>1. HandlersOf(r) = {<<r, i>>}
      BY <1>2 DEF HandlersOf
    <2>2. \A j \in Inputs : <<r, j>> \in handlers => j = i
      BY <1>2 DEF HandlersBy
    <2> QED
      BY <1>4, <2>1, <2>2
  <1>6. /\ \A o \in Objects : o # r => streams'[o] = streams[o]
        /\ streams'[r] = << >> /\ streams' \in [Objects -> Lists]
    BY <1>2, <1>4, EmptyList DEF ModuleTypes
  <1>7. \A o \in Pending : o \notin reg /\ o # r
    BY <1>1, FreshUnregistered DEF Pending, CallTypes
  <1>8. loading # r
    BY <1>2, ObjectFacts DEF LoadingNow, IdleNow
  <1>9. \A j \in Inputs : attached'[j] = attached[j] \ {r}
    BY <1>4
  <1>10. \A j \in Inputs, o \in Objects : o # r /\ o \in attached[j] => j \notin cstop
    BY <1>1 DEF StepNow
  <1>11. Pending' = Pending
    BY <1>4 DEF Pending
  <1>12. leaving \in Objects /\ mapLock \in {"remove", "rollback"}
    BY <1>1, LeavingStep DEF Leaving
  <1>13. ModuleTypes'
    BY <1>4, <1>5, <1>6 DEF ModuleTypes
  <1>14. AttachedType'
    <2>1. \A j \in Inputs : IsFiniteSet(attached[j] \ {r})
      BY FiniteFacts DEF AttachedType
    <2> QED
      BY <1>4, <1>9, <2>1 DEF AttachedType
  <1>15. CallTypes'
    BY <1>4 DEF CallTypes, Leaving
  <1>16. AllServed'
    <2> SUFFICES ASSUME NEW o \in reg, o # r, o # leaving
                 PROVE  /\ o \in started'
                        /\ \A j \in Elems(streams[o]) :
                              <<o, j>> \in hrun' /\ j \in irun' /\ o \in attached'[j]
      BY <1>4, <1>6 DEF AllServed, ModuleTypes
    <2>1. o \in Objects /\ o \in started /\ Elems(streams[o]) \subseteq Inputs
      BY ListElems DEF AllServed, ModuleTypes
    <2>2. \A j \in Elems(streams[o]) : <<o, j>> \in hrun /\ j \in irun /\ o \in attached[j]
      BY DEF AllServed
    <2> QED
      BY <1>4, <1>5, <1>9, <1>10, <2>1, <2>2
  <1>17. AttachedBy'
    <2>1. \A j \in Inputs : \A o \in attached'[j] : o \in attached[j] /\ o # r /\ o \in Objects
      BY <1>9 DEF AttachedType
    <2> QED
      BY <1>4, <1>6, <2>1 DEF AttachedBy
  <1>18. StartedBy'
    BY <1>4 DEF StartedBy
  <1>19. HandlersBy'
    BY <1>4, <1>5, <1>6, <1>11 DEF HandlersBy
  <1>20. StreamsBy'
    BY <1>4, <1>6, <1>7, <1>11, ObjectFacts DEF StreamsBy
  <1>21. InputsUsed'
    <2>1. \A j \in Inputs : attached'[j] \cap Policies = attached[j] \cap Policies
      BY <1>2, <1>9
    <2> QED
      BY <1>1, <1>4, <2>1 DEF InputsUsed, Unsettled, Stopping, ModuleTypes
  <1>22. FreshOwn'
    BY <1>4, <1>6 DEF FreshOwn, ModuleTypes
  <1>23. IdleNow' /\ LoadingNow' /\ FreshNow' /\ TapNow'
    BY <1>4 DEF IdleNow, LoadingNow, FreshNow, TapNow
  <1>24. lpc \in Adding => loading \in Objects /\ Elems(joined) \subseteq Inputs
    BY LoadingFacts, ListElems DEF Adding, CallTypes
  <1>25. JoinedNow'
    BY <1>4, <1>6, <1>8, <1>9, <1>24 DEF JoinedNow
  <1>26. PendingNow'
    BY <1>4, <1>5, <1>7 DEF PendingNow, Pending
  <1>27. HandlersNow'
    BY <1>4, <1>5, <1>8 DEF HandlersNow
  <1>28. lpc \in Adding => \A j \in Elems(joined) : j \notin cstop
    BY <1>8, <1>10, <1>24 DEF JoinedNow
  <1>29. StartingNow'
    BY <1>4, <1>28 DEF StartingNow, Adding
  <1>30. RunningNow'
    <2>1. lpc = "register_res" => Res(Head(todo)) # r /\ Head(todo) \in Inputs
      <3>1. lpc = "register_res" => Head(todo) \in made \ resAdded /\ Head(todo) \in Inputs
        BY ListTail DEF RunningNow, Running, CallTypes
      <3> QED
        BY <1>7, <3>1 DEF Pending
    <2> QED
      BY <1>4, <1>8, <1>9, <1>28, <2>1 DEF RunningNow, Running, Adding
  <1>31. UndoingNow'
    BY <1>4, <1>5, <1>9 DEF UndoingNow
  <1>32. LockNow' /\ dangling' = {}
    BY <1>1, <1>4, <1>5, <1>6, <1>9, <1>12 DEF LockNow, Stopping, Leaving
  <1>33. StepNow'
    BY <1>1, <1>4, <1>9 DEF StepNow
  <1> QED
    BY <1>13, <1>14, <1>15, <1>16, <1>17, <1>18, <1>19, <1>20, <1>21, <1>22, <1>23, <1>25, <1>26,
       <1>27, <1>29, <1>30, <1>31, <1>32, <1>33, ConstantsKept

\* CountZero: the input stays if anybody is on it.
LEMMA CountZeroKeeps ==
    ASSUME LifecycleInv, CountZero
    PROVE  LifecycleInv'
  <1> USE DEF LifecycleInv
  <1> DEFINE i == Head(ctodo)
  <1>1. /\ cpc = "zero" /\ ctodo # << >>
        /\ \/ attached[i] = {} /\ cpc' = "free" /\ ctodo' = ctodo
           \/ attached[i] # {} /\ cpc' = "one" /\ ctodo' = Tail(ctodo)
        /\ UNCHANGED <<reg, inputs, handlers, streams, started, irun, attached, hrun, dangling>>
        /\ UNCHANGED <<lpc, loading, todo, fresh, joined, made, resAdded>>
        /\ UNCHANGED <<mapLock, leaving, cstop>>
    BY DEF CountZero, StepNow, moduleVars, loadVars
  <1>2. /\ i \in Inputs /\ ctodo' \in Lists /\ Elems(ctodo') \subseteq Elems(ctodo)
        /\ \A j \in Elems(ctodo) : (j = i /\ attached[i] # {}) \/ j \in Elems(ctodo')
    BY <1>1, ListTail DEF CallTypes
  <1>3. ModuleTypes' /\ AttachedType'
    BY <1>1 DEF ModuleTypes, AttachedType
  <1>4. CallTypes'
    BY <1>1, <1>2 DEF CallTypes, Leaving
  <1>5. AllServed' /\ AttachedBy' /\ StartedBy' /\ HandlersBy' /\ StreamsBy' /\ FreshOwn'
    BY <1>1 DEF AllServed, AttachedBy, StartedBy, HandlersBy, StreamsBy, Pending, FreshOwn
  <1>6. InputsUsed'
    <2>1. Unsettled = Elems(ctodo) /\ Unsettled' = Elems(ctodo')
      BY <1>1 DEF Unsettled, Stopping
    <2>2. attached[i] # {} => attached[i] \cap Policies # {}
      BY <1>1 DEF StepNow
    <2> QED
      BY <1>1, <1>2, <2>1, <2>2 DEF InputsUsed
  <1>7. IdleNow' /\ LoadingNow' /\ JoinedNow' /\ FreshNow' /\ TapNow' /\ PendingNow'
    BY <1>1 DEF IdleNow, LoadingNow, JoinedNow, FreshNow, TapNow, PendingNow
  <1>8. HandlersNow' /\ StartingNow' /\ RunningNow' /\ UndoingNow'
    BY <1>1 DEF HandlersNow, StartingNow, RunningNow, UndoingNow
  <1>9. LockNow' /\ dangling' = {}
    BY <1>1, <1>2 DEF LockNow, Stopping, Leaving, CallTypes
  <1>10. StepNow'
    BY <1>1 DEF StepNow
  <1> QED
    BY <1>3, <1>4, <1>5, <1>6, <1>7, <1>8, <1>9, <1>10, ConstantsKept

\* An input that is removed has no running handler and no user.
LEMMA NobodyOnInput ==
    ASSUME LifecycleInv, cpc = "free"
    PROVE  LET i == Head(ctodo)
           IN  /\ ctodo # << >> /\ i \in Inputs /\ i \in Elems(ctodo) /\ attached[i] = {}
               /\ \A o \in Objects : <<o, i>> \notin hrun
               /\ Users(i) = {}
  <1> USE DEF LifecycleInv
  <1> DEFINE i == Head(ctodo)
  <1>1. /\ ctodo # << >> /\ i \in Inputs /\ i \in Elems(ctodo) /\ attached[i] = {}
    BY ListTail DEF StepNow, CallTypes
  <1>2. /\ i \notin fresh \ resAdded /\ leaving \in Objects
        /\ mapLock \in {"remove", "rollback"}
    BY <1>1, LeavingStep DEF Leaving
  <1>3. \A o \in reg : i \in Elems(streams[o]) => o = leaving
    BY <1>1 DEF AllServed
  <1>4. lpc \in Adding => i \notin Elems(streams[loading])
    BY <1>1 DEF JoinedNow
  <1>5. \A o \in Pending : i \notin Elems(streams[o])
    <2> SUFFICES ASSUME NEW j \in made \ resAdded, i \in Elems(streams[Res(j)]) PROVE FALSE
      BY DEF Pending
    <2>1. j \in Inputs /\ j \in fresh /\ streams[Res(j)] = <<j>>
      BY DEF StreamsBy, Pending, CallTypes
    <2>2. i \in Elems(<<j>>)
      BY <2>1
    <2>3. i = j
      BY <2>1, <2>2, OneList
    <2> QED
      BY <1>2, <2>1, <2>3
  <1>6. ASSUME NEW o \in Objects, <<o, i>> \in hrun PROVE FALSE
    <2>1. i \in Elems(streams[o]) /\ o \in reg \cup {loading} \cup Pending
      BY <1>1, <1>6 DEF HandlersBy, ModuleTypes
    <2>2. CASE o \in reg
      <3>1. o = leaving
        BY <1>3, <2>1, <2>2
      <3>2. mapLock = "remove"
        BY <1>2, <2>2, <3>1 DEF LockNow, LoadingNow
      <3> QED
        BY <1>1, <1>6, <3>1, <3>2 DEF LockNow, Stopping
    <2>3. CASE o = loading
      <3>1. lpc # "idle"
        BY <2>3, ObjectFacts DEF IdleNow
      <3>2. lpc \notin Undoing
        BY <1>1, <1>6, <2>3 DEF UndoingNow
      <3> QED
        BY <1>4, <2>1, <2>3, <3>1, <3>2 DEF CallTypes
    <2> QED
      BY <1>5, <2>1, <2>2, <2>3
  <1>7. ASSUME NEW o \in Users(i) PROVE FALSE
    <2>1. /\ o \in reg \cup ({loading} \ {None}) \cup {Res(j) : j \in made}
          /\ i \in Elems(streams[o]) /\ o # leaving
      BY DEF Users
    <2>2. o \notin reg
      BY <1>3, <2>1
    <2>3. ASSUME o = loading PROVE FALSE
      <3>1. lpc \in Adding \/ (lpc \in {"rb_stop", "rb_stop_input"} /\ i \in Elems(todo))
        BY <2>3 DEF Users, CallTypes, Adding, Undoing
      <3>2. lpc # "rb_stop_input"
        BY DEF CallTypes, Adding, Undoing
      <3>3. lpc = "rb_stop" => Elems(todo) = {}
        BY EmptyList DEF UndoingNow, Undoing
      <3> QED
        BY <1>4, <2>1, <2>3, <3>1, <3>2, <3>3
    <2>4. PICK j \in made : o = Res(j)
      BY <2>1, <2>2, <2>3
    <2>5. o \in Objects
      BY <2>4, ObjectFacts DEF CallTypes
    <2>6. o \notin Pending
      BY <1>5, <2>1
    <2>7. streams[o] = << >>
      BY <2>2, <2>3, <2>5, <2>6 DEF StreamsBy
    <2> QED
      BY <2>1, <2>7, EmptyList
  <1> QED
    BY <1>1, <1>6, <1>7

\* RemoveInput: nothing is thrown, and no pointer dangles.
LEMMA RemoveInputKeeps ==
    ASSUME LifecycleInv, RemoveInput
    PROVE  LifecycleInv'
  <1> USE DEF LifecycleInv
  <1> DEFINE i == Head(ctodo)
  <1>1. cpc = "free"
    BY DEF RemoveInput
  <1>2. /\ ctodo # << >> /\ i \in Inputs /\ i \in Elems(ctodo) /\ attached[i] = {}
        /\ ConsumerCount(i) = 0 /\ Users(i) = {}
    BY <1>1, NobodyOnInput, NoConsumers
  <1>3. /\ cpc' = "one" /\ ctodo' = Tail(ctodo)
        /\ inputs' = inputs \ {i} /\ irun' = irun \ {i} /\ dangling' = {}
        /\ attached' = [j \in Inputs |-> IF j \in {i} THEN {} ELSE attached[j]]
        /\ UNCHANGED <<reg, handlers, streams, started, hrun>>
        /\ UNCHANGED <<lpc, loading, todo, fresh, joined, made, resAdded>>
        /\ UNCHANGED <<mapLock, leaving, cstop>>
    BY <1>2 DEF RemoveInput, Destroy, loadVars
  <1>4. attached' = attached
    BY <1>2, <1>3 DEF AttachedType
  <1>5. ctodo' \in Lists /\ Elems(ctodo') = Elems(ctodo) \ {i}
    BY <1>2, <1>3, ListTail DEF CallTypes
  <1>6. \A j \in Inputs, o \in Objects : o \in attached[j] => j # i
    BY <1>2
  <1>7. ModuleTypes' /\ AttachedType'
    BY <1>3, <1>4 DEF ModuleTypes, AttachedType
  <1>8. CallTypes'
    BY <1>3, <1>5 DEF CallTypes, Leaving
  <1>9. AllServed'
    BY <1>2, <1>3, <1>4 DEF AllServed
  <1>10. AttachedBy'
    BY <1>2, <1>3, <1>4 DEF AttachedBy
  <1>11. StartedBy' /\ HandlersBy' /\ StreamsBy' /\ FreshOwn'
    BY <1>3 DEF StartedBy, HandlersBy, StreamsBy, Pending, FreshOwn
  <1>12. InputsUsed'
    <2>1. Unsettled = Elems(ctodo) /\ Unsettled' = Elems(ctodo')
      BY <1>1, <1>3 DEF Unsettled, Stopping
    <2> QED
      BY <1>3, <1>4, <1>5, <2>1 DEF InputsUsed
  <1>13. IdleNow' /\ LoadingNow' /\ JoinedNow' /\ FreshNow' /\ TapNow' /\ PendingNow' /\ HandlersNow'
    BY <1>3, <1>4 DEF IdleNow, LoadingNow, JoinedNow, FreshNow, TapNow, PendingNow, HandlersNow
  <1>14. lpc \in Adding => i \notin Elems(joined)
    BY <1>2 DEF JoinedNow
  <1>15. StartingNow'
    BY <1>3, <1>14 DEF StartingNow, Adding
  <1>16. RunningNow'
    BY <1>3, <1>4, <1>14 DEF RunningNow, Running, Adding
  <1>17. UndoingNow'
    BY <1>3, <1>4 DEF UndoingNow
  <1>18. LockNow' /\ StepNow'
    BY <1>1, <1>3, <1>4, <1>5 DEF LockNow, StepNow, Stopping, Leaving, CallTypes
  <1> QED
    BY <1>3, <1>7, <1>8, <1>9, <1>10, <1>11, <1>12, <1>13, <1>15, <1>16, <1>17, <1>18, ConstantsKept

\* Done: the policy object goes, and nothing of it is left.
LEMMA DoneKeeps ==
    ASSUME LifecycleInv, Done
    PROVE  LifecycleInv'
  <1> USE DEF LifecycleInv
  <1>1. /\ cpc = "one" /\ ctodo = << >> /\ Elems(ctodo) = {}
        /\ mapLock' = "free" /\ cpc' = "idle" /\ leaving' = None /\ ctodo' = << >>
        /\ UNCHANGED <<inputs, handlers, started, irun, attached, hrun, dangling>>
        /\ UNCHANGED <<lpc, loading, todo, fresh, joined, made, resAdded>>
    BY EmptyList DEF Done, Unlock, loadVars
  <1>2. leaving \in Objects /\ mapLock \in {"remove", "rollback"}
    BY <1>1, LeavingStep DEF Leaving
  <1>3. AttachedType' /\ IdleNow' /\ StartingNow' /\ RunningNow' /\ UndoingNow'
    BY <1>1 DEF AttachedType, IdleNow, StartingNow, RunningNow, UndoingNow
  <1>4. FreshNow' /\ TapNow' /\ PendingNow' /\ HandlersNow'
    BY <1>1 DEF FreshNow, TapNow, PendingNow, HandlersNow
  <1>5. CallTypes' /\ LockNow' /\ StepNow' /\ dangling' = {}
    BY <1>1 DEF CallTypes, LockNow, StepNow, Stopping, Leaving
  <1>6. InputsUsed'
    BY <1>1 DEF InputsUsed, Unsettled, Stopping
  <1>7. Pending' = Pending
    BY <1>1 DEF Pending
  <1>8. CASE mapLock = "remove"
    <2>1. /\ leaving \in reg /\ leaving # loading /\ leaving \notin Pending
          /\ leaving \notin started
          /\ \A i \in Inputs : leaving \notin attached[i] /\ <<leaving, i>> \notin handlers
      BY <1>1, <1>8, LeavingFacts DEF Pending, LockNow, Stopping, Leaving
    <2>2. reg' = reg \ {leaving} /\ streams' = [streams EXCEPT ![leaving] = << >>]
      BY <1>8 DEF Done
    <2>3. /\ streams'[leaving] = << >> /\ streams' \in [Objects -> Lists]
          /\ \A o \in Objects : o # leaving => streams'[o] = streams[o]
      BY <1>2, <2>2, EmptyList DEF ModuleTypes
    <2>4. ModuleTypes'
      BY <1>1, <2>2, <2>3 DEF ModuleTypes
    <2>5. AllServed'
      BY <1>1, <2>2, <2>3 DEF AllServed, ModuleTypes
    <2>6. AttachedBy' /\ StartedBy'
      <3>1. \A i \in Inputs : \A o \in attached[i] : o \in Objects /\ o # leaving
        <4>1. \A i \in Inputs : attached[i] \subseteq Objects
          BY DEF AttachedType
        <4> QED
          BY <2>1, <4>1
      <3>2. AttachedBy'
        BY <1>1, <2>2, <2>3, <3>1 DEF AttachedBy
      <3>3. StartedBy'
        BY <1>1, <2>1, <2>2 DEF StartedBy
      <3> QED
        BY <3>2, <3>3
    <2>7. HandlersBy'
      BY <1>1, <1>7, <2>1, <2>2, <2>3 DEF HandlersBy
    <2>8. StreamsBy'
      BY <1>1, <1>7, <2>1, <2>2, <2>3, ObjectFacts DEF StreamsBy
    <2>9. FreshOwn' /\ LoadingNow'
      BY <1>1, <2>2, <2>3 DEF FreshOwn, LoadingNow, ModuleTypes
    <2>10. JoinedNow'
      BY <1>1, <2>1, <2>3, LoadingFacts DEF JoinedNow, Adding
    <2> QED
      BY <1>3, <1>4, <1>5, <1>6, <2>4, <2>5, <2>6, <2>7, <2>8, <2>9, <2>10, ConstantsKept
  <1>9. CASE mapLock = "rollback"
    <2>1. UNCHANGED <<reg, streams>>
      BY <1>9 DEF Done
    <2>2. leaving = loading /\ lpc = "rb_detach" /\ loading \notin reg
      BY <1>9 DEF LockNow, LoadingNow
    <2>3. ModuleTypes' /\ LoadingNow' /\ JoinedNow'
      BY <1>1, <2>1 DEF ModuleTypes, LoadingNow, JoinedNow
    <2>4. AllServed'
      BY <1>1, <2>1, <2>2 DEF AllServed
    <2>5. AttachedBy' /\ StartedBy' /\ HandlersBy' /\ StreamsBy' /\ FreshOwn'
      BY <1>1, <1>7, <2>1 DEF AttachedBy, StartedBy, HandlersBy, StreamsBy, FreshOwn
    <2> QED
      BY <1>3, <1>4, <1>5, <1>6, <2>3, <2>4, <2>5, ConstantsKept
  <1> QED
    BY <1>2, <1>8, <1>9

-----------------------------------------------------------------------------
(* All steps, and what follows from the invariant *)

\* The agent starts with no policy.
LEMMA LifecycleInit ==
    ASSUME NamesApart, FiniteLaws, Init
    PROVE  LifecycleInv
  <1> USE EmptyList DEF Init
  <1>1. ModuleTypes
    BY DEF ModuleTypes
  <1>2. AttachedType
    BY FiniteFacts DEF AttachedType
  <1>3. CallTypes
    BY DEF CallTypes
  <1>4. Pending = {}
    BY DEF Pending
  <1>5. AllServed /\ AttachedBy /\ StartedBy /\ HandlersBy /\ InputsUsed /\ FreshOwn
    BY DEF AllServed, AttachedBy, StartedBy, HandlersBy, InputsUsed, FreshOwn
  <1>6. StreamsBy
    BY <1>4 DEF StreamsBy
  <1>7. IdleNow /\ LoadingNow /\ JoinedNow /\ FreshNow /\ TapNow /\ PendingNow
    BY DEF IdleNow, LoadingNow, JoinedNow, FreshNow, TapNow, PendingNow, Adding, Running
  <1>8. HandlersNow /\ StartingNow /\ RunningNow /\ UndoingNow
    BY DEF HandlersNow, StartingNow, RunningNow, UndoingNow, Adding, Running, Undoing
  <1>9. LockNow /\ StepNow /\ dangling = {}
    BY DEF LockNow, StepNow
  <1> QED
    BY <1>1, <1>2, <1>3, <1>5, <1>6, <1>7, <1>8, <1>9 DEF LifecycleInv

\* Every step of load() and its rollback.
LEMMA LoadStepKeeps ==
    ASSUME LifecycleInv, mapLock # "remove", LoadStep
    PROVE  LifecycleInv'
  <1>1. /\ ~RollbackStopInput /\ ~RollbackResourcesRemove
        /\ ~UndoResourcesCheck /\ ~UndoResources
    BY DEF LifecycleInv, CallTypes, Adding, Undoing, RollbackStopInput, RollbackResourcesRemove,
           UndoResourcesCheck, UndoResources
  <1> QED
    BY <1>1, TapKeeps, AttachKeeps, CreateResourcesKeeps, StartHandlersKeeps, StartInputKeeps,
       StartResourcesKeeps, RegisterResourcesKeeps, RegisterKeeps, RollbackStopKeeps,
       RollbackDetachKeeps, RollbackDetachedKeeps, RollbackHandlersKeeps, RollbackInputsKeeps
    DEF LoadStep

\* Every step under the map lock.
LEMMA LockedStepKeeps ==
    ASSUME LifecycleInv, LockedStep
    PROVE  LifecycleInv'
  BY StopCheckKeeps, StopInputKeeps, RemoveHandlersKeeps, CountOneKeeps, StopResourcesCheckKeeps,
     RemoveResourcesKeeps, CountZeroKeeps, RemoveInputKeeps, DoneKeeps DEF LockedStep

\* A step that changes nothing.
LEMMA StutterKeeps ==
    ASSUME LifecycleInv, UNCHANGED vars
    PROVE  LifecycleInv'
  <1> USE DEF LifecycleInv
  <1>1. /\ UNCHANGED <<reg, inputs, handlers, streams, started, irun, attached, hrun, dangling>>
        /\ UNCHANGED <<lpc, loading, todo, fresh, joined, made, resAdded>>
        /\ UNCHANGED <<mapLock, cpc, leaving, ctodo, cstop>>
    BY DEF vars, moduleVars, loadVars, lockVars
  <1>2. ModuleTypes' /\ AttachedType' /\ CallTypes'
    BY <1>1 DEF ModuleTypes, AttachedType, CallTypes
  <1>3. AllServed' /\ AttachedBy' /\ StartedBy' /\ HandlersBy' /\ StreamsBy'
    BY <1>1 DEF AllServed, AttachedBy, StartedBy, HandlersBy, StreamsBy, Pending
  <1>4. InputsUsed' /\ FreshOwn'
    BY <1>1 DEF InputsUsed, Unsettled, FreshOwn
  <1>5. IdleNow' /\ LoadingNow' /\ JoinedNow' /\ FreshNow' /\ TapNow' /\ PendingNow'
    BY <1>1 DEF IdleNow, LoadingNow, JoinedNow, FreshNow, TapNow, PendingNow
  <1>6. HandlersNow' /\ StartingNow' /\ RunningNow' /\ UndoingNow'
    BY <1>1 DEF HandlersNow, StartingNow, RunningNow, UndoingNow
  <1>7. LockNow' /\ StepNow' /\ dangling' = {}
    BY <1>1 DEF LockNow, StepNow
  <1> QED
    BY <1>2, <1>3, <1>4, <1>5, <1>6, <1>7, ConstantsKept

\* Every step.
LEMMA CalmStepKeeps ==
    ASSUME LifecycleInv, [CalmNext]_vars
    PROVE  LifecycleInv'
  BY LoadKeeps, LoadStepKeeps, RemovePolicyKeeps, LockedStepKeeps, StutterKeeps DEF CalmNext

\* Between requests the exceptions of the invariant are all empty.
LEMMA NothingLeakedAtRest ==
    LifecycleInv => NothingLeaked
  <1> SUFFICES ASSUME LifecycleInv, AtRest PROVE
           /\ \A i \in inputs : attached[i] \cap Policies # {}
           /\ \A i \in Inputs, o \in Objects : o \in attached[i] => o \in reg /\ i \in Elems(streams[o])
           /\ started \subseteq reg
           /\ \A h \in handlers : h[1] \in reg /\ h \in HandlersOf(h[1])
    BY DEF NothingLeaked
  <1> USE DEF LifecycleInv
  <1>1. /\ lpc = "idle" /\ loading = None /\ fresh = {} /\ Pending = {}
        /\ cpc = "idle" /\ ctodo = << >> /\ Elems(ctodo) = {}
    BY EmptyList DEF AtRest, IdleNow, LockNow, Pending
  <1>2. \A i \in inputs : attached[i] \cap Policies # {}
    BY <1>1 DEF InputsUsed, Unsettled, Stopping
  <1>3. \A i \in Inputs, o \in Objects : o \in attached[i] => o \in reg /\ i \in Elems(streams[o])
    BY <1>1, ObjectFacts DEF AttachedBy
  <1>4. started \subseteq reg
    BY <1>1, ObjectFacts DEF StartedBy, ModuleTypes, Running
  <1>5. ASSUME NEW h \in handlers PROVE h[1] \in reg /\ h \in HandlersOf(h[1])
    <2>1. PICK o \in Objects, i \in Inputs : h = <<o, i>>
      BY HandlerIsPair
    <2>2. o \in reg /\ i \in Elems(streams[o])
      BY <1>1, <1>5, <2>1, ObjectFacts DEF HandlersBy
    <2> QED
      BY <2>1, <2>2 DEF HandlersOf
  <1> QED
    BY <1>2, <1>3, <1>4, <1>5

\* Between requests no policy is being removed.
LEMMA ServedAtRest ==
    LifecycleInv => PoliciesServed
  <1> SUFFICES ASSUME LifecycleInv, AtRest, NEW o \in reg
               PROVE  /\ o \in started
                      /\ HandlersOf(o) \subseteq handlers \cap hrun
                      /\ \A i \in Elems(streams[o]) : i \in inputs \cap irun /\ o \in attached[i]
    BY DEF PoliciesServed
  <1> USE DEF LifecycleInv
  <1>1. o \in reg \ {leaving}
    BY ObjectFacts DEF AtRest, LockNow, ModuleTypes
  <1>2. /\ o \in started
        /\ \A i \in Elems(streams[o]) : <<o, i>> \in hrun /\ i \in irun /\ o \in attached[i]
    BY <1>1 DEF AllServed
  <1>3. HandlersOf(o) \subseteq hrun
    BY <1>2 DEF HandlersOf
  <1>4. hrun \subseteq handlers /\ irun \subseteq inputs
    BY DEF ModuleTypes
  <1> QED
    BY <1>2, <1>3, <1>4

\* While a resources policy is removed, an ordinary policy stays on its input.
LEMMA ResourcesRemovalKeepsInput ==
    ASSUME LifecycleInv, LeavingResourcesNow, [CalmNext]_vars
    PROVE  LeavingResourcesNow'
  <1> SUFFICES ASSUME mapLock' = "remove", NEW i \in Inputs, leaving' = Res(i)
               PROVE  attached'[i] \cap Policies # {}
    BY DEF LeavingResourcesNow
  <1> USE DEF LifecycleInv
  <1>1. ASSUME NEW o \in Objects, RemovePolicy(o) PROVE attached'[i] \cap Policies # {}
    <2>1. /\ mapLock = "free" /\ leaving = None /\ cpc = "idle" /\ Elems(ctodo) = {}
          /\ Res(i) \in reg /\ attached' = attached
      BY <1>1, EmptyList DEF RemovePolicy, LockNow, moduleVars
    <2>2. streams[Res(i)] = <<i>> /\ Elems(<<i>>) = {i}
      BY <2>1, OneList DEF StreamsBy
    <2>3. Res(i) \in reg \ {leaving} /\ i \in Elems(streams[Res(i)])
      BY <2>1, <2>2, ObjectFacts
    <2>4. i \in inputs
      BY <2>3 DEF AllServed, ModuleTypes
    <2>5. CASE i \in fresh
      <3>1. i \in resAdded
        BY <2>1, <2>3, <2>5 DEF FreshOwn
      <3>2. lpc \in Running /\ lpc \in Adding
        BY <2>5, <3>1 DEF CallTypes, IdleNow, UndoingNow, PendingNow, Running, Adding
      <3>3. i \in Elems(joined)
        BY <2>5, <3>2 DEF FreshNow, Running
      <3> QED
        BY <2>1, <3>2, <3>3, LoadingFacts DEF JoinedNow, Adding
    <2>6. CASE i \notin fresh
      BY <2>1, <2>4, <2>6 DEF InputsUsed, Unsettled, Stopping
    <2> QED
      BY <2>5, <2>6
  <1>2. ASSUME NEW p \in Policies, Load(p) PROVE FALSE
    BY <1>2 DEF Load, lockVars
  <1>3. ASSUME mapLock # "remove", LoadStep PROVE FALSE
    <2>1. mapLock' # "remove"
      BY <1>3 DEF LoadStep, Tap, Attach, CreateResources, StartHandlers, StartInput, StartResources,
                  RegisterResources, UndoResourcesCheck, UndoResources, Register,
                  RollbackStopCheck, RollbackStopInput, RollbackDetach, RollbackDetached, RollbackResourcesStop, RollbackResourcesRemove,
                  RollbackHandlers, RollbackInputs, LoadEnds, lockVars
    <2> QED
      BY <2>1
  <1>4. ASSUME LockedStep PROVE attached'[i] \cap Policies # {}
    <2>1. /\ mapLock = "remove" /\ leaving = Res(i)
          /\ \/ UNCHANGED attached
             \/ StopInput
             \/ RemoveResources
             \/ RemoveInput
      BY <1>4 DEF LockedStep, StopCheck, StopInput, RemoveHandlers, CountOne, StopResourcesCheck,
                  RemoveResources, CountZero, RemoveInput, Done, Unlock, Throw, moduleVars
    <2>2. attached[i] \cap Policies # {}
      BY <2>1 DEF LeavingResourcesNow
    <2>3. CASE StopInput
      <3>1. attached'[i] = attached[i] \/ attached'[i] = attached[i] \ {Res(i)}
        BY <2>1, <2>3 DEF StopInput, AttachedType
      <3> QED
        BY <2>2, <3>1, ObjectFacts
    <2>4. CASE RemoveResources
      <3>1. Head(ctodo) \in Inputs /\ Res(Head(ctodo)) \in reg
        BY <2>4, ListTail DEF RemoveResources, StepNow, CallTypes
      <3>2. ResourcesPolicy(Head(ctodo)) = Res(Head(ctodo)) /\ Res(Head(ctodo)) \notin Policies
        BY <3>1, NameFacts, ObjectFacts DEF ModuleTypes
      <3>3. attached'[i] = attached[i] \ {Res(Head(ctodo))}
        BY <2>4, <3>2 DEF RemoveResources
      <3> QED
        BY <2>2, <3>2, <3>3
    <2>5. CASE RemoveInput
      <3>1. attached[Head(ctodo)] = {}
        BY <2>5, NobodyOnInput DEF RemoveInput
      <3>2. attached'[i] = attached[i] \/ i = Head(ctodo)
        BY <2>5 DEF RemoveInput, Destroy
      <3> QED
        BY <2>2, <3>1, <3>2
    <2> QED
      BY <2>1, <2>2, <2>3, <2>4, <2>5
  <1>5. CASE UNCHANGED vars
    BY <1>5 DEF LeavingResourcesNow, vars, moduleVars, lockVars
  <1> QED
    BY <1>1, <1>2, <1>3, <1>4, <1>5 DEF CalmNext

\* A registered resources policy has its input.
LEMMA ResourcesOnInput ==
    LifecycleInv /\ LeavingResourcesNow => ResourcesHaveInput
  <1> SUFFICES ASSUME LifecycleInv, LeavingResourcesNow, NEW i \in Inputs, Res(i) \in reg
               PROVE  i \in inputs
    BY DEF ResourcesHaveInput
  <1> USE DEF LifecycleInv
  <1>1. CASE leaving = Res(i)
    <2>1. mapLock = "remove"
      BY <1>1, ObjectFacts DEF LockNow, LoadingNow, CallTypes
    <2> QED
      BY <1>1, <2>1 DEF LeavingResourcesNow, AttachedBy
  <1>2. CASE leaving # Res(i)
    <2>1. streams[Res(i)] = <<i>> /\ Elems(<<i>>) = {i}
      BY OneList DEF StreamsBy
    <2>2. i \in irun
      BY <1>2, <2>1 DEF AllServed
    <2> QED
      BY <2>2 DEF ModuleTypes
  <1> QED
    BY <1>1, <1>2

\* A step that stops an ordinary policy is one of its own removal or rollback.
LEMMA StopsOnlyItself ==
    ASSUME LifecycleInv, [CalmNext]_vars
    PROVE  [\A p \in Policies : p \in started /\ p \notin started' => p \in {leaving, loading}]_vars
  <1> SUFFICES ASSUME LifecycleInv, CalmNext, NEW p \in Policies, p \in started, p \notin started'
               PROVE  p \in {leaving, loading}
    OBVIOUS
  <1>1. ASSUME LoadStep PROVE p = loading
    <2>1. ~RollbackResourcesStop
      <3>1. lpc = "rb_resources" => todo = << >>
        BY DEF LifecycleInv, UndoingNow, Undoing
      <3> QED
        BY <3>1 DEF RollbackResourcesStop
    <2>2. ~UndoResources
      BY DEF UndoResources, LifecycleInv, CallTypes, Adding, Undoing
    <2> QED
      BY <1>1, <2>1, <2>2
      DEF LoadStep, Tap, Attach, CreateResources, StartHandlers, StartInput, StartResources,
          RegisterResources, UndoResourcesCheck, Register, RollbackStopCheck, RollbackStopInput,
          RollbackDetach, RollbackDetached, RollbackResourcesRemove, RollbackHandlers, RollbackInputs, moduleVars
  <1>2. ASSUME LockedStep PROVE p = leaving
    <2>1. ~RemoveResources
      <3>1. RemoveResources => Head(ctodo) \in Inputs /\ Res(Head(ctodo)) \in reg
        BY ListTail DEF RemoveResources, LifecycleInv, StepNow, CallTypes
      <3>2. RemoveResources => ResourcesPolicy(Head(ctodo)) = Res(Head(ctodo))
        BY <3>1, NameFacts DEF LifecycleInv, ModuleTypes
      <3> QED
        BY <3>1, <3>2, ObjectFacts DEF RemoveResources
    <2> QED
      BY <1>2, <2>1
      DEF LockedStep, StopCheck, StopInput, RemoveHandlers, CountOne, StopResourcesCheck,
          CountZero, RemoveInput, Done, moduleVars
  <1>3. ASSUME \/ \E q \in Policies : Load(q)
               \/ \E o \in Objects : RemovePolicy(o)
        PROVE  FALSE
    BY <1>3 DEF Load, RemovePolicy, moduleVars
  <1> QED
    BY <1>1, <1>2, <1>3 DEF CalmNext

\* A step that removes an input finds no running handler on it.
LEMMA FreesOnlyUnused ==
    ASSUME LifecycleInv, [CalmNext]_vars
    PROVE  [\A i \in inputs \ inputs' : \A o \in Objects : <<o, i>> \notin hrun]_vars
  <1> SUFFICES ASSUME LifecycleInv, CalmNext, NEW i \in inputs, i \notin inputs', NEW o \in Objects
               PROVE  <<o, i>> \notin hrun
    OBVIOUS
  <1>1. CASE RollbackInputs
    <2>1. lpc = "rb_inputs" /\ i \in fresh
      BY <1>1 DEF RollbackInputs, Destroy
    <2> QED
      BY <2>1, NobodyOnFresh DEF LifecycleInv, ModuleTypes
  <1>2. CASE RemoveInput
    <2>1. cpc = "free" /\ i = Head(ctodo)
      BY <1>2 DEF RemoveInput, Destroy
    <2> QED
      BY <2>1, NobodyOnInput
  <1>3. ASSUME LoadStep, ~RollbackInputs PROVE FALSE
    BY <1>3
    DEF LoadStep, Tap, Attach, CreateResources, StartHandlers, StartInput, StartResources,
        RegisterResources, UndoResourcesCheck, UndoResources, Register, RollbackStopCheck,
        RollbackStopInput, RollbackDetach, RollbackDetached, RollbackResourcesStop, RollbackResourcesRemove, RollbackHandlers,
        moduleVars
  <1>4. ASSUME LockedStep, ~RemoveInput PROVE FALSE
    BY <1>4
    DEF LockedStep, StopCheck, StopInput, RemoveHandlers, CountOne, StopResourcesCheck,
        RemoveResources, CountZero, Done, moduleVars
  <1>5. ASSUME \/ \E q \in Policies : Load(q)
               \/ \E p \in Objects : RemovePolicy(p)
        PROVE  FALSE
    BY <1>5 DEF Load, RemovePolicy, moduleVars
  <1> QED
    BY <1>1, <1>2, <1>3, <1>4, <1>5 DEF CalmNext

-----------------------------------------------------------------------------
(* Finite sets and numbers: what FiniteLaws says holds *)
LOCAL INSTANCE FiniteSetTheorems

\* A nonempty set of naturals has a smallest element.
LEMMA SmallestNat ==
    ASSUME NEW T, T \subseteq Nat, T # {}
    PROVE  \E k \in T : \A j \in T : k <= j
  <1> DEFINE R == OpToRel(<, Nat)
  <1>1. \E x \in T : \A y \in T : ~(<<y, x>> \in R)
    <2> HIDE DEF R
    <2>1. IsWellFoundedOn(R, Nat)
      BY NatLessThanWellFounded DEF R
    <2> QED
      BY <2>1, WFMin
  <1>2. PICK x \in T : \A y \in T : ~(<<y, x>> \in R)
    BY <1>1
  <1>3. \A y \in T : ~(y < x)
    BY <1>2 DEF OpToRel
  <1> QED
    BY <1>3, SMT

\* What the steps use of the library.
LEMMA FiniteLawsHold == FiniteLaws
  <1>1. \A S, x : IsFiniteSet(S) => IsFiniteSet(S \cup {x}) /\ IsFiniteSet(S \ {x})
    BY FS_AddElement, FS_RemoveElement
  <1>2. \A S : IsFiniteSet(S) =>
           /\ Cardinality(S) \in Nat
           /\ Cardinality(S) = 0 => S = {}
           /\ Cardinality(S) = 1 <=> \E x : S = {x}
    <2> SUFFICES ASSUME NEW S, IsFiniteSet(S)
                 PROVE  /\ Cardinality(S) \in Nat
                        /\ Cardinality(S) = 0 => S = {}
                        /\ Cardinality(S) = 1 <=> \E x : S = {x}
      OBVIOUS
    <2>1. Cardinality(S) \in Nat
      BY FS_CardinalityType
    <2>2. Cardinality(S) = 0 => S = {}
      BY FS_EmptySet
    <2>3. Cardinality(S) = 1 <=> \E x : S = {x}
      BY FS_Singleton
    <2> QED
      BY <2>1, <2>2, <2>3
  <1>3. \A T \in SUBSET Nat : T # {} => \E k \in T : \A j \in T : k <= j
    BY SmallestNat
  <1>4. IsFiniteSet({}) /\ Cardinality({}) = 0
    BY FS_EmptySet
  <1> QED
    BY <1>1, <1>2, <1>3, <1>4, PTL DEF FiniteLaws

-----------------------------------------------------------------------------
(* The theorems *)

\* Every attempt of a TCP probe is counted once, as a success, a timeout or a
\* failure, before the next one begins, for every interval, timeout and time to
\* live, however late the loop runs timers and callbacks.
THEOREM AttemptsCountedOnce == AttemptSpec => []OutcomeOnce
  <1>1. AInv => OutcomeOnce
    BY AInvOutcome
  <1> QED
    BY <1>1, AInvInit, AInvNext, PTL DEF AttemptSpec

\* LifecycleInv holds at every step of every load, rollback and removal.
THEOREM LifecycleInductive ==
    ASSUME NamesApart
    PROVE  CalmSpec => []LifecycleInv
  <1>1. Init => LifecycleInv
    BY LifecycleInit, FiniteLawsHold
  <1>2. LifecycleInv /\ [CalmNext]_vars => LifecycleInv'
    BY CalmStepKeeps
  <1> QED
    BY <1>1, <1>2, PTL DEF CalmSpec

\* Once a load or a removal is over, however the load failed and whatever was
\* removed between its steps, no input, handler or policy object is left over
\* (PolicyManager::load with its rollback, remove_policy).
THEOREM RequestsLeakNothing ==
    ASSUME NamesApart
    PROVE  CalmSpec => []NothingLeaked
  BY LifecycleInductive, NothingLeakedAtRest, PTL

\* Between requests every registered policy runs with its handlers and inputs: no
\* rollback and no removal of another policy takes a shared input away from it.
THEOREM RegisteredPoliciesServed ==
    ASSUME NamesApart
    PROVE  CalmSpec => []PoliciesServed
  BY LifecycleInductive, ServedAtRest, PTL

\* No input or handler is destroyed while a policy that is loading or registered,
\* and not being removed, points to it, and no removal throws half way.
THEOREM NoPointerDangles ==
    ASSUME NamesApart
    PROVE  CalmSpec => []NoDanglingPointer
  <1>1. LifecycleInv => NoDanglingPointer
    BY DEF LifecycleInv, NoDanglingPointer
  <1> QED
    BY <1>1, LifecycleInductive, PTL

\* At no time, in the middle of a removal included, is a resources policy
\* registered whose input is gone (Policy::info_json follows the pointer).
THEOREM ResourcesPoliciesHaveInput ==
    ASSUME NamesApart
    PROVE  CalmSpec => []ResourcesHaveInput
  <1>1. Init => LeavingResourcesNow
    BY DEF Init, LeavingResourcesNow
  <1>2. LifecycleInv /\ LeavingResourcesNow /\ [CalmNext]_vars => LeavingResourcesNow'
    BY ResourcesRemovalKeepsInput
  <1> QED
    BY <1>1, <1>2, LifecycleInductive, ResourcesOnInput, PTL DEF CalmSpec

\* A policy that runs is stopped by its own removal or rollback only.
THEOREM PoliciesStoppedByOwnRemoval ==
    ASSUME NamesApart
    PROVE  CalmSpec => StoppedByOwnRemoval
  <1>1. LifecycleInv /\ [CalmNext]_vars =>
            [\A p \in Policies : p \in started /\ p \notin started' => p \in {leaving, loading}]_vars
    BY StopsOnlyItself
  <1> QED
    BY <1>1, LifecycleInductive, PTL DEF CalmSpec, StoppedByOwnRemoval

\* An input is destroyed only when no running handler is connected to it
\* (_remove_input_if_unused and the end of a rollback).
THEOREM RemovedInputsUnused ==
    ASSUME NamesApart
    PROVE  CalmSpec => RemovedInputUnused
  <1>1. LifecycleInv /\ [CalmNext]_vars =>
            [\A i \in inputs \ inputs' : \A o \in Objects : <<o, i>> \notin hrun]_vars
    BY FreesOnlyUnused
  <1> QED
    BY <1>1, LifecycleInductive, PTL DEF CalmSpec, RemovedInputUnused
=============================================================================
