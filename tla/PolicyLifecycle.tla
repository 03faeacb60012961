--------------------------- MODULE PolicyLifecycle ---------------------------
(***************************************************************************)
(* Loading and removing policies: PolicyManager::load with its rollback,   *)
(* remove_policy, and the input streams and handlers they share through    *)
(* InputStreamManager and HandlerManager.                                  *)
(*                                                                         *)
(* One load runs at a time (_load_mutex) and one removal (the map lock of  *)
(* the policies, _map_mutex, which a rollback also takes); a load and a    *)
(* removal run side by side.  A step is a critical section of one of the   *)
(* mutexes.  Input streams are shared: a policy joins the stream of its    *)
(* tap if there is one, and the stream goes with its last policy.  Every   *)
(* stream also gets a resources policy of its own.                         *)
(*                                                                         *)
(* A policy has one handler on each of its inputs here; a handler that     *)
(* runs is connected to the proxy its policy's filter has on that input.   *)
(***************************************************************************)
EXTENDS Naturals, Sequences, FiniteSets

CONSTANTS
    Policies,         \* the names of the policies that are loaded
    Inputs,           \* the names of input streams
    Reach,            \* Reach[p]: the input sequences policy p may have
    Filter,           \* Filter[p]: the input filter of policy p
    NoFilter,         \* the empty one
    ResourcesPlugin,  \* whether the input_resources handler is available
    ResourcesName,    \* ResourcesName[i]: the name of input i's resources policy
    Deletable,        \* the policy names that removals are asked for
    None

ASSUME LifecycleConstants ==
    /\ ResourcesPlugin \in BOOLEAN
    /\ \A p \in Policies : \A s \in Reach[p] :
         /\ s \in Seq(Inputs) /\ s # << >>
         /\ \A j, k \in DOMAIN s : s[j] = s[k] => j = k
    /\ \A i, j \in Inputs : ResourcesName[i] = ResourcesName[j] => i = j
    /\ None \notin Policies
    /\ \A i \in Inputs : <<"resources", i>> \notin Policies \cup {None}

\* The policy objects: those that are loaded and one resources policy per input.
Res(i) == <<"resources", i>>
Objects == Policies \cup {Res(i) : i \in Inputs}
Name(o) == IF o \in Policies THEN o ELSE ResourcesName[o[2]]
FilterOf(o) == IF o \in Policies THEN Filter[o] ELSE NoFilter

VARIABLES
    (* the three module maps *)
    reg,        \* PolicyManager: the policies registered
    inputs,     \* InputStreamManager: the input streams
    handlers,   \* HandlerManager: the handlers, each a policy and an input
    (* what the modules know *)
    streams,    \* Policy::_input_streams of each policy object
    started,    \* the policies that are _running
    irun,       \* the inputs that are _running
    attached,   \* InputStream::_policies
    proxies,    \* InputStream::_event_proxies, by filter
    hrun,       \* the handlers that run
    dangling,   \* history: policies in use with a pointer to a destroyed module
    (* the thread in load() *)
    lpc, loading, todo,
    fresh,      \* added_inputs
    joined,     \* attached_inputs
    made,       \* the inputs whose resources policy this load made
    resAdded,   \* ... and registered: added_resources_policies
    lstop,
    (* the thread that holds _map_mutex over several steps *)
    mapLock, cpc, leaving, ctodo, cstop

moduleVars == <<reg, inputs, handlers, streams, started, irun, attached, proxies, hrun, dangling>>
loadVars == <<lpc, loading, todo, fresh, joined, made, resAdded, lstop>>
lockVars == <<mapLock, cpc, leaving, ctodo, cstop>>
vars == <<moduleVars, loadVars, lockVars>>

Elems(s) == {s[k] : k \in DOMAIN s}
Distinct(s) == \A j, k \in DOMAIN s : s[j] = s[k] => j = k
HandlersOf(o) == {<<o, i>> : i \in Elems(streams[o])}

\* What a loop over the elements of s that are in some has before it: s from the
\* first of them on.
From(s, some) ==
    LET ks == {k \in DOMAIN s : s[k] \in some}
    IN  IF ks = {} THEN << >> ELSE SubSeq(s, CHOOSE k \in ks : \A j \in ks : k <= j, Len(s))

Exists(name) == \E o \in reg : Name(o) = name

\* The policy found under the name of input i's resources policy.
ResourcesPolicy(i) == CHOOSE o \in reg : Name(o) = ResourcesName[i]

Init ==
    /\ reg = {} /\ inputs = {} /\ handlers = {}
    /\ streams = [o \in Objects |-> << >>]
    /\ started = {} /\ irun = {} /\ hrun = {} /\ dangling = {}
    /\ attached = [i \in Inputs |-> {}]
    /\ proxies = [i \in Inputs |-> << >>]
    /\ lpc = "idle" /\ loading = None /\ todo = << >>
    /\ fresh = {} /\ joined = << >> /\ made = {} /\ resAdded = {} /\ lstop = {}
    /\ mapLock = "free" /\ cpc = "idle" /\ leaving = None /\ ctodo = << >> /\ cstop = {}

-----------------------------------------------------------------------------
(* Input streams *)

\* InputStream::add_event_proxy reuses the proxy of a filter.
WithProxy(seq, filter) == IF filter \in Elems(seq) THEN seq ELSE Append(seq, filter)

\* InputStream::consumer_count: the count of the last proxy.
ConsumerCount(i) ==
    IF proxies[i] = << >>
    THEN 0
    ELSE Cardinality({o \in Objects : <<o, i>> \in hrun /\ FilterOf(o) = proxies[i][Len(proxies[i])]})

\* As a mistake would have it: the other policies are not looked at.
StoppableShared(some) == some \cap irun

\* The test of Policy::stop: which of some inputs run and have no other policy.
Stoppable(some) == {i \in some \cap irun : Cardinality(attached[i]) <= 1}

\* The policies that still use their pointer to input i: all but the one that
\* is being removed and a loading one whose rollback has no stop() of i left.
Users(i) ==
    {o \in reg \cup ({loading} \ {None}) \cup {Res(j) : j \in made} :
        /\ i \in Elems(streams[o])
        /\ o # leaving
        /\ o = loading => \/ lpc \in {"tap", "attach", "resources", "handlers", "inputs",
                                     "start_res", "register_res", "undo_res", "undo_res_input",
                                     "register"}
                          \/ lpc \in {"rb_stop", "rb_stop_input"} /\ i \in Elems(todo)}

\* As a mistake would have it: destroyed without being stopped.
DestroyRunning(gone) ==
    /\ inputs' = inputs \ gone
    /\ attached' = [i \in Inputs |-> IF i \in gone THEN {} ELSE attached[i]]
    /\ proxies' = [i \in Inputs |-> IF i \in gone THEN << >> ELSE proxies[i]]
    /\ UNCHANGED irun

\* The inputs are stopped and destroyed.
Destroy(gone) ==
    /\ inputs' = inputs \ gone
    /\ irun' = irun \ gone
    /\ attached' = [i \in Inputs |-> IF i \in gone THEN {} ELSE attached[i]]
    /\ proxies' = [i \in Inputs |-> IF i \in gone THEN << >> ELSE proxies[i]]

-----------------------------------------------------------------------------
(* load *)

\* _get_policy_name finds the name free; what else is wrong with the policy's
\* configuration is found before anything is changed.
Load(p) ==
    /\ lpc = "idle" /\ mapLock = "free"
    /\ ~Exists(p)
    /\ loading' = p
    /\ todo' \in Reach[p]
    /\ lpc' = "tap"
    /\ UNCHANGED <<moduleVars, fresh, joined, made, resAdded, lstop, lockVars>>

\* An exception: the rollback starts with stop(), which only has something to
\* undo once the policy runs.
Rollback ==
    /\ lpc' = "rb_stop"
    /\ todo' = IF loading \in started THEN streams[loading] ELSE << >>

\* The next tap: its input stream is made unless there is one; the tap may be
\* gone or of another type, and the input may refuse to be made.
Tap ==
    /\ lpc = "tap"
    /\ \/ /\ Head(todo) \in inputs
          /\ lpc' = "attach"
          /\ UNCHANGED <<inputs, fresh, todo>>
       \/ /\ Head(todo) \notin inputs
          /\ inputs' = inputs \cup {Head(todo)}
          /\ fresh' = fresh \cup {Head(todo)}
          /\ lpc' = "attach"
          /\ UNCHANGED todo
       \/ Rollback /\ UNCHANGED <<inputs, fresh>>
    /\ UNCHANGED <<reg, handlers, streams, started, irun, attached, proxies, hrun, dangling>>
    /\ UNCHANGED <<loading, joined, made, resAdded, lstop, lockVars>>

\* With the input map locked: the policy's handlers are made and registered and
\* the policy joins the input.  An input that went in between throws, and so
\* does a handler that cannot be made or whose name is taken.
Attach ==
    /\ lpc = "attach"
    /\ \/ Head(todo) \notin inputs /\ Rollback /\ UNCHANGED <<streams, proxies, handlers, attached, joined>>
       \/ /\ Head(todo) \in inputs
          /\ proxies' = [proxies EXCEPT ![Head(todo)] = WithProxy(@, Filter[loading])]
          /\ streams' = [streams EXCEPT ![loading] = Append(@, Head(todo))]
          /\ \/ /\ handlers' = handlers \cup {<<loading, Head(todo)>>}
                /\ attached' = [attached EXCEPT ![Head(todo)] = @ \cup {loading}]
                /\ joined' = Append(joined, Head(todo))
                /\ todo' = Tail(todo)
                /\ lpc' = IF Tail(todo) = << >> THEN "resources" ELSE "tap"
             \/ /\ handlers' \in {handlers, handlers \cup {<<loading, Head(todo)>>}}
                /\ Rollback
                /\ UNCHANGED <<attached, joined>>
    /\ UNCHANGED <<reg, inputs, started, irun, hrun, dangling>>
    /\ UNCHANGED <<loading, fresh, made, resAdded, lstop, lockVars>>

\* create_resources_policy for each new input: the handler is started and
\* registered, the policy is not.  One that fails leaves those before it.
CreateResources ==
    /\ lpc = "resources"
    /\ LET wanted == IF ResourcesPlugin THEN fresh ELSE {}
       IN  \E done \in SUBSET wanted :
             LET new == {<<Res(i), i>> : i \in done}
             IN  /\ streams' = [o \in Objects |-> IF \E i \in done : o = Res(i) THEN <<o[2]>> ELSE streams[o]]
                 /\ proxies' = [i \in Inputs |-> IF i \in done THEN WithProxy(proxies[i], NoFilter) ELSE proxies[i]]
                 /\ handlers' = handlers \cup new
                 /\ hrun' = hrun \cup new
                 /\ made' = done
                 /\ \/ done = wanted /\ lpc' = "handlers" /\ UNCHANGED todo
                    \/ done # wanted /\ Rollback
    /\ UNCHANGED <<reg, inputs, started, irun, attached, dangling>>
    /\ UNCHANGED <<loading, fresh, joined, resAdded, lstop, lockVars>>

\* Policy::start: the handlers first; if one fails those that run are stopped.
StartHandlers ==
    /\ lpc = "handlers"
    /\ \/ /\ hrun' = hrun \cup HandlersOf(loading)
          /\ lpc' = "inputs"
          /\ todo' = streams[loading]
       \/ Rollback /\ UNCHANGED hrun
    /\ UNCHANGED <<reg, inputs, handlers, streams, started, irun, attached, proxies, dangling>>
    /\ UNCHANGED <<loading, fresh, joined, made, resAdded, lstop, lockVars>>

\* ... then the inputs, one by one; one that runs already is left alone.
StartInput ==
    /\ lpc = "inputs"
    /\ \/ /\ irun' = irun \cup {Head(todo)}
          /\ IF Tail(todo) # << >>
             THEN todo' = Tail(todo) /\ UNCHANGED <<lpc, started>>
             ELSE /\ started' = started \cup {loading}
                  /\ lpc' = "start_res"
                  /\ todo' = From(streams[loading], made)
          /\ UNCHANGED hrun
       \/ /\ Head(todo) \notin irun
          /\ hrun' = hrun \ HandlersOf(loading)
          /\ Rollback
          /\ UNCHANGED <<irun, started>>
    /\ UNCHANGED <<reg, inputs, handlers, streams, attached, proxies, dangling>>
    /\ UNCHANGED <<loading, fresh, joined, made, resAdded, lstop, lockVars>>

\* The next resources policy is started, its handler and its input run already,
\* and joins its input ...
StartResources ==
    /\ lpc = "start_res"
    /\ \/ /\ todo = << >>
          /\ lpc' = "register"
          /\ UNCHANGED <<irun, started, attached>>
       \/ /\ todo # << >>
          /\ irun' = irun \cup {Head(todo)}
          /\ started' = started \cup {Res(Head(todo))}
          /\ attached' = [attached EXCEPT ![Head(todo)] = @ \cup {Res(Head(todo))}]
          /\ lpc' = "register_res"
    /\ UNCHANGED <<reg, inputs, handlers, streams, proxies, hrun, dangling>>
    /\ UNCHANGED <<loading, todo, fresh, joined, made, resAdded, lstop, lockVars>>

\* ... before it is registered, unless its name is taken.
RegisterResources ==
    /\ lpc = "register_res" /\ mapLock = "free"
    /\ LET i == Head(todo)
       IN  \/ /\ ~Exists(ResourcesName[i])
              /\ reg' = reg \cup {Res(i)}
              /\ resAdded' = resAdded \cup {i}
              /\ todo' = From(Tail(todo), made)
              /\ lpc' = "start_res"
           \/ /\ Exists(ResourcesName[i])
              /\ lpc' = "undo_res"
              /\ UNCHANGED <<reg, resAdded, todo>>
    /\ UNCHANGED <<inputs, handlers, streams, started, irun, attached, proxies, hrun, dangling>>
    /\ UNCHANGED <<loading, fresh, joined, made, lstop, lockVars>>

\* Then it is stopped again, no longer under the map lock: the count is looked
\* at ...
UndoResourcesCheck ==
    /\ lpc = "undo_res"
    /\ lstop' = Stoppable({Head(todo)})
    /\ lpc' = "undo_res_input"
    /\ UNCHANGED <<moduleVars, loading, todo, fresh, joined, made, resAdded, lockVars>>

\* ... the input is stopped and left, and the load fails.
UndoResources ==
    /\ lpc = "undo_res_input"
    /\ LET i == Head(todo)
       IN  /\ irun' = irun \ lstop
           /\ attached' = [attached EXCEPT ![i] = @ \ {Res(i)}]
           /\ hrun' = hrun \ {<<Res(i), i>>}
           /\ started' = started \ {Res(i)}
    /\ Rollback
    /\ UNCHANGED <<reg, inputs, handlers, streams, proxies, dangling>>
    /\ UNCHANGED <<loading, fresh, joined, made, resAdded, lstop, lockVars>>

LoadEnds ==
    /\ lpc' = "idle" /\ loading' = None /\ todo' = << >>
    /\ fresh' = {} /\ joined' = << >> /\ made' = {} /\ resAdded' = {} /\ lstop' = {}

\* The policy is registered last.
Register ==
    /\ lpc = "register" /\ mapLock = "free"
    /\ \/ /\ ~Exists(loading)
          /\ reg' = reg \cup {loading}
          /\ LoadEnds
       \/ /\ Exists(loading)
          /\ Rollback
          /\ UNCHANGED <<reg, loading, fresh, joined, made, resAdded, lstop>>
    /\ UNCHANGED <<inputs, handlers, streams, started, irun, attached, proxies, hrun, dangling, lockVars>>

-----------------------------------------------------------------------------
(* The rollback of a load *)

\* Policy::stop, not under the map lock: the counts are looked at ...
RollbackStopCheck ==
    /\ lpc = "rb_stop"
    /\ \/ /\ todo # << >>
          /\ lstop' = Stoppable({Head(todo)})
          /\ lpc' = "rb_stop_input"
          /\ UNCHANGED <<todo, started, hrun>>
       \/ /\ todo = << >>
          /\ started' = started \ {loading}
          /\ hrun' = hrun \ HandlersOf(loading)
          /\ lpc' = "rb_detach"
          /\ todo' = joined
          /\ UNCHANGED lstop
    /\ UNCHANGED <<reg, inputs, handlers, streams, irun, attached, proxies, dangling>>
    /\ UNCHANGED <<loading, fresh, joined, made, resAdded, lockVars>>

\* ... and then the input is stopped and left.
RollbackStopInput ==
    /\ lpc = "rb_stop_input"
    /\ irun' = irun \ lstop
    /\ attached' = [attached EXCEPT ![Head(todo)] = @ \ {loading}]
    /\ todo' = Tail(todo)
    /\ lpc' = "rb_stop"
    /\ UNCHANGED <<reg, inputs, handlers, streams, started, proxies, hrun, dangling>>
    /\ UNCHANGED <<loading, fresh, joined, made, resAdded, lstop, lockVars>>

\* As a mistake would have it: a reused input is left, but not removed when that
\* was its last policy.
RollbackDetachOnly ==
    /\ lpc = "rb_detach"
    /\ todo # << >> /\ mapLock = "free"
    /\ attached' = [attached EXCEPT ![Head(todo)] = @ \ {loading}]
    /\ todo' = Tail(todo)
    /\ UNCHANGED <<reg, inputs, handlers, streams, started, irun, proxies, hrun, dangling>>
    /\ UNCHANGED <<lpc, loading, fresh, joined, made, resAdded, lstop, lockVars>>

\* Under the map lock, for each input joined: the policy leaves it, and a reused
\* one is removed if that was its last policy (_remove_input_if_unused below,
\* with the lock still held).
RollbackDetach ==
    /\ lpc = "rb_detach"
    /\ todo # << >> /\ mapLock = "free"
    /\ \/ /\ Head(todo) \notin inputs
          /\ UNCHANGED <<attached, lockVars>>
       \/ /\ Head(todo) \in inputs
          /\ attached' = [attached EXCEPT ![Head(todo)] = @ \ {loading}]
          /\ IF Head(todo) \in fresh
             THEN UNCHANGED lockVars
             ELSE /\ mapLock' = "rollback" /\ cpc' = "one" /\ leaving' = loading
                  /\ ctodo' = <<Head(todo)>>
                  /\ UNCHANGED cstop
    /\ todo' = Tail(todo)
    /\ UNCHANGED <<reg, inputs, handlers, streams, started, irun, proxies, hrun, dangling>>
    /\ UNCHANGED <<lpc, loading, fresh, joined, made, resAdded, lstop>>

\* As a mistake would have it: the resources policies this load made are undone,
\* registered or not.
RollbackDetachedMade ==
    /\ lpc = "rb_detach"
    /\ todo = << >> /\ mapLock # "rollback"
    /\ lpc' = "rb_resources"
    /\ todo' = From(streams[loading], made)
    /\ UNCHANGED <<moduleVars, loading, fresh, joined, made, resAdded, lstop, lockVars>>

RollbackDetached ==
    /\ lpc = "rb_detach"
    /\ todo = << >> /\ mapLock # "rollback"
    /\ lpc' = "rb_resources"
    /\ todo' = From(streams[loading], resAdded)
    /\ UNCHANGED <<moduleVars, loading, fresh, joined, made, resAdded, lstop, lockVars>>

\* The resources policies registered by this load are found by name and
\* stopped, unless a removal was faster ...
RollbackResourcesStop ==
    /\ lpc = "rb_resources"
    /\ \/ /\ todo # << >> /\ mapLock = "free"
          /\ LET r == ResourcesPolicy(Head(todo))
             IN  IF Exists(ResourcesName[Head(todo)]) /\ r \in started
                 THEN /\ irun' = irun \ Stoppable(Elems(streams[r]))
                      /\ attached' = [i \in Inputs |-> attached[i] \ {r}]
                      /\ hrun' = hrun \ HandlersOf(r)
                      /\ started' = started \ {r}
                 ELSE UNCHANGED <<irun, attached, hrun, started>>
          /\ lpc' = "rb_resources_remove"
       \/ /\ todo = << >>
          /\ lpc' = "rb_handlers"
          /\ UNCHANGED <<irun, attached, hrun, started>>
    /\ UNCHANGED <<reg, inputs, handlers, streams, proxies, dangling>>
    /\ UNCHANGED <<loading, todo, fresh, joined, made, resAdded, lstop, lockVars>>

\* As a mistake would have it: it stays registered.
RollbackResourcesKeep ==
    /\ lpc = "rb_resources_remove" /\ mapLock = "free"
    /\ todo' = From(Tail(todo), resAdded)
    /\ lpc' = "rb_resources"
    /\ UNCHANGED <<moduleVars, loading, fresh, joined, made, resAdded, lstop, lockVars>>

\* ... and unregistered.
RollbackResourcesRemove ==
    /\ lpc = "rb_resources_remove" /\ mapLock = "free"
    /\ LET found == {o \in reg : Name(o) = ResourcesName[Head(todo)]}
       IN  /\ reg' = reg \ found
           /\ streams' = [o \in Objects |-> IF o \in found THEN << >> ELSE streams[o]]
    /\ todo' = From(Tail(todo), resAdded)
    /\ lpc' = "rb_resources"
    /\ UNCHANGED <<inputs, handlers, started, irun, attached, proxies, hrun, dangling>>
    /\ UNCHANGED <<loading, fresh, joined, made, resAdded, lstop, lockVars>>

\* The handlers this load registered are stopped and removed.
RollbackHandlers ==
    /\ lpc = "rb_handlers"
    /\ LET gone == HandlersOf(loading) \cup {<<Res(i), i>> : i \in made}
       IN  handlers' = handlers \ gone /\ hrun' = hrun \ gone
    /\ lpc' = "rb_inputs"
    /\ UNCHANGED <<reg, inputs, streams, started, irun, attached, proxies, dangling>>
    /\ UNCHANGED <<loading, todo, fresh, joined, made, resAdded, lstop, lockVars>>

\* InputStreamManager::module_remove stops and destroys the inputs this load
\* made; one with consumers stays.  Then the policy objects go.
RollbackInputs ==
    /\ lpc = "rb_inputs"
    /\ Destroy({i \in fresh \cap inputs : ConsumerCount(i) = 0})
    /\ streams' = [o \in Objects |-> IF o = loading \/ \E i \in made : o = Res(i) /\ o \notin reg
                                     THEN << >> ELSE streams[o]]
    /\ LoadEnds
    /\ UNCHANGED <<reg, handlers, started, hrun, dangling, lockVars>>

-----------------------------------------------------------------------------
(* remove_policy, under the map lock to its end *)

RemovePolicy(o) ==
    /\ mapLock = "free"
    /\ o \in reg /\ Name(o) \in Deletable
    /\ mapLock' = "remove" /\ leaving' = o /\ cpc' = "stop"
    /\ ctodo' = IF o \in started THEN streams[o] ELSE << >>
    /\ UNCHANGED <<moduleVars, loadVars, cstop>>

\* Policy::stop: the counts are looked at ...
StopCheck ==
    /\ cpc = "stop"
    /\ \/ /\ ctodo # << >>
          /\ cstop' = Stoppable({Head(ctodo)})
          /\ cpc' = "stop_input"
          /\ UNCHANGED <<started, hrun>>
       \/ /\ ctodo = << >>
          /\ started' = started \ {leaving}
          /\ hrun' = hrun \ HandlersOf(leaving)
          /\ cpc' = "handlers"
          /\ UNCHANGED cstop
    /\ UNCHANGED <<reg, inputs, handlers, streams, irun, attached, proxies, dangling>>
    /\ UNCHANGED <<loadVars, mapLock, leaving, ctodo>>

\* ... and then the input is stopped and left.
StopInput ==
    /\ cpc = "stop_input"
    /\ irun' = irun \ cstop
    /\ attached' = [attached EXCEPT ![Head(ctodo)] = @ \ {leaving}]
    /\ ctodo' = Tail(ctodo)
    /\ cpc' = "stop"
    /\ UNCHANGED <<reg, inputs, handlers, streams, started, proxies, hrun, dangling>>
    /\ UNCHANGED <<loadVars, mapLock, leaving, cstop>>

Unlock ==
    /\ mapLock' = "free" /\ cpc' = "idle" /\ leaving' = None /\ ctodo' = << >> /\ cstop' = {}

\* An exception: a rollback goes on with its next step, but a removal ends with
\* the policy still registered, and its handlers destroyed.
Throw ==
    /\ dangling' = dangling \cup IF mapLock = "remove" THEN HandlersOf(leaving) ELSE {}
    /\ Unlock

\* The orders the inputs of a policy can have by their names.
Orders(s) == {t \in [DOMAIN s -> Elems(s)] : Elems(t) = Elems(s) /\ Distinct(t)}

\* HandlerManager::module_remove for each handler; the inputs are then gone
\* through by name, which need not be the order in which they were joined.
RemoveHandlers ==
    /\ cpc = "handlers"
    /\ handlers' = handlers \ HandlersOf(leaving)
    /\ cpc' = "one"
    /\ ctodo' \in Orders(streams[leaving])
    /\ UNCHANGED <<reg, inputs, streams, started, irun, attached, proxies, hrun, dangling>>
    /\ UNCHANGED <<loadVars, mapLock, leaving, cstop>>

\* _remove_input_if_unused for the next input: is one policy left on it, and is
\* there a resources policy to remove?
CountOne ==
    /\ cpc = "one" /\ ctodo # << >>
    /\ LET name == ResourcesName[Head(ctodo)]
       IN  cpc' = IF Cardinality(attached[Head(ctodo)]) = 1 /\ Name(leaving) # name /\ Exists(name)
                  THEN "res" ELSE "zero"
    /\ UNCHANGED <<moduleVars, loadVars, mapLock, leaving, ctodo, cstop>>

\* The policy registered under that name is stopped, and removed with the
\* handler of that name, which throws if there is none.
StopResourcesCheck ==
    /\ cpc = "res"
    /\ LET r == ResourcesPolicy(Head(ctodo))
       IN  cstop' = IF r \in started THEN Stoppable(Elems(streams[r])) ELSE {}
    /\ cpc' = "res_stop"
    /\ UNCHANGED <<moduleVars, loadVars, mapLock, leaving, ctodo>>

RemoveResources ==
    /\ cpc = "res_stop"
    /\ LET i == Head(ctodo)
           r == ResourcesPolicy(i)
       IN  /\ irun' = irun \ cstop
           /\ attached' = [j \in Inputs |-> attached[j] \ {r}]
           /\ started' = started \ {r}
           /\ hrun' = hrun \ HandlersOf(r)
           /\ \/ /\ <<Res(i), i>> \in handlers
                 /\ handlers' = handlers \ {<<Res(i), i>>}
                 /\ reg' = reg \ {r}
                 /\ streams' = [streams EXCEPT ![r] = << >>]
                 /\ cpc' = "zero"
                 /\ UNCHANGED <<mapLock, leaving, ctodo, cstop, dangling>>
              \/ /\ <<Res(i), i>> \notin handlers
                 /\ Throw
                 /\ UNCHANGED <<handlers, reg, streams>>
    /\ UNCHANGED <<inputs, proxies, loadVars>>

\* As mistakes would have it: the input goes with one policy still on it ...
CountZeroOrOne ==
    /\ cpc = "zero"
    /\ IF Cardinality(attached[Head(ctodo)]) <= 1
       THEN cpc' = "free" /\ UNCHANGED ctodo
       ELSE cpc' = "one" /\ ctodo' = Tail(ctodo)
    /\ UNCHANGED <<moduleVars, loadVars, mapLock, leaving, cstop>>

\* ... and the removal does not go on to the next input.
CountZeroAgain ==
    /\ cpc = "zero"
    /\ cpc' = IF attached[Head(ctodo)] = {} THEN "free" ELSE "one"
    /\ UNCHANGED <<moduleVars, loadVars, mapLock, leaving, ctodo, cstop>>

\* ... and if no policy is left on it, the input is removed.
CountZero ==
    /\ cpc = "zero"
    /\ IF attached[Head(ctodo)] = {}
       THEN cpc' = "free" /\ UNCHANGED ctodo
       ELSE cpc' = "one" /\ ctodo' = Tail(ctodo)
    /\ UNCHANGED <<moduleVars, loadVars, mapLock, leaving, cstop>>

\* InputStreamManager::module_remove: an input that has consumers throws.
RemoveInput ==
    /\ cpc = "free"
    /\ LET i == Head(ctodo)
       IN  \/ /\ ConsumerCount(i) = 0
              /\ Destroy({i})
              /\ dangling' = dangling \cup {<<o, i>> : o \in Users(i)}
              /\ cpc' = "one"
              /\ ctodo' = Tail(ctodo)
              /\ UNCHANGED <<mapLock, leaving, cstop>>
           \/ /\ ConsumerCount(i) # 0
              /\ Throw
              /\ UNCHANGED <<inputs, irun, attached, proxies>>
    /\ UNCHANGED <<reg, handlers, streams, started, hrun, loadVars>>

\* The removed policy goes; a rollback only lets the lock go.
Done ==
    /\ cpc = "one" /\ ctodo = << >>
    /\ IF mapLock = "remove"
       THEN reg' = reg \ {leaving} /\ streams' = [streams EXCEPT ![leaving] = << >>]
       ELSE UNCHANGED <<reg, streams>>
    /\ Unlock
    /\ UNCHANGED <<inputs, handlers, started, irun, attached, proxies, hrun, dangling, loadVars>>

-----------------------------------------------------------------------------
LoadStep ==
    \/ Tap
    \/ Attach
    \/ CreateResources
    \/ StartHandlers
    \/ StartInput
    \/ StartResources
    \/ RegisterResources
    \/ UndoResourcesCheck
    \/ UndoResources
    \/ Register
    \/ RollbackStopCheck
    \/ RollbackStopInput
    \/ RollbackDetach
    \/ RollbackDetached
    \/ RollbackResourcesStop
    \/ RollbackResourcesRemove
    \/ RollbackHandlers
    \/ RollbackInputs

LockedStep ==
    \/ StopCheck
    \/ StopInput
    \/ RemoveHandlers
    \/ CountOne
    \/ StopResourcesCheck
    \/ RemoveResources
    \/ CountZero
    \/ RemoveInput
    \/ Done

Next ==
    \/ \E p \in Policies : Load(p)
    \/ LoadStep
    \/ \E o \in Objects : RemovePolicy(o)
    \/ LockedStep

\* A thread that is in load() or remove_policy() goes on; nobody has to ask for
\* another load or removal.  What follows the use of a destroyed module is left out.
Spec ==
    /\ Init /\ [][dangling = {} /\ Next]_vars
    /\ WF_vars(dangling = {} /\ LoadStep)
    /\ WF_vars(dangling = {} /\ LockedStep)

\* The same with every removal running from its start to its end between two
\* steps of a load.
CalmNext ==
    \/ \E p \in Policies : Load(p)
    \/ mapLock # "remove" /\ LoadStep
    \/ \E o \in Objects : RemovePolicy(o)
    \/ LockedStep

CalmSpec ==
    /\ Init /\ [][CalmNext]_vars
    /\ WF_vars(LoadStep /\ mapLock # "remove")
    /\ WF_vars(LockedStep)

-----------------------------------------------------------------------------
(* Properties *)

\* The variables have their types, only modules that exist run, no two registered
\* policies share a name, and the map lock is held by a removal or a rollback only.
TypeOK ==
    /\ reg \subseteq Objects /\ started \subseteq Objects
    /\ inputs \subseteq Inputs /\ irun \subseteq inputs
    /\ hrun \subseteq handlers /\ handlers \subseteq Objects \X Inputs
    /\ \A o \in Objects : Elems(streams[o]) \subseteq Inputs
    /\ attached \in [Inputs -> SUBSET Objects]
    /\ \A o1, o2 \in reg : Name(o1) = Name(o2) => o1 = o2
    /\ loading \in Policies \cup {None} /\ (lpc = "idle" <=> loading = None)
    /\ mapLock \in {"free", "remove", "rollback"} /\ (mapLock = "free" <=> cpc = "idle")
    /\ mapLock = "rollback" => lpc = "rb_detach"

AtRest == lpc = "idle" /\ mapLock = "free"

\* Between requests, whatever loads failed on the way and whatever was removed
\* while they ran, nothing is left over: every input has an ordinary policy on
\* it, every policy an input counts is registered and uses it, every handler
\* belongs to a registered policy, and no other policy runs.
NothingLeaked ==
    AtRest =>
        /\ \A i \in inputs : attached[i] \cap Policies # {}
        /\ \A i \in Inputs, o \in Objects : o \in attached[i] => o \in reg /\ i \in Elems(streams[o])
        /\ started \subseteq reg
        /\ \A h \in handlers : h[1] \in reg /\ h \in HandlersOf(h[1])

\* Between requests, every registered policy is served: it runs, its handlers
\* are registered and run, and its inputs exist, run and count it.
PoliciesServed ==
    AtRest =>
        \A o \in reg :
            /\ o \in started
            /\ HandlersOf(o) \subseteq handlers \cap hrun
            /\ \A i \in Elems(streams[o]) : i \in inputs \cap irun /\ o \in attached[i]

\* At no time is a resources policy registered whose input is gone: it holds a
\* pointer to it that GET /policies follows (Policy::info_json).
ResourcesHaveInput == \A i \in Inputs : Res(i) \in reg => i \in inputs

\* No module is destroyed while a policy that is loading or registered, and not
\* being removed, still has a pointer to it: an input (RemoveInput) or, after a
\* removal that threw, its handlers.
NoDanglingPointer == dangling = {}

\* Every load ends, registered or rolled back, and every removal lets the lock go.
RequestsEnd ==
    /\ lpc # "idle" ~> lpc = "idle" \/ dangling # {}
    /\ mapLock # "free" ~> mapLock = "free" \/ dangling # {}

\* A policy that runs is stopped by its own removal only, never by another's.
StoppedByOwnRemoval ==
    [][\A p \in Policies : p \in started /\ p \notin started' => p \in {leaving, loading}]_vars

\* An input is only removed when no handler that runs is connected to it.
RemovedInputUnused ==
    [][\A i \in inputs \ inputs' : \A o \in Objects : <<o, i>> \notin hrun]_vars
=============================================================================
