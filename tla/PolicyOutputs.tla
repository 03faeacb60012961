---------------------------- MODULE PolicyOutputs ---------------------------
(***************************************************************************)
(* What leaves the agent for a policy: the answers of the admin routes about *)
(* policies and their windows, and the merged windows of the OpenTelemetry *)
(* push.  The three sections are specified apart; none changes what another *)
(* reads.                                                                  *)
(***************************************************************************)
EXTENDS Sequences, FiniteSets, SequencesExt, Integers

-----------------------------------------------------------------------------
(***************************************************************************)
(* The policy routes of the web server, and the OTLP push, as requests of  *)
(* several threads that meet in the policy manager.  Each call into the    *)
(* manager takes its lock and is one step; a request makes several, and    *)
(* what it learned in one may no longer hold in the next.  What a load and *)
(* a removal do inside is PolicyLifecycle's subject.  A policy is the      *)
(* number of the load that made it.                                        *)
(***************************************************************************)
CONSTANTS Threads, Names, MaxLoads

VARIABLES
    registered,  \* [name -> policy], 0 when there is none
    loads,
    request,     \* [thread -> what is asked], "none" between requests
    name,        \* [thread -> the name asked for]
    rpc,         \* [thread -> the next call]
    todo,        \* [thread -> names still to be written]
    rheld,       \* [thread -> the policy its load made], 0 when there is none
    written,     \* [thread -> policies in the answer]
    early,       \* [thread -> policies without that many windows yet]
    stayed,      \* [thread -> policies there since the request listed them]
    left,        \* [thread -> whether one that it listed was removed since]
    status,      \* [thread -> the answer's code]
    removals,    \* [policy -> how many requests say they removed it]
    dangling     \* removed policies that were used

routesVars == <<registered, loads, request, name, rpc, todo, rheld, written, early, stayed, left,
          status, removals, dangling>>

Server == <<registered, loads, removals>>
Listing == <<todo, written, early, stayed, left>>

Scrapes == {"window", "prometheus", "push"}
All == "__all"
There == {n \in Names : registered[n] # 0}
Policies == {registered[n] : n \in There}

RoutesInit ==
    /\ registered = [n \in Names |-> 0]
    /\ loads = 0
    /\ request = [t \in Threads |-> "none"]
    /\ name = [t \in Threads |-> All]
    /\ rpc = [t \in Threads |-> "idle"]
    /\ todo = [t \in Threads |-> {}]
    /\ rheld = [t \in Threads |-> 0]
    /\ written = [t \in Threads |-> {}]
    /\ early = [t \in Threads |-> {}]
    /\ stayed = [t \in Threads |-> {}]
    /\ left = [t \in Threads |-> FALSE]
    /\ status = [t \in Threads |-> 0]
    /\ removals = [p \in 1..MaxLoads |-> 0]
    /\ dangling = {}

Goto(t, step) == rpc' = [rpc EXCEPT ![t] = step] /\ UNCHANGED status
Answer(t, code) == rpc' = [rpc EXCEPT ![t] = "answer"] /\ status' = [status EXCEPT ![t] = code]

Ask(t, what, n) ==
    /\ rpc[t] = "idle"
    /\ request' = [request EXCEPT ![t] = what]
    /\ name' = [name EXCEPT ![t] = n]

----------------------------------------------------------------------------
(* POST and DELETE. *)

\* Without a supported Content-Type nothing is read; a body that does not load
\* is told apart by its exception.
PostRefused(t, n) ==
    /\ Ask(t, "post", n)
    /\ \E code \in {400, 422, 500} : Answer(t, code)
    /\ UNCHANGED <<Server, Listing, rheld, dangling>>

Post(t, n) ==
    /\ Ask(t, "post", n)
    /\ IF registered[n] # 0
       THEN Answer(t, 409) /\ UNCHANGED <<registered, loads, rheld>>
       ELSE /\ loads < MaxLoads
            /\ loads' = loads + 1
            /\ registered' = [registered EXCEPT ![n] = loads + 1]
            /\ rheld' = [rheld EXCEPT ![t] = loads + 1]
            /\ Goto(t, "describe")
    /\ UNCHANGED <<removals, Listing, dangling>>

\* info_json through the pointer the load returned, without the lock.
Describe(t) ==
    /\ rpc[t] = "describe"
    /\ dangling' = dangling \cup ({rheld[t]} \ Policies)
    /\ rheld' = [rheld EXCEPT ![t] = 0]
    /\ Answer(t, 201)
    /\ UNCHANGED <<Server, request, name, Listing>>

\* module_exists, for every route that names a policy.
Check(t, what, n) ==
    /\ Ask(t, what, n)
    /\ IF registered[n] = 0 THEN Answer(t, 404) ELSE Goto(t, what)
    /\ UNCHANGED <<Server, Listing, rheld, dangling>>

\* Mutant of Delete: the policy is stopped and stays registered.
DeleteStopsOnly(t) ==
    /\ rpc[t] = "delete"
    /\ LET p == registered[name[t]]
       IN  IF p = 0
           THEN Answer(t, 500) /\ UNCHANGED removals
           ELSE removals' = [removals EXCEPT ![p] = @ + 1] /\ Answer(t, 200)
    /\ UNCHANGED <<registered, loads, request, name, Listing, rheld, dangling>>

\* A policy that was removed since the check makes the manager throw.
Delete(t) ==
    /\ rpc[t] = "delete"
    /\ LET p == registered[name[t]]
       IN  IF p = 0
           THEN Answer(t, 500) /\ UNCHANGED <<registered, removals, stayed, left>>
           ELSE /\ registered' = [registered EXCEPT ![name[t]] = 0]
                /\ removals' = [removals EXCEPT ![p] = @ + 1]
                /\ stayed' = [u \in Threads |-> stayed[u] \ {p}]
                /\ left' = [u \in Threads |-> left[u] \/ name[t] \in todo[u]]
                /\ Answer(t, 200)
    /\ UNCHANGED <<loads, request, name, todo, written, early, rheld, dangling>>

Get(t) ==
    /\ rpc[t] = "get"
    /\ Answer(t, IF registered[name[t]] = 0 THEN 500 ELSE 200)
    /\ UNCHANGED <<Server, request, name, Listing, rheld, dangling>>

----------------------------------------------------------------------------
(* Metrics: of one policy, of all, or pushed. *)

\* The names are listed once; then each policy is looked up again and written
\* under the lock.
List(t, what, n) ==
    /\ Ask(t, what, n)
    /\ IF n # All /\ registered[n] = 0
       THEN Answer(t, 404) /\ UNCHANGED <<todo, stayed>>
       ELSE /\ todo' = [todo EXCEPT ![t] = IF n = All THEN There ELSE {n}]
            /\ stayed' = [stayed EXCEPT ![t] = {registered[m] : m \in todo'[t]}]
            /\ Goto(t, "write")
    /\ UNCHANGED <<Server, written, early, left, rheld, dangling>>

Written(t, n) ==
    /\ written' = [written EXCEPT ![t] = @ \cup {registered[n]}]
    /\ todo' = [todo EXCEPT ![t] = @ \ {n}]
    /\ UNCHANGED <<early, rpc, status>>

\* Mutant of Missing: a push gives up as well.
MissingThrows(t, n) == Answer(t, 500) /\ UNCHANGED <<todo, written, early>>

\* A push leaves out what is gone; the other routes give up.
Missing(t, n) ==
    /\ IF request[t] = "push"
       THEN todo' = [todo EXCEPT ![t] = @ \ {n}] /\ UNCHANGED <<rpc, status>>
       ELSE Answer(t, 500) /\ UNCHANGED todo
    /\ UNCHANGED <<written, early>>

\* A period that was not reached skips the policy where all are asked for.
TooEarly(t, n) ==
    /\ IF name[t] = All
       THEN /\ todo' = [todo EXCEPT ![t] = @ \ {n}]
            /\ early' = [early EXCEPT ![t] = @ \cup {registered[n]}]
            /\ UNCHANGED <<rpc, status>>
       ELSE Answer(t, 425) /\ UNCHANGED <<todo, early>>
    /\ UNCHANGED written

WritePolicy(t) ==
    /\ rpc[t] = "write"
    /\ \E n \in todo[t] :
         \/ registered[n] # 0 /\ Written(t, n)
         \/ registered[n] # 0 /\ request[t] = "window" /\ TooEarly(t, n)
         \/ registered[n] = 0 /\ Missing(t, n)
    /\ UNCHANGED <<Server, request, name, rheld, stayed, left, dangling>>

WriteAnswer(t) ==
    /\ rpc[t] = "write"
    /\ todo[t] = {}
    /\ Answer(t, 200)
    /\ UNCHANGED <<Server, request, name, Listing, rheld, dangling>>

\* The answer is sent, and the thread takes the next request.
Send(t) ==
    /\ rpc[t] = "answer"
    /\ rpc' = [rpc EXCEPT ![t] = "idle"]
    /\ request' = [request EXCEPT ![t] = "none"]
    /\ name' = [name EXCEPT ![t] = All]
    /\ todo' = [todo EXCEPT ![t] = {}]
    /\ written' = [written EXCEPT ![t] = {}]
    /\ early' = [early EXCEPT ![t] = {}]
    /\ stayed' = [stayed EXCEPT ![t] = {}]
    /\ left' = [left EXCEPT ![t] = FALSE]
    /\ status' = [status EXCEPT ![t] = 0]
    /\ UNCHANGED <<Server, rheld, dangling>>

Serve(t) ==
    \/ Send(t) \/ Describe(t) \/ Delete(t) \/ Get(t) \/ WritePolicy(t) \/ WriteAnswer(t)
    \/ \E n \in Names :
         \/ Post(t, n) \/ PostRefused(t, n) \/ Check(t, "delete", n) \/ Check(t, "get", n)
         \/ \E what \in Scrapes \ {"push"} : List(t, what, n)
    \/ \E what \in Scrapes : List(t, what, All)

RoutesNext == \E t \in Threads : Serve(t)

RoutesSpec == RoutesInit /\ [][RoutesNext]_routesVars

----------------------------------------------------------------------------
(* Properties. *)

\* An answer with metrics holds every listed policy that was there all along,
\* but for those that had not that many windows yet; a scrape that gives up
\* had listed a policy that was removed before its turn, and a push never does.
ScrapesAreWhole ==
    \A t \in Threads :
        rpc[t] = "answer" /\ request[t] \in Scrapes =>
            /\ status[t] = 200 => stayed[t] \subseteq written[t] \cup early[t]
            /\ status[t] = 200 /\ early[t] # {} => request[t] = "window" /\ name[t] = All
            /\ status[t] = 500 => left[t] /\ request[t] # "push"

\* However many requests ask for it, one of them removes a policy and says so.
RemovedOnce ==
    \A p \in 1..loads : removals[p] = IF p \in Policies THEN 0 ELSE 1

\* What the comment on the managers says, that they are called from HTTP
\* threads and so must be thread safe: no request uses a policy that is gone.
NoDanglingPolicy == dangling = {}

-----------------------------------------------------------------------------
(***************************************************************************)
(* A policy that merges like handlers, pushed over OTLP.  The push takes   *)
(* of every handler the oldest closed window after the last one it sent,   *)
(* merges the windows of handlers of one class into one bucket, writes the *)
(* buckets, and remembers what it sent.  The handlers keep closing windows *)
(* and dropping old ones meanwhile; a window is named by its start.  The   *)
(* buckets are visited in the order of their addresses, which is any.      *)
(***************************************************************************)
CONSTANTS
    Classes,      \* [schema, version] of a bucket class
    MaxHandlers, NumPeriods, MaxWindows

VARIABLES
    class,      \* the policy's handlers, as their classes
    closed,     \* [handler -> windows it closed]; it holds the last NumPeriods - 1
    last,       \* what was sent last, of each handler; <<>> before the first push
    pc, starts, at,
    buckets,    \* the merged buckets in address order: [class, of, handler]
    sent,       \* [handler -> [window -> how often it was sent]]
    scopes      \* the merged exports so far: what each bucket of one held

pushVars == <<class, closed, last, pc, starts, at, buckets, sent, scopes>>

Handlers == DOMAIN class
HeldBy(h, w) == w \in 1..closed[h] /\ w + NumPeriods - 1 > closed[h]

PushInit ==
    /\ class \in UNION {[1..n -> Classes] : n \in 1..MaxHandlers}
    /\ closed = [h \in DOMAIN class |-> 0]
    /\ last = <<>> /\ pc = "idle" /\ starts = <<>> /\ at = 0 /\ buckets = <<>>
    /\ sent = [h \in DOMAIN class |-> [w \in 1..MaxWindows |-> 0]]
    /\ scopes = {}

\* A period shift of one handler; the oldest window is dropped when it is one
\* too many.
PeriodShift(h) ==
    /\ closed[h] < MaxWindows
    /\ closed' = [closed EXCEPT ![h] = @ + 1]
    /\ UNCHANGED <<class, last, pc, starts, at, buckets, sent, scopes>>

After(h) == IF last = <<>> THEN 0 ELSE last[h]

\* Mutant of NextClosedWindowStart: not before the last one sent.
NextClosedNotBefore(h) ==
    LET later == {w \in 1..closed[h] : HeldBy(h, w) /\ w >= After(h)}
    IN  IF later = {} THEN 0 ELSE CHOOSE w \in later : \A v \in later : w <= v

\* The oldest held window after the last one sent, 0 when there is none.
NextClosedWindowStart(h) ==
    LET later == {w \in 1..closed[h] : HeldBy(h, w) /\ w > After(h)}
    IN  IF later = {} THEN 0 ELSE CHOOSE w \in later : \A v \in later : w <= v

Idle == pc' = "idle" /\ starts' = <<>> /\ at' = 0 /\ buckets' = <<>>

\* next_merged_windows asks one handler after the other; one without a window
\* ends the round.
BeginPush ==
    /\ pc = "idle"
    /\ pc' = "next" /\ starts' = <<>>
    /\ UNCHANGED <<class, closed, last, at, buckets, sent, scopes>>

NextMergedWindow ==
    /\ pc = "next"
    /\ Len(starts) < Len(class)
    /\ LET w == NextClosedWindowStart(Len(starts) + 1)
       IN  IF w = 0 THEN Idle
           ELSE starts' = Append(starts, w) /\ UNCHANGED <<pc, at, buckets>>
    /\ UNCHANGED <<class, closed, last, sent, scopes>>

BeginMerge ==
    /\ pc = "next"
    /\ Len(starts) = Len(class)
    /\ pc' = "merge" /\ at' = 1 /\ buckets' = <<>>
    /\ UNCHANGED <<class, closed, last, starts, sent, scopes>>

\* Mutant of Tried: only the last bucket is tried.
TriedLast(c, i) == i = Len(buckets)

\* A bucket is passed over without being tried when it is not the last one and
\* differs in schema and in version.
Tried(c, i) ==
    \/ i = Len(buckets)
    \/ buckets[i].class.schema = c.schema
    \/ buckets[i].class.version = c.version

\* The first bucket that is tried and is of the handler's own class absorbs its
\* window.
Absorbing(c) == {i \in DOMAIN buckets : Tried(c, i) /\ buckets[i].class = c}

Bucket(h) == [class |-> class[h], of |-> {<<h, starts[h]>>}, handler |-> h]

MergeInto(h) ==
    IF Absorbing(class[h]) # {}
    THEN LET i == CHOOSE j \in Absorbing(class[h]) : \A k \in Absorbing(class[h]) : j <= k
         IN  buckets' = [buckets EXCEPT ![i].of = @ \cup {<<h, starts[h]>>}]
    ELSE \E i \in 1..(Len(buckets) + 1) : buckets' = InsertAt(buckets, i, Bucket(h))

\* Mutant of MergeHandler: a window that is gone is passed over.
MergeHandlerPassesOver ==
    /\ pc = "merge"
    /\ at \in Handlers
    /\ IF HeldBy(at, starts[at]) THEN MergeInto(at) ELSE UNCHANGED buckets
    /\ at' = at + 1
    /\ UNCHANGED <<class, closed, last, pc, starts, sent, scopes>>

\* A window that was dropped since it was chosen ends the round.
MergeHandler ==
    /\ pc = "merge"
    /\ at \in Handlers
    /\ \/ ~HeldBy(at, starts[at]) /\ Idle
       \/ HeldBy(at, starts[at]) /\ MergeInto(at) /\ at' = at + 1 /\ UNCHANGED <<pc, starts>>
    /\ UNCHANGED <<class, closed, last, sent, scopes>>

\* Written whole or, when writing a bucket throws, not at all.
ExportMerged ==
    /\ pc = "merge"
    /\ at > Len(class)
    /\ \/ /\ last' = starts
          /\ sent' = [h \in Handlers |-> [w \in 1..MaxWindows |->
                        sent[h][w] + Cardinality({i \in DOMAIN buckets : <<h, w>> \in buckets[i].of})]]
          /\ scopes' = scopes \cup {{buckets[i].of : i \in DOMAIN buckets}}
          /\ pc' = "next" /\ starts' = <<>> /\ at' = 0 /\ buckets' = <<>>
       \/ Idle /\ UNCHANGED <<last, sent, scopes>>
    /\ UNCHANGED <<class, closed>>

Push == BeginPush \/ NextMergedWindow \/ BeginMerge \/ MergeHandler \/ ExportMerged

PushNext == Push \/ \E h \in Handlers : PeriodShift(h)

PushSpec == PushInit /\ [][PushNext]_pushVars

----------------------------------------------------------------------------
(* Properties. *)

\* Whatever closes or is dropped during a push, and however the buckets lie in
\* memory: a window is sent at most once, what is remembered as sent was, and
\* no window that is held and older than it is left unsent.
SentExactly ==
    \A h \in Handlers :
        /\ \A w \in 1..MaxWindows : sent[h][w] <= 1
        /\ last # <<>> =>
             /\ sent[h][last[h]] = 1
             /\ \A w \in 1..last[h] : HeldBy(h, w) => sent[h][w] = 1

\* One export holds exactly one window of every handler, handlers of one class
\* in one bucket and of two classes in two; the bucket is written by a handler
\* of its class.
LikeIsMerged ==
    /\ \A scope \in scopes :
         /\ \A h \in Handlers : Cardinality({e \in UNION scope : e[1] = h}) = 1
         /\ \A g, h \in Handlers :
              (class[g] = class[h]) <=>
              (\E b \in scope : {g, h} \subseteq {e[1] : e \in b})
    /\ \A i \in DOMAIN buckets : buckets[i].class = class[buckets[i].handler]

-----------------------------------------------------------------------------
(***************************************************************************)
(* The JSON answers about the windows of one policy: the routes that 3.0.x *)
(* had for the "default" policy, where all handlers write one document,    *)
(* and the policy's own route, where each has a document.  Merged windows  *)
(* go through a cache per handler and period                               *)
(* (AbstractMetricsManager::window_merged_json).  A hit puts the cached    *)
(* document in place of the one that is being written, and the handler's   *)
(* windows are merged and written all the same.                            *)
(*                                                                         *)
(* What is written of a handler is the handler and the time it was read.   *)
(* A request holds the policy manager's lock, so requests are steps.       *)
(***************************************************************************)
CONSTANTS
    PolicyHandlers, \* the handlers, in order: [schema, empty]; empty: no group is enabled
    AnswerPeriods,
    Periods,      \* periods that are asked for
    Ttl,          \* MERGE_CACHE_TTL_MS
    MaxTime       \* bound: how far the clock goes

VARIABLES
    now,
    held,         \* windows held so far
    cache,        \* [handler -> [period -> [at, doc]]]: _mergeResultCache
    answer,       \* the last answer
    routes        \* history: the merged routes used so far

answersVars == <<now, held, cache, answer, routes>>

Order == [i \in 1..Len(PolicyHandlers) |-> i]
Shown(doc, h) == PolicyHandlers[h].schema \in DOMAIN doc
Fresh(h) == [of |-> h, at |-> now]
Extended(f, key, v) == [k \in DOMAIN f \cup {key} |-> IF k = key THEN v ELSE f[k]]

AnswersInit ==
    /\ now = 0
    /\ held = 1
    /\ cache = [h \in 1..Len(PolicyHandlers) |-> <<>>]
    /\ answer = [route |-> "none"]
    /\ routes = {}

Tick ==
    /\ now < MaxTime
    /\ now' = now + 1
    /\ held' \in {held} \cup ({held + 1} \cap 1..NumPeriods)
    /\ UNCHANGED <<cache, answer, routes>>

-----------------------------------------------------------------------------
\* Mutant of MergedJson: a hit is the answer.
MergedJsonReturns(s, h, p) ==
    LET c == s.cache[h]
        hit == p \in DOMAIN c /\ now - c[p].at < Ttl
        doc == Extended(s.doc, PolicyHandlers[h].schema, Fresh(h))
    IN  IF PolicyHandlers[h].empty THEN s
        ELSE IF hit THEN [s EXCEPT !.doc = c[p].doc]
        ELSE [doc |-> doc, cache |-> [s.cache EXCEPT ![h] = Extended(c, p, [at |-> now, doc |-> doc])]]

\* Mutant of MergedJson: the document is also emptied when the cache is old.
MergedJsonClears(s, h, p) ==
    LET c == s.cache[h]
        hit == p \in DOMAIN c /\ now - c[p].at < Ttl
        old == p \in DOMAIN c /\ ~hit
        doc == Extended(IF hit THEN c[p].doc ELSE IF old THEN <<>> ELSE s.doc,
                        PolicyHandlers[h].schema, Fresh(h))
    IN  IF PolicyHandlers[h].empty THEN s
        ELSE [doc |-> doc, cache |-> [s.cache EXCEPT ![h] = Extended(c, p, [at |-> now, doc |-> doc])]]

\* Mutant of MergedJson: the handlers share one cache.
MergedJsonShared(s, h, p) ==
    LET c == s.cache[1]
        hit == p \in DOMAIN c /\ now - c[p].at < Ttl
        doc == Extended(IF hit THEN c[p].doc ELSE s.doc, PolicyHandlers[h].schema, Fresh(h))
    IN  IF PolicyHandlers[h].empty THEN s
        ELSE [doc |-> doc, cache |-> [s.cache EXCEPT ![1] = Extended(c, p, [at |-> now, doc |-> doc])]]

\* window_merged_json of one handler, on the document and the caches so far.
MergedJson(s, h, p) ==
    LET c == s.cache[h]
        hit == p \in DOMAIN c /\ now - c[p].at < Ttl
        doc == Extended(IF hit THEN c[p].doc ELSE s.doc, PolicyHandlers[h].schema, Fresh(h))
    IN  IF PolicyHandlers[h].empty THEN s
        ELSE [doc |-> doc, cache |-> [s.cache EXCEPT ![h] = Extended(c, p, [at |-> now, doc |-> doc])]]

MergedPeriodBad(p) == p <= 1 \/ p > AnswerPeriods

SinglePeriodBad(p) == p >= AnswerPeriods \/ p >= held

Answered(route, docs) ==
    answer' = [route |-> route, status |-> 200, time |-> now, docs |-> docs]

\* A PeriodException of the first handler ends the request.
PeriodException(route, code) ==
    /\ answer' = [route |-> route, status |-> code]
    /\ UNCHANGED <<now, held, cache, routes>>

\* GET /api/v1/metrics/window/N: one document, handler after handler.
LegacyWindow(p) ==
    \/ MergedPeriodBad(p) /\ PeriodException("legacy window", 500)
    \/ /\ ~MergedPeriodBad(p)
       /\ LET done == FoldLeft(LAMBDA s, h : MergedJson(s, h, p), [doc |-> <<>>, cache |-> cache], Order)
          IN  Answered("legacy window", <<done.doc>>) /\ cache' = done.cache
       /\ routes' = routes \cup {"legacy"}
       /\ UNCHANGED <<now, held>>

\* GET /api/v1/policies/P/metrics/window/N: a document for each handler (an
\* empty one is erased).
PolicyWindow(p) ==
    \/ MergedPeriodBad(p) /\ PeriodException("policy window", 425)
    \/ /\ ~MergedPeriodBad(p)
       /\ LET One(s, h) == LET m == MergedJson([doc |-> <<>>, cache |-> s.cache], h, p)
                           IN  [docs |-> Append(s.docs, m.doc), cache |-> m.cache]
              done == FoldLeft(One, [docs |-> <<>>, cache |-> cache], Order)
          IN  Answered("policy window", done.docs) /\ cache' = done.cache
       /\ routes' = routes \cup {"policy"}
       /\ UNCHANGED <<now, held>>

SingleJson(doc, h) ==
    IF PolicyHandlers[h].empty THEN doc ELSE Extended(doc, PolicyHandlers[h].schema, Fresh(h))

\* The first period there is goes up to the top of the document; looking for
\* one in a handler that wrote nothing leaves a null under its key.
Hoisted(doc, h) ==
    LET d == SingleJson(doc, h)
        key == PolicyHandlers[h].schema
    IN  CASE "period" \in DOMAIN d -> d
          [] "period" \notin DOMAIN d /\ key \in DOMAIN d -> Extended(d, "period", d[key])
          [] OTHER -> Extended(d, key, [of |-> 0, at |-> now])

\* GET /api/v1/metrics/bucket/N: one window, without a cache.
LegacyBucket(p) ==
    \/ SinglePeriodBad(p) /\ PeriodException("legacy bucket", 500)
    \/ /\ ~SinglePeriodBad(p)
       /\ Answered("legacy bucket", <<FoldLeft(Hoisted, <<>>, Order)>>)
       /\ UNCHANGED <<now, held, cache, routes>>

\* GET /api/v1/policies/P/metrics/bucket/N.
PolicyBucket(p) ==
    \/ SinglePeriodBad(p) /\ PeriodException("policy bucket", 425)
    \/ /\ ~SinglePeriodBad(p)
       /\ Answered("policy bucket", [h \in 1..Len(PolicyHandlers) |-> SingleJson(<<>>, h)])
       /\ UNCHANGED <<now, held, cache, routes>>

AnswersNext ==
    \/ Tick
    \/ \E p \in Periods : LegacyWindow(p) \/ PolicyWindow(p) \/ LegacyBucket(p) \/ PolicyBucket(p)

AnswersSpec == AnswersInit /\ [][AnswersNext]_answersVars

-----------------------------------------------------------------------------
Good == answer.route # "none" /\ answer.status = 200

\* What a policy's route says of a handler was read for that request, however
\* its caches were filled before: a cached document never stands in for the
\* handler's own windows.
OwnWindowIsFresh ==
    Good /\ answer.route \in {"policy window", "policy bucket"} =>
        \A h \in DOMAIN PolicyHandlers : ~PolicyHandlers[h].empty =>
            /\ Shown(answer.docs[h], h)
            /\ answer.docs[h][PolicyHandlers[h].schema] = [of |-> h, at |-> answer.time]

\* As long as only the policy's own route is asked for merged windows, a
\* handler's document holds nothing but that handler.
DocumentsStayApart ==
    Good /\ routes = {"policy"} /\ answer.route = "policy window" =>
        \A h \in DOMAIN PolicyHandlers : DOMAIN answer.docs[h] \subseteq {PolicyHandlers[h].schema}

\* As long as only the 3.0.x route is asked for merged windows, its document
\* has every handler, cached or not.  The document about one window always has,
\* and its period is that of the first handler with something to show.
LegacyDocumentIsWhole ==
    LET told == {h \in DOMAIN PolicyHandlers : ~PolicyHandlers[h].empty}
    IN  /\ Good /\ routes = {"legacy"} /\ answer.route = "legacy window" =>
              \A h \in told : Shown(answer.docs[1], h)
        /\ Good /\ answer.route = "legacy bucket" =>
              \A h \in told :
                 /\ answer.docs[1][PolicyHandlers[h].schema] = [of |-> h, at |-> answer.time]
                 /\ answer.docs[1]["period"].of <= h
=============================================================================
