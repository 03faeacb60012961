# Verification of pktvisor

TLA+ models of the parts of pktvisor where threads, time and failure meet, TLC
runs that check them on small instances, and TLAPS proofs of the main safety
properties for every value of the constants.

## The system

pktvisor attaches to an *input stream* (a network interface, a capture file, a
dnstap socket, flow datagrams, active probes) and hands its events to *stream
handlers*, which keep metrics in time windows. A *policy*, loaded from YAML or
through the admin API, names a *tap*; the tap says which input to use, and the
policy which handlers to put on it. Metrics leave the program as JSON, as
Prometheus text when scraped, or by an OpenTelemetry exporter that runs on a
timer.

| Part | Source | Threads |
| --- | --- | --- |
| metrics windows | `src/AbstractMetricsManager.h`, `src/StreamHandler.h` | the input's threads write, HTTP threads and the exporter read |
| OpenTelemetry exporter | `src/OpenTelemetry.h`, `src/StreamHandler.h`, `cmd/pktvisord/main.cpp` | one timer thread |
| policies | `src/Policies.cpp` | HTTP threads; one load at a time, one removal at a time |
| inputs and handlers, their managers | `src/InputStream.h`, `src/AbstractManager.h`, `src/InputStreamManager.h`, `src/HandlerManager.h` | same |
| taps and admin routes | `src/Taps.cpp`, `src/CoreServer.cpp` | HTTP threads |
| transaction manager | `libs/visor_transaction/TransactionManager.h` | the input's threads |
| handlers: dns (v1, v2), net (v1, v2), flow, dhcp, netprobe, bgp, pcap, input_resources | `src/handlers/` | the input's threads |
| inputs: pcap, dnstap, flow, netprobe, mock | `src/inputs/` | their own loops |
| metric types, serializers, GeoDB, LRU list, configuration | `src/Metrics.*`, `src/PrometheusSerializer.h`, `src/GeoDB.cpp`, `src/VisorLRUList.h`, `src/Configurable.h` | whoever calls |
| libraries: DNS, TCP, HTTP client, utilities | `libs/` | whoever calls |
| bundled libraries: sketches, frame streams, timers | `3rd/datasketches`, `3rd/fstrm`, `3rd/timer` | whoever calls; I/O and timer threads |
| daemon, reader, command line UI | `cmd/`, `golang/` | main thread |

`PROJECT.json` lists every part with its status ("components") and the places
where this code is hard to test ("hazards").

## Modules

A module may hold several machines that share definitions; each then has an
initial condition, a next-state relation and variables of its own (`QueueInit`
and `ControlInit` of `FrameQueue`).

A *suite* is an MC module that puts the instances of several modules side by
side in one run: a bank of variables, of which each behaviour uses those of one
`part`, chosen at the start and never changed. Parts do not interact, so a suite
checks exactly what a run per part would.

Windows and their way out:

| Module | What it models |
| --- | --- |
| `MetricsBuckets` | the container of windows: shift, expiry, which closed windows the exporter still owes |
| `MetricsWindow` | a handler fed by a live input: writer threads, exporter, scraping readers |
| `WindowExport` | what the exporter promises; the abstract specification `MetricsWindow` implements |
| `RecordedStream` | the same container fed by the replay of a capture file |
| `PeriodListing` | `common_info_json`: the list of windows, asked anew for every field while windows shift |
| `PolicyOutputs` | the metrics and policy routes as several steps into the policy manager, with removals between; the push of a policy that merges like handlers; the JSON answers and the cache of merged windows |
| `ResourcesWindow` | the counts of attached policies, carried from window to window |
| `RateTimer` | the rates of a window, and the timer thread that samples all of them |

Policies, taps, configuration, start-up:

| Module | What it models |
| --- | --- |
| `PolicyLifecycle` | `PolicyManager::load` with its rollback, `remove_policy`, inputs, handlers, resources policies |
| `TapRoutes` | the admin routes on taps and policies, with the locks of both managers |
| `Commands` | `pktvisord`: where every option comes from, the steps of `main` in order, each of which may end the process; its configuration document with taps and their tags, global handler configurations and the keys a handler gets; `pktvisor-reader`: one file, its handlers, the signal handler, the window that is written |

Handlers. A bucket's module says which event counts where, what a merge takes
and what each output writes; `HandlerBuckets` is the machine they share.

| Module | What it models |
| --- | --- |
| `HandlerBuckets`, `MetricGroups` | events, merges and the three outputs of any handler; capture drops, reported as totals and counted as differences; the certificate expiry, a gauge, across merges; what `start()` connects and `stop()` disconnects |
| `DnsBuckets`, `NetBuckets` | both versions of the DNS and of the net handler |
| `OtherBuckets` | the flow, DHCP, BGP and netprobe handlers |
| `DnsTransactions` | `TransactionManager` and the pairing of queries and responses in the DNS handler (v2) |
| `DnsFilters` | the filters of both DNS handlers, from the texts of the settings to the counted message; the predicates of DNS v1 and the message cached per thread |
| `TcpSessions` | TCP connections of a capture, the list that bounds them, idle cleanup; how the DNS and BGP handlers cut the streams into messages |
| `FlowSettings` | device maps, subnets and AS names of the flow handler, and the names it caches; host subnets, their parser, the direction of a packet |

Inputs and what they parse:

| Module | What it models |
| --- | --- |
| `PcapInput` | the life of a capture: caller, capture thread, mock generator, signal handler, AF_PACKET ring |
| `InputLoop` | the libuv loops of the dnstap (Unix, TCP) and flow (UDP) inputs: start with its failures, clients, stop |
| `FrameStream` | a frame stream from libfstrm's writer to the dnstap input or to a file reader, cut anywhere, broken anywhere |
| `FrameQueue` | libfstrm's I/O thread and the lock-free ring it reads; control frames as they are encoded and decoded, intact and damaged |
| `FlowParsers` | NetFlow and IPFIX: templates, flowsets, members of another width than the field; sFlow samples and the header inside them |
| `DnsMessage` | the records of a DNS message, parsed and built; names with pointers, aggregation behind suffixes |

Probes:

| Module | What it models |
| --- | --- |
| `NetProbeInput` | `NetProbeInputStream::start`: checks, loop, probes; the timers of a ping test; replies from one receiver to all probes and their handlers |
| `TcpAttempts` | the attempts of a TCP probe and the one outcome of each |
| `HttpTransfers` | `HttpClient`: curl's transfers on one loop, callbacks that start or close |
| `ProbeVerdicts` | captured headers and body, status rule, assertions; names and queries of a DNS over HTTPS probe, and the verdict on an answer |

Metric types and pure algorithms:

| Module | What it models |
| --- | --- |
| `FrequencyBounds`, `FrequentItems` | what a top-N table promises; the sketch with its open-addressing table, which implements it |
| `QuantileSketch`, `QuantileExports` | the KLL sketch; its use by readers that hold a shared lock together |
| `CardinalitySketch` | the set of coupons by open addressing; the CPC sketch built on it, with its unions |
| `MetricOutputs` | the rows a top-N metric writes in each output; the text of label values; families and labels of the Prometheus output |
| `GeoLookup` | location and AS databases, looked up by several threads through one LRU list |

`MCHandlers`, `MCInputs`, `MCAgent` and `MCEndings` are the suites; the other runs
check a module as it is. The theorems are in `MetricsWindowProofs`,
`WindowExportProofs`, `WindowRaceProofs`, `DnsTransactionsProofs` and
`EndingsProofs`, and at the end of `PeriodListing`, `ResourcesWindow` and
`FrequencyBounds`.

### MetricsBuckets, MetricsWindow, WindowExport

`win` is the sequence of all windows ever made, the live one last; `oldest` is
the back of the deque `_metric_buckets`. What lies before it is destroyed in the
code and kept here only as history. A step of a thread is one critical section:
`NewEvent` and `CheckPeriodShift` are the section of `_base_mutex` in which
`new_event` and `check_period_shift` decide to shift; `PeriodShift` is the
section of `_bucket_mutex` in `_period_shift`; `Restamp` the one that moves
`_next_shift_tstamp`; `CountEvent`, `LiveBucket` and `Record` are the counting
of the event, the raw pointer `live_bucket()` returns, and the write through it.
`Export` is the whole of `window_closed_opentelemetry`, which holds both locks, for
a handler with some group enabled (with none it writes nothing).
`CurrentPeriods` and `WindowPrometheus` are the two lock sections of a scrape.
What a handler records is one number, `metrics`, beside the base class's event
counter.

Writers are the threads that call into one handler. Most inputs have one. A
libpcap input has two, as its statistics callback sends the heartbeat.

Time is a clock in seconds. A stamp is up to `MaxLag` old when its processing
ends, and a check of the exporter comes up to `MaxPost` late. The assumption
`CheckedInTime` (`ExportSec + MaxPost + MaxLag < PeriodSec`) is what the clamp
in `main.cpp` leaves room for: the interval is at most half a window. The code
does not bound a POST; a POST slower than the rest of the window is outside the
assumption.

### RecordedStream

One thread replays the file, with the stamps of its packets in any order. The
first packet sets the start of the live window (`Open`), the end of the file
closes it (`End`), and afterwards `closeAllConnections` may deliver the events
TCP reassembly still held (`Flush`). With a file of fewer than two packets the
code reads an uninitialised `end_tstamp`; the model takes any stamp. The
exporter has no time relation to the replay. With one period it asks
`closes_windows()` and pushes the live window in two separate steps.

### PolicyLifecycle

The state is the three module maps (`reg`, `inputs`, `handlers`), what the
modules know of each other (`streams`, `attached`, `proxies`, `hrun`, `irun`),
and the program counters of one load and of one holder of the policies' lock.
Every step of `load` may fail, and the rollback then runs step by step. Each
action is a critical section of one mutex. `dangling` records a policy left
with a pointer to a destroyed module; `Spec` stops there, as what follows is
undefined. `CalmSpec` differs from `Spec` in one thing: a removal, once begun,
runs to its end before the load goes on. The properties that hold only then are
checked there; that they fail otherwise is what the violation runs show.

### TapRoutes

A step is a critical section of a manager's map lock. Only `DELETE /taps` waits
for one lock with another held, so only it has an owner recorded. `QuietSpec`
keeps a deletion apart from other deletions and from loads that already found
their tap. GET routes change nothing and are left out.

### DnsTransactions

`open` holds the three transaction managers (in, out, unknown) under the keys
of the code, flow and id. `ProcessQuery`, `ProcessResponse`, `FilteredQuery` and
`FilteredResponse` are the two branches of `process_dns_layer` and of
`process_filtered`, each with the window shift `new_event` may cause and the
purge `on_period_shift` does. Whether a packet passes the filters is a free
choice. `FilterFlow` is the key the caller passes to `_filtering`: the flow for
UDP, the protocol type for a TCP message. Stamps do not decrease, the handler
keeps more than one period (with one, nothing is ever purged), and one thread
calls it: the map has no lock, so with two threads anything may happen.
`asked` and `seen` are history: what was on the wire.

### The other modules that have threads, callbacks or time

- `PolicyOutputs`: each call into the policy manager is one step under its lock; a
  request is several, and what it learned in one may no longer hold in the next.
  A policy is the number of the load that made it, so that a name used again is
  not taken for the same policy. The steps of its pushes and answers, and those
  of `PeriodListing`, have the same grain.
- `PcapInput`: `Caller` is `start()`, `stop()` and the destructor step by step,
  `Capture` the thread of the source, `Network` the kernel that fills the ring.
- `InputLoop`: the caller's steps, and the I/O thread as libuv runs it: events,
  close callbacks, then the stop flag. `loop` records what `uv_loop_close`
  answered. Each transport has its own actions, as the code has.
- `FrameStream`: `toReader` and `toWriter` are the pieces in flight; a reader
  takes any prefix, `Break` cuts the connection at any point.
- `FrameQueue`: the loads and stores of the ring in program order, which the
  barriers of the code keep.
- `TcpAttempts` and the ping test of `NetProbeInput`: time in ticks; a loop that is
  blocked runs its timers late, and a cancelled callback comes a turn later. The
  network loses, delays, reorders and repeats replies to pings.
- `HttpTransfers`: curl is external. It holds a transfer, asks for a socket or a
  timer, and is driven until it is done; `done` is what `check_multi_info` has
  drained and not yet called back.
- `RateTimer`: the timer walks its events under its own lock, and the owners of
  the rates cancel and free them between its steps.
- `QuantileExports`: `std::sort` as exchanges of neighbours, each a read and a
  write, by readers that hold a shared lock together.
- `GeoLookup`: search, read and put are three steps of a thread.

The rest are sequential: an event, a message, a datagram or a document is one
step or a loop of steps, and the property compares the result with a definition
that does not share the algorithm (the sketches with exact counts, the address
tests with ranges, decoded names with the encoded ones).

## Runs

| Run | Result | What it shows |
| --- | --- | --- |
| `live_one_writer` | holds, 79,064 states | With one input thread, every closed window is whole, never changes again and is pushed exactly once, at the first check after it closes; none expires unpushed. `MetricsWindow` implements `WindowExport`. |
| `live_two_writers` | holds, 1,683,284 states | What survives a second thread that shifts: each window ends where the next starts (which may be before its own start, when the racing stamps are out of order), no write into a destroyed window, no window pushed twice, no scrape that throws. |
| `handlers` | holds, 51,068 states | Each of the eight handlers with every set of groups: a merge keeps what its parts wrote, the three outputs agree, counters balance. A stopped handler is connected to nothing; drops add up over windows; policies are counted exactly as long as no shift falls due within a change; a merged expiry is the newest. |
| `inputs` | holds, 511,911 states | What inputs make of what arrives, part by part below. |
| `agent` | holds, 381,893 states | How the agent is configured, started and asked, and what its sketches promise. |
| `endings` | holds, 101,962 states | What must end, and cleanly: safety and liveness of loads, loops, streams, requests and timers. |
| `two_writers_lose` | violated | A window may expire unpushed when two threads shift for one period. |
| `policy_race` | violated | A removal destroys an input a load joined after the removal counted its policies. |
| `taps_two_deletes` | violated | Two deletions of taps wait for each other for ever. |
| `dns_tcp_orphans` | violated | A filtered TCP query is filed under a wrong key, and its response counted as an orphan. |
| `quantile_race` | violated | A DNS handler's shift and an export sort one sketch in place together, and a sample is lost. |
| `resources_double` | violated | A policy attached while a shift is due is counted twice. |

The violated runs are disagreements between the code and its own comments or
documentation; "findings" in `PROJECT.json` quotes the lines.

Where a property has exceptions, because the code has them, the comment above it
names each one. `inputs`, by part:

- DNS pairing over UDP: a query ends at most once, is counted only within the
  TTL, times out only near it, and an orphan has no query.
- NetFlow and IPFIX: the last announcement of a template rules, a datagram
  delivers exactly the records its sender meant, the process ends only at data of a
  template without length, and a field that fits its member keeps its value.
  A template cut inside a field, or with bytes left over behind it, is taken or
  rejected as the bytes behind it say, and the property excepts what such a
  template then means. sFlow: all samples of a datagram or none, none with fields of
  another.
- DNS messages: the list of records matches the bytes, sections do not move,
  removed nodes are freed; names decode to what was encoded, and an aggregate is
  a suffix of whole labels.
- Open connections are tracked and idle ones closed; bytes of a TCP stream are
  conserved and every message in it is handed on. The list of overflowing
  connections is walked while closing one of them may add to it
  (`PcapInputStream.cpp:467`); `OverflowWalkedInPlace` says that it can grow on the
  last turn only, after which nothing is read from where it was. A message judged by
  a stale cache has one of the named causes, and a packet that passes is counted
  once for each predicate that picks it.
- Frames: every entry is freed once and written in order; control frames read
  back as they were written.
- Filters: what is counted was asked for, what was asked for is counted, and the
  size of a suffix is of its own message. DNS v1 counts a message over UDP once for
  every listed code and name that means it, so possibly twice; `CountedPerText` says
  how often.
- Probes: ping tests complete and send no packet too many; more answers than
  attempts are never counted; a DoH success answers the name that was asked; a
  check that passes is true of the whole response, and one that fails has a
  cause.

`agent`: probing finds every entry of a top-N table and its bounds enclose the
truth, up to the offsets that merges with emptied tables drop; ranks and quantiles
are within the error the compactions made; coupons
survive every change of form and every union. Rows describe one item and the
largest are shown. A daemon that serves does what was asked and one that ends has
a cause. A scrape of all policies is whole in spite of removals. Merged pushes
send each window once, with windows of its class, also when a handler drops one
while the push is under way. Handlers get their keys from
the places the code names. The direction of a packet is the side of its host.
Lookups answer for their own address. Documents of routes stay apart. Label values
that differ stay different; a family is one block.

`endings`: the properties of `PolicyLifecycle` and `TapRoutes` under `CalmSpec`
and `QuietSpec`; a stream ends with all frames or with a cause; `stop()` returns
with a loop closed clean; an attempt, a request, a route ends; the last window of
a replayed file is pushed; cancelled rates leave the timer.

With two writers `StartsIncrease`, `MarkerExact`, `WholeEvents`,
`EventInItsWindow` and `ClosedFrozen` fail as well, from the same double shift
or from a shift between `live_bucket()` and the write. Without the restriction
of `CalmSpec`, `PoliciesServed` fails, as a load joins an input between the check
and the stop, and so does `StoppedByOwnRemoval`: when removals and loads overlap,
a policy that has the name of an input's resources policy may come to be taken
for it and stopped in its place. Without that of `QuietSpec`, `NoDanglingTap`
fails: a loading policy has the pointer already and is not registered yet. These
have the causes of the listed runs, or a hazard entry of their own, and no run.

### Bounds

- Two periods are kept in the live runs: a closed window is held for the
  shortest time. Three or more windows are made in each run, so windows expire.
- `live_one_writer` runs for three windows of 5 seconds, checks every 2.
  `live_two_writers` runs for two shifts with 3 seconds and a check every
  second. All stamps have the same nanosecond part in the runs; the proofs
  allow any.
- `handlers`: two events for the handlers with few event kinds and one for the
  large ones, in up to two windows that are merged; every event and every set of
  groups is tried. Metrics do not interact, so one event shows where each goes
  and whether a merge takes it, and two whether a merge adds up.
- Pairing in `inputs`: one flow and one id, three directions, three packets, a
  TTL of 2.4 s, windows of 4 s and a clock in steps of 0.6 s: a reply may come
  before and after the TTL with and without a borrow between seconds, and before
  and after a purge. Two flows or ids do not interact, as the maps are keyed by
  both.
- Sizes are scaled down together with what they limit: a ring of four slots with
  five entries, two connections in a list for three flows, bytes of two bits in
  addresses of four, sketches that purge, compact and move their window within
  eight updates, two cells of a name for 63. Every limit is passed in some
  behaviour.
- `endings`: three policies and two inputs, shared and not, one filter, and a
  policy that has the name of the second input's resources policy; two threads,
  two taps, two policies and seven requests on taps; five packets with any stamps
  out of seven seconds, windows of two seconds and one or two periods; two
  clients, two starts; two data frames and a control frame in pieces; three
  requests of the HTTP client; two windows of rates.
- The merged push of `agent`: three periods, so that a handler holds two closed
  windows, and three windows closed by each of up to three handlers: the first one
  is dropped before, while and after a push takes it.
- The bounds of a module are its `Max*` constants; they occur in guards only.

Deadlock is checked in the two live runs. The other runs bound their packets,
requests and loads, or stop where the code's behaviour becomes undefined.

### Fairness

All fairness is weak. None is assumed of the network or a user, and of a peer only
that libfstrm's writer, which is code of this repository, goes on.

- `RecordedStream`: the exporter's timer keeps firing, and a file is finite, so
  its end is reached.
- `PolicyLifecycle`, `TapRoutes`: a thread inside a request goes on whenever the
  lock it needs is free. No request has to be asked.
- `FrameStream`: both ends, the session that reads and libfstrm's writer, go on when
  they have something to read or write. A writer that stops for ever without closing
  its connection is outside this; the code has no timeout for it.
- `InputLoop`: the caller goes on, and a libuv loop runs its async event and its
  close callbacks and is then closed. Clients need not do anything.
- `TcpAttempts`: time passes, the interval timer fires, a cancelled callback is
  delivered. The target need not answer.
- `HttpTransfers`: the loop drives curl when a socket or the timer is ready.
- `PcapInput`: the caller's thread and the capture's thread run. Packets need not
  arrive, which is why `CallerReturns` excepts a thread that sits in `poll`.
- `RateTimer`: the timer's thread runs, and a `cancel()` under way goes on.
- The other specifications have safety properties only and no fairness.

## Proofs

Each theorem holds for every value of the constants that satisfies the named
assumptions of the module.

**`MetricsWindowProofs`**, from `WindowConstants`, begins with lemmas on the
container of `MetricsBuckets`: what a shift, an expiry, a push, a count and a
write change and keep. `BoundInv` is the inductive
invariant for any number of writers: types, `WindowBound`, `Contiguous`, the live
window is not closed, and the pointer of a writer about to record is to a window
that was made. The last two are what `Contiguous` and the types need to be
inductive. From it: `TypeCorrect`, `WindowsBounded`, `WindowsContiguous`. For one
writer, `WholeInv` adds that the pointer of the writer is to the live window and
that the live window is ahead by one event exactly while the writer is between
counting and recording; `WindowsHoldWholeEvents` and `ClosedWindowsFrozen`
follow.

**`WindowExportProofs`** is about the exporter, from `WindowConstants` and
`CheckedInTime`, for one writer. `ExportInv` is `BoundInv` and four more facts: the marker is exact, and
windows start in different seconds, so that it can be; only the newest closed
window may be unpushed, and then the last check was at most `MaxLag` after it
closed; the clock is never more than `ExportSec + MaxPost` past the last check,
nor more than `MaxLag` past a stamp being worked on; and the next shift is due one
period after the live window started. Together with `CheckedInTime` the timing
says that a check comes before the next shift can expire the unpushed window:
`NoneExpiresUnpushed` is not inductive without it. From it: `NoWindowLost`,
`MarkerIsExact`, `WindowStartsIncrease`, `EventsInTheirWindows`, and
`ImplementsExport`, the refinement of `WindowExport`.

**`WindowRaceProofs`** is about several threads on one handler, from the same
assumptions.

- `ScrapesNeverThrow`, for any writers and readers. `ReaderInv` says that a reader
  between its two locks knows of no more windows than are held now: a shift drops
  a window only to add one (`SizeGrows`).
- `NoWriteToExpired`, for two writers (`TwoWriters`), the packet thread and the
  statistics thread of libpcap, and `2 * MaxLag < PeriodSec`. `RecordInv` says that
  a pointer is to the live window or to the one before it, and in the second case
  that the other writer has just shifted and will not do so again before the
  pointer is used. Two periods are always held, so that the window before the live
  one is. Both conditions are needed: a third writer may shift again, and so may
  the second one when the first is slower than half a window.
- `NonePushedTwice`, for two writers, without a condition on `MaxLag` beyond
  `CheckedInTime`. Two racing writers may make windows whose starts do not
  increase, which is what the marker relies on. `RaceInv` has three parts.
  `WaitingInv`: between two checks each writer shifts at most once, as the next
  shift is due after the deadline of the next check, so at most two closed windows
  wait for a push; and while a further shift may come, the later of them does not
  start before the earlier. `Stamped` relates the stamps of shifts under way to the
  live window, which says who made it. `PushedOnceInv`: a pushed window does not
  start after the marker. With three writers the property is false.

**`DnsTransactionsProofs`**, from `DnsConstants`, `FiniteKeys` and `NoXactIsNone`.
`DInv` says that the types hold, the last shift and every open transaction are
not in the future, and `OpenAreRecent`. `DiffExact` shows that `timespec_diff` and
the comparison by seconds and rest agree with a comparison in milliseconds as
long as the query is not after the response, which `DInv` supplies. From it:
`DnsTypeCorrect`, `OpenTransactionsRecent`, `TransactionsInTime`, and
`YoungAreNotPurged`, for which the purge's comparison of whole seconds is shown to
take only transactions that are `Stale`. `QueriesCountedOnce` is inductive with
`DInv`; its lemmas count open keys: a query opens at most one, a response closes
one for what it counts, a purge loses what it times out. `OrphansAnswerNothing` is
for UDP (`"tcp" \notin Transports`) and rests on `AskedAreOpen`: a query on the wire
that is not stale is open under its key, with its stamp. Over
TCP a filtered query is filed under another key, so that this fails; that is what
`dns_tcp_orphans` shows.

**`EndingsProofs`** is about the life of policies and of TCP attempts.

`AttemptsCountedOnce` (`TcpAttempts`) is for any interval, timeout and time
to live. `OutcomeOnce` alone is not inductive, as it says nothing of an attempt
under way. `AInv` adds that a connecting attempt has no outcome yet and that its
client is the one the probe holds, so that a late callback of an earlier
connection is told apart; and that an attempt which is over has its outcome,
unless its transaction was cleared by a shift.

The rest is about `PolicyLifecycle`, for any policies, inputs and lists of taps,
from `LifecycleConstants`. The theorems are about `CalmSpec`: a removal may fall
between any two steps of a load, and once begun runs to its end. Without that the
properties are false, which `policy_race` shows. They have one hypothesis more,
`NamesApart`: no policy is loaded under the name that the code gives to the
resources policy of an input. The code does not refuse such a name while it is
free, and the theorems are false without the hypothesis: the load of a policy
called like the resources policy of its own input fails at its last step, and a
`DELETE` of that name during the rollback takes the resources policy, and with it
the input, away (TLC finds `ResourcesHaveInput` violated after 20 steps). It is no
assumption of the module, because `endings` has such a policy; there the name is
loaded and rolled back, and no `DELETE` names it (`Deletable`).

`NothingLeaked` and `PoliciesServed` speak of the state between requests and are
far from inductive. `LifecycleInv` says the same of every moment, with what is
open there named:

- `AllServed`, `AttachedBy`, `StartedBy`, `HandlersBy`, `StreamsBy` relate policies,
  inputs and handlers. A policy that is registered and not being removed has its
  handlers and inputs running and is counted by them; whoever is counted, runs, or
  has a handler, is registered or is what the load in progress has made.
- `InputsUsed`: an input is there because of an ordinary policy on it, because the
  load in progress made it, or because the removal in progress has still to look
  at it. `FreshOwn`: on an input the load made there is no registered policy but
  its resources policy, so that a rollback may take it away.
- One clause per stage of `load` (`IdleNow` to `UndoingNow`) says how far the policy
  is built or undone; `LockNow` and `StepNow` say the same of a removal, and that
  what its last test saw of an input still holds when the next step acts on it.
- `FiniteLaws` are facts about finite sets and numbers, shown once at the end of
  the module from the library's theorems.

`LifecycleInductive` is the invariant itself. From it: `RequestsLeakNothing`,
`RegisteredPoliciesServed`, `NoPointerDangles`, and the action properties
`PoliciesStoppedByOwnRemoval` and `RemovedInputsUnused`. For
`ResourcesPoliciesHaveInput` the invariant is joined by `LeavingResourcesNow`: a
resources policy that is itself asked to go leaves an input that an ordinary policy
is on, so that the input stays. Under `NamesApart` nothing can fail
after `Policy::start` has returned, so the proofs show the last part of the rollback
(`RollbackStopInput`, `RollbackResourcesRemove`) and the undoing of a resources policy
that could not be registered (`UndoResourcesCheck`, `UndoResources`) to be out of
reach; only TLC exercises them, in `endings`, with the names taken.

**`ResourcesWindow`**: `PolicyCountInCalm`, for natural `MaxClosed` and
`MaxPolicies`, and `Calm`: no shift falls due within a change. `RInv` follows the
change through its three steps: what is left of it is what the live bucket lacks
of the total. Without `Calm` the property is false, which `resources_double`
shows.

**`PeriodListing`**, for `NumPeriods` and `Fields` above zero: `NoListingThrows`,
`RowsAlwaysMoveForward` and `LastingAlwaysListed`. `WInv` says that windows are held
newest first and that those expired are older than all of them; `LInv` adds that
the row a listing is at exists and that a window it took is never newer than the
one now at that place, as shifts only bring newer ones there. For the third
theorem, `KInv` says that a window held since the listing began is in a row
already or `Ahead`: at a later place, or at the place of the row, and then it is
also the window the next field is read from.

**`FrequencyBounds`**, for any items, natural weights and merged tables whose own
bounds are true. `merge()` returns at once when the other table tracks nothing
(`frequent_items_sketch_impl.hpp:69`, `90-92`), also when a purge has emptied that
table, and then its offset is dropped; `lost` adds these offsets up.
`BoundsEncloseUpToLost`: after an update, a purge that takes one amount off every
count and adds it to the offset, and a merge, the lower bound is true, and the upper
bound falls short by `lost` at most. `GuaranteedUnlessEmptied`: the bounds
enclose the truth, as `frequent_items_sketch.hpp:142-146` says, when no merged table
has been emptied or comes from a merge with one that was. That the open-addressing
table of `FrequentItems` takes only such steps is `PurgeIsUniform`, which TLC checks
in `agent`.

Every property of the two live runs, of DNS pairing and of the listing has a
theorem, and so have the safety properties of `PolicyLifecycle`. Only
model-checked: all liveness, and what is said of recursive definitions (sketches,
names, encodings, parsers), which are out of the prover's reach; `RecordedStream`
and `TapRoutes`, whose safety depends on many program counters at once; and every
module not named above.

## What the code does that the properties except

Each of these was met while modelling and has no run of its own. Properties
except them by name, or the model leaves the case out as stated.

Windows and outputs
- With one period, the end of a recorded stream between `closes_windows()` and
  the push of the live window makes one window be pushed twice
  (`StreamHandler.h:273`); `ClosedPushedAtMostOnce` is about more than one.
- A hit in the cache of merged windows replaces the document being written and
  does not return (`AbstractMetricsManager.h:703`). The 3.0.x route and the
  policy route share the cache, so asking both mixes their documents:
  `DocumentsStayApart` and `LegacyDocumentIsWhole` each speak of one route.
- A period that is not there is answered by 425 on the policy route and by 500 on
  the 3.0.x one.
- `common_info_json` uses a window's pointer after the lock is gone
  (`StreamHandler.h:196`). `RowsMoveForward` shows that only the oldest window can
  have gone by then.
- A rate's callback may run once more after `cancel()` (`Metrics.h:837-875`, though
  line 826 says "this class _is_ thread safe"); `OneLateSample` bounds it for a
  rate that still exists. `Rate::merge` is not in the model.
- A top-N table that a purge has emptied is merged as if it had never counted
  anything, so that the upper bounds of the result may be too low
  (`frequent_items_sketch_impl.hpp:69`); `PurgeIsUniform` counts what is missing.
- A geographic top-N table written to OTLP has one label map for all its rows
  (`Metrics.h:756-779`), so a row may carry the place of an earlier one; the loop for
  Prometheus says why it does not (`651-652`).

Policies and configuration
- `consumer_count` asks the last event proxy only (`InputStream.h:79`).
- A load of several entries that fails keeps the entries before the failing one
  (`Taps.cpp:38`, `Policies.cpp:41` say "transactional").
- A route that got a policy from the manager uses it after the lock is gone
  (`CoreServer.cpp:323-325`).
- Global handler configurations after a type that is not available are not
  applied (`HandlerManager.h:95`); `HandlerGetsItsKeys` excepts them.
- The policies of the configuration file run before the Geo databases are enabled.
  Without `--otel-path` the exporter ends the daemon, where the usage text names a
  default (`main.cpp:97`); and so does a file of policies without interface and
  admin API, where the comment names the file as enough (`main.cpp:763`).
- `pktvisor-reader` offers sflow and netflow files and fails on each, as it attaches
  handlers that do not take them (`main.cpp:38`); with no period, or more than ten,
  it reads the whole file and then fails.

DNS
- Over TCP the callback of a side's first segment is kept, with its stamp, for all
  messages of that side; the comment says the time "is updated by pcpp to represent
  the time stamp from the latest packet in the stream". TLC refutes that reading of
  `TcpSessions` (`OwnStamp`) in five states.
- The message cache of DNS v1 is shared by predicates of captures started by one
  thread (`v1/DnsStreamHandler.cpp:490`); `StaleHasCause` says when that matters.
- In v1 a handler with `only_rcode` or `only_qname` gets UDP messages by predicate
  signals only, one call for every listed value that fits (`v1/DnsStreamHandler.cpp:205`,
  `PcapInputStream.h:245`): with both filters, or a value listed twice, a message is
  counted several times. A query never matches `only_rcode` there, but over TCP, or
  when it comes by its name, the code in its header is compared (`CountedIsAsked`
  excepts that).
- `only_rcode: []` acts as NOERROR only; `exclude_noerror` of v1 also drops
  queries; the suffix size of `only_qname_suffix` in v2 is used up by the query, so
  responses are aggregated without it.
- DNS v2 counts a filtered message in two places (lines 1164 and 1174); DNS v1
  counts DOT and DOH and writes neither out nor merges them.
- dnstap stamps are only set when the message has the time field (v1 1378-1413,
  v2 1206-1233); dnstap pairing in v2 is keyed by id and type of key alone. In v1 an
  event that is not sampled takes the bucket's lock twice (840-885, 1052-1054).

Inputs and probes
- A template whose fields all have length zero is stored, and data for it is divided
  by zero (`NetflowData.h:566`, `809`); `EndsOnlyAtZeroLength` says that nothing else
  ends the process. Template fields are tested for their first byte only
  (`NetflowData.h:345`, `866`), so that one cut in its middle is read with what lies
  behind it; `LastAnnouncementRules` excepts such templates.
- A handle that cannot be initialised makes `start()` throw with the loop unclosed
  (`DnstapInputStream.cpp:182-187`); `LoopClosesClean` excepts it. A reply that cannot
  be written ends a frame stream session by an exception
  (`UnixFrameSession.h:170-172`).
- `stop()` does not wait for the AF_PACKET thread; the signal handler of the reader
  closes connections inside a capture (`ReassemblyUsedAlone` excepts both); a file
  of at most one packet ends at an uninitialised stamp.
- An IPv6 prefix of zero and `0.0.0.0` match no host; an IPv4 wildcard of prefix
  zero shifts by the full width (`utils.cpp:112`).
- A ping test whose packets fill the interval exactly is let through, and a blocked
  loop then leaves a timer that `stop()` does not know (`StopClosesTimers`); more
  than 255 packets are cut to a byte.
- libfstrm's writer never resets `match` (`writer.c:185-204`), and its reader takes
  an oversized frame of a file for one without data (`reader.c:312-313`);
  `FramesInOrder` excepts the latter. Its encoder counts the header against the
  limit and its decoder does not (`LimitsAgree`).
- DHCPv6 messages are counted without lock and in no total. `OnlyIps` of the flow
  handler drops IPv6. The exporters of netprobe change gauges under a shared lock,
  and a shift forgets probes under way. An IPv6 address in the AS cache is keyed by
  its bytes without separator (`GeoDB.cpp:117`, `309`); `AnswerIsOfAddress` excepts
  addresses that read alike.

## Not modelled

- Plugins and their registry, and the mock input: tables filled at start, and
  random numbers for tests. `pktvisor-cli`: a client that lays out answers.
- Text and byte layout below the level of a property: YAML, protobuf, the command
  line parser's grammar, the text of resource data, the fields of counter samples,
  the mock's packets.
- Estimators of the cardinality sketch, which are floating point, and the
  serialisation of sketches with its compression tables
  (`compression_data.hpp`, `cpc_compressor`), which pktvisor does not call.
- The sockets of libfstrm's Unix and TCP writers and its `argv.c`, which pktvisor
  does not call.
- Pairing in DNS v1 and in the DHCP handler, which call the transaction manager as
  DNS v2 does, with one map and no orphans. The growing window of a merged push
  (`Policies.cpp:552-566`), process memory and CPU, hashing of configurations.
- Data races on unlocked containers (the transaction maps between a libpcap
  input's two threads, the merge cache): any outcome is possible, so nothing is left
  to state. The second shared lock in `merge` (`AbstractMetricsManager.h:181`)
  depends on the platform's `std::shared_mutex`. Both are hazards without a
  property.
