------------------------------ MODULE Commands ------------------------------
(***************************************************************************)
(* The two programs around the core: how pktvisord takes its options and   *)
(* its configuration file and starts or ends, how pktvisor-reader reads a  *)
(* capture file and prints a summary, and what a configuration document,   *)
(* from the file or the API, sets up.  They are specified apart.           *)
(***************************************************************************)
EXTENDS Naturals, FiniteSets, Sequences, SequencesExt

-----------------------------------------------------------------------------
(***************************************************************************)
(* pktvisord from its command line to the serving web server: where every  *)
(* option takes its value from (fill_cmd_options), and the steps of main   *)
(* in their order, each of which may end the process.  An option's value   *)
(* is the place it came from.  What the outside decides (a file that does  *)
(* not open, a port that is taken) is a choice.                            *)
(***************************************************************************)
CONSTANTS
    Groups,      \* sets of options that are varied together
    Intervals    \* the numbers that may be given for otel_interval

Flags == {"verbose", "daemon", "syslog", "no_track", "prometheus", "tls", "admin_api",
          "otel", "otel_tls", "module_list", "cp_disable"}

\* The weaker spelling of the options that have one.
Default == [geo_city |-> "default_geo_city", geo_asn |-> "default_geo_asn",
            iana |-> "default_service_registry"]

BuiltIn == {"geo_cache_size", "max_deep_sample", "periods", "port", "host", "otel_host",
            "otel_path", "otel_port", "otel_interval", "cp_custom"}

CmdOptions == Flags \cup DOMAIN Default \cup BuiltIn
              \cup {"log_file", "prom_instance", "tls_cert", "tls_key", "otel_tls_cert",
                    "otel_tls_key", "module_dir", "cp_token", "cp_url", "cp_path"}

VARIABLES
    args,      \* what the command line gives
    file,      \* what the file's visor.config gives
    config,    \* "none" without --config, else how the file reads
    interval,  \* the number given for otel_interval, 5 when none is
    options,   \* [option -> where its value is from]; "none" when it has none
    pc,        \* the next step of main, "serving" or "exited"
    cause,     \* why it exited
    running,   \* whose policies run: "file" (the file's), "iface" (the default one)
    every      \* seconds between two checks of the exporter, 0 when it is off

startupVars == <<args, file, config, interval, options, pc, cause, running, every>>

\* Mutant of FromSources: the file wins over the command line.
FromSourcesFileFirst(o) ==
    IF o \in file THEN "file"
    ELSE IF o \in args THEN "argument"
    ELSE IF o \in BuiltIn THEN "built in" ELSE "none"

\* The command line wins over the file; the weaker spellings follow.
FromSources(o) ==
    IF o \in args THEN "argument"
    ELSE IF o \in file THEN "file"
    ELSE IF o \in DOMAIN Default /\ Default[o] \in args THEN "default argument"
    ELSE IF o \in DOMAIN Default /\ Default[o] \in file THEN "default file"
    ELSE IF o \in BuiltIn THEN "built in" ELSE "none"

FromEither(o) ==
    IF o \in file THEN "file" ELSE IF o \in args THEN "argument" ELSE "none"

\* The file's otel_path is read when the file has an otel_host, and reading
\* one that is absent throws.
OtelPath ==
    IF "otel_path" \in args THEN "argument"
    ELSE IF "otel_host" \notin file THEN "built in"
    ELSE IF "otel_path" \in file THEN "file" ELSE "throws"

Resolved(o) ==
    IF o \in Flags THEN FromEither(o)
    ELSE IF o = "otel_path" THEN OtelPath ELSE FromSources(o)

Has(o) == options[o] # "none"

\* One group of options varies at a time; IFACE has no key in the file.
StartupInit ==
    /\ \E g \in Groups : args \in SUBSET g /\ file \in SUBSET (g \ {"iface"})
    /\ config \in {"none", "read", "bad"}
    /\ config # "read" => file = {}
    /\ interval \in Intervals
    /\ "otel_interval" \notin args \cup file => interval = 5
    /\ options = [o \in CmdOptions |-> "none"]
    /\ pc = "options" /\ cause = "none" /\ running = {} /\ every = 0

Goto(step) == pc' = step /\ UNCHANGED cause
Exit(why) == pc' = "exited" /\ cause' = why
Input == <<args, file, config, interval>>

----------------------------------------------------------------------------
(* The options. *)

FillCmdOptions ==
    /\ pc = "options"
    /\ IF config = "bad"
       THEN Exit("config file") /\ UNCHANGED options
       ELSE IF OtelPath = "throws"
       THEN Exit("otel_path") /\ UNCHANGED options
       ELSE options' = [o \in CmdOptions |-> Resolved(o)] /\ Goto("log")
    /\ UNCHANGED <<Input, running, every>>

----------------------------------------------------------------------------
(* The steps of main. *)

\* The log file is tried before the process detaches, and opened after; a
\* fork or a setsid that fails ends it as well.
Daemonize ==
    /\ pc = "log"
    /\ \/ Goto("crashpad")
       \/ Has("log_file") /\ Exit("log file")
       \/ Has("daemon") /\ Exit("fork")
    /\ UNCHANGED <<Input, options, running, every>>

CrashpadInfo == {o \in {"cp_token", "cp_url", "cp_path"} : Has(o)}

\* A handler that does not start is only logged.
StartCrashpad ==
    /\ pc = "crashpad"
    /\ IF ~Has("cp_disable") /\ CrashpadInfo # {}
          /\ CrashpadInfo # {"cp_token", "cp_url", "cp_path"}
       THEN Exit("crashpad")
       ELSE IF Has("module_list") THEN Exit("listed") ELSE Goto("web")
    /\ UNCHANGED <<Input, options, running, every>>

ConfigureWeb ==
    /\ pc = "web"
    /\ IF Has("tls") /\ ~(Has("tls_key") /\ Has("tls_cert"))
       THEN Exit("tls") ELSE Goto("otel")
    /\ UNCHANGED <<Input, options, running, every>>

Clamped(n) == IF n = 0 THEN 5 ELSE IF n > 30 THEN 30 ELSE n

ConfigureOtel ==
    /\ pc = "otel"
    /\ IF ~Has("otel")
       THEN Goto("server") /\ UNCHANGED every
       ELSE IF Has("otel_tls") /\ ~(Has("otel_tls_key") /\ Has("otel_tls_cert"))
       THEN Exit("otel tls") /\ UNCHANGED every
       ELSE Goto("server") /\ every' = Clamped(interval)
    /\ UNCHANGED <<Input, options, running>>

\* The plugins are set up and the routes made, then the port names are read.
CreateServer ==
    /\ pc = "server"
    /\ \/ Goto("file")
       \/ Exit("server")
       \/ Has("iana") /\ Exit("iana")
    /\ UNCHANGED <<Input, options, running, every>>

\* The taps and the policies of the file; its policies run from here on.
ConfigureFromYaml ==
    /\ pc = "file"
    /\ \/ Goto("geo") /\ running' = IF config = "read" THEN {"file"} ELSE {}
       \/ config = "read" /\ Exit("policies") /\ UNCHANGED running
    /\ UNCHANGED <<Input, options, every>>

InitializeGeo ==
    /\ pc = "geo"
    /\ \/ Goto("iface")
       \/ (Has("geo_city") \/ Has("geo_asn")) /\ Exit("geo")
    /\ UNCHANGED <<Input, options, running, every>>

DefaultPolicy ==
    /\ pc = "iface"
    /\ "iface" \in args
    /\ \/ Goto("start") /\ running' = running \cup {"iface"}
       \/ Exit("iface") /\ UNCHANGED running
    /\ UNCHANGED <<Input, options, every>>

\* Mutant of NothingToDo: the admin API alone is nothing to do.
NothingToDoWithoutPolicies ==
    /\ pc = "iface"
    /\ "iface" \notin args
    /\ IF running # {} THEN Goto("start") ELSE Exit("nothing to do")
    /\ UNCHANGED <<Input, options, running, every>>

NothingToDo ==
    /\ pc = "iface"
    /\ "iface" \notin args
    /\ IF Has("admin_api") THEN Goto("start") ELSE Exit("nothing to do")
    /\ UNCHANGED <<Input, options, running, every>>

StartServer ==
    /\ pc = "start"
    /\ Goto("serving") \/ Exit("bind")
    /\ UNCHANGED <<Input, options, running, every>>

StartupNext ==
    \/ FillCmdOptions \/ Daemonize \/ StartCrashpad \/ ConfigureWeb \/ ConfigureOtel
    \/ CreateServer \/ ConfigureFromYaml \/ InitializeGeo \/ DefaultPolicy
    \/ NothingToDo \/ StartServer

StartupSpec == StartupInit /\ [][StartupNext]_startupVars

----------------------------------------------------------------------------
(* Properties. *)

\* An option that is not a flag and is on the command line keeps that value in
\* a serving process whatever the file says, and the file's value is kept when
\* only weaker spellings compete; TLS, OTLP over TLS and the crash handler are
\* complete, and the exporter checks at least twice per 60 second window, so a
\* window held until the next one closes does not expire unpushed.
ServesAsAsked ==
    pc = "serving" =>
        /\ \A o \in CmdOptions \ Flags :
             /\ o \in args => options[o] = "argument"
             /\ o \in file \ args /\ o # "otel_path" => options[o] = "file"
        /\ \A f \in Flags : Has(f) <=> f \in args \cup file
        /\ Has("tls") => Has("tls_key") /\ Has("tls_cert")
        /\ Has("otel") => every \in 1..30
        /\ running # {} \/ Has("admin_api")

\* A process that ends by itself while the file, the ports and the databases
\* are all good was asked for something incomplete, or for nothing; a file of
\* policies alone ends it too.
EndsForCause ==
    /\ cause = "crashpad" => ~({"cp_token", "cp_url", "cp_path"} \subseteq args \cup file)
    /\ cause = "tls" => ~({"tls_key", "tls_cert"} \subseteq args \cup file)
    /\ cause = "otel tls" => ~({"otel_tls_key", "otel_tls_cert"} \subseteq args \cup file)
    /\ cause = "otel_path" => "otel_path" \notin args \cup file
    /\ cause = "nothing to do" => {"iface", "admin_api"} \cap (args \cup file) = {}

\* What the comment above the last check says: it ends the process only
\* without an interface, a configuration file or the admin API.
NothingToDoWithoutConfig == cause = "nothing to do" => config = "none"

\* What the usage text says of --otel-path: its default is /v1/metrics.
OtelPathHasDefault == cause # "otel_path"

-----------------------------------------------------------------------------
(***************************************************************************)
(* pktvisor-reader, which summarises one recorded file: it makes the input *)
(* stream, attaches the handlers that read it, runs the input to the end   *)
(* of the file or to a signal, and writes one window of every handler.     *)
(* SIGINT and SIGTERM are caught from the start, by a function that is     *)
(* given its work only once the input exists.                              *)
(***************************************************************************)
CONSTANTS Periods, MaxPackets

InputTypes == {"pcap", "dnstap", "sflow", "netflow"}

\* The event proxies that each handler's constructor takes.
Proxies == [net |-> {"pcap", "dnstap"}, dns |-> {"pcap", "dnstap"}, dhcp |-> {"pcap"}]

VARIABLES
    input,     \* what -i names
    periods,   \* --periods
    rpc, handlers, read, stopped, shutdown, written, status

readerVars == <<input, periods, rpc, handlers, read, stopped, shutdown, written, status>>

Setting == <<input, periods>>

ReaderInit ==
    /\ input \in InputTypes \cup {"other"}
    /\ periods \in Periods
    /\ rpc = "parse" /\ handlers = {} /\ read = 0 /\ stopped = FALSE
    /\ shutdown = "unset" /\ written = {} /\ status = "none"

\* Everything that throws is caught around the whole of it.
Fail == rpc' = "done" /\ status' = "failed"

ParseInputType ==
    /\ rpc = "parse"
    /\ IF input = "other" THEN Fail ELSE rpc' = "input" /\ UNCHANGED status
    /\ UNCHANGED <<Setting, handlers, read, stopped, shutdown, written>>

\* A database or a subnet list that does not read throws here.
MakeInput ==
    /\ rpc = "input"
    /\ \/ rpc' = "handlers" /\ shutdown' = "set" /\ UNCHANGED status
       \/ Fail /\ UNCHANGED shutdown
    /\ UNCHANGED <<Setting, handlers, read, stopped, written>>

\* Mutant of Attached: a capture file gets no DHCP handler.
AttachedWithoutDhcp ==
    {"net"} \cup (IF input \in {"pcap", "dnstap"} THEN {"dns"} ELSE {})

Attached ==
    {"net"} \cup (IF input \in {"pcap", "dnstap"} THEN {"dns"} ELSE {})
            \cup (IF input = "pcap" THEN {"dhcp"} ELSE {})

\* Made and started in turn; a constructor that does not know the proxy throws.
MakeHandlers ==
    /\ rpc = "handlers"
    /\ IF \A h \in Attached : input \in Proxies[h]
       THEN handlers' = Attached /\ rpc' = "reading" /\ UNCHANGED status
       ELSE Fail /\ UNCHANGED handlers
    /\ UNCHANGED <<Setting, read, stopped, shutdown, written>>

\* start() returns when the file ends or the input was stopped.
ReadFile ==
    /\ rpc = "reading"
    /\ \/ ~stopped /\ read < MaxPackets /\ read' = read + 1 /\ UNCHANGED <<rpc, status>>
       \/ rpc' = "write" /\ UNCHANGED <<read, status>>
       \/ read = 0 /\ Fail /\ UNCHANGED read
    /\ UNCHANGED <<Setting, handlers, stopped, shutdown, written>>

\* The metrics managers hold between one and ten periods whatever is asked.
Held == IF periods = 0 THEN 1 ELSE IF periods > 10 THEN 10 ELSE periods

\* Window zero of one period, else that many periods merged, which throws for
\* fewer than two and for more than are held.
MergeOk == periods = 1 \/ periods \in 2..Held

WriteSummary ==
    /\ rpc = "write"
    /\ IF MergeOk THEN written' = handlers /\ rpc' = "stop" /\ UNCHANGED status
       ELSE Fail /\ UNCHANGED written
    /\ UNCHANGED <<Setting, handlers, read, stopped, shutdown>>

StopInput ==
    /\ rpc = "stop"
    /\ stopped' = TRUE /\ rpc' = "done" /\ status' = "ok"
    /\ UNCHANGED <<Setting, handlers, read, shutdown, written>>

\* An unset std::function throws out of the signal handler.
Signal ==
    /\ rpc # "done"
    /\ ~stopped
    /\ IF shutdown = "unset"
       THEN rpc' = "done" /\ status' = "aborted" /\ UNCHANGED stopped
       ELSE stopped' = TRUE /\ UNCHANGED <<rpc, status>>
    /\ UNCHANGED <<Setting, handlers, read, shutdown, written>>

ReaderNext ==
    \/ ParseInputType \/ MakeInput \/ MakeHandlers \/ ReadFile \/ WriteSummary
    \/ StopInput \/ Signal

ReaderSpec == ReaderInit /\ [][ReaderNext]_readerVars

----------------------------------------------------------------------------
(* Properties. *)

\* The reader reports success only when it has written a window of every
\* handler that takes this input, and a file it could read is summarised
\* unless it was asked for no period or for more than are ever held.
SuccessIsWhole ==
    /\ status = "ok" => written # {} /\ written = {h \in DOMAIN Proxies : input \in Proxies[h]}
    /\ status = "failed" /\ read > 0 => periods \notin 1..10

\* What the usage text says of -i: pcap, dnstap, sflow and netflow files are
\* summarised, so with one of them every handler that is attached is made.
EveryInputIsSummarised ==
    rpc = "handlers" => \A h \in Attached : input \in Proxies[h]

-----------------------------------------------------------------------------
(***************************************************************************)
(* A configuration document on its way into the registry: the taps it      *)
(* defines, the configuration it gives every handler of a type, and one    *)
(* policy, whose taps are selected by their tags and whose handlers get    *)
(* their keys from three places.  A value is the place that set it; a      *)
(* configuration is a function from keys.                                  *)
(***************************************************************************)
CONSTANTS
    Documents,    \* [taps, globals, selector, window, module]; see below
    Defaults      \* the window keys that are set when a policy has none

VARIABLES doc, single, dpc, at, taps, globals, selected, handlerConfig

documentVars == <<doc, single, dpc, at, taps, globals, selected, handlerConfig>>

InputPlugins == {"pcap"}
HandlerPlugins == {"dns", "net"}
Nothing == <<>>

\* What is written over what is there.
ConfigMerge(old, new) ==
    [k \in DOMAIN old \cup DOMAIN new |-> IF k \in DOMAIN new THEN new[k] ELSE old[k]]

From(keys, place) == [k \in keys |-> place]

\* A tag and a selector entry is <<type, value>>; reading one as another type
\* throws.  The first entry that decides ends the search.
RECURSIVE TagsMatch(_, _, _, _)
TagsMatch(tags, entries, all, any) ==
    IF entries = <<>> THEN any
    ELSE LET key == Head(entries).key
             value == Head(entries).value
         IN  IF key \notin DOMAIN tags
             THEN IF all THEN "no" ELSE TagsMatch(tags, Tail(entries), all, any)
             ELSE IF tags[key][1] # value[1] THEN "throws"
             ELSE IF tags[key] = value THEN TagsMatch(tags, Tail(entries), all, "yes")
             ELSE IF all THEN "no" ELSE TagsMatch(tags, Tail(entries), all, any)

\* Mutant of TagsMatchSelectorYaml: the operator of the selector is not read.
TagsMatchAny(tags, selector) == TagsMatch(tags, selector.entries, FALSE, "no")

TagsMatchSelectorYaml(tags, selector) ==
    TagsMatch(tags, selector.entries, selector.op = "all", "no")

DocumentInit ==
    /\ doc \in Documents
    /\ single \in BOOLEAN
    /\ dpc = "taps" /\ at = 1 /\ taps = Nothing /\ globals = Nothing
    /\ selected = {} /\ handlerConfig = Nothing

Throw == dpc' = "thrown" /\ UNCHANGED at
Onward(step) == dpc' = step /\ at' = 1

----------------------------------------------------------------------------
(* The taps, in the order of the document. *)

TapsEnd ==
    /\ dpc = "taps"
    /\ at > Len(doc.taps)
    /\ Onward("globals")
    /\ UNCHANGED <<doc, single, taps, globals, selected, handlerConfig>>

\* Through the API a document holds one tap; a name is taken once.
LoadTap ==
    /\ dpc = "taps"
    /\ at <= Len(doc.taps)
    /\ LET t == doc.taps[at]
       IN  IF \/ single /\ Len(doc.taps) > 1
              \/ t.input_type \notin InputPlugins
              \/ t.name \in DOMAIN taps
           THEN Throw /\ UNCHANGED taps
           ELSE /\ taps' = ConfigMerge(taps, [n \in {t.name} |-> t.tags])
                /\ at' = at + 1 /\ UNCHANGED dpc
    /\ UNCHANGED <<doc, single, globals, selected, handlerConfig>>

----------------------------------------------------------------------------
(* The configuration of every handler of a type. *)

\* A type that is not available ends the search, and the rest is not read.
SetDefaultHandlerConfig ==
    /\ dpc = "globals"
    /\ IF at > Len(doc.globals) \/ doc.globals[at].type \notin HandlerPlugins
       THEN Onward("select") /\ UNCHANGED globals
       ELSE LET g == doc.globals[at]
            IN  IF ~g.map \/ g.type \in DOMAIN globals
                THEN Throw /\ UNCHANGED globals
                ELSE /\ globals' = ConfigMerge(globals, [t \in {g.type} |-> g.keys])
                     /\ at' = at + 1 /\ UNCHANGED dpc
    /\ UNCHANGED <<doc, single, taps, selected, handlerConfig>>

----------------------------------------------------------------------------
(* The policy. *)

\* Mutant of GetInputTapsName: a tap that does not match is an error.
GetInputTapsNameAll ==
    /\ dpc = "select"
    /\ LET verdict == [n \in DOMAIN taps |-> TagsMatchSelectorYaml(taps[n], doc.selector)]
       IN  IF \E n \in DOMAIN taps : verdict[n] # "yes"
           THEN Throw /\ UNCHANGED selected
           ELSE Onward("handler") /\ selected' = DOMAIN taps
    /\ UNCHANGED <<doc, single, taps, globals, handlerConfig>>

GetInputTapsName ==
    /\ dpc = "select"
    /\ LET verdict == [n \in DOMAIN taps |-> TagsMatchSelectorYaml(taps[n], doc.selector)]
           matching == {n \in DOMAIN taps : verdict[n] = "yes"}
       IN  IF (\E n \in DOMAIN taps : verdict[n] = "throws") \/ matching = {}
           THEN Throw /\ UNCHANGED selected
           ELSE Onward("handler") /\ selected' = matching
    /\ UNCHANGED <<doc, single, taps, globals, handlerConfig>>

\* A policy's own window keys replace the defaults as a whole.
WindowConfig ==
    IF doc.window.given THEN From(doc.window.keys, "window") ELSE From(Defaults, "default")

\* Mutant of ValidateHandler: the keys for the type are written over its own.
ValidateHandlerGlobalLast ==
    /\ dpc = "handler"
    /\ IF doc.module.type \notin HandlerPlugins
       THEN Throw /\ UNCHANGED handlerConfig
       ELSE LET global == IF doc.module.type \in DOMAIN globals
                          THEN From(globals[doc.module.type], "global") ELSE Nothing
                own == ConfigMerge(From(doc.module.keys, "module"), global)
            IN  Onward("done") /\ handlerConfig' = ConfigMerge(own, WindowConfig)
    /\ UNCHANGED <<doc, single, taps, globals, selected>>

ValidateHandler ==
    /\ dpc = "handler"
    /\ IF doc.module.type \notin HandlerPlugins
       THEN Throw /\ UNCHANGED handlerConfig
       ELSE LET global == IF doc.module.type \in DOMAIN globals
                          THEN From(globals[doc.module.type], "global") ELSE Nothing
                own == ConfigMerge(global, From(doc.module.keys, "module"))
            IN  Onward("done") /\ handlerConfig' = ConfigMerge(own, WindowConfig)
    /\ UNCHANGED <<doc, single, taps, globals, selected>>

DocumentNext == TapsEnd \/ LoadTap \/ SetDefaultHandlerConfig \/ GetInputTapsName \/ ValidateHandler

DocumentSpec == DocumentInit /\ [][DocumentNext]_documentVars

----------------------------------------------------------------------------
(* Properties. *)

Satisfies(tags, entry) == entry.key \in DOMAIN tags /\ tags[entry.key] = entry.value

\* The taps of a loaded policy are those whose tags satisfy all, or any, of the
\* selector's entries, however the early returns of the comparison go; a
\* selector without entries matches no tap.
SelectedAsTagged ==
    dpc \in {"handler", "done"} =>
        LET entries == Range(doc.selector.entries)
        IN  selected = {n \in DOMAIN taps :
                          /\ entries # {}
                          /\ IF doc.selector.op = "all"
                             THEN \A e \in entries : Satisfies(taps[n], e)
                             ELSE \E e \in entries : Satisfies(taps[n], e)}

\* A selection is refused only when no tap matches or a tag of some tap has
\* another type than the selector gives it.
RefusedForCause ==
    dpc = "thrown" /\ at = 1 /\ Len(doc.taps) = Cardinality(DOMAIN taps) =>
        \/ \A n \in DOMAIN taps : TagsMatchSelectorYaml(taps[n], doc.selector) # "yes"
        \/ \E n \in DOMAIN taps : \E e \in Range(doc.selector.entries) :
              e.key \in DOMAIN taps[n] /\ taps[n][e.key][1] # e.value[1]
        \/ doc.module.type \notin HandlerPlugins
        \/ \E i \in DOMAIN doc.globals : ~doc.globals[i].map

\* A document that loads gives a handler every key written for it: its own, or
\* the one for its type when no type before that one is unavailable; only the
\* window keys stand above both.
HandlerGetsItsKeys ==
    dpc = "done" =>
        /\ \A k \in doc.module.keys \ DOMAIN WindowConfig : handlerConfig[k] = "module"
        /\ \A i \in DOMAIN doc.globals :
             /\ doc.globals[i].type = doc.module.type
             /\ \A j \in 1..i : doc.globals[j].type \in HandlerPlugins
             => doc.globals[i].keys \subseteq DOMAIN handlerConfig

\* What the configuration document says of the configuration for a type: it
\* "will be applied to every handler created in this agent which has the same
\* specified type".
GlobalsApplied ==
    dpc = "done" =>
        \A i \in DOMAIN doc.globals :
            doc.globals[i].type = doc.module.type => doc.globals[i].keys \subseteq DOMAIN handlerConfig
=============================================================================
