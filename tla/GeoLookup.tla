----------------------------- MODULE GeoLookup -----------------------------
(***************************************************************************)
(* The location and AS-number databases (src/src/GeoDB.cpp) and the cache  *)
(* in front of each (src/src/VisorLRUList.h).  Handlers of several input   *)
(* threads look addresses up: the cache is searched under the shared lock, *)
(* the database is read without one, and the answer is put under the       *)
(* exclusive lock, so that two threads may both miss one address.  The     *)
(* databases are enabled while the policies of the configuration file      *)
(* already run.                                                            *)
(*                                                                         *)
(* The list keeps its pairs, most recent first, and the map an iterator    *)
(* for each key; an iterator is the place of its pair, 0 once the pair is  *)
(* erased.  An address is a tuple of bytes: the two that differ.           *)
(***************************************************************************)
EXTENDS Integers, Sequences, SequencesExt, FiniteSets

CONSTANTS
    Threads,
    Addresses,       \* the addresses of each kind of call: v4, v6, text, sockaddr
    Entry(_),        \* the database: fields of the address's entry, or NoEntry
    CacheSizes       \* cache_size: 0 is no cache

VARIABLES
    type,            \* "geo" or "asn"
    open,            \* _mmdb is open
    size,            \* cache_size
    list, index,     \* the cache
    cached,          \* the cache was made
    enabled,         \* _enabled
    pc, call,        \* where each thread is, and its call
    answer           \* what it was told last

vars == <<type, open, size, list, index, cached, enabled, pc, call, answer>>

NoEntry == {}
Unknown == <<"Unknown">>
Nothing == <<>>                  \* the answer of a disabled database

-----------------------------------------------------------------------------
(* What is kept of an entry: the parts it has, in order.                   *)

Parts(entry, names) == SelectSeq(names, LAMBDA n : n \in entry)

GetGeoLocOf(entry) ==
    LET country == IF "country" \in entry \/ "iso" \notin entry THEN entry
                   ELSE entry \cup {"country"}
    IN  Parts(country, <<"continent", "country", "subdivision", "city", "latitude", "longitude">>)

GetASNStringOf(entry) == Parts(entry, <<"number", "organization">>)

ValueOf(address) ==
    IF Entry(address) = NoEntry THEN Unknown
    ELSE <<IF type = "geo" THEN GetGeoLocOf(Entry(address)) ELSE GetASNStringOf(Entry(address)),
           address>>

-----------------------------------------------------------------------------
(* Cache keys                                                              *)

Digits(byte) == IF byte < 10 THEN <<byte>> ELSE <<byte \div 10, byte % 10>>

\* Mutant of Key4: the bytes one after another.
Key4Joined(a) == <<"v4", FoldLeft(LAMBDA s, b : s \o Digits(b), <<>>, a)>>

\* The address as one number.
Key4(a) == <<"v4", FoldLeft(LAMBDA n, b : 256 * n + b, 0, a)>>

\* The bytes, in decimal, one after another with nothing between them.
Key6(a) == <<"v6", FoldLeft(LAMBDA s, b : s \o Digits(b), <<>>, a)>>

KeyText(a) == <<"text", a>>

-----------------------------------------------------------------------------
(* The list of the cache                                                   *)

EraseAt(l, i, place) ==
    [list |-> RemoveAt(l, place),
     index |-> [k \in DOMAIN i |-> CASE i[k] = place -> 0
                                     [] i[k] > place -> i[k] - 1
                                     [] OTHER -> i[k]]]

Without(f, key) == [k \in DOMAIN f \ {key} |-> f[k]]
With(f, key, v) == [k \in DOMAIN f \cup {key} |-> IF k = key THEN v ELSE f[k]]

\* Mutant of Advanced: the iterator of a key that is there stays where it was.
AdvancedNot(key, value) ==
    LET pushed == <<[key |-> key, value |-> value]>> \o list
        moved == [k \in DOMAIN index |-> index[k] + 1]
    IN  IF key \in DOMAIN index THEN EraseAt(pushed, moved, moved[key])
        ELSE [list |-> pushed, index |-> With(moved, key, 1)]

\* The pair goes to the front; the old one of the key is erased.
Advanced(key, value) ==
    LET pushed == <<[key |-> key, value |-> value]>> \o list
        moved == [k \in DOMAIN index |-> index[k] + 1]
        erased == EraseAt(pushed, moved, moved[key])
    IN  IF key \in DOMAIN index
        THEN [list |-> erased.list, index |-> With(erased.index, key, 1)]
        ELSE [list |-> pushed, index |-> With(moved, key, 1)]

\* Beyond the size the last pair goes.
Put(key, value) ==
    LET c == Advanced(key, value)
        last == Len(c.list)
        full == size > 0 /\ Cardinality(DOMAIN c.index) > size
        c2 == EraseAt(c.list, Without(c.index, c.list[last].key), last)
    IN  /\ list' = IF full THEN c2.list ELSE c.list
        /\ index' = IF full THEN c2.index ELSE c.index

GetValue(key) == list[index[key]].value

-----------------------------------------------------------------------------
NoCall == [kind |-> "none"]

Init ==
    /\ type \in {"geo", "asn"}
    /\ size \in CacheSizes
    /\ open = FALSE /\ cached = FALSE /\ enabled = FALSE
    /\ list = <<>> /\ index = <<>>
    /\ pc = [t \in Threads |-> "idle"]
    /\ call = [t \in Threads |-> NoCall]
    /\ answer = [t \in Threads |-> Nothing]

\* Mutant of EnableSteps: the flag goes up first.
EnableStepsFlagFirst ==
    \/ /\ ~enabled /\ enabled' = TRUE /\ UNCHANGED <<open, cached>>
    \/ /\ enabled /\ ~open /\ open' = TRUE /\ UNCHANGED <<cached, enabled>>
    \/ /\ open /\ ~cached /\ size > 0 /\ cached' = TRUE /\ UNCHANGED <<open, enabled>>

\* The steps of enable(): the database, its cache, and then the flag.
EnableSteps ==
    \/ /\ ~open /\ open' = TRUE /\ UNCHANGED <<cached, enabled>>
    \/ /\ open /\ ~cached /\ ~enabled /\ size > 0
       /\ cached' = TRUE /\ UNCHANGED <<open, enabled>>
    \/ /\ open /\ (cached \/ size = 0) /\ ~enabled
       /\ enabled' = TRUE /\ UNCHANGED <<open, cached>>

Enable == EnableSteps /\ UNCHANGED <<type, size, list, index, pc, call, answer>>

\* The beginning of a lookup: the flag, and the cache under the shared lock.
Begin(t, kind, a, key, useCache) ==
    /\ pc[t] = "idle"
    /\ a \in Addresses[kind]
    /\ call' = [call EXCEPT ![t] = [kind |-> kind, address |-> a, key |-> key,
                                    cache |-> useCache /\ cached, early |-> ~enabled]]
    /\ IF ~enabled
         THEN answer' = [answer EXCEPT ![t] = Nothing] /\ UNCHANGED pc
         ELSE IF useCache /\ cached /\ key \in DOMAIN index
         THEN answer' = [answer EXCEPT ![t] = GetValue(key)] /\ UNCHANGED pc
         ELSE pc' = [pc EXCEPT ![t] = "read"] /\ UNCHANGED answer
    /\ UNCHANGED <<type, open, size, list, index, cached, enabled>>

GetGeoLoc4(t, a) == type = "geo" /\ Begin(t, "v4", a, Key4(a), TRUE)
GetGeoLoc6(t, a) == type = "geo" /\ Begin(t, "v6", a, Key6(a), TRUE)
GetGeoLocText(t, a) == type = "geo" /\ Begin(t, "text", a, KeyText(a), TRUE)
GetGeoLocSockaddr(t, a) == type = "geo" /\ Begin(t, "sockaddr", a, KeyText(a), FALSE)

GetASNString4(t, a) == type = "asn" /\ Begin(t, "v4", a, Key4(a), TRUE)
GetASNString6(t, a) == type = "asn" /\ Begin(t, "v6", a, Key6(a), TRUE)
GetASNStringText(t, a) == type = "asn" /\ Begin(t, "text", a, KeyText(a), TRUE)
GetASNStringSockaddr(t, a) == type = "asn" /\ Begin(t, "sockaddr", a, KeyText(a), FALSE)

\* The database is read; without a cache that is all.
ReadEntry(t) ==
    /\ pc[t] = "read"
    /\ answer' = [answer EXCEPT ![t] = ValueOf(call[t].address)]
    /\ pc' = [pc EXCEPT ![t] = IF call[t].cache THEN "put" ELSE "idle"]
    /\ UNCHANGED <<type, open, size, list, index, cached, enabled, call>>

\* An unknown address is kept like any other.
PutAnswer(t) ==
    /\ pc[t] = "put"
    /\ Put(call[t].key, answer[t])
    /\ pc' = [pc EXCEPT ![t] = "idle"]
    /\ UNCHANGED <<type, open, size, cached, enabled, call, answer>>

Next ==
    \/ Enable
    \/ \E t \in Threads :
         \/ \E a \in UNION {Addresses[k] : k \in DOMAIN Addresses} :
              \/ GetGeoLoc4(t, a) \/ GetGeoLoc6(t, a)
              \/ GetGeoLocText(t, a) \/ GetGeoLocSockaddr(t, a)
              \/ GetASNString4(t, a) \/ GetASNString6(t, a)
              \/ GetASNStringText(t, a) \/ GetASNStringSockaddr(t, a)
         \/ ReadEntry(t)
         \/ PutAnswer(t)

Spec == Init /\ [][Next]_vars

-----------------------------------------------------------------------------
\* However lookups of several threads interleave, the two halves of a cache
\* agree: the map has an iterator to the one pair of every key in the list, to
\* nothing else, and the list is never longer than the cache.
CacheIsOne ==
    /\ Cardinality(DOMAIN index) = Len(list)
    /\ \A k \in DOMAIN index : index[k] \in DOMAIN list /\ list[index[k]].key = k
    /\ size > 0 => Len(list) <= size

\* A lookup is answered with what the database says of that address, whether it
\* comes from the cache, from another thread's miss or from the database.  An
\* IPv6 address may get the answer of another one whose bytes, written one
\* after another, read alike; nothing else is mixed up.
AnswerIsOfAddress ==
    \A t \in Threads :
        call[t].kind # "none" /\ pc[t] # "read" /\ ~call[t].early =>
            LET a == call[t].address
                alike == {b \in Addresses["v6"] : call[t].kind = "v6" /\ Key6(b) = Key6(a)}
            IN  answer[t] \in {ValueOf(b) : b \in alike \cup {a}}

\* A database is read only when it is open: a policy that runs before the
\* daemon has enabled it is told nothing, and never reaches it half made.
ReadWhenOpen == \A t \in Threads : pc[t] = "read" => open
=============================================================================
