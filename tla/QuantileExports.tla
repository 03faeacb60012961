-------------------------- MODULE QuantileExports ---------------------------
(***************************************************************************)
(* A Quantile metric of one bucket.  Its handler writes it under the       *)
(* bucket's exclusive lock; an export reads it under the shared lock, and  *)
(* so does the period shift of a DNS handler, which takes the 90th         *)
(* percentile of the window it has just closed.  get_quantile is const,    *)
(* yet it sorts level zero of the sketch in place and installs the sorted  *)
(* view it built, so readers that hold the lock together change the sketch *)
(* together.  Exports of one policy exclude each other: each holds the     *)
(* policy manager's lock to its end.                                       *)
(*                                                                         *)
(* std::sort is a series of exchanges of neighbours that are out of order, *)
(* each one a read of the two items and then a write of both.              *)
(***************************************************************************)
EXTENDS Integers, Sequences, SequencesExt, Functions

CONSTANTS
    Exporters,   \* the threads that export: web requests and the OTLP push
    ShiftReads,  \* whether the handler reads the window it closed
    Samples,     \* the values that are recorded: a set of numbers
    MaxSamples   \* bound: values recorded

VARIABLES
    items,       \* level zero of the sketch
    sorted,      \* is_level_zero_sorted_
    views,       \* the views that were allocated, in order
    current,     \* sorted_view_: the index of a view; 0 for nullptr
    closed,      \* whether the window has been closed
    pc,          \* where each reader is
    held,        \* the exchange a reader is in: position and two items
    answer,      \* what a reader reads from the view
    recorded     \* history: every value that was recorded

vars == <<items, sorted, views, current, closed, pc, held, answer, recorded>>

Readers == Exporters \cup {"shift"}

Ascending(seq) == SortSeq(seq, <)

Nothing == <<0, 0, 0>>

Init ==
    /\ items = <<>>
    /\ sorted = FALSE
    /\ views = <<>>
    /\ current = 0
    /\ closed = FALSE
    /\ pc = [e \in Readers |-> "idle"]
    /\ held = [e \in Readers |-> Nothing]
    /\ answer = [e \in Readers |-> <<>>]
    /\ recorded = <<>>

\* Under the exclusive lock: the view is freed, the value joins level zero.
Update(v) ==
    /\ ~closed
    /\ \A e \in Readers : pc[e] = "idle"
    /\ Len(recorded) < MaxSamples
    /\ items' = <<v>> \o items
    /\ sorted' = FALSE
    /\ views' = <<>>
    /\ current' = 0
    /\ answer' = [e \in Readers |-> <<>>]
    /\ recorded' = Append(recorded, v)
    /\ UNCHANGED <<closed, pc, held>>

\* Under the exclusive lock, which waits for a running export; the lock is
\* released before on_period_shift reads the window.
PeriodShift ==
    /\ ~closed
    /\ \A e \in Exporters : pc[e] = "idle"
    /\ closed' = TRUE
    /\ pc' = [pc EXCEPT !["shift"] = IF ShiftReads /\ items # <<>> THEN "setup" ELSE "idle"]
    /\ UNCHANGED <<items, sorted, views, current, held, answer, recorded>>

\* Mutant of BeginExport: two exports may run at a time.
BeginExportTogether(e) ==
    /\ pc[e] = "idle"
    /\ items # <<>>
    /\ pc' = [pc EXCEPT ![e] = "setup"]
    /\ UNCHANGED <<items, sorted, views, current, closed, held, answer, recorded>>

\* The policy manager's lock, then the shared lock; get_quantile of an empty
\* sketch is not called.
BeginExport(e) ==
    /\ \A f \in Exporters : pc[f] = "idle"
    /\ items # <<>>
    /\ pc' = [pc EXCEPT ![e] = "setup"]
    /\ UNCHANGED <<items, sorted, views, current, closed, held, answer, recorded>>

\* setup_sorted_view looks at the pointer, sort_level_zero at the flag.
SetupSortedView(e) ==
    /\ pc[e] = "setup"
    /\ pc' = [pc EXCEPT ![e] = IF current # 0 THEN "read"
                               ELSE IF sorted THEN "build" ELSE "sort"]
    /\ UNCHANGED <<items, sorted, views, current, closed, held, answer, recorded>>

OutOfOrder == {i \in 1..(Len(items) - 1) : items[i] > items[i + 1]}

ReadPair(e) ==
    /\ pc[e] = "sort"
    /\ held[e] = Nothing
    /\ \E i \in OutOfOrder :
          held' = [held EXCEPT ![e] = <<i, items[i], items[i + 1]>>]
    /\ UNCHANGED <<items, sorted, views, current, closed, pc, answer, recorded>>

WritePair(e) ==
    /\ pc[e] = "sort"
    /\ held[e] # Nothing
    /\ items' = [items EXCEPT ![held[e][1]] = held[e][3], ![held[e][1] + 1] = held[e][2]]
    /\ held' = [held EXCEPT ![e] = Nothing]
    /\ UNCHANGED <<sorted, views, current, closed, pc, answer, recorded>>

SortDone(e) ==
    /\ pc[e] = "sort"
    /\ held[e] = Nothing
    /\ OutOfOrder = {}
    /\ sorted' = TRUE
    /\ pc' = [pc EXCEPT ![e] = "build"]
    /\ UNCHANGED <<items, views, current, closed, held, answer, recorded>>

\* get_sorted_view copies the items; the pointer is assigned afterwards.
BuildView(e) ==
    /\ pc[e] = "build"
    /\ views' = Append(views, items)
    /\ current' = Len(views) + 1
    /\ pc' = [pc EXCEPT ![e] = "read"]
    /\ UNCHANGED <<items, sorted, closed, held, answer, recorded>>

ReadView(e) ==
    /\ pc[e] = "read"
    /\ answer' = [answer EXCEPT ![e] = views[current]]
    /\ pc' = [pc EXCEPT ![e] = "idle"]
    /\ UNCHANGED <<items, sorted, views, current, closed, held, recorded>>

GetQuantile(e) ==
    \/ SetupSortedView(e)
    \/ ReadPair(e)
    \/ WritePair(e)
    \/ SortDone(e)
    \/ BuildView(e)
    \/ ReadView(e)

Next ==
    \/ \E v \in Samples : Update(v)
    \/ PeriodShift
    \/ \E e \in Exporters : BeginExport(e)
    \/ \E e \in Readers : GetQuantile(e)

Spec == Init /\ [][Next]_vars

-----------------------------------------------------------------------------
\* Reading a bucket leaves it as it was: once no reader is in the middle of a
\* sort, the sketch still holds every value that was recorded, and each reader
\* has answered from exactly those values.
ExportsKeepSamples ==
    /\ (\A e \in Readers : held[e] = Nothing) =>
            Ascending(items) = Ascending(recorded)
    /\ \A e \in Readers : answer[e] # <<>> => answer[e] = Ascending(recorded)
=============================================================================
