---------------------------- MODULE WindowExport ----------------------------
(***************************************************************************)
(* What the OpenTelemetry exporter promises of the windows of a handler:   *)
(* each closed window is pushed once, at the first check after it closes,  *)
(* and none is ever given up.  copies[k] is the number of times the k-th   *)
(* window that closed was pushed.                                          *)
(***************************************************************************)
EXTENDS Naturals, Sequences

VARIABLE copies

Init == copies = << >>

\* The live window closes.
Close == copies' = Append(copies, 0)

\* The exporter checks: whatever had not been pushed is pushed now.
Check == copies' = [k \in DOMAIN copies |-> 1]

Next == Close \/ Check

Spec == Init /\ [][Next]_copies
=============================================================================
