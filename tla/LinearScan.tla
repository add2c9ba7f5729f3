----------------------------- MODULE LinearScan -----------------------------
(***************************************************************************)
(* What the loops that search a table from its first index upwards find.   *)
(* The frame bitmap, the page directories, the process table, the file     *)
(* allocation table and the directory tables are all searched this way.    *)
(***************************************************************************)
EXTENDS Integers, FiniteSets, Functions

\* i is what a loop from the lowest index upwards finds first in S.
IsFirst(S, i) == i \in S /\ \A j \in S : i <= j

\* What n rounds of "take the first free index" take from S, in the order
\* taken: fewer than n when S has fewer.
FirstFit(S, n) ==
    LET got == IF n <= Cardinality(S) THEN n ELSE Cardinality(S)
    IN  {a \in [0 .. got - 1 -> S] :
            /\ \A i, j \in 0 .. got - 1 : i < j => a[i] < a[j]
            /\ \A s \in S \ Range(a) : \A i \in 0 .. got - 1 : a[i] < s}
=============================================================================
