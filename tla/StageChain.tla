---------------------------- MODULE StageChain ----------------------------
(***************************************************************************)
(* What a TaskSequence promises to whoever watches the terminal: stages    *)
(* settle strictly one after another, an error or an early finish settles  *)
(* all the remaining ones as skipped in the same call, the outcome is      *)
(* announced exactly when the last stage settles, and nothing changes      *)
(* afterwards.                                                             *)
(***************************************************************************)
EXTENDS Integers, Sequences

VARIABLES
    row,       \* what the line of each stage shows
    outcome    \* open, success or fail

vars == <<row, outcome>>

\* The number of stages, which does not change.
Length == Len(row)

\* Stage n is the one to settle next: all before it are settled, none after
\* it has begun.
Due(n) ==
    /\ \A i \in 1..(n - 1) : row[i] \in {"ok", "skip"}
    /\ row[n] \in {"wait", "run"}
    /\ \A i \in (n + 1)..Length : row[i] = "wait"

Init ==
    /\ outcome = "open"
    /\ \E first \in {"wait", "run"} :
          row = [i \in 1..Length |-> IF i = 1 THEN first ELSE "wait"]

\* The stage due settles, and the next one starts.
Settle ==
    \E n \in 1..Length : \E settled \in {"ok", "skip"} :
        /\ outcome = "open" /\ Due(n)
        /\ row' = [i \in 1..Length |-> IF i = n THEN settled
                                       ELSE IF i = n + 1 THEN "run"
                                       ELSE row[i]]
        /\ outcome' = IF n = Length THEN "success" ELSE "open"

\* The stage due fails, and no later one will run.
Abort ==
    \E n \in 1..Length :
        /\ outcome = "open" /\ Due(n)
        /\ row' = [i \in 1..Length |-> IF i = n THEN "fail"
                                       ELSE IF i > n THEN "skip"
                                       ELSE row[i]]
        /\ outcome' = "fail"

\* The stages not yet settled are not needed; without stages this is the
\* only way to end.
Finish ==
    /\ outcome = "open"
    /\ row' = [i \in 1..Length |-> IF row[i] \in {"wait", "run"} THEN "skip"
                                   ELSE row[i]]
    /\ outcome' = "success"

Next == Settle \/ Abort \/ Finish

Spec == Init /\ [][Next]_vars
=============================================================================
