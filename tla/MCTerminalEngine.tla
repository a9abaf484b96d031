-------------------------- MODULE MCTerminalEngine --------------------------
EXTENDS TerminalEngine, TLC

(* A wrapped issue alone, and an issue with a context. *)
MCReports == {[issue |-> 2, context |-> 0, solution |-> 0],
              [issue |-> 1, context |-> 1, solution |-> 0]}

(* Steps are interchangeable. *)
Symmetry == Permutations(Steps)
=============================================================================
