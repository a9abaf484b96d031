-------------------------- MODULE MCTaskSequence --------------------------
(* TLC instance of TaskSequence: the bound comes from the configuration.   *)
EXTENDS TaskSequence
=============================================================================
