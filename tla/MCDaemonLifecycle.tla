-------------------------- MODULE MCDaemonLifecycle --------------------------
EXTENDS DaemonLifecycle, TLC

CONSTANTS c1, c2, d1, d2, d3

MCClients  == {c1, c2}
MCDaemons  == {d1, d2, d3}
MCDaemons2 == {d1, d2}

(* No property of these runs names a client or a daemon. *)
Symmetric == Permutations(MCClients) \cup Permutations(MCDaemons)
=============================================================================
