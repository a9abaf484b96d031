------------------------------ MODULE MCSession ------------------------------
EXTENDS Session, TLC

CONSTANTS c1, c2, m1, m2

MCClients   == {c1, c2}
MCManifests == {m1, m2}

(* No property of the run names a client or a manifest. *)
Symmetric == Permutations(MCClients) \cup Permutations(MCManifests)
=============================================================================
