-------------------------- MODULE MCProcessControl --------------------------
(* Instances of ProcessControl for TLC.                                    *)
EXTENDS ProcessControl, TLC

CONSTANTS i1, i2, i3, p1, knotd, other, root

MCInstances == {i1, i2, i3}
MCNames     == {knotd, other, root}

Symmetric == Permutations(MCInstances)
=============================================================================
