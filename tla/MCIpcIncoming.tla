---------------------------- MODULE MCIpcIncoming ----------------------------
EXTENDS IpcIncoming, TLC

CONSTANTS l1, l2, k1, k2, k3, d1, d2, long

MCListeners == {l1, l2}
MCConns     == {k1, k2, k3}

(* Everybody in one directory; two daemons with their clients, on either   *)
(* platform; and one of them where no socket can be.                       *)
Together == [x \in MCListeners \cup MCConns |-> None]
Apart(d) == [x \in MCListeners \cup MCConns |-> IF x \in {l2, k3} THEN d ELSE None]

MCSettings ==
  {[os |-> "unix", asked |-> Together], [os |-> "unix", asked |-> Apart(d2)],
   [os |-> "unix", asked |-> Apart(long)], [os |-> "windows", asked |-> Apart(long)]}
=============================================================================
