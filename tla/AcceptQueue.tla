----------------------------- MODULE AcceptQueue -----------------------------
(***************************************************************************)
(* What a listener promises to the server that polls it and to the clients *)
(* that connect: connections are handed out in the order they were made,   *)
(* each at most once, and none is given up while the listener is open; a   *)
(* failed accept is told to the server once and moves no connection.       *)
(***************************************************************************)
EXTENDS Naturals, Sequences

CONSTANTS
  Conns,   \* connections clients may make
  Error    \* an accept error

VARIABLES
  open,    \* the server holds the listener
  queue,   \* what is not yet handed out, oldest first
  served   \* what was handed out to the server, in that order

queueVars == <<open, queue, served>>

Init == open = FALSE /\ queue = <<>> /\ served = <<>>

Open == ~open /\ open' = TRUE /\ UNCHANGED <<queue, served>>

(* A client connects; until the endpoint is gone this may succeed even     *)
(* after the server has let go of the listener.                            *)
Enter(k) ==
  /\ queue' = Append(queue, k)
  /\ UNCHANGED <<open, served>>

(* A failed accept: the error joins the queue wherever accepting is.       *)
Fail ==
  /\ \E n \in 0..Len(queue) :
       queue' = SubSeq(queue, 1, n) \o <<Error>> \o SubSeq(queue, n + 1, Len(queue))
  /\ UNCHANGED <<open, served>>

Deliver ==
  /\ open
  /\ queue # <<>>
  /\ served' = Append(served, Head(queue))
  /\ queue' = Tail(queue)
  /\ UNCHANGED open

Shut == open /\ open' = FALSE /\ \E n \in 0..Len(queue) :
          queue' = SubSeq(queue, n + 1, Len(queue)) /\ UNCHANGED served

(* Only after that may connections be closed unserved.                     *)
GiveUp ==
  /\ ~open
  /\ \E n \in 1..Len(queue) : queue' = SubSeq(queue, n + 1, Len(queue))
  /\ UNCHANGED <<open, served>>

Next == Open \/ (\E k \in Conns : Enter(k)) \/ Fail \/ Deliver \/ Shut \/ GiveUp

Spec == Init /\ [][Next]_queueVars
=============================================================================
