----------------------------- MODULE LossyQueue -----------------------------
(***************************************************************************)
(* What the webhook relay promises the sender and the pollers, whatever    *)
(* the requests, their handlers and the clock do: a queue of at most Size  *)
(* deliveries, numbered in the order of acceptance, that are taken oldest  *)
(* first and at most once.  A delivery is lost only when it is the oldest  *)
(* and the queue is full, when deliveries expire, or when the queue is     *)
(* closed.                                                                 *)
(***************************************************************************)
EXTENDS Integers, FiniteSets

CONSTANTS Size,     \* how many deliveries may wait
          Expires   \* deliveries expire

VARIABLES open,      \* the queue has not been closed
          accepted,  \* the number of deliveries accepted so far
          pending,   \* the numbers of the deliveries that wait
          taken      \* the number of the delivery taken last

vars == <<open, accepted, pending, taken>>

Oldest(n) == n \in pending /\ \A m \in pending : n <= m

Init ==
  /\ open = TRUE
  /\ accepted = 0
  /\ pending = {}
  /\ taken = 0

Accept ==
  /\ open
  /\ accepted' = accepted + 1
  /\ \/ /\ Cardinality(pending) < Size
        /\ pending' = pending \cup {accepted + 1}
     \/ /\ Cardinality(pending) = Size
        /\ \E n \in pending : Oldest(n) /\ pending' = (pending \ {n}) \cup {accepted + 1}
  /\ UNCHANGED <<open, taken>>

Take ==
  /\ open
  /\ \E n \in pending :
       /\ Oldest(n)
       /\ n > taken
       /\ taken' = n
       /\ pending' = pending \ {n}
  /\ UNCHANGED <<open, accepted>>

Expire ==
  /\ open
  /\ Expires
  /\ \E n \in pending : pending' = pending \ {n}
  /\ UNCHANGED <<open, accepted, taken>>

Close ==
  /\ open
  /\ open' = FALSE
  /\ pending' = {}
  /\ UNCHANGED <<accepted, taken>>

Next == Accept \/ Take \/ Expire \/ Close

Spec == Init /\ [][Next]_vars
=============================================================================
