---------------------------- MODULE OwedRequests ----------------------------
(***************************************************************************)
(* What the driver owes the applications: each request submitted to a port *)
(* is completed once, by that port or at its peer's wake-up, and a port    *)
(* goes when it owes nothing.                                              *)
(***************************************************************************)

CONSTANTS Port, Request

VARIABLES
  attached,  \* the ports that are there
  owed,      \* the requests each port has yet to complete
  done       \* the requests completed

vars == <<attached, owed, done>>

Init == attached = {} /\ owed = [p \in Port |-> {}] /\ done = {}

Attach(p) ==
  /\ p \notin attached
  /\ attached' = attached \cup {p}
  /\ UNCHANGED <<owed, done>>

Detach(p) ==
  /\ p \in attached /\ owed[p] = {}
  /\ attached' = attached \ {p}
  /\ UNCHANGED <<owed, done>>

Submit(p, r) ==
  /\ p \in attached /\ r \notin done /\ \A q \in Port : r \notin owed[q]
  /\ owed' = [owed EXCEPT ![p] = @ \cup {r}]
  /\ UNCHANGED <<attached, done>>

Complete(p, r) ==
  /\ r \in owed[p]
  /\ owed' = [owed EXCEPT ![p] = @ \ {r}]
  /\ done' = done \cup {r}
  /\ UNCHANGED attached

Next == \E p \in Port : \/ Attach(p) \/ Detach(p)
                        \/ \E r \in Request : Submit(p, r) \/ Complete(p, r)

Spec == Init /\ [][Next]_vars
=============================================================================
