----------------------------- MODULE PairTable -----------------------------
(***************************************************************************)
(* What the pair table and PairLock promise (pair.h:85-104): a handler has *)
(* its peer to itself from PairAcquirePeer to PairReleasePeer, and no slot *)
(* of the table changes hands meanwhile.                                   *)
(***************************************************************************)

CONSTANTS Device, None

Side == {"A", "B"}

VARIABLES
  slot,   \* the device on each side, or None
  users   \* the devices whose handlers use their peers

vars == <<slot, users>>

Other(s) == IF s = "A" THEN "B" ELSE "A"

Init == slot = [s \in Side |-> None] /\ users = {}

Attach(s, d) ==
  /\ users = {} /\ slot[s] = None /\ \A t \in Side : slot[t] # d
  /\ slot' = [slot EXCEPT ![s] = d]
  /\ UNCHANGED users

Detach(s) ==
  /\ users = {} /\ slot[s] # None
  /\ slot' = [slot EXCEPT ![s] = None]
  /\ UNCHANGED users

\* A device gets the device on the other side, if there is one.
Acquire(s) ==
  /\ users = {} /\ slot[s] # None /\ slot[Other(s)] # None
  /\ users' = {slot[s]}
  /\ UNCHANGED slot

Release == users # {} /\ users' = {} /\ UNCHANGED slot

Next == \/ \E s \in Side : Detach(s) \/ Acquire(s) \/ \E d \in Device : Attach(s, d)
        \/ Release

Spec == Init /\ [][Next]_vars
=============================================================================
