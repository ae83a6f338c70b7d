--------------------------- MODULE PortPairProofs ---------------------------
(***************************************************************************)
(* Proofs about PortPair, for every set of requests and every capacity of  *)
(* the rings. PairInv is one inductive invariant; each of its conjuncts is *)
(* carried over a step by a lemma of its own. Sole, which says where the   *)
(* requests are, is a second one, carried over a step that keeps PairInv.  *)
(* The theorems are the invariants PortPair's runs check.                  *)
(***************************************************************************)
EXTENDS PortPair, FiniteSetTheorems, TLAPS

\* A handler between its dispatch and the completion of its request has that
\* request in hand, and knows what it asks for.
Serving ==
  \A p \in Port :
    /\ pc[p] \notin {"idle", "lookup", "waking"}
         => cur[p] \in Request /\ call[cur[p]] \in Calls
    /\ pc[p] \in {"write", "read", "load"} => call[cur[p]].len > 0

\* What a call saw before its store still holds when it stores: the other side
\* only makes room, or only adds bytes.
Snapshots ==
  \A p \in Port :
    /\ pc[p] = "store" /\ p \notin torn => ring[p] + n[p] <= Capacity
    /\ pc[p] = "take" => n[p] > 0
    /\ pc[p] = "take" /\ Peer(p) \notin torn => n[p] <= ring[Peer(p)]

\* A port that is not in the pair table has nothing left.
Absent ==
  \A p \in Port : p \notin up =>
    /\ pc[p] = "idle" /\ ring[p] = 0 /\ p \notin torn
    /\ \A k \in Kinds : Len(queue[p][k]) = 0

\* WAIT_ON_MASK parks its request on an empty queue.
Waiters ==
  \A p \in Port : /\ Len(queue[p]["waits"]) <= 1
                  /\ pc[p] = "wait_park" => Len(queue[p]["waits"]) = 0

\* The reads that can be stranded: those parked, and the one about to be.
Stranded ==
  \A p \in Port :
    /\ ring[Peer(p)] > 0 /\ Peer(p) \notin torn
    /\ pc[Peer(p)] \notin {"lookup", "waking"}
    => Len(queue[p]["reads"]) + Late(p) <= 1

PairInv == /\ TypeOK /\ Serving /\ Snapshots /\ Absent
           /\ PeerAlive /\ StatusHolds /\ Waiters /\ Stranded

-----------------------------------------------------------------------------
(* The ports, and the operators on their queues *)

\* A port's peer is the other port.
LEMMA Peers ==
  ASSUME NEW p \in Port
  PROVE  /\ Peer(p) \in Port /\ Peer(p) # p /\ Peer(Peer(p)) = p
         /\ \A q \in Port : q = p \/ q = Peer(p)
  BY DEF Port, Peer

Queues == [Port -> [Kinds -> Seq(Request)]]

\* Pushed appends to one queue and leaves the others alone.
LEMMA PushedValue ==
  ASSUME NEW q \in Queues, NEW p \in Port, NEW k \in Kinds, NEW r \in Request
  PROVE  /\ Pushed(q, p, k, r) \in Queues
         /\ \A p2 \in Port : \A k2 \in Kinds :
              Len(Pushed(q, p, k, r)[p2][k2]) =
                IF p2 = p /\ k2 = k THEN Len(q[p2][k2]) + 1 ELSE Len(q[p2][k2])
  BY DEF Pushed, Queues

\* Popped removes the head of one queue and leaves the others alone.
LEMMA PoppedValue ==
  ASSUME NEW q \in Queues, NEW p \in Port, NEW k \in Kinds, q[p][k] # <<>>
  PROVE  /\ Popped(q, p, k) \in Queues
         /\ Head(q[p][k]) \in Request
         /\ \A p2 \in Port : \A k2 \in Kinds :
              Len(Popped(q, p, k)[p2][k2]) =
                IF p2 = p /\ k2 = k THEN Len(q[p2][k2]) - 1 ELSE Len(q[p2][k2])
  <1>1. q[p][k] \in Seq(Request) /\ Len(q[p][k]) > 0
    BY DEF Queues
  <1>2. /\ Tail(q[p][k]) \in Seq(Request) /\ Head(q[p][k]) \in Request
        /\ Len(Tail(q[p][k])) = Len(q[p][k]) - 1
    BY <1>1
  <1> QED
    BY <1>2 DEF Popped, Queues

\* Without removes one element.
LEMMA WithoutValue ==
  ASSUME NEW s \in Seq(Request), NEW i \in 1..Len(s)
  PROVE  Without(s, i) \in Seq(Request) /\ Len(Without(s, i)) = Len(s) - 1
  <1> DEFINE a == SubSeq(s, 1, i - 1)
             b == SubSeq(s, i + 1, Len(s))
  <1>1. a \in Seq(Request) /\ Len(a) = i - 1
    OBVIOUS
  <1>2. b \in Seq(Request) /\ Len(b) = Len(s) - i
    OBVIOUS
  <1>3. Without(s, i) = a \o b
    BY DEF Without
  <1> HIDE DEF a, b
  <1>4. a \o b \in Seq(Request) /\ Len(a \o b) = Len(a) + Len(b)
    BY <1>1, <1>2
  <1>5. Len(s) \in Nat /\ i \in Int
    OBVIOUS
  <1> QED
    BY <1>1, <1>2, <1>3, <1>4, <1>5

\* An empty sequence has no element.
LEMMA EmptyLen ==
  ASSUME NEW s \in Seq(Request)
  PROVE  s = <<>> <=> Len(s) = 0
  OBVIOUS

\* The queues are sequences of requests.
LEMMA QueueType ==
  ASSUME TypeOK
  PROVE  /\ queue \in Queues
         /\ \A o \in Port : \A k \in Kinds :
              queue[o][k] \in Seq(Request) /\ Len(queue[o][k]) \in Nat
  BY DEF TypeOK, Queues

\* What a request may ask for.
LEMMA CallType ==
  ASSUME NEW c \in Calls
  PROVE  /\ c.op \in Ops /\ c.len \in Nat
         /\ c.op \in {"read", "write"} => c.len > 0
  BY PairAssumption

\* A count is in range, and exact unless the ring is torn.
LEMMA CountValue ==
  ASSUME NEW q \in Port, NEW v \in Int, v \in 0..Capacity \/ q \in torn',
         NEW k \in Count(q, v)
  PROVE  k \in 0..Capacity /\ (q \notin torn' => k = v)
  BY DEF Count

\* Taking no more than asked for and no more than counted.
LEMMA SmallerValue ==
  ASSUME NEW x \in Nat, NEW y \in 0..Capacity
  PROVE  /\ Smaller(x, y) \in 0..Capacity
         /\ Smaller(x, y) <= y
         /\ x > 0 /\ Smaller(x, y) = 0 => y = 0
  BY PairAssumption DEF Smaller

\* A reset leaves the ring empty or torn, and forgets what was announced.
LEMMA ResetValue ==
  ASSUME TypeOK, NEW q \in Port, NEW h \in BOOLEAN, Reset(q, h)
  PROVE  /\ torn' \subseteq Port
         /\ ring' \in [Port -> 0..Capacity] /\ seen' \in [Port -> 0..Capacity]
         /\ q \notin torn' => ring'[q] = 0 /\ ~InCall(q)
         /\ \A o \in Port \ {q} : ring'[o] = ring[o] /\ (o \in torn' <=> o \in torn)
         /\ seen'[Peer(q)] = 0
         /\ \A o \in Port \ {Peer(q)} : seen'[o] = seen[o]
  <1>1. PICK k \in Count(q, 0) : ring' = [ring EXCEPT ![q] = k]
    BY DEF Reset
  <1>2. k \in 0..Capacity /\ (q \notin torn' => k = 0)
    BY CountValue, PairAssumption
  <1>3. seen' = [seen EXCEPT ![Peer(q)] = 0] /\ 0 \in 0..Capacity
    BY PairAssumption DEF Reset
  <1>4. torn' = IF InCall(q) \/ (h /\ Aimed(q)) THEN torn \cup {q}
                ELSE IF h THEN torn \ {q} ELSE torn
    BY DEF Reset
  <1>5. Peer(q) \in Port
    BY Peers
  <1>6. ring' \in [Port -> 0..Capacity] /\ seen' \in [Port -> 0..Capacity]
    BY <1>1, <1>2, <1>3, <1>5 DEF TypeOK
  <1>7. torn' \subseteq Port /\ \A o \in Port \ {q} : o \in torn' <=> o \in torn
    BY <1>4 DEF TypeOK
  <1>8. q \notin torn' => ~InCall(q)
    BY <1>4
  <1> QED
    BY <1>1, <1>2, <1>3, <1>5, <1>6, <1>7, <1>8 DEF TypeOK

\* The first load of a call may tear the ring, never mend it.
LEMMA LoadValue ==
  ASSUME TypeOK, NEW q \in Port, Load(q)
  PROVE  /\ torn' \subseteq Port /\ torn \subseteq torn'
         /\ \A o \in Port \ {q} : o \in torn' <=> o \in torn
  BY DEF Load, TypeOK

\* Retiring the waiter leaves one fewer, if there was one.
LEMMA RetireValue ==
  ASSUME TypeOK, NEW p \in Port, Retire(p)
  PROVE  /\ queue' \in Queues /\ pending' \subseteq Request
         /\ Len(queue'[p]["waits"]) =
              IF queue[p]["waits"] = <<>> THEN 0 ELSE Len(queue[p]["waits"]) - 1
         /\ \A o \in Port : \A k \in Kinds :
              (o = p /\ k = "waits") \/ Len(queue'[o][k]) = Len(queue[o][k])
  <1>1. queue \in Queues /\ pending \subseteq Request /\ "waits" \in Kinds
    BY DEF TypeOK, Queues, Kinds
  <1>2. CASE queue[p]["waits"] = <<>>
    <2>1. Len(queue[p]["waits"]) = 0
      BY <1>2
    <2> QED
      BY <1>1, <1>2, <2>1 DEF Retire
  <1>3. CASE queue[p]["waits"] # <<>>
    BY <1>1, <1>3, PoppedValue DEF Retire
  <1> QED
    BY <1>2, <1>3

\* Parking a request makes its queue one longer, or completes it.
LEMMA ParkValue ==
  ASSUME TypeOK, NEW p \in Port, NEW k \in Kinds, cur[p] \in Request, Park(p, k)
  PROVE  /\ queue' \in Queues /\ pending' \subseteq Request
         /\ cur' \in [Port -> Request \cup {None}]
         /\ cur'[p] = None /\ cur'[Peer(p)] = cur[Peer(p)]
         /\ Len(queue'[p][k]) <= Len(queue[p][k]) + 1
         /\ \A o \in Port : \A k2 \in Kinds :
              (o = p /\ k2 = k) \/ Len(queue'[o][k2]) = Len(queue[o][k2])
  <1>1. queue \in Queues /\ \A o \in Port : \A k2 \in Kinds : Len(queue[o][k2]) \in Nat
    BY QueueType
  <1>2. cur' = [cur EXCEPT ![p] = None] /\ cur \in [Port -> Request \cup {None}]
    BY DEF Park, TypeOK
  <1>3. CASE Forwarded(p, k, cur[p])
    <2>1. queue' = Pushed(queue, p, k, cur[p]) /\ pending' = pending
      BY <1>3 DEF Forwarded
    <2>2. /\ queue' \in Queues
          /\ \A o \in Port : \A k2 \in Kinds :
               Len(queue'[o][k2]) = IF o = p /\ k2 = k THEN Len(queue[o][k2]) + 1
                                    ELSE Len(queue[o][k2])
      BY <1>1, <2>1, PushedValue
    <2> QED
      BY <1>1, <1>2, <2>1, <2>2, Peers DEF TypeOK
  <1>4. CASE Refused(cur[p])
    BY <1>1, <1>2, <1>4, Peers DEF Refused, TypeOK
  <1> QED
    BY <1>3, <1>4 DEF Park

\* One turn of the wake loop takes a read off the peer's ReadQueue.
LEMMA WakeOneValue ==
  ASSUME TypeOK, NEW p \in Port, WakeOne(p)
  PROVE  /\ queue' \in Queues /\ pending' \subseteq Request
         /\ \A o \in Port : \A k \in Kinds :
              (o = Peer(p) /\ k = "default") \/ Len(queue'[o][k]) <= Len(queue[o][k])
         /\ \A k \in Kinds : Len(queue'[p][k]) = Len(queue[p][k])
  <1> DEFINE q == Peer(p)
             r == Head(queue[q]["reads"])
             shorter == Popped(queue, q, "reads")
  <1>1. /\ queue \in Queues /\ q \in Port /\ q # p
        /\ "reads" \in Kinds /\ "default" \in Kinds
        /\ \A o \in Port : \A k \in Kinds : Len(queue[o][k]) \in Nat
    BY Peers, QueueType DEF Kinds
  <1>2. queue[q]["reads"] # <<>>
    BY DEF WakeOne, WakeFinished
  <1>3. /\ shorter \in Queues /\ r \in Request
        /\ \A o \in Port : \A k \in Kinds :
             Len(shorter[o][k]) =
               IF o = q /\ k = "reads" THEN Len(queue[o][k]) - 1 ELSE Len(queue[o][k])
    BY <1>1, <1>2, PoppedValue
  <1> HIDE DEF q, r, shorter
  <1>4. CASE queue' = Pushed(shorter, q, "default", r) /\ UNCHANGED pending
    <2>1. /\ queue' \in Queues
          /\ \A o \in Port : \A k \in Kinds :
               Len(queue'[o][k]) = IF o = q /\ k = "default"
                                     THEN Len(shorter[o][k]) + 1 ELSE Len(shorter[o][k])
      BY <1>1, <1>3, <1>4, PushedValue
    <2>2. pending' \subseteq Request
      BY <1>4 DEF TypeOK
    <2>3. ASSUME NEW o \in Port, NEW k \in Kinds, ~(o = q /\ k = "default")
          PROVE  Len(queue'[o][k]) <= Len(queue[o][k])
      BY <1>1, <1>3, <2>1, <2>3
    <2>4. \A k \in Kinds : Len(queue'[p][k]) = Len(queue[p][k])
      BY <1>1, <1>3, <2>1
    <2> QED
      BY <2>1, <2>2, <2>3, <2>4 DEF q
  <1>5. CASE queue' = shorter /\ pending' = pending \ {r}
    <2>1. pending' \subseteq Request
      BY <1>5 DEF TypeOK
    <2>2. \A o \in Port : \A k \in Kinds : Len(queue'[o][k]) <= Len(queue[o][k])
      BY <1>1, <1>3, <1>5
    <2>3. \A k \in Kinds : Len(queue'[p][k]) = Len(queue[p][k])
      BY <1>1, <1>3, <1>5
    <2> QED
      BY <1>3, <1>5, <2>1, <2>2, <2>3
  <1> QED
    BY <1>4, <1>5 DEF WakeOne, q, r, shorter

\* A cancelled request leaves one queue.
LEMMA CancelValue ==
  ASSUME TypeOK, NEW p \in Port, NEW k \in Kinds, Cancel(p, k)
  PROVE  /\ queue' \in Queues /\ pending' \subseteq Request
         /\ \A o \in Port : \A k2 \in Kinds : Len(queue'[o][k2]) <= Len(queue[o][k2])
         /\ queue[p][k] # <<>>
  <1>1. PICK i \in 1..Len(queue[p][k]) :
          queue' = [queue EXCEPT ![p][k] = Without(@, i)]
    BY DEF Cancel
  <1>2. queue \in Queues /\ queue[p][k] \in Seq(Request)
        /\ \A o \in Port, k2 \in Kinds : Len(queue[o][k2]) \in Nat
    BY DEF TypeOK, Queues
  <1>3. /\ Without(queue[p][k], i) \in Seq(Request)
        /\ Len(Without(queue[p][k], i)) = Len(queue[p][k]) - 1
    BY <1>2, WithoutValue
  <1>4. queue' \in Queues
    BY <1>1, <1>2, <1>3 DEF Queues
  <1>5. \A o \in Port : \A k2 \in Kinds : Len(queue'[o][k2]) <= Len(queue[o][k2])
    BY <1>1, <1>2, <1>3 DEF Queues
  <1>6. pending' \subseteq Request
    BY DEF Cancel, TypeOK
  <1>7. queue[p][k] # <<>>
    BY <1>1, <1>2
  <1> QED
    BY <1>4, <1>5, <1>6, <1>7

-----------------------------------------------------------------------------
(* The invariant over a step, one conjunct at a time *)

\* A step keeps the types.
LEMMA TypeStep ==
  ASSUME PairInv, NEW p \in Port, Handler(p) \/ Environment(p)
  PROVE  TypeOK'
  <1>1. CASE Dispatch(p)
    <2>1. PICK c \in Calls : Goto(p, c.op)
      BY <1>1 DEF Dispatch
    <2>2. /\ queue' = Popped(queue, p, "default") /\ queue[p]["default"] # <<>>
          /\ cur' = [cur EXCEPT ![p] = Head(queue[p]["default"])]
      BY <1>1 DEF Dispatch
    <2>3. queue' \in Queues /\ Head(queue[p]["default"]) \in Request
      BY <2>2, QueueType, PoppedValue DEF PairInv, Kinds
    <2>4. pc' \in [Port -> Steps]
      BY <2>1, CallType DEF Goto, PairInv, TypeOK, Steps
    <2>5. cur' \in [Port -> Request \cup {None}]
      BY <2>2, <2>3 DEF PairInv, TypeOK
    <2>6. UNCHANGED <<up, lock, ring, torn, call, pending, n, seen>>
      BY <1>1 DEF Dispatch
    <2> QED
      BY <2>3, <2>4, <2>5, <2>6 DEF PairInv, TypeOK, Queues
  <1>2. CASE WriteRoom(p)
    <2>1. torn' \subseteq Port
      BY <1>2, LoadValue DEF WriteRoom, PairInv
    <2>2. Room(p) \in 0..Capacity
      BY PairAssumption DEF Room, PairInv, TypeOK
    <2>3. Asks(p).len \in Nat
      BY <1>2, CallType DEF WriteRoom, PairInv, Serving, Asks
    <2>4. PICK k \in Count(p, Room(p)) : n' = [n EXCEPT ![p] = Smaller(Asks(p).len, k)]
      BY <1>2 DEF WriteRoom
    <2>5. k \in 0..Capacity
      BY <2>2, CountValue, PairAssumption
    <2>6. n' \in [Port -> 0..Capacity]
      BY <2>3, <2>4, <2>5, SmallerValue DEF PairInv, TypeOK
    <2> QED
      BY <1>2, <2>1, <2>6 DEF WriteRoom, Goto, PairInv, TypeOK, Steps, requests
  <1>3. CASE WriteStore(p)
    <2>1. ring[p] + n[p] \in Int /\ (ring[p] + n[p] \in 0..Capacity \/ p \in torn')
      BY <1>3, PairAssumption DEF WriteStore, PairInv, TypeOK, Snapshots
    <2>2. ring' \in [Port -> 0..Capacity]
      BY <1>3, <2>1, CountValue DEF WriteStore, PairInv, TypeOK
    <2> QED
      BY <1>3, <2>2 DEF WriteStore, Complete, Goto, PairInv, TypeOK, Steps
  <1>4. CASE WakeAcquire(p)
    BY <1>4, Peers, PairAssumption
      DEF WakeAcquire, Goto, PairInv, TypeOK, Steps, requests, Holder,
         LockFree
  <1>5. CASE WakeOne(p)
    BY <1>5, WakeOneValue DEF WakeOne, PairInv, TypeOK, Queues
  <1>6. CASE WakeDone(p)
    BY <1>6, Peers, PairAssumption
      DEF WakeDone, Goto, PairInv, TypeOK, Steps, requests, WakeFinished
  <1>7. CASE ReadAcquire(p)
    BY <1>7, Peers, PairAssumption
      DEF ReadAcquire, Goto, PairInv, TypeOK, Steps, requests, Holder,
         LockFree
  <1>8. CASE ReadLoad(p)
    <2>1. torn' \subseteq Port /\ Peer(p) \in Port
      BY <1>8, LoadValue, Peers DEF ReadLoad, PairInv
    <2>2. Available(p, Peer(p)) \in 0..Capacity
      BY <2>1 DEF Available, PairInv, TypeOK
    <2>3. Asks(p).len \in Nat
      BY <1>8, CallType DEF ReadLoad, PairInv, Serving, Asks
    <2>4. PICK k \in Count(Peer(p), Available(p, Peer(p))) :
            n' = [n EXCEPT ![p] = Smaller(Asks(p).len, k)]
      BY <1>8 DEF ReadLoad
    <2>5. k \in 0..Capacity
      BY <2>1, <2>2, CountValue, PairAssumption
    <2>6. n' \in [Port -> 0..Capacity]
      BY <2>3, <2>4, <2>5, SmallerValue DEF PairInv, TypeOK
    <2>7. lock' \in Port \cup {None} /\ pc' \in [Port -> Steps]
      BY <1>8 DEF ReadLoad, Goto, PairInv, TypeOK, Steps
    <2> QED
      BY <1>8, <2>1, <2>6, <2>7 DEF ReadLoad, PairInv, TypeOK, requests
  <1>9. CASE ReadTake(p)
    <2> DEFINE q == Peer(p)
    <2>1. q \in Port
      BY Peers
    <2>2. ring[q] - n[p] \in Int /\ (ring[q] - n[p] \in 0..Capacity \/ q \in torn')
      BY <1>9, <2>1, PairAssumption DEF ReadTake, PairInv, TypeOK, Snapshots
    <2>3. ring' \in [Port -> 0..Capacity]
      BY <1>9, <2>1, <2>2, CountValue DEF ReadTake, PairInv, TypeOK
    <2>4. seen' \in [Port -> 0..Capacity]
      BY <1>9, PairAssumption DEF ReadTake, PairInv, TypeOK
    <2> QED
      BY <1>9, <2>3, <2>4 DEF ReadTake, Goto, PairInv, TypeOK, Steps, requests
  <1>10. CASE ReadComplete(p)
    BY <1>10, Peers, PairAssumption
      DEF ReadComplete, Goto, PairInv, TypeOK, Steps, requests, Complete
  <1>11. CASE ReadPark(p)
    <2>1. cur[p] \in Request /\ "reads" \in Kinds
      BY <1>11 DEF ReadPark, PairInv, Serving, Kinds
    <2> QED
      BY <1>11, <2>1, ParkValue DEF ReadPark, Goto, PairInv, TypeOK, Steps, Queues
  <1>12. CASE PurgeTxHead(p)
    <2>1. CASE Reset(p, TRUE)
      BY <1>12, <2>1, ResetValue, Peers
         DEF PurgeTxHead, Holder, Goto, PairInv, TypeOK, Steps, requests
    <2>2. CASE UNCHANGED <<ring, torn, seen>>
      BY <1>12, <2>2, Peers DEF PurgeTxHead, Holder, Goto, PairInv, TypeOK, Steps, requests
    <2> QED
      BY <1>12, <2>1, <2>2 DEF PurgeTxHead
  <1>13. CASE PurgeTxTail(p)
    BY <1>13, ResetValue, Peers DEF PurgeTxTail, Goto, PairInv, TypeOK, Steps, requests
  <1>14. CASE PurgeRxHead(p)
    <2>1. CASE Reset(Peer(p), TRUE)
      BY <1>14, <2>1, ResetValue, Peers
         DEF PurgeRxHead, Holder, Goto, PairInv, TypeOK, Steps, requests
    <2>2. CASE UNCHANGED <<ring, torn, seen>>
      BY <1>14, <2>2, Peers DEF PurgeRxHead, Holder, Goto, PairInv, TypeOK, Steps, requests
    <2> QED
      BY <1>14, <2>1, <2>2 DEF PurgeRxHead
  <1>15. CASE PurgeRxTail(p)
    BY <1>15, ResetValue, Peers DEF PurgeRxTail, Goto, PairInv, TypeOK, Steps, requests
  <1>16. CASE PurgeAbort(p)
    <2>1. queue' \in Queues
      BY <1>16, QueueType, PoppedValue DEF PurgeAbort, PairInv, Kinds
    <2> QED
      BY <1>16, <2>1 DEF PurgeAbort, PairInv, TypeOK, Queues
  <1>17. CASE PurgeDone(p)
    BY <1>17, Peers, PairAssumption
      DEF PurgeDone, Goto, PairInv, TypeOK, Steps, requests, Complete
  <1>18. CASE WaitRetire(p)
    BY <1>18, RetireValue DEF WaitRetire, Goto, PairInv, TypeOK, Steps, Queues
  <1>19. CASE WaitPark(p)
    <2>1. cur[p] \in Request /\ "waits" \in Kinds
      BY <1>19 DEF WaitPark, PairInv, Serving, Kinds
    <2> QED
      BY <1>19, <2>1, ParkValue DEF WaitPark, Goto, PairInv, TypeOK, Steps, Queues
  <1>20. CASE SetMask(p)
    BY <1>20, RetireValue DEF SetMask, Goto, PairInv, TypeOK, Steps, Queues
  <1>21. CASE GetCommStatus(p)
    BY <1>21, Peers, PairAssumption
      DEF GetCommStatus, Goto, PairInv, TypeOK, Steps, requests, LockFree,
         Available
  <1>22. CASE FinishRequest(p)
    BY <1>22, Peers, PairAssumption
      DEF FinishRequest, Goto, PairInv, TypeOK, Steps, requests, Complete
  <1>23. CASE PairAttachChild(p)
    BY <1>23, Peers, PairAssumption
      DEF PairAttachChild, Goto, PairInv, TypeOK, Steps, requests, LockFree
  <1>24. CASE PairDetachChild(p)
    BY <1>24, Peers, PairAssumption
      DEF PairDetachChild, Goto, PairInv, TypeOK, Steps, requests, LockFree
  <1>25. ASSUME NEW r \in Request, NEW c \in Calls, Submit(p, r, c)
        PROVE  TypeOK'
    <2>1. queue' \in Queues
      BY <1>25, QueueType, PushedValue DEF Submit, PairInv, Kinds
    <2> QED
      BY <1>25, <2>1 DEF Submit, PairInv, TypeOK, Queues
  <1>26. ASSUME NEW k \in Kinds, Cancel(p, k)
        PROVE  TypeOK'
    BY <1>26, CancelValue DEF Cancel, PairInv, TypeOK, Queues
  <1> QED
    BY <1>1, <1>2, <1>3, <1>4, <1>5, <1>6, <1>7, <1>8, <1>9, <1>10, <1>11,
         <1>12, <1>13, <1>14, <1>15, <1>16, <1>17, <1>18, <1>19, <1>20, <1>21,
         <1>22, <1>23, <1>24, <1>25, <1>26
      DEF Handler, Environment, EvtIoWrite, EvtIoRead, EvtIoDeviceControl


\* A step keeps the peer of a handler that uses it.
LEMMA AliveStep ==
  ASSUME PairInv, NEW p \in Port, Handler(p) \/ Environment(p)
  PROVE  PeerAlive'
  <1>1. CASE Dispatch(p)
    <2>1. PICK c \in Calls : Goto(p, c.op)
      BY <1>1 DEF Dispatch
    <2> QED
      BY <1>1, <2>1, CallType, Peers DEF Dispatch, Goto, PairInv, TypeOK, PeerAlive, Ops
  <1>2. CASE WriteRoom(p)
    BY <1>2, Peers, PairAssumption
      DEF WriteRoom, Goto, PairInv, TypeOK, PeerAlive, requests
  <1>3. CASE WriteStore(p)
    BY <1>3, Peers, PairAssumption
      DEF WriteStore, Goto, PairInv, TypeOK, PeerAlive, requests
  <1>4. CASE WakeAcquire(p)
    BY <1>4, Peers, PairAssumption
      DEF WakeAcquire, Goto, PairInv, TypeOK, PeerAlive, requests, Holder,
         LockFree
  <1>5. CASE WakeOne(p)
    BY <1>5, Peers, PairAssumption
      DEF WakeOne, Goto, PairInv, TypeOK, PeerAlive, requests
  <1>6. CASE WakeDone(p)
    BY <1>6, Peers, PairAssumption
      DEF WakeDone, Goto, PairInv, TypeOK, PeerAlive, requests
  <1>7. CASE ReadAcquire(p)
    BY <1>7, Peers, PairAssumption
      DEF ReadAcquire, Goto, PairInv, TypeOK, PeerAlive, requests, Holder,
         LockFree
  <1>8. CASE ReadLoad(p)
    BY <1>8, Peers, PairAssumption
      DEF ReadLoad, Goto, PairInv, TypeOK, PeerAlive, requests
  <1>9. CASE ReadTake(p)
    BY <1>9, Peers, PairAssumption
      DEF ReadTake, Goto, PairInv, TypeOK, PeerAlive, requests
  <1>10. CASE ReadComplete(p)
    BY <1>10, Peers, PairAssumption
      DEF ReadComplete, Goto, PairInv, TypeOK, PeerAlive, requests
  <1>11. CASE ReadPark(p)
    BY <1>11, Peers, PairAssumption
      DEF ReadPark, Goto, PairInv, TypeOK, PeerAlive, requests
  <1>12. CASE PurgeTxHead(p)
    <2>1. \E s \in {"purge_tail", "purge_rx"} : Goto(p, s)
      BY <1>12 DEF PurgeTxHead
    <2> QED
      BY <1>12, <2>1, Peers DEF PurgeTxHead, Goto, PairInv, TypeOK, PeerAlive
  <1>13. CASE PurgeTxTail(p)
    BY <1>13, Peers, PairAssumption
      DEF PurgeTxTail, Goto, PairInv, TypeOK, PeerAlive, requests
  <1>14. CASE PurgeRxHead(p)
    <2>1. CASE lock' = lock /\ Goto(p, "purge_abort")
      BY <1>14, <2>1, Peers DEF PurgeRxHead, Goto, PairInv, TypeOK, PeerAlive
    <2>2. CASE /\ LockFree /\ lock' = Holder(p)
               /\ Goto(p, IF Peer(p) \in up THEN "purge_rx_tail" ELSE "purge_abort")
      BY <1>14, <2>2, Peers, PairAssumption
         DEF PurgeRxHead, Goto, LockFree, Holder, PairInv, TypeOK, PeerAlive
    <2> QED
      BY <1>14, <2>1, <2>2 DEF PurgeRxHead
  <1>15. CASE PurgeRxTail(p)
    BY <1>15, Peers, PairAssumption
      DEF PurgeRxTail, Goto, PairInv, TypeOK, PeerAlive, requests
  <1>16. CASE PurgeAbort(p)
    BY <1>16, Peers, PairAssumption
      DEF PurgeAbort, Goto, PairInv, TypeOK, PeerAlive, requests
  <1>17. CASE PurgeDone(p)
    BY <1>17, Peers, PairAssumption
      DEF PurgeDone, Goto, PairInv, TypeOK, PeerAlive, requests
  <1>18. CASE WaitRetire(p)
    BY <1>18, Peers, PairAssumption
      DEF WaitRetire, Goto, PairInv, TypeOK, PeerAlive, requests
  <1>19. CASE WaitPark(p)
    BY <1>19, Peers, PairAssumption
      DEF WaitPark, Goto, PairInv, TypeOK, PeerAlive, requests
  <1>20. CASE SetMask(p)
    BY <1>20, Peers, PairAssumption
      DEF SetMask, Goto, PairInv, TypeOK, PeerAlive, requests
  <1>21. CASE GetCommStatus(p)
    BY <1>21, Peers, PairAssumption
      DEF GetCommStatus, Goto, PairInv, TypeOK, PeerAlive, requests, LockFree
  <1>22. CASE FinishRequest(p)
    BY <1>22, Peers, PairAssumption
      DEF FinishRequest, Goto, PairInv, TypeOK, PeerAlive, requests
  <1>23. CASE PairAttachChild(p)
    BY <1>23, Peers, PairAssumption
      DEF PairAttachChild, Goto, PairInv, TypeOK, PeerAlive, requests,
         LockFree
  <1>24. CASE PairDetachChild(p)
    BY <1>24, Peers, PairAssumption
      DEF PairDetachChild, Goto, PairInv, TypeOK, PeerAlive, requests,
         LockFree
  <1>25. ASSUME NEW r \in Request, NEW c \in Calls, Submit(p, r, c)
        PROVE  PeerAlive'
    BY <1>25, Peers, PairAssumption
      DEF Submit, Goto, PairInv, TypeOK, PeerAlive, requests
  <1>26. ASSUME NEW k \in Kinds, Cancel(p, k)
        PROVE  PeerAlive'
    BY <1>26, Peers, PairAssumption
      DEF Cancel, Goto, PairInv, TypeOK, PeerAlive, requests
  <1> QED
    BY <1>1, <1>2, <1>3, <1>4, <1>5, <1>6, <1>7, <1>8, <1>9, <1>10, <1>11,
         <1>12, <1>13, <1>14, <1>15, <1>16, <1>17, <1>18, <1>19, <1>20, <1>21,
         <1>22, <1>23, <1>24, <1>25, <1>26
      DEF Handler, Environment, EvtIoWrite, EvtIoRead, EvtIoDeviceControl

\* A step keeps the requests in hand.
LEMMA ServingStep ==
  ASSUME PairInv, NEW p \in Port, Handler(p) \/ Environment(p)
  PROVE  Serving'
  <1>1. CASE Dispatch(p)
    <2>1. PICK c \in Calls : call[cur'[p]] = c /\ Goto(p, c.op)
      BY <1>1 DEF Dispatch
    <2>2. cur' = [cur EXCEPT ![p] = Head(queue[p]["default"])]
          /\ queue[p]["default"] # <<>>
      BY <1>1 DEF Dispatch
    <2>3. Head(queue[p]["default"]) \in Request
      BY <2>2, QueueType, PoppedValue DEF PairInv, Kinds
    <2> QED
      BY <1>1, <2>1, <2>2, <2>3, CallType DEF Dispatch, Goto, PairInv, TypeOK, Serving, Ops
  <1>2. CASE WriteRoom(p)
    BY <1>2, PairAssumption
      DEF WriteRoom, Goto, PairInv, TypeOK, Serving, requests
  <1>3. CASE WriteStore(p)
    BY <1>3, PairAssumption
      DEF WriteStore, Goto, PairInv, TypeOK, Serving, requests, Complete
  <1>4. CASE WakeAcquire(p)
    BY <1>4, PairAssumption
      DEF WakeAcquire, Goto, PairInv, TypeOK, Serving, requests, Holder
  <1>5. CASE WakeOne(p)
    BY <1>5, PairAssumption
      DEF WakeOne, Goto, PairInv, TypeOK, Serving, requests
  <1>6. CASE WakeDone(p)
    BY <1>6, PairAssumption
      DEF WakeDone, Goto, PairInv, TypeOK, Serving, requests
  <1>7. CASE ReadAcquire(p)
    BY <1>7, PairAssumption
      DEF ReadAcquire, Goto, PairInv, TypeOK, Serving, requests, Holder
  <1>8. CASE ReadLoad(p)
    BY <1>8, PairAssumption
      DEF ReadLoad, Goto, PairInv, TypeOK, Serving, requests
  <1>9. CASE ReadTake(p)
    BY <1>9, PairAssumption
      DEF ReadTake, Goto, PairInv, TypeOK, Serving, requests
  <1>10. CASE ReadComplete(p)
    BY <1>10, PairAssumption
      DEF ReadComplete, Goto, PairInv, TypeOK, Serving, requests, Complete
  <1>11. CASE ReadPark(p)
    <2>1. cur[p] \in Request /\ "reads" \in Kinds
      BY <1>11 DEF ReadPark, PairInv, Serving, Kinds
    <2> QED
      BY <1>11, <2>1, ParkValue, Peers DEF ReadPark, Goto, PairInv, TypeOK, Serving
  <1>12. CASE PurgeTxHead(p)
    BY <1>12, PairAssumption
      DEF PurgeTxHead, Goto, PairInv, TypeOK, Serving, requests
  <1>13. CASE PurgeTxTail(p)
    BY <1>13, PairAssumption
      DEF PurgeTxTail, Goto, PairInv, TypeOK, Serving, requests
  <1>14. CASE PurgeRxHead(p)
    BY <1>14, PairAssumption
      DEF PurgeRxHead, Goto, PairInv, TypeOK, Serving, requests, Holder
  <1>15. CASE PurgeRxTail(p)
    BY <1>15, PairAssumption
      DEF PurgeRxTail, Goto, PairInv, TypeOK, Serving, requests
  <1>16. CASE PurgeAbort(p)
    BY <1>16, PairAssumption
      DEF PurgeAbort, Goto, PairInv, TypeOK, Serving, requests
  <1>17. CASE PurgeDone(p)
    BY <1>17, PairAssumption
      DEF PurgeDone, Goto, PairInv, TypeOK, Serving, requests, Complete
  <1>18. CASE WaitRetire(p)
    BY <1>18, PairAssumption
      DEF WaitRetire, Goto, PairInv, TypeOK, Serving, requests
  <1>19. CASE WaitPark(p)
    <2>1. cur[p] \in Request /\ "waits" \in Kinds
      BY <1>19 DEF WaitPark, PairInv, Serving, Kinds
    <2> QED
      BY <1>19, <2>1, ParkValue, Peers DEF WaitPark, Goto, PairInv, TypeOK, Serving
  <1>20. CASE SetMask(p)
    BY <1>20, PairAssumption
      DEF SetMask, Goto, PairInv, TypeOK, Serving, requests
  <1>21. CASE GetCommStatus(p)
    BY <1>21, PairAssumption
      DEF GetCommStatus, Goto, PairInv, TypeOK, Serving, requests
  <1>22. CASE FinishRequest(p)
    BY <1>22, PairAssumption
      DEF FinishRequest, Goto, PairInv, TypeOK, Serving, requests, Complete
  <1>23. CASE PairAttachChild(p)
    BY <1>23, PairAssumption
      DEF PairAttachChild, Goto, PairInv, TypeOK, Serving, requests
  <1>24. CASE PairDetachChild(p)
    BY <1>24, PairAssumption
      DEF PairDetachChild, Goto, PairInv, TypeOK, Serving, requests
  <1>25. ASSUME NEW r \in Request, NEW c \in Calls, Submit(p, r, c)
        PROVE  Serving'
    BY <1>25, PairAssumption
      DEF Submit, Goto, PairInv, TypeOK, Serving, requests
  <1>26. ASSUME NEW k \in Kinds, Cancel(p, k)
        PROVE  Serving'
    BY <1>26, PairAssumption
      DEF Cancel, Goto, PairInv, TypeOK, Serving, requests
  <1> QED
    BY <1>1, <1>2, <1>3, <1>4, <1>5, <1>6, <1>7, <1>8, <1>9, <1>10, <1>11,
         <1>12, <1>13, <1>14, <1>15, <1>16, <1>17, <1>18, <1>19, <1>20, <1>21,
         <1>22, <1>23, <1>24, <1>25, <1>26
      DEF Handler, Environment, EvtIoWrite, EvtIoRead, EvtIoDeviceControl

\* A reset does not falsify what a call saw: a call it overlaps tears the ring.
LEMMA ResetSnapshots ==
  ASSUME PairInv, NEW q \in Port, NEW h \in BOOLEAN, Reset(q, h), n' = n,
         \A o \in Port : pc'[o] \in {"store", "take"} => pc'[o] = pc[o]
  PROVE  Snapshots'
  <1>1. /\ q \notin torn' => ~InCall(q)
        /\ \A o \in Port \ {q} : ring'[o] = ring[o] /\ (o \in torn' <=> o \in torn)
    BY ResetValue DEF PairInv
  <1>2. q \notin torn' => pc'[q] # "store" /\ pc'[Peer(q)] # "take"
    BY <1>1, Peers DEF InCall
  <1>3. ASSUME NEW o \in Port
        PROVE  /\ pc'[o] = "store" /\ o \notin torn' => ring'[o] + n'[o] <= Capacity
               /\ pc'[o] = "take" => n'[o] > 0
               /\ pc'[o] = "take" /\ Peer(o) \notin torn' => n'[o] <= ring'[Peer(o)]
    <2>1. Peer(o) \in Port /\ (Peer(o) = q => o = Peer(q))
      BY Peers
    <2> QED
      BY <1>1, <1>2, <2>1 DEF PairInv, Snapshots
  <1> QED
    BY <1>3 DEF Snapshots

\* A step keeps what the calls under way saw true, or tears the ring.
LEMMA SnapshotsStep ==
  ASSUME PairInv, NEW p \in Port, Handler(p) \/ Environment(p)
  PROVE  Snapshots'
  <1>1. CASE Dispatch(p)
    <2>1. PICK c \in Calls : Goto(p, c.op)
      BY <1>1 DEF Dispatch
    <2>2. c.op \notin {"store", "take"}
      BY CallType DEF Ops
    <2>3. \A o \in Port : pc'[o] \in {"store", "take"} => pc'[o] = pc[o]
      BY <2>1, <2>2 DEF Goto, PairInv, TypeOK
    <2>4. ring' = ring /\ n' = n /\ torn' = torn
      BY <1>1 DEF Dispatch
    <2> QED
      BY <2>3, <2>4 DEF PairInv, Snapshots
  <1>2. CASE WriteRoom(p)
    <2>1. /\ torn' \subseteq Port /\ torn \subseteq torn'
          /\ \A o \in Port \ {p} : o \in torn' <=> o \in torn
      BY <1>2, LoadValue DEF WriteRoom, PairInv
    <2>2. Room(p) \in 0..Capacity
      BY PairAssumption DEF Room, PairInv, TypeOK
    <2>3. Asks(p).len \in Nat
      BY <1>2, CallType DEF WriteRoom, PairInv, Serving, Asks
    <2>4. PICK k \in Count(p, Room(p)) : n' = [n EXCEPT ![p] = Smaller(Asks(p).len, k)]
      BY <1>2 DEF WriteRoom
    <2>5. k \in 0..Capacity /\ (p \notin torn' => k = Room(p))
      BY <2>2, <2>4, CountValue, PairAssumption
    <2>6. Smaller(Asks(p).len, k) \in 0..Capacity /\ Smaller(Asks(p).len, k) <= k
      BY <2>3, <2>5, SmallerValue
    <2>7. p \notin torn' => ring[p] + Smaller(Asks(p).len, k) <= Capacity
      BY <2>5, <2>6, PairAssumption DEF Room, PairInv, TypeOK
    <2>8. pc' = [pc EXCEPT ![p] = "store"] /\ ring' = ring
      BY <1>2 DEF WriteRoom, Goto
    <2> HIDE DEF Smaller, Asks
    <2> QED
      BY <2>1, <2>4, <2>6, <2>7, <2>8, Peers DEF PairInv, TypeOK, Snapshots
  <1>3. CASE WriteStore(p)
    BY <1>3, Peers, PairAssumption
      DEF WriteStore, Goto, PairInv, TypeOK, Snapshots, requests, Count
  <1>4. CASE WakeAcquire(p)
    BY <1>4, Peers, PairAssumption
      DEF WakeAcquire, Goto, PairInv, TypeOK, Snapshots, requests, Holder,
         LockFree
  <1>5. CASE WakeOne(p)
    BY <1>5, Peers, PairAssumption
      DEF WakeOne, Goto, PairInv, TypeOK, Snapshots, requests
  <1>6. CASE WakeDone(p)
    BY <1>6, Peers, PairAssumption
      DEF WakeDone, Goto, PairInv, TypeOK, Snapshots, requests
  <1>7. CASE ReadAcquire(p)
    BY <1>7, Peers, PairAssumption
      DEF ReadAcquire, Goto, PairInv, TypeOK, Snapshots, requests, Holder,
         LockFree
  <1>8. CASE ReadLoad(p)
    <2> DEFINE q == Peer(p)
    <2>1. /\ q \in Port /\ q # p /\ Peer(q) = p
          /\ torn \subseteq torn' /\ \A o \in Port \ {q} : o \in torn' <=> o \in torn
      BY <1>8, LoadValue, Peers DEF ReadLoad, PairInv
    <2>2. Available(p, q) = ring[q] /\ ring[q] \in 0..Capacity
      BY <2>1 DEF Available, PairInv, TypeOK
    <2>3. Asks(p).len \in Nat
      BY <1>8, CallType DEF ReadLoad, PairInv, Serving, Asks
    <2>4. PICK k \in Count(q, Available(p, q)) :
            n' = [n EXCEPT ![p] = Smaller(Asks(p).len, k)]
      BY <1>8 DEF ReadLoad
    <2>5. k \in 0..Capacity /\ (q \notin torn' => k = ring[q])
      BY <2>1, <2>2, <2>4, CountValue, PairAssumption
    <2>6. Smaller(Asks(p).len, k) \in 0..Capacity /\ Smaller(Asks(p).len, k) <= k
      BY <2>3, <2>5, SmallerValue
    <2>7. /\ pc' = [pc EXCEPT ![p] = IF n'[p] = 0 THEN "decide" ELSE "take"]
          /\ ring' = ring
      BY <1>8 DEF ReadLoad, Goto
    <2> QED
      BY <2>1, <2>2, <2>4, <2>5, <2>6, <2>7, Peers DEF PairInv, TypeOK, Snapshots
  <1>9. CASE ReadTake(p)
    BY <1>9, Peers, PairAssumption
      DEF ReadTake, Goto, PairInv, TypeOK, Snapshots, requests, Count
  <1>10. CASE ReadComplete(p)
    BY <1>10, Peers, PairAssumption
      DEF ReadComplete, Goto, PairInv, TypeOK, Snapshots, requests
  <1>11. CASE ReadPark(p)
    BY <1>11, Peers, PairAssumption
      DEF ReadPark, Goto, PairInv, TypeOK, Snapshots, requests
  <1>12. CASE PurgeTxHead(p)
    <2>1. CASE Reset(p, TRUE) /\ Goto(p, "purge_tail")
      BY <1>12, <2>1, ResetSnapshots DEF PurgeTxHead, Goto, PairInv, TypeOK
    <2>2. CASE UNCHANGED <<ring, torn, seen>> /\ Goto(p, "purge_rx")
      BY <1>12, <2>2, Peers DEF PurgeTxHead, Goto, PairInv, TypeOK, Snapshots
    <2> QED
      BY <1>12, <2>1, <2>2 DEF PurgeTxHead
  <1>13. CASE PurgeTxTail(p)
    BY <1>13, ResetSnapshots DEF PurgeTxTail, Goto, PairInv, TypeOK
  <1>14. CASE PurgeRxHead(p)
    <2>1. CASE Reset(Peer(p), TRUE) /\ Goto(p, "purge_rx_tail")
      BY <1>14, <2>1, ResetSnapshots, Peers DEF PurgeRxHead, Goto, PairInv, TypeOK
    <2>2. CASE UNCHANGED <<ring, torn, seen>> /\ Goto(p, "purge_abort")
      BY <1>14, <2>2, Peers DEF PurgeRxHead, Goto, PairInv, TypeOK, Snapshots
    <2> QED
      BY <1>14, <2>1, <2>2 DEF PurgeRxHead
  <1>15. CASE PurgeRxTail(p)
    BY <1>15, ResetSnapshots, Peers DEF PurgeRxTail, Goto, PairInv, TypeOK
  <1>16. CASE PurgeAbort(p)
    BY <1>16, Peers, PairAssumption
      DEF PurgeAbort, Goto, PairInv, TypeOK, Snapshots, requests
  <1>17. CASE PurgeDone(p)
    BY <1>17, Peers, PairAssumption
      DEF PurgeDone, Goto, PairInv, TypeOK, Snapshots, requests
  <1>18. CASE WaitRetire(p)
    BY <1>18, Peers, PairAssumption
      DEF WaitRetire, Goto, PairInv, TypeOK, Snapshots, requests
  <1>19. CASE WaitPark(p)
    BY <1>19, Peers, PairAssumption
      DEF WaitPark, Goto, PairInv, TypeOK, Snapshots, requests
  <1>20. CASE SetMask(p)
    BY <1>20, Peers, PairAssumption
      DEF SetMask, Goto, PairInv, TypeOK, Snapshots, requests
  <1>21. CASE GetCommStatus(p)
    BY <1>21, Peers, PairAssumption
      DEF GetCommStatus, Goto, PairInv, TypeOK, Snapshots, requests, LockFree,
         Available
  <1>22. CASE FinishRequest(p)
    BY <1>22, Peers, PairAssumption
      DEF FinishRequest, Goto, PairInv, TypeOK, Snapshots, requests
  <1>23. CASE PairAttachChild(p)
    BY <1>23, Peers, PairAssumption
      DEF PairAttachChild, Goto, PairInv, TypeOK, Snapshots, requests,
         LockFree
  <1>24. CASE PairDetachChild(p)
    BY <1>24, Peers, PairAssumption
       DEF PairDetachChild, LockFree, requests, PairInv, TypeOK, Snapshots, PeerAlive
  <1>25. ASSUME NEW r \in Request, NEW c \in Calls, Submit(p, r, c)
        PROVE  Snapshots'
    BY <1>25, Peers, PairAssumption
      DEF Submit, Goto, PairInv, TypeOK, Snapshots, requests
  <1>26. ASSUME NEW k \in Kinds, Cancel(p, k)
        PROVE  Snapshots'
    BY <1>26, Peers, PairAssumption
      DEF Cancel, Goto, PairInv, TypeOK, Snapshots, requests
  <1> QED
    BY <1>1, <1>2, <1>3, <1>4, <1>5, <1>6, <1>7, <1>8, <1>9, <1>10, <1>11,
         <1>12, <1>13, <1>14, <1>15, <1>16, <1>17, <1>18, <1>19, <1>20, <1>21,
         <1>22, <1>23, <1>24, <1>25, <1>26
      DEF Handler, Environment, EvtIoWrite, EvtIoRead, EvtIoDeviceControl


\* A handler that is at work, or is given a request, belongs to a port in the
\* pair table.
LEMMA Present ==
  ASSUME PairInv, NEW p \in Port,
         pc[p] # "idle" \/ \E k \in Kinds : queue[p][k] # <<>>
  PROVE  p \in up
  <1>1. ASSUME NEW k \in Kinds, queue[p][k] # <<>>
        PROVE  Len(queue[p][k]) # 0
    BY <1>1, QueueType, EmptyLen DEF PairInv
  <1> QED
    BY <1>1 DEF PairInv, Absent

\* Which queues a step can make longer: the default queue, or the one the
\* handler parks its request on.
Parks(p, o, k) == \/ k = "default"
                  \/ o = p /\ k = "reads" /\ ReadPark(p)
                  \/ o = p /\ k = "waits" /\ WaitPark(p)

LEMMA QueueStep ==
  ASSUME PairInv, NEW p \in Port, Handler(p) \/ Environment(p),
         NEW o \in Port, NEW k \in Kinds
  PROVE  /\ Len(queue'[o][k]) \in Nat
         /\ \/ Len(queue'[o][k]) <= Len(queue[o][k])
            \/ /\ o \in up /\ Parks(p, o, k)
               /\ Len(queue'[o][k]) <= Len(queue[o][k]) + 1
  <1> DEFINE Goal == \/ Len(queue'[o][k]) <= Len(queue[o][k])
                     \/ /\ o \in up /\ Parks(p, o, k)
                        /\ Len(queue'[o][k]) <= Len(queue[o][k]) + 1
  <1>1. Len(queue'[o][k]) \in Nat
    BY TypeStep DEF TypeOK
  <1>2. Len(queue[o][k]) \in Nat /\ queue \in Queues
    BY QueueType DEF PairInv
  <1>3. "default" \in Kinds /\ "reads" \in Kinds /\ "waits" \in Kinds
    BY DEF Kinds
  <1>4. Peer(p) \in Port
    BY Peers
  <1>5. CASE UNCHANGED queue
    BY <1>2, <1>5
  <1>6. CASE Dispatch(p)
    BY <1>2, <1>3, <1>6, PoppedValue DEF Dispatch
  <1>7. CASE WakeOne(p)
    <2>1. Peer(p) \in up
      BY <1>7 DEF WakeOne, PairInv, PeerAlive
    <2>2. (o = Peer(p) /\ k = "default") \/ Len(queue'[o][k]) <= Len(queue[o][k])
      BY <1>7, WakeOneValue DEF PairInv
    <2>3. CASE o = Peer(p) /\ k = "default"
      <3>1. CASE queue' = Popped(queue, o, "reads")
        BY <1>2, <1>3, <1>7, <2>3, <3>1, PoppedValue DEF WakeOne, WakeFinished
      <3>2. CASE queue' = Pushed(Popped(queue, o, "reads"), o, "default",
                                 Head(queue[o]["reads"]))
        <4> DEFINE shorter == Popped(queue, o, "reads")
                   r == Head(queue[o]["reads"])
        <4>1. /\ shorter \in Queues /\ r \in Request
              /\ Len(shorter[o]["default"]) = Len(queue[o]["default"])
          BY <1>2, <1>3, <1>7, <2>3, PoppedValue DEF WakeOne, WakeFinished
        <4>2. queue' = Pushed(shorter, o, "default", r)
          BY <3>2
        <4> HIDE DEF shorter, r
        <4>3. Len(queue'[o]["default"]) = Len(queue[o]["default"]) + 1
          <5>1. \A k2 \in Kinds : Len(Pushed(shorter, o, "default", r)[o][k2]) =
                  IF k2 = "default" THEN Len(shorter[o][k2]) + 1 ELSE Len(shorter[o][k2])
            BY <1>3, <4>1, PushedValue
          <5> QED
            BY <1>3, <4>1, <4>2, <5>1
        <4> QED
          BY <1>2, <2>1, <2>3, <4>3 DEF Parks
      <3> QED
        BY <1>7, <2>3, <3>1, <3>2 DEF WakeOne
    <2> QED
      BY <2>2, <2>3
  <1>8. CASE ReadPark(p)
    <2>1. p \in up /\ cur[p] \in Request
      BY <1>8, Present DEF ReadPark, PairInv, Serving
    <2> QED
      BY <1>2, <1>3, <1>8, <2>1, ParkValue DEF ReadPark, PairInv, Parks
  <1>9. CASE WaitPark(p)
    <2>1. p \in up /\ cur[p] \in Request
      BY <1>9, Present DEF WaitPark, PairInv, Serving
    <2> QED
      BY <1>2, <1>3, <1>9, <2>1, ParkValue DEF WaitPark, PairInv, Parks
  <1>10. CASE PurgeAbort(p)
    BY <1>2, <1>3, <1>10, PoppedValue DEF PurgeAbort
  <1>11. CASE Retire(p)
    <2>1. queue[p]["waits"] = <<>> => Len(queue[p]["waits"]) = 0
      OBVIOUS
    <2> QED
      BY <1>2, <1>11, <2>1, RetireValue DEF PairInv
  <1>12. ASSUME NEW r \in Request, NEW c \in Calls, Submit(p, r, c)
         PROVE  Goal
    <2>1. queue' = Pushed(queue, p, "default", r) /\ p \in up
      BY <1>12 DEF Submit
    <2> QED
      BY <1>2, <1>3, <2>1, PushedValue DEF Parks
  <1>13. ASSUME NEW k2 \in Kinds, Cancel(p, k2)
         PROVE  Goal
    BY <1>13, CancelValue DEF PairInv
  <1>14. Goal
    BY <1>5, <1>6, <1>7, <1>8, <1>9, <1>10, <1>11, <1>12, <1>13
       DEF Handler, Environment, EvtIoWrite, EvtIoRead, EvtIoDeviceControl,
           WriteRoom, WriteStore, WakeAcquire, WakeDone, ReadAcquire, ReadLoad,
           ReadTake, ReadComplete, PurgeTxHead, PurgeTxTail, PurgeRxHead,
           PurgeRxTail, PurgeDone, WaitRetire, SetMask, GetCommStatus,
           FinishRequest, PairAttachChild, PairDetachChild, requests
  <1> QED
    BY <1>1, <1>14

\* A ring in good order gets bytes from its own port's store only.
LEMMA RingStep ==
  ASSUME PairInv, NEW p \in Port, Handler(p) \/ Environment(p),
         NEW o \in Port, o \notin torn', ring'[o] > 0
  PROVE  \/ o \notin torn /\ ring[o] > 0
         \/ o = p /\ WriteStore(p)
  <1>1. CASE UNCHANGED <<ring, torn>>
    BY <1>1
  <1>2. CASE UNCHANGED ring /\ \E q \in Port : Load(q)
    BY <1>2, LoadValue DEF PairInv
  <1>3. CASE WriteStore(p)
    BY <1>3 DEF WriteStore, PairInv, TypeOK
  <1>4. CASE ReadTake(p)
    <2>1. torn' = torn /\ Peer(p) \in Port
      BY <1>4, Peers DEF ReadTake
    <2>2. PICK k \in Count(Peer(p), ring[Peer(p)] - n[p]) :
            ring' = [ring EXCEPT ![Peer(p)] = k]
      BY <1>4 DEF ReadTake
    <2>3. o = Peer(p) => ring'[o] = ring[o] - n[p]
      BY <2>1, <2>2 DEF Count, PairInv, TypeOK
    <2> QED
      BY <2>1, <2>2, <2>3 DEF PairInv, TypeOK
  <1>5. CASE \E q \in Port : \E h \in BOOLEAN : Reset(q, h)
    <2>1. PICK q \in Port, h \in BOOLEAN : Reset(q, h)
      BY <1>5
    <2> QED
      BY <2>1, ResetValue DEF PairInv
  <1>6. CASE PairDetachChild(p)
    BY <1>6 DEF PairDetachChild, PairInv, TypeOK
  <1> QED
    BY <1>1, <1>2, <1>3, <1>4, <1>5, <1>6, Peers
       DEF Handler, Environment, EvtIoWrite, EvtIoRead, EvtIoDeviceControl,
           Dispatch, WriteRoom, WakeAcquire, WakeOne, WakeDone, ReadAcquire,
           ReadLoad, ReadComplete, ReadPark, PurgeTxHead, PurgeTxTail,
           PurgeRxHead, PurgeRxTail, PurgeAbort, PurgeDone, WaitRetire, WaitPark,
           SetMask, GetCommStatus, FinishRequest, PairAttachChild, Submit, Cancel


\* How a program counter moves: where the invariants tell the steps apart.
LEMMA PcStep ==
  ASSUME PairInv, NEW p \in Port, Handler(p) \/ Environment(p), NEW o \in Port
  PROVE  /\ o # p => pc'[o] = pc[o]
         /\ pc[p] \in {"lookup", "waking"} /\ pc'[p] \notin {"lookup", "waking"}
              => WakeDone(p) \/ (WakeAcquire(p) /\ Peer(p) \notin up)
         /\ pc'[p] = "wait_park" => WaitRetire(p) \/ pc[p] = "wait_park"
         /\ Late(p)' = 1 /\ Late(p) = 0 =>
              \/ ReadAcquire(p) /\ Peer(p) \notin up
              \/ ReadLoad(p) /\ n'[p] = 0
              \/ ReadTake(p) /\ n[p] = 0
         /\ ReadPark(p) => Late(p) = 1 /\ Late(p)' = 0
  <1> DEFINE Goal ==
         /\ o # p => pc'[o] = pc[o]
         /\ pc[p] \in {"lookup", "waking"} /\ pc'[p] \notin {"lookup", "waking"}
              => WakeDone(p) \/ (WakeAcquire(p) /\ Peer(p) \notin up)
         /\ pc'[p] = "wait_park" => WaitRetire(p) \/ pc[p] = "wait_park"
         /\ Late(p)' = 1 /\ Late(p) = 0 =>
              \/ ReadAcquire(p) /\ Peer(p) \notin up
              \/ ReadLoad(p) /\ n'[p] = 0
              \/ ReadTake(p) /\ n[p] = 0
         /\ ReadPark(p) => Late(p) = 1 /\ Late(p)' = 0
  <1>1. pc \in [Port -> Steps]
    BY DEF PairInv, TypeOK
  <1>2. CASE UNCHANGED <<pc, n>> /\ ~ReadPark(p)
    BY <1>2 DEF Late
  <1>3. CASE \E s \in Steps \ {"decide", "wait_park", "lookup", "waking"} :
               Goto(p, s) /\ pc[p] \notin {"lookup", "waking", "decide"}
    BY <1>1, <1>3 DEF Goto, Late, ReadPark
  <1>4. CASE WriteStore(p)
    BY <1>1, <1>4 DEF WriteStore, Goto, Late, ReadPark
  <1>5. CASE WakeAcquire(p)
    BY <1>1, <1>5 DEF WakeAcquire, Goto, Late, ReadPark
  <1>6. CASE WakeDone(p)
    BY <1>1, <1>6 DEF WakeDone, Goto, Late, ReadPark
  <1>7. CASE ReadAcquire(p)
    BY <1>1, <1>7 DEF ReadAcquire, Goto, Late, ReadPark
  <1>8. CASE ReadLoad(p)
    <2>1. /\ pc[p] = "load"
          /\ pc' = [pc EXCEPT ![p] = IF n'[p] = 0 THEN "decide" ELSE "take"]
      BY <1>8 DEF ReadLoad, Goto
    <2> QED
      BY <1>1, <1>8, <2>1 DEF Late, ReadPark
  <1>9. CASE ReadTake(p)
    <2>1. pc[p] = "take" /\ pc' = [pc EXCEPT ![p] = "decide"] /\ n' = n
      BY <1>9 DEF ReadTake, Goto
    <2> QED
      BY <1>1, <1>9, <2>1 DEF Late, ReadPark
  <1>10. CASE ReadComplete(p)
    BY <1>1, <1>10 DEF ReadComplete, Goto, Late, ReadPark
  <1>11. CASE ReadPark(p)
    BY <1>1, <1>11 DEF ReadPark, Goto, Late
  <1>12. CASE WaitRetire(p)
    BY <1>1, <1>12 DEF WaitRetire, Goto, Late, ReadPark
  <1>13. CASE Dispatch(p)
    <2>1. PICK c \in Calls : Goto(p, c.op)
      BY <1>13 DEF Dispatch
    <2>2. c.op \in Ops
      BY CallType
    <2> QED
      BY <1>1, <1>13, <2>1, <2>2 DEF Dispatch, Goto, Late, ReadPark, Ops
  <1>14. Goal
    BY <1>2, <1>3, <1>4, <1>5, <1>6, <1>7, <1>8, <1>9, <1>10, <1>11, <1>12, <1>13
       DEF Handler, Environment, EvtIoWrite, EvtIoRead, EvtIoDeviceControl,
           WriteRoom, WakeOne, PurgeTxHead, PurgeTxTail, PurgeRxHead, PurgeRxTail,
           PurgeAbort, PurgeDone, WaitPark, SetMask, GetCommStatus, FinishRequest,
           PairAttachChild, PairDetachChild, Submit, Cancel, ReadPark, Steps
  <1> QED
    BY <1>14

\* A step of one port leaves the other's handler where it is.
LEMMA OthersStill ==
  ASSUME PairInv, NEW p \in Port, Handler(p) \/ Environment(p), NEW o \in Port, o # p
  PROVE  pc'[o] = pc[o] /\ n'[o] = n[o] /\ Late(o)' = Late(o)
  <1>1. pc'[o] = pc[o]
    BY PcStep
  <1>2. n'[o] = n[o]
    <2>1. CASE UNCHANGED n
      BY <2>1
    <2>2. CASE \E m : n' = [n EXCEPT ![p] = m]
      BY <2>2 DEF PairInv, TypeOK
    <2> QED
      BY <2>1, <2>2
         DEF Handler, Environment, EvtIoWrite, EvtIoRead, EvtIoDeviceControl, Dispatch,
             WriteRoom, WriteStore, WakeAcquire, WakeOne, WakeDone, ReadAcquire,
             ReadLoad, ReadTake, ReadComplete, ReadPark, PurgeTxHead, PurgeTxTail,
             PurgeRxHead, PurgeRxTail, PurgeAbort, PurgeDone, WaitRetire, WaitPark,
             SetMask, GetCommStatus, FinishRequest, PairAttachChild, PairDetachChild,
             Submit, Cancel
  <1> QED
    BY <1>1, <1>2 DEF Late

\* A port out of the pair table stays empty until it attaches.
LEMMA AbsentStep ==
  ASSUME PairInv, NEW p \in Port, Handler(p) \/ Environment(p)
  PROVE  Absent'
  <1> SUFFICES ASSUME NEW o \in Port, o \notin up'
               PROVE  /\ pc'[o] = "idle" /\ ring'[o] = 0 /\ o \notin torn'
                      /\ \A k \in Kinds : Len(queue'[o][k]) = 0
    BY DEF Absent
  <1>1. CASE PairDetachChild(p) /\ o = p
    <2>1. \A k \in Kinds : queue'[o][k] = <<>>
      BY <1>1 DEF PairDetachChild, requests
    <2> QED
      BY <1>1, <2>1 DEF PairDetachChild, PairInv, TypeOK
  <1>2. CASE o \notin up
    <2>1. /\ pc[o] = "idle" /\ ring[o] = 0 /\ o \notin torn
          /\ \A k \in Kinds : Len(queue[o][k]) = 0
      BY <1>2 DEF PairInv, Absent
    <2>2. ASSUME NEW k \in Kinds
          PROVE  Len(queue'[o][k]) = 0
      BY <1>2, <2>1, QueueStep
    <2>3. o = p => ~Handler(p)
      <3>1. \A k \in Kinds : queue[o][k] = <<>>
        BY <2>1, QueueType, EmptyLen DEF PairInv
      <3> QED
        BY <2>1, <3>1 DEF Handler, Dispatch, EvtIoWrite, EvtIoRead,
             EvtIoDeviceControl, WriteRoom, WriteStore, WakeAcquire, WakeOne,
             WakeDone, ReadAcquire, ReadLoad, ReadTake, ReadComplete, ReadPark,
             PurgeTxHead, PurgeTxTail, PurgeRxHead, PurgeRxTail, PurgeAbort,
             PurgeDone, WaitRetire, WaitPark, SetMask, GetCommStatus,
             FinishRequest, Kinds
    <2>4. pc'[o] = "idle"
      <3>1. CASE o = p
        BY <2>1, <2>3, <3>1 DEF Environment, PairAttachChild, PairDetachChild,
             Submit, Cancel
      <3> QED
        BY <2>1, <3>1, PcStep
    <2>5. CASE UNCHANGED <<ring, torn>> \/ PairDetachChild(p)
      BY <2>1, <2>2, <2>4, <2>5 DEF PairDetachChild, PairInv, TypeOK
    <2>6. CASE Handler(p) /\ ~UNCHANGED <<ring, torn>>
      <3>1. o = Peer(p)
        BY <2>3, <2>6, Peers
      <3>2. ring'[o] = ring[o] /\ (o \in torn' <=> o \in torn)
        <4>1. CASE WriteRoom(p)
          BY <3>1, <4>1, LoadValue, Peers DEF WriteRoom, PairInv
        <4>2. CASE WriteStore(p)
          BY <3>1, <4>2, Peers DEF WriteStore, PairInv, TypeOK
        <4>3. CASE ReadLoad(p) \/ ReadTake(p) \/ PurgeRxTail(p)
          BY <1>2, <3>1, <4>3 DEF ReadLoad, ReadTake, PurgeRxTail, PairInv, PeerAlive
        <4>4. CASE PurgeTxHead(p) \/ PurgeTxTail(p)
          BY <2>6, <3>1, <4>4, ResetValue, Peers DEF PurgeTxHead, PurgeTxTail, PairInv
        <4>5. CASE PurgeRxHead(p)
          BY <1>2, <2>6, <3>1, <4>5 DEF PurgeRxHead
        <4> QED
          BY <2>6, <4>1, <4>2, <4>3, <4>4, <4>5
             DEF Handler, Dispatch, EvtIoWrite, EvtIoRead, EvtIoDeviceControl,
                 WakeAcquire, WakeOne, WakeDone, ReadAcquire, ReadComplete,
                 ReadPark, PurgeAbort, PurgeDone, WaitRetire, WaitPark, SetMask,
                 GetCommStatus, FinishRequest
      <3> QED
        BY <2>1, <2>2, <2>4, <3>2
    <2> QED
      BY <2>5, <2>6 DEF Environment, PairAttachChild, Submit, Cancel
  <1>3. o \in up => PairDetachChild(p) /\ o = p
    BY DEF Handler, Environment, EvtIoWrite, EvtIoRead, EvtIoDeviceControl,
           Dispatch, WriteRoom, WriteStore, WakeAcquire, WakeOne, WakeDone,
           ReadAcquire, ReadLoad, ReadTake, ReadComplete, ReadPark, PurgeTxHead,
           PurgeTxTail, PurgeRxHead, PurgeRxTail, PurgeAbort, PurgeDone,
           WaitRetire, WaitPark, SetMask, GetCommStatus, FinishRequest,
           PairAttachChild, PairDetachChild, Submit, Cancel
  <1> QED
    BY <1>1, <1>2, <1>3

\* At most one waiter is parked: it is retired before the next one is.
LEMMA WaitersStep ==
  ASSUME PairInv, NEW p \in Port, Handler(p) \/ Environment(p)
  PROVE  Waiters'
  <1> SUFFICES ASSUME NEW o \in Port
               PROVE  /\ Len(queue'[o]["waits"]) <= 1
                      /\ pc'[o] = "wait_park" => Len(queue'[o]["waits"]) = 0
    BY DEF Waiters
  <1>1. "waits" \in Kinds
    BY DEF Kinds
  <1>2. /\ Len(queue[o]["waits"]) \in Nat /\ Len(queue[o]["waits"]) <= 1
        /\ pc[o] = "wait_park" => Len(queue[o]["waits"]) = 0
    BY <1>1, QueueType DEF PairInv, Waiters
  <1>3. CASE o = p /\ WaitPark(p)
    <2>1. pc[p] = "wait_park" /\ pc'[p] = "idle"
      BY <1>3 DEF WaitPark, Goto, PairInv, TypeOK
    <2>2. /\ Len(queue'[o]["waits"]) \in Nat
          /\ Len(queue'[o]["waits"]) <= Len(queue[o]["waits"]) + 1
      BY <1>1, <1>2, QueueStep
    <2> QED
      BY <1>2, <1>3, <2>1, <2>2
  <1>4. CASE o = p /\ WaitRetire(p)
    <2>1. Len(queue'[o]["waits"]) =
            IF queue[o]["waits"] = <<>> THEN 0 ELSE Len(queue[o]["waits"]) - 1
      BY <1>4, RetireValue DEF WaitRetire, PairInv
    <2>2. queue[o]["waits"] # <<>> => Len(queue[o]["waits"]) # 0
      BY <1>1, QueueType, EmptyLen DEF PairInv
    <2>3. Len(queue'[o]["waits"]) = 0
      <3> DEFINE before == Len(queue[o]["waits"])
      <3>1. before \in Nat /\ before <= 1
        BY <1>2
      <3>2. CASE queue[o]["waits"] = <<>>
        BY <2>1, <3>2
      <3>3. CASE queue[o]["waits"] # <<>>
        <4>1. Len(queue'[o]["waits"]) = before - 1 /\ before # 0
          BY <2>1, <2>2, <3>3
        <4> HIDE DEF before
        <4> QED
          BY <3>1, <4>1
      <3> QED
        BY <3>2, <3>3
    <2> QED
      BY <2>3
  <1>5. CASE ~(o = p /\ (WaitPark(p) \/ WaitRetire(p)))
    <2>1. /\ Len(queue'[o]["waits"]) \in Nat
          /\ Len(queue'[o]["waits"]) <= Len(queue[o]["waits"])
      BY <1>1, <1>5, QueueStep DEF Parks
    <2>2. pc'[o] = "wait_park" => pc[o] = "wait_park"
      BY <1>5, PcStep
    <2> QED
      BY <1>2, <2>1, <2>2
  <1> QED
    BY <1>3, <1>4, <1>5

\* No second read is stranded: the count of the parked reads and of the one
\* about to be parked grows only while the ring is empty, and a wake-up that
\* ends leaves none parked.
LEMMA StrandedStep ==
  ASSUME PairInv, NEW p \in Port, Handler(p) \/ Environment(p)
  PROVE  Stranded'
  <1> SUFFICES ASSUME NEW o \in Port, NEW q \in Port, q = Peer(o),
                      ring'[q] > 0, q \notin torn',
                      pc'[q] \notin {"lookup", "waking"}
               PROVE  Len(queue'[o]["reads"]) + Late(o)' <= 1
    BY Peers DEF Stranded, Late
  <1>1. "reads" \in Kinds /\ o # q /\ Peer(q) = o
    BY Peers DEF Kinds
  <1>2. /\ Len(queue[o]["reads"]) \in Nat /\ Len(queue'[o]["reads"]) \in Nat
        /\ Late(o) \in {0, 1} /\ Late(o)' \in {0, 1}
    BY <1>1, QueueType, QueueStep DEF PairInv, Late
  <1>3. q \notin torn /\ ring[q] > 0
    <2>1. WriteStore(p) => pc'[p] = "lookup"
      BY DEF WriteStore, Goto, PairInv, TypeOK
    <2> QED
      BY <2>1, RingStep
  <1>4. CASE q = p /\ WakeDone(p)
    <2>1. Len(queue[o]["reads"]) = 0 /\ queue' = queue
      BY <1>1, <1>4 DEF WakeDone, WakeFinished, requests
    <2> QED
      BY <1>2, <2>1
  <1>5. CASE q = p /\ WakeAcquire(p) /\ o \notin up
    <2>1. Len(queue[o]["reads"]) = 0 /\ queue' = queue
      BY <1>1, <1>5 DEF WakeAcquire, requests, PairInv, Absent
    <2> QED
      BY <1>2, <2>1
  <1>6. CASE pc[q] \notin {"lookup", "waking"}
    <2>1. Len(queue[o]["reads"]) + Late(o) <= 1
      BY <1>1, <1>3, <1>6 DEF PairInv, Stranded
    <2>2. CASE o = p /\ ReadPark(p)
      <3>1. Len(queue'[o]["reads"]) <= Len(queue[o]["reads"]) + 1
        BY <1>1, <1>2, QueueStep
      <3>2. Late(o) = 1 /\ Late(o)' = 0
        BY <2>2, PcStep
      <3> QED
        BY <1>2, <2>1, <3>1, <3>2
    <2>3. CASE ~(o = p /\ ReadPark(p))
      <3>1. Len(queue'[o]["reads"]) <= Len(queue[o]["reads"])
        BY <1>1, <2>3, QueueStep DEF Parks
      <3>2. o # p => Late(o)' = Late(o)
        BY OthersStill
      <3>3. ASSUME o = p, Late(o)' = 1, Late(o) = 0
            PROVE  FALSE
        <4>1. CASE ReadAcquire(p) /\ q \notin up
          BY <1>3, <4>1 DEF PairInv, Absent
        <4>2. CASE ReadLoad(p) /\ n'[p] = 0
          <5>1. PICK k \in Count(q, ring[q]) : n' = [n EXCEPT ![p] = Smaller(Asks(p).len, k)]
            BY <3>3, <4>2 DEF ReadLoad, Available
          <5>2. k = ring[q] /\ ring[q] \in 0..Capacity
            BY <5>1 DEF Count, PairInv, TypeOK
          <5>3. Asks(p).len \in Nat /\ Asks(p).len > 0
            BY <4>2, CallType DEF ReadLoad, PairInv, Serving, Asks
          <5>4. Smaller(Asks(p).len, k) = 0
            BY <4>2, <5>1 DEF PairInv, TypeOK
          <5> QED
            BY <1>3, <5>2, <5>3, <5>4, SmallerValue
        <4>3. CASE ReadTake(p) /\ n[p] = 0
          BY <4>3 DEF ReadTake, PairInv, Snapshots, TypeOK
        <4> QED
          BY <3>3, <4>1, <4>2, <4>3, PcStep
      <3> QED
        BY <1>2, <2>1, <3>1, <3>2, <3>3
    <2> QED
      BY <2>2, <2>3
  <1> QED
    BY <1>1, <1>4, <1>5, <1>6, PcStep

\* What GET_COMMSTATUS announced stays there: the writer adds, and the reader
\* takes off the announcement what it takes off the ring.
LEMMA StatusStep ==
  ASSUME PairInv, NEW p \in Port, Handler(p) \/ Environment(p)
  PROVE  StatusHolds'
  <1> SUFFICES ASSUME NEW o \in Port, NEW q \in Port, q = Peer(o), q \notin torn'
               PROVE  seen'[o] <= ring'[q]
    BY Peers DEF StatusHolds
  <1>1. o # q /\ Peer(q) = o /\ (p = o \/ p = q)
    BY Peers
  <1>2. /\ ring \in [Port -> 0..Capacity] /\ seen \in [Port -> 0..Capacity]
        /\ n \in [Port -> 0..Capacity]
        /\ q \notin torn => seen[o] <= ring[q]
    BY DEF PairInv, TypeOK, StatusHolds
  <1>3. CASE UNCHANGED <<ring, seen, torn>>
    BY <1>2, <1>3
  <1>4. CASE UNCHANGED <<ring, seen>> /\ \E x \in Port : Load(x)
    BY <1>2, <1>4, LoadValue DEF PairInv
  <1>5. CASE WriteStore(p)
    <2>1. PICK k \in Count(p, ring[p] + n[p]) : ring' = [ring EXCEPT ![p] = k]
      BY <1>5 DEF WriteStore
    <2>2. p = q => k = ring[p] + n[p]
      BY <2>1 DEF Count
    <2> QED
      BY <1>1, <1>2, <1>5, <2>1, <2>2, PairAssumption DEF WriteStore
  <1>6. CASE ReadTake(p)
    <2>1. PICK k \in Count(Peer(p), ring[Peer(p)] - n[p]) :
            ring' = [ring EXCEPT ![Peer(p)] = k]
      BY <1>6 DEF ReadTake
    <2>2. p = o => k = ring[q] - n[p] /\ n[p] <= ring[q]
      BY <1>6, <2>1 DEF Count, ReadTake, PairInv, Snapshots
    <2>3. /\ torn' = torn /\ Peer(p) \in Port
          /\ seen' = [seen EXCEPT ![p] = IF @ > n[p] THEN @ - n[p] ELSE 0]
      BY <1>6, Peers DEF ReadTake
    <2>4. CASE p = o
      BY <1>1, <1>2, <2>1, <2>2, <2>3, <2>4, PairAssumption
    <2>5. CASE p = q
      BY <1>1, <1>2, <2>1, <2>3, <2>5
    <2> QED
      BY <1>1, <2>4, <2>5
  <1>7. CASE \E x \in Port : \E h \in BOOLEAN : Reset(x, h)
    <2>1. PICK x \in Port, h \in BOOLEAN : Reset(x, h)
      BY <1>7
    <2>2. CASE x = q
      BY <1>1, <2>1, <2>2, ResetValue DEF PairInv
    <2>3. CASE x = o
      BY <1>1, <1>2, <2>1, <2>3, ResetValue DEF PairInv
    <2> QED
      BY <1>1, <2>2, <2>3, Peers
  <1>8. CASE GetCommStatus(p)
    BY <1>1, <1>2, <1>8, PairAssumption DEF GetCommStatus, Available
  <1>9. CASE PairDetachChild(p)
    BY <1>2, <1>9, PairAssumption DEF PairDetachChild
  <1> QED
    BY <1>3, <1>4, <1>5, <1>6, <1>7, <1>8, <1>9, Peers
       DEF Handler, Environment, EvtIoWrite, EvtIoRead, EvtIoDeviceControl,
           Dispatch, WriteRoom, WakeAcquire, WakeOne, WakeDone, ReadAcquire,
           ReadLoad, ReadComplete, ReadPark, PurgeTxHead, PurgeTxTail,
           PurgeRxHead, PurgeRxTail, PurgeAbort, PurgeDone, WaitRetire, WaitPark,
           SetMask, FinishRequest, PairAttachChild, Submit, Cancel

-----------------------------------------------------------------------------
(* The theorems *)

\* The invariant holds when the driver has loaded and no port is attached.
LEMMA InvInit == Init => PairInv
  <1> SUFFICES ASSUME Init PROVE PairInv
    OBVIOUS
  <1>1. TypeOK
    BY PairAssumption DEF Init, TypeOK, Steps
  <1>2. Serving /\ Snapshots /\ PeerAlive
    BY DEF Init, Serving, Snapshots, PeerAlive
  <1>3. \A p \in Port : \A k \in Kinds : Len(queue[p][k]) = 0
    BY DEF Init
  <1>4. "reads" \in Kinds /\ "waits" \in Kinds
    BY DEF Kinds
  <1>5. Absent /\ Waiters
    BY <1>3, <1>4 DEF Init, Absent, Waiters
  <1>6. StatusHolds /\ Stranded
    BY Peers DEF Init, StatusHolds, Stranded
  <1> QED
    BY <1>1, <1>2, <1>5, <1>6 DEF PairInv

\* Every step of the two ports and of their surroundings keeps it.
LEMMA InvStep == PairInv /\ [Next]_vars => PairInv'
  <1> SUFFICES ASSUME PairInv, [Next]_vars PROVE PairInv'
    OBVIOUS
  <1>1. CASE UNCHANGED vars
    BY <1>1 DEF vars, requests, PairInv, TypeOK, Serving, Snapshots, Absent,
                PeerAlive, StatusHolds, Waiters, Stranded, Late
  <1>2. CASE Next
    <2>1. PICK p \in Port : Handler(p) \/ Environment(p)
      BY <1>2 DEF Next
    <2> QED
      BY <2>1, TypeStep, AliveStep, ServingStep, SnapshotsStep, AbsentStep,
         StatusStep, WaitersStep, StrandedStep DEF PairInv
  <1> QED
    BY <1>1, <1>2

\* PairInv is an invariant of the pair.
LEMMA InvAlways == Spec => []PairInv
  BY InvInit, InvStep, PTL DEF Spec

\* For every number of requests and every capacity: a handler that uses its
\* peer's ring or queues holds PairLock, and the peer is in the pair table
\* until it lets go (pair.h:85-104, queue.c:697-714 and 636-664).
THEOREM PairPeerAlive == Spec => [](TypeOK /\ PeerAlive)
  BY InvAlways, PTL DEF PairInv

\* The bytes GET_COMMSTATUS announced are there until the port reads them,
\* unless a purge overlaps a call or the peer goes (queue.c:344-366).
THEOREM PairStatusHolds == Spec => []StatusHolds
  BY InvAlways, PTL DEF PairInv

\* A port never has two WAIT_ON_MASK requests parked (queue.c:475-546).
THEOREM PairOneWaiter == Spec => []OneWaiter
  <1>1. PairInv => OneWaiter
    BY DEF PairInv, Waiters, OneWaiter
  <1> QED
    BY <1>1, InvAlways, PTL

\* A missed wake-up strands one read, never two, however many requests the
\* applications have outstanding (queue.c:614-732).
THEOREM PairOneStranded == Spec => []OneStranded
  <1>1. PairInv => OneStranded
    <2> SUFFICES ASSUME PairInv, NEW p \in Port,
                        ring[Peer(p)] > 0, Peer(p) \notin torn,
                        pc[Peer(p)] \notin {"lookup", "waking"}
                 PROVE  Len(queue[p]["reads"]) <= 1
      BY DEF OneStranded
    <2>1. Len(queue[p]["reads"]) + Late(p) <= 1
      BY DEF PairInv, Stranded
    <2>2. Len(queue[p]["reads"]) \in Nat /\ Late(p) \in {0, 1}
      BY QueueType DEF PairInv, Kinds, Late
    <2> QED
      BY <2>1, <2>2
  <1> QED
    BY <1>1, InvAlways, PTL

\* The wake loop holds the lock, so its peer is not reading.
LEMMA ShrinkStep ==
  ASSUME PairInv, NEW o \in Port, Handler(o) \/ Environment(o),
         NEW p \in Port, pc[p] = "waking", pc'[p] = "waking"
  PROVE  Len(queue'[Peer(p)]["reads"]) + Late(Peer(p))'
           <= Len(queue[Peer(p)]["reads"]) + Late(Peer(p))
  <1>1. PICK q \in Port : q = Peer(p) /\ q # p /\ Peer(q) = p /\ (o = p \/ o = q)
    BY Peers
  <1>2. "reads" \in Kinds
    BY DEF Kinds
  <1>3. /\ Len(queue[q]["reads"]) \in Nat /\ Len(queue'[q]["reads"]) \in Nat
        /\ Late(q) \in {0, 1} /\ Late(q)' \in {0, 1}
    BY <1>2, QueueType, QueueStep DEF PairInv, Late
  <1>4. p \in up /\ pc[q] \notin {"load", "take"}
    BY <1>1, Present DEF PairInv, PeerAlive
  <1>5. CASE o = q /\ ReadPark(q)
    <2>1. Len(queue'[q]["reads"]) <= Len(queue[q]["reads"]) + 1
      BY <1>2, <1>3, <1>5, QueueStep
    <2>2. Late(q) = 1 /\ Late(q)' = 0
      BY <1>5, PcStep
    <2> QED
      BY <1>1, <1>3, <2>1, <2>2
  <1>6. CASE ~(o = q /\ ReadPark(q))
    <2>1. Len(queue'[q]["reads"]) <= Len(queue[q]["reads"])
      BY <1>2, <1>6, QueueStep DEF Parks
    <2>2. CASE o = p
      BY <1>1, <1>3, <2>1, <2>2, OthersStill
    <2>3. CASE o = q
      <3>1. Late(q)' = 1 => Late(q) = 1
        BY <1>1, <1>3, <1>4, <2>3, PcStep DEF ReadLoad, ReadTake
      <3> QED
        BY <1>1, <1>3, <2>1, <3>1
    <2> QED
      BY <1>1, <2>2, <2>3
  <1> QED
    BY <1>5, <1>6

\* WakeShrinks: the loop that hands the parked reads back makes its work no longer,
\* for any number of reads (queue.c:646-661).
THEOREM PairWakeShrinks == Spec => WakeShrinks
  <1> DEFINE Shrinks ==
        \A p \in Port : pc[p] = "waking" /\ pc'[p] = "waking"
          => Len(queue'[Peer(p)]["reads"]) + Late(Peer(p))'
               <= Len(queue[Peer(p)]["reads"]) + Late(Peer(p))
  <1>1. PairInv /\ [Next]_vars => [Shrinks]_vars
    <2> SUFFICES ASSUME PairInv, NEW o \in Port, Handler(o) \/ Environment(o)
                 PROVE  Shrinks
      BY DEF Next
    <2> QED
      BY ShrinkStep
  <1> QED
    BY <1>1, InvAlways, PTL DEF Spec, WakeShrinks

-----------------------------------------------------------------------------
(* The pair table: PortPair implements PairTable *)

\* The steps at which a handler uses its peer.
Uses == {"load", "take", "waking", "purge_rx_tail"}

\* A handler that uses its peer has the lock, so it is the only one.
LEMMA SoleUser ==
  ASSUME PairInv, NEW p \in Port
  PROVE  /\ LockFree => Users = {}
         /\ p \in Users <=> pc[p] \in Uses
         /\ pc[p] \in Uses => Users = {p} /\ Peer(p) \in up /\ p \in up
  <1>1. /\ \A q \in Port : q \in Users <=> pc[q] \in Uses
        /\ \A q \in Port : pc[q] \in Uses => lock = q /\ Peer(q) \in up /\ pc[q] # "idle"
        /\ Users \subseteq Port /\ None \notin Port
    BY PairAssumption DEF PairInv, PeerAlive, Users, Uses
  <1>2. pc[p] \in Uses => p \in up
    BY <1>1, Present
  <1> QED
    BY <1>1, <1>2 DEF LockFree

\* A step's effect on the users is what it does to its own program counter.
LEMMA UsersStep ==
  ASSUME PairInv, NEW p \in Port, Handler(p) \/ Environment(p)
  PROVE  Users' = IF pc'[p] \in Uses THEN Users \cup {p} ELSE Users \ {p}
  <1>1. \A o \in Port : o # p => pc'[o] = pc[o]
    BY PcStep
  <1>2. Users' = {o \in Port : pc'[o] \in Uses} /\ Users = {o \in Port : pc[o] \in Uses}
    BY DEF Users, Uses
  <1> QED
    BY <1>1, <1>2

\* A step leaves the table and its users alone, or is one of PairTable's.
LEMMA TableStep ==
  ASSUME PairInv, NEW p \in Port, Handler(p) \/ Environment(p)
  PROVE  \/ UNCHANGED <<up, Users>>
         \/ UNCHANGED up /\ Users = {} /\ Users' = {p} /\ p \in up /\ Peer(p) \in up
         \/ UNCHANGED up /\ Users = {p} /\ Users' = {}
         \/ Users = {} /\ Users' = {} /\ p \notin up /\ up' = up \cup {p}
         \/ Users = {} /\ Users' = {} /\ p \in up /\ up' = up \ {p}
  <1> DEFINE Goal ==
         \/ UNCHANGED <<up, Users>>
         \/ UNCHANGED up /\ Users = {} /\ Users' = {p} /\ p \in up /\ Peer(p) \in up
         \/ UNCHANGED up /\ Users = {p} /\ Users' = {}
         \/ Users = {} /\ Users' = {} /\ p \notin up /\ up' = up \cup {p}
         \/ Users = {} /\ Users' = {} /\ p \in up /\ up' = up \ {p}
  <1>1. pc \in [Port -> Steps]
    BY DEF PairInv, TypeOK
  <1>2. CASE UNCHANGED up /\ (pc'[p] \in Uses <=> pc[p] \in Uses)
    <2>1. Users' = Users
      BY <1>2, UsersStep, SoleUser
    <2> QED
      BY <1>2, <2>1
  <1>3. CASE UNCHANGED up /\ pc[p] \in Uses /\ pc'[p] \notin Uses
    BY <1>3, UsersStep, SoleUser
  <1>4. CASE UNCHANGED up /\ LockFree /\ pc[p] # "idle" /\ Peer(p) \in up /\ pc'[p] \in Uses
    <2>1. p \in up
      BY <1>4, Present
    <2> QED
      BY <1>4, <2>1, UsersStep, SoleUser
  <1>5. CASE PairAttachChild(p) \/ PairDetachChild(p)
    <2>1. Users = {} /\ pc' = pc
      BY <1>5, SoleUser DEF PairAttachChild, PairDetachChild
    <2>2. Users' = {}
      BY <2>1, UsersStep, SoleUser
    <2> QED
      BY <1>5, <2>1, <2>2 DEF PairAttachChild, PairDetachChild
  <1>6. CASE Dispatch(p)
    <2>1. PICK c \in Calls : Goto(p, c.op)
      BY <1>6 DEF Dispatch
    <2>2. pc[p] \notin Uses /\ pc'[p] \notin Uses /\ UNCHANGED up
      BY <1>1, <1>6, <2>1, CallType DEF Dispatch, Goto, Ops, Uses
    <2> QED
      BY <1>2, <2>2
  <1>7. CASE WakeAcquire(p) \/ ReadAcquire(p)
    <2>1. CASE Peer(p) \in up
      BY <1>1, <1>4, <1>7, <2>1 DEF WakeAcquire, ReadAcquire, Goto, Uses
    <2>2. CASE Peer(p) \notin up
      BY <1>1, <1>2, <1>7, <2>2 DEF WakeAcquire, ReadAcquire, Goto, Uses
    <2> QED
      BY <2>1, <2>2
  <1>8. CASE WakeDone(p) \/ ReadTake(p) \/ PurgeRxTail(p)
    BY <1>1, <1>3, <1>8 DEF WakeDone, ReadTake, PurgeRxTail, Goto, Uses
  <1>9. CASE ReadLoad(p)
    <2>1. pc[p] \in Uses /\ UNCHANGED up
      BY <1>9 DEF ReadLoad, Uses
    <2> QED
      BY <1>2, <1>3, <2>1
  <1>10. CASE PurgeRxHead(p)
    <2>1. pc[p] = "purge_rx" /\ UNCHANGED up
      BY <1>10 DEF PurgeRxHead
    <2>2. \/ Goto(p, "purge_abort")
          \/ LockFree /\ Peer(p) \in up /\ Goto(p, "purge_rx_tail")
      BY <1>10 DEF PurgeRxHead
    <2> QED
      BY <1>1, <1>2, <1>4, <2>1, <2>2 DEF Goto, Uses
  <1>11. CASE PurgeTxHead(p)
    <2>1. Goto(p, "purge_tail") \/ Goto(p, "purge_rx")
      BY <1>11 DEF PurgeTxHead
    <2> QED
      BY <1>1, <1>2, <1>11, <2>1 DEF PurgeTxHead, Goto, Uses
  <1>12. CASE UNCHANGED <<up, pc>>
    BY <1>2, <1>12
  <1>13. CASE \/ WriteRoom(p) \/ WriteStore(p) \/ ReadComplete(p) \/ ReadPark(p)
              \/ PurgeTxTail(p) \/ PurgeDone(p) \/ WaitRetire(p) \/ WaitPark(p)
              \/ SetMask(p) \/ GetCommStatus(p) \/ FinishRequest(p)
    BY <1>1, <1>2, <1>13
       DEF WriteRoom, WriteStore, ReadComplete, ReadPark, PurgeTxTail, PurgeDone,
           WaitRetire, WaitPark, SetMask, GetCommStatus, FinishRequest, Goto, Uses
  <1>14. Goal
    BY <1>5, <1>6, <1>7, <1>8, <1>9, <1>10, <1>11, <1>12, <1>13
       DEF Handler, Environment, EvtIoWrite, EvtIoRead, EvtIoDeviceControl, WakeOne,
           PurgeAbort, Submit, Cancel
  <1> QED
    BY <1>14

\* TableSpec: the callbacks of two ports use the table and its lock as PairTable
\* says (pair.c:105-186, queue.c:636-664, 697-714, 392-398).
THEOREM PairIsTable == Spec => TableSpec
  <1>1. Init => Granted!Init
    BY DEF Init, Granted!Init, Granted!Side, Slots, Users, Port
  <1>2. PairInv /\ [Next]_vars => [Granted!Next]_(Granted!vars)
    <2> SUFFICES ASSUME PairInv, [Next]_vars
                 PROVE  Granted!Next \/ UNCHANGED <<Slots, Users>>
      BY DEF Granted!vars
    <2>1. CASE UNCHANGED vars
      BY <2>1 DEF vars, requests, Slots, Users
    <2>2. ASSUME NEW p \in Port, Handler(p) \/ Environment(p)
          PROVE  Granted!Next \/ UNCHANGED <<Slots, Users>>
      <3>1. /\ Granted!Side = Port /\ Granted!Other(p) = Peer(p) /\ Peer(p) \in Port
            /\ None \notin Port /\ Slots \in [Port -> Port \cup {None}]
            /\ \A s \in Port : Slots[s] = (IF s \in up THEN s ELSE None)
                              /\ Slots'[s] = (IF s \in up' THEN s ELSE None)
            /\ Slots' \in [Port -> Port \cup {None}]
        BY Peers, PairAssumption DEF Granted!Side, Granted!Other, Slots, Port, Peer
      <3>2. up' = up => Slots' = Slots
        BY DEF Slots
      <3>3. CASE UNCHANGED <<up, Users>>
        BY <3>2, <3>3
      <3>4. CASE UNCHANGED up /\ Users = {} /\ Users' = {p} /\ p \in up /\ Peer(p) \in up
        <4>1. Granted!Acquire(p)
          BY <3>1, <3>2, <3>4 DEF Granted!Acquire
        <4> QED
          BY <3>1, <4>1 DEF Granted!Next
      <3>5. CASE UNCHANGED up /\ Users = {p} /\ Users' = {}
        BY <3>2, <3>5 DEF Granted!Next, Granted!Release
      <3>6. CASE Users = {} /\ Users' = {} /\ p \notin up /\ up' = up \cup {p}
        <4>1. Slots' = [Slots EXCEPT ![p] = p]
          BY <3>1, <3>6
        <4>2. Granted!Attach(p, p)
          BY <3>1, <3>6, <4>1 DEF Granted!Attach
        <4> QED
          BY <3>1, <4>2 DEF Granted!Next
      <3>7. CASE Users = {} /\ Users' = {} /\ p \in up /\ up' = up \ {p}
        <4>1. Slots' = [Slots EXCEPT ![p] = None]
          BY <3>1, <3>7
        <4>2. Granted!Detach(p)
          BY <3>1, <3>7, <4>1 DEF Granted!Detach
        <4> QED
          BY <3>1, <4>2 DEF Granted!Next
      <3> QED
        BY <2>2, <3>3, <3>4, <3>5, <3>6, <3>7, TableStep
    <2> QED
      BY <2>1, <2>2 DEF Next
  <1> QED
    BY <1>1, <1>2, InvAlways, PTL DEF Spec, TableSpec, Granted!Spec

-----------------------------------------------------------------------------
(* The rings: PortPair implements RingCount, once for each ring *)

RingOf(q) == INSTANCE RingCount WITH
  SplitStore <- FALSE, stored <- ring[q], torn <- q \in torn,
  write <- Adding(q), read <- Taking(q), aimed <- Aimed(q),
  txreset <- TxReset(q), rxreset <- RxReset(q)

\* What a step may do to ring q, in RingCount's terms.
RingMoves(q) == RingOf(q)!Next \/ UNCHANGED RingOf(q)!vars

\* The types of a port's part of its ring.
LEMMA RingType ==
  ASSUME PairInv, NEW q \in Port
  PROVE  /\ Peer(q) \in Port /\ Peer(q) # q /\ Peer(Peer(q)) = q
         /\ pc[q] \in Steps /\ n[q] \in 0..Capacity /\ n[q] # -1
         /\ ring[q] \in 0..Capacity /\ Capacity \in Nat \ {0}
  BY Peers, PairAssumption DEF PairInv, TypeOK

\* A step that leaves the count, the tearing and the calls as they are.
LEMMA RingStill ==
  ASSUME NEW q \in Port, ring'[q] = ring[q], (q \in torn') = (q \in torn),
         UNCHANGED <<Adding(q), Taking(q), Aimed(q), TxReset(q), RxReset(q)>>
  PROVE  RingMoves(q)
  BY DEF RingMoves, RingOf!vars

\* The stores of a purge: RingCount's, whichever side purges.
LEMMA ResetStores ==
  ASSUME PairInv, NEW q \in Port, NEW h \in BOOLEAN, Reset(q, h),
         UNCHANGED <<Adding(q), Taking(q), Aimed(q)>>
  PROVE  IF h THEN RingOf(q)!FirstStore ELSE RingOf(q)!SecondStore
  <1>1. InCall(q) <=> Adding(q) # -1 \/ Taking(q) # -1
    BY RingType DEF InCall, Adding, Taking
  <1>2. /\ h => (q \in torn' <=> InCall(q) \/ Aimed(q))
        /\ ~h => (q \in torn' <=> q \in torn \/ InCall(q))
    BY DEF Reset, PairInv, TypeOK
  <1>3. \E k \in Count(q, 0) : ring'[q] = k
    BY DEF Reset, PairInv, TypeOK
  <1>4. ring'[q] \in RingOf(q)!Number(0)
    BY <1>3 DEF RingOf!Number, Count
  <1>5. CASE h
    <2>1. (q \in torn)' <=> (Adding(q) # -1 \/ Taking(q) # -1 \/ Aimed(q))
      BY <1>1, <1>2, <1>5
    <2> QED
      BY <1>4, <1>5, <2>1
         DEF RingOf!FirstStore, RingOf!Writing, RingOf!Reading, RingOf!NoCall
  <1>6. CASE ~h
    <2>1. (q \in torn)' <=> (q \in torn \/ Adding(q) # -1 \/ Taking(q) # -1)
      BY <1>1, <1>2, <1>6
    <2> QED
      BY <1>4, <1>6, <2>1
         DEF RingOf!SecondStore, RingOf!Writing, RingOf!Reading, RingOf!NoCall
  <1> QED
    BY <1>5, <1>6

\* The steps of a port, seen from the ring it writes.
LEMMA WriterMoves ==
  ASSUME PairInv, NEW p \in Port, Handler(p) \/ Environment(p)
  PROVE  RingMoves(p)
  <1>1. /\ Peer(p) \in Port /\ Peer(p) # p /\ pc \in [Port -> Steps]
        /\ n[p] \in 0..Capacity /\ n[p] # -1
        /\ ring[p] \in 0..Capacity /\ Capacity \in Nat \ {0} /\ n \in [Port -> 0..Capacity]
    BY RingType DEF PairInv, TypeOK
  <1>2. UNCHANGED <<Taking(p), Aimed(p), RxReset(p)>>
    BY <1>1, OthersStill DEF Taking, Aimed, RxReset
  <1>3. CASE /\ ring'[p] = ring[p] /\ (p \in torn') = (p \in torn)
             /\ pc[p] \notin {"store", "purge_tail"} /\ pc'[p] \notin {"store", "purge_tail"}
    BY <1>2, <1>3, RingStill DEF Adding, TxReset
  <1>4. CASE UNCHANGED <<ring, torn, pc, n>>
    BY <1>2, <1>4, RingStill DEF Adding, TxReset
  <1>5. CASE WriteRoom(p)
    <2>1. PICK k \in Count(p, Capacity - ring[p]) : n' = [n EXCEPT ![p] = Smaller(Asks(p).len, k)]
      BY <1>5 DEF WriteRoom, Room
    <2>2. Asks(p).len \in Nat \ {0}
      BY <1>5, CallType DEF WriteRoom, PairInv, Serving, Asks
    <2>3. k \in RingOf(p)!Number(Capacity - ring[p]) /\ k \in Nat
      BY <1>1, <2>1 DEF RingOf!Number, Count
    <2>4. n'[p] \in RingOf(p)!Share(k)
      BY <1>1, <2>1, <2>2, <2>3 DEF RingOf!Share, Smaller
    <2>5. /\ pc[p] = "write" /\ pc'[p] = "store" /\ ring' = ring
          /\ (p \in torn') = (p \in torn \/ RxReset(p))
      BY <1>1, <1>5 DEF WriteRoom, Goto, Load, Resetting, TxReset, PairInv, TypeOK
    <2>6. Adding(p) = -1 /\ Adding(p)' = n'[p] /\ TxReset(p) = FALSE /\ TxReset(p)' = FALSE
      BY <2>5 DEF Adding, TxReset
    <2>7. RingOf(p)!BeginWrite
      BY <1>2, <2>3, <2>4, <2>5, <2>6 DEF RingOf!BeginWrite, RingOf!Writing, RingOf!NoCall
    <2> QED
      BY <2>7 DEF RingMoves, RingOf!Next
  <1>6. CASE WriteStore(p)
    <2>1. /\ pc[p] = "store" /\ pc'[p] = "lookup" /\ torn' = torn /\ n' = n
          /\ ring'[p] \in Count(p, ring[p] + n[p])
      BY <1>1, <1>6 DEF WriteStore, Goto, PairInv, TypeOK
    <2>2. Adding(p) = n[p] /\ Adding(p)' = -1 /\ TxReset(p) = FALSE /\ TxReset(p)' = FALSE
      BY <2>1 DEF Adding, TxReset
    <2>3. ring'[p] \in RingOf(p)!Number(ring[p] + Adding(p))
      BY <2>1, <2>2 DEF RingOf!Number, Count
    <2>4. RingOf(p)!EndWrite
      BY <1>1, <1>2, <2>1, <2>2, <2>3 DEF RingOf!EndWrite, RingOf!Writing, RingOf!NoCall
    <2> QED
      BY <2>4 DEF RingMoves, RingOf!Next
  <1>7. CASE PurgeTxHead(p)
    <2>1. pc[p] = "purge" /\ Adding(p) = -1 /\ TxReset(p) = FALSE
      BY <1>7 DEF PurgeTxHead, Adding, TxReset
    <2>2. CASE Reset(p, TRUE) /\ Goto(p, "purge_tail")
      <3>1. Adding(p)' = -1 /\ TxReset(p)' = TRUE
        BY <1>1, <2>2 DEF Goto, Adding, TxReset
      <3>2. RingOf(p)!FirstStore
        BY <1>2, <2>1, <2>2, <3>1, ResetStores
      <3>3. RingOf(p)!TxFirst
        BY <1>2, <2>1, <3>1, <3>2 DEF RingOf!TxFirst, RingOf!Writing, RingOf!NoCall
      <3> QED
        BY <3>3 DEF RingMoves, RingOf!Next
    <2>3. CASE UNCHANGED <<ring, torn, seen>> /\ Goto(p, "purge_rx")
      BY <1>1, <1>3, <2>1, <2>3 DEF Goto
    <2> QED
      BY <1>7, <2>2, <2>3 DEF PurgeTxHead
  <1>8. CASE PurgeTxTail(p)
    <2>1. /\ Adding(p) = -1 /\ TxReset(p) = TRUE /\ Adding(p)' = -1 /\ TxReset(p)' = FALSE /\ Reset(p, FALSE)
      BY <1>1, <1>8 DEF PurgeTxTail, Adding, TxReset, Goto
    <2>2. RingOf(p)!SecondStore
      BY <1>2, <2>1, ResetStores
    <2>3. RingOf(p)!TxSecond
      BY <1>2, <2>1, <2>2 DEF RingOf!TxSecond
    <2> QED
      BY <2>3 DEF RingMoves, RingOf!Next
  <1>9. CASE PairDetachChild(p)
    <2>1. /\ pc[p] = "idle" /\ pc' = pc /\ n' = n /\ ring'[p] = 0 /\ (p \in torn') = FALSE
          /\ LockFree /\ p \in up
      BY <1>9 DEF PairDetachChild, PairInv, TypeOK
    <2>2. pc[Peer(p)] \notin Uses
      BY <1>1, <2>1, SoleUser
    <2>3. /\ Adding(p) = -1 /\ Taking(p) = -1 /\ Aimed(p) = FALSE /\ TxReset(p) = FALSE /\ RxReset(p) = FALSE
          /\ Adding(p)' = -1 /\ TxReset(p)' = FALSE
      BY <2>1, <2>2 DEF Adding, Taking, Aimed, TxReset, RxReset, Uses
    <2>4. RingOf(p)!Discard
      BY <1>2, <2>1, <2>3 DEF RingOf!Discard, RingOf!Writing, RingOf!Reading, RingOf!NoCall
    <2> QED
      BY <2>4 DEF RingMoves, RingOf!Next
  <1>10. CASE ReadLoad(p) \/ ReadTake(p) \/ PurgeRxHead(p) \/ PurgeRxTail(p)
    <2>1. ring'[p] = ring[p] /\ (p \in torn') = (p \in torn)
      <3>1. CASE ReadLoad(p)
        BY <1>1, <3>1, LoadValue DEF ReadLoad, PairInv
      <3>2. CASE ReadTake(p)
        BY <1>1, <3>2 DEF ReadTake, PairInv, TypeOK
      <3>3. CASE PurgeRxHead(p) \/ PurgeRxTail(p)
        <4>1. UNCHANGED <<ring, torn, seen>> \/ \E h \in BOOLEAN : Reset(Peer(p), h)
          BY <3>3 DEF PurgeRxHead, PurgeRxTail
        <4> QED
          BY <1>1, <4>1, ResetValue DEF PairInv
      <3> QED
        BY <1>10, <3>1, <3>2, <3>3
    <2>2. pc[p] \in {"load", "take", "purge_rx", "purge_rx_tail"}
      BY <1>10 DEF ReadLoad, ReadTake, PurgeRxHead, PurgeRxTail
    <2>3. pc'[p] \in {"decide", "take", "purge_rx_tail", "purge_abort"}
      BY <1>1, <1>10 DEF ReadLoad, ReadTake, PurgeRxHead, PurgeRxTail, Goto
    <2> QED
      BY <1>3, <2>1, <2>2, <2>3
  <1>11. CASE Dispatch(p)
    <2>1. PICK c \in Calls : Goto(p, c.op)
      BY <1>11 DEF Dispatch
    <2>2. pc[p] = "idle" /\ pc'[p] \in Ops /\ ring' = ring /\ torn' = torn
      BY <1>1, <1>11, <2>1, CallType DEF Dispatch, Goto
    <2> QED
      BY <1>3, <2>2 DEF Ops
  <1>12. CASE \/ WakeAcquire(p) \/ WakeDone(p) \/ ReadAcquire(p) \/ ReadComplete(p) \/ ReadPark(p)
              \/ PurgeDone(p) \/ WaitRetire(p) \/ WaitPark(p) \/ SetMask(p) \/ GetCommStatus(p)
              \/ FinishRequest(p)
    <2>1. pc[p] \notin {"store", "purge_tail"} /\ ring' = ring /\ torn' = torn
      BY <1>12 DEF WakeAcquire, WakeDone, ReadAcquire, ReadComplete, ReadPark, PurgeDone,
           WaitRetire, WaitPark, SetMask, GetCommStatus, FinishRequest
    <2>2. \E s \in {"waking", "idle", "load", "decide", "wait_park", "finish"} : Goto(p, s)
      BY <1>12 DEF WakeAcquire, WakeDone, ReadAcquire, ReadComplete, ReadPark, PurgeDone,
           WaitRetire, WaitPark, SetMask, GetCommStatus, FinishRequest
    <2> QED
      BY <1>1, <1>3, <2>1, <2>2 DEF Goto
  <1>13. RingMoves(p)
    BY <1>4, <1>5, <1>6, <1>7, <1>8, <1>9, <1>10, <1>11, <1>12
       DEF Handler, Environment, EvtIoWrite, EvtIoRead, EvtIoDeviceControl, WakeOne,
           PurgeAbort, Submit, Cancel, PairAttachChild
  <1> QED
    BY <1>13

\* ... and from the ring it reads.
LEMMA ReaderMoves ==
  ASSUME PairInv, NEW p \in Port, Handler(p) \/ Environment(p), NEW q \in Port, q = Peer(p)
  PROVE  RingMoves(q)
  <1>1. /\ q # p /\ Peer(q) = p /\ pc \in [Port -> Steps]
        /\ n[p] \in 0..Capacity /\ n[p] # -1 /\ n'[p] \in 0..Capacity /\ n'[p] # -1
        /\ ring[q] \in 0..Capacity /\ Capacity \in Nat \ {0} /\ n \in [Port -> 0..Capacity]
    BY RingType, TypeStep DEF PairInv, TypeOK
  <1>2. UNCHANGED <<Adding(q), TxReset(q)>>
    BY <1>1, OthersStill DEF Adding, TxReset
  <1>3. CASE /\ ring'[q] = ring[q] /\ (q \in torn') = (q \in torn)
             /\ pc[p] \notin {"take", "load", "purge_rx_tail"}
             /\ pc'[p] \notin {"take", "load", "purge_rx_tail"}
    BY <1>1, <1>2, <1>3, RingStill DEF Taking, Aimed, RxReset
  <1>4. CASE UNCHANGED <<ring, torn, pc, n>>
    BY <1>1, <1>2, <1>4, RingStill DEF Taking, Aimed, RxReset
  <1>5. CASE ReadAcquire(p)
    <2>1. /\ pc[p] = "read" /\ ring' = ring /\ torn' = torn
          /\ pc'[p] = IF q \in up THEN "load" ELSE "decide"
      BY <1>1, <1>5 DEF ReadAcquire, Goto
    <2>2. CASE q \in up
      <3>1. /\ Taking(q) = -1 /\ Aimed(q) = FALSE /\ RxReset(q) = FALSE
            /\ Taking(q)' = -1 /\ Aimed(q)' = TRUE /\ RxReset(q)' = FALSE
        BY <1>1, <2>1, <2>2 DEF Taking, Aimed, RxReset
      <3>2. RingOf(q)!Aim
        BY <1>2, <2>1, <3>1 DEF RingOf!Aim, RingOf!Reading, RingOf!NoCall
      <3> QED
        BY <3>2 DEF RingMoves, RingOf!Next
    <2> QED
      BY <1>3, <2>1, <2>2
  <1>6. CASE ReadLoad(p)
    <2>1. PICK k \in Count(q, ring[q]) : n' = [n EXCEPT ![p] = Smaller(Asks(p).len, k)]
      BY <1>6 DEF ReadLoad, Available
    <2>2. Asks(p).len \in Nat \ {0}
      BY <1>6, CallType DEF ReadLoad, PairInv, Serving, Asks
    <2>3. /\ k \in 0..Capacity /\ (q \notin torn' => k = ring[q])
          /\ n'[p] \in 0..k /\ (k > 0 => n'[p] > 0)
      BY <1>1, <2>1, <2>2 DEF Count, Smaller
    <2>4. /\ pc[p] = "load" /\ pc'[p] = (IF n'[p] = 0 THEN "decide" ELSE "take") /\ ring' = ring
          /\ (q \in torn') = (q \in torn \/ TxReset(q))
      BY <1>1, <1>6 DEF ReadLoad, Goto, Load, Resetting, RxReset, PairInv, TypeOK
    <2>5. /\ Aimed(q) = TRUE /\ Aimed(q)' = FALSE /\ RxReset(q) = FALSE /\ RxReset(q)' = FALSE
          /\ Taking(q)' = IF n'[p] = 0 THEN -1 ELSE n'[p]
      BY <1>1, <2>4 DEF Aimed, RxReset, Taking
    <2>6. \E j \in IF q \in torn' THEN 0..Capacity + 1 ELSE {ring[q]} :
            Taking(q)' \in IF j = 0 THEN {-1} ELSE 1..j
      <3>1. k \in IF q \in torn' THEN 0..Capacity + 1 ELSE {ring[q]}
        BY <1>1, <2>3
      <3>2. Taking(q)' \in IF k = 0 THEN {-1} ELSE 1..k
        BY <2>3, <2>5
      <3> QED
        BY <3>1, <3>2
    <2>7. RingOf(q)!BeginRead
      BY <1>2, <2>4, <2>5, <2>6 DEF RingOf!BeginRead, RingOf!NoCall
    <2> QED
      BY <2>7 DEF RingMoves, RingOf!Next
  <1>7. CASE ReadTake(p)
    <2>1. /\ pc[p] = "take" /\ pc'[p] = "decide" /\ torn' = torn /\ n' = n
          /\ ring'[q] \in Count(q, ring[q] - n[p])
      BY <1>1, <1>7 DEF ReadTake, Goto, PairInv, TypeOK
    <2>2. /\ Taking(q) = n[p] /\ Taking(q)' = -1 /\ Aimed(q) = FALSE /\ Aimed(q)' = FALSE
          /\ RxReset(q) = FALSE /\ RxReset(q)' = FALSE
      BY <1>1, <2>1 DEF Taking, Aimed, RxReset
    <2>3. ring'[q] \in RingOf(q)!Number(ring[q] - Taking(q))
      BY <2>1, <2>2 DEF RingOf!Number, Count
    <2>4. RingOf(q)!EndRead
      BY <1>1, <1>2, <2>1, <2>2, <2>3 DEF RingOf!EndRead, RingOf!Reading, RingOf!NoCall
    <2> QED
      BY <2>4 DEF RingMoves, RingOf!Next
  <1>8. CASE PurgeRxHead(p)
    <2>1. pc[p] = "purge_rx" /\ Taking(q) = -1 /\ Aimed(q) = FALSE /\ RxReset(q) = FALSE
      BY <1>1, <1>8 DEF PurgeRxHead, Taking, Aimed, RxReset
    <2>2. CASE Reset(q, TRUE) /\ Goto(p, "purge_rx_tail")
      <3>1. Taking(q)' = -1 /\ Aimed(q)' = FALSE /\ RxReset(q)' = TRUE
        BY <1>1, <2>2 DEF Goto, Taking, Aimed, RxReset
      <3>2. RingOf(q)!FirstStore
        BY <1>2, <2>1, <2>2, <3>1, ResetStores
      <3>3. RingOf(q)!RxFirst
        BY <1>2, <2>1, <3>1, <3>2 DEF RingOf!RxFirst, RingOf!Reading, RingOf!NoCall
      <3> QED
        BY <3>3 DEF RingMoves, RingOf!Next
    <2>3. CASE UNCHANGED <<ring, torn, seen>> /\ Goto(p, "purge_abort")
      BY <1>1, <1>3, <2>1, <2>3 DEF Goto
    <2> QED
      BY <1>8, <2>2, <2>3 DEF PurgeRxHead
  <1>9. CASE PurgeRxTail(p)
    <2>1. /\ Taking(q) = -1 /\ Aimed(q) = FALSE /\ RxReset(q) = TRUE
          /\ Taking(q)' = -1 /\ Aimed(q)' = FALSE /\ RxReset(q)' = FALSE /\ Reset(q, FALSE)
      BY <1>1, <1>9 DEF PurgeRxTail, Taking, Aimed, RxReset, Goto
    <2>2. RingOf(q)!SecondStore
      BY <1>2, <2>1, ResetStores
    <2>3. RingOf(q)!RxSecond
      BY <1>2, <2>1, <2>2 DEF RingOf!RxSecond
    <2> QED
      BY <2>3 DEF RingMoves, RingOf!Next
  <1>10. CASE WriteRoom(p) \/ WriteStore(p) \/ PurgeTxHead(p) \/ PurgeTxTail(p)
    <2>1. ring'[q] = ring[q] /\ (q \in torn') = (q \in torn)
      <3>1. CASE WriteRoom(p)
        BY <1>1, <3>1, LoadValue DEF WriteRoom, PairInv
      <3>2. CASE WriteStore(p)
        BY <1>1, <3>2 DEF WriteStore, PairInv, TypeOK
      <3>3. CASE PurgeTxHead(p) \/ PurgeTxTail(p)
        <4>1. UNCHANGED <<ring, torn, seen>> \/ \E h \in BOOLEAN : Reset(p, h)
          BY <3>3 DEF PurgeTxHead, PurgeTxTail
        <4> QED
          BY <1>1, <4>1, ResetValue DEF PairInv
      <3> QED
        BY <1>10, <3>1, <3>2, <3>3
    <2>2. pc[p] \in {"write", "store", "purge", "purge_tail"}
      BY <1>10 DEF WriteRoom, WriteStore, PurgeTxHead, PurgeTxTail
    <2>3. pc'[p] \in {"store", "lookup", "purge_tail", "purge_rx"}
      BY <1>1, <1>10 DEF WriteRoom, WriteStore, PurgeTxHead, PurgeTxTail, Goto
    <2> QED
      BY <1>3, <2>1, <2>2, <2>3
  <1>11. CASE Dispatch(p)
    <2>1. PICK c \in Calls : Goto(p, c.op)
      BY <1>11 DEF Dispatch
    <2>2. pc[p] = "idle" /\ pc'[p] \in Ops /\ ring' = ring /\ torn' = torn
      BY <1>1, <1>11, <2>1, CallType DEF Dispatch, Goto
    <2> QED
      BY <1>3, <2>2 DEF Ops
  <1>12. CASE \/ WakeAcquire(p) \/ WakeDone(p) \/ ReadComplete(p) \/ ReadPark(p)
              \/ PurgeDone(p) \/ WaitRetire(p) \/ WaitPark(p) \/ SetMask(p) \/ GetCommStatus(p)
              \/ FinishRequest(p)
    <2>1. /\ pc[p] \notin {"take", "load", "purge_rx_tail"} /\ ring' = ring /\ torn' = torn
      BY <1>12 DEF WakeAcquire, WakeDone, ReadComplete, ReadPark, PurgeDone,
           WaitRetire, WaitPark, SetMask, GetCommStatus, FinishRequest
    <2>2. \E s \in {"waking", "idle", "wait_park", "finish"} : Goto(p, s)
      BY <1>12 DEF WakeAcquire, WakeDone, ReadComplete, ReadPark, PurgeDone,
           WaitRetire, WaitPark, SetMask, GetCommStatus, FinishRequest
    <2> QED
      BY <1>1, <1>3, <2>1, <2>2 DEF Goto
  <1>13. CASE PairDetachChild(p)
    <2>1. pc' = pc /\ n' = n /\ ring'[q] = ring[q] /\ (q \in torn') = (q \in torn)
      BY <1>1, <1>13 DEF PairDetachChild, PairInv, TypeOK
    <2> QED
      BY <1>1, <1>2, <2>1, RingStill DEF Taking, Aimed, RxReset
  <1>14. RingMoves(q)
    BY <1>4, <1>5, <1>6, <1>7, <1>8, <1>9, <1>10, <1>11, <1>12, <1>13
       DEF Handler, Environment, EvtIoWrite, EvtIoRead, EvtIoDeviceControl, WakeOne,
           PurgeAbort, Submit, Cancel, PairAttachChild
  <1> QED
    BY <1>14

\* A step of the pair is a step of RingCount for each ring, or leaves it alone.
LEMMA RingsStep ==
  ASSUME PairInv, [Next]_vars, NEW q \in Port
  PROVE  RingMoves(q)
  <1>1. CASE UNCHANGED vars
    BY <1>1, RingStill DEF vars, requests, Adding, Taking, Aimed, TxReset, RxReset
  <1>2. ASSUME NEW p \in Port, Handler(p) \/ Environment(p) PROVE RingMoves(q)
    BY <1>2, WriterMoves, ReaderMoves, Peers
  <1> QED
    BY <1>1, <1>2 DEF Next

\* RingSpec: every call and purge the callbacks make on a ring is one that RingCount
\* allows, so what RingIsCount proves of the pointers and what is proved here of the
\* pair are about the same ring (ringbuffer.c:54-380, queue.c:389-415, 614-714).
THEOREM PairRings == Spec => RingSpec
  <1>1. Init => RingA!Init /\ RingB!Init
    BY DEF Init, RingA!Init, RingB!Init, RingA!NoCall, RingB!NoCall, Adding, Taking, Aimed,
           TxReset, RxReset, Peer, Port
  <1>2. PairInv /\ [Next]_vars => [RingA!Next]_(RingA!vars) /\ [RingB!Next]_(RingB!vars)
    <2> SUFFICES ASSUME PairInv, [Next]_vars
                 PROVE  /\ RingA!Next \/ UNCHANGED RingA!vars
                        /\ RingB!Next \/ UNCHANGED RingB!vars
      OBVIOUS
    <2>1. RingMoves("A") /\ RingMoves("B")
      BY RingsStep DEF Port
    <2> QED
      BY <2>1 DEF RingMoves,
           RingOf!Next, RingOf!BeginWrite, RingOf!EndWrite, RingOf!Aim, RingOf!BeginRead,
           RingOf!EndRead, RingOf!FirstStore, RingOf!SecondStore, RingOf!TxFirst,
           RingOf!TxSecond, RingOf!RxFirst, RingOf!RxSecond, RingOf!Discard, RingOf!Number,
           RingOf!Share, RingOf!NoCall, RingOf!Writing, RingOf!Reading, RingOf!vars,
           RingA!Next, RingA!BeginWrite, RingA!EndWrite, RingA!Aim, RingA!BeginRead,
           RingA!EndRead, RingA!FirstStore, RingA!SecondStore, RingA!TxFirst,
           RingA!TxSecond, RingA!RxFirst, RingA!RxSecond, RingA!Discard, RingA!Number,
           RingA!Share, RingA!NoCall, RingA!Writing, RingA!Reading, RingA!vars, RingB!Next,
           RingB!BeginWrite, RingB!EndWrite, RingB!Aim, RingB!BeginRead, RingB!EndRead,
           RingB!FirstStore, RingB!SecondStore, RingB!TxFirst, RingB!TxSecond,
           RingB!RxFirst, RingB!RxSecond, RingB!Discard, RingB!Number, RingB!Share,
           RingB!NoCall, RingB!Writing, RingB!Reading, RingB!vars
  <1> QED
    BY <1>1, <1>2, InvAlways, PTL DEF Spec, RingSpec, RingA!Spec, RingB!Spec

-----------------------------------------------------------------------------
(* Where the requests are: Sole, a second inductive invariant *)

\* Where a request can be: in the hand of a port's handler, or in one of its queues.
Boxes == Kinds \cup {"hand"}

In(p, k, r) == IF k = "hand" THEN cur[p] = r ELSE r \in Elements(queue[p][k])

Once(s) == \A i, j \in 1..Len(s) : s[i] = s[j] => i = j

AllOnce(q) == \A p \in Port : \A k \in Kinds : Once(q[p][k])

\* A request is in one box at most.
Apart == \A p, q \in Port : \A k, l \in Boxes : \A r \in Request :
           In(p, k, r) /\ In(q, l, r) => p = q /\ k = l

\* It is pending if and only if it is in one.
Accounted == \A r \in Request : r \in pending <=> \E p \in Port : \E k \in Boxes : In(p, k, r)

\* A pending request has been submitted, and an idle handler has nothing in hand.
Submitted == \A r \in pending : call[r] # None
Hands == \A p \in Port : pc[p] \in {"idle", "lookup", "waking"} => cur[p] = None

Sole == AllOnce(queue) /\ Apart /\ Accounted /\ Submitted /\ Hands

\* What may happen to a request: it leaves its box and is completed, comes in, or goes
\* from one box to another of the same port.
Removed(r) ==
  /\ pending' = pending \ {r}
  /\ \A p \in Port : \A k \in Boxes : \A s \in Request :
       In(p, k, s)' <=> In(p, k, s) /\ s # r
Added(r, q, l) ==
  /\ r \notin pending /\ pending' = pending \cup {r}
  /\ \A p \in Port : \A k \in Boxes : \A s \in Request :
       In(p, k, s)' <=> In(p, k, s) \/ (p = q /\ k = l /\ s = r)
Moved(r, q, l) ==
  /\ r \in pending /\ pending' = pending /\ \E k \in Boxes : In(q, k, r)
  /\ \A p \in Port : \A k \in Boxes : \A s \in Request :
       In(p, k, s)' <=> (In(p, k, s) /\ s # r) \/ (p = q /\ k = l /\ s = r)

Shift == \E r \in Request : Removed(r) \/ \E q \in Port : \E l \in Boxes : Moved(r, q, l)
Entry == \E r \in Request : \E q \in Port : \E l \in Boxes : Added(r, q, l)

\* Such a step keeps the boxes apart and every pending request in one.
LEMMA ShiftKeeps ==
  ASSUME Apart, Accounted, Shift \/ Entry
  PROVE  Apart' /\ Accounted'
  <1>1. PICK r \in Request :
           \/ Removed(r)
           \/ \E q \in Port : \E l \in Boxes : Added(r, q, l) \/ Moved(r, q, l)
    BY DEF Shift, Entry
  <1>2. CASE Removed(r)
    <2>1. \A p, q \in Port : \A k, l \in Boxes : \A s \in Request :
            In(p, k, s)' /\ In(q, l, s)' => p = q /\ k = l
      BY <1>2 DEF Removed, Apart
    <2>2. \A s \in Request : s \in pending' <=> \E p \in Port : \E k \in Boxes : In(p, k, s)'
      BY <1>2 DEF Removed, Accounted
    <2> QED
      BY <2>1, <2>2 DEF Apart, Accounted, In, Elements
  <1>3. ASSUME NEW q \in Port, NEW l \in Boxes, Added(r, q, l) PROVE Apart' /\ Accounted'
    <2>1. \A p, o \in Port : \A k, m \in Boxes : \A s \in Request :
            In(p, k, s)' /\ In(o, m, s)' => p = o /\ k = m
      BY <1>3 DEF Added, Apart, Accounted
    <2>2. \A s \in Request : s \in pending' <=> \E p \in Port : \E k \in Boxes : In(p, k, s)'
      BY <1>3 DEF Added, Accounted
    <2> QED
      BY <2>1, <2>2 DEF Apart, Accounted, In, Elements
  <1>4. ASSUME NEW q \in Port, NEW l \in Boxes, Moved(r, q, l) PROVE Apart' /\ Accounted'
    <2>1. \A p, o \in Port : \A k, m \in Boxes : \A s \in Request :
            In(p, k, s)' /\ In(o, m, s)' => p = o /\ k = m
      BY <1>4 DEF Moved, Apart
    <2>2. \A s \in Request : s \in pending' <=> \E p \in Port : \E k \in Boxes : In(p, k, s)'
      BY <1>4 DEF Moved, Accounted
    <2> QED
      BY <2>1, <2>2 DEF Apart, Accounted, In, Elements
  <1> QED
    BY <1>1, <1>2, <1>3, <1>4

-----------------------------------------------------------------------------
(* What appending to, taking from and cancelling in a queue make of its requests *)

LEMMA OnceAppend ==
  ASSUME NEW s \in Seq(Request), NEW r \in Request
  PROVE  /\ Elements(Append(s, r)) = Elements(s) \cup {r}
         /\ Once(s) /\ r \notin Elements(s) => Once(Append(s, r))
  <1>1. /\ Len(Append(s, r)) = Len(s) + 1 /\ Len(s) \in Nat
        /\ \A i \in 1..Len(s) : Append(s, r)[i] = s[i]
        /\ Append(s, r)[Len(s) + 1] = r
    OBVIOUS
  <1>2. 1..(Len(s) + 1) = 1..Len(s) \cup {Len(s) + 1}
    BY <1>1
  <1> QED
    BY <1>1, <1>2 DEF Elements, Once

LEMMA OnceTail ==
  ASSUME NEW s \in Seq(Request), s # <<>>, Once(s)
  PROVE  /\ Elements(Tail(s)) = Elements(s) \ {Head(s)}
         /\ Once(Tail(s))
         /\ Head(s) \in Elements(s)
  <1>1. /\ Len(s) \in Nat \ {0} /\ Len(Tail(s)) = Len(s) - 1 /\ Head(s) = s[1]
        /\ \A i \in 1..Len(Tail(s)) : Tail(s)[i] = s[i + 1]
    OBVIOUS
  <1>2. \A x \in Elements(Tail(s)) : x \in Elements(s) /\ x # Head(s)
    BY <1>1 DEF Elements, Once
  <1>3. ASSUME NEW x \in Elements(s), x # Head(s) PROVE x \in Elements(Tail(s))
    <2>1. PICK i \in 1..Len(s) : x = s[i]
      BY DEF Elements
    <2>2. i # 1
      BY <1>1, <1>3, <2>1
    <2>3. i - 1 \in 1..Len(Tail(s)) /\ Tail(s)[i - 1] = s[(i - 1) + 1] /\ (i - 1) + 1 = i
      BY <1>1, <2>2
    <2> QED
      BY <2>1, <2>3 DEF Elements
  <1>4. Once(Tail(s))
    <2> SUFFICES ASSUME NEW i \in 1..Len(Tail(s)), NEW j \in 1..Len(Tail(s)), Tail(s)[i] = Tail(s)[j]
                 PROVE  i = j
      BY DEF Once
    <2>1. s[i + 1] = s[j + 1] /\ i + 1 \in 1..Len(s) /\ j + 1 \in 1..Len(s)
      BY <1>1
    <2>2. i + 1 = j + 1
      BY <2>1 DEF Once
    <2> QED
      BY <2>2
  <1>5. Head(s) \in Elements(s)
    BY <1>1 DEF Elements
  <1> QED
    BY <1>2, <1>3, <1>4, <1>5

LEMMA OnceWithout ==
  ASSUME NEW s \in Seq(Request), NEW i \in 1..Len(s), Once(s)
  PROVE  /\ Elements(Without(s, i)) = Elements(s) \ {s[i]}
         /\ Once(Without(s, i))
         /\ s[i] \in Elements(s)
  <1> DEFINE w == Without(s, i)
             At(j) == IF j < i THEN j ELSE j + 1
  <1>1. Len(s) \in Nat /\ i \in Nat \ {0} /\ Len(w) = Len(s) - 1
    BY WithoutValue
  <1>2. \A j \in 1..Len(w) : w[j] = s[At(j)] /\ At(j) \in 1..Len(s) /\ At(j) # i
    <2> DEFINE a == SubSeq(s, 1, i - 1)
               b == SubSeq(s, i + 1, Len(s))
    <2>1. a \in Seq(Request) /\ Len(a) = i - 1 /\ \A j \in 1..(i - 1) : a[j] = s[j]
      BY <1>1
    <2>2. /\ b \in Seq(Request) /\ Len(b) = Len(s) - i
          /\ \A j \in 1..(Len(s) - i) : b[j] = s[i + j]
      BY <1>1
    <2>3. w = a \o b
      BY DEF Without
    <2> HIDE DEF a, b, w
    <2>4. \A j \in 1..(Len(a) + Len(b)) : (a \o b)[j] = IF j <= Len(a) THEN a[j] ELSE b[j - Len(a)]
      BY <2>1, <2>2
    <2> TAKE j \in 1..Len(w)
    <2>5. w[j] = IF j <= i - 1 THEN a[j] ELSE b[j - (i - 1)]
      <3>1. j \in 1..(Len(a) + Len(b)) /\ Len(a) = i - 1
        BY <1>1, <2>1, <2>2
      <3> QED
        BY <2>3, <2>4, <3>1
    <2>6. CASE j < i
      BY <1>1, <2>1, <2>5, <2>6
    <2>7. CASE ~(j < i)
      <3>1. j - (i - 1) \in 1..(Len(s) - i) /\ i + (j - (i - 1)) = j + 1 /\ ~(j <= i - 1)
        BY <1>1, <2>7
      <3>2. b[j - (i - 1)] = s[i + (j - (i - 1))]
        BY <2>2, <3>1
      <3> QED
        BY <1>1, <2>5, <2>7, <3>1, <3>2
    <2> QED
      BY <2>6, <2>7
  <1> HIDE DEF w
  <1>3. \A x \in Elements(w) : x \in Elements(s) /\ x # s[i]
    BY <1>2 DEF Elements, Once
  <1>4. ASSUME NEW x \in Elements(s), x # s[i] PROVE x \in Elements(w)
    <2>1. PICK j \in 1..Len(s) : x = s[j]
      BY DEF Elements
    <2>2. j # i
      BY <1>4, <2>1
    <2>3. PICK k \in 1..Len(w) : At(k) = j
      <3>1. CASE j < i
        <4>1. j \in 1..Len(w) /\ At(j) = j
          BY <1>1, <3>1
        <4> QED
          BY <4>1
      <3>2. CASE j > i
        <4>1. j - 1 \in 1..Len(w) /\ At(j - 1) = j
          BY <1>1, <3>2
        <4> QED
          BY <4>1
      <3> QED
        BY <1>1, <2>2, <3>1, <3>2
    <2>4. w[k] = x
      BY <1>2, <2>1, <2>3
    <2> QED
      BY <2>4 DEF Elements
  <1>5. Once(w)
    <2> SUFFICES ASSUME NEW j \in 1..Len(w), NEW k \in 1..Len(w), w[j] = w[k] PROVE j = k
      BY DEF Once
    <2>1. At(j) = At(k)
      BY <1>2 DEF Once
    <2> QED
      BY <1>1, <2>1
  <1>6. s[i] \in Elements(s)
    BY DEF Elements
  <1> QED
    BY <1>3, <1>4, <1>5, <1>6 DEF w

\* Queues q2 are q without request r of queue k of port p.
Loses(q2, q, p, k, r) ==
  /\ r \in Request /\ r \in Elements(q[p][k]) /\ AllOnce(q2)
  /\ \A o \in Port : \A l \in Kinds :
       Elements(q2[o][l]) = IF o = p /\ l = k THEN Elements(q[o][l]) \ {r} ELSE Elements(q[o][l])

\* They are q with r added to that queue.
Gains(q2, q, p, k, r) ==
  /\ AllOnce(q2)
  /\ \A o \in Port : \A l \in Kinds :
       Elements(q2[o][l]) = IF o = p /\ l = k THEN Elements(q[o][l]) \cup {r} ELSE Elements(q[o][l])

\* The three changes of a queue, by what is in the queues.
LEMMA PushedOnce ==
  ASSUME NEW q \in Queues, NEW p \in Port, NEW k \in Kinds, NEW r \in Request,
         AllOnce(q), r \notin Elements(q[p][k])
  PROVE  Gains(Pushed(q, p, k, r), q, p, k, r)
  <1>1. \A o \in Port : \A l \in Kinds :
          /\ q[o][l] \in Seq(Request) /\ Once(q[o][l])
          /\ Pushed(q, p, k, r)[o][l] = IF o = p /\ l = k THEN Append(q[o][l], r) ELSE q[o][l]
    BY DEF Pushed, Queues, AllOnce
  <1>2. /\ Elements(Append(q[p][k], r)) = Elements(q[p][k]) \cup {r}
        /\ Once(Append(q[p][k], r))
    BY <1>1, OnceAppend
  <1>3. \A o \in Port : \A l \in Kinds : Once(Pushed(q, p, k, r)[o][l])
    BY <1>1, <1>2
  <1> QED
    BY <1>1, <1>2, <1>3 DEF AllOnce, Gains

LEMMA PoppedOnce ==
  ASSUME NEW q \in Queues, NEW p \in Port, NEW k \in Kinds, AllOnce(q), q[p][k] # <<>>
  PROVE  Loses(Popped(q, p, k), q, p, k, Head(q[p][k]))
  <1>1. \A o \in Port : \A l \in Kinds :
          /\ q[o][l] \in Seq(Request) /\ Once(q[o][l])
          /\ Popped(q, p, k)[o][l] = IF o = p /\ l = k THEN Tail(q[o][l]) ELSE q[o][l]
    BY DEF Popped, Queues, AllOnce
  <1>2. /\ Elements(Tail(q[p][k])) = Elements(q[p][k]) \ {Head(q[p][k])}
        /\ Once(Tail(q[p][k])) /\ Head(q[p][k]) \in Elements(q[p][k])
    BY <1>1, OnceTail
  <1>3. Head(q[p][k]) \in Request
    BY PoppedValue
  <1> QED
    BY <1>1, <1>2, <1>3 DEF AllOnce, Loses

LEMMA CancelledOnce ==
  ASSUME NEW q \in Queues, NEW p \in Port, NEW k \in Kinds, AllOnce(q),
         NEW i \in 1..Len(q[p][k])
  PROVE  Loses([q EXCEPT ![p][k] = Without(@, i)], q, p, k, q[p][k][i])
  <1> DEFINE q2 == [q EXCEPT ![p][k] = Without(@, i)]
  <1>1. \A o \in Port : \A l \in Kinds :
          /\ q[o][l] \in Seq(Request) /\ Once(q[o][l])
          /\ q2[o][l] = IF o = p /\ l = k THEN Without(q[o][l], i) ELSE q[o][l]
    BY DEF Queues, AllOnce
  <1>2. q[p][k] \in Seq(Request) /\ Once(q[p][k])
    BY <1>1
  <1>3. q[p][k][i] \in Request
    BY <1>2
  <1>4. /\ Elements(Without(q[p][k], i)) = Elements(q[p][k]) \ {q[p][k][i]}
        /\ Once(Without(q[p][k], i)) /\ q[p][k][i] \in Elements(q[p][k])
    BY <1>2, OnceWithout
  <1>5. \A o \in Port : \A l \in Kinds : Once(q2[o][l])
    BY <1>1, <1>4
  <1>6. AllOnce(q2)
    BY <1>5 DEF AllOnce
  <1>7. ASSUME NEW o \in Port, NEW l \in Kinds
        PROVE  Elements(q2[o][l]) =
                 IF o = p /\ l = k THEN Elements(q[o][l]) \ {q[p][k][i]} ELSE Elements(q[o][l])
    <2>1. CASE o = p /\ l = k
      BY <1>1, <1>4, <2>1
    <2>2. CASE ~(o = p /\ l = k)
      BY <1>1, <2>2
    <2> QED
      BY <2>1, <2>2
  <1> QED
    BY <1>3, <1>4, <1>6, <1>7 DEF Loses

\* A request that is in a box is pending, and in no other.
LEMMA Alone ==
  ASSUME Sole, NEW p \in Port, NEW k \in Boxes, NEW r \in Request, In(p, k, r)
  PROVE  /\ r \in pending
         /\ \A q \in Port : \A l \in Boxes : In(q, l, r) => q = p /\ l = k
  BY DEF Sole, Apart, Accounted

LEMMA KindsBoxes == Kinds \subseteq Boxes /\ "hand" \in Boxes /\ "hand" \notin Kinds
  BY DEF Kinds, Boxes

\* The request in hand is completed, or parked on a queue of its port.
LEMMA Completes ==
  ASSUME TypeOK, Sole, NEW p \in Port, cur[p] \in Request,
         cur' = [cur EXCEPT ![p] = None], pending' = pending \ {cur[p]}, queue' = queue
  PROVE  AllOnce(queue') /\ Shift
  <1>1. PICK r \in Request : r = cur[p]
    OBVIOUS
  <1>2. In(p, "hand", r)
    BY <1>1 DEF In
  <1>3. \A q \in Port : \A l \in Boxes : In(q, l, r) => q = p /\ l = "hand"
    BY <1>2, Alone, KindsBoxes
  <1>4. \A q \in Port : cur'[q] = IF q = p THEN None ELSE cur[q]
    BY DEF TypeOK
  <1>5. ASSUME NEW q \in Port, NEW l \in Boxes, NEW s \in Request
        PROVE  In(q, l, s)' <=> In(q, l, s) /\ s # r
    <2>1. In(q, l, s)' = (IF l = "hand" THEN cur'[q] = s ELSE s \in Elements(queue'[q][l]))
      BY DEF In, Elements
    <2>2. CASE l = "hand"
      BY <1>1, <1>3, <1>4, <2>1, <2>2, PairAssumption DEF In
    <2>3. CASE l # "hand"
      BY <1>3, <2>1, <2>3 DEF In
    <2> QED
      BY <2>2, <2>3
  <1>6. Removed(r)
    BY <1>1, <1>5 DEF Removed
  <1> QED
    BY <1>6 DEF Shift, Sole

\* The request in hand goes to a queue of its port, or is completed when the queue is
\* stopped.
LEMMA Parked ==
  ASSUME TypeOK, Sole, NEW p \in Port, NEW k \in Kinds, cur[p] \in Request, Park(p, k)
  PROVE  AllOnce(queue') /\ Shift
  <1>1. PICK r \in Request : r = cur[p]
    OBVIOUS
  <1>2. In(p, "hand", r)
    BY <1>1 DEF In
  <1>3. r \in pending /\ \A q \in Port : \A l \in Boxes : In(q, l, r) => q = p /\ l = "hand"
    BY <1>2, Alone, KindsBoxes
  <1>4. cur' = [cur EXCEPT ![p] = None] /\ \A q \in Port : cur'[q] = IF q = p THEN None ELSE cur[q]
    BY DEF TypeOK, Park
  <1>5. CASE Refused(cur[p])
    BY <1>4, <1>5, Completes DEF Refused
  <1>6. CASE Forwarded(p, k, cur[p])
    <2>0. queue \in Queues /\ AllOnce(queue)
      BY QueueType DEF Sole
    <2>1. queue' = Pushed(queue, p, k, r) /\ pending' = pending
      BY <1>1, <1>6 DEF Forwarded
    <2>2. r \notin Elements(queue[p][k]) /\ k # "hand"
      BY <1>3, KindsBoxes DEF In
    <2>3. Gains(queue', queue, p, k, r)
      BY <2>0, <2>1, <2>2, PushedOnce
    <2>4. ASSUME NEW q \in Port, NEW l \in Boxes, NEW s \in Request
          PROVE  In(q, l, s)' <=> (In(q, l, s) /\ s # r) \/ (q = p /\ l = k /\ s = r)
      <3>1. In(q, l, s)' = (IF l = "hand" THEN cur'[q] = s ELSE s \in Elements(queue'[q][l]))
        BY DEF In, Elements
      <3>2. CASE l = "hand"
        BY <1>1, <1>3, <1>4, <2>2, <3>1, <3>2, PairAssumption DEF In
      <3>3. CASE l # "hand"
        <4>1. l \in Kinds
          BY <3>3 DEF Boxes
        <4> QED
          BY <1>3, <2>3, <3>1, <3>3, <4>1 DEF In, Gains
      <3> QED
        BY <3>2, <3>3
    <2>5. Moved(r, p, k)
      BY <1>2, <1>3, <2>1, <2>4, KindsBoxes DEF Moved
    <2> QED
      BY <2>3, <2>5, KindsBoxes DEF Shift, Gains
  <1> QED
    BY <1>5, <1>6 DEF Park

\* A queue loses one request, which is completed.
LEMMA Leaves ==
  ASSUME TypeOK, Sole, NEW p \in Port, NEW k \in Kinds, NEW r,
         Loses(queue', queue, p, k, r), pending' = pending \ {r}, cur' = cur
  PROVE  AllOnce(queue') /\ Shift
  <1>0. /\ r \in Request /\ r \in Elements(queue[p][k]) /\ AllOnce(queue')
        /\ \A o \in Port : \A l \in Kinds :
             Elements(queue'[o][l]) =
               IF o = p /\ l = k THEN Elements(queue[o][l]) \ {r} ELSE Elements(queue[o][l])
    BY DEF Loses
  <1>1. In(p, k, r)
    BY <1>0, KindsBoxes DEF In
  <1>2. \A q \in Port : \A l \in Boxes : In(q, l, r) => q = p /\ l = k
    BY <1>0, <1>1, Alone, KindsBoxes
  <1>3. ASSUME NEW q \in Port, NEW l \in Boxes, NEW s \in Request
        PROVE  In(q, l, s)' <=> In(q, l, s) /\ s # r
    <2>1. In(q, l, s)' = (IF l = "hand" THEN cur'[q] = s ELSE s \in Elements(queue'[q][l]))
      BY DEF In, Elements
    <2>2. CASE l = "hand"
      BY <1>2, <2>1, <2>2, KindsBoxes DEF In
    <2>3. CASE l # "hand"
      <3>1. l \in Kinds
        BY <2>3 DEF Boxes
      <3> QED
        BY <1>0, <1>2, <2>1, <2>3, <3>1 DEF In
    <2> QED
      BY <2>2, <2>3
  <1>4. Removed(r)
    BY <1>3 DEF Removed
  <1> QED
    BY <1>0, <1>4 DEF Shift

\* ... its head, or the one the framework cancels.
LEMMA PopLeaves ==
  ASSUME TypeOK, Sole, NEW p \in Port, NEW k \in Kinds, queue[p][k] # <<>>,
         queue' = Popped(queue, p, k), pending' = pending \ {Head(queue[p][k])}, cur' = cur
  PROVE  AllOnce(queue') /\ Shift
  <1>1. queue \in Queues /\ AllOnce(queue)
    BY QueueType DEF Sole
  <1>2. Loses(queue', queue, p, k, Head(queue[p][k]))
    BY <1>1, PoppedOnce
  <1> QED
    BY <1>2, Leaves

LEMMA CancelLeaves ==
  ASSUME TypeOK, Sole, NEW p \in Port, NEW k \in Kinds, Cancel(p, k)
  PROVE  AllOnce(queue') /\ Shift
  <1>1. PICK i \in 1..Len(queue[p][k]) :
          /\ pending' = pending \ {queue[p][k][i]}
          /\ queue' = [queue EXCEPT ![p][k] = Without(@, i)]
    BY DEF Cancel
  <1>2. queue \in Queues /\ AllOnce(queue)
    BY QueueType DEF Sole
  <1>3. Loses(queue', queue, p, k, queue[p][k][i])
    BY <1>1, <1>2, CancelledOnce
  <1>4. cur' = cur
    BY DEF Cancel
  <1> QED
    BY <1>1, <1>3, <1>4, Leaves

\* A dispatched request goes from the default queue to the hand.
LEMMA DispatchMoves ==
  ASSUME TypeOK, Sole, NEW p \in Port, Dispatch(p)
  PROVE  AllOnce(queue') /\ Shift
  <1>1. /\ queue \in Queues /\ AllOnce(queue) /\ "default" \in Kinds /\ "default" # "hand"
    BY QueueType DEF Sole, Kinds
  <1>2. PICK r : r = Head(queue[p]["default"])
    OBVIOUS
  <1>3. /\ queue' = Popped(queue, p, "default") /\ cur' = [cur EXCEPT ![p] = r]
        /\ pending' = pending /\ queue[p]["default"] # <<>> /\ cur[p] = None
    BY <1>2 DEF Dispatch, Sole, Hands
  <1>4. Loses(queue', queue, p, "default", r)
    BY <1>1, <1>2, <1>3, PoppedOnce
  <1>5. /\ r \in Request /\ In(p, "default", r) /\ AllOnce(queue')
        /\ \A o \in Port : \A l \in Kinds : \A s \in Request :
             s \in Elements(queue'[o][l]) <=>
               s \in Elements(queue[o][l]) /\ ~(o = p /\ l = "default" /\ s = r)
    BY <1>1, <1>4 DEF Loses, In
  <1>6. r \in pending /\ \A q \in Port : \A l \in Boxes : In(q, l, r) => q = p /\ l = "default"
    BY <1>1, <1>5, Alone, KindsBoxes
  <1>7. \A q \in Port : cur'[q] = IF q = p THEN r ELSE cur[q]
    BY <1>3 DEF TypeOK
  <1>8. ASSUME NEW q \in Port, NEW l \in Boxes, NEW s \in Request
        PROVE  In(q, l, s)' <=> (In(q, l, s) /\ s # r) \/ (q = p /\ l = "hand" /\ s = r)
    <2>1. In(q, l, s)' = (IF l = "hand" THEN cur'[q] = s ELSE s \in Elements(queue'[q][l]))
      BY DEF In, Elements
    <2>2. CASE l = "hand"
      BY <1>1, <1>3, <1>6, <1>7, <2>1, <2>2, PairAssumption DEF In
    <2>3. CASE l # "hand"
      <3>1. l \in Kinds
        BY <2>3 DEF Boxes
      <3> QED
        BY <1>5, <1>6, <2>1, <2>3, <3>1 DEF In
    <2> QED
      BY <2>2, <2>3
  <1>9. Moved(r, p, "hand")
    BY <1>1, <1>3, <1>5, <1>6, <1>8, KindsBoxes DEF Moved
  <1> QED
    BY <1>5, <1>9, KindsBoxes DEF Shift

\* A read that is woken goes from ReadQueue to the default queue, or is completed.
LEMMA WakeMoves ==
  ASSUME TypeOK, Sole, NEW p \in Port, WakeOne(p)
  PROVE  AllOnce(queue') /\ Shift
  <1>1. /\ queue \in Queues /\ AllOnce(queue) /\ "default" \in Kinds /\ "default" # "hand"
        /\ "reads" \in Kinds /\ "reads" # "hand" /\ "reads" # "default"
    BY QueueType DEF Sole, Kinds
  <1>2. PICK q \in Port : q = Peer(p)
    BY Peers
  <1>3. PICK r : r = Head(queue[q]["reads"])
    OBVIOUS
  <1>4. /\ queue[q]["reads"] # <<>> /\ cur' = cur
        /\ \/ queue' = Pushed(Popped(queue, q, "reads"), q, "default", r) /\ pending' = pending
           \/ queue' = Popped(queue, q, "reads") /\ pending' = pending \ {r}
    BY <1>2, <1>3 DEF WakeOne, WakeFinished
  <1>5. CASE queue' = Popped(queue, q, "reads") /\ pending' = pending \ {r}
    BY <1>1, <1>3, <1>4, <1>5, PopLeaves
  <1>6. CASE queue' = Pushed(Popped(queue, q, "reads"), q, "default", r) /\ pending' = pending
    <2>1. PICK shorter : shorter = Popped(queue, q, "reads")
      OBVIOUS
    <2>2. shorter \in Queues /\ Loses(shorter, queue, q, "reads", r)
      BY <1>1, <1>3, <1>4, <2>1, PoppedOnce, PoppedValue
    <2>3. /\ r \in Request /\ In(q, "reads", r) /\ AllOnce(shorter)
          /\ \A o \in Port : \A l \in Kinds : \A s \in Request :
               s \in Elements(shorter[o][l]) <=>
                 s \in Elements(queue[o][l]) /\ ~(o = q /\ l = "reads" /\ s = r)
      BY <1>1, <2>2 DEF Loses, In
    <2>4. r \in pending /\ \A o \in Port : \A l \in Boxes : In(o, l, r) => o = q /\ l = "reads"
      BY <1>1, <2>3, Alone, KindsBoxes
    <2>5. r \notin Elements(shorter[q]["default"])
      BY <1>1, <2>3, <2>4, KindsBoxes DEF In
    <2>6. queue' = Pushed(shorter, q, "default", r)
      BY <1>6, <2>1
    <2>7. Gains(queue', shorter, q, "default", r)
      BY <1>1, <2>2, <2>3, <2>5, <2>6, PushedOnce
    <2>8. ASSUME NEW o \in Port, NEW l \in Boxes, NEW s \in Request
          PROVE  In(o, l, s)' <=> (In(o, l, s) /\ s # r) \/ (o = q /\ l = "default" /\ s = r)
      <3>1. In(o, l, s)' = (IF l = "hand" THEN cur'[o] = s ELSE s \in Elements(queue'[o][l]))
        BY DEF In, Elements
      <3>2. CASE l = "hand"
        BY <1>1, <1>4, <2>4, <3>1, <3>2 DEF In
      <3>3. CASE l # "hand"
        <4>1. l \in Kinds
          BY <3>3 DEF Boxes
        <4>2. s \in Elements(queue'[o][l]) <=>
                s \in Elements(shorter[o][l]) \/ (o = q /\ l = "default" /\ s = r)
          BY <2>7, <4>1 DEF Gains
        <4>3. s \in Elements(shorter[o][l]) <=>
                s \in Elements(queue[o][l]) /\ ~(o = q /\ l = "reads" /\ s = r)
          BY <2>3, <4>1
        <4>4. In(o, l, s) <=> s \in Elements(queue[o][l])
          BY <3>3 DEF In
        <4>5. In(o, l, s) /\ s = r => o = q /\ l = "reads"
          BY <2>4
        <4>6. In(o, l, s)' <=> s \in Elements(queue'[o][l])
          BY <3>1, <3>3
        <4>7. s \in Elements(shorter[o][l]) <=> In(o, l, s) /\ s # r
          BY <2>3, <4>3, <4>4, <4>5
        <4> QED
          BY <4>2, <4>6, <4>7
      <3> QED
        BY <3>2, <3>3
    <2>9. Moved(r, q, "default")
      BY <1>1, <1>6, <2>3, <2>4, <2>8, KindsBoxes DEF Moved
    <2> QED
      BY <1>1, <2>3, <2>7, <2>9, KindsBoxes DEF Shift, Gains
  <1> QED
    BY <1>4, <1>5, <1>6

\* A new request enters the default queue.
LEMMA SubmitAdds ==
  ASSUME TypeOK, Sole, NEW p \in Port, NEW r \in Request, NEW c \in Calls, Submit(p, r, c)
  PROVE  AllOnce(queue') /\ Added(r, p, "default")
  <1>1. /\ queue \in Queues /\ AllOnce(queue) /\ "default" \in Kinds /\ "default" # "hand"
        /\ queue' = Pushed(queue, p, "default", r) /\ pending' = pending \cup {r} /\ cur' = cur
        /\ r \notin pending
    BY QueueType DEF Sole, Kinds, Submit, Submitted
  <1>2. \A q \in Port : \A l \in Boxes : ~In(q, l, r)
    BY <1>1 DEF Sole, Accounted
  <1>3. r \notin Elements(queue[p]["default"])
    BY <1>1, <1>2, KindsBoxes DEF In
  <1>4. Gains(queue', queue, p, "default", r)
    BY <1>1, <1>3, PushedOnce
  <1>5. ASSUME NEW q \in Port, NEW l \in Boxes, NEW s \in Request
        PROVE  In(q, l, s)' <=> In(q, l, s) \/ (q = p /\ l = "default" /\ s = r)
    <2>1. In(q, l, s)' = (IF l = "hand" THEN cur'[q] = s ELSE s \in Elements(queue'[q][l]))
      BY DEF In, Elements
    <2>2. CASE l = "hand"
      BY <1>1, <2>1, <2>2 DEF In
    <2>3. CASE l # "hand"
      <3>1. l \in Kinds
        BY <2>3 DEF Boxes
      <3> QED
        BY <1>4, <2>1, <2>3, <3>1 DEF In, Gains
    <2> QED
      BY <2>2, <2>3
  <1>6. Added(r, p, "default")
    BY <1>1, <1>5 DEF Added
  <1> QED
    BY <1>4, <1>6 DEF Gains

\* An earlier wait, if there is one, is completed.
LEMMA RetireLeaves ==
  ASSUME TypeOK, Sole, NEW p \in Port, Retire(p), cur' = cur
  PROVE  AllOnce(queue') /\ (Shift \/ UNCHANGED <<queue, pending>>)
  <1>1. CASE queue[p]["waits"] = <<>>
    BY <1>1 DEF Retire, Sole
  <1>2. CASE queue[p]["waits"] # <<>>
    <2>1. /\ queue' = Popped(queue, p, "waits") /\ "waits" \in Kinds
          /\ pending' = pending \ {Head(queue[p]["waits"])}
      BY <1>2 DEF Retire, Kinds
    <2> QED
      BY <1>2, <2>1, PopLeaves
  <1> QED
    BY <1>1, <1>2

-----------------------------------------------------------------------------
\* A step leaves the requests where they are, or moves one.
LEMMA BoxMoves ==
  ASSUME PairInv, Sole, NEW p \in Port, Handler(p) \/ Environment(p)
  PROVE  /\ AllOnce(queue')
         /\ \/ UNCHANGED <<queue, pending, cur>>
            \/ Shift
            \/ \E r \in Request : \E c \in Calls : Submit(p, r, c) /\ Added(r, p, "default")
  <1> DEFINE Goal ==
         /\ AllOnce(queue')
         /\ \/ UNCHANGED <<queue, pending, cur>>
            \/ Shift
            \/ \E r \in Request : \E c \in Calls : Submit(p, r, c) /\ Added(r, p, "default")
  <1>1. TypeOK /\ Serving /\ "reads" \in Kinds /\ "waits" \in Kinds
    BY DEF PairInv, Kinds
  <1>2. CASE UNCHANGED <<queue, pending, cur>>
    BY <1>2 DEF Sole
  <1>3. CASE Dispatch(p)
    BY <1>1, <1>3, DispatchMoves
  <1>4. CASE WakeOne(p)
    BY <1>1, <1>4, WakeMoves
  <1>5. CASE ReadPark(p) \/ WaitPark(p)
    <2>1. cur[p] \in Request
      BY <1>1, <1>5 DEF Serving, ReadPark, WaitPark
    <2> QED
      BY <1>1, <1>5, <2>1, Parked DEF ReadPark, WaitPark
  <1>6. CASE WriteStore(p) \/ ReadComplete(p) \/ PurgeDone(p) \/ FinishRequest(p)
    <2>1. /\ pc[p] \notin {"idle", "lookup", "waking"}
          /\ queue' = queue /\ Complete(p)
      BY <1>6 DEF WriteStore, ReadComplete, PurgeDone, FinishRequest
    <2>2. cur[p] \in Request
      BY <1>1, <2>1 DEF Serving
    <2> QED
      BY <1>1, <2>1, <2>2, Completes DEF Complete
  <1>7. CASE PurgeAbort(p)
    BY <1>1, <1>7, PopLeaves DEF PurgeAbort
  <1>8. CASE WaitRetire(p) \/ SetMask(p)
    BY <1>1, <1>8, RetireLeaves DEF WaitRetire, SetMask
  <1>9. ASSUME NEW r \in Request, NEW c \in Calls, Submit(p, r, c) PROVE Goal
    BY <1>1, <1>9, SubmitAdds
  <1>10. ASSUME NEW k \in Kinds, Cancel(p, k) PROVE Goal
    BY <1>1, <1>10, CancelLeaves
  <1>11. Goal
    BY <1>2, <1>3, <1>4, <1>5, <1>6, <1>7, <1>8, <1>9, <1>10
       DEF Handler, Environment, EvtIoWrite, EvtIoRead, EvtIoDeviceControl,
           WriteRoom, WakeAcquire, WakeDone, ReadAcquire, ReadLoad, ReadTake,
           PurgeTxHead, PurgeTxTail, PurgeRxHead, PurgeRxTail, GetCommStatus,
           PairAttachChild, PairDetachChild, requests
  <1> QED
    BY <1>11

\* So it keeps them apart and accounted for.
LEMMA BoxStep ==
  ASSUME PairInv, Sole, NEW p \in Port, Handler(p) \/ Environment(p)
  PROVE  AllOnce(queue') /\ Apart' /\ Accounted'
  <1>1. AllOnce(queue') /\ (UNCHANGED <<queue, pending, cur>> \/ Shift \/ Entry)
    BY BoxMoves, KindsBoxes DEF Entry, Kinds
  <1>2. CASE UNCHANGED <<queue, pending, cur>>
    BY <1>1, <1>2 DEF Sole, Apart, Accounted, AllOnce, In
  <1> QED
    BY <1>1, <1>2, ShiftKeeps DEF Sole

\* A request is not pending before it is submitted.
LEMMA SubmittedStep ==
  ASSUME PairInv, Sole, NEW p \in Port, Handler(p) \/ Environment(p)
  PROVE  Submitted'
  <1>1. call \in [Request -> Calls \cup {None}] /\ pending \subseteq Request
    BY DEF PairInv, TypeOK
  <1>2. CASE call' = call /\ pending' \subseteq pending
    BY <1>2 DEF Sole, Submitted
  <1>3. ASSUME NEW r \in Request, NEW c \in Calls, Submit(p, r, c) PROVE Submitted'
    BY <1>1, <1>3, PairAssumption DEF Submit, Sole, Submitted
  <1>4. CASE Retire(p) /\ call' = call
    BY <1>2, <1>4 DEF Retire
  <1>5. ASSUME NEW k \in Kinds, Park(p, k), call' = call PROVE Submitted'
    BY <1>2, <1>5 DEF Park, Forwarded, Refused
  <1>6. "reads" \in Kinds /\ "waits" \in Kinds
    BY DEF Kinds
  <1> QED
    BY <1>2, <1>3, <1>4, <1>5, <1>6
       DEF Handler, Environment, EvtIoWrite, EvtIoRead, EvtIoDeviceControl, Dispatch,
           WriteRoom, WriteStore, WakeAcquire, WakeOne, WakeDone, ReadAcquire, ReadLoad,
           ReadTake, ReadComplete, ReadPark, PurgeTxHead, PurgeTxTail, PurgeRxHead,
           PurgeRxTail, PurgeAbort, PurgeDone, WaitRetire, WaitPark, SetMask, GetCommStatus,
           FinishRequest, PairAttachChild, PairDetachChild, Cancel, Complete, requests

\* A handler lets its request go when it goes idle or to wake the peer's reads.
LEMMA HandsStep ==
  ASSUME PairInv, Sole, NEW p \in Port, Handler(p) \/ Environment(p)
  PROVE  Hands'
  <1>1. pc \in [Port -> Steps] /\ cur \in [Port -> Request \cup {None}] /\ Hands
    BY DEF PairInv, TypeOK, Sole
  <1>2. CASE UNCHANGED <<pc, cur>>
    BY <1>2 DEF Sole, Hands
  <1>3. CASE cur' = [cur EXCEPT ![p] = None] /\ \E s \in Steps : Goto(p, s)
    BY <1>1, <1>3 DEF Goto, Hands
  <1>4. CASE /\ UNCHANGED cur
             /\ \E s \in Steps : Goto(p, s) /\ (cur[p] = None \/ s \notin {"idle", "lookup", "waking"})
    BY <1>1, <1>4 DEF Goto, Hands
  <1>5. CASE Dispatch(p)
    <2>1. PICK c \in Calls : Goto(p, c.op)
      BY <1>5 DEF Dispatch
    <2>2. c.op \in Ops
      BY CallType
    <2>3. \A o \in Port : o # p => cur'[o] = cur[o] /\ pc'[o] = pc[o]
      BY <1>1, <1>5, <2>1 DEF Dispatch, Goto
    <2>4. pc'[p] = c.op
      BY <1>1, <2>1 DEF Goto
    <2> QED
      BY <1>1, <2>2, <2>3, <2>4 DEF Hands, Ops
  <1>6. CASE WakeAcquire(p) \/ WakeDone(p)
    <2>1. cur[p] = None
      BY <1>1, <1>6 DEF Hands, WakeAcquire, WakeDone
    <2> QED
      BY <1>1, <1>4, <1>6, <2>1 DEF WakeAcquire, WakeDone, Steps, requests
  <1>7. CASE ReadAcquire(p) \/ ReadLoad(p) \/ ReadTake(p)
    BY <1>4, <1>7 DEF ReadAcquire, ReadLoad, ReadTake, Steps, requests
  <1>8. CASE PurgeTxHead(p) \/ PurgeTxTail(p) \/ PurgeRxHead(p) \/ PurgeRxTail(p)
    <2>1. UNCHANGED cur
      BY <1>8 DEF PurgeTxHead, PurgeTxTail, PurgeRxHead, PurgeRxTail, requests
    <2>2. CASE PurgeTxHead(p)
      <3>1. Goto(p, "purge_tail") \/ Goto(p, "purge_rx")
        BY <2>2 DEF PurgeTxHead
      <3> QED
        BY <1>4, <2>1, <3>1 DEF Steps
    <2>3. CASE PurgeTxTail(p)
      BY <1>4, <2>1, <2>3 DEF PurgeTxTail, Steps
    <2>4. CASE PurgeRxHead(p)
      <3>1. Goto(p, "purge_rx_tail") \/ Goto(p, "purge_abort")
        BY <2>4 DEF PurgeRxHead
      <3> QED
        BY <1>4, <2>1, <3>1 DEF Steps
    <2>5. CASE PurgeRxTail(p)
      BY <1>4, <2>1, <2>5 DEF PurgeRxTail, Steps
    <2> QED
      BY <1>8, <2>2, <2>3, <2>4, <2>5
  <1>9. CASE WriteRoom(p) \/ WaitRetire(p) \/ SetMask(p) \/ GetCommStatus(p)
    BY <1>4, <1>9 DEF WriteRoom, WaitRetire, SetMask, GetCommStatus, Steps, requests
  <1>10. CASE \/ WriteStore(p) \/ ReadComplete(p) \/ ReadPark(p) \/ PurgeDone(p)
              \/ WaitPark(p) \/ FinishRequest(p)
    BY <1>3, <1>10 DEF WriteStore, ReadComplete, ReadPark, PurgeDone, WaitPark, FinishRequest,
                       Complete, Park, Steps
  <1> QED
    BY <1>2, <1>5, <1>6, <1>7, <1>8, <1>9, <1>10
       DEF Handler, Environment, EvtIoWrite, EvtIoRead, EvtIoDeviceControl, WakeOne,
           PurgeAbort, PairAttachChild, PairDetachChild, Submit, Cancel, requests

LEMMA SoleInit == Init => Sole
  <1> SUFFICES ASSUME Init PROVE Sole
    OBVIOUS
  <1>1. \A p \in Port : cur[p] = None /\ \A k \in Kinds : queue[p][k] = <<>>
    BY DEF Init
  <1>2. Elements(<<>>) = {} /\ Once(<<>>)
    BY DEF Elements, Once
  <1>3. \A p \in Port : \A k \in Boxes : \A r \in Request : ~In(p, k, r)
    BY <1>1, <1>2, PairAssumption DEF In, Boxes
  <1> QED
    BY <1>1, <1>2, <1>3 DEF Init, Sole, AllOnce, Apart, Accounted, Submitted, Hands

LEMMA SoleStep == PairInv /\ Sole /\ [Next]_vars => Sole'
  <1> SUFFICES ASSUME PairInv, Sole, [Next]_vars PROVE Sole'
    OBVIOUS
  <1>1. CASE UNCHANGED vars
    BY <1>1 DEF Sole, AllOnce, Apart, Accounted, Submitted, Hands, In, vars, requests
  <1>2. ASSUME NEW p \in Port, Handler(p) \/ Environment(p) PROVE Sole'
    BY <1>2, BoxStep, SubmittedStep, HandsStep DEF Sole
  <1> QED
    BY <1>1, <1>2 DEF Next

\* A queue is no longer than there are requests.
LEMMA OnceShort ==
  ASSUME NEW s \in Seq(Request), Once(s)
  PROVE  Len(s) <= Cardinality(Request)
  <1>1. Len(s) \in Nat /\ s \in [1..Len(s) -> Request]
    OBVIOUS
  <1>2. s \in Injection(1..Len(s), Request)
    BY <1>1 DEF Injection, IsInjective, Once
  <1>3. Cardinality(1..Len(s)) = Len(s)
    BY <1>1, FS_Interval
  <1> QED
    BY <1>2, <1>3, FS_Injection, PairAssumption

\* What Sole says of boxes, OnePlace says of places.
LEMMA SolePlace == PairInv /\ Sole => OnePlace
  <1> SUFFICES ASSUME PairInv, Sole, NEW r \in Request
               PROVE  Cardinality({x \in Places : Holds(x, r)}) = IF r \in pending THEN 1 ELSE 0
    BY DEF OnePlace
  <1>1. ASSUME NEW x \in Places, Holds(x, r)
        PROVE  \/ \E p \in Port : x = <<p, "hand", 0>> /\ In(p, "hand", r)
               \/ \E p \in Port : \E k \in Kinds : \E i \in 1..Len(queue[p][k]) :
                    x = <<p, k, i>> /\ queue[p][k][i] = r /\ In(p, k, r)
    <2>1. CASE \E p \in Port : x = <<p, "hand", 0>>
      BY <1>1, <2>1 DEF Holds, In
    <2>2. ASSUME NEW p \in Port, NEW k \in Kinds, NEW i \in 1..Cardinality(Request), x = <<p, k, i>>
          PROVE  i \in 1..Len(queue[p][k]) /\ queue[p][k][i] = r /\ In(p, k, r)
      <3>1. i \in Nat /\ i >= 1 /\ i <= Len(queue[p][k]) /\ queue[p][k][i] = r
        BY <1>1, <2>2, KindsBoxes, FS_CardinalityType, PairAssumption DEF Holds
      <3> QED
        BY <3>1, QueueType, KindsBoxes DEF PairInv, In, Elements
    <2> QED
      BY <2>1, <2>2 DEF Places
  <1>2. CASE r \notin pending
    <2>1. {x \in Places : Holds(x, r)} = {}
      BY <1>1, <1>2, KindsBoxes DEF Sole, Accounted
    <2> QED
      BY <1>2, <2>1, FS_EmptySet
  <1>3. CASE r \in pending
    <2>1. PICK p \in Port, k \in Boxes : In(p, k, r)
      BY <1>3 DEF Sole, Accounted
    <2>2. \A q \in Port : \A l \in Boxes : In(q, l, r) => q = p /\ l = k
      BY <2>1, Alone
    <2>3. CASE k = "hand"
      <3>1. <<p, "hand", 0>> \in Places /\ Holds(<<p, "hand", 0>>, r)
        BY <2>1, <2>3 DEF Places, Holds, In
      <3>2. {x \in Places : Holds(x, r)} = {<<p, "hand", 0>>}
        BY <1>1, <2>2, <2>3, <3>1, KindsBoxes
      <3> QED
        BY <1>3, <3>2, FS_Singleton
    <2>4. CASE k # "hand"
      <3>1. k \in Kinds /\ queue[p][k] \in Seq(Request) /\ Once(queue[p][k])
        BY <2>4, QueueType DEF Boxes, PairInv, Sole, AllOnce
      <3>2. PICK i \in 1..Len(queue[p][k]) : queue[p][k][i] = r
        BY <2>1, <2>4 DEF In, Elements
      <3>3. i \in 1..Cardinality(Request)
        BY <3>1, <3>2, OnceShort, FS_CardinalityType, PairAssumption
      <3>4. <<p, k, i>> \in Places /\ Holds(<<p, k, i>>, r)
        BY <2>4, <3>1, <3>2, <3>3 DEF Places, Holds
      <3>5. \A j \in 1..Len(queue[p][k]) : queue[p][k][j] = r => j = i
        BY <3>1, <3>2 DEF Once
      <3>6. {x \in Places : Holds(x, r)} = {<<p, k, i>>}
        BY <1>1, <2>2, <2>4, <3>4, <3>5, KindsBoxes
      <3> QED
        BY <1>3, <3>6, FS_Singleton
    <2> QED
      BY <2>3, <2>4
  <1> QED
    BY <1>2, <1>3

\* OnePlace: a pending request is in one queue of one port, once, or in one handler's
\* hand, and a completed one is in none: no callback, forwarding or cancellation
\* completes a request that is still queued, loses one or queues it twice.
THEOREM PairOnePlace == Spec => []OnePlace
  <1> QED
    BY InvInit, InvStep, SoleInit, SoleStep, SolePlace, PTL DEF Spec

-----------------------------------------------------------------------------
(* What is owed: PortPair implements OwedRequests *)

\* What a port owes is what is in its boxes.
LEMMA OwedBoxes ==
  /\ \A p \in Port : \A r \in Request : r \in Owed[p] <=> \E k \in Boxes : In(p, k, r)
  /\ \A p \in Port : \A r \in Request : r \in Owed'[p] <=> \E k \in Boxes : In(p, k, r)'
  /\ Owed \in [Port -> SUBSET Request] /\ Owed' \in [Port -> SUBSET Request]
  <1>1. Boxes = Kinds \cup {"hand"} /\ "hand" \notin Kinds
    BY KindsBoxes DEF Boxes
  <1> QED
    BY <1>1 DEF Owed, In, Elements

\* The pair table changes at an attach and a detach only, and a request has asked for
\* something once it is submitted.
LEMMA TableOrCall ==
  ASSUME NEW p \in Port, Handler(p) \/ Environment(p)
  PROVE  /\ up' = up \/ PairAttachChild(p) \/ PairDetachChild(p)
         /\ call' = call \/ \E r \in Request : \E c \in Calls : Submit(p, r, c)
  <1>1. CASE Dispatch(p) \/ EvtIoWrite(p)
    BY <1>1 DEF EvtIoWrite, Dispatch, WriteRoom, WriteStore, WakeAcquire, WakeOne, WakeDone,
         requests
  <1>2. CASE EvtIoRead(p)
    BY <1>2 DEF EvtIoRead, ReadAcquire, ReadLoad, ReadTake, ReadComplete, ReadPark, requests
  <1>3. CASE EvtIoDeviceControl(p)
    BY <1>3 DEF EvtIoDeviceControl, PurgeTxHead, PurgeTxTail, PurgeRxHead, PurgeRxTail,
         PurgeAbort, PurgeDone, WaitRetire, WaitPark, SetMask, GetCommStatus, FinishRequest,
         requests
  <1>4. CASE PairAttachChild(p) \/ PairDetachChild(p)
    BY <1>4 DEF PairAttachChild, PairDetachChild, requests
  <1>5. ASSUME NEW r \in Request, NEW c \in Calls, Submit(p, r, c) PROVE up' = up
    BY <1>5 DEF Submit
  <1>6. CASE \E k \in Kinds : Cancel(p, k)
    BY <1>6 DEF Cancel
  <1> QED
    BY <1>1, <1>2, <1>3, <1>4, <1>5, <1>6 DEF Handler, Environment

\* A request that moves stays with its port, one that leaves its box is done.
LEMMA ShiftOwed ==
  ASSUME Sole, Shift, up' = up, call' = call
  PROVE  Service!Next \/ UNCHANGED <<up, Owed, Done>>
  <1>1. PICK r \in Request : Removed(r) \/ \E q \in Port : \E l \in Boxes : Moved(r, q, l)
    BY DEF Shift
  <1>2. ASSUME NEW q \in Port, NEW l \in Boxes, Moved(r, q, l)
        PROVE  UNCHANGED <<up, Owed, Done>>
    <2>1. \A p \in Port : (\E k \in Boxes : In(p, k, r)) => p = q
      BY <1>2 DEF Moved, Sole, Apart
    <2>2. \A p \in Port : \A s \in Request :
            (\E k \in Boxes : In(p, k, s)') <=> (\E k \in Boxes : In(p, k, s))
      BY <1>2, <2>1 DEF Moved
    <2>3. \A p \in Port : Owed'[p] = Owed[p]
      BY <2>2, OwedBoxes
    <2>4. Done' = Done
      BY <1>2 DEF Moved, Done
    <2> QED
      BY <2>3, <2>4, OwedBoxes
  <1>3. CASE Removed(r)
    <2>1. \A p \in Port : \A s \in Request :
            (\E k \in Boxes : In(p, k, s)') <=> s # r /\ \E k \in Boxes : In(p, k, s)
      BY <1>3 DEF Removed
    <2>2. \A p \in Port : Owed'[p] = Owed[p] \ {r}
      BY <2>1, OwedBoxes
    <2>3. CASE r \notin pending
      <3>1. \A p \in Port : r \notin Owed[p]
        BY <2>3, OwedBoxes DEF Sole, Accounted
      <3>2. Done' = Done
        BY <1>3, <2>3 DEF Removed, Done
      <3> QED
        BY <2>2, <3>1, <3>2, OwedBoxes
    <2>4. CASE r \in pending
      <3>1. PICK p \in Port : \E k \in Boxes : In(p, k, r)
        BY <2>4 DEF Sole, Accounted
      <3>2. \A q \in Port : r \in Owed[q] <=> q = p
        BY <3>1, OwedBoxes DEF Sole, Apart
      <3>3. Owed' = [Owed EXCEPT ![p] = @ \ {r}]
        BY <2>2, <3>2, OwedBoxes
      <3>4. Done' = Done \cup {r}
        BY <1>3, <2>4 DEF Removed, Done, Sole, Submitted
      <3>5. Service!Complete(p, r)
        BY <3>2, <3>3, <3>4 DEF Service!Complete
      <3> QED
        BY <3>5 DEF Service!Next
    <2> QED
      BY <2>3, <2>4
  <1> QED
    BY <1>1, <1>2, <1>3

\* A step of the pair is one of OwedRequests, or changes nothing that is owed.
LEMMA OwedStep ==
  ASSUME PairInv, Sole, NEW p \in Port, Handler(p) \/ Environment(p)
  PROVE  Service!Next \/ UNCHANGED <<up, Owed, Done>>
  <1>1. CASE PairAttachChild(p)
    <2>1. UNCHANGED <<Owed, Done>> /\ p \notin up /\ up' = up \cup {p}
      BY <1>1 DEF PairAttachChild, requests, Owed, Done
    <2>2. Service!Attach(p)
      BY <2>1 DEF Service!Attach
    <2> QED
      BY <2>2 DEF Service!Next
  <1>2. CASE PairDetachChild(p)
    <2>1. UNCHANGED <<Owed, Done>> /\ p \in up /\ up' = up \ {p}
      BY <1>2 DEF PairDetachChild, requests, Owed, Done
    <2>2. cur[p] = None /\ \A k \in Kinds : queue[p][k] = <<>>
      BY <1>2 DEF PairDetachChild, Sole, Hands
    <2>3. Elements(<<>>) = {}
      BY DEF Elements
    <2>4. Owed[p] = {}
      BY <2>2, <2>3, PairAssumption DEF Owed
    <2>5. Service!Detach(p)
      BY <2>1, <2>4 DEF Service!Detach
    <2> QED
      BY <2>5 DEF Service!Next
  <1>3. ASSUME NEW r \in Request, NEW c \in Calls, Submit(p, r, c), Added(r, p, "default")
        PROVE  Service!Next
    <2>1. /\ p \in up /\ up' = up /\ call[r] = None /\ call' = [call EXCEPT ![r] = c]
          /\ call \in [Request -> Calls \cup {None}] /\ c # None
      BY <1>3, PairAssumption DEF Submit, PairInv, TypeOK
    <2>2. \A q \in Port : \A s \in Request :
            (\E k \in Boxes : In(q, k, s)') <=> (\E k \in Boxes : In(q, k, s)) \/ (q = p /\ s = r)
      BY <1>3, KindsBoxes DEF Added, Kinds
    <2>3. Owed' = [Owed EXCEPT ![p] = @ \cup {r}]
      <3>1. \A q \in Port : Owed'[q] = IF q = p THEN Owed[q] \cup {r} ELSE Owed[q]
        BY <2>2, OwedBoxes
      <3> QED
        BY <3>1, OwedBoxes
    <2>4. r \notin Done /\ \A q \in Port : r \notin Owed[q]
      BY <1>3, <2>1, OwedBoxes DEF Done, Added, Sole, Accounted
    <2>5. Done' = Done
      BY <1>3, <2>1 DEF Done, Added
    <2>6. Service!Submit(p, r)
      BY <2>1, <2>3, <2>4, <2>5 DEF Service!Submit
    <2> QED
      BY <2>6 DEF Service!Next
  <1>4. CASE UNCHANGED <<queue, pending, cur, up, call>>
    BY <1>4 DEF Owed, Done
  <1>5. ASSUME NEW r \in Request, NEW c \in Calls, Submit(p, r, c)
        PROVE  Service!Next
    BY <1>3, <1>5, SubmitAdds DEF PairInv
  <1>6. CASE up' = up /\ call' = call
    <2>1. CASE UNCHANGED <<queue, pending, cur>>
      BY <1>4, <1>6, <2>1
    <2>2. CASE Shift
      BY <1>6, <2>2, ShiftOwed
    <2> QED
      BY <1>5, <2>1, <2>2, BoxMoves
  <1> QED
    BY <1>1, <1>2, <1>5, <1>6, TableOrCall

\* OwedSpec: no step completes two requests, or one that stays queued, or loses one;
\* requests keep their port, and a port that goes owes none (queue.c:614-732,
\* 389-415, 475-546).
THEOREM PairOwes == Spec => OwedSpec
  <1>1. Init => Service!Init
    <2> SUFFICES ASSUME Init PROVE Service!Init
      OBVIOUS
    <2>1. \A p \in Port : cur[p] = None /\ \A k \in Kinds : queue[p][k] = <<>>
      BY DEF Init
    <2>2. Elements(<<>>) = {}
      BY DEF Elements
    <2>3. Owed = [p \in Port |-> {}]
      BY <2>1, <2>2, PairAssumption DEF Owed
    <2> QED
      BY <2>3 DEF Init, Service!Init, Done
  <1>2. PairInv /\ Sole /\ [Next]_vars => [Service!Next]_(Service!vars)
    <2> SUFFICES ASSUME PairInv, Sole, [Next]_vars
                 PROVE  Service!Next \/ UNCHANGED <<up, Owed, Done>>
      BY DEF Service!vars
    <2>1. CASE UNCHANGED vars
      BY <2>1 DEF vars, requests, Owed, Done
    <2> QED
      BY <2>1, OwedStep DEF Next
  <1> QED
    BY <1>1, <1>2, InvInit, InvStep, SoleInit, SoleStep, PTL DEF Spec, OwedSpec, Service!Spec
=============================================================================
