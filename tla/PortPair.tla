------------------------------ MODULE PortPair ------------------------------
(***************************************************************************)
(* Two paired ports of hid2vsp and the requests of their applications:     *)
(* queue.c's write, read, purge, status and wait-mask callbacks, each step *)
(* between two accesses to what the ports share, and the pair table with   *)
(* its lock (pair.c).                                                      *)
(*                                                                         *)
(* The framework delivers the requests of one port one at a time           *)
(* (sequential default queue, queue.c:39-47; device-wide callback          *)
(* serialisation, device.c:145), so a port has one handler and one program *)
(* counter; the handlers of the two ports interleave.                      *)
(*                                                                         *)
(* A ring is the number of bytes it holds, moved as RingCount says, which  *)
(* RingBuffer's pointers are shown to: a write adds up to the room         *)
(* it saw when it loaded the reader's pointer, and a read takes up to the  *)
(* bytes it saw: each call is those two steps here. A reset is its two     *)
(* stores; once one meets a call the ring is "torn" and its count is       *)
(* anything RingBuffer could make of it. The build is one that stores the  *)
(* writer's pointer once (lines 257 and 264 of ringbuffer.c).              *)
(***************************************************************************)
EXTENDS Integers, Sequences, FiniteSets

CONSTANTS
  Request,   \* the requests applications make, each used once
  Calls,     \* what a request may ask for
  Capacity,  \* bytes a ring holds (RingBuffer's Size - 1)
  None       \* no request, no port

Port  == {"A", "B"}
Flags == {"TXCLEAR", "RXCLEAR", "RXABORT"}
Kinds == {"default", "reads", "waits"}
Ops   == {"write", "read", "purge", "wait", "setmask", "status"}

\* The framework completes reads and writes of no bytes itself (queue.c:755).
ASSUME PairAssumption ==
  /\ Capacity \in Nat \ {0}
  /\ IsFiniteSet(Request)
  /\ None \notin Request /\ None \notin Port /\ None \notin Calls
  /\ Calls \subseteq [op : Ops, len : Nat, flags : SUBSET Flags]
  /\ \A c \in Calls : c.op \in {"read", "write"} => c.len > 0

VARIABLES
  up,        \* ports in the pair table: DRIVER_CONTEXT.ChildA, ChildB
  lock,      \* the port whose handler holds PairLock, or None
  ring,      \* bytes in each port's ring, the ones it wrote
  call,      \* what each request asked for, None before it is submitted
  pending,   \* requests submitted and not completed
  queue,     \* each port's queues: the default one, ReadQueue with the reads
             \* parked on an empty ring, WaitMaskQueue
  cur, pc,   \* each port's handler: its request, its next step
  n,         \* bytes the ring call under way decided to move
  torn,      \* rings a reset overlapped a call on, until a clean reset
  seen       \* history: what GET_COMMSTATUS last said, less what was read

requests == <<call, pending, queue, cur>>
vars     == <<up, lock, ring, torn, requests, pc, n, seen>>

Peer(p) == IF p = "A" THEN "B" ELSE "A"

Smaller(x, y) == IF x <= y THEN x ELSE y

Asks(p) == call[cur[p]]

\* Request r at the end of queue k of port p; the head of that queue removed.
Pushed(q, p, k, r) == [q EXCEPT ![p][k] = Append(@, r)]
Popped(q, p, k)    == [q EXCEPT ![p][k] = Tail(@)]

\* The mutants of this module: plausible slips in queue.c and pair.c.
NeverWaits == TRUE
HolderForgotten(p) == p
RoomEmpty(p) == Capacity
AvailableOwn(p, q) == ring[p]
RetireNone(p) == UNCHANGED <<queue, pending>>
ForwardedAndCompleted(p, k, r) == /\ queue' = Pushed(queue, p, k, r)
                                  /\ pending' = pending \ {r}
WakeFinishedEarly(p) == Len(queue[Peer(p)]["reads"]) <= 1

\* PairLock is a wait lock: PairAcquirePeer blocks while another handler, an
\* attach or a detach has it.
LockFree == lock = None

\* The holder once PairAcquirePeer has returned: a handler that gets no peer
\* releases the lock at once.
Holder(p) == IF Peer(p) \in up THEN p ELSE None

\* Bytes a writer may add, and the bytes of ring q that a reader on p may take.
Room(p) == Capacity - ring[p]
Available(p, q) == ring[q]

\* A purge of q, or one of its peer, is between the two stores of its reset of
\* ring q; a call on q has loaded a pointer and not yet stored its own.
TxReset(q)   == pc[q] = "purge_tail"
RxReset(q)   == pc[Peer(q)] = "purge_rx_tail"
Resetting(q) == TxReset(q) \/ RxReset(q)
InCall(q)    == pc[q] = "store" \/ pc[Peer(q)] = "take"

\* A read of ring q may have loaded its own pointer and not yet the writer's
\* (ringbuffer.c:81-82): the store of that pointer by a purge tears the ring.
Aimed(q) == pc[Peer(q)] = "load"

\* The values a count of ring q may have where it should be k.
Count(q, k) == IF q \in torn' THEN 0..Capacity ELSE {k}

\* The first load of a call on ring q.
Load(q) == torn' = IF Resetting(q) THEN torn \cup {q} ELSE torn

\* One of the two stores of RingBufferReset of ring q, the first if head.
Reset(q, head) ==
  /\ torn' = IF InCall(q) \/ (head /\ Aimed(q)) THEN torn \cup {q}
             ELSE IF head THEN torn \ {q} ELSE torn
  /\ \E k \in Count(q, 0) : ring' = [ring EXCEPT ![q] = k]
  /\ seen' = [seen EXCEPT ![Peer(q)] = 0]

Without(s, i) == SubSeq(s, 1, i - 1) \o SubSeq(s, i + 1, Len(s))

Elements(s) == {s[i] : i \in 1..Len(s)}

Init ==
  /\ up = {} /\ lock = None
  /\ ring = [p \in Port |-> 0]
  /\ call = [r \in Request |-> None] /\ pending = {}
  /\ queue = [p \in Port |-> [k \in Kinds |-> <<>>]]
  /\ cur = [p \in Port |-> None]
  /\ pc = [p \in Port |-> "idle"]
  /\ n = [p \in Port |-> 0]
  /\ torn = {}
  /\ seen = [p \in Port |-> 0]

Goto(p, step) == pc' = [pc EXCEPT ![p] = step]

\* WdfRequestComplete of the request in hand, at the end of a handler.
Complete(p) ==
  /\ pending' = pending \ {cur[p]}
  /\ cur' = [cur EXCEPT ![p] = None]

\* WdfRequestForwardToIoQueue of r to a queue of p. A queue that refuses the
\* request leaves it to the callback, which completes it with the error.
Forwarded(p, k, r) == /\ queue' = Pushed(queue, p, k, r)
                      /\ UNCHANGED pending
Refused(r) == pending' = pending \ {r} /\ UNCHANGED queue

\* The handler parks the request in hand on a manual queue of its port.
Park(p, k) ==
  /\ Forwarded(p, k, cur[p]) \/ Refused(cur[p])
  /\ cur' = [cur EXCEPT ![p] = None]

\* The WAIT_ON_MASK parked before, if any, is retrieved and completed.
Retire(p) ==
  IF queue[p]["waits"] = <<>>
    THEN UNCHANGED <<queue, pending>>
    ELSE /\ pending' = pending \ {Head(queue[p]["waits"])}
         /\ queue' = Popped(queue, p, "waits")

-----------------------------------------------------------------------------
(* The pair table, the applications, the framework *)

\* A device that attaches has a ring of its own, empty.
PairAttachChild(p) ==
  /\ LockFree /\ p \notin up
  /\ up' = up \cup {p}
  /\ UNCHANGED <<lock, ring, torn, requests, pc, n, seen>>

\* The framework has drained the port's queues when it deletes the device; the
\* ring goes with it.
PairDetachChild(p) ==
  /\ LockFree /\ p \in up
  /\ pc[p] = "idle"
  /\ \A k \in Kinds : queue[p][k] = <<>>
  /\ up' = up \ {p}
  /\ ring' = [ring EXCEPT ![p] = 0]
  /\ torn' = torn \ {p}
  /\ seen' = [q \in Port |-> 0]
  /\ UNCHANGED <<lock, requests, pc, n>>

Submit(p, r, c) ==
  /\ p \in up /\ call[r] = None
  /\ call' = [call EXCEPT ![r] = c]
  /\ pending' = pending \cup {r}
  /\ queue' = Pushed(queue, p, "default", r)
  /\ UNCHANGED <<up, lock, ring, torn, cur, pc, n, seen>>

\* The framework cancels a request in a queue when its application exits or
\* gives up, or the port goes away (queue.c:75-78).
Cancel(p, k) ==
  /\ \E i \in 1..Len(queue[p][k]) :
        /\ pending' = pending \ {queue[p][k][i]}
        /\ queue' = [queue EXCEPT ![p][k] = Without(@, i)]
  /\ UNCHANGED <<up, lock, ring, torn, call, cur, pc, n, seen>>

Dispatch(p) ==
  /\ pc[p] = "idle" /\ queue[p]["default"] # <<>>
  /\ cur' = [cur EXCEPT ![p] = Head(queue[p]["default"])]
  /\ queue' = Popped(queue, p, "default")
  /\ \E c \in Calls : call[cur'[p]] = c /\ Goto(p, c.op)
  /\ UNCHANGED <<up, lock, ring, torn, call, pending, n, seen>>

-----------------------------------------------------------------------------
(* EvtIoWrite *)

\* RingBufferWrite loads the reader's pointer ...
WriteRoom(p) ==
  /\ pc[p] = "write"
  /\ Load(p)
  /\ \E k \in Count(p, Room(p)) : n' = [n EXCEPT ![p] = Smaller(Asks(p).len, k)]
  /\ Goto(p, "store")
  /\ UNCHANGED <<up, lock, ring, requests, seen>>

\* ... and stores its own; then the request is completed, for its full length.
WriteStore(p) ==
  /\ pc[p] = "store"
  /\ UNCHANGED torn
  /\ \E k \in Count(p, ring[p] + n[p]) : ring' = [ring EXCEPT ![p] = k]
  /\ Complete(p)
  /\ Goto(p, "lookup")
  /\ UNCHANGED <<up, lock, call, queue, n, seen>>

WakeAcquire(p) ==
  /\ pc[p] = "lookup" /\ LockFree
  /\ lock' = Holder(p)
  /\ Goto(p, IF Peer(p) \in up THEN "waking" ELSE "idle")
  /\ UNCHANGED <<up, ring, torn, requests, n, seen>>

WakeFinished(p) == queue[Peer(p)]["reads"] = <<>>

\* One turn of the loop: the oldest parked read goes to the end of the peer's
\* default queue, or is completed when that queue refuses it.
WakeOne(p) ==
  LET q == Peer(p)
      r == Head(queue[q]["reads"])
  IN  /\ pc[p] = "waking" /\ ~WakeFinished(p)
      /\ \/ /\ queue' = Pushed(Popped(queue, q, "reads"), q, "default", r)
            /\ UNCHANGED pending
         \/ /\ queue' = Popped(queue, q, "reads")
            /\ pending' = pending \ {r}
      /\ UNCHANGED <<up, lock, ring, torn, call, cur, pc, n, seen>>

WakeDone(p) ==
  /\ pc[p] = "waking" /\ WakeFinished(p)
  /\ lock' = None
  /\ Goto(p, "idle")
  /\ UNCHANGED <<up, ring, torn, requests, n, seen>>

-----------------------------------------------------------------------------
(* EvtIoRead *)

ReadAcquire(p) ==
  /\ pc[p] = "read" /\ LockFree
  /\ lock' = Holder(p)
  /\ n' = [n EXCEPT ![p] = 0]
  /\ Goto(p, IF Peer(p) \in up THEN "load" ELSE "decide")
  /\ UNCHANGED <<up, ring, torn, requests, seen>>

\* RingBufferRead loads the writer's pointer: an empty ring ends the call.
ReadLoad(p) ==
  /\ pc[p] = "load"
  /\ Load(Peer(p))
  /\ \E k \in Count(Peer(p), Available(p, Peer(p))) :
        n' = [n EXCEPT ![p] = Smaller(Asks(p).len, k)]
  /\ IF n'[p] = 0
       THEN lock' = None /\ Goto(p, "decide")
       ELSE lock' = lock /\ Goto(p, "take")
  /\ UNCHANGED <<up, ring, requests, seen>>

ReadTake(p) ==
  /\ pc[p] = "take"
  /\ UNCHANGED torn
  /\ \E k \in Count(Peer(p), ring[Peer(p)] - n[p]) :
        ring' = [ring EXCEPT ![Peer(p)] = k]
  /\ seen' = [seen EXCEPT ![p] = IF @ > n[p] THEN @ - n[p] ELSE 0]
  /\ lock' = None
  /\ Goto(p, "decide")
  /\ UNCHANGED <<up, requests, n>>

ReadComplete(p) ==
  /\ pc[p] = "decide" /\ n[p] > 0
  /\ Complete(p)
  /\ Goto(p, "idle")
  /\ UNCHANGED <<up, lock, ring, torn, call, queue, n, seen>>

\* PairLock is free again: the peer may have written since ReadLoad.
ReadPark(p) ==
  /\ pc[p] = "decide" /\ n[p] = 0
  /\ Park(p, "reads")
  /\ Goto(p, "idle")
  /\ UNCHANGED <<up, lock, ring, torn, call, n, seen>>

-----------------------------------------------------------------------------
(* EvtIoDeviceControl *)

\* IOCTL_SERIAL_PURGE: its own ring without the lock, the peer's under it, then
\* the parked reads.
PurgeTxHead(p) ==
  /\ pc[p] = "purge"
  /\ IF "TXCLEAR" \in Asks(p).flags
       THEN Reset(p, TRUE) /\ Goto(p, "purge_tail")
       ELSE UNCHANGED <<ring, torn, seen>> /\ Goto(p, "purge_rx")
  /\ UNCHANGED <<up, lock, requests, n>>

PurgeTxTail(p) ==
  /\ pc[p] = "purge_tail"
  /\ Reset(p, FALSE)
  /\ Goto(p, "purge_rx")
  /\ UNCHANGED <<up, lock, requests, n>>

PurgeRxHead(p) ==
  /\ pc[p] = "purge_rx"
  /\ IF "RXCLEAR" \in Asks(p).flags
       THEN /\ LockFree
            /\ lock' = Holder(p)
            /\ IF Peer(p) \in up
                 THEN Reset(Peer(p), TRUE) /\ Goto(p, "purge_rx_tail")
                 ELSE UNCHANGED <<ring, torn, seen>> /\ Goto(p, "purge_abort")
       ELSE UNCHANGED <<lock, ring, torn, seen>> /\ Goto(p, "purge_abort")
  /\ UNCHANGED <<up, requests, n>>

PurgeRxTail(p) ==
  /\ pc[p] = "purge_rx_tail"
  /\ Reset(Peer(p), FALSE)
  /\ lock' = None
  /\ Goto(p, "purge_abort")
  /\ UNCHANGED <<up, requests, n>>

PurgeAbort(p) ==
  /\ pc[p] = "purge_abort"
  /\ "RXABORT" \in Asks(p).flags /\ queue[p]["reads"] # <<>>
  /\ pending' = pending \ {Head(queue[p]["reads"])}
  /\ queue' = Popped(queue, p, "reads")
  /\ UNCHANGED <<up, lock, ring, torn, call, cur, pc, n, seen>>

PurgeDone(p) ==
  /\ pc[p] = "purge_abort"
  /\ "RXABORT" \in Asks(p).flags => queue[p]["reads"] = <<>>
  /\ Complete(p)
  /\ Goto(p, "idle")
  /\ UNCHANGED <<up, lock, ring, torn, call, queue, n, seen>>

\* IOCTL_SERIAL_WAIT_ON_MASK: the waiter before it fails, then it is parked.
WaitRetire(p) ==
  /\ pc[p] = "wait"
  /\ Retire(p)
  /\ Goto(p, "wait_park")
  /\ UNCHANGED <<up, lock, ring, torn, call, cur, n, seen>>

WaitPark(p) ==
  /\ pc[p] = "wait_park"
  /\ Park(p, "waits")
  /\ Goto(p, "idle")
  /\ UNCHANGED <<up, lock, ring, torn, call, n, seen>>

\* IOCTL_SERIAL_SET_WAIT_MASK ends the waiter, and is completed itself.
SetMask(p) ==
  /\ pc[p] = "setmask"
  /\ Retire(p)
  /\ Goto(p, "finish")
  /\ UNCHANGED <<up, lock, ring, torn, call, cur, n, seen>>

\* IOCTL_SERIAL_GET_COMMSTATUS reads the peer's ring under the lock. With the
\* peer's purge between its two loads this step is the first of them, and the
\* purge takes the announcement back.
GetCommStatus(p) ==
  /\ pc[p] = "status" /\ LockFree
  /\ LET q == Peer(p)
     IN  seen' = [seen EXCEPT ![p] = IF q \in up \ torn /\ ~Resetting(q)
                                       THEN Available(p, q) ELSE 0]
  /\ Goto(p, "finish")
  /\ UNCHANGED <<up, lock, ring, torn, requests, n>>

\* The end of an ioctl (queue.c:573), and the early return of a callback that
\* cannot get at the request's buffer (queue.c:612, 687, 386).
FinishRequest(p) ==
  /\ pc[p] \in {"finish", "write", "read", "purge"}
  /\ Complete(p)
  /\ Goto(p, "idle")
  /\ UNCHANGED <<up, lock, ring, torn, call, queue, n, seen>>

-----------------------------------------------------------------------------
EvtIoWrite(p) == WriteRoom(p) \/ WriteStore(p) \/ WakeAcquire(p) \/ WakeOne(p)
                 \/ WakeDone(p)

EvtIoRead(p) == ReadAcquire(p) \/ ReadLoad(p) \/ ReadTake(p) \/ ReadComplete(p)
                \/ ReadPark(p)

EvtIoDeviceControl(p) ==
  \/ PurgeTxHead(p) \/ PurgeTxTail(p) \/ PurgeRxHead(p) \/ PurgeRxTail(p)
  \/ PurgeAbort(p) \/ PurgeDone(p)
  \/ WaitRetire(p) \/ WaitPark(p) \/ SetMask(p) \/ GetCommStatus(p)
  \/ FinishRequest(p)

Handler(p) == Dispatch(p) \/ EvtIoWrite(p) \/ EvtIoRead(p) \/ EvtIoDeviceControl(p)

Environment(p) ==
  \/ PairAttachChild(p) \/ PairDetachChild(p)
  \/ \E r \in Request : \E c \in Calls : Submit(p, r, c)
  \/ \E k \in Kinds : Cancel(p, k)

Next == \E p \in Port : Handler(p) \/ Environment(p)

Spec == Init /\ [][Next]_vars

\* The framework delivers what is queued, and a handler that can go on does.
\* Nobody has to submit, to cancel, or to plug a port.
FairSpec == Spec /\ \A p \in Port : WF_vars(Handler(p))

-----------------------------------------------------------------------------
Steps == {"idle", "store", "lookup", "waking", "load", "take", "decide",
          "purge_tail", "purge_rx", "purge_rx_tail", "purge_abort", "wait_park", "finish"} \cup Ops

TypeOK ==
  /\ up \subseteq Port
  /\ lock \in Port \cup {None}
  /\ ring \in [Port -> 0..Capacity]
  /\ call \in [Request -> Calls \cup {None}]
  /\ pending \subseteq Request
  /\ queue \in [Port -> [Kinds -> Seq(Request)]]
  /\ cur \in [Port -> Request \cup {None}]
  /\ pc \in [Port -> Steps]
  /\ n \in [Port -> 0..Capacity]
  /\ torn \subseteq Port
  /\ seen \in [Port -> 0..Capacity]

\* Where requests are: <<port, queue, position>>, or <<port, "hand", 0>>.
Places == {<<p, k, i>> : p \in Port, k \in Kinds, i \in 1..Cardinality(Request)}
            \cup {<<p, "hand", 0>> : p \in Port}

Holds(x, r) == IF x[2] = "hand"
                 THEN cur[x[1]] = r
                 ELSE x[3] <= Len(queue[x[1]][x[2]]) /\ queue[x[1]][x[2]][x[3]] = r

\* A pending request is in exactly one place, a handler's hand or one queue,
\* and a completed one in none: no path of the callbacks, none of the
\* framework's cancellations, completes a request twice or forgets it.
OnePlace ==
  \A r \in Request :
    Cardinality({x \in Places : Holds(x, r)}) = IF r \in pending THEN 1 ELSE 0

\* At most one WAIT_ON_MASK is pending per port, though the handlers retire
\* only one (queue.c:487-514).
OneWaiter == \A p \in Port : Len(queue[p]["waits"]) <= 1

\* While a handler uses its peer's ring or queues, the peer stays in the pair
\* table: it cannot be torn down meanwhile (pair.h:85-90).
PeerAlive ==
  \A p \in Port : pc[p] \in {"load", "take", "waking", "purge_rx_tail"}
                    => Peer(p) \in up /\ lock = p

\* What GET_COMMSTATUS announced can be read: the peer only adds to its ring,
\* unless a purge or a new peer intervenes (queue.c:348-350).
StatusHolds ==
  \A p \in Port : Peer(p) \notin torn => seen[p] <= ring[Peer(p)]

\* The wake-up of queue.c:639-664 can be missed (NoStrandedRead), but by one
\* read at a time: every wake empties ReadQueue, and a port whose peer is not
\* about to wake it parks at most the read that saw the ring empty before.
OneStranded ==
  \A p \in Port :
    /\ ring[Peer(p)] > 0 /\ Peer(p) \notin torn
    /\ pc[Peer(p)] \notin {"lookup", "waking"}
    => Len(queue[p]["reads"]) <= 1

\* ringbuffer.h:65-67: a read is not kept pending while there is data for it.
\* Between a write's store and the end of its wake-up it may be.
NoStrandedRead ==
  \A p \in Port :
    /\ ring[Peer(p)] > 0
    /\ pc[Peer(p)] \notin {"lookup", "waking"}
    => queue[p]["reads"] = <<>>

\* Every callback returns, so each port goes on serving its queue: PairLock is
\* released on every path, and the wake loop ends, because the peer cannot
\* park again the reads it is handed while the loop holds the lock.
HandlersReturn == \A p \in Port : pc[p] # "idle" ~> pc[p] = "idle"

\* A read that is parked when the peer's wake-up starts gets another chance.
WakeReaches ==
  \A p \in Port : \A r \in Request :
    r \in Elements(queue[p]["reads"]) /\ pc[Peer(p)] = "waking"
      ~> r \notin Elements(queue[p]["reads"])

\* A read that found the ring empty and is about to be parked.
Late(p) == IF pc[p] = "decide" /\ n[p] = 0 THEN 1 ELSE 0

\* The wake loop makes its own work no longer: until it is done the peer can
\* park the one read that was on its way to ReadQueue, and no other, since a
\* read handed back to the default queue waits for the lock (queue.c:646-661).
WakeShrinks ==
  [][\A p \in Port :
       pc[p] = "waking" /\ pc'[p] = "waking"
         => Len(queue'[Peer(p)]["reads"]) + Late(Peer(p))'
              <= Len(queue[Peer(p)]["reads"]) + Late(Peer(p))]_vars

-----------------------------------------------------------------------------
(* What the pair implements *)

\* What the calls under way will add to ring q, and take from it.
Adding(q) == IF pc[q] = "store" THEN n[q] ELSE -1
Taking(q) == IF pc[Peer(q)] = "take" THEN n[Peer(q)] ELSE -1

RingA == INSTANCE RingCount WITH
  SplitStore <- FALSE, stored <- ring["A"], torn <- "A" \in torn,
  write <- Adding("A"), read <- Taking("A"), aimed <- Aimed("A"),
  txreset <- TxReset("A"), rxreset <- RxReset("A")

RingB == INSTANCE RingCount WITH
  SplitStore <- FALSE, stored <- ring["B"], torn <- "B" \in torn,
  write <- Adding("B"), read <- Taking("B"), aimed <- Aimed("B"),
  txreset <- TxReset("B"), rxreset <- RxReset("B")

\* The callbacks use a ring the way its count is proved for: one write and one
\* read at a time, purges that meet only the other side's call, and no ring
\* goes with its port while either side is in it.
RingSpec == RingA!Spec /\ RingB!Spec

\* The pair table, and the ports whose handlers use the peer in it.
Slots == [p \in Port |-> IF p \in up THEN p ELSE None]
Users == {p \in Port : pc[p] \in {"load", "take", "waking", "purge_rx_tail"}}

Granted == INSTANCE PairTable WITH Device <- Port, slot <- Slots, users <- Users

\* Every path through the read, write and purge callbacks takes and gives back
\* the peer one handler at a time, and the table is still meanwhile
\* (pair.h:85-104).
TableSpec == Granted!Spec

\* The requests each port has, in a queue or in hand, and those completed.
Owed == [p \in Port |->
           {r \in Request : cur[p] = r \/ \E k \in Kinds : r \in Elements(queue[p][k])}]
Done == {r \in Request \ pending : call[r] # None}

Service == INSTANCE OwedRequests WITH attached <- up, owed <- Owed, done <- Done

\* No step completes two requests, or one that stays queued; a request stays
\* with its port, even when the peer's wake-up moves it; a port that goes owes
\* nothing.
OwedSpec == Service!Spec
=============================================================================
