-------------------------- MODULE DeviceLifecycle --------------------------
(***************************************************************************)
(* The devices of hid2vsp as they come and go: AddDevice (device.c,        *)
(* QueueCreate of queue.c), the pair table and its lock (pair.c), cleanup, *)
(* and the handlers of a running port that use the peer's queue context    *)
(* under the lock. All devices live in one WUDFHost, so AddDevice and the  *)
(* cleanup of one run beside the handlers of another.                      *)
(*                                                                         *)
(* What a handler does with its peer's ring and queues is PortPair's; here *)
(* it holds the peer from PairAcquirePeer to PairReleasePeer.              *)
(***************************************************************************)
EXTENDS FiniteSets

CONSTANTS
  Device,   \* the device nodes that may be installed
  HwSide,   \* the side each one's hardware ID names, or None
  None,     \* no device, no side
  Refused,  \* the devices for which SERIALCOMM may fail to open
  MayDelete \* whether SERIALCOMM, opened for KEY_SET_VALUE, may be deleted so

Side  == {"A", "B"}
Parts == {"ReadQueue", "WaitMaskQueue", "RingBuffer"}

ASSUME DeviceAssumption == /\ None \notin Device /\ None \notin Side
                           /\ HwSide \in [Device -> Side \cup {None}]
                           /\ Refused \subseteq Device /\ MayDelete \in BOOLEAN

VARIABLES
  slot,     \* DRIVER_CONTEXT: ChildA and ChildB
  lock,     \* the device whose handler holds PairLock, or None
  phase,    \* how far AddDevice or the removal of each device has come
  side,     \* DEVICE_CONTEXT.Side
  qctx,     \* DEVICE_CONTEXT.QueueContext is not NULL
  built,    \* the parts of the queue context that are initialized
  using,    \* the peer each device's handler got from PairAcquirePeer
  listed,   \* the devices with a value in DEVICEMAP\SERIALCOMM
  legacy    \* DEVICE_CONTEXT.CreatedLegacyHardwareKey

context == <<side, qctx, built>>
names   == <<listed, legacy>>
vars    == <<slot, lock, phase, context, using, names>>

\* A device that has left the pair table, or was never in it.
Detaching == {"detached", "cleaned"}
Phases == {"absent", "created", "attached", "queue", "readqueue", "maskqueue",
           "ring", "ready", "removing", "detached", "cleaned"}

\* The mutants of this module: plausible slips in pair.c and device.c.
LockTakenOver(d) == None
DetachSide(d) == [s \in Side |-> IF s = HwSide[d] THEN None ELSE slot[s]]
NotReleased(d) == lock
KeyGone(d) == {}

Other(s) == IF s = "A" THEN "B" ELSE "A"

\* The peer PairAcquirePeer returns to d.
Peer(d) == IF side[d] = None THEN None ELSE slot[Other(side[d])]

\* The lock while a handler of d uses its peer.
Acquired(d) == d

Released(d) == None

\* Whether d, on side s, gets the slot of that side.
Attaches(d, s) == s # None /\ slot[s] = None

\* The pair table without d, whatever side d is on.
Detached(d) == [s \in Side |-> IF slot[s] = d THEN None ELSE slot[s]]

\* SERIALCOMM once d has removed its own value.
Unlisted(d) == listed \ {d}

Enter(d, p) == phase' = [phase EXCEPT ![d] = p]

Init ==
  /\ slot = [s \in Side |-> None] /\ lock = None
  /\ phase = [d \in Device |-> "absent"]
  /\ side = [d \in Device |-> None]
  /\ qctx = [d \in Device |-> FALSE]
  /\ built = [d \in Device |-> {}]
  /\ using = [d \in Device |-> None]
  /\ listed = {} /\ legacy = [d \in Device |-> FALSE]

-----------------------------------------------------------------------------
(* ChildEvtDeviceAdd *)

DeviceCreate(d) ==
  /\ phase[d] = "absent"
  /\ Enter(d, "created")
  /\ UNCHANGED <<slot, lock, context, using, names>>

\* The hardware ID may not be readable: no side then. Whatever PairAttachChild
\* returns, AddDevice goes on.
PairAttachChild(d) ==
  /\ phase[d] = "created" /\ lock = None
  /\ \E s \in {HwSide[d], None} :
       IF Attaches(d, s)
         THEN /\ slot' = [slot EXCEPT ![s] = d]
              /\ side' = [side EXCEPT ![d] = s]
         ELSE UNCHANGED <<slot, side>>
  /\ Enter(d, "attached")
  /\ UNCHANGED <<lock, qctx, built, using, names>>

\* DeviceConfigure before QueueCreate: the names, which no other device sees, and
\* the port's value in SERIALCOMM; when that fails it goes on without.
Configure(d) ==
  /\ phase[d] = "attached"
  /\ \/ /\ listed' = listed \cup {d}
        /\ legacy' = [legacy EXCEPT ![d] = TRUE]
     \/ d \in Refused /\ UNCHANGED names
  /\ Enter(d, "queue")
  /\ UNCHANGED <<slot, lock, context, using>>

\* QueueCreate: the default queue, and at once the pointer peers go by.
CreateDefaultQueue(d) ==
  /\ phase[d] = "queue"
  /\ qctx' = [qctx EXCEPT ![d] = TRUE]
  /\ Enter(d, "readqueue")
  /\ UNCHANGED <<slot, lock, side, built, using, names>>

CreateReadQueue(d) ==
  /\ phase[d] = "readqueue"
  /\ built' = [built EXCEPT ![d] = @ \cup {"ReadQueue"}]
  /\ Enter(d, "maskqueue")
  /\ UNCHANGED <<slot, lock, side, qctx, using, names>>

CreateWaitMaskQueue(d) ==
  /\ phase[d] = "maskqueue"
  /\ built' = [built EXCEPT ![d] = @ \cup {"WaitMaskQueue"}]
  /\ Enter(d, "ring")
  /\ UNCHANGED <<slot, lock, side, qctx, using, names>>

RingBufferInitialize(d) ==
  /\ phase[d] = "ring"
  /\ built' = [built EXCEPT ![d] = @ \cup {"RingBuffer"}]
  /\ Enter(d, "ready")
  /\ UNCHANGED <<slot, lock, side, qctx, using, names>>

\* A step of AddDevice fails: the framework deletes the device.
AddFails(d) ==
  /\ phase[d] \in {"attached", "queue", "readqueue", "maskqueue"}
  /\ Enter(d, "removing")
  /\ UNCHANGED <<slot, lock, context, using, names>>

-----------------------------------------------------------------------------
(* Removal *)

\* The framework removes a device whose handlers have returned.
Remove(d) ==
  /\ phase[d] = "ready" /\ lock # d
  /\ Enter(d, "removing")
  /\ UNCHANGED <<slot, lock, context, using, names>>

\* EvtDeviceCleanup: first the pair table.
PairDetachChild(d) ==
  /\ phase[d] = "removing" /\ lock = None
  /\ slot' = Detached(d)
  /\ Enter(d, "detached")
  /\ UNCHANGED <<lock, context, using, names>>

\* Then its own value in SERIALCOMM, if it wrote one, and the key itself with
\* whatever values it holds. It stops when the key does not open or the value is not
\* there.
RemoveLegacyHardwareKey(d) ==
  /\ phase[d] = "detached"
  /\ \/ legacy[d] /\ listed' = Unlisted(d)
     \/ legacy[d] /\ d \in listed /\ MayDelete /\ listed' = {}
     \/ (~legacy[d] \/ d \in Refused) /\ UNCHANGED listed
  /\ Enter(d, "cleaned")
  /\ UNCHANGED <<slot, lock, context, using, legacy>>

\* The framework frees the device, its context, its queues and theirs.
Free(d) ==
  /\ phase[d] = "cleaned"
  /\ Enter(d, "absent")
  /\ side' = [side EXCEPT ![d] = None]
  /\ qctx' = [qctx EXCEPT ![d] = FALSE]
  /\ built' = [built EXCEPT ![d] = {}]
  /\ legacy' = [legacy EXCEPT ![d] = FALSE]
  /\ UNCHANGED <<slot, lock, using, listed>>

-----------------------------------------------------------------------------
(* The handlers of a running port *)

\* A handler gets a peer that has a queue context; one that gets none releases
\* the lock and does without.
PairAcquirePeer(d) ==
  /\ phase[d] = "ready" /\ lock = None
  /\ Peer(d) # None /\ qctx[Peer(d)]
  /\ using' = [using EXCEPT ![d] = Peer(d)]
  /\ lock' = Acquired(d)
  /\ UNCHANGED <<slot, phase, context, names>>

PairReleasePeer(d) ==
  /\ using[d] # None
  /\ using' = [using EXCEPT ![d] = None]
  /\ lock' = Released(d)
  /\ UNCHANGED <<slot, phase, context, names>>

-----------------------------------------------------------------------------
AddDevice(d) ==
  \/ DeviceCreate(d) \/ PairAttachChild(d) \/ Configure(d)
  \/ CreateDefaultQueue(d) \/ CreateReadQueue(d) \/ CreateWaitMaskQueue(d)
  \/ RingBufferInitialize(d) \/ AddFails(d)

Cleanup(d) == PairDetachChild(d) \/ RemoveLegacyHardwareKey(d) \/ Free(d)

Handler(d) == PairAcquirePeer(d) \/ PairReleasePeer(d)

Next == \E d \in Device : AddDevice(d) \/ Remove(d) \/ Cleanup(d) \/ Handler(d)

Spec == Init /\ [][Next]_vars

\* A handler returns, and PairLock, a wait lock, is granted to who waits for it.
FairSpec == /\ Spec
            /\ \A d \in Device : WF_vars(PairReleasePeer(d)) /\ SF_vars(Cleanup(d))

-----------------------------------------------------------------------------
TypeOK ==
  /\ slot \in [Side -> Device \cup {None}]
  /\ lock \in Device \cup {None}
  /\ phase \in [Device -> Phases]
  /\ side \in [Device -> Side \cup {None}]
  /\ qctx \in [Device -> BOOLEAN]
  /\ built \in [Device -> SUBSET Parts]
  /\ using \in [Device -> Device \cup {None}]
  /\ listed \subseteq Device
  /\ legacy \in [Device -> BOOLEAN]

InTable(d) == \E s \in Side : slot[s] = d

\* A device that took a slot keeps it until its own cleanup, and one that did
\* not, a duplicate or an unreadable hardware ID, never takes another's away:
\* neither when it runs unpaired (device.c:86-92), nor when it is removed, nor
\* when its configuration fails halfway.
Table ==
  \A d \in Device : \A s \in Side :
    slot[s] = d <=> side[d] = s /\ phase[d] \notin Detaching

\* The peer a handler uses is in the pair table and its memory is there, though
\* its AddDevice may be failing and its removal under way (pair.c:150-154).
PeerMemory ==
  \A d \in Device :
    using[d] # None => /\ phase[using[d]] \notin {"absent", "detached", "cleaned"}
                       /\ InTable(using[d])

\* A port that put itself in SERIALCOMM, where applications look for it, is there as
\* long as it runs, whichever other port fails or is removed: as long as the
\* removal of the key (device.c:454) is refused, as a handle opened for
\* KEY_SET_VALUE has it.
Listed ==
  \A d \in Device : phase[d] = "ready" /\ legacy[d] => d \in listed

\* pair.h:99-102: with the lock, a peer and its QueueContext, "safe to touch
\* peer->QueueContext->RingBuffer here".
AccessReady ==
  \A d \in Device : using[d] # None => built[using[d]] = Parts

\* A device that fails or is removed frees its slot, so that a replacement can
\* attach, however busy its peer's handlers keep the lock (device.c:424-427).
SlotFreed == \A d \in Device : phase[d] = "removing" ~> ~InTable(d)

-----------------------------------------------------------------------------
Users == {d \in Device : using[d] # None}

Granted == INSTANCE PairTable WITH users <- Users

\* No slot changes hands while a handler uses its peer, and the peers are used
\* one at a time, however many devices are added, fail and are removed meanwhile
\* (pair.h:85-104): the same promise PortPair's callbacks keep.
TableSpec == Granted!Spec
=============================================================================
