----------------------- MODULE DeviceLifecycleProofs -----------------------
(***************************************************************************)
(* Proofs about DeviceLifecycle, for any number of devices. Table alone is *)
(* not inductive: a device has no side before it attaches (Sideless), and  *)
(* who uses a peer holds the lock (Owner), so that a detach, which waits   *)
(* for the lock, finds no handler inside.                                  *)
(***************************************************************************)
EXTENDS DeviceLifecycle, TLAPS

Sideless == \A d \in Device : phase[d] \in {"absent", "created"} => side[d] = None

Owner == \A d \in Device : using[d] # None => lock = d

\* From the write of its value to the end of its cleanup.
Announced ==
  ~MayDelete => \A d \in Device : legacy[d] /\ phase[d] # "cleaned" => d \in listed

LifeInv == TypeOK /\ Sideless /\ Owner /\ Table /\ PeerMemory /\ Announced

LEMMA LifeInit == Init => LifeInv
  BY DeviceAssumption DEF Init, LifeInv, TypeOK, Sideless, Owner, Table, PeerMemory,
       Announced, Phases, Detaching

LEMMA LifeStep == LifeInv /\ [Next]_vars => LifeInv'
  <1> SUFFICES ASSUME LifeInv, [Next]_vars PROVE LifeInv'
    OBVIOUS
  <1> USE DeviceAssumption DEF LifeInv, Detaching, names
  <1>1. ASSUME NEW d \in Device, DeviceCreate(d) PROVE LifeInv'
    BY <1>1 DEF DeviceCreate, Enter, context, TypeOK, Phases, Sideless, Owner, Table,
         PeerMemory, InTable, Announced
  <1>2. ASSUME NEW d \in Device, PairAttachChild(d) PROVE LifeInv'
    <2>1. PICK s \in {HwSide[d], None} :
            IF Attaches(d, s)
              THEN slot' = [slot EXCEPT ![s] = d] /\ side' = [side EXCEPT ![d] = s]
              ELSE UNCHANGED <<slot, side>>
      BY <1>2 DEF PairAttachChild
    <2>2. s \in Side \cup {None} /\ (Attaches(d, s) => s \in Side /\ slot[s] = None)
      BY DEF Attaches
    <2>3. side[d] = None /\ \A t \in Side : slot[t] # d
      BY <1>2 DEF PairAttachChild, Sideless, Table, TypeOK
    <2>4. lock = None /\ lock' = None /\ using' = using
          /\ phase' = [phase EXCEPT ![d] = "attached"]
      BY <1>2 DEF PairAttachChild, Enter
    <2>5. \A e \in Device : using[e] = None
      BY <2>4 DEF Owner
    <2>6. TypeOK' /\ Sideless' /\ Owner' /\ PeerMemory' /\ Announced'
      BY <1>2, <2>1, <2>2, <2>4, <2>5 DEF PairAttachChild, TypeOK, Phases, Sideless,
           Owner, PeerMemory, Announced
    <2>7. Table'
      <3> SUFFICES ASSUME NEW e \in Device, NEW t \in Side
                   PROVE  slot'[t] = e <=> side'[e] = t /\ phase'[e] \notin Detaching
        BY DEF Table
      <3>1. CASE Attaches(d, s)
        BY <2>1, <2>2, <2>3, <2>4, <3>1 DEF Table, TypeOK
      <3>2. CASE ~Attaches(d, s)
        BY <2>1, <2>3, <2>4, <3>2 DEF Table, TypeOK
      <3> QED BY <3>1, <3>2
    <2> QED BY <2>6, <2>7
  <1>3. ASSUME NEW d \in Device, Configure(d) PROVE LifeInv'
    <2>1. /\ phase[d] = "attached" /\ phase' = [phase EXCEPT ![d] = "queue"]
          /\ UNCHANGED <<slot, lock, side, qctx, built, using>>
          /\ \/ listed' = listed \cup {d} /\ legacy' = [legacy EXCEPT ![d] = TRUE]
             \/ listed' = listed /\ legacy' = legacy
      BY <1>3 DEF Configure, Enter, context
    <2>a. phase' \in [Device -> Phases]
      BY <2>1 DEF TypeOK, Phases
    <2>b. listed' \subseteq Device /\ legacy' \in [Device -> BOOLEAN]
      BY <2>1 DEF TypeOK
    <2>c. TypeOK'
      BY <2>1, <2>a, <2>b DEF TypeOK
    <2>2. Sideless' /\ Owner' /\ Table'
      BY <2>1 DEF TypeOK, Sideless, Owner, Table
    <2>3. PeerMemory' /\ Announced'
      BY <2>1 DEF TypeOK, PeerMemory, InTable, Announced
    <2> QED BY <2>c, <2>2, <2>3
  <1>4. ASSUME NEW d \in Device,
               \/ CreateDefaultQueue(d) \/ CreateReadQueue(d)
               \/ CreateWaitMaskQueue(d) \/ RingBufferInitialize(d)
        PROVE  LifeInv'
    <2>1. /\ phase[d] \in {"queue", "readqueue", "maskqueue", "ring"}
          /\ \E q \in {"readqueue", "maskqueue", "ring", "ready"} :
               phase' = [phase EXCEPT ![d] = q]
          /\ UNCHANGED <<slot, lock, side, using, listed, legacy>>
      BY <1>4 DEF CreateDefaultQueue, CreateReadQueue, CreateWaitMaskQueue,
           RingBufferInitialize, Enter
    <2>2. qctx' \in [Device -> BOOLEAN]
      BY <1>4 DEF CreateDefaultQueue, CreateReadQueue, CreateWaitMaskQueue,
           RingBufferInitialize, TypeOK
    <2>3. built' = built \/ \E x \in Parts : built' = [built EXCEPT ![d] = @ \cup {x}]
      BY <1>4 DEF CreateDefaultQueue, CreateReadQueue, CreateWaitMaskQueue,
           RingBufferInitialize, Parts
    <2>4. built' \in [Device -> SUBSET Parts]
      BY <2>3 DEF TypeOK
    <2>a. phase' \in [Device -> Phases]
      BY <2>1 DEF TypeOK, Phases
    <2>5. TypeOK'
      BY <2>1, <2>2, <2>4, <2>a DEF TypeOK
    <2>6. Sideless' /\ Owner' /\ Table' /\ Announced'
      BY <2>1 DEF TypeOK, Sideless, Owner, Table, Announced
    <2>7. PeerMemory'
      BY <2>1 DEF TypeOK, PeerMemory, InTable
    <2> QED
      BY <2>5, <2>6, <2>7
  <1>5. ASSUME NEW d \in Device, AddFails(d) \/ Remove(d) PROVE LifeInv'
    BY <1>5 DEF AddFails, Remove, Enter, context, TypeOK, Phases, Sideless, Owner,
         Table, PeerMemory, InTable, Announced
  <1>6. ASSUME NEW d \in Device, PairDetachChild(d) PROVE LifeInv'
    <2>1. \A e \in Device : using[e] = None
      BY <1>6 DEF PairDetachChild, Owner
    <2> QED
      BY <1>6, <2>1 DEF PairDetachChild, Detached, Enter, context, TypeOK, Phases,
           Sideless, Owner, Table, PeerMemory, Announced
  <1>7. ASSUME NEW d \in Device, Free(d) PROVE LifeInv'
    BY <1>7 DEF Free, Enter, TypeOK, Phases, Sideless, Owner, Table, PeerMemory,
         InTable, Announced
  <1>8. ASSUME NEW d \in Device, PairAcquirePeer(d) PROVE LifeInv'
    <2>1. Peer(d) \in Device /\ \E t \in Side : slot[t] = Peer(d)
      BY <1>8 DEF PairAcquirePeer, Peer, TypeOK, Other, Side
    <2>2. phase[Peer(d)] \notin {"absent", "cleaned"}
      BY <2>1 DEF Table, Sideless
    <2>3. \A e \in Device : using[e] = None
      BY <1>8 DEF PairAcquirePeer, Owner
    <2> QED
      BY <1>8, <2>1, <2>2, <2>3 DEF PairAcquirePeer, Acquired, context, TypeOK,
           Sideless, Owner, Table, PeerMemory, InTable, Announced
  <1>9. ASSUME NEW d \in Device, PairReleasePeer(d) PROVE LifeInv'
    <2>1. \A e \in Device : e # d => using[e] = None
      BY <1>9 DEF PairReleasePeer, Owner
    <2> QED
      BY <1>9, <2>1 DEF PairReleasePeer, Released, context, TypeOK, Sideless, Owner,
           Table, PeerMemory, InTable, Announced
  <1>10. CASE UNCHANGED vars
    BY <1>10 DEF vars, context, TypeOK, Sideless, Owner, Table, PeerMemory, InTable,
         Announced
  <1>11. ASSUME NEW d \in Device, RemoveLegacyHardwareKey(d) PROVE LifeInv'
    <2>1. /\ phase[d] = "detached" /\ phase' = [phase EXCEPT ![d] = "cleaned"]
          /\ UNCHANGED <<slot, lock, side, qctx, built, using, legacy>>
          /\ listed' \subseteq listed
          /\ ~MayDelete => listed \ {d} \subseteq listed'
      BY <1>11 DEF RemoveLegacyHardwareKey, Unlisted, Enter, context
    <2>2. TypeOK' /\ Sideless' /\ Owner' /\ Table'
      BY <2>1 DEF TypeOK, Phases, Sideless, Owner, Table
    <2>3. PeerMemory' /\ Announced'
      BY <2>1 DEF TypeOK, PeerMemory, InTable, Announced
    <2> QED BY <2>2, <2>3
  <1> QED
    BY <1>1, <1>2, <1>3, <1>4, <1>5, <1>6, <1>7, <1>8, <1>9, <1>10, <1>11
      DEF Next, AddDevice, Cleanup, Handler

LEMMA LifeAlways == Spec => []LifeInv
  BY LifeInit, LifeStep, PTL DEF Spec

\* A device leaves and enters the pair table by its own attach and cleanup only,
\* whatever its duplicates do (PairAttachChild, PairDetachChild).
THEOREM DeviceTable == Spec => [](TypeOK /\ Table)
  <1>1. LifeInv => TypeOK /\ Table
    BY DEF LifeInv
  <1> QED BY <1>1, LifeAlways, PTL

\* PairLock keeps a peer in use from being torn down, for any number of devices
\* being added, failing and being removed at the same time.
THEOREM DevicePeerMemory == Spec => []PeerMemory
  <1>1. LifeInv => PeerMemory
    BY DEF LifeInv
  <1> QED BY <1>1, LifeAlways, PTL

\* Where the key cannot be deleted with the rights it was opened with, no other port's
\* failure or removal takes a running port out of SERIALCOMM (EvtDeviceCleanup).
THEOREM DeviceListed == ASSUME ~MayDelete PROVE Spec => []Listed
  <1>1. LifeInv => Listed
    BY ~MayDelete DEF LifeInv, Announced, Listed
  <1> QED BY <1>1, LifeAlways, PTL

-----------------------------------------------------------------------------
(* The pair table: DeviceLifecycle implements PairTable *)

\* Who uses a peer has the lock, so nobody does when the lock is free.
LEMMA LifeUsers ==
  ASSUME LifeInv
  PROVE  /\ lock = None => Users = {}
         /\ \A d \in Device : using[d] # None => Users = {d}
  BY DeviceAssumption DEF LifeInv, Owner, Users

LEMMA LifeTableStep == LifeInv /\ [Next]_vars => [Granted!Next]_(Granted!vars)
  <1> SUFFICES ASSUME LifeInv, [Next]_vars
               PROVE  Granted!Next \/ UNCHANGED <<slot, Users>>
    BY DEF Granted!vars
  <1>1. CASE UNCHANGED <<slot, using>>
    BY <1>1 DEF Users
  <1>2. ASSUME NEW d \in Device, PairAttachChild(d)
        PROVE  Granted!Next \/ UNCHANGED <<slot, Users>>
    <2>1. PICK s \in {HwSide[d], None} :
            IF Attaches(d, s) THEN slot' = [slot EXCEPT ![s] = d] ELSE UNCHANGED slot
      BY <1>2 DEF PairAttachChild
    <2>2. Users = {} /\ Users' = Users
      BY <1>2, LifeUsers DEF PairAttachChild, Users
    <2>3. CASE Attaches(d, s)
      <3>1. s \in Granted!Side /\ slot[s] = None /\ slot' = [slot EXCEPT ![s] = d]
        BY <2>1, <2>3, DeviceAssumption DEF Attaches, Granted!Side, Side
      <3>2. \A t \in Side : slot[t] # d
        BY <1>2, DeviceAssumption DEF PairAttachChild, LifeInv, Sideless, Table
      <3>3. Granted!Attach(s, d)
        BY <2>2, <3>1, <3>2 DEF Granted!Attach, Granted!Side, Side
      <3> QED
        BY <3>1, <3>3 DEF Granted!Next
    <2> QED
      BY <2>1, <2>2, <2>3
  <1>3. ASSUME NEW d \in Device, PairDetachChild(d)
        PROVE  Granted!Next \/ UNCHANGED <<slot, Users>>
    <2>1. Users = {} /\ Users' = Users
      BY <1>3, LifeUsers DEF PairDetachChild, Users
    <2>2. slot' = Detached(d) /\ slot \in [Side -> Device \cup {None}]
      BY <1>3 DEF PairDetachChild, LifeInv, TypeOK
    <2>3. CASE \A s \in Side : slot[s] # d
      BY <2>1, <2>2, <2>3 DEF Detached
    <2>4. ASSUME NEW s \in Side, slot[s] = d PROVE Granted!Next
      <3>1. \A t \in Side : slot[t] = d => t = s
        BY <2>4 DEF LifeInv, Table
      <3>2. slot' = [slot EXCEPT ![s] = None]
        BY <2>2, <2>4, <3>1 DEF Detached
      <3>3. Granted!Detach(s) /\ s \in Granted!Side
        BY <2>1, <2>4, <3>2, DeviceAssumption DEF Granted!Detach, Granted!Side, Side
      <3> QED
        BY <3>3 DEF Granted!Next
    <2> QED
      BY <2>3, <2>4
  <1>4. ASSUME NEW d \in Device, PairAcquirePeer(d) PROVE Granted!Next
    <2>1. /\ using' = [using EXCEPT ![d] = Peer(d)] /\ slot' = slot
          /\ Users = {} /\ Peer(d) # None /\ phase[d] = "ready"
      BY <1>4, LifeUsers DEF PairAcquirePeer
    <2>2. /\ side[d] \in Side /\ slot[side[d]] = d
          /\ Peer(d) = slot[Other(side[d])] /\ slot[Other(side[d])] # None
      BY <2>1 DEF Peer, LifeInv, TypeOK, Table, Detaching
    <2>3. Users' = {d}
      BY <2>1 DEF Users, LifeInv, TypeOK
    <2>4. Granted!Acquire(side[d]) /\ side[d] \in Granted!Side
      BY <2>1, <2>2, <2>3, DeviceAssumption
         DEF Granted!Acquire, Granted!Side, Granted!Other, Side, Other
    <2> QED
      BY <2>4 DEF Granted!Next
  <1>5. ASSUME NEW d \in Device, PairReleasePeer(d) PROVE Granted!Next
    <2>1. using' = [using EXCEPT ![d] = None] /\ slot' = slot /\ Users = {d}
      BY <1>5, LifeUsers DEF PairReleasePeer
    <2>2. Users' = {}
      BY <2>1 DEF Users, LifeInv, TypeOK
    <2> QED
      BY <2>1, <2>2 DEF Granted!Next, Granted!Release
  <1> QED
    BY <1>1, <1>2, <1>3, <1>4, <1>5
       DEF Next, AddDevice, Cleanup, Handler, DeviceCreate, Configure, CreateDefaultQueue,
           CreateReadQueue, CreateWaitMaskQueue, RingBufferInitialize, AddFails, Remove,
           RemoveLegacyHardwareKey, Free, vars, context

\* TableSpec: the device lifecycle and the handlers' use of their peers meet in the
\* pair table as PairTable says, for any number of devices (pair.c, device.c:405-430).
THEOREM DeviceIsTable == Spec => TableSpec
  <1>1. Init => Granted!Init
    BY DEF Init, Granted!Init, Granted!Side, Side, Users
  <1> QED
    BY <1>1, LifeTableStep, LifeAlways, PTL DEF Spec, TableSpec, Granted!Spec
=============================================================================
