------------------------- MODULE LinuxReaderProofs -------------------------
(***************************************************************************)
(* Proofs about LinuxReader, for any number of readers and scanners, any   *)
(* overlap of what they match, and any readers without an output. The      *)
(* three properties hold together with where the loops are: the start loop *)
(* is past every runner (Ordered), the stop loop has dealt with the        *)
(* runners before the current one (Stopped), a runner's scanner is read by *)
(* its thread unless that crashed (Read), and a scanner without a runner   *)
(* is that of the runner the variable r names (Kept).                      *)
(***************************************************************************)
EXTENDS LinuxReader, TLAPS

\* Nothing is left of a process that is gone.
Down == pc = "down" => /\ at = 1 /\ runners = {}
                       /\ \A d \in Device : grabbed[d] = None

\* A reader whose start is under way has a runner.
Ordered == /\ pc \in Starting => \A q \in runners : q < at
           /\ pc \in Starting \ {"resolve"} => at \notin NoOutput

\* The last reader before k for which a runner was made: the one r names.
LastBound(k) == {q \in Reader \ NoOutput :
                   q < k /\ \A p \in Reader : q < p /\ p < k => p \in NoOutput}

\* The reader that may have a scanner without being in the list, if any.
Stray == CASE pc = "resolve"                              -> LastBound(at)
           [] pc \in {"grab", "pty", "link", "symlink"}   -> {at}
           [] pc = "watch"                                -> LastMade
           [] OTHER                                       -> {}

Kept == pc # "exit" =>
          \A d \in Device : grabbed[d] \in runners \cup Stray \cup {None}

Read == \A d \in Device : grabbed[d] \in runners => grabbed[d] \in alive \cup crashed

Stopped ==
  /\ pc \in {"release", "unlink"} =>
       /\ at \in runners
       /\ \A q \in runners : q < at =>
            /\ link[q] = None \/ q \in left
            /\ \A d \in Device : grabbed[d] # q
  /\ pc = "unlink" => \A d \in Device : grabbed[d] # at

ReaderInv == /\ TypeOK /\ Down /\ Ordered /\ Kept /\ Read /\ Stopped
             /\ Reachable /\ CleanStop

\* Whom r names once reader k has been dealt with.
LEMMA BoundNext ==
  ASSUME NEW k \in Reader
  PROVE  /\ k \notin NoOutput => k \in LastBound(k + 1)
         /\ k \in NoOutput => LastBound(k) \subseteq LastBound(k + 1)
         /\ LastBound(N + 1) \subseteq LastMade
  <1> USE ReaderAssumption DEF Reader
  <1>1. k \notin NoOutput => k \in LastBound(k + 1)
    BY DEF LastBound
  <1>2. k \in NoOutput => LastBound(k) \subseteq LastBound(k + 1)
    BY DEF LastBound
  <1>3. LastBound(N + 1) \subseteq LastMade
    BY DEF LastBound, LastMade
  <1> QED  BY <1>1, <1>2, <1>3

LEMMA AfterStartStray ==
  ASSUME AfterStart, at \in Reader
  PROVE  /\ pc' \in {"resolve", "watch", "exit"} /\ at' \in Reader
         /\ pc' = "resolve" => at' = at + 1
         /\ pc' # "exit" => LastBound(at + 1) \subseteq Stray'
  <1> USE ReaderAssumption DEF Reader
  <1>1. CASE at < N
    <2>1. pc' = "resolve" /\ at' = at + 1
      BY <1>1 DEF AfterStart
    <2> QED  BY <1>1, <2>1 DEF Stray, LastBound
  <1>2. CASE ~(at < N)
    <2>1. at = N /\ pc' \in {"watch", "exit"} /\ at' = at
      BY <1>2 DEF AfterStart
    <2>2. Stray' = IF pc' = "watch" THEN LastMade ELSE {}
      BY <2>1 DEF Stray, LastMade
    <2> QED  BY <2>1, <2>2, BoundNext
  <1> QED  BY <1>1, <1>2

LEMMA ReaderInit == Init => ReaderInv
  <1> SUFFICES ASSUME Init PROVE ReaderInv
    OBVIOUS
  <1>1. 1 \in Reader
    BY ReaderAssumption DEF Reader
  <1>2. TypeOK
    BY <1>1 DEF Init, TypeOK, Starting
  <1>3. Down /\ Ordered /\ Stopped /\ Reachable /\ CleanStop
    BY DEF Init, Down, Ordered, Stopped, Reachable, CleanStop, Starting
  <1>4. Kept /\ Read
    BY ReaderAssumption DEF Init, Kept, Read, Stray
  <1> QED  BY <1>2, <1>3, <1>4 DEF ReaderInv

\* A process that ends leaves a state in which everything holds.
LEMMA GoneInv ==
  ASSUME TypeOK, Gone, present' \subseteq Device, wanted' \in BOOLEAN,
         link' \in [Reader -> Pty \cup {None}]
  PROVE  ReaderInv'
  <1>1. 1 \in Reader
    BY ReaderAssumption DEF Reader
  <1>2. TypeOK'
    BY <1>1 DEF Gone, TypeOK, Starting
  <1>3. (Down /\ Ordered /\ Stopped /\ Reachable /\ CleanStop)'
    BY DEF Gone, Down, Ordered, Stopped, Reachable, CleanStop, Starting
  <1>4. (Kept /\ Read)'
    BY ReaderAssumption DEF Gone, Kept, Read, Stray
  <1> QED  BY <1>2, <1>3, <1>4 DEF ReaderInv

LEMMA StartStep ==
  ASSUME ReaderInv, NEW r \in Reader, Start(r)
  PROVE  ReaderInv'
  <1> USE ReaderAssumption DEF ReaderInv, Reader
  <1>0. CASE NoRunner(r)
    <2>1. /\ pc = "resolve" /\ at = r /\ r \in NoOutput /\ AfterStart
          /\ UNCHANGED <<present, link, wanted, grabbed, owner, runners, alive, crashed, left, term>>
      BY <1>0 DEF NoRunner, outside, threads
    <2>2. Kept'
      BY <2>1, AfterStartStray, BoundNext DEF TypeOK, Kept, Stray
    <2> QED  BY <2>1, <2>2, AfterStartStray DEF AfterStart, TypeOK, Down, Ordered, Read,
               Stopped, Reachable, CleanStop, Starting
  <1>1. CASE Resolve(r)
    <2>1. /\ pc = "resolve" /\ at = r /\ r \notin NoOutput
          /\ runners' = runners /\ grabbed' = Rebound
          /\ UNCHANGED <<present, link, wanted, owner, alive, crashed, left, term>>
      BY <1>1 DEF Resolve, outside, threads
    <2>2. \A d \in Device : /\ grabbed'[d] \in runners \cup {None}
                            /\ grabbed'[d] \in runners => grabbed'[d] = grabbed[d]
      BY <2>1 DEF Rebound, TypeOK
    <2>3. grabbed' \in [Device -> Reader \cup {None}]
      BY <2>1 DEF Rebound, TypeOK
    <2>4. Read'
      BY <2>1, <2>2 DEF Read
    <2>5. CASE present \cap Matches[r] = {}
      <3>1. AfterStart
        BY <1>1, <2>5 DEF Resolve
      <3> QED  BY <2>1, <2>2, <2>3, <2>4, <3>1 DEF AfterStart, TypeOK, Down, Ordered, Kept,
                 Stopped, Reachable, CleanStop, Starting
    <2>6. CASE present \cap Matches[r] # {}
      <3>1. path' \in present \cap Matches[r] /\ pc' = "grab" /\ at' = at
        BY <1>1, <2>6 DEF Resolve
      <3> QED  BY <2>1, <2>2, <2>3, <2>4, <3>1 DEF TypeOK, Down, Ordered, Kept, Stopped,
                 Reachable, CleanStop, Starting
    <2> QED  BY <2>5, <2>6
  <1>2. CASE Grab(r)
    BY <1>2 DEF Grab, outside, threads, TypeOK, Down, Ordered, Kept, Read, Stray, Stopped,
         Reachable, CleanStop, Starting
  <1>3. CASE OpenPty(r)
    <2>1. PICK x \in Pty : owner[x] = None /\ owner' = [owner EXCEPT ![x] = r]
      BY <1>3 DEF OpenPty
    <2>2. Reachable'
      BY <1>3, <2>1 DEF OpenPty, outside, TypeOK, Reachable, Starting
    <2> QED  BY <1>3, <2>1, <2>2 DEF OpenPty, outside, threads, TypeOK, Down, Ordered, Kept,
               Read, Stray, Stopped, CleanStop, Starting
  <1>4. CASE Unlink(r)
    <2>1. link' \in [Reader -> Pty \cup {None}] /\ \A q \in Reader \ {r} : link'[q] = link[q]
      BY <1>4 DEF Unlink, Unlinked, TypeOK
    <2> QED  BY <1>4, <2>1 DEF Unlink, process, threads, TypeOK, Down, Ordered, Kept, Read,
               Stray, Stopped, Reachable, CleanStop, Starting
  <1>5. CASE Symlink(r)
    <2>1. PICK x \in Pty : owner[x] = r /\ link' = [link EXCEPT ![r] = x]
      BY <1>5 DEF Symlink
    <2>2. Reachable'
      BY <1>5, <2>1 DEF Symlink, TypeOK, Reachable, Starting, Pty
    <2>3. /\ pc = "symlink" /\ at = r /\ AfterStart
          /\ alive' = alive \cup {r} /\ runners' = runners \cup {r}
          /\ UNCHANGED <<present, wanted, grabbed, owner, crashed, left, term>>
      BY <1>5 DEF Symlink
    <2>4. Kept'
      BY <2>3 DEF TypeOK, Kept, Stray
    <2>5. Read'
      BY <2>3 DEF TypeOK, Read
    <2> QED  BY <2>1, <2>2, <2>3, <2>4, <2>5, AfterStartStray DEF AfterStart, TypeOK, Down,
               Ordered, Stopped, CleanStop, Starting
  <1>6. CASE StartFails(r)
    <2>1. /\ pc \in {"grab", "pty", "link", "symlink"} /\ at = r /\ AfterStart
          /\ UNCHANGED <<present, link, wanted, grabbed, owner, runners, alive, crashed, left, term>>
      BY <1>6 DEF StartFails, outside, threads
    <2>2. Kept'
      BY <2>1, AfterStartStray, BoundNext DEF TypeOK, Kept, Ordered, Stray, Starting
    <2> QED  BY <2>1, <2>2, AfterStartStray DEF AfterStart, TypeOK, Down, Ordered, Read,
               Stopped, Reachable, CleanStop, Starting
  <1> QED  BY <1>0, <1>1, <1>2, <1>3, <1>4, <1>5, <1>6 DEF Start

LEMMA StopStep ==
  ASSUME ReaderInv,
         WatchStop \/ WatchExit \/ Exit
           \/ \E r \in Reader : StopRelease(r) \/ StopUnlink(r)
  PROVE  ReaderInv'
  <1> USE ReaderAssumption DEF ReaderInv, Reader
  <1>1. CASE WatchStop
    <2>1. /\ pc = "watch" /\ grabbed' = Rebound /\ Release(0)
          /\ UNCHANGED <<present, link, wanted, owner, runners, alive, crashed, left, term, path>>
      BY <1>1 DEF WatchStop, outside, threads
    <2>2. /\ grabbed' \in [Device -> Reader \cup {None}]
          /\ \A d \in Device : /\ grabbed'[d] \in runners \cup {None}
                               /\ grabbed'[d] \in runners => grabbed'[d] = grabbed[d]
      BY <2>1 DEF Rebound, TypeOK
    <2>3. pc' = "stopped" => runners = {}
      BY <2>1 DEF Release, TypeOK
    <2> QED  BY <2>1, <2>2, <2>3 DEF Release, TypeOK, Down, Ordered, Kept, Read, Stray,
               Stopped, Reachable, CleanStop, Starting
  <1>2. CASE WatchExit
    BY <1>2 DEF WatchExit, AnyAlive, outside, process, threads, TypeOK, Down, Ordered, Kept, Read,
         Stray, Stopped, Reachable, CleanStop, Starting
  <1>3. CASE Exit
    BY <1>3, GoneInv DEF Exit, outside, TypeOK
  <1>4. ASSUME NEW r \in Reader, StopRelease(r) PROVE ReaderInv'
    BY <1>4 DEF StopRelease, outside, threads, TypeOK, Down, Ordered, Kept, Read, Stray,
         Stopped, Reachable, CleanStop, Starting
  <1>5. ASSUME NEW r \in Reader, StopUnlink(r) PROVE ReaderInv'
    <2>1. /\ pc = "unlink" /\ at = r /\ Release(r)
          /\ UNCHANGED <<present, wanted, grabbed, owner, runners, alive, crashed, term, path>>
      BY <1>5 DEF StopUnlink, threads
    <2>2. /\ link' \in [Reader -> Pty \cup {None}]
          /\ link'[r] = None \/ r \in left'
          /\ \A q \in Reader \ {r} : link'[q] = link[q]
          /\ left \subseteq left' /\ left' \subseteq left \cup {r}
      BY <1>5 DEF StopUnlink, Unlinked, InTheWay, TypeOK
    <2>3. /\ left' \subseteq runners
          /\ \A q \in runners : q <= r => /\ link'[q] = None \/ q \in left'
                                         /\ \A d \in Device : grabbed[d] # q
      BY <2>1, <2>2 DEF Stopped, TypeOK
    <2>4. \A d \in Device : grabbed[d] \in runners \cup {None}
      BY <2>1 DEF Kept, Stray
    <2>5. CASE pc' = "stopped"
      <3>1. at' = at /\ \A q \in runners : q <= r
        BY <2>1, <2>5 DEF Release
      <3>2. CleanStop'
        <4>1. \A q \in runners : link'[q] = None \/ q \in left'
          BY <2>3, <3>1
        <4>2. \A d \in Device : grabbed[d] = None
          BY <2>3, <2>4, <3>1
        <4> QED  BY <2>1, <4>1, <4>2 DEF CleanStop
      <3>3. TypeOK'
        BY <2>1, <2>2, <2>3, <2>5, <3>1 DEF TypeOK, Starting
      <3> QED  BY <2>1, <2>4, <2>5, <3>2, <3>3 DEF Down, Ordered, Kept, Read, Stopped,
                 Reachable, Starting
    <2>6. CASE pc' = "release"
      <3>1. PICK s \in runners : /\ s > r /\ \A q \in runners : q > r => s <= q
                                /\ at' = s
        BY <2>1, <2>6 DEF Release
      <3>2. \A q \in runners : q < s => q <= r
        BY <3>1 DEF TypeOK
      <3>3. Stopped'
        BY <2>1, <2>3, <2>6, <3>1, <3>2 DEF Stopped
      <3>4. TypeOK'
        BY <2>1, <2>2, <2>3, <2>6, <3>1 DEF TypeOK, Starting
      <3> QED  BY <2>1, <2>4, <2>6, <3>3, <3>4 DEF Down, Ordered, Kept, Read, Stray,
                 Reachable, CleanStop, Starting
    <2> QED  BY <2>1, <2>5, <2>6 DEF Release
  <1> QED  BY <1>1, <1>2, <1>3, <1>4, <1>5

LEMMA OutsideStep ==
  ASSUME ReaderInv, Outside \/ \E r \in Reader : ThreadDies(r) \/ LoopCrashes(r)
  PROVE  ReaderInv'
  <1> USE ReaderAssumption DEF ReaderInv, Reader
  <1>1. ASSUME NEW r \in Reader, ThreadDies(r) PROVE ReaderInv'
    BY <1>1 DEF ThreadDies, outside, TypeOK, Down, Ordered, Kept, Read, Stray, Stopped,
         Reachable, CleanStop, Starting
  <1>0. ASSUME NEW r \in Reader, LoopCrashes(r) PROVE ReaderInv'
    BY <1>0 DEF LoopCrashes, outside, TypeOK, Down, Ordered, Kept, Read, Stray, Stopped,
         Reachable, CleanStop, Starting
  <1>2. ASSUME NEW d \in Device, Plug(d) PROVE ReaderInv'
    BY <1>2 DEF Plug, process, threads, TypeOK, Down, Ordered, Kept, Read, Stray, Stopped,
         Reachable, CleanStop, Starting
  <1>3. ASSUME NEW d \in Device, Unplug(d) PROVE ReaderInv'
    BY <1>3 DEF Unplug, threads, TypeOK, Down, Ordered, Kept, Read, Stray, Stopped,
         Reachable, CleanStop, Starting
  <1>4. CASE Restart
    BY <1>4 DEF Restart, Running, outside, process, threads, TypeOK, Down, Ordered, Kept,
         Read, Stray, Stopped, Reachable, CleanStop, Starting
  <1>5. CASE StopService
    <2>1. CASE pc \in Starting
      BY <1>5, <2>1, GoneInv DEF StopService, TypeOK
    <2>2. CASE pc \notin Starting
      <3>1. /\ term' = TRUE /\ wanted' = FALSE
            /\ UNCHANGED <<present, link, grabbed, owner, runners, alive, crashed, left, pc, at, path>>
        BY <1>5, <2>2 DEF StopService, threads
      <3>2. TypeOK'
        BY <3>1 DEF TypeOK
      <3> QED  BY <3>1, <3>2 DEF Down, Ordered, Kept, Read, Stray, Stopped,
                 Reachable, CleanStop
    <2> QED  BY <2>1, <2>2
  <1>6. CASE StartService
    BY <1>6 DEF StartService, process, threads, TypeOK, Down, Ordered, Kept, Read, Stray,
         Stopped, Reachable, CleanStop, Starting
  <1>7. CASE Kill
    BY <1>7, GoneInv DEF Kill, outside, TypeOK
  <1> QED  BY <1>0, <1>1, <1>2, <1>3, <1>4, <1>5, <1>6, <1>7 DEF Outside

LEMMA ReaderStep == ReaderInv /\ [Next]_vars => ReaderInv'
  <1> SUFFICES ASSUME ReaderInv, [Next]_vars PROVE ReaderInv'
    OBVIOUS
  <1>1. CASE Main
    BY <1>1, StartStep, StopStep DEF Main
  <1>2. CASE Outside \/ \E r \in Reader : ThreadDies(r) \/ LoopCrashes(r)
    BY <1>2, OutsideStep
  <1>3. CASE UNCHANGED vars
    BY <1>3 DEF vars, outside, process, threads, ReaderInv, TypeOK, Down, Ordered, Kept,
         Read, Stray, Stopped, Reachable, CleanStop
  <1> QED  BY <1>1, <1>2, <1>3 DEF Next

LEMMA ReaderAlways == Spec => []ReaderInv
  BY ReaderInit, ReaderStep, PTL DEF Spec

\* cli.py and linux.py: a reader that runs can be read at its own path, whatever
\* was left there and whichever other starts fail.
THEOREM ReaderReachable == Spec => []Reachable
  BY ReaderAlways, PTL DEF ReaderInv

\* cli.py:81-87, linux.py:276-282: whichever starts fail, threads crash and readers
\* have no output, a scanner that is grabbed while the daemon serves is read, or the
\* thread that read it has crashed, or it is that of the last runner made.
THEOREM ReaderIdleGrab == Spec => []IdleGrab
  <1>1. ReaderInv => IdleGrab
    BY DEF ReaderInv, Kept, Read, Stray, IdleGrab
  <1> QED  BY ReaderAlways, <1>1, PTL

\* cli.py:111-118: a shutdown that reaches the stop loop leaves no symlink of a
\* reader that ran but those the system refused to remove (linux.py:228), and no
\* scanner grabbed.
THEOREM ReaderCleanStop == Spec => []CleanStop
  BY ReaderAlways, PTL DEF ReaderInv
=============================================================================
