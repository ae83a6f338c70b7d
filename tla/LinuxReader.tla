---------------------------- MODULE LinuxReader ----------------------------
(***************************************************************************)
(* The Linux daemon (hid2serial run): cli.py's start loop, watchdog and    *)
(* shutdown over the ReaderRunners of linux.py, beside their threads, the  *)
(* scanners that come and go, and systemd, which starts the process again. *)
(*                                                                         *)
(* A reader is its place in the configuration; each has a symlink of its   *)
(* own. The process's memory, grabs and ptys end with it; symlinks stay. A *)
(* link names a pty by number, and the kernel gives numbers out again,     *)
(* the lowest free one first. What a thread does with a key is not here.   *)
(***************************************************************************)
EXTENDS Integers

CONSTANTS
  N,        \* readers configured
  Device,   \* scanners
  Matches,  \* the scanners each reader's "match" accepts
  NoOutput, \* the readers that have no "linux" output, which core.py:85 allows
  None      \* no reader, no scanner, no pty

Reader == 1..N
Pty    == 0..N-1   \* one process opens at most one per reader

ASSUME ReaderAssumption == /\ N \in Nat \ {0}
                           /\ Matches \in [Reader -> SUBSET Device]
                           /\ NoOutput \subseteq Reader
                           /\ None \notin Reader \cup Device \cup Pty

VARIABLES
  present,   \* scanners connected
  grabbed,   \* the reader whose open, grabbed descriptor each one has
  owner,     \* the reader that opened each pty that is open
  link,      \* the pty each reader's symlink names, or None: no symlink
  pc, at,    \* the main thread: its next step, for which reader
  path,      \* what resolve_device returned
  runners,   \* readers whose start returned
  alive,     \* readers whose thread runs
  crashed,   \* history: readers whose thread has crashed
  left,      \* history: readers whose symlink stop could not remove
  term,      \* the stop event is set
  wanted     \* systemd is to keep the service running

outside == <<present, link, wanted>>
threads == <<alive, crashed>>
process == <<grabbed, owner, runners, threads, left, term>>
vars    == <<outside, process, pc, at, path>>

\* The mutants of this module: plausible slips in linux.py and cli.py.
PathExists(r) == link[r] # None /\ owner[link[r]] # None
KeptByList == grabbed
AnyStarted == runners # {}
UnlinksAll(r) == [q \in Reader |-> None]

\* os.path.islink: a symlink is there, dangling or not.
InTheWay(r) == link[r] # None

Unlinked(r) == IF InTheWay(r) THEN [link EXCEPT ![r] = None] ELSE link

\* The runner whose start failed is dropped when another one takes its place
\* in the variable r (cli.py:83, 113), and its descriptor is closed with it. The pty
\* is a bare number, and stays open.
Rebound == [d \in Device |-> IF grabbed[d] \in runners THEN grabbed[d] ELSE None]

Running == pc # "down"
Starting == {"resolve", "grab", "pty", "link", "symlink"}

Init ==
  /\ present \in SUBSET Device
  /\ grabbed = [d \in Device |-> None]
  /\ owner = [x \in Pty |-> None]
  /\ link = [r \in Reader |-> None]
  /\ pc = "down" /\ at = 1 /\ path = None
  /\ runners = {} /\ alive = {} /\ crashed = {} /\ left = {}
  /\ term = FALSE /\ wanted = TRUE

\* The process is gone, and what it had open.
Gone ==
  /\ grabbed' = [d \in Device |-> None]
  /\ owner' = [x \in Pty |-> None]
  /\ runners' = {} /\ alive' = {} /\ crashed' = {} /\ left' = {} /\ term' = FALSE
  /\ pc' = "down" /\ at' = 1 /\ path' = None

\* On to the next reader of the configuration, or to the watchdog; with no
\* reader started the process exits.
AfterStart ==
  /\ path' = None
  /\ IF at < N
       THEN pc' = "resolve" /\ at' = at + 1
       ELSE pc' = (IF runners' = {} THEN "exit" ELSE "watch") /\ UNCHANGED at

-----------------------------------------------------------------------------
(* ReaderRunner.start, for reader r *)

\* The constructor raises, before r is another runner: one whose start failed
\* keeps its place in r, and its scanner.
NoRunner(r) ==
  /\ pc = "resolve" /\ at = r
  /\ r \in NoOutput
  /\ UNCHANGED runners
  /\ AfterStart
  /\ UNCHANGED <<outside, grabbed, owner, threads, left, term>>

\* No scanner: start raises, and run goes on with the next reader.
Resolve(r) ==
  /\ pc = "resolve" /\ at = r
  /\ r \notin NoOutput
  /\ grabbed' = Rebound
  /\ UNCHANGED runners
  /\ IF present \cap Matches[r] = {}
       THEN AfterStart
       ELSE path' \in present \cap Matches[r] /\ pc' = "grab" /\ UNCHANGED at
  /\ UNCHANGED <<outside, owner, threads, left, term>>

Grab(r) ==
  /\ pc = "grab" /\ at = r
  /\ path \in present /\ grabbed[path] = None
  /\ grabbed' = [grabbed EXCEPT ![path] = r]
  /\ pc' = "pty"
  /\ UNCHANGED <<outside, owner, runners, threads, left, term, at, path>>

\* The slave is closed at once, the master kept.
OpenPty(r) ==
  /\ pc = "pty" /\ at = r
  /\ \E x \in Pty : /\ owner[x] = None
                    /\ \A y \in 0..x-1 : owner[y] # None
                    /\ owner' = [owner EXCEPT ![x] = r]
  /\ pc' = "link"
  /\ UNCHANGED <<outside, grabbed, runners, threads, left, term, at, path>>

Unlink(r) ==
  /\ pc = "link" /\ at = r
  /\ link' = Unlinked(r)
  /\ pc' = "symlink"
  /\ UNCHANGED <<present, wanted, process, at, path>>

\* The link, then the thread; run appends the runner.
Symlink(r) ==
  /\ pc = "symlink" /\ at = r
  /\ link[r] = None
  /\ \E x \in Pty : owner[x] = r /\ link' = [link EXCEPT ![r] = x]
  /\ alive' = alive \cup {r}
  /\ runners' = runners \cup {r}
  /\ AfterStart
  /\ UNCHANGED <<present, wanted, grabbed, owner, crashed, left, term>>

\* The scanner is gone again or grabbed by another reader; or openpty, chmod or
\* symlink raises, as symlink does when a file is in the way.
StartFails(r) ==
  /\ pc \in {"grab", "pty", "link", "symlink"} /\ at = r
  /\ UNCHANGED runners
  /\ AfterStart
  /\ UNCHANGED <<outside, grabbed, owner, threads, left, term>>

-----------------------------------------------------------------------------
(* The watchdog and the shutdown *)

AnyAlive == alive # {}

\* On to the runner after number k, or out of the loop.
Release(k) ==
  \/ /\ \A r \in runners : r <= k
     /\ pc' = "stopped" /\ UNCHANGED at
  \/ \E r \in runners : /\ r > k /\ \A q \in runners : q > k => r <= q
                        /\ pc' = "release" /\ at' = r

\* The loop over the runners takes the variable r, too.
WatchStop ==
  /\ pc = "watch" /\ term
  /\ grabbed' = Rebound
  /\ Release(0)
  /\ UNCHANGED <<outside, owner, runners, threads, left, term, path>>

WatchExit ==
  /\ pc = "watch" /\ ~term /\ ~AnyAlive
  /\ pc' = "exit"
  /\ UNCHANGED <<outside, process, at, path>>

\* stop waits two seconds for the thread, which may go on; then it ungrabs the
\* scanner and closes the pty ...
StopRelease(r) ==
  /\ pc = "release" /\ at = r
  /\ grabbed' = [d \in Device |-> IF grabbed[d] = r THEN None ELSE grabbed[d]]
  /\ owner' = [x \in Pty |-> IF owner[x] = r THEN None ELSE owner[x]]
  /\ pc' = "unlink"
  /\ UNCHANGED <<outside, runners, threads, left, term, at, path>>

\* ... and removes the symlink, if the system lets it: an error is ignored.
StopUnlink(r) ==
  /\ pc = "unlink" /\ at = r
  /\ \/ link' = Unlinked(r) /\ UNCHANGED left
     \/ InTheWay(r) /\ left' = left \cup {r} /\ UNCHANGED link
  /\ Release(r)
  /\ UNCHANGED <<present, wanted, grabbed, owner, runners, threads, term, path>>

Exit ==
  /\ pc \in {"exit", "stopped"}
  /\ Gone
  /\ UNCHANGED outside

\* The thread reads an error from a scanner that is gone or was released.
ThreadDies(r) ==
  /\ r \in alive /\ \A d \in Device : grabbed[d] # r
  /\ alive' = alive \ {r}
  /\ UNCHANGED <<outside, grabbed, owner, runners, crashed, left, term, pc, at, path>>

\* The loop ends with any other exception, or an error of a scanner that is still
\* there. The descriptor stays open, the scanner grabbed.
LoopCrashes(r) ==
  /\ r \in alive
  /\ alive' = alive \ {r}
  /\ crashed' = crashed \cup {r}
  /\ UNCHANGED <<outside, grabbed, owner, runners, left, term, pc, at, path>>

-----------------------------------------------------------------------------
(* Scanners and systemd *)

Plug(d) ==
  /\ d \notin present
  /\ present' = present \cup {d}
  /\ UNCHANGED <<link, wanted, process, pc, at, path>>

Unplug(d) ==
  /\ d \in present
  /\ present' = present \ {d}
  /\ grabbed' = [grabbed EXCEPT ![d] = None]
  /\ UNCHANGED <<link, wanted, owner, runners, threads, left, term, pc, at, path>>

\* Restart=always: every exit but the one that was asked for.
Restart ==
  /\ ~Running /\ wanted
  /\ pc' = "resolve"
  /\ UNCHANGED <<outside, process, at, path>>

\* SIGTERM. The handler is installed after the readers have started: until then
\* the signal ends the process.
StopService ==
  /\ Running /\ wanted
  /\ wanted' = FALSE
  /\ IF pc \in Starting
       THEN Gone
       ELSE term' = TRUE /\ UNCHANGED <<grabbed, owner, runners, threads, left, pc, at, path>>
  /\ UNCHANGED <<present, link>>

StartService ==
  /\ ~Running /\ ~wanted
  /\ wanted' = TRUE
  /\ UNCHANGED <<present, link, process, pc, at, path>>

Kill ==
  /\ Running
  /\ Gone
  /\ UNCHANGED outside

-----------------------------------------------------------------------------
Start(r) == \/ NoRunner(r) \/ Resolve(r) \/ Grab(r) \/ OpenPty(r) \/ Unlink(r) \/ Symlink(r)
            \/ StartFails(r)

Main == \/ \E r \in Reader : Start(r) \/ StopRelease(r) \/ StopUnlink(r)
        \/ WatchStop \/ WatchExit \/ Exit

Outside == \/ \E d \in Device : Plug(d) \/ Unplug(d)
           \/ Restart \/ StopService \/ StartService \/ Kill

Next == Main \/ Outside \/ \E r \in Reader : ThreadDies(r) \/ LoopCrashes(r)

Spec == Init /\ [][Next]_vars

\* The process runs, systemd restarts it, a thread notices that its scanner is
\* gone; and no step of start fails, or is cut off by a kill, on every attempt.
FairSpec ==
  /\ Spec /\ WF_vars(Main) /\ WF_vars(Restart)
  /\ \A r \in Reader : WF_vars(ThreadDies(r))
  /\ \A r \in NoOutput : SF_vars(NoRunner(r))
  /\ \A r \in Reader \ NoOutput : /\ SF_vars(Resolve(r)) /\ SF_vars(Grab(r))
                                 /\ SF_vars(OpenPty(r)) /\ SF_vars(Unlink(r))
                                 /\ SF_vars(Symlink(r))

-----------------------------------------------------------------------------
TypeOK ==
  /\ present \subseteq Device
  /\ grabbed \in [Device -> Reader \cup {None}]
  /\ owner \in [Pty -> Reader \cup {None}]
  /\ link \in [Reader -> Pty \cup {None}]
  /\ pc \in Starting \cup {"down", "watch", "release", "unlink", "exit", "stopped"}
  /\ at \in Reader
  /\ path \in Device \cup {None}
  /\ runners \subseteq Reader
  /\ alive \subseteq runners /\ crashed \subseteq runners \ alive /\ left \subseteq runners
  /\ term \in BOOLEAN /\ wanted \in BOOLEAN

\* While the daemon serves, the symlink of every reader that started names that
\* reader's own open pty, whatever an earlier process left in its place and
\* whichever starts failed since (linux.py:181-187).
Reachable ==
  pc \in Starting \cup {"watch"} =>
    \A r \in runners : link[r] # None /\ owner[link[r]] = r

\* The last reader for which a runner is made.
LastMade == {r \in Reader \ NoOutput : \A q \in Reader : q > r => q \in NoOutput}

\* A scanner is never kept grabbed with nobody reading it, which would make it dead
\* to the whole machine, but for two cases: the thread that read it has crashed
\* (linux.py:281-282), or it is that of the last runner made, which the variable r
\* still holds when its start has failed (cli.py:81-87). Any other runner whose
\* start fails after the grab is dropped by the time the daemon serves.
IdleGrab ==
  pc = "watch" =>
    \A d \in Device : grabbed[d] \in alive \cup crashed \cup LastMade \cup {None}

\* What "exited cleanly" says (cli.py:111-118): when the stop loop has ended, no
\* symlink of a reader that ran is left, dangling ones included, but where the
\* system refused to remove it (linux.py:228), and no scanner is grabbed, not even
\* by a reader whose start failed or whose thread crashed. It speaks of a shutdown
\* that reaches the stop loop; a SIGTERM before cli.py:93, or as the watchdog
\* gives up (cli.py:104-109), ends the process without one.
CleanStop ==
  pc = "stopped" =>
    /\ \A r \in runners : link[r] = None \/ r \in left
    /\ \A d \in Device : grabbed[d] = None

\* service/hid2serial.service:6-11: with a scanner connected and the service
\* wanted, one of the restarts gets a reader going, whatever was killed,
\* unplugged or left behind before. (Nothing promises which reader: a daemon
\* with one live thread does not restart for the others.)
SomeReader ==
  \A d \in UNION {Matches[r] : r \in Reader \ NoOutput} :
    <>[](d \in present /\ wanted) => []<>(alive # {})
=============================================================================
