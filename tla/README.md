# hid2serial in TLA+

hid2serial turns a keyboard-wedge barcode scanner into a serial port. Two
programs do it, each for its own place:

- **hid2vsp** (`driver/hid2vsp/`, C, UMDF 2): a Windows driver that makes pairs
  of virtual COM ports. What one port of a pair is written, the other reads.
- **hid2serial** (`hid2serial/`, Python): the daemon that grabs the scanner,
  turns key events into lines and writes them to a pty (Linux), to a proxy over
  HTTP, or to a COM port (Windows). A service, command line and tray
  applications surround it.

This directory holds TLA+ specifications of the parts with state worth checking,
the TLC configurations that check them, and TLAPS proofs. `PROJECT.json` maps
every definition to the lines it models, and lists the runs, the mutants that
show each property can fail, the hazards and the findings.

## 1. Inventory

### The driver

| component | state | operations | meets |
|---|---|---|---|
| ring buffer (`ringbuffer.c`) | a byte buffer, `Head`, `Tail` | initialize, reset, space, data, write, read | called by the queue callbacks of *both* ports with no common lock |
| data path (`queue.c`) | per port: default queue, `ReadQueue`, `WaitMaskQueue`, the ring it writes | EvtIoWrite, EvtIoRead, PURGE, GET_COMMSTATUS, WAIT_ON_MASK, SET_WAIT_MASK | reads the peer's ring, wakes the peer's parked reads, under `PairLock` |
| pair table (`pair.c`) | `ChildA`, `ChildB`, `PairLock` | attach, detach, acquire peer, release peer | called by AddDevice, cleanup and every callback that needs the peer |
| device lifecycle (`device.c`, `driver.c`, QueueCreate) | side, names, `QueueContext`, the port's value in SERIALCOMM | AddDevice, configure, cleanup | publishes the queue context that peers use; shares the SERIALCOMM key with all ports |
| line settings (`queue.c`) | line control register, data mask | SET_ and GET_LINE_CONTROL | the application alone |
| plain settings (`queue.c`) | baud rate, modem and FIFO control, timeouts | set, get | the application alone |
| setup tool (`setup.cpp`) | none of its own; the device nodes | install, remove | run by the installer and by hand; the plug and play manager starts and stops the ports |
| tray applet (`tray.cpp`) | none of its own; the elevated process it waits for | display, reconnect, exit | elevated processes that turn the nodes off and on beside the setup tool |

What is hard in it: the two ports of a pair run in one process on two threads.
They share the ring with no lock on the writer's side, and the rest under one
wait lock; the framework adds cancellation, queues that refuse a request, and
devices that appear, fail half way and go while the peer works. So: a copy
interleaved with another, a stale snapshot of the other side's pointer, a reset
that lands in the middle of a call, a lost wake-up, a request completed twice or
never, a peer used while it is built or torn down, a lock not released.

What makes it correct: the ring is a FIFO that loses only what found no room;
its two copies never meet and never leave the buffer; every request is completed
exactly once; a read is not left parked beside its data; a peer in use is
complete and is not freed; a slot of the pair table belongs to its device until
that device is cleaned up, and is freed then; a running port stays where
applications look for it; the settings that are returned are those that were
stored. Of the tools: a port that has started is paired, a reconnect repairs what
failures left, a removal leaves nothing of its side.

### The daemon

| component | state | operations | meets |
|---|---|---|---|
| line framing, keymap (`core.py`) | the characters of the line so far | feed, flush, translate | a reader thread |
| Linux reader (`linux.py`) | grabbed device, pty, symlink, thread | start, stop, event loop | the input device, the consumer of the pty |
| Windows reader and HTTP sink (`windows.py`) | message window, keyboard hook, bounded queue, worker | start, stop, input message, submit, post | the proxy, Windows' input system |
| command line daemon (`cli.py`) | runners, stop event | start all, watch, stop all | systemd, which restarts it |
| Windows service (`win_service.py`) | runners, stop event | SvcDoRun, SvcStop | the service manager |
| Python tray applications, packaging | none of their own | | service control |

What is hard in it: stop beside a running loop, a start that fails half way, one
reader of several dying, two runners with one symlink, a full queue at the
moment of the stop.

What makes it correct: the symlink of a running reader leads to that reader;
a scanner is not kept grabbed and unread; a shutdown leaves nothing behind; a
connected scanner gets the daemon going again after whatever happened; each line
is one scan, whole; a scan is posted once or reported as dropped.

## 2. Modules

| module | models | runs | proofs |
|---|---|---|---|
| `LossyPipe` | what one direction of a pair promises (abstract) | `ring` | refined in `RingBufferProofs` |
| `RingBuffer` | `ringbuffer.c`, one memory access per step | `ring`, `ring_purge`, `ring_split` | `RingBufferProofs` |
| `RingCount` | how many bytes a ring holds, with purges (abstract) | `ring`, `pair` | refined in `RingBufferProofs` and `PortPairProofs` |
| `PairTable` | the pair table and its lock (abstract) | `pair`, `lifecycle` | refined in `PortPairProofs` and `DeviceLifecycleProofs` |
| `OwedRequests` | what a port owes its application (abstract) | `pair` | refined in `PortPairProofs` |
| `PortPair` | the callbacks of both ports in `queue.c`, with `pair.c` | `pair`, `pair_live`, `pair_lost_wakeup` | `PortPairProofs` |
| `DeviceLifecycle` | `device.c`, `QueueCreate`, `pair.c` | `lifecycle`, `lifecycle_publish` | `DeviceLifecycleProofs` |
| `LineControl` | the line settings of `queue.c` | `line` | `LineControlProofs` |
| `PortSettings` | all settings of a port; extends `LineControl` | `line` | `LineControlProofs` |
| `DevNodes` | `setup.cpp`, the reconnect of `tray.cpp`, the device nodes | `tools` | `DevNodesProofs` |
| `LinuxReader` | `run` of `cli.py`, `ReaderRunner` of `linux.py`, the systemd unit | `reader` | `LinuxReaderProofs` |
| `ScanLine` | `core.py` and the key handling of `linux.py` and `windows.py` | `windows` | `ScanLineProofs` |
| `WindowsReader` | `windows.py` with `win_service.py`; extends `ScanLine` | `windows` | `WindowsReaderProofs` |

`RingBuffer` implements `LossyPipe` and `RingCount`. `PortPair` does not instantiate
`RingBuffer`: a ring there is a byte count, and a call two steps. `RingCount` is
what makes that right. From below, the pointers of `RingBuffer` are shown to be such
a count, in every build and under purges; from above, the two rings of `PortPair`
are shown to be used as `RingCount` allows: one write and one read at a time, no
purge of a side beside that side's own call, no ring that goes while it is used.
Both are checked and proved. `PairTable` joins two modules in the same way:
`DeviceLifecycle` and `PortPair` split the pair table: the first builds and tears
down devices and holds a peer without using it, the second uses the peer of two
complete devices, and both implement it. `DevNodes` is one level up: its nodes are
the devices of `DeviceLifecycle`, each of which attaches when it starts and detaches
when it goes. `PortSettings` implements `LineControl`. `WindowsReader` is composed
of `ScanLine`, whose event buffer is the message queue of its window and whose lines
its sink is given.

### RingBuffer

`Base` is offset 0 and `End` is `Size`. `buf`, `head`, `tail` are the ring; `wpc`,
`rpc` the position inside `RingBufferWrite` and `RingBufferRead`; `whead`, `wdst`,
`wn`, `wfirst` and `rhead`, `rsrc`, `rn`, `rfirst` the locals. Actions follow the
code: begin with its bounds check, load the other pointer, load the own one and
clamp, load the own one for the test of the branch, place the copy, copy byte by
byte, store the pointer, wrap it. A byte is the rank it was offered with, so
duplication, loss and reordering show.

The fields are not volatile, so a build may load its own pointer once or again. The
test of line 202 loads `Tail` (`WBranch`); lines 214, 216 and 246 have that value or
load a new one, each for itself (`WPlace`), and so does the `+=` of line 257
(`WPublish`). Reads are the same with lines 321, 335, 336, 356 and 361. Nothing but
a reset changes the pointer meanwhile. When one does, the length of the second copy
may underflow, and the call is in `overrun` for good: the process faults in
the copy. The model lets the other side go on, which adds behaviours and removes
none. The two stores of lines 257 and 264 are two steps; a build that folds them has
fewer behaviours. `Purge` adds the reset of either side; `OrderedReads` says whether
loads stay before a later store (x64) or may pass it (ARM64, for which the project
also builds). A space of -1, which the code's `size_t` holds as 2^64-1, is the
integer -1: the subtraction that follows wraps back to the same value.

`accepted` and `delivered` are history; a purge takes from `accepted` what was not
read. Three things end the promise of order, and `spoiled`, history too, says when
one has happened: a reset that meets a call, a read whose loads of `Head` and `Tail`
go around the two stores of `Tail` (`SeesEnd`), and a store of `Head` before the
copy is done. `Fifo`, `Disjoint` and `PipeSpec` speak of a ring that is not spoiled,
in any build and whatever was purged between calls. `ring_purge` and `ring_split`
show what the first two lead to.

### PortPair

Every port has one handler, because the framework runs the callbacks of a device
one at a time (sequential default queue, device scope); `pc` is its next step,
`cur` its request. The steps are those between two accesses to something shared:
a ring pointer, `PairLock`, a queue. Each queue is a sequence of requests; a
forward may be refused, and the framework may cancel whatever is queued.
`pending` are the requests not completed. `torn` marks a ring whose reset
overlapped a call on it: its count is then anything `RingBuffer` could make of
it, until a reset that overlaps nothing, or the end of the device. A reset also
overlaps a read that has loaded `Head` and not `Tail` (`Aimed`): the two then do
not belong together. `RingSpec` is what showed that this case exists. `Aimed` holds
from the acquisition of the lock, a little before the first load, so that a few
rings are called torn that are not. The rings are those of a build that folds the
stores of lines 257 and 264 (`SplitStore <- FALSE` in its mapping to `RingCount`,
`TRUE` in that of `RingBuffer`): in one that does not, a read between the two may
find as many bytes as the buffer has in a ring that is empty, as `ring_split` shows. `seen` is
history: what GET_COMMSTATUS last answered, less what was read since.

Left out: zero-length requests, which the framework completes itself
(`queue.c:755`); the failure returns of the ring calls (`queue.c:626-629`,
`708-712`), which `InBounds` excludes; GET_PROPERTIES, which only reads. A port
attaches complete and is removed with its queues drained; `DeviceLifecycle` has
the order of the steps in between. The dispatch of a forwarded request happens
on another thread, never inside the forward (hazard `queue.c:654`).

At the end of the module are the three things the pair implements, each with its
mapping: `RingSpec` the rings, `TableSpec` the pair table with the handlers that use
their peers, `OwedSpec` the requests. `Owed` of a port are the requests in its queues
and in its handler's hand. The wake-up moves a read from one queue of a port to
another, which is no step of `OwedRequests`.

### RingCount

`RingCount` has the bytes stored, what the write and the read under way will add and
take, where the two purges are, and `torn`. A write of several bytes adds at least
one if there is room for one when it begins, a read takes at least one if there is
one; how many was asked for is not said. `RingBuffer` keeps two history variables for
it: `torn`, whether a reset has met a call, or a read the two stores of `Tail`, since
the last reset that met none, and `claim`, what a write could add by the pointers it found when it loaded `Head`. `claim` is
needed because the write decides only when it has loaded its own `Tail` too, which
nobody but a purge moves meanwhile.

### PairTable and OwedRequests

`PairTable` has the slots and the devices whose handlers use their peers; only one
does, and no slot changes meanwhile. `OwedRequests` has the ports that are there and
the requests each has yet to complete: a request is completed once, one per step,
and a port goes when it owes nothing. In which order requests are completed is not
said.

### DeviceLifecycle

`phase` follows AddDevice and the removal of each device, one step per call other
devices can see; `slot` is the pair table, `qctx` whether the pointer to the
queue context is set, `built` which of its parts exist, `using` the peer a
handler holds between PairAcquirePeer and PairReleasePeer. Any step of AddDevice
after the attach may fail. The hardware ID may be unreadable. A second device of
the same side gets no slot and runs unpaired. `listed` is the key
DEVICEMAP\SERIALCOMM, in which every port puts a value and from which cleanup
removes it; `device.c:454` then removes the key itself. The code opens the key
for KEY_SET_VALUE only, so that the removal is refused where access is checked:
`MayDelete` says whether it succeeds, and `Listed` holds because it does not. With
`MayDelete` every port that runs loses its entry when one is removed. `Refused`
are devices for which the key may fail to open. The device interface, the PDO
name and the symbolic link only add ways to fail.

### LineControl

The register by field, the encoding and decoding of `queue.c:766-1028`, and what
was asked. A request is any record of natural numbers, or one too short.

### PortSettings

The settings `queue.c` keeps as they come, beside those of `LineControl`: a request
too short for its structure, the one combination of timeouts that is refused, the
requests that read back. There is none for the FIFO register. `wanted` is history,
what the last successful request set. The line settings are in the same module
because they do not keep this promise (a failing SET_LINE_CONTROL changes them),
and because the composition shows that neither disturbs the other.

### DevNodes

A node is an instance under Enum\Root\PORTS, `kind` the side its hardware ID names,
`status` what the plug and play manager says of it, `bound` whether it has a driver,
`slot` the pair table. `setup` is the setup tool, between two of the calls other
processes can get in between: a registration, the stop and the start of each node
by the update, each removal. `pass` is each elevated process with its index into
the live enumeration, which shifts when nodes come and go, and `tray` the applet,
which waits thirty seconds for one. Every call may fail, a node may refuse to be
disabled or removed or fail to start, and the uninstaller's `taskkill` may end
applet and elevated processes anywhere. `broken` is history, whether something
failed or was ended half way; `clean` the reconnects that ran with no failure and
no other tool at work.

What the plug and play manager does is external: that an update stops and starts
every node of the hardware ID but the disabled ones, that an enabled node starts
if it has a driver. Left out: what the applet shows (`RefreshPairs`,
`QueryPairState`, menu, tooltip), which is read anew before each display and on
which no decision depends; the folder and log openers; the user who refuses the
elevation; one setup tool beside another, which the installer does not do.

### LinuxReader

A reader is its place in the configuration. `pc` and `at` are the main thread:
the start loop, the watchdog, the stop loop. `grabbed` are the scanners and the
reader that holds each; `owner` the open ptys by number; `link` the symlinks,
which outlive the process. A failed start leaves its runner in the variable `r`
until the loop reuses it; its descriptor closes then (the input library closes
it with the object), its pty stays open to the end of the process. systemd
restarts after every exit but a requested one. The signal handler exists only
once the readers have started. A reader without an output (`NoOutput`) has no
runner: its constructor raises before `r` is assigned, so that a failed runner stays
in `r`. A thread may crash at any time (`crashed`), with its scanner still grabbed,
and the stop loop may fail to remove a symlink (`left`); both are history, kept to
say what the properties except. Left out: what the event loop makes of a key, which
is `ScanLine`'s matter, a thread that blocks in `os.write` because nobody reads
the pty, ptys of other programs, a path shared by two readers.

A link left by an exit without stop can name a pty that the next process opens for
another reader: `Reachable` speaks of readers that run, and of them only.

### ScanLine

The scanner types scans, each a sequence of presses and releases that ends with a
terminator, into the event buffer of the system. A character is a key and the form
it takes (base, upper, symbol), so that case and loss show. On the scanner's side
`held` and `capsOn` are what a keyboard driver would keep, and `text` what it would
make of the keys; on the reader's side `shift`, `caps` and `line` are the variables
of the code, with its one flag for both shift keys. A full buffer loses the new
event, as a message queue does, or all it held, as evdev does before it says
SYN_DROPPED. `flushed` is history: what each terminator found in the buffer, with
the scan it belongs to. The loop of `linux.py` and the handler of `windows.py` do
the same with an event, but for autorepeat: `linux.py` skips it, `windows.py`
cannot tell it from a press and would feed the character again. Scanners do not
hold keys, and it is left out. `Faithful` also says where it does not hold: after a
lost event, or once a shift key was moved while another was held (`both`).

### WindowsReader

`service` is SvcDoRun with the start of its reader, `stop` SvcStop with the stop of
that reader, on another thread; `window` the thread of the message window, `quit`
its stop flag and the message that follows it, `emitting` a scan between flush and
queue; `queue`, `worker`, `item` the sink. A join is a step that is possible at
any time, because it waits two seconds at most; the put of the sentinel waits for
room. A start may fail in each of its steps, and a process whose service has
returned may end at any time, which resets everything. `accepted` and `tried` are
history. Which line a scan becomes is `ScanLine`'s matter: the sink's items are the
numbers of the scans.

Left out: the keyboard hook, whose 50 ms window and place in the system's hook
chain are outside a model without time; the COM output, which the code calls
legacy; a second reader in the same process. The code would start one, but its
window class is the first one's, with the first one's procedure, and its
registration takes the raw input from the first one's window: what then happens is
Windows' routing.

## 3. Runs

Each passing property is broken by the mutant listed for it in `PROJECT.json`.

| run | instance | shows |
|---|---|---|
| `ring` | 3 slots, requests of 1 to 3 bytes, 4 offered, purges, delayed loads | `TypeOK`, `InBounds`, `Fifo`, `Disjoint`, the refinements `PipeSpec`, `CountSpec` |
| `ring_purge` | 3 slots, 7 bytes offered, purges, loads in order | violation of `InOrderOnce` |
| `ring_split` | the same without purges | violation of `InOrderOnce` |
| `pair` | 3 requests, 8 kinds of call, 2 bytes | `TypeOK`, `OnePlace`, `OneWaiter`, `PeerAlive`, `StatusHolds`, the refinements `RingSpec`, `TableSpec`, `OwedSpec` |
| `pair_live` | 3 requests, reads, writes, mask, purge, 1 byte | `OneStranded`, `HandlersReturn`, `WakeReaches`, `WakeShrinks` |
| `pair_lost_wakeup` | 2 requests, a read and a write | violation of `NoStrandedRead` |
| `lifecycle` | a pair and a duplicate, which SERIALCOMM may refuse | `Table`, `PeerMemory`, `Listed`, `SlotFreed`, the refinement `TableSpec` |
| `lifecycle_publish` | a pair | violation of `AccessReady` |
| `line` | each line field one step beyond its range, the others 0 or the maximum | `TypeOK`, `LineRoundTrip`, `LineSettable`, `Answers` |
| `reader` | 3 readers, the last without an output, 2 scanners, overlapping matches | `Reachable`, `IdleGrab`, `CleanStop`, `SomeReader` |
| `windows` | 3 scans, 4 keys and both shifts, 1 event of backlog, a queue of 2 | `Faithful`, `Confined`, `InOrder`, `Drained`, `StopEnds`, `Handled` |
| `tools` | 2 nodes of ours and a foreign one, 2 elevated processes | `Paired`, `Repaired`, `Gone` |

Why the bounds are enough. Three slots hold two bytes: a request of three does
not fit, a copy may wrap in its middle or end on `End`, and four bytes take both
pointers past `End`, before and after a reset; the violations need no more. The
proofs cover every size and any number of bytes. `ring` has a view
(`MCRingBuffer`): two states that differ only in a local that its call has not set
yet or does not use any more count as one. Two bytes per ring let a write of two find room for both, one or none; three requests let
two reads park while a write wakes them, or two waiters meet a mask change;
requests are used once, so behaviours are finite except for detach and attach.
In `pair_live` one byte is enough for a read to be early or late. Three devices
are the smallest set with a peer and a duplicate. Three readers have an earlier
one, the last that gets a runner, and one that gets none, which is what `IdleGrab`
distinguishes. The three scans of `windows` have the three cases that
matter to a line: a symbol typed with one shift key, a letter typed with and without
caps lock, and a letter typed while two shift keys overlap; the prefix that the
first consists of drops it, so that accepted and dropped scans mix. A backlog of
one event loses events at once, a queue of two fills with the third item, which
may be the sentinel; the real sizes (200 scans) differ in how long that takes. In
`tools` the two free numbers, on both sides of the foreign node, may hold a pair or
two ports of one side, which is where the hazards are: the two sides of the pair
table do not touch each other. Two elevated processes are the smallest number
that overlap, and they are alike, hence the symmetry.

MAXULONG is 2^31 - 1 in `line`, the largest number TLC has: the code only compares
with it.

Deadlock is checked in every run but `windows`, where a process that has ended
stops, as it should.

Fairness. `PortPair`: weak fairness of each port's handler, because the framework
delivers what is queued and the callbacks have no waits but `PairLock`; nobody
has to submit, cancel, attach or detach. `DeviceLifecycle`: weak fairness of a
handler's release, and strong fairness of cleanup, because it needs `PairLock`,
which handlers take again and again, and a wait lock is granted to those that
wait. `LinuxReader`: weak fairness of the process, of systemd's restart (the unit
switches its start limit off) and of a thread noticing that its scanner is gone;
strong fairness of the steps of start, that is, no single step fails or is killed
on every attempt. Kills, unplugging and shutdowns are never required.
`WindowsReader`: weak fairness of the stop, of the window's thread and of the
worker. Each waits only for what its action's guard says, a post ends within its
timeout, and the joins within theirs; the scanner and the service manager need not
do anything. `DevNodes` has no fairness: a process may stop anywhere.

## 4. What is proved

All proofs are for every value of the constants, under the named assumptions
`RingAssumption`, `PairAssumption`, `DeviceAssumption`, `LineAssumption`,
`SettingsAssumption`, `ReaderAssumption`, `ScanAssumption`, `SinkAssumption` and
`NodeAssumption`, which only type the constants, keep `None` apart and say which
sets are finite.

- **RingBuffer.** All four theorems are about every build and purges at any time;
  none assumes anything of `Purge` or `OrderedReads`. `RingInBounds`: a copy leaves
  the buffer only if a reset came between two loads of its call, no pointer does, and
  no call is refused. `BoundsInv` adds to `InBounds` that a call moves no more than
  was asked for and that its own pointer is where it found it or at 0; a call that
  finds it moved between its loads is one a reset met. `RingFifo` and `RingIsPipe`:
  until the ring is spoiled, delivery is a prefix of what was accepted, the
  copies are disjoint, and the ring implements `LossyPipe`. `FifoInv` adds what
  each snapshot still guarantees (the writer's room only grows, the reader's data
  only grows) and the contents of the occupied slots (`Order`), for a ring that is
  not spoiled; `CountInv` then says that its pointers are whole. A reset that
  meets no call leaves `Order` as it is, with nothing stored. `RingIsCount`: the
  ring implements `RingCount`. `CountInv` says so much of the
  pointers that while `torn` is false (`Whole`) a write that has loaded `Head` still
  finds room for its claim, a read that has loaded `Tail` still finds its bytes, and
  the two pointers a call computes with belong together. It lives with a pointer on
  `End`, which counts as on `Base`; the one case where that is not what the code
  computes is `SeesEnd`.
- **PortPair.** `PairInv` has one part per theorem and what they rest on:
  `Serving` (a handler has its request), `Snapshots` (a decided amount still fits
  when it is stored), `Absent` (a port out of the table has nothing left),
  `Waiters`, `Stranded` (a read about to be parked counts with those parked).
  Theorems: `PairPeerAlive`, `PairStatusHolds`, `PairOneWaiter`, `PairOneStranded`.
  `PairOnePlace` rests on a second invariant, `Sole`: a queue holds a request once,
  a request is in one box (a queue, or a handler's hand) at most, and is pending if
  and only if it is in one. Every step leaves the boxes alone, adds one request
  (`Entry`), or removes one or moves one within its port (`Shift`).

  `PairWakeShrinks` is the safety half of the end of the wake loop: what the loop has
  to do, the parked reads and the one on its way to them, never grows while it runs,
  since a peer that is to park another would have to pass the lock. The other half,
  that the loop takes its turns, is fairness (`HandlersReturn`).

  Three theorems say that the pair implements its abstract parts, for any requests
  and any capacity. `PairRings` compares every step with `RingCount`, once for the
  writer's side and once for the reader's (`WriterMoves`, `ReaderMoves`), for a ring
  given as a parameter; `Snapshots` gives the amounts, `Absent` the ring that
  goes with its port. `PairIsTable` rests on `SoleUser`, that a handler which uses its
  peer is the only one and that both ports are there. `PairOwes` reads the boxes of
  `Sole` per port: every step is one entry, one removal or one move. It is the
  theorem that `OnePlace` cannot be: `OnePlace` speaks of a state, this one says that
  no step completes two requests, or gives one to the other port.
- **DeviceLifecycle.** `LifeInv`: a device without a slot has no side until it
  attaches, who uses a peer holds the lock, and, unless the key may be deleted, a
  device that wrote its value has it until its own cleanup. Theorems `DeviceTable`,
  `DevicePeerMemory`, and `DeviceListed` under ~MayDelete. `DeviceIsTable`: with any
  number of devices that fail and go, table and users are a `PairTable`, which holds
  because only the holder of the lock touches either.
- **LineControl, PortSettings.** `LineTyped`, `LineIsReturned`, `LineRestorable`;
  `SettingsImplementLine`, every step of a port with all its settings is a step of
  `LineControl` or none; `SettingsAnswered`, from the invariant that the settings
  kept are those wanted.
- **WindowsReader.** The scans in the event buffer, the one being emitted and those
  accepted are in order, each before the next; the scans done with, the one in
  hand and those queued are the accepted ones. For `Drained`: there is one
  sentinel at most, put by the stop after the window's thread was told to quit or
  its two seconds were over, and at most one scan was on its way then, because a
  thread that has seen the flag takes no further message. Theorems `ReaderInOrder`,
  `ReaderDrained`. They hold for any scans, whatever `ScanLine` makes of them.
- **ScanLine.** What the reader will make of the events still in the buffer is said
  by a trace along the buffer: what it will have when it takes the first, the
  second, and so on, each entry following from the one before. `KeyTrace` has the
  keys in the line: where a terminator is due whose scan and its predecessor lost
  nothing, the entry is that scan; past the end it is what is being typed.
  `CaseTrace` has the line, both flags and the number of flushes, and holds while
  nothing is lost and no shift key moves beside another: past the end the reader
  has what the keyboard has. Taking an event drops the first entry; typing one adds
  an entry; a loss keeps the trace, or starts it anew after a replaced buffer, whose
  last event then belongs to the present scan or the one before (`LastIn`). The
  traces make each step of an induction over the keys a step of the system, so no
  induction over data is needed. `ScanLineProofs` has the steps, `WindowsReader`
  the theorems `ReaderFaithful` and `ReaderConfined`.
- **DevNodes.** A slot is held by a started node of its side (`Holders`), the setup
  tool's list has nodes of its side only, and a removal's has all that are left
  unless one refused (`Todo`), and a started port without a place in the table has
  someone who owes it one (`Owed`, the disjuncts of `Paired`). Theorems
  `NodesPaired`, `NodesGone`. `NodesRepaired` adds what a reconnect without failure
  and company has done so far (`Swept`): every node before its index, but for the
  one in hand, has started, and its side's place is taken or will be by the one in
  hand. It needs the instance numbers to be finite, for the index to reach them all.
- **LinuxReader.** `ReaderInv` adds where the loops are: the start loop is past
  every runner, the stop loop has dealt with those before the current one, a
  runner's scanner is read by its thread or that has crashed, and at most one reader
  that is no runner has a scanner: the one being started, or the last one before it
  for which a runner was made (`LastBound`). Theorems `ReaderReachable`,
  `ReaderIdleGrab`, `ReaderCleanStop`.

Which of the runs' properties a theorem states is listed in `PROJECT.json`; every
invariant, action property and refinement is. Only model-checked: the liveness
properties (`HandlersReturn`, `WakeReaches`, `SlotFreed`, `SomeReader`, `StopEnds`,
`Handled`), which need fairness, beyond the prover's reach.

## 5. Findings

1. A purge is not ordered with the other side's ring call: bytes are delivered
   twice or never written ones are (`ring_purge`).
2. A read whose two loads go around the two stores of `Tail` takes a byte too many,
   with no purge and on any processor (`ring_split`). A compiler may fold the stores;
   none has to, and the default Debug build does not.
3. A read can be parked after the write that should have woken it
   (`pair_lost_wakeup`). `OneStranded` bounds the damage: one read per port.
4. A peer's queue context is published before its queue and ring exist
   (`lifecycle_publish`).

More that the models show and no listed run does:

- A purge between two loads of a call's own pointer makes the length of its second
  copy underflow: `overrun` in `RingBuffer`, which `InBounds` ties to a reset.
- A SIGTERM before the handler is installed (`cli.py:93`), or while the watchdog
  exits, ends the process without the stop loop, and an unlink that fails is ignored
  (`linux.py:228`): symlinks stay, where the docstring of `run` (`cli.py:67-68`) has a
  clean exit on SIGTERM. `CleanStop` is about the shutdown that reaches the loop.
- A scanner stays grabbed and unread after its thread crashed (`linux.py:281-282`),
  and after the start of the last runner made has failed; a reader without an
  output that comes after it does not change that. `IdleGrab` says that these are all.
- A symlink left by an exit without stop (`cli.py:109`) may lead to a pty that the
  next process opened for another reader, since start replaces the link of its own
  reader only, and only once it has found a scanner.

## 6. Not modelled, and what is left

Not modelled: the configuration schema, the key tables and the one-shot commands,
which are data or plain input and output; the Python tray applications, which poll
the service and start or stop it; the display of the tray applet; the packaging,
but for the order in which the installer runs the tools; the keyboard hook, the COM
output and a second reader on Windows (see WindowsReader); a reader that blocks on
a pty nobody reads; the length that a write reports, which is always the full one.

Left for later, in this order:

1. `PortPair`: dispatch inside the forward as a parameter (can the wake-up wait
   for its own lock), and which read takes which bytes when a woken read goes
   behind a later one.
2. The order in which a port completes its requests, which `OwedRequests` leaves
   open.
3. An abstract sink (scans in, posts out, at most the queue's length behind)
   implemented by `WindowsReader`, and the same with the pty for `LinuxReader`.
