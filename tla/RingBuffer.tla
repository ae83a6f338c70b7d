----------------------------- MODULE RingBuffer -----------------------------
(***************************************************************************)
(* The lock-free ring between the two ports of a hid2vsp pair              *)
(* (driver/hid2vsp/src/ringbuffer.c), one memory access per step. The      *)
(* producer is the thread that runs the write callback of the port that    *)
(* owns the ring, the consumer the thread that runs the peer's read        *)
(* callback; each makes one call at a time. Pointers are offsets from      *)
(* Base, End is Size. A byte is the rank it was offered with, so a stale,  *)
(* repeated or skipped byte shows in what is delivered.                    *)
(*                                                                         *)
(* No lock orders the two threads here: RingBufferWrite runs outside       *)
(* PairLock (queue.c:622), and so does the reset of PURGE TXCLEAR          *)
(* (queue.c:391), which the producer makes; that of RXCLEAR (queue.c:395)  *)
(* is made by the consumer.                                                *)
(***************************************************************************)
EXTENDS Integers, Sequences

CONSTANTS
  Size,         \* bytes of the buffer; one of them always stays unused
  MaxReq,       \* bound: bytes of one read or write request
  MaxOffered,   \* bound: bytes offered to the ring over a behaviour
  MaxDelivered, \* bound: no read starts once so many bytes were returned
  Purge,        \* whether IOCTL_SERIAL_PURGE resets the ring
  OrderedReads  \* whether the build's loads stay before a later store (x64);
                \* no barrier orders lines 336-356 before 346 or 361 (ARM64)

ASSUME RingAssumption == /\ Size \in Nat \ {0, 1}
                         /\ MaxReq \in Nat
                         /\ MaxOffered \in Nat
                         /\ MaxDelivered \in Nat
                         /\ {Purge, OrderedReads} \subseteq BOOLEAN

VARIABLES
  buf, head, tail,           \* the ring: its slots, Self->Head, Self->Tail
  wpc, wreq, wbase,          \* producer: next step, DataSize, rank of Data[-1]
  whead, wn, wdst, wi,       \* headSnapshot, bytesToCopy, Tail used, bytes done
  wfirst,                    \* bytes of the first copy, all of them if it is the only
  rpc, rreq,                 \* consumer: next step, DataSize asked for
  rhead, rn, rsrc, rdata,    \* headSnapshot, DataSize clamped, Head used, Data
  rfirst,                    \* bytes of the first copy
  failed,                    \* some call returned STATUS_INTERNAL_ERROR
  offered,                   \* history: number of bytes offered
  accepted, delivered,       \* history: bytes published, bytes returned
  wroom, ravail,             \* history: room / data when the call started
  torn,                      \* history: a reset has met a call, or a read the
                             \* two stores of Tail (SeesEnd), since the last
                             \* reset that met no call
  spoiled,                   \* history: torn has been set, or a read has stored
                             \* Head before it had loaded what it frees
  claim                      \* history: bytes the write could add by the
                             \* pointers it found when it loaded Head

ring     == <<buf, head, tail>>
producer == <<wpc, wreq, wbase, whead, wn, wdst, wi, wfirst>>
consumer == <<rpc, rreq, rhead, rn, rsrc, rdata, rfirst>>
results  == <<failed, offered, accepted, delivered, wroom, ravail>>
history  == <<results, torn, spoiled, claim>>
vars     == <<ring, producer, consumer, history>>

Smaller(m, n) == IF m <= n THEN m ELSE n

FirstOf(seq, n) == SubSeq(seq, 1, Smaller(n, Len(seq)))

\* The mutants of this module: plausible slips in ringbuffer.c.
SnapshotSpaceNoGap(h, t) == IF t >= h THEN Size - (t - h) ELSE h - t

ClampAllOrNothing(n, limit) == IF n <= limit THEN n ELSE 0

NoFix(p) == p

\* RingBufferGetAvailableSpace on the two snapshots. For h = 0 and t = Size it
\* is -1, which the size_t of the code holds as 2^64 - 1.
SnapshotSpace(h, t) ==
  LET tailPlusOne == IF t + 1 = Size THEN 0 ELSE t + 1
  IN  CASE tailPlusOne = h            -> 0
        [] tailPlusOne # h /\ t = h   -> Size - 1
        [] tailPlusOne # h /\ t > h   -> Size - (t - h) - 1
        [] tailPlusOne # h /\ t < h   -> (h - t) - 1

\* RingBufferGetAvailableData; the size_t arithmetic wraps back, so the
\* integers give the value the code gets.
SnapshotData(h, t) == Size - SnapshotSpace(h, t) - 1

\* How many bytes to copy: lines 188-195 and 305-308.
Clamp(n, limit) == IF n <= limit THEN n ELSE limit

\* The slot of the i-th byte of a call whose first copy starts at p and takes
\* `first` bytes; a second one goes on from Base (lines 216-225, 336-341).
At(p, first, i) == IF i < first THEN p + i ELSE i - first

\* A pointer that stands on End goes back to Base (lines 258-265, 362-369).
Fix(p) == IF p = Size THEN 0 ELSE p

\* Bytes the consumer has freed: returned ones, and those of a read whose
\* Head is stored but which has not returned.
Freed == Len(delivered) + (IF rpc \in {"wrap", "done"} THEN rn ELSE 0)
Stored == Len(accepted) - Freed

\* The bytes offered over a behaviour, and those of the write under way.
Stream == [i \in 1..MaxOffered |-> i]
Request == SubSeq(Stream, wbase + 1, wbase + wreq)

\* A call that has loaded its first pointer and has yet to store its own. One
\* whose copy has left the buffer never does.
Writes == wpc \in {"tail", "branch", "place", "copy", "overrun"}
Reads  == rpc \in {"branch", "place", "copy", "overrun"}

\* The loads of a read that go around the two stores of WPublish and WWrap: Head
\* is on Base again, Tail still on End.
SeesEnd == rhead = 0 /\ tail = Size

\* What a call or a reset finds when `met` says whether they met.
Tear(met) == torn' = met /\ spoiled' = (spoiled \/ met)

\* RingBufferReset, of either side: the store of Head, which drops what was
\* accepted and not freed, and the store of Tail.
ResetHead ==
  /\ head' = 0
  /\ Tear(Writes \/ Reads \/ rpc = "tail")
  /\ accepted' = IF spoiled' THEN accepted ELSE FirstOf(accepted, Freed)
  /\ ravail' = 0
  /\ UNCHANGED <<buf, tail, failed, offered, delivered, wroom, claim>>

ResetTail ==
  /\ tail' = 0
  /\ Tear(torn \/ Writes \/ Reads)
  /\ UNCHANGED <<buf, head, results, claim>>

Init ==
  /\ buf = [s \in 0..Size-1 |-> 0] /\ head = 0 /\ tail = 0
  /\ wpc = "idle" /\ wreq = 0 /\ wbase = 0
  /\ whead = 0 /\ wn = 0 /\ wdst = 0 /\ wi = 0 /\ wfirst = 0
  /\ rpc = "idle" /\ rreq = 0 /\ rhead = 0 /\ rn = 0 /\ rsrc = 0 /\ rdata = <<>>
  /\ rfirst = 0
  /\ failed = FALSE /\ offered = 0 /\ accepted = <<>> /\ delivered = <<>>
  /\ wroom = 0 /\ ravail = 0
  /\ torn = FALSE /\ spoiled = FALSE /\ claim = 0

-----------------------------------------------------------------------------
(* RingBufferWrite *)

WBegin ==
  /\ wpc = "idle"
  /\ \E n \in 1..MaxReq :
        /\ offered + n <= MaxOffered
        /\ wreq' = n
        /\ offered' = offered + n
  /\ wbase' = offered
  /\ wpc' = IF tail >= Size THEN "idle" ELSE "head"
  /\ failed' = (failed \/ tail >= Size)
  /\ wroom' = (Size - 1) - Stored
  /\ UNCHANGED <<ring, whead, wn, wdst, wi, wfirst, consumer, accepted, delivered, ravail,
                 torn, spoiled, claim>>

WLoadHead ==
  /\ wpc = "head"
  /\ whead' = head
  /\ wpc' = "tail"
  /\ Tear(torn \/ rpc = "reset")
  /\ claim' = Clamp(wreq, SnapshotSpace(head, tail))
  /\ UNCHANGED <<ring, wreq, wbase, wn, wdst, wi, wfirst, consumer, results>>

WLoadTail ==
  /\ wpc = "tail"
  /\ wn' = Clamp(wreq, SnapshotSpace(whead, tail))
  /\ wpc' = IF wn' = 0 THEN "idle" ELSE "branch"
  /\ UNCHANGED <<ring, wreq, wbase, whead, wdst, wi, wfirst, consumer, history>>

\* The test of line 202 loads Tail.
WBranch ==
  /\ wpc = "branch"
  /\ wdst' = tail
  /\ wpc' = "place"
  /\ UNCHANGED <<ring, wreq, wbase, whead, wn, wi, wfirst, consumer, history>>

\* Where the copy goes, and how much of it, by Tail as it was or as it is: an
\* unoptimised build loads it again at lines 214, 216 and 246. If a reset has
\* come between, bytesToCopy underflows at line 220; the copy of line 225 then
\* runs until it faults, and the call never returns.
WPlace ==
  /\ wpc = "place"
  /\ wi' = 0
  /\ \/ /\ wdst + wn <= Size
        /\ wdst' \in {wdst, tail}
        /\ wfirst' = wn
        /\ wpc' = "copy"
     \/ /\ wdst + wn > Size
        /\ \E p \in {wdst, tail} :
              /\ wdst' \in {p, tail}
              /\ wfirst' = Size - p
              /\ wpc' = IF Size - p > wn THEN "overrun" ELSE "copy"
  /\ UNCHANGED <<ring, wreq, wbase, whead, wn, consumer, history>>

WCopy ==
  /\ wpc = "copy" /\ wi < wn
  /\ buf' = [buf EXCEPT ![At(wdst, wfirst, wi)] = wbase + wi + 1]
  /\ wi' = wi + 1
  /\ UNCHANGED <<head, tail, wpc, wreq, wbase, whead, wn, wdst, wfirst, consumer, history>>

\* The store of Tail, after the barrier. "Tail += bytesToCopy" loads Tail
\* again, or not: a reset may have come between.
WPublish ==
  /\ wpc = "copy" /\ wi = wn
  /\ \/ /\ wfirst < wn
        /\ tail' = wn - wfirst
        /\ wpc' = "idle"
     \/ /\ wfirst = wn
        /\ \E base \in {wdst, tail} : tail' = base + wn
        /\ wpc' = IF tail' = Size THEN "wrap" ELSE "idle"
  /\ accepted' = accepted \o SubSeq(Request, 1, wn)
  /\ UNCHANGED <<buf, head, wreq, wbase, whead, wn, wdst, wi, wfirst, consumer,
                 failed, offered, delivered, wroom, ravail, torn, spoiled, claim>>

\* The second store, of lines 258-265.
WWrap ==
  /\ wpc = "wrap"
  /\ tail' = Fix(Size)
  /\ wpc' = "idle"
  /\ UNCHANGED <<buf, head, wreq, wbase, whead, wn, wdst, wi, wfirst, consumer, history>>

\* RingBufferReset by the producer (TXCLEAR).
WResetHead ==
  /\ Purge
  /\ wpc = "idle"
  /\ wpc' = "reset"
  /\ ResetHead
  /\ UNCHANGED <<wreq, wbase, whead, wn, wdst, wi, wfirst, consumer>>

WResetTail ==
  /\ wpc = "reset"
  /\ wpc' = "idle"
  /\ ResetTail
  /\ UNCHANGED <<wreq, wbase, whead, wn, wdst, wi, wfirst, consumer>>

-----------------------------------------------------------------------------
(* RingBufferRead *)

RBegin ==
  /\ rpc = "idle"
  /\ Len(delivered) < MaxDelivered
  /\ \E n \in 1..MaxReq : rreq' = n
  /\ rpc' = IF head >= Size THEN "idle" ELSE "head"
  /\ failed' = (failed \/ head >= Size)
  /\ rdata' = <<>>
  /\ ravail' = Stored
  /\ UNCHANGED <<ring, producer, rhead, rn, rsrc, rfirst, offered, accepted, delivered, wroom,
                 torn, spoiled, claim>>

RLoadHead ==
  /\ rpc = "head"
  /\ rhead' = head
  /\ rpc' = "tail"
  /\ UNCHANGED <<ring, producer, rreq, rn, rsrc, rdata, rfirst, history>>

RLoadTail ==
  /\ rpc = "tail"
  /\ rn' = Clamp(rreq, SnapshotData(rhead, tail))
  /\ rpc' = IF rn' = 0 THEN "idle" ELSE "branch"
  /\ Tear(torn \/ wpc = "reset" \/ SeesEnd)
  /\ UNCHANGED <<ring, producer, rreq, rhead, rsrc, rdata, rfirst, results, claim>>

\* The test of line 321 loads Head.
RBranch ==
  /\ rpc = "branch"
  /\ rsrc' = head
  /\ rpc' = "place"
  /\ UNCHANGED <<ring, producer, rreq, rhead, rn, rdata, rfirst, history>>

\* Where the copy comes from, by Head as it was or as it is at lines 335, 336
\* and 356. After a reset the first copy may go past the caller's buffer, and
\* DataSize underflows at line 338.
RPlace ==
  /\ rpc = "place"
  /\ \/ /\ rsrc + rn <= Size
        /\ rsrc' \in {rsrc, head}
        /\ rfirst' = rn
        /\ rpc' = "copy"
     \/ /\ rsrc + rn > Size
        /\ \E p \in {rsrc, head} :
              /\ rsrc' \in {p, head}
              /\ rfirst' = Size - p
              /\ rpc' = IF Size - p > rn THEN "overrun" ELSE "copy"
  /\ UNCHANGED <<ring, producer, rreq, rhead, rn, rdata, history>>

RCopy ==
  /\ rpc \in {"copy", "wrap", "done"}
  /\ Len(rdata) < rn
  /\ rdata' = Append(rdata, buf[At(rsrc, rfirst, Len(rdata))])
  /\ UNCHANGED <<ring, producer, rpc, rreq, rhead, rn, rsrc, rfirst, history>>

\* The store of Head. Nothing orders the loads of the copy before it.
RPublish ==
  /\ rpc = "copy"
  /\ OrderedReads => Len(rdata) = rn
  /\ \/ /\ rfirst < rn
        /\ head' = rn - rfirst
        /\ rpc' = "done"
     \/ /\ rfirst = rn
        /\ \E base \in {rsrc, head} : head' = base + rn
        /\ rpc' = IF head' = Size THEN "wrap" ELSE "done"
  /\ spoiled' = (spoiled \/ Len(rdata) < rn)
  /\ UNCHANGED <<buf, tail, producer, rreq, rhead, rn, rsrc, rdata, rfirst, results, torn, claim>>

RWrap ==
  /\ rpc = "wrap"
  /\ head' = Fix(Size)
  /\ rpc' = "done"
  /\ UNCHANGED <<buf, tail, producer, rreq, rhead, rn, rsrc, rdata, rfirst, history>>

RReturn ==
  /\ rpc = "done" /\ Len(rdata) = rn
  /\ delivered' = delivered \o rdata
  /\ rpc' = "idle"
  /\ UNCHANGED <<ring, producer, rreq, rhead, rn, rsrc, rdata, rfirst,
                 failed, offered, accepted, wroom, ravail, torn, spoiled, claim>>

\* RingBufferReset by the consumer (RXCLEAR).
RResetHead ==
  /\ Purge
  /\ rpc = "idle"
  /\ rpc' = "reset"
  /\ ResetHead
  /\ UNCHANGED <<producer, rreq, rhead, rn, rsrc, rdata, rfirst>>

RResetTail ==
  /\ rpc = "reset"
  /\ rpc' = "idle"
  /\ ResetTail
  /\ UNCHANGED <<producer, rreq, rhead, rn, rsrc, rdata, rfirst>>

-----------------------------------------------------------------------------
Producer == \/ WBegin \/ WLoadHead \/ WLoadTail \/ WBranch \/ WPlace \/ WCopy
            \/ WPublish \/ WWrap \/ WResetHead \/ WResetTail

Consumer == \/ RBegin \/ RLoadHead \/ RLoadTail \/ RBranch \/ RPlace \/ RCopy
            \/ RPublish \/ RWrap \/ RReturn \/ RResetHead \/ RResetTail

Next == Producer \/ Consumer

Spec == Init /\ [][Next]_vars

-----------------------------------------------------------------------------
TypeOK ==
  /\ buf \in [0..Size-1 -> 0..MaxOffered]
  /\ head \in 0..Size /\ tail \in 0..Size
  /\ wpc \in {"idle", "head", "tail", "branch", "place", "copy", "overrun", "wrap", "reset"}
  /\ wreq \in 0..MaxReq /\ wbase \in 0..MaxOffered
  /\ whead \in 0..Size /\ wn \in 0..Size-1 /\ wdst \in 0..Size-1 /\ wi \in 0..Size-1
  /\ wfirst \in 0..Size
  /\ rpc \in {"idle", "head", "tail", "branch", "place", "copy", "overrun", "wrap", "done", "reset"}
  /\ rreq \in 0..MaxReq
  /\ rhead \in 0..Size-1 /\ rn \in 0..Size /\ rsrc \in 0..Size-1
  /\ rdata \in Seq(0..MaxOffered) /\ Len(rdata) <= Size
  /\ rfirst \in 0..Size
  /\ failed \in BOOLEAN /\ offered \in 0..MaxOffered
  /\ accepted \in Seq(1..MaxOffered) /\ delivered \in Seq(0..MaxOffered)
  /\ wroom \in Int /\ ravail \in Int
  /\ torn \in BOOLEAN /\ spoiled \in BOOLEAN /\ claim \in 0..Size-1

\* The slots of the copy under way on each side.
Filling == {At(wdst, wfirst, i) : i \in 0..wn-1}
Emptying == {At(rsrc, rfirst, i) : i \in 0..rn-1}

\* In every build, a copy stays in the buffer, whatever was purged before, unless a
\* reset came between two loads of the call's own pointer: that is the only way to
\* "overrun", and it leaves torn set. A pointer is never past End, and on End only
\* inside the call that put it there, so the checks of lines 174 and 289 never refuse
\* a call and the assertions of lines 268 and 372 hold.
InBounds ==
  /\ "overrun" \in {wpc, rpc} => torn
  /\ wpc = "copy" => Filling \subseteq 0..Size-1
  /\ rpc \in {"copy", "wrap", "done"} => Emptying \subseteq 0..Size-1
  /\ tail = Size => wpc = "wrap"
  /\ head = Size => rpc = "wrap"
  /\ ~failed

\* The reader gets exactly what the ring accepted, in order, but for what a purge
\* dropped (ringbuffer.c:66-79 argues that each side may act on its snapshot of the
\* other's pointer): in every build, until a reset meets a call, a read's two loads
\* go around the two stores of Tail, or a read stores Head before its copy is done.
Fifo == ~spoiled =>
  /\ Len(delivered) <= Len(accepted)
  /\ \A i \in 1..Len(delivered) : delivered[i] = accepted[i]

\* Until then the two copies never touch the same slot at the same time, so no
\* byte is torn or overwritten while it is read: the unused byte keeps them apart.
Disjoint == ~spoiled /\ wpc = "copy" /\ rpc = "copy" => Filling \cap Emptying = {}

\* Bytes may be lost to a full ring or to a purge, but none reaches the reader
\* twice, out of order, or without having been offered.
InOrderOnce ==
  /\ \A i \in 1..Len(delivered) : delivered[i] > 0
  /\ \A i \in 1..Len(delivered)-1 : delivered[i] < delivered[i+1]

\* The calls under way, and the bytes handed over, as the pipe sees them: a
\* write takes effect when Tail is stored, a read when Head is.
WriteCall == IF wpc = "head" \/ Writes
               THEN [data |-> Request, room |-> wroom]
               ELSE [data |-> <<>>, room |-> 0]
ReadCall == IF rpc \in {"head", "tail"} \/ Reads
              THEN [want |-> rreq, avail |-> ravail]
              ELSE [want |-> 0, avail |-> 0]
HandedOver == IF rpc \in {"wrap", "done"} THEN delivered \o rdata ELSE delivered

Pipe == INSTANCE LossyPipe WITH
  Capacity  <- Size - 1,
  delivered <- HandedOver,
  write     <- WriteCall,
  read      <- ReadCall

\* The ring is a lossy pipe of Size - 1 bytes: it drops only the end of a write
\* that found too little room, or all it holds to a purge, and a read gets all that
\* was there when it began (ringbuffer.h:34-39), until it is spoiled.
PipeSpec == Pipe!Init /\ [][Pipe!Next \/ spoiled']_(Pipe!vars)

\* Bytes between the two pointers, a pointer on End counting as on Base.
Between == LET h == Fix(head)
               t == Fix(tail)
           IN  IF t >= h THEN t - h ELSE t - h + Size

Counter == INSTANCE RingCount WITH
  Capacity   <- Size - 1,
  SplitStore <- TRUE,
  stored     <- IF wpc = "reset" \/ rpc = "reset" THEN 0 ELSE Between,
  write      <- IF Writes THEN claim ELSE -1,
  read       <- IF Reads THEN rn ELSE -1,
  aimed      <- rpc = "tail",
  txreset    <- wpc = "reset",
  rxreset    <- rpc = "reset"

\* Whatever the build reorders, a write adds the bytes it found room for when it
\* loaded Head and a read takes the bytes it found, as long as no reset met a
\* call: what the reader or writer does in between does not matter
\* (ringbuffer.c:66-79, for pointers that a purge may move as well).
CountSpec == Counter!Spec
=============================================================================
