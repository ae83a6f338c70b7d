-------------------------- MODULE RingBufferProofs --------------------------
(***************************************************************************)
(* Theorems about RingBuffer, for every buffer size and every bound.       *)
(* All of it holds in every build and under purges from both sides.        *)
(* BoundsInv says where the pointers and the copies are. CountInv adds how *)
(* many bytes a call may still count on while no reset has met one; it     *)
(* gives the refinement of RingCount, which PortPair takes a ring to be.   *)
(* FifoInv adds what the slots hold until the ring is spoiled; it gives    *)
(* Fifo, Disjoint and the refinement of LossyPipe.                         *)
(***************************************************************************)
EXTENDS RingBuffer, SequenceTheorems, TLAPS

\* What each step knows beyond TypeOK and InBounds: a call never uses more
\* bytes than were asked for, its own pointer is where it found it or, after a
\* reset that met it, at Base, and its first copy ends at End at most.
BoundsInv ==
  /\ TypeOK
  /\ InBounds
  /\ wbase + wreq <= offered
  /\ wpc \in {"branch", "place", "copy"} => wn <= wreq
  /\ wpc = "place" => tail = wdst \/ (tail = 0 /\ torn)
  /\ wpc = "copy" => wi <= wn /\ tail \in {wdst, 0} /\ wfirst <= wn /\ wdst + wfirst <= Size
  /\ rpc = "place" => head = rsrc \/ (head = 0 /\ torn)
  /\ rpc = "copy" => head \in {rsrc, 0} /\ (rfirst = rn \/ rfirst > 0)
  /\ rpc \in {"copy", "wrap", "done"} => rfirst <= rn /\ rsrc + rfirst <= Size

\* The space computed from two snapshots is that of a ring.
LEMMA SpaceValue ==
  ASSUME NEW h \in 0..Size, NEW t \in 0..Size-1
  PROVE  /\ SnapshotSpace(h, t) = IF t >= Fix(h) THEN Size - 1 - (t - Fix(h))
                                                 ELSE Fix(h) - t - 1
         /\ SnapshotSpace(h, t) \in 0..Size-1
<1> USE RingAssumption DEF RingAssumption, SnapshotSpace, Fix
<1> DEFINE one == IF t + 1 = Size THEN 0 ELSE t + 1
<1>1. CASE one = h
  BY <1>1
<1>2. CASE one # h /\ t = h
  BY <1>2
<1>3. CASE one # h /\ t > h
  BY <1>3
<1>4. CASE one # h /\ t < h
  BY <1>4
<1> QED  BY <1>1, <1>2, <1>3, <1>4

\* The data computed from two snapshots never exceeds the buffer, even when
\* Tail is seen on End.
LEMMA DataRange ==
  ASSUME NEW h \in 0..Size-1, NEW t \in 0..Size
  PROVE  SnapshotData(h, t) \in 0..Size
BY RingAssumption DEF RingAssumption, SnapshotSpace, SnapshotData

\* A copy whose first part ends at End at most stays inside the buffer.
LEMMA AtRange ==
  ASSUME NEW p \in 0..Size-1, NEW first \in 0..Size, p + first <= Size, NEW i \in 0..Size-1
  PROVE  At(p, first, i) \in 0..Size-1
BY RingAssumption DEF RingAssumption, At

\* The same for all slots of a read, which may take a whole buffer.
LEMMA EmptyingRange ==
  ASSUME NEW p \in 0..Size-1, NEW first \in 0..Size, p + first <= Size, NEW n \in 0..Size,
         first > 0 \/ first = n
  PROVE  {At(p, first, i) : i \in 0..n-1} \subseteq 0..Size-1
BY RingAssumption DEF RingAssumption, At

\* Where the first copy of n bytes starts (d) and how long it is (f), for a pointer
\* that was b at the test and is t now: lines 211-216, 246 and 332-336, 356.
Placed(b, t, n, d, f) ==
  \/ b + n <= Size /\ d \in {b, t} /\ f = n
  \/ b + n > Size /\ \E p \in {b, t} : d \in {p, t} /\ f = Size - p

LEMMA PlacedRange ==
  ASSUME NEW b \in 0..Size-1, NEW t, t = b \/ t = 0, NEW n \in 0..Size, NEW d, NEW f,
         Placed(b, t, n, d, f)
  PROVE  /\ d \in 0..Size-1 /\ f \in 0..Size /\ d + f <= Size
         /\ t = d \/ t = 0
         /\ f = n \/ f > 0
         /\ f > n => t = 0 /\ t # b
<1> USE RingAssumption DEF RingAssumption
<1>1. CASE b + n <= Size
  BY <1>1 DEF Placed
<1>2. CASE b + n > Size
  <2>1. PICK p \in {b, t} : d \in {p, t} /\ f = Size - p
    BY <1>2 DEF Placed
  <2>2. CASE t = b
    BY <1>2, <2>1, <2>2
  <2>3. CASE t = 0 /\ t # b
    BY <1>2, <2>1, <2>3
  <2> QED  BY <2>2, <2>3
<1> QED  BY <1>1, <1>2

\* The first n elements of a sequence.
LEMMA FirstOfType ==
  ASSUME NEW S, NEW seq \in Seq(S), NEW n \in Nat
  PROVE  /\ FirstOf(seq, n) \in Seq(S)
         /\ n <= Len(seq) => /\ Len(FirstOf(seq, n)) = n
                             /\ \A i \in 1..n : FirstOf(seq, n)[i] = seq[i]
<1> DEFINE m == Smaller(n, Len(seq))
<1>1. m \in Nat /\ m <= Len(seq) /\ (n <= Len(seq) => m = n)
  BY DEF Smaller
<1>2. \A i \in 1..m : seq[i] \in S
  BY <1>1
<1> HIDE DEF m
<1>3. /\ SubSeq(seq, 1, m) \in Seq(S)
      /\ Len(SubSeq(seq, 1, m)) = IF 1 <= m THEN m - 1 + 1 ELSE 0
      /\ \A i \in 1..m - 1 + 1 : SubSeq(seq, 1, m)[i] = seq[1 + i - 1]
  BY <1>1, <1>2, SubSeqProperties
<1>4. FirstOf(seq, n) = SubSeq(seq, 1, m)
  BY DEF FirstOf, m
<1>5. \A i \in 1..m : SubSeq(seq, 1, m)[i] = seq[i]
  <2> SUFFICES ASSUME NEW i \in 1..m PROVE SubSeq(seq, 1, m)[i] = seq[i]
    OBVIOUS
  <2>1. i \in 1..m - 1 + 1 /\ 1 + i - 1 = i
    BY <1>1
  <2> QED  BY <1>3, <2>1
<1> QED  BY <1>1, <1>3, <1>4, <1>5

\* Any n consecutive bytes of the stream.
LEMMA SliceType ==
  ASSUME NEW b \in Nat, NEW n \in Nat, b + n <= MaxOffered
  PROVE  /\ SubSeq(Stream, b + 1, b + n) \in Seq(1..MaxOffered)
         /\ Len(SubSeq(Stream, b + 1, b + n)) = n
         /\ \A i \in 1..n : SubSeq(Stream, b + 1, b + n)[i] = b + i
<1> USE RingAssumption DEF RingAssumption
<1>1. \A i \in b+1..b+n : Stream[i] = i /\ i \in 1..MaxOffered
  BY DEF Stream
<1>2. \A i \in b+1..b+n : Stream[i] \in 1..MaxOffered
  BY <1>1
<1>3. SubSeq(Stream, b + 1, b + n) \in Seq(1..MaxOffered)
  BY <1>2, SubSeqProperties
<1>4. Len(SubSeq(Stream, b + 1, b + n)) = n
  <2>1. Len(SubSeq(Stream, b + 1, b + n)) = IF b + 1 <= b + n THEN (b + n) - (b + 1) + 1 ELSE 0
    BY <1>2, SubSeqProperties
  <2> QED  BY <2>1
<1>5. ASSUME NEW i \in 1..n PROVE SubSeq(Stream, b + 1, b + n)[i] = b + i
  <2>1. \A j \in 1..(b + n) - (b + 1) + 1 :
          SubSeq(Stream, b + 1, b + n)[j] = Stream[b + 1 + j - 1]
    BY <1>2, SubSeqProperties
  <2>2. SubSeq(Stream, b + 1, b + n)[i] = Stream[b + 1 + i - 1] /\ b + 1 + i - 1 = b + i
    BY <2>1
  <2> QED  BY <1>1, <2>2
<1> QED  BY <1>3, <1>4, <1>5

\* A request, and its first n bytes, are bytes that were offered.
LEMMA RequestType ==
  ASSUME BoundsInv
  PROVE  /\ Request \in Seq(1..MaxOffered)
         /\ Len(Request) = wreq
         /\ \A n \in 0..wreq :
              /\ SubSeq(Request, 1, n) \in Seq(1..MaxOffered)
              /\ Len(SubSeq(Request, 1, n)) = n
              /\ \A i \in 1..n : SubSeq(Request, 1, n)[i] = wbase + i
<1> USE RingAssumption DEF RingAssumption
<1>1. wreq \in Nat /\ wbase \in Nat /\ wbase + wreq <= MaxOffered
  BY DEF BoundsInv, TypeOK
<1>4. Request \in Seq(1..MaxOffered)
  BY <1>1, SliceType DEF Request
<1>5. Len(Request) = wreq
  BY <1>1, SliceType DEF Request
<1>6. ASSUME NEW i \in 1..wreq
      PROVE  Request[i] = wbase + i /\ Request[i] \in 1..MaxOffered
  <2>1. \A j \in 1..wreq : Request[j] = wbase + j
    BY <1>1, SliceType DEF Request
  <2> QED  BY <1>1, <1>6, <2>1
<1>7. ASSUME NEW n \in 0..wreq
      PROVE  /\ SubSeq(Request, 1, n) \in Seq(1..MaxOffered)
             /\ Len(SubSeq(Request, 1, n)) = n
             /\ \A i \in 1..n : SubSeq(Request, 1, n)[i] = wbase + i
  <2>1. \A i \in 1..n : Request[i] \in 1..MaxOffered
    BY <1>1, <1>6
  <2>2. SubSeq(Request, 1, n) \in Seq(1..MaxOffered)
    BY <2>1, SubSeqProperties
  <2>3. Len(SubSeq(Request, 1, n)) = n
    <3>1. Len(SubSeq(Request, 1, n)) = IF 1 <= n THEN n - 1 + 1 ELSE 0
      BY <2>1, SubSeqProperties
    <3> QED  BY <3>1
  <2>4. ASSUME NEW i \in 1..n PROVE SubSeq(Request, 1, n)[i] = wbase + i
    <3>1. \A j \in 1..n - 1 + 1 : SubSeq(Request, 1, n)[j] = Request[1 + j - 1]
      BY <2>1, SubSeqProperties
    <3>2. SubSeq(Request, 1, n)[i] = Request[i]
      BY <3>1
    <3> QED  BY <1>1, <1>6, <3>2
  <2> QED  BY <2>2, <2>3, <2>4
<1> QED  BY <1>4, <1>5, <1>7

-----------------------------------------------------------------------------
THEOREM BoundsInit == Init => BoundsInv
<1> SUFFICES ASSUME Init PROVE BoundsInv
  OBVIOUS
<1>1. TypeOK
  BY RingAssumption DEF Init, TypeOK, RingAssumption
<1> QED  BY <1>1, RingAssumption DEF Init, BoundsInv, InBounds, RingAssumption

THEOREM BoundsStep == BoundsInv /\ [Next]_vars => BoundsInv'
<1> SUFFICES ASSUME BoundsInv, [Next]_vars PROVE BoundsInv'
  OBVIOUS
<1> USE RingAssumption DEF RingAssumption
<1>0. /\ head \in 0..Size /\ tail \in 0..Size /\ wn \in 0..Size-1 /\ rn \in 0..Size
      /\ tail = Size => wpc = "wrap"
      /\ head = Size => rpc = "wrap"
      /\ ~failed
  BY DEF BoundsInv, TypeOK, InBounds
<1>1. CASE WBegin
  <2>1. TypeOK'
    BY <1>0, <1>1 DEF WBegin, Stored, Freed, BoundsInv, TypeOK, ring, consumer
  <2>2. InBounds'
    <3>a. wpc = "idle" /\ UNCHANGED <<head, tail, wn, wdst, wfirst, rpc, rn, rsrc, rfirst, torn>>
      BY <1>1 DEF WBegin, ring, consumer
    <3>b. ~(tail >= Size) /\ ~failed
      BY <1>0, <3>a DEF BoundsInv, InBounds
    <3>c. wpc' = "head"
      BY <1>1, <3>b DEF WBegin
    <3>d. failed' = (failed \/ tail >= Size)
      BY <1>1 DEF WBegin
    <3>1. ~failed'
      BY <3>b, <3>d
    <3> QED
      BY <1>0, <3>a, <3>c, <3>1 DEF BoundsInv, InBounds, Filling, Emptying, At
  <2> QED
    BY <1>1, <2>1, <2>2 DEF WBegin, Stored, Freed, BoundsInv, TypeOK, ring, consumer
<1>2. CASE WLoadHead
  <2>1. claim' \in 0..Size-1
    <3>1. head \in 0..Size /\ tail \in 0..Size-1 /\ wreq \in Nat
      BY <1>2 DEF WLoadHead, BoundsInv, TypeOK, InBounds
    <3>2. SnapshotSpace(head, tail) \in 0..Size-1
      BY <3>1, SpaceValue
    <3> QED
      BY <1>2, <3>1, <3>2 DEF WLoadHead, Clamp
  <2> QED
    BY <1>2, <2>1 DEF WLoadHead, Tear, BoundsInv, TypeOK, InBounds, ring, consumer, results, Filling, Emptying, At
<1>3. CASE WLoadTail
  <2>1. SnapshotSpace(whead, tail) \in 0..Size-1
    BY <1>3, SpaceValue DEF WLoadTail, BoundsInv, TypeOK, InBounds
  <2>2. wn' \in 0..Size-1 /\ wn' <= wreq
    BY <1>3, <2>1 DEF WLoadTail, Clamp, BoundsInv, TypeOK
  <2>3. TypeOK'
    BY <1>3, <2>2 DEF WLoadTail, BoundsInv, TypeOK, ring, consumer, history, results
  <2>4. InBounds'
    BY <1>3 DEF WLoadTail, BoundsInv, InBounds, ring, consumer, history, results, Emptying, At
  <2> QED
    BY <1>3, <2>2, <2>3, <2>4 DEF WLoadTail, BoundsInv, ring, consumer, history, results
<1>4. CASE WBranch
  <2>1. TypeOK'
    BY <1>0, <1>4 DEF WBranch, ring, consumer, history, results, BoundsInv, TypeOK
  <2>2. InBounds'
    BY <1>0, <1>4 DEF WBranch, ring, consumer, history, results, BoundsInv, TypeOK, InBounds, Filling, Emptying, At
  <2> QED
    BY <1>0, <1>4, <2>1, <2>2 DEF WBranch, ring, consumer, history, results, BoundsInv, TypeOK
<1>5. CASE WPlace
  <2>1. /\ wpc = "place" /\ wi' = 0 /\ wn \in 0..Size-1 /\ wdst \in 0..Size-1 /\ wn <= wreq
        /\ tail = wdst \/ (tail = 0 /\ torn)
        /\ UNCHANGED <<head, tail, wn, wreq, rpc, rn, rsrc, rfirst, rdata, torn, failed>>
    BY <1>5 DEF WPlace, ring, consumer, history, results, BoundsInv, TypeOK
  <2>2. /\ wpc' \in {"copy", "overrun"}
        /\ wpc' = "overrun" => wfirst' > wn
        /\ wpc' = "copy" => wfirst' = wn \/ ~(wfirst' > wn)
    BY <1>5 DEF WPlace
  <2>3. Placed(wdst, tail, wn, wdst', wfirst')
    BY <1>5 DEF WPlace, Placed
  <2>4. /\ wdst' \in 0..Size-1 /\ wfirst' \in 0..Size /\ wdst' + wfirst' <= Size
        /\ tail = wdst' \/ tail = 0
        /\ wfirst' = wn \/ wfirst' > 0
        /\ wfirst' > wn => tail = 0 /\ tail # wdst
    <3>1. wn \in 0..Size /\ (tail = wdst \/ tail = 0)
      BY <2>1
    <3> QED  BY <2>1, <2>3, <3>1, PlacedRange
  <2>5. /\ wpc' = "overrun" => torn
        /\ wpc' = "copy" => wfirst' <= wn
    BY <2>1, <2>2, <2>4
  <2>6. TypeOK'
    BY <1>0, <1>5, <2>1, <2>2, <2>4 DEF WPlace, ring, consumer, history, results, BoundsInv, TypeOK
  <2>7. InBounds'
    <3>1. wpc' = "copy" => Filling' \subseteq 0..Size-1
      <4>1. ASSUME NEW i \in 0..wn-1
            PROVE  At(wdst', wfirst', i) \in 0..Size-1
        <5>1. i \in 0..Size-1
          BY <2>1
        <5> QED  BY <2>4, <5>1, AtRange
      <4>2. Filling' = {At(wdst', wfirst', i) : i \in 0..wn-1}
        BY <2>1 DEF Filling
      <4> QED  BY <4>1, <4>2
    <3>2. Emptying' = Emptying
      BY <2>1 DEF Emptying, At
    <3>3. InBounds /\ ~failed'
      BY <1>0, <2>1 DEF BoundsInv, InBounds
    <3>4. /\ wpc = "place" /\ wpc' \in {"copy", "overrun"} /\ torn' = torn
          /\ rpc' = rpc /\ head' = head /\ tail' = tail
          /\ wpc' = "overrun" => torn
      BY <2>1, <2>2, <2>5
    <3> QED
      BY <3>1, <3>2, <3>3, <3>4 DEF InBounds
  <2>8. wpc' = "copy" => /\ tail' \in {wdst', 0} /\ wdst' + wfirst' <= Size
                         /\ wi' <= wn' /\ wfirst' <= wn' /\ wn' <= wreq'
    <3>1. tail' = tail /\ wn' = wn /\ wreq' = wreq /\ 0 <= wn
      BY <2>1
    <3> QED  BY <2>1, <2>4, <2>5, <3>1
  <2>9. UNCHANGED <<wbase, wreq, offered, rpc, rn, rsrc, rfirst, head, torn>>
    BY <1>5 DEF WPlace, ring, consumer, history, results
  <2> QED
    BY <2>2, <2>6, <2>7, <2>8, <2>9 DEF BoundsInv
<1>6. CASE WCopy
  <2>a. wi' \in 0..Size-1 /\ wbase + wi + 1 \in 0..MaxOffered
    BY <1>6 DEF WCopy, BoundsInv, TypeOK
  <2>b. buf' \in [0..Size-1 -> 0..MaxOffered]
    BY <1>6, <2>a DEF WCopy, BoundsInv, TypeOK
  <2>1. TypeOK'
    BY <1>6, <2>a, <2>b DEF WCopy, BoundsInv, TypeOK, consumer, history, results
  <2>2. InBounds'
    BY <1>6 DEF WCopy, BoundsInv, InBounds, consumer, history, results, Filling, Emptying, At
  <2> QED
    BY <1>6, <2>1, <2>2 DEF WCopy, BoundsInv, TypeOK, consumer, history, results
<1>7. CASE WPublish
  <2>1. /\ wpc = "copy" /\ wn \in 0..wreq /\ wn \in 0..Size-1 /\ wdst \in 0..Size-1 /\ tail \in {wdst, 0}
        /\ wfirst \in 0..wn /\ wdst + wfirst <= Size
    BY <1>7 DEF WPublish, BoundsInv, TypeOK
  <2>2. accepted' \in Seq(1..MaxOffered)
    BY <1>7, <2>1, RequestType, ConcatProperties DEF WPublish, BoundsInv, TypeOK
  <2>3. /\ tail' \in 0..Size
        /\ wpc' \in {"idle", "wrap"}
        /\ tail' = Size => wpc' = "wrap"
    <3>1. CASE wfirst < wn
      BY <1>7, <2>1, <3>1 DEF WPublish
    <3>2. CASE wfirst = wn
      <4>1. PICK base \in {wdst, tail} : tail' = base + wn
        BY <1>7, <2>1, <3>2 DEF WPublish
      <4>2. base + wn \in 0..Size
        BY <2>1, <3>2, <4>1
      <4> QED  BY <1>7, <2>1, <3>2, <4>1, <4>2 DEF WPublish
    <3> QED  BY <2>1, <3>1, <3>2
  <2>4. TypeOK'
    BY <1>7, <2>2, <2>3 DEF WPublish, BoundsInv, TypeOK, consumer
  <2>5. InBounds'
    BY <1>7, <2>3 DEF WPublish, BoundsInv, InBounds, consumer, Emptying, At
  <2> QED
    BY <1>7, <2>3, <2>4, <2>5 DEF WPublish, BoundsInv, consumer
<1>8. CASE WWrap
  <2>1. TypeOK'
    BY <1>0, <1>8 DEF WWrap, Fix, consumer, history, results, BoundsInv, TypeOK
  <2>2. InBounds'
    BY <1>0, <1>8 DEF WWrap, Fix, consumer, history, results, BoundsInv, TypeOK, InBounds, Filling, Emptying, At
  <2> QED
    BY <1>0, <1>8, <2>1, <2>2 DEF WWrap, Fix, consumer, history, results, BoundsInv, TypeOK
<1>9. CASE WResetHead
  <2>1. accepted' \in Seq(1..MaxOffered)
    <3>1. Freed \in Nat /\ accepted \in Seq(1..MaxOffered)
      BY DEF Freed, BoundsInv, TypeOK
    <3> QED  BY <1>9, <3>1, FirstOfType DEF WResetHead, ResetHead
  <2>2. TypeOK'
    BY <1>9, <2>1 DEF WResetHead, ResetHead, Tear, BoundsInv, TypeOK, consumer, Writes, Reads
  <2>3. InBounds'
    BY <1>9 DEF WResetHead, ResetHead, Tear, Writes, Reads, BoundsInv, TypeOK, InBounds, consumer, results, Filling, Emptying, At
  <2> QED
    BY <1>9, <2>2, <2>3 DEF WResetHead, ResetHead, Tear, Writes, Reads, BoundsInv, TypeOK, consumer, results
<1>10. CASE WResetTail
  <2>2. TypeOK'
    BY <1>10 DEF WResetTail, ResetTail, Tear, BoundsInv, TypeOK, consumer, history, results, Writes, Reads
  <2>3. InBounds'
    BY <1>10 DEF WResetTail, ResetTail, Tear, Writes, Reads, BoundsInv, TypeOK, InBounds, consumer, results, Filling, Emptying, At
  <2> QED
    BY <1>10, <2>2, <2>3 DEF WResetTail, ResetTail, Tear, Writes, Reads, BoundsInv, TypeOK, consumer, results
<1>11. CASE RBegin
  <2>1. TypeOK'
    BY <1>0, <1>11 DEF RBegin, Stored, Freed, BoundsInv, TypeOK, ring, producer
  <2>2. InBounds'
    <3>a. rpc = "idle" /\ UNCHANGED <<head, tail, wn, wdst, wfirst, wpc, rn, rsrc, rfirst, torn>>
      BY <1>11 DEF RBegin, ring, producer
    <3>b. ~(head >= Size) /\ ~failed
      BY <1>0, <3>a DEF BoundsInv, InBounds
    <3>c. rpc' = "head"
      BY <1>11, <3>b DEF RBegin
    <3>d. failed' = (failed \/ head >= Size)
      BY <1>11 DEF RBegin
    <3>1. ~failed'
      BY <3>b, <3>d
    <3> QED
      BY <1>0, <3>a, <3>c, <3>1 DEF BoundsInv, InBounds, Filling, Emptying, At
  <2> QED
    BY <1>11, <2>1, <2>2 DEF RBegin, Stored, Freed, BoundsInv, TypeOK, ring, producer
<1>12. CASE RLoadHead
  <2>1. TypeOK'
    BY <1>0, <1>12 DEF RLoadHead, ring, producer, history, results, BoundsInv, TypeOK
  <2>2. InBounds'
    BY <1>0, <1>12 DEF RLoadHead, ring, producer, history, results, BoundsInv, TypeOK, InBounds, Filling, Emptying, At
  <2> QED
    BY <1>0, <1>12, <2>1, <2>2 DEF RLoadHead, ring, producer, history, results, BoundsInv, TypeOK
<1>13. CASE RLoadTail
  <2>1. SnapshotData(rhead, tail) \in 0..Size
    BY <1>13, DataRange DEF BoundsInv, TypeOK
  <2>2. rn' \in 0..Size
    BY <1>13, <2>1 DEF RLoadTail, Clamp, BoundsInv, TypeOK
  <2>3. TypeOK'
    BY <1>13, <2>2 DEF RLoadTail, Tear, BoundsInv, TypeOK, ring, producer, history, results
  <2>4. InBounds'
    BY <1>13 DEF RLoadTail, Tear, BoundsInv, InBounds, ring, producer, history, results, Filling, At
  <2> QED
    BY <1>13, <2>3, <2>4 DEF RLoadTail, Tear, BoundsInv, ring, producer, history, results
<1>14. CASE RBranch
  <2>1. TypeOK'
    BY <1>0, <1>14 DEF RBranch, ring, producer, history, results, BoundsInv, TypeOK
  <2>2. InBounds'
    BY <1>0, <1>14 DEF RBranch, ring, producer, history, results, BoundsInv, TypeOK, InBounds, Filling, Emptying, At
  <2> QED
    BY <1>0, <1>14, <2>1, <2>2 DEF RBranch, ring, producer, history, results, BoundsInv, TypeOK
<1>15. CASE RPlace
  <2>1. /\ rpc = "place" /\ rn \in 0..Size /\ rsrc \in 0..Size-1
        /\ head = rsrc \/ (head = 0 /\ torn)
        /\ UNCHANGED <<head, tail, rn, wpc, wn, wdst, wi, wfirst, rdata, torn, failed>>
    BY <1>15 DEF RPlace, ring, producer, history, results, BoundsInv, TypeOK
  <2>2. /\ rpc' \in {"copy", "overrun"}
        /\ rpc' = "overrun" => rfirst' > rn
        /\ rpc' = "copy" => rfirst' = rn \/ ~(rfirst' > rn)
    BY <1>15 DEF RPlace
  <2>3. Placed(rsrc, head, rn, rsrc', rfirst')
    BY <1>15 DEF RPlace, Placed
  <2>4. /\ rsrc' \in 0..Size-1 /\ rfirst' \in 0..Size /\ rsrc' + rfirst' <= Size
        /\ head = rsrc' \/ head = 0
        /\ rfirst' = rn \/ rfirst' > 0
        /\ rfirst' > rn => head = 0 /\ head # rsrc
    <3>1. rn \in 0..Size /\ (head = rsrc \/ head = 0)
      BY <2>1
    <3> QED  BY <2>1, <2>3, <3>1, PlacedRange
  <2>5. /\ rpc' = "overrun" => torn
        /\ rpc' = "copy" => rfirst' <= rn
    BY <2>1, <2>2, <2>4
  <2>6. TypeOK'
    BY <1>0, <1>15, <2>1, <2>2, <2>4 DEF RPlace, ring, producer, history, results, BoundsInv, TypeOK
  <2>7. InBounds'
    <3>1. rpc' = "copy" => Emptying' \subseteq 0..Size-1
      BY <2>1, <2>4, EmptyingRange DEF Emptying
    <3> QED
      BY <1>0, <2>1, <2>2, <2>5, <3>1 DEF BoundsInv, InBounds, Filling, At
  <2>8. rpc' = "copy" => /\ head' \in {rsrc', 0} /\ (rfirst' = rn' \/ rfirst' > 0)
                         /\ rfirst' <= rn' /\ rsrc' + rfirst' <= Size
    BY <2>1, <2>4, <2>5
  <2>9. UNCHANGED <<wbase, wreq, offered, wpc, wn, wdst, wi, wfirst, tail, torn>>
    BY <1>15 DEF RPlace, ring, producer, history, results
  <2> QED
    BY <2>2, <2>6, <2>7, <2>8, <2>9 DEF BoundsInv
<1>16. CASE RCopy
  <2>1. /\ Len(rdata) \in 0..Size-1 /\ rsrc \in 0..Size-1 /\ rfirst \in 0..Size /\ rsrc + rfirst <= Size
    BY <1>16 DEF RCopy, BoundsInv, TypeOK
  <2>2. buf[At(rsrc, rfirst, Len(rdata))] \in 0..MaxOffered
    BY <2>1, AtRange DEF BoundsInv, TypeOK
  <2>3. rdata' \in Seq(0..MaxOffered) /\ Len(rdata') = Len(rdata) + 1
    BY <1>16, <2>2 DEF RCopy, BoundsInv, TypeOK
  <2>4. TypeOK'
    BY <1>16, <2>1, <2>3 DEF RCopy, BoundsInv, TypeOK, ring, producer, history, results
  <2>5. InBounds'
    BY <1>16 DEF RCopy, BoundsInv, InBounds, ring, producer, history, results, Filling, Emptying, At
  <2> QED
    BY <1>16, <2>4, <2>5 DEF RCopy, BoundsInv, ring, producer, history, results
<1>17. CASE RPublish
  <2>1. /\ rpc = "copy" /\ rn \in 0..Size /\ rsrc \in 0..Size-1 /\ head \in {rsrc, 0}
        /\ rfirst \in 0..rn /\ rsrc + rfirst <= Size /\ (rfirst = rn \/ rfirst > 0)
    BY <1>17 DEF RPublish, BoundsInv, TypeOK
  <2>2. /\ head' \in 0..Size
        /\ rpc' \in {"wrap", "done"}
        /\ head' = Size => rpc' = "wrap"
    <3>1. CASE rfirst < rn
      BY <1>17, <2>1, <3>1 DEF RPublish
    <3>2. CASE rfirst = rn
      <4>1. PICK base \in {rsrc, head} : head' = base + rn
        BY <1>17, <2>1, <3>2 DEF RPublish
      <4>2. base + rn \in 0..Size
        BY <2>1, <3>2, <4>1
      <4> QED  BY <1>17, <2>1, <3>2, <4>1, <4>2 DEF RPublish
    <3> QED  BY <2>1, <3>1, <3>2
  <2>3. TypeOK'
    BY <1>17, <2>2 DEF RPublish, BoundsInv, TypeOK, producer, results
  <2>4. InBounds'
    BY <1>17, <2>2 DEF RPublish, BoundsInv, InBounds, producer, results, Filling, Emptying, At
  <2> QED
    BY <1>17, <2>2, <2>3, <2>4 DEF RPublish, BoundsInv, producer, results
<1>18. CASE RWrap
  <2>1. TypeOK'
    BY <1>0, <1>18 DEF RWrap, Fix, producer, history, results, BoundsInv, TypeOK
  <2>2. InBounds'
    BY <1>0, <1>18 DEF RWrap, Fix, producer, history, results, BoundsInv, TypeOK, InBounds, Filling, Emptying, At
  <2> QED
    BY <1>0, <1>18, <2>1, <2>2 DEF RWrap, Fix, producer, history, results, BoundsInv, TypeOK
<1>19. CASE RReturn
  <2>1. TypeOK'
    BY <1>19 DEF RReturn, BoundsInv, TypeOK, ring, producer
  <2>2. InBounds'
    BY <1>19 DEF RReturn, BoundsInv, InBounds, ring, producer, Filling, Emptying, At
  <2> QED
    BY <1>19, <2>1, <2>2 DEF RReturn, BoundsInv, TypeOK, ring, producer
<1>20. CASE RResetHead
  <2>1. accepted' \in Seq(1..MaxOffered)
    <3>1. Freed \in Nat /\ accepted \in Seq(1..MaxOffered)
      BY DEF Freed, BoundsInv, TypeOK
    <3> QED  BY <1>20, <3>1, FirstOfType DEF RResetHead, ResetHead
  <2>2. TypeOK'
    BY <1>20, <2>1 DEF RResetHead, ResetHead, Tear, BoundsInv, TypeOK, producer, Writes, Reads
  <2>3. InBounds'
    BY <1>20 DEF RResetHead, ResetHead, Tear, Writes, Reads, BoundsInv, TypeOK, InBounds, producer, results, Filling, Emptying, At
  <2> QED
    BY <1>20, <2>2, <2>3 DEF RResetHead, ResetHead, Tear, Writes, Reads, BoundsInv, TypeOK, producer, results
<1>21. CASE RResetTail
  <2>2. TypeOK'
    BY <1>21 DEF RResetTail, ResetTail, Tear, BoundsInv, TypeOK, producer, history, results, Writes, Reads
  <2>3. InBounds'
    BY <1>21 DEF RResetTail, ResetTail, Tear, Writes, Reads, BoundsInv, TypeOK, InBounds, producer, results, Filling, Emptying, At
  <2> QED
    BY <1>21, <2>2, <2>3 DEF RResetTail, ResetTail, Tear, Writes, Reads, BoundsInv, TypeOK, producer, results
<1>22. CASE UNCHANGED vars
  <2>1. TypeOK'
    BY <1>22 DEF vars, ring, producer, consumer, history, results, BoundsInv, TypeOK
  <2>2. InBounds'
    BY <1>22 DEF vars, ring, producer, consumer, history, results, BoundsInv, InBounds, Filling, Emptying, At
  <2> QED
    BY <1>22, <2>1, <2>2 DEF vars, ring, producer, consumer, history, results, BoundsInv
<1> QED
  BY <1>1, <1>2, <1>3, <1>4, <1>5, <1>6, <1>7, <1>8, <1>9, <1>10, <1>11, <1>12, <1>13, <1>14,
     <1>15, <1>16, <1>17, <1>18, <1>19, <1>20, <1>21, <1>22 DEF Next, Producer, Consumer

\* For every buffer size, in every build, with purges at any time: a copy leaves the
\* buffer only where a reset has met a call, and both assertions hold
\* (ringbuffer.c:174, 268, 289, 372).
THEOREM RingInBounds == Spec => [](TypeOK /\ InBounds)
<1>1. BoundsInv => TypeOK /\ InBounds
  BY DEF BoundsInv
<1> QED  BY BoundsInit, BoundsStep, <1>1, PTL DEF Spec

-----------------------------------------------------------------------------
(* The ring implements RingCount, in every build and under purges. *)

\* What a call under way has asked for and decided on, and where a pointer that
\* is to be wrapped is.
CallsInv ==
  /\ wpc = "head" \/ Writes => wreq > 0
  /\ rpc \in {"head", "tail"} \/ Reads => rreq > 0
  /\ wpc \in {"branch", "place", "copy"} => wn > 0
  /\ Reads => rn > 0
  /\ wpc = "wrap" => tail \in {0, Size}
  /\ rpc = "wrap" => head \in {0, Size}

\* While no reset has met a call, what a call saw when it loaded its first
\* pointer is still true: the other side only makes room, or only adds bytes.
Whole ==
  /\ wpc = "reset" \/ rpc = "reset" => Fix(head) = 0
  /\ Writes => rpc # "reset" /\ claim + Between <= Size - 1
  /\ wpc = "tail" => claim = Clamp(wreq, SnapshotSpace(whead, tail))
  /\ wpc \in {"branch", "place", "copy"} => claim = wn
  /\ wpc \in {"place", "copy"} => wdst = tail
  /\ wpc = "copy" => wfirst = Smaller(wn, Size - tail)
  /\ rpc = "tail" => rhead = head
  /\ Reads => wpc # "reset" /\ rn <= Between
  /\ rpc \in {"place", "copy"} => rsrc = head
  /\ rpc = "copy" => rfirst = Smaller(rn, Size - head)

CountInv == BoundsInv /\ CallsInv /\ (~torn => Whole)

\* What two pointers inside the buffer, or one of them on End, say of the bytes
\* between them.
LEMMA BetweenValue ==
  ASSUME BoundsInv
  PROVE  /\ Between \in 0..Size-1
         /\ tail # Size => SnapshotSpace(head, tail) = Size - 1 - Between
         /\ head # Size /\ ~(head = 0 /\ tail = Size) => SnapshotData(head, tail) = Between
<1> USE RingAssumption DEF RingAssumption
<1>1. head \in 0..Size /\ tail \in 0..Size
  BY DEF BoundsInv, TypeOK
<1>2. Fix(head) \in 0..Size-1 /\ Fix(tail) \in 0..Size-1
  BY <1>1 DEF Fix
<1>3. Between \in 0..Size-1
  BY <1>2 DEF Between
<1>4. ASSUME tail # Size PROVE SnapshotSpace(head, tail) = Size - 1 - Between
  <2>1. tail \in 0..Size-1 /\ Fix(tail) = tail
    BY <1>1, <1>4 DEF Fix
  <2>2. SnapshotSpace(head, tail) = IF tail >= Fix(head) THEN Size - 1 - (tail - Fix(head))
                                                         ELSE Fix(head) - tail - 1
    BY <1>1, <2>1, SpaceValue
  <2> QED  BY <1>2, <2>1, <2>2 DEF Between
<1>5. ASSUME head # Size, ~(head = 0 /\ tail = Size)
      PROVE  SnapshotData(head, tail) = Between
  <2>1. head \in 0..Size-1 /\ Fix(head) = head
    BY <1>1, <1>5 DEF Fix
  <2>2. CASE tail # Size
    BY <1>1, <1>3, <1>4, <2>1, <2>2 DEF SnapshotData
  <2>3. CASE tail = Size
    BY <1>5, <2>1, <2>3 DEF SnapshotData, SnapshotSpace, Between, Fix
  <2> QED  BY <2>2, <2>3
<1> QED  BY <1>3, <1>4, <1>5

LEMMA CountInit == Init => CountInv
<1> SUFFICES ASSUME Init PROVE CountInv
  OBVIOUS
<1>1. BoundsInv
  BY BoundsInit
<1>2. CallsInv /\ Whole
  BY RingAssumption DEF RingAssumption, Init, CallsInv, Whole, Writes, Reads, Fix
<1> QED  BY <1>1, <1>2 DEF CountInv

\* A write that decided on its bytes when no reset had met it stores them.
LEMMA PublishBetween ==
  ASSUME BoundsInv, CallsInv, Whole, WPublish
  PROVE  Between' = Between + claim
<1> USE RingAssumption DEF RingAssumption
<1>1. /\ wpc = "copy" /\ claim = wn /\ wdst = tail /\ wn > 0 /\ claim + Between <= Size - 1
      /\ tail \in 0..Size-1 /\ head \in 0..Size /\ wn \in 0..Size-1 /\ head' = head
  BY DEF WPublish, Whole, Writes, CallsInv, BoundsInv, TypeOK
<1>2. tail' = IF tail + wn > Size THEN tail + wn - Size ELSE tail + wn
  <2>1. wfirst = Smaller(wn, Size - tail)
    BY <1>1 DEF Whole
  <2>2. CASE tail + wn > Size
    <3>1. wfirst = Size - tail /\ wfirst < wn
      BY <1>1, <2>1, <2>2 DEF Smaller
    <3> QED  BY <1>1, <2>2, <3>1 DEF WPublish
  <2>3. CASE tail + wn <= Size
    <3>1. wfirst = wn
      BY <1>1, <2>1, <2>3 DEF Smaller
    <3> QED  BY <1>1, <2>3, <3>1 DEF WPublish
  <2> QED  BY <1>1, <2>2, <2>3
<1>3. Fix(tail') = IF tail + wn >= Size THEN tail + wn - Size ELSE tail + wn
  BY <1>1, <1>2 DEF Fix
<1>4. Fix(tail) = tail /\ Fix(head) \in 0..Size-1
  BY <1>1 DEF Fix
<1>5. Fix(head)' = Fix(head) /\ Fix(tail)' = Fix(tail')
  BY <1>1 DEF Fix
<1> HIDE DEF Fix
<1> QED  BY <1>1, <1>3, <1>4, <1>5 DEF Between

\* A read that found its bytes when no reset had met it takes them.
LEMMA TakeBetween ==
  ASSUME BoundsInv, CallsInv, Whole, RPublish
  PROVE  Between' = Between - rn
<1> USE RingAssumption DEF RingAssumption
<1>1. /\ rpc = "copy" /\ rsrc = head /\ rn > 0 /\ rn <= Between
      /\ head \in 0..Size-1 /\ tail \in 0..Size /\ rn \in 0..Size /\ tail' = tail
  BY DEF RPublish, Whole, Reads, CallsInv, BoundsInv, TypeOK
<1>2. head' = IF head + rn > Size THEN head + rn - Size ELSE head + rn
  <2>1. rfirst = Smaller(rn, Size - head)
    BY <1>1 DEF Whole
  <2>2. CASE head + rn > Size
    <3>1. rfirst = Size - head /\ rfirst < rn
      BY <1>1, <2>1, <2>2 DEF Smaller
    <3> QED  BY <1>1, <2>2, <3>1 DEF RPublish
  <2>3. CASE head + rn <= Size
    <3>1. rfirst = rn
      BY <1>1, <2>1, <2>3 DEF Smaller
    <3> QED  BY <1>1, <2>3, <3>1 DEF RPublish
  <2> QED  BY <1>1, <2>2, <2>3
<1>3. Fix(head') = IF head + rn >= Size THEN head + rn - Size ELSE head + rn
  BY <1>1, <1>2, BetweenValue DEF Fix
<1>4. Fix(head) = head /\ Fix(tail) \in 0..Size-1
  BY <1>1 DEF Fix
<1>5. Fix(tail)' = Fix(tail) /\ Fix(head)' = Fix(head')
  BY <1>1 DEF Fix
<1> HIDE DEF Fix
<1> QED  BY <1>1, <1>3, <1>4, <1>5, BetweenValue DEF Between

LEMMA CountStep == CountInv /\ [Next]_vars => CountInv'
<1> SUFFICES ASSUME CountInv, [Next]_vars PROVE CountInv'
  OBVIOUS
<1> USE RingAssumption DEF RingAssumption
<1>a. /\ BoundsInv /\ BoundsInv' /\ CallsInv /\ (~torn => Whole)
      /\ torn \in BOOLEAN /\ claim \in 0..Size-1
  BY BoundsStep DEF CountInv, BoundsInv, TypeOK
<1>b. /\ Between \in 0..Size-1 /\ Between' \in 0..Size-1
      /\ tail # Size => SnapshotSpace(head, tail) = Size - 1 - Between
      /\ head # Size /\ ~(head = 0 /\ tail = Size) => SnapshotData(head, tail) = Between
  <2>1. Between' \in 0..Size-1
    <3>1. head' \in 0..Size /\ tail' \in 0..Size
      BY <1>a DEF BoundsInv, TypeOK
    <3>2. Fix(head)' \in 0..Size-1 /\ Fix(tail)' \in 0..Size-1
      BY <3>1 DEF Fix
    <3> QED  BY <3>2 DEF Between
  <2> QED  BY <1>a, <2>1, BetweenValue
<1>c. UNCHANGED <<head, tail>> => Between' = Between /\ Fix(head)' = Fix(head)
  BY DEF Between, Fix
<1>d. SUFFICES CallsInv' /\ (~torn' => Whole')
  BY <1>a DEF CountInv
<1>1. CASE WLoadHead
  <2>1. tail \in 0..Size-1 /\ head \in 0..Size /\ wreq \in Nat
    BY <1>1, <1>a DEF WLoadHead, BoundsInv, TypeOK, InBounds
  <2>2. claim' = Clamp(wreq, Size - 1 - Between) /\ claim' \in 0..Size-1
        /\ claim' + Between <= Size - 1
    BY <1>1, <1>b, <2>1 DEF WLoadHead, Clamp
  <2>3. CallsInv'
    BY <1>1, <1>a, <2>2 DEF WLoadHead, Tear, ring, consumer, history, results, CallsInv, Writes, Reads
  <2>4. ~torn' => Whole'
    BY <1>1, <1>a, <1>c, <2>2 DEF WLoadHead, Tear, ring, consumer, history, results, Whole, Writes, Reads, Clamp, SnapshotSpace
  <2> QED  BY <2>3, <2>4
<1>2. CASE RLoadTail
  <2>1. head \in 0..Size-1 /\ rreq \in Nat /\ rreq > 0 /\ rpc = "tail" /\ rn' \in 0..Size
    BY <1>2, <1>a DEF RLoadTail, BoundsInv, TypeOK, InBounds, CallsInv
  <2>2. CallsInv'
    BY <1>2, <1>a, <2>1 DEF RLoadTail, Tear, ring, producer, history, results, CallsInv, Writes, Reads
  <2>3. ASSUME ~torn' PROVE Whole'
    <3>1. ~torn /\ wpc # "reset" /\ rhead = head /\ ~(head = 0 /\ tail = Size) /\ Whole
      BY <1>2, <1>a, <2>3 DEF RLoadTail, Tear, SeesEnd, Whole
    <3>2. rn' <= Between
      BY <1>2, <1>b, <2>1, <3>1 DEF RLoadTail, Clamp
    <3> QED
      BY <1>2, <1>c, <2>1, <3>1, <3>2 DEF RLoadTail, Tear, ring, producer, history, results, Whole, Writes, Reads
  <2> QED  BY <2>2, <2>3
<1>3. CASE WResetHead \/ RResetHead
  <2>1. CallsInv'
    BY <1>3, <1>a DEF WResetHead, RResetHead, ResetHead, Tear, consumer, producer, history, results, CallsInv, Writes, Reads
  <2>2. ~torn' => Whole'
    BY <1>3 DEF WResetHead, RResetHead, ResetHead, Tear, consumer, producer, history, results, Whole, Writes, Reads, Fix
  <2> QED  BY <2>1, <2>2
<1>4. CASE WResetTail \/ RResetTail
  <2>1. CallsInv'
    BY <1>4, <1>a DEF WResetTail, RResetTail, ResetTail, Tear, consumer, producer, history, results, CallsInv, Writes, Reads
  <2>2. ~torn' => Whole'
    BY <1>4, <1>a DEF WResetTail, RResetTail, ResetTail, Tear, consumer, producer, history, results, Whole, Writes, Reads, Fix
  <2> QED  BY <2>1, <2>2
<1>5. CASE WBegin
  BY <1>5, <1>a, <1>c DEF WBegin, ring, consumer, CallsInv, Whole, Writes, Reads
<1>6. CASE WLoadTail
  <2>1. wn' \in 0..Size-1
    BY <1>a DEF BoundsInv, TypeOK
  <2>2. CallsInv'
    BY <1>6, <1>a, <2>1 DEF WLoadTail, ring, consumer, history, results, CallsInv, Writes, Reads
  <2>3. ~torn' => Whole'
    BY <1>6, <1>a, <1>c DEF WLoadTail, ring, consumer, history, results, Whole, Writes, Reads
  <2> QED  BY <2>2, <2>3
<1>7. CASE WBranch
  BY <1>7, <1>a, <1>c DEF WBranch, ring, consumer, history, results, CallsInv, Whole, Writes, Reads
<1>8. CASE WCopy
  BY <1>8, <1>a, <1>c DEF WCopy, consumer, history, results, CallsInv, Whole, Writes, Reads
<1>9. CASE WPublish
  <2>1. CallsInv'
    <3>1. wpc' = "wrap" => tail' = Size
      BY <1>9 DEF WPublish
    <3> QED  BY <1>9, <1>a, <3>1 DEF WPublish, consumer, CallsInv, Writes, Reads
  <2>2. ASSUME ~torn' PROVE Whole'
    <3>1. Whole /\ Between' = Between + claim /\ claim > 0 /\ wpc = "copy" /\ rpc # "reset"
      BY <1>9, <1>a, <2>2, PublishBetween DEF WPublish, Whole, Writes, CallsInv, BoundsInv, TypeOK
    <3>2. wpc' \in {"idle", "wrap"} /\ UNCHANGED <<head, consumer>>
      BY <1>9 DEF WPublish
    <3>3. Reads => rn <= Between' /\ wpc # "reset"
      BY <1>a, <1>b, <3>1 DEF Whole, Reads, CallsInv, BoundsInv, TypeOK
    <3>4. /\ rpc' = rpc /\ rhead' = rhead /\ rn' = rn /\ rsrc' = rsrc /\ head' = head
          /\ rfirst' = rfirst /\ wpc' # "reset" /\ ~Writes' /\ Fix(head)' = Fix(head)
      BY <3>2 DEF consumer, Writes, Fix
    <3>5. Smaller(rn, Size - head)' = Smaller(rn, Size - head)
      BY <3>4
    <3> QED  BY <3>1, <3>2, <3>3, <3>4, <3>5 DEF Whole, Writes, Reads
  <2> QED  BY <2>1, <2>2
<1>10. CASE WWrap
  <2>1. CallsInv'
    BY <1>10, <1>a DEF WWrap, consumer, history, results, CallsInv, Writes, Reads, Fix
  <2>2. Between' = Between /\ Fix(head)' = Fix(head)
    BY <1>10, <1>a DEF WWrap, CallsInv, Between, Fix
  <2>3. ~torn' => Whole'
    BY <1>10, <1>a, <2>2 DEF WWrap, consumer, history, results, Whole, Writes, Reads
  <2> QED  BY <2>1, <2>3
<1>11. CASE RBegin
  BY <1>11, <1>a, <1>c DEF RBegin, ring, producer, CallsInv, Whole, Writes, Reads
<1>12. CASE RLoadHead
  BY <1>12, <1>a, <1>c DEF RLoadHead, ring, producer, history, results, CallsInv, Whole, Writes, Reads
<1>13. CASE RBranch
  BY <1>13, <1>a, <1>c DEF RBranch, ring, producer, history, results, CallsInv, Whole, Writes, Reads
<1>14. CASE RCopy
  BY <1>14, <1>a, <1>c DEF RCopy, ring, producer, history, results, CallsInv, Whole, Writes, Reads
<1>15. CASE RPublish
  <2>1. CallsInv'
    BY <1>15, <1>a DEF RPublish, producer, results, CallsInv, Writes, Reads, BoundsInv, TypeOK
  <2>2. ASSUME ~torn' PROVE Whole'
    <3>1. Whole /\ Between' = Between - rn /\ rn > 0 /\ rpc = "copy" /\ wpc # "reset"
      BY <1>15, <1>a, <2>2, TakeBetween DEF RPublish, Whole, Reads, CallsInv
    <3>2. rpc' \in {"wrap", "done"} /\ UNCHANGED <<tail, producer, claim>> /\ rn \in Nat
      BY <1>15, <1>a DEF RPublish, BoundsInv, TypeOK
    <3>3. Writes => claim \in Nat
      BY <1>a DEF CallsInv
    <3> QED  BY <1>a, <1>b, <3>1, <3>2, <3>3 DEF producer, Whole, Writes, Reads
  <2> QED  BY <2>1, <2>2
<1>16. CASE RWrap
  <2>1. CallsInv'
    BY <1>16, <1>a DEF RWrap, producer, history, results, CallsInv, Writes, Reads, Fix
  <2>2. Between' = Between /\ Fix(head)' = Fix(head)
    BY <1>16, <1>a DEF RWrap, CallsInv, Between, Fix
  <2>3. ~torn' => Whole'
    BY <1>16, <1>a, <2>2 DEF RWrap, producer, history, results, Whole, Writes, Reads
  <2> QED  BY <2>1, <2>3
<1>17. CASE RReturn
  BY <1>17, <1>a, <1>c DEF RReturn, ring, producer, CallsInv, Whole, Writes, Reads
<1>18. CASE WPlace
  <2>1. CallsInv'
    BY <1>18, <1>a DEF WPlace, ring, consumer, history, results, CallsInv, Writes, Reads
  <2>2. ASSUME ~torn' PROVE Whole'
    <3>1. /\ ~torn /\ Whole /\ wpc = "place" /\ wdst = tail /\ claim = wn /\ wpc' # "overrun"
          /\ UNCHANGED <<head, tail, wn, claim, wreq, whead, torn, rpc, rn, rhead, rsrc, rfirst>>
      BY <1>18, <1>a, <2>2 DEF WPlace, ring, consumer, history, results, Whole, BoundsInv, InBounds
    <3>2. wdst' = tail /\ wfirst' = Smaller(wn, Size - tail) /\ wpc' = "copy"
      <4>1. tail \in 0..Size-1 /\ wn \in 0..Size-1
        BY <1>a, <3>1 DEF BoundsInv, TypeOK, InBounds
      <4>2. CASE tail + wn <= Size
        BY <1>18, <3>1, <4>1, <4>2 DEF WPlace, Smaller
      <4>3. CASE tail + wn > Size
        BY <1>18, <3>1, <4>1, <4>3 DEF WPlace, Smaller
      <4> QED  BY <4>1, <4>2, <4>3
    <3>3. UNCHANGED <<Between, Smaller(wn, Size - tail), Smaller(rn, Size - head)>>
      BY <1>c, <3>1
    <3> QED  BY <3>1, <3>2, <3>3 DEF Whole, Writes, Reads
  <2> QED  BY <2>1, <2>2
<1>19. CASE RPlace
  <2>1. CallsInv'
    BY <1>19, <1>a DEF RPlace, ring, producer, history, results, CallsInv, Writes, Reads
  <2>2. ASSUME ~torn' PROVE Whole'
    <3>1. /\ ~torn /\ Whole /\ rpc = "place" /\ rsrc = head /\ rpc' # "overrun"
          /\ UNCHANGED <<head, tail, rn, claim, torn, wpc, wn, wreq, whead, wdst, wfirst>>
      BY <1>19, <1>a, <2>2 DEF RPlace, ring, producer, history, results, Whole, BoundsInv, InBounds
    <3>2. rsrc' = head /\ rfirst' = Smaller(rn, Size - head) /\ rpc' = "copy"
      <4>1. head \in 0..Size-1 /\ rn \in 0..Size
        BY <1>a, <3>1 DEF BoundsInv, TypeOK, InBounds
      <4>2. CASE head + rn <= Size
        BY <1>19, <3>1, <4>1, <4>2 DEF RPlace, Smaller
      <4>3. CASE head + rn > Size
        BY <1>19, <3>1, <4>1, <4>3 DEF RPlace, Smaller
      <4> QED  BY <4>1, <4>2, <4>3
    <3>3. UNCHANGED <<Between, Smaller(wn, Size - tail), Smaller(rn, Size - head)>>
      BY <1>c, <3>1
    <3> QED  BY <3>1, <3>2, <3>3 DEF Whole, Writes, Reads
  <2> QED  BY <2>1, <2>2
<1>20. CASE UNCHANGED vars
  BY <1>20, <1>a, <1>c DEF vars, ring, producer, consumer, history, results, CallsInv, Whole, Writes, Reads
<1> QED
  BY <1>1, <1>2, <1>3, <1>4, <1>5, <1>6, <1>7, <1>8, <1>9, <1>10, <1>11, <1>12, <1>13, <1>14,
     <1>15, <1>16, <1>17, <1>18, <1>19, <1>20 DEF Next, Producer, Consumer

LEMMA CountInitial == Init => Counter!Init
BY DEF Init, Between, Fix, Writes, Reads, Counter!Init, Counter!NoCall

\* Every step of the ring is one step of the count or none.
LEMMA CountRefines ==
  ASSUME CountInv, CountInv', [Next]_vars
  PROVE  [Counter!Next]_(Counter!vars)
<1> USE RingAssumption DEF RingAssumption, Counter!NoCall, Counter!Writing, Counter!Reading
<1>a. /\ BoundsInv /\ CallsInv /\ CallsInv' /\ (~torn => Whole) /\ (~torn' => Whole')
      /\ torn \in BOOLEAN /\ torn' \in BOOLEAN /\ claim \in 0..Size-1 /\ claim' \in 0..Size-1
  BY DEF CountInv, BoundsInv, TypeOK
<1>b. /\ Between \in 0..Size-1 /\ Between' \in 0..Size-1
      /\ tail # Size => SnapshotSpace(head, tail) = Size - 1 - Between
      /\ head # Size /\ ~(head = 0 /\ tail = Size) => SnapshotData(head, tail) = Between
  <2>1. Between' \in 0..Size-1
    <3>1. head' \in 0..Size /\ tail' \in 0..Size
      BY DEF CountInv, BoundsInv, TypeOK
    <3>2. Fix(head)' \in 0..Size-1 /\ Fix(tail)' \in 0..Size-1
      BY <3>1 DEF Fix
    <3> QED  BY <3>2 DEF Between
  <2> QED  BY <1>a, <2>1, BetweenValue
<1>c. UNCHANGED <<head, tail>> => Between' = Between
  BY DEF Between, Fix
<1>1. CASE WLoadHead
  <2>1. /\ wpc = "head" /\ wpc' = "tail" /\ UNCHANGED <<head, tail, rpc, rn, rreq, wreq>>
        /\ torn' = (torn \/ rpc = "reset") /\ wreq \in Nat /\ wreq > 0
        /\ claim' = Clamp(wreq, Size - 1 - Between)
    BY <1>1, <1>a, <1>b DEF WLoadHead, Tear, ring, consumer, CallsInv, BoundsInv, TypeOK, InBounds
  <2>2. claim' \in Counter!Share(Size - 1 - Between) /\ claim' # -1
    BY <1>b, <2>1 DEF Clamp, Counter!Share
  <2>3. claim' \in Counter!Share(Size - 1 - Between) /\ Size - 1 - Between \in 0..Size-1
    BY <1>b, <2>2
  <2>4. Size - 1 - Between \in Counter!Number(Size - 1 - (IF wpc = "reset" \/ rpc = "reset" THEN 0 ELSE Between))
    BY <2>1, <2>3 DEF Counter!Number
  <2> QED  BY <1>c, <2>1, <2>2, <2>4 DEF Writes, Reads, Counter!BeginWrite, Counter!Next
<1>2. CASE RLoadTail
  <2>1. /\ rpc = "tail" /\ UNCHANGED <<head, tail, wpc, claim>> /\ rpc' \in {"idle", "branch"}
        /\ rn' \in 0..Size /\ (rn' = 0 <=> rpc' = "idle") /\ rn' = Clamp(rreq, SnapshotData(rhead, tail))
        /\ torn' = (torn \/ wpc = "reset" \/ SeesEnd) /\ rreq \in Nat /\ rreq > 0
    BY <1>2, <1>a DEF RLoadTail, Tear, ring, producer, CallsInv, CountInv, BoundsInv, TypeOK
  <2>3. CASE torn'
    <3>1. torn' = TRUE
      BY <1>a, <2>3
    <3>2. (IF rn' = 0 THEN -1 ELSE rn') \in (IF rn' = 0 THEN {-1} ELSE 1..rn')
      BY <2>1
    <3>3. \E k \in 0..(Size - 1) + 1 :
            (IF rn' = 0 THEN -1 ELSE rn') \in IF k = 0 THEN {-1} ELSE 1..k
      BY <2>1, <3>2
    <3> QED
      BY <1>c, <2>1, <2>3, <3>1, <3>3 DEF Writes, Reads, Counter!BeginRead, Counter!Next
  <2>4. CASE ~torn'
    <3>1. ~torn /\ wpc # "reset" /\ rhead = head /\ ~(head = 0 /\ tail = Size)
      BY <1>a, <2>1, <2>4 DEF SeesEnd, Whole
    <3>2. head # Size
      BY <1>a, <2>1 DEF BoundsInv, InBounds
    <3>3. rn' = Clamp(rreq, Between)
      BY <1>b, <2>1, <3>1, <3>2
    <3>4. (IF rn' = 0 THEN -1 ELSE rn') \in IF Between = 0 THEN {-1} ELSE 1..Between
      BY <1>b, <2>1, <3>3 DEF Clamp
    <3> QED
      BY <1>c, <2>1, <2>4, <3>1, <3>4 DEF Writes, Reads, Counter!BeginRead, Counter!Next
  <2> QED  BY <2>3, <2>4
<1>3. CASE WResetHead \/ RResetHead
  <2>0. /\ torn' = (Writes \/ Reads \/ rpc = "tail") /\ UNCHANGED <<claim, rn>>
        /\ \/ wpc = "idle" /\ wpc' = "reset" /\ rpc' = rpc
           \/ rpc = "idle" /\ rpc' = "reset" /\ wpc' = wpc
    BY <1>3 DEF WResetHead, RResetHead, ResetHead, Tear, producer, consumer
  <2>1. 0 \in Counter!Number(0)
    BY DEF Counter!Number
  <2>2. Counter!FirstStore
    BY <1>a, <2>0, <2>1 DEF Writes, Reads, CallsInv, Counter!FirstStore
  <2> QED  BY <2>0, <2>2 DEF Writes, Reads, Counter!TxFirst, Counter!RxFirst, Counter!Next
<1>4. CASE WResetTail \/ RResetTail
  <2>0. /\ torn' = (torn \/ Writes \/ Reads) /\ UNCHANGED <<claim, rn, head>> /\ tail' = 0
        /\ \/ wpc = "reset" /\ wpc' = "idle" /\ rpc' = rpc
           \/ rpc = "reset" /\ rpc' = "idle" /\ wpc' = wpc
    BY <1>4 DEF WResetTail, RResetTail, ResetTail, Tear, producer, consumer
  <2>1. (IF wpc' = "reset" \/ rpc' = "reset" THEN 0 ELSE Between') \in Counter!Number(0)
    <3>1. CASE torn'
      BY <1>b, <3>1 DEF Counter!Number
    <3>2. CASE ~torn'
      <4>1. Fix(head) = 0 /\ Fix(head)' = Fix(head) /\ Fix(tail)' = 0
        BY <1>a, <2>0, <3>2 DEF Whole, Fix
      <4>2. Between' = 0
        BY <4>1 DEF Between
      <4> QED  BY <4>2 DEF Counter!Number
    <3> QED  BY <3>1, <3>2
  <2>2. Counter!SecondStore
    BY <1>a, <2>0, <2>1 DEF Writes, Reads, CallsInv, Counter!SecondStore
  <2> QED  BY <2>0, <2>2 DEF Writes, Reads, Counter!TxSecond, Counter!RxSecond, Counter!Next
<1>5. CASE WBegin \/ WBranch \/ WPlace \/ WCopy
  BY <1>5, <1>c DEF WBegin, WBranch, WPlace, WCopy, ring, consumer, history, results, Writes, Reads, Counter!vars
<1>6. CASE WLoadTail
  <2>1. /\ wpc = "tail" /\ wpc' \in {"idle", "branch"} /\ (wn' = 0 <=> wpc' = "idle")
        /\ wn' = Clamp(wreq, SnapshotSpace(whead, tail))
        /\ UNCHANGED <<head, tail, rpc, rn, torn, claim>>
    BY <1>6 DEF WLoadTail, ring, consumer, history, results
  <2>2. CASE wpc' = "branch"
    BY <1>c, <2>1, <2>2 DEF Writes, Reads, Counter!vars
  <2>3. CASE wpc' = "idle"
    <3>1. claim \in 0..Size-1 /\ (~torn => claim = 0 /\ rpc # "reset")
      BY <1>a, <2>1, <2>3 DEF Writes, CallsInv, Whole
    <3>2. (IF wpc' = "reset" \/ rpc' = "reset" THEN 0 ELSE Between')
            \in Counter!Number((IF wpc = "reset" \/ rpc = "reset" THEN 0 ELSE Between) + claim)
      BY <1>b, <1>c, <2>1, <2>3, <3>1 DEF Counter!Number
    <3> QED  BY <2>1, <2>3, <3>1, <3>2 DEF Writes, Reads, Counter!EndWrite, Counter!Next
  <2> QED  BY <2>1, <2>2, <2>3
<1>7. CASE WPublish
  <2>1. /\ wpc = "copy" /\ wpc' \in {"idle", "wrap"} /\ UNCHANGED <<rpc, rn, torn, claim>>
    BY <1>7 DEF WPublish, consumer
  <2>2. claim \in 0..Size-1 /\ (~torn => Between' = Between + claim /\ rpc # "reset")
    BY <1>7, <1>a, <2>1, PublishBetween DEF Writes, CallsInv, Whole
  <2>3. (IF wpc' = "reset" \/ rpc' = "reset" THEN 0 ELSE Between')
          \in Counter!Number((IF wpc = "reset" \/ rpc = "reset" THEN 0 ELSE Between) + claim)
    BY <1>b, <2>1, <2>2 DEF Counter!Number
  <2> QED  BY <2>1, <2>2, <2>3 DEF Writes, Reads, Counter!EndWrite, Counter!Next
<1>8. CASE WWrap
  <2>1. Between' = Between
    BY <1>8, <1>a DEF WWrap, CallsInv, Between, Fix
  <2> QED  BY <1>8, <2>1 DEF WWrap, consumer, history, Writes, Reads, Counter!vars
<1>9. CASE RLoadHead
  BY <1>9, <1>c DEF RLoadHead, ring, producer, history, Writes, Reads, Counter!Aim, Counter!Next
<1>10. CASE RBegin \/ RBranch \/ RPlace \/ RCopy \/ RReturn
  BY <1>10, <1>c DEF RBegin, RBranch, RPlace, RCopy, RReturn, ring, producer, history, results, Writes, Reads,
     Counter!vars
<1>11. CASE RPublish
  <2>1. /\ rpc = "copy" /\ rpc' \in {"wrap", "done"} /\ UNCHANGED <<wpc, rn, torn, claim>>
    BY <1>11 DEF RPublish, producer
  <2>2. rn \in Nat /\ rn > 0 /\ (~torn => Between' = Between - rn /\ wpc # "reset")
    BY <1>11, <1>a, <2>1, TakeBetween DEF Reads, CallsInv, Whole, BoundsInv, TypeOK
  <2>3. (IF wpc' = "reset" \/ rpc' = "reset" THEN 0 ELSE Between')
          \in Counter!Number((IF wpc = "reset" \/ rpc = "reset" THEN 0 ELSE Between) - rn)
    BY <1>b, <2>1, <2>2 DEF Counter!Number
  <2> QED  BY <2>1, <2>2, <2>3 DEF Writes, Reads, Counter!EndRead, Counter!Next
<1>12. CASE RWrap
  <2>1. Between' = Between
    BY <1>12, <1>a DEF RWrap, CallsInv, Between, Fix
  <2> QED  BY <1>12, <2>1 DEF RWrap, producer, history, Writes, Reads, Counter!vars
<1>13. CASE UNCHANGED vars
  BY <1>13, <1>c DEF vars, ring, producer, consumer, history, Writes, Reads, Counter!vars
<1> QED
  BY <1>1, <1>2, <1>3, <1>4, <1>5, <1>6, <1>7, <1>8, <1>9, <1>10, <1>11, <1>12, <1>13 DEF Next, Producer, Consumer

\* In every build, and whatever is purged when, a call on the ring moves the bytes
\* it found as long as no reset met a call (ringbuffer.c:54-79): the counts PortPair
\* gives its rings are all that a ring can do.
THEOREM RingIsCount == Spec => CountSpec
<1>1. CountInv /\ CountInv' /\ [Next]_vars => [Counter!Next]_(Counter!vars)
  BY CountRefines
<1> QED  BY CountInit, CountStep, CountInitial, <1>1, PTL DEF Spec, CountSpec, Counter!Spec
-----------------------------------------------------------------------------
(* What the slots hold until the ring is spoiled: the ring is a queue then,
   which a purge empties. *)

\* The i-th slot from p on.
Slot(p, i) == IF p + i < Size THEN p + i ELSE p + i - Size

\* The bytes in the ring. A purge has emptied it when its first store is made.
Held == IF wpc = "reset" \/ rpc = "reset" THEN 0 ELSE Between

\* The slots from Head on hold the accepted bytes the reader has not freed.
Contents == \A i \in 0..Held-1 : buf[Slot(Fix(head), i)] = accepted[Freed + i + 1]

\* A read has decided on no less than what was there when its call began, and what
\* it has copied is the next of what was accepted.
ReaderView ==
  /\ rpc \in {"head", "tail"} => ravail <= Held
  /\ rpc \in {"head", "tail", "branch", "place"} => rdata = <<>>
  /\ Reads => rn <= rreq /\ rn >= Smaller(rreq, ravail)
  /\ rpc \in {"copy", "wrap", "done"} =>
       /\ Len(rdata) <= rn
       /\ \A i \in 1..Len(rdata) : rdata[i] = accepted[Len(delivered) + i]
  /\ rpc \in {"wrap", "done"} => Len(rdata) = rn
  /\ \A i \in 1..Len(delivered) : delivered[i] = accepted[i]

\* A write has decided on no less than the room there was when its call began, and
\* what it has copied lies after Tail.
WriterView ==
  /\ wroom \in 0..Size-1
  /\ wpc = "head" => wroom <= Size - 1 - Held
  /\ wpc = "tail" => wroom <= SnapshotSpace(whead, tail)
  /\ wpc \in {"branch", "place", "copy"} => wn >= Smaller(wreq, wroom)
  /\ wpc = "copy" => \A i \in 0..wi-1 : buf[Slot(tail, i)] = wbase + i + 1

Order == Stored = Held /\ Contents /\ ReaderView /\ WriterView

FifoInv == CountInv /\ (torn => spoiled) /\ (~spoiled => Order)

LEMMA SlotRange ==
  ASSUME NEW p \in 0..Size-1, NEW i \in 0..Size-1
  PROVE  Slot(p, i) \in 0..Size-1
BY RingAssumption DEF RingAssumption, Slot

\* A copy whose first part ends where the buffer does goes on from one slot to the next.
LEMMA AtSlot ==
  ASSUME NEW p \in 0..Size-1, NEW n \in 0..Size, NEW i \in 0..n-1
  PROVE  At(p, Smaller(n, Size - p), i) = Slot(p, i)
BY RingAssumption DEF RingAssumption, At, Slot, Smaller

\* What a ring that is not spoiled holds.
LEMMA Unspoiled ==
  ASSUME FifoInv, ~spoiled
  PROVE  /\ ~torn /\ Whole /\ Order
         /\ BoundsInv /\ CallsInv
         /\ Held \in 0..Size-1
         /\ Freed = Len(delivered) + (IF rpc \in {"wrap", "done"} THEN rn ELSE 0)
         /\ Freed \in Nat
         /\ Len(accepted) = Freed + Held
         /\ Writes => Held = Between /\ claim + Held <= Size - 1
         /\ Reads => Held = Between /\ rn <= Held
<1> USE RingAssumption DEF RingAssumption
<1>1. ~torn /\ Whole /\ Order /\ BoundsInv /\ CallsInv
  BY DEF FifoInv, CountInv
<1>2. Between \in 0..Size-1
  BY <1>1, BetweenValue
<1>3. Held \in 0..Size-1
  BY <1>2 DEF Held
<1>4. Freed \in Nat /\ Len(accepted) \in Nat
  BY <1>1 DEF BoundsInv, TypeOK, Freed
<1>5. Len(accepted) = Freed + Held
  BY <1>1, <1>3, <1>4 DEF Order, Stored
<1>6. Writes => Held = Between /\ claim + Held <= Size - 1
  BY <1>1 DEF Whole, Writes, Held
<1>7. Reads => Held = Between /\ rn <= Held
  BY <1>1 DEF Whole, Reads, Held
<1> QED  BY <1>1, <1>3, <1>4, <1>5, <1>6, <1>7 DEF Freed

\* Where a read that takes n bytes leaves Head, End counting as Base.
LEMMA TakenHead ==
  ASSUME BoundsInv, Whole, RPublish
  PROVE  Fix(head') = Slot(head, rn)
<1> USE RingAssumption DEF RingAssumption
<1>1. /\ rpc = "copy" /\ rsrc = head /\ rfirst = Smaller(rn, Size - head)
      /\ head \in 0..Size-1 /\ rn \in 0..Size
  BY DEF RPublish, Whole, BoundsInv, TypeOK, InBounds
<1>2. head' = IF head + rn > Size THEN head + rn - Size ELSE head + rn
  <2>1. CASE head + rn > Size
    <3>1. rfirst = Size - head /\ rfirst < rn
      BY <1>1, <2>1 DEF Smaller
    <3> QED  BY <1>1, <2>1, <3>1 DEF RPublish
  <2>2. CASE head + rn <= Size
    <3>1. rfirst = rn
      BY <1>1, <2>2 DEF Smaller
    <3> QED  BY <1>1, <2>2, <3>1 DEF RPublish
  <2> QED  BY <1>1, <2>1, <2>2
<1> QED  BY <1>1, <1>2 DEF Fix, Slot

\* A step that leaves both pointers alone, and no reset on or off, leaves what
\* the ring holds.
LEMMA HeldSame ==
  ASSUME UNCHANGED <<head, tail>>,
         (wpc = "reset" \/ rpc = "reset") <=> (wpc' = "reset" \/ rpc' = "reset")
  PROVE  Held' = Held
BY DEF Held, Between, Fix

\* Bytes that are added while it looks do not make a read wrong ...
LEMMA ReaderKeeps ==
  ASSUME ReaderView, UNCHANGED <<consumer, delivered, accepted, ravail>>, Held' >= Held,
         Held \in Int, Held' \in Int, ravail \in Int
  PROVE  ReaderView'
<1>1. ravail <= Held => ravail' <= Held'
  OBVIOUS
<1>2. UNCHANGED <<rpc, rreq, rn, rdata, delivered, accepted, ravail, Reads, Smaller(rreq, ravail)>>
  BY DEF consumer, Reads
<1> QED  BY <1>1, <1>2 DEF ReaderView

\* ... nor does room that is made while it looks make a write wrong.
LEMMA WriterKeeps ==
  ASSUME WriterView, UNCHANGED <<producer, wroom, tail, buf>>, Held' <= Held,
         Held \in 0..Size-1, Held' \in 0..Size-1
  PROVE  WriterView'
<1> USE RingAssumption DEF RingAssumption
<1>1. PICK h \in 0..Size-1 : h = Held
  OBVIOUS
<1>2. PICK k \in 0..Size-1 : k = Held'
  OBVIOUS
<1>3. /\ wroom \in 0..Size-1 /\ wroom' = wroom
      /\ wpc = "head" => wroom <= Size - 1 - k
  <2>1. wroom \in 0..Size-1 /\ (wpc = "head" => wroom <= Size - 1 - h)
    BY <1>1 DEF WriterView
  <2>2. wroom' = wroom
    OBVIOUS
  <2>3. k <= h
    BY <1>1, <1>2
  <2> QED  BY <2>1, <2>2, <2>3
<1>4. UNCHANGED <<wpc, wreq, wn, wi, wbase, wroom, tail, buf, Smaller(wreq, wroom),
                  SnapshotSpace(whead, tail)>>
  BY DEF producer
<1> QED  BY <1>2, <1>3, <1>4 DEF WriterView

LEMMA FifoInit == Init => FifoInv
<1> SUFFICES ASSUME Init PROVE FifoInv
  OBVIOUS
<1> USE RingAssumption DEF RingAssumption
<1>1. Held = 0 /\ Freed = 0
  BY DEF Init, Held, Between, Freed, Fix
<1> QED
  BY <1>1, CountInit DEF Init, FifoInv, Order, Stored, Contents, ReaderView, WriterView, Reads

\* A spoiled ring stays so, and one that a reset tears is spoiled.
LEMMA SpoiledStays ==
  ASSUME [Next]_vars, torn => spoiled, torn \in BOOLEAN, spoiled \in BOOLEAN
  PROVE  (spoiled => spoiled') /\ (torn' => spoiled')
<1>1. CASE WLoadHead \/ WResetHead \/ WResetTail \/ RLoadTail \/ RResetHead \/ RResetTail
  BY <1>1 DEF WLoadHead, WResetHead, WResetTail, RLoadTail, RResetHead, RResetTail,
     ResetHead, ResetTail, Tear
<1>2. CASE RPublish
  BY <1>2 DEF RPublish
<1>3. CASE WBegin \/ WLoadTail \/ WBranch \/ WPlace \/ WCopy \/ WPublish \/ WWrap
  BY <1>3 DEF WBegin, WLoadTail, WBranch, WPlace, WCopy, WPublish, WWrap, history
<1>4. CASE RBegin \/ RLoadHead \/ RBranch \/ RPlace \/ RCopy \/ RWrap \/ RReturn
  BY <1>4 DEF RBegin, RLoadHead, RBranch, RPlace, RCopy, RWrap, RReturn, history
<1>5. CASE UNCHANGED vars
  BY <1>5 DEF vars, history
<1> QED  BY <1>1, <1>2, <1>3, <1>4, <1>5 DEF Next, Producer, Consumer

LEMMA FifoStep == FifoInv /\ [Next]_vars => FifoInv'
<1> SUFFICES ASSUME FifoInv, [Next]_vars PROVE FifoInv'
  OBVIOUS
<1> USE RingAssumption DEF RingAssumption
<1>a. /\ CountInv /\ CountInv' /\ BoundsInv /\ BoundsInv'
      /\ (spoiled => spoiled') /\ (torn' => spoiled')
  <2>1. CountInv /\ CountInv' /\ BoundsInv /\ BoundsInv'
    BY CountStep DEF FifoInv, CountInv
  <2>2. torn \in BOOLEAN /\ spoiled \in BOOLEAN /\ (torn => spoiled)
    BY <2>1 DEF FifoInv, BoundsInv, TypeOK
  <2> QED  BY <2>1, <2>2, SpoiledStays
<1>s. SUFFICES ASSUME ~spoiled' PROVE Order'
  BY <1>a DEF FifoInv
<1>b. /\ ~spoiled /\ ~torn /\ ~torn' /\ Whole /\ Order /\ CallsInv
      /\ Held \in 0..Size-1
      /\ Freed = Len(delivered) + (IF rpc \in {"wrap", "done"} THEN rn ELSE 0)
      /\ Freed \in Nat
      /\ Len(accepted) = Freed + Held
      /\ Writes => Held = Between /\ claim + Held <= Size - 1
      /\ Reads => Held = Between /\ rn <= Held
  BY <1>a, <1>s, Unspoiled
<1>c. Held' \in 0..Size-1
  <2>1. head' \in 0..Size /\ tail' \in 0..Size
    BY <1>a DEF BoundsInv, TypeOK
  <2>2. Fix(head)' \in 0..Size-1 /\ Fix(tail)' \in 0..Size-1
    BY <2>1 DEF Fix
  <2> QED  BY <2>2 DEF Held, Between
<1>d. /\ Len(delivered) \in Nat /\ Len(rdata) \in Nat /\ rn \in Nat /\ rreq \in Nat
      /\ ravail \in Int /\ wroom \in 0..Size-1 /\ wn \in Nat /\ wreq \in Nat /\ wbase \in Nat
      /\ rdata \in Seq(0..MaxOffered) /\ accepted \in Seq(1..MaxOffered)
      /\ delivered \in Seq(0..MaxOffered) /\ buf \in [0..Size-1 -> 0..MaxOffered]
  <2>1. wroom \in 0..Size-1
    BY <1>b DEF Order, WriterView
  <2>2. TypeOK
    BY <1>a DEF BoundsInv
  <2>3. /\ rdata \in Seq(0..MaxOffered) /\ accepted \in Seq(1..MaxOffered)
        /\ delivered \in Seq(0..MaxOffered) /\ buf \in [0..Size-1 -> 0..MaxOffered]
        /\ rn \in Nat /\ rreq \in Nat /\ ravail \in Int /\ wn \in Nat /\ wreq \in Nat
        /\ wbase \in Nat
    BY <2>2 DEF TypeOK
  <2> QED  BY <2>1, <2>3
<1>1. CASE WBegin
  <2>1. /\ wpc = "idle" /\ wpc' \in {"idle", "head"} /\ wroom' = Size - 1 - Stored
        /\ UNCHANGED <<buf, head, tail, consumer, delivered, accepted, ravail>>
    BY <1>1 DEF WBegin, ring
  <2>2. Held' = Held /\ Freed' = Freed /\ Stored' = Stored
    BY <2>1, HeldSame DEF consumer, Freed, Stored
  <2>3. Contents'
    BY <1>b, <2>1, <2>2 DEF Order, Contents
  <2>4. ReaderView'
    BY <1>b, <1>d, <2>1, <2>2, ReaderKeeps DEF Order
  <2>5. WriterView'
    <3>1. wroom' = Size - 1 - Held /\ wroom' = Size - 1 - Held'
      BY <1>b, <2>1, <2>2 DEF Order
    <3> QED  BY <1>b, <2>1, <3>1 DEF WriterView
  <2> QED  BY <1>b, <2>2, <2>3, <2>4, <2>5 DEF Order
<1>2. CASE WLoadHead
  <2>1. /\ wpc = "head" /\ wpc' = "tail" /\ whead' = head /\ rpc # "reset"
        /\ UNCHANGED <<buf, head, tail, consumer, delivered, accepted, ravail, wroom>>
    BY <1>2, <1>b DEF WLoadHead, Tear, ring, results
  <2>2. Held' = Held /\ Freed' = Freed /\ Stored' = Stored
    BY <2>1, HeldSame DEF consumer, Freed, Stored
  <2>3. Contents'
    BY <1>b, <2>1, <2>2 DEF Order, Contents
  <2>4. ReaderView'
    BY <1>b, <1>d, <2>1, <2>2, ReaderKeeps DEF Order
  <2>5. WriterView'
    <3>1. SnapshotSpace(whead', tail') = Size - 1 - Held
      BY <1>a, <2>1, BetweenValue DEF Held, BoundsInv, InBounds
    <3>2. wroom <= Size - 1 - Held
      BY <1>b, <2>1 DEF Order, WriterView
    <3> QED  BY <1>d, <2>1, <3>1, <3>2 DEF WriterView
  <2> QED  BY <1>b, <2>2, <2>3, <2>4, <2>5 DEF Order
<1>3. CASE WLoadTail
  <2>1. /\ wpc = "tail" /\ wpc' \in {"idle", "branch"}
        /\ UNCHANGED <<buf, head, tail, consumer, delivered, accepted, ravail, wroom, wreq>>
    BY <1>3 DEF WLoadTail, ring, history, results
  <2>2. Held' = Held /\ Freed' = Freed /\ Stored' = Stored
    BY <2>1, HeldSame DEF consumer, Freed, Stored
  <2>3. Contents'
    BY <1>b, <2>1, <2>2 DEF Order, Contents
  <2>4. ReaderView'
    BY <1>b, <1>d, <2>1, <2>2, ReaderKeeps DEF Order
  <2>5. WriterView'
    <3>1. wroom <= SnapshotSpace(whead, tail) /\ SnapshotSpace(whead, tail) \in 0..Size-1
      <4>1. whead \in 0..Size /\ tail \in 0..Size-1
        BY <1>a, <2>1 DEF BoundsInv, TypeOK, InBounds
      <4> QED  BY <1>b, <2>1, <4>1, SpaceValue DEF Order, WriterView
    <3>2. wn' >= Smaller(wreq, wroom)
      BY <1>3, <1>d, <3>1 DEF WLoadTail, Clamp, Smaller
    <3> QED  BY <1>d, <2>1, <3>2 DEF WriterView
  <2> QED  BY <1>b, <2>2, <2>3, <2>4, <2>5 DEF Order
<1>4. CASE WBranch
  <2>1. /\ wpc = "branch" /\ wpc' = "place"
        /\ UNCHANGED <<buf, head, tail, consumer, delivered, accepted, ravail, wroom, wreq, wn>>
    BY <1>4 DEF WBranch, ring, history, results
  <2>2. Held' = Held /\ Freed' = Freed /\ Stored' = Stored
    BY <2>1, HeldSame DEF consumer, Freed, Stored
  <2>3. Contents'
    BY <1>b, <2>1, <2>2 DEF Order, Contents
  <2>4. ReaderView'
    BY <1>b, <1>d, <2>1, <2>2, ReaderKeeps DEF Order
  <2>5. WriterView'
    BY <1>b, <2>1 DEF Order, WriterView, Smaller
  <2> QED  BY <1>b, <2>2, <2>3, <2>4, <2>5 DEF Order
<1>5. CASE WPlace
  <2>1. /\ wpc = "place" /\ wpc' \in {"copy", "overrun"} /\ wi' = 0
        /\ UNCHANGED <<buf, head, tail, consumer, delivered, accepted, ravail, wroom, wreq, wn>>
    BY <1>5 DEF WPlace, ring, history, results
  <2>2. Held' = Held /\ Freed' = Freed /\ Stored' = Stored
    BY <2>1, HeldSame DEF consumer, Freed, Stored
  <2>3. Contents'
    BY <1>b, <2>1, <2>2 DEF Order, Contents
  <2>4. ReaderView'
    BY <1>b, <1>d, <2>1, <2>2, ReaderKeeps DEF Order
  <2>5. WriterView'
    BY <1>b, <2>1 DEF Order, WriterView, Smaller
  <2> QED  BY <1>b, <2>2, <2>3, <2>4, <2>5 DEF Order
<1>6. CASE WCopy
  <2>1. /\ wpc = "copy" /\ wpc' = "copy" /\ wi' = wi + 1 /\ wi < wn /\ wi \in 0..Size-1
        /\ wn \in 0..Size-1 /\ wn + Held <= Size - 1 /\ Held = Between
        /\ tail \in 0..Size-1 /\ head \in 0..Size
        /\ buf' = [buf EXCEPT ![At(wdst, wfirst, wi)] = wbase + wi + 1]
        /\ UNCHANGED <<head, tail, consumer, delivered, accepted, ravail, wroom, wreq, wn, wbase>>
    BY <1>6, <1>a, <1>b DEF WCopy, history, results, Whole, Writes, BoundsInv, TypeOK, InBounds
  <2>2. Held' = Held /\ Freed' = Freed /\ Stored' = Stored
    BY <2>1, HeldSame DEF consumer, Freed, Stored
  <2>3. At(wdst, wfirst, wi) = Slot(tail, wi) /\ Slot(tail, wi) \in 0..Size-1
    <3>1. wdst = tail /\ wfirst = Smaller(wn, Size - tail)
      BY <1>b, <2>1 DEF Whole
    <3>2. wi \in 0..wn-1 /\ wn \in 0..Size
      BY <2>1
    <3> QED  BY <2>1, <3>1, <3>2, AtSlot, SlotRange
  <2>4. Contents'
    <3>1. ASSUME NEW i \in 0..Held-1
          PROVE  Slot(Fix(head), i) # Slot(tail, wi) /\ Slot(Fix(head), i) \in 0..Size-1
      <4>1. PICK h \in 0..Size-1 : h = Fix(head)
        BY <2>1 DEF Fix
      <4>2. Fix(tail) = tail
        BY <2>1 DEF Fix
      <4>3. Held = IF tail >= h THEN tail - h ELSE tail - h + Size
        BY <2>1, <4>1, <4>2 DEF Between
      <4>4. Slot(h, i) # Slot(tail, wi) /\ Slot(h, i) \in 0..Size-1
        BY <2>1, <4>3 DEF Slot
      <4> QED  BY <4>1, <4>4
    <3>2. ASSUME NEW i \in 0..Held-1
          PROVE  buf'[Slot(Fix(head), i)] = accepted[Freed + i + 1]
      BY <1>b, <1>d, <2>1, <2>3, <3>1 DEF Order, Contents
    <3> QED  BY <2>1, <2>2, <3>2 DEF Contents
  <2>5. ReaderView'
    BY <1>b, <1>d, <2>1, <2>2, ReaderKeeps DEF Order
  <2>6. WriterView'
    <3>1. ASSUME NEW i \in 0..wi
          PROVE  buf'[Slot(tail, i)] = wbase + i + 1
      <4>1. CASE i = wi
        BY <1>d, <2>1, <2>3, <4>1
      <4>2. CASE i # wi
        <5>1. i \in 0..wi-1
          BY <2>1, <4>2
        <5>2. Slot(tail, i) # Slot(tail, wi) /\ Slot(tail, i) \in 0..Size-1
          BY <2>1, <5>1 DEF Slot
        <5>3. buf[Slot(tail, i)] = wbase + i + 1
          BY <1>b, <2>1, <5>1 DEF Order, WriterView
        <5> QED  BY <1>d, <2>1, <2>3, <5>2, <5>3
      <4> QED  BY <4>1, <4>2
    <3>2. \A i \in 0..wi'-1 : buf'[Slot(tail', i)] = wbase' + i + 1
      BY <2>1, <3>1
    <3> QED  BY <1>b, <2>1, <3>2 DEF Order, WriterView, Smaller
  <2> QED  BY <1>b, <2>2, <2>4, <2>5, <2>6 DEF Order
<1>7. CASE WPublish
  <2>1. /\ wpc = "copy" /\ wpc' \in {"idle", "wrap"} /\ wi = wn /\ wn <= wreq /\ rpc # "reset"
        /\ claim = wn /\ wn + Held <= Size - 1 /\ Held = Between /\ wn > 0 /\ wn \in Nat
        /\ tail \in 0..Size-1 /\ head \in 0..Size
        /\ accepted' = accepted \o SubSeq(Request, 1, wn)
        /\ UNCHANGED <<buf, head, consumer, delivered, ravail, wroom, wreq, wn, wbase>>
    <3>1. wpc = "copy" /\ wi = wn /\ wpc' \in {"idle", "wrap"}
      BY <1>7 DEF WPublish
    <3>2. /\ wn <= wreq /\ wn \in Nat /\ wn > 0 /\ tail \in 0..Size-1 /\ head \in 0..Size
      BY <1>a, <1>b, <3>1 DEF BoundsInv, TypeOK, InBounds, CallsInv
    <3>3. /\ accepted' = accepted \o SubSeq(Request, 1, wn)
          /\ UNCHANGED <<buf, head, consumer, delivered, ravail, wroom, wreq, wn, wbase>>
      BY <1>7 DEF WPublish
    <3>4. claim = wn /\ rpc # "reset" /\ Writes
      BY <1>b, <3>1 DEF Whole, Writes
    <3> QED  BY <1>b, <3>1, <3>2, <3>3, <3>4
  <2>2. Held' = Held + wn /\ Freed' = Freed
    <3>1. Between' = Between + claim
      BY <1>7, <1>a, <1>b, PublishBetween
    <3>2. wpc' # "reset" /\ rpc' # "reset"
      BY <2>1 DEF consumer
    <3>3. Held' = Between'
      BY <3>2 DEF Held
    <3>4. Freed' = Freed
      BY <2>1 DEF consumer, Freed
    <3> QED  BY <2>1, <3>1, <3>3, <3>4
  <2>3. /\ SubSeq(Request, 1, wn) \in Seq(1..MaxOffered)
        /\ Len(SubSeq(Request, 1, wn)) = wn
        /\ \A i \in 1..wn : SubSeq(Request, 1, wn)[i] = wbase + i
    <3>1. wn \in 0..wreq
      BY <1>d, <2>1
    <3> QED  BY <1>a, <3>1, RequestType
  <2>4. Len(accepted') = Len(accepted) + wn
    BY <1>d, <2>1, <2>3, ConcatProperties
  <2>5. ASSUME NEW i \in 1..Len(accepted) PROVE accepted'[i] = accepted[i]
    <3>1. i \in 1..Len(accepted) + Len(SubSeq(Request, 1, wn))
      BY <1>b, <2>1, <2>3
    <3> QED  BY <1>d, <2>1, <2>3, <3>1, ConcatProperties
  <2>6. ASSUME NEW i \in 1..wn PROVE accepted'[Len(accepted) + i] = wbase + i
    <3>1. Len(accepted) \in Nat
      BY <1>b
    <3>2. /\ Len(accepted) + i \in 1..Len(accepted) + Len(SubSeq(Request, 1, wn))
          /\ ~(Len(accepted) + i <= Len(accepted)) /\ Len(accepted) + i - Len(accepted) = i
      BY <2>1, <2>3, <3>1
    <3>3. accepted'[Len(accepted) + i] = SubSeq(Request, 1, wn)[Len(accepted) + i - Len(accepted)]
      BY <1>d, <2>1, <2>3, <3>2, ConcatProperties
    <3> QED  BY <2>3, <3>2, <3>3
  <2>7. Stored' = Held'
    <3>1. Len(accepted) - Freed = Held
      BY <1>b
    <3>2. Stored' = Len(accepted') - Freed'
      BY DEF Stored
    <3> QED  BY <1>b, <2>1, <2>2, <2>4, <3>2
  <2>8. Contents'
    <3>1. ASSUME NEW i \in 0..Held-1
          PROVE  buf[Slot(Fix(head), i)] = accepted'[Freed + i + 1]
      <4>1. Freed + i + 1 \in 1..Len(accepted)
        BY <1>b
      <4>2. accepted'[Freed + i + 1] = accepted[Freed + i + 1]
        BY <2>5, <4>1
      <4> QED  BY <1>b, <4>2 DEF Order, Contents
    <3>2. ASSUME NEW j \in 0..wn-1
          PROVE  buf[Slot(Fix(head), Held + j)] = accepted'[Freed + (Held + j) + 1]
      <4>1. Slot(Fix(head), Held + j) = Slot(tail, j)
        <5>1. PICK h \in 0..Size-1 : h = Fix(head)
          BY <2>1 DEF Fix
        <5>2. Fix(tail) = tail
          BY <2>1 DEF Fix
        <5>3. Held = IF tail >= h THEN tail - h ELSE tail - h + Size
          BY <2>1, <5>1, <5>2 DEF Between
        <5>4. Slot(h, Held + j) = Slot(tail, j)
          BY <1>b, <2>1, <5>3 DEF Slot
        <5> QED  BY <5>1, <5>4
      <4>2. buf[Slot(tail, j)] = wbase + j + 1
        <5>1. j \in 0..wi-1
          BY <2>1
        <5> QED  BY <1>b, <2>1, <5>1 DEF Order, WriterView
      <4>3. accepted'[Len(accepted) + (j + 1)] = wbase + (j + 1)
        <5>1. j + 1 \in 1..wn
          BY <2>1
        <5> QED  BY <2>6, <5>1
      <4>4. Freed + (Held + j) + 1 = Len(accepted) + (j + 1)
        <5>1. Freed + Held = Len(accepted)
          BY <1>b
        <5>2. /\ Freed \in Nat /\ Held \in Nat /\ Len(accepted) \in Nat
              /\ j \in Nat
          BY <1>b, <2>1
        <5> QED  BY <5>1, <5>2
      <4>5. wbase + (j + 1) = wbase + j + 1
        BY <1>d
      <4> QED  BY <4>1, <4>2, <4>3, <4>4, <4>5
    <3>3. ASSUME NEW i \in 0..Held+wn-1
          PROVE  buf[Slot(Fix(head), i)] = accepted'[Freed + i + 1]
      <4>1. CASE i < Held
        BY <1>b, <3>1, <4>1
      <4>2. CASE i >= Held
        <5>1. i - Held \in 0..wn-1 /\ Held + (i - Held) = i
          BY <1>b, <2>1, <4>2
        <5> QED  BY <3>2, <5>1
      <4> QED  BY <1>b, <4>1, <4>2
    <3>4. buf' = buf /\ Fix(head)' = Fix(head)
      BY <2>1 DEF Fix
    <3>5. PICK k \in Nat : k = Held + wn
      BY <1>b, <2>1
    <3>6. \A i \in 0..k-1 : buf[Slot(Fix(head), i)] = accepted'[Freed + i + 1]
      <4> SUFFICES ASSUME NEW i \in 0..k-1
                   PROVE  buf[Slot(Fix(head), i)] = accepted'[Freed + i + 1]
        OBVIOUS
      <4>1. i \in 0..Held+wn-1
        BY <1>b, <2>1, <3>5
      <4> QED  BY <3>3, <4>1
    <3>7. Held' = k
      BY <2>2, <3>5
    <3> QED  BY <2>2, <3>4, <3>6, <3>7 DEF Contents
  <2>9. ReaderView'
    <3>1. \A i \in 1..Len(delivered) : delivered[i] = accepted'[i]
      <4>1. \A i \in 1..Len(delivered) : i \in 1..Len(accepted)
        BY <1>b, <1>d
      <4> QED  BY <1>b, <2>5, <4>1 DEF Order, ReaderView
    <3>2. ASSUME rpc \in {"copy", "wrap", "done"}, NEW i \in 1..Len(rdata)
          PROVE  rdata[i] = accepted'[Len(delivered) + i]
      <4>1. Len(delivered) + Len(rdata) <= Len(accepted)
        <5>1. CASE rpc = "copy"
          <6>1. Len(rdata) <= rn /\ rn <= Held /\ Freed = Len(delivered)
            BY <1>b, <1>d, <5>1 DEF Order, ReaderView, Reads
          <6>2. PICK held \in Nat : held = Held
            BY <1>b
          <6>3. rn <= held /\ Len(accepted) = Len(delivered) + held
            BY <1>b, <6>1, <6>2
          <6> QED  BY <1>d, <6>1, <6>3
        <5>2. CASE rpc \in {"wrap", "done"}
          <6>1. Len(rdata) = rn /\ Freed = Len(delivered) + rn
            BY <1>b, <5>2 DEF Order, ReaderView
          <6>2. PICK held \in Nat : held = Held
            BY <1>b
          <6>3. Len(accepted) = Len(delivered) + rn + held
            BY <1>b, <6>1, <6>2
          <6> QED  BY <1>d, <6>1, <6>2, <6>3
        <5> QED  BY <3>2, <5>1, <5>2
      <4>2. Len(accepted) \in Nat
        BY <1>d
      <4>3. Len(delivered) + i \in 1..Len(accepted)
        BY <1>d, <4>1, <4>2
      <4>4. rdata[i] = accepted[Len(delivered) + i]
        BY <1>b, <3>2 DEF Order, ReaderView
      <4> QED  BY <2>5, <4>3, <4>4
    <3>3. rpc \in {"head", "tail"} => ravail <= Held'
      <4>1. rpc \in {"head", "tail"} => ravail <= Held
        BY <1>b DEF Order, ReaderView
      <4> QED  BY <1>b, <1>d, <2>1, <2>2, <4>1
    <3>4. UNCHANGED <<rpc, rreq, rn, rdata, delivered, ravail, Reads, Smaller(rreq, ravail)>>
      BY <2>1 DEF consumer, Reads
    <3> QED  BY <1>b, <3>1, <3>2, <3>3, <3>4 DEF Order, ReaderView
  <2>10. WriterView'
    BY <1>d, <2>1 DEF WriterView
  <2> QED  BY <2>7, <2>8, <2>9, <2>10 DEF Order
<1>8. CASE WWrap
  <2>1. /\ wpc = "wrap" /\ wpc' = "idle" /\ tail \in {0, Size} /\ tail' = 0
        /\ UNCHANGED <<buf, head, consumer, delivered, accepted, ravail, wroom>>
    BY <1>8, <1>b DEF WWrap, Fix, history, results, CallsInv
  <2>2. Held' = Held /\ Freed' = Freed /\ Stored' = Stored
    <3>1. Between' = Between
      BY <2>1 DEF Between, Fix
    <3> QED  BY <2>1, <3>1 DEF Held, consumer, Freed, Stored
  <2>3. Contents'
    <3>1. Fix(head)' = Fix(head)
      BY <2>1 DEF Fix
    <3> QED  BY <1>b, <2>1, <2>2, <3>1 DEF Order, Contents
  <2>4. ReaderView'
    BY <1>b, <1>d, <2>1, <2>2, ReaderKeeps DEF Order
  <2>5. WriterView'
    BY <1>d, <2>1 DEF WriterView
  <2> QED  BY <1>b, <2>2, <2>3, <2>4, <2>5 DEF Order
<1>9. CASE WResetHead \/ RResetHead
  <2>1. /\ ~Writes /\ ~Reads /\ rpc # "tail" /\ accepted' = FirstOf(accepted, Freed)
        /\ wpc' = "reset" \/ rpc' = "reset"
        /\ wpc' \in {wpc, "reset"} /\ rpc' \in {rpc, "reset"}
        /\ UNCHANGED <<delivered, rdata, rn, wroom, tail>> /\ ravail' = 0
        /\ rpc \in {"wrap", "done"} => rpc' = rpc
        /\ rpc' \in {"wrap", "done"} => rpc = rpc'
    <3>1. ~(Writes \/ Reads \/ rpc = "tail")
      BY <1>9, <1>b DEF WResetHead, RResetHead, ResetHead, Tear
    <3>2. accepted' = FirstOf(accepted, Freed)
      BY <1>9, <1>s DEF WResetHead, RResetHead, ResetHead
    <3> QED
      BY <1>9, <3>1, <3>2 DEF WResetHead, RResetHead, ResetHead, producer, consumer
  <2>2. /\ Len(accepted') = Freed
        /\ \A i \in 1..Freed : accepted'[i] = accepted[i]
    <3>1. Freed <= Len(accepted)
      BY <1>b
    <3>2. /\ Len(FirstOf(accepted, Freed)) = Freed
          /\ \A i \in 1..Freed : FirstOf(accepted, Freed)[i] = accepted[i]
      <4>1. accepted \in Seq(1..MaxOffered) /\ Freed \in Nat
        BY <1>b, <1>d
      <4> QED  BY <3>1, <4>1, FirstOfType
    <3> QED  BY <2>1, <3>2
  <2>3. Held' = 0 /\ Freed' = Freed /\ Stored' = 0
    <3>1. Held' = 0
      BY <2>1 DEF Held
    <3>2. Freed' = Freed
      BY <2>1 DEF Freed
    <3> QED  BY <1>b, <2>2, <3>1, <3>2 DEF Stored
  <2>4. Contents'
    BY <2>3 DEF Contents
  <2>5. ReaderView'
    <3>1. \A i \in 1..Len(delivered) : delivered[i] = accepted'[i]
      <4>1. \A i \in 1..Len(delivered) : i \in 1..Freed
        BY <1>b, <1>d
      <4> QED  BY <1>b, <2>2, <4>1 DEF Order, ReaderView
    <3>2. ASSUME rpc \in {"wrap", "done"}, NEW i \in 1..Len(rdata)
          PROVE  rdata[i] = accepted'[Len(delivered) + i]
      <4>1. Len(rdata) = rn /\ Freed = Len(delivered) + rn
        BY <1>b, <3>2 DEF Order, ReaderView
      <4>2. Len(delivered) + i \in 1..Freed
        BY <1>d, <4>1
      <4> QED  BY <1>b, <2>2, <3>2, <4>2 DEF Order, ReaderView
    <3>3. ~Reads' /\ rpc' \notin {"tail", "branch", "place", "copy"}
      BY <2>1 DEF Reads
    <3>4. rpc' = "head" => ravail' <= Held' /\ rdata' = <<>>
      BY <1>b, <2>1, <2>3 DEF Order, ReaderView
    <3>5. rpc' \in {"wrap", "done"} => /\ Len(rdata') = rn' /\ Len(rdata') <= rn'
                                       /\ \A i \in 1..Len(rdata') : rdata'[i] = accepted'[Len(delivered') + i]
      <4>1. rpc \in {"wrap", "done"} => Len(rdata) = rn /\ Len(rdata) <= rn
        BY <1>b, <1>d DEF Order, ReaderView
      <4> QED  BY <2>1, <3>2, <4>1
    <3> QED  BY <2>1, <3>1, <3>3, <3>4, <3>5 DEF ReaderView
  <2>6. WriterView'
    <3>1. wpc' \notin {"tail", "branch", "place", "copy"}
      BY <2>1 DEF Writes
    <3>2. wroom' \in 0..Size-1 /\ wroom' <= Size - 1 - 0
      BY <1>d, <2>1
    <3> QED  BY <2>3, <3>1, <3>2 DEF WriterView
  <2> QED  BY <2>3, <2>4, <2>5, <2>6 DEF Order
<1>10. CASE WResetTail \/ RResetTail
  <2>1. /\ ~Writes /\ ~Reads /\ (wpc = "reset" \/ rpc = "reset") /\ tail' = 0
        /\ UNCHANGED <<head, buf, accepted, delivered, rdata, rn, ravail, wroom>>
        /\ wpc' \in {wpc, "idle"} /\ rpc' \in {rpc, "idle"}
        /\ rpc \in {"wrap", "done"} <=> rpc' \in {"wrap", "done"}
    <3>1. ~(Writes \/ Reads)
      BY <1>10, <1>b DEF WResetTail, RResetTail, ResetTail, Tear
    <3> QED
      BY <1>10, <3>1 DEF WResetTail, RResetTail, ResetTail, producer, consumer, results
  <2>2. Held = 0 /\ Held' = 0 /\ Freed' = Freed /\ Stored' = Stored
    <3>1. Fix(head) = 0 /\ Fix(head)' = 0 /\ Fix(tail)' = 0
      BY <1>b, <2>1 DEF Whole, Fix
    <3>2. Between' = 0
      BY <3>1 DEF Between
    <3> QED  BY <2>1, <3>2 DEF Held, Freed, Stored
  <2>3. Contents'
    BY <2>2 DEF Contents
  <2>4. ReaderView'
    <3>1. ~Reads' /\ rpc' \notin {"branch", "place", "copy"}
      BY <2>1 DEF Reads
    <3>2. rpc' \in {"head", "tail"} => rpc = rpc'
      BY <2>1
    <3>3. rpc' \in {"wrap", "done"} => rpc \in {"wrap", "done"}
      BY <2>1
    <3> QED  BY <1>b, <2>1, <2>2, <3>1, <3>2, <3>3 DEF Order, ReaderView
  <2>5. WriterView'
    <3>1. wpc' \notin {"tail", "branch", "place", "copy"}
      BY <2>1 DEF Writes
    <3>2. wroom' \in 0..Size-1 /\ wroom' <= Size - 1 - 0
      BY <1>d, <2>1
    <3> QED  BY <2>2, <3>1, <3>2 DEF WriterView
  <2> QED  BY <1>b, <2>2, <2>3, <2>4, <2>5 DEF Order
<1>11. CASE RBegin
  <2>1. /\ rpc = "idle" /\ rpc' \in {"idle", "head"} /\ ravail' = Stored /\ rdata' = <<>>
        /\ UNCHANGED <<buf, head, tail, producer, delivered, accepted, wroom>>
    BY <1>11 DEF RBegin, ring
  <2>2. Held' = Held /\ Freed' = Freed /\ Stored' = Stored
    BY <2>1, HeldSame DEF producer, Freed, Stored
  <2>3. Contents'
    BY <1>b, <2>1, <2>2 DEF Order, Contents
  <2>4. ReaderView'
    <3>1. ravail' <= Held'
      BY <1>b, <2>1, <2>2 DEF Order
    <3>2. ~Reads' /\ rpc' \notin {"copy", "wrap", "done"}
      BY <2>1 DEF Reads
    <3> QED  BY <1>b, <2>1, <3>1, <3>2 DEF Order, ReaderView
  <2>5. WriterView'
    BY <1>b, <2>1, <2>2, WriterKeeps DEF Order
  <2> QED  BY <1>b, <2>2, <2>3, <2>4, <2>5 DEF Order
<1>12. CASE RLoadHead
  <2>1. /\ rpc = "head" /\ rpc' = "tail"
        /\ UNCHANGED <<buf, head, tail, producer, delivered, accepted, wroom, ravail, rdata>>
    BY <1>12 DEF RLoadHead, ring, history, results
  <2>2. Held' = Held /\ Freed' = Freed /\ Stored' = Stored
    BY <2>1, HeldSame DEF producer, Freed, Stored
  <2>3. Contents'
    BY <1>b, <2>1, <2>2 DEF Order, Contents
  <2>4. ReaderView'
    BY <1>b, <2>1, <2>2 DEF Order, ReaderView, Reads
  <2>5. WriterView'
    BY <1>b, <2>1, <2>2, WriterKeeps DEF Order
  <2> QED  BY <1>b, <2>2, <2>3, <2>4, <2>5 DEF Order
<1>13. CASE RLoadTail
  <2>1. /\ rpc = "tail" /\ rpc' \in {"idle", "branch"} /\ wpc # "reset" /\ ~SeesEnd
        /\ UNCHANGED <<buf, head, tail, producer, delivered, accepted, wroom, ravail, rdata, rreq>>
    BY <1>13, <1>b DEF RLoadTail, Tear, ring, results
  <2>2. Held' = Held /\ Freed' = Freed /\ Stored' = Stored
    BY <2>1, HeldSame DEF producer, Freed, Stored
  <2>3. Contents'
    BY <1>b, <2>1, <2>2 DEF Order, Contents
  <2>4. ReaderView'
    <3>1. SnapshotData(rhead, tail) = Held
      <4>1. rhead = head /\ head # Size /\ ~(head = 0 /\ tail = Size)
        BY <1>a, <1>b, <2>1 DEF Whole, SeesEnd, BoundsInv, InBounds
      <4>2. Held = Between
        BY <2>1 DEF Held
      <4> QED  BY <1>a, <4>1, <4>2, BetweenValue
    <3>2. ravail <= Held /\ rdata = <<>>
      BY <1>b, <2>1 DEF Order, ReaderView
    <3>3. rn' = Clamp(rreq, Held)
      BY <1>13, <3>1 DEF RLoadTail
    <3>4. rn' <= rreq /\ rn' >= Smaller(rreq, ravail)
      BY <1>b, <1>d, <3>2, <3>3 DEF Clamp, Smaller
    <3>5. UNCHANGED Smaller(rreq, ravail)
      BY <2>1
    <3> QED  BY <1>b, <2>1, <3>2, <3>4, <3>5 DEF Order, ReaderView, Reads
  <2>5. WriterView'
    BY <1>b, <2>1, <2>2, WriterKeeps DEF Order
  <2> QED  BY <1>b, <2>2, <2>3, <2>4, <2>5 DEF Order
<1>14. CASE RBranch
  <2>1. /\ rpc = "branch" /\ rpc' = "place"
        /\ UNCHANGED <<buf, head, tail, producer, delivered, accepted, wroom, ravail, rdata, rreq, rn>>
    BY <1>14 DEF RBranch, ring, history, results
  <2>2. Held' = Held /\ Freed' = Freed /\ Stored' = Stored
    BY <2>1, HeldSame DEF producer, Freed, Stored
  <2>3. Contents'
    BY <1>b, <2>1, <2>2 DEF Order, Contents
  <2>4. ReaderView'
    BY <1>b, <2>1 DEF Order, ReaderView, Reads, Smaller
  <2>5. WriterView'
    BY <1>b, <2>1, <2>2, WriterKeeps DEF Order
  <2> QED  BY <1>b, <2>2, <2>3, <2>4, <2>5 DEF Order
<1>15. CASE RPlace
  <2>1. /\ rpc = "place" /\ rpc' \in {"copy", "overrun"}
        /\ UNCHANGED <<buf, head, tail, producer, delivered, accepted, wroom, ravail, rdata, rreq, rn>>
    BY <1>15 DEF RPlace, ring, history, results
  <2>2. Held' = Held /\ Freed' = Freed /\ Stored' = Stored
    BY <2>1, HeldSame DEF producer, Freed, Stored
  <2>3. Contents'
    BY <1>b, <2>1, <2>2 DEF Order, Contents
  <2>4. ReaderView'
    <3>1. rdata = <<>> /\ Len(rdata) <= rn /\ 1..Len(rdata) = {}
      BY <1>b, <1>d, <2>1 DEF Order, ReaderView
    <3> QED  BY <1>b, <2>1, <3>1 DEF Order, ReaderView, Reads, Smaller
  <2>5. WriterView'
    BY <1>b, <2>1, <2>2, WriterKeeps DEF Order
  <2> QED  BY <1>b, <2>2, <2>3, <2>4, <2>5 DEF Order
<1>16. CASE RCopy
  <2>1. /\ rpc = "copy" /\ rpc' = "copy" /\ Len(rdata) < rn /\ rn <= Held /\ Held = Between
        /\ head \in 0..Size-1 /\ Freed = Len(delivered) /\ rn \in 0..Size
        /\ UNCHANGED <<buf, head, tail, producer, delivered, accepted, wroom, ravail, rreq, rn>>
        /\ rdata' = Append(rdata, buf[At(rsrc, rfirst, Len(rdata))])
    <3>1. rpc = "copy"
      BY <1>16, <1>b, <1>d DEF RCopy, Order, ReaderView
    <3>2. head \in 0..Size-1 /\ Freed = Len(delivered) /\ rn \in 0..Size
      BY <1>a, <1>b, <1>d, <3>1 DEF BoundsInv, TypeOK, InBounds
    <3> QED
      BY <1>16, <1>b, <3>1, <3>2 DEF RCopy, ring, history, results, Reads
  <2>2. Held' = Held /\ Freed' = Freed /\ Stored' = Stored
    BY <2>1, HeldSame DEF producer, Freed, Stored
  <2>3. Contents'
    BY <1>b, <2>1, <2>2 DEF Order, Contents
  <2>4. buf[At(rsrc, rfirst, Len(rdata))] = accepted[Len(delivered) + (Len(rdata) + 1)]
    <3>1. rsrc = head /\ rfirst = Smaller(rn, Size - head)
      BY <1>b, <2>1 DEF Whole
    <3>2. Len(rdata) \in 0..rn-1 /\ Len(rdata) \in 0..Held-1
      BY <1>b, <1>d, <2>1
    <3>3. At(rsrc, rfirst, Len(rdata)) = Slot(Fix(head), Len(rdata))
      <4>1. Fix(head) = head
        BY <2>1 DEF Fix
      <4> QED  BY <2>1, <3>1, <3>2, <4>1, AtSlot
    <3>4. buf[Slot(Fix(head), Len(rdata))] = accepted[Freed + Len(rdata) + 1]
      BY <1>b, <3>2 DEF Order, Contents
    <3>5. Freed + Len(rdata) + 1 = Len(delivered) + (Len(rdata) + 1)
      BY <1>d, <2>1
    <3> QED  BY <3>3, <3>4, <3>5
  <2>5. ReaderView'
    <3>1. Len(rdata') = Len(rdata) + 1 /\ Len(rdata') <= rn
      BY <1>d, <2>1
    <3>2. ASSUME NEW i \in 1..Len(rdata) + 1
          PROVE  rdata'[i] = accepted[Len(delivered) + i]
      <4>1. CASE i = Len(rdata) + 1
        <5>1. rdata'[Len(rdata) + 1] = buf[At(rsrc, rfirst, Len(rdata))]
          BY <1>d, <2>1
        <5> QED  BY <2>4, <4>1, <5>1
      <4>2. CASE i # Len(rdata) + 1
        <5>0. PICK n \in Nat : n = Len(rdata)
          BY <1>d
        <5>1. i \in 1..Len(rdata)
          BY <4>2, <5>0
        <5>2. rdata'[i] = rdata[i]
          BY <1>d, <2>1, <5>1
        <5> QED  BY <1>b, <2>1, <5>1, <5>2 DEF Order, ReaderView
      <4> QED  BY <4>1, <4>2
    <3>3. \A i \in 1..Len(rdata') : rdata'[i] = accepted'[Len(delivered') + i]
      BY <2>1, <3>1, <3>2
    <3> QED  BY <1>b, <2>1, <3>1, <3>3 DEF Order, ReaderView, Reads, Smaller
  <2>6. WriterView'
    BY <1>b, <2>1, <2>2, WriterKeeps DEF Order
  <2> QED  BY <1>b, <2>2, <2>3, <2>5, <2>6 DEF Order
<1>17. CASE RPublish
  <2>1. /\ rpc = "copy" /\ rpc' \in {"wrap", "done"} /\ Len(rdata) = rn /\ wpc # "reset"
        /\ rn <= Held /\ Held = Between /\ head \in 0..Size-1 /\ Freed = Len(delivered)
        /\ UNCHANGED <<buf, tail, producer, delivered, accepted, wroom, ravail, rreq, rn, rdata>>
    <3>1. rpc = "copy" /\ ~(Len(rdata) < rn) /\ rpc' \in {"wrap", "done"}
      BY <1>17, <1>s DEF RPublish
    <3>2. head \in 0..Size-1 /\ Freed = Len(delivered) /\ Reads /\ wpc # "reset"
      BY <1>a, <1>b, <1>d, <3>1 DEF BoundsInv, TypeOK, InBounds, Reads, Whole
    <3>3. Len(rdata) = rn
      <4>1. Len(rdata) <= rn
        BY <1>b, <3>1 DEF Order, ReaderView
      <4> QED  BY <1>d, <3>1, <4>1
    <3> QED
      BY <1>17, <1>b, <3>1, <3>2, <3>3 DEF RPublish, results
  <2>2. Held' = Held - rn /\ Freed' = Freed + rn /\ Stored' = Stored - rn
    <3>1. Between' = Between - rn /\ Held' = Between'
      BY <1>17, <1>a, <1>b, <2>1, TakeBetween DEF Held, producer
    <3>2. Freed' = Freed + rn
      BY <1>d, <2>1 DEF Freed
    <3>3. Stored' = Len(accepted) - (Freed + rn) /\ Stored = Len(accepted) - Freed
      BY <2>1, <3>2 DEF Stored
    <3>4. Len(accepted) - (Freed + rn) = Len(accepted) - Freed - rn
      BY <1>b, <1>d
    <3> QED  BY <2>1, <3>1, <3>2, <3>3, <3>4
  <2>3. Contents'
    <3>1. Fix(head') = Slot(head, rn) /\ Fix(head) = head
      <4>1. Fix(head') = Slot(head, rn)
        BY <1>17, <1>a, <1>b, TakenHead
      <4>2. Fix(head) = head
        BY <2>1 DEF Fix
      <4> QED  BY <4>1, <4>2
    <3>2. ASSUME NEW i \in 0..Held-rn-1
          PROVE  buf[Slot(Fix(head'), i)] = accepted[Freed + rn + i + 1]
      <4>1. Slot(Slot(head, rn), i) = Slot(head, rn + i)
        BY <1>b, <1>d, <2>1 DEF Slot
      <4>2. rn + i \in 0..Held-1
        BY <1>b, <1>d, <2>1
      <4>3. Freed + (rn + i) + 1 = Freed + rn + i + 1
        <5>1. PICK f \in Nat : f = Freed
          BY <1>b
        <5>2. i \in Nat /\ f + (rn + i) + 1 = f + rn + i + 1
          BY <1>b, <1>d, <2>1
        <5> QED  BY <5>1, <5>2
      <4>4. buf[Slot(Fix(head), rn + i)] = accepted[Freed + (rn + i) + 1]
        BY <1>b, <4>2 DEF Order, Contents
      <4> QED  BY <3>1, <4>1, <4>3, <4>4
    <3>3. PICK k \in Nat : k = Held - rn
      BY <1>b, <1>d, <2>1
    <3>4. \A i \in 0..k-1 : buf[Slot(Fix(head'), i)] = accepted[Freed + rn + i + 1]
      BY <3>2, <3>3
    <3>5. Held' = k
      BY <2>2, <3>3
    <3> QED  BY <2>1, <2>2, <3>4, <3>5 DEF Contents
  <2>4. ReaderView'
    <3>1. \A i \in 1..Len(rdata) : rdata[i] = accepted[Len(delivered) + i]
      BY <1>b, <2>1 DEF Order, ReaderView
    <3>2. ~Reads' /\ rpc' \notin {"head", "tail", "branch", "place"}
      BY <2>1 DEF Reads
    <3>3. Len(rdata) <= rn
      BY <1>d, <2>1
    <3> QED  BY <1>b, <2>1, <3>1, <3>2, <3>3 DEF Order, ReaderView
  <2>5. WriterView'
    <3>1. Held' <= Held
      BY <1>b, <1>d, <2>2
    <3> QED  BY <1>b, <1>c, <2>1, <3>1, WriterKeeps DEF Order
  <2>6. Stored' = Held'
    BY <1>b, <2>2 DEF Order
  <2> QED  BY <2>3, <2>4, <2>5, <2>6 DEF Order
<1>18. CASE RWrap
  <2>1. /\ rpc = "wrap" /\ rpc' = "done" /\ head \in {0, Size} /\ head' = 0
        /\ UNCHANGED <<buf, tail, producer, delivered, accepted, wroom, ravail, rreq, rn, rdata>>
    BY <1>18, <1>b DEF RWrap, Fix, history, results, CallsInv
  <2>2. Held' = Held /\ Freed' = Freed /\ Stored' = Stored /\ Fix(head)' = Fix(head)
    <3>1. Between' = Between /\ Fix(head)' = Fix(head)
      BY <2>1 DEF Between, Fix
    <3> QED  BY <2>1, <3>1 DEF Held, producer, Freed, Stored
  <2>3. Contents'
    BY <1>b, <2>1, <2>2 DEF Order, Contents
  <2>4. ReaderView'
    BY <1>b, <2>1 DEF Order, ReaderView, Reads
  <2>5. WriterView'
    BY <1>b, <2>1, <2>2, WriterKeeps DEF Order
  <2> QED  BY <1>b, <2>2, <2>3, <2>4, <2>5 DEF Order
<1>19. CASE RReturn
  <2>1. /\ rpc = "done" /\ rpc' = "idle" /\ Len(rdata) = rn /\ delivered' = delivered \o rdata
        /\ Freed = Len(delivered) + rn
        /\ UNCHANGED <<buf, head, tail, producer, accepted, wroom, ravail>>
    BY <1>19, <1>b DEF RReturn, ring
  <2>2. Len(delivered') = Freed
    BY <1>d, <2>1, ConcatProperties
  <2>3. Held' = Held /\ Freed' = Freed /\ Stored' = Stored
    <3>1. Freed' = Len(delivered') + 0
      BY <2>1 DEF Freed
    <3>2. Freed' = Freed
      BY <1>b, <2>2, <3>1
    <3> QED  BY <2>1, <3>2, HeldSame DEF producer, Stored
  <2>4. Contents'
    BY <1>b, <2>1, <2>3 DEF Order, Contents
  <2>5. ReaderView'
    <3>1. ASSUME NEW i \in 1..Len(delivered') PROVE delivered'[i] = accepted[i]
      <4>1. CASE i <= Len(delivered)
        <5>1. i \in 1..Len(delivered) /\ i \in 1..Len(delivered) + Len(rdata)
          BY <1>d, <2>1, <2>2, <4>1
        <5>2. delivered'[i] = delivered[i]
          BY <1>d, <2>1, <4>1, <5>1, ConcatProperties
        <5> QED  BY <1>b, <5>1, <5>2 DEF Order, ReaderView
      <4>2. CASE i > Len(delivered)
        <5>1. /\ i - Len(delivered) \in 1..Len(rdata) /\ i \in 1..Len(delivered) + Len(rdata)
              /\ ~(i <= Len(delivered)) /\ Len(delivered) + (i - Len(delivered)) = i
          BY <1>d, <2>1, <2>2, <4>2
        <5>2. delivered'[i] = rdata[i - Len(delivered)]
          BY <1>d, <2>1, <5>1, ConcatProperties
        <5>3. rdata[i - Len(delivered)] = accepted[Len(delivered) + (i - Len(delivered))]
          BY <1>b, <2>1, <5>1 DEF Order, ReaderView
        <5> QED  BY <5>1, <5>2, <5>3
      <4>3. i \in Nat /\ Len(delivered) \in Nat
        BY <1>b, <1>d, <2>2
      <4> QED  BY <4>1, <4>2, <4>3
    <3>2. \A i \in 1..Len(delivered') : delivered'[i] = accepted'[i]
      BY <2>1, <3>1
    <3>3. ~Reads' /\ rpc' \notin {"head", "tail", "branch", "place", "copy", "wrap", "done"}
      BY <2>1 DEF Reads
    <3> QED  BY <3>2, <3>3 DEF ReaderView
  <2>6. WriterView'
    BY <1>b, <2>1, <2>3, WriterKeeps DEF Order
  <2> QED  BY <1>b, <2>3, <2>4, <2>5, <2>6 DEF Order
<1>20. CASE UNCHANGED vars
  <2>1. UNCHANGED <<buf, head, tail, producer, consumer, delivered, accepted, wroom, ravail, wpc, rpc>>
    BY <1>20 DEF vars, ring, producer, consumer, history, results
  <2>2. Held' = Held /\ Freed' = Freed /\ Stored' = Stored
    BY <2>1, HeldSame DEF consumer, Freed, Stored
  <2>3. Contents'
    BY <1>b, <2>1, <2>2 DEF Order, Contents
  <2>4. ReaderView'
    BY <1>b, <1>d, <2>1, <2>2, ReaderKeeps DEF Order
  <2>5. WriterView'
    BY <1>b, <2>1, <2>2, WriterKeeps DEF Order
  <2> QED  BY <1>b, <2>2, <2>3, <2>4, <2>5 DEF Order
<1> QED
  BY <1>1, <1>2, <1>3, <1>4, <1>5, <1>6, <1>7, <1>8, <1>9, <1>10, <1>11, <1>12, <1>13, <1>14,
     <1>15, <1>16, <1>17, <1>18, <1>19, <1>20 DEF Next, Producer, Consumer

LEMMA FifoHolds == FifoInv => Fifo
<1> SUFFICES ASSUME FifoInv, ~spoiled
             PROVE  /\ Len(delivered) <= Len(accepted)
                    /\ \A i \in 1..Len(delivered) : delivered[i] = accepted[i]
  BY DEF Fifo
<1>1. /\ Order /\ BoundsInv /\ Held \in 0..Size-1 /\ Len(accepted) = Freed + Held
      /\ Freed = Len(delivered) + (IF rpc \in {"wrap", "done"} THEN rn ELSE 0)
  BY Unspoiled
<1>2. Len(delivered) \in Nat /\ rn \in Nat
  BY <1>1, RingAssumption DEF BoundsInv, TypeOK, RingAssumption
<1>3. Len(delivered) <= Len(accepted)
  BY <1>1, <1>2
<1> QED  BY <1>1, <1>3 DEF Order, ReaderView

\* The bytes a write fills are free, those a read empties are held.
LEMMA FifoDisjoint == FifoInv => Disjoint
<1> SUFFICES ASSUME FifoInv, ~spoiled, wpc = "copy", rpc = "copy",
                    NEW i \in 0..wn-1, NEW j \in 0..rn-1
             PROVE  At(wdst, wfirst, i) # At(rsrc, rfirst, j)
  BY DEF Disjoint, Filling, Emptying
<1> USE RingAssumption DEF RingAssumption
<1>1. /\ Whole /\ BoundsInv /\ Held = Between /\ rn <= Held /\ claim + Held <= Size - 1
      /\ Held \in 0..Size-1
  BY Unspoiled DEF Writes, Reads
<1>2. /\ wdst = tail /\ wfirst = Smaller(wn, Size - tail) /\ claim = wn
      /\ rsrc = head /\ rfirst = Smaller(rn, Size - head)
      /\ wn \in 0..Size /\ rn \in 0..Size /\ tail \in 0..Size-1 /\ head \in 0..Size-1
  BY <1>1 DEF Whole, BoundsInv, TypeOK, InBounds
<1>3. /\ At(wdst, wfirst, i) = Slot(tail, i)
      /\ At(rsrc, rfirst, j) = Slot(head, j)
  BY <1>2, AtSlot
<1>4. Held = IF tail >= head THEN tail - head ELSE tail - head + Size
  BY <1>1, <1>2 DEF Between, Fix
<1>5. Slot(tail, i) # Slot(head, j)
  BY <1>1, <1>2, <1>4 DEF Slot
<1> QED  BY <1>3, <1>5

\* For every buffer size, in every build, with purges at any time: the reader gets
\* what was accepted, in order, and the two copies share no slot, until a reset meets
\* a call, a read's loads go around the two stores of Tail, or Head is stored before
\* a copy is done (ringbuffer.c:66-79).
THEOREM RingFifo == Spec => [](Fifo /\ Disjoint)
BY FifoInit, FifoStep, FifoHolds, FifoDisjoint, PTL DEF Spec

-----------------------------------------------------------------------------
(* Until it is spoiled, the ring implements the lossy pipe. *)

\* What the pipe counts as stored is what lies between the pointers.
LEMMA PipeStored ==
  ASSUME FifoInv, ~spoiled
  PROVE  /\ Pipe!Stored = Held
         /\ HandedOver \in Seq(0..MaxOffered)
         /\ Len(HandedOver) = Freed
         /\ \A i \in 1..Freed : HandedOver[i] = accepted[i]
<1>1. /\ BoundsInv /\ Order /\ Held \in 0..Size-1 /\ Len(accepted) = Freed + Held
      /\ Freed \in Nat /\ Freed = Len(delivered) + (IF rpc \in {"wrap", "done"} THEN rn ELSE 0)
  BY Unspoiled
<1>2. /\ delivered \in Seq(0..MaxOffered) /\ rdata \in Seq(0..MaxOffered)
      /\ Len(delivered) \in Nat /\ rn \in Nat
  BY <1>1, RingAssumption DEF BoundsInv, TypeOK, RingAssumption
<1>3. HandedOver \in Seq(0..MaxOffered)
  BY <1>2, ConcatProperties DEF HandedOver
<1>4. Len(HandedOver) = Freed /\ \A i \in 1..Freed : HandedOver[i] = accepted[i]
  <2>1. CASE rpc \in {"wrap", "done"}
    <3>1. /\ HandedOver = delivered \o rdata /\ Len(rdata) = rn
          /\ Freed = Len(delivered) + Len(rdata)
      BY <1>1, <2>1 DEF Order, ReaderView, HandedOver
    <3>2. Len(HandedOver) = Freed
      BY <1>2, <3>1, ConcatProperties
    <3>3. ASSUME NEW i \in 1..Len(delivered) + Len(rdata) PROVE HandedOver[i] = accepted[i]
      <4>1. CASE i <= Len(delivered)
        <5>1. i \in 1..Len(delivered)
          BY <1>2, <4>1
        <5>2. HandedOver[i] = delivered[i]
          BY <1>2, <3>1, <4>1, ConcatProperties
        <5> QED  BY <1>1, <5>1, <5>2 DEF Order, ReaderView
      <4>2. CASE i > Len(delivered)
        <5>1. /\ i - Len(delivered) \in 1..Len(rdata) /\ ~(i <= Len(delivered))
              /\ Len(delivered) + (i - Len(delivered)) = i
          BY <1>2, <3>1, <4>2
        <5>2. HandedOver[i] = rdata[i - Len(delivered)]
          BY <1>2, <3>1, <5>1, ConcatProperties
        <5>3. rdata[i - Len(delivered)] = accepted[Len(delivered) + (i - Len(delivered))]
          BY <1>1, <2>1, <5>1 DEF Order, ReaderView
        <5> QED  BY <5>1, <5>2, <5>3
      <4> QED  BY <1>2, <3>1, <4>1, <4>2
    <3> QED  BY <3>1, <3>2, <3>3
  <2>2. CASE rpc \notin {"wrap", "done"}
    <3>1. HandedOver = delivered /\ Freed = Len(delivered)
      BY <1>1, <1>2, <2>2 DEF HandedOver
    <3> QED  BY <1>1, <3>1 DEF Order, ReaderView
  <2> QED  BY <2>1, <2>2
<1>5. Pipe!Stored = Held
  <2>1. Pipe!Stored = Len(accepted) - Len(HandedOver)
    BY DEF Pipe!Stored
  <2> QED  BY <1>1, <1>4, <2>1
<1> QED  BY <1>3, <1>4, <1>5

LEMMA PipeInit == Init => Pipe!Init
BY DEF Init, Pipe!Init, Pipe!NoWrite, Pipe!NoRead, HandedOver, WriteCall, ReadCall, Writes, Reads

\* Every step of the ring is one step of the pipe or none.
LEMMA PipeStep ==
  ASSUME FifoInv, FifoInv', [Next]_vars, ~spoiled'
  PROVE  [Pipe!Next]_(Pipe!vars)
<1> USE RingAssumption DEF RingAssumption
<1>a. /\ ~spoiled /\ ~torn /\ ~torn' /\ Whole /\ Order /\ BoundsInv /\ CallsInv
      /\ Held \in 0..Size-1 /\ Freed \in Nat /\ Len(accepted) = Freed + Held
      /\ Freed = Len(delivered) + (IF rpc \in {"wrap", "done"} THEN rn ELSE 0)
      /\ Writes => claim + Held <= Size - 1
      /\ Reads => rn <= Held
      /\ Pipe!Stored = Held
      /\ HandedOver \in Seq(0..MaxOffered) /\ Len(HandedOver) = Freed
      /\ \A i \in 1..Freed : HandedOver[i] = accepted[i]
  <2>1. /\ FifoInv /\ ~spoiled /\ ~torn'
    <3>1. torn \in BOOLEAN /\ spoiled \in BOOLEAN /\ (torn => spoiled)
      BY DEF FifoInv, CountInv, BoundsInv, TypeOK
    <3> QED  BY <3>1, SpoiledStays
  <2> QED  BY <2>1, Unspoiled, PipeStored
<1>b. /\ wreq \in Nat /\ rreq \in Nat /\ ravail \in Int /\ wroom \in Nat
      /\ wbase \in Nat /\ rn \in Nat /\ wn \in Nat
      /\ accepted \in Seq(1..MaxOffered) /\ delivered \in Seq(0..MaxOffered)
      /\ rdata \in Seq(0..MaxOffered) /\ Len(delivered) \in Nat
  <2>1. TypeOK /\ wroom \in Nat
    BY <1>a DEF BoundsInv, Order, WriterView
  <2> QED  BY <2>1 DEF TypeOK
<1>1. CASE WBegin
  <2>1. /\ wpc = "idle" /\ wpc' = "head" /\ wroom' = (Size - 1) - Pipe!Stored
        /\ wbase' = offered /\ wreq' \in 1..MaxReq /\ offered + wreq' <= MaxOffered
        /\ UNCHANGED <<rpc, rreq, ravail, rdata, delivered, accepted>>
    <3>1. tail \in 0..Size-1
      BY <1>1, <1>a DEF WBegin, BoundsInv, TypeOK, InBounds
    <3>2. Stored = Pipe!Stored
      BY <1>a DEF Order
    <3> QED  BY <1>1, <3>1, <3>2 DEF WBegin, consumer
  <2>2. offered \in Nat /\ wreq' \in Nat
    BY <1>a, <2>1 DEF BoundsInv, TypeOK
  <2>3. Request' = SubSeq(Stream, offered + 1, offered + wreq')
    BY <2>1 DEF Request, Stream
  <2>4. Request' \in Seq(1..MaxOffered) /\ Len(Request') = wreq'
    BY <2>1, <2>2, <2>3, SliceType
  <2>5. Request' \in Seq(Nat) \ {<<>>}
    <3>1. Request' \in Seq(Nat)
      BY <2>4, SeqMonotonic
    <3> QED  BY <2>1, <2>4, <3>1
  <2>6. WriteCall = Pipe!NoWrite /\ WriteCall' = [data |-> Request', room |-> (Size - 1) - Pipe!Stored]
    BY <2>1 DEF WriteCall, Writes, Pipe!NoWrite
  <2>7. UNCHANGED <<accepted, HandedOver, ReadCall>>
    BY <2>1 DEF HandedOver, ReadCall, Reads
  <2> QED  BY <2>5, <2>6, <2>7 DEF Pipe!Next, Pipe!BeginWrite
<1>2. CASE WLoadHead \/ WBranch \/ WPlace \/ WCopy \/ WWrap
  BY <1>2 DEF WLoadHead, WBranch, WPlace, WCopy, WWrap, consumer, history, results, Pipe!vars,
     HandedOver, WriteCall, ReadCall, Writes, Reads, Request, Stream
<1>3. CASE WLoadTail
  <2>1. UNCHANGED <<accepted, HandedOver, ReadCall>>
    BY <1>3 DEF WLoadTail, consumer, history, results, HandedOver, ReadCall, Reads
  <2>2. CASE wn' # 0
    BY <1>3, <2>1, <2>2 DEF WLoadTail, history, results, Pipe!vars, WriteCall, Writes, Request, Stream
  <2>3. CASE wn' = 0
    <3>1. /\ WriteCall = [data |-> Request, room |-> wroom]
          /\ WriteCall' = Pipe!NoWrite
      BY <1>3, <2>3 DEF WLoadTail, WriteCall, Writes, Pipe!NoWrite
    <3>2. Len(Request) = wreq /\ wreq > 0
      BY <1>3, <1>a, RequestType DEF WLoadTail, CallsInv, Writes
    <3>3. WriteCall # Pipe!NoWrite
      BY <3>1, <3>2, EmptySeq DEF Pipe!NoWrite
    <3>4. wroom <= 0
      <4>1. wroom <= SnapshotSpace(whead, tail)
        BY <1>3, <1>a DEF WLoadTail, Order, WriterView
      <4>2. Clamp(wreq, SnapshotSpace(whead, tail)) = 0
        BY <1>3, <2>3 DEF WLoadTail
      <4>3. SnapshotSpace(whead, tail) = 0
        BY <3>2, <4>2 DEF Clamp
      <4> QED  BY <4>1, <4>3
    <3>5. accepted' = accepted \o SubSeq(WriteCall.data, 1, 0)
      BY <1>b, <2>1, SubSeqEmpty, ConcatEmptySeq
    <3>6. 0 \in 0..Len(WriteCall.data) /\ Pipe!Stored + 0 <= Size - 1
      BY <1>a, <1>b, <3>1, <3>2
    <3>7. 0 >= Pipe!Least(Len(WriteCall.data), WriteCall.room)
      BY <1>b, <3>1, <3>2, <3>4 DEF Pipe!Least
    <3> QED  BY <2>1, <3>1, <3>3, <3>5, <3>6, <3>7 DEF Pipe!Next, Pipe!Accept
  <2> QED  BY <2>2, <2>3
<1>4. CASE WPublish
  <2>1. /\ wpc = "copy" /\ wpc' \in {"idle", "wrap"}
        /\ accepted' = accepted \o SubSeq(Request, 1, wn)
        /\ UNCHANGED <<rpc, rreq, ravail, rdata, delivered>>
    BY <1>4 DEF WPublish, consumer
  <2>2. /\ WriteCall = [data |-> Request, room |-> wroom]
        /\ WriteCall' = Pipe!NoWrite
    BY <2>1 DEF WriteCall, Writes, Pipe!NoWrite
  <2>3. Len(Request) = wreq /\ wreq > 0
    BY <1>a, <2>1, RequestType DEF CallsInv, Writes
  <2>4. WriteCall # Pipe!NoWrite
    BY <2>2, <2>3, EmptySeq DEF Pipe!NoWrite
  <2>5. wn \in 0..wreq /\ wn >= Smaller(wreq, wroom) /\ wn + Held <= Size - 1
    <3>1. wn <= wreq /\ wn >= Smaller(wreq, wroom)
      BY <1>a, <2>1 DEF BoundsInv, Order, WriterView
    <3>2. claim = wn /\ claim + Held <= Size - 1
      BY <1>a, <2>1 DEF Whole, Writes
    <3> QED  BY <1>b, <3>1, <3>2
  <2>6. /\ wn \in 0..Len(WriteCall.data)
        /\ wn >= Pipe!Least(Len(WriteCall.data), WriteCall.room)
        /\ Pipe!Stored + wn <= Size - 1
        /\ accepted' = accepted \o SubSeq(WriteCall.data, 1, wn)
    <3>1. WriteCall.data = Request /\ WriteCall.room = wroom
      BY <2>2
    <3>2. Smaller(wreq, wroom) = Pipe!Least(wreq, wroom)
      BY DEF Smaller, Pipe!Least
    <3>3. Pipe!Stored + wn <= Size - 1
      BY <1>a, <1>b, <2>5
    <3> QED  BY <2>1, <2>3, <2>5, <3>1, <3>2, <3>3
  <2>7. UNCHANGED <<HandedOver, ReadCall>>
    BY <2>1 DEF HandedOver, ReadCall, Reads
  <2> QED  BY <2>2, <2>4, <2>6, <2>7 DEF Pipe!Next, Pipe!Accept
<1>5. CASE WResetHead \/ RResetHead
  <2>1. /\ ~Writes /\ ~Reads /\ rpc # "tail" /\ accepted' = FirstOf(accepted, Freed)
        /\ ravail' = 0
        /\ UNCHANGED <<delivered, rdata, rreq, wreq, wbase, wroom>>
        /\ \/ wpc = "idle" /\ wpc' = "reset" /\ rpc' = rpc
           \/ rpc = "idle" /\ rpc' = "reset" /\ wpc' = wpc
    <3>1. ~(Writes \/ Reads \/ rpc = "tail")
      BY <1>5, <1>a DEF WResetHead, RResetHead, ResetHead, Tear
    <3>2. accepted' = FirstOf(accepted, Freed)
      BY <1>5 DEF WResetHead, RResetHead, ResetHead
    <3> QED
      BY <1>5, <3>1, <3>2 DEF WResetHead, RResetHead, ResetHead, producer, consumer
  <2>2. UNCHANGED <<HandedOver, WriteCall>>
    BY <2>1 DEF HandedOver, WriteCall, Writes, Request, Stream
  <2>3. accepted' = HandedOver
    <3>1. Freed <= Len(accepted)
      BY <1>a
    <3>2. /\ FirstOf(accepted, Freed) \in Seq(1..MaxOffered)
          /\ Len(FirstOf(accepted, Freed)) = Freed
          /\ \A i \in 1..Freed : FirstOf(accepted, Freed)[i] = accepted[i]
      <4>1. accepted \in Seq(1..MaxOffered) /\ Freed \in Nat
        BY <1>a, <1>b
      <4> QED  BY <3>1, <4>1, FirstOfType
    <3>3. FirstOf(accepted, Freed) \in Seq(0..MaxOffered)
      <4>1. 1..MaxOffered \subseteq 0..MaxOffered
        OBVIOUS
      <4> QED  BY <3>2, <4>1, SeqMonotonic
    <3>4. \A i \in 1..Len(HandedOver) : HandedOver[i] = FirstOf(accepted, Freed)[i]
      BY <1>a, <3>2
    <3>5. HandedOver = FirstOf(accepted, Freed)
      BY <1>a, <3>2, <3>3, <3>4, SeqEqual
    <3> QED  BY <2>1, <3>5
  <2>4. ReadCall' = IF ReadCall = Pipe!NoRead THEN Pipe!NoRead ELSE [ReadCall EXCEPT !.avail = 0]
    <3>1. CASE rpc = "head"
      <4>1. ReadCall = [want |-> rreq, avail |-> ravail] /\ ReadCall' = [want |-> rreq, avail |-> 0]
        BY <2>1, <3>1 DEF ReadCall
      <4>2. rreq > 0
        BY <1>a, <3>1 DEF CallsInv
      <4> QED  BY <1>b, <4>1, <4>2 DEF Pipe!NoRead
    <3>2. CASE rpc # "head"
      BY <2>1, <3>2 DEF ReadCall, Reads, Pipe!NoRead
    <3> QED  BY <3>1, <3>2
  <2> QED  BY <2>2, <2>3, <2>4 DEF Pipe!Next, Pipe!DropAll
<1>6. CASE WResetTail \/ RResetTail
  BY <1>6 DEF WResetTail, RResetTail, ResetTail, producer, consumer, results, Pipe!vars,
     HandedOver, WriteCall, ReadCall, Writes, Reads, Request, Stream
<1>7. CASE RBegin
  <2>1. /\ rpc = "idle" /\ rpc' \in {"idle", "head"} /\ ravail' = Pipe!Stored
        /\ rreq' \in Nat \ {0}
        /\ UNCHANGED <<wpc, wreq, wbase, wroom, delivered, accepted>>
    BY <1>7, <1>a DEF RBegin, producer, Order
  <2>2. UNCHANGED <<accepted, HandedOver, WriteCall>>
    BY <2>1 DEF HandedOver, WriteCall, Writes, Request, Stream
  <2>3. CASE rpc' = "idle"
    BY <2>1, <2>2, <2>3 DEF Pipe!vars, ReadCall, Reads
  <2>4. CASE rpc' = "head"
    BY <2>1, <2>2, <2>4 DEF ReadCall, Reads, Pipe!NoRead, Pipe!Next, Pipe!BeginRead
  <2> QED  BY <2>1, <2>3, <2>4
<1>8. CASE RLoadHead \/ RBranch \/ RPlace \/ RWrap \/ RReturn
  BY <1>8 DEF RLoadHead, RBranch, RPlace, RWrap, RReturn, producer, history, results, Pipe!vars,
     HandedOver, WriteCall, ReadCall, Writes, Reads, Request, Stream
<1>9. CASE RLoadTail
  <2>1. UNCHANGED <<accepted, HandedOver, WriteCall>>
    BY <1>9 DEF RLoadTail, producer, history, results, HandedOver, WriteCall, Writes, Request, Stream
  <2>2. CASE rn' # 0
    BY <1>9, <2>1, <2>2 DEF RLoadTail, history, results, Pipe!vars, ReadCall, Reads
  <2>3. CASE rn' = 0
    <3>1. /\ ReadCall = [want |-> rreq, avail |-> ravail]
          /\ ReadCall' = Pipe!NoRead
      BY <1>9, <2>3 DEF RLoadTail, ReadCall, Reads, Pipe!NoRead
    <3>2. rpc = "tail" /\ rhead = head /\ head # Size /\ ~(head = 0 /\ tail = Size) /\ wpc # "reset"
          /\ ravail <= Held /\ rreq > 0
      BY <1>9, <1>a DEF RLoadTail, Tear, SeesEnd, Whole, Order, ReaderView, BoundsInv, InBounds, CallsInv
    <3>3. Held = 0
      <4>1. SnapshotData(rhead, tail) = Held
        BY <1>a, <3>2, BetweenValue DEF Held
      <4>2. Clamp(rreq, Held) = 0
        BY <1>9, <2>3, <4>1 DEF RLoadTail
      <4> QED  BY <1>a, <1>b, <3>2, <4>2 DEF Clamp
    <3>4. 0 >= Pipe!Least(ReadCall.want, ReadCall.avail)
      BY <1>b, <3>1, <3>2, <3>3 DEF Pipe!Least
    <3>5. HandedOver' = HandedOver \o SubSeq(accepted, Len(HandedOver) + 1, Len(HandedOver) + 0)
      <4>1. SubSeq(accepted, Len(HandedOver) + 1, Len(HandedOver) + 0) = <<>>
        BY <1>a, SubSeqEmpty
      <4> QED  BY <1>a, <2>1, <4>1, ConcatEmptySeq
    <3>6. /\ ReadCall # Pipe!NoRead
          /\ 0 \in 0..ReadCall.want
          /\ 0 <= Pipe!Stored
      BY <1>a, <1>b, <3>1, <3>2 DEF Pipe!NoRead
    <3> QED  BY <2>1, <3>1, <3>4, <3>5, <3>6 DEF Pipe!Next, Pipe!Deliver
  <2> QED  BY <2>2, <2>3
<1>10. CASE RCopy
  <2>1. rpc = "copy"
    BY <1>10, <1>a, <1>b DEF RCopy, Order, ReaderView
  <2> QED
    BY <1>10, <2>1 DEF RCopy, producer, history, results, Pipe!vars, HandedOver, WriteCall, ReadCall,
       Writes, Reads, Request, Stream
<1>11. CASE RPublish
  <2>1. /\ rpc = "copy" /\ rpc' \in {"wrap", "done"} /\ Len(rdata) = rn
        /\ UNCHANGED <<wpc, wreq, wbase, wroom, rdata, delivered, accepted>>
        /\ rn <= Held /\ rn <= rreq /\ rn >= Smaller(rreq, ravail) /\ rreq > 0
    <3>1. rpc = "copy" /\ ~(Len(rdata) < rn)
      BY <1>11 DEF RPublish
    <3>2. Len(rdata) <= rn /\ rn <= Held /\ rn <= rreq /\ rn >= Smaller(rreq, ravail) /\ rreq > 0
      BY <1>a, <3>1 DEF Order, ReaderView, CallsInv, Reads
    <3>3. Len(rdata) = rn
      BY <1>b, <3>1, <3>2
    <3> QED  BY <1>11, <3>1, <3>2, <3>3 DEF RPublish, producer, results
  <2>2. UNCHANGED <<accepted, WriteCall>>
    BY <2>1 DEF WriteCall, Writes, Request, Stream
  <2>3. ReadCall = [want |-> rreq, avail |-> ravail] /\ ReadCall' = Pipe!NoRead
    BY <2>1 DEF ReadCall, Reads, Pipe!NoRead
  <2>4. /\ ReadCall # Pipe!NoRead
        /\ rn \in 0..ReadCall.want
        /\ rn >= Pipe!Least(ReadCall.want, ReadCall.avail)
        /\ rn <= Pipe!Stored
    BY <1>a, <1>b, <2>1, <2>3 DEF Pipe!NoRead, Pipe!Least, Smaller
  <2>5. HandedOver = delivered /\ HandedOver' = delivered \o rdata
    BY <2>1 DEF HandedOver
  <2>6. rdata = SubSeq(accepted, Len(delivered) + 1, Len(delivered) + rn)
    <3> DEFINE next == SubSeq(accepted, Len(delivered) + 1, Len(delivered) + rn)
    <3>1. Len(delivered) + rn <= Len(accepted) /\ Len(accepted) \in Nat
      BY <1>a, <1>b, <2>1
    <3>2. \A i \in Len(delivered) + 1..Len(delivered) + rn : accepted[i] \in 0..MaxOffered
      <4>1. \A i \in Len(delivered) + 1..Len(delivered) + rn : i \in 1..Len(accepted)
        BY <1>b, <3>1
      <4>2. \A i \in 1..Len(accepted) : accepted[i] \in 1..MaxOffered
        BY <1>b, ElementOfSeq
      <4> QED  BY <4>1, <4>2
    <3>3. next \in Seq(0..MaxOffered)
      BY <1>b, <3>2, SubSeqProperties
    <3>4. Len(next) = rn
      <4>1. Len(next) = IF Len(delivered) + 1 <= Len(delivered) + rn
                          THEN (Len(delivered) + rn) - (Len(delivered) + 1) + 1 ELSE 0
        BY <1>b, <3>2, SubSeqProperties
      <4> QED  BY <1>b, <4>1
    <3>5. \A i \in 1..rn : next[i] = accepted[Len(delivered) + i]
      <4>1. \A i \in 1..(Len(delivered) + rn) - (Len(delivered) + 1) + 1 :
              next[i] = accepted[Len(delivered) + 1 + i - 1]
        BY <1>b, <3>2, SubSeqProperties
      <4>2. ASSUME NEW i \in 1..rn
            PROVE  /\ i \in 1..(Len(delivered) + rn) - (Len(delivered) + 1) + 1
                   /\ Len(delivered) + 1 + i - 1 = Len(delivered) + i
        BY <1>b
      <4> HIDE DEF next
      <4> QED  BY <4>1, <4>2
    <3>6. \A i \in 1..rn : rdata[i] = accepted[Len(delivered) + i]
      BY <1>a, <2>1 DEF Order, ReaderView
    <3> HIDE DEF next
    <3>7. \A i \in 1..Len(rdata) : rdata[i] = next[i]
      BY <2>1, <3>5, <3>6
    <3>8. rdata = next
      BY <1>b, <2>1, <3>3, <3>4, <3>7, SeqEqual
    <3> QED  BY <3>8 DEF next
  <2>7. HandedOver' = HandedOver \o
          SubSeq(accepted, Len(HandedOver) + 1, Len(HandedOver) + rn)
    BY <2>5, <2>6
  <2> QED  BY <2>2, <2>3, <2>4, <2>7 DEF Pipe!Next, Pipe!Deliver
<1>12. CASE UNCHANGED vars
  BY <1>12 DEF vars, producer, consumer, history, results, Pipe!vars, HandedOver, WriteCall, ReadCall,
     Writes, Reads, Request, Stream
<1> QED
  BY <1>1, <1>2, <1>3, <1>4, <1>5, <1>6, <1>7, <1>8, <1>9, <1>10, <1>11, <1>12
     DEF Next, Producer, Consumer

\* In every build, and with purges, every behaviour of the ring is one of the lossy
\* pipe until it is spoiled (ringbuffer.h:34-39).
THEOREM RingIsPipe == Spec => PipeSpec
<1>1. FifoInv /\ FifoInv' /\ [Next]_vars => [Pipe!Next \/ spoiled']_(Pipe!vars)
  <2> SUFFICES ASSUME FifoInv, FifoInv', [Next]_vars, ~spoiled'
               PROVE  [Pipe!Next]_(Pipe!vars)
    OBVIOUS
  <2> QED  BY PipeStep
<1> QED  BY FifoInit, FifoStep, PipeInit, <1>1, PTL DEF Spec, PipeSpec
=============================================================================
