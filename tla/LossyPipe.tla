----------------------------- MODULE LossyPipe -----------------------------
(***************************************************************************)
(* What one direction of a virtual COM port pair promises: a bounded pipe  *)
(* between one writer and one reader that may drop the end of a write, but *)
(* only a write that found too little room, and that delivers what it      *)
(* accepted in order, once, and nothing else (hid2vsp ringbuffer.h:34-39,  *)
(* "we write as much as we can and drop the rest").                        *)
(***************************************************************************)
EXTENDS Integers, Sequences

CONSTANT Capacity    \* bytes the pipe can hold

VARIABLES accepted,  \* every byte the pipe took, in order
          delivered, \* every byte handed to the reader, in order
          write,     \* the write call under way: its bytes, the room it found
          read       \* the read call under way: bytes wanted, bytes it found

vars == <<accepted, delivered, write, read>>

NoWrite == [data |-> <<>>, room |-> 0]
NoRead  == [want |-> 0, avail |-> 0]

Stored == Len(accepted) - Len(delivered)

Least(m, n) == IF m <= n THEN m ELSE n

Init == /\ accepted = <<>>
        /\ delivered = <<>>
        /\ write = NoWrite
        /\ read = NoRead

\* A write of at least one byte starts. The room is what it finds then.
BeginWrite == /\ write = NoWrite
              /\ write' \in [data : Seq(Nat) \ {<<>>}, room : {Capacity - Stored}]
              /\ UNCHANGED <<accepted, delivered, read>>

\* The pipe takes a prefix: all of it, or at least as much as fitted when the
\* call started (the reader may have made more room since).
Accept == /\ write # NoWrite
          /\ \E k \in 0..Len(write.data) :
                /\ k >= Least(Len(write.data), write.room)
                /\ Stored + k <= Capacity
                /\ accepted' = accepted \o SubSeq(write.data, 1, k)
          /\ write' = NoWrite
          /\ UNCHANGED <<delivered, read>>

BeginRead == /\ read = NoRead
             /\ read' \in [want : Nat \ {0}, avail : {Stored}]
             /\ UNCHANGED <<accepted, delivered, write>>

\* The reader gets the next bytes: no fewer than were there when it asked.
Deliver == /\ read # NoRead
           /\ \E k \in 0..read.want :
                 /\ k >= Least(read.want, read.avail)
                 /\ k <= Stored
                 /\ delivered' = delivered \o
                      SubSeq(accepted, Len(delivered) + 1, Len(delivered) + k)
           /\ read' = NoRead
           /\ UNCHANGED <<accepted, write>>

\* All the pipe holds is dropped; a read under way has found nothing.
DropAll == /\ accepted' = delivered
           /\ read' = IF read = NoRead THEN NoRead ELSE [read EXCEPT !.avail = 0]
           /\ UNCHANGED <<delivered, write>>

Next == BeginWrite \/ Accept \/ BeginRead \/ Deliver \/ DropAll

Spec == Init /\ [][Next]_vars
=============================================================================
