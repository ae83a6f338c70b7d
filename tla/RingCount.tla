----------------------------- MODULE RingCount -----------------------------
(***************************************************************************)
(* What the ring between two ports of a pair promises about the number of  *)
(* bytes it holds, with purges from both sides (ringbuffer.c:34-43, 54-79, *)
(* queue.c:389-415). A write adds what it found room for when it loaded    *)
(* the reader's pointer, whatever the reader takes meanwhile; a read takes *)
(* what it found, whatever is added meanwhile. A reset is two stores, and  *)
(* one that meets a call tears the ring: its count is anything then, until *)
(* a reset meets no call.                                                  *)
(***************************************************************************)
EXTENDS Integers

CONSTANTS
  Capacity,   \* bytes the ring can hold
  SplitStore  \* whether the writer's pointer goes past the end in two stores

VARIABLES
  stored,     \* bytes in the ring
  torn,       \* whether a reset met a call since the last clean one
  write,      \* bytes the write call under way will add, or NoCall
  read,       \* bytes the read call under way will take, or NoCall
  aimed,      \* the read call has loaded its own pointer and not the writer's
  txreset,    \* the writer's purge is between its two stores
  rxreset     \* the reader's purge is

vars == <<stored, torn, write, read, aimed, txreset, rxreset>>

NoCall == -1

\* The values of a number that should be k.
Number(k) == IF torn' THEN 0..Capacity ELSE {k}

\* How much a call moves of k bytes: all it asks for, at least one of several.
Share(k) == IF k = 0 THEN {0} ELSE 1..k

Writing == write # NoCall
Reading == read # NoCall

Init ==
  /\ stored = 0 /\ torn = FALSE
  /\ write = NoCall /\ read = NoCall /\ aimed = FALSE
  /\ txreset = FALSE /\ rxreset = FALSE

BeginWrite ==
  /\ ~Writing /\ ~txreset
  /\ torn' = (torn \/ rxreset)
  /\ \E k \in Number(Capacity - stored) : write' \in Share(k)
  /\ UNCHANGED <<stored, read, aimed, txreset, rxreset>>

EndWrite ==
  /\ Writing
  /\ torn' = torn
  /\ stored' \in Number(stored + write)
  /\ write' = NoCall
  /\ UNCHANGED <<read, aimed, txreset, rxreset>>

Aim ==
  /\ ~Reading /\ ~aimed /\ ~rxreset
  /\ aimed' = TRUE
  /\ UNCHANGED <<stored, torn, write, read, txreset, rxreset>>

\* A read that finds nothing is over at once. One that finds the writer's
\* pointer past the end tears the ring like a reset, and may find one byte more
\* than the ring can hold.
BeginRead ==
  /\ aimed
  /\ aimed' = FALSE
  /\ \/ torn' = (torn \/ txreset)
     \/ SplitStore /\ torn' = TRUE
  /\ \E k \in IF torn' THEN 0..Capacity + 1 ELSE {stored} :
        read' \in IF k = 0 THEN {NoCall} ELSE 1..k
  /\ UNCHANGED <<stored, write, txreset, rxreset>>

EndRead ==
  /\ Reading
  /\ torn' = torn
  /\ stored' \in Number(stored - read)
  /\ read' = NoCall
  /\ UNCHANGED <<write, aimed, txreset, rxreset>>

\* A purge's store of the reader's pointer, which mends the ring if it meets no
\* call, and its store of the writer's.
FirstStore ==
  /\ torn' = (Writing \/ Reading \/ aimed)
  /\ stored' \in Number(0)
  /\ UNCHANGED <<write, read, aimed>>

SecondStore ==
  /\ torn' = (torn \/ Writing \/ Reading)
  /\ stored' \in Number(0)
  /\ UNCHANGED <<write, read, aimed>>

TxFirst  == ~Writing /\ ~txreset /\ FirstStore /\ txreset' = TRUE /\ UNCHANGED rxreset
TxSecond == txreset /\ SecondStore /\ txreset' = FALSE /\ UNCHANGED rxreset

RxFirst  == ~Reading /\ ~aimed /\ ~rxreset /\ FirstStore /\ rxreset' = TRUE /\ UNCHANGED txreset
RxSecond == rxreset /\ SecondStore /\ rxreset' = FALSE /\ UNCHANGED txreset

\* The ring goes with its port, when nobody uses it.
Discard ==
  /\ ~Writing /\ ~Reading /\ ~aimed /\ ~txreset /\ ~rxreset
  /\ stored' = 0 /\ torn' = FALSE
  /\ UNCHANGED <<write, read, aimed, txreset, rxreset>>

Next == \/ BeginWrite \/ EndWrite \/ Aim \/ BeginRead \/ EndRead
        \/ TxFirst \/ TxSecond \/ RxFirst \/ RxSecond \/ Discard

Spec == Init /\ [][Next]_vars
=============================================================================
