---------------------------- MODULE LineControl ----------------------------
(***************************************************************************)
(* The line settings of a hid2vsp port: IOCTL_SERIAL_SET_LINE_CONTROL and  *)
(* IOCTL_SERIAL_GET_LINE_CONTROL (queue.c), which code what an application *)
(* asks for into the bits of a line control register and back. One port    *)
(* handles one request at a time, so the compare-and-exchange loop of      *)
(* queue.c:997-1025 always succeeds at once. The break bit it keeps is     *)
(* never set, and left out.                                                *)
(***************************************************************************)
EXTENDS Integers

CONSTANTS
  Input,  \* the SERIAL_LINE_CONTROL structures applications pass
  None    \* a request whose buffer is too short for one

ASSUME LineAssumption == /\ Input \subseteq [word : Nat, stop : Nat, parity : Nat]
                         /\ None \notin [word : Nat, stop : Nat, parity : Nat]

VARIABLES
  lcr,    \* DEVICE_CONTEXT.LineControlRegister, by field
  mask,   \* DEVICE_CONTEXT.ValidDataMask
  asked,  \* history: what the last successful request set, or None
  ok      \* history: whether the last request succeeded

vars == <<lcr, mask, asked, ok>>

\* StopBits: STOP_BIT_1, STOP_BITS_1_5, STOP_BITS_2.
OneStop == 0
OneAndHalf == 1
TwoStop == 2

\* The mutants of this module: plausible slips in queue.c.
StopAllowedAny(in) == in.stop \in 0..2
ParityBitsShifted(p) == 2 * p

\* Which stop bits go with a word length.
StopAllowed(in) == \/ in.stop = OneStop
                   \/ in.stop = OneAndHalf /\ in.word = 5
                   \/ in.stop = TwoStop /\ in.word # 5

\* How far a request gets: each field is looked at once those before it are valid.
WordOk(in)   == in # None /\ in.word \in 5..8
StopOk(in)   == WordOk(in) /\ StopAllowed(in)
ParityOk(in) == StopOk(in) /\ in.parity \in 0..4

\* The parity field of the register for NO_, ODD_, EVEN_, MARK_, SPACE_PARITY.
ParityBits(p) == IF p = 0 THEN 0 ELSE 2 * p - 1

WordMask(w) == 2 ^ w - 1

\* A field not reached, or not valid, is zero in the new register.
Encode(in) == [data   |-> IF WordOk(in) THEN in.word - 5 ELSE 0,
               stop   |-> IF StopOk(in) /\ in.stop # OneStop THEN 1 ELSE 0,
               parity |-> IF ParityOk(in) THEN ParityBits(in.parity) ELSE 0]

\* A mutant of Decode, which forgets that five data bits take 1.5 stop bits.
DecodeTwoStop(l) ==
  [word   |-> l.data + 5,
   stop   |-> IF l.stop = 0 THEN OneStop ELSE TwoStop,
   parity |-> IF \E p \in 0..4 : ParityBits(p) = l.parity
                THEN CHOOSE p \in 0..4 : ParityBits(p) = l.parity
                ELSE 0]

\* QueueProcessGetLineControl; bits that are no parity decode as NO_PARITY.
Decode(l) ==
  [word   |-> l.data + 5,
   stop   |-> IF l.stop = 0 THEN OneStop ELSE IF l.data = 0 THEN OneAndHalf ELSE TwoStop,
   parity |-> IF \E p \in 0..4 : ParityBits(p) = l.parity
                THEN CHOOSE p \in 0..4 : ParityBits(p) = l.parity
                ELSE 0]

Init == /\ lcr = [data |-> 0, stop |-> 0, parity |-> 0]
        /\ mask = 0
        /\ asked = None
        /\ ok = FALSE

\* QueueProcessSetLineControl: the register is written whether or not the
\* request is valid.
SetLineControl(in) ==
  /\ lcr' = Encode(in)
  /\ mask' = IF WordOk(in) THEN WordMask(in.word) ELSE mask
  /\ ok' = ParityOk(in)
  /\ asked' = IF ParityOk(in) THEN in ELSE asked

Next == \E in \in Input \cup {None} : SetLineControl(in)

Spec == Init /\ [][Next]_vars

-----------------------------------------------------------------------------
TypeOK ==
  /\ lcr \in [data : 0..3, stop : 0..1, parity : {0, 1, 3, 5, 7}]
  /\ mask \in {0, 31, 63, 127, 255}
  /\ asked \in Input \cup {None}
  /\ ok \in BOOLEAN

\* After a successful request GET_LINE_CONTROL answers what was set, and the data
\* mask is the one of that word length.
LineRoundTrip == ok => Decode(lcr) = asked /\ mask = WordMask(asked.word)

\* Whatever was requested, valid or not, GET_LINE_CONTROL answers settings that
\* SET_LINE_CONTROL accepts and that put the register where it is: an
\* application may save and restore them.
LineSettable == ParityOk(Decode(lcr)) /\ Encode(Decode(lcr)) = lcr
=============================================================================
