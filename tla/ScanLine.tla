------------------------------ MODULE ScanLine ------------------------------
(***************************************************************************)
(* From key events to lines: the keymap and LineBuffer of core.py, and the *)
(* handling of a key by the event loop of linux.py and the WM_INPUT        *)
(* handler of windows.py, which do the same. The scanner types scans into  *)
(* an event buffer of the system, which loses events when it is full.      *)
(*                                                                         *)
(* What was typed is kept by the keys held down, as a keyboard driver has  *)
(* it; the code keeps one flag for both shift keys. Autorepeated events,   *)
(* which linux.py skips, are left out. A character is a key and its form.  *)
(***************************************************************************)
EXTENDS Naturals, SequencesExt

CONSTANTS
  Letter, Symbol, Keypad, Blank,  \* KEYMAP_US: letters, keys of SHIFT_MAP_US, others
  Silent,                         \* keys that are in neither map
  ShiftKey, CapsLock, Terminator, \* SHIFT_KEYS, KEY_CAPSLOCK, TERMINATOR_KEYS
  RespectCaps,                    \* caps_lock_strategy is "respect"
  Prefix, Suffix, MaxLength,      \* FramingConfig
  None,     \* no line
  Scans,    \* the scans to come, each a sequence of <<key, "press" or "release">>
  Backlog   \* the events the system keeps for a reader

Printable == Letter \cup Symbol \cup Keypad \cup Blank
AnyKey    == Printable \cup Silent \cup ShiftKey \cup {CapsLock} \cup Terminator

ASSUME ScanAssumption ==
  /\ Scans \in Seq(Seq(AnyKey \X {"press", "release"}))
  /\ (Printable \cup ShiftKey \cup {CapsLock}) \cap Terminator = {}

VARIABLES
  typing,  \* the events of the present scan that are still to come
  held,    \* the shift keys held down
  capsOn,  \* caps lock as typed
  text,    \* what has been typed since the last terminator
  typed,   \* history: the text of each scan
  both,    \* history: a shift key was moved while another was held
  hit,     \* history: the scans that lost an event
  input,   \* the event buffer: scan, key, act
  line,    \* LineBuffer._buf
  shift,   \* the reader's shift flag
  caps,    \* the reader's caps lock flag
  flushed  \* history: what each terminator found in the buffer, with its scan

scanner  == <<typing, held, capsOn, text, typed, both>>
decoder  == <<line, shift, caps, flushed>>
scanVars == <<scanner, hit, input, decoder>>

-----------------------------------------------------------------------------
(* The keymap and the framing *)

\* The mutants of this module: plausible slips in core.py and linux.py.
BufferKept(l) == l
ShiftStuck(e) == shift \/ (e.key \in ShiftKey /\ e.act = "press")

\* translate, of a key that has a character.
Form(k, s, c) == IF s /\ k \in Symbol THEN "symbol"
                 ELSE IF (s \/ c) /\ k \in Letter THEN "upper" ELSE "base"

Char(k, s, c) == [key |-> k, form |-> Form(k, s, c)]

StripPrefix(l) == IF IsPrefix(Prefix, l) THEN SubSeq(l, Len(Prefix) + 1, Len(l)) ELSE l
StripSuffix(l) == IF IsSuffix(Suffix, l) THEN SubSeq(l, 1, Len(l) - Len(Suffix)) ELSE l

Ink(l) == {i \in DOMAIN l : l[i].key \notin Blank}

\* str.strip
Strip(l) == IF Ink(l) = {} THEN <<>> ELSE SubSeq(l, Min(Ink(l)), Max(Ink(l)))

\* The line that flush returns for what is in the buffer, and what it leaves there.
Line(l) == LET s == Strip(StripSuffix(StripPrefix(l)))
           IN  IF s = <<>> \/ Len(s) > MaxLength THEN None ELSE s

Cleared(l) == <<>>

\* The shift flag after an event: one for both keys.
ShiftAfter(e) == IF e.key \in ShiftKey THEN e.act = "press" ELSE shift

-----------------------------------------------------------------------------
(* The scanner and the event buffer *)

\* The mark of the scan being typed: its terminator has yet to come.
Present == Len(typed) + 1

ScanInit ==
  /\ typing = <<>> /\ held = {} /\ capsOn = FALSE /\ text = <<>> /\ typed = <<>>
  /\ both = FALSE /\ hit = {} /\ input = <<>>
  /\ line = <<>> /\ shift = FALSE /\ caps = FALSE /\ flushed = <<>>

\* The reader and its event buffer are gone, and so is what there is to say of them.
ScanReset ==
  /\ typing' = <<>> /\ held' = {} /\ capsOn' = FALSE /\ text' = <<>> /\ typed' = <<>>
  /\ both' = FALSE /\ hit' = {} /\ input' = <<>>
  /\ line' = <<>> /\ shift' = FALSE /\ caps' = FALSE /\ flushed' = <<>>

StartScan ==
  /\ typing = <<>> /\ Present \in DOMAIN Scans
  /\ typing' = Scans[Present]
  /\ UNCHANGED <<held, capsOn, text, typed, both, hit, input, decoder>>

Typed(k, act) ==
  /\ held' = IF k \notin ShiftKey THEN held
             ELSE IF act = "press" THEN held \cup {k} ELSE held \ {k}
  /\ both' = (both \/ (k \in ShiftKey /\ held \ {k} # {}))
  /\ capsOn' = IF k = CapsLock /\ act = "press" THEN ~capsOn ELSE capsOn
  /\ \/ act = "press" /\ k \in Terminator /\ typed' = Append(typed, text) /\ text' = <<>>
     \/ /\ act = "press" /\ k \in Printable
        /\ text' = Append(text, Char(k, held # {}, RespectCaps /\ capsOn))
        /\ UNCHANGED typed
     \/ (act = "release" \/ k \notin Terminator \cup Printable) /\ UNCHANGED <<text, typed>>

\* One event. A full buffer loses it (the queue of a Windows thread) or all it held
\* before (evdev's, which then says SYN_DROPPED).
TypeKey ==
  /\ typing # <<>>
  /\ LET e == [scan |-> Present, key |-> Head(typing)[1], act |-> Head(typing)[2]]
     IN  /\ Typed(e.key, e.act)
         /\ \/ /\ Len(input) < Backlog
               /\ input' = Append(input, e) /\ hit' = hit
            \/ /\ Len(input) = Backlog
               /\ input' = input /\ hit' = hit \cup {Present}
            \/ /\ Len(input) = Backlog
               /\ input' = <<e>> /\ hit' = hit \cup {input[i].scan : i \in DOMAIN input}
  /\ typing' = Tail(typing)
  /\ UNCHANGED decoder

-----------------------------------------------------------------------------
(* The reader *)

\* A key that is no terminator. Only presses count, but for the shift keys.
Key(e) ==
  /\ e.key \notin Terminator \/ e.act = "release"
  /\ shift' = ShiftAfter(e)
  /\ caps' = IF e.key = CapsLock /\ e.act = "press" /\ RespectCaps THEN ~caps ELSE caps
  /\ line' = IF e.key \in Printable /\ e.act = "press"
               THEN Append(line, Char(e.key, shift, caps))
               ELSE line
  /\ flushed' = flushed

Flush(e) ==
  /\ e.key \in Terminator /\ e.act = "press"
  /\ line' = Cleared(line)
  /\ flushed' = Append(flushed, [scan |-> e.scan, raw |-> line])
  /\ UNCHANGED <<shift, caps>>

\* What an event does once it has been taken from the buffer.
Taken == /\ input # <<>>
         /\ input' = Tail(input)
         /\ UNCHANGED <<scanner, hit>>

-----------------------------------------------------------------------------
\* As long as no event is lost and the shift keys do not overlap, each terminator
\* finds its own scan in the buffer, whole and in the right case (linux.py:237-275).
Faithful ==
  hit = {} /\ ~both =>
    \A i \in DOMAIN flushed : flushed[i] = [scan |-> i, raw |-> typed[i]]

Keys(l) == [i \in DOMAIN l |-> l[i].key]

\* Lost events spoil the scans that lost them and the one after, which may be
\* appended to the rest; a lost shift key, or one released while the other is held,
\* only changes the case of what follows.
Confined ==
  \A i \in DOMAIN flushed :
    LET n == flushed[i].scan
    IN  {n - 1, n} \cap hit = {} => Keys(flushed[i].raw) = Keys(typed[n])
=============================================================================
