--------------------------- MODULE ScanLineProofs ---------------------------
(***************************************************************************)
(* What the steps of a scanner, its event buffer and its reader keep: the  *)
(* scans stay in order in the buffer; each terminator finds its own scan,  *)
(* as long as nothing is lost; and what is lost spoils no scan but those   *)
(* that lost it and the next. Readers are put together from these steps.   *)
(*                                                                         *)
(* What the reader will make of the events in the buffer is said by traces *)
(* along the buffer, which grow and shrink with it.                        *)
(***************************************************************************)
EXTENDS ScanLine, SequenceTheorems, TLAPS

Chars  == [key : Printable, form : {"base", "upper", "symbol"}]
Strokes == AnyKey \X {"press", "release"}
Events == [scan : Nat, key : AnyKey, act : {"press", "release"}]

-----------------------------------------------------------------------------
(* The event buffer holds the scans in their order *)

Enters(e) == e.key \in Terminator /\ e.act = "press"

ScanTypes == /\ typing \in Seq(Strokes) /\ text \in Seq(Chars)
             /\ typed \in Seq(Seq(Chars)) /\ input \in Seq(Events)

\* A scan ends with its terminator: what comes after it belongs to a later one.
ScansApart ==
  /\ \A i \in 1..Len(input) : /\ input[i].scan <= Present
                              /\ Enters(input[i]) => input[i].scan < Present
  /\ \A i, j \in 1..Len(input) :
       i < j => /\ input[i].scan <= input[j].scan
                /\ Enters(input[i]) => input[i].scan < input[j].scan

\* Scan n has been typed and is out of the event buffer.
Behind(n) == n < Present /\ \A i \in 1..Len(input) : n < input[i].scan

LEMMA TypedTypes ==
  ASSUME ScanTypes, NEW k \in AnyKey, NEW act \in {"press", "release"}, Typed(k, act)
  PROVE  /\ text' \in Seq(Chars) /\ typed' \in Seq(Seq(Chars))
         /\ Present' >= Present
         /\ k \in Terminator /\ act = "press" => Present' = Present + 1
  <1>1. k \in Printable => Char(k, held # {}, RespectCaps /\ capsOn) \in Chars
    BY DEF Char, Form, Chars
  <1>2. CASE act = "press" /\ k \in Terminator /\ typed' = Append(typed, text) /\ text' = <<>>
    BY <1>2 DEF ScanTypes, Present
  <1>3. CASE /\ act = "press" /\ k \in Printable
             /\ text' = Append(text, Char(k, held # {}, RespectCaps /\ capsOn))
             /\ UNCHANGED typed
    <2>1. k \notin Terminator
      BY <1>3, ScanAssumption
    <2> QED
      BY <1>1, <1>3, <2>1 DEF ScanTypes, Present
  <1>4. CASE (act = "release" \/ k \notin Terminator \cup Printable) /\ UNCHANGED <<text, typed>>
    BY <1>4 DEF ScanTypes, Present
  <1> QED
    BY <1>2, <1>3, <1>4 DEF Typed

LEMMA TypeKeyApart ==
  ASSUME ScanTypes, ScansApart, TypeKey
  PROVE  /\ ScanTypes' /\ ScansApart'
         /\ \A n \in Nat : Behind(n) => Behind(n)'
  <1> DEFINE e == [scan |-> Present, key |-> Head(typing)[1], act |-> Head(typing)[2]]
  <1>1. Head(typing) \in Strokes /\ typing' \in Seq(Strokes)
    BY DEF TypeKey, ScanTypes
  <1>2. e.key \in AnyKey /\ e.act \in {"press", "release"} /\ e.scan = Present
    BY <1>1 DEF Strokes
  <1>3. Present \in Nat /\ e \in Events
    BY <1>2 DEF ScanTypes, Present, Events
  <1>4. Typed(e.key, e.act)
    BY DEF TypeKey
  <1>5. /\ text' \in Seq(Chars) /\ typed' \in Seq(Seq(Chars)) /\ Present' >= Present
        /\ Enters(e) => Present' = Present + 1
    BY <1>2, <1>4, TypedTypes DEF Enters
  <1>6. Present' \in Nat
    BY <1>5 DEF Present
  <1>7. input' = Append(input, e) \/ input' = input \/ input' = <<e>>
    BY DEF TypeKey
  <1> HIDE DEF e
  <1>8. input' \in Seq(Events)
    <2>1. input \in Seq(Events)
      BY DEF ScanTypes
    <2>2. Append(input, e) \in Seq(Events) /\ <<e>> \in Seq(Events)
      BY <1>3, <2>1, AppendProperties
    <2> QED
      BY <1>7, <2>1, <2>2
  <1>9. \A i \in 1..Len(input) : input[i].scan \in Nat /\ input[i].scan <= Present
    <2> TAKE i \in 1..Len(input)
    <2>1. input[i] \in Events
      BY DEF ScanTypes
    <2> QED
      BY <2>1 DEF ScansApart, Events
  <1>10. CASE input' = Append(input, e)
    <2>1. /\ Len(input') = Len(input) + 1 /\ Len(input) \in Nat
          /\ \A i \in 1..Len(input) : input'[i] = input[i]
          /\ input'[Len(input) + 1] = e
      BY <1>3, <1>10 DEF ScanTypes
    <2>2. \A i \in 1..Len(input') : /\ input'[i].scan <= Present'
                                    /\ Enters(input'[i]) => input'[i].scan < Present'
      BY <1>2, <1>3, <1>5, <1>6, <1>9, <2>1 DEF ScansApart, Enters
    <2>3. ASSUME NEW i \in 1..Len(input'), NEW j \in 1..Len(input'), i < j
          PROVE  /\ input'[i].scan <= input'[j].scan
                 /\ Enters(input'[i]) => input'[i].scan < input'[j].scan
      <3>1. i \in 1..Len(input) /\ input'[i] = input[i]
        BY <2>1, <2>3
      <3>2. CASE j \in 1..Len(input)
        BY <2>1, <2>3, <3>1, <3>2 DEF ScansApart
      <3>3. CASE j = Len(input) + 1
        BY <1>2, <2>1, <3>1, <3>3 DEF ScansApart
      <3> QED
        BY <2>1, <3>2, <3>3
    <2>4. ScansApart'
      BY <2>2, <2>3 DEF ScansApart, Enters
    <2>5. \A n \in Nat : Behind(n) => Behind(n)'
      BY <1>2, <1>3, <1>5, <1>6, <2>1 DEF Behind
    <2> QED
      BY <1>1, <1>5, <1>8, <2>4, <2>5 DEF ScanTypes
  <1>11. CASE input' = input
    <2>1. ScansApart'
      BY <1>3, <1>5, <1>6, <1>9, <1>11 DEF ScansApart, Enters
    <2>2. \A n \in Nat : Behind(n) => Behind(n)'
      BY <1>3, <1>5, <1>6, <1>11 DEF Behind
    <2> QED
      BY <1>1, <1>5, <1>8, <2>1, <2>2 DEF ScanTypes
  <1>12. CASE input' = <<e>>
    <2>1. Len(input') = 1 /\ input'[1] = e
      BY <1>12
    <2>2. ScansApart'
      BY <1>2, <1>3, <1>5, <1>6, <2>1 DEF ScansApart, Enters
    <2>3. \A n \in Nat : Behind(n) => Behind(n)'
      BY <1>2, <1>3, <1>5, <1>6, <2>1 DEF Behind
    <2> QED
      BY <1>1, <1>5, <1>8, <2>2, <2>3 DEF ScanTypes
  <1> QED
    BY <1>7, <1>10, <1>11, <1>12

LEMMA TakenApart ==
  ASSUME ScanTypes, ScansApart, Taken
  PROVE  /\ ScanTypes' /\ ScansApart'
         /\ \A n \in Nat : Behind(n) => Behind(n)'
         /\ Head(input) \in Events
         /\ \A n \in Nat : n = Head(input).scan /\ Enters(Head(input)) => Behind(n)'
         /\ \A n \in Nat : Behind(n) => n < Head(input).scan
  <1>1. /\ input # <<>> /\ input' = Tail(input) /\ input \in Seq(Events)
        /\ UNCHANGED <<typing, text, typed>> /\ Present' = Present /\ Present \in Nat
    BY DEF Taken, ScanTypes, scanner, Present
  <1>2. /\ input' \in Seq(Events) /\ Len(input) \in Nat \ {0} /\ Len(input') = Len(input) - 1
        /\ Head(input) = input[1] /\ Head(input) \in Events
        /\ \A i \in 1..Len(input') : input'[i] = input[i + 1]
    BY <1>1
  <1>3. ScanTypes'
    BY <1>1, <1>2 DEF ScanTypes
  <1>4. \A i \in 1..Len(input) : input[i].scan \in Nat
    <2> TAKE i \in 1..Len(input)
    <2>1. input[i] \in Events
      BY <1>1
    <2> QED
      BY <2>1 DEF Events
  <1>5. ScansApart'
    BY <1>1, <1>2, <1>4 DEF ScansApart, Enters
  <1>6. \A n \in Nat : Behind(n) => Behind(n)' /\ n < Head(input).scan
    BY <1>1, <1>2, <1>4 DEF Behind
  <1>7. ASSUME NEW n \in Nat, n = Head(input).scan, Enters(Head(input))
        PROVE  Behind(n)'
    <2>1. n = input[1].scan /\ Enters(input[1]) /\ 1 \in 1..Len(input)
      BY <1>2, <1>7
    <2>2. \A i \in 1..Len(input') : n < input'[i].scan
      BY <1>2, <2>1 DEF ScansApart
    <2> QED
      BY <1>1, <1>2, <2>1, <2>2 DEF Behind, ScansApart
  <1> QED
    BY <1>2, <1>3, <1>5, <1>6, <1>7

LEMMA StartScanApart ==
  ASSUME ScanTypes, ScansApart, StartScan
  PROVE  ScanTypes' /\ ScansApart' /\ \A n \in Nat : Behind(n) => Behind(n)'
  <1>1. typing' \in Seq(Strokes)
    BY ScanAssumption DEF StartScan, Strokes
  <1> QED
    BY <1>1 DEF StartScan, ScanTypes, ScansApart, Behind, Present, Enters

LEMMA ScanStep ==
  ASSUME ScanTypes, ScansApart, StartScan \/ TypeKey \/ Taken \/ UNCHANGED scanVars
  PROVE  ScanTypes' /\ ScansApart' /\ \A n \in Nat : Behind(n) => Behind(n)'
  <1>1. CASE UNCHANGED scanVars
    BY <1>1 DEF scanVars, scanner, ScanTypes, ScansApart, Behind, Present, Enters
  <1> QED
    BY <1>1, StartScanApart, TypeKeyApart, TakenApart

-----------------------------------------------------------------------------
(* What the reader has *)

ReaderTypes == /\ line \in Seq(Chars)
               /\ flushed \in Seq([scan : Nat, raw : Seq(Chars)])

\* The scans that were flushed have been typed, and those in the buffer are numbered
\* from one.
Within ==
  /\ \A i \in 1..Len(flushed) : flushed[i].scan \in 1..Len(typed)
  /\ \A i \in 1..Len(input) : input[i].scan >= 1

LEMMA CharsAppend ==
  ASSUME NEW l \in Seq(Chars), NEW c \in Chars
  PROVE  Keys(l) \in Seq(Printable) /\ Keys(Append(l, c)) = Append(Keys(l), c.key)
  <1>1. c.key \in Printable /\ \A i \in 1..Len(l) : l[i].key \in Printable
    <2>1. \A d \in Chars : d.key \in Printable
      BY DEF Chars
    <2>2. \A i \in 1..Len(l) : l[i] \in Chars
      OBVIOUS
    <2> QED
      BY <2>1, <2>2
  <1>2. Keys(l) = [i \in 1..Len(l) |-> l[i].key] /\ Len(l) \in Nat
    BY DEF Keys
  <1>3. Keys(l) \in Seq(Printable) /\ Len(Keys(l)) = Len(l)
    BY <1>1, <1>2
  <1>4. /\ Append(l, c) \in Seq(Chars) /\ Len(Append(l, c)) = Len(l) + 1
        /\ \A i \in 1..Len(l) : Append(l, c)[i] = l[i]
        /\ Append(l, c)[Len(l) + 1] = c
    BY AppendProperties
  <1>5. Keys(Append(l, c)) = [i \in 1..(Len(l) + 1) |-> Append(l, c)[i].key]
    BY <1>4 DEF Keys
  <1>6. Append(Keys(l), c.key) = [i \in 1..(Len(l) + 1) |->
                                    IF i = Len(l) + 1 THEN c.key ELSE Keys(l)[i]]
    BY <1>1, <1>3
  <1> QED
    BY <1>2, <1>3, <1>4, <1>5, <1>6

\* The keys that have come since the last terminator, after one more event.
KeysAfter(l, e) == IF Enters(e) THEN <<>>
                   ELSE IF e.key \in Printable /\ e.act = "press" THEN Append(l, e.key)
                   ELSE l

LEMMA TypedKeys ==
  ASSUME ScanTypes, NEW e \in Events, Typed(e.key, e.act)
  PROVE  /\ Keys(text') = KeysAfter(Keys(text), e)
         /\ typed' = IF Enters(e) THEN Append(typed, text) ELSE typed
  <1>1. CASE e.act = "press" /\ e.key \in Terminator /\ typed' = Append(typed, text) /\ text' = <<>>
    BY <1>1 DEF Enters, KeysAfter, Keys
  <1>2. CASE /\ e.act = "press" /\ e.key \in Printable
             /\ text' = Append(text, Char(e.key, held # {}, RespectCaps /\ capsOn))
             /\ UNCHANGED typed
    <2>1. ~Enters(e)
      BY <1>2, ScanAssumption DEF Enters
    <2>2. PICK c \in Chars : text' = Append(text, c) /\ c.key = e.key
      BY <1>2 DEF Char, Form, Chars
    <2> QED
      BY <1>2, <2>1, <2>2, CharsAppend DEF KeysAfter, ScanTypes
  <1>3. CASE /\ e.act = "release" \/ e.key \notin Terminator \cup Printable
             /\ UNCHANGED <<text, typed>>
    BY <1>3 DEF Enters, KeysAfter
  <1> QED
    BY <1>1, <1>2, <1>3 DEF Typed

LEMMA TakenKeys ==
  ASSUME ReaderTypes, NEW e \in Events, Key(e) \/ Flush(e)
  PROVE  /\ ReaderTypes'
         /\ Keys(line') = KeysAfter(Keys(line), e)
         /\ flushed' = IF Enters(e) THEN Append(flushed, [scan |-> e.scan, raw |-> line])
                                    ELSE flushed
  <1>1. CASE Flush(e)
    <2>1. [scan |-> e.scan, raw |-> line] \in [scan : Nat, raw : Seq(Chars)]
      BY DEF ReaderTypes, Events
    <2> QED
      BY <1>1, <2>1 DEF Flush, Cleared, ReaderTypes, Enters, KeysAfter, Keys
  <1>2. CASE Key(e)
    <2>1. ~Enters(e) /\ flushed' = flushed
      BY <1>2 DEF Key, Enters, Events
    <2>2. CASE e.key \in Printable /\ e.act = "press"
      <3>1. PICK c \in Chars : line' = Append(line, c) /\ c.key = e.key
        BY <1>2, <2>2 DEF Key, Char, Form, Chars
      <3> QED
        BY <2>1, <2>2, <3>1, CharsAppend DEF ReaderTypes, KeysAfter
    <2>3. CASE ~(e.key \in Printable /\ e.act = "press")
      BY <1>2, <2>1, <2>3 DEF Key, ReaderTypes, KeysAfter
    <2> QED
      BY <2>2, <2>3
  <1> QED
    BY <1>1, <1>2

-----------------------------------------------------------------------------
(* What a loss spoils *)

\* Scan n lost nothing, and nor did the one before it.
Unspoilt(n, lost) == {n - 1, n} \cap lost = {}

\* r[k] is what the reader will have of keys when it takes event k.
KeyTrace(r) ==
  /\ r[1] = Keys(line)
  /\ \A k \in 1..Len(input) :
       /\ r[k + 1] = KeysAfter(r[k], input[k])
       /\ Enters(input[k]) /\ Unspoilt(input[k].scan, hit) => r[k] = Keys(typed[input[k].scan])
  /\ Unspoilt(Present, hit) => r[Len(input) + 1] = Keys(text)

\* When the last whole scan lost nothing, nothing older than it ends the buffer.
LastIn == input # <<>> /\ Len(typed) \notin hit => input[Len(input)].scan >= Len(typed)

LossInv == /\ ReaderTypes /\ Within /\ LastIn /\ Confined
           /\ \E r : KeyTrace(r)

\* More losses spoil more.
LEMMA SpoiltStays == ASSUME hit \subseteq hit' PROVE \A n : Unspoilt(n, hit') => Unspoilt(n, hit)
  BY DEF Unspoilt

LEMMA ConfinedKept ==
  ASSUME ScanTypes, ReaderTypes, Within, Confined, flushed' = flushed, hit \subseteq hit',
         NEW s, typed' = typed \/ typed' = Append(typed, s), s \in Seq(Chars)
  PROVE  Confined'
  <1>1. DOMAIN flushed = 1..Len(flushed)
    BY DEF ReaderTypes
  <1>2. ASSUME NEW i \in DOMAIN flushed PROVE typed'[flushed[i].scan] = typed[flushed[i].scan]
    BY <1>1, <1>2 DEF Within, ScanTypes
  <1> QED
    BY <1>1, <1>2 DEF Confined

\* An event that the buffer takes.
LEMMA TakesEvent ==
  ASSUME ScanTypes, ScansApart, ReaderTypes, Within, NEW r, KeyTrace(r), NEW e \in Events,
         e.scan = Present, Typed(e.key, e.act), input' = Append(input, e), hit' = hit,
         line' = line
  PROVE  \E q : KeyTrace(q)'
  <1> DEFINE N == Len(input)
  <1>0. PICK q : q = [k \in 1..(N + 2) |-> IF k <= N + 1 THEN r[k] ELSE KeysAfter(r[N + 1], e)]
    OBVIOUS
  <1>1. /\ N \in Nat /\ Len(input') = N + 1 /\ input'[N + 1] = e
        /\ \A k \in 1..N : input'[k] = input[k]
    BY DEF ScanTypes
  <1>2. /\ \A k \in 1..(N + 1) : q[k] = r[k]
        /\ q[N + 2] = KeysAfter(r[N + 1], e)
    BY <1>0, <1>1
  <1>3. /\ Keys(text') = KeysAfter(Keys(text), e)
        /\ typed' = IF Enters(e) THEN Append(typed, text) ELSE typed
    BY TypedKeys
  <1>4. text \in Seq(Chars) /\ typed \in Seq(Seq(Chars)) /\ Present = Len(typed) + 1
    BY DEF ScanTypes, Present
  <1>5. Present' = IF Enters(e) THEN Present + 1 ELSE Present
    BY <1>3, <1>4 DEF Present
  <1>7. ASSUME NEW k \in 1..N
        PROVE  /\ q[k + 1] = KeysAfter(q[k], input'[k])
               /\ Enters(input'[k]) /\ Unspoilt(input'[k].scan, hit) =>
                    q[k] = Keys(typed'[input'[k].scan])
    <2>1. k \in 1..(N + 1) /\ k + 1 \in 1..(N + 1)
      BY <1>1
    <2>2. ASSUME Enters(input[k]) PROVE typed'[input[k].scan] = typed[input[k].scan]
      <3>1. input[k] \in Events
        BY DEF ScanTypes
      <3>2. input[k].scan \in 1..Len(typed)
        BY <1>1, <1>4, <2>2, <3>1 DEF ScansApart, Within, Events
      <3> QED
        BY <1>3, <1>4, <3>2
    <2> QED
      BY <1>1, <1>2, <2>1, <2>2 DEF KeyTrace
  <1>8. /\ q[N + 2] = KeysAfter(q[N + 1], input'[N + 1])
        /\ Enters(e) /\ Unspoilt(e.scan, hit) => q[N + 1] = Keys(typed'[e.scan])
    <2>1. q[N + 1] = r[N + 1]
      BY <1>1, <1>2
    <2>2. ASSUME Enters(e), Unspoilt(e.scan, hit) PROVE r[N + 1] = Keys(typed'[e.scan])
      <3>1. r[N + 1] = Keys(text)
        BY <2>2 DEF KeyTrace
      <3>2. typed'[e.scan] = text
        BY <1>3, <1>4, <2>2
      <3> QED
        BY <3>1, <3>2
    <2> QED
      BY <1>1, <1>2, <2>1, <2>2
  <1>9. ASSUME Unspoilt(Present', hit) PROVE q[N + 2] = Keys(text')
    <2>1. CASE Enters(e)
      BY <1>2, <1>3, <2>1 DEF KeysAfter
    <2>2. CASE ~Enters(e)
      <3>1. r[N + 1] = Keys(text)
        BY <1>5, <1>9, <2>2 DEF KeyTrace
      <3> QED
        BY <1>2, <1>3, <3>1
    <2> QED
      BY <2>1, <2>2
  <1>10. q[1] = Keys(line')
    BY <1>1, <1>2 DEF KeyTrace
  <1>11. KeyTrace(q)'
    <2>1. ASSUME NEW k \in 1..Len(input')
          PROVE  /\ q[k + 1] = KeysAfter(q[k], input'[k])
                 /\ Enters(input'[k]) /\ Unspoilt(input'[k].scan, hit') =>
                      q[k] = Keys(typed'[input'[k].scan])
      <3>1. CASE k \in 1..N
        BY <1>7, <3>1
      <3>2. CASE k = N + 1
        BY <1>1, <1>8, <3>2
      <3> QED
        BY <1>1, <3>1, <3>2
    <2>2. Unspoilt(Present', hit') => q[Len(input') + 1] = Keys(text')
      BY <1>1, <1>9
    <2> QED
      BY <1>10, <2>1, <2>2 DEF KeyTrace, KeysAfter, Enters, Keys
  <1> QED
    BY <1>11

\* An event that takes the place of all that was in the buffer.
LEMMA ReplacesEvents ==
  ASSUME ScanTypes, ScansApart, LastIn, NEW e \in Events, e.scan = Present,
         Typed(e.key, e.act), input # <<>>, input' = <<e>>, line' = line,
         hit' = hit \cup {input[i].scan : i \in DOMAIN input}
  PROVE  \E q : KeyTrace(q)'
  <1>1. PICK q : q = <<Keys(line), KeysAfter(Keys(line), e)>>
    OBVIOUS
  <1>2. /\ Len(input) \in Nat \ {0} /\ Len(input) \in DOMAIN input /\ input[Len(input)] \in Events
        /\ text \in Seq(Chars) /\ typed \in Seq(Seq(Chars)) /\ Present = Len(typed) + 1
    BY DEF ScanTypes, Present
  <1>3. ~Unspoilt(Present, hit')
    <2>1. CASE Len(typed) \in hit
      BY <1>2, <2>1 DEF Unspoilt
    <2>2. CASE Len(typed) \notin hit
      <3>1. /\ input[Len(input)].scan \in Nat /\ input[Len(input)].scan >= Len(typed)
            /\ input[Len(input)].scan <= Present
        BY <1>2, <2>2 DEF LastIn, ScansApart, Events
      <3>2. input[Len(input)].scan \in {Present - 1, Present}
        BY <1>2, <3>1
      <3> QED
        BY <1>2, <3>2 DEF Unspoilt
    <2> QED
      BY <2>1, <2>2
  <1>4. /\ Keys(text') = KeysAfter(Keys(text), e)
        /\ typed' = IF Enters(e) THEN Append(typed, text) ELSE typed
    BY TypedKeys
  <1>5. Unspoilt(Present', hit') => Enters(e)
    BY <1>3, <1>4 DEF Present
  <1>6. Len(input') = 1 /\ input'[1] = e
    OBVIOUS
  <1>7. q[1] = Keys(line') /\ q[2] = KeysAfter(q[1], e)
    BY <1>1
  <1>8. Unspoilt(Present', hit') => q[Len(input') + 1] = Keys(text')
    BY <1>4, <1>5, <1>6, <1>7 DEF KeysAfter
  <1>9. \A k \in 1..Len(input') :
          /\ q[k + 1] = KeysAfter(q[k], input'[k])
          /\ Enters(input'[k]) /\ Unspoilt(input'[k].scan, hit') =>
               q[k] = Keys(typed'[input'[k].scan])
    BY <1>3, <1>6, <1>7
  <1>10. KeyTrace(q)'
    BY <1>7, <1>8, <1>9 DEF KeyTrace, KeysAfter, Enters, Keys
  <1> QED
    BY <1>10

\* An event that a full buffer does not take.
LEMMA LosesEvent ==
  ASSUME ScanTypes, ScansApart, Within, NEW r, KeyTrace(r), NEW e \in Events,
         Typed(e.key, e.act), input' = input, line' = line, hit' = hit \cup {Present}
  PROVE  \E q : KeyTrace(q)'
  <1>1. /\ text \in Seq(Chars) /\ typed \in Seq(Seq(Chars)) /\ Present = Len(typed) + 1
        /\ typed' = IF Enters(e) THEN Append(typed, text) ELSE typed
    BY TypedKeys DEF ScanTypes, Present
  <1>2. ~Unspoilt(Present', hit')
    BY <1>1 DEF Unspoilt, Present
  <1>3. ASSUME NEW k \in 1..Len(input), Enters(input[k]), Unspoilt(input[k].scan, hit')
        PROVE  r[k] = Keys(typed'[input[k].scan])
    <2>1. input[k] \in Events
      BY DEF ScanTypes
    <2>2. input[k].scan \in 1..Len(typed)
      BY <1>1, <1>3, <2>1 DEF ScansApart, Within, Events
    <2>3. typed'[input[k].scan] = typed[input[k].scan]
      BY <1>1, <2>2
    <2>4. Unspoilt(input[k].scan, hit)
      BY <1>3, SpoiltStays
    <2> QED
      BY <1>3, <2>3, <2>4 DEF KeyTrace
  <1>4. r[1] = Keys(line') /\ \A k \in 1..Len(input') : r[k + 1] = KeysAfter(r[k], input'[k])
    BY DEF KeyTrace
  <1>5. \A k \in 1..Len(input') :
          Enters(input'[k]) /\ Unspoilt(input'[k].scan, hit') =>
            r[k] = Keys(typed'[input'[k].scan])
    BY <1>3
  <1>6. KeyTrace(r)'
    BY <1>2, <1>4, <1>5 DEF KeyTrace, KeysAfter, Enters, Keys
  <1> QED
    BY <1>6

LEMMA LossTypeKey ==
  ASSUME ScanTypes, ScansApart, LossInv, TypeKey
  PROVE  LossInv'
  <1>1. PICK e : /\ e = [scan |-> Present, key |-> Head(typing)[1], act |-> Head(typing)[2]]
                 /\ Typed(e.key, e.act)
                 /\ \/ input' = Append(input, e) /\ hit' = hit
                    \/ input' = input /\ hit' = hit \cup {Present}
                    \/ input' = <<e>> /\ hit' = hit \cup {input[i].scan : i \in DOMAIN input}
    BY DEF TypeKey
  <1>2. e \in Events /\ e.scan = Present
    <2>1. Head(typing) \in Strokes /\ Present \in Nat
      BY DEF TypeKey, ScanTypes, Present
    <2> QED
      BY <1>1, <2>1 DEF Strokes, Events
  <1>3. /\ line' = line /\ flushed' = flushed /\ hit \subseteq hit'
        /\ ReaderTypes /\ Within /\ LastIn /\ Confined
    BY <1>1 DEF TypeKey, decoder, LossInv
  <1>4. /\ text \in Seq(Chars) /\ typed \in Seq(Seq(Chars)) /\ Present = Len(typed) + 1
        /\ typed' = IF Enters(e) THEN Append(typed, text) ELSE typed
        /\ input \in Seq(Events)
    BY <1>1, <1>2, TypedKeys DEF ScanTypes, Present
  <1>5. ReaderTypes' /\ Confined'
    BY <1>3, <1>4, ConfinedKept DEF ReaderTypes
  <1>6. Len(typed') \in {Len(typed), Present} /\ Len(typed) \in Nat
    BY <1>4
  <1>7. \A i \in 1..Len(flushed) : flushed[i].scan \in 1..Len(typed')
    BY <1>3, <1>4, <1>6 DEF Within
  <1>8. PICK r : KeyTrace(r)
    BY DEF LossInv
  <1>9. CASE input' = Append(input, e) /\ hit' = hit
    <2>1. \E q : KeyTrace(q)'
      BY <1>1, <1>2, <1>3, <1>8, <1>9, TakesEvent
    <2>2. Len(input') = Len(input) + 1 /\ input'[Len(input')] = e
          /\ \A i \in 1..Len(input) : input'[i] = input[i]
      BY <1>2, <1>4, <1>9
    <2>3. LastIn'
      BY <1>2, <1>4, <1>6, <2>2 DEF LastIn
    <2>4. Within'
      <3>1. ASSUME NEW i \in 1..Len(input') PROVE input'[i].scan >= 1
        <4>1. CASE i \in 1..Len(input)
          BY <1>3, <2>2, <4>1 DEF Within
        <4>2. CASE i = Len(input')
          BY <1>2, <1>4, <2>2, <4>2
        <4> QED
          BY <1>4, <2>2, <4>1, <4>2
      <3> QED
        BY <1>3, <1>7, <3>1 DEF Within
    <2> QED
      BY <1>5, <2>1, <2>3, <2>4 DEF LossInv
  <1>10. CASE input' = input /\ hit' = hit \cup {Present}
    <2>1. \E q : KeyTrace(q)'
      BY <1>1, <1>2, <1>3, <1>8, <1>10, LosesEvent
    <2>2. LastIn'
      BY <1>3, <1>6, <1>10 DEF LastIn
    <2>3. Within'
      BY <1>3, <1>7, <1>10 DEF Within
    <2> QED
      BY <1>5, <2>1, <2>2, <2>3 DEF LossInv
  <1>11. CASE input # <<>> /\ input' = <<e>> /\ hit' = hit \cup {input[i].scan : i \in DOMAIN input}
    <2>1. \E q : KeyTrace(q)'
      BY <1>1, <1>2, <1>3, <1>11, ReplacesEvents
    <2>2. Len(input') = 1 /\ input'[1] = e
      BY <1>11
    <2>3. LastIn'
      BY <1>2, <1>4, <1>6, <2>2 DEF LastIn
    <2>4. Within'
      BY <1>2, <1>3, <1>4, <1>7, <2>2 DEF Within
    <2> QED
      BY <1>5, <2>1, <2>3, <2>4 DEF LossInv
  <1>12. CASE input = <<>> /\ input' = <<e>> /\ hit' = hit \cup {input[i].scan : i \in DOMAIN input}
    <2>1. input' = Append(input, e) /\ hit' = hit
      BY <1>12
    <2> QED
      BY <1>9, <2>1
  <1> QED
    BY <1>1, <1>9, <1>10, <1>11, <1>12

LEMMA LossTaken ==
  ASSUME ScanTypes, ScansApart, LossInv, Taken, Key(Head(input)) \/ Flush(Head(input))
  PROVE  LossInv'
  <1>1. /\ Len(input) \in Nat \ {0} /\ Len(input') = Len(input) - 1
        /\ Head(input) = input[1] /\ Head(input) \in Events
        /\ \A i \in 1..Len(input') : input'[i] = input[i + 1]
        /\ UNCHANGED <<text, typed, hit, Present>> /\ Present = Len(typed) + 1 /\ Len(typed) \in Nat
    BY DEF Taken, ScanTypes, scanner, Present
  <1>2. PICK e \in Events : e = Head(input)
    BY <1>1
  <1>3. /\ ReaderTypes'
        /\ Keys(line') = KeysAfter(Keys(line), e)
        /\ flushed' = IF Enters(e) THEN Append(flushed, [scan |-> e.scan, raw |-> line])
                                   ELSE flushed
    BY <1>2, TakenKeys DEF LossInv
  <1>4. PICK r : KeyTrace(r)
    BY DEF LossInv
  <1>5. \E q : KeyTrace(q)'
    <2>1. PICK q : q = [k \in 1..Len(input) |-> r[k + 1]]
      OBVIOUS
    <2>2. q[1] = Keys(line')
      BY <1>1, <1>2, <1>3, <1>4, <2>1 DEF KeyTrace
    <2>3. \A k \in 1..Len(input') :
            /\ q[k + 1] = KeysAfter(q[k], input'[k])
            /\ Enters(input'[k]) /\ Unspoilt(input'[k].scan, hit') =>
                 q[k] = Keys(typed'[input'[k].scan])
      <3> TAKE k \in 1..Len(input')
      <3>1. /\ k + 1 \in 1..Len(input) /\ input'[k] = input[k + 1]
            /\ q[k] = r[k + 1] /\ q[k + 1] = r[(k + 1) + 1]
        BY <1>1, <2>1
      <3> QED
        BY <1>1, <1>4, <3>1 DEF KeyTrace
    <2>4. Unspoilt(Present', hit') => q[Len(input') + 1] = Keys(text')
      BY <1>1, <1>4, <2>1 DEF KeyTrace
    <2>5. KeyTrace(q)'
      BY <2>2, <2>3, <2>4 DEF KeyTrace, KeysAfter, Enters, Keys
    <2> QED
      BY <2>5
  <1>6. LastIn'
    <2>1. input' # <<>> => input'[Len(input')] = input[Len(input)]
      BY <1>1 DEF Taken, ScanTypes
    <2> QED
      BY <1>1, <2>1 DEF LossInv, LastIn
  <1>7. Enters(e) => e.scan \in 1..Len(typed)
    BY <1>1, <1>2 DEF LossInv, Within, ScansApart, Events
  <1>8. flushed \in Seq([scan : Nat, raw : Seq(Chars)])
    BY DEF LossInv, ReaderTypes
  <1>9. Within'
    <2>1. \A i \in 1..Len(flushed') : flushed'[i].scan \in 1..Len(typed)
      BY <1>3, <1>7, <1>8 DEF LossInv, Within
    <2> QED
      BY <1>1, <2>1 DEF LossInv, Within
  <1>10. Confined'
    <2>1. CASE ~Enters(e)
      BY <1>1, <1>3, <2>1 DEF LossInv, Confined, Keys
    <2>2. CASE Enters(e)
      <3>1. /\ DOMAIN flushed = 1..Len(flushed) /\ DOMAIN flushed' = 1..(Len(flushed) + 1)
            /\ \A i \in 1..Len(flushed) : flushed'[i] = flushed[i]
            /\ flushed'[Len(flushed) + 1] = [scan |-> e.scan, raw |-> line]
        BY <1>3, <1>8, <2>2
      <3>2. Unspoilt(e.scan, hit) => Keys(line) = Keys(typed[e.scan])
        BY <1>1, <1>2, <1>4, <2>2 DEF KeyTrace
      <3> QED
        BY <1>1, <3>1, <3>2 DEF LossInv, Confined, Keys, Unspoilt
    <2> QED
      BY <2>1, <2>2
  <1> QED
    BY <1>3, <1>5, <1>6, <1>9, <1>10 DEF LossInv

\* The reader takes an event.
TakesKey == Taken /\ (Key(Head(input)) \/ Flush(Head(input)))

LEMMA LossStep ==
  ASSUME ScanTypes, ScansApart, LossInv,
         StartScan \/ TypeKey \/ TakesKey \/ UNCHANGED scanVars
  PROVE  LossInv'
  <1>1. CASE UNCHANGED <<text, typed, hit, input, line, flushed>>
    BY <1>1 DEF LossInv, ReaderTypes, Within, LastIn, Confined, KeyTrace, Present
  <1> QED
    BY <1>1, LossTypeKey, LossTaken DEF TakesKey, StartScan, scanVars, scanner, decoder

LEMMA LossInit == ASSUME ScanInit PROVE LossInv
  <1>1. PICK r : r = <<Keys(line)>>
    OBVIOUS
  <1>2. KeyTrace(r)
    BY <1>1 DEF ScanInit, KeyTrace, Keys
  <1> QED
    BY <1>2 DEF ScanInit, LossInv, ReaderTypes, Within, LastIn, Confined

-----------------------------------------------------------------------------
(* Nothing lost and one shift key at a time *)

Flag(b) == IF b THEN "on" ELSE "off"

\* What the reader has, and what it should have: what was typed.
Now   == [line |-> line, shift |-> Flag(shift), caps |-> Flag(caps), count |-> Len(flushed)]
Meant == [line |-> text, shift |-> Flag(held # {}), caps |-> Flag(RespectCaps /\ capsOn),
          count |-> Len(typed)]

\* What the reader has after one more event.
After(s, e) ==
  [line  |-> IF Enters(e) THEN <<>>
             ELSE IF e.key \in Printable /\ e.act = "press"
                    THEN Append(s.line, Char(e.key, s.shift = "on", s.caps = "on"))
                    ELSE s.line,
   shift |-> IF e.key \in ShiftKey THEN Flag(e.act = "press") ELSE s.shift,
   caps  |-> IF e.key = CapsLock /\ e.act = "press" /\ RespectCaps THEN Flag(s.caps = "off")
             ELSE s.caps,
   count |-> IF Enters(e) THEN s.count + 1 ELSE s.count]

\* t[k] is what the reader will have when it takes event k.
CaseTrace(t) ==
  /\ t[1] = Now
  /\ \A k \in 1..Len(input) :
       /\ t[k + 1] = After(t[k], input[k])
       /\ Enters(input[k]) => /\ input[k].scan = t[k].count + 1
                              /\ t[k].line = typed[input[k].scan]
  /\ t[Len(input) + 1] = Meant

FlagTypes == shift \in BOOLEAN /\ caps \in BOOLEAN /\ capsOn \in BOOLEAN

FaithInv == /\ FlagTypes
            /\ hit = {} /\ ~both => Faithful /\ \E t : CaseTrace(t)

LEMMA TypedMeant ==
  ASSUME ScanTypes, FlagTypes, NEW e \in Events, Typed(e.key, e.act), ~both'
  PROVE  Meant' = After(Meant, e)
  <1>1. e.key \in ShiftKey => held \ {e.key} = {}
    BY DEF Typed
  <1>2. Flag(held' # {}) = IF e.key \in ShiftKey THEN Flag(e.act = "press") ELSE Flag(held # {})
    BY <1>1 DEF Typed, Flag, Events
  <1>3. Flag(RespectCaps /\ capsOn') =
          IF e.key = CapsLock /\ e.act = "press" /\ RespectCaps
            THEN Flag(Flag(RespectCaps /\ capsOn) = "off")
            ELSE Flag(RespectCaps /\ capsOn)
    <2>1. capsOn' = IF e.key = CapsLock /\ e.act = "press" THEN ~capsOn ELSE capsOn
      BY DEF Typed
    <2>2. CASE capsOn
      BY <2>1, <2>2 DEF Flag
    <2>3. CASE ~capsOn
      BY <2>1, <2>3 DEF Flag
    <2> QED
      BY <2>2, <2>3
  <1>4. Len(typed') = IF Enters(e) THEN Len(typed) + 1 ELSE Len(typed)
    BY TypedKeys DEF ScanTypes
  <1>5. text' = IF Enters(e) THEN <<>>
                ELSE IF e.key \in Printable /\ e.act = "press"
                       THEN Append(text, Char(e.key, Flag(held # {}) = "on",
                                                     Flag(RespectCaps /\ capsOn) = "on"))
                       ELSE text
    <2>1. CASE e.act = "press" /\ e.key \in Terminator /\ typed' = Append(typed, text) /\ text' = <<>>
      BY <2>1 DEF Enters
    <2>2. CASE /\ e.act = "press" /\ e.key \in Printable
               /\ text' = Append(text, Char(e.key, held # {}, RespectCaps /\ capsOn))
      <3>1. ~Enters(e)
        BY <2>2, ScanAssumption DEF Enters
      <3>2. Char(e.key, held # {}, RespectCaps /\ capsOn)
              = Char(e.key, Flag(held # {}) = "on", Flag(RespectCaps /\ capsOn) = "on")
        BY DEF Char, Form, Flag
      <3> QED
        BY <2>2, <3>1, <3>2
    <2>3. CASE /\ e.act = "release" \/ e.key \notin Terminator \cup Printable
               /\ UNCHANGED <<text, typed>>
      BY <2>3 DEF Enters
    <2> QED
      BY <2>1, <2>2, <2>3 DEF Typed
  <1> QED
    BY <1>2, <1>3, <1>4, <1>5 DEF Meant, After

LEMMA TakenNow ==
  ASSUME ReaderTypes, FlagTypes, NEW e \in Events, Key(e) \/ Flush(e)
  PROVE  Now' = After(Now, e)
  <1>1. CASE Flush(e)
    <2>1. e.key \notin ShiftKey /\ e.key # CapsLock /\ Enters(e)
      BY <1>1, ScanAssumption DEF Flush, Enters
    <2>2. line' = <<>> /\ shift' = shift /\ caps' = caps /\ Len(flushed') = Len(flushed) + 1
      BY <1>1 DEF Flush, Cleared, ReaderTypes
    <2> QED
      BY <2>1, <2>2 DEF Now, After
  <1>2. CASE Key(e)
    <2>1. ~Enters(e) /\ flushed' = flushed
      BY <1>2 DEF Key, Enters, Events
    <2>2. Flag(shift') = IF e.key \in ShiftKey THEN Flag(e.act = "press") ELSE Flag(shift)
      BY <1>2 DEF Key, ShiftAfter, Flag
    <2>3. Flag(caps') = IF e.key = CapsLock /\ e.act = "press" /\ RespectCaps
                          THEN Flag(Flag(caps) = "off") ELSE Flag(caps)
      <3>1. caps' = IF e.key = CapsLock /\ e.act = "press" /\ RespectCaps THEN ~caps ELSE caps
        BY <1>2 DEF Key
      <3>2. CASE caps
        BY <3>1, <3>2 DEF Flag
      <3>3. CASE ~caps
        BY <3>1, <3>3 DEF Flag
      <3> QED
        BY <3>2, <3>3
    <2>4. line' = IF e.key \in Printable /\ e.act = "press"
                    THEN Append(line, Char(e.key, Flag(shift) = "on", Flag(caps) = "on"))
                    ELSE line
      <3>1. Char(e.key, shift, caps) = Char(e.key, Flag(shift) = "on", Flag(caps) = "on")
        BY DEF Char, Form, Flag
      <3> QED
        BY <1>2, <3>1 DEF Key
    <2> QED
      BY <2>1, <2>2, <2>3, <2>4 DEF Now, After
  <1> QED
    BY <1>1, <1>2

LEMMA FlagsTypeKey == ASSUME FlagTypes, TypeKey PROVE FlagTypes'
  <1>1. shift' = shift /\ caps' = caps /\ capsOn' \in {capsOn, ~capsOn}
    BY DEF TypeKey, Typed, decoder
  <1> QED
    BY <1>1 DEF FlagTypes

LEMMA FlagsTaken ==
  ASSUME FlagTypes, Taken, Key(Head(input)) \/ Flush(Head(input))
  PROVE  FlagTypes'
  <1>1. /\ capsOn' = capsOn /\ caps' \in {caps, ~caps}
        /\ shift' \in {shift, Head(input).act = "press"}
    BY DEF Taken, scanner, Key, Flush, ShiftAfter
  <1> QED
    BY <1>1 DEF FlagTypes

LEMMA FaithTypeKey ==
  ASSUME ScanTypes, ScansApart, LossInv, FaithInv, TypeKey
  PROVE  FaithInv'
  <1>0. FlagTypes'
    BY FlagsTypeKey DEF FaithInv
  <1> SUFFICES ASSUME hit' = {}, ~both'
               PROVE  Faithful' /\ \E t : CaseTrace(t)'
    BY <1>0 DEF FaithInv
  <1>1. PICK e : /\ e = [scan |-> Present, key |-> Head(typing)[1], act |-> Head(typing)[2]]
                 /\ Typed(e.key, e.act)
                 /\ \/ input' = Append(input, e) /\ hit' = hit
                    \/ input' = input /\ hit' = hit \cup {Present}
                    \/ input' = <<e>> /\ hit' = hit \cup {input[i].scan : i \in DOMAIN input}
    BY DEF TypeKey
  <1>2. e \in Events /\ e.scan = Present
    <2>1. Head(typing) \in Strokes /\ Present \in Nat
      BY DEF TypeKey, ScanTypes, Present
    <2> QED
      BY <1>1, <2>1 DEF Strokes, Events
  <1>3. /\ text \in Seq(Chars) /\ typed \in Seq(Seq(Chars)) /\ Present = Len(typed) + 1
        /\ typed' = IF Enters(e) THEN Append(typed, text) ELSE typed
        /\ input \in Seq(Events)
    BY <1>1, <1>2, TypedKeys DEF ScanTypes, Present
  <1>4. hit = {} /\ ~both
    BY <1>1 DEF Typed
  <1>5. input' = Append(input, e)
    <2>1. ASSUME input # <<>>, input' = <<e>>,
                 hit' = hit \cup {input[i].scan : i \in DOMAIN input}
          PROVE  FALSE
      <3>1. 1 \in DOMAIN input
        BY <1>3, <2>1
      <3> QED
        BY <2>1, <3>1
    <2>2. input = <<>> => Append(input, e) = <<e>>
      OBVIOUS
    <2>3. hit' # hit \cup {Present}
      OBVIOUS
    <2> QED
      BY <1>1, <2>1, <2>2, <2>3
  <1>6. /\ line' = line /\ UNCHANGED <<shift, caps, flushed>> /\ Now' = Now
    BY DEF TypeKey, decoder, Now
  <1>7. Meant' = After(Meant, e)
    BY <1>1, <1>2, TypedMeant DEF FaithInv
  <1>8. Faithful'
    <2>1. ASSUME NEW i \in DOMAIN flushed
          PROVE  flushed'[i] = [scan |-> i, raw |-> typed'[i]]
      <3>1. flushed[i] = [scan |-> i, raw |-> typed[i]]
        BY <1>4 DEF FaithInv, Faithful
      <3>2. i \in 1..Len(flushed) /\ flushed[i].scan \in 1..Len(typed)
        BY DEF LossInv, ReaderTypes, Within
      <3>3. i \in 1..Len(typed)
        BY <3>1, <3>2
      <3> QED
        BY <1>3, <1>6, <3>1, <3>3
    <2> QED
      BY <1>6, <2>1 DEF Faithful
  <1> DEFINE N == Len(input)
  <1>9. PICK t : CaseTrace(t)
    BY <1>4 DEF FaithInv
  <1>10. PICK q : q = [k \in 1..(N + 2) |-> IF k <= N + 1 THEN t[k] ELSE After(Meant, e)]
    OBVIOUS
  <1>11. /\ N \in Nat /\ Len(input') = N + 1 /\ input'[N + 1] = e
         /\ \A k \in 1..N : input'[k] = input[k]
    BY <1>2, <1>3, <1>5
  <1>12. (\A k \in 1..(N + 1) : q[k] = t[k]) /\ q[N + 2] = After(Meant, e) /\ q[N + 1] = Meant
    BY <1>9, <1>10, <1>11 DEF CaseTrace
  <1>13. ASSUME NEW k \in 1..Len(input')
         PROVE  /\ q[k + 1] = After(q[k], input'[k])
                /\ Enters(input'[k]) => /\ input'[k].scan = q[k].count + 1
                                        /\ q[k].line = typed'[input'[k].scan]
    <2>1. CASE k \in 1..N
      <3>1. /\ q[k] = t[k] /\ q[k + 1] = t[k + 1] /\ input'[k] = input[k]
        BY <1>11, <1>12, <2>1
      <3>2. ASSUME Enters(input[k]) PROVE typed'[input[k].scan] = typed[input[k].scan]
        <4>1. input[k] \in Events
          BY <1>3, <2>1
        <4>2. input[k].scan \in 1..Len(typed)
          BY <1>3, <2>1, <3>2, <4>1 DEF ScansApart, LossInv, Within, Events
        <4> QED
          BY <1>3, <4>2
      <3> QED
        BY <1>9, <2>1, <3>1, <3>2 DEF CaseTrace
    <2>2. CASE k = N + 1
      <3>1. Enters(e) => typed'[Present] = text
        BY <1>3
      <3>2. Meant.count = Len(typed) /\ Meant.line = text
        BY DEF Meant
      <3>3. q[(N + 1) + 1] = After(q[N + 1], e)
        BY <1>11, <1>12
      <3> QED
        BY <1>2, <1>3, <1>11, <1>12, <2>2, <3>1, <3>2, <3>3
    <2> QED
      BY <1>11, <2>1, <2>2
  <1>14. q[1] = Now' /\ q[Len(input') + 1] = Meant'
    BY <1>6, <1>7, <1>9, <1>11, <1>12 DEF CaseTrace
  <1>15. CaseTrace(q)'
    BY <1>13, <1>14 DEF CaseTrace, After, Enters, Flag, Char, Form
  <1> QED
    BY <1>8, <1>15

LEMMA FaithTaken ==
  ASSUME ScanTypes, ScansApart, LossInv, FaithInv, Taken,
         Key(Head(input)) \/ Flush(Head(input))
  PROVE  FaithInv'
  <1>0. FlagTypes'
    BY FlagsTaken DEF FaithInv
  <1> SUFFICES ASSUME hit' = {}, ~both'
               PROVE  Faithful' /\ \E t : CaseTrace(t)'
    BY <1>0 DEF FaithInv
  <1>1. /\ Len(input) \in Nat \ {0} /\ Len(input') = Len(input) - 1
        /\ Head(input) = input[1] /\ Head(input) \in Events
        /\ \A i \in 1..Len(input') : input'[i] = input[i + 1]
        /\ UNCHANGED <<text, typed, hit, both, held, capsOn>>
    BY DEF Taken, ScanTypes, scanner
  <1>2. PICK e \in Events : e = Head(input)
    BY <1>1
  <1>3. hit = {} /\ ~both /\ Meant' = Meant
    BY <1>1 DEF Meant
  <1>4. PICK t : CaseTrace(t)
    BY <1>3 DEF FaithInv
  <1>5. Now' = After(Now, e)
    BY <1>2, TakenNow DEF LossInv, FaithInv
  <1>6. PICK q : q = [k \in 1..Len(input) |-> t[k + 1]]
    OBVIOUS
  <1>7. q[1] = Now'
    BY <1>1, <1>2, <1>4, <1>5, <1>6 DEF CaseTrace
  <1>8. \A k \in 1..Len(input') :
          /\ q[k + 1] = After(q[k], input'[k])
          /\ Enters(input'[k]) => /\ input'[k].scan = q[k].count + 1
                                  /\ q[k].line = typed'[input'[k].scan]
    <2> TAKE k \in 1..Len(input')
    <2>1. /\ k + 1 \in 1..Len(input) /\ input'[k] = input[k + 1]
          /\ q[k] = t[k + 1] /\ q[k + 1] = t[(k + 1) + 1]
      BY <1>1, <1>6
    <2> QED
      BY <1>1, <1>4, <2>1 DEF CaseTrace
  <1>9. q[Len(input') + 1] = Meant'
    BY <1>1, <1>3, <1>4, <1>6 DEF CaseTrace
  <1>10. CaseTrace(q)'
    BY <1>7, <1>8, <1>9 DEF CaseTrace, After, Enters, Flag, Char, Form
  <1>11. Faithful'
    <2>1. flushed' = IF Enters(e) THEN Append(flushed, [scan |-> e.scan, raw |-> line])
                                  ELSE flushed
      BY <1>2, TakenKeys DEF LossInv
    <2>2. \A i \in DOMAIN flushed : flushed[i] = [scan |-> i, raw |-> typed'[i]]
      BY <1>1, <1>3 DEF FaithInv, Faithful
    <2>3. CASE ~Enters(e)
      BY <2>1, <2>2, <2>3 DEF Faithful
    <2>4. CASE Enters(e)
      <3>1. flushed \in Seq([scan : Nat, raw : Seq(Chars)])
        BY DEF LossInv, ReaderTypes
      <3>2. /\ DOMAIN flushed = 1..Len(flushed) /\ DOMAIN flushed' = 1..(Len(flushed) + 1)
            /\ \A i \in 1..Len(flushed) : flushed'[i] = flushed[i]
            /\ flushed'[Len(flushed) + 1] = [scan |-> e.scan, raw |-> line]
        BY <2>1, <2>4, <3>1
      <3>3. e.scan = Len(flushed) + 1 /\ line = typed'[e.scan]
        <4>1. e.scan = t[1].count + 1 /\ t[1].line = typed[e.scan] /\ t[1] = Now
          BY <1>1, <1>2, <1>4, <2>4 DEF CaseTrace
        <4> QED
          BY <1>1, <4>1 DEF Now
      <3> QED
        BY <2>2, <3>2, <3>3 DEF Faithful
    <2> QED
      BY <2>3, <2>4
  <1> QED
    BY <1>10, <1>11

LEMMA FaithStep ==
  ASSUME ScanTypes, ScansApart, LossInv, FaithInv,
         StartScan \/ TypeKey \/ TakesKey \/ UNCHANGED scanVars
  PROVE  FaithInv'
  <1>1. CASE UNCHANGED <<held, capsOn, text, typed, both, hit, input, line, shift, caps, flushed>>
    <2>1. Now' = Now /\ Meant' = Meant
      BY <1>1 DEF Now, Meant
    <2> QED
      BY <1>1, <2>1 DEF FaithInv, FlagTypes, Faithful, CaseTrace
  <1> QED
    BY <1>1, FaithTypeKey, FaithTaken DEF TakesKey, StartScan, scanVars, scanner, decoder

LEMMA FaithInit == ASSUME ScanInit PROVE FaithInv
  <1>1. PICK t : t = <<Now>>
    OBVIOUS
  <1>2. CaseTrace(t)
    BY <1>1 DEF ScanInit, CaseTrace, Now, Meant, Flag
  <1>3. FlagTypes
    BY DEF ScanInit, FlagTypes
  <1>4. Faithful
    BY DEF ScanInit, Faithful
  <1> QED
    BY <1>2, <1>3, <1>4 DEF FaithInv

-----------------------------------------------------------------------------
(* All of it *)

Decoding == ScanTypes /\ ScansApart /\ LossInv /\ FaithInv

LEMMA DecodingInit == ASSUME ScanInit PROVE Decoding
  <1>1. ScanTypes /\ ScansApart
    BY DEF ScanInit, ScanTypes, ScansApart
  <1> QED
    BY <1>1, LossInit, FaithInit DEF Decoding

LEMMA DecodingStep ==
  ASSUME Decoding,
         StartScan \/ TypeKey \/ TakesKey \/ UNCHANGED scanVars
  PROVE  Decoding'
  <1>1. ScanTypes' /\ ScansApart'
    BY ScanStep DEF Decoding, TakesKey
  <1>2. LossInv'
    BY LossStep DEF Decoding
  <1>3. FaithInv'
    BY FaithStep DEF Decoding
  <1> QED
    BY <1>1, <1>2, <1>3 DEF Decoding

LEMMA DecodingReset == ASSUME ScanReset PROVE Decoding'
  <1>1. ScanInit'
    BY DEF ScanReset, ScanInit
  <1> QED
    BY <1>1, DecodingInit, PTL
=============================================================================
