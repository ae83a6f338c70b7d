------------------------- MODULE LineControlProofs -------------------------
(***************************************************************************)
(* The line settings answered are the ones set, and can be set again, for  *)
(* every request whatever its fields hold.                                 *)
(***************************************************************************)
EXTENDS PortSettings, TLAPS

\* The parity field tells the five parities apart.
LEMMA ParityInverse ==
  ASSUME NEW p \in 0..4
  PROVE  /\ ParityBits(p) \in {0, 1, 3, 5, 7}
         /\ (CHOOSE q \in 0..4 : ParityBits(q) = ParityBits(p)) = p
  <1>1. \A q, r \in 0..4 : ParityBits(q) = ParityBits(r) => q = r
    BY DEF ParityBits
  <1>2. ParityBits(p) \in {0, 1, 3, 5, 7}
    BY DEF ParityBits
  <1> QED
    BY <1>1, <1>2

\* What a valid request puts in the register decodes to the request.
LEMMA DecodeEncode ==
  ASSUME NEW in \in [word : Nat, stop : Nat, parity : Nat], ParityOk(in)
  PROVE  Decode(Encode(in)) = in
  <1>1. /\ in.word \in 5..8 /\ in.stop \in 0..2 /\ in.parity \in 0..4
        /\ in.stop = 1 => in.word = 5
        /\ in.stop = 2 => in.word # 5
    BY DEF ParityOk, StopOk, WordOk, StopAllowed, OneStop, OneAndHalf, TwoStop
  <1>2. Encode(in) = [data |-> in.word - 5, stop |-> IF in.stop # 0 THEN 1 ELSE 0,
                      parity |-> ParityBits(in.parity)]
    BY DEF Encode, ParityOk, StopOk, OneStop
  <1>3. Decode(Encode(in)).word = in.word
    BY <1>1, <1>2 DEF Decode
  <1>4. Decode(Encode(in)).stop = in.stop
    BY <1>1, <1>2 DEF Decode, OneStop, OneAndHalf, TwoStop
  <1>5. Decode(Encode(in)).parity = in.parity
    BY <1>1, <1>2, ParityInverse DEF Decode
  <1>6. Decode(Encode(in)) = [word |-> Decode(Encode(in)).word,
                              stop |-> Decode(Encode(in)).stop,
                              parity |-> Decode(Encode(in)).parity]
    BY DEF Decode
  <1> QED
    BY <1>3, <1>4, <1>5, <1>6

\* The register holds fields of their widths, and a parity that exists.
Fields == \E d \in 0..3 : \E s \in 0..1 : \E p \in 0..4 :
            lcr = [data |-> d, stop |-> s, parity |-> ParityBits(p)]

LEMMA EncodeFields ==
  ASSUME NEW in \in Input \cup {None}
  PROVE  \E d \in 0..3 : \E s \in 0..1 : \E p \in 0..4 :
           Encode(in) = [data |-> d, stop |-> s, parity |-> ParityBits(p)]
  <1>1. PICK d \in 0..3 : d = (IF WordOk(in) THEN in.word - 5 ELSE 0)
    BY LineAssumption DEF WordOk
  <1>2. PICK s \in 0..1 : s = (IF StopOk(in) /\ in.stop # OneStop THEN 1 ELSE 0)
    OBVIOUS
  <1>3. PICK p \in 0..4 : ParityBits(p) = (IF ParityOk(in) THEN ParityBits(in.parity) ELSE 0)
    <2>1. CASE ParityOk(in)
      BY <2>1 DEF ParityOk
    <2>2. CASE ~ParityOk(in)
      BY <2>2 DEF ParityBits
    <2> QED
      BY <2>1, <2>2
  <1> QED
    BY <1>1, <1>2, <1>3 DEF Encode

\* Any such register decodes to a request that is valid and leaves it alone.
LEMMA FieldsSettable == Fields => LineSettable
  <1> SUFFICES ASSUME NEW d \in 0..3, NEW s \in 0..1, NEW p \in 0..4,
                      lcr = [data |-> d, stop |-> s, parity |-> ParityBits(p)]
               PROVE  LineSettable
    BY DEF Fields
  <1> DEFINE in == Decode(lcr)
  <1>1. in.word = d + 5 /\ in.parity = p
    BY ParityInverse DEF Decode
  <1>2. in.stop = IF s = 0 THEN 0 ELSE IF d = 0 THEN 1 ELSE 2
    BY DEF Decode, OneStop, OneAndHalf, TwoStop
  <1>3. in # None
    BY <1>1, <1>2, LineAssumption DEF Decode
  <1>4. ParityOk(in)
    BY <1>1, <1>2, <1>3 DEF ParityOk, StopOk, WordOk, StopAllowed, OneStop, OneAndHalf, TwoStop
  <1>5. Encode(in) = [data |-> d, stop |-> s, parity |-> ParityBits(p)]
    BY <1>1, <1>2, <1>4 DEF Encode, ParityOk, StopOk, OneStop
  <1> QED
    BY <1>4, <1>5 DEF LineSettable

LineInv == /\ Fields /\ asked \in Input \cup {None} /\ ok \in BOOLEAN
           /\ mask \in {0, 31, 63, 127, 255}
           /\ LineRoundTrip

LEMMA LineInit == Init => LineInv
  <1> SUFFICES ASSUME Init PROVE LineInv
    OBVIOUS
  <1>1. lcr = [data |-> 0, stop |-> 0, parity |-> ParityBits(0)]
    BY DEF Init, ParityBits
  <1>2. Fields
    BY <1>1 DEF Fields
  <1> QED
    BY <1>2 DEF Init, LineInv, LineRoundTrip

LEMMA LineStep == LineInv /\ [Next]_vars => LineInv'
  <1> SUFFICES ASSUME LineInv, [Next]_vars PROVE LineInv'
    OBVIOUS
  <1>1. CASE UNCHANGED vars
    BY <1>1 DEF vars, LineInv, Fields, LineRoundTrip, Decode
  <1>2. ASSUME NEW in \in Input \cup {None}, SetLineControl(in) PROVE LineInv'
    <2>1. Fields'
      BY <1>2, EncodeFields DEF SetLineControl, Fields
    <2>2. asked' \in Input \cup {None} /\ ok' \in BOOLEAN
      BY <1>2 DEF SetLineControl, LineInv, ParityOk, StopOk, WordOk, StopAllowed
    <2>3. WordOk(in) => WordMask(in.word) \in {31, 63, 127, 255}
      <3>1. /\ WordMask(5) = 31 /\ WordMask(6) = 63
            /\ WordMask(7) = 127 /\ WordMask(8) = 255
        BY DEF WordMask
      <3> QED
        BY <3>1 DEF WordOk
    <2>4. mask' \in {0, 31, 63, 127, 255}
      BY <1>2, <2>3 DEF SetLineControl, LineInv
    <2>5. LineRoundTrip'
      <3> SUFFICES ASSUME ParityOk(in)
                   PROVE  Decode(lcr') = asked' /\ mask' = WordMask(asked'.word)
        BY <1>2 DEF SetLineControl, LineRoundTrip, Decode
      <3>1. in \in [word : Nat, stop : Nat, parity : Nat]
        BY LineAssumption DEF ParityOk, StopOk, WordOk
      <3> QED
        BY <1>2, <3>1, DecodeEncode DEF SetLineControl, ParityOk, StopOk
    <2> QED
      BY <2>1, <2>2, <2>4, <2>5 DEF LineInv
  <1> QED
    BY <1>1, <1>2 DEF Next

LEMMA LineAlways == Spec => []LineInv
  BY LineInit, LineStep, PTL DEF Spec

\* The fields of the register, the data mask and the history have their types,
\* whatever applications pass (queue.c:896-1025).
THEOREM LineTyped == Spec => []TypeOK
  <1>1. LineInv => TypeOK
    <2> SUFFICES ASSUME LineInv PROVE TypeOK
      OBVIOUS
    <2>1. PICK d \in 0..3, s \in 0..1, p \in 0..4 :
            lcr = [data |-> d, stop |-> s, parity |-> ParityBits(p)]
      BY DEF LineInv, Fields
    <2> QED
      BY <2>1, ParityInverse DEF LineInv, TypeOK
  <1> QED BY <1>1, LineAlways, PTL

\* A successful SET_LINE_CONTROL is what GET_LINE_CONTROL answers until the next
\* request, for every content of the request.
THEOREM LineIsReturned == Spec => []LineRoundTrip
  <1>1. LineInv => LineRoundTrip
    BY DEF LineInv
  <1> QED BY <1>1, LineAlways, PTL

\* What GET_LINE_CONTROL answers is always valid to set again.
THEOREM LineRestorable == Spec => []LineSettable
  <1>1. LineInv => LineSettable
    BY FieldsSettable DEF LineInv
  <1> QED BY <1>1, LineAlways, PTL

\* The line settings of a port that also keeps the others are LineControl's: every
\* step of the port is one of theirs or leaves them alone, so what is proved above
\* holds of it.
THEOREM SettingsImplementLine == SettingsSpec => Spec
  <1>1. SettingsInit => Init
    BY DEF SettingsInit
  <1>2. [SettingsNext]_settingsVars => [Next]_vars
    <2> SUFFICES ASSUME SettingsNext, ~Next PROVE UNCHANGED vars
      BY DEF settingsVars
    <2> QED
      BY DEF SettingsNext, SetPlain, Refuse, GetPlain, settingsVars
  <1> QED
    BY <1>1, <1>2, PTL DEF SettingsSpec, Spec

KeptInv == kept = wanted /\ kept \in [Plain -> UNION {ULong, ReadTimeouts}]

\* The settings an application reads back are those last set with success, for
\* any values (queue.c:208-340, device.c:473-539).
THEOREM SettingsAnswered == SettingsSpec => Answers
  <1>1. SettingsInit => KeptInv
    BY SettingsAssumption DEF SettingsInit, KeptInv, Zero, ReadTimeouts
  <1>2. KeptInv /\ [SettingsNext]_settingsVars => KeptInv'
    <2> SUFFICES ASSUME KeptInv, [SettingsNext]_settingsVars PROVE KeptInv'
      OBVIOUS
    <2>1. ASSUME NEW s \in Plain, NEW v \in Value(s) \cup {None}, SetPlain(s, v)
          PROVE  KeptInv'
      BY <2>1 DEF KeptInv, SetPlain, Valid, Value
    <2>2. CASE UNCHANGED settings
      BY <2>2 DEF KeptInv, settings
    <2>3. ASSUME NEW s \in Plain, GetPlain(s) PROVE KeptInv'
      BY <2>3 DEF KeptInv, GetPlain
    <2> QED
      BY <2>1, <2>2, <2>3 DEF SettingsNext, Refuse, settingsVars
  <1>3. KeptInv /\ [SettingsNext]_settingsVars =>
          [answer' # answer => answer'.value = wanted[answer'.setting]]_settingsVars
    <2> SUFFICES ASSUME KeptInv, SettingsNext, answer' # answer
                 PROVE  answer'.value = wanted[answer'.setting]
      BY DEF settingsVars
    <2>1. PICK s \in Plain : GetPlain(s)
      BY DEF SettingsNext, SetPlain, Refuse, settingsVars, settings
    <2> QED
      BY <2>1 DEF KeptInv, GetPlain, Answered
  <1> QED
    BY <1>1, <1>2, <1>3, PTL DEF SettingsSpec, Answers
=============================================================================
