------------------------ MODULE WindowsReaderProofs ------------------------
(***************************************************************************)
(* Each accepted scan goes through the sink of a Windows reader once and   *)
(* in order, a stop leaves at most one behind, and each terminator finds   *)
(* its own scan unless events were lost, for every size of the queue and   *)
(* of the event buffer and whatever is scanned.                            *)
(***************************************************************************)
EXTENDS WindowsReader, ScanLineProofs

Items == Nat \cup {Sentinel}

-----------------------------------------------------------------------------
(* Sequences that pass items on *)

LEMMA PassAppend ==
  ASSUME NEW S, NEW s \in Seq(S), NEW t \in Seq(S), NEW q \in Seq(S), NEW e \in S
  PROVE  (s \o t) \o Append(q, e) = Append((s \o t) \o q, e)
  <1>1. /\ (s \o t) \in Seq(S) /\ <<e>> \in Seq(S) /\ ((s \o t) \o q) \in Seq(S)
    BY ConcatProperties
  <1>2. Append(q, e) = q \o <<e>> /\ Append((s \o t) \o q, e) = ((s \o t) \o q) \o <<e>>
    BY <1>1, AppendIsConcat
  <1> QED
    BY <1>1, <1>2, ConcatAssociative

LEMMA PassHead ==
  ASSUME NEW S, NEW s \in Seq(S), NEW q \in Seq(S), q # <<>>
  PROVE  /\ (s \o <<>>) \o q = (s \o <<Head(q)>>) \o Tail(q)
         /\ (s \o <<>>) \o q = (Append(s, Head(q)) \o <<>>) \o Tail(q)
  <1>1. Head(q) \in S /\ Tail(q) \in Seq(S) /\ <<Head(q)>> \in Seq(S)
    BY HeadTailProperties
  <1>2. q = <<Head(q)>> \o Tail(q)
    BY HeadTailAppend
  <1>3. s \o <<>> = s
    BY ConcatEmptySeq
  <1>4. s \o (<<Head(q)>> \o Tail(q)) = (s \o <<Head(q)>>) \o Tail(q)
    BY <1>1, ConcatAssociative
  <1>5. Append(s, Head(q)) = s \o <<Head(q)>>
    BY <1>1, AppendIsConcat
  <1>6. Append(s, Head(q)) \o <<>> = Append(s, Head(q))
    BY <1>1, AppendProperties, ConcatEmptySeq
  <1> QED
    BY <1>2, <1>3, <1>4, <1>5, <1>6

LEMMA PassItem ==
  ASSUME NEW S, NEW s \in Seq(S), NEW q \in Seq(S), NEW e \in S
  PROVE  (Append(s, e) \o <<>>) \o q = (s \o <<e>>) \o q
  <1>1. Append(s, e) \in Seq(S) /\ Append(s, e) = s \o <<e>>
    BY AppendProperties, AppendIsConcat
  <1> QED
    BY <1>1, ConcatEmptySeq

-----------------------------------------------------------------------------
(* The inductive invariant *)

SinkTypes == /\ queue \in Seq(Items) /\ accepted \in Seq(Items) /\ tried \in Seq(Items)
             /\ emitting \in Nat \cup {None}
             /\ IF worker = "posting" THEN item \in Nat ELSE item = None

\* What the queue took has been read, and before what is on its way to it.
Emission ==
  /\ emitting # None => Behind(emitting)
  /\ \A k \in 1..Len(accepted) :
       accepted[k] # Sentinel => /\ Behind(accepted[k])
                                 /\ emitting # None => accepted[k] < emitting

\* Once the sentinel is in, the window's thread can hand over one more scan.
Sealing ==
  \A k \in 1..Len(accepted) :
    accepted[k] = Sentinel => /\ quit /\ stop \in {"join worker", "done"}
                              /\ Len(accepted) <= k + 1
                              /\ Len(accepted) = k + 1 => window = "ended"

Ending ==
  /\ stop \in {"join window", "seal", "join worker"} => quit
  /\ emitting # None => window = "running"
  /\ service \in {"sink", "window"} => window = "none"
  /\ service = "sink" => worker = "none"
  /\ worker = "ended" => tried # <<>> /\ tried[Len(tried)] = Sentinel

IInv == ScanTypes /\ ScansApart /\ SinkTypes /\ Emission /\ InOrder /\ Sealing /\ Ending

LEMMA EmissionKept ==
  ASSUME SinkTypes, Emission, \A n \in Nat : Behind(n) => Behind(n)',
         accepted' = accepted, emitting' \in {emitting, None}
  PROVE  Emission'
  <1>1. \A k \in 1..Len(accepted) : accepted[k] # Sentinel => accepted[k] \in Nat
    <2> TAKE k \in 1..Len(accepted)
    <2>1. accepted[k] \in Items
      BY DEF SinkTypes
    <2> QED
      BY <2>1 DEF Items
  <1>2. ASSUME NEW k \in 1..Len(accepted), accepted[k] # Sentinel
        PROVE  accepted[k] < Present' /\ \A i \in 1..Len(input') : accepted[k] < input'[i].scan
    <2>1. accepted[k] \in Nat /\ Behind(accepted[k])
      BY <1>1, <1>2 DEF Emission
    <2> QED
      BY <2>1 DEF Behind
  <1>3. ASSUME emitting' # None
        PROVE  /\ emitting' < Present' /\ \A i \in 1..Len(input') : emitting' < input'[i].scan
               /\ emitting' = emitting
    <2>1. emitting' = emitting /\ emitting \in Nat /\ Behind(emitting)
      BY <1>3 DEF SinkTypes, Emission
    <2> QED
      BY <2>1 DEF Behind
  <1> QED
    BY <1>2, <1>3 DEF Emission, Behind

LEMMA Initial == Init => IInv
  <1> SUFFICES ASSUME Init PROVE IInv
    OBVIOUS
  <1>1. ScanTypes /\ ScansApart
    BY DEF Init, ScanInit, ScanTypes, ScansApart
  <1>2. SinkTypes /\ Emission /\ Sealing /\ Ending
    BY SinkAssumption DEF Init, SinkTypes, Emission, Sealing, Ending
  <1>3. InOrder
    BY DEF Init, InOrder, InHand
  <1> QED
    BY <1>1, <1>2, <1>3 DEF IInv

LEMMA Exit == ProcessExits => IInv'
  <1> SUFFICES ASSUME ProcessExits PROVE IInv'
    OBVIOUS
  <1>1. (ScanTypes /\ ScansApart)'
    BY DEF ProcessExits, ScanReset, ScanTypes, ScansApart
  <1>2. (SinkTypes /\ Emission /\ Sealing /\ Ending)'
    BY SinkAssumption DEF ProcessExits, SinkTypes, Emission, Sealing, Ending
  <1>3. InOrder'
    BY DEF ProcessExits, InOrder, InHand
  <1> QED
    BY <1>1, <1>2, <1>3 DEF IInv

\* Steps that leave the sink alone.
LEMMA SinkKept ==
  ASSUME SinkTypes, InOrder, UNCHANGED <<queue, accepted, tried, item>>,
         worker' = worker \/ (worker # "posting" /\ worker' = "getting"),
         emitting' \in Nat \cup {None}
  PROVE  SinkTypes' /\ InOrder'
  BY DEF SinkTypes, InOrder, InHand

-----------------------------------------------------------------------------
(* The steps *)

LEMMA RunnerSteps ==
  ASSUME IInv, \/ StartSink \/ StartWindow \/ Register \/ StartDone \/ StartFails
               \/ SvcDoRunReturns \/ SvcStop \/ StopRunner \/ WindowJoined \/ WorkerJoined
               \/ WmQuit \/ UNCHANGED vars
  PROVE  IInv'
  <1> USE DEF StartSink, StartWindow, Register, StartDone, StartFails, SvcDoRunReturns,
              SvcStop, StopRunner, WindowJoined, WorkerJoined, WmQuit, vars, http, runner
  <1>1. UNCHANGED <<scanVars, emitting, queue, accepted, tried, item>>
    OBVIOUS
  <1>2. worker' = worker \/ (worker # "posting" /\ worker' = "getting")
    BY DEF IInv, Ending
  <1>3. (ScanTypes /\ ScansApart)' /\ \A n \in Nat : Behind(n) => Behind(n)'
    BY <1>1, ScanStep DEF IInv
  <1>4. Emission'
    BY <1>1, <1>3, EmissionKept DEF IInv
  <1>5. (SinkTypes /\ InOrder)'
    BY <1>1, <1>2, SinkKept DEF IInv, SinkTypes
  <1>6. Sealing'
    BY DEF IInv, Sealing, Ending
  <1>7. ASSUME StopRunner
        PROVE  (stop \in {"join window", "seal", "join worker"} => quit)'
    <2>1. stop' = "join window" => quit'
      <3>1. CASE listed
        <4>1. quit' = listed
          BY <1>7
        <4> QED
          BY <3>1, <4>1, Zenon
      <3>2. CASE ~listed
        <4>1. stop' = "done"
          BY <1>7, <3>2
        <4> QED
          BY <4>1
      <3> QED
        BY <3>1, <3>2
    <2>2. /\ stop' \in {"join window", "done"}
          /\ UNCHANGED <<service, window, emitting, worker, tried>>
      BY <1>7
    <2> QED
      BY <2>1, <2>2
  <1>8. ASSUME ~StopRunner
        PROVE  (stop \in {"join window", "seal", "join worker"} => quit)'
    BY <1>8 DEF IInv, Ending
  <1>9. (/\ emitting # None => window = "running"
         /\ service \in {"sink", "window"} => window = "none"
         /\ service = "sink" => worker = "none"
         /\ worker = "ended" => tried # <<>> /\ tried[Len(tried)] = Sentinel)'
    BY DEF IInv, Ending
  <1>10. Ending'
    BY <1>7, <1>8, <1>9 DEF Ending
  <1> QED
    BY <1>3, <1>4, <1>5, <1>6, <1>10 DEF IInv

LEMMA InputSteps ==
  ASSUME IInv, Scanner \/ WmInput \/ WmInputFlush
  PROVE  IInv'
  <1>1. /\ UNCHANGED <<runner, quit, http>> /\ window = "running"
        /\ window' = "running" \/ (window' = AfterMessage /\ emitting' = None)
        /\ StartScan \/ TypeKey \/ Taken
    BY DEF Scanner, WmInput, WmInputFlush
  <1>2. (ScanTypes /\ ScansApart)' /\ \A n \in Nat : Behind(n) => Behind(n)'
    BY <1>1, ScanStep DEF IInv
  <1>3. Emission' /\ emitting' \in Nat \cup {None}
    <2>1. CASE emitting' = emitting
      BY <1>1, <1>2, <2>1, EmissionKept DEF IInv, http, SinkTypes
    <2>2. CASE WmInputFlush /\ emitting' = Head(input).scan
      <3>1. /\ Taken /\ Enters(Head(input))
        BY <2>2 DEF WmInputFlush, Flush, Enters
      <3>2. PICK n \in Nat : n = Head(input).scan
        BY <3>1, TakenApart DEF IInv, Events
      <3>3. Behind(n)' /\ \A m \in Nat : Behind(m) => m < n /\ Behind(m)'
        BY <3>1, <3>2, TakenApart DEF IInv
      <3>4. \A k \in 1..Len(accepted) : accepted[k] # Sentinel => accepted[k] \in Nat
        <4> TAKE k \in 1..Len(accepted)
        <4>1. accepted[k] \in Items
          BY DEF IInv, SinkTypes
        <4> QED
          BY <4>1 DEF Items
      <3>5. ASSUME NEW k \in 1..Len(accepted), accepted[k] # Sentinel
            PROVE  /\ accepted[k] < Present' /\ \A i \in 1..Len(input') : accepted[k] < input'[i].scan
                   /\ accepted[k] < n
        <4>1. accepted[k] \in Nat /\ Behind(accepted[k])
          BY <3>4, <3>5 DEF IInv, Emission
        <4> QED
          BY <3>3, <4>1 DEF Behind
      <3>6. accepted' = accepted /\ emitting' = n
        BY <1>1, <2>2, <3>2 DEF http
      <3> QED
        BY <3>3, <3>5, <3>6 DEF Emission, Behind
    <2> QED
      BY <2>1, <2>2 DEF Scanner, WmInput, WmInputFlush
  <1>4. (SinkTypes /\ InOrder)'
    BY <1>1, <1>3, SinkKept DEF IInv, http
  <1>5. Sealing'
    BY <1>1 DEF IInv, Sealing, http, runner
  <1>6. Ending'
    BY <1>1 DEF IInv, Ending, http, runner, AfterMessage
  <1> QED
    BY <1>2, <1>3, <1>4, <1>5, <1>6 DEF IInv

\* A step of the sink leaves the scanner's side and the stop alone.
LEMMA ScanKept ==
  ASSUME IInv, UNCHANGED scanVars
  PROVE  (ScanTypes /\ ScansApart)' /\ \A n \in Nat : Behind(n) => Behind(n)'
  BY ScanStep DEF IInv

\* InHand as a sequence of items.
LEMMA InHandSeq == ASSUME SinkTypes PROVE InHand \in Seq(Items)
  <1>1. CASE item = None
    BY <1>1 DEF InHand
  <1>2. CASE item # None
    <2>1. item \in Items
      BY <1>2 DEF SinkTypes, Items
    <2> QED
      BY <1>2, <2>1 DEF InHand
  <1> QED
    BY <1>1, <1>2

LEMMA SealStep == ASSUME IInv, Seal PROVE IInv'
  <1>1. /\ queue' = Append(queue, Sentinel) /\ accepted' = Append(accepted, Sentinel)
        /\ stop = "seal" /\ stop' = "join worker"
        /\ UNCHANGED <<scanVars, service, window, quit, emitting, worker, item, tried>>
    BY DEF Seal, SealedQueue
  <1>2. /\ queue \in Seq(Items) /\ accepted \in Seq(Items) /\ tried \in Seq(Items)
        /\ Sentinel \in Items /\ InHand \in Seq(Items)
    BY InHandSeq DEF IInv, SinkTypes, Items
  <1>11. queue' \in Seq(Items) /\ accepted' \in Seq(Items)
    <2>1. queue' = Append(queue, Sentinel) /\ accepted' = Append(accepted, Sentinel)
      BY <1>1
    <2> QED
      BY <1>2, <2>1, AppendProperties
  <1>3. (ScanTypes /\ ScansApart)' /\ \A n \in Nat : Behind(n) => Behind(n)'
    BY <1>1, ScanKept
  <1>4. SinkTypes'
    BY <1>1, <1>2, <1>11 DEF IInv, SinkTypes
  <1>5. /\ Len(accepted') = Len(accepted) + 1 /\ accepted'[Len(accepted) + 1] = Sentinel
        /\ Len(accepted) \in Nat
        /\ \A k \in 1..Len(accepted) : accepted'[k] = accepted[k]
        /\ DOMAIN accepted = 1..Len(accepted) /\ DOMAIN accepted' = 1..(Len(accepted) + 1)
    <2>1. accepted' = Append(accepted, Sentinel)
      BY <1>1
    <2> QED
      BY <1>2, <2>1
  <1>6. \A k \in 1..Len(accepted) : accepted[k] # Sentinel
    BY <1>1 DEF IInv, Sealing
  <1>7. Emission'
    <2>1. UNCHANGED <<Present, input, emitting>>
      BY <1>1 DEF scanVars, scanner, Present
    <2> QED
      BY <1>5, <2>1 DEF IInv, Emission, Behind
  <1>8. InOrder'
    <2>1. InHand' = InHand
      BY <1>1 DEF InHand
    <2>2. (tried \o InHand) \o Append(queue, Sentinel) = Append(accepted, Sentinel)
      BY <1>2, PassAppend DEF IInv, InOrder
    <2>3. tried' = tried /\ queue' = Append(queue, Sentinel) /\ accepted' = Append(accepted, Sentinel)
      BY <1>1
    <2>4. \A i, j \in DOMAIN accepted' :
            i < j /\ Sentinel \notin {accepted'[i], accepted'[j]} => accepted'[i] < accepted'[j]
      BY <1>5 DEF IInv, InOrder
    <2> QED
      BY <2>1, <2>2, <2>3, <2>4 DEF InOrder
  <1>9. Sealing'
    <2>1. stop' = "join worker" /\ quit /\ quit' = quit
      BY <1>1 DEF IInv, Ending
    <2>2. quit'
      BY <2>1, Zenon
    <2>3. ASSUME NEW k \in 1..Len(accepted'), accepted'[k] = Sentinel
          PROVE  Len(accepted') <= k + 1 /\ Len(accepted') # k + 1
      BY <1>5, <1>6, <2>3
    <2> QED
      BY <2>1, <2>2, <2>3 DEF Sealing
  <1>10. Ending'
    BY <1>1 DEF IInv, Ending
  <1> QED
    BY <1>3, <1>4, <1>7, <1>8, <1>9, <1>10 DEF IInv

LEMMA SubmitStep == ASSUME IInv, Submit \/ SubmitFails PROVE IInv'
  <1>1. /\ emitting \in Nat /\ emitting # None /\ emitting' = None /\ window = "running"
        /\ window' = AfterMessage
        /\ UNCHANGED <<scanVars, service, stop, quit, worker, item, tried>>
    BY DEF Submit, SubmitFails, runner, http, IInv, SinkTypes, Ending
  <1>2. /\ queue \in Seq(Items) /\ accepted \in Seq(Items) /\ tried \in Seq(Items)
        /\ emitting \in Items /\ InHand \in Seq(Items) /\ emitting # Sentinel
    BY <1>1, InHandSeq, SinkAssumption DEF IInv, SinkTypes, Items
  <1>3. (ScanTypes /\ ScansApart)' /\ \A n \in Nat : Behind(n) => Behind(n)'
    BY <1>1, ScanKept
  <1>4. Ending'
    <2>1. (stop \in {"join window", "seal", "join worker"} => quit)'
      BY <1>1 DEF IInv, Ending
    <2> QED
      BY <1>1, <2>1 DEF IInv, Ending
  <1>5. CASE UNCHANGED <<queue, accepted>>
    <2>1. Emission'
      BY <1>1, <1>3, <1>5, EmissionKept DEF IInv
    <2>2. (SinkTypes /\ InOrder)'
      BY <1>1, <1>5, SinkKept DEF IInv
    <2>3. Sealing'
      BY <1>1, <1>5 DEF IInv, Sealing
    <2> QED
      BY <1>3, <1>4, <2>1, <2>2, <2>3 DEF IInv
  <1>6. CASE queue' = Append(queue, emitting) /\ accepted' = Append(accepted, emitting)
    <2>1. SinkTypes'
      BY <1>1, <1>2, <1>6 DEF IInv, SinkTypes
    <2>2. /\ Len(accepted') = Len(accepted) + 1 /\ accepted'[Len(accepted) + 1] = emitting
          /\ Len(accepted) \in Nat
          /\ \A k \in 1..Len(accepted) : accepted'[k] = accepted[k]
          /\ DOMAIN accepted = 1..Len(accepted) /\ DOMAIN accepted' = 1..(Len(accepted) + 1)
      BY <1>2, <1>6
    <2>3. \A k \in 1..Len(accepted) :
            accepted[k] # Sentinel => Behind(accepted[k]) /\ accepted[k] < emitting
      BY <1>1 DEF IInv, Emission
    <2>4. Emission'
      <3>1. UNCHANGED Present /\ input' = input
        BY <1>1 DEF scanVars, scanner, Present
      <3>2. \A k \in 1..Len(accepted') : accepted'[k] # Sentinel => Behind(accepted'[k])
        BY <1>1, <2>2, <2>3 DEF IInv, Emission
      <3> QED
        BY <1>1, <3>1, <3>2 DEF Emission, Behind
    <2>5. InOrder'
      <3>1. InHand' = InHand
        BY <1>1 DEF InHand
      <3>2. (tried \o InHand) \o Append(queue, emitting) = Append(accepted, emitting)
        BY <1>2, PassAppend DEF IInv, InOrder
      <3>3. ASSUME NEW i \in DOMAIN accepted', NEW j \in DOMAIN accepted', i < j,
                   Sentinel \notin {accepted'[i], accepted'[j]}
            PROVE  accepted'[i] < accepted'[j]
        <4>1. i \in DOMAIN accepted /\ accepted'[i] = accepted[i]
          BY <2>2, <3>3
        <4>2. CASE j \in DOMAIN accepted
          BY <2>2, <3>3, <4>1, <4>2 DEF IInv, InOrder
        <4>3. CASE j = Len(accepted) + 1
          BY <2>2, <2>3, <3>3, <4>1, <4>3
        <4> QED
          BY <2>2, <4>2, <4>3
      <3> QED
        BY <1>1, <1>6, <3>1, <3>2, <3>3 DEF InOrder
    <2>6. Sealing'
      <3> SUFFICES ASSUME NEW k \in 1..Len(accepted'), accepted'[k] = Sentinel
                   PROVE  /\ quit' /\ stop' \in {"join worker", "done"}
                          /\ Len(accepted') <= k + 1
                          /\ Len(accepted') = k + 1 => window' = "ended"
        BY DEF Sealing
      <3>1. k \in 1..Len(accepted) /\ accepted[k] = Sentinel
        BY <1>2, <2>2
      <3>2. /\ quit /\ stop \in {"join worker", "done"}
            /\ Len(accepted) <= k + 1 /\ Len(accepted) # k + 1
        BY <1>1, <3>1 DEF IInv, Sealing
      <3>3. window' = "ended"
        BY <1>1, <3>2 DEF AfterMessage
      <3>4. quit' /\ stop' \in {"join worker", "done"}
        BY <1>1, <3>2
      <3>5. Len(accepted') <= k + 1
        <4>1. Len(accepted) <= k + 1 /\ Len(accepted) # k + 1
          BY <3>2
        <4>2. k \in Nat /\ Len(accepted) \in Nat /\ Len(accepted') = Len(accepted) + 1
          BY <2>2, <3>1
        <4> QED
          BY <4>1, <4>2
      <3> QED
        BY <3>3, <3>4, <3>5, Zenon
    <2> QED
      BY <1>3, <1>4, <2>1, <2>4, <2>5, <2>6 DEF IInv
  <1> QED
    BY <1>5, <1>6 DEF Submit, SubmitFails, http

LEMMA WorkerSteps == ASSUME IInv, Get \/ Post PROVE IInv'
  <1>1. UNCHANGED <<scanVars, service, stop, window, quit, emitting, accepted>>
    BY DEF Get, Post, runner
  <1>2. /\ queue \in Seq(Items) /\ tried \in Seq(Items) /\ accepted \in Seq(Items)
        /\ tried \o InHand \o queue = accepted /\ item \in Nat \cup {None}
    BY DEF IInv, SinkTypes, InOrder
  <1>3. (ScanTypes /\ ScansApart)' /\ \A n \in Nat : Behind(n) => Behind(n)'
    BY <1>1, ScanKept
  <1>4. Emission'
    BY <1>1, <1>3, EmissionKept DEF IInv
  <1>5. Sealing'
    BY <1>1 DEF IInv, Sealing
  <1>6. (/\ SinkTypes /\ tried \o InHand \o queue = accepted
         /\ worker = "ended" => tried # <<>> /\ tried[Len(tried)] = Sentinel)'
    <2>1. CASE Get
      <3>1. /\ queue # <<>> /\ worker = "getting" /\ item = None /\ InHand = <<>>
            /\ queue' = Tail(queue) /\ Head(queue) \in Items /\ queue' \in Seq(Items)
        BY <1>2, <2>1 DEF Get, IInv, SinkTypes, InHand
      <3>2. CASE Head(queue) = Sentinel
        <4>1. /\ worker' = "ended" /\ tried' = Append(tried, Sentinel) /\ item' = item
              /\ InHand' = <<>>
          BY <2>1, <3>1, <3>2 DEF Get, NextItem, InHand
        <4>2. tried' \in Seq(Items) /\ tried' # <<>> /\ tried'[Len(tried')] = Sentinel
          <5>1. /\ tried \in Seq(Items) /\ Sentinel \in Items
                /\ tried' = Append(tried, Sentinel)
            BY <1>2, <4>1 DEF Items
          <5> QED
            BY <5>1, AppendProperties
        <4>3. tried' \o InHand' \o queue' = accepted'
          BY <1>1, <1>2, <3>1, <3>2, <4>1, PassHead
        <4> QED
          BY <1>1, <3>1, <4>1, <4>2, <4>3 DEF IInv, SinkTypes
      <3>3. CASE Head(queue) # Sentinel
        <4>1. /\ worker' = "posting" /\ item' = Head(queue) /\ tried' = tried
              /\ item' \in Nat
          BY <2>1, <3>1, <3>3 DEF Get, NextItem, Items
        <4>2. InHand' = <<Head(queue)>>
          BY <4>1, SinkAssumption DEF InHand
        <4>3. tried' \o InHand' \o queue' = accepted'
          BY <1>1, <1>2, <3>1, <4>1, <4>2, PassHead
        <4> QED
          BY <1>1, <1>2, <3>1, <4>1, <4>3 DEF IInv, SinkTypes
      <3> QED
        BY <3>2, <3>3
    <2>2. CASE Post
      <3>1. /\ worker' = "getting" /\ tried' = Append(tried, item) /\ item' = None
            /\ queue' = queue /\ item \in Nat /\ item \in Items
        BY <2>2 DEF Post, AfterError, IInv, SinkTypes, Items
      <3>2. InHand = <<item>> /\ InHand' = <<>>
        BY <3>1, SinkAssumption DEF InHand
      <3>3. tried' \in Seq(Items) /\ tried' \o InHand' \o queue' = accepted'
        BY <1>1, <1>2, <3>1, <3>2, PassItem, AppendProperties
      <3> QED
        BY <1>1, <1>2, <3>1, <3>3 DEF IInv, SinkTypes
    <2> QED
      BY <2>1, <2>2
  <1>7. InOrder'
    BY <1>1, <1>6 DEF IInv, InOrder
  <1>8. (stop \in {"join window", "seal", "join worker"} => quit)'
    BY <1>1 DEF IInv, Ending
  <1>9. (/\ emitting # None => window = "running"
         /\ service \in {"sink", "window"} => window = "none"
         /\ service = "sink" => worker = "none")'
    BY <1>1 DEF Get, Post, IInv, Ending
  <1> QED
    BY <1>3, <1>4, <1>5, <1>6, <1>7, <1>8, <1>9 DEF IInv, Ending

LEMMA Inductive == IInv /\ [Next]_vars => IInv'
  <1> SUFFICES ASSUME IInv, [Next]_vars PROVE IInv'
    OBVIOUS
  <1>1. CASE \/ StartSink \/ StartWindow \/ Register \/ StartDone \/ StartFails
             \/ SvcDoRunReturns \/ SvcStop \/ StopRunner \/ WindowJoined \/ WorkerJoined
             \/ WmQuit \/ UNCHANGED vars
    BY <1>1, RunnerSteps
  <1>2. CASE Scanner \/ WmInput \/ WmInputFlush
    BY <1>2, InputSteps
  <1>3. CASE Seal
    BY <1>3, SealStep
  <1>4. CASE Submit \/ SubmitFails
    BY <1>4, SubmitStep
  <1>5. CASE Get \/ Post
    BY <1>5, WorkerSteps
  <1>6. CASE ProcessExits
    BY <1>6, Exit
  <1> QED
    BY <1>1, <1>2, <1>3, <1>4, <1>5, <1>6
       DEF Next, Service, Stopping, WindowThread, Worker

-----------------------------------------------------------------------------
\* Every scan the queue took is done with once and in the order of the scans, or is
\* still on its way, however starting, stopping, reading and posting interleave
\* (windows.py:439-497).
THEOREM ReaderInOrder == Spec => []InOrder
  <1>1. IInv => InOrder
    BY DEF IInv
  <1> QED
    BY <1>1, Initial, Inductive, PTL DEF Spec

\* A worker that has ended has done with all that was put before the sentinel, and the
\* time limits of stop leave at most one scan behind (windows.py:454-456, 593-608).
THEOREM ReaderDrained == Spec => []Drained
  <1>1. IInv => Drained
    <2> SUFFICES ASSUME IInv, worker = "ended"
                 PROVE  /\ tried # <<>> /\ Last(tried) = Sentinel
                        /\ Len(accepted) <= Len(tried) + 1
      BY DEF Drained
    <2>1. tried # <<>> /\ tried[Len(tried)] = Sentinel
      BY DEF IInv, Ending
    <2>2. /\ tried \in Seq(Items) /\ queue \in Seq(Items) /\ InHand = <<>>
          /\ tried \o InHand \o queue = accepted
      BY DEF IInv, SinkTypes, InHand, InOrder
    <2>3. tried \o queue = accepted
      BY <2>2, ConcatEmptySeq
    <2>4. Len(tried) \in 1..Len(accepted) /\ accepted[Len(tried)] = tried[Len(tried)]
      <3>1. Len(accepted) = Len(tried) + Len(queue) /\ Len(tried) \in Nat \ {0} /\ Len(queue) \in Nat
        BY <2>1, <2>2, <2>3, ConcatProperties, EmptySeq
      <3>2. \A i \in 1..Len(tried) : (tried \o queue)[i] = tried[i]
        BY <2>2
      <3> QED
        BY <2>3, <3>1, <3>2
    <2>5. Len(accepted) <= Len(tried) + 1
      BY <2>1, <2>4 DEF IInv, Sealing
    <2> QED
      BY <2>1, <2>5 DEF Last
  <1> QED
    BY <1>1, Initial, Inductive, PTL DEF Spec

-----------------------------------------------------------------------------
(* What the terminators find *)

LEMMA DecodingInductive == Decoding /\ [Next]_vars => Decoding'
  <1> SUFFICES ASSUME Decoding, [Next]_vars PROVE Decoding'
    OBVIOUS
  <1>1. CASE ProcessExits
    BY <1>1, DecodingReset DEF ProcessExits
  <1>2. CASE Scanner
    BY <1>2, DecodingStep DEF Scanner
  <1>3. CASE WmInput \/ WmInputFlush
    BY <1>3, DecodingStep DEF WmInput, WmInputFlush, TakesKey
  <1>4. CASE \/ StartSink \/ StartWindow \/ Register \/ StartDone \/ StartFails
             \/ SvcDoRunReturns \/ SvcStop \/ StopRunner \/ WindowJoined \/ WorkerJoined
             \/ Seal \/ Submit \/ SubmitFails \/ WmQuit \/ Get \/ Post \/ UNCHANGED vars
    <2>1. UNCHANGED scanVars
      BY <1>4 DEF StartSink, StartWindow, Register, StartDone, StartFails, SvcDoRunReturns,
                  SvcStop, StopRunner, WindowJoined, WorkerJoined, Seal, Submit, SubmitFails,
                  WmQuit, Get, Post, vars
    <2> QED
      BY <2>1, DecodingStep
  <1> QED
    BY <1>1, <1>2, <1>3, <1>4
       DEF Next, Service, Stopping, WindowThread, Worker

\* While no event was lost and no shift key was moved beside the other, each terminator
\* finds its own scan in the line buffer, whole and in the right case, however far the
\* reader is behind the scanner (windows.py:636-672, core.py:125-146).
THEOREM ReaderFaithful == Spec => []Faithful
  <1>1. Init => Decoding
    BY DecodingInit DEF Init
  <1>2. Decoding => Faithful
    BY DEF Decoding, FaithInv, Faithful
  <1> QED
    BY <1>1, <1>2, DecodingInductive, PTL DEF Spec

\* Whichever events a full buffer loses, and however often, only the scans they belong
\* to and the next of each get wrong keys: the buffer is cleared at every terminator
\* (core.py:135-136, windows.py:657-663).
THEOREM ReaderConfined == Spec => []Confined
  <1>1. Init => Decoding
    BY DecodingInit DEF Init
  <1>2. Decoding => Confined
    BY DEF Decoding, LossInv
  <1> QED
    BY <1>1, <1>2, DecodingInductive, PTL DEF Spec
=============================================================================
