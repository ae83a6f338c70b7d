--------------------------- MODULE WindowsReader ---------------------------
(***************************************************************************)
(* A reader of the Windows service (win_service.py, windows.py) from the   *)
(* scanner to the proxy: the message window and its thread, which decodes  *)
(* keys as ScanLine says, the bounded queue of _HttpSink and its worker,   *)
(* the start of the reader, which may fail half way, and its stop beside   *)
(* all that. The events of the window's thread are ScanLine's input.       *)
(*                                                                         *)
(* The service has this one reader: windows.py:346-350 and 568-577 do not  *)
(* serve a second one (README). An accepted scan is its number here, its   *)
(* text being ScanLine's matter. The output is HTTP.                       *)
(***************************************************************************)
EXTENDS ScanLine

CONSTANTS
  SinkSize, \* maxsize of the sink's queue
  Sentinel  \* _HttpSink._SENTINEL

ASSUME SinkAssumption == SinkSize \in Nat \ {0} /\ Sentinel \notin Nat /\ None \notin Nat

VARIABLES
  service,   \* SvcDoRun: how far start has come, then waiting, returned, exited
  listed,    \* the reader is in _runners
  raw,       \* the window gets the scanner's events: RegisterRawInputDevices
  asked,     \* SvcStop has set the stop event
  stop,      \* how far SvcStop has come in ReaderRunner.stop
  window,    \* the window's thread
  quit,      \* _MessageWindow._stop, with the WM_QUIT that follows
  emitting,  \* the scan on its way from flush to the queue, or None
  sink,      \* ReaderRunner._http is not None
  queue,     \* _HttpSink._q
  worker,    \* the sink's thread
  item,      \* the scan it posts, or None
  accepted,  \* history: what was put in the queue
  tried      \* history: what was got and done with: posted, given up, the sentinel

runner == <<service, listed, raw, asked, stop>>
http   == <<sink, queue, worker, item, accepted, tried>>
vars   == <<scanVars, runner, window, quit, emitting, http>>

Alive == service # "exited"

\* The mutants of this module: plausible slips in windows.py.
JumpQueue(q) == <<Sentinel>> \o q
WorkerLost == "ended"
TakeNewest(q) == q[Len(q)]

\* Where stop puts the sentinel, the item get takes, the state of the worker after a
\* post that raised, that of the window's thread after a message.
SealedQueue(q) == Append(q, Sentinel)
NextItem(q) == Head(q)
AfterError == "getting"
AfterMessage == IF quit THEN "ended" ELSE "running"

Init ==
  /\ ScanInit
  /\ service = "sink" /\ listed = FALSE /\ raw = FALSE /\ asked = FALSE /\ stop = "none"
  /\ window = "none" /\ quit = FALSE /\ emitting = None
  /\ sink = FALSE /\ queue = <<>> /\ worker = "none" /\ item = None
  /\ accepted = <<>> /\ tried = <<>>

-----------------------------------------------------------------------------
(* SvcDoRun and ReaderRunner.start *)

StartSink ==
  /\ service = "sink"
  /\ sink' = TRUE /\ worker' = "getting" /\ service' = "window"
  /\ UNCHANGED <<scanVars, listed, raw, asked, stop, window, quit, emitting,
                 queue, item, accepted, tried>>

StartWindow ==
  /\ service = "window"
  /\ window' = "running" /\ service' = "register"
  /\ UNCHANGED <<scanVars, listed, raw, asked, stop, quit, emitting, http>>

Register ==
  /\ service = "register"
  /\ raw' = TRUE /\ service' = "hook"
  /\ UNCHANGED <<scanVars, listed, asked, stop, window, quit, emitting, http>>

\* The hook is in place and the service keeps the reader.
StartDone ==
  /\ service = "hook"
  /\ listed' = TRUE /\ service' = "waiting"
  /\ UNCHANGED <<scanVars, raw, asked, stop, window, quit, emitting, http>>

\* No scanner, no window, no registration or no hook: what was started stays, but the
\* service, which has no other reader, ends.
StartFails ==
  /\ service \in {"sink", "window", "register", "hook"}
  /\ service' = "returned"
  /\ UNCHANGED <<scanVars, listed, raw, asked, stop, window, quit, emitting, http>>

SvcDoRunReturns ==
  /\ service = "waiting" /\ asked
  /\ service' = "returned"
  /\ UNCHANGED <<scanVars, listed, raw, asked, stop, window, quit, emitting, http>>

\* A service that has stopped may be ended at any time: its threads and queues, and
\* what there is to say of them, go.
ProcessExits ==
  /\ service = "returned"
  /\ service' = "exited" /\ ScanReset
  /\ listed' = FALSE /\ raw' = FALSE /\ asked' = FALSE /\ stop' = "none"
  /\ window' = "none" /\ quit' = FALSE /\ emitting' = None
  /\ sink' = FALSE /\ queue' = <<>> /\ worker' = "none" /\ item' = None
  /\ accepted' = <<>> /\ tried' = <<>>

-----------------------------------------------------------------------------
(* SvcStop and ReaderRunner.stop, on a thread of its own *)

\* The stop event comes first.
SvcStop ==
  /\ Alive /\ ~asked
  /\ asked' = TRUE
  /\ UNCHANGED <<scanVars, service, listed, raw, stop, window, quit, emitting, http>>

\* A reader that is still starting is not in the list.
StopRunner ==
  /\ Alive /\ asked /\ stop = "none"
  /\ stop' = IF listed THEN "join window" ELSE "done"
  /\ quit' = listed
  /\ UNCHANGED <<scanVars, service, listed, raw, asked, window, emitting, http>>

\* The window's thread has ended, or two seconds have passed.
WindowJoined ==
  /\ Alive /\ stop = "join window"
  /\ stop' = "seal"
  /\ UNCHANGED <<scanVars, service, listed, raw, asked, window, quit, emitting, http>>

\* put waits for room.
Seal ==
  /\ Alive /\ stop = "seal" /\ Len(queue) < SinkSize
  /\ queue' = SealedQueue(queue) /\ accepted' = Append(accepted, Sentinel)
  /\ stop' = "join worker"
  /\ UNCHANGED <<scanVars, service, listed, raw, asked, window, quit, emitting,
                 sink, worker, item, tried>>

\* The worker has ended, or two seconds have passed.
WorkerJoined ==
  /\ Alive /\ stop = "join worker"
  /\ sink' = FALSE /\ stop' = "done"
  /\ UNCHANGED <<scanVars, service, listed, raw, asked, window, quit, emitting,
                 queue, worker, item, accepted, tried>>

-----------------------------------------------------------------------------
(* The scanner, and the window's thread *)

Scanner ==
  /\ Alive /\ raw /\ window = "running"
  /\ StartScan \/ TypeKey
  /\ UNCHANGED <<runner, window, quit, emitting, http>>

\* The thread is in GetMessage: it has seen that _stop was not set.
WmInput ==
  /\ Alive /\ window = "running" /\ emitting = None
  /\ Taken /\ Key(Head(input))
  /\ window' = AfterMessage
  /\ UNCHANGED <<runner, quit, emitting, http>>

WmInputFlush ==
  /\ Alive /\ window = "running" /\ emitting = None
  /\ Taken /\ Flush(Head(input))
  /\ IF sink /\ Line(line) # None
       THEN emitting' = Head(input).scan /\ UNCHANGED window
       ELSE window' = AfterMessage /\ UNCHANGED emitting
  /\ UNCHANGED <<runner, quit, http>>

\* put_nowait; a full queue drops the scan.
Submit ==
  /\ Alive /\ emitting # None
  /\ IF Len(queue) < SinkSize
       THEN queue' = Append(queue, emitting) /\ accepted' = Append(accepted, emitting)
       ELSE UNCHANGED <<queue, accepted>>
  /\ emitting' = None /\ window' = AfterMessage
  /\ UNCHANGED <<scanVars, runner, quit, sink, worker, item, tried>>

\* stop has cleared _http since it was tested: an AttributeError, which ctypes reports.
SubmitFails ==
  /\ Alive /\ emitting # None /\ ~sink
  /\ emitting' = None /\ window' = AfterMessage
  /\ UNCHANGED <<scanVars, runner, quit, http>>

\* WM_QUIT comes before what input there is.
WmQuit ==
  /\ Alive /\ window = "running" /\ emitting = None /\ quit
  /\ window' = "ended"
  /\ UNCHANGED <<scanVars, runner, quit, emitting, http>>

-----------------------------------------------------------------------------
(* The worker of the sink *)

Get ==
  /\ Alive /\ worker = "getting" /\ queue # <<>>
  /\ IF NextItem(queue) = Sentinel
       THEN worker' = "ended" /\ tried' = Append(tried, Sentinel) /\ UNCHANGED item
       ELSE worker' = "posting" /\ item' = NextItem(queue) /\ UNCHANGED tried
  /\ queue' = Tail(queue)
  /\ UNCHANGED <<scanVars, runner, window, quit, emitting, sink, accepted>>

\* The proxy answers, whatever it answers, or the request fails within timeout_s.
Post ==
  /\ Alive /\ worker = "posting"
  /\ worker' \in {"getting", AfterError}
  /\ tried' = Append(tried, item) /\ item' = None
  /\ UNCHANGED <<scanVars, runner, window, quit, emitting, sink, queue, accepted>>

-----------------------------------------------------------------------------
Service == \/ StartSink \/ StartWindow \/ Register \/ StartDone \/ StartFails
           \/ SvcDoRunReturns \/ ProcessExits
Stopping == StopRunner \/ WindowJoined \/ Seal \/ WorkerJoined
WindowThread == WmInput \/ WmInputFlush \/ Submit \/ SubmitFails \/ WmQuit
Worker == Get \/ Post

Next == Service \/ SvcStop \/ Stopping \/ Scanner \/ WindowThread \/ Worker

Spec == Init /\ [][Next]_vars

\* Threads that can run do; the scanner and the service manager need not.
FairSpec == Spec /\ WF_vars(Stopping) /\ WF_vars(WindowThread) /\ WF_vars(Worker)

-----------------------------------------------------------------------------
\* What the worker has in hand.
InHand == IF item = None THEN <<>> ELSE <<item>>

\* Every scan the queue took is posted, or given up by its post, once and in the
\* order of the scans, or is still on its way, whatever else the threads do
\* (windows.py:458-477).
InOrder ==
  /\ \A i, j \in DOMAIN accepted :
       i < j /\ Sentinel \notin {accepted[i], accepted[j]} => accepted[i] < accepted[j]
  /\ tried \o InHand \o queue = accepted

\* A worker that has ended has done with everything that was put before the sentinel,
\* and leaves behind at most one scan, which the time limits of stop let in after it.
Drained ==
  worker = "ended" => /\ tried # <<>> /\ Last(tried) = Sentinel
                      /\ Len(accepted) <= Len(tried) + 1

\* A stop that has begun ends, and the worker with it, though it waits for room in the
\* queue the scans go to; the process may end first (win_service.py:68).
StopEnds ==
  stop = "join window" ~> (stop = "done" /\ worker = "ended") \/ ~Alive

\* Until a stop, every accepted scan is tried in the end: no answer or failure of the
\* proxy ends the worker (windows.py:474).
Handled == accepted # tried ~> accepted = tried \/ stop # "none" \/ ~Alive
=============================================================================
