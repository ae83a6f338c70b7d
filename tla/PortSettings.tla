---------------------------- MODULE PortSettings ----------------------------
(***************************************************************************)
(* All the settings of a hid2vsp port: those of LineControl, and the ones  *)
(* EvtIoDeviceControl (queue.c) keeps as they come in the device context   *)
(* (device.c): baud rate, modem and FIFO control, timeouts. A request      *)
(* whose buffer is too short fails before anything is copied. Applications *)
(* that share the port, or follow one another on it, mix all of these.     *)
(***************************************************************************)
EXTENDS LineControl

CONSTANTS
  ULong,    \* the values of a ULONG that applications use
  MaxULong  \* MAXULONG

ReadFields == {"interval", "multiplier", "constant"}
ReadTimeouts == [ReadFields -> ULong]
Plain == {"baud", "modem", "fifo", "timeouts"}

\* What a request for setting s may hold.
Value(s) == IF s = "timeouts" THEN ReadTimeouts ELSE ULong

ASSUME SettingsAssumption == 0 \in ULong /\ None \notin ULong \cup ReadTimeouts

VARIABLES
  kept,    \* DEVICE_CONTEXT: BaudRate, ModemControlRegister, ..., Timeouts
  wanted,  \* history: what the last successful request set
  answer   \* history: the last setting answered and its value, or None

settings     == <<kept, wanted, answer>>
settingsVars == <<vars, settings>>

\* The context is zeroed when the framework creates it.
Zero(s) == IF s = "timeouts" THEN [f \in ReadFields |-> 0] ELSE 0

\* The mutant of this module: GET_TIMEOUTS before the fix that queue.c:304-307 tells of.
AnsweredZero(s) == IF s = "timeouts" THEN Zero(s) ELSE kept[s]

\* What a GET request copies out.
Answered(s) == kept[s]

\* SET_TIMEOUTS refuses the one combination that means nothing.
Valid(s, v) == v # None /\ ~(s = "timeouts" /\ \A f \in ReadFields : v[f] = MaxULong)

SettingsInit ==
  /\ Init
  /\ kept = [s \in Plain |-> Zero(s)]
  /\ wanted = kept
  /\ answer = None

SetPlain(s, v) ==
  /\ Valid(s, v)
  /\ kept' = [kept EXCEPT ![s] = v]
  /\ wanted' = [wanted EXCEPT ![s] = v]
  /\ UNCHANGED <<answer, vars>>

\* Too short a buffer, or a combination that is refused.
Refuse(s, v) ==
  /\ ~Valid(s, v)
  /\ UNCHANGED settingsVars

\* There is no request that reads the FIFO register.
GetPlain(s) ==
  /\ s # "fifo"
  /\ answer' = [setting |-> s, value |-> Answered(s)]
  /\ UNCHANGED <<kept, wanted, vars>>

SettingsNext ==
  \/ Next /\ UNCHANGED settings
  \/ \E s \in Plain : \/ \E v \in Value(s) \cup {None} : SetPlain(s, v) \/ Refuse(s, v)
                      \/ GetPlain(s)

SettingsSpec == SettingsInit /\ [][SettingsNext]_settingsVars

-----------------------------------------------------------------------------
\* A setting that is read back is the one last set with success, whatever
\* requests failed or changed other settings in between. (The line settings
\* promise less: a SET_LINE_CONTROL that fails changes them.)
Answers ==
  [][answer' # answer => answer'.value = wanted[answer'.setting]]_settingsVars
=============================================================================
