------------------------------ MODULE DevNodes ------------------------------
(***************************************************************************)
(* The device nodes of the ports and the tools that work on them: the      *)
(* setup tool (setup.cpp), which the installer runs once per side and the  *)
(* user may run again; the tray applet (tray.cpp), which shows them; and   *)
(* its elevated "--reconnect" processes, which turn every port off and on. *)
(* Two of these may overlap, for the tray waits thirty seconds for one.    *)
(*                                                                         *)
(* The nodes are keys of Enum\Root\PORTS, numbered in the order in which   *)
(* RegEnumKeyEx lists them. What the plug and play manager does with a     *)
(* node is external; a device that starts or stops attaches to the pair    *)
(* table as DeviceLifecycle says.                                          *)
(***************************************************************************)
EXTENDS Naturals, FiniteSets

CONSTANTS
  Instance, \* the instance numbers a node may get
  Foreign,  \* those of other people's ports
  Elevated, \* the processes that run ReconnectAllElevated
  None      \* no side, no node

ASSUME NodeAssumption == /\ Instance \subseteq Nat /\ IsFiniteSet(Instance)
                         /\ Foreign \subseteq Instance
                         /\ None \notin Instance /\ None \notin {"A", "B", "other"}

Side == {"A", "B"}

VARIABLES
  kind,   \* the side of the hardware ID of each node, "other", or None: no node
  status, \* started, disabled, problem, or stopped: between the two of an update
  bound,  \* the nodes with a driver
  slot,   \* the pair table: the node attached for each side
  setup,  \* the setup tool: what it does, for which side, to which nodes
  pass,   \* each elevated process: how far it is, the index, the node
  tray,   \* the applet: none, idle, or waiting for an elevated process
  broken, \* history: a step failed, or was killed, half way
  clean   \* history: the elevated processes that had no failure and no company

nodes == <<kind, status, bound, slot>>
vars == <<nodes, setup, pass, tray, broken, clean>>

Idle == [op |-> "idle", side |-> None, todo |-> {}, node |-> None]
Off  == [pc |-> "none", at |-> 0, node |-> None]

Present == {n \in Instance : kind[n] # None}
Ours    == {n \in Present : kind[n] \in Side}

\* The node RegEnumKeyEx finds at an index.
Rank(n) == Cardinality({m \in Present : m < n})
KeyAt(i) == CHOOSE n \in Present : Rank(n) = i

\* The mutants of this module: plausible slips in setup.cpp and tray.cpp.
StopAtForeign(p) == IF KeyAt(pass[p].at) \in Ours THEN "disable" ELSE "done"
FirstMatch(s) == {n \in Ours : kind[n] = s /\ \A m \in Ours : kind[m] = s => n <= m}
StaysOff(n) == "look"

Init ==
  /\ kind = [n \in Instance |-> IF n \in Foreign THEN "other" ELSE None]
  /\ status = [n \in Instance |-> IF n \in Foreign THEN "started" ELSE "problem"]
  /\ bound = Foreign /\ slot = [s \in Side |-> None]
  /\ setup = Idle /\ pass = [p \in Elevated |-> Off]
  /\ tray = "none"
  /\ broken = FALSE /\ clean = {}

-----------------------------------------------------------------------------
(* What happens to a node *)

\* The device goes: PairDetachChild.
Goes(n, st) ==
  /\ status' = [status EXCEPT ![n] = st]
  /\ slot' = [s \in Side |-> IF slot[s] = n THEN None ELSE slot[s]]

\* The device starts: PairAttachChild, which finds the slot free or taken.
Starts(n) ==
  /\ status' = [status EXCEPT ![n] = "started"]
  /\ slot' = [s \in Side |-> IF s = kind[n] /\ slot[s] = None THEN n ELSE slot[s]]

Unstarted(n) == status' = [status EXCEPT ![n] = "problem"] /\ UNCHANGED slot

\* A node's driver, if any, starts, or does not (failed).
Start(n, failed) == IF n \in bound /\ ~failed THEN Starts(n) ELSE Unstarted(n)

-----------------------------------------------------------------------------
(* The setup tool *)

AtRest == setup.op \in {"idle", "removed"}

\* The nodes of a hardware ID.
Matching(s) == {n \in Ours : kind[n] = s}

\* install: a new node, whatever nodes there are already.
Register ==
  /\ AtRest
  /\ \E s \in Side, n \in Instance \ Present :
       /\ kind' = [kind EXCEPT ![n] = s]
       /\ status' = [status EXCEPT ![n] = "problem"]
       /\ setup' = [Idle EXCEPT !.op = "update", !.side = s,
                                !.todo = {n} \cup Matching(s)]
  /\ clean' = {}
  /\ UNCHANGED <<bound, slot, pass, tray, broken>>

\* UpdateDriverForPlugAndPlayDevices stops each node of the hardware ID, and starts it
\* with the driver. One that is disabled stays so.
UpdateStop ==
  /\ setup.op = "update"
  /\ \E n \in setup.todo :
       /\ bound' = bound \cup {n}
       /\ setup' = [setup EXCEPT !.op = "start", !.todo = @ \ {n}, !.node = n]
       /\ IF status[n] = "disabled" THEN UNCHANGED <<status, slot>> ELSE Goes(n, "stopped")
  /\ clean' = {}
  /\ UNCHANGED <<kind, pass, tray, broken>>

UpdateStart ==
  /\ setup.op = "start"
  /\ setup' = [setup EXCEPT !.op = "update", !.node = None]
  /\ \E failed \in BOOLEAN :
       IF status[setup.node] = "stopped"
         THEN Start(setup.node, failed) /\ broken' = (broken \/ failed)
         ELSE UNCHANGED <<status, slot, broken>>
  /\ clean' = {}
  /\ UNCHANGED <<kind, bound, pass, tray>>

\* Die, or the end of the command.
UpdateEnds ==
  /\ setup.op = "update"
  /\ setup' = Idle
  /\ UNCHANGED <<nodes, pass, tray, broken, clean>>

\* remove: the nodes that there are when it begins, each of which may be in use.
Listed(s) == Matching(s)

RemoveBegins ==
  /\ AtRest
  /\ \E s \in Side :
       setup' = [Idle EXCEPT !.op = "remove", !.side = s, !.todo = Listed(s)]
  /\ UNCHANGED <<nodes, pass, tray, broken, clean>>

RemoveNode ==
  /\ setup.op = "remove"
  /\ \E n \in setup.todo :
       \/ /\ setup' = [setup EXCEPT !.todo = @ \ {n}]
          /\ kind' = [kind EXCEPT ![n] = None] /\ bound' = bound \ {n}
          /\ Goes(n, "problem")
          /\ clean' = {} /\ UNCHANGED broken
       \/ /\ setup' = [setup EXCEPT !.todo = @ \ {n}, !.node = n]
          /\ broken' = TRUE /\ UNCHANGED <<nodes, clean>>
  /\ UNCHANGED <<pass, tray>>

RemoveEnds ==
  /\ setup.op = "remove" /\ setup.todo = {}
  /\ setup' = IF setup.node = None THEN [Idle EXCEPT !.op = "removed", !.side = setup.side]
                                   ELSE Idle
  /\ UNCHANGED <<nodes, pass, tray, broken, clean>>

-----------------------------------------------------------------------------
(* The elevated processes: ReconnectAllElevated and CyclePairElevated *)

\* What is done with the key at the index: a node of ours is turned off and on.
NextStep(p) == IF KeyAt(pass[p].at) \in Ours THEN "disable" ELSE "look"

\* What follows the disabling of a node.
AfterDisable(n) == "enable"

\* The process ends where the enumeration does.
Look(p) ==
  /\ pass[p].pc = "look"
  /\ pass' = [pass EXCEPT ![p] =
       IF @.at < Cardinality(Present)
         THEN [pc |-> NextStep(p), at |-> @.at + 1, node |-> KeyAt(@.at)]
         ELSE [Off EXCEPT !.pc = "done"]]
  /\ UNCHANGED <<nodes, setup, tray, broken, clean>>

\* p has a node of ours to turn on again.
HalfWay(p) == /\ pass[p].pc = "enable" /\ pass[p].node \in Ours
              /\ status[pass[p].node] = "disabled"

Goto(p, pc) == pass' = [pass EXCEPT ![p].pc = pc]

\* A node that is gone is not located; one in use may refuse.
DisableFails(p) ==
  /\ pass[p].pc = "disable"
  /\ Goto(p, "look") /\ clean' = clean \ {p}
  /\ UNCHANGED <<nodes, setup, tray, broken>>

Disable(p) ==
  /\ pass[p].pc = "disable" /\ pass[p].node \in Ours
  /\ Goes(pass[p].node, "disabled")
  /\ Goto(p, AfterDisable(pass[p].node)) /\ clean' = clean \cap {p}
  /\ UNCHANGED <<kind, bound, setup, tray, broken>>

\* The handle may have lost its node, and the driver may fail to start.
EnableFails(p) ==
  /\ pass[p].pc = "enable"
  /\ \/ UNCHANGED nodes
     \/ /\ HalfWay(p)
        /\ Unstarted(pass[p].node) /\ UNCHANGED <<kind, bound>>
  /\ broken' = (broken \/ HalfWay(p))
  /\ Goto(p, "look") /\ clean' = {}
  /\ UNCHANGED <<setup, tray>>

Enable(p) ==
  /\ pass[p].pc = "enable" /\ pass[p].node \in Ours
  /\ IF HalfWay(p) THEN Start(pass[p].node, FALSE) ELSE UNCHANGED <<status, slot>>
  /\ Goto(p, "look") /\ clean' = clean \cap {p}
  /\ UNCHANGED <<kind, bound, setup, tray, broken>>

-----------------------------------------------------------------------------
(* The tray applet *)

\* The mutex admits one applet.
TrayStarts ==
  /\ tray = "none" /\ tray' = "idle"
  /\ UNCHANGED <<nodes, setup, pass, broken, clean>>

\* RelaunchAsAdmin, which the user does not refuse.
Reconnect(p) ==
  /\ tray = "idle" /\ pass[p].pc \in {"none", "done"}
  /\ pass' = [pass EXCEPT ![p] = [Off EXCEPT !.pc = "look"]]
  /\ tray' = "waiting" /\ clean' = clean \cup {p}
  /\ UNCHANGED <<nodes, setup, broken>>

\* The process has ended, or thirty seconds have passed.
Waited ==
  /\ tray = "waiting"
  /\ tray' = "idle"
  /\ UNCHANGED <<nodes, setup, pass, broken, clean>>

\* The menu's Exit, or the end of the session.
TrayExits ==
  /\ tray = "idle"
  /\ tray' = "none"
  /\ UNCHANGED <<nodes, setup, pass, broken, clean>>

\* The uninstaller ends the applet and the elevated processes, which are the same
\* program, wherever they are.
TaskKill ==
  /\ AtRest
  /\ tray' = "none"
  /\ pass' = [p \in Elevated |-> Off]
  /\ broken' = (broken \/ \E p \in Elevated : HalfWay(p))
  /\ clean' = {}
  /\ UNCHANGED <<nodes, setup>>

-----------------------------------------------------------------------------
Setup == \/ Register \/ UpdateStop \/ UpdateStart \/ UpdateEnds
         \/ RemoveBegins \/ RemoveNode \/ RemoveEnds
Applet == TrayStarts \/ Waited \/ TrayExits \/ TaskKill

Next == \/ Setup \/ Applet
        \/ \E p \in Elevated : \/ Look(p) \/ Disable(p) \/ DisableFails(p)
                               \/ Enable(p) \/ EnableFails(p) \/ Reconnect(p)

Spec == Init /\ [][Next]_vars

-----------------------------------------------------------------------------
\* A port that has started is connected, or another of its side has the place, while
\* nothing has failed half way and nothing is half done: whatever the order in which
\* installs, removals and reconnects that overlap stop and start nodes
\* (tray.cpp:209-217, setup.cpp:58).
Paired ==
  \A s \in Side :
    slot[s] = None /\ (\E n \in Matching(s) : status[n] = "started") =>
      \/ broken
      \/ \E p \in Elevated : HalfWay(p) /\ kind[pass[p].node] = s
      \/ setup.op = "remove" /\ setup.side = s
      \/ setup.op = "start" /\ setup.side = s /\ status[setup.node] = "stopped"

\* A reconnect without failure and without company repairs what earlier failures and
\* kills have left, on every node that has its driver (tray.cpp:219-240).
Repaired ==
  \A p \in clean : pass[p].pc = "done" =>
    \A n \in Ours \cap bound :
      /\ status[n] = "started" /\ slot[kind[n]] # None
      /\ kind[slot[kind[n]]] = kind[n] /\ status[slot[kind[n]]] = "started"

\* A removal that did not fail leaves no node of its hardware ID, whatever failed
\* installs, repeated ones and ended reconnects have left (setup.cpp:65-98).
Gone == setup.op = "removed" => Matching(setup.side) = {}
=============================================================================
