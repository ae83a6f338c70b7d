--------------------------- MODULE DevNodesProofs ---------------------------
(***************************************************************************)
(* However many nodes there are and however many reconnects overlap: a     *)
(* port that has started is connected, or another of its side has the      *)
(* place, unless something failed or is half done; a removal that did not  *)
(* fail leaves nothing; and a reconnect that had no failure and no company *)
(* leaves every port connected.                                            *)
(***************************************************************************)
EXTENDS DevNodes, FiniteSetTheorems, TLAPS

NodeTypes ==
  /\ kind \in [Instance -> {"A", "B", "other", None}]
  /\ status \in [Instance -> {"started", "disabled", "problem", "stopped"}]
  /\ bound \subseteq Instance
  /\ slot \in [Side -> Instance \cup {None}]

SetupTypes ==
  setup \in [op : {"idle", "update", "start", "remove", "removed"},
             side : Side \cup {None}, todo : SUBSET Instance, node : Instance \cup {None}]

\* What KeyAt returns is left open: no step relies on it.
PassTypes ==
  pass = [p \in Elevated |-> [pc |-> pass[p].pc, at |-> pass[p].at, node |-> pass[p].node]]

\* Who has a slot has started, and who has started has a driver.
Holders ==
  /\ \A s \in Side : slot[s] # None => kind[slot[s]] = s /\ status[slot[s]] = "started"
  /\ \A n \in Ours : status[n] = "started" => n \in bound

\* What the setup tool has before it.
Todo ==
  /\ setup.op = "update" => setup.todo \subseteq Matching(setup.side)
  /\ setup.op = "start" => /\ setup.todo \subseteq Matching(setup.side)
                           /\ setup.node \in Matching(setup.side) \cap bound
  /\ setup.op = "remove" => /\ setup.todo \subseteq Matching(setup.side)
                            /\ IF setup.node = None
                                 THEN Matching(setup.side) \subseteq setup.todo
                                 ELSE broken

\* p has a node of side s to turn on that has a driver to start with.
Owes(p, s) == HalfWay(p) /\ kind[pass[p].node] = s /\ pass[p].node \in bound

\* The free slot of a side is about to be taken again.
Owed(s) ==
  slot[s] = None /\ (\E n \in Matching(s) : status[n] = "started") =>
    \/ broken
    \/ \E p \in Elevated : Owes(p, s)
    \/ setup.op = "remove" /\ setup.side = s
    \/ setup.op = "start" /\ setup.side = s /\ status[setup.node] = "stopped"

IInv == /\ NodeTypes /\ SetupTypes /\ PassTypes /\ broken \in BOOLEAN
        /\ Holders /\ Todo /\ Gone
        /\ \A s \in Side : Owed(s)

LEMMA Initial == Init => IInv
  <1> SUFFICES ASSUME Init PROVE IInv
    OBVIOUS
  <1>1. NodeTypes /\ SetupTypes /\ PassTypes /\ broken \in BOOLEAN
    BY NodeAssumption DEF Init, NodeTypes, SetupTypes, PassTypes, Idle, Off, Side
  <1>2. Ours = {}
    BY NodeAssumption DEF Init, Ours, Present, Side
  <1>3. Holders /\ \A s \in Side : Owed(s)
    BY <1>2 DEF Init, Holders, Owed, Matching
  <1>4. Todo /\ Gone
    BY DEF Init, Todo, Gone, Idle
  <1> QED
    BY <1>1, <1>3, <1>4 DEF IInv

\* A process keeps what it owes while nobody touches it or the nodes it may owe.
LEMMA OwesKept ==
  ASSUME NEW p \in Elevated, NEW s \in Side, Owes(p, s), pass'[p] = pass[p],
         \A n \in Ours \cap bound : status[n] = "disabled" /\ kind[n] = s =>
           n \in bound' /\ kind'[n] = s /\ status'[n] = "disabled"
  PROVE  Owes(p, s)'
  <1>1. /\ pass[p].pc = "enable" /\ pass[p].node \in Ours \cap bound
        /\ status[pass[p].node] = "disabled" /\ kind[pass[p].node] = s
    BY DEF Owes, HalfWay
  <1>2. /\ pass[p].node \in bound' /\ kind'[pass[p].node] = s
        /\ status'[pass[p].node] = "disabled"
    BY <1>1
  <1>3. pass[p].node \in Ours'
    BY <1>1, <1>2, NodeAssumption DEF Ours, Present, Side
  <1> QED
    BY <1>1, <1>2, <1>3 DEF Owes, HalfWay

LEMMA GoesEffect ==
  ASSUME NodeTypes, Holders, NEW n \in Instance, NEW st \in {"disabled", "problem", "stopped"},
         Goes(n, st), bound' \subseteq Instance,
         kind' \in [Instance -> {"A", "B", "other", None}],
         \A m \in Instance : m # n => kind'[m] = kind[m] /\ (m \in bound => m \in bound')
  PROVE  /\ NodeTypes' /\ Holders'
         /\ status'[n] = st /\ \A m \in Instance : m # n => status'[m] = status[m]
         /\ \A s \in Side : slot'[s] = None => slot[s] = None \/ (slot[s] = n /\ kind[n] = s)
  <1>1. /\ status' \in [Instance -> {"started", "disabled", "problem", "stopped"}]
        /\ status'[n] = st /\ \A m \in Instance : m # n => status'[m] = status[m]
    BY DEF Goes, NodeTypes
  <1>2. /\ slot' \in [Side -> Instance \cup {None}]
        /\ \A s \in Side : slot'[s] = IF slot[s] = n THEN None ELSE slot[s]
    BY DEF Goes, NodeTypes
  <1>3. NodeTypes'
    BY <1>1, <1>2 DEF NodeTypes
  <1>4. \A s \in Side : slot'[s] # None =>
          kind'[slot'[s]] = s /\ status'[slot'[s]] = "started"
    <2> SUFFICES ASSUME NEW s \in Side, slot'[s] # None
                 PROVE  kind'[slot'[s]] = s /\ status'[slot'[s]] = "started"
      OBVIOUS
    <2>1. slot'[s] = slot[s] /\ slot[s] # n /\ slot[s] \in Instance
      BY <1>2 DEF NodeTypes
    <2> QED
      BY <1>1, <2>1 DEF Holders
  <1>5. \A m \in Ours' : status'[m] = "started" => m \in bound'
    <2> SUFFICES ASSUME NEW m \in Ours', status'[m] = "started" PROVE m \in bound'
      OBVIOUS
    <2>1. m \in Instance /\ m # n
      BY <1>1 DEF Ours, Present
    <2>2. m \in Ours /\ status[m] = "started"
      BY <1>1, <2>1 DEF Ours, Present
    <2> QED
      BY <2>1, <2>2 DEF Holders
  <1> QED
    BY <1>1, <1>2, <1>3, <1>4, <1>5 DEF Holders

LEMMA StartsEffect ==
  ASSUME NodeTypes, Holders, NEW n \in Ours \cap bound, Starts(n), UNCHANGED <<kind, bound>>,
         \A s \in Side : slot[s] # n
  PROVE  /\ NodeTypes' /\ Holders'
         /\ status'[n] = "started" /\ \A m \in Instance : m # n => status'[m] = status[m]
         /\ \A s \in Side : slot'[s] = None => slot[s] = None /\ kind[n] # s
  <1>1. n \in Instance /\ n # None
    BY NodeAssumption DEF Ours, Present
  <1>2. /\ status' \in [Instance -> {"started", "disabled", "problem", "stopped"}]
        /\ status'[n] = "started" /\ \A m \in Instance : m # n => status'[m] = status[m]
    BY <1>1 DEF Starts, NodeTypes
  <1>3. /\ slot' \in [Side -> Instance \cup {None}]
        /\ \A s \in Side : slot'[s] = IF s = kind[n] /\ slot[s] = None THEN n ELSE slot[s]
    BY <1>1 DEF Starts, NodeTypes
  <1>4. NodeTypes'
    BY <1>2, <1>3 DEF NodeTypes
  <1>5. \A s \in Side : slot'[s] # None =>
          kind'[slot'[s]] = s /\ status'[slot'[s]] = "started"
    <2> SUFFICES ASSUME NEW s \in Side, slot'[s] # None
                 PROVE  kind'[slot'[s]] = s /\ status'[slot'[s]] = "started"
      OBVIOUS
    <2>1. CASE s = kind[n] /\ slot[s] = None
      BY <1>2, <1>3, <2>1
    <2>2. CASE ~(s = kind[n] /\ slot[s] = None)
      <3>1. slot'[s] = slot[s] /\ slot[s] # n /\ slot[s] \in Instance
        BY <1>3, <2>2 DEF NodeTypes
      <3> QED
        BY <1>2, <3>1 DEF Holders
    <2> QED
      BY <2>1, <2>2
  <1>6. \A m \in Ours' : status'[m] = "started" => m \in bound'
    BY <1>2 DEF Ours, Present, Holders
  <1> QED
    BY <1>1, <1>2, <1>3, <1>4, <1>5, <1>6 DEF Holders

\* Steps that leave the nodes alone.
LEMMA NodesKept ==
  ASSUME NodeTypes, Holders, UNCHANGED nodes
  PROVE  NodeTypes' /\ Holders' /\ \A s \in Side : Matching(s)' = Matching(s)
  BY DEF nodes, NodeTypes, Holders, Matching, Ours, Present

-----------------------------------------------------------------------------
(* The setup tool *)

LEMMA RegisterStep == ASSUME IInv, Register PROVE IInv'
  <1> USE DEF IInv
  <1>1. PICK s \in Side, n \in Instance \ Present :
          /\ kind' = [kind EXCEPT ![n] = s]
          /\ status' = [status EXCEPT ![n] = "problem"]
          /\ setup' = [Idle EXCEPT !.op = "update", !.side = s, !.todo = {n} \cup Matching(s)]
    BY DEF Register
  <1>2. UNCHANGED <<bound, slot, pass, broken>> /\ setup.op \in {"idle", "removed"}
    BY DEF Register, AtRest
  <1>3. setup' = [op |-> "update", side |-> s, todo |-> {n} \cup Matching(s), node |-> None]
    BY <1>1 DEF Idle
  <1>4. NodeTypes' /\ SetupTypes' /\ PassTypes'
    <2>1. Matching(s) \subseteq Instance
      BY DEF Matching, Ours, Present
    <2>2. SetupTypes'
      BY <1>3, <2>1 DEF SetupTypes
    <2>3. NodeTypes'
      BY <1>1, <1>2 DEF NodeTypes, Side
    <2> QED
      BY <1>2, <2>2, <2>3 DEF PassTypes
  <1>5. kind[n] = None /\ kind'[n] = s /\ status'[n] = "problem"
        /\ \A m \in Instance : m # n => kind'[m] = kind[m] /\ status'[m] = status[m]
    BY <1>1 DEF NodeTypes, Present
  <1>6. Holders'
    <2>1. \A t \in Side : slot[t] # None => slot[t] \in Instance /\ slot[t] # n
      BY <1>5, NodeAssumption DEF NodeTypes, Holders, Side
    <2>2. \A m \in Ours' : status'[m] = "started" => m \in Ours /\ status[m] = "started"
      BY <1>5 DEF Ours, Present
    <2> QED
      BY <1>2, <1>5, <2>1, <2>2 DEF Holders
  <1>7. Todo' /\ Gone'
    BY <1>3, <1>5, NodeAssumption DEF NodeTypes, Todo, Gone, Matching, Ours, Present, Side
  <1>8. ASSUME NEW t \in Side PROVE Owed(t)'
    <2>1. SUFFICES ASSUME slot'[t] = None, NEW m \in Matching(t)', status'[m] = "started"
                   PROVE  broken' \/ \E p \in Elevated : Owes(p, t)'
      BY DEF Owed
    <2>2. m \in Matching(t) /\ status[m] = "started"
      BY <1>5, <2>1 DEF Matching, Ours, Present
    <2>3. broken \/ \E p \in Elevated : Owes(p, t)
      BY <1>2, <2>1, <2>2 DEF Owed
    <2>4. \A k \in Ours : k # n
      BY <1>5 DEF Ours, Present
    <2>5. \A p \in Elevated : Owes(p, t) => Owes(p, t)'
      BY <1>2, <1>5, <2>4, OwesKept DEF Ours, Present
    <2> QED
      BY <1>2, <2>3, <2>5
  <1> QED
    BY <1>2, <1>4, <1>6, <1>7, <1>8

LEMMA UpdateStopStep == ASSUME IInv, UpdateStop PROVE IInv'
  <1> USE DEF IInv
  <1>1. PICK n \in setup.todo :
          /\ bound' = bound \cup {n}
          /\ setup' = [setup EXCEPT !.op = "start", !.todo = @ \ {n}, !.node = n]
          /\ IF status[n] = "disabled" THEN UNCHANGED <<status, slot>> ELSE Goes(n, "stopped")
    BY DEF UpdateStop
  <1>2. UNCHANGED <<kind, pass, broken>> /\ setup.op = "update"
    BY DEF UpdateStop
  <1>3. /\ n \in Matching(setup.side) /\ n \in Instance /\ n \in Ours /\ kind[n] = setup.side
        /\ \A m \in Instance : m # n => kind'[m] = kind[m] /\ (m \in bound => m \in bound')
        /\ bound' \subseteq Instance /\ kind' \in [Instance -> {"A", "B", "other", None}]
    BY <1>1, <1>2 DEF Todo, Matching, Ours, Present, NodeTypes
  <1>4. /\ setup' \in [op : {"idle", "update", "start", "remove", "removed"},
                       side : Side \cup {None}, todo : SUBSET Instance, node : Instance \cup {None}]
        /\ setup'.op = "start" /\ setup'.side = setup.side /\ setup'.node = n
        /\ setup'.todo \subseteq setup.todo
    BY <1>1, <1>3 DEF SetupTypes
  <1>5. \A s \in {setup.side} : Matching(s)' = Matching(s)
    BY <1>2 DEF Matching, Ours, Present
  <1>6. Todo' /\ Gone'
    BY <1>1, <1>2, <1>3, <1>4, <1>5 DEF Todo, Gone
  <1>7. NodeTypes' /\ Holders'
    <2>1. CASE status[n] = "disabled"
      BY <1>1, <1>2, <1>3, <2>1 DEF NodeTypes, Holders, Ours, Present
    <2>2. CASE status[n] # "disabled"
      BY <1>1, <1>3, <2>2, GoesEffect
    <2> QED
      BY <2>1, <2>2
  <1>8. /\ status[n] = "disabled" => status'[n] = "disabled"
        /\ \A m \in Instance : m # n => status'[m] = status[m]
        /\ \A s \in Side : slot'[s] = None =>
             slot[s] = None \/ (slot[s] = n /\ kind[n] = s /\ status'[n] = "stopped")
    <2>1. CASE status[n] = "disabled"
      BY <1>1, <2>1
    <2>2. CASE status[n] # "disabled"
      BY <1>1, <1>3, <2>2, GoesEffect
    <2> QED
      BY <2>1, <2>2
  <1>9. ASSUME NEW t \in Side PROVE Owed(t)'
    <2>1. SUFFICES ASSUME slot'[t] = None, NEW m \in Matching(t)', status'[m] = "started"
                   PROVE  \/ broken' \/ \E p \in Elevated : Owes(p, t)'
                          \/ (setup.side = t /\ status'[n] = "stopped")
      BY <1>4 DEF Owed
    <2>2. CASE slot[t] = n
      BY <1>3, <1>8, <2>1, <2>2, NodeAssumption
    <2>3. CASE slot[t] = None
      <3>1. (m \in Matching(t) /\ status[m] = "started") \/ m = n
        BY <1>2, <1>8, <2>1 DEF Matching, Ours, Present
      <3>2. status'[n] # "started" \/ status[n] = "started"
        <4>1. CASE status[n] = "disabled"
          BY <1>8, <4>1
        <4>2. CASE status[n] # "disabled"
          BY <1>1, <1>3, <4>2, GoesEffect
        <4> QED
          BY <4>1, <4>2
      <3>3. m \in Matching(t) /\ status[m] = "started"
        BY <1>2, <2>1, <3>1, <3>2 DEF Matching, Ours, Present
      <3>4. broken \/ \E p \in Elevated : Owes(p, t)
        BY <1>2, <2>3, <3>3 DEF Owed
      <3>5. \A p \in Elevated : Owes(p, t) => Owes(p, t)'
        BY <1>1, <1>2, <1>8, OwesKept DEF Ours, Present
      <3> QED
        BY <1>2, <3>4, <3>5
    <2> QED
      BY <1>8, <2>1, <2>2, <2>3
  <1> QED
    BY <1>2, <1>4, <1>6, <1>7, <1>9 DEF SetupTypes, PassTypes

LEMMA UpdateStartStep == ASSUME IInv, UpdateStart PROVE IInv'
  <1> USE DEF IInv
  <1> DEFINE n == setup.node
  <1>1. /\ setup.op = "start" /\ setup' = [setup EXCEPT !.op = "update", !.node = None]
        /\ UNCHANGED <<kind, bound, pass>>
    BY DEF UpdateStart
  <1>2. n \in Instance /\ n \in Ours \cap bound /\ kind[n] = setup.side
    BY <1>1 DEF Todo, Matching, Ours, Present
  <1>3. SetupTypes' /\ PassTypes'
    BY <1>1 DEF SetupTypes, PassTypes
  <1>4. /\ setup'.op = "update" /\ setup'.side = setup.side /\ setup'.todo = setup.todo
        /\ \A s \in {setup.side} : Matching(s)' = Matching(s)
    BY <1>1 DEF SetupTypes, Matching, Ours, Present
  <1>5. Todo' /\ Gone'
    BY <1>1, <1>4 DEF Todo, Gone
  <1>6. PICK failed \in BOOLEAN :
          IF status[n] = "stopped"
            THEN Start(n, failed) /\ broken' = (broken \/ failed)
            ELSE UNCHANGED <<status, slot, broken>>
    BY DEF UpdateStart
  <1> HIDE DEF n
  <1>7. broken' \in BOOLEAN
    BY <1>6
  <1>8. CASE status[n] # "stopped"
    <2>1. UNCHANGED <<status, slot, broken>>
      BY <1>6, <1>8
    <2>2. NodeTypes' /\ Holders'
      BY <1>1, <2>1, NodesKept DEF nodes
    <2>3. ASSUME NEW t \in Side PROVE Owed(t)'
      <3>1. SUFFICES ASSUME slot'[t] = None, NEW m \in Matching(t)', status'[m] = "started"
                     PROVE  broken' \/ \E p \in Elevated : Owes(p, t)'
        BY DEF Owed
      <3>2. broken \/ \E p \in Elevated : Owes(p, t)
        BY <1>1, <1>8, <2>1, <3>1 DEF Owed, Matching, Ours, Present, n
      <3>3. \A p \in Elevated : Owes(p, t) => Owes(p, t)'
        BY <1>1, <2>1, OwesKept
      <3> QED
        BY <2>1, <3>2, <3>3
    <2> QED
      BY <1>3, <1>5, <1>7, <2>2, <2>3
  <1>9. CASE status[n] = "stopped" /\ ~failed
    <2>1. Starts(n) /\ (broken => broken')
      BY <1>2, <1>6, <1>9 DEF Start
    <2>2. \A s \in Side : slot[s] # n
      BY <1>2, <1>9, NodeAssumption DEF Holders
    <2>3. /\ NodeTypes' /\ Holders'
          /\ \A m \in Instance : m # n => status'[m] = status[m]
          /\ \A s \in Side : slot'[s] = None => slot[s] = None /\ kind[n] # s
      BY <1>1, <1>2, <2>1, <2>2, StartsEffect
    <2>4. ASSUME NEW t \in Side PROVE Owed(t)'
      <3>1. SUFFICES ASSUME slot'[t] = None, NEW m \in Matching(t)', status'[m] = "started"
                     PROVE  broken' \/ \E p \in Elevated : Owes(p, t)'
        BY DEF Owed
      <3>2. slot[t] = None /\ kind[n] # t
        BY <2>3, <3>1
      <3>3. m \in Matching(t) /\ status[m] = "started"
        BY <1>1, <2>3, <3>1, <3>2 DEF Matching, Ours, Present
      <3>4. broken \/ \E p \in Elevated : Owes(p, t)
        BY <1>1, <1>2, <3>2, <3>3 DEF Owed
      <3>5. \A p \in Elevated : Owes(p, t) => Owes(p, t)'
        BY <1>1, <2>3, <3>2, OwesKept DEF Ours, Present
      <3> QED
        BY <2>1, <3>4, <3>5
    <2> QED
      BY <1>3, <1>5, <1>7, <2>3, <2>4
  <1>10. CASE status[n] = "stopped" /\ failed
    <2>1. Unstarted(n) /\ broken'
      BY <1>6, <1>10 DEF Start
    <2>2. NodeTypes' /\ Holders'
      <3>1. /\ status' = [status EXCEPT ![n] = "problem"] /\ UNCHANGED slot
            /\ \A s \in Side : slot[s] # n
        BY <1>2, <1>10, <2>1, NodeAssumption DEF Holders, Unstarted
      <3> QED
        BY <1>1, <1>2, <3>1 DEF NodeTypes, Holders, Ours, Present
    <2>3. \A t \in Side : Owed(t)'
      BY <2>1 DEF Owed
    <2> QED
      BY <1>3, <1>5, <1>7, <2>2, <2>3
  <1> QED
    BY <1>8, <1>9, <1>10

\* Steps that leave the nodes and what the passes owe alone.
LEMMA OwedKept ==
  ASSUME IInv, UNCHANGED nodes, broken => broken',
         NEW t \in Side, ~(setup.op \in {"remove", "start"} /\ setup.side = t) \/ setup' = setup,
         \A p \in Elevated : Owes(p, t) => broken' \/ pass'[p] = pass[p]
  PROVE  Owed(t)'
  <1> USE DEF IInv
  <1>1. SUFFICES ASSUME slot'[t] = None, NEW m \in Matching(t)', status'[m] = "started", ~broken'
                 PROVE  \/ \E p \in Elevated : Owes(p, t)'
                        \/ setup'.op = "remove" /\ setup'.side = t
                        \/ setup'.op = "start" /\ setup'.side = t /\ status'[setup'.node] = "stopped"
    BY DEF Owed
  <1>2. slot[t] = None /\ m \in Matching(t) /\ status[m] = "started"
    BY <1>1 DEF nodes, Matching, Ours, Present
  <1>3. CASE \E p \in Elevated : Owes(p, t)
    <2>1. PICK p \in Elevated : Owes(p, t)
      BY <1>3
    <2>2. Owes(p, t)'
      BY <1>1, <2>1, OwesKept DEF nodes
    <2> QED
      BY <2>2
  <1>4. CASE /\ setup.op \in {"remove", "start"} /\ setup.side = t
             /\ setup.op = "start" => status[setup.node] = "stopped"
    <2>1. setup' = setup
      BY <1>4
    <2> QED
      BY <1>4, <2>1 DEF nodes
  <1> QED
    BY <1>1, <1>2, <1>3, <1>4 DEF Owed

LEMMA SetupEnds == ASSUME IInv, UpdateEnds \/ RemoveBegins PROVE IInv'
  <1> USE DEF IInv
  <1>1. UNCHANGED <<nodes, pass, broken>> /\ setup.op \in {"update", "idle", "removed"}
    BY DEF UpdateEnds, RemoveBegins, AtRest
  <1>2. NodeTypes' /\ Holders' /\ \A s \in Side : Matching(s)' = Matching(s)
    BY <1>1, NodesKept
  <1>3. SetupTypes' /\ Todo' /\ Gone'
    <2>1. CASE setup' = Idle
      BY <2>1 DEF SetupTypes, Todo, Gone, Idle
    <2>2. ASSUME NEW s \in Side,
                 setup' = [Idle EXCEPT !.op = "remove", !.side = s, !.todo = Listed(s)]
          PROVE  SetupTypes' /\ Todo' /\ Gone'
      <3>1. setup' = [op |-> "remove", side |-> s, todo |-> Matching(s), node |-> None]
        BY <2>2 DEF Idle, Listed
      <3>2. Matching(s)' = Matching(s) /\ Matching(s) \subseteq Instance
        BY <1>2 DEF Matching, Ours, Present
      <3>3. setup'.op = "remove" /\ setup'.side = s /\ setup'.todo = Matching(s) /\ setup'.node = None
        BY <3>1
      <3>5. SetupTypes'
        BY <3>1, <3>2 DEF SetupTypes
      <3> QED
        BY <1>1, <3>3, <3>5 DEF nodes, Todo, Gone, Matching, Ours, Present
    <2> QED
      BY <2>1, <2>2 DEF UpdateEnds, RemoveBegins
  <1>4. \A t \in Side : Owed(t)'
    BY <1>1, OwedKept
  <1> QED
    BY <1>1, <1>2, <1>3, <1>4 DEF PassTypes

LEMMA RemoveEndsStep == ASSUME IInv, RemoveEnds PROVE IInv'
  <1> USE DEF IInv
  <1>1. /\ UNCHANGED <<nodes, pass, broken>> /\ setup.op = "remove" /\ setup.todo = {}
        /\ setup' = IF setup.node = None
                      THEN [Idle EXCEPT !.op = "removed", !.side = setup.side] ELSE Idle
    BY DEF RemoveEnds
  <1>2. NodeTypes' /\ Holders' /\ \A s \in Side : Matching(s)' = Matching(s)
    BY <1>1, NodesKept
  <1>3. /\ SetupTypes' /\ setup'.op \in {"idle", "removed"}
        /\ setup'.op = "removed" => setup.node = None /\ setup'.side = setup.side
    BY <1>1 DEF SetupTypes, Idle
  <1>4. setup.node = None => Matching(setup.side) = {}
    BY <1>1 DEF Todo
  <1>5. Todo' /\ Gone'
    <2>1. ASSUME setup'.op = "removed" PROVE \A n \in Ours' : kind'[n] # setup'.side
      BY <1>1, <1>3, <1>4, <2>1 DEF nodes, Matching, Ours, Present
    <2> QED
      BY <1>3, <2>1 DEF Todo, Gone, Matching
  <1>6. ASSUME NEW t \in Side PROVE Owed(t)'
    <2>1. CASE setup.node # None
      <3>1. broken'
        BY <1>1, <2>1 DEF Todo
      <3> QED
        BY <3>1 DEF Owed
    <2>2. CASE setup.node = None /\ setup.side = t
      <3>1. Matching(t)' = {}
        BY <1>2, <1>4, <2>2
      <3> QED
        BY <3>1 DEF Owed
    <2>3. CASE setup.side # t
      BY <1>1, <2>3, OwedKept
    <2> QED
      BY <2>1, <2>2, <2>3
  <1> QED
    BY <1>1, <1>2, <1>3, <1>5, <1>6 DEF PassTypes

LEMMA RemoveNodeStep == ASSUME IInv, RemoveNode PROVE IInv'
  <1> USE DEF IInv
  <1>1. PICK n \in setup.todo :
       \/ /\ setup' = [setup EXCEPT !.todo = @ \ {n}]
          /\ kind' = [kind EXCEPT ![n] = None] /\ bound' = bound \ {n}
          /\ Goes(n, "problem") /\ UNCHANGED broken
       \/ /\ setup' = [setup EXCEPT !.todo = @ \ {n}, !.node = n]
          /\ broken' = TRUE /\ UNCHANGED nodes
    BY DEF RemoveNode
  <1>2. UNCHANGED pass /\ setup.op = "remove"
    BY DEF RemoveNode
  <1>3. n \in Instance /\ n \in Matching(setup.side) /\ kind[n] = setup.side /\ n # None
    BY <1>2, NodeAssumption DEF Todo, Matching, Ours, Present
  <1>4. /\ SetupTypes' /\ setup'.op = "remove" /\ setup'.side = setup.side
        /\ setup'.todo = setup.todo \ {n}
    BY <1>1, <1>2, <1>3 DEF SetupTypes
  <1>5. Gone'
    BY <1>4 DEF Gone
  <1>6. CASE UNCHANGED nodes /\ broken' = TRUE /\ setup' = [setup EXCEPT !.todo = @ \ {n}, !.node = n]
    <2>1. NodeTypes' /\ Holders'
      BY <1>6, NodesKept
    <2>2. setup'.node = n /\ \A s \in {setup.side} : Matching(s)' = Matching(s)
      BY <1>6 DEF SetupTypes, nodes, Matching, Ours, Present
    <2>3. Todo'
      BY <1>2, <1>3, <1>4, <1>6, <2>2 DEF Todo
    <2>4. \A t \in Side : Owed(t)'
      BY <1>6 DEF Owed
    <2> QED
      BY <1>2, <1>4, <1>5, <1>6, <2>1, <2>3, <2>4 DEF PassTypes
  <1>7. CASE /\ setup' = [setup EXCEPT !.todo = @ \ {n}]
             /\ kind' = [kind EXCEPT ![n] = None] /\ bound' = bound \ {n}
             /\ Goes(n, "problem") /\ UNCHANGED broken
    <2>1. /\ kind'[n] = None /\ \A m \in Instance : m # n => kind'[m] = kind[m]
          /\ kind' \in [Instance -> {"A", "B", "other", None}]
      BY <1>3, <1>7 DEF NodeTypes
    <2>2. /\ bound' \subseteq Instance /\ \A m \in Instance : m # n /\ m \in bound => m \in bound'
      BY <1>7 DEF NodeTypes
    <2>3. /\ NodeTypes' /\ Holders' /\ status'[n] = "problem"
          /\ \A m \in Instance : m # n => status'[m] = status[m]
          /\ \A s \in Side : slot'[s] = None => slot[s] = None \/ (slot[s] = n /\ kind[n] = s)
      BY <1>3, <1>7, <2>1, <2>2, GoesEffect
    <2>4. \A s \in Side : Matching(s)' = Matching(s) \ {n}
      BY <1>3, <2>1, NodeAssumption DEF Matching, Ours, Present, Side
    <2>5. setup.side \in Side
      BY <1>3 DEF Matching, Ours
    <2>6. setup'.node = setup.node
      BY <1>7 DEF SetupTypes
    <2>7. Todo'
      <3>1. \A m : m \in Ours' /\ kind'[m] = setup.side <=>
                   m \in Ours /\ m # n /\ kind[m] = setup.side
        BY <1>3, <2>1, <2>5, NodeAssumption DEF Ours, Present, Side
      <3> QED
        BY <1>2, <1>4, <1>7, <2>6, <3>1 DEF Todo, Matching
    <2>8. ASSUME NEW t \in Side PROVE Owed(t)'
      <3>1. CASE t = setup.side
        BY <1>4, <3>1 DEF Owed
      <3>2. CASE t # setup.side
        <4>1. SUFFICES ASSUME slot'[t] = None, NEW m \in Matching(t)', status'[m] = "started"
                       PROVE  broken' \/ \E p \in Elevated : Owes(p, t)'
          BY DEF Owed
        <4>2. slot[t] = None
          BY <1>3, <2>3, <3>2, <4>1
        <4>3. m \in Matching(t) /\ m # n /\ status[m] = "started"
          BY <2>3, <2>4, <4>1 DEF Matching, Ours, Present
        <4>4. broken \/ \E p \in Elevated : Owes(p, t)
          BY <1>2, <3>2, <4>2, <4>3 DEF Owed
        <4>5. \A p \in Elevated : Owes(p, t) => Owes(p, t)'
          BY <1>2, <1>3, <2>1, <2>2, <2>3, <3>2, OwesKept DEF Ours, Present
        <4> QED
          BY <1>7, <4>4, <4>5
      <3> QED
        BY <3>1, <3>2
    <2> QED
      BY <1>2, <1>4, <1>5, <1>7, <2>3, <2>7, <2>8 DEF PassTypes
  <1> QED
    BY <1>1, <1>6, <1>7

-----------------------------------------------------------------------------
(* The elevated processes and the applet *)

\* A process that is not half way owes nothing, and its own steps change no other.
LEMMA PassStep ==
  ASSUME IInv, NEW p \in Elevated, NEW r,
         pass' = [pass EXCEPT ![p] = [pc |-> r.pc, at |-> r.at, node |-> r.node]]
  PROVE  /\ PassTypes'
         /\ \A q \in Elevated : q # p => pass'[q] = pass[q]
         /\ pass'[p] = [pc |-> r.pc, at |-> r.at, node |-> r.node]
  BY DEF IInv, PassTypes

LEMMA GotoStep ==
  ASSUME IInv, NEW p \in Elevated, NEW pc, Goto(p, pc)
  PROVE  /\ PassTypes'
         /\ \A q \in Elevated : q # p => pass'[q] = pass[q]
         /\ pass'[p].pc = pc /\ pass'[p].node = pass[p].node
  BY DEF IInv, PassTypes, Goto

LEMMA IdlePass == ASSUME NEW p, NEW t, pass[p].pc # "enable" PROVE ~Owes(p, t)
  BY DEF Owes, HalfWay

\* Steps of a process that leave the nodes alone while it owes nothing.
LEMMA IdleStep ==
  ASSUME IInv, NEW p \in Elevated, pass[p].pc # "enable", UNCHANGED <<nodes, setup, broken>>,
         PassTypes', \A q \in Elevated : q # p => pass'[q] = pass[q]
  PROVE  IInv'
  <1>1. NodeTypes' /\ Holders' /\ \A s \in Side : Matching(s)' = Matching(s)
    BY NodesKept DEF IInv
  <1>2. Todo' /\ Gone'
    BY DEF IInv, nodes, Todo, Gone, Matching, Ours, Present
  <1>3. \A t \in Side : Owed(t)'
    BY IdlePass, OwedKept
  <1> QED
    BY <1>1, <1>2, <1>3 DEF IInv, SetupTypes

LEMMA LookStep == ASSUME IInv, NEW p \in Elevated, Look(p) \/ Reconnect(p) \/ DisableFails(p)
                  PROVE  IInv'
  <1>1. pass[p].pc # "enable" /\ UNCHANGED <<nodes, setup, broken>>
    BY DEF Look, Reconnect, DisableFails
  <1>2. PassTypes' /\ \A q \in Elevated : q # p => pass'[q] = pass[q]
    BY DEF IInv, PassTypes, Look, Reconnect, DisableFails, Goto, Off
  <1> QED
    BY <1>1, <1>2, IdleStep

LEMMA DisableStep == ASSUME IInv, NEW p \in Elevated, Disable(p) PROVE IInv'
  <1> DEFINE n == pass[p].node
  <1>1. /\ pass[p].pc = "disable" /\ n \in Ours /\ Goes(n, "disabled") /\ Goto(p, "enable")
        /\ UNCHANGED <<kind, bound, setup, broken>>
    BY DEF Disable, AfterDisable
  <1>2. /\ PassTypes' /\ \A q \in Elevated : q # p => pass'[q] = pass[q]
        /\ pass'[p].pc = "enable" /\ pass'[p].node = n
    BY <1>1, GotoStep
  <1> HIDE DEF n
  <1>3. n \in Instance /\ n # None
    BY <1>1, NodeAssumption DEF Ours, Present
  <1>4. /\ NodeTypes' /\ Holders' /\ status'[n] = "disabled"
        /\ \A m \in Instance : m # n => status'[m] = status[m]
        /\ \A s \in Side : slot'[s] = None => slot[s] = None \/ (slot[s] = n /\ kind[n] = s)
    BY <1>1, <1>3, GoesEffect DEF IInv, NodeTypes
  <1>5. Todo' /\ Gone'
    BY <1>1 DEF IInv, Todo, Gone, Matching, Ours, Present
  <1>6. \A t \in Side : kind[n] = t /\ n \in bound => Owes(p, t)'
    BY <1>1, <1>2, <1>4 DEF Owes, HalfWay, Ours, Present
  <1>7. ASSUME NEW t \in Side PROVE Owed(t)'
    <2>1. SUFFICES ASSUME slot'[t] = None, NEW m \in Matching(t)', status'[m] = "started"
                   PROVE  \/ broken \/ \E q \in Elevated : Owes(q, t)'
                          \/ setup.op = "remove" /\ setup.side = t
                          \/ setup.op = "start" /\ setup.side = t /\ status'[setup.node] = "stopped"
      BY <1>1 DEF Owed
    <2>2. CASE slot[t] = n
      <3>1. kind[n] = t /\ n \in bound
        BY <1>1, <1>3, <2>2 DEF IInv, Holders
      <3> QED
        BY <1>6, <3>1
    <2>3. CASE slot[t] = None
      <3>1. m \in Matching(t) /\ status[m] = "started"
        BY <1>1, <1>4, <2>1 DEF Matching, Ours, Present
      <3>2. \A q \in Elevated : Owes(q, t) => Owes(q, t)'
        <4> SUFFICES ASSUME NEW q \in Elevated, Owes(q, t) PROVE Owes(q, t)'
          OBVIOUS
        <4>1. q # p
          BY <1>1, IdlePass
        <4> QED
          BY <1>1, <1>2, <1>4, <4>1, OwesKept DEF Ours, Present
      <3>3. CASE setup.op = "start" /\ setup.side = t /\ status[setup.node] = "stopped"
        <4>1. setup.node \in Instance /\ kind[setup.node] = t /\ setup.node \in bound
          BY <3>3 DEF IInv, Todo, Matching, Ours, Present
        <4> QED
          BY <1>4, <1>6, <3>3, <4>1
      <3> QED
        BY <2>3, <3>1, <3>2, <3>3 DEF IInv, Owed
    <2> QED
      BY <1>4, <2>1, <2>2, <2>3
  <1> QED
    BY <1>1, <1>2, <1>4, <1>5, <1>7 DEF IInv, SetupTypes

LEMMA EnableFailsStep == ASSUME IInv, NEW p \in Elevated, EnableFails(p) PROVE IInv'
  <1>1. /\ Goto(p, "look") /\ UNCHANGED <<kind, bound, setup>>
        /\ broken' = (broken \/ HalfWay(p))
        /\ \/ UNCHANGED nodes
           \/ HalfWay(p) /\ Unstarted(pass[p].node)
    BY DEF EnableFails, nodes
  <1>2. PassTypes' /\ \A q \in Elevated : q # p => pass'[q] = pass[q]
    BY <1>1, GotoStep
  <1>3. Todo' /\ Gone' /\ SetupTypes'
    BY <1>1 DEF IInv, Todo, Gone, Matching, Ours, Present, SetupTypes
  <1>4. NodeTypes' /\ Holders'
    <2>1. CASE UNCHANGED nodes
      BY <2>1, NodesKept DEF IInv
    <2>2. CASE HalfWay(p) /\ Unstarted(pass[p].node)
      <3>1. /\ pass[p].node \in Ours /\ status[pass[p].node] = "disabled" /\ pass[p].node # None
            /\ status' = [status EXCEPT ![pass[p].node] = "problem"] /\ slot' = slot
        BY <2>2, NodeAssumption DEF HalfWay, Unstarted, Ours, Present
      <3>2. \A s \in Side : slot[s] # pass[p].node
        BY <3>1 DEF IInv, Holders
      <3> QED
        BY <1>1, <3>1, <3>2 DEF IInv, NodeTypes, Holders, Ours, Present
    <2> QED
      BY <1>1, <2>1, <2>2
  <1>5. ASSUME NEW t \in Side PROVE Owed(t)'
    <2>1. CASE HalfWay(p)
      <3>1. broken'
        BY <1>1, <2>1
      <3> QED
        BY <3>1 DEF Owed
    <2>2. CASE ~HalfWay(p)
      <3>1. UNCHANGED nodes /\ ~Owes(p, t)
        BY <1>1, <2>2 DEF Owes
      <3> QED
        BY <1>1, <1>2, <3>1, OwedKept
    <2> QED
      BY <2>1, <2>2
  <1>6. broken' \in BOOLEAN
    BY <1>1
  <1> QED
    BY <1>2, <1>3, <1>4, <1>5, <1>6 DEF IInv

LEMMA EnableStep == ASSUME IInv, NEW p \in Elevated, Enable(p) PROVE IInv'
  <1> DEFINE n == pass[p].node
  <1>1. /\ pass[p].pc = "enable" /\ n \in Ours /\ Goto(p, "look")
        /\ UNCHANGED <<kind, bound, setup, broken>>
        /\ IF HalfWay(p) THEN Start(n, FALSE) ELSE UNCHANGED <<status, slot>>
    BY DEF Enable
  <1>2. PassTypes' /\ \A q \in Elevated : q # p => pass'[q] = pass[q]
    BY <1>1, GotoStep
  <1>3. \A t \in Side : Owes(p, t) => HalfWay(p) /\ kind[n] = t /\ n \in bound
    BY DEF Owes
  <1>4. HalfWay(p) => status[n] = "disabled"
    BY DEF HalfWay
  <1> HIDE DEF n
  <1>5. n \in Instance /\ n # None
    BY <1>1, NodeAssumption DEF Ours, Present
  <1>6. Todo' /\ Gone' /\ SetupTypes'
    BY <1>1 DEF IInv, Todo, Gone, Matching, Ours, Present, SetupTypes
  <1>7. CASE ~HalfWay(p)
    <2>1. UNCHANGED nodes
      BY <1>1, <1>7 DEF nodes
    <2>2. NodeTypes' /\ Holders'
      BY <2>1, NodesKept DEF IInv
    <2>3. \A t \in Side : Owed(t)'
      BY <1>1, <1>2, <1>3, <1>7, <2>1, OwedKept
    <2> QED
      BY <1>1, <1>2, <1>6, <2>2, <2>3 DEF IInv
  <1>8. CASE HalfWay(p)
    <2>1. \A s \in Side : slot[s] # n
      BY <1>4, <1>5, <1>8 DEF IInv, Holders
    <2>2. /\ NodeTypes' /\ Holders'
          /\ \A m \in Instance : m # n => status'[m] = status[m]
          /\ \A s \in Side : slot'[s] = None => slot[s] = None /\ (n \in bound => kind[n] # s)
          /\ status'[n] = "started" => n \in bound
      <3>1. CASE n \in bound
        <4>1. Starts(n)
          BY <1>1, <1>8, <3>1 DEF Start
        <4> QED
          BY <1>1, <2>1, <3>1, <4>1, StartsEffect DEF IInv
      <3>2. CASE n \notin bound
        <4>1. status' = [status EXCEPT ![n] = "problem"] /\ slot' = slot
          BY <1>1, <1>8, <3>2 DEF Start, Unstarted
        <4>2. status'[n] = "problem"
          BY <1>5, <4>1 DEF IInv, NodeTypes
        <4>3. NodeTypes' /\ Holders'
          BY <1>1, <1>5, <2>1, <4>1 DEF IInv, NodeTypes, Holders, Ours, Present
        <4> QED
          BY <1>5, <3>2, <4>1, <4>2, <4>3 DEF IInv, NodeTypes
      <3> QED
        BY <3>1, <3>2
    <2>3. ASSUME NEW t \in Side PROVE Owed(t)'
      <3>1. SUFFICES ASSUME slot'[t] = None, NEW m \in Matching(t)', status'[m] = "started"
                     PROVE  \/ broken \/ \E q \in Elevated : Owes(q, t)'
                            \/ setup.op = "remove" /\ setup.side = t
                            \/ setup.op = "start" /\ setup.side = t /\ status'[setup.node] = "stopped"
        BY <1>1 DEF Owed
      <3>2. slot[t] = None /\ (n \in bound => kind[n] # t) /\ m # n
        BY <1>1, <2>2, <3>1 DEF Matching
      <3>3. m \in Matching(t) /\ status[m] = "started"
        BY <1>1, <2>2, <3>1, <3>2 DEF Matching, Ours, Present
      <3>4. \A q \in Elevated : Owes(q, t) => Owes(q, t)'
        <4> SUFFICES ASSUME NEW q \in Elevated, Owes(q, t) PROVE Owes(q, t)'
          OBVIOUS
        <4>1. q # p
          BY <1>3, <3>2
        <4> QED
          BY <1>1, <1>2, <2>2, <3>2, <4>1, OwesKept DEF Ours, Present
      <3>5. setup.op = "start" /\ status[setup.node] = "stopped" => status'[setup.node] = "stopped"
        BY <1>4, <1>8, <2>2 DEF IInv, Todo, Matching, Ours, Present
      <3> QED
        BY <3>2, <3>3, <3>4, <3>5 DEF IInv, Owed
    <2> QED
      BY <1>1, <1>2, <1>6, <2>2, <2>3 DEF IInv
  <1> QED
    BY <1>7, <1>8

LEMMA AppletSteps ==
  ASSUME IInv, TrayStarts \/ Waited \/ TrayExits \/ UNCHANGED vars
  PROVE  IInv'
  <1>1. UNCHANGED <<nodes, setup, pass, broken>>
    BY DEF TrayStarts, Waited, TrayExits, vars
  <1>2. NodeTypes' /\ Holders'
    BY <1>1, NodesKept DEF IInv
  <1>3. \A t \in Side : Owed(t)'
    BY <1>1, OwedKept
  <1> QED
    BY <1>1, <1>2, <1>3
       DEF IInv, nodes, SetupTypes, PassTypes, Todo, Gone, Matching, Ours, Present

LEMMA TaskKillStep == ASSUME IInv, TaskKill PROVE IInv'
  <1>1. /\ UNCHANGED <<nodes, setup>> /\ setup.op \in {"idle", "removed"}
        /\ pass' = [p \in Elevated |-> Off]
        /\ broken' = (broken \/ \E p \in Elevated : HalfWay(p))
    BY DEF TaskKill, AtRest
  <1>2. NodeTypes' /\ Holders' /\ broken' \in BOOLEAN
    BY <1>1, NodesKept DEF IInv
  <1>3. SetupTypes' /\ PassTypes' /\ Todo' /\ Gone'
    BY <1>1 DEF IInv, nodes, SetupTypes, PassTypes, Todo, Gone, Matching, Ours, Present, Off
  <1>4. \A t \in Side, p \in Elevated : Owes(p, t) => broken'
    BY <1>1 DEF Owes
  <1>5. \A t \in Side : Owed(t)'
    BY <1>1, <1>4, OwedKept
  <1> QED
    BY <1>2, <1>3, <1>5 DEF IInv

LEMMA Inductive == IInv /\ [Next]_vars => IInv'
  <1> SUFFICES ASSUME IInv, [Next]_vars PROVE IInv'
    OBVIOUS
  <1>1. CASE Setup
    BY <1>1, RegisterStep, UpdateStopStep, UpdateStartStep, SetupEnds, RemoveNodeStep,
       RemoveEndsStep DEF Setup
  <1>2. CASE Applet \/ UNCHANGED vars
    BY <1>2, AppletSteps, TaskKillStep DEF Applet
  <1>3. ASSUME NEW p \in Elevated, \/ Look(p) \/ Disable(p) \/ DisableFails(p)
                                   \/ Enable(p) \/ EnableFails(p) \/ Reconnect(p)
        PROVE  IInv'
    BY <1>3, LookStep, DisableStep, EnableStep, EnableFailsStep
  <1> QED
    BY <1>1, <1>2, <1>3 DEF Next

-----------------------------------------------------------------------------
\* A started port is connected, or another of its side has the place, unless something
\* failed or is half done, for any number of nodes and of overlapping reconnects
\* (tray.cpp:209-217, setup.cpp:58).
THEOREM NodesPaired == Spec => []Paired
  <1>1. IInv => Paired
    BY DEF IInv, Owed, Owes, Paired
  <1> QED
    BY <1>1, Initial, Inductive, PTL DEF Spec

\* A removal that did not fail leaves no node of its hardware ID (setup.cpp:65-98).
THEOREM NodesGone == Spec => []Gone
  <1>1. IInv => Gone
    BY DEF IInv
  <1> QED
    BY <1>1, Initial, Inductive, PTL DEF Spec

-----------------------------------------------------------------------------
(* What a reconnect without failure and without company has repaired so far *)

\* A node p has passed has started, and its side's place is taken or about to be: by
\* the node p has turned off.
Settled(p, n) == status[n] = "started" /\ (slot[kind[n]] # None \/ Owes(p, kind[n]))

\* The nodes p has passed: those before the index, but for the one it is working on.
InHand(p, n) == pass[p].pc \in {"disable", "enable"} /\ pass[p].node = n

Passed(p, n) ==
  \/ pass[p].pc = "done"
  \/ Rank(n) < pass[p].at /\ ~InHand(p, n)

\* While no other tool works on the nodes, and none of its own steps fails.
Swept(p) ==
  /\ pass[p].at \in Nat
  /\ pass[p].pc = "enable" => HalfWay(p)
  /\ \A n \in Ours \cap bound : Passed(p, n) => Settled(p, n)

AllSwept == clean \subseteq Elevated /\ \A p \in clean : Swept(p)

\* The ranks of the nodes differ, and are less than their number.
LEMMA Ranks ==
  /\ \A n \in Present : Rank(n) \in Nat /\ Rank(n) < Cardinality(Present)
  /\ \A n, m \in Present : Rank(n) = Rank(m) => n = m
  <1>1. IsFiniteSet(Present) /\ Present \subseteq Nat
    BY NodeAssumption, FS_Subset DEF Present
  <1>2. Cardinality(Present) \in Nat
    BY <1>1, FS_CardinalityType
  <1> DEFINE Before(n) == {m \in Present : m < n}
  <1>3. \A n \in Present : IsFiniteSet(Before(n)) /\ Cardinality(Before(n)) \in Nat
    BY <1>1, FS_Subset, FS_CardinalityType
  <1>4. \A n \in Present : Cardinality(Before(n)) < Cardinality(Present)
    <2> TAKE n \in Present
    <2>1. Before(n) \subseteq Present /\ Before(n) # Present
      BY <1>1
    <2>2. Cardinality(Before(n)) <= Cardinality(Present) /\ Cardinality(Before(n)) # Cardinality(Present)
      BY <1>1, <2>1, FS_Subset
    <2> QED
      BY <1>2, <1>3, <2>2
  <1>5. ASSUME NEW n \in Present, NEW m \in Present, n < m
        PROVE  Cardinality(Before(n)) # Cardinality(Before(m))
    <2>1. n \in Before(m) /\ n \notin Before(n) /\ \A k \in Before(n) : k \in Before(m)
      <3>1. n \in Nat /\ m \in Nat /\ \A k \in Present : k \in Nat
        BY <1>1
      <3> QED
        BY <1>5, <3>1
    <2>2. Before(n) # Before(m) /\ Before(n) \in SUBSET Before(m)
      BY <2>1
    <2> QED
      BY <1>3, <2>1, <2>2, FS_Subset
  <1>6. \A n, m \in Present : n < m \/ m < n \/ n = m
    BY <1>1
  <1>7. \A n \in Present : Rank(n) = Cardinality(Before(n))
    BY DEF Rank
  <1> HIDE DEF Before
  <1> QED
    BY <1>3, <1>4, <1>5, <1>6, <1>7

\* Steps of others that leave the nodes alone.
LEMMA SweptKept ==
  ASSUME NEW p, Swept(p), UNCHANGED nodes, pass'[p] = pass[p]
  PROVE  Swept(p)'
  BY DEF Swept, Settled, Passed, InHand, Owes, HalfWay, Ours, Present, Rank, nodes

\* Steps that leave the nodes and the passes alone, or end every clean pass.
LEMMA CleanKept ==
  ASSUME AllSwept, \/ clean' = {}
                   \/ clean' = clean /\ UNCHANGED <<nodes, pass>>
  PROVE  AllSwept'
  BY SweptKept DEF AllSwept

\* The node at the index is taken in hand, or is none of ours.
LEMMA LookSweeps ==
  ASSUME IInv, AllSwept, NEW p \in Elevated, Look(p)
  PROVE  AllSwept'
  <1>1. pass[p].pc = "look" /\ UNCHANGED nodes /\ clean' = clean
    BY DEF Look
  <1>2. /\ \A q \in Elevated : q # p => pass'[q] = pass[q]
        /\ pass'[p] = IF pass[p].at < Cardinality(Present)
                        THEN [pc |-> NextStep(p), at |-> pass[p].at + 1, node |-> KeyAt(pass[p].at)]
                        ELSE [pc |-> "done", at |-> 0, node |-> None]
    BY DEF IInv, PassTypes, Look, Off
  <1>3. /\ Ours' = Ours /\ bound' = bound /\ status' = status /\ slot' = slot /\ kind' = kind
        /\ Present' = Present /\ Ours \subseteq Present /\ \A n \in Present : Rank(n)' = Rank(n)
    BY <1>1 DEF nodes, Ours, Present, Rank
  <1>4. ASSUME p \in clean PROVE Swept(p)'
    <2>1. Swept(p) /\ pass[p].at \in Nat
      BY <1>4 DEF AllSwept, Swept
    <2>2. \A n \in Ours \cap bound : Rank(n) < pass[p].at =>
            status[n] = "started" /\ slot[kind[n]] # None
      BY <1>1, <2>1 DEF Swept, Settled, Passed, InHand, Owes, HalfWay
    <2>3. CASE pass[p].at < Cardinality(Present)
      <3>1. /\ pass'[p].pc = NextStep(p) /\ pass'[p].at = pass[p].at + 1
            /\ pass'[p].node = KeyAt(pass[p].at) /\ NextStep(p) \in {"disable", "look"}
        BY <1>2, <2>3 DEF NextStep
      <3>2. ASSUME NEW n \in Ours \cap bound, Passed(p, n)'
            PROVE  status[n] = "started" /\ slot[kind[n]] # None
        <4>1. Rank(n) < pass[p].at + 1 /\ ~(NextStep(p) = "disable" /\ KeyAt(pass[p].at) = n)
          BY <1>3, <3>1, <3>2 DEF Passed, InHand
        <4>2. ASSUME Rank(n) = pass[p].at PROVE FALSE
          <5>1. KeyAt(pass[p].at) = n
            BY <1>3, <4>2, Ranks DEF KeyAt
          <5>2. NextStep(p) = "disable"
            BY <5>1 DEF NextStep
          <5> QED
            BY <4>1, <5>1, <5>2
        <4>3. Rank(n) \in Nat
          BY <1>3, Ranks
        <4> QED
          BY <2>1, <2>2, <4>1, <4>2, <4>3
      <3>3. pass'[p].at \in Nat /\ pass'[p].pc # "enable"
        BY <2>1, <3>1
      <3> QED
        BY <1>3, <3>2, <3>3 DEF Swept, Settled
    <2>4. CASE ~(pass[p].at < Cardinality(Present))
      <3>1. pass'[p].pc = "done" /\ pass'[p].at = 0
        BY <1>2, <2>4
      <3>2. \A n \in Ours \cap bound : Rank(n) < pass[p].at
        <4> TAKE n \in Ours \cap bound
        <4>1. Rank(n) \in Nat /\ Rank(n) < Cardinality(Present)
          BY <1>3, Ranks
        <4>2. Cardinality(Present) \in Nat
          BY NodeAssumption, FS_Subset, FS_CardinalityType DEF Present
        <4> QED
          BY <2>1, <2>4, <4>1, <4>2
      <3> QED
        BY <1>3, <2>2, <3>1, <3>2 DEF Swept, Settled
    <2> QED
      BY <2>3, <2>4
  <1> QED
    BY <1>1, <1>2, <1>4, SweptKept DEF AllSwept

\* A process that begins has passed none.
LEMMA ReconnectSweeps ==
  ASSUME IInv, AllSwept, NEW p \in Elevated, Reconnect(p)
  PROVE  AllSwept'
  <1>1. UNCHANGED nodes /\ clean' = clean \cup {p}
    BY DEF Reconnect
  <1>2. /\ \A q \in Elevated : q # p => pass'[q] = pass[q]
        /\ pass'[p] = [pc |-> "look", at |-> 0, node |-> None]
    BY DEF IInv, PassTypes, Reconnect, Off
  <1>3. Swept(p)'
    <2>1. \A n \in Present : Rank(n)' = Rank(n) /\ Rank(n) \in Nat
      BY <1>1, Ranks DEF nodes, Rank, Present
    <2>2. \A n \in Ours' : n \in Present
      BY <1>1 DEF nodes, Ours, Present
    <2>3. \A n \in Ours' : ~Passed(p, n)'
      BY <1>2, <2>1, <2>2 DEF Passed
    <2> QED
      BY <1>2, <2>3 DEF Swept
  <1> QED
    BY <1>1, <1>2, <1>3, SweptKept DEF AllSwept

LEMMA DisableFailsSweeps ==
  ASSUME IInv, AllSwept, NEW p \in Elevated, DisableFails(p)
  PROVE  AllSwept'
  <1>1. UNCHANGED nodes /\ clean' = clean \ {p} /\ \A q \in Elevated : q # p => pass'[q] = pass[q]
    BY GotoStep DEF DisableFails
  <1> QED
    BY <1>1, SweptKept DEF AllSwept

\* The node a process turns off, or on, was not among those it has passed.
LEMMA DisableSweeps ==
  ASSUME IInv, AllSwept, NEW p \in Elevated, Disable(p)
  PROVE  AllSwept'
  <1> DEFINE n == pass[p].node
  <1>1. /\ pass[p].pc = "disable" /\ n \in Ours /\ Goes(n, "disabled") /\ Goto(p, "enable")
        /\ UNCHANGED <<kind, bound>> /\ clean' = clean \cap {p}
    BY DEF Disable, AfterDisable
  <1>2. /\ pass'[p].pc = "enable" /\ pass'[p].node = n /\ pass'[p].at = pass[p].at
    BY <1>1 DEF IInv, PassTypes, Goto
  <1>3. /\ Ours' = Ours /\ Ours \subseteq Present /\ Ours \subseteq Instance
        /\ \A m \in Present : Rank(m)' = Rank(m)
    BY <1>1 DEF Ours, Present, Rank
  <1> HIDE DEF n
  <1>4. /\ status'[n] = "disabled" /\ \A m \in Instance : m # n => status'[m] = status[m]
        /\ \A s \in Side : slot'[s] = None => slot[s] = None \/ (slot[s] = n /\ kind[n] = s)
    BY <1>1, <1>3, GoesEffect DEF IInv, NodeTypes
  <1>5. HalfWay(p)'
    BY <1>1, <1>2, <1>3, <1>4 DEF HalfWay
  <1>6. ASSUME p \in clean PROVE Swept(p)'
    <2>1. Swept(p) /\ pass[p].at \in Nat
      BY <1>6 DEF AllSwept, Swept
    <2>2. ASSUME NEW m \in Ours \cap bound, Passed(p, m)' PROVE Settled(p, m)'
      <3>1. m # n /\ Passed(p, m)
        BY <1>1, <1>2, <1>3, <2>2 DEF Passed, InHand, n
      <3>2. status[m] = "started" /\ slot[kind[m]] # None
        BY <1>1, <2>1, <3>1 DEF Swept, Settled, Owes, HalfWay
      <3>3. status'[m] = "started" /\ kind' = kind /\ kind[m] \in Side
        BY <1>1, <1>3, <1>4, <3>1, <3>2 DEF Ours
      <3>4. CASE slot'[kind[m]] # None
        BY <3>3, <3>4 DEF Settled
      <3>5. CASE slot'[kind[m]] = None
        <4>1. slot[kind[m]] = n /\ kind[n] = kind[m]
          BY <1>4, <3>2, <3>3, <3>5
        <4>2. n \in bound
          BY <1>1, <3>2, <3>3, <4>1 DEF IInv, Holders
        <4> QED
          BY <1>1, <1>2, <1>5, <3>3, <4>1, <4>2 DEF Settled, Owes
      <3> QED
        BY <3>4, <3>5
    <2> QED
      BY <1>1, <1>2, <1>3, <1>5, <2>1, <2>2 DEF Swept
  <1> QED
    BY <1>1, <1>6 DEF AllSwept

\* The node turned on joins those it has passed, and takes the place if it is free.
LEMMA EnableSweeps ==
  ASSUME IInv, AllSwept, NEW p \in Elevated, Enable(p)
  PROVE  AllSwept'
  <1> DEFINE n == pass[p].node
  <1>1. /\ pass[p].pc = "enable" /\ n \in Ours /\ Goto(p, "look")
        /\ UNCHANGED <<kind, bound>> /\ clean' = clean \cap {p}
        /\ IF HalfWay(p) THEN Start(n, FALSE) ELSE UNCHANGED <<status, slot>>
    BY DEF Enable
  <1>2. /\ pass'[p].pc = "look" /\ pass'[p].at = pass[p].at
    BY <1>1 DEF IInv, PassTypes, Goto
  <1>3. /\ Ours' = Ours /\ Ours \subseteq Present /\ Ours \subseteq Instance
        /\ \A m \in Present : Rank(m)' = Rank(m)
        /\ \A m \in Ours : kind[m] \in Side
    BY <1>1 DEF Ours, Present, Rank
  <1>4. \A m : InHand(p, m) <=> m = n
    BY <1>1 DEF InHand
  <1>5. \A t : Owes(p, t) => kind[n] = t /\ n \in bound
    BY DEF Owes
  <1>6. HalfWay(p) => status[n] = "disabled"
    BY DEF HalfWay
  <1> HIDE DEF n
  <1>7. ASSUME p \in clean PROVE Swept(p)'
    <2>1. Swept(p) /\ pass[p].at \in Nat /\ HalfWay(p)
      BY <1>1, <1>7 DEF AllSwept, Swept
    <2>2. Start(n, FALSE) /\ status[n] = "disabled"
      BY <1>1, <1>6, <2>1
    <2>3. \A s \in Side : slot[s] # n
      BY <1>3, <1>1, <2>2, NodeAssumption DEF IInv, Holders
    <2>4. ASSUME NEW m \in Ours \cap bound, Passed(p, m)'
          PROVE  status'[m] = "started" /\ slot'[kind[m]] # None
      <3>1. Rank(m) < pass[p].at
        BY <1>2, <1>3, <2>4 DEF Passed
      <3>2. m # n => status[m] = "started" /\ (slot[kind[m]] # None \/ Owes(p, kind[m]))
        BY <1>4, <2>1, <3>1 DEF Passed, Swept, Settled
      <3>3. CASE n \in bound
        <4>1. Starts(n)
          BY <2>2, <3>3 DEF Start
        <4>2. /\ status'[n] = "started" /\ \A k \in Instance : k # n => status'[k] = status[k]
              /\ \A s \in Side : slot'[s] = None => slot[s] = None /\ kind[n] # s
          BY <1>1, <2>3, <3>3, <4>1, StartsEffect DEF IInv
        <4> QED
          BY <1>3, <1>5, <3>2, <4>2
      <3>4. CASE n \notin bound
        <4>1. status' = [status EXCEPT ![n] = "problem"] /\ slot' = slot /\ m # n
          BY <2>2, <3>4 DEF Start, Unstarted
        <4>2. status'[m] = status[m]
          BY <4>1 DEF IInv, NodeTypes
        <4> QED
          BY <1>5, <3>2, <3>4, <4>1, <4>2
      <3> QED
        BY <3>3, <3>4
    <2> QED
      BY <1>1, <1>2, <1>3, <2>1, <2>4 DEF Swept, Settled
  <1> QED
    BY <1>1, <1>7 DEF AllSwept

LEMMA SweptInit == Init => AllSwept
  BY DEF Init, AllSwept

LEMMA SweptStep == IInv /\ AllSwept /\ [Next]_vars => AllSwept'
  <1> SUFFICES ASSUME IInv, AllSwept, [Next]_vars PROVE AllSwept'
    OBVIOUS
  <1>1. CASE Setup
    BY <1>1, CleanKept DEF Setup, Register, UpdateStop, UpdateStart, UpdateEnds,
                           RemoveBegins, RemoveNode, RemoveEnds
  <1>2. CASE Applet \/ UNCHANGED vars
    BY <1>2, CleanKept DEF Applet, TrayStarts, Waited, TrayExits, TaskKill, vars
  <1>3. ASSUME NEW p \in Elevated, EnableFails(p) PROVE AllSwept'
    BY <1>3, CleanKept DEF EnableFails
  <1>4. ASSUME NEW p \in Elevated, \/ Look(p) \/ Disable(p) \/ DisableFails(p)
                                   \/ Enable(p) \/ EnableFails(p) \/ Reconnect(p)
        PROVE  AllSwept'
    BY <1>3, <1>4, LookSweeps, DisableSweeps, DisableFailsSweeps, EnableSweeps, ReconnectSweeps
  <1> QED
    BY <1>1, <1>2, <1>4 DEF Next

\* A reconnect without failure and without company repairs what earlier failures and
\* kills have left, on every node that has its driver (tray.cpp:219-240).
THEOREM NodesRepaired == Spec => []Repaired
  <1>1. IInv /\ AllSwept => Repaired
    <2> SUFFICES ASSUME IInv, AllSwept, NEW p \in clean, pass[p].pc = "done",
                        NEW n \in Ours \cap bound
                 PROVE  /\ status[n] = "started" /\ slot[kind[n]] # None
                        /\ kind[slot[kind[n]]] = kind[n]
                        /\ status[slot[kind[n]]] = "started"
      BY DEF Repaired
    <2>1. status[n] = "started" /\ slot[kind[n]] # None
      BY DEF AllSwept, Swept, Passed, Settled, Owes, HalfWay
    <2>2. kind[n] \in Side
      BY DEF Ours
    <2> QED
      BY <2>1, <2>2 DEF IInv, Holders
  <1> QED
    BY <1>1, Initial, Inductive, SweptInit, SweptStep, PTL DEF Spec
=============================================================================
