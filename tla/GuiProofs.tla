------------------------------- MODULE GuiProofs -------------------------------
(***************************************************************************)
(* Proofs, for every value of the bounds, about Gui: its types, and that a *)
(* tunnel can be commanded as long as no two vpn_connects overlap.         *)
(***************************************************************************)
EXTENDS Gui, TLAPS

USE PlatformsAssumption, BoundsAssumption

(* A tunnel is that of a helper serving a connection made to it. *)
Served ==
    \A h \in Helpers :
        /\ tunnel[h] # "off" => helper[h] = "serving"
        /\ helper[h] = "serving" => serving[h] \in Connects /\ peer[serving[h]] = h

(* Where a vpn_connect is says which writer it holds; every writer is that of a
   connection that was made, and a connection is made once.  The writer that is
   dropped with the stale reader is one whose helper is gone. *)
Holds(c) ==
    /\ pc[c] \in {"reuse", "putback", "abort"} => held[c] # 0
    /\ pc[c] \in {"send", "reader", "store"} => held[c] = c
    /\ pc[c] \in {"unborn", "take", "open", "prompt", "poll", "failed", "done"} => held[c] = 0
    /\ held[c] # 0 => peer[held[c]] # 0
    /\ peer[c] # 0 => pc[c] \in {"send", "reader", "store", "failed", "done"}
    /\ pc[c] = "abort" => ~Alive(held[c])
Holding == (\A c \in Connects : Holds(c)) /\ (writer # 0 => peer[writer] # 0)

(* Without overlap the vpn_connect under way has taken the writer, and no writer
   of a connection whose helper is there is ever lost. *)
Alone ==
    app /\ ~overlapped =>
        /\ \A c, d \in InFlight : c = d
        /\ \A c \in InFlight : pc[c] # "take" => writer = 0
        /\ \A k \in Connects : Alive(k) => writer = k \/ \E c \in Connects : held[c] = k

GuiInv == TypeOK /\ Served /\ Holding /\ Alone

-------------------------------------------------------------------------------
(* The types, a part at a time. *)
TypedUi ==
    /\ platform \in Platforms
    /\ app \in BOOLEAN /\ pending \in BOOLEAN /\ overlapped \in BOOLEAN
    /\ raw \in WireState \cup {"null"} /\ status \in WireState
TypedCommands ==
    /\ writer \in 0 .. MaxConnects /\ reader \in 0 .. MaxConnects
    /\ pc \in [Connects -> ConnectSteps] /\ held \in [Connects -> 0 .. MaxConnects]
    /\ task \in [Connects -> {"none", "reading", "ended", "aborted"}]
    /\ peer \in [Connects -> 0 .. MaxHelpers]
TypedLines == lines \in [Connects -> Seq(ClientCommand)]
TypedMessages == msgs \in [Connects -> Seq(ClientMessage)]
TypedHelpers ==
    /\ path \in 0 .. MaxHelpers
    /\ helper \in [Helpers -> {"unborn", "starting", "listening", "serving", "gone"}]
    /\ serving \in [Helpers -> 0 .. MaxConnects]
    /\ tunnel \in [Helpers -> {"off", "starting"} \cup (WireState \ {"Disconnected"})]

LEMMA TypeParts ==
    TypeOK <=> TypedUi /\ TypedCommands /\ TypedLines /\ TypedMessages /\ TypedHelpers
BY DEF TypeOK, TypedUi, TypedCommands, TypedLines, TypedMessages, TypedHelpers

LEMMA Numbers ==
    /\ MaxConnects \in Nat /\ MaxHelpers \in Nat
    /\ \A c \in Connects : c \in 0 .. MaxConnects /\ c # 0
    /\ \A c \in 0 .. MaxConnects : c # 0 => c \in Connects
    /\ \A h \in Helpers : h \in 0 .. MaxHelpers /\ h # 0
    /\ \A h \in 0 .. MaxHelpers : h # 0 => h \in Helpers
BY DEF Connects, Helpers

(* The actions, without the existential quantifiers around them. *)
ConnectStep(c) == VpnConnect(c) \/ Reader(c)
HelperStep(h) == HelperBinds(h) \/ Serves(h) \/ HelperDies(h) \/ TunnelProgresses(h)

LEMMA NextCases ==
    ASSUME [Next]_vars
    PROVE  \/ User \/ UNCHANGED vars
           \/ \E c \in Connects : ConnectStep(c)
           \/ \E h \in Helpers : HelperStep(h)
BY DEF Next, Finished, ConnectStep, HelperStep

(* A message that is read is one of those that are sent. *)
LEMMA MessageRead ==
    ASSUME TypeOK, NEW c \in Connects, ReadMessage(c)
    PROVE  LET m == Head(msgs[c]) IN
           /\ m \in ClientMessage
           /\ \/ m \in WireState /\ Show(m) /\ UNCHANGED task
              \/ m = "Error" /\ UNCHANGED <<raw, pending, task>>
              \/ m = "Bye" /\ Show("Disconnected") /\ task' = [task EXCEPT ![c] = "ended"]
<1> DEFINE m == Head(msgs[c])
<1>1. m \in ClientMessage
  BY DEF TypeOK, ReadMessage
<1>2. (CASE m \in WireState -> Show(m) /\ UNCHANGED task
         [] m = "Error" -> UNCHANGED <<raw, pending, task>>
         [] m = "Bye" -> Show("Disconnected") /\ task' = [task EXCEPT ![c] = "ended"])
  BY DEF ReadMessage
<1> HIDE DEF m
<1>3. m \in WireState \/ m = "Error" \/ m = "Bye"
  BY <1>1 DEF ClientMessage
<1>4. "Error" \notin WireState /\ "Bye" \notin WireState
  BY DEF WireState
<1> QED
  BY <1>1, <1>2, <1>3, <1>4 DEF m

LEMMA TypedUiStep ==
    ASSUME TypeOK, [Next]_vars
    PROVE  TypedUi'
<1> USE DEF uiVars, stateVars, commandVars, connVars, helperVars
<1>0. TypedUi
  BY TypeParts
<1>1. ASSUME UNCHANGED <<platform, app, raw, pending, status, overlapped>> PROVE TypedUi'
  BY <1>0, <1>1 DEF TypedUi
<1>a. ASSUME NEW s \in WireState, Show(s) PROVE raw' \in WireState /\ pending' \in BOOLEAN
  BY <1>a DEF Show
<1>2. CASE User
  <2>1. CASE ClickConnect
    <3>1. overlapped' \in BOOLEAN
      BY <2>1 DEF ClickConnect
    <3> QED
      BY <1>0, <2>1, <3>1 DEF ClickConnect, TypedUi
  <2>2. CASE ClickDisconnect \/ TrayDisconnect \/ Quit
    BY <1>0, <2>2 DEF ClickDisconnect, TrayDisconnect, Quit, TypedUi
  <2> QED
    BY <1>2, <2>1, <2>2 DEF User
<1>3. ASSUME NEW c \in Connects, VpnConnect(c) PROVE TypedUi'
  <2>1. CASE ConnectFailed(c)
    BY <1>0, <2>1 DEF ConnectFailed, TypedUi
  <2>2. CASE ~ConnectFailed(c)
    BY <1>1, <1>3, <2>2 DEF VpnConnect, TakeWriter, Reuse, PutBack, AbortReader, Open, Prompt, Poll,
       SendConnect, StartReader, Store
  <2> QED
    BY <2>1, <2>2
<1>4. ASSUME NEW c \in Connects, Reader(c) PROVE TypedUi'
  <2>0. "Disconnected" \in WireState
    BY DEF WireState
  <2>1. CASE ReadMessage(c)
    <3>1. status' \in WireState /\ UNCHANGED <<platform, app, overlapped>>
      BY <2>0, <2>1 DEF ReadMessage, StatusAfter
    <3>2. raw' \in WireState \cup {"null"} /\ pending' \in BOOLEAN
      BY <1>0, <1>a, <2>0, <2>1, MessageRead DEF TypedUi
    <3> QED
      BY <1>0, <3>1, <3>2 DEF TypedUi
  <2>2. CASE ReadEnds(c)
    BY <1>0, <1>a, <2>0, <2>2 DEF ReadEnds, TypedUi
  <2> QED
    BY <1>4, <2>1, <2>2 DEF Reader
<1>5. ASSUME NEW h \in Helpers, HelperStep(h) PROVE TypedUi'
  BY <1>1, <1>5 DEF HelperStep, HelperBinds, Serves, HelperAccepts, StopsTunnel, Obeys,
     Consumes, Refuses, HelperExits, HelperDies, TunnelProgresses, TunnelMoves
<1>6. CASE UNCHANGED vars
  BY <1>1, <1>6 DEF vars
<1> QED
  BY <1>2, <1>3, <1>4, <1>5, <1>6, NextCases DEF ConnectStep

LEMMA TypedCommandsStep ==
    ASSUME TypeOK, [Next]_vars
    PROVE  TypedCommands'
<1> USE DEF uiVars, stateVars, commandVars, connVars, helperVars
<1>0. TypedCommands /\ path \in 0 .. MaxHelpers
  BY TypeParts DEF TypedHelpers
<1>1. ASSUME UNCHANGED <<stateVars, pc, held, task, peer>> \/ UNCHANGED <<writer, reader, pc, held, task, peer>>
      PROVE  TypedCommands'
  BY <1>0, <1>1 DEF TypedCommands
<1>2. CASE User
  <2>1. CASE ClickConnect
    <3>1. pc' \in [Connects -> ConnectSteps]
      BY <1>0, <2>1 DEF ClickConnect, Goto, TypedCommands, ConnectSteps
    <3> QED
      BY <1>0, <2>1, <3>1 DEF ClickConnect, TypedCommands
  <2>2. CASE ClickDisconnect
    BY <1>0, <2>2, Numbers DEF ClickDisconnect, TypedCommands
  <2>3. CASE TrayDisconnect
    BY <1>1, <2>3 DEF TrayDisconnect
  <2>4. CASE Quit
    BY <1>0, <2>4, Numbers DEF Quit, TypedCommands, ConnectSteps
  <2> QED
    BY <1>2, <2>1, <2>2, <2>3, <2>4 DEF User
<1>3. ASSUME NEW c \in Connects, VpnConnect(c) PROVE TypedCommands'
  <2>0. /\ \A s \in ConnectSteps : Goto(c, s) => pc' \in [Connects -> ConnectSteps]
        /\ 0 \in 0 .. MaxConnects /\ c \in 0 .. MaxConnects
    BY <1>0, Numbers DEF Goto, TypedCommands
  <2>1. pc' \in [Connects -> ConnectSteps]
    BY <1>3, <2>0 DEF VpnConnect, TakeWriter, Reuse, PutBack, AbortReader, Open, Prompt, Poll,
       SendConnect, StartReader, Store, ConnectFailed, Connected, SpawnHelper, ConnectSteps
  <2>2. held' \in [Connects -> 0 .. MaxConnects]
    BY <1>0, <1>3, <2>0 DEF VpnConnect, TakeWriter, Reuse, PutBack, AbortReader, Open, Prompt, Poll,
       SendConnect, StartReader, Store, ConnectFailed, Connected, Reusable, TypedCommands
  <2>3. writer' \in 0 .. MaxConnects /\ reader' \in 0 .. MaxConnects
    BY <1>0, <1>3, <2>0 DEF VpnConnect, TakeWriter, Reuse, PutBack, AbortReader, Open, Prompt, Poll,
       SendConnect, StartReader, Store, ConnectFailed, TypedCommands
  <2>4. task' \in [Connects -> {"none", "reading", "ended", "aborted"}]
    BY <1>0, <1>3, <2>0 DEF VpnConnect, TakeWriter, Reuse, PutBack, AbortReader, Open, Prompt, Poll,
       SendConnect, StartReader, Store, ConnectFailed, TypedCommands
  <2>5. peer' \in [Connects -> 0 .. MaxHelpers]
    BY <1>0, <1>3, <2>0 DEF VpnConnect, TakeWriter, Reuse, PutBack, AbortReader, Open, Prompt, Poll,
       SendConnect, StartReader, Store, ConnectFailed, Connected, TypedCommands
  <2> QED
    BY <2>1, <2>2, <2>3, <2>4, <2>5 DEF TypedCommands
<1>4. ASSUME NEW c \in Connects, Reader(c) PROVE TypedCommands'
  <2>1. UNCHANGED <<writer, reader, pc, held, peer>>
    BY <1>4 DEF Reader, ReadMessage, ReadEnds
  <2>2. UNCHANGED task \/ task' = [task EXCEPT ![c] = "ended"]
    BY <1>4, MessageRead DEF Reader, ReadEnds
  <2> QED
    BY <1>0, <2>1, <2>2 DEF TypedCommands
<1>5. ASSUME NEW h \in Helpers, HelperStep(h) PROVE TypedCommands'
  BY <1>1, <1>5 DEF HelperStep, HelperBinds, Serves, HelperAccepts, StopsTunnel, Obeys,
     Consumes, Refuses, HelperExits, HelperDies, TunnelProgresses, TunnelMoves
<1>6. CASE UNCHANGED vars
  BY <1>1, <1>6 DEF vars
<1> QED
  BY <1>2, <1>3, <1>4, <1>5, <1>6, NextCases DEF ConnectStep

LEMMA TypedLinesStep ==
    ASSUME TypeOK, Served, [Next]_vars
    PROVE  TypedLines'
<1> USE DEF uiVars, stateVars, commandVars, connVars, helperVars
<1>0. TypedLines /\ TypedCommands
  BY TypeParts
<1>1. CASE UNCHANGED lines
  BY <1>0, <1>1 DEF TypedLines
<1>2. ASSUME NEW c, NEW m \in ClientCommand, lines' = Written(c, m) PROVE TypedLines'
  <2>1. CASE c \in Connects
    BY <1>0, <1>2, <2>1 DEF Written, TypedLines
  <2>2. CASE c \notin Connects
    BY <1>0, <1>2, <2>2 DEF Written, TypedLines
  <2> QED
    BY <2>1, <2>2
<1>3. CASE User
  BY <1>1, <1>2, <1>3 DEF User, ClickConnect, ClickDisconnect, TrayDisconnect, Quit, ClientCommand
<1>4. ASSUME NEW c \in Connects, ConnectStep(c) PROVE TypedLines'
  <2>1. UNCHANGED lines \/ \E d : lines' = Written(d, "Connect")
    BY <1>4 DEF ConnectStep, VpnConnect, TakeWriter, Reuse, PutBack, AbortReader, Open, Prompt, Poll,
       SendConnect, StartReader, Store, ConnectFailed, Reader, ReadMessage, ReadEnds
  <2> QED
    BY <1>1, <1>2, <2>1 DEF ClientCommand
<1>5. ASSUME NEW h \in Helpers, HelperStep(h) PROVE TypedLines'
  <2>1. CASE UNCHANGED lines
    BY <1>1, <2>1
  <2>2. ASSUME NEW cmd, Consumes(h, cmd) PROVE TypedLines'
    <3>1. /\ lines[serving[h]] # <<>> /\ lines' = [lines EXCEPT ![serving[h]] = Tail(@)]
          /\ serving[h] \in Connects
      BY <2>2 DEF Consumes, Serving, Served
    <3>2. lines[serving[h]] \in Seq(ClientCommand)
      BY <1>0, <3>1 DEF TypedLines
    <3>3. Tail(lines[serving[h]]) \in Seq(ClientCommand)
      BY <3>1, <3>2
    <3> QED
      BY <1>0, <3>1, <3>3 DEF TypedLines
  <2>3. UNCHANGED lines \/ \E cmd : Consumes(h, cmd)
    BY <1>5 DEF HelperStep, HelperBinds, Serves, HelperAccepts, StopsTunnel, Obeys,
       Refuses, HelperExits, HelperDies, TunnelProgresses, TunnelMoves
  <2> QED
    BY <2>1, <2>2, <2>3
<1>6. CASE UNCHANGED vars
  BY <1>1, <1>6 DEF vars
<1> QED
  BY <1>3, <1>4, <1>5, <1>6, NextCases

LEMMA TypedMessagesStep ==
    ASSUME TypeOK, Served, [Next]_vars
    PROVE  TypedMessages'
<1> USE DEF uiVars, stateVars, commandVars, connVars, helperVars
<1>0. TypedMessages
  BY TypeParts
<1>1. CASE UNCHANGED msgs
  BY <1>0, <1>1 DEF TypedMessages
<1>2. CASE User
  BY <1>1, <1>2 DEF User, ClickConnect, ClickDisconnect, TrayDisconnect, Quit
<1>3. ASSUME NEW c \in Connects, ConnectStep(c) PROVE TypedMessages'
  <2>1. UNCHANGED msgs \/ (msgs[c] # <<>> /\ msgs' = [msgs EXCEPT ![c] = Tail(@)])
    BY <1>3 DEF ConnectStep, VpnConnect, TakeWriter, Reuse, PutBack, AbortReader, Open, Prompt, Poll,
       SendConnect, StartReader, Store, ConnectFailed, Reader, ReadMessage, ReadEnds
  <2>2. msgs[c] # <<>> => Tail(msgs[c]) \in Seq(ClientMessage)
    BY <1>0 DEF TypedMessages
  <2> QED
    BY <1>0, <1>1, <2>1, <2>2 DEF TypedMessages
<1>4. ASSUME NEW h \in Helpers, HelperStep(h) PROVE TypedMessages'
  <2>1. ASSUME NEW m \in ClientMessage, Serving(h),
               msgs' = [msgs EXCEPT ![serving[h]] = Append(@, m)]
        PROVE  TypedMessages'
    <3>1. serving[h] \in Connects
      BY <2>1 DEF Serving, Served
    <3>2. Append(msgs[serving[h]], m) \in Seq(ClientMessage)
      BY <1>0, <3>1 DEF TypedMessages
    <3> QED
      BY <1>0, <2>1, <3>1, <3>2 DEF TypedMessages
  <2>2. \/ UNCHANGED msgs
        \/ /\ Serving(h)
           /\ \E m \in {"Connecting", "Established", "Reconnecting", "Disconnected", "Error", "Bye"} :
                 msgs' = [msgs EXCEPT ![serving[h]] = Append(@, m)]
    BY <1>4 DEF HelperStep, HelperBinds, Serves, HelperAccepts, StopsTunnel, Obeys, Consumes,
       Refuses, HelperExits, HelperDies, TunnelProgresses, TunnelMoves, Tells
  <2> QED
    BY <1>1, <2>1, <2>2 DEF ClientMessage, WireState
<1>5. CASE UNCHANGED vars
  BY <1>1, <1>5 DEF vars
<1> QED
  BY <1>2, <1>3, <1>4, <1>5, NextCases

(* What the steps of the interface and those of the helpers do to the helpers. *)
LEMMA HelpersUnderInterface ==
    ASSUME TypeOK, User \/ \E c \in Connects : ConnectStep(c)
    PROVE  /\ UNCHANGED <<path, serving, tunnel>>
           /\ \/ UNCHANGED helper
              \/ \E h \in Helpers : helper[h] = "unborn" /\ helper' = [helper EXCEPT ![h] = "starting"]
<1> USE DEF uiVars, stateVars, commandVars, connVars, helperVars
<1>1. CASE User
  BY <1>1 DEF User, ClickConnect, ClickDisconnect, TrayDisconnect, Quit
<1>2. ASSUME NEW c \in Connects, ConnectStep(c)
      PROVE  /\ UNCHANGED <<path, serving, tunnel>>
             /\ \/ UNCHANGED helper
                \/ \E h \in Helpers :
                      helper[h] = "unborn" /\ helper' = [helper EXCEPT ![h] = "starting"]
  BY <1>2 DEF ConnectStep, VpnConnect, TakeWriter, Reuse, PutBack, AbortReader, Open, Prompt, Poll,
     SendConnect, StartReader, Store, ConnectFailed, Reader, ReadMessage, ReadEnds,
     Connected, SpawnHelper
<1> QED
  BY <1>1, <1>2

LEMMA TypedHelpersStep ==
    ASSUME TypeOK, [Next]_vars
    PROVE  TypedHelpers'
<1> USE DEF uiVars, stateVars, commandVars, connVars, helperVars
<1>0. TypedHelpers
  BY TypeParts
<1>1. CASE User \/ \E c \in Connects : ConnectStep(c)
  BY <1>0, <1>1, HelpersUnderInterface DEF TypedHelpers
<1>2. ASSUME NEW h \in Helpers, HelperStep(h) PROVE TypedHelpers'
  <2>1. path' \in 0 .. MaxHelpers
    BY <1>0, <1>2, Numbers DEF HelperStep, HelperBinds, Serves, HelperAccepts, StopsTunnel,
       Obeys, Consumes, Refuses, HelperExits, HelperDies, TunnelProgresses, TunnelMoves, TypedHelpers
  <2>2. helper' \in [Helpers -> {"unborn", "starting", "listening", "serving", "gone"}]
    BY <1>0, <1>2 DEF HelperStep, HelperBinds, Serves, HelperAccepts, StopsTunnel,
       Obeys, Consumes, Refuses, HelperExits, HelperDies, TunnelProgresses, TunnelMoves, TypedHelpers
  <2>3. serving' \in [Helpers -> 0 .. MaxConnects]
    BY <1>0, <1>2, Numbers DEF HelperStep, HelperBinds, Serves, HelperAccepts, StopsTunnel,
       Obeys, Consumes, Refuses, HelperExits, HelperDies, TunnelProgresses, TunnelMoves, TypedHelpers
  <2>4. tunnel' \in [Helpers -> {"off", "starting"} \cup (WireState \ {"Disconnected"})]
    BY <1>0, <1>2 DEF HelperStep, HelperBinds, Serves, HelperAccepts, StopsTunnel,
       Obeys, Consumes, Refuses, HelperExits, HelperDies, TunnelProgresses, TunnelMoves,
       TypedHelpers, WireState
  <2> QED
    BY <2>1, <2>2, <2>3, <2>4 DEF TypedHelpers
<1>3. CASE UNCHANGED vars
  BY <1>0, <1>3 DEF vars, TypedHelpers
<1> QED
  BY <1>1, <1>2, <1>3, NextCases

-------------------------------------------------------------------------------
(* A connection is made once, to the helper that listens. *)
LEMMA PeerStep ==
    ASSUME TypeOK, Holding, [Next]_vars
    PROVE  \/ UNCHANGED peer
           \/ \E c \in Connects :
                 /\ (Open(c) \/ Poll(c)) /\ Connected(c) /\ peer[c] = 0 /\ path # 0
                 /\ peer' = [peer EXCEPT ![c] = path]
<1> USE DEF uiVars, stateVars, commandVars, connVars, helperVars
<1>1. CASE User \/ UNCHANGED vars
  BY <1>1 DEF User, ClickConnect, ClickDisconnect, TrayDisconnect, Quit, vars
<1>2. ASSUME NEW c \in Connects, ConnectStep(c), ~UNCHANGED peer
      PROVE  /\ (Open(c) \/ Poll(c)) /\ Connected(c) /\ peer[c] = 0 /\ path # 0
             /\ peer' = [peer EXCEPT ![c] = path]
  <2>1. (Open(c) \/ Poll(c)) /\ Connected(c)
    BY <1>2 DEF ConnectStep, VpnConnect, TakeWriter, Reuse, PutBack, AbortReader, Open, Prompt, Poll,
       SendConnect, StartReader, Store, ConnectFailed, Reader, ReadMessage, ReadEnds
  <2>2. pc[c] \in {"open", "poll"}
    BY <2>1 DEF Open, Poll
  <2> QED
    BY <2>1, <2>2 DEF Connected, Bound, Holding, Holds
<1>3. ASSUME NEW h \in Helpers, HelperStep(h) PROVE UNCHANGED peer
  BY <1>3 DEF HelperStep, HelperBinds, Serves, HelperAccepts, StopsTunnel,
     Obeys, Consumes, Refuses, HelperExits, HelperDies, TunnelProgresses, TunnelMoves
<1> QED
  BY <1>1, <1>2, <1>3, NextCases

LEMMA MadeOnce ==
    ASSUME TypeOK, Holding, [Next]_vars, NEW k \in Connects, peer[k] # 0
    PROVE  peer'[k] = peer[k]
BY PeerStep DEF TypeOK

LEMMA ServedStep ==
    ASSUME TypeOK, Holding, Served, [Next]_vars
    PROVE  Served'
<1> USE DEF uiVars, stateVars, commandVars, connVars, helperVars
<1>0. TypedHelpers /\ TypedCommands
  BY TypeParts
<1>1. ASSUME NEW h \in Helpers, helper'[h] = "serving" => helper[h] = "serving",
             serving'[h] = serving[h],
             tunnel'[h] # "off" => helper'[h] = "serving"
      PROVE  /\ tunnel'[h] # "off" => helper'[h] = "serving"
             /\ helper'[h] = "serving" => serving'[h] \in Connects /\ peer'[serving'[h]] = h
  BY <1>1, MadeOnce, Numbers DEF Served
<1>2. CASE User \/ \E c \in Connects : ConnectStep(c)
  <2>1. ASSUME NEW h \in Helpers
        PROVE  /\ helper'[h] = helper[h] \/ (helper[h] = "unborn" /\ helper'[h] = "starting")
               /\ serving'[h] = serving[h] /\ tunnel'[h] = tunnel[h]
    BY <1>0, <1>2, HelpersUnderInterface DEF TypedHelpers
  <2> QED
    BY <1>1, <2>1 DEF Served
<1>3. ASSUME NEW g \in Helpers, HelperStep(g) PROVE Served'
  <2>1. CASE HelperAccepts(g)
    <3>1. PICK c \in Connects : peer[c] = g /\ serving' = [serving EXCEPT ![g] = c]
      BY <2>1 DEF HelperAccepts
    <3>2. helper' = [helper EXCEPT ![g] = "serving"] /\ UNCHANGED <<peer, tunnel>>
      BY <2>1 DEF HelperAccepts
    <3> QED
      BY <1>0, <3>1, <3>2 DEF Served, TypedHelpers
  <2>2. CASE HelperBinds(g)
    BY <1>0, <2>2 DEF HelperBinds, Served, TypedHelpers
  <2>3. CASE HelperExits(g) \/ HelperDies(g)
    BY <1>0, <2>3 DEF HelperExits, HelperDies, Served, TypedHelpers
  <2>4. CASE StopsTunnel(g) \/ Obeys(g) \/ Refuses(g) \/ TunnelProgresses(g)
    <3>1. Serving(g) /\ UNCHANGED <<helper, serving, peer>>
      BY <2>4 DEF StopsTunnel, Obeys, Refuses, Consumes, TunnelProgresses, TunnelMoves
    <3>2. \A h \in Helpers : h # g => tunnel'[h] = tunnel[h]
      BY <1>0, <2>4 DEF StopsTunnel, Obeys, Refuses, Consumes, TunnelProgresses, TunnelMoves,
         TypedHelpers
    <3> QED
      BY <3>1, <3>2 DEF Served, Serving
  <2> QED
    BY <1>3, <2>1, <2>2, <2>3, <2>4 DEF HelperStep, Serves
<1>4. CASE UNCHANGED vars
  BY <1>4 DEF vars, Served
<1> QED
  BY <1>2, <1>3, <1>4, NextCases

(* Alive(c) after the step, for a connection named before it. *)
AliveAfter(c) == peer'[c] # 0 /\ helper'[peer'[c]] # "gone"

LEMMA DeadStaysDead ==
    ASSUME TypeOK, Holding, [Next]_vars, NEW k \in Connects, peer[k] # 0, ~Alive(k)
    PROVE  ~AliveAfter(k)
<1> USE DEF uiVars, stateVars, commandVars, connVars, helperVars
<1>0. TypedHelpers /\ peer[k] \in Helpers /\ peer'[k] = peer[k]
  BY TypeParts, MadeOnce, Numbers DEF TypedCommands
<1>1. helper[peer[k]] = "gone"
  BY DEF Alive
<1>2. CASE User \/ \E c \in Connects : ConnectStep(c)
  BY <1>0, <1>1, <1>2, HelpersUnderInterface DEF TypedHelpers, AliveAfter
<1>3. ASSUME NEW h \in Helpers, HelperStep(h) PROVE ~AliveAfter(k)
  <2>1. UNCHANGED helper \/ helper' = [helper EXCEPT ![h] = "gone"]
        \/ (helper[h] # "gone" /\ \E s : helper' = [helper EXCEPT ![h] = s])
    BY <1>3 DEF HelperStep, HelperBinds, Serves, HelperAccepts, StopsTunnel, Serving,
       Obeys, Consumes, Refuses, HelperExits, HelperDies, TunnelProgresses, TunnelMoves
  <2> QED
    BY <1>0, <1>1, <2>1 DEF TypedHelpers, AliveAfter
<1>4. CASE UNCHANGED vars
  BY <1>0, <1>1, <1>4 DEF vars, AliveAfter
<1> QED
  BY <1>2, <1>3, <1>4, NextCases

LEMMA HoldingStep ==
    ASSUME TypeOK, Holding, [Next]_vars
    PROVE  Holding'
<1> USE DEF uiVars, stateVars, commandVars, connVars, helperVars
<1>0. TypedCommands /\ \A k \in Connects : peer[k] # 0 => peer'[k] # 0
  BY TypeParts, MadeOnce
<1>1. ASSUME NEW d \in Connects, pc'[d] = pc[d], held'[d] = held[d], peer'[d] = peer[d]
      PROVE  Holds(d)'
  <2>1. Holds(d) /\ (held[d] # 0 => held[d] \in Connects)
    BY <1>0, Numbers DEF Holding, TypedCommands
  <2>2. held[d] # 0 => peer'[held[d]] # 0
    BY <1>0, <2>1 DEF Holds
  <2>3. pc[d] = "abort" => ~AliveAfter(held[d])
    BY <2>1, DeadStaysDead DEF Holds
  <2> QED
    BY <1>1, <2>1, <2>2, <2>3 DEF Holds, Alive, AliveAfter
<1>2. ASSUME writer' = writer \/ writer' = 0 PROVE writer' # 0 => peer'[writer'] # 0
  BY <1>0, <1>2, Numbers DEF Holding, TypedCommands
<1>3. CASE UNCHANGED <<pc, held, peer>> /\ (writer' = writer \/ writer' = 0)
  BY <1>1, <1>2, <1>3 DEF Holding
<1>4. CASE User
  <2>1. CASE ClickConnect
    <3>1. PICK c \in Connects : pc[c] = "unborn" /\ pc' = [pc EXCEPT ![c] = "take"]
      BY <2>1 DEF ClickConnect, Goto
    <3>2. UNCHANGED <<held, peer, writer>>
      BY <2>1 DEF ClickConnect
    <3>3. Holds(c)'
      BY <1>0, <3>1, <3>2 DEF Holding, Holds, TypedCommands
    <3>4. ASSUME NEW d \in Connects, d # c PROVE Holds(d)'
      BY <1>0, <1>1, <3>1, <3>2, <3>4 DEF TypedCommands
    <3> QED
      BY <1>2, <3>2, <3>3, <3>4 DEF Holding
  <2>2. CASE ClickDisconnect \/ TrayDisconnect
    BY <1>3, <2>2 DEF ClickDisconnect, TrayDisconnect
  <2>3. CASE Quit
    <3>1. writer' = 0 /\ \A d \in Connects : pc'[d] = "done" /\ held'[d] = 0
      BY <2>3 DEF Quit
    <3> QED
      BY <3>1 DEF Holding, Holds
  <2> QED
    BY <1>4, <2>1, <2>2, <2>3 DEF User
<1>5. ASSUME NEW c \in Connects, VpnConnect(c) PROVE Holding'
  <2>a. Holds(c) /\ held[c] \in 0 .. MaxConnects /\ c \in 0 .. MaxConnects /\ c # 0
    BY <1>0, Numbers DEF Holding, TypedCommands
  <2>b. \A d \in Connects : d # c =>
           pc'[d] = pc[d] /\ held'[d] = held[d] /\ peer'[d] = peer[d]
    BY <1>0, <1>5 DEF VpnConnect, TakeWriter, Reuse, PutBack, AbortReader, Open, Prompt, Poll,
       SendConnect, StartReader, Store, ConnectFailed, Connected, SpawnHelper, Goto, TypedCommands
  <2>c. ASSUME Holds(c)', writer' # 0 => peer'[writer'] # 0 PROVE Holding'
    BY <1>1, <2>b, <2>c DEF Holding
  <2>1. CASE TakeWriter(c)
    <3>1. /\ pc[c] = "take" /\ held'[c] = writer /\ writer' = 0 /\ UNCHANGED peer
          /\ pc'[c] = IF writer # 0 THEN "reuse" ELSE "open"
      BY <1>0, <2>1 DEF TakeWriter, Reusable, Goto, TypedCommands
    <3> QED
      BY <2>a, <2>c, <3>1 DEF Holds, Holding
  <2>2. CASE Reuse(c)
    <3>1. /\ pc[c] = "reuse" /\ UNCHANGED <<held, writer, peer, helper>>
          /\ pc'[c] = IF Alive(held[c]) THEN "putback" ELSE "abort"
      BY <1>0, <2>2 DEF Reuse, Goto, TypedCommands
    <3>2. Holds(c)'
      BY <2>a, <3>1 DEF Holds, Alive
    <3> QED
      BY <1>2, <2>c, <3>1, <3>2
  <2>3. CASE PutBack(c)
    <3>1. /\ pc[c] = "putback" /\ pc'[c] = "done" /\ held'[c] = 0 /\ writer' = held[c]
          /\ UNCHANGED peer
      BY <1>0, <2>3 DEF PutBack, Goto, TypedCommands
    <3> QED
      BY <2>a, <2>c, <3>1 DEF Holds
  <2>4. CASE AbortReader(c)
    <3>1. /\ pc[c] = "abort" /\ pc'[c] = "open" /\ held'[c] = 0 /\ UNCHANGED <<peer, writer>>
      BY <1>0, <2>4 DEF AbortReader, Goto, TypedCommands
    <3> QED
      BY <1>2, <2>a, <2>c, <3>1 DEF Holds
  <2>5. CASE (Open(c) \/ Poll(c)) /\ Connected(c)
    <3>1. /\ pc'[c] = "send" /\ held'[c] = c /\ peer'[c] = path /\ path # 0 /\ UNCHANGED writer
      BY <1>0, <2>5 DEF Open, Prompt, Poll, Connected, Bound, Goto, TypedCommands
    <3> QED
      BY <1>2, <2>a, <2>c, <3>1 DEF Holds
  <2>6. CASE ((Open(c) \/ Poll(c)) /\ ~Connected(c)) \/ Prompt(c)
    <3>1. /\ pc[c] \in {"open", "prompt", "poll"} /\ pc'[c] \in {"prompt", "poll", "failed"}
          /\ UNCHANGED <<peer, held, writer>>
      BY <1>0, <2>6 DEF Open, Prompt, Poll, SpawnHelper, Goto, TypedCommands
    <3> QED
      BY <1>2, <2>a, <2>c, <3>1 DEF Holds
  <2>7. CASE SendConnect(c)
    <3>1. /\ pc[c] = "send" /\ UNCHANGED <<peer, writer>>
          /\ \/ pc'[c] = "reader" /\ UNCHANGED held
             \/ pc'[c] = "failed" /\ held'[c] = 0
      BY <1>0, <2>7 DEF SendConnect, Goto, TypedCommands
    <3> QED
      BY <1>2, <2>a, <2>c, <3>1 DEF Holds
  <2>8. CASE StartReader(c)
    <3>1. pc[c] = "reader" /\ pc'[c] = "store" /\ UNCHANGED <<peer, writer, held>>
      BY <1>0, <2>8 DEF StartReader, Goto, TypedCommands
    <3> QED
      BY <1>2, <2>a, <2>c, <3>1 DEF Holds
  <2>9. CASE Store(c)
    <3>1. pc[c] = "store" /\ pc'[c] = "done" /\ held'[c] = 0 /\ writer' = c /\ UNCHANGED peer
      BY <1>0, <2>9 DEF Store, Goto, TypedCommands
    <3> QED
      BY <2>a, <2>c, <3>1 DEF Holds
  <2>10. CASE ConnectFailed(c)
    <3>1. pc[c] = "failed" /\ pc'[c] = "done" /\ UNCHANGED <<peer, writer, held>>
      BY <1>0, <2>10 DEF ConnectFailed, Goto, TypedCommands
    <3> QED
      BY <1>2, <2>a, <2>c, <3>1 DEF Holds
  <2> QED
    BY <1>5, <2>1, <2>2, <2>3, <2>4, <2>5, <2>6, <2>7, <2>8, <2>9, <2>10 DEF VpnConnect
<1>6. ASSUME NEW c \in Connects, Reader(c) PROVE Holding'
  BY <1>3, <1>6 DEF Reader, ReadMessage, ReadEnds
<1>7. ASSUME NEW h \in Helpers, HelperStep(h) PROVE Holding'
  BY <1>3, <1>7 DEF HelperStep, HelperBinds, Serves, HelperAccepts, StopsTunnel,
     Obeys, Consumes, Refuses, HelperExits, HelperDies, TunnelProgresses, TunnelMoves
<1>8. CASE UNCHANGED vars
  BY <1>3, <1>8 DEF vars
<1> QED
  BY <1>4, <1>5, <1>6, <1>7, <1>8, NextCases DEF ConnectStep

LEMMA AloneStep ==
    ASSUME TypeOK, Holding, Holding', Alone, [Next]_vars
    PROVE  Alone'
<1> USE DEF uiVars, stateVars, commandVars, connVars, helperVars
<1>0. TypedCommands /\ TypedUi
  BY TypeParts
<1>1. SUFFICES ASSUME app', ~overlapped' PROVE Alone'
  BY DEF Alone
<1>2. app /\ ~overlapped
  <2>1. app' => app
    BY NextCases DEF User, ClickConnect, ClickDisconnect, TrayDisconnect, Quit, ConnectStep,
       VpnConnect, TakeWriter, Reuse, PutBack, AbortReader, Open, Prompt, Poll,
       SendConnect, StartReader, Store, ConnectFailed, Reader, ReadMessage, ReadEnds,
       HelperStep, HelperBinds, Serves, HelperAccepts, StopsTunnel,
       Obeys, Consumes, Refuses, HelperExits, HelperDies, TunnelProgresses, TunnelMoves, vars
  <2>2. overlapped => overlapped'
    BY NextCases, <1>0 DEF User, ClickConnect, ClickDisconnect, TrayDisconnect, Quit, ConnectStep,
       VpnConnect, TakeWriter, Reuse, PutBack, AbortReader, Open, Prompt, Poll,
       SendConnect, StartReader, Store, ConnectFailed, Reader, ReadMessage, ReadEnds,
       HelperStep, HelperBinds, Serves, HelperAccepts, StopsTunnel, TypedUi,
       Obeys, Consumes, Refuses, HelperExits, HelperDies, TunnelProgresses, TunnelMoves, vars
  <2> QED
    BY <1>1, <2>1, <2>2
<1>3. /\ \A c, d \in InFlight : c = d
      /\ \A c \in InFlight : pc[c] # "take" => writer = 0
      /\ \A k \in Connects : Alive(k) => writer = k \/ \E c \in Connects : held[c] = k
  BY <1>2 DEF Alone
(* A connection is alive because it was, or because it has just been made. *)
<1>4. ASSUME NEW k \in Connects, AliveAfter(k)
      PROVE  Alive(k) \/ (Connected(k) /\ held'[k] = k)
  <2>1. CASE peer[k] # 0
    BY <1>4, <2>1, DeadStaysDead
  <2>2. CASE peer[k] = 0
    <3>1. peer'[k] # 0
      BY <1>4 DEF AliveAfter
    <3>2. PICK c \in Connects : Connected(c) /\ peer' = [peer EXCEPT ![c] = path]
      BY <2>2, <3>1, PeerStep
    <3>3. c = k
      BY <1>0, <2>2, <3>1, <3>2 DEF TypedCommands
    <3> QED
      BY <1>0, <3>2, <3>3 DEF Connected, TypedCommands
  <2> QED
    BY <2>1, <2>2
<1>5. ASSUME InFlight' \subseteq InFlight,
             \A c \in InFlight' : pc'[c] # "take" => writer' = 0,
             \A k \in Connects : writer = k \/ (\E c \in Connects : held[c] = k) =>
                \/ writer' = k \/ \E c \in Connects : held'[c] = k
                \/ ~AliveAfter(k)
      PROVE  Alone'
  <2>1. \A c, d \in InFlight' : c = d
    BY <1>3, <1>5
  <2>2. \A k \in Connects : AliveAfter(k) => writer' = k \/ \E c \in Connects : held'[c] = k
    BY <1>3, <1>4, <1>5
  <2> QED
    BY <1>5, <2>1, <2>2 DEF Alone, Alive, AliveAfter
<1>6. CASE UNCHANGED <<pc, held, writer>>
  <2>1. InFlight' = InFlight
    BY <1>6 DEF InFlight
  <2> QED
    BY <1>3, <1>5, <1>6, <2>1
<1>7. CASE ClickConnect
  <2>1. PICK c \in Connects : pc[c] = "unborn" /\ pc' = [pc EXCEPT ![c] = "take"]
    BY <1>7 DEF ClickConnect, Goto
  <2>2. UNCHANGED <<held, writer>> /\ InFlight = {}
    BY <1>1, <1>7 DEF ClickConnect
  <2>3. InFlight' \subseteq {c} /\ pc'[c] = "take"
    BY <1>0, <2>1, <2>2 DEF InFlight, TypedCommands
  <2>4. \A k \in Connects : AliveAfter(k) => writer' = k \/ \E d \in Connects : held'[d] = k
    BY <1>3, <1>4, <2>2
  <2> QED
    BY <2>3, <2>4 DEF Alone, Alive, AliveAfter
<1>8. CASE ClickDisconnect
  <2>1. UNCHANGED <<pc, held>> /\ (writer' = writer \/ (writer' = 0 /\ (writer = 0 \/ ~Alive(writer))))
    BY <1>8 DEF ClickDisconnect
  <2>2. InFlight' = InFlight
    BY <2>1 DEF InFlight
  <2>3. ASSUME NEW k \in Connects, writer = k, writer' = 0 PROVE ~AliveAfter(k)
    BY <2>1, <2>3, DeadStaysDead, Numbers DEF Holding
  <2> QED
    BY <1>3, <1>5, <2>1, <2>2, <2>3
<1>9. CASE TrayDisconnect
  BY <1>6, <1>9 DEF TrayDisconnect
<1>10. CASE Quit
  BY <1>1, <1>10 DEF Quit
<1>11. ASSUME NEW c \in Connects, VpnConnect(c) PROVE Alone'
  <2>a. Holds(c) /\ held[c] \in 0 .. MaxConnects /\ c \in 0 .. MaxConnects /\ c # 0
    BY <1>0, Numbers DEF Holding, TypedCommands
  <2>b. /\ pc' = [pc EXCEPT ![c] = pc'[c]]
        /\ \A d \in Connects : d # c => held'[d] = held[d]
        /\ pc[c] \notin {"unborn", "done"}
    BY <1>0, <1>11 DEF VpnConnect, TakeWriter, Reuse, PutBack, AbortReader, Open, Prompt, Poll,
       SendConnect, StartReader, Store, ConnectFailed, Connected, SpawnHelper, Goto, TypedCommands
  <2>c. c \in InFlight /\ InFlight' \subseteq InFlight /\ \A d \in InFlight' : d = c
    <3>1. c \in InFlight /\ InFlight' \subseteq InFlight
      BY <1>0, <2>b DEF InFlight, TypedCommands
    <3> QED
      BY <1>3, <3>1
  <2>d. ASSUME pc'[c] # "take" /\ c \in InFlight' => writer' = 0,
               writer # 0 => writer' = writer \/ held'[c] = writer,
               held[c] # 0 => writer' = held[c] \/ held'[c] = held[c] \/ ~AliveAfter(held[c])
        PROVE  Alone'
    <3>1. ASSUME NEW k \in Connects, writer = k \/ \E d \in Connects : held[d] = k
          PROVE  \/ writer' = k \/ \E d \in Connects : held'[d] = k
                 \/ ~AliveAfter(k)
      <4>0. k # 0
        BY Numbers
      <4>1. CASE writer = k
        BY <2>d, <4>0, <4>1
      <4>2. CASE held[c] = k
        BY <2>d, <4>0, <4>2
      <4>3. ASSUME NEW d \in Connects, d # c, held[d] = k PROVE held'[d] = k
        BY <2>b, <4>3
      <4> QED
        BY <3>1, <4>1, <4>2, <4>3
    <3> QED
      BY <1>5, <2>c, <2>d, <3>1
  <2>1. CASE TakeWriter(c)
    <3>1. held'[c] = writer /\ writer' = 0 /\ pc[c] = "take"
      BY <1>0, <2>1 DEF TakeWriter, Reusable, TypedCommands
    <3> QED
      BY <2>a, <2>d, <3>1 DEF Holds
  <2>2. ASSUME pc[c] # "take" PROVE writer = 0
    BY <1>3, <2>2, <2>c
  <2>3. CASE \/ Reuse(c) \/ StartReader(c) \/ ConnectFailed(c) \/ Prompt(c)
             \/ (Open(c) \/ Poll(c)) /\ ~Connected(c)
    <3>1. pc[c] # "take" /\ UNCHANGED <<held, writer>>
      BY <2>3 DEF Reuse, StartReader, ConnectFailed, Open, Prompt, Poll
    <3> QED
      BY <2>2, <2>d, <3>1
  <2>4. CASE PutBack(c)
    <3>1. pc[c] = "putback" /\ writer' = held[c] /\ pc'[c] = "done"
      BY <1>0, <2>4 DEF PutBack, Goto, TypedCommands
    <3>2. c \notin InFlight'
      BY <3>1 DEF InFlight
    <3> QED
      BY <2>2, <2>d, <3>1, <3>2
  <2>5. CASE AbortReader(c)
    <3>1. pc[c] = "abort" /\ writer' = writer
      BY <2>5 DEF AbortReader
    <3>2. held[c] # 0 /\ ~Alive(held[c]) /\ peer[held[c]] # 0 /\ held[c] \in Connects
      BY <2>a, <3>1, Numbers DEF Holds
    <3>3. ~AliveAfter(held[c])
      BY <3>2, DeadStaysDead
    <3> QED
      BY <2>2, <2>d, <3>1, <3>3
  <2>6. CASE (Open(c) \/ Poll(c)) /\ Connected(c)
    <3>1. pc[c] \in {"open", "poll"} /\ held'[c] = c /\ UNCHANGED writer
      BY <1>0, <2>6 DEF Open, Prompt, Poll, Connected, TypedCommands
    <3> QED
      BY <2>2, <2>a, <2>d, <3>1 DEF Holds
  <2>7. CASE SendConnect(c)
    <3>1. /\ pc[c] = "send" /\ UNCHANGED <<writer, peer, helper>>
          /\ held' = held \/ ~Alive(c)
      BY <2>7 DEF SendConnect
    <3>2. held[c] = c
      BY <2>a, <3>1 DEF Holds
    <3>3. ~Alive(c) => ~AliveAfter(held[c])
      BY <3>1, <3>2 DEF Alive, AliveAfter
    <3> QED
      BY <2>2, <2>d, <3>1, <3>3
  <2>8. CASE Store(c)
    <3>1. pc[c] = "store" /\ writer' = c /\ pc'[c] = "done"
      BY <1>0, <2>8 DEF Store, Goto, TypedCommands
    <3>2. c \notin InFlight' /\ held[c] = c
      BY <2>a, <3>1 DEF InFlight, Holds
    <3> QED
      BY <2>2, <2>d, <3>1, <3>2
  <2> QED
    BY <1>11, <2>1, <2>3, <2>4, <2>5, <2>6, <2>7, <2>8 DEF VpnConnect
<1>12. ASSUME NEW c \in Connects, Reader(c) PROVE Alone'
  BY <1>6, <1>12 DEF Reader, ReadMessage, ReadEnds
<1>13. ASSUME NEW h \in Helpers, HelperStep(h) PROVE Alone'
  BY <1>6, <1>13 DEF HelperStep, HelperBinds, Serves, HelperAccepts, StopsTunnel,
     Obeys, Consumes, Refuses, HelperExits, HelperDies, TunnelProgresses, TunnelMoves
<1>14. CASE UNCHANGED vars
  BY <1>6, <1>14 DEF vars
<1> QED
  BY <1>7, <1>8, <1>9, <1>10, <1>11, <1>12, <1>13, <1>14, NextCases DEF ConnectStep, User

LEMMA GuiInvariant == Spec => []GuiInv
<1>1. Init => GuiInv
  <2>1. ASSUME Init PROVE TypeOK
    <3>1. TypedUi
      <4>1. /\ platform \in Platforms
            /\ app \in BOOLEAN /\ pending \in BOOLEAN /\ overlapped \in BOOLEAN
        BY <2>1 DEF Init
      <4>2. raw \in WireState \cup {"null"} /\ status \in WireState
        BY <2>1 DEF Init, WireState
      <4> QED
        BY <4>1, <4>2 DEF TypedUi
    <3>2. TypedLines /\ TypedMessages
      <4>1. <<>> \in Seq(ClientCommand) /\ <<>> \in Seq(ClientMessage)
        OBVIOUS
      <4> QED
        BY <2>1, <4>1 DEF Init, TypedLines, TypedMessages
    <3>3. TypedCommands /\ TypedHelpers
      BY <2>1, Numbers DEF Init, TypedCommands, TypedHelpers, ConnectSteps
    <3> QED
      BY <3>1, <3>2, <3>3, TypeParts
  <2>2. ASSUME Init PROVE Served /\ Holding /\ Alone
    BY <2>2, Numbers DEF Init, Served, Holding, Holds, Alone, Alive, InFlight
  <2> QED
    BY <2>1, <2>2 DEF GuiInv
<1>2. GuiInv /\ [Next]_vars => GuiInv'
  <2> SUFFICES ASSUME GuiInv, [Next]_vars PROVE GuiInv'
    OBVIOUS
  <2>0. TypeOK /\ Served /\ Holding /\ Alone
    BY DEF GuiInv
  <2>1. TypeOK'
    <3>1. TypedUi' /\ TypedCommands' /\ TypedLines' /\ TypedMessages' /\ TypedHelpers'
      BY <2>0, TypedUiStep, TypedCommandsStep, TypedLinesStep, TypedMessagesStep,
         TypedHelpersStep
    <3> QED
      BY <3>1 DEF TypeOK, TypedUi, TypedCommands, TypedLines, TypedMessages, TypedHelpers
  <2>2. Served' /\ Holding'
    BY <2>0, ServedStep, HoldingStep
  <2>3. Alone'
    BY <2>0, <2>2, AloneStep
  <2> QED
    BY <2>1, <2>2, <2>3 DEF GuiInv
<1> QED
  BY <1>1, <1>2, PTL DEF Spec

(* Every variable of the interface stays within its type: a helper only ever writes
   to a connection that was made, and the reader only reads what a helper writes. *)
THEOREM GuiTypes == Spec => []TypeOK
<1>1. GuiInv => TypeOK
  BY DEF GuiInv
<1> QED
  BY <1>1, GuiInvariant, PTL

(* As long as no two vpn_connects overlap, VpnState or the vpn_connect under way has
   the writer of the connection whose helper runs a tunnel, so vpn_disconnect and the
   tray reach it: vpn_connect takes the writer out of the state before every await,
   and gives it back or stores a new one only when it ends. *)
THEOREM TunnelsCommandable == Spec => []Commandable
<1>1. GuiInv => Commandable
  <2> SUFFICES ASSUME GuiInv, app, ~overlapped, NEW h \in Helpers, tunnel[h] # "off"
               PROVE  \/ writer = serving[h]
                      \/ \E c \in InFlight : held[c] = serving[h]
    BY DEF Commandable
  <2> DEFINE k == serving[h]
  <2>1. helper[h] = "serving" /\ k \in Connects /\ peer[k] = h
    BY DEF GuiInv, Served
  <2>2. Alive(k)
    BY <2>1, Numbers DEF Alive
  <2>3. writer = k \/ \E c \in Connects : held[c] = k
    BY <2>1, <2>2 DEF GuiInv, Alone
  <2>4. \A c \in Connects : held[c] = k => c \in InFlight
    BY <2>1, Numbers DEF GuiInv, Holding, Holds, InFlight
  <2> QED
    BY <2>3, <2>4
<1> QED
  BY <1>1, GuiInvariant, PTL
===============================================================================
