---------------------------------- MODULE Gui ----------------------------------
(***************************************************************************)
(* The desktop interface: the commands vpn_connect and vpn_disconnect, the *)
(* tray's Disconnect and Quit and the reader tasks of src-tauri/src/lib.rs,*)
(* connect_with_spawn of pipe.rs, and what useVpnState.ts and App.tsx show *)
(* and let the user press.  The helper is main.rs seen through its socket: *)
(* it binds, accepts one connection and serves it until Shutdown or end of *)
(* file; its tunnel is one state (module Helper has the details).          *)
(*                                                                         *)
(* Commands run concurrently.  vpn_connect gives the mutex of VpnState up  *)
(* at every await, so each of its critical sections is a step; the other   *)
(* commands hold it throughout and are one step each.  A connection has    *)
(* the name of the vpn_connect that opened it and stays open while either  *)
(* half exists: the writer in the state or in a command, the reader in its *)
(* task.  Unix sockets: the listener lives as long as the helper, so a     *)
(* second connection succeeds and waits in the backlog.                    *)
(***************************************************************************)
EXTENDS Naturals, Sequences, FiniteSets

CONSTANTS
    Platforms,     \* the Unix systems the interface runs on
    MaxConnects,   \* bound: calls of vpn_connect
    MaxHelpers,    \* bound: helper processes started
    LineCap,       \* bound: commands of the user not yet read by the helper
    MsgCap         \* bound: messages not yet read by the interface

ASSUME PlatformsAssumption == Platforms \subseteq {"linux", "macos"}
ASSUME BoundsAssumption ==
    {MaxConnects, MaxHelpers, LineCap, MsgCap} \subseteq Nat \ {0}

Connects == 1 .. MaxConnects
Helpers == 1 .. MaxHelpers

WireState == {"Connecting", "Established", "Reconnecting", "Disconnected"}
ClientCommand == {"Connect", "Disconnect", "Shutdown"}
ClientMessage == WireState \cup {"Error", "Bye"}

VARIABLES
    platform,     \* the target_os the interface was built for
    app,          \* the process of the interface is there
    raw,          \* useVpnState: the state last received, "null" at first
    pending,      \* App.tsx: the optimistic "Connecting"
    writer,       \* VpnState.writer: the connection it writes to, or 0
    reader,       \* VpnState.reader: the task the handle stands for, or 0
    status,       \* VpnState.status
    pc,           \* per vpn_connect: where it is
    held,         \* per vpn_connect: the connection whose writer it holds, or 0
    task,         \* per connection: its reader task
    peer,         \* per connection: the helper at the other end, or 0
    lines,        \* per connection: commands the helper has not read
    msgs,         \* per connection: messages the reader has not read
    path,         \* the helper whose listener SOCKET_PATH names, or 0
    helper,       \* per helper: where it is
    serving,      \* per helper: the connection it accepted, or 0
    tunnel,       \* per helper: its tunnel
    overlapped    \* history: two vpn_connects were under way at a time

uiVars == <<platform, app, raw, pending>>
stateVars == <<writer, reader, status>>
commandVars == <<pc, held>>
connVars == <<task, peer, lines, msgs>>
helperVars == <<path, helper, serving, tunnel>>
vars == <<uiVars, stateVars, commandVars, connVars, helperVars, overlapped>>

ConnectSteps == {"unborn", "take", "reuse", "putback", "abort", "open", "prompt",
                 "poll", "send", "reader", "store", "failed", "done"}

TypeOK ==
    /\ platform \in Platforms
    /\ app \in BOOLEAN /\ pending \in BOOLEAN /\ overlapped \in BOOLEAN
    /\ raw \in WireState \cup {"null"}
    /\ writer \in 0 .. MaxConnects /\ reader \in 0 .. MaxConnects
    /\ status \in WireState
    /\ pc \in [Connects -> ConnectSteps]
    /\ held \in [Connects -> 0 .. MaxConnects]
    /\ task \in [Connects -> {"none", "reading", "ended", "aborted"}]
    /\ peer \in [Connects -> 0 .. MaxHelpers]
    /\ lines \in [Connects -> Seq(ClientCommand)]
    /\ msgs \in [Connects -> Seq(ClientMessage)]
    /\ path \in 0 .. MaxHelpers
    /\ helper \in [Helpers -> {"unborn", "starting", "listening", "serving", "gone"}]
    /\ serving \in [Helpers -> 0 .. MaxConnects]
    /\ tunnel \in [Helpers -> {"off", "starting"} \cup (WireState \ {"Disconnected"})]

Init ==
    /\ platform \in Platforms
    /\ app = TRUE
    /\ raw = "null"
    /\ pending = FALSE
    /\ writer = 0
    /\ reader = 0
    /\ status = "Disconnected"
    /\ pc = [c \in Connects |-> "unborn"]
    /\ held = [c \in Connects |-> 0]
    /\ task = [c \in Connects |-> "none"]
    /\ peer = [c \in Connects |-> 0]
    /\ lines = [c \in Connects |-> <<>>]
    /\ msgs = [c \in Connects |-> <<>>]
    /\ path = 0
    /\ helper = [h \in Helpers |-> "unborn"]
    /\ serving = [h \in Helpers |-> 0]
    /\ tunnel = [h \in Helpers |-> "off"]
    /\ overlapped = FALSE

-------------------------------------------------------------------------------
(* The window.                                                            *)

\* shownRaw, which decides which of the two buttons there is.
Shown == IF pending /\ raw \in {"null", "Disconnected"} THEN "Connecting" ELSE raw

ShowsConnect == Shown \in {"null", "Disconnected"}

InFlight == {c \in Connects : pc[c] \notin {"unborn", "done"}}

Goto(c, step) == pc' = [pc EXCEPT ![c] = step]

ClickConnect ==
    /\ app
    /\ ShowsConnect
    /\ \E c \in Connects :
          /\ pc[c] = "unborn"
          /\ \A d \in Connects : pc[d] = "unborn" => c <= d
          /\ Goto(c, "take")
    /\ pending' = TRUE
    /\ overlapped' = (overlapped \/ InFlight # {})
    /\ UNCHANGED <<platform, app, raw, stateVars, held, connVars, helperVars>>

\* send_command: it fails once the other end is gone.
Alive(c) == peer[c] # 0 /\ helper[peer[c]] # "gone"
Written(c, cmd) == [lines EXCEPT ![c] = Append(@, cmd)]

\* vpn_disconnect, which the window calls without waiting: a failed write loses the
\* writer, and without a writer it does nothing.
ClickDisconnect ==
    /\ app
    /\ ~ShowsConnect
    /\ \A c \in Connects : Len(lines[c]) < LineCap
    /\ pending' = FALSE
    /\ IF writer # 0 /\ Alive(writer)
         THEN lines' = Written(writer, "Disconnect") /\ writer' = writer
         ELSE lines' = lines /\ writer' = 0
    /\ UNCHANGED <<platform, app, raw, reader, status, commandVars, task, peer, msgs,
                   helperVars, overlapped>>

\* The tray's Disconnect ignores a failed write.
TrayDisconnect ==
    /\ app
    /\ \A c \in Connects : Len(lines[c]) < LineCap
    /\ writer # 0 /\ Alive(writer)
    /\ lines' = Written(writer, "Disconnect")
    /\ UNCHANGED <<uiVars, stateVars, commandVars, task, peer, msgs, helperVars,
                   overlapped>>

\* The tray's Quit: Shutdown if there is a writer, then the process exits and the
\* system closes what it had open.
Quit ==
    /\ app
    /\ app' = FALSE
    /\ lines' = IF writer # 0 /\ Alive(writer) THEN Written(writer, "Shutdown") ELSE lines
    /\ writer' = 0
    /\ reader' = 0
    /\ pc' = [c \in Connects |-> "done"]
    /\ held' = [c \in Connects |-> 0]
    /\ task' = [c \in Connects |-> IF task[c] = "reading" THEN "ended" ELSE task[c]]
    /\ UNCHANGED <<platform, raw, pending, status, peer, msgs, helperVars, overlapped>>

-------------------------------------------------------------------------------
(* vpn_connect.                                                           *)

\* The writer that is there is reused.
MutReusable == 0
Reusable == writer

TakeWriter(c) ==
    /\ pc[c] = "take"
    /\ held' = [held EXCEPT ![c] = Reusable]
    /\ writer' = 0
    /\ Goto(c, IF Reusable # 0 THEN "reuse" ELSE "open")
    /\ UNCHANGED <<uiVars, reader, status, connVars, helperVars, overlapped>>

Reuse(c) ==
    /\ pc[c] = "reuse"
    /\ IF Alive(held[c])
         THEN lines' = Written(held[c], "Connect") /\ Goto(c, "putback")
         ELSE lines' = lines /\ Goto(c, "abort")
    /\ UNCHANGED <<uiVars, stateVars, held, task, peer, msgs, helperVars, overlapped>>

PutBack(c) ==
    /\ pc[c] = "putback"
    /\ writer' = held[c]
    /\ held' = [held EXCEPT ![c] = 0]
    /\ Goto(c, "done")
    /\ UNCHANGED <<uiVars, reader, status, connVars, helperVars, overlapped>>

\* The connection is dead: the stale reader is aborted and the writer dropped.
AbortReader(c) ==
    /\ pc[c] = "abort"
    /\ task' = [d \in Connects |->
                  IF d = reader /\ task[d] = "reading" THEN "aborted" ELSE task[d]]
    /\ reader' = 0
    /\ held' = [held EXCEPT ![c] = 0]
    /\ Goto(c, "open")
    /\ UNCHANGED <<uiVars, writer, status, peer, lines, msgs, helperVars, overlapped>>

\* connect() to SOCKET_PATH succeeds: there is a listener behind it.
Bound == path # 0 /\ helper[path] \in {"listening", "serving"}

Connected(c) ==
    /\ Bound
    /\ peer' = [peer EXCEPT ![c] = path]
    /\ held' = [held EXCEPT ![c] = c]
    /\ Goto(c, "send")
    /\ UNCHANGED helper

\* spawn_helper_elevated's outcome: a helper is on its way (on Linux behind the
\* prompt of pkexec, which may yet refuse it), or an error; past the bound, an error.
SpawnHelper(c) ==
    \/ /\ \E h \in Helpers :
             /\ helper[h] = "unborn"
             /\ \A g \in Helpers : helper[g] = "unborn" => h <= g
             /\ helper' = [helper EXCEPT ![h] = "starting"]
       /\ Goto(c, "poll")
    \/ Goto(c, "failed") /\ UNCHANGED helper

\* Linux starts pkexec detached; macOS waits for osascript and its prompt.
Open(c) ==
    /\ pc[c] = "open"
    /\ \/ Connected(c)
       \/ /\ ~Bound
          /\ IF platform = "macos"
               THEN Goto(c, "prompt") /\ UNCHANGED helper
               ELSE SpawnHelper(c)
          /\ UNCHANGED <<peer, held>>
    /\ UNCHANGED <<uiVars, stateVars, task, lines, msgs, path, serving, tunnel, overlapped>>

\* The user answers the prompt, or osascript fails.  (A prompt still open when the
\* interface quits is not followed: the helper it may start is never connected to.)
Prompt(c) ==
    /\ pc[c] = "prompt"
    /\ SpawnHelper(c)
    /\ UNCHANGED <<uiVars, stateVars, held, connVars, path, serving, tunnel, overlapped>>

\* Fifteen seconds of polling are over.
MutPollGivesUp == FALSE
PollGivesUp == TRUE

Poll(c) ==
    /\ pc[c] = "poll"
    /\ \/ Connected(c)
       \/ /\ ~Bound
          /\ PollGivesUp
          /\ Goto(c, "failed")
          /\ UNCHANGED <<peer, held, helper>>
    /\ UNCHANGED <<uiVars, stateVars, task, lines, msgs, path, serving, tunnel, overlapped>>

\* The first command on the new connection; if it fails both halves are dropped.
SendConnect(c) ==
    /\ pc[c] = "send"
    /\ IF Alive(c)
         THEN lines' = Written(c, "Connect") /\ Goto(c, "reader") /\ UNCHANGED held
         ELSE lines' = lines /\ Goto(c, "failed") /\ held' = [held EXCEPT ![c] = 0]
    /\ UNCHANGED <<uiVars, stateVars, task, peer, msgs, helperVars, overlapped>>

StartReader(c) ==
    /\ pc[c] = "reader"
    /\ task' = [task EXCEPT ![c] = "reading"]
    /\ Goto(c, "store")
    /\ UNCHANGED <<uiVars, stateVars, held, peer, lines, msgs, helperVars, overlapped>>

\* What was in the state is dropped: a writer's half, and a handle whose task goes on.
Store(c) ==
    /\ pc[c] = "store"
    /\ writer' = c
    /\ reader' = c
    /\ held' = [held EXCEPT ![c] = 0]
    /\ Goto(c, "done")
    /\ UNCHANGED <<uiVars, status, connVars, helperVars, overlapped>>

\* handleConnect catches the error.
ConnectFailed(c) ==
    /\ pc[c] = "failed"
    /\ pending' = FALSE
    /\ Goto(c, "done")
    /\ UNCHANGED <<platform, app, raw, stateVars, held, connVars, helperVars, overlapped>>

-------------------------------------------------------------------------------
(* The reader task of connection c, and the listener of useVpnState.      *)

\* A state is shown; any but Connecting ends the optimistic "Connecting", if it
\* is a change (every Reconnecting is a new object, hence a change).
Show(s) ==
    /\ raw' = s
    /\ pending' = (pending /\ (s = "Connecting" \/ (s = raw /\ s # "Reconnecting")))

\* What a message does to VpnState.status.
MutStatusAfter(m) == m
StatusAfter(m) == IF m \in WireState THEN m ELSE "Disconnected"

\* A message is applied to the status and emitted.  The frontend only looks at
\* states: of an error it shows the text.  Bye ends the loop, as end of file does.
ReadMessage(c) ==
    /\ task[c] = "reading"
    /\ msgs[c] # <<>>
    /\ msgs' = [msgs EXCEPT ![c] = Tail(@)]
    /\ LET m == Head(msgs[c])
       IN  /\ status' = StatusAfter(m)
           /\ CASE m \in WireState -> Show(m) /\ UNCHANGED task
                [] m = "Error" -> UNCHANGED <<raw, pending, task>>
                [] m = "Bye" -> Show("Disconnected") /\ task' = [task EXCEPT ![c] = "ended"]
    /\ UNCHANGED <<platform, app, writer, reader, commandVars, peer, lines, helperVars, overlapped>>

ReadEnds(c) ==
    /\ task[c] = "reading"
    /\ msgs[c] = <<>>
    /\ ~Alive(c)
    /\ status' = "Disconnected"
    /\ Show("Disconnected")
    /\ task' = [task EXCEPT ![c] = "ended"]
    /\ UNCHANGED <<platform, app, writer, reader, commandVars, peer, lines, msgs, helperVars,
                   overlapped>>

-------------------------------------------------------------------------------
(* The helper, from its socket.                                           *)

\* Some half of connection c is still there.
OpenEnd(c) ==
    writer = c \/ task[c] = "reading" \/ \E d \in Connects : held[d] = c

HelperBinds(h) ==
    /\ helper[h] = "starting"
    /\ helper' = [helper EXCEPT ![h] = "listening"]
    /\ path' = h
    /\ UNCHANGED <<uiVars, stateVars, commandVars, connVars, serving, tunnel, overlapped>>

\* accept() is called once: what else waits in the backlog is never served.
HelperAccepts(h) ==
    /\ helper[h] = "listening"
    /\ \E c \in Connects :
          /\ peer[c] = h
          /\ serving' = [serving EXCEPT ![h] = c]
    /\ helper' = [helper EXCEPT ![h] = "serving"]
    /\ UNCHANGED <<uiVars, stateVars, commandVars, connVars, path, tunnel, overlapped>>

\* A message is written to the connection it serves.
Tells(h, m) ==
    /\ Len(msgs[serving[h]]) < MsgCap
    /\ msgs' = [msgs EXCEPT ![serving[h]] = Append(@, m)]

Serving(h) == helper[h] = "serving"
MutAtEof(h) == FALSE
AtEof(h) == lines[serving[h]] = <<>> /\ ~OpenEnd(serving[h])

\* Any command, and end of file, first stops the tunnel that is up (but see Refuses).
StopsTunnel(h) ==
    /\ Serving(h)
    /\ lines[serving[h]] # <<>> \/ AtEof(h)
    /\ tunnel[h] # "off"
    /\ tunnel' = [tunnel EXCEPT ![h] = "off"]
    /\ Tells(h, "Disconnected") \/ (~OpenEnd(serving[h]) /\ UNCHANGED msgs)
    /\ UNCHANGED <<uiVars, stateVars, commandVars, task, peer, lines, path, helper,
                   serving, overlapped>>

Consumes(h, cmd) ==
    /\ Serving(h)
    /\ lines[serving[h]] # <<>>
    /\ Head(lines[serving[h]]) = cmd
    /\ lines' = [lines EXCEPT ![serving[h]] = Tail(@)]
    /\ UNCHANGED <<uiVars, stateVars, commandVars, task, peer, path, helper, serving,
                   overlapped>>

Obeys(h) ==
    /\ tunnel[h] = "off"
    /\ \/ Consumes(h, "Connect") /\ tunnel' = [tunnel EXCEPT ![h] = "starting"]
       \/ Consumes(h, "Disconnect") /\ UNCHANGED tunnel
    /\ UNCHANGED msgs

\* A Connect is refused: its fingerprint does not parse, before the tunnel that is
\* up is touched, or, after it was stopped, privileges or the TUN driver lack.
Refuses(h) ==
    /\ Consumes(h, "Connect")
    /\ Tells(h, "Error")
    /\ UNCHANGED tunnel

\* serve returns; main removes SOCKET_PATH, whoever's it is by now.
HelperExits(h) ==
    /\ Serving(h)
    /\ tunnel[h] = "off"
    /\ \/ /\ lines[serving[h]] # <<>>
          /\ Head(lines[serving[h]]) = "Shutdown"
          /\ msgs' = [msgs EXCEPT ![serving[h]] = Append(@, "Bye")]
       \/ AtEof(h) /\ UNCHANGED msgs
    /\ helper' = [helper EXCEPT ![h] = "gone"]
    /\ path' = 0
    /\ UNCHANGED <<uiVars, stateVars, commandVars, task, peer, lines, serving, tunnel,
                   overlapped>>

\* Elevation is refused, or the process crashes or is killed, which leaves the path.
HelperDies(h) ==
    /\ helper[h] \notin {"unborn", "gone"}
    /\ helper' = [helper EXCEPT ![h] = "gone"]
    /\ tunnel' = [tunnel EXCEPT ![h] = "off"]
    /\ UNCHANGED <<uiVars, stateVars, commandVars, connVars, path, serving, overlapped>>

\* The engine's own progress, told to the interface.
TunnelMoves(h, from, to) ==
    /\ Serving(h)
    /\ tunnel[h] \in from
    /\ tunnel' = [tunnel EXCEPT ![h] = IF to = "Error" THEN "off" ELSE to]
    /\ Tells(h, to)
    /\ UNCHANGED <<uiVars, stateVars, commandVars, task, peer, lines, path, helper,
                   serving, overlapped>>

TunnelProgresses(h) ==
    \/ TunnelMoves(h, {"starting", "Reconnecting"}, "Connecting")
    \/ TunnelMoves(h, {"Connecting"}, "Established")
    \/ TunnelMoves(h, {"Connecting", "Established"}, "Reconnecting")
    \/ TunnelMoves(h, {"Connecting"}, "Error")

-------------------------------------------------------------------------------
User == ClickConnect \/ ClickDisconnect \/ TrayDisconnect \/ Quit

VpnConnect(c) ==
    \/ TakeWriter(c) \/ Reuse(c) \/ PutBack(c) \/ AbortReader(c)
    \/ Open(c) \/ Prompt(c) \/ Poll(c)
    \/ SendConnect(c) \/ StartReader(c) \/ Store(c) \/ ConnectFailed(c)

Reader(c) == ReadMessage(c) \/ ReadEnds(c)

Serves(h) ==
    HelperAccepts(h) \/ StopsTunnel(h) \/ Obeys(h) \/ Refuses(h) \/ HelperExits(h)

Finished == ~app /\ UNCHANGED vars

Next ==
    \/ User
    \/ \E c \in Connects : VpnConnect(c) \/ Reader(c)
    \/ \E h \in Helpers :
          HelperBinds(h) \/ Serves(h) \/ HelperDies(h) \/ TunnelProgresses(h)
    \/ Finished

\* The runtime polls every command and reader, polling the socket is bounded, and
\* a helper reads what it is sent and sees its connection close.  Nothing is assumed
\* of the user, of the elevation prompt or of the tunnel.
Fairness ==
    /\ \A c \in Connects : WF_vars(pc[c] # "prompt" /\ VpnConnect(c))
    /\ \A c \in Connects : WF_vars(Reader(c))
    /\ \A h \in Helpers : WF_vars(Serves(h))

Spec == Init /\ [][Next]_vars /\ Fairness

-------------------------------------------------------------------------------
(* Properties.                                                            *)

\* As long as no two vpn_connects overlap, every tunnel can be commanded: there
\* is at most one, and VpnState, or the vpn_connect under way, has the writer of
\* the connection its helper serves.  (When two overlap while the helper is being
\* spawned, the one that stores last may hold a connection that waits in the
\* backlog for ever.)
Commandable ==
    app /\ ~overlapped =>
        \A h \in Helpers : tunnel[h] # "off" =>
            \/ writer = serving[h]
            \/ \E c \in InFlight : held[c] = serving[h]

\* Quitting ends every tunnel, also of helpers whose writer was lost: the system
\* closes the connections, and end of file stops the tunnel.
QuitEndsTunnels == ~app ~> \A h \in Helpers : tunnel[h] = "off"

\* Every vpn_connect returns.  On Linux that is whatever becomes of the elevation
\* prompt, since pkexec is started detached and the polling is bounded; on macOS
\* only a prompt that is never answered keeps it: osascript is waited for with no
\* bound.
ConnectsEnd ==
    \A c \in Connects :
        pc[c] = "take"
            ~> (pc[c] = "done" \/ (platform = "macos" /\ [](pc[c] = "prompt")))

\* "The engine will not retry: the tunnel is down, so stop reporting a stale
\* Connecting/Established status" (the reader task, on a permanent error): once
\* everything has been delivered the window shows what VpnState says.
WindowAgrees ==
    /\ app /\ InFlight = {}
    /\ \A c \in Connects : lines[c] = <<>> /\ msgs[c] = <<>>
    /\ \A c \in Connects : task[c] = "reading" => Alive(c)
    /\ \A h \in Helpers : tunnel[h] = "off"
    /\ status = "Disconnected"
    => ShowsConnect
==============================================================================
