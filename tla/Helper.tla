-------------------------------- MODULE Helper --------------------------------
(***************************************************************************)
(* The privileged helper of crates/vpn-helper/src/main.rs: the task serve, *)
(* which obeys the commands of the one GUI connection, the Session it      *)
(* keeps (shutdown handle and engine task of the current tunnel), the      *)
(* engine tasks it spawns, and per engine a task that forwards its events  *)
(* to the GUI.  The reader task of the GUI (src-tauri/src/lib.rs) derives  *)
(* its status from what arrives.                                           *)
(*                                                                         *)
(* An engine is run_client_supervised as seen from outside: module         *)
(* Supervisor shows that its events follow Lifecycle.  An engine may take  *)
(* for ever (a handshake has no timeout).  A message to the GUI is written *)
(* under the writer's mutex and read in order, so its delivery, the GUI's  *)
(* reader included, is one step; what delays it is the event channel.      *)
(***************************************************************************)
EXTENDS Naturals, Sequences

CONSTANTS
    MaxEngines,    \* bound: tunnels started in the life of the helper
    CmdCap,        \* bound: commands on their way to the helper
    ChanCap        \* capacity of an engine's event channel

ASSUME BoundsAssumption ==
    {MaxEngines, CmdCap, ChanCap} \subseteq Nat \ {0}

VARIABLES
    guiOpen,       \* the GUI holds its end of the connection
    cmds,          \* command lines the helper has not read
    pc,            \* where serve is
    purpose,       \* the command (or "EOF") serve is obeying
    current,       \* the engine in Session, 0 for None
    run,           \* per engine: "unborn", "running" or "ended"
    stop,          \* per engine: its shutdown channel says true
    abandoned,     \* engines whose teardown outlived the timeout of stop()
    last,          \* per engine: the status after its last event
    tun,           \* per engine: its TUN device (and routes) are up
    chan,          \* per engine: its event channel
    status         \* VpnState::status in the GUI

serveVars == <<pc, purpose, current, abandoned>>
engineVars == <<run, stop, last, tun, chan>>
guiVars == <<guiOpen, cmds, status>>
vars == <<serveVars, engineVars, guiVars>>

Engines == 1 .. MaxEngines

ClientCommand == {"Connect", "BadConnect", "Disconnect", "Shutdown", "Garbage"}
ClientEvent == {"Connecting", "Established", "Reconnecting", "Disconnected",
                "PermanentError"}
WireState == {"Connecting", "Established", "Reconnecting", "Disconnected"}
Terminal == {"Disconnected", "PermanentError"}
\* What makes serve stop the tunnel.
Purposes == {"Connect", "Disconnect", "Shutdown", "EOF"}

TypeOK ==
    /\ guiOpen \in BOOLEAN
    /\ cmds \in Seq(ClientCommand)
    /\ pc \in {"read", "stopping", "preflight", "error", "bye", "exiting", "exited"}
    /\ purpose \in Purposes \cup {"none"}
    /\ pc = "stopping" => purpose \in Purposes
    /\ current \in 0 .. MaxEngines
    /\ run \in [Engines -> {"unborn", "running", "ended"}]
    /\ stop \in [Engines -> BOOLEAN]
    /\ abandoned \subseteq Engines
    /\ last \in [Engines -> ClientEvent \cup {"none"}]
    /\ tun \in [Engines -> BOOLEAN]
    /\ chan \in [Engines -> Seq(ClientEvent)]
    /\ status \in WireState

Init ==
    /\ guiOpen = TRUE
    /\ cmds = <<>>
    /\ pc = "read"
    /\ purpose = "none"
    /\ current = 0
    /\ run = [e \in Engines |-> "unborn"]
    /\ stop = [e \in Engines |-> FALSE]
    /\ abandoned = {}
    /\ last = [e \in Engines |-> "none"]
    /\ tun = [e \in Engines |-> FALSE]
    /\ chan = [e \in Engines |-> <<>>]
    /\ status = "Disconnected"

-------------------------------------------------------------------------------
(* The GUI's end of the connection.                                       *)

ClientSends ==
    /\ guiOpen
    /\ pc # "exited"
    /\ Len(cmds) < CmdCap
    /\ \E c \in ClientCommand : cmds' = Append(cmds, c)
    /\ UNCHANGED <<serveVars, engineVars, guiOpen, status>>

\* The GUI quits, crashes or drops the connection.
ClientCloses ==
    /\ guiOpen
    /\ guiOpen' = FALSE
    /\ UNCHANGED <<serveVars, engineVars, cmds, status>>

\* The helper is gone: the reader's loop ends and reports Disconnected.
ClientSeesEnd ==
    /\ guiOpen
    /\ pc = "exited"
    /\ guiOpen' = FALSE
    /\ status' = "Disconnected"
    /\ UNCHANGED <<serveVars, engineVars, cmds>>

-------------------------------------------------------------------------------
(* serve.                                                                 *)

\* What the GUI's reader makes of a message; a transient error changes nothing.
MutStatusAfter(msg) == msg
StatusAfter(msg) ==
    CASE msg \in WireState -> msg
      [] msg \in {"Error", "Bye"} -> "Disconnected"
      [] msg = "TransientError" -> status

\* send, and the reader at the other end: the connection keeps the order of the
\* messages.  A write to a connection that is gone fails and is ignored.
Deliver(msg) == status' = IF guiOpen THEN StatusAfter(msg) ELSE status

\* The first half of Session::stop: take the sender and send true.
Signalled == [e \in Engines |-> stop[e] \/ e = current]

BeginStop(why) ==
    /\ stop' = Signalled
    /\ pc' = "stopping"
    /\ purpose' = why

\* A line arrives.  A bad fingerprint is refused before the running tunnel is
\* touched; a line that does not parse is skipped.
ReadCommand ==
    /\ pc = "read"
    /\ cmds # <<>>
    /\ cmds' = Tail(cmds)
    /\ \/ /\ Head(cmds) \in {"Connect", "Disconnect", "Shutdown"}
          /\ BeginStop(Head(cmds))
       \/ /\ Head(cmds) = "BadConnect"
          /\ pc' = "error"
          /\ UNCHANGED <<purpose, stop>>
       \/ /\ Head(cmds) = "Garbage"
          /\ UNCHANGED <<pc, purpose, stop>>
    /\ UNCHANGED <<current, abandoned, run, last, tun, chan, guiOpen, status>>

\* End of file, or a read error that may lose the lines still on their way.
ReadEnds ==
    /\ pc = "read"
    /\ ~guiOpen
    /\ BeginStop("EOF")
    /\ UNCHANGED <<current, abandoned, run, last, tun, chan, guiVars>>

\* Where serve goes once stop() has returned.
AfterStop ==
    CASE purpose = "Connect" -> "preflight"
      [] purpose = "Disconnect" -> "read"
      [] purpose = "Shutdown" -> "bye"
      [] purpose = "EOF" -> "exiting"

\* stop() has an engine to wait for and it has not ended.
MutMustWait == FALSE
MustWait == current # 0 /\ run[current] = "running"

EngineJoined ==
    /\ pc = "stopping"
    /\ ~MustWait
    /\ current' = 0
    /\ pc' = AfterStop
    /\ purpose' = "none"
    /\ UNCHANGED <<abandoned, engineVars, guiVars>>

\* The wait is bounded: after ten seconds the handle is dropped, which lets the
\* engine task go on by itself.
MutGivesUp == FALSE
GivesUp == MustWait

StopTimesOut ==
    /\ pc = "stopping"
    /\ GivesUp
    /\ abandoned' = abandoned \cup {current}
    /\ current' = 0
    /\ pc' = AfterStop
    /\ purpose' = "none"
    /\ UNCHANGED <<engineVars, guiVars>>

Unborn == {e \in Engines : run[e] = "unborn"}
IsNext(e) == \A f \in Unborn : e <= f

\* check_privileges and check_tun_availability, then the channels, the forwarder
\* and the engine.  (Past the bound on engines only the failure is left.)
StartEngine ==
    /\ pc = "preflight"
    /\ \E e \in Unborn :
          /\ IsNext(e)
          /\ run' = [run EXCEPT ![e] = "running"]
          /\ current' = e
    /\ pc' = "read"
    /\ UNCHANGED <<purpose, abandoned, stop, last, tun, chan, guiVars>>

PreflightFails ==
    /\ pc = "preflight"
    /\ pc' = "error"
    /\ UNCHANGED <<purpose, current, abandoned, engineVars, guiVars>>

ReplyError ==
    /\ pc = "error"
    /\ Deliver("Error")
    /\ pc' = "read"
    /\ UNCHANGED <<purpose, current, abandoned, engineVars, guiOpen, cmds>>

\* The GUI's reader stops at Bye.
ReplyBye ==
    /\ pc = "bye"
    /\ Deliver("Bye")
    /\ guiOpen' = FALSE
    /\ pc' = "exiting"
    /\ UNCHANGED <<purpose, current, abandoned, engineVars, cmds>>

\* The process ends and with it every task that is still there, wherever it is;
\* the system takes back the devices they hold.
ProcessEnds ==
    /\ pc' = "exited"
    /\ run' = [e \in Engines |-> IF run[e] = "running" THEN "ended" ELSE run[e]]
    /\ tun' = [e \in Engines |-> FALSE]
    /\ chan' = [e \in Engines |-> <<>>]
    /\ UNCHANGED <<purpose, current, abandoned, stop, last, guiVars>>

\* serve has returned and so does main: the runtime drops the other tasks.
Exit ==
    /\ pc = "exiting"
    /\ ProcessEnds

\* The helper crashes or is killed; it handles no signal.
Killed ==
    /\ pc # "exited"
    /\ ProcessEnds

-------------------------------------------------------------------------------
(* The engines, as Lifecycle describes them, and their forwarders.        *)

EngineOpensTun(e) ==
    /\ run[e] = "running"
    /\ last[e] = "Connecting" /\ ~tun[e]
    /\ tun' = [tun EXCEPT ![e] = TRUE]
    /\ UNCHANGED <<serveVars, run, stop, last, chan, guiVars>>

\* The events an engine may send next (Lifecycle's Attempt, Up, Retry, Stopped
\* and Refused).
NextEvents(e) ==
      {ev \in {"Connecting"} : last[e] \in {"none", "Reconnecting"}}
    \cup {ev \in {"Established"} : last[e] = "Connecting" /\ tun[e]}
    \cup {ev \in {"Reconnecting"} : last[e] \in {"Connecting", "Established"}}
    \cup {ev \in {"Disconnected"} : stop[e] /\ last[e] \notin Terminal}
    \cup {ev \in {"PermanentError"} : last[e] = "Connecting" /\ ~tun[e]}

\* An attempt removes its routes and closes its device before its end is reported;
\* after a terminal event the task returns.
EngineSends(e) ==
    /\ run[e] = "running"
    /\ Len(chan[e]) < ChanCap
    /\ \E ev \in NextEvents(e) :
          /\ last' = [last EXCEPT ![e] = ev]
          /\ chan' = [chan EXCEPT ![e] = Append(@, ev)]
          /\ tun' = [tun EXCEPT ![e] = @ /\ ev = "Established"]
          /\ run' = [run EXCEPT ![e] = IF ev \in Terminal THEN "ended" ELSE @]
    /\ UNCHANGED <<serveVars, stop, guiVars>>

MutMapEvent(ev) == IF ev = "PermanentError" THEN "TransientError" ELSE ev
MapEvent(ev) == IF ev = "PermanentError" THEN "Error" ELSE ev

\* One iteration of the forwarder task of engine e.
Forward(e) ==
    /\ chan[e] # <<>>
    /\ Deliver(MapEvent(Head(chan[e])))
    /\ chan' = [chan EXCEPT ![e] = Tail(@)]
    /\ UNCHANGED <<serveVars, run, stop, last, tun, guiOpen, cmds>>

-------------------------------------------------------------------------------
Client == ClientSends \/ ClientCloses \/ ClientSeesEnd

Serve ==
    \/ ReadCommand \/ ReadEnds \/ EngineJoined \/ StopTimesOut
    \/ StartEngine \/ PreflightFails \/ ReplyError \/ ReplyBye \/ Exit

Engine(e) == EngineOpensTun(e) \/ EngineSends(e)

Finished == pc = "exited" /\ ~guiOpen /\ UNCHANGED vars

Next ==
    \/ Client
    \/ Serve
    \/ Killed
    \/ \E e \in Engines : Engine(e) \/ Forward(e)
    \/ Finished

\* The runtime polls serve and the forwarders (whose mutex queues its waiters), the
\* ten seconds of stop() pass, and the GUI's reader keeps reading.  Nothing is
\* assumed of an engine: its gateway may never answer.
Fairness ==
    /\ WF_vars(Serve)
    /\ WF_vars(ClientSeesEnd)
    /\ \A e \in Engines : WF_vars(Forward(e))

Spec == Init /\ [][Next]_vars /\ Fairness

-------------------------------------------------------------------------------
(* Properties.                                                            *)

\* What makes Supervised inductive: when stop() waits its engine has been told to
\* stop, and when an engine is about to be started Session is empty.
Attended ==
    /\ pc = "stopping" /\ current # 0 => stop[current]
    /\ pc = "preflight" => current = 0

\* No engine runs unattended: one that is not the session's (it was replaced, or
\* its tunnel was disconnected) has ended, unless the ten seconds of stop() ran
\* out; and even then it has been told to stop.
Supervised ==
    \A e \in Engines : run[e] = "running" =>
        e = current \/ (e \in abandoned /\ stop[e])

\* serve always comes back to the connection: an engine hanging in a handshake
\* cannot keep the helper from obeying Connect, Disconnect, Shutdown or EOF.
AlwaysServes == pc # "read" ~> pc \in {"read", "exited"}

\* When no engine is left the GUI ends up showing Disconnected, whichever way
\* the last one ended (with a terminal event, or because the helper exited or
\* was killed with messages unsent) and however the forwarders interleave (unless another
\* engine is started, or the GUI has gone).
EndIsReported ==
    (\A e \in Engines : run[e] # "running") ~>
        \/ status = "Disconnected"
        \/ \E e \in Engines : run[e] = "running"
        \/ ~guiOpen
==============================================================================
