---------------------------- MODULE AndroidService ----------------------------
(***************************************************************************)
(* The Android side of the client: VpnPlugin.kt and VpnController.kt (the  *)
(* commands of the interface and the consent dialog), YellowVpnService.kt  *)
(* (the service, its engine threads and its teardown) and jni_bridge.rs    *)
(* (runEngine, stopEngine and the ENGINE_SHUTDOWN slot they share).        *)
(*                                                                         *)
(* Three kinds of thread run the service's code: the main thread, the      *)
(* binder thread that calls onRevoke, and one thread per engine.  Nothing  *)
(* but the slot is locked, so each access to `running`, `generation` or    *)
(* the slot is a step.  The fields belong to an instance of the service;   *)
(* the system makes a new one for a start that comes after stopSelf.  The  *)
(* engine's events, the notification and the descriptor are left out.      *)
(***************************************************************************)
EXTENDS Integers, Sequences, FiniteSets

CONSTANTS
    MaxEngines,     \* bound: connects in the life of the process
    MaxInstances,   \* bound: instances of the service referred to at a time
    QueueCap        \* bound: starts waiting for the main thread

ASSUME BoundsAssumption ==
    {MaxEngines, MaxInstances, QueueCap} \subseteq Nat \ {0}

VARIABLES
    live,         \* the instance that gets the next start, 0 for none
    queue,        \* what the main thread has to do: starts and onDestroy
    running,      \* per instance: the field `running`
    generation,   \* per instance: the field `generation`
    slot,         \* ENGINE_SHUTDOWN: the engine whose sender it holds, or 0
    stop,         \* per engine: told to stop, by send(true) or a dropped sender
    myGen,        \* per engine: the generation it was started for
    pc,           \* per thread: where it is
    home,         \* per thread: the instance whose code it runs
    read          \* per thread: the `generation` it has read to increment

systemVars == <<live, queue>>
fieldVars == <<running, generation>>
engineVars == <<stop, myGen>>
threadVars == <<pc, home, read>>
vars == <<systemVars, fieldVars, slot, engineVars, threadVars>>

Engines == 1 .. MaxEngines
Instances == 1 .. MaxInstances
Main == 0
Binder == MaxEngines + 1
Threads == Engines \cup {Main, Binder}

TeardownSteps == {"down", "bump", "bumping", "halt", "release"}
StartSteps == {"replace", "start", "count", "spawn"}
EngineSteps == {"unborn", "launch", "taken", "engine", "returned", "ended"}

TypeOK ==
    /\ live \in 0 .. MaxInstances
    /\ queue \in Seq([to : Instances, what : {"Connect", "Disconnect", "Destroy", "Null"}])
    /\ running \in [Instances -> BOOLEAN]
    /\ generation \in [Instances -> Nat]
    /\ slot \in 0 .. MaxEngines
    /\ stop \in [Engines -> BOOLEAN]
    /\ myGen \in [Engines -> Nat]
    /\ pc \in [Threads -> {"idle"} \cup TeardownSteps \cup StartSteps \cup EngineSteps]
    /\ \A e \in Engines : pc[e] \in TeardownSteps \cup EngineSteps
    /\ home \in [Threads -> 0 .. MaxInstances]
    /\ read \in [Threads -> Nat]

Init ==
    /\ live = 0
    /\ queue = <<>>
    /\ running = [i \in Instances |-> FALSE]
    /\ generation = [i \in Instances |-> 0]
    /\ slot = 0
    /\ stop = [e \in Engines |-> FALSE]
    /\ myGen = [e \in Engines |-> 0]
    /\ pc = [t \in Threads |-> IF t \in Engines THEN "unborn" ELSE "idle"]
    /\ home = [t \in Threads |-> 0]
    /\ read = [t \in Threads |-> 0]

Goto(t, step) == pc' = [pc EXCEPT ![t] = step]

\* A thread is done, with what it was doing or for good: its locals go.
Done(t) ==
    /\ Goto(t, IF t \in Engines THEN "ended" ELSE "idle")
    /\ home' = [home EXCEPT ![t] = 0]
    /\ myGen' = [e \in Engines |-> IF e = t THEN 0 ELSE myGen[e]]

-------------------------------------------------------------------------------
(* The plugin's commands and the system's handling of starts.             *)

\* An instance nothing refers to any more stands for one yet to be made.
Fresh(i) ==
    /\ live # i
    /\ \A n \in DOMAIN queue : queue[n].to # i
    /\ \A t \in Threads : home[t] # i

\* startService / startForegroundService: the start goes to the live instance, or
\* to a new one.
StartService(what) ==
    /\ Len(queue) < QueueCap
    /\ \/ /\ live # 0
          /\ queue' = Append(queue, [to |-> live, what |-> what])
          /\ UNCHANGED <<live, running, generation>>
       \/ /\ live = 0
          /\ \E i \in Instances :
                /\ Fresh(i)
                /\ live' = i
                /\ queue' = Append(queue, [to |-> i, what |-> what])
                /\ running' = [running EXCEPT ![i] = FALSE]
                /\ generation' = [generation EXCEPT ![i] = 0]
    /\ UNCHANGED <<slot, engineVars, threadVars>>

\* Connects the service has not answered with a thread yet.
Pending ==
    Cardinality({n \in DOMAIN queue : queue[n].what = "Connect"})
        + (IF pc[Main] \in StartSteps THEN 1 ELSE 0)

Unborn == {e \in Engines : pc[e] = "unborn"}

\* connect, once the user has consented; a refusal starts nothing.
PluginConnect ==
    /\ Pending < Cardinality(Unborn)
    /\ StartService("Connect")

PluginDisconnect == StartService("Disconnect")

\* stopSelf of instance i: onDestroy is queued after the starts it already has.
StopSelf(i) ==
    IF live = i
      THEN /\ live' = 0
           /\ queue' = Append(queue, [to |-> i, what |-> "Destroy"])
      ELSE UNCHANGED systemVars

\* Another VPN application takes over: onRevoke, on a thread of the system's.
Revoke ==
    /\ pc[Binder] = "idle"
    /\ live # 0
    /\ home' = [home EXCEPT ![Binder] = live]
    /\ Goto(Binder, "down")
    /\ UNCHANGED <<systemVars, fieldVars, slot, engineVars, read>>

\* The starts of the live instance that wait: what else is in the queue is the
\* onDestroy of earlier instances, and comes before them.
Undelivered ==
    SubSeq(queue, 1 + Cardinality({n \in DOMAIN queue : queue[n].to # live}), Len(queue))

\* The start the main thread is in the middle of.
Unfinished ==
    IF home[Main] # live THEN <<>>
    ELSE <<[to |-> live,
            what |-> IF pc[Main] \in StartSteps THEN "Connect" ELSE "Disconnect"]>>

\* The system kills the process and, the service being sticky, restarts it: with
\* the starts that it did not deliver or that did not finish, else a null intent.
ProcessKilled ==
    /\ live # 0
    /\ queue' = IF Unfinished \o Undelivered # <<>> THEN Unfinished \o Undelivered
                ELSE <<[to |-> live, what |-> "Null"]>>
    /\ UNCHANGED live
    /\ running' = [i \in Instances |-> FALSE]
    /\ generation' = [i \in Instances |-> 0]
    /\ slot' = 0
    /\ stop' = [e \in Engines |-> FALSE]
    /\ myGen' = [e \in Engines |-> 0]
    /\ pc' = [t \in Threads |-> IF t \in Engines THEN "unborn" ELSE "idle"]
    /\ home' = [t \in Threads |-> 0]
    /\ read' = [t \in Threads |-> 0]

-------------------------------------------------------------------------------
(* The main thread: onStartCommand and onDestroy.                         *)

\* The first message, if the main thread is free for it.
Receives(what, i) ==
    /\ pc[Main] = "idle"
    /\ queue # <<>>
    /\ Head(queue) = [to |-> i, what |-> what]

BeginConnect(i) ==
    /\ Receives("Connect", i)
    /\ queue' = Tail(queue)
    /\ home' = [home EXCEPT ![Main] = i]
    /\ Goto(Main, "replace")
    /\ UNCHANGED <<live, fieldVars, slot, engineVars, read>>

\* ACTION_DISCONNECT and onDestroy both call teardown.
BeginTeardown(i) ==
    /\ Receives("Disconnect", i) \/ Receives("Destroy", i)
    /\ queue' = Tail(queue)
    /\ home' = [home EXCEPT ![Main] = i]
    /\ Goto(Main, "down")
    /\ UNCHANGED <<live, fieldVars, slot, engineVars, read>>

\* No host: stopSelf at once.
NullIntent(i) ==
    /\ Receives("Null", i)
    /\ live' = 0
    /\ queue' = Append(Tail(queue), [to |-> i, what |-> "Destroy"])
    /\ UNCHANGED <<fieldVars, slot, engineVars, threadVars>>

\* The sender of engine e is used, or dropped: changed() returns either way, which
\* is all the engine looks at while it forwards or backs off.
Told(e) == [f \in Engines |-> stop[f] \/ f = e]

\* stopEngine, under the slot's lock.
StopEngine == stop' = Told(slot) /\ slot' = 0

\* `if (running)`: stop the old engine.
Replace ==
    /\ pc[Main] = "replace"
    /\ IF running[home[Main]] THEN StopEngine ELSE UNCHANGED <<stop, slot>>
    /\ Goto(Main, "start")
    /\ UNCHANGED <<systemVars, fieldVars, myGen, home, read>>

\* Close the old descriptor, if there is one, and set `running`.
Start ==
    /\ pc[Main] = "start"
    /\ running' = [running EXCEPT ![home[Main]] = TRUE]
    /\ Goto(Main, "count")
    /\ UNCHANGED <<systemVars, generation, slot, engineVars, home, read>>

\* `generation++` and `++generation` are a read and a write, on any thread t: what
\* other threads have counted in between is overwritten.
ReadGeneration(t) ==
    /\ pc[t] \in {"bump", "count"}
    /\ read' = [read EXCEPT ![t] = generation[home[t]]]
    /\ Goto(t, IF pc[t] = "bump" THEN "bumping" ELSE "spawn")
    /\ UNCHANGED <<systemVars, fieldVars, slot, engineVars, home>>

MutIncremented(g) == g - 1
Incremented(g) == g + 1

\* The write of the value read by thread t, incremented.
WriteGeneration(t) ==
    /\ generation' = [generation EXCEPT ![home[t]] = Incremented(read[t])]
    /\ read' = [read EXCEPT ![t] = 0]

\* The value of `++generation` that the new thread remembers.
MutMyGeneration(g) == g
MyGeneration(g) == Incremented(g)

Spawn ==
    /\ pc[Main] = "spawn"
    /\ WriteGeneration(Main)
    /\ \E e \in Unborn :
          /\ \A f \in Unborn : e <= f
          /\ myGen' = [myGen EXCEPT ![e] = MyGeneration(read[Main])]
          /\ home' = [home EXCEPT ![e] = home[Main], ![Main] = 0]
          /\ pc' = [pc EXCEPT ![e] = "launch", ![Main] = "idle"]
    /\ UNCHANGED <<systemVars, running, slot, stop>>

-------------------------------------------------------------------------------
(* teardown, by any thread t.                                             *)

TearDown(t) ==
    /\ pc[t] = "down"
    /\ running' = [running EXCEPT ![home[t]] = FALSE]
    /\ Goto(t, "bump")
    /\ UNCHANGED <<systemVars, generation, slot, engineVars, home, read>>

Bump(t) ==
    /\ pc[t] = "bumping"
    /\ WriteGeneration(t)
    /\ Goto(t, "halt")
    /\ UNCHANGED <<systemVars, running, slot, engineVars, home>>

Halt(t) ==
    /\ pc[t] = "halt"
    /\ StopEngine
    /\ Goto(t, "release")
    /\ UNCHANGED <<systemVars, fieldVars, myGen, home, read>>

\* Close the descriptor, show "disconnected" and stop the service.
Release(t) ==
    /\ pc[t] = "release"
    /\ StopSelf(home[t])
    /\ Done(t)
    /\ UNCHANGED <<running, generation, slot, stop, read>>

-------------------------------------------------------------------------------
(* An engine's thread.                                                    *)

Current(e) == generation[home[e]] = myGen[e]

\* runEngine stops whoever is registered, and registers itself: two critical
\* sections, so a sender that came in between is dropped.
TakeOld(e) ==
    /\ pc[e] = "launch"
    /\ StopEngine
    /\ Goto(e, "taken")
    /\ UNCHANGED <<systemVars, fieldVars, myGen, home, read>>

MutDisplaced == stop
Displaced == Told(slot)

Register(e) ==
    /\ pc[e] = "taken"
    /\ stop' = Displaced
    /\ slot' = e
    /\ Goto(e, "engine")
    /\ UNCHANGED <<systemVars, fieldVars, myGen, home, read>>

\* runEngine returns: the engine ends, told to stop or refused by the gateway, or
\* the bridge or the runtime cannot be set up and nothing was registered.
EngineEnds(e) ==
    /\ pc[e] \in {"launch", "engine"}
    /\ Goto(e, "returned")
    /\ UNCHANGED <<systemVars, fieldVars, slot, engineVars, home, read>>

\* runEngine has returned: tear the service down if the engine is still its own.
Finish(e) ==
    /\ pc[e] = "returned"
    /\ IF Current(e) /\ running[home[e]]
         THEN Goto(e, "down") /\ UNCHANGED <<myGen, home>>
         ELSE Done(e)
    /\ UNCHANGED <<systemVars, fieldVars, slot, stop, read>>

-------------------------------------------------------------------------------
Plugin == PluginConnect \/ PluginDisconnect

System == Revoke \/ ProcessKilled

\* The steps a thread takes by itself.
MainSteps ==
    \/ \E i \in Instances : BeginConnect(i) \/ BeginTeardown(i) \/ NullIntent(i)
    \/ Replace \/ Start \/ Spawn

Service(t) ==
    TearDown(t) \/ ReadGeneration(t) \/ Bump(t) \/ Halt(t) \/ Release(t)

Bridge(e) == TakeOld(e) \/ Register(e) \/ Finish(e)

Finished ==
    /\ \A t \in Threads : pc[t] \in {"idle", "unborn", "ended"}
    /\ queue = <<>>
    /\ UNCHANGED vars

Next ==
    \/ Plugin \/ System \/ MainSteps
    \/ \E t \in Threads : Service(t)
    \/ \E e \in Engines : Bridge(e) \/ EngineEnds(e)
    \/ Finished

\* Every thread is scheduled.  Nothing is assumed of the gateway, the user or the
\* system, so an engine may take for ever.
Fairness ==
    /\ WF_vars(MainSteps)
    /\ \A t \in Threads : WF_vars(Service(t))
    /\ \A e \in Engines : WF_vars(Bridge(e))

Spec == Init /\ [][Next]_vars /\ Fairness

-------------------------------------------------------------------------------
(* Properties.                                                            *)

\* Whatever order threads start, replace and stop each other in, at most one
\* engine has not been told to stop, and stopEngine reaches it: an engine that
\* runs untold is the one in ENGINE_SHUTDOWN.
OneUnstopped ==
    \A e \in Engines : pc[e] = "engine" /\ ~stop[e] => slot = e

\* A thread at work runs the code of some instance (used by the proofs: a new
\* engine's generation is read from that instance).
Homed ==
    \A t \in Threads :
        pc[t] \notin {"idle", "unborn", "ended"} => home[t] \in Instances

\* A thread of the instance's current generation exists and is not done.
Attended(i) ==
    \E e \in Engines :
        /\ home[e] = i
        /\ pc[e] \notin {"unborn", "ended"}
        /\ Current(e)

\* The service never stays up with nobody behind it: when its engine has ended,
\* or was disowned by a teardown that raced with a connect, `running` goes back
\* to false (by the engine's thread, or by the onDestroy after stopSelf).
EndIsNoticed ==
    \A i \in Instances :
        (running[i] /\ ~Attended(i)) ~> (~running[i] \/ Attended(i))

\* "`stopEngine` (called from Kotlin on disconnect/teardown) flips it to end the
\* tunnel": an engine whose service has been torn down, onDestroy included, has
\* been told to stop.
TeardownStops ==
    \A e \in Engines :
        /\ pc[e] = "engine"
        /\ ~running[home[e]] /\ ~Current(e)
        /\ queue = <<>>
        /\ \A t \in Threads : pc[t] \notin TeardownSteps \cup StartSteps
        => stop[e]
==============================================================================
