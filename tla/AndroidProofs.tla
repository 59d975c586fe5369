---------------------------- MODULE AndroidProofs ----------------------------
(* Proofs, for every value of the constants, of the invariants of            *)
(* AndroidService.                                                           *)
EXTENDS AndroidService, FiniteSetTheorems, SequenceTheorems, TLAPS

USE BoundsAssumption

Messages == [to : Instances, what : {"Connect", "Disconnect", "Destroy", "Null"}]

(* Queueing a message for the main thread and taking one keep the queue typed. *)
LEMMA QueueType ==
    ASSUME NEW q \in Seq(Messages)
    PROVE  /\ \A m \in Messages : Append(q, m) \in Seq(Messages)
           /\ q # <<>> => Head(q) \in Messages /\ Tail(q) \in Seq(Messages)
OBVIOUS

(* The starts that are delivered again after the process was killed are typed. *)
LEMMA UndeliveredType ==
    ASSUME queue \in Seq(Messages)
    PROVE  Undelivered \in Seq(Messages)
<1> DEFINE n == Len(queue)
           old == {k \in DOMAIN queue : queue[k].to # live}
<1>1. n \in Nat /\ DOMAIN queue = 1 .. n
  OBVIOUS
<1>2. IsFiniteSet(1 .. n) /\ Cardinality(1 .. n) = n
  <2>1. n \in Int /\ 1 \in Int /\ (IF 1 > n THEN 0 ELSE n - 1 + 1) = n
    BY <1>1
  <2> HIDE DEF n
  <2> QED
    BY <2>1, FS_Interval
<1>3. old \subseteq 1 .. n
  BY <1>1
<1> HIDE DEF old, n
<1>4. Cardinality(old) \in Nat /\ Cardinality(old) <= n
  BY <1>2, <1>3, FS_Subset, FS_CardinalityType
<1> DEFINE c == Cardinality(old)
<1>5. c \in Nat /\ c <= n
  BY <1>4
<1> HIDE DEF c
<1>6. SubSeq(queue, 1 + c, n) \in Seq(Messages)
  BY <1>1, <1>5 DEF n
<1> QED
  BY <1>6 DEF Undelivered, c, n, old

LEMMA RedeliveredType ==
    ASSUME queue \in Seq(Messages), live \in Instances
    PROVE  Unfinished \o Undelivered \in Seq(Messages)
<1>1. \A w \in {"Connect", "Disconnect"} : [to |-> live, what |-> w] \in Messages
  BY DEF Messages
<1>2. Unfinished \in Seq(Messages)
  BY <1>1 DEF Unfinished
<1>3. Undelivered \in Seq(Messages)
  BY UndeliveredType
<1> QED
  BY <1>2, <1>3

(* The two threads of the system are neither each other nor an engine. *)
LEMMA ThreadsApart ==
    /\ Main \notin Engines /\ Binder \notin Engines
    /\ Main \in Threads /\ Binder \in Threads /\ Engines \subseteq Threads
    /\ 0 \in 0 .. MaxEngines /\ 0 \in 0 .. MaxInstances
    /\ Engines \subseteq 0 .. MaxEngines /\ Instances \subseteq 0 .. MaxInstances
    /\ (0 .. MaxInstances) \ {0} \subseteq Instances
    /\ 1 \in Instances
BY DEF Main, Binder, Engines, Instances, Threads

(* stopEngine, and the drop of a sender, keep the flags and the slot typed. *)
LEMMA TellingType ==
    ASSUME stop \in [Engines -> BOOLEAN], StopEngine
    PROVE  stop' \in [Engines -> BOOLEAN] /\ slot' \in 0 .. MaxEngines
BY ThreadsApart DEF StopEngine, Told

(***************************************************************************)
(* Type correctness, together with the fact it needs: a thread at work has *)
(* an instance, from which the generation of a new engine is counted on.   *)
(***************************************************************************)
THEOREM AndroidTypes == Spec => [](TypeOK /\ Homed)
<1> USE DEF TypeOK, Homed, TeardownSteps, StartSteps, EngineSteps
<1>1. Init => TypeOK /\ Homed
  <2> SUFFICES ASSUME Init
               PROVE  TypeOK /\ Homed
    OBVIOUS
  <2>1. queue \in Seq([to : Instances, what : {"Connect", "Disconnect", "Destroy", "Null"}])
    BY DEF Init
  <2> QED
    BY <2>1, ThreadsApart DEF Init
<1>2. TypeOK /\ Homed /\ [Next]_vars => (TypeOK /\ Homed)'
  <2> SUFFICES ASSUME TypeOK, Homed, [Next]_vars
               PROVE  (TypeOK /\ Homed)'
    OBVIOUS
  <2> USE ThreadsApart
      DEF systemVars, fieldVars, engineVars, threadVars, Goto
  <2>0. queue \in Seq(Messages)
    BY DEF Messages
  <2>1. ASSUME NEW w \in {"Connect", "Disconnect"}, StartService(w)
        PROVE  (TypeOK /\ Homed)'
    <3>1. \A i \in Instances : [to |-> i, what |-> w] \in Messages
      BY DEF Messages
    <3>2. \A i \in Instances : Append(queue, [to |-> i, what |-> w]) \in Seq(Messages)
      BY <2>0, <3>1, QueueType
    <3>3. CASE live # 0
      <4>1. live \in Instances
        BY <3>3
      <4>2. queue' = Append(queue, [to |-> live, what |-> w])
        BY <2>1, <3>3 DEF StartService
      <4>3. queue' \in Seq(Messages)
        BY <3>2, <4>1, <4>2
      <4> QED
        BY <2>1, <3>3, <4>3 DEF StartService, Messages
    <3>4. CASE live = 0
      <4>1. PICK i \in Instances :
               /\ live' = i
               /\ queue' = Append(queue, [to |-> i, what |-> w])
               /\ running' = [running EXCEPT ![i] = FALSE]
               /\ generation' = [generation EXCEPT ![i] = 0]
        BY <2>1, <3>4 DEF StartService
      <4>2. queue' \in Seq(Messages)
        BY <3>2, <4>1
      <4> QED
        BY <2>1, <4>1, <4>2 DEF StartService, Messages
    <3> QED
      BY <3>3, <3>4
  <2>2. CASE Plugin
    BY <2>1, <2>2 DEF Plugin, PluginConnect, PluginDisconnect
  <2>3. CASE Revoke
    BY <2>3 DEF Revoke
  <2>4. CASE ProcessKilled
    <3>0. live \in Instances
      BY <2>4 DEF ProcessKilled
    <3>1. [to |-> live, what |-> "Null"] \in Messages
      BY <3>0 DEF Messages
    <3>2. queue' \in Seq(Messages)
      <4> DEFINE q == Unfinished \o Undelivered
                 m == [to |-> live, what |-> "Null"]
      <4>1. q \in Seq(Messages) /\ m \in Messages
        BY <2>0, <3>0, <3>1, RedeliveredType
      <4>2. queue' = IF q # <<>> THEN q ELSE <<m>>
        BY <2>4 DEF ProcessKilled
      <4> HIDE DEF q, m
      <4> QED
        BY <4>1, <4>2
    <3> QED
      BY <2>4, <3>2 DEF ProcessKilled, Messages
  <2>5. ASSUME NEW i \in Instances, BeginConnect(i) \/ BeginTeardown(i)
        PROVE  (TypeOK /\ Homed)'
    <3>1. queue' \in Seq(Messages)
      BY <2>0, <2>5, QueueType DEF BeginConnect, BeginTeardown, Receives
    <3> QED
      BY <2>5, <3>1 DEF BeginConnect, BeginTeardown, Messages
  <2>6. ASSUME NEW i \in Instances, NullIntent(i)
        PROVE  (TypeOK /\ Homed)'
    <3>1. [to |-> i, what |-> "Destroy"] \in Messages
      BY DEF Messages
    <3>2. Tail(queue) \in Seq(Messages)
      BY <2>0, <2>6, QueueType DEF NullIntent, Receives
    <3>3. queue' \in Seq(Messages)
      BY <2>6, <3>1, <3>2, QueueType DEF NullIntent
    <3> QED
      BY <2>6, <3>3 DEF NullIntent, Messages
  <2>7. CASE Replace
    <3>1. stop' \in [Engines -> BOOLEAN] /\ slot' \in 0 .. MaxEngines
      BY <2>7, TellingType DEF Replace
    <3> QED
      BY <2>7, <3>1 DEF Replace
  <2>8. CASE Start
    BY <2>8 DEF Start
  <2>9. CASE Spawn
    <3>1. home[Main] \in Instances
      BY <2>9 DEF Spawn
    <3>2. PICK e \in Unborn :
             /\ myGen' = [myGen EXCEPT ![e] = MyGeneration(read[Main])]
             /\ home' = [home EXCEPT ![e] = home[Main], ![Main] = 0]
             /\ pc' = [pc EXCEPT ![e] = "launch", ![Main] = "idle"]
      BY <2>9 DEF Spawn
    <3>3. e \in Engines
      BY <3>2 DEF Unborn
    <3>4. generation' \in [Instances -> Nat] /\ read' \in [Threads -> Nat]
      BY <2>9, <3>1 DEF Spawn, WriteGeneration, Incremented
    <3>5. MyGeneration(read[Main]) \in Nat
      BY DEF Incremented, MyGeneration
    <3>6. myGen' \in [Engines -> Nat]
      BY <3>2, <3>3, <3>5
    <3>7. UNCHANGED <<systemVars, running, slot, stop>>
      BY <2>9 DEF Spawn
    <3> QED
      BY <3>1, <3>2, <3>3, <3>4, <3>6, <3>7
  <2>10. ASSUME NEW t \in Threads, TearDown(t) \/ ReadGeneration(t) \/ Bump(t) \/ Halt(t)
         PROVE  (TypeOK /\ Homed)'
    <3>1. home[t] \in Instances
      BY <2>10 DEF TearDown, ReadGeneration, Bump, Halt
    <3>2. CASE TearDown(t)
      BY <3>1, <3>2 DEF TearDown
    <3>3. CASE ReadGeneration(t)
      <4>1. read' \in [Threads -> Nat]
        BY <3>1, <3>3 DEF ReadGeneration
      <4>2. /\ pc[t] \in {"bump", "count"}
            /\ pc' = [pc EXCEPT ![t] = IF pc[t] = "bump" THEN "bumping" ELSE "spawn"]
            /\ UNCHANGED <<systemVars, fieldVars, slot, engineVars, home>>
        BY <3>3 DEF ReadGeneration
      <4> QED
        BY <3>1, <4>1, <4>2
    <3>4. CASE Bump(t)
      <4>1. Incremented(read[t]) \in Nat
        BY DEF Incremented
      <4>2. generation' \in [Instances -> Nat] /\ read' \in [Threads -> Nat]
        BY <3>1, <3>4, <4>1 DEF Bump, WriteGeneration
      <4> QED
        BY <3>1, <3>4, <4>2 DEF Bump
    <3>5. CASE Halt(t)
      BY <3>1, <3>5, TellingType DEF Halt
    <3> QED
      BY <2>10, <3>2, <3>3, <3>4, <3>5
  <2>11. ASSUME NEW t \in Threads, Release(t)
         PROVE  (TypeOK /\ Homed)'
    <3>1. home[t] \in Instances
      BY <2>11 DEF Release
    <3>2. [to |-> home[t], what |-> "Destroy"] \in Messages
      BY <3>1 DEF Messages
    <3>3. queue' \in Seq(Messages)
      BY <2>0, <2>11, <3>2, QueueType DEF Release, StopSelf
    <3> QED
      BY <2>11, <3>3 DEF Release, StopSelf, Done, Messages
  <2>12. ASSUME NEW e \in Engines, TakeOld(e) \/ Register(e) \/ EngineEnds(e)
         PROVE  (TypeOK /\ Homed)'
    <3>1. home[e] \in Instances
      BY <2>12 DEF TakeOld, Register, EngineEnds
    <3>2. CASE TakeOld(e)
      BY <3>1, <3>2, TellingType DEF TakeOld
    <3>3. CASE Register(e)
      BY <3>1, <3>3 DEF Register, Displaced, Told
    <3>4. CASE EngineEnds(e)
      BY <3>1, <3>4 DEF EngineEnds
    <3> QED
      BY <2>12, <3>2, <3>3, <3>4
  <2>13. ASSUME NEW e \in Engines, Finish(e)
         PROVE  (TypeOK /\ Homed)'
    <3>1. CASE pc' = [pc EXCEPT ![e] = "down"] /\ UNCHANGED <<myGen, home>>
      BY <2>13, <3>1 DEF Finish
    <3>2. CASE Done(e)
      <4>1. /\ pc' = [pc EXCEPT ![e] = "ended"]
            /\ home' = [home EXCEPT ![e] = 0]
            /\ myGen' \in [Engines -> Nat]
        BY <3>2 DEF Done
      <4> QED
        BY <2>13, <4>1 DEF Finish
    <3> QED
      BY <2>13, <3>1, <3>2 DEF Finish
  <2>14. CASE UNCHANGED vars
    BY <2>14 DEF vars
  <2> QED
    BY <2>2, <2>3, <2>4, <2>5, <2>6, <2>7, <2>8, <2>9, <2>10, <2>11, <2>12,
       <2>13, <2>14
    DEF Next, System, MainSteps, Service, Bridge, Finished
<1> QED
  BY <1>1, <1>2, PTL DEF Spec

-------------------------------------------------------------------------------
(* Emptying the slot keeps the invariant: whoever was in it has been told. *)
LEMMA TellingKeepsReachable ==
    ASSUME stop \in [Engines -> BOOLEAN], OneUnstopped, StopEngine,
           \A e \in Engines : pc'[e] = "engine" => pc[e] = "engine"
    PROVE  OneUnstopped'
BY DEF OneUnstopped, StopEngine, Told

(***************************************************************************)
(* For any number of connects, replacements, teardowns and service         *)
(* instances, at most one engine runs untold, and it is the one stopEngine *)
(* reaches through ENGINE_SHUTDOWN.  The slot is emptied only by telling   *)
(* its engine, and overwritten only by dropping its sender.                *)
(***************************************************************************)
THEOREM EngineIsReachable == Spec => []OneUnstopped
<1>1. Init => OneUnstopped
  BY ThreadsApart DEF Init, OneUnstopped
<1>2. TypeOK /\ OneUnstopped /\ [Next]_vars => OneUnstopped'
  <2> SUFFICES ASSUME TypeOK, OneUnstopped, [Next]_vars
               PROVE  OneUnstopped'
    OBVIOUS
  <2> USE ThreadsApart
      DEF OneUnstopped, systemVars, fieldVars, engineVars, threadVars, Goto
  <2>0. /\ pc \in [Threads -> {"idle"} \cup TeardownSteps \cup StartSteps \cup EngineSteps]
        /\ stop \in [Engines -> BOOLEAN]
    BY DEF TypeOK
  <2>1. CASE Plugin \/ Revoke
    BY <2>0, <2>1 DEF Plugin, PluginConnect, PluginDisconnect, StartService, Revoke
  <2>2. CASE ProcessKilled
    BY <2>0, <2>2 DEF ProcessKilled
  <2>3. ASSUME NEW i \in Instances, BeginConnect(i) \/ BeginTeardown(i) \/ NullIntent(i)
        PROVE  OneUnstopped'
    BY <2>0, <2>3 DEF BeginConnect, BeginTeardown, NullIntent
  <2>4. CASE Replace \/ Start
    <3>1. \A e \in Engines : pc'[e] = pc[e]
      BY <2>0, <2>4 DEF Replace, Start
    <3>2. UNCHANGED <<stop, slot>> => OneUnstopped'
      BY <3>1
    <3> QED
      BY <2>0, <2>4, <3>1, <3>2, TellingKeepsReachable DEF Replace, Start
  <2>5. CASE Spawn
    BY <2>0, <2>5 DEF Spawn, Unborn
  <2>6. ASSUME NEW t \in Threads, Service(t)
        PROVE  OneUnstopped'
    <3>1. CASE TearDown(t) \/ ReadGeneration(t) \/ Bump(t)
      BY <2>0, <3>1 DEF TearDown, ReadGeneration, Bump
    <3>2. CASE Halt(t)
      <4>1. \A e \in Engines : pc'[e] = "engine" => pc[e] = "engine"
        BY <2>0, <3>2 DEF Halt
      <4> QED
        BY <2>0, <3>2, <4>1, TellingKeepsReachable DEF Halt
    <3>3. CASE Release(t)
      BY <2>0, <3>3 DEF Release, Done
    <3> QED
      BY <2>6, <3>1, <3>2, <3>3 DEF Service
  <2>7. ASSUME NEW e \in Engines, TakeOld(e) \/ EngineEnds(e) \/ Finish(e)
        PROVE  OneUnstopped'
    <3>1. CASE TakeOld(e)
      <4>1. \A f \in Engines : pc'[f] = "engine" => pc[f] = "engine"
        BY <2>0, <3>1 DEF TakeOld
      <4> QED
        BY <2>0, <3>1, <4>1, TellingKeepsReachable DEF TakeOld
    <3>2. CASE EngineEnds(e)
      BY <2>0, <3>2 DEF EngineEnds
    <3>3. CASE Finish(e)
      BY <2>0, <3>3 DEF Finish, Done
    <3> QED
      BY <2>7, <3>1, <3>2, <3>3
  <2>8. ASSUME NEW e \in Engines, Register(e)
        PROVE  OneUnstopped'
    BY <2>0, <2>8 DEF Register, Displaced, Told
  <2>9. CASE UNCHANGED vars
    BY <2>9 DEF vars
  <2> QED
    BY <2>1, <2>2, <2>3, <2>4, <2>5, <2>6, <2>7, <2>8, <2>9
    DEF Next, System, MainSteps, Bridge, Finished
<1> QED
  BY <1>1, <1>2, AndroidTypes, PTL DEF Spec
==============================================================================
