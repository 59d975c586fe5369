----------------------------- MODULE HelperProofs -----------------------------
(* Proofs, for any number of engines and any channel capacity, about Helper. *)
EXTENDS Helper, TLAPS

(* An engine's number is a value Session can hold, and 0 (None) is none's. *)
LEMMA EngineIds ==
    /\ Engines \subseteq 0 .. MaxEngines
    /\ 0 \in 0 .. MaxEngines
    /\ 0 \notin Engines
    /\ \A n \in 0 .. MaxEngines : n # 0 => n \in Engines
BY BoundsAssumption DEF Engines

(* Queues of commands and of events only ever hold their own kind. *)
LEMMA Queues ==
    ASSUME NEW S, NEW q \in Seq(S), NEW x \in S
    PROVE  /\ Append(q, x) \in Seq(S)
           /\ q # <<>> => Head(q) \in S /\ Tail(q) \in Seq(S)
OBVIOUS

(***************************************************************************)
(* Type correctness: in particular the GUI's status is always one of the   *)
(* four states the frontend knows, whatever the helper sends.              *)
(***************************************************************************)
THEOREM HelperTypes == Spec => []TypeOK
<1>1. Init => TypeOK
  <2> SUFFICES ASSUME Init PROVE TypeOK
    OBVIOUS
  <2>1. <<>> \in Seq(ClientCommand) /\ <<>> \in Seq(ClientEvent)
    OBVIOUS
  <2> QED
    BY <2>1, EngineIds DEF Init, TypeOK, WireState
<1>2. TypeOK /\ [Next]_vars => TypeOK'
  <2> SUFFICES ASSUME TypeOK, [Next]_vars
               PROVE  TypeOK'
    OBVIOUS
  <2> USE DEF TypeOK, Purposes, serveVars, engineVars, guiVars
  <2>1. CASE ClientSends
    <3>1. PICK c \in ClientCommand : cmds' = Append(cmds, c)
      BY <2>1 DEF ClientSends
    <3>2. cmds' \in Seq(ClientCommand)
      BY <3>1, Queues
    <3> QED
      BY <2>1, <3>2 DEF ClientSends
  <2>2. CASE ClientCloses
    BY <2>2 DEF ClientCloses
  <2>3. CASE ClientSeesEnd
    BY <2>3 DEF ClientSeesEnd, WireState
  <2>4. CASE ReadCommand
    <3>1. cmds' \in Seq(ClientCommand)
      BY <2>4, Queues DEF ReadCommand
    <3>2. stop' \in [Engines -> BOOLEAN]
      BY <2>4 DEF ReadCommand, BeginStop, Signalled
    <3> QED
      BY <2>4, <3>1, <3>2 DEF ReadCommand, BeginStop, ClientCommand
  <2>5. CASE ReadEnds
    <3>1. stop' \in [Engines -> BOOLEAN]
      BY <2>5 DEF ReadEnds, BeginStop, Signalled
    <3> QED
      BY <2>5, <3>1 DEF ReadEnds, BeginStop
  <2>6. CASE EngineJoined
    BY <2>6, EngineIds DEF EngineJoined, AfterStop
  <2>7. CASE StopTimesOut
    BY <2>7, EngineIds DEF StopTimesOut, GivesUp, MustWait, AfterStop
  <2>8. CASE StartEngine
    BY <2>8, EngineIds DEF StartEngine, Unborn
  <2>9. CASE PreflightFails
    BY <2>9 DEF PreflightFails
  <2>10. CASE ReplyError
    BY <2>10 DEF ReplyError, Deliver, StatusAfter, WireState
  <2>11. CASE ReplyBye
    BY <2>11 DEF ReplyBye, Deliver, StatusAfter, WireState
  <2>12. CASE ProcessEnds
    <3>1. [e \in Engines |-> <<>>] \in [Engines -> Seq(ClientEvent)]
      OBVIOUS
    <3> QED
      BY <2>12, <3>1 DEF ProcessEnds
  <2>13. ASSUME NEW e \in Engines, EngineOpensTun(e)
         PROVE  TypeOK'
    BY <2>13 DEF EngineOpensTun
  <2>14. ASSUME NEW e \in Engines, EngineSends(e)
         PROVE  TypeOK'
    <3>1. PICK ev \in ClientEvent :
              /\ last' = [last EXCEPT ![e] = ev]
              /\ chan' = [chan EXCEPT ![e] = Append(@, ev)]
              /\ tun' = [tun EXCEPT ![e] = @ /\ ev = "Established"]
              /\ run' = [run EXCEPT ![e] = IF ev \in Terminal THEN "ended" ELSE @]
      <4>1. NextEvents(e) \subseteq ClientEvent
        BY DEF NextEvents, ClientEvent
      <4> QED
        BY <2>14, <4>1 DEF EngineSends
    <3>2. chan' \in [Engines -> Seq(ClientEvent)]
      BY <3>1, Queues
    <3>3. tun' \in [Engines -> BOOLEAN]
      BY <3>1
    <3>4. run' \in [Engines -> {"unborn", "running", "ended"}]
      BY <3>1
    <3> QED
      BY <2>14, <3>1, <3>2, <3>3, <3>4 DEF EngineSends
  <2>15. ASSUME NEW e \in Engines, Forward(e)
         PROVE  TypeOK'
    <3>1. Head(chan[e]) \in ClientEvent /\ Tail(chan[e]) \in Seq(ClientEvent)
      BY <2>15 DEF Forward
    <3>2. status' \in WireState
      BY <2>15, <3>1 DEF Forward, Deliver, StatusAfter, MapEvent, WireState,
                         ClientEvent
    <3> QED
      BY <2>15, <3>1, <3>2 DEF Forward
  <2>16. CASE UNCHANGED vars
    BY <2>16 DEF vars
  <2> QED
    BY <2>1, <2>2, <2>3, <2>4, <2>5, <2>6, <2>7, <2>8, <2>9, <2>10, <2>11,
       <2>12, <2>13, <2>14, <2>15, <2>16
       DEF Next, Client, Serve, Exit, Killed, Engine, Finished
<1> QED
  BY <1>1, <1>2, PTL DEF Spec

(***************************************************************************)
(* The helper never loses sight of a tunnel: an engine that runs is the    *)
(* session's, or was told to stop and outlived the timeout.  Supervised    *)
(* alone is not inductive: that stop() may drop a handle needs the signal  *)
(* it sent first, and that StartEngine replaces nothing needs the empty    *)
(* Session stop() leaves.  Both are in Attended.                           *)
(***************************************************************************)
THEOREM NoEngineUnattended == Spec => [](Supervised /\ Attended)
<1>1. Init => Supervised /\ Attended
  BY DEF Init, Supervised, Attended
<1>2. TypeOK /\ Supervised /\ Attended /\ [Next]_vars => (Supervised /\ Attended)'
  <2> SUFFICES ASSUME TypeOK, Supervised, Attended, [Next]_vars
               PROVE  (Supervised /\ Attended)'
    OBVIOUS
  <2> USE DEF Supervised, Attended, serveVars, engineVars, guiVars
  <2>1. CASE Client
    BY <2>1 DEF Client, ClientSends, ClientCloses, ClientSeesEnd
  <2>2. CASE ReadCommand
    BY <2>2, EngineIds DEF ReadCommand, BeginStop, Signalled, TypeOK
  <2>3. CASE ReadEnds
    BY <2>3, EngineIds DEF ReadEnds, BeginStop, Signalled, TypeOK
  <2>4. CASE EngineJoined
    BY <2>4, EngineIds DEF EngineJoined, MustWait, AfterStop, TypeOK
  <2>5. CASE StopTimesOut
    BY <2>5, EngineIds DEF StopTimesOut, GivesUp, MustWait, AfterStop, TypeOK
  <2>6. CASE StartEngine
    BY <2>6, EngineIds DEF StartEngine, Unborn, TypeOK
  <2>7. CASE PreflightFails
    BY <2>7 DEF PreflightFails
  <2>8. CASE ReplyError
    BY <2>8 DEF ReplyError
  <2>9. CASE ReplyBye
    BY <2>9 DEF ReplyBye
  <2>10. CASE ProcessEnds
    BY <2>10 DEF ProcessEnds
  <2>11. ASSUME NEW e \in Engines, EngineOpensTun(e)
         PROVE  (Supervised /\ Attended)'
    BY <2>11 DEF EngineOpensTun
  <2>12. ASSUME NEW e \in Engines, EngineSends(e)
         PROVE  (Supervised /\ Attended)'
    BY <2>12 DEF EngineSends, TypeOK
  <2>13. ASSUME NEW e \in Engines, Forward(e)
         PROVE  (Supervised /\ Attended)'
    BY <2>13 DEF Forward
  <2>14. CASE UNCHANGED vars
    BY <2>14 DEF vars
  <2> QED
    BY <2>1, <2>2, <2>3, <2>4, <2>5, <2>6, <2>7, <2>8, <2>9, <2>10, <2>11,
       <2>12, <2>13, <2>14 DEF Next, Serve, Exit, Killed, Engine, Finished
<1> QED
  BY <1>1, <1>2, HelperTypes, PTL DEF Spec
==============================================================================
