--------------------------- MODULE SupervisorProofs ---------------------------
(* Proofs, for every value of the constants, of the invariants of Supervisor. *)
EXTENDS Supervisor, SequenceTheorems, TLAPS

USE ProtocolsAssumption, RouteCountAssumption, EventCapAssumption,
    U32MaxAssumption, MinSustainedAssumption

(* The event channel only ever holds events, whichever are sent or taken. *)
LEMMA ChannelType ==
    ASSUME NEW q \in Seq(ClientEvent), NEW e \in ClientEvent
    PROVE  /\ Append(q, e) \in Seq(ClientEvent)
           /\ q # <<>> => Head(q) \in ClientEvent /\ Tail(q) \in Seq(ClientEvent)
OBVIOUS

(* Where the counters start, and the channel when it is empty. *)
LEMMA Beginnings ==
    /\ 0 \in 0 .. RouteCount
    /\ 0 \in 0 .. U32Max
    /\ 0 \in 0 .. MinSustained
    /\ <<>> \in Seq(ClientEvent)
OBVIOUS

(* The route the loops of install_routes and remove_all are at is one of the
   list, and moving on stays within it. *)
LEMMA NextRoute ==
    ASSUME NEW n \in 0 .. RouteCount, n < RouteCount
    PROVE  n + 1 \in Routes /\ n + 1 \in 0 .. RouteCount
BY DEF Routes

(***************************************************************************)
(* Type correctness of the supervisor's loop: the attempt counter never    *)
(* leaves the range of its integer type however long the engine keeps      *)
(* reconnecting, and the channel only carries ClientEvents.                *)
(***************************************************************************)
THEOREM TypeCorrect == Spec => []TypeOK
<1>1. Init => TypeOK
  BY Beginnings DEF Init, TypeOK, ClientEvent, Outcomes, Steps, InAttempt, NetworkWaits,
         CccStates, Routes
<1>2. TypeOK /\ [Next]_vars => TypeOK'
  <2> SUFFICES ASSUME TypeOK, [Next]_vars
               PROVE  TypeOK'
    OBVIOUS
  <2> USE DEF TypeOK, Steps, InAttempt, NetworkWaits, CccStates, engineVars,
              routeVars, channelVars
  <2>1. CASE RequestShutdown
    BY <2>1 DEF RequestShutdown
  <2>2. CASE Receive
    BY <2>2, ChannelType DEF Receive
  <2>3. CASE Tick
    BY <2>3 DEF Tick
  <2>4. CASE Send
    <3>1. out \in ClientEvent
      BY <2>4 DEF Send
    <3> QED
      BY <2>4, <3>1, ChannelType DEF Send
  <2>5. CASE LoopTop
    BY <2>5, Beginnings DEF LoopTop, LoopTopStops, ClientEvent, Outcomes
  <2>6. CASE AuthenticateAnyConnect \/ AuthenticateFortiGate
    BY <2>6 DEF AuthenticateAnyConnect, AuthenticateFortiGate, Proceed, GiveUp,
                Outcomes
  <2>7. CASE AuthenticateCheckpoint
    BY <2>7 DEF AuthenticateCheckpoint, Proceed, GiveUp, Outcomes
  <2>8. CASE CstpConnect \/ SlimHello \/ OpenTunnel
    BY <2>8 DEF CstpConnect, SlimHello, OpenTunnel, Proceed, GiveUp, AfterTunnel,
                Outcomes
  <2>9. CASE OpenTun
    BY <2>9, Beginnings DEF OpenTun, AfterTunnel, Outcomes
  <2>10. CASE InstallRoute
    BY <2>10, Beginnings, NextRoute DEF InstallRoute
  <2>11. CASE TunnelUp
    BY <2>11 DEF TunnelUp, ClientEvent
  <2>12. CASE RemoveRoute
    <3>1. removed < RouteCount
      BY <2>12 DEF RemoveRoute, LastRemoved
    <3> QED
      BY <2>12, <3>1, NextRoute DEF RemoveRoute
  <2>13. CASE CloseTun
    BY <2>13 DEF CloseTun, AfterTunnel, Outcomes
  <2>14. CASE WriteToGateway \/ WriteDone
    BY <2>14 DEF WriteToGateway, WriteDone
  <2>15. CASE ForwardingStops \/ GoodbyeDone \/ ForwardingFails
    BY <2>15, Beginnings DEF ForwardingStops, GoodbyeDone, ForwardingFails, Outcomes
  <2>16. CASE SignOut
    BY <2>16 DEF SignOut
  <2>17. CASE Succeeded
    BY <2>17 DEF Succeeded, ClientEvent
  <2>18. CASE FailedForGood
    BY <2>18 DEF FailedForGood, ClientEvent
  <2>19. CASE WillRetry
    BY <2>19 DEF WillRetry, BackoffEvent, ClientEvent
  <2>20. CASE BackoffElapses
    BY <2>20 DEF BackoffElapses, NextAttempt
  <2>21. CASE BackoffInterrupted
    BY <2>21 DEF BackoffInterrupted, ClientEvent
  <2>22. CASE UNCHANGED vars
    BY <2>22 DEF vars
  <2> QED
    BY <2>1, <2>2, <2>3, <2>4, <2>5, <2>6, <2>7, <2>8, <2>9, <2>10, <2>11,
       <2>12, <2>13, <2>14, <2>15, <2>16, <2>17, <2>18, <2>19, <2>20, <2>21,
       <2>22 DEF Next, Environment, Local, Remote, Finished
<1> QED
  BY <1>1, <1>2, PTL DEF Spec

-------------------------------------------------------------------------------
(***************************************************************************)
(* The inductive invariant: at every step the attempt owns exactly the     *)
(* resources that the code after it will give back.  The invariants a run  *)
(* checks follow from it, but are not inductive themselves: that           *)
(* remove_all leaves no route behind needs the progress of its loop.       *)
(***************************************************************************)
THEOREM OwnedInvariant == Spec => []Owned
<1>1. Init => Owned
  BY DEF Init, Owned, InAttempt, NetworkWaits
<1>2. TypeOK /\ Owned /\ [Next]_vars => Owned'
  <2> SUFFICES ASSUME TypeOK, Owned, [Next]_vars
               PROVE  Owned'
    OBVIOUS
  <2> USE DEF Owned, InAttempt, NetworkWaits, engineVars, routeVars,
              channelVars
  <2>1. CASE RequestShutdown
    BY <2>1 DEF RequestShutdown
  <2>2. CASE Receive
    BY <2>2 DEF Receive
  <2>3. CASE Tick
    BY <2>3 DEF Tick
  <2>4. CASE Send
    BY <2>4 DEF Send
  <2>5. CASE LoopTop
    BY <2>5 DEF LoopTop
  <2>6. CASE AuthenticateAnyConnect \/ AuthenticateFortiGate
    BY <2>6 DEF AuthenticateAnyConnect, AuthenticateFortiGate, Proceed, GiveUp
  <2>7. CASE AuthenticateCheckpoint
    BY <2>7 DEF AuthenticateCheckpoint, Proceed, GiveUp
  <2>8. CASE CstpConnect \/ SlimHello \/ OpenTunnel
    BY <2>8 DEF CstpConnect, SlimHello, OpenTunnel, Proceed, GiveUp, AfterTunnel
  <2>9. CASE OpenTun
    BY <2>9 DEF OpenTun, AfterTunnel, TypeOK
  <2>10. CASE InstallRoute
    <3>1. /\ added \in Nat /\ tun' = tun /\ ccc' = ccc /\ proto' = proto
          /\ pc = "routes" /\ removed' = 0
      BY <2>10 DEF InstallRoute, TypeOK
    <3>2. CASE pc' = "rollback"
      BY <2>10, <3>1, <3>2 DEF InstallRoute
    <3>3. CASE pc' = pc
      <4>1. /\ added' = added + 1
            /\ table' = table \cup {added + 1}
            /\ stuck' = stuck \ {added + 1}
        BY <2>10, <3>1, <3>3 DEF InstallRoute
      <4>2. 1 .. added + 1 = (1 .. added) \cup {added + 1}
        BY <3>1
      <4> QED
        BY <3>1, <3>3, <4>1, <4>2
    <3> QED
      BY <2>10, <3>2, <3>3 DEF InstallRoute
  <2>11. CASE TunnelUp
    BY <2>11 DEF TunnelUp, RoutesInstalled, Routes
  <2>12. CASE RemoveRoute
    <3>1. /\ removed \in Nat /\ added \in Nat
          /\ removed' = removed + 1 /\ added' = added
          /\ pc' = pc /\ tun' = tun /\ ccc' = ccc /\ proto' = proto
          /\ pc \in {"rollback", "teardown"}
          /\ removed < added
      BY <2>12 DEF RemoveRoute, LastRemoved, TypeOK
    <3>2. table' \ stuck' \subseteq (table \ stuck) \ {removed + 1}
      BY <2>12 DEF RemoveRoute
    <3>3. (removed + 1 .. added) \ {removed + 1} \subseteq removed' + 1 .. added'
      BY <3>1
    <3> QED
      BY <3>1, <3>2, <3>3
  <2>13. CASE CloseTun
    BY <2>13 DEF CloseTun, AfterTunnel, LastRemoved, TypeOK
  <2>14. CASE WriteToGateway \/ WriteDone
    BY <2>14 DEF WriteToGateway, WriteDone
  <2>15. CASE ForwardingStops \/ GoodbyeDone \/ ForwardingFails
    <3>1. /\ UNCHANGED <<proto, tun, added, table, stuck, ccc>>
          /\ removed' = 0 /\ pc \in {"forwarding", "writing"}
          /\ pc' \in {"writing", "teardown"}
      BY <2>15 DEF ForwardingStops, GoodbyeDone, ForwardingFails
    <3>2. added = RouteCount /\ Routes \subseteq table
      BY <3>1
    <3>3. table \ stuck \subseteq 0 + 1 .. RouteCount
      BY DEF TypeOK, Routes
    <3> QED
      BY <3>1, <3>2, <3>3
  <2>16. CASE SignOut
    BY <2>16 DEF SignOut
  <2>17. CASE Succeeded
    BY <2>17 DEF Succeeded
  <2>18. CASE FailedForGood
    BY <2>18 DEF FailedForGood
  <2>19. CASE WillRetry
    BY <2>19 DEF WillRetry
  <2>20. CASE BackoffElapses
    BY <2>20 DEF BackoffElapses
  <2>21. CASE BackoffInterrupted
    BY <2>21 DEF BackoffInterrupted
  <2>22. CASE UNCHANGED vars
    BY <2>22 DEF vars
  <2> QED
    BY <2>1, <2>2, <2>3, <2>4, <2>5, <2>6, <2>7, <2>8, <2>9, <2>10, <2>11,
       <2>12, <2>13, <2>14, <2>15, <2>16, <2>17, <2>18, <2>19, <2>20, <2>21,
       <2>22 DEF Next, Environment, Local, Remote, Finished
<1> QED
  BY <1>1, <1>2, TypeCorrect, PTL DEF Spec

(* Routes are gone before the device they point at, for any number of them. *)
THEOREM RoutesGoFirst == Spec => []RoutesNeedTun
<1>1. Owned => RoutesNeedTun
  BY DEF Owned, RoutesNeedTun
<1> QED
  BY <1>1, OwnedInvariant, PTL

(* Between attempts, and once the engine has returned, no device, no deletable
   route and no Check Point session still waiting for its sign-out is left.
   Sessions whose sign-out failed or could not be sent are not covered. *)
THEOREM NothingLeftBehind == Spec => []QuietBetweenAttempts
<1>1. Owned => QuietBetweenAttempts
  BY DEF Owned, QuietBetweenAttempts, InAttempt, NetworkWaits
<1> QED
  BY <1>1, OwnedInvariant, PTL

(* Packets are only forwarded over a tunnel that carries every route. *)
THEOREM ForwardsFullyRouted == Spec => []FullyRouted
<1>1. Owned => FullyRouted
  BY DEF Owned, FullyRouted
<1> QED
  BY <1>1, OwnedInvariant, PTL

-------------------------------------------------------------------------------
(***************************************************************************)
(* The events.  Which event may come directly after which, as the status   *)
(* machine of Lifecycle has it.                                            *)
(***************************************************************************)
Follows(a, b) ==
    \/ a \in {"none", "Reconnecting"} /\ b \in {"Connecting", "Disconnected"}
    \/ a = "Connecting" /\ b \in {"Established", "Reconnecting", "Disconnected",
                                  "PermanentError"}
    \/ a = "Established" /\ b \in {"Reconnecting", "Disconnected"}

\* The last event put in the channel, and the last one the engine has produced.
LastQueued == IF events = <<>> THEN seen ELSE events[Len(events)]
Latest == IF out = "none" THEN LastQueued ELSE out

\* From the event last received to the one waiting for room, each may follow
\* the one before it; a Disconnected among them answers a stop request.
Chained ==
    /\ events # <<>> => Follows(seen, events[1])
    /\ \A i \in 1 .. Len(events) - 1 : Follows(events[i], events[i + 1])
    /\ out # "none" => Follows(LastQueued, out)
    /\ out = "Disconnected" => shutdown
    /\ \A i \in 1 .. Len(events) : events[i] = "Disconnected" => shutdown

\* Where the engine is agrees with the last event it produced.
Announced ==
    /\ pc = "top" => Latest \in {"none", "Reconnecting"}
    /\ pc \in {"auth", "session", "tun", "routes", "rollback"}
          => Latest = "Connecting" /\ ~established
    /\ pc \in {"forwarding", "writing", "teardown"} => Latest = "Established" /\ established
    /\ pc \in {"signout", "result"}
          => Latest = IF established THEN "Established" ELSE "Connecting"
    /\ pc \in {"signout", "result"} /\ established => outcome # "permanent"
    /\ pc = "teardown" => outcome # "permanent"
    /\ pc = "backoff" => Latest = "Reconnecting"
    /\ outcome = "ok" => shutdown

Legal == Chained /\ Announced

(* Putting the waiting event in the channel keeps the order of events. *)
LEMMA SendKeepsChain ==
    ASSUME TypeOK, Chained, Send
    PROVE  Chained' /\ Latest' = Latest
<1>1. /\ events \in Seq(ClientEvent) /\ out \in ClientEvent
      /\ events' = Append(events, out) /\ out' = "none"
      /\ seen' = seen /\ shutdown' = shutdown
  BY DEF Send, TypeOK, channelVars
<1> DEFINE n == Len(events)
<1>2. n \in Nat /\ (events = <<>> <=> n = 0)
  BY <1>1, LenProperties, EmptySeq
<1>3. /\ events' # <<>> /\ Len(events') = n + 1
      /\ \A i \in 1 .. n : events'[i] = events[i]
      /\ events'[n + 1] = out
  BY <1>1, AppendProperties
<1>4. out # "none"
  BY DEF Send
<1> HIDE DEF n
<1>5. Follows(IF n = 0 THEN seen ELSE events[n], out)
  BY <1>2, <1>4 DEF Chained, LastQueued, n
<1>6. Follows(seen', events'[1])
  <2>1. CASE n = 0
    BY <1>1, <1>3, <1>5, <2>1
  <2>2. CASE n # 0
    BY <1>1, <1>2, <1>3, <2>2 DEF Chained
  <2> QED
    BY <2>1, <2>2
<1>7. ASSUME NEW i \in 1 .. Len(events') - 1
      PROVE  Follows(events'[i], events'[i + 1])
  <2>1. i \in 1 .. n
    BY <1>2, <1>3
  <2>2. CASE i = n
    BY <1>2, <1>3, <1>5, <2>1, <2>2
  <2>3. CASE i # n
    <3>1. i \in 1 .. Len(events) - 1 /\ i + 1 \in 1 .. n
      BY <1>2, <2>1, <2>3 DEF n
    <3> QED
      BY <1>3, <2>1, <3>1 DEF Chained
  <2> QED
    BY <2>2, <2>3
<1>8. ASSUME NEW i \in 1 .. Len(events'), events'[i] = "Disconnected"
      PROVE  shutdown'
  <2>1. CASE i = n + 1
    BY <1>1, <1>3, <1>8, <2>1 DEF Chained
  <2>2. CASE i # n + 1
    <3>1. i \in 1 .. n
      BY <1>2, <1>3, <2>2
    <3> QED
      BY <1>1, <1>3, <1>8, <3>1 DEF Chained, n
  <2> QED
    BY <2>1, <2>2
<1>9. Chained'
  BY <1>1, <1>6, <1>7, <1>8 DEF Chained
<1>10. Latest' = Latest
  BY <1>1, <1>2, <1>3, <1>4 DEF Latest, LastQueued
<1> QED
  BY <1>9, <1>10

(* Taking an event from the channel keeps the order of events, and what is
   taken may follow what was taken before. *)
LEMMA ReceiveKeepsChain ==
    ASSUME TypeOK, Chained, Receive
    PROVE  /\ Chained' /\ Latest' = Latest
           /\ Follows(seen, seen')
           /\ seen' = "Disconnected" => shutdown
<1>1. /\ events \in Seq(ClientEvent) /\ events # <<>>
      /\ seen' = Head(events) /\ events' = Tail(events)
      /\ out' = out /\ shutdown' = shutdown
  BY DEF Receive, TypeOK
<1> DEFINE n == Len(events)
<1>2. n \in Nat \ {0}
  BY <1>1, EmptySeq
<1>3. /\ seen' = events[1]
      /\ events' \in Seq(ClientEvent)
      /\ Len(events') = n - 1
      /\ \A i \in 1 .. n - 1 : events'[i] = events[i + 1]
  <2>1. Head(events) = events[1]
    BY <1>1
  <2>2. /\ Tail(events) \in Seq(ClientEvent)
        /\ Len(Tail(events)) = n - 1
        /\ \A i \in 1 .. Len(Tail(events)) : Tail(events)[i] = events[i + 1]
    BY <1>1, HeadTailProperties
  <2> QED
    BY <1>1, <2>1, <2>2
<1>4. events' = <<>> <=> n = 1
  BY <1>2, <1>3, EmptySeq
<1> HIDE DEF n
<1>5. Follows(seen, seen')
  BY <1>1, <1>3 DEF Chained
<1>6. events' # <<>> => Follows(seen', events'[1])
  <2>1. n # 1 => 1 \in 1 .. Len(events) - 1
    BY <1>2 DEF n
  <2> QED
    BY <1>2, <1>3, <1>4, <2>1 DEF Chained
<1>7. ASSUME NEW i \in 1 .. Len(events') - 1
      PROVE  Follows(events'[i], events'[i + 1])
  <2>1. /\ i \in 1 .. n - 1 /\ i + 1 \in 1 .. n - 1
        /\ i + 1 \in 1 .. Len(events) - 1
    BY <1>2, <1>3 DEF n
  <2> QED
    BY <1>3, <2>1 DEF Chained
<1>8. LastQueued' = LastQueued
  <2>1. CASE n = 1
    BY <1>1, <1>3, <1>4, <2>1 DEF LastQueued, n
  <2>2. CASE n # 1
    <3>1. n - 1 \in 1 .. n - 1 /\ (n - 1) + 1 = n
      BY <1>2, <2>2
    <3>2. events'[n - 1] = events[n]
      BY <1>3, <3>1
    <3> QED
      BY <1>1, <1>3, <1>4, <2>2, <3>2 DEF LastQueued, n
  <2> QED
    BY <2>1, <2>2
<1>9. ASSUME NEW i \in 1 .. Len(events'), events'[i] = "Disconnected"
      PROVE  shutdown'
  <2>1. i + 1 \in 1 .. Len(events) /\ events[i + 1] = "Disconnected"
    BY <1>2, <1>3, <1>9 DEF n
  <2> QED
    BY <1>1, <2>1 DEF Chained
<1>10. Chained'
  BY <1>1, <1>6, <1>7, <1>8, <1>9 DEF Chained
<1>11. Latest' = Latest
  BY <1>1, <1>8 DEF Latest
<1>12. seen' = "Disconnected" => shutdown
  <2>1. 1 \in 1 .. Len(events)
    BY <1>2 DEF n
  <2> QED
    BY <1>3, <2>1 DEF Chained
<1> QED
  BY <1>5, <1>10, <1>11, <1>12

(* Producing an event that may follow the last one keeps the order. *)
LEMMA ProduceKeepsChain ==
    ASSUME Chained, out = "none", UNCHANGED <<events, seen, shutdown>>,
           out' \in ClientEvent, Follows(Latest, out'),
           out' = "Disconnected" => shutdown
    PROVE  Chained' /\ Latest' = out'
BY DEF Chained, Latest, LastQueued, ClientEvent

(* Steps that leave the events alone. *)
LEMMA QuietKeepsChain ==
    ASSUME Chained, UNCHANGED <<events, seen, out, shutdown>>
    PROVE  Chained' /\ Latest' = Latest
BY DEF Chained, Latest, LastQueued

LEMMA LegalInvariant == Spec => []Legal
<1>1. Init => Legal
  BY DEF Init, Legal, Chained, Announced, Latest, LastQueued
<1>2. TypeOK /\ Legal /\ [Next]_vars => Legal'
  <2> SUFFICES ASSUME TypeOK, Legal, [Next]_vars
               PROVE  Legal'
    OBVIOUS
  <2> USE DEF Legal, engineVars, routeVars, channelVars
  <2>1. CASE RequestShutdown
    <3>1. Chained' /\ Latest' = Latest
      BY <2>1 DEF RequestShutdown, Chained, Latest, LastQueued
    <3> QED
      BY <2>1, <3>1 DEF RequestShutdown, Announced
  <2>2. CASE Receive
    BY <2>2, ReceiveKeepsChain DEF Receive, Announced
  <2>3. CASE Tick
    BY <2>3, QuietKeepsChain DEF Tick, Announced
  <2>4. CASE Send
    BY <2>4, SendKeepsChain DEF Send, Announced
  <2>5. CASE LoopTop
    <3>1. Latest \in {"none", "Reconnecting"}
      BY <2>5 DEF LoopTop, Announced
    <3>2. Chained' /\ Latest' = out'
      BY <2>5, <3>1, ProduceKeepsChain DEF LoopTop, LoopTopStops, Follows, ClientEvent
    <3> QED
      BY <2>5, <3>2 DEF LoopTop, LoopTopStops, Announced
  <2>6. CASE AuthenticateAnyConnect \/ AuthenticateFortiGate \/ AuthenticateCheckpoint
    BY <2>6, QuietKeepsChain DEF AuthenticateAnyConnect, AuthenticateFortiGate,
       AuthenticateCheckpoint, Proceed, GiveUp, Announced
  <2>7. CASE CstpConnect \/ SlimHello \/ OpenTunnel
    BY <2>7, QuietKeepsChain DEF CstpConnect, SlimHello, OpenTunnel, Proceed,
       GiveUp, AfterTunnel, Announced
  <2>8. CASE OpenTun \/ InstallRoute \/ RemoveRoute
    BY <2>8, QuietKeepsChain DEF OpenTun, InstallRoute, RemoveRoute, AfterTunnel,
       Announced
  <2>9. CASE TunnelUp
    <3>1. Latest = "Connecting"
      BY <2>9 DEF TunnelUp, Announced
    <3>2. Chained' /\ Latest' = "Established"
      BY <2>9, <3>1, ProduceKeepsChain DEF TunnelUp, Follows, ClientEvent
    <3> QED
      BY <2>9, <3>2 DEF TunnelUp, Announced
  <2>10. CASE CloseTun
    BY <2>10, QuietKeepsChain DEF CloseTun, AfterTunnel, Announced
  <2>11. CASE WriteToGateway \/ WriteDone \/ ForwardingStops \/ GoodbyeDone
              \/ ForwardingFails
    BY <2>11, QuietKeepsChain DEF WriteToGateway, WriteDone, ForwardingStops,
       GoodbyeDone, ForwardingFails, Announced
  <2>12. CASE SignOut
    BY <2>12, QuietKeepsChain DEF SignOut, Announced
  <2>13. CASE Succeeded
    <3>1. Latest \in {"Established", "Connecting"} /\ shutdown
      BY <2>13 DEF Succeeded, Announced
    <3>2. Chained' /\ Latest' = "Disconnected"
      BY <2>13, <3>1, ProduceKeepsChain DEF Succeeded, Follows, ClientEvent
    <3> QED
      BY <2>13, <3>2 DEF Succeeded, Announced
  <2>14. CASE FailedForGood
    <3>1. Latest = "Connecting"
      BY <2>14 DEF FailedForGood, IsPermanent, Announced
    <3>2. Chained' /\ Latest' = "PermanentError"
      BY <2>14, <3>1, ProduceKeepsChain DEF FailedForGood, Follows, ClientEvent
    <3> QED
      BY <2>14, <3>2 DEF FailedForGood, IsPermanent, Announced
  <2>15. CASE WillRetry
    <3>1. Latest \in {"Established", "Connecting"}
      BY <2>15 DEF WillRetry, Announced
    <3>2. Chained' /\ Latest' = out'
      BY <2>15, <3>1, ProduceKeepsChain DEF WillRetry, BackoffEvent, Follows, ClientEvent
    <3> QED
      BY <2>15, <3>2 DEF WillRetry, BackoffEvent, Announced
  <2>16. CASE BackoffElapses
    BY <2>16, QuietKeepsChain DEF BackoffElapses, Announced
  <2>17. CASE BackoffInterrupted
    <3>1. Latest = "Reconnecting"
      BY <2>17 DEF BackoffInterrupted, Announced
    <3>2. Chained' /\ Latest' = "Disconnected"
      BY <2>17, <3>1, ProduceKeepsChain DEF BackoffInterrupted, Follows, ClientEvent
    <3> QED
      BY <2>17, <3>2 DEF BackoffInterrupted, Announced
  <2>18. CASE UNCHANGED vars
    BY <2>18, QuietKeepsChain DEF vars, Announced
  <2> QED
    BY <2>1, <2>2, <2>3, <2>4, <2>5, <2>6, <2>7, <2>8, <2>9, <2>10, <2>11,
       <2>12, <2>13, <2>14, <2>15, <2>16, <2>17, <2>18
       DEF Next, Environment, Local, Remote, Finished
<1> QED
  BY <1>1, <1>2, TypeCorrect, PTL DEF Spec

(* The receiver's side changes only by taking an event, the stop request only
   by being made. *)
LEMMA ObserverSteps ==
    ASSUME [Next]_vars
    PROVE  \/ UNCHANGED <<seen, shutdown>>
           \/ Receive /\ UNCHANGED shutdown
           \/ RequestShutdown /\ UNCHANGED seen
<1> USE DEF engineVars, routeVars, channelVars
<1>1. CASE Environment
  BY <1>1 DEF Environment, RequestShutdown, Receive, Tick
<1>2. CASE Send \/ LoopTop \/ OpenTun \/ InstallRoute \/ TunnelUp \/ RemoveRoute
  BY <1>2 DEF Send, LoopTop, OpenTun, InstallRoute, TunnelUp, RemoveRoute
<1>3. CASE CloseTun \/ ForwardingStops \/ Succeeded \/ FailedForGood \/ WillRetry
  BY <1>3 DEF CloseTun, ForwardingStops, Succeeded, FailedForGood, WillRetry
<1>4. CASE BackoffElapses \/ BackoffInterrupted
  BY <1>4 DEF BackoffElapses, BackoffInterrupted
<1>5. CASE AuthenticateAnyConnect \/ AuthenticateCheckpoint \/ AuthenticateFortiGate
  BY <1>5 DEF AuthenticateAnyConnect, AuthenticateCheckpoint, AuthenticateFortiGate
<1>6. CASE CstpConnect \/ SlimHello \/ OpenTunnel \/ ForwardingFails \/ SignOut
  BY <1>6 DEF CstpConnect, SlimHello, OpenTunnel, ForwardingFails, SignOut
<1>7. CASE WriteToGateway \/ WriteDone \/ GoodbyeDone
  BY <1>7 DEF WriteToGateway, WriteDone, GoodbyeDone
<1>8. CASE UNCHANGED vars
  BY <1>8 DEF vars
<1> QED
  BY <1>1, <1>2, <1>3, <1>4, <1>5, <1>6, <1>7, <1>8 DEF Next, Local, Remote, Finished

(***************************************************************************)
(* The engine implements Lifecycle for every protocol, number of routes    *)
(* and channel capacity: whatever the channel's backlog and whenever the   *)
(* stop arrives, the events received tell a legal life of the tunnel.      *)
(***************************************************************************)
THEOREM EngineFollowsLifecycle == Spec => ImplementsLifecycle
<1>1. Init => Abstract!Init
  BY DEF Init, Abstract!Init, StatusOf
<1>2. TypeOK /\ Legal /\ [Next]_vars => [Abstract!Next]_(Abstract!vars)
  <2> SUFFICES ASSUME TypeOK, Legal, [Next]_vars
               PROVE  [Abstract!Next]_(Abstract!vars)
    OBVIOUS
  <2>1. CASE UNCHANGED <<seen, shutdown>>
    BY <2>1 DEF Abstract!vars, StatusOf
  <2>2. CASE Receive /\ UNCHANGED shutdown
    <3>1. Follows(seen, seen') /\ (seen' = "Disconnected" => shutdown)
      BY <2>2, ReceiveKeepsChain DEF Legal
    <3>2. CASE seen' = "Disconnected"
      BY <2>2, <3>1, <3>2 DEF Follows, StatusOf, Abstract!Next, Abstract!Stopped,
         Abstract!Terminal
    <3>3. CASE seen' # "Disconnected"
      BY <2>2, <3>1, <3>3 DEF Follows, StatusOf, Abstract!Next, Abstract!Attempt,
         Abstract!Up, Abstract!Retry, Abstract!Refused
    <3> QED
      BY <3>2, <3>3
  <2>3. CASE RequestShutdown /\ UNCHANGED seen
    BY <2>3 DEF RequestShutdown, StatusOf, Abstract!Next, Abstract!RequestStop
  <2> QED
    BY <2>1, <2>2, <2>3, ObserverSteps
<1> QED
  BY <1>1, <1>2, TypeCorrect, LegalInvariant, PTL DEF Spec, ImplementsLifecycle, Abstract!Spec
==============================================================================
