# Yellow VPN: TLA+ specification

TLA+ models of Yellow VPN's client, the properties checked on them with TLC and
the theorems proved about them with TLAPS. Paths are relative to the repository.

## 1. The system

Yellow VPN is a client for three kinds of SSL VPN gateway (Cisco AnyConnect,
Check Point, FortiGate). An *engine* (`crates/vpn-engine`) logs in, negotiates a
tunnel, opens a TUN device, installs routes and forwards packets, and reconnects
when the tunnel drops. It is run by a command line client, by a privileged
*helper* process (`crates/vpn-helper`) that obeys a desktop GUI (`src-tauri`,
`src`) over a pipe or socket, or by an Android `VpnService` through JNI.

| Component | State | Operations | Interacts with |
|---|---|---|---|
| client lifecycle, `client.rs` | attempt counter, outcome of the attempt, what it owns | connect, run_pipeline, backoff, the three protocols | shutdown watch channel in, bounded event channel out |
| routing guard, `routing.rs` | list of routes added | install_routes with rollback, remove_all | OS routing table |
| forwarding loop, `forward.rs` | inbound accumulator, missed keepalives | biased select over stop, timer, TUN, TLS | TUN, TLS stream, framers |
| framers, `framer.rs`, `*/framing.rs` | none (buffer is the loop's) | try_decode, encode | forwarding loop |
| handshakes, `auth.rs`, `tunnel.rs`, `checkpoint/`, `fortigate/` | connection in use, cookie, CCC session, session parameters | authenticate, cstp_connect, establish_session, HttpSession::request, parse_config_xml, signout | gateway |
| PPP, `fortigate/ppp.rs` | options, identifier, acknowledgements, staged packets | negotiate | gateway; hands its leftover bytes to the forwarding loop |
| helper, `vpn-helper/src/main.rs` | Session: shutdown handle and engine task | serve, handle_connect, Session::stop, event forwarders | GUI connection, engine |
| GUI, `src-tauri/src/lib.rs`, `pipe.rs` | writer, reader task, status | vpn_connect, vpn_disconnect, tray, reader task, spawning the helper | helper, frontend |
| frontend, `useVpnState.ts`, `App.tsx`, `StatusHero.tsx` | last state, optimistic `pending` | Connect and Disconnect buttons | GUI commands and events |
| Android, `YellowVpnService.kt`, `VpnPlugin.kt`, `jni_bridge.rs` | `running`, `generation`, ENGINE_SHUTDOWN | intents, runEngine, stopEngine, teardown, onRevoke | engine, Android system |
| command line, `vpn-cli/src/main.rs` | none | connect (one call of the engine), probe (a handshake without a tunnel) | engine, gateway |
| profile store, ciphers, CCC parser, TLS pinning | database, none | one call each | |

What is hard here, and hard to test:

- *Concurrency.* Select arms that win in any order, forwarder tasks that outlive
  their engine, commands that give up the GUI's mutex at every await, and on
  Android three kinds of thread on unlocked fields.
- *Failure.* Every step of an attempt can fail, the removal of a route too; a
  helper can crash, be refused elevation or come up too late; Android kills the
  process; a gateway closes in the middle of a reply, repeats itself or is silent.
- *Ordering and time.* A stop may come before anybody listens for it; a timeout
  gives up on an engine that is still there; keepalives race with a full TUN; a
  retried request must not get the reply to the one before.
- *Liveness.* A stop has to end the run, a drop has to be retried, a silent peer
  has to be noticed, the GUI has to learn of the end.

`PROJECT.json` lists all of these as hazards, each at its line, with the property
that would catch it or the reason why none does yet.

## 2. Modules

| Module | Models | Checked by | Proofs |
|---|---|---|---|
| `Lifecycle` | abstract: what an engine promises to whoever watches its events | refinement in run `supervisor` | `SupervisorProofs` |
| `Supervisor` | reconnect loop, an attempt of each protocol, routes, teardown, sign-out, channels | `MCSupervisor` | `SupervisorProofs` |
| `Attempt` | abstract: what the reconnect loop assumes of a handshake | refinement in run `handshake` | `HandshakeProofs` |
| `Handshake` | requests, replies, retries, timeouts and sign-out of the three protocols; the CLI's probe | `MCHandshake` | `HandshakeProofs` |
| `SessionConfig` | pure: FortiGate's XML and Check Point's ranges, and the parameters made of them | through `Handshake` | `SessionConfigProofs` |
| `PppNegotiation` | LCP and IPCP of FortiGate's tunnel | `MCPppNegotiation` | `PppProofs` |
| `Forwarding` | forwarding loop and what the framers yield | `MCForwarding` | `ForwardingProofs` |
| `Helper` | serve, Session, engines, forwarders, the GUI's reader | `MCHelper` | `HelperProofs` |
| `Gui` | GUI commands, reader tasks, window, helpers seen through the socket | `MCGui` | `GuiProofs` |
| `AndroidService` | plugin, service threads, ENGINE_SHUTDOWN | `MCAndroidService` | `AndroidProofs` |

The modules compose by abstraction. `Supervisor` implements `Lifecycle`; the
engines of `Helper` follow the transitions of `Lifecycle` (`NextEvents`) and the
helpers of `Gui` the behaviour of `Helper` (a tunnel that any command stops).
`Supervisor` takes the forwarding loop as a step with the outcomes that `Forwarding`
shows it to have (success only for a stop request) and the writes it may hang in, and a handshake as
a login and a session step with the outcomes of `Attempt`, which `Handshake`
implements. `Handshake` in turn takes PPP for one step, whose outcomes and whose
primed packets are those of `PppNegotiation`; the frames it stages are the primed
units of `Forwarding`.

### Supervisor

`pc` is the place in `run_client_supervised` and the calls below it. `auth`,
`session`, `writing` (the forwarding loop in a write, which nothing interrupts) and
`signout` wait for the gateway; `tun`, `routes`, `rollback`, `forwarding`,
`teardown` are an attempt's other steps; `top`, `result`, `backoff`
and `done` belong to the loop. `InstallRoute` and `RemoveRoute` are one iteration
of the loops of `routing.rs`, and each operation on the table may fail. `table` is
the part of the OS table this client wrote, `stuck` the entries whose deletion
failed, which the code logs and forgets. `ccc` is the session at the Check Point
gateway: `held` while `connect_checkpoint` still owes it a sign-out, `left` when the
client has given it up without releasing it (an undecodable key, a lost 600, an empty
session_id, a failed sign-out). `out` is an event whose send is awaited, so a full channel stops
the engine. A handshake is one step with each outcome its caller can tell apart.
The attempt counter saturates as the code's `u32` does. `lasted` is the time since
the attempt started, which decides whether a drop resets it (`Sustained`).

### Handshake and SessionConfig

A `step` is one request and its reply: `init`, `auth`, `cstp` for AnyConnect;
`page`, `login`, `hostcheck`, `index`, `alloc`, `xml`, `tunnel` for FortiGate;
`userpass`, `hello`, `signout` for Check Point. A reply is a head, a body and, when
chunked, the CRLF after the last chunk, which `decode_chunked` does not consume and
which may still be unread when the next request is sent. A read returns any number
of units and the gateway may close after any of them. `Complete` is when each
protocol's read loop stops; `HttpError` is the drop of the connection and the one
retry of `HttpSession::request`; the login page and the two warm-up requests go on
without a reply (`RequestFails`). `login`, `tunnel` and `sent` record what the
gateway decided and sent, for the properties to compare with. In mode `probe`
the CLI hangs up where the engine would forward, and signs out by a rule of its
own (`SignsOut`).

`SessionConfig` has the pure parts as operators: a document is the sequence of its
elements, `ParseConfig` applies `ParseElement` to one after the other as the scan
does, `Merge` is the loop that merges the resolvers, and `RangeToSubnets` is
`range_to_subnets` for addresses of `Bits` bits. Each loop is a recursive function of
the number of rounds, the form the proofs can unfold. The reference definitions
(`RoutesGiven`, `Block`, `RangeAddresses`) are stated without either algorithm.

### PppNegotiation

`pc` is the loop, LCP or IPCP. A round ends with a frame or a timeout, one action
per kind of frame, in either loop. Options are partial functions from names to
small values, 0 being the unspecified address, so that what a Nak adopts, a Reject
removes and an Ack confirms is computed as the code does. The gateway answers
requests in order, rejects a fixed set of options, and repeats its answer to a
retransmission; unasked it sends requests, echoes, data, garbage or a termination.
`granted` records what it has acknowledged. A partly arrived frame stays in the
buffer, which is the same as one that has not arrived.

### Forwarding

One action per arm of the biased select, guarded so that an arm is taken only if
those before it are not ready, and one per completion of the write an arm awaits,
because nothing is polled meanwhile. A write completes, fails or, since it has no
timeout, never returns (`WriteReturns`, without fairness). A frame is a header unit and a body unit;
reads take any number of units. `FrameEvent` tabulates `try_decode` per protocol.
Frames carry a sequence number, so that a loss or a reordering shows. Time passes
only while the task waits; `due` keeps the ticks tokio delivers in a burst.

### Helper

`pc` is the place of `serve`. `BeginStop`, `EngineJoined` and `StopTimesOut` are
`Session::stop`, whose ten seconds may run out with the engine still there
(`abandoned`). Each engine has an event channel and a forwarder of its own.
Delivery and the GUI's reaction are one step, since the connection keeps order
and what delays a message is the channel before it. `ProcessEnds` takes every
task and device along.

### Gui

Each call of `vpn_connect` is a process, a step per critical section of the mutex;
the other commands hold the mutex throughout and are one step each. A connection
is named after the call that opened it and is open while its writer or its reader
task exists (`OpenEnd`), as the two halves of `tokio::io::split` are. The helper
binds, accepts one connection and serves it; its listener outlives `accept`, so a
second connection succeeds and is never served (Unix; on Windows the second open
fails). `platform` is Linux, where the spawn of pkexec returns at once and the call
polls, or macOS, where the call waits at `prompt` for osascript, that is for the user.
`Shown` and `ShowsConnect` decide which button exists, so only commands
the window or the tray can issue happen. A message's effect on the status and its
emission to the window are one step; the code has no await between them except
for a second lock on the way to the "Connected" notification.

### AndroidService

Threads: main, one binder thread for `onRevoke`, one per engine. Every access to
`running`, `generation` or the slot is a step; the unlocked `++` of `generation` is
two, a read and a write, so a late write also takes it back over what others have
counted. `Told` covers both ways an engine learns that it should stop:
`send(true)` and the drop of its sender. `stopSelf` queues `onDestroy` behind the
starts the instance already has; a later start makes a new instance. After a process
death the sticky service gets again the starts that were not delivered or not
finished, or a null intent if there are none. These are the Android system's
behaviour, modelled as the service uses it.

## 3. Runs

| Run | Bounds | Shows |
|---|---|---|
| `supervisor` | 3 protocols, 2 routes, channel of 2, counter up to 2 | see below |
| `forwarding` | SLIM and PPP, 2 frames in flight, 2 packets, 2 missed keepalives | see below |
| `helper` | 2 engines, 1 command in flight, channels of 2 | see below |
| `android` | 2 engines, 1 instance, 2 starts queued | see below |
| `gui` | Linux and macOS, 2 connects, 2 helpers, 1 command and 1 message in flight | see below |
| `ppp` | 5 rounds, 2 option values, 1 request and 1 other frame unasked, the option MAGIC rejected | see below |
| `handshake` | 3 protocols, both modes, all documents of up to 3 of 9 elements, all ranges of 3-bit addresses, 1 stray frame | see below |
| `forwarding_prime`, `android_stop`, `gui_window`, `handshake_permanent`, `fortigate_split` | the smallest that exhibits it | a divergence each, section 6 |

`supervisor`: routes never outlive the device (`RoutesNeedTun`); between attempts
there is no device, no route that could be deleted and no CCC session whose sign-out
is still owed (`QuietBetweenAttempts`; sessions that are `left` do stay, section 6);
packets flow only through a fully routed tunnel (`FullyRouted`); the events follow
`Lifecycle` (`ImplementsLifecycle`); a stop ends the run unless one of the waits for
the gateway never returns, and one made outside these waits can only be kept by the
writes of the forwarding loop or the sign-out (`StopIsHonoured`); a transient failure is
retried (`AlwaysRetries`).

`forwarding`: no frame is lost or reordered however reads and arms interleave
(`InboundInOrder`), none that had arrived is dropped at the end
(`NothingDecodableDropped`, with at most one unit primed; `forwarding_prime` has
the case where it fails), success means a stop request (`OkMeansStop`), a stop
ends the loop and a silent peer is noticed under a TUN that never runs dry, each
unless the loop stays in a write that never returns (`ShutdownEnds`,
`HungPeerDetected`).

`helper`: no engine runs unattended (`Supervised`), the helper always comes back
to its connection (`AlwaysServes`), and the GUI ends at Disconnected when no
engine is left (`EndIsReported`).

`android`: an engine that was not told to stop is the one `stopEngine` reaches
(`OneUnstopped`); the service does not stay up with nobody behind it
(`EndIsNoticed`).

`gui`: while no two connects overlap every tunnel can be commanded
(`Commandable`; the history variable `overlapped` is there to say so), quitting
ends every tunnel even if its writer was lost (`QuitEndsTunnels`), and every
`vpn_connect` returns, on macOS unless its prompt is never answered (`ConnectsEnd`).

`ppp`: when the link is up the gateway has acknowledged exactly the address and the
MRU in use (`Agreement`), although Naks and Rejects are applied whatever their
identifier, because each request has an identifier of its own
(`IdIdentifiesRequest`); packets that come early reach the forwarding loop once and
in order (`EarlyPacketsKept`); and the negotiation ends whatever the gateway does
(`NegotiationEnds`).

`handshake`: a reply is never taken for the answer to another request, retries and
leftover bytes notwithstanding (`ReplyMatches`); past the login the cookie is one
the gateway granted (`CookieIsIssued`); the parameters of a FortiGate session are
those of its document as far as it was read, and its keepalive fits the idle
timeout (`FortiConfigSound`); Check Point's subnets cover exactly the addresses of
its ranges, and are a full tunnel exactly if a range is the whole space
(`HelloRoutesExact`); a sign-out is tried on the exits that promise it
(`SignOutAttempted`); the steps with a timeout end (`TimedStepEnds`); and the
whole is an `Attempt` (`ImplementsAttempt`): stages in order, one outcome, a
permanent one only where credentials are at stake.

*Why the bounds are enough.* Two routes have a first and a last and a failure
between them. Two engines, connects or helpers are an old one and its successor,
which is what every race here is between; the proofs of section 5 cover any number
for the invariants and the refinements. Channels of two can be
full with a distinct tail. Two frames of two units give reads that end inside a
frame and reads that span two. Counters reach their limit within each run. CSTP
is left out of the passing `forwarding` run to keep it within minutes: its frames
differ from the others' only in `CstpEvent`. Five rounds of PPP allow a
rejection, two counter-proposals, a retransmission and an acknowledgement in one
loop, and run out otherwise. Three elements are a list, an entry and what follows
it; three bits have unaligned ranges and both ends of the address space, where
`range_to_subnets` would overflow if it could.
One service instance suffices for `android` because `ENGINE_SHUTDOWN` is the only
state instances share; `MaxInstances` is free in the proofs.

*Deadlock* is checked in every run; an explicit `Finished` step marks the states
where the program has ended.

## 4. Fairness

- Weak fairness of the steps a task or thread takes by itself: the tokio runtime
  polls every ready task, the Android scheduler runs every thread.
- Weak fairness of the passing of bounded waits (the ten seconds of
  `Session::stop`, the polling of `connect_with_spawn`), since time passes.
- `Forwarding` assumes strong fairness of the timer, because the loop leaves and
  enters its waiting states: time passes during each.
- `PppNegotiation` assumes it of the client's task only, `Handshake` also of its
  read timeouts. A TCP connect has no timeout in the code and is not assumed to
  end, nor is PPP in `Handshake` (`NegotiationEnds` is its own run's).
- Nothing is assumed of a gateway, a user, an elevation prompt, an engine seen
  from the helper, or the Android system. In particular a write to the gateway need
  not return: `write_all` and `flush` have no timeout and the socket only sets
  TCP_NODELAY. The liveness properties name as exceptions the waits this leaves:
  `StopIsHonoured` the handshakes, the writes and the sign-out, `ShutdownEnds` and
  `HungPeerDetected` the writes, `ConnectsEnd` the prompt of macOS.

## 5. Proofs

Every invariant and every action property of the passing runs is proved, and so are
the two refinements: 30 theorems and 187 lemmas in eight modules. All proofs are for
arbitrary constants, from the named assumptions on them: bounds are positive naturals;
`Protocols`, `Framers` and `Modes` are subsets of the known ones; `MAX_ROUNDS` leaves
room below the number of PPP identifiers, as 40 and 256 do; the gateway's frames and
option values are ones the decoder can yield, and it asks less often than there are
identifiers; documents are sequences of elements and ranges pairs of addresses, each
attribute one the scan can parse or absent; the PPP session handed to the handshake
lists no resolver twice. The last one is not left to trust: `harvest_ipcp` looks before
it pushes, and `ResolversOnce` proves it of `PppNegotiation`. The invariants the proofs
rest on were first checked by TLC on the instance of the run.

- `SupervisorProofs`. `TypeCorrect`: the attempt counter stays in its type. The
  safety invariants are not inductive: that `remove_all` leaves nothing depends on
  how far its loop is. `Owned` adds, per step, what the attempt owns and the
  progress of the installation and removal loops; `OwnedInvariant` proves it, one
  case per action, and `RoutesGoFirst`, `NothingLeftBehind` (device, deletable routes
  and sign-outs owed; it does not say that the gateway has no session) and
  `ForwardsFullyRouted` follow. `EngineFollowsLifecycle` is the refinement. A
  received event has to follow the one received before, and both were announced long
  ago: `Chained` says that what was received, what is in the channel and what waits
  to be sent follow one another, `Announced` ties the last of them to the step the
  engine is at, and each step extends the chain by at most one legal event.
- `ForwardingProofs`. `StreamInOrder` rests on `WholeFrames` (accumulator and wire
  together are whole frames: a read moves the border between them, only the decoder
  takes away, and always a whole frame) and on `Numbered` (their numbers run without
  a gap from the one decoded last; sequence numbers are modulo, and the bound on what
  is in flight keeps them apart). `ForwardingTypes` needs that the loop never goes on
  with its keepalives used up (`Control`); `SuccessMeansStop` that the farewell is
  only written after a stop (`EndsForAReason`). `CompleteFramesActedOn` assumes at
  most one primed unit; `Drained` (in the select nothing decodable is buffered) then
  holds from the start.
- `HandshakeProofs`. `Staged` says where the run is: a step of its own protocol, with
  a result exactly when it has left the handshake. From it follow
  `HandshakeImplementsAttempt`, each step of the code being a step of `Attempt` or
  none, and `CheckPointSignOutAttempted`. `ActsOnOwnReply` and
  `SessionCookieIsIssued` rest on `Stream`: every unit buffered or on the way belongs
  to the reply to the current request, except what may be left of earlier bodies,
  which has no head; there is at most one head, and a granting one only if the gateway
  has granted. `HandshakeTypes` adds the counters (`Tallies`).
  `FortiGateConfiguration` and `CheckPointRoutes` are about what becomes of a reply
  several steps later, after retries, cut bodies and PPP: `Configured` says that the
  parameters are what the parser makes of a prefix of what the gateway sent last, which
  needs from `Stream` that the reply acted on carries just that. `Settles` sorts the
  actions by what they do to the parameters, and the lemmas of `SessionConfigProofs` say
  what the parser makes of any input.
- `SessionConfigProofs`. What the loops of `SessionConfig` compute, for every input.
  Induction is over sets of naturals (`Ind`): a set that holds 0 and, with n, n + 1
  holds every natural, for otherwise there would be a least one missing (`WFMin`). A
  recursive function is whichever function satisfies its equation, so each loop first
  needs the proof that one does (`BlocksExist`, `HelloDef`, `ParseDef`), by extending it
  a round at a time. `RangeToSubnetsExact`: a step of the loop takes the largest aligned
  block that fits (`HostBitsFit`), such a block is an interval (`BlockIsInterval`), and
  with the blocks of the rest it covers the range without overlap (`CoversExtends`).
  Nothing is assumed of the width but that it is positive, so it holds for 32 bits and
  at both ends of the address space. `HelloRoutesWhole`: 0.0.0.0/0 comes from a range
  that is the whole space and from no other. `ParseConfigSound`: after n elements the routes are
  those given by the first n, and the flags are those of the last tag (`Scanned`); since
  the closing tag is not recognised the flags survive it, which is why entries after a
  list are in the statement.
- `PppProofs`. `RequestsIdentified` rests on `Numbered`: no request under way or
  remembered has a later identifier than the client's, and one with the same
  identifier asks for the same. `SessionAsAgreed` is the longest argument, because Naks
  and Rejects are applied whatever their identifier. `Negotiated` is its invariant: what
  the gateway remembers of the last exchange (`Exchange`), that requests and answers
  stay in order (`Ordered`), that after an acknowledgement only the same one can still
  come (`Settled`), so no late Nak can undo it, and that the parameters harvested are
  those of the request (`Harvested`). `NoEarlyPacketLost`: the packets staged are a
  prefix of those sent, and those in the primed bytes, the buffer and the stream are
  the rest, in order (`Kept`). `ResolversOnce`: whatever the gateway proposes, and
  however often, the resolvers handed over are distinct.
- `HelperProofs`. `HelperTypes`, and `NoEngineUnattended`: `Supervised` is made
  inductive by `Attended` (when stop() waits, its engine has been told; when an
  engine is about to be started, the session is empty).
- `GuiProofs`. `TunnelsCommandable`: without overlap the only call under way has taken
  the writer out of the state, and every connection whose helper is there has its writer
  in the state or in a call (`Alone`). This needs `Holding` (which writer a call holds
  at each step; a connection is made once; the writer dropped with the stale reader is a
  dead helper's) and `Served` (a tunnel is that of a helper serving a connection made to
  it), which `GuiTypes` needs too.
- `AndroidProofs`. `AndroidTypes` with `Homed` (a thread at work has an instance,
  from which a new engine's generation is counted); `RedeliveredType` says that what a
  process death leaves in the queue are starts again. `EngineIsReachable`:
  `OneUnstopped` is inductive given types, because the slot is emptied only by
  telling its engine and overwritten only by dropping its sender.

Only model-checked: liveness, because the proof system handles neither fairness nor
ENABLED (`StopIsHonoured`, `AlwaysRetries`, `ShutdownEnds`, `HungPeerDetected`,
`AlwaysServes`, `EndIsReported`, `EndIsNoticed`, `QuitEndsTunnels`, `ConnectsEnd`,
`NegotiationEnds`, `TimedStepEnds`), and the divergences of section 6, which are
counterexamples.

## 6. Findings

Each has a run in which TLC finds the counterexample, and is quoted with its
lines in `PROJECT.json`.

- `forwarding_prime`: frames staged by the handshake wait for a first read.
- `android_stop`: a disconnect before the engine has registered its sender is
  lost.
- `gui_window`: a permanent error leaves the window at Connecting.
- `handshake_permanent`: a connection that ends in the middle of AnyConnect's login
  is reported as a refusal, and the client gives up for good.
- `fortigate_split`: the closing tag of `<split-tunnel-info>` is not recognised, so
  an `<addr>` after the list becomes a route.

Observations the models show that have no run of their own, some of them against what
a comment says:

- *Writes without a timeout.* While the loop awaits a write (`forward.rs:101`, `115`,
  `158`, `193`) it polls neither the stop nor the timer. A peer that stops reading
  fills the send window, and then no stop is seen and no keepalive is missed until the
  operating system gives the connection up (`tunnel.rs:240-249` sets no option for
  that). `ShutdownEnds`, `HungPeerDetected` and `StopIsHonoured` except this wait.
- *Sessions left at the gateway.* `client.rs:240` says the CCC session is "released on
  EVERY exit path". It is not for a key that does not decode (`client.rs:237`), an
  empty session_id or a failed sign-out (`client.rs:252-261`), a 600 that does not
  arrive (all `ccc = "left"`), nor for a probe whose hello fails
  (`vpn-cli/src/main.rs:476`).
- *A full tunnel from the gateway.* `routing.rs:56-59` and `client.rs:291` say that the
  0.0.0.0/0 route is stripped in `parse_hello_reply`, "so a server cannot install a
  full-tunnel hijack". `session.rs:249-264` skips only ranges that start at 0.0.0.1; the
  range of all addresses becomes 0.0.0.0/0. `HelloRoutesExact` states this, and the run
  has the range.
- *macOS.* `vpn_connect` waits for osascript with no bound (`pipe.rs:117-120`); the 15
  seconds of polling start after it.
- The age of a session counts its handshake, so a slow login followed by a drop
  restarts the backoff (`client.rs:434`).
- With the TUN always ready an answering peer can be declared dead, since the reader
  is polled last (`forward.rs:117`).
- After a timed-out stop two tunnels can be up together (`vpn-helper/src/main.rs:76`).
- A FortiGate document that is cut off is accepted for what it has (`http.rs:248`).
- AnyConnect's login stops reading at the end of the headers, so the body of a reply
  that arrives later stands before the next reply (`auth.rs:177`), which CSTP then
  takes for a bad status line: a transient error.

## 7. What is not modelled

The bytes and the wording of requests and replies; size guards on what is read; the
password cipher and the CCC parser (known-answer tests cover them; a model would
repeat them); TLS and certificate pinning (library calls and one comparison of
digests); the profile store (one statement per operation); of the CLI everything but
the probe; notifications, layout; on Android the engine's events and the descriptor;
Windows' pipe. `PROJECT.json` lists each with its reason.

## 8. Plan

Done: all modules of section 2 and the proofs of section 5. Next, in order:

1. `AndroidService` with `lastState` and the descriptor; `Gui` with the order of
   what is shown when readers overlap.
2. The bytes a handshake has read past its reply, from `Handshake` into
   `Forwarding`.
3. Of the liveness properties, the safety they rest on: that a stop request is never
   taken from a channel without being acted on.
