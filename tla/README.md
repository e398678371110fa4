# chromerpc: a TLA+ model

chromerpc puts a gRPC service in front of Chrome's DevTools protocol (CDP). One
process keeps one WebSocket to a headless Chrome and offers every CDP domain as
a gRPC service, plus a service that runs whole automations; a second mode gives
each client a Chrome of its own for the length of a stream; chrome-proxy is an
HTTP front end for one such stream with a live dashboard.

What is hard in it is concurrency: many goroutines share one WebSocket, one read
loop, one map of pending calls, one set of event handlers, one default session,
one pool of browsers. These modules model that state and the steps on it, TLC
checks them on small instances, and TLAPS proves for every instance what TLC
checks of safety, for every component, and that the detailed models of the client
and of the interactive service implement their abstract ones. Paths below are
relative to the repository; `:n` is a line.

1. [The system](#1-the-system)
2. [Modules and how they correspond to the code](#2-modules-and-how-they-correspond-to-the-code)
3. [Runs](#3-runs)
4. [Bounds](#4-bounds)
5. [Fairness](#5-fairness)
6. [Proofs](#6-proofs)
7. [What the models found](#7-what-the-models-found)
8. [What is not modelled](#8-what-is-not-modelled)
9. [Plan](#9-plan)

## 1. The system

| Component | State it keeps | Operations | Interacts with |
|---|---|---|---|
| CDP client, `internal/cdpclient/cdpclient.go` | connection, id counter, `pending`, default session, ready channel, closed flag | `Send`, `SendWithSession`, `Close`, `readLoop`, `reconnectLoop`, `OnReconnect` | Chrome over the WebSocket; every server below |
| Event subscriptions, `dispatchEvent`, `On` and 36 `SubscribeEvents` handlers | `handlers`, a channel per stream | register, dispatch, forward, unregister, close | the client's read loop; gRPC peers |
| Unary methods, 54 domain servers under `internal/server` | none | 442 methods, one command each | the client |
| Headless browser, `internal/server/headlessbrowser` | a `runContext` per call, browser contexts and tabs in Chrome | `RunAutomation`, `ExecuteStep`, `ExecuteStepShared`, 22 kinds of step | the client; the default session it falls back to |
| Recording, `headlessbrowser/record.go` | frames, acknowledgement channel | `doRecord`, frame handler, acknowledgement pump | the read loop; ffmpeg |
| Interactive sessions, `internal/server/interactive`, `cmd/chromerpc` `runInteractive` | managers, their Chrome, the channel of ready ones, the count of admitted clients | `Session`, `Acquire`, `Release`, `Recycle`, shutdown | launcher, client, headless browser |
| Launcher and orphan sweep, `cdpclient/launcher.go`, `reap.go` | a Chrome process and its directory | `Launch`, `Cleanup`, `ConnectOrLaunch`, `SweepOrphans` | the operating system |
| Session bootstrap, `cdpclient.go`, `cdpsession` | default session | `SetupDefault` | the client, as callback of reconnections |
| chrome-proxy, `chrome-proxy/` | one stream, a step counter, the ring of calls, subscribers | HTTP handlers, `histStore`, the dashboards' sockets and page | an interactive service, browsers |
| Command line programs, server start | flags | one sequence of calls each | the services |

What makes each correct, and which behaviours are hard:

- **CDP client.** A caller gets the answer to its own command or an error, never
  another caller's and never one made up; a command is written once; no caller is
  forgotten; nobody blocks while holding `mu`. Hard: responses, disconnects,
  deadlines, `Close` and the drain race for the entries of `pending` and for three
  channels, and commands are lost half way.
- **Events.** Order, no duplicates, nothing foreign, nothing lost but on overflow,
  and no stream that holds up another. Hard: handlers are called from a copy of the
  list after the lock is released, on the one goroutine that also reads answers, and
  some wait there for a peer to read.
- **Headless browser.** Runs do not meet, and leave nothing in Chrome. Hard: a
  context takes three calls to make and each may fail, be cancelled or be lost.
- **Interactive.** A browser has one client at a time and nobody else's state in
  it; admission is exact; failures do not shrink the pool. Hard: managers go from
  stream to background goroutine to channel while launches fail or hang and peers
  leave.
- **chrome-proxy.** Steps get their own answers although ids are not compared; a
  dashboard misses no call. Hard: slow subscribers, and reconnecting pages.
- **Launcher.** No process or directory outlives its owner for long, and none that
  is in use is swept. Hard: owners are killed between any two steps, and several
  launch and sweep at once.
- **Recording.** Frames are acknowledged once and in order, the channel is closed
  behind its last sender, the screencast ends with the recording. Hard: frames
  come on the read loop, in a copy of the handlers, while the step ends.
- **Navigation.** A wait ends with the signal of its own page. Hard: the page
  before, one that a reload, a click, a key, a script or a tab shows, redirections and
  other sessions send the same events.

## 2. Modules and how they correspond to the code

| Module | What it is |
|---|---|
| `CdpClient` | the client: calls, `readLoop`/`reconnectLoop`, `Close`, connections |
| `CdpCommands` | abstract: a command is carried out at most once, and answers are real |
| `CdpClientProps` | properties and inductive invariants of `CdpClient`, refinement of `CdpCommands` |
| `CdpClientProofs` | their proofs |
| `EventStream` | read loop, handlers, and streams with a profile of their domain |
| `EventDomains` | the profile of each of the 36 `SubscribeEvents` handlers |
| `EventStreamProps`, `EventStreamProofs` | properties, what makes them inductive, and the proofs |
| `DomainCommands` | the route of the unary methods of each of the 54 servers |
| `RunContexts` | automations in browser contexts of their own, next to unary calls |
| `RunContextsProps` | properties and inductive invariant of `RunContexts` |
| `RunContextsProofs` | their proofs: types, isolation, disposal |
| `Interactive` | managers, both providers, streams, shutdown |
| `Leases` | abstract: exclusive and clean browsers for a bounded number of clients |
| `InteractiveProps`, `InteractiveProofs` | properties, inductive invariant, refinement of `Leases`, and the proofs |
| `ChromeProxy`, `ChromeProxyProps`, `ChromeProxyProofs` | the proxy, its properties, their proofs |
| `Launcher`, `LauncherProps`, `LauncherProofs` | chromerpc processes, their Chromes, directories and sweeps |
| `Recording`, `RecordingProps`, `RecordingProofs` | `doRecord`: frame handler, acknowledgement pump, end |
| `Navigation`, `NavigationProps`, `NavigationProofs` | `doNavigate` with its load and network waits |
| `MC...` | instances for TLC |

How they fit together: `RunContexts` sees the client as its callers do, that is
through `CdpCommands` and the connection losses that `CdpClient` allows;
`EventStream` shares the read loop with `CdpClient` and abstracts the answers it
reads to one, while `CdpClient` has of the events that they may hold the loop;
`Interactive` sees launch, dial and bootstrap as one step that succeeds or fails, or
never ends if it is a warm-up, and `Launcher` has what is inside that step and between
processes; `Recording` and `Navigation` share the read loop with
`EventStream` and see Chrome as commands and events in order; `ChromeProxy` sees
the interactive service as a stream that answers in order.

**`CdpClient`.** A call is one invocation of `Send` or `SendWithSession`. Its
actions are the sections of `SendWithSession` (:144-226) between which another
goroutine can run: wait for readiness (a `select`, so each enabled case is a
disjunct), check and count the id under `mu`, register, write, wait on three
channels, delete. `readLoop` is one process with `reconnectLoop`: read, take the
entry, deliver outside the lock, drain, sleep, dial, install, callback, ready. An
event takes it to `"dispatch"`: the handlers run on its goroutine, and those of a
blocking domain keep it there until a peer reads, if it ever does.
`Close` is four steps: store, check, close, close the connection. A ready channel
is a number, so a caller that keeps the old one is visible. With
`OnReconnect = "SetupDefault"` the callback's calls are calls like others, made
while the loop is at `"callback"`. `executed` counts what Chrome did: on a broken
connection any subset of what was on the wire has been carried out.

**`EventStream`.** `handlers` is the slice of `On` per method; `todo` is the
copy that `dispatchEvent` iterates. A handler of a blocking domain waits for room
with the read loop stopped; one of a dropping domain gives the event up. The
domains differ in four things only (blocking, compares the session, watches
`client.Done()`, one or several events), so `EventDomains` lists each as a record
and `ProfileOf` reduces it to what the actions ask.

**`RunContexts`.** A run is one `RunAutomation` or `ExecuteStep`: `newRunContext`
call by call with its fall backs, steps as commands, the tab operations, the
download's tab and deferred close, the deferred disposal with a context of its
own. A browser context is named by its run, a session by its page and connection.
Users call unary methods; since these keep nothing, one is a single step at the
moment Chrome carries the command out, on the session that its server's `send`
or `sendBrowser` chooses (`DomainCommands`).

**`Interactive`.** What is being done to a manager is `job`, and exactly one party
may do it: the stream that holds it, or a background goroutine. A warm-up
(`ChromePool.Start`) has jobs of its own, `"warm"`, `"cool"` between two tries and
`"stuck"`: its `m.Start(rootCtx)` has no bound (`interactive.go:196`), where a release
and a recycling give up after 30 s (`:255`, `:343`). `Deployments`
chooses a single Chrome (semaphore, recycled before `Release` returns) or a pool
(counter, channel, background recycling with retries).

**`ChromeProxy`.** `mu` serialises exchanges, `histStore` has the ring and the
subscribers' channels under its own lock, a page seeds itself from a snapshot and
then reads its channel. The `panicked` variables in the models are Go's panics
(closing a closed channel, sending on one): they end the process.

**`Launcher`.** An owner is one chromerpc process, which may be killed between any
two steps; a restart is another owner. A launch is one call of `Launch` up to its
`Cleanup`, with a process group of a main process and a helper, and a directory.
A sweep is three steps that other processes interleave with: the snapshot of `ps`
and the kills (:83-107 of `reap.go`), the reading of the directories, the removal;
a snapshot may fail. The 30 s of `tmpReapMinAge` are the set `young`: directories
leave it at any moment, but not between two steps that are milliseconds apart in
the code (`MkdirAll` and `Start`, `ps` and `ReadDir`).

**`Recording`.** `todo` names the recordings whose handlers the read loop has yet
to call for `frame`, and the handler of another session returns at once (`Takes`).
`ackCh` is the channel, `pump` the acknowledgement under way. Chrome's screencast of
a session has the name of the recording that started it (`cast`), and so has every
frame, which only the properties look at. A wait of the step for
an answer ends with the answer, an error or the end of its context: the request's
for start, script and evaluations, one of its own with five seconds for the stop.
Chrome carries a command out or refuses it, and need not answer. The 120 ms of
`time.Sleep` are the guard `Settled`: long enough for the read loop to leave the
handler, unless it waits for room.

**`Navigation`.** A step is `doNavigate` from `Page.enable` on; `reg` has the
events it has handlers for, which the tracker registers one by one. `inbox` is the
one ordered stream of events and answers. An answer is delivered to its caller and
does not hold up the events behind it. Other steps of the session, and the page
itself, are there by what they show: `Replace` puts another page in place of the one
that is shown, at any moment, and its load event comes when it will, or has come
before in the tab that is switched to. `seen`, `odd` and `alone` are history: what the
tracker should count, what has kept it from that, and whether all earlier pages had
loaded when the load handler was registered and none was shown since.

## 3. Runs

All counts are distinct states. `CHECK_DEADLOCK FALSE` everywhere: every instance
has a bounded amount of work and stops when it is done.

| Run | Instance | States | Shows |
|---|---|---|---|
| `client` | a call, the server's callback with a deadline, 2 reconnections, 1 `Close`, events that hold the loop | 262 000 | `OwnAnswer`, `WaiterReachable`, `NoLeak`; `DeadlineReturns` and `CloseReturnsCalls` although handlers hold the read loop; `AcceptedReturns` (commands on a live wire end their calls) and `Recovers` (connections are replaced) as long as peers read; refinement of `CdpCommands` |
| `client_v_callback` | the callback without deadlines | | violated: `CallbackAnswered` |
| `events_safe` | 2 streams of either kind, 2 events each, 2 sessions | 1 830 000 | `Inv` (types, `InHand`, `Registering`, `Dispatched`, `Subscribed`), `InOrder`, `OnlyOwnHandlers`, `Complete` |
| `events_flow` | 2 streams, one perhaps stuck or leaving, a command, the end of the client | 269 000 | `LeaversReturn`, `CommandsFlow` |
| `events_v_silent` | 1 blocking stream whose peer leaves | | violated: `UnregisteredIsSilent` |
| `contexts` | 2 runs, one cancellable and refusable, one with tabs, 1 user, 1 reconnection | 378 000 | `Isolated`, `Disposed`, `CancelledReturns` |
| `pool` | 3 clients; a single Chrome and a pool of 2; one Chrome may die, one peer may go, warm-ups may hang | 47 400 | `Inv` (types, `ReadyHasBrowser`, `CountsAdmitted`, and where managers are: `Leasing`, `Queued`, `Wiped`, `Placed`), `OneOwner`, `CleanBrowser`, `PendingServed`, `PoolRefills`, `LeaversReturn`; refinement of `Leases` |
| `proxy` | a batch, a pair of steps, a close, 1 page that reads or stalls and reconnects | 256 000 | `Inv` (types, `OneAtATime`, `OnTheStream`, `NothingUnrecorded`, `ChannelsClosedOnce`), `OwnAnswers`, `CaughtUp`, `RequestsReturn`, `PagesCatchUp` |
| `navigation` | 2 navigations of any kind, 1 page that something else shows, 2 requests, events of another session | 642 000 | `Inv` (types, `LoadNotMissed`, `HandlersGone`, and what is on its way: `ChromeKnows`, `SentHaveIds`, `OneAnswer`, `LoadsOnce`; and the tracker's count: `Counts`), `LoadIsOwn`, `SignalsArrive` |
| `recording` | 2 recordings of one session or of one each, both scripted, 1 polled and cancellable, 2 frames | 577 000 | `Inv` (types, `AckedOnce`, `NothingRuns`, and what is on its way: `InSequence`, `Awaited`, `Casting`, `Underway`, `Recorded`, `GetsOwn`, `Counted`), `SafeEnd`, `CastStopped`, `CancelledReturns` |
| `recording_v_bound` | 1 recording with a stop condition | | violated: `StopsByBound` |
| `launcher` | a pool that launches 2 at once and a process that keeps directories and records | 2 960 000 | `IInv` (types, `HasDirectory`, `OrphansOnly`, `AtRest`, `Untouched`, `Sweeping`, `KilledFirst`), `SweepsFirst`, `NothingLeft`, `SweepSpares` |

Every property of a passing run has a seeded bug, an operator next to the
definition it replaces ("Seeded bug" in the modules), that TLC finds with it: an
id taken from the map's size, an entry that is not deleted, a handler cut out at
the wrong place, a manager put back without a browser, and so on.

## 4. Bounds

- *A call and a callback's call* (`client`): every property of the client relates
  at most two calls (one that goes wrong and one that causes it), the read loop and
  `Close`. `MaxId` exceeds the calls, so ids do not bind. The proofs hold for any.
- *Connections*: the last of the bound does not break, so that fairness has
  something to rest on; two or three connections give one or two reconnections,
  enough for a command of one connection to meet the next.
- *Events*: `MaxEvents` exceeds `Cap` by enough for a channel to be full, a
  handler to be called and another event to follow. `Cap` 1 stands for 64 and 128:
  the code only distinguishes full from not full.
- *Two sessions and the empty one*, *two methods*: own, foreign, and unspecified.
- *Two managers, three clients*: one more client than slots, so that one is turned
  away, one waits and one is served; clients do not come back. With two managers one
  warm-up can hang while the other manager serves.
- *Runs*: `MaxOps` 1 tab operation, `MaxTabs` 1. A run's other steps are not
  bounded. Two runs and a user for safety: `Isolated` relates two parties, and with
  a third the default session is contended.
- *Proxy*: `MaxCalls` 2 for 1000 and `Cap` 1 for 64 with four steps, so that the
  ring wraps and a subscriber overflows; two subscriptions of a page.
- *Navigations*: what disturbs a navigation is left by the one before, or by a page
  that something else has shown (`MaxOther` 1): two. Two requests, of one page or of
  one each, so that two can be in flight and one can be left. `MaxInbox` 1, beyond the
  answers and the first request of a navigation: two events that come one after the
  other with a step of doNavigate between them are enough for what was left to meet
  what is new.
- *Events that the client reads* (`client`): an event costs the loop nothing but time, so
  they need no bound.
- *Recordings*: two, as three would share a session as two do. `Cap` 1 for 1024 and
  `InFlight` 1, as Chrome sends a frame when the one before is acknowledged. What
  the theorems need of the two is `InFlight <= Cap`. Two frames: one in the hand of the
  read loop and one that comes after the end.
- *Launches*: two owners, as every property relates one that sweeps and one that is
  swept; a pool launches twice because `sweepOnce` is about a second launch. One
  helper stands for Chrome's child processes.

## 5. Fairness

- A goroutine that can run does: weak fairness of each call, loop, handler and
  stream step. In `CdpClient` and `EventStream` this includes a `select` with a
  case ready.
- Go's mutex hands over to a waiter after 1 ms (starvation mode), so a lock that
  is free again and again is got: strong fairness of `Lock` (`ChromeProxy`).
- `readLoop` goes on whenever it is not held, with strong fairness of `LoopStep`: the
  peer that a handler waits for may read and fall behind again and again. That it
  reads at all is not assumed (no fairness takes the loop out of `"dispatch"`); it is
  the premise `PeersRead` of the two properties that need the loop, `AcceptedReturns`
  and `Recovers`. `DeadlineReturns` and `CloseReturnsCalls` do without it.
- Dials and launches may fail any number of times and not for ever: strong
  fairness of `DialSucceeds` and `LaunchSucceeds`. The code retries both without
  limit.
- A warm-up may hang instead, and no fairness ends it. `PendingServed` and
  `PoolRefills` except what follows: the manager that is `"stuck"`, and a client that
  waits because the counter still admits clients for it (`Crowded`). One warm-up that
  hangs costs its own manager and no other.
- Chrome answers what reaches it on a connection that stays up (`CdpClient`); it
  need not in `RunContexts`, where cancelled calls have to return all the same.
- A cancelled stream stops sending commands, so its handler reaches the end:
  strong fairness of `cancelled[c] /\ Release(c)`; a run has a finite number of
  steps: strong fairness of `Finish`.
- The `select` of `recordWait` comes again after every evaluation, and Go chooses
  among ready cases at random: strong fairness of `Stop` (`Recording`). Its
  time-outs come; Chrome answers what it likes.
- In `Navigation` no time-out has to come: Chrome commits, loads and ends
  requests, the half second passes, and that has to be enough for the waits to end.
  Loads and ends of requests are strongly fair because the bound `MaxInbox` keeps them
  waiting now and then.
- `Navigation` and `Recording` have a read loop that goes on: no peer of a blocking
  stream holds it for good, the premise that `CdpClient` states as `PeersRead`.
- `Launcher` states no fairness: its properties are safety, and a sweep may fail.
- Nothing is assumed of peers: nobody has to call, close, subscribe, leave or read.
  Peers in `Slow` may stop reading for good, and pages outside `readers` too.

## 6. Proofs

TLAPS proves, for every value of the constants that satisfies the named assumptions:

| Theorem | Says |
|---|---|
| `ClientTypeCorrect` | `Spec => [](TypeOK /\ IdsUnique)` |
| `ClientInvariant` | `Spec => []IInv` |
| `ChannelsHaveRoom`, `AnswersAreRouted`, `WaitersAreReachable`, `ReturnedCallsAreForgotten` | `[]SlotFree`, `[]OwnAnswer`, `[]WaiterReachable`, `[]NoLeak` |
| `CommandsExecuteOnce` | `Spec => []ExecutedOnce` |
| `ClientImplementsCommands` | `Spec => ImplementsCommands`: the refinement of `CdpCommands` |
| `RunsTypeCorrect` | `Spec => []TypeOK` of `RunContexts` |
| `RunsAreIsolated` | `Spec => []Isolated` |
| `ContextsInvariant` | `Spec => []IInv` of `RunContexts` |
| `RunsLeaveNothing` | `Spec => []Disposed` |
| `EventsInvariant` | `Spec => []Inv` of `EventStream` |
| `EventsInOrder`, `NothingLostNeedlessly`, `HandlersAreOwn` | `[]InOrder`, `[]Complete`, `[]OnlyOwnHandlers` |
| `InteractiveInvariant` | `Spec => []Inv` of `Interactive` |
| `ManagersHaveOneOwner`, `ReturnsFindRoom`, `BrowsersAreClean` | `[]OneOwner`, `[]RoomToReturn`, `[]CleanBrowser` |
| `ServiceImplementsLeases` | `Spec => ImplementsLeases`: the refinement of `Leases` |
| `ProxyInvariant` | `Spec => []Inv` of `ChromeProxy` |
| `RequestsGetOwnAnswers`, `PagesLoseNothing` | `[]OwnAnswers`, `[]CaughtUp` |
| `LauncherTypeCorrect`, `LauncherInvariant` | `[]TypeOK`, `[]IInv` of `Launcher` |
| `SweepsSpareOthers` | `Spec => SweepSpares`: an action property |
| `LaunchesFollowTheSweep`, `LaunchesLeaveNothing` | `[]SweepsFirst`, `[]NothingLeft` |
| `NavigationInvariant`, `LoadsAreNotMissed` | `[](Inv /\ LoadIsOwn)`, `[]Inv` of `Navigation` |
| `WaitsEndForTheirOwn` | `Spec => []LoadIsOwn` |
| `RecordingInvariant` | `Spec => []Inv` of `Recording` |
| `RecordingsEndSafely`, `CastsAreStopped` | `[]SafeEnd`, `[]CastStopped` |

In every module one lemma per part of the invariant, or one per action, preserves
it; the temporal theorem combines them with PTL. `FairSpec` implies `Spec`, so the
theorems hold of the fair specifications too.

**The client** (`CdpClientProofs`). Assumed is
`ClientAssumption`: calls of users and of the callback are disjoint, `NoCall` is
neither, deadlines belong to calls, `OnReconnect` is one of the two, the bounds
are naturals. The theorems hold with and without a callback.

None of the safety properties is inductive. `SlotFree` needs that
a registered entry is under its own id (`NamedById`), which needs ids to be unique
(`IdsUnique`: numbered from one counter, kept for good) and a channel to be
untouched before registration (`EmptyBeforeRegister`). `OwnAnswer` needs that
every request and response in the network carries the id of the call whose
command it is (`NamedById` again). `WaiterReachable` speaks of the final `select`;
its inductive form `Reachable` starts at the write, from where the entry may be
taken. `NoLeak` follows from `NamedById`. Together with `TypeOK` this is `IInv`.
For the refinement, `ExecutedOnce` adds that a command is on one wire at most and
only while it has not been carried out, and that answers on their way belong to
commands that were.

The proof of each step goes action by action: frame lemmas say which variables a
group of actions leaves alone (`CallFrame`, `CloseFrame`, `ReadFrame`, ...);
`IdsStep`, `TypeStep`, `RoutingStep` and `ExecutedOnceStep` preserve the parts of
the invariant; the temporal theorems combine them with PTL. The run `client` checks
the parts of `IInv` that say something of the code, and the refinement.

**Runs** (`RunContextsProofs`). Assumed are
`ContextsAssumption` (runs and users are disjoint, the default context is nobody's,
the bounds are naturals) and `NoneAssumption` (`None` is no command and no session).

`Isolated` speaks of the past and the present at once: a run that once used the
default context must not have one of its own later. Its strengthening says that
everything a run knows (`KnowsOwn`), everything Chrome has of it (`AtHome`) and
everything it has sent (`SentOwn`) belongs to it, or to the default context if it
has no context. The delicate step is the one that gives a run its context: what
was allowed to a run without one would be wrong from there on. So each part also
says that there is none of it before the creation returns (`Unmade`,
`UntouchedUntilMade`), and that a run never gets a context afterwards follows from
`newRunContext` being called once, first.

`Disposed` needs that a context in Chrome is never forgotten. `Accounted` says of
every run whose creation and disposal were not left unanswered: a creation on its
way is awaited, without context or answer yet; a context in Chrome is either
awaited, with no refusal on its way, or belongs to a run that has it, is not over
and has no success of its disposal on its way. For this an answer has to be the
one the run waits for (`AwaitsOwn`).

The step proofs again have one step per action. `OwnLearn` covers every action in
which a run gets to know something, `AccountedForget` every return of a call.
`IInv` is the conjunction; the run `contexts` checks what follows from it.

**Events** (`EventStreamProofs`). Assumed is `StreamAssumption`: sets of streams and
sessions, a channel with room for one event at least. `IInv` is
`Inv /\ InOrder /\ OnlyOwnHandlers /\ AllServed`. `InOrder` alone says nothing of the
event that a handler is about to add; `Dispatched` says that it is the newest there
is, that no stream has it yet, and that a handler in the loop's copy is there once,
which needs `OnlyOwnHandlers`. `AllServed` is `Complete` with the case of a dropping
stream left out, which follows from the last clause (`ServedIsComplete`): what is
lost is lost because `Cap` events that came before are in front of it. Effect lemmas
(`SentEffect`, `CallEffect`) say what a step does to `Passed` and `Due`, and the
preservation lemmas use nothing else; `CutFacts` is what `On`'s unregister does to
the slice.

**Interactive** (`InteractiveProofs`). Assumed is `InteractiveAssumption`: finitely many
clients and managers, deployments with one manager at least. `OneOwner` is a sum and no
step preserves it by itself. `Leasing`, `Queued`, `Wiped` and `Placed` say
instead where each manager is, that it is there alone, and how clean it is;
`OneOwner` and `CleanBrowser` follow from them. `RoomToReturn`, that `p.ready <- m`
never waits, is counted: the managers in the channel are distinct and the one that
is returned is not among them. The refinement maps every step to a step of
`Leases` or a stutter, a lemma for each group of actions (`AdmitRefines`,
`GrantRefines`, `StreamRefines`, `TeardownRefines`, `LaunchRefines`).

**chrome-proxy** (`ChromeProxyProofs`). Assumed is `ProxyAssumption`. `OwnAnswers`
needs that `mu` has one holder (`OneAtATime`) and that between exchanges the stream
is empty (`OnTheStream`). `CaughtUp` says that the messages in a page's channel lead
without a gap from what it has to the newest call (`Leads`, a function from messages
to calls, so that no induction is needed): a broadcast leads on by one
(`BroadcastLeadsOn`) and a page that reads takes off the first (`NextCall`,
`RingKeepsLast` for the list itself).

**Launcher** (`LauncherProofs`). Assumed is `LauncherAssumption`. `OrphansOnly` speaks
of what a sweep has found some steps ago. It stays true because what can become in
use is in nobody's list (`Untouched`: not made yet, so no sweep looks for it, or
young) and what is dead does not come back (`AtRest`). `SweepsFirst` needs `Sweeping`:
what earlier owners had left when the sweep began is found by `ps` and by the reading
of the directories, or gone. `NothingLeft` needs `KilledFirst` and is proved next to
`IInv`. Nothing is assumed of `AsInit`: the Chromes of a process 1 are not what
`InUse` promises to spare.

**Navigation** (`NavigationProofs`). Assumed is `NavigationAssumption`. The inductive
invariant is `Inv /\ LoadIsOwn`. `LoadIsOwn` needs that no load event but the
page's own is to come (`NoOther`), and that it comes once (`LoadsApart`). A navigation
that finds everything `Settled` when it registers its handler has that, and keeps it
until `Replace` shows another page, which ends `alone`; that its wait leaves everything
`Settled` again is part of `LoadIsOwn`. For this, what Chrome has must not be ahead of
what it was asked (`ChromeKnows`), and no answer of another step may be on its way
(`OneAnswer`). `Counts` needs that a request has an id (`SentHaveIds`) and types. All
actions change the one stream `inbox`; the lemmas describe each by the messages that
are gone and new, and the parts of the invariant are preserved from that description.

**Recording** (`RecordingProofs`). Assumed are `RecordingAssumption` and
`AheadAssumption` (Chrome sends no more frames ahead than the channel holds; the code
has 1024 for a frame or two). `IInv` is `Inv /\ LateCalls /\ Excused`. That a handler
finds its channel open needs that no frame of its session is left when the step has
slept: frames of a screencast come before the answer to its stop (`EndsLast` in
`Underway`), answers are awaited (`Awaited`), and a screencast without its recording
was given up or its stop refused (`Casting`). What other recordings of the session may do to it is
`Shares`, and `GetsOwn` says that they do nothing to one that does not share.
`Counted` bounds what a recording has not acknowledged by Chrome's own count, so that a
full channel and a frame in the hand would be one more than Chrome sends
(`WaitingShares`). The ten steps of `doRecord` are described once, by what they drop
and what they turn to, and each part is preserved from that.

**Only model-checked**: liveness (fairness and `ENABLED` are out of the prover's
reach): `AcceptedReturns`, `DeadlineReturns`, `CloseReturnsCalls`, `Recovers`,
`LeaversReturn`, `CommandsFlow`, `PendingServed`, `PoolRefills`, `RequestsReturn`, `PagesCatchUp`,
`CancelledReturns`, `SignalsArrive`; and the violations. The tables `DomainCommands` and
`EventDomains` are data, and no theorem is about them.

## 7. What the models found

Runs that show a difference between code and documentation (the `_v_` runs):

- `client_v_callback`: `OnReconnect` runs before `readLoop` restarts, so its first
  command is never answered; the 30 s limit ends it and the session is not
  replaced (`cdpclient.go:475`, comments :84-85, `main.go:247`).
- `events_v_silent`: a handler of a blocking domain may send on the channel its
  stream has closed: a panic of the read loop (`console.go:64` and fifteen more).
- `recording_v_bound`: the stop condition and the start script are evaluated
  without a bound, and the maximal duration is looked at only between evaluations
  (`record.go:242`, :156; `headlessbrowser.proto:288-289`).

Seen in the models, without a run of their own:

- `Close` and the loop both check `closed` and then close it (:323-328, :357): the
  second close panics. The properties of `CdpClient` name `panicked`.
- `Close` during a dial: the new connection is installed, announced and read, and
  nobody closes it (:436-459).
- A call that registers after the drain and writes before the socket is closed
  waits for ever if it has no deadline (:181-194). `AcceptedReturns` is therefore
  about commands on the wire of a live connection.
- With a callback, callers blocked on the ready channel are not woken: the loop
  replaces the channel while the callback runs and closes another (:465-497). Only
  a deadline or `Close` ends their wait.
- Sixteen domains block the read loop, and with it everybody, while one peer does
  not read: no answer is delivered, and a connection that breaks is not replaced, as
  only the loop's read notices it. `CommandsFlow` is stated for the other domains, and
  `AcceptedReturns` and `Recovers` for peers that read.
- A single interactive Chrome whose recycling failed is handed to the next client,
  which is told that its session is ready (`interactive.go:155`;
  `headlessbrowser.proto:52`). The pool retries instead.
- An automation cancelled while `Target.createBrowserContext` is in flight leaves
  the context in Chrome, and falls back to the shared session, where the first
  command of its first step may still be carried out (`headlessbrowser.go:84-89`;
  the comment at :155-156 says that automations do not share). `Disposed` excepts
  unanswered creations (`unsure`).
- A warm-up has no bound: a Chrome that hangs, or dies between the commands of the
  bootstrap, keeps its manager until the server stops, without another try
  (`interactive.go:196`; :185-186 says that failures are retried and cannot take the
  instance down). `PendingServed` and `PoolRefills` except it (`"stuck"`, `Crowded`).
- `GracefulStop` waits for streams that are idle or pending (`main.go:384`).
- A Chrome that dies while its manager waits in the channel is handed out all the
  same (`interactive.go:267`), and the steps of the client that gets it wait for a
  reconnection; all that holds is `LeaversReturn`.
- `/close` stores CLOSED after it has released `mu`: a step that waited for `mu`
  stores ERRORED before or after it (`chrome-proxy/main.go:423`).
- `main.go:248` assigns `OnReconnect` when the read loop already runs; until the
  callback is through, commands on the new connection name the old session (:165).
- A page that reconnects is sent the whole ring again and appends it to what it
  lists: every retained call shows twice (`monitor.html:237`), where
  `chromeman.proto:22-23` says media travels exactly once.
- Event streams stay registered across a reconnection, but the domains were enabled
  in a session that is gone: they stay open and silent.

Of the launcher:

- A chromerpc that is process 1 itself, as in a container, has children that look
  like orphans: the sweep of a second process kills its live Chrome
  (`reap.go:99`). `InUse`, and with it `SweepSpares`, excepts the Chromes of such
  processes (`AsInit`). The `Dockerfile` installs no `procps`, so that `ps` is
  missing there and nothing is ever swept (`SnapshotFails`).
- The frames of a recording (`chromerpc-rec-*`, `record.go:276`) and what
  `snap.sh` keeps under `/tmp/chromerpc-testing` match the prefix of the sweep and
  belong to no Chrome: when older than 30 s they are removed by the first launch of
  another process, while ffmpeg reads them.
- A Chrome that prints no URL is killed without its group (`launcher.go:226`,
  where `cmd.Cancel` at :192-194 and `reap.go:22-26` name the group): its helpers
  are left. `NothingLeft` excepts them (`unparsed`).
- The helper of an orphaned main process keeps its directory live for the sweep that
  kills it (`reap.go:102`); the next sweep takes the directory. A directory kept with
  `NoTmpCleanup` is removed by the sweep of another process.
- In pool mode nobody calls `Close` of a manager at the end, and a `log.Fatalf` after
  the launch skips the deferred `Cleanup`: both leave it to the next sweep.

Of recordings and navigations:

- A recording whose start fails or is cancelled closes its channel at once, behind a
  handler that may be running (a panic of the read loop), and sends no stop to a
  screencast that did start (`record.go:148-152`). `SafeEnd` and `CastStopped`
  except it (`aborted`).
- Two recordings of one session, which fallen-back automations share, both
  acknowledge every frame, and the first to stop ends the screencast of both. A
  frame acknowledged twice lets Chrome send ahead: a channel could then fill.
  `SafeEnd` excepts a recording that shared its session (`Shares`), with another at
  the same time or with a screencast that was given up before.
- The 120 ms are all that keeps a handler in the copy of the list from the close.
- A redirection repeats `requestWillBeSent` under the same id and ends once, so the
  tracker never returns to zero and `networkidle` takes its whole time-out
  (`headlessbrowser.go:566`).
- A handler knows a load event by its session alone, so that of a page nobody has
  waited for (a reload, a click, a script, a tab, a navigation with `commit` or a
  time-out) ends the wait of the next navigation, whose page may be shown and not
  loaded (`headlessbrowser.go:473`; :447-448 says that the wait makes it usable by the
  next step). `LoadIsOwn` says when this cannot happen (`alone`).
- The end of a request that was left by the page before decrements the count of the
  next navigation, and a request that starts while the tracker registers its three
  handlers may have its end missed. `Counts` excepts the first, `SignalsArrive` the
  second (`odd`).
- `recipes/README.md:24` says `commit` is the default of `wait_until`; the code
  waits for `load` (`headlessbrowser.go:445`).

## 8. What is not modelled

- The generated code under `proto/` (some 112 000 of the repository's 132 000 lines of
  Go): messages and stubs without behaviour of their own. What remains is modelled
  where it keeps state or meets concurrency; a share of the whole says little here.
- The steps of an automation that are one or more commands in a row (clicks, keys,
  scripts, PDF, screenshots): `RunContexts` has them as commands of a run, and none of
  its properties depends on which. For `Navigation` it does matter that some of them
  show another page; `Replace` stands for those, without the step that sends the
  command.
- A `WriteMessage` that blocks (`cdpclient.go:194`): the caller would hold `writeMu`
  and look at no context. A write fails or succeeds at once.
- The reading of `ps` lines and flags, `findChrome`, a reused process id, a given
  `UserDataDir` (no caller gives one).
- ffmpeg, and the arithmetic of frame durations.
- What commands mean to Chrome, beyond contexts, targets and sessions; conversions
  between protobuf and JSON; screenshots, PDF and encoding; key tables.
- `OnAll` has no caller. `Ping` of a session changes nothing.
- Backoff lengths, time-outs as durations: a time-out may happen at any moment.
- The command line programs, the registration of services, integration tests and
  sample recipes: sequential clients without shared state, or data.

## 9. Plan

Order: the parts everybody depends on first. Done: every component of section 1 but
the sequential programs, and the proofs of what the runs check of safety.

Next, abstract specifications, with their refinements checked and proved: a
subscription as a bounded lossy queue (for `EventStream`), and a followed log (for
`ChromeProxy`).

Next, compositions that discharge the abstractions of section 2: `CdpClient` with
`EventStream` (one read loop, and a reconnection under streams whose domains are then
not enabled any more), and `Interactive` with the client's reconnection.
