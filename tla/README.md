# Connected Vehicle Platform in TLA+

Specifications, model-checking runs and machine-checked proofs for the
connectivity service of this repository: its life cycle, its recovery from lost
tokens and links, what becomes of the telemetry it produces, the demo application
around it, and the generated SOME/IP bindings. Paths below are
relative to the repository (`src/ConnectivityService/...`); `PROJECT.json` lists
every run, mutant, mapped definition, finding, hazard and theorem.

## 1. The system

| Component | State | Operations | Used by |
|---|---|---|---|
| ConnectivityService | `state_`, `running_` (atomics), `worker_` (jthread) | `start`, `stop`, destructor, `publishTelemetry`; worker `runLoop` | the application |
| AuthClient | `access_token_`, `expires_at_` (no lock) | `authenticate`, `refreshToken`, `isTokenValid`, `clearToken` | the service, other holders |
| MqttClient, PahoMqttBackend | two `connected_` flags, the Paho client, two mutexes | `connect`, `disconnect`, `reconnect`, `publish`, `subscribe`, `isConnected` | the service, TelemetryManager |
| SomeipClient | `socket_fd_`, `connected_`, a mutex | the same interface over a TCP socket | the demo's transport |
| TelemetryManager | `pending_messages_`, a mutex | `publishSample`, `queueMessage`, `flushQueue`, `pendingCount` | the service's worker, the application |
| AuthSession | `token_`, `authenticated_` | `authenticate` with a bounded retry loop | nothing but a test |
| Logger | a mutex, a file | `log` | the service |
| demo `main` | a listener thread, one TCP connection | starts listener and service, stops, joins | - |
| ConnectivityRuntime, MqttGateway, DiagnosticsService, VehicleSignalService, Vehicle | one flag, or none | one-line placeholders | tests |
| CommonAPI bindings (`generated/`) | the stub adapters, `stubAdapter_` of each stub | proxy methods, stub dispatchers, handlers, one broadcast | built, not called by the application |

Interactions. The application creates the clients as `shared_ptr`s, hands them to
the service and keeps its own copies. `start()` authenticates, connects and
creates the worker thread; the worker then owns recovery (refresh, reconnect) and
publishing; `stop()` and the destructor request the worker's stop and join it.
TelemetryManager publishes through the transport the service also manages.

Hard behaviour, and what makes each component correct:

* **Service life cycle** - two threads write `state_`; a stop may arrive at any
  point of a round; a start may fail halfway; starts and stops repeat. Correct
  means: return values are the truth, one owned loop at most, Stopped is stored
  last, samples go out only in healthy, authenticated states, calls return, the
  loop recovers.
* **Telemetry queue** - check-then-publish without a lock; pop-then-publish;
  several flushers. Correct means: nothing lost or doubled, order kept,
  `flushQueue()`'s answer true.
* **MQTT client** - flags in two layers; operations that time out and complete
  later; exceptions halfway; `reconnect()` in two critical sections. Correct
  means: the flags agree and are true, a disconnect is final, locks are
  released, a lost link is noticed and repaired.
* **SOME/IP client** - descriptors shared with the rest of the process, dials that
  fail halfway, partial sends, a peer that closes. Correct means: the client uses and
  closes its own descriptor only and leaks none, a row of successful publishes is
  well framed, a lost peer is noticed and a reconnect repairs it.
* **AuthClient** - two fields written, and read, one after the other without a lock.
  Correct means: it vouches for no token whose own grant has run out, and a grant that
  nobody cleared is good to its end.
* **AuthSession, Logger** - a retry bound compared in two places; lines of several
  threads on one console and in one file.
* **Demo** - `listen()` races `connect()`, a thread is joinable at an early return, the
  peer closes after one payload while the service goes on sending. Correct means: a
  demo that starts ends, with 0 and a payload shown.
* **Bindings** - the same ids, types and orders written out in nine files; a weak
  pointer to an adapter that may go while a broadcast uses it. Correct means: a call
  runs the handler it names with its arguments in their places, and a broadcast is
  sent through a live adapter whenever one is offered.

## 2. Modules

| Module | What it is |
|---|---|
| `ServiceLifecycle` | abstract specification: what the owner of the service is promised |
| `ConnectivityService` | the service, one action per access to shared state |
| `ConnectivityServiceInv` | its inductive invariant |
| `ConnectivityServiceProofs` | TLAPS proofs about it |
| `LifecycleRaces` | calls of the service that overlap, and backends that throw |
| `TelemetryManager` | the offline queue and its two ways out |
| `MqttClient` | the MQTT client over its default backend |
| `SomeipClient` | the SOME/IP client over kernel descriptors and a peer |
| `AuthClient`, `AuthSession`, `Logger` | the three small components the service is built with |
| `Demo` | `main()`, its listener thread and the worker under them |
| `Wire`, `FrancaInterfaces` | what a generated method is; the FIDL and FDEPL files |
| `ConnectivityBinding`, `DiagnosticsBinding`, `VehicleSignalBinding` | the generated proxy, adapter and stub of each service, as tables |
| `RemoteCalls` | calls and broadcasts through the three bindings |
| `MCConnectivityService`, `MCTelemetryManager`, `MCMqttClient`, `MCSomeipClient`, `MCRemoteCalls` | instances for TLC |
| `LifecycleRacesProofs`, `TelemetryManagerProofs`, `MqttClientProofs`, `SomeipClientProofs`, `RemoteCallsProofs`, `DemoProofs` | TLAPS proofs about the module each is named after |
| `SmallModelsProofs` | TLAPS proofs about `AuthClient`, `AuthSession`, `Logger`, and those of `LifecycleRaces` carried over to `MCSmallModels` |
| `MCSmallModels` | `AuthClient`, `AuthSession`, `Logger` and `LifecycleRaces`, of which a behaviour is one |

Definitions named `X_Variant` (`StartCall_NoGuard`, ...) are faulty versions of
`X`. No specification uses them; each shows, when put in the place of `X`, that
some property notices that mistake.

### ConnectivityService

`wpc[w]` is the position of thread `w` in `runLoop`, `cpc` the position of the
control thread in `start()`, `stop()` or the destructor. A step is one access to
state that another thread can see: each `state_.store`, each `running_.exchange`,
each condition of the loop. A call into an injected backend is one step, taken
when it returns, with its outcome open: `authenticate()` grants (possibly an
already expired token, `expires_in = 0`) or denies; `connect()` succeeds or not;
`reconnect()` is `HangUp` and then `DialOk` or `DialFails`, or ends at `HangUp`
when MqttClient's `disconnect()` fails (SomeipClient dials regardless).

| Code | Model |
|---|---|
| `connectivity_service.cpp:24-53` | `StartCall`, `StoreStarting`, `Authenticate`, `StoreAuthenticating`, `Connect`, `StoreStartFailed`, `ReturnFailed`, `StoreConnected`, `Spawn`, `ReturnStarted` |
| `:57-65` | `StopCall`, `RequestStop`, `Join("join", "joined")`, `ReturnStopped` |
| implicit destructor, `worker_` last (`connectivity_service.hpp:42-48`) | `Destroy`, `Join("closing", "destroyed")` |
| `:85-98` | `CheckStop`, `CheckToken`, `StoreRefreshing`, `RefreshGranted`, `RefreshDenied`, `CheckNonEmpty`, `StoreRefreshed`, `StoreRefreshFailed` |
| `:100-111` | `CheckLink`, `StoreReconnecting`, `HangUp`, `DialOk`, `DialFails`, `StoreReconnected`, `StoreDialFailed` |
| `:113-117`, `telemetry_manager.cpp:49-66` | `BeginSample`, `Send`, `QueueMessage` |
| `:68-74`, called by the application | `PublishTelemetry` |
| `:120-122` | `ExitLoop` |
| time; other holders of the clients | `EnvExpire`, `EnvClearToken`, `EnvDropLink` |

Abstractions, with their reasons:

* One control thread, or several that take turns; see `LifecycleRaces` for calls that
  overlap.
* All four collaborators are non-null; a null one takes the same branches as a
  refusing one. Backends do not throw (they do in `LifecycleRaces`).
* The transport is handed over unconnected (`Init` has `up = FALSE`), as in `main()` and
  the tests. A client that was connected before would only be up while the service is
  stopped, which `StoppedIsQuiet` excludes: the service disconnects what it finds
  connected at the end of its loop, not before its first start.
* `publishTelemetry()` of the application may queue a sample at any moment
  (`PublishTelemetry`); it is not bound to a healthy state, so `HealthyWhenPublishing`
  and `NoSampleAfterDenial` speak of the loop's samples only.
* `token` is none, expired or valid; the backlog is a count that saturates.
* A log line changes nothing. `sleep_for` changes nothing and does not look at the
  stop token, so it is the time before the next `CheckStop`.
* Another holder may clear the token or take the link down; it does not repair
  them behind the loop's back. (If it did, `state()` could lag one round behind.)

### LifecycleRaces

`start()` and `stop()` by any number of threads at once, in any order. `worker_` has no
lock; what keeps two threads off it is that `running_.exchange()` lets one caller through,
and `running_` is set before `worker_` is assigned and reset before it is joined. `Spawn`,
`Assign` and `Replace` split line 51: the new loop runs in a temporary, a loop that
`worker_` still has is told to stop and joined, and the new one moves in. `Ask` and
`Throws` are the outcomes of a backend call; an exception leaves `running_` set, so that
`start()` answers true with nothing running until a `stop()`, which throws too, has reset
it. Of the loop only its stores to `state_` and its end are left. A second `start()` or
`stop()` that overlaps the first returns true before the first is done; no property says
otherwise.

`Racing` says when two threads are at `worker_` at once and one of them writes it. That is
a data race, hence undefined behaviour, and a behaviour ends there. Accesses that come one
after the other in time are taken to be ordered, though `start()` and `stop()` do not
synchronise with each other on `worker_`.

`order` tells how far the properties reach. It is "kept" while no `stop()` overlaps a
`start()`: then `worker_` is exclusive and a new loop finds it empty. An overlap makes it
"broken", and a call that afterwards runs alone mends it: from its first step it has
`worker_` for itself, and once such a call has succeeded the next ones find the service as
if nothing had happened. While it is broken the code keeps one promise only: between calls no more
than one loop runs, and `worker_` has it. These are the defects behind that:

* A `stop()` that falls wholly into the `authenticate()` or `connect()` of a `start()`
  takes `running_`, finds `worker_` empty and throws `std::system_error` from `join()`
  (`JoinThrows`). `start()` goes on and returns true; its loop runs with `running_` =
  false, so that every later `stop()` returns true at once without ending it. The next
  `start()` (which joins the old loop at line 51) or the destructor does.
* The same with a second `start()` in between: two threads are in the body of `start()`,
  and the later one ends the loop of the earlier, beside which its own already runs.
* A `start()` that gets through between the `join()` of a `stop()` and its store of
  Stopped ends with a running loop and `state()` = Stopped until the loop's next store.

The three are behaviours of the model. A `start()` that assigns `worker_` while a `stop()` is
between `request_stop()` and `join()` is a data race in it; where that race is harmless,
`stop()` waits for a loop that nobody has told to stop.

### TelemetryManager

`pc[t]` is the position of thread `t` in the call it makes, `queue` is
`pending_messages_`, and `mutex` is free for `QueueMessage` and held from
`FlushLock` to the return of `flushQueue()`, over all its publishes, as in the
code. A message is its position in the order of making; `made` remembers who made
it. `wire`, `unsure`, `dropped` and `due` are histories; `due` is what the queue held
when a `flushQueue()` locked it, kept until that call returns false or its thread makes
the next call. The transport goes up and
down at any moment and answers a publish with: accepted, refused, or accepted but
reported as failed (a late acknowledgement, a frame sent in part).
`ConnectivityService` contains the same path as `BeginSample`, `Send` and
`QueueMessage`, with the queue reduced to its size. That `flushQueue()` comes to an end is
stated step by step (`FlushRunsDown`), not as liveness: every step of its thread leaves
less to do, and no other thread adds to it, for `mutex_` is held. Hence it returns if its
thread is scheduled and the transport answers, however many messages others make.

### MqttClient

`connected` and `bconnected` are the flags of `MqttClient` and `PahoMqttBackend`,
`session` is the Paho client behind `client_`. MqttClient's mutex is held over each
backend call, so the backend's own is never contended and is left out. A call is
split where the backend waits (`Dial`/`DialWaited`, `HangUp`/`HangUpWaited`,
`PublishCall`/`PublishWaited`, the last for `subscribe()` as well), so
that the network can act before, after or instead of the wait. External, modelled
from the way the backend handles it: Paho's asynchronous client and the broker. In
particular `disconnect()` on a Paho client that is not connected throws; that is
what the `catch` in `mqtt_client.cpp:45-47` turns into `false`.

### SomeipClient

`fd` and `connected` are `socket_fd_` and `connected_`, `pc[t]` is the call thread `t`
is in and `owner` says whose each descriptor number is: the kernel hands a closed
number out again, to this client or to the rest of the process (the Logger opens its
file for every line). A call is split at the system calls that may take long:
`ConnectCall`, `OpenSocket`, `DialOk`/`DialFails` for `connect()`, `PublishCall` and
one of the `Send` outcomes for `publish()`; `disconnect()` is one step, and
`reconnect()` is `ReconnectCall` followed by `ConnectCall`, with the mutex free in
between. External: the peer, which may close at any moment, and the kernel. A first
`send()` after the peer closed still succeeds (`SendToClosed`); after the reset that
follows, `send()` without `MSG_NOSIGNAL` kills a process that does not ignore SIGPIPE
(`SendKills`) or fails (`SendFails`). `stream` holds what one connection carried,
frames and fragments. `subscribe()` and `isConnected()` change nothing. The client
outlives the threads that use it: it has no destructor, so destroying it while it is
connected leaks the descriptor, which is outside the model.

### AuthClient, AuthSession, Logger

`AuthClient`: `token` is the number of the grant the string came with, `expires` is
`expires_at_`, and a step is one access to one of the two. A refresh is `WriteToken` and
`WriteExpiry` (`auth_client.cpp:26-27`), a denial or a clear `Clear` and `ExpireNow`
(`:21-22`, `:40-41`), and `isTokenValid()` `ReadToken`, `ReadClock` and `ReadExpiry`
(`:36`); steps of other threads and ticks of the clock come in between. One thread at a
time authenticates, as in the service. Reads change nothing, so one call of
`isTokenValid()` at a time is followed, which may be anybody's. A call during which
somebody clears the token can answer true with no token stored: it sees the old token,
and then the expiry of the refresh that came after the clear. `during` tells such calls
from the others, and `ValidWithinGrant` and `GrantSticks` are about the others. Two assumptions:
an access to the string is atomic (the code has no lock, so a torn read is undefined
behaviour that no property could survive), and the thread that holds an answer is not
suspended for longer than `MaxDelay` before it stores it, since the expiry is counted
from the store and not from the answer.

`AuthSession`: `Call`, `Ask`, `Pause`, `Return` are the steps of one `authenticate()`;
`OutcomeIsReference` states, without the loop, what the call must have done. A provider
that throws (`AskThrows`) ends the call with no token, while `isAuthenticated()` still
tells of the call before.

`Logger`: a line is made before the lock (`MakeLine`), written to the console in two
insertions and to a file that is opened for it, or cannot be. `FileFollowsConsole` says
line by line that the file is the part of the console whose file could be opened. The listener of the demo
writes to `std::cout` without the Logger; its text is not modelled.

### Demo

`main`, `worker` and `listener` are the positions of the three threads and `conn` the
one connection as the client's kernel sees it: in the backlog, accepted, closed by the
peer, reset. The worker's loop is reduced to the branches that remain with a transport
that never notices a lost link. `Publish` says what `send()` does in each state of the
connection: the first one after the peer's close succeeds and provokes a reset, the one
after the reset raises SIGPIPE. Assumptions: the steps of `main()` and of the worker
take no time compared with the seconds they sleep, the listener may take any time, and
no other process listens on the port.

### Bindings and RemoteCalls

The three binding modules are the tables in the generated code: per proxy method its id,
the types it sends and expects; per wrapper method what it delegates to; per stub
dispatcher its id, handler, element index and types; the handlers' parameter names and
default answers. `FrancaInterfaces` has the same facts from `fidl/`, the source of the
generation, and is the reference. A field is a type and a name, so that two strings in
the wrong order show.

`RemoteCalls` composes them: `CallMethod` and `Receive` are the proxies, `Dispatch` the
adapters and stubs, `LockAdapter` and `SendEvent` the two halves of
`fireSignalChangedEvent()` (`VehicleSignalServiceStub.hpp:112-117`), `Register` and
`Unregister` what changes the adapters under it. External, modelled from how
the generated code uses it: the CommonAPI SOME/IP runtime, which matches a reply with
its call, ends every call, owns an adapter while it is offered, and may lose, double and
reorder messages (the bindings ask for UDP). The weak pointer `stubAdapter_` has no lock:
its assignment in `initStubAdapter()` and its `lock()` are one step each, so a data race
between them is outside the model. A broadcast sent through an adapter that was withdrawn
between the two halves counts as sent (`NoBroadcastMissed`).

## 3. Runs

Passing runs:

| Run | Bounds | Shows |
|---|---|---|
| `service` | 2 thread identities, 3 disturbances, backlog counted to 1; fairness | seven invariants and `StoppedIsFinal`; the service refines `ServiceLifecycle`, fairness included: `start()`, `stop()` and the destructor return though the backends refuse for ever; if the backends do accept at some point, a running service hands samples to the transport again after the disturbances |
| `telemetry` | 2 threads, 3 messages | losses, duplicates, order and `flushQueue()`'s promise; nobody keeps `flushQueue()` from its end |
| `mqtt_client` | 2 threads, 3 lost connections; fairness | the flags agree and are true; a successful disconnect is final; every critical section ends though the broker never answers a dial, a hang-up or a publish |
| `someip_client` | 2 threads, 2 descriptors, one of them wanted by others, 3 frames, 2 closes; fairness | descriptors and framing; `reconnect()` repairs a lost connection |
| `remote_calls` | 2 calls of any of the 5 methods, synchronous or not; 4 adapters, 2 of them of the vehicle service | calls reach their handlers with their arguments in place; the wire follows the FIDL files; broadcasts and the life of adapters |
| `small_models` | AuthClient: 3 threads, 3 grants of 0, 1 or 3, clock to 4, delay 1; AuthSession: bounds -1, 0, 1, 3; Logger: 3 threads, 2 lines each; LifecycleRaces: 3 threads | the two fields between their stores; the retry loop against its reference; console and file; calls that overlap in any way: one loop and one user of `worker_`, `running()` and `state()` true once all calls are over, after exceptions too, as long as no `stop()` overlaps a `start()` and again after the next call that is alone |
| `demo` | none: the code's own constants; fairness | a started demo ends, with a payload shown, before the SIGPIPE of a third sample |

Violation runs: each checks one property the repository states and the code does
not have.

| Run | Stated | What the counterexample shows |
|---|---|---|
| `service_backlog` | "offline queuing" (`README.md:10`), "queued for later" (`connectivity_service.cpp:114`) | a sample is queued, because the transport was down or refused it; the loop goes on handing new ones to the transport for ever, and the queued one stays: nothing calls `flushQueue()` |
| `telemetry_loss` | the same, `docs/README.md:10` "queues messages when offline" | a flush pops a message, its publish fails, the message is gone |
| `mqtt_monitor` | "connection state monitoring" (`docs/README.md:9`) | after a lost link `isConnected()` and `connect()` answer true for ever while every publish fails |
| `mqtt_reconnect` | "reconnect behavior" (`README.md:9`), `connectivity_tests.cpp:199-200` | `reconnect()` first disconnects, Paho refuses that for a client that is not connected, and no reconnect ever dials |
| `demo_failure` | `main.cpp:99-100`: a failed start is logged, then `return 1` | the listener listens too late, `start()` fails, and the return destroys a joinable `std::thread`: the process is terminated |

The two MQTT runs chain: the service does not notice a lost MQTT link, and once told
(by another holder's `disconnect()`) it cannot repair it. `mqtt_reconnect` is about
the default backend; with a backend whose `disconnect()` always succeeds, like the
tests' fake one, `reconnect()` works. SomeipClient has the same stale flag as
`mqtt_monitor` shows, but its `reconnect()` works (`someip_client`).

Why the bounds are enough. Two thread identities let a restarted service meet a thread
left over from the run before; the control thread can hold one. Three disturbances allow
an expiry, a cleared token and a lost link in one round, or the same one in three
consecutive rounds. Backlog values beyond "some" are not distinguished by any guard.
Three messages are two of one thread (order) and one of another between them; every
flush failure consumes a message, so more messages only repeat; `FlushRunsDown` is a
property of single steps, which no bound on the messages makes true. In `LifecycleRaces`
three threads let a third call come into a `start()` that a `stop()` overlaps; a fourth
could only repeat one of the three. Two calls are enough for an answer to
meet the wrong call, and two adapters of one service for a broadcast to overlap its
re-registration; only that service has broadcasts. Three grants and a clock of four let
a short grant be followed by a long one and the reverse while the clear of another
thread is halfway. In `MqttClient` the counter of losses is there for liveness only: all
other state is finite. Two descriptors make every number that is closed available to
somebody else at once; three frames let a fragment come before, between and after whole
ones. The theorems of section 4 are independent of the bounds.

Deadlock is checked except in the service's runs, where the destructor ends the system
for good, in SomeipClient's, where SIGPIPE does, in the demo's, which is a program that
ends, and in `small_models`, where the bounds on grants, time and lines and a clash on
`worker_` end a behaviour.

Fairness. `LiveSpec` of each module assumes only that threads are scheduled and that
a backend call returns (weak fairness of the steps inside a call); it says nothing of
the answer, nor that anyone calls `start()` or `stop()`.
`BackendsAcceptSometimes`, the premise of `Republishes` and the addition of
`RecoverySpec`, says that a backend asked infinitely often says yes infinitely often
(strong fairness of the success outcomes): without it an outage may last for ever.
`PublishingSpec` and `ReconnectingSpec` make the violation runs as hard as possible:
the application publishes (or reconnects) for ever, locks are granted, the broker
accepts within the timeout. `someip_client` likewise assumes an application that
goes on reconnecting, gets the lock, a free descriptor and now and then an accepting
peer, and SomeipClient's `LiveSpec` a peer that reads: its `send()` has no time limit
and holds the mutex, so a peer that stops reading blocks `disconnect()` and `stop()`.
`Demo` assumes that its threads are scheduled and time goes on; a waiting `accept()`
is not assumed to fail. A std::mutex promises no order among waiters, so no other passing
run relies on a lock being granted.

## 4. Proofs

Every safety invariant and both action properties the passing runs check are also
theorems, for every value of the constants. Hardly any of them is inductive: each
proof module states an `IInv` that adds what holds between the steps of a call, proves
`Init => IInv`, that every step preserves it (one lemma per group of actions, one step
per action), and draws the properties from `Spec => []IInv`. The theorems cover `IInv`
itself, so no run checks it; each was checked by TLC on the bounds of section 3 before it
was proved.

The assumptions, all checked by TLC on the instances of the runs: the bounds are
naturals, `NoThread` (`None`, `NoFd`) is not a thread (an adapter, a descriptor), an
adapter is of one of the three services, the thread that authenticates is not one of the
others, lifetimes are naturals, retry limits are integers. No set needs to be finite or non-empty. The durations of the demo are the
constants of `main.cpp`; its proof uses only that the demo lasts longer than one publish
interval and less than two.

### ConnectivityService

`ConnectivityServiceProofs` proves, for every set of thread identities and every
`MaxFaults` and `MaxBacklog`, from `ConstantsAssumption` alone:

* `InvariantHolds`: `Spec => []IInv`;
* from it `TypeCorrect`, `RepliesAreHonest`, `WorkersAreOwned`, `StoppedMeansQuiet`,
  `PublishingIsHealthy`, `DenialIsRespected`, `LateSamplesAreBounded`, one per
  invariant of `service`;
* `StoppedStays`, its action property;
* `LifecycleImplemented`: `Spec => Lifecycle!SafeSpec`, the safety half of the
  refinement.

The argument. The safety properties are not inductive: that a stopped service is
quiet depends on which control steps hold a live thread, and that a sample is only
produced in a healthy state depends on what a failed round leaves for the next one.
`IInv` adds just that:

* `Ownership` - the control steps during which `worker_` is joinable, those during
  which its thread is alive and not told to stop, and that no other thread is alive;
* `Flags` - `running_` against the position of the control thread and its last reply;
* `LinkInv` - without a live worker the transport is up only between `connect()` and
  the creation of the thread;
* `AuthInv` - a token left behind means that the latest answer was a grant, at every
  point of the loop from which a publish can be reached;
* `HealthInv` - an unhealthy state survives into the next round only together with
  the thing that makes that round repair it: an invalid token or a link that is down;
* `StoppedInv`, `LateInv` - what Stopped and a late sample imply about the threads.

One lemma per group of actions (`StartPreserves`, `StopPreserves`, `CallPreserves`,
`LoopPreserves`, `EnvPreserves`) has one step per action. For the refinement, `ControlRefines` maps each control step
to one abstract step or a stutter, and `LoopRefines` hides every worker step but
`ExitLoop`.

### LifecycleRaces

`IInv` is `Waited` (a loop was told to stop only by a thread that waits for it, in
whatever order the calls come), `OneCall` (while no `stop()` overlaps a `start()`,
`running_.exchange()` lets one call through), `Holder` (what `running_` and `worker_` are
at each point of that call, and less of a call that mends) and `Settled` (what a call
leaves to the next, after an exception too). `Settled` is needed because `start()` assigns
`worker_` without looking at it: that it is empty is the work of the previous call. From
it `TypeCorrect`, `WorkerAlwaysExclusive` and `AlwaysSettles`, for any set of threads. `MCSmallModels`
contains the model under other names, so `SmallModelsProofs` instantiates this module
and shows both to be the same (`SameInit`, `SameNext`, `SameTypes`, `SameProperties`):
`TypesCorrect`, `RacesAlwaysExclusive`, `RacesAlwaysSettle`.

### TelemetryManager

The longest argument. First the operators: `push_back` and `pop_front` on what the queue
holds (`ContentsAppend`, `ContentsHeadTail`), a publish on what was accepted
(`AcceptedAppend`). Then, each on top of the previous ones:

* `TypeInv` - with the types of what threads have in hand, which later parts index with;
* `NothingVanishes` - a message is queued, in hand, accepted or dropped, which a step
  may only exchange for the next (`OnlyFlushLoses`);
* `DueInv` - while `flushQueue()` runs, all it found when it locked is queued, in its
  hands or accepted. It rests on `mutex_` being held over the publishes: others append,
  nobody else pops (`FlushKeepsPromise`);
* `OnceInv` - a message is in one place: one hand, or once in the queue, and what
  waits there has not been accepted by anything but a publish reported as failed
  (`SentOnce`);
* `OrderInv` - of the messages of one thread, the one being made is newer than those in
  the queue, which are in order, newer than the one `flushQueue()` has in hand, which is
  newer than those flushed (`FlushKeepsOrder`).

`FlushAlwaysRunsDown` needs `TypeInv` only: inside `flushQueue()` a thread holds `mutex_`, so
no other thread changes the queue (`FlushersExclude`), and each of its own steps brings
it nearer to the end (`FlushAdvances`).

### MqttClient, SomeipClient

MQTT: `Inside` says what the holder of `mutex_` may rely on where the backend waits, and
`BackendHasSession` that the backend's flag lags behind the session only while it hangs
up. `connected => bconnected` is needed at every moment, not only when the mutex is
free: it is the reason why no failure halfway leaves the layers apart. From them
`LayersAlwaysAgree`, `ConnectedAfterSession` and `StaysQuiet`.

SOME/IP: `Inside` and `IdleHasNoSocket` say that outside the time between `socket()` and
the outcome of `::connect()`, `socket_fd_` of an unconnected client is invalid; without it
`connect()` could overwrite a descriptor, a leak. `Established` relates flag, descriptor
and peer. From them `DescriptorStaysOurs`, `NeverSendsElsewhere` and `FramesStayWhole`.

### AuthClient, AuthSession, Logger

AuthClient: between the two stores the token is new and the expiry is not its own. `Held`
bounds the age of the answer being stored, `Paired` says that at all other times the
stored expiry is the token's own or has passed, `Latest` that the token is the latest
grant's or none, and `Sticks` what an untouched grant consists of. `isTokenValid()` has an
invariant of its own, `AskIInv`, over the first: what it has read is either still so, or
what replaced it is known from `during`. From both `ClientTypeCorrect`,
`ValidOnlyWithinGrant`, `GrantAlwaysSticks`.

AuthSession: `Asked`, `Naps` and `Stages` describe the loop at every attempt - all answers
but the last were refusals, one pause follows each but one that ended the call - for
every integer limit, which gives the reference outcome (`SessionFollowsReference`).

Logger: `Current` says that the line of the holder of `mutex_` is the last one on the
console, hence what it appends to the file comes last there as well (`Ordered`); `Mirrors`
says which console lines the file has, `Numbered` that no line appears twice, and
`Alternates` that each is ended before the next: `FileAlwaysFollows`.

### RemoteCalls

For each of the five methods a lemma (`ConnectAgrees`, ...) computes from the tables that
proxy, dispatcher and handler agree with the FIDL files on id, types, order and
parameters; `Routes` and `EventAgrees` do the same for addresses and the broadcast. These
are the only steps that depend on what the generated code says. `CallIInv` then says
that every message under way is what agreement makes of the call it belongs to, for any
number of calls, with messages lost, doubled and reordered: `AlwaysAnsweredByItsHandler`,
`AlwaysFollowsFranca`. `AdapterIInv` adds that a stub knows the adapter that is offered
(`Known`): `AlwaysSendsThroughLiveAdapter`, `NeverMissesBroadcast`.

### Demo

`Schedule` ties how often the worker has sent to the time, `Link` the connection to where
the listener is, `Sent` the connection to how often the worker has sent. The third sample
falls after the stop, so the reset never meets a send: `DemoEndsWithPayload`.

### Only model-checked

Liveness (`Republishes`, the fairness half of `ImplementsLifecycle`,
`LockReleased`, SomeipClient's `ReconnectRecovers`, `StartedDemoEnds`): fairness is
defined by ENABLED, which is out of the prover's reach. The violation runs are
counterexamples, with nothing to prove.

## 5. Plan

In this order:

1. done: `ServiceLifecycle`, `ConnectivityService` with invariant and proofs;
2. done: `TelemetryManager`, `MqttClient`, `SomeipClient` with their runs;
3. done: `LifecycleRaces`; `Demo`; `AuthClient`, `AuthSession`, `Logger`; the bindings
   and `RemoteCalls`;
4. done: proofs of every safety property of these modules;
5. an abstract `Transport` that `MqttClient` and `SomeipClient` both implement and whose
   promises `ConnectivityService` and `TelemetryManager` rely on, with the step-by-step
   proof that they do.

## 6. Not modelled

* `ConnectivityRuntime` (one flag), `MqttGateway`, `DiagnosticsService`,
  `VehicleSignalService`, `Vehicle`: each operation is one expression over its argument
  or sets one flag, nothing but a test calls them, and no order of calls can go wrong.
* In the bindings: the availability, version-attribute and completion-future getters,
  which only delegate to the runtime; the six `generated/v1/*/*Deployment.*` files, which
  define nothing; `scripts/generate_commonapi.py`, which runs external generators.
* Texts: log lines, JSON payloads, topics, SOME/IP headers.
* What follows a data race on `worker_` (undefined behaviour). An exception in the worker
  loop ends the process.
* Data races on AuthClient's string and on `stubAdapter_`; a SomeipClient that is
  destroyed while connected.
