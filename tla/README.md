# Specifications of testcontainers-cpp

The library starts Docker containers for tests, waits until they are ready, hands
them to the caller as RAII handles, and makes sure that nothing is left behind,
also when the process dies. This directory holds TLA+ models of the parts whose
behaviour is hard to test (several threads or processes on one daemon, failures
between two steps, timeouts against late answers, moved-from handles), the TLC
configurations that check them, and proofs, checked by TLAPS, of the properties
that matter most.

Paths below are relative to the repository (`src/Runner.cpp` is the repository's
`src/Runner.cpp`). Property and definition names are those of the modules.

## 1. Inventory

| Component | Source | State it keeps | Operations |
|---|---|---|---|
| Reaper | `src/Reaper.cpp`, `.hpp`, `src/AsioRun.hpp` | `daemons_` (endpoint -> Ryuk entry with its control socket, or null), each entry's `filters`, `mutex_` | `ensure_started`, `ensure_started_for`, `register_filter`, `registered_filters`, session id and labels |
| Runner | `src/Runner.cpp`, `src/Reuse.cpp` | only locals: attempts used, id of the container of the current attempt | `run`, `create_start_wait`, `with_retry`, `adopt_reused`, pull policy, lifecycle hooks |
| Container handle | `include/testcontainers/Container.hpp`, `src/Container.cpp` | client, id, `remove_on_drop_`, `dropped_`, `stopping_fired_`, network and forwarder attachments | `adopt`, move, assign, destroy, `stop`, `remove`, `keep`, `start`, exec, copy, logs, inspect |
| Exec pump | `src/docker/DuplexExchange.hpp`, the transports of `src/docker/Transport.cpp` | the frame of one exchange: two chains of asynchronous operations, how far each got, why the loop ended | one call that pumps stdin out and stdout in |
| Docker client | `src/docker/DockerClient.cpp` | the scoped session (`session_enabled_`, `session_transport_`), the negotiated version (`api_prefix_`); server OS cached per endpoint | every Engine API call; reuse of the session for GETs, replay of a GET on a stale connection, copies and moves |
| Stream readers | `src/docker/StreamRead.hpp`, `src/docker/LogDemux.cpp` | partial frames, byte counts, deadline | hand chunks of a body or raw stream to a consumer; split multiplexed frames |
| Host-port forwarding | `src/HostPortForwarding.cpp` | per daemon a sidecar with an `SshTunnel`: listeners, connections with two buffers each, `mu_`, a pump thread; the registry of sidecars | `wire`, `add_forward`, pump loop, `release_network`, teardown |
| Wait strategies | `src/WaitStrategies.cpp`, `src/Deadline.hpp` | deadline of the chain, log occurrence counter across reconnects | log, exit, health, HTTP, port, command waits; the chain under one budget |
| Compose | `src/DockerComposeContainer.cpp`, `src/compose/*` | the project, the temporary file, the active stack (client, project, relay) | `start`, `stop`, destructor, service lookup; local, containerised or automatic client |
| Networks, volumes | `src/Network.cpp`, `src/Volume.cpp` | id or name and `remove_on_drop` | create, builder, reuse by label, populate, drop |
| Registry credentials | `src/docker/Auth.cpp` | a process-wide cache with a TTL behind a mutex | resolve registry, read config, ask a helper |
| Child processes | `src/Process.cpp` | pipes, temporary stdin file | spawn, capture, quote arguments |
| Image builders | `src/GenericImage.cpp`, `src/GenericBuildableImage.cpp` | a request under construction | fluent setters, `to_request`, build |
| API mapping | `src/docker/ApiMapping.cpp`, `src/docker/Ports.hpp` | none | JSON to and from the Engine API |
| Archives, ignore files | `src/docker/Tar.cpp`, `src/docker/DockerIgnore.cpp` | none | tar writing and reading, pattern matching |
| Configuration, addresses | `src/Config.cpp`, `src/docker/DockerHost.cpp`, `src/HostAddress.cpp` | none (environment and properties files) | which daemon, which host name |
| Technology modules | `src/modules/*` | none beyond a request and a handle | PostgreSQL, Kafka, MongoDB, ... requests and connection strings |

How they interact. `run()` (Runner) calls the Reaper before it creates anything;
the Reaper boots a Ryuk container on that daemon, sends it the session filter over
a TCP socket and keeps the socket open until the process ends, which is the signal
for Ryuk to sweep everything with the session label. Runner then creates the
container through the Docker client, fires hooks (callbacks of the user), copies
files, starts it, runs the wait chain and returns a Container handle. Networks,
volumes, image builds and compose stacks take the same first step; compose also
registers a filter of its own for its project. The handle removes the container on
destruction. An exec with stdin goes through the client's upgraded connection into
the duplex pump. Two processes meet only at the daemon: in reuse containers and
networks, which are found by a label, and in images.

What is hard, and which properties answer it:

- *Reaper*: concurrent first calls; a handshake retried over a Ryuk that may have
  registered the filter already; lost and late replies; death at any step. A daemon
  is watched by one Ryuk of the process; what a process labelled is watched before it
  exists and swept after the death; a recorded filter is one Ryuk has acknowledged;
  the registry lock is always given back.
- *Runner*: a failure at any step of any attempt; a reuse container shared by
  calls in two processes; answers lost after the daemon acted. Nothing leaks, only
  the creator removes, refreshing pull policies are honoured, every call ends.
- *Handle*: sequences of moves, assignments, teardown calls and hooks that use the
  handle. One removal, no container without an owner, hooks before removal and
  once, a kept container stays.
- *Exec pump*: two chains, a half-close between them, two time bounds, cancellation.
  No operation outlives the call, the outcome says what happened, an echoing peer
  cannot wedge it, a deadline ends it.
- *Docker client*: a kept-alive connection that the daemon has closed, an answer that
  comes after its request was given up, copies and moves in the middle of a
  session. Only a GET is ever replayed, once; an answer is read by its own request;
  a connection has one client and a guard that closes it; a version is used with the
  daemon it was negotiated with.
- *SSH tunnel*: full buffers, operations that would block, half-closes at different
  times, two threads on one session. No end before its data, a finished connection
  is complete, one connection does not hold up another, the destructor returns if sshd lets it.
- *Streamed calls*: an answer that comes before its request is written, a connection
  that is cut, a deadline between two phases. Bytes in order and whole, a result only
  when there is one, the daemon's own reason in the error, nothing done when late.
- *Log reading*: frames and texts split anywhere. The split makes no difference.
- *Waits*: calls of bounded length against a shared budget, a container that stops,
  restarts or is removed, a log followed again. What passed was met; the budget is one.
- *The registry of sidecars*: wirings and releases of several threads, dead tunnels,
  foreign (dis)connects, removals that fail. An alias is reachable, no sidecar strays and a
  network is freed, but for a sidecar whose removal failed, which is out of use.
- *Networks, volumes*: find-or-create races, moves, a seed that fails. One owner, none lost.
- *Compose*: a failing step anywhere in up and down, moves, death. Nothing outlives its
  stack; a running stack stays whole; everything is under a registered filter.
- *Credentials*: overlapping misses of one cache, three places to look. A secret goes to its
  own registry and not after its time.
- *Child processes*: concurrent spawns, inherited pipe ends, full pipes. Every call returns,
  with the child's own result, and leaves nothing behind.
- *Archives*: files that change between listing and reading, ignore rules. What is finished
  is whole and holds what the rules say.
- *Technology modules*: settings in any order, a temporary server during the first boot, reuse.
  The getters are true, readiness is real, what was asked for has been done.

## 2. Modules

| Module | Models | Role |
|---|---|---|
| `CrashSafety` | what the library promises about reaping | abstract specification |
| `Reaper` | `src/Reaper.cpp` and Ryuk as the code relies on it | implements `CrashSafety` |
| `ReaperProofs` | | theorems about `Reaper` |
| `Runner` | `run()` by several calls in several processes, with the daemon | |
| `RunnerProofs` | | theorems about `Runner` |
| `WaitChain` | `wait_until_ready`, a container and a clock | a phase of `Runner` |
| `ContainerHandle` | handles, their owners' moves and teardowns, one daemon | continues where `Runner` returns |
| `HandleProofs` | | theorems about `ContainerHandle` and `NamedResources` |
| `NamedResources` | networks and volumes, their handles, find-or-create, seeding | |
| `HostAccess` | the registry of sidecars, `wire` and `release_network` | called by `Runner` and by networks |
| `SshTunnel` | `SshTunnel`: pump thread, owner, clients, services | below `HostAccess` |
| `ForwardingProofs` | | theorems about `SshTunnel` |
| `Compose` | `DockerComposeContainer`, both compose clients, the relay | |
| `WiringProofs` | | theorems about `HostAccess` and `Compose` |
| `TechModules` | fourteen builders, their hooks and probes, the booting servers | above `Runner` |
| `Resources` | `ContainerHandle`, `WaitChain`, `HostAccess`, `NamedResources`, `Compose`, `TechModules` side by side | composition |
| `ResourceProofs` | | theorems about `WaitChain`, `TechModules` and `Resources` |
| `SessionClient` | the connections of `DockerClient` objects, and the daemon | below every component that talks to the daemon |
| `StreamCall` | one streamed call on a connection of its own | uses `SessionClient`'s connections |
| `DuplexExchange` | one call of `duplex_exchange`, the operating system, the peer | inside an exec of `StreamCall` |
| `LogStream` | `LogDemuxer`, `OccurrenceCounter` | what `StreamCall` and `WaitChain` read with |
| `Credentials` | which secret a pull sends, and the cache | before a pull of `Runner` |
| `Client` | `SessionClient`, `StreamCall`, `Credentials` side by side | composition |
| `ClientProofs` | | theorems about `Client` and its three components |
| `ChildProcess` | `run_process`, concurrent | below `Credentials` and `Compose` |
| `Pumps` | `DuplexExchange`, `ChildProcess` side by side | composition |
| `PumpProofs` | | theorems about `Pumps` and its two components |
| `Archive` | the two archives: build context and copy | body of a `StreamCall` |
| `Glob` | `match_component` | below `Archive` |
| `MCReaper`, `MCRunner`, `MCSshTunnel`, `MCWaitChain`, `MCDuplex` | small instances of one module | for TLC |
| `MCPumps`, `MCClient`, `MCResources` | small instances of `Pumps`, `Client` and `Resources` | for TLC |

The three compositions put components that share no state, but are checked alike, into one
specification: a variable `part`, chosen in the initial states, says whose behaviour it is, and the
variables of the others are `"off"`. Their properties are the conjunctions of the components' own,
each guarded by `part`; the number of states is the sum, not the product. `Client` extends
`SessionClient` and `Resources` extends `WaitChain`, so that the properties of these two (`OwnAnswer`,
`NeverReplayed`; `PassedWasMet`, `OneBudget`) are checked under their own names: in the other parts the
variables of these two stay as they are when nobody calls, or waits. `Types` is the type invariant of
every part. A theorem about a composition is the theorems about its components, and holds of just what
the run checks. `MCClient` adds three parts of its own, `LogStream`, `Archive` and `Glob`, which compare
a computation with its reference definition and about which nothing is proved.

### Reaper

`daemons`, `filters`, `holder` are `daemons_`, `Impl::filters` and `mutex_`. A thread
goes `Call` -> `Lock` -> (`SkipWindows` | `CreateRyuk`, `StartRyuk`, `InspectRyuk`,
`Connect`, `SendHello`, `Handshaken`) -> `Create`, and for an extra filter
`SendFilter`, `Registered`. Every way to throw is an action (`DaemonThrows`, `NoPort`,
`NotAcknowledged`, `AttemptFails`, `RegisterThrows`), and what it leaves behind is
what the code leaves: `DaemonThrows` does not remove the created Ryuk, the others
try to. `mutex_` is held over the whole call, network included, as in the code.
The lines on the socket, the replies, and what Ryuk has registered are separate
state (`inbox`, `replies`, `known`), because the hazards are in the difference: a
closed socket's line may still be read (`Close`), a reply may be late, `ReadReply`
drops what arrived together with the line it wanted, as the local `streambuf` does.
`Create` stands for what the caller does next: the labelled resource.

`CrashSafety` knows only which labels a daemon's watcher has, which resources exist
and whether the process lives: a resource is created only if watched, and swept
only after the death, and then it is. `Reaper!CrashSafe` is the refinement.

### Runner

A call `r` goes through `start`, `pull`, `wire`, then `lookup`/`adopt` (reuse) or
`create`, and the six phases of `create_start_wait` (`Following`); `Advance` is a
phase that succeeds, `PhaseThrows` one that throws, `Cleanup` the catch block with
`with_retry`. `PullPolicy` has the try block of the age-based policy, which covers the pull as well
as the inspection: a 404 of the registry is swallowed, and the call (`refused`) goes on with the old
image. The image, the containers with creator and state, and the
processes with their reapers are the daemon's side. `SessionLabelled` is the point
of the reuse path: reuse containers carry no session label.

### WaitChain

`Enter` dispatches on the condition at `i`; a probe or a daemon call is `busy` until
`until`, its own bound (`ProbeBudget`, the transport's), and then has one of the
verdicts that the container allows (`Verdicts`); between two polls it sleeps. An attempt of a
command is the `Trips` of `DockerClient::exec_stream_impl`, one after the other (`NextTrip`,
`TripRefused`), of which only the output (`run`) is clamped to the deadline; `Io` is the bound of one
round-trip with all its transport operations. A log wait
takes a `snapshot`, then follows (`Follow`, `Deliver`) with counters that start afresh,
over every stream that ends (`StreamEnds`). `Satisfied` goes to the next condition, unless
the budget is spent (`SpentBetween`). The container stops, restarts, is removed, changes its
health and its port, and logs. `met` remembers which conditions have held while
they were waited for. `MaxTime` is the end of the clock's range, so that
`SaturatedAdd` has something to saturate at.

### ContainerHandle

Slots are C++ objects of type `Container`: empty, moved-from or owning. `Adopt`,
`Move`, `Assign`, `Destroy`, `Stop`, `Remove`, `Keep`, `Start` are the
member functions; a stopping hook is user code that runs inside a teardown and may
use the handle again. The daemon may lose the answer of a removal.

### NamedResources

`FindReuse` and `CreateReuse` are the two calls of a reuse network, between which other
threads go on; `CreateNetwork`, `CreateVolume` the plain ones. A volume that is seeded goes
`create` -> `copy` -> `start` -> `exec` -> `cleanup` with a helper container of its own.
Handles are constructed, moved, assigned, kept and destroyed as in C++. The
daemon hands out duplicate network names and gives an existing volume again, as Docker does.

### HostAccess

`states`, `forwarded`, `connected` are `states_` and the members of a `State`; `mutex` is
`mutex_`, held from `Wire` to the alias and in `Release`. `FindState` keeps a live sidecar and
discards a dead one, `StartSidecar`, `OpenTunnel`, `Forward`, `Join`, `PointAlias` are the steps
of `wire`, each of which may throw, after which `Abandon` is what the code cleans up. A removal is
best effort, as in `Container::drop`: when it fails (`Discard`, or the clean-up of a run that failed,
`StartSidecar`), the sidecar is `lost`: it runs on, attached as it was, and no record names it.
`Drop`, `Release`, `Remove` are `Network::drop`. `Meddle` is another program at the daemon.

### Compose

`Start` is a row of steps (`MakeClient`, `CopyFiles`, `RegisterFilter`, `Up`, `Discover`,
`Ambassador`, `Launch`, `Adopt`, `AwaitPorts`); each may throw, and a throw destroys the local
`ActiveStack`, whose destructor is `RemoveRelay`, `Down`, `Sweep`, `ReleaseClient`. The filter is
one for the whole project, whichever client; `failed` records the teardown steps
that have failed, the only excuse that `TornDown` accepts. A `local` client needs its file
again for `down` (`Found`), a `cli` client has a copy.

### TechModules

One builder (`mod`) is configured by `Configure`, rendered by `Start` into a `spec` (environment,
command, files, ports, waits, hook steps, labels), and the container boots through the
`Phases` of its image, of which the first is often a temporary server. `Probe` is one attempt
of a wait and may itself change the server (`Probed`); `HookStep` is one step of a started
hook. `LetsIn` says whether the server, given the environment, the command and the files it
really reads, accepts what the getters (`Handle`) say; a raw root password next to a passwordless root is
among the settings, and the one case in which it does not (`RawRootInForce`). A reuse start may adopt a container whose
hash is the same. What an image does is taken from the modules' own comments and tests
and marked external.

### DuplexExchange

`reading` and `writing` are the two chains' asynchronous operations (idle,
pending, or completed and queued); `Loop`, `Expire`, `ReadHandler`, `WriteHandler`,
`Cancel`, `Finish` are the calling thread, in the order of the source; `System`
completes operations; the peer either obliges (echoes, ends with its
input) or owes nothing. `Flushes` is the named pipe's half-close.

### SessionClient

`host`, `pin`, `enabled`, `held` are `host_`, `api_prefix_`, `session_enabled_` and
`session_transport_`; `guards` are the `Session` objects open on a client, each with
its `owns_`. A request goes `Begin` (which decides whether the version must be
negotiated first) -> `UseHeld` | `Connect` -> `Write` -> `Read`; `Proceed` is what follows
a whole response: the call after its ping, the next try of a pull, the return.
`Broken` is a `DockerError` (on the session's connection: go again on a fresh one),
`TimesOut` an expiry, which is not replayed. `Copy` and `Move` stand for both the
constructors and the assignments. The peer of a connection may close at any point,
with or without what it has answered. One thread uses the clients, so at most one
request is under way; clients of different threads share nothing (the header
forbids sharing one during a session). A version is represented by the daemon that
revealed it.

### StreamCall

One call of the kinds follow, exec (attached, detached), upload, build and download:
`Begin`, `Create` and `Write` send the request, `SendBlock`/`SendFails` its body, `ReadHeader` the
answer; a block may break, or `stall` until the transport's time-out, in which case nothing is read
of what the daemon has answered. `Enter` looks at the deadline again before the streaming phase; `Feed` and `Deliver`
pump, `Expires`, `StreamEnds` and `ReadTimesOut` end it, `Close` and `Inspect` find the exit code.
Where two reasons for a failure compete, `Diagnosis` and `BuildOutcome` are the code's order.

### LogStream

`Feed(n)` is a chunk of `n` bytes: `Parse` is the demultiplexer's loop over `pending`, `Compacted`
the moment at which consumed bytes are dropped, `Fed` the counter with its `ResumeAt`. Headers have
three bytes instead of eight, buffers keep two bytes instead of 65536. `Sent` and
`CountOccurrences` over the whole log are the reference definitions.

### Credentials

`Resolve` reads the name, the prefix and the config of this moment; `Explicit` is a
plain entry, `Ask` and `Store` a helper's run and the write to the cache, which holds the lock for
neither of the others. Time is the age of an entry; `told` is when the helper answered. Users log
in and edit the config meanwhile.

### ChildProcess

`Stage`, `Pipe`, `Spawn`, `Read`, `Close`, `Wait`, `Remove` are the steps of `run_process`; `Inherited` is
what close-on-exec and `posix_spawn_file_actions` leave to a child. A child reads, writes
and ends in any order. The spawn that fails leaves its read end open, as the code does.

### Archive, Glob

A job is a build context or a copy. Sources are listed one after the other (`found`), filtered
(`Excludes`: the last rule that matches a path or a parent of it decides), merged (`DirsOnce`,
`Explicit`, `Ships`), sorted, sized and streamed block by block; the files on the host change up to
`changes` times in between. A path is a sequence of components, a pattern component
the set of names that it matches. `Ignored` and `Provided` state the result again, without the
walk. `Glob` is the two-pointer loop that computes one component, against `Language`. The
order is by components: it differs from the code's bytewise one only for names with characters
below `/`.

### SshTunnel

The pump thread's position goes `select` -> `accept` -> `next` and, for each connection,
the four loops of `pump_conn_locked` (`ch_read`, `sock_write`, `sock_read`,
`ch_write`), each unit of data a step of its own because both ends move on meanwhile;
`Park` ends the pass and frees finished channels. `up` and `down` are the two
directions: what the sender has left, what is in front of the tunnel, in its
staging buffer (`to_sock`, `to_ch`) and behind it. `AddForward`, `AddLock`,
`AddEnds` are `add_forward`, which keeps `mu_` while it waits for sshd. The destructor is `Stop`,
`Join`, and then, in blocking mode, one call after the other: `FreeChannel`, which waits as long as
the channel is full and its session alive, `CancelForward`, `Disconnect`. These have no time-out.

## 3. Runs

| Run | Question | Bounds |
|---|---|---|
| `reaper_core` | Are resources watched before they exist, swept after the death, and filters acknowledged, when Ryuk answers nonsense and calls fail? | 2 threads, 2 daemons (one a Windows engine), 2 Ryuks, 1 extra filter, 2 handshake attempts |
| `reaper_faults` | One watcher per daemon, records that only grow, and a lock that is given back, under lost replies, cut connections, vanished Ryuks, failing removals | 2 threads, 1 daemon, 2 Ryuks |
| `reaper_late_ack` | Is a recorded filter acknowledged when replies may be late? **No** | 1 thread, 2 extra filters |
| `runner` | Leaks, foreign removals, stale images, over a normal and two reuse calls in two processes with crashes and refused pulls | 3 calls, 2 processes, 2 attempts, 3 container ids |
| `runner_faults` | Does every call end, is a dead process swept, when removals fail and answers are lost? | 2 calls in 1 process, 3 ids |
| `runner_reuse_race` | Does a reused container stay? **No** | 2 reuse calls in 2 processes, 1 attempt |
| `wait_logged` | Is a text that was in the log found, whenever the budget ends? **No** | 1 log wait, a timeout of 2 |
| `resources` | handle, wait, access, named, compose, module: see below | 2.8 million states, about three minutes |
| `client` | session, call, log, pull, archive, glob: see below | 860 000 states, about one minute |
| `duplex` | Every combination of input size, idle bound, deadline and half-close that returns at once (`Flushes` is `duplex_pipe`'s), against both kinds of peer; concurrent child processes, one of which never ends | 5 units of input, windows of 1; 2 children, 2 units of output, a pipe of 1 |
| `duplex_pipe` | Can an echoing peer wedge a pump whose half-close flushes? **Yes** | as above, no faults |
| `ssh_tunnel` | Is a forwarded connection served whatever happens to the other, the session and the destructor, and does the destructor return when sshd lets it? | 2 connections (3 units and 1), buffer cap and window of 1, 1 port |

The parts of `resources`:

| Part | Properties | Bounds |
|---|---|---|
| handle | `OwnedOnce` (one removal, hooks once and before it), `OwnerSteps` (no owner lost, a kept container stays) | 2 slots, 2 started and 1 adopted container, one hook nesting |
| wait | `PassedWasMet`, `OneBudget` (ends a poll and a round-trip after the deadline at the latest, four with a command; no condition entered without budget, no false timeout) | single conditions of every kind and pairs; timeouts 0, 2 and "for ever"; a clock of 8 |
| access | `OwnerSteps` (an alias is reachable, a released network is free), `NothingStrays` (no sidecar), both but for a sidecar whose removal failed | 2 threads, 2 daemons with a network of one name each, the bridge, 2 ports, 2 sidecars |
| named | `OwnedOnce` (nothing lost, one owner; a reuse network is not created by who saw one of its name) | 2 threads, 2 slots, 1 name, 2 configurations, 2 resources |
| compose | `NothingStrays` (teardown complete, crash swept), `StackStaysWhole` | 2 slots, 2 projects, 2 services over 2 networks, 2 relays, 1 failing teardown step |
| module | `ServerReady` (the real server, unharmed by the probes, with everything applied that was asked for), `HandleTrue` (ports and logins, but for `RawRootInForce`) | 14 modules, 3 setter calls in any order, 2 starts |

The parts of `client`:

| Part | Properties | Bounds |
|---|---|---|
| session | `OwnAnswer`, `NeverReplayed` (with every session ended) | 2 clients, 2 daemons (one reveals no version), 2 connections, 2 nested guards, 2 pull tries |
| call | `CallHonest` | 6 kinds of calls, up to 2 blocks of input and 3 chunks of output |
| log | `ChunkingInvisible` | every split of about 170 logs of up to 3 frames, raw and framed; texts with and without a border |
| pull | `SecretsInPlace` | 2 threads, 3 configurations, 1 helper, prefix or none, a TTL of 1 |
| archive | `ArchiveTrue` (right entries, whole, parents first) | every list of up to 2 of 10 rules over 5 files; 2 changes of the files in 5 further jobs |
| glob | `ArchiveTrue` (the loop against `Language`) | every pattern of up to 4, every name of up to 3 characters |

Why the bounds are enough. Reaper: two threads are the smallest number that races
for one entry, two daemons show that entries are independent, a second Ryuk and a
second attempt are needed for every retry and give-up path. Calls start while at most
`MaxLate` lines are unanswered, which only keeps the queues finite. Runner: two
attempts reach the retry and the bound; three calls have one normal and two reuse
calls, so that both an adoption of another process's container and a second creation
happen; with three ids a call can use both its attempts while another has its container, and what
needs a fourth (two calls that each lose one container and start another) happens in no run. Handle, named,
compose: two slots are what a move or an assignment has; two resources of a name are the
find-or-create race. Wait: a pair of conditions has the only interaction, the budget that the first
leaves the second; the clock covers a timeout, a poll and the four round-trips of a command after it. Access: two
daemons with networks of one name tell an id from a name; a second sidecar follows a dead
one. Session: two clients are what a copy or a move has, and a connection more than the held
one is what a replay needs; two guards nest; request numbers alternate, which tells a
request from the one before on the connection. Log: texts whose border is the text's own
start are the ones that can be counted twice. Archive: two rules are a rule and its
exception. Tunnel: a cap and a window of one make every full and every blocking case happen with
two units. Duplex: five units are more than both windows and both completions in flight
hold, so that an echoing peer has to be read while it is being fed. Modules: three settings are a
user, a password and one raw entry or script that may contradict them.

Deadlock checking is off in every run: calls end, threads need not call again, and a
finished program is a state without successors.

Fairness. Reaper: threads inside the library run on, Ryuk reads its socket and its
timers fire; nobody is obliged to call or to die. Runner: calls make progress while
their process lives and Ryuk sweeps; the caller need not drop its handle. Duplex: the
thread runs, completed operations are queued by the operating system, the clock
advances; only an obliging peer echoes and ends. Child processes: the threads of the callers run,
and a child does what it can do, but ends only when it is done, one of them never.
Tunnel: both threads run, strongly fair because each has to win `mu_` from the other, which the pump
thread gives up in every pass and parks for up to 100 ms; sshd answers a forward, its cancellation, a
disconnect and the close of a channel that is not full; only the ends of an obliging connection
read, send and end. Nothing makes the client of the other connection read: that no channel stays full
for ever on a live session is a premise that `DestructorReturns` states. These are what a scheduler, the
daemon's Ryuk image and a clock give; no run assumes that a fault stops happening,
except that the code's own bounds (attempts, deadline) count them. The other runs check safety
only and state no fairness: that a wait ends is the invariant `EndsInTime`, about the clock.

## 4. Findings

Four runs are expected to fail; each shows a disagreement between the code and a
text of the repository.

- `reaper_late_ack`: `register_filter` gives up after its 5 s budget but keeps the
  socket. The late ACK then answers the next filter line, which is recorded
  although Ryuk may never have registered it (`src/Reaper.hpp:102`: "has acknowledged").
- `runner_reuse_race`: call A starts a reuse container, call B (another process)
  finds it running, adopts it and returns; A's readiness wait fails and its catch block
  removes the container (`docs/feature-notes.md:169`: "never auto-removed or reaped").
- `duplex_pipe`: on a Windows named pipe the half-close calls `FlushFileBuffers` on the
  thread that runs the read chain. An echoing peer whose own output is full reads no
  further until that thread reads, and the flush waits for the peer: both wait for ever,
  deadline or not (`src/docker/DuplexExchange.hpp:29`: "a peer that echoes a large
  `input` back can never wedge the send side"; the caveat at
  `src/docker/Transport.cpp:542` is only about a peer that never drains).
- `wait_logged`: when the budget ends while `wait_for_log` follows the stream, it throws
  at once (`src/WaitStrategies.cpp:164`), although a line may be in the log that the
  stream has not delivered (`src/WaitStrategies.cpp:84`: "an expired budget always gets one
  final snapshot check").

Further disagreements that no run states:

- A moved-from `DockerClient` has lost its host's strings
  (`include/testcontainers/docker/DockerClient.hpp:133`: "stays usable"); requests of one fail.
- With a passwordless root, a raw `MYSQL_ROOT_PASSWORD` given with `with_env` stays in
  force (`src/modules/MySqlFamily.cpp:119`), though the headers say that the managed keys win
  (`include/testcontainers/modules/MySQL.hpp:134`, `MariaDB.hpp:122`): the getter's empty password is not
  the server's. The setting is among the inputs, and `HandleTrue` names the case as its exemption (`RawRootInForce`).
- The catch that follows the age check (`src/Runner.cpp:126`: "Only the 404 is swallowed (best-effort
  there: absent locally is not an error", said of the inspection) covers the pull too: when the registry
  answers 404, an image that is too old is used without a word. `PolicyHonoured` exempts such a call (`PolicyBinds`).
- The peek after a file's last byte (`src/docker/Tar.cpp:176`: "reaches EOF only if the file still ends at
  file_size") also meets the end of a file that was cut shorter after it had been read; what is archived
  is whole, so `FramesWhole` only asks that nothing followed.
- When `posix_spawnp` fails, the read end of the pipe is never closed
  (`src/Process.cpp:363`); `ChildProcess!NothingLeft` exempts exactly that.
- The staging of a child's stdin ignores write errors (`src/Process.cpp:89`): not modelled.

Visible in the models, and contradicting no text: a Ryuk whose bootstrap
failed after it read the session filter, and whose best-effort removal failed, sweeps
the live process's resources; an exception of the chunk consumer leaves
`duplex_exchange` with operations still in flight; the tunnel's destructor waits for sshd without a
time-out, and for ever when a client leaves its channel full; the round-trips of a command's exec are
not clamped to the wait's deadline, which may be passed by several transport time-outs; a write of a
request body that times out reports itself, though the daemon's rejection may have arrived; a sidecar
whose best-effort removal fails (`src/Container.cpp:213`) runs on, attached, until Ryuk sweeps it; two
concurrent creators of a reuse network make two of one name; a response over the body cap on a
reused connection is taken for staleness and fetched a second time; a compose cli container
that is created and fails before it is recorded carries only the managed-by label.

## 5. Proofs

`ReaperProofs` (for any threads, daemons, Ryuks, filter lines and number of attempts). Under every fault:

- `Invariant`, `TypeCorrect`: `Spec => []TypeOK`.
- `OneWatcherPerDaemon`: `Spec => []OneWatcher`. Not inductive as it stands: the
  strengthening says that only the holder of `mutex_` is inside the registry, that a
  Ryuk being booted belongs to the holder, has that call's daemon as its host and is
  nobody's entry, that an entry's Ryuk is on its own daemon, and that an open
  connection belongs to an entry or to the boot in progress. Two open connections to
  one daemon would then be the entry and the boot of that daemon, and a boot
  happens only where there is no entry.
- `RecordsGrow`: `Spec => RecordsOnlyGrow`. Only an entry's Ryuk has filters on record, and an
  entry is written only where there was none, so that the first filter meets an empty list.

The others assume the absence of just the faults that break them; every other fault may happen.

- `OnlyAcknowledged`: `Spec => []FiltersAcknowledged`, without `slow`: a reply that arrives after its
  budget is taken for the answer to the next line, and `reaper_late_ack` shows that the assumption is
  needed. `Told` says where a line that was sent can be (unread, answered, known), `Answered` that at
  most one answer is on its way, to the line that its thread waits for.
- `OrphansHarmless`: `Spec => []OrphanKnowsNothing`, without `rm`: a Ryuk whose bootstrap failed after
  it had read the session filter, and whose removal failed too, runs on and knows the session.
  `OrphanInv`: a running Ryuk is an entry's, knows nothing, or is being booted.
- `ResourcesWatched`: `Spec => []Watched`, without `slow`, `drop` and `die`: an entry is served for the
  whole process, also when its connection was cut or its Ryuk has gone. `HealthInv`: the Ryuk of an
  entry runs and is connected; with `Answered`, what a caller was granted is known to that Ryuk.
- `KeepsPromise`: with no fault but nonsense answers, the safety half of the refinement: the initial states
  of `Reaper` are initial states of `CrashSafety`, and every step is one of its steps or none.

`RunnerProofs` (any calls, processes, policies, attempts, ids):

- `Invariant`, `TypeCorrect`: `Spec => []TypeOK`.
- `OnlyItsOwnerRemoves`: `Spec => RemovedByItsOwner`, under every fault. From the
  invariant that a call that is inside an attempt, or holds a normal handle, works on a
  container it created itself.
- `NothingLeaks`: `Spec => []NoLeak`, assuming `Reliable` (no failing removal, no lost
  answer). The assumption is needed: `runner_faults` has both and `NoLeak` is false
  there, which is why the reaper exists.
- `PoliciesHonoured`: `Spec => []PolicyHonoured`. A call that is past a refreshing policy and not
  `refused` has left no old image behind (`FreshInv`), and no step of anybody makes an image old again.

`ClientProofs`, `SessionClient` (any clients, daemons, connections, numbers of tries), whatever a daemon does to a
connection:

- `TypeCorrect`: `Spec => []TypeOK`.
- `AnswersAreOwn`: `Spec => []OwnAnswer`. A kept connection has nothing on its way (`WireOf`); the one
  in use at most the request written last, or its answer; a call that rides the session's connection is
  a GET or a ping (`PhaseOf`); two clients never hold the same (`NotShared`), because one call is under way
  at a time (`SoloInv`) and a copy takes no connection with it. All daemons a client has to do with are one,
  of which its version speaks (`DaemonOf`).
- `SideEffectsOnce`: `Spec => []NeverReplayed`. `SentOf` counts the writes of a call phase by phase;
  `GuardOf`: a session has a guard that will end it, a kept connection a session.

`ClientProofs`, `StreamCall` (any set of calls, amounts of output, exit codes):

- `CallsHonest`: `ClientSpec => []CallHonest`. `CallInv` says which position of a call has what behind it:
  the phases after the header are reached only by a call whose answer was accepted, a connection that
  is over is closed, a call that was late at its start goes to its end without the streaming phase, and the
  outcome is written at the end only. What was sent and delivered is a prefix of what there is,
  and a result that is whole comes with the end of the stream that the daemon has really written. A
  rejection that stayed readable is what is thrown, unless the write of an unfinished body timed out.

`ClientProofs`, `Credentials` (any configurations, helpers, registries, threads, lifetimes of at least 1):

- `SecretsSafe`: `ClientSpec => []SecretsInPlace`. Scope: an entry of the cache is for the registry it is
  under, and what a helper was asked for is the registry of the pull that asked. Freshness (`Times`): an
  entry that has not been dropped, and a secret in the hand of a pull, is no older than a lifetime and a
  helper's run.
- `ClientTypeCorrect`: `ClientSpec => []ClientTypes`, of the sessions, the streamed call and the pulls.

`HandleProofs`, `ContainerHandle` (any containers, slots, hook nestings):

- `RemovalOnce`, `HooksOnceAndBefore`, and together `OwedOnce`: `Spec => []OwnedOnce`. At most one handle
  object names a started container, and it tells whether the hooks have run; an operation in progress
  that ends in a removal has let go of the handle and fired its hooks; what is destroyed or assigned is
  in no operation below it on the stack, so that the handle an operation returns to is still there.
- `OwnersAnswer`: `Spec => [][OwnerSteps]_vars`: an owner goes only with the removal or because the
  container is kept, and a kept container only meets an explicit `stop()`.
- `HandleTypeCorrect`: `Spec => []TypeOK`, for finitely many containers. It bounds the stack: operations that
  wait for their hooks have different containers (`Nesting`), because the flag is set before the hooks run.

`HandleProofs`, `NamedResources` (any threads, slots, names, configurations), under every failing step:

- `NothingLost`, `OwnedByOne`, `NoneNextToSeen`, and together `NamedOwedOnce`; `NamedTypeCorrect`. The ids
  given out are 1, 2, ..., so a new one is nobody's; a helper in a job has been made. `NoneNextToSeen` is
  the guard of the find, kept until the create: the creator has seen no namesake, and two creators may both
  have seen none.

`ForwardingProofs`, `SshTunnel` (any connections, amounts of data, caps and windows, under every fault):

- `Invariant`, `TypeCorrect`: `Spec => []TypeOK`; no buffer holds more than its cap.
- `NeverTogether`: `Spec => []SessionExclusive`. Who holds `mu_` is told by where the two threads are.
- `NothingTruncated`: `Spec => []WholeStreams`. The units of a direction are conserved, whatever
  buffer they are in, and its three ends (the sender's, the one seen, the one passed on) come one
  after the other, each behind the data; a connection done without an error is `Finished`.

`WiringProofs`, `HostAccess` (any threads, daemons, networks, requests, and foreign (dis)connects):

- `RegistryInvariant`, the inductive invariant, and `AccessTypeCorrect`.
- `NoneStrays`: `Spec => []NoStraySidecar`. A sidecar in the making is its thread's until its tunnel is up;
  that thread has the mutex, and its daemon has no other. One that is lost has no tunnel and is on no
  record (`Tunnels`).
- `AliasAndRelease`: `Spec => [][OwnerSteps]_vars`: who gets the alias reaches every port asked for on its
  own network, and a release leaves no endpoint of a sidecar behind that is not lost. `Registry`: a sidecar is registered with its own
  daemon; `Ready`: how much of what a job needs is there, position by position in `wire`; `Covered`: every
  endpoint of a sidecar is on record, but for the lost and those that others have moved.

`WiringProofs`, `Compose` (any slots, projects, definitions, relays and failing steps):

- `StackInvariant`, `StackTypeCorrect`: `Spec => []TypeOK`.
- `NothingOutlives`: `Spec => []TornDown`. What there is of a project is a handle's stack's, in the hand of
  the operation in progress, or left behind by a step that failed, and that step tells what (`LeftInv`,
  `CliInv`). `WorkInv` says what the operation in progress has in hand: nobody else runs that project or is
  named like it, its file is still there, its relay is gone before `down` unless removing it failed.
- `SweptAfterCrash`: `Spec => []CrashSwept`. A stack in the making is registered before `up` (`WorkInv`).
- `StacksWhole`: `Spec => []StackStaysWhole`. Two objects share no project, file or stack, and neither is
  named like what the other runs (`Apart`): whoever is torn down, the stacks of the handles are untouched
  (`HandleInv`). A restart needs this of itself: it lets go of its stack before the next is made.

`PumpProofs`, `DuplexExchange` (any input, window, transport, peer and fault) and `ChildProcess` (any runs,
plans, sizes of a pipe, and children that never end):

- `TypeCorrect`: `Spec => []TypeOK`.
- `PumpsHonest`: `Spec => []Contract`. Exchange: every unit of input is still to be sent, on its way, or
  echoed, and every unit that the peer has written is on its way, in a completed read, or delivered
  (`ExchangeInv`); so a half-close follows the whole input and a clean end of the output is the whole output.
  The epilogue is entered for one of two reasons, which stay (`Epilogue`), and left only when nothing is
  in flight. Child: who can write to a pipe is who holds its end (`ProcessInv`), so that the
  end of the output means that the child, and whoever inherited the end, is done; the status is asked for
  only after that (`CallInv`), and file and read end are gone on every way out but the one
  named in section 4.
- `ExpiriesStay`: `Spec => ExpirySteps`, the action property, from the same invariant.

`ResourceProofs`, `WaitChain` (any chains of conditions, timeouts, poll intervals and bounds of a call):

- `WaitInvariant`, `WaitTypeCorrect`: `Spec => []TypeOK`.
- `PassedIsMet`: `Spec => []PassedWasMet`. `KindInv`: what the thread is busy with belongs to the
  condition it waits for. `LogInv`: a follow stream has counted what it has delivered, and nothing else,
  so that a text that reaches its number is in the log.
- `BudgetIsOne`: `Spec => []OneBudget`. `TimeInv`: no call and no sleep begins that would end later
  than `BoundOf` allows: a poll and a round-trip after the deadline, and for a command as many round-trips
  as the attempt has got to; a later condition is entered before the deadline. Addition
  on the clock saturates, as the code's does, and the argument is about the saturated sums.

`ResourceProofs`, `TechModules` (any subset of the fourteen modules, any number of setters and starts; the
inductive invariant `ModInv` was checked by TLC before it was proved):

- `HandlesTrue`: `ResourcesSpec => []HandleTrue`. A builder keeps what its module demands of it
  (`Sane`: extensions that the image knows, a Redis command without a password of its own, ...); what is
  rendered is a function of the builder; the last entry of a key in the environment is the one the server
  reads, so that what a getter says is what the server was told (`Says`, `Silent`, and one lemma per
  way a server reads its account). `RawRoot` is the builder of which only the ports are true.
- `ServersReady`: `ResourcesSpec => []ServerReady`. A server is always in a phase of its image's boot
  (`ServerInv`); a wait that is past its first condition has seen the temporary server go (`WaitingInv`);
  the hook has made exactly the first `n` of what it was told (`HookingInv`, `Taken`), in that order; a
  container whose start is over shows in its labels what its hook has done (`SettledInv`), which is
  why adopting it is as good as a start of one's own. The scripts of an init directory run in the order of
  their names, which is unique and is the order in which they were given.

The proof found `Probe` to be a `CASE` whose guards overlapped: TLA+ may take either branch, TLC takes the
first. It is now a chain of conditions, in the order in which the wait loop decides.

`ResourceProofs`, `Resources`: `EachOwnedOnce`, `OwnersAnswerAlways`, `NothingStraysEver`,
`StackStaysWholeEver`, `TypesCorrect` (with finitely many started containers) are the theorems of the six
components about the properties that the run `resources` checks. A behaviour of the composition is a
behaviour of the component that `part` names, because no step changes `part`.

Assumptions. `Reaper`, `Runner`, `SshTunnel`, `WaitChain` and the three compositions have a named ASSUME
about their constants; those of the compositions are made of their components' (`HandleAssumption`,
`NamedAssumption`, `HostAccessAssumption`, `ComposeAssumption`, `ModulesAssumption`, `SessionAssumption`,
`CallAssumption`, `CredentialsAssumption`, `DuplexAssumption`, `ProcessAssumption`), which a theorem about
one component states as its hypothesis. TLC evaluates them all. They give constants their types and
tell the values for "none" from the real ones; in addition a chain of waits is not empty, a lifetime is not
0, an upload and a build have an input (the input of -1, none at all, is an exec's), and `Modules` are of
the fourteen that `TechModules` knows. Nothing else is assumed, but for the faults named above and the
finiteness of the started containers where types are concerned, without which the stack of nested hooks has
no bound. Every invariant and every action property of a passing run is a theorem, with the exceptions
that follow.

Only model-checked: liveness (`LockReleased`, `RunEnds`, `Swept`, `Returns`, `EchoComplete`, `Isolated`,
`DestructorReturns`) and the refinement's liveness half, which are out of the prover's reach;
`ChunkingInvisible` and `ArchiveTrue`, which compare `LogStream`, `Archive` and `Glob` with reference
definitions that are recursive or computed over data, and `Types` of `MCClient` in those parts.

## 6. What is left

1. Proofs: the bookkeeping of `LogStream` and `Archive` apart from their recursive definitions (that
   a buffer is compacted only past consumed bytes, that an entry is written whole or not at all).
2. The extraction of a downloaded archive, and the parsing of ignore rules.

## 7. Not modelled

API mapping, configuration and address resolution are sequential conversions without
state, whose unit tests reach their cases; the other models take their results as inputs. `GenericImage` is
a value whose setters are assignments. Of the Docker client, the calls that are one
request and one answer change nothing but the connection and are `SessionClient`'s
requests. Transport, TLS, HTTP framing, libarchive and libssh2
are libraries. `AsioRun`, logging, quoting and formatting carry no state of their own. Left out
of the technology modules: connection strings, customizers (the user's own code), and raw
overrides that the headers document as the user's own risk (Kafka's `CLUSTER_ID`, ScyllaDB's `--dc`,
Redis's `--requirepass`).
