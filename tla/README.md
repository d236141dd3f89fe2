# Vasum in TLA+

Vasum is a daemon that runs *zones* (LXC containers) on a device with one
screen.  One zone, or the host, is in the foreground; clients create, start,
stop, pause and destroy zones and pass the focus between them; zones survive a
restart of the daemon in a configuration database.

This directory models the parts of the daemon whose correctness depends on
order, concurrency and failure, checks them with TLC on small instances, and
proves with TLAPS what matters most for instances of every size.

| Module | Models |
| --- | --- |
| `Zone` | one zone: `server/zone.cpp` over `common/lxc/zone.cpp`, and its rows in the database |
| `ZonesManager` | the zones manager: `server/zones-manager.cpp`, over `Zone` |
| `ZonesManagerProofs` | theorems about `ZonesManager` |
| `TaskQueue` | how calls reach the zones: threads, worker, the queue's lock, `stop()` |
| `TaskQueueProofs` | theorems about `TaskQueue` |
| `Container` | a container's object in the daemon and its guard process: `libs/lxcpp/container-impl.cpp`, `libs/lxcpp/guard/guard.cpp` |
| `ContainerLife` | what a container's object promises, which `Container` implements |
| `ContainerProofs` | theorems about `Container` |
| `ZoneProvision` | what a zone declares and mounts: `server/zone-provision.cpp` |
| `ZoneRequests` | device grants and files created inside a zone: `common/lxc/cgroup.cpp`, `common/launcher/launcher.cpp` |
| `NetDev` | a zone's network devices: `server/netdev.cpp` |
| `Netlink` | a conversation with the kernel: `common/netlink` |
| `InputMonitor` | the key that switches zones: `server/input-monitor.cpp` |
| `BusConnection` | the connection to the bus and its owners: `libs/dbus/connection.cpp`, `server/host-dbus-connection.cpp`, `server/host-ipc-connection.cpp`, `zone-daemon/daemon-connection.cpp` |
| `Client` | the client library: `client/vasum-client-impl.cpp` |
| `CommandLine` | the tool `vsm`: `cli` |
| `Configuration` | whose configuration a container runs with: `libs/lxcpp/container-impl.cpp` |
| `Preparation` | what guard and init do before the container's program: `libs/lxcpp/guard/guard.cpp`, `commands` |
| `Terminal` | the relays of a console: `libs/lxcpp/guard/guard.cpp`, `commands/console.cpp` |
| `ContainerNetwork` | a container's interfaces: `libs/lxcpp/network.cpp`, `commands/netcreate.cpp` |
| `UserNS` | ids in a user namespace: `libs/lxcpp/userns-config.cpp` |
| `CGroups` | a container's control groups: `libs/lxcpp/cgroups`, `commands/cgroups.cpp` |
| `Attach` | a program run in a container that runs: `commands/attach.cpp`, `attach/attach-helper.cpp` |
| `FrontProofs` | theorems about `CommandLine`, `BusConnection`, `Client`, `InputMonitor`, `ZoneRequests` and `ZoneProvision` |
| `NetworkProofs` | theorems about `NetDev`, `Netlink` and `ContainerNetwork` |
| `GuardProofs` | theorems about `UserNS`, `Preparation`, `Attach`, `CGroups`, `Configuration` and `Terminal` |
| `SequenceLemmas` | what those proofs use of sequences and of counting |
| `MCZonesManager`, `MCTaskQueue`, `MCContainer`, `MCCGroups` | small instances for TLC |
| `MCParts` | the fifteen modules from `ZoneProvision` to `Attach`, one instance each, in one run |
| `PartsProofs` | theorems about the fifteen together |

## 1. Inventory

**Zones manager** (`server/zones-manager.cpp`).  State: `mZones` (Zone objects
in insertion order), `mActiveZoneId`, `mDynamicConfig` (the list of ids and the
default one, saved in the database), `mDetachOnExit`, `mExclusiveIDLock`,
`mWorker`, two mutexes.  Operations: some thirty handlers, a notification from
the input monitor, start and stop, the signals' `setZonesDetachOnExit`.  Hard:
every step of `createZone` and `destroyZone` may fail, or the daemon may die,
between what is done to LXC, the disk, the database and the memory; focus
follows zones that come and go by themselves.  Correct: a restart finds the
same zones, each with its rows; the active zone exists and runs; the default
zone exists; no two zones share an id or a virtual terminal; at most one zone
has the foreground's CPU quota; an answer is true.

**Zone** (`server/zone.cpp`, `common/lxc/zone.cpp`).  State: the container's
(in LXC and the kernel), the requested state (memory and database), the CPU
quota, the VT, the directory.  Operations: start, stop, suspend, resume,
restore, goForeground/goBackground, construction and destruction.  Hard: every
LXC operation may fail half way; the container's init is a process of its own.
Correct: the saved request is the last one made, however it ended.

**Task queue** (`tryAddTask`, `handleLockQueueCall`, `utils::Worker`,
`server/server.cpp`).  State: the worker's FIFO, the queue's lock, `mMutex`.
Calls come on two threads: the event poll's (IPC) and the glib loop's (D-Bus).
Hard: handlers pass references to their locals into tasks; a client may leave
with the lock, or while its task waits; `stop()` and the input monitor take
the tasks' mutex.  Correct: a task never outlives the handler whose locals it
uses; the lock excludes others and never stays with a dead client; no call
waits for ever, though its task may throw; `stop()` returns.

**Zone provisions** (`server/zone-provision.cpp`).  State: declared files,
mounts and links, saved in the database; the list of those applied; the
kernel's mounts.  Operations: declare, remove, list, start, stop.  Hard:
`remove()` does not save; `start()` skips failures and may run twice; mounts
hide one another and outlive the daemon.  Correct: what a client was told is
declared is there after a restart; what is mounted is what `stop()` will undo.

**Requests inside a zone** (`common/lxc/cgroup.cpp`, `common/launcher`).
State: what the zone's cgroup allows of each device, a file in the making.
Hard: a launcher attached to the zone sends the descriptor back while the zone
may stop or freeze.  Correct: access is what the answers say; a client gets a
descriptor only of a file that was made for it.

**Input monitor** (`server/input-monitor.cpp`).  State: the device, a window of
time stamps.  Hard: boundaries, seconds that carry, microseconds divided.
Correct: so many presses within the window, and nothing else, switch the zones.

**Container and guard** (`libs/lxcpp/container-impl.cpp`,
`libs/lxcpp/guard/guard.cpp`, `libs/lxcpp/commands`).  Each container has a
guard process; daemon and guard exchange messages (GUARD_READY,
GUARD_CONNECTED, SET_CONFIG, START, STOP, INIT_STOPPED).  State: the object's
configuration with the container's state in it, the guard's copy of both, the
peer the guard talks to, init.  Hard: init exits when it likes, the daemon dies
between two messages and a later one connects, preparations fail before or
after `clone()`, the guard ends before it serves, a clean-up throws.  Correct:
the state an object shows follows the life of init; its exit is reported to
whoever is connected; a guard starts one init; starting and stopping end.  The guard also relays terminals through fixed buffers.

**lxcpp configuration, preparation, terminals, networks, ids, control groups,
attach** (`libs/lxcpp`).  Around the guard's life: an object's configuration is
changed, handed over and replaced while messages are on their way; guard and
init prepare the container in turns, in two processes with one channel; the
guard and a console relay terminals through fixed buffers; guards of several
containers make bridges, interfaces and groups that the host shares; ranges of
ids are checked by the library and, at start, by the kernel; an attached program
enters the namespaces of an init that may end meanwhile.  Correct: an object
shows what init was made of; the program starts only when everything was done;
no byte that was read is lost or repeated; a running container has its
interfaces and groups, those of the right subsystems;
library and kernel translate ids alike; an attached program is in the namespaces
of one process, all of them.

**Host connections** (`server/host-ipc-connection.cpp`,
`server/host-dbus-connection.cpp`, `libs/dbus`) and the **zone daemon**
(`zone-daemon`).  State: the bus name, the callbacks glib may still make, the
watched clients.  Hard: the owner's thread constructs and destroys while the
glib thread calls back; a name is acquired late, or lost; a client is gone
before its call is served.  Correct: nothing calls back after the destructor;
the lock never stays with a client that is gone; every proxied call is answered.
The **proxy call policy** decides which calls are passed on, by a look-up
without state.

**Network devices** (`server/netdev.cpp`, `common/netlink`).  State: the
kernel's.  Hard: a veth pair is made, bridged, set up and moved in four calls,
each of which may fail, with names other programs also take; an answer comes in
several datagrams.  Correct: no pair is left half made; a dump is read whole.

**Client library** (`client`).  State: connection, dispatcher, the last status
and its mutex.  Hard: threads share the status, which is written without the
mutex after an exception, and unlocked by hand.  Correct: the status a function
returns is that of its own call.

**Command line** (`cli`).  State: one connection for the process, the exit
code.  Hard: the daemon dies between two lines of a script that holds the
queue's lock.  Correct: a script that ended well had no failure, and none of
its lines ran without the lock it was told it has.

`PROJECT.json` lists for each component what is modelled, or why it is not.

How they interact: a client calls over IPC or D-Bus; the connection calls a
handler of the manager on its own thread; the handler puts a task on the
worker; the task takes `mMutex`, calls methods of `Zone`, which call LXC, and
answers.  The signal handler, on the event poll's thread, calls `stop()`; the
input monitor, on the same thread, asks for the next zone.

## 2. The zones manager

`ZonesManager` has one variable per member (`mZones`, `mActiveZoneId`,
`mDynamicConfig`, `mDetachOnExit`), what the database and the disk hold
(`savedConfig`, `enabled`, and per zone `saved`, `vt`, `dir`, `defined`), what
is in the kernel (`zone[i].lxc`, `zone[i].level`, `shownVT`), the phase of the
process, and the last `reply`.

Every handler holds `mMutex` (or runs in the one worker) from its first look at
the zones to its answer, so to the other handlers **a handler is one step**.
What a handler may leave half done is in its outcomes: a method of `Zone` is an
operator from a zone to the *set* of pairs "the zone it leaves behind, how the
call ended", and an action takes one of them.  How a call ends is "ok", "zoneop"
(`ZoneOperationException`), "cargo" (a `CargoException` of the database),
"abort" (an `assert` of a DEBUG build) or "killed".  An action goes on after a
method only if that did not throw, and answers an error only for what its
handler catches (`AnswerTo`).  Between the handlers, containers die and power
off by themselves (`ZoneDies`, `ZonePowersOff`) and the daemon is killed
(`Crash`).

With "kill" among the faults **the daemon is killed within a handler**, too,
right after any call that changes what outlives it: in a method of `Zone` (the
outcome "killed"), in `createZone` (`CreationKilled`: the image is copied, the
rows are saved, the container is defined, the "enabled" file is made, the list is
saved and the default is not), in `destroyZone` (`DestructionKilled`), in
`start()` (`LoadingKilled`), in the clean-up of the zones' root
(`CleaningKilled`) and among the destructors (`Exit`).  What was in memory is
lost, what was on the disk or in LXC stays, and nobody is answered.

`Faults` says which calls into the system may fail, so that a property can be
checked, and proved, under exactly the failures it survives.

`Boot` is the constructor together with `start()`; a failing `start()` leads to
"failing", from which `Stop` and `Exit` (the destructors) follow, as they do in
`Server::run`'s unwinding.

### Runs

| Run | Instance | Shows |
| --- | --- | --- |
| `ManagerSound` | 2 zones + "host", 2 VTs, no faults, asserts on | all focus, default, database, answer and screen properties, and the "enabled" file |
| `ManagerRuntimeFaults` | 2 zones, faults "lxc", "cgroup", "die", "vt", "kill", NDEBUG | saved requests, distinct ids and VTs, and what is left of the "enabled" file's promise |
| `ManagerStorageFaults` | 2 zones, faults "db", "create", "image", "file", "kill", image copy and clean-up | a listed zone has its rows |
| `ManagerThreeZones` | 3 zones, faults "create", "kill", clean-up, image, `restoreAll` | switching reaches all; nothing is left by a creation that failed or was cut off |
| `FindActiveGone` | fault "vt" | violated: the active zone is destroyed and stays active |
| `FindDetachedStopped` | no faults | violated: a zone made after SIGUSR1 is stopped |

Bounds.  Two zones and the reserved name are enough for one zone to be
destroyed or fail while another is active, default or first in the list, and
for a VT to be reused; `circularFindNext` needs three, of which
`ManagerThreeZones` has three.  Two VTs for three names exhaust the pool.  No
variable is unbounded: the lists hold each id once.  `LeaveForDefault` (the
zones that give up the focus on request) is all zones or none, so that ids
stay interchangeable (`SYMMETRY Renaming`).  `WithoutReply` forgets the last
reply where no checked property reads it, which no action does.  In
`ManagerStorageFaults` no zone runs but the active one and none is paused
(`OnlyActiveRuns`), which keeps it in reach: its faults are those of creation,
destruction and saving, which do not look at the other containers.  `ManagerSound` has
no "kill": most of its properties speak of a zone, a focus or an answer after
the handler that changed them, and a killed daemon gives none.

`EnabledTellsZones` has two parts.  `createZone` makes the file before it saves
the list, and `destroyZone` removes it before; a daemon killed in between
leaves a file and no zones, or one zone listed and no file until the next
start.  So with "kill" the property says that a listed zone without the file is
the only one and no daemon runs, and without it that file and list agree at all
times, between daemons too.

### Theorems (`ZonesManagerProofs`)

* `TypeCorrect`: `Spec => []TypeOK`, for every set of names, VTs, templates and
  faults.  The lemmas before it give for every method of `Zone` the type of its
  outcomes and what they keep (`Keeps`: the rows and the VT of a zone are lost
  by no method), and lift this over `ForEach`, `refocus` and `focusInternal`.
* `ListedZonesHaveRows`: whatever fails and wherever the daemon is killed, within
  a handler too, a zone in the saved list has its rows.  The invariant adds that the
  lists in memory hold only zones with rows, because a later save copies them to the
  database.
* `ActiveIsKnown`: the active zone is one of the zones, assuming that saves, VT
  switches and cgroup writes succeed and no container dies within a handler
  (`Faults \cap {"db", "vt", "cgroup", "die"} = {}`).  `FindActiveGone` shows
  that the assumption on "vt" is needed.
* `RestartIsExact`: memory and database agree whenever the manager runs,
  wherever an earlier daemon was killed, assuming that the database and the
  "enabled" file can be written.  Where a save fails memory runs ahead of the
  database; what then still holds is `ListedZonesHaveRows`.
* `DefaultIsKnown`: under the same assumptions there is a default zone exactly
  when there are zones, and it is one of them.  It is a part of the invariant of
  `RestartIsExact`: without it a save could write a default that is gone.
* `EnabledFileTells`: under the same assumptions the "enabled" file is there when
  the running daemon lists zones, missing for a listed zone only if that is the
  only one and a daemon was killed, and, if none is killed within a handler,
  there exactly when there are zones, while the daemon is down too.  It is
  inductive together with that invariant: the first zone makes the file and the
  last one's destruction removes it, and `RestartInv` says that the saved list is
  then the one in memory; a daemon that starts makes the file before its first
  handler runs.
* `ZonesStayDistinct`: no two zones share an id or a VT, assuming that the
  database can be written.  The invariant needs that a VT in a zone's rows came
  from the free ones at the time, and that `Without` and `Append` keep the list
  injective.
* `RequestsPersist`: what was last requested of a zone is what the database
  says, however the operation on the container ended, assuming that the database
  can be written.  `Keeps`, which every method of `Zone` is shown to satisfy,
  says that a zone whose request was noted has it noted afterwards; that a zone
  of which there is an object is one with rows, and only one object has them, is
  from the invariants of `ListedZonesHaveRows` and `ZonesStayDistinct`.
* `NothingIsLeaked`: a container or a directory belongs to a zone of the list,
  whichever step of `createZone` fails, assuming that saving, copying, and LXC's
  stopping and removing do not (`LeavesNothing`), and either that `start()` cleans
  up the zones' root (`CleanUp`) or that the daemon is not killed within a
  handler: what a daemon killed within `createZone` leaves, only that clean-up
  removes.  The property speaks of a running
  manager; the invariant `LeakInv` speaks of the saved list at all times (but for
  what a clean-up is still to remove), so that a restart takes over what a dead
  daemon left, and adds that a zone with a directory has a container LXC can destroy.
* `SwitchingReachesEveryZone`: the running zones are one circle of the switching
  sequence, for a list of any length, assuming that the database can be written.
  `AroundOnce` is the arithmetic of the circle: from every place each other
  place is between 1 and `Len - 1` steps ahead.  A zone outside a closed
  part and nearest ahead of one of its members would be that member's successor.
* `ForegroundIsOne`, `FocusIsFollowed`, `ScreenIsRight`, `AnswersAreTrue`,
  `AssertsAreSafe`, `GoingDownKeepsRequests`: the properties of `ManagerSound`, and
  that no `assert` ends a DEBUG build, for every set of zones, templates and VTs.
  They assume that no call fails except `lxc-create` and that daemon and containers
  die between handlers only (`Undisturbed`; a cgroup write that fails half way
  through `focusZone` leaves two zones in the foreground, and another one on the
  screen than the active; a container that dies before its cgroup is written makes
  the assertion fail, by design) and that `restoreAll` is not called (`~Restores`; the
  daemon does not).  `OneForeground` speaks of running zones only and is not inductive: a frozen
  zone must not come back in the foreground, and a container that died unnoticed
  leaves an active zone that does not run.  The invariant is `Focused`: no frozen zone
  has the quota of the foreground, at most one running one has, and if a zone is
  active it is that one and its VT is shown.  `Calm...` has one lemma for each action;
  they take from `LeakInv` that every container that is up is in the list the focus
  looks at, and from `RequestPersisted` that an answer is true in the database too.

## 3. The task queue

`TaskQueue` looks between the steps `ZonesManager` takes as one.  Each thread
has a program counter (`step`) and the client it serves; the worker has its
FIFO (`queue`) and the task it took (`current`); `mMutex` has an owner; a client
has a connection and at most one call, as `client/vasum-client-impl.cpp` makes
them one at a time.  `CheckLock` and `AddTask` are two steps because
`tryAddTask` releases `mExclusiveIDMutex` in between; `Stop` and `Stopped` are
two because `mWorker.reset()` blocks with `mMutex` held.  What a task does is
`ZonesManager`'s; here it takes the mutex and ends, with an answer or, because
`handleSetActiveZoneCall` and the default's switch catch nothing and the
declarations not everything, by an exception and without one ("threw").  A call names its
kind: for the lock, or by whether `tryAddTask` checks the lock and waits.

| Run | Instance | Shows |
| --- | --- | --- |
| `TaskQueueServes` | 2 IPC clients, 1 D-Bus client | handlers outlive their tasks, the lock is given back and excludes clients of one thread, every call comes to an end |
| `FindLockRace` | 1 IPC, 1 D-Bus client, all calls | violated: the lock does not exclude a client of the other thread |
| `FindStopHangs` | the same | violated: `stop()` and the worker wait for each other |

Bounds.  One call at a time per client bounds the queue by the number of
clients.  Two clients of one thread and one of the other are what it takes for
one to be locked out by another, on its own thread and on the other, while a
third waits.  The runs do not check for deadlock: the daemon exits, and
`FindStopHangs` shows the deadlock that is there as the violation of a
liveness property.

Fairness (`FairSpec`).  Weak fairness of each thread, of the worker and of the
main loop: the kernel schedules them.  Strong fairness where a thread waits for
`mMutex`: it is free again and again between tasks, and pthread's mutex is
assumed not to starve a waiter.  Strong fairness of a client's handler: the
poll loop visits every descriptor that is ready, though other clients' calls
may come before.  Clients owe nothing: neither `Call` nor `Disconnect` nor a
signal is fair.

### Theorems (`TaskQueueProofs`)

For any sets of IPC and D-Bus clients, and any kinds of calls each makes:
`TypeCorrect`, `CallersWait` (no task outlives the handler whose locals it
uses), `LockIsGivenBack`, `LockExcludesOnThread`, and `LockExcludesWithoutDbus`
(if no client comes by D-Bus, the lock is exclusive: the race of `FindLockRace`
needs the second thread).  The inductive invariant `IInv` says in addition what
a thread at "check", "add" or "wait" serves, that a client is served by one
thread at most and has one task at most, and that a thread at "add" passed a
check whose result only the other thread can have changed since.

`EveryCallEnds` does not say that every call is answered, which is false of the
code: a task that throws what its handler does not catch leaves its client
without an answer.  It says that such a task, or a client that leaves, delays
nobody for ever: the handler goes on, and the other calls are served.

Liveness (`EveryCallEnds`, `LeavingUnlocks`) is model-checked only.

## 4. The container and its guard

`Container` has three parties: the last object made for the container (`host`
is its number; `mState` its `mConfig->mState`), the guard (`guard`, `mConfig`,
`mPeerID`) and init.  Between them are `toHost`, `toGuard` and what the guard
knows of each object's connection (`peer`).  Daemons come and go: `Vanish` is
the death of one (or the destruction of its object), `Construct` the next.

| Code | Actions |
| --- | --- |
| `ContainerImpl::connect`, `start`, `stop` | `connect`, `start`; `stop` and `SendStop`, because `stop()` releases `mStateMutex` before it sends |
| `Start::daemonize`, `Guard::Guard`, inotify on the guard's socket | `Serve` (the guard ends before it serves, or the socket appears), `onWorkFileEvent` (the object connects) |
| `ContainerImpl`'s handlers of messages and results | `onGuardReady`, `onGuardConnected`, `onInitStarted`, `onInitStopped` |
| `Guard::onConnection`, `onDisconnection` | the same, per object |
| `Guard::onSetConfig`, `onStart`, `onStop`, `onInitExit` | the same; `onStart` ends with a running init, with no init, or with one that died, as `Failures` allows; in `onInitExit` the clean-up may throw before anything is sent |

A handler runs on the one thread of its process and is one step.  A message
that carries a configuration is the state in that configuration, which is what
`onGuardConnected` makes of it.

cargo-ipc, the event poll and inotify are outside the repository.  Assumed:
messages of one connection arrive in order; what was sent before a connection
closed may still be read; a handler's exception comes back as an error; events
are reported in the order they happened, so a lost connection before a later
one's.  An object is started once at most (what cargo-ipc does when a client
starts again cannot be read here), and a second guard is not started while the
first has no socket yet.

| Run | Instance | Shows |
| --- | --- | --- |
| `ContainerLives` | 3 objects, all failures | the exit of init is reported; one init per guard; `start()` and `stop()` end; `ContainerLife` is implemented |
| `FindConnectNoInit` | 2 objects, no failures | violated: an object is told STARTING where nothing will start |

`Failures` has what may go wrong: `start()` throws ("configure"); the forked
process ends before it serves, by a failing `chdir`, `dup2` or `execve`
("spawn"), which `start()` cannot notice because it waits for the process in
between; `onStart` throws before ("prep") or after `clone()` ("clone"); the
guard's `containerCleanup` throws ("cleanup"), or the object's ("hostCleanup").
After a "cleanup" the signal is spent and init is "lost": the message is not
sent, and whether the guard then ends or goes on is cargo's, so both happen.

So three properties have exceptions, each for a failure after which the code
leaves the object alone: `ExitReported` speaks of an init that the guard reaped,
`StopEnds` and `StartEnds` of clean-ups that do not throw (`CleanupThrew`) and
guards that serve (`Stillborn`) and whose preparations do not throw (`Stuck`).
guard.hpp states the first without exception (section 6).

`ContainerLife` says what `getState()` means: it has the life of init ("off",
"starting", "up", "down") and the state shown, and a state is learnt only if
init got there in this life, and never from a later one back.  `InitLife` maps
the guard and init to that life; the state shown is `mState` itself.

Bounds.  Three objects are what it takes for one to leave the guard behind, a
second to be there while the first is still being removed, and a third to come
after a removal; the proof's invariant was checked with four.  Queues need no
bound: an object sends three messages at most.  The run does not check for deadlock: an
object may wait for ever for a guard that never had a reason to end.

Fairness (`FairSpec`).  The dispatcher's thread, the thread that is inside
`stop()` and the guard go on, because the kernel schedules them.  Init exits
when it likes, and nobody has to call anything.

Modelled, and not stated as a property because no line promises otherwise: a
`start()` that throws leaves STARTING ("configure"); an object that connects to
a guard that ends at that moment stays CONNECTING.

### Theorems (`ContainerProofs`)

For any number of objects and any failures: `TypeCorrect`; `ExitIsReported`
(when the guard reaped init, and so did not throw, the connected object has the
exit status or will read it); `OneInitPerGuard`; `ImplementsLife`.  The invariant `IInv` has, besides the
types, five parts.  `PeersInv`: connections are used in the objects' order, and
`mPeerID` names the accepted one that is alive, if there is one.  `GuardInv`:
`mConfig` tells how far init is.  `RequestsInv`: what may still be in a queue to
the guard, of which a START is the delicate one: it is there only from one
object, and only while there was no init.  `ObjectInv`: for each state of the
object, what may be on its way to it (`IdleInv`, `AnswersInv`, `KnowsInv`,
`FreshInv`).  The exit's message is in the queue because `IInv` says that the
connected object is the noted one; the refinement follows because every message
in a queue is already true of init's life and none is older than what the
object shows.

`StopEnds` and `StartEnds` are liveness and are model-checked only.

## 5. The other parts

Fifteen components touch no state of one another.  Each is a module of its own
with its own `Init` and `Next`, and `MCParts` chooses one of them at the start
and lets it run alone.  The run `PartsHold` checks all of them in one go; its
states are the sum, not the product, of theirs.  Only safety is stated of them,
so no fairness is assumed.  They end (a process exits, a bound is reached),
hence `CHECK_DEADLOCK FALSE`.  Every one of the properties below says what its
module is for, and the bounds are those of `PartsHold.cfg`.

**`ZoneProvision`**.  One zone's provisions in memory, in the database and in
the kernel's mount table, which outlives the daemon.  `start()` applies any
subset and puts it before what it remembers; `stop()` undoes from the front, and
keeps what is busy, has another mount inside or is hidden by one.  The daemon
exits or is killed at any point and loads what was saved.  `ProvisionsKept`: the
mounts are those an earlier daemon left, then exactly those `stop()` will undo,
in its order; and what a client was told is declared is in memory and in the
database.  Instance: a file, a link that is refused, two mounts one below the
other, either busy; two declared at a time; three mounted or remembered, enough
to start twice over one that a dead daemon left.

**`ZoneRequests`**.  Grants and revocations against the zone's devices
controller, and the four steps of a file's creation (socket pair, attach, the
launcher's `open`, the host's `recvmsg`), while the zone freezes, thaws and
stops.  `RequestsHonoured` (part of `EntrantsConfined`): access is what the
answers add up to, and a client gets a descriptor of a new file only.  Two
devices, one path, three requests.

**`NetDev`, `Netlink`**.  A creation is one call of the worker; its requests to
the kernel are steps, between which other programs take and release names and
zones die.  `NoHalfPairs`: between calls a veth pair is whole, but for what a
dead daemon or a failed roll-back left.  `Netlink` is one socket's conversation:
requests numbered from one counter, answers of up to three parts cut into
datagrams anyhow.  `ReadExact`: what was fetched is what was answered, to this
request.  One zone with two devices, one bridge and one physical device, two
pairs.

**`InputMonitor`**.  A key press is the device's time stamp, and the window
compares milliseconds made of seconds and microseconds.  `SwitchExact`, against
the definition by the last `numberOfEvents` presses: no switch outside the
window; one inside it is missed by a millisecond at most (the division), or by a
second at the longest windows.  Three events, a window of three milliseconds in
seconds of two, so that carries happen; `numberOfEvents` of one is left out,
because the code then reads `back()` of an empty list.

**`Terminal`**.  The guard's relay between each container's terminal and its
pty, and the console's between one pty and the screen: four buffers of
`IO_BUFFER_SIZE`, partial reads and writes, events polled before and dispatched
after others, keys that end the console or change the terminal.  `RelaySound`:
every byte read is in one place, in order, repeated nowhere; and a descriptor is
polled for writing exactly while there is something for it.  Keys wait in the
queue of the user's terminal until the console reads them; a change of terminal
and the end of the console discard what waits there (`restoreTTY`, TCSAFLUSH),
and the property says that nothing else is lost.  Two terminals,
buffers of two bytes over a pty of one, so that a buffer is half full, full and
empty; three keys.

**`BusConnection`**.  The owner's thread takes the steps of the constructor and
of the destructor; the glib thread runs one callback at a time, chosen among
those that the connection registered and not yet took back; clients call and
end.  `side` says whose connection it is: the daemon's or the zone daemon's.
IPC's own connection leads to the same handlers.  `BusSound`: the queue's lock
is held by a client that lives or whose end will be reported; an object is
registered only under a name that was acquired; each call that was passed on has
its answer to come; after the destructor nothing calls back.  Two clients of the
bus and one of IPC (one holds, one is refused, one comes by the other door),
three calls.

**`Client`**.  Every function of the library is a set of exceptions its work may
end with; `coverException` is four steps (lock, set, read, unlock) of which the
first is skipped after an exception, as in the code.  A mutex nobody locked may be
unlocked, and one another thread locked, too.  So the header's "status of this
function call" is not kept by a function that throws, and the module does not claim
it (section 6).  What the code keeps is `StatusSound`: while no function throws the lock
serves and each returns its own status; and no status is ever one of a call that
was over before.  Two threads, two calls each: one overlaps the end of the first
and the beginning of the second.

**`CommandLine`**.  One process of `vsm`, by how it was run; a command is its
name, the number of its words and whether its arguments are well formed, and
makes as many calls as the table says.  The daemon dies and returns; other
clients lock the queue.  `SessionTruthful`: a script in a pipe that ended well
had no command that failed; a session that was told it locked the queue has the
lock or fails every further command.  Three lines: lock, one that fails, another.

**`Configuration`**.  Objects come one after another, change what they hold,
hand it over (GUARD_READY, SET_CONFIG, START) or have it replaced
(GUARD_CONNECTED), while a guard outlives them.  `ShownIsRun` (part of
`SettingsHold`): what an object shows of a running container is what init was
made of, but for what was changed through it since.  Three objects, as in
`Container`; one setting that is provided, one that is set and may be refused.

**`Preparation`**.  The steps of `Guard::onStart` and of init, in two processes
and several namespaces, over one channel, each of which may throw; the clean-up
after init.  `InitConfined`: the program runs only when every step of both was
done and nothing of the host is mounted in it, and START is answered only then.
Every combination of user namespace, network namespace, own root and labels that
`start()` lets pass.

**`ContainerNetwork`**.  The guards of two containers create bridges and veth
pairs in one host, call by call, while other programs make, move and destroy
interfaces.  `InterfacesWired`: a container that runs has the interfaces of its
configuration, each joined to its bridge by its own pair.  Both want the same
bridge and the same address, and are started twice.

**`UserNS`**.  Ranges are added under the library's check, looked at when the
container starts, and then checked by the kernel, whose rules are the module's
`KernelTakes`.  `KernelAgrees` (part of `SettingsHold`): in a container that
runs, library and kernel agree on every id.  Every range of two-bit ids, two
maps; the theorem has the rest.

**`CGroups`**.  Two guards mount hierarchies, make groups, set parameters and
assign init, between each other's steps.  A subsystem's hierarchy is the first
mount with its name anywhere in the options; when a guard mounts, only those
whose path begins as the configured one are looked at.  Common parameters are
files of every hierarchy, a subsystem's own only of that subsystem's.
`GroupsWhole` (part of `EntrantsConfined`): of each group of a container that runs
there is one hierarchy that has the group, all its parameters and init, the
subsystem's own if the group has parameters of that.  That it is the
subsystem's own always is what one would read in `subsystem.hpp`, and not what the
code does (section 6).  In the instance (`MCCGroups`) cpu's name is within
cpuset's and cpu is mounted at two paths.

**`Attach`**.  The caller, the helper it executes and the child that the helper
clones; each, and init, may be killed, and init's pid given away.
`AttachedWhole` (part of `EntrantsConfined`): the program is in all the
namespaces asked for, of one process, and an exit code is answered only for a
child that ended.  That the process is init cannot be stated: if init's pid was
given away before the helper looked, it is not.

### Theorems

Each part has one, and each is proved for every value of the constants, from an
inductive invariant (its name in brackets) that a run confirmed before.

`FrontProofs`:

* `SessionIsTruthful` (`SessionInv`), for any commands and lines: a session that
  locked the queue holds the lock or its connection is dead, and it never makes
  another.
* `BusIsSound` (`ConnectionInv`), for any clients.  It adds that
  `mWatchedClients` and glib's watches are the same until the connection is
  closed (`WatchesKnown`) and that a holder from the bus is watched
  (`LeaseWatched`): a client is watched before its call is served, so it is
  watched if that call takes the lock.
* `StatusIsSound` (`CallInv`), for any threads and number of calls: `LockServes`
  says that while nobody threw one thread at most is between lock and unlock;
  `OverlapsKnown` says that a call that is being made is among those whose
  status each other one may see, `StatusFresh` that what a thread will read was
  written since it began, by itself at the latest.
* `InputExact` (`InputInv`), for any window, any `numberOfEvents` from two on,
  any number of microseconds in a second and any presses: the list holds the
  stamps of the last presses since the last switch, one fewer than a switch
  takes (`StampsOf`).  The rest is arithmetic: how far the quotients of
  `timeDiff` are from the time they stand for.
* `ZoneRequestsHonoured` (`ZoneRequestsInv`): `access = promised`, and the
  descriptor the launcher sends is of a file it made.
* `ProvisionsAreKept` (`ProvisionTypeOK /\ ProvisionsKept`, inductive as they
  stand), for any provisions, one below another or over another, and any that
  fail or are busy.  The hard step is `stop()`, which goes through the list from
  the front while the mounts lie in a stack.  `OverKept` is what holds after each
  element of the list: mounted is what is left of the stack, and over it what
  `stop()` kept, each of which is busy or has below it or over it one that was
  kept before (`Held`).  So the next element is at the top of all that can be
  undone, and `umount` takes that one and no other (`UndoOne`); induction over the
  list follows (`UndoneKeeps`).

`NetworkProofs`:

* `NoPairIsLeftHalf` (`PairsInv`), for any zones, bridges, devices and number of
  pairs.  It adds that a link is the only end of a pair that exists
  (`EndsPaired`), and what the call in progress has done by its next step
  (`PairSoFar`), so that either its last step makes the pair whole or the
  roll-back finds the one link to remove.
* `NetlinkExact` (`NetlinkInv`), for answers of any number of parts, cut anyhow:
  what waits in the socket is the answer to the request in progress from one of
  its cuts on, and what was received is the answer up to there (`ShortAnswer`,
  `DumpAnswer`); between requests the socket is empty.
* `RunningIsWired` (`ContainerNetInv`), for any containers and configurations.
  What an interface is can be told from its name and its pair (`LinkShaped`); a
  name is one interface's in its namespace (`LinksOK`).  For every guard the
  invariant says which of its interfaces are whole (`IsDone`, `WiredIn`) and how
  far the one in progress is (`Underway`).  Each step of a guard leaves its own
  claims true, and every other guard's, because it touches its own pair only and
  takes nothing from a bridge.

`GuardProofs`:

* `IdsAgree` (`IdsInv`), for ids of every width and all ranges.  `TakenAgrees` is
  the argument: the library's check bounds each range, so that its modular
  arithmetic never wraps, and what it does not find, an old range inside the new
  one, the kernel refuses; of ranges that are apart only one holds an id, which
  both then choose.
* `PreparationConfines` (`PreparationInv`), for any provisions: who is at a step
  has done those before it (`GuardProgress`, `InitProgress`), init goes on only
  with the guard's message, which is sent after the guard's last step but the
  answer, and what is mounted after the old root went is init's own.
* `AttachWhole` (`AttachInv`): the helper's descriptors and what it entered are of
  one process (`FilesOfOne`), the child has them all (`ChildMade`) and has done
  each step before the one it is at (`ChildProgress`).
* `ControlGroupsWhole` (`CGroupsInv`): the groups before the one a guard is at are
  made, set and joined, in the first hierarchy whose name has the subsystem's in
  it, which a later mount does not change (`GroupsProgress`); a group with
  parameters of its subsystem is past that step only in the subsystem's own.
* `ConfigurationShown` (`ConfigurationInv`), for any number of objects and
  settings: events of objects reach the guard in the order of the objects
  (`EventsOrdered`), one of them configures it (`ConfiguredOnce`), and what the
  object in charge holds agrees with what it was told, sent and has yet to read
  (`ObjectTold`, `JoinedAgrees`).
* `RelaysAreSound` (`TerminalInv`), for any terminals and keys and every size of
  buffer and pty: in each direction the buffers in a row are in order, and together
  with what arrived and what was taken out they are all that was read, each byte
  once (`KeysInv`, `OutputInv`); the keys that were not read and are gone are those
  that `restoreTTY` discarded.

`PartsProofs`: `PartsAreParts` says that a behaviour of `MCParts` is one of each
part, because a step is of one part and leaves the others' variables alone.  Hence,
from the parts' theorems, `PartsAreTyped`, `InputsAreExact`, `EntrantsAreConfined`
and `SettingsAreHeld`, the properties of the run `PartsHold`.

Functions that the models define by recursion, over a number or the places of a
sequence, are proved about with `SequenceLemmas`.  `DefinedUpTo` gives the function
up to any number; `CountedUpTo` is induction as a fact of a set: one that holds 0,
and with a number below `n` the next, holds all to `n`.  Both follow from the
well-foundedness of `<`, so that no theorem with an operator parameter is needed.

Assumed of the constants are the `ASSUME`s of the modules, which TLC evaluates:
bounds are numbers, names are distinct, ranges are ranges.  Two say more.
`StepsAssumption` of `Preparation`: a target is mounted once, because `addMount`
(`libs/lxcpp/provision-config.cpp`) refuses one that was declared.  `NamesAssumption`
of `ContainerNetwork`: names of bridges, names of interfaces within containers and
names that other programs use are apart.  Without it `InterfacesWired` is false: a
pair is made with the container's name for its end beside the host's bridges, where
`exists()` may take it for one, and an interface removed by hand is not noticed.

### Met while modelling

Behaviour of the code that the modules have as it is, or leave out where noted,
and of which no line promises anything else:

* `vsm -f FILE` opens the file and then reads the terminal; a last line of a
  pipe without a newline is dropped; a blank line takes the first word of none,
  which may do nothing or end `vsm` (`ReadOther`); a number that is none ends it
  by an uncaught exception (`CollapseVsm`); `console` never reports that its `execv` failed.
* `HostDbusConnection` is made in the initialiser list of `ZonesManager`, so
  that calls by D-Bus are served before the configuration is read and `start()`
  was called.  A name acquired and lost again counts as acquired.
  `mDbusConnection` is destroyed after the policy and the worker that its
  handlers use.  A call after `closeConnection` sets a watch that keeps the
  destructor waiting.
* `remove()` of a provision is in memory only.  `declare*` of one that exists
  throws through the handler.  `~Zone` removes the root before
  `~ZoneProvision` unmounts what is in it.
* Access to devices adds up over grants.  A descriptor that does not arrive
  throws out of `createFile` and leaks its socket.  Creation of a file in a zone
  that is frozen waits for the thaw under `mMutex`.
* A veth pair that a failed start left blocks later starts of that container.  The index
  of a macvlan's link is looked up in the host's namespace.  `setAttrs` without
  flags takes a link down.
* `restore()` of a frozen zone throws; `handleSetActiveZoneCall` and the
  switching notification catch nothing; destruction of an unknown zone answers twice.
* An attached program is in none of the container's groups, and holds
  `mStateMutex` while it lives.  Nothing destroys groups.  The list of pids of a
  group has one too many at its end.
* `start()` checks the maps of ids, and a range added after it returned is not
  checked.  What is declared while a guard runs does not reach it.  Two objects
  at once on one work directory are both told GUARD_READY (left out:
  `Configuration` has one after another).

## 6. Findings

* `FindActiveGone` — `focusInternal` gives up when `activateVT` fails, also
  when it was called to replace a zone that is gone.
* `FindDetachedStopped` — `setZonesDetachOnExit` marks the zones that exist;
  later ones are stopped on exit.
* `FindLockRace` — the check of the queue's lock and the addition of the task
  are not atomic.
* `FindStopHangs` — `stop()` waits for the worker under the worker's mutex.
* `FindConnectNoInit` — a guard that has a configuration but was never asked to
  start is taken for one with an init.

Three more lines of the repository are not what the code does.  The models have
what the code does, and the properties state no more than that:

* guard.hpp:140-141 says of `onInitExit` "Called when the init process exits. Sends
  the exit status to the host."  `containerCleanup` comes first (guard.cpp:264), and
  where it throws INIT_STOPPED (guard.cpp:268) is not sent: "cleanup" in
  `Container!onInitExit`, and the exceptions in `ExitReported`, `StopEnds` and
  `StartEnds`.
* subsystem.hpp:61 says of `getMountPoint` "Get mount point of this subsystem".
  subsystem.cpp:71 takes the first hierarchy with the name anywhere in its options
  (`it->find(mName)`), so cpuset's for cpu if that is listed first: a group of cpu
  is then made there and init put into it.  `CGroups!HierarchyOf` has that, and
  `GroupsWhole` says which hierarchy instead of claiming the subsystem's.
* vasum-client.h:282, as its other functions, says "@return status of this function
  call", and the example before it shares a client between two threads.
  `coverException` (vasum-client-impl.cpp:178-199) locks only after the work
  succeeded, so a call that throws writes, reads and unlocks without the lock, and may
  return, or have another call return, a status that is not its own.  `StatusSound`
  is what is kept.

## 7. What is only model-checked, and what is not modelled

Only model-checked: liveness (`EveryCallEnds`, `LeavingUnlocks`, `StopEnds`,
`StartEnds`), which the provers cannot do, and of the zones manager what the
theorems' assumptions exclude (the same properties with more faults, in the runs
of section 2).  Every other property of a passing run is that of a theorem.

Not modelled:

* conversions of arguments and answers, texts, logging, and the completion of
  `vsm`'s prompt; the look-up of the proxy call policy and of the input device;
* the encoding of netlink attributes, pty nodes and modes;
* the devices controller of lxcpp, which the daemon does not use;
* a kill of the daemon between two calls that change only its memory, which is a
  kill before or after them, and a file or row of the database half written;
* the time `LxcZone::shutdown` waits, and what an lxcpp object does that is started a
  second time, or beside another on the same directory: what cargo-ipc does then
  cannot be read here;
* cargo, cargo-ipc, glib, liblxc, the kernel and `utils::Worker`, which are
  outside the repository and modelled from how the code uses them.

## 8. Plan

Done: `Zone`, `ZonesManager`, `TaskQueue`, `Container` with the theorem that it
implements `ContainerLife`, and the fifteen parts of section 5, all with theorems.

Left:

1. `Terminal`: each direction as an implementation of a FIFO, for every size of
   the buffers.
2. `ZoneProvision`: declarations as a catalogue with acknowledgements, which a
   crash takes back to the last one, implemented by the module.
3. An abstract catalogue of zones (create, destroy, list, default), implemented
   by `ZonesManager` on the instances it has; theorem where faults allow it.
4. `AnswersAreTrue`, `FocusIsFollowed` and their like with fewer faults assumed
   away.
5. Liveness of a relay and of a start-up (`Terminal`, `Preparation`), under weak
   fairness of the processes.
