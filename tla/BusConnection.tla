--------------------------- MODULE BusConnection ---------------------------
(***************************************************************************)
(* The connection to the system bus, libs/dbus/connection.cpp, under the   *)
(* two objects that own one: the daemon's HostDbusConnection               *)
(* (server/host-dbus-connection.cpp) and the zone daemon's                 *)
(* DaemonConnection (zone-daemon/daemon-connection.cpp).  The owner's      *)
(* thread builds and destroys; the glib thread runs the callbacks.  The    *)
(* daemon's other door, server/host-ipc-connection.cpp, leads to the same  *)
(* handlers, in the owner's thread.                                        *)
(***************************************************************************)
EXTENDS Naturals, FiniteSets

CONSTANTS BusClients, IpcClients, MaxBusCalls

NoClient == "none"

\* The names of the clients of the two doors have different prefixes (api::DBUS_CONNECTION_PREFIX).
ASSUME BusAssumption ==
  /\ BusClients \cap IpcClients = {} /\ NoClient \notin BusClients \cup IpcClients
  /\ MaxBusCalls \in Nat

VARIABLES
  side,          \* "host" or "zone": whose connection this is
  ownerAt,       \* what the owner's thread does next
  busName,       \* "unasked", "asked", "owned", "lost"
  mNameAcquired, mNameLost,
  busCallbacks,  \* what the glib thread may still call back
  mWatchedClients,
  connectionClosed,  \* closeConnection has run
  clientUp,      \* the clients that live
  calling,       \* per client, its call that waits to be handled
  owed,          \* clients whose call was handed over and is not answered (ghost)
  leaseHolder,   \* mExclusiveIDLock
  busCalls       \* calls made so far

busVars == <<side, ownerAt, busName, mNameAcquired, mNameLost, busCallbacks, mWatchedClients, connectionClosed,
             clientUp, calling, owed, leaseHolder, busCalls>>

AllClients == BusClients \cup IpcClients
\* Signals are registered, and no proxied call is made, by the host only.
TheName == <<"name", NoClient>>
TheObject == <<"object", NoClient>>
TheSignal == <<"signal", NoClient>>
BusCallbacks == {TheName, TheObject, TheSignal} \cup ({"watch", "reply"} \X BusClients)

\* The handlers, as far as the connection can tell them: those of the queue's lock, which
\* touch nothing else, and the one that passes a call on; all the others, which go
\* through the worker; and the zone daemon's two.
OwnCalls == {"lock", "unlock", "proxy"}
TaskCalls == {"task"}
FocusCalls == {"focus"}
CallKinds == IF side = "host" THEN OwnCalls \cup TaskCalls ELSE FocusCalls

BusTypeOK ==
  /\ side \in {"host", "zone"}
  /\ ownerAt \in {"create", "wait", "register", "subscribe", "up", "started", "stopped", "destroy",
                  "closing", "closed", "threw", "crashed"}
  /\ busName \in {"unasked", "asked", "owned", "lost"}
  /\ mNameAcquired \in BOOLEAN /\ mNameLost \in BOOLEAN /\ connectionClosed \in BOOLEAN
  /\ busCallbacks \subseteq BusCallbacks
  /\ mWatchedClients \subseteq BusClients
  /\ clientUp \subseteq AllClients
  /\ calling \in [BusClients -> {"none"} \cup OwnCalls \cup TaskCalls \cup FocusCalls]
  /\ owed \subseteq BusClients
  /\ leaseHolder \in AllClients \cup {NoClient}
  /\ busCalls \in 0 .. MaxBusCalls

BusInit ==
  /\ side \in {"host", "zone"} /\ ownerAt = "create" /\ busName = "unasked"
  /\ mNameAcquired = FALSE /\ mNameLost = FALSE /\ connectionClosed = FALSE
  /\ busCallbacks = {} /\ mWatchedClients = {}
  /\ clientUp = AllClients /\ calling = [c \in BusClients |-> "none"] /\ owed = {}
  /\ leaseHolder = NoClient /\ busCalls = 0

-----------------------------------------------------------------------------
(* The owner's thread.                                                     *)

OwnerOnly == UNCHANGED <<side, mNameAcquired, mNameLost, mWatchedClients, connectionClosed, clientUp, calling,
                         owed, leaseHolder, busCalls>>

\* createSystem, which throws without a bus, and setName.
CreateConnection(fails) ==
  /\ ownerAt = "create"
  /\ ownerAt' = IF fails THEN "threw" ELSE "wait"
  /\ busName' = IF fails THEN busName ELSE "asked"
  /\ busCallbacks' = IF fails THEN busCallbacks ELSE {TheName}
  /\ OwnerOnly

\* waitForName ends with the name, with its loss or after five seconds; a failed constructor
\* destroys the connection.  A name that was acquired and lost in the meantime was acquired.
\* Mutant: whatever ends the wait, the constructor goes on.
Mutant_AfterWait == "register"

AfterWait == IF mNameAcquired THEN "register" ELSE "closing"

waitForName ==
  /\ ownerAt = "wait"
  /\ ownerAt' = AfterWait
  /\ UNCHANGED <<busName, busCallbacks>> /\ OwnerOnly

registerObject(fails) ==
  /\ ownerAt = "register"
  /\ ownerAt' = IF fails THEN "closing" ELSE IF side = "host" THEN "subscribe" ELSE "up"
  /\ busCallbacks' = IF fails THEN busCallbacks ELSE busCallbacks \cup {TheObject}
  /\ UNCHANGED busName /\ OwnerOnly

signalSubscribe ==
  /\ ownerAt = "subscribe" /\ ownerAt' = "up"
  /\ busCallbacks' = busCallbacks \cup {TheSignal}
  /\ UNCHANGED busName /\ OwnerOnly

\* ZonesManager reads its configuration after its connection was built, and start() gives it
\* the callback for proxied calls; stop() takes the worker away.
StartOwner == ownerAt = "up" /\ ownerAt' = "started" /\ UNCHANGED <<busName, busCallbacks>> /\ OwnerOnly
StopOwner == ownerAt = "started" /\ ownerAt' = "stopped" /\ UNCHANGED <<busName, busCallbacks>> /\ OwnerOnly

\* ~HostDbusConnection unsubscribes; the members go, the connection last of all.
DestroyOwner ==
  /\ ownerAt \in {"up", "stopped"} \cup (IF side = "zone" THEN {"started"} ELSE {})
  /\ ownerAt' = "closing"
  /\ busCallbacks' = busCallbacks \ {TheSignal}
  /\ UNCHANGED busName /\ OwnerOnly

\* mGuard holds the destructor until every callback it has handed out is gone.
GuardOpens ==
  /\ ownerAt = "closing" /\ connectionClosed
  /\ busCallbacks = {}
  /\ ownerAt' = "closed"
  /\ UNCHANGED <<busName, busCallbacks>> /\ OwnerOnly

-----------------------------------------------------------------------------
(* The glib thread.                                                        *)

\* A callback of one that has been destroyed is run all the same, if it is still there.
LoopRuns == ownerAt \notin {"create", "threw", "crashed"}

OnName == UNCHANGED <<side, ownerAt, busCallbacks, mWatchedClients, connectionClosed, clientUp, calling, owed,
                      leaseHolder, busCalls>>

onNameAcquired ==
  /\ LoopRuns /\ TheName \in busCallbacks /\ busName = "asked"
  /\ busName' = "owned" /\ mNameAcquired' = TRUE
  /\ UNCHANGED mNameLost /\ OnName

\* The host only logs, and so does what the zone daemon calls if it has been set.
onNameLost ==
  /\ LoopRuns /\ TheName \in busCallbacks /\ busName \in {"asked", "owned"}
  /\ busName' = "lost" /\ mNameLost' = TRUE
  /\ UNCHANGED mNameAcquired /\ OnName

\* The manager's lock of the queue, and its disconnectedCallback.
LockAnswer(c, kind) ==
  CASE kind = "lock" /\ leaseHolder = NoClient -> c
    [] kind = "unlock" /\ leaseHolder = c -> NoClient
    [] OTHER -> leaseHolder

\* Mutant: the client's name is compared without the prefix of its kind of connection.
Mutant_disconnected(c) == leaseHolder

disconnected(c) == IF leaseHolder = c THEN NoClient ELSE leaseHolder

\* What a handler that needs the worker finds once stop() has taken it away, and a proxied call
\* once the policy is gone: a null pointer.
Fatal(kind) == \/ kind = "task" /\ ownerAt \in {"stopped", "closing"} /\ side = "host"
               \/ kind = "proxy" /\ ownerAt \in {"stopped", "closing"}

\* A proxied call is passed on by the policy's leave to the host, after start() has set the
\* callback; otherwise it is answered at once: forbidden, unknown, not implemented.
Proxied(kind, passes) == kind = "proxy" /\ ownerAt = "started" /\ passes

\* onMethodCall watches a new client before anything else, then has the call handled; a
\* result that nobody set is an error's when it goes.  A call for no object is answered by glib.
onMethodCall(c, passes) ==
  /\ LoopRuns /\ calling[c] # "none"
  /\ calling' = [calling EXCEPT ![c] = "none"]
  /\ IF TheObject \notin busCallbacks
     THEN UNCHANGED <<ownerAt, busCallbacks, mWatchedClients, owed, leaseHolder>>
     ELSE /\ mWatchedClients' = mWatchedClients \cup {c}
          /\ busCallbacks' = busCallbacks \cup (IF c \in mWatchedClients THEN {} ELSE {<<"watch", c>>})
                               \cup (IF Proxied(calling[c], passes) THEN {<<"reply", c>>} ELSE {})
          /\ owed' = IF Proxied(calling[c], passes) THEN owed \cup {c} ELSE owed
          /\ leaseHolder' = LockAnswer(c, calling[c])
          /\ ownerAt' = IF Fatal(calling[c]) THEN "crashed" ELSE ownerAt
  /\ UNCHANGED <<side, busName, mNameAcquired, mNameLost, connectionClosed, clientUp, busCalls>>

\* The answer of a proxied call, an error of it included.
onAsyncReady(c) ==
  /\ LoopRuns /\ <<"reply", c>> \in busCallbacks
  /\ busCallbacks' = busCallbacks \ {<<"reply", c>>} /\ owed' = owed \ {c}
  /\ UNCHANGED <<side, ownerAt, busName, mNameAcquired, mNameLost, mWatchedClients, connectionClosed, clientUp,
                 calling, leaseHolder, busCalls>>

\* The bus tells of a client's end after its last call; the watch goes with it.
onClientVanish(c) ==
  /\ LoopRuns /\ c \notin clientUp /\ calling[c] = "none" /\ <<"watch", c>> \in busCallbacks
  /\ mWatchedClients' = mWatchedClients \ {c}
  /\ leaseHolder' = IF side = "host" THEN disconnected(c) ELSE leaseHolder
  /\ busCallbacks' = busCallbacks \ {<<"watch", c>>}
  /\ UNCHANGED <<side, ownerAt, busName, mNameAcquired, mNameLost, connectionClosed, clientUp, calling,
                 owed, busCalls>>

\* ~DbusConnection's closeConnection: the watches and the name go, mWatchedClients stays as it is.
closeConnection ==
  /\ ownerAt = "closing" /\ ~connectionClosed
  /\ connectionClosed' = TRUE
  /\ busCallbacks' = busCallbacks \ ({TheName} \cup ({"watch"} \X BusClients))
  /\ busName' = "lost"
  /\ UNCHANGED <<side, ownerAt, mNameAcquired, mNameLost, mWatchedClients, clientUp, calling, owed,
                 leaseHolder, busCalls>>

\* glib's connection goes with its last reference: those of calls under way, and of the watch
\* that a call which came after closeConnection has set.  Its objects and signals go with it.
ConnectionFreed ==
  /\ connectionClosed /\ busCallbacks # {} /\ busCallbacks \subseteq {TheObject, TheSignal}
  /\ \A c \in BusClients : calling[c] = "none"
  /\ busCallbacks' = {}
  /\ UNCHANGED <<side, ownerAt, busName, mNameAcquired, mNameLost, mWatchedClients, connectionClosed, clientUp,
                 calling, owed, leaseHolder, busCalls>>

-----------------------------------------------------------------------------
(* The clients.                                                            *)

ClientOnly == UNCHANGED <<side, ownerAt, busName, mNameAcquired, mNameLost, busCallbacks, connectionClosed>>

BusCall(c, kind) ==
  /\ c \in clientUp \cap BusClients /\ busName = "owned" /\ ~connectionClosed
  /\ calling[c] = "none" /\ <<"reply", c>> \notin busCallbacks /\ busCalls < MaxBusCalls
  /\ busCalls' = busCalls + 1
  /\ calling' = [calling EXCEPT ![c] = kind]
  /\ UNCHANGED <<mWatchedClients, clientUp, owed, leaseHolder>> /\ ClientOnly

\* A call over IPC, whose service start() starts and stop() stops.
IpcCall(c, kind) ==
  /\ c \in clientUp \cap IpcClients /\ side = "host" /\ ownerAt = "started" /\ busCalls < MaxBusCalls
  /\ busCalls' = busCalls + 1
  /\ leaseHolder' = LockAnswer(c, kind)
  /\ UNCHANGED <<mWatchedClients, clientUp, calling, owed>> /\ ClientOnly

\* A client ends.  The service removes a peer, and calls back, before it serves another.
ClientEnds(c) ==
  /\ c \in clientUp
  /\ clientUp' = clientUp \ {c}
  /\ leaseHolder' = IF c \in IpcClients THEN disconnected(c) ELSE leaseHolder
  /\ UNCHANGED <<mWatchedClients, calling, owed, busCalls>> /\ ClientOnly

BusNext ==
  \/ \E b \in BOOLEAN : CreateConnection(b) \/ registerObject(b)
  \/ waitForName \/ signalSubscribe \/ StartOwner \/ StopOwner \/ DestroyOwner \/ GuardOpens
  \/ onNameAcquired \/ onNameLost \/ closeConnection \/ ConnectionFreed
  \/ \E c \in BusClients :
       \/ \E passes \in BOOLEAN : onMethodCall(c, passes)
       \/ onAsyncReady(c) \/ onClientVanish(c)
       \/ \E kind \in CallKinds : BusCall(c, kind)
  \/ \E c \in IpcClients, kind \in CallKinds : IpcCall(c, kind)
  \/ \E c \in AllClients : ClientEnds(c)

BusSpec == BusInit /\ [][BusNext]_busVars

-----------------------------------------------------------------------------
\* While the connection serves, the queue's lock is held by a client that lives, or
\* by one whose end the connection will still be told of: no client takes the lock
\* with it, over whichever door it came and however fast it went.
LeaseFollowsClient ==
  (leaseHolder # NoClient /\ ~connectionClosed /\ ownerAt # "crashed") =>
    leaseHolder \in clientUp \/ <<"watch", leaseHolder>> \in busCallbacks

\* An object is registered under a name that was acquired; a call that was passed on is still
\* to be answered; and when the destructor is over nothing calls back into what it destroyed.
CallbacksOwned ==
  /\ TheObject \in busCallbacks => mNameAcquired
  /\ ownerAt # "crashed" => \A c \in owed : <<"reply", c>> \in busCallbacks
  /\ ownerAt = "closed" => busCallbacks = {}

\* The connection to the bus keeps its word in both directions: to the manager, that no lock
\* is held by a client that is gone, and to its owner, that nothing calls back into
\* what was destroyed while every call that was passed on is still to be answered.
BusSound == LeaseFollowsClient /\ CallbacksOwned
=============================================================================
