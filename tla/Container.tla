----------------------------- MODULE Container -----------------------------
(***************************************************************************)
(* A container of lxcpp: the object in the daemon (ContainerImpl) and the  *)
(* guard process (Guard), which is the parent of the container's init and  *)
(* outlives the daemon.  They exchange messages through the guard's        *)
(* socket.  The daemon may die at any moment and a later one may connect.  *)
(*                                                                         *)
(* Objects are numbered; an object connects once at most, and its number   *)
(* is the peer id the guard knows it by.  What cargo-ipc does when a       *)
(* client starts again is not in the repository: an object is started once *)
(* at most, and as the zones do it connects first.  There is one guard at  *)
(* a time: nobody starts the container again in the moment a guard that    *)
(* was forked has no socket yet.                                           *)
(*                                                                         *)
(* cargo-ipc is modelled from its use: messages of one connection arrive   *)
(* in order, what was sent before a connection closed may be read after,   *)
(* and an exception of a handler comes back as an error.  A poll reports   *)
(* events in the order they came, so that of a closed connection before    *)
(* those of a later one.                                                   *)
(***************************************************************************)
EXTENDS Integers, SequencesExt

CONSTANTS
  MaxHosts,     \* a bound on the number of objects, one after another
  Failures      \* what may fail: "configure": start() throws; "spawn": the
                \* guard ends before it serves; "prep": onStart throws before
                \* clone(); "clone": after it; "cleanup": containerCleanup()
                \* throws in the guard; "hostCleanup": in the object

Hosts == 1..MaxHosts
NoPeer == 0
States == {"STOPPED", "STARTING", "RUNNING", "STOPPING", "CONNECTING"}

ASSUME MaxHostsAssumption == MaxHosts \in Nat
ASSUME FailuresAssumption == Failures \subseteq
  {"configure", "spawn", "prep", "clone", "cleanup", "hostCleanup"}

\* A configuration is a message, of which the state in it matters: to the guard
\* METHOD_SET_CONFIG, from the guard METHOD_GUARD_CONNECTED.  "PID" and "ERROR"
\* are the results of METHOD_START.
ToGuard == States \cup {"START", "STOP"}
ToHost  == States \cup {"GUARD_READY", "PID", "ERROR", "INIT_STOPPED"}

VARIABLES
  host,      \* the number of the last object
  mState,    \* its mConfig->mState; "none": the daemon is down
  mExitStatus, \* init's exit status is in its mConfig
  created,   \* inotify has told, or will tell it, that the socket was created
  stopping,  \* its stop() is about to send METHOD_STOP
  toHost,    \* messages to it
  guard,     \* "none"; "forked"; "serving"; "gone"
  mConfig,   \* the state in the guard's mConfig; "none": no mConfig yet
  mPeerID,
  init,      \* "none"; "running"; "zombie": it exited; "reaped"; "lost": the
             \* clean-up after it threw
  peer,      \* of each object: "none"; "opened": connected, unknown to the
             \* guard; "accepted"; "removed"
  toGuard    \* messages from each object

hostVars  == <<host, mState, mExitStatus, created, stopping>>
guardVars == <<guard, mConfig, mPeerID, init>>
ipcVars   == <<toHost, peer, toGuard>>
vars      == <<hostVars, guardVars, ipcVars>>

TypeOK ==
  /\ host \in 0..MaxHosts
  /\ mState \in States \cup {"none"}
  /\ mExitStatus \in BOOLEAN
  /\ created \in BOOLEAN
  /\ stopping \in BOOLEAN
  /\ toHost \in Seq(ToHost)
  /\ guard \in {"none", "forked", "serving", "gone"}
  /\ mConfig \in States \cup {"none"}
  /\ mPeerID \in Hosts \cup {NoPeer}
  /\ init \in {"none", "running", "zombie", "reaped", "lost"}
  /\ peer \in [Hosts -> {"none", "opened", "accepted", "removed"}]
  /\ toGuard \in [Hosts -> Seq(ToGuard)]

Init ==
  /\ host = 0
  /\ mState = "none"
  /\ mExitStatus = FALSE
  /\ created = FALSE
  /\ stopping = FALSE
  /\ toHost = <<>>
  /\ guard = "none"
  /\ mConfig = "none"
  /\ mPeerID = NoPeer
  /\ init = "none"
  /\ peer = [h \in Hosts |-> "none"]
  /\ toGuard = [h \in Hosts |-> <<>>]

Alive == mState # "none"
Dead(h) == h # host \/ ~Alive

-----------------------------------------------------------------------------
(* The object in the daemon.                                               *)

Construct ==
  /\ ~Alive /\ host < MaxHosts
  /\ host' = host + 1
  /\ mState' = "STOPPED"
  /\ UNCHANGED <<mExitStatus, created, stopping, guardVars, ipcVars>>

\* The daemon is killed, or the object destroyed.
Vanish ==
  /\ Alive
  /\ mState' = "none"
  /\ mExitStatus' = FALSE
  /\ created' = FALSE
  /\ stopping' = FALSE
  /\ toHost' = <<>>
  /\ UNCHANGED <<host, guardVars, peer, toGuard>>

\* connect(), where there is a socket to connect to.
connect ==
  /\ mState = "STOPPED" /\ guard = "serving" /\ peer[host] = "none"
  /\ mState' = "CONNECTING"
  /\ peer' = [peer EXCEPT ![host] = "opened"]
  /\ UNCHANGED <<host, mExitStatus, created, stopping, guardVars, toHost, toGuard>>

\* start(): a guard is forked; or an exception, and the state is left behind.
start ==
  /\ mState = "STOPPED" /\ guard \in {"none", "gone"} /\ peer[host] = "none"
  /\ mState' = "STARTING"
  /\ \/ /\ guard' = "forked"
        /\ mConfig' = "none" /\ mPeerID' = NoPeer /\ init' = "none"
        /\ peer' = [h \in Hosts |-> IF peer[h] = "none" THEN "none" ELSE "removed"]
     \/ "configure" \in Failures /\ UNCHANGED <<guardVars, peer>>
  /\ UNCHANGED <<host, mExitStatus, created, stopping, toHost, toGuard>>

\* Mutant: it waits for the deletion of the socket.
Mutant_onWorkFileEvent ==
  /\ Alive /\ created
  /\ created' = FALSE
  /\ UNCHANGED <<host, mState, mExitStatus, stopping, guardVars, ipcVars>>

\* mClient->start() does nothing if connect() did it.
onWorkFileEvent ==
  /\ Alive /\ created
  /\ created' = FALSE
  /\ peer' = IF guard = "serving" /\ peer[host] = "none"
               THEN [peer EXCEPT ![host] = "opened"] ELSE peer
  /\ UNCHANGED <<host, mState, mExitStatus, stopping, guardVars, toHost, toGuard>>

\* A message is read.
Receive(m) ==
  /\ toHost # <<>> /\ Head(toHost) = m
  /\ toHost' = Tail(toHost)

onGuardReady ==
  /\ Receive("GUARD_READY")
  /\ toGuard' = [toGuard EXCEPT ![host] = @ \o <<mState, "START">>]
  /\ UNCHANGED <<hostVars, guardVars, peer>>

\* The whole configuration is replaced by the guard's.
onGuardConnected ==
  /\ \E s \in States : Receive(s) /\ mState' = s
  /\ mExitStatus' = FALSE
  /\ UNCHANGED <<host, created, stopping, guardVars, peer, toGuard>>

\* Mutant: the result is not looked at.
Mutant_onInitStarted ==
  /\ (Receive("PID") \/ Receive("ERROR")) /\ mState' = "RUNNING"
  /\ UNCHANGED <<host, mExitStatus, created, stopping, guardVars, peer, toGuard>>

onInitStarted ==
  /\ \/ Receive("PID") /\ mState' = "RUNNING"
     \/ Receive("ERROR") /\ UNCHANGED mState
  /\ UNCHANGED <<host, mExitStatus, created, stopping, guardVars, peer, toGuard>>

\* The exit status is kept, and then the object cleans up.
onInitStopped ==
  /\ Receive("INIT_STOPPED")
  /\ mExitStatus' = TRUE
  /\ mState' = "STOPPED" \/ ("hostCleanup" \in Failures /\ UNCHANGED mState)
  /\ UNCHANGED <<host, created, stopping, guardVars, peer, toGuard>>

\* stop() leaves mStateMutex before it sends the message.
stop ==
  /\ mState = "RUNNING"
  /\ mState' = "STOPPING"
  /\ stopping' = TRUE
  /\ UNCHANGED <<host, mExitStatus, created, guardVars, ipcVars>>

SendStop ==
  /\ stopping
  /\ stopping' = FALSE
  /\ toGuard' = [toGuard EXCEPT ![host] = Append(@, "STOP")]
  /\ UNCHANGED <<host, mState, mExitStatus, created, guardVars, toHost, peer>>

-----------------------------------------------------------------------------
(* The guard: one thread.                                                  *)

\* A message reaches its peer unless that is gone.
Send(h, m) == toHost' = IF h # NoPeer /\ ~Dead(h) THEN Append(toHost, m) ELSE toHost

\* Its socket appears in the directory the object watches; or it ends before,
\* which start() does not notice: it waits for the process between them only.
Serve ==
  /\ guard = "forked"
  /\ \/ guard' = "serving" /\ created' = Alive
     \/ "spawn" \in Failures /\ guard' = "gone" /\ UNCHANGED created
  /\ UNCHANGED <<host, mState, mExitStatus, stopping, mConfig, mPeerID, init, ipcVars>>

\* Mutant: the peer is remembered only by a guard with nothing to report.
Mutant_onConnection(h) ==
  /\ guard = "serving" /\ peer[h] = "opened"
  /\ \A g \in 1..h - 1 : peer[g] \notin {"opened", "accepted"}
  /\ peer' = [peer EXCEPT ![h] = "accepted"]
  /\ mPeerID' = IF mConfig = "none" THEN h ELSE mPeerID
  /\ Send(h, IF mConfig = "none" THEN "GUARD_READY" ELSE mConfig)
  /\ UNCHANGED <<hostVars, guard, mConfig, init, toGuard>>

\* Mutant: a host that connects again is taken for the first one.
Mutant_onReconnection(h) ==
  /\ guard = "serving" /\ peer[h] = "opened"
  /\ \A g \in 1..h - 1 : peer[g] \notin {"opened", "accepted"}
  /\ peer' = [peer EXCEPT ![h] = "accepted"]
  /\ mPeerID' = h
  /\ Send(h, "GUARD_READY")
  /\ UNCHANGED <<hostVars, guard, mConfig, init, toGuard>>

\* Connections are accepted in the order they came.
onConnection(h) ==
  /\ guard = "serving" /\ peer[h] = "opened"
  /\ \A g \in 1..h - 1 : peer[g] \notin {"opened", "accepted"}
  /\ peer' = [peer EXCEPT ![h] = "accepted"]
  /\ mPeerID' = h
  /\ Send(h, IF mConfig = "none" THEN "GUARD_READY" ELSE mConfig)
  /\ UNCHANGED <<hostVars, guard, mConfig, init, toGuard>>

\* What the peer sent and nobody read is lost.
onDisconnection(h) ==
  /\ guard = "serving" /\ peer[h] = "accepted" /\ Dead(h)
  /\ peer' = [peer EXCEPT ![h] = "removed"]
  /\ toGuard' = [toGuard EXCEPT ![h] = <<>>]
  /\ mPeerID' = NoPeer
  /\ UNCHANGED <<hostVars, guard, mConfig, init, toHost>>

Read(h, m) ==
  /\ guard = "serving" /\ peer[h] = "accepted"
  /\ toGuard[h] # <<>> /\ Head(toGuard[h]) = m
  /\ toGuard' = [toGuard EXCEPT ![h] = Tail(@)]

\* Mutant: registered for the other methods too.
Mutant_onSetConfig(h) ==
  /\ \E m \in ToGuard : Read(h, m) /\ mConfig' = m
  /\ UNCHANGED <<hostVars, guard, mPeerID, init, toHost, peer>>

onSetConfig(h) ==
  /\ \E s \in States : Read(h, s) /\ mConfig' = s
  /\ UNCHANGED <<hostVars, guard, mPeerID, init, toHost, peer>>

onStart(h) ==
  /\ Read(h, "START")
  /\ \/ mConfig' = "RUNNING" /\ init' = "running" /\ Send(h, "PID")
     \/ /\ "prep" \in Failures
        /\ mConfig' = "STARTING" /\ UNCHANGED init /\ Send(h, "ERROR")
     \/ /\ "clone" \in Failures      \* the child ends when its channel closes
        /\ mConfig' = "STARTING" /\ init' = "zombie" /\ Send(h, "ERROR")
  /\ UNCHANGED <<hostVars, guard, mPeerID, peer>>

\* Mutant: the signal is not sent.
Mutant_onStop(h) ==
  /\ Read(h, "STOP")
  /\ mConfig' = "STOPPING"
  /\ UNCHANGED <<hostVars, guard, mPeerID, init, toHost, peer>>

onStop(h) ==
  /\ Read(h, "STOP")
  /\ mConfig' = "STOPPING"
  /\ init' = IF init = "running" THEN "zombie" ELSE init
  /\ UNCHANGED <<hostVars, guard, mPeerID, toHost, peer>>

InitExits ==
  /\ init = "running"
  /\ init' = "zombie"
  /\ UNCHANGED <<hostVars, guard, mConfig, mPeerID, ipcVars>>

\* SIGCHLD; the guard cleans up, sends what it has to send, waits for init and
\* ends.  If the clean-up throws the signal is spent; what the poll does with an
\* exception is not in the repository: the guard ends, or goes on.
onInitExit ==
  /\ guard = "serving" /\ init = "zombie"
  /\ \/ /\ init' = "reaped" /\ guard' = "gone"
        /\ mConfig' = "STOPPED"
        /\ Send(mPeerID, "INIT_STOPPED")
     \/ /\ "cleanup" \in Failures
        /\ init' = "lost" /\ guard' \in {"serving", "gone"}
        /\ UNCHANGED <<mConfig, toHost>>
  /\ UNCHANGED <<hostVars, mPeerID, peer, toGuard>>

Handle(h) == onSetConfig(h) \/ onStart(h) \/ onStop(h)

Reply == onGuardReady \/ onGuardConnected \/ onInitStarted \/ onInitStopped

Next ==
  \/ Construct \/ Vanish \/ connect \/ start \/ stop \/ SendStop
  \/ onWorkFileEvent \/ Reply
  \/ Serve \/ InitExits \/ onInitExit
  \/ \E h \in Hosts : onConnection(h) \/ onDisconnection(h) \/ Handle(h)

Spec == Init /\ [][Next]_vars

\* The dispatcher's thread, the thread inside stop() and the guard go on; init
\* exits when it likes.
Fairness ==
  /\ WF_vars(onWorkFileEvent) /\ WF_vars(Reply) /\ WF_vars(SendStop)
  /\ WF_vars(Serve) /\ WF_vars(onInitExit)
  /\ \A h \in Hosts : WF_vars(onConnection(h)) /\ WF_vars(onDisconnection(h)) /\ WF_vars(Handle(h))

FairSpec == Spec /\ Fairness
-----------------------------------------------------------------------------
(* What must hold.                                                         *)

\* An object that is connected to a guard learns that its init exited, whoever
\* started it and however many objects came and went before, unless the guard's
\* clean-up threw: the news is on its way, or the object has the exit status.
ExitReported ==
  init = "reaped" /\ Alive /\ peer[host] = "accepted"
    => "INIT_STOPPED" \in ToSet(toHost) \/ mExitStatus

\* A guard starts one init, whoever connects and reconnects.
OneInit == [][\A h \in Hosts : onStart(h) => init = "none"]_vars

\* The clean-up of the guard, or of the object, threw.
CleanupThrew == init = "lost" \/ (mExitStatus /\ mState # "STOPPED")

\* stop() is followed by STOPPED, also if init exits by itself meanwhile, unless
\* a clean-up throws.
StopEnds == mState = "STOPPING" ~> mState # "STOPPING" \/ CleanupThrew

\* onStart threw before there was an init: nothing tells the guard to end.
Stuck == guard = "serving" /\ mConfig = "STARTING" /\ init = "none" /\ toGuard[host] = <<>>

\* The guard ended before it served.
Stillborn == guard = "gone" /\ mConfig = "none"

\* start() is followed by RUNNING or STOPPED, unless preparations or a clean-up
\* fail or the guard never serves: then, and only then, nobody tells the object.
StartEnds ==
  mState = "STARTING" /\ guard = "forked"
    ~> mState # "STARTING" \/ Stuck \/ Stillborn \/ CleanupThrew

\* "Host is connecting to a RUNNING container. Guard passes info about the
\* started Init": a state is sent to a host only when there is, or was, an init.
ConnectedToStarted == ToSet(toHost) \cap States # {} => init # "none"

InitLife ==
  IF guard = "none" THEN "off"
  ELSE CASE init = "none" -> "starting"
         [] init \in {"running", "zombie"} -> "up"
         [] init \in {"reaped", "lost"} -> "down"

Life == INSTANCE ContainerLife WITH life <- InitLife, shown <- mState

\* The state of the object follows the life of init, through reconnections and
\* whatever happens while messages are on their way.
LifeSpec == Life!Spec
=============================================================================
