---------------------------- MODULE FrontProofs -----------------------------
(***************************************************************************)
(* Proofs about what stands between the zones and their users, for any     *)
(* commands, clients, threads, devices and times: the command line, the    *)
(* connections, the client library, the key that switches zones, the       *)
(* requests about files and devices, and the provisions.                   *)
(***************************************************************************)
EXTENDS CommandLine, BusConnection, Client, InputMonitor, ZoneRequests, ZoneProvision, SequenceLemmas

-----------------------------------------------------------------------------
(* The command line: what vsm tells its user of failures and of the lock   *)
(* of the daemon's queue holds, whenever the daemon dies or comes back.    *)

\* A pipe's first failure is its last command, and what main returns.
FailureStops ==
  (vsmFailed /\ invocation = "pipe") => vsm \in {"leave", "ended"} /\ rc = "EXIT_FAILURE"

\* A session that locked the queue holds the lock, or its connection is dead.
LockHeldOrDead ==
  (vsmLocked /\ vsm \in {"main", "read", "run", "exec"}) => queueLock = "vsm" \/ vsmClient = "dead"

\* The lock is held over a connection that lives.
LockNeedsClient == queueLock = "vsm" => vsmClient = "live"

SessionInv ==
  /\ CommandLineTypeOK
  /\ FailureStops
  /\ LockHeldOrDead
  /\ LockNeedsClient

\* The number of calls a command makes is a number.
LEMMA CallsAreCounted ==
  ASSUME NEW l \in CommandLines
  PROVE  CallsOf(l) \in Nat
  BY CommandLineAssumption DEF CallsOf, StatusCalls, NetListCalls

\* A line that is over, whatever its answer, keeps the type and the promise of a pipe.
LEMMA EndedLine ==
  ASSUME SessionInv, NEW answer \in {"EXIT_SUCCESS", "EXIT_FAILURE"}, CommandEnds(answer),
         vsm \in {"main", "read", "run", "exec"}, UNCHANGED invocation
  PROVE  /\ vsm' \in {"leave", "read"}
         /\ currentLine' \in CommandLines \cup {NoLine} /\ callsLeft' \in Nat
         /\ rc' \in {"EXIT_SUCCESS", "EXIT_FAILURE"} /\ vsmFailed' \in BOOLEAN
         /\ FailureStops'
  BY DEF SessionInv, CommandLineTypeOK, FailureStops, CommandEnds, NextStep, interactiveMode

LEMMA CommandLineInitHolds == CommandLineInit => SessionInv
<1> SUFFICES ASSUME CommandLineInit PROVE SessionInv
  OBVIOUS
<1>1. 0 \in 0 .. MaxLines
  BY CommandLineAssumption
<1>2. CommandLineTypeOK
  BY <1>1 DEF CommandLineInit, CommandLineTypeOK
<1>3. FailureStops /\ LockHeldOrDead /\ LockNeedsClient
  BY DEF CommandLineInit, FailureStops, LockHeldOrDead, LockNeedsClient
<1>4. QED
  BY <1>2, <1>3 DEF SessionInv

LEMMA StepKeeps == SessionInv /\ [CommandLineNext]_commandLineVars => SessionInv'
<1> SUFFICES ASSUME SessionInv, [CommandLineNext]_commandLineVars PROVE SessionInv'
  OBVIOUS
<1> USE DEF SessionInv, CommandLineTypeOK, FailureStops, LockHeldOrDead, LockNeedsClient
<1>1. CASE UNCHANGED commandLineVars
  BY <1>1 DEF commandLineVars
<1>2. CASE CommandLineNext
  <2>1. ASSUME NEW b \in BOOLEAN, ProcessStream(b) PROVE SessionInv'
    BY <2>1 DEF ProcessStream, connected
  <2>2. ASSUME NEW b \in BOOLEAN, executeCallback(b) PROVE SessionInv'
    <3>1. vsm = "run" /\ vsmClient' = connected /\ UNCHANGED <<invocation, daemonUp, linesRead>>
      BY <2>2 DEF executeCallback
    <3>2. connected \in {"none", "live", "dead"} /\ (vsmClient # "none" => connected = vsmClient)
      BY DEF connected
    <3>3. CASE CommandEnds("EXIT_FAILURE") /\ UNCHANGED <<queueLock, vsmLocked>>
      BY <3>1, <3>2, <3>3, EndedLine
    <3>4. CASE /\ b /\ connected = "live" /\ Allowed /\ CallMade
               /\ queueLock' = IF currentLine.cmd \in QueueCommands THEN LockAfter ELSE queueLock
               /\ vsmLocked' = IF currentLine.cmd \in QueueCommands
                               THEN LockAfter = "vsm" ELSE vsmLocked
      <4>1. ~(vsmFailed /\ invocation = "pipe")
        BY <3>1
      <4>2. /\ vsm' \in {"run", "exec", "leave", "read"}
            /\ currentLine' \in CommandLines \cup {NoLine} /\ callsLeft' \in Nat
            /\ rc' \in {"EXIT_SUCCESS", "EXIT_FAILURE"} /\ vsmFailed' \in BOOLEAN
            /\ FailureStops'
        <5>1. CASE callsLeft > 1 /\ callsLeft' = callsLeft - 1
                   /\ UNCHANGED <<vsm, currentLine, rc, vsmFailed>>
          BY <5>1, <3>1, <4>1
        <5>2. CASE vsm' = "exec" /\ callsLeft' = 0 /\ UNCHANGED <<currentLine, rc, vsmFailed>>
          BY <5>2, <3>1, <4>1
        <5>3. CASE CommandEnds("EXIT_SUCCESS")
          BY <5>3, <3>1, EndedLine
        <5>4. QED
          BY <3>4, <5>1, <5>2, <5>3 DEF CallMade
      <4>3. queueLock' \in {"nobody", "vsm", "other"} /\ vsmLocked' \in BOOLEAN
            /\ LockHeldOrDead' /\ LockNeedsClient'
        BY <3>1, <3>2, <3>4 DEF LockAfter
      <4>4. QED
        BY <3>1, <3>4, <4>2, <4>3
    <3>5. QED
      BY <2>2, <3>3, <3>4 DEF executeCallback
  <2>3. ASSUME NEW b \in BOOLEAN, OthersLock(b) PROVE SessionInv'
    BY <2>3 DEF OthersLock
  <2>4. ASSUME NEW l \in CommandLines, RunLine(l) PROVE SessionInv'
    <3>1. /\ vsm \in {"main", "read"} /\ linesRead < MaxLines /\ linesRead' = linesRead + 1
          /\ UNCHANGED <<invocation, vsmClient, daemonUp, queueLock, vsmLocked>>
      BY <2>4 DEF RunLine, ReadsLines, executeCommand
    <3>2. linesRead' \in 0 .. MaxLines
      BY <3>1, CommandLineAssumption
    <3>3. CASE CommandEnds("EXIT_FAILURE")
      BY <3>1, <3>2, <3>3, EndedLine
    <3>4. CASE /\ currentLine' = l /\ callsLeft' = CallsOf(l)
               /\ vsm' = IF Prepared(l) = "terminates" THEN "terminated" ELSE "run"
               /\ UNCHANGED <<rc, vsmFailed>>
      BY <3>1, <3>2, <3>4, CallsAreCounted
    <3>5. QED
      BY <2>4, <3>3, <3>4 DEF RunLine, executeCommand
  <2>5. ASSUME NEW kind \in OtherLines, ReadOther(kind) PROVE SessionInv'
    <3>1. /\ vsm \in {"main", "read"} /\ linesRead < MaxLines /\ linesRead' = linesRead + 1
          /\ UNCHANGED <<invocation, vsmClient, daemonUp, queueLock, vsmLocked>>
      BY <2>5 DEF ReadOther, ReadsLines
    <3>2. linesRead' \in 0 .. MaxLines
      BY <3>1, CommandLineAssumption
    <3>3. CASE CommandEnds("EXIT_FAILURE") \/ CommandEnds("EXIT_SUCCESS")
      BY <3>1, <3>2, <3>3, EndedLine
    <3>4. CASE /\ vsm = "read" /\ vsm' \in {"read", "terminated"}
               /\ UNCHANGED <<currentLine, callsLeft, rc, vsmFailed>>
      BY <3>1, <3>2, <3>4
    <3>5. QED
      BY <2>5, <3>3, <3>4 DEF ReadOther
  <2>6. ASSUME EndOfInput \/ CompleteLine PROVE SessionInv'
    BY <2>6 DEF EndOfInput, CompleteLine
  <2>7. ASSUME LeaveVsm \/ CollapseVsm PROVE SessionInv'
    BY <2>7 DEF LeaveVsm, CollapseVsm, Disconnected
  <2>8. ASSUME NEW running \in BOOLEAN, NEW execs \in BOOLEAN, NEW keeps \in BOOLEAN,
               ConsoleZone(running, execs, keeps) PROVE SessionInv'
    <3>1. vsm = "exec" /\ UNCHANGED <<invocation, daemonUp, linesRead, vsmLocked>>
      BY <2>8 DEF ConsoleZone
    <3>2. CASE /\ CommandEnds("EXIT_FAILURE") \/ CommandEnds("EXIT_SUCCESS")
               /\ UNCHANGED <<vsmClient, queueLock>>
      BY <3>1, <3>2, EndedLine
    <3>3. CASE /\ vsm' = "replaced"
               /\ vsmClient' = IF keeps THEN vsmClient ELSE "none"
               /\ queueLock' = IF queueLock = "vsm" /\ ~keeps THEN "nobody" ELSE queueLock
               /\ UNCHANGED <<currentLine, callsLeft, rc, vsmFailed>>
      BY <3>1, <3>3
    <3>4. QED
      BY <2>8, <3>2, <3>3 DEF ConsoleZone
  <2>9. ASSUME DaemonDies \/ DaemonReturns PROVE SessionInv'
    <3>1. CASE DaemonDies
      <4>1. LockHeldOrDead'
        BY <3>1 DEF DaemonDies
      <4>2. QED
        BY <3>1, <4>1 DEF DaemonDies
    <3>2. CASE DaemonReturns
      <4>1. CommandLineTypeOK'
        BY <3>2 DEF DaemonReturns
      <4>2. FailureStops' /\ LockHeldOrDead' /\ LockNeedsClient'
        BY <3>2 DEF DaemonReturns
      <4>3. QED
        BY <4>1, <4>2
    <3>3. QED
      BY <2>9, <3>1, <3>2
  <2>10. QED
    <3> HIDE DEF SessionInv
    <3>1. QED
      BY <1>2, <2>1, <2>2, <2>3, <2>4, <2>5, <2>6, <2>7, <2>8, <2>9 DEF CommandLineNext
<1>3. QED
  BY <1>1, <1>2

\* The invariant is inductive.
THEOREM SessionInvariant == CommandLineSpec => []SessionInv
<1>1. CommandLineInit => SessionInv
  BY CommandLineInitHolds
<1>2. SessionInv /\ [CommandLineNext]_commandLineVars => SessionInv'
  BY StepKeeps
<1>3. QED
  BY <1>1, <1>2, PTL DEF CommandLineSpec

\* A script that ended well had no command that failed, and a session that was told that it
\* locked the queue has the lock or fails: CommandLineInterface's one connection, which is
\* never replaced, and processStream's first failure.
THEOREM SessionIsTruthful == CommandLineSpec => []SessionTruthful
<1>1. SessionInv => SessionTruthful
  BY DEF SessionInv, FailureStops, LockHeldOrDead, LockNeedsClient, SessionTruthful
<1>2. QED
  BY <1>1, SessionInvariant, PTL

-----------------------------------------------------------------------------
(* The connections: no client that is gone keeps the lock of the queue,    *)
(* and nothing calls back into what the connection's destructor took away. *)

WatchOf(c) == <<"watch", c>>
ReplyOf(c) == <<"reply", c>>

\* mWatchedClients and the watches that glib holds are the same, until closeConnection.
WatchesKnown ==
  ~connectionClosed => \A c \in BusClients : c \in mWatchedClients <=> WatchOf(c) \in busCallbacks

\* The lock is held by a client of the bus that is watched, or by one of the IPC that lives.
LeaseWatched ==
  /\ (leaseHolder \in BusClients /\ ~connectionClosed) => leaseHolder \in mWatchedClients
  /\ leaseHolder \in IpcClients => leaseHolder \in clientUp

\* The object comes after the name; the owner is past its constructor only with both.
ObjectNamed ==
  /\ TheObject \in busCallbacks => mNameAcquired
  /\ ownerAt = "register" => mNameAcquired

\* A call that was passed on is answered by a callback of its own.
OwedAnswered == \A c \in owed : ReplyOf(c) \in busCallbacks

\* Before the connection is made, and after it was freed, there is nothing to call back.
NothingLeft ==
  /\ ownerAt \in {"create", "threw"} => busCallbacks = {} /\ mWatchedClients = {} /\ busName = "unasked"
  /\ ownerAt = "closed" => busCallbacks = {}

\* The zone daemon's connection has calls of its own kind only, and no lock.
ZoneHasNoLock ==
  side = "zone" => leaseHolder = NoClient /\ \A c \in BusClients : calling[c] \in {"none", "focus"}

ConnectionInv ==
  /\ BusTypeOK
  /\ WatchesKnown
  /\ LeaseWatched
  /\ ObjectNamed
  /\ OwedAnswered
  /\ NothingLeft
  /\ ZoneHasNoLock

\* What the names of the callbacks tell apart.
LEMMA CallbacksDiffer ==
  /\ {TheName, TheObject, TheSignal} \subseteq BusCallbacks
  /\ TheName # TheObject /\ TheSignal # TheObject /\ TheSignal # TheName
  /\ \A c \in BusClients :
       /\ WatchOf(c) \notin {TheName, TheObject, TheSignal} /\ WatchOf(c) \in BusCallbacks
       /\ ReplyOf(c) \notin {TheName, TheObject, TheSignal} /\ ReplyOf(c) \in BusCallbacks
       /\ \A d \in BusClients :
            /\ WatchOf(c) # ReplyOf(d)
            /\ WatchOf(c) = WatchOf(d) => c = d
            /\ ReplyOf(c) = ReplyOf(d) => c = d
  BY DEF WatchOf, ReplyOf, TheName, TheObject, TheSignal, BusCallbacks

\* What closeConnection takes away.
LEMMA WatchesTaken ==
  \A c \in BusClients : ReplyOf(c) \notin {TheName} \cup ({"watch"} \X BusClients)
  BY DEF ReplyOf, TheName

LEMMA ConnectionInitHolds == BusInit => ConnectionInv
<1> SUFFICES ASSUME BusInit PROVE ConnectionInv
  OBVIOUS
<1>1. BusTypeOK
  <2>1. 0 \in 0 .. MaxBusCalls
    BY BusAssumption
  <2>2. calling \in [BusClients -> {"none"} \cup OwnCalls \cup TaskCalls \cup FocusCalls]
    BY DEF BusInit
  <2>3. QED
    BY <2>1, <2>2 DEF BusInit, BusTypeOK
<1>2. WatchesKnown /\ ObjectNamed /\ OwedAnswered /\ NothingLeft
  BY DEF BusInit, WatchesKnown, ObjectNamed, OwedAnswered, NothingLeft
<1>3. LeaseWatched /\ ZoneHasNoLock
  BY BusAssumption DEF BusInit, LeaseWatched, ZoneHasNoLock
<1>4. QED
  BY <1>1, <1>2, <1>3 DEF ConnectionInv

\* The owner's thread.
LEMMA OwnerStep ==
  ASSUME ConnectionInv,
         \/ \E b \in BOOLEAN : CreateConnection(b) \/ registerObject(b)
         \/ waitForName \/ signalSubscribe \/ StartOwner \/ StopOwner \/ DestroyOwner \/ GuardOpens
  PROVE  ConnectionInv'
<1> USE DEF ConnectionInv, BusTypeOK, WatchesKnown, LeaseWatched, ObjectNamed, OwedAnswered,
            NothingLeft, ZoneHasNoLock, OwnerOnly
<1>1. ASSUME NEW b \in BOOLEAN, CreateConnection(b) PROVE ConnectionInv'
  BY <1>1, CallbacksDiffer DEF CreateConnection
<1>2. ASSUME NEW b \in BOOLEAN, registerObject(b) PROVE ConnectionInv'
  BY <1>2, CallbacksDiffer DEF registerObject
<1>3. CASE waitForName
  BY <1>3 DEF waitForName, AfterWait
<1>4. CASE signalSubscribe
  BY <1>4, CallbacksDiffer DEF signalSubscribe
<1>5. CASE StartOwner \/ StopOwner
  BY <1>5 DEF StartOwner, StopOwner
<1>6. CASE DestroyOwner
  BY <1>6, CallbacksDiffer DEF DestroyOwner
<1>7. CASE GuardOpens
  BY <1>7 DEF GuardOpens
<1>8. QED
  <2> HIDE DEF ConnectionInv
  <2>1. QED
    BY <1>1, <1>2, <1>3, <1>4, <1>5, <1>6, <1>7

\* The name, and the end of the connection.
LEMMA NameStep ==
  ASSUME ConnectionInv, onNameAcquired \/ onNameLost \/ closeConnection \/ ConnectionFreed
  PROVE  ConnectionInv'
<1> USE DEF ConnectionInv, BusTypeOK, WatchesKnown, LeaseWatched, ObjectNamed, OwedAnswered,
            NothingLeft, ZoneHasNoLock
<1>1. CASE onNameAcquired
  BY <1>1 DEF onNameAcquired, OnName, LoopRuns
<1>2. CASE onNameLost
  BY <1>2 DEF onNameLost, OnName, LoopRuns
<1>3. CASE closeConnection
  BY <1>3, WatchesTaken DEF closeConnection
<1>4. CASE ConnectionFreed
  <2>1. owed = {}
    BY <1>4, CallbacksDiffer DEF ConnectionFreed
  <2>2. QED
    BY <1>4, <2>1 DEF ConnectionFreed
<1>5. QED
  BY <1>1, <1>2, <1>3, <1>4

\* A call: the client is watched before its call may take the lock.
LEMMA MethodStep ==
  ASSUME ConnectionInv, NEW c \in BusClients, NEW passes \in BOOLEAN, onMethodCall(c, passes)
  PROVE  ConnectionInv'
<1> USE DEF ConnectionInv, BusTypeOK, WatchesKnown, LeaseWatched, ObjectNamed, OwedAnswered,
            NothingLeft, ZoneHasNoLock
<1>1. /\ LoopRuns /\ calling[c] # "none" /\ calling' = [calling EXCEPT ![c] = "none"]
      /\ UNCHANGED <<side, busName, mNameAcquired, mNameLost, connectionClosed, clientUp, busCalls>>
  BY DEF onMethodCall
<1>2. CASE UNCHANGED <<ownerAt, busCallbacks, mWatchedClients, owed, leaseHolder>>
  BY <1>1, <1>2
<1>3. CASE TheObject \in busCallbacks
  <2> DEFINE passed == Proxied(calling[c], passes)
  <2>1. /\ mWatchedClients' = mWatchedClients \cup {c}
        /\ busCallbacks' = busCallbacks \cup (IF c \in mWatchedClients THEN {} ELSE {WatchOf(c)})
                             \cup (IF passed THEN {ReplyOf(c)} ELSE {})
        /\ owed' = IF passed THEN owed \cup {c} ELSE owed
        /\ leaseHolder' = LockAnswer(c, calling[c])
        /\ ownerAt' = IF Fatal(calling[c]) THEN "crashed" ELSE ownerAt
    BY <1>3 DEF onMethodCall, WatchOf, ReplyOf
  <2> HIDE DEF passed
  <2>2. leaseHolder' \in {c, NoClient, leaseHolder} /\ (side = "zone" => leaseHolder' = leaseHolder)
    BY <1>1, <2>1 DEF LockAnswer
  <2>3. BusTypeOK'
    BY <1>1, <2>1, <2>2, CallbacksDiffer DEF AllClients
  <2>4. WatchesKnown'
    <3>1. \A d \in BusClients : WatchOf(d) # ReplyOf(c) /\ (WatchOf(d) = WatchOf(c) => d = c)
      BY CallbacksDiffer DEF WatchOf, ReplyOf
    <3>2. ~connectionClosed =>
            \A d \in BusClients : WatchOf(d) \in busCallbacks' <=> WatchOf(d) \in busCallbacks \/ d = c
      BY <2>1, <3>1
    <3>3. QED
      BY <1>1, <2>1, <3>2
  <2>5. LeaseWatched'
    BY <1>1, <2>1, <2>2, BusAssumption
  <2>6. ObjectNamed' /\ OwedAnswered'
    BY <1>1, <1>3, <2>1
  <2>7. NothingLeft' /\ ZoneHasNoLock'
    BY <1>1, <1>3, <2>1, <2>2 DEF LoopRuns
  <2>8. QED
    BY <2>3, <2>4, <2>5, <2>6, <2>7
<1>4. QED
  BY <1>2, <1>3 DEF onMethodCall

\* An answer, and the end of a client of the bus.
LEMMA CallbackStep ==
  ASSUME ConnectionInv, NEW c \in BusClients, onAsyncReady(c) \/ onClientVanish(c)
  PROVE  ConnectionInv'
<1> USE DEF ConnectionInv, BusTypeOK, WatchesKnown, LeaseWatched, ObjectNamed, OwedAnswered,
            NothingLeft, ZoneHasNoLock, LoopRuns
<1>0. \A d \in BusClients :
         /\ ReplyOf(d) # WatchOf(c) /\ ReplyOf(c) # WatchOf(d)
         /\ WatchOf(d) = WatchOf(c) => d = c
         /\ ReplyOf(d) = ReplyOf(c) => d = c
  BY CallbacksDiffer
<1>1. CASE onAsyncReady(c)
  <2>1. /\ busCallbacks' = busCallbacks \ {ReplyOf(c)} /\ owed' = owed \ {c} /\ busCallbacks # {}
        /\ UNCHANGED <<side, ownerAt, busName, mNameAcquired, mNameLost, mWatchedClients,
                       connectionClosed, clientUp, calling, leaseHolder, busCalls>>
    BY <1>1 DEF onAsyncReady, ReplyOf
  <2>2. BusTypeOK' /\ WatchesKnown'
    BY <2>1, <1>0 DEF WatchOf, ReplyOf
  <2>3. OwedAnswered'
    BY <2>1, <1>0 DEF WatchOf, ReplyOf
  <2>4. LeaseWatched' /\ ObjectNamed' /\ NothingLeft' /\ ZoneHasNoLock'
    BY <2>1
  <2>5. QED
    BY <2>2, <2>3, <2>4
<1>2. CASE onClientVanish(c)
  <2>1. /\ busCallbacks' = busCallbacks \ {WatchOf(c)} /\ busCallbacks # {}
        /\ ownerAt \notin {"create", "threw"}
        /\ mWatchedClients' = mWatchedClients \ {c}
        /\ leaseHolder' = IF side = "host" THEN disconnected(c) ELSE leaseHolder
        /\ UNCHANGED <<side, ownerAt, busName, mNameAcquired, mNameLost, connectionClosed, clientUp,
                       calling, owed, busCalls>>
    BY <1>2 DEF onClientVanish, WatchOf
  <2>2. leaseHolder' \in {leaseHolder, NoClient} /\ leaseHolder' # c
    BY <2>1, BusAssumption DEF disconnected
  <2>3. BusTypeOK'
    BY <2>1, <2>2
  <2>4. WatchesKnown'
    BY <2>1, <1>0 DEF WatchOf, ReplyOf
  <2>5. LeaseWatched'
    BY <2>1, <2>2, BusAssumption
  <2>6. ObjectNamed' /\ NothingLeft' /\ ZoneHasNoLock'
    BY <2>1, <2>2
  <2>7. OwedAnswered'
    BY <2>1, <1>0 DEF WatchOf, ReplyOf
  <2>8. QED
    BY <2>3, <2>4, <2>5, <2>6, <2>7
<1>3. QED
  BY <1>1, <1>2

\* The clients of both doors.
LEMMA ClientStep ==
  ASSUME ConnectionInv,
         \/ \E c \in BusClients, kind \in CallKinds : BusCall(c, kind)
         \/ \E c \in IpcClients, kind \in CallKinds : IpcCall(c, kind)
         \/ \E c \in AllClients : ClientEnds(c)
  PROVE  ConnectionInv'
<1> USE DEF ConnectionInv, BusTypeOK, WatchesKnown, LeaseWatched, ObjectNamed, OwedAnswered,
            NothingLeft, ZoneHasNoLock, ClientOnly
<1>1. ASSUME NEW c \in BusClients, NEW kind \in CallKinds, BusCall(c, kind) PROVE ConnectionInv'
  <2>1. kind \in OwnCalls \cup TaskCalls \cup FocusCalls /\ (side = "zone" => kind = "focus")
    BY DEF CallKinds, FocusCalls
  <2>2. busCalls' \in 0 .. MaxBusCalls
    BY <1>1, BusAssumption DEF BusCall
  <2>3. QED
    BY <1>1, <2>1, <2>2 DEF BusCall
<1>2. ASSUME NEW c \in IpcClients, NEW kind \in CallKinds, IpcCall(c, kind) PROVE ConnectionInv'
  <2>1. leaseHolder' \in {c, NoClient, leaseHolder} /\ c \in clientUp /\ side = "host"
    BY <1>2 DEF IpcCall, LockAnswer
  <2>2. busCalls' \in 0 .. MaxBusCalls
    BY <1>2, BusAssumption DEF IpcCall
  <2>3. QED
    BY <1>2, <2>1, <2>2, BusAssumption DEF IpcCall, AllClients
<1>3. ASSUME NEW c \in AllClients, ClientEnds(c) PROVE ConnectionInv'
  <2>1. /\ leaseHolder' \in {leaseHolder, NoClient}
        /\ c \in IpcClients => leaseHolder' # c
        /\ clientUp' = clientUp \ {c}
    BY <1>3, BusAssumption DEF ClientEnds, disconnected
  <2>2. QED
    BY <1>3, <2>1, BusAssumption DEF ClientEnds, AllClients
<1>4. QED
  BY <1>1, <1>2, <1>3

\* The invariant is inductive.
THEOREM ConnectionInvariant == BusSpec => []ConnectionInv
<1>1. BusInit => ConnectionInv
  BY ConnectionInitHolds
<1>2. ConnectionInv /\ [BusNext]_busVars => ConnectionInv'
  <2> SUFFICES ASSUME ConnectionInv, [BusNext]_busVars PROVE ConnectionInv'
    OBVIOUS
  <2>1. CASE UNCHANGED busVars
    BY <2>1 DEF busVars, ConnectionInv, BusTypeOK, WatchesKnown, LeaseWatched, ObjectNamed,
                OwedAnswered, NothingLeft, ZoneHasNoLock
  <2>2. CASE BusNext
    BY <2>2, OwnerStep, NameStep, MethodStep, CallbackStep, ClientStep DEF BusNext
  <2>3. QED
    BY <2>1, <2>2
<1>3. QED
  BY <1>1, <1>2, PTL DEF BusSpec

\* The lock of the queue is never left with a client that is gone and unwatched, a call that
\* was passed on has its answer to come, and the destructor leaves nothing that calls back:
\* onMethodCall watches before it serves, and mGuard waits for every callback.
THEOREM BusIsSound == BusSpec => []BusSound
<1>1. ConnectionInv => BusSound
  <2> SUFFICES ASSUME ConnectionInv PROVE BusSound
    OBVIOUS
  <2>1. LeaseFollowsClient
    BY DEF ConnectionInv, BusTypeOK, WatchesKnown, LeaseWatched, WatchOf, LeaseFollowsClient,
           AllClients
  <2>2. CallbacksOwned
    BY DEF ConnectionInv, BusTypeOK, ObjectNamed, OwedAnswered, NothingLeft, ReplyOf,
           CallbacksOwned
  <2>3. QED
    BY <2>1, <2>2 DEF BusSound
<1>2. QED
  BY <1>1, ConnectionInvariant, PTL

-----------------------------------------------------------------------------
(* The client library: a status that a function returns is its own or that *)
(* of a call that overlapped it, though coverException writes it without   *)
(* the lock and unlocks what another thread may have locked.               *)

Busy(t) == caller[t].at # "idle"

\* Every call that is made now may be the one whose status another reads.
OverlapsKnown ==
  \A t, u \in Callers : Busy(t) /\ Busy(u) => caller[u].own \in ended[t]

\* A status that is read was written since the reader began.
StatusFresh == \A t \in Callers : caller[t].at = "read" => mStatus \in ended[t]

\* Who is between the lock and its unlock, if nothing threw, has the lock and finds its status.
LockServes ==
  /\ (\A t \in Callers : ~Busy(t)) => mStatusMutex = "free"
  /\ ~anyThrew => \A t \in Callers :
       /\ caller[t].at \in {"set", "read", "unlock"} <=> mStatusMutex = t
       /\ caller[t].at = "read" => mStatus = caller[t].own
       /\ caller[t].at = "unlock" => OwnStatus(t)

CallInv ==
  /\ ClientTypeOK
  /\ OverlapsKnown
  /\ StatusFresh
  /\ StatusNotStale
  /\ LockServes

Throwables ==
  {"nothing", "IOException", "IPCException", "OperationFailedException", "InvalidArgumentException",
   "InvalidResponseException", "ClientException", "IPCUserException", "std::exception"}

\* coverException has a clause for whatever a function's work throws.
LEMMA ThrownKnown == ServerCalls \subseteq Throwables /\ LocalCalls \subseteq Throwables
<1>1. Thrown(QueueCalls) \subseteq Throwables
  BY DEF Thrown, QueueCalls, CallSync, Throwables
<1>2. Thrown(ZoneCalls) \subseteq Throwables
  BY DEF Thrown, ZoneCalls, CallSync, Argument, Throwables
<1>3. Thrown(StateCalls) \subseteq Throwables
  BY DEF Thrown, StateCalls, CallSync, Argument, Throwables
<1>4. Thrown(AddressCalls) \subseteq Throwables
  BY DEF Thrown, AddressCalls, CallSync, Argument, Throwables
<1>5. Thrown(NetdevCalls) \subseteq Throwables
  BY DEF Thrown, NetdevCalls, CallSync, Argument, Throwables
<1>6. Thrown(DeviceCalls) \subseteq Throwables
  BY DEF Thrown, DeviceCalls, CallSync, Argument, Throwables
<1>7. Thrown(DeclarationCalls) \subseteq Throwables
  BY DEF Thrown, DeclarationCalls, CallSync, Argument, Throwables
<1>8. LocalCalls \subseteq Throwables
  BY DEF LocalCalls, vsm_lookup_zone_by_pid, vsm_get_poll_fd, vsm_get_dispatcher_type,
         vsm_enter_eventloop, Throwables
<1>9. QED
  BY <1>1, <1>2, <1>3, <1>4, <1>5, <1>6, <1>7, <1>8 DEF ServerCalls

LEMMA StatusKnown ==
  ASSUME NEW thrown \in Throwables
  PROVE  StatusOf(thrown) \in Statuses
  BY DEF StatusOf, Throwables, Statuses

LEMMA CallInitHolds == ClientInit => CallInv
<1> SUFFICES ASSUME ClientInit PROVE CallInv
  OBVIOUS
<1>1. NoStatus \in StatusSpace /\ 0 \in 0 .. MaxClientCalls
  BY ClientAssumption DEF StatusSpace
<1>2. \A t \in Callers : caller[t].at = "idle"
  BY DEF ClientInit
<1>3. ClientTypeOK
  BY <1>1 DEF ClientInit, ClientTypeOK
<1>4. LockServes
  <2>1. mStatusMutex = "free" /\ \A t \in Callers : mStatusMutex # t
    BY ClientAssumption DEF ClientInit
  <2>2. QED
    BY <1>2, <2>1 DEF LockServes
<1>5. QED
  BY <1>2, <1>3, <1>4 DEF CallInv, OverlapsKnown, StatusFresh, StatusNotStale, Busy

\* A call begins, and overlaps all that are being made.
LEMMA BeganKeeps ==
  ASSUME CallInv, NEW t \in Callers, NEW thrown \in Throwables, IdleCaller(t), Began(t, thrown),
         mClient' \in {"none", "stopped", "started"},
         mDispatcher' \in {"none", "internal", "external"}
  PROVE  CallInv'
<1> DEFINE own == [status |-> StatusOf(thrown), by |-> t, nth |-> caller[t].calls + 1]
           others == {caller[v].own : v \in {w \in Callers \ {t} : caller[w].at # "idle"}}
<1>1. caller \in [Callers -> [at : {"idle", "lock", "set", "read", "unlock"},
                              calls : 0 .. MaxClientCalls, own : StatusSpace]]
  BY DEF CallInv, ClientTypeOK
<1>2. caller[t].calls + 1 \in 1 .. MaxClientCalls /\ caller[t].at = "idle"
  BY <1>1, ClientAssumption DEF IdleCaller
<1>3. own \in CallOutcomes(t)
  BY <1>2, StatusKnown DEF CallOutcomes
<1>4. own \in StatusSpace
  BY <1>3 DEF StatusSpace
<1>5. PICK at0 \in {"lock", "set"} :
        /\ caller' = [caller EXCEPT ![t] = [at |-> at0, calls |-> @.calls + 1, own |-> own]]
        /\ thrown = "nothing" => at0 = "lock"
  BY DEF Began
<1>6. ended' = [u \in Callers |-> IF u = t THEN {own} \cup others
                                  ELSE IF caller[u].at = "idle" THEN {} ELSE ended[u] \cup {own}]
  BY DEF Began
<1>7. UNCHANGED <<mStatus, mStatusMutex, returned>> /\ anyThrew' \in BOOLEAN
      /\ (~anyThrew' => thrown = "nothing" /\ (~anyThrew \/ Alone(t)))
  BY DEF Began
<1> HIDE DEF own
<1>8. /\ \A u \in Callers \ {t} : caller'[u] = caller[u]
      /\ caller'[t].at = at0 /\ caller'[t].own = own /\ caller'[t].calls = caller[t].calls + 1
      /\ caller' \in [Callers -> [at : {"idle", "lock", "set", "read", "unlock"},
                                  calls : 0 .. MaxClientCalls, own : StatusSpace]]
  BY <1>1, <1>2, <1>4, <1>5
<1>9. others \subseteq StatusSpace /\ \A v \in Callers \ {t} : Busy(v) => caller[v].own \in others
  BY <1>1 DEF Busy
<1> HIDE DEF others
<1>10. ClientTypeOK'
  <2>1. ended' \in [Callers -> SUBSET StatusSpace]
    BY <1>4, <1>6, <1>9 DEF CallInv, ClientTypeOK
  <2>2. QED
    BY <1>7, <1>8, <2>1 DEF CallInv, ClientTypeOK
<1>11. OverlapsKnown'
  BY <1>2, <1>6, <1>8, <1>9 DEF CallInv, OverlapsKnown, Busy
<1>12. StatusFresh' /\ StatusNotStale'
  BY <1>6, <1>7, <1>8 DEF CallInv, StatusFresh, StatusNotStale
<1>13. LockServes'
  <2>1. caller'[t].at # "idle"
    BY <1>8
  <2>2. ASSUME ~anyThrew' PROVE at0 = "lock" /\ mStatusMutex # t
    <3>1. at0 = "lock" /\ (~anyThrew \/ Alone(t))
      BY <1>5, <1>7, <2>2
    <3>2. CASE ~anyThrew
      BY <1>2, <3>1, <3>2 DEF CallInv, LockServes
    <3>3. CASE Alone(t)
      <4>1. \A u \in Callers : ~Busy(u)
        BY <1>2, <3>3 DEF Alone, Busy
      <4>2. QED
        BY <3>1, <4>1, ClientAssumption DEF CallInv, LockServes
    <3>4. QED
      BY <3>1, <3>2, <3>3
  <2>3. ASSUME ~anyThrew', NEW u \in Callers \ {t}
        PROVE  /\ caller[u].at \in {"set", "read", "unlock"} <=> mStatusMutex = u
               /\ caller[u].at = "read" => mStatus = caller[u].own
               /\ caller[u].at = "unlock" => OwnStatus(u)
    <3>1. ~anyThrew \/ Alone(t)
      BY <1>7, <2>3
    <3>2. CASE ~anyThrew
      BY <3>2 DEF CallInv, LockServes
    <3>3. CASE Alone(t)
      <4>1. caller[u].at = "idle" /\ \A v \in Callers : ~Busy(v)
        BY <1>2, <3>3 DEF Alone, Busy
      <4>2. mStatusMutex = "free" /\ mStatusMutex # u
        BY <4>1, ClientAssumption DEF CallInv, LockServes
      <4>3. QED
        BY <4>1, <4>2
    <3>4. QED
      BY <3>1, <3>2, <3>3
  <2>4. ASSUME ~anyThrew', NEW u \in Callers
        PROVE  /\ caller'[u].at \in {"set", "read", "unlock"} <=> mStatusMutex' = u
               /\ caller'[u].at = "read" => mStatus' = caller'[u].own
               /\ caller'[u].at = "unlock" => OwnStatus(u)'
    <3>1. CASE u = t
      <4>1. caller'[u].at = "lock" /\ mStatusMutex' # u
        BY <1>7, <1>8, <2>2, <2>4, <3>1
      <4>2. QED
        BY <4>1
    <3>2. CASE u # t
      BY <1>7, <1>8, <2>3, <2>4, <3>2 DEF OwnStatus
    <3>3. QED
      BY <3>1, <3>2
  <2>5. QED
    BY <2>1, <2>4 DEF LockServes, Busy
<1>14. QED
  BY <1>10, <1>11, <1>12, <1>13 DEF CallInv

\* coverException's end, step by step.
LEMMA CoverKeeps ==
  ASSUME CallInv, NEW t \in Callers,
         LockStatus(t) \/ SetStatus(t) \/ ReadStatus(t) \/ UnlockStatus(t)
  PROVE  CallInv'
<1>1. caller \in [Callers -> [at : {"idle", "lock", "set", "read", "unlock"},
                              calls : 0 .. MaxClientCalls, own : StatusSpace]]
  BY DEF CallInv, ClientTypeOK
<1>2. NoStatus \in StatusSpace
  BY DEF StatusSpace
<1>9. LockServes /\ \A u \in Callers : u # "free"
  BY ClientAssumption DEF CallInv
<1>10. CallInv => ClientTypeOK /\ OverlapsKnown /\ StatusFresh /\ StatusNotStale
  BY DEF CallInv
<1> USE DEF ClientTypeOK, OverlapsKnown, StatusFresh, StatusNotStale, Busy
<1>3. ASSUME NEW to \in {"set", "read", "unlock"}, Moves(t, to)
      PROVE  /\ \A u \in Callers \ {t} : caller'[u] = caller[u]
             /\ caller'[t].at = to /\ caller'[t].own = caller[t].own
             /\ caller' \in [Callers -> [at : {"idle", "lock", "set", "read", "unlock"},
                                         calls : 0 .. MaxClientCalls, own : StatusSpace]]
  BY <1>1, <1>3 DEF Moves
<1>4. CASE LockStatus(t)
  <2>1. caller[t].at = "lock" /\ Moves(t, "set") /\ mStatusMutex' = t
        /\ UNCHANGED <<mClient, mDispatcher, mStatus, ended, returned, anyThrew>>
    BY <1>4 DEF LockStatus
  <2>2. ClientTypeOK' /\ OverlapsKnown' /\ StatusFresh' /\ StatusNotStale'
    BY <2>1, <1>3, <1>10
  <2>3. LockServes'
    <3>1. mStatusMutex = "free"
      BY <1>4 DEF LockStatus
    <3>2. QED
      BY <2>1, <3>1, <1>3, <1>9 DEF LockServes, OwnStatus
  <2>4. QED
    BY <2>2, <2>3 DEF CallInv
<1>5. CASE SetStatus(t)
  <2>1. caller[t].at = "set" /\ Moves(t, "read") /\ mStatus' = caller[t].own
        /\ UNCHANGED <<mClient, mDispatcher, mStatusMutex, ended, returned, anyThrew>>
    BY <1>5 DEF SetStatus
  <2>2. caller[t].own \in StatusSpace
    BY <1>1
  <2>3. ClientTypeOK' /\ OverlapsKnown' /\ StatusNotStale'
    BY <2>1, <2>2, <1>3, <1>10
  <2>4. StatusFresh'
    BY <2>1, <1>3, <1>10
  <2>5. LockServes'
    BY <2>1, <1>3, <1>9 DEF LockServes, OwnStatus
  <2>6. QED
    BY <2>3, <2>4, <2>5 DEF CallInv
<1>6. CASE ReadStatus(t)
  <2>1. caller[t].at = "read" /\ Moves(t, "unlock") /\ returned' = [returned EXCEPT ![t] = mStatus]
        /\ UNCHANGED <<mClient, mDispatcher, mStatus, mStatusMutex, ended, anyThrew>>
    BY <1>6 DEF ReadStatus
  <2>2. ClientTypeOK' /\ OverlapsKnown' /\ StatusFresh' /\ StatusNotStale'
    BY <2>1, <1>3, <1>10
  <2>3. LockServes'
    <3>1. returned'[t] = mStatus /\ \A u \in Callers \ {t} : returned'[u] = returned[u]
      BY <2>1, <1>10
    <3>2. QED
      BY <2>1, <3>1, <1>3, <1>9 DEF LockServes, OwnStatus
  <2>4. QED
    BY <2>2, <2>3 DEF CallInv
<1>7. CASE UnlockStatus(t)
  <2>1. /\ \A u \in Callers \ {t} : caller'[u] = caller[u] /\ ended'[u] = ended[u]
                                    /\ returned'[u] = returned[u]
        /\ caller'[t].at = "idle"
        /\ caller' \in [Callers -> [at : {"idle", "lock", "set", "read", "unlock"},
                                    calls : 0 .. MaxClientCalls, own : StatusSpace]]
        /\ ended' \in [Callers -> SUBSET StatusSpace] /\ returned' \in [Callers -> StatusSpace]
        /\ mStatusMutex' = "free" /\ UNCHANGED <<mClient, mDispatcher, mStatus, anyThrew>>
    <3>1. caller' = [caller EXCEPT ![t] = [@ EXCEPT !.at = "idle", !.own = NoStatus]]
      BY <1>7 DEF UnlockStatus
    <3>2. /\ \A u \in Callers \ {t} : caller'[u] = caller[u]
          /\ caller'[t].at = "idle"
          /\ caller' \in [Callers -> [at : {"idle", "lock", "set", "read", "unlock"},
                                      calls : 0 .. MaxClientCalls, own : StatusSpace]]
      BY <1>1, <1>2, <3>1
    <3>3. ended' = [ended EXCEPT ![t] = {}] /\ returned' = [returned EXCEPT ![t] = NoStatus]
          /\ mStatusMutex' = "free" /\ UNCHANGED <<mClient, mDispatcher, mStatus, anyThrew>>
      BY <1>7 DEF UnlockStatus
    <3>4. /\ \A u \in Callers \ {t} : ended'[u] = ended[u] /\ returned'[u] = returned[u]
          /\ ended' \in [Callers -> SUBSET StatusSpace] /\ returned' \in [Callers -> StatusSpace]
      BY <1>2, <1>10, <3>3
    <3>5. QED
      BY <3>2, <3>3, <3>4
  <2>2. ClientTypeOK'
    BY <2>1, <1>10
  <2>3. OverlapsKnown'
    BY <2>1, <1>10
  <2>4. StatusFresh'
    BY <2>1, <1>10
  <2>5. StatusNotStale'
    BY <2>1, <1>10
  <2>6. LockServes'
    <3>1. ~anyThrew => mStatusMutex = t
      BY <1>7, <1>9 DEF LockServes, UnlockStatus
    <3>2. QED
      BY <2>1, <3>1, <1>9 DEF LockServes, OwnStatus
  <2>7. QED
    BY <2>2, <2>3, <2>4, <2>5, <2>6 DEF CallInv
<1>8. QED
  BY <1>4, <1>5, <1>6, <1>7

\* The invariant is inductive.
THEOREM CallInvariant == ClientSpec => []CallInv
<1>1. ClientInit => CallInv
  BY CallInitHolds
<1>2. CallInv /\ [ClientNext]_clientVars => CallInv'
  <2> SUFFICES ASSUME CallInv, [ClientNext]_clientVars PROVE CallInv'
    OBVIOUS
  <2>1. CASE UNCHANGED clientVars
    BY <2>1 DEF clientVars, CallInv, ClientTypeOK, OverlapsKnown, StatusFresh, StatusNotStale, Busy, LockServes, OwnStatus
  <2>2. ASSUME NEW t \in Callers, ServerCall(t) \/ LocalCall(t) PROVE CallInv'
    <3>1. PICK thrown \in Throwables : Began(t, thrown)
      BY <2>2, ThrownKnown DEF ServerCall, LocalCall
    <3>2. IdleCaller(t) /\ UNCHANGED <<mClient, mDispatcher>>
      BY <2>2 DEF ServerCall, LocalCall
    <3>3. QED
      BY <3>1, <3>2, BeganKeeps DEF CallInv, ClientTypeOK
  <2>3. ASSUME NEW t \in Callers, NEW address \in {"served", "dead"}, connect(t, address)
        PROVE  CallInv'
    <3>1. PICK thrown \in Throwables : Began(t, thrown)
      BY <2>3 DEF connect, Throwables
    <3>2. IdleCaller(t) /\ mClient' \in {"none", "stopped", "started"}
          /\ mDispatcher' \in {"none", "internal", "external"}
      BY <2>3 DEF connect, CallInv, ClientTypeOK
    <3>3. QED
      BY <3>1, <3>2, BeganKeeps
  <2>4. ASSUME NEW t \in Callers, disconnect(t) PROVE CallInv'
    <3>1. "nothing" \in Throwables
      BY DEF Throwables
    <3>2. IdleCaller(t) /\ Began(t, "nothing") /\ mClient' = "none" /\ UNCHANGED mDispatcher
      BY <2>4 DEF disconnect
    <3>3. QED
      BY <3>1, <3>2, BeganKeeps DEF CallInv, ClientTypeOK
  <2>5. ASSUME NEW t \in Callers, NEW type \in {"internal", "external", "unsupported"},
               vsm_set_dispatcher_type(t, type)
        PROVE  CallInv'
    <3>1. PICK thrown \in Throwables : Began(t, thrown)
      BY <2>5 DEF vsm_set_dispatcher_type, Throwables
    <3>2. IdleCaller(t) /\ UNCHANGED mClient /\ mDispatcher' \in {"none", "internal", "external"}
      BY <2>5 DEF vsm_set_dispatcher_type, CallInv, ClientTypeOK
    <3>3. QED
      BY <3>1, <3>2, BeganKeeps DEF CallInv, ClientTypeOK
  <2>6. QED
    BY <2>1, <2>2, <2>3, <2>4, <2>5, CoverKeeps DEF ClientNext
<1>3. QED
  BY <1>1, <1>2, PTL DEF ClientSpec

\* No function returns the status of a call that was over before it began, and each returns
\* its own while none throws: the shared mStatus of coverException, for any number of threads.
THEOREM StatusIsSound == ClientSpec => []StatusSound
<1>1. CallInv => StatusSound
  BY DEF CallInv, LockServes, StatusSound, StatusLocked
<1>2. QED
  BY <1>1, CallInvariant, PTL

-----------------------------------------------------------------------------
(* The input monitor: the focus is passed on by enough presses within the  *)
(* window.                                                                 *)

\* The stamps kept are those of the last presses, one fewer than a switch takes.
StampsOf(p) ==
  /\ Len(mEventTimes) = IF Len(p) < numberOfEvents THEN Len(p) ELSE numberOfEvents - 1
  /\ \A i \in DOMAIN mEventTimes : mEventTimes[i] = stamp(p[Len(p) - Len(mEventTimes) + i])

InputInv ==
  /\ InputTypeOK
  /\ StampsOf(IF switched THEN <<>> ELSE presses)
  /\ SwitchExact

\* Division by a positive number, and products.
LEMMA Division ==
  ASSUME NEW a \in Nat, NEW b \in Nat \ {0}
  PROVE  a \div b \in Nat /\ a % b \in 0 .. b - 1 /\ a = b * (a \div b) + (a % b)
  OBVIOUS

LEMMA ProductOrder ==
  ASSUME NEW a \in Int, NEW b \in Int, NEW c \in Nat, a <= b
  PROVE  a * c \in Int /\ b * c \in Int /\ a * c <= b * c
  OBVIOUS

LEMMA ProductSum ==
  ASSUME NEW a \in Int, NEW b \in Int, NEW c \in Int
  PROVE  /\ (a + b) * c = a * c + b * c /\ (a - b) * c = a * c - b * c
         /\ (a + 1) * c = a * c + c /\ (a - 1) * c = a * c - c /\ c * a = a * c
  OBVIOUS

LEMMA ProductOf ==
  ASSUME NEW a \in Int, NEW b \in Int, NEW c \in Int
  PROVE  a * (b * c) = (a * c) * b /\ a * (b * c) = (a * b) * c
  OBVIOUS

\* A quotient is within one of the number divided.
LEMMA QuotientBounds ==
  ASSUME NEW z \in Int, NEW u \in Nat \ {0}
  PROVE  /\ quotient(z, u) \in Int /\ quotient(z, u) * u \in Int
         /\ z < quotient(z, u) * u + u /\ z > quotient(z, u) * u - u
  <1>1. CASE z >= 0
    <2>1. z \in Nat /\ quotient(z, u) = z \div u
      BY <1>1 DEF quotient
    <2>2. z \div u \in Nat /\ z % u \in 0 .. u - 1 /\ z = u * (z \div u) + (z % u)
      BY <2>1, Division
    <2>. DEFINE q == z \div u
    <2>3. q \in Nat /\ u * q = q * u /\ q * u \in Int
      BY <2>2
    <2>. HIDE DEF q
    <2>4. z < q * u + u /\ z > q * u - u
      BY <2>2, <2>3 DEF q
    <2>. QED
      BY <2>1, <2>3, <2>4 DEF q
  <1>2. CASE z < 0
    <2>1. -z \in Nat /\ quotient(z, u) = -((-z) \div u)
      BY <1>2 DEF quotient
    <2>2. PICK y \in Nat : y = -z
      BY <2>1
    <2>3. y \div u \in Nat /\ y % u \in 0 .. u - 1 /\ y = u * (y \div u) + (y % u)
      BY Division
    <2>. DEFINE q == y \div u
    <2>4. q \in Nat /\ u * q = q * u /\ q * u \in Int /\ (-q) * u = -(q * u)
      BY <2>3
    <2>. HIDE DEF q
    <2>5. z < -(q * u) + u /\ z > -(q * u) - u
      BY <2>2, <2>3, <2>4 DEF q
    <2>6. quotient(z, u) = -q
      BY <2>1, <2>2 DEF q
    <2>. QED
      BY <2>4, <2>5, <2>6
  <1>. QED
    BY <1>1, <1>2

\* What timeDiff and the seconds say of the time between two presses.
LEMMA StampsApart ==
  ASSUME NEW t \in Nat, NEW p \in Nat
  PROVE  LET T == timeDiff(stamp(t), stamp(p))
             k == stamp(t).tv_sec - stamp(p).tv_sec
         IN  /\ T \in Int /\ k \in Int
             /\ T * UsecPerMs - UsecPerMs < t - p /\ t - p < T * UsecPerMs + UsecPerMs
             /\ k * SEC - SEC < t - p
  <1>. DEFINE u == UsecPerMs
              m == MsPerSec
              S == SEC
              a == t \div S
              x == t % S
              b == p \div S
              y == p % S
              k == a - b
              z == x - y
              q == quotient(z, u)
              T == k * m + q
  <1>1. u \in Nat \ {0} /\ m \in Nat \ {0} /\ S = u * m
    BY InputAssumption DEF SEC
  <1>2. S \in Nat \ {0}
    BY <1>1
  <1>. HIDE DEF S
  <1>3. a \in Nat /\ x \in 0 .. S - 1 /\ t = S * a + x
    BY <1>2, Division
  <1>4. b \in Nat /\ y \in 0 .. S - 1 /\ p = S * b + y
    BY <1>2, Division
  <1>5. stamp(t) = [tv_sec |-> a, tv_usec |-> x] /\ stamp(p) = [tv_sec |-> b, tv_usec |-> y]
    BY DEF stamp, S
  <1>. HIDE DEF a, x, b, y
  <1>6. k \in Int /\ z \in Int /\ z > -S /\ k * S = S * a - S * b /\ k * S \in Int
    <2>1. k \in Int /\ z \in Int /\ z > -S
      BY <1>2, <1>3, <1>4
    <2>2. (a - b) * S = a * S - b * S /\ S * a = a * S /\ S * b = b * S
      BY <1>2, <1>3, <1>4, ProductSum
    <2>. QED
      BY <1>2, <2>1, <2>2
  <1>7. t - p = k * S + z
    <2>. DEFINE c == S * a
                d == S * b
    <2>1. c \in Int /\ d \in Int
      BY <1>2, <1>3, <1>4
    <2>. HIDE DEF c, d
    <2>2. t = c + x /\ p = d + y /\ k * S = c - d
      BY <1>3, <1>4, <1>6 DEF c, d
    <2>3. x \in Int /\ y \in Int
      BY <1>2, <1>3, <1>4
    <2>. QED
      BY <2>1, <2>2, <2>3
  <1>8. T = timeDiff(stamp(t), stamp(p)) /\ k = stamp(t).tv_sec - stamp(p).tv_sec
    BY <1>5 DEF timeDiff
  <1>. HIDE DEF z, k
  <1>9. q \in Int /\ q * u \in Int /\ z < q * u + u /\ z > q * u - u
    BY <1>1, <1>6, QuotientBounds
  <1>. HIDE DEF q
  <1>10. k * m \in Int /\ k * S = (k * m) * u
    BY <1>1, <1>6, ProductOf
  <1>11. T \in Int /\ T * u = k * S + q * u
    <2>. DEFINE c == k * m
    <2>1. c \in Int
      BY <1>10
    <2>. HIDE DEF c
    <2>2. (c + q) * u = c * u + q * u
      BY <1>1, <1>9, <2>1, ProductSum
    <2>3. T = c + q /\ c * u = k * S
      BY <1>10 DEF c
    <2>. QED
      BY <1>9, <2>1, <2>2, <2>3
  <1>. HIDE DEF T
  <1>12. T * u - u < t - p /\ t - p < T * u + u /\ k * S - S < t - p
    <2>. DEFINE c == k * S
                d == q * u
                e == T * u
    <2>1. c \in Int /\ d \in Int /\ e = c + d /\ t - p = c + z /\ z < d + u /\ z > d - u /\ z > -S
      BY <1>6, <1>7, <1>9, <1>11
    <2>. HIDE DEF c, d, e
    <2>2. e - u < t - p /\ t - p < e + u /\ c - S < t - p
      BY <1>1, <1>2, <1>6, <2>1
    <2>. QED
      BY <2>2 DEF c, d, e
  <1>. QED
    BY <1>6, <1>8, <1>11, <1>12 DEF S

\* What the sequence of stamps says of the presses they are of.
LEMMA ExpectedWithin ==
  ASSUME NEW t \in Nat, NEW p \in Nat, NEW times, Len(times) >= numberOfEvents,
         Last(times) = stamp(t), Head(times) = stamp(p)
  PROVE  /\ Expected(times) => t - p < timeWindowMs * UsecPerMs
         /\ ~Expected(times) => \/ t - p > (timeWindowMs - 1) * UsecPerMs
                                \/ t - p > (MAX_TIME_WINDOW_SEC - 1) * SEC
  <1>. DEFINE T == timeDiff(stamp(t), stamp(p))
              k == stamp(t).tv_sec - stamp(p).tv_sec
              u == UsecPerMs
              w == timeWindowMs
              M == MAX_TIME_WINDOW_SEC
              S == SEC
  <1>1. /\ T \in Int /\ k \in Int
        /\ T * u - u < t - p /\ t - p < T * u + u /\ k * S - S < t - p
    BY StampsApart
  <1>2. u \in Nat /\ w \in Nat /\ M \in Nat /\ S \in Nat
    BY InputAssumption DEF SEC
  <1>3. Expected(times) <=> k < M /\ T < w
    BY DEF Expected
  <1>. HIDE DEF T, k, u, w, M, S
  <1>4. /\ (T + 1) * u = T * u + u /\ (w - 1) * u = w * u - u /\ (M - 1) * S = M * S - S
        /\ T * u \in Int /\ w * u \in Int /\ k * S \in Int /\ M * S \in Int
    BY <1>1, <1>2, ProductSum
  <1>5. ASSUME T < w PROVE t - p < w * u
    <2>1. T + 1 <= w
      BY <1>1, <1>2, <1>5
    <2>2. (T + 1) * u <= w * u
      BY <1>1, <1>2, <2>1, ProductOrder
    <2>. QED
      BY <1>1, <1>2, <1>4, <2>2
  <1>6. ASSUME T >= w PROVE t - p > (w - 1) * u
    <2>1. w * u <= T * u
      BY <1>1, <1>2, <1>6, ProductOrder
    <2>. QED
      BY <1>1, <1>2, <1>4, <2>1
  <1>7. ASSUME k >= M PROVE t - p > (M - 1) * S
    <2>1. M * S <= k * S
      BY <1>1, <1>2, <1>7, ProductOrder
    <2>. QED
      BY <1>1, <1>2, <1>4, <2>1
  <1>8. (T < w /\ k < M) \/ T >= w \/ k >= M
    BY <1>1, <1>2
  <1>. QED
    BY <1>3, <1>5, <1>6, <1>7, <1>8 DEF u, w, M, S

LEMMA StampIs ==
  ASSUME NEW t \in Nat
  PROVE  stamp(t) \in Stamps
  <1>1. SEC \in Nat \ {0}
    BY InputAssumption DEF SEC
  <1>. DEFINE S == SEC
  <1>. HIDE DEF S
  <1>2. t \div S \in Nat /\ t % S \in 0 .. S - 1
    BY <1>1, Division DEF S
  <1>. QED
    BY <1>2 DEF stamp, Stamps, S

LEMMA InputInitHolds == InputInit => InputInv
  <1>. SUFFICES ASSUME InputInit PROVE InputInv
    OBVIOUS
  <1>1. mEventTimes = <<>> /\ presses = <<>> /\ switched = FALSE /\ clock = 0 /\ device = "closed"
        /\ numberOfEvents \in Nat /\ numberOfEvents >= 2
    BY InputAssumption DEF InputInit
  <1>2. Len(<<>>) = 0 /\ DOMAIN <<>> = {} /\ <<>> \in Seq(Stamps) /\ <<>> \in Seq(Nat)
    OBVIOUS
  <1>3. InputTypeOK
    <2>1. mEventTimes \in Seq(Stamps) /\ presses \in Seq(Nat) /\ Len(mEventTimes) < numberOfEvents
      BY <1>1, <1>2
    <2>. QED
      BY <1>1, <2>1 DEF InputTypeOK
  <1>4. StampsOf(IF switched THEN <<>> ELSE presses)
    BY <1>1, <1>2 DEF StampsOf
  <1>5. SwitchExact
    BY <1>1, <1>2 DEF SwitchExact
  <1>. QED
    BY <1>3, <1>4, <1>5 DEF InputInv

\* The stamps of one press more.
LEMMA PressedStamps ==
  ASSUME InputTypeOK, NEW base \in Seq(Nat), StampsOf(base), NEW t \in Nat
  PROVE  LET times == Append(mEventTimes, stamp(t))
             p == Append(base, t)
         IN  /\ times \in Seq(Stamps) /\ p \in Seq(Nat) /\ Len(p) = Len(base) + 1
             /\ Len(times) = Len(mEventTimes) + 1
             /\ p[Len(p)] = t /\ Last(times) = stamp(t)
             /\ \A i \in DOMAIN times : Len(p) - Len(times) + i \in DOMAIN p
                                        /\ times[i] = stamp(p[Len(p) - Len(times) + i])
  <1>. DEFINE times == Append(mEventTimes, stamp(t))
              p == Append(base, t)
              l == Len(mEventTimes)
              n == Len(base)
  <1>1. mEventTimes \in Seq(Stamps) /\ stamp(t) \in Stamps
    BY StampIs DEF InputTypeOK
  <1>2. /\ times \in Seq(Stamps) /\ Len(times) = l + 1 /\ times[l + 1] = stamp(t)
        /\ DOMAIN times = DOMAIN mEventTimes \cup {l + 1}
        /\ \A i \in DOMAIN mEventTimes : times[i] = mEventTimes[i] /\ i < l + 1 /\ i \in Nat
    BY <1>1, AppendElements
  <1>3. /\ p \in Seq(Nat) /\ Len(p) = n + 1 /\ p[n + 1] = t
        /\ DOMAIN p = DOMAIN base \cup {n + 1}
        /\ \A i \in DOMAIN base : p[i] = base[i]
    BY AppendElements
  <1>4. l \in Nat /\ n \in Nat /\ l <= n /\ DOMAIN mEventTimes = 1 .. l /\ DOMAIN base = 1 .. n
    BY <1>1, LenProperties, InputAssumption DEF StampsOf
  <1>5. \A i \in DOMAIN mEventTimes : mEventTimes[i] = stamp(base[n - l + i])
    BY DEF StampsOf
  <1>. HIDE DEF times, p, l, n
  <1>6. Last(times) = stamp(t)
    BY <1>2 DEF Last
  <1>7. ASSUME NEW i \in DOMAIN times
        PROVE  Len(p) - Len(times) + i \in DOMAIN p /\ times[i] = stamp(p[Len(p) - Len(times) + i])
    <2>1. Len(p) - Len(times) + i = n - l + i /\ i \in 1 .. l + 1
      BY <1>2, <1>3, <1>4
    <2>2. CASE i \in 1 .. l
      <3>1. n - l + i \in 1 .. n /\ i \in DOMAIN mEventTimes
        BY <1>4, <2>2
      <3>2. n - l + i \in DOMAIN base
        BY <1>4, <3>1
      <3>3. p[n - l + i] = base[n - l + i] /\ times[i] = mEventTimes[i]
        BY <1>2, <1>3, <3>1, <3>2
      <3>. QED
        BY <1>3, <1>5, <2>1, <3>1, <3>2, <3>3
    <2>3. CASE i = l + 1
      <3>1. n - l + i = n + 1
        BY <1>4, <2>3
      <3>. QED
        BY <1>2, <1>3, <2>1, <2>3, <3>1
    <2>. QED
      BY <1>4, <2>1, <2>2, <2>3
  <1>. QED
    BY <1>2, <1>3, <1>6, <1>7 DEF times, p, l, n

LEMMA KeyPressedStep ==
  ASSUME InputInv, NEW t \in clock .. MaxTime, KeyPressed(t)
  PROVE  InputInv'
  <1>. DEFINE base == IF switched THEN <<>> ELSE presses
              times == Append(mEventTimes, stamp(t))
              p == Append(base, t)
              N == numberOfEvents
  <1>1. t \in Nat /\ InputTypeOK /\ StampsOf(base) /\ N \in Nat /\ N >= 2 /\ base \in Seq(Nat)
    <2>1. <<>> \in Seq(Nat)
      OBVIOUS
    <2>2. N \in Nat /\ N >= 2
      BY InputAssumption
    <2>3. InputTypeOK /\ clock \in Nat /\ presses \in Seq(Nat)
      BY DEF InputInv, InputTypeOK
    <2>4. t \in Nat
      BY <2>3
    <2>5. base \in Seq(Nat)
      BY <2>1, <2>3
    <2>. QED
      BY <2>2, <2>3, <2>4, <2>5 DEF InputInv
  <1>2. /\ clock' = t /\ mEventTimes' = Kept(times) /\ switched' = Expected(times) /\ presses' = p
        /\ device' = device /\ switched' \in BOOLEAN
    BY DEF KeyPressed, Expected
  <1>. HIDE DEF base
  <1>3. /\ times \in Seq(Stamps) /\ p \in Seq(Nat) /\ Len(p) = Len(base) + 1
        /\ Len(times) = Len(mEventTimes) + 1
        /\ p[Len(p)] = t /\ Last(times) = stamp(t)
        /\ \A i \in DOMAIN times : Len(p) - Len(times) + i \in DOMAIN p
                                   /\ times[i] = stamp(p[Len(p) - Len(times) + i])
    BY <1>1, PressedStamps
  <1>4. /\ Len(mEventTimes) = IF Len(base) < N THEN Len(base) ELSE N - 1
        /\ Len(base) \in Nat
    BY <1>1, LenProperties DEF StampsOf
  <1>. HIDE DEF times, p, N
  <1>5. Last(p) = t /\ Len(p) \in Nat /\ Len(times) \in Nat
    BY <1>1, <1>3, <1>4 DEF Last
  <1>6. CASE Len(base) < N - 1
    <2>1. Len(times) < N /\ Len(p) = Len(times) /\ Len(p) < N
      BY <1>1, <1>3, <1>4, <1>6
    <2>2. ~Expected(times)
      BY <1>1, <1>5, <2>1 DEF Expected, N
    <2>3. Kept(times) = times
      BY <1>1, <1>5, <2>1, <2>2 DEF Kept, N
    <2>4. InputTypeOK'
      BY <1>1, <1>2, <1>3, <2>1, <2>2, <2>3 DEF InputTypeOK, N
    <2>5. StampsOf(IF switched THEN <<>> ELSE presses)'
      <3>1. mEventTimes' = times /\ ~switched' /\ presses' = p
        BY <1>2, <2>2, <2>3
      <3>2. Len(p) - Len(times) = 0
        BY <1>5, <2>1
      <3>. QED
        BY <1>1, <1>3, <2>1, <3>1 DEF StampsOf, N
    <2>6. SwitchExact'
      BY <1>1, <1>2, <1>5, <2>1, <2>2 DEF SwitchExact, N
    <2>. QED
      BY <1>2, <2>2, <2>4, <2>5, <2>6 DEF InputInv
  <1>7. CASE ~(Len(base) < N - 1)
    <2>. DEFINE first == Len(p) - N + 1
    <2>1. Len(times) = N /\ Len(p) >= N
      BY <1>1, <1>3, <1>4, <1>7
    <2>2. 1 \in DOMAIN times /\ times # <<>> /\ Head(times) = times[1]
      BY <1>1, <1>3, <2>1, LenProperties, HeadTailProperties
    <2>3. first \in DOMAIN p /\ Head(times) = stamp(p[first])
      BY <1>3, <2>1, <2>2
    <2>4. PICK o \in Nat : o = p[first]
      BY <1>3, <2>3, LenProperties
    <2>5. /\ Expected(times) => t - o < timeWindowMs * UsecPerMs
          /\ ~Expected(times) => \/ t - o > (timeWindowMs - 1) * UsecPerMs
                                 \/ t - o > (MAX_TIME_WINDOW_SEC - 1) * SEC
      <3>1. Len(times) >= numberOfEvents
        BY <1>1, <2>1 DEF N
      <3>. QED
        BY <1>1, <1>3, <2>3, <2>4, <3>1, ExpectedWithin
    <2>6. Span' = t - o
      BY <1>2, <1>5, <2>4 DEF Span, N
    <2>7. SwitchExact'
      BY <1>1, <1>2, <1>5, <2>1, <2>5, <2>6 DEF SwitchExact, N
    <2>8. CASE Expected(times)
      <3>1. mEventTimes' = <<>> /\ switched'
        BY <1>2, <2>8 DEF Kept
      <3>2. <<>> \in Seq(Stamps) /\ Len(<<>>) = 0 /\ DOMAIN <<>> = {}
        OBVIOUS
      <3>3. InputTypeOK'
        BY <1>1, <1>2, <1>3, <3>1, <3>2 DEF InputTypeOK, N
      <3>4. StampsOf(IF switched THEN <<>> ELSE presses)'
        BY <1>1, <3>1, <3>2 DEF StampsOf, N
      <3>. QED
        BY <2>7, <3>3, <3>4 DEF InputInv
    <2>9. CASE ~Expected(times)
      <3>1. mEventTimes' = Tail(times) /\ ~switched' /\ presses' = p
        BY <1>1, <1>2, <2>1, <2>9 DEF Kept, N
      <3>2. /\ mEventTimes' \in Seq(Stamps) /\ Len(mEventTimes') = N - 1
            /\ \A i \in DOMAIN mEventTimes' : i \in Nat /\ i + 1 \in DOMAIN times /\ mEventTimes'[i] = times[i + 1]
        <4>1. /\ Tail(times) \in Seq(Stamps) /\ Len(Tail(times)) = Len(times) - 1
              /\ \A i \in DOMAIN Tail(times) : i \in Nat /\ i + 1 \in DOMAIN times /\ Tail(times)[i] = times[i + 1]
          BY <1>3, <2>2, TailElements
        <4>. QED
          BY <2>1, <3>1, <4>1
      <3>3. InputTypeOK'
        BY <1>1, <1>2, <1>3, <3>1, <3>2 DEF InputTypeOK, N
      <3>4. ASSUME NEW i \in DOMAIN mEventTimes'
            PROVE  mEventTimes'[i] = stamp(p[Len(p) - (N - 1) + i])
        <4>. DEFINE j == i + 1
        <4>1. j \in DOMAIN times /\ mEventTimes'[i] = times[j] /\ i \in Nat
          BY <3>2
        <4>2. Len(p) - N + j = Len(p) - (N - 1) + i
          BY <1>1, <1>5, <4>1
        <4>. HIDE DEF j
        <4>3. times[j] = stamp(p[Len(p) - N + j])
          BY <1>3, <2>1, <4>1
        <4>. QED
          BY <4>1, <4>2, <4>3
      <3>5. StampsOf(IF switched THEN <<>> ELSE presses)'
        BY <1>1, <2>1, <3>1, <3>2, <3>4 DEF StampsOf, N
      <3>. QED
        BY <2>7, <3>3, <3>5 DEF InputInv
    <2>. QED
      BY <2>8, <2>9
  <1>. QED
    BY <1>6, <1>7

LEMMA OtherEventStep ==
  ASSUME InputInv, OtherEvent
  PROVE  InputInv'
  <1>1. /\ switched' = FALSE /\ presses' = (IF switched THEN <<>> ELSE presses)
        /\ UNCHANGED <<device, clock, mEventTimes>> /\ InputTypeOK /\ SwitchExact
        /\ StampsOf(IF switched THEN <<>> ELSE presses)
    BY DEF InputInv, OtherEvent
  <1>2. <<>> \in Seq(Nat) /\ Len(<<>>) = 0
    OBVIOUS
  <1>3. InputTypeOK'
    BY <1>1, <1>2 DEF InputTypeOK
  <1>4. StampsOf(IF switched THEN <<>> ELSE presses)'
    BY <1>1 DEF StampsOf
  <1>5. SwitchExact'
    <2>1. CASE switched
      <3>1. presses' = <<>> /\ ~(0 >= numberOfEvents)
        BY <1>1, <2>1, InputAssumption
      <3>. QED
        BY <1>1, <1>2, <3>1 DEF SwitchExact
    <2>2. CASE ~switched
      <3>1. presses' = presses
        BY <1>1, <2>2
      <3>2. Span' = Span
        BY <3>1 DEF Span
      <3>. QED
        BY <1>1, <2>2, <3>1, <3>2 DEF SwitchExact
    <2>. QED
      BY <1>1, <2>1, <2>2 DEF InputTypeOK
  <1>. QED
    BY <1>3, <1>4, <1>5 DEF InputInv

LEMMA InputStep == InputInv /\ [InputNext]_inputVars => InputInv'
  <1>1. ASSUME InputInv, UNCHANGED <<clock, mEventTimes, presses, switched>>, device' \in {"open", "closed"}
        PROVE  InputInv'
    <2>1. InputTypeOK'
      BY <1>1 DEF InputInv, InputTypeOK
    <2>2. StampsOf(IF switched THEN <<>> ELSE presses)'
      BY <1>1 DEF InputInv, StampsOf
    <2>3. SwitchExact'
      BY <1>1 DEF InputInv, SwitchExact, Span
    <2>. QED
      BY <2>1, <2>2, <2>3 DEF InputInv
  <1>2. InputInv /\ (InputStart \/ InputStop \/ UNCHANGED inputVars) => InputInv'
    <2>1. InputInv => device \in {"open", "closed"}
      BY DEF InputInv, InputTypeOK
    <2>. QED
      BY <1>1, <2>1 DEF InputStart, InputStop, inputVars
  <1>. QED
    BY <1>2, KeyPressedStep, OtherEventStep DEF InputNext

LEMMA InputInvExact == InputInv => InputTypeOK /\ SwitchExact
  BY DEF InputInv

\* In every behaviour the focus is passed on by enough presses within the window, and by nothing
\* else, whatever the constants of time.
THEOREM InputExact == InputSpec => [](InputTypeOK /\ SwitchExact)
  <1>1. InputInit => InputInv
    BY InputInitHolds
  <1>2. InputInv /\ [InputNext]_inputVars => InputInv'
    BY InputStep
  <1>3. InputInv => InputTypeOK /\ SwitchExact
    BY InputInvExact
  <1>. QED
    BY <1>1, <1>2, <1>3, PTL DEF InputSpec

-----------------------------------------------------------------------------
(* The requests about a zone's files and devices.                          *)

ZoneRequestsInv ==
  /\ ZoneRequestsTypeOK
  /\ access = promised
  /\ clientFile.fresh
  /\ request.at # "idle" => request.path \in Paths
  /\ request.at = "sent" => request.made

LEMMA ZoneRequestsInitHolds == ZoneRequestsInit => ZoneRequestsInv
  BY ZoneRequestsAssumption DEF ZoneRequestsInit, ZoneRequestsInv, ZoneRequestsTypeOK, NoAccess, NoRequest

\* A grant and a revocation change what is allowed as they change what was promised.
LEMMA SetDeviceAccessStep ==
  ASSUME ZoneRequestsInv, NEW d \in Devices, NEW grant \in BOOLEAN, NEW writes \in BOOLEAN,
         NEW flags \in {"O_RDWR", "O_RDONLY", "O_WRONLY", "other"}, SetDeviceAccess(d, grant, flags, writes)
  PROVE  ZoneRequestsInv'
  <1>1. /\ access \in [Devices -> SUBSET AllAccess] /\ promised = access
        /\ requests \in 0 .. MaxRequests /\ requests < MaxRequests /\ requests' = requests + 1
        /\ UNCHANGED <<lxcState, deviceNodes, zoneFiles, request, clientFile>>
    BY DEF ZoneRequestsInv, ZoneRequestsTypeOK, SetDeviceAccess, FreeToServe
  <1>2. requests' \in 0 .. MaxRequests
    BY <1>1, ZoneRequestsAssumption
  <1>3. access' = promised' /\ access' \in [Devices -> SUBSET AllAccess]
    <2>1. CASE UNCHANGED <<access, promised>>
      BY <1>1, <2>1
    <2>2. CASE ~UNCHANGED <<access, promised>>
      <3>. DEFINE perms == flagsToPermissions(grant, flags)
      <3>1. /\ perms # {}
            /\ access' = [access EXCEPT ![d] = Allowing(d, grant, perms)]
            /\ promised' = [promised EXCEPT ![d] =
                   CASE ~grant -> {}
                     [] grant /\ flags = "O_RDWR" -> AllAccess
                     [] grant /\ flags = "O_RDONLY" -> @ \cup {"r", "m"}
                     [] grant /\ flags = "O_WRONLY" -> @ \cup {"w", "m"}]
        BY <2>2 DEF SetDeviceAccess
      <3>2. access[d] \subseteq AllAccess
        BY <1>1
      <3>3. CASE ~grant
        <4>1. perms = AllAccess
          BY <3>3 DEF flagsToPermissions
        <4>2. access' = [access EXCEPT ![d] = {}] /\ promised' = [promised EXCEPT ![d] = {}]
          BY <3>1, <3>2, <3>3, <4>1 DEF Allowing
        <4>. QED
          BY <1>1, <4>2
      <3>4. CASE grant /\ flags = "O_RDWR"
        <4>1. perms = AllAccess
          BY <3>4 DEF flagsToPermissions
        <4>2. access' = [access EXCEPT ![d] = AllAccess] /\ promised' = [promised EXCEPT ![d] = AllAccess]
          BY <3>1, <3>2, <3>4, <4>1 DEF Allowing
        <4>. QED
          BY <1>1, <4>2
      <3>5. CASE grant /\ flags = "O_RDONLY"
        <4>1. perms = {"r", "m"}
          BY <3>5 DEF flagsToPermissions
        <4>2. /\ access' = [access EXCEPT ![d] = access[d] \cup {"r", "m"}]
              /\ promised' = [promised EXCEPT ![d] = promised[d] \cup {"r", "m"}]
          BY <3>1, <3>2, <3>5, <4>1 DEF Allowing
        <4>. QED
          BY <1>1, <3>2, <4>2 DEF AllAccess
      <3>6. CASE grant /\ flags = "O_WRONLY"
        <4>1. perms = {"w", "m"}
          BY <3>6 DEF flagsToPermissions
        <4>2. /\ access' = [access EXCEPT ![d] = access[d] \cup {"w", "m"}]
              /\ promised' = [promised EXCEPT ![d] = promised[d] \cup {"w", "m"}]
          BY <3>1, <3>2, <3>6, <4>1 DEF Allowing
        <4>. QED
          BY <1>1, <3>2, <4>2 DEF AllAccess
      <3>7. CASE grant /\ flags = "other"
        BY <3>1, <3>7 DEF flagsToPermissions
      <3>. QED
        BY <3>3, <3>4, <3>5, <3>6, <3>7
    <2>. QED
      BY <2>1, <2>2
  <1>. QED
    BY <1>1, <1>2, <1>3 DEF ZoneRequestsInv, ZoneRequestsTypeOK

\* The launcher makes the file it opens, and only what it sent is received.
LEMMA FileStep ==
  ASSUME ZoneRequestsInv,
         \/ AttachLauncher \/ LauncherRuns \/ ReceiveFile
         \/ \E path \in Paths, fails \in BOOLEAN : CreateFile(path, fails)
  PROVE  ZoneRequestsInv'
  <1>. USE DEF ZoneRequestsInv, ZoneRequestsTypeOK
  <1>1. CASE AttachLauncher
    BY <1>1 DEF AttachLauncher
  <1>2. CASE LauncherRuns
    BY <1>2 DEF LauncherRuns, OpensNew
  <1>3. CASE ReceiveFile
    BY <1>3 DEF ReceiveFile, NoRequest
  <1>4. CASE \E path \in Paths, fails \in BOOLEAN : CreateFile(path, fails)
    BY <1>4, ZoneRequestsAssumption DEF CreateFile, FreeToServe
  <1>. QED
    BY <1>1, <1>2, <1>3, <1>4

LEMMA SurroundingsStep ==
  ASSUME ZoneRequestsInv,
         \/ \E d \in Devices : NodeAppears(d)
         \/ \E path \in Paths : ZoneMakes(path)
         \/ \E to \in {"running", "frozen", "stopped"} : ZoneTurns(to)
  PROVE  ZoneRequestsInv'
  <1>. USE DEF ZoneRequestsInv, ZoneRequestsTypeOK
  <1>1. CASE \E d \in Devices : NodeAppears(d)
    BY <1>1 DEF NodeAppears
  <1>2. CASE \E path \in Paths : ZoneMakes(path)
    BY <1>2 DEF ZoneMakes
  <1>3. CASE \E to \in {"running", "frozen", "stopped"} : ZoneTurns(to)
    BY <1>3 DEF ZoneTurns, NoAccess
  <1>. QED
    BY <1>1, <1>2, <1>3

LEMMA ZoneRequestsStep == ZoneRequestsInv /\ [ZoneRequestsNext]_requestVars => ZoneRequestsInv'
  <1>1. ZoneRequestsInv /\ UNCHANGED requestVars => ZoneRequestsInv'
    BY DEF requestVars, ZoneRequestsInv, ZoneRequestsTypeOK
  <1>. QED
    BY <1>1, SetDeviceAccessStep, FileStep, SurroundingsStep DEF ZoneRequestsNext

LEMMA ZoneRequestsInvHonoured == ZoneRequestsInv => ZoneRequestsTypeOK /\ RequestsHonoured
  BY DEF ZoneRequestsInv, RequestsHonoured

\* In every behaviour a zone may use what the answers say and no more, and a client is given new
\* files only.
THEOREM ZoneRequestsHonoured == ZoneRequestsSpec => [](ZoneRequestsTypeOK /\ RequestsHonoured)
  <1>1. ZoneRequestsInit => ZoneRequestsInv
    BY ZoneRequestsInitHolds
  <1>2. ZoneRequestsInv /\ [ZoneRequestsNext]_requestVars => ZoneRequestsInv'
    BY ZoneRequestsStep
  <1>3. ZoneRequestsInv => ZoneRequestsTypeOK /\ RequestsHonoured
    BY ZoneRequestsInvHonoured
  <1>. QED
    BY <1>1, <1>2, <1>3, PTL DEF ZoneRequestsSpec

-----------------------------------------------------------------------------
(* The provisions of a zone: what is declared and what is mounted.         *)

\* A sequence read from its end.
LEMMA ReverseElements ==
  ASSUME NEW S, NEW s \in Seq(S)
  PROVE  /\ Reverse(s) \in Seq(S) /\ Len(Reverse(s)) = Len(s)
         /\ \A i \in 1 .. Len(s) : Reverse(s)[i] = s[(Len(s) - i) + 1] /\ (Len(s) - i) + 1 \in 1 .. Len(s)
  <1>1. Len(s) \in Nat /\ \A i \in 1 .. Len(s) : s[i] \in S
    BY LenProperties
  <1>2. \A i \in 1 .. Len(s) : (Len(s) - i) + 1 \in 1 .. Len(s)
    BY <1>1
  <1>. QED
    BY <1>1, <1>2 DEF Reverse

LEMMA ReverseConcat ==
  ASSUME NEW S, NEW a \in Seq(S), NEW b \in Seq(S)
  PROVE  Reverse(a \o b) = Reverse(b) \o Reverse(a)
  <1>. DEFINE c == a \o b
              l == Reverse(c)
              p == Reverse(a)
              q == Reverse(b)
              m == Len(a)
              n == Len(b)
  <1>1. m \in Nat /\ n \in Nat
    BY LenProperties
  <1>2. c \in Seq(S) /\ Len(c) = m + n
        /\ \A i \in 1 .. m + n : c[i] = IF i <= m THEN a[i] ELSE b[i - m]
    BY ConcatProperties
  <1>3. l \in Seq(S) /\ Len(l) = m + n /\ \A i \in 1 .. m + n : l[i] = c[(m + n - i) + 1]
    <2>. HIDE DEF c, m, n
    <2>1. l \in Seq(S) /\ Len(l) = Len(c) /\ \A i \in 1 .. Len(c) : l[i] = c[(Len(c) - i) + 1]
      BY <1>2, ReverseElements
    <2>2. Len(c) = m + n
      BY <1>2
    <2>. HIDE DEF l
    <2>3. ASSUME NEW i \in 1 .. m + n PROVE l[i] = c[(m + n - i) + 1]
      <3>1. i \in 1 .. Len(c)
        BY <2>2
      <3>2. l[i] = c[(Len(c) - i) + 1]
        BY <2>1, <3>1
      <3>. QED
        BY <1>1, <2>2, <3>2
    <2>. QED
      BY <2>1, <2>2, <2>3
  <1>4. /\ p \in Seq(S) /\ Len(p) = m /\ \A i \in 1 .. m : p[i] = a[(m - i) + 1]
        /\ q \in Seq(S) /\ Len(q) = n /\ \A i \in 1 .. n : q[i] = b[(n - i) + 1]
    BY ReverseElements
  <1>. HIDE DEF c, l, p, q, m, n
  <1>5. q \o p \in Seq(S) /\ Len(q \o p) = n + m
        /\ \A i \in 1 .. n + m : (q \o p)[i] = IF i <= n THEN q[i] ELSE p[i - n]
    <2>1. q \o p \in Seq(S) /\ Len(q \o p) = Len(q) + Len(p)
          /\ \A i \in 1 .. Len(q) + Len(p) : (q \o p)[i] = IF i <= Len(q) THEN q[i] ELSE p[i - Len(q)]
      BY <1>4, ConcatProperties
    <2>2. Len(q) = n /\ Len(p) = m
      BY <1>4
    <2>. QED
      BY <2>1, <2>2, Zenon
  <1>6. ASSUME NEW i \in 1 .. m + n PROVE l[i] = (q \o p)[i]
    <2>0. (m + n - i) + 1 \in 1 .. m + n /\ i \in 1 .. n + m
      BY <1>1
    <2>1. CASE i <= n
      <3>1. ~((m + n - i) + 1 <= m) /\ (m + n - i) + 1 - m = (n - i) + 1 /\ i \in 1 .. n
        BY <1>1, <2>1
      <3>2. l[i] = b[(n - i) + 1]
        <4>. DEFINE k == (m + n - i) + 1
        <4>1. k \in 1 .. m + n /\ ~(k <= m) /\ k - m = (n - i) + 1
          BY <1>1, <2>0, <3>1
        <4>2. l[i] = c[k]
          BY <1>3
        <4>. HIDE DEF k
        <4>3. c[k] = b[k - m]
          BY <1>2, <4>1
        <4>. QED
          BY <4>1, <4>2, <4>3
      <3>3. q[i] = b[(n - i) + 1] /\ (q \o p)[i] = q[i]
        BY <1>4, <1>5, <2>0, <2>1, <3>1
      <3>. QED
        BY <3>2, <3>3
    <2>2. CASE ~(i <= n)
      <3>1. (m + n - i) + 1 <= m /\ (m - (i - n)) + 1 = (m + n - i) + 1 /\ i - n \in 1 .. m
        BY <1>1, <2>2
      <3>2. l[i] = a[(m + n - i) + 1]
        BY <1>2, <1>3, <2>0, <3>1
      <3>3. p[i - n] = a[(m - (i - n)) + 1]
        BY <1>4, <3>1
      <3>4. (q \o p)[i] = p[i - n]
        BY <1>5, <2>0, <2>2
      <3>. QED
        BY <3>1, <3>2, <3>3, <3>4
    <2>. QED
      BY <2>1, <2>2
  <1>7. Len(l) = Len(q \o p)
    BY <1>1, <1>3, <1>5
  <1>8. \A i \in 1 .. Len(l) : l[i] = (q \o p)[i]
    BY <1>3, <1>6
  <1>9. l = q \o p
    BY <1>3, <1>5, <1>7, <1>8, SeqEqual
  <1>. QED
    BY <1>9 DEF c, l, p, q

LEMMA ReverseShort ==
  ASSUME NEW S, NEW x \in S
  PROVE  <<x>> \in Seq(S) /\ <<>> \in Seq(S) /\ Reverse(<<x>>) = <<x>> /\ Reverse(<<>>) = <<>>
  <1>1. <<x>> \in Seq(S) /\ Len(<<x>>) = 1 /\ <<x>>[1] = x
    OBVIOUS
  <1>2. /\ Reverse(<<x>>) \in Seq(S) /\ Len(Reverse(<<x>>)) = 1
        /\ \A i \in 1 .. 1 : Reverse(<<x>>)[i] = <<x>>[(1 - i) + 1]
    BY <1>1, ReverseElements
  <1>3. \A i \in 1 .. 1 : Reverse(<<x>>)[i] = <<x>>[i]
    BY <1>2
  <1>4. Reverse(<<x>>) = <<x>>
    BY <1>1, <1>2, <1>3, SeqEqual
  <1>5. <<>> \in Seq(S) /\ Len(<<>>) = 0
    BY EmptySeq
  <1>6. Reverse(<<>>) \in Seq(S) /\ Len(Reverse(<<>>)) = 0
    BY <1>5, ReverseElements
  <1>7. Reverse(<<>>) = <<>>
    BY <1>6, EmptySeq
  <1>. QED
    BY <1>1, <1>4, <1>5, <1>7

\* A sequence is built from its beginnings.
LEMMA Beginnings ==
  ASSUME NEW S, NEW s \in Seq(S)
  PROVE  /\ SubSeq(s, 1, 0) = <<>> /\ SubSeq(s, 1, Len(s)) = s
         /\ \A n \in 0 .. Len(s) : SubSeq(s, 1, n) \in Seq(S) /\ Len(SubSeq(s, 1, n)) = n
         /\ \A n \in 0 .. Len(s) - 1 : /\ s[n + 1] \in S
                                       /\ SubSeq(s, 1, n + 1) = SubSeq(s, 1, n) \o <<s[n + 1]>>
  <1>1. Len(s) \in Nat
    BY LenProperties
  <1>2. SubSeq(s, 1, 0) = <<>>
    BY SubSeqEmpty
  <1>3. SubSeq(s, 1, Len(s)) = s
    BY SubSeqFull
  <1>4. \A n \in 0 .. Len(s) : SubSeq(s, 1, n) \in Seq(S) /\ Len(SubSeq(s, 1, n)) = n
    BY CutElements
  <1>5. ASSUME NEW n \in 0 .. Len(s) - 1
        PROVE  s[n + 1] \in S /\ SubSeq(s, 1, n + 1) = SubSeq(s, 1, n) \o <<s[n + 1]>>
    <2>1. 1 \in 1 .. Len(s) /\ n + 1 \in 1 .. Len(s) /\ (n + 1) - 1 = n
      BY <1>1
    <2>2. s[n + 1] \in S
      BY <2>1, ElementOfSeq
    <2>3. SubSeq(s, 1, n + 1) = SubSeq(s, 1, (n + 1) - 1) \o <<s[n + 1]>>
      BY <2>1, SubSeqRecursiveSecond
    <2>. QED
      BY <2>1, <2>2, <2>3
  <1>. QED
    BY <1>2, <1>3, <1>4, <1>5

-----------------------------------------------------------------------------
(* What is selected of a sequence.                                         *)

Gathers(f, s, S) ==
  /\ f[0] = <<>>
  /\ \A n \in 1 .. Len(s) : f[n] = IF s[n] \in S THEN Append(f[n - 1], s[n]) ELSE f[n - 1]

LEMMA AmongDefined ==
  ASSUME NEW D, NEW s \in Seq(D), NEW S
  PROVE  \E f \in [0 .. Len(s) -> Seq(D \cap S)] : Gathers(f, s, S) /\ Among(s, S) = f[Len(s)]
  <1>. DEFINE N == Len(s)
              Q == Seq(D \cap S)
              next == [n \in 1 .. N |-> [q \in Q |-> IF s[n] \in S THEN Append(q, s[n]) ELSE q]]
              Body(f) == [n \in 0 .. N |->
                            IF n = 0 THEN <<>> ELSE IF s[n] \in S THEN Append(f[n - 1], s[n]) ELSE f[n - 1]]
              up == CHOOSE f : f = Body(f)
  <1>1. N \in Nat /\ <<>> \in Q /\ \A n \in 1 .. N : s[n] \in D
    BY LenProperties, ElementOfSeq
  <1>2. next \in [1 .. N -> [Q -> Q]]
    BY <1>1, AppendProperties
  <1>3. \A n \in 1 .. N, q \in Q : next[n][q] = IF s[n] \in S THEN Append(q, s[n]) ELSE q
    OBVIOUS
  <1>. HIDE DEF next, N, Q
  <1>4. PICK f \in [0 .. N -> Q] : Iterates(f, N, <<>>, next)
    BY <1>1, <1>2, DefinedUpTo
  <1>5. \A n \in 1 .. N : n - 1 \in 0 .. N /\ f[n - 1] \in Q
    BY <1>1, <1>4
  <1>6. \A n \in 1 .. N : f[n] = IF s[n] \in S THEN Append(f[n - 1], s[n]) ELSE f[n - 1]
    BY <1>3, <1>4, <1>5 DEF Iterates
  <1>7. \A n \in 0 .. N : f[n] = Body(f)[n]
    <2>1. \A n \in 0 .. N : n # 0 => n \in 1 .. N
      BY <1>1
    <2>. QED
      BY <1>4, <1>6, <2>1 DEF Iterates
  <1>8. f = Body(f)
    BY <1>4, <1>7
  <1>9. up = Body(up)
    BY <1>8
  <1>10. Among(s, S) = up[N]
    BY DEF Among, N
  <1>. HIDE DEF up
  <1>. DEFINE T == {n \in 0 .. N : up[n] = f[n]}
  <1>11. up[0] = <<>> /\ 0 \in T
    BY <1>1, <1>4, <1>9 DEF Iterates
  <1>12. ASSUME NEW n \in 0 .. N - 1, n \in T PROVE n + 1 \in T
    <2>1. n + 1 \in 1 .. N /\ n + 1 \in 0 .. N /\ (n + 1) - 1 = n /\ n + 1 # 0
      BY <1>1
    <2>2. up[n + 1] = IF s[n + 1] \in S THEN Append(up[n], s[n + 1]) ELSE up[n]
      BY <1>9, <2>1
    <2>. QED
      BY <1>6, <1>12, <2>1, <2>2
  <1>13. 0 .. N \subseteq T
    <2>. HIDE DEF T
    <2>. QED
      BY <1>1, <1>11, <1>12, CountedUpTo
  <1>14. \A n \in 0 .. N : up[n] = f[n]
    BY <1>13
  <1>15. N \in 0 .. N
    BY <1>1
  <1>16. Among(s, S) = f[N]
    BY <1>10, <1>14, <1>15
  <1>. QED
    BY <1>4, <1>6, <1>16 DEF N, Q, Iterates, Gathers

LEMMA AmongTyped ==
  ASSUME NEW D, NEW s \in Seq(D), NEW S
  PROVE  Among(s, S) \in Seq(D \cap S)
  <1>1. Len(s) \in Nat
    BY LenProperties
  <1>. QED
    BY <1>1, AmongDefined

LEMMA AmongShort ==
  ASSUME NEW D, NEW x \in D, NEW S
  PROVE  Among(<<x>>, S) = (IF x \in S THEN <<x>> ELSE <<>>)
  <1>1. <<x>> \in Seq(D) /\ Len(<<x>>) = 1 /\ <<x>>[1] = x /\ <<>> \in Seq(D) /\ Len(<<>>) = 0
    OBVIOUS
  <1>2. PICK f \in [0 .. Len(<<x>>) -> Seq(D \cap S)] : Gathers(f, <<x>>, S) /\ Among(<<x>>, S) = f[Len(<<x>>)]
    BY <1>1, AmongDefined
  <1>3. f[1] = IF x \in S THEN Append(<<>>, x) ELSE <<>>
    BY <1>1, <1>2 DEF Gathers
  <1>4. Append(<<>>, x) = <<x>>
    OBVIOUS
  <1>. QED
    BY <1>1, <1>2, <1>3, <1>4

LEMMA AmongNone ==
  ASSUME NEW S
  PROVE  Among(<<>>, S) = <<>>
  <1>1. <<>> \in Seq(S) /\ Len(<<>>) = 0
    OBVIOUS
  <1>2. PICK g \in [0 .. Len(<<>>) -> Seq(S \cap S)] : Gathers(g, <<>>, S) /\ Among(<<>>, S) = g[Len(<<>>)]
    BY <1>1, AmongDefined
  <1>. QED
    BY <1>1, <1>2 DEF Gathers

\* The selection of two sequences that are joined.
LEMMA AmongConcat ==
  ASSUME NEW D, NEW s \in Seq(D), NEW t \in Seq(D), NEW S
  PROVE  Among(s \o t, S) = Among(s, S) \o Among(t, S)
  <1>. DEFINE m == Len(s)
              n == Len(t)
              E == D \cap S
              u == s \o t
  <1>1. m \in Nat /\ n \in Nat /\ \A i \in 1 .. n : t[i] \in D
    BY LenProperties
  <1>2. u \in Seq(D) /\ Len(u) = m + n /\ \A i \in 1 .. m + n : u[i] = IF i <= m THEN s[i] ELSE t[i - m]
    BY ConcatProperties
  <1>3. PICK f \in [0 .. m -> Seq(E)] : Gathers(f, s, S) /\ Among(s, S) = f[m]
    BY AmongDefined
  <1>4. PICK g \in [0 .. n -> Seq(E)] : Gathers(g, t, S) /\ Among(t, S) = g[n]
    BY AmongDefined
  <1>5. PICK h \in [0 .. Len(u) -> Seq(E)] : Gathers(h, u, S) /\ Among(u, S) = h[Len(u)]
    BY <1>2, AmongDefined
  <1>. HIDE DEF E, u
  <1>6. /\ f[0] = <<>> /\ \A i \in 1 .. m : f[i] = IF s[i] \in S THEN Append(f[i - 1], s[i]) ELSE f[i - 1]
        /\ g[0] = <<>> /\ \A i \in 1 .. n : g[i] = IF t[i] \in S THEN Append(g[i - 1], t[i]) ELSE g[i - 1]
    BY <1>3, <1>4 DEF Gathers
  <1>7. h[0] = <<>> /\ \A i \in 1 .. m + n : h[i] = IF u[i] \in S THEN Append(h[i - 1], u[i]) ELSE h[i - 1]
    BY <1>2, <1>5, Zenon DEF Gathers
  <1>8. Among(u, S) = h[m + n]
    BY <1>2, <1>5, Zenon
  <1>. HIDE DEF m, n
  <1>9. h[m] = f[m]
    <2>. DEFINE T == {i \in 0 .. m : h[i] = f[i]}
    <2>1. 0 \in T
      BY <1>1, <1>6, <1>7
    <2>2. ASSUME NEW i \in 0 .. m - 1, i \in T PROVE i + 1 \in T
      <3>1. i + 1 \in 1 .. m /\ i + 1 \in 1 .. m + n /\ (i + 1) - 1 = i /\ i + 1 <= m /\ i + 1 \in 0 .. m
        BY <1>1
      <3>2. u[i + 1] = s[i + 1]
        BY <1>2, <3>1
      <3>3. f[i + 1] = IF s[i + 1] \in S THEN Append(f[i], s[i + 1]) ELSE f[i]
        BY <1>6, <3>1
      <3>4. h[i + 1] = IF u[i + 1] \in S THEN Append(h[i], u[i + 1]) ELSE h[i]
        BY <1>7, <3>1
      <3>. QED
        BY <2>2, <3>1, <3>2, <3>3, <3>4
    <2>. HIDE DEF T
    <2>3. 0 .. m \subseteq T
      BY <1>1, <2>1, <2>2, CountedUpTo
    <2>. QED
      BY <1>1, <2>3 DEF T
  <1>10. h[m + n] = f[m] \o g[n]
    <2>. DEFINE T == {i \in 0 .. n : h[m + i] = f[m] \o g[i]}
    <2>0. f[m] \in Seq(E) /\ m + 0 = m
      BY <1>1, <1>3
    <2>1. 0 \in T
      <3>1. f[m] \o <<>> = f[m]
        BY <2>0, ConcatEmptySeq
      <3>2. f[m] \o g[0] = f[m]
        BY <1>6, <3>1, Zenon
      <3>3. h[m + 0] = f[m] /\ 0 \in 0 .. n
        BY <1>1, <1>9, <2>0
      <3>4. h[m + 0] = f[m] \o g[0]
        BY <3>2, <3>3, Zenon
      <3>. QED
        BY <3>3, <3>4
    <2>2. ASSUME NEW i \in 0 .. n - 1, i \in T PROVE i + 1 \in T
      <3>1. i + 1 \in 1 .. n /\ m + (i + 1) \in 1 .. m + n /\ (m + (i + 1)) - 1 = m + i /\ ~(m + (i + 1) <= m)
            /\ (m + (i + 1)) - m = i + 1 /\ (i + 1) - 1 = i /\ i \in 0 .. n /\ i + 1 \in 0 .. n
        BY <1>1
      <3>2. u[m + (i + 1)] = t[i + 1]
        BY <1>2, <3>1
      <3>3. g[i + 1] = IF t[i + 1] \in S THEN Append(g[i], t[i + 1]) ELSE g[i]
        BY <1>6, <3>1
      <3>4. h[m + (i + 1)] = IF t[i + 1] \in S THEN Append(h[m + i], t[i + 1]) ELSE h[m + i]
        <4>1. h[m + (i + 1)] = IF u[m + (i + 1)] \in S THEN Append(h[(m + (i + 1)) - 1], u[m + (i + 1)])
                               ELSE h[(m + (i + 1)) - 1]
          BY <1>7, <3>1
        <4>. QED
          BY <3>1, <3>2, <4>1
      <3>5. h[m + i] = f[m] \o g[i] /\ g[i] \in Seq(E)
        BY <1>4, <2>2, <3>1
      <3>6. CASE t[i + 1] \in S
        <4>1. t[i + 1] \in E
          BY <1>1, <3>1, <3>6 DEF E
        <4>2. Append(f[m] \o g[i], t[i + 1]) = f[m] \o Append(g[i], t[i + 1])
          <5>. DEFINE x == t[i + 1]
                      a == f[m]
                      b == g[i]
          <5>1. x \in E /\ a \in Seq(E) /\ b \in Seq(E) /\ <<x>> \in Seq(E)
            BY <2>0, <3>5, <4>1
          <5>. HIDE DEF x, a, b
          <5>2. a \o b \in Seq(E)
            BY <5>1, ConcatProperties
          <5>3. Append(a \o b, x) = (a \o b) \o <<x>> /\ Append(b, x) = b \o <<x>>
            BY <5>1, <5>2, AppendIsConcat
          <5>4. (a \o b) \o <<x>> = a \o (b \o <<x>>)
            BY <5>1, ConcatAssociative
          <5>5. Append(a \o b, x) = a \o Append(b, x)
            BY <5>3, <5>4
          <5>. QED
            BY <5>5 DEF x, a, b
        <4>. QED
          BY <3>1, <3>3, <3>4, <3>5, <3>6, <4>2
      <3>7. CASE t[i + 1] \notin S
        BY <3>1, <3>3, <3>4, <3>5, <3>7
      <3>. QED
        BY <3>6, <3>7
    <2>. HIDE DEF T
    <2>3. 0 .. n \subseteq T
      BY <1>1, <2>1, <2>2, CountedUpTo
    <2>. QED
      BY <1>1, <2>3 DEF T
  <1>. QED
    BY <1>3, <1>4, <1>8, <1>10 DEF u

LEMMA AmongReverse ==
  ASSUME NEW D, NEW s \in Seq(D), NEW S
  PROVE  Among(Reverse(s), S) = Reverse(Among(s, S))
  <1>. DEFINE p(n) == SubSeq(s, 1, n)
              T == {n \in 0 .. Len(s) : Among(Reverse(p(n)), S) = Reverse(Among(p(n), S))}
  <1>1. Len(s) \in Nat
    BY LenProperties
  <1>2. /\ p(0) = <<>> /\ p(Len(s)) = s
        /\ \A n \in 0 .. Len(s) : p(n) \in Seq(D)
        /\ \A n \in 0 .. Len(s) - 1 : s[n + 1] \in D /\ p(n + 1) = p(n) \o <<s[n + 1]>>
    BY Beginnings
  <1>. HIDE DEF p
  <1>3. Reverse(<<>>) = <<>> /\ Among(<<>>, S) = <<>>
    <2>1. Reverse(<<>>) = <<>>
      BY DEF Reverse
    <2>. QED
      BY <2>1, AmongNone
  <1>4. 0 \in T
    BY <1>1, <1>2, <1>3
  <1>5. ASSUME NEW n \in 0 .. Len(s) - 1, n \in T PROVE n + 1 \in T
    <2>. DEFINE x == s[n + 1]
                a == p(n)
                w == <<x>>
    <2>1. x \in D /\ a \in Seq(D) /\ n + 1 \in 0 .. Len(s)
      BY <1>1, <1>2
    <2>0. p(n + 1) = a \o w
      BY <1>1, <1>2
    <2>2. Among(Reverse(a), S) = Reverse(Among(a, S))
      BY <1>5
    <2>3. w \in Seq(D)
      BY <2>1
    <2>12. Reverse(w) = w /\ Among(w, S) = (IF x \in S THEN w ELSE <<>>)
      <3>. HIDE DEF x
      <3>. QED
        BY <2>1, ReverseShort, AmongShort
    <2>. HIDE DEF x, a, w
    <2>4. Reverse(a \o w) = w \o Reverse(a)
      <3>1. Reverse(a \o w) = Reverse(w) \o Reverse(a)
        BY <2>1, <2>3, ReverseConcat
      <3>. QED
        BY <2>12, <3>1
    <2>5. Reverse(a) \in Seq(D)
      BY <2>1, ReverseElements
    <2>6. Among(w \o Reverse(a), S) = Among(w, S) \o Among(Reverse(a), S)
      BY <2>3, <2>5, AmongConcat
    <2>7. Among(a \o w, S) = Among(a, S) \o Among(w, S)
      BY <2>1, <2>3, AmongConcat
    <2>8. Among(a, S) \in Seq(D \cap S) /\ Among(w, S) \in Seq(D \cap S)
      BY <2>1, <2>3, AmongTyped
    <2>9. Reverse(Among(a, S) \o Among(w, S)) = Reverse(Among(w, S)) \o Reverse(Among(a, S))
      BY <2>8, ReverseConcat
    <2>10. Reverse(Among(w, S)) = Among(w, S)
      BY <1>3, <2>12
    <2>11. Among(Reverse(a \o w), S) = Reverse(Among(a \o w, S))
      BY <2>2, <2>4, <2>6, <2>7, <2>9, <2>10, Zenon
    <2>. QED
      BY <2>0, <2>1, <2>11
  <1>. HIDE DEF T
  <1>6. 0 .. Len(s) \subseteq T
    BY <1>1, <1>4, <1>5, CountedUpTo
  <1>7. Len(s) \in T
    BY <1>1, <1>6
  <1>. QED
    BY <1>2, <1>7 DEF T

LEMMA AmongAll ==
  ASSUME NEW S, NEW s \in Seq(S)
  PROVE  Among(s, S) = s
  <1>. DEFINE p(n) == SubSeq(s, 1, n)
              T == {n \in 0 .. Len(s) : Among(p(n), S) = p(n)}
  <1>1. Len(s) \in Nat
    BY LenProperties
  <1>2. /\ p(0) = <<>> /\ p(Len(s)) = s
        /\ \A n \in 0 .. Len(s) : p(n) \in Seq(S)
        /\ \A n \in 0 .. Len(s) - 1 : s[n + 1] \in S /\ p(n + 1) = p(n) \o <<s[n + 1]>>
    BY Beginnings
  <1>. HIDE DEF p
  <1>4. 0 \in T
    BY <1>1, <1>2, AmongNone
  <1>5. ASSUME NEW n \in 0 .. Len(s) - 1, n \in T PROVE n + 1 \in T
    <2>. DEFINE x == s[n + 1]
                a == p(n)
                w == <<x>>
    <2>1. x \in S /\ a \in Seq(S) /\ n + 1 \in 0 .. Len(s)
      BY <1>1, <1>2
    <2>0. p(n + 1) = a \o w
      BY <1>1, <1>2
    <2>2. Among(a, S) = a
      BY <1>5
    <2>3. w \in Seq(S)
      BY <2>1
    <2>12. Among(w, S) = w
      <3>. HIDE DEF x
      <3>. QED
        BY <2>1, AmongShort
    <2>. HIDE DEF x, a, w
    <2>4. Among(a \o w, S) = Among(a, S) \o Among(w, S)
      BY <2>1, <2>3, AmongConcat
    <2>5. Among(a \o w, S) = a \o w
      BY <2>2, <2>12, <2>4, Zenon
    <2>. QED
      BY <2>0, <2>1, <2>5
  <1>. HIDE DEF T
  <1>6. 0 .. Len(s) \subseteq T
    BY <1>1, <1>4, <1>5, CountedUpTo
  <1>7. Len(s) \in T
    BY <1>1, <1>6
  <1>. QED
    BY <1>2, <1>7 DEF T

LEMMA ReverseTwice ==
  ASSUME NEW S, NEW s \in Seq(S)
  PROVE  Reverse(Reverse(s)) = s
  <1>. DEFINE r == Reverse(s)
              n == Len(s)
  <1>1. n \in Nat
    BY LenProperties
  <1>2. r \in Seq(S) /\ Len(r) = n /\ \A i \in 1 .. n : r[i] = s[(n - i) + 1] /\ (n - i) + 1 \in 1 .. n
    BY ReverseElements
  <1>. HIDE DEF r
  <1>3. Reverse(r) \in Seq(S) /\ Len(Reverse(r)) = Len(r) /\ \A i \in 1 .. Len(r) : Reverse(r)[i] = r[(Len(r) - i) + 1]
    BY <1>2, ReverseElements
  <1>. HIDE DEF n
  <1>4. ASSUME NEW i \in 1 .. n PROVE Reverse(r)[i] = s[i]
    <2>1. i \in 1 .. Len(r)
      BY <1>2
    <2>2. Reverse(r)[i] = r[(Len(r) - i) + 1]
      BY <1>3, <2>1
    <2>3. (n - i) + 1 \in 1 .. n /\ (n - ((n - i) + 1)) + 1 = i
      BY <1>1
    <2>4. r[(n - i) + 1] = s[(n - ((n - i) + 1)) + 1]
      BY <1>2, <2>3
    <2>. QED
      BY <1>1, <1>2, <2>2, <2>3, <2>4
  <1>5. Len(Reverse(r)) = n
    BY <1>2, <1>3
  <1>6. Reverse(r) = s
    BY <1>3, <1>4, <1>5, SeqEqual DEF n
  <1>. QED
    BY <1>6 DEF r

\* A sequence without one of its elements.
LEMMA RemovedElements ==
  ASSUME NEW S, NEW s \in Seq(S), NEW i \in 1 .. Len(s)
  PROVE  RemoveAt(s, i) \in Seq(S) /\ ToSet(s) \ {s[i]} \subseteq ToSet(RemoveAt(s, i))
  <1>. DEFINE p == SubSeq(s, 1, i - 1)
              r == SubSeq(s, i + 1, Len(s))
  <1>1. Len(s) \in Nat /\ DOMAIN s = 1 .. Len(s) /\ i \in 0 .. Len(s) /\ i - 1 \in 0 .. Len(s)
    BY LenProperties
  <1>2. p \in Seq(S) /\ Len(p) = i - 1 /\ \A j \in DOMAIN p : p[j] = s[j]
    BY <1>1, CutElements
  <1>3. /\ r \in Seq(S) /\ ToSet(s) = ToSet(SubSeq(s, 1, i)) \cup ToSet(r)
        /\ Len(SubSeq(s, 1, i)) = i /\ \A j \in DOMAIN SubSeq(s, 1, i) : SubSeq(s, 1, i)[j] = s[j]
        /\ SubSeq(s, 1, i) \in Seq(S)
    BY <1>1, CutElements
  <1>4. DOMAIN p = 1 .. i - 1 /\ DOMAIN SubSeq(s, 1, i) = 1 .. i
    BY <1>2, <1>3, LenProperties
  <1>5. RemoveAt(s, i) = p \o r
    BY DEF RemoveAt
  <1>. HIDE DEF p, r
  <1>6. p \o r \in Seq(S) /\ ToSet(p \o r) = ToSet(p) \cup ToSet(r)
    BY <1>2, <1>3, ConcatSet
  <1>7. ASSUME NEW x \in ToSet(SubSeq(s, 1, i)), x # s[i] PROVE x \in ToSet(p)
    <2>1. PICK j \in 1 .. i : x = s[j]
      BY <1>3, <1>4 DEF ToSet
    <2>2. j \in 1 .. i - 1
      BY <1>1, <1>7, <2>1
    <2>. QED
      BY <1>2, <1>4, <2>1, <2>2 DEF ToSet
  <1>. QED
    BY <1>3, <1>5, <1>6, <1>7

-----------------------------------------------------------------------------
(* The kernel's mounts, and what undoes them.                              *)

LEMMA TopmostFound ==
  ASSUME NEW ms \in Seq(MountDecls), NEW t
  PROVE  /\ Topmost(ms, t) \in Nat /\ Topmost(ms, t) <= Len(ms)
         /\ Topmost(ms, t) # 0 => Topmost(ms, t) \in Covering(ms, t)
         /\ \A i \in Covering(ms, t) : i \in Nat /\ i <= Topmost(ms, t)
  <1>. DEFINE T == {0} \cup Covering(ms, t)
  <1>1. Len(ms) \in Nat /\ DOMAIN ms = 1 .. Len(ms)
    BY LenProperties
  <1>2. T \subseteq 0 .. Len(ms) /\ T # {} /\ Covering(ms, t) \subseteq T /\ \A i \in T : i # 0 => i \in Covering(ms, t)
    BY <1>1 DEF Covering
  <1>3. Topmost(ms, t) = Max(T)
    BY DEF Topmost
  <1>. HIDE DEF T
  <1>4. Max(T) \in T /\ \A j \in T : j <= Max(T)
    BY <1>1, <1>2, GreatestElement
  <1>. DEFINE M == Topmost(ms, t)
  <1>5. M \in T /\ \A j \in T : j <= M
    BY <1>3, <1>4
  <1>. HIDE DEF M
  <1>6. M \in Nat /\ M <= Len(ms)
    BY <1>1, <1>2, <1>5
  <1>7. M # 0 => M \in Covering(ms, t)
    BY <1>2, <1>5
  <1>8. \A i \in Covering(ms, t) : i \in Nat /\ i <= M
    <2>1. Covering(ms, t) \subseteq T /\ T \subseteq 0 .. Len(ms)
      BY <1>2
    <2>. HIDE DEF M
    <2>2. \A i \in Covering(ms, t) : i <= M
      BY <1>5, <2>1, Zenon
    <2>3. ASSUME NEW i \in Covering(ms, t) PROVE i \in Nat
      <3>1. i \in 0 .. Len(ms)
        BY <2>1, Zenon
      <3>. QED
        BY <1>1, <3>1
    <2>. QED
      BY <2>2, <2>3
  <1>. QED
    BY <1>6, <1>7, <1>8 DEF M

UndoStates == [ms : Seq(MountDecls), kept : Seq(MountDecls)]

LEMMA UndoTyped ==
  ASSUME NEW s \in UndoStates, NEW d, NEW busy
  PROVE  Undo(s, d, busy) \in UndoStates
  <1>. DEFINE i == Topmost(s.ms, Target[d])
  <1>1. s.ms \in Seq(MountDecls) /\ s.kept \in Seq(MountDecls)
    BY DEF UndoStates
  <1>2. CASE d \notin MountDecls
    BY <1>2 DEF Undo
  <1>3. CASE d \in MountDecls /\ Umountable(s.ms, Target[d], busy)
    <2>1. i > 0
      BY <1>3 DEF Umountable
    <2>2. i \in Nat /\ i <= Len(s.ms)
      BY <1>1, TopmostFound
    <2>3. i \in 1 .. Len(s.ms)
      BY <1>1, <2>1, <2>2, LenProperties
    <2>4. RemoveAt(s.ms, i) \in Seq(MountDecls)
      <3>. HIDE DEF i
      <3>. QED
        BY <1>1, <2>3, RemovedElements
    <2>. QED
      BY <1>3, <2>4 DEF Undo, UndoStates
  <1>4. CASE d \in MountDecls /\ ~Umountable(s.ms, Target[d], busy)
    <2>1. Append(s.kept, d) \in Seq(MountDecls)
      BY <1>1, <1>4
    <2>. QED
      BY <1>4, <2>1 DEF Undo, UndoStates
  <1>. QED
    BY <1>2, <1>3, <1>4

UndoesEach(f, busy) ==
  /\ f[0] = [ms |-> mounted, kept |-> <<>>]
  /\ \A n \in 1 .. Len(mProvisioned) : f[n] = Undo(f[n - 1], mProvisioned[n], busy)

LEMMA UndoneDefined ==
  ASSUME mounted \in Seq(MountDecls), mProvisioned \in Seq(Decls), NEW busy
  PROVE  \E f \in [0 .. Len(mProvisioned) -> UndoStates] :
           UndoesEach(f, busy) /\ Undone(busy) = f[Len(mProvisioned)]
  <1>. DEFINE N == Len(mProvisioned)
              x == [ms |-> mounted, kept |-> <<>>]
              next == [n \in 1 .. N |-> [q \in UndoStates |-> Undo(q, mProvisioned[n], busy)]]
              Body(f) == [n \in 0 .. N |-> IF n = 0 THEN x ELSE Undo(f[n - 1], mProvisioned[n], busy)]
              up == CHOOSE f : f = Body(f)
  <1>1. N \in Nat /\ x \in UndoStates
    BY LenProperties DEF UndoStates
  <1>2. next \in [1 .. N -> [UndoStates -> UndoStates]]
    BY UndoTyped
  <1>3. \A n \in 1 .. N, q \in UndoStates : next[n][q] = Undo(q, mProvisioned[n], busy)
    OBVIOUS
  <1>10. Undone(busy) = up[N]
    BY DEF Undone
  <1>. HIDE DEF next, N, x
  <1>4. PICK f \in [0 .. N -> UndoStates] : Iterates(f, N, x, next)
    BY <1>1, <1>2, DefinedUpTo
  <1>5. \A n \in 1 .. N : n - 1 \in 0 .. N /\ f[n - 1] \in UndoStates
    BY <1>1, <1>4
  <1>6. \A n \in 1 .. N : f[n] = Undo(f[n - 1], mProvisioned[n], busy)
    BY <1>3, <1>4, <1>5 DEF Iterates
  <1>7. \A n \in 0 .. N : f[n] = Body(f)[n]
    <2>1. \A n \in 0 .. N : n # 0 => n \in 1 .. N
      BY <1>1
    <2>. QED
      BY <1>4, <1>6, <2>1 DEF Iterates
  <1>8. f = Body(f)
    BY <1>4, <1>7
  <1>9. up = Body(up)
    BY <1>8
  <1>. HIDE DEF up
  <1>. DEFINE T == {n \in 0 .. N : up[n] = f[n]}
  <1>11. up[0] = x /\ 0 \in T
    BY <1>1, <1>4, <1>9 DEF Iterates
  <1>12. ASSUME NEW n \in 0 .. N - 1, n \in T PROVE n + 1 \in T
    <2>1. n + 1 \in 1 .. N /\ n + 1 \in 0 .. N /\ (n + 1) - 1 = n /\ n + 1 # 0
      BY <1>1
    <2>2. up[n + 1] = Undo(up[n], mProvisioned[n + 1], busy)
      BY <1>9, <2>1
    <2>. QED
      BY <1>6, <1>12, <2>1, <2>2
  <1>13. 0 .. N \subseteq T
    <2>. HIDE DEF T
    <2>. QED
      BY <1>1, <1>11, <1>12, CountedUpTo
  <1>14. \A n \in 0 .. N : up[n] = f[n]
    BY <1>13
  <1>15. N \in 0 .. N
    BY <1>1
  <1>16. Undone(busy) = f[N]
    BY <1>10, <1>14, <1>15
  <1>. QED
    BY <1>4, <1>6, <1>16 DEF N, x, Iterates, UndoesEach

\* Of the mounts of R, no one can be undone while those after it stay.
Blocks(e, d) ==
  Target[e] = Target[d] \/ <<Target[e], Target[d]>> \in Above \/ <<Target[d], Target[e]>> \in Above

Held(R, busy) ==
  \A i \in 1 .. Len(R) : Target[R[i]] \in busy \/ \E j \in 1 .. Len(R) : i < j /\ Blocks(R[j], R[i])

\* A mount d among others: before it A, and after it R.
Inserted(ms, A, d, R) ==
  /\ Len(ms) = (Len(A) + 1) + Len(R) /\ ms[Len(A) + 1] = d
  /\ \A j \in 1 .. Len(R) : ms[(Len(A) + 1) + j] = R[j]
  /\ RemoveAt(ms, Len(A) + 1) = A \o R
  /\ ms = A \o (<<d>> \o R)

LEMMA Between ==
  ASSUME NEW S, NEW A \in Seq(S), NEW d \in S, NEW R \in Seq(S), NEW ms, ms = (A \o <<d>>) \o R
  PROVE  ms \in Seq(S) /\ Inserted(ms, A, d, R)
  <1>. DEFINE w == <<d>>
              k == Len(A) + 1
              B == A \o w
  <1>1. w \in Seq(S) /\ Len(w) = 1 /\ w[1] = d
    OBVIOUS
  <1>2. Len(A) \in Nat /\ Len(R) \in Nat /\ k \in Nat /\ k > 0
    BY LenProperties
  <1>. HIDE DEF w
  <1>3. B \in Seq(S) /\ Len(B) = k /\ B[k] = d /\ \A i \in 1 .. Len(A) : B[i] = A[i]
    <2>1. /\ B \in Seq(S) /\ Len(B) = Len(A) + Len(w)
          /\ \A i \in 1 .. Len(A) + Len(w) : B[i] = IF i <= Len(A) THEN A[i] ELSE w[i - Len(A)]
      BY <1>1, ConcatProperties
    <2>2. k \in 1 .. Len(A) + Len(w) /\ ~(k <= Len(A)) /\ k - Len(A) = 1
      BY <1>1, <1>2
    <2>3. B[k] = d
      BY <1>1, <2>1, <2>2
    <2>4. \A i \in 1 .. Len(A) : i \in 1 .. Len(A) + Len(w) /\ i <= Len(A)
      BY <1>1, <1>2
    <2>. QED
      BY <1>1, <2>1, <2>3, <2>4
  <1>4. A \o (w \o R) = B \o R
    BY <1>1, ConcatAssociative
  <1>. HIDE DEF B, k
  <1>5. ms = B \o R
    BY DEF B, w
  <1>6. /\ ms \in Seq(S) /\ Len(ms) = k + Len(R)
        /\ \A i \in 1 .. k + Len(R) : ms[i] = IF i <= k THEN B[i] ELSE R[i - k]
    <2>1. /\ B \o R \in Seq(S) /\ Len(B \o R) = Len(B) + Len(R)
          /\ \A i \in 1 .. Len(B) + Len(R) : (B \o R)[i] = IF i <= Len(B) THEN B[i] ELSE R[i - Len(B)]
      BY <1>3, ConcatProperties
    <2>2. Len(B) = k
      BY <1>3
    <2>. QED
      BY <1>5, <2>1, <2>2, Zenon
  <1>7. ms[k] = d
    <2>1. k \in 1 .. k + Len(R) /\ k <= k
      BY <1>2
    <2>. QED
      BY <1>3, <1>6, <2>1
  <1>8. ASSUME NEW j \in 1 .. Len(R) PROVE ms[k + j] = R[j]
    <2>1. k + j \in 1 .. k + Len(R) /\ ~(k + j <= k) /\ (k + j) - k = j
      BY <1>2
    <2>. QED
      BY <1>6, <2>1
  <1>9. ASSUME NEW j \in 1 .. Len(A) PROVE ms[j] = A[j]
    <2>1. j \in 1 .. k + Len(R) /\ j <= k
      BY <1>2 DEF k
    <2>. QED
      BY <1>3, <1>6, <2>1
  <1>10. SubSeq(ms, 1, k - 1) = A
    <2>0. k - 1 = Len(A) /\ Len(A) \in 0 .. Len(ms)
      BY <1>2, <1>6 DEF k
    <2>. DEFINE p == SubSeq(ms, 1, Len(A))
    <2>1. p \in Seq(S) /\ Len(p) = Len(A) /\ \A i \in DOMAIN p : p[i] = ms[i]
      BY <1>6, <2>0, CutElements
    <2>2. DOMAIN p = 1 .. Len(A)
      BY <2>1, LenProperties
    <2>. HIDE DEF p
    <2>3. p = A
      BY <1>9, <2>1, <2>2, SeqEqual
    <2>. QED
      BY <2>0, <2>3 DEF p
  <1>11. SubSeq(ms, k + 1, Len(ms)) = R
    <2>0. k \in 0 .. Len(ms) /\ Len(ms) - k = Len(R)
      BY <1>2, <1>6
    <2>. DEFINE p == SubSeq(ms, k + 1, Len(ms))
    <2>a. ms \in Seq(S)
      BY <1>6
    <2>1. p \in Seq(S) /\ Len(p) = Len(ms) - k /\ \A i \in DOMAIN p : p[i] = ms[k + i]
      BY <2>a, <2>0, CutElements
    <2>2. DOMAIN p = 1 .. Len(R)
      BY <2>0, <2>1, LenProperties
    <2>. HIDE DEF p
    <2>3. Len(p) = Len(R) /\ \A i \in 1 .. Len(p) : p[i] = R[i]
      BY <1>8, <2>0, <2>1, <2>2
    <2>4. p = R
      BY <2>1, <2>3, SeqEqual
    <2>. QED
      BY <2>4 DEF p
  <1>12. RemoveAt(ms, k) = A \o R
    BY <1>10, <1>11 DEF RemoveAt
  <1>13. ms = A \o (<<d>> \o R)
    BY <1>4, <1>5 DEF w
  <1>. QED
    BY <1>6, <1>7, <1>8, <1>12, <1>13 DEF k, Inserted

\* A mount before those that are held is held as well if one of them blocks it.
LEMMA HeldBefore ==
  ASSUME NEW d \in MountDecls, NEW R \in Seq(MountDecls), NEW busy, Held(R, busy),
         Target[d] \in busy \/ \E j \in 1 .. Len(R) : Blocks(R[j], d)
  PROVE  Held(<<d>> \o R, busy)
  <1>. DEFINE w == <<d>>
              H == w \o R
  <1>1. w \in Seq(MountDecls) /\ Len(w) = 1 /\ w[1] = d
    OBVIOUS
  <1>2. Len(R) \in Nat
    BY LenProperties
  <1>. HIDE DEF w
  <1>3. /\ H \in Seq(MountDecls) /\ Len(H) = Len(w) + Len(R)
        /\ \A i \in 1 .. Len(w) + Len(R) : H[i] = IF i <= Len(w) THEN w[i] ELSE R[i - Len(w)]
    BY <1>1, ConcatProperties
  <1>. HIDE DEF H
  <1>4. Len(H) = 1 + Len(R) /\ \A i \in 1 .. 1 + Len(R) : H[i] = IF i <= 1 THEN w[i] ELSE R[i - 1]
    BY <1>1, <1>3
  <1>5. H[1] = d
    BY <1>1, <1>2, <1>4
  <1>6. ASSUME NEW j \in 1 .. Len(R) PROVE j + 1 \in 1 .. Len(H) /\ H[j + 1] = R[j]
    <2>1. j + 1 \in 1 .. 1 + Len(R) /\ ~(j + 1 <= 1) /\ (j + 1) - 1 = j
      BY <1>2
    <2>. QED
      BY <1>4, <2>1
  <1>7. ASSUME NEW i \in 1 .. Len(H)
        PROVE  Target[H[i]] \in busy \/ \E j \in 1 .. Len(H) : i < j /\ Blocks(H[j], H[i])
    <2>1. CASE i = 1
      <3>1. CASE Target[d] \in busy
        BY <1>5, <2>1, <3>1
      <3>2. ASSUME NEW j \in 1 .. Len(R), Blocks(R[j], d) PROVE \E q \in 1 .. Len(H) : i < q /\ Blocks(H[q], H[i])
        <4>1. j + 1 \in 1 .. Len(H) /\ H[j + 1] = R[j]
          BY <1>6
        <4>2. i < j + 1
          BY <2>1
        <4>3. Blocks(H[j + 1], H[i])
          BY <1>5, <2>1, <3>2, <4>1
        <4>. QED
          BY <4>1, <4>2, <4>3
      <3>. QED
        BY <3>1, <3>2
    <2>2. CASE i # 1
      <3>. DEFINE m == i - 1
      <3>1. m \in 1 .. Len(R) /\ m + 1 = i
        BY <1>2, <1>4, <2>2
      <3>. HIDE DEF m
      <3>2. H[i] = R[m]
        BY <1>6, <3>1
      <3>3. CASE Target[R[m]] \in busy
        BY <3>2, <3>3
      <3>4. ASSUME NEW j \in 1 .. Len(R), m < j, Blocks(R[j], R[m])
            PROVE  \E q \in 1 .. Len(H) : i < q /\ Blocks(H[q], H[i])
        <4>1. j + 1 \in 1 .. Len(H) /\ H[j + 1] = R[j]
          BY <1>6
        <4>2. i < j + 1
          BY <3>1, <3>4
        <4>3. Blocks(H[j + 1], H[i])
          BY <3>2, <3>4, <4>1
        <4>. QED
          BY <4>1, <4>2, <4>3
      <3>. QED
        BY <3>1, <3>3, <3>4 DEF Held
    <2>. QED
      BY <2>1, <2>2
  <1>8. Held(H, busy)
    BY <1>7 DEF Held
  <1>. QED
    BY <1>8 DEF H, w

\* What is mounted is A and, over it, the mounts that stop() keeps, which are held.
OverKept(s, A, busy) == s.ms = A \o Reverse(s.kept) /\ Held(Reverse(s.kept), busy)

\* stop(), for the last of the mounts that it has not come to yet: it undoes that one and
\* no other, or keeps it.
LEMMA UndoOne ==
  ASSUME NEW busy, NEW A \in Seq(MountDecls), NEW d \in MountDecls,
         NEW s \in UndoStates, OverKept(s, A \o <<d>>, busy), NEW u, u = Undo(s, d, busy)
  PROVE  OverKept(u, A, busy)
  <1>. DEFINE kept == s.kept
              R == Reverse(kept)
              ms == s.ms
              k == Len(A) + 1
              t == Target[d]
              i == Topmost(ms, t)
  <1>0. kept \in Seq(MountDecls)
    BY DEF UndoStates
  <1>2. s.ms = (A \o <<d>>) \o R /\ s.kept = kept /\ Held(R, busy)
    BY DEF OverKept
  <1>. HIDE DEF kept
  <1>1. R \in Seq(MountDecls) /\ Held(R, busy)
    BY <1>0, <1>2, ReverseElements
  <1>. HIDE DEF R
  <1>3. /\ ms \in Seq(MountDecls) /\ Len(ms) = k + Len(R) /\ ms[k] = d
        /\ \A j \in 1 .. Len(R) : ms[k + j] = R[j]
        /\ RemoveAt(ms, k) = A \o R
        /\ ms = A \o (<<d>> \o R)
    <2>1. ms = (A \o <<d>>) \o R
      BY <1>2
    <2>. HIDE DEF ms, k
    <2>2. ms \in Seq(MountDecls) /\ Inserted(ms, A, d, R)
      BY <1>1, <2>1, Between
    <2>. QED
      BY <2>2 DEF k, Inserted
  <1>4. Len(A) \in Nat /\ Len(R) \in Nat /\ k \in Nat /\ k > 0 /\ DOMAIN ms = 1 .. Len(ms)
    BY <1>1, <1>3, LenProperties
  <1>5. u = (IF Umountable(ms, t, busy) THEN [s EXCEPT !.ms = RemoveAt(s.ms, i)] ELSE [s EXCEPT !.kept = Append(s.kept, d)])
    BY DEF Undo
  <1>6. k \in Covering(ms, t)
    <2>1. k \in DOMAIN ms
      BY <1>3, <1>4
    <2>. QED
      BY <1>3, <2>1 DEF Covering
  <1>7. /\ i \in Nat /\ i <= Len(ms) /\ (i # 0 => i \in Covering(ms, t))
        /\ \A j \in Covering(ms, t) : j \in Nat /\ j <= i
    <2>. HIDE DEF ms, t
    <2>. QED
      BY <1>3, TopmostFound
  <1>8. Umountable(ms, t, busy) <=>
          /\ i > 0 /\ Target[ms[i]] = t /\ t \notin busy
          /\ \A j \in i+1 .. Len(ms) : <<t, Target[ms[j]]>> \notin Above
    BY DEF Umountable
  <1>. HIDE DEF i
  <1>9. k <= i /\ i # 0 /\ i \in Covering(ms, t)
    BY <1>4, <1>6, <1>7
  <1>. HIDE DEF ms, k
  <1>10. i # k => i - k \in 1 .. Len(R) /\ ms[i] = R[i - k]
    <2>1. i # k => i - k \in 1 .. Len(R) /\ k + (i - k) = i
      BY <1>3, <1>4, <1>7, <1>9
    <2>. QED
      BY <1>3, <2>1
  <1>11. CASE Umountable(ms, t, busy)
    <2>1. ASSUME i # k PROVE FALSE
      <3>1. i - k \in 1 .. Len(R) /\ ms[i] = R[i - k] /\ Target[R[i - k]] \notin busy
        BY <1>8, <1>10, <1>11, <2>1
      <3>2. PICK j \in 1 .. Len(R) : i - k < j /\ Blocks(R[j], R[i - k])
        BY <1>1, <3>1 DEF Held
      <3>3. k + j \in i+1 .. Len(ms) /\ ~(k + j <= i) /\ k + j \in DOMAIN ms
        BY <1>3, <1>4, <1>7, <3>2
      <3>4. ms[k + j] = R[j] /\ Target[R[i - k]] = t
        BY <1>3, <1>8, <1>11, <3>1
      <3>5. <<t, Target[R[j]]>> \notin Above
        BY <1>8, <1>11, <3>3, <3>4
      <3>6. k + j \notin Covering(ms, t)
        BY <1>7, <3>3
      <3>7. ~(Target[R[j]] = t \/ <<Target[R[j]], t>> \in Above)
        BY <3>3, <3>4, <3>6 DEF Covering
      <3>. QED
        BY <3>2, <3>4, <3>5, <3>7 DEF Blocks
    <2>2. u = [s EXCEPT !.ms = RemoveAt(ms, k)]
      BY <1>5, <1>11, <2>1 DEF ms
    <2>3. u.ms = A \o R /\ u.kept = kept
      BY <1>2, <1>3, <2>2 DEF UndoStates
    <2>. QED
      BY <1>1, <2>3 DEF R, OverKept
  <1>12. CASE ~Umountable(ms, t, busy)
    <2>1. u = [s EXCEPT !.kept = Append(s.kept, d)]
      BY <1>5, <1>12
    <2>2. u.ms = ms /\ u.kept = Append(kept, d)
      BY <1>2, <2>1 DEF ms, UndoStates
    <2>3. Reverse(Append(kept, d)) = <<d>> \o R
      <3>. DEFINE w == <<d>>
      <3>1. w \in Seq(MountDecls) /\ Reverse(w) = w
        BY ReverseShort
      <3>2. Append(kept, d) = kept \o w
        BY <1>0, AppendIsConcat
      <3>. HIDE DEF w
      <3>3. Reverse(kept \o w) = Reverse(w) \o Reverse(kept)
        BY <1>0, <3>1, ReverseConcat
      <3>4. Reverse(Append(kept, d)) = w \o R
        BY <3>1, <3>2, <3>3, Zenon DEF R
      <3>. QED
        BY <3>4 DEF w
    <2>4. t \in busy \/ \E j \in 1 .. Len(R) : Blocks(R[j], d)
      <3>1. CASE Target[ms[i]] # t
        <4>1. i # k
          BY <1>3, <3>1
        <4>2. i - k \in 1 .. Len(R) /\ ms[i] = R[i - k]
          BY <1>10, <4>1
        <4>3. <<Target[R[i - k]], t>> \in Above
          BY <1>9, <3>1, <4>2 DEF Covering
        <4>. QED
          BY <4>2, <4>3 DEF Blocks
      <3>2. ASSUME NEW j \in i+1 .. Len(ms), <<t, Target[ms[j]]>> \in Above
            PROVE  \E q \in 1 .. Len(R) : Blocks(R[q], d)
        <4>1. j - k \in 1 .. Len(R) /\ k + (j - k) = j
          BY <1>3, <1>4, <1>7, <1>9
        <4>2. ms[j] = R[j - k]
          BY <1>3, <4>1
        <4>. QED
          BY <3>2, <4>1, <4>2 DEF Blocks
      <3>. QED
        BY <1>7, <1>8, <1>9, <1>12, <3>1, <3>2
    <2>5. Held(<<d>> \o R, busy)
      BY <1>1, <2>4, HeldBefore
    <2>. QED
      BY <1>3, <2>2, <2>3, <2>5, Zenon DEF OverKept
  <1>. QED
    BY <1>11, <1>12

\* The mounts of a list, the last one first, when its first element is told apart.
LEMMA FirstOfMounts ==
  ASSUME NEW p \in Seq(Decls), NEW q \in Seq(Decls), NEW d \in Decls, p = <<d>> \o q
  PROVE  Reverse(Among(p, MountDecls)) =
           IF d \in MountDecls THEN Reverse(Among(q, MountDecls)) \o <<d>> ELSE Reverse(Among(q, MountDecls))
  <1>. DEFINE w == <<d>>
              X == Among(q, MountDecls)
  <1>1. w \in Seq(Decls) /\ X \in Seq(Decls \cap MountDecls)
    BY AmongTyped
  <1>2. Among(w, MountDecls) = IF d \in MountDecls THEN w ELSE <<>>
    BY AmongShort
  <1>. HIDE DEF w
  <1>3. Among(w \o q, MountDecls) = Among(w, MountDecls) \o X
    BY <1>1, AmongConcat
  <1>4. Among(p, MountDecls) = Among(w, MountDecls) \o X
    BY <1>3 DEF w
  <1>5. CASE d \in MountDecls
    <2>. HIDE DEF X
    <2>1. w \in Seq(Decls \cap MountDecls) /\ Reverse(w) = w
      BY <1>5, ReverseShort DEF w
    <2>2. Reverse(w \o X) = Reverse(X) \o Reverse(w)
      BY <1>1, <2>1, ReverseConcat
    <2>3. Reverse(Among(p, MountDecls)) = Reverse(X) \o w
      BY <1>2, <1>4, <1>5, <2>1, <2>2, Zenon
    <2>. QED
      BY <1>5, <2>3 DEF X, w
  <1>6. CASE d \notin MountDecls
    <2>. HIDE DEF X
    <2>1. <<>> \o X = X
      BY <1>1, ConcatEmptySeq
    <2>2. Among(p, MountDecls) = X
      BY <1>2, <1>4, <1>6, <2>1
    <2>. QED
      BY <1>6, <2>2 DEF X
  <1>. QED
    BY <1>5, <1>6

\* stop() undoes the mounts from the last one on: what is left is what earlier daemons
\* left there, and over it what stop() keeps in the list.
LEMMA UndoneKeeps ==
  ASSUME mounted \in Seq(MountDecls), left \in Seq(MountDecls), mProvisioned \in Seq(Decls),
         MountsAccounted, NEW busy
  PROVE  /\ Undone(busy) \in UndoStates
         /\ Undone(busy).ms = left \o Reverse(Among(Undone(busy).kept, MountDecls))
  <1>. DEFINE N == Len(mProvisioned)
              p(n) == SubSeq(mProvisioned, n + 1, N)
              rest(n) == Reverse(Among(p(n), MountDecls))
  <1>1. N \in Nat
    BY LenProperties
  <1>2. PICK f \in [0 .. N -> UndoStates] : UndoesEach(f, busy) /\ Undone(busy) = f[N]
    BY UndoneDefined
  <1>. DEFINE T == {n \in 0 .. N : OverKept(f[n], left \o rest(n), busy)}
  <1>3. ASSUME NEW n \in 0 .. N
        PROVE  /\ p(n) \in Seq(Decls)
               /\ rest(n) \in Seq(MountDecls) /\ left \o rest(n) \in Seq(MountDecls)
               /\ f[n] = [ms |-> f[n].ms, kept |-> f[n].kept]
               /\ f[n].ms \in Seq(MountDecls) /\ f[n].kept \in Seq(MountDecls)
    <2>1. p(n) \in Seq(Decls)
      BY CutElements
    <2>2. MountDecls = Decls \cap MountDecls
      BY DEF Decls
    <2>. HIDE DEF p
    <2>3. Among(p(n), MountDecls) \in Seq(MountDecls)
      BY <2>1, <2>2, AmongTyped
    <2>4. rest(n) \in Seq(MountDecls)
      BY <2>3, ReverseElements
    <2>. HIDE DEF rest
    <2>5. left \o rest(n) \in Seq(MountDecls)
      BY <2>4, ConcatSet
    <2>6. f[n] \in UndoStates
      BY <1>2
    <2>. QED
      BY <2>1, <2>4, <2>5, <2>6 DEF UndoStates
  <1>4. 0 \in T
    <2>1. p(0) = mProvisioned
      <3>1. SubSeq(mProvisioned, 1, N) = mProvisioned
        BY SubSeqFull
      <3>. QED
        BY <3>1
    <2>2. rest(0) = Reverse(Among(mProvisioned, MountDecls))
      BY <2>1, Zenon
    <2>3. f[0] = [ms |-> mounted, kept |-> <<>>]
      BY <1>2 DEF UndoesEach
    <2>4. f[0].ms = mounted /\ f[0].kept = <<>>
      BY <2>3
    <2>5. Reverse(<<>>) = <<>>
      BY DEF Reverse
    <2>6. mounted = left \o rest(0)
      BY <2>2 DEF MountsAccounted
    <2>7. mounted \o <<>> = mounted
      BY ConcatEmptySeq
    <2>8. f[0].ms = (left \o rest(0)) \o Reverse(f[0].kept)
      BY <2>4, <2>5, <2>6, <2>7, Zenon
    <2>9. Held(Reverse(f[0].kept), busy)
      BY <2>4, <2>5 DEF Held
    <2>10. 0 \in 0 .. N
      BY <1>1
    <2>. QED
      BY <2>8, <2>9, <2>10, Zenon DEF OverKept
  <1>5. ASSUME NEW n \in 0 .. N - 1, n \in T PROVE n + 1 \in T
    <2>. DEFINE d == mProvisioned[n + 1]
                u == f[n + 1]
    <2>1. n + 1 \in 1 .. N /\ n + 1 \in 0 .. N /\ (n + 1) - 1 = n /\ n \in 0 .. N /\ N \in n + 1 .. N
      BY <1>1
    <2>2. d \in Decls
      BY <2>1, ElementOfSeq
    <2>3. u = Undo(f[n], d, busy)
      BY <1>2, <2>1 DEF UndoesEach
    <2>4. p(n) = <<d>> \o p(n + 1)
      BY <2>1, SubSeqRecursiveFirst
    <2>5. p(n) \in Seq(Decls) /\ p(n + 1) \in Seq(Decls)
      BY <1>3, <2>1
    <2>. HIDE DEF p, d
    <2>6. rest(n) = IF d \in MountDecls THEN rest(n + 1) \o <<d>> ELSE rest(n + 1)
      BY <2>2, <2>4, <2>5, FirstOfMounts
    <2>7. rest(n + 1) \in Seq(MountDecls)
      BY <1>3, <2>1
    <2>8. OverKept(f[n], left \o rest(n), busy)
      BY <1>5
    <2>. HIDE DEF rest
    <2>9. CASE d \notin MountDecls
      <3>1. u = f[n]
        BY <2>3, <2>9 DEF Undo
      <3>2. rest(n) = rest(n + 1)
        BY <2>6, <2>9
      <3>. QED
        BY <2>1, <2>8, <3>1, <3>2, Zenon
    <2>10. CASE d \in MountDecls
      <3>. DEFINE r == rest(n + 1)
                  w == <<d>>
                  s == f[n]
      <3>1. w \in Seq(MountDecls) /\ r \in Seq(MountDecls) /\ s \in UndoStates
        <4>1. w \in Seq(MountDecls)
          BY <2>10
        <4>2. s \in UndoStates
          BY <2>1
        <4>. QED
          BY <2>7, <4>1, <4>2
      <3>2. rest(n) = r \o w
        BY <2>6, <2>10
      <3>3. OverKept(s, left \o (r \o w), busy) /\ u = Undo(s, d, busy)
        BY <2>3, <2>8, <3>2
      <3>. HIDE DEF r, w, s, u
      <3>4. (left \o r) \o w = left \o (r \o w)
        BY <3>1, ConcatAssociative
      <3>. DEFINE A == left \o r
      <3>5. A \in Seq(MountDecls)
        BY <3>1, ConcatSet
      <3>6. OverKept(s, A \o <<d>>, busy)
        BY <3>3, <3>4, Zenon DEF w
      <3>. HIDE DEF A
      <3>7. OverKept(u, A, busy)
        BY <2>10, <3>1, <3>3, <3>5, <3>6, UndoOne
      <3>. QED
        BY <2>1, <3>7 DEF A, r, u
    <2>. QED
      BY <2>9, <2>10
  <1>6. 0 .. N \subseteq T
    <2>. HIDE DEF T
    <2>. QED
      BY <1>1, <1>4, <1>5, CountedUpTo
  <1>. DEFINE K == f[N].kept
  <1>7. N \in 0 .. N
    BY <1>1
  <1>8. f[N].ms = (left \o rest(N)) \o Reverse(K)
    BY <1>6, <1>7 DEF OverKept
  <1>9. rest(N) = <<>>
    <2>1. p(N) = <<>>
      BY <1>1, SubSeqEmpty
    <2>2. Among(<<>>, MountDecls) = <<>>
      BY AmongNone
    <2>3. Reverse(<<>>) = <<>>
      BY DEF Reverse
    <2>. QED
      BY <2>1, <2>2, <2>3, Zenon
  <1>10. left \o rest(N) = left
    <2>1. left \o <<>> = left
      BY ConcatEmptySeq
    <2>. QED
      BY <1>9, <2>1, Zenon
  <1>11. K \in Seq(MountDecls) /\ f[N] \in UndoStates
    BY <1>2, <1>3, <1>7
  <1>. HIDE DEF K
  <1>12. Among(K, MountDecls) = K
    BY <1>11, AmongAll
  <1>13. f[N].ms = left \o Reverse(Among(K, MountDecls))
    BY <1>8, <1>10, <1>12, Zenon
  <1>. QED
    BY <1>2, <1>11, <1>13, Zenon DEF K

\* Starting applies, over what is mounted, the mounts that it puts before the list.
LEMMA StartAccounts ==
  ASSUME provisions \in Seq(Decls), mProvisioned \in Seq(Decls), left \in Seq(MountDecls), MountsAccounted, NEW ok
  PROVE  /\ remembered(ok) \in Seq(Decls) /\ mounted \o Among(Applied(ok), MountDecls) \in Seq(MountDecls)
         /\ mounted \o Among(Applied(ok), MountDecls) = left \o Reverse(Among(remembered(ok), MountDecls))
  <1>. DEFINE a == Applied(ok)
              X == Among(a, MountDecls)
              Y == Among(mProvisioned, MountDecls)
              r == Reverse(a)
  <1>1. a \in Seq(Decls)
    <2>1. a \in Seq(Decls \cap ok)
      BY AmongTyped DEF Applied
    <2>. QED
      BY <2>1, SeqMonotonic
  <1>. HIDE DEF a
  <1>2. r \in Seq(Decls)
    BY <1>1, ReverseElements
  <1>3. Among(r, MountDecls) = Reverse(X)
    BY <1>1, AmongReverse
  <1>4. X \in Seq(MountDecls) /\ Y \in Seq(MountDecls)
    <2>1. Decls \cap MountDecls = MountDecls
      BY DEF Decls
    <2>. QED
      BY <1>1, <2>1, AmongTyped
  <1>5. remembered(ok) = r \o mProvisioned
    BY DEF remembered, a
  <1>. HIDE DEF r
  <1>6. r \o mProvisioned \in Seq(Decls) /\ Among(r \o mProvisioned, MountDecls) = Among(r, MountDecls) \o Y
    BY <1>2, AmongConcat, ConcatSet
  <1>. HIDE DEF X, Y
  <1>. DEFINE x == Reverse(X)
              y == Reverse(Y)
  <1>7. x \in Seq(MountDecls) /\ y \in Seq(MountDecls)
    BY <1>4, ReverseElements
  <1>8. Reverse(x) = X
    BY <1>4, ReverseTwice
  <1>9. mounted = left \o y
    BY DEF MountsAccounted, Y
  <1>10. Among(remembered(ok), MountDecls) = x \o Y
    BY <1>3, <1>5, <1>6
  <1>. HIDE DEF x
  <1>11. Reverse(x \o Y) = y \o X
    <2>1. Reverse(x \o Y) = Reverse(Y) \o Reverse(x)
      BY <1>4, <1>7, ReverseConcat
    <2>. QED
      BY <1>8, <2>1
  <1>. HIDE DEF y
  <1>12. left \o (y \o X) = (left \o y) \o X
    <2>1. left \in Seq(MountDecls) /\ y \in Seq(MountDecls) /\ X \in Seq(MountDecls)
      BY <1>4, <1>7
    <2>2. (left \o y) \o X = left \o (y \o X)
      BY <2>1, ConcatAssociative
    <2>. QED
      BY <2>2
  <1>13. mounted \o X = left \o Reverse(Among(remembered(ok), MountDecls))
    BY <1>9, <1>10, <1>11, <1>12, Zenon
  <1>14. mounted \o X \in Seq(MountDecls)
    <2>1. left \o y \in Seq(MountDecls)
      BY <1>7, ConcatSet
    <2>2. mounted \in Seq(MountDecls)
      BY <1>9, <2>1, Zenon
    <2>. QED
      BY <1>4, <2>2, ConcatSet
  <1>15. remembered(ok) \in Seq(Decls)
    BY <1>5, <1>6
  <1>. QED
    BY <1>13, <1>14, <1>15 DEF X, a

\* What a client was told of is never lost by a declaration or by a removal.
LEMMA DeclareSurvives ==
  ASSUME ProvisionTypeOK, ProvisionsKept, NEW d \in Decls, NEW saves \in BOOLEAN, declareProvision(d, saves)
  PROVE  ProvisionTypeOK' /\ ProvisionsKept'
  <1>1. /\ provisions' \in Seq(Decls) /\ ToSet(provisions') = ToSet(provisions) \cup {d}
    <2>. DEFINE w == <<d>>
    <2>1. w \in Seq(Decls) /\ ToSet(w) = {d}
      BY DEF ToSet
    <2>2. provisions \in Seq(Decls)
      BY DEF ProvisionTypeOK
    <2>3. provisions' = provisions \o w
      BY <2>2, AppendIsConcat DEF declareProvision
    <2>. HIDE DEF w
    <2>4. provisions \o w \in Seq(Decls) /\ ToSet(provisions \o w) = ToSet(provisions) \cup ToSet(w)
      BY <2>1, <2>2, ConcatSet
    <2>. QED
      BY <2>1, <2>3, <2>4
  <1>2. MountsAccounted'
    BY DEF declareProvision, ProvisionsKept, MountsAccounted
  <1>3. told \subseteq ToSet(provisions) /\ told \subseteq (IF savedDecls.stored THEN ToSet(savedDecls.decls) ELSE {})
    BY DEF declareProvision, ProvisionsKept, AcknowledgedSurvive
  <1>4. CASE saves
    <2>1. told' = told \cup {d} /\ savedDecls' = [stored |-> TRUE, decls |-> provisions']
      BY <1>4 DEF declareProvision, Declared
    <2>2. savedDecls'.stored /\ savedDecls'.decls = provisions'
      BY <2>1
    <2>3. told' \subseteq ToSet(provisions')
      BY <1>1, <1>3, <2>1
    <2>4. AcknowledgedSurvive'
      BY <2>2, <2>3 DEF AcknowledgedSurvive
    <2>5. savedDecls' \in [stored : BOOLEAN, decls : Seq(Decls)] /\ told' \in SUBSET Decls
      BY <1>1, <2>1 DEF ProvisionTypeOK
    <2>. QED
      BY <1>1, <1>2, <2>4, <2>5 DEF declareProvision, ProvisionTypeOK, ProvisionsKept
  <1>5. CASE ~saves
    <2>1. told' = told /\ savedDecls' = savedDecls
      BY <1>5 DEF declareProvision, Declared
    <2>2. AcknowledgedSurvive'
      BY <1>1, <1>3, <2>1 DEF AcknowledgedSurvive
    <2>. QED
      BY <1>1, <1>2, <2>1, <2>2 DEF declareProvision, ProvisionTypeOK, ProvisionsKept
  <1>. QED
    BY <1>4, <1>5

LEMMA RemoveSurvives ==
  ASSUME ProvisionTypeOK, ProvisionsKept, NEW d \in Decls, removeProvision(d)
  PROVE  ProvisionTypeOK' /\ ProvisionsKept'
  <1>1. provisions \in Seq(Decls)
    BY DEF ProvisionTypeOK
  <1>2. PICK i \in DOMAIN provisions : provisions[i] = d /\ provisions' = RemoveAt(provisions, i)
    BY DEF removeProvision
  <1>3. i \in 1 .. Len(provisions)
    BY <1>1, LenProperties
  <1>4. RemoveAt(provisions, i) \in Seq(Decls) /\ ToSet(provisions) \ {provisions[i]} \subseteq ToSet(RemoveAt(provisions, i))
    BY <1>1, <1>3, RemovedElements
  <1>5. provisions' \in Seq(Decls) /\ ToSet(provisions) \ {d} \subseteq ToSet(provisions')
    BY <1>2, <1>4
  <1>6. told' = told \ {d} /\ savedDecls' = savedDecls
    BY DEF removeProvision, Forgotten
  <1>7. told \subseteq ToSet(provisions) /\ told \subseteq (IF savedDecls.stored THEN ToSet(savedDecls.decls) ELSE {})
    BY DEF removeProvision, ProvisionsKept, AcknowledgedSurvive
  <1>8. AcknowledgedSurvive'
    BY <1>5, <1>6, <1>7 DEF AcknowledgedSurvive
  <1>9. MountsAccounted'
    BY DEF removeProvision, ProvisionsKept, MountsAccounted
  <1>. QED
    BY <1>5, <1>6, <1>8, <1>9 DEF removeProvision, ProvisionTypeOK, ProvisionsKept

LEMMA StartSurvives ==
  ASSUME ProvisionTypeOK, ProvisionsKept, NEW ok, NEW starts, StartProvisioned(ok, starts)
  PROVE  ProvisionTypeOK' /\ ProvisionsKept'
  <1>1. /\ remembered(ok) \in Seq(Decls) /\ mounted \o Among(Applied(ok), MountDecls) \in Seq(MountDecls)
        /\ mounted \o Among(Applied(ok), MountDecls) = left \o Reverse(Among(remembered(ok), MountDecls))
    BY StartAccounts DEF ProvisionTypeOK, ProvisionsKept
  <1>2. mProvisioned' = remembered(ok) /\ mounted' = mounted \o Among(Applied(ok), MountDecls) /\ left' = left
    BY DEF StartProvisioned
  <1>3. MountsAccounted'
    BY <1>1, <1>2, Zenon DEF MountsAccounted
  <1>4. mProvisioned' \in Seq(Decls) /\ mounted' \in Seq(MountDecls)
    BY <1>1, <1>2, Zenon
  <1>5. AcknowledgedSurvive'
    BY DEF StartProvisioned, ProvisionsKept, AcknowledgedSurvive
  <1>6. hosted' \in {"running", "stopped"}
    BY DEF StartProvisioned, ProvisionTypeOK
  <1>. QED
    BY <1>3, <1>4, <1>5, <1>6 DEF StartProvisioned, ProvisionTypeOK, ProvisionsKept

LEMMA StopSurvives ==
  ASSUME ProvisionTypeOK, ProvisionsKept, NEW busy, NEW detach,
         StopProvisioned(busy) \/ ExitProvisioned(busy, detach)
  PROVE  ProvisionTypeOK' /\ ProvisionsKept'
  <1>1. Undone(busy) \in UndoStates /\ Undone(busy).ms = left \o Reverse(Among(Undone(busy).kept, MountDecls))
    BY UndoneKeeps DEF ProvisionTypeOK, ProvisionsKept
  <1>2. Undone(busy).ms \in Seq(MountDecls) /\ Undone(busy).kept \in Seq(MountDecls)
    BY <1>1 DEF UndoStates
  <1>3. Undone(busy).kept \in Seq(Decls)
    <2>1. MountDecls \subseteq Decls
      BY DEF Decls
    <2>. QED
      BY <1>2, <2>1, SeqMonotonic
  <1>4. CASE StopProvisioned(busy)
    <2>1. mounted' = Undone(busy).ms /\ mProvisioned' = Undone(busy).kept /\ left' = left
      BY <1>4 DEF StopProvisioned
    <2>2. MountsAccounted'
      BY <1>1, <2>1, Zenon DEF MountsAccounted
    <2>3. AcknowledgedSurvive'
      BY <1>4 DEF StopProvisioned, ProvisionsKept, AcknowledgedSurvive
    <2>. QED
      BY <1>2, <1>3, <1>4, <2>1, <2>2, <2>3 DEF StopProvisioned, ProvisionTypeOK, ProvisionsKept
  <1>5. CASE ExitProvisioned(busy, detach)
    <2>1. mounted' = Undone(busy).ms /\ mProvisioned' = <<>> /\ left' = mounted' /\ provisioner' = "down"
      BY <1>5 DEF ExitProvisioned
    <2>2. MountsAccounted'
      <3>1. mounted' = mounted' \o <<>>
        BY <1>2, <2>1, ConcatEmptySeq
      <3>2. Reverse(<<>>) = <<>>
        BY DEF Reverse
      <3>3. Among(<<>>, MountDecls) = <<>>
        BY AmongNone
      <3>4. left' \o Reverse(Among(mProvisioned', MountDecls)) = mounted'
        BY <2>1, <3>1, <3>2, <3>3, Zenon
      <3>. QED
        BY <3>4 DEF MountsAccounted
    <2>3. AcknowledgedSurvive'
      BY <1>5 DEF ExitProvisioned, ProvisionsKept, AcknowledgedSurvive
    <2>4. hosted' \in {"running", "stopped"} /\ <<>> \in Seq(Decls)
      BY <1>5 DEF ExitProvisioned, ProvisionTypeOK
    <2>. QED
      BY <1>2, <1>5, <2>1, <2>2, <2>3, <2>4 DEF ExitProvisioned, ProvisionTypeOK, ProvisionsKept
  <1>. QED
    BY <1>4, <1>5

LEMMA CrashSurvives ==
  ASSUME ProvisionTypeOK, ProvisionsKept, HostedDies \/ CrashProvisioned \/ LoadProvisions
  PROVE  ProvisionTypeOK' /\ ProvisionsKept'
  <1>1. CASE HostedDies
    BY <1>1 DEF HostedDies, ProvisionTypeOK, ProvisionsKept, MountsAccounted, AcknowledgedSurvive
  <1>2. CASE CrashProvisioned
    <2>1. mounted' = mounted /\ mProvisioned' = <<>> /\ left' = mounted /\ provisioner' = "down"
      BY <1>2 DEF CrashProvisioned
    <2>2. MountsAccounted'
      <3>1. mounted = mounted \o <<>>
        BY ConcatEmptySeq DEF ProvisionTypeOK
      <3>2. Reverse(<<>>) = <<>>
        BY DEF Reverse
      <3>3. Among(<<>>, MountDecls) = <<>>
        BY AmongNone
      <3>4. left' \o Reverse(Among(mProvisioned', MountDecls)) = mounted'
        BY <2>1, <3>1, <3>2, <3>3, Zenon
      <3>. QED
        BY <3>4 DEF MountsAccounted
    <2>3. AcknowledgedSurvive'
      BY <1>2 DEF CrashProvisioned, ProvisionsKept, AcknowledgedSurvive
    <2>4. <<>> \in Seq(Decls)
      OBVIOUS
    <2>. QED
      BY <1>2, <2>1, <2>2, <2>3, <2>4 DEF CrashProvisioned, ProvisionTypeOK, ProvisionsKept
  <1>3. CASE LoadProvisions
    <2>1. provisions' = loaded /\ loaded \in Seq(Decls)
      BY <1>3, ProvisionAssumption DEF LoadProvisions, loaded, ProvisionTypeOK
    <2>2. AcknowledgedSurvive'
      BY <1>3 DEF LoadProvisions, loaded, ProvisionsKept, AcknowledgedSurvive
    <2>3. MountsAccounted'
      BY <1>3 DEF LoadProvisions, ProvisionsKept, MountsAccounted
    <2>. QED
      BY <1>3, <2>1, <2>2, <2>3 DEF LoadProvisions, ProvisionTypeOK, ProvisionsKept
  <1>. QED
    BY <1>1, <1>2, <1>3

\* Whatever fails to apply or to be undone, however often a zone is started and however its
\* daemon ends, what is mounted under the zone's root is what stop() of zone-provision.cpp goes
\* by, in the order that undoes it, over what earlier daemons left; and a declaration that a
\* client was told of survives, in memory and in the database.
THEOREM ProvisionsAreKept == ProvisionSpec => [](ProvisionTypeOK /\ ProvisionsKept)
  <1>1. ProvisionInit => ProvisionTypeOK /\ ProvisionsKept
    <2>. SUFFICES ASSUME ProvisionInit PROVE ProvisionTypeOK /\ ProvisionsKept
      OBVIOUS
    <2>1. Reverse(<<>>) = <<>> /\ Among(<<>>, MountDecls) = <<>>
      BY AmongNone DEF Reverse
    <2>2. <<>> \in Seq(MountDecls) /\ <<>> \in Seq(Decls) /\ <<>> \o <<>> = <<>>
      BY ConcatEmptySeq
    <2>3. left \o Reverse(Among(mProvisioned, MountDecls)) = mounted
      BY <2>1, <2>2, Zenon DEF ProvisionInit
    <2>4. MountsAccounted
      BY <2>3 DEF MountsAccounted
    <2>5. AcknowledgedSurvive
      BY DEF ProvisionInit, AcknowledgedSurvive
    <2>6. ProvisionTypeOK
      BY <2>2, ProvisionAssumption DEF ProvisionInit, ProvisionTypeOK
    <2>. QED
      BY <2>4, <2>5, <2>6 DEF ProvisionsKept
  <1>2. ProvisionTypeOK /\ ProvisionsKept /\ [ProvisionNext]_provisionVars => (ProvisionTypeOK /\ ProvisionsKept)'
    <2>. SUFFICES ASSUME ProvisionTypeOK, ProvisionsKept, [ProvisionNext]_provisionVars
                  PROVE  ProvisionTypeOK' /\ ProvisionsKept'
      OBVIOUS
    <2>1. CASE UNCHANGED provisionVars
      BY <2>1 DEF provisionVars, ProvisionTypeOK, ProvisionsKept, MountsAccounted, AcknowledgedSurvive
    <2>2. ASSUME NEW d \in Decls, removeProvision(d) PROVE ProvisionTypeOK' /\ ProvisionsKept'
      BY <2>2, RemoveSurvives
    <2>3. ASSUME NEW d \in Decls, NEW saves \in BOOLEAN, declareProvision(d, saves)
          PROVE  ProvisionTypeOK' /\ ProvisionsKept'
      BY <2>3, DeclareSurvives
    <2>4. ASSUME NEW ok \in Outcomes, NEW starts \in BOOLEAN, StartProvisioned(ok, starts)
          PROVE  ProvisionTypeOK' /\ ProvisionsKept'
      BY <2>4, StartSurvives
    <2>5. ASSUME NEW busy \in SUBSET BusyTargets, NEW detach \in BOOLEAN,
                 StopProvisioned(busy) \/ ExitProvisioned(busy, detach)
          PROVE  ProvisionTypeOK' /\ ProvisionsKept'
      BY <2>5, StopSurvives
    <2>6. CASE HostedDies \/ CrashProvisioned \/ LoadProvisions
      BY <2>6, CrashSurvives
    <2>. QED
      BY <2>1, <2>2, <2>3, <2>4, <2>5, <2>6 DEF ProvisionNext
  <1>. QED
    BY <1>1, <1>2, PTL DEF ProvisionSpec
=============================================================================
