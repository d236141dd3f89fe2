----------------------------- MODULE TaskQueue -----------------------------
(***************************************************************************)
(* How a client's call reaches the zones: server/zones-manager.cpp,        *)
(* tryAddTask and the handlers' use of it, the lock of the queue, and      *)
(* stop().  Calls arrive on two threads, the event poll's (IPC) and the    *)
(* glib loop's (D-Bus).  A handler puts a task on the one worker and, for  *)
(* most calls, blocks its thread until the task ran; a task works under    *)
(* mMutex, as do stop() and the input monitor's notification.              *)
(* What a task does to the zones is module ZonesManager.                   *)
(***************************************************************************)
EXTENDS Integers, SequencesExt

CONSTANTS
  Clients,      \* connections: no id is ever used again
  DbusClients,  \* those of them that come by D-Bus
  Nobody,       \* INVALID_CONNECTION_ID
  Asks          \* the kinds of calls each client makes

ASSUME ClientsAssumption == DbusClients \subseteq Clients /\ Nobody \notin Clients

Threads == {"event", "dbus"}
thread(c) == IF c \in DbusClients THEN "dbus" ELSE "event"

\* What a call asks: for the lock of the queue or its release, to be answered
\* from the handler; "read": a task, whoever holds the lock; "write": a task,
\* refused while another holds the lock; "later": the same, but the handler
\* does not wait for it (destroy, shutdown, start).
Kinds == {"lock", "unlock", "read", "write", "later"}
ASSUME AsksAssumption == Asks \in [Clients -> SUBSET Kinds]

Waits(k) == k \in {"read", "write"}
Checked(k) == k \in {"write", "later"}

VARIABLES
  phase,          \* "running"; "stopped": mIsRunning is false; "exited";
                  \* "crashed": a task was added to a null mWorker
  mWorker,        \* it is not null
  mMutex,         \* its owner: "none", "worker" or "event"
  mExclusiveIDLock,
  step,           \* what a thread does: "idle"; "check", "add" or "wait" for
                  \* a call; "notified" by the input monitor, to "stop", or
                  \* inside mWorker.reset(): "reset"
  serving,        \* the client whose call it is
  queue,          \* of the worker: the clients whose tasks are in it
  current,        \* the client whose task the worker took
  connection,     \* "up"; "closed" by the client; "removed", which the daemon noticed
  call            \* what the client asked and has no answer to, or "none";
                  \* "threw": its task ended without an answer

threads == <<step, serving>>
worker  == <<mWorker, queue, current>>
clients == <<connection, call>>
vars    == <<phase, mMutex, mExclusiveIDLock, threads, worker, clients>>

TypeOK ==
  /\ phase \in {"running", "stopped", "exited", "crashed"}
  /\ mWorker \in BOOLEAN
  /\ mMutex \in {"none", "worker", "event"}
  /\ mExclusiveIDLock \in Clients \cup {Nobody}
  /\ step \in [Threads -> {"idle", "check", "add", "wait", "notified", "stop", "reset"}]
  /\ serving \in [Threads -> Clients \cup {Nobody}]
  /\ queue \in Seq(Clients)
  /\ current \in Clients \cup {Nobody}
  /\ connection \in [Clients -> {"up", "closed", "removed"}]
  /\ call \in [Clients -> Kinds \cup {"none", "threw"}]

Init ==
  /\ phase = "running"
  /\ mWorker = TRUE
  /\ mMutex = "none"
  /\ mExclusiveIDLock = Nobody
  /\ step = [t \in Threads |-> "idle"]
  /\ serving = [t \in Threads |-> Nobody]
  /\ queue = <<>>
  /\ current = Nobody
  /\ connection = [c \in Clients |-> "up"]
  /\ call = [c \in Clients |-> "none"]

Alive == phase \in {"running", "stopped"}

-----------------------------------------------------------------------------
(* The clients (client/vasum-client-impl.cpp makes one call at a time).    *)

Call(c, k) ==
  /\ Alive /\ connection[c] = "up" /\ call[c] = "none"
  /\ call' = [call EXCEPT ![c] = k]
  /\ UNCHANGED <<phase, mMutex, mExclusiveIDLock, threads, worker, connection>>

Disconnect(c) ==
  /\ Alive /\ connection[c] = "up"
  /\ connection' = [connection EXCEPT ![c] = "closed"]
  /\ UNCHANGED <<phase, mMutex, mExclusiveIDLock, threads, worker, call>>

-----------------------------------------------------------------------------
(* The handlers.                                                           *)

Enter(t, s, c) ==
  /\ step' = [step EXCEPT ![t] = s]
  /\ serving' = [serving EXCEPT ![t] = c]

Leave(t) == Enter(t, "idle", Nobody)

Answered(c) == call' = [call EXCEPT ![c] = "none"]

\* Its task is in the queue, or runs.
Accepted(c) == c \in ToSet(queue) \cup {current}

Reads(c, k) ==
  /\ Alive
  /\ step[thread(c)] = "idle"
  /\ connection[c] # "removed" /\ call[c] = k /\ ~Accepted(c)

\* handleLockQueueCall: an error when the queue is locked, also by the caller.
LockQueue(c) ==
  /\ Reads(c, "lock")
  /\ mExclusiveIDLock' = IF mExclusiveIDLock = Nobody THEN c ELSE mExclusiveIDLock
  /\ Answered(c)
  /\ UNCHANGED <<phase, mMutex, threads, worker, connection>>

\* Mutant: the lock gets a sentinel that is not INVALID_CONNECTION_ID.
Mutant_UnlockQueue(c) ==
  /\ Reads(c, "unlock")
  /\ mExclusiveIDLock' = IF mExclusiveIDLock = c THEN "" ELSE mExclusiveIDLock
  /\ Answered(c)
  /\ UNCHANGED <<phase, mMutex, threads, worker, connection>>

\* handleUnlockQueueCall: an error unless the caller holds the lock.
UnlockQueue(c) ==
  /\ Reads(c, "unlock")
  /\ mExclusiveIDLock' = IF mExclusiveIDLock = c THEN Nobody ELSE mExclusiveIDLock
  /\ Answered(c)
  /\ UNCHANGED <<phase, mMutex, threads, worker, connection>>

\* A handler of any other call begins.
Handle(c, k) ==
  /\ Reads(c, k) /\ k \in {"read", "write", "later"}
  /\ Enter(thread(c), IF Checked(k) THEN "check" ELSE "add", c)
  /\ UNCHANGED <<phase, mMutex, mExclusiveIDLock, worker, clients>>

\* Mutant: every call goes in.
Mutant_CheckLock(t) ==
  /\ Alive /\ step[t] = "check"
  /\ Enter(t, "add", serving[t])
  /\ UNCHANGED <<phase, mMutex, mExclusiveIDLock, worker, clients>>

\* tryAddTask, under mExclusiveIDMutex.
CheckLock(t) ==
  LET c == serving[t]
  IN  /\ Alive /\ step[t] = "check"
      /\ IF mExclusiveIDLock \in {Nobody, c}
           THEN Enter(t, "add", c) /\ UNCHANGED call
           ELSE Leave(t) /\ Answered(c)
      /\ UNCHANGED <<phase, mMutex, mExclusiveIDLock, worker, connection>>

\* Mutant: no task is waited for.
Mutant_AddTask(t) ==
  /\ Alive /\ step[t] = "add" /\ mWorker
  /\ queue' = Append(queue, serving[t])
  /\ Leave(t)
  /\ UNCHANGED <<phase, mMutex, mExclusiveIDLock, mWorker, current, clients>>

\* ... after which mWorker is used without any lock.
AddTask(t) ==
  LET c == serving[t]
  IN  /\ Alive /\ step[t] = "add"
      /\ IF mWorker
           THEN /\ queue' = Append(queue, c)
                /\ IF Waits(call[c]) THEN Enter(t, "wait", c) ELSE Leave(t)
                /\ UNCHANGED phase
           ELSE phase' = "crashed" /\ UNCHANGED <<queue, threads>>
      /\ UNCHANGED <<mMutex, mExclusiveIDLock, mWorker, current, clients>>

\* addTaskAndWait returns.
TaskReturns(t) ==
  LET c == serving[t]
  IN  /\ Alive /\ step[t] = "wait"
      /\ ~Accepted(c)
      /\ Leave(t)
      /\ UNCHANGED <<phase, mMutex, mExclusiveIDLock, worker, clients>>

\* Mutant: the lock outlives its holder.
Mutant_disconnectedCallback(c) ==
  /\ Alive /\ step[thread(c)] = "idle" /\ connection[c] = "closed"
  /\ connection' = [connection EXCEPT ![c] = "removed"]
  /\ call' = [call EXCEPT ![c] = IF Accepted(c) THEN @ ELSE "none"]
  /\ UNCHANGED <<phase, mMutex, mExclusiveIDLock, threads, worker>>

\* The connection's thread notices that it was closed; a call that was not
\* read by then is lost.
disconnectedCallback(c) ==
  /\ Alive /\ step[thread(c)] = "idle" /\ connection[c] = "closed"
  /\ connection' = [connection EXCEPT ![c] = "removed"]
  /\ call' = [call EXCEPT ![c] = IF Accepted(c) THEN @ ELSE "none"]
  /\ mExclusiveIDLock' = IF mExclusiveIDLock = c THEN Nobody ELSE mExclusiveIDLock
  /\ UNCHANGED <<phase, mMutex, threads, worker>>

-----------------------------------------------------------------------------
(* The worker.                                                             *)

TakeTask ==
  /\ Alive /\ current = Nobody /\ queue # <<>>
  /\ current' = Head(queue)
  /\ queue' = Tail(queue)
  /\ UNCHANGED <<phase, mMutex, mExclusiveIDLock, threads, mWorker, clients>>

\* Lock lock(mMutex) in the task.  (The tasks of proxy calls and of invalid
\* names take no mMutex; they could only be done sooner.)
LockForTask ==
  /\ Alive /\ current # Nobody /\ mMutex = "none"
  /\ mMutex' = "worker"
  /\ UNCHANGED <<phase, mExclusiveIDLock, threads, worker, clients>>

\* Mutant: the mutex is unlocked by hand, and not by a task that throws.
Mutant_RunTask ==
  /\ Alive /\ mMutex = "worker" /\ current # Nobody
  /\ current' = Nobody
  /\ \E outcome \in {"none", "threw"} :
       /\ call' = [call EXCEPT ![current] = outcome]
       /\ mMutex' = IF outcome = "threw" THEN "worker" ELSE "none"
  /\ UNCHANGED <<phase, mExclusiveIDLock, threads, mWorker, queue, connection>>

\* The task runs to its end and leaves mMutex.  It sets the call's result unless
\* it ends by an exception its handler does not catch (handleSetActiveZoneCall
\* catches none); the worker goes on and addTaskAndWait returns all the same.  A
\* client that gives up such a call goes on like one that had its answer.
RunTask ==
  /\ Alive /\ mMutex = "worker"
  /\ mMutex' = "none"
  /\ current' = Nobody
  /\ \E outcome \in {"none", "threw"} : call' = [call EXCEPT ![current] = outcome]
  /\ UNCHANGED <<phase, mExclusiveIDLock, threads, mWorker, queue, connection>>

-----------------------------------------------------------------------------
(* What else the event poll's thread does.                                 *)

\* switchingSequenceMonitorNotify
Notified ==
  /\ phase = "running" /\ step["event"] = "idle"
  /\ Enter("event", "notified", Nobody)
  /\ UNCHANGED <<phase, mMutex, mExclusiveIDLock, worker, clients>>

Switch ==
  /\ phase = "running" /\ step["event"] = "notified" /\ mMutex = "none"
  /\ Leave("event")
  /\ UNCHANGED <<phase, mMutex, mExclusiveIDLock, worker, clients>>

\* A signal: handleStop or handleUpdate.
Signal ==
  /\ phase = "running" /\ step["event"] = "idle"
  /\ Enter("event", "stop", Nobody)
  /\ UNCHANGED <<phase, mMutex, mExclusiveIDLock, worker, clients>>

\* stop(): mMutex is taken and kept while mWorker.reset(), which leaves a null
\* pointer, waits in ~Worker for the tasks.
Stop ==
  /\ phase = "running" /\ step["event"] = "stop" /\ mMutex = "none"
  /\ mMutex' = "event"
  /\ mWorker' = FALSE
  /\ Enter("event", "reset", Nobody)
  /\ UNCHANGED <<phase, mExclusiveIDLock, queue, current, clients>>

Stopped ==
  /\ phase = "running" /\ step["event"] = "reset"
  /\ queue = <<>> /\ current = Nobody
  /\ phase' = "stopped"
  /\ mMutex' = "none"
  /\ Leave("event")
  /\ UNCHANGED <<mExclusiveIDLock, worker, clients>>

\* The IPC service is down and Server::run leaves its loop.
Exit ==
  /\ phase = "stopped" /\ step["event"] = "idle"
  /\ phase' = "exited"
  /\ UNCHANGED <<mMutex, mExclusiveIDLock, threads, worker, clients>>

ThreadStep(t) == CheckLock(t) \/ AddTask(t) \/ TaskReturns(t)

Handler(c) ==
  LockQueue(c) \/ UnlockQueue(c) \/ \E k \in Asks[c] : Handle(c, k)

Next ==
  \/ \E c \in Clients : \/ \E k \in Asks[c] : Call(c, k)
                        \/ Disconnect(c) \/ Handler(c) \/ disconnectedCallback(c)
  \/ \E t \in Threads : ThreadStep(t)
  \/ TakeTask \/ LockForTask \/ RunTask
  \/ Notified \/ Switch \/ Signal \/ Stop \/ Stopped \/ Exit

Spec == Init /\ [][Next]_vars

\* The scheduler runs every thread that can go on; a thread that waits for
\* mMutex gets it if it is free again and again; a thread's loop comes to
\* every connection that has something for it.
Fairness ==
  /\ \A t \in Threads : WF_vars(ThreadStep(t))
  /\ \A c \in Clients : SF_vars(Handler(c) \/ disconnectedCallback(c))
  /\ WF_vars(TakeTask \/ RunTask \/ Stopped \/ Exit)
  /\ SF_vars(LockForTask) /\ SF_vars(Switch \/ Stop)

FairSpec == Spec /\ Fairness
-----------------------------------------------------------------------------
(* What must hold.                                                         *)

\* The tasks of handlers that wait refer to the handler's locals: such a task
\* is in the queue, or runs, only while the handler that added it waits for
\* it; and no call is in the queue twice.
CallersOutliveTasks ==
  /\ IsInjective(queue) /\ current \notin ToSet(queue)
  /\ \A c \in Clients :
       Accepted(c) /\ Waits(call[c]) => step[thread(c)] = "wait" /\ serving[thread(c)] = c

\* The lock of the queue is never left with a connection that is gone, to
\* which nobody can belong any more.
LockHolderConnected ==
  mExclusiveIDLock # Nobody => connection[mExclusiveIDLock] # "removed"

\* "Lock the command queue exclusively": while a client holds the lock, no call
\* that the lock should keep out is added to the queue for another client...
Added(c) == ToSet(queue') \ ToSet(queue) = {c} /\ Checked(call[c])
LockExclusive ==
  [][\A c \in Clients : Added(c) => mExclusiveIDLock \in {Nobody, c}]_vars

\* ... which holds between clients whose calls arrive on one thread.
LockExclusiveOnThread ==
  [][\A c \in Clients :
       Added(c) => \/ mExclusiveIDLock \in {Nobody, c}
                   \/ thread(mExclusiveIDLock) # thread(c)]_vars

GoingDown == phase # "running" \/ step["event"] \in {"stop", "reset"}

\* Unless the daemon goes down, every call comes to an end, with an answer or by
\* an exception of its own task: neither the two threads and the worker, nor the
\* task of another that throws, nor a client that leaves while its task runs or
\* while it holds the lock, can make a call wait for ever.
EveryCallEnds ==
  \A c \in Clients : call[c] \in Kinds ~> call[c] \in {"none", "threw"} \/ GoingDown

\* A client that leaves does not keep the queue locked.
LeavingUnlocks ==
  \A c \in Clients :
    mExclusiveIDLock = c /\ connection[c] = "closed" ~> mExclusiveIDLock # c \/ GoingDown

\* A signal stops the daemon; stop() waits "for all tasks to complete".
StopReturns == step["event"] = "stop" ~> phase # "running"
=============================================================================
