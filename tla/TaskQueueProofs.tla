-------------------------- MODULE TaskQueueProofs --------------------------
(***************************************************************************)
(* Proofs about TaskQueue, for any set of clients on the two threads: the  *)
(* caller of a task that is waited for is there to the task's end, and the *)
(* lock of the queue neither outlives its holder nor lets in a call that   *)
(* arrives on the holder's own thread.                                     *)
(***************************************************************************)
EXTENDS TaskQueue, SequenceTheorems, TLAPS

Tasks == {"read", "write", "later"}

\* What a thread that is about to add a task knows of its client's call.
ServingInv ==
  \A t \in Threads :
    /\ step[t] \in {"check", "add", "wait"} => serving[t] \in Clients /\ thread(serving[t]) = t
    /\ step[t] \in {"check", "add"} => ~Accepted(serving[t]) /\ call[serving[t]] \in Tasks
    /\ step[t] = "check" => Checked(call[serving[t]])

\* A task in the queue is that of a call without an answer.
AcceptedInv == \A c \in Clients : Accepted(c) => call[c] \in Tasks

\* The lock was looked at, and its thread has done nothing since.
ExclusiveInv ==
  \A t \in Threads :
    step[t] = "add" /\ Checked(call[serving[t]]) =>
      \/ mExclusiveIDLock \in {Nobody, serving[t]}
      \/ thread(mExclusiveIDLock) # t

WorkerInv == mMutex = "worker" => current # Nobody

IInv ==
  /\ TypeOK
  /\ WorkerInv
  /\ ServingInv
  /\ AcceptedInv
  /\ ExclusiveInv
  /\ CallersOutliveTasks
  /\ LockHolderConnected

\* The facts about sequences that the steps on the queue rest on.
LEMMA AppendFacts ==
  ASSUME NEW S, NEW s \in Seq(S), NEW e \in S
  PROVE  /\ Append(s, e) \in Seq(S)
         /\ ToSet(Append(s, e)) = ToSet(s) \cup {e}
         /\ IsInjective(s) /\ e \notin ToSet(s) => IsInjective(Append(s, e))
<1>1. /\ Append(s, e) \in Seq(S) /\ DOMAIN s = 1..Len(s) /\ Len(s) \in Nat
      /\ DOMAIN Append(s, e) = 1..Len(s) + 1
      /\ \A n \in 1..Len(s) : Append(s, e)[n] = s[n]
      /\ Append(s, e)[Len(s) + 1] = e
  OBVIOUS
<1>2. \A n \in 1..Len(s) + 1 : n \in 1..Len(s) \/ n = Len(s) + 1
  BY <1>1
<1>3. ToSet(Append(s, e)) = ToSet(s) \cup {e}
  <2>1. ASSUME NEW x \in ToSet(Append(s, e)) PROVE x \in ToSet(s) \cup {e}
    <3>1. PICK n \in 1..Len(s) + 1 : x = Append(s, e)[n]
      BY <1>1, <2>1 DEF ToSet
    <3>2. QED
      BY <1>1, <1>2, <3>1 DEF ToSet
  <2>2. ASSUME NEW x \in ToSet(s) \cup {e} PROVE x \in ToSet(Append(s, e))
    <3>1. CASE x = e
      <4>1. Len(s) + 1 \in DOMAIN Append(s, e)
        BY <1>1
      <4>2. QED
        BY <1>1, <3>1, <4>1 DEF ToSet
    <3>2. CASE x \in ToSet(s)
      <4>1. PICK n \in 1..Len(s) : x = s[n]
        BY <1>1, <3>2 DEF ToSet
      <4>2. n \in DOMAIN Append(s, e) /\ Append(s, e)[n] = x
        BY <1>1, <4>1
      <4>3. QED
        BY <4>2 DEF ToSet
    <3>3. QED
      BY <2>2, <3>1, <3>2
  <2>3. QED
    BY <2>1, <2>2
<1>4. ASSUME IsInjective(s), e \notin ToSet(s),
             NEW m \in 1..Len(s) + 1, NEW n \in 1..Len(s) + 1,
             Append(s, e)[m] = Append(s, e)[n]
      PROVE  m = n
  <2>1. \A k \in 1..Len(s) : s[k] # e
    BY <1>1, <1>4 DEF ToSet
  <2>2. \A j, k \in 1..Len(s) : s[j] = s[k] => j = k
    BY <1>1, <1>4 DEF IsInjective
  <2>3. QED
    BY <1>1, <1>2, <1>4, <2>1, <2>2
<1>5. QED
  BY <1>1, <1>3, <1>4 DEF IsInjective

LEMMA TailFacts ==
  ASSUME NEW S, NEW s \in Seq(S), s # <<>>, IsInjective(s)
  PROVE  /\ Head(s) \in S /\ Tail(s) \in Seq(S)
         /\ IsInjective(Tail(s))
         /\ Head(s) \notin ToSet(Tail(s))
         /\ ToSet(s) = ToSet(Tail(s)) \cup {Head(s)}
<1>1. /\ Head(s) \in S /\ Tail(s) \in Seq(S) /\ Head(s) = s[1]
      /\ Len(s) \in Nat /\ Len(s) >= 1 /\ Len(Tail(s)) = Len(s) - 1
      /\ DOMAIN s = 1..Len(s) /\ DOMAIN Tail(s) = 1..Len(s) - 1
      /\ \A n \in 1..Len(s) - 1 : Tail(s)[n] = s[n + 1]
  OBVIOUS
<1>2. \A j, k \in 1..Len(s) : s[j] = s[k] => j = k
  BY <1>1 DEF IsInjective
<1>3. IsInjective(Tail(s))
  <2>1. ASSUME NEW m \in 1..Len(s) - 1, NEW n \in 1..Len(s) - 1, Tail(s)[m] = Tail(s)[n]
        PROVE  m = n
    <3>1. m + 1 \in 1..Len(s) /\ n + 1 \in 1..Len(s)
      BY <1>1
    <3>2. QED
      BY <1>1, <1>2, <2>1, <3>1
  <2>2. QED
    BY <1>1, <2>1 DEF IsInjective
<1>4. Head(s) \notin ToSet(Tail(s))
  <2>1. ASSUME NEW n \in 1..Len(s) - 1, Tail(s)[n] = s[1] PROVE FALSE
    <3>1. n + 1 \in 1..Len(s) /\ 1 \in 1..Len(s) /\ s[n + 1] = s[1]
      BY <1>1, <2>1
    <3>2. QED
      BY <1>1, <1>2, <3>1
  <2>2. QED
    BY <1>1, <2>1 DEF ToSet
<1>5. ToSet(s) = ToSet(Tail(s)) \cup {Head(s)}
  <2>1. ASSUME NEW x \in ToSet(s) PROVE x \in ToSet(Tail(s)) \cup {Head(s)}
    <3>1. PICK n \in 1..Len(s) : x = s[n]
      BY <1>1, <2>1 DEF ToSet
    <3>2. CASE n # 1
      <4>1. n - 1 \in 1..Len(s) - 1 /\ Tail(s)[n - 1] = s[n]
        BY <1>1, <3>2
      <4>2. QED
        BY <1>1, <3>1, <4>1 DEF ToSet
    <3>3. QED
      BY <1>1, <3>1, <3>2
  <2>2. ASSUME NEW x \in ToSet(Tail(s)) \cup {Head(s)} PROVE x \in ToSet(s)
    <3>1. CASE x = Head(s)
      <4>1. 1 \in DOMAIN s
        BY <1>1
      <4>2. QED
        BY <1>1, <3>1, <4>1 DEF ToSet
    <3>2. CASE x \in ToSet(Tail(s))
      <4>1. PICK n \in 1..Len(s) - 1 : x = Tail(s)[n]
        BY <1>1, <3>2 DEF ToSet
      <4>2. n + 1 \in DOMAIN s /\ s[n + 1] = x
        BY <1>1, <4>1
      <4>3. QED
        BY <4>2 DEF ToSet
    <3>3. QED
      BY <2>2, <3>1, <3>2
  <2>3. QED
    BY <2>1, <2>2
<1>6. QED
  BY <1>1, <1>3, <1>4, <1>5

-----------------------------------------------------------------------------
(* The invariant.                                                          *)

LEMMA InitInv == Init => IInv
<1> SUFFICES ASSUME Init PROVE IInv
  OBVIOUS
<1>1. ToSet(queue) = {} /\ IsInjective(queue) /\ queue \in Seq(Clients)
  BY DEF Init, ToSet, IsInjective
<1>2. QED
  BY <1>1, ClientsAssumption DEF Init, IInv, TypeOK, WorkerInv, ServingInv, AcceptedInv,
       ExclusiveInv, CallersOutliveTasks, LockHolderConnected, Accepted, Threads, Waits, Checked

\* A client without a call makes one: no thread serves it, no task is its own.
LEMMA CallInv ==
  ASSUME IInv, NEW c \in Clients, NEW k \in Kinds, Call(c, k)
  PROVE  IInv'
<1> USE DEF IInv, threads, worker, Accepted, Tasks, Call
<1>1. TypeOK'
  BY DEF TypeOK
<1>2. WorkerInv'
  BY DEF WorkerInv
<1>3. ServingInv'
  BY DEF ServingInv
<1>4. AcceptedInv'
  BY DEF AcceptedInv
<1>5. ExclusiveInv'
  BY DEF ExclusiveInv, ServingInv
<1>6. CallersOutliveTasks'
  BY DEF CallersOutliveTasks, AcceptedInv
<1>7. LockHolderConnected'
  BY DEF LockHolderConnected
<1>8. QED
  BY <1>1, <1>2, <1>3, <1>4, <1>5, <1>6, <1>7

\* A connection closes.
LEMMA DisconnectInv ==
  ASSUME IInv, NEW c \in Clients, Disconnect(c)
  PROVE  IInv'
<1> USE DEF IInv, threads, worker, Accepted, Disconnect
<1>1. TypeOK'
  BY DEF TypeOK
<1>2. WorkerInv'
  BY DEF WorkerInv
<1>3. ServingInv'
  BY DEF ServingInv
<1>4. AcceptedInv'
  BY DEF AcceptedInv
<1>5. ExclusiveInv'
  BY DEF ExclusiveInv
<1>6. CallersOutliveTasks'
  BY DEF CallersOutliveTasks
<1>7. LockHolderConnected'
  BY DEF LockHolderConnected
<1>8. QED
  BY <1>1, <1>2, <1>3, <1>4, <1>5, <1>6, <1>7

\* The lock goes to a connection that is there, and whose thread is idle.
LEMMA LockQueueInv ==
  ASSUME IInv, NEW c \in Clients, LockQueue(c)
  PROVE  IInv'
<1> USE DEF IInv, threads, worker, Accepted, LockQueue, Reads, Answered
<1>1. TypeOK'
  BY DEF TypeOK
<1>2. WorkerInv'
  BY DEF WorkerInv
<1>3. ServingInv'
  BY DEF ServingInv
<1>4. AcceptedInv'
  BY DEF AcceptedInv
<1>5. ExclusiveInv'
  BY DEF ExclusiveInv, Checked
<1>6. CallersOutliveTasks'
  BY DEF CallersOutliveTasks
<1>7. LockHolderConnected'
  BY DEF LockHolderConnected
<1>8. QED
  BY <1>1, <1>2, <1>3, <1>4, <1>5, <1>6, <1>7

\* The lock is given back.
LEMMA UnlockQueueInv ==
  ASSUME IInv, NEW c \in Clients, UnlockQueue(c)
  PROVE  IInv'
<1> USE DEF IInv, threads, worker, Accepted, UnlockQueue, Reads, Answered
<1>1. TypeOK'
  BY DEF TypeOK
<1>2. WorkerInv'
  BY DEF WorkerInv
<1>3. ServingInv'
  BY DEF ServingInv
<1>4. AcceptedInv'
  BY DEF AcceptedInv
<1>5. ExclusiveInv'
  BY DEF ExclusiveInv, Checked
<1>6. CallersOutliveTasks'
  BY DEF CallersOutliveTasks
<1>7. LockHolderConnected'
  BY DEF LockHolderConnected
<1>8. QED
  BY <1>1, <1>2, <1>3, <1>4, <1>5, <1>6, <1>7

\* A thread that was idle begins to serve a client whose task is nowhere.
LEMMA HandleInv ==
  ASSUME IInv, NEW c \in Clients, NEW k \in Kinds, Handle(c, k)
  PROVE  IInv'
<1> USE DEF IInv, worker, clients, Accepted, Handle, Reads, Enter
<1>1. TypeOK'
  BY DEF TypeOK
<1>2. WorkerInv'
  BY DEF WorkerInv
<1>3. ServingInv'
  BY DEF ServingInv, TypeOK, Tasks
<1>4. AcceptedInv'
  BY DEF AcceptedInv
<1>5. ExclusiveInv'
  BY DEF ExclusiveInv, TypeOK
<1>6. CallersOutliveTasks'
  BY DEF CallersOutliveTasks
<1>7. LockHolderConnected'
  BY DEF LockHolderConnected
<1>8. QED
  BY <1>1, <1>2, <1>3, <1>4, <1>5, <1>6, <1>7

\* A connection goes, and with it its lock and the call nobody read.
LEMMA RemovedInv ==
  ASSUME IInv, NEW c \in Clients, disconnectedCallback(c)
  PROVE  IInv'
<1> USE DEF IInv, threads, worker, Accepted, disconnectedCallback
<1>1. TypeOK'
  BY DEF TypeOK
<1>2. WorkerInv'
  BY DEF WorkerInv
<1>3. ServingInv'
  BY DEF ServingInv
<1>4. AcceptedInv'
  BY DEF AcceptedInv
<1>5. ExclusiveInv'
  BY DEF ExclusiveInv, Checked
<1>6. CallersOutliveTasks'
  BY DEF CallersOutliveTasks
<1>7. LockHolderConnected'
  BY DEF LockHolderConnected
<1>8. QED
  BY <1>1, <1>2, <1>3, <1>4, <1>5, <1>6, <1>7

\* A call is let in, or refused.
LEMMA CheckLockInv ==
  ASSUME IInv, NEW t \in Threads, CheckLock(t)
  PROVE  IInv'
<1> USE DEF IInv, worker, Accepted, CheckLock, Enter, Leave, Answered
<1>1. TypeOK'
  BY DEF TypeOK
<1>2. WorkerInv'
  BY DEF WorkerInv
<1>3. ServingInv'
  BY DEF ServingInv, TypeOK
<1>4. AcceptedInv'
  BY DEF AcceptedInv, TypeOK, ServingInv
<1>5. ExclusiveInv'
  BY DEF ExclusiveInv, TypeOK, ServingInv
<1>6. CallersOutliveTasks'
  BY DEF CallersOutliveTasks, TypeOK, Threads, thread, Waits
<1>7. LockHolderConnected'
  BY DEF LockHolderConnected
<1>8. QED
  BY <1>1, <1>2, <1>3, <1>4, <1>5, <1>6, <1>7

\* A handler whose task is over returns.
LEMMA TaskReturnsInv ==
  ASSUME IInv, NEW t \in Threads, TaskReturns(t)
  PROVE  IInv'
<1> USE DEF IInv, worker, clients, Accepted, TaskReturns, Enter, Leave
<1>1. TypeOK'
  BY DEF TypeOK
<1>2. WorkerInv'
  BY DEF WorkerInv
<1>3. ServingInv'
  BY DEF ServingInv, TypeOK
<1>4. AcceptedInv'
  BY DEF AcceptedInv
<1>5. ExclusiveInv'
  BY DEF ExclusiveInv
<1>6. CallersOutliveTasks'
  BY DEF CallersOutliveTasks
<1>7. LockHolderConnected'
  BY DEF LockHolderConnected
<1>8. QED
  BY <1>1, <1>2, <1>3, <1>4, <1>5, <1>6, <1>7

\* The worker enters mMutex.
LEMMA LockForTaskInv ==
  ASSUME IInv, LockForTask
  PROVE  IInv'
<1> USE DEF IInv, threads, worker, clients, Accepted, LockForTask
<1>1. TypeOK'
  BY DEF TypeOK
<1>2. WorkerInv'
  BY DEF WorkerInv
<1>3. ServingInv'
  BY DEF ServingInv
<1>4. AcceptedInv'
  BY DEF AcceptedInv
<1>5. ExclusiveInv'
  BY DEF ExclusiveInv
<1>6. CallersOutliveTasks'
  BY DEF CallersOutliveTasks
<1>7. LockHolderConnected'
  BY DEF LockHolderConnected
<1>8. QED
  BY <1>1, <1>2, <1>3, <1>4, <1>5, <1>6, <1>7

\* A task ends, and with it the call it was for.
LEMMA RunTaskInv ==
  ASSUME IInv, RunTask
  PROVE  IInv'
<1> USE DEF IInv, threads, Accepted, RunTask
<1>1. TypeOK'
  BY DEF TypeOK
<1>2. WorkerInv'
  BY DEF WorkerInv
<1>3. ServingInv'
  BY ClientsAssumption DEF ServingInv
<1>4. AcceptedInv'
  BY ClientsAssumption DEF AcceptedInv, CallersOutliveTasks
<1>5. ExclusiveInv'
  BY DEF ExclusiveInv, Checked
<1>6. CallersOutliveTasks'
  <2>1. queue' = queue /\ current' = Nobody /\ UNCHANGED threads
    BY DEF threads
  <2>2. ASSUME NEW c \in Clients, Accepted(c)' PROVE c # current /\ Accepted(c) /\ call'[c] = call[c]
    BY <2>1, <2>2, ClientsAssumption DEF CallersOutliveTasks, TypeOK
  <2>3. ASSUME NEW c \in Clients, Accepted(c)', Waits(call[c])'
        PROVE  (step[thread(c)] = "wait" /\ serving[thread(c)] = c)'
    BY <2>1, <2>2, <2>3 DEF CallersOutliveTasks, threads
  <2>4. IsInjective(queue') /\ current' \notin ToSet(queue')
    <3>1. \A c \in ToSet(queue) : c \in Clients
      BY DEF TypeOK, ToSet
    <3>2. QED
      BY <2>1, <3>1, ClientsAssumption DEF CallersOutliveTasks
  <2>5. QED
    BY <2>3, <2>4 DEF CallersOutliveTasks
<1>7. LockHolderConnected'
  BY DEF LockHolderConnected
<1>8. QED
  BY <1>1, <1>2, <1>3, <1>4, <1>5, <1>6, <1>7

\* The event poll's thread on its own business.
LEMMA EventStepsInv ==
  ASSUME IInv, Notified \/ Switch \/ Signal \/ Stop \/ Stopped \/ Exit
  PROVE  IInv'
<1> USE DEF IInv, threads, worker, clients, Accepted, Notified, Switch, Signal, Stop, Stopped, Exit, Enter, Leave
<1>1. TypeOK'
  <2> USE DEF TypeOK, Threads
  <2>1. CASE Notified \/ Switch \/ Signal
    BY <2>1
  <2>2. CASE Stop
    BY <2>2
  <2>3. CASE Stopped
    BY <2>3
  <2>4. CASE Exit
    BY <2>4
  <2>5. QED
    BY <2>1, <2>2, <2>3, <2>4
<1>2. WorkerInv'
  BY DEF WorkerInv
<1>3. ServingInv'
  BY DEF ServingInv, TypeOK
<1>4. AcceptedInv'
  BY DEF AcceptedInv
<1>5. ExclusiveInv'
  BY DEF ExclusiveInv, TypeOK
<1>6. CallersOutliveTasks'
  BY DEF CallersOutliveTasks, TypeOK, Threads, thread
<1>7. LockHolderConnected'
  BY DEF LockHolderConnected
<1>8. QED
  BY <1>1, <1>2, <1>3, <1>4, <1>5, <1>6, <1>7

\* A task is added, for the client its thread serves.
LEMMA AddTaskInv ==
  ASSUME IInv, NEW t \in Threads, AddTask(t)
  PROVE  IInv'
<1> USE DEF IInv, AddTask, clients
<1> DEFINE c == serving[t]
<1>1. /\ c \in Clients /\ thread(c) = t /\ ~Accepted(c) /\ call[c] \in Tasks
      /\ queue \in Seq(Clients) /\ IsInjective(queue) /\ c # current /\ c \notin ToSet(queue)
      /\ UNCHANGED <<mMutex, mExclusiveIDLock, mWorker, current, connection, call>>
  BY DEF ServingInv, TypeOK, CallersOutliveTasks, Accepted
<1>2. CASE ~mWorker
  BY <1>2 DEF TypeOK, WorkerInv, ServingInv, AcceptedInv, ExclusiveInv, CallersOutliveTasks,
       LockHolderConnected, Accepted, threads
<1>3. CASE mWorker
  <2>1. /\ queue' = Append(queue, c)
        /\ phase' = phase
        /\ IF Waits(call[c]) THEN Enter(t, "wait", c) ELSE Enter(t, "idle", Nobody)
    BY <1>3 DEF Leave
  <2>2. /\ queue' \in Seq(Clients)
        /\ ToSet(queue') = ToSet(queue) \cup {c}
        /\ IsInjective(queue')
    BY <1>1, <2>1, AppendFacts
  <2>3. /\ step' \in [Threads -> {"idle", "check", "add", "wait", "notified", "stop", "reset"}]
        /\ serving' \in [Threads -> Clients \cup {Nobody}]
        /\ step'[t] \in {"wait", "idle"}
        /\ Waits(call[c]) => step'[t] = "wait" /\ serving'[t] = c
        /\ step'[t] = "wait" => serving'[t] = c
        /\ \A u \in Threads \ {t} : step'[u] = step[u] /\ serving'[u] = serving[u]
    BY <1>1, <2>1 DEF TypeOK, Enter
  <2>4. \A d \in Clients : Accepted(d)' <=> Accepted(d) \/ d = c
    BY <1>1, <2>2 DEF Accepted
  <2>5. TypeOK'
    BY <1>1, <2>1, <2>2, <2>3 DEF TypeOK
  <2>6. WorkerInv' /\ LockHolderConnected'
    BY <1>1 DEF WorkerInv, LockHolderConnected
  <2>7. ServingInv'
    <3>1. \A u \in Threads \ {t} : step[u] \in {"check", "add"} => serving[u] # c
      BY <1>1 DEF ServingInv
    <3>2. QED
      BY <1>1, <2>3, <2>4, <3>1 DEF ServingInv
  <2>8. AcceptedInv'
    BY <1>1, <2>4 DEF AcceptedInv
  <2>9. ExclusiveInv'
    BY <1>1, <2>3 DEF ExclusiveInv
  <2>10. CallersOutliveTasks'
    <3>1. ASSUME NEW d \in Clients, Accepted(d), Waits(call[d])
          PROVE  thread(d) # t /\ step'[thread(d)] = "wait" /\ serving'[thread(d)] = d
      <4>1. step[thread(d)] = "wait" /\ thread(d) \in Threads
        BY <3>1 DEF CallersOutliveTasks, thread, Threads
      <4>2. QED
        BY <1>1, <2>3, <3>1, <4>1 DEF CallersOutliveTasks
    <3>2. QED
      BY <1>1, <2>2, <2>3, <2>4, <3>1 DEF CallersOutliveTasks
  <2>11. QED
    BY <2>5, <2>6, <2>7, <2>8, <2>9, <2>10
<1>4. QED
  BY <1>2, <1>3

\* The worker takes a task: it stays accepted.
LEMMA TakeTaskInv ==
  ASSUME IInv, TakeTask
  PROVE  IInv'
<1> USE DEF IInv, TakeTask, threads, clients
<1>1. /\ queue \in Seq(Clients) /\ queue # <<>> /\ IsInjective(queue)
      /\ current = Nobody /\ queue' = Tail(queue) /\ current' = Head(queue)
  BY DEF TypeOK, CallersOutliveTasks
<1>2. /\ current' \in Clients /\ queue' \in Seq(Clients) /\ IsInjective(queue')
      /\ current' \notin ToSet(queue')
      /\ ToSet(queue) = ToSet(queue') \cup {current'}
  BY <1>1, TailFacts
<1>3. \A c \in Clients : Accepted(c)' <=> Accepted(c)
  BY <1>1, <1>2, ClientsAssumption DEF Accepted
<1>4. TypeOK'
  BY <1>1, <1>2 DEF TypeOK
<1>5. WorkerInv' /\ LockHolderConnected' /\ ExclusiveInv'
  BY <1>1, <1>2, ClientsAssumption DEF WorkerInv, LockHolderConnected, ExclusiveInv
<1>6. ServingInv'
  BY <1>3 DEF ServingInv
<1>7. AcceptedInv'
  BY <1>3 DEF AcceptedInv
<1>8. CallersOutliveTasks'
  BY <1>2, <1>3 DEF CallersOutliveTasks
<1>9. QED
  BY <1>4, <1>5, <1>6, <1>7, <1>8

LEMMA NextInv == IInv /\ [Next]_vars => IInv'
<1> SUFFICES ASSUME IInv, [Next]_vars PROVE IInv'
  OBVIOUS
<1>1. CASE UNCHANGED vars
  BY <1>1 DEF vars, threads, worker, clients, IInv, TypeOK, WorkerInv, ServingInv, AcceptedInv,
       ExclusiveInv, CallersOutliveTasks, LockHolderConnected, Accepted
<1>2. ASSUME NEW c \in Clients, NEW k \in Asks[c], Call(c, k) PROVE IInv'
  BY <1>2, AsksAssumption, CallInv
<1>3. ASSUME NEW c \in Clients, Disconnect(c) \/ disconnectedCallback(c) PROVE IInv'
  BY <1>3, DisconnectInv, RemovedInv
<1>4. ASSUME NEW c \in Clients, Handler(c) PROVE IInv'
  BY <1>4, AsksAssumption, LockQueueInv, UnlockQueueInv, HandleInv DEF Handler
<1>5. ASSUME NEW t \in Threads, ThreadStep(t) PROVE IInv'
  BY <1>5, CheckLockInv, AddTaskInv, TaskReturnsInv DEF ThreadStep
<1>6. CASE TakeTask \/ LockForTask \/ RunTask
  BY <1>6, TakeTaskInv, LockForTaskInv, RunTaskInv
<1>7. CASE Notified \/ Switch \/ Signal \/ Stop \/ Stopped \/ Exit
  BY <1>7, EventStepsInv
<1>8. QED
  BY <1>1, <1>2, <1>3, <1>4, <1>5, <1>6, <1>7 DEF Next

LEMMA Invariance == Spec => []IInv
BY InitInv, NextInv, PTL DEF Spec

-----------------------------------------------------------------------------
(* The theorems.                                                           *)

\* TypeOK: every step keeps the variables of the two threads, the worker and
\* the clients in their types.
THEOREM TypeCorrect == Spec => []TypeOK
<1>1. IInv => TypeOK
  BY DEF IInv
<1>2. QED
  BY <1>1, Invariance, PTL

\* addTaskAndWait: a task whose handler waits for it refers to the handler's
\* locals, and the handler is there until the task is over, even if the client
\* has left.
THEOREM CallersWait == Spec => []CallersOutliveTasks
<1>1. IInv => CallersOutliveTasks
  BY DEF IInv
<1>2. QED
  BY <1>1, Invariance, PTL

\* disconnectedCallback: the queue is never left locked by a connection that
\* was removed.
THEOREM LockIsGivenBack == Spec => []LockHolderConnected
<1>1. IInv => LockHolderConnected
  BY DEF IInv
<1>2. QED
  BY <1>1, Invariance, PTL

\* Only AddTask makes the queue longer.
LEMMA OnlyAddTaskAdds ==
  ASSUME IInv, [Next]_vars, NEW c \in Clients, Added(c)
  PROVE  \E t \in Threads : AddTask(t) /\ serving[t] = c
<1>1. queue \in Seq(Clients) /\ IsInjective(queue)
  BY DEF IInv, TypeOK, CallersOutliveTasks
<1>2. queue' # queue
  BY DEF Added
<1>3. CASE TakeTask
  <2>1. ToSet(queue') \subseteq ToSet(queue)
    BY <1>1, <1>3, TailFacts DEF TakeTask
  <2>2. QED
    BY <2>1 DEF Added
<1>4. CASE \E t \in Threads : AddTask(t)
  <2>1. PICK t \in Threads : AddTask(t)
    BY <1>4
  <2>2. queue' = Append(queue, serving[t]) /\ serving[t] \in Clients
    BY <1>2, <2>1 DEF AddTask, IInv, ServingInv
  <2>3. ToSet(queue') = ToSet(queue) \cup {serving[t]}
    BY <1>1, <2>2, AppendFacts
  <2>4. QED
    BY <2>1, <2>3 DEF Added
<1>5. QED
  BY <1>2, <1>3, <1>4 DEF Next, ThreadStep, Handler, Call, Disconnect, LockQueue, UnlockQueue,
       Handle, CheckLock, TaskReturns, disconnectedCallback, LockForTask, RunTask, Notified, Switch,
       Signal, Stop, Stopped, Exit, vars, threads, worker, clients

\* The lock the adding thread found is the lock when it adds, as far as that
\* thread's own clients go.
LEMMA AddedUnderLock ==
  ASSUME IInv, [Next]_vars, NEW c \in Clients, Added(c)
  PROVE  \/ mExclusiveIDLock \in {Nobody, c}
         \/ thread(mExclusiveIDLock) # thread(c)
<1>1. PICK t \in Threads : AddTask(t) /\ serving[t] = c
  BY OnlyAddTaskAdds
<1>2. step[t] = "add" /\ Checked(call[c]) /\ thread(c) = t
  BY <1>1 DEF AddTask, Added, IInv, ServingInv
<1>3. QED
  BY <1>1, <1>2 DEF IInv, ExclusiveInv

\* tryAddTask looks at the lock before it adds, not while it adds; between
\* clients of one thread that is as good.
THEOREM LockExcludesOnThread == Spec => LockExclusiveOnThread
<1>1. IInv /\ [Next]_vars =>
        [\A c \in Clients :
           Added(c) => \/ mExclusiveIDLock \in {Nobody, c}
                       \/ thread(mExclusiveIDLock) # thread(c)]_vars
  BY AddedUnderLock
<1>2. QED
  BY <1>1, Invariance, PTL DEF Spec, LockExclusiveOnThread

\* In a build without D-Bus the lock of the queue is exclusive.
THEOREM LockExcludesWithoutDbus ==
  ASSUME DbusClients = {}
  PROVE  Spec => LockExclusive
<1>1. IInv /\ [Next]_vars =>
        [\A c \in Clients : Added(c) => mExclusiveIDLock \in {Nobody, c}]_vars
  BY AddedUnderLock DEF thread
<1>2. QED
  BY <1>1, Invariance, PTL DEF Spec, LockExclusive
=============================================================================
