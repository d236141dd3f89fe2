-------------------------- MODULE ContainerProofs --------------------------
(***************************************************************************)
(* Proofs about Container, for any number of objects and any failures: its *)
(* types; that the exit of init is reported; that a guard starts one init; *)
(* and that object and guard together implement ContainerLife.             *)
(***************************************************************************)
EXTENDS Container, SequenceTheorems, TLAPS

\* The states of an object that does not know of an init.
Cold == {"STOPPED", "STARTING", "CONNECTING"}

\* A guard that has served nobody yet, or never will.
Unserved == guard \in {"none", "forked"} \/ (guard = "gone" /\ init = "none")
USE DEF Unserved

\* The objects as the guard sees them: it serves one at a time, in order.
PeersInv ==
  \A h \in Hosts :
    /\ h > host => peer[h] = "none"
    /\ peer[h] \in {"none", "opened"} => toGuard[h] = <<>>
    /\ peer[h] = "accepted" <=> mPeerID = h
    /\ Unserved => peer[h] \in {"none", "removed"}
    /\ peer[h] = "opened" => \A g \in Hosts : g > h => peer[g] \in {"none", "opened"}

\* The guard's configuration comes before its init.
GuardInv ==
  /\ Unserved => mConfig = "none"
  /\ mConfig = "none" => init = "none"
  /\ mConfig \in {"RUNNING", "STOPPING"} => init # "none"
  /\ mConfig = "STOPPED" => init \in {"none", "reaped"}
  /\ init = "reaped" => guard = "gone"
  /\ guard = "gone" => init \in {"none", "reaped", "lost"}

\* What a guard has yet to read from the peer it serves.
RequestsInv ==
  guard = "serving" =>
    \A h \in Hosts : peer[h] = "accepted" =>
      \/ toGuard[h] = <<>>
      \/ toGuard[h] = <<"STOP">> /\ init # "none"
      \/ toGuard[h] = <<"START">> /\ init = "none"
      \/ (\E s \in Cold : toGuard[h] = <<s, "START">>) /\ init = "none"

\* What an object has yet to read: the answer to its only request, and the last
\* message of a guard that reaped its init.
Answer(m) ==
  /\ toGuard[host] = <<>> /\ mState \in Cold
  /\ \/ m = "GUARD_READY" /\ init = "none"
     \/ m = "PID" /\ init # "none"
     \/ m = "ERROR"
     \/ /\ m \in States /\ mState = "CONNECTING"
        /\ m \in {"RUNNING", "STOPPING"} => init # "none"
        /\ m = "STOPPED" => init \in {"none", "reaped"}

AnswersInv ==
  /\ peer[host] \in {"none", "opened"} => toHost = <<>>
  /\ peer[host] = "accepted" /\ init # "reaped" =>
       toHost = <<>> \/ \E m \in ToHost : toHost = <<m>> /\ Answer(m)
  /\ peer[host] = "accepted" /\ init = "reaped" =>
       \/ toHost = <<>> /\ mExitStatus
       \/ toHost = <<"INIT_STOPPED">>
       \/ \E m \in ToHost : toHost = <<m, "INIT_STOPPED">> /\ Answer(m)

\* An object knows of an init only after it was told, and stops it once.
KnowsInv ==
  /\ host \in Hosts /\ peer[host] # "removed"
  /\ peer[host] \in {"none", "opened"} => mState \in Cold
  /\ mState \in {"RUNNING", "STOPPING"} => init # "none"
  /\ mState = "RUNNING" => toGuard[host] = <<>>
  /\ stopping => /\ toGuard[host] = <<>> /\ init # "none" /\ peer[host] = "accepted"
                 /\ mState = "STOPPING" \/ (mState = "STOPPED" /\ guard = "gone" /\ toHost = <<>>)

\* An object that is about to connect without being asked to finds a guard
\* nobody has talked to.
FreshInv ==
  /\ peer[host] \in {"none", "opened"}
  /\ created \/ (peer[host] = "opened" /\ mState # "CONNECTING")
  => mConfig = "none" /\ \A h \in Hosts \ {host} : peer[h] \in {"none", "removed"}

\* Nothing is on its way to an object that is gone.
IdleInv == ~Alive => toHost = <<>> /\ ~stopping /\ ~created

ObjectInv ==
  /\ IdleInv
  /\ Alive => AnswersInv /\ KnowsInv /\ FreshInv

IInv == TypeOK /\ PeersInv /\ GuardInv /\ RequestsInv /\ ObjectInv

\* One or two messages are as good as listed.
LEMMA Messages ==
  /\ \A a : Head(<<a>>) = a /\ Tail(<<a>>) = <<>> /\ Append(<<>>, a) = <<a>> /\ ToSet(<<a>>) = {a}
  /\ \A a, b : /\ Head(<<a, b>>) = a /\ Tail(<<a, b>>) = <<b>> /\ Append(<<a>>, b) = <<a, b>>
               /\ <<>> \o <<a, b>> = <<a, b>> /\ ToSet(<<a, b>>) = {a, b}
<1>1. ASSUME NEW a
      PROVE  /\ Head(<<a>>) = a /\ Tail(<<a>>) = <<>> /\ Append(<<>>, a) = <<a>>
             /\ ToSet(<<a>>) = {a}
  <2>1. <<>> \in Seq({a})
    OBVIOUS
  <2>2. Append(<<>>, a) = <<a>>
    BY <2>1
  <2>3. DOMAIN <<a>> = {1}
    OBVIOUS
  <2>4. ToSet(<<a>>) = {a}
    BY <2>3 DEF ToSet
  <2>5. QED
    BY <2>2, <2>4
<1>2. ASSUME NEW a, NEW b
      PROVE  /\ Head(<<a, b>>) = a /\ Tail(<<a, b>>) = <<b>> /\ Append(<<a>>, b) = <<a, b>>
             /\ <<>> \o <<a, b>> = <<a, b>> /\ ToSet(<<a, b>>) = {a, b}
  <2>1. <<a>> \in Seq({a, b}) /\ <<a, b>> \in Seq({a, b})
    OBVIOUS
  <2>2. /\ Append(<<a>>, b) \in Seq({a, b}) /\ Len(Append(<<a>>, b)) = 2
        /\ \A n \in 1..2 : Append(<<a>>, b)[n] = <<a, b>>[n]
    BY <2>1
  <2>3. Append(<<a>>, b) = <<a, b>>
    BY <2>1, <2>2, SeqEqual
  <2>4. DOMAIN <<a, b>> = {1, 2}
    OBVIOUS
  <2>5. ToSet(<<a, b>>) = {a, b}
    BY <2>4 DEF ToSet
  <2>6. <<>> \o <<a, b>> = <<a, b>>
    BY <2>1
  <2>7. QED
    BY <2>3, <2>5, <2>6
<1>3. QED
  BY <1>1, <1>2

\* Sequences of messages stay sequences of messages.
LEMMA SeqFacts ==
  /\ \A s \in Seq(ToHost) :
       (s # <<>> => Tail(s) \in Seq(ToHost)) /\ (\A m \in ToHost : Append(s, m) \in Seq(ToHost))
  /\ \A s \in Seq(ToGuard) :
       (s # <<>> => Tail(s) \in Seq(ToGuard)) /\ (\A m \in ToGuard : Append(s, m) \in Seq(ToGuard))
  /\ \A s \in Seq(ToGuard) : \A m \in States : s \o <<m, "START">> \in Seq(ToGuard)
  /\ <<>> \in Seq(ToHost) /\ <<>> \in Seq(ToGuard)
<1>1. /\ \A s \in Seq(ToHost) :
       (s # <<>> => Tail(s) \in Seq(ToHost)) /\ (\A m \in ToHost : Append(s, m) \in Seq(ToHost))
      /\ \A s \in Seq(ToGuard) :
       (s # <<>> => Tail(s) \in Seq(ToGuard)) /\ (\A m \in ToGuard : Append(s, m) \in Seq(ToGuard))
      /\ <<>> \in Seq(ToHost) /\ <<>> \in Seq(ToGuard)
  OBVIOUS
<1>2. ASSUME NEW s \in Seq(ToGuard), NEW m \in States PROVE s \o <<m, "START">> \in Seq(ToGuard)
  <2>1. <<m, "START">> \in Seq(ToGuard)
    BY DEF ToGuard
  <2>2. QED
    BY <2>1
<1>3. QED
  BY <1>1, <1>2

\* What the guard reads from a peer: the next of its requests.
LEMMA ReadFacts ==
  ASSUME IInv, NEW h \in Hosts, NEW m, Read(h, m)
  PROVE  /\ mPeerID = h
         /\ \/ /\ m \in Cold /\ init = "none" /\ toGuard[h] = <<m, "START">>
               /\ toGuard' = [toGuard EXCEPT ![h] = <<"START">>]
            \/ /\ m = "START" /\ init = "none" /\ toGuard[h] = <<"START">>
               /\ toGuard' = [toGuard EXCEPT ![h] = <<>>]
            \/ /\ m = "STOP" /\ init # "none" /\ toGuard[h] = <<"STOP">>
               /\ toGuard' = [toGuard EXCEPT ![h] = <<>>]
<1>1. mPeerID = h
  BY DEF IInv, PeersInv, Read
<1>2. CASE toGuard[h] = <<"STOP">> /\ init # "none"
  BY <1>1, <1>2, Messages DEF Read
<1>3. CASE toGuard[h] = <<"START">> /\ init = "none"
  BY <1>1, <1>3, Messages DEF Read
<1>4. ASSUME NEW s \in Cold, toGuard[h] = <<s, "START">>, init = "none"
      PROVE  /\ m \in Cold /\ toGuard[h] = <<m, "START">>
             /\ toGuard' = [toGuard EXCEPT ![h] = <<"START">>]
  BY <1>4, Messages DEF Read
<1>5. QED
  BY <1>1, <1>2, <1>3, <1>4 DEF IInv, RequestsInv, Read

\* What an object reads: the answer to its request, or the guard's last message.
LEMMA ReceiveFacts ==
  ASSUME IInv, NEW m, Receive(m)
  PROVE  /\ Alive /\ host \in Hosts /\ peer[host] = "accepted" /\ guard \in {"serving", "gone"}
         /\ \/ m = "INIT_STOPPED" /\ init = "reaped" /\ toHost' = <<>>
            \/ /\ m \in ToHost /\ Answer(m)
               /\ \/ init # "reaped" /\ toHost' = <<>>
                  \/ init = "reaped" /\ toHost' = <<"INIT_STOPPED">>
<1> USE DEF IInv, ObjectInv
<1>1. Alive /\ toHost # <<>>
  BY DEF Receive, IdleInv
<1>2. host \in Hosts /\ peer[host] = "accepted" /\ guard \in {"serving", "gone"}
  BY <1>1 DEF TypeOK, AnswersInv, KnowsInv, PeersInv
<1>3. ASSUME NEW n \in ToHost, toHost = <<n>>, Answer(n)
      PROVE  m = n /\ toHost' = <<>>
  BY <1>3, Messages DEF Receive
<1>4. ASSUME toHost = <<"INIT_STOPPED">>
      PROVE  m = "INIT_STOPPED" /\ toHost' = <<>>
  BY <1>4, Messages DEF Receive
<1>5. ASSUME NEW n \in ToHost, toHost = <<n, "INIT_STOPPED">>, Answer(n)
      PROVE  m = n /\ toHost' = <<"INIT_STOPPED">>
  BY <1>5, Messages DEF Receive
<1>6. CASE init # "reaped"
  BY <1>1, <1>2, <1>3, <1>6 DEF AnswersInv
<1>7. CASE init = "reaped"
  <2>1. \/ toHost = <<"INIT_STOPPED">>
        \/ \E n \in ToHost : toHost = <<n, "INIT_STOPPED">> /\ Answer(n)
    BY <1>1, <1>2, <1>7 DEF AnswersInv
  <2>2. CASE toHost = <<"INIT_STOPPED">>
    BY <1>1, <1>2, <1>4, <1>7, <2>2
  <2>3. CASE \E n \in ToHost : toHost = <<n, "INIT_STOPPED">> /\ Answer(n)
    BY <1>1, <1>2, <1>5, <1>7, <2>3
  <2>4. QED
    BY <2>1, <2>2, <2>3
<1>8. QED
  BY <1>2, <1>6, <1>7

\* stop() asks for the end of an init that was asked for nothing else.
LEMMA SendStopRequest ==
  ASSUME IInv, SendStop
  PROVE  /\ PeersInv'
         /\ RequestsInv'
<1> USE DEF IInv, TypeOK, SendStop, Hosts, guardVars
<1>1. Alive /\ host \in Hosts /\ toGuard[host] = <<>> /\ init # "none" /\ peer[host] = "accepted"
  BY DEF ObjectInv, IdleInv, KnowsInv
<1>2. toGuard' = [toGuard EXCEPT ![host] = <<"STOP">>]
  BY <1>1, Messages
<1>3. PeersInv'
  BY <1>1, <1>2 DEF PeersInv
<1>4. RequestsInv'
  BY <1>1, <1>2 DEF RequestsInv
<1>5. QED
  BY <1>3, <1>4

\* A new peer is the only one, and is told what it has to know.
LEMMA ConnectionAnswer ==
  ASSUME IInv, NEW h \in Hosts, onConnection(h)
  PROVE  /\ PeersInv'
         /\ RequestsInv'
         /\ (Alive' => AnswersInv')
<1> USE DEF IInv, TypeOK, onConnection, Hosts, hostVars
<1>1. \A g \in Hosts : g # h => peer[g] # "accepted"
  BY DEF PeersInv
<1>2. PeersInv'
  BY <1>1 DEF PeersInv
<1>3. RequestsInv'
  BY <1>1 DEF RequestsInv, PeersInv
<1>4. ASSUME Alive', h = host PROVE AnswersInv'
  <2>0. Alive /\ toHost = <<>> /\ mState \in Cold /\ toGuard[host] = <<>>
    BY <1>4 DEF Alive, ObjectInv, AnswersInv, KnowsInv, PeersInv
  <2>1. CASE mConfig = "none"
    <3>1. toHost' = <<"GUARD_READY">>
      BY <1>4, <2>0, <2>1, Messages DEF Send, Dead, Alive, NoPeer
    <3>2. QED
      BY <1>4, <2>0, <2>1, <3>1 DEF AnswersInv, Answer, ToHost, GuardInv
  <2>2. CASE mConfig # "none"
    <3>1. toHost' = <<mConfig>>
      BY <1>4, <2>0, <2>2, Messages DEF Send, Dead, Alive, NoPeer
    <3>2. mState = "CONNECTING"
      BY <1>4, <2>0, <2>2 DEF ObjectInv, FreshInv
    <3>3. (mConfig = "STOPPED" => init \in {"none", "reaped"})
      BY <1>4, <2>0, <2>2 DEF GuardInv
    <3>4. QED
      BY <1>4, <2>0, <2>2, <3>1, <3>2, <3>3 DEF AnswersInv, Answer, ToHost, GuardInv
  <2>3. QED
    BY <2>1, <2>2
<1>5. ASSUME Alive', h # host PROVE AnswersInv'
  <2>1. toHost' = toHost
    BY <1>5 DEF Send, Dead, Alive
  <2>2. QED
    BY <1>5, <2>1 DEF ObjectInv, Alive, AnswersInv, Answer
<1>6. QED
  BY <1>2, <1>3, <1>4, <1>5

\* The guard forgets the only peer it has.
LEMMA DisconnectionPeers ==
  ASSUME IInv, NEW h \in Hosts, onDisconnection(h)
  PROVE  PeersInv'
<1> USE DEF IInv, TypeOK, onDisconnection, Hosts, hostVars, guardVars
<1>1. \A g \in Hosts : g # h => peer[g] # "accepted"
  BY DEF PeersInv
<1>2. QED
  BY <1>1 DEF PeersInv, NoPeer

\* An object that is asked to sends its configuration, and START.
LEMMA GuardReadyRequest ==
  ASSUME IInv, onGuardReady
  PROVE  /\ PeersInv'
         /\ RequestsInv'
         /\ AnswersInv'
<1>0. /\ Alive /\ host \in Hosts /\ peer[host] = "accepted" /\ guard \in {"serving", "gone"}
      /\ Answer("GUARD_READY") /\ (init # "reaped" => toHost' = <<>>)
  BY ReceiveFacts DEF onGuardReady
<1> USE DEF IInv, TypeOK, onGuardReady, hostVars, guardVars
<1>1. init # "reaped" /\ toHost' = <<>>
  BY <1>0 DEF Answer, States
<1>2. toGuard[host] = <<>> /\ mState \in Cold /\ init = "none"
  BY <1>0 DEF Answer, States
<1>3. toGuard' = [toGuard EXCEPT ![host] = <<mState, "START">>]
  BY <1>2, Messages
<1>4. PeersInv'
  BY <1>0, <1>3 DEF PeersInv
<1>5. RequestsInv'
  BY <1>0, <1>2, <1>3 DEF RequestsInv
<1>6. AnswersInv'
  BY <1>0, <1>1 DEF AnswersInv
<1>7. QED
  BY <1>4, <1>5, <1>6

\* An object takes the state a guard had.
LEMMA GuardConnectedAnswer ==
  ASSUME IInv, onGuardConnected
  PROVE  /\ AnswersInv'
         /\ KnowsInv'
<1>1. PICK s \in States : Receive(s) /\ mState' = s
  BY DEF onGuardConnected
<1>2. /\ Alive /\ host \in Hosts /\ peer[host] = "accepted" /\ guard \in {"serving", "gone"}
      /\ \/ s = "INIT_STOPPED" /\ init = "reaped" /\ toHost' = <<>>
         \/ /\ s \in ToHost /\ Answer(s)
            /\ \/ init # "reaped" /\ toHost' = <<>>
               \/ init = "reaped" /\ toHost' = <<"INIT_STOPPED">>
  BY <1>1, ReceiveFacts
<1>2a. s # "INIT_STOPPED"
  BY DEF States
<1> USE DEF IInv, TypeOK, onGuardConnected, hostVars, guardVars
<1>3. AnswersInv'
  BY <1>1, <1>2, <1>2a DEF AnswersInv
<1>4. KnowsInv'
  BY <1>1, <1>2, <1>2a DEF KnowsInv, Answer, ObjectInv, States, Cold, Receive
<1>5. QED
  BY <1>3, <1>4

\* The last message follows the one before.
LEMMA InitExitAnswer ==
  ASSUME IInv, onInitExit
  PROVE  Alive' => AnswersInv'
<1> USE DEF IInv, TypeOK, onInitExit, hostVars
<1>0. CASE init' = "lost"
  BY <1>0 DEF AnswersInv, Answer, Alive, ObjectInv
<1>1. SUFFICES ASSUME Alive', init' = "reaped" PROVE AnswersInv'
  BY <1>0
<1>2. Alive /\ host \in Hosts
  BY <1>1 DEF Alive, ObjectInv, KnowsInv
<1>3. CASE peer[host] = "accepted"
  <2>1. mPeerID = host /\ toHost' = Append(toHost, "INIT_STOPPED")
    BY <1>1, <1>2, <1>3 DEF PeersInv, Send, Dead, NoPeer, Hosts
  <2>2. CASE toHost = <<>>
    <3>1. toHost' = <<"INIT_STOPPED">>
      BY <2>1, <2>2, Messages
    <3>2. QED
      BY <1>1, <1>3, <3>1 DEF AnswersInv
  <2>3. ASSUME NEW m \in ToHost, toHost = <<m>>, Answer(m) PROVE AnswersInv'
    <3>1. toHost' = <<m, "INIT_STOPPED">>
      BY <2>1, <2>3, Messages
    <3>2. Answer(m)'
      BY <2>3 DEF Answer, States
    <3>3. QED
      BY <1>1, <1>3, <3>1, <3>2 DEF AnswersInv
  <2>4. QED
    BY <1>2, <1>3, <2>2, <2>3 DEF ObjectInv, AnswersInv
<1>4. CASE peer[host] # "accepted"
  <2>1. peer[host] \in {"none", "opened"} => toHost' = <<>>
     BY <1>2, <1>4 DEF ObjectInv, AnswersInv, PeersInv, Send, Dead, NoPeer
  <2>2. QED
  BY <1>2, <1>4, <2>1 DEF AnswersInv, ObjectInv
<1>5. QED
  BY <1>3, <1>4

\* The result of START was the answer.
LEMMA InitStartedAnswer ==
  ASSUME IInv, onInitStarted
  PROVE  /\ TypeOK'
         /\ AnswersInv'
<1>1. PICK m \in {"PID", "ERROR"} : Receive(m)
  BY DEF onInitStarted
<1>2. /\ Alive /\ host \in Hosts /\ peer[host] = "accepted" /\ guard \in {"serving", "gone"}
      /\ \/ m = "INIT_STOPPED" /\ init = "reaped" /\ toHost' = <<>>
         \/ /\ m \in ToHost /\ Answer(m)
            /\ \/ init # "reaped" /\ toHost' = <<>>
               \/ init = "reaped" /\ toHost' = <<"INIT_STOPPED">>
  BY <1>1, ReceiveFacts
<1>3. toHost' \in Seq(ToHost)
  BY <1>1, SeqFacts DEF IInv, TypeOK, Receive
<1> USE DEF onInitStarted, guardVars
<1>4. TypeOK'
  BY <1>3 DEF IInv, TypeOK, States
<1>5. AnswersInv'
  BY <1>1, <1>2 DEF AnswersInv
<1>6. QED
  BY <1>4, <1>5

\* The last message was the last.
LEMMA InitStoppedAnswer ==
  ASSUME IInv, onInitStopped
  PROVE  /\ AnswersInv'
         /\ KnowsInv'
<1>1. Receive("INIT_STOPPED")
  BY DEF onInitStopped
<1>2. /\ Alive /\ host \in Hosts /\ peer[host] = "accepted" /\ guard \in {"serving", "gone"}
      /\ \/ init = "reaped" /\ toHost' = <<>>
         \/ Answer("INIT_STOPPED")
  BY <1>1, ReceiveFacts
<1>3. init = "reaped" /\ toHost' = <<>>
  BY <1>2 DEF Answer, States
<1> USE DEF onInitStopped, guardVars
<1>5. AnswersInv'
  BY <1>2, <1>3 DEF AnswersInv
<1>6. KnowsInv'
  BY <1>2, <1>3 DEF KnowsInv, IInv, ObjectInv, Cold, GuardInv
<1>7. QED
  BY <1>5, <1>6

\* A configuration comes before there is an init.
LEMMA SetConfigRequest ==
  ASSUME IInv, NEW h \in Hosts, onSetConfig(h)
  PROVE  /\ TypeOK'
         /\ PeersInv'
         /\ GuardInv'
         /\ RequestsInv'
<1>1. PICK s \in States : Read(h, s) /\ mConfig' = s
  BY DEF onSetConfig
<1>2. /\ s \in Cold /\ init = "none" /\ mPeerID = h
      /\ toGuard' = [toGuard EXCEPT ![h] = <<"START">>]
  BY <1>1, ReadFacts DEF States
<1>3. <<"START">> \in Seq(ToGuard)
  BY DEF ToGuard
<1>4. guard = "serving" /\ peer[h] = "accepted"
  BY <1>1 DEF Read
<1> USE DEF IInv, TypeOK, onSetConfig, hostVars
<1>5. TypeOK'
  BY <1>1, <1>2, <1>3
<1>6. PeersInv'
  BY <1>2, <1>4 DEF PeersInv
<1>7. GuardInv'
  BY <1>1, <1>2, <1>4 DEF GuardInv, Cold, States
<1>8. RequestsInv'
  BY <1>2, <1>4 DEF RequestsInv, PeersInv
<1>9. QED
  BY <1>5, <1>6, <1>7, <1>8

\* START comes once, and is answered.
LEMMA StartRequest ==
  ASSUME IInv, NEW h \in Hosts, onStart(h)
  PROVE  /\ TypeOK'
         /\ RequestsInv'
         /\ (Alive' => AnswersInv')
<1>1. /\ init = "none" /\ mPeerID = h /\ toGuard[h] = <<"START">>
      /\ toGuard' = [toGuard EXCEPT ![h] = <<>>]
  BY ReadFacts DEF onStart, Cold
<1>2. guard = "serving" /\ peer[h] = "accepted"
  BY DEF onStart, Read
<1>3. PICK m \in {"PID", "ERROR"} : Send(h, m) /\ (m = "PID" => init' = "running")
  BY DEF onStart
<1>4. toHost' \in Seq(ToHost)
  BY <1>3, SeqFacts DEF IInv, TypeOK, Send, ToHost
<1> USE DEF IInv, TypeOK, onStart, hostVars
<1>5. TypeOK'
  BY <1>1, <1>4, SeqFacts DEF States
<1>6. RequestsInv'
  BY <1>1, <1>2 DEF RequestsInv, PeersInv
<1>7. ASSUME Alive' PROVE AnswersInv'
  <2>1. CASE h = host
    <3>1. toHost = <<>> /\ mState \in Cold
      BY <1>1, <1>2, <1>7, <2>1, Messages DEF Alive, ObjectInv, AnswersInv, KnowsInv,
         Answer, States, Cold
    <3>2. toHost' = <<m>>
      BY <1>3, <1>7, <2>1, <3>1, Messages DEF Send, Dead, Alive, NoPeer, Hosts
    <3>3. QED
      BY <1>1, <1>2, <1>3, <2>1, <3>1, <3>2 DEF AnswersInv, Answer, ToHost
  <2>2. CASE h # host
    <3>1. peer[host] # "accepted" /\ toHost' = toHost
      BY <1>1, <1>3, <1>7, <2>2 DEF PeersInv, Send, Dead, Alive, ObjectInv, KnowsInv
    <3>2. QED
      BY <1>7, <3>1 DEF ObjectInv, Alive, AnswersInv
  <2>3. QED
    BY <2>1, <2>2
<1>8. QED
  BY <1>5, <1>6, <1>7

\* STOP comes when there is an init.
LEMMA StopRequest ==
  ASSUME IInv, NEW h \in Hosts, onStop(h)
  PROVE  /\ PeersInv'
         /\ GuardInv'
         /\ RequestsInv'
<1>1. /\ init # "none" /\ mPeerID = h /\ toGuard[h] = <<"STOP">>
      /\ toGuard' = [toGuard EXCEPT ![h] = <<>>]
  BY ReadFacts DEF onStop, Cold
<1>2. guard = "serving" /\ peer[h] = "accepted"
  BY DEF onStop, Read
<1> USE DEF IInv, TypeOK, onStop, hostVars
<1>3. PeersInv'
  BY <1>1, <1>2 DEF PeersInv
<1>4. GuardInv'
  BY <1>1, <1>2 DEF GuardInv
<1>5. RequestsInv'
  BY <1>1, <1>2 DEF RequestsInv, PeersInv
<1>6. QED
  BY <1>3, <1>4, <1>5

\* A new guard: types.
LEMMA ForkTypes ==
  ASSUME IInv, start
  PROVE  TypeOK'
<1> USE DEF IInv, TypeOK, start
<1>1. [h \in Hosts |-> IF peer[h] = "none" THEN "none" ELSE "removed"]
        \in [Hosts -> {"none", "opened", "accepted", "removed"}]
  OBVIOUS
<1>2. QED
  BY <1>1 DEF States, guardVars

\* A new guard: it has no peers.
LEMMA ForkPeers ==
  ASSUME IInv, start
  PROVE  PeersInv'
<1> USE DEF IInv, start
<1>1. CASE UNCHANGED <<guardVars, peer>>
  BY <1>1 DEF PeersInv, guardVars
<1>2. CASE /\ mPeerID' = NoPeer /\ guard' = "forked"
           /\ peer' = [h \in Hosts |-> IF peer[h] = "none" THEN "none" ELSE "removed"]
  <2>1. \A h \in Hosts :
         /\ peer'[h] \in {"none", "removed"} /\ mPeerID' # h
         /\ (peer'[h] = "none" <=> peer[h] = "none")
    BY <1>2 DEF NoPeer, Hosts
  <2>2. QED
    BY <1>2, <2>1 DEF PeersInv
<1>3. QED
  BY <1>1, <1>2

\* A new object.
LEMMA ConstructInv ==
  ASSUME IInv, Construct
  PROVE  IInv'
<1>1. TypeOK'
  BY SeqFacts, MaxHostsAssumption DEF IInv, Construct, guardVars, ipcVars, TypeOK,
     ObjectInv, States
<1>2. PeersInv'
  BY SeqFacts DEF IInv, Construct, guardVars, ipcVars, PeersInv, TypeOK, Hosts
<1>3. GuardInv'
  BY DEF IInv, Construct, guardVars, ipcVars, GuardInv, Alive
<1>4. RequestsInv'
  BY DEF IInv, Construct, guardVars, ipcVars, RequestsInv, Alive
<1>5. IdleInv'
  BY DEF IInv, Construct, guardVars, ipcVars, IdleInv, Alive, ObjectInv
<1>6. Alive' => AnswersInv'
  BY MaxHostsAssumption DEF IInv, Construct, guardVars, ipcVars, AnswersInv, Alive, ObjectInv,
     IdleInv, TypeOK, PeersInv, Hosts
<1>7. Alive' => KnowsInv'
  BY SeqFacts, MaxHostsAssumption DEF IInv, Construct, guardVars, ipcVars, KnowsInv,
     ObjectInv, TypeOK, PeersInv, Hosts, Cold, IdleInv
<1>8. Alive' => FreshInv'
  BY SeqFacts, MaxHostsAssumption DEF IInv, Construct, guardVars, ipcVars, FreshInv,
     ObjectInv, TypeOK, PeersInv, Hosts, IdleInv
<1>9. QED
  BY <1>1, <1>2, <1>3, <1>4, <1>5, <1>6, <1>7, <1>8 DEF IInv, ObjectInv

\* An object goes.
LEMMA VanishInv ==
  ASSUME IInv, Vanish
  PROVE  IInv'
<1>1. TypeOK'
  BY SeqFacts DEF IInv, Vanish, guardVars, TypeOK
<1>2. PeersInv'
  BY DEF IInv, Vanish, guardVars, PeersInv, Alive
<1>3. GuardInv'
  BY DEF IInv, Vanish, guardVars, GuardInv, Alive
<1>4. RequestsInv'
  BY DEF IInv, Vanish, guardVars, RequestsInv, Alive
<1>5. IdleInv'
  BY DEF IInv, Vanish, guardVars, IdleInv, Alive, ObjectInv
<1>6. Alive' => AnswersInv'
  BY DEF IInv, Vanish, guardVars, AnswersInv, Alive, ObjectInv
<1>7. Alive' => KnowsInv'
  BY DEF IInv, Vanish, guardVars, KnowsInv, Alive, ObjectInv
<1>8. Alive' => FreshInv'
  BY DEF IInv, Vanish, guardVars, FreshInv, Alive, ObjectInv
<1>9. QED
  BY <1>1, <1>2, <1>3, <1>4, <1>5, <1>6, <1>7, <1>8 DEF IInv, ObjectInv

\* An object opens its connection.
LEMMA ConnectInv ==
  ASSUME IInv, connect
  PROVE  IInv'
<1>1. TypeOK'
  BY SeqFacts DEF IInv, connect, guardVars, TypeOK, States
<1>2. PeersInv'
  BY DEF IInv, connect, guardVars, PeersInv
<1>3. GuardInv'
  BY DEF IInv, connect, guardVars, GuardInv
<1>4. RequestsInv'
  BY DEF IInv, connect, guardVars, RequestsInv
<1>5. IdleInv'
  BY DEF IInv, connect, guardVars, IdleInv, ObjectInv, Alive
<1>6. Alive' => AnswersInv'
  BY DEF IInv, connect, guardVars, AnswersInv, ObjectInv, Alive
<1>7. Alive' => KnowsInv'
  BY DEF IInv, connect, guardVars, KnowsInv, ObjectInv, Alive, Cold
<1>8. Alive' => FreshInv'
  BY DEF IInv, connect, guardVars, FreshInv, ObjectInv, Alive
<1>9. QED
  BY <1>1, <1>2, <1>3, <1>4, <1>5, <1>6, <1>7, <1>8 DEF IInv, ObjectInv

\* An object forks a guard, or fails to.
LEMMA StartInv ==
  ASSUME IInv, start
  PROVE  IInv'
<1>1. TypeOK'
  BY ForkTypes
<1>2. PeersInv'
  BY ForkPeers
<1>3. GuardInv'
  BY DEF IInv, start, guardVars, GuardInv
<1>4. RequestsInv'
  BY DEF IInv, start, guardVars, RequestsInv
<1>5. IdleInv'
  BY DEF IInv, start, guardVars, IdleInv, ObjectInv, Alive
<1>6. Alive' => AnswersInv'
  BY DEF IInv, start, guardVars, AnswersInv, ObjectInv, Alive
<1>7. Alive' => KnowsInv'
  BY DEF IInv, start, guardVars, KnowsInv, ObjectInv, Alive, Cold
<1>8. Alive' => FreshInv'
  BY DEF IInv, start, guardVars, FreshInv, ObjectInv, Alive
<1>9. QED
  BY <1>1, <1>2, <1>3, <1>4, <1>5, <1>6, <1>7, <1>8 DEF IInv, ObjectInv

\* An object sees the socket.
LEMMA OnWorkFileEventInv ==
  ASSUME IInv, onWorkFileEvent
  PROVE  IInv'
<1>1. TypeOK'
  BY DEF IInv, onWorkFileEvent, guardVars, TypeOK, Alive
<1>2. PeersInv'
  BY DEF IInv, onWorkFileEvent, guardVars, PeersInv, Alive
<1>3. GuardInv'
  BY DEF IInv, onWorkFileEvent, guardVars, GuardInv, Alive
<1>4. RequestsInv'
  BY DEF IInv, onWorkFileEvent, guardVars, RequestsInv, Alive
<1>5. IdleInv'
  BY DEF IInv, onWorkFileEvent, guardVars, IdleInv, Alive, ObjectInv
<1>6. Alive' => AnswersInv'
  BY DEF IInv, onWorkFileEvent, guardVars, AnswersInv, ObjectInv, Answer
<1>7. Alive' => KnowsInv'
  BY DEF IInv, onWorkFileEvent, guardVars, KnowsInv, Alive, ObjectInv
<1>8. Alive' => FreshInv'
  BY DEF IInv, onWorkFileEvent, guardVars, FreshInv, Alive, ObjectInv
<1>9. QED
  BY <1>1, <1>2, <1>3, <1>4, <1>5, <1>6, <1>7, <1>8 DEF IInv, ObjectInv

\* An object is asked for its configuration.
LEMMA OnGuardReadyInv ==
  ASSUME IInv, onGuardReady
  PROVE  IInv'
<1>1. TypeOK'
  BY SeqFacts DEF IInv, onGuardReady, hostVars, guardVars, Receive, TypeOK, ObjectInv,
     Alive, IdleInv
<1>2. PeersInv'
  BY GuardReadyRequest
<1>3. GuardInv'
  BY DEF IInv, onGuardReady, hostVars, guardVars, Receive, GuardInv
<1>4. RequestsInv'
  BY GuardReadyRequest
<1>5. IdleInv'
  BY DEF IInv, onGuardReady, hostVars, guardVars, Receive, IdleInv, ObjectInv, Alive
<1>6. Alive' => AnswersInv'
  BY GuardReadyRequest
<1>7. Alive' => KnowsInv'
  BY DEF IInv, onGuardReady, hostVars, guardVars, Receive, KnowsInv, ObjectInv, TypeOK,
     GuardInv, AnswersInv, Answer, Alive
<1>8. Alive' => FreshInv'
  BY DEF IInv, onGuardReady, hostVars, guardVars, Receive, FreshInv, ObjectInv, Alive
<1>9. QED
  BY <1>1, <1>2, <1>3, <1>4, <1>5, <1>6, <1>7, <1>8 DEF IInv, ObjectInv

\* An object takes over the state.
LEMMA OnGuardConnectedInv ==
  ASSUME IInv, onGuardConnected
  PROVE  IInv'
<1>1. TypeOK'
  BY SeqFacts DEF IInv, onGuardConnected, guardVars, Receive, TypeOK
<1>2. PeersInv'
  BY DEF IInv, onGuardConnected, guardVars, Receive, PeersInv
<1>3. GuardInv'
  BY DEF IInv, onGuardConnected, guardVars, Receive, GuardInv
<1>4. RequestsInv'
  BY DEF IInv, onGuardConnected, guardVars, Receive, RequestsInv
<1>5. IdleInv'
  BY DEF IInv, onGuardConnected, guardVars, Receive, IdleInv, ObjectInv, Alive, States
<1>6. Alive' => AnswersInv'
  BY GuardConnectedAnswer
<1>7. Alive' => KnowsInv'
  BY GuardConnectedAnswer
<1>8. Alive' => FreshInv'
  BY DEF IInv, onGuardConnected, guardVars, Receive, FreshInv, ObjectInv, AnswersInv, IdleInv
<1>9. QED
  BY <1>1, <1>2, <1>3, <1>4, <1>5, <1>6, <1>7, <1>8 DEF IInv, ObjectInv

\* An object hears of the start.
LEMMA OnInitStartedInv ==
  ASSUME IInv, onInitStarted
  PROVE  IInv'
<1>1. TypeOK'
  BY InitStartedAnswer
<1>2. PeersInv'
  BY DEF IInv, onInitStarted, guardVars, Receive, PeersInv
<1>3. GuardInv'
  BY DEF IInv, onInitStarted, guardVars, Receive, GuardInv
<1>4. RequestsInv'
  BY DEF IInv, onInitStarted, guardVars, Receive, RequestsInv
<1>5. IdleInv'
  BY DEF IInv, onInitStarted, guardVars, Receive, IdleInv, ObjectInv, Alive
<1>6. Alive' => AnswersInv'
  BY InitStartedAnswer
<1>7. Alive' => KnowsInv'
  BY SeqFacts DEF IInv, onInitStarted, guardVars, Receive, KnowsInv, ObjectInv, Alive,
     TypeOK, PeersInv, AnswersInv, States, ipcVars, Cold, Answer, IdleInv
<1>8. Alive' => FreshInv'
  BY DEF IInv, onInitStarted, guardVars, Receive, FreshInv, ObjectInv, AnswersInv, IdleInv
<1>9. QED
  BY <1>1, <1>2, <1>3, <1>4, <1>5, <1>6, <1>7, <1>8 DEF IInv, ObjectInv

\* An object hears of the end.
LEMMA OnInitStoppedInv ==
  ASSUME IInv, onInitStopped
  PROVE  IInv'
<1>1. TypeOK'
  BY SeqFacts DEF IInv, onInitStopped, guardVars, Receive, TypeOK, States
<1>2. PeersInv'
  BY DEF IInv, onInitStopped, guardVars, Receive, PeersInv
<1>3. GuardInv'
  BY DEF IInv, onInitStopped, guardVars, Receive, GuardInv
<1>4. RequestsInv'
  BY DEF IInv, onInitStopped, guardVars, Receive, RequestsInv
<1>5. IdleInv'
  BY DEF IInv, onInitStopped, guardVars, Receive, IdleInv, ObjectInv, Alive
<1>6. Alive' => AnswersInv'
  BY InitStoppedAnswer
<1>7. Alive' => KnowsInv'
  BY InitStoppedAnswer
<1>8. Alive' => FreshInv'
  BY DEF IInv, onInitStopped, guardVars, Receive, FreshInv, ObjectInv, AnswersInv, IdleInv
<1>9. QED
  BY <1>1, <1>2, <1>3, <1>4, <1>5, <1>6, <1>7, <1>8 DEF IInv, ObjectInv

\* stop() begins.
LEMMA StopInv ==
  ASSUME IInv, stop
  PROVE  IInv'
<1>1. TypeOK'
  BY SeqFacts DEF IInv, stop, guardVars, ipcVars, TypeOK, States
<1>2. PeersInv'
  BY DEF IInv, stop, guardVars, ipcVars, PeersInv
<1>3. GuardInv'
  BY DEF IInv, stop, guardVars, ipcVars, GuardInv
<1>4. RequestsInv'
  BY DEF IInv, stop, guardVars, ipcVars, RequestsInv
<1>5. IdleInv'
  BY DEF IInv, stop, guardVars, ipcVars, IdleInv, ObjectInv, Alive
<1>6. Alive' => AnswersInv'
  BY DEF IInv, stop, guardVars, ipcVars, AnswersInv, ObjectInv, Alive, Cold, Answer
<1>7. Alive' => KnowsInv'
  BY DEF IInv, stop, guardVars, ipcVars, KnowsInv, ObjectInv, Alive, TypeOK, Cold
<1>8. Alive' => FreshInv'
  BY DEF IInv, stop, guardVars, ipcVars, FreshInv, ObjectInv, Alive
<1>9. QED
  BY <1>1, <1>2, <1>3, <1>4, <1>5, <1>6, <1>7, <1>8 DEF IInv, ObjectInv

\* stop() sends its message.
LEMMA SendStopInv ==
  ASSUME IInv, SendStop
  PROVE  IInv'
<1>1. TypeOK'
  BY SeqFacts DEF IInv, SendStop, guardVars, TypeOK, ObjectInv, ToGuard
<1>2. PeersInv'
  BY SendStopRequest
<1>3. GuardInv'
  BY DEF IInv, SendStop, guardVars, GuardInv
<1>4. RequestsInv'
  BY SendStopRequest
<1>5. IdleInv'
  BY DEF IInv, SendStop, guardVars, IdleInv, ObjectInv, Alive
<1>6. Alive' => AnswersInv'
  BY SeqFacts DEF IInv, SendStop, guardVars, AnswersInv, ObjectInv, Alive, PeersInv,
     KnowsInv, ipcVars, Cold, Answer
<1>7. Alive' => KnowsInv'
  BY DEF IInv, SendStop, guardVars, KnowsInv, ObjectInv, AnswersInv, Alive
<1>8. Alive' => FreshInv'
  BY DEF IInv, SendStop, guardVars, FreshInv, ObjectInv, Alive
<1>9. QED
  BY <1>1, <1>2, <1>3, <1>4, <1>5, <1>6, <1>7, <1>8 DEF IInv, ObjectInv

\* A guard makes its socket.
LEMMA ServeInv ==
  ASSUME IInv, Serve
  PROVE  IInv'
<1>1. TypeOK'
  BY DEF IInv, Serve, ipcVars, TypeOK, Alive
<1>2. PeersInv'
  BY DEF IInv, Serve, ipcVars, PeersInv, Alive
<1>3. GuardInv'
  BY DEF IInv, Serve, ipcVars, GuardInv, Alive
<1>4. RequestsInv'
  BY DEF IInv, Serve, ipcVars, RequestsInv, PeersInv, ObjectInv
<1>5. IdleInv'
  BY DEF IInv, Serve, ipcVars, IdleInv, Alive, ObjectInv
<1>6. Alive' => AnswersInv'
  BY DEF IInv, Serve, ipcVars, AnswersInv, ObjectInv, PeersInv, KnowsInv, Alive
<1>7. Alive' => KnowsInv'
  BY DEF IInv, Serve, ipcVars, KnowsInv, Alive, ObjectInv
<1>8. Alive' => FreshInv'
  BY DEF IInv, Serve, ipcVars, FreshInv, ObjectInv, PeersInv, GuardInv
<1>9. QED
  BY <1>1, <1>2, <1>3, <1>4, <1>5, <1>6, <1>7, <1>8 DEF IInv, ObjectInv

\* Init exits.
LEMMA InitExitsInv ==
  ASSUME IInv, InitExits
  PROVE  IInv'
<1>1. TypeOK'
  BY DEF IInv, InitExits, hostVars, ipcVars, TypeOK
<1>2. PeersInv'
  BY DEF IInv, InitExits, hostVars, ipcVars, PeersInv
<1>3. GuardInv'
  BY DEF IInv, InitExits, hostVars, ipcVars, GuardInv
<1>4. RequestsInv'
  BY DEF IInv, InitExits, hostVars, ipcVars, RequestsInv
<1>5. IdleInv'
  BY DEF IInv, InitExits, hostVars, ipcVars, IdleInv, ObjectInv, Alive
<1>6. Alive' => AnswersInv'
  BY DEF IInv, InitExits, hostVars, ipcVars, AnswersInv, ObjectInv, GuardInv, Answer, Alive
<1>7. Alive' => KnowsInv'
  BY DEF IInv, InitExits, hostVars, ipcVars, KnowsInv, ObjectInv, Alive
<1>8. Alive' => FreshInv'
  BY DEF IInv, InitExits, hostVars, ipcVars, FreshInv, ObjectInv, Alive
<1>9. QED
  BY <1>1, <1>2, <1>3, <1>4, <1>5, <1>6, <1>7, <1>8 DEF IInv, ObjectInv

\* The guard reaps init and ends.
LEMMA OnInitExitInv ==
  ASSUME IInv, onInitExit
  PROVE  IInv'
<1>1. TypeOK'
  BY SeqFacts DEF IInv, onInitExit, hostVars, Send, TypeOK, ObjectInv, States, ToHost
<1>2. PeersInv'
  BY DEF IInv, onInitExit, hostVars, Send, PeersInv
<1>3. GuardInv'
  BY DEF IInv, onInitExit, hostVars, Send, GuardInv
<1>4. RequestsInv'
  BY DEF IInv, onInitExit, hostVars, Send, RequestsInv
<1>5. IdleInv'
  BY DEF IInv, onInitExit, hostVars, Send, IdleInv, ObjectInv, Alive, Dead
<1>6. Alive' => AnswersInv'
  BY InitExitAnswer
<1>7. Alive' => KnowsInv'
  BY DEF IInv, onInitExit, hostVars, Send, KnowsInv, ObjectInv, Alive
<1>8. Alive' => FreshInv'
  BY DEF IInv, onInitExit, hostVars, Send, FreshInv, ObjectInv, Alive, GuardInv
<1>9. QED
  BY <1>1, <1>2, <1>3, <1>4, <1>5, <1>6, <1>7, <1>8 DEF IInv, ObjectInv

\* The guard accepts a peer.
LEMMA OnConnectionInv ==
  ASSUME IInv, NEW h \in Hosts, onConnection(h)
  PROVE  IInv'
<1>1. TypeOK'
  BY SeqFacts DEF IInv, onConnection, hostVars, Send, TypeOK, ObjectInv, ToHost
<1>2. PeersInv'
  BY ConnectionAnswer
<1>3. GuardInv'
  BY DEF IInv, onConnection, hostVars, Send, GuardInv
<1>4. RequestsInv'
  BY ConnectionAnswer
<1>5. IdleInv'
  BY DEF IInv, onConnection, hostVars, Send, IdleInv, ObjectInv, Alive, Dead
<1>6. Alive' => AnswersInv'
  BY ConnectionAnswer
<1>7. Alive' => KnowsInv'
  BY DEF IInv, onConnection, hostVars, Send, KnowsInv, ObjectInv, Alive
<1>8. Alive' => FreshInv'
  BY DEF IInv, onConnection, hostVars, Send, FreshInv, ObjectInv, Alive
<1>9. QED
  BY <1>1, <1>2, <1>3, <1>4, <1>5, <1>6, <1>7, <1>8 DEF IInv, ObjectInv

\* The guard loses its peer.
LEMMA OnDisconnectionInv ==
  ASSUME IInv, NEW h \in Hosts, onDisconnection(h)
  PROVE  IInv'
<1>1. TypeOK'
  BY DEF IInv, onDisconnection, hostVars, TypeOK
<1>2. PeersInv'
  BY DisconnectionPeers
<1>3. GuardInv'
  BY DEF IInv, onDisconnection, hostVars, GuardInv
<1>4. RequestsInv'
  BY DEF IInv, onDisconnection, hostVars, RequestsInv
<1>5. IdleInv'
  BY DEF IInv, onDisconnection, hostVars, IdleInv, ObjectInv, Alive
<1>6. Alive' => AnswersInv'
  BY DEF IInv, onDisconnection, hostVars, AnswersInv, ObjectInv, Answer, Alive
<1>7. Alive' => KnowsInv'
  BY DEF IInv, onDisconnection, hostVars, KnowsInv, ObjectInv, Alive, Dead
<1>8. Alive' => FreshInv'
  BY DEF IInv, onDisconnection, hostVars, FreshInv, ObjectInv, Alive
<1>9. QED
  BY <1>1, <1>2, <1>3, <1>4, <1>5, <1>6, <1>7, <1>8 DEF IInv, ObjectInv

\* The guard is configured.
LEMMA OnSetConfigInv ==
  ASSUME IInv, NEW h \in Hosts, onSetConfig(h)
  PROVE  IInv'
<1>1. TypeOK'
  BY SetConfigRequest
<1>2. PeersInv'
  BY SetConfigRequest
<1>3. GuardInv'
  BY SetConfigRequest
<1>4. RequestsInv'
  BY SetConfigRequest
<1>5. IdleInv'
  BY DEF IInv, onSetConfig, hostVars, Read, IdleInv, ObjectInv, Alive
<1>6. Alive' => AnswersInv'
  BY DEF IInv, onSetConfig, hostVars, Read, AnswersInv, ObjectInv, Answer, Alive
<1>7. Alive' => KnowsInv'
  BY DEF IInv, onSetConfig, hostVars, Read, KnowsInv, ObjectInv, Alive
<1>8. Alive' => FreshInv'
  BY DEF IInv, onSetConfig, hostVars, Read, FreshInv, ObjectInv, Alive
<1>9. QED
  BY <1>1, <1>2, <1>3, <1>4, <1>5, <1>6, <1>7, <1>8 DEF IInv, ObjectInv

\* The guard starts init, or fails to.
LEMMA OnStartInv ==
  ASSUME IInv, NEW h \in Hosts, onStart(h)
  PROVE  IInv'
<1>1. TypeOK'
  BY StartRequest
<1>2. PeersInv'
  BY DEF IInv, onStart, hostVars, Read, Send, PeersInv
<1>3. GuardInv'
  BY DEF IInv, onStart, hostVars, Read, Send, GuardInv
<1>4. RequestsInv'
  BY StartRequest
<1>5. IdleInv'
  BY DEF IInv, onStart, hostVars, Read, Send, IdleInv, ObjectInv, Alive, Dead
<1>6. Alive' => AnswersInv'
  BY StartRequest
<1>7. Alive' => KnowsInv'
  BY DEF IInv, onStart, hostVars, Read, Send, KnowsInv, ObjectInv, Alive
<1>8. Alive' => FreshInv'
  BY DEF IInv, onStart, hostVars, Read, Send, FreshInv, ObjectInv, Alive
<1>9. QED
  BY <1>1, <1>2, <1>3, <1>4, <1>5, <1>6, <1>7, <1>8 DEF IInv, ObjectInv

\* The guard kills init.
LEMMA OnStopInv ==
  ASSUME IInv, NEW h \in Hosts, onStop(h)
  PROVE  IInv'
<1>1. TypeOK'
  BY SeqFacts DEF IInv, onStop, hostVars, Read, TypeOK, States
<1>2. PeersInv'
  BY StopRequest
<1>3. GuardInv'
  BY StopRequest
<1>4. RequestsInv'
  BY StopRequest
<1>5. IdleInv'
  BY DEF IInv, onStop, hostVars, Read, IdleInv, ObjectInv, Alive
<1>6. Alive' => AnswersInv'
  BY DEF IInv, onStop, hostVars, Read, AnswersInv, ObjectInv, Answer, Alive
<1>7. Alive' => KnowsInv'
  BY DEF IInv, onStop, hostVars, Read, KnowsInv, ObjectInv, Alive
<1>8. Alive' => FreshInv'
  BY DEF IInv, onStop, hostVars, Read, FreshInv, ObjectInv, Alive
<1>9. QED
  BY <1>1, <1>2, <1>3, <1>4, <1>5, <1>6, <1>7, <1>8 DEF IInv, ObjectInv

LEMMA InitInv == Init => IInv
<1> SUFFICES ASSUME Init PROVE IInv
  OBVIOUS
<1> USE DEF Init, Hosts, NoPeer
<1>1. TypeOK
  <2>1. <<>> \in Seq(ToHost) /\ \A h \in Hosts : toGuard[h] \in Seq(ToGuard)
    BY SeqFacts
  <2>2. toGuard \in [Hosts -> Seq(ToGuard)]
    BY <2>1
  <2>3. peer \in [Hosts -> {"none", "opened", "accepted", "removed"}]
    OBVIOUS
  <2>4. host \in 0..MaxHosts
    BY MaxHostsAssumption
  <2>5. QED
    BY <2>1, <2>2, <2>3, <2>4 DEF TypeOK
<1>2. PeersInv
  BY DEF PeersInv
<1>3. GuardInv /\ RequestsInv /\ ObjectInv
  BY DEF GuardInv, RequestsInv, ObjectInv, IdleInv, Alive
<1>4. QED
  BY <1>1, <1>2, <1>3 DEF IInv

LEMMA StepInv == IInv /\ [Next]_vars => IInv'
<1> SUFFICES ASSUME IInv, [Next]_vars PROVE IInv'
  OBVIOUS
<1>1. CASE UNCHANGED vars
  BY <1>1 DEF vars, hostVars, guardVars, ipcVars, IInv, TypeOK, PeersInv, GuardInv, RequestsInv,
     ObjectInv, IdleInv, AnswersInv, KnowsInv, FreshInv, Alive, Answer
<1>2. CASE Next
  BY <1>2, ConstructInv, VanishInv, ConnectInv, StartInv, StopInv, SendStopInv,
     OnWorkFileEventInv,
     OnGuardReadyInv, OnGuardConnectedInv, OnInitStartedInv, OnInitStoppedInv, ServeInv,
     InitExitsInv, OnInitExitInv, OnConnectionInv, OnDisconnectionInv, OnSetConfigInv, OnStartInv,
     OnStopInv DEF Next, Reply, Handle
<1>3. QED
  BY <1>1, <1>2

LEMMA Invariance == Spec => []IInv
  BY InitInv, StepInv, PTL DEF Spec

\* The exit that was not read yet is at the end of what the guard sent.
LEMMA ExitPending == IInv => ExitReported
<1> SUFFICES ASSUME IInv, init = "reaped", Alive, peer[host] = "accepted", ~mExitStatus
             PROVE  "INIT_STOPPED" \in ToSet(toHost)
  BY DEF ExitReported
<1>1. \/ toHost = <<"INIT_STOPPED">>
      \/ \E m \in ToHost : toHost = <<m, "INIT_STOPPED">>
  BY DEF IInv, ObjectInv, AnswersInv
<1>2. QED
  BY <1>1, Messages

LEMMA LifeUnchanged == UNCHANGED <<guard, init>> => UNCHANGED InitLife
  BY DEF InitLife

\* What a life is like while there is a guard, or was one.
LEMMA LifeOfInit ==
  ASSUME IInv, guard \in {"serving", "gone"}
  PROVE  /\ InitLife \in {"starting", "up", "down"}
         /\ init # "none" => InitLife \in {"up", "down"}
         /\ init \in {"none", "reaped"} => InitLife \in {"starting", "down"}
<1>1. init \in {"none", "running", "zombie", "reaped", "lost"}
  BY DEF IInv, TypeOK
<1>2. CASE init \in {"running", "zombie"}
  BY <1>1, <1>2 DEF InitLife
<1>3. CASE init = "none"
  BY <1>1, <1>3 DEF InitLife
<1>4. CASE init \in {"reaped", "lost"}
  BY <1>1, <1>4 DEF InitLife
<1>5. QED
  BY <1>1, <1>2, <1>3, <1>4

\* Every step of object and guard is one of ContainerLife, or none.
LEMMA LifeStep == IInv /\ [Next]_vars => [Life!Next]_Life!vars
<1> SUFFICES ASSUME IInv, [Next]_vars PROVE [Life!Next]_Life!vars
  OBVIOUS
<1> USE DEF Life!Next, Life!vars
<1>1. CASE Construct
  BY <1>1, LifeUnchanged DEF Construct, guardVars, Alive, Life!Construct
<1>2. CASE Vanish
  BY <1>2, LifeUnchanged DEF Vanish, guardVars, Alive, Life!Vanish
<1>3. CASE connect
  <2>1. InitLife # "off"
    BY <1>3, LifeOfInit DEF connect
  <2>2. QED
    BY <1>3, <2>1, LifeUnchanged DEF connect, guardVars, Life!Connect
<1>4. CASE start
  <2>1. CASE UNCHANGED <<guardVars, peer>>
    BY <1>4, <2>1, LifeUnchanged DEF start, guardVars, Life!Start
  <2>2. CASE guard' = "forked" /\ init' = "none"
    <3>1. InitLife' = "starting"
      BY <2>2 DEF InitLife
    <3>2. QED
      BY <1>4, <3>1 DEF start, Life!Start
  <2>3. QED
    BY <1>4, <2>1, <2>2 DEF start
<1>5. CASE stop
  BY <1>5, LifeUnchanged DEF stop, guardVars, Life!Stop
<1>6. CASE SendStop
  BY <1>6, LifeUnchanged DEF SendStop, guardVars
<1>7. CASE onWorkFileEvent
  BY <1>7, LifeUnchanged DEF onWorkFileEvent, guardVars
<1>8. CASE onGuardReady
  BY <1>8, LifeUnchanged DEF onGuardReady, hostVars, guardVars
<1>9. CASE onGuardConnected
  <2>1. PICK s \in States : Receive(s) /\ mState' = s
    BY <1>9 DEF onGuardConnected
  <2>2. s # "INIT_STOPPED" /\ s \notin {"GUARD_READY", "PID", "ERROR"}
    BY DEF States
  <2>3. Answer(s) /\ guard \in {"serving", "gone"}
    BY <2>1, <2>2, ReceiveFacts
  <2>4. /\ mState = "CONNECTING"
        /\ s \in {"RUNNING", "STOPPING"} => init # "none"
        /\ s = "STOPPED" => init \in {"none", "reaped"}
    BY <2>2, <2>3 DEF Answer
  <2>5. UNCHANGED InitLife
    BY <1>9, LifeUnchanged DEF onGuardConnected, guardVars
  <2>6. CASE s = "CONNECTING"
    BY <2>1, <2>4, <2>5, <2>6
  <2>7. CASE s # "CONNECTING"
    <3>1. s \in {"STARTING", "STOPPING", "RUNNING", "STOPPED"}
      BY <2>7 DEF States
    <3>2. Life!Reached(s)
      BY <2>3, <2>4, <3>1, LifeOfInit DEF Life!Reached
    <3>3. Life!Learn(s)
      BY <2>1, <2>4, <2>5, <3>1, <3>2 DEF Life!Learn
    <3>4. QED
      BY <3>1, <3>3
  <2>8. QED
    BY <2>6, <2>7
<1>10. CASE onInitStarted
  <2>1. UNCHANGED InitLife
    BY <1>10, LifeUnchanged DEF onInitStarted, guardVars
  <2>2. CASE Receive("PID") /\ mState' = "RUNNING"
    <3>1. Answer("PID") /\ guard \in {"serving", "gone"}
      BY <2>2, ReceiveFacts
    <3>2. mState \in Cold /\ init # "none"
      BY <3>1 DEF Answer, States
    <3>3. InitLife \in {"up", "down"}
      BY <3>1, <3>2, LifeOfInit
    <3>4. Life!Reached("RUNNING")
      BY <3>3 DEF Life!Reached
    <3>5. QED
      BY <2>1, <2>2, <3>2, <3>4 DEF Life!Learn, Cold
  <2>3. CASE UNCHANGED mState
    BY <2>1, <2>3
  <2>4. QED
    BY <1>10, <2>2, <2>3 DEF onInitStarted
<1>11. CASE onInitStopped
  <2>1. UNCHANGED InitLife /\ mState' \in {"STOPPED", mState} /\ Receive("INIT_STOPPED")
    BY <1>11, LifeUnchanged DEF onInitStopped, guardVars
  <2>2. Alive /\ (init = "reaped" \/ Answer("INIT_STOPPED"))
    BY <2>1, ReceiveFacts
  <2>3. guard = "gone" /\ init = "reaped"
    BY <2>2 DEF Answer, States, IInv, GuardInv
  <2>4. Life!Reached("STOPPED")
    BY <2>3 DEF Life!Reached, InitLife, IInv, GuardInv
  <2>5. CASE mState' = mState
    BY <2>1, <2>5
  <2>6. CASE mState' # mState
    <3>1. mState \in {"STARTING", "CONNECTING", "RUNNING", "STOPPING"}
      BY <2>1, <2>2, <2>6 DEF Alive, IInv, TypeOK, States
    <3>2. QED
      BY <2>1, <2>4, <3>1 DEF Life!Learn
  <2>7. QED
    BY <2>5, <2>6
<1>12. CASE Serve
  <2>1. InitLife' = InitLife
    BY <1>12 DEF Serve, InitLife, IInv, GuardInv
  <2>2. QED
    BY <1>12, <2>1 DEF Serve
<1>13. CASE InitExits
  <2>1. InitLife' = InitLife
    BY <1>13 DEF InitExits, hostVars, InitLife, IInv, GuardInv
  <2>2. QED
    BY <1>13, <2>1 DEF InitExits, hostVars
<1>14. CASE onInitExit
  <2>1. InitLife = "up"
    BY <1>14 DEF onInitExit, InitLife
  <2>2. guard' # "none" /\ init' \in {"reaped", "lost"}
    BY <1>14 DEF onInitExit
  <2>3. InitLife' = "down"
    BY <2>2 DEF InitLife
  <2>4. QED
    BY <1>14, <2>1, <2>3 DEF onInitExit, hostVars, Life!Down
<1>15. ASSUME NEW h \in Hosts, onConnection(h) PROVE UNCHANGED Life!vars
  BY <1>15, LifeUnchanged DEF onConnection, hostVars
<1>16. ASSUME NEW h \in Hosts, onDisconnection(h) PROVE UNCHANGED Life!vars
  BY <1>16, LifeUnchanged DEF onDisconnection, hostVars
<1>17. ASSUME NEW h \in Hosts, onSetConfig(h) PROVE UNCHANGED Life!vars
  BY <1>17, LifeUnchanged DEF onSetConfig, hostVars
<1>18. ASSUME NEW h \in Hosts, onStart(h) PROVE [Life!Next]_Life!vars
  <2>1. init = "none" /\ guard = "serving"
    BY <1>18, ReadFacts DEF onStart, Read, Cold
  <2>2. InitLife = "starting"
    BY <2>1 DEF InitLife
  <2>3. CASE UNCHANGED init
    BY <1>18, <2>3, LifeUnchanged DEF onStart, hostVars
  <2>4. CASE init' \in {"running", "zombie"}
    <3>1. InitLife' = "up"
      <4>1. guard' = "serving"
        BY <1>18, <2>1 DEF onStart
      <4>2. QED
        BY <2>4, <4>1 DEF InitLife
    <3>2. QED
      BY <1>18, <2>2, <3>1 DEF onStart, hostVars, Life!Up
  <2>5. QED
    BY <1>18, <2>3, <2>4 DEF onStart
<1>19. ASSUME NEW h \in Hosts, onStop(h) PROVE UNCHANGED Life!vars
  <2>1. guard' = guard /\ (init' = init \/ (init = "running" /\ init' = "zombie"))
    BY <1>19 DEF onStop
  <2>2. CASE init = "running" /\ init' = "zombie"
    BY <1>19, <2>1, <2>2 DEF InitLife, onStop, hostVars
  <2>3. QED
    BY <1>19, <2>1, <2>2, LifeUnchanged DEF onStop, hostVars
<1>20. CASE UNCHANGED vars
  BY <1>20, LifeUnchanged DEF vars, hostVars, guardVars
<1>21. QED
  BY <1>1, <1>2, <1>3, <1>4, <1>5, <1>6, <1>7, <1>8, <1>9, <1>10, <1>11, <1>12,
     <1>13, <1>14, <1>15, <1>16, <1>17, <1>18, <1>19, <1>20 DEF Next, Reply, Handle

\* Every state of object, guard and messages is well typed.
THEOREM TypeCorrect == Spec => []TypeOK
<1>1. IInv => TypeOK
  BY DEF IInv
<1>2. QED
  BY <1>1, Invariance, PTL

\* The exit of init reaches the object that is connected when it happens,
\* however many came and went before: onInitExit sends to the peer onConnection
\* noted last, and onDisconnection never takes the note of another.
THEOREM ExitIsReported == Spec => []ExitReported
  BY Invariance, ExitPending, PTL

\* A guard that started an init is never asked to start another: onConnection
\* sends GUARD_READY only while there is no configuration.
THEOREM OneInitPerGuard == Spec => OneInit
<1>1. IInv /\ [Next]_vars => [\A h \in Hosts : onStart(h) => init = "none"]_vars
  <2>1. ASSUME IInv, NEW h \in Hosts, onStart(h) PROVE init = "none"
    BY <2>1, ReadFacts DEF onStart, Cold
  <2>2. QED
    BY <2>1
<1>2. QED
  BY <1>1, Invariance, PTL DEF Spec, OneInit

\* The object and the guard implement ContainerLife: the state a daemon shows
\* follows the life of init over any number of reconnections.
THEOREM ImplementsLife == Spec => LifeSpec
<1>1. Init => Life!Init
  BY DEF Init, Life!Init, InitLife
<1>2. QED
  BY <1>1, LifeStep, Invariance, PTL DEF Spec, LifeSpec, Life!Spec
=============================================================================
