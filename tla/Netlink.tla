------------------------------ MODULE Netlink ------------------------------
(***************************************************************************)
(* One request to the kernel and the reading of its answer:                *)
(* common/netlink/netlink.cpp and netlink-message.cpp, as server/netdev.cpp *)
(* uses them.  A request is sent over a socket of its own; the kernel      *)
(* answers in datagrams of one or more messages.                           *)
(***************************************************************************)
EXTENDS Integers, SequencesExt

CONSTANTS
  NumParts,    \* bound: the messages of a dump
  MaxSeq       \* bound: the requests made

ASSUME NetlinkAssumption == NumParts \in Nat \ {0} /\ MaxSeq \in Nat

\* "set" asks for nothing but the acknowledgement, "get" for one object, "dump"
\* for all of them.
Requests == {"set", "get", "dump"}

\* A message: data has a body; only the parts of a dump are NLM_F_MULTI.
Msg(kind, body, s) == [kind |-> kind, body |-> body, seq |-> s]
Multi(m) == m.kind \in {"part", "done"}

VARIABLES
  asked,      \* the request, or "none"
  nlmsgSeq,   \* its number; the static counter of NetlinkMessage
  mFd,        \* the datagrams waiting in the socket; none when it is closed
  mNlmsg,     \* the messages rcv() got so far
  nlStep,     \* "idle", "sent", "received", or "failed" with an exception
  mNlmsgHdr,  \* the message of mNlmsg the caller is at
  fetched,    \* bodies the caller fetched
  answered    \* bodies the kernel answered the request with (ghost)

netlinkVars == <<asked, nlmsgSeq, mFd, mNlmsg, nlStep, mNlmsgHdr, fetched, answered>>

Messages == [kind : {"part", "done", "object", "ack", "nack", "overrun"}, body : 0 .. NumParts, seq : 1 .. MaxSeq]

NetlinkTypeOK ==
  /\ asked \in Requests \cup {"none"}
  /\ nlmsgSeq \in 0 .. MaxSeq
  /\ mFd \in Seq(Seq(Messages))
  /\ mNlmsg \in Seq(Messages)
  /\ nlStep \in {"idle", "sent", "received", "failed"}
  /\ mNlmsgHdr \in Nat
  /\ fetched \in Seq(0 .. NumParts) /\ answered \in Seq(0 .. NumParts)

NetlinkInit ==
  /\ asked = "none" /\ nlmsgSeq = 0 /\ mFd = <<>> /\ mNlmsg = <<>> /\ nlStep = "idle"
  /\ mNlmsgHdr = 1 /\ fetched = <<>> /\ answered = <<>>

-----------------------------------------------------------------------------
(* The kernel.                                                             *)

Upto(n) == [i \in 1 .. n |-> i]

\* The i-th message of a dump of n parts, which DONE follows.
DumpMessage(n, i, s) == IF i <= n THEN Msg("part", i, s) ELSE Msg("done", 0, s)

\* The places a dump of n parts may be cut at: where each of its datagrams ends.
Cuts(n) ==
  {ends \in UNION {[1 .. k -> 1 .. n + 1] : k \in 1 .. n + 1} :
     /\ ends[Len(ends)] = n + 1
     /\ \A i, j \in DOMAIN ends : i < j => ends[i] < ends[j]}

EndBefore(ends, k) == IF k = 1 THEN 0 ELSE ends[k - 1]

\* DONE comes with the last of the parts or by itself.
Dump(n, ends, s) ==
  [k \in DOMAIN ends |->
     [i \in 1 .. ends[k] - EndBefore(ends, k) |-> DumpMessage(n, EndBefore(ends, k) + i, s)]]

\* What it answers: every request has NLM_F_ACK, which a dump is not sent.
Answers(k, s) ==
  {[wire |-> <<<<Msg("nack", 0, s)>>>>, bodies |-> <<>>]} \cup
  CASE k = "set"  -> {[wire |-> <<<<Msg("ack", 0, s)>>>>, bodies |-> <<0>>]}
    [] k = "get"  -> {[wire |-> <<<<Msg("object", 1, s)>>, <<Msg("ack", 0, s)>>>>, bodies |-> <<1>>]}
    [] k = "dump" -> {[wire |-> <<<<Msg("overrun", 0, s)>>>>, bodies |-> <<>>]} \cup
                     UNION {{[wire |-> Dump(n, ends, s), bodies |-> Upto(n)] : ends \in Cuts(n)} :
                              n \in 0 .. NumParts}

-----------------------------------------------------------------------------
(* send() of a message: opens, sends, receives, closes.                    *)

\* NetlinkMessage's constructor numbers the message; open() of a namespace whose
\* zone is not running throws.
Request(k, opens) ==
  /\ nlStep \in {"idle", "failed"} /\ nlmsgSeq < MaxSeq
  /\ nlmsgSeq' = nlmsgSeq + 1
  /\ mNlmsg' = <<>> /\ mNlmsgHdr' = 1 /\ fetched' = <<>>
  /\ IF opens
     THEN \E a \in Answers(k, nlmsgSeq') :
            /\ asked' = k /\ nlStep' = "sent" /\ answered' = a.bodies
            /\ mFd' = mFd \o a.wire
     ELSE asked' = "none" /\ nlStep' = "failed" /\ answered' = <<>> /\ UNCHANGED mFd

Refuses(m) == m.kind = "nack" \/ m.kind = "overrun" \/ (m.kind = "ack" /\ m.seq # nlmsgSeq)

\* The loop of rcv() ends with a datagram whose last message is DONE, or no part.
Mutant_Complete(last) == last.kind \in {"done", "part"} \/ ~Multi(last)
Complete(last) == last.kind = "done" \/ ~Multi(last)

\* What close() leaves of what the socket held.
closed(rest) == <<>>

\* One recvmsg of rcv(): a whole datagram behind what is in the buffer.
Rcv ==
  /\ nlStep = "sent" /\ mFd # <<>>
  /\ LET d == Head(mFd)
     IN  IF \E i \in DOMAIN d : Refuses(d[i])
         THEN nlStep' = "failed" /\ mFd' = closed(Tail(mFd)) /\ UNCHANGED mNlmsg
         ELSE /\ mNlmsg' = mNlmsg \o d
              /\ IF Complete(Last(d))
                 THEN nlStep' = "received" /\ mFd' = closed(Tail(mFd))
                 ELSE nlStep' = nlStep /\ mFd' = Tail(mFd)
  /\ UNCHANGED <<asked, nlmsgSeq, mNlmsgHdr, fetched, answered>>

-----------------------------------------------------------------------------
(* NetlinkResponse, read as listNetdev and getIpAddresses do: to the end.  *)

\* Of more than four bytes: what carries an object, and an acknowledgement too;
\* not DONE.
hasMessage == mNlmsgHdr <= Len(mNlmsg) /\ mNlmsg[mNlmsgHdr].kind # "done"

FetchNextMessage ==
  /\ nlStep = "received" /\ hasMessage
  /\ fetched' = Append(fetched, mNlmsg[mNlmsgHdr].body)
  /\ mNlmsgHdr' = mNlmsgHdr + 1
  /\ UNCHANGED <<asked, nlmsgSeq, mFd, mNlmsg, nlStep, answered>>

ResponseRead ==
  /\ nlStep = "received" /\ ~hasMessage
  /\ nlStep' = "idle"
  /\ UNCHANGED <<asked, nlmsgSeq, mFd, mNlmsg, mNlmsgHdr, fetched, answered>>

NetlinkNext ==
  \/ \E k \in Requests, opens \in BOOLEAN : Request(k, opens)
  \/ Rcv \/ FetchNextMessage \/ ResponseRead

NetlinkSpec == NetlinkInit /\ [][NetlinkNext]_netlinkVars

-----------------------------------------------------------------------------
\* A caller that reads to the end has fetched what the kernel answered to its own
\* request: every part of a dump once and in order, however it was cut into
\* datagrams, and nothing of an earlier request, whose acknowledgement may never
\* have been read.
ReadExact == asked # "none" /\ nlStep = "idle" => fetched = answered
=============================================================================
