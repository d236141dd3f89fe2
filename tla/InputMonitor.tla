---------------------------- MODULE InputMonitor ----------------------------
(***************************************************************************)
(* The key that passes the focus on, server/input-monitor.cpp: pressed     *)
(* numberOfEvents times within a window of time, it has the zones manager  *)
(* switch.  Time stamps are struct timevals: seconds and microseconds.     *)
(***************************************************************************)
EXTENDS Integers, SequencesExt

CONSTANTS
  UsecPerMs, MsPerSec,   \* 1000, or fewer in a small instance
  MAX_TIME_WINDOW_SEC,
  MAX_NUMBER_OF_EVENTS,
  numberOfEvents,        \* of the configuration
  timeWindowMs,
  MaxTime                \* bound on the clock, in microseconds

SEC == UsecPerMs * MsPerSec

\* What the constructor refuses; it does not refuse one event, for which
\* isExpectedEventSequence takes the last element of an empty list.
ASSUME InputAssumption ==
  /\ UsecPerMs \in Nat \ {0} /\ MsPerSec \in Nat \ {0} /\ MAX_TIME_WINDOW_SEC \in Nat \ {0}
  /\ timeWindowMs \in Nat /\ timeWindowMs <= MAX_TIME_WINDOW_SEC * MsPerSec
  /\ MAX_NUMBER_OF_EVENTS \in Nat /\ numberOfEvents \in 2 .. MAX_NUMBER_OF_EVENTS

VARIABLES
  device,       \* mFd: "open", or "closed" (-1)
  clock,        \* in microseconds
  mEventTimes,  \* stamps of the presses that count
  presses,      \* the times of the presses since the last switch (ghost)
  switched      \* the last event completed the sequence

inputVars == <<device, clock, mEventTimes, presses, switched>>

Stamps == [tv_sec : Nat, tv_usec : 0 .. SEC - 1]
stamp(t) == [tv_sec |-> t \div SEC, tv_usec |-> t % SEC]

InputTypeOK ==
  /\ device \in {"open", "closed"}
  /\ clock \in Nat
  /\ mEventTimes \in Seq(Stamps) /\ Len(mEventTimes) < numberOfEvents
  /\ presses \in Seq(Nat)
  /\ switched \in BOOLEAN

InputInit ==
  /\ device = "closed" /\ clock = 0 /\ mEventTimes = <<>> /\ presses = <<>> /\ switched = FALSE

-----------------------------------------------------------------------------
\* Division of C++: towards zero.
quotient(a, b) == IF a >= 0 THEN a \div b ELSE -((-a) \div b)

\* Mutant: the seconds are left out.
Mutant_timeDiff(latest, oldest) == quotient(latest.tv_usec - oldest.tv_usec, UsecPerMs)

timeDiff(latest, oldest) ==
  (latest.tv_sec - oldest.tv_sec) * MsPerSec + quotient(latest.tv_usec - oldest.tv_usec, UsecPerMs)

\* isExpectedEventSequence of a press at t.
Expected(times) ==
  LET secDiff == Last(times).tv_sec - Head(times).tv_sec
  IN  /\ Len(times) >= numberOfEvents
      /\ secDiff < MAX_TIME_WINDOW_SEC
      /\ timeDiff(Last(times), Head(times)) < timeWindowMs

\* Mutant: the oldest stamp is never dropped.
Mutant_Kept(times) == IF Expected(times) THEN <<>> ELSE times

\* What is left of the stamps: none after a switch; once there were enough, the
\* oldest goes.
Kept(times) ==
  IF Expected(times) THEN <<>>
  ELSE IF Len(times) >= numberOfEvents THEN Tail(times) ELSE times

\* handleInternal: the key is pressed.
KeyPressed(t) ==
  /\ device = "open"
  /\ clock' = t
  /\ LET times == Append(mEventTimes, stamp(t))
     IN  mEventTimes' = Kept(times) /\ switched' = Expected(times)
  /\ presses' = Append(IF switched THEN <<>> ELSE presses, t)
  /\ UNCHANGED device

\* handleInternal: another key, the key's release, or a read that fails.
OtherEvent ==
  /\ device = "open"
  /\ switched' = FALSE
  /\ presses' = IF switched THEN <<>> ELSE presses
  /\ UNCHANGED <<device, clock, mEventTimes>>

\* setHandler and leaveDevice, called by start(), stop(), or for EPOLLHUP: the
\* stamps stay.
InputStart == device = "closed" /\ device' = "open" /\ UNCHANGED <<clock, mEventTimes, presses, switched>>
InputStop == device = "open" /\ device' = "closed" /\ UNCHANGED <<clock, mEventTimes, presses, switched>>

InputNext ==
  \/ \E t \in clock .. MaxTime : KeyPressed(t)
  \/ OtherEvent \/ InputStart \/ InputStop

InputSpec == InputInit /\ [][InputNext]_inputVars

-----------------------------------------------------------------------------
\* The time from the first to the last of the last numberOfEvents presses since
\* the focus was last passed on, in microseconds.
Span == Last(presses) - presses[Len(presses) - numberOfEvents + 1]

\* The focus is passed on by numberOfEvents presses within the window and by
\* nothing else, however seconds carry and whatever was pressed before; one
\* millisecond is lost to the division, and a second at the longest windows.
SwitchExact ==
  /\ switched => Len(presses) >= numberOfEvents /\ Span < timeWindowMs * UsecPerMs
  /\ ~switched /\ Len(presses) >= numberOfEvents =>
       \/ Span > (timeWindowMs - 1) * UsecPerMs
       \/ Span > (MAX_TIME_WINDOW_SEC - 1) * SEC
=============================================================================
