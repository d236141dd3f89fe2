------------------------------ MODULE Terminal ------------------------------
(***************************************************************************)
(* Bytes between the user's terminal and the programs of a container.  The *)
(* console (lxcpp/commands/console.cpp) relays the keyboard to the pty of  *)
(* one terminal and its output to the screen; the guard (guard.cpp) relays *)
(* each of those ptys to the container's own.  Each relay is one thread    *)
(* that polls its descriptors and keeps a buffer per direction.  A byte is *)
(* its number in the order of its source.                                  *)
(***************************************************************************)
EXTENDS Integers, SequencesExt

CONSTANTS
  NumTerminals,     \* mTerminals.mCount
  IO_BUFFER_SIZE,
  PtyCapacity,      \* what the kernel queues in one direction of a pty
  MaxTyped, MaxProduced  \* bounds on the keys typed, and on the output of all programs

ASSUME TerminalAssumption ==
  /\ NumTerminals \in Nat \ {0} /\ IO_BUFFER_SIZE \in Nat \ {0} /\ PtyCapacity \in Nat \ {0}
  /\ MaxTyped \in Nat /\ MaxProduced \in Nat

Terminals == 0 .. NumTerminals - 1
Sides == {"cont", "impl"}
\* ^], ^a, and what follows ^a; every other key is plain.
Keys == {"^]", "^a", "q", "n", "p", "plain"}

VARIABLES
  mImplToCont, mContToImpl,  \* guard: what is read and not yet written, per terminal
  polled,                    \* guard: the events of each descriptor, "IN" or "OUT"
  events,                    \* guard: what epoll_wait returned and is not dispatched
  console,                   \* "off", "on", or "quit" (mQuitReason is set)
  mTerminalNum, mServiceMode,
  mTermToApp, mAppToTerm,
  ptyOut, stdOut,            \* console: EPOLLOUT is polled on the pty, on the screen
  implIn, implOut,           \* what the kernel queues in the pty between the two
  typed, produced,           \* how many bytes each source has given
  keysTaken,                 \* how many keys have left the queue of the user's terminal
  received, shown,           \* what the programs have read, what the screen shows
  consumed, missed,          \* keys and output that end in the console (ghosts)
  discarded                  \* keys that restoreTTY took from the queue (ghost)

guardVars == <<mImplToCont, mContToImpl, polled, events>>
consoleVars == <<console, mTerminalNum, mServiceMode, mTermToApp, mAppToTerm, ptyOut, stdOut>>
ttyVars == <<typed, keysTaken, discarded>>
endVars == <<ttyVars, produced, received, shown, consumed, missed>>
terminalVars == <<guardVars, consoleVars, implIn, implOut, endVars>>

TerminalTypeOK ==
  /\ mImplToCont \in [Terminals -> Seq(Nat)] /\ mContToImpl \in [Terminals -> Seq(Nat)]
  /\ \A t \in Terminals : Len(mImplToCont[t]) <= IO_BUFFER_SIZE /\ Len(mContToImpl[t]) <= IO_BUFFER_SIZE
  /\ polled \in [Terminals -> [Sides -> {"IN", "OUT"}]]
  /\ events \in [Terminals -> SUBSET (Sides \X {"IN", "OUT"})]
  /\ console \in {"off", "on", "quit"} /\ mTerminalNum \in Terminals /\ mServiceMode \in BOOLEAN
  /\ mTermToApp \in Seq(Nat) /\ mAppToTerm \in Seq(Terminals \X Nat)
  /\ Len(mTermToApp) <= IO_BUFFER_SIZE /\ Len(mAppToTerm) <= IO_BUFFER_SIZE
  /\ ptyOut \in BOOLEAN /\ stdOut \in BOOLEAN
  /\ implIn \in [Terminals -> Seq(Nat)] /\ implOut \in [Terminals -> Seq(Nat)]
  /\ typed \in Nat /\ keysTaken \in 0 .. typed /\ discarded \subseteq 1 .. keysTaken /\ produced \in [Terminals -> Nat]
  /\ received \in [Terminals -> Seq(Nat)] /\ shown \in Seq(Terminals \X Nat)
  /\ consumed \subseteq Nat /\ missed \subseteq Terminals \X Nat

TerminalInit ==
  /\ mImplToCont = [t \in Terminals |-> <<>>] /\ mContToImpl = [t \in Terminals |-> <<>>]
  /\ polled = [t \in Terminals |-> [s \in Sides |-> "IN"]]
  /\ events = [t \in Terminals |-> {}]
  /\ console = "off" /\ mTerminalNum = 0 /\ mServiceMode = FALSE
  /\ mTermToApp = <<>> /\ mAppToTerm = <<>> /\ ptyOut = FALSE /\ stdOut = FALSE
  /\ implIn = [t \in Terminals |-> <<>>] /\ implOut = [t \in Terminals |-> <<>>]
  /\ typed = 0 /\ keysTaken = 0 /\ discarded = {} /\ produced = [t \in Terminals |-> 0]
  /\ received = [t \in Terminals |-> <<>>] /\ shown = <<>>
  /\ consumed = {} /\ missed = {}

-----------------------------------------------------------------------------
\* The bytes a source gives after the first `from'.
Fresh(from, n) == [i \in 1 .. n |-> from + i]
smaller(a, b) == IF a < b THEN a ELSE b

\* Mutant: the written bytes are not moved out of the buffer.
Mutant_Rest(buf, n) == SubSeq(buf, 1, Len(buf) - n)

\* memmove and the new offset, n bytes being written.
Rest(buf, n) == SubSeq(buf, n + 1, Len(buf))

Avail(buf) == IO_BUFFER_SIZE - Len(buf)

\* modifyFD: the descriptor polls ev and nothing else.
Polls(t, s, ev) == [polled EXCEPT ![t][s] = ev]

\* Mutant: the descriptor is polled for reading after a write that is not complete.
Mutant_AfterWrite(t, s, left) == Polls(t, s, "IN")

AfterWrite(t, s, left) == IF left = <<>> THEN Polls(t, s, "IN") ELSE polled

\* dispatchIteration: a batch of events, none of them dispatched yet.
GuardPoll(t) ==
  /\ events[t] = {}
  /\ \E batch \in SUBSET {<<s, polled[t][s]>> : s \in Sides} :
       batch # {} /\ events' = [events EXCEPT ![t] = batch]
  /\ UNCHANGED <<mImplToCont, mContToImpl, polled, consoleVars, implIn, implOut, endVars>>

Dispatched(t, s, ev) == <<s, ev>> \in events[t] /\ events' = [events EXCEPT ![t] = @ \ {<<s, ev>>}]

\* onContTerminal, EPOLLIN: nothing is read when the buffer is full.
ContIn(t) ==
  /\ Dispatched(t, "cont", "IN")
  /\ \E n \in 0 .. Avail(mContToImpl[t]) :
       /\ SumFunction(produced) + n <= MaxProduced
       /\ mContToImpl' = [mContToImpl EXCEPT ![t] = @ \o Fresh(produced[t], n)]
       /\ produced' = [produced EXCEPT ![t] = @ + n]
       /\ polled' = IF n > 0 THEN Polls(t, "impl", "OUT") ELSE polled
  /\ UNCHANGED <<mImplToCont, consoleVars, implIn, implOut, ttyVars, received, shown, consumed, missed>>

\* onContTerminal, EPOLLOUT.
ContOut(t) ==
  /\ Dispatched(t, "cont", "OUT")
  /\ \E n \in 0 .. Len(mImplToCont[t]) :
       LET left == Rest(mImplToCont[t], n)
       IN  /\ received' = [received EXCEPT ![t] = @ \o SubSeq(mImplToCont[t], 1, n)]
           /\ mImplToCont' = [mImplToCont EXCEPT ![t] = left]
           /\ polled' = AfterWrite(t, "cont", left)
  /\ UNCHANGED <<mContToImpl, consoleVars, implIn, implOut, ttyVars, produced, shown, consumed, missed>>

\* onImplTerminal, EPOLLIN.
ImplIn(t) ==
  /\ Dispatched(t, "impl", "IN")
  /\ \E n \in 0 .. smaller(Avail(mImplToCont[t]), Len(implIn[t])) :
       /\ mImplToCont' = [mImplToCont EXCEPT ![t] = @ \o SubSeq(implIn[t], 1, n)]
       /\ implIn' = [implIn EXCEPT ![t] = SubSeq(@, n + 1, Len(@))]
       /\ polled' = IF n > 0 THEN Polls(t, "cont", "OUT") ELSE polled
  /\ UNCHANGED <<mContToImpl, consoleVars, implOut, endVars>>

\* onImplTerminal, EPOLLOUT.
ImplOut(t) ==
  /\ Dispatched(t, "impl", "OUT")
  /\ \E n \in 0 .. smaller(PtyCapacity - Len(implOut[t]), Len(mContToImpl[t])) :
       LET left == Rest(mContToImpl[t], n)
       IN  /\ implOut' = [implOut EXCEPT ![t] = @ \o SubSeq(mContToImpl[t], 1, n)]
           /\ mContToImpl' = [mContToImpl EXCEPT ![t] = left]
           /\ polled' = AfterWrite(t, "impl", left)
  /\ UNCHANGED <<mImplToCont, consoleVars, implIn, endVars>>

-----------------------------------------------------------------------------
\* execute: a console is made for one terminal.
ConsoleStart(t) ==
  /\ console = "off"
  /\ console' = "on" /\ mTerminalNum' = t
  /\ UNCHANGED <<guardVars, mServiceMode, mTermToApp, mAppToTerm, ptyOut, stdOut, implIn, implOut, endVars>>

\* restoreTTY: TCSAFLUSH discards the keys that were typed and are not read yet, from the
\* one with number `first' on.
restoreTTY(first) ==
  /\ discarded' = discarded \cup (first .. typed)
  /\ keysTaken' = typed /\ UNCHANGED typed

\* The user types, ahead of the console.
KeyTyped ==
  /\ console # "off" /\ typed < MaxTyped
  /\ typed' = typed + 1
  /\ UNCHANGED <<guardVars, consoleVars, implIn, implOut, keysTaken, produced, received, shown,
                 consumed, missed, discarded>>

\* The console is gone, with what its buffers held.
ConsoleEnd ==
  /\ console = "quit"
  /\ console' = "off" /\ mServiceMode' = FALSE
  /\ mTermToApp' = <<>> /\ mAppToTerm' = <<>> /\ ptyOut' = FALSE /\ stdOut' = FALSE
  /\ consumed' = consumed \cup ToSet(mTermToApp) /\ missed' = missed \cup ToSet(mAppToTerm)
  /\ restoreTTY(keysTaken + 1)
  /\ UNCHANGED <<guardVars, mTerminalNum, implIn, implOut, produced, received, shown>>

\* checkForError: EPOLLHUP or EPOLLERR.
ConsoleError ==
  /\ console = "on" /\ console' = "quit"
  /\ UNCHANGED <<guardVars, mTerminalNum, mServiceMode, mTermToApp, mAppToTerm, ptyOut, stdOut,
                 implIn, implOut, endVars>>

\* handleSpecial takes a key that is read alone, in service mode whatever it is.
Special(key) == mServiceMode \/ key \in {"^]", "^a"}

\* Mutant: a console that turns to another pty only reads it.
Mutant_ChangedPolls == FALSE

\* consoleChange: the new pty is polled for what is not yet written, to the old one.
ChangedPolls == mTermToApp # <<>>

\* handleSpecial; consoleChange restores the user's terminal before it sets it up again.
SpecialKey(key) ==
  LET changes == mServiceMode /\ key \in {"n", "p"}
  IN  /\ mServiceMode' = (~mServiceMode /\ key = "^a")
      /\ console' = IF key = IF mServiceMode THEN "q" ELSE "^]" THEN "quit" ELSE console
      /\ mTerminalNum' = IF changes
                         THEN (mTerminalNum + IF key = "n" THEN 1 ELSE NumTerminals - 1) % NumTerminals
                         ELSE mTerminalNum
      /\ ptyOut' = IF changes THEN ChangedPolls ELSE ptyOut
      /\ consumed' = consumed \cup {keysTaken + 1}
      /\ IF changes THEN restoreTTY(keysTaken + 2) ELSE keysTaken' = keysTaken + 1 /\ UNCHANGED <<typed, discarded>>
      /\ UNCHANGED <<guardVars, mTermToApp, mAppToTerm, stdOut, implIn, implOut,
                     produced, received, shown, missed>>

\* onStdInput: one key that is special, or n bytes that go to the program.
StdInput ==
  /\ console # "off"
  /\ \E n \in 1 .. smaller(Avail(mTermToApp), typed - keysTaken), key \in Keys :
       IF n = 1 /\ Special(key) THEN SpecialKey(key)
       ELSE /\ key = "plain"
            /\ mTermToApp' = mTermToApp \o Fresh(keysTaken, n)
            /\ keysTaken' = keysTaken + n
            /\ ptyOut' = TRUE
            /\ UNCHANGED <<guardVars, console, mTerminalNum, mServiceMode, mAppToTerm, stdOut,
                           implIn, implOut, typed, produced, received, shown, consumed, missed, discarded>>

\* onPTY, EPOLLIN.
PtyIn ==
  /\ console # "off"
  /\ \E n \in 1 .. smaller(Avail(mAppToTerm), Len(implOut[mTerminalNum])) :
       /\ mAppToTerm' = mAppToTerm \o [i \in 1 .. n |-> <<mTerminalNum, implOut[mTerminalNum][i]>>]
       /\ implOut' = [implOut EXCEPT ![mTerminalNum] = SubSeq(@, n + 1, Len(@))]
  /\ stdOut' = TRUE
  /\ UNCHANGED <<guardVars, console, mTerminalNum, mServiceMode, mTermToApp, ptyOut, implIn, endVars>>

\* onPTY, EPOLLOUT.
PtyOut ==
  /\ console # "off" /\ ptyOut
  /\ \E n \in 1 .. smaller(PtyCapacity - Len(implIn[mTerminalNum]), Len(mTermToApp)) :
       /\ implIn' = [implIn EXCEPT ![mTerminalNum] = @ \o SubSeq(mTermToApp, 1, n)]
       /\ mTermToApp' = Rest(mTermToApp, n)
       /\ ptyOut' = (n < Len(mTermToApp))
  /\ UNCHANGED <<guardVars, console, mTerminalNum, mServiceMode, mAppToTerm, stdOut, implOut, endVars>>

\* onStdOutput.
StdOutput ==
  /\ console # "off" /\ stdOut
  /\ \E n \in 1 .. Len(mAppToTerm) :
       /\ shown' = shown \o SubSeq(mAppToTerm, 1, n)
       /\ mAppToTerm' = Rest(mAppToTerm, n)
       /\ stdOut' = (n < Len(mAppToTerm))
  /\ UNCHANGED <<guardVars, console, mTerminalNum, mServiceMode, mTermToApp, ptyOut, implIn, implOut,
                 ttyVars, produced, received, consumed, missed>>

TerminalNext ==
  \/ \E t \in Terminals : GuardPoll(t) \/ ContIn(t) \/ ContOut(t) \/ ImplIn(t) \/ ImplOut(t) \/ ConsoleStart(t)
  \/ KeyTyped \/ ConsoleEnd \/ ConsoleError \/ StdInput \/ PtyIn \/ PtyOut \/ StdOutput

TerminalSpec == TerminalInit /\ [][TerminalNext]_terminalVars

-----------------------------------------------------------------------------
Increasing(s) == \A i, j \in DOMAIN s : i < j => s[i] < s[j]

\* What reached terminal t's program or is on its way past the console.
Downstream(t) == received[t] \o mImplToCont[t] \o implIn[t]
\* Output of t's program between it and the console, and what consoles took of all.
Upstream(t) == implOut[t] \o mContToImpl[t]
Screen == shown \o mAppToTerm
InTurn(s) == \A i, j \in DOMAIN s : i < j /\ s[i][1] = s[j][1] => s[i][2] < s[j][2]
OutputOf(t, S) == {o[2] : o \in {x \in S : x[1] = t}}

\* Every key that the console reads reaches one program, in the order typed, or ends
\* in the console, and all output reaches the screen in order or is lost with a console
\* that ends: through partial reads and writes, full buffers, stale events and a change
\* of terminal, neither relay drops, repeats or reorders a byte.  A change of terminal and
\* the end of a console discard what was typed ahead and is not read, and nothing else.
RelayExact ==
  /\ InTurn(Screen)
  /\ \A t \in Terminals :
       /\ Increasing(Downstream(t))
       /\ Increasing(Upstream(t))
       /\ \A m \in OutputOf(t, ToSet(Screen)), n \in ToSet(Upstream(t)) : m < n
       /\ OutputOf(t, ToSet(Screen) \cup missed) \cup ToSet(Upstream(t)) = 1 .. produced[t]
  /\ Increasing(mTermToApp)
  /\ (UNION {ToSet(Downstream(t)) : t \in Terminals}) \cup ToSet(mTermToApp) \cup consumed
       = (1 .. keysTaken) \ discarded
  /\ \A t, u \in Terminals : t # u => ToSet(Downstream(t)) \cap ToSet(Downstream(u)) = {}

\* A descriptor is polled for writing exactly while there is something to write
\* to it: a relay neither forgets a byte it holds nor stops reading for nothing.
PolledToWrite ==
  /\ \A t \in Terminals :
       /\ polled[t]["cont"] = "OUT" <=> mImplToCont[t] # <<>>
       /\ polled[t]["impl"] = "OUT" <=> mContToImpl[t] # <<>>
  /\ ptyOut <=> mTermToApp # <<>>
  /\ stdOut <=> mAppToTerm # <<>>

\* The relays of a console carry every byte, and wait for a descriptor to take one only
\* while they hold one for it.
RelaySound == RelayExact /\ PolledToWrite
=============================================================================
