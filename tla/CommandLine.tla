---------------------------- MODULE CommandLine ----------------------------
(***************************************************************************)
(* One process of the command line tool, vsm: cli/main.cpp, which reads    *)
(* commands from its arguments, a pipe or a terminal, and                  *)
(* cli/command-line-interface.cpp, which makes the calls of each command   *)
(* over one connection that the whole process shares.  The daemon may die  *)
(* and come back, and other clients may lock its queue, between any two    *)
(* calls.                                                                  *)
(***************************************************************************)
EXTENDS Naturals

CONSTANTS
  CommandLines,  \* the commands that may be given: [cmd, words, args]
  NumListed,     \* zones the daemon lists
  MaxLines       \* bound on the lines one process reads

ASSUME CommandLineAssumption ==
  NumListed \in Nat /\ MaxLines \in Nat /\ \A l \in CommandLines : l.words \in Nat

VARIABLES
  invocation,   \* how vsm was run
  vsm,          \* what it does next
  vsmClient,    \* CommandLineInterface::client: "none", "live", or "dead", its daemon gone
  daemonUp, queueLock,  \* the daemon, and who holds the lock of its queue
  currentLine,  \* the command that runs
  callsLeft,    \* calls it has yet to make
  linesRead,
  rc,           \* of the last command that ran
  vsmFailed,    \* a command has failed (ghost)
  vsmLocked     \* qlock succeeded, and qunlock has not since (ghost)

commandLineVars == <<invocation, vsm, vsmClient, daemonUp, queueLock, currentLine, callsLeft, linesRead,
                     rc, vsmFailed, vsmLocked>>

\* One command as arguments, a stream that is no terminal, a terminal, "-f file".
Invocations == {"arguments", "pipe", "terminal", "file"}
\* main sets interactiveMode to MODE_COMMAND_LINE for "-f" too, and that is the
\* value that makes readline_from read the terminal: the file is only opened.
interactiveMode == invocation # "pipe"

NoLine == [cmd |-> "none", words |-> 0, args |-> "ok"]

-----------------------------------------------------------------------------
(* The table of the commands, and what each of them does.                  *)

QueueCommands == {"qlock", "qunlock"}
ListCommands == {"get-active", "list", "clean"}
ZoneCommands == {"create", "destroy", "start", "shutdown", "suspend", "resume", "set-active", "console"}
NetCommands == {"net-destroy", "net-up", "net-down", "net-create"}
AddressCommands == {"net-ip-add", "net-ip-del"}
DeviceCommands == {"device-grant", "device-revoke"}

commands == QueueCommands \cup ListCommands \cup ZoneCommands \cup NetCommands \cup AddressCommands
            \cup DeviceCommands \cup {"status", "net-list"}

\* qlock and qunlock make no sense without a session.
isAvailable(cmd) == cmd \in QueueCommands => invocation # "arguments"

\* The words a command needs, its own name among them.
MinWords(cmd) ==
  CASE cmd \in QueueCommands \cup ListCommands \cup {"status"} -> 1
    [] cmd \in ZoneCommands \cup {"net-list"} -> 2
    [] cmd \in DeviceCommands \cup NetCommands -> 3
    [] cmd \in AddressCommands -> 5

\* get_zones_status asks for the ids, unless they are given, and the active zone, and
\* looks every id up; net-list with a device asks for it and its addresses.
StatusCalls(words) == IF words = 1 THEN 2 + NumListed ELSE words
NetListCalls(words) == IF words < 3 THEN 1 ELSE 2

\* What a command's words come to before its first call: the text of an address,
\* a type of device and its own words, a mode ("bad": runtime_error), or the length of
\* a prefix, which std::stoi throws something else for ("number").
Prepared(l) ==
  IF l.words < MinWords(l.cmd) THEN "throws"
  ELSE CASE l.args = "bad" /\ l.cmd \in AddressCommands \cup {"net-create"} -> "throws"
         [] l.args = "number" /\ l.cmd \in AddressCommands -> "terminates"
         [] OTHER -> "calls"

CallsOf(l) ==
  CASE l.cmd = "status" -> StatusCalls(l.words)
    [] l.cmd = "net-list" -> NetListCalls(l.words)
    [] OTHER -> 1

\* Lines that are no command: empty or a comment; white space, whose first word
\* is read all the same; a word that is in no table; a request for help.
OtherLines == {"empty", "blank", "unknown", "help"}

CommandLineTypeOK ==
  /\ invocation \in Invocations
  /\ vsm \in {"main", "read", "run", "exec", "leave", "ended", "terminated", "replaced"}
  /\ vsmClient \in {"none", "live", "dead"}
  /\ daemonUp \in BOOLEAN /\ queueLock \in {"nobody", "vsm", "other"}
  /\ currentLine \in CommandLines \cup {NoLine}
  /\ callsLeft \in Nat
  /\ linesRead \in 0 .. MaxLines
  /\ rc \in {"EXIT_SUCCESS", "EXIT_FAILURE"}
  /\ vsmFailed \in BOOLEAN /\ vsmLocked \in BOOLEAN

CommandLineInit ==
  /\ invocation \in Invocations
  /\ vsm = "main" /\ vsmClient = "none"
  /\ daemonUp = TRUE /\ queueLock = "nobody"
  /\ currentLine = NoLine /\ callsLeft = 0 /\ linesRead = 0
  /\ rc = "EXIT_FAILURE" /\ vsmFailed = FALSE /\ vsmLocked = FALSE

-----------------------------------------------------------------------------
(* main, cliMode and processStream.                                        *)

\* A new client, if there is none; one whose daemon is gone stays.
\* Mutant: a client that is not connected is replaced.
Mutant_connected == IF vsmClient # "live" /\ daemonUp THEN "live" ELSE vsmClient

connected == IF vsmClient = "none" /\ daemonUp THEN "live" ELSE vsmClient

\* Where a command is over: executeCommand's answer is rc, and a stream that is no
\* terminal stops at the first that failed.
\* Mutant: a stream goes on whatever its command answered.
Mutant_NextStep(answer) == IF invocation = "arguments" THEN "leave" ELSE "read"

NextStep(answer) ==
  IF invocation = "arguments" \/ (answer = "EXIT_FAILURE" /\ ~interactiveMode) THEN "leave" ELSE "read"

CommandEnds(answer) ==
  /\ rc' = answer
  /\ vsm' = NextStep(answer)
  /\ vsmFailed' = (vsmFailed \/ answer = "EXIT_FAILURE")
  /\ currentLine' = NoLine /\ callsLeft' = 0

\* processStream connects first, and leaves when it cannot; -f leaves when
\* there is no such file.
ProcessStream(opens) ==
  /\ vsm = "main" /\ invocation # "arguments"
  /\ invocation # "file" => opens
  /\ vsmClient' = IF opens THEN connected ELSE vsmClient
  /\ vsm' = IF opens /\ connected = "live" THEN "read" ELSE "leave"
  /\ UNCHANGED <<invocation, daemonUp, queueLock, currentLine, callsLeft, linesRead, rc, vsmFailed,
                 vsmLocked>>

\* executeCommand up to the command's first call.
executeCommand(l) ==
  /\ linesRead' = linesRead + 1
  /\ \/ /\ ~isAvailable(l.cmd) \/ Prepared(l) = "throws"
        /\ CommandEnds("EXIT_FAILURE")
     \/ /\ isAvailable(l.cmd) /\ Prepared(l) # "throws"
        /\ currentLine' = l /\ callsLeft' = CallsOf(l)
        /\ vsm' = IF Prepared(l) = "terminates" THEN "terminated" ELSE "run"
        /\ UNCHANGED <<rc, vsmFailed>>
  /\ UNCHANGED <<invocation, vsmClient, daemonUp, queueLock, vsmLocked>>

\* main goes on to cliMode with its arguments, a stream is read line by line.
ReadsLines == vsm = "read" \/ (vsm = "main" /\ invocation = "arguments")

RunLine(l) == ReadsLines /\ linesRead < MaxLines /\ executeCommand(l)

\* An unknown word is no failure for a stream, and is one for arguments; the first word of
\* a blank line is whatever the memory holds.
ReadOther(kind) ==
  /\ ReadsLines /\ linesRead < MaxLines
  /\ linesRead' = linesRead + 1
  /\ \/ kind = "unknown" /\ vsm = "main" /\ CommandEnds("EXIT_FAILURE")
     \/ kind = "help" /\ CommandEnds("EXIT_SUCCESS")
     \/ /\ vsm = "read" /\ kind # "help"
        /\ vsm' \in IF kind = "blank" THEN {"read", "terminated"} ELSE {"read"}
        /\ UNCHANGED <<currentLine, callsLeft, rc, vsmFailed>>
  /\ UNCHANGED <<invocation, vsmClient, daemonUp, queueLock, vsmLocked>>

\* The end of the input; a last line without an end is not read.
EndOfInput ==
  /\ vsm = "read" /\ vsm' = "leave"
  /\ UNCHANGED <<invocation, vsmClient, daemonUp, queueLock, currentLine, callsLeft, linesRead, rc,
                 vsmFailed, vsmLocked>>

\* The tab key: a list of zones is asked for, and what that throws leaves
\* readline's callback.
CompleteLine ==
  /\ vsm = "read" /\ invocation \in {"terminal", "file"}
  /\ vsmClient # "live" /\ vsm' = "terminated"
  /\ UNCHANGED <<invocation, vsmClient, daemonUp, queueLock, currentLine, callsLeft, linesRead, rc,
                 vsmFailed, vsmLocked>>

-----------------------------------------------------------------------------
(* The commands' calls.                                                    *)

\* The daemon's answer, as far as the lock of the queue decides it.
Allowed ==
  CASE currentLine.cmd = "qlock" -> queueLock = "nobody"
    [] currentLine.cmd = "qunlock" -> queueLock = "vsm"
    [] OTHER -> queueLock # "other"

LockAfter == IF currentLine.cmd = "qlock" THEN "vsm" ELSE "nobody"

\* A call that was answered: the next one, the end, or the console's last step.
CallMade ==
  \/ callsLeft > 1 /\ callsLeft' = callsLeft - 1 /\ UNCHANGED <<vsm, currentLine, rc, vsmFailed>>
  \/ callsLeft = 1 /\ currentLine.cmd = "console"
     /\ vsm' = "exec" /\ callsLeft' = 0 /\ UNCHANGED <<currentLine, rc, vsmFailed>>
  \/ callsLeft = 1 /\ currentLine.cmd # "console" /\ CommandEnds("EXIT_SUCCESS")

\* executeCallback, and the command's end when it was its last call, or failed.
executeCallback(fine) ==
  /\ vsm = "run"
  /\ vsmClient' = connected
  /\ \/ /\ fine /\ connected = "live" /\ Allowed
        /\ CallMade
        /\ queueLock' = IF currentLine.cmd \in QueueCommands THEN LockAfter ELSE queueLock
        /\ vsmLocked' = IF currentLine.cmd \in QueueCommands THEN LockAfter = "vsm" ELSE vsmLocked
     \/ /\ ~(fine /\ connected = "live" /\ Allowed)
        /\ CommandEnds("EXIT_FAILURE") /\ UNCHANGED <<queueLock, vsmLocked>>
  /\ UNCHANGED <<invocation, daemonUp, linesRead>>

\* console_zone: a zone that does not run is an error, an execv that fails is
\* not; one that succeeds takes the process, and the connection if it is kept open.
ConsoleZone(running, execs, keeps) ==
  /\ vsm = "exec"
  /\ \/ /\ ~running /\ CommandEnds("EXIT_FAILURE") /\ UNCHANGED <<vsmClient, queueLock>>
     \/ /\ running /\ ~execs /\ CommandEnds("EXIT_SUCCESS") /\ UNCHANGED <<vsmClient, queueLock>>
     \/ /\ running /\ execs /\ vsm' = "replaced"
        /\ vsmClient' = IF keeps THEN vsmClient ELSE "none"
        /\ queueLock' = IF queueLock = "vsm" /\ ~keeps THEN "nobody" ELSE queueLock
        /\ UNCHANGED <<currentLine, callsLeft, rc, vsmFailed>>
  /\ UNCHANGED <<invocation, daemonUp, linesRead, vsmLocked>>

\* main's last call is disconnect(), whose error is only printed.
Disconnected ==
  /\ vsmClient' = "none"
  /\ queueLock' = IF queueLock = "vsm" THEN "nobody" ELSE queueLock
  /\ UNCHANGED <<invocation, daemonUp, currentLine, callsLeft, linesRead, rc, vsmFailed, vsmLocked>>

LeaveVsm == vsm = "leave" /\ vsm' = "ended" /\ Disconnected

\* A process that terminates loses its connection all the same.
CollapseVsm == vsm = "terminated" /\ vsmClient # "none" /\ UNCHANGED vsm /\ Disconnected

-----------------------------------------------------------------------------
(* The daemon and its other clients.                                       *)

DaemonDies ==
  /\ daemonUp /\ daemonUp' = FALSE
  /\ queueLock' = "nobody"
  /\ vsmClient' = IF vsmClient = "live" THEN "dead" ELSE vsmClient
  /\ UNCHANGED <<invocation, vsm, currentLine, callsLeft, linesRead, rc, vsmFailed, vsmLocked>>

DaemonReturns ==
  /\ ~daemonUp /\ daemonUp' = TRUE
  /\ UNCHANGED <<invocation, vsm, vsmClient, queueLock, currentLine, callsLeft, linesRead, rc, vsmFailed,
                 vsmLocked>>

OthersLock(locks) ==
  /\ daemonUp /\ queueLock = (IF locks THEN "nobody" ELSE "other")
  /\ queueLock' = IF locks THEN "other" ELSE "nobody"
  /\ UNCHANGED <<invocation, vsm, vsmClient, daemonUp, currentLine, callsLeft, linesRead, rc, vsmFailed,
                 vsmLocked>>

CommandLineNext ==
  \/ \E b \in BOOLEAN : ProcessStream(b) \/ executeCallback(b) \/ OthersLock(b)
  \/ \E l \in CommandLines : RunLine(l)
  \/ \E kind \in OtherLines : ReadOther(kind)
  \/ EndOfInput \/ CompleteLine \/ LeaveVsm \/ CollapseVsm
  \/ \E running, execs, keeps \in BOOLEAN : ConsoleZone(running, execs, keeps)
  \/ DaemonDies \/ DaemonReturns

CommandLineSpec == CommandLineInit /\ [][CommandLineNext]_commandLineVars

-----------------------------------------------------------------------------
\* What the user of vsm is told holds.  A script in a pipe that ended well had no
\* command that failed, though none stopped it but its own.  A session that was
\* told that it locked the queue has the lock until it gives it back, or every
\* further command of it fails, though the daemon died and is back: no command
\* is carried out over another connection.
SessionTruthful ==
  /\ (vsm = "ended" /\ invocation = "pipe" /\ rc = "EXIT_SUCCESS") => ~vsmFailed
  /\ (vsmLocked /\ vsm \in {"read", "run", "exec"}) => (queueLock = "vsm" \/ vsmClient = "dead")
  /\ queueLock = "vsm" => vsmClient = "live"
=============================================================================
