------------------------------- MODULE Attach -------------------------------
(***************************************************************************)
(* A program is run in a container that runs already: ContainerImpl's      *)
(* attach and commands/attach.cpp in the caller, the helper it executes    *)
(* (attach/attach-helper.cpp), which enters the namespaces of the          *)
(* container's init one by one (process.cpp), and the child which the      *)
(* helper clones as a child of the caller's.  Any of them, and init, may   *)
(* be killed at any time, and the kernel gives init's pid to another       *)
(* process once init was reaped.                                           *)
(***************************************************************************)
EXTENDS Naturals, SequencesExt

CONSTANTS
  NAMESPACES,  \* the sequence in which setns enters them, user first
  Requested    \* the configurations: the sets of namespaces a container has

ASSUME AttachAssumption == NAMESPACES \in Seq(STRING) /\ Requested \subseteq SUBSET ToSet(NAMESPACES)

VARIABLES
  requested,     \* mNamespaces of the container
  initPid,       \* who has the pid of mInitPid: "init", "zombie", "nobody", "other"
  callerAt,      \* "attach", "config", "pid", "helper", "child", then "answered" or "threw"
  helperAt, childAt,
  helperStatus, childStatus,  \* what waitpid finds: "none", "exited", "killed"
  attachConfig, pidMessage,  \* the channel each way: "empty", "sent", "closed"
  dirOf,         \* whose directory of namespaces it has opened
  nsFiles,       \* the files of namespaces the helper holds: [ns, of]
  entered,       \* the namespaces it has entered: [ns, of]
  childDid       \* what the child has done before it runs the program

attachVars == <<requested, initPid, callerAt, helperAt, childAt, helperStatus, childStatus, attachConfig,
                pidMessage, dirOf, nsFiles, entered, childDid>>

\* child()
ChildSteps == <<"caps", "env", "ids", "tty">>
HelperSteps == {"exec", "load", "openDir", "open", "enter", "write"}
\* What setns has yet to open.
Wanted == requested \ {f.ns : f \in ToSet(nsFiles) \cup entered}

AttachTypeOK ==
  /\ requested \in Requested
  /\ initPid \in {"init", "zombie", "nobody", "other"}
  /\ callerAt \in {"attach", "config", "pid", "helper", "child", "answered", "threw"}
  /\ helperAt \in HelperSteps \cup {"none", "over", "astray"}
  /\ childAt \in ToSet(ChildSteps) \cup {"none", "program", "over"}
  /\ helperStatus \in {"none", "exited", "killed", "reaped"}
  /\ childStatus \in {"none", "exited", "killed", "reaped"}
  /\ attachConfig \in {"empty", "sent", "closed"} /\ pidMessage \in {"empty", "sent", "closed"}
  /\ dirOf \in {"none", "init", "other"}
  /\ \A f \in ToSet(nsFiles) \cup entered : f.ns \in ToSet(NAMESPACES)
  /\ childDid \subseteq ToSet(ChildSteps)

AttachInit ==
  /\ requested \in Requested
  /\ initPid = "init" /\ callerAt = "attach" /\ helperAt = "none" /\ childAt = "none"
  /\ helperStatus = "none" /\ childStatus = "none" /\ attachConfig = "empty" /\ pidMessage = "empty"
  /\ dirOf = "none" /\ nsFiles = <<>> /\ entered = {} /\ childDid = {}

-----------------------------------------------------------------------------
(* The caller, which holds mStateMutex all along: RUNNING is what it knew  *)
(* of the container when it came in.                                       *)

CallerOnly == UNCHANGED <<requested, initPid, dirOf, nsFiles, entered, childDid, childAt, pidMessage>>

ForkHelper ==
  /\ callerAt = "attach" /\ callerAt' = "config" /\ helperAt' = "exec"
  /\ UNCHANGED <<helperStatus, childStatus, attachConfig>> /\ CallerOnly

\* saveToFD fails when the helper is gone.
SendConfig ==
  /\ callerAt = "config"
  /\ callerAt' = IF attachConfig = "closed" THEN "threw" ELSE "pid"
  /\ attachConfig' = IF attachConfig = "closed" THEN attachConfig ELSE "sent"
  /\ UNCHANGED <<helperAt, helperStatus, childStatus>> /\ CallerOnly

\* read<pid_t>
ReadPid ==
  /\ callerAt = "pid" /\ pidMessage # "empty"
  /\ callerAt' = IF pidMessage = "sent" THEN "helper" ELSE "threw"
  /\ UNCHANGED <<helperAt, helperStatus, childStatus, attachConfig>> /\ CallerOnly

\* waitpid throws for a process that was killed; the child is then nobody's.
WaitHelper ==
  /\ callerAt = "helper" /\ helperStatus \in {"exited", "killed"}
  /\ callerAt' = IF helperStatus = "exited" THEN "child" ELSE "threw"
  /\ helperStatus' = "reaped"
  /\ UNCHANGED <<helperAt, childStatus, attachConfig>> /\ CallerOnly

WaitChild ==
  /\ callerAt = "child" /\ childStatus \in {"exited", "killed"}
  /\ callerAt' = IF childStatus = "exited" THEN "answered" ELSE "threw"
  /\ childStatus' = "reaped"
  /\ UNCHANGED <<helperAt, helperStatus, attachConfig>> /\ CallerOnly

-----------------------------------------------------------------------------
(* The helper.                                                             *)

HelperOnly == UNCHANGED <<requested, initPid, callerAt, childStatus>>
Quietly == UNCHANGED <<helperStatus, attachConfig, pidMessage>>

\* A helper that cannot be executed throws in the forked copy of the caller, which leaves
\* attach() as the caller does, and goes on with the caller's own program.
ExecHelper(works) ==
  /\ helperAt = "exec"
  /\ IF works THEN helperAt' = "load" /\ UNCHANGED <<attachConfig, pidMessage>>
     ELSE helperAt' = "astray" /\ pidMessage' = "closed"
          /\ attachConfig' = IF attachConfig = "empty" THEN "closed" ELSE attachConfig
  /\ UNCHANGED <<helperStatus, dirOf, nsFiles, entered, childDid, childAt>> /\ HelperOnly

LoadConfig ==
  /\ helperAt = "load" /\ attachConfig = "sent" /\ helperAt' = "openDir"
  /\ UNCHANGED <<dirOf, nsFiles, entered, childDid, childAt>> /\ HelperOnly /\ Quietly

\* setns opens the directory of the namespaces of whoever has the pid by now.
OpenDir ==
  /\ helperAt = "openDir" /\ initPid \in {"init", "other"}
  /\ helperAt' = "open" /\ dirOf' = initPid
  /\ UNCHANGED <<nsFiles, entered, childDid, childAt>> /\ HelperOnly /\ Quietly

\* Each file is opened from that directory, and is that process's; init's are gone with it.
\* Mutant: each file is opened by the pid.
Mutant_FileOf == initPid

FileOf == dirOf

OpenNamespace ==
  /\ helperAt = "open"
  /\ FileOf = "init" => initPid = "init"
  /\ \E i \in DOMAIN NAMESPACES :
       /\ NAMESPACES[i] \in Wanted /\ \A j \in 1 .. i - 1 : NAMESPACES[j] \notin Wanted
       /\ nsFiles' = Append(nsFiles, [ns |-> NAMESPACES[i], of |-> FileOf])
  /\ UNCHANGED <<helperAt, dirOf, entered, childDid, childAt>> /\ HelperOnly /\ Quietly

\* A file keeps its namespace, whoever dies.
EnterNamespace ==
  /\ helperAt \in {"open", "enter"} /\ Wanted = {} /\ nsFiles # <<>>
  /\ helperAt' = "enter"
  /\ entered' = entered \cup {Head(nsFiles)} /\ nsFiles' = Tail(nsFiles)
  /\ UNCHANGED <<dirOf, childDid, childAt>> /\ HelperOnly /\ Quietly

\* chdir, then clone with CLONE_PARENT; no process is made in a pid namespace whose init is gone.
CloneChild ==
  /\ helperAt = "enter" /\ nsFiles = <<>>
  /\ "pid" \in requested /\ dirOf = "init" => initPid = "init"
  /\ helperAt' = "write" /\ childAt' = ChildSteps[1]
  /\ UNCHANGED <<dirOf, nsFiles, entered, childDid>> /\ HelperOnly /\ Quietly

WritePid ==
  /\ helperAt = "write"
  /\ pidMessage' = "sent" /\ helperAt' = "over" /\ helperStatus' = "exited"
  /\ UNCHANGED <<attachConfig, dirOf, nsFiles, entered, childDid, childAt>> /\ HelperOnly

\* An exception, whose message main prints; or a signal.
HelperFails(status) ==
  /\ helperAt \in HelperSteps \ {"exec"}
  /\ helperAt' = "over" /\ helperStatus' = status
  /\ attachConfig' = IF attachConfig = "empty" THEN "closed" ELSE attachConfig
  /\ pidMessage' = "closed" /\ nsFiles' = <<>>
  /\ UNCHANGED <<dirOf, entered, childDid, childAt>> /\ HelperOnly

-----------------------------------------------------------------------------
(* The child, whether or not the helper and the caller are still there.    *)

ChildOnly == UNCHANGED <<requested, initPid, callerAt, helperAt, helperStatus, attachConfig, pidMessage,
                         dirOf, nsFiles, entered>>

ChildPrepares ==
  /\ \E i \in DOMAIN ChildSteps :
       /\ childAt = ChildSteps[i]
       /\ childAt' = IF i = Len(ChildSteps) THEN "program" ELSE ChildSteps[i + 1]
  /\ childDid' = childDid \cup {childAt}
  /\ UNCHANGED childStatus /\ ChildOnly

\* A terminal that cannot be had, and the program's end, are an exit; an exception and a
\* signal kill.  The end of the container's init kills all of its pid namespace.
ChildEnds(status) ==
  /\ childAt \notin {"none", "over"}
  /\ status = "exited" => childAt \in {"tty", "program"}
  /\ childAt' = "over" /\ childStatus' = status
  /\ UNCHANGED childDid /\ ChildOnly

\* Init exits, is reaped by the guard, and its pid is given away.
InitPidTurns ==
  /\ initPid' = CASE initPid = "init" -> "zombie" [] initPid = "zombie" -> "nobody" [] OTHER -> "other"
  /\ initPid # "other"
  /\ LET killed == childAt \notin {"none", "over"} /\ "pid" \in requested /\ dirOf = "init"
     IN  /\ childAt' = IF killed THEN "over" ELSE childAt
         /\ childStatus' = IF killed THEN "killed" ELSE childStatus
  /\ UNCHANGED <<requested, callerAt, helperAt, helperStatus, attachConfig, pidMessage, dirOf, nsFiles,
                 entered, childDid>>

AttachNext ==
  \/ ForkHelper \/ SendConfig \/ ReadPid \/ WaitHelper \/ WaitChild
  \/ \E works \in BOOLEAN : ExecHelper(works)
  \/ LoadConfig \/ OpenDir \/ OpenNamespace \/ EnterNamespace \/ CloneChild \/ WritePid \/ ChildPrepares
  \/ \E status \in {"exited", "killed"} : HelperFails(status) \/ ChildEnds(status)
  \/ InitPidTurns

AttachSpec == AttachInit /\ [][AttachNext]_attachVars

-----------------------------------------------------------------------------
\* An attached program runs in all the namespaces that the container has, and all of them
\* are of one process, though init may die and its pid be given away while they are
\* entered: of the container's init whenever it lived when the helper looked, and it is
\* prepared in full.  And a code is answered only for a child that exited.
AttachedWhole ==
  /\ childAt = "program" =>
       /\ entered = {[ns |-> ns, of |-> dirOf] : ns \in requested}
       /\ childDid = ToSet(ChildSteps)
  /\ ("pid" \in requested /\ dirOf = "init" /\ childAt \notin {"none", "over"}) => initPid = "init"
  /\ callerAt = "answered" => childAt = "over"
=============================================================================
