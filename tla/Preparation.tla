----------------------------- MODULE Preparation -----------------------------
(***************************************************************************)
(* A guard makes a container (guard/guard.cpp onStart, and the commands it *)
(* runs): what it prepares before clone() and after, what the first        *)
(* process, its init, does for itself meanwhile, the two messages on the   *)
(* channel between them, and the clean-up when init exits.  Any step may   *)
(* throw.                                                                  *)
(***************************************************************************)
EXTENDS Integers, SequencesExt, FiniteSetsExt

CONSTANTS
  ProvisionTargets,  \* sequence of the declared mounts, by their targets
  UnderTarget,       \* <<a, b>>: target b is below target a
  HostMounts,        \* what is mounted on the host
  SetUps             \* the configurations: records of userns, netns, ownRoot, smack

ASSUME PreparationAssumption ==
  /\ ProvisionTargets \in Seq(STRING)
  /\ UnderTarget \subseteq ToSet(ProvisionTargets) \X ToSet(ProvisionTargets)
  /\ SetUps \subseteq [userns : BOOLEAN, netns : BOOLEAN, ownRoot : BOOLEAN, smack : BOOLEAN]
  \* start() refuses a user namespace on "/"
  /\ \A s \in SetUps : s.userns => s.ownRoot

VARIABLES
  setUp,        \* the configuration
  guardAt,      \* onStart's next step, or where it ended
  initAt,       \* init's next step
  toInit, toGuard,  \* the channel, each way: "empty", "sent", or "closed"
  did,          \* the steps done since clone()
  guardMounts,  \* what the guard mounted, in its mount namespace
  initMounts,   \* the mounts of init's namespace
  ptys          \* the guard holds terminals

preparationVars == <<setUp, guardAt, initAt, toInit, toGuard, did, guardMounts, initMounts, ptys>>

\* containerPrepPreClone
PreClone == <<"unshare", "dev", "nodes", "devpts", "ptys", "files">>
            \o ProvisionTargets \o <<"links", "subsystems", "cgroups", "relay">>
\* containerPrepPostClone
PostClone == <<"userns", "network", "smackns", "assignPid">>
GuardSteps == PreClone \o <<"clone">> \o PostClone \o <<"continue", "wait">>

\* containerPrepInClone, with PivotAndPrepRoot::execute
InClone == <<"setHostName", "pivotRoot", "cleanUpRoot", "mountStatic", "prepDev", "symlinkStatic",
             "guestTerminals", "netConfigure", "cgroupSysFs", "rlimits", "sysctl", "caps", "env", "umountOld">>
InitSteps == <<"wait", "becomeRoot">> \o InClone \o <<"ready", "exec">>

Ends == {"running", "failed", "cleaning", "reported"}

\* addMount refuses a mount that is declared already; and no mount has a step's name.
ASSUME StepsAssumption == IsInjective(GuardSteps) /\ ToSet(GuardSteps) \cap Ends = {}

PrepMounts == {"dev", "devpts"} \cup ToSet(ProvisionTargets)

PreparationTypeOK ==
  /\ setUp \in SetUps
  /\ guardAt \in ToSet(GuardSteps) \cup Ends
  /\ initAt \in ToSet(InitSteps) \cup {"none", "program", "dead"}
  /\ toInit \in {"empty", "sent", "closed"} /\ toGuard \in {"empty", "sent", "closed"}
  /\ did \subseteq ToSet(PostClone) \cup ToSet(InitSteps)
  /\ guardMounts \subseteq PrepMounts
  /\ \A m \in initMounts : m[1] \in {"own", "old"}
  /\ ptys \in BOOLEAN

PreparationInit ==
  /\ setUp \in SetUps
  /\ guardAt = "unshare" /\ initAt = "none"
  /\ toInit = "empty" /\ toGuard = "empty"
  /\ did = {} /\ guardMounts = {} /\ initMounts = {} /\ ptys = FALSE

After(steps, step) == steps[CHOOSE i \in 2 .. Len(steps) : steps[i - 1] = step]
GuardGoes == guardAt' = IF guardAt = "wait" THEN "running" ELSE After(GuardSteps, guardAt)

-----------------------------------------------------------------------------
\* What a step of the guard mounts; the other steps before clone() leave no
\* trace that matters here.
GuardMount(step) == IF step = "devpts" THEN {"devpts"} ELSE IF step = "dev" THEN {"dev"}
                    ELSE {step} \cap ToSet(ProvisionTargets)

PrepareBefore ==
  /\ guardAt \in ToSet(PreClone)
  /\ GuardGoes
  /\ guardMounts' = guardMounts \cup GuardMount(guardAt)
  /\ ptys' = (ptys \/ guardAt = "ptys")
  /\ UNCHANGED <<setUp, initAt, toInit, toGuard, did, initMounts>>

\* clone: init has a copy of the guard's mounts and of the host's.
Clone ==
  /\ guardAt = "clone"
  /\ GuardGoes
  /\ initAt' = "wait"
  /\ initMounts' = {<<"old", m>> : m \in guardMounts \cup HostMounts}
  /\ UNCHANGED <<setUp, toInit, toGuard, did, guardMounts, ptys>>

PrepareAfter ==
  /\ guardAt \in ToSet(PostClone)
  /\ GuardGoes
  /\ did' = did \cup {guardAt}
  /\ UNCHANGED <<setUp, initAt, toInit, toGuard, guardMounts, initMounts, ptys>>

Continue ==
  /\ guardAt = "continue"
  /\ GuardGoes
  /\ toInit' = "sent"
  /\ UNCHANGED <<setUp, initAt, toGuard, did, guardMounts, initMounts, ptys>>

\* read<bool>() returns when init has written.
\* Mutant: the guard reads what it has written itself.
Mutant_InitReady == toInit = "sent"

InitReady == toGuard = "sent"

\* The answer to START: init's pid, once init has said that it is ready.
Answer ==
  /\ guardAt = "wait" /\ InitReady
  /\ GuardGoes
  /\ UNCHANGED <<setUp, initAt, toInit, toGuard, did, guardMounts, initMounts, ptys>>

\* An exception leaves onStart, or init's end of the channel is closed: nothing
\* is undone, the guard's end is closed and the error is the answer.
OnStartThrows ==
  /\ guardAt \in ToSet(GuardSteps)
  /\ guardAt = "wait" => toGuard = "closed"
  /\ guardAt' = "failed"
  /\ toInit' = IF toInit = "empty" THEN "closed" ELSE toInit
  /\ UNCHANGED <<setUp, initAt, toGuard, did, guardMounts, initMounts, ptys>>

-----------------------------------------------------------------------------
\* startContainer: read<bool>() returns when the guard has written.
Released == toInit = "sent"

Own(m) == <<"own", m>>
Old(m) == <<"old", m>>

\* mountStatic: what is mounted in the new root.
StaticMounts ==
  {"proc", "procsys"}
  \cup (IF ~setUp.netns /\ setUp.userns THEN {} ELSE {"sys"})
  \cup (IF setUp.userns THEN {} ELSE {m \in {"security", "smackfs"} : Old(m) \in initMounts})

\* What a step does to init's mounts.  With "/" for a root, cleanUpRoot unmounts
\* what was mounted on it; /dev is moved there, or bound in a user namespace.
MountsAfter(step) ==
  CASE step = "pivotRoot" -> initMounts \cup {Own("root")} \cup
                             (IF setUp.ownRoot THEN {} ELSE {Own(m[2]) : m \in initMounts})
    [] step = "cleanUpRoot" -> IF setUp.ownRoot THEN initMounts
                               ELSE {m \in initMounts : m[1] = "old" \/ m = Own("root")}
    [] step = "mountStatic" -> initMounts \cup {Own(m) : m \in StaticMounts}
    [] step = "prepDev" -> (initMounts \cup {Own("dev"), Own("devpts")})
                           \ (IF setUp.userns THEN {} ELSE {Old("dev"), Old("devpts")})
    [] step = "guestTerminals" -> initMounts \cup {Own("ptmx"), Own("console"), Own("ttys")}
    [] step = "cgroupSysFs" -> initMounts \cup {Own("cgroup")}
    [] OTHER -> initMounts

InitGoes == initAt' = After(InitSteps, initAt)

WaitForGuard ==
  /\ initAt = "wait" /\ Released
  /\ InitGoes
  /\ UNCHANGED <<setUp, guardAt, toInit, toGuard, did, guardMounts, initMounts, ptys>>

\* setregid, setgroups, setreuid: in a user namespace, only once it has maps.
BecomesRoot ==
  /\ initAt = "becomeRoot"
  /\ setUp.userns => "userns" \in did
  /\ InitGoes
  /\ UNCHANGED <<setUp, guardAt, toInit, toGuard, did, guardMounts, initMounts, ptys>>

PrepareInside ==
  /\ initAt \in ToSet(InClone) \ {"umountOld"}
  /\ InitGoes
  /\ did' = did \cup {initAt}
  /\ initMounts' = MountsAfter(initAt)
  /\ UNCHANGED <<setUp, guardAt, toInit, toGuard, guardMounts, ptys>>

\* umountSubtree: one mount after the other, the deepest first; when one cannot
\* be unmounted the whole tree is detached.
UmountOld ==
  /\ initAt = "umountOld"
  /\ \E busy \in BOOLEAN :
       LET old == {m \in initMounts : m[1] = "old"}
       IN  IF busy \/ old = {} THEN /\ initMounts' = initMounts \ old
                                    /\ did' = did \cup {"umountOld"} /\ InitGoes
           ELSE /\ \E m \in old : initMounts' = initMounts \ {m}
                /\ UNCHANGED <<did, initAt>>
  /\ UNCHANGED <<setUp, guardAt, toInit, toGuard, guardMounts, ptys>>

Ready ==
  /\ initAt = "ready"
  /\ InitGoes
  /\ toGuard' = "sent"
  /\ UNCHANGED <<setUp, guardAt, toInit, did, guardMounts, initMounts, ptys>>

\* execv: the guard was told before, and may or may not have answered.
Exec ==
  /\ initAt = "exec"
  /\ initAt' = "program"
  /\ UNCHANGED <<setUp, guardAt, toInit, toGuard, did, guardMounts, initMounts, ptys>>

\* Init ends: a step throws, a read finds the channel closed, the guard kills
\* it, or its program exits.  Its namespaces go with it.
InitDies ==
  /\ initAt \notin {"none", "dead"}
  /\ initAt' = "dead"
  /\ toGuard' = IF toGuard = "empty" THEN "closed" ELSE toGuard
  /\ initMounts' = {}
  /\ UNCHANGED <<setUp, guardAt, toInit, did, guardMounts, ptys>>

-----------------------------------------------------------------------------
\* Detaching a target takes what is mounted below it.
Detached(m) == {m} \cup {n \in guardMounts : <<m, n>> \in UnderTarget}

\* onInitExit: SIGCHLD, once onStart is over.
InitExited ==
  /\ initAt = "dead" /\ guardAt \in {"running", "failed"}
  /\ guardAt' = "cleaning"
  /\ UNCHANGED <<setUp, initAt, toInit, toGuard, did, guardMounts, initMounts, ptys>>

\* containerCleanup: the provisions' mounts in their order, then the terminals,
\* then /dev; a target that is not mounted, being below one that was detached,
\* throws, and the exit is never reported.
Revert(m) ==
  /\ guardAt = "cleaning"
  /\ \A i, j \in DOMAIN ProvisionTargets : i < j /\ ProvisionTargets[j] = m => ProvisionTargets[i] \notin guardMounts
  /\ m \in ToSet(ProvisionTargets) /\ m \in guardMounts
  /\ guardMounts' = guardMounts \ Detached(m)
  /\ guardAt' = IF Detached(m) = {m} THEN "cleaning" ELSE "failed"
  /\ UNCHANGED <<setUp, initAt, toInit, toGuard, did, initMounts, ptys>>

RevertTerminals ==
  /\ guardAt = "cleaning" /\ ptys
  /\ guardMounts \cap ToSet(ProvisionTargets) = {}
  /\ ptys' = FALSE
  /\ UNCHANGED <<setUp, guardAt, initAt, toInit, toGuard, did, guardMounts, initMounts>>

RevertDev ==
  /\ guardAt = "cleaning" /\ ~ptys /\ guardMounts # {}
  /\ guardMounts' = {}
  /\ UNCHANGED <<setUp, guardAt, initAt, toInit, toGuard, did, initMounts, ptys>>

\* INIT_STOPPED is sent and the guard's service stops.
ReportExit ==
  /\ guardAt = "cleaning" /\ ~ptys /\ guardMounts = {}
  /\ guardAt' = "reported"
  /\ UNCHANGED <<setUp, initAt, toInit, toGuard, did, guardMounts, initMounts, ptys>>

PreparationNext ==
  \/ PrepareBefore \/ Clone \/ PrepareAfter \/ Continue \/ Answer \/ OnStartThrows
  \/ WaitForGuard \/ BecomesRoot \/ PrepareInside \/ UmountOld \/ Ready \/ Exec \/ InitDies
  \/ InitExited \/ (\E m \in ToSet(ProvisionTargets) : Revert(m)) \/ RevertTerminals \/ RevertDev \/ ReportExit

PreparationSpec == PreparationInit /\ [][PreparationNext]_preparationVars

-----------------------------------------------------------------------------
\* The program of a container runs only in what was made for it: its ids and
\* labels mapped, its network made, itself in its cgroups, every step of its own
\* done, and nothing of the host mounted; and START is answered with its pid only
\* if it got as far.
InitConfined ==
  /\ initAt = "program" =>
       /\ ToSet(PostClone) \cup ToSet(InClone) \subseteq did
       /\ \A m \in initMounts : m[1] = "own"
  /\ guardAt = "running" => initAt \in {"exec", "program", "dead"} /\ ToSet(PostClone) \subseteq did
=============================================================================
