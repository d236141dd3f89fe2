---------------------------- MODULE ZoneRequests ----------------------------
(***************************************************************************)
(* What the daemon does inside one running zone for a client: it grants    *)
(* and revokes devices through the devices controller (common/lxc/         *)
(* cgroup.cpp) and has a file created by a launcher it attaches to the     *)
(* zone (common/lxc/zone.cpp, common/launcher/launcher.cpp), which sends   *)
(* the descriptor back over a socket.  The handlers run one at a time,     *)
(* under mMutex; the zone's own processes do as they like.                 *)
(***************************************************************************)
EXTENDS Naturals

CONSTANTS Devices, Paths, MaxRequests

ASSUME ZoneRequestsAssumption == MaxRequests \in Nat

VARIABLES
  lxcState,     \* the zone's state to LXC: "stopped", "running", "frozen"
  deviceNodes,  \* the devices that the host's /dev has
  access,       \* per device, what its cgroup allows beyond the template: of "r", "w", "m"
  promised,     \* what the answers to clients since the zone's start amount to (ghost)
  zoneFiles,    \* the paths that exist in the zone
  request,      \* the file that is being created, where it has got to, and who made it
  clientFile,   \* [path, fresh]: the last descriptor a client was given
  requests

requestVars == <<lxcState, deviceNodes, access, promised, zoneFiles, request, clientFile, requests>>

AllAccess == {"r", "w", "m"}
NoAccess == [d \in Devices |-> {}]
NoRequest == [path |-> "none", at |-> "idle", made |-> FALSE]

ZoneRequestsTypeOK ==
  /\ lxcState \in {"stopped", "running", "frozen"}
  /\ deviceNodes \subseteq Devices
  /\ access \in [Devices -> SUBSET AllAccess] /\ promised \in [Devices -> SUBSET AllAccess]
  /\ zoneFiles \subseteq Paths
  /\ request \in [path : Paths \cup {"none"}, at : {"idle", "attach", "launcher", "sent", "over"},
                  made : BOOLEAN]
  /\ clientFile \in [path : Paths \cup {"none"}, fresh : BOOLEAN]
  /\ requests \in 0 .. MaxRequests

ZoneRequestsInit ==
  /\ lxcState = "stopped" /\ deviceNodes = Devices
  /\ access = NoAccess /\ promised = NoAccess
  /\ zoneFiles = {} /\ request = NoRequest
  /\ clientFile = [path |-> "none", fresh |-> TRUE] /\ requests = 0

FreeToServe == request.at = "idle" /\ requests < MaxRequests

-----------------------------------------------------------------------------
(* Devices.                                                                *)

\* What O_RDWR, O_RDONLY and O_WRONLY stand for; other flags are refused.
\* Mutant: a device that is revoked loses what a grant with no flags gives.
Mutant_flagsToPermissions(grant, flags) ==
  CASE flags = "O_RDWR" -> AllAccess
    [] flags = "O_RDONLY" -> {"r", "m"}
    [] flags = "O_WRONLY" -> {"w", "m"}
    [] OTHER -> {}

flagsToPermissions(grant, flags) ==
  CASE ~grant \/ flags = "O_RDWR" -> AllAccess
    [] grant /\ flags = "O_RDONLY" -> {"r", "m"}
    [] grant /\ flags = "O_WRONLY" -> {"w", "m"}
    [] OTHER -> {}

\* devices.allow adds to what is allowed, devices.deny takes from it.
Allowing(d, grant, perms) == IF grant THEN access[d] \cup perms ELSE access[d] \ perms

\* A grant or a revocation: the zone runs or is frozen, the node is a device, the flags are known,
\* the write succeeds.  Where it does not, and where the node is gone, what utils
\* throws passes through the handler.
SetDeviceAccess(d, grant, flags, writes) ==
  /\ FreeToServe /\ requests' = requests + 1
  /\ LET perms == flagsToPermissions(grant, flags)
     IN  IF lxcState # "stopped" /\ d \in deviceNodes /\ perms # {} /\ writes
         THEN /\ access' = [access EXCEPT ![d] = Allowing(d, grant, perms)]
              /\ promised' = [promised EXCEPT ![d] =
                   CASE ~grant -> {}
                     [] grant /\ flags = "O_RDWR" -> AllAccess
                     [] grant /\ flags = "O_RDONLY" -> @ \cup {"r", "m"}
                     [] grant /\ flags = "O_WRONLY" -> @ \cup {"w", "m"}]
         ELSE UNCHANGED <<access, promised>>
  /\ UNCHANGED <<lxcState, deviceNodes, zoneFiles, request, clientFile>>

NodeAppears(d) ==
  /\ deviceNodes' = IF d \in deviceNodes THEN deviceNodes \ {d} ELSE deviceNodes \cup {d}
  /\ UNCHANGED <<lxcState, access, promised, zoneFiles, request, clientFile, requests>>

-----------------------------------------------------------------------------
(* Files.                                                                  *)

\* handleCreateFileCall asks only that the zone exists; a socket pair that cannot be had
\* is an error.
CreateFile(path, fails) ==
  /\ FreeToServe /\ requests' = requests + 1
  /\ request' = IF fails THEN request ELSE [path |-> path, at |-> "attach", made |-> FALSE]
  /\ UNCHANGED <<lxcState, deviceNodes, access, promised, zoneFiles, clientFile>>

\* attach() moves the launcher into the zone's cgroup: into a frozen zone it waits for
\* the thaw, with mMutex held; it fails where nothing runs.
AttachLauncher ==
  /\ request.at = "attach" /\ lxcState # "frozen"
  /\ request' = [request EXCEPT !.at = IF lxcState = "running" THEN "launcher" ELSE "over"]
  /\ UNCHANGED <<lxcState, deviceNodes, access, promised, zoneFiles, clientFile, requests>>

\* The launcher opens the path for itself only, and sends the descriptor; an exception closes both
\* and is its exit status.
\* Mutant: a file that exists is opened.
Mutant_OpensNew(path) == TRUE

OpensNew(path) == path \notin zoneFiles

LauncherRuns ==
  /\ request.at = "launcher" /\ lxcState = "running"
  /\ request' = IF OpensNew(request.path)
                THEN [request EXCEPT !.at = "sent", !.made = request.path \notin zoneFiles]
                ELSE [request EXCEPT !.at = "over"]
  /\ zoneFiles' = IF OpensNew(request.path) THEN zoneFiles \cup {request.path} ELSE zoneFiles
  /\ UNCHANGED <<lxcState, deviceNodes, access, promised, clientFile, requests>>

\* runInZone waits for the launcher and createFile ignores what it says: the host reads its
\* end of the socket.  Nothing there: fdRecv throws, through the handler.
ReceiveFile ==
  /\ request.at \in {"sent", "over"} /\ request' = NoRequest
  /\ clientFile' = IF request.at = "sent" THEN [path |-> request.path, fresh |-> request.made] ELSE clientFile
  /\ UNCHANGED <<lxcState, deviceNodes, access, promised, zoneFiles, requests>>

-----------------------------------------------------------------------------
(* The zone.                                                               *)

\* LXC makes the cgroup anew at each start.  The zone's end is the launcher's too.
ZoneTurns(to) ==
  /\ \/ lxcState = "stopped" /\ to = "running"
     \/ lxcState = "running" /\ to \in {"frozen", "stopped"}
     \/ lxcState = "frozen" /\ to = "running"
  /\ lxcState' = to
  /\ access' = IF to = "stopped" THEN NoAccess ELSE access
  /\ promised' = IF to = "stopped" THEN NoAccess ELSE promised
  /\ request' = IF to = "stopped" /\ request.at = "launcher" THEN [request EXCEPT !.at = "over"] ELSE request
  /\ UNCHANGED <<deviceNodes, zoneFiles, clientFile, requests>>

\* The zone's processes make files and remove them.
ZoneMakes(path) ==
  /\ lxcState = "running"
  /\ zoneFiles' = IF path \in zoneFiles THEN zoneFiles \ {path} ELSE zoneFiles \cup {path}
  /\ UNCHANGED <<lxcState, deviceNodes, access, promised, request, clientFile, requests>>

ZoneRequestsNext ==
  \/ \E d \in Devices :
       \/ NodeAppears(d)
       \/ \E grant, writes \in BOOLEAN, flags \in {"O_RDWR", "O_RDONLY", "O_WRONLY", "other"} :
            SetDeviceAccess(d, grant, flags, writes)
  \/ \E path \in Paths : ZoneMakes(path) \/ \E fails \in BOOLEAN : CreateFile(path, fails)
  \/ AttachLauncher \/ LauncherRuns \/ ReceiveFile
  \/ \E to \in {"running", "frozen", "stopped"} : ZoneTurns(to)

ZoneRequestsSpec == ZoneRequestsInit /\ [][ZoneRequestsNext]_requestVars

-----------------------------------------------------------------------------
\* A zone may use of every device what the answers since its start say, and no more:
\* grants add up, a revocation takes all of them back.  And a client that was given a
\* descriptor was given one of a file that did not exist before its request.
RequestsHonoured ==
  /\ \A d \in Devices : access[d] = promised[d]
  /\ clientFile.fresh
=============================================================================
