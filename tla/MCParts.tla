------------------------------- MODULE MCParts -------------------------------
(***************************************************************************)
(* The parts of vasum that keep no state in common, checked in one run: a  *)
(* behaviour is one of a single part, chosen at the start, and the others  *)
(* stay as they began.                                                     *)
(***************************************************************************)
EXTENDS ZoneProvision, NetDev, Netlink, InputMonitor, Terminal,
        ContainerNetwork, Client, UserNS, Preparation, CommandLine,
        BusConnection, ZoneRequests, Attach, MCCGroups,
        Configuration

CONSTANTS f1, l1, m1, m2, ta, tb

\* Provisions: m2's target is below m1's and either may be busy; the template has m1.
MCTarget == (m1 :> ta) @@ (m2 :> tb)
MCAbove == {<<ta, tb>>}
MCTemplate == <<m1>>

\* Networks of two containers: the same bridge and the same address.
Address1 == [id |-> 1, gateway |-> TRUE]
Bridge == [type |-> "BRIDGE", hostif |-> "br0", zoneif |-> "", addrs |-> <<>>]
BridgedVeth == [type |-> "VETH_BRIDGED", hostif |-> "br0", zoneif |-> "eth0", addrs |-> <<Address1>>]
MCContainers == {"c1", "c2"}
MCCandidates == {Bridge, BridgedVeth}
MCInetAddresses == {Address1}
MCFreeNames == {"x0"}

\* Ids: every range of users, some of groups.
MCUidRanges == Ranges
MCGidRanges == [cont : {0, 1}, host : {0, 1}, num : {1, 2}]

\* Start-ups: every configuration that start() takes; p2 is below p1.
MCProvisionTargets == <<"p1", "p2">>
MCUnderTarget == {<<"p1", "p2">>}
MCHostMounts == {"proc", "smackfs", "security"}
MCSetUps == {s \in [userns : BOOLEAN, netns : BOOLEAN, ownRoot : BOOLEAN, smack : BOOLEAN] :
               s.userns => s.ownRoot}

\* Commands: one of each shape of the table, too short, well formed and misspelt.
CommandOf(cmd, words, args) == [cmd |-> cmd, words |-> words, args |-> args]
MCCommandLines ==
  {CommandOf("qlock", 1, "ok"), CommandOf("qunlock", 1, "ok"), CommandOf("list", 1, "ok"),
   CommandOf("status", 1, "ok"), CommandOf("status", 2, "ok"), CommandOf("create", 1, "ok"),
   CommandOf("create", 2, "ok"), CommandOf("console", 2, "ok"), CommandOf("net-create", 5, "bad"),
   CommandOf("net-ip-add", 5, "number"), CommandOf("net-ip-del", 5, "ok"), CommandOf("net-list", 2, "ok"),
   CommandOf("net-list", 3, "ok"), CommandOf("device-grant", 3, "ok")}

\* Containers to attach to: with and without namespaces of users and of processes.
MCNamespaces == <<"user", "mnt", "pid", "net">>
MCRequested == {{"mnt", "pid"}, {"user", "mnt", "pid", "net"}, {"mnt", "net"}, {"mnt"}}

VARIABLE part

PartsInit ==
  /\ part \in {"provisions", "netdevs", "netlink", "input", "terminals", "network", "client",
               "ids", "preparation", "commands", "bus", "requests", "attach", "groups",
               "configuration"}
  /\ ProvisionInit /\ NetInit /\ NetlinkInit /\ InputInit /\ TerminalInit
  /\ ContainerNetInit /\ ClientInit /\ UserNSInit /\ PreparationInit
  /\ CommandLineInit /\ BusInit /\ ZoneRequestsInit /\ AttachInit /\ CGroupsInit
  /\ ConfigurationInit
  \* The parts that are not chosen begin in one way only.
  /\ part # "preparation" => setUp = CHOOSE s \in SetUps : TRUE
  /\ part # "commands" => invocation = "pipe"
  /\ part # "bus" => side = "host"
  /\ part # "attach" => requested = CHOOSE r \in Requested : TRUE

PartsVars == <<part, provisionVars, netVars, netlinkVars, inputVars, terminalVars,
               containerNetVars, clientVars, userNSVars, preparationVars, commandLineVars,
               busVars, requestVars, attachVars, cgroupVars, configurationVars>>

PartsNext ==
  \/ /\ part = "provisions" /\ ProvisionNext
     /\ UNCHANGED <<part, netVars, netlinkVars, inputVars, terminalVars, containerNetVars,
                    clientVars, userNSVars, preparationVars, commandLineVars, busVars, requestVars,
                    attachVars, cgroupVars, configurationVars>>
  \/ /\ part = "netdevs" /\ NetNext
     /\ UNCHANGED <<part, provisionVars, netlinkVars, inputVars, terminalVars, containerNetVars,
                    clientVars, userNSVars, preparationVars, commandLineVars, busVars, requestVars,
                    attachVars, cgroupVars, configurationVars>>
  \/ /\ part = "netlink" /\ NetlinkNext
     /\ UNCHANGED <<part, provisionVars, netVars, inputVars, terminalVars, containerNetVars,
                    clientVars, userNSVars, preparationVars, commandLineVars, busVars, requestVars,
                    attachVars, cgroupVars, configurationVars>>
  \/ /\ part = "input" /\ InputNext
     /\ UNCHANGED <<part, provisionVars, netVars, netlinkVars, terminalVars, containerNetVars,
                    clientVars, userNSVars, preparationVars, commandLineVars, busVars, requestVars,
                    attachVars, cgroupVars, configurationVars>>
  \/ /\ part = "terminals" /\ TerminalNext
     /\ UNCHANGED <<part, provisionVars, netVars, netlinkVars, inputVars, containerNetVars,
                    clientVars, userNSVars, preparationVars, commandLineVars, busVars, requestVars,
                    attachVars, cgroupVars, configurationVars>>
  \/ /\ part = "network" /\ ContainerNetNext
     /\ UNCHANGED <<part, provisionVars, netVars, netlinkVars, inputVars, terminalVars, clientVars,
                    userNSVars, preparationVars, commandLineVars, busVars, requestVars, attachVars,
                    cgroupVars, configurationVars>>
  \/ /\ part = "client" /\ ClientNext
     /\ UNCHANGED <<part, provisionVars, netVars, netlinkVars, inputVars, terminalVars,
                    containerNetVars, userNSVars, preparationVars, commandLineVars, busVars,
                    requestVars, attachVars, cgroupVars, configurationVars>>
  \/ /\ part = "ids" /\ UserNSNext
     /\ UNCHANGED <<part, provisionVars, netVars, netlinkVars, inputVars, terminalVars,
                    containerNetVars, clientVars, preparationVars, commandLineVars, busVars,
                    requestVars, attachVars, cgroupVars, configurationVars>>
  \/ /\ part = "preparation" /\ PreparationNext
     /\ UNCHANGED <<part, provisionVars, netVars, netlinkVars, inputVars, terminalVars,
                    containerNetVars, clientVars, userNSVars, commandLineVars, busVars,
                    requestVars, attachVars, cgroupVars, configurationVars>>
  \/ /\ part = "commands" /\ CommandLineNext
     /\ UNCHANGED <<part, provisionVars, netVars, netlinkVars, inputVars, terminalVars,
                    containerNetVars, clientVars, userNSVars, preparationVars, busVars,
                    requestVars, attachVars, cgroupVars, configurationVars>>
  \/ /\ part = "bus" /\ BusNext
     /\ UNCHANGED <<part, provisionVars, netVars, netlinkVars, inputVars, terminalVars,
                    containerNetVars, clientVars, userNSVars, preparationVars, commandLineVars,
                    requestVars, attachVars, cgroupVars, configurationVars>>
  \/ /\ part = "requests" /\ ZoneRequestsNext
     /\ UNCHANGED <<part, provisionVars, netVars, netlinkVars, inputVars, terminalVars,
                    containerNetVars, clientVars, userNSVars, preparationVars, commandLineVars,
                    busVars, attachVars, cgroupVars, configurationVars>>
  \/ /\ part = "attach" /\ AttachNext
     /\ UNCHANGED <<part, provisionVars, netVars, netlinkVars, inputVars, terminalVars,
                    containerNetVars, clientVars, userNSVars, preparationVars, commandLineVars,
                    busVars, requestVars, cgroupVars, configurationVars>>
  \/ /\ part = "groups" /\ CGroupsNext
     /\ UNCHANGED <<part, provisionVars, netVars, netlinkVars, inputVars, terminalVars,
                    containerNetVars, clientVars, userNSVars, preparationVars, commandLineVars,
                    busVars, requestVars, attachVars, configurationVars>>
  \/ /\ part = "configuration" /\ ConfigurationNext
     /\ UNCHANGED <<part, provisionVars, netVars, netlinkVars, inputVars, terminalVars,
                    containerNetVars, clientVars, userNSVars, preparationVars, commandLineVars,
                    busVars, requestVars, attachVars, cgroupVars>>

PartsSpec == PartsInit /\ [][PartsNext]_PartsVars

\* Every part's state stays of its type: what its queues, lists and tables may
\* hold at most, which names refer to what, and which of its steps may be next.
PartsTypeOK ==
  /\ part = "provisions" => ProvisionTypeOK
  /\ part = "netdevs" => NetTypeOK
  /\ part = "netlink" => NetlinkTypeOK
  /\ part = "input" => InputTypeOK
  /\ part = "terminals" => TerminalTypeOK
  /\ part = "network" => ContainerNetTypeOK
  /\ part = "client" => ClientTypeOK
  /\ part = "ids" => UserNSTypeOK
  /\ part = "preparation" => PreparationTypeOK
  /\ part = "commands" => CommandLineTypeOK
  /\ part = "bus" => BusTypeOK
  /\ part = "requests" => ZoneRequestsTypeOK
  /\ part = "attach" => AttachTypeOK
  /\ part = "groups" => CGroupsTypeOK
  /\ part = "configuration" => ConfigurationTypeOK

\* What the daemon reads it reads whole and in order: a message of several parts from
\* the kernel, whatever calls the parts are taken apart in; and the keys of a device, of
\* which exactly the presses that fall within the window switch the zones.
InputsExact == ReadExact /\ SwitchExact

\* What is put into a container from outside is where it was asked to be: an attached
\* program in all the namespaces of one process, init in all the groups with their
\* parameters set, and in a zone no device and no file but those that were answered for.
EntrantsConfined == AttachedWhole /\ GroupsWhole /\ RequestsHonoured

\* What lxcpp says of a container is so: the maps of ids that a configuration took are the
\* ones that the kernel takes and translates by, and the configuration that an object shows
\* of a container that runs is the one that its init was made of.
SettingsHold == KernelAgrees /\ ShownIsRun
=============================================================================
