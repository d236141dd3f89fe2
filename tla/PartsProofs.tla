----------------------------- MODULE PartsProofs ------------------------------
(***************************************************************************)
(* Proofs about the parts together: a behaviour of MCParts is one of each  *)
(* part, so what is proved of a part holds in it, for every value of the   *)
(* constants.                                                              *)
(***************************************************************************)
EXTENDS MCParts, FrontProofs, NetworkProofs, GuardProofs

\* Each part takes a step of its own or none.
EachSteps ==
  /\ [ProvisionNext]_provisionVars /\ [NetNext]_netVars /\ [NetlinkNext]_netlinkVars
  /\ [InputNext]_inputVars /\ [TerminalNext]_terminalVars /\ [ContainerNetNext]_containerNetVars
  /\ [ClientNext]_clientVars /\ [UserNSNext]_userNSVars /\ [PreparationNext]_preparationVars
  /\ [CommandLineNext]_commandLineVars /\ [BusNext]_busVars /\ [ZoneRequestsNext]_requestVars
  /\ [AttachNext]_attachVars /\ [CGroupsNext]_cgroupVars /\ [ConfigurationNext]_configurationVars

\* Of the parts only the one that was chosen takes a step.
LEMMA PartsStep ==
  ASSUME [PartsNext]_PartsVars
  PROVE  EachSteps
  BY DEF PartsNext, PartsVars, EachSteps

\* The parts keep no state in common: each behaves as its own specification says.
THEOREM PartsAreParts ==
  PartsSpec => /\ ProvisionSpec /\ NetSpec /\ NetlinkSpec /\ InputSpec /\ TerminalSpec
               /\ ContainerNetSpec /\ ClientSpec /\ UserNSSpec /\ PreparationSpec /\ CommandLineSpec
               /\ BusSpec /\ ZoneRequestsSpec /\ AttachSpec /\ CGroupsSpec /\ ConfigurationSpec
  <1>1. PartsInit => /\ ProvisionInit /\ NetInit /\ NetlinkInit /\ InputInit /\ TerminalInit
                     /\ ContainerNetInit /\ ClientInit /\ UserNSInit /\ PreparationInit /\ CommandLineInit
                     /\ BusInit /\ ZoneRequestsInit /\ AttachInit /\ CGroupsInit /\ ConfigurationInit
    BY DEF PartsInit
  <1>2. [PartsNext]_PartsVars => EachSteps
    BY PartsStep
  <1>. QED
    BY <1>1, <1>2, PTL DEF EachSteps, PartsSpec, ProvisionSpec, NetSpec, NetlinkSpec, InputSpec, TerminalSpec,
       ContainerNetSpec, ClientSpec, UserNSSpec, PreparationSpec, CommandLineSpec, BusSpec, ZoneRequestsSpec,
       AttachSpec, CGroupsSpec, ConfigurationSpec

\* For any zones, devices, messages, containers and files, the queues, lists and tables of every
\* part stay what its code takes them for: the names in them refer to what there is, and the
\* bounds that the code tests hold.
THEOREM PartsAreTyped == PartsSpec => []PartsTypeOK
  <1>1. PairsInv => NetTypeOK
    BY DEF PairsInv
  <1>2. CallInv => ClientTypeOK
    BY DEF CallInv
  <1>3. IdsInv => UserNSTypeOK
    BY DEF IdsInv, BoundedMap, UserNSTypeOK
  <1>4. SessionInv => CommandLineTypeOK
    BY DEF SessionInv
  <1>5. ConnectionInv => BusTypeOK
    BY DEF ConnectionInv
  <1>6. NetSpec => []NetTypeOK
    BY <1>1, PairsInit, PairsStep, PTL DEF NetSpec
  <1>7. UserNSSpec => []UserNSTypeOK
    BY <1>3, IdsInit, IdsStep, PTL DEF UserNSSpec
  <1>8. /\ ProvisionTypeOK /\ NetTypeOK /\ NetlinkTypeOK /\ InputTypeOK /\ TerminalTypeOK
        /\ ContainerNetTypeOK /\ ClientTypeOK /\ UserNSTypeOK /\ PreparationTypeOK /\ CommandLineTypeOK
        /\ BusTypeOK /\ ZoneRequestsTypeOK /\ AttachTypeOK /\ CGroupsTypeOK /\ ConfigurationTypeOK
        => PartsTypeOK
    BY DEF PartsTypeOK
  <1>. QED
    BY <1>2, <1>4, <1>5, <1>6, <1>7, <1>8, PartsAreParts, ProvisionsAreKept, NetlinkExact, InputExact,
       RelaysAreSound, RunningIsWired, CallInvariant, PreparationConfines, SessionInvariant,
       ConnectionInvariant, ZoneRequestsHonoured, AttachWhole, ControlGroupsWhole, ConfigurationShown, PTL

\* What the daemon reads it reads whole and in order: the parts of an answer from the kernel,
\* whatever calls of netlink-message.cpp take them apart, and of the keys that
\* input-monitor.cpp reads exactly the presses within the window.
THEOREM InputsAreExact == PartsSpec => []InputsExact
  <1>1. ReadExact /\ SwitchExact => InputsExact
    BY DEF InputsExact
  <1>. QED
    BY <1>1, PartsAreParts, NetlinkExact, InputExact, PTL

\* A program that attach.cpp puts into a container is in all the namespaces of one process,
\* init is in all the groups that its configuration asks for, and of the requests about files
\* and devices a zone has what was answered.
THEOREM EntrantsAreConfined == PartsSpec => []EntrantsConfined
  <1>1. AttachedWhole /\ GroupsWhole /\ RequestsHonoured => EntrantsConfined
    BY DEF EntrantsConfined
  <1>. QED
    BY <1>1, PartsAreParts, AttachWhole, ControlGroupsWhole, ZoneRequestsHonoured, PTL

\* The library and the kernel map the ids of a container that runs alike, and the
\* configuration that an object shows of it is the one that its init was made of.
THEOREM SettingsAreHeld == PartsSpec => []SettingsHold
  <1>1. KernelAgrees /\ ShownIsRun => SettingsHold
    BY DEF SettingsHold
  <1>. QED
    BY <1>1, PartsAreParts, IdsAgree, ConfigurationShown, PTL
=============================================================================
