------------------------------- MODULE NetDev -------------------------------
(***************************************************************************)
(* The zones' network devices, server/netdev.cpp: what the netdev calls do *)
(* to the kernel, one netlink message or ioctl after another.  The calls   *)
(* run one at a time, on the worker; in between zones die, other programs  *)
(* of the host make devices, and the daemon may be killed.                 *)
(***************************************************************************)
EXTENDS Integers, FiniteSets

CONSTANTS
  NetZones,    \* zones that may run: each has a network namespace while it does
  Bridges,     \* bridges of the host
  PhysDevs,    \* physical devices
  ZoneDevs,    \* names clients give the devices they create
  NumVeths,    \* the names veth01, veth02, ...: a bound on pairs at a time
  Addresses    \* that may be set on a device

VethNames == 1 .. NumVeths

ASSUME NetDevAssumption ==
  /\ NumVeths \in Nat \ {0}
  /\ Bridges \cap PhysDevs = {} /\ ZoneDevs \cap (Bridges \cup PhysDevs) = {} /\ "none" \notin Bridges
  /\ "host" \notin NetZones /\ VethNames \cap (Bridges \cup PhysDevs \cup ZoneDevs) = {}

VARIABLES
  netns,     \* the zones that run
  links,     \* devices made for a zone, and physical ones, with their namespace
  ports,     \* the host's end of each veth pair: its bridge, or "none", and whether it is up
  taken,     \* names veth0N other programs have
  job,       \* the call the worker is in and what it does next
  stray      \* pairs a dead daemon, or a rollback that failed, left (ghost)

netVars == <<netns, links, ports, taken, job, stray>>

Namespaces == NetZones \cup {"host"}
Idle == [at |-> "idle"]
Links == [ns : Namespaces, name : ZoneDevs \cup PhysDevs, kind : {"veth", "macvlan", "phys"},
          port : VethNames \cup {0}, ips : SUBSET Addresses]
Ports == [bridge : Bridges \cup {"none"}, up : BOOLEAN]
Jobs == [at : {"create", "attach", "up", "move", "rollback"}, kind : {"veth", "macvlan", "phys"},
         zone : NetZones, dev : ZoneDevs \cup PhysDevs, on : Bridges \cup PhysDevs, port : VethNames \cup {0}]

NetTypeOK ==
  /\ netns \subseteq NetZones
  /\ links \subseteq Links
  /\ \E used \in SUBSET VethNames : ports \in [used -> Ports]
  /\ taken \subseteq VethNames
  /\ job \in Jobs \cup {Idle}
  /\ stray \subseteq VethNames

NetInit ==
  /\ netns = {}
  /\ links = {[ns |-> "host", name |-> p, kind |-> "phys", port |-> 0, ips |-> {}] : p \in PhysDevs}
  /\ ports = <<>> /\ taken = {} /\ job = Idle /\ stray = {}

\* listNetdev of a namespace; the host has its bridges and veths too.
listNetdev(ns) == {l.name : l \in {k \in links : k.ns = ns}}
hostNames == listNetdev("host") \cup Bridges \cup DOMAIN ports \cup taken

\* destroyNetdev, by the name of the host's end: the kernel removes both ends.
Without(S) == [p \in DOMAIN ports \ S |-> ports[p]]
dropPort(p) == /\ ports' = Without({p})
               /\ links' = {l \in links : l.port # p}

-----------------------------------------------------------------------------
(* Calls that create: createVeth, createMacvlan, movePhys.                 *)

\* The kernel may refuse each step, for reasons of its own too: an exception.
Finish == job' = Idle
Goto(step) == job' = [job EXCEPT !.at = step]

\* getUniqueVethName: the first name no device of the host has.
uniqueVeth == CHOOSE p \in VethNames \ hostNames : \A q \in VethNames \ hostNames : p <= q

CreateNetdevVeth(z, dev, b) ==
  /\ job = Idle
  /\ VethNames \ hostNames # {}    \* bound
  /\ job' = [at |-> "create", kind |-> "veth", zone |-> z, dev |-> dev, on |-> b, port |-> uniqueVeth]
  /\ UNCHANGED <<netns, links, ports, taken, stray>>

CreateNetdevMacvlan(z, dev, master) ==
  /\ job = Idle
  /\ job' = [at |-> "create", kind |-> "macvlan", zone |-> z, dev |-> dev, on |-> master, port |-> 0]
  /\ UNCHANGED <<netns, links, ports, taken, stray>>

\* movePhys has no device to create and so nothing to roll back.
CreateNetdevPhys(z, p) ==
  /\ job = Idle
  /\ job' = [at |-> "move", kind |-> "phys", zone |-> z, dev |-> p, on |-> p, port |-> 0]
  /\ UNCHANGED <<netns, links, ports, taken, stray>>

NewLink == [ns |-> "host", name |-> job.dev, kind |-> job.kind, port |-> job.port, ips |-> {}]

\* RTM_NEWLINK with NLM_F_EXCL, in the host's namespace: outside the try block,
\* when it fails there is nothing to roll back.
CreateLink(refused) ==
  /\ job.at = "create"
  /\ IF \/ refused \/ {job.dev, job.port} \cap hostNames # {}
        \/ job.kind = "macvlan" /\ job.on \notin hostNames
     THEN Finish /\ UNCHANGED <<links, ports>>
     ELSE /\ links' = links \cup {NewLink}
          /\ IF job.kind = "veth"
             THEN /\ ports' = [p \in DOMAIN ports \cup {job.port} |->
                                 IF p = job.port THEN [bridge |-> "none", up |-> FALSE] ELSE ports[p]]
                  /\ Goto("attach")
             ELSE UNCHANGED ports /\ Goto("up")
  /\ UNCHANGED <<netns, taken, stray>>

\* attachToBridge: SIOCBRADDIF fails on a device that is no bridge.
AttachToBridge(refused) ==
  /\ job.at = "attach"
  /\ IF refused \/ job.on \notin Bridges
     THEN Goto("rollback") /\ UNCHANGED ports
     ELSE Goto("up") /\ ports' = [ports EXCEPT ![job.port].bridge = job.on]
  /\ UNCHANGED <<netns, links, taken, stray>>

\* up: of the host's end of a pair, or of the macvlan.
SetUp(refused) ==
  /\ job.at = "up"
  /\ IF refused THEN Goto("rollback") /\ UNCHANGED ports
     ELSE /\ Goto("move")
          /\ ports' = IF job.kind = "veth" THEN [ports EXCEPT ![job.port].up = TRUE] ELSE ports
  /\ UNCHANGED <<netns, links, taken, stray>>

Mine(l) == l.ns = "host" /\ l.name = job.dev

\* moveToNS, by the pid of the zone's init: ESRCH when it is gone, EEXIST when
\* the zone has a device of that name, no such index when the host has none.
MoveToNS(refused) ==
  /\ job.at = "move"
  /\ IF \/ refused \/ job.zone \notin netns
        \/ job.dev \in listNetdev(job.zone) \/ job.dev \notin listNetdev("host")
     THEN /\ IF job.kind = "phys" THEN Finish ELSE Goto("rollback")
          /\ UNCHANGED links
     ELSE /\ links' = {IF Mine(l) THEN [l EXCEPT !.ns = job.zone] ELSE l : l \in links}
          /\ Finish
  /\ UNCHANGED <<netns, ports, taken, stray>>

\* The catch block: the error of a rollback that fails is only logged.
Mutant_Rollback(refused) ==
  /\ job.at = "rollback"
  /\ Finish
  /\ UNCHANGED <<netns, links, ports, taken, stray>>

Rollback(refused) ==
  /\ job.at = "rollback"
  /\ Finish
  /\ IF refused
     THEN /\ stray' = stray \cup (IF job.kind = "veth" THEN {job.port} ELSE {})
          /\ UNCHANGED <<links, ports>>
     ELSE /\ IF job.kind = "veth" THEN dropPort(job.port)
             ELSE links' = {l \in links : ~Mine(l)} /\ UNCHANGED ports
          /\ UNCHANGED stray
  /\ UNCHANGED <<netns, taken>>

-----------------------------------------------------------------------------
(* The other calls: one zone's namespace, entered by its init's pid.       *)

Of(z, dev) == {l \in links : l.ns = z /\ l.name = dev}

\* Zone's calls go by its init's pid: of one that does not run there is no such namespace.
Entered(z) == z \in netns

\* destroyNetdev in the zone.
DestroyNetdev(z, dev) ==
  /\ job = Idle
  /\ IF Entered(z) /\ Of(z, dev) # {} /\ dev \notin PhysDevs
     THEN /\ links' = links \ Of(z, dev)
          /\ ports' = Without({l.port : l \in Of(z, dev)})
          /\ stray' = stray \ {l.port : l \in Of(z, dev)}
     ELSE UNCHANGED <<links, ports, stray>>
  /\ UNCHANGED <<netns, taken, job>>

\* setIpAddresses: what the device has already is refused, EEXIST.
AlreadySet(z, dev, ips) == UNION {ips \cap l.ips : l \in Of(z, dev)}

\* setAttrs: the addresses are set one message each, after the link's own
\* attributes; those before the one that fails stay.
SetAttrs(z, dev, ips, failing) ==
  /\ job = Idle
  /\ failing \subseteq ips
  /\ AlreadySet(z, dev, ips) \subseteq failing
  /\ IF Entered(z) /\ Of(z, dev) # {}
     THEN \E set \in SUBSET (ips \ failing) :
            /\ failing = {} => set = ips
            /\ links' = (links \ Of(z, dev)) \cup {[l EXCEPT !.ips = @ \cup set] : l \in Of(z, dev)}
     ELSE UNCHANGED links
  /\ UNCHANGED <<netns, ports, taken, job, stray>>

DeleteIpAddress(z, dev, ip) ==
  /\ job = Idle
  /\ IF Entered(z) /\ \E l \in Of(z, dev) : ip \in l.ips
     THEN /\ links' = (links \ Of(z, dev)) \cup {[l EXCEPT !.ips = @ \ {ip}] : l \in Of(z, dev)}
     ELSE UNCHANGED links
  /\ UNCHANGED <<netns, ports, taken, job, stray>>

-----------------------------------------------------------------------------
(* What else happens.                                                      *)

NetZoneStarts(z) ==
  /\ job = Idle /\ z \notin netns
  /\ netns' = netns \cup {z}
  /\ UNCHANGED <<links, ports, taken, job, stray>>

\* The namespace goes with the zone's last process: virtual devices with it (a
\* veth takes its peer along), physical ones return to the host.
NetZoneDies(z) ==
  /\ z \in netns /\ netns' = netns \ {z}
  /\ LET gone == {l \in links : l.ns = z /\ l.kind # "phys"}
     IN  /\ links' = {IF l.ns = z THEN [l EXCEPT !.ns = "host", !.ips = {}] ELSE l : l \in links \ gone}
         /\ ports' = Without({l.port : l \in gone})
         /\ stray' = stray \ {l.port : l \in gone}
  /\ UNCHANGED <<taken, job>>

OthersTake(p) ==
  /\ p \notin hostNames /\ taken' = taken \cup {p}
  /\ UNCHANGED <<netns, links, ports, job, stray>>

OthersRelease(p) ==
  /\ p \in taken /\ taken' = taken \ {p}
  /\ UNCHANGED <<netns, links, ports, job, stray>>

\* The daemon dies within a call; the next one looks for nothing it left.
NetCrash ==
  /\ job # Idle
  /\ job' = Idle
  /\ stray' = stray \cup ({job.port} \cap DOMAIN ports)
  /\ UNCHANGED <<netns, links, ports, taken>>

NetNext ==
  \/ \E z \in NetZones :
       \/ \E dev \in ZoneDevs, on \in Bridges \cup PhysDevs :
            CreateNetdevVeth(z, dev, on) \/ CreateNetdevMacvlan(z, dev, on)
       \/ \E p \in PhysDevs : CreateNetdevPhys(z, p)
       \/ \E dev \in ZoneDevs \cup PhysDevs :
            \/ DestroyNetdev(z, dev)
            \/ \E ips \in SUBSET Addresses, failing \in SUBSET Addresses : SetAttrs(z, dev, ips, failing)
            \/ \E ip \in Addresses : DeleteIpAddress(z, dev, ip)
       \/ NetZoneStarts(z) \/ NetZoneDies(z)
  \/ \E refused \in BOOLEAN :
       \/ CreateLink(refused) \/ AttachToBridge(refused) \/ SetUp(refused)
       \/ MoveToNS(refused) \/ Rollback(refused)
  \/ \E p \in VethNames : OthersTake(p) \/ OthersRelease(p)
  \/ NetCrash

NetSpec == NetInit /\ [][NetNext]_netVars

-----------------------------------------------------------------------------
\* Between calls every veth pair is whole: its host end is up and on a bridge,
\* its other end in a zone that runs.  Whatever fails on the way, zones that die
\* and names others take included, leaves no half, except for what a dead daemon
\* or a rollback that failed left.
NoHalfPairs ==
  \A p \in DOMAIN ports :
    \/ p \in stray
    \/ job # Idle /\ job.port = p
    \/ /\ ports[p].up /\ ports[p].bridge # "none"
       /\ \E l \in links : l.port = p /\ l.ns \in netns
=============================================================================
