--------------------------- MODULE NetworkProofs ----------------------------
(***************************************************************************)
(* Proofs about the network: the devices of a zone (NetDev), for every set *)
(* of zones, devices and addresses and any number of pairs, the netlink    *)
(* requests under them (Netlink), for answers of any size in any           *)
(* datagrams, and the interfaces of lxcpp containers (ContainerNetwork),   *)
(* for any containers, configurations and order of their guards' requests. *)
(***************************************************************************)
EXTENDS NetDev, Netlink, ContainerNetwork, SequenceLemmas

-----------------------------------------------------------------------------
(* The devices of zones: no veth pair is left half made.                   *)

-----------------------------------------------------------------------------
(* The pairs and the call that makes one.                                  *)

Whole(p) ==
  /\ ports[p].up /\ ports[p].bridge # "none"
  /\ \E l \in links : l.port = p /\ l.ns \in netns

\* A link is an end of a pair that is there, and the only one.
EndsPaired ==
  /\ \A l \in links : l.port # 0 => l.port \in DOMAIN ports /\ l.kind # "phys"
  /\ \A l, k \in links : l.port = k.port /\ l.port # 0 => l.ns = k.ns /\ l.name = k.name

\* What a call that makes a pair has done so far, by its next step.
PairSoFar ==
  job # Idle =>
    IF job.kind # "veth" THEN job.port = 0 /\ job.at # "attach"
    ELSE /\ job.port \in VethNames
         /\ IF job.at = "create" THEN job.port \notin DOMAIN ports
            ELSE /\ job.port \in DOMAIN ports
                 /\ \E l \in links : l.ns = "host" /\ l.name = job.dev /\ l.port = job.port
         /\ job.at \in {"up", "move"} => ports[job.port].bridge # "none"
         /\ job.at = "move" => ports[job.port].up

PairsInv ==
  /\ NetTypeOK
  /\ EndsPaired
  /\ PairSoFar
  /\ \A p \in DOMAIN ports : p \in stray \/ (job # Idle /\ job.port = p) \/ Whole(p)

LEMMA UniqueVethIsFree ==
  ASSUME VethNames \ hostNames # {}
  PROVE  uniqueVeth \in VethNames \ hostNames
  <1>. DEFINE S == VethNames \ hostNames
              before == OpToRel(<, Nat)
  <1>0. S \in SUBSET Nat /\ S # {}
    BY NetDevAssumption DEF VethNames
  <1>1. \A m, n \in Nat : n < m => <<n, m>> \in before
    BY DEF OpToRel
  <1>2. IsWellFoundedOn(before, Nat)
    BY NatLessThanWellFounded
  <1>. HIDE DEF before, S
  <1>3. PICK m \in S : \A n \in S : ~(<<n, m>> \in before)
    BY <1>0, <1>2, WFMin
  <1>4. ASSUME NEW n \in S PROVE m <= n
    <2>1. m \in Nat /\ n \in Nat
      BY <1>0
    <2>2. ~(n < m)
      BY <1>1, <1>3, <2>1
    <2>. QED
      BY <2>1, <2>2
  <1>5. (CHOOSE p \in S : \A q \in S : p <= q) \in S
    BY <1>4
  <1>. QED
    BY <1>5 DEF uniqueVeth, S

LEMMA Shapes ==
  ASSUME NetTypeOK
  PROVE  /\ 0 \notin VethNames /\ "host" \notin netns
         /\ DOMAIN ports \subseteq VethNames /\ \A p \in DOMAIN ports : ports[p] \in Ports
         /\ \A l \in links : l \in Links
         /\ job \in Jobs \/ job = Idle
         /\ Idle.at = "idle" /\ (job \in Jobs => job # Idle)
  <1>1. 0 \notin VethNames /\ "host" \notin netns
    BY NetDevAssumption DEF NetTypeOK, VethNames
  <1>2. DOMAIN ports \subseteq VethNames /\ \A p \in DOMAIN ports : ports[p] \in Ports
    BY DEF NetTypeOK
  <1>3. Idle.at = "idle" /\ (job \in Jobs => job.at # "idle")
    BY DEF Jobs, Idle
  <1>. QED
    BY <1>1, <1>2, <1>3 DEF NetTypeOK

LEMMA ForJobs ==
  ASSUME NetTypeOK, job.at \in {"create", "attach", "up", "move", "rollback"}
  PROVE  job \in Jobs /\ job # Idle
  BY DEF NetTypeOK, Idle, Jobs

\* Devices that keep their place, and which have other addresses.
Same(k, l) == k.ns = l.ns /\ k.name = l.name /\ k.kind = l.kind /\ k.port = l.port

LEMMA Readdressed ==
  ASSUME PairsInv, UNCHANGED <<netns, ports, taken, job, stray>>,
         links' \subseteq Links,
         \A l \in links : \E k \in links' : Same(k, l),
         \A k \in links' : \E l \in links : Same(k, l)
  PROVE  PairsInv'
  <1>1. NetTypeOK'
    BY DEF PairsInv, NetTypeOK
  <1>2. EndsPaired'
    BY DEF PairsInv, EndsPaired, Same
  <1>3. PairSoFar'
    BY DEF PairsInv, PairSoFar, Same
  <1>4. \A p \in DOMAIN ports : Whole(p) => Whole(p)'
    BY DEF Whole, Same
  <1>. QED
    BY <1>1, <1>2, <1>3, <1>4 DEF PairsInv

-----------------------------------------------------------------------------
(* The steps of a call that makes a device.                                *)

LEMMA DeviceBegins ==
  ASSUME PairsInv, job = Idle, UNCHANGED <<netns, links, ports, taken, stray>>,
         job' \in Jobs, job'.at \in {"create", "move"}, job'.kind # "veth", job'.port = 0
  PROVE  PairsInv'
  <1>1. PairSoFar'
    BY DEF PairSoFar
  <1>. QED
    BY <1>1 DEF PairsInv, NetTypeOK, EndsPaired, Whole

LEMMA PhysBegins ==
  ASSUME PairsInv, NEW z \in NetZones, NEW p \in PhysDevs, CreateNetdevPhys(z, p)
  PROVE  PairsInv'
  <1>1. /\ job = Idle /\ UNCHANGED <<netns, links, ports, taken, stray>>
        /\ job' \in Jobs /\ job'.at = "move" /\ job'.kind # "veth" /\ job'.port = 0
    BY DEF CreateNetdevPhys, Jobs
  <1>. QED
    BY <1>1, DeviceBegins

LEMMA CallBegins ==
  ASSUME PairsInv, NEW z \in NetZones, NEW dev \in ZoneDevs, NEW on \in Bridges \cup PhysDevs,
         CreateNetdevVeth(z, dev, on) \/ CreateNetdevMacvlan(z, dev, on)
  PROVE  PairsInv'
  <1>1. job = Idle /\ UNCHANGED <<netns, links, ports, taken, stray>>
    BY DEF CreateNetdevVeth, CreateNetdevMacvlan
  <1>2. CASE CreateNetdevVeth(z, dev, on)
    <2>1. uniqueVeth \in VethNames /\ uniqueVeth \notin DOMAIN ports
      BY <1>2, UniqueVethIsFree DEF CreateNetdevVeth, hostNames
    <2>2. /\ job' \in Jobs /\ job'.at = "create" /\ job'.kind = "veth"
          /\ job'.port = uniqueVeth
      BY <1>2, <2>1 DEF CreateNetdevVeth, Jobs
    <2>3. PairSoFar'
      BY <1>1, <2>1, <2>2 DEF PairSoFar
    <2>. QED
      BY <1>1, <2>2, <2>3 DEF PairsInv, NetTypeOK, EndsPaired, Whole
  <1>3. CASE CreateNetdevMacvlan(z, dev, on)
    <2>1. job' \in Jobs /\ job'.at = "create" /\ job'.kind # "veth" /\ job'.port = 0
      BY <1>3 DEF CreateNetdevMacvlan, Jobs
    <2>. QED
      BY <1>1, <2>1, DeviceBegins
  <1>. QED
    BY <1>2, <1>3

\* The call goes on to another step, or ends without a pair to undo.
LEMMA GoesOn ==
  ASSUME NetTypeOK, job \in Jobs, NEW step \in {"create", "attach", "up", "move", "rollback"},
         Goto(step)
  PROVE  /\ job' \in Jobs /\ job'.at = step
         /\ job'.kind = job.kind /\ job'.port = job.port /\ job'.dev = job.dev
         /\ job' # Idle
  BY DEF Goto, Jobs, Idle

LEMMA EndsWithout ==
  ASSUME PairsInv, job # Idle, job.port \notin DOMAIN ports \/ job.port \in stray \/ Whole(job.port),
         Finish, UNCHANGED <<netns, links, ports, taken, stray>>
  PROVE  PairsInv'
  <1>1. job' = Idle
    BY DEF Finish
  <1>2. NetTypeOK' /\ PairSoFar'
    BY <1>1 DEF PairsInv, NetTypeOK, PairSoFar
  <1>. QED
    BY <1>1, <1>2 DEF PairsInv, EndsPaired, Whole

LEMMA CreateLinkStep ==
  ASSUME PairsInv, NEW refused \in BOOLEAN, CreateLink(refused)
  PROVE  PairsInv'
  <1>1. NetTypeOK /\ job \in Jobs /\ job # Idle /\ job.at = "create"
    BY ForJobs DEF CreateLink, PairsInv
  <1>2. job.port \notin DOMAIN ports
    BY <1>1, Shapes DEF PairsInv, PairSoFar
  <1>3. CASE Finish /\ UNCHANGED <<links, ports>>
    BY <1>1, <1>2, <1>3, EndsWithout DEF CreateLink
  <1>4. CASE ~(Finish /\ UNCHANGED <<links, ports>>)
    <2>1. /\ UNCHANGED <<netns, taken, stray>> /\ links' = links \cup {NewLink}
          /\ job.port \notin hostNames
          /\ \/ /\ job.kind = "veth" /\ Goto("attach")
                /\ ports' = [p \in DOMAIN ports \cup {job.port} |->
                               IF p = job.port THEN [bridge |-> "none", up |-> FALSE] ELSE ports[p]]
             \/ job.kind # "veth" /\ UNCHANGED ports /\ Goto("up")
      BY <1>4 DEF CreateLink
    <2>2. job.port \in VethNames \cup {0} /\ job.dev \in ZoneDevs \cup PhysDevs
      BY <1>1 DEF Jobs
    <2>3. /\ NewLink \in Links /\ NewLink.ns = "host" /\ NewLink.name = job.dev
          /\ NewLink.port = job.port /\ NewLink.kind = job.kind
      BY <1>1, <2>2 DEF NewLink, Links, Namespaces, Jobs
    <2>. HIDE DEF NewLink
    <2>4. CASE job.kind = "veth"
      <3>1. /\ job' \in Jobs /\ job' # Idle /\ job'.at = "attach" /\ job'.kind = "veth"
            /\ job'.port = job.port /\ job'.dev = job.dev
        BY <1>1, <2>1, <2>4, GoesOn
      <3>2. job.port \in VethNames /\ job.port # 0
        BY <1>1, <2>4, Shapes DEF PairsInv, PairSoFar
      <3>3. /\ DOMAIN ports' = DOMAIN ports \cup {job.port}
            /\ \A p \in DOMAIN ports : ports'[p] = ports[p]
        BY <1>2, <2>1, <2>4
      <3>4. ports' \in [DOMAIN ports \cup {job.port} -> Ports]
        <4>1. [bridge |-> "none", up |-> FALSE] \in Ports
          BY DEF Ports
        <4>2. \A p \in DOMAIN ports : ports[p] \in Ports
          BY <1>1, Shapes
        <4>. QED
          BY <2>1, <2>4, <4>1, <4>2
      <3>5. NetTypeOK'
        <4>1. DOMAIN ports \cup {job.port} \in SUBSET VethNames
          BY <1>1, <3>2, Shapes
        <4>. QED
          BY <1>1, <2>1, <2>3, <3>1, <3>4, <4>1 DEF NetTypeOK
      <3>6. EndsPaired'
        BY <1>2, <2>1, <2>3, <2>4, <3>3 DEF PairsInv, EndsPaired
      <3>7. PairSoFar'
        BY <2>1, <2>3, <3>1, <3>2, <3>3 DEF PairSoFar
      <3>8. \A p \in DOMAIN ports : Whole(p) => Whole(p)'
        BY <2>1, <3>3 DEF Whole
      <3>. QED
        BY <2>1, <3>1, <3>3, <3>5, <3>6, <3>7, <3>8 DEF PairsInv
    <2>5. CASE job.kind # "veth"
      <3>1. /\ job' \in Jobs /\ job' # Idle /\ job'.at = "up" /\ job'.kind # "veth"
            /\ job'.port = 0 /\ job.port = 0
        BY <1>1, <2>1, <2>5, GoesOn DEF PairsInv, PairSoFar
      <3>2. NetTypeOK'
        BY <1>1, <2>1, <2>3, <2>5, <3>1 DEF NetTypeOK
      <3>3. EndsPaired'
        BY <2>1, <2>3, <2>5, <3>1 DEF PairsInv, EndsPaired
      <3>4. PairSoFar'
        BY <3>1 DEF PairSoFar
      <3>5. \A p \in DOMAIN ports : Whole(p) => Whole(p)'
        BY <2>1, <2>5 DEF Whole
      <3>. QED
        BY <2>1, <2>5, <3>1, <3>2, <3>3, <3>4, <3>5 DEF PairsInv
    <2>. QED
      BY <2>4, <2>5
  <1>. QED
    BY <1>3, <1>4

\* Nothing of the devices changes but what the pair of the call says of itself.
LEMMA HostEndSet ==
  ASSUME PairsInv, job # Idle, job.at # "create", job' \in Jobs, job' # Idle,
         job'.at # "create", job'.kind = job.kind, job'.port = job.port, job'.dev = job.dev,
         UNCHANGED <<netns, links, taken, stray>>,
         job.kind # "veth" => UNCHANGED ports /\ job'.at # "attach",
         job.kind = "veth" =>
           /\ ports' \in [DOMAIN ports -> Ports]
           /\ \A p \in DOMAIN ports \ {job.port} : ports'[p] = ports[p]
           /\ job'.at \in {"up", "move"} => ports'[job.port].bridge # "none"
           /\ job'.at = "move" => ports'[job.port].up
  PROVE  PairsInv'
  <1>1. DOMAIN ports' = DOMAIN ports /\ (job.kind # "veth" => job.port = 0)
    BY DEF PairsInv, PairSoFar
  <1>2. NetTypeOK'
    <2>1. DOMAIN ports \in SUBSET VethNames /\ ports' \in [DOMAIN ports -> Ports]
      BY Shapes DEF PairsInv, NetTypeOK
    <2>. QED
      BY <2>1 DEF PairsInv, NetTypeOK
  <1>3. EndsPaired'
    BY <1>1 DEF PairsInv, EndsPaired
  <1>4. PairSoFar'
    BY <1>1 DEF PairsInv, PairSoFar
  <1>5. \A p \in DOMAIN ports \ {job.port} : ports'[p] = ports[p]
    OBVIOUS
  <1>6. \A p \in DOMAIN ports \ {job.port} : Whole(p) => Whole(p)'
    BY <1>5 DEF Whole
  <1>. QED
    BY <1>1, <1>2, <1>3, <1>4, <1>6 DEF PairsInv

LEMMA HostEndStep ==
  ASSUME PairsInv, NEW refused \in BOOLEAN, AttachToBridge(refused) \/ SetUp(refused)
  PROVE  PairsInv'
  <1>1. /\ NetTypeOK /\ job \in Jobs /\ job # Idle /\ job.at \in {"attach", "up"}
        /\ UNCHANGED <<netns, links, taken, stray>>
    BY ForJobs DEF AttachToBridge, SetUp, PairsInv
  <1>2. job.kind = "veth" => /\ job.port \in DOMAIN ports /\ ports[job.port] \in Ports
                             /\ ports \in [DOMAIN ports -> Ports]
    BY <1>1, Shapes DEF PairsInv, PairSoFar, NetTypeOK
  <1>3. job.at = "attach" => job.kind = "veth"
    BY <1>1 DEF PairsInv, PairSoFar
  <1>4. job.kind = "veth" /\ job.at = "up" => ports[job.port].bridge # "none"
    BY <1>1 DEF PairsInv, PairSoFar
  <1>5. CASE Goto("rollback") /\ UNCHANGED ports
    <2>1. /\ job' \in Jobs /\ job' # Idle /\ job'.at = "rollback"
          /\ job'.kind = job.kind /\ job'.port = job.port /\ job'.dev = job.dev
      BY <1>1, <1>5, GoesOn
    <2>. QED
      BY <1>1, <1>2, <1>5, <2>1, HostEndSet
  <1>6. CASE /\ job.at = "attach" /\ Goto("up") /\ job.on \in Bridges
             /\ ports' = [ports EXCEPT ![job.port].bridge = job.on]
    <2>1. /\ job' \in Jobs /\ job' # Idle /\ job'.at = "up"
          /\ job'.kind = job.kind /\ job'.port = job.port /\ job'.dev = job.dev
      BY <1>1, <1>6, GoesOn
    <2>2. /\ ports' \in [DOMAIN ports -> Ports]
          /\ \A p \in DOMAIN ports \ {job.port} : ports'[p] = ports[p]
          /\ ports'[job.port].bridge # "none"
      BY <1>2, <1>3, <1>6, NetDevAssumption DEF Ports
    <2>. QED
      BY <1>1, <1>3, <1>6, <2>1, <2>2, HostEndSet
  <1>7. CASE /\ job.at = "up" /\ Goto("move")
             /\ ports' = IF job.kind = "veth" THEN [ports EXCEPT ![job.port].up = TRUE] ELSE ports
    <2>1. /\ job' \in Jobs /\ job' # Idle /\ job'.at = "move"
          /\ job'.kind = job.kind /\ job'.port = job.port /\ job'.dev = job.dev
      BY <1>1, <1>7, GoesOn
    <2>2. job.kind = "veth" =>
            /\ ports' \in [DOMAIN ports -> Ports]
            /\ \A p \in DOMAIN ports \ {job.port} : ports'[p] = ports[p]
            /\ ports'[job.port].bridge # "none" /\ ports'[job.port].up
      BY <1>2, <1>4, <1>7 DEF Ports
    <2>. QED
      BY <1>1, <1>7, <2>1, <2>2, HostEndSet
  <1>. QED
    BY <1>5, <1>6, <1>7 DEF AttachToBridge, SetUp

LEMMA MoveStep ==
  ASSUME PairsInv, NEW refused \in BOOLEAN, MoveToNS(refused)
  PROVE  PairsInv'
  <1>1. /\ NetTypeOK /\ job \in Jobs /\ job # Idle /\ job.at = "move"
        /\ UNCHANGED <<netns, ports, taken, stray>>
    BY ForJobs DEF MoveToNS, PairsInv
  <1>2. IF job.kind # "veth" THEN job.port = 0
        ELSE /\ job.port \in DOMAIN ports /\ ports[job.port].bridge # "none" /\ ports[job.port].up
             /\ \E l \in links : l.ns = "host" /\ l.name = job.dev /\ l.port = job.port
    BY <1>1 DEF PairsInv, PairSoFar
  <1>3. 0 \notin DOMAIN ports /\ "host" \notin netns /\ \A l \in links : l \in Links
    BY <1>1, Shapes
  <1>4. CASE Goto("rollback") /\ UNCHANGED links
    <2>1. /\ job' \in Jobs /\ job' # Idle /\ job'.at = "rollback"
          /\ job'.kind = job.kind /\ job'.port = job.port /\ job'.dev = job.dev
      BY <1>1, <1>4, GoesOn
    <2>2. job.kind = "veth" => ports \in [DOMAIN ports -> Ports]
      BY <1>1 DEF NetTypeOK
    <2>. QED
      BY <1>1, <1>2, <1>4, <2>1, <2>2, HostEndSet
  <1>5. CASE job.kind = "phys" /\ Finish /\ UNCHANGED links
    BY <1>1, <1>2, <1>3, <1>5, EndsWithout
  <1>6. CASE /\ job.zone \in netns /\ Finish
             /\ links' = {IF Mine(l) THEN [l EXCEPT !.ns = job.zone] ELSE l : l \in links}
    <2>. DEFINE m(l) == IF Mine(l) THEN [l EXCEPT !.ns = job.zone] ELSE l
    <2>1. job.zone \in NetZones
      BY <1>1 DEF Jobs
    <2>2. \A l \in links : /\ m(l) \in Links /\ m(l).name = l.name /\ m(l).kind = l.kind
                           /\ m(l).port = l.port
                           /\ m(l).ns = (IF Mine(l) THEN job.zone ELSE l.ns)
      BY <1>3, <2>1 DEF Links, Namespaces
    <2>3. links' = {m(l) : l \in links}
      BY <1>6
    <2>. HIDE DEF m
    <2>4. NetTypeOK'
      BY <1>1, <1>6, <2>2, <2>3 DEF Finish, NetTypeOK
    <2>5. EndsPaired'
      BY <1>1, <2>2, <2>3 DEF PairsInv, EndsPaired, Mine
    <2>6. PairSoFar'
      BY <1>6 DEF Finish, PairSoFar
    <2>7. \A p \in DOMAIN ports : Whole(p) => Whole(p)'
      BY <1>1, <1>3, <2>2, <2>3 DEF Whole, Mine
    <2>8. ASSUME NEW p, job.kind = "veth", p = job.port PROVE Whole(p)'
      <3>1. PICK l \in links : l.ns = "host" /\ l.name = job.dev /\ l.port = job.port
        BY <1>2, <2>8
      <3>2. m(l) \in links' /\ m(l).port = p /\ m(l).ns = job.zone
        BY <2>2, <2>3, <2>8, <3>1 DEF Mine
      <3>. QED
        BY <1>1, <1>2, <1>6, <2>8, <3>2 DEF Whole
    <2>. QED
      BY <1>1, <1>2, <1>3, <2>4, <2>5, <2>6, <2>7, <2>8 DEF PairsInv
  <1>. QED
    BY <1>4, <1>5, <1>6 DEF MoveToNS

-----------------------------------------------------------------------------
(* The steps that take devices away, and the others.                       *)

\* Pairs S go, with their ends; of the others, those in a zone that runs stay there.
LEMMA PairsGo ==
  ASSUME PairsInv, NEW S,
         ports' \in [DOMAIN ports \ S -> Ports], \A p \in DOMAIN ports \ S : ports'[p] = ports[p],
         \A l \in links' : l \in Links /\ (l.port # 0 => l \in links /\ l.port \notin S),
         \A l \in links : l.port \in DOMAIN ports \ S /\ l.ns \in netns => l \in links' /\ l.ns \in netns',
         netns' \subseteq NetZones, taken' \subseteq VethNames, stray' \subseteq VethNames,
         stray \subseteq stray' \cup S,
         job' \in Jobs \cup {Idle}, PairSoFar',
         \A p \in DOMAIN ports \ S :
           job # Idle /\ job.port = p => p \in stray' \/ (job' # Idle /\ job'.port = p)
  PROVE  PairsInv'
  <1>1. DOMAIN ports' = DOMAIN ports \ S
    OBVIOUS
  <1>2. NetTypeOK'
    <2>1. DOMAIN ports \ S \in SUBSET VethNames
      BY Shapes DEF PairsInv
    <2>. QED
      BY <2>1 DEF PairsInv, NetTypeOK
  <1>3. EndsPaired'
    BY <1>1 DEF PairsInv, EndsPaired
  <1>4. \A p \in DOMAIN ports \ S : Whole(p) => Whole(p)'
    BY DEF Whole
  <1>. QED
    BY <1>1, <1>2, <1>3, <1>4 DEF PairsInv

LEMMA NoPairGoes ==
  ASSUME PairsInv, ports' = ports,
         \A l \in links' : l \in Links /\ (l.port # 0 => l \in links),
         \A l \in links : l.ns \in netns => l \in links' /\ l.ns \in netns',
         netns' \subseteq NetZones, taken' \subseteq VethNames, stray' \subseteq VethNames,
         stray \subseteq stray',
         job' \in Jobs \cup {Idle}, PairSoFar',
         \A p \in DOMAIN ports :
           job # Idle /\ job.port = p => p \in stray' \/ (job' # Idle /\ job'.port = p)
  PROVE  PairsInv'
  <1>. DEFINE S == {}
  <1>1. DOMAIN ports \ S = DOMAIN ports /\ \A l : l \notin S
    OBVIOUS
  <1>2. ports \in [DOMAIN ports -> Ports]
    BY DEF PairsInv, NetTypeOK
  <1>. HIDE DEF S
  <1>. QED
    BY <1>1, <1>2, PairsGo

LEMMA RollbackStep ==
  ASSUME PairsInv, NEW refused \in BOOLEAN, Rollback(refused)
  PROVE  PairsInv'
  <1>1. /\ NetTypeOK /\ job \in Jobs /\ job # Idle /\ job.at = "rollback" /\ job' = Idle
        /\ UNCHANGED <<netns, taken>>
    BY ForJobs DEF Rollback, Finish, PairsInv
  <1>2. IF job.kind # "veth" THEN job.port = 0 ELSE job.port \in VethNames
    BY <1>1 DEF PairsInv, PairSoFar
  <1>3. /\ 0 \notin DOMAIN ports /\ "host" \notin netns /\ \A l \in links : l \in Links
        /\ DOMAIN ports \subseteq VethNames /\ \A p \in DOMAIN ports : ports[p] \in Ports
        /\ ports \in [DOMAIN ports -> Ports] /\ stray \subseteq VethNames
        /\ netns \subseteq NetZones /\ taken \subseteq VethNames
    BY <1>1, Shapes DEF NetTypeOK
  <1>4. PairSoFar'
    BY <1>1 DEF PairSoFar
  <1>5. CASE job.kind = "veth" /\ ~refused
    <2>1. /\ ports' = [p \in DOMAIN ports \ {job.port} |-> ports[p]]
          /\ links' = {l \in links : l.port # job.port} /\ stray' = stray
      BY <1>5 DEF Rollback, dropPort, Without
    <2>2. ports' \in [DOMAIN ports \ {job.port} -> Ports]
      BY <1>3, <2>1
    <2>3. \A p \in DOMAIN ports \ {job.port} : ports'[p] = ports[p]
      BY <2>1
    <2>. QED
      BY <1>1, <1>3, <1>4, <2>1, <2>2, <2>3, PairsGo
  <1>6. CASE job.kind # "veth" \/ refused
    <2>1. /\ ports' = ports /\ links' \subseteq links
          /\ \A l \in links : l.ns \in netns => l \in links'
      BY <1>3, <1>6 DEF Rollback, Mine
    <2>2. stray' = stray \cup (IF refused /\ job.kind = "veth" THEN {job.port} ELSE {})
      BY <1>6 DEF Rollback
    <2>3. job.port \in DOMAIN ports => job.port \in stray'
      BY <1>2, <1>3, <1>6, <2>2
    <2>4. stray' \subseteq VethNames
      BY <1>2, <1>3, <2>2
    <2>. QED
      BY <1>1, <1>3, <1>4, <2>1, <2>2, <2>3, <2>4, NoPairGoes
  <1>. QED
    BY <1>5, <1>6

LEMMA DestroyStep ==
  ASSUME PairsInv, NEW z \in NetZones, NEW dev, DestroyNetdev(z, dev)
  PROVE  PairsInv'
  <1>1. NetTypeOK /\ job = Idle /\ UNCHANGED <<netns, taken, job>>
    BY DEF DestroyNetdev, PairsInv
  <1>2. CASE UNCHANGED <<links, ports, stray>>
    BY <1>1, <1>2 DEF PairsInv, NetTypeOK, EndsPaired, PairSoFar, Whole
  <1>3. CASE ~UNCHANGED <<links, ports, stray>>
    <2>. DEFINE S == {l.port : l \in Of(z, dev)}
    <2>1. /\ links' = links \ Of(z, dev) /\ stray' = stray \ S
          /\ ports' = [p \in DOMAIN ports \ S |-> ports[p]]
      BY <1>3 DEF DestroyNetdev, Without
    <2>2. /\ 0 \notin DOMAIN ports /\ \A l \in links : l \in Links
          /\ \A p \in DOMAIN ports : ports[p] \in Ports
          /\ stray \subseteq VethNames
      BY <1>1, Shapes DEF NetTypeOK
    <2>3. \A l \in Of(z, dev) : l \in links /\ l.ns = z /\ l.name = dev
      BY DEF Of
    <2>4. \A l \in links : l.ns = z /\ l.name = dev => l \in Of(z, dev)
      BY DEF Of
    <2>5. \A l \in links \ Of(z, dev) : l.port # 0 => l.port \notin S
      BY <2>3, <2>4 DEF PairsInv, EndsPaired
    <2>6. /\ ports' \in [DOMAIN ports \ S -> Ports]
          /\ \A p \in DOMAIN ports \ S : ports'[p] = ports[p]
      BY <2>1, <2>2
    <2>7. \A l \in links : l.port \in DOMAIN ports \ S => l \in links'
      BY <2>1
    <2>8. PairSoFar' /\ job' \in Jobs \cup {Idle}
      BY <1>1 DEF PairSoFar
    <2>9. netns \subseteq NetZones /\ taken \subseteq VethNames
      BY <1>1 DEF NetTypeOK
    <2>. HIDE DEF S
    <2>10. \A l \in links' : l \in Links /\ (l.port # 0 => l \in links /\ l.port \notin S)
      BY <2>1, <2>2, <2>5
    <2>11. stray' \subseteq VethNames /\ stray \subseteq stray' \cup S
      BY <2>1, <2>2
    <2>. QED
      BY <1>1, <2>6, <2>7, <2>8, <2>9, <2>10, <2>11, PairsGo
  <1>. QED
    BY <1>2, <1>3

\* The addresses of a device change, and nothing else.
LEMMA AddressesStep ==
  ASSUME PairsInv, NEW z \in NetZones, NEW dev, NEW ips \in SUBSET Addresses,
         NEW failing \in SUBSET Addresses, NEW ip,
         SetAttrs(z, dev, ips, failing) \/ DeleteIpAddress(z, dev, ip)
  PROVE  PairsInv'
  <1>1. UNCHANGED <<netns, ports, taken, job, stray>> /\ NetTypeOK
    BY DEF SetAttrs, DeleteIpAddress, PairsInv
  <1>2. Of(z, dev) \subseteq links /\ \A l \in links : l \in Links
    BY <1>1, Shapes DEF Of
  <1>3. CASE UNCHANGED links
    BY <1>1, <1>3 DEF PairsInv, NetTypeOK, EndsPaired, PairSoFar, Whole
  <1>4. ASSUME NEW set \in SUBSET Addresses,
               links' = (links \ Of(z, dev)) \cup {[l EXCEPT !.ips = @ \cup set] : l \in Of(z, dev)}
        PROVE  PairsInv'
    <2>1. \A l \in links : [l EXCEPT !.ips = @ \cup set] \in Links /\ Same([l EXCEPT !.ips = @ \cup set], l)
      BY <1>2 DEF Links, Same
    <2>2. \A l : Same(l, l)
      BY DEF Same
    <2>. QED
      BY <1>1, <1>2, <1>4, <2>1, <2>2, Readdressed
  <1>5. CASE links' = (links \ Of(z, dev)) \cup {[l EXCEPT !.ips = @ \ {ip}] : l \in Of(z, dev)}
    <2>1. \A l \in links : [l EXCEPT !.ips = @ \ {ip}] \in Links /\ Same([l EXCEPT !.ips = @ \ {ip}], l)
      BY <1>2 DEF Links, Same
    <2>2. \A l : Same(l, l)
      BY DEF Same
    <2>. QED
      BY <1>1, <1>2, <1>5, <2>1, <2>2, Readdressed
  <1>. QED
    <2>1. CASE SetAttrs(z, dev, ips, failing)
      BY <1>3, <1>4, <2>1 DEF SetAttrs
    <2>2. CASE DeleteIpAddress(z, dev, ip)
      BY <1>3, <1>5, <2>2 DEF DeleteIpAddress
    <2>. QED
      BY <2>1, <2>2

LEMMA ZoneDiesStep ==
  ASSUME PairsInv, NEW z \in NetZones, NetZoneDies(z)
  PROVE  PairsInv'
  <1>. DEFINE gone == {l \in links : l.ns = z /\ l.kind # "phys"}
              S == {l.port : l \in gone}
  <1>1. /\ NetTypeOK /\ z \in netns /\ netns' = netns \ {z} /\ UNCHANGED <<taken, job>>
        /\ links' = {IF l.ns = z THEN [l EXCEPT !.ns = "host", !.ips = {}] ELSE l : l \in links \ gone}
        /\ ports' = [p \in DOMAIN ports \ S |-> ports[p]] /\ stray' = stray \ S
    BY DEF NetZoneDies, Without, PairsInv
  <1>2. /\ "host" \notin netns /\ \A l \in links : l \in Links
        /\ \A p \in DOMAIN ports : ports[p] \in Ports
        /\ stray \subseteq VethNames /\ netns \subseteq NetZones /\ taken \subseteq VethNames
        /\ job \in Jobs \cup {Idle}
    BY <1>1, Shapes DEF NetTypeOK
  <1>3. /\ ports' \in [DOMAIN ports \ S -> Ports]
        /\ \A p \in DOMAIN ports \ S : ports'[p] = ports[p]
    BY <1>1, <1>2
  <1>4. \A l \in links : l \in gone <=> l.ns = z /\ l.kind # "phys"
    OBVIOUS
  <1>5. \A l \in links : l.port # 0 => /\ l.kind # "phys"
                                       /\ l.port \in S => l \in gone
    BY <1>4 DEF PairsInv, EndsPaired
  <1>6. \A l \in gone : l.port \in S /\ l \in links
    OBVIOUS
  <1>. HIDE DEF S, gone
  <1>7. \A l \in links \ gone : l.ns # z => l \in links'
    BY <1>1
  <1>8. \A l \in links' : l \in Links /\ (l.port # 0 => l \in links /\ l.port \notin S)
    <2>1. ASSUME NEW l \in links \ gone, l.ns = z
          PROVE  /\ l.port = 0
                 /\ [l EXCEPT !.ns = "host", !.ips = {}] \in Links
                 /\ [l EXCEPT !.ns = "host", !.ips = {}].port = 0
      <3>1. l.port = 0
        BY <1>4, <1>5, <2>1
      <3>. QED
        BY <1>2, <3>1 DEF Links, Namespaces
    <2>. QED
      BY <1>1, <1>2, <1>5, <2>1
  <1>9. \A l \in links : l.port \in DOMAIN ports \ S /\ l.ns \in netns => l \in links' /\ l.ns \in netns'
    <2>1. 0 \notin DOMAIN ports
      BY <1>1, Shapes
    <2>. QED
      BY <1>1, <1>4, <1>5, <1>6, <1>7, <2>1
  <1>10. PairSoFar'
    <2>1. CASE job # Idle /\ job.kind = "veth" /\ job.at # "create"
      <3>1. PICK l \in links : l.ns = "host" /\ l.name = job.dev /\ l.port = job.port
        BY <2>1 DEF PairsInv, PairSoFar
      <3>2. job.port # 0
        BY <1>1, <2>1, Shapes DEF PairsInv, PairSoFar
      <3>3. l \in links' /\ job.port \notin S
        BY <1>1, <1>2, <1>4, <1>5, <1>7, <3>1, <3>2
      <3>. QED
        BY <1>1, <1>3, <2>1, <3>1, <3>3 DEF PairsInv, PairSoFar
    <2>. QED
      BY <1>1, <1>3, <2>1 DEF PairsInv, PairSoFar
  <1>11. /\ netns' \subseteq NetZones /\ taken' \subseteq VethNames /\ stray' \subseteq VethNames
         /\ stray \subseteq stray' \cup S /\ job' = job
    BY <1>1, <1>2
  <1>. QED
    BY <1>2, <1>3, <1>8, <1>9, <1>10, <1>11, PairsGo

LEMMA OthersStep ==
  ASSUME PairsInv, (\E z \in NetZones : NetZoneStarts(z))
                     \/ (\E p \in VethNames : OthersTake(p) \/ OthersRelease(p)) \/ NetCrash
  PROVE  PairsInv'
  <1>1. /\ NetTypeOK /\ UNCHANGED <<links, ports>> /\ job' \in {job, Idle}
        /\ netns \subseteq netns' /\ netns' \subseteq NetZones /\ taken' \subseteq VethNames
        /\ stray \subseteq stray'
        /\ stray' = stray \cup (IF job' = job THEN {} ELSE {job.port} \cap DOMAIN ports)
    BY DEF NetZoneStarts, OthersTake, OthersRelease, NetCrash, PairsInv, NetTypeOK
  <1>2. /\ DOMAIN ports \subseteq VethNames /\ \A l \in links : l \in Links
        /\ \A p \in DOMAIN ports : ports[p] \in Ports /\ ports \in [DOMAIN ports -> Ports]
        /\ job \in Jobs \cup {Idle} /\ stray \subseteq VethNames
    BY <1>1, Shapes DEF NetTypeOK
  <1>3. PairSoFar'
    BY <1>1 DEF PairsInv, PairSoFar
  <1>4. stray' \subseteq VethNames
    BY <1>1, <1>2
  <1>5. \A p \in DOMAIN ports : job # Idle /\ job.port = p => p \in stray' \/ (job' # Idle /\ job'.port = p)
    BY <1>1
  <1>. QED
    BY <1>1, <1>2, <1>3, <1>4, <1>5, NoPairGoes

-----------------------------------------------------------------------------
(* The theorem.                                                            *)

LEMMA PairsInit == NetInit => PairsInv
  <1>. SUFFICES ASSUME NetInit PROVE PairsInv
    OBVIOUS
  <1>1. NetTypeOK
    <2>1. ports \in [{} -> Ports]
      BY DEF NetInit
    <2>2. links \subseteq Links
      BY DEF NetInit, Links, Namespaces
    <2>. QED
      BY <2>1, <2>2 DEF NetInit, NetTypeOK
  <1>2. DOMAIN ports = {} /\ job = Idle /\ \A l \in links : l.port = 0
    BY DEF NetInit
  <1>. QED
    BY <1>1, <1>2 DEF PairsInv, EndsPaired, PairSoFar

LEMMA PairsStep == PairsInv /\ [NetNext]_netVars => PairsInv'
  <1>. SUFFICES ASSUME PairsInv, [NetNext]_netVars PROVE PairsInv'
    OBVIOUS
  <1>1. CASE UNCHANGED netVars
    BY <1>1 DEF netVars, PairsInv, NetTypeOK, EndsPaired, PairSoFar, Whole
  <1>2. ASSUME NEW refused \in BOOLEAN,
               \/ CreateLink(refused) \/ AttachToBridge(refused) \/ SetUp(refused)
               \/ MoveToNS(refused) \/ Rollback(refused)
        PROVE  PairsInv'
    BY <1>2, CreateLinkStep, HostEndStep, MoveStep, RollbackStep
  <1>3. ASSUME NEW z \in NetZones, NEW dev \in ZoneDevs, NEW on \in Bridges \cup PhysDevs,
               CreateNetdevVeth(z, dev, on) \/ CreateNetdevMacvlan(z, dev, on)
        PROVE  PairsInv'
    BY <1>3, CallBegins
  <1>4. ASSUME NEW z \in NetZones, NEW p \in PhysDevs, CreateNetdevPhys(z, p)
        PROVE  PairsInv'
    BY <1>4, PhysBegins
  <1>5. ASSUME NEW z \in NetZones, NEW dev \in ZoneDevs \cup PhysDevs,
               \/ DestroyNetdev(z, dev)
               \/ \E ips \in SUBSET Addresses, failing \in SUBSET Addresses : SetAttrs(z, dev, ips, failing)
               \/ \E ip \in Addresses : DeleteIpAddress(z, dev, ip)
        PROVE  PairsInv'
    BY <1>5, DestroyStep, AddressesStep
  <1>6. ASSUME NEW z \in NetZones, NetZoneStarts(z) \/ NetZoneDies(z)
        PROVE  PairsInv'
    BY <1>6, OthersStep, ZoneDiesStep
  <1>7. ASSUME (\E p \in VethNames : OthersTake(p) \/ OthersRelease(p)) \/ NetCrash
        PROVE  PairsInv'
    BY <1>7, OthersStep
  <1>. QED
    BY <1>1, <1>2, <1>3, <1>4, <1>5, <1>6, <1>7 DEF NetNext

\* Whatever the kernel refuses, whichever zones die and whatever other programs
\* of the host call their devices while a call of createNetdevVeth is at work,
\* the pairs it leaves are whole, for any number of zones, devices and pairs.
THEOREM NoPairIsLeftHalf == NetSpec => []NoHalfPairs
  <1>1. PairsInv => NoHalfPairs
    BY DEF PairsInv, NoHalfPairs, Whole
  <1>. QED
    BY PairsInit, PairsStep, <1>1, PTL DEF NetSpec

-----------------------------------------------------------------------------
(* Netlink: a caller reads exactly what the kernel answers.                *)

\* The answer that is on its way to a caller in one message.
ShortAnswer ==
  /\ Len(mFd) >= 1 /\ mNlmsg = <<>>
  /\ \E m \in Messages :
       /\ mFd[1] = <<m>> /\ m.seq = nlmsgSeq
       /\ \/ m.kind \in {"nack", "overrun"}
          \/ m.kind \in {"ack", "object"} /\ answered = <<m.body>>

\* A dump of which the caller has the first j datagrams.
DumpAnswer(n, ends, j) ==
  /\ answered = Upto(n)
  /\ Len(mFd) = Len(ends) - j
  /\ \A k \in DOMAIN mFd : mFd[k] = Dump(n, ends, nlmsgSeq)[k + j]
  /\ Len(mNlmsg) = EndBefore(ends, j + 1)
  /\ \A i \in DOMAIN mNlmsg : mNlmsg[i] = DumpMessage(n, i, nlmsgSeq)

\* What the caller has received in full, and how far it has read it.
Received ==
  /\ \/ Len(mNlmsg) = Len(answered)
     \/ Len(mNlmsg) = Len(answered) + 1 /\ mNlmsg[Len(mNlmsg)].kind = "done"
  /\ \A i \in DOMAIN answered : mNlmsg[i].body = answered[i] /\ mNlmsg[i].kind # "done"
  /\ mNlmsgHdr - 1 <= Len(answered) /\ Len(fetched) = mNlmsgHdr - 1
  /\ \A i \in DOMAIN fetched : fetched[i] = answered[i]

NetlinkInv ==
  /\ NetlinkTypeOK
  /\ nlStep # "sent" => mFd = <<>>
  /\ nlStep = "sent" =>
       /\ fetched = <<>> /\ mNlmsgHdr = 1 /\ nlmsgSeq \in 1 .. MaxSeq
       /\ \/ ShortAnswer
          \/ \E n \in 0 .. NumParts : \E ends \in Cuts(n) : \E j \in 0 .. Len(ends) - 1 : DumpAnswer(n, ends, j)
  /\ nlStep = "received" => Received
  /\ nlStep = "idle" => fetched = answered

\* Where the datagrams of a dump end.
LEMMA CutsAre ==
  ASSUME NEW n \in Nat, NEW ends \in Cuts(n)
  PROVE  /\ Len(ends) \in 1 .. n + 1 /\ DOMAIN ends = 1 .. Len(ends)
         /\ \A k \in 1 .. Len(ends) : ends[k] \in 1 .. n + 1
         /\ ends[Len(ends)] = n + 1
         /\ \A i, j \in DOMAIN ends : i < j => ends[i] < ends[j]
  <1>1. PICK k \in 1 .. n + 1 : ends \in [1 .. k -> 1 .. n + 1]
    BY DEF Cuts
  <1>2. ends \in Seq(1 .. n + 1) /\ Len(ends) = k
    BY <1>1
  <1>3. ends[Len(ends)] = n + 1 /\ \A i, j \in DOMAIN ends : i < j => ends[i] < ends[j]
    BY DEF Cuts
  <1>. QED
    BY <1>1, <1>2, <1>3

LEMMA EndsBefore ==
  ASSUME NEW n \in Nat, NEW ends \in Cuts(n), NEW k \in 1 .. Len(ends)
  PROVE  /\ EndBefore(ends, k) \in 0 .. n /\ EndBefore(ends, k) < ends[k] /\ ends[k] \in 1 .. n + 1
         /\ EndBefore(ends, k + 1) = ends[k]
         /\ ends[k] = n + 1 <=> k = Len(ends)
  <1>. USE CutsAre DEF EndBefore
  <1>1. ends[k] \in 1 .. n + 1 /\ EndBefore(ends, k + 1) = ends[k]
    OBVIOUS
  <1>2. EndBefore(ends, k) \in 0 .. n /\ EndBefore(ends, k) < ends[k]
    <2>1. CASE k = 1
      BY <2>1, <1>1
    <2>2. CASE k # 1
      <3>1. k - 1 \in 1 .. Len(ends) /\ k - 1 < k
        BY <2>2
      <3>2. ends[k - 1] < ends[k] /\ ends[k - 1] \in 1 .. n + 1
        BY <3>1
      <3>. QED
        BY <1>1, <2>2, <3>2
    <2>. QED
      BY <2>1, <2>2
  <1>3. k # Len(ends) => ends[k] < ends[Len(ends)]
    OBVIOUS
  <1>. QED
    BY <1>1, <1>2, <1>3

IsDatagram(d, n, ends, s, k) ==
  /\ d \in Seq(Messages) /\ Len(d) = ends[k] - EndBefore(ends, k) /\ Len(d) >= 1
  /\ \A i \in DOMAIN d : d[i] = DumpMessage(n, EndBefore(ends, k) + i, s)
  /\ Last(d).kind = IF k = Len(ends) THEN "done" ELSE "part"

\* A datagram of a dump: messages that nobody refuses, of which DONE is the last of all.
LEMMA DatagramIs ==
  ASSUME NEW n \in 0 .. NumParts, NEW ends \in Cuts(n), NEW s \in 1 .. MaxSeq, NEW k \in 1 .. Len(ends)
  PROVE  IsDatagram(Dump(n, ends, s)[k], n, ends, s, k)
  <1>. DEFINE d == Dump(n, ends, s)[k]
  <1>1. n \in Nat /\ k \in DOMAIN ends
    BY CutsAre, NetlinkAssumption
  <1>2. /\ EndBefore(ends, k) \in 0 .. n /\ EndBefore(ends, k) < ends[k] /\ ends[k] \in 1 .. n + 1
        /\ ends[k] = n + 1 <=> k = Len(ends)
    BY <1>1, EndsBefore
  <1>3. d = [i \in 1 .. ends[k] - EndBefore(ends, k) |-> DumpMessage(n, EndBefore(ends, k) + i, s)]
    BY <1>1 DEF Dump
  <1>4. \A i \in Nat : i >= 1 => DumpMessage(n, i, s) \in Messages
    BY NetlinkAssumption DEF DumpMessage, Msg, Messages
  <1>5. d \in Seq(Messages) /\ Len(d) = ends[k] - EndBefore(ends, k) /\ Len(d) >= 1
    <2>. DEFINE l == ends[k] - EndBefore(ends, k)
                b == EndBefore(ends, k)
    <2>1. l \in Nat /\ l >= 1 /\ \A i \in 1 .. l : b + i \in Nat /\ b + i >= 1
      BY <1>2
    <2>. HIDE DEF l, b
    <2>2. \A i \in 1 .. l : DumpMessage(n, b + i, s) \in Messages
      BY <1>4, <2>1
    <2>3. d = [i \in 1 .. l |-> DumpMessage(n, b + i, s)]
      BY <1>3 DEF l, b
    <2>4. d \in [1 .. l -> Messages]
      BY <2>2, <2>3
    <2>. HIDE DEF d
    <2>5. d \in Seq(Messages) /\ Len(d) = l
      BY <2>1, <2>4
    <2>. QED
      BY <2>1, <2>5 DEF l, b
  <1>6. \A i \in DOMAIN d : d[i] = DumpMessage(n, EndBefore(ends, k) + i, s)
    BY <1>3
  <1>7. Last(d) = DumpMessage(n, ends[k], s)
    BY <1>2, <1>3, <1>5 DEF Last
  <1>8. Last(d).kind = IF k = Len(ends) THEN "done" ELSE "part"
    BY <1>2, <1>7 DEF DumpMessage, Msg
  <1>. HIDE DEF d
  <1>9. IsDatagram(d, n, ends, s, k)
    BY <1>5, <1>6, <1>8 DEF IsDatagram
  <1>. QED
    BY <1>9 DEF d

LEMMA DumpIs ==
  ASSUME NEW n \in 0 .. NumParts, NEW ends \in Cuts(n), NEW s \in 1 .. MaxSeq
  PROVE  Dump(n, ends, s) \in Seq(Seq(Messages)) /\ Len(Dump(n, ends, s)) = Len(ends)
  <1>1. n \in Nat /\ DOMAIN ends = 1 .. Len(ends) /\ Len(ends) \in Nat
    BY CutsAre, NetlinkAssumption
  <1>2. \A k \in 1 .. Len(ends) : Dump(n, ends, s)[k] \in Seq(Messages)
    BY DatagramIs DEF IsDatagram
  <1>3. DOMAIN Dump(n, ends, s) = 1 .. Len(ends)
    BY <1>1 DEF Dump
  <1>4. Dump(n, ends, s) = [k \in 1 .. Len(ends) |-> Dump(n, ends, s)[k]]
    BY <1>1 DEF Dump
  <1>. DEFINE w == Dump(n, ends, s)
  <1>. HIDE DEF w
  <1>5. w \in [1 .. Len(ends) -> Seq(Messages)]
    BY <1>2, <1>4 DEF w
  <1>6. w \in Seq(Seq(Messages)) /\ Len(w) = Len(ends)
    BY <1>1, <1>5
  <1>. QED
    BY <1>6 DEF w

LEMMA NetlinkInitHolds == NetlinkInit => NetlinkInv
  <1>1. <<>> \in Seq(Seq(Messages)) /\ <<>> \in Seq(Messages) /\ <<>> \in Seq(0 .. NumParts)
    OBVIOUS
  <1>. QED
    BY <1>1, NetlinkAssumption DEF NetlinkInit, NetlinkInv, NetlinkTypeOK, Requests


\* An answer in one message that matters, and one of many.
IsShort(a, s) ==
  /\ a.bodies \in Seq(0 .. NumParts) /\ a.wire \in Seq(Seq(Messages)) /\ Len(a.wire) >= 1
  /\ \E m \in Messages :
       /\ a.wire[1] = <<m>> /\ m.seq = s
       /\ \/ m.kind \in {"nack", "overrun"}
          \/ m.kind \in {"ack", "object"} /\ a.bodies = <<m.body>>

IsDump(a, s) ==
  \E n \in 0 .. NumParts : \E ends \in Cuts(n) : a.wire = Dump(n, ends, s) /\ a.bodies = Upto(n)

LEMMA MsgIs ==
  ASSUME NEW s \in 1 .. MaxSeq, NEW kind \in {"nack", "overrun", "ack", "object"}, NEW body \in 0 .. 1
  PROVE  Msg(kind, body, s) \in Messages /\ Msg(kind, body, s).kind = kind
         /\ Msg(kind, body, s).body = body /\ Msg(kind, body, s).seq = s
  BY NetlinkAssumption DEF Msg, Messages

LEMMA ShortIs ==
  ASSUME NEW s \in 1 .. MaxSeq, NEW m \in Messages, m.seq = s, NEW rest \in Seq(Seq(Messages)), NEW a,
         a.wire = <<<<m>>>> \o rest,
         \/ m.kind \in {"nack", "overrun"} /\ a.bodies = <<>>
         \/ m.kind \in {"ack", "object"} /\ a.bodies = <<m.body>>
  PROVE  IsShort(a, s)
  <1>1. <<m>> \in Seq(Messages)
    OBVIOUS
  <1>. DEFINE d == <<m>>
  <1>. HIDE DEF d
  <1>2. <<d>> \in Seq(Seq(Messages)) /\ Len(<<d>>) = 1 /\ <<d>>[1] = d
    BY <1>1 DEF d
  <1>3. a.wire \in Seq(Seq(Messages)) /\ Len(a.wire) >= 1 /\ a.wire[1] = d
    BY <1>2, ConcatProperties, LenProperties DEF d
  <1>4. m.body \in 0 .. NumParts
    BY DEF Messages
  <1>5. <<>> \in Seq(0 .. NumParts) /\ <<m.body>> \in Seq(0 .. NumParts)
    BY <1>4
  <1>6. a.bodies \in Seq(0 .. NumParts)
    BY <1>5
  <1>. QED
    BY <1>3, <1>6 DEF IsShort, d

LEMMA AnswersAre ==
  ASSUME NEW k \in Requests, NEW s \in 1 .. MaxSeq, NEW a \in Answers(k, s)
  PROVE  IsShort(a, s) \/ IsDump(a, s)
  <1>. DEFINE nack == Msg("nack", 0, s)
              overrun == Msg("overrun", 0, s)
              ack == Msg("ack", 0, s)
              object == Msg("object", 1, s)
  <1>1. /\ nack \in Messages /\ nack.kind = "nack" /\ nack.seq = s
        /\ overrun \in Messages /\ overrun.kind = "overrun" /\ overrun.seq = s
        /\ ack \in Messages /\ ack.kind = "ack" /\ ack.seq = s /\ ack.body = 0
        /\ object \in Messages /\ object.kind = "object" /\ object.seq = s /\ object.body = 1
    BY MsgIs
  <1>2. \/ a = [wire |-> <<<<nack>>>>, bodies |-> <<>>]
        \/ a = [wire |-> <<<<overrun>>>>, bodies |-> <<>>]
        \/ a = [wire |-> <<<<ack>>>>, bodies |-> <<0>>]
        \/ a = [wire |-> <<<<object>>, <<ack>>>>, bodies |-> <<1>>]
        \/ \E n \in 0 .. NumParts : \E ends \in Cuts(n) : a = [wire |-> Dump(n, ends, s), bodies |-> Upto(n)]
    <2>1. CASE k = "set"
      BY <2>1 DEF Answers
    <2>2. CASE k = "get"
      BY <2>2 DEF Answers
    <2>3. CASE k = "dump"
      <3>1. \/ a = [wire |-> <<<<nack>>>>, bodies |-> <<>>]
            \/ a = [wire |-> <<<<overrun>>>>, bodies |-> <<>>]
            \/ a \in UNION {{[wire |-> Dump(n, ends, s), bodies |-> Upto(n)] : ends \in Cuts(n)} :
                              n \in 0 .. NumParts}
        BY <2>3 DEF Answers
      <3>. QED
        BY <3>1
    <2>. QED
      BY <2>1, <2>2, <2>3 DEF Requests
  <1>. HIDE DEF nack, overrun, ack, object
  <1>3. /\ <<<<nack>>>> = <<<<nack>>>> \o <<>> /\ <<<<overrun>>>> = <<<<overrun>>>> \o <<>>
        /\ <<<<ack>>>> = <<<<ack>>>> \o <<>> /\ <<<<object>>, <<ack>>>> = <<<<object>>>> \o <<<<ack>>>>
    OBVIOUS
  <1>4. <<ack>> \in Seq(Messages)
    BY <1>1
  <1>5. <<>> \in Seq(Seq(Messages)) /\ <<<<ack>>>> \in Seq(Seq(Messages))
    BY <1>4
  <1>6. CASE a = [wire |-> <<<<nack>>>>, bodies |-> <<>>]
    <2>1. a.wire = <<<<nack>>>> \o <<>> /\ a.bodies = <<>>
      BY <1>3, <1>6
    <2>. QED
      BY <1>1, <1>5, <2>1, ShortIs
  <1>7. CASE a = [wire |-> <<<<overrun>>>>, bodies |-> <<>>]
    <2>1. a.wire = <<<<overrun>>>> \o <<>> /\ a.bodies = <<>>
      BY <1>3, <1>7
    <2>. QED
      BY <1>1, <1>5, <2>1, ShortIs
  <1>8. CASE a = [wire |-> <<<<ack>>>>, bodies |-> <<0>>]
    <2>1. a.wire = <<<<ack>>>> \o <<>> /\ a.bodies = <<ack.body>>
      BY <1>1, <1>3, <1>8
    <2>. QED
      BY <1>1, <1>5, <2>1, ShortIs
  <1>9. CASE a = [wire |-> <<<<object>>, <<ack>>>>, bodies |-> <<1>>]
    <2>1. a.wire = <<<<object>>>> \o <<<<ack>>>> /\ a.bodies = <<object.body>>
      BY <1>1, <1>3, <1>9
    <2>. QED
      BY <1>1, <1>5, <2>1, ShortIs
  <1>10. CASE \E n \in 0 .. NumParts : \E ends \in Cuts(n) :
                a = [wire |-> Dump(n, ends, s), bodies |-> Upto(n)]
    BY <1>10 DEF IsDump
  <1>. QED
    BY <1>2, <1>6, <1>7, <1>8, <1>9, <1>10

LEMMA RequestStep ==
  ASSUME NetlinkInv, NEW k \in Requests, NEW opens \in BOOLEAN, Request(k, opens)
  PROVE  NetlinkInv'
  <1>1. /\ mFd = <<>> /\ nlmsgSeq' = nlmsgSeq + 1 /\ nlmsgSeq' \in 1 .. MaxSeq /\ nlmsgSeq' \in 0 .. MaxSeq
        /\ mNlmsg' = <<>> /\ mNlmsgHdr' = 1 /\ mNlmsgHdr' \in Nat /\ fetched' = <<>>
    BY NetlinkAssumption DEF NetlinkInv, NetlinkTypeOK, Request
  <1>2. <<>> \in Seq(Seq(Messages)) /\ <<>> \in Seq(Messages) /\ <<>> \in Seq(0 .. NumParts)
    OBVIOUS
  <1>3. CASE ~opens
    BY <1>1, <1>2, <1>3 DEF Request, NetlinkInv, NetlinkTypeOK
  <1>4. CASE opens
    <2>. DEFINE s == nlmsgSeq'
    <2>1. PICK a \in Answers(k, s) :
            asked' = k /\ nlStep' = "sent" /\ answered' = a.bodies /\ mFd' = mFd \o a.wire
      BY <1>4 DEF Request
    <2>2. s \in 1 .. MaxSeq
      BY <1>1
    <2>. HIDE DEF s
    <2>3. CASE IsShort(a, s)
      <3>1. a.wire \in Seq(Seq(Messages)) /\ a.bodies \in Seq(0 .. NumParts)
        BY <2>3 DEF IsShort
      <3>2. mFd' = a.wire
        BY <1>1, <2>1, <3>1
      <3>3. ShortAnswer'
        BY <1>1, <2>1, <2>3, <3>2 DEF IsShort, ShortAnswer, s
      <3>. QED
        BY <1>1, <1>2, <2>1, <3>1, <3>2, <3>3 DEF NetlinkInv, NetlinkTypeOK
    <2>4. CASE IsDump(a, s)
      <3>1. PICK n \in 0 .. NumParts : \E ends \in Cuts(n) : a.wire = Dump(n, ends, s) /\ a.bodies = Upto(n)
        BY <2>4 DEF IsDump
      <3>2. PICK ends \in Cuts(n) : a.wire = Dump(n, ends, s) /\ a.bodies = Upto(n)
        BY <3>1
      <3>3. a.wire \in Seq(Seq(Messages)) /\ Len(a.wire) = Len(ends) /\ n \in Nat
        BY <2>2, <3>2, DumpIs, NetlinkAssumption
      <3>4. mFd' = a.wire
        BY <1>1, <2>1, <3>3
      <3>5. a.bodies \in Seq(0 .. NumParts)
        BY <3>2, NetlinkAssumption DEF Upto
      <3>6. Len(ends) \in 1 .. n + 1 /\ 0 \in 0 .. Len(ends) - 1
        BY <3>3, CutsAre
      <3>7. \A i \in DOMAIN mFd' : mFd'[i] = Dump(n, ends, s)[i + 0]
        BY <3>2, <3>3, <3>4
      <3>8. DumpAnswer(n, ends, 0)'
        BY <1>1, <2>1, <3>2, <3>3, <3>4, <3>6, <3>7 DEF DumpAnswer, EndBefore, s
      <3>. QED
        BY <1>1, <1>2, <2>1, <3>3, <3>4, <3>5, <3>6, <3>8 DEF NetlinkInv, NetlinkTypeOK
    <2>. QED
      BY <2>2, <2>3, <2>4, AnswersAre
  <1>. QED
    BY <1>3, <1>4

LEMMA RcvShortStep ==
  ASSUME NetlinkInv, Rcv, ShortAnswer
  PROVE  NetlinkInv'
  <1>1. PICK m \in Messages :
          /\ mFd[1] = <<m>> /\ m.seq = nlmsgSeq
          /\ \/ m.kind \in {"nack", "overrun"}
             \/ m.kind \in {"ack", "object"} /\ answered = <<m.body>>
    BY DEF ShortAnswer
  <1>2. /\ mFd \in Seq(Seq(Messages)) /\ mNlmsg = <<>> /\ fetched = <<>> /\ mNlmsgHdr = 1 /\ mFd # <<>>
        /\ UNCHANGED <<asked, nlmsgSeq, mNlmsgHdr, fetched, answered>> /\ NetlinkTypeOK
    BY DEF NetlinkInv, NetlinkTypeOK, ShortAnswer, Rcv
  <1>. DEFINE d == Head(mFd)
  <1>3. d = <<m>> /\ d[1] = m /\ DOMAIN d = {1} /\ d \in Seq(Messages) /\ Len(d) = 1
    <2>1. d = mFd[1]
      BY <1>2
    <2>2. d = <<m>>
      BY <1>1, <2>1
    <2>. HIDE DEF d
    <2>. QED
      BY <2>2
  <1>4. <<>> \in Seq(Seq(Messages))
    OBVIOUS
  <1>. HIDE DEF d
  <1>5. CASE m.kind \in {"nack", "overrun"}
    <2>1. \E i \in DOMAIN d : Refuses(d[i])
      BY <1>3, <1>5 DEF Refuses
    <2>2. nlStep' = "failed" /\ mFd' = <<>> /\ mNlmsg' = mNlmsg
      BY <2>1 DEF Rcv, closed, d
    <2>. QED
      BY <1>2, <1>4, <2>2 DEF NetlinkInv, NetlinkTypeOK
  <1>6. CASE m.kind \in {"ack", "object"} /\ answered = <<m.body>>
    <2>1. ~ \E i \in DOMAIN d : Refuses(d[i])
      BY <1>1, <1>3, <1>6 DEF Refuses
    <2>2. Last(d) = m
      BY <1>3 DEF Last
    <2>3. Complete(Last(d))
      BY <1>6, <2>2 DEF Complete, Multi
    <2>4. nlStep' = "received" /\ mFd' = <<>> /\ mNlmsg' = mNlmsg \o d
      BY <2>1, <2>3 DEF Rcv, closed, d
    <2>5. mNlmsg' = d
      BY <1>2, <1>3, <2>4
    <2>6. Received'
      BY <1>2, <1>3, <1>6, <2>5 DEF Received
    <2>. QED
      BY <1>2, <1>3, <1>4, <2>4, <2>5, <2>6 DEF NetlinkInv, NetlinkTypeOK
  <1>. QED
    BY <1>1, <1>5, <1>6

LEMMA RcvDumpStep ==
  ASSUME NetlinkInv, Rcv, NEW n \in 0 .. NumParts, NEW ends \in Cuts(n), NEW j \in 0 .. Len(ends) - 1,
         DumpAnswer(n, ends, j)
  PROVE  NetlinkInv'
  <1>. DEFINE d == Head(mFd)
              s == nlmsgSeq
  <1>1. /\ mFd \in Seq(Seq(Messages)) /\ fetched = <<>> /\ mNlmsgHdr = 1 /\ mFd # <<>>
        /\ s \in 1 .. MaxSeq /\ mNlmsg \in Seq(Messages) /\ nlStep = "sent"
        /\ UNCHANGED <<asked, nlmsgSeq, mNlmsgHdr, fetched, answered>> /\ NetlinkTypeOK
    BY DEF NetlinkInv, NetlinkTypeOK, Rcv
  <1>2. n \in Nat /\ Len(ends) \in 1 .. n + 1 /\ j + 1 \in 1 .. Len(ends) /\ j \in Nat
    <2>1. n \in Nat
      BY NetlinkAssumption
    <2>. QED
      BY <2>1, CutsAre
  <1>3. d = Dump(n, ends, s)[j + 1]
    <2>1. d = mFd[1] /\ 1 \in DOMAIN mFd
      BY <1>1
    <2>. QED
      BY <1>2, <2>1 DEF DumpAnswer
  <1>. DEFINE b == EndBefore(ends, j + 1)
              e == ends[j + 1]
  <1>4. b \in 0 .. n /\ b < e /\ e \in 1 .. n + 1 /\ EndBefore(ends, j + 2) = e /\ (e = n + 1 <=> j + 1 = Len(ends))
    <2>1. (j + 1) + 1 = j + 2
      BY <1>2
    <2>. QED
      BY <1>2, <2>1, EndsBefore
  <1>5. IsDatagram(d, n, ends, s, j + 1)
    BY <1>1, <1>2, <1>3, DatagramIs
  <1>6. /\ d \in Seq(Messages) /\ Len(d) = e - b /\ Len(d) >= 1
        /\ \A i \in DOMAIN d : d[i] = DumpMessage(n, b + i, s)
        /\ Last(d).kind = IF j + 1 = Len(ends) THEN "done" ELSE "part"
    BY <1>5 DEF IsDatagram
  <1>7. /\ answered = Upto(n) /\ Len(mFd) = Len(ends) - j
        /\ \A k \in DOMAIN mFd : mFd[k] = Dump(n, ends, s)[k + j]
        /\ Len(mNlmsg) = b /\ \A i \in DOMAIN mNlmsg : mNlmsg[i] = DumpMessage(n, i, s)
    BY DEF DumpAnswer
  <1>8. ~ \E i \in DOMAIN d : Refuses(d[i])
    <2>1. ASSUME NEW i \in DOMAIN d PROVE d[i].kind \in {"part", "done"}
      <3>1. d[i] = Msg("part", b + i, s) \/ d[i] = Msg("done", 0, s)
        BY <1>6 DEF DumpMessage
      <3>. QED
        BY <3>1 DEF Msg
    <2>. QED
      BY <2>1 DEF Refuses
  <1>. HIDE DEF d, s, b, e
  <1>9. mNlmsg' = mNlmsg \o d
    BY <1>8 DEF Rcv, d
  <1>10. mNlmsg' \in Seq(Messages) /\ Len(mNlmsg') = e
    <2>1. mNlmsg \o d \in Seq(Messages) /\ Len(mNlmsg \o d) = Len(mNlmsg) + Len(d)
      BY <1>1, <1>6, ConcatElements
    <2>. QED
      BY <1>4, <1>6, <1>7, <1>9, <2>1
  <1>11. \A i \in DOMAIN mNlmsg' : mNlmsg'[i] = DumpMessage(n, i, s)
    <2>1. SUFFICES ASSUME NEW i \in DOMAIN (mNlmsg \o d) PROVE (mNlmsg \o d)[i] = DumpMessage(n, i, s)
      BY <1>9
    <2>2. CASE i \in DOMAIN mNlmsg
      <3>1. (mNlmsg \o d)[i] = mNlmsg[i]
        BY <1>1, <1>6, <2>2, ConcatElements
      <3>. QED
        BY <1>7, <2>2, <3>1
    <2>3. CASE i - b \in DOMAIN d /\ i > b
      <3>. DEFINE k == i - b
      <3>1. k \in DOMAIN d
        BY <2>3
      <3>. HIDE DEF k
      <3>2. (mNlmsg \o d)[Len(mNlmsg) + k] = d[k] /\ k \in Nat
        <4>1. mNlmsg \in Seq(Messages) /\ d \in Seq(Messages)
          BY <1>1, <1>6
        <4>. QED
          BY <3>1, <4>1, ConcatSecond
      <3>3. i \in Nat /\ i = b + k
        <4>1. i \in 1 .. Len(mNlmsg \o d) /\ Len(mNlmsg \o d) \in Nat
          BY <1>9, <1>10
        <4>. QED
          BY <1>4, <4>1 DEF k
      <3>4. d[k] = DumpMessage(n, i, s)
        BY <1>6, <3>1, <3>3
      <3>. QED
        BY <1>7, <3>2, <3>3, <3>4
    <2>4. i \in DOMAIN mNlmsg \/ (i - Len(mNlmsg) \in DOMAIN d /\ i > Len(mNlmsg))
      BY <1>1, <1>6, <2>1, ConcatElements
    <2>. QED
      BY <1>7, <2>2, <2>3, <2>4
  <1>12. CASE j + 1 = Len(ends)
    <2>1. Complete(Last(d))
      BY <1>6, <1>12 DEF Complete
    <2>2. nlStep' = "received" /\ mFd' = <<>>
      BY <1>8, <2>1 DEF Rcv, closed, d
    <2>3. answered' = Upto(n) /\ Len(Upto(n)) = n /\ DOMAIN Upto(n) = 1 .. n /\ \A i \in 1 .. n : Upto(n)[i] = i
      BY <1>1, <1>2, <1>7 DEF Upto
    <2>4. Len(mNlmsg') = n + 1
      BY <1>4, <1>10, <1>12
    <2>5. \A i \in 1 .. n : mNlmsg'[i] = Msg("part", i, s)
      BY <1>2, <1>10, <1>11, <2>4 DEF DumpMessage
    <2>6. mNlmsg'[n + 1].kind = "done"
      <3>1. n + 1 \in DOMAIN mNlmsg' /\ ~(n + 1 <= n)
        BY <1>2, <1>10, <2>4
      <3>2. mNlmsg'[n + 1] = Msg("done", 0, s)
        BY <1>11, <3>1 DEF DumpMessage
      <3>. QED
        BY <3>2 DEF Msg
    <2>7. Received'
      <3>1. Len(mNlmsg') = Len(answered') + 1 /\ mNlmsg'[Len(mNlmsg')].kind = "done"
        BY <2>3, <2>4, <2>6
      <3>2. \A i \in DOMAIN answered' : mNlmsg'[i].body = answered'[i] /\ mNlmsg'[i].kind # "done"
        <4>1. SUFFICES ASSUME NEW i \in 1 .. n PROVE mNlmsg'[i].body = Upto(n)[i] /\ mNlmsg'[i].kind # "done"
          BY <2>3
        <4>2. mNlmsg'[i] = Msg("part", i, s) /\ Upto(n)[i] = i
          BY <2>3, <2>5
        <4>. QED
          BY <4>2 DEF Msg
      <3>3. mNlmsgHdr' = 1 /\ fetched' = <<>> /\ Len(answered') \in Nat
        BY <1>1, <1>2, <2>3
      <3>. QED
        BY <3>1, <3>2, <3>3 DEF Received
    <2>8. <<>> \in Seq(Seq(Messages))
      OBVIOUS
    <2>. QED
      BY <1>1, <1>10, <2>2, <2>7, <2>8 DEF NetlinkInv, NetlinkTypeOK
  <1>13. CASE j + 1 # Len(ends)
    <2>1. ~Complete(Last(d))
      BY <1>6, <1>13 DEF Complete, Multi
    <2>2. nlStep' = "sent" /\ mFd' = Tail(mFd)
      BY <1>1, <1>8, <2>1 DEF Rcv, d
    <2>3. j + 1 \in 0 .. Len(ends) - 1 /\ (j + 1) + 1 = j + 2
      BY <1>2, <1>13
    <2>4. Len(mFd') = Len(ends) - (j + 1) /\ mFd' \in Seq(Seq(Messages))
          /\ \A k \in DOMAIN mFd' : k \in Nat /\ k + 1 \in DOMAIN mFd /\ mFd'[k] = mFd[k + 1]
      <3>1. /\ Tail(mFd) \in Seq(Seq(Messages)) /\ Len(Tail(mFd)) = Len(mFd) - 1
            /\ \A k \in DOMAIN Tail(mFd) : k \in Nat /\ k + 1 \in DOMAIN mFd /\ Tail(mFd)[k] = mFd[k + 1]
        BY <1>1, TailElements
      <3>. QED
        BY <1>2, <1>7, <2>2, <3>1
    <2>5. ASSUME NEW k \in DOMAIN mFd' PROVE mFd'[k] = Dump(n, ends, s)[k + (j + 1)]
      <3>. DEFINE k1 == k + 1
      <3>1. k \in Nat /\ k1 + j = k + (j + 1)
        BY <1>2, <2>4
      <3>2. k1 \in DOMAIN mFd /\ mFd'[k] = mFd[k1]
        BY <2>4
      <3>. HIDE DEF k1
      <3>3. mFd[k1] = Dump(n, ends, s)[k1 + j]
        BY <1>7, <3>2
      <3>. QED
        BY <3>1, <3>2, <3>3
    <2>6. s = nlmsgSeq'
      BY <1>1 DEF s
    <2>7. DumpAnswer(n, ends, j + 1)'
      BY <1>1, <1>4, <1>7, <1>10, <1>11, <2>3, <2>4, <2>5, <2>6 DEF DumpAnswer
    <2>. QED
      BY <1>1, <1>10, <2>2, <2>3, <2>4, <2>6, <2>7 DEF NetlinkInv, NetlinkTypeOK
  <1>. QED
    BY <1>12, <1>13

LEMMA FetchStep ==
  ASSUME NetlinkInv, FetchNextMessage \/ ResponseRead
  PROVE  NetlinkInv'
  <1>1. NetlinkTypeOK /\ Received /\ mFd = <<>> /\ UNCHANGED <<asked, nlmsgSeq, mFd, mNlmsg, answered>>
    BY DEF NetlinkInv, FetchNextMessage, ResponseRead
  <1>2. /\ mNlmsg \in Seq(Messages) /\ answered \in Seq(0 .. NumParts) /\ fetched \in Seq(0 .. NumParts)
        /\ mNlmsgHdr \in Nat
    BY <1>1 DEF NetlinkTypeOK
  <1>3. CASE FetchNextMessage
    <2>1. /\ mNlmsgHdr <= Len(mNlmsg) /\ mNlmsg[mNlmsgHdr].kind # "done" /\ mNlmsgHdr' = mNlmsgHdr + 1
          /\ fetched' = Append(fetched, mNlmsg[mNlmsgHdr].body) /\ nlStep' = "received"
      BY <1>3 DEF FetchNextMessage, hasMessage
    <2>2. Len(fetched) = mNlmsgHdr - 1 /\ mNlmsgHdr \in 1 .. Len(answered) /\ mNlmsgHdr \in DOMAIN answered
      <3>1. Len(fetched) = mNlmsgHdr - 1 /\ Len(fetched) \in Nat /\ mNlmsgHdr <= Len(answered) + 1
        BY <1>1, <1>2 DEF Received
      <3>2. mNlmsgHdr # Len(answered) + 1
        <4>1. \/ Len(mNlmsg) = Len(answered)
              \/ Len(mNlmsg) = Len(answered) + 1 /\ mNlmsg[Len(mNlmsg)].kind = "done"
          BY <1>1 DEF Received
        <4>. QED
          BY <1>2, <2>1, <4>1
      <3>. QED
        BY <1>2, <3>1, <3>2
    <2>3. mNlmsg[mNlmsgHdr].body = answered[mNlmsgHdr]
      BY <1>1, <2>2 DEF Received
    <2>. DEFINE e == answered[mNlmsgHdr]
    <2>8. e \in 0 .. NumParts
      <3>1. answered \in [1 .. Len(answered) -> 0 .. NumParts]
        <4>1. answered \in Seq(0 .. NumParts)
          BY <1>2
        <4>. QED
          BY <4>1, LenProperties
      <3>. QED
        BY <2>2, <3>1
    <2>4. fetched' = Append(fetched, answered[mNlmsgHdr]) /\ answered[mNlmsgHdr] \in 0 .. NumParts
      BY <2>1, <2>3, <2>8
    <2>. HIDE DEF Received
    <2>5. /\ fetched' \in Seq(0 .. NumParts) /\ Len(fetched') = mNlmsgHdr
          /\ fetched'[mNlmsgHdr] = answered[mNlmsgHdr]
          /\ \A i \in DOMAIN fetched : fetched'[i] = fetched[i]
          /\ DOMAIN fetched' = DOMAIN fetched \cup {mNlmsgHdr}
      BY <1>2, <2>2, <2>4, AppendElements
    <2>6. \A i \in DOMAIN fetched' : fetched'[i] = answered[i]
      BY <1>1, <2>5 DEF Received
    <2>7. Received'
      BY <1>1, <1>2, <2>1, <2>2, <2>5, <2>6 DEF Received
    <2>. QED
      BY <1>1, <1>2, <2>1, <2>5, <2>7 DEF NetlinkInv, NetlinkTypeOK
  <1>4. CASE ResponseRead
    <2>1. UNCHANGED <<mNlmsgHdr, fetched>> /\ nlStep' = "idle" /\ ~hasMessage
      BY <1>4 DEF ResponseRead
    <2>2. mNlmsgHdr = Len(answered) + 1
      <3>1. mNlmsgHdr <= Len(answered) + 1 /\ mNlmsgHdr >= 1
        BY <1>1, <1>2 DEF Received
      <3>2. CASE mNlmsgHdr <= Len(answered)
        <4>1. mNlmsgHdr \in DOMAIN answered /\ mNlmsgHdr <= Len(mNlmsg)
          BY <1>1, <1>2, <3>1, <3>2 DEF Received
        <4>2. mNlmsg[mNlmsgHdr].kind # "done"
          BY <1>1, <4>1 DEF Received
        <4>. QED
          BY <2>1, <4>1, <4>2 DEF hasMessage
      <3>. QED
        BY <1>2, <3>1, <3>2
    <2>3. Len(fetched) = Len(answered) /\ \A i \in DOMAIN fetched : fetched[i] = answered[i]
      BY <1>1, <1>2, <2>2 DEF Received
    <2>4. fetched = answered
      BY <1>2, <2>3
    <2>. QED
      BY <1>1, <1>2, <2>1, <2>4 DEF NetlinkInv, NetlinkTypeOK
  <1>. QED
    BY <1>3, <1>4

LEMMA NetlinkStep == NetlinkInv /\ [NetlinkNext]_netlinkVars => NetlinkInv'
  <1>1. NetlinkInv /\ UNCHANGED netlinkVars => NetlinkInv'
    BY DEF netlinkVars, NetlinkInv, NetlinkTypeOK, Received, ShortAnswer, DumpAnswer
  <1>2. NetlinkInv /\ Rcv => NetlinkInv'
    <2>1. NetlinkInv /\ Rcv => ShortAnswer \/ \E n \in 0 .. NumParts : \E ends \in Cuts(n) :
                                                \E j \in 0 .. Len(ends) - 1 : DumpAnswer(n, ends, j)
      BY DEF NetlinkInv, Rcv
    <2>. QED
      BY <2>1, RcvShortStep, RcvDumpStep
  <1>. QED
    BY <1>1, <1>2, RequestStep, FetchStep DEF NetlinkNext

LEMMA NetlinkInvExact == NetlinkInv => NetlinkTypeOK /\ ReadExact
  BY DEF NetlinkInv, ReadExact

\* In every behaviour a caller that reads to the end has fetched exactly what the kernel answered,
\* however the answer was cut and whatever was left of earlier ones.
THEOREM NetlinkExact == NetlinkSpec => [](NetlinkTypeOK /\ ReadExact)
  <1>1. NetlinkInit => NetlinkInv
    BY NetlinkInitHolds
  <1>2. NetlinkInv /\ [NetlinkNext]_netlinkVars => NetlinkInv'
    BY NetlinkStep
  <1>3. NetlinkInv => NetlinkTypeOK /\ ReadExact
    BY NetlinkInvExact
  <1>. QED
    BY <1>1, <1>2, <1>3, PTL DEF NetlinkSpec

-----------------------------------------------------------------------------
(* The interfaces of lxcpp containers.                                     *)

\* What an interface is: one of the host's own, a bridge, the host's end of a
\* configured pair, the container's, or one made on a running container.
HostEnds == ZoneNames \X Containers \X (Nat \ {0})
PhysLink(l) == l.kind = "phys" /\ \E n \in FreeNames : l.name = Plain(n) /\ l.pair = <<n>>
BridgeLink(l) == l.ns = "host" /\ l.kind = "bridge" /\ \E h \in BridgeNames : l.name = Plain(h) /\ l.pair = <<h>>
OuterLink(l) == l.ns = "host" /\ l.kind = "veth" /\ l.pair \in HostEnds /\ l.name = l.pair
InnerLink(l) == l.kind = "veth" /\ l.pair \in HostEnds /\ l.name = Plain(l.pair[1]) /\ l.ns \in {"host", l.pair[2]}
MadeLink(l) ==
  /\ l.ns \in Containers /\ l.kind \in {"veth", "macvlan"}
  /\ \E n \in FreeNames : l.pair = <<l.ns, n>>
  /\ \E n \in FreeNames \cup {"peer"} : l.name = Plain(n)

LinkLike(l) ==
  l \in [ns : Containers \cup {"host"}, name : {l.name}, kind : {l.kind}, pair : {l.pair}, master : {l.master},
         up : BOOLEAN, addrs : SUBSET InetAddresses]

LinkShaped(l) == LinkLike(l) /\ (PhysLink(l) \/ BridgeLink(l) \/ OuterLink(l) \/ InnerLink(l) \/ MadeLink(l))

\* The kernel's interfaces: a name is one interface's in its namespace, and one end's of
\* its pair; and the container's end has its other end on the host.
LinksOK(ls) ==
  /\ \A l \in ls : LinkShaped(l)
  /\ \A l, m \in ls : l.ns = m.ns /\ l.name = m.name => l = m
  /\ \A l, m \in ls : l.pair = m.pair /\ l.name = m.name => l = m
  /\ \A l \in ls : InnerLink(l) => \E o \in ls : OuterLink(o) /\ o.pair = l.pair

KnownConfigs ==
  {k \in Configs : /\ k.type # "LOOPBACK" => k.hostif \in BridgeNames
                   /\ k.type = "VETH_BRIDGED" => k.zoneif \in ZoneNames}

GuardsTyped ==
  /\ mInterfaces \in [Containers -> Seq(KnownConfigs)]
  /\ \A c \in Containers : Len(mInterfaces[c]) <= MaxConfigs
  /\ call \in [Containers -> [step : Calls, at : 1 .. MaxConfigs + 1, todo : SUBSET InetAddresses]]
  /\ starts \in [Containers -> Nat]
  /\ routes \in [Containers -> SUBSET InetAddresses]

\* A bridge is up with these addresses; a pair is made, with the container's end in
\* `where', its host's end in the bridge, and up.
BridgeIn(ls, k) == \E b \in ls : b.kind = "bridge" /\ b.name = Plain(k.hostif)
BridgeMade(ls, k, addrs) == \E b \in ls : b.kind = "bridge" /\ b.name = Plain(k.hostif) /\ b.up /\ addrs \subseteq b.addrs
PairMade(ls, p, k, where, joined, isUp) ==
  \E inner, outer \in ls :
    /\ InnerLink(inner) /\ inner.ns = where /\ inner.pair = p
    /\ OuterLink(outer) /\ outer.pair = p
    /\ joined => outer.master = k.hostif /\ BridgeIn(ls, k)
    /\ isUp => outer.up

WiredIn(ls, p, c, k) ==
  /\ k.type = "BRIDGE" => BridgeMade(ls, k, ToSet(k.addrs))
  /\ k.type = "VETH_BRIDGED" => PairMade(ls, p, k, c, TRUE, TRUE)

AtBridge == {"exists", "create", "up", "list", "addresses"}
AtPair == {"pair", "toBridge", "peerUp", "move"}

\* What a guard has done of the interface that it works at.
Underway(ls, p, step, k, todo) ==
  /\ step \in AtBridge => k.type = "BRIDGE"
  /\ step \in AtPair => k.type = "VETH_BRIDGED"
  /\ step = "list" => BridgeMade(ls, k, {})
  /\ step = "addresses" => BridgeMade(ls, k, ToSet(k.addrs) \ todo)
  /\ step = "toBridge" => PairMade(ls, p, k, "host", FALSE, FALSE)
  /\ step = "peerUp" => PairMade(ls, p, k, "host", TRUE, FALSE)
  /\ step = "move" => PairMade(ls, p, k, "host", TRUE, TRUE)

IsDone(step, i, at) ==
  \/ step \in {"next"} \cup AtBridge \cup AtPair /\ i < at
  \/ step \in {"configure", "running"}

GuardInv(c) ==
  /\ call[c].step \in AtBridge \cup AtPair => call[c].at <= Len(mInterfaces[c])
  /\ call[c].step # "idle" => starts[c] > 0
  /\ \A i \in DOMAIN mInterfaces[c] :
       IsDone(call[c].step, i, call[c].at) => WiredIn(interfaces, hostEnd(c, mInterfaces[c][i]), c, mInterfaces[c][i])
  /\ call[c].step \in AtBridge \cup AtPair =>
       Underway(interfaces, hostEnd(c, config(c)), call[c].step, config(c), call[c].todo)

ContainerNetInv == GuardsTyped /\ LinksOK(interfaces) /\ \A c \in Containers : GuardInv(c)

-----------------------------------------------------------------------------
\* Names and pairs of different kinds are different.
LEMMA NamesApart ==
  /\ \A a, b : Plain(a) = Plain(b) => a = b
  /\ \A a : Plain(a) \notin HostEnds
  /\ \A a : <<a>> \notin HostEnds
  /\ \A a, b : <<a, b>> \notin HostEnds
  /\ \A a, b, n : <<a>> # <<b, n>>
  /\ \A a, b : <<a>> = <<b>> => a = b
  /\ \A a, b, c, d : <<a, b>> = <<c, d>> => a = c /\ b = d
  <1>1. \A a, b : Plain(a) = Plain(b) => a = b
    BY DEF Plain
  <1>2. \A a : Plain(a) \notin HostEnds
    BY DEF Plain, HostEnds
  <1>3. \A a : <<a>> \notin HostEnds
    BY DEF HostEnds
  <1>4. \A a, b : <<a, b>> \notin HostEnds
    BY DEF HostEnds
  <1>5. \A a, b, n : <<a>> # <<b, n>>
    OBVIOUS
  <1>6. /\ \A a, b : <<a>> = <<b>> => a = b
        /\ \A a, b, c, d : <<a, b>> = <<c, d>> => a = c /\ b = d
    OBVIOUS
  <1>. QED
    BY <1>1, <1>2, <1>3, <1>4, <1>5, <1>6

-----------------------------------------------------------------------------
\* Sets of interfaces.
Like(l, m) == m.ns = l.ns /\ m.name = l.name /\ m.kind = l.kind /\ m.pair = l.pair
Stays(l, ls) == \E m \in ls : Like(l, m)
StaysWell(l, ls) == \E m \in ls : Like(l, m) /\ (l.up => m.up) /\ l.addrs \subseteq m.addrs /\ m.master = l.master
BridgesStay(ls, ms) == \A l \in ls : l.kind = "bridge" => StaysWell(l, ms)
PairStays(ls, ms, p) ==
  \A l \in ls : l.pair = p => (OuterLink(l) => StaysWell(l, ms)) /\ (InnerLink(l) => Stays(l, ms))

LEMMA LikeIsLike ==
  ASSUME NEW l, NEW m, Like(l, m)
  PROVE  /\ (PhysLink(l) => PhysLink(m)) /\ (BridgeLink(l) => BridgeLink(m))
         /\ (OuterLink(l) => OuterLink(m)) /\ (InnerLink(l) => InnerLink(m)) /\ (MadeLink(l) => MadeLink(m))
         /\ m.ns = l.ns /\ m.name = l.name /\ m.kind = l.kind /\ m.pair = l.pair
  BY DEF Like, PhysLink, BridgeLink, OuterLink, InnerLink, MadeLink

LEMMA BridgeMadeStays ==
  ASSUME NEW ls, NEW ms, BridgesStay(ls, ms), NEW k, NEW addrs, BridgeMade(ls, k, addrs)
  PROVE  BridgeMade(ms, k, addrs)
  BY DEF BridgeMade, BridgesStay, StaysWell, Like

LEMMA BridgeInStays ==
  ASSUME NEW ls, NEW ms, BridgesStay(ls, ms), NEW k, BridgeIn(ls, k)
  PROVE  BridgeIn(ms, k)
  BY DEF BridgeIn, BridgesStay, StaysWell, Like

LEMMA PairMadeStays ==
  ASSUME NEW ls, NEW ms, NEW p, BridgesStay(ls, ms), PairStays(ls, ms, p), NEW k, NEW where,
         NEW joined \in BOOLEAN, NEW isUp \in BOOLEAN, PairMade(ls, p, k, where, joined, isUp)
  PROVE  PairMade(ms, p, k, where, joined, isUp)
  <1>1. PICK inner \in ls, outer \in ls :
          /\ InnerLink(inner) /\ inner.ns = where /\ inner.pair = p
          /\ OuterLink(outer) /\ outer.pair = p
          /\ joined => outer.master = k.hostif /\ BridgeIn(ls, k)
          /\ isUp => outer.up
    BY DEF PairMade
  <1>2. PICK m \in ms : Like(inner, m)
    BY <1>1 DEF PairStays, Stays
  <1>3. PICK o \in ms : Like(outer, o) /\ (outer.up => o.up) /\ o.master = outer.master
    BY <1>1 DEF PairStays, StaysWell
  <1>4. InnerLink(m) /\ m.ns = where /\ m.pair = p
    BY <1>1, <1>2, LikeIsLike
  <1>5. OuterLink(o) /\ o.pair = p
    BY <1>1, <1>3, LikeIsLike
  <1>6. joined => BridgeIn(ms, k)
    BY <1>1, BridgeInStays
  <1>. QED
    BY <1>1, <1>3, <1>4, <1>5, <1>6 DEF PairMade

LEMMA WiredStays ==
  ASSUME NEW ls, NEW ms, NEW p, NEW c, NEW k, BridgesStay(ls, ms), k.type = "VETH_BRIDGED" => PairStays(ls, ms, p),
         WiredIn(ls, p, c, k)
  PROVE  WiredIn(ms, p, c, k)
  BY BridgeMadeStays, PairMadeStays DEF WiredIn

LEMMA UnderwayStays ==
  ASSUME NEW ls, NEW ms, NEW p, NEW step, NEW k, NEW todo, BridgesStay(ls, ms),
         k.type = "VETH_BRIDGED" => PairStays(ls, ms, p), Underway(ls, p, step, k, todo)
  PROVE  Underway(ms, p, step, k, todo)
  <1>1. step = "list" => BridgeMade(ms, k, {})
    BY BridgeMadeStays DEF Underway
  <1>2. step = "addresses" => BridgeMade(ms, k, ToSet(k.addrs) \ todo)
    BY BridgeMadeStays DEF Underway
  <1>3. step \in AtPair => PairStays(ls, ms, p)
    BY DEF Underway
  <1>4. "toBridge" \in AtPair /\ "peerUp" \in AtPair /\ "move" \in AtPair
    BY DEF AtPair
  <1>5. step = "toBridge" => PairMade(ms, p, k, "host", FALSE, FALSE)
    BY <1>3, <1>4, PairMadeStays DEF Underway
  <1>6. step = "peerUp" => PairMade(ms, p, k, "host", TRUE, FALSE)
    BY <1>3, <1>4, PairMadeStays DEF Underway
  <1>7. step = "move" => PairMade(ms, p, k, "host", TRUE, TRUE)
    BY <1>3, <1>4, PairMadeStays DEF Underway
  <1>. QED
    BY <1>1, <1>2, <1>5, <1>6, <1>7 DEF Underway

LEMMA Identical ==
  ASSUME NEW ls
  PROVE  BridgesStay(ls, ls) /\ \A p : PairStays(ls, ls, p)
  BY DEF BridgesStay, PairStays, StaysWell, Stays, Like

\* One interface changes but for its namespace, its name, its kind and its pair.
LEMMA Remade ==
  ASSUME NEW ls, LinksOK(ls), NEW l \in ls, NEW new, LinkLike(new), Like(l, new)
  PROVE  /\ LinksOK((ls \ {l}) \cup {new})
         /\ \A m \in ls : Stays(m, (ls \ {l}) \cup {new}) /\ (m # l => StaysWell(m, (ls \ {l}) \cup {new}))
  <1>. DEFINE ms == (ls \ {l}) \cup {new}
  <1>1. \A m \in ms : LinkShaped(m)
    <2>1. LinkShaped(l)
      BY DEF LinksOK
    <2>2. LinkShaped(new)
      BY <2>1, LikeIsLike DEF LinkShaped
    <2>. QED
      BY <2>2 DEF LinksOK
  <1>2. \A a, b \in ms : a.ns = b.ns /\ a.name = b.name => a = b
    BY DEF LinksOK, Like
  <1>3. \A a, b \in ms : a.pair = b.pair /\ a.name = b.name => a = b
    BY DEF LinksOK, Like
  <1>4. ASSUME NEW a \in ms, InnerLink(a) PROVE \E o \in ms : OuterLink(o) /\ o.pair = a.pair
    <2>1. Like(new, l)
      BY DEF Like
    <2>2. PICK b \in ls : InnerLink(b) /\ b.pair = a.pair
      <3>1. CASE a = new
        BY <1>4, <2>1, <3>1, LikeIsLike
      <3>2. CASE a \in ls
        BY <1>4, <3>2
      <3>. QED
        BY <3>1, <3>2
    <2>3. PICK o \in ls : OuterLink(o) /\ o.pair = b.pair
      BY <2>2 DEF LinksOK
    <2>4. CASE o = l
      BY <2>2, <2>3, <2>4, LikeIsLike
    <2>. QED
      BY <2>2, <2>3, <2>4
  <1>5. \A m \in ls : Stays(m, ms) /\ (m # l => StaysWell(m, ms))
    BY DEF Stays, StaysWell, Like
  <1>. QED
    BY <1>1, <1>2, <1>3, <1>4, <1>5 DEF LinksOK

\* And it becomes no less than it was.
LEMMA Improved ==
  ASSUME NEW ls, NEW l \in ls, NEW new, Like(l, new), l.up => new.up, l.addrs \subseteq new.addrs, new.master = l.master
  PROVE  \A m \in ls : StaysWell(m, (ls \ {l}) \cup {new})
  BY DEF StaysWell, Like

\* Interfaces are made of which there were none.
LEMMA Added ==
  ASSUME NEW ls, LinksOK(ls), NEW N, \A n \in N : LinkShaped(n),
         \A n, m \in N : n.name = m.name => n = m,
         \A n \in N, l \in ls : n.name = l.name => n.ns # l.ns /\ n.pair # l.pair,
         \A n \in N : InnerLink(n) => \E o \in N : OuterLink(o) /\ o.pair = n.pair
  PROVE  LinksOK(ls \cup N) /\ \A l \in ls : StaysWell(l, ls \cup N) /\ Stays(l, ls \cup N)
  <1>1. \A m \in ls \cup N : LinkShaped(m)
    BY DEF LinksOK
  <1>2. \A a, b \in ls \cup N : a.ns = b.ns /\ a.name = b.name => a = b
    BY DEF LinksOK
  <1>3. \A a, b \in ls \cup N : a.pair = b.pair /\ a.name = b.name => a = b
    BY DEF LinksOK
  <1>4. \A a \in ls \cup N : InnerLink(a) => \E o \in ls \cup N : OuterLink(o) /\ o.pair = a.pair
    BY DEF LinksOK
  <1>5. \A l \in ls : StaysWell(l, ls \cup N) /\ Stays(l, ls \cup N)
    BY DEF StaysWell, Stays, Like
  <1>. QED
    BY <1>1, <1>2, <1>3, <1>4, <1>5 DEF LinksOK

\* Whole pairs go.
LEMMA Taken ==
  ASSUME NEW ls, LinksOK(ls), NEW doomed
  PROVE  /\ LinksOK(Destroyed(ls, doomed))
         /\ \A l \in ls : (\A d \in doomed : d.pair # l.pair) => StaysWell(l, Destroyed(ls, doomed)) /\ Stays(l, Destroyed(ls, doomed))
  <1>. DEFINE ms == Destroyed(ls, doomed)
  <1>0. ms \subseteq ls
    BY DEF Destroyed
  <1>1. \A l \in ls : (\A d \in doomed : d.pair # l.pair) => l \in ms
    BY DEF Destroyed
  <1>2. \A a \in ms : InnerLink(a) => \E o \in ms : OuterLink(o) /\ o.pair = a.pair
    <2>1. SUFFICES ASSUME NEW a \in ms, InnerLink(a) PROVE \E o \in ms : OuterLink(o) /\ o.pair = a.pair
      OBVIOUS
    <2>2. PICK o \in ls : OuterLink(o) /\ o.pair = a.pair
      BY <1>0, <2>1 DEF LinksOK
    <2>3. \A d \in doomed : d.pair # a.pair
      BY <2>1 DEF Destroyed
    <2>. QED
      BY <1>1, <2>2, <2>3
  <1>3. \A l \in ms : StaysWell(l, ms) /\ Stays(l, ms)
    BY DEF StaysWell, Stays, Like
  <1>. HIDE DEF ms
  <1>4. LinksOK(ms)
    BY <1>0, <1>2 DEF LinksOK
  <1>. QED
    BY <1>1, <1>3, <1>4 DEF ms

\* What an interface is that has a certain name.
LEMMA KindsApart ==
  ASSUME NEW ls, LinksOK(ls), NEW l \in ls
  PROVE  /\ l.kind = "bridge" => BridgeLink(l)
         /\ l.ns = "host" => \A h \in BridgeNames : l.name = Plain(h) => BridgeLink(l)
         /\ l.name \in HostEnds => OuterLink(l)
         /\ l.ns = "host" => \A z \in ZoneNames : l.name = Plain(z) => InnerLink(l) /\ l.pair[1] = z
         /\ l.ns = "host" => \A n \in FreeNames : l.name = Plain(n) => PhysLink(l)
         /\ l.ns \in Containers => ~BridgeLink(l) /\ ~OuterLink(l) /\ (\A n \in FreeNames : l.name = Plain(n) => ~InnerLink(l))
         /\ PhysLink(l) => ~BridgeLink(l) /\ ~OuterLink(l) /\ ~InnerLink(l)
  <1>1. LinkShaped(l)
    BY DEF LinksOK
  <1>2. "host" \notin Containers /\ BridgeNames \cap ZoneNames = {} /\ FreeNames \cap (BridgeNames \cup ZoneNames) = {}
    BY ContainerNetworkAssumption, NamesAssumption
  <1>3. l.kind = "bridge" => BridgeLink(l)
    BY <1>1 DEF LinkShaped, PhysLink, OuterLink, InnerLink, MadeLink
  <1>4. /\ OuterLink(l) => l.name \in HostEnds
        /\ InnerLink(l) => \E z \in ZoneNames : l.pair[1] = z /\ l.name = Plain(z)
        /\ PhysLink(l) => \E n \in FreeNames : l.name = Plain(n)
        /\ BridgeLink(l) => l.ns = "host" /\ \E h \in BridgeNames : l.name = Plain(h)
        /\ MadeLink(l) => l.ns \in Containers /\ \E n : l.name = Plain(n)
    BY DEF OuterLink, InnerLink, PhysLink, BridgeLink, MadeLink, HostEnds
  <1>5. \A a, b : Plain(a) = Plain(b) => a = b
    BY NamesApart
  <1>6. \A a : Plain(a) \notin HostEnds
    BY NamesApart
  <1>7. ASSUME l.ns = "host", NEW h \in BridgeNames, l.name = Plain(h) PROVE BridgeLink(l)
    BY <1>1, <1>2, <1>4, <1>5, <1>6, <1>7 DEF LinkShaped
  <1>8. l.name \in HostEnds => OuterLink(l)
    BY <1>1, <1>4, <1>6 DEF LinkShaped
  <1>9. ASSUME l.ns = "host", NEW z \in ZoneNames, l.name = Plain(z) PROVE InnerLink(l) /\ l.pair[1] = z
    BY <1>1, <1>2, <1>4, <1>5, <1>6, <1>9 DEF LinkShaped
  <1>10. ASSUME l.ns = "host", NEW n \in FreeNames, l.name = Plain(n) PROVE PhysLink(l)
    BY <1>1, <1>2, <1>4, <1>5, <1>6, <1>10 DEF LinkShaped
  <1>11. l.ns \in Containers => ~BridgeLink(l) /\ ~OuterLink(l) /\ (\A n \in FreeNames : l.name = Plain(n) => ~InnerLink(l))
    BY <1>2, <1>4, <1>5 DEF OuterLink
  <1>12. PhysLink(l) => ~BridgeLink(l) /\ ~OuterLink(l) /\ ~InnerLink(l)
    BY DEF PhysLink, BridgeLink, OuterLink, InnerLink
  <1>. QED
    BY <1>3, <1>7, <1>8, <1>9, <1>10, <1>11, <1>12

LEMMA Found ==
  ASSUME NEW ns, NEW name, Has(ns, name)
  PROVE  Get(ns, name) \in interfaces /\ Get(ns, name).ns = ns /\ Get(ns, name).name = name
  BY DEF Has, Get

\* The links of two pairs of one container are its own.
LEMMA PairsApart ==
  ASSUME NEW ls, LinksOK(ls), NEW p, NEW k, NEW j, NEW q, NEW where, where # "host",
         NEW a, NEW b, NEW d, NEW e,
         PairMade(ls, p, k, "host", a, b), PairMade(ls, q, j, where, d, e)
  PROVE  p # q
  BY DEF PairMade, LinksOK, InnerLink

\* An interface goes to another namespace where its name is free; the host's end of a
\* pair stays.
LEMMA MovedTo ==
  ASSUME NEW ls, LinksOK(ls), NEW l \in ls, NEW new, LinkShaped(new), new.name = l.name, new.pair = l.pair,
         \A m \in ls : m.name = new.name => m.ns # new.ns,
         ~OuterLink(l), ~OuterLink(new), InnerLink(new) => InnerLink(l)
  PROVE  /\ LinksOK((ls \ {l}) \cup {new})
         /\ \A m \in ls : m # l => StaysWell(m, (ls \ {l}) \cup {new}) /\ Stays(m, (ls \ {l}) \cup {new})
  <1>. DEFINE ms == (ls \ {l}) \cup {new}
  <1>1. \A m \in ms : LinkShaped(m)
    BY DEF LinksOK
  <1>2. \A a, b \in ms : a.ns = b.ns /\ a.name = b.name => a = b
    BY DEF LinksOK
  <1>3. \A a, b \in ms : a.pair = b.pair /\ a.name = b.name => a = b
    BY DEF LinksOK
  <1>4. ASSUME NEW a \in ms, InnerLink(a) PROVE \E o \in ms : OuterLink(o) /\ o.pair = a.pair
    <2>1. PICK b \in ls : InnerLink(b) /\ b.pair = a.pair
      BY <1>4
    <2>2. PICK o \in ls : OuterLink(o) /\ o.pair = b.pair
      BY <2>1 DEF LinksOK
    <2>. QED
      BY <2>1, <2>2
  <1>5. \A m \in ls : m # l => StaysWell(m, ms) /\ Stays(m, ms)
    BY DEF Stays, StaysWell, Like
  <1>. QED
    BY <1>1, <1>2, <1>3, <1>4, <1>5 DEF LinksOK

-----------------------------------------------------------------------------
\* The guards.
LEMMA EndsOf ==
  ASSUME GuardsTyped, NEW c \in Containers, NEW k \in KnownConfigs, k.type = "VETH_BRIDGED", starts[c] > 0
  PROVE  /\ hostEnd(c, k) \in HostEnds /\ hostEnd(c, k)[1] = k.zoneif /\ hostEnd(c, k)[2] = c
         /\ k.zoneif \in ZoneNames /\ k.hostif \in BridgeNames
  BY DEF GuardsTyped, hostEnd, HostEnds, KnownConfigs

LEMMA ConfigsOf ==
  ASSUME GuardsTyped, NEW c \in Containers
  PROVE  /\ mInterfaces[c] \in Seq(KnownConfigs) /\ Len(mInterfaces[c]) \in Nat
         /\ DOMAIN mInterfaces[c] = 1 .. Len(mInterfaces[c])
         /\ \A i \in DOMAIN mInterfaces[c] : mInterfaces[c][i] \in KnownConfigs
         /\ call[c] \in [step : Calls, at : 1 .. MaxConfigs + 1, todo : SUBSET InetAddresses]
         /\ starts[c] \in Nat
  <1>1. mInterfaces[c] \in Seq(KnownConfigs)
    BY DEF GuardsTyped
  <1>2. /\ Len(mInterfaces[c]) \in Nat /\ DOMAIN mInterfaces[c] = 1 .. Len(mInterfaces[c])
        /\ \A i \in DOMAIN mInterfaces[c] : mInterfaces[c][i] \in KnownConfigs
    BY <1>1, LenProperties
  <1>. QED
    BY <1>1, <1>2 DEF GuardsTyped

LEMMA DoneNotIdle ==
  ASSUME NEW step, NEW i, NEW at, IsDone(step, i, at)
  PROVE  step # "idle"
  BY DEF IsDone, AtBridge, AtPair

LEMMA OtherGuard ==
  ASSUME GuardsTyped, NEW d \in Containers, GuardInv(d),
         call'[d] = call[d], mInterfaces'[d] = mInterfaces[d], starts'[d] = starts[d],
         BridgesStay(interfaces, interfaces'),
         \A p \in HostEnds : p[2] = d => PairStays(interfaces, interfaces', p)
  PROVE  GuardInv(d)'
  <1>1. ASSUME NEW k \in KnownConfigs, k.type = "VETH_BRIDGED", starts[d] > 0
        PROVE  PairStays(interfaces, interfaces', hostEnd(d, k))
    BY <1>1, EndsOf
  <1>2. \A k : hostEnd(d, k)' = hostEnd(d, k)
    BY DEF hostEnd
  <1>3. ASSUME NEW i \in DOMAIN mInterfaces[d], IsDone(call[d].step, i, call[d].at)
        PROVE  WiredIn(interfaces', hostEnd(d, mInterfaces[d][i]), d, mInterfaces[d][i])
    <2>1. WiredIn(interfaces, hostEnd(d, mInterfaces[d][i]), d, mInterfaces[d][i])
      BY <1>3 DEF GuardInv
    <2>2. mInterfaces[d][i] \in KnownConfigs /\ starts[d] > 0
      BY <1>3, ConfigsOf, DoneNotIdle DEF GuardInv
    <2>. QED
      BY <1>1, <2>1, <2>2, WiredStays
  <1>4. ASSUME call[d].step \in AtBridge \cup AtPair
        PROVE  Underway(interfaces', hostEnd(d, config(d)), call[d].step, config(d), call[d].todo)
    <2>1. Underway(interfaces, hostEnd(d, config(d)), call[d].step, config(d), call[d].todo)
      BY <1>4 DEF GuardInv
    <2>2. call[d].at \in DOMAIN mInterfaces[d] /\ call[d].step # "idle"
      BY <1>4, ConfigsOf DEF GuardInv, AtBridge, AtPair
    <2>3. config(d) \in KnownConfigs /\ starts[d] > 0
      BY <2>2, ConfigsOf DEF GuardInv, config
    <2>. QED
      BY <1>1, <2>1, <2>3, UnderwayStays
  <1>. QED
    BY <1>3, <1>4 DEF GuardInv, config, hostEnd

\* A guard that goes on keeps what it has done, and has done the next.
LEMMA OwnGuard ==
  ASSUME GuardsTyped, NEW c \in Containers, GuardInv(c), call[c].step # "idle",
         mInterfaces'[c] = mInterfaces[c], starts'[c] = starts[c],
         BridgesStay(interfaces, interfaces'),
         \A i \in DOMAIN mInterfaces[c] :
           IsDone(call[c].step, i, call[c].at) /\ mInterfaces[c][i].type = "VETH_BRIDGED"
             => PairStays(interfaces, interfaces', hostEnd(c, mInterfaces[c][i])),
         \A i \in DOMAIN mInterfaces[c] :
           IsDone(call'[c].step, i, call'[c].at) =>
             \/ IsDone(call[c].step, i, call[c].at)
             \/ WiredIn(interfaces', hostEnd(c, mInterfaces[c][i]), c, mInterfaces[c][i]),
         call'[c].step \in AtBridge \cup AtPair =>
           /\ call'[c].at <= Len(mInterfaces[c])
           /\ Underway(interfaces', hostEnd(c, mInterfaces[c][call'[c].at]), call'[c].step, mInterfaces[c][call'[c].at],
                       call'[c].todo)
  PROVE  GuardInv(c)'
  <1>1. ASSUME NEW i \in DOMAIN mInterfaces[c], IsDone(call[c].step, i, call[c].at)
        PROVE  WiredIn(interfaces', hostEnd(c, mInterfaces[c][i]), c, mInterfaces[c][i])
    <2>1. WiredIn(interfaces, hostEnd(c, mInterfaces[c][i]), c, mInterfaces[c][i])
      BY <1>1 DEF GuardInv
    <2>. QED
      BY <1>1, <2>1, WiredStays
  <1>. QED
    BY <1>1 DEF GuardInv, config, hostEnd

OnlyGuard(c) ==
  \A d \in Containers : d # c => call'[d] = call[d] /\ mInterfaces'[d] = mInterfaces[d] /\ starts'[d] = starts[d]

LEMMA ByOneGuard ==
  ASSUME ContainerNetInv, NEW c \in Containers, GuardsTyped', LinksOK(interfaces'), GuardInv(c)', OnlyGuard(c),
         BridgesStay(interfaces, interfaces'),
         \A p \in HostEnds : p[2] # c => PairStays(interfaces, interfaces', p)
  PROVE  ContainerNetInv'
  <1>1. ASSUME NEW d \in Containers, d # c PROVE GuardInv(d)'
    BY <1>1, OtherGuard DEF ContainerNetInv, OnlyGuard
  <1>. QED
    BY <1>1 DEF ContainerNetInv

-----------------------------------------------------------------------------
\* The steps that leave the interfaces as they are.
LEMMA QuietGuard ==
  ASSUME ContainerNetInv, NEW c \in Containers, GuardsTyped', interfaces' = interfaces, GuardInv(c)', OnlyGuard(c)
  PROVE  ContainerNetInv'
  <1>1. LinksOK(interfaces')
    BY DEF ContainerNetInv
  <1>2. BridgesStay(interfaces, interfaces') /\ \A p : PairStays(interfaces, interfaces', p)
    BY Identical
  <1>. QED
    BY <1>1, <1>2, ByOneGuard

\* The same, of a guard that is at work on its own.
LEMMA QuietOwn ==
  ASSUME GuardsTyped, NEW c \in Containers, GuardInv(c), call[c].step # "idle",
         mInterfaces' = mInterfaces, starts' = starts, interfaces' = interfaces,
         \A i \in DOMAIN mInterfaces[c] :
           IsDone(call'[c].step, i, call'[c].at) =>
             \/ IsDone(call[c].step, i, call[c].at)
             \/ WiredIn(interfaces, hostEnd(c, mInterfaces[c][i]), c, mInterfaces[c][i]),
         call'[c].step \in AtBridge \cup AtPair =>
           /\ call'[c].at <= Len(mInterfaces[c])
           /\ Underway(interfaces, hostEnd(c, mInterfaces[c][call'[c].at]), call'[c].step, mInterfaces[c][call'[c].at],
                       call'[c].todo)
  PROVE  GuardInv(c)'
  <1>1. BridgesStay(interfaces, interfaces') /\ \A p : PairStays(interfaces, interfaces', p)
    BY Identical
  <1>. QED
    BY <1>1, OwnGuard

LEMMA AddsInterface ==
  ASSUME ContainerNetInv, NEW c \in Containers, NEW new \in Candidates, addInterfaceConfig(c, new)
  PROVE  ContainerNetInv'
  <1>1. new \in KnownConfigs
    BY ContainerNetworkAssumption DEF KnownConfigs, BridgeNames, ZoneNames
  <1>2. mInterfaces[c] \in Seq(KnownConfigs) /\ Len(mInterfaces[c]) \in Nat /\ MaxConfigs \in Nat
    BY ConfigsOf, ContainerNetworkAssumption DEF ContainerNetInv
  <1>3. Append(mInterfaces[c], new) \in Seq(KnownConfigs) /\ Len(Append(mInterfaces[c], new)) = Len(mInterfaces[c]) + 1
    BY <1>1, <1>2, AppendElements
  <1>4. GuardsTyped'
    BY <1>2, <1>3 DEF ContainerNetInv, GuardsTyped, addInterfaceConfig
  <1>5. GuardInv(c)'
    BY DEF GuardInv, addInterfaceConfig, IsDone, AtBridge, AtPair
  <1>6. OnlyGuard(c) /\ interfaces' = interfaces
    BY DEF OnlyGuard, addInterfaceConfig, ContainerNetInv, GuardsTyped
  <1>. QED
    BY <1>4, <1>5, <1>6, QuietGuard

LEMMA AddsAddress ==
  ASSUME ContainerNetInv, NEW c \in Containers, NEW ifname, NEW addr \in InetAddresses, addInetConfig(c, ifname, addr)
  PROVE  ContainerNetInv'
  <1>1. PICK i \in DOMAIN mInterfaces[c] : mInterfaces' = [mInterfaces EXCEPT ![c][i].addrs = Append(@, addr)]
    BY DEF addInetConfig
  <1>. DEFINE old == mInterfaces[c]
              k == old[i]
              new == [k EXCEPT !.addrs = Append(@, addr)]
  <1>2. old \in Seq(KnownConfigs) /\ Len(old) \in Nat /\ DOMAIN old = 1 .. Len(old) /\ k \in KnownConfigs
    BY ConfigsOf DEF ContainerNetInv
  <1>3. new \in KnownConfigs
    <2>1. k.addrs \in Seq(InetAddresses)
      BY <1>2 DEF KnownConfigs, Configs
    <2>2. Append(k.addrs, addr) \in Seq(InetAddresses)
      BY <2>1, AppendElements
    <2>. HIDE DEF k
    <2>. QED
      BY <1>2, <2>2 DEF KnownConfigs, Configs
  <1>4. mInterfaces'[c] = [old EXCEPT ![i] = new] /\ \A d \in Containers : d # c => mInterfaces'[d] = mInterfaces[d]
    BY <1>1 DEF ContainerNetInv, GuardsTyped
  <1>5. mInterfaces'[c] \in Seq(KnownConfigs) /\ Len(mInterfaces'[c]) = Len(old)
    <2>1. i \in 1 .. Len(old)
      BY <1>2
    <2>. HIDE DEF old, new
    <2>2. [old EXCEPT ![i] = new] \in Seq(KnownConfigs) /\ Len([old EXCEPT ![i] = new]) = Len(old)
      BY <1>2, <1>3, <2>1, ExceptSeq
    <2>. QED
      BY <1>4, <2>2
  <1>6. mInterfaces' \in [Containers -> Seq(KnownConfigs)]
    BY <1>1, <1>4, <1>5 DEF ContainerNetInv, GuardsTyped
  <1>7. GuardsTyped'
    BY <1>4, <1>5, <1>6 DEF ContainerNetInv, GuardsTyped, addInetConfig
  <1>8. GuardInv(c)'
    BY DEF GuardInv, addInetConfig, IsDone, AtBridge, AtPair
  <1>9. OnlyGuard(c) /\ interfaces' = interfaces
    BY <1>4 DEF OnlyGuard, addInetConfig
  <1>. QED
    BY <1>7, <1>8, <1>9, QuietGuard

LEMMA NetworkStarts ==
  ASSUME ContainerNetInv, NEW c \in Containers, StartNetwork(c)
  PROVE  ContainerNetInv'
  <1>1. call'[c] = [step |-> "next", at |-> 1, todo |-> {}] /\ starts'[c] = starts[c] + 1 /\ interfaces' = interfaces
        /\ mInterfaces' = mInterfaces
    BY DEF StartNetwork, ContainerNetInv, GuardsTyped
  <1>2. GuardsTyped'
    <2>1. [step |-> "next", at |-> 1, todo |-> {}] \in [step : Calls, at : 1 .. MaxConfigs + 1, todo : SUBSET InetAddresses]
      BY ContainerNetworkAssumption DEF Calls
    <2>. QED
      BY <2>1 DEF StartNetwork, ContainerNetInv, GuardsTyped
  <1>3. GuardInv(c)'
    <2>1. \A i \in DOMAIN mInterfaces[c] : ~(i < 1)
      BY ConfigsOf DEF ContainerNetInv
    <2>2. starts[c] \in Nat
      BY ConfigsOf DEF ContainerNetInv
    <2>. QED
      BY <1>1, <2>1, <2>2 DEF GuardInv, IsDone, AtBridge, AtPair
  <1>4. OnlyGuard(c)
    BY DEF OnlyGuard, StartNetwork, ContainerNetInv, GuardsTyped
  <1>. QED
    BY <1>1, <1>2, <1>3, <1>4, QuietGuard

\* Where a guard is that has an interface before it.
LEMMA AtConfig ==
  ASSUME ContainerNetInv, NEW c \in Containers, call[c].step \in AtBridge \cup AtPair
  PROVE  /\ config(c) \in KnownConfigs /\ call[c].at \in DOMAIN mInterfaces[c] /\ config(c) = mInterfaces[c][call[c].at]
         /\ call[c].at <= MaxConfigs
         /\ Underway(interfaces, hostEnd(c, config(c)), call[c].step, config(c), call[c].todo)
         /\ starts[c] > 0
  <1>1. /\ Len(mInterfaces[c]) \in Nat /\ DOMAIN mInterfaces[c] = 1 .. Len(mInterfaces[c])
        /\ call[c].at \in 1 .. MaxConfigs + 1 /\ Len(mInterfaces[c]) <= MaxConfigs /\ MaxConfigs \in Nat
    BY ConfigsOf, ContainerNetworkAssumption DEF ContainerNetInv, GuardsTyped
  <1>2. call[c].at <= Len(mInterfaces[c])
    BY DEF ContainerNetInv, GuardInv
  <1>3. call[c].at \in DOMAIN mInterfaces[c] /\ call[c].at <= MaxConfigs
    BY <1>1, <1>2
  <1>4. config(c) \in KnownConfigs /\ config(c) = mInterfaces[c][call[c].at]
    BY <1>3, ConfigsOf DEF ContainerNetInv, config
  <1>5. call[c].step # "idle"
    BY DEF AtBridge, AtPair
  <1>6. Underway(interfaces, hostEnd(c, config(c)), call[c].step, config(c), call[c].todo) /\ starts[c] > 0
    BY <1>5 DEF ContainerNetInv, GuardInv
  <1>. QED
    BY <1>3, <1>4, <1>6

LEMMA StepsApart ==
  /\ "next" \notin AtBridge \cup AtPair /\ "idle" \notin AtBridge \cup AtPair /\ "failed" \notin AtBridge \cup AtPair
  /\ "configure" \notin AtBridge \cup AtPair /\ "running" \notin AtBridge \cup AtPair
  /\ AtBridge \cap AtPair = {}
  /\ {"exists", "create", "up", "list", "addresses"} \subseteq AtBridge
  /\ {"pair", "toBridge", "peerUp", "move"} \subseteq AtPair
  /\ AtBridge \subseteq Calls /\ AtPair \subseteq Calls /\ {"next", "idle", "failed", "configure", "running"} \subseteq Calls
  BY DEF AtBridge, AtPair, Calls

\* The typing of a guard's next call.
LEMMA CallTyped ==
  ASSUME GuardsTyped, NEW c \in Containers, NEW new \in [step : Calls, at : 1 .. MaxConfigs + 1, todo : SUBSET InetAddresses],
         call' = [call EXCEPT ![c] = new], mInterfaces' = mInterfaces, starts' = starts,
         routes' \in [Containers -> SUBSET InetAddresses]
  PROVE  GuardsTyped' /\ call'[c] = new /\ OnlyGuard(c)
  BY DEF GuardsTyped, OnlyGuard

LEMMA NextInterfaceStep ==
  ASSUME ContainerNetInv, NEW c \in Containers, NextInterface(c)
  PROVE  ContainerNetInv'
  <1>. DEFINE at == call[c].at
              n == Len(mInterfaces[c])
  <1>1. /\ n \in Nat /\ DOMAIN mInterfaces[c] = 1 .. n /\ n <= MaxConfigs /\ MaxConfigs \in Nat
        /\ call[c] \in [step : Calls, at : 1 .. MaxConfigs + 1, todo : SUBSET InetAddresses]
        /\ call[c].step = "next"
    BY ConfigsOf, ContainerNetworkAssumption DEF ContainerNetInv, GuardsTyped, NextInterface, At
  <1>2. UNCHANGED <<interfaces, mInterfaces, starts, routes>>
    BY DEF NextInterface, guardFrame
  <1>3. \A i \in DOMAIN mInterfaces[c] : i < at => IsDone(call[c].step, i, at)
    BY <1>1 DEF IsDone
  <1>4. CASE at > n
    <2>. DEFINE new == [call[c] EXCEPT !.step = "configure", !.at = 1]
    <2>0. call' = [call EXCEPT ![c] = new]
      BY <1>4 DEF NextInterface
    <2>1. new \in [step : Calls, at : 1 .. MaxConfigs + 1, todo : SUBSET InetAddresses]
      <3>1. "configure" \in Calls /\ 1 \in 1 .. MaxConfigs + 1
        BY <1>1 DEF Calls
      <3>. QED
        BY <1>1, <3>1
    <2>2. GuardsTyped' /\ call'[c] = new /\ OnlyGuard(c)
      BY <1>2, <2>0, <2>1, CallTyped DEF ContainerNetInv, GuardsTyped
    <2>3. call'[c].step = "configure"
      BY <1>1, <2>2
    <2>4. \A i \in DOMAIN mInterfaces[c] : IsDone(call[c].step, i, at)
      BY <1>1, <1>3, <1>4
    <2>5. GuardInv(c)'
      BY <1>1, <1>2, <2>3, <2>4, QuietOwn, StepsApart DEF ContainerNetInv
    <2>. QED
      BY <1>2, <2>2, <2>5, QuietGuard
  <1>5. CASE at <= n
    <2>1. config(c) \in KnownConfigs /\ config(c) = mInterfaces[c][at] /\ at \in DOMAIN mInterfaces[c]
      BY <1>1, <1>5, ConfigsOf DEF ContainerNetInv, config
    <2>5. ~(at > n)
      BY <1>1, <1>5
    <2>6. (CASE config(c).type = "LOOPBACK" -> NextConfig(c)
             [] config(c).type = "BRIDGE" -> Goes(c, "exists")
             [] config(c).type = "VETH_BRIDGED" -> Goes(c, "pair"))
      BY <2>5 DEF NextInterface
    <2>7. /\ config(c).type = "LOOPBACK" => NextConfig(c)
          /\ config(c).type = "BRIDGE" => Goes(c, "exists")
          /\ config(c).type = "VETH_BRIDGED" => Goes(c, "pair")
      BY <2>6
    <2>2. CASE config(c).type = "LOOPBACK"
      <3>. DEFINE new == [step |-> "next", at |-> at + 1, todo |-> {}]
      <3>1. call' = [call EXCEPT ![c] = new]
        BY <2>2, <2>7 DEF NextConfig
      <3>2. new \in [step : Calls, at : 1 .. MaxConfigs + 1, todo : SUBSET InetAddresses]
        <4>1. "next" \in Calls /\ at + 1 \in 1 .. MaxConfigs + 1
          BY <1>1, <1>5 DEF Calls
        <4>. QED
          BY <1>1, <4>1
      <3>3. GuardsTyped' /\ call'[c] = new /\ OnlyGuard(c)
        BY <1>2, <3>1, <3>2, CallTyped DEF ContainerNetInv, GuardsTyped
      <3>4. call'[c].step = "next" /\ call'[c].at = at + 1
        BY <1>1, <3>3
      <3>5. ASSUME NEW i \in DOMAIN mInterfaces[c], IsDone("next", i, at + 1)
            PROVE  IsDone(call[c].step, i, at) \/ WiredIn(interfaces, hostEnd(c, mInterfaces[c][i]), c, mInterfaces[c][i])
        <4>1. i < at + 1
          BY <3>5 DEF IsDone
        <4>2. CASE i = at
          BY <2>1, <2>2, <4>2 DEF WiredIn
        <4>. QED
          BY <1>1, <1>3, <4>1, <4>2
      <3>6. GuardInv(c)'
        BY <1>1, <1>2, <3>4, <3>5, QuietOwn, StepsApart DEF ContainerNetInv
      <3>. QED
        BY <1>2, <3>3, <3>6, QuietGuard
    <2>3. ASSUME NEW step \in {"exists", "pair"}, Goes(c, step), step = "exists" => config(c).type = "BRIDGE",
                 step = "pair" => config(c).type = "VETH_BRIDGED"
          PROVE  ContainerNetInv'
      <3>. DEFINE new == [call[c] EXCEPT !.step = step]
      <3>1. call' = [call EXCEPT ![c] = new] /\ new \in [step : Calls, at : 1 .. MaxConfigs + 1, todo : SUBSET InetAddresses]
        BY <1>1, <2>3, StepsApart DEF Goes, ContainerNetInv, GuardsTyped
      <3>2. GuardsTyped' /\ call'[c] = new /\ OnlyGuard(c)
        BY <1>2, <3>1, CallTyped DEF ContainerNetInv, GuardsTyped
      <3>3. call'[c].step = step /\ call'[c].at = at /\ call'[c].todo = call[c].todo
        BY <1>1, <3>2
      <3>4. Underway(interfaces, hostEnd(c, config(c)), step, config(c), call[c].todo)
        BY <2>3, StepsApart DEF Underway
      <3>5. \A i \in DOMAIN mInterfaces[c] : IsDone(step, i, at) => IsDone(call[c].step, i, at)
        BY <1>3, <2>3 DEF IsDone
      <3>6. GuardInv(c)'
        BY <1>1, <1>2, <1>5, <2>1, <3>3, <3>4, <3>5, QuietOwn DEF ContainerNetInv
      <3>. QED
        BY <1>2, <3>2, <3>6, QuietGuard
    <2>4. config(c).type \in {"LOOPBACK", "BRIDGE", "VETH_BRIDGED"}
      BY <2>1 DEF KnownConfigs, Configs
    <2>. QED
      BY <2>2, <2>3, <2>4, <2>7
  <1>. QED
    BY <1>1, <1>4, <1>5

\* The pairs that a guard is done with.
DonePair(c, p) ==
  \E i \in DOMAIN mInterfaces[c] :
    i < call[c].at /\ mInterfaces[c][i].type = "VETH_BRIDGED" /\ p = hostEnd(c, mInterfaces[c][i])

LEMMA DonePairApart ==
  ASSUME ContainerNetInv, NEW c \in Containers, call[c].step \in {"toBridge", "peerUp", "move"}, NEW p, DonePair(c, p)
  PROVE  p # hostEnd(c, config(c))
  <1>1. call[c].step \in AtPair /\ c # "host"
    BY ContainerNetworkAssumption DEF AtPair
  <1>2. PICK i \in DOMAIN mInterfaces[c] :
          i < call[c].at /\ mInterfaces[c][i].type = "VETH_BRIDGED" /\ p = hostEnd(c, mInterfaces[c][i])
    BY DEF DonePair
  <1>3. IsDone(call[c].step, i, call[c].at)
    BY <1>1, <1>2 DEF IsDone
  <1>4. PairMade(interfaces, p, mInterfaces[c][i], c, TRUE, TRUE)
    BY <1>2, <1>3 DEF ContainerNetInv, GuardInv, WiredIn
  <1>5. Underway(interfaces, hostEnd(c, config(c)), call[c].step, config(c), call[c].todo)
    BY <1>1, AtConfig
  <1>6. PICK a, b : PairMade(interfaces, hostEnd(c, config(c)), config(c), "host", a, b)
    BY <1>5 DEF Underway
  <1>. QED
    BY <1>1, <1>4, <1>6, PairsApart DEF ContainerNetInv

\* A guard makes a call for the interface that it has before it, and then works on at it.
LEMMA WorksOn ==
  ASSUME ContainerNetInv, NEW c \in Containers, call[c].step \in AtBridge \cup AtPair,
         NEW new \in [step : Calls, at : 1 .. MaxConfigs + 1, todo : SUBSET InetAddresses],
         call' = [call EXCEPT ![c] = new], new.at = call[c].at, new.step \in AtBridge \cup AtPair,
         guardFrame(c), LinksOK(interfaces'), BridgesStay(interfaces, interfaces'),
         \A p \in HostEnds : p[2] # c \/ DonePair(c, p) => PairStays(interfaces, interfaces', p),
         Underway(interfaces', hostEnd(c, config(c)), new.step, config(c), new.todo)
  PROVE  ContainerNetInv'
  <1>1. mInterfaces' = mInterfaces /\ starts' = starts /\ routes' = routes
    BY DEF guardFrame
  <1>2. GuardsTyped' /\ call'[c] = new /\ OnlyGuard(c)
    BY <1>1, CallTyped DEF ContainerNetInv, GuardsTyped
  <1>3. call[c].step # "idle" /\ call[c].step \notin {"configure", "running"} /\ new.step \notin {"configure", "running"}
    BY StepsApart
  <1>4. ASSUME NEW i \in DOMAIN mInterfaces[c], IsDone(call[c].step, i, call[c].at), mInterfaces[c][i].type = "VETH_BRIDGED"
        PROVE  PairStays(interfaces, interfaces', hostEnd(c, mInterfaces[c][i]))
    <2>1. i < call[c].at
      BY <1>3, <1>4 DEF IsDone
    <2>2. DonePair(c, hostEnd(c, mInterfaces[c][i]))
      BY <1>4, <2>1 DEF DonePair
    <2>3. hostEnd(c, mInterfaces[c][i]) \in HostEnds
      BY <1>4, AtConfig, ConfigsOf, EndsOf DEF ContainerNetInv
    <2>. QED
      BY <2>2, <2>3
  <1>5. \A i \in DOMAIN mInterfaces[c] : IsDone(new.step, i, new.at) => IsDone(call[c].step, i, call[c].at)
    BY <1>3 DEF IsDone
  <1>6. call[c].at <= Len(mInterfaces[c]) /\ GuardsTyped /\ GuardInv(c) /\ config(c) = mInterfaces[c][call[c].at]
    BY DEF ContainerNetInv, GuardInv, config
  <1>7. GuardInv(c)'
    BY <1>1, <1>2, <1>3, <1>4, <1>5, <1>6, OwnGuard
  <1>. QED
    BY <1>2, <1>7, ByOneGuard

\* Or is done with it.
LEMMA WorksDone ==
  ASSUME ContainerNetInv, NEW c \in Containers, call[c].step \in AtBridge \cup AtPair, NextConfig(c),
         guardFrame(c), LinksOK(interfaces'), BridgesStay(interfaces, interfaces'),
         \A p \in HostEnds : p[2] # c \/ DonePair(c, p) => PairStays(interfaces, interfaces', p),
         WiredIn(interfaces', hostEnd(c, config(c)), c, config(c))
  PROVE  ContainerNetInv'
  <1>. DEFINE new == [step |-> "next", at |-> call[c].at + 1, todo |-> {}]
  <1>1. mInterfaces' = mInterfaces /\ starts' = starts /\ routes' = routes
    BY DEF guardFrame
  <1>2. call' = [call EXCEPT ![c] = new]
    BY DEF NextConfig
  <1>3. new \in [step : Calls, at : 1 .. MaxConfigs + 1, todo : SUBSET InetAddresses]
    <2>1. call[c].at \in 1 .. MaxConfigs + 1 /\ call[c].at <= MaxConfigs /\ MaxConfigs \in Nat
      BY AtConfig, ConfigsOf, ContainerNetworkAssumption DEF ContainerNetInv
    <2>2. "next" \in Calls /\ call[c].at + 1 \in 1 .. MaxConfigs + 1
      BY <2>1 DEF Calls
    <2>. QED
      BY <2>2
  <1>4. GuardsTyped' /\ call'[c] = new /\ OnlyGuard(c)
    BY <1>1, <1>2, <1>3, CallTyped DEF ContainerNetInv, GuardsTyped
  <1>5. call[c].step # "idle" /\ call[c].step \notin {"configure", "running"}
    BY StepsApart
  <1>6. ASSUME NEW i \in DOMAIN mInterfaces[c], IsDone(call[c].step, i, call[c].at), mInterfaces[c][i].type = "VETH_BRIDGED"
        PROVE  PairStays(interfaces, interfaces', hostEnd(c, mInterfaces[c][i]))
    <2>1. i < call[c].at
      BY <1>5, <1>6 DEF IsDone
    <2>2. DonePair(c, hostEnd(c, mInterfaces[c][i]))
      BY <1>6, <2>1 DEF DonePair
    <2>3. hostEnd(c, mInterfaces[c][i]) \in HostEnds
      BY <1>6, AtConfig, ConfigsOf, EndsOf DEF ContainerNetInv
    <2>. QED
      BY <2>2, <2>3
  <1>7. ASSUME NEW i \in DOMAIN mInterfaces[c], IsDone("next", i, call[c].at + 1)
        PROVE  \/ IsDone(call[c].step, i, call[c].at)
               \/ WiredIn(interfaces', hostEnd(c, mInterfaces[c][i]), c, mInterfaces[c][i])
    <2>1. i < call[c].at + 1 /\ i \in Nat /\ call[c].at \in Nat
      BY <1>7, ConfigsOf DEF IsDone, ContainerNetInv
    <2>2. CASE i = call[c].at
      BY <2>2 DEF config
    <2>3. CASE i < call[c].at
      BY <2>3 DEF IsDone
    <2>. QED
      BY <2>1, <2>2, <2>3
  <1>8. GuardInv(c)'
    <2>1. call'[c].step = "next" /\ call'[c].at = call[c].at + 1
      BY <1>4
    <2>. HIDE DEF new
    <2>. QED
      BY <1>1, <1>5, <1>6, <1>7, <2>1, StepsApart, OwnGuard DEF ContainerNetInv
  <1>. QED
    BY <1>4, <1>8, ByOneGuard

LEMMA GoesTo ==
  ASSUME ContainerNetInv, NEW c \in Containers, NEW step \in Calls, Goes(c, step)
  PROVE  \E new \in [step : Calls, at : 1 .. MaxConfigs + 1, todo : SUBSET InetAddresses] :
           call' = [call EXCEPT ![c] = new] /\ new.step = step /\ new.at = call[c].at /\ new.todo = call[c].todo
  <1>. DEFINE new == [call[c] EXCEPT !.step = step]
  <1>1. call[c] \in [step : Calls, at : 1 .. MaxConfigs + 1, todo : SUBSET InetAddresses]
    BY ConfigsOf DEF ContainerNetInv
  <1>2. new \in [step : Calls, at : 1 .. MaxConfigs + 1, todo : SUBSET InetAddresses]
    BY <1>1
  <1>3. new.step = step /\ new.at = call[c].at /\ new.todo = call[c].todo
    BY <1>1
  <1>4. call' = [call EXCEPT ![c] = new]
    BY DEF Goes
  <1>. HIDE DEF new
  <1>. QED
    BY <1>2, <1>3, <1>4

LEMMA BridgeExistsStep ==
  ASSUME ContainerNetInv, NEW c \in Containers, BridgeExists(c)
  PROVE  ContainerNetInv'
  <1>1. call[c].step = "exists" /\ call[c].step \in AtBridge
    BY StepsApart DEF BridgeExists, At
  <1>2. PICK step \in {"up", "create"} : Goes(c, step)
    BY DEF BridgeExists
  <1>3. step \in AtBridge /\ step \in Calls
    BY StepsApart
  <1>4. PICK new \in [step : Calls, at : 1 .. MaxConfigs + 1, todo : SUBSET InetAddresses] :
           call' = [call EXCEPT ![c] = new] /\ new.step = step /\ new.at = call[c].at
    BY <1>2, <1>3, GoesTo
  <1>5. Underway(interfaces, hostEnd(c, config(c)), step, config(c), new.todo)
    <2>1. Underway(interfaces, hostEnd(c, config(c)), call[c].step, config(c), call[c].todo)
      BY <1>1, AtConfig
    <2>. QED
      BY <1>1, <1>3, <2>1, StepsApart DEF Underway
  <1>6. interfaces' = interfaces /\ guardFrame(c)
    BY DEF BridgeExists
  <1>7. BridgesStay(interfaces, interfaces') /\ \A p : PairStays(interfaces, interfaces', p)
    BY <1>6, Identical
  <1>. QED
    BY <1>1, <1>3, <1>4, <1>5, <1>6, <1>7, WorksOn DEF ContainerNetInv

\* The bridge that a guard has made, or found.
LEMMA TheBridge ==
  ASSUME ContainerNetInv, NEW c \in Containers, call[c].step \in AtBridge, Has("host", Plain(config(c).hostif))
  PROVE  /\ Get("host", Plain(config(c).hostif)) \in interfaces
         /\ BridgeLink(Get("host", Plain(config(c).hostif)))
         /\ Get("host", Plain(config(c).hostif)).name = Plain(config(c).hostif)
         /\ config(c).hostif \in BridgeNames
         /\ \A b \in interfaces : b.kind = "bridge" /\ b.name = Plain(config(c).hostif)
              => b = Get("host", Plain(config(c).hostif))
  <1>. DEFINE l == Get("host", Plain(config(c).hostif))
  <1>1. config(c) \in KnownConfigs /\ config(c).type = "BRIDGE"
    BY AtConfig DEF Underway
  <1>2. config(c).hostif \in BridgeNames
    BY <1>1 DEF KnownConfigs
  <1>3. l \in interfaces /\ l.ns = "host" /\ l.name = Plain(config(c).hostif)
    BY Found
  <1>. HIDE DEF l
  <1>4. BridgeLink(l)
    BY <1>2, <1>3, KindsApart DEF ContainerNetInv
  <1>5. ASSUME NEW b \in interfaces, b.kind = "bridge", b.name = Plain(config(c).hostif) PROVE b = l
    <2>1. b.ns = "host"
      BY <1>5, KindsApart DEF ContainerNetInv, BridgeLink
    <2>. QED
      BY <1>3, <1>5, <2>1 DEF ContainerNetInv, LinksOK
  <1>. QED
    BY <1>2, <1>3, <1>4, <1>5 DEF l

LEMMA ListAddressesStep ==
  ASSUME ContainerNetInv, NEW c \in Containers, ListAddresses(c)
  PROVE  ContainerNetInv'
  <1>. DEFINE held == Get("host", Plain(config(c).hostif)).addrs
              k == config(c)
              todo == ToSet(k.addrs) \ held
              new == [call[c] EXCEPT !.step = "addresses", !.todo = todo]
  <1>1. call[c].step = "list" /\ call[c].step \in AtBridge /\ Has("host", Plain(k.hostif))
    BY StepsApart DEF ListAddresses, At
  <1>2. k \in KnownConfigs /\ call[c] \in [step : Calls, at : 1 .. MaxConfigs + 1, todo : SUBSET InetAddresses]
    BY <1>1, AtConfig, ConfigsOf DEF ContainerNetInv
  <1>3. call' = [call EXCEPT ![c] = new]
    BY DEF ListAddresses, Missing
  <1>4. new \in [step : Calls, at : 1 .. MaxConfigs + 1, todo : SUBSET InetAddresses]
    <2>1. k.addrs \in Seq(InetAddresses)
      BY <1>2 DEF KnownConfigs, Configs
    <2>2. ToSet(k.addrs) \subseteq InetAddresses
      <3>. HIDE DEF k
      <3>. QED
        BY <2>1, LenProperties DEF ToSet
    <2>3. todo \in SUBSET InetAddresses /\ "addresses" \in Calls
      BY <2>2 DEF Calls
    <2>. HIDE DEF todo
    <2>. QED
      BY <1>2, <2>3
  <1>5. new.step = "addresses" /\ new.at = call[c].at /\ new.todo = todo
    BY <1>2
  <1>6. Underway(interfaces, hostEnd(c, k), "addresses", k, todo)
    <2>1. Underway(interfaces, hostEnd(c, k), "list", k, call[c].todo)
      BY <1>1, AtConfig
    <2>2. PICK b \in interfaces : b.kind = "bridge" /\ b.name = Plain(k.hostif) /\ b.up
      BY <2>1 DEF Underway, BridgeMade
    <2>3. b.addrs = held
      BY <1>1, <2>2, TheBridge
    <2>4. ToSet(k.addrs) \ todo \subseteq b.addrs
      BY <2>3
    <2>5. BridgeMade(interfaces, k, ToSet(k.addrs) \ todo)
      <3>. HIDE DEF todo, k
      <3>. QED
        BY <2>2, <2>4 DEF BridgeMade
    <2>. HIDE DEF todo, k
    <2>. QED
      BY <2>1, <2>5, StepsApart DEF Underway
  <1>7. interfaces' = interfaces /\ guardFrame(c)
    BY DEF ListAddresses
  <1>8. BridgesStay(interfaces, interfaces') /\ \A p : PairStays(interfaces, interfaces', p)
    BY <1>7, Identical
  <1>. HIDE DEF new, todo
  <1>. QED
    BY <1>1, <1>3, <1>4, <1>5, <1>6, <1>7, <1>8, WorksOn, StepsApart DEF ContainerNetInv

LEMMA StartFailsStep ==
  ASSUME ContainerNetInv, NEW c \in Containers, StartFails(c)
  PROVE  ContainerNetInv'
  <1>1. call[c].step # "idle" /\ Goes(c, "failed") /\ "failed" \in Calls
    BY StepsApart DEF StartFails, At
  <1>2. PICK new \in [step : Calls, at : 1 .. MaxConfigs + 1, todo : SUBSET InetAddresses] :
           call' = [call EXCEPT ![c] = new] /\ new.step = "failed" /\ new.at = call[c].at
    BY <1>1, GoesTo
  <1>3. UNCHANGED <<mInterfaces, interfaces, starts, routes>>
    BY DEF StartFails
  <1>4. GuardsTyped' /\ call'[c] = new /\ OnlyGuard(c)
    BY <1>2, <1>3, CallTyped DEF ContainerNetInv, GuardsTyped
  <1>5. GuardInv(c)'
    BY <1>1, <1>2, <1>3, <1>4 DEF ContainerNetInv, GuardInv, IsDone, AtBridge, AtPair
  <1>. QED
    BY <1>3, <1>4, <1>5, QuietGuard

\* What Link makes is an interface.
LEMMA LinkIsLike ==
  ASSUME NEW ns \in Containers \cup {"host"}, NEW name, NEW kind, NEW pair
  PROVE  /\ LinkLike(Link(ns, name, kind, pair))
         /\ Link(ns, name, kind, pair).ns = ns /\ Link(ns, name, kind, pair).name = name
         /\ Link(ns, name, kind, pair).kind = kind /\ Link(ns, name, kind, pair).pair = pair
  BY DEF Link, LinkLike

\* No other pair or bridge is lost when all interfaces stay well.
LEMMA AllStay ==
  ASSUME NEW ls, NEW ms, \A l \in ls : StaysWell(l, ms)
  PROVE  BridgesStay(ls, ms) /\ \A p : PairStays(ls, ms, p)
  BY DEF BridgesStay, PairStays, StaysWell, Stays

LEMMA CreateBridgeStep ==
  ASSUME ContainerNetInv, NEW c \in Containers, CreateBridge(c)
  PROVE  ContainerNetInv'
  <1>. DEFINE k == config(c)
              n == Link("host", Plain(k.hostif), "bridge", <<k.hostif>>)
              ms == interfaces \cup {n}
  <1>1. call[c].step = "create" /\ call[c].step \in AtBridge /\ ~Has("host", Plain(k.hostif)) /\ Goes(c, "up")
    BY StepsApart DEF CreateBridge, At
  <1>2. "up" \in AtBridge /\ "up" \in Calls
    BY StepsApart
  <1>3. PICK new \in [step : Calls, at : 1 .. MaxConfigs + 1, todo : SUBSET InetAddresses] :
           call' = [call EXCEPT ![c] = new] /\ new.step = "up" /\ new.at = call[c].at
    BY <1>1, <1>2, GoesTo
  <1>4. k \in KnownConfigs /\ k.type = "BRIDGE" /\ k.hostif \in BridgeNames
    <2>1. k \in KnownConfigs /\ Underway(interfaces, hostEnd(c, k), call[c].step, k, call[c].todo)
      BY <1>1, AtConfig
    <2>. QED
      BY <1>1, <2>1 DEF Underway, KnownConfigs
  <1>. HIDE DEF k
  <1>5. /\ LinkLike(n) /\ n.ns = "host" /\ n.name = Plain(k.hostif) /\ n.kind = "bridge" /\ n.pair = <<k.hostif>>
    BY LinkIsLike
  <1>. HIDE DEF n
  <1>6. LinkShaped(n) /\ ~InnerLink(n)
    BY <1>4, <1>5 DEF LinkShaped, BridgeLink, InnerLink
  <1>7. ASSUME NEW l \in interfaces, n.name = l.name PROVE n.ns # l.ns /\ n.pair # l.pair
    <2>1. n.ns # l.ns
      <3>1. l.name = Plain(k.hostif)
        BY <1>5, <1>7
      <3>2. l.ns # "host"
        BY <1>1, <3>1 DEF Has
      <3>. QED
        BY <1>5, <3>2
    <2>2. l.name \notin HostEnds
      <3>1. l.name = Plain(k.hostif)
        BY <1>5, <1>7
      <3>. QED
        BY <3>1, NamesApart
    <2>3. LinkShaped(l)
      BY DEF ContainerNetInv, LinksOK
    <2>4. CASE PhysLink(l)
      <3>1. PICK m \in FreeNames : l.pair = <<m>>
        BY <2>4 DEF PhysLink
      <3>2. m # k.hostif
        BY <1>4, NamesAssumption
      <3>. QED
        BY <1>5, <2>1, <3>1, <3>2, NamesApart
    <2>5. CASE BridgeLink(l)
      BY <1>5, <2>1, <2>5 DEF BridgeLink
    <2>6. CASE OuterLink(l) \/ InnerLink(l)
      BY <1>5, <2>1, <2>6, NamesApart DEF OuterLink, InnerLink
    <2>7. CASE MadeLink(l)
      BY <1>5, <2>1, <2>7, NamesApart DEF MadeLink
    <2>. QED
      BY <2>3, <2>4, <2>5, <2>6, <2>7 DEF LinkShaped
  <1>8. LinksOK(ms) /\ \A l \in interfaces : StaysWell(l, ms)
    <2>1. \A x \in {n} : LinkShaped(x) /\ ~InnerLink(x)
      BY <1>6
    <2>2. \A x \in {n}, l \in interfaces : x.name = l.name => x.ns # l.ns /\ x.pair # l.pair
      BY <1>7
    <2>3. \A x, y \in {n} : x.name = y.name => x = y
      OBVIOUS
    <2>. QED
      BY <2>1, <2>2, <2>3, Added DEF ContainerNetInv
  <1>9. interfaces' = ms /\ guardFrame(c)
    BY DEF CreateBridge, n, k
  <1>. HIDE DEF ms
  <1>10. BridgesStay(interfaces, ms) /\ \A p : PairStays(interfaces, ms, p)
    BY <1>8, AllStay
  <1>11. Underway(ms, hostEnd(c, k), "up", k, new.todo)
    BY <1>4, StepsApart DEF Underway
  <1>. QED
    BY <1>1, <1>2, <1>3, <1>8, <1>9, <1>10, <1>11, WorksOn DEF k

LEMMA BridgeUpStep ==
  ASSUME ContainerNetInv, NEW c \in Containers, BridgeUp(c)
  PROVE  ContainerNetInv'
  <1>. DEFINE k == config(c)
              l == Get("host", Plain(k.hostif))
              m == [l EXCEPT !.up = TRUE]
              ms == (interfaces \ {l}) \cup {m}
  <1>1. call[c].step = "up" /\ call[c].step \in AtBridge /\ Has("host", Plain(k.hostif)) /\ Goes(c, "list")
    BY StepsApart DEF BridgeUp, At
  <1>2. "list" \in AtBridge /\ "list" \in Calls
    BY StepsApart
  <1>3. PICK new \in [step : Calls, at : 1 .. MaxConfigs + 1, todo : SUBSET InetAddresses] :
           call' = [call EXCEPT ![c] = new] /\ new.step = "list" /\ new.at = call[c].at
    BY <1>1, <1>2, GoesTo
  <1>4. k.type = "BRIDGE"
    <2>1. Underway(interfaces, hostEnd(c, k), call[c].step, k, call[c].todo)
      BY <1>1, AtConfig
    <2>. QED
      BY <1>1, <2>1 DEF Underway
  <1>5. l \in interfaces /\ BridgeLink(l) /\ l.name = Plain(k.hostif) /\ LinkLike(l)
    BY <1>1, TheBridge DEF ContainerNetInv, LinksOK, LinkShaped
  <1>6. interfaces' = ms /\ guardFrame(c)
    BY DEF BridgeUp, Changed
  <1>. HIDE DEF k, l
  <1>7. LinkLike(m) /\ Like(l, m) /\ m.up /\ m.addrs = l.addrs /\ m.master = l.master
    BY <1>5 DEF LinkLike, Like
  <1>. HIDE DEF m
  <1>8. LinksOK(ms) /\ \A x \in interfaces : StaysWell(x, ms)
    <2>1. LinksOK(ms)
      BY <1>5, <1>7, Remade DEF ContainerNetInv
    <2>2. \A x \in interfaces : StaysWell(x, ms)
      BY <1>5, <1>7, Improved
    <2>. QED
      BY <2>1, <2>2
  <1>9. BridgeMade(ms, k, {})
    <2>1. m \in ms /\ m.kind = "bridge" /\ m.name = Plain(k.hostif)
      BY <1>5, <1>7 DEF Like, BridgeLink
    <2>. QED
      BY <1>7, <2>1 DEF BridgeMade
  <1>. HIDE DEF ms
  <1>10. BridgesStay(interfaces, ms) /\ \A p : PairStays(interfaces, ms, p)
    BY <1>8, AllStay
  <1>11. Underway(ms, hostEnd(c, k), "list", k, new.todo)
    BY <1>4, <1>9, StepsApart DEF Underway
  <1>. QED
    BY <1>1, <1>2, <1>3, <1>6, <1>8, <1>10, <1>11, WorksOn DEF k

LEMMA AddAddressStep ==
  ASSUME ContainerNetInv, NEW c \in Containers, AddAddress(c)
  PROVE  ContainerNetInv'
  <1>. DEFINE k == config(c)
              l == Get("host", Plain(k.hostif))
  <1>1. call[c].step = "addresses" /\ call[c].step \in AtBridge /\ guardFrame(c)
    BY StepsApart DEF AddAddress, At
  <1>2. Underway(interfaces, hostEnd(c, k), call[c].step, k, call[c].todo)
    BY <1>1, AtConfig
  <1>3. k.type = "BRIDGE" /\ BridgeMade(interfaces, k, ToSet(k.addrs) \ call[c].todo)
    BY <1>1, <1>2 DEF Underway
  <1>4. PICK b \in interfaces : b.kind = "bridge" /\ b.name = Plain(k.hostif) /\ b.up
                                /\ ToSet(k.addrs) \ call[c].todo \subseteq b.addrs
    BY <1>3 DEF BridgeMade
  <1>5. CASE call[c].todo = {}
    <2>1. NextConfig(c) /\ interfaces' = interfaces
      BY <1>5 DEF AddAddress
    <2>2. BridgesStay(interfaces, interfaces') /\ \A p : PairStays(interfaces, interfaces', p)
      BY <2>1, Identical
    <2>3. WiredIn(interfaces, hostEnd(c, k), c, k)
      BY <1>3, <1>5 DEF WiredIn
    <2>. QED
      BY <1>1, <2>1, <2>2, <2>3, WorksDone DEF ContainerNetInv
  <1>6. CASE call[c].todo # {}
    <2>1. PICK a \in call[c].todo : /\ interfaces' = Changed(l, [l EXCEPT !.addrs = @ \cup {a}])
                                    /\ call' = [call EXCEPT ![c].todo = @ \ {a}]
      BY <1>6 DEF AddAddress
    <2>. DEFINE m == [l EXCEPT !.addrs = @ \cup {a}]
                ms == (interfaces \ {l}) \cup {m}
                new == [call[c] EXCEPT !.todo = @ \ {a}]
    <2>2. call[c] \in [step : Calls, at : 1 .. MaxConfigs + 1, todo : SUBSET InetAddresses]
      BY ConfigsOf DEF ContainerNetInv
    <2>3. new \in [step : Calls, at : 1 .. MaxConfigs + 1, todo : SUBSET InetAddresses] /\ new.at = call[c].at
          /\ new.step = "addresses" /\ new.todo = call[c].todo \ {a} /\ a \in InetAddresses
      BY <1>1, <2>2
    <2>4. call' = [call EXCEPT ![c] = new]
      BY <2>1
    <2>. HIDE DEF new
    <2>5. b.ns = "host" /\ LinkLike(b)
      BY <1>4, KindsApart DEF ContainerNetInv, BridgeLink, LinksOK, LinkShaped
    <2>6. Has("host", Plain(k.hostif))
      BY <1>4, <2>5 DEF Has
    <2>7. l = b
      BY <1>1, <1>4, <2>6, TheBridge
    <2>. HIDE DEF k, l
    <2>8. LinkLike(m) /\ Like(l, m) /\ m.up = l.up /\ m.addrs = l.addrs \cup {a} /\ m.master = l.master
      BY <2>3, <2>5, <2>7 DEF LinkLike, Like
    <2>9. interfaces' = ms
      BY <2>1 DEF Changed
    <2>. HIDE DEF m
    <2>10. LinksOK(ms) /\ \A x \in interfaces : StaysWell(x, ms)
      <3>1. LinksOK(ms)
        BY <2>7, <2>8, Remade DEF ContainerNetInv
      <3>2. \A x \in interfaces : StaysWell(x, ms)
        <4>1. l \in interfaces /\ (l.up => m.up) /\ l.addrs \subseteq m.addrs
          BY <2>7, <2>8
        <4>. QED
          BY <2>8, <4>1, Improved
      <3>. QED
        BY <3>1, <3>2
    <2>11. BridgeMade(ms, k, ToSet(k.addrs) \ new.todo)
      <3>1. m \in ms /\ m.kind = "bridge" /\ m.name = Plain(k.hostif) /\ m.up
        BY <1>4, <2>7, <2>8 DEF Like
      <3>2. ToSet(k.addrs) \ new.todo \subseteq m.addrs
        BY <1>4, <2>3, <2>7, <2>8
      <3>. QED
        BY <3>1, <3>2 DEF BridgeMade
    <2>. HIDE DEF ms
    <2>12. BridgesStay(interfaces, ms) /\ \A p : PairStays(interfaces, ms, p)
      BY <2>10, AllStay
    <2>13. Underway(ms, hostEnd(c, k), "addresses", k, new.todo)
      BY <1>3, <2>11, StepsApart DEF Underway, k
    <2>. QED
      BY <1>1, <2>3, <2>4, <2>9, <2>10, <2>12, <2>13, WorksOn, StepsApart DEF k
  <1>. QED
    BY <1>5, <1>6

LEMMA CreatePairStep ==
  ASSUME ContainerNetInv, NEW c \in Containers, CreatePair(c)
  PROVE  ContainerNetInv'
  <1>. DEFINE k == config(c)
              p == hostEnd(c, k)
              o == Link("host", p, "veth", p)
              i == Link("host", Plain(k.zoneif), "veth", p)
              ms == interfaces \cup {o, i}
  <1>1. call[c].step = "pair" /\ call[c].step \in AtPair /\ ~Has("host", p) /\ ~Has("host", Plain(k.zoneif))
        /\ Goes(c, "toBridge") /\ guardFrame(c)
    BY StepsApart DEF CreatePair, At
  <1>2. "toBridge" \in AtPair /\ "toBridge" \in Calls
    BY StepsApart
  <1>3. PICK new \in [step : Calls, at : 1 .. MaxConfigs + 1, todo : SUBSET InetAddresses] :
           call' = [call EXCEPT ![c] = new] /\ new.step = "toBridge" /\ new.at = call[c].at
    BY <1>1, <1>2, GoesTo
  <1>4. k.type = "VETH_BRIDGED" /\ p \in HostEnds /\ p[1] = k.zoneif /\ k.zoneif \in ZoneNames
    <2>1. k \in KnownConfigs /\ Underway(interfaces, p, call[c].step, k, call[c].todo) /\ starts[c] > 0
      BY <1>1, AtConfig
    <2>2. k.type = "VETH_BRIDGED"
      BY <1>1, <2>1 DEF Underway
    <2>. QED
      BY <2>1, <2>2, EndsOf DEF ContainerNetInv
  <1>5. interfaces' = ms
    <2>1. {Link("host", name, "veth", p) : name \in {p, Plain(k.zoneif)}} = {o, i}
      OBVIOUS
    <2>. QED
      BY <2>1 DEF CreatePair
  <1>. HIDE DEF k, p
  <1>6. /\ LinkLike(o) /\ o.ns = "host" /\ o.name = p /\ o.kind = "veth" /\ o.pair = p
        /\ LinkLike(i) /\ i.ns = "host" /\ i.name = Plain(k.zoneif) /\ i.kind = "veth" /\ i.pair = p
    BY LinkIsLike
  <1>. HIDE DEF o, i
  <1>7. OuterLink(o) /\ LinkShaped(o) /\ ~InnerLink(o)
    BY <1>4, <1>6, NamesApart DEF OuterLink, LinkShaped, InnerLink
  <1>8. InnerLink(i) /\ LinkShaped(i)
    BY <1>4, <1>6 DEF InnerLink, LinkShaped
  <1>9. o.name # i.name
    BY <1>4, <1>6, NamesApart
  <1>10. ASSUME NEW l \in interfaces PROVE l.name # p /\ l.pair # p
    <2>1. LinkShaped(l)
      BY DEF ContainerNetInv, LinksOK
    <2>2. l.name # p
      <3>1. ASSUME l.name = p PROVE FALSE
        <4>1. OuterLink(l)
          BY <1>4, <3>1, KindsApart DEF ContainerNetInv
        <4>. QED
          BY <1>1, <3>1, <4>1 DEF OuterLink, Has
      <3>. QED
        BY <3>1
    <2>3. ASSUME l.pair = p PROVE FALSE
      <3>1. OuterLink(l) \/ InnerLink(l)
        BY <1>4, <2>1, <2>3, NamesApart DEF LinkShaped, PhysLink, BridgeLink, MadeLink
      <3>2. PICK x \in interfaces : OuterLink(x) /\ x.pair = p
        BY <2>3, <3>1 DEF ContainerNetInv, LinksOK
      <3>3. x.ns = "host" /\ x.name = p
        BY <3>2 DEF OuterLink
      <3>. QED
        BY <1>1, <3>3 DEF Has
    <2>. QED
      BY <2>2, <2>3
  <1>11. LinksOK(ms) /\ \A l \in interfaces : StaysWell(l, ms)
    <2>1. \A x \in {o, i} : LinkShaped(x)
      BY <1>7, <1>8
    <2>2. ASSUME NEW x \in {o, i}, NEW l \in interfaces, x.name = l.name PROVE x.ns # l.ns /\ x.pair # l.pair
      <3>1. x.pair # l.pair /\ x.ns = "host"
        BY <1>6, <1>10
      <3>2. x = i
        BY <1>6, <1>10, <2>2
      <3>3. l.name = Plain(k.zoneif)
        BY <1>6, <2>2, <3>2
      <3>4. l.ns # "host"
        BY <1>1, <3>3 DEF Has
      <3>. QED
        BY <3>1, <3>4
    <2>3. \A x, y \in {o, i} : x.name = y.name => x = y
      BY <1>9
    <2>4. \A x \in {o, i} : InnerLink(x) => \E y \in {o, i} : OuterLink(y) /\ y.pair = x.pair
      BY <1>6, <1>7
    <2>. QED
      BY <2>1, <2>2, <2>3, <2>4, Added DEF ContainerNetInv
  <1>12. PairMade(ms, p, k, "host", FALSE, FALSE)
    BY <1>6, <1>7, <1>8 DEF PairMade
  <1>. HIDE DEF ms
  <1>13. BridgesStay(interfaces, ms) /\ \A q : PairStays(interfaces, ms, q)
    BY <1>11, AllStay
  <1>14. Underway(ms, p, "toBridge", k, new.todo)
    BY <1>4, <1>12, StepsApart DEF Underway
  <1>. QED
    BY <1>1, <1>2, <1>3, <1>5, <1>11, <1>13, <1>14, WorksOn DEF k, p

\* One interface changes, that is no bridge: the pairs that it is no end of stay.
LEMMA OthersStay ==
  ASSUME NEW ls, NEW l \in ls, l.kind # "bridge", NEW ms, \A x \in ls : x # l => StaysWell(x, ms) /\ Stays(x, ms)
  PROVE  BridgesStay(ls, ms) /\ \A q : q # l.pair => PairStays(ls, ms, q)
  BY DEF BridgesStay, PairStays

\* The pair that a guard has made, and its two ends.
LEMMA ThePair ==
  ASSUME ContainerNetInv, NEW c \in Containers, call[c].step \in {"toBridge", "peerUp", "move"}, NEW a, NEW b,
         PairMade(interfaces, hostEnd(c, config(c)), config(c), "host", a, b)
  PROVE  \E inner, outer \in interfaces :
           /\ InnerLink(inner) /\ inner.ns = "host" /\ inner.pair = hostEnd(c, config(c)) /\ inner.name = Plain(config(c).zoneif)
           /\ OuterLink(outer) /\ outer.pair = hostEnd(c, config(c)) /\ outer.name = hostEnd(c, config(c))
           /\ outer = Get("host", hostEnd(c, config(c))) /\ inner = Get("host", Plain(config(c).zoneif)) /\ inner # outer
           /\ inner.kind # "bridge" /\ outer.kind # "bridge"
           /\ (a => outer.master = config(c).hostif /\ BridgeIn(interfaces, config(c))) /\ (b => outer.up)
  <1>. DEFINE k == config(c)
              p == hostEnd(c, k)
  <1>1. call[c].step \in AtPair
    BY DEF AtPair
  <1>2. k \in KnownConfigs /\ k.type = "VETH_BRIDGED" /\ starts[c] > 0
    BY <1>1, AtConfig DEF Underway
  <1>3. p \in HostEnds /\ p[1] = k.zoneif
    BY <1>2, EndsOf DEF ContainerNetInv
  <1>4. PICK inner \in interfaces, outer \in interfaces :
          /\ InnerLink(inner) /\ inner.ns = "host" /\ inner.pair = p
          /\ OuterLink(outer) /\ outer.pair = p
          /\ (a => outer.master = k.hostif /\ BridgeIn(interfaces, k)) /\ (b => outer.up)
    BY DEF PairMade
  <1>. HIDE DEF k, p
  <1>5. inner.name = Plain(k.zoneif) /\ outer.name = p /\ outer.ns = "host" /\ inner.kind = "veth" /\ outer.kind = "veth"
    BY <1>3, <1>4 DEF InnerLink, OuterLink
  <1>6. inner # outer
    BY <1>3, <1>5, NamesApart
  <1>7. outer = Get("host", p)
    <2>1. Has("host", p)
      BY <1>5 DEF Has
    <2>. QED
      BY <1>5, <2>1, Found DEF ContainerNetInv, LinksOK
  <1>8. inner = Get("host", Plain(k.zoneif))
    <2>1. Has("host", Plain(k.zoneif))
      BY <1>4, <1>5 DEF Has
    <2>. QED
      BY <1>4, <1>5, <2>1, Found DEF ContainerNetInv, LinksOK
  <1>9. inner.kind # "bridge" /\ outer.kind # "bridge"
    BY <1>5
  <1>. QED
    BY <1>4, <1>5, <1>6, <1>7, <1>8, <1>9 DEF k, p

\* What a guard does to its own pair leaves others' and its other ones.
LEMMA OtherPairs ==
  ASSUME ContainerNetInv, NEW c \in Containers, call[c].step \in {"toBridge", "peerUp", "move"}, NEW ms,
         \A q : q # hostEnd(c, config(c)) => PairStays(interfaces, ms, q)
  PROVE  \A q \in HostEnds : q[2] # c \/ DonePair(c, q) => PairStays(interfaces, ms, q)
  <1>1. hostEnd(c, config(c))[2] = c
    BY DEF hostEnd
  <1>2. \A q : DonePair(c, q) => q # hostEnd(c, config(c))
    BY DonePairApart
  <1>. QED
    BY <1>1, <1>2

\* The host's end of a guard's pair changes.
LEMMA OuterChanges ==
  ASSUME ContainerNetInv, NEW c \in Containers, call[c].step \in {"toBridge", "peerUp"}, NEW k, k = config(c),
         NEW p, p = hostEnd(c, k),
         NEW l, l = Get("host", p), NEW m, LinkLike(m), Like(l, m), NEW ms, ms = Changed(l, m)
  PROVE  /\ LinksOK(ms) /\ BridgesStay(interfaces, ms)
         /\ \A q \in HostEnds : q[2] # c \/ DonePair(c, q) => PairStays(interfaces, ms, q)
         /\ \E inner, outer \in ms : /\ InnerLink(inner) /\ inner.ns = "host" /\ inner.pair = p
                                     /\ OuterLink(outer) /\ outer.pair = p /\ outer = m
  <1>1. PICK inner \in interfaces : /\ InnerLink(inner) /\ inner.ns = "host" /\ inner.pair = p /\ inner # l
                                    /\ l \in interfaces /\ OuterLink(l) /\ l.pair = p /\ l.kind # "bridge"
    <2>1. Underway(interfaces, p, call[c].step, k, call[c].todo)
      BY AtConfig, StepsApart
    <2>2. CASE call[c].step = "toBridge"
      <3>1. PairMade(interfaces, p, k, "host", FALSE, FALSE)
        BY <2>1, <2>2 DEF Underway
      <3>. QED
        BY <3>1, ThePair
    <2>3. CASE call[c].step = "peerUp"
      <3>1. PairMade(interfaces, p, k, "host", TRUE, FALSE)
        BY <2>1, <2>3 DEF Underway
      <3>. QED
        BY <3>1, ThePair
    <2>. QED
      BY <2>2, <2>3
  <1>2. ms = (interfaces \ {l}) \cup {m} /\ Like(l, m)
    BY DEF Changed
  <1>3. LinksOK(ms) /\ \A x \in interfaces : x # l => StaysWell(x, ms) /\ Stays(x, ms)
    BY <1>1, <1>2, Remade DEF ContainerNetInv
  <1>4. BridgesStay(interfaces, ms) /\ \A q : q # p => PairStays(interfaces, ms, q)
    BY <1>1, <1>3, OthersStay
  <1>5. \A q \in HostEnds : q[2] # c \/ DonePair(c, q) => PairStays(interfaces, ms, q)
    BY <1>4, OtherPairs
  <1>6. OuterLink(m) /\ m.pair = p
    BY <1>1, <1>2, LikeIsLike
  <1>7. inner \in ms /\ m \in ms
    BY <1>1, <1>2
  <1>. QED
    BY <1>1, <1>3, <1>4, <1>5, <1>6, <1>7

LEMMA AddToBridgeStep ==
  ASSUME ContainerNetInv, NEW c \in Containers, AddToBridge(c)
  PROVE  ContainerNetInv'
  <1>. DEFINE k == config(c)
              p == hostEnd(c, k)
              l == Get("host", p)
              m == [l EXCEPT !.master = k.hostif]
              ms == Changed(l, m)
  <1>1. call[c].step = "toBridge" /\ call[c].step \in AtPair /\ Has("host", Plain(k.hostif)) /\ Goes(c, "peerUp") /\ guardFrame(c)
        /\ interfaces' = ms
    BY StepsApart DEF AddToBridge, At
  <1>2. "peerUp" \in AtPair /\ "peerUp" \in Calls
    BY StepsApart
  <1>3. PICK new \in [step : Calls, at : 1 .. MaxConfigs + 1, todo : SUBSET InetAddresses] :
           call' = [call EXCEPT ![c] = new] /\ new.step = "peerUp" /\ new.at = call[c].at
    BY <1>1, <1>2, GoesTo
  <1>4. Underway(interfaces, p, call[c].step, k, call[c].todo) /\ k \in KnownConfigs
    BY <1>1, AtConfig
  <1>5. k.type = "VETH_BRIDGED" /\ PairMade(interfaces, p, k, "host", FALSE, FALSE)
    BY <1>1, <1>4 DEF Underway
  <1>6. l \in interfaces /\ LinkLike(l)
    BY <1>1, <1>5, ThePair DEF ContainerNetInv, LinksOK, LinkShaped
  <1>7. BridgeIn(interfaces, k)
    <2>1. PICK b \in interfaces : b.ns = "host" /\ b.name = Plain(k.hostif)
      BY <1>1 DEF Has
    <2>2. k.hostif \in BridgeNames
      BY <1>4, <1>5 DEF KnownConfigs
    <2>3. BridgeLink(b)
      BY <2>1, <2>2, KindsApart DEF ContainerNetInv
    <2>. QED
      BY <2>1, <2>3 DEF BridgeIn, BridgeLink
  <1>8. LinkLike(m) /\ Like(l, m) /\ m.master = k.hostif
    <2>. HIDE DEF l, k
    <2>. QED
      BY <1>6 DEF LinkLike, Like
  <1>70. k = config(c) /\ p = hostEnd(c, k) /\ l = Get("host", p) /\ ms = Changed(l, m)
    OBVIOUS
  <1>. HIDE DEF m, ms, l, p, k
  <1>9. /\ LinksOK(ms) /\ BridgesStay(interfaces, ms)
        /\ \A q \in HostEnds : q[2] # c \/ DonePair(c, q) => PairStays(interfaces, ms, q)
        /\ \E inner, outer \in ms : /\ InnerLink(inner) /\ inner.ns = "host" /\ inner.pair = p
                                    /\ OuterLink(outer) /\ outer.pair = p /\ outer = m
    <2>1. call[c].step \in {"toBridge", "peerUp"}
      BY <1>1
    <2>. QED
      BY <1>70, <1>8, <2>1, OuterChanges
  <1>10. BridgeIn(ms, k)
    BY <1>7, <1>9, BridgeInStays
  <1>11. PairMade(ms, p, k, "host", TRUE, FALSE)
    BY <1>8, <1>9, <1>10 DEF PairMade
  <1>12. Underway(ms, p, "peerUp", k, new.todo)
    BY <1>5, <1>11, StepsApart DEF Underway
  <1>. QED
    BY <1>1, <1>2, <1>3, <1>9, <1>12, WorksOn DEF p, k

LEMMA PeerUpStep ==
  ASSUME ContainerNetInv, NEW c \in Containers, PeerUp(c)
  PROVE  ContainerNetInv'
  <1>. DEFINE k == config(c)
              p == hostEnd(c, k)
              l == Get("host", p)
              m == [l EXCEPT !.up = TRUE]
              ms == Changed(l, m)
  <1>1. call[c].step = "peerUp" /\ call[c].step \in AtPair /\ Goes(c, "move") /\ guardFrame(c) /\ interfaces' = ms
    BY StepsApart DEF PeerUp, At
  <1>2. "move" \in AtPair /\ "move" \in Calls
    BY StepsApart
  <1>3. PICK new \in [step : Calls, at : 1 .. MaxConfigs + 1, todo : SUBSET InetAddresses] :
           call' = [call EXCEPT ![c] = new] /\ new.step = "move" /\ new.at = call[c].at
    BY <1>1, <1>2, GoesTo
  <1>4. Underway(interfaces, p, call[c].step, k, call[c].todo)
    BY <1>1, AtConfig
  <1>5. k.type = "VETH_BRIDGED" /\ PairMade(interfaces, p, k, "host", TRUE, FALSE)
    BY <1>1, <1>4 DEF Underway
  <1>6. l \in interfaces /\ LinkLike(l) /\ l.master = k.hostif /\ BridgeIn(interfaces, k)
    BY <1>1, <1>5, ThePair DEF ContainerNetInv, LinksOK, LinkShaped
  <1>8. LinkLike(m) /\ Like(l, m) /\ m.master = k.hostif /\ m.up
    <2>. HIDE DEF l, k
    <2>. QED
      BY <1>6 DEF LinkLike, Like
  <1>70. k = config(c) /\ p = hostEnd(c, k) /\ l = Get("host", p) /\ ms = Changed(l, m)
    OBVIOUS
  <1>. HIDE DEF m, ms, l, p, k
  <1>9. /\ LinksOK(ms) /\ BridgesStay(interfaces, ms)
        /\ \A q \in HostEnds : q[2] # c \/ DonePair(c, q) => PairStays(interfaces, ms, q)
        /\ \E inner, outer \in ms : /\ InnerLink(inner) /\ inner.ns = "host" /\ inner.pair = p
                                    /\ OuterLink(outer) /\ outer.pair = p /\ outer = m
    <2>1. call[c].step \in {"toBridge", "peerUp"}
      BY <1>1
    <2>. QED
      BY <1>70, <1>8, <2>1, OuterChanges
  <1>10. BridgeIn(ms, k)
    BY <1>6, <1>9, BridgeInStays
  <1>11. PairMade(ms, p, k, "host", TRUE, TRUE)
    BY <1>8, <1>9, <1>10 DEF PairMade
  <1>12. Underway(ms, p, "move", k, new.todo)
    BY <1>5, <1>11, StepsApart DEF Underway
  <1>. QED
    BY <1>1, <1>2, <1>3, <1>9, <1>12, WorksOn DEF p, k

LEMMA MoveToContainerStep ==
  ASSUME ContainerNetInv, NEW c \in Containers, MoveToContainer(c)
  PROVE  ContainerNetInv'
  <1>. DEFINE k == config(c)
              p == hostEnd(c, k)
              l == Get("host", Plain(k.zoneif))
              m == [l EXCEPT !.ns = c, !.up = FALSE]
              ms == Changed(l, m)
  <1>1. call[c].step = "move" /\ call[c].step \in AtPair /\ NextConfig(c) /\ guardFrame(c) /\ interfaces' = ms
        /\ ~Has(c, Plain(k.zoneif))
    BY StepsApart DEF MoveToContainer, At
  <1>2. Underway(interfaces, p, call[c].step, k, call[c].todo)
    BY <1>1, AtConfig
  <1>3. k.type = "VETH_BRIDGED" /\ PairMade(interfaces, p, k, "host", TRUE, TRUE)
    BY <1>1, <1>2 DEF Underway
  <1>4. /\ l \in interfaces /\ LinkLike(l) /\ InnerLink(l) /\ l.pair = p /\ l.name = Plain(k.zoneif) /\ l.kind # "bridge"
        /\ BridgeIn(interfaces, k)
        /\ \E outer \in interfaces : OuterLink(outer) /\ outer # l /\ outer.pair = p /\ outer.master = k.hostif /\ outer.up
    BY <1>1, <1>3, ThePair DEF ContainerNetInv, LinksOK, LinkShaped
  <1>5. PICK outer \in interfaces : OuterLink(outer) /\ outer # l /\ outer.pair = p /\ outer.master = k.hostif /\ outer.up
    BY <1>4
  <1>6. p[2] = c
    BY DEF hostEnd
  <1>. HIDE DEF l, k, p
  <1>7. LinkLike(m) /\ m.ns = c /\ m.name = l.name /\ m.kind = l.kind /\ m.pair = l.pair
    BY <1>4 DEF LinkLike
  <1>8. ms = (interfaces \ {l}) \cup {m}
    BY DEF Changed
  <1>. HIDE DEF m, ms
  <1>9. InnerLink(m) /\ ~OuterLink(m) /\ ~OuterLink(l)
    <2>1. c # "host"
      BY ContainerNetworkAssumption
    <2>. QED
      BY <1>4, <1>6, <1>7, <2>1, NamesApart DEF InnerLink, OuterLink
  <1>10. LinksOK(ms) /\ \A x \in interfaces : x # l => StaysWell(x, ms) /\ Stays(x, ms)
    <2>1. LinkShaped(m)
      BY <1>7, <1>9 DEF LinkShaped
    <2>2. \A x \in interfaces : x.name = m.name => x.ns # m.ns
      BY <1>1, <1>4, <1>7 DEF Has
    <2>. QED
      BY <1>4, <1>7, <1>8, <1>9, <2>1, <2>2, MovedTo DEF ContainerNetInv
  <1>11. BridgesStay(interfaces, ms) /\ \A q : q # p => PairStays(interfaces, ms, q)
    BY <1>4, <1>10, OthersStay
  <1>12. \A q \in HostEnds : q[2] # c \/ DonePair(c, q) => PairStays(interfaces, ms, q)
    BY <1>1, <1>11, OtherPairs DEF p, k
  <1>13. PairMade(ms, p, k, c, TRUE, TRUE)
    <2>1. BridgeIn(ms, k)
      BY <1>4, <1>11, BridgeInStays
    <2>2. m \in ms /\ outer \in ms
      BY <1>5, <1>8
    <2>. QED
      BY <1>4, <1>5, <1>7, <1>9, <2>1, <2>2 DEF PairMade
  <1>14. WiredIn(ms, p, c, k)
    BY <1>3, <1>13 DEF WiredIn
  <1>. QED
    BY <1>1, <1>10, <1>11, <1>12, <1>14, WorksDone DEF p, k


\* An interface that is neither a bridge nor the host's end of a pair may change.
LEMMA InsideChanges ==
  ASSUME NEW ls, LinksOK(ls), NEW l \in ls, l.kind # "bridge", ~OuterLink(l), NEW m, LinkLike(m), Like(l, m)
  PROVE  /\ LinksOK((ls \ {l}) \cup {m}) /\ BridgesStay(ls, (ls \ {l}) \cup {m})
         /\ \A p : PairStays(ls, (ls \ {l}) \cup {m}, p)
  <1>. DEFINE ms == (ls \ {l}) \cup {m}
  <1>1. LinksOK(ms) /\ \A x \in ls : Stays(x, ms) /\ (x # l => StaysWell(x, ms))
    BY Remade
  <1>. HIDE DEF ms
  <1>2. BridgesStay(ls, ms) /\ \A p : PairStays(ls, ms, p)
    BY <1>1 DEF BridgesStay, PairStays
  <1>. QED
    BY <1>1, <1>2 DEF ms

\* One in a container is neither.
LEMMA InsideIs ==
  ASSUME NEW ls, LinksOK(ls), NEW l \in ls, l.ns \in Containers
  PROVE  l.kind # "bridge" /\ ~OuterLink(l) /\ LinkLike(l)
  BY KindsApart DEF LinksOK, LinkShaped

LEMMA ConfigureStep ==
  ASSUME ContainerNetInv, NEW c \in Containers, Configure(c)
  PROVE  ContainerNetInv'
  <1>. DEFINE at == call[c].at
              n == Len(mInterfaces[c])
  <1>1. /\ n \in Nat /\ DOMAIN mInterfaces[c] = 1 .. n /\ n <= MaxConfigs /\ MaxConfigs \in Nat
        /\ call[c] \in [step : Calls, at : 1 .. MaxConfigs + 1, todo : SUBSET InetAddresses]
        /\ call[c].step = "configure" /\ mInterfaces' = mInterfaces /\ starts' = starts
    BY ConfigsOf, ContainerNetworkAssumption DEF ContainerNetInv, GuardsTyped, Configure, At
  <1>2. ASSUME NEW new \in [step : Calls, at : 1 .. MaxConfigs + 1, todo : SUBSET InetAddresses],
               call' = [call EXCEPT ![c] = new], new.step \in {"configure", "running"},
               routes' \in [Containers -> SUBSET InetAddresses],
               LinksOK(interfaces'), BridgesStay(interfaces, interfaces'), \A p : PairStays(interfaces, interfaces', p)
        PROVE  ContainerNetInv'
    <2>1. GuardsTyped' /\ call'[c] = new /\ OnlyGuard(c)
      BY <1>1, <1>2, CallTyped DEF ContainerNetInv
    <2>2. \A i : IsDone(call[c].step, i, call[c].at)
      BY <1>1 DEF IsDone
    <2>3. call'[c].step \notin AtBridge \cup AtPair /\ call[c].step # "idle"
      BY <1>1, <1>2, <2>1, StepsApart
    <2>4. GuardInv(c)'
      BY <1>1, <1>2, <2>2, <2>3, OwnGuard DEF ContainerNetInv
    <2>. QED
      BY <1>2, <2>1, <2>4, ByOneGuard
  <1>3. CASE at > n
    <2>1. Goes(c, "running") /\ interfaces' = interfaces /\ routes' = routes
      BY <1>3 DEF Configure
    <2>2. PICK new \in [step : Calls, at : 1 .. MaxConfigs + 1, todo : SUBSET InetAddresses] :
             call' = [call EXCEPT ![c] = new] /\ new.step = "running"
      BY <2>1, GoesTo, StepsApart
    <2>3. LinksOK(interfaces') /\ BridgesStay(interfaces, interfaces') /\ \A p : PairStays(interfaces, interfaces', p)
      BY <2>1, Identical DEF ContainerNetInv
    <2>4. routes' \in [Containers -> SUBSET InetAddresses]
      BY <2>1 DEF ContainerNetInv, GuardsTyped
    <2>. QED
      BY <1>2, <2>2, <2>3, <2>4
  <1>4. CASE at <= n
    <2>. DEFINE k == config(c)
                new == [call[c] EXCEPT !.at = @ + 1]
                l == Get(c, Plain(k.zoneif))
                gateways == {i \in DOMAIN k.addrs : k.addrs[i].gateway}
                m == [l EXCEPT !.up = TRUE, !.addrs = @ \cup ToSet(k.addrs)]
                ms == (interfaces \ {l}) \cup {m}
    <2>0. ~(at > n)
      BY <1>1, <1>4
    <2>1. /\ call' = [call EXCEPT ![c] = new]
          /\ k.type # "VETH_BRIDGED" => interfaces' = interfaces /\ routes' = routes
          /\ k.type = "VETH_BRIDGED" => /\ Has(c, Plain(k.zoneif)) /\ interfaces' = ms
                                        /\ \/ gateways # {} /\ addRoute(c, k.addrs[Min(gateways)])
                                           \/ routes' = routes
      BY <2>0 DEF Configure, Changed
    <2>2. new \in [step : Calls, at : 1 .. MaxConfigs + 1, todo : SUBSET InetAddresses] /\ new.step = "configure"
      <3>1. at + 1 \in 1 .. MaxConfigs + 1
        BY <1>1, <1>4
      <3>. QED
        BY <1>1, <3>1
    <2>3. k \in KnownConfigs
      <3>1. at \in DOMAIN mInterfaces[c]
        BY <1>1, <1>4
      <3>. QED
        BY <3>1, ConfigsOf DEF config, ContainerNetInv
    <2>4. k.addrs \in Seq(InetAddresses)
      BY <2>3 DEF KnownConfigs, Configs
    <2>. HIDE DEF k
    <2>5. ToSet(k.addrs) \subseteq InetAddresses
      BY <2>4, LenProperties DEF ToSet
    <2>6. routes' \in [Containers -> SUBSET InetAddresses]
      <3>1. routes \in [Containers -> SUBSET InetAddresses]
        BY DEF ContainerNetInv, GuardsTyped
      <3>2. CASE routes' = routes
        BY <3>1, <3>2
      <3>3. CASE gateways # {} /\ addRoute(c, k.addrs[Min(gateways)])
        <4>1. gateways \subseteq DOMAIN k.addrs /\ DOMAIN k.addrs \subseteq Int
          BY <2>4, LenProperties
        <4>2. \E i \in gateways : \A j \in gateways : i <= j
          <5>1. DOMAIN k.addrs \subseteq Nat
            BY <2>4, LenProperties
          <5>2. gateways \subseteq Nat /\ gateways # {}
            BY <3>3, <4>1, <5>1
          <5>. HIDE DEF gateways
          <5>. QED
            BY <5>2, LeastElement
        <4>3. Min(gateways) \in gateways
          <5>. HIDE DEF gateways
          <5>. QED
            BY <4>2 DEF Min
        <4>4. k.addrs[Min(gateways)] \in InetAddresses
          <5>1. Min(gateways) \in DOMAIN k.addrs
            BY <4>1, <4>3
          <5>. HIDE DEF gateways
          <5>. QED
            BY <2>4, <5>1, LenProperties
        <4>. HIDE DEF gateways
        <4>. QED
          BY <3>1, <3>3, <4>4 DEF addRoute
      <3>4. k.type = "VETH_BRIDGED" \/ k.type # "VETH_BRIDGED"
        OBVIOUS
      <3>. HIDE DEF gateways, ms
      <3>. QED
        BY <2>1, <3>2, <3>3, <3>4
    <2>7. CASE k.type # "VETH_BRIDGED"
      <3>1. interfaces' = interfaces
        BY <2>1, <2>7
      <3>2. LinksOK(interfaces') /\ BridgesStay(interfaces, interfaces') /\ \A p : PairStays(interfaces, interfaces', p)
        BY <3>1, Identical DEF ContainerNetInv
      <3>. HIDE DEF new
      <3>. QED
        BY <1>2, <2>1, <2>2, <2>6, <3>2
    <2>8. CASE k.type = "VETH_BRIDGED"
      <3>1. Has(c, Plain(k.zoneif)) /\ interfaces' = ms
        BY <2>1, <2>8
      <3>2. l \in interfaces /\ l.ns \in Containers
        BY <3>1, Found
      <3>3. l.kind # "bridge" /\ ~OuterLink(l) /\ LinkLike(l)
        BY <3>2, InsideIs DEF ContainerNetInv
      <3>. HIDE DEF l
      <3>4. LinkLike(m) /\ Like(l, m)
        BY <2>5, <3>3 DEF LinkLike, Like
      <3>. HIDE DEF m
      <3>5. LinksOK(interfaces') /\ BridgesStay(interfaces, interfaces') /\ \A p : PairStays(interfaces, interfaces', p)
        BY <3>1, <3>2, <3>3, <3>4, InsideChanges DEF ContainerNetInv
      <3>. HIDE DEF new
      <3>. QED
        BY <1>2, <2>1, <2>2, <2>6, <3>5
    <2>. QED
      BY <2>7, <2>8
  <1>. QED
    BY <1>1, <1>3, <1>4

LEMMA NetworkDiesStep ==
  ASSUME ContainerNetInv, NEW c \in Containers, NetworkDies(c)
  PROVE  ContainerNetInv'
  <1>. DEFINE inside == {l \in interfaces : l.ns = c}
              phys == {l \in inside : l.kind = "phys"}
              back(l) == [l EXCEPT !.ns = "host", !.master = "none"]
              given == {back(l) : l \in phys}
              left == Destroyed(interfaces, inside)
              new == [step |-> "idle", at |-> 1, todo |-> {}]
  <1>1. call' = [call EXCEPT ![c] = new] /\ interfaces' = left \cup given /\ mInterfaces' = mInterfaces /\ starts' = starts
        /\ routes' = [routes EXCEPT ![c] = {}]
    BY DEF NetworkDies
  <1>2. new \in [step : Calls, at : 1 .. MaxConfigs + 1, todo : SUBSET InetAddresses]
    BY ContainerNetworkAssumption DEF Calls
  <1>3. routes' \in [Containers -> SUBSET InetAddresses]
    BY <1>1 DEF ContainerNetInv, GuardsTyped
  <1>4. GuardsTyped' /\ call'[c] = new /\ OnlyGuard(c)
    <2>. HIDE DEF new
    <2>. QED
      BY <1>1, <1>2, <1>3, CallTyped DEF ContainerNetInv
  <1>5. GuardInv(c)'
    <2>1. call'[c].step = "idle"
      BY <1>4
    <2>2. "idle" \notin AtBridge \cup AtPair /\ \A i, at : ~IsDone("idle", i, at)
      BY StepsApart, DoneNotIdle
    <2>. QED
      BY <2>1, <2>2 DEF GuardInv
  <1>6. ASSUME NEW l \in phys
        PROVE  /\ LinkShaped(back(l)) /\ PhysLink(back(l)) /\ l \in interfaces /\ l.ns = c
               /\ back(l).ns = "host" /\ back(l).name = l.name /\ back(l).pair = l.pair
    <2>1. l \in interfaces /\ l.kind = "phys" /\ LinkShaped(l) /\ LinkLike(l) /\ l.ns = c
      BY DEF ContainerNetInv, LinksOK, LinkShaped
    <2>2. PhysLink(l)
      BY <2>1 DEF LinkShaped, BridgeLink, OuterLink, InnerLink, MadeLink
    <2>3. /\ LinkLike(back(l)) /\ back(l).ns = "host" /\ back(l).name = l.name /\ back(l).pair = l.pair /\ back(l).kind = l.kind
      BY <2>1 DEF LinkLike
    <2>. HIDE DEF back
    <2>4. PhysLink(back(l))
      BY <2>2, <2>3 DEF PhysLink
    <2>. QED
      BY <2>1, <2>3, <2>4 DEF LinkShaped
  <1>7. /\ LinksOK(left) /\ left \subseteq interfaces
        /\ \A l \in interfaces : (\A d \in inside : d.pair # l.pair) => StaysWell(l, left) /\ Stays(l, left)
        /\ \A l \in left : \A d \in inside : d.pair # l.pair
    <2>1. left \subseteq interfaces /\ \A l \in left : \A d \in inside : d.pair # l.pair
      BY DEF Destroyed
    <2>. HIDE DEF inside
    <2>. QED
      BY <2>1, Taken DEF ContainerNetInv
  <1>. HIDE DEF left
  <1>8. LinksOK(left \cup given) /\ \A l \in left : StaysWell(l, left \cup given) /\ Stays(l, left \cup given)
    <2>1. \A x \in given : LinkShaped(x) /\ ~InnerLink(x)
      <3>1. \A x : PhysLink(x) => ~InnerLink(x)
        BY DEF PhysLink, InnerLink
      <3>. HIDE DEF back, phys
      <3>. QED
        BY <1>6, <3>1
    <2>2. ASSUME NEW x \in given, NEW y \in given, x.name = y.name PROVE x = y
      <3>1. PICK a \in phys, b \in phys : x = back(a) /\ y = back(b)
        OBVIOUS
      <3>2. a = b
        <4>. HIDE DEF back, phys
        <4>. QED
          BY <1>6, <2>2, <3>1 DEF ContainerNetInv, LinksOK
      <3>. QED
        BY <3>1, <3>2
    <2>3. ASSUME NEW x \in given, NEW l \in left, x.name = l.name PROVE x.ns # l.ns /\ x.pair # l.pair
      <3>1. PICK a \in phys : x = back(a)
        OBVIOUS
      <3>2. a \in inside
        BY <3>1
      <3>. HIDE DEF back, phys, inside
      <3>3. x.ns = "host" /\ x.name = a.name /\ x.pair = a.pair /\ PhysLink(x)
        BY <1>6, <3>1
      <3>4. x.pair # l.pair
        BY <1>7, <3>2, <3>3
      <3>5. PICK n \in FreeNames : x.name = Plain(n) /\ x.pair = <<n>>
        BY <3>3 DEF PhysLink
      <3>6. ASSUME l.ns = "host" PROVE FALSE
        <4>1. PhysLink(l)
          BY <1>7, <2>3, <3>5, <3>6, KindsApart
        <4>2. PICK o \in FreeNames : l.name = Plain(o) /\ l.pair = <<o>>
          BY <4>1 DEF PhysLink
        <4>3. o = n
          BY <2>3, <3>5, <4>2, NamesApart
        <4>. QED
          BY <3>4, <3>5, <4>2, <4>3
      <3>. QED
        BY <3>3, <3>4, <3>6
    <2>. HIDE DEF given
    <2>. QED
      BY <1>7, <2>1, <2>2, <2>3, Added
  <1>9. ASSUME NEW l \in interfaces, \A d \in inside : d.pair # l.pair
        PROVE  StaysWell(l, left \cup given) /\ Stays(l, left \cup given)
    <2>. HIDE DEF inside, given
    <2>1. StaysWell(l, left) /\ Stays(l, left)
      BY <1>7, <1>9
    <2>2. l.ns = l.ns
      OBVIOUS
    <2>. QED
      BY <2>1 DEF StaysWell, Stays
  <1>10. ASSUME NEW d \in inside PROVE LinkShaped(d) /\ d.ns = c /\ ~BridgeLink(d) /\ ~OuterLink(d)
    <2>1. d \in interfaces /\ d.ns = c
      OBVIOUS
    <2>. QED
      BY <2>1, KindsApart DEF ContainerNetInv, LinksOK
  <1>11. ASSUME NEW l \in interfaces, BridgeLink(l), NEW d \in inside PROVE d.pair # l.pair
    <2>. HIDE DEF inside
    <2>1. PICK h \in BridgeNames : l.pair = <<h>>
      BY <1>11 DEF BridgeLink
    <2>2. CASE PhysLink(d)
      <3>1. PICK m \in FreeNames : d.pair = <<m>>
        BY <2>2 DEF PhysLink
      <3>2. m # h
        BY NamesAssumption
      <3>. QED
        BY <2>1, <3>1, <3>2, NamesApart
    <2>3. CASE InnerLink(d)
      BY <2>1, <2>3, NamesApart DEF InnerLink
    <2>4. CASE MadeLink(d)
      BY <2>1, <2>4, NamesApart DEF MadeLink
    <2>. QED
      BY <1>10, <2>2, <2>3, <2>4 DEF LinkShaped
  <1>12. ASSUME NEW p \in HostEnds, p[2] # c, NEW d \in inside PROVE d.pair # p
    <2>. HIDE DEF inside
    <2>1. ASSUME d.pair = p PROVE FALSE
      <3>1. InnerLink(d)
        BY <1>10, <1>12, <2>1, NamesApart DEF LinkShaped, PhysLink, MadeLink
      <3>2. d.ns \in {"host", p[2]} /\ d.ns = c /\ c # "host"
        BY <1>10, <2>1, <3>1, ContainerNetworkAssumption DEF InnerLink
      <3>. QED
        BY <1>12, <3>2
    <2>. QED
      BY <2>1
  <1>. HIDE DEF given, inside
  <1>13. BridgesStay(interfaces, left \cup given)
    <2>1. ASSUME NEW l \in interfaces, l.kind = "bridge" PROVE StaysWell(l, left \cup given)
      <3>1. BridgeLink(l)
        BY <2>1, KindsApart DEF ContainerNetInv
      <3>. QED
        BY <1>9, <1>11, <3>1
    <2>. QED
      BY <2>1 DEF BridgesStay
  <1>14. ASSUME NEW p \in HostEnds, p[2] # c PROVE PairStays(interfaces, left \cup given, p)
    BY <1>9, <1>12, <1>14 DEF PairStays
  <1>. QED
    BY <1>1, <1>4, <1>5, <1>8, <1>13, <1>14, ByOneGuard

\* Nothing of the guards changes.
LEMMA ByNoGuard ==
  ASSUME ContainerNetInv, runtimeFrame, LinksOK(interfaces'), BridgesStay(interfaces, interfaces'),
         \A p \in HostEnds : PairStays(interfaces, interfaces', p)
  PROVE  ContainerNetInv'
  <1>1. mInterfaces' = mInterfaces /\ call' = call /\ starts' = starts /\ routes' = routes
    BY DEF runtimeFrame
  <1>2. GuardsTyped'
    BY <1>1 DEF GuardsTyped, ContainerNetInv
  <1>3. ASSUME NEW d \in Containers PROVE GuardInv(d)'
    BY <1>1, OtherGuard DEF ContainerNetInv
  <1>. QED
    BY <1>2, <1>3 DEF ContainerNetInv

LEMMA CreateInterfaceStep ==
  ASSUME ContainerNetInv, NEW c \in Containers, NEW name \in FreeNames, NEW peer \in FreeNames \cup {"peer"},
         NEW kind \in {"veth", "macvlan"}, createInterface(c, name, peer, kind)
  PROVE  ContainerNetInv'
  <1>. DEFINE names == IF kind = "veth" THEN {name, peer} ELSE {name}
              N == {Link(c, Plain(n), kind, <<c, name>>) : n \in names}
              ms == interfaces \cup N
  <1>1. interfaces' = ms /\ runtimeFrame
    BY DEF createInterface
  <1>2. names \subseteq FreeNames \cup {"peer"} /\ \A n \in names : ~Has(c, Plain(n))
    BY DEF createInterface
  <1>. HIDE DEF names
  <1>3. ASSUME NEW x \in N
        PROVE  LinkShaped(x) /\ ~InnerLink(x) /\ x.ns = c /\ x.pair = <<c, name>> /\ \E n \in names : x.name = Plain(n)
    <2>1. PICK n \in names : x = Link(c, Plain(n), kind, <<c, name>>)
      OBVIOUS
    <2>2. LinkLike(x) /\ x.ns = c /\ x.pair = <<c, name>> /\ x.name = Plain(n) /\ x.kind = kind
      BY <2>1, LinkIsLike
    <2>3. MadeLink(x)
      BY <1>2, <2>2 DEF MadeLink
    <2>4. ~InnerLink(x)
      BY <2>2, NamesApart DEF InnerLink
    <2>. QED
      BY <2>2, <2>3, <2>4 DEF LinkShaped
  <1>4. ASSUME NEW x \in N, NEW y \in N, x.name = y.name PROVE x = y
    <2>1. PICK n \in names, o \in names : x = Link(c, Plain(n), kind, <<c, name>>) /\ y = Link(c, Plain(o), kind, <<c, name>>)
      OBVIOUS
    <2>2. x.name = Plain(n) /\ y.name = Plain(o)
      BY <2>1, LinkIsLike
    <2>3. n = o
      BY <1>4, <2>2, NamesApart
    <2>. QED
      BY <2>1, <2>3
  <1>. HIDE DEF N
  <1>5. ASSUME NEW x \in N, NEW l \in interfaces, x.name = l.name PROVE x.ns # l.ns /\ x.pair # l.pair
    <2>1. PICK n \in names : x.name = Plain(n)
      BY <1>3
    <2>2. l.ns # c
      <3>1. l.name = Plain(n)
        BY <1>5, <2>1
      <3>. QED
        BY <1>2, <3>1 DEF Has
    <2>3. l.pair # <<c, name>>
      <3>1. ASSUME l.pair = <<c, name>> PROVE FALSE
        <4>1. MadeLink(l)
          <5>1. LinkShaped(l)
            BY DEF ContainerNetInv, LinksOK
          <5>2. ~PhysLink(l) /\ ~BridgeLink(l)
            BY <3>1, NamesApart DEF PhysLink, BridgeLink
          <5>3. ~OuterLink(l) /\ ~InnerLink(l)
            BY <3>1, NamesApart DEF OuterLink, InnerLink
          <5>. QED
            BY <5>1, <5>2, <5>3 DEF LinkShaped
        <4>2. PICK o \in FreeNames : l.pair = <<l.ns, o>>
          BY <4>1 DEF MadeLink
        <4>. QED
          BY <2>2, <3>1, <4>2, NamesApart
      <3>. QED
        BY <3>1
    <2>. QED
      BY <1>3, <2>2, <2>3
  <1>6. LinksOK(ms) /\ \A l \in interfaces : StaysWell(l, ms)
    <2>1. \A x \in N : LinkShaped(x) /\ ~InnerLink(x)
      BY <1>3
    <2>. QED
      BY <1>4, <1>5, <2>1, Added DEF ContainerNetInv
  <1>7. BridgesStay(interfaces, ms) /\ \A p : PairStays(interfaces, ms, p)
    BY <1>6, AllStay
  <1>. QED
    BY <1>1, <1>6, <1>7, ByNoGuard

LEMMA DestroyInterfaceStep ==
  ASSUME ContainerNetInv, NEW c \in Containers, NEW name \in FreeNames, destroyInterface(c, name)
  PROVE  ContainerNetInv'
  <1>. DEFINE l == Get(c, Plain(name))
              ms == Destroyed(interfaces, {l})
  <1>1. interfaces' = ms /\ runtimeFrame /\ Has(c, Plain(name)) /\ l.kind # "phys"
    BY DEF destroyInterface
  <1>2. l \in interfaces /\ l.ns = c /\ l.name = Plain(name)
    BY <1>1, Found
  <1>. HIDE DEF l
  <1>3. MadeLink(l)
    <2>1. LinkShaped(l) /\ ~BridgeLink(l) /\ ~OuterLink(l) /\ ~InnerLink(l)
      BY <1>2, KindsApart DEF ContainerNetInv, LinksOK
    <2>. QED
      BY <1>1, <2>1 DEF LinkShaped, PhysLink
  <1>4. PICK n \in FreeNames : l.pair = <<l.ns, n>>
    BY <1>3 DEF MadeLink
  <1>5. LinksOK(ms) /\ \A x \in interfaces : l.pair # x.pair => StaysWell(x, ms) /\ Stays(x, ms)
    BY Taken DEF ContainerNetInv
  <1>. HIDE DEF ms
  <1>6. BridgesStay(interfaces, ms)
    <2>1. ASSUME NEW x \in interfaces, x.kind = "bridge" PROVE x.pair # l.pair
      <3>1. BridgeLink(x)
        BY <2>1, KindsApart DEF ContainerNetInv
      <3>2. PICK h : x.pair = <<h>>
        BY <3>1 DEF BridgeLink
      <3>. QED
        BY <1>4, <3>2, NamesApart
    <2>. QED
      BY <1>5, <2>1 DEF BridgesStay
  <1>7. \A p \in HostEnds : PairStays(interfaces, ms, p)
    <2>1. \A p \in HostEnds : p # l.pair
      BY <1>4, NamesApart
    <2>. QED
      BY <1>5, <2>1 DEF PairStays
  <1>. QED
    BY <1>1, <1>5, <1>6, <1>7, ByNoGuard

LEMMA MoveInterfaceStep ==
  ASSUME ContainerNetInv, NEW c \in Containers, NEW name \in FreeNames, moveInterface(c, name)
  PROVE  ContainerNetInv'
  <1>. DEFINE l == Get("host", Plain(name))
              m == [l EXCEPT !.ns = c, !.up = FALSE, !.master = "none"]
              ms == (interfaces \ {l}) \cup {m}
  <1>1. interfaces' = ms /\ runtimeFrame /\ Has("host", Plain(name)) /\ ~Has(c, Plain(name))
    BY DEF moveInterface, Changed
  <1>2. l \in interfaces /\ l.ns = "host" /\ l.name = Plain(name)
    BY <1>1, Found
  <1>. HIDE DEF l
  <1>3. PhysLink(l) /\ ~BridgeLink(l) /\ ~OuterLink(l) /\ ~InnerLink(l) /\ LinkLike(l) /\ l.kind # "bridge"
    BY <1>2, KindsApart DEF ContainerNetInv, LinksOK, LinkShaped
  <1>4. LinkLike(m) /\ m.ns = c /\ m.name = l.name /\ m.kind = l.kind /\ m.pair = l.pair
    BY <1>3 DEF LinkLike
  <1>. HIDE DEF m
  <1>5. LinkShaped(m) /\ ~OuterLink(m) /\ ~InnerLink(m)
    BY <1>3, <1>4 DEF LinkShaped, PhysLink, OuterLink, InnerLink
  <1>6. \A x \in interfaces : x.name = m.name => x.ns # m.ns
    BY <1>1, <1>2, <1>4 DEF Has
  <1>7. LinksOK(ms) /\ \A x \in interfaces : x # l => StaysWell(x, ms) /\ Stays(x, ms)
    BY <1>2, <1>3, <1>4, <1>5, <1>6, MovedTo DEF ContainerNetInv
  <1>. HIDE DEF ms
  <1>8. BridgesStay(interfaces, ms) /\ \A q : q # l.pair => PairStays(interfaces, ms, q)
    BY <1>2, <1>3, <1>7, OthersStay
  <1>9. \A p \in HostEnds : p # l.pair
    BY <1>3, NamesApart DEF PhysLink
  <1>. QED
    BY <1>1, <1>7, <1>8, <1>9, ByNoGuard

LEMMA SetInterfaceStep ==
  ASSUME ContainerNetInv, NEW c \in Containers, NEW name \in FreeNames, setInterface(c, name)
  PROVE  ContainerNetInv'
  <1>. DEFINE l == Get(c, Plain(name))
  <1>1. Has(c, Plain(name)) /\ runtimeFrame
    BY DEF setInterface
  <1>2. PICK m \in {[l EXCEPT !.up = ~@]} \cup {[l EXCEPT !.addrs = @ \cup {a}] : a \in InetAddresses}
                      \cup {[l EXCEPT !.addrs = @ \ {a}] : a \in InetAddresses} :
           interfaces' = Changed(l, m)
    BY DEF setInterface
  <1>3. l \in interfaces /\ l.ns = c
    BY <1>1, Found
  <1>4. l.kind # "bridge" /\ ~OuterLink(l) /\ LinkLike(l)
    BY <1>3, InsideIs DEF ContainerNetInv
  <1>. HIDE DEF l
  <1>5. LinkLike(m) /\ Like(l, m)
    <2>1. CASE m = [l EXCEPT !.up = ~@]
      BY <1>4, <2>1 DEF LinkLike, Like
    <2>2. ASSUME NEW a \in InetAddresses, m = [l EXCEPT !.addrs = @ \cup {a}] \/ m = [l EXCEPT !.addrs = @ \ {a}]
          PROVE  LinkLike(m) /\ Like(l, m)
      <3>1. CASE m = [l EXCEPT !.addrs = @ \cup {a}]
        BY <1>4, <3>1 DEF LinkLike, Like
      <3>2. CASE m = [l EXCEPT !.addrs = @ \ {a}]
        BY <1>4, <3>2 DEF LinkLike, Like
      <3>. QED
        BY <2>2, <3>1, <3>2
    <2>. QED
      BY <1>2, <2>1, <2>2
  <1>6. LinksOK(interfaces') /\ BridgesStay(interfaces, interfaces') /\ \A p : PairStays(interfaces, interfaces', p)
    BY <1>2, <1>3, <1>4, <1>5, InsideChanges DEF ContainerNetInv, Changed
  <1>. QED
    BY <1>1, <1>6, ByNoGuard

-----------------------------------------------------------------------------
LEMMA NetworkInitHolds ==
  ASSUME ContainerNetInit
  PROVE  ContainerNetInv
  <1>1. GuardsTyped
    <2>1. <<>> \in Seq(KnownConfigs) /\ Len(<<>>) = 0 /\ MaxConfigs \in Nat /\ 1 \in 1 .. MaxConfigs + 1 /\ "idle" \in Calls
      BY ContainerNetworkAssumption DEF Calls
    <2>2. [step |-> "idle", at |-> 1, todo |-> {}] \in [step : Calls, at : 1 .. MaxConfigs + 1, todo : SUBSET InetAddresses]
      BY <2>1
    <2>3. \A c \in Containers : Len(mInterfaces[c]) <= MaxConfigs
      BY <2>1 DEF ContainerNetInit
    <2>. QED
      BY <2>1, <2>2, <2>3 DEF GuardsTyped, ContainerNetInit
  <1>2. ASSUME NEW l \in interfaces PROVE LinkShaped(l) /\ PhysLink(l) /\ l.ns = "host" /\ l = Link("host", l.name, "phys", l.pair)
    <2>1. PICK n \in FreeNames : l = Link("host", Plain(n), "phys", <<n>>)
      BY DEF ContainerNetInit
    <2>2. LinkLike(l) /\ l.ns = "host" /\ l.name = Plain(n) /\ l.kind = "phys" /\ l.pair = <<n>>
      BY <2>1, LinkIsLike
    <2>. QED
      BY <2>1, <2>2 DEF LinkShaped, PhysLink
  <1>3. ASSUME NEW l \in interfaces, NEW m \in interfaces, l.name = m.name PROVE l = m
    <2>1. PICK a \in FreeNames, b \in FreeNames : l.name = Plain(a) /\ l.pair = <<a>> /\ m.name = Plain(b) /\ m.pair = <<b>>
      BY <1>2 DEF PhysLink
    <2>2. a = b
      BY <1>3, <2>1, NamesApart
    <2>3. l.pair = m.pair
      BY <2>1, <2>2
    <2>. QED
      BY <1>2, <1>3, <2>3
  <1>4. LinksOK(interfaces)
    <2>1. \A l \in interfaces : ~InnerLink(l)
      BY <1>2 DEF PhysLink, InnerLink
    <2>. QED
      BY <1>2, <1>3, <2>1 DEF LinksOK
  <1>5. ASSUME NEW c \in Containers PROVE GuardInv(c)
    BY StepsApart DEF ContainerNetInit, GuardInv
  <1>. QED
    BY <1>1, <1>4, <1>5 DEF ContainerNetInv

LEMMA GuardNetStep ==
  ASSUME ContainerNetInv, NEW c \in Containers, GuardNetNext(c)
  PROVE  ContainerNetInv'
  BY NetworkStarts, NextInterfaceStep, BridgeExistsStep, CreateBridgeStep, BridgeUpStep, ListAddressesStep, AddAddressStep,
     CreatePairStep, AddToBridgeStep, PeerUpStep, MoveToContainerStep, ConfigureStep, StartFailsStep, NetworkDiesStep
     DEF GuardNetNext

LEMMA ContainerNetStep ==
  ASSUME ContainerNetInv, [ContainerNetNext]_containerNetVars
  PROVE  ContainerNetInv'
  <1>1. CASE UNCHANGED containerNetVars
    <2>1. UNCHANGED <<mInterfaces, interfaces, call, starts, routes>>
      BY <1>1 DEF containerNetVars
    <2>2. BridgesStay(interfaces, interfaces') /\ \A p : PairStays(interfaces, interfaces', p)
      BY <2>1, Identical
    <2>. QED
      BY <2>1, <2>2, ByNoGuard DEF runtimeFrame, ContainerNetInv
  <1>2. ASSUME NEW c \in Containers, NEW new \in Candidates, NEW a \in InetAddresses,
               addInterfaceConfig(c, new) \/ addInetConfig(c, new.hostif, a)
        PROVE  ContainerNetInv'
    BY <1>2, AddsInterface, AddsAddress
  <1>3. ASSUME NEW c \in Containers, NEW new \in Candidates, addInterfaceConfig(c, new)
        PROVE  ContainerNetInv'
    BY <1>3, AddsInterface
  <1>4. ASSUME NEW c \in Containers, NEW name \in FreeNames, NEW peer \in FreeNames \cup {"peer"}, NEW kind \in {"veth", "macvlan"},
               createInterface(c, name, peer, kind)
        PROVE  ContainerNetInv'
    BY <1>4, CreateInterfaceStep
  <1>5. ASSUME NEW c \in Containers, NEW name \in FreeNames,
               destroyInterface(c, name) \/ moveInterface(c, name) \/ setInterface(c, name)
        PROVE  ContainerNetInv'
    BY <1>5, DestroyInterfaceStep, MoveInterfaceStep, SetInterfaceStep
  <1>. QED
    BY <1>1, <1>2, <1>3, <1>4, <1>5, GuardNetStep DEF ContainerNetNext

LEMMA NetworkIsWired ==
  ASSUME ContainerNetInv
  PROVE  ContainerNetTypeOK /\ InterfacesWired
  <1>1. ContainerNetTypeOK
    <2>1. ASSUME NEW c \in Containers
          PROVE  /\ Len(mInterfaces[c]) <= MaxConfigs /\ call[c].step \in Calls /\ call[c].at \in 1 .. MaxConfigs + 1
                 /\ call[c].todo \subseteq InetAddresses /\ starts[c] \in Nat /\ routes[c] \subseteq InetAddresses
      BY ConfigsOf DEF ContainerNetInv, GuardsTyped
    <2>2. ASSUME NEW l \in interfaces PROVE l.ns \in Containers \cup {"host"} /\ l.up \in BOOLEAN /\ l.addrs \subseteq InetAddresses
      BY DEF ContainerNetInv, LinksOK, LinkShaped, LinkLike
    <2>3. \A l, m \in interfaces : l.ns = m.ns /\ l.name = m.name => l = m
      BY DEF ContainerNetInv, LinksOK
    <2>. QED
      BY <2>1, <2>2, <2>3 DEF ContainerNetTypeOK
  <1>2. ASSUME NEW c \in Containers, running(c), NEW i \in DOMAIN mInterfaces[c]
        PROVE  Wired(c, mInterfaces[c][i])
    <2>. DEFINE k == mInterfaces[c][i]
                p == hostEnd(c, k)
    <2>1. WiredIn(interfaces, p, c, k) /\ k \in KnownConfigs /\ starts[c] > 0
      <3>1. IsDone(call[c].step, i, call[c].at) /\ call[c].step # "idle"
        BY <1>2 DEF running, At, IsDone
      <3>. QED
        BY <3>1, ConfigsOf DEF ContainerNetInv, GuardInv
    <2>2. k.type = "VETH_BRIDGED" => p[1] = k.zoneif
      BY <2>1, EndsOf DEF ContainerNetInv
    <2>. HIDE DEF k, p
    <2>3. k.type \in {"LOOPBACK", "BRIDGE", "VETH_BRIDGED"}
      BY <2>1 DEF KnownConfigs, Configs
    <2>4. CASE k.type = "LOOPBACK"
      BY <2>4 DEF Wired, k
    <2>5. CASE k.type = "BRIDGE"
      <3>1. PICK b \in interfaces : b.kind = "bridge" /\ b.name = Plain(k.hostif) /\ b.up /\ ToSet(k.addrs) \subseteq b.addrs
        BY <2>1, <2>5 DEF WiredIn, BridgeMade
      <3>2. b.ns = "host"
        BY <3>1, KindsApart DEF ContainerNetInv, BridgeLink
      <3>3. Wired(c, k)
        BY <2>5, <3>1, <3>2 DEF Wired
      <3>. QED
        BY <3>3 DEF k
    <2>6. CASE k.type = "VETH_BRIDGED"
      <3>1. PICK inner \in interfaces, outer \in interfaces :
              /\ InnerLink(inner) /\ inner.ns = c /\ inner.pair = p
              /\ OuterLink(outer) /\ outer.pair = p /\ outer.master = k.hostif /\ BridgeIn(interfaces, k) /\ outer.up
        BY <2>1, <2>6 DEF WiredIn, PairMade
      <3>2. PICK b \in interfaces : b.kind = "bridge" /\ b.name = Plain(k.hostif)
        BY <3>1 DEF BridgeIn
      <3>3. Has("host", Plain(k.hostif))
        BY <3>2, KindsApart DEF ContainerNetInv, BridgeLink, Has
      <3>4. inner.name = Plain(k.zoneif) /\ inner.kind = "veth" /\ outer.ns = "host"
        BY <2>2, <2>6, <3>1 DEF InnerLink, OuterLink
      <3>5. Wired(c, k)
        BY <2>6, <3>1, <3>3, <3>4 DEF Wired
      <3>. QED
        BY <3>5 DEF k
    <2>. QED
      BY <2>3, <2>4, <2>5, <2>6
  <1>. QED
    BY <1>1, <1>2 DEF InterfacesWired

\* createBridgeIfNeeded, createBridgedVeth and moveToContainer of however many guards, in
\* any order of their requests to the kernel: a container that runs has each interface of
\* its configuration, in the bridge that it names.
THEOREM RunningIsWired == ContainerNetSpec => [](ContainerNetTypeOK /\ InterfacesWired)
  <1>1. ContainerNetInit => ContainerNetInv
    BY NetworkInitHolds
  <1>2. ContainerNetInv /\ [ContainerNetNext]_containerNetVars => ContainerNetInv'
    BY ContainerNetStep
  <1>3. ContainerNetInv => ContainerNetTypeOK /\ InterfacesWired
    BY NetworkIsWired
  <1>. QED
    BY <1>1, <1>2, <1>3, PTL DEF ContainerNetSpec
=============================================================================
