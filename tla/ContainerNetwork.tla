-------------------------- MODULE ContainerNetwork --------------------------
(***************************************************************************)
(* The network of lxcpp containers: what a guard creates on the host while *)
(* it starts its container (commands/netcreate.cpp), what the container's  *)
(* first process sets up inside, and the operations of ContainerImpl on a  *)
(* running container.  Guards are processes: their requests to the kernel  *)
(* (network.cpp over netlink, one call a step) interleave.                 *)
(***************************************************************************)
EXTENDS Integers, SequencesExt, FiniteSetsExt

CONSTANTS
  Containers,   \* strings, none of them "host"
  Candidates,   \* the interface configurations a user may add
  InetAddresses, FreeNames,  \* for the operations on a running container
  MaxConfigs, MaxStarts  \* bounds on the list of a container, and on all starts

VARIABLES
  mInterfaces,  \* NetworkConfig of each container
  interfaces,   \* the kernel's interfaces, in the host and in the containers
  call,         \* what each guard is about to do: the interface and the call
  starts,       \* how often it was started: its init's pid, for names
  routes        \* the gateways of each container's default routes

containerNetVars == <<mInterfaces, interfaces, call, starts, routes>>

\* Of an address: `gateway', it is IPv4 with a prefix below 31.
Configs == [type : {"LOOPBACK", "BRIDGE", "VETH_BRIDGED"}, hostif : STRING, zoneif : STRING, addrs : Seq(InetAddresses)]

ASSUME ContainerNetworkAssumption ==
  /\ "host" \notin Containers /\ Containers \subseteq STRING
  /\ Candidates \subseteq Configs
  /\ MaxConfigs \in Nat /\ MaxStarts \in Nat
  /\ \A a \in InetAddresses : a.gateway \in BOOLEAN

\* The names of bridges, and those that containers give their ends of pairs.
BridgeNames == {k.hostif : k \in {k \in Candidates : k.type # "LOOPBACK"}}
ZoneNames == {k.zoneif : k \in {k \in Candidates : k.type = "VETH_BRIDGED"}}

\* A pair is made with the container's name for its end on the host, beside the
\* bridges; and no configured interface is taken away by hand.
ASSUME NamesAssumption ==
  /\ BridgeNames \cap ZoneNames = {}
  /\ FreeNames \cap (BridgeNames \cup ZoneNames) = {}

\* One interface: `pair' names the veth pair it is an end of.
Link(ns, name, kind, pair) ==
  [ns |-> ns, name |-> name, kind |-> kind, pair |-> pair, master |-> "none", up |-> FALSE, addrs |-> {}]

\* zoneif and pid; a name that is not a guard's has no pid.
Plain(name) == <<name, "", 0>>
hostEnd(c, config) == <<config.zoneif, c, starts[c]>>

Calls == {"idle", "next", "exists", "create", "up", "list", "addresses", "pair", "toBridge", "peerUp",
          "move", "configure", "running", "failed"}

ContainerNetTypeOK ==
  /\ \A c \in Containers : /\ Len(mInterfaces[c]) <= MaxConfigs
                           /\ call[c].step \in Calls /\ call[c].at \in 1 .. MaxConfigs + 1
                           /\ call[c].todo \subseteq InetAddresses
                           /\ starts[c] \in Nat
                           /\ routes[c] \subseteq InetAddresses
  /\ \A l \in interfaces : l.ns \in Containers \cup {"host"} /\ l.up \in BOOLEAN /\ l.addrs \subseteq InetAddresses
  /\ \A l, m \in interfaces : l.ns = m.ns /\ l.name = m.name => l = m

ContainerNetInit ==
  /\ mInterfaces = [c \in Containers |-> <<>>]
  /\ interfaces = {Link("host", Plain(n), "phys", <<n>>) : n \in FreeNames}
  /\ call = [c \in Containers |-> [step |-> "idle", at |-> 1, todo |-> {}]]
  /\ starts = [c \in Containers |-> 0]
  /\ routes = [c \in Containers |-> {}]

-----------------------------------------------------------------------------
\* Requests of NetworkInterface.  A name is resolved in one namespace; what
\* finds no interface, or one it may not replace, is refused.
Has(ns, name) == \E l \in interfaces : l.ns = ns /\ l.name = name
Get(ns, name) == CHOOSE l \in interfaces : l.ns = ns /\ l.name = name

\* setAttrs, addInetAddr, delInetAddr, bridgeModify, renameFrom.
Changed(l, new) == (interfaces \ {l}) \cup {new}
\* destroy: an end of a pair takes the other with it.
Destroyed(ls, doomed) == {l \in ls : l.pair \notin {d.pair : d \in doomed}}

\* addInterfaceConfig: an interface is refused only if both its names are there.
addInterfaceConfig(c, config) ==
  /\ call[c].step = "idle" /\ Len(mInterfaces[c]) < MaxConfigs
  /\ ~\E i \in DOMAIN mInterfaces[c] :
        mInterfaces[c][i].hostif = config.hostif /\ mInterfaces[c][i].zoneif = config.zoneif
  /\ mInterfaces' = [mInterfaces EXCEPT ![c] = Append(@, config)]
  /\ UNCHANGED <<interfaces, call, starts, routes>>

\* addInetConfig: to the first interface one of whose names it is.
addInetConfig(c, ifname, addr) ==
  /\ call[c].step = "idle"
  /\ \E i \in DOMAIN mInterfaces[c] :
       LET named(k) == ifname \in {mInterfaces[c][k].zoneif, mInterfaces[c][k].hostif}
       IN  /\ named(i) /\ \A k \in 1 .. i - 1 : ~named(k)
           /\ ~Contains(mInterfaces[c][i].addrs, addr)
           /\ mInterfaces' = [mInterfaces EXCEPT ![c][i].addrs = Append(@, addr)]
  /\ UNCHANGED <<interfaces, call, starts, routes>>

-----------------------------------------------------------------------------
config(c) == mInterfaces[c][call[c].at]
At(c, step) == call[c].step = step
Goes(c, step) == call' = [call EXCEPT ![c].step = step]
NextConfig(c) == call' = [call EXCEPT ![c] = [step |-> "next", at |-> @.at + 1, todo |-> {}]]
guardFrame(c) == UNCHANGED <<mInterfaces, starts, routes>>

\* A container is started: its guard has cloned init, in a network of its own.
StartNetwork(c) ==
  /\ At(c, "idle") /\ SumFunction(starts) < MaxStarts
  /\ call' = [call EXCEPT ![c] = [step |-> "next", at |-> 1, todo |-> {}]]
  /\ starts' = [starts EXCEPT ![c] = @ + 1]
  /\ UNCHANGED <<mInterfaces, interfaces, routes>>

\* NetCreateAll::execute.
NextInterface(c) ==
  /\ At(c, "next")
  /\ IF call[c].at > Len(mInterfaces[c])
     THEN call' = [call EXCEPT ![c] = [@ EXCEPT !.step = "configure", !.at = 1]]
     ELSE CASE config(c).type = "LOOPBACK" -> NextConfig(c)
            [] config(c).type = "BRIDGE" -> Goes(c, "exists")
            [] config(c).type = "VETH_BRIDGED" -> Goes(c, "pair")
  /\ UNCHANGED interfaces /\ guardFrame(c)

\* createBridgeIfNeeded: another guard may create the bridge after it was looked for.
BridgeExists(c) ==
  /\ At(c, "exists")
  /\ Goes(c, IF Has("host", Plain(config(c).hostif)) THEN "up" ELSE "create")
  /\ UNCHANGED interfaces /\ guardFrame(c)

CreateBridge(c) ==
  /\ At(c, "create") /\ ~Has("host", Plain(config(c).hostif))
  /\ interfaces' = interfaces \cup {Link("host", Plain(config(c).hostif), "bridge", <<config(c).hostif>>)}
  /\ Goes(c, "up") /\ guardFrame(c)

BridgeUp(c) ==
  /\ At(c, "up") /\ Has("host", Plain(config(c).hostif))
  /\ LET l == Get("host", Plain(config(c).hostif)) IN interfaces' = Changed(l, [l EXCEPT !.up = TRUE])
  /\ Goes(c, "list") /\ guardFrame(c)

\* Mutant: the bridge is left with the addresses it has.
Mutant_Missing(c, held) == {}

\* The addresses of the configuration that the bridge does not have.
Missing(c, held) == ToSet(config(c).addrs) \ held

ListAddresses(c) ==
  /\ At(c, "list") /\ Has("host", Plain(config(c).hostif))
  /\ LET held == Get("host", Plain(config(c).hostif)).addrs
     IN  call' = [call EXCEPT ![c] = [@ EXCEPT !.step = "addresses", !.todo = Missing(c, held)]]
  /\ UNCHANGED interfaces /\ guardFrame(c)

AddAddress(c) ==
  /\ At(c, "addresses")
  /\ IF call[c].todo = {} THEN NextConfig(c) /\ UNCHANGED interfaces
     ELSE \E a \in call[c].todo :
            LET l == Get("host", Plain(config(c).hostif))
            IN  /\ a \notin l.addrs
                /\ interfaces' = Changed(l, [l EXCEPT !.addrs = @ \cup {a}])
                /\ call' = [call EXCEPT ![c].todo = @ \ {a}]
  /\ guardFrame(c)

\* createBridgedVeth: both ends appear on the host, with the container's name for one.
CreatePair(c) ==
  /\ At(c, "pair")
  /\ ~Has("host", hostEnd(c, config(c))) /\ ~Has("host", Plain(config(c).zoneif))
  /\ interfaces' = interfaces \cup {Link("host", name, "veth", hostEnd(c, config(c))) :
                            name \in {hostEnd(c, config(c)), Plain(config(c).zoneif)}}
  /\ Goes(c, "toBridge") /\ guardFrame(c)

AddToBridge(c) ==
  /\ At(c, "toBridge") /\ Has("host", hostEnd(c, config(c))) /\ Has("host", Plain(config(c).hostif))
  /\ LET l == Get("host", hostEnd(c, config(c))) IN interfaces' = Changed(l, [l EXCEPT !.master = config(c).hostif])
  /\ Goes(c, "peerUp") /\ guardFrame(c)

PeerUp(c) ==
  /\ At(c, "peerUp") /\ Has("host", hostEnd(c, config(c)))
  /\ LET l == Get("host", hostEnd(c, config(c))) IN interfaces' = Changed(l, [l EXCEPT !.up = TRUE])
  /\ Goes(c, "move") /\ guardFrame(c)

\* moveToContainer: whatever has the container's name for it on the host goes.
MoveToContainer(c) ==
  /\ At(c, "move") /\ Has("host", Plain(config(c).zoneif)) /\ ~Has(c, Plain(config(c).zoneif))
  /\ LET l == Get("host", Plain(config(c).zoneif)) IN interfaces' = Changed(l, [l EXCEPT !.ns = c, !.up = FALSE])
  /\ NextConfig(c) /\ guardFrame(c)

\* addRoute: the gateway of the default route.
addRoute(c, a) == routes' = [routes EXCEPT ![c] = {a}]

\* NetConfigureAll::execute of one interface, in the container: up, its addresses
\* and, if there is none yet, a default route by the first address that can have one.
Configure(c) ==
  /\ At(c, "configure")
  /\ IF call[c].at > Len(mInterfaces[c]) THEN Goes(c, "running") /\ UNCHANGED <<interfaces, routes>>
     ELSE /\ call' = [call EXCEPT ![c].at = @ + 1]
          /\ IF config(c).type # "VETH_BRIDGED" THEN UNCHANGED <<interfaces, routes>>
             ELSE /\ Has(c, Plain(config(c).zoneif))
                  /\ LET l == Get(c, Plain(config(c).zoneif))
                         gateways == {i \in DOMAIN config(c).addrs : config(c).addrs[i].gateway}
                     IN  /\ interfaces' = Changed(l, [l EXCEPT !.up = TRUE, !.addrs = @ \cup ToSet(config(c).addrs)])
                         /\ IF routes[c] = {} /\ gateways # {}
                            THEN addRoute(c, config(c).addrs[Min(gateways)]) ELSE UNCHANGED routes
  /\ UNCHANGED <<mInterfaces, starts>>

\* The kernel refuses a request: the start fails and what was created stays.
StartFails(c) ==
  /\ ~At(c, "idle") /\ ~At(c, "running") /\ ~At(c, "failed")
  /\ Goes(c, "failed")
  /\ UNCHANGED <<mInterfaces, interfaces, starts, routes>>

\* Init exits, or never ran: the kernel drops the container's namespace with
\* what is in it, and gives a physical interface back.
NetworkDies(c) ==
  /\ ~At(c, "idle")
  /\ LET inside == {l \in interfaces : l.ns = c}
         phys == {l \in inside : l.kind = "phys"}
     IN  interfaces' = Destroyed(interfaces, inside) \cup {[l EXCEPT !.ns = "host", !.master = "none"] : l \in phys}
  /\ call' = [call EXCEPT ![c] = [step |-> "idle", at |-> 1, todo |-> {}]]
  /\ routes' = [routes EXCEPT ![c] = {}]
  /\ UNCHANGED <<mInterfaces, starts>>

-----------------------------------------------------------------------------
\* ContainerImpl on a running container; a request that is refused throws.
running(c) == At(c, "running")
runtimeFrame == UNCHANGED <<mInterfaces, call, starts, routes>>

\* createInterface: both ends of a veth pair, or a macvlan over hostif, in the container.
createInterface(c, name, peer, kind) ==
  /\ running(c) /\ ~Has(c, Plain(name))
  /\ IF kind = "veth" THEN peer # name /\ ~Has(c, Plain(peer))
     ELSE kind = "macvlan" => Has("host", Plain(peer))
  /\ interfaces' = interfaces \cup {Link(c, Plain(n), kind, <<c, name>>) : n \in IF kind = "veth" THEN {name, peer} ELSE {name}}
  /\ runtimeFrame

destroyInterface(c, name) ==
  /\ running(c) /\ Has(c, Plain(name)) /\ Get(c, Plain(name)).kind # "phys"
  /\ interfaces' = Destroyed(interfaces, {Get(c, Plain(name))})
  /\ runtimeFrame

\* moveInterface: an interface of the host, by its name there.
moveInterface(c, name) ==
  /\ running(c) /\ Has("host", Plain(name)) /\ ~Has(c, Plain(name))
  /\ LET l == Get("host", Plain(name)) IN interfaces' = Changed(l, [l EXCEPT !.ns = c, !.up = FALSE, !.master = "none"])
  /\ runtimeFrame

\* setUpInterface, setDownInterface, addInetAddr, delInetAddr.
setInterface(c, name) ==
  /\ running(c) /\ Has(c, Plain(name))
  /\ LET l == Get(c, Plain(name))
     IN  \E new \in {[l EXCEPT !.up = ~@]} \cup {[l EXCEPT !.addrs = @ \cup {a}] : a \in InetAddresses}
                      \cup {[l EXCEPT !.addrs = @ \ {a}] : a \in InetAddresses} :
           interfaces' = Changed(l, new)
  /\ runtimeFrame

GuardNetNext(c) ==
  \/ StartNetwork(c) \/ NextInterface(c) \/ BridgeExists(c) \/ CreateBridge(c) \/ BridgeUp(c)
  \/ ListAddresses(c) \/ AddAddress(c) \/ CreatePair(c) \/ AddToBridge(c) \/ PeerUp(c)
  \/ MoveToContainer(c) \/ Configure(c) \/ StartFails(c) \/ NetworkDies(c)

ContainerNetNext ==
  \E c \in Containers :
    \/ GuardNetNext(c)
    \/ \E new \in Candidates : addInterfaceConfig(c, new)
    \/ \E new \in Candidates, a \in InetAddresses : addInetConfig(c, new.hostif, a)
    \/ \E name \in FreeNames, peer \in FreeNames \cup {"peer"}, kind \in {"veth", "macvlan"} : createInterface(c, name, peer, kind)
    \/ \E name \in FreeNames : destroyInterface(c, name) \/ moveInterface(c, name) \/ setInterface(c, name)

ContainerNetSpec == ContainerNetInit /\ [][ContainerNetNext]_containerNetVars

-----------------------------------------------------------------------------
\* The interface and its bridge are as the configuration says.
Wired(c, conf) ==
  CASE conf.type = "LOOPBACK" -> TRUE
    [] conf.type = "BRIDGE" ->
         \E l \in interfaces : l.ns = "host" /\ l.name = Plain(conf.hostif) /\ l.up /\ ToSet(conf.addrs) \subseteq l.addrs
    [] conf.type = "VETH_BRIDGED" ->
         \E inner, outer \in interfaces :
           /\ inner.ns = c /\ inner.name = Plain(conf.zoneif) /\ inner.kind = "veth"
           /\ outer.ns = "host" /\ outer.pair = inner.pair /\ outer.up /\ outer.master = conf.hostif
           /\ Has("host", Plain(conf.hostif))

\* A container that runs has every interface of its configuration, each joined
\* to its own bridge by its own pair, whatever other guards created, failed to
\* create or left on the host while this one worked, and whichever was first
\* to make the bridge they share.
InterfacesWired ==
  \A c \in Containers :
    running(c) => \A i \in DOMAIN mInterfaces[c] : Wired(c, mInterfaces[c][i])
=============================================================================
