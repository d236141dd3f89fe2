--------------------------- MODULE ZoneProvision ---------------------------
(***************************************************************************)
(* The declarations of one zone, server/zone-provision.cpp, with the calls *)
(* that reach them: files, mounts and links a client declares, which the   *)
(* database keeps and every start of the zone applies.                     *)
(* The kernel's table of mounts under the zone's root outlives the daemon. *)
(***************************************************************************)
EXTENDS Integers, SequencesExt, TLC

CONSTANTS
  FileDecls,    \* provisions, by what they are (zone-provision-config.hpp)
  MountDecls,
  LinkDecls,
  ValidLinks,   \* links whose source has one of mValidLinkPrefixes
  Targets,      \* where mounts go
  Target,       \* of each mount
  Above,        \* pairs of targets: the first is a directory above the second
  BusyTargets,  \* targets some process may have open
  ProvisionTemplate, \* the provisions of the template's JSON file
  MaxDecls,     \* bounds: provisions declared at a time,
  MaxApplied    \* and remembered or mounted at a time

Decls == FileDecls \cup MountDecls \cup LinkDecls

ASSUME ProvisionAssumption ==
  /\ FileDecls \cap MountDecls = {} /\ LinkDecls \cap (FileDecls \cup MountDecls) = {}
  /\ ValidLinks \subseteq LinkDecls
  /\ Target \in [MountDecls -> Targets]
  /\ ProvisionTemplate \in Seq(Decls)

VARIABLES
  provisions,    \* mProvisioningConfig.provisions
  savedDecls,    \* its value in the database, once it has been stored there
  mProvisioned,  \* what stop() has to undo, the last applied first
  mounted,       \* the kernel's mounts under the root, in the order they were made
  left,          \* those of them whose daemon is gone (ghost)
  told,          \* declarations a client was told of and has not removed (ghost)
  provisioner,   \* the zone's object: "up" or "down"
  hosted         \* its container: "running", also frozen; or "stopped"

provisionVars == <<provisions, savedDecls, mProvisioned, mounted, left, told, provisioner, hosted>>

ProvisionTypeOK ==
  /\ provisions \in Seq(Decls)
  /\ savedDecls \in [stored : BOOLEAN, decls : Seq(Decls)]
  /\ mProvisioned \in Seq(Decls)
  /\ mounted \in Seq(MountDecls) /\ left \in Seq(MountDecls)
  /\ told \in SUBSET Decls
  /\ provisioner \in {"up", "down"} /\ hosted \in {"running", "stopped"}

\* What the constructor loads: the template fills what the database lacks.
loaded == IF savedDecls.stored THEN savedDecls.decls ELSE ProvisionTemplate

ProvisionInit ==
  /\ savedDecls = [stored |-> FALSE, decls |-> <<>>] /\ provisions = ProvisionTemplate
  /\ mProvisioned = <<>> /\ mounted = <<>> /\ left = <<>>
  /\ told = {} /\ provisioner = "up" /\ hosted = "stopped"

-----------------------------------------------------------------------------
(* The kernel.                                                             *)

\* The mount a path leads to: the last made on it or over it; 0 when there is none.
Covering(ms, t) == {i \in DOMAIN ms : Target[ms[i]] = t \/ <<Target[ms[i]], t>> \in Above}
Topmost(ms, t) == Max({0} \cup Covering(ms, t))

\* umount(2) of a path: EINVAL when no mount is there, EBUSY when it has another
\* inside it or a process uses it.
Umountable(ms, t, busy) ==
  LET i == Topmost(ms, t)
  IN  /\ i > 0 /\ Target[ms[i]] = t /\ t \notin busy
      /\ \A j \in i+1 .. Len(ms) : <<t, Target[ms[j]]>> \notin Above

-----------------------------------------------------------------------------
(* start() and stop() apply and undo.                                      *)

\* The elements of s that are in S, in their order.
Among(s, S) ==
  LET upTo[i \in 0 .. Len(s)] ==
        IF i = 0 THEN <<>> ELSE IF s[i] \in S THEN Append(upTo[i - 1], s[i]) ELSE upTo[i - 1]
  IN  upTo[Len(s)]

\* The provisions that succeed: link() refuses a source without a valid prefix,
\* the rest is up to the system.
Outcomes == {ok \in SUBSET ToSet(provisions) : ok \cap LinkDecls \subseteq ValidLinks}

\* start(): each in its order, what fails is skipped; the last applied comes first.
Applied(ok) == Among(provisions, ok)
Mutant_remembered(ok) == mProvisioned \o Applied(ok)
remembered(ok) == Reverse(Applied(ok)) \o mProvisioned

\* stop(), for one of them: umounts a mount and keeps it in the list if that fails;
\* forgets files and links.
Undo(s, d, busy) ==
  IF d \notin MountDecls THEN s
  ELSE IF Umountable(s.ms, Target[d], busy)
  THEN [s EXCEPT !.ms = RemoveAt(s.ms, Topmost(s.ms, Target[d]))]
  ELSE [s EXCEPT !.kept = Append(s.kept, d)]

\* stop(): from the first of the list on.
Undone(busy) ==
  LET upTo[i \in 0 .. Len(mProvisioned)] ==
        IF i = 0 THEN [ms |-> mounted, kept |-> <<>>] ELSE Undo(upTo[i - 1], mProvisioned[i], busy)
  IN  upTo[Len(mProvisioned)]

-----------------------------------------------------------------------------
(* The calls.                                                              *)

\* The handlers answer with the declaration's id, or with the error of the save; of one
\* that was removed the client knows that it is gone.
Declared(d, saves) == IF saves THEN told \cup {d} ELSE told
Forgotten(d) == told \ {d}

\* DeclareFile, DeclareMount, DeclareLink of what is not declared yet: appended,
\* then saved.  A save that fails leaves it in memory, and its client with an
\* error; the next that succeeds saves it too.
declareProvision(d, saves) ==
  /\ provisioner = "up"
  /\ Len(provisions) < MaxDecls
  /\ d \notin ToSet(provisions)   \* otherwise ProvisionExistsException
  /\ provisions' = Append(provisions, d)
  /\ savedDecls' = IF saves THEN [stored |-> TRUE, decls |-> provisions'] ELSE savedDecls
  /\ told' = Declared(d, saves)
  /\ UNCHANGED <<mProvisioned, mounted, left, provisioner, hosted>>

\* RemoveDeclaration: in memory only, nor is what was applied undone.
removeProvision(d) ==
  /\ provisioner = "up"
  /\ \E i \in DOMAIN provisions :  \* otherwise ProvisionNotFoundException
       /\ provisions[i] = d /\ d \notin ToSet(SubSeq(provisions, 1, i - 1))
       /\ provisions' = RemoveAt(provisions, i)
  /\ told' = Forgotten(d)
  /\ UNCHANGED <<savedDecls, mProvisioned, mounted, left, provisioner, hosted>>

\* Zone::start applies the provisions before it asks whether the zone runs.
StartProvisioned(ok, starts) ==
  /\ provisioner = "up"
  /\ mProvisioned' = remembered(ok)
  /\ mounted' = mounted \o Among(Applied(ok), MountDecls)
  /\ Len(mProvisioned') <= MaxApplied /\ Len(mounted') <= MaxApplied
  /\ hosted' = IF starts THEN "running" ELSE hosted
  /\ UNCHANGED <<provisions, savedDecls, left, told, provisioner>>

\* Zone::stop returns before mProvision->stop() when the container is stopped,
\* and throws before it when LXC cannot stop it (no step here).
StopProvisioned(busy) ==
  /\ provisioner = "up" /\ hosted = "running"
  /\ hosted' = "stopped"
  /\ mounted' = Undone(busy).ms /\ mProvisioned' = Undone(busy).kept
  /\ UNCHANGED <<provisions, savedDecls, left, told, provisioner>>

\* The container ends by itself.
HostedDies ==
  /\ hosted = "running" /\ hosted' = "stopped"
  /\ UNCHANGED <<provisions, savedDecls, mProvisioned, mounted, left, told, provisioner>>

\* The destructors at exit: ~Zone leaves the container when it is to detach, and
\* ~ZoneProvision undoes what is applied all the same.
ExitProvisioned(busy, detach) ==
  /\ provisioner = "up" /\ provisioner' = "down"
  /\ hosted' = IF detach THEN hosted ELSE "stopped"
  /\ mounted' = Undone(busy).ms
  /\ left' = mounted' /\ mProvisioned' = <<>>
  /\ UNCHANGED <<provisions, savedDecls, told>>

CrashProvisioned ==
  /\ provisioner = "up" /\ provisioner' = "down"
  /\ left' = mounted /\ mProvisioned' = <<>>
  /\ UNCHANGED <<provisions, savedDecls, mounted, told, hosted>>

\* The constructor of the next daemon's zone.
LoadProvisions ==
  /\ provisioner = "down" /\ provisioner' = "up"
  /\ provisions' = loaded
  /\ UNCHANGED <<savedDecls, mProvisioned, mounted, left, told, hosted>>

ProvisionNext ==
  \/ \E d \in Decls : removeProvision(d) \/ \E saves \in BOOLEAN : declareProvision(d, saves)
  \/ \E ok \in Outcomes, starts \in BOOLEAN : StartProvisioned(ok, starts)
  \/ \E busy \in SUBSET BusyTargets :
       StopProvisioned(busy) \/ \E detach \in BOOLEAN : ExitProvisioned(busy, detach)
  \/ HostedDies \/ CrashProvisioned \/ LoadProvisions

ProvisionSpec == ProvisionInit /\ [][ProvisionNext]_provisionVars

-----------------------------------------------------------------------------
\* What is mounted under the zone's root is what earlier daemons left there and,
\* over it, what stop() will undo, in the order that undoes it: whatever failed
\* to apply or to be undone, however often the zone was started.
MountsAccounted == mounted = left \o Reverse(Among(mProvisioned, MountDecls))

\* A declaration a client was told of, and nobody removed, is in memory and in the
\* database: failed saves, removals and crashes lose none.
AcknowledgedSurvive ==
  /\ told \subseteq (IF savedDecls.stored THEN ToSet(savedDecls.decls) ELSE {})
  /\ provisioner = "up" => told \subseteq ToSet(provisions)

\* A zone's provisions are kept: those that a client was told of, across failures and
\* restarts of the daemon, and the account of what is mounted, which stop() goes by.
ProvisionsKept == MountsAccounted /\ AcknowledgedSurvive
=============================================================================
