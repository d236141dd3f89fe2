------------------------------- MODULE CGroups -------------------------------
(***************************************************************************)
(* The control groups of containers: what each guard does for its own      *)
(* container with the hierarchies that all of the host shares (commands/   *)
(* cgroups.cpp, cgroups/cgroup.cpp, cgroups/subsystem.cpp).  It mounts the *)
(* subsystems that are not mounted, makes the container's groups and sets  *)
(* their parameters, and, when the container's init is there, puts it into *)
(* them.  The guards of several containers do so at the same time.         *)
(***************************************************************************)
EXTENDS Naturals, SequencesExt

CONSTANTS
  Guards,
  Subsystems,    \* of each guard, the sequence of [name, path]: what to mount, and where
  Groups,        \* of each guard, the sequence of [subsystem, name, common, params]
  NameWithin,    \* <<s, t>>: the name of subsystem s is a part of subsystem t's
  PathWithin     \* <<p, q>>: path p begins with q, another or none

Mounts == UNION {ToSet(Subsystems[g]) : g \in Guards}

\* Two subsystems are not mounted at one path, over each other.
ASSUME CGroupsAssumption ==
  /\ DOMAIN Subsystems = Guards /\ DOMAIN Groups = Guards
  /\ \A g \in Guards :
       /\ Subsystems[g] \in Seq([name : STRING, path : STRING])
       /\ Groups[g] \in Seq([subsystem : STRING, name : STRING,
                             common : SUBSET STRING, params : SUBSET STRING])
  /\ \A m, n \in Mounts : m.path = n.path => m = n

VARIABLES
  hierarchies,   \* what /proc/mounts lists, in its order: [name, path]; a subsystem's
                 \* hierarchy may be mounted at several paths
  dirs,          \* the groups there are: <<hierarchy, name>>
  settings,      \* what each guard has set: <<guard, hierarchy, name, file>>
  members,       \* the inits in each group: <<guard, hierarchy, name>>
  guardStep      \* per guard: [at, i], its next step and the place in its sequence

cgroupVars == <<hierarchies, dirs, settings, members, guardStep>>

HierarchyNames == {m.name : m \in Mounts}
GroupsOf(g) == ToSet(Groups[g])

CGroupsTypeOK ==
  /\ hierarchies \in Seq(Mounts) /\ IsInjective(hierarchies)
  /\ \A d \in dirs : d[1] \in HierarchyNames
  /\ \A s \in settings : s[1] \in Guards
  /\ \A m \in members : m[1] \in Guards
  /\ \A g \in Guards : guardStep[g].at \in {"look", "mount", "make", "set", "assign", "assigned", "threw"}

CGroupsInit ==
  /\ hierarchies = <<>> /\ dirs = {} /\ settings = {} /\ members = {}
  /\ guardStep = [g \in Guards |-> [at |-> "look", i |-> 1]]

-----------------------------------------------------------------------------
HasName(s, h) == s = h \/ <<s, h>> \in NameWithin
BeginsWith(p, q) == p = q \/ <<p, q>> \in PathWithin

\* Subsystem's constructor takes the first hierarchy whose options have the
\* subsystem's name somewhere in them, be it as a part of another's; the groups'
\* looks anywhere, that of SubsystemMake at paths that begin as the one asked for.
Named(s) == {i \in DOMAIN hierarchies : HasName(s, hierarchies[i].name)}
NamedBelow(s, path) == {i \in Named(s) : BeginsWith(hierarchies[i].path, path)}

\* Mutant: the search does not stop at the first.
Mutant_HierarchyOf(s) == hierarchies[CHOOSE i \in Named(s) : \A j \in Named(s) : j <= i].name

HierarchyOf(s) == hierarchies[CHOOSE i \in Named(s) : \A j \in Named(s) : i <= j].name

isAttached(s) == Named(s) # {}

GuardDoes(g, at, i) == guardStep' = [guardStep EXCEPT ![g] = [at |-> at, i |-> i]]
GuardAt(g, at) == guardStep[g].at = at
ItemOf(g, seq) == seq[g][guardStep[g].i]

\* SubsystemMake: one that is attached below its path is left; another is mounted, in a
\* step of its own.
SubsystemMake(g) ==
  /\ GuardAt(g, "look")
  /\ IF guardStep[g].i > Len(Subsystems[g]) THEN GuardDoes(g, "make", 1)
     ELSE LET sub == ItemOf(g, Subsystems)
          IN  IF NamedBelow(sub.name, sub.path) # {} THEN GuardDoes(g, "look", guardStep[g].i + 1)
              ELSE GuardDoes(g, "mount", guardStep[g].i)
  /\ UNCHANGED <<hierarchies, dirs, settings, members>>

NoPath == ""

\* attach: no path throws, and mount(2) refuses what is mounted there already.
AttachSubsystem(g) ==
  /\ GuardAt(g, "mount")
  /\ LET sub == ItemOf(g, Subsystems)
     IN  IF sub.path = NoPath \/ sub \in ToSet(hierarchies)
         THEN GuardDoes(g, "threw", 1) /\ UNCHANGED hierarchies
         ELSE /\ hierarchies' = Append(hierarchies, sub)
              /\ GuardDoes(g, "look", guardStep[g].i + 1)
  /\ UNCHANGED <<dirs, settings, members>>

\* CGroupMake: the group and the inner one for the system's own use; a group that is there is
\* used as it is, and systemd's is given to the container's root.  Nothing is made in a
\* subsystem that is not attached.
CGroupMake(g) ==
  /\ GuardAt(g, "make")
  /\ IF guardStep[g].i > Len(Groups[g]) THEN GuardDoes(g, "assign", 1) /\ UNCHANGED dirs
     ELSE LET c == ItemOf(g, Groups)
          IN  IF ~isAttached(c.subsystem) THEN GuardDoes(g, "threw", 1) /\ UNCHANGED dirs
              ELSE /\ dirs' = dirs \cup {<<HierarchyOf(c.subsystem), c.name>>}
                   /\ GuardDoes(g, "set", guardStep[g].i)
  /\ UNCHANGED <<hierarchies, settings, members>>

\* The files "cgroup.<param>", which every hierarchy has, and "<subsystem>.<param>",
\* which only that subsystem's has.
CommonFiles(c) == {<<"cgroup", p>> : p \in c.common}
OwnFiles(c) == {<<c.subsystem, p>> : p \in c.params}

\* The common parameters and then the subsystem's own, of which the first throws in the
\* hierarchy of another.
SettingsIn(g, h, c, files) == {<<g, h, c.name, f>> : f \in files}

SetValues(g) ==
  /\ GuardAt(g, "set")
  /\ LET c == ItemOf(g, Groups)
         h == HierarchyOf(c.subsystem)
     IN  IF c.params = {} \/ h = c.subsystem
         THEN /\ settings' = settings \cup SettingsIn(g, h, c, CommonFiles(c) \cup OwnFiles(c))
              /\ GuardDoes(g, "make", guardStep[g].i + 1)
         ELSE /\ settings' = settings \cup SettingsIn(g, h, c, CommonFiles(c))
              /\ GuardDoes(g, "threw", 1)
  /\ UNCHANGED <<hierarchies, dirs, members>>

\* CGroupAssignPidAll, which looks every subsystem up again.
AssignPid(g) ==
  /\ GuardAt(g, "assign")
  /\ IF guardStep[g].i > Len(Groups[g]) THEN GuardDoes(g, "assigned", 1) /\ UNCHANGED members
     ELSE LET c == ItemOf(g, Groups)
          IN  IF <<HierarchyOf(c.subsystem), c.name>> \in dirs
              THEN /\ members' = members \cup {<<g, HierarchyOf(c.subsystem), c.name>>}
                   /\ GuardDoes(g, "assign", guardStep[g].i + 1)
              ELSE GuardDoes(g, "threw", 1) /\ UNCHANGED members
  /\ UNCHANGED <<hierarchies, dirs, settings>>

\* Init ends, and the kernel takes it out; the groups are nobody's to remove.
InitLeavesGroups(g) ==
  /\ guardStep[g].at \in {"assign", "assigned", "threw"} /\ members # {m \in members : m[1] # g}
  /\ members' = {m \in members : m[1] # g}
  /\ GuardDoes(g, "threw", 1)
  /\ UNCHANGED <<hierarchies, dirs, settings>>

\* Whatever a step writes or mounts may fail.
GuardThrows(g) ==
  /\ guardStep[g].at \notin {"assigned", "threw"}
  /\ GuardDoes(g, "threw", 1)
  /\ UNCHANGED <<hierarchies, dirs, settings, members>>

CGroupsNext ==
  \E g \in Guards : \/ SubsystemMake(g) \/ AttachSubsystem(g) \/ CGroupMake(g) \/ SetValues(g)
                    \/ AssignPid(g) \/ InitLeavesGroups(g) \/ GuardThrows(g)

CGroupsSpec == CGroupsInit /\ [][CGroupsNext]_cgroupVars

-----------------------------------------------------------------------------
\* A container whose guard got through is whole: of each of its groups there is one
\* hierarchy that has the group, all its parameters and its init, though hierarchies were
\* mounted between the looks at /proc/mounts.  It is the subsystem's own if the group has
\* parameters of its subsystem; else it may be that of another, whose name has the
\* subsystem's in it.
GroupsWhole ==
  /\ \A g \in Guards : GuardAt(g, "assigned") =>
       \A c \in GroupsOf(g) : \E i \in DOMAIN hierarchies :
         LET h == hierarchies[i].name
         IN  /\ <<h, c.name>> \in dirs /\ <<g, h, c.name>> \in members
             /\ \A f \in CommonFiles(c) \cup OwnFiles(c) : <<g, h, c.name, f>> \in settings
             /\ HasName(c.subsystem, h) /\ (c.params # {} => h = c.subsystem)
  /\ \A s \in settings : \E c \in GroupsOf(s[1]) :
       /\ HasName(c.subsystem, s[2]) /\ c.name = s[3]
       /\ s[4] \in CommonFiles(c) \/ (s[4] \in OwnFiles(c) /\ s[2] = c.subsystem)
=============================================================================
