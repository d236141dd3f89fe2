-------------------------------- MODULE Zone --------------------------------
(***************************************************************************)
(* One zone: the server/zone.cpp object, its LXC container and its rows of *)
(* the configuration database.  ZonesManager calls the methods under its   *)
(* own mutex, so a method is a function from the zone to the set of its    *)
(* outcomes: the zone it leaves behind, whole or half done, and how the    *)
(* call ended.                                                             *)
(***************************************************************************)
EXTENDS Integers

CONSTANTS
  Faults,   \* the calls into the system that may fail, a subset of FaultKinds
  Asserts   \* TRUE: built with assert() (DEBUG); FALSE: -DNDEBUG (RELEASE)

\* "db": cargo cannot save; "cgroup": a cgroup file cannot be written;
\* "lxc": a container operation returns false; "create": lxc-create fails;
\* "die": the container's init exits while a method runs; "vt": activateVT
\* fails; "image": copyimage fails; "file": the "enabled" file cannot be
\* written or removed; "kill": the daemon is killed while a method runs, right
\* after one of these calls took effect.
FaultKinds == {"db", "cgroup", "lxc", "create", "die", "vt", "image", "file", "kill"}

ASSUME FaultsAssumption == Faults \subseteq FaultKinds
ASSUME AssertsAssumption == Asserts \in BOOLEAN

NoVT == -1

LxcStates == {"STOPPED", "RUNNING", "FROZEN", "STOPPING"}
Requests  == {"stopped", "running", "paused"}
Levels    == {"default", "fg", "bg"}
Results   == {"ok", "zoneop", "cargo", "abort", "killed"}

\* "saved" and "vt" are the rows zone.<id>.* of the database ("none": there
\* are none); "requested" and "detach" are members of the C++ object and mean
\* nothing while no object exists.
ZoneSpace(VTs) ==
  [dir       : BOOLEAN,             \* zonesPath/<id> exists
   defined   : BOOLEAN,             \* the container has a configuration there
   lxc       : LxcStates,
   level     : Levels,              \* CPU quota of the container's cgroup
   requested : Requests,            \* mDynamicConfig.requestedState
   saved     : Requests \cup {"none"},
   vt        : VTs,
   detach    : BOOLEAN]             \* mDetachOnExit

May(fault, outcomes) == IF fault \in Faults THEN outcomes ELSE {}

Done(z)      == [zone |-> z, result |-> "ok"]
Thrown(z, e) == [zone |-> z, result |-> e]

\* The rest of a method runs only if what came before did not throw.
AndThen(outcomes, Rest(_)) ==
  UNION {IF o.result = "ok" THEN Rest(o.zone) ELSE {o} : o \in outcomes}

\* The container is gone, and its cgroup with it.
Dead(z) == [z EXCEPT !.lxc = "STOPPED", !.level = "default"]

\* Mutant: the database is not written.
Mutant_updateRequestedState(z, state) == {Done([z EXCEPT !.requested = state])}

\* The database is written only when the request changes the one in memory.
updateRequestedState(z, state) ==
  IF z.requested = state
    THEN {Done(z)}
    ELSE {Done([z EXCEPT !.requested = state, !.saved = state])}
         \cup May("db", {Thrown([z EXCEPT !.requested = state], "cargo")})
         \cup May("kill", {Thrown([z EXCEPT !.requested = state, !.saved = state], "killed")})

\* assert(isRunning()) precedes the writes to the cgroup, which fail too
\* when the container is gone.
setSchedulerLevel(z, level) ==
  {Done([z EXCEPT !.level = level])}
  \cup May("cgroup", {Thrown(z, "zoneop")})
  \cup May("die", {Thrown(Dead(z), IF Asserts THEN "abort" ELSE "zoneop")})
  \cup May("kill", {Thrown([z EXCEPT !.level = level], "killed")})

\* LxcZone::start refuses a container that is anything but STOPPED.
launch(z) ==
  IF z.lxc = "RUNNING" THEN {Done(z)}
  ELSE IF z.lxc # "STOPPED" \/ ~z.defined THEN {Thrown(z, "zoneop")}
  ELSE setSchedulerLevel([z EXCEPT !.lxc = "RUNNING"], "fg")
       \cup May("die", {Done(z)})             \* it ran, and is gone already
       \cup May("lxc", {Thrown(z, "zoneop")})
       \cup May("kill", {Thrown([z EXCEPT !.lxc = "RUNNING"], "killed")})

start(z) == AndThen(updateRequestedState(z, "running"), launch)

boost(z) == IF z.lxc = "RUNNING" THEN setSchedulerLevel(z, "fg") ELSE {Done(z)}

\* A graceful shutdown that fails falls back to LxcZone::stop.
powerOff(z) ==
  IF z.lxc = "STOPPED" THEN {Done(z)}
  ELSE {Done(Dead(z))} \cup May("lxc", {Thrown(z, "zoneop")})
       \cup May("kill", {Thrown(Dead(z), "killed")})

stop(z, saveState) ==
  LET noted == IF saveState THEN updateRequestedState(z, "stopped") ELSE {Done(z)}
  IN  AndThen(AndThen(noted, boost), powerOff)

notePaused(z)  == updateRequestedState(z, "paused")
noteRunning(z) == updateRequestedState(z, "running")

\* LXC freezes or thaws the container.
moved(z, state) ==
  {Done([z EXCEPT !.lxc = state])}
  \cup May("lxc", {Thrown(z, "zoneop")})
  \cup May("kill", {Thrown([z EXCEPT !.lxc = state], "killed")})

\* Mutant: the request is not noted.
Mutant_suspend(z) == moved(z, "FROZEN")

suspend(z) == AndThen(moved(z, "FROZEN"), notePaused)
resume(z)  == AndThen(moved(z, "RUNNING"), noteRunning)

restore(z) ==
  CASE z.requested = "running" -> start(z)
    [] z.requested = "paused"  -> AndThen(start(z), suspend)
    [] z.requested = "stopped" -> {Done(z)}

\* The constructor, when it does not throw: it loads the rows, and creates the
\* container unless that is defined.
constructed(z) ==
  [z EXCEPT !.requested = IF z.saved = "none" THEN "stopped" ELSE z.saved,
            !.detach = FALSE, !.dir = TRUE, !.defined = TRUE]

\* What is left when the object is gone.
forget(z) == [z EXCEPT !.requested = "stopped", !.detach = FALSE]

halted(z) == {forget(Dead(z))} \cup May("lxc", {forget(z)})

\* The destructor with mDestroyOnExit: failures are only logged, and LXC does
\* not destroy a container that runs or that is not defined.
destroyed(z) ==
  UNION {IF h.lxc = "STOPPED" /\ h.defined
           THEN {[h EXCEPT !.dir = FALSE, !.defined = FALSE]} \cup May("lxc", {h})
           ELSE {h} : h \in halted(z)}
=============================================================================
