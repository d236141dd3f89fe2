---------------------------- MODULE ZonesManager ----------------------------
(***************************************************************************)
(* The zones manager of the daemon, server/zones-manager.cpp: the list of  *)
(* zones, the zone in the foreground, the default zone, and what of it is  *)
(* in the configuration database, in the zones directory and in LXC.       *)
(*                                                                         *)
(* Every handler holds mMutex from its first look at the zones to its      *)
(* reply, so to the other handlers it is one step.  What it leaves half    *)
(* done, where a call into the system throws or where the daemon is killed *)
(* (the fault "kill"), is in the outcomes of module Zone and in the        *)
(* actions that stop there.  How handlers reach the worker is module       *)
(* TaskQueue; a zone's provisions are module ZoneProvision.                *)
(***************************************************************************)
EXTENDS Zone, SequencesExt

CONSTANTS
  Ids,           \* the names clients use for zones
  HostId,        \* "host", reserved
  NoZone,        \* "", no zone
  Templates,     \* zone templates: each is the "vt" it sets (0 or NoVT)
  AvailableVTs,  \* mConfig.availableVTs
  HostVT,        \* mConfig.hostVT
  LeaveForDefault, \* zones whose switchToDefaultAfterTimeout is true
  CleanUp,       \* mConfig.cleanUpZonesPath
  CopiesImage,   \* mConfig.zoneImagePath is not empty
  Restores       \* restoreAll is called too, as the unit tests do

Names == Ids \cup {HostId}
VTs   == AvailableVTs \cup {NoVT}

ASSUME NamesAssumption == NoZone \notin Names /\ HostId \notin Ids
ASSUME VTsAssumption ==
  /\ IsFiniteSet(AvailableVTs)
  /\ AvailableVTs \subseteq Nat \ {0}
  /\ HostVT \in Nat \ AvailableVTs
  /\ Templates \subseteq {0, NoVT}
ASSUME ConfigAssumption ==
  /\ CleanUp \in BOOLEAN /\ CopiesImage \in BOOLEAN /\ Restores \in BOOLEAN
  /\ Restores => "die" \notin Faults     \* so that restore passes in one way
  /\ LeaveForDefault \subseteq Ids

VARIABLES
  phase,          \* "down"; "running"; "failing": start() threw, stop() is next;
                  \* "stopped": stop() ran, the destructors are next
  mZones,         \* ids of the Zone objects, in insertion order
  mActiveZoneId,
  mDynamicConfig, \* [zoneIds, defaultId]
  mDetachOnExit,
  savedConfig,    \* mDynamicConfig as it is in the database
  enabled,        \* the file zonesPath/enabled exists
  zone,           \* name |-> the zone, see module Zone
  shownVT,        \* the virtual terminal on the screen
  reply           \* the last call, and the answer it got

memory == <<phase, mZones, mActiveZoneId, mDynamicConfig, mDetachOnExit>>
disk   == <<savedConfig, enabled>>
vars   == <<memory, disk, zone, shownVT, reply>>

Calls == {"none", "create", "destroy", "start", "shutdown", "lock", "unlock",
          "activate", "default", "next", "cleanup", "restore", "stop"}
Answers == {"ok", "error", "none"}
Config  == [zoneIds : Seq(Names), defaultId : Names \cup {NoZone}]

TypeOK ==
  /\ phase \in {"down", "running", "failing", "stopped"}
  /\ mZones \in Seq(Names)
  /\ mActiveZoneId \in Names \cup {NoZone}
  /\ mDynamicConfig \in Config
  /\ mDetachOnExit \in BOOLEAN
  /\ savedConfig \in Config
  /\ enabled \in BOOLEAN
  /\ zone \in [Names -> ZoneSpace(VTs)]
  /\ shownVT \in VTs \cup {HostVT}
  /\ reply \in [call : Calls, id : Names \cup {NoZone}, answer : Answers]

NoConfig == [zoneIds |-> <<>>, defaultId |-> NoZone]
NoReply  == [call |-> "none", id |-> NoZone, answer |-> "none"]

\* A machine on which the daemon never ran.
Init ==
  /\ phase = "down"
  /\ mZones = <<>>
  /\ mActiveZoneId = NoZone
  /\ mDynamicConfig = NoConfig
  /\ mDetachOnExit = FALSE
  /\ savedConfig = NoConfig
  /\ enabled = FALSE
  /\ zone = [i \in Names |->
               [dir |-> FALSE, defined |-> FALSE, lxc |-> "STOPPED", level |-> "default",
                requested |-> "stopped", saved |-> "none", vt |-> NoVT, detach |-> FALSE]]
  /\ shownVT = HostVT
  /\ reply = NoReply

-----------------------------------------------------------------------------
(* The list of zones.                                                      *)

Known(id) == id \in ToSet(mZones)

zoneIsRunning(zs, id) == zs[id].lxc = "RUNNING"

\* std::find_if(mZones.begin(), mZones.end(), zoneIsRunning)
firstRunning(zs, zones) ==
  LET running == {n \in DOMAIN zones : zoneIsRunning(zs, zones[n])}
  IN  IF running = {} THEN NoZone ELSE zones[Min(running)]

\* Mutant: it starts over at the front of the list.
Mutant_circularFindNext(zs, zones, current) ==
  firstRunning(zs, SelectSeq(zones, LAMBDA i : i # current))

\* The first running zone after the given one, around the end of the list.
circularFindNext(zs, zones, current) ==
  LET c == CHOOSE n \in DOMAIN zones : zones[n] = current
      ahead(k) == zones[1 + ((c - 1 + k) % Len(zones))]
      running == {k \in 1..Len(zones) - 1 : zoneIsRunning(zs, ahead(k))}
  IN  IF running = {} THEN NoZone ELSE ahead(Min(running))

\* The sequence without its element e, if it holds it (ids are never repeated).
Without(s, e) ==
  IF e \in ToSet(s) THEN RemoveAt(s, CHOOSE n \in DOMAIN s : s[n] = e) ELSE s

\* Run a method on each zone of the list, in order, until one throws; method[i]
\* are its outcomes on zone i, at most one of which passes.
ForEach(zs, zones, method) ==
  LET passed(i) == {o \in method[i] : o.result = "ok"}
      failed(i) == method[i] \ passed(i)
      reached(n) == \A m \in 1..n - 1 : passed(zones[m]) # {}
      before(n) == [i \in Names |->
                      IF \E m \in 1..n - 1 : zones[m] = i
                        THEN (CHOOSE o \in passed(i) : TRUE).zone
                        ELSE zs[i]]
  IN  {Done(before(n)) : n \in {m \in {Len(zones) + 1} : reached(m)}}
      \cup UNION {{Thrown([before(n) EXCEPT ![zones[n]] = o.zone], o.result) :
                     o \in failed(zones[n])} : n \in {m \in DOMAIN zones : reached(m)}}

-----------------------------------------------------------------------------
(* Focus.                                                                  *)

Focus(zs, active, shown, result) ==
  [zone |-> zs, active |-> active, shown |-> shown, result |-> result]

focusHost(zs) ==
  IF mActiveZoneId = NoZone THEN {Focus(zs, NoZone, shownVT, "ok")}
  ELSE {Focus(zs, NoZone, IF HostVT > 0 THEN HostVT ELSE shownVT, "ok")}
       \cup May("vt", {Focus(zs, NoZone, shownVT, "ok")})

\* goForeground for the zone in focus, goBackground for the others that run.
setLevels(zs, zones, id) ==
  ForEach(zs, zones, [i \in Names |->
    IF zs[i].lxc = "RUNNING" THEN setSchedulerLevel(zs[i], IF i = id THEN "fg" ELSE "bg")
    ELSE {Done(zs[i])}])

\* Mutant: activateVT is forgotten.
Mutant_focusZone(zs, zones, id) ==
  {Focus(o.zone, IF o.result = "ok" THEN id ELSE mActiveZoneId, shownVT, o.result) :
     o \in setLevels(zs, zones, id)}

focusZone(zs, zones, id) ==
  LET shown == IF zs[id].vt = NoVT THEN shownVT ELSE zs[id].vt
  IN  {Focus(o.zone, IF o.result = "ok" THEN id ELSE mActiveZoneId, shown, o.result) :
         o \in setLevels(zs, zones, id)}
      \cup May("vt", {Focus(zs, mActiveZoneId, shownVT, "ok") : n \in {zs[id].vt} \ {NoVT}})
      \cup May("kill", {Focus(zs, mActiveZoneId, shown, "killed")})

focusInternal(zs, zones, id) ==
  IF id = NoZone THEN focusHost(zs)
  ELSE IF id = mActiveZoneId THEN {Focus(zs, id, shownVT, "ok")}
  ELSE IF ~zoneIsRunning(zs, id)
    THEN {Focus(zs, mActiveZoneId, shownVT, IF Asserts THEN "abort" ELSE "ok")}
  ELSE focusZone(zs, zones, id)

\* Mutant: no fallback to the host.
Mutant_refocus(zs, zones, defaultId) ==
  IF defaultId \in ToSet(zones) /\ zoneIsRunning(zs, defaultId)
    THEN focusInternal(zs, zones, defaultId)
  ELSE {Focus(zs, mActiveZoneId, shownVT, "ok")}

refocus(zs, zones, defaultId) ==
  IF mActiveZoneId \in ToSet(zones) /\ zoneIsRunning(zs, mActiveZoneId)
    THEN {Focus(zs, mActiveZoneId, shownVT, "ok")}
  ELSE IF defaultId \in ToSet(zones) /\ zoneIsRunning(zs, defaultId)
    THEN focusInternal(zs, zones, defaultId)
  ELSE focusInternal(zs, zones, firstRunning(zs, zones))

\* updateDefaultId: the default it leaves in memory.
\* Mutant: a default once chosen is kept.
Mutant_defaultFor(zones, defaultId) ==
  IF defaultId # NoZone \/ zones = <<>> THEN defaultId ELSE zones[1]

defaultFor(zones, defaultId) ==
  IF zones = <<>> THEN NoZone
  ELSE IF defaultId \in ToSet(zones) THEN defaultId ELSE zones[1]

\* getVTForNewZone: the VTs no Zone object has.
\* Mutant: only the zone in the foreground counts.
Mutant_freeVTs ==
  AvailableVTs \ {zone[mZones[n]].vt : n \in {m \in DOMAIN mZones : mZones[m] = mActiveZoneId}}

freeVTs == AvailableVTs \ {zone[mZones[n]].vt : n \in DOMAIN mZones}

-----------------------------------------------------------------------------
(* How a step ends.                                                        *)

\* The process is gone: of the zones only what is outside it remains.
Lose(zs) ==
  /\ phase' = "down"
  /\ mZones' = <<>>
  /\ mActiveZoneId' = NoZone
  /\ mDynamicConfig' = NoConfig
  /\ mDetachOnExit' = FALSE
  /\ zone' = [i \in Names |-> forget(zs[i])]

Answer(call, id, answer) == reply' = [call |-> call, id |-> id, answer |-> answer]

\* How a handler ends with the process: an assert fails in it, or it is killed.
Deaths == {"abort", "killed"}

LastAnswer(call, id, result) ==
  IF result = "killed" THEN reply' = NoReply ELSE Answer(call, id, "none")

\* A handler answers an error for the exceptions it catches, and nothing for
\* the others.
AnswerTo(call, id, result, caught) ==
  Answer(call, id, IF result = "ok" THEN "ok"
                   ELSE IF result \in caught THEN "error" ELSE "none")

Refuse(call, id) ==
  Answer(call, id, "error") /\ UNCHANGED <<memory, disk, zone, shownVT>>

\* A step that changes zones and focus only, and ends with outcome o.
Conclude(call, id, o, caught) ==
  /\ shownVT' = o.shown
  /\ UNCHANGED disk
  /\ \/ /\ o.result \in Deaths
        /\ Lose(o.zone)
        /\ LastAnswer(call, id, o.result)
     \/ /\ o.result \notin Deaths
        /\ zone' = o.zone
        /\ mActiveZoneId' = o.active
        /\ AnswerTo(call, id, o.result, caught)
        /\ UNCHANGED <<phase, mZones, mDynamicConfig, mDetachOnExit>>

\* What the catch clauses of a handler catch: nothing, ZoneOperationException,
\* or every std::exception.
Nothing == {}
ZoneErrors == {"zoneop"}
Errors  == {"zoneop", "cargo"}

\* A method of zone id gave outcome o: what follows runs unless it threw.
AfterMethod(id, o, Then(_)) ==
  LET zs == [zone EXCEPT ![id] = o.zone]
  IN  IF o.result = "ok" THEN Then(zs)
      ELSE {Focus(zs, mActiveZoneId, shownVT, o.result)}

-----------------------------------------------------------------------------
(* Coming up and going down.                                               *)

\* removeall, and fs::remove_all of a directory nobody knows: LXC keeps the
\* container's configuration in there.
withoutDir(z) == [z EXCEPT !.dir = FALSE, !.defined = FALSE]

cleanUpUnknownsFromRoot(zs, known) ==
  [i \in Names |-> IF i \in ToSet(known) THEN zs[i] ELSE withoutDir(zs[i])]

\* The zones as start() finds them, and with objects for the first n saved ids.
cleaned ==
  IF CleanUp THEN cleanUpUnknownsFromRoot(zone, savedConfig.zoneIds) ELSE zone

loaded(n) ==
  [i \in Names |-> IF \E m \in 1..n : savedConfig.zoneIds[m] = i
                    THEN constructed(cleaned[i]) ELSE cleaned[i]]

\* The constructor and start(): a Zone object for every saved id, until one of
\* them cannot be made.  An exception leaves start() to ~ZonesManager.
Boot ==
  LET ids == savedConfig.zoneIds
      made == [savedConfig EXCEPT !.defaultId = defaultFor(ids, @)]
      Made(n) == mZones' = SubSeq(ids, 1, n) /\ zone' = loaded(n)
  IN  /\ phase = "down"
      /\ reply' = NoReply
      /\ UNCHANGED <<mActiveZoneId, mDetachOnExit, shownVT>>
      /\ \/ /\ Made(Len(ids))
            /\ phase' = "running"
            /\ mDynamicConfig' = made
            /\ savedConfig' = made
            /\ enabled' = (enabled \/ ids # <<>>)
         \/ \E n \in DOMAIN ids :              \* the n-th cannot be created
              /\ ~cleaned[ids[n]].defined /\ "create" \in Faults
              /\ Made(n - 1)
              /\ phase' = "failing"
              /\ mDynamicConfig' = savedConfig
              /\ enabled' = (enabled \/ n > 1)
              /\ UNCHANGED savedConfig
         \/ /\ ids # <<>> /\ "file" \in Faults \* the "enabled" file
            /\ Made(1)
            /\ phase' = "failing"
            /\ mDynamicConfig' = savedConfig
            /\ UNCHANGED disk
         \/ /\ made # savedConfig /\ "db" \in Faults
            /\ Made(Len(ids))
            /\ phase' = "failing"
            /\ mDynamicConfig' = made
            /\ enabled' = (enabled \/ ids # <<>>)
            /\ UNCHANGED savedConfig

\* SIGUSR1: the zones are to outlive the daemon.
setZonesDetachOnExit ==
  /\ phase = "running"
  /\ mDetachOnExit' = TRUE
  /\ zone' = [i \in Names |-> IF Known(i) THEN [zone[i] EXCEPT !.detach = TRUE] ELSE zone[i]]
  /\ reply' = NoReply
  /\ UNCHANGED <<phase, mZones, mActiveZoneId, mDynamicConfig, disk, shownVT>>

\* Mutant: the state is saved.
Mutant_shutdownAll ==
  UNION {IF o.result = "ok" THEN refocus(o.zone, mZones, mDynamicConfig.defaultId)
         ELSE {Focus(o.zone, mActiveZoneId, shownVT, o.result)} :
           o \in ForEach(zone, mZones, [i \in Names |-> stop(zone[i], TRUE)])}

shutdownAll ==
  UNION {IF o.result = "ok" THEN refocus(o.zone, mZones, mDynamicConfig.defaultId)
         ELSE {Focus(o.zone, mActiveZoneId, shownVT, o.result)} :
           o \in ForEach(zone, mZones, [i \in Names |-> stop(zone[i], FALSE)])}

Stop ==
  /\ phase \in {"running", "failing"}
  /\ UNCHANGED disk
  /\ \/ /\ mDetachOnExit
        /\ phase' = "stopped"
        /\ reply' = NoReply
        /\ UNCHANGED <<mZones, mActiveZoneId, mDynamicConfig, mDetachOnExit, zone, shownVT>>
     \/ /\ ~mDetachOnExit
        /\ \E o \in shutdownAll :
             /\ shownVT' = o.shown
             /\ \/ /\ o.result \in Deaths
                   /\ Lose(o.zone)
                   /\ LastAnswer("stop", NoZone, o.result)
                \/ /\ o.result \notin Deaths
                   /\ phase' = "stopped"
                   /\ zone' = o.zone
                   /\ mActiveZoneId' = o.active
                   /\ reply' = NoReply
                   /\ UNCHANGED <<mZones, mDynamicConfig, mDetachOnExit>>

\* The destructors of the zones, in the order of the list; those in "stuck" do
\* not let LXC stop them, or were not reached.
Exit ==
  /\ phase = "stopped"
  /\ \E stuck \in SUBSET ToSet(mZones) :
       /\ \/ stuck = {}
          \/ "lxc" \in Faults
          \/ /\ "kill" \in Faults
             /\ \E n \in DOMAIN mZones : stuck = {mZones[m] : m \in n..Len(mZones)}
       /\ Lose([i \in Names |->
                  IF Known(i) /\ i \notin stuck /\ ~zone[i].detach THEN Dead(zone[i])
                  ELSE zone[i]])
  /\ reply' = NoReply
  /\ UNCHANGED <<disk, shownVT>>

\* The process is killed between two handlers.
Crash ==
  /\ phase # "down"
  /\ Lose(zone)
  /\ reply' = NoReply
  /\ UNCHANGED <<disk, shownVT>>

\* It is killed in start(), before updateDefaultId: the file "enabled" is made
\* after the first zone.
LoadingKilled ==
  /\ phase = "down" /\ "kill" \in Faults
  /\ \E n \in 0..Len(savedConfig.zoneIds) :
       /\ Lose(loaded(n))
       /\ enabled' \in {enabled \/ n > 1, enabled \/ n > 0}
  /\ reply' = NoReply
  /\ UNCHANGED <<savedConfig, shownVT>>

\* It is killed in cleanUpUnknownsFromRoot, which got to some of the zones.
CleaningKilled ==
  LET known == IF phase = "down" THEN savedConfig.zoneIds ELSE mZones
  IN  /\ phase = "running" \/ (phase = "down" /\ CleanUp)
      /\ "kill" \in Faults
      /\ \E left \in SUBSET Names :
           Lose([i \in Names |->
                   IF i \in left THEN zone[i] ELSE cleanUpUnknownsFromRoot(zone, known)[i]])
      /\ reply' = NoReply
      /\ UNCHANGED <<disk, shownVT>>

-----------------------------------------------------------------------------
(* createZone.                                                             *)

\* generateNewConfig loads the rows the database already has for this id and
\* takes the template's values only where there are none.
wantsVT(id, template) == (IF zone[id].saved = "none" THEN template ELSE zone[id].vt) # NoVT

\* Mutants: the rows are not saved; the template's VT is taken as it is.
Mutant_newRowsUnsaved(id, template) ==
  [zone[id] EXCEPT !.vt = IF wantsVT(id, template) /\ AvailableVTs # {}
                            THEN Min(freeVTs) ELSE NoVT]
Mutant_newRowsTemplateVT(id, template) ==
  [zone[id] EXCEPT !.saved = IF @ = "none" THEN "stopped" ELSE @,
                   !.vt = IF wantsVT(id, template) THEN template ELSE NoVT]

newRows(id, template) ==
  [zone[id] EXCEPT !.saved = IF @ = "none" THEN "stopped" ELSE @,
                   !.vt = IF wantsVT(id, template) /\ AvailableVTs # {}
                            THEN Min(freeVTs) ELSE NoVT]

vtExhausted(id, template) ==
  wantsVT(id, template) /\ AvailableVTs # {} /\ freeVTs = {}

CreateFails(id, z) ==
  /\ Answer("create", id, "error")
  /\ zone' = [zone EXCEPT ![id] = z]
  /\ UNCHANGED <<phase, mActiveZoneId, mDetachOnExit, shownVT>>

Copying(id) ==
  /\ CopiesImage /\ "image" \in Faults
  /\ \E copied \in BOOLEAN : CreateFails(id, [zone[id] EXCEPT !.dir = copied])
  /\ UNCHANGED <<mZones, mDynamicConfig, disk>>

GeneratingConfig(id, template) ==
  /\ \/ vtExhausted(id, template) /\ CreateFails(id, withoutDir(zone[id]))
     \/ /\ "db" \in Faults /\ ~vtExhausted(id, template)
        /\ \E rows \in {zone[id], newRows(id, template)} : CreateFails(id, withoutDir(rows))
  /\ UNCHANGED <<mZones, mDynamicConfig, disk>>

\* Mutant: no removeall when the zone cannot be created.
Mutant_Inserting(id, template) ==
  /\ ~vtExhausted(id, template)
  /\ id = HostId \/ "create" \in Faults
  /\ CreateFails(id, [newRows(id, template) EXCEPT !.dir = CopiesImage])
  /\ UNCHANGED <<mZones, mDynamicConfig, disk>>

Inserting(id, template) ==
  /\ ~vtExhausted(id, template)
  /\ \/ /\ id = HostId \/ "create" \in Faults
        /\ UNCHANGED mZones
     \/ /\ id # HostId /\ mZones = <<>> /\ "file" \in Faults
        /\ mZones' = Append(mZones, id)
  /\ CreateFails(id, withoutDir(IF mZones' = mZones THEN newRows(id, template)
                                ELSE constructed(newRows(id, template))))
  /\ UNCHANGED <<mDynamicConfig, disk>>

\* Mutant: saved before updateDefaultId, and not again.
Mutant_Inserted(id, template) ==
  /\ ~vtExhausted(id, template) /\ id # HostId
  /\ zone' = [zone EXCEPT ![id] = constructed(newRows(id, template))]
  /\ mZones' = Append(mZones, id)
  /\ enabled' = (enabled \/ mZones = <<>>)
  /\ savedConfig' = [mDynamicConfig EXCEPT !.zoneIds = Append(@, id)]
  /\ mDynamicConfig' = [savedConfig' EXCEPT !.defaultId = defaultFor(mZones', @)]
  /\ Answer("create", id, "ok")
  /\ UNCHANGED <<phase, mActiveZoneId, mDetachOnExit, shownVT>>

Inserted(id, template) ==
  /\ ~vtExhausted(id, template) /\ id # HostId
  /\ zone' = [zone EXCEPT ![id] = constructed(newRows(id, template))]
  /\ mZones' = Append(mZones, id)
  /\ enabled' = (enabled \/ mZones = <<>>)
  /\ LET listed == [mDynamicConfig EXCEPT !.zoneIds = Append(@, id)]
         made   == [listed EXCEPT !.defaultId = defaultFor(mZones', @)]
     IN  \/ /\ mDynamicConfig' = made
            /\ savedConfig' = made
            /\ Answer("create", id, "ok")
         \/ /\ "db" \in Faults
            /\ Answer("create", id, "error")
            /\ \/ mDynamicConfig' = listed /\ UNCHANGED savedConfig
               \/ made # listed /\ mDynamicConfig' = made /\ savedConfig' = listed
  /\ UNCHANGED <<phase, mActiveZoneId, mDetachOnExit, shownVT>>

\* The daemon is killed when the image is copied, the rows are saved, the
\* container is made, the file "enabled" is made, or the list is saved and the
\* default is not.
CreationKilled(id, template) ==
  LET rows == newRows(id, template)
      begun == {zone[id]} \cup (IF vtExhausted(id, template) THEN {} ELSE {rows})
  IN  /\ "kill" \in Faults
      /\ \/ /\ \E z \in begun : Lose([zone EXCEPT ![id] = [z EXCEPT !.dir = CopiesImage]])
            /\ UNCHANGED disk
         \/ /\ ~vtExhausted(id, template) /\ id # HostId
            /\ Lose([zone EXCEPT ![id] = constructed(rows)])
            /\ \/ UNCHANGED disk
               \/ /\ enabled' = (enabled \/ mZones = <<>>)
                  /\ savedConfig' \in {savedConfig, [mDynamicConfig EXCEPT !.zoneIds = Append(@, id)]}
      /\ reply' = NoReply
      /\ UNCHANGED shownVT

CreateZone(id, template) ==
  /\ phase = "running"
  /\ IF Known(id) \/ zone[id].dir THEN Refuse("create", id)
     ELSE \/ Copying(id)
          \/ GeneratingConfig(id, template)
          \/ Inserting(id, template)
          \/ Inserted(id, template)
          \/ CreationKilled(id, template)

-----------------------------------------------------------------------------
(* destroyZone.                                                            *)

\* The file "enabled" goes with the last zone; a failure is only logged.
\* Mutant: it stays while the zone in the foreground was another one.
Mutant_enabledWithout(id) == {enabled /\ id # mActiveZoneId}

enabledWithout(id) ==
  IF Without(mZones, id) = <<>> THEN {FALSE} \cup May("file", {enabled}) ELSE {enabled}

DestroyKnown(id, z, f) ==
  LET zones == Without(mZones, id)
      listed == [mDynamicConfig EXCEPT !.zoneIds = Without(@, id)]
      made == [listed EXCEPT !.defaultId = defaultFor(zones, @)]
      Left(zs, active, shown) ==
        /\ zone' = zs /\ mActiveZoneId' = active /\ shownVT' = shown
        /\ mZones' = zones
        /\ UNCHANGED <<phase, mDetachOnExit>>
      Unsaved == Left([zone EXCEPT ![id] = z], mActiveZoneId, shownVT)
                 /\ Answer("destroy", id, "error")
  IN  /\ enabled' \in enabledWithout(id)
      /\ \/ /\ "db" \in Faults /\ Unsaved
            /\ \/ mDynamicConfig' = listed /\ UNCHANGED savedConfig
               \/ made # listed /\ mDynamicConfig' = made /\ savedConfig' = listed
         \/ /\ savedConfig' = made
            /\ \/ /\ f.result \in Deaths
                  /\ Lose(f.zone) /\ shownVT' = f.shown
                  /\ LastAnswer("destroy", id, f.result)
               \/ /\ f.result \notin Deaths
                  /\ mDynamicConfig' = made
                  /\ Left(f.zone, f.active, f.shown)
                  /\ AnswerTo("destroy", id, f.result, Errors)

\* The daemon is killed when the container is stopped, when it is removed, when
\* the file "enabled" is, or when the list is saved and the default is not.
DestructionKilled(id) ==
  /\ "kill" \in Faults
  /\ \/ /\ \E z \in halted(zone[id]) : Lose([zone EXCEPT ![id] = z])
        /\ UNCHANGED disk
     \/ /\ \E z \in destroyed(zone[id]) : Lose([zone EXCEPT ![id] = z])
        /\ \/ UNCHANGED disk
           \/ /\ enabled' \in enabledWithout(id)
              /\ savedConfig' \in {savedConfig, [mDynamicConfig EXCEPT !.zoneIds = Without(@, id)]}
  /\ reply' = NoReply
  /\ UNCHANGED shownVT

DestroyZone(id) ==
  /\ phase = "running"
  /\ IF ~Known(id) THEN Refuse("destroy", id)
     ELSE \/ DestructionKilled(id)
          \/ \E z \in destroyed(zone[id]) :
             \E f \in refocus([zone EXCEPT ![id] = z], Without(mZones, id),
                              defaultFor(Without(mZones, id), mDynamicConfig.defaultId)) :
               DestroyKnown(id, z, f)

-----------------------------------------------------------------------------
(* The handlers that change a zone's state or the focus.                   *)

StartZone(id) ==
  /\ phase = "running"
  /\ IF ~Known(id) THEN Refuse("start", id)
     ELSE \E o \in start(zone[id]) :
          \E f \in AfterMethod(id, o, LAMBDA zs : focusInternal(zs, mZones, id)) :
            Conclude("start", id, f, Errors)

\* Mutant: the focus is looked at before the zone stops.
Mutant_ShutdownZone(id) ==
  /\ phase = "running" /\ Known(id)
  /\ \E f \in refocus(zone, mZones, mDynamicConfig.defaultId) :
     \E o \in stop(f.zone[id], TRUE) :
       Conclude("shutdown", id,
                Focus([f.zone EXCEPT ![id] = o.zone], f.active, f.shown, o.result), ZoneErrors)

ShutdownZone(id) ==
  /\ phase = "running"
  /\ IF ~Known(id) THEN Refuse("shutdown", id)
     ELSE \E o \in stop(zone[id], TRUE) :
          \E f \in AfterMethod(id, o, LAMBDA zs : refocus(zs, mZones, mDynamicConfig.defaultId)) :
            Conclude("shutdown", id, f, ZoneErrors)

\* Mutant: the zone is not sent to the background.
Mutant_LockZone(id) ==
  /\ phase = "running" /\ Known(id) /\ zoneIsRunning(zone, id)
  /\ \E o \in suspend(zone[id]) :
     \E f \in AfterMethod(id, o, LAMBDA zs : refocus(zs, mZones, mDynamicConfig.defaultId)) :
       Conclude("lock", id, f, ZoneErrors)

\* handleLockZone: in the background first, "make sure it will be in
\* background after unlock".
LockZone(id) ==
  /\ phase = "running"
  /\ IF ~Known(id) \/ ~zoneIsRunning(zone, id) THEN Refuse("lock", id)
     ELSE \E o \in AndThen(setSchedulerLevel(zone[id], "bg"), suspend) :
          \E f \in AfterMethod(id, o, LAMBDA zs : refocus(zs, mZones, mDynamicConfig.defaultId)) :
            Conclude("lock", id, f, ZoneErrors)

UnlockZone(id) ==
  /\ phase = "running"
  /\ IF ~Known(id) \/ zone[id].lxc # "FROZEN" THEN Refuse("unlock", id)
     ELSE \E o \in resume(zone[id]) :
            Conclude("unlock", id, Focus([zone EXCEPT ![id] = o.zone], mActiveZoneId, shownVT, o.result),
                     ZoneErrors)

SetActiveZone(id) ==
  /\ phase = "running"
  /\ IF ~Known(id) \/ ~zoneIsRunning(zone, id) THEN Refuse("activate", id)
     ELSE \E f \in focusInternal(zone, mZones, id) : Conclude("activate", id, f, Nothing)

SwitchToDefault ==
  LET id == mDynamicConfig.defaultId
  IN  /\ phase = "running"
      /\ \E f \in IF /\ Known(mActiveZoneId) /\ Known(id)
                     /\ mActiveZoneId \in LeaveForDefault
                     /\ zoneIsRunning(zone, id)
                  THEN focusInternal(zone, mZones, id)
                  ELSE {Focus(zone, mActiveZoneId, shownVT, "ok")} :
           Conclude("default", NoZone, f, Nothing)

\* The input monitor saw the switching sequence.
SwitchingSequence ==
  LET next == IF Known(mActiveZoneId) THEN circularFindNext(zone, mZones, mActiveZoneId)
              ELSE firstRunning(zone, mZones)
  IN  /\ phase = "running"
      /\ next # NoZone
      /\ \E f \in focusInternal(zone, mZones, next) : Conclude("next", NoZone, f, Nothing)

CleanUpZonesRoot ==
  /\ phase = "running"
  /\ zone' = cleanUpUnknownsFromRoot(zone, mZones)
  /\ Answer("cleanup", NoZone, "ok")
  /\ UNCHANGED <<memory, disk, shownVT>>

RestoreAll ==
  /\ Restores /\ phase = "running"
  /\ \E o \in ForEach(zone, mZones, [i \in Names |-> restore(zone[i])]) :
     \E f \in IF o.result = "ok" THEN refocus(o.zone, mZones, mDynamicConfig.defaultId)
              ELSE {Focus(o.zone, mActiveZoneId, shownVT, o.result)} :
       Conclude("restore", NoZone, f, Nothing)

-----------------------------------------------------------------------------
(* What happens to a container without the daemon.                         *)

\* Its init exits, or somebody stops it.
ZoneDies(id) ==
  /\ zone[id].lxc # "STOPPED"
  /\ zone' = [zone EXCEPT ![id] = Dead(@)]
  /\ reply' = NoReply
  /\ UNCHANGED <<memory, disk, shownVT>>

\* It powers off: for a while it neither runs nor is stopped.
ZonePowersOff(id) ==
  /\ zone[id].lxc = "RUNNING"
  /\ zone' = [zone EXCEPT ![id].lxc = "STOPPING"]
  /\ reply' = NoReply
  /\ UNCHANGED <<memory, disk, shownVT>>

Next ==
  \/ Boot \/ setZonesDetachOnExit \/ Stop \/ Exit
  \/ Crash \/ LoadingKilled \/ CleaningKilled
  \/ SwitchToDefault \/ SwitchingSequence \/ CleanUpZonesRoot \/ RestoreAll
  \/ \E id \in Names :
       \/ \E template \in Templates : CreateZone(id, template)
       \/ DestroyZone(id) \/ StartZone(id) \/ ShutdownZone(id)
       \/ LockZone(id) \/ UnlockZone(id) \/ SetActiveZone(id)
       \/ ZoneDies(id) \/ ZonePowersOff(id)

Spec == Init /\ [][Next]_vars
-----------------------------------------------------------------------------
(* What must hold.                                                         *)

Running == {i \in Names : Known(i) /\ zoneIsRunning(zone, i)}

\* mZones is "like set but keep insertion order", and the VT generated for a
\* new zone is no other zone's, across restarts, destructions and re-creations
\* from the rows the database kept.
ZonesDistinct ==
  \A m, n \in DOMAIN mZones :
    m # n => /\ mZones[m] # mZones[n]
             /\ \/ zone[mZones[m]].vt = NoVT
                \/ zone[mZones[m]].vt # zone[mZones[n]].vt

\* The zone in the foreground is one of the zones: getRunningForegroundZone-
\* Iterator looks it up and dereferences what it finds.
ActiveKnown == mActiveZoneId # NoZone => Known(mActiveZoneId)

\* There is a default zone exactly when there are zones, and it is one of them.
DefaultKnown ==
  phase = "running" =>
    IF mZones = <<>> THEN mDynamicConfig.defaultId = NoZone
    ELSE Known(mDynamicConfig.defaultId)

\* A restart at any moment brings back the same zones, in the same order, with
\* the same default.
RestartRecovers ==
  phase = "running" => /\ mDynamicConfig.zoneIds = mZones
                       /\ savedConfig = mDynamicConfig

\* A restart loads the template path and the settings of every listed zone, and
\* start() throws for a zone without rows: whatever save fails, and whenever the
\* daemon dies, the rows are there before the list names the zone.
ListedHaveRows ==
  \A n \in DOMAIN savedConfig.zoneIds : zone[savedConfig.zoneIds[n]].saved # "none"

\* What a restart will find as a zone's requested state is the last state
\* requested, however the request itself ended.
RequestPersisted ==
  \A i \in Names : Known(i) => zone[i].saved = zone[i].requested

\* The file "enabled" informs others that there are zones: it is there while the
\* daemon runs and has some.  It is made before the first zone is listed and
\* removed before the last is taken off the list, so a daemon that is killed in
\* between leaves it wrong: of no zones, until one is created and destroyed, or
\* missing for a single one, until the next start.  If it is not killed there,
\* the file is right even while the daemon is down.
EnabledTellsZones ==
  /\ savedConfig.zoneIds # <<>> /\ ~enabled =>
       phase # "running" /\ Len(savedConfig.zoneIds) = 1
  /\ "kill" \notin Faults => (enabled <=> savedConfig.zoneIds # <<>>)

\* No container, and no directory that would keep its name from being used
\* again, is left without a zone: whatever step of createZone fails, it is
\* undone, and what a daemon killed within createZone left behind, the next
\* one clears away.
NothingLeaked ==
  phase = "running" =>
    \A i \in Names : zone[i].dir \/ zone[i].defined \/ zone[i].lxc # "STOPPED" => Known(i)

\* At most one running zone has the CPU quota of the foreground; a zone locked
\* in the foreground comes back in the background.
OneForeground ==
  \A i, j \in Running : zone[i].level = "fg" /\ zone[j].level = "fg" => i = j

\* After a zone was taken away, the focus is on a zone that runs, and on the
\* host only when none runs.
FocusFollows ==
  reply.call \in {"destroy", "shutdown", "lock", "restore"} /\ reply.answer = "ok" =>
    IF Running = {} THEN mActiveZoneId = NoZone ELSE mActiveZoneId \in Running

\* A call that was answered with success did what it promises, also in what a
\* restart will find.
AnswersTrue ==
  LET id == reply.id
  IN  reply.answer = "ok" =>
        CASE reply.call = "start" ->
               id \in Running /\ mActiveZoneId = id /\ zone[id].saved = "running"
          [] reply.call = "activate" -> id \in Running /\ mActiveZoneId = id
          [] reply.call = "shutdown" -> zone[id].lxc = "STOPPED" /\ zone[id].saved = "stopped"
          [] reply.call = "lock"     -> zone[id].lxc = "FROZEN" /\ zone[id].saved = "paused"
          [] reply.call = "unlock"   -> zone[id].lxc = "RUNNING" /\ zone[id].saved = "running"
          [] reply.call = "create"   -> Known(id) /\ zone[id].defined
          [] reply.call = "destroy"  -> ~Known(id) /\ ~zone[id].dir /\ zone[id].lxc = "STOPPED"
          [] OTHER -> TRUE

\* Switching with the keyboard reaches every running zone: no part of them is
\* closed under "next".
SwitchingReachesAll ==
  \A S \in (SUBSET Running) \ {{}} :
    (\A i \in S : circularFindNext(zone, mZones, i) \in S) => S = Running

\* What is in the foreground is on the screen: the VT shown is the active
\* zone's, if it has one.
ScreenShowsActive ==
  phase = "running" /\ mActiveZoneId # NoZone =>
    zone[mActiveZoneId].vt \in {NoVT, shownVT}

\* shutdownAll stops the zones "without changing the saved state", and so does
\* the rest of the way down.
GoingDownKeepsState ==
  [][phase' \in {"stopped", "down"} => \A i \in Names : zone'[i].saved = zone[i].saved]_vars

\* setZonesDetachOnExit: "Set whether ZonesManager should detach zones on exit".
DetachedSurvive ==
  [][mDetachOnExit /\ (Stop \/ Exit) => \A i \in Names : zone'[i].lxc = zone[i].lxc]_vars

\* While no container's init exits within a handler ("die"), the asserts of
\* focusInternal and setSchedulerLevel hold: no handler takes the daemon down.
AssertsHold == phase = "down" => reply = NoReply
=============================================================================
