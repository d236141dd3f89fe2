------------------------- MODULE ZonesManagerProofs -------------------------
(***************************************************************************)
(* What is proved of ZonesManager for every set of zones, templates and    *)
(* virtual terminals.                                                      *)
(***************************************************************************)
EXTENDS ZonesManager, SequenceTheorems, WellFoundedInduction, TLAPS

-----------------------------------------------------------------------------
(* The methods of a zone.                                                  *)

\* Something is left of a zone: a directory, a container.
Left(z) == z.dir \/ z.defined \/ z.lxc # "STOPPED"

\* Where its directory is, its container can be destroyed.
Tidy(z) == z.dir => z.defined

\* Zone z became y: it has the VT it had, and no row of it was removed from the
\* database.
Lasts(y, z) ==
  /\ y \in ZoneSpace(VTs) /\ y.vt = z.vt
  /\ z.saved # "none" => y.saved # "none"
  /\ Tidy(z) => Tidy(y)

\* Its request is the saved one.
Noted(z) == z.saved = z.requested

\* The same, while there is an object for it or none is made: its requests are
\* noted, if they can be, and nothing is left of it that was not there.
Keeps(y, z) ==
  /\ Lasts(y, z)
  /\ "db" \notin Faults /\ Noted(z) => Noted(y)
  /\ Left(y) => Left(z)

\* What a method of zone z may leave behind.
Outcomes(z) == {o \in [zone : ZoneSpace(VTs), result : Results] : Keeps(o.zone, z)}

\* The fields the methods assign, one at a time.
LEMMA ZoneUpdates ==
  ASSUME NEW z \in ZoneSpace(VTs)
  PROVE  /\ \A r \in Requests : [z EXCEPT !.requested = r] \in ZoneSpace(VTs)
         /\ \A r \in Requests : [z EXCEPT !.saved = r] \in ZoneSpace(VTs)
         /\ \A l \in LxcStates : [z EXCEPT !.lxc = l] \in ZoneSpace(VTs)
         /\ \A l \in Levels : [z EXCEPT !.level = l] \in ZoneSpace(VTs)
         /\ \A d \in BOOLEAN : [z EXCEPT !.detach = d] \in ZoneSpace(VTs)
         /\ \A d \in BOOLEAN : [z EXCEPT !.dir = d] \in ZoneSpace(VTs)
         /\ \A d \in BOOLEAN : [z EXCEPT !.defined = d] \in ZoneSpace(VTs)
         /\ \A v \in VTs : [z EXCEPT !.vt = v] \in ZoneSpace(VTs)
  BY DEF ZoneSpace

LEMMA OutcomeIntro ==
  ASSUME NEW z \in ZoneSpace(VTs)
  PROVE  /\ Keeps(z, z)
         /\ \A y : Keeps(y, z) => /\ Done(y) \in Outcomes(z)
                                  /\ \A e \in Results : Thrown(y, e) \in Outcomes(z)
  BY DEF Outcomes, Keeps, Lasts, Done, Thrown, Results

\* updateRequestedState: a request, whether it can be saved or not.
LEMMA UpdateOutcomes ==
  ASSUME NEW z \in ZoneSpace(VTs), NEW state \in Requests
  PROVE  updateRequestedState(z, state) \subseteq Outcomes(z)
  <1>. DEFINE noted == [z EXCEPT !.requested = state]
              saved == [z EXCEPT !.requested = state, !.saved = state]
  <1>1. "db" \in Faults => Keeps(noted, z)
    BY DEF Keeps, Lasts, Noted, Left, Tidy, ZoneSpace
  <1>2. Keeps(saved, z)
    BY DEF Keeps, Lasts, Noted, Left, Tidy, ZoneSpace, Requests
  <1>3. {Done(z), Done(saved), Thrown(saved, "killed")} \subseteq Outcomes(z)
    BY <1>2, OutcomeIntro DEF Results
  <1>4. "db" \in Faults => Thrown(noted, "cargo") \in Outcomes(z)
    BY <1>1, OutcomeIntro DEF Results
  <1>. QED
    BY <1>3, <1>4 DEF updateRequestedState, May

\* setSchedulerLevel: the CPU quota, or a container that died meanwhile.
LEMMA LevelOutcomes ==
  ASSUME NEW z \in ZoneSpace(VTs), NEW level \in Levels
  PROVE  setSchedulerLevel(z, level) \subseteq Outcomes(z)
  <1>. DEFINE set == [z EXCEPT !.level = level]
  <1>1. Keeps(set, z)
    BY DEF Keeps, Lasts, Noted, Left, Tidy, ZoneSpace
  <1>2. Keeps(Dead(z), z)
    BY DEF Keeps, Lasts, Noted, Left, Tidy, ZoneSpace, Dead, LxcStates, Levels
  <1>3. {Done(set), Thrown(z, "zoneop"), Thrown(Dead(z), "abort"), Thrown(Dead(z), "zoneop"),
         Thrown(set, "killed")} \subseteq Outcomes(z)
    BY <1>1, <1>2, OutcomeIntro DEF Results
  <1>. QED
    BY <1>3 DEF setSchedulerLevel, May

LEMMA LaunchOutcomes ==
  ASSUME NEW z \in ZoneSpace(VTs)
  PROVE  launch(z) \subseteq Outcomes(z)
  <1>. DEFINE up == [z EXCEPT !.lxc = "RUNNING"]
  <1>1. z.defined => Keeps(up, z)
    BY DEF Keeps, Lasts, Noted, Left, Tidy, ZoneSpace, LxcStates
  <1>2. z.defined => setSchedulerLevel(up, "fg") \subseteq Outcomes(z)
    BY <1>1, LevelOutcomes DEF Outcomes, Keeps, Lasts, Levels
  <1>3. /\ Done(z) \in Outcomes(z) /\ Thrown(z, "zoneop") \in Outcomes(z)
        /\ z.defined => Thrown(up, "killed") \in Outcomes(z)
    BY <1>1, OutcomeIntro DEF Results
  <1>. QED
    BY <1>2, <1>3 DEF launch, May

\* An outcome's zone has the outcomes of the zone it came from.
LEMMA OutcomeElim ==
  ASSUME NEW z, NEW o \in Outcomes(z)
  PROVE  o.zone \in ZoneSpace(VTs) /\ Outcomes(o.zone) \subseteq Outcomes(z)
  BY DEF Outcomes, Keeps, Lasts

LEMMA StartOutcomes ==
  ASSUME NEW z \in ZoneSpace(VTs)
  PROVE  start(z) \subseteq Outcomes(z)
  <1>1. updateRequestedState(z, "running") \subseteq Outcomes(z)
    BY UpdateOutcomes DEF Requests
  <1>2. \A o \in Outcomes(z) : launch(o.zone) \subseteq Outcomes(z)
    BY LaunchOutcomes, OutcomeElim
  <1>. QED
    BY <1>1, <1>2 DEF start, AndThen

LEMMA StopOutcomes ==
  ASSUME NEW z \in ZoneSpace(VTs), NEW saveState \in BOOLEAN
  PROVE  stop(z, saveState) \subseteq Outcomes(z)
  <1>. DEFINE noted == IF saveState THEN updateRequestedState(z, "stopped") ELSE {Done(z)}
              boosted == AndThen(noted, boost)
  <1>1. \A y \in ZoneSpace(VTs) : Done(y) \in Outcomes(y)
    BY OutcomeIntro
  <1>2. noted \subseteq Outcomes(z)
    BY <1>1, UpdateOutcomes DEF Requests
  <1>3. \A y \in ZoneSpace(VTs) : boost(y) \subseteq Outcomes(y)
    BY <1>1, LevelOutcomes DEF boost, Levels
  <1>4. boosted \subseteq Outcomes(z)
    BY <1>2, <1>3, OutcomeElim DEF AndThen
  <1>5. ASSUME NEW y \in ZoneSpace(VTs) PROVE powerOff(y) \subseteq Outcomes(y)
    <2>1. Keeps(Dead(y), y)
      BY DEF Keeps, Lasts, Noted, Left, Tidy, ZoneSpace, Dead, LxcStates, Levels
    <2>2. {Done(y), Done(Dead(y)), Thrown(y, "zoneop"), Thrown(Dead(y), "killed")}
            \subseteq Outcomes(y)
      BY <2>1, OutcomeIntro DEF Results
    <2>. QED
      BY <2>2 DEF powerOff, May
  <1>6. AndThen(boosted, powerOff) \subseteq Outcomes(z)
    BY <1>4, <1>5, OutcomeElim DEF AndThen
  <1>. QED
    BY <1>6 DEF stop

\* A zone that was started, is there.
LEMMA StartedIsLeft ==
  ASSUME NEW z \in ZoneSpace(VTs), NEW o \in start(z), o.result = "ok"
  PROVE  Left(o.zone)
  <1>1. ASSUME NEW y \in ZoneSpace(VTs), NEW p \in launch(y), p.result = "ok"
        PROVE  Left(p.zone)
    <2>. DEFINE up == [y EXCEPT !.lxc = "RUNNING"]
    <2>1. [up EXCEPT !.level = "fg"].lxc = "RUNNING" /\ (y.defined => Left(y))
      BY DEF Left, ZoneSpace
    <2>2. \/ p = Done(y) /\ (y.lxc = "RUNNING" \/ y.defined)
          \/ p = Done([up EXCEPT !.level = "fg"])
      BY <1>1 DEF launch, setSchedulerLevel, May, Thrown
    <2>3. \A x : (x.lxc = "RUNNING" => Left(x)) /\ Done(x).zone = x
      BY DEF Left, Done
    <2>. HIDE DEF up
    <2>. QED
      BY <2>1, <2>2, <2>3
  <1>2. PICK q \in updateRequestedState(z, "running") :
          IF q.result = "ok" THEN o \in launch(q.zone) ELSE o = q
    BY DEF start, AndThen
  <1>3. q.zone \in ZoneSpace(VTs)
    BY UpdateOutcomes, OutcomeElim DEF Requests
  <1>. QED
    BY <1>1, <1>2, <1>3

\* suspend and resume: LXC freezes the zone, or thaws it, and then it is noted.
LEMMA FreezeOutcomes ==
  ASSUME NEW z \in ZoneSpace(VTs), Left(z)
  PROVE  suspend(z) \subseteq Outcomes(z) /\ resume(z) \subseteq Outcomes(z)
  <1>1. \A l \in LxcStates : moved(z, l) \subseteq Outcomes(z)
    <2>. SUFFICES ASSUME NEW l \in LxcStates PROVE moved(z, l) \subseteq Outcomes(z)
      OBVIOUS
    <2>1. Keeps([z EXCEPT !.lxc = l], z)
      BY DEF Keeps, Lasts, Noted, Left, Tidy, ZoneSpace
    <2>2. {Done([z EXCEPT !.lxc = l]), Thrown(z, "zoneop"), Thrown([z EXCEPT !.lxc = l], "killed")}
            \subseteq Outcomes(z)
      BY <2>1, OutcomeIntro DEF Results
    <2>. QED
      BY <2>2 DEF moved, May
  <1>2. \A y \in ZoneSpace(VTs) : /\ notePaused(y) \subseteq Outcomes(y)
                                  /\ noteRunning(y) \subseteq Outcomes(y)
    BY UpdateOutcomes DEF notePaused, noteRunning, Requests
  <1>3. moved(z, "FROZEN") \subseteq Outcomes(z) /\ moved(z, "RUNNING") \subseteq Outcomes(z)
    BY <1>1 DEF LxcStates
  <1>. QED
    BY <1>2, <1>3, OutcomeElim DEF AndThen, suspend, resume

LEMMA RestoreOutcomes ==
  ASSUME NEW z \in ZoneSpace(VTs)
  PROVE  restore(z) \subseteq Outcomes(z)
  <1>1. z.requested \in Requests
    BY DEF ZoneSpace
  <1>2. AndThen(start(z), suspend) \subseteq Outcomes(z)
    BY StartOutcomes, StartedIsLeft, FreezeOutcomes, OutcomeElim DEF AndThen
  <1>3. Done(z) \in Outcomes(z)
    BY OutcomeIntro
  <1>. QED
    BY <1>1, <1>2, <1>3, StartOutcomes DEF restore, Requests

\* What a zone is made into without a method: by the constructor and the
\* destructor, by the loss of its object, of its container or of its directory.
LEMMA OtherOutcomes ==
  ASSUME NEW z \in ZoneSpace(VTs)
  PROVE  /\ Keeps(Dead(z), z) /\ Keeps(withoutDir(z), z)
         /\ \A y \in {constructed(z), forget(z)} \cup halted(z) \cup destroyed(z) : Lasts(y, z)
         /\ \A y \in {forget(z)} \cup halted(z) \cup destroyed(z) : Left(y) => Left(z)
         /\ "lxc" \notin Faults /\ Tidy(z) => \A y \in destroyed(z) : ~Left(y)
         /\ z.saved # "none" => Noted(constructed(z))
  <1>1. Keeps(Dead(z), z) /\ Keeps(withoutDir(z), z)
    BY DEF Keeps, Lasts, Noted, Left, Tidy, ZoneSpace, Dead, withoutDir, LxcStates, Levels,
           Requests
  <1>2. /\ Lasts(forget(z), z) /\ (Left(forget(z)) => Left(z))
        /\ Lasts(constructed(z), z) /\ (z.saved # "none" => Noted(constructed(z)))
    BY DEF Lasts, Noted, Left, Tidy, ZoneSpace, forget, constructed, Requests
  <1>3. LET h == forget(Dead(z))
        IN  Lasts(h, z) /\ (Left(h) => Left(z)) /\ h.lxc = "STOPPED"
    BY DEF Lasts, Left, Tidy, ZoneSpace, Dead, forget, LxcStates, Levels, Requests
  <1>4. \A h \in halted(z) : /\ Lasts(h, z) /\ (Left(h) => Left(z))
                             /\ "lxc" \notin Faults => h.lxc = "STOPPED"
    BY <1>2, <1>3 DEF halted, May
  <1>5. ASSUME NEW h \in halted(z)
        PROVE  LET y == [h EXCEPT !.dir = FALSE, !.defined = FALSE]
               IN  Lasts(y, z) /\ (Left(y) => Left(z)) /\ (h.lxc = "STOPPED" => ~Left(y))
    <2>. DEFINE y == [h EXCEPT !.dir = FALSE, !.defined = FALSE]
    <2>0. Lasts(h, z) /\ (Left(h) => Left(z))
      BY <1>4
    <2>1. h \in ZoneSpace(VTs)
      BY <2>0 DEF Lasts
    <2>2. /\ y \in ZoneSpace(VTs) /\ y.vt = h.vt /\ y.saved = h.saved /\ y.lxc = h.lxc
          /\ ~y.dir /\ ~y.defined
      BY <2>1 DEF ZoneSpace
    <2>. HIDE DEF y
    <2>3. Lasts(y, z) /\ (Left(y) => Left(z)) /\ (h.lxc = "STOPPED" => ~Left(y))
      BY <2>0, <2>2 DEF Lasts, Left, Tidy
    <2>. QED
      BY <2>3 DEF y
  <1>6. ASSUME NEW y \in destroyed(z)
        PROVE  /\ Lasts(y, z) /\ (Left(y) => Left(z))
               /\ "lxc" \notin Faults /\ Tidy(z) => ~Left(y)
    <2>1. PICK h \in halted(z) :
            \/ y = h /\ ("lxc" \notin Faults => ~(h.lxc = "STOPPED" /\ h.defined))
            \/ y = [h EXCEPT !.dir = FALSE, !.defined = FALSE] /\ h.lxc = "STOPPED"
      BY DEF destroyed, May
    <2>2. CASE y = h /\ ("lxc" \notin Faults => ~(h.lxc = "STOPPED" /\ h.defined))
      <3>1. /\ Lasts(h, z) /\ (Left(h) => Left(z))
            /\ "lxc" \notin Faults => h.lxc = "STOPPED"
        BY <1>4
      <3>2. "lxc" \notin Faults /\ Tidy(z) => ~Left(h)
        BY <2>2, <3>1 DEF Lasts, Left, Tidy
      <3>. QED
        BY <2>2, <3>1, <3>2
    <2>3. CASE y = [h EXCEPT !.dir = FALSE, !.defined = FALSE] /\ h.lxc = "STOPPED"
      BY <1>5, <2>3
    <2>. QED
      BY <2>1, <2>2, <2>3
  <1>. QED
    BY <1>1, <1>2, <1>4, <1>6

-----------------------------------------------------------------------------
(* Lists of zones, and the focus.                                          *)

Zones == [Names -> ZoneSpace(VTs)]

\* The zones ys are what became of the zones zs.
Follows(ys, zs) == ys \in Zones /\ \A i \in Names : Keeps(ys[i], zs[i])

\* Nothing is left of a zone that was not there.
Rests(ys, zs) == \A i \in Names : Left(ys[i]) => Left(zs[i])

\* They are what became of them with the objects made or lost.
Remains(ys, zs) == ys \in Zones /\ \A i \in Names : Lasts(ys[i], zs[i])

LEMMA ToSetOfSeq ==
  ASSUME NEW S, NEW s \in Seq(S)
  PROVE  /\ ToSet(s) \subseteq S
         /\ \A e \in ToSet(s) : \E n \in DOMAIN s : s[n] = e
         /\ \A n \in DOMAIN s : s[n] \in ToSet(s)
         /\ s # <<>> => 1 \in DOMAIN s
  BY DEF ToSet

LEMMA AppendKeeps ==
  ASSUME NEW s \in Seq(Names), NEW id \in Names
  PROVE  ToSet(Append(s, id)) = ToSet(s) \cup {id}
  <1>1. /\ DOMAIN s = 1..Len(s) /\ Len(s) \in Nat
        /\ DOMAIN Append(s, id) = 1..Len(s) + 1
        /\ \A n \in 1..Len(s) : Append(s, id)[n] = s[n]
        /\ Append(s, id)[Len(s) + 1] = id
    BY AppendProperties, LenProperties
  <1>2. \A n \in 1..Len(s) + 1 : n \in 1..Len(s) \/ n = Len(s) + 1
    BY <1>1
  <1>3. ToSet(Append(s, id)) \subseteq ToSet(s) \cup {id}
    BY <1>1, <1>2 DEF ToSet
  <1>4. \A n \in 1..Len(s) : n \in 1..Len(s) + 1
    BY <1>1
  <1>5. Len(s) + 1 \in 1..Len(s) + 1
    BY <1>1
  <1>6. ToSet(s) \cup {id} \subseteq ToSet(Append(s, id))
    BY <1>1, <1>4, <1>5 DEF ToSet
  <1>. QED
    BY <1>3, <1>6

LEMMA MinOfNats ==
  ASSUME NEW S \in SUBSET Nat, S # {}
  PROVE  Min(S) \in S /\ \A n \in S : Min(S) <= n
  <1>. DEFINE before == OpToRel(<, Nat)
  <1>1. \A m, n \in Nat : n < m => <<n, m>> \in before
    BY DEF OpToRel
  <1>2. IsWellFoundedOn(before, Nat)
    BY NatLessThanWellFounded
  <1>. HIDE DEF before
  <1>3. PICK m \in S : \A n \in S : ~(<<n, m>> \in before)
    BY <1>2, WFMin
  <1>4. ASSUME NEW n \in S PROVE m <= n
    <2>1. m \in Nat /\ n \in Nat
      OBVIOUS
    <2>2. ~(n < m)
      BY <1>1, <1>3, <2>1
    <2>. QED
      BY <2>1, <2>2
  <1>. QED
    BY <1>4 DEF Min

\* ForEach: each zone of the list had the method applied, or was not reached.
LEMMA ForEachOutcomes ==
  ASSUME NEW zs \in Zones, NEW zones \in Seq(Names), NEW method,
         \A i \in Names : method[i] \subseteq Outcomes(zs[i])
  PROVE  \A o \in ForEach(zs, zones, method) : Follows(o.zone, zs) /\ o.result \in Results
  <1>. DEFINE passed(i) == {o \in method[i] : o.result = "ok"}
              failed(i) == method[i] \ passed(i)
              reached(n) == \A m \in 1..n - 1 : passed(zones[m]) # {}
              before(n) == [i \in Names |->
                              IF \E m \in 1..n - 1 : zones[m] = i
                                THEN (CHOOSE o \in passed(i) : TRUE).zone
                                ELSE zs[i]]
  <1>1. \A n \in 1..Len(zones) + 1 : reached(n) => Follows(before(n), zs)
    <2>. SUFFICES ASSUME NEW n \in 1..Len(zones) + 1, reached(n), NEW i \in Names
                  PROVE  Keeps(before(n)[i], zs[i])
      BY DEF Follows, Zones, Keeps, Lasts
    <2>1. CASE \E m \in 1..n - 1 : zones[m] = i
      <3>1. (CHOOSE o \in passed(i) : TRUE) \in Outcomes(zs[i])
        BY <2>1
      <3>. QED
        BY <2>1, <3>1 DEF Outcomes, Keeps, Lasts
    <2>2. CASE ~\E m \in 1..n - 1 : zones[m] = i
      BY <2>2 DEF Zones, Keeps, Lasts
    <2>. QED
      BY <2>1, <2>2
  <1>2. reached(Len(zones) + 1) =>
          LET o == Done(before(Len(zones) + 1)) IN Follows(o.zone, zs) /\ o.result \in Results
    <2>1. Len(zones) + 1 \in 1..Len(zones) + 1
      BY LenProperties
    <2>. QED
      BY <1>1, <2>1 DEF Done, Results
  <1>3. ASSUME NEW n \in DOMAIN zones, reached(n), NEW o \in failed(zones[n])
        PROVE  LET t == Thrown([before(n) EXCEPT ![zones[n]] = o.zone], o.result)
               IN  Follows(t.zone, zs) /\ t.result \in Results
    <2>1. n \in 1..Len(zones) + 1 /\ zones[n] \in Names
      BY LenProperties, ElementOfSeq
    <2>2. Follows(before(n), zs)
      BY <1>1, <1>3, <2>1
    <2>3. o \in Outcomes(zs[zones[n]])
      BY <2>1
    <2>. HIDE DEF before, failed, reached
    <2>4. Follows([before(n) EXCEPT ![zones[n]] = o.zone], zs)
      BY <2>1, <2>2, <2>3 DEF Follows, Zones, Outcomes
    <2>. QED
      BY <2>3, <2>4 DEF Thrown, Outcomes
  <1>4. ForEach(zs, zones, method) =
          {Done(before(n)) : n \in {m \in {Len(zones) + 1} : reached(m)}}
          \cup UNION {{Thrown([before(n) EXCEPT ![zones[n]] = o.zone], o.result) :
                         o \in failed(zones[n])} : n \in {m \in DOMAIN zones : reached(m)}}
    BY DEF ForEach
  <1>. HIDE DEF before, failed, reached
  <1>. QED
    BY <1>2, <1>3, <1>4

\* What a change of focus may leave: the zones with their VTs, and in the focus
\* what was there, or the host, or a zone of the list.
Foci(zs, zones) ==
  {f \in [zone : Zones, active : Names \cup {NoZone}, shown : VTs \cup {HostVT},
          result : Results] :
     /\ Follows(f.zone, zs)
     /\ f.active \in {mActiveZoneId, NoZone} \cup ToSet(zones)}

LEMMA FociIntro ==
  ASSUME NEW zs \in Zones, NEW zones,
         mActiveZoneId \in Names \cup {NoZone}, shownVT \in VTs \cup {HostVT}
  PROVE  /\ \A e \in Results : Focus(zs, mActiveZoneId, shownVT, e) \in Foci(zs, zones)
         /\ Focus(zs, NoZone, shownVT, "ok") \in Foci(zs, zones)
         /\ Focus(zs, NoZone, HostVT, "ok") \in Foci(zs, zones)
  <1>1. Follows(zs, zs)
    BY OutcomeIntro DEF Follows, Zones
  <1>. QED
    BY <1>1 DEF Focus, Foci, Follows, Results

LEMMA FirstRunningType ==
  ASSUME NEW zs \in Zones, NEW zones \in Seq(Names)
  PROVE  LET first == firstRunning(zs, zones)
         IN  first # NoZone => first \in ToSet(zones) /\ zoneIsRunning(zs, first)
  <1>. DEFINE running == {n \in DOMAIN zones : zoneIsRunning(zs, zones[n])}
  <1>1. running \in SUBSET Nat
    BY LenProperties
  <1>2. CASE running = {}
    BY <1>2 DEF firstRunning
  <1>3. CASE running # {}
    <2>1. Min(running) \in running
      BY <1>1, <1>3, MinOfNats
    <2>2. firstRunning(zs, zones) = zones[Min(running)]
      BY <1>3 DEF firstRunning
    <2>. QED
      BY <2>1, <2>2, ToSetOfSeq
  <1>. QED
    BY <1>2, <1>3

LEMMA FocusZoneOutcomes ==
  ASSUME NEW zs \in Zones, NEW zones \in Seq(Names), NEW id \in ToSet(zones),
         mActiveZoneId \in Names \cup {NoZone}, shownVT \in VTs \cup {HostVT}
  PROVE  focusZone(zs, zones, id) \subseteq Foci(zs, zones)
  <1>. DEFINE method == [i \in Names |->
                IF zs[i].lxc = "RUNNING"
                  THEN setSchedulerLevel(zs[i], IF i = id THEN "fg" ELSE "bg")
                  ELSE {Done(zs[i])}]
  <1>1. \A i \in Names : method[i] \subseteq Outcomes(zs[i])
    BY LevelOutcomes, OutcomeIntro DEF Zones, Levels
  <1>2. setLevels(zs, zones, id) = ForEach(zs, zones, method)
    BY DEF setLevels
  <1>3. \A o \in setLevels(zs, zones, id) : Follows(o.zone, zs) /\ o.result \in Results
    <2>. HIDE DEF method
    <2>. QED
      BY <1>1, <1>2, ForEachOutcomes
  <1>4. id \in Names /\ zs[id].vt \in VTs
    BY ToSetOfSeq DEF Zones, ZoneSpace
  <1>. DEFINE shown == IF zs[id].vt = NoVT THEN shownVT ELSE zs[id].vt
  <1>5. shown \in VTs \cup {HostVT}
    BY <1>4
  <1>. HIDE DEF shown
  <1>6. ASSUME NEW o \in setLevels(zs, zones, id)
        PROVE  Focus(o.zone, IF o.result = "ok" THEN id ELSE mActiveZoneId, shown, o.result)
                 \in Foci(zs, zones)
    BY <1>3, <1>4, <1>5 DEF Focus, Foci, Follows
  <1>7. Focus(zs, mActiveZoneId, shownVT, "ok") \in Foci(zs, zones)
    BY FociIntro DEF Results
  <1>8. Focus(zs, mActiveZoneId, shown, "killed") \in Foci(zs, zones)
    <2>1. Follows(zs, zs)
      BY OutcomeIntro DEF Follows, Zones
    <2>. QED
      BY <1>5, <2>1 DEF Focus, Foci, Results
  <1>. QED
    BY <1>6, <1>7, <1>8 DEF focusZone, shown, May

\* focusInternal is given the host or a zone of the list.
LEMMA FocusOutcomes ==
  ASSUME NEW zs \in Zones, NEW zones \in Seq(Names), NEW id \in {NoZone} \cup ToSet(zones),
         mActiveZoneId \in Names \cup {NoZone}, shownVT \in VTs \cup {HostVT}
  PROVE  focusInternal(zs, zones, id) \subseteq Foci(zs, zones)
  <1>1. focusHost(zs) \subseteq Foci(zs, zones)
    BY FociIntro DEF focusHost, May, Results
  <1>2. CASE id = NoZone
    BY <1>1, <1>2 DEF focusInternal
  <1>3. CASE id # NoZone
    BY <1>3, FocusZoneOutcomes, FociIntro DEF focusInternal, Results
  <1>. QED
    BY <1>2, <1>3

LEMMA RefocusOutcomes ==
  ASSUME NEW zs \in Zones, NEW zones \in Seq(Names), NEW defaultId,
         mActiveZoneId \in Names \cup {NoZone}, shownVT \in VTs \cup {HostVT}
  PROVE  refocus(zs, zones, defaultId) \subseteq Foci(zs, zones)
  BY FocusOutcomes, FociIntro, FirstRunningType DEF refocus, Results

-----------------------------------------------------------------------------
(* How a step ends.                                                        *)

\* A step that leaves the list of zones and the configuration as they are.
Kept ==
  /\ Follows(zone', zone)
  /\ UNCHANGED <<mZones, mDynamicConfig, savedConfig, enabled>>
  /\ phase' \in {phase, "stopped"}
  /\ mActiveZoneId' \in {mActiveZoneId, NoZone} \cup ToSet(mZones)

\* A step that takes the process down.
Lost ==
  /\ Remains(zone', zone) /\ Rests(zone', zone)
  /\ phase' = "down"
  /\ mZones' = <<>> /\ mActiveZoneId' = NoZone /\ mDynamicConfig' = NoConfig
  /\ UNCHANGED <<savedConfig, enabled>>

LEMMA FollowsTransitive ==
  ASSUME NEW xs, NEW ys, NEW zs, Follows(xs, ys), Follows(ys, zs)
  PROVE  Follows(xs, zs)
  BY DEF Follows, Keeps, Lasts

LEMMA RemainsTransitive ==
  ASSUME NEW xs, NEW ys, NEW zs, Remains(xs, ys), Remains(ys, zs)
  PROVE  Remains(xs, zs)
  BY DEF Remains, Lasts

LEMMA FollowsRemains ==
  ASSUME NEW ys, NEW zs, Follows(ys, zs)
  PROVE  Remains(ys, zs) /\ Rests(ys, zs)
  BY DEF Follows, Remains, Rests, Keeps

LEMMA FollowsReflexive ==
  ASSUME NEW zs \in Zones
  PROVE  Follows(zs, zs)
  BY OutcomeIntro DEF Follows, Zones

\* One zone of them all changes.
LEMMA OneOfZones ==
  ASSUME NEW zs \in Zones, NEW id \in Names, NEW y \in ZoneSpace(VTs)
  PROVE  /\ [zs EXCEPT ![id] = y] \in Zones
         /\ [zs EXCEPT ![id] = y][id] = y
         /\ \A i \in Names \ {id} : [zs EXCEPT ![id] = y][i] = zs[i]
         /\ \A i \in Names : Keeps(zs[i], zs[i])
  BY OutcomeIntro DEF Zones

LEMMA FollowsExcept ==
  ASSUME NEW zs \in Zones, NEW id \in Names, NEW y, Keeps(y, zs[id])
  PROVE  Follows([zs EXCEPT ![id] = y], zs)
  <1>. DEFINE ys == [zs EXCEPT ![id] = y]
  <1>1. /\ ys \in Zones /\ ys[id] = y
        /\ \A i \in Names \ {id} : ys[i] = zs[i]
        /\ \A i \in Names : Keeps(zs[i], zs[i])
    BY OneOfZones DEF Keeps, Lasts
  <1>. HIDE DEF ys
  <1>2. Follows(ys, zs)
    BY <1>1 DEF Follows
  <1>. QED
    BY <1>2 DEF ys

LEMMA RemainsExcept ==
  ASSUME NEW zs \in Zones, NEW id \in Names, NEW y, Lasts(y, zs[id])
  PROVE  /\ Remains([zs EXCEPT ![id] = y], zs)
         /\ (Left(y) => Left(zs[id])) => Rests([zs EXCEPT ![id] = y], zs)
  <1>. DEFINE ys == [zs EXCEPT ![id] = y]
  <1>1. /\ ys \in Zones /\ ys[id] = y
        /\ \A i \in Names \ {id} : ys[i] = zs[i]
        /\ \A i \in Names : Keeps(zs[i], zs[i])
    BY OneOfZones DEF Lasts
  <1>. HIDE DEF ys
  <1>2. Remains(ys, zs) /\ ((Left(y) => Left(zs[id])) => Rests(ys, zs))
    BY <1>1 DEF Remains, Rests, Keeps
  <1>. QED
    BY <1>2 DEF ys

LEMMA NoConfigType == NoConfig \in Config
  BY EmptySeq DEF NoConfig, Config

\* An answer of a call, and that there is none to speak of.
LEMMA AnswerType ==
  ASSUME NEW call \in Calls, NEW id \in Names \cup {NoZone}, NEW result,
         LastAnswer(call, id, result) \/ reply' = NoReply
  PROVE  reply' \in [call : Calls, id : Names \cup {NoZone}, answer : Answers]
  BY DEF LastAnswer, Answer, NoReply, Calls, Answers

LEMMA LoseType ==
  ASSUME TypeOK, NEW zs, Remains(zs, zone), Rests(zs, zone), Lose(zs),
         reply' \in [call : Calls, id : Names \cup {NoZone}, answer : Answers],
         shownVT' \in VTs \cup {HostVT}, savedConfig' \in Config, enabled' \in BOOLEAN
  PROVE  /\ TypeOK' /\ Remains(zone', zone) /\ Rests(zone', zone)
         /\ phase' = "down" /\ mZones' = <<>> /\ mActiveZoneId' = NoZone
         /\ mDynamicConfig' = NoConfig
  <1>1. \A i \in Names : Lasts(forget(zs[i]), zs[i]) /\ (Left(forget(zs[i])) => Left(zs[i]))
    BY OtherOutcomes DEF Remains, Zones
  <1>2. zone' = [i \in Names |-> forget(zs[i])]
    BY DEF Lose
  <1>3. Remains(zone', zs) /\ Rests(zone', zs)
    BY <1>1, <1>2 DEF Remains, Rests, Zones, Lasts
  <1>4. Remains(zone', zone) /\ Rests(zone', zone)
    BY <1>3, RemainsTransitive DEF Rests
  <1>5. mZones' \in Seq(Names) /\ mDynamicConfig' \in Config
    BY EmptySeq, NoConfigType DEF Lose
  <1>6. zone' \in [Names -> ZoneSpace(VTs)]
    BY <1>4 DEF Remains, Zones
  <1>. QED
    BY <1>4, <1>5, <1>6 DEF TypeOK, Lose

LEMMA ConcludeType ==
  ASSUME TypeOK, phase = "running", NEW o \in Foci(zone, mZones), NEW call \in Calls,
         NEW id \in Names \cup {NoZone}, NEW caught, Conclude(call, id, o, caught)
  PROVE  TypeOK' /\ (Kept \/ Lost)
  <1>1. /\ o.zone \in Zones /\ Follows(o.zone, zone)
        /\ o.active \in Names \cup {NoZone} /\ o.shown \in VTs \cup {HostVT}
        /\ o.active \in {mActiveZoneId, NoZone} \cup ToSet(mZones)
    BY DEF Foci
  <1>2. /\ shownVT' = o.shown
        /\ savedConfig' = savedConfig /\ enabled' = enabled
    BY DEF Conclude, disk
  <1>3. CASE Lose(o.zone) /\ LastAnswer(call, id, o.result)
    <2>1. reply' \in [call : Calls, id : Names \cup {NoZone}, answer : Answers]
      BY <1>3, AnswerType
    <2>. QED
      BY <1>1, <1>2, <1>3, <2>1, LoseType, FollowsRemains DEF Lost, TypeOK
  <1>4. CASE /\ zone' = o.zone
             /\ mActiveZoneId' = o.active
             /\ AnswerTo(call, id, o.result, caught)
             /\ UNCHANGED <<phase, mZones, mDynamicConfig, mDetachOnExit>>
    <2>1. reply' \in [call : Calls, id : Names \cup {NoZone}, answer : Answers]
      BY <1>4 DEF AnswerTo, Answer, Answers
    <2>. QED
      BY <1>1, <1>2, <1>4, <2>1 DEF TypeOK, Kept, Zones
  <1>. QED
    BY <1>3, <1>4 DEF Conclude

-----------------------------------------------------------------------------
(* The type invariant, action by action.                                   *)

\* Typed as the lemmas above want it.
LEMMA Types ==
  ASSUME TypeOK
  PROVE  /\ zone \in Zones /\ mZones \in Seq(Names) /\ ToSet(mZones) \subseteq Names
         /\ mActiveZoneId \in Names \cup {NoZone} /\ shownVT \in VTs \cup {HostVT}
         /\ \A id \in Names : zone[id] \in ZoneSpace(VTs)
         /\ \A id : Known(id) => id \in Names
  BY ToSetOfSeq DEF TypeOK, Zones, Known

LEMMA FociOf ==
  ASSUME NEW zs, Follows(zs, zone), NEW zones
  PROVE  Foci(zs, zones) \subseteq Foci(zone, zones)
  BY FollowsTransitive DEF Foci

\* A method was applied to one zone.
LEMMA AfterOutcome ==
  ASSUME TypeOK, NEW id \in Names, NEW o \in Outcomes(zone[id])
  PROVE  LET zs == [zone EXCEPT ![id] = o.zone]
         IN  /\ zs \in Zones /\ Follows(zs, zone)
             /\ Focus(zs, mActiveZoneId, shownVT, o.result) \in Foci(zone, mZones)
  <1>. DEFINE zs == [zone EXCEPT ![id] = o.zone]
  <1>1. Keeps(o.zone, zone[id]) /\ o.result \in Results
    BY DEF Outcomes
  <1>2. Follows(zs, zone)
    BY <1>1, Types, FollowsExcept
  <1>3. zs \in Zones
    BY <1>2 DEF Follows
  <1>. HIDE DEF zs
  <1>4. Focus(zs, mActiveZoneId, shownVT, o.result) \in Foci(zs, mZones)
    BY <1>1, <1>3, Types, FociIntro
  <1>5. Focus(zs, mActiveZoneId, shownVT, o.result) \in Foci(zone, mZones)
    BY <1>2, <1>4, FociOf
  <1>. QED
    BY <1>2, <1>3, <1>5 DEF zs

LEMMA UnchangedType ==
  ASSUME TypeOK, UNCHANGED <<memory, disk, zone, shownVT>>,
         reply' \in [call : Calls, id : Names \cup {NoZone}, answer : Answers]
  PROVE  TypeOK' /\ Kept
  <1>1. Follows(zone, zone)
    BY Types, FollowsReflexive
  <1>. QED
    BY <1>1 DEF TypeOK, Kept, memory, disk

LEMMA RefuseType ==
  ASSUME TypeOK, NEW call \in Calls, NEW id \in Names \cup {NoZone}, Refuse(call, id)
  PROVE  TypeOK' /\ Kept
  BY UnchangedType DEF Refuse, Answer, Answers

\* What follows a method that did not throw: the zone gets the focus, or the
\* focus is looked at again.
LEMMA AfterMethodType ==
  ASSUME TypeOK, NEW id \in Names, NEW o \in Outcomes(zone[id])
  PROVE  /\ Known(id) => AfterMethod(id, o, LAMBDA zs : focusInternal(zs, mZones, id))
                           \subseteq Foci(zone, mZones)
         /\ AfterMethod(id, o, LAMBDA zs : refocus(zs, mZones, mDynamicConfig.defaultId))
              \subseteq Foci(zone, mZones)
  <1>. DEFINE zs == [zone EXCEPT ![id] = o.zone]
  <1>1. zs \in Zones /\ Follows(zs, zone)
    BY AfterOutcome
  <1>2. Focus(zs, mActiveZoneId, shownVT, o.result) \in Foci(zone, mZones)
    BY AfterOutcome
  <1>3. Known(id) => focusInternal(zs, mZones, id) \subseteq Foci(zone, mZones)
    <2>. HIDE DEF zs
    <2>. QED
      BY <1>1, Types, FocusOutcomes, FociOf DEF Known
  <1>4. refocus(zs, mZones, mDynamicConfig.defaultId) \subseteq Foci(zone, mZones)
    <2>. HIDE DEF zs
    <2>. QED
      BY <1>1, Types, RefocusOutcomes, FociOf
  <1>. QED
    BY <1>2, <1>3, <1>4 DEF AfterMethod

LEMMA StartZoneType ==
  ASSUME TypeOK, NEW id \in Names, StartZone(id)
  PROVE  TypeOK' /\ (Kept \/ Lost)
  <1>1. CASE ~Known(id)
    BY <1>1, RefuseType DEF StartZone, Calls
  <1>2. CASE Known(id)
    <2>1. PICK o \in start(zone[id]) :
            \E f \in AfterMethod(id, o, LAMBDA zs : focusInternal(zs, mZones, id)) :
              Conclude("start", id, f, Errors)
      BY <1>2 DEF StartZone
    <2>2. o \in Outcomes(zone[id])
      BY StartOutcomes, Types
    <2>3. PICK f \in Foci(zone, mZones) : Conclude("start", id, f, Errors)
      BY <1>2, <2>1, <2>2, AfterMethodType
    <2>. QED
      BY <2>3, ConcludeType DEF StartZone, Calls
  <1>. QED
    BY <1>1, <1>2

LEMMA ShutdownZoneType ==
  ASSUME TypeOK, NEW id \in Names, ShutdownZone(id)
  PROVE  TypeOK' /\ (Kept \/ Lost)
  <1>1. CASE ~Known(id)
    BY <1>1, RefuseType DEF ShutdownZone, Calls
  <1>2. CASE Known(id)
    <2>1. PICK o \in stop(zone[id], TRUE) :
            \E f \in AfterMethod(id, o,
                       LAMBDA zs : refocus(zs, mZones, mDynamicConfig.defaultId)) :
              Conclude("shutdown", id, f, ZoneErrors)
      BY <1>2 DEF ShutdownZone
    <2>2. o \in Outcomes(zone[id])
      BY StopOutcomes, Types
    <2>3. PICK f \in Foci(zone, mZones) : Conclude("shutdown", id, f, ZoneErrors)
      BY <2>1, <2>2, AfterMethodType
    <2>. QED
      BY <2>3, ConcludeType DEF ShutdownZone, Calls
  <1>. QED
    BY <1>1, <1>2

LEMMA LockZoneType ==
  ASSUME TypeOK, NEW id \in Names, LockZone(id)
  PROVE  TypeOK' /\ (Kept \/ Lost)
  <1>1. CASE ~Known(id) \/ ~zoneIsRunning(zone, id)
    BY <1>1, RefuseType DEF LockZone, Calls
  <1>2. CASE Known(id) /\ zoneIsRunning(zone, id)
    <2>1. PICK o \in AndThen(setSchedulerLevel(zone[id], "bg"), suspend) :
            \E f \in AfterMethod(id, o,
                       LAMBDA zs : refocus(zs, mZones, mDynamicConfig.defaultId)) :
              Conclude("lock", id, f, ZoneErrors)
      BY <1>2 DEF LockZone
    <2>2. setSchedulerLevel(zone[id], "bg") \subseteq Outcomes(zone[id])
      BY LevelOutcomes, Types DEF Levels
    <2>3. \A p \in setSchedulerLevel(zone[id], "bg") : p.result = "ok" => Left(p.zone)
      BY <1>2, Types DEF setSchedulerLevel, May, Done, Thrown, zoneIsRunning, Left, ZoneSpace
    <2>4. o \in Outcomes(zone[id])
      BY <2>1, <2>2, <2>3, FreezeOutcomes, OutcomeElim DEF AndThen
    <2>5. PICK f \in Foci(zone, mZones) : Conclude("lock", id, f, ZoneErrors)
      BY <2>1, <2>4, AfterMethodType
    <2>. QED
      BY <2>5, ConcludeType DEF LockZone, Calls
  <1>. QED
    BY <1>1, <1>2

LEMMA UnlockZoneType ==
  ASSUME TypeOK, NEW id \in Names, UnlockZone(id)
  PROVE  TypeOK' /\ (Kept \/ Lost)
  <1>1. CASE ~Known(id) \/ zone[id].lxc # "FROZEN"
    BY <1>1, RefuseType DEF UnlockZone, Calls
  <1>2. CASE Known(id) /\ zone[id].lxc = "FROZEN"
    <2>1. PICK o \in resume(zone[id]) :
            Conclude("unlock", id,
                     Focus([zone EXCEPT ![id] = o.zone], mActiveZoneId, shownVT, o.result),
                     ZoneErrors)
      BY <1>2 DEF UnlockZone
    <2>2. o \in Outcomes(zone[id])
      BY <1>2, FreezeOutcomes, Types DEF Left
    <2>3. Focus([zone EXCEPT ![id] = o.zone], mActiveZoneId, shownVT, o.result)
            \in Foci(zone, mZones)
      BY <2>2, AfterOutcome
    <2>. QED
      BY <2>1, <2>3, ConcludeType DEF UnlockZone, Calls
  <1>. QED
    BY <1>1, <1>2

\* Handlers that look at the focus only.
LEMMA FocusHandlersType ==
  ASSUME TypeOK, phase = "running", NEW call \in Calls, NEW id \in Names \cup {NoZone},
         NEW next \in {NoZone} \cup ToSet(mZones),
         NEW f \in focusInternal(zone, mZones, next), NEW caught, Conclude(call, id, f, caught)
  PROVE  TypeOK' /\ (Kept \/ Lost)
  <1>1. f \in Foci(zone, mZones)
    BY Types, FocusOutcomes
  <1>. QED
    BY <1>1, ConcludeType

LEMMA SetActiveZoneType ==
  ASSUME TypeOK, NEW id \in Names, SetActiveZone(id)
  PROVE  TypeOK' /\ (Kept \/ Lost)
  <1>1. CASE ~Known(id) \/ ~zoneIsRunning(zone, id)
    BY <1>1, RefuseType DEF SetActiveZone, Calls
  <1>2. CASE Known(id) /\ zoneIsRunning(zone, id)
    <2>1. PICK f \in focusInternal(zone, mZones, id) : Conclude("activate", id, f, Nothing)
      BY <1>2 DEF SetActiveZone
    <2>. QED
      BY <1>2, <2>1, FocusHandlersType DEF SetActiveZone, Calls, Known
  <1>. QED
    BY <1>1, <1>2

LEMMA SwitchToDefaultType ==
  ASSUME TypeOK, SwitchToDefault
  PROVE  TypeOK' /\ (Kept \/ Lost)
  <1>. DEFINE id == mDynamicConfig.defaultId
  <1>1. PICK f \in focusInternal(zone, mZones, id) \cup {Focus(zone, mActiveZoneId, shownVT, "ok")} :
          /\ f \in focusInternal(zone, mZones, id) => Known(id)
                \/ f = Focus(zone, mActiveZoneId, shownVT, "ok")
          /\ Conclude("default", NoZone, f, Nothing)
    BY DEF SwitchToDefault
  <1>2. CASE f = Focus(zone, mActiveZoneId, shownVT, "ok")
    <2>1. f \in Foci(zone, mZones)
      BY <1>2, Types, FociIntro DEF Results
    <2>. QED
      BY <1>1, <2>1, ConcludeType DEF SwitchToDefault, Calls
  <1>3. CASE Known(id) /\ f \in focusInternal(zone, mZones, id)
    BY <1>1, <1>3, FocusHandlersType DEF SwitchToDefault, Calls, Known
  <1>. QED
    BY <1>1, <1>2, <1>3

\* The next zone in the circle is one of the list, and runs.
LEMMA FindNextType ==
  ASSUME NEW zs \in Zones, NEW zones \in Seq(Names), NEW current \in ToSet(zones)
  PROVE  LET next == circularFindNext(zs, zones, current)
         IN  next # NoZone => next \in ToSet(zones) /\ zoneIsRunning(zs, next)
  <1>. DEFINE c == CHOOSE n \in DOMAIN zones : zones[n] = current
              ahead(k) == zones[1 + ((c - 1 + k) % Len(zones))]
              running == {k \in 1..Len(zones) - 1 : zoneIsRunning(zs, ahead(k))}
  <1>1. c \in 1..Len(zones) /\ Len(zones) \in Nat
    BY ToSetOfSeq, LenProperties
  <1>2. ASSUME NEW k \in 1..Len(zones) - 1 PROVE ahead(k) \in ToSet(zones)
    <2>. HIDE DEF c
    <2>1. c - 1 + k \in Nat /\ Len(zones) \in Nat \ {0}
      BY <1>1
    <2>2. 1 + ((c - 1 + k) % Len(zones)) \in DOMAIN zones
      BY <2>1, LenProperties
    <2>. QED
      BY <2>2, ToSetOfSeq
  <1>3. circularFindNext(zs, zones, current) = IF running = {} THEN NoZone ELSE ahead(Min(running))
    BY DEF circularFindNext
  <1>4. CASE running # {}
    <2>1. running \in SUBSET Nat
      OBVIOUS
    <2>2. Min(running) \in running
      BY <1>4, <2>1, MinOfNats
    <2>3. Min(running) \in 1..Len(zones) - 1 /\ zoneIsRunning(zs, ahead(Min(running)))
      BY <2>2
    <2>. HIDE DEF ahead, running
    <2>. QED
      BY <1>2, <1>3, <1>4, <2>3
  <1>5. CASE running = {}
    BY <1>3, <1>5
  <1>. QED
    BY <1>4, <1>5

LEMMA SwitchingSequenceType ==
  ASSUME TypeOK, SwitchingSequence
  PROVE  TypeOK' /\ (Kept \/ Lost)
  <1>. DEFINE next == IF Known(mActiveZoneId) THEN circularFindNext(zone, mZones, mActiveZoneId)
                      ELSE firstRunning(zone, mZones)
  <1>1. next \in {NoZone} \cup ToSet(mZones)
    BY Types, FindNextType, FirstRunningType DEF Known
  <1>2. PICK f \in focusInternal(zone, mZones, next) : Conclude("next", NoZone, f, Nothing)
    BY DEF SwitchingSequence
  <1>. HIDE DEF next
  <1>. QED
    BY <1>1, <1>2, FocusHandlersType DEF SwitchingSequence, Calls

LEMMA CleanUpType ==
  ASSUME NEW zs \in Zones, NEW known
  PROVE  Follows(cleanUpUnknownsFromRoot(zs, known), zs)
  <1>1. \A i \in Names : Keeps(withoutDir(zs[i]), zs[i]) /\ Keeps(zs[i], zs[i])
    BY OtherOutcomes, OutcomeIntro DEF Zones
  <1>. QED
    BY <1>1 DEF cleanUpUnknownsFromRoot, Follows, Zones, Keeps, Lasts

LEMMA CleanUpZonesRootType ==
  ASSUME TypeOK, CleanUpZonesRoot
  PROVE  TypeOK' /\ Kept
  <1>1. Follows(zone', zone)
    BY Types, CleanUpType DEF CleanUpZonesRoot
  <1>2. reply' \in [call : Calls, id : Names \cup {NoZone}, answer : Answers]
    BY DEF CleanUpZonesRoot, Answer, Calls, Answers
  <1>. QED
    BY <1>1, <1>2 DEF CleanUpZonesRoot, TypeOK, Kept, memory, disk, Follows, Zones

\* A zone of the list that was stopped or restored, and the focus after that.
LEMMA ForEachThenRefocus ==
  ASSUME TypeOK, NEW method, \A i \in Names : method[i] \subseteq Outcomes(zone[i]),
         NEW o \in ForEach(zone, mZones, method)
  PROVE  /\ refocus(o.zone, mZones, mDynamicConfig.defaultId) \subseteq Foci(zone, mZones)
         /\ Focus(o.zone, mActiveZoneId, shownVT, o.result) \in Foci(zone, mZones)
  <1>1. Follows(o.zone, zone) /\ o.result \in Results
    BY Types, ForEachOutcomes
  <1>2. o.zone \in Zones
    BY <1>1 DEF Follows
  <1>3. refocus(o.zone, mZones, mDynamicConfig.defaultId) \subseteq Foci(o.zone, mZones)
    BY <1>2, Types, RefocusOutcomes
  <1>4. Focus(o.zone, mActiveZoneId, shownVT, o.result) \in Foci(o.zone, mZones)
    BY <1>1, <1>2, Types, FociIntro
  <1>. QED
    BY <1>1, <1>3, <1>4, FociOf

LEMMA RestoreAllType ==
  ASSUME TypeOK, RestoreAll
  PROVE  TypeOK' /\ (Kept \/ Lost)
  <1>. DEFINE method == [i \in Names |-> restore(zone[i])]
  <1>1. \A i \in Names : method[i] \subseteq Outcomes(zone[i])
    BY Types, RestoreOutcomes
  <1>2. PICK o \in ForEach(zone, mZones, method) :
          \E f \in IF o.result = "ok" THEN refocus(o.zone, mZones, mDynamicConfig.defaultId)
                   ELSE {Focus(o.zone, mActiveZoneId, shownVT, o.result)} :
            Conclude("restore", NoZone, f, Nothing)
    BY DEF RestoreAll
  <1>. HIDE DEF method
  <1>3. PICK f \in Foci(zone, mZones) : Conclude("restore", NoZone, f, Nothing)
    BY <1>1, <1>2, ForEachThenRefocus
  <1>. QED
    BY <1>3, ConcludeType DEF RestoreAll, Calls

LEMMA ShutdownAllType ==
  ASSUME TypeOK
  PROVE  shutdownAll \subseteq Foci(zone, mZones)
  <1>. DEFINE method == [i \in Names |-> stop(zone[i], FALSE)]
  <1>1. \A i \in Names : method[i] \subseteq Outcomes(zone[i])
    BY Types, StopOutcomes
  <1>2. shutdownAll =
          UNION {IF o.result = "ok" THEN refocus(o.zone, mZones, mDynamicConfig.defaultId)
                 ELSE {Focus(o.zone, mActiveZoneId, shownVT, o.result)} :
                   o \in ForEach(zone, mZones, method)}
    BY DEF shutdownAll
  <1>. HIDE DEF method
  <1>. QED
    BY <1>1, <1>2, ForEachThenRefocus

LEMMA StopType ==
  ASSUME TypeOK, Stop
  PROVE  TypeOK' /\ (Kept \/ Lost)
  <1>1. reply' = NoReply => reply' \in [call : Calls, id : Names \cup {NoZone}, answer : Answers]
    BY DEF NoReply, Calls, Answers
  <1>2. CASE mDetachOnExit
    <2>1. Follows(zone, zone)
      BY Types, FollowsReflexive
    <2>. QED
      BY <1>1, <1>2, <2>1 DEF Stop, TypeOK, Kept, disk
  <1>3. CASE ~mDetachOnExit
    <2>1. PICK o \in shutdownAll :
            /\ shownVT' = o.shown
            /\ \/ Lose(o.zone) /\ LastAnswer("stop", NoZone, o.result)
               \/ /\ o.result \notin Deaths
                  /\ phase' = "stopped"
                  /\ zone' = o.zone
                  /\ mActiveZoneId' = o.active
                  /\ reply' = NoReply
                  /\ UNCHANGED <<mZones, mDynamicConfig, mDetachOnExit>>
      BY <1>3 DEF Stop
    <2>2. savedConfig' = savedConfig /\ enabled' = enabled
      BY DEF Stop, disk
    <2>3. /\ o.zone \in Zones /\ Follows(o.zone, zone)
          /\ o.active \in Names \cup {NoZone} /\ o.shown \in VTs \cup {HostVT}
          /\ o.active \in {mActiveZoneId, NoZone} \cup ToSet(mZones)
      BY ShutdownAllType DEF Foci
    <2>4. CASE Lose(o.zone) /\ LastAnswer("stop", NoZone, o.result)
      <3>1. reply' \in [call : Calls, id : Names \cup {NoZone}, answer : Answers]
        BY <2>4, AnswerType DEF Calls
      <3>. QED
        BY <2>1, <2>2, <2>3, <2>4, <3>1, LoseType, FollowsRemains DEF Lost, TypeOK
    <2>5. CASE ~(Lose(o.zone) /\ LastAnswer("stop", NoZone, o.result))
      BY <1>1, <2>1, <2>2, <2>3, <2>5 DEF TypeOK, Kept, Zones
    <2>. QED
      BY <2>4, <2>5
  <1>. QED
    BY <1>2, <1>3

LEMMA ExitType ==
  ASSUME TypeOK, Exit
  PROVE  TypeOK' /\ Lost
  <1>1. PICK stuck \in SUBSET ToSet(mZones) :
          Lose([i \in Names |->
                  IF Known(i) /\ i \notin stuck /\ ~zone[i].detach THEN Dead(zone[i])
                  ELSE zone[i]])
    BY DEF Exit
  <1>. DEFINE zs == [i \in Names |->
                       IF Known(i) /\ i \notin stuck /\ ~zone[i].detach THEN Dead(zone[i])
                       ELSE zone[i]]
  <1>2. \A i \in Names : Keeps(zs[i], zone[i])
    BY Types, OtherOutcomes, OutcomeIntro
  <1>3. Follows(zs, zone)
    BY <1>2 DEF Follows, Zones, Keeps, Lasts
  <1>. HIDE DEF zs
  <1>4. Lose(zs)
    BY <1>1 DEF zs
  <1>5. reply' \in [call : Calls, id : Names \cup {NoZone}, answer : Answers]
    BY AnswerType DEF Exit, Calls
  <1>. QED
    BY <1>3, <1>4, <1>5, LoseType, FollowsRemains DEF Exit, Lost, TypeOK, disk

LEMMA CrashType ==
  ASSUME TypeOK, Crash
  PROVE  TypeOK' /\ Lost
  <1>1. reply' \in [call : Calls, id : Names \cup {NoZone}, answer : Answers]
    BY AnswerType DEF Crash, Calls
  <1>. QED
    BY <1>1, Types, FollowsReflexive, FollowsRemains, LoseType DEF Crash, Lost, TypeOK, disk

\* One zone changes, and nothing else.
LEMMA OneZoneType ==
  ASSUME TypeOK, NEW id \in Names, NEW y, Keeps(y, zone[id]),
         zone' = [zone EXCEPT ![id] = y], reply' = NoReply, UNCHANGED <<memory, disk, shownVT>>
  PROVE  TypeOK' /\ Kept
  <1>1. Follows(zone', zone)
    BY Types, FollowsExcept
  <1>2. reply' \in [call : Calls, id : Names \cup {NoZone}, answer : Answers]
    BY DEF NoReply, Calls, Answers
  <1>. QED
    BY <1>1, <1>2 DEF TypeOK, Kept, memory, disk, Follows, Zones

LEMMA ZoneAloneType ==
  ASSUME TypeOK, NEW id \in Names, ZoneDies(id) \/ ZonePowersOff(id)
  PROVE  TypeOK' /\ Kept
  <1>1. CASE ZoneDies(id)
    BY <1>1, Types, OtherOutcomes, OneZoneType DEF ZoneDies
  <1>2. CASE ZonePowersOff(id)
    <2>. DEFINE y == [zone[id] EXCEPT !.lxc = "STOPPING"]
    <2>1. Keeps(y, zone[id])
      BY <1>2, Types DEF ZonePowersOff, Keeps, Lasts, Noted, Left, Tidy, ZoneSpace, LxcStates
    <2>2. zone' = [zone EXCEPT ![id] = y]
      BY <1>2 DEF ZonePowersOff
    <2>. HIDE DEF y
    <2>. QED
      BY <1>2, <2>1, <2>2, OneZoneType DEF ZonePowersOff
  <1>. QED
    BY <1>1, <1>2

LEMMA setZonesDetachOnExitType ==
  ASSUME TypeOK, setZonesDetachOnExit
  PROVE  TypeOK' /\ Kept
  <1>1. \A i \in Names : Keeps([zone[i] EXCEPT !.detach = TRUE], zone[i]) /\ Keeps(zone[i], zone[i])
    BY Types, OutcomeIntro DEF Keeps, Lasts, Noted, Left, Tidy, ZoneSpace
  <1>2. Follows(zone', zone)
    BY <1>1 DEF setZonesDetachOnExit, Follows, Zones, Keeps, Lasts
  <1>3. reply' \in [call : Calls, id : Names \cup {NoZone}, answer : Answers]
    BY DEF setZonesDetachOnExit, NoReply, Calls, Answers
  <1>. QED
    BY <1>2, <1>3 DEF setZonesDetachOnExit, TypeOK, Kept, disk, Follows, Zones

-----------------------------------------------------------------------------
(* Boot.                                                                   *)

\* The configuration with a default that is one of its zones.
WithDefault(config) == [config EXCEPT !.defaultId = defaultFor(config.zoneIds, @)]

LEMMA WithDefaultType ==
  ASSUME NEW config \in Config
  PROVE  WithDefault(config) \in Config /\ WithDefault(config).zoneIds = config.zoneIds
  <1>1. config.zoneIds \in Seq(Names) /\ config.defaultId \in Names \cup {NoZone}
    BY DEF Config
  <1>2. config.zoneIds # <<>> => config.zoneIds[1] \in Names
    BY <1>1, ToSetOfSeq, ElementOfSeq
  <1>3. defaultFor(config.zoneIds, config.defaultId) \in Names \cup {NoZone}
    BY <1>1, <1>2 DEF defaultFor
  <1>. QED
    BY <1>3 DEF WithDefault, Config

\* The zones, with objects for the first n that are saved.
LEMMA LoadedType ==
  ASSUME TypeOK, NEW n \in 0..Len(savedConfig.zoneIds)
  PROVE  LET first == SubSeq(savedConfig.zoneIds, 1, n)
         IN  /\ loaded(n) \in Zones /\ first \in Seq(Names)
             /\ Remains(loaded(n), zone)
             /\ \A i \in Names : Left(loaded(n)[i]) => Left(zone[i]) \/ i \in ToSet(first)
             /\ CleanUp => \A i \in Names \ ToSet(savedConfig.zoneIds) :
                             Left(loaded(n)[i]) => zone[i].lxc # "STOPPED"
             /\ \A i \in ToSet(first) : loaded(n)[i].saved # "none" => Noted(loaded(n)[i])
  <1>. DEFINE ids == savedConfig.zoneIds
              first == SubSeq(ids, 1, n)
              ys == loaded(n)
  <1>1. savedConfig \in Config /\ ids \in Seq(Names) /\ Len(ids) \in Nat
    BY LenProperties DEF TypeOK, Config
  <1>2. Follows(cleaned, zone)
    BY Types, CleanUpType, FollowsReflexive DEF cleaned
  <1>3. /\ first \in Seq(Names) /\ DOMAIN first = 1..n
        /\ \A m \in 1..n : first[m] = ids[m] /\ m \in DOMAIN ids
    BY <1>1, SubSeqProperties, LenProperties
  <1>4. \A i \in Names :
          LET c == constructed(cleaned[i])
          IN  /\ Lasts(c, cleaned[i]) /\ Lasts(cleaned[i], cleaned[i])
              /\ c.saved # "none" => Noted(c)
    <2>1. \A i \in Names : cleaned[i] \in ZoneSpace(VTs)
      BY <1>2 DEF Follows, Zones
    <2>2. \A z \in ZoneSpace(VTs) : constructed(z).saved = z.saved
      BY DEF constructed, ZoneSpace
    <2>. QED
      BY <2>1, <2>2, OtherOutcomes, OutcomeIntro DEF Keeps
  <1>5. /\ ys = [i \in Names |-> ys[i]]
        /\ \A i \in Names : IF i \in ToSet(first) THEN ys[i] = constructed(cleaned[i])
                                                ELSE ys[i] = cleaned[i]
    <2>1. ys = [i \in Names |-> IF \E m \in 1..n : ids[m] = i THEN constructed(cleaned[i])
                                                          ELSE cleaned[i]]
      BY DEF loaded
    <2>2. \A i : (\E m \in 1..n : ids[m] = i) <=> i \in ToSet(first)
      BY <1>3 DEF ToSet
    <2>. HIDE DEF ys, ids, first
    <2>3. ys = [i \in Names |-> ys[i]]
      BY <2>1
    <2>. QED
      BY <2>1, <2>2, <2>3
  <1>. HIDE DEF ys
  <1>6. \A i \in Names : Lasts(ys[i], cleaned[i])
    BY <1>4, <1>5
  <1>7. ys \in Zones
    BY <1>5, <1>6 DEF Lasts, Zones
  <1>8. Remains(ys, zone)
    <2>1. Remains(ys, cleaned)
      BY <1>6, <1>7 DEF Remains
    <2>. QED
      BY <1>2, <2>1, FollowsRemains, RemainsTransitive
  <1>9. \A i \in Names : Left(ys[i]) => Left(zone[i]) \/ i \in ToSet(first)
    <2>1. \A i \in Names : Left(cleaned[i]) => Left(zone[i])
      BY <1>2 DEF Follows, Keeps
    <2>. QED
      BY <1>5, <2>1
  <1>10. ASSUME CleanUp, NEW i \in Names \ ToSet(ids), Left(ys[i])
         PROVE  zone[i].lxc # "STOPPED"
    <2>1. i \notin ToSet(first)
      BY <1>3 DEF ToSet
    <2>2. ys[i] = withoutDir(zone[i])
      BY <1>5, <1>10, <2>1 DEF cleaned, cleanUpUnknownsFromRoot
    <2>3. zone[i] \in ZoneSpace(VTs)
      BY Types
    <2>. QED
      BY <1>10, <2>2, <2>3 DEF withoutDir, Left, ZoneSpace
  <1>11. \A i \in ToSet(first) : ys[i].saved # "none" => Noted(ys[i])
    <2>1. ToSet(first) \subseteq Names
      BY <1>3, ToSetOfSeq
    <2>. QED
      BY <1>4, <1>5, <2>1
  <1>. QED
    BY <1>3, <1>7, <1>8, <1>9, <1>10, <1>11 DEF ys

\* The saved zones, all of them or the first few.
Booted ==
  /\ phase = "down" /\ Remains(zone', zone)
  /\ \A i \in Names : Left(zone'[i]) => Left(zone[i]) \/ i \in ToSet(mZones')
  /\ CleanUp => \A i \in Names \ ToSet(savedConfig.zoneIds) :
                  Left(zone'[i]) => zone[i].lxc # "STOPPED"
  /\ UNCHANGED mActiveZoneId
  /\ \A i \in ToSet(mZones') : zone'[i].saved # "none" => Noted(zone'[i])
  /\ (enabled => enabled') /\ (enabled' => enabled \/ savedConfig.zoneIds # <<>>)
  /\ \/ /\ phase' = "running"
        /\ mZones' = savedConfig.zoneIds
        /\ mDynamicConfig' = WithDefault(savedConfig)
        /\ savedConfig' = WithDefault(savedConfig)
        /\ savedConfig.zoneIds # <<>> => enabled'
     \/ /\ phase' = "failing"
        /\ \E n \in 0..Len(savedConfig.zoneIds) : mZones' = SubSeq(savedConfig.zoneIds, 1, n)
        /\ mDynamicConfig' \in {savedConfig, WithDefault(savedConfig)}
        /\ UNCHANGED savedConfig

LEMMA BootType ==
  ASSUME TypeOK, Boot
  PROVE  TypeOK' /\ Booted
  <1>. DEFINE ids == savedConfig.zoneIds
              made == WithDefault(savedConfig)
              Made(n) == mZones' = SubSeq(ids, 1, n) /\ zone' = loaded(n)
              Telling == /\ enabled' \in BOOLEAN
                         /\ (enabled => enabled') /\ (enabled' => enabled \/ ids # <<>>)
  <1>1. savedConfig \in Config /\ ids \in Seq(Names) /\ Len(ids) \in Nat
    BY LenProperties DEF TypeOK, Config
  <1>3. made \in Config /\ made.zoneIds = ids
    BY <1>1, WithDefaultType
  <1>4. ASSUME NEW n \in 0..Len(ids), Made(n)
        PROVE  /\ zone' \in [Names -> ZoneSpace(VTs)] /\ mZones' \in Seq(Names)
               /\ Remains(zone', zone)
               /\ \A i \in Names : Left(zone'[i]) => Left(zone[i]) \/ i \in ToSet(mZones')
               /\ CleanUp => \A i \in Names \ ToSet(ids) : Left(zone'[i]) => zone[i].lxc # "STOPPED"
               /\ \A i \in ToSet(mZones') : zone'[i].saved # "none" => Noted(zone'[i])
    BY <1>4, LoadedType DEF Zones
  <1>5. reply' \in [call : Calls, id : Names \cup {NoZone}, answer : Answers]
    BY DEF Boot, NoReply, Calls, Answers
  <1>6. phase = "down" /\ UNCHANGED <<mActiveZoneId, mDetachOnExit, shownVT>>
    BY DEF Boot
  <1>7. \/ /\ Made(Len(ids)) /\ phase' = "running"
           /\ mDynamicConfig' = made /\ savedConfig' = made
           /\ Telling /\ (ids # <<>> => enabled')
        \/ /\ \E n \in 0..Len(ids) : Made(n)
           /\ phase' = "failing"
           /\ mDynamicConfig' \in {savedConfig, made} /\ savedConfig' = savedConfig
           /\ Telling
    <2>. DEFINE Failing == /\ phase' = "failing"
                           /\ mDynamicConfig' \in {savedConfig, made}
                           /\ savedConfig' = savedConfig
    <2>1. enabled \in BOOLEAN
      BY DEF TypeOK
    <2>2. \A n \in DOMAIN ids : n \in Int /\ n - 1 \in 0..Len(ids) /\ ids # <<>>
      BY <1>1, LenProperties
    <2>3. Len(ids) \in 0..Len(ids) /\ (ids # <<>> => 1 \in 0..Len(ids))
      BY <1>1, ToSetOfSeq, LenProperties
    <2>4. \/ /\ Made(Len(ids)) /\ phase' = "running"
             /\ mDynamicConfig' = made /\ savedConfig' = made
             /\ enabled' = (enabled \/ ids # <<>>)
          \/ \E n \in DOMAIN ids : Made(n - 1) /\ Failing /\ enabled' = (enabled \/ n > 1)
          \/ ids # <<>> /\ Made(1) /\ Failing /\ enabled' = enabled
          \/ Made(Len(ids)) /\ Failing /\ enabled' = (enabled \/ ids # <<>>)
      BY DEF Boot, WithDefault, disk
    <2>. HIDE DEF Made
    <2>5. CASE \E n \in DOMAIN ids : Made(n - 1) /\ Failing /\ enabled' = (enabled \/ n > 1)
      <3>1. PICK n \in DOMAIN ids : Made(n - 1) /\ Failing /\ enabled' = (enabled \/ n > 1)
        BY <2>5
      <3>2. Telling
        BY <2>1, <2>2, <3>1
      <3>. QED
        BY <2>2, <3>1, <3>2
    <2>6. CASE enabled' \in {enabled, enabled \/ ids # <<>>}
      <3>1. Telling
        BY <2>1, <2>6
      <3>. QED
        BY <2>3, <2>4, <2>5, <3>1
    <2>. QED
      BY <2>4, <2>5, <2>6
  <1>. HIDE DEF Made, made
  <1>8. TypeOK'
    BY <1>1, <1>3, <1>4, <1>5, <1>6, <1>7 DEF TypeOK
  <1>9. SubSeq(ids, 1, Len(ids)) = ids
    BY <1>1, SubSeqFull
  <1>10. Booted
    BY <1>1, <1>4, <1>6, <1>7, <1>9 DEF Booted, Made, made
  <1>. QED
    BY <1>8, <1>10

\* The process is gone, and its memory with it.
Gone ==
  /\ "kill" \in Faults /\ phase' = "down"
  /\ mZones' = <<>> /\ mActiveZoneId' = NoZone /\ mDynamicConfig' = NoConfig

\* It was killed while it loaded the zones that are saved.
LoadingCut ==
  /\ Gone /\ phase = "down" /\ Remains(zone', zone) /\ UNCHANGED savedConfig
  /\ \A i \in Names : Left(zone'[i]) => Left(zone[i]) \/ i \in ToSet(savedConfig.zoneIds)
  /\ (enabled => enabled') /\ (enabled' => enabled \/ savedConfig.zoneIds # <<>>)

\* Lose, whatever became of the zones.
LEMMA GoneType ==
  ASSUME TypeOK, "kill" \in Faults, NEW zs \in Zones, Lose(zs), reply' = NoReply,
         UNCHANGED shownVT, savedConfig' \in Config, enabled' \in BOOLEAN
  PROVE  /\ TypeOK' /\ Gone /\ zone' \in Zones
         /\ \A i \in Names : /\ zone'[i].lxc = zs[i].lxc /\ Lasts(zone'[i], zs[i])
                             /\ Left(zone'[i]) => Left(zs[i])
  <1>1. zone' = [i \in Names |-> forget(zs[i])]
    BY DEF Lose
  <1>2. \A i \in Names : /\ Lasts(forget(zs[i]), zs[i]) /\ (Left(forget(zs[i])) => Left(zs[i]))
                         /\ forget(zs[i]).lxc = zs[i].lxc
    BY OtherOutcomes DEF Zones, forget, ZoneSpace
  <1>3. zone' \in Zones
    BY <1>1, <1>2 DEF Zones, Lasts
  <1>4. reply' \in [call : Calls, id : Names \cup {NoZone}, answer : Answers]
    BY AnswerType DEF Calls
  <1>5. mZones' \in Seq(Names) /\ mDynamicConfig' \in Config
    BY EmptySeq, NoConfigType DEF Lose
  <1>6. TypeOK'
    BY <1>3, <1>4, <1>5 DEF TypeOK, Lose, Zones
  <1>. QED
    BY <1>1, <1>2, <1>3, <1>6 DEF Gone, Lose

LEMMA LoadingKilledType ==
  ASSUME TypeOK, LoadingKilled
  PROVE  TypeOK' /\ LoadingCut
  <1>. DEFINE ids == savedConfig.zoneIds
  <1>1. ids \in Seq(Names) /\ Len(ids) \in Nat /\ savedConfig' \in Config /\ enabled \in BOOLEAN
    BY LenProperties DEF LoadingKilled, TypeOK, Config
  <1>2. PICK n \in 0..Len(ids) :
          Lose(loaded(n)) /\ enabled' \in {enabled \/ n > 1, enabled \/ n > 0}
    BY DEF LoadingKilled
  <1>3. loaded(n) \in Zones /\ Remains(loaded(n), zone)
    BY LoadedType
  <1>4. /\ enabled' \in BOOLEAN /\ (enabled => enabled') /\ (enabled' => enabled \/ n > 0)
    <2>. DEFINE one == n > 0
                two == n > 1
    <2>1. (two => one) /\ enabled' \in {enabled \/ two, enabled \/ one}
      BY <1>1, <1>2
    <2>. HIDE DEF one, two
    <2>2. enabled' \in BOOLEAN /\ (enabled => enabled') /\ (enabled' => enabled \/ one)
      BY <2>1, Zenon
    <2>. QED
      BY <2>2 DEF one
  <1>5. /\ TypeOK' /\ Gone /\ zone' \in Zones
        /\ \A i \in Names : Lasts(zone'[i], loaded(n)[i]) /\ (Left(zone'[i]) => Left(loaded(n)[i]))
    <2>1. "kill" \in Faults /\ reply' = NoReply /\ UNCHANGED shownVT
      BY DEF LoadingKilled
    <2>2. enabled' \in BOOLEAN /\ savedConfig' \in Config /\ loaded(n) \in Zones /\ Lose(loaded(n))
      BY <1>1, <1>2, <1>3, <1>4
    <2>. QED
      BY <2>1, <2>2, GoneType
  <1>6. Remains(zone', zone)
    BY <1>3, <1>5, RemainsTransitive DEF Remains
  <1>7. \A i \in Names : i \in ToSet(SubSeq(ids, 1, n)) => i \in ToSet(ids)
    <2>1. /\ DOMAIN SubSeq(ids, 1, n) = 1..n
          /\ \A m \in 1..n : SubSeq(ids, 1, n)[m] = ids[m] /\ m \in DOMAIN ids
      BY <1>1, SubSeqProperties, LenProperties
    <2>. QED
      BY <2>1 DEF ToSet
  <1>8. \A i \in Names : Left(zone'[i]) => Left(zone[i]) \/ i \in ToSet(ids)
    BY <1>5, <1>7, LoadedType
  <1>9. n > 0 => ids # <<>>
    BY <1>1, LenProperties
  <1>. QED
    BY <1>4, <1>5, <1>6, <1>8, <1>9 DEF LoadingCut, LoadingKilled

LEMMA CleaningKilledType ==
  ASSUME TypeOK, CleaningKilled
  PROVE  TypeOK' /\ Lost
  <1>. DEFINE swept(known) == cleanUpUnknownsFromRoot(zone, known)
              some(left, known) == [i \in Names |-> IF i \in left THEN zone[i] ELSE swept(known)[i]]
  <1>1. PICK left \in SUBSET Names :
          \E known : Lose(some(left, known))
    BY DEF CleaningKilled
  <1>2. PICK known : Lose(some(left, known))
    BY <1>1
  <1>3. Follows(swept(known), zone) /\ Follows(zone, zone)
    BY Types, CleanUpType, FollowsReflexive
  <1>. HIDE DEF swept
  <1>4. Follows(some(left, known), zone)
    BY <1>3 DEF Follows, Zones
  <1>. HIDE DEF some
  <1>5. reply' \in [call : Calls, id : Names \cup {NoZone}, answer : Answers]
    BY AnswerType DEF CleaningKilled, Calls
  <1>. QED
    BY <1>2, <1>4, <1>5, LoseType, FollowsRemains DEF CleaningKilled, Lost, TypeOK, disk

-----------------------------------------------------------------------------
(* createZone.                                                             *)

\* Zone id is given rows, with no VT or with a free one, and nothing happens to
\* the others; it is listed in memory, in the database, in both or in neither.
Created(id) ==
  /\ phase = "running" /\ ~Known(id) /\ UNCHANGED <<phase, mActiveZoneId>>
  /\ zone' \in Zones /\ \A j \in Names \ {id} : zone'[j] = zone[j]
  /\ zone[id].saved # "none" => zone'[id].saved # "none"
  /\ zone'[id].vt \in {zone[id].vt, NoVT} \cup freeVTs
  /\ id \in ToSet(mZones') => Noted(zone'[id])
  /\ "image" \notin Faults =>
       /\ Left(zone'[id]) => Left(zone[id]) \/ id \in ToSet(mZones')
       /\ Tidy(zone[id]) => Tidy(zone'[id])
  /\ LET listed == [mDynamicConfig EXCEPT !.zoneIds = Append(@, id)]
         made == [listed EXCEPT !.defaultId = defaultFor(Append(mZones, id), @)]
     IN  \/ UNCHANGED <<mZones, mDynamicConfig, savedConfig, enabled>>
         \/ /\ "file" \in Faults /\ mZones = <<>> /\ mZones' = <<id>>
            /\ UNCHANGED <<mDynamicConfig, savedConfig, enabled>>
         \/ /\ mZones' = Append(mZones, id) /\ enabled' = (enabled \/ mZones = <<>>)
            /\ zone'[id].vt \in {NoVT} \cup freeVTs
            /\ zone'[id].saved # "none"
            /\ mDynamicConfig' \in {listed, made}
            /\ savedConfig' \in {savedConfig, listed, made}
            /\ "db" \notin Faults => mDynamicConfig' = made /\ savedConfig' = made

\* The process was killed in createZone.
CreationCut(id) ==
  /\ Gone /\ phase = "running" /\ ~Known(id)
  /\ zone' \in Zones
  /\ \A j \in Names \ {id} : Lasts(zone'[j], zone[j]) /\ (Left(zone'[j]) => Left(zone[j]))
  /\ zone[id].saved # "none" => zone'[id].saved # "none"
  /\ zone'[id].lxc = zone[id].lxc
  /\ zone'[id].vt \in {zone[id].vt, NoVT} \cup freeVTs
  /\ enabled' \in {enabled, enabled \/ mZones = <<>>}
  /\ \/ UNCHANGED savedConfig
     \/ /\ savedConfig' = [mDynamicConfig EXCEPT !.zoneIds = Append(@, id)]
        /\ enabled' = (enabled \/ mZones = <<>>)
        /\ zone'[id].vt \in {NoVT} \cup freeVTs
        /\ zone'[id].saved # "none" /\ Tidy(zone'[id])

LEMMA NewRowsType ==
  ASSUME TypeOK, NEW id \in Names, NEW template, ~vtExhausted(id, template)
  PROVE  LET new == newRows(id, template)
         IN  /\ Lasts(new, [zone[id] EXCEPT !.vt = new.vt]) /\ new.vt \in {NoVT} \cup freeVTs
             /\ new.saved # "none"
             /\ new.dir = zone[id].dir /\ new.defined = zone[id].defined /\ new.lxc = zone[id].lxc
  <1>. DEFINE vt == IF wantsVT(id, template) /\ AvailableVTs # {} THEN Min(freeVTs) ELSE NoVT
  <1>1. freeVTs \in SUBSET Nat /\ freeVTs \subseteq AvailableVTs
    BY VTsAssumption DEF freeVTs
  <1>2. vt \in {NoVT} \cup freeVTs
    BY <1>1, MinOfNats DEF vtExhausted
  <1>3. vt \in VTs
    BY <1>1, <1>2 DEF VTs
  <1>4. newRows(id, template) =
          [zone[id] EXCEPT !.saved = IF @ = "none" THEN "stopped" ELSE @, !.vt = vt]
    BY DEF newRows
  <1>5. zone[id] \in ZoneSpace(VTs)
    BY Types
  <1>. HIDE DEF vt
  <1>6. newRows(id, template).vt = vt
    BY <1>4, <1>5 DEF ZoneSpace
  <1>7. newRows(id, template) \in ZoneSpace(VTs) /\ newRows(id, template).saved # "none"
    BY <1>3, <1>4, <1>5 DEF ZoneSpace, Requests
  <1>8. LET new == newRows(id, template)
        IN  new.dir = zone[id].dir /\ new.defined = zone[id].defined /\ new.lxc = zone[id].lxc
    BY <1>4, <1>5 DEF ZoneSpace
  <1>. QED
    BY <1>2, <1>5, <1>6, <1>7, <1>8 DEF Lasts, Tidy, ZoneSpace

\* createZone that fails: the zone it leaves behind, and the list.
LEMMA CreateFailsType ==
  ASSUME TypeOK, phase = "running", NEW id \in Names, ~Known(id), NEW z \in ZoneSpace(VTs),
         zone[id].saved # "none" => z.saved # "none",
         z.vt \in {zone[id].vt, NoVT} \cup freeVTs,
         "image" \notin Faults => (Left(z) => Left(zone[id])) /\ Tidy(z),
         CreateFails(id, z), UNCHANGED <<mDynamicConfig, disk>>,
         \/ UNCHANGED mZones
         \/ /\ "file" \in Faults /\ mZones = <<>> /\ mZones' = Append(mZones, id)
            /\ Noted(z)
  PROVE  TypeOK' /\ Created(id)
  <1>1. reply' \in [call : Calls, id : Names \cup {NoZone}, answer : Answers]
    BY DEF CreateFails, Answer, Calls, Answers
  <1>2. zone' \in Zones /\ zone'[id] = z /\ \A j \in Names \ {id} : zone'[j] = zone[j]
    BY Types DEF CreateFails, Zones
  <1>3. mZones' \in Seq(Names)
    BY AppendProperties DEF TypeOK
  <1>4. TypeOK'
    BY <1>1, <1>2, <1>3 DEF TypeOK, CreateFails, disk, Zones
  <1>5. Append(<<>>, id) = <<id>>
    OBVIOUS
  <1>6. id \in ToSet(mZones') => Noted(zone'[id])
    BY <1>2 DEF Known
  <1>8. "image" \notin Faults => (Left(zone'[id]) => Left(zone[id])) /\ Tidy(zone'[id])
    BY <1>2
  <1>7. Created(id)
    BY <1>2, <1>5, <1>6, <1>8 DEF Created, CreateFails, disk
  <1>. QED
    BY <1>4, <1>7

\* One of the zones changed, and the process is gone.
LEMMA GoneWithOne ==
  ASSUME TypeOK, "kill" \in Faults, NEW id \in Names, NEW y \in ZoneSpace(VTs),
         Lose([zone EXCEPT ![id] = y]), reply' = NoReply, UNCHANGED shownVT,
         savedConfig' \in Config, enabled' \in BOOLEAN
  PROVE  /\ TypeOK' /\ Gone /\ zone' \in Zones
         /\ zone'[id].lxc = y.lxc /\ Lasts(zone'[id], y) /\ (Left(zone'[id]) => Left(y))
         /\ \A j \in Names \ {id} : Lasts(zone'[j], zone[j]) /\ (Left(zone'[j]) => Left(zone[j]))
  <1>. DEFINE zs == [zone EXCEPT ![id] = y]
  <1>1. zs \in Zones /\ zs[id] = y /\ \A j \in Names \ {id} : zs[j] = zone[j]
    BY Types, OneOfZones
  <1>2. Lose(zs)
    OBVIOUS
  <1>. HIDE DEF zs
  <1>. QED
    BY <1>1, <1>2, GoneType

LEMMA CreationKilledType ==
  ASSUME TypeOK, phase = "running", NEW id \in Names, ~Known(id), NEW template,
         CreationKilled(id, template)
  PROVE  TypeOK' /\ CreationCut(id)
  <1>. DEFINE new == newRows(id, template)
              listed == [mDynamicConfig EXCEPT !.zoneIds = Append(@, id)]
  <1>1. ~vtExhausted(id, template) =>
          /\ new \in ZoneSpace(VTs) /\ new.saved # "none" /\ new.vt \in {NoVT} \cup freeVTs
          /\ new.lxc = zone[id].lxc
    BY NewRowsType DEF Lasts
  <1>2. \A z \in ZoneSpace(VTs) : LET c == [z EXCEPT !.dir = CopiesImage]
                                 IN  /\ c \in ZoneSpace(VTs) /\ c.vt = z.vt
                                     /\ c.saved = z.saved /\ c.lxc = z.lxc
    BY ConfigAssumption DEF ZoneSpace
  <1>3. LET c == constructed(new)
        IN  new \in ZoneSpace(VTs) => /\ c \in ZoneSpace(VTs) /\ c.vt = new.vt
                                      /\ c.saved = new.saved /\ c.lxc = new.lxc /\ Tidy(c)
    BY DEF constructed, Tidy, ZoneSpace, Requests
  <1>4. zone[id] \in ZoneSpace(VTs) /\ mDynamicConfig \in Config /\ savedConfig \in Config
        /\ enabled \in BOOLEAN
    BY Types DEF TypeOK
  <1>5. listed \in Config
    BY <1>4, AppendProperties DEF Config
  <1>6. "kill" \in Faults /\ reply' = NoReply /\ UNCHANGED shownVT
    BY DEF CreationKilled
  <1>. HIDE DEF listed, new
  <1>7. \/ /\ UNCHANGED disk
           /\ \E z \in {zone[id], new} :
                /\ z = zone[id] \/ ~vtExhausted(id, template)
                /\ Lose([zone EXCEPT ![id] = [z EXCEPT !.dir = CopiesImage]])
        \/ /\ ~vtExhausted(id, template)
           /\ Lose([zone EXCEPT ![id] = constructed(new)])
           /\ \/ UNCHANGED disk
              \/ enabled' = (enabled \/ mZones = <<>>) /\ savedConfig' \in {savedConfig, listed}
    BY DEF CreationKilled, new, listed
  <1>8. \E y \in ZoneSpace(VTs) :
          /\ Lose([zone EXCEPT ![id] = y])
          /\ zone[id].saved # "none" => y.saved # "none"
          /\ y.lxc = zone[id].lxc /\ y.vt \in {zone[id].vt, NoVT} \cup freeVTs
          /\ enabled' \in {enabled, enabled \/ mZones = <<>>}
          /\ \/ UNCHANGED savedConfig
             \/ /\ savedConfig' = listed /\ enabled' = (enabled \/ mZones = <<>>)
                /\ y.vt \in {NoVT} \cup freeVTs /\ y.saved # "none" /\ Tidy(y)
    <2>1. CASE UNCHANGED disk /\ \E z \in {zone[id], new} :
                 /\ z = zone[id] \/ ~vtExhausted(id, template)
                 /\ Lose([zone EXCEPT ![id] = [z EXCEPT !.dir = CopiesImage]])
      <3>1. PICK z \in ZoneSpace(VTs) :
              /\ Lose([zone EXCEPT ![id] = [z EXCEPT !.dir = CopiesImage]])
              /\ zone[id].saved # "none" => z.saved # "none"
              /\ z.lxc = zone[id].lxc /\ z.vt \in {zone[id].vt, NoVT} \cup freeVTs
        BY <1>1, <1>4, <2>1
      <3>2. savedConfig' = savedConfig /\ enabled' = enabled
        BY <2>1 DEF disk
      <3>. DEFINE y == [z EXCEPT !.dir = CopiesImage]
      <3>3. y \in ZoneSpace(VTs) /\ y.vt = z.vt /\ y.saved = z.saved /\ y.lxc = z.lxc
        BY <1>2
      <3>4. Lose([zone EXCEPT ![id] = y])
        BY <3>1
      <3>. HIDE DEF y
      <3>. QED
        BY <3>1, <3>2, <3>3, <3>4
    <2>2. CASE /\ ~vtExhausted(id, template)
               /\ Lose([zone EXCEPT ![id] = constructed(new)])
               /\ \/ UNCHANGED disk
                  \/ enabled' = (enabled \/ mZones = <<>>) /\ savedConfig' \in {savedConfig, listed}
      <3>1. disk' = disk => savedConfig' = savedConfig /\ enabled' = enabled
        BY DEF disk
      <3>. QED
        BY <1>1, <1>3, <2>2, <3>1
    <2>. QED
      BY <1>7, <2>1, <2>2
  <1>9. PICK y \in ZoneSpace(VTs) :
          /\ Lose([zone EXCEPT ![id] = y])
          /\ zone[id].saved # "none" => y.saved # "none"
          /\ y.lxc = zone[id].lxc /\ y.vt \in {zone[id].vt, NoVT} \cup freeVTs
          /\ enabled' \in {enabled, enabled \/ mZones = <<>>}
          /\ \/ UNCHANGED savedConfig
             \/ /\ savedConfig' = listed /\ enabled' = (enabled \/ mZones = <<>>)
                /\ y.vt \in {NoVT} \cup freeVTs /\ y.saved # "none" /\ Tidy(y)
    BY <1>8
  <1>10. savedConfig' \in Config /\ enabled' \in BOOLEAN
    BY <1>4, <1>5, <1>9
  <1>11. /\ TypeOK' /\ Gone /\ zone' \in Zones
         /\ zone'[id].lxc = y.lxc /\ Lasts(zone'[id], y)
         /\ \A j \in Names \ {id} : Lasts(zone'[j], zone[j]) /\ (Left(zone'[j]) => Left(zone[j]))
    BY <1>6, <1>9, <1>10, GoneWithOne
  <1>12. zone'[id].vt = y.vt /\ (y.saved # "none" => zone'[id].saved # "none")
         /\ (Tidy(y) => Tidy(zone'[id]))
    BY <1>11 DEF Lasts
  <1>. QED
    BY <1>9, <1>11, <1>12 DEF CreationCut, listed

LEMMA CreateZoneType ==
  ASSUME TypeOK, NEW id \in Names, NEW template, CreateZone(id, template)
  PROVE  TypeOK' /\ (Kept \/ Created(id) \/ CreationCut(id))
  <1>0. phase = "running" /\ zone[id] \in ZoneSpace(VTs)
    BY Types DEF CreateZone
  <1>. DEFINE new == newRows(id, template)
  <1>1. ~vtExhausted(id, template) =>
          /\ new \in ZoneSpace(VTs) /\ new.saved # "none" /\ new.vt \in {NoVT} \cup freeVTs
          /\ new.lxc = zone[id].lxc
    BY NewRowsType DEF Lasts
  <1>2. \A z \in ZoneSpace(VTs) : /\ withoutDir(z) \in ZoneSpace(VTs)
                                  /\ withoutDir(z).vt = z.vt /\ withoutDir(z).saved = z.saved
                                  /\ Noted(z) => Noted(withoutDir(z))
                                  /\ z.lxc = zone[id].lxc => (Left(withoutDir(z)) => Left(zone[id]))
                                  /\ Tidy(withoutDir(z))
    BY DEF withoutDir, Noted, Left, Tidy, ZoneSpace
  <1>3. \A z \in ZoneSpace(VTs) : /\ constructed(z) \in ZoneSpace(VTs)
                                  /\ constructed(z).vt = z.vt /\ constructed(z).saved = z.saved
                                  /\ constructed(z).lxc = z.lxc /\ Tidy(constructed(z))
                                  /\ z.saved # "none" => Noted(constructed(z))
    BY DEF constructed, Noted, Tidy, ZoneSpace, Requests
  <1>4. CASE Refuse("create", id)
    BY <1>4, RefuseType DEF Calls
  <1>. HIDE DEF new
  <1>5. CASE ~Known(id) /\ Copying(id)
    <2>1. PICK copied \in BOOLEAN : CreateFails(id, [zone[id] EXCEPT !.dir = copied])
      BY <1>5 DEF Copying
    <2>4. "image" \in Faults
      BY <1>5 DEF Copying
    <2>. DEFINE z == [zone[id] EXCEPT !.dir = copied]
    <2>2. z \in ZoneSpace(VTs) /\ z.vt = zone[id].vt /\ z.saved = zone[id].saved
      BY <1>0 DEF ZoneSpace
    <2>. HIDE DEF z
    <2>3. CreateFails(id, z)
      BY <2>1 DEF z
    <2>. QED
      BY <1>0, <1>5, <2>2, <2>3, <2>4, CreateFailsType DEF Copying
  <1>6. CASE ~Known(id) /\ GeneratingConfig(id, template)
    <2>1. PICK rows \in {zone[id], new} :
            /\ rows = zone[id] \/ ~vtExhausted(id, template)
            /\ CreateFails(id, withoutDir(rows))
      BY <1>6 DEF GeneratingConfig, new
    <2>2. /\ rows \in ZoneSpace(VTs)
          /\ zone[id].saved # "none" => rows.saved # "none"
          /\ rows.vt \in {zone[id].vt, NoVT} \cup freeVTs
          /\ rows.lxc = zone[id].lxc
      BY <1>0, <1>1, <2>1
    <2>3. LET z == withoutDir(rows)
          IN  /\ z \in ZoneSpace(VTs)
              /\ (Left(z) => Left(zone[id])) /\ Tidy(z)
              /\ zone[id].saved # "none" => z.saved # "none"
              /\ z.vt \in {zone[id].vt, NoVT} \cup freeVTs
      BY <1>2, <2>2
    <2>. QED
      BY <1>0, <1>6, <2>1, <2>3, CreateFailsType DEF GeneratingConfig
  <1>7. CASE ~Known(id) /\ Inserting(id, template)
    <2>1. /\ new \in ZoneSpace(VTs) /\ new.saved # "none" /\ new.vt \in {NoVT} \cup freeVTs
          /\ new.lxc = zone[id].lxc
      BY <1>1, <1>7 DEF Inserting
    <2>2. \E z \in {withoutDir(new), withoutDir(constructed(new))} :
            CreateFails(id, z) /\ (mZones' = mZones \/ z = withoutDir(constructed(new)))
      BY <1>7 DEF Inserting, new
    <2>3. PICK z \in ZoneSpace(VTs) : /\ CreateFails(id, z)
                                      /\ z.saved # "none" /\ z.vt \in {NoVT} \cup freeVTs
                                      /\ (Left(z) => Left(zone[id])) /\ Tidy(z)
                                      /\ mZones' = mZones \/ Noted(z)
      BY <1>2, <1>3, <2>1, <2>2
    <2>. QED
      BY <1>0, <1>7, <2>3, CreateFailsType DEF Inserting
  <1>8. CASE ~Known(id) /\ Inserted(id, template)
    <2>. DEFINE listed == [mDynamicConfig EXCEPT !.zoneIds = Append(@, id)]
                made == [listed EXCEPT !.defaultId = defaultFor(Append(mZones, id), @)]
    <2>1. /\ new \in ZoneSpace(VTs) /\ new.saved # "none" /\ new.vt \in {NoVT} \cup freeVTs
      BY <1>1, <1>8 DEF Inserted
    <2>2. zone' = [zone EXCEPT ![id] = constructed(new)]
      BY <1>8 DEF Inserted, new
    <2>3. zone' \in Zones /\ zone'[id] = constructed(new) /\ \A j \in Names \ {id} : zone'[j] = zone[j]
      BY <1>3, <2>1, <2>2, Types DEF Zones
    <2>4. /\ mZones' = Append(mZones, id)
          /\ mDynamicConfig' \in {listed, made} /\ savedConfig' \in {savedConfig, listed, made}
          /\ "db" \notin Faults => mDynamicConfig' = made /\ savedConfig' = made
          /\ enabled' = (enabled \/ mZones = <<>>)
          /\ UNCHANGED <<phase, mActiveZoneId, mDetachOnExit, shownVT>>
      BY <1>8 DEF Inserted
    <2>5. reply' \in [call : Calls, id : Names \cup {NoZone}, answer : Answers]
      BY <1>8 DEF Inserted, Answer, Calls, Answers
    <2>6. mZones' \in Seq(Names) /\ mZones' # <<>> /\ mZones'[1] \in Names
      BY <2>4, AppendProperties, ElementOfSeq DEF TypeOK
    <2>7. listed \in Config
      BY AppendProperties DEF TypeOK, Config
    <2>8. made \in Config
      BY <2>4, <2>6, <2>7 DEF defaultFor, Config
    <2>. HIDE DEF listed, made
    <2>9. TypeOK'
      BY <2>3, <2>4, <2>5, <2>6, <2>7, <2>8 DEF TypeOK, Zones
    <2>10. id \in ToSet(mZones') /\ Tidy(zone'[id])
      BY <1>3, <2>1, <2>3, <2>4, AppendKeeps DEF TypeOK
    <2>11. Created(id)
      BY <1>0, <1>3, <1>8, <2>1, <2>3, <2>4, <2>10 DEF Created, listed, made
    <2>. QED
      BY <2>9, <2>11
  <1>9. CASE ~Known(id) /\ CreationKilled(id, template)
    BY <1>0, <1>9, CreationKilledType
  <1>. QED
    BY <1>4, <1>5, <1>6, <1>7, <1>8, <1>9 DEF CreateZone

-----------------------------------------------------------------------------
(* destroyZone.                                                            *)

\* The elements of w are elements of s, at places of their own.
Within(w, s) ==
  \E k \in [DOMAIN w -> DOMAIN s] :
    /\ \A n \in DOMAIN w : w[n] = s[k[n]]
    /\ \A m, n \in DOMAIN w : m # n => k[m] # k[n]

\* Without removes one element, and only that.
LEMMA WithoutElements ==
  ASSUME NEW S, NEW s \in Seq(S), NEW e
  PROVE  LET w == Without(s, e)
         IN  /\ w \in Seq(S)
             /\ Within(w, s)
             /\ \A j \in DOMAIN s : s[j] # e => s[j] \in ToSet(w)
             /\ e \in ToSet(s) => Len(w) = Len(s) - 1
             /\ (\A m, n \in DOMAIN s : m # n => s[m] # s[n]) => e \notin ToSet(w)
  <1>. DEFINE w == Without(s, e)
  <1>1. Len(s) \in Nat /\ DOMAIN s = 1..Len(s)
    BY LenProperties
  <1>2. CASE e \notin ToSet(s)
    <2>1. w = s
      BY <1>2 DEF Without
    <2>2. [n \in DOMAIN s |-> n] \in [DOMAIN s -> DOMAIN s]
      OBVIOUS
    <2>3. Within(s, s)
      BY <2>2 DEF Within
    <2>. QED
      BY <1>2, <2>1, <2>3, ToSetOfSeq
  <1>3. CASE e \in ToSet(s)
    <2>. DEFINE i == CHOOSE n \in DOMAIN s : s[n] = e
                left == SubSeq(s, 1, i - 1)
                right == SubSeq(s, i + 1, Len(s))
                k == [n \in 1..Len(s) - 1 |-> IF n < i THEN n ELSE n + 1]
    <2>1. i \in 1..Len(s) /\ s[i] = e
      BY <1>1, <1>3, ToSetOfSeq
    <2>2. w = left \o right
      BY <1>3 DEF Without, RemoveAt
    <2>. HIDE DEF i
    <2>3. /\ left \in Seq(S) /\ Len(left) = i - 1
          /\ \A n \in 1..i - 1 : left[n] = s[n]
      <3>1. \A n \in 1..i - 1 : s[n] \in S
        BY <1>1, <2>1, ElementOfSeq
      <3>2. 1 \in Int /\ i - 1 \in Int
        BY <2>1
      <3>3. /\ left \in Seq(S) /\ Len(left) = IF 1 <= i - 1 THEN i - 1 - 1 + 1 ELSE 0
            /\ \A n \in 1..(i - 1) - 1 + 1 : left[n] = s[1 + n - 1]
        BY <3>1, <3>2, SubSeqProperties
      <3>. QED
        BY <2>1, <3>3
    <2>4. /\ right \in Seq(S) /\ Len(right) = Len(s) - i
          /\ \A n \in 1..Len(s) - i : right[n] = s[i + n]
      <3>1. \A n \in i + 1..Len(s) : s[n] \in S
        BY <1>1, <2>1, ElementOfSeq
      <3>2. i + 1 \in Int /\ Len(s) \in Int
        BY <1>1, <2>1
      <3>3. /\ right \in Seq(S)
            /\ Len(right) = IF i + 1 <= Len(s) THEN Len(s) - (i + 1) + 1 ELSE 0
            /\ \A n \in 1..Len(s) - (i + 1) + 1 : right[n] = s[i + 1 + n - 1]
        BY <3>1, <3>2, SubSeqProperties
      <3>. HIDE DEF w, left, right, k
      <3>4. \A l \in Nat : \A j \in 1..l : l - (j + 1) + 1 = l - j /\ (j + 1 <= l \/ l - j = 0)
        OBVIOUS
      <3>5. Len(s) - (i + 1) + 1 = Len(s) - i /\ (i + 1 <= Len(s) \/ Len(s) - i = 0)
        BY <1>1, <2>1, <3>4
      <3>6. Len(right) = Len(s) - i
        BY <3>3, <3>5
      <3>7. ASSUME NEW n \in 1..Len(s) - i PROVE right[n] = s[i + n]
        <4>1. right[n] = s[i + 1 + n - 1]
          BY <3>3, <3>5
        <4>2. i + 1 + n - 1 = i + n
          BY <2>1
        <4>. QED
          BY <4>1, <4>2
      <3>. QED
        BY <3>3, <3>6, <3>7
    <2>. HIDE DEF left, right, w
    <2>5. /\ w \in Seq(S) /\ Len(w) = Len(left) + Len(right)
          /\ \A n \in 1..Len(left) + Len(right) :
               w[n] = IF n <= Len(left) THEN left[n] ELSE right[n - Len(left)]
      BY <2>2, <2>3, <2>4, ConcatProperties
    <2>6. Len(w) = Len(s) - 1
      BY <1>1, <2>1, <2>3, <2>4, <2>5
    <2>7. \A n \in 1..Len(s) - 1 : w[n] = s[k[n]]
      <3>. SUFFICES ASSUME NEW n \in 1..Len(s) - 1 PROVE w[n] = s[k[n]]
        OBVIOUS
      <3>0. /\ n \in 1..Len(left) + Len(right)
            /\ Len(left) = i - 1 /\ Len(right) = Len(s) - i
        BY <1>1, <2>1, <2>3, <2>4
      <3>1. CASE n < i
        <4>1. n <= Len(left) /\ n \in 1..i - 1 /\ k[n] = n
          BY <1>1, <2>1, <3>0, <3>1
        <4>. QED
          BY <2>3, <2>5, <3>0, <4>1
      <3>2. CASE ~(n < i)
        <4>1. /\ ~(n <= Len(left)) /\ n - Len(left) \in 1..Len(s) - i
              /\ k[n] = n + 1 /\ i + (n - Len(left)) = n + 1
          BY <1>1, <2>1, <3>0, <3>2
        <4>. QED
          BY <2>4, <2>5, <3>0, <4>1
      <3>. QED
        BY <3>1, <3>2
    <2>8. DOMAIN w = 1..Len(s) - 1
      BY <2>5, <2>6, LenProperties
    <2>9. /\ k \in [DOMAIN w -> DOMAIN s]
          /\ \A m, n \in DOMAIN w : m # n => k[m] # k[n]
          /\ \A n \in DOMAIN w : k[n] # i
      BY <1>1, <2>1, <2>8
    <2>10. \A j \in DOMAIN s : j # i => \E n \in DOMAIN w : k[n] = j
      <3>. SUFFICES ASSUME NEW j \in DOMAIN s, j # i PROVE \E n \in DOMAIN w : k[n] = j
        OBVIOUS
      <3>1. CASE j < i
        BY <1>1, <2>1, <2>8, <3>1
      <3>2. CASE j > i
        <4>1. j - 1 \in DOMAIN w
          BY <1>1, <2>1, <2>8, <3>2
        <4>2. k[j - 1] = j
          BY <1>1, <2>1, <2>8, <3>2, <4>1
        <4>. QED
          BY <4>1, <4>2
      <3>. QED
        BY <1>1, <2>1, <3>1, <3>2
    <2>. HIDE DEF k
    <2>11. Within(w, s)
      BY <2>7, <2>8, <2>9 DEF Within
    <2>12. ASSUME NEW j \in DOMAIN s, s[j] # e PROVE s[j] \in ToSet(w)
      <3>1. PICK n \in DOMAIN w : k[n] = j
        BY <2>1, <2>10, <2>12
      <3>2. w[n] = s[j]
        BY <2>7, <2>8, <3>1
      <3>. QED
        BY <2>5, <3>2, ToSetOfSeq
    <2>13. ASSUME \A m, n \in DOMAIN s : m # n => s[m] # s[n] PROVE e \notin ToSet(w)
      <3>1. \A n \in DOMAIN w : k[n] \in DOMAIN s /\ k[n] # i /\ i \in DOMAIN s
        BY <1>1, <2>1, <2>9
      <3>2. \A n \in DOMAIN w : w[n] # e
        BY <2>1, <2>7, <2>8, <2>13, <3>1
      <3>. QED
        BY <2>5, <3>2, ToSetOfSeq
    <2>. QED
      BY <2>5, <2>6, <2>11, <2>12, <2>13 DEF w
  <1>. QED
    BY <1>2, <1>3

\* Zone id is off the list, in memory and in the database unless that failed,
\* and the focus was looked at again.
Destroyed(id) ==
  /\ phase = "running" /\ Known(id) /\ Remains(zone', zone) /\ Rests(zone', zone)
  /\ "lxc" \notin Faults /\ Tidy(zone[id]) => ~Left(zone'[id])
  /\ phase' = phase =>
       \A j \in Names \ {id} : "db" \notin Faults /\ Noted(zone[j]) => Noted(zone'[j])
  /\ "file" \notin Faults => enabled' = (enabled /\ Without(mZones, id) # <<>>)
  /\ LET listed == [mDynamicConfig EXCEPT !.zoneIds = Without(@, id)]
         zones  == Without(mZones, id)
         made   == [listed EXCEPT !.defaultId = defaultFor(zones, @)]
     IN  \/ /\ "db" \in Faults /\ phase' = phase /\ mZones' = zones
            /\ mActiveZoneId' = mActiveZoneId
            /\ mDynamicConfig' \in {listed, made} /\ savedConfig' \in {savedConfig, listed}
         \/ /\ savedConfig' = made
            /\ phase' = "down" /\ mZones' = <<>> /\ mActiveZoneId' = NoZone
            /\ mDynamicConfig' = NoConfig
         \/ /\ savedConfig' = made
            /\ phase' = phase /\ mZones' = zones /\ mDynamicConfig' = made
            /\ \E zs \in Zones, d \in Names \cup {NoZone} :
               \E f \in refocus(zs, zones, d) : f.result \notin Deaths /\ mActiveZoneId' = f.active

\* The process was killed in destroyZone before the default was saved.
DestructionCut(id) ==
  /\ Gone /\ phase = "running" /\ Known(id) /\ Remains(zone', zone) /\ Rests(zone', zone)
  /\ \/ /\ UNCHANGED savedConfig
        /\ enabled' \in {enabled, enabled /\ Without(mZones, id) # <<>>}
     \/ /\ savedConfig' = [mDynamicConfig EXCEPT !.zoneIds = Without(@, id)]
        /\ "file" \notin Faults => enabled' = (enabled /\ Without(mZones, id) # <<>>)
        /\ "lxc" \notin Faults /\ Tidy(zone[id]) => ~Left(zone'[id])

LEMMA DestroyKnownType ==
  ASSUME TypeOK, phase = "running", NEW id \in Names, Known(id), NEW z \in destroyed(zone[id]),
         NEW f \in refocus([zone EXCEPT ![id] = z], Without(mZones, id),
                           defaultFor(Without(mZones, id), mDynamicConfig.defaultId)),
         DestroyKnown(id, z, f)
  PROVE  TypeOK' /\ Destroyed(id)
  <1>. DEFINE zones == Without(mZones, id)
              listed == [mDynamicConfig EXCEPT !.zoneIds = Without(@, id)]
              d == defaultFor(zones, mDynamicConfig.defaultId)
              made == [listed EXCEPT !.defaultId = defaultFor(zones, @)]
              zs == [zone EXCEPT ![id] = z]
  <1>1. zones \in Seq(Names)
    BY Types, WithoutElements
  <1>2. mDynamicConfig \in Config /\ savedConfig \in Config
    BY DEF TypeOK
  <1>3. Without(mDynamicConfig.zoneIds, id) \in Seq(Names)
    BY <1>2, WithoutElements DEF Config
  <1>4. listed \in Config /\ listed.defaultId = mDynamicConfig.defaultId
    BY <1>2, <1>3 DEF Config
  <1>5. d \in Names \cup {NoZone}
    <2>1. zones # <<>> => zones[1] \in Names
      BY <1>1, ToSetOfSeq
    <2>. HIDE DEF zones
    <2>. QED
      BY <1>2, <2>1 DEF defaultFor, Config
  <1>6. made \in Config
    <2>1. made = [listed EXCEPT !.defaultId = d]
      BY <1>4
    <2>. HIDE DEF made, listed, d
    <2>. QED
      BY <1>4, <1>5, <2>1 DEF Config
  <1>7. /\ zs \in Zones /\ Remains(zs, zone) /\ Rests(zs, zone)
        /\ \A j \in Names \ {id} : zs[j] = zone[j]
        /\ "lxc" \notin Faults /\ Tidy(zone[id]) => ~Left(zs[id])
    <2>1. /\ Lasts(z, zone[id]) /\ (Left(z) => Left(zone[id]))
          /\ "lxc" \notin Faults /\ Tidy(zone[id]) => ~Left(z)
      BY Types, OtherOutcomes
    <2>2. Remains(zs, zone) /\ Rests(zs, zone)
      BY <2>1, Types, RemainsExcept
    <2>3. zs[id] = z /\ \A j \in Names \ {id} : zs[j] = zone[j]
      BY <2>1, Types, OneOfZones DEF Lasts
    <2>. QED
      BY <2>1, <2>2, <2>3 DEF Remains
  <1>. HIDE DEF zs
  <1>8. f \in Foci(zs, zones)
    <2>1. f \in refocus(zs, zones, d)
      BY DEF zs
    <2>. HIDE DEF zones, d
    <2>. QED
      BY <1>1, <1>7, <2>1, Types, RefocusOutcomes
  <1>9. /\ f.zone \in Zones /\ Remains(f.zone, zone) /\ Rests(f.zone, zone)
        /\ "lxc" \notin Faults /\ Tidy(zone[id]) => ~Left(f.zone[id])
        /\ f.active \in Names \cup {NoZone}
        /\ f.shown \in VTs \cup {HostVT}
        /\ \A j \in Names \ {id} : "db" \notin Faults /\ Noted(zone[j]) => Noted(f.zone[j])
    <2>1. f.zone \in Zones /\ Follows(f.zone, zs)
      BY <1>8 DEF Foci
    <2>2. Remains(f.zone, zone)
      BY <1>7, <2>1, FollowsRemains, RemainsTransitive
    <2>4. Rests(f.zone, zs)
      BY <2>1, FollowsRemains
    <2>5. id \in Names /\ Rests(f.zone, zone) /\ ("lxc" \notin Faults /\ Tidy(zone[id]) => ~Left(f.zone[id]))
      BY <1>7, <2>4 DEF Rests
    <2>3. \A j \in Names \ {id} : "db" \notin Faults /\ Noted(zone[j]) => Noted(f.zone[j])
      BY <1>7, <2>1 DEF Follows, Keeps
    <2>. QED
      BY <1>8, <2>1, <2>2, <2>3, <2>5 DEF Foci
  <1>10. enabled' \in BOOLEAN /\ ("file" \notin Faults => enabled' = (enabled /\ zones # <<>>))
    BY DEF DestroyKnown, enabledWithout, May, TypeOK
  <1>11. f \in refocus(zs, zones, d)
    BY DEF zs
  <1>. HIDE DEF zones, listed, made, d
  <1>12. \/ /\ "db" \in Faults
            /\ zone' = zs /\ mActiveZoneId' = mActiveZoneId /\ shownVT' = shownVT
            /\ mZones' = zones /\ UNCHANGED <<phase, mDetachOnExit>>
            /\ Answer("destroy", id, "error")
            /\ mDynamicConfig' \in {listed, made} /\ savedConfig' \in {savedConfig, listed}
         \/ savedConfig' = made /\ Lose(f.zone) /\ shownVT' = f.shown
            /\ LastAnswer("destroy", id, f.result)
         \/ /\ savedConfig' = made /\ f.result \notin Deaths /\ mDynamicConfig' = made
            /\ zone' = f.zone /\ mActiveZoneId' = f.active /\ shownVT' = f.shown
            /\ mZones' = zones /\ UNCHANGED <<phase, mDetachOnExit>>
            /\ AnswerTo("destroy", id, f.result, Errors)
    BY DEF DestroyKnown, zones, listed, made, zs
  <1>13. CASE /\ "db" \in Faults
              /\ zone' = zs /\ mActiveZoneId' = mActiveZoneId /\ shownVT' = shownVT
              /\ mZones' = zones /\ UNCHANGED <<phase, mDetachOnExit>>
              /\ Answer("destroy", id, "error")
              /\ mDynamicConfig' \in {listed, made} /\ savedConfig' \in {savedConfig, listed}
    <2>1. reply' \in [call : Calls, id : Names \cup {NoZone}, answer : Answers]
      BY <1>13 DEF Answer, Calls, Answers
    <2>2. TypeOK'
      BY <1>1, <1>2, <1>4, <1>6, <1>7, <1>10, <1>13, <2>1 DEF TypeOK, Zones
    <2>3. Destroyed(id)
      BY <1>7, <1>10, <1>13 DEF Destroyed, zones, listed, made
    <2>. QED
      BY <2>2, <2>3
  <1>14. CASE savedConfig' = made /\ Lose(f.zone) /\ shownVT' = f.shown
              /\ LastAnswer("destroy", id, f.result)
    <2>0. reply' \in [call : Calls, id : Names \cup {NoZone}, answer : Answers]
      BY <1>14, AnswerType DEF Calls
    <2>1. /\ TypeOK' /\ Remains(zone', zone) /\ Rests(zone', zone)
          /\ phase' = "down" /\ mZones' = <<>> /\ mActiveZoneId' = NoZone
          /\ mDynamicConfig' = NoConfig
      BY <1>6, <1>9, <1>10, <1>14, <2>0, LoseType
    <2>2. zone'[id] = forget(f.zone[id])
      BY <1>14 DEF Lose
    <2>3. Left(zone'[id]) => Left(f.zone[id])
      BY <1>9, <2>2, OtherOutcomes DEF Zones
    <2>. QED
      BY <1>9, <1>10, <1>14, <2>1, <2>3 DEF Destroyed, zones, listed, made
  <1>15. CASE /\ savedConfig' = made /\ f.result \notin Deaths /\ mDynamicConfig' = made
              /\ zone' = f.zone /\ mActiveZoneId' = f.active /\ shownVT' = f.shown
              /\ mZones' = zones /\ UNCHANGED <<phase, mDetachOnExit>>
              /\ AnswerTo("destroy", id, f.result, Errors)
    <2>1. reply' \in [call : Calls, id : Names \cup {NoZone}, answer : Answers]
      BY <1>15 DEF AnswerTo, Answer, Calls, Answers
    <2>2. TypeOK'
      BY <1>1, <1>6, <1>9, <1>10, <1>15, <2>1 DEF TypeOK, Zones
    <2>3. Destroyed(id)
      BY <1>5, <1>7, <1>9, <1>10, <1>11, <1>15 DEF Destroyed, zones, listed, made
    <2>. QED
      BY <2>2, <2>3
  <1>. QED
    BY <1>12, <1>13, <1>14, <1>15

LEMMA DestructionKilledType ==
  ASSUME TypeOK, phase = "running", NEW id \in Names, Known(id), DestructionKilled(id)
  PROVE  TypeOK' /\ DestructionCut(id)
  <1>. DEFINE listed == [mDynamicConfig EXCEPT !.zoneIds = Without(@, id)]
              without == enabled /\ Without(mZones, id) # <<>>
  <1>1. listed \in Config
    <2>1. mDynamicConfig \in Config
      BY DEF TypeOK
    <2>2. Without(mDynamicConfig.zoneIds, id) \in Seq(Names)
      BY <2>1, WithoutElements DEF Config
    <2>. QED
      BY <2>1, <2>2 DEF Config
  <1>2. /\ enabled \in BOOLEAN /\ savedConfig \in Config
        /\ "kill" \in Faults /\ reply' = NoReply /\ UNCHANGED shownVT
    BY DEF TypeOK, DestructionKilled
  <1>3. \A e \in enabledWithout(id) : e \in {enabled, without} /\ ("file" \notin Faults => e = without)
    BY <1>2 DEF enabledWithout, May
  <1>. HIDE DEF listed, without
  <1>4. PICK z \in halted(zone[id]) \cup destroyed(zone[id]) :
          /\ Lose([zone EXCEPT ![id] = z])
          /\ \/ enabled' = enabled /\ savedConfig' = savedConfig
             \/ /\ z \in destroyed(zone[id]) /\ enabled' \in enabledWithout(id)
                /\ savedConfig' \in {savedConfig, listed}
    BY DEF DestructionKilled, disk, listed
  <1>5. /\ Lasts(z, zone[id]) /\ (Left(z) => Left(zone[id]))
        /\ z \in destroyed(zone[id]) /\ "lxc" \notin Faults /\ Tidy(zone[id]) => ~Left(z)
    BY <1>4, Types, OtherOutcomes
  <1>6. enabled' \in BOOLEAN /\ savedConfig' \in Config
    BY <1>1, <1>2, <1>3, <1>4 DEF without
  <1>7. z \in ZoneSpace(VTs)
    BY <1>5 DEF Lasts
  <1>8. /\ TypeOK' /\ Gone /\ zone' \in Zones
        /\ Lasts(zone'[id], z) /\ (Left(zone'[id]) => Left(z))
        /\ \A j \in Names \ {id} : Lasts(zone'[j], zone[j]) /\ (Left(zone'[j]) => Left(zone[j]))
    BY <1>2, <1>4, <1>6, <1>7, GoneWithOne
  <1>9. Lasts(zone'[id], zone[id])
    BY <1>5, <1>8 DEF Lasts
  <1>10. Remains(zone', zone) /\ Rests(zone', zone)
    BY <1>5, <1>8, <1>9 DEF Remains, Rests
  <1>11. \/ savedConfig' = savedConfig /\ enabled' \in {enabled, without}
         \/ /\ savedConfig' = listed /\ z \in destroyed(zone[id])
            /\ "file" \notin Faults => enabled' = without
    BY <1>3, <1>4
  <1>. QED
    BY <1>5, <1>8, <1>10, <1>11 DEF DestructionCut, listed, without

LEMMA DestroyZoneType ==
  ASSUME TypeOK, NEW id \in Names, DestroyZone(id)
  PROVE  TypeOK' /\ (Kept \/ Destroyed(id) \/ DestructionCut(id))
  <1>1. ASSUME NEW z \in destroyed(zone[id]),
               NEW f \in refocus([zone EXCEPT ![id] = z], Without(mZones, id),
                                 defaultFor(Without(mZones, id), mDynamicConfig.defaultId)),
               Known(id), phase = "running", DestroyKnown(id, z, f)
        PROVE  TypeOK' /\ Destroyed(id)
    BY <1>1, DestroyKnownType
  <1>. QED
    BY <1>1, RefuseType, DestructionKilledType DEF DestroyZone, Calls

-----------------------------------------------------------------------------
(* Type correctness, and the shape of every step.                          *)

LEMMA InitType == Init => TypeOK
  <1>. SUFFICES ASSUME Init PROVE TypeOK
    OBVIOUS
  <1>1. zone \in [Names -> ZoneSpace(VTs)]
    BY DEF Init, ZoneSpace, LxcStates, Levels, Requests, VTs
  <1>2. reply \in [call : Calls, id : Names \cup {NoZone}, answer : Answers]
    BY DEF Init, NoReply, Calls, Answers
  <1>. QED
    BY <1>1, <1>2, EmptySeq, NoConfigType DEF Init, TypeOK

\* A step keeps the list of zones, loses the process, boots, creates or
\* destroys, or is killed while it does one of these.
LEMMA StepShape ==
  ASSUME TypeOK, [Next]_vars
  PROVE  /\ TypeOK'
         /\ \/ Kept \/ Lost \/ Booted \/ LoadingCut
            \/ \E id \in Names : \/ Created(id) \/ Destroyed(id)
                                 \/ CreationCut(id) \/ DestructionCut(id)
  <1>1. CASE UNCHANGED vars
    <2>1. Follows(zone, zone)
      BY Types, FollowsReflexive
    <2>. QED
      BY <1>1, <2>1 DEF vars, memory, disk, TypeOK, Kept
  <1>2. CASE Boot
    BY <1>2, BootType
  <1>3. CASE setZonesDetachOnExit
    BY <1>3, setZonesDetachOnExitType
  <1>4. CASE Stop
    BY <1>4, StopType
  <1>5. CASE Exit
    BY <1>5, ExitType
  <1>6. CASE Crash
    BY <1>6, CrashType
  <1>7. CASE SwitchToDefault
    BY <1>7, SwitchToDefaultType
  <1>8. CASE SwitchingSequence
    BY <1>8, SwitchingSequenceType
  <1>9. CASE CleanUpZonesRoot
    BY <1>9, CleanUpZonesRootType
  <1>10. CASE RestoreAll
    BY <1>10, RestoreAllType
  <1>11. ASSUME NEW id \in Names, NEW template \in Templates, CreateZone(id, template)
         PROVE  TypeOK' /\ (Kept \/ Created(id) \/ CreationCut(id))
    BY <1>11, CreateZoneType
  <1>12. ASSUME NEW id \in Names, DestroyZone(id)
         PROVE  TypeOK' /\ (Kept \/ Destroyed(id) \/ DestructionCut(id))
    BY <1>12, DestroyZoneType
  <1>13. ASSUME NEW id \in Names,
                StartZone(id) \/ ShutdownZone(id) \/ LockZone(id) \/ UnlockZone(id)
                  \/ SetActiveZone(id) \/ ZoneDies(id) \/ ZonePowersOff(id)
         PROVE  TypeOK' /\ (Kept \/ Lost)
    BY <1>13, StartZoneType, ShutdownZoneType, LockZoneType, UnlockZoneType,
       SetActiveZoneType, ZoneAloneType
  <1>14. CASE LoadingKilled
    BY <1>14, LoadingKilledType
  <1>15. CASE CleaningKilled
    BY <1>15, CleaningKilledType
  <1>. QED
    BY <1>1, <1>2, <1>3, <1>4, <1>5, <1>6, <1>7, <1>8, <1>9, <1>10, <1>11, <1>12, <1>13, <1>14,
       <1>15 DEF Next

\* Whatever fails, the manager's state, the zones and the database hold values
\* of their types: no lookup in a list or in a map goes astray.
THEOREM TypeCorrect == Spec => []TypeOK
  <1>1. TypeOK /\ [Next]_vars => TypeOK'
    BY StepShape
  <1>. QED
    BY InitType, <1>1, PTL DEF Spec

-----------------------------------------------------------------------------
(* ListedHaveRows.                                                         *)

Rows(ids) == \A n \in DOMAIN ids : zone[ids[n]].saved # "none"

\* The rows of every zone that is listed, in the database or in memory, from
\* where the list gets into the database.
RowsInv == Rows(savedConfig.zoneIds) /\ Rows(mDynamicConfig.zoneIds)

LEMMA RowsKept ==
  ASSUME NEW ids \in Seq(Names), Rows(ids),
         \A i \in Names : zone[i].saved # "none" => zone'[i].saved # "none"
  PROVE  \A n \in DOMAIN ids : zone'[ids[n]].saved # "none"
  BY ToSetOfSeq DEF Rows

LEMMA RowsStep ==
  ASSUME TypeOK, RowsInv, [Next]_vars
  PROVE  RowsInv'
  <1>. DEFINE Kind == \A i \in Names : zone[i].saved # "none" => zone'[i].saved # "none"
              Rows1(ids) == \A n \in DOMAIN ids : zone'[ids[n]].saved # "none"
  <1>0. /\ savedConfig.zoneIds \in Seq(Names) /\ mDynamicConfig.zoneIds \in Seq(Names)
        /\ mDynamicConfig \in Config /\ savedConfig \in Config
    BY DEF TypeOK, Config
  <1>1. Kind => Rows1(savedConfig.zoneIds) /\ Rows1(mDynamicConfig.zoneIds)
    BY <1>0, RowsKept DEF RowsInv
  <1>2. (Follows(zone', zone) \/ Remains(zone', zone)) => Kind
    BY DEF Follows, Remains, Keeps, Lasts
  <1>3. Rows1(NoConfig.zoneIds)
    BY DEF NoConfig
  <1>4. ASSUME NEW id \in Names, Kind
        PROVE  Rows1(Without(mDynamicConfig.zoneIds, id))
    BY <1>0, <1>1, <1>4, WithoutElements DEF Within
  <1>5. ASSUME NEW id \in Names, Kind, zone'[id].saved # "none"
        PROVE  Rows1(Append(mDynamicConfig.zoneIds, id))
    <2>. DEFINE ids == mDynamicConfig.zoneIds
    <2>1. DOMAIN Append(ids, id) = 1..Len(ids) + 1 /\ Len(ids) \in Nat
      BY <1>0, AppendProperties, LenProperties
    <2>2. \A n \in 1..Len(ids) : Append(ids, id)[n] = ids[n] /\ n \in DOMAIN ids
      BY <1>0, AppendProperties, LenProperties
    <2>3. Append(ids, id)[Len(ids) + 1] = id
      BY <1>0, AppendProperties
    <2>. HIDE DEF ids
    <2>4. ASSUME NEW n \in DOMAIN Append(ids, id) PROVE zone'[Append(ids, id)[n]].saved # "none"
      <3>1. n \in 1..Len(ids) \/ n = Len(ids) + 1
        BY <2>1
      <3>2. Rows1(ids)
        BY <1>1, <1>5 DEF ids
      <3>. QED
        BY <1>5, <2>2, <2>3, <3>1, <3>2
    <2>. QED
      BY <2>4 DEF ids
  <1>6. RowsInv' <=> Rows1(savedConfig'.zoneIds) /\ Rows1(mDynamicConfig'.zoneIds)
    BY DEF RowsInv, Rows
  <1>. HIDE DEF Kind, Rows1
  <1>7. CASE Kept
    BY <1>1, <1>2, <1>6, <1>7 DEF Kept
  <1>8. CASE Lost
    BY <1>1, <1>2, <1>3, <1>6, <1>8 DEF Lost
  <1>9. CASE Booted
    <2>1. WithDefault(savedConfig).zoneIds = savedConfig.zoneIds
      BY <1>0, WithDefaultType
    <2>. QED
      BY <1>1, <1>2, <1>6, <1>9, <2>1 DEF Booted
  <1>10. ASSUME NEW id \in Names, Created(id) PROVE RowsInv'
    <2>. DEFINE listed == [mDynamicConfig EXCEPT !.zoneIds = Append(@, id)]
                made == [listed EXCEPT !.defaultId = defaultFor(Append(mZones, id), @)]
    <2>1. /\ listed.zoneIds = Append(mDynamicConfig.zoneIds, id)
          /\ made.zoneIds = Append(mDynamicConfig.zoneIds, id)
      BY <1>0 DEF Config
    <2>2. Kind
      BY <1>10 DEF Created, Kind
    <2>3. CASE UNCHANGED <<mDynamicConfig, savedConfig>>
      BY <1>1, <1>6, <2>2, <2>3
    <2>4. CASE ~UNCHANGED <<mDynamicConfig, savedConfig>>
      <3>1. /\ zone'[id].saved # "none"
            /\ mDynamicConfig' \in {listed, made} /\ savedConfig' \in {savedConfig, listed, made}
        BY <1>10, <2>4 DEF Created
      <3>. HIDE DEF listed, made
      <3>. QED
        BY <1>1, <1>5, <1>6, <2>1, <2>2, <3>1
    <2>. QED
      BY <2>3, <2>4
  <1>11. ASSUME NEW id \in Names, Destroyed(id) PROVE RowsInv'
    <2>. DEFINE listed == [mDynamicConfig EXCEPT !.zoneIds = Without(@, id)]
                made == [listed EXCEPT !.defaultId = defaultFor(Without(mZones, id), @)]
    <2>1. /\ listed.zoneIds = Without(mDynamicConfig.zoneIds, id)
          /\ made.zoneIds = Without(mDynamicConfig.zoneIds, id)
      BY <1>0 DEF Config
    <2>2. Kind
      BY <1>2, <1>11 DEF Destroyed
    <2>3. /\ mDynamicConfig' \in {listed, made, NoConfig}
          /\ savedConfig' \in {savedConfig, listed, made}
      BY <1>11 DEF Destroyed
    <2>. HIDE DEF listed, made
    <2>. QED
      BY <1>1, <1>3, <1>4, <1>6, <2>1, <2>2, <2>3
  <1>12. CASE LoadingCut
    BY <1>1, <1>2, <1>3, <1>6, <1>12 DEF LoadingCut, Gone
  <1>13. ASSUME NEW id \in Names, CreationCut(id) PROVE RowsInv'
    <2>. DEFINE listed == [mDynamicConfig EXCEPT !.zoneIds = Append(@, id)]
    <2>1. listed.zoneIds = Append(mDynamicConfig.zoneIds, id)
      BY <1>0 DEF Config
    <2>2. Kind
      BY <1>13 DEF CreationCut, Kind, Lasts
    <2>3. /\ mDynamicConfig' = NoConfig
          /\ savedConfig' = savedConfig \/ (savedConfig' = listed /\ zone'[id].saved # "none")
      BY <1>13 DEF CreationCut, Gone
    <2>. HIDE DEF listed
    <2>. QED
      BY <1>1, <1>3, <1>5, <1>6, <2>1, <2>2, <2>3
  <1>14. ASSUME NEW id \in Names, DestructionCut(id) PROVE RowsInv'
    <2>. DEFINE listed == [mDynamicConfig EXCEPT !.zoneIds = Without(@, id)]
    <2>1. listed.zoneIds = Without(mDynamicConfig.zoneIds, id)
      BY <1>0 DEF Config
    <2>2. Kind
      BY <1>2, <1>14 DEF DestructionCut
    <2>3. mDynamicConfig' = NoConfig /\ savedConfig' \in {savedConfig, listed}
      BY <1>14 DEF DestructionCut, Gone
    <2>. HIDE DEF listed
    <2>. QED
      BY <1>1, <1>3, <1>4, <1>6, <2>1, <2>2, <2>3
  <1>. QED
    BY <1>7, <1>8, <1>9, <1>10, <1>11, <1>12, <1>13, <1>14, StepShape

\* Whatever fails and whenever the daemon dies, a zone that is listed in the
\* database has rows there, without which start() would throw.
THEOREM ListedZonesHaveRows == Spec => []ListedHaveRows
  <1>1. Init => RowsInv
    BY DEF Init, RowsInv, Rows, NoConfig
  <1>2. RowsInv => ListedHaveRows
    BY DEF RowsInv, Rows, ListedHaveRows
  <1>3. TypeOK /\ RowsInv /\ [Next]_vars => RowsInv'
    BY RowsStep
  <1>. QED
    BY <1>1, <1>2, <1>3, TypeCorrect, PTL DEF Spec

-----------------------------------------------------------------------------
(* ActiveKnown.                                                            *)

\* Nothing fails that could leave destroyZone with the focus on the zone that
\* was destroyed.
FocusIsMoved == Faults \cap {"db", "vt", "cgroup", "die"} = {}

\* A method that ends in one of some ways, does so on every zone.
LEMMA ForEachPasses ==
  ASSUME NEW zs, NEW zones \in Seq(Names), NEW method,
         NEW R, "ok" \in R, \A i \in Names : \A o \in method[i] : o.result \in R
  PROVE  \A o \in ForEach(zs, zones, method) : o.result \in R
  <1>. DEFINE passed(i) == {o \in method[i] : o.result = "ok"}
              failed(i) == method[i] \ passed(i)
              reached(n) == \A m \in 1..n - 1 : passed(zones[m]) # {}
              before(n) == [i \in Names |->
                              IF \E m \in 1..n - 1 : zones[m] = i
                                THEN (CHOOSE o \in passed(i) : TRUE).zone
                                ELSE zs[i]]
  <1>1. \A n \in DOMAIN zones : \A o \in failed(zones[n]) : o.result \in R
    BY ToSetOfSeq
  <1>2. ForEach(zs, zones, method) =
          {Done(before(n)) : n \in {m \in {Len(zones) + 1} : reached(m)}}
          \cup UNION {{Thrown([before(n) EXCEPT ![zones[n]] = o.zone], o.result) :
                         o \in failed(zones[n])} : n \in {m \in DOMAIN zones : reached(m)}}
    BY DEF ForEach
  <1>3. /\ \A y : Done(y).result = "ok"
        /\ \A y, e : Thrown(y, e).result = e
    BY DEF Done, Thrown
  <1>. HIDE DEF passed, failed, reached, before
  <1>4. ASSUME NEW o \in ForEach(zs, zones, method) PROVE o.result \in R
    <2>1. CASE \E n \in Nat \cup {Len(zones) + 1} : o = Done(before(n))
      BY <1>3, <2>1
    <2>2. CASE \E n \in DOMAIN zones : \E t \in failed(zones[n]) :
                 o = Thrown([before(n) EXCEPT ![zones[n]] = t.zone], t.result)
      BY <1>1, <1>3, <2>2
    <2>. QED
      BY <1>2, <2>1, <2>2
  <1>. QED
    BY <1>4

\* refocus leaves the focus on the host or on a zone that is still there, if the
\* daemon lives.
LEMMA RefocusMoves ==
  ASSUME FocusIsMoved, NEW zs \in Zones, NEW zones \in Seq(Names), NEW defaultId,
         NEW f \in refocus(zs, zones, defaultId), f.result \notin Deaths
  PROVE  f.active \in {NoZone} \cup ToSet(zones)
  <1>1. ASSUME NEW id \in ToSet(zones), zoneIsRunning(zs, id), f \in focusInternal(zs, zones, id)
        PROVE  f.active \in {NoZone} \cup ToSet(zones)
    <2>1. CASE id = NoZone
      BY <1>1, <2>1 DEF focusInternal, focusHost, Focus, May
    <2>2. CASE id # NoZone /\ id = mActiveZoneId
      BY <1>1, <2>2 DEF focusInternal, Focus
    <2>3. CASE id # NoZone /\ id # mActiveZoneId
      <3>1. f \in focusZone(zs, zones, id)
        BY <1>1, <2>3 DEF focusInternal
      <3>. DEFINE method == [i \in Names |->
                    IF zs[i].lxc = "RUNNING"
                      THEN setSchedulerLevel(zs[i], IF i = id THEN "fg" ELSE "bg")
                      ELSE {Done(zs[i])}]
      <3>. DEFINE ends == {"ok", "killed"}
      <3>2. "ok" \in ends /\ \A i \in Names : \A o \in method[i] : o.result \in ends
        BY DEF setSchedulerLevel, May, Done, Thrown, FocusIsMoved
      <3>3. setLevels(zs, zones, id) = ForEach(zs, zones, method)
        BY DEF setLevels
      <3>. HIDE DEF method, ends
      <3>4. \A o \in setLevels(zs, zones, id) : o.result \in ends
        BY <3>2, <3>3, ForEachPasses
      <3>. QED
        BY <3>1, <3>4 DEF ends, focusZone, Focus, May, FocusIsMoved, Deaths
    <2>. QED
      BY <2>1, <2>2, <2>3
  <1>2. f \in focusInternal(zs, zones, NoZone) => f.active = NoZone
    BY DEF focusInternal, focusHost, Focus, May
  <1>3. \/ f = Focus(zs, mActiveZoneId, shownVT, "ok") /\ mActiveZoneId \in ToSet(zones)
        \/ \E id \in ToSet(zones) : zoneIsRunning(zs, id) /\ f \in focusInternal(zs, zones, id)
        \/ f \in focusInternal(zs, zones, NoZone)
    BY FirstRunningType DEF refocus
  <1>. QED
    BY <1>1, <1>2, <1>3 DEF Focus

\* The focus is on the host while there are no zones to have it.
ActiveInv ==
  /\ ActiveKnown
  /\ phase = "down" => mZones = <<>> /\ mActiveZoneId = NoZone

LEMMA EmptyHasNone == ToSet(<<>>) = {}
  BY DEF ToSet

LEMMA ActiveStep ==
  ASSUME FocusIsMoved, TypeOK, ActiveInv, [Next]_vars
  PROVE  ActiveInv'
  <1>1. CASE Kept
    BY <1>1, EmptyHasNone DEF Kept, ActiveInv, ActiveKnown, Known
  <1>2. CASE Lost
    BY <1>2 DEF Lost, ActiveInv, ActiveKnown
  <1>3. CASE Booted
    BY <1>3 DEF Booted, ActiveInv, ActiveKnown
  <1>4. ASSUME NEW id \in Names, Created(id) PROVE ActiveInv'
    <2>1. mZones' = mZones \/ mZones' = Append(mZones, id) \/ mZones = <<>>
      BY <1>4 DEF Created
    <2>2. mZones \in Seq(Names)
      BY Types
    <2>. QED
      BY <1>4, <2>1, <2>2, EmptyHasNone, AppendKeeps DEF Created, ActiveInv, ActiveKnown, Known
  <1>5. ASSUME NEW id \in Names, Destroyed(id) PROVE ActiveInv'
    <2>1. Without(mZones, id) \in Seq(Names)
      BY Types, WithoutElements
    <2>2. \/ phase' = "down" /\ mZones' = <<>> /\ mActiveZoneId' = NoZone
          \/ /\ phase' = "running" /\ mZones' = Without(mZones, id)
             /\ \E zs \in Zones, d \in Names \cup {NoZone} :
                \E f \in refocus(zs, Without(mZones, id), d) :
                  f.result \notin Deaths /\ mActiveZoneId' = f.active
      BY <1>5 DEF Destroyed, FocusIsMoved
    <2>. QED
      BY <2>1, <2>2, RefocusMoves DEF ActiveInv, ActiveKnown, Known
  <1>6. Gone => ActiveInv'
    BY DEF Gone, ActiveInv, ActiveKnown
  <1>. QED
    BY <1>1, <1>2, <1>3, <1>4, <1>5, <1>6, StepShape DEF LoadingCut, CreationCut, DestructionCut

\* However the zones come, go, stop and restart, the zone in the foreground is
\* one of them, as long as no fault stops destroyZone half way.
THEOREM ActiveIsKnown ==
  ASSUME FocusIsMoved
  PROVE  Spec => []ActiveKnown
  <1>1. Init => ActiveInv
    BY DEF Init, ActiveInv, ActiveKnown
  <1>2. ActiveInv => ActiveKnown
    BY DEF ActiveInv
  <1>3. TypeOK /\ ActiveInv /\ [Next]_vars => ActiveInv'
    BY ActiveStep
  <1>. QED
    BY <1>1, <1>2, <1>3, TypeCorrect, PTL DEF Spec

-----------------------------------------------------------------------------
(* RestartRecovers and DefaultKnown.                                       *)

\* The list of zones, the list in memory and the list in the database are one.
RestartInv ==
  phase = "running" => /\ mDynamicConfig.zoneIds = mZones /\ savedConfig = mDynamicConfig
                       /\ IF mZones = <<>> THEN mDynamicConfig.defaultId = NoZone
                          ELSE Known(mDynamicConfig.defaultId)

LEMMA DefaultIsListed ==
  ASSUME NEW zones \in Seq(Names), NEW d
  PROVE  IF zones = <<>> THEN defaultFor(zones, d) = NoZone
         ELSE defaultFor(zones, d) \in ToSet(zones)
  BY ToSetOfSeq DEF defaultFor

LEMMA RestartStep ==
  ASSUME "db" \notin Faults, "file" \notin Faults, TypeOK, RestartInv, [Next]_vars
  PROVE  RestartInv'
  <1>0. /\ mZones \in Seq(Names) /\ mDynamicConfig \in Config /\ savedConfig \in Config
        /\ savedConfig.zoneIds \in Seq(Names)
    BY DEF TypeOK, Config
  <1>1. CASE Kept
    BY <1>1 DEF Kept, RestartInv, Known
  <1>2. CASE Lost
    BY <1>2 DEF Lost, RestartInv
  <1>3. CASE Booted
    <2>1. CASE phase' = "running"
      <3>1. /\ mZones' = savedConfig.zoneIds
            /\ mDynamicConfig' = WithDefault(savedConfig) /\ savedConfig' = WithDefault(savedConfig)
        BY <1>3, <2>1 DEF Booted
      <3>2. /\ WithDefault(savedConfig).zoneIds = savedConfig.zoneIds
            /\ WithDefault(savedConfig).defaultId
                 = defaultFor(savedConfig.zoneIds, savedConfig.defaultId)
        BY <1>0, WithDefaultType DEF WithDefault, Config
      <3>. QED
        BY <1>0, <3>1, <3>2, DefaultIsListed DEF RestartInv, Known
    <2>2. CASE phase' # "running"
      BY <2>2 DEF RestartInv
    <2>. QED
      BY <2>1, <2>2
  <1>4. ASSUME NEW id \in Names, Created(id) PROVE RestartInv'
    <2>. DEFINE zones == Append(mZones, id)
                made == [[mDynamicConfig EXCEPT !.zoneIds = Append(@, id)]
                           EXCEPT !.defaultId = defaultFor(zones, @)]
    <2>1. CASE UNCHANGED <<mZones, mDynamicConfig, savedConfig>>
      BY <1>4, <2>1 DEF Created, RestartInv, Known
    <2>2. CASE mZones' = zones /\ mDynamicConfig' = made /\ savedConfig' = made
      <3>1. /\ made.zoneIds = Append(mDynamicConfig.zoneIds, id)
            /\ made.defaultId = defaultFor(zones, mDynamicConfig.defaultId)
        BY <1>0 DEF Config
      <3>2. zones \in Seq(Names) /\ zones # <<>>
        BY <1>0, AppendProperties
      <3>3. mDynamicConfig.zoneIds = mZones
        BY <1>4 DEF Created, RestartInv
      <3>. HIDE DEF made
      <3>. QED
        BY <2>2, <3>1, <3>2, <3>3, DefaultIsListed DEF RestartInv, Known
    <2>. QED
      BY <1>4, <2>1, <2>2 DEF Created
  <1>5. ASSUME NEW id \in Names, Destroyed(id) PROVE RestartInv'
    <2>. DEFINE zones == Without(mZones, id)
                made == [[mDynamicConfig EXCEPT !.zoneIds = Without(@, id)]
                           EXCEPT !.defaultId = defaultFor(zones, @)]
    <2>1. CASE phase' = "down"
      BY <2>1 DEF RestartInv
    <2>2. CASE mZones' = zones /\ mDynamicConfig' = made /\ savedConfig' = made
      <3>1. /\ made.zoneIds = Without(mDynamicConfig.zoneIds, id)
            /\ made.defaultId = defaultFor(zones, mDynamicConfig.defaultId)
        BY <1>0 DEF Config
      <3>2. zones \in Seq(Names)
        BY <1>0, WithoutElements
      <3>3. mDynamicConfig.zoneIds = mZones
        BY <1>5 DEF Destroyed, RestartInv
      <3>. HIDE DEF made
      <3>. QED
        BY <2>2, <3>1, <3>2, <3>3, DefaultIsListed DEF RestartInv, Known
    <2>. QED
      BY <1>5, <2>1, <2>2 DEF Destroyed
  <1>6. Gone => RestartInv'
    BY DEF Gone, RestartInv
  <1>. QED
    BY <1>1, <1>2, <1>3, <1>4, <1>5, <1>6, StepShape DEF LoadingCut, CreationCut, DestructionCut

\* While the database and the file "enabled" can be written, the list in the
\* database is the one in memory after every call, so that a restart brings
\* back the zones, their order and their default, whatever else fails, and so
\* after a daemon was killed within a call.
THEOREM RestartIsExact ==
  ASSUME "db" \notin Faults, "file" \notin Faults
  PROVE  Spec => [](RestartRecovers /\ DefaultKnown)
  <1>1. Init => RestartInv
    BY DEF Init, RestartInv
  <1>2. RestartInv => RestartRecovers /\ DefaultKnown
    BY DEF RestartInv, RestartRecovers, DefaultKnown
  <1>3. TypeOK /\ RestartInv /\ [Next]_vars => RestartInv'
    BY RestartStep
  <1>. QED
    BY <1>1, <1>2, <1>3, TypeCorrect, PTL DEF Spec

-----------------------------------------------------------------------------
(* ZonesDistinct.                                                          *)

Apart(ids, zs) ==
  \A m, n \in DOMAIN ids :
    m # n => /\ ids[m] # ids[n]
             /\ zs[ids[m]].vt = NoVT \/ zs[ids[m]].vt # zs[ids[n]].vt

\* The VTs of the zones that a restart will load differ too, and a zone is in
\* the database only while it is in the list, so that the VTs that are free to
\* a new zone are free in the database.
DistinctInv ==
  /\ Apart(mZones, zone) /\ Apart(savedConfig.zoneIds, zone)
  /\ phase = "running" => /\ mDynamicConfig.zoneIds = savedConfig.zoneIds
                          /\ ToSet(savedConfig.zoneIds) \subseteq ToSet(mZones)

LEMMA ApartWithin ==
  ASSUME NEW s, NEW w, NEW zs, Apart(s, zs), Within(w, s)
  PROVE  Apart(w, zs)
  BY DEF Apart, Within

LEMMA ApartSame ==
  ASSUME NEW s \in Seq(Names), NEW xs, NEW ys, Apart(s, xs),
         \A i \in ToSet(s) : ys[i].vt = xs[i].vt
  PROVE  Apart(s, ys)
  BY ToSetOfSeq DEF Apart

LEMMA ApartEmpty ==
  ASSUME NEW zs
  PROVE  Apart(<<>>, zs) /\ \A id : Apart(<<id>>, zs)
  BY DEF Apart

LEMMA ApartAppend ==
  ASSUME NEW s \in Seq(Names), NEW id \in Names, NEW zs, Apart(s, zs), id \notin ToSet(s),
         \A i \in ToSet(s) : zs[id].vt = NoVT \/ zs[id].vt # zs[i].vt
  PROVE  Apart(Append(s, id), zs)
  <1>. DEFINE t == Append(s, id)
              l == Len(s)
  <1>1. /\ DOMAIN s = 1..l /\ l \in Nat /\ DOMAIN t = 1..l + 1
        /\ \A n \in 1..l : t[n] = s[n] /\ s[n] \in ToSet(s)
        /\ t[l + 1] = id
    BY AppendProperties, LenProperties, ToSetOfSeq
  <1>. HIDE DEF t, l
  <1>. SUFFICES ASSUME NEW m \in DOMAIN t, NEW n \in DOMAIN t, m # n
                PROVE  /\ t[m] # t[n]
                       /\ zs[t[m]].vt = NoVT \/ zs[t[m]].vt # zs[t[n]].vt
    BY DEF Apart, t
  <1>2. (m \in 1..l \/ m = l + 1) /\ (n \in 1..l \/ n = l + 1)
    BY <1>1
  <1>3. CASE m \in 1..l /\ n \in 1..l
    BY <1>1, <1>3 DEF Apart
  <1>4. CASE m = l + 1 /\ n \in 1..l
    BY <1>1, <1>4
  <1>5. CASE m \in 1..l /\ n = l + 1
    <2>1. t[m] \in ToSet(s) /\ t[n] = id
      BY <1>1, <1>5
    <2>. QED
      BY <2>1
  <1>. QED
    BY <1>2, <1>3, <1>4, <1>5

LEMMA SubSeqWithin ==
  ASSUME NEW S, NEW s \in Seq(S), NEW n \in 0..Len(s)
  PROVE  Within(SubSeq(s, 1, n), s)
  <1>1. Len(s) \in Nat /\ DOMAIN s = 1..Len(s)
    BY LenProperties
  <1>2. /\ SubSeq(s, 1, n) \in Seq(S) /\ Len(SubSeq(s, 1, n)) = n
        /\ \A i \in 1..n : SubSeq(s, 1, n)[i] = s[i]
    <2>1. \A i \in 1..n : s[i] \in S
      BY <1>1, ElementOfSeq
    <2>2. n \in Int /\ 1 \in Int
      BY <1>1
    <2>3. /\ SubSeq(s, 1, n) \in Seq(S)
          /\ Len(SubSeq(s, 1, n)) = IF 1 <= n THEN n - 1 + 1 ELSE 0
          /\ \A i \in 1..n - 1 + 1 : SubSeq(s, 1, n)[i] = s[1 + i - 1]
      BY <2>1, <2>2, SubSeqProperties
    <2>. QED
      BY <1>1, <2>3
  <1>3. DOMAIN SubSeq(s, 1, n) = 1..n
    BY <1>2, LenProperties
  <1>. DEFINE k == [i \in 1..n |-> i]
  <1>4. k \in [1..n -> DOMAIN s] /\ \A i \in 1..n : k[i] = i
    BY <1>1
  <1>. HIDE DEF k
  <1>. QED
    BY <1>2, <1>3, <1>4 DEF Within

LEMMA DistinctStep ==
  ASSUME "db" \notin Faults, TypeOK, DistinctInv, [Next]_vars
  PROVE  DistinctInv'
  <1>. DEFINE ids == savedConfig.zoneIds
  <1>0. /\ mZones \in Seq(Names) /\ mDynamicConfig \in Config /\ savedConfig \in Config
        /\ ids \in Seq(Names) /\ ToSet(mZones) \subseteq Names /\ ToSet(ids) \subseteq Names
    BY ToSetOfSeq DEF TypeOK, Config
  <1>1. Follows(zone', zone) \/ Remains(zone', zone) => Apart(mZones, zone') /\ Apart(ids, zone')
    BY <1>0, ApartSame DEF DistinctInv, Follows, Remains, Keeps, Lasts
  <1>. DEFINE Inv1 == /\ Apart(mZones', zone') /\ Apart(savedConfig'.zoneIds, zone')
                      /\ phase' = "running" =>
                           /\ mDynamicConfig'.zoneIds = savedConfig'.zoneIds
                           /\ ToSet(savedConfig'.zoneIds) \subseteq ToSet(mZones')
  <1>2. DistinctInv' <=> Inv1
    BY DEF DistinctInv, Apart
  <1>3. CASE Kept
    BY <1>1, <1>2, <1>3 DEF Kept, DistinctInv
  <1>4. CASE Lost
    BY <1>1, <1>2, <1>4, ApartEmpty DEF Lost
  <1>5. CASE Booted
    <2>1. WithDefault(savedConfig).zoneIds = ids
      BY <1>0, WithDefaultType
    <2>2. \A n \in 0..Len(ids) : Apart(SubSeq(ids, 1, n), zone')
      BY <1>0, <1>1, <1>5, SubSeqWithin, ApartWithin DEF Booted
    <2>. QED
      BY <1>1, <1>2, <1>5, <2>1, <2>2 DEF Booted
  <1>6. ASSUME NEW id \in Names, Created(id) PROVE DistinctInv'
    <2>1. id \notin ToSet(mZones) /\ ToSet(ids) \subseteq ToSet(mZones) /\ mDynamicConfig.zoneIds = ids
      BY <1>6 DEF Created, DistinctInv, Known
    <2>2. \A i \in ToSet(mZones) : zone'[i] = zone[i]
      BY <1>0, <1>6, <2>1 DEF Created
    <2>3. Apart(mZones, zone') /\ Apart(ids, zone')
      BY <1>0, <2>1, <2>2, ApartSame DEF DistinctInv
    <2>4. CASE UNCHANGED <<mZones, mDynamicConfig, savedConfig>>
      BY <1>2, <2>1, <2>3, <2>4
    <2>5. CASE mZones = <<>> /\ mZones' = <<id>> /\ UNCHANGED <<mDynamicConfig, savedConfig>>
      BY <1>2, <2>1, <2>3, <2>5, ApartEmpty, EmptyHasNone
    <2>. DEFINE made == [[mDynamicConfig EXCEPT !.zoneIds = Append(@, id)]
                           EXCEPT !.defaultId = defaultFor(Append(mZones, id), @)]
    <2>6. CASE /\ mZones' = Append(mZones, id) /\ mDynamicConfig' = made /\ savedConfig' = made
               /\ zone'[id].vt \in {NoVT} \cup freeVTs
      <3>2. made.zoneIds = Append(ids, id)
        BY <1>0, <2>1 DEF Config
      <3>3. \A i \in ToSet(mZones) : zone[i].vt \notin freeVTs
        BY <1>0, ToSetOfSeq DEF freeVTs
      <3>4. \A i \in ToSet(mZones) : zone'[id].vt = NoVT \/ zone'[id].vt # zone'[i].vt
        BY <2>2, <2>6, <3>3
      <3>5. Apart(Append(mZones, id), zone')
        BY <1>0, <2>1, <2>3, <3>4, ApartAppend
      <3>6. Apart(Append(ids, id), zone')
        BY <1>0, <2>1, <2>3, <3>4, ApartAppend
      <3>7. ToSet(Append(ids, id)) \subseteq ToSet(Append(mZones, id))
        BY <1>0, <2>1, AppendKeeps
      <3>. HIDE DEF made
      <3>. QED
        BY <1>2, <2>6, <3>2, <3>5, <3>6, <3>7
    <2>. QED
      BY <1>6, <2>4, <2>5, <2>6 DEF Created
  <1>7. ASSUME NEW id \in Names, Destroyed(id) PROVE DistinctInv'
    <2>. DEFINE zones == Without(mZones, id)
                made == [[mDynamicConfig EXCEPT !.zoneIds = Without(@, id)]
                           EXCEPT !.defaultId = defaultFor(zones, @)]
    <2>1. ToSet(ids) \subseteq ToSet(mZones) /\ mDynamicConfig.zoneIds = ids
      BY <1>7 DEF Destroyed, DistinctInv
    <2>2. made.zoneIds = Without(ids, id)
      BY <1>0, <2>1 DEF Config
    <2>3. Apart(mZones, zone') /\ Apart(ids, zone')
      BY <1>1, <1>7 DEF Destroyed
    <2>4. Apart(zones, zone') /\ Apart(Without(ids, id), zone')
      BY <1>0, <2>3, WithoutElements, ApartWithin
    <2>5. ToSet(Without(ids, id)) \subseteq ToSet(zones)
      <3>1. id \notin ToSet(Without(ids, id))
        BY <1>0, <2>3, WithoutElements DEF Apart
      <3>2. Without(ids, id) \in Seq(Names) /\ Within(Without(ids, id), ids)
        BY <1>0, WithoutElements
      <3>3. ToSet(Without(ids, id)) \subseteq ToSet(ids)
        BY <1>0, <3>2, ToSetOfSeq DEF Within
      <3>4. \A i \in ToSet(mZones) : i # id => i \in ToSet(zones)
        BY <1>0, WithoutElements, ToSetOfSeq
      <3>. QED
        BY <2>1, <3>1, <3>3, <3>4
    <2>6. \/ phase' = "down" /\ mZones' = <<>> /\ savedConfig' = made
          \/ mZones' = zones /\ mDynamicConfig' = made /\ savedConfig' = made
      BY <1>7 DEF Destroyed
    <2>. HIDE DEF zones, made
    <2>. QED
      BY <1>2, <2>2, <2>4, <2>5, <2>6, ApartEmpty
  <1>8. Gone /\ Apart(savedConfig'.zoneIds, zone') => DistinctInv'
    BY <1>2, ApartEmpty DEF Gone
  <1>9. CASE LoadingCut
    BY <1>1, <1>8, <1>9 DEF LoadingCut
  <1>10. ASSUME NEW id \in Names, CreationCut(id) PROVE DistinctInv'
    <2>1. id \notin ToSet(mZones) /\ ToSet(ids) \subseteq ToSet(mZones) /\ mDynamicConfig.zoneIds = ids
      BY <1>10 DEF CreationCut, DistinctInv, Known
    <2>2. \A i \in ToSet(mZones) : zone'[i].vt = zone[i].vt
      BY <1>0, <1>10, <2>1 DEF CreationCut, Lasts
    <2>3. Apart(ids, zone')
      BY <1>0, <2>1, <2>2, ApartSame DEF DistinctInv
    <2>. DEFINE listed == [mDynamicConfig EXCEPT !.zoneIds = Append(@, id)]
    <2>4. CASE savedConfig' = listed /\ zone'[id].vt \in {NoVT} \cup freeVTs
      <3>1. listed.zoneIds = Append(ids, id)
        BY <1>0, <2>1 DEF Config
      <3>2. \A i \in ToSet(mZones) : zone[i].vt \notin freeVTs
        BY <1>0, ToSetOfSeq DEF freeVTs
      <3>3. \A i \in ToSet(ids) : zone'[id].vt = NoVT \/ zone'[id].vt # zone'[i].vt
        BY <2>1, <2>2, <2>4, <3>2
      <3>4. Apart(Append(ids, id), zone')
        BY <1>0, <2>1, <2>3, <3>3, ApartAppend
      <3>. HIDE DEF listed
      <3>. QED
        BY <1>8, <1>10, <2>4, <3>1, <3>4 DEF CreationCut
    <2>. QED
      BY <1>8, <1>10, <2>3, <2>4 DEF CreationCut
  <1>11. ASSUME NEW id \in Names, DestructionCut(id) PROVE DistinctInv'
    <2>. DEFINE listed == [mDynamicConfig EXCEPT !.zoneIds = Without(@, id)]
    <2>1. listed.zoneIds = Without(ids, id)
      BY <1>0, <1>11 DEF DestructionCut, DistinctInv, Config
    <2>2. Apart(ids, zone')
      BY <1>1, <1>11 DEF DestructionCut
    <2>3. Apart(Without(ids, id), zone')
      BY <1>0, <2>2, WithoutElements, ApartWithin
    <2>4. savedConfig' \in {savedConfig, listed}
      BY <1>11 DEF DestructionCut
    <2>. HIDE DEF listed
    <2>. QED
      BY <1>8, <1>11, <2>1, <2>2, <2>3, <2>4 DEF DestructionCut
  <1>. QED
    BY <1>3, <1>4, <1>5, <1>6, <1>7, <1>9, <1>10, <1>11, StepShape

\* While the database can be written, no two zones of the list are one zone and
\* no two share a virtual terminal, whatever else fails, and across restarts,
\* destructions and re-creations.
THEOREM ZonesStayDistinct ==
  ASSUME "db" \notin Faults
  PROVE  Spec => []ZonesDistinct
  <1>1. Init => DistinctInv
    BY ApartEmpty DEF Init, DistinctInv, NoConfig
  <1>2. DistinctInv => ZonesDistinct
    BY DEF DistinctInv, Apart, ZonesDistinct
  <1>3. TypeOK /\ DistinctInv /\ [Next]_vars => DistinctInv'
    BY DistinctStep
  <1>. QED
    BY <1>1, <1>2, <1>3, TypeCorrect, PTL DEF Spec

-----------------------------------------------------------------------------
(* DefaultKnown, EnabledTellsZones and RequestPersisted.                   *)

\* While the database and the file "enabled" can be written there is a default
\* zone exactly when there are zones, and updateDefaultId leaves it on one of
\* them, whatever else fails.
THEOREM DefaultIsKnown ==
  ASSUME "db" \notin Faults, "file" \notin Faults
  PROVE  Spec => []DefaultKnown
  BY RestartIsExact, PTL

\* A list without its only element is empty.
LEMMA WithoutOne ==
  ASSUME NEW s \in Seq(Names), NEW id \in ToSet(s), Without(s, id) = <<>>
  PROVE  Len(s) = 1
  <1>1. Len(s) \in Nat /\ Len(<<>>) = 0
    BY LenProperties
  <1>2. Len(Without(s, id)) = Len(s) - 1
    BY WithoutElements
  <1>. QED
    BY <1>1, <1>2, SMT

LEMMA EnabledStep ==
  ASSUME "db" \notin Faults, "file" \notin Faults, TypeOK, RestartInv, EnabledTellsZones,
         [Next]_vars
  PROVE  EnabledTellsZones'
  <1>. DEFINE ids == savedConfig.zoneIds
  <1>0. mZones \in Seq(Names) /\ mDynamicConfig \in Config /\ savedConfig \in Config
    BY DEF TypeOK
  <1>1. phase = "running" => /\ ids = mZones /\ mDynamicConfig.zoneIds = mZones
                             /\ mZones # <<>> => enabled
    BY DEF RestartInv, EnabledTellsZones
  <1>2. CASE Kept \/ Lost
    BY <1>2 DEF Kept, Lost, EnabledTellsZones
  <1>3. CASE Booted
    <2>1. savedConfig'.zoneIds = ids
      BY <1>0, <1>3, WithDefaultType DEF Booted
    <2>2. (enabled => enabled') /\ (enabled' => enabled \/ ids # <<>>)
          /\ (phase' = "running" /\ ids # <<>> => enabled')
      BY <1>3 DEF Booted
    <2>. QED
      BY <2>1, <2>2 DEF EnabledTellsZones
  <1>4. CASE LoadingCut
    BY <1>4 DEF LoadingCut, Gone, EnabledTellsZones
  <1>5. ASSUME NEW id \in Names, Created(id) PROVE EnabledTellsZones'
    <2>. DEFINE made == [[mDynamicConfig EXCEPT !.zoneIds = Append(@, id)]
                           EXCEPT !.defaultId = defaultFor(Append(mZones, id), @)]
    <2>1. made.zoneIds = Append(mDynamicConfig.zoneIds, id)
      BY <1>0 DEF Config
    <2>. HIDE DEF made
    <2>2. \/ UNCHANGED <<phase, savedConfig, enabled>>
          \/ savedConfig' = made /\ enabled' = (enabled \/ mZones = <<>>)
      BY <1>5 DEF Created, made
    <2>3. Append(mZones, id) # <<>>
      BY <1>0, AppendProperties
    <2>4. phase = "running"
      BY <1>5 DEF Created
    <2>5. CASE savedConfig' = made /\ enabled' = (enabled \/ mZones = <<>>)
      <3>1. enabled' /\ savedConfig'.zoneIds # <<>>
        BY <1>1, <2>1, <2>3, <2>4, <2>5
      <3>. QED
        BY <3>1 DEF EnabledTellsZones
    <2>6. CASE UNCHANGED <<phase, savedConfig, enabled>>
      BY <2>6 DEF EnabledTellsZones
    <2>. QED
      BY <2>2, <2>5, <2>6
  <1>6. ASSUME NEW id \in Names, Destroyed(id) PROVE EnabledTellsZones'
    <2>. DEFINE zones == Without(mZones, id)
                made == [[mDynamicConfig EXCEPT !.zoneIds = Without(@, id)]
                           EXCEPT !.defaultId = defaultFor(zones, @)]
    <2>1. made.zoneIds = Without(mDynamicConfig.zoneIds, id)
      BY <1>0 DEF Config
    <2>. HIDE DEF made
    <2>2. savedConfig' = made /\ enabled' = (enabled /\ zones # <<>>)
      BY <1>6 DEF Destroyed, made
    <2>3. phase = "running" /\ mZones # <<>>
      BY <1>6, EmptyHasNone DEF Destroyed, Known
    <2>. QED
      BY <1>1, <2>1, <2>2, <2>3 DEF EnabledTellsZones
  <1>7. ASSUME NEW id \in Names, CreationCut(id) PROVE EnabledTellsZones'
    <2>. DEFINE listed == [mDynamicConfig EXCEPT !.zoneIds = Append(@, id)]
    <2>1. listed.zoneIds = Append(mDynamicConfig.zoneIds, id)
      BY <1>0 DEF Config
    <2>. HIDE DEF listed
    <2>2. /\ phase = "running" /\ "kill" \in Faults
          /\ enabled' \in {enabled, enabled \/ mZones = <<>>}
          /\ \/ UNCHANGED savedConfig
             \/ savedConfig' = listed /\ enabled' = (enabled \/ mZones = <<>>)
      BY <1>7 DEF CreationCut, Gone, listed
    <2>. QED
      BY <1>1, <2>2 DEF EnabledTellsZones
  <1>8. ASSUME NEW id \in Names, DestructionCut(id) PROVE EnabledTellsZones'
    <2>. DEFINE zones == Without(mZones, id)
                listed == [mDynamicConfig EXCEPT !.zoneIds = Without(@, id)]
    <2>1. listed.zoneIds = Without(mDynamicConfig.zoneIds, id)
      BY <1>0 DEF Config
    <2>. HIDE DEF listed
    <2>2. /\ phase = "running" /\ phase' = "down" /\ "kill" \in Faults /\ id \in ToSet(mZones)
          /\ \/ UNCHANGED savedConfig /\ enabled' \in {enabled, enabled /\ zones # <<>>}
             \/ savedConfig' = listed /\ enabled' = (enabled /\ zones # <<>>)
      BY <1>8 DEF DestructionCut, Gone, Known, listed
    <2>3. mZones # <<>> /\ (zones = <<>> => Len(mZones) = 1)
      BY <1>0, <2>2, WithoutOne, EmptyHasNone
    <2>. HIDE DEF zones
    <2>. QED
      BY <1>1, <2>1, <2>2, <2>3 DEF EnabledTellsZones, zones
  <1>. QED
    BY <1>2, <1>3, <1>4, <1>5, <1>6, <1>7, <1>8, StepShape

\* While the database and the file itself can be written, "enabled" is there
\* whenever the daemon runs and has zones, and is missing only for a single
\* zone and only after a daemon was killed within a call; if none ever is, it
\* is there exactly when there are zones, while the daemon is down too.
THEOREM EnabledFileTells ==
  ASSUME "db" \notin Faults, "file" \notin Faults
  PROVE  Spec => []EnabledTellsZones
  <1>1. Init => RestartInv /\ EnabledTellsZones
    BY DEF Init, RestartInv, EnabledTellsZones, NoConfig
  <1>2. TypeOK /\ RestartInv /\ [Next]_vars => RestartInv'
    BY RestartStep
  <1>3. TypeOK /\ RestartInv /\ EnabledTellsZones /\ [Next]_vars => EnabledTellsZones'
    BY EnabledStep
  <1>. QED
    BY <1>1, <1>2, <1>3, TypeCorrect, PTL DEF Spec

LEMMA RequestStep ==
  ASSUME "db" \notin Faults, TypeOK, RowsInv, DistinctInv, RequestPersisted, [Next]_vars
  PROVE  RequestPersisted'
  <1>. DEFINE ids == savedConfig.zoneIds
  <1>0. /\ mZones \in Seq(Names) /\ ids \in Seq(Names) /\ Len(ids) \in Nat
        /\ ToSet(mZones) \subseteq Names /\ ToSet(ids) \subseteq Names
    BY ToSetOfSeq, LenProperties DEF TypeOK, Config
  <1>1. RequestPersisted <=> \A i \in Names : i \in ToSet(mZones) => Noted(zone[i])
    BY DEF RequestPersisted, Known, Noted
  <1>2. RequestPersisted' <=> \A i \in Names : i \in ToSet(mZones') => Noted(zone'[i])
    BY DEF RequestPersisted, Known, Noted
  <1>3. CASE Kept
    BY <1>1, <1>2, <1>3 DEF Kept, Follows, Keeps
  <1>4. ASSUME mZones' = <<>> PROVE RequestPersisted'
    BY <1>2, <1>4, EmptyHasNone
  <1>5. CASE Booted
    <2>1. PICK n \in 0..Len(ids) : mZones' = SubSeq(ids, 1, n)
      <3>1. ids = SubSeq(ids, 1, Len(ids)) /\ Len(ids) \in 0..Len(ids)
        BY <1>0, SubSeqFull
      <3>. QED
        BY <1>5, <3>1 DEF Booted
    <2>2. mZones' \in Seq(Names) /\ Within(mZones', ids)
      BY <1>0, <2>1, SubSeqWithin
    <2>3. \A m \in DOMAIN ids : zone'[ids[m]].saved # "none"
      <3>1. \A i \in Names : zone[i].saved # "none" => zone'[i].saved # "none"
        BY <1>5 DEF Booted, Remains, Lasts
      <3>. QED
        BY <1>0, <3>1, RowsKept DEF RowsInv
    <2>4. \A i \in ToSet(mZones') : zone'[i].saved # "none"
      BY <2>2, <2>3, ToSetOfSeq DEF Within
    <2>. QED
      BY <1>2, <1>5, <2>4 DEF Booted
  <1>6. ASSUME NEW id \in Names, Created(id) PROVE RequestPersisted'
    <2>1. ToSet(mZones') \subseteq ToSet(mZones) \cup {id}
      <3>1. mZones' \in {mZones, Append(mZones, id)}
        <4>1. Append(<<>>, id) = <<id>>
          OBVIOUS
        <4>. QED
          BY <1>6, <4>1 DEF Created
      <3>. QED
        BY <1>0, <3>1, AppendKeeps
    <2>2. ASSUME NEW i \in Names, i \in ToSet(mZones') PROVE Noted(zone'[i])
      <3>1. CASE i = id
        BY <1>6, <2>2, <3>1 DEF Created
      <3>2. CASE i # id
        BY <1>1, <1>6, <2>1, <2>2, <3>2 DEF Created
      <3>. QED
        BY <3>1, <3>2
    <2>. QED
      BY <1>2, <2>2
  <1>7. ASSUME NEW id \in Names, Destroyed(id) PROVE RequestPersisted'
    <2>1. CASE mZones' = <<>>
      BY <1>4, <2>1
    <2>2. CASE phase' = phase /\ mZones' = Without(mZones, id)
      <3>1. id \notin ToSet(mZones')
        BY <1>0, <2>2, WithoutElements DEF DistinctInv, Apart
      <3>2. ToSet(mZones') \subseteq ToSet(mZones)
        <4>1. Without(mZones, id) \in Seq(Names) /\ Within(Without(mZones, id), mZones)
          BY <1>0, WithoutElements
        <4>. QED
          BY <1>0, <2>2, <4>1, ToSetOfSeq DEF Within
      <3>3. \A j \in Names \ {id} : Noted(zone[j]) => Noted(zone'[j])
        BY <1>7, <2>2 DEF Destroyed
      <3>. QED
        BY <1>1, <1>2, <3>1, <3>2, <3>3
    <2>. QED
      BY <1>7, <2>1, <2>2 DEF Destroyed
  <1>. QED
    BY <1>3, <1>4, <1>5, <1>6, <1>7, StepShape
       DEF Lost, Gone, LoadingCut, CreationCut, DestructionCut

\* While the database can be written, the state last requested of a zone is the
\* one a restart will find, however the request itself ended.
THEOREM RequestsPersist ==
  ASSUME "db" \notin Faults
  PROVE  Spec => []RequestPersisted
  <1>1. Init => RequestPersisted /\ RowsInv /\ DistinctInv
    BY ApartEmpty, EmptyHasNone
       DEF Init, RequestPersisted, Known, RowsInv, Rows, DistinctInv, NoConfig
  <1>2. TypeOK /\ RowsInv /\ [Next]_vars => RowsInv'
    BY RowsStep
  <1>3. TypeOK /\ DistinctInv /\ [Next]_vars => DistinctInv'
    BY DistinctStep
  <1>4. TypeOK /\ RowsInv /\ DistinctInv /\ RequestPersisted /\ [Next]_vars => RequestPersisted'
    BY RequestStep
  <1>. QED
    BY <1>1, <1>2, <1>3, <1>4, TypeCorrect, PTL DEF Spec

-----------------------------------------------------------------------------
(* NothingLeaked.                                                          *)

\* Nothing fails that could leave a zone off the list with something left of
\* it: no failing save, removal or copy, and LXC stops what it is told to stop.
LeavesNothing == Faults \cap {"db", "file", "lxc", "image"} = {}

\* While the daemon is down, containers only stop.
LEMMA DownQuiet ==
  ASSUME TypeOK, phase = "down", [Next]_vars
  PROVE  /\ phase' # "stopped"
         /\ \A i \in Names : zone'[i].lxc # "STOPPED" => zone[i].lxc # "STOPPED"
  <1>0. zone \in Zones /\ \A i \in Names : zone[i] \in ZoneSpace(VTs)
    BY Types
  <1>1. CASE UNCHANGED vars
    BY <1>1 DEF vars, memory
  <1>2. CASE Boot \/ LoadingKilled
    <2>1. \A n : \A i \in Names : loaded(n)[i].lxc = zone[i].lxc
      <3>1. \A i \in Names : cleaned[i] \in {zone[i], withoutDir(zone[i])}
        BY DEF cleaned, cleanUpUnknownsFromRoot
      <3>2. \A z \in ZoneSpace(VTs) : withoutDir(z) \in ZoneSpace(VTs) /\ withoutDir(z).lxc = z.lxc
        BY DEF withoutDir, ZoneSpace
      <3>3. \A i \in Names : cleaned[i] \in ZoneSpace(VTs) /\ cleaned[i].lxc = zone[i].lxc
        BY <1>0, <3>1, <3>2
      <3>4. \A z \in ZoneSpace(VTs) : constructed(z).lxc = z.lxc
        BY DEF constructed, ZoneSpace
      <3>. QED
        BY <3>3, <3>4 DEF loaded
    <2>2. \E n : loaded(n) \in Zones /\ (zone' = loaded(n) \/ Lose(loaded(n)))
      <3>1. savedConfig.zoneIds \in Seq(Names) /\ Len(savedConfig.zoneIds) \in Nat
        BY LenProperties DEF TypeOK, Config
      <3>2. /\ \A n \in DOMAIN savedConfig.zoneIds : n - 1 \in 0..Len(savedConfig.zoneIds)
            /\ savedConfig.zoneIds # <<>> => 1 \in 0..Len(savedConfig.zoneIds)
            /\ Len(savedConfig.zoneIds) \in 0..Len(savedConfig.zoneIds)
        BY <3>1, LenProperties, ToSetOfSeq
      <3>3. \E n \in 0..Len(savedConfig.zoneIds) : zone' = loaded(n) \/ Lose(loaded(n))
        BY <1>2, <3>2 DEF Boot, LoadingKilled
      <3>. QED
        BY <3>3, LoadedType
    <2>3. phase' # "stopped"
      BY <1>2 DEF Boot, LoadingKilled, Lose
    <2>4. PICK n : loaded(n) \in Zones /\ (zone' = loaded(n) \/ Lose(loaded(n)))
      BY <2>2
    <2>5. \A z \in ZoneSpace(VTs) : forget(z).lxc = z.lxc
      BY DEF forget, ZoneSpace
    <2>6. \A i \in Names : zone'[i] \in {loaded(n)[i], forget(loaded(n)[i])}
      BY <2>4 DEF Lose
    <2>. QED
      BY <2>1, <2>3, <2>4, <2>5, <2>6 DEF Zones
  <1>3. CASE CleaningKilled
    <2>1. PICK zs : Lose(zs) /\ \A i \in Names : zs[i] \in {zone[i], withoutDir(zone[i])}
      <3>1. PICK left, known :
              Lose([i \in Names |-> IF i \in left THEN zone[i]
                                    ELSE cleanUpUnknownsFromRoot(zone, known)[i]])
        BY <1>3 DEF CleaningKilled
      <3>. QED
        BY <3>1 DEF cleanUpUnknownsFromRoot
    <2>. QED
      BY <1>0, <2>1 DEF Lose, forget, withoutDir, ZoneSpace
  <1>4. ASSUME NEW id \in Names, ZoneDies(id) \/ ZonePowersOff(id)
        PROVE  /\ phase' # "stopped"
               /\ \A i \in Names : zone'[i].lxc # "STOPPED" => zone[i].lxc # "STOPPED"
    BY <1>0, <1>4 DEF ZoneDies, ZonePowersOff, Dead, Zones, ZoneSpace, memory
  <1>. QED
    BY <1>1, <1>2, <1>3, <1>4
       DEF Next, setZonesDetachOnExit, Stop, Exit, Crash, SwitchToDefault, SwitchingSequence,
           CleanUpZonesRoot, RestoreAll, CreateZone, DestroyZone, StartZone, ShutdownZone,
           LockZone, UnlockZone, SetActiveZone

\* What is left of zones belongs to zones that a restart will bring back, and
\* can be destroyed with them; the zones in memory are among those.  Where the
\* daemon was killed, a directory may be left of others until it starts again.
LeakInv ==
  LET listed == ToSet(savedConfig.zoneIds)
  IN  /\ ToSet(mZones) \subseteq listed
      /\ \A i \in Names : /\ i \in listed => Tidy(zone[i])
                          /\ zone[i].lxc # "STOPPED" => i \in listed
      /\ \/ "kill" \in Faults /\ phase = "down"
         \/ \A i \in Names : Left(zone[i]) => i \in listed

LEMMA LeakStep ==
  ASSUME LeavesNothing, CleanUp \/ "kill" \notin Faults, TypeOK, RestartInv, LeakInv, [Next]_vars
  PROVE  LeakInv'
  <1>. DEFINE ids == savedConfig.zoneIds
  <1>0. /\ mZones \in Seq(Names) /\ mDynamicConfig \in Config /\ savedConfig \in Config
        /\ ids \in Seq(Names)
        /\ "db" \notin Faults /\ "file" \notin Faults /\ "lxc" \notin Faults /\ "image" \notin Faults
    BY DEF TypeOK, Config, LeavesNothing
  <1>1. CASE Kept \/ Lost
    <2>1. /\ ids' = ids /\ ToSet(mZones') \subseteq ToSet(ids)
          /\ \A i \in Names : Tidy(zone[i]) => Tidy(zone'[i])
          /\ \A i \in Names : Left(zone'[i]) => Left(zone[i])
          /\ phase' \in {phase, "stopped", "down"}
      BY <1>1, EmptyHasNone DEF Kept, Lost, Follows, Remains, Rests, Keeps, Lasts, LeakInv
    <2>2. CASE phase = "down"
      BY <2>1, <2>2, DownQuiet DEF LeakInv
    <2>3. CASE phase # "down"
      BY <2>1, <2>3 DEF LeakInv, Left
    <2>. QED
      BY <2>2, <2>3
  <1>2. CASE Booted
    <2>1. savedConfig'.zoneIds = ids
      BY <1>0, <1>2, WithDefaultType DEF Booted
    <2>2. ToSet(mZones') \subseteq ToSet(ids)
      <3>1. ASSUME NEW n \in 0..Len(ids), mZones' = SubSeq(ids, 1, n)
            PROVE  ToSet(mZones') \subseteq ToSet(ids)
        BY <1>0, <3>1, SubSeqWithin, ToSetOfSeq DEF Within, ToSet
      <3>. QED
        BY <1>2, <3>1 DEF Booted
    <2>3. \A i \in Names : Left(zone'[i]) => i \in ToSet(ids)
      <3>1. CASE "kill" \notin Faults
        BY <1>2, <2>2, <3>1 DEF Booted, LeakInv
      <3>2. CASE CleanUp
        BY <1>2, <3>2 DEF Booted, LeakInv
      <3>. QED
        BY <3>1, <3>2
    <2>4. \A i \in Names : i \in ToSet(ids) => Tidy(zone'[i])
      BY <1>2 DEF Booted, Remains, Lasts, LeakInv
    <2>. QED
      BY <2>1, <2>2, <2>3, <2>4 DEF LeakInv, Left
  <1>3. CASE LoadingCut
    <2>1. ids' = ids /\ phase = "down" /\ phase' = "down" /\ "kill" \in Faults /\ mZones' = <<>>
      BY <1>3 DEF LoadingCut, Gone
    <2>2. \A i \in Names : Tidy(zone[i]) => Tidy(zone'[i])
      BY <1>3 DEF LoadingCut, Remains, Lasts
    <2>. QED
      BY <2>1, <2>2, DownQuiet, EmptyHasNone DEF LeakInv
  <1>4. ASSUME NEW id \in Names, Created(id) PROVE LeakInv'
    <2>. DEFINE listed == [mDynamicConfig EXCEPT !.zoneIds = Append(@, id)]
                made == [listed EXCEPT !.defaultId = defaultFor(Append(mZones, id), @)]
    <2>0. ids = mZones /\ mDynamicConfig.zoneIds = mZones
      BY <1>4 DEF Created, RestartInv
    <2>1. /\ ~Left(zone[id]) /\ Tidy(zone[id]) /\ Tidy(zone'[id])
          /\ Left(zone'[id]) => id \in ToSet(mZones')
          /\ \A j \in Names \ {id} : zone'[j] = zone[j]
          /\ \A j \in Names : Left(zone[j]) => j \in ToSet(ids)
      <3>1. \A j \in Names : Left(zone[j]) => j \in ToSet(ids)
        BY <1>4 DEF Created, LeakInv
      <3>2. ~Left(zone[id]) /\ Tidy(zone[id])
        BY <1>4, <2>0, <3>1 DEF Created, Known, Left, Tidy
      <3>. QED
        BY <1>0, <1>4, <3>1, <3>2 DEF Created
    <2>2. CASE UNCHANGED <<mZones, savedConfig>>
      BY <1>0, <2>0, <2>1, <2>2 DEF LeakInv, Left
    <2>3. CASE mZones' = Append(mZones, id) /\ savedConfig' = made
      <3>1. made.zoneIds = Append(mZones, id)
        BY <1>0, <2>0 DEF Config
      <3>2. savedConfig'.zoneIds = mZones' /\ ToSet(mZones') = ToSet(mZones) \cup {id}
        BY <1>0, <2>3, <3>1, AppendKeeps
      <3>. HIDE DEF made
      <3>. QED
        BY <1>0, <2>0, <2>1, <3>2 DEF LeakInv, Left
    <2>. QED
      BY <1>0, <1>4, <2>2, <2>3 DEF Created
  <1>5. ASSUME NEW id \in Names, Destroyed(id) PROVE LeakInv'
    <2>. DEFINE zones == Without(mZones, id)
                listed == [mDynamicConfig EXCEPT !.zoneIds = Without(@, id)]
                made == [listed EXCEPT !.defaultId = defaultFor(zones, @)]
    <2>0. ids = mZones /\ mDynamicConfig.zoneIds = mZones
      BY <1>5 DEF Destroyed, RestartInv
    <2>1. made.zoneIds = zones
      BY <1>0, <2>0 DEF Config
    <2>2. savedConfig' = made /\ mZones' \in {<<>>, zones}
      BY <1>0, <1>5 DEF Destroyed
    <2>. HIDE DEF made
    <2>3. /\ \A i \in Names \ {id} : i \in ToSet(mZones) => i \in ToSet(zones)
          /\ \A i \in ToSet(zones) : i \in ToSet(mZones)
      <3>1. Without(mZones, id) \in Seq(Names) /\ Within(Without(mZones, id), mZones)
        BY <1>0, WithoutElements
      <3>2. \A i \in ToSet(zones) : i \in ToSet(mZones)
        BY <1>0, <3>1, ToSetOfSeq DEF Within
      <3>. QED
        BY <1>0, <3>2, WithoutElements, ToSetOfSeq
    <2>4. /\ id \in ToSet(ids) /\ Tidy(zone[id])
          /\ \A i \in Names : Left(zone[i]) => i \in ToSet(ids)
      BY <1>5, <2>0 DEF Destroyed, Known, LeakInv
    <2>5. ~Left(zone'[id]) /\ \A i \in Names : /\ Left(zone'[i]) => Left(zone[i])
                                               /\ Tidy(zone[i]) => Tidy(zone'[i])
      BY <1>0, <1>5, <2>4 DEF Destroyed, Remains, Rests, Lasts
    <2>6. \A i \in Names : Left(zone'[i]) => i \in ToSet(zones)
      BY <2>0, <2>3, <2>4, <2>5
    <2>7. \A i \in Names : i \in ToSet(zones) => Tidy(zone'[i])
      BY <2>0, <2>3, <2>5 DEF LeakInv
    <2>. QED
      BY <2>1, <2>2, <2>6, <2>7, EmptyHasNone DEF LeakInv, Left
  <1>6. ASSUME NEW id \in Names, CreationCut(id) PROVE LeakInv'
    <2>. DEFINE listed == [mDynamicConfig EXCEPT !.zoneIds = Append(@, id)]
    <2>0. /\ ids = mZones /\ mDynamicConfig.zoneIds = mZones
          /\ "kill" \in Faults /\ phase' = "down" /\ mZones' = <<>>
      BY <1>6 DEF CreationCut, Gone, RestartInv
    <2>1. \A j \in Names : Left(zone[j]) => j \in ToSet(ids)
      BY <1>6 DEF CreationCut, LeakInv
    <2>2. \A j \in Names : zone'[j].lxc # "STOPPED" => j \in ToSet(ids)
      <3>1. zone'[id].lxc = zone[id].lxc /\ \A j \in Names \ {id} : Left(zone'[j]) => Left(zone[j])
        BY <1>6 DEF CreationCut
      <3>. QED
        BY <2>1, <3>1 DEF Left
    <2>3. \A j \in Names \ {id} : Tidy(zone[j]) => Tidy(zone'[j])
      BY <1>6 DEF CreationCut, Lasts
    <2>4. CASE UNCHANGED savedConfig
      <3>1. id \notin ToSet(ids)
        BY <1>6, <2>0 DEF CreationCut, Known
      <3>. QED
        BY <2>0, <2>2, <2>3, <2>4, <3>1, EmptyHasNone DEF LeakInv
    <2>5. CASE savedConfig' = listed /\ Tidy(zone'[id])
      <3>1. listed.zoneIds = Append(mZones, id)
        BY <1>0, <2>0 DEF Config
      <3>2. ToSet(savedConfig'.zoneIds) = ToSet(mZones) \cup {id}
        BY <1>0, <2>5, <3>1, AppendKeeps
      <3>. HIDE DEF listed
      <3>. QED
        BY <2>0, <2>2, <2>3, <2>5, <3>2, EmptyHasNone DEF LeakInv
    <2>. QED
      BY <1>6, <2>4, <2>5 DEF CreationCut
  <1>7. ASSUME NEW id \in Names, DestructionCut(id) PROVE LeakInv'
    <2>. DEFINE zones == Without(mZones, id)
                listed == [mDynamicConfig EXCEPT !.zoneIds = Without(@, id)]
    <2>0. /\ ids = mZones /\ mDynamicConfig.zoneIds = mZones
          /\ "kill" \in Faults /\ phase' = "down" /\ mZones' = <<>>
      BY <1>7 DEF DestructionCut, Gone, RestartInv
    <2>1. /\ id \in ToSet(ids) /\ Tidy(zone[id])
          /\ \A i \in Names : Left(zone[i]) => i \in ToSet(ids)
          /\ \A i \in Names : /\ Left(zone'[i]) => Left(zone[i])
                              /\ Tidy(zone[i]) => Tidy(zone'[i])
      BY <1>7, <2>0 DEF DestructionCut, Remains, Rests, Lasts, Known, LeakInv
    <2>2. CASE UNCHANGED savedConfig
      BY <2>0, <2>1, <2>2, EmptyHasNone DEF LeakInv, Left
    <2>3. CASE savedConfig' = listed /\ ~Left(zone'[id])
      <3>1. listed.zoneIds = zones
        BY <1>0, <2>0 DEF Config
      <3>2. Without(mZones, id) \in Seq(Names) /\ Within(Without(mZones, id), mZones)
        BY <1>0, WithoutElements
      <3>3. \A i \in ToSet(zones) : i \in ToSet(mZones)
        BY <1>0, <3>2, ToSetOfSeq DEF Within
      <3>4. \A i \in Names \ {id} : i \in ToSet(mZones) => i \in ToSet(zones)
        BY <1>0, WithoutElements, ToSetOfSeq
      <3>. HIDE DEF listed
      <3>. QED
        BY <2>0, <2>1, <2>3, <3>1, <3>3, <3>4, EmptyHasNone DEF LeakInv, Left
    <2>. QED
      BY <1>0, <1>7, <2>1, <2>2, <2>3 DEF DestructionCut
  <1>. QED
    BY <1>1, <1>2, <1>3, <1>4, <1>5, <1>6, <1>7, StepShape

\* While nothing fails that keeps a zone from being saved, copied, stopped or
\* removed, neither a container nor a directory that would keep its name from
\* being used again is left without a zone while the daemon runs: whatever step
\* of createZone fails, and wherever a daemon was killed, if the configuration
\* has the next one clean up.
THEOREM NothingIsLeaked ==
  ASSUME LeavesNothing, CleanUp \/ "kill" \notin Faults
  PROVE  Spec => []NothingLeaked
  <1>0. "db" \notin Faults /\ "file" \notin Faults
    BY DEF LeavesNothing
  <1>1. Init => RestartInv /\ LeakInv
    BY EmptyHasNone DEF Init, RestartInv, LeakInv, Left, Tidy, NoConfig
  <1>2. TypeOK /\ RestartInv /\ [Next]_vars => RestartInv'
    BY <1>0, RestartStep
  <1>3. TypeOK /\ RestartInv /\ LeakInv /\ [Next]_vars => LeakInv'
    BY LeakStep
  <1>4. RestartInv /\ LeakInv => NothingLeaked
    BY DEF RestartInv, LeakInv, NothingLeaked, Left, Known
  <1>. QED
    BY <1>1, <1>2, <1>3, <1>4, TypeCorrect, PTL DEF Spec

-----------------------------------------------------------------------------
(* SwitchingReachesAll.                                                    *)

LEMMA AroundOnce ==
  ASSUME NEW l \in Nat \ {0}, NEW a \in 0..2 * l - 1
  PROVE  a % l = IF a < l THEN a ELSE a - l
  <1>1. CASE a < l
    BY <1>1, SMT
  <1>2. CASE a >= l
    BY <1>2, SMT
  <1>. QED
    BY <1>1, <1>2

\* Of a set of running zones that is closed under "next" and of a zone outside
\* of it, take the two that are nearest in the circle: "next" comes as near.
LEMMA ClosedIsAll ==
  ASSUME NEW zs \in Zones, NEW s \in Seq(Names),
         \A m, n \in DOMAIN s : m # n => s[m] # s[n],
         NEW S, S # {},
         \A i \in S : i \in ToSet(s) /\ circularFindNext(zs, s, i) \in S,
         NEW j \in ToSet(s), zoneIsRunning(zs, j), j \notin S
  PROVE  FALSE
  <1>. DEFINE l == Len(s)
              at(p, k) == 1 + ((p - 1 + k) % l)
              running(p) == {k \in 1..l - 1 : zoneIsRunning(zs, s[at(p, k)])}
              joins(p, d) == /\ s[p] \in S
                             /\ s[at(p, d)] \notin S /\ zoneIsRunning(zs, s[at(p, d)])
              distances == {d \in 1..l - 1 : \E p \in 1..l : joins(p, d)}
  <1>1. DOMAIN s = 1..l /\ l \in Nat
    BY LenProperties
  <1>2. PICK p0 \in 1..l : s[p0] \in S
    <2>1. PICK i \in S : i \in ToSet(s)
      OBVIOUS
    <2>. QED
      BY <1>1, <2>1, ToSetOfSeq
  <1>3. PICK q0 \in 1..l : s[q0] = j
    BY <1>1, ToSetOfSeq
  <1>4. l \in Nat \ {0} /\ p0 \in Int /\ q0 \in Int /\ p0 # q0
    BY <1>1, <1>2, <1>3
  <1>. HIDE DEF l
  <1>5. \A p \in 1..l : \A k \in 1..l - 1 :
          at(p, k) = IF p + k <= l THEN p + k ELSE p + k - l
    <2>. SUFFICES ASSUME NEW p \in 1..l, NEW k \in 1..l - 1
                  PROVE  at(p, k) = IF p + k <= l THEN p + k ELSE p + k - l
      OBVIOUS
    <2>1. p - 1 + k \in 0..2 * l - 1 /\ p \in Int /\ k \in Int
      BY <1>4
    <2>. DEFINE a == p - 1 + k
    <2>2. a % l = IF a < l THEN a ELSE a - l
      BY <1>4, <2>1, AroundOnce
    <2>. QED
      BY <1>4, <2>2 DEF at
  <1>. HIDE DEF at
  <1>6. distances # {}
    <2>. DEFINE d == IF q0 > p0 THEN q0 - p0 ELSE q0 - p0 + l
    <2>1. d \in 1..l - 1 /\ at(p0, d) = q0
      <3>1. d \in 1..l - 1
        BY <1>4
      <3>2. at(p0, d) = IF p0 + d <= l THEN p0 + d ELSE p0 + d - l
        BY <1>5, <3>1
      <3>. QED
        BY <1>4, <3>1, <3>2
    <2>2. joins(p0, d)
      BY <1>2, <1>3, <2>1
    <2>. HIDE DEF d
    <2>. QED
      BY <2>1, <2>2
  <1>7. distances \in SUBSET Nat
    BY <1>4
  <1>. DEFINE d == Min(distances)
  <1>8. d \in distances /\ \A n \in distances : d <= n
    BY <1>6, <1>7, MinOfNats
  <1>9. PICK p \in 1..l : joins(p, d)
    BY <1>8
  <1>. HIDE DEF d
  <1>10. d \in 1..l - 1 /\ d \in running(p)
    BY <1>8, <1>9
  <1>. DEFINE m == Min(running(p))
  <1>11. m \in running(p) /\ m <= d
    <2>1. running(p) \in SUBSET Nat
      BY <1>4
    <2>. QED
      BY <1>10, <2>1, MinOfNats
  <1>12. circularFindNext(zs, s, s[p]) = s[at(p, m)]
    <2>. DEFINE c == CHOOSE n \in DOMAIN s : s[n] = s[p]
                ahead(k) == s[1 + ((c - 1 + k) % Len(s))]
                found == {k \in 1..Len(s) - 1 : zoneIsRunning(zs, ahead(k))}
    <2>1. c = p
      BY <1>1
    <2>2. circularFindNext(zs, s, s[p]) = IF found = {} THEN NoZone ELSE ahead(Min(found))
      BY DEF circularFindNext
    <2>. HIDE DEF c
    <2>3. found = running(p) /\ \A k : ahead(k) = s[at(p, k)]
      BY <2>1 DEF at, l
    <2>. HIDE DEF ahead, found, running
    <2>. QED
      BY <1>10, <2>2, <2>3 DEF m
  <1>. HIDE DEF m
  <1>13. s[at(p, m)] \in S /\ m \in 1..l - 1
    BY <1>9, <1>11, <1>12
  <1>14. m # d
    BY <1>9, <1>13
  <1>15. d - m \in 1..l - 1 /\ d - m < d
    BY <1>4, <1>10, <1>11, <1>13, <1>14
  <1>16. at(p, m) \in 1..l /\ at(at(p, m), d - m) = at(p, d)
    <2>1. at(p, m) = IF p + m <= l THEN p + m ELSE p + m - l
      BY <1>5, <1>13
    <2>2. at(p, d) = IF p + d <= l THEN p + d ELSE p + d - l
      BY <1>5, <1>10
    <2>3. at(p, m) \in 1..l
      BY <1>4, <1>13, <2>1
    <2>4. at(at(p, m), d - m) = IF at(p, m) + (d - m) <= l THEN at(p, m) + (d - m)
                                ELSE at(p, m) + (d - m) - l
      BY <1>5, <1>15, <2>3
    <2>. QED
      BY <1>4, <1>10, <1>13, <1>15, <2>1, <2>2, <2>3, <2>4
  <1>17. joins(at(p, m), d - m)
    BY <1>9, <1>13, <1>16
  <1>18. d - m \in distances
    BY <1>15, <1>16, <1>17
  <1>. QED
    BY <1>4, <1>8, <1>10, <1>15, <1>18

\* While the database can be written, the keyboard sequence reaches every
\* running zone from every other, whatever else fails: there is no part of the
\* circle that it does not leave.
THEOREM SwitchingReachesEveryZone ==
  ASSUME "db" \notin Faults
  PROVE  Spec => []SwitchingReachesAll
  <1>1. Init => DistinctInv
    BY ApartEmpty DEF Init, DistinctInv, NoConfig
  <1>2. TypeOK /\ DistinctInv /\ [Next]_vars => DistinctInv'
    BY DistinctStep
  <1>3. TypeOK /\ DistinctInv => SwitchingReachesAll
    <2>. SUFFICES ASSUME TypeOK, DistinctInv, NEW S \in SUBSET Running, S # {},
                         \A i \in S : circularFindNext(zone, mZones, i) \in S,
                         NEW j \in Running, j \notin S
                  PROVE  FALSE
      BY DEF SwitchingReachesAll
    <2>1. zone \in Zones /\ mZones \in Seq(Names)
      BY Types
    <2>2. \A m, n \in DOMAIN mZones : m # n => mZones[m] # mZones[n]
      BY DEF DistinctInv, Apart
    <2>3. \A i \in Running : i \in ToSet(mZones) /\ zoneIsRunning(zone, i)
      BY DEF Running, Known
    <2>. QED
      BY <2>1, <2>2, <2>3, ClosedIsAll
  <1>. QED
    BY <1>1, <1>2, <1>3, TypeCorrect, PTL DEF Spec

-----------------------------------------------------------------------------
(* While nothing fails: OneForeground, FocusFollows, AnswersTrue,          *)
(* ScreenShowsActive and AssertsHold.                                      *)

\* No call into the system fails, but that lxc-create may.
Undisturbed == Faults \subseteq {"create"}

\* It runs, with the CPU quota of the foreground.
Bright(z) == z.lxc = "RUNNING" /\ z.level = "fg"

\* No frozen zone would come back in the foreground.
Dimmed(zs) == \A i \in Names : zs[i].lxc = "FROZEN" => zs[i].level # "fg"

\* Moreover, one zone at most is there.
Lit(zs) ==
  /\ Dimmed(zs)
  /\ \A i, j \in Names : Bright(zs[i]) /\ Bright(zs[j]) => i = j

\* No other than the active zone is in the foreground, and it is on the screen.
InFocus(zs, active, shown) ==
  /\ Lit(zs)
  /\ active # NoZone => /\ \A i \in Names : Bright(zs[i]) => i = active
                        /\ zs[active].vt \in {NoVT, shown}

\* No zone of ys got brighter than it is in zs.
Dims(ys, zs) ==
  \A i \in Names : /\ ys[i].vt = zs[i].vt
                   /\ \/ ys[i].lxc = zs[i].lxc /\ ys[i].level = zs[i].level
                      \/ ys[i].lxc \in {"RUNNING", "FROZEN"} => ys[i].level # "fg"

\* They differ in their levels only.
Relevelled(ys, zs) ==
  \A i \in Names : \E l \in Levels : ys[i] = [zs[i] EXCEPT !.level = l]

LEMMA DimsKeeps ==
  ASSUME NEW ys, NEW zs, Dims(ys, zs)
  PROVE  /\ Lit(zs) => Lit(ys)
         /\ \A active \in Names \cup {NoZone} : \A shown :
              InFocus(zs, active, shown) => InFocus(ys, active, shown)
  <1>1. \A i \in Names : /\ Bright(ys[i]) => Bright(zs[i])
                         /\ ys[i].lxc = "FROZEN" /\ ys[i].level = "fg"
                              => zs[i].lxc = "FROZEN" /\ zs[i].level = "fg"
                         /\ ys[i].vt = zs[i].vt
    BY DEF Dims, Bright
  <1>2. Lit(zs) => Lit(ys)
    BY <1>1 DEF Lit, Dimmed
  <1>. QED
    BY <1>1, <1>2 DEF InFocus

\* The methods, when nothing fails.
Asked(z, state) ==
  IF z.requested = state THEN z ELSE [z EXCEPT !.requested = state, !.saved = state]

LEMMA AskedType ==
  ASSUME NEW z \in ZoneSpace(VTs), NEW state \in Requests
  PROVE  LET y == Asked(z, state)
         IN  /\ y \in ZoneSpace(VTs) /\ y.requested = state /\ y.lxc = z.lxc /\ y.level = z.level
             /\ y.vt = z.vt /\ y.defined = z.defined
  BY DEF Asked, ZoneSpace, Requests

LEMMA CalmMethods ==
  ASSUME Undisturbed, NEW z
  PROVE  /\ \A state : updateRequestedState(z, state) = {Done(Asked(z, state))}
         /\ \A level : setSchedulerLevel(z, level) = {Done([z EXCEPT !.level = level])}
         /\ powerOff(z) = {Done(IF z.lxc = "STOPPED" THEN z ELSE Dead(z))}
         /\ suspend(z) = {Done(Asked([z EXCEPT !.lxc = "FROZEN"], "paused"))}
         /\ resume(z) = {Done(Asked([z EXCEPT !.lxc = "RUNNING"], "running"))}
  <1>1. \A fault \in {"db", "cgroup", "lxc", "die", "vt", "kill"} : \A outcomes : May(fault, outcomes) = {}
    BY DEF May, Undisturbed
  <1>2. \A y, state : updateRequestedState(y, state) = {Done(Asked(y, state))}
    BY <1>1 DEF updateRequestedState, Asked
  <1>3. \A level : setSchedulerLevel(z, level) = {Done([z EXCEPT !.level = level])}
    BY <1>1 DEF setSchedulerLevel
  <1>4. powerOff(z) = {Done(IF z.lxc = "STOPPED" THEN z ELSE Dead(z))}
    BY <1>1 DEF powerOff
  <1>5. \A y : Done(y).result = "ok" /\ Done(y).zone = y
    BY DEF Done
  <1>6. suspend(z) = AndThen({Done([z EXCEPT !.lxc = "FROZEN"])}, notePaused)
    BY <1>1 DEF suspend, moved
  <1>7. resume(z) = AndThen({Done([z EXCEPT !.lxc = "RUNNING"])}, noteRunning)
    BY <1>1 DEF resume, moved
  <1>8. \A y : /\ AndThen({Done(y)}, notePaused) = notePaused(y)
               /\ AndThen({Done(y)}, noteRunning) = noteRunning(y)
    BY <1>5 DEF AndThen
  <1>. QED
    BY <1>2, <1>3, <1>4, <1>6, <1>7, <1>8 DEF notePaused, noteRunning

\* What start leaves: the zone as it was, with the request noted, or running.
LEMMA CalmStart ==
  ASSUME Undisturbed, NEW z \in ZoneSpace(VTs), NEW o \in start(z)
  PROVE  /\ o.zone \in ZoneSpace(VTs) /\ o.zone.vt = z.vt
         /\ \/ o.result = "zoneop" /\ o.zone.lxc = z.lxc /\ o.zone.level = z.level
            \/ /\ o.result = "ok" /\ o.zone.lxc = "RUNNING" /\ o.zone.requested = "running"
               /\ \/ z.lxc = "RUNNING" /\ o.zone.level = z.level
                  \/ z.lxc = "STOPPED"
  <1>. DEFINE y == Asked(z, "running")
              up == [[y EXCEPT !.lxc = "RUNNING"] EXCEPT !.level = "fg"]
  <1>1. /\ y \in ZoneSpace(VTs) /\ y.requested = "running" /\ y.lxc = z.lxc /\ y.level = z.level
        /\ y.vt = z.vt
    BY AskedType DEF Requests
  <1>2. o \in launch(y)
    <2>1. \A x : Done(x).result = "ok" /\ Done(x).zone = x
      BY DEF Done
    <2>2. start(z) = AndThen({Done(y)}, launch)
      BY CalmMethods DEF start
    <2>. HIDE DEF y
    <2>. QED
      BY <2>1, <2>2 DEF AndThen
  <1>. HIDE DEF y
  <1>3. \/ o = Done(y) /\ y.lxc = "RUNNING"
        \/ o = Thrown(y, "zoneop")
        \/ o = Done(up) /\ y.lxc = "STOPPED"
    <2>1. \A fault \in {"die", "lxc", "kill"} : \A outcomes : May(fault, outcomes) = {}
      BY DEF May, Undisturbed
    <2>2. setSchedulerLevel([y EXCEPT !.lxc = "RUNNING"], "fg") = {Done(up)}
      BY CalmMethods
    <2>. HIDE DEF up
    <2>. QED
      BY <1>2, <2>1, <2>2 DEF launch
  <1>4. /\ up \in ZoneSpace(VTs) /\ up.vt = y.vt /\ up.requested = y.requested
        /\ up.lxc = "RUNNING"
    BY <1>1 DEF ZoneSpace, LxcStates, Levels
  <1>. HIDE DEF up
  <1>. QED
    BY <1>1, <1>3, <1>4 DEF Done, Thrown

LEMMA CalmStop ==
  ASSUME Undisturbed, NEW z \in ZoneSpace(VTs), NEW saveState \in BOOLEAN
  PROVE  \E w \in ZoneSpace(VTs) : /\ stop(z, saveState) = {Done(w)}
                                   /\ w.vt = z.vt /\ w.lxc = "STOPPED"
                                   /\ IF saveState THEN w.requested = "stopped"
                                      ELSE w.saved = z.saved
  <1>. DEFINE y == IF saveState THEN Asked(z, "stopped") ELSE z
              x == IF y.lxc = "RUNNING" THEN [y EXCEPT !.level = "fg"] ELSE y
              w == IF x.lxc = "STOPPED" THEN x ELSE Dead(x)
  <1>1. /\ y \in ZoneSpace(VTs) /\ y.vt = z.vt /\ y.lxc = z.lxc
        /\ IF saveState THEN y.requested = "stopped" ELSE y.saved = z.saved
    BY AskedType DEF Requests
  <1>2. stop(z, saveState) = AndThen(AndThen({Done(y)}, boost), powerOff)
    BY CalmMethods DEF stop
  <1>3. \A v : Done(v).result = "ok" /\ Done(v).zone = v
    BY DEF Done
  <1>. HIDE DEF y
  <1>4. boost(y) = {Done(x)}
    BY CalmMethods DEF boost
  <1>5. x \in ZoneSpace(VTs) /\ x.vt = y.vt /\ x.requested = y.requested /\ x.saved = y.saved
    BY <1>1 DEF ZoneSpace, Levels
  <1>. HIDE DEF x
  <1>6. powerOff(x) = {Done(w)}
    BY CalmMethods
  <1>7. w \in ZoneSpace(VTs) /\ w.vt = x.vt /\ w.lxc = "STOPPED" /\ w.requested = x.requested
        /\ w.saved = x.saved
    BY <1>5 DEF ZoneSpace, Dead, LxcStates, Levels
  <1>. HIDE DEF w
  <1>8. AndThen({Done(y)}, boost) = {Done(x)}
    BY <1>3, <1>4 DEF AndThen
  <1>9. AndThen({Done(x)}, powerOff) = {Done(w)}
    BY <1>3, <1>6 DEF AndThen
  <1>. QED
    BY <1>1, <1>2, <1>5, <1>7, <1>8, <1>9

\* ForEach, with a method that always passes, in one way.
LEMMA ForEachDone ==
  ASSUME NEW zs, NEW zones \in Seq(Names), NEW method,
         \A i \in Names : \E y : method[i] = {Done(y)},
         NEW o \in ForEach(zs, zones, method)
  PROVE  /\ o.result = "ok"
         /\ \A i \in Names : IF i \in ToSet(zones) THEN Done(o.zone[i]) \in method[i]
                             ELSE o.zone[i] = zs[i]
  <1>. DEFINE passed(i) == {p \in method[i] : p.result = "ok"}
              failed(i) == method[i] \ passed(i)
              reached(n) == \A m \in 1..n - 1 : passed(zones[m]) # {}
              before(n) == [i \in Names |->
                              IF \E m \in 1..n - 1 : zones[m] = i
                                THEN (CHOOSE p \in passed(i) : TRUE).zone
                                ELSE zs[i]]
  <1>1. \A y : Done(y).result = "ok" /\ Done(y).zone = y
    BY DEF Done
  <1>2. \A i \in Names : passed(i) = method[i] /\ failed(i) = {}
    BY <1>1
  <1>3. \A i \in Names : Done((CHOOSE p \in passed(i) : TRUE).zone) \in method[i]
    <2>. SUFFICES ASSUME NEW i \in Names
                  PROVE  Done((CHOOSE p \in passed(i) : TRUE).zone) \in method[i]
      OBVIOUS
    <2>1. PICK y : method[i] = {Done(y)}
      OBVIOUS
    <2>2. (CHOOSE p \in passed(i) : TRUE) = Done(y)
      BY <1>2, <2>1
    <2>. QED
      BY <1>1, <2>1, <2>2
  <1>4. DOMAIN zones = 1..Len(zones) /\ Len(zones) \in Nat /\ \A n \in DOMAIN zones : zones[n] \in Names
    BY LenProperties, ElementOfSeq
  <1>5. ForEach(zs, zones, method) =
          {Done(before(n)) : n \in {m \in {Len(zones) + 1} : reached(m)}}
          \cup UNION {{Thrown([before(n) EXCEPT ![zones[n]] = p.zone], p.result) :
                         p \in failed(zones[n])} : n \in {m \in DOMAIN zones : reached(m)}}
    BY DEF ForEach
  <1>. HIDE DEF passed
  <1>6. \A i \in Names : (\E m \in 1..Len(zones) + 1 - 1 : zones[m] = i) <=> i \in ToSet(zones)
    BY <1>4 DEF ToSet
  <1>7. \A i \in Names : IF i \in ToSet(zones) THEN Done(before(Len(zones) + 1)[i]) \in method[i]
                          ELSE before(Len(zones) + 1)[i] = zs[i]
    BY <1>3, <1>6
  <1>. HIDE DEF failed, reached, before
  <1>8. o = Done(before(Len(zones) + 1))
    <2>1. \A n \in DOMAIN zones : failed(zones[n]) = {}
      BY <1>2, <1>4
    <2>. QED
      BY <1>5, <2>1
  <1>. QED
    BY <1>1, <1>7, <1>8

\* No fault: a zone that runs gets the focus, and no other keeps it.
LEMMA CalmFocus ==
  ASSUME Undisturbed, NEW zs \in Zones, NEW zones \in Seq(Names), NEW id \in ToSet(zones),
         zoneIsRunning(zs, id), Dimmed(zs),
         \A i \in Names : zs[i].lxc = "RUNNING" => i \in ToSet(zones),
         id = mActiveZoneId => InFocus(zs, id, shownVT),
         NEW f \in focusInternal(zs, zones, id)
  PROVE  /\ f.result = "ok" /\ f.active = id
         /\ InFocus(f.zone, id, f.shown) /\ Relevelled(f.zone, zs)
  <1>0. id \in Names /\ id # NoZone
    BY ToSetOfSeq, NamesAssumption
  <1>1. \A i \in Names : /\ zs[i] \in ZoneSpace(VTs) /\ zs[i].level \in Levels
                         /\ zs[i] = [zs[i] EXCEPT !.level = zs[i].level]
    BY DEF Zones, ZoneSpace
  <1>2. CASE id = mActiveZoneId
    <2>1. f = Focus(zs, id, shownVT, "ok")
      BY <1>0, <1>2 DEF focusInternal
    <2>2. Relevelled(zs, zs)
      BY <1>1 DEF Relevelled
    <2>. QED
      BY <1>2, <2>1, <2>2 DEF Focus
  <1>3. CASE id # mActiveZoneId
    <2>. DEFINE level(i) == IF i = id THEN "fg" ELSE "bg"
                next == [i \in Names |-> IF zs[i].lxc = "RUNNING"
                                           THEN [zs[i] EXCEPT !.level = level(i)] ELSE zs[i]]
                method == [i \in Names |->
                  IF zs[i].lxc = "RUNNING"
                    THEN setSchedulerLevel(zs[i], IF i = id THEN "fg" ELSE "bg")
                    ELSE {Done(zs[i])}]
                shown == IF zs[id].vt = NoVT THEN shownVT ELSE zs[id].vt
    <2>1. f \in focusZone(zs, zones, id)
      BY <1>0, <1>3 DEF focusInternal
    <2>2. PICK o \in ForEach(zs, zones, method) :
            f = Focus(o.zone, IF o.result = "ok" THEN id ELSE mActiveZoneId, shown, o.result)
      <3>1. \A outcomes : May("vt", outcomes) = {} /\ May("kill", outcomes) = {}
        BY DEF May, Undisturbed
      <3>2. setLevels(zs, zones, id) = ForEach(zs, zones, method)
        BY DEF setLevels
      <3>. HIDE DEF method
      <3>. QED
        BY <2>1, <3>1, <3>2 DEF focusZone
    <2>3. \A i \in Names : method[i] = {Done(next[i])}
      BY CalmMethods
    <2>. HIDE DEF method, next
    <2>4. /\ o.result = "ok"
          /\ \A i \in Names : IF i \in ToSet(zones) THEN Done(o.zone[i]) \in method[i]
                              ELSE o.zone[i] = zs[i]
      BY <2>2, <2>3, ForEachDone
    <2>5. \A i \in Names : o.zone[i] = IF zs[i].lxc = "RUNNING"
                                         THEN [zs[i] EXCEPT !.level = level(i)] ELSE zs[i]
      <3>. SUFFICES ASSUME NEW i \in Names
                    PROVE  o.zone[i] = next[i] 
        BY DEF next
      <3>1. \A x, y : Done(x) = Done(y) => x = y
        <4>1. \A x : Done(x).zone = x
          BY DEF Done
        <4>. QED
          BY <4>1
      <3>2. CASE i \in ToSet(zones)
        <4>1. Done(o.zone[i]) = Done(next[i])
          BY <2>3, <2>4, <3>2
        <4>. QED
          BY <3>1, <4>1
      <3>3. CASE i \notin ToSet(zones)
        BY <2>4, <3>3 DEF next
      <3>. QED
        BY <3>2, <3>3
    <2>. HIDE DEF level
    <2>6. \A i \in Names : /\ level(i) \in Levels
                           /\ level(i) = "fg" => i = id
      BY DEF level, Levels
    <2>7. \A i \in Names : /\ o.zone[i].lxc = zs[i].lxc /\ o.zone[i].vt = zs[i].vt
                           /\ zs[i].lxc = "RUNNING" => o.zone[i].level = level(i)
                           /\ zs[i].lxc # "RUNNING" => o.zone[i].level = zs[i].level
      BY <1>1, <2>5, <2>6 DEF ZoneSpace
    <2>8. Relevelled(o.zone, zs)
      BY <1>1, <2>5, <2>6 DEF Relevelled
    <2>9. InFocus(o.zone, id, shown)
      BY <1>0, <2>6, <2>7 DEF InFocus, Lit, Dimmed, Bright
    <2>. HIDE DEF shown
    <2>. QED
      BY <2>2, <2>4, <2>8, <2>9 DEF Focus
  <1>. QED
    BY <1>2, <1>3

\* If a zone of the list runs, there is a first one.
LEMMA FirstRunningFound ==
  ASSUME NEW zs \in Zones, NEW zones \in Seq(Names), NEW i \in ToSet(zones), zoneIsRunning(zs, i)
  PROVE  firstRunning(zs, zones) # NoZone
  <1>. DEFINE running == {n \in DOMAIN zones : zoneIsRunning(zs, zones[n])}
  <1>1. running # {}
    BY ToSetOfSeq
  <1>2. running \in SUBSET Nat
    BY LenProperties
  <1>3. Min(running) \in running
    BY <1>1, <1>2, MinOfNats
  <1>4. firstRunning(zs, zones) = zones[Min(running)]
    BY <1>1 DEF firstRunning
  <1>. QED
    BY <1>3, <1>4, ElementOfSeq, NamesAssumption

\* Nothing runs: the focus goes to the host.
LEMMA HostFocus ==
  ASSUME Undisturbed, NEW zs \in Zones, NEW zones \in Seq(Names), NEW defaultId,
         \A i \in ToSet(zones) : ~zoneIsRunning(zs, i),
         NEW f \in refocus(zs, zones, defaultId)
  PROVE  f.result = "ok" /\ f.active = NoZone /\ f.zone = zs
  <1>1. firstRunning(zs, zones) = NoZone
    BY FirstRunningType
  <1>2. f \in focusHost(zs)
    BY <1>1 DEF refocus, focusInternal
  <1>. QED
    BY <1>2 DEF focusHost, May, Undisturbed, Focus

\* No fault: refocus leaves the focus on a zone that runs, if one does.
LEMMA CalmRefocus ==
  ASSUME Undisturbed, NEW zs \in Zones, NEW zones \in Seq(Names), NEW defaultId, Lit(zs),
         \A i \in Names : zs[i].lxc = "RUNNING" => i \in ToSet(zones),
         mActiveZoneId \in ToSet(zones) => InFocus(zs, mActiveZoneId, shownVT),
         NEW f \in refocus(zs, zones, defaultId)
  PROVE  /\ f.result = "ok"
         /\ InFocus(f.zone, f.active, f.shown) /\ Relevelled(f.zone, zs)
         /\ IF \E i \in ToSet(zones) : zoneIsRunning(zs, i)
              THEN f.active \in ToSet(zones) /\ zoneIsRunning(zs, f.active)
              ELSE f.active = NoZone
  <1>0. Relevelled(zs, zs)
    BY DEF Relevelled, Zones, ZoneSpace
  <1>1. CASE mActiveZoneId \in ToSet(zones) /\ zoneIsRunning(zs, mActiveZoneId)
    <2>1. f = Focus(zs, mActiveZoneId, shownVT, "ok")
      BY <1>1 DEF refocus
    <2>. QED
      BY <1>0, <1>1, <2>1 DEF Focus
  <1>2. ASSUME NEW id \in ToSet(zones), zoneIsRunning(zs, id), f \in focusInternal(zs, zones, id)
        PROVE  /\ f.result = "ok" /\ f.active = id
               /\ InFocus(f.zone, f.active, f.shown) /\ Relevelled(f.zone, zs)
    BY <1>2, CalmFocus DEF Lit
  <1>3. CASE \A i \in ToSet(zones) : ~zoneIsRunning(zs, i)
    BY <1>0, <1>3, HostFocus DEF InFocus
  <1>4. CASE /\ ~(mActiveZoneId \in ToSet(zones) /\ zoneIsRunning(zs, mActiveZoneId))
             /\ \E i \in ToSet(zones) : zoneIsRunning(zs, i)
    <2>1. PICK id \in ToSet(zones) : zoneIsRunning(zs, id) /\ f \in focusInternal(zs, zones, id)
      BY <1>4, FirstRunningFound, FirstRunningType DEF refocus
    <2>. QED
      BY <1>2, <1>4, <2>1
  <1>. QED
    BY <1>1, <1>3, <1>4

\* What holds of the zones and the focus while nothing fails.
Focused == InFocus(zone, mActiveZoneId, shownVT)

\* What holds of the answers.
Truthful == FocusFollows /\ AnswersTrue /\ AssertsHold

\* The zones that are up are on the list.
Settled == \A i \in Names : zone[i].lxc # "STOPPED" => i \in ToSet(mZones)

LEMMA Silent ==
  ASSUME \/ reply' = NoReply
         \/ reply'.answer # "ok" /\ phase' # "down"
  PROVE  Truthful'
  BY DEF Truthful, FocusFollows, AnswersTrue, AssertsHold, NoReply

\* A step that brings no zone to the foreground.
LEMMA DimmingStep ==
  ASSUME TypeOK, Focused, Dims(zone', zone), shownVT' = shownVT,
         mActiveZoneId' \in {mActiveZoneId, NoZone}
  PROVE  Focused'
  <1>1. CASE mActiveZoneId' = mActiveZoneId
    BY <1>1, Types, DimsKeeps DEF Focused
  <1>2. CASE mActiveZoneId' = NoZone
    BY <1>2, DimsKeeps DEF Focused, InFocus
  <1>. QED
    BY <1>1, <1>2

LEMMA CalmRefuse ==
  ASSUME Focused, phase = "running", NEW call, NEW id, Refuse(call, id)
  PROVE  Focused' /\ Truthful'
  BY Silent DEF Refuse, Answer, memory, Focused

LEMMA CalmBoot ==
  ASSUME TypeOK, Focused, Boot
  PROVE  Focused' /\ Truthful'
  <1>. DEFINE ids == savedConfig.zoneIds
              zs == cleaned
  <1>1. PICK n : zone' = [i \in Names |->
                            IF \E m \in 1..n : ids[m] = i THEN constructed(zs[i]) ELSE zs[i]]
    BY DEF Boot, loaded
  <1>2. \A i \in Names : zs[i] \in {zone[i], withoutDir(zone[i])}
    BY Types DEF cleaned, cleanUpUnknownsFromRoot
  <1>. HIDE DEF zs
  <1>3. \A z \in ZoneSpace(VTs) :
          \A y \in {z, withoutDir(z), constructed(z), constructed(withoutDir(z))} :
            y.vt = z.vt /\ y.lxc = z.lxc /\ y.level = z.level
    BY DEF withoutDir, constructed, ZoneSpace
  <1>4. ASSUME NEW i \in Names
        PROVE  zone'[i] \in {zone[i], withoutDir(zone[i]), constructed(zone[i]),
                             constructed(withoutDir(zone[i]))}
    BY <1>1, <1>2
  <1>5. Dims(zone', zone)
    BY <1>3, <1>4, Types DEF Dims
  <1>. QED
    BY <1>5, DimmingStep, Silent DEF Boot

LEMMA CalmDetach ==
  ASSUME TypeOK, Focused, setZonesDetachOnExit
  PROVE  Focused' /\ Truthful'
  <1>1. \A i \in Names : /\ [zone[i] EXCEPT !.detach = TRUE].vt = zone[i].vt
                         /\ [zone[i] EXCEPT !.detach = TRUE].lxc = zone[i].lxc
                         /\ [zone[i] EXCEPT !.detach = TRUE].level = zone[i].level
    BY Types DEF ZoneSpace
  <1>2. Dims(zone', zone)
    BY <1>1 DEF setZonesDetachOnExit, Dims
  <1>. QED
    BY <1>2, DimmingStep, Silent DEF setZonesDetachOnExit

LEMMA CalmLose ==
  ASSUME TypeOK, Focused, NEW zs \in Zones, Dims(zs, zone), Lose(zs), shownVT' = shownVT,
         reply' = NoReply
  PROVE  Focused' /\ Truthful'
  <1>1. \A z \in ZoneSpace(VTs) :
          forget(z).vt = z.vt /\ forget(z).lxc = z.lxc /\ forget(z).level = z.level
    BY DEF forget, ZoneSpace
  <1>2. \A i \in Names : zone'[i] = forget(zs[i]) /\ zs[i] \in ZoneSpace(VTs)
    BY DEF Lose, Zones
  <1>3. Dims(zone', zone)
    BY <1>1, <1>2 DEF Dims
  <1>4. mActiveZoneId' = NoZone
    BY DEF Lose
  <1>5. Focused'
    BY <1>3, <1>4, DimmingStep
  <1>6. Truthful'
    BY Silent
  <1>. QED
    BY <1>5, <1>6

\* A container that is gone.
LEMMA DeadDims ==
  ASSUME NEW z \in ZoneSpace(VTs)
  PROVE  Dead(z) \in ZoneSpace(VTs) /\ Dead(z).vt = z.vt /\ Dead(z).lxc = "STOPPED"
  BY DEF Dead, ZoneSpace, LxcStates, Levels

LEMMA CalmExit ==
  ASSUME TypeOK, Focused, Exit \/ Crash
  PROVE  Focused' /\ Truthful'
  <1>1. CASE Crash
    BY <1>1, Types, CalmLose DEF Crash, Dims
  <1>2. CASE Exit
    <2>1. PICK stuck : Lose([i \in Names |->
                               IF Known(i) /\ i \notin stuck /\ ~zone[i].detach THEN Dead(zone[i])
                               ELSE zone[i]])
      BY <1>2 DEF Exit
    <2>. DEFINE zs == [i \in Names |->
                         IF Known(i) /\ i \notin stuck /\ ~zone[i].detach THEN Dead(zone[i])
                         ELSE zone[i]]
    <2>2. \A i \in Names : zs[i] \in {zone[i], Dead(zone[i])}
      OBVIOUS
    <2>3. zs = [i \in Names |-> zs[i]] /\ Lose(zs)
      BY <2>1
    <2>. HIDE DEF zs
    <2>4. zs \in Zones
      BY <2>2, <2>3, Types, DeadDims DEF Zones
    <2>5. Dims(zs, zone)
      BY <2>2, Types, DeadDims DEF Dims
    <2>. QED
      BY <1>2, <2>3, <2>4, <2>5, CalmLose DEF Exit
  <1>. QED
    BY <1>1, <1>2

\* Done tells the zones apart.
LEMMA DoneOne == \A x, y : Done(x).zone = x /\ Done(x).result = "ok" /\ (Done(x) = Done(y) => x = y)
  <1>1. \A x : Done(x).zone = x /\ Done(x).result = "ok"
    BY DEF Done
  <1>. QED
    BY <1>1

LEMMA CalmStopAll ==
  ASSUME Undisturbed, TypeOK, Focused, Stop
  PROVE  Focused' /\ Truthful' /\ \A i \in Names : zone'[i].saved = zone[i].saved
  <1>1. CASE mDetachOnExit
    BY <1>1, Silent DEF Stop, Focused
  <1>2. CASE ~mDetachOnExit
    <2>. DEFINE method == [i \in Names |-> stop(zone[i], FALSE)]
    <2>1. \A i \in Names : \E w : method[i] = {Done(w)} /\ w.vt = zone[i].vt /\ w.lxc = "STOPPED"
                                /\ w.saved = zone[i].saved
      BY Types, CalmStop
    <2>2. PICK p \in ForEach(zone, mZones, method) :
            \E o \in IF p.result = "ok" THEN refocus(p.zone, mZones, mDynamicConfig.defaultId)
                     ELSE {Focus(p.zone, mActiveZoneId, shownVT, p.result)} :
              /\ o.result \notin Deaths => /\ zone' = o.zone /\ mActiveZoneId' = o.active
                                           /\ reply' = NoReply
      BY <1>2 DEF Stop, shutdownAll
    <2>3. Follows(p.zone, zone)
      BY <2>2, ForEachOutcomes, Types, StopOutcomes
    <2>. HIDE DEF method
    <2>4. /\ p.result = "ok"
          /\ \A i \in Names : IF i \in ToSet(mZones) THEN Done(p.zone[i]) \in method[i]
                              ELSE p.zone[i] = zone[i]
      <3>1. mZones \in Seq(Names) /\ p \in ForEach(zone, mZones, method)
        BY <2>2, Types
      <3>. DEFINE ends == {"ok"}
      <3>2. "ok" \in ends /\ \A i \in Names : \A o \in method[i] : o.result \in ends
        BY <2>1, DoneOne
      <3>. HIDE DEF ends
      <3>2a. p.result \in ends
        BY <3>1, <3>2, ForEachPasses
      <3>3. p.result = "ok"
        BY <3>2a DEF ends
      <3>4. \A i \in Names : \E w : method[i] = {Done(w)}
        BY <2>1
      <3>. QED
        BY <3>1, <3>3, <3>4, ForEachDone
    <2>5. ASSUME NEW i \in ToSet(mZones)
          PROVE  /\ p.zone[i].lxc = "STOPPED" /\ p.zone[i].vt = zone[i].vt
                 /\ p.zone[i].saved = zone[i].saved
      <3>1. i \in Names
        BY <2>5, Types
      <3>2. PICK w : method[i] = {Done(w)} /\ w.vt = zone[i].vt /\ w.lxc = "STOPPED"
                       /\ w.saved = zone[i].saved
        BY <2>1, <3>1
      <3>3. p.zone[i] = w
        BY <2>4, <2>5, <3>1, <3>2, DoneOne
      <3>. QED
        BY <3>2, <3>3
    <2>6. Dims(p.zone, zone)
      BY <2>4, <2>5 DEF Dims
    <2>7. p.zone \in Zones
      BY <2>3 DEF Follows
    <2>8. \A i \in ToSet(mZones) : ~zoneIsRunning(p.zone, i)
      BY <2>5 DEF zoneIsRunning
    <2>9. /\ zone' = p.zone /\ mActiveZoneId' = NoZone /\ reply' = NoReply
      BY <2>2, <2>4, <2>7, <2>8, Types, HostFocus DEF Deaths
    <2>10. Lit(zone')
      BY <2>6, <2>9, DimsKeeps DEF Focused, InFocus
    <2>11. Focused' /\ Truthful'
      BY <2>9, <2>10, Silent DEF Focused, InFocus
    <2>. QED
      BY <2>4, <2>5, <2>9, <2>11
  <1>. QED
    BY <1>1, <1>2

\* A handler that leaves the focus in order, and that ended well.
LEMMA CalmConclude ==
  ASSUME Focused, phase = "running", NEW call, NEW id, NEW f, NEW caught,
         f.result = "ok", InFocus(f.zone, f.active, f.shown), Conclude(call, id, f, caught)
  PROVE  /\ Focused' /\ UNCHANGED <<phase, mZones>>
         /\ zone' = f.zone /\ mActiveZoneId' = f.active
         /\ reply' = [call |-> call, id |-> id, answer |-> "ok"]
  BY DEF Conclude, Deaths, AnswerTo, Answer, Focused

\* One that ended in an exception.
LEMMA CalmThrow ==
  ASSUME TypeOK, Focused, phase = "running", NEW call, NEW id, NEW zs, Dims(zs, zone), NEW e,
         e \notin {"ok"} \cup Deaths, NEW caught,
         Conclude(call, id, Focus(zs, mActiveZoneId, shownVT, e), caught)
  PROVE  Focused' /\ Truthful'
  <1>1. /\ zone' = zs /\ mActiveZoneId' = mActiveZoneId /\ shownVT' = shownVT
        /\ phase' = phase /\ reply'.answer # "ok"
    BY DEF Conclude, Deaths, Focus, AnswerTo, Answer
  <1>2. Focused'
    BY <1>1, DimmingStep
  <1>3. Truthful'
    BY <1>1, Silent
  <1>. QED
    BY <1>2, <1>3

LEMMA CalmActivate ==
  ASSUME Undisturbed, TypeOK, Focused, Settled, phase = "running",
         NEW call \in {"activate", "default", "next"}, NEW id \in Names \cup {NoZone},
         NEW next \in ToSet(mZones), zoneIsRunning(zone, next),
         call = "activate" => id = next,
         NEW f \in focusInternal(zone, mZones, next), NEW caught, Conclude(call, id, f, caught)
  PROVE  Focused' /\ Truthful'
  <1>1. /\ f.result = "ok" /\ f.active = next
        /\ InFocus(f.zone, next, f.shown) /\ Relevelled(f.zone, zone)
    BY Types, CalmFocus DEF Focused, InFocus, Lit, Settled
  <1>2. /\ Focused' /\ UNCHANGED <<phase, mZones>>
        /\ zone' = f.zone /\ mActiveZoneId' = f.active
        /\ reply' = [call |-> call, id |-> id, answer |-> "ok"]
    BY <1>1, CalmConclude
  <1>3. zone'[next].lxc = "RUNNING" /\ next \in Names
    <2>1. next \in Names
      BY Types
    <2>2. PICK l \in Levels : zone'[next] = [zone[next] EXCEPT !.level = l]
      BY <1>1, <1>2, <2>1 DEF Relevelled
    <2>. QED
      BY <2>1, <2>2, Types DEF ZoneSpace, zoneIsRunning
  <1>4. FocusFollows' /\ AssertsHold'
    BY <1>2 DEF FocusFollows, AssertsHold
  <1>5. AnswersTrue'
    BY <1>1, <1>2, <1>3 DEF AnswersTrue, Running, Known, zoneIsRunning
  <1>. QED
    BY <1>2, <1>4, <1>5 DEF Truthful

\* What a zone's level does not change.
LEMMA RelevelledKeeps ==
  ASSUME NEW zs \in Zones, NEW ys, Relevelled(ys, zs)
  PROVE  \A i \in Names : /\ ys[i].lxc = zs[i].lxc /\ ys[i].dir = zs[i].dir
                          /\ ys[i].requested = zs[i].requested
  <1>. SUFFICES ASSUME NEW i \in Names
                PROVE  /\ ys[i].lxc = zs[i].lxc /\ ys[i].dir = zs[i].dir
                       /\ ys[i].requested = zs[i].requested
    OBVIOUS
  <1>1. PICK l \in Levels : ys[i] = [zs[i] EXCEPT !.level = l]
    BY DEF Relevelled
  <1>2. zs[i] \in ZoneSpace(VTs)
    BY DEF Zones
  <1>. QED
    BY <1>1, <1>2 DEF ZoneSpace

LEMMA CalmSwitchToDefault ==
  ASSUME Undisturbed, TypeOK, Focused, Settled, SwitchToDefault
  PROVE  Focused' /\ Truthful'
  <1>. DEFINE id == mDynamicConfig.defaultId
  <1>1. PICK f : /\ \/ f = Focus(zone, mActiveZoneId, shownVT, "ok")
                    \/ Known(id) /\ zoneIsRunning(zone, id) /\ f \in focusInternal(zone, mZones, id)
                 /\ Conclude("default", NoZone, f, Nothing)
    BY DEF SwitchToDefault
  <1>2. CASE f = Focus(zone, mActiveZoneId, shownVT, "ok")
    <2>1. f.result = "ok" /\ InFocus(f.zone, f.active, f.shown)
      BY <1>2 DEF Focus, Focused
    <2>2. /\ Focused' /\ UNCHANGED <<phase, mZones>>
          /\ reply' = [call |-> "default", id |-> NoZone, answer |-> "ok"]
      BY <1>1, <2>1, CalmConclude DEF SwitchToDefault
    <2>. QED
      BY <2>2 DEF SwitchToDefault, Truthful, FocusFollows, AnswersTrue, AssertsHold
  <1>3. CASE Known(id) /\ zoneIsRunning(zone, id) /\ f \in focusInternal(zone, mZones, id)
    <2>. HIDE DEF id
    <2>. QED
      BY <1>1, <1>3, CalmActivate DEF SwitchToDefault, Known
  <1>. QED
    BY <1>1, <1>2, <1>3

LEMMA CalmSwitchingSequence ==
  ASSUME Undisturbed, TypeOK, Focused, Settled, SwitchingSequence
  PROVE  Focused' /\ Truthful'
  <1>. DEFINE next == IF Known(mActiveZoneId) THEN circularFindNext(zone, mZones, mActiveZoneId)
                      ELSE firstRunning(zone, mZones)
  <1>1. next # NoZone => next \in ToSet(mZones) /\ zoneIsRunning(zone, next)
    BY Types, FindNextType, FirstRunningType DEF Known
  <1>2. PICK f \in focusInternal(zone, mZones, next) : Conclude("next", NoZone, f, Nothing)
    BY DEF SwitchingSequence
  <1>3. next # NoZone
    BY DEF SwitchingSequence
  <1>. HIDE DEF next
  <1>. QED
    BY <1>1, <1>2, <1>3, CalmActivate DEF SwitchingSequence

LEMMA CalmSetActiveZone ==
  ASSUME Undisturbed, TypeOK, Focused, Settled, NEW id \in Names, SetActiveZone(id)
  PROVE  Focused' /\ Truthful'
  <1>1. CASE ~Known(id) \/ ~zoneIsRunning(zone, id)
    BY <1>1, CalmRefuse DEF SetActiveZone
  <1>2. CASE Known(id) /\ zoneIsRunning(zone, id)
    <2>1. PICK f \in focusInternal(zone, mZones, id) : Conclude("activate", id, f, Nothing)
      BY <1>2 DEF SetActiveZone
    <2>. QED
      BY <1>2, <2>1, CalmActivate DEF SetActiveZone, Known
  <1>. QED
    BY <1>1, <1>2

LEMMA CalmCleanUp ==
  ASSUME TypeOK, Focused, CleanUpZonesRoot
  PROVE  Focused' /\ Truthful'
  <1>1. \A z \in ZoneSpace(VTs) : /\ withoutDir(z).vt = z.vt /\ withoutDir(z).lxc = z.lxc
                                  /\ withoutDir(z).level = z.level
    BY DEF withoutDir, ZoneSpace
  <1>2. \A i \in Names : zone'[i] \in {zone[i], withoutDir(zone[i])}
    BY DEF CleanUpZonesRoot, cleanUpUnknownsFromRoot
  <1>3. Dims(zone', zone)
    BY <1>1, <1>2, Types DEF Dims
  <1>4. Focused'
    BY <1>3, DimmingStep DEF CleanUpZonesRoot, memory
  <1>5. reply'.call = "cleanup" /\ phase' = "running"
    BY DEF CleanUpZonesRoot, Answer, memory
  <1>. QED
    BY <1>4, <1>5 DEF Truthful, FocusFollows, AnswersTrue, AssertsHold

LEMMA CalmAlone ==
  ASSUME TypeOK, Focused, NEW id \in Names, ZoneDies(id) \/ ZonePowersOff(id)
  PROVE  Focused' /\ Truthful'
  <1>1. PICK y \in {Dead(zone[id]), [zone[id] EXCEPT !.lxc = "STOPPING"]} :
          zone' = [zone EXCEPT ![id] = y]
    BY DEF ZoneDies, ZonePowersOff
  <1>2. y.vt = zone[id].vt /\ y.lxc \in {"STOPPED", "STOPPING"}
    BY Types, DeadDims DEF ZoneSpace
  <1>3. Dims(zone', zone)
    BY <1>1, <1>2, Types DEF Dims, Zones
  <1>4. reply' = NoReply /\ mActiveZoneId' = mActiveZoneId /\ shownVT' = shownVT
    BY DEF ZoneDies, ZonePowersOff, memory
  <1>5. Focused'
    BY <1>3, <1>4, DimmingStep
  <1>6. Truthful'
    BY <1>4, Silent
  <1>. QED
    BY <1>5, <1>6

\* createZone touches neither the zones that are up nor the focus.
LEMMA CalmCreateZone ==
  ASSUME Undisturbed, TypeOK, ActiveInv, Focused, NEW id \in Names, NEW template,
         CreateZone(id, template)
  PROVE  Focused' /\ Truthful'
  <1>0. /\ phase = "running" /\ zone[id] \in ZoneSpace(VTs)
        /\ "image" \notin Faults /\ "db" \notin Faults /\ "file" \notin Faults
        /\ "kill" \notin Faults
    BY Types DEF CreateZone, Undisturbed
  <1>1. CASE Refuse("create", id)
    BY <1>0, <1>1, CalmRefuse
  <1>2. CASE ~Refuse("create", id)
    <2>1. ~Known(id) /\ (GeneratingConfig(id, template) \/ Inserting(id, template)
                           \/ Inserted(id, template))
      BY <1>0, <1>2 DEF CreateZone, Copying, CreationKilled
    <2>. DEFINE new == newRows(id, template)
    <2>2. PICK y \in {withoutDir(zone[id]), withoutDir(new), constructed(new)} :
            /\ zone' = [zone EXCEPT ![id] = y]
            /\ UNCHANGED <<phase, mActiveZoneId, shownVT>>
            /\ reply'.call = "create" /\ reply'.id = id
            /\ reply'.answer = "ok" => mZones' = Append(mZones, id) /\ y = constructed(new)
      <3>1. CASE GeneratingConfig(id, template)
        BY <1>0, <3>1 DEF GeneratingConfig, CreateFails, Answer
      <3>2. CASE Inserting(id, template)
        BY <1>0, <3>2 DEF Inserting, CreateFails, Answer
      <3>3. CASE Inserted(id, template)
        BY <1>0, <3>3 DEF Inserted, Answer
      <3>. QED
        BY <2>1, <3>1, <3>2, <3>3
    <2>3. /\ y.lxc = zone[id].lxc /\ y.level = zone[id].level
          /\ y = constructed(new) => y.defined
      BY <1>0 DEF newRows, withoutDir, constructed, ZoneSpace
    <2>. HIDE DEF new
    <2>4. zone'[id] = y /\ \A j \in Names \ {id} : zone'[j] = zone[j]
      BY <2>2, Types DEF Zones
    <2>5. mActiveZoneId # id
      BY <2>1, NamesAssumption DEF ActiveInv, ActiveKnown, Known
    <2>6. Lit(zone')
      BY <2>3, <2>4 DEF Focused, InFocus, Lit, Dimmed, Bright
    <2>7. mActiveZoneId # NoZone =>
            /\ \A i \in Names : Bright(zone'[i]) => i = mActiveZoneId
            /\ zone'[mActiveZoneId].vt \in {NoVT, shownVT}
      BY <2>3, <2>4, <2>5, Types DEF Focused, InFocus, Bright
    <2>8. Focused'
      BY <2>2, <2>6, <2>7 DEF Focused, InFocus
    <2>9. FocusFollows' /\ AssertsHold'
      BY <1>0, <2>2 DEF FocusFollows, AssertsHold
    <2>10. reply'.answer = "ok" => id \in ToSet(mZones') /\ zone'[id].defined
      BY <2>2, <2>3, <2>4, Types, AppendKeeps
    <2>11. AnswersTrue'
      BY <2>2, <2>10 DEF AnswersTrue, Known
    <2>. QED
      BY <2>8, <2>9, <2>11 DEF Truthful
  <1>. QED
    BY <1>1, <1>2

\* The focus is looked at again after zone id was stopped, frozen or destroyed.
LEMMA CalmAfter ==
  ASSUME Undisturbed, TypeOK, Focused, Settled, NEW id \in Names, NEW y \in ZoneSpace(VTs),
         y.vt = zone[id].vt, y.lxc # "RUNNING", y.lxc = "FROZEN" => y.level # "fg",
         NEW zones \in Seq(Names), NEW defaultId,
         \A i \in Names \ {id} : i \in ToSet(mZones) => i \in ToSet(zones),
         NEW f \in refocus([zone EXCEPT ![id] = y], zones, defaultId)
  PROVE  /\ f.result = "ok" /\ InFocus(f.zone, f.active, f.shown)
         /\ f.zone[id].lxc = y.lxc /\ f.zone[id].dir = y.dir /\ f.zone[id].requested = y.requested
         /\ LET running == {i \in ToSet(zones) : zoneIsRunning(f.zone, i)}
            IN  IF running = {} THEN f.active = NoZone ELSE f.active \in running
  <1>. DEFINE zs == [zone EXCEPT ![id] = y]
  <1>1. /\ zs \in Zones /\ zs[id] = y
        /\ \A i \in Names \ {id} : zs[i] = zone[i]
    BY Types, OneOfZones
  <1>. HIDE DEF zs
  <1>2. Dims(zs, zone)
    BY <1>1 DEF Dims
  <1>3. Lit(zs)
    BY <1>2, DimsKeeps DEF Focused, InFocus
  <1>4. InFocus(zs, mActiveZoneId, shownVT)
    BY <1>2, Types, DimsKeeps DEF Focused
  <1>5. \A i \in Names : zs[i].lxc = "RUNNING" => i \in ToSet(zones)
    BY <1>1 DEF Settled
  <1>6. /\ f.result = "ok"
        /\ InFocus(f.zone, f.active, f.shown) /\ Relevelled(f.zone, zs)
        /\ IF \E i \in ToSet(zones) : zoneIsRunning(zs, i)
             THEN f.active \in ToSet(zones) /\ zoneIsRunning(zs, f.active)
             ELSE f.active = NoZone
    BY <1>1, <1>3, <1>4, <1>5, CalmRefocus DEF zs
  <1>7. \A i \in Names : /\ f.zone[i].lxc = zs[i].lxc /\ f.zone[i].dir = zs[i].dir
                         /\ f.zone[i].requested = zs[i].requested
    BY <1>1, <1>6, RelevelledKeeps
  <1>8. \A i \in ToSet(zones) : zoneIsRunning(f.zone, i) <=> zoneIsRunning(zs, i)
    BY <1>7, ToSetOfSeq DEF zoneIsRunning
  <1>. QED
    BY <1>1, <1>6, <1>7, <1>8

\* What FocusFollows asks, of such a focus.
LEMMA CalmFollows ==
  ASSUME TypeOK', NEW f,
         LET running == {i \in ToSet(mZones') : zoneIsRunning(f.zone, i)}
         IN  IF running = {} THEN f.active = NoZone ELSE f.active \in running,
         zone' = f.zone, mActiveZoneId' = f.active
  PROVE  FocusFollows'
  <1>1. ToSet(mZones') \subseteq Names
    BY ToSetOfSeq DEF TypeOK
  <1>2. Running' = {i \in ToSet(mZones') : zoneIsRunning(f.zone, i)}
    BY <1>1 DEF Running, Known, zoneIsRunning
  <1>. QED
    BY <1>2 DEF FocusFollows

LEMMA CalmDestroyZone ==
  ASSUME Undisturbed, TypeOK, TypeOK', LeakInv, DistinctInv, Focused, Settled, NEW id \in Names,
         DestroyZone(id)
  PROVE  Focused' /\ Truthful'
  <1>0. phase = "running" /\ "db" \notin Faults /\ "lxc" \notin Faults /\ "kill" \notin Faults
    BY DEF DestroyZone, Undisturbed
  <1>1. CASE ~Known(id)
    BY <1>0, <1>1, CalmRefuse DEF DestroyZone
  <1>2. CASE Known(id)
    <2>. DEFINE zones == Without(mZones, id)
                d == defaultFor(zones, mDynamicConfig.defaultId)
    <2>1. PICK z \in destroyed(zone[id]) :
            \E f \in refocus([zone EXCEPT ![id] = z], zones, d) : DestroyKnown(id, z, f)
      BY <1>0, <1>2 DEF DestroyZone, DestructionKilled
    <2>1a. PICK f \in refocus([zone EXCEPT ![id] = z], zones, d) : DestroyKnown(id, z, f)
      BY <2>1
    <2>. HIDE DEF d
    <2>2. z \in ZoneSpace(VTs) /\ z.vt = zone[id].vt /\ ~Left(z)
      BY <1>0, <1>2, Types, OtherOutcomes DEF LeakInv, Lasts, Known
    <2>3. zones \in Seq(Names) /\ id \notin ToSet(zones)
      BY Types, WithoutElements DEF DistinctInv, Apart
    <2>4. \A i \in Names \ {id} : i \in ToSet(mZones) => i \in ToSet(zones)
      BY Types, WithoutElements, ToSetOfSeq
    <2>. HIDE DEF zones
    <2>5. /\ f.result = "ok" /\ InFocus(f.zone, f.active, f.shown)
          /\ f.zone[id].lxc = z.lxc /\ f.zone[id].dir = z.dir
          /\ LET running == {i \in ToSet(zones) : zoneIsRunning(f.zone, i)}
             IN  IF running = {} THEN f.active = NoZone ELSE f.active \in running
      BY <2>1a, <2>2, <2>3, <2>4, CalmAfter DEF Left
    <2>6. /\ zone' = f.zone /\ mActiveZoneId' = f.active /\ shownVT' = f.shown
          /\ mZones' = zones /\ phase' = phase
          /\ reply' = [call |-> "destroy", id |-> id, answer |-> "ok"]
      BY <1>0, <2>1a, <2>5 DEF DestroyKnown, Deaths, zones, AnswerTo, Answer
    <2>7. FocusFollows'
      BY <2>5, <2>6, CalmFollows
    <2>8. AnswersTrue'
      BY <2>2, <2>3, <2>5, <2>6 DEF AnswersTrue, Known, Left
    <2>9. AssertsHold' /\ Focused'
      BY <1>0, <2>5, <2>6 DEF AssertsHold, Focused
    <2>. QED
      BY <2>7, <2>8, <2>9 DEF Truthful
  <1>. QED
    BY <1>1, <1>2

\* The answer of a handler that changed the state of zone id.
LEMMA CalmAnswer ==
  ASSUME TypeOK', RequestPersisted', phase' = "running", NEW id \in Names, id \in ToSet(mZones'),
         NEW call \in {"start", "shutdown", "lock", "unlock"},
         reply' = [call |-> call, id |-> id, answer |-> "ok"],
         CASE call = "start" -> /\ zone'[id].lxc = "RUNNING" /\ zone'[id].requested = "running"
                                /\ mActiveZoneId' = id
           [] call = "shutdown" -> zone'[id].lxc = "STOPPED" /\ zone'[id].requested = "stopped"
           [] call = "lock" -> zone'[id].lxc = "FROZEN" /\ zone'[id].requested = "paused"
           [] call = "unlock" -> zone'[id].lxc = "RUNNING" /\ zone'[id].requested = "running"
  PROVE  AnswersTrue' /\ AssertsHold'
  <1>1. zone'[id].saved = zone'[id].requested
    BY DEF RequestPersisted, Known
  <1>. QED
    BY <1>1 DEF AnswersTrue, AssertsHold, Running, Known, zoneIsRunning

LEMMA CalmStartZone ==
  ASSUME Undisturbed, TypeOK, TypeOK', RequestPersisted', Focused, Settled, NEW id \in Names,
         StartZone(id)
  PROVE  Focused' /\ Truthful'
  <1>0. phase = "running" /\ zone[id] \in ZoneSpace(VTs) /\ id # NoZone
    BY Types, NamesAssumption DEF StartZone
  <1>1. CASE ~Known(id)
    BY <1>0, <1>1, CalmRefuse DEF StartZone
  <1>2. CASE Known(id)
    <2>1. PICK o \in start(zone[id]) :
            \E f \in AfterMethod(id, o, LAMBDA zs : focusInternal(zs, mZones, id)) :
              Conclude("start", id, f, Errors)
      BY <1>2 DEF StartZone
    <2>. DEFINE zs == [zone EXCEPT ![id] = o.zone]
    <2>2. /\ o.zone \in ZoneSpace(VTs) /\ o.zone.vt = zone[id].vt
          /\ \/ o.result = "zoneop" /\ o.zone.lxc = zone[id].lxc /\ o.zone.level = zone[id].level
             \/ /\ o.result = "ok" /\ o.zone.lxc = "RUNNING" /\ o.zone.requested = "running"
                /\ \/ zone[id].lxc = "RUNNING" /\ o.zone.level = zone[id].level
                   \/ zone[id].lxc = "STOPPED"
      BY <1>0, CalmStart
    <2>3. /\ zs \in Zones /\ zs[id] = o.zone
          /\ \A i \in Names \ {id} : zs[i] = zone[i]
      BY <2>2, Types, OneOfZones
    <2>4. CASE o.result = "zoneop"
      <3>1. Conclude("start", id, Focus(zs, mActiveZoneId, shownVT, "zoneop"), Errors)
        BY <2>1, <2>4 DEF AfterMethod
      <3>. HIDE DEF zs
      <3>2. Dims(zs, zone)
        BY <2>2, <2>3, <2>4 DEF Dims
      <3>. QED
        BY <1>0, <3>1, <3>2, CalmThrow DEF Deaths
    <2>5. CASE o.result = "ok"
      <3>1. PICK f \in focusInternal(zs, mZones, id) : Conclude("start", id, f, Errors)
        BY <2>1, <2>5 DEF AfterMethod
      <3>. HIDE DEF zs
      <3>2. zoneIsRunning(zs, id) /\ id \in ToSet(mZones)
        BY <1>2, <2>2, <2>3, <2>5 DEF zoneIsRunning, Known
      <3>3. Dimmed(zs)
        BY <2>2, <2>3, <2>5 DEF Focused, InFocus, Lit, Dimmed
      <3>4. \A i \in Names : zs[i].lxc = "RUNNING" => i \in ToSet(mZones)
        BY <2>3, <3>2 DEF Settled
      <3>5. id = mActiveZoneId => InFocus(zs, id, shownVT)
        BY <1>0, <2>2, <2>3, <2>5, <3>3 DEF Focused, InFocus, Lit, Bright
      <3>6. /\ f.result = "ok" /\ f.active = id
            /\ InFocus(f.zone, id, f.shown) /\ Relevelled(f.zone, zs)
        BY <2>3, <3>1, <3>2, <3>3, <3>4, <3>5, Types, CalmFocus
      <3>7. /\ Focused' /\ UNCHANGED <<phase, mZones>>
            /\ zone' = f.zone /\ mActiveZoneId' = f.active
            /\ reply' = [call |-> "start", id |-> id, answer |-> "ok"]
        BY <1>0, <3>1, <3>6, CalmConclude
      <3>8. zone'[id].lxc = "RUNNING" /\ zone'[id].requested = "running"
        BY <2>2, <2>3, <2>5, <3>6, <3>7, RelevelledKeeps
      <3>9. AnswersTrue' /\ AssertsHold'
        BY <1>0, <3>2, <3>6, <3>7, <3>8, CalmAnswer
      <3>10. FocusFollows'
        BY <3>7 DEF FocusFollows
      <3>. QED
        BY <3>7, <3>9, <3>10 DEF Truthful
    <2>. QED
      BY <2>2, <2>4, <2>5
  <1>. QED
    BY <1>1, <1>2

\* A zone was stopped or frozen, and the focus is looked at again.
LEMMA CalmHalt ==
  ASSUME Undisturbed, TypeOK, TypeOK', RequestPersisted', Focused, Settled, NEW id \in Names,
         phase = "running", Known(id), NEW y \in ZoneSpace(VTs), y.vt = zone[id].vt,
         NEW call \in {"shutdown", "lock"},
         CASE call = "shutdown" -> y.lxc = "STOPPED" /\ y.requested = "stopped"
           [] call = "lock" -> y.lxc = "FROZEN" /\ y.level # "fg" /\ y.requested = "paused",
         NEW defaultId, NEW f \in refocus([zone EXCEPT ![id] = y], mZones, defaultId),
         NEW caught, Conclude(call, id, f, caught)
  PROVE  Focused' /\ Truthful'
  <1>0. /\ y.lxc # "RUNNING" /\ (y.lxc = "FROZEN" => y.level # "fg")
        /\ mZones \in Seq(Names)
        /\ \A i \in Names \ {id} : i \in ToSet(mZones) => i \in ToSet(mZones)
    BY Types
  <1>1. /\ f.result = "ok" /\ InFocus(f.zone, f.active, f.shown)
        /\ f.zone[id].lxc = y.lxc /\ f.zone[id].requested = y.requested
        /\ LET running == {i \in ToSet(mZones) : zoneIsRunning(f.zone, i)}
           IN  IF running = {} THEN f.active = NoZone ELSE f.active \in running
    BY <1>0, CalmAfter
  <1>2. /\ Focused' /\ UNCHANGED <<phase, mZones>>
        /\ zone' = f.zone /\ mActiveZoneId' = f.active
        /\ reply' = [call |-> call, id |-> id, answer |-> "ok"]
    BY <1>1, CalmConclude
  <1>3. FocusFollows'
    BY <1>1, <1>2, CalmFollows
  <1>4. id \in ToSet(mZones')
    BY <1>2 DEF Known
  <1>5. AnswersTrue' /\ AssertsHold'
    BY <1>1, <1>2, <1>4, CalmAnswer
  <1>. QED
    BY <1>2, <1>3, <1>5 DEF Truthful

LEMMA CalmShutdownZone ==
  ASSUME Undisturbed, TypeOK, TypeOK', RequestPersisted', Focused, Settled, NEW id \in Names,
         ShutdownZone(id)
  PROVE  Focused' /\ Truthful'
  <1>0. phase = "running" /\ zone[id] \in ZoneSpace(VTs)
    BY Types DEF ShutdownZone
  <1>1. CASE ~Known(id)
    BY <1>0, <1>1, CalmRefuse DEF ShutdownZone
  <1>2. CASE Known(id)
    <2>1. PICK y \in ZoneSpace(VTs) : /\ stop(zone[id], TRUE) = {Done(y)}
                                      /\ y.vt = zone[id].vt /\ y.lxc = "STOPPED"
                                     /\ y.requested = "stopped"
      BY <1>0, CalmStop
    <2>2. \E f \in AfterMethod(id, Done(y),
                     LAMBDA zs : refocus(zs, mZones, mDynamicConfig.defaultId)) :
            Conclude("shutdown", id, f, ZoneErrors)
      BY <1>2, <2>1 DEF ShutdownZone
    <2>3. PICK f \in refocus([zone EXCEPT ![id] = y], mZones, mDynamicConfig.defaultId) :
            Conclude("shutdown", id, f, ZoneErrors)
      BY <2>2, DoneOne DEF AfterMethod
    <2>. QED
      BY <1>0, <1>2, <2>1, <2>3, CalmHalt
  <1>. QED
    BY <1>1, <1>2

LEMMA CalmLockZone ==
  ASSUME Undisturbed, TypeOK, TypeOK', RequestPersisted', Focused, Settled, NEW id \in Names,
         LockZone(id)
  PROVE  Focused' /\ Truthful'
  <1>0. phase = "running" /\ zone[id] \in ZoneSpace(VTs)
    BY Types DEF LockZone
  <1>1. CASE ~Known(id) \/ ~zoneIsRunning(zone, id)
    BY <1>0, <1>1, CalmRefuse DEF LockZone
  <1>2. CASE Known(id) /\ zoneIsRunning(zone, id)
    <2>. DEFINE z == [zone[id] EXCEPT !.level = "bg"]
                w == [z EXCEPT !.lxc = "FROZEN"]
                y == Asked(w, "paused")
    <2>1. w \in ZoneSpace(VTs) /\ w.vt = zone[id].vt /\ w.lxc = "FROZEN" /\ w.level = "bg"
      BY <1>0 DEF ZoneSpace, Levels, LxcStates
    <2>. HIDE DEF w
    <2>2. /\ y \in ZoneSpace(VTs) /\ y.vt = zone[id].vt /\ y.requested = "paused"
          /\ y.lxc = "FROZEN" /\ y.level = "bg"
      BY <2>1, AskedType DEF Requests
    <2>. HIDE DEF y
    <2>3. AndThen(setSchedulerLevel(zone[id], "bg"), suspend) = {Done(y)}
      <3>1. setSchedulerLevel(zone[id], "bg") = {Done(z)}
        BY CalmMethods
      <3>2. suspend(z) = {Done(y)}
        BY CalmMethods DEF y, w
      <3>. HIDE DEF z
      <3>. QED
        BY <3>1, <3>2, DoneOne DEF AndThen
    <2>4. \E f \in AfterMethod(id, Done(y),
                     LAMBDA zs : refocus(zs, mZones, mDynamicConfig.defaultId)) :
            Conclude("lock", id, f, ZoneErrors)
      BY <1>2, <2>3 DEF LockZone
    <2>5. PICK f \in refocus([zone EXCEPT ![id] = y], mZones, mDynamicConfig.defaultId) :
            Conclude("lock", id, f, ZoneErrors)
      BY <2>4, DoneOne DEF AfterMethod
    <2>. QED
      BY <1>0, <1>2, <2>2, <2>5, CalmHalt
  <1>. QED
    BY <1>1, <1>2

LEMMA CalmUnlockZone ==
  ASSUME Undisturbed, TypeOK, TypeOK', RequestPersisted', Focused, NEW id \in Names,
         UnlockZone(id)
  PROVE  Focused' /\ Truthful'
  <1>0. phase = "running" /\ zone[id] \in ZoneSpace(VTs)
    BY Types DEF UnlockZone
  <1>1. CASE ~Known(id) \/ zone[id].lxc # "FROZEN"
    BY <1>0, <1>1, CalmRefuse DEF UnlockZone
  <1>2. CASE Known(id) /\ zone[id].lxc = "FROZEN"
    <2>. DEFINE w == [zone[id] EXCEPT !.lxc = "RUNNING"]
                y == Asked(w, "running")
                zs == [zone EXCEPT ![id] = y]
    <2>1. w \in ZoneSpace(VTs) /\ w.vt = zone[id].vt /\ w.lxc = "RUNNING" /\ w.level = zone[id].level
      BY <1>0 DEF ZoneSpace, LxcStates
    <2>. HIDE DEF w
    <2>2. /\ y \in ZoneSpace(VTs) /\ y.vt = zone[id].vt /\ y.requested = "running"
          /\ y.lxc = "RUNNING" /\ y.level = zone[id].level
      BY <2>1, AskedType DEF Requests
    <2>. HIDE DEF y
    <2>3. resume(zone[id]) = {Done(y)}
      BY CalmMethods DEF y, w
    <2>4. Conclude("unlock", id, Focus(zs, mActiveZoneId, shownVT, "ok"), ZoneErrors)
      BY <1>2, <2>3, DoneOne DEF UnlockZone
    <2>5. zs[id] = y /\ \A i \in Names \ {id} : zs[i] = zone[i]
      BY Types DEF Zones
    <2>. HIDE DEF zs
    <2>6. Dims(zs, zone)
      BY <1>2, <2>2, <2>5 DEF Dims, Focused, InFocus, Lit, Dimmed
    <2>7. InFocus(zs, mActiveZoneId, shownVT)
      BY <2>6, Types, DimsKeeps DEF Focused
    <2>8. /\ Focused' /\ UNCHANGED <<phase, mZones>>
          /\ zone' = zs /\ mActiveZoneId' = mActiveZoneId
          /\ reply' = [call |-> "unlock", id |-> id, answer |-> "ok"]
      BY <1>0, <2>4, <2>7, CalmConclude DEF Focus
    <2>9. AnswersTrue' /\ AssertsHold'
      BY <1>0, <1>2, <2>2, <2>5, <2>8, CalmAnswer DEF Known
    <2>10. FocusFollows'
      BY <2>8 DEF FocusFollows
    <2>. QED
      BY <2>8, <2>9, <2>10 DEF Truthful
  <1>. QED
    BY <1>1, <1>2

LEMMA CalmStep ==
  ASSUME Undisturbed, ~Restores, TypeOK, TypeOK', ActiveInv, RestartInv, LeakInv, DistinctInv,
         RequestPersisted', Focused, Truthful, [Next]_vars
  PROVE  Focused' /\ Truthful'
  <1>1. phase = "running" => Settled
    BY DEF RestartInv, LeakInv, Settled
  <1>2. CASE UNCHANGED vars
    BY <1>2 DEF vars, memory, disk, Focused, Truthful, FocusFollows, AnswersTrue, AssertsHold,
                Running, Known, zoneIsRunning
  <1>3. CASE Boot \/ setZonesDetachOnExit \/ Stop \/ Exit \/ Crash
    BY <1>3, CalmBoot, CalmDetach, CalmStopAll, CalmExit
  <1>4. CASE SwitchToDefault \/ SwitchingSequence \/ CleanUpZonesRoot \/ RestoreAll
    BY <1>1, <1>4, CalmSwitchToDefault, CalmSwitchingSequence, CalmCleanUp
       DEF SwitchToDefault, SwitchingSequence, RestoreAll
  <1>5. ASSUME NEW id \in Names, NEW template \in Templates,
               CreateZone(id, template)
        PROVE  Focused' /\ Truthful'
    BY <1>5, CalmCreateZone
  <1>6. ASSUME NEW id \in Names, DestroyZone(id) PROVE Focused' /\ Truthful'
    BY <1>1, <1>6, CalmDestroyZone DEF DestroyZone
  <1>7. ASSUME NEW id \in Names, StartZone(id) \/ ShutdownZone(id) PROVE Focused' /\ Truthful'
    BY <1>1, <1>7, CalmStartZone, CalmShutdownZone DEF StartZone, ShutdownZone
  <1>8. ASSUME NEW id \in Names, LockZone(id) \/ UnlockZone(id) PROVE Focused' /\ Truthful'
    BY <1>1, <1>8, CalmLockZone, CalmUnlockZone DEF LockZone
  <1>9. ASSUME NEW id \in Names, SetActiveZone(id) \/ ZoneDies(id) \/ ZonePowersOff(id)
        PROVE  Focused' /\ Truthful'
    BY <1>1, <1>9, CalmSetActiveZone, CalmAlone DEF SetActiveZone
  <1>10. ~LoadingKilled /\ ~CleaningKilled
    BY DEF LoadingKilled, CleaningKilled, Undisturbed
  <1>. QED
    BY <1>2, <1>3, <1>4, <1>5, <1>6, <1>7, <1>8, <1>9, <1>10 DEF Next

LEMMA CalmAlways ==
  ASSUME Undisturbed, ~Restores
  PROVE  Spec => [](Focused /\ Truthful)
  <1>0. /\ LeavesNothing /\ FocusIsMoved
        /\ "db" \notin Faults /\ "file" \notin Faults /\ "kill" \notin Faults
    BY DEF Undisturbed, LeavesNothing, FocusIsMoved
  <1>1. Init => /\ ActiveInv /\ RestartInv /\ LeakInv /\ DistinctInv
                /\ Focused /\ Truthful
    BY EmptyHasNone, ApartEmpty
       DEF Init, ActiveInv, ActiveKnown, RestartInv, LeakInv, Left, Tidy, DistinctInv, NoConfig,
           Focused, InFocus, Lit, Dimmed, Bright, Truthful, FocusFollows, AnswersTrue, AssertsHold,
           NoReply
  <1>2. TypeOK /\ ActiveInv /\ [Next]_vars => ActiveInv'
    BY <1>0, ActiveStep
  <1>3. TypeOK /\ RestartInv /\ [Next]_vars => RestartInv'
    BY <1>0, RestartStep
  <1>4. TypeOK /\ RestartInv /\ LeakInv /\ [Next]_vars => LeakInv'
    BY <1>0, LeakStep
  <1>5. TypeOK /\ DistinctInv /\ [Next]_vars => DistinctInv'
    BY <1>0, DistinctStep
  <1>6. Spec => []RequestPersisted
    BY <1>0, RequestsPersist
  <1>7. /\ TypeOK /\ TypeOK' /\ ActiveInv /\ RestartInv /\ LeakInv /\ DistinctInv
        /\ RequestPersisted' /\ Focused /\ Truthful /\ [Next]_vars
        => Focused' /\ Truthful'
    BY CalmStep
  <1>. QED
    BY <1>1, <1>2, <1>3, <1>4, <1>5, <1>6, <1>7, TypeCorrect, PTL DEF Spec

\* While no call into the system fails, but that lxc-create may: at most one
\* running zone has the CPU quota of the foreground.
THEOREM ForegroundIsOne ==
  ASSUME Undisturbed, ~Restores
  PROVE  Spec => []OneForeground
  <1>1. Focused => OneForeground
    BY DEF Focused, InFocus, Lit, Bright, OneForeground, Running, zoneIsRunning
  <1>. QED
    BY <1>1, CalmAlways, PTL

\* Under the same conditions, after a zone was taken away the focus is on a zone
\* that runs, and on the host only when none does.
THEOREM FocusIsFollowed ==
  ASSUME Undisturbed, ~Restores
  PROVE  Spec => []FocusFollows
  <1>1. Truthful => FocusFollows
    BY DEF Truthful
  <1>. QED
    BY <1>1, CalmAlways, PTL

\* Under the same conditions, the active zone's terminal is on the screen.
THEOREM ScreenIsRight ==
  ASSUME Undisturbed, ~Restores
  PROVE  Spec => []ScreenShowsActive
  <1>1. Focused => ScreenShowsActive
    BY DEF Focused, InFocus, ScreenShowsActive
  <1>. QED
    BY <1>1, CalmAlways, PTL

\* Under the same conditions, a call that was answered with success did what it
\* promises, also in what a restart will find.
THEOREM AnswersAreTrue ==
  ASSUME Undisturbed, ~Restores
  PROVE  Spec => []AnswersTrue
  <1>1. Truthful => AnswersTrue
    BY DEF Truthful
  <1>. QED
    BY <1>1, CalmAlways, PTL

\* Under the same conditions, no assert takes the daemon down.
THEOREM AssertsAreSafe ==
  ASSUME Undisturbed, ~Restores
  PROVE  Spec => []AssertsHold
  <1>1. Truthful => AssertsHold
    BY DEF Truthful
  <1>. QED
    BY <1>1, CalmAlways, PTL

-----------------------------------------------------------------------------
(* GoingDownKeepsState.                                                    *)

\* No change of focus is cut short where nothing is killed.
LEMMA FocusUnkilled ==
  ASSUME "kill" \notin Faults, NEW zs, NEW zones \in Seq(Names)
  PROVE  /\ \A id : \A f \in focusInternal(zs, zones, id) : f.result # "killed"
         /\ \A d : \A f \in refocus(zs, zones, d) : f.result # "killed"
  <1>1. \A outcomes : May("kill", outcomes) = {}
    BY DEF May
  <1>2. ASSUME NEW id, NEW f \in focusZone(zs, zones, id) PROVE f.result # "killed"
    <2>. DEFINE method == [i \in Names |->
                  IF zs[i].lxc = "RUNNING"
                    THEN setSchedulerLevel(zs[i], IF i = id THEN "fg" ELSE "bg")
                    ELSE {Done(zs[i])}]
                ends == {"ok", "zoneop", "abort"}
    <2>1. "ok" \in ends /\ \A i \in Names : \A o \in method[i] : o.result \in ends
      BY <1>1 DEF setSchedulerLevel, May, Done, Thrown
    <2>2. setLevels(zs, zones, id) = ForEach(zs, zones, method)
      BY DEF setLevels
    <2>. HIDE DEF method, ends
    <2>3. \A o \in setLevels(zs, zones, id) : o.result \in ends
      BY <2>1, <2>2, ForEachPasses
    <2>. QED
      BY <1>1, <1>2, <2>3 DEF ends, focusZone, Focus, May
  <1>3. \A id : \A f \in focusInternal(zs, zones, id) : f.result # "killed"
    BY <1>2 DEF focusInternal, focusHost, Focus, May
  <1>. QED
    BY <1>3 DEF refocus, Focus

\* A handler does not end with the process while the asserts hold.
LEMMA HandlersStay ==
  ASSUME Undisturbed, ~Restores, TypeOK, AssertsHold', NEW id \in Names, NEW template,
         \/ SwitchToDefault \/ SwitchingSequence \/ CleanUpZonesRoot \/ RestoreAll
         \/ CreateZone(id, template) \/ DestroyZone(id) \/ StartZone(id) \/ ShutdownZone(id)
         \/ LockZone(id) \/ UnlockZone(id) \/ SetActiveZone(id)
  PROVE  phase' = "running"
  <1>0. phase = "running" /\ "kill" \notin Faults /\ mZones \in Seq(Names)
        /\ zone[id] \in ZoneSpace(VTs)
    BY Types DEF Undisturbed, SwitchToDefault, SwitchingSequence, CleanUpZonesRoot, RestoreAll,
           CreateZone, DestroyZone, StartZone, ShutdownZone, LockZone, UnlockZone, SetActiveZone
  <1>1. ASSUME NEW call \in Calls \ {"none"}, NEW i, NEW f, NEW caught, f.result # "killed",
               Conclude(call, i, f, caught)
        PROVE  phase' = "running"
    BY <1>0, <1>1 DEF Conclude, Lose, LastAnswer, Answer, AssertsHold, NoReply
  <1>2. ASSUME NEW call, NEW i, Refuse(call, i) PROVE phase' = "running"
    BY <1>0, <1>2 DEF Refuse, memory
  <1>3. \A zs, e : Focus(zs, mActiveZoneId, shownVT, e).result = e
    BY DEF Focus
  <1>4. CASE SwitchToDefault \/ SwitchingSequence \/ SetActiveZone(id)
    BY <1>0, <1>1, <1>2, <1>3, <1>4, FocusUnkilled
       DEF SwitchToDefault, SwitchingSequence, SetActiveZone, Calls
  <1>5. CASE StartZone(id)
    <2>1. ASSUME NEW o \in start(zone[id]),
                 NEW f \in AfterMethod(id, o, LAMBDA zs : focusInternal(zs, mZones, id))
          PROVE  f.result # "killed"
      BY <1>0, <1>3, CalmStart, FocusUnkilled DEF AfterMethod
    <2>. QED
      BY <1>1, <1>2, <1>5, <2>1 DEF StartZone, Calls
  <1>6. CASE ShutdownZone(id) \/ LockZone(id)
    <2>. DEFINE paused == AndThen(setSchedulerLevel(zone[id], "bg"), suspend)
    <2>1. \A o \in stop(zone[id], TRUE) \cup paused : o.result = "ok"
      <3>1. \E w : stop(zone[id], TRUE) = {Done(w)}
        BY <1>0, CalmStop
      <3>2. \E w : paused = {Done(w)}
        <4>. DEFINE dim == [zone[id] EXCEPT !.level = "bg"]
        <4>1. setSchedulerLevel(zone[id], "bg") = {Done(dim)}
          BY CalmMethods
        <4>. HIDE DEF dim
        <4>2. AndThen({Done(dim)}, suspend) = suspend(dim)
          BY DoneOne DEF AndThen
        <4>3. \E w : suspend(dim) = {Done(w)}
          BY CalmMethods
        <4>4. paused = suspend(dim)
          BY <4>1, <4>2
        <4>. HIDE DEF paused
        <4>. QED
          BY <4>3, <4>4
      <3>. QED
        BY <3>1, <3>2, DoneOne
    <2>2. ASSUME NEW o \in stop(zone[id], TRUE) \cup paused,
                 NEW f \in AfterMethod(id, o, LAMBDA zs : refocus(zs, mZones, mDynamicConfig.defaultId))
          PROVE  f.result # "killed"
      BY <1>0, <2>1, FocusUnkilled DEF AfterMethod
    <2>. QED
      BY <1>1, <1>2, <1>6, <2>2 DEF ShutdownZone, LockZone, Calls
  <1>7. CASE UnlockZone(id)
    <2>1. \A o \in resume(zone[id]) : o.result = "ok"
      <3>1. \E w : resume(zone[id]) = {Done(w)}
        BY CalmMethods
      <3>. QED
        BY <3>1, DoneOne
    <2>2. \A zs, e : Focus(zs, mActiveZoneId, shownVT, e).result = e
      BY DEF Focus
    <2>. QED
      BY <1>1, <1>2, <1>7, <2>1, <2>2 DEF UnlockZone, Calls
  <1>8. CASE CleanUpZonesRoot \/ RestoreAll
    BY <1>0, <1>8 DEF CleanUpZonesRoot, RestoreAll, memory
  <1>9. CASE CreateZone(id, template)
    BY <1>0, <1>2, <1>9
       DEF CreateZone, Copying, GeneratingConfig, Inserting, Inserted, CreateFails, CreationKilled
  <1>10. CASE DestroyZone(id)
    <2>. DEFINE zones == Without(mZones, id)
    <2>1. ASSUME NEW z, NEW f, f.result # "killed", DestroyKnown(id, z, f) PROVE phase' = "running"
      BY <1>0, <2>1 DEF DestroyKnown, Lose, LastAnswer, Answer, AssertsHold, NoReply
    <2>2. zones \in Seq(Names)
      BY <1>0, WithoutElements
    <2>3. \A zs, d : \A f \in refocus(zs, zones, d) : f.result # "killed"
      BY <1>0, <2>2, FocusUnkilled
    <2>. QED
      BY <1>0, <1>2, <1>10, <2>1, <2>3 DEF DestroyZone, DestructionKilled
  <1>. QED
    BY <1>4, <1>5, <1>6, <1>7, <1>8, <1>9, <1>10

LEMMA DownStep ==
  ASSUME Undisturbed, ~Restores, TypeOK, Focused, AssertsHold', [Next]_vars,
         phase' \in {"stopped", "down"}
  PROVE  \A i \in Names : zone'[i].saved = zone[i].saved
  <1>1. CASE UNCHANGED vars
    BY <1>1 DEF vars
  <1>2. CASE Boot \/ setZonesDetachOnExit
    <2>1. phase' \in {"running", "failing"}
      <3>1. CASE Boot
        BY <3>1, BootType DEF Booted
      <3>2. CASE setZonesDetachOnExit
        BY <3>2 DEF setZonesDetachOnExit
      <3>. QED
        BY <1>2, <3>1, <3>2
    <2>. QED
      BY <2>1
  <1>3. CASE Stop
    BY <1>3, CalmStopAll
  <1>4. CASE Exit \/ Crash
    <2>1. \A i \in Names : zone'[i] \in {forget(zone[i]), forget(Dead(zone[i]))}
      BY <1>4 DEF Exit, Crash, Lose
    <2>2. \A z \in ZoneSpace(VTs) : forget(z).saved = z.saved /\ forget(Dead(z)).saved = z.saved
      BY DEF forget, Dead, ZoneSpace
    <2>3. \A i \in Names : zone[i] \in ZoneSpace(VTs)
      BY Types
    <2>. QED
      BY <2>1, <2>2, <2>3
  <1>5. ASSUME NEW id \in Names, ZoneDies(id) \/ ZonePowersOff(id)
        PROVE  \A i \in Names : zone'[i].saved = zone[i].saved
    <2>1. \A z \in ZoneSpace(VTs) : /\ Dead(z).saved = z.saved
                                    /\ [z EXCEPT !.lxc = "STOPPING"].saved = z.saved
      BY DEF Dead, ZoneSpace
    <2>. QED
      BY <1>5, <2>1, Types DEF ZoneDies, ZonePowersOff, Zones
  <1>6. HostId \in Names
    BY DEF Names
  <1>. QED
    BY <1>1, <1>2, <1>3, <1>4, <1>5, <1>6, HandlersStay
       DEF Next, LoadingKilled, CleaningKilled, Undisturbed

\* Under the same conditions, what a restart will find as the requested states
\* is left alone on the way down, whether the daemon is stopped or killed
\* between two calls.
THEOREM GoingDownKeepsRequests ==
  ASSUME Undisturbed, ~Restores
  PROVE  Spec => GoingDownKeepsState
  <1>1. TypeOK /\ Focused /\ AssertsHold' /\ [Next]_vars =>
          [phase' \in {"stopped", "down"} => \A i \in Names : zone'[i].saved = zone[i].saved]_vars
    BY DownStep
  <1>2. Truthful => AssertsHold
    BY DEF Truthful
  <1>. QED
    BY <1>1, <1>2, CalmAlways, TypeCorrect, PTL DEF Spec, GoingDownKeepsState
=============================================================================
