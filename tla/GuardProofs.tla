---------------------------- MODULE GuardProofs -----------------------------
(***************************************************************************)
(* Proofs about what a guard and the processes it starts do for a          *)
(* container: the ids of a user namespace, what is prepared before and     *)
(* after clone() and by init, the processes that enter, the control        *)
(* groups, the terminals, and the configuration that comes back to the     *)
(* daemon's objects.                                                       *)
(***************************************************************************)
EXTENDS UserNS, Preparation, Attach, CGroups, Configuration, Terminal, SequenceLemmas

-----------------------------------------------------------------------------
(* User namespaces: what the container and the kernel say of an id is the  *)
(* same.                                                                   *)

-----------------------------------------------------------------------------
(* One range, and one map.                                                 *)

\* A range that assertMapCorrect lets pass does not wrap.
Bounded(r) == r \in Ranges /\ r.cont + r.num < Width /\ r.host + r.num < Width

LEMMA WidthPositive == Width \in Nat \ {0}
  BY UserNSAssumption

LEMMA ModOfSmall ==
  ASSUME NEW n \in Nat, n < Width
  PROVE  n % Width = n
  BY WidthPositive

\* The library's test of an id against a range is the kernel's.
LEMMA WithinIsHeld ==
  ASSUME NEW r, Bounded(r), r.num > 0, NEW id \in Ids
  PROVE  /\ within(id, r.cont, r.num) <=> r.cont <= id /\ id < r.cont + r.num
         /\ r.cont <= id /\ id < r.cont + r.num =>
              (r.host + (id - r.cont)) % Width = r.host + (id - r.cont)
  <1>1. r.cont \in Nat /\ r.host \in Nat /\ r.num \in Nat /\ id \in Nat
    BY WidthPositive DEF Bounded, Ranges, Ids
  <1>2. (r.cont + r.num - 1) % Width = r.cont + r.num - 1
    <2>1. r.cont + r.num - 1 \in Nat /\ r.cont + r.num - 1 < Width
      BY <1>1, WidthPositive DEF Bounded
    <2>. QED
      BY <2>1, ModOfSmall
  <1>3. ASSUME r.cont <= id, id < r.cont + r.num
        PROVE  (r.host + (id - r.cont)) % Width = r.host + (id - r.cont)
    <2>1. r.host + (id - r.cont) \in Nat /\ r.host + (id - r.cont) < Width
      BY <1>1, <1>3, WidthPositive DEF Bounded
    <2>. QED
      BY <2>1, ModOfSmall
  <1>. QED
    BY <1>1, <1>2, <1>3 DEF within

LEMMA ToSetDef ==
  ASSUME NEW map \in Seq(Ranges)
  PROVE  /\ \A i \in DOMAIN map : map[i] \in ToSet(map) /\ map[i] \in Ranges
         /\ \A r \in ToSet(map) : \E i \in DOMAIN map : map[i] = r
         /\ map # <<>> => 1 \in DOMAIN map
         /\ DOMAIN map = 1 .. Len(map) /\ Len(map) \in Nat
  BY EmptySeq, LenProperties DEF ToSet

LEMMA ApartImages ==
  ASSUME NEW r \in Ranges, NEW q \in Ranges, NEW id \in Ids, NEW jd \in Ids,
         r.cont <= id, id < r.cont + r.num, q.cont <= jd, jd < q.cont + q.num,
         Apart(r.host, q.host, r.num, q.num)
  PROVE  r.host + (id - r.cont) # q.host + (jd - q.cont)
  <1>1. /\ r.cont \in Nat /\ r.host \in Nat /\ r.num \in Nat
        /\ q.cont \in Nat /\ q.host \in Nat /\ q.num \in Nat
        /\ id \in Nat /\ jd \in Nat
    BY WidthPositive DEF Ranges, Ids
  <1>. QED
    BY <1>1 DEF Apart

\* What both make of the ids, when the kernel takes a map of ranges that do not wrap.
LEMMA TakenAgrees ==
  ASSUME NEW map \in Seq(Ranges), map # <<>>, \A i \in DOMAIN map : Bounded(map[i]),
         KernelTakes(map), newUser
  PROVE  Agrees(map, map)
  <1>. DEFINE holds(i, id) == map[i].cont <= id /\ id < map[i].cont + map[i].num
              image(i, id) == map[i].host + (id - map[i].cont)
  <1>1. \A i \in DOMAIN map : /\ map[i].cont \in Nat /\ map[i].host \in Nat /\ map[i].num \in Nat
                              /\ map[i].num > 0
    BY WidthPositive DEF Bounded, Ranges, Ids, KernelTakes
  <1>2. \A id \in Ids, i \in DOMAIN map :
          /\ i \in Holding(map, id) <=> holds(i, id)
          /\ holds(i, id) => (map[i].host + (id - map[i].cont)) % Width = image(i, id)
    BY <1>1, WithinIsHeld DEF Holding
  <1>3. \A id \in Ids, i, j \in DOMAIN map : holds(i, id) /\ holds(j, id) => i = j
    BY <1>1 DEF KernelTakes, Apart, Ids
  <1>4. ASSUME NEW id \in Ids, NEW jd \in Ids, NEW i \in DOMAIN map, NEW j \in DOMAIN map,
               holds(i, id), holds(j, jd), image(i, id) = image(j, jd)
        PROVE  id = jd
    <2>1. id \in Nat /\ jd \in Nat
      BY WidthPositive DEF Ids
    <2>2. CASE i = j
      BY <1>1, <1>4, <2>1, <2>2
    <2>3. CASE i # j
      <3>1. Apart(map[i].host, map[j].host, map[i].num, map[j].num)
        BY <2>3 DEF KernelTakes
      <3>2. map[i] \in Ranges /\ map[j] \in Ranges
        BY DEF Bounded
      <3>3. /\ map[i].cont <= id /\ id < map[i].cont + map[i].num
            /\ map[j].cont <= jd /\ jd < map[j].cont + map[j].num
        BY <1>4
      <3>4. map[i].host + (id - map[i].cont) # map[j].host + (jd - map[j].cont)
        BY <3>1, <3>2, <3>3, ApartImages
      <3>. QED
        BY <1>4, <3>4
    <2>. QED
      BY <2>2, <2>3
  <1>5. \A id \in Ids : Throws(map, id) <=> ~\E i \in DOMAIN map : holds(i, id)
    BY <1>2 DEF Throws, Holding
  <1>6. \A id \in Ids : KernelMaps(map, id) <=> \E i \in DOMAIN map : holds(i, id)
    BY ToSetDef DEF KernelMaps
  <1>. HIDE DEF holds, image
  <1>7. \A id \in Ids, i \in DOMAIN map : holds(i, id) => convContToHostID(map, id) = image(i, id)
    <2>. SUFFICES ASSUME NEW id \in Ids, NEW i \in DOMAIN map, holds(i, id)
                  PROVE  convContToHostID(map, id) = image(i, id)
      OBVIOUS
    <2>1. i \in Holding(map, id) /\ \A j \in Holding(map, id) : j = i
      BY <1>2, <1>3 DEF Holding
    <2>2. i \in Nat
      BY ToSetDef
    <2>3. (CHOOSE k \in Holding(map, id) : \A j \in Holding(map, id) : k <= j) = i
      BY <2>1, <2>2
    <2>. QED
      BY <1>2, <2>3 DEF convContToHostID
  <1>8. \A id \in Ids, i \in DOMAIN map : holds(i, id) => KernelId(map, id) = image(i, id)
    <2>. SUFFICES ASSUME NEW id \in Ids, NEW i \in DOMAIN map, holds(i, id)
                  PROVE  KernelId(map, id) = image(i, id)
      OBVIOUS
    <2>. DEFINE P(r) == r.cont <= id /\ id < r.cont + r.num
    <2>1. P(map[i]) /\ map[i] \in ToSet(map)
      BY ToSetDef DEF holds
    <2>2. \A r \in ToSet(map) : P(r) => r = map[i]
      BY <1>3, ToSetDef DEF holds
    <2>3. (CHOOSE r \in ToSet(map) : P(r)) = map[i]
      BY <2>1, <2>2
    <2>. QED
      BY <2>3 DEF KernelId, image
  <1>. QED
    BY <1>4, <1>5, <1>6, <1>7, <1>8 DEF Agrees

\* Without a user namespace no id is changed.
LEMMA NoneAgrees ==
  ASSUME ~newUser
  PROVE  Agrees(<<>>, <<>>)
  BY DEF Agrees, Throws, KernelMaps, KernelId, convContToHostID

-----------------------------------------------------------------------------
(* KernelAgrees.                                                           *)

BoundedMap(map) == map \in Seq(Ranges) /\ Len(map) <= 5 /\ \A i \in DOMAIN map : Bounded(map[i])

\* From the check in start() on the maps stay; the kernel has them from SetupUserNS
\* on; and in a user namespace that runs there is a map of each kind.
IdsInv ==
  /\ BoundedMap(mUIDMaps) /\ BoundedMap(mGIDMaps)
  /\ newUser \in BOOLEAN /\ (~newUser => mUIDMaps = <<>> /\ mGIDMaps = <<>>)
  /\ kernelUids \in Seq(Ranges) /\ kernelGids \in Seq(Ranges)
  /\ starting \in {"no", "checked", "mapped", "running", "failed"}
  /\ starting \in {"mapped", "running"} =>
       /\ kernelUids = mUIDMaps /\ KernelTakes(mUIDMaps)
       /\ kernelGids = mGIDMaps /\ KernelTakes(mGIDMaps)
  /\ starting = "running" /\ newUser => mUIDMaps # <<>> /\ mGIDMaps # <<>>

LEMMA EmptyIsBounded == BoundedMap(<<>>)
  BY EmptySeq, LenProperties DEF BoundedMap

LEMMA AddedIsBounded ==
  ASSUME NEW map, BoundedMap(map), NEW r \in Ranges, MapCorrect(map, r)
  PROVE  BoundedMap(Append(map, r))
  <1>1. Bounded(r)
    BY WidthPositive DEF MapCorrect, Bounded, Ranges, Ids
  <1>2. /\ Append(map, r) \in Seq(Ranges) /\ Len(Append(map, r)) = Len(map) + 1
        /\ Len(map) \in Nat /\ Len(map) < 5
        /\ \A i \in 1 .. Len(map) : Append(map, r)[i] = map[i] /\ i \in DOMAIN map
        /\ Append(map, r)[Len(map) + 1] = r
        /\ DOMAIN Append(map, r) = 1 .. Len(map) + 1
    BY AppendProperties, LenProperties DEF BoundedMap, MapCorrect
  <1>. QED
    BY <1>1, <1>2 DEF BoundedMap

LEMMA RootIsHeld ==
  ASSUME NEW map \in Seq(Ranges), KernelMaps(map, 0), newUser
  PROVE  map # <<>>
  BY DEF KernelMaps, ToSet

LEMMA IdsInit == UserNSInit => IdsInv
  BY EmptyIsBounded, EmptySeq DEF UserNSInit, IdsInv

LEMMA IdsStep == IdsInv /\ [UserNSNext]_userNSVars => IdsInv'
  <1>. SUFFICES ASSUME IdsInv, [UserNSNext]_userNSVars PROVE IdsInv'
    OBVIOUS
  <1>. USE DEF IdsInv
  <1>1. ASSUME NEW r \in UidRanges, addUIDMap(r) PROVE IdsInv'
    BY <1>1, AddedIsBounded, UserNSAssumption DEF addUIDMap
  <1>2. ASSUME NEW r \in GidRanges, addGIDMap(r) PROVE IdsInv'
    BY <1>2, AddedIsBounded, UserNSAssumption DEF addGIDMap
  <1>3. CASE CheckMaps
    BY <1>3 DEF CheckMaps
  <1>4. CASE SetupMaps
    BY <1>4 DEF SetupMaps, BoundedMap
  <1>5. CASE BecomeRoot
    BY <1>5, RootIsHeld DEF BecomeRoot, BoundedMap
  <1>6. CASE Discarded
    BY <1>6, EmptyIsBounded, EmptySeq DEF Discarded
  <1>7. CASE UNCHANGED userNSVars
    BY <1>7 DEF userNSVars
  <1>. QED
    BY <1>1, <1>2, <1>3, <1>4, <1>5, <1>6, <1>7 DEF UserNSNext

\* In a container that runs the library and the kernel map every id alike, and no two
\* ids to one, for ids of any width and whichever ranges were added, though the library
\* tests only where a new range begins and computes modulo the width.
THEOREM IdsAgree == UserNSSpec => []KernelAgrees
  <1>1. IdsInv => KernelAgrees
    BY TakenAgrees, NoneAgrees DEF IdsInv, BoundedMap, KernelAgrees
  <1>. QED
    BY IdsInit, IdsStep, <1>1, PTL DEF UserNSSpec

-----------------------------------------------------------------------------
(* The preparation of a container.                                         *)

\* After the k-th step of a sequence comes the next.
LEMMA AfterIs ==
  ASSUME NEW S, NEW steps \in Seq(S), IsInjective(steps), NEW k \in 1 .. Len(steps) - 1
  PROVE  After(steps, steps[k]) = steps[k + 1]
  <1>1. Len(steps) \in Nat /\ DOMAIN steps = 1 .. Len(steps)
    BY LenProperties
  <1>2. \A i \in 2 .. Len(steps) : steps[i - 1] = steps[k] <=> i = k + 1
    <2>1. ASSUME NEW i \in 2 .. Len(steps), steps[i - 1] = steps[k] PROVE i = k + 1
      <3>1. i - 1 \in DOMAIN steps /\ k \in DOMAIN steps
        BY <1>1
      <3>2. i - 1 = k
        BY <2>1, <3>1 DEF IsInjective
      <3>. QED
        BY <1>1, <3>2
    <2>. QED
      BY <1>1, <2>1
  <1>3. k + 1 \in 2 .. Len(steps)
    BY <1>1
  <1>4. (CHOOSE i \in 2 .. Len(steps) : steps[i - 1] = steps[k]) = k + 1
    BY <1>2, <1>3
  <1>. QED
    BY <1>4 DEF After

\* One sequence after another.
Joined(s, t, u, S) ==
  /\ u \in Seq(S) /\ Len(u) = Len(s) + Len(t) /\ DOMAIN u = 1 .. Len(s) + Len(t)
  /\ \A i \in 1 .. Len(s) : u[i] = s[i]
  /\ \A i \in 1 .. Len(t) : u[Len(s) + i] = t[i]

LEMMA ConcatJoins ==
  ASSUME NEW S, NEW s \in Seq(S), NEW t \in Seq(S)
  PROVE  Joined(s, t, s \o t, S)
  BY ConcatElements, LenProperties DEF Joined

PostCloneDone == ToSet(PostClone) \subseteq did

\* Where onStart is, and what it has done by then.
GuardProgress ==
  \A k \in DOMAIN GuardSteps : guardAt = GuardSteps[k] =>
    /\ k <= Len(PreClone) + 1 => initAt = "none"
    /\ \A l \in DOMAIN PostClone : Len(PreClone) + 1 + l < k => PostClone[l] \in did

InitProgress ==
  /\ \A k \in DOMAIN InitSteps : initAt = InitSteps[k] =>
       /\ k > 1 => toInit = "sent"
       /\ \A l \in DOMAIN InClone : l + 2 < k => InClone[l] \in did
       /\ k > 16 => \A m \in initMounts : m[1] = "own"
  /\ initAt = "program" =>
       toInit = "sent" /\ ToSet(InClone) \subseteq did /\ \A m \in initMounts : m[1] = "own"

PreparationInv ==
  /\ PreparationTypeOK
  /\ GuardProgress
  /\ InitProgress
  /\ toInit = "sent" => PostCloneDone
  /\ toGuard = "sent" => initAt \in {"exec", "program", "dead"}
  /\ guardAt = "running" => initAt \in {"exec", "program", "dead"} /\ PostCloneDone

\* The names of the steps.
StepNames ==
  {"unshare", "dev", "nodes", "devpts", "ptys", "files", "links", "subsystems", "cgroups", "relay", "clone",
   "userns", "network", "smackns", "assignPid", "continue", "wait"} \cup ToSet(ProvisionTargets)

LEMMA TargetsAre == ProvisionTargets \in Seq(StepNames) /\ Len(ProvisionTargets) \in Nat
  <1>1. /\ Len(ProvisionTargets) \in Nat
        /\ DOMAIN ProvisionTargets = 1 .. Len(ProvisionTargets)
        /\ ProvisionTargets \in [1 .. Len(ProvisionTargets) -> STRING]
    BY PreparationAssumption, LenProperties
  <1>2. \A i \in 1 .. Len(ProvisionTargets) : ProvisionTargets[i] \in StepNames
    BY <1>1 DEF ToSet, StepNames
  <1>3. ProvisionTargets \in [1 .. Len(ProvisionTargets) -> StepNames]
    BY <1>1, <1>2
  <1>. QED
    BY <1>1, <1>3, SeqDef

LEMMA PostCloneIs ==
  /\ PostClone \in Seq(StepNames) /\ Len(PostClone) = 4 /\ DOMAIN PostClone = 1 .. 4
  <1>1. "userns" \in StepNames /\ "network" \in StepNames /\ "smackns" \in StepNames /\ "assignPid" \in StepNames
    BY DEF StepNames
  <1>. QED
    BY <1>1 DEF PostClone

LEMMA PreCloneIs ==
  PreClone \in Seq(StepNames) /\ Len(PreClone) \in Nat /\ Len(PreClone) >= 10 /\ PreClone[1] = "unshare"
  <1>. DEFINE a == <<"unshare", "dev", "nodes", "devpts", "ptys", "files">>
              b == <<"links", "subsystems", "cgroups", "relay">>
              c == a \o ProvisionTargets
  <1>1. /\ "unshare" \in StepNames /\ "dev" \in StepNames /\ "nodes" \in StepNames /\ "devpts" \in StepNames
        /\ "ptys" \in StepNames /\ "files" \in StepNames /\ "links" \in StepNames
        /\ "subsystems" \in StepNames /\ "cgroups" \in StepNames /\ "relay" \in StepNames
    BY DEF StepNames
  <1>2. a \in Seq(StepNames) /\ Len(a) = 6 /\ a[1] = "unshare"
    BY <1>1
  <1>3. b \in Seq(StepNames) /\ Len(b) = 4
    BY <1>1
  <1>4. PreClone = c \o b
    BY DEF PreClone
  <1>. HIDE DEF a, b
  <1>5. Joined(a, ProvisionTargets, c, StepNames)
    BY <1>2, TargetsAre, ConcatJoins
  <1>. HIDE DEF c
  <1>6. c \in Seq(StepNames) /\ Len(c) = 6 + Len(ProvisionTargets) /\ c[1] = "unshare"
    BY <1>2, <1>5 DEF Joined
  <1>7. Joined(c, b, c \o b, StepNames)
    BY <1>3, <1>6, ConcatJoins
  <1>8. c \o b \in Seq(StepNames) /\ Len(c \o b) = Len(c) + 4 /\ (c \o b)[1] = c[1]
    BY <1>3, <1>6, <1>7, TargetsAre DEF Joined
  <1>. QED
    BY <1>4, <1>6, <1>8, TargetsAre

\* Where the steps are in the two sequences.
LEMMA GuardStepsAre ==
  /\ GuardSteps \in Seq(StepNames) /\ Len(GuardSteps) = Len(PreClone) + 7
  /\ \A k \in 1 .. Len(PreClone) : GuardSteps[k] = PreClone[k]
  /\ GuardSteps[Len(PreClone) + 1] = "clone"
  /\ \A l \in 1 .. 4 : GuardSteps[Len(PreClone) + 1 + l] = PostClone[l]
  /\ GuardSteps[Len(PreClone) + 6] = "continue" /\ GuardSteps[Len(PreClone) + 7] = "wait"
  <1>. DEFINE n == Len(PreClone)
              o == <<"clone">>
              a == PreClone \o o
              b == a \o PostClone
              e == <<"continue", "wait">>
              c == b \o e
  <1>1. PreClone \in Seq(StepNames) /\ n \in Nat /\ DOMAIN PreClone = 1 .. n
    BY PreCloneIs, LenProperties
  <1>2. o \in Seq(StepNames) /\ Len(o) = 1 /\ DOMAIN o = 1 .. 1 /\ o[1] = "clone"
    <2>1. "clone" \in StepNames
      BY DEF StepNames
    <2>. QED
      BY <2>1
  <1>3. e \in Seq(StepNames) /\ Len(e) = 2 /\ DOMAIN e = 1 .. 2 /\ e[1] = "continue" /\ e[2] = "wait"
    <2>1. "continue" \in StepNames /\ "wait" \in StepNames
      BY DEF StepNames
    <2>. QED
      BY <2>1
  <1>4. GuardSteps = c
    BY DEF GuardSteps
  <1>. HIDE DEF o, e, n, a, b, c
  <1>5. Joined(PreClone, o, a, StepNames)
    BY <1>1, <1>2, ConcatJoins DEF a
  <1>6. /\ a \in Seq(StepNames) /\ Len(a) = n + 1 /\ a[n + 1] = "clone"
        /\ \A k \in 1 .. n : a[k] = PreClone[k]
    <2>1. n = Len(PreClone)
      BY DEF n
    <2>. QED
      BY <1>2, <1>5, <2>1 DEF Joined
  <1>7. Joined(a, PostClone, b, StepNames)
    BY <1>6, PostCloneIs, ConcatJoins DEF b
  <1>8. /\ b \in Seq(StepNames) /\ Len(b) = n + 5
        /\ \A k \in 1 .. n + 1 : b[k] = a[k]
        /\ \A l \in 1 .. 4 : b[n + 1 + l] = PostClone[l]
    BY <1>1, <1>6, <1>7, PostCloneIs DEF Joined
  <1>9. Joined(b, e, c, StepNames)
    BY <1>3, <1>8, ConcatJoins DEF c
  <1>10. c \in Seq(StepNames) /\ Len(c) = n + 7
    BY <1>1, <1>3, <1>8, <1>9 DEF Joined
  <1>11. \A k \in 1 .. n + 5 : c[k] = b[k]
    BY <1>1, <1>8, <1>9 DEF Joined
  <1>12. c[n + 6] = "continue" /\ c[n + 7] = "wait"
    <2>1. \A i \in 1 .. 2 : c[(n + 5) + i] = e[i]
      BY <1>3, <1>8, <1>9 DEF Joined
    <2>2. c[(n + 5) + 1] = e[1] /\ c[(n + 5) + 2] = e[2] /\ (n + 5) + 1 = n + 6 /\ (n + 5) + 2 = n + 7
      BY <1>1, <2>1
    <2>. QED
      BY <1>3, <2>2
  <1>13. \A k \in 1 .. n : c[k] = PreClone[k]
    BY <1>1, <1>6, <1>8, <1>11
  <1>14. c[n + 1] = "clone"
    <2>1. n + 1 \in 1 .. n + 1 /\ n + 1 \in 1 .. n + 5
      BY <1>1
    <2>. QED
      BY <1>6, <1>8, <1>11, <2>1
  <1>15. ASSUME NEW l \in 1 .. 4 PROVE c[n + 1 + l] = PostClone[l]
    <2>1. n + 1 + l \in 1 .. n + 5
      BY <1>1
    <2>. QED
      BY <1>8, <1>11, <2>1
  <1>. QED
    BY <1>4, <1>10, <1>12, <1>13, <1>14, <1>15 DEF n

InitStepNames ==
  {"wait", "becomeRoot", "setHostName", "pivotRoot", "cleanUpRoot", "mountStatic", "prepDev", "symlinkStatic",
   "guestTerminals", "netConfigure", "cgroupSysFs", "rlimits", "sysctl", "caps", "env", "umountOld", "ready", "exec"}

LEMMA InCloneIs ==
  /\ InClone \in Seq(InitStepNames) /\ Len(InClone) = 14 /\ DOMAIN InClone = 1 .. 14
  BY DEF InClone, InitStepNames

LEMMA InitStepsAre ==
  /\ InitSteps \in Seq(InitStepNames) /\ Len(InitSteps) = 18
  /\ InitSteps[1] = "wait" /\ InitSteps[2] = "becomeRoot"
  /\ \A l \in 1 .. 14 : InitSteps[l + 2] = InClone[l]
  /\ InitSteps[17] = "ready" /\ InitSteps[18] = "exec"
  <1>. DEFINE o == <<"wait", "becomeRoot">>
              a == o \o InClone
              e == <<"ready", "exec">>
              c == a \o e
  <1>1. o \in Seq(InitStepNames) /\ Len(o) = 2 /\ DOMAIN o = 1 .. 2 /\ o[1] = "wait" /\ o[2] = "becomeRoot"
    BY DEF InitStepNames
  <1>2. e \in Seq(InitStepNames) /\ Len(e) = 2 /\ DOMAIN e = 1 .. 2 /\ e[1] = "ready" /\ e[2] = "exec"
    BY DEF InitStepNames
  <1>3. InitSteps = c
    BY DEF InitSteps
  <1>. HIDE DEF o, e, a, c
  <1>4. Joined(o, InClone, a, InitStepNames)
    BY <1>1, InCloneIs, ConcatJoins DEF a
  <1>5. /\ a \in Seq(InitStepNames) /\ Len(a) = 16 /\ a[1] = "wait" /\ a[2] = "becomeRoot"
        /\ \A l \in 1 .. 14 : a[2 + l] = InClone[l]
    BY <1>1, <1>4, InCloneIs DEF Joined
  <1>6. Joined(a, e, c, InitStepNames)
    BY <1>2, <1>5, ConcatJoins DEF c
  <1>7. c \in Seq(InitStepNames) /\ Len(c) = 18 /\ \A k \in 1 .. 16 : c[k] = a[k]
    BY <1>2, <1>5, <1>6 DEF Joined
  <1>8. c[16 + 1] = "ready" /\ c[16 + 2] = "exec"
    BY <1>2, <1>5, <1>6 DEF Joined
  <1>9. ASSUME NEW l \in 1 .. 14 PROVE c[l + 2] = InClone[l]
    <2>1. l + 2 \in 1 .. 16 /\ l + 2 = 2 + l
      OBVIOUS
    <2>. QED
      BY <1>5, <1>7, <2>1
  <1>. QED
    BY <1>3, <1>5, <1>7, <1>8, <1>9

\* The place of each step of init.
Place(step) ==
  CASE step = "wait" -> 1 [] step = "becomeRoot" -> 2 [] step = "setHostName" -> 3
    [] step = "pivotRoot" -> 4 [] step = "cleanUpRoot" -> 5 [] step = "mountStatic" -> 6
    [] step = "prepDev" -> 7 [] step = "symlinkStatic" -> 8 [] step = "guestTerminals" -> 9
    [] step = "netConfigure" -> 10 [] step = "cgroupSysFs" -> 11 [] step = "rlimits" -> 12
    [] step = "sysctl" -> 13 [] step = "caps" -> 14 [] step = "env" -> 15 [] step = "umountOld" -> 16
    [] step = "ready" -> 17 [] step = "exec" -> 18 [] OTHER -> 0

LEMMA InitStepsDistinct ==
  /\ IsInjective(InitSteps)
  /\ \A k \in 1 .. 18 : Place(InitSteps[k]) = k
  <1>1. ASSUME NEW l \in 1 .. 14 PROVE Place(InClone[l]) = l + 2
    BY DEF Place, InClone
  <1>2. Place("wait") = 1 /\ Place("becomeRoot") = 2 /\ Place("ready") = 17 /\ Place("exec") = 18
    BY DEF Place
  <1>3. ASSUME NEW k \in 1 .. 18 PROVE Place(InitSteps[k]) = k
    <2>1. CASE k \in 3 .. 16
      <3>1. k - 2 \in 1 .. 14 /\ (k - 2) + 2 = k
        BY <2>1
      <3>. QED
        BY <1>1, <3>1, InitStepsAre
    <2>2. CASE k \in {1, 2, 17, 18}
      BY <1>2, <2>2, InitStepsAre
    <2>. QED
      BY <2>1, <2>2
  <1>4. DOMAIN InitSteps = 1 .. 18
    BY InitStepsAre, LenProperties
  <1>. QED
    BY <1>3, <1>4 DEF IsInjective

PreCount == Len(PreClone)

LEMMA GuardStepsDistinct ==
  /\ PreCount \in Nat /\ PreCount >= 10 /\ DOMAIN GuardSteps = 1 .. PreCount + 7
  /\ \A k, j \in 1 .. PreCount + 7 : GuardSteps[k] = GuardSteps[j] => k = j
  /\ \A k \in 1 .. PreCount + 7 : GuardSteps[k] \notin Ends
  /\ "unshare" = GuardSteps[1] /\ "clone" = GuardSteps[PreCount + 1]
  /\ "continue" = GuardSteps[PreCount + 6] /\ "wait" = GuardSteps[PreCount + 7]
  /\ \A step \in ToSet(PreClone) : \E k \in 1 .. PreCount : step = GuardSteps[k]
  /\ \A step \in ToSet(PostClone) : \E l \in 1 .. 4 : step = GuardSteps[PreCount + 1 + l] /\ step = PostClone[l]
  /\ \A l \in 1 .. 4 : GuardSteps[PreCount + 1 + l] = PostClone[l]
  <1>1. PreCount \in Nat /\ PreCount >= 10 /\ DOMAIN GuardSteps = 1 .. PreCount + 7 /\ DOMAIN PreClone = 1 .. PreCount
    BY PreCloneIs, GuardStepsAre, LenProperties DEF PreCount
  <1>2. \A k, j \in 1 .. PreCount + 7 : GuardSteps[k] = GuardSteps[j] => k = j
    BY <1>1, StepsAssumption DEF IsInjective
  <1>3. \A k \in 1 .. PreCount + 7 : GuardSteps[k] \notin Ends
    BY <1>1, StepsAssumption DEF ToSet
  <1>4. "unshare" = GuardSteps[1]
    BY <1>1, PreCloneIs, GuardStepsAre DEF PreCount
  <1>. QED
    BY <1>1, <1>2, <1>3, <1>4, GuardStepsAre, PostCloneIs DEF PreCount, ToSet

LEMMA InitStepsPlaces ==
  /\ DOMAIN InitSteps = 1 .. 18
  /\ \A k, j \in 1 .. 18 : InitSteps[k] = InitSteps[j] => k = j
  /\ \A k \in 1 .. 18 : InitSteps[k] \notin {"none", "program", "dead"}
  /\ \A k \in 1 .. 17 : InitSteps[k] # "exec"
  /\ "wait" = InitSteps[1] /\ "becomeRoot" = InitSteps[2] /\ "umountOld" = InitSteps[16]
  /\ "ready" = InitSteps[17] /\ "exec" = InitSteps[18]
  /\ \A step \in ToSet(InClone) : \E l \in 1 .. 14 : step = InitSteps[l + 2] /\ step = InClone[l]
  /\ \A l \in 1 .. 14 : InitSteps[l + 2] = InClone[l]
  /\ "umountOld" \in ToSet(InClone)
  <1>1. DOMAIN InitSteps = 1 .. 18
    BY InitStepsAre, LenProperties
  <1>2. InClone[14] = "umountOld"
    BY DEF InClone
  <1>3. \A step \in {"none", "program", "dead"} : Place(step) = 0
    BY DEF Place
  <1>4. \A k \in 1 .. 18 : InitSteps[k] \notin {"none", "program", "dead"}
    BY <1>3, InitStepsDistinct
  <1>5. Place("exec") = 18
    BY DEF Place
  <1>6. \A k \in 1 .. 17 : InitSteps[k] # "exec"
    BY <1>5, InitStepsDistinct
  <1>7. "umountOld" = InitSteps[16]
    <2>1. InitSteps[14 + 2] = InClone[14]
      BY InitStepsAre
    <2>. QED
      BY <1>2, <2>1
  <1>8. /\ \A step \in ToSet(InClone) : \E l \in 1 .. 14 : step = InitSteps[l + 2] /\ step = InClone[l]
        /\ "umountOld" \in ToSet(InClone)
    BY <1>2, InitStepsAre, InCloneIs DEF ToSet
  <1>. QED
    BY <1>1, <1>4, <1>6, <1>7, <1>8, InitStepsAre, InitStepsDistinct DEF IsInjective

\* A step of onStart, and of init, goes to the next.
LEMMA GuardMoves ==
  ASSUME NEW k \in 1 .. PreCount + 6, guardAt = GuardSteps[k], GuardGoes
  PROVE  guardAt' = GuardSteps[k + 1]
  <1>1. GuardSteps \in Seq(StepNames) /\ Len(GuardSteps) = PreCount + 7 /\ PreCount \in Nat
    BY GuardStepsAre, GuardStepsDistinct DEF PreCount
  <1>2. guardAt # "wait"
    <2>1. k \in 1 .. PreCount + 7 /\ PreCount + 7 \in 1 .. PreCount + 7 /\ k # PreCount + 7
      BY <1>1
    <2>. QED
      BY <2>1, GuardStepsDistinct
  <1>3. After(GuardSteps, GuardSteps[k]) = GuardSteps[k + 1]
    <2>1. k \in 1 .. Len(GuardSteps) - 1
      BY <1>1
    <2>. QED
      BY <1>1, <2>1, StepsAssumption, AfterIs
  <1>. QED
    BY <1>2, <1>3 DEF GuardGoes

LEMMA InitMoves ==
  ASSUME NEW k \in 1 .. 17, initAt = InitSteps[k], InitGoes
  PROVE  initAt' = InitSteps[k + 1]
  <1>1. k \in 1 .. Len(InitSteps) - 1
    BY InitStepsAre
  <1>2. After(InitSteps, InitSteps[k]) = InitSteps[k + 1]
    BY <1>1, InitStepsAre, InitStepsDistinct, AfterIs
  <1>. QED
    BY <1>2 DEF InitGoes

\* onStart's progress is kept when it goes to its next step, when it stays, and when it ends.
LEMMA GuardProgressMoves ==
  ASSUME GuardProgress, NEW k \in 1 .. PreCount + 6, guardAt = GuardSteps[k], guardAt' = GuardSteps[k + 1],
         did \subseteq did', k \in PreCount + 2 .. PreCount + 5 => guardAt \in did',
         k <= PreCount => initAt' = initAt
  PROVE  GuardProgress'
  <1>. DEFINE n == PreCount
  <1>1. n \in Nat /\ n >= 10 /\ DOMAIN GuardSteps = 1 .. n + 7 /\ n = Len(PreClone) /\ DOMAIN PostClone = 1 .. 4
    BY GuardStepsDistinct, PostCloneIs DEF PreCount
  <1>. HIDE DEF n
  <1>2. /\ k <= n + 1 => initAt = "none"
        /\ \A l \in 1 .. 4 : n + 1 + l < k => PostClone[l] \in did
    <2>1. k \in DOMAIN GuardSteps
      BY <1>1 DEF n
    <2>. QED
      BY <1>1, <2>1 DEF GuardProgress
  <1>3. SUFFICES ASSUME NEW j \in 1 .. n + 7, guardAt' = GuardSteps[j]
                 PROVE  /\ j <= n + 1 => initAt' = "none"
                        /\ \A l \in 1 .. 4 : n + 1 + l < j => PostClone[l] \in did'
    BY <1>1 DEF GuardProgress
  <1>4. j = k + 1
    <2>1. k + 1 \in 1 .. PreCount + 7 /\ j \in 1 .. PreCount + 7
      BY <1>1 DEF n
    <2>. QED
      BY <1>3, <2>1, GuardStepsDistinct
  <1>5. j <= n + 1 => initAt' = "none"
    BY <1>1, <1>2, <1>4 DEF n
  <1>6. ASSUME NEW l \in 1 .. 4, n + 1 + l < j PROVE PostClone[l] \in did'
    <2>1. CASE n + 1 + l < k
      BY <1>2, <2>1
    <2>2. CASE n + 1 + l = k
      <3>1. guardAt = PostClone[l]
        BY <2>2, GuardStepsDistinct DEF n
      <3>2. k \in PreCount + 2 .. PreCount + 5
        BY <1>1, <2>2 DEF n
      <3>. QED
        BY <3>1, <3>2
    <2>. QED
      BY <1>1, <1>4, <1>6, <2>1, <2>2
  <1>. QED
    BY <1>5, <1>6

LEMMA GuardProgressStays ==
  ASSUME GuardProgress, guardAt' = guardAt, did \subseteq did', initAt = "none" => initAt' = "none"
  PROVE  GuardProgress'
  BY DEF GuardProgress

LEMMA GuardProgressEnds ==
  ASSUME guardAt' \in Ends
  PROVE  GuardProgress'
  BY GuardStepsDistinct DEF GuardProgress

AllOwn == \A m \in initMounts : m[1] = "own"

LEMMA InitProgressMoves ==
  ASSUME InitProgress, NEW k \in 1 .. 17, initAt = InitSteps[k], initAt' = InitSteps[k + 1],
         did \subseteq did', k \in 3 .. 16 => initAt \in did',
         toInit' = "sent", k >= 16 => AllOwn'
  PROVE  InitProgress'
  <1>1. DOMAIN InitSteps = 1 .. 18 /\ DOMAIN InClone = 1 .. 14
    BY InitStepsPlaces, InCloneIs
  <1>2. \A l \in 1 .. 14 : l + 2 < k => InClone[l] \in did
    BY <1>1 DEF InitProgress
  <1>3. initAt' # "program"
    BY InitStepsPlaces
  <1>4. SUFFICES ASSUME NEW j \in 1 .. 18, initAt' = InitSteps[j]
                 PROVE  /\ j > 1 => toInit' = "sent"
                        /\ \A l \in 1 .. 14 : l + 2 < j => InClone[l] \in did'
                        /\ j > 16 => AllOwn'
    BY <1>1, <1>3 DEF InitProgress, AllOwn
  <1>5. j = k + 1
    <2>1. k + 1 \in 1 .. 18 /\ InitSteps[k + 1] = InitSteps[j]
      BY <1>4
    <2>. QED
      BY <2>1, InitStepsPlaces
  <1>6. ASSUME NEW l \in 1 .. 14, l + 2 < j PROVE InClone[l] \in did'
    <2>1. CASE l + 2 < k
      BY <1>2, <2>1
    <2>2. CASE l + 2 = k
      BY <2>2, InitStepsPlaces
    <2>. QED
      BY <1>5, <1>6, <2>1, <2>2
  <1>7. j > 16 => AllOwn'
    BY <1>5
  <1>. QED
    BY <1>6, <1>7

LEMMA InitProgressStays ==
  ASSUME InitProgress, initAt' = initAt, initMounts' \subseteq initMounts, did \subseteq did',
         toInit = "sent" => toInit' = "sent"
  PROVE  InitProgress'
  BY DEF InitProgress

LEMMA InitProgressEnds ==
  ASSUME initAt' \in {"none", "dead"}
  PROVE  InitProgress'
  BY InitStepsPlaces DEF InitProgress

-----------------------------------------------------------------------------
LEMMA PreparationInitHolds ==
  ASSUME PreparationInit
  PROVE  PreparationInv
  <1>1. DOMAIN GuardSteps = 1 .. PreCount + 7 /\ PreCount \in Nat /\ "unshare" = GuardSteps[1]
        /\ "unshare" \notin Ends
    BY GuardStepsDistinct DEF Ends
  <1>2. PreparationTypeOK
    <2>1. guardAt \in ToSet(GuardSteps)
      <3>1. 1 \in DOMAIN GuardSteps
        BY <1>1
      <3>. QED
        BY <1>1, <3>1 DEF PreparationInit, ToSet
    <2>. QED
      BY <2>1 DEF PreparationInit, PreparationTypeOK
  <1>3. GuardProgress
    <2>1. ASSUME NEW k \in 1 .. PreCount + 7, guardAt = GuardSteps[k]
          PROVE  k = 1
      <3>1. 1 \in 1 .. PreCount + 7
        BY <1>1
      <3>. QED
        BY <1>1, <2>1, <3>1, GuardStepsDistinct DEF PreparationInit
    <2>2. initAt = "none" /\ PreCount = Len(PreClone) /\ DOMAIN PostClone = 1 .. 4
      BY PostCloneIs DEF PreparationInit, PreCount
    <2>. QED
      BY <1>1, <2>1, <2>2 DEF GuardProgress
  <1>4. InitProgress
    BY InitStepsPlaces DEF InitProgress, PreparationInit
  <1>. QED
    BY <1>1, <1>2, <1>3, <1>4 DEF PreparationInv, PreparationInit, Ends

\* What the invariant says of the messages and of the answer.
Promises ==
  /\ toInit = "sent" => PostCloneDone
  /\ toGuard = "sent" => initAt \in {"exec", "program", "dead"}
  /\ guardAt = "running" => initAt \in {"exec", "program", "dead"} /\ PostCloneDone

LEMMA PromisesKept ==
  ASSUME Promises, did \subseteq did', toInit' = toInit, toGuard' = toGuard, guardAt' # "running" \/ guardAt' = guardAt,
         initAt' = initAt \/ initAt \notin {"exec", "program", "dead"} \/ initAt' \in {"exec", "program", "dead"}
  PROVE  Promises'
  <1>1. PostCloneDone => PostCloneDone'
    BY DEF PostCloneDone
  <1>. QED
    BY <1>1 DEF Promises

\* The steps of the guard.
LEMMA GuardStepsBefore ==
  ASSUME PreparationInv, PrepareBefore
  PROVE  PreparationInv'
  <1>1. PICK k \in 1 .. PreCount : guardAt = GuardSteps[k]
    BY GuardStepsDistinct DEF PrepareBefore
  <1>2. k \in 1 .. PreCount + 6 /\ k + 1 \in 1 .. PreCount + 7
    BY GuardStepsDistinct
  <1>3. guardAt' = GuardSteps[k + 1] /\ guardAt' \notin Ends /\ guardAt' \in ToSet(GuardSteps)
    BY <1>1, <1>2, GuardMoves, GuardStepsDistinct DEF PrepareBefore, ToSet
  <1>4. PreparationTypeOK'
    <2>1. GuardMount(guardAt) \subseteq PrepMounts
      BY DEF GuardMount, PrepMounts
    <2>2. (ptys \/ guardAt = "ptys") \in BOOLEAN
      OBVIOUS
    <2>. QED
      BY <1>3, <2>1, <2>2 DEF PreparationInv, PreparationTypeOK, PrepareBefore
  <1>5. GuardProgress'
    <2>1. k \notin PreCount + 2 .. PreCount + 5
      BY GuardStepsDistinct
    <2>. QED
      BY <1>1, <1>2, <1>3, <2>1, GuardProgressMoves DEF PreparationInv, PrepareBefore
  <1>6. InitProgress'
    BY InitProgressStays DEF PreparationInv, PrepareBefore
  <1>7. Promises'
    <2>1. guardAt' # "running"
      BY <1>3 DEF Ends
    <2>. QED
      BY <2>1, PromisesKept DEF PreparationInv, PrepareBefore, Promises
  <1>. QED
    BY <1>4, <1>5, <1>6, <1>7 DEF PreparationInv, Promises

LEMMA GuardClones ==
  ASSUME PreparationInv, Clone
  PROVE  PreparationInv'
  <1>. DEFINE k == PreCount + 1
  <1>1. k \in 1 .. PreCount + 6 /\ k + 1 \in 1 .. PreCount + 7 /\ guardAt = GuardSteps[k]
    BY GuardStepsDistinct DEF Clone
  <1>2. k \notin PreCount + 2 .. PreCount + 5 /\ ~(k <= PreCount) /\ k \in DOMAIN GuardSteps /\ PreCount = Len(PreClone)
    BY GuardStepsDistinct DEF PreCount
  <1>. HIDE DEF k
  <1>3. guardAt' = GuardSteps[k + 1] /\ guardAt' \notin Ends /\ guardAt' \in ToSet(GuardSteps)
    BY <1>1, GuardMoves, GuardStepsDistinct DEF Clone, ToSet
  <1>4. initAt = "none"
    BY <1>1, <1>2 DEF PreparationInv, GuardProgress, k
  <1>5. initAt' = InitSteps[1] /\ initAt' \in ToSet(InitSteps)
    BY InitStepsPlaces DEF Clone, ToSet
  <1>6. PreparationTypeOK'
    <2>1. \A m \in initMounts' : m[1] = "old"
      BY DEF Clone
    <2>. QED
      BY <1>3, <1>5, <2>1 DEF PreparationInv, PreparationTypeOK, Clone
  <1>7. GuardProgress'
    BY <1>1, <1>2, <1>3, GuardProgressMoves DEF PreparationInv, Clone
  <1>8. InitProgress'
    <2>1. DOMAIN InitSteps = 1 .. 18 /\ DOMAIN InClone = 1 .. 14 /\ initAt' # "program"
      BY InitStepsPlaces, InCloneIs DEF Clone
    <2>2. ASSUME NEW j \in 1 .. 18, initAt' = InitSteps[j] PROVE j = 1
      <3>1. 1 \in 1 .. 18 /\ InitSteps[1] = InitSteps[j]
        BY <1>5, <2>2
      <3>. QED
        BY <3>1, InitStepsPlaces
    <2>. QED
      BY <2>1, <2>2 DEF InitProgress
  <1>9. Promises'
    <2>1. guardAt' # "running"
      BY <1>3 DEF Ends
    <2>. QED
      BY <1>4, <2>1, PromisesKept DEF PreparationInv, Clone, Promises
  <1>. QED
    BY <1>6, <1>7, <1>8, <1>9 DEF PreparationInv, Promises

LEMMA GuardStepsAfter ==
  ASSUME PreparationInv, PrepareAfter
  PROVE  PreparationInv'
  <1>1. PICK l \in 1 .. 4 : guardAt = GuardSteps[PreCount + 1 + l] /\ guardAt = PostClone[l]
    BY GuardStepsDistinct DEF PrepareAfter
  <1>. DEFINE k == PreCount + 1 + l
  <1>2. k \in 1 .. PreCount + 6 /\ k + 1 \in 1 .. PreCount + 7 /\ guardAt = GuardSteps[k] /\ ~(k <= PreCount)
    BY <1>1, GuardStepsDistinct
  <1>. HIDE DEF k
  <1>3. guardAt' = GuardSteps[k + 1] /\ guardAt' \notin Ends /\ guardAt' \in ToSet(GuardSteps)
    BY <1>2, GuardMoves, GuardStepsDistinct DEF PrepareAfter, ToSet
  <1>4. PreparationTypeOK'
    BY <1>3 DEF PreparationInv, PreparationTypeOK, PrepareAfter
  <1>5. GuardProgress'
    BY <1>2, <1>3, GuardProgressMoves DEF PreparationInv, PrepareAfter
  <1>6. InitProgress'
    BY InitProgressStays DEF PreparationInv, PrepareAfter
  <1>7. Promises'
    <2>1. guardAt' # "running"
      BY <1>3 DEF Ends
    <2>. QED
      BY <2>1, PromisesKept DEF PreparationInv, PrepareAfter, Promises
  <1>. QED
    BY <1>4, <1>5, <1>6, <1>7 DEF PreparationInv, Promises

LEMMA GuardContinues ==
  ASSUME PreparationInv, Continue
  PROVE  PreparationInv'
  <1>. DEFINE k == PreCount + 6
  <1>1. k \in 1 .. PreCount + 6 /\ k + 1 \in 1 .. PreCount + 7 /\ guardAt = GuardSteps[k]
    BY GuardStepsDistinct DEF Continue
  <1>2. k \notin PreCount + 2 .. PreCount + 5 /\ ~(k <= PreCount) /\ k \in DOMAIN GuardSteps /\ PreCount = Len(PreClone)
    BY GuardStepsDistinct DEF PreCount
  <1>3. \A l \in 1 .. 4 : Len(PreClone) + 1 + l < k
    BY <1>2, GuardStepsDistinct
  <1>. HIDE DEF k
  <1>4. guardAt' = GuardSteps[k + 1] /\ guardAt' \notin Ends /\ guardAt' \in ToSet(GuardSteps)
    BY <1>1, GuardMoves, GuardStepsDistinct DEF Continue, ToSet
  <1>5. PostCloneDone
    BY <1>1, <1>2, <1>3, PostCloneIs DEF PreparationInv, GuardProgress, PostCloneDone, ToSet
  <1>6. PreparationTypeOK'
    BY <1>4 DEF PreparationInv, PreparationTypeOK, Continue
  <1>7. GuardProgress'
    BY <1>1, <1>2, <1>4, GuardProgressMoves DEF PreparationInv, Continue
  <1>8. InitProgress'
    BY InitProgressStays DEF PreparationInv, Continue
  <1>9. Promises'
    <2>1. guardAt' # "running"
      BY <1>4 DEF Ends
    <2>. QED
      BY <1>5, <2>1 DEF PreparationInv, Continue, Promises, PostCloneDone
  <1>. QED
    BY <1>6, <1>7, <1>8, <1>9 DEF PreparationInv, Promises

LEMMA GuardAnswers ==
  ASSUME PreparationInv, Answer
  PROVE  PreparationInv'
  <1>. DEFINE k == PreCount + 7
  <1>1. k \in DOMAIN GuardSteps /\ guardAt = GuardSteps[k]
    BY GuardStepsDistinct DEF Answer
  <1>2. \A l \in 1 .. 4 : Len(PreClone) + 1 + l < k
    BY GuardStepsDistinct DEF PreCount
  <1>. HIDE DEF k
  <1>3. PostCloneDone
    BY <1>1, <1>2, PostCloneIs DEF PreparationInv, GuardProgress, PostCloneDone, ToSet
  <1>4. guardAt' = "running"
    BY DEF Answer, GuardGoes
  <1>5. PreparationTypeOK'
    BY <1>4 DEF PreparationInv, PreparationTypeOK, Answer, Ends
  <1>6. GuardProgress'
    BY <1>4, GuardProgressEnds DEF Ends
  <1>7. InitProgress'
    BY InitProgressStays DEF PreparationInv, Answer
  <1>8. Promises'
    BY <1>3 DEF PreparationInv, Answer, Promises, PostCloneDone, InitReady
  <1>. QED
    BY <1>5, <1>6, <1>7, <1>8 DEF PreparationInv, Promises

LEMMA OnStartEnds ==
  ASSUME PreparationInv, OnStartThrows
  PROVE  PreparationInv'
  <1>1. PreparationTypeOK'
    BY DEF PreparationInv, PreparationTypeOK, OnStartThrows, Ends
  <1>2. GuardProgress'
    BY GuardProgressEnds DEF OnStartThrows, Ends
  <1>3. InitProgress'
    BY InitProgressStays DEF PreparationInv, OnStartThrows
  <1>4. Promises'
    BY DEF PreparationInv, OnStartThrows, Promises, PostCloneDone
  <1>. QED
    BY <1>1, <1>2, <1>3, <1>4 DEF PreparationInv, Promises

\* The clean-up.
LEMMA GuardCleansUp ==
  ASSUME PreparationInv,
         InitExited \/ (\E m \in ToSet(ProvisionTargets) : Revert(m)) \/ RevertTerminals \/ RevertDev \/ ReportExit
  PROVE  PreparationInv'
  <1>1. /\ guardAt' \in Ends \ {"running"} /\ UNCHANGED <<setUp, initAt, toInit, toGuard, did, initMounts>>
        /\ guardMounts' \subseteq guardMounts /\ ptys' \in BOOLEAN
    BY DEF PreparationInv, PreparationTypeOK, InitExited, Revert, RevertTerminals, RevertDev, ReportExit, Ends
  <1>2. PreparationTypeOK'
    BY <1>1 DEF PreparationInv, PreparationTypeOK
  <1>3. GuardProgress'
    BY <1>1, GuardProgressEnds
  <1>4. InitProgress'
    BY <1>1, InitProgressStays DEF PreparationInv
  <1>5. Promises'
    BY <1>1, PromisesKept DEF PreparationInv, Promises
  <1>. QED
    BY <1>2, <1>3, <1>4, <1>5 DEF PreparationInv, Promises

\* The steps of init.
LEMMA InitWaits ==
  ASSUME PreparationInv, WaitForGuard
  PROVE  PreparationInv'
  <1>1. 1 \in 1 .. 17 /\ initAt = InitSteps[1] /\ 1 \notin 3 .. 16
    BY InitStepsPlaces DEF WaitForGuard
  <1>2. initAt' = InitSteps[1 + 1] /\ initAt' \in ToSet(InitSteps)
    BY <1>1, InitMoves, InitStepsPlaces DEF WaitForGuard, ToSet
  <1>3. PreparationTypeOK'
    BY <1>2 DEF PreparationInv, PreparationTypeOK, WaitForGuard
  <1>4. GuardProgress'
    BY GuardProgressStays DEF PreparationInv, WaitForGuard
  <1>5. InitProgress'
    BY <1>1, <1>2, InitProgressMoves DEF PreparationInv, WaitForGuard, Released
  <1>6. Promises'
    BY PromisesKept DEF PreparationInv, WaitForGuard, Promises
  <1>. QED
    BY <1>3, <1>4, <1>5, <1>6 DEF PreparationInv, Promises

LEMMA InitBecomesRoot ==
  ASSUME PreparationInv, BecomesRoot
  PROVE  PreparationInv'
  <1>1. 2 \in 1 .. 17 /\ initAt = InitSteps[2] /\ 2 \notin 3 .. 16 /\ 2 \in DOMAIN InitSteps
    BY InitStepsPlaces DEF BecomesRoot
  <1>2. initAt' = InitSteps[2 + 1] /\ initAt' \in ToSet(InitSteps)
    BY <1>1, InitMoves, InitStepsPlaces DEF BecomesRoot, ToSet
  <1>3. toInit = "sent"
    BY <1>1 DEF PreparationInv, InitProgress
  <1>4. PreparationTypeOK'
    BY <1>2 DEF PreparationInv, PreparationTypeOK, BecomesRoot
  <1>5. GuardProgress'
    BY GuardProgressStays DEF PreparationInv, BecomesRoot
  <1>6. InitProgress'
    BY <1>1, <1>2, <1>3, InitProgressMoves DEF PreparationInv, BecomesRoot
  <1>7. Promises'
    BY PromisesKept DEF PreparationInv, BecomesRoot, Promises
  <1>. QED
    BY <1>4, <1>5, <1>6, <1>7 DEF PreparationInv, Promises

\* What init mounts is its own.
LEMMA MountsAreOwn ==
  ASSUME \A m \in initMounts : m[1] \in {"own", "old"}, NEW step
  PROVE  \A m \in MountsAfter(step) : m[1] \in {"own", "old"}
  BY DEF MountsAfter, Own, Old

LEMMA InitPrepares ==
  ASSUME PreparationInv, PrepareInside
  PROVE  PreparationInv'
  <1>1. PICK l \in 1 .. 14 : initAt = InitSteps[l + 2] /\ initAt = InClone[l]
    BY InitStepsPlaces DEF PrepareInside
  <1>2. l # 14
    BY <1>1, InitStepsPlaces DEF PrepareInside
  <1>. DEFINE k == l + 2
  <1>3. k \in 3 .. 15 /\ k \in 1 .. 17 /\ initAt = InitSteps[k] /\ k \in DOMAIN InitSteps /\ k + 1 \in DOMAIN InitSteps
    BY <1>1, <1>2, InitStepsPlaces
  <1>. HIDE DEF k
  <1>4. initAt' = InitSteps[k + 1] /\ initAt' \in ToSet(InitSteps) /\ initAt \in ToSet(InitSteps)
    BY <1>3, InitMoves DEF PrepareInside, ToSet
  <1>5. toInit = "sent"
    BY <1>3 DEF PreparationInv, InitProgress
  <1>6. initAt \notin {"exec", "program", "dead", "none"}
    BY <1>3, InitStepsPlaces
  <1>7. PreparationTypeOK'
    <2>1. \A m \in initMounts' : m[1] \in {"own", "old"}
      BY MountsAreOwn DEF PreparationInv, PreparationTypeOK, PrepareInside
    <2>. QED
      BY <1>4, <2>1 DEF PreparationInv, PreparationTypeOK, PrepareInside
  <1>8. GuardProgress'
    BY <1>6, GuardProgressStays DEF PreparationInv, PrepareInside
  <1>9. InitProgress'
    <2>1. did \subseteq did' /\ initAt \in did' /\ toInit' = "sent" /\ ~(k >= 16)
      BY <1>3, <1>5 DEF PrepareInside
    <2>. QED
      BY <1>3, <1>4, <2>1, InitProgressMoves DEF PreparationInv
  <1>10. Promises'
    BY <1>6, PromisesKept DEF PreparationInv, PrepareInside, Promises
  <1>. QED
    BY <1>7, <1>8, <1>9, <1>10 DEF PreparationInv, Promises

LEMMA InitUnmounts ==
  ASSUME PreparationInv, UmountOld
  PROVE  PreparationInv'
  <1>1. 16 \in 1 .. 17 /\ initAt = InitSteps[16] /\ 16 \in 3 .. 16 /\ 16 \in DOMAIN InitSteps /\ 16 + 1 \in DOMAIN InitSteps
    BY InitStepsPlaces DEF UmountOld
  <1>2. toInit = "sent"
    BY <1>1 DEF PreparationInv, InitProgress
  <1>3. initAt \notin {"exec", "program", "dead", "none"} /\ initAt \in ToSet(InitSteps)
    BY <1>1, InitStepsPlaces DEF ToSet
  <1>4. CASE UNCHANGED <<did, initAt>> /\ initMounts' \subseteq initMounts
    <2>1. PreparationTypeOK'
      BY <1>4 DEF PreparationInv, PreparationTypeOK, UmountOld
    <2>2. GuardProgress'
      BY <1>4, GuardProgressStays DEF PreparationInv, UmountOld
    <2>3. InitProgress'
      BY <1>4, InitProgressStays DEF PreparationInv, UmountOld
    <2>4. Promises'
      BY <1>4, PromisesKept DEF PreparationInv, UmountOld, Promises
    <2>. QED
      BY <2>1, <2>2, <2>3, <2>4 DEF PreparationInv, Promises
  <1>5. CASE initMounts' = initMounts \ {m \in initMounts : m[1] = "old"} /\ did' = did \cup {"umountOld"} /\ InitGoes
    <2>1. initAt' = InitSteps[16 + 1] /\ initAt' \in ToSet(InitSteps)
      BY <1>1, <1>5, InitMoves DEF ToSet
    <2>2. AllOwn'
      BY <1>5 DEF AllOwn, PreparationInv, PreparationTypeOK
    <2>3. PreparationTypeOK'
      BY <1>3, <1>5, <2>1 DEF PreparationInv, PreparationTypeOK, UmountOld
    <2>4. GuardProgress'
      BY <1>3, <1>5, GuardProgressStays DEF PreparationInv, UmountOld
    <2>5. InitProgress'
      <3>1. did \subseteq did' /\ initAt \in did' /\ toInit' = "sent"
        BY <1>2, <1>5 DEF UmountOld
      <3>. QED
        BY <1>1, <2>1, <2>2, <3>1, InitProgressMoves DEF PreparationInv
    <2>6. Promises'
      BY <1>3, <1>5, PromisesKept DEF PreparationInv, UmountOld, Promises
    <2>. QED
      BY <2>3, <2>4, <2>5, <2>6 DEF PreparationInv, Promises
  <1>6. (UNCHANGED <<did, initAt>> /\ initMounts' \subseteq initMounts)
        \/ (initMounts' = initMounts \ {m \in initMounts : m[1] = "old"} /\ did' = did \cup {"umountOld"} /\ InitGoes)
    BY DEF UmountOld
  <1>. QED
    BY <1>4, <1>5, <1>6

LEMMA InitSaysReady ==
  ASSUME PreparationInv, Ready
  PROVE  PreparationInv'
  <1>1. /\ 17 \in 1 .. 17 /\ initAt = InitSteps[17] /\ 17 \notin 3 .. 16 /\ 17 \in DOMAIN InitSteps
        /\ 17 + 1 \in DOMAIN InitSteps /\ InitSteps[17 + 1] = "exec"
    BY InitStepsPlaces DEF Ready
  <1>2. initAt' = InitSteps[17 + 1] /\ initAt' \in ToSet(InitSteps)
    BY <1>1, InitMoves DEF Ready, ToSet
  <1>3. toInit = "sent" /\ AllOwn
    BY <1>1 DEF PreparationInv, InitProgress, AllOwn
  <1>4. PreparationTypeOK'
    BY <1>2 DEF PreparationInv, PreparationTypeOK, Ready
  <1>5. GuardProgress'
    BY GuardProgressStays DEF PreparationInv, Ready
  <1>6. InitProgress'
    <2>1. AllOwn'
      BY <1>3 DEF AllOwn, Ready
    <2>. QED
      BY <1>1, <1>2, <1>3, <2>1, InitProgressMoves DEF PreparationInv, Ready
  <1>7. Promises'
    BY <1>1, <1>2 DEF PreparationInv, Ready, Promises, PostCloneDone
  <1>. QED
    BY <1>4, <1>5, <1>6, <1>7 DEF PreparationInv, Promises

LEMMA InitExecs ==
  ASSUME PreparationInv, Exec
  PROVE  PreparationInv'
  <1>1. 18 \in DOMAIN InitSteps /\ initAt = InitSteps[18] /\ DOMAIN InClone = 1 .. 14
    BY InitStepsPlaces, InCloneIs DEF Exec
  <1>2. toInit = "sent" /\ AllOwn /\ \A l \in 1 .. 14 : InClone[l] \in did
    BY <1>1 DEF PreparationInv, InitProgress, AllOwn
  <1>3. PreparationTypeOK'
    BY DEF PreparationInv, PreparationTypeOK, Exec
  <1>4. GuardProgress'
    BY GuardProgressStays DEF PreparationInv, Exec
  <1>5. InitProgress'
    <2>1. initAt' = "program" /\ toInit' = "sent" /\ AllOwn' /\ ToSet(InClone) \subseteq did'
      BY <1>1, <1>2 DEF Exec, AllOwn, ToSet
    <2>. QED
      BY <2>1, InitStepsPlaces DEF InitProgress, AllOwn
  <1>6. Promises'
    BY PromisesKept DEF PreparationInv, Exec, Promises
  <1>. QED
    BY <1>3, <1>4, <1>5, <1>6 DEF PreparationInv, Promises

LEMMA InitEnds ==
  ASSUME PreparationInv, InitDies
  PROVE  PreparationInv'
  <1>1. PreparationTypeOK'
    BY DEF PreparationInv, PreparationTypeOK, InitDies
  <1>2. GuardProgress'
    BY GuardProgressStays DEF PreparationInv, InitDies
  <1>3. InitProgress'
    BY InitProgressEnds DEF InitDies
  <1>4. Promises'
    BY DEF PreparationInv, InitDies, Promises, PostCloneDone
  <1>. QED
    BY <1>1, <1>2, <1>3, <1>4 DEF PreparationInv, Promises

LEMMA PreparationStep ==
  ASSUME PreparationInv, [PreparationNext]_preparationVars
  PROVE  PreparationInv'
  <1>1. CASE UNCHANGED preparationVars
    BY <1>1 DEF preparationVars, PreparationInv, PreparationTypeOK, GuardProgress, InitProgress, PostCloneDone
  <1>. QED
    BY <1>1, GuardStepsBefore, GuardClones, GuardStepsAfter, GuardContinues, GuardAnswers, OnStartEnds, GuardCleansUp,
       InitWaits, InitBecomesRoot, InitPrepares, InitUnmounts, InitSaysReady, InitExecs, InitEnds DEF PreparationNext

LEMMA PreparationInvConfines ==
  ASSUME PreparationInv
  PROVE  PreparationTypeOK /\ InitConfined
  BY DEF PreparationInv, InitProgress, InitConfined, PostCloneDone

\* The program of a container runs only in what was made for it.
THEOREM PreparationConfines == PreparationSpec => [](PreparationTypeOK /\ InitConfined)
  <1>1. PreparationInit => PreparationInv
    BY PreparationInitHolds
  <1>2. PreparationInv /\ [PreparationNext]_preparationVars => PreparationInv'
    BY PreparationStep
  <1>3. PreparationInv => PreparationTypeOK /\ InitConfined
    BY PreparationInvConfines
  <1>. QED
    BY <1>1, <1>2, <1>3, PTL DEF PreparationSpec

-----------------------------------------------------------------------------
(* Attach: the process that enters a container.                            *)

NamespaceFiles == [ns : ToSet(NAMESPACES), of : {"init", "other"}]

\* The helper's files and what it entered are of one process and of what was asked for.
FilesOfOne ==
  /\ nsFiles \in Seq(NamespaceFiles) /\ entered \subseteq NamespaceFiles
  /\ \A f \in ToSet(nsFiles) \cup entered : f.of = dirOf /\ f.ns \in requested
  /\ helperAt \in {"none", "exec", "load", "openDir"} => nsFiles = <<>> /\ entered = {}
  /\ helperAt = "enter" => Wanted = {}
  /\ helperAt \in {"open", "enter"} => dirOf \in {"init", "other"}

\* The child is made once, in all that the helper entered, by a helper that does nothing more.
ChildMade ==
  /\ callerAt = "attach" => helperAt = "none"
  /\ childAt # "none" => helperAt \in {"write", "over"}
  /\ childAt \notin {"none", "over"} => entered = {[ns |-> ns, of |-> dirOf] : ns \in requested}
  /\ childStatus # "none" => childAt = "over"
  /\ callerAt = "answered" => childAt = "over"

\* What the child has done by the step it is at.
DoneBy(step) ==
  CASE step = "caps" -> {}
    [] step = "env" -> {"caps"}
    [] step = "ids" -> {"caps", "env"}
    [] step = "tty" -> {"caps", "env", "ids"}
    [] OTHER -> {"caps", "env", "ids", "tty"}

ChildProgress ==
  /\ childAt = "none" => childDid = {}
  /\ childAt \notin {"none", "over"} => childDid = DoneBy(childAt)

AttachInv ==
  /\ AttachTypeOK
  /\ FilesOfOne
  /\ ChildMade
  /\ ChildProgress
  /\ ("pid" \in requested /\ dirOf = "init" /\ childAt \notin {"none", "over"}) => initPid = "init"

LEMMA ElementsTail ==
  ASSUME NEW S, NEW s \in Seq(S), s # <<>>
  PROVE  ToSet(s) = {Head(s)} \cup ToSet(Tail(s))
  <1>1. ASSUME NEW i \in DOMAIN s PROVE s[i] \in {Head(s)} \cup ToSet(Tail(s))
    <2>1. CASE i = 1
      BY <2>1, TailElements
    <2>2. CASE i # 1
      <3>1. i - 1 \in DOMAIN Tail(s) /\ s[i] = Tail(s)[i - 1]
        BY <2>2, TailElements
      <3>. QED
        BY <3>1 DEF ToSet
    <2>. QED
      BY <2>1, <2>2
  <1>2. \A i \in DOMAIN Tail(s) : Tail(s)[i] \in ToSet(s)
    BY TailElements DEF ToSet
  <1>3. Head(s) \in ToSet(s)
    BY TailElements DEF ToSet
  <1>. QED
    BY <1>1, <1>2, <1>3 DEF ToSet

LEMMA ElementsAppend ==
  ASSUME NEW S, NEW s \in Seq(S), NEW e \in S
  PROVE  ToSet(Append(s, e)) = ToSet(s) \cup {e}
  <1>1. DOMAIN Append(s, e) = DOMAIN s \cup {Len(s) + 1} /\ Append(s, e)[Len(s) + 1] = e
        /\ \A i \in DOMAIN s : Append(s, e)[i] = s[i]
    BY AppendElements
  <1>. DEFINE t == Append(s, e)
  <1>. HIDE DEF t
  <1>. SUFFICES ToSet(t) = ToSet(s) \cup {e}
    BY DEF t
  <1>. QED
    BY <1>1 DEF ToSet, t

LEMMA ElementsEmpty == ToSet(<<>>) = {}
  BY DEF ToSet

LEMMA ElementsIn ==
  ASSUME NEW S, NEW s \in Seq(S)
  PROVE  ToSet(s) \subseteq S
  BY LenProperties DEF ToSet

\* What a child does, in which order.
LEMMA ChildStepsAre ==
  /\ DOMAIN ChildSteps = 1 .. 4 /\ Len(ChildSteps) = 4
  /\ ChildSteps[1] = "caps" /\ ChildSteps[2] = "env" /\ ChildSteps[3] = "ids" /\ ChildSteps[4] = "tty"
  /\ ToSet(ChildSteps) = {"caps", "env", "ids", "tty"}
  <1>1. DOMAIN ChildSteps = 1 .. 4 /\ Len(ChildSteps) = 4
    BY DEF ChildSteps
  <1>2. /\ ChildSteps[1] = "caps" /\ ChildSteps[2] = "env" /\ ChildSteps[3] = "ids" /\ ChildSteps[4] = "tty"
    BY DEF ChildSteps
  <1>3. ToSet(ChildSteps) = {ChildSteps[i] : i \in 1 .. 4}
    BY <1>1 DEF ToSet
  <1>4. ASSUME NEW i \in 1 .. 4 PROVE i = 1 \/ i = 2 \/ i = 3 \/ i = 4
    OBVIOUS
  <1>5. {ChildSteps[i] : i \in 1 .. 4} = {"caps", "env", "ids", "tty"}
    BY <1>2, <1>4
  <1>. QED
    BY <1>1, <1>2, <1>3, <1>5

Following(step) ==
  CASE step = "caps" -> "env" [] step = "env" -> "ids" [] step = "ids" -> "tty" [] OTHER -> "program"

LEMMA ChildPreparesStep ==
  ASSUME ChildPrepares
  PROVE  childAt \in {"caps", "env", "ids", "tty"} /\ childAt' = Following(childAt)
         /\ childDid' = childDid \cup {childAt}
  <1>1. PICK i \in DOMAIN ChildSteps : childAt = ChildSteps[i]
          /\ childAt' = IF i = Len(ChildSteps) THEN "program" ELSE ChildSteps[i + 1]
    BY DEF ChildPrepares
  <1>2. i = 1 \/ i = 2 \/ i = 3 \/ i = 4
    BY ChildStepsAre
  <1>3. CASE i = 1
    BY <1>1, <1>3, ChildStepsAre DEF Following, ChildPrepares
  <1>4. CASE i = 2
    BY <1>1, <1>4, ChildStepsAre DEF Following, ChildPrepares
  <1>5. CASE i = 3
    BY <1>1, <1>5, ChildStepsAre DEF Following, ChildPrepares
  <1>6. CASE i = 4
    BY <1>1, <1>6, ChildStepsAre DEF Following, ChildPrepares
  <1>. QED
    BY <1>2, <1>3, <1>4, <1>5, <1>6

USE DEF HelperSteps
LEMMA AttachInitHolds == AttachInit => AttachInv
  <1>. SUFFICES ASSUME AttachInit PROVE AttachInv
    OBVIOUS
  <1>1. nsFiles = <<>> /\ entered = {} /\ ToSet(nsFiles) = {}
    BY ElementsEmpty DEF AttachInit
  <1>2. nsFiles \in Seq(NamespaceFiles)
    BY <1>1
  <1>3. AttachTypeOK
    BY <1>1, ElementsEmpty DEF AttachInit, AttachTypeOK
  <1>4. FilesOfOne
    BY <1>1, <1>2 DEF AttachInit, FilesOfOne
  <1>. QED
    BY <1>3, <1>4 DEF AttachInv, AttachInit, ChildMade, ChildProgress

AttachStepsOfCaller == ForkHelper \/ SendConfig \/ ReadPid \/ WaitHelper \/ WaitChild

LEMMA AttachCallerStep == AttachInv /\ AttachStepsOfCaller => AttachInv'
  <1>. SUFFICES ASSUME AttachInv, AttachStepsOfCaller PROVE AttachInv'
    OBVIOUS
  <1>. USE DEF AttachInv, AttachStepsOfCaller, CallerOnly, ForkHelper, SendConfig, ReadPid, WaitHelper, WaitChild
  <1>1. AttachTypeOK'
    BY DEF AttachTypeOK
  <1>2. FilesOfOne'
    BY DEF FilesOfOne, Wanted, ChildMade
  <1>3. ChildMade' /\ ChildProgress'
    BY DEF ChildMade, ChildProgress
  <1>. QED
    BY <1>1, <1>2, <1>3

AttachStepsOfHelper ==
  \/ \E works \in BOOLEAN : ExecHelper(works)
  \/ LoadConfig \/ OpenDir \/ WritePid
  \/ \E status \in {"exited", "killed"} : HelperFails(status)

LEMMA AttachHelperStep == AttachInv /\ AttachStepsOfHelper => AttachInv'
  <1>. SUFFICES ASSUME AttachInv, AttachStepsOfHelper PROVE AttachInv'
    OBVIOUS
  <1>. USE DEF AttachInv, AttachStepsOfHelper, HelperOnly, Quietly, ExecHelper, LoadConfig, OpenDir, WritePid, HelperFails
  <1>1. AttachTypeOK'
    BY ElementsEmpty DEF AttachTypeOK
  <1>2. FilesOfOne'
    <2>1. CASE nsFiles' = nsFiles
      <3>1. CASE OpenDir
        <4>1. nsFiles' = <<>> /\ entered' = {} /\ nsFiles' \in Seq(NamespaceFiles)
          BY <3>1 DEF FilesOfOne
        <4>2. ToSet(nsFiles') = {}
          BY <4>1, ElementsEmpty
        <4>. QED
          BY <3>1, <4>1, <4>2 DEF FilesOfOne
      <3>2. CASE dirOf' = dirOf
        BY <2>1, <3>2 DEF FilesOfOne, Wanted
      <3>. QED
        BY <3>1, <3>2
    <2>2. CASE nsFiles' = <<>>
      <3>1. nsFiles' \in Seq(NamespaceFiles)
        BY <2>2
      <3>2. ToSet(nsFiles') = {}
        BY <2>2, ElementsEmpty
      <3>. QED
        BY <2>2, <3>1, <3>2 DEF FilesOfOne, Wanted, ChildMade
    <2>. QED
      BY <2>1, <2>2
  <1>3. ChildMade' /\ ChildProgress'
    BY DEF ChildMade, ChildProgress, FilesOfOne
  <1>4. (("pid" \in requested /\ dirOf = "init" /\ childAt \notin {"none", "over"}) => initPid = "init")'
    BY DEF ChildMade
  <1>. QED
    BY <1>1, <1>2, <1>3, <1>4

LEMMA AttachOpenNamespaceStep == AttachInv /\ OpenNamespace => AttachInv'
  <1>. SUFFICES ASSUME AttachInv, OpenNamespace PROVE AttachInv'
    OBVIOUS
  <1>. USE DEF AttachInv, OpenNamespace, HelperOnly, Quietly
  <1>1. PICK i \in DOMAIN NAMESPACES :
          NAMESPACES[i] \in Wanted /\ nsFiles' = Append(nsFiles, [ns |-> NAMESPACES[i], of |-> FileOf])
    OBVIOUS
  <1>. DEFINE file == [ns |-> NAMESPACES[i], of |-> FileOf]
  <1>2. NAMESPACES[i] \in ToSet(NAMESPACES) /\ NAMESPACES[i] \in requested
    BY <1>1 DEF ToSet, Wanted
  <1>3. file \in NamespaceFiles /\ file.of = dirOf /\ file.ns = NAMESPACES[i]
    BY <1>2 DEF FileOf, NamespaceFiles, FilesOfOne
  <1>4. nsFiles \in Seq(NamespaceFiles) /\ nsFiles' = Append(nsFiles, file)
    BY <1>1 DEF FilesOfOne
  <1>. HIDE DEF file
  <1>5. ToSet(nsFiles') = ToSet(nsFiles) \cup {file} /\ nsFiles' \in Seq(NamespaceFiles)
    BY <1>3, <1>4, ElementsAppend, AppendElements
  <1>6. AttachTypeOK'
    BY <1>2, <1>3, <1>5 DEF AttachTypeOK
  <1>7. FilesOfOne'
    BY <1>2, <1>3, <1>5 DEF FilesOfOne
  <1>8. ChildMade' /\ ChildProgress'
    BY DEF ChildMade, ChildProgress
  <1>. QED
    BY <1>6, <1>7, <1>8

LEMMA AttachEnterNamespaceStep == AttachInv /\ EnterNamespace => AttachInv'
  <1>. SUFFICES ASSUME AttachInv, EnterNamespace PROVE AttachInv'
    OBVIOUS
  <1>. USE DEF AttachInv, EnterNamespace, HelperOnly, Quietly
  <1>1. nsFiles \in Seq(NamespaceFiles) /\ nsFiles # <<>>
    BY DEF FilesOfOne
  <1>2. ToSet(nsFiles) = {Head(nsFiles)} \cup ToSet(nsFiles') /\ nsFiles' \in Seq(NamespaceFiles)
        /\ Head(nsFiles) \in NamespaceFiles
    BY <1>1, ElementsTail, TailElements
  <1>3. ToSet(nsFiles') \cup entered' = ToSet(nsFiles) \cup entered
    BY <1>2
  <1>4. Wanted' = Wanted
    BY <1>3 DEF Wanted
  <1>5. AttachTypeOK'
    BY <1>3 DEF AttachTypeOK
  <1>6. FilesOfOne'
    BY <1>2, <1>3, <1>4 DEF FilesOfOne
  <1>7. ChildMade' /\ ChildProgress'
    BY DEF ChildMade, ChildProgress
  <1>. QED
    BY <1>5, <1>6, <1>7

LEMMA AttachCloneChildStep == AttachInv /\ CloneChild => AttachInv'
  <1>. SUFFICES ASSUME AttachInv, CloneChild PROVE AttachInv'
    OBVIOUS
  <1>. USE DEF AttachInv, CloneChild, HelperOnly, Quietly
  <1>1. ToSet(nsFiles) = {} /\ Wanted = {}
    BY ElementsEmpty DEF FilesOfOne
  <1>2. requested \subseteq {f.ns : f \in entered}
    BY <1>1 DEF Wanted
  <1>3. \A f \in entered : f \in NamespaceFiles /\ f.of = dirOf /\ f.ns \in requested
    BY DEF FilesOfOne
  <1>4. \A f \in entered : f = [ns |-> f.ns, of |-> dirOf]
    BY <1>3 DEF NamespaceFiles
  <1>5. entered = {[ns |-> ns, of |-> dirOf] : ns \in requested}
    BY <1>2, <1>3, <1>4
  <1>6. childAt = "none" /\ childAt' = "caps"
    BY ChildStepsAre DEF ChildMade
  <1>7. AttachTypeOK'
    BY <1>6, ChildStepsAre DEF AttachTypeOK
  <1>8. FilesOfOne'
    BY DEF FilesOfOne
  <1>9. ChildMade' /\ ChildProgress'
    BY <1>5, <1>6 DEF ChildMade, ChildProgress, DoneBy
  <1>. QED
    BY <1>6, <1>7, <1>8, <1>9

AttachStepsOfOthers ==
  \/ ChildPrepares \/ InitPidTurns
  \/ \E status \in {"exited", "killed"} : ChildEnds(status)

LEMMA AttachOthersStep == AttachInv /\ AttachStepsOfOthers => AttachInv'
  <1>. SUFFICES ASSUME AttachInv, AttachStepsOfOthers PROVE AttachInv'
    OBVIOUS
  <1>. USE DEF AttachInv
  <1>1. CASE ChildPrepares
    <2>1. childAt \in {"caps", "env", "ids", "tty"} /\ childAt' = Following(childAt)
         /\ childDid' = childDid \cup {childAt}
      BY <1>1, ChildPreparesStep
    <2>2. UNCHANGED childStatus /\ ChildOnly
      BY <1>1 DEF ChildPrepares
    <2>3. AttachTypeOK'
      BY <2>1, <2>2, ChildStepsAre DEF ChildOnly, AttachTypeOK, Following
    <2>4. FilesOfOne'
      BY <2>2 DEF ChildOnly, FilesOfOne, Wanted
    <2>5. ChildMade'
      BY <2>1, <2>2 DEF ChildOnly, ChildMade, Following
    <2>6. ChildProgress'
      BY <2>1 DEF ChildProgress, Following, DoneBy
    <2>. QED
      BY <2>1, <2>2, <2>3, <2>4, <2>5, <2>6 DEF ChildOnly
  <1>2. CASE InitPidTurns
    <2>. USE <1>2 DEF InitPidTurns
    <2>1. AttachTypeOK'
      BY DEF AttachTypeOK
    <2>2. FilesOfOne'
      BY DEF FilesOfOne, Wanted
    <2>3. ChildMade' /\ ChildProgress'
      BY DEF ChildMade, ChildProgress
    <2>. QED
      BY <2>1, <2>2, <2>3
  <1>3. CASE \E status \in {"exited", "killed"} : ChildEnds(status)
    <2>. USE <1>3 DEF ChildEnds, ChildOnly
    <2>1. AttachTypeOK'
      BY DEF AttachTypeOK
    <2>2. FilesOfOne'
      BY DEF FilesOfOne, Wanted
    <2>3. ChildMade' /\ ChildProgress'
      BY DEF ChildMade, ChildProgress
    <2>. QED
      BY <2>1, <2>2, <2>3
  <1>. QED
    BY <1>1, <1>2, <1>3 DEF AttachStepsOfOthers

LEMMA AttachStep == AttachInv /\ [AttachNext]_attachVars => AttachInv'
  <1>1. AttachInv /\ UNCHANGED attachVars => AttachInv'
    BY DEF attachVars, AttachInv, AttachTypeOK, FilesOfOne, Wanted, ChildMade, ChildProgress
  <1>2. AttachNext => AttachStepsOfCaller \/ AttachStepsOfHelper \/ OpenNamespace \/ EnterNamespace
                      \/ CloneChild \/ AttachStepsOfOthers
    BY DEF AttachNext, AttachStepsOfCaller, AttachStepsOfHelper, AttachStepsOfOthers
  <1>. QED
    BY <1>1, <1>2, AttachCallerStep, AttachHelperStep, AttachOpenNamespaceStep, AttachEnterNamespaceStep,
       AttachCloneChildStep, AttachOthersStep

LEMMA AttachInvWhole == AttachInv => AttachTypeOK /\ AttachedWhole
  BY ChildStepsAre DEF AttachInv, AttachedWhole, ChildMade, ChildProgress, DoneBy

\* In every behaviour a process that is attached to a container is in every namespace that was asked
\* for, all of them of the container's init, whenever that exits, and is set up whole or not at all.
THEOREM AttachWhole == AttachSpec => [](AttachTypeOK /\ AttachedWhole)
  <1>1. AttachInit => AttachInv
    BY AttachInitHolds
  <1>2. AttachInv /\ [AttachNext]_attachVars => AttachInv'
    BY AttachStep
  <1>3. AttachInv => AttachTypeOK /\ AttachedWhole
    BY AttachInvWhole
  <1>. QED
    BY <1>1, <1>2, <1>3, PTL DEF AttachSpec

HIDE DEF HelperSteps

-----------------------------------------------------------------------------
(* Control groups.                                                         *)

\* The first k - 1 groups of a guard are made, each in the hierarchy that it is looked for in,
\* with its parameters; and its init is in the first l - 1 of them.
Made(c) ==
  /\ isAttached(c.subsystem) /\ <<HierarchyOf(c.subsystem), c.name>> \in dirs

GroupMade(g, c) ==
  /\ Made(c)
  /\ SettingsIn(g, HierarchyOf(c.subsystem), c, CommonFiles(c) \cup OwnFiles(c)) \subseteq settings
  /\ c.params # {} => HierarchyOf(c.subsystem) = c.subsystem

GroupsMade(g, k) == \A i \in DOMAIN Groups[g] : i < k => GroupMade(g, Groups[g][i])

GroupsJoined(g, k) ==
  \A i \in DOMAIN Groups[g] : i < k => <<g, HierarchyOf(Groups[g][i].subsystem), Groups[g][i].name>> \in members

\* What a guard has done when it is at one of its steps.
GroupsProgress(g) ==
  /\ GuardAt(g, "mount") => guardStep[g].i <= Len(Subsystems[g])
  /\ GuardAt(g, "make") => GroupsMade(g, guardStep[g].i)
  /\ GuardAt(g, "set") =>
       /\ guardStep[g].i <= Len(Groups[g]) /\ GroupsMade(g, guardStep[g].i)
       /\ Made(Groups[g][guardStep[g].i])
  /\ GuardAt(g, "assign") => GroupsMade(g, Len(Groups[g]) + 1) /\ GroupsJoined(g, guardStep[g].i)
  /\ GuardAt(g, "assigned") => GroupsMade(g, Len(Groups[g]) + 1) /\ GroupsJoined(g, Len(Groups[g]) + 1)

SettingOf(s, c) ==
  /\ HasName(c.subsystem, s[2]) /\ c.name = s[3]
  /\ s[4] \in CommonFiles(c) \/ (s[4] \in OwnFiles(c) /\ s[2] = c.subsystem)

SettingsOwn == \A s \in settings : \E c \in GroupsOf(s[1]) : SettingOf(s, c)

CGroupsInv ==
  /\ CGroupsTypeOK
  /\ \A g \in Guards : guardStep[g].i \in Nat /\ guardStep[g].i >= 1
  /\ DOMAIN guardStep = Guards
  /\ \A g \in Guards : GroupsProgress(g)
  /\ SettingsOwn

\* The hierarchy that a subsystem is found in is the first that is named so.
LEMMA HierarchyIs ==
  ASSUME NEW s, NEW i \in Named(s), \A j \in Named(s) : i <= j, hierarchies \in Seq(Mounts)
  PROVE  HierarchyOf(s) = hierarchies[i].name
  <1>1. \A k \in Named(s) : k \in Nat
    BY LenProperties DEF Named
  <1>2. \A k \in Named(s) : (\A j \in Named(s) : k <= j) => k = i
    BY <1>1
  <1>3. (CHOOSE k \in Named(s) : \A j \in Named(s) : k <= j) = i
    BY <1>2
  <1>. QED
    BY <1>3 DEF HierarchyOf

LEMMA FirstNamed ==
  ASSUME NEW s, isAttached(s), hierarchies \in Seq(Mounts)
  PROVE  \E i \in Named(s) : (\A j \in Named(s) : i <= j) /\ HierarchyOf(s) = hierarchies[i].name
                             /\ i \in DOMAIN hierarchies /\ HierarchyOf(s) \in HierarchyNames
                             /\ HasName(s, HierarchyOf(s))
  <1>1. Named(s) \subseteq Nat /\ Named(s) # {}
    BY LenProperties DEF Named, isAttached
  <1>2. PICK i \in Named(s) : \A j \in Named(s) : i <= j
    BY <1>1, LeastElement
  <1>3. HierarchyOf(s) = hierarchies[i].name
    BY <1>2, HierarchyIs
  <1>4. i \in DOMAIN hierarchies /\ HasName(s, hierarchies[i].name)
    BY DEF Named
  <1>5. hierarchies[i] \in Mounts
    BY <1>4, LenProperties
  <1>6. hierarchies[i].name \in HierarchyNames
    BY <1>5 DEF HierarchyNames
  <1>. QED
    BY <1>2, <1>3, <1>4, <1>6

\* A hierarchy that is mounted later is found later.
LEMMA AttachedStays ==
  ASSUME hierarchies \in Seq(Mounts),
         NEW h \in Mounts, hierarchies' = hierarchies \/ hierarchies' = Append(hierarchies, h),
         NEW s, isAttached(s)
  PROVE  isAttached(s)' /\ HierarchyOf(s)' = HierarchyOf(s)
  <1>1. CASE hierarchies' = hierarchies
    BY <1>1 DEF isAttached, Named, HierarchyOf
  <1>2. CASE hierarchies' = Append(hierarchies, h)
    <2>1. /\ hierarchies' \in Seq(Mounts)
          /\ DOMAIN hierarchies' = DOMAIN hierarchies \cup {Len(hierarchies) + 1}
          /\ \A i \in DOMAIN hierarchies : hierarchies'[i] = hierarchies[i] /\ i < Len(hierarchies) + 1 /\ i \in Nat
      BY <1>2, AppendElements
    <2>2. PICK i \in Named(s) : (\A j \in Named(s) : i <= j) /\ HierarchyOf(s) = hierarchies[i].name
                                /\ i \in DOMAIN hierarchies
      BY FirstNamed
    <2>3. i \in Named(s)'
      BY <2>1, <2>2 DEF Named
    <2>4. \A j \in Named(s)' : j \in Named(s) \/ j = Len(hierarchies) + 1
      BY <2>1 DEF Named
    <2>5. \A j \in Named(s)' : i <= j
      BY <2>1, <2>2, <2>4
    <2>6. HierarchyOf(s)' = hierarchies'[i].name
      <3>1. \A k \in Named(s)' : k \in Nat
        BY <2>1, LenProperties DEF Named
      <3>2. \A k \in Named(s)' : (\A j \in Named(s)' : k <= j) => k = i
        BY <2>3, <2>5, <3>1
      <3>3. (CHOOSE k \in Named(s)' : \A j \in Named(s)' : k <= j) = i
        BY <2>3, <2>5, <3>2
      <3>. QED
        BY <3>3 DEF HierarchyOf
    <2>. QED
      BY <2>1, <2>2, <2>3, <2>6 DEF isAttached
  <1>. QED
    BY <1>1, <1>2

\* What a step adds takes nothing from what a guard has done.
Keeps(g) ==
  /\ hierarchies' = hierarchies \/ \E h \in Mounts : hierarchies' = Append(hierarchies, h)
  /\ dirs \subseteq dirs' /\ settings \subseteq settings'
  /\ \A m \in members : m[1] = g => m \in members'

LEMMA MadeStays ==
  ASSUME CGroupsInv, NEW g \in Guards, Keeps(g), NEW c, Made(c)
  PROVE  /\ Made(c)' /\ HierarchyOf(c.subsystem)' = HierarchyOf(c.subsystem)
         /\ GroupMade(g, c) => GroupMade(g, c)'
  <1>1. hierarchies \in Seq(Mounts)
    BY DEF CGroupsInv, CGroupsTypeOK
  <1>2. isAttached(c.subsystem)
    BY DEF Made
  <1>3. \E h \in Mounts : hierarchies' = hierarchies \/ hierarchies' = Append(hierarchies, h)
    <2>1. PICK i \in Named(c.subsystem) : i \in DOMAIN hierarchies
      BY <1>1, <1>2, FirstNamed
    <2>2. hierarchies[i] \in Mounts
      BY <1>1, <2>1, LenProperties
    <2>. QED
      BY <2>2 DEF Keeps
  <1>4. isAttached(c.subsystem)' /\ HierarchyOf(c.subsystem)' = HierarchyOf(c.subsystem)
    BY <1>1, <1>2, <1>3, AttachedStays
  <1>5. <<HierarchyOf(c.subsystem), c.name>> \in dirs'
    BY DEF Made, Keeps
  <1>6. Made(c)'
    BY <1>4, <1>5 DEF Made
  <1>7. GroupMade(g, c) => GroupMade(g, c)'
    BY <1>4, <1>6 DEF GroupMade, Keeps
  <1>. QED
    BY <1>4, <1>6, <1>7

LEMMA DoneStays ==
  ASSUME CGroupsInv, NEW g \in Guards, Keeps(g), NEW k \in Nat
  PROVE  /\ GroupsMade(g, k) => GroupsMade(g, k)'
         /\ GroupsMade(g, Len(Groups[g]) + 1) /\ GroupsJoined(g, k) => GroupsJoined(g, k)'
  <1>1. ASSUME GroupsMade(g, k) PROVE GroupsMade(g, k)'
    <2>1. ASSUME NEW i \in DOMAIN Groups[g], i < k PROVE GroupMade(g, Groups[g][i])'
      <3>1. GroupMade(g, Groups[g][i])
        BY <1>1, <2>1 DEF GroupsMade
      <3>2. Made(Groups[g][i])
        BY <3>1 DEF GroupMade
      <3>. DEFINE c == Groups[g][i]
      <3>. HIDE DEF c
      <3>3. GroupMade(g, c) => GroupMade(g, c)'
        BY <3>2, MadeStays DEF c
      <3>. QED
        BY <3>1, <3>3 DEF c
    <2>. QED
      BY <2>1 DEF GroupsMade
  <1>2. ASSUME GroupsMade(g, Len(Groups[g]) + 1), GroupsJoined(g, k) PROVE GroupsJoined(g, k)'
    <2>1. ASSUME NEW i \in DOMAIN Groups[g], i < k
          PROVE  <<g, HierarchyOf(Groups[g][i].subsystem)', Groups[g][i].name>> \in members'
      <3>. DEFINE c == Groups[g][i]
      <3>1. i < Len(Groups[g]) + 1
        BY CGroupsAssumption
      <3>2. Made(c)
        BY <1>2, <3>1 DEF GroupsMade, GroupMade
      <3>3. <<g, HierarchyOf(c.subsystem), c.name>> \in members
        BY <1>2, <2>1 DEF GroupsJoined
      <3>. HIDE DEF c
      <3>4. HierarchyOf(c.subsystem)' = HierarchyOf(c.subsystem)
        BY <3>2, MadeStays
      <3>5. <<g, HierarchyOf(c.subsystem)', c.name>> \in members
        BY <3>3, <3>4
      <3>6. <<g, HierarchyOf(c.subsystem)', c.name>> \in members'
        BY <3>5 DEF Keeps
      <3>. QED
        BY <3>6 DEF c
    <2>. QED
      BY <2>1 DEF GroupsJoined
  <1>. QED
    BY <1>1, <1>2

LEMMA ProgressStays ==
  ASSUME CGroupsInv, NEW g \in Guards, Keeps(g), guardStep'[g] = guardStep[g]
  PROVE  GroupsProgress(g)'
  <1>1. GroupsProgress(g) /\ guardStep[g].i \in Nat /\ Len(Groups[g]) + 1 \in Nat
    <2>1. Len(Groups[g]) \in Nat
      BY CGroupsAssumption, LenProperties
    <2>. QED
      BY <2>1 DEF CGroupsInv
  <1>2. PICK k \in Nat : k = guardStep[g].i
    BY <1>1
  <1>3. PICK l \in Nat : l = Len(Groups[g]) + 1
    BY <1>1
  <1>4. /\ GroupsMade(g, k) => GroupsMade(g, k)'
        /\ GroupsMade(g, l) => GroupsMade(g, l)'
        /\ GroupsMade(g, l) /\ GroupsJoined(g, k) => GroupsJoined(g, k)'
        /\ GroupsMade(g, l) /\ GroupsJoined(g, l) => GroupsJoined(g, l)'
    BY <1>3, DoneStays
  <1>5. GuardAt(g, "set") => Made(Groups[g][k])'
    <2>1. ASSUME GuardAt(g, "set") PROVE Made(Groups[g][k])'
      <3>. DEFINE c == Groups[g][k]
      <3>1. Made(c)
        BY <1>1, <1>2, <2>1 DEF GroupsProgress
      <3>. HIDE DEF c
      <3>2. Made(c)'
        BY <3>1, MadeStays
      <3>. QED
        BY <3>2 DEF c
    <2>. QED
      BY <2>1
  <1>6. guardStep'[g].i = k /\ guardStep'[g].at = guardStep[g].at
    BY <1>2
  <1>7. /\ (GuardAt(g, "mount") => guardStep[g].i <= Len(Subsystems[g]))'
        /\ (GuardAt(g, "make") => GroupsMade(g, guardStep[g].i))'
        /\ (GuardAt(g, "set") =>
              /\ guardStep[g].i <= Len(Groups[g]) /\ GroupsMade(g, guardStep[g].i)
              /\ Made(Groups[g][guardStep[g].i]))'
        /\ (GuardAt(g, "assign") => GroupsMade(g, Len(Groups[g]) + 1) /\ GroupsJoined(g, guardStep[g].i))'
        /\ (GuardAt(g, "assigned") => GroupsMade(g, Len(Groups[g]) + 1) /\ GroupsJoined(g, Len(Groups[g]) + 1))'
    BY <1>1, <1>2, <1>3, <1>4, <1>5, <1>6 DEF GroupsProgress, GuardAt
  <1>. QED
    BY <1>7 DEF GroupsProgress

\* A step of a guard that adds only, and leaves that guard with what it has to have done by then.
LEMMA GuardStepHolds ==
  ASSUME CGroupsInv, NEW g \in Guards, NEW at, NEW i \in Nat \ {0}, GuardDoes(g, at, i),
         at \in {"look", "mount", "make", "set", "assign", "assigned", "threw"},
         \A o \in Guards \ {g} : Keeps(o),
         hierarchies' \in Seq(Mounts) /\ IsInjective(hierarchies'),
         \A d \in dirs' : d[1] \in HierarchyNames, \A s \in settings' : s[1] \in Guards,
         \A m \in members' : m[1] \in Guards, SettingsOwn', GroupsProgress(g)'
  PROVE  CGroupsInv'
  <1>1. DOMAIN guardStep = Guards /\ guardStep' = [guardStep EXCEPT ![g] = [at |-> at, i |-> i]]
    BY DEF CGroupsInv, GuardDoes
  <1>2. /\ DOMAIN guardStep' = Guards /\ guardStep'[g].at = at /\ guardStep'[g].i = i
        /\ \A o \in Guards \ {g} : guardStep'[o] = guardStep[o]
    BY <1>1
  <1>3. ASSUME NEW o \in Guards PROVE GroupsProgress(o)'
    BY <1>2, ProgressStays
  <1>4. CGroupsTypeOK'
    BY <1>2 DEF CGroupsInv, CGroupsTypeOK
  <1>5. \A o \in Guards : guardStep'[o].i \in Nat /\ guardStep'[o].i >= 1
    BY <1>2 DEF CGroupsInv
  <1>. QED
    BY <1>2, <1>3, <1>4, <1>5 DEF CGroupsInv

\* What most steps leave.
LEMMA TypesStay ==
  ASSUME CGroupsInv
  PROVE  /\ hierarchies \in Seq(Mounts) /\ IsInjective(hierarchies)
         /\ \A d \in dirs : d[1] \in HierarchyNames
         /\ \A s \in settings : s[1] \in Guards
         /\ \A m \in members : m[1] \in Guards
         /\ SettingsOwn
         /\ \A g \in Guards : guardStep[g].i \in Nat \ {0} /\ GroupsProgress(g)
  BY DEF CGroupsInv, CGroupsTypeOK

LEMMA ThrowStep ==
  ASSUME CGroupsInv, NEW g \in Guards, GuardDoes(g, "threw", 1), UNCHANGED <<hierarchies, dirs, settings>>,
         members' = members \/ members' = {m \in members : m[1] # g}
  PROVE  CGroupsInv'
  <1>1. guardStep'[g].at = "threw"
    BY DEF CGroupsInv, GuardDoes
  <1>2. GroupsProgress(g)'
    BY <1>1 DEF GroupsProgress, GuardAt
  <1>3. \A o \in Guards \ {g} : Keeps(o)
    BY DEF Keeps
  <1>4. SettingsOwn'
    BY TypesStay DEF SettingsOwn
  <1>. QED
    BY <1>2, <1>3, <1>4, TypesStay, GuardStepHolds

\* An item of a guard's sequence.
LEMMA SubsystemItem ==
  ASSUME CGroupsInv, NEW g \in Guards, guardStep[g].i <= Len(Subsystems[g])
  PROVE  ItemOf(g, Subsystems) \in Mounts
  <1>1. Subsystems[g] \in Seq([name : STRING, path : STRING]) /\ guardStep[g].i \in Nat /\ guardStep[g].i >= 1
    BY CGroupsAssumption DEF CGroupsInv
  <1>2. guardStep[g].i \in DOMAIN Subsystems[g]
    BY <1>1, LenProperties
  <1>. QED
    BY <1>2 DEF ItemOf, Mounts, ToSet

LEMMA GroupItem ==
  ASSUME CGroupsInv, NEW g \in Guards, guardStep[g].i <= Len(Groups[g])
  PROVE  guardStep[g].i \in DOMAIN Groups[g] /\ ItemOf(g, Groups) \in GroupsOf(g)
         /\ ItemOf(g, Groups) = Groups[g][guardStep[g].i]
  <1>1. Len(Groups[g]) \in Nat /\ DOMAIN Groups[g] = 1 .. Len(Groups[g])
        /\ guardStep[g].i \in Nat /\ guardStep[g].i >= 1
    BY CGroupsAssumption, LenProperties DEF CGroupsInv
  <1>2. guardStep[g].i \in DOMAIN Groups[g]
    BY <1>1
  <1>. QED
    BY <1>2 DEF ItemOf, GroupsOf, ToSet

LEMMA SubsystemMakeStep ==
  ASSUME CGroupsInv, NEW g \in Guards, SubsystemMake(g)
  PROVE  CGroupsInv'
  <1>1. UNCHANGED <<hierarchies, dirs, settings, members>> /\ guardStep[g].i \in Nat \ {0}
    BY TypesStay DEF SubsystemMake
  <1>2. \A o \in Guards \ {g} : Keeps(o)
    BY <1>1 DEF Keeps
  <1>3. SettingsOwn'
    BY <1>1, TypesStay DEF SettingsOwn
  <1>4. Len(Subsystems[g]) \in Nat
    BY CGroupsAssumption, LenProperties
  <1>5. CASE GuardDoes(g, "make", 1)
    <2>1. guardStep'[g].at = "make" /\ guardStep'[g].i = 1
      BY <1>5 DEF CGroupsInv, GuardDoes
    <2>2. \A i \in DOMAIN Groups[g] : ~(i < 1)
      BY CGroupsAssumption, LenProperties
    <2>3. GroupsProgress(g)'
      BY <2>1, <2>2 DEF GroupsProgress, GuardAt, GroupsMade
    <2>. QED
      BY <1>1, <1>2, <1>3, <1>5, <2>3, TypesStay, GuardStepHolds
  <1>6. CASE GuardDoes(g, "look", guardStep[g].i + 1)
    <2>0. PICK i \in Nat \ {0} : i = guardStep[g].i + 1
      BY <1>1
    <2>1. guardStep'[g].at = "look" /\ GuardDoes(g, "look", i)
      BY <1>6, <2>0 DEF CGroupsInv, GuardDoes
    <2>2. GroupsProgress(g)'
      BY <2>1 DEF GroupsProgress, GuardAt
    <2>. QED
      BY <1>1, <1>2, <1>3, <2>1, <2>2, TypesStay, GuardStepHolds
  <1>7. CASE GuardDoes(g, "mount", guardStep[g].i) /\ ~(guardStep[g].i > Len(Subsystems[g]))
    <2>0. PICK i \in Nat \ {0} : i = guardStep[g].i
      BY <1>1
    <2>1. guardStep'[g].at = "mount" /\ guardStep'[g].i = i /\ GuardDoes(g, "mount", i)
      BY <1>7, <2>0 DEF CGroupsInv, GuardDoes
    <2>2. GroupsProgress(g)'
      BY <1>4, <1>7, <2>0, <2>1 DEF GroupsProgress, GuardAt
    <2>. QED
      BY <1>1, <1>2, <1>3, <2>1, <2>2, TypesStay, GuardStepHolds
  <1>. QED
    BY <1>5, <1>6, <1>7 DEF SubsystemMake

LEMMA AttachSubsystemStep ==
  ASSUME CGroupsInv, NEW g \in Guards, AttachSubsystem(g)
  PROVE  CGroupsInv'
  <1>. DEFINE sub == ItemOf(g, Subsystems)
  <1>1. UNCHANGED <<dirs, settings, members>> /\ guardStep[g].i \in Nat \ {0} /\ GuardAt(g, "mount")
    BY TypesStay DEF AttachSubsystem
  <1>4. IF sub.path = NoPath \/ sub \in ToSet(hierarchies)
        THEN GuardDoes(g, "threw", 1) /\ UNCHANGED hierarchies
        ELSE hierarchies' = Append(hierarchies, sub) /\ GuardDoes(g, "look", guardStep[g].i + 1)
    BY DEF AttachSubsystem
  <1>5. guardStep[g].i <= Len(Subsystems[g]) => sub \in Mounts
    BY SubsystemItem
  <1>. HIDE DEF sub
  <1>2. CASE sub.path = NoPath \/ sub \in ToSet(hierarchies)
    <2>1. GuardDoes(g, "threw", 1) /\ UNCHANGED hierarchies
      BY <1>2, <1>4
    <2>. QED
      BY <1>1, <2>1, ThrowStep
  <1>3. CASE ~(sub.path = NoPath \/ sub \in ToSet(hierarchies))
    <2>1. PICK h \in Mounts : h = sub
      <3>1. GroupsProgress(g)
        BY TypesStay
      <3>2. guardStep[g].i <= Len(Subsystems[g])
        BY <1>1, <3>1 DEF GroupsProgress
      <3>. QED
        BY <3>2, <1>5
    <2>2. hierarchies' = Append(hierarchies, h) /\ GuardDoes(g, "look", guardStep[g].i + 1)
      BY <1>3, <1>4, <2>1
    <2>3. PICK i \in Nat \ {0} : i = guardStep[g].i + 1
      BY <1>1
    <2>4. guardStep'[g].at = "look" /\ GuardDoes(g, "look", i)
      BY <2>2, <2>3 DEF CGroupsInv, GuardDoes
    <2>5. GroupsProgress(g)'
      BY <2>4 DEF GroupsProgress, GuardAt
    <2>6. \A o \in Guards \ {g} : Keeps(o)
      BY <1>1, <2>2 DEF Keeps
    <2>7. SettingsOwn'
      BY <1>1, TypesStay DEF SettingsOwn
    <2>8. hierarchies' \in Seq(Mounts) /\ IsInjective(hierarchies')
      <3>1. hierarchies \in Seq(Mounts) /\ IsInjective(hierarchies)
        BY TypesStay
      <3>2. /\ hierarchies' \in Seq(Mounts)
            /\ DOMAIN hierarchies' = DOMAIN hierarchies \cup {Len(hierarchies) + 1}
            /\ hierarchies'[Len(hierarchies) + 1] = h
            /\ \A k \in DOMAIN hierarchies : hierarchies'[k] = hierarchies[k]
        BY <2>2, <3>1, AppendElements
      <3>3. \A k \in DOMAIN hierarchies : hierarchies[k] # h
        BY <1>3, <2>1 DEF ToSet
      <3>4. \A k, l \in DOMAIN hierarchies' : hierarchies'[k] = hierarchies'[l] => k = l
        BY <3>1, <3>2, <3>3 DEF IsInjective
      <3>. QED
        BY <3>2, <3>4 DEF IsInjective
    <2>. QED
      BY <1>1, <2>4, <2>5, <2>6, <2>7, <2>8, TypesStay, GuardStepHolds
  <1>. QED
    BY <1>2, <1>3

\* What a guard has made with one group more.
LEMMA OneMore ==
  ASSUME CGroupsInv, NEW g \in Guards, guardStep[g].i <= Len(Groups[g])
  PROVE  /\ GroupsMade(g, guardStep[g].i) /\ GroupMade(g, ItemOf(g, Groups)) => GroupsMade(g, guardStep[g].i + 1)
         /\ /\ GroupsJoined(g, guardStep[g].i)
            /\ <<g, HierarchyOf(ItemOf(g, Groups).subsystem), ItemOf(g, Groups).name>> \in members
            => GroupsJoined(g, guardStep[g].i + 1)
  <1>1. guardStep[g].i \in Nat /\ ItemOf(g, Groups) = Groups[g][guardStep[g].i] /\ DOMAIN Groups[g] \subseteq Nat
    BY TypesStay, GroupItem, CGroupsAssumption, LenProperties
  <1>2. \A k \in DOMAIN Groups[g] : k < guardStep[g].i + 1 => k < guardStep[g].i \/ k = guardStep[g].i
    BY <1>1
  <1>. QED
    BY <1>1, <1>2 DEF GroupsMade, GroupsJoined

LEMMA CGroupMakeStep ==
  ASSUME CGroupsInv, NEW g \in Guards, CGroupMake(g)
  PROVE  CGroupsInv'
  <1>1. /\ UNCHANGED <<hierarchies, settings, members>> /\ guardStep[g].i \in Nat \ {0}
        /\ GroupsMade(g, guardStep[g].i)
    BY TypesStay DEF CGroupMake, GroupsProgress
  <1>2. Len(Groups[g]) \in Nat /\ DOMAIN Groups[g] = 1 .. Len(Groups[g])
    BY CGroupsAssumption, LenProperties
  <1>3. CASE guardStep[g].i > Len(Groups[g])
    <2>1. GuardDoes(g, "assign", 1) /\ UNCHANGED dirs
      BY <1>3 DEF CGroupMake
    <2>2. guardStep'[g].at = "assign" /\ guardStep'[g].i = 1
      BY <2>1 DEF CGroupsInv, GuardDoes
    <2>3. GroupsMade(g, Len(Groups[g]) + 1)
      BY <1>1, <1>2, <1>3 DEF GroupsMade
    <2>4. GroupsMade(g, Len(Groups[g]) + 1)'
      <3>1. PICK l \in Nat : l = Len(Groups[g]) + 1
        BY <1>2
      <3>2. Keeps(g)
        BY <1>1, <2>1 DEF Keeps
      <3>3. GroupsMade(g, l)'
        BY <2>3, <3>1, <3>2, DoneStays
      <3>. QED
        BY <3>1, <3>3
    <2>5. GroupsJoined(g, 1)'
      BY <1>2 DEF GroupsJoined
    <2>6. GroupsProgress(g)'
      BY <2>2, <2>4, <2>5 DEF GroupsProgress, GuardAt
    <2>7. \A o \in Guards \ {g} : Keeps(o)
      BY <1>1, <2>1 DEF Keeps
    <2>8. SettingsOwn'
      BY <1>1, TypesStay DEF SettingsOwn
    <2>. QED
      BY <1>1, <2>1, <2>6, <2>7, <2>8, TypesStay, GuardStepHolds
  <1>4. CASE ~(guardStep[g].i > Len(Groups[g]))
    <2>. DEFINE c == ItemOf(g, Groups)
    <2>1. CASE ~isAttached(c.subsystem)
      <3>1. GuardDoes(g, "threw", 1) /\ UNCHANGED dirs
        BY <1>4, <2>1 DEF CGroupMake
      <3>. QED
        BY <1>1, <3>1, ThrowStep
    <2>2. CASE isAttached(c.subsystem)
      <3>1. dirs' = dirs \cup {<<HierarchyOf(c.subsystem), c.name>>} /\ GuardDoes(g, "set", guardStep[g].i)
        BY <1>4, <2>2 DEF CGroupMake
      <3>2. PICK i \in Nat \ {0} : i = guardStep[g].i
        BY <1>1
      <3>3. GuardDoes(g, "set", i) /\ guardStep'[g].at = "set" /\ guardStep'[g].i = i /\ i <= Len(Groups[g])
        BY <1>2, <1>4, <3>1, <3>2 DEF CGroupsInv, GuardDoes
      <3>. DEFINE e == Groups[g][i]
      <3>4. c = e
        BY <1>2, <1>4, <3>2, GroupItem
      <3>5. isAttached(e.subsystem) /\ dirs' = dirs \cup {<<HierarchyOf(e.subsystem), e.name>>}
        BY <2>2, <3>1, <3>4
      <3>. HIDE DEF c, e
      <3>6. \A o \in Guards : Keeps(o)
        BY <1>1, <3>1 DEF Keeps
      <3>7. GroupsMade(g, i) => GroupsMade(g, i)'
        BY <3>6, DoneStays
      <3>8. Made(Groups[g][i])'
        <4>1. isAttached(e.subsystem)' /\ HierarchyOf(e.subsystem)' = HierarchyOf(e.subsystem)
          BY <1>1, <3>5 DEF isAttached, Named, HierarchyOf
        <4>2. Made(e)'
          BY <3>5, <4>1 DEF Made
        <4>. QED
          BY <4>2 DEF e
      <3>9. GroupsProgress(g)'
        BY <1>1, <3>2, <3>3, <3>7, <3>8 DEF GroupsProgress, GuardAt
      <3>10. SettingsOwn'
        BY <1>1, TypesStay DEF SettingsOwn
      <3>11. HierarchyOf(c.subsystem) \in HierarchyNames
        BY <2>2, TypesStay, FirstNamed DEF c
      <3>12. \A d \in dirs' : d[1] \in HierarchyNames
        BY <3>1, <3>11, TypesStay
      <3>. QED
        BY <1>1, <3>3, <3>6, <3>9, <3>10, <3>12, TypesStay, GuardStepHolds
    <2>. QED
      BY <2>1, <2>2
  <1>. QED
    BY <1>3, <1>4

\* What is set of a group, in the hierarchy it is looked for in, is of its own.
LEMMA OwnSettings ==
  ASSUME CGroupsInv, NEW g \in Guards, NEW c \in GroupsOf(g), isAttached(c.subsystem)
  PROVE  /\ \A s \in SettingsIn(g, HierarchyOf(c.subsystem), c, CommonFiles(c)) : s[1] = g /\ SettingOf(s, c)
         /\ c.params = {} \/ HierarchyOf(c.subsystem) = c.subsystem =>
              \A s \in SettingsIn(g, HierarchyOf(c.subsystem), c, CommonFiles(c) \cup OwnFiles(c)) :
                s[1] = g /\ SettingOf(s, c)
  <1>. DEFINE h == HierarchyOf(c.subsystem)
  <1>1. HasName(c.subsystem, h)
    BY TypesStay, FirstNamed
  <1>2. c.params = {} => OwnFiles(c) = {}
    BY DEF OwnFiles
  <1>. HIDE DEF h
  <1>3. ASSUME NEW f, f \in CommonFiles(c) \/ (f \in OwnFiles(c) /\ h = c.subsystem)
        PROVE  SettingOf(<<g, h, c.name, f>>, c)
    BY <1>1, <1>3 DEF SettingOf
  <1>4. \A s \in SettingsIn(g, h, c, CommonFiles(c)) : s[1] = g /\ SettingOf(s, c)
    BY <1>3 DEF SettingsIn
  <1>5. ASSUME c.params = {} \/ h = c.subsystem
        PROVE  \A s \in SettingsIn(g, h, c, CommonFiles(c) \cup OwnFiles(c)) : s[1] = g /\ SettingOf(s, c)
    BY <1>2, <1>3, <1>5 DEF SettingsIn
  <1>. QED
    BY <1>4, <1>5 DEF h

LEMMA SettingsAdded ==
  ASSUME CGroupsInv, NEW g \in Guards, NEW c \in GroupsOf(g), NEW new,
         \A s \in new : s[1] = g /\ SettingOf(s, c), settings' = settings \cup new
  PROVE  SettingsOwn' /\ \A s \in settings' : s[1] \in Guards
  <1>1. \A s \in new : \E o \in GroupsOf(s[1]) : SettingOf(s, o)
    OBVIOUS
  <1>. QED
    BY <1>1, TypesStay DEF SettingsOwn

LEMMA SetValuesStep ==
  ASSUME CGroupsInv, NEW g \in Guards, SetValues(g)
  PROVE  CGroupsInv'
  <1>. DEFINE c == ItemOf(g, Groups)
              h == HierarchyOf(c.subsystem)
  <1>1. /\ UNCHANGED <<hierarchies, dirs, members>> /\ guardStep[g].i \in Nat \ {0}
        /\ guardStep[g].i <= Len(Groups[g]) /\ GroupsMade(g, guardStep[g].i)
        /\ Made(Groups[g][guardStep[g].i])
    BY TypesStay DEF SetValues, GroupsProgress
  <1>2. c = Groups[g][guardStep[g].i] /\ c \in GroupsOf(g)
    BY <1>1, GroupItem
  <1>3. Made(c) /\ isAttached(c.subsystem)
    <2>1. Made(c)
      BY <1>1, <1>2
    <2>. QED
      BY <2>1 DEF Made
  <1>4. CASE ~(c.params = {} \/ h = c.subsystem)
    <2>. DEFINE new == SettingsIn(g, h, c, CommonFiles(c))
    <2>1. GuardDoes(g, "threw", 1) /\ settings' = settings \cup new
      BY <1>4 DEF SetValues
    <2>2. \A s \in new : s[1] = g /\ SettingOf(s, c)
      BY <1>2, <1>3, OwnSettings
    <2>. HIDE DEF c, new
    <2>3. SettingsOwn' /\ \A s \in settings' : s[1] \in Guards
      BY <1>2, <2>1, <2>2, SettingsAdded
    <2>4. guardStep'[g].at = "threw"
      BY <2>1 DEF CGroupsInv, GuardDoes
    <2>5. GroupsProgress(g)'
      BY <2>4 DEF GroupsProgress, GuardAt
    <2>6. \A o \in Guards \ {g} : Keeps(o)
      BY <1>1, <2>1 DEF Keeps
    <2>. QED
      BY <1>1, <2>1, <2>3, <2>5, <2>6, TypesStay, GuardStepHolds
  <1>5. CASE c.params = {} \/ h = c.subsystem
    <2>. DEFINE new == SettingsIn(g, h, c, CommonFiles(c) \cup OwnFiles(c))
    <2>1. settings' = settings \cup new /\ GuardDoes(g, "make", guardStep[g].i + 1)
      BY <1>5 DEF SetValues
    <2>2. PICK i \in Nat \ {0} : i = guardStep[g].i + 1
      BY <1>1
    <2>3. GuardDoes(g, "make", i) /\ guardStep'[g].at = "make" /\ guardStep'[g].i = i
      BY <2>1, <2>2 DEF CGroupsInv, GuardDoes
    <2>4. \A o \in Guards : Keeps(o)
      <3>. HIDE DEF new
      <3>. QED
        BY <1>1, <2>1 DEF Keeps
    <2>5. \A s \in new : s[1] = g /\ SettingOf(s, c)
      BY <1>2, <1>3, <1>5, OwnSettings
    <2>6. SettingsOwn' /\ \A s \in settings' : s[1] \in Guards
      <3>. HIDE DEF c, new
      <3>. QED
        BY <1>2, <2>1, <2>5, SettingsAdded
    <2>8. GroupsMade(g, i)'
      <3>. DEFINE k == guardStep[g].i
      <3>1. ASSUME NEW j \in DOMAIN Groups[g], j < i PROVE GroupMade(g, Groups[g][j])'
        <4>. DEFINE e == Groups[g][j]
        <4>1. CASE j < guardStep[g].i
          <5>1. GroupMade(g, e)
            BY <1>1, <4>1 DEF GroupsMade
          <5>2. Made(e)
            BY <5>1 DEF GroupMade
          <5>. HIDE DEF e
          <5>3. GroupMade(g, e)'
            BY <2>4, <5>1, <5>2, MadeStays
          <5>. QED
            BY <5>3 DEF e
        <4>2. CASE j = guardStep[g].i
          <5>1. e = c
            BY <1>2, <4>2
          <5>2. /\ Made(e) /\ (e.params # {} => HierarchyOf(e.subsystem) = e.subsystem)
                /\ SettingsIn(g, HierarchyOf(e.subsystem), e, CommonFiles(e) \cup OwnFiles(e)) \subseteq settings'
            BY <1>3, <1>5, <2>1, <5>1
          <5>. HIDE DEF e
          <5>3. Made(e)' /\ HierarchyOf(e.subsystem)' = HierarchyOf(e.subsystem)
            BY <2>4, <5>2, MadeStays
          <5>4. GroupMade(g, e)'
            BY <5>2, <5>3 DEF GroupMade, SettingsIn
          <5>. QED
            BY <5>4 DEF e
        <4>3. j \in Nat
          BY CGroupsAssumption, LenProperties
        <4>. QED
          BY <1>1, <2>2, <3>1, <4>1, <4>2, <4>3
      <3>. QED
        BY <3>1 DEF GroupsMade
    <2>9. GroupsProgress(g)'
      BY <2>3, <2>8 DEF GroupsProgress, GuardAt
    <2>. HIDE DEF c, new
    <2>. QED
      BY <1>1, <2>3, <2>4, <2>6, <2>9, TypesStay, GuardStepHolds
  <1>. QED
    BY <1>4, <1>5

LEMMA AssignPidStep ==
  ASSUME CGroupsInv, NEW g \in Guards, AssignPid(g)
  PROVE  CGroupsInv'
  <1>1. /\ UNCHANGED <<hierarchies, dirs, settings>> /\ guardStep[g].i \in Nat \ {0}
        /\ GroupsMade(g, Len(Groups[g]) + 1) /\ GroupsJoined(g, guardStep[g].i)
    BY TypesStay DEF AssignPid, GroupsProgress
  <1>2. Len(Groups[g]) \in Nat /\ DOMAIN Groups[g] = 1 .. Len(Groups[g])
    BY CGroupsAssumption, LenProperties
  <1>3. PICK l \in Nat : l = Len(Groups[g]) + 1
    BY <1>2
  <1>4. SettingsOwn'
    BY <1>1, TypesStay DEF SettingsOwn
  <1>5. CASE guardStep[g].i > Len(Groups[g])
    <2>1. GuardDoes(g, "assigned", 1) /\ UNCHANGED members
      BY <1>5 DEF AssignPid
    <2>2. guardStep'[g].at = "assigned"
      BY <2>1 DEF CGroupsInv, GuardDoes
    <2>3. \A o \in Guards : Keeps(o)
      BY <1>1, <2>1 DEF Keeps
    <2>4. GroupsMade(g, l)'
      BY <1>1, <1>3, <2>3, DoneStays
    <2>5. GroupsJoined(g, l)
      BY <1>1, <1>2, <1>3, <1>5 DEF GroupsJoined
    <2>6. GroupsJoined(g, l)'
      BY <1>1, <1>3, <2>3, <2>5, DoneStays
    <2>7. GroupsProgress(g)'
      BY <1>3, <2>2, <2>4, <2>6 DEF GroupsProgress, GuardAt
    <2>. QED
      BY <1>1, <1>4, <2>1, <2>3, <2>7, TypesStay, GuardStepHolds
  <1>6. CASE ~(guardStep[g].i > Len(Groups[g]))
    <2>. DEFINE c == ItemOf(g, Groups)
                joined == <<g, HierarchyOf(c.subsystem), c.name>>
    <2>1. CASE <<HierarchyOf(c.subsystem), c.name>> \in dirs
      <3>1. members' = members \cup {joined} /\ GuardDoes(g, "assign", guardStep[g].i + 1)
        BY <1>6, <2>1 DEF AssignPid
      <3>2. PICK i \in Nat \ {0} : i = guardStep[g].i + 1
        BY <1>1
      <3>3. GuardDoes(g, "assign", i) /\ guardStep'[g].at = "assign" /\ guardStep'[g].i = i
        BY <3>1, <3>2 DEF CGroupsInv, GuardDoes
      <3>4. \A o \in Guards : Keeps(o)
        BY <1>1, <3>1 DEF Keeps
      <3>5. GroupsMade(g, l)'
        BY <1>1, <1>3, <3>4, DoneStays
      <3>6. GroupsJoined(g, i)'
        <4>1. PICK k \in Nat : k = guardStep[g].i
          BY <1>1
        <4>2. GroupsJoined(g, k)'
          BY <1>1, <1>3, <3>4, <4>1, DoneStays
        <4>3. c = Groups[g][k] /\ k \in DOMAIN Groups[g]
          BY <1>1, <1>2, <1>6, <4>1, GroupItem
        <4>4. Made(c)
          <5>1. GroupMade(g, Groups[g][k])
            BY <1>1, <1>2, <1>6, <4>1, <4>3 DEF GroupsMade
          <5>. QED
            BY <4>3, <5>1 DEF GroupMade
        <4>5. <<g, HierarchyOf(c.subsystem), c.name>> \in members'
          BY <3>1
        <4>6. HierarchyOf(Groups[g][k].subsystem)' = HierarchyOf(Groups[g][k].subsystem)
          BY <1>1 DEF HierarchyOf, Named
        <4>7. <<g, HierarchyOf(Groups[g][k].subsystem)', Groups[g][k].name>> \in members'
          BY <4>3, <4>5, <4>6
        <4>8. \A j \in DOMAIN Groups[g] : j < i => j < k \/ j = k
          BY <1>2, <3>2, <4>1
        <4>. QED
          BY <4>2, <4>7, <4>8 DEF GroupsJoined
      <3>7. GroupsProgress(g)'
        BY <1>3, <3>3, <3>5, <3>6 DEF GroupsProgress, GuardAt
      <3>8. \A m \in members' : m[1] \in Guards
        BY <3>1, TypesStay
      <3>. QED
        BY <1>1, <1>4, <3>3, <3>4, <3>7, <3>8, TypesStay, GuardStepHolds
    <2>2. CASE <<HierarchyOf(c.subsystem), c.name>> \notin dirs
      <3>1. GuardDoes(g, "threw", 1) /\ UNCHANGED members
        BY <1>6, <2>2 DEF AssignPid
      <3>. QED
        BY <1>1, <3>1, ThrowStep
    <2>. QED
      BY <2>1, <2>2
  <1>. QED
    BY <1>5, <1>6

LEMMA CGroupsInitHolds == CGroupsInit => CGroupsInv
  <1>. SUFFICES ASSUME CGroupsInit PROVE CGroupsInv
    OBVIOUS
  <1>1. hierarchies \in Seq(Mounts) /\ IsInjective(hierarchies)
    BY DEF CGroupsInit, IsInjective
  <1>. QED
    BY <1>1 DEF CGroupsInit, CGroupsInv, CGroupsTypeOK, GroupsProgress, GuardAt, SettingsOwn

LEMMA CGroupsStep == CGroupsInv /\ [CGroupsNext]_cgroupVars => CGroupsInv'
  <1>1. CGroupsInv /\ UNCHANGED cgroupVars => CGroupsInv'
    <2>. SUFFICES ASSUME CGroupsInv, UNCHANGED cgroupVars PROVE CGroupsInv'
      OBVIOUS
    <2>1. UNCHANGED <<hierarchies, dirs, settings, members, guardStep>>
      BY DEF cgroupVars
    <2>2. CGroupsTypeOK' /\ SettingsOwn'
      BY <2>1 DEF CGroupsInv, CGroupsTypeOK, SettingsOwn
    <2>3. \A g \in Guards : Keeps(g)
      BY <2>1 DEF Keeps
    <2>4. ASSUME NEW g \in Guards PROVE GroupsProgress(g)'
      BY <2>1, <2>3, ProgressStays
    <2>. QED
      BY <2>1, <2>2, <2>4 DEF CGroupsInv
  <1>2. ASSUME CGroupsInv, NEW g \in Guards, InitLeavesGroups(g) \/ GuardThrows(g) PROVE CGroupsInv'
    BY <1>2, ThrowStep DEF InitLeavesGroups, GuardThrows
  <1>. QED
    BY <1>1, <1>2, SubsystemMakeStep, AttachSubsystemStep, CGroupMakeStep, SetValuesStep, AssignPidStep
       DEF CGroupsNext

LEMMA CGroupsInvWhole == CGroupsInv => CGroupsTypeOK /\ GroupsWhole
  <1>. SUFFICES ASSUME CGroupsInv PROVE CGroupsTypeOK /\ GroupsWhole
    OBVIOUS
  <1>1. ASSUME NEW g \in Guards, GuardAt(g, "assigned"), NEW c \in GroupsOf(g)
        PROVE  \E i \in DOMAIN hierarchies :
                 LET h == hierarchies[i].name
                 IN  /\ <<h, c.name>> \in dirs /\ <<g, h, c.name>> \in members
                     /\ \A f \in CommonFiles(c) \cup OwnFiles(c) : <<g, h, c.name, f>> \in settings
                     /\ HasName(c.subsystem, h) /\ (c.params # {} => h = c.subsystem)
    <2>1. PICK i \in DOMAIN Groups[g] : c = Groups[g][i]
      BY DEF GroupsOf, ToSet
    <2>2. i < Len(Groups[g]) + 1
      BY CGroupsAssumption, LenProperties
    <2>3. GroupMade(g, c) /\ <<g, HierarchyOf(c.subsystem), c.name>> \in members
      BY <1>1, <2>1, <2>2, TypesStay DEF GroupsProgress, GroupsMade, GroupsJoined
    <2>4. PICK j \in DOMAIN hierarchies :
            HierarchyOf(c.subsystem) = hierarchies[j].name /\ HasName(c.subsystem, hierarchies[j].name)
      BY <2>3, TypesStay, FirstNamed DEF GroupMade, Made
    <2>5. \A f \in CommonFiles(c) \cup OwnFiles(c) :
            <<g, HierarchyOf(c.subsystem), c.name, f>> \in settings
      BY <2>3 DEF GroupMade, SettingsIn
    <2>. QED
      BY <2>3, <2>4, <2>5 DEF GroupMade, Made
  <1>. QED
    BY <1>1 DEF CGroupsInv, GroupsWhole, SettingsOwn, SettingOf

\* In every behaviour a container whose guard got through is in all of its groups, which are set.
THEOREM ControlGroupsWhole == CGroupsSpec => [](CGroupsTypeOK /\ GroupsWhole)
  <1>1. CGroupsInit => CGroupsInv
    BY CGroupsInitHolds
  <1>2. CGroupsInv /\ [CGroupsNext]_cgroupVars => CGroupsInv'
    BY CGroupsStep
  <1>3. CGroupsInv => CGroupsTypeOK /\ GroupsWhole
    BY CGroupsInvWhole
  <1>. QED
    BY <1>1, <1>2, <1>3, PTL DEF CGroupsSpec

-----------------------------------------------------------------------------
(* The configuration: what an object shows is what runs.                   *)

EventSpace ==
  [what : {"connection", "SET_CONFIG", "START"}, by : 1 .. MaxObjects, given : Configurations]
InboxSpace == [what : {"GUARD_READY", "GUARD_CONNECTED"}, by : {0}, given : Configurations]

\* What the type invariant leaves open.
ConfigurationTyped ==
  /\ object \in 0 .. MaxObjects
  /\ objectStep \in {"none", "stopped", "starting", "connecting", "handing", "joined"}
  /\ objectStep # "none" => object # 0
  /\ mConfig \in Configurations /\ changed \in Configurations
  /\ guardUp \in BOOLEAN
  /\ guardSettings \in Configurations \cup {Nothing}
  /\ initSettings \in {Nothing, guardSettings}
  /\ guardEvents \in Seq(EventSpace) /\ inbox \in Seq(InboxSpace)

\* Objects come one after another, and so does what they send; one that waits to be met has
\* sent nothing else.
EventsOrdered ==
  /\ \A i \in DOMAIN guardEvents : guardEvents[i].by <= object
  /\ \A i, j \in DOMAIN guardEvents : i < j => guardEvents[i].by <= guardEvents[j].by
  /\ \A i, j \in DOMAIN guardEvents :
       i # j /\ guardEvents[i].what = "connection" => guardEvents[i].by # guardEvents[j].by

\* A guard is configured once, and a program that is gone has no guard.
ConfiguredOnce ==
  /\ ~guardUp => guardEvents = <<>> /\ guardSettings = Nothing
  /\ \A i \in DOMAIN guardEvents :
       guardEvents[i].what = "SET_CONFIG" =>
         /\ guardSettings = Nothing
         /\ \A j \in DOMAIN guardEvents : guardEvents[j].what = "SET_CONFIG" => j = i

Waits == \E i \in DOMAIN guardEvents : guardEvents[i].what = "connection" /\ guardEvents[i].by = object

AgreesWithObject(c) == \A s \in Settings \ changed : s \in mConfig <=> s \in c

\* What the object has been told, and has to tell.
ObjectTold ==
  /\ objectStep \notin {"starting", "connecting"} => inbox = <<>>
  /\ objectStep = "stopped" => \A i \in DOMAIN guardEvents : guardEvents[i].by # object
  /\ Waits => objectStep \in {"none", "starting", "connecting"} /\ inbox = <<>>
  /\ inbox # <<>> => Len(inbox) = 1
  /\ objectStep = "handing" \/ (inbox # <<>> /\ inbox[1].what = "GUARD_READY") =>
       guardUp /\ guardEvents = <<>> /\ guardSettings = Nothing
  /\ inbox # <<>> /\ inbox[1].what = "GUARD_CONNECTED" => ~guardUp \/ guardSettings = inbox[1].given

\* Of the object that has joined, and of nobody else, come the settings that run or will.
JoinedAgrees ==
  objectStep = "joined" =>
    /\ guardSettings # Nothing => AgreesWithObject(guardSettings)
    /\ \A i \in DOMAIN guardEvents : guardEvents[i].what = "SET_CONFIG" => AgreesWithObject(guardEvents[i].given)

ConfigurationInv ==
  ConfigurationTyped /\ EventsOrdered /\ ConfiguredOnce /\ ObjectTold /\ JoinedAgrees

-----------------------------------------------------------------------------
(* What is removed from a queue leaves the rest in its order.              *)

GathersOthers(up, h) ==
  /\ up[0] = <<>>
  /\ \A n \in 1 .. Len(guardEvents) :
       up[n] = IF guardEvents[n].by = h THEN up[n - 1] ELSE Append(up[n - 1], guardEvents[n])

LEMMA SentByOthersDefined ==
  ASSUME guardEvents \in Seq(EventSpace), NEW h
  PROVE  \E up \in [0 .. Len(guardEvents) -> Seq(EventSpace)] :
           GathersOthers(up, h) /\ SentByOthers(h) = up[Len(guardEvents)]
  <1>. DEFINE N == Len(guardEvents)
              Q == Seq(EventSpace)
              next == [n \in 1 .. N |-> [q \in Q |->
                         IF guardEvents[n].by = h THEN q ELSE Append(q, guardEvents[n])]]
              Body(f) == [n \in 0 .. N |->
                            IF n = 0 THEN <<>>
                            ELSE IF guardEvents[n].by = h THEN f[n - 1] ELSE Append(f[n - 1], guardEvents[n])]
              up == CHOOSE f : f = Body(f)
  <1>1. N \in Nat /\ <<>> \in Q /\ \A n \in 1 .. N : guardEvents[n] \in EventSpace
    BY LenProperties, ElementOfSeq
  <1>2. next \in [1 .. N -> [Q -> Q]]
    BY <1>1, AppendProperties
  <1>3. \A n \in 1 .. N, q \in Q :
          next[n][q] = IF guardEvents[n].by = h THEN q ELSE Append(q, guardEvents[n])
    OBVIOUS
  <1>. HIDE DEF next, N, Q
  <1>4. PICK f \in [0 .. N -> Q] : Iterates(f, N, <<>>, next)
    BY <1>1, <1>2, DefinedUpTo
  <1>5. \A n \in 1 .. N : n - 1 \in 0 .. N /\ f[n - 1] \in Q
    BY <1>1, <1>4
  <1>6. \A n \in 1 .. N :
          f[n] = IF guardEvents[n].by = h THEN f[n - 1] ELSE Append(f[n - 1], guardEvents[n])
    BY <1>3, <1>4, <1>5 DEF Iterates
  <1>7. \A n \in 0 .. N : f[n] = Body(f)[n]
    <2>1. \A n \in 0 .. N : n # 0 => n \in 1 .. N
      BY <1>1
    <2>. QED
      BY <1>4, <1>6, <2>1 DEF Iterates
  <1>8. f = Body(f)
    BY <1>4, <1>7
  <1>9. up = Body(up)
    BY <1>8
  <1>10. SentByOthers(h) = up[N]
    BY DEF SentByOthers, N
  <1>. HIDE DEF up
  <1>. DEFINE S == {n \in 0 .. N : up[n] = f[n]}
  <1>11. up[0] = <<>> /\ 0 \in S
    BY <1>1, <1>4, <1>9 DEF Iterates
  <1>12. ASSUME NEW n \in 0 .. N - 1, n \in S PROVE n + 1 \in S
    <2>1. n + 1 \in 1 .. N /\ n + 1 \in 0 .. N /\ (n + 1) - 1 = n /\ n + 1 # 0
      BY <1>1
    <2>2. up[n + 1] = IF guardEvents[n + 1].by = h THEN up[n] ELSE Append(up[n], guardEvents[n + 1])
      BY <1>9, <2>1
    <2>. QED
      BY <1>6, <1>12, <2>1, <2>2
  <1>13. 0 .. N \subseteq S
    <2>. HIDE DEF S
    <2>. QED
      BY <1>1, <1>11, <1>12, CountedUpTo
  <1>14. \A n \in 0 .. N : up[n] = f[n]
    BY <1>13
  <1>15. N \in 0 .. N
    BY <1>1
  <1>16. SentByOthers(h) = f[N]
    BY <1>10, <1>14, <1>15
  <1>. QED
    BY <1>4, <1>6, <1>16 DEF N, Q, Iterates, GathersOthers

\* A queue that keeps of another what it keeps in its order.
Thins(q, r) ==
  \E f \in [DOMAIN q -> DOMAIN r] :
    /\ \A i, j \in DOMAIN q : i < j => f[i] < f[j]
    /\ \A i \in DOMAIN q : q[i] = r[f[i]]

LEMMA SentByOthersThins ==
  ASSUME guardEvents \in Seq(EventSpace), NEW h
  PROVE  SentByOthers(h) \in Seq(EventSpace) /\ Thins(SentByOthers(h), guardEvents)
  <1>. DEFINE N == Len(guardEvents)
  <1>1. N \in Nat /\ DOMAIN guardEvents = 1 .. N
        /\ \A n \in 1 .. N : guardEvents[n] \in EventSpace
    BY LenProperties, ElementOfSeq
  <1>2. PICK up \in [0 .. N -> Seq(EventSpace)] :
          GathersOthers(up, h) /\ SentByOthers(h) = up[N]
    BY SentByOthersDefined
  <1>2a. /\ up[0] = <<>>
         /\ \A n \in 1 .. N :
              up[n] = IF guardEvents[n].by = h THEN up[n - 1] ELSE Append(up[n - 1], guardEvents[n])
    BY <1>2 DEF GathersOthers
  <1>. HIDE DEF N
  <1>. DEFINE Kept(f, n) == /\ \A i, j \in DOMAIN up[n] : i < j => f[i] < f[j]
                            /\ \A i \in DOMAIN up[n] : up[n][i] = guardEvents[f[i]]
              S == {n \in 0 .. N : \E f \in [DOMAIN up[n] -> 1 .. n] : Kept(f, n)}
  <1>3. 0 \in S
    <2>1. 0 \in 0 .. N /\ DOMAIN up[0] = {}
      BY <1>1, <1>2a
    <2>2. [i \in {} |-> 0] \in [DOMAIN up[0] -> 1 .. 0] /\ Kept([i \in {} |-> 0], 0)
      BY <2>1
    <2>. HIDE DEF Kept
    <2>. QED
      BY <2>1, <2>2
  <1>4. ASSUME NEW n \in 0 .. N - 1, n \in S PROVE n + 1 \in S
    <2>1. n + 1 \in 1 .. N /\ n + 1 \in 0 .. N /\ (n + 1) - 1 = n /\ n \in 0 .. N
          /\ 1 .. n \subseteq 1 .. n + 1 /\ n + 1 \in 1 .. n + 1
          /\ \A i \in 1 .. n : i < n + 1
      BY <1>1
    <2>2. PICK f \in [DOMAIN up[n] -> 1 .. n] : Kept(f, n)
      BY <1>4
    <2>3. up[n] \in Seq(EventSpace)
      BY <1>2, <2>1
    <2>4. CASE guardEvents[n + 1].by = h
      <3>1. up[n + 1] = up[n]
        BY <1>2a, <2>1, <2>4
      <3>2. f \in [DOMAIN up[n + 1] -> 1 .. n + 1] /\ Kept(f, n + 1)
        BY <2>1, <2>2, <3>1
      <3>. HIDE DEF Kept
      <3>. QED
        BY <2>1, <3>2
    <2>5. CASE guardEvents[n + 1].by # h
      <3>1. up[n + 1] = Append(up[n], guardEvents[n + 1])
        BY <1>2a, <2>1, <2>5
      <3>. DEFINE M == Len(up[n]) + 1
                  g == [i \in DOMAIN up[n] \cup {M} |-> IF i = M THEN n + 1 ELSE f[i]]
      <3>2. /\ DOMAIN up[n + 1] = DOMAIN up[n] \cup {M} /\ up[n + 1][M] = guardEvents[n + 1]
            /\ \A i \in DOMAIN up[n] : up[n + 1][i] = up[n][i] /\ i < M /\ i # M /\ i \in Nat
            /\ M \in Nat
        BY <1>1, <2>1, <2>3, <3>1, AppendElements, LenProperties
      <3>. HIDE DEF M
      <3>3. /\ g \in [DOMAIN up[n + 1] -> 1 .. n + 1] /\ g[M] = n + 1
            /\ \A i \in DOMAIN up[n] : g[i] = f[i] /\ g[i] \in 1 .. n
        BY <2>1, <2>2, <3>2
      <3>. HIDE DEF g
      <3>4. ASSUME NEW i \in DOMAIN up[n + 1], NEW j \in DOMAIN up[n + 1], i < j PROVE g[i] < g[j]
        <4>1. i # M
          BY <3>2, <3>4
        <4>2. i \in DOMAIN up[n]
          BY <3>2, <4>1
        <4>3. CASE j = M
          BY <2>1, <3>3, <4>2, <4>3
        <4>4. CASE j \in DOMAIN up[n]
          BY <2>2, <3>3, <3>4, <4>2, <4>4
        <4>. QED
          BY <3>2, <4>3, <4>4
      <3>5. \A i \in DOMAIN up[n + 1] : up[n + 1][i] = guardEvents[g[i]]
        BY <2>2, <3>2, <3>3
      <3>6. Kept(g, n + 1)
        BY <3>4, <3>5
      <3>. HIDE DEF Kept
      <3>. QED
        BY <2>1, <3>3, <3>6
    <2>. QED
      BY <2>4, <2>5
  <1>5. N \in S
    <2>. HIDE DEF S
    <2>1. 0 .. N \subseteq S
      BY <1>1, <1>3, <1>4, CountedUpTo
    <2>. QED
      BY <1>1, <2>1
  <1>6. N \in 0 .. N
    BY <1>1
  <1>. QED
    BY <1>1, <1>2, <1>5, <1>6 DEF Thins, N

LEMMA TailThins ==
  ASSUME guardEvents \in Seq(EventSpace), guardEvents # <<>>
  PROVE  Thins(Tail(guardEvents), guardEvents)
  <1>. DEFINE f == [i \in DOMAIN Tail(guardEvents) |-> i + 1]
  <1>1. /\ f \in [DOMAIN Tail(guardEvents) -> DOMAIN guardEvents]
        /\ \A i, j \in DOMAIN Tail(guardEvents) : i < j => f[i] < f[j]
        /\ \A i \in DOMAIN Tail(guardEvents) : Tail(guardEvents)[i] = guardEvents[f[i]]
    BY TailElements
  <1>. QED
    BY <1>1 DEF Thins

LEMMA EventTypes ==
  ASSUME guardEvents \in Seq(EventSpace)
  PROVE  \A i \in DOMAIN guardEvents :
           /\ guardEvents[i] \in EventSpace /\ i \in Nat
           /\ guardEvents[i].by \in 1 .. MaxObjects /\ guardEvents[i].by \in Nat
           /\ guardEvents[i].given \in Configurations
           /\ guardEvents[i].what \in {"connection", "SET_CONFIG", "START"}
  <1>1. \A i \in DOMAIN guardEvents : guardEvents[i] \in EventSpace /\ i \in Nat
    BY LenProperties, ElementOfSeq
  <1>. QED
    BY <1>1, ConfigurationAssumption DEF EventSpace

\* A queue that is thinned keeps its order, and what is true of all it holds.
LEMMA ThinnedKeeps ==
  ASSUME ConfigurationInv, guardEvents' \in Seq(EventSpace), Thins(guardEvents', guardEvents),
         object' = object
  PROVE  /\ EventsOrdered'
         /\ \A i \in DOMAIN guardEvents' : \E j \in DOMAIN guardEvents : guardEvents'[i] = guardEvents[j]
         /\ \A i, j \in DOMAIN guardEvents' :
              guardEvents'[i].what = "SET_CONFIG" /\ guardEvents'[j].what = "SET_CONFIG" => j = i
  <1>1. PICK f \in [DOMAIN guardEvents' -> DOMAIN guardEvents] :
          /\ \A i, j \in DOMAIN guardEvents' : i < j => f[i] < f[j]
          /\ \A i \in DOMAIN guardEvents' : guardEvents'[i] = guardEvents[f[i]]
    BY DEF Thins
  <1>2. guardEvents \in Seq(EventSpace)
    BY DEF ConfigurationInv, ConfigurationTyped
  <1>3. DOMAIN guardEvents \subseteq Nat /\ DOMAIN guardEvents' \subseteq Nat
    BY <1>2, LenProperties
  <1>4. \A i, j \in DOMAIN guardEvents' : i # j => f[i] # f[j]
    <2>1. ASSUME NEW i \in DOMAIN guardEvents', NEW j \in DOMAIN guardEvents', i # j PROVE f[i] # f[j]
      <3>1. (i < j \/ j < i) /\ f[i] \in Nat /\ f[j] \in Nat
        BY <1>1, <1>3, <2>1
      <3>. QED
        BY <1>1, <3>1
    <2>. QED
      BY <2>1
  <1>5. EventsOrdered
    BY DEF ConfigurationInv
  <1>6. EventsOrdered'
    <2>1. \A i \in DOMAIN guardEvents' : guardEvents'[i].by <= object'
      BY <1>1, <1>5 DEF EventsOrdered
    <2>2. \A i, j \in DOMAIN guardEvents' : i < j => guardEvents'[i].by <= guardEvents'[j].by
      BY <1>1, <1>5 DEF EventsOrdered
    <2>3. \A i, j \in DOMAIN guardEvents' :
            i # j /\ guardEvents'[i].what = "connection" => guardEvents'[i].by # guardEvents'[j].by
      BY <1>1, <1>4, <1>5 DEF EventsOrdered
    <2>. QED
      BY <2>1, <2>2, <2>3 DEF EventsOrdered
  <1>7. \A i \in DOMAIN guardEvents' : \E j \in DOMAIN guardEvents : guardEvents'[i] = guardEvents[j]
    BY <1>1
  <1>8. ConfiguredOnce
    BY DEF ConfigurationInv
  <1>9. \A i, j \in DOMAIN guardEvents' :
          guardEvents'[i].what = "SET_CONFIG" /\ guardEvents'[j].what = "SET_CONFIG" => j = i
    BY <1>1, <1>4, <1>8 DEF ConfiguredOnce
  <1>. QED
    BY <1>6, <1>7, <1>9

LEMMA PeerRemovedKeeps ==
  ASSUME ConfigurationInv, NEW h \in 1 .. MaxObjects, PeerRemoved(h)
  PROVE  ConfigurationInv'
  <1>0. /\ UNCHANGED <<object, objectStep, mConfig, changed, guardUp, guardSettings, initSettings, inbox>>
        /\ guardEvents' = SentByOthers(h) /\ guardUp
    <2>1. guardEvents # <<>>
      BY LenProperties DEF PeerRemoved, ConfigurationInv, ConfigurationTyped
    <2>. QED
      BY <2>1 DEF PeerRemoved, ConfigurationInv, ConfigurationTyped, ConfiguredOnce
  <1>1. guardEvents' \in Seq(EventSpace) /\ Thins(guardEvents', guardEvents)
    BY <1>0, SentByOthersThins DEF ConfigurationInv, ConfigurationTyped
  <1>2. EventsOrdered'
    BY <1>0, <1>1, ThinnedKeeps
  <1>3. \A i \in DOMAIN guardEvents' : \E j \in DOMAIN guardEvents : guardEvents'[i] = guardEvents[j]
    BY <1>0, <1>1, ThinnedKeeps
  <1>4. \A i, j \in DOMAIN guardEvents' :
          guardEvents'[i].what = "SET_CONFIG" /\ guardEvents'[j].what = "SET_CONFIG" => j = i
    BY <1>0, <1>1, ThinnedKeeps
  <1>5. ConfigurationTyped'
    BY <1>0, <1>1 DEF ConfigurationInv, ConfigurationTyped
  <1>6. ConfiguredOnce'
    BY <1>0, <1>3, <1>4 DEF ConfigurationInv, ConfiguredOnce
  <1>7. guardEvents = <<>> => guardEvents' = <<>>
    <2>1. ASSUME guardEvents = <<>>, guardEvents' # <<>> PROVE FALSE
      <3>1. 1 \in DOMAIN guardEvents'
        BY <1>1, <2>1, TailElements
      <3>. QED
        BY <1>3, <2>1, <3>1
    <2>. QED
      BY <2>1
  <1>8. ObjectTold'
    <2>1. Waits' => Waits
      BY <1>0, <1>3 DEF Waits
    <2>. QED
      BY <1>0, <1>3, <1>7, <2>1 DEF ConfigurationInv, ObjectTold
  <1>9. JoinedAgrees'
    <2>1. \A c : AgreesWithObject(c) => AgreesWithObject(c)'
      BY <1>0 DEF AgreesWithObject
    <2>. QED
      BY <1>0, <1>3 DEF ConfigurationInv, JoinedAgrees, AgreesWithObject
  <1>. QED
    BY <1>2, <1>5, <1>6, <1>8, <1>9 DEF ConfigurationInv

-----------------------------------------------------------------------------
(* The object's steps.                                                     *)

\* What the object does that no event and no message is of.
LEMMA QueuesKept ==
  ASSUME ConfigurationInv, UNCHANGED <<object, guardUp, guardSettings, initSettings, guardEvents>>,
         inbox' \in {inbox, <<>>},
         ConfigurationTyped', ObjectTold', JoinedAgrees'
  PROVE  ConfigurationInv'
  BY DEF ConfigurationInv, EventsOrdered, ConfiguredOnce

LEMMA ConstructObjectKeeps ==
  ASSUME ConfigurationInv, ConstructObject
  PROVE  ConfigurationInv'
  <1>0. /\ objectStep = "none" /\ object' = object + 1 /\ objectStep' = "stopped" /\ inbox = <<>>
        /\ UNCHANGED <<guardUp, guardSettings, initSettings, inbox, guardEvents>>
        /\ object \in Nat /\ object' \in 0 .. MaxObjects
    BY ConfigurationAssumption DEF ConstructObject, ConfigurationInv, ObjectTold, ConfigurationTyped
  <1>1. ConfigurationTyped'
    BY <1>0 DEF ConstructObject, ConfigurationInv, ConfigurationTyped, Configurations
  <1>2. \A i \in DOMAIN guardEvents : guardEvents[i].by \in Nat /\ guardEvents[i].by <= object
    BY EventTypes DEF ConfigurationInv, ConfigurationTyped, EventsOrdered
  <1>3. \A i \in DOMAIN guardEvents : guardEvents[i].by # object'
    BY <1>0, <1>2
  <1>4. EventsOrdered'
    BY <1>0, <1>2 DEF ConfigurationInv, EventsOrdered
  <1>5. ConfiguredOnce'
    BY <1>0 DEF ConfigurationInv, ConfiguredOnce
  <1>6. ObjectTold'
    BY <1>0, <1>3 DEF ObjectTold, Waits
  <1>7. JoinedAgrees'
    BY <1>0 DEF JoinedAgrees
  <1>. QED
    BY <1>1, <1>4, <1>5, <1>6, <1>7 DEF ConfigurationInv

LEMMA ObjectEndsKeeps ==
  ASSUME ConfigurationInv, ObjectEnds
  PROVE  ConfigurationInv'
  <1>1. /\ UNCHANGED <<object, guardUp, guardSettings, initSettings, guardEvents, mConfig, changed>>
        /\ objectStep' = "none" /\ inbox' = <<>>
    BY DEF ObjectEnds, ObjectOnly
  <1>2. ConfigurationTyped'
    BY <1>1 DEF ConfigurationInv, ConfigurationTyped
  <1>3. ObjectTold' /\ JoinedAgrees'
    BY <1>1 DEF ObjectTold, JoinedAgrees, Waits
  <1>. QED
    BY <1>1, <1>2, <1>3, QueuesKept

LEMMA ChangedToKeeps ==
  ASSUME ConfigurationInv, NEW s \in Settings, NEW given \in {mConfig \cup {s}, mConfig \ {s}},
         ChangedTo(given, s)
  PROVE  ConfigurationInv'
  <1>1. /\ UNCHANGED <<object, guardUp, guardSettings, initSettings, guardEvents, objectStep, inbox>>
        /\ mConfig' = given /\ changed' = changed \cup {s}
    BY DEF ChangedTo, ObjectOnly
  <1>2. ConfigurationTyped'
    BY <1>1 DEF ConfigurationInv, ConfigurationTyped, Configurations
  <1>3. ObjectTold'
    BY <1>1 DEF ConfigurationInv, ObjectTold, Waits
  <1>4. ASSUME NEW c, AgreesWithObject(c) PROVE AgreesWithObject(c)'
    BY <1>1, <1>4 DEF AgreesWithObject
  <1>5. JoinedAgrees'
    BY <1>1, <1>4 DEF ConfigurationInv, JoinedAgrees
  <1>. QED
    BY <1>1, <1>2, <1>3, <1>5, QueuesKept

\* The last of the queue is of the object.
LEMMA AppendOrdered ==
  ASSUME ConfigurationInv, NEW e \in EventSpace, e.by = object, ~Waits, object' = object,
         e.what = "connection" => \A i \in DOMAIN guardEvents : guardEvents[i].by # object,
         guardEvents' = Append(guardEvents, e)
  PROVE  EventsOrdered'
  <1>. DEFINE N == Len(guardEvents) + 1
  <1>1. guardEvents \in Seq(EventSpace) /\ EventsOrdered /\ object \in Nat
    BY ConfigurationAssumption DEF ConfigurationInv, ConfigurationTyped
  <1>2. /\ DOMAIN guardEvents' = DOMAIN guardEvents \cup {N} /\ guardEvents'[N] = e
        /\ \A i \in DOMAIN guardEvents : guardEvents'[i] = guardEvents[i] /\ i < N /\ i \in Nat
    BY <1>1, AppendElements
  <1>3. \A i \in DOMAIN guardEvents : guardEvents[i].by <= object /\ guardEvents[i].by \in Nat
    BY <1>1, EventTypes DEF EventsOrdered
  <1>3a. N \in Nat
    BY <1>1, LenProperties
  <1>. HIDE DEF N
  <1>4. \A i \in DOMAIN guardEvents' : guardEvents'[i].by <= object'
    BY <1>1, <1>2, <1>3
  <1>5. ASSUME NEW i \in DOMAIN guardEvents', NEW j \in DOMAIN guardEvents', i < j
        PROVE  guardEvents'[i].by <= guardEvents'[j].by
    <2>1. i \in DOMAIN guardEvents
      BY <1>2, <1>3a, <1>5
    <2>. QED
      BY <1>1, <1>2, <1>3, <1>5, <2>1 DEF EventsOrdered
  <1>6. ASSUME NEW i \in DOMAIN guardEvents', NEW j \in DOMAIN guardEvents', i # j,
               guardEvents'[i].what = "connection"
        PROVE  guardEvents'[i].by # guardEvents'[j].by
    <2>1. CASE i \in DOMAIN guardEvents /\ j \in DOMAIN guardEvents
      BY <1>1, <1>2, <1>6, <2>1 DEF EventsOrdered
    <2>2. CASE i = N
      BY <1>2, <1>6, <2>2
    <2>3. CASE j = N
      BY <1>2, <1>6, <2>3 DEF Waits
    <2>. QED
      BY <1>2, <2>1, <2>2, <2>3
  <1>. QED
    BY <1>4, <1>5, <1>6 DEF EventsOrdered

LEMMA ConnectObjectKeeps ==
  ASSUME ConfigurationInv, ConnectObject
  PROVE  ConfigurationInv'
  <1>. DEFINE e == Message("connection", object, {})
              N == Len(guardEvents) + 1
  <1>0. /\ UNCHANGED <<object, guardUp, guardSettings, initSettings, mConfig, changed, inbox>>
        /\ objectStep = "stopped" /\ objectStep' = "connecting" /\ guardEvents' = Append(guardEvents, e)
        /\ inbox = <<>> /\ guardUp
        /\ \A i \in DOMAIN guardEvents : guardEvents[i].by # object
    BY DEF ConnectObject, ObjectOnly, ConfigurationInv, ObjectTold
  <1>1. ~Waits
    BY <1>0 DEF Waits
  <1>2. e \in EventSpace /\ e.by = object /\ e.what = "connection"
    BY <1>0 DEF Message, EventSpace, Configurations, ConfigurationInv, ConfigurationTyped
  <1>3. guardEvents \in Seq(EventSpace)
    BY DEF ConfigurationInv, ConfigurationTyped
  <1>4. EventsOrdered'
    BY <1>0, <1>1, <1>2, AppendOrdered
  <1>5. /\ guardEvents' \in Seq(EventSpace)
        /\ DOMAIN guardEvents' = DOMAIN guardEvents \cup {N} /\ guardEvents'[N] = e
        /\ \A i \in DOMAIN guardEvents : guardEvents'[i] = guardEvents[i]
    BY <1>0, <1>2, <1>3, AppendElements
  <1>. HIDE DEF e, N
  <1>6. ConfigurationTyped'
    BY <1>0, <1>5 DEF ConfigurationInv, ConfigurationTyped
  <1>7. ConfiguredOnce'
    BY <1>0, <1>2, <1>5 DEF ConfigurationInv, ConfiguredOnce
  <1>8. ObjectTold' /\ JoinedAgrees'
    BY <1>0 DEF ObjectTold, JoinedAgrees
  <1>. QED
    BY <1>4, <1>6, <1>7, <1>8 DEF ConfigurationInv

LEMMA StartObjectKeeps ==
  ASSUME ConfigurationInv, StartObject
  PROVE  ConfigurationInv'
  <1>0. /\ UNCHANGED <<object, mConfig, changed, inbox>>
        /\ objectStep = "stopped" /\ objectStep' = "starting" /\ inbox = <<>> /\ guardEvents = <<>> /\ ~guardUp
    BY DEF StartObject, ConfigurationInv, ObjectTold, ConfiguredOnce
  <1>1. CASE UNCHANGED <<guardUp, guardSettings, initSettings, guardEvents>>
    <2>1. ConfigurationTyped' /\ EventsOrdered' /\ ConfiguredOnce'
      BY <1>0, <1>1 DEF ConfigurationInv, ConfigurationTyped, EventsOrdered, ConfiguredOnce
    <2>2. ObjectTold' /\ JoinedAgrees'
      BY <1>0, <1>1 DEF ObjectTold, JoinedAgrees
    <2>. QED
      BY <2>1, <2>2 DEF ConfigurationInv
  <1>2. CASE ForkGuard
    <2>. DEFINE e == Message("connection", object, {})
    <2>1. e \in EventSpace /\ e.by = object /\ e.what = "connection"
      BY <1>0 DEF Message, EventSpace, Configurations, ConfigurationInv, ConfigurationTyped
    <2>2. /\ guardUp' = TRUE /\ guardSettings' = Nothing /\ initSettings' = Nothing
          /\ guardEvents' = <<e>>
      BY <1>2 DEF ForkGuard
    <2>. HIDE DEF e
    <2>3. guardEvents' \in Seq(EventSpace) /\ DOMAIN guardEvents' = {1} /\ guardEvents'[1] = e
      BY <2>1, <2>2
    <2>4. ConfigurationTyped'
      BY <1>0, <2>2, <2>3 DEF ConfigurationInv, ConfigurationTyped
    <2>5. EventsOrdered'
      <3>1. object \in Nat
        BY ConfigurationAssumption DEF ConfigurationInv, ConfigurationTyped
      <3>. QED
        BY <1>0, <2>1, <2>3, <3>1 DEF EventsOrdered
    <2>6. ConfiguredOnce'
      BY <2>1, <2>2, <2>3 DEF ConfiguredOnce
    <2>7. ObjectTold' /\ JoinedAgrees'
      BY <1>0 DEF ObjectTold, JoinedAgrees
    <2>. QED
      BY <2>4, <2>5, <2>6, <2>7 DEF ConfigurationInv
  <1>. QED
    BY <1>1, <1>2 DEF StartObject

LEMMA GuardReadyMetKeeps ==
  ASSUME ConfigurationInv, GuardReadyMet
  PROVE  ConfigurationInv'
  <1>1. inbox \in Seq(InboxSpace) /\ inbox # <<>> /\ Len(inbox) = 1
    BY DEF GuardReadyMet, ReadInbox, ConfigurationInv, ConfigurationTyped, ObjectTold
  <1>2. inbox[1].what = "GUARD_READY" /\ inbox' = <<>>
    <2>1. Head(inbox) = inbox[1] /\ Tail(inbox) \in Seq(InboxSpace) /\ Len(Tail(inbox)) = 0
      BY <1>1, TailElements
    <2>. QED
      BY <2>1 DEF GuardReadyMet, ReadInbox
  <1>3. /\ UNCHANGED <<object, guardUp, guardSettings, initSettings, mConfig, changed, guardEvents>>
        /\ objectStep' = "handing" /\ objectStep \in {"starting", "connecting"}
        /\ guardUp /\ guardEvents = <<>> /\ guardSettings = Nothing
    BY <1>1, <1>2 DEF GuardReadyMet, ObjectOnly, ConfigurationInv, ObjectTold
  <1>4. ConfigurationTyped'
    BY <1>2, <1>3 DEF ConfigurationInv, ConfigurationTyped
  <1>5. ObjectTold' /\ JoinedAgrees'
    BY <1>2, <1>3 DEF ObjectTold, JoinedAgrees, Waits
  <1>. QED
    BY <1>2, <1>3, <1>4, <1>5, QueuesKept

LEMMA TakeOverKeeps ==
  ASSUME ConfigurationInv, TakeOver
  PROVE  ConfigurationInv'
  <1>1. inbox \in Seq(InboxSpace) /\ inbox # <<>> /\ Len(inbox) = 1
    BY DEF TakeOver, ReadInbox, ConfigurationInv, ConfigurationTyped, ObjectTold
  <1>2. /\ inbox[1].what = "GUARD_CONNECTED" /\ inbox' = <<>> /\ mConfig' = inbox[1].given
        /\ inbox[1].given \in Configurations
    <2>1. /\ Head(inbox) = inbox[1] /\ Tail(inbox) \in Seq(InboxSpace) /\ Len(Tail(inbox)) = 0
          /\ inbox[1] \in InboxSpace
      BY <1>1, TailElements
    <2>. QED
      BY <2>1 DEF TakeOver, ReadInbox, Replaced, InboxSpace
  <1>3. /\ UNCHANGED <<object, guardUp, guardSettings, initSettings, guardEvents>>
        /\ objectStep' = "joined" /\ objectStep \in {"starting", "connecting"}
        /\ changed' = {}
        /\ ~Waits
        /\ ~guardUp \/ guardSettings = inbox[1].given
    BY <1>1, <1>2 DEF TakeOver, ObjectOnly, ConfigurationInv, ObjectTold
  <1>4. ConfigurationTyped'
    BY <1>2, <1>3 DEF ConfigurationInv, ConfigurationTyped, Configurations
  <1>5. ObjectTold'
    BY <1>2, <1>3 DEF ObjectTold, Waits
  <1>6. JoinedAgrees'
    <2>1. CASE ~guardUp
      BY <1>3, <2>1 DEF JoinedAgrees, ConfigurationInv, ConfiguredOnce
    <2>2. CASE guardSettings = inbox[1].given
      <3>1. \A i \in DOMAIN guardEvents : guardEvents[i].what # "SET_CONFIG"
        <4>1. guardSettings # Nothing
          BY <1>2, <2>2, ConfigurationAssumption DEF Nothing, Configurations
        <4>. QED
          BY <4>1 DEF ConfigurationInv, ConfiguredOnce
      <3>2. AgreesWithObject(guardSettings)'
        BY <1>2, <1>3, <2>2 DEF AgreesWithObject
      <3>. QED
        BY <1>3, <3>1, <3>2 DEF JoinedAgrees
    <2>. QED
      BY <1>3, <2>1, <2>2
  <1>. QED
    BY <1>2, <1>3, <1>4, <1>5, <1>6, QueuesKept

LEMMA HandOverKeeps ==
  ASSUME ConfigurationInv, HandOver
  PROVE  ConfigurationInv'
  <1>. DEFINE e == Message("SET_CONFIG", object, mConfig)
              d == Message("START", object, {})
  <1>0. /\ UNCHANGED <<object, guardUp, guardSettings, initSettings, mConfig, inbox>>
        /\ objectStep = "handing" /\ objectStep' = "joined" /\ changed' = {}
        /\ guardUp /\ guardEvents = <<>> /\ guardSettings = Nothing /\ inbox = <<>>
        /\ guardEvents' = guardEvents \o <<e, d>>
    BY DEF HandOver, ObjectOnly, ConfigurationInv, ObjectTold
  <1>1. /\ e \in EventSpace /\ e.by = object /\ e.what = "SET_CONFIG" /\ e.given = mConfig
        /\ d \in EventSpace /\ d.by = object /\ d.what = "START"
    BY <1>0 DEF Message, EventSpace, Configurations, ConfigurationInv, ConfigurationTyped
  <1>. HIDE DEF e, d
  <1>2. guardEvents' = <<e, d>>
    BY <1>0, <1>1
  <1>3. /\ guardEvents' \in Seq(EventSpace) /\ DOMAIN guardEvents' = {1, 2}
        /\ guardEvents'[1] = e /\ guardEvents'[2] = d
    BY <1>1, <1>2
  <1>4. ConfigurationTyped'
    BY <1>0, <1>3 DEF ConfigurationInv, ConfigurationTyped, Configurations
  <1>5. EventsOrdered'
    <2>1. object \in Nat
      BY ConfigurationAssumption DEF ConfigurationInv, ConfigurationTyped
    <2>. QED
      BY <1>0, <1>1, <1>3, <2>1 DEF EventsOrdered
  <1>6. ConfiguredOnce'
    BY <1>0, <1>1, <1>3 DEF ConfiguredOnce
  <1>7. ObjectTold'
    BY <1>0, <1>1, <1>3 DEF ObjectTold, Waits
  <1>8. JoinedAgrees'
    BY <1>0, <1>1, <1>3 DEF JoinedAgrees, AgreesWithObject
  <1>. QED
    BY <1>4, <1>5, <1>6, <1>7, <1>8 DEF ConfigurationInv

-----------------------------------------------------------------------------
(* The guard's steps.                                                      *)

\* The first event is taken: the rest is thinner, and holds what the queue held.
LEMMA EventTaken ==
  ASSUME ConfigurationInv, NEW what, NextEvent(what), object' = object
  PROVE  /\ guardEvents' \in Seq(EventSpace) /\ EventsOrdered'
         /\ 1 \in DOMAIN guardEvents /\ Head(guardEvents) = guardEvents[1] /\ guardEvents[1].what = what
         /\ \A i \in DOMAIN guardEvents' :
              \E j \in DOMAIN guardEvents : j # 1 /\ guardEvents'[i] = guardEvents[j]
         /\ \A i, j \in DOMAIN guardEvents' :
              guardEvents'[i].what = "SET_CONFIG" /\ guardEvents'[j].what = "SET_CONFIG" => j = i
  <1>1. guardEvents \in Seq(EventSpace) /\ guardEvents # <<>> /\ guardEvents' = Tail(guardEvents)
        /\ Head(guardEvents).what = what
    BY DEF NextEvent, ConfigurationInv, ConfigurationTyped
  <1>2. guardEvents' \in Seq(EventSpace) /\ Thins(guardEvents', guardEvents)
    BY <1>1, TailElements, TailThins
  <1>3. 1 \in DOMAIN guardEvents /\ Head(guardEvents) = guardEvents[1]
    BY <1>1, TailElements
  <1>4. \A i \in DOMAIN guardEvents' :
          \E j \in DOMAIN guardEvents : j # 1 /\ guardEvents'[i] = guardEvents[j]
    <2>1. ASSUME NEW i \in DOMAIN guardEvents'
          PROVE  i + 1 \in DOMAIN guardEvents /\ i + 1 # 1 /\ guardEvents'[i] = guardEvents[i + 1]
      BY <1>1, <1>2, TailElements, LenProperties
    <2>. QED
      BY <2>1
  <1>. QED
    BY <1>1, <1>2, <1>3, <1>4, ThinnedKeeps

LEMMA GuardMeetsKeeps ==
  ASSUME ConfigurationInv, GuardMeets
  PROVE  ConfigurationInv'
  <1>. DEFINE e == guardEvents[1]
              answers == e.by = object /\ objectStep # "none"
              what == IF guardSettings = Nothing THEN "GUARD_READY" ELSE "GUARD_CONNECTED"
              m == Message(what, 0, IF what = "GUARD_READY" THEN {} ELSE guardSettings)
  <1>0. /\ UNCHANGED <<object, objectStep, mConfig, changed, guardUp, guardSettings, initSettings>>
        /\ NextEvent("connection") /\ guardUp
    BY DEF GuardMeets, NextEvent
  <1>1. /\ guardEvents' \in Seq(EventSpace) /\ EventsOrdered'
        /\ 1 \in DOMAIN guardEvents /\ Head(guardEvents) = guardEvents[1] /\ guardEvents[1].what = "connection"
    BY <1>0, EventTaken
  <1>2. \A i \in DOMAIN guardEvents' :
          \E j \in DOMAIN guardEvents : j # 1 /\ guardEvents'[i] = guardEvents[j]
    BY <1>0, EventTaken
  <1>3. \A i, j \in DOMAIN guardEvents' :
          guardEvents'[i].what = "SET_CONFIG" /\ guardEvents'[j].what = "SET_CONFIG" => j = i
    BY <1>0, EventTaken
  <1>4. inbox' = IF answers THEN Append(inbox, m) ELSE inbox
    BY <1>1 DEF GuardMeets, Reply
  <1>5. m \in InboxSpace /\ m.what = what /\ (what # "GUARD_READY" => m.given = guardSettings)
    BY DEF Message, InboxSpace, Configurations, ConfigurationInv, ConfigurationTyped
  <1>. HIDE DEF m
  <1>6. answers => Waits
    BY <1>1 DEF Waits
  <1>7. answers => /\ inbox = <<>> /\ objectStep \in {"starting", "connecting"}
    BY <1>6 DEF ConfigurationInv, ObjectTold
  <1>8. answers => inbox' = <<m>> /\ Len(inbox') = 1 /\ inbox'[1] = m /\ inbox' \in Seq(InboxSpace)
    BY <1>4, <1>5, <1>7
  <1>9. answers => guardEvents' = <<>>
    <2>1. ASSUME answers, guardEvents' # <<>> PROVE FALSE
      <3>1. 1 \in DOMAIN guardEvents'
        BY <1>1, <2>1, TailElements
      <3>2. PICK j \in DOMAIN guardEvents : j # 1 /\ guardEvents'[1] = guardEvents[j]
        BY <1>2, <3>1
      <3>3. guardEvents[j].by # object
        BY <1>1, <2>1, <3>2 DEF ConfigurationInv, EventsOrdered
      <3>4. guardEvents[j].by <= object /\ object <= guardEvents[j].by
        <4>1. j \in Nat /\ 1 < j
          BY <3>2, LenProperties DEF ConfigurationInv, ConfigurationTyped
        <4>. QED
          BY <1>1, <2>1, <3>2, <4>1 DEF ConfigurationInv, EventsOrdered
      <3>5. guardEvents[j].by \in Nat /\ object \in Nat
        BY <3>2, EventTypes, ConfigurationAssumption DEF ConfigurationInv, ConfigurationTyped
      <3>. QED
        BY <3>3, <3>4, <3>5
    <2>. QED
      BY <2>1
  <1>10. Waits' => Waits /\ ~answers
    <2>1. ASSUME Waits' PROVE Waits /\ ~answers
      <3>1. PICK i \in DOMAIN guardEvents' : guardEvents'[i].what = "connection" /\ guardEvents'[i].by = object
        BY <1>0, <2>1 DEF Waits
      <3>2. PICK j \in DOMAIN guardEvents : guardEvents'[i] = guardEvents[j]
        BY <1>2, <3>1
      <3>3. guardEvents' # <<>>
        BY <3>1
      <3>. QED
        BY <1>9, <3>1, <3>2, <3>3 DEF Waits
    <2>. QED
      BY <2>1
  <1>11. ConfigurationTyped'
    BY <1>0, <1>1, <1>4, <1>8 DEF ConfigurationInv, ConfigurationTyped
  <1>12. ConfiguredOnce'
    BY <1>0, <1>2, <1>3 DEF ConfigurationInv, ConfiguredOnce
  <1>13. ObjectTold'
    <2>1. CASE answers
      <3>1. objectStep' \in {"starting", "connecting"} /\ ~Waits' /\ Len(inbox') = 1
        BY <1>0, <1>7, <1>8, <1>10, <2>1
      <3>2. inbox'[1].what = "GUARD_READY" => guardUp' /\ guardEvents' = <<>> /\ guardSettings' = Nothing
        BY <1>0, <1>5, <1>8, <1>9, <2>1
      <3>3. inbox'[1].what = "GUARD_CONNECTED" => guardSettings' = inbox'[1].given
        BY <1>0, <1>5, <1>8, <2>1
      <3>. QED
        BY <3>1, <3>2, <3>3 DEF ObjectTold
    <2>2. CASE ~answers
      <3>1. inbox' = inbox
        BY <1>4, <2>2
      <3>2. guardEvents = <<>> => FALSE
        BY <1>1
      <3>. QED
        BY <1>0, <1>2, <1>10, <3>1, <3>2 DEF ConfigurationInv, ObjectTold
    <2>. QED
      BY <2>1, <2>2
  <1>14. JoinedAgrees'
    BY <1>0, <1>2 DEF ConfigurationInv, JoinedAgrees, AgreesWithObject
  <1>. QED
    BY <1>1, <1>11, <1>12, <1>13, <1>14 DEF ConfigurationInv

LEMMA GuardConfiguredKeeps ==
  ASSUME ConfigurationInv, GuardConfigured
  PROVE  ConfigurationInv'
  <1>. DEFINE e == guardEvents[1]
  <1>0. /\ UNCHANGED <<object, objectStep, mConfig, changed, guardUp, initSettings, inbox>>
        /\ NextEvent("SET_CONFIG") /\ guardUp
    BY DEF GuardConfigured, NextEvent
  <1>1. /\ guardEvents' \in Seq(EventSpace) /\ EventsOrdered'
        /\ 1 \in DOMAIN guardEvents /\ Head(guardEvents) = e /\ e.what = "SET_CONFIG"
    BY <1>0, EventTaken
  <1>2. \A i \in DOMAIN guardEvents' :
          \E j \in DOMAIN guardEvents : j # 1 /\ guardEvents'[i] = guardEvents[j]
    BY <1>0, EventTaken
  <1>3. guardSettings = Nothing /\ initSettings = Nothing
        /\ \A j \in DOMAIN guardEvents : guardEvents[j].what = "SET_CONFIG" => j = 1
    BY <1>1 DEF ConfigurationInv, ConfigurationTyped, ConfiguredOnce
  <1>4. \A i \in DOMAIN guardEvents' : guardEvents'[i].what # "SET_CONFIG"
    BY <1>2, <1>3
  <1>5. guardSettings' = e.given /\ e.given \in Configurations
    BY <1>1, EventTypes DEF GuardConfigured, ConfigurationInv, ConfigurationTyped
  <1>6. ConfigurationTyped'
    BY <1>0, <1>1, <1>3, <1>5 DEF ConfigurationInv, ConfigurationTyped
  <1>7. ConfiguredOnce'
    BY <1>0, <1>4 DEF ConfiguredOnce
  <1>8. ObjectTold'
    <2>1. Waits' => Waits
      BY <1>0, <1>2 DEF Waits
    <2>2. inbox # <<>> => inbox[1].what \in {"GUARD_READY", "GUARD_CONNECTED"}
                          /\ inbox[1].given \in Configurations
      <3>1. inbox \in Seq(InboxSpace)
        BY DEF ConfigurationInv, ConfigurationTyped
      <3>2. inbox # <<>> => inbox[1] \in InboxSpace
        BY <3>1, TailElements
      <3>. QED
        BY <3>2 DEF InboxSpace
    <2>3. guardEvents # <<>>
      BY <1>1
    <2>5. inbox # <<>> => inbox[1].given # Nothing
      BY <2>2, ConfigurationAssumption DEF Nothing, Configurations
    <2>6. inbox = <<>>
      BY <1>0, <1>3, <2>2, <2>3, <2>5 DEF ConfigurationInv, ObjectTold
    <2>. QED
      BY <1>0, <1>2, <2>1, <2>3, <2>6 DEF ConfigurationInv, ObjectTold
  <1>9. JoinedAgrees'
    <2>1. objectStep = "joined" => AgreesWithObject(e.given)
      BY <1>1 DEF ConfigurationInv, JoinedAgrees
    <2>2. objectStep = "joined" => AgreesWithObject(guardSettings)'
      BY <1>0, <1>5, <2>1 DEF AgreesWithObject
    <2>. QED
      BY <1>0, <1>4, <2>2 DEF JoinedAgrees
  <1>. QED
    BY <1>1, <1>6, <1>7, <1>8, <1>9 DEF ConfigurationInv

LEMMA GuardStartsKeeps ==
  ASSUME ConfigurationInv, NEW throws \in BOOLEAN, GuardStarts(throws)
  PROVE  ConfigurationInv'
  <1>0. /\ UNCHANGED <<object, objectStep, mConfig, changed, guardUp, guardSettings, inbox>>
        /\ NextEvent("START") /\ guardUp /\ initSettings' \in {initSettings, guardSettings}
    BY DEF GuardStarts, NextEvent
  <1>1. guardEvents' \in Seq(EventSpace) /\ EventsOrdered' /\ 1 \in DOMAIN guardEvents
    BY <1>0, EventTaken
  <1>2. \A i \in DOMAIN guardEvents' :
          \E j \in DOMAIN guardEvents : j # 1 /\ guardEvents'[i] = guardEvents[j]
    BY <1>0, EventTaken
  <1>3. \A i, j \in DOMAIN guardEvents' :
          guardEvents'[i].what = "SET_CONFIG" /\ guardEvents'[j].what = "SET_CONFIG" => j = i
    BY <1>0, EventTaken
  <1>4. ConfigurationTyped'
    BY <1>0, <1>1 DEF ConfigurationInv, ConfigurationTyped
  <1>5. ConfiguredOnce'
    BY <1>0, <1>2, <1>3 DEF ConfigurationInv, ConfiguredOnce
  <1>6. ObjectTold'
    <2>1. Waits' => Waits
      BY <1>0, <1>2 DEF Waits
    <2>2. guardEvents # <<>>
      BY <1>1
    <2>. QED
      BY <1>0, <1>2, <2>1, <2>2 DEF ConfigurationInv, ObjectTold
  <1>7. JoinedAgrees'
    BY <1>0, <1>2 DEF ConfigurationInv, JoinedAgrees, AgreesWithObject
  <1>. QED
    BY <1>1, <1>4, <1>5, <1>6, <1>7 DEF ConfigurationInv

LEMMA GuardEndsKeeps ==
  ASSUME ConfigurationInv, GuardEnds
  PROVE  ConfigurationInv'
  <1>1. /\ UNCHANGED <<object, objectStep, mConfig, changed, inbox>>
        /\ guardUp' = FALSE /\ guardSettings' = Nothing /\ initSettings' = Nothing /\ guardEvents' = <<>>
        /\ guardSettings # Nothing
    BY DEF GuardEnds, ConfigurationInv, ConfigurationTyped
  <1>2. ConfigurationTyped'
    <2>1. <<>> \in Seq(EventSpace)
      OBVIOUS
    <2>. QED
      BY <1>1, <2>1 DEF ConfigurationInv, ConfigurationTyped
  <1>3. DOMAIN guardEvents' = {}
    BY <1>1
  <1>3a. EventsOrdered'
    BY <1>3 DEF EventsOrdered
  <1>3b. ConfiguredOnce' /\ JoinedAgrees'
    BY <1>1, <1>3 DEF ConfiguredOnce, JoinedAgrees
  <1>4. ObjectTold'
    BY <1>1 DEF ConfigurationInv, ObjectTold, Waits
  <1>. QED
    BY <1>2, <1>3a, <1>3b, <1>4 DEF ConfigurationInv

-----------------------------------------------------------------------------

LEMMA ConfigurationInitHolds == ConfigurationInit => ConfigurationInv
  <1>. SUFFICES ASSUME ConfigurationInit PROVE ConfigurationInv
    OBVIOUS
  <1>1. ConfigurationTyped
    <2>1. <<>> \in Seq(EventSpace) /\ <<>> \in Seq(InboxSpace)
      OBVIOUS
    <2>2. {} \in Configurations /\ 0 \in 0 .. MaxObjects
      BY ConfigurationAssumption DEF Configurations
    <2>. QED
      BY <2>1, <2>2 DEF ConfigurationInit, ConfigurationTyped
  <1>2. DOMAIN guardEvents = {}
    BY DEF ConfigurationInit
  <1>3. EventsOrdered
    BY <1>2 DEF EventsOrdered
  <1>4. ConfiguredOnce /\ ObjectTold /\ JoinedAgrees
    BY <1>2 DEF ConfigurationInit, ConfiguredOnce, ObjectTold, JoinedAgrees, Waits
  <1>. QED
    BY <1>1, <1>3, <1>4 DEF ConfigurationInv

LEMMA ConfigurationStep == ConfigurationInv /\ [ConfigurationNext]_configurationVars => ConfigurationInv'
  <1>. SUFFICES ASSUME ConfigurationInv, [ConfigurationNext]_configurationVars PROVE ConfigurationInv'
    OBVIOUS
  <1>1. CASE ConstructObject
    BY <1>1, ConstructObjectKeeps
  <1>2. CASE ObjectEnds
    BY <1>2, ObjectEndsKeeps
  <1>3. CASE ConnectObject
    BY <1>3, ConnectObjectKeeps
  <1>4. CASE StartObject
    BY <1>4, StartObjectKeeps
  <1>5. CASE GuardReadyMet
    BY <1>5, GuardReadyMetKeeps
  <1>6. CASE HandOver
    BY <1>6, HandOverKeeps
  <1>7. CASE TakeOver
    BY <1>7, TakeOverKeeps
  <1>8. ASSUME NEW s \in Provided, DeclareProvided(s) \/ RemoveProvided(s) PROVE ConfigurationInv'
    BY <1>8, ChangedToKeeps DEF DeclareProvided, RemoveProvided, Settings
  <1>9. ASSUME NEW s \in Values, SetValue(s) PROVE ConfigurationInv'
    BY <1>9, ChangedToKeeps DEF SetValue, Settings
  <1>10. CASE GuardMeets
    BY <1>10, GuardMeetsKeeps
  <1>11. CASE GuardConfigured
    BY <1>11, GuardConfiguredKeeps
  <1>12. ASSUME NEW throws \in BOOLEAN, GuardStarts(throws) PROVE ConfigurationInv'
    BY <1>12, GuardStartsKeeps
  <1>13. CASE GuardEnds
    BY <1>13, GuardEndsKeeps
  <1>14. ASSUME NEW h \in 1 .. MaxObjects, PeerRemoved(h) PROVE ConfigurationInv'
    BY <1>14, PeerRemovedKeeps
  <1>15. CASE UNCHANGED configurationVars
    BY <1>15 DEF configurationVars, ConfigurationInv, ConfigurationTyped, EventsOrdered, ConfiguredOnce,
                 ObjectTold, JoinedAgrees, Waits, AgreesWithObject
  <1>. QED
    BY <1>1, <1>2, <1>3, <1>4, <1>5, <1>6, <1>7, <1>8, <1>9, <1>10, <1>11, <1>12, <1>13, <1>14, <1>15
    DEF ConfigurationNext

LEMMA ConfigurationInvType == ConfigurationInv => ConfigurationTypeOK
  <1>. SUFFICES ASSUME ConfigurationInv PROVE ConfigurationTypeOK
    OBVIOUS
  <1>1. \A i \in DOMAIN guardEvents : guardEvents[i].what \in {"connection", "SET_CONFIG", "START"}
    BY EventTypes DEF ConfigurationInv, ConfigurationTyped
  <1>2. \A i \in DOMAIN inbox : inbox[i] \in InboxSpace
    BY LenProperties, ElementOfSeq DEF ConfigurationInv, ConfigurationTyped
  <1>3. \A i \in DOMAIN inbox : inbox[i].what \in {"GUARD_READY", "GUARD_CONNECTED"}
    BY <1>2 DEF InboxSpace
  <1>. QED
    BY <1>1, <1>3 DEF ConfigurationInv, ConfigurationTyped, ConfigurationTypeOK

LEMMA ConfigurationInvShown == ConfigurationInv => ShownIsRun
  BY DEF ConfigurationInv, ConfigurationTyped, JoinedAgrees, AgreesWithObject, ShownIsRun

\* Every object that comes to a guard, in whatever order programs end, messages are lost
\* with them and guards exit, has in it the configuration that the container's init was
\* made of, but for what was changed through it since.
THEOREM ConfigurationShown == ConfigurationSpec => [](ConfigurationTypeOK /\ ShownIsRun)
  <1>1. ConfigurationInit => ConfigurationInv
    BY ConfigurationInitHolds
  <1>2. ConfigurationInv /\ [ConfigurationNext]_configurationVars => ConfigurationInv'
    BY ConfigurationStep
  <1>3. ConfigurationInv => ConfigurationTypeOK /\ ShownIsRun
    BY ConfigurationInvType, ConfigurationInvShown
  <1>. QED
    BY <1>1, <1>2, <1>3, PTL DEF ConfigurationSpec

-----------------------------------------------------------------------------
(* The relays of terminals: nothing is lost, repeated or out of its order  *)
(* between a console and the programs on the terminal.                     *)

-----------------------------------------------------------------------------
\* Order.
Below(S, T) == \A m \in S, n \in T : m < n
BelowInTurn(S, T) == \A x \in S, y \in T : x[1] = y[1] => x[2] < y[2]

LEMMA CutIncreasing ==
  ASSUME NEW s \in Seq(Nat), NEW n \in 0 .. Len(s), Increasing(s)
  PROVE  /\ Increasing(SubSeq(s, 1, n)) /\ Increasing(SubSeq(s, n + 1, Len(s)))
         /\ Below(ToSet(SubSeq(s, 1, n)), ToSet(SubSeq(s, n + 1, Len(s))))
  <1>. DEFINE p == SubSeq(s, 1, n)
              r == SubSeq(s, n + 1, Len(s))
  <1>0. Len(s) \in Nat /\ n \in Nat /\ DOMAIN s \subseteq Nat
    BY LenProperties
  <1>1. /\ \A i \in DOMAIN p : i \in DOMAIN s /\ i <= n /\ p[i] = s[i]
        /\ \A i \in DOMAIN r : n + i \in DOMAIN s /\ i \in Nat /\ i > 0 /\ r[i] = s[n + i]
    BY CutElements
  <1>. HIDE DEF p, r
  <1>2. Increasing(p)
    BY <1>1 DEF Increasing
  <1>3. Increasing(r)
    BY <1>0, <1>1 DEF Increasing
  <1>4. Below(ToSet(p), ToSet(r))
    BY <1>0, <1>1 DEF Increasing, Below, ToSet
  <1>. QED
    BY <1>2, <1>3, <1>4 DEF p, r

LEMMA JoinIncreasing ==
  ASSUME NEW s \in Seq(Nat), NEW t \in Seq(Nat), Increasing(s), Increasing(t), Below(ToSet(s), ToSet(t))
  PROVE  Increasing(s \o t)
  <1>0. Len(s) \in Nat /\ DOMAIN (s \o t) \subseteq Nat
    BY ConcatElements, LenProperties
  <1>1. \A i \in DOMAIN (s \o t) : (i \in DOMAIN s /\ (s \o t)[i] = s[i])
                                    \/ (i - Len(s) \in DOMAIN t /\ i > Len(s) /\ (s \o t)[i] = t[i - Len(s)])
    <2>1. ASSUME NEW i \in DOMAIN (s \o t), i - Len(s) \in DOMAIN t PROVE (s \o t)[i] = t[i - Len(s)]
      <3>1. (s \o t)[Len(s) + (i - Len(s))] = t[i - Len(s)] /\ Len(s) + (i - Len(s)) = i
        BY <1>0, <2>1, ConcatSecond
      <3>. QED
        BY <3>1
    <2>. QED
      BY <2>1, ConcatElements
  <1>2. DOMAIN s = 1 .. Len(s) /\ DOMAIN t \subseteq Nat
    BY LenProperties
  <1>. SUFFICES ASSUME NEW i \in DOMAIN (s \o t), NEW j \in DOMAIN (s \o t), i < j PROVE (s \o t)[i] < (s \o t)[j]
    BY DEF Increasing
  <1>3. CASE i \in DOMAIN s /\ (s \o t)[i] = s[i]
    <2>1. CASE j \in DOMAIN s /\ (s \o t)[j] = s[j]
      BY <1>3, <2>1 DEF Increasing
    <2>2. CASE j - Len(s) \in DOMAIN t /\ (s \o t)[j] = t[j - Len(s)]
      BY <1>3, <2>2 DEF Below, ToSet
    <2>. QED
      BY <1>1, <2>1, <2>2
  <1>4. CASE i - Len(s) \in DOMAIN t /\ i > Len(s) /\ (s \o t)[i] = t[i - Len(s)]
    <2>1. j - Len(s) \in DOMAIN t /\ (s \o t)[j] = t[j - Len(s)] /\ i - Len(s) < j - Len(s)
      BY <1>0, <1>1, <1>2, <1>4
    <2>. QED
      BY <1>4, <2>1 DEF Increasing
  <1>. QED
    BY <1>1, <1>3, <1>4

LEMMA CutInTurn ==
  ASSUME NEW s \in Seq(Terminals \X Nat), NEW n \in 0 .. Len(s), InTurn(s)
  PROVE  /\ InTurn(SubSeq(s, 1, n)) /\ InTurn(SubSeq(s, n + 1, Len(s)))
         /\ BelowInTurn(ToSet(SubSeq(s, 1, n)), ToSet(SubSeq(s, n + 1, Len(s))))
  <1>. DEFINE p == SubSeq(s, 1, n)
              r == SubSeq(s, n + 1, Len(s))
  <1>0. Len(s) \in Nat /\ n \in Nat /\ DOMAIN s \subseteq Nat
    BY LenProperties
  <1>1. /\ \A i \in DOMAIN p : i \in DOMAIN s /\ i <= n /\ p[i] = s[i]
        /\ \A i \in DOMAIN r : n + i \in DOMAIN s /\ i \in Nat /\ i > 0 /\ r[i] = s[n + i]
    BY CutElements
  <1>. HIDE DEF p, r
  <1>2. InTurn(p)
    BY <1>1 DEF InTurn
  <1>3. InTurn(r)
    <2>1. ASSUME NEW i \in DOMAIN r, NEW j \in DOMAIN r, i < j, r[i][1] = r[j][1] PROVE r[i][2] < r[j][2]
      <3>1. n + i \in DOMAIN s /\ n + j \in DOMAIN s /\ n + i < n + j /\ r[i] = s[n + i] /\ r[j] = s[n + j]
        BY <1>0, <1>1, <2>1
      <3>. QED
        BY <2>1, <3>1 DEF InTurn
    <2>. QED
      BY <2>1 DEF InTurn
  <1>4. BelowInTurn(ToSet(p), ToSet(r))
    <2>1. ASSUME NEW x \in ToSet(p), NEW y \in ToSet(r), x[1] = y[1] PROVE x[2] < y[2]
      <3>1. PICK i \in DOMAIN p, j \in DOMAIN r : x = p[i] /\ y = r[j]
        BY DEF ToSet
      <3>2. i \in DOMAIN s /\ n + j \in DOMAIN s /\ i < n + j /\ x = s[i] /\ y = s[n + j]
        BY <1>0, <1>1, <3>1
      <3>. QED
        BY <2>1, <3>2 DEF InTurn
    <2>. QED
      BY <2>1 DEF BelowInTurn
  <1>. QED
    BY <1>2, <1>3, <1>4 DEF p, r

LEMMA JoinInTurn ==
  ASSUME NEW s \in Seq(Terminals \X Nat), NEW t \in Seq(Terminals \X Nat), InTurn(s), InTurn(t), BelowInTurn(ToSet(s), ToSet(t))
  PROVE  InTurn(s \o t)
  <1>0. Len(s) \in Nat /\ DOMAIN (s \o t) \subseteq Nat
    BY ConcatElements, LenProperties
  <1>1. \A i \in DOMAIN (s \o t) : (i \in DOMAIN s /\ (s \o t)[i] = s[i])
                                    \/ (i - Len(s) \in DOMAIN t /\ i > Len(s) /\ (s \o t)[i] = t[i - Len(s)])
    <2>1. ASSUME NEW i \in DOMAIN (s \o t), i - Len(s) \in DOMAIN t PROVE (s \o t)[i] = t[i - Len(s)]
      <3>1. (s \o t)[Len(s) + (i - Len(s))] = t[i - Len(s)] /\ Len(s) + (i - Len(s)) = i
        BY <1>0, <2>1, ConcatSecond
      <3>. QED
        BY <3>1
    <2>. QED
      BY <2>1, ConcatElements
  <1>2. DOMAIN s = 1 .. Len(s) /\ DOMAIN t \subseteq Nat
    BY LenProperties
  <1>. SUFFICES ASSUME NEW i \in DOMAIN (s \o t), NEW j \in DOMAIN (s \o t), i < j, (s \o t)[i][1] = (s \o t)[j][1]
                PROVE  (s \o t)[i][2] < (s \o t)[j][2]
    BY DEF InTurn
  <1>3. CASE i \in DOMAIN s /\ (s \o t)[i] = s[i]
    <2>1. CASE j \in DOMAIN s /\ (s \o t)[j] = s[j]
      BY <1>3, <2>1 DEF InTurn
    <2>2. CASE j - Len(s) \in DOMAIN t /\ (s \o t)[j] = t[j - Len(s)]
      BY <1>3, <2>2 DEF BelowInTurn, ToSet
    <2>. QED
      BY <1>1, <2>1, <2>2
  <1>4. CASE i - Len(s) \in DOMAIN t /\ i > Len(s) /\ (s \o t)[i] = t[i - Len(s)]
    <2>1. j - Len(s) \in DOMAIN t /\ (s \o t)[j] = t[j - Len(s)] /\ i - Len(s) < j - Len(s)
      BY <1>0, <1>1, <1>2, <1>4
    <2>. QED
      BY <1>4, <2>1 DEF InTurn
  <1>. QED
    BY <1>1, <1>3, <1>4

LEMMA FreshElements ==
  ASSUME NEW from \in Nat, NEW n \in Nat
  PROVE  /\ Fresh(from, n) \in Seq(Nat) /\ Len(Fresh(from, n)) = n
         /\ Increasing(Fresh(from, n)) /\ ToSet(Fresh(from, n)) = from + 1 .. from + n
  <1>1. Fresh(from, n) \in Seq(Nat) /\ Len(Fresh(from, n)) = n /\ DOMAIN Fresh(from, n) = 1 .. n
    BY DEF Fresh
  <1>2. Increasing(Fresh(from, n))
    BY DEF Fresh, Increasing
  <1>3. ASSUME NEW x \in ToSet(Fresh(from, n)) PROVE x \in from + 1 .. from + n
    BY <1>1 DEF ToSet, Fresh
  <1>4. ASSUME NEW x \in from + 1 .. from + n PROVE x \in ToSet(Fresh(from, n))
    <2>1. x - from \in 1 .. n /\ Fresh(from, n)[x - from] = x
      BY DEF Fresh
    <2>. QED
      BY <1>1, <2>1 DEF ToSet
  <1>. QED
    BY <1>1, <1>2, <1>3, <1>4

\* The keys that reached a program, or wait in the guard or before it.
KeysOf(a, b, c) == ToSet(a) \cup ToSet(b) \cup ToSet(c)
Orderly(a, b, c) ==
  /\ Increasing(a) /\ Increasing(b) /\ Increasing(c)
  /\ Below(ToSet(a), ToSet(b)) /\ Below(ToSet(a), ToSet(c)) /\ Below(ToSet(b), ToSet(c))

LEMMA OrderlyRead ==
  ASSUME NEW a \in Seq(Nat), NEW b \in Seq(Nat), NEW c \in Seq(Nat), NEW n \in 0 .. Len(b), Orderly(a, b, c)
  PROVE  /\ Orderly(a \o SubSeq(b, 1, n), SubSeq(b, n + 1, Len(b)), c)
         /\ KeysOf(a \o SubSeq(b, 1, n), SubSeq(b, n + 1, Len(b)), c) = KeysOf(a, b, c)
  <1>. DEFINE p == SubSeq(b, 1, n)
              r == SubSeq(b, n + 1, Len(b))
  <1>1. /\ p \in Seq(Nat) /\ r \in Seq(Nat) /\ ToSet(b) = ToSet(p) \cup ToSet(r)
        /\ Increasing(p) /\ Increasing(r) /\ Below(ToSet(p), ToSet(r))
    BY CutElements, CutIncreasing DEF Orderly
  <1>. HIDE DEF p, r
  <1>2. a \o p \in Seq(Nat) /\ ToSet(a \o p) = ToSet(a) \cup ToSet(p)
    BY <1>1, ConcatSet
  <1>3. Increasing(a \o p)
    BY <1>1, JoinIncreasing DEF Orderly, Below
  <1>4. Orderly(a \o p, r, c)
    BY <1>1, <1>2, <1>3 DEF Orderly, Below
  <1>5. KeysOf(a \o p, r, c) = KeysOf(a, b, c)
    BY <1>1, <1>2 DEF KeysOf
  <1>. QED
    BY <1>4, <1>5 DEF p, r

LEMMA OrderlyTaken ==
  ASSUME NEW a \in Seq(Nat), NEW b \in Seq(Nat), NEW c \in Seq(Nat), NEW n \in 0 .. Len(c), Orderly(a, b, c)
  PROVE  /\ Orderly(a, b \o SubSeq(c, 1, n), SubSeq(c, n + 1, Len(c)))
         /\ KeysOf(a, b \o SubSeq(c, 1, n), SubSeq(c, n + 1, Len(c))) = KeysOf(a, b, c)
  <1>. DEFINE p == SubSeq(c, 1, n)
              r == SubSeq(c, n + 1, Len(c))
  <1>1. /\ p \in Seq(Nat) /\ r \in Seq(Nat) /\ ToSet(c) = ToSet(p) \cup ToSet(r)
        /\ Increasing(p) /\ Increasing(r) /\ Below(ToSet(p), ToSet(r))
    BY CutElements, CutIncreasing DEF Orderly
  <1>. HIDE DEF p, r
  <1>2. b \o p \in Seq(Nat) /\ ToSet(b \o p) = ToSet(b) \cup ToSet(p)
    BY <1>1, ConcatSet
  <1>3. Increasing(b \o p)
    BY <1>1, JoinIncreasing DEF Orderly, Below
  <1>4. Orderly(a, b \o p, r)
    BY <1>1, <1>2, <1>3 DEF Orderly, Below
  <1>5. KeysOf(a, b \o p, r) = KeysOf(a, b, c)
    BY <1>1, <1>2 DEF KeysOf
  <1>. QED
    BY <1>4, <1>5 DEF p, r

LEMMA OrderlyGiven ==
  ASSUME NEW a \in Seq(Nat), NEW b \in Seq(Nat), NEW c \in Seq(Nat), NEW p \in Seq(Nat), Orderly(a, b, c), Increasing(p),
         Below(KeysOf(a, b, c), ToSet(p))
  PROVE  Orderly(a, b, c \o p) /\ KeysOf(a, b, c \o p) = KeysOf(a, b, c) \cup ToSet(p)
  <1>2. c \o p \in Seq(Nat) /\ ToSet(c \o p) = ToSet(c) \cup ToSet(p)
    BY ConcatSet
  <1>3. Increasing(c \o p)
    BY JoinIncreasing DEF Orderly, Below, KeysOf
  <1>4. Orderly(a, b, c \o p)
    BY <1>2, <1>3 DEF Orderly, Below, KeysOf
  <1>5. KeysOf(a, b, c \o p) = KeysOf(a, b, c) \cup ToSet(p)
    BY <1>2 DEF KeysOf
  <1>. QED
    BY <1>4, <1>5

-----------------------------------------------------------------------------
Passed(t) == KeysOf(received[t], mImplToCont[t], implIn[t])

AllPassed == UNION {Passed(t) : t \in Terminals}

KeysRead == (1 .. keysTaken) \ discarded

KeysInv ==
  /\ \A t \in Terminals : Orderly(received[t], mImplToCont[t], implIn[t]) /\ Below(Passed(t), ToSet(mTermToApp))
  /\ Increasing(mTermToApp)
  /\ AllPassed \cup ToSet(mTermToApp) \cup consumed = KeysRead
  /\ \A t, u \in Terminals : t # u => Passed(t) \cap Passed(u) = {}

\* Output of one program: what the console took, and what it did not yet.
OutputOrderly(t, gone, a, b) ==
  /\ Increasing(a) /\ Increasing(b) /\ Below(ToSet(a), ToSet(b))
  /\ Below(OutputOf(t, gone), ToSet(a) \cup ToSet(b))

OutputInv ==
  /\ InTurn(shown) /\ InTurn(mAppToTerm) /\ BelowInTurn(ToSet(shown), ToSet(mAppToTerm))
  /\ \A t \in Terminals :
       /\ OutputOrderly(t, ToSet(shown) \cup ToSet(mAppToTerm), implOut[t], mContToImpl[t])
       /\ OutputOf(t, ToSet(shown) \cup ToSet(mAppToTerm) \cup missed) \cup ToSet(implOut[t]) \cup ToSet(mContToImpl[t])
            = 1 .. produced[t]

TerminalInv == TerminalTypeOK /\ PolledToWrite /\ KeysInv /\ OutputInv

KeysFrame == UNCHANGED <<received, mImplToCont, implIn, mTermToApp, consumed, ttyVars>>
OutputFrame == UNCHANGED <<shown, mAppToTerm, implOut, mContToImpl, missed, produced>>

LEMMA KeysStay ==
  ASSUME KeysInv, KeysFrame
  PROVE  KeysInv'
  BY DEF KeysInv, KeysFrame, Passed, AllPassed, KeysRead, ttyVars

LEMMA OutputStays ==
  ASSUME OutputInv, OutputFrame
  PROVE  OutputInv'
  BY DEF OutputInv, OutputFrame

\* Keys move on within one terminal.
LEMMA KeysMove ==
  ASSUME KeysInv, UNCHANGED <<mTermToApp, consumed, ttyVars>>,
         \A t \in Terminals : Orderly(received'[t], mImplToCont'[t], implIn'[t]) /\ Passed(t)' = Passed(t)
  PROVE  KeysInv'
  <1>1. AllPassed' = AllPassed
    BY DEF AllPassed
  <1>2. KeysRead' = KeysRead
    BY DEF KeysRead, ttyVars
  <1>. QED
    BY <1>1, <1>2 DEF KeysInv

LEMMA PassedIsCounted ==
  ASSUME NEW t \in Terminals
  PROVE  Passed(t) \subseteq AllPassed
  BY DEF AllPassed

Typed(t) ==
  /\ mImplToCont[t] \in Seq(Nat) /\ mContToImpl[t] \in Seq(Nat) /\ implIn[t] \in Seq(Nat) /\ implOut[t] \in Seq(Nat)
  /\ received[t] \in Seq(Nat) /\ produced[t] \in Nat
  /\ Len(mImplToCont[t]) \in Nat /\ Len(mContToImpl[t]) \in Nat /\ Len(implIn[t]) \in Nat /\ Len(implOut[t]) \in Nat
  /\ Len(mImplToCont[t]) <= IO_BUFFER_SIZE /\ Len(mContToImpl[t]) <= IO_BUFFER_SIZE
  /\ IO_BUFFER_SIZE \in Nat /\ PtyCapacity \in Nat

LEMMA TerminalTyped ==
  ASSUME TerminalTypeOK, NEW t \in Terminals
  PROVE  Typed(t)
  <1>1. /\ mImplToCont[t] \in Seq(Nat) /\ mContToImpl[t] \in Seq(Nat) /\ implIn[t] \in Seq(Nat) /\ implOut[t] \in Seq(Nat)
        /\ received[t] \in Seq(Nat) /\ produced[t] \in Nat
        /\ Len(mImplToCont[t]) <= IO_BUFFER_SIZE /\ Len(mContToImpl[t]) <= IO_BUFFER_SIZE
    BY DEF TerminalTypeOK
  <1>2. /\ Len(mImplToCont[t]) \in Nat /\ Len(mContToImpl[t]) \in Nat /\ Len(implIn[t]) \in Nat /\ Len(implOut[t]) \in Nat
    BY <1>1, LenProperties
  <1>. QED
    BY <1>1, <1>2, TerminalAssumption DEF Typed

LEMMA PolledTyped ==
  ASSUME TerminalTypeOK, NEW t \in Terminals, NEW s \in Sides, NEW ev \in {"IN", "OUT"}
  PROVE  /\ Polls(t, s, ev) \in [Terminals -> [Sides -> {"IN", "OUT"}]] /\ Polls(t, s, ev)[t][s] = ev
         /\ \A u \in Terminals, r \in Sides : u # t \/ r # s => Polls(t, s, ev)[u][r] = polled[u][r]
  BY DEF TerminalTypeOK, Polls

LEMMA PolledStays ==
  ASSUME TerminalTypeOK, NEW t \in Terminals, NEW s \in Sides,
         polled' = polled \/ polled' = Polls(t, s, "IN") \/ polled' = Polls(t, s, "OUT")
  PROVE  /\ polled' \in [Terminals -> [Sides -> {"IN", "OUT"}]]
         /\ \A u \in Terminals, r \in Sides : u # t \/ r # s => polled'[u][r] = polled[u][r]
  <1>1. CASE polled' = polled
    BY <1>1 DEF TerminalTypeOK
  <1>2. CASE polled' = Polls(t, s, "IN")
    BY <1>2, PolledTyped
  <1>3. CASE polled' = Polls(t, s, "OUT")
    BY <1>3, PolledTyped
  <1>. QED
    BY <1>1, <1>2, <1>3

LEMMA EventsTyped ==
  ASSUME TerminalTypeOK, NEW t \in Terminals, NEW s, NEW ev, Dispatched(t, s, ev)
  PROVE  events' \in [Terminals -> SUBSET (Sides \X {"IN", "OUT"})]
  BY DEF TerminalTypeOK, Dispatched

LEMMA EmptyIsShort ==
  ASSUME NEW S, NEW s \in Seq(S)
  PROVE  s = <<>> <=> Len(s) = 0
  BY EmptySeq

LEMMA ContOutStep ==
  ASSUME TerminalInv, NEW t \in Terminals, ContOut(t)
  PROVE  TerminalInv'
  <1>1. PICK n \in 0 .. Len(mImplToCont[t]) :
          /\ received' = [received EXCEPT ![t] = @ \o SubSeq(mImplToCont[t], 1, n)]
          /\ mImplToCont' = [mImplToCont EXCEPT ![t] = Rest(mImplToCont[t], n)]
          /\ polled' = AfterWrite(t, "cont", Rest(mImplToCont[t], n))
    BY DEF ContOut
  <1>. DEFINE a == received[t]
              b == mImplToCont[t]
              c == implIn[t]
              p == SubSeq(b, 1, n)
              r == SubSeq(b, n + 1, Len(b))
  <1>2. UNCHANGED <<mContToImpl, consoleVars, implIn, implOut, ttyVars, produced, shown, consumed, missed>>
        /\ Dispatched(t, "cont", "OUT")
    BY DEF ContOut
  <1>3. Typed(t) /\ TerminalTypeOK
    BY TerminalTyped DEF TerminalInv
  <1>4. p \in Seq(Nat) /\ r \in Seq(Nat) /\ Len(r) = Len(b) - n /\ a \o p \in Seq(Nat)
    <2>1. a \in Seq(Nat) /\ b \in Seq(Nat)
      BY <1>3 DEF Typed
    <2>2. p \in Seq(Nat) /\ r \in Seq(Nat) /\ Len(r) = Len(b) - n
      BY <2>1, CutElements
    <2>. HIDE DEF a, p
    <2>. QED
      BY <2>1, <2>2, ConcatSet
  <1>5. Orderly(a \o p, r, c) /\ KeysOf(a \o p, r, c) = KeysOf(a, b, c)
    BY <1>3, OrderlyRead DEF Typed, TerminalInv, KeysInv
  <1>6. /\ received' = [received EXCEPT ![t] = a \o p] /\ mImplToCont' = [mImplToCont EXCEPT ![t] = r]
        /\ polled' = IF r = <<>> THEN Polls(t, "cont", "IN") ELSE polled
    BY <1>1 DEF Rest, AfterWrite
  <1>7. r # <<>> => b # <<>>
    <2>1. Len(b) \in Nat /\ n \in Nat /\ Len(r) \in Nat
      BY <1>3, <1>4, LenProperties DEF Typed
    <2>2. b = <<>> => Len(b) = 0
      OBVIOUS
    <2>. HIDE DEF r, b
    <2>3. b = <<>> => Len(r) = 0
      BY <1>4, <2>1, <2>2
    <2>. QED
      BY <1>4, <2>3, EmptyIsShort
  <1>8. polled' \in [Terminals -> [Sides -> {"IN", "OUT"}]]
        /\ \A u \in Terminals, s \in Sides : u # t \/ s # "cont" => polled'[u][s] = polled[u][s]
    <2>1. "cont" \in Sides /\ (polled' = polled \/ polled' = Polls(t, "cont", "IN"))
      BY <1>6 DEF Sides
    <2>. QED
      BY <1>3, <2>1, PolledStays
  <1>9. polled'[t]["cont"] = "OUT" <=> r # <<>>
    BY <1>3, <1>6, <1>7, PolledTyped DEF Sides, TerminalInv, PolledToWrite
  <1>10. Len(r) <= IO_BUFFER_SIZE
    <2>1. Len(b) \in Nat /\ n \in Nat /\ Len(b) <= IO_BUFFER_SIZE /\ IO_BUFFER_SIZE \in Nat
      BY <1>3 DEF Typed
    <2>. QED
      BY <1>4, <2>1
  <1>. HIDE DEF a, b, c, p, r
  <1>11. /\ received'[t] = a \o p /\ mImplToCont'[t] = r /\ implIn' = implIn
         /\ \A u \in Terminals : u # t => received'[u] = received[u] /\ mImplToCont'[u] = mImplToCont[u]
    BY <1>2, <1>3, <1>6 DEF TerminalTypeOK
  <1>12. TerminalTypeOK'
    <2>1. received' \in [Terminals -> Seq(Nat)] /\ mImplToCont' \in [Terminals -> Seq(Nat)]
      BY <1>3, <1>4, <1>6 DEF TerminalTypeOK
    <2>2. \A u \in Terminals : Len(mImplToCont'[u]) <= IO_BUFFER_SIZE
      BY <1>3, <1>10, <1>11 DEF TerminalTypeOK
    <2>3. events' \in [Terminals -> SUBSET (Sides \X {"IN", "OUT"})]
      BY <1>2, <1>3, EventsTyped
    <2>. QED
      BY <1>2, <1>3, <1>8, <2>1, <2>2, <2>3 DEF TerminalTypeOK, ttyVars, consoleVars
  <1>13. PolledToWrite'
    BY <1>2, <1>8, <1>9, <1>11 DEF TerminalInv, PolledToWrite, consoleVars, Sides
  <1>14. KeysInv'
    <2>1. ASSUME NEW u \in Terminals PROVE Orderly(received'[u], mImplToCont'[u], implIn'[u]) /\ Passed(u)' = Passed(u)
      BY <1>5, <1>11 DEF Passed, TerminalInv, KeysInv, a, b, c
    <2>. QED
      BY <1>2, <2>1, KeysMove DEF TerminalInv, consoleVars
  <1>15. OutputInv'
    BY <1>2, OutputStays DEF TerminalInv, OutputFrame, consoleVars
  <1>. QED
    BY <1>12, <1>13, <1>14, <1>15 DEF TerminalInv

LEMMA LeftOver ==
  ASSUME NEW S, NEW b \in Seq(S), NEW n \in 0 .. Len(b)
  PROVE  /\ SubSeq(b, n + 1, Len(b)) # <<>> <=> n < Len(b)
         /\ SubSeq(b, n + 1, Len(b)) # <<>> => b # <<>>
  <1>1. Len(b) \in Nat /\ n \in Nat /\ n <= Len(b)
    BY LenProperties
  <1>. DEFINE r == SubSeq(b, n + 1, Len(b))
  <1>2. r \in Seq(S) /\ Len(r) = Len(b) - n
    BY CutElements
  <1>. HIDE DEF r
  <1>3. r = <<>> <=> Len(r) = 0
    BY <1>2, EmptyIsShort
  <1>4. b = <<>> <=> Len(b) = 0
    BY EmptyIsShort
  <1>5. r # <<>> <=> n < Len(b)
    BY <1>1, <1>2, <1>3
  <1>6. r # <<>> => b # <<>>
    BY <1>1, <1>4, <1>5
  <1>. QED
    BY <1>5, <1>6 DEF r

LEMMA Grown ==
  ASSUME NEW S, NEW b \in Seq(S), NEW p \in Seq(S)
  PROVE  /\ b \o p \in Seq(S) /\ Len(b \o p) = Len(b) + Len(p)
         /\ (b \o p # <<>> <=> b # <<>> \/ Len(p) > 0)
         /\ (Len(p) = 0 => b \o p = b)
  <1>1. b \o p \in Seq(S) /\ Len(b \o p) = Len(b) + Len(p) /\ Len(b) \in Nat /\ Len(p) \in Nat
    BY ConcatProperties, LenProperties
  <1>2. (b = <<>> <=> Len(b) = 0) /\ (p = <<>> <=> Len(p) = 0)
    BY EmptyIsShort
  <1>3. b \o p = <<>> <=> Len(b \o p) = 0
    BY <1>1, EmptyIsShort
  <1>4. Len(p) = 0 => b \o p = b
    BY <1>2, ConcatEmptySeq
  <1>5. b \o p # <<>> <=> b # <<>> \/ Len(p) > 0
    BY <1>1, <1>2, <1>3
  <1>. QED
    BY <1>1, <1>4, <1>5

LEMMA GuardPollStep ==
  ASSUME TerminalInv, NEW t \in Terminals, GuardPoll(t)
  PROVE  TerminalInv'
  <1>1. PICK batch \in SUBSET {<<s, polled[t][s]>> : s \in Sides} : events' = [events EXCEPT ![t] = batch]
    BY DEF GuardPoll
  <1>2. UNCHANGED <<mImplToCont, mContToImpl, polled, consoleVars, implIn, implOut, endVars>>
    BY DEF GuardPoll
  <1>3. batch \in SUBSET (Sides \X {"IN", "OUT"})
    BY <1>1 DEF TerminalInv, TerminalTypeOK
  <1>4. TerminalTypeOK'
    BY <1>1, <1>2, <1>3 DEF TerminalInv, TerminalTypeOK, ttyVars, consoleVars, endVars
  <1>5. PolledToWrite' /\ KeysFrame /\ OutputFrame
    BY <1>2 DEF TerminalInv, PolledToWrite, KeysFrame, OutputFrame, consoleVars, endVars
  <1>. QED
    BY <1>4, <1>5, KeysStay, OutputStays DEF TerminalInv

LEMMA ImplInStep ==
  ASSUME TerminalInv, NEW t \in Terminals, ImplIn(t)
  PROVE  TerminalInv'
  <1>1. PICK n \in 0 .. smaller(Avail(mImplToCont[t]), Len(implIn[t])) :
          /\ mImplToCont' = [mImplToCont EXCEPT ![t] = @ \o SubSeq(implIn[t], 1, n)]
          /\ implIn' = [implIn EXCEPT ![t] = SubSeq(@, n + 1, Len(@))]
          /\ polled' = IF n > 0 THEN Polls(t, "cont", "OUT") ELSE polled
    BY DEF ImplIn
  <1>. DEFINE a == received[t]
              b == mImplToCont[t]
              c == implIn[t]
              p == SubSeq(c, 1, n)
              r == SubSeq(c, n + 1, Len(c))
  <1>2. UNCHANGED <<mContToImpl, consoleVars, implOut, endVars>> /\ Dispatched(t, "impl", "IN")
    BY DEF ImplIn
  <1>3. Typed(t) /\ TerminalTypeOK
    BY TerminalTyped DEF TerminalInv
  <1>4. n \in Nat /\ n <= Len(c) /\ n <= IO_BUFFER_SIZE - Len(b) /\ n \in 0 .. Len(c)
    BY <1>1, <1>3 DEF Typed, smaller, Avail
  <1>5. a \in Seq(Nat) /\ b \in Seq(Nat) /\ c \in Seq(Nat)
    BY <1>3 DEF Typed
  <1>6. p \in Seq(Nat) /\ r \in Seq(Nat) /\ Len(p) = n
    BY <1>4, <1>5, CutElements
  <1>7. Orderly(a, b \o p, r) /\ KeysOf(a, b \o p, r) = KeysOf(a, b, c)
    BY <1>4, <1>5, OrderlyTaken DEF TerminalInv, KeysInv
  <1>8. mImplToCont' = [mImplToCont EXCEPT ![t] = b \o p] /\ implIn' = [implIn EXCEPT ![t] = r]
    BY <1>1
  <1>9. polled' \in [Terminals -> [Sides -> {"IN", "OUT"}]]
        /\ \A u \in Terminals, s \in Sides : u # t \/ s # "cont" => polled'[u][s] = polled[u][s]
    <2>1. "cont" \in Sides /\ (polled' = polled \/ polled' = Polls(t, "cont", "OUT"))
      BY <1>1 DEF Sides
    <2>. QED
      BY <1>3, <2>1, PolledStays
  <1>10. polled[t]["cont"] = "OUT" <=> b # <<>>
    BY DEF TerminalInv, PolledToWrite
  <1>. HIDE DEF a, b, c, p, r
  <1>11. b \o p \in Seq(Nat) /\ Len(b \o p) = Len(b) + n /\ (b \o p # <<>> <=> b # <<>> \/ n > 0)
    BY <1>5, <1>6, Grown
  <1>12. polled'[t]["cont"] = "OUT" <=> b \o p # <<>>
    <2>1. CASE n > 0
      BY <1>1, <1>3, <1>11, <2>1, PolledTyped DEF Sides
    <2>2. CASE ~(n > 0)
      BY <1>1, <1>10, <1>11, <2>2
    <2>. QED
      BY <2>1, <2>2
  <1>13. Len(b \o p) <= IO_BUFFER_SIZE
    <2>1. Len(b) \in Nat /\ IO_BUFFER_SIZE \in Nat
      BY <1>3 DEF Typed, b
    <2>. QED
      BY <1>4, <1>11, <2>1
  <1>14. /\ mImplToCont'[t] = b \o p /\ implIn'[t] = r /\ received' = received
         /\ \A u \in Terminals : u # t => implIn'[u] = implIn[u] /\ mImplToCont'[u] = mImplToCont[u]
    BY <1>2, <1>3, <1>8 DEF TerminalTypeOK, endVars
  <1>15. TerminalTypeOK'
    <2>1. implIn' \in [Terminals -> Seq(Nat)] /\ mImplToCont' \in [Terminals -> Seq(Nat)]
      BY <1>3, <1>6, <1>8, <1>11 DEF TerminalTypeOK
    <2>2. \A u \in Terminals : Len(mImplToCont'[u]) <= IO_BUFFER_SIZE
      BY <1>3, <1>13, <1>14 DEF TerminalTypeOK
    <2>3. events' \in [Terminals -> SUBSET (Sides \X {"IN", "OUT"})]
      BY <1>2, <1>3, EventsTyped
    <2>. QED
      BY <1>2, <1>3, <1>9, <2>1, <2>2, <2>3 DEF TerminalTypeOK, ttyVars, consoleVars, endVars
  <1>16. PolledToWrite'
    BY <1>2, <1>9, <1>12, <1>14 DEF TerminalInv, PolledToWrite, consoleVars, Sides
  <1>17. KeysInv'
    <2>1. ASSUME NEW u \in Terminals PROVE Orderly(received'[u], mImplToCont'[u], implIn'[u]) /\ Passed(u)' = Passed(u)
      BY <1>7, <1>14 DEF Passed, TerminalInv, KeysInv, a, b, c
    <2>. QED
      BY <1>2, <2>1, KeysMove DEF TerminalInv, consoleVars, endVars
  <1>18. OutputInv'
    BY <1>2, OutputStays DEF TerminalInv, OutputFrame, consoleVars, endVars
  <1>. QED
    BY <1>15, <1>16, <1>17, <1>18 DEF TerminalInv

-----------------------------------------------------------------------------
\* Output on its way.
TwoOrderly(a, b) == Increasing(a) /\ Increasing(b) /\ Below(ToSet(a), ToSet(b))

LEMMA OutputMoved ==
  ASSUME NEW a \in Seq(Nat), NEW b \in Seq(Nat), NEW n \in 0 .. Len(b), TwoOrderly(a, b)
  PROVE  /\ TwoOrderly(a \o SubSeq(b, 1, n), SubSeq(b, n + 1, Len(b)))
         /\ ToSet(a \o SubSeq(b, 1, n)) \cup ToSet(SubSeq(b, n + 1, Len(b))) = ToSet(a) \cup ToSet(b)
  <1>. DEFINE p == SubSeq(b, 1, n)
              r == SubSeq(b, n + 1, Len(b))
  <1>1. /\ p \in Seq(Nat) /\ r \in Seq(Nat) /\ ToSet(b) = ToSet(p) \cup ToSet(r)
        /\ Increasing(p) /\ Increasing(r) /\ Below(ToSet(p), ToSet(r))
    BY CutElements, CutIncreasing DEF TwoOrderly
  <1>. HIDE DEF p, r
  <1>2. ToSet(a \o p) = ToSet(a) \cup ToSet(p)
    BY <1>1, ConcatSet
  <1>3. Increasing(a \o p)
    BY <1>1, JoinIncreasing DEF TwoOrderly, Below
  <1>4. TwoOrderly(a \o p, r)
    BY <1>1, <1>2, <1>3 DEF TwoOrderly, Below
  <1>5. ToSet(a \o p) \cup ToSet(r) = ToSet(a) \cup ToSet(b)
    BY <1>1, <1>2
  <1>. QED
    BY <1>4, <1>5 DEF p, r

LEMMA OutputGiven ==
  ASSUME NEW a \in Seq(Nat), NEW b \in Seq(Nat), NEW p \in Seq(Nat), TwoOrderly(a, b),
         Increasing(p), Below(ToSet(a) \cup ToSet(b), ToSet(p))
  PROVE  TwoOrderly(a, b \o p) /\ ToSet(b \o p) = ToSet(b) \cup ToSet(p)
  <1>1. ToSet(b \o p) = ToSet(b) \cup ToSet(p)
    BY ConcatSet
  <1>2. Increasing(b \o p)
    BY JoinIncreasing DEF TwoOrderly, Below
  <1>3. TwoOrderly(a, b \o p)
    BY <1>1, <1>2 DEF TwoOrderly, Below
  <1>. QED
    BY <1>1, <1>3

\* One program's output changes.
LEMMA OneOutput ==
  ASSUME OutputInv, NEW t \in Terminals, UNCHANGED <<shown, mAppToTerm, missed>>,
         \A u \in Terminals : u # t => implOut'[u] = implOut[u] /\ mContToImpl'[u] = mContToImpl[u] /\ produced'[u] = produced[u],
         OutputOrderly(t, ToSet(shown) \cup ToSet(mAppToTerm), implOut'[t], mContToImpl'[t]),
         OutputOf(t, ToSet(shown) \cup ToSet(mAppToTerm) \cup missed) \cup ToSet(implOut'[t]) \cup ToSet(mContToImpl'[t])
           = 1 .. produced'[t]
  PROVE  OutputInv'
  BY DEF OutputInv

LEMMA ImplOutStep ==
  ASSUME TerminalInv, NEW t \in Terminals, ImplOut(t)
  PROVE  TerminalInv'
  <1>1. PICK n \in 0 .. smaller(PtyCapacity - Len(implOut[t]), Len(mContToImpl[t])) :
          /\ implOut' = [implOut EXCEPT ![t] = @ \o SubSeq(mContToImpl[t], 1, n)]
          /\ mContToImpl' = [mContToImpl EXCEPT ![t] = Rest(mContToImpl[t], n)]
          /\ polled' = AfterWrite(t, "impl", Rest(mContToImpl[t], n))
    BY DEF ImplOut
  <1>. DEFINE S == ToSet(shown) \cup ToSet(mAppToTerm)
              a == implOut[t]
              b == mContToImpl[t]
              p == SubSeq(b, 1, n)
              r == SubSeq(b, n + 1, Len(b))
  <1>2. UNCHANGED <<mImplToCont, consoleVars, implIn, endVars>> /\ Dispatched(t, "impl", "OUT")
    BY DEF ImplOut
  <1>3. Typed(t) /\ TerminalTypeOK
    BY TerminalTyped DEF TerminalInv
  <1>4. n \in Nat /\ n <= Len(b) /\ n \in 0 .. Len(b)
    BY <1>1, <1>3 DEF Typed, smaller
  <1>5. a \in Seq(Nat) /\ b \in Seq(Nat)
    BY <1>3 DEF Typed
  <1>6. p \in Seq(Nat) /\ r \in Seq(Nat) /\ Len(p) = n /\ Len(r) = Len(b) - n
    BY <1>4, <1>5, CutElements
  <1>7. OutputOrderly(t, S, a \o p, r) /\ ToSet(a \o p) \cup ToSet(r) = ToSet(a) \cup ToSet(b)
    <2>1. OutputOrderly(t, S, a, b)
      BY DEF TerminalInv, OutputInv
    <2>2. TwoOrderly(a, b) /\ Below(OutputOf(t, S), ToSet(a) \cup ToSet(b))
      BY <2>1 DEF OutputOrderly, TwoOrderly
    <2>3. TwoOrderly(a \o p, r) /\ ToSet(a \o p) \cup ToSet(r) = ToSet(a) \cup ToSet(b)
      BY <1>4, <1>5, <2>2, OutputMoved
    <2>. HIDE DEF S, a, b, p, r
    <2>. QED
      BY <2>2, <2>3 DEF OutputOrderly, TwoOrderly
  <1>8. implOut' = [implOut EXCEPT ![t] = a \o p] /\ mContToImpl' = [mContToImpl EXCEPT ![t] = r]
        /\ polled' = IF r = <<>> THEN Polls(t, "impl", "IN") ELSE polled
    BY <1>1 DEF Rest, AfterWrite
  <1>9. polled' \in [Terminals -> [Sides -> {"IN", "OUT"}]]
        /\ \A u \in Terminals, s \in Sides : u # t \/ s # "impl" => polled'[u][s] = polled[u][s]
    <2>1. "impl" \in Sides /\ (polled' = polled \/ polled' = Polls(t, "impl", "IN"))
      BY <1>8 DEF Sides
    <2>. QED
      BY <1>3, <2>1, PolledStays
  <1>10. polled[t]["impl"] = "OUT" <=> b # <<>>
    BY DEF TerminalInv, PolledToWrite
  <1>11. r # <<>> => b # <<>>
    BY <1>4, <1>5, LeftOver
  <1>12. OutputOf(t, S \cup missed) \cup ToSet(a) \cup ToSet(b) = 1 .. produced[t]
    BY DEF TerminalInv, OutputInv
  <1>13. Len(b) \in Nat /\ IO_BUFFER_SIZE \in Nat /\ Len(b) <= IO_BUFFER_SIZE
    BY <1>3 DEF Typed
  <1>. HIDE DEF a, b, p, r
  <1>14. polled'[t]["impl"] = "OUT" <=> r # <<>>
    <2>1. CASE r = <<>>
      BY <1>3, <1>8, <2>1, PolledTyped DEF Sides
    <2>2. CASE r # <<>>
      BY <1>8, <1>10, <1>11, <2>2
    <2>. QED
      BY <2>1, <2>2
  <1>15. Len(r) <= IO_BUFFER_SIZE
    BY <1>4, <1>6, <1>13
  <1>16. a \o p \in Seq(Nat)
    BY <1>5, <1>6, ConcatSet
  <1>17. /\ implOut'[t] = a \o p /\ mContToImpl'[t] = r
         /\ \A u \in Terminals : u # t => implOut'[u] = implOut[u] /\ mContToImpl'[u] = mContToImpl[u]
    BY <1>3, <1>8 DEF TerminalTypeOK
  <1>18. TerminalTypeOK'
    <2>1. implOut' \in [Terminals -> Seq(Nat)] /\ mContToImpl' \in [Terminals -> Seq(Nat)]
      BY <1>3, <1>6, <1>8, <1>16 DEF TerminalTypeOK
    <2>2. \A u \in Terminals : Len(mContToImpl'[u]) <= IO_BUFFER_SIZE
      BY <1>3, <1>15, <1>17 DEF TerminalTypeOK
    <2>3. events' \in [Terminals -> SUBSET (Sides \X {"IN", "OUT"})]
      BY <1>2, <1>3, EventsTyped
    <2>. QED
      BY <1>2, <1>3, <1>9, <2>1, <2>2, <2>3 DEF TerminalTypeOK, ttyVars, consoleVars, endVars
  <1>19. PolledToWrite'
    BY <1>2, <1>9, <1>14, <1>17 DEF TerminalInv, PolledToWrite, consoleVars, Sides
  <1>20. KeysInv'
    BY <1>2, KeysStay DEF TerminalInv, KeysFrame, consoleVars, endVars
  <1>21. OutputInv'
    <2>1. UNCHANGED <<shown, mAppToTerm, missed, produced>>
      BY <1>2 DEF consoleVars, endVars
    <2>2. OutputOf(t, S \cup missed) \cup ToSet(a \o p) \cup ToSet(r) = 1 .. produced[t]
      BY <1>7, <1>12
    <2>. QED
      BY <1>7, <1>17, <2>1, <2>2, OneOutput DEF TerminalInv
  <1>. QED
    BY <1>18, <1>19, <1>20, <1>21 DEF TerminalInv

LEMMA ContInStep ==
  ASSUME TerminalInv, NEW t \in Terminals, ContIn(t)
  PROVE  TerminalInv'
  <1>1. PICK n \in 0 .. Avail(mContToImpl[t]) :
          /\ mContToImpl' = [mContToImpl EXCEPT ![t] = @ \o Fresh(produced[t], n)]
          /\ produced' = [produced EXCEPT ![t] = @ + n]
          /\ polled' = IF n > 0 THEN Polls(t, "impl", "OUT") ELSE polled
    BY DEF ContIn
  <1>. DEFINE S == ToSet(shown) \cup ToSet(mAppToTerm)
              a == implOut[t]
              b == mContToImpl[t]
              p == Fresh(produced[t], n)
  <1>2. UNCHANGED <<mImplToCont, consoleVars, implIn, implOut, ttyVars, received, shown, consumed, missed>> /\ Dispatched(t, "cont", "IN")
    BY DEF ContIn
  <1>3. Typed(t) /\ TerminalTypeOK
    BY TerminalTyped DEF TerminalInv
  <1>4. n \in Nat /\ n <= IO_BUFFER_SIZE - Len(b)
    BY <1>1, <1>3 DEF Typed, Avail
  <1>5. a \in Seq(Nat) /\ b \in Seq(Nat) /\ produced[t] \in Nat
    BY <1>3 DEF Typed
  <1>6. p \in Seq(Nat) /\ Len(p) = n /\ Increasing(p) /\ ToSet(p) = produced[t] + 1 .. produced[t] + n
    BY <1>4, <1>5, FreshElements
  <1>8. mContToImpl' = [mContToImpl EXCEPT ![t] = b \o p]
    BY <1>1
  <1>9. polled' \in [Terminals -> [Sides -> {"IN", "OUT"}]]
        /\ \A u \in Terminals, s \in Sides : u # t \/ s # "impl" => polled'[u][s] = polled[u][s]
    <2>1. "impl" \in Sides /\ (polled' = polled \/ polled' = Polls(t, "impl", "OUT"))
      BY <1>1 DEF Sides
    <2>. QED
      BY <1>3, <2>1, PolledStays
  <1>10. polled[t]["impl"] = "OUT" <=> b # <<>>
    BY DEF TerminalInv, PolledToWrite
  <1>12. OutputOf(t, S \cup missed) \cup ToSet(a) \cup ToSet(b) = 1 .. produced[t]
    BY DEF TerminalInv, OutputInv
  <1>13. Len(b) \in Nat /\ IO_BUFFER_SIZE \in Nat /\ Len(b) <= IO_BUFFER_SIZE
    BY <1>3 DEF Typed
  <1>70. OutputOrderly(t, S, a, b)
    BY DEF TerminalInv, OutputInv
  <1>. HIDE DEF a, b, p, S
  <1>7. OutputOrderly(t, S, a, b \o p) /\ ToSet(b \o p) = ToSet(b) \cup ToSet(p)
    <2>1. OutputOf(t, S) \subseteq OutputOf(t, S \cup missed)
      BY DEF OutputOf
    <2>2. OutputOf(t, S) \cup ToSet(a) \cup ToSet(b) \subseteq 1 .. produced[t]
      BY <1>12, <2>1
    <2>3. Below(OutputOf(t, S) \cup ToSet(a) \cup ToSet(b), ToSet(p))
      BY <1>4, <1>5, <1>6, <2>2 DEF Below
    <2>4. TwoOrderly(a, b \o p) /\ ToSet(b \o p) = ToSet(b) \cup ToSet(p)
      <3>1. TwoOrderly(a, b) /\ Below(ToSet(a) \cup ToSet(b), ToSet(p))
        BY <1>70, <2>3 DEF OutputOrderly, TwoOrderly, Below
      <3>. QED
        BY <1>5, <1>6, <3>1, OutputGiven
    <2>5. Below(OutputOf(t, S), ToSet(a) \cup ToSet(b \o p))
      BY <1>70, <2>3, <2>4 DEF OutputOrderly, Below
    <2>. QED
      BY <2>4, <2>5 DEF OutputOrderly, TwoOrderly
  <1>11. b \o p \in Seq(Nat) /\ Len(b \o p) = Len(b) + n /\ (b \o p # <<>> <=> b # <<>> \/ n > 0)
    BY <1>5, <1>6, Grown
  <1>14. polled'[t]["impl"] = "OUT" <=> b \o p # <<>>
    <2>1. CASE n > 0
      BY <1>1, <1>3, <1>11, <2>1, PolledTyped DEF Sides
    <2>2. CASE ~(n > 0)
      BY <1>1, <1>10, <1>11, <2>2
    <2>. QED
      BY <2>1, <2>2
  <1>15. Len(b \o p) <= IO_BUFFER_SIZE
    BY <1>4, <1>11, <1>13
  <1>17. /\ implOut' = implOut /\ mContToImpl'[t] = b \o p /\ produced'[t] = produced[t] + n
         /\ \A u \in Terminals : u # t => produced'[u] = produced[u] /\ mContToImpl'[u] = mContToImpl[u]
    BY <1>1, <1>2, <1>3, <1>8 DEF TerminalTypeOK
  <1>18. TerminalTypeOK'
    <2>1. produced' \in [Terminals -> Nat]
      <3>1. produced[t] + n \in Nat
        BY <1>4, <1>5
      <3>. QED
        BY <1>1, <1>3, <3>1 DEF TerminalTypeOK
    <2>4. mContToImpl' \in [Terminals -> Seq(Nat)]
      BY <1>3, <1>8, <1>11 DEF TerminalTypeOK
    <2>2. \A u \in Terminals : Len(mContToImpl'[u]) <= IO_BUFFER_SIZE
      BY <1>3, <1>15, <1>17 DEF TerminalTypeOK
    <2>3. events' \in [Terminals -> SUBSET (Sides \X {"IN", "OUT"})]
      BY <1>2, <1>3, EventsTyped
    <2>. QED
      BY <1>2, <1>3, <1>9, <2>1, <2>2, <2>3, <2>4 DEF TerminalTypeOK, ttyVars, consoleVars
  <1>19. PolledToWrite'
    BY <1>2, <1>9, <1>14, <1>17 DEF TerminalInv, PolledToWrite, consoleVars, Sides
  <1>20. KeysInv'
    BY <1>2, KeysStay DEF TerminalInv, KeysFrame, consoleVars
  <1>21. OutputInv'
    <2>1. UNCHANGED <<shown, mAppToTerm, missed>>
      BY <1>2 DEF consoleVars
    <2>2. OutputOf(t, S \cup missed) \cup ToSet(a) \cup ToSet(b \o p) = 1 .. produced[t] + n
      <3>1. (1 .. produced[t]) \cup (produced[t] + 1 .. produced[t] + n) = 1 .. produced[t] + n
        BY <1>4, <1>5
      <3>. QED
        BY <1>6, <1>7, <1>12, <3>1
    <2>3. /\ OutputOrderly(t, ToSet(shown) \cup ToSet(mAppToTerm), implOut'[t], mContToImpl'[t])
          /\ OutputOf(t, ToSet(shown) \cup ToSet(mAppToTerm) \cup missed) \cup ToSet(implOut'[t]) \cup ToSet(mContToImpl'[t])
               = 1 .. produced'[t]
      BY <1>7, <1>17, <2>2 DEF S, a
    <2>. QED
      BY <1>17, <2>1, <2>3, OneOutput DEF TerminalInv
  <1>. QED
    BY <1>18, <1>19, <1>20, <1>21 DEF TerminalInv

ConsoleTyped ==
  /\ mTermToApp \in Seq(Nat) /\ Len(mTermToApp) \in Nat /\ Len(mTermToApp) <= IO_BUFFER_SIZE
  /\ mAppToTerm \in Seq(Terminals \X Nat) /\ Len(mAppToTerm) \in Nat /\ Len(mAppToTerm) <= IO_BUFFER_SIZE
  /\ shown \in Seq(Terminals \X Nat) /\ typed \in Nat /\ keysTaken \in Nat /\ keysTaken <= typed /\ mTerminalNum \in Terminals
  /\ IO_BUFFER_SIZE \in Nat /\ PtyCapacity \in Nat

LEMMA ConsoleIsTyped ==
  ASSUME TerminalTypeOK
  PROVE  ConsoleTyped
  BY LenProperties, TerminalAssumption DEF TerminalTypeOK, ConsoleTyped

LEMMA ConsoleStartStep ==
  ASSUME TerminalInv, NEW t \in Terminals, ConsoleStart(t) \/ ConsoleError
  PROVE  TerminalInv'
  <1>1. UNCHANGED <<guardVars, mServiceMode, mTermToApp, mAppToTerm, ptyOut, stdOut, implIn, implOut, endVars>>
        /\ console' \in {"off", "on", "quit"} /\ (mTerminalNum' = t \/ mTerminalNum' = mTerminalNum)
    BY DEF ConsoleStart, ConsoleError
  <1>2. TerminalTypeOK'
    BY <1>1 DEF TerminalInv, TerminalTypeOK, ttyVars, guardVars, endVars
  <1>3. PolledToWrite' /\ KeysFrame /\ OutputFrame
    BY <1>1 DEF TerminalInv, PolledToWrite, KeysFrame, OutputFrame, guardVars, endVars
  <1>. QED
    BY <1>2, <1>3, KeysStay, OutputStays DEF TerminalInv

LEMMA EmptyElements ==
  ASSUME NEW S
  PROVE  <<>> \in Seq(S) /\ ToSet(<<>>) = {} /\ Increasing(<<>>) /\ InTurn(<<>>) /\ Len(<<>>) = 0
  BY DEF ToSet, Increasing, InTurn

\* What restoreTTY discards are keys that nobody has read.
LEMMA KeysDiscarded ==
  ASSUME TerminalTypeOK, NEW k \in {keysTaken, keysTaken + 1}, k <= typed, restoreTTY(k + 1)
  PROVE  /\ typed' \in Nat /\ keysTaken' \in 0 .. typed' /\ discarded' \subseteq 1 .. keysTaken'
         /\ KeysRead' = KeysRead \cup (keysTaken + 1 .. k)
  <1>1. typed \in Nat /\ keysTaken \in Nat /\ keysTaken <= typed /\ discarded \subseteq 1 .. keysTaken /\ k \in Nat
    BY DEF TerminalTypeOK
  <1>2. discarded' = discarded \cup (k + 1 .. typed) /\ keysTaken' = typed /\ typed' = typed
    BY DEF restoreTTY
  <1>3. discarded' \subseteq 1 .. typed
    BY <1>1, <1>2
  <1>4. ASSUME NEW x \in Nat
        PROVE  x \in (1 .. typed) \ discarded' <=> x \in ((1 .. keysTaken) \ discarded) \cup (keysTaken + 1 .. k)
    <2>1. x \in discarded => x >= 1 /\ x <= keysTaken
      BY <1>1
    <2>. QED
      BY <1>1, <1>2, <1>4, <2>1
  <1>5. (1 .. typed) \ discarded' = ((1 .. keysTaken) \ discarded) \cup (keysTaken + 1 .. k)
    BY <1>1, <1>4
  <1>. QED
    BY <1>1, <1>2, <1>3, <1>5 DEF KeysRead

LEMMA KeysReadOn ==
  ASSUME TerminalTypeOK, NEW n \in Nat, keysTaken + n <= typed,
         keysTaken' = keysTaken + n, UNCHANGED <<typed, discarded>>
  PROVE  /\ typed' \in Nat /\ keysTaken' \in 0 .. typed' /\ discarded' \subseteq 1 .. keysTaken'
         /\ KeysRead' = KeysRead \cup (keysTaken + 1 .. keysTaken + n)
  <1>1. typed \in Nat /\ keysTaken \in Nat /\ discarded \subseteq 1 .. keysTaken
    BY DEF TerminalTypeOK
  <1>2. (1 .. keysTaken + n) \ discarded = ((1 .. keysTaken) \ discarded) \cup (keysTaken + 1 .. keysTaken + n)
    BY <1>1
  <1>3. discarded \subseteq 1 .. keysTaken + n
    BY <1>1
  <1>. QED
    BY <1>1, <1>2, <1>3 DEF KeysRead

LEMMA KeyTypedStep ==
  ASSUME TerminalInv, KeyTyped
  PROVE  TerminalInv'
  <1>1. /\ typed' = typed + 1
        /\ UNCHANGED <<guardVars, consoleVars, implIn, implOut, keysTaken, produced, received, shown,
                       consumed, missed, discarded>>
    BY DEF KeyTyped
  <1>2. typed' \in Nat /\ keysTaken' \in 0 .. typed'
    BY <1>1, ConsoleIsTyped DEF TerminalInv, ConsoleTyped
  <1>3. TerminalTypeOK'
    BY <1>1, <1>2 DEF TerminalInv, TerminalTypeOK, guardVars, consoleVars
  <1>4. PolledToWrite' /\ OutputFrame
    BY <1>1 DEF TerminalInv, PolledToWrite, OutputFrame, guardVars, consoleVars
  <1>5. KeysInv'
    BY <1>1 DEF TerminalInv, KeysInv, Passed, AllPassed, KeysRead, guardVars, consoleVars
  <1>. QED
    BY <1>3, <1>4, <1>5, OutputStays DEF TerminalInv

LEMMA ConsoleEndStep ==
  ASSUME TerminalInv, ConsoleEnd
  PROVE  TerminalInv'
  <1>1. /\ console' = "off" /\ mServiceMode' = FALSE
        /\ mTermToApp' = <<>> /\ mAppToTerm' = <<>> /\ ptyOut' = FALSE /\ stdOut' = FALSE
        /\ consumed' = consumed \cup ToSet(mTermToApp) /\ missed' = missed \cup ToSet(mAppToTerm)
        /\ restoreTTY(keysTaken + 1)
        /\ UNCHANGED <<guardVars, mTerminalNum, implIn, implOut, produced, received, shown>>
    BY DEF ConsoleEnd
  <1>2. ConsoleTyped /\ TerminalTypeOK
    BY ConsoleIsTyped DEF TerminalInv
  <1>3. ToSet(mTermToApp) \subseteq Nat /\ ToSet(mAppToTerm) \subseteq Terminals \X Nat
    BY <1>2, SetOfSeq DEF ConsoleTyped
  <1>4. /\ <<>> \in Seq(Nat) /\ <<>> \in Seq(Terminals \X Nat) /\ ToSet(<<>>) = {} /\ Increasing(<<>>) /\ InTurn(<<>>)
        /\ Len(<<>>) = 0
    BY EmptyElements
  <1>9. /\ typed' \in Nat /\ keysTaken' \in 0 .. typed' /\ discarded' \subseteq 1 .. keysTaken'
        /\ KeysRead' = KeysRead
    <2>1. keysTaken + 1 .. keysTaken = {} /\ keysTaken <= typed
      BY <1>2 DEF ConsoleTyped
    <2>. QED
      BY <1>1, <1>2, <2>1, KeysDiscarded
  <1>5. TerminalTypeOK'
    <2>1. Len(mTermToApp') <= IO_BUFFER_SIZE /\ Len(mAppToTerm') <= IO_BUFFER_SIZE
      BY <1>1, <1>2, <1>4 DEF ConsoleTyped
    <2>2. consumed' \subseteq Nat /\ missed' \subseteq Terminals \X Nat
      BY <1>1, <1>2, <1>3 DEF TerminalTypeOK
    <2>3. mTermToApp' \in Seq(Nat) /\ mAppToTerm' \in Seq(Terminals \X Nat)
      BY <1>1, <1>4
    <2>4. typed' \in Nat /\ keysTaken' \in 0 .. typed' /\ discarded' \subseteq 1 .. keysTaken'
      BY <1>9
    <2>. QED
      BY <1>1, <1>2, <2>1, <2>2, <2>3, <2>4 DEF TerminalTypeOK, guardVars
  <1>6. PolledToWrite'
    BY <1>1 DEF TerminalInv, PolledToWrite, guardVars
  <1>7. KeysInv'
    <2>1. \A t \in Terminals : Passed(t)' = Passed(t)
      BY <1>1 DEF Passed, guardVars
    <2>2. \A t \in Terminals : Orderly(received[t], mImplToCont[t], implIn[t])' /\ Below(Passed(t), {})
      BY <1>1 DEF TerminalInv, KeysInv, Below, guardVars
    <2>3. AllPassed \cup {} \cup consumed' = KeysRead'
      BY <1>1, <1>9 DEF TerminalInv, KeysInv
    <2>5. AllPassed' = AllPassed
      BY <2>1 DEF AllPassed
    <2>4. ToSet(mTermToApp') = {} /\ Increasing(mTermToApp')
      BY <1>1, <1>4
    <2>. QED
      BY <2>1, <2>2, <2>3, <2>4, <2>5 DEF TerminalInv, KeysInv
  <1>8. OutputInv'
    <2>1. ToSet(mAppToTerm') = {} /\ InTurn(mAppToTerm')
      BY <1>1, <1>4
    <2>2. InTurn(shown') /\ BelowInTurn(ToSet(shown'), ToSet(mAppToTerm'))
      BY <1>1, <2>1 DEF TerminalInv, OutputInv, BelowInTurn
    <2>. DEFINE S == ToSet(shown) \cup ToSet(mAppToTerm)
                S1 == ToSet(shown') \cup ToSet(mAppToTerm')
    <2>3. S1 \subseteq S /\ S1 \cup missed' = S \cup missed
      BY <1>1, <2>1
    <2>4. ASSUME NEW t \in Terminals
          PROVE  /\ OutputOrderly(t, S1, implOut'[t], mContToImpl'[t])
                 /\ OutputOf(t, S1 \cup missed') \cup ToSet(implOut'[t]) \cup ToSet(mContToImpl'[t]) = 1 .. produced'[t]
      <3>1. /\ OutputOrderly(t, S, implOut[t], mContToImpl[t])
            /\ OutputOf(t, S \cup missed) \cup ToSet(implOut[t]) \cup ToSet(mContToImpl[t]) = 1 .. produced[t]
        BY DEF TerminalInv, OutputInv
      <3>2. implOut' = implOut /\ mContToImpl' = mContToImpl /\ produced' = produced
        BY <1>1 DEF guardVars
      <3>. HIDE DEF S, S1
      <3>3. OutputOf(t, S1) \subseteq OutputOf(t, S)
        BY <2>3 DEF OutputOf
      <3>4. OutputOrderly(t, S1, implOut[t], mContToImpl[t])
        BY <3>1, <3>3 DEF OutputOrderly, Below
      <3>5. OutputOf(t, S1 \cup missed') \cup ToSet(implOut[t]) \cup ToSet(mContToImpl[t]) = 1 .. produced[t]
        BY <2>3, <3>1
      <3>. QED
        BY <3>2, <3>4, <3>5
    <2>. QED
      BY <2>1, <2>2, <2>4 DEF OutputInv
  <1>. QED
    BY <1>5, <1>6, <1>7, <1>8 DEF TerminalInv

LEMMA SpecialKeyStep ==
  ASSUME TerminalInv, console # "off", keysTaken < typed, NEW key \in Keys, SpecialKey(key)
  PROVE  TerminalInv'
  <1>1. /\ mServiceMode' = (~mServiceMode /\ key = "^a")
        /\ console' = console \/ console' = "quit"
        /\ ptyOut' = ptyOut \/ ptyOut' = ChangedPolls
        /\ consumed' = consumed \cup {keysTaken + 1}
        /\ restoreTTY(keysTaken + 2) \/ (keysTaken' = keysTaken + 1 /\ UNCHANGED <<typed, discarded>>)
        /\ UNCHANGED <<guardVars, mTermToApp, mAppToTerm, stdOut, implIn, implOut, produced, received, shown, missed>>
    BY DEF SpecialKey
  <1>2. ConsoleTyped /\ TerminalTypeOK
    BY ConsoleIsTyped DEF TerminalInv
  <1>3. mTerminalNum' \in Terminals
    <2>1. \/ mTerminalNum' = mTerminalNum \/ mTerminalNum' = (mTerminalNum + 1) % NumTerminals
          \/ mTerminalNum' = (mTerminalNum + (NumTerminals - 1)) % NumTerminals
      BY DEF SpecialKey
    <2>2. mTerminalNum \in Nat /\ NumTerminals \in Nat \ {0} /\ mTerminalNum \in Terminals
      BY <1>2, TerminalAssumption DEF ConsoleTyped, Terminals
    <2>3. \A i \in Nat : i % NumTerminals \in 0 .. NumTerminals - 1
      BY <2>2
    <2>. QED
      BY <2>1, <2>2, <2>3 DEF Terminals
  <1>4. /\ typed' \in Nat /\ keysTaken' \in 0 .. typed' /\ discarded' \subseteq 1 .. keysTaken'
        /\ KeysRead' = KeysRead \cup {keysTaken + 1}
    <2>1. /\ keysTaken + 1 \in Nat /\ keysTaken + 1 <= typed
          /\ keysTaken + 1 .. keysTaken + 1 = {keysTaken + 1} /\ (keysTaken + 1) + 1 = keysTaken + 2
      BY <1>2 DEF ConsoleTyped
    <2>2. CASE restoreTTY(keysTaken + 2)
      BY <1>2, <2>1, <2>2, KeysDiscarded
    <2>3. CASE keysTaken' = keysTaken + 1 /\ UNCHANGED <<typed, discarded>>
      BY <1>2, <2>1, <2>3, KeysReadOn
    <2>. QED
      BY <1>1, <2>2, <2>3
  <1>5. TerminalTypeOK'
    <2>1. consumed' \subseteq Nat
      BY <1>1, <1>2 DEF TerminalTypeOK, ConsoleTyped
    <2>2. mServiceMode' \in BOOLEAN /\ ptyOut' \in BOOLEAN /\ console' \in {"off", "on", "quit"}
      BY <1>1, <1>2 DEF TerminalTypeOK, ChangedPolls
    <2>. QED
      BY <1>1, <1>2, <1>3, <1>4, <2>1, <2>2 DEF TerminalTypeOK, guardVars
  <1>6. PolledToWrite'
    <2>1. ptyOut' <=> mTermToApp' # <<>>
      <3>1. ptyOut <=> mTermToApp # <<>>
        BY DEF TerminalInv, PolledToWrite
      <3>2. CASE ptyOut' = ptyOut
        BY <1>1, <3>1, <3>2
      <3>3. CASE ptyOut' = ChangedPolls
        BY <1>1, <3>3 DEF ChangedPolls
      <3>. QED
        BY <1>1, <3>2, <3>3
    <2>3. /\ polled' = polled /\ mImplToCont' = mImplToCont /\ mContToImpl' = mContToImpl /\ stdOut' = stdOut /\ mAppToTerm' = mAppToTerm
      BY <1>1 DEF guardVars
    <2>. QED
      BY <2>1, <2>3 DEF TerminalInv, PolledToWrite
  <1>7. KeysInv'
    <2>1. \A t \in Terminals : Passed(t)' = Passed(t) /\ Orderly(received[t], mImplToCont[t], implIn[t])'
      BY <1>1 DEF Passed, guardVars, TerminalInv, KeysInv
    <2>3. AllPassed' = AllPassed
      BY <2>1 DEF AllPassed
    <2>2. AllPassed \cup ToSet(mTermToApp) \cup consumed' = KeysRead'
      <3>1. AllPassed \cup ToSet(mTermToApp) \cup consumed = KeysRead
        BY DEF TerminalInv, KeysInv
      <3>. DEFINE P == AllPassed \cup ToSet(mTermToApp)
                  R == KeysRead
      <3>3. consumed' = consumed \cup {keysTaken + 1} /\ P \cup consumed = R /\ KeysRead' = R \cup {keysTaken + 1}
        BY <1>1, <1>4, <3>1
      <3>. HIDE DEF P, R
      <3>4. P \cup consumed' = R \cup {keysTaken + 1}
        BY <3>3
      <3>. QED
        BY <3>3, <3>4 DEF P
    <2>. QED
      BY <1>1, <2>1, <2>2, <2>3 DEF TerminalInv, KeysInv
  <1>8. OutputInv'
    BY <1>1, OutputStays DEF TerminalInv, OutputFrame, guardVars
  <1>. QED
    BY <1>5, <1>6, <1>7, <1>8 DEF TerminalInv

LEMMA StdInputStep ==
  ASSUME TerminalInv, StdInput
  PROVE  TerminalInv'
  <1>1. PICK n \in 1 .. smaller(Avail(mTermToApp), typed - keysTaken), key \in Keys :
          IF n = 1 /\ Special(key) THEN SpecialKey(key)
          ELSE /\ mTermToApp' = mTermToApp \o Fresh(keysTaken, n)
               /\ keysTaken' = keysTaken + n
               /\ ptyOut' = TRUE
               /\ UNCHANGED <<guardVars, console, mTerminalNum, mServiceMode, mAppToTerm, stdOut,
                              implIn, implOut, typed, produced, received, shown, consumed, missed, discarded>>
    BY DEF StdInput
  <1>2. CASE n = 1 /\ Special(key)
    <2>1. SpecialKey(key) /\ console # "off"
      BY <1>1, <1>2 DEF StdInput
    <2>2. keysTaken < typed
      BY <1>1, <1>2, ConsoleIsTyped DEF TerminalInv, ConsoleTyped, smaller, Avail
    <2>. QED
      BY <2>1, <2>2, SpecialKeyStep
  <1>3. CASE ~(n = 1 /\ Special(key))
    <2>. DEFINE p == Fresh(keysTaken, n)
                b == mTermToApp
    <2>1. /\ mTermToApp' = b \o p /\ keysTaken' = keysTaken + n /\ ptyOut' = TRUE
          /\ UNCHANGED <<guardVars, console, mTerminalNum, mServiceMode, mAppToTerm, stdOut,
                         implIn, implOut, typed, produced, received, shown, consumed, missed, discarded>>
      BY <1>1, <1>3
    <2>2. ConsoleTyped /\ TerminalTypeOK
      BY ConsoleIsTyped DEF TerminalInv
    <2>3. n \in Nat /\ n > 0 /\ n <= IO_BUFFER_SIZE - Len(b) /\ keysTaken + n <= typed
      BY <1>1, <2>2, TerminalAssumption DEF ConsoleTyped, smaller, Avail
    <2>4. b \in Seq(Nat) /\ keysTaken \in Nat /\ Len(b) \in Nat /\ IO_BUFFER_SIZE \in Nat
      BY <2>2 DEF ConsoleTyped
    <2>5. p \in Seq(Nat) /\ Len(p) = n /\ Increasing(p) /\ ToSet(p) = keysTaken + 1 .. keysTaken + n
      BY <2>3, <2>4, FreshElements
    <2>6. /\ AllPassed \cup ToSet(b) \cup consumed = KeysRead /\ Increasing(b)
          /\ \A t \in Terminals : Below(Passed(t), ToSet(b))
      BY DEF TerminalInv, KeysInv
    <2>. HIDE DEF b, p
    <2>7. b \o p \in Seq(Nat) /\ Len(b \o p) = Len(b) + n /\ b \o p # <<>>
      BY <2>3, <2>4, <2>5, Grown
    <2>8. ToSet(b \o p) = ToSet(b) \cup ToSet(p)
      BY <2>4, <2>5, ConcatSet
    <2>9. Below(ToSet(b), ToSet(p)) /\ \A t \in Terminals : Below(Passed(t), ToSet(p))
      <3>1. ToSet(b) \subseteq 1 .. keysTaken
        BY <2>6 DEF KeysRead
      <3>2. ASSUME NEW t \in Terminals PROVE Passed(t) \subseteq 1 .. keysTaken
        <4>1. Passed(t) \subseteq AllPassed
          BY PassedIsCounted
        <4>. QED
          BY <2>6, <4>1 DEF KeysRead
      <3>. QED
        BY <2>3, <2>4, <2>5, <3>1, <3>2 DEF Below
    <2>10. Increasing(b \o p)
      BY <2>4, <2>5, <2>6, <2>9, JoinIncreasing
    <2>15. /\ typed' \in Nat /\ keysTaken' \in 0 .. typed' /\ discarded' \subseteq 1 .. keysTaken'
           /\ KeysRead' = KeysRead \cup (keysTaken + 1 .. keysTaken + n)
      BY <2>1, <2>2, <2>3, KeysReadOn
    <2>11. TerminalTypeOK'
      <3>1. Len(b \o p) <= IO_BUFFER_SIZE
        BY <2>3, <2>4, <2>7
      <3>. QED
        BY <2>1, <2>2, <2>7, <2>15, <3>1 DEF TerminalTypeOK, guardVars
    <2>12. PolledToWrite'
      BY <2>1, <2>7 DEF TerminalInv, PolledToWrite, guardVars
    <2>13. KeysInv'
      <3>1. \A t \in Terminals : Passed(t)' = Passed(t) /\ Orderly(received[t], mImplToCont[t], implIn[t])'
        BY <2>1 DEF Passed, guardVars, TerminalInv, KeysInv
      <3>4. AllPassed' = AllPassed
        BY <3>1 DEF AllPassed
      <3>2. AllPassed \cup ToSet(b \o p) \cup consumed = KeysRead'
        <4>. DEFINE P == AllPassed
                    R == KeysRead
        <4>1. P \cup ToSet(b) \cup consumed = R /\ KeysRead' = R \cup ToSet(p)
          BY <2>5, <2>6, <2>15
        <4>. HIDE DEF P, R
        <4>2. P \cup ToSet(b \o p) \cup consumed = R \cup ToSet(p)
          BY <2>8, <4>1
        <4>. QED
          BY <4>1, <4>2 DEF P
      <3>3. \A t \in Terminals : Below(Passed(t), ToSet(b \o p))
        BY <2>6, <2>8, <2>9 DEF Below
      <3>. QED
        BY <2>1, <2>10, <3>1, <3>2, <3>3, <3>4 DEF TerminalInv, KeysInv
    <2>14. OutputInv'
      BY <2>1, OutputStays DEF TerminalInv, OutputFrame, guardVars
    <2>. QED
      BY <2>11, <2>12, <2>13, <2>14 DEF TerminalInv
  <1>. QED
    BY <1>2, <1>3

LEMMA PtyOutStep ==
  ASSUME TerminalInv, PtyOut
  PROVE  TerminalInv'
  <1>. DEFINE t == mTerminalNum
              b == mTermToApp
  <1>1. PICK n \in 1 .. smaller(PtyCapacity - Len(implIn[t]), Len(b)) :
          /\ implIn' = [implIn EXCEPT ![t] = @ \o SubSeq(b, 1, n)]
          /\ mTermToApp' = Rest(b, n) /\ ptyOut' = (n < Len(b))
    BY DEF PtyOut
  <1>. DEFINE p == SubSeq(b, 1, n)
              r == SubSeq(b, n + 1, Len(b))
              c == implIn[t]
  <1>2. UNCHANGED <<guardVars, console, mTerminalNum, mServiceMode, mAppToTerm, stdOut, implOut, endVars>>
    BY DEF PtyOut
  <1>3. ConsoleTyped /\ TerminalTypeOK /\ t \in Terminals /\ b \in Seq(Nat) /\ Len(b) \in Nat /\ Len(b) <= IO_BUFFER_SIZE
        /\ IO_BUFFER_SIZE \in Nat
    BY ConsoleIsTyped DEF TerminalInv, ConsoleTyped
  <1>4. Typed(t)
    BY <1>3, TerminalTyped
  <1>5. received[t] \in Seq(Nat) /\ mImplToCont[t] \in Seq(Nat) /\ c \in Seq(Nat) /\ Len(c) \in Nat /\ PtyCapacity \in Nat
    BY <1>4 DEF Typed
  <1>6. n \in Nat /\ n > 0 /\ n <= Len(b) /\ n \in 0 .. Len(b)
    BY <1>1, <1>3, <1>5 DEF smaller
  <1>7. Increasing(b) /\ \A u \in Terminals : Below(Passed(u), ToSet(b))
    BY DEF TerminalInv, KeysInv
  <1>8. /\ p \in Seq(Nat) /\ r \in Seq(Nat) /\ Len(p) = n /\ Len(r) = Len(b) - n /\ ToSet(b) = ToSet(p) \cup ToSet(r)
    BY <1>3, <1>6, CutElements
  <1>9. Increasing(p) /\ Increasing(r) /\ Below(ToSet(p), ToSet(r))
    BY <1>3, <1>6, <1>7, CutIncreasing
  <1>10. r # <<>> <=> n < Len(b)
    BY <1>3, <1>6, LeftOver
  <1>11. implIn' = [implIn EXCEPT ![t] = c \o p] /\ mTermToApp' = r
    BY <1>1 DEF Rest
  <1>12. Orderly(received[t], mImplToCont[t], c \o p) /\ KeysOf(received[t], mImplToCont[t], c \o p) = Passed(t) \cup ToSet(p)
    <2>1. Orderly(received[t], mImplToCont[t], c) /\ Passed(t) = KeysOf(received[t], mImplToCont[t], c)
      BY <1>3 DEF TerminalInv, KeysInv, Passed
    <2>2. Below(KeysOf(received[t], mImplToCont[t], c), ToSet(p))
      BY <1>3, <1>7, <1>8, <2>1 DEF Below
    <2>. HIDE DEF c, p
    <2>. QED
      BY <1>5, <1>8, <1>9, <2>1, <2>2, OrderlyGiven
  <1>. HIDE DEF t, b, p, r, c
  <1>13. c \o p \in Seq(Nat)
    BY <1>5, <1>8, ConcatSet
  <1>14. /\ implIn'[t] = c \o p /\ received' = received /\ mImplToCont' = mImplToCont
         /\ \A u \in Terminals : u # t => implIn'[u] = implIn[u]
    BY <1>2, <1>3, <1>11 DEF TerminalTypeOK, guardVars, endVars
  <1>15. TerminalTypeOK'
    <2>1. implIn' \in [Terminals -> Seq(Nat)]
      BY <1>3, <1>11, <1>13 DEF TerminalTypeOK
    <2>2. Len(r) <= IO_BUFFER_SIZE
      BY <1>3, <1>6, <1>8
    <2>3. ptyOut' \in BOOLEAN
      BY <1>1
    <2>. QED
      BY <1>2, <1>3, <1>8, <1>11, <2>1, <2>2, <2>3 DEF TerminalTypeOK, ttyVars, guardVars, endVars
  <1>16. PolledToWrite'
    BY <1>1, <1>2, <1>10, <1>11 DEF TerminalInv, PolledToWrite, guardVars
  <1>17. KeysInv'
    <2>1. /\ KeysOf(received'[t], mImplToCont'[t], implIn'[t]) = Passed(t) \cup ToSet(p)
          /\ \A u \in Terminals : u # t => KeysOf(received'[u], mImplToCont'[u], implIn'[u]) = Passed(u)
      <3>1. KeysOf(received'[t], mImplToCont'[t], implIn'[t]) = KeysOf(received[t], mImplToCont[t], c \o p)
        BY <1>14
      <3>2. \A u \in Terminals : u # t => KeysOf(received'[u], mImplToCont'[u], implIn'[u]) = Passed(u)
        BY <1>14 DEF Passed
      <3>. QED
        BY <1>12, <3>1, <3>2
    <2>. DEFINE Q(u) == KeysOf(received'[u], mImplToCont'[u], implIn'[u])
    <2>0. Q(t) = Passed(t) \cup ToSet(p) /\ \A u \in Terminals : u # t => Q(u) = Passed(u)
      BY <2>1
    <2>7. \A u \in Terminals : Q(u) = Passed(u)'
      BY DEF Q, Passed
    <2>. HIDE DEF Q
    <2>2. ASSUME NEW u \in Terminals PROVE Orderly(received'[u], mImplToCont'[u], implIn'[u]) /\ Below(Q(u), ToSet(r))
      <3>0. Below(Passed(u), ToSet(b)) /\ Orderly(received[u], mImplToCont[u], implIn[u])
        BY <1>7 DEF TerminalInv, KeysInv
      <3>1. CASE u = t
        <4>1. Orderly(received'[t], mImplToCont'[t], implIn'[t])
          BY <1>12, <1>14
        <4>2. Below(Passed(t) \cup ToSet(p), ToSet(r))
          BY <3>0, <3>1, <1>8, <1>9 DEF Below
        <4>. QED
          BY <2>0, <3>1, <4>1, <4>2
      <3>2. CASE u # t
        <4>1. Below(Passed(u), ToSet(r))
          BY <3>0, <1>8 DEF Below
        <4>. QED
          BY <1>14, <2>0, <3>0, <3>2, <4>1
      <3>. QED
        BY <3>1, <3>2
    <2>3. AllPassed' \cup ToSet(r) \cup consumed = KeysRead
      <3>1. AllPassed' = AllPassed \cup ToSet(p)
        <4>1. ASSUME NEW x, x \in AllPassed'
              PROVE  x \in AllPassed \cup ToSet(p)
          <5>1. PICK u \in Terminals : x \in Q(u)
            BY <4>1, <2>7 DEF AllPassed
          <5>2. x \in Passed(u) \/ x \in ToSet(p)
            BY <2>0, <5>1
          <5>. QED
            BY <5>1, <5>2, PassedIsCounted
        <4>2. ASSUME NEW x, x \in AllPassed PROVE x \in AllPassed'
          <5>1. PICK u \in Terminals : x \in Passed(u)
            BY <4>2 DEF AllPassed
          <5>2. x \in Q(u)
            BY <2>0, <5>1
          <5>. QED
            BY <2>7, <5>2 DEF AllPassed
        <4>3. ASSUME NEW x, x \in ToSet(p) PROVE x \in AllPassed'
          <5>1. x \in Q(t)
            BY <2>0, <4>3
          <5>. QED
            BY <1>3, <2>7, <5>1 DEF AllPassed
        <4>. QED
          BY <4>1, <4>2, <4>3
      <3>2. AllPassed \cup ToSet(b) \cup consumed = KeysRead
        BY DEF TerminalInv, KeysInv, b
      <3>. DEFINE P == AllPassed
                  R == AllPassed'
      <3>3. R = P \cup ToSet(p) /\ P \cup ToSet(b) \cup consumed = KeysRead
        BY <3>1, <3>2
      <3>. HIDE DEF P, R
      <3>4. R \cup ToSet(r) \cup consumed = P \cup ToSet(b) \cup consumed
        BY <1>8, <3>3
      <3>5. R \cup ToSet(r) \cup consumed = KeysRead
        BY <3>3, <3>4
      <3>. QED
        BY <3>5 DEF R
    <2>4. \A u \in Terminals : u # t => Passed(u) \cap ToSet(p) = {}
      <3>1. ToSet(p) \subseteq Nat
        BY <1>8, SetOfSeq
      <3>2. \A x \in Nat : ~(x < x)
        OBVIOUS
      <3>. QED
        BY <1>7, <1>8, <3>1, <3>2 DEF Below
    <2>5. ASSUME NEW u \in Terminals, NEW v \in Terminals, u # v PROVE Q(u) \cap Q(v) = {}
      <3>1. Passed(u) \cap Passed(v) = {}
        BY <2>5 DEF TerminalInv, KeysInv
      <3>2. CASE u = t
        <4>1. Q(u) = Passed(u) \cup ToSet(p) /\ Q(v) = Passed(v) /\ Passed(v) \cap ToSet(p) = {}
          BY <2>0, <2>4, <2>5, <3>2
        <4>. QED
          BY <3>1, <4>1
      <3>3. CASE v = t
        <4>1. Q(v) = Passed(v) \cup ToSet(p) /\ Q(u) = Passed(u) /\ Passed(u) \cap ToSet(p) = {}
          BY <2>0, <2>4, <2>5, <3>3
        <4>. QED
          BY <3>1, <4>1
      <3>4. CASE u # t /\ v # t
        BY <2>0, <3>1, <3>4
      <3>. QED
        BY <3>2, <3>3, <3>4
    <2>6. consumed' = consumed /\ KeysRead' = KeysRead /\ mTermToApp' = r /\ Increasing(r)
      BY <1>2, <1>9, <1>11 DEF endVars, ttyVars, KeysRead
    <2>. QED
      BY <2>2, <2>3, <2>5, <2>6, <2>7 DEF KeysInv
  <1>18. OutputInv'
    BY <1>2, OutputStays DEF TerminalInv, OutputFrame, guardVars, endVars
  <1>. QED
    BY <1>15, <1>16, <1>17, <1>18 DEF TerminalInv

LEMMA StdOutputStep ==
  ASSUME TerminalInv, StdOutput
  PROVE  TerminalInv'
  <1>. DEFINE a == shown
              b == mAppToTerm
  <1>1. PICK n \in 1 .. Len(b) : shown' = a \o SubSeq(b, 1, n) /\ mAppToTerm' = Rest(b, n) /\ stdOut' = (n < Len(b))
    BY DEF StdOutput
  <1>. DEFINE p == SubSeq(b, 1, n)
              r == SubSeq(b, n + 1, Len(b))
  <1>2. UNCHANGED <<guardVars, console, mTerminalNum, mServiceMode, mTermToApp, ptyOut, implIn, implOut,
                    ttyVars, produced, received, consumed, missed>>
    BY DEF StdOutput
  <1>3. /\ TerminalTypeOK /\ a \in Seq(Terminals \X Nat) /\ b \in Seq(Terminals \X Nat)
        /\ Len(b) \in Nat /\ Len(b) <= IO_BUFFER_SIZE /\ IO_BUFFER_SIZE \in Nat
    BY ConsoleIsTyped DEF TerminalInv, ConsoleTyped
  <1>4. n \in Nat /\ n > 0 /\ n <= Len(b) /\ n \in 0 .. Len(b)
    BY <1>1, <1>3
  <1>5. InTurn(a) /\ InTurn(b) /\ BelowInTurn(ToSet(a), ToSet(b))
    BY DEF TerminalInv, OutputInv
  <1>6. /\ p \in Seq(Terminals \X Nat) /\ r \in Seq(Terminals \X Nat) /\ Len(r) = Len(b) - n /\ ToSet(b) = ToSet(p) \cup ToSet(r)
    BY <1>3, <1>4, CutElements
  <1>7. InTurn(p) /\ InTurn(r) /\ BelowInTurn(ToSet(p), ToSet(r))
    BY <1>3, <1>4, <1>5, CutInTurn
  <1>8. r # <<>> <=> n < Len(b)
    BY <1>3, <1>4, LeftOver
  <1>9. shown' = a \o p /\ mAppToTerm' = r
    BY <1>1 DEF Rest
  <1>. HIDE DEF a, b, p, r
  <1>10. a \o p \in Seq(Terminals \X Nat) /\ ToSet(a \o p) = ToSet(a) \cup ToSet(p)
    BY <1>3, <1>6, ConcatSet
  <1>11. InTurn(a \o p) /\ BelowInTurn(ToSet(a \o p), ToSet(r))
    <2>1. BelowInTurn(ToSet(a), ToSet(p)) /\ BelowInTurn(ToSet(a), ToSet(r))
      BY <1>5, <1>6 DEF BelowInTurn
    <2>2. InTurn(a \o p)
      BY <1>3, <1>5, <1>6, <1>7, <2>1, JoinInTurn
    <2>3. BelowInTurn(ToSet(a \o p), ToSet(r))
      BY <1>7, <1>10, <2>1 DEF BelowInTurn
    <2>. QED
      BY <2>2, <2>3
  <1>12. TerminalTypeOK'
    <2>1. Len(r) <= IO_BUFFER_SIZE
      BY <1>3, <1>4, <1>6
    <2>2. stdOut' \in BOOLEAN
      BY <1>1
    <2>. QED
      BY <1>2, <1>3, <1>6, <1>9, <1>10, <2>1, <2>2 DEF TerminalTypeOK, ttyVars, guardVars
  <1>13. PolledToWrite'
    BY <1>1, <1>2, <1>8, <1>9 DEF TerminalInv, PolledToWrite, guardVars
  <1>14. KeysInv'
    BY <1>2, KeysStay DEF TerminalInv, KeysFrame, guardVars
  <1>15. OutputInv'
    <2>1. ToSet(shown') \cup ToSet(mAppToTerm') = ToSet(shown) \cup ToSet(mAppToTerm)
      BY <1>6, <1>9, <1>10 DEF a, b
    <2>2. UNCHANGED <<implOut, mContToImpl, missed, produced>>
      BY <1>2 DEF guardVars
    <2>. QED
      BY <1>7, <1>9, <1>11, <2>1, <2>2 DEF TerminalInv, OutputInv
  <1>. QED
    BY <1>12, <1>13, <1>14, <1>15 DEF TerminalInv

\* What a console reads of a pty.
ReadBytes(t, s, n) == [i \in 1 .. n |-> <<t, s[i]>>]

LEMMA ReadOfPty ==
  ASSUME NEW t \in Terminals, NEW s \in Seq(Nat), Increasing(s), NEW n \in 0 .. Len(s)
  PROVE  /\ ReadBytes(t, s, n) \in Seq(Terminals \X Nat) /\ Len(ReadBytes(t, s, n)) = n /\ InTurn(ReadBytes(t, s, n))
         /\ ToSet(ReadBytes(t, s, n)) = {<<t, x>> : x \in ToSet(SubSeq(s, 1, n))}
  <1>. DEFINE p == SubSeq(s, 1, n)
              q == ReadBytes(t, s, n)
  <1>1. Len(s) \in Nat /\ DOMAIN s = 1 .. Len(s) /\ n \in Nat /\ \A i \in 1 .. n : i \in DOMAIN s /\ s[i] \in Nat
    BY LenProperties
  <1>2. p \in Seq(Nat) /\ Len(p) = n /\ \A i \in DOMAIN p : p[i] = s[i]
    BY CutElements
  <1>3. DOMAIN p = 1 .. n
    BY <1>2, LenProperties
  <1>4. q \in Seq(Terminals \X Nat) /\ Len(q) = n /\ DOMAIN q = 1 .. n /\ \A i \in 1 .. n : q[i] = <<t, s[i]>>
    BY <1>1 DEF ReadBytes
  <1>. HIDE DEF p, q
  <1>5. InTurn(q)
    <2>1. ASSUME NEW i \in 1 .. n, NEW j \in 1 .. n, i < j PROVE q[i][2] < q[j][2]
      <3>1. s[i] < s[j]
        BY <1>1, <2>1 DEF Increasing
      <3>2. q[i] = <<t, s[i]>> /\ q[j] = <<t, s[j]>>
        BY <1>4
      <3>. QED
        BY <3>1, <3>2
    <2>. QED
      BY <1>4, <2>1 DEF InTurn
  <1>6. ToSet(q) = {<<t, x>> : x \in ToSet(p)}
    BY <1>2, <1>3, <1>4 DEF ToSet
  <1>. QED
    BY <1>4, <1>5, <1>6 DEF p, q

LEMMA PtyInStep ==
  ASSUME TerminalInv, PtyIn
  PROVE  TerminalInv'
  <1>. DEFINE t == mTerminalNum
              a == implOut[t]
              b == mContToImpl[t]
              M == mAppToTerm
  <1>1. PICK n \in 1 .. smaller(Avail(M), Len(a)) :
          /\ mAppToTerm' = M \o [i \in 1 .. n |-> <<t, a[i]>>]
          /\ implOut' = [implOut EXCEPT ![t] = SubSeq(@, n + 1, Len(@))]
    BY DEF PtyIn
  <1>. DEFINE p == SubSeq(a, 1, n)
              r == SubSeq(a, n + 1, Len(a))
              q == [i \in 1 .. n |-> <<t, a[i]>>]
              S == ToSet(shown) \cup ToSet(M)
  <1>2. stdOut' = TRUE /\ UNCHANGED <<guardVars, console, mTerminalNum, mServiceMode, mTermToApp, ptyOut, implIn, endVars>>
    BY DEF PtyIn
  <1>3. /\ TerminalTypeOK /\ t \in Terminals /\ M \in Seq(Terminals \X Nat) /\ shown \in Seq(Terminals \X Nat)
        /\ Len(M) \in Nat /\ Len(M) <= IO_BUFFER_SIZE /\ IO_BUFFER_SIZE \in Nat
    BY ConsoleIsTyped DEF TerminalInv, ConsoleTyped
  <1>4. Typed(t)
    BY <1>3, TerminalTyped
  <1>5. a \in Seq(Nat) /\ b \in Seq(Nat) /\ Len(a) \in Nat
    BY <1>4 DEF Typed
  <1>6. n \in Nat /\ n > 0 /\ n <= Len(a) /\ n <= IO_BUFFER_SIZE - Len(M) /\ n \in 0 .. Len(a)
    BY <1>1, <1>3, <1>5 DEF smaller, Avail
  <1>7. InTurn(shown) /\ InTurn(M) /\ BelowInTurn(ToSet(shown), ToSet(M))
    BY DEF TerminalInv, OutputInv
  <1>8. OutputOrderly(t, S, a, b) /\ OutputOf(t, S \cup missed) \cup ToSet(a) \cup ToSet(b) = 1 .. produced[t]
    BY <1>3 DEF TerminalInv, OutputInv
  <1>9. p \in Seq(Nat) /\ r \in Seq(Nat) /\ ToSet(a) = ToSet(p) \cup ToSet(r)
    BY <1>5, <1>6, CutElements
  <1>10. Increasing(a) /\ Increasing(r) /\ Below(ToSet(p), ToSet(r))
    <2>1. Increasing(a)
      BY <1>8 DEF OutputOrderly
    <2>. QED
      BY <1>5, <1>6, <2>1, CutIncreasing
  <1>11. q \in Seq(Terminals \X Nat) /\ Len(q) = n /\ InTurn(q) /\ ToSet(q) = {<<t, x>> : x \in ToSet(p)}
    <2>1. q = [i \in 1 .. n |-> <<t, a[i]>>] /\ p = SubSeq(a, 1, n)
      OBVIOUS
    <2>2. t \in Terminals /\ a \in Seq(Nat) /\ n \in 0 .. Len(a) /\ Increasing(a)
      BY <1>3, <1>5, <1>6, <1>10
    <2>. HIDE DEF q, p, a, t
    <2>3. /\ ReadBytes(t, a, n) \in Seq(Terminals \X Nat) /\ Len(ReadBytes(t, a, n)) = n /\ InTurn(ReadBytes(t, a, n))
          /\ ToSet(ReadBytes(t, a, n)) = {<<t, x>> : x \in ToSet(SubSeq(a, 1, n))}
      BY <2>2, ReadOfPty
    <2>4. q = ReadBytes(t, a, n)
      BY <2>1 DEF ReadBytes
    <2>. QED
      BY <2>1, <2>3, <2>4
  <1>12. mAppToTerm' = M \o q /\ implOut' = [implOut EXCEPT ![t] = r]
    BY <1>1
  <1>13. ToSet(shown) \subseteq S /\ ToSet(M) \subseteq S /\ S = ToSet(shown) \cup ToSet(M)
    OBVIOUS
  <1>. HIDE DEF t, a, b, M, p, r, q, S
  <1>14. M \o q \in Seq(Terminals \X Nat) /\ Len(M \o q) = Len(M) + n /\ M \o q # <<>>
    BY <1>3, <1>6, <1>11, Grown
  <1>15. ToSet(M \o q) = ToSet(M) \cup ToSet(q)
    BY <1>3, <1>11, ConcatSet
  <1>16. BelowInTurn(S, ToSet(q))
    <2>1. ASSUME NEW x \in S, NEW y \in ToSet(q), x[1] = y[1] PROVE x[2] < y[2]
      <3>1. PICK k \in ToSet(p) : y = <<t, k>>
        BY <1>11
      <3>2. x[2] \in OutputOf(t, S)
        BY <2>1, <3>1 DEF OutputOf
      <3>. QED
        BY <1>8, <1>9, <3>1, <3>2 DEF OutputOrderly, Below
    <2>. QED
      BY <2>1 DEF BelowInTurn
  <1>17. InTurn(M \o q) /\ BelowInTurn(ToSet(shown), ToSet(M \o q))
    <2>1. BelowInTurn(ToSet(M), ToSet(q)) /\ BelowInTurn(ToSet(shown), ToSet(q))
      BY <1>13, <1>16 DEF BelowInTurn
    <2>2. InTurn(M \o q)
      BY <1>3, <1>7, <1>11, <2>1, JoinInTurn
    <2>3. BelowInTurn(ToSet(shown), ToSet(M \o q))
      BY <1>7, <1>15, <2>1 DEF BelowInTurn
    <2>. QED
      BY <2>2, <2>3
  <1>18. implOut'[t] = r /\ \A u \in Terminals : u # t => implOut'[u] = implOut[u]
    BY <1>3, <1>12 DEF TerminalTypeOK
  <1>19. TerminalTypeOK'
    <2>1. implOut' \in [Terminals -> Seq(Nat)]
      BY <1>3, <1>9, <1>12 DEF TerminalTypeOK
    <2>2. Len(M \o q) <= IO_BUFFER_SIZE
      BY <1>3, <1>6, <1>14
    <2>. QED
      BY <1>2, <1>3, <1>12, <1>14, <2>1, <2>2 DEF TerminalTypeOK, ttyVars, guardVars, endVars
  <1>20. PolledToWrite'
    BY <1>2, <1>12, <1>14 DEF TerminalInv, PolledToWrite, guardVars
  <1>21. KeysInv'
    BY <1>2, KeysStay DEF TerminalInv, KeysFrame, guardVars, endVars
  <1>22. OutputInv'
    <2>. DEFINE S1 == S \cup ToSet(q)
    <2>1. ToSet(shown') \cup ToSet(mAppToTerm') = S1 /\ InTurn(shown') /\ InTurn(mAppToTerm')
          /\ BelowInTurn(ToSet(shown'), ToSet(mAppToTerm'))
      BY <1>2, <1>7, <1>12, <1>13, <1>15, <1>17 DEF endVars
    <2>2. missed' = missed /\ produced' = produced /\ mContToImpl' = mContToImpl
      BY <1>2 DEF guardVars, endVars
    <2>3. ASSUME NEW T PROVE OutputOf(t, T \cup ToSet(q)) = OutputOf(t, T) \cup ToSet(p)
      <3>1. ASSUME NEW x \in OutputOf(t, T \cup ToSet(q)) PROVE x \in OutputOf(t, T) \cup ToSet(p)
        BY <1>11 DEF OutputOf
      <3>2. ASSUME NEW x \in ToSet(p) PROVE x \in OutputOf(t, T \cup ToSet(q))
        <4>1. <<t, x>> \in ToSet(q) /\ <<t, x>>[1] = t /\ <<t, x>>[2] = x
          BY <1>11
        <4>. QED
          BY <4>1 DEF OutputOf
      <3>3. ASSUME NEW x \in OutputOf(t, T) PROVE x \in OutputOf(t, T \cup ToSet(q))
        BY DEF OutputOf
      <3>. QED
        BY <3>1, <3>2, <3>3
    <2>4. ASSUME NEW T, NEW u, u # t PROVE OutputOf(u, T \cup ToSet(q)) = OutputOf(u, T)
      <3>1. ASSUME NEW x \in OutputOf(u, T \cup ToSet(q)) PROVE x \in OutputOf(u, T)
        BY <1>11, <2>4 DEF OutputOf
      <3>2. ASSUME NEW x \in OutputOf(u, T) PROVE x \in OutputOf(u, T \cup ToSet(q))
        BY DEF OutputOf
      <3>. QED
        BY <3>1, <3>2
    <2>5. S1 \cup missed = (S \cup missed) \cup ToSet(q)
      OBVIOUS
    <2>6. ASSUME NEW u \in Terminals
          PROVE  /\ OutputOrderly(u, S1, implOut'[u], mContToImpl[u])
                 /\ OutputOf(u, S1 \cup missed) \cup ToSet(implOut'[u]) \cup ToSet(mContToImpl[u]) = 1 .. produced[u]
      <3>1. CASE u = t
        <4>1. OutputOf(t, S1) = OutputOf(t, S) \cup ToSet(p)
          BY <2>3
        <4>2. OutputOf(t, S1 \cup missed) = OutputOf(t, S \cup missed) \cup ToSet(p)
          BY <2>3, <2>5
        <4>3. implOut'[t] = r /\ mContToImpl[t] = b
          BY <1>18 DEF b
        <4>. HIDE DEF S1
        <4>4. OutputOrderly(t, S1, r, b)
          BY <1>8, <1>9, <1>10, <4>1 DEF OutputOrderly, Below
        <4>5. OutputOf(t, S1 \cup missed) \cup ToSet(r) \cup ToSet(b) = 1 .. produced[t]
          BY <1>8, <1>9, <4>2
        <4>. QED
          BY <3>1, <4>3, <4>4, <4>5
      <3>2. CASE u # t
        <4>1. OutputOf(u, S1) = OutputOf(u, S) /\ OutputOf(u, S1 \cup missed) = OutputOf(u, S \cup missed)
          BY <2>4, <2>5, <3>2
        <4>2. OutputOrderly(u, S, implOut[u], mContToImpl[u])
              /\ OutputOf(u, S \cup missed) \cup ToSet(implOut[u]) \cup ToSet(mContToImpl[u]) = 1 .. produced[u]
          BY <1>13 DEF TerminalInv, OutputInv, M
        <4>3. implOut'[u] = implOut[u]
          BY <1>18, <3>2
        <4>. HIDE DEF S1
        <4>. QED
          BY <4>1, <4>2, <4>3 DEF OutputOrderly
      <3>. QED
        BY <3>1, <3>2
    <2>. HIDE DEF S1
    <2>. QED
      BY <2>1, <2>2, <2>6 DEF OutputInv
  <1>. QED
    BY <1>19, <1>20, <1>21, <1>22 DEF TerminalInv

-----------------------------------------------------------------------------
LEMMA TerminalStarts ==
  ASSUME TerminalInit
  PROVE  TerminalInv
  <1>1. /\ <<>> \in Seq(Nat) /\ <<>> \in Seq(Terminals \X Nat) /\ ToSet(<<>>) = {} /\ Increasing(<<>>) /\ InTurn(<<>>)
        /\ Len(<<>>) = 0
    BY EmptyElements
  <1>2. 0 \in Terminals /\ NumTerminals \in Nat \ {0} /\ IO_BUFFER_SIZE \in Nat
    BY TerminalAssumption DEF Terminals
  <1>3. TerminalTypeOK
    <2>1. /\ \A t \in Terminals : Len(mImplToCont[t]) <= IO_BUFFER_SIZE /\ Len(mContToImpl[t]) <= IO_BUFFER_SIZE
          /\ Len(mTermToApp) <= IO_BUFFER_SIZE /\ Len(mAppToTerm) <= IO_BUFFER_SIZE
      BY <1>1, <1>2 DEF TerminalInit
    <2>. QED
      BY <1>1, <1>2, <2>1 DEF TerminalTypeOK, TerminalInit
  <1>4. PolledToWrite
    BY DEF TerminalInit, PolledToWrite, Sides
  <1>5. KeysInv
    <2>1. \A t \in Terminals : Passed(t) = {} /\ Orderly(received[t], mImplToCont[t], implIn[t])
      BY <1>1 DEF TerminalInit, Passed, KeysOf, Orderly, Below
    <2>2. ToSet(mTermToApp) = {} /\ consumed = {} /\ keysTaken = 0 /\ typed = 0 /\ discarded = {} /\ Increasing(mTermToApp)
      BY <1>1 DEF TerminalInit
    <2>3. AllPassed \cup ToSet(mTermToApp) \cup consumed = KeysRead
      BY <2>1, <2>2 DEF AllPassed, KeysRead
    <2>. QED
      BY <2>1, <2>2, <2>3 DEF KeysInv, Below
  <1>6. OutputInv
    <2>1. ToSet(shown) = {} /\ ToSet(mAppToTerm) = {} /\ missed = {} /\ InTurn(shown) /\ InTurn(mAppToTerm)
      BY <1>1 DEF TerminalInit
    <2>2. \A t \in Terminals : /\ ToSet(implOut[t]) = {} /\ ToSet(mContToImpl[t]) = {} /\ produced[t] = 0
                               /\ Increasing(implOut[t]) /\ Increasing(mContToImpl[t])
      BY <1>1 DEF TerminalInit
    <2>3. \A t : OutputOf(t, {}) = {}
      BY DEF OutputOf
    <2>. QED
      BY <2>1, <2>2, <2>3 DEF OutputInv, OutputOrderly, Below, BelowInTurn
  <1>. QED
    BY <1>3, <1>4, <1>5, <1>6 DEF TerminalInv

LEMMA TerminalStep ==
  ASSUME TerminalInv, [TerminalNext]_terminalVars
  PROVE  TerminalInv'
  <1>1. CASE UNCHANGED terminalVars
    <2>1. TerminalTypeOK'
      BY <1>1 DEF terminalVars, guardVars, consoleVars, endVars, TerminalInv, TerminalTypeOK, ttyVars
    <2>2. PolledToWrite' /\ KeysFrame /\ OutputFrame
      BY <1>1 DEF terminalVars, guardVars, consoleVars, endVars, TerminalInv, PolledToWrite, KeysFrame, OutputFrame
    <2>. QED
      BY <2>1, <2>2, KeysStay, OutputStays DEF TerminalInv
  <1>2. ASSUME NEW t \in Terminals, GuardPoll(t) \/ ContIn(t) \/ ContOut(t) \/ ImplIn(t) \/ ImplOut(t) \/ ConsoleStart(t)
        PROVE  TerminalInv'
    BY <1>2, GuardPollStep, ContInStep, ContOutStep, ImplInStep, ImplOutStep, ConsoleStartStep
  <1>3. CASE ConsoleError
    <2>1. 0 \in Terminals
      BY TerminalAssumption DEF Terminals
    <2>. QED
      BY <1>3, <2>1, ConsoleStartStep
  <1>. QED
    BY <1>1, <1>2, <1>3, KeyTypedStep, ConsoleEndStep, StdInputStep, PtyInStep, PtyOutStep, StdOutputStep DEF TerminalNext

LEMMA RelayIsSound ==
  ASSUME TerminalInv
  PROVE  TerminalTypeOK /\ RelaySound
  <1>1. ASSUME NEW t \in Terminals
        PROVE  Increasing(Downstream(t)) /\ ToSet(Downstream(t)) = Passed(t)
    <2>. DEFINE a == received[t]
                b == mImplToCont[t]
                c == implIn[t]
    <2>1. a \in Seq(Nat) /\ b \in Seq(Nat) /\ c \in Seq(Nat)
      BY TerminalTyped DEF TerminalInv, Typed
    <2>2. Orderly(a, b, c) /\ Passed(t) = KeysOf(a, b, c) /\ Downstream(t) = (a \o b) \o c
      BY DEF TerminalInv, KeysInv, Passed, Downstream
    <2>. HIDE DEF a, b, c
    <2>3. a \o b \in Seq(Nat) /\ ToSet(a \o b) = ToSet(a) \cup ToSet(b) /\ Increasing(a \o b)
      <3>1. a \o b \in Seq(Nat) /\ ToSet(a \o b) = ToSet(a) \cup ToSet(b)
        BY <2>1, ConcatSet
      <3>2. Increasing(a) /\ Increasing(b) /\ Below(ToSet(a), ToSet(b))
        BY <2>2 DEF Orderly
      <3>3. Increasing(a \o b)
        BY <2>1, <3>2, JoinIncreasing
      <3>. QED
        BY <3>1, <3>3
    <2>4. ToSet((a \o b) \o c) = ToSet(a) \cup ToSet(b) \cup ToSet(c)
      <3>. DEFINE d == a \o b
      <3>0. d \in Seq(Nat)
        BY <2>3
      <3>1. ToSet(d \o c) = ToSet(d) \cup ToSet(c)
        <4>. HIDE DEF d
        <4>. QED
          BY <2>1, <3>0, ConcatSet
      <3>. QED
        BY <2>3, <3>1
    <2>5. Increasing((a \o b) \o c)
      <3>1. Increasing(c) /\ Below(ToSet(a \o b), ToSet(c))
        BY <2>2, <2>3 DEF Orderly, Below
      <3>. QED
        BY <2>1, <2>3, <3>1, JoinIncreasing
    <2>. QED
      BY <2>2, <2>4, <2>5 DEF KeysOf
  <1>2. ToSet(Screen) = ToSet(shown) \cup ToSet(mAppToTerm) /\ InTurn(Screen)
    <2>1. shown \in Seq(Terminals \X Nat) /\ mAppToTerm \in Seq(Terminals \X Nat)
      BY DEF TerminalInv, TerminalTypeOK
    <2>. QED
      BY <2>1, ConcatSet, JoinInTurn DEF TerminalInv, OutputInv, Screen
  <1>3. ASSUME NEW t \in Terminals
        PROVE  Increasing(Upstream(t)) /\ ToSet(Upstream(t)) = ToSet(implOut[t]) \cup ToSet(mContToImpl[t])
    <2>. DEFINE a == implOut[t]
                b == mContToImpl[t]
    <2>1. a \in Seq(Nat) /\ b \in Seq(Nat)
      BY DEF TerminalInv, TerminalTypeOK
    <2>2. Increasing(a) /\ Increasing(b) /\ Below(ToSet(a), ToSet(b)) /\ Upstream(t) = a \o b
      BY DEF TerminalInv, OutputInv, OutputOrderly, Upstream
    <2>. HIDE DEF a, b
    <2>3. ToSet(a \o b) = ToSet(a) \cup ToSet(b)
      BY <2>1, ConcatSet
    <2>4. Increasing(a \o b)
      BY <2>1, <2>2, JoinIncreasing
    <2>. QED
      BY <2>2, <2>3, <2>4 DEF a, b
  <1>4. ASSUME NEW t \in Terminals
        PROVE  /\ \A m \in OutputOf(t, ToSet(Screen)), n \in ToSet(Upstream(t)) : m < n
               /\ OutputOf(t, ToSet(Screen) \cup missed) \cup ToSet(Upstream(t)) = 1 .. produced[t]
    <2>. DEFINE S == ToSet(shown) \cup ToSet(mAppToTerm)
    <2>1. OutputOrderly(t, S, implOut[t], mContToImpl[t])
          /\ OutputOf(t, S \cup missed) \cup ToSet(implOut[t]) \cup ToSet(mContToImpl[t]) = 1 .. produced[t]
      BY DEF TerminalInv, OutputInv
    <2>2. ToSet(Screen) = S
      BY <1>2
    <2>. HIDE DEF S
    <2>. QED
      BY <1>3, <2>1, <2>2 DEF OutputOrderly, Below
  <1>5. (UNION {ToSet(Downstream(t)) : t \in Terminals}) \cup ToSet(mTermToApp) \cup consumed
         = (1 .. keysTaken) \ discarded
    <2>1. UNION {ToSet(Downstream(t)) : t \in Terminals} = AllPassed
      <3>1. {ToSet(Downstream(t)) : t \in Terminals} = {Passed(t) : t \in Terminals}
        BY <1>1
      <3>. QED
        BY <3>1, Zenon DEF AllPassed
    <2>2. AllPassed \cup ToSet(mTermToApp) \cup consumed = (1 .. keysTaken) \ discarded
      BY DEF TerminalInv, KeysInv, KeysRead
    <2>. QED
      BY <2>1, <2>2, Zenon
  <1>6. \A t, u \in Terminals : t # u => ToSet(Downstream(t)) \cap ToSet(Downstream(u)) = {}
    BY <1>1 DEF TerminalInv, KeysInv
  <1>. QED
    BY <1>1, <1>2, <1>3, <1>4, <1>5, <1>6 DEF RelaySound, RelayExact, TerminalInv, KeysInv

\* The guard's relays and the console's, for any number of terminals and any sizes of
\* buffers and ptys: every key that the console reads and every byte of output gets through
\* in order, and once, what is discarded was not read, and a descriptor is polled for writing exactly while something waits for it.
THEOREM RelaysAreSound == TerminalSpec => [](TerminalTypeOK /\ RelaySound)
  <1>1. TerminalInit => TerminalInv
    BY TerminalStarts
  <1>2. TerminalInv /\ [TerminalNext]_terminalVars => TerminalInv'
    BY TerminalStep
  <1>3. TerminalInv => TerminalTypeOK /\ RelaySound
    BY RelayIsSound
  <1>. QED
    BY <1>1, <1>2, <1>3, PTL DEF TerminalSpec
=============================================================================
