------------------------------- MODULE UserNS -------------------------------
(***************************************************************************)
(* Ids of a container with a user namespace: the maps that the user gives  *)
(* (container-impl.cpp, userns-config.cpp), their checks when the          *)
(* container starts, the kernel's own maps, written by the guard           *)
(* (commands/setup-userns.cpp), and the conversion by which the guard      *)
(* chooses the owners of the files it prepares.  Ids are unsigned numbers  *)
(* of Width values and wrap.                                               *)
(***************************************************************************)
EXTENDS Integers, SequencesExt

CONSTANTS
  Width,              \* 2^32
  UidRanges, GidRanges, \* the maps a user may add
  mPtsGID,
  MaxMaps             \* bound on the maps added; the code's own bound is 5

Ids == 0 .. Width - 1
Ranges == [cont : Ids, host : Ids, num : Ids]

ASSUME UserNSAssumption ==
  /\ Width \in Nat \ {0}
  /\ UidRanges \subseteq Ranges /\ GidRanges \subseteq Ranges
  /\ mPtsGID \in Ids /\ MaxMaps \in Nat

VARIABLES
  mUIDMaps, mGIDMaps,
  newUser,        \* CLONE_NEWUSER is in mNamespaces
  kernelUids, kernelGids,  \* what the kernel maps; <<>> before it is written
  starting        \* "no", "checked", "mapped", "running" or "failed"

userNSVars == <<mUIDMaps, mGIDMaps, newUser, kernelUids, kernelGids, starting>>

UserNSTypeOK ==
  /\ mUIDMaps \in Seq(Ranges) /\ Len(mUIDMaps) <= 5 /\ mGIDMaps \in Seq(Ranges) /\ Len(mGIDMaps) <= 5
  /\ newUser \in BOOLEAN
  /\ kernelUids \in Seq(Ranges) /\ kernelGids \in Seq(Ranges)
  /\ starting \in {"no", "checked", "mapped", "running", "failed"}

UserNSInit ==
  /\ mUIDMaps = <<>> /\ mGIDMaps = <<>> /\ newUser = FALSE
  /\ kernelUids = <<>> /\ kernelGids = <<>> /\ starting = "no"

-----------------------------------------------------------------------------
\* Mutant: a range holds one id more.
Mutant_within(id, min, num) == min <= id /\ id <= (min + num) % Width

\* min <= id && id <= min + num - 1, in unsigned arithmetic: all ids from min on,
\* when num and min are 0.
within(id, min, num) == min <= id /\ id <= (min + num - 1) % Width

\* assertMapCorrect: a new range may not begin inside an old one.
MapCorrect(map, r) ==
  /\ Len(map) < 5
  /\ r.cont <= Width - 1 - r.num /\ r.host <= Width - 1 - r.num
  /\ \A i \in DOMAIN map : ~within(r.cont, map[i].cont, map[i].num) /\ ~within(r.host, map[i].host, map[i].num)

\* convContToHostID: by the first range that holds the id; none throws.
Holding(map, id) == {i \in DOMAIN map : within(id, map[i].cont, map[i].num)}
Throws(map, id) == map # <<>> /\ Holding(map, id) = {}
convContToHostID(map, id) ==
  IF map = <<>> THEN id
  ELSE LET i == CHOOSE i \in Holding(map, id) : \A j \in Holding(map, id) : i <= j
       IN  (map[i].host + (id - map[i].cont)) % Width

\* addUIDMap, addGIDMap: the flag is set before the map is found wrong.
addUIDMap(r) ==
  /\ starting = "no" /\ Len(mUIDMaps) < MaxMaps
  /\ newUser' = TRUE
  /\ mUIDMaps' = IF MapCorrect(mUIDMaps, r) THEN Append(mUIDMaps, r) ELSE mUIDMaps
  /\ UNCHANGED <<mGIDMaps, kernelUids, kernelGids, starting>>

addGIDMap(r) ==
  /\ starting = "no" /\ Len(mGIDMaps) < MaxMaps
  /\ newUser' = TRUE
  /\ mGIDMaps' = IF MapCorrect(mGIDMaps, r) THEN Append(mGIDMaps, r) ELSE mGIDMaps
  /\ UNCHANGED <<mUIDMaps, kernelUids, kernelGids, starting>>

\* start(): both kinds of maps or none, root and the terminals' group among them.
CheckMaps ==
  /\ starting = "no"
  /\ starting' = IF /\ (mUIDMaps = <<>>) = (mGIDMaps = <<>>)
                    /\ ~Throws(mUIDMaps, 0) /\ ~Throws(mGIDMaps, 0) /\ ~Throws(mGIDMaps, mPtsGID)
                 THEN "checked" ELSE "failed"
  /\ UNCHANGED <<mUIDMaps, mGIDMaps, newUser, kernelUids, kernelGids>>

-----------------------------------------------------------------------------
\* The kernel takes ranges that hold an id and are apart, on both sides.
Apart(a, b, n, m) == a + n <= b \/ b + m <= a
KernelTakes(map) ==
  /\ \A i \in DOMAIN map : map[i].num > 0
  /\ \A i, j \in DOMAIN map : i # j =>
       Apart(map[i].cont, map[j].cont, map[i].num, map[j].num) /\ Apart(map[i].host, map[j].host, map[i].num, map[j].num)

\* SetupUserNS::execute: what is not empty is written; what the kernel refuses
\* ends the start.
SetupMaps ==
  /\ starting = "checked"
  /\ IF KernelTakes(mUIDMaps) /\ KernelTakes(mGIDMaps)
     THEN /\ kernelUids' = mUIDMaps /\ kernelGids' = mGIDMaps
          /\ starting' = "mapped"
     ELSE starting' = "failed" /\ UNCHANGED <<kernelUids, kernelGids>>
  /\ UNCHANGED <<mUIDMaps, mGIDMaps, newUser>>

\* What the kernel makes of an id: without a user namespace, itself.
KernelMaps(kernel, id) == ~newUser \/ \E r \in ToSet(kernel) : r.cont <= id /\ id < r.cont + r.num
KernelId(kernel, id) ==
  IF ~newUser THEN id
  ELSE LET r == CHOOSE r \in ToSet(kernel) : r.cont <= id /\ id < r.cont + r.num IN r.host + (id - r.cont)

\* startContainer: setregid(0, 0) and setreuid(0, 0), which need root to be mapped.
BecomeRoot ==
  /\ starting = "mapped"
  /\ starting' = IF KernelMaps(kernelUids, 0) /\ KernelMaps(kernelGids, 0) THEN "running" ELSE "failed"
  /\ UNCHANGED <<mUIDMaps, mGIDMaps, newUser, kernelUids, kernelGids>>

\* The object goes, or the container stops, and another one is configured.
Discarded ==
  /\ starting \in {"running", "failed"}
  /\ mUIDMaps' = <<>> /\ mGIDMaps' = <<>> /\ newUser' = FALSE
  /\ kernelUids' = <<>> /\ kernelGids' = <<>> /\ starting' = "no"

UserNSNext ==
  \/ \E r \in UidRanges : addUIDMap(r)
  \/ \E r \in GidRanges : addGIDMap(r)
  \/ CheckMaps \/ SetupMaps \/ BecomeRoot \/ Discarded

UserNSSpec == UserNSInit /\ [][UserNSNext]_userNSVars

-----------------------------------------------------------------------------
Agrees(map, kernel) ==
  /\ \A id \in Ids : Throws(map, id) <=> ~KernelMaps(kernel, id)
  /\ \A id \in Ids : ~Throws(map, id) => convContToHostID(map, id) = KernelId(kernel, id)
  /\ \A id, jd \in Ids : id # jd /\ ~Throws(map, id) /\ ~Throws(map, jd) =>
       convContToHostID(map, id) # convContToHostID(map, jd)

\* In a container that runs, the owner the guard chooses for a file is the one
\* the kernel shows inside, for every id, and no two ids share one: overlapping,
\* empty or wrapping ranges that the library accepts, and a namespace whose maps
\* were all refused, do not get as far as a running container.
KernelAgrees ==
  starting = "running" => Agrees(mUIDMaps, kernelUids) /\ Agrees(mGIDMaps, kernelGids)
=============================================================================
