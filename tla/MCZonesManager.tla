--------------------------- MODULE MCZonesManager ---------------------------
(* Small instances of ZonesManager for TLC. *)
EXTENDS ZonesManager

\* Templates that ask for a virtual terminal, and those that do not.
GraphicalOnly == {0}
TextOnly == {NoVT}

\* Ids are interchangeable when all or none of them may be left for the default.
Renaming == Permutations(Ids)

\* No action reads the last reply: runs whose properties do not either can
\* forget it.
WithoutReply == <<memory, disk, zone, shownVT>>

\* A bound for the run with database faults: only the active zone runs, and none is paused.
OnlyActiveRuns ==
  \A i \in Names : zone[i].lxc = "STOPPED" \/ (zone[i].lxc = "RUNNING" /\ i = mActiveZoneId)
=============================================================================
