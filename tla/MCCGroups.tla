----------------------------- MODULE MCCGroups -----------------------------
(* Small instances of CGroups for TLC. *)
EXTENDS CGroups, TLC

\* c1 mounts cpuset first, which cpu is a part of, at a path that begins as the one
\* for cpu; c2 mounts cpu elsewhere.  Both want a group of cpu.
MountOf(name, path) == [name |-> name, path |-> path]
MCSubsystems == ("c1" :> <<MountOf("cpuset", "/cg/cpuset"), MountOf("cpu", "/cg/cpu")>>)
                @@ ("c2" :> <<MountOf("cpu", "/run/cpu")>>)
GroupOf(subsystem, params) ==
  [subsystem |-> subsystem, name |-> "x", common |-> {"clone_children"}, params |-> params]
MCGroups == ("c1" :> <<GroupOf("cpu", {}), GroupOf("cpuset", {"cpus"})>>)
            @@ ("c2" :> <<GroupOf("cpu", {"shares"})>>)
MCNameWithin == {<<"cpu", "cpuset">>}
MCPathWithin == {<<"/cg/cpuset", "/cg/cpu">>}
=============================================================================
