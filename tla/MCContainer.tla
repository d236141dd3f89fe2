---------------------------- MODULE MCContainer ----------------------------
(* Small instances of Container for TLC. *)
EXTENDS Container

AllFailures == {"configure", "spawn", "prep", "clone", "cleanup", "hostCleanup"}
=============================================================================
