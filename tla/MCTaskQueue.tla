---------------------------- MODULE MCTaskQueue ----------------------------
(* Small instances of TaskQueue for TLC. *)
EXTENDS TaskQueue

CONSTANTS i1, i2, d1

\* Two clients of one thread and one of the other; between them they make every
\* kind of call, and both threads can lock the queue.
FewCalls == (i1 :> {"lock", "unlock", "later"}) @@ (i2 :> {"write"}) @@ (d1 :> {"lock", "read"})
AllCalls == [c \in Clients |-> Kinds]
=============================================================================
