------------------------------- MODULE Client -------------------------------
(***************************************************************************)
(* The client library, client/vasum-client-impl.cpp: one object, called by *)
(* several threads of a program (the example in vasum-client.h runs        *)
(* vsm_enter_eventloop on a thread of its own).  Every function runs its   *)
(* work in coverException, which turns what it throws into the status that *)
(* the function returns and that vsm_get_status gives.                     *)
(***************************************************************************)
EXTENDS Naturals, FiniteSets

CONSTANTS
  Callers,       \* the program's threads
  MaxClientCalls \* bound on the calls of a thread

ASSUME ClientAssumption == MaxClientCalls \in Nat /\ "free" \notin Callers

VARIABLES
  mClient,       \* "none", "stopped" (start() threw), or "started"
  mDispatcher,   \* "none", "internal" or "external": which pointer is set
  mStatus,       \* the status of a call, and whose it is
  mStatusMutex,  \* the thread that locked it, or "free"
  caller,        \* of each thread: where it is, and how its work ended
  ended,         \* of each thread in a call, the outcomes of calls that may be in mStatus (ghost)
  returned,      \* what it is about to return (ghost)
  anyThrew       \* a call threw since the last moment without a call (ghost)

clientVars == <<mClient, mDispatcher, mStatus, mStatusMutex, caller, ended, returned, anyThrew>>

Statuses == {"SUCCESS", "IO_ERROR", "OPERATION_FAILED", "INVALID_ARGUMENT", "OTHER_ERROR", "CUSTOM_ERROR"}

\* Of a call: its outcome, the thread and the number of the call there.
CallOutcomes(t) == [status : Statuses, by : {t}, nth : 1 .. MaxClientCalls]
NoStatus == [status |-> "SUCCESS", by |-> "none", nth |-> 0]
StatusSpace == {NoStatus} \cup UNION {CallOutcomes(t) : t \in Callers}

ClientTypeOK ==
  /\ mClient \in {"none", "stopped", "started"}
  /\ mDispatcher \in {"none", "internal", "external"}
  /\ mStatus \in StatusSpace
  /\ mStatusMutex \in Callers \cup {"free"}
  /\ caller \in [Callers -> [at : {"idle", "lock", "set", "read", "unlock"},
                             calls : 0 .. MaxClientCalls, own : StatusSpace]]
  /\ ended \in [Callers -> SUBSET StatusSpace]
  /\ returned \in [Callers -> StatusSpace]
  /\ anyThrew \in BOOLEAN

ClientInit ==
  /\ mClient = "none" /\ mDispatcher = "none"
  /\ mStatus = NoStatus /\ mStatusMutex = "free"
  /\ caller = [t \in Callers |-> [at |-> "idle", calls |-> 0, own |-> NoStatus]]
  /\ ended = [t \in Callers |-> {}]
  /\ returned = [t \in Callers |-> NoStatus]
  /\ anyThrew = FALSE

-----------------------------------------------------------------------------
\* coverException's catch clauses.
StatusOf(thrown) ==
  CASE thrown = "nothing" -> "SUCCESS"
    [] thrown \in {"IOException", "IPCException"} -> "IO_ERROR"
    [] thrown = "OperationFailedException" -> "OPERATION_FAILED"
    [] thrown = "InvalidArgumentException" -> "INVALID_ARGUMENT"
    [] thrown = "InvalidResponseException" -> "OTHER_ERROR"
    [] thrown \in {"ClientException", "IPCUserException", "std::exception"} -> "CUSTOM_ERROR"

\* What a synchronous call to the server throws: the server's answer or the connection.
CallSync == {"nothing", "IPCUserException", "IPCException"}
Argument == {"InvalidArgumentException"}

\* The functions, with what their work may throw.
QueueCalls == [vsm_lock_queue |-> CallSync, vsm_unlock_queue |-> CallSync]

ZoneCalls ==
  [vsm_get_zone_ids |-> CallSync \cup Argument,
   vsm_get_active_zone_id |-> CallSync \cup Argument,
   vsm_lookup_zone_by_id |-> CallSync \cup Argument \cup {"InvalidResponseException"},
   vsm_lookup_zone_by_terminal_id |-> {"OperationFailedException"},
   vsm_set_active_zone |-> CallSync \cup Argument,
   vsm_create_zone |-> CallSync \cup Argument,
   vsm_destroy_zone |-> CallSync \cup Argument,
   vsm_shutdown_zone |-> CallSync \cup Argument]

StateCalls ==
  [vsm_start_zone |-> CallSync \cup Argument,
   vsm_lock_zone |-> CallSync \cup Argument,
   vsm_unlock_zone |-> CallSync \cup Argument,
   vsm_add_state_callback |-> {"OperationFailedException"},
   vsm_del_state_callback |-> {"nothing"},
   vsm_grant_device |-> CallSync \cup Argument,
   vsm_revoke_device |-> CallSync \cup Argument]

AddressCalls ==
  [vsm_zone_get_netdevs |-> CallSync \cup Argument,
   vsm_netdev_get_ip_addr |-> CallSync \cup Argument,
   vsm_netdev_get_ipv4_addr |-> CallSync \cup Argument,
   vsm_netdev_get_ipv6_addr |-> CallSync \cup Argument,
   vsm_netdev_add_ipv4_addr |-> CallSync \cup Argument,
   vsm_netdev_add_ipv6_addr |-> CallSync \cup Argument]

NetdevCalls ==
  [vsm_netdev_del_ipv4_addr |-> CallSync \cup Argument,
   vsm_netdev_del_ipv6_addr |-> CallSync \cup Argument,
   vsm_netdev_up |-> CallSync \cup Argument,
   vsm_netdev_down |-> CallSync \cup Argument,
   vsm_create_netdev_veth |-> CallSync \cup Argument,
   vsm_create_netdev_macvlan |-> CallSync \cup Argument,
   vsm_create_netdev_phys |-> CallSync \cup Argument]

\* The type of a device is a number in text.
DeviceCalls ==
  [vsm_lookup_netdev_by_name |-> CallSync \cup Argument \cup
     {"OperationFailedException", "InvalidResponseException", "std::exception"},
   vsm_destroy_netdev |-> CallSync \cup Argument]

DeclarationCalls ==
  [vsm_declare_file |-> CallSync \cup Argument,
   vsm_declare_mount |-> CallSync \cup Argument,
   vsm_declare_link |-> CallSync \cup Argument,
   vsm_list_declarations |-> CallSync \cup Argument,
   vsm_remove_declaration |-> CallSync \cup Argument,
   vsm_clean_up_zones_root |-> CallSync]

\* The functions that need no connection.
vsm_lookup_zone_by_pid == {"nothing", "OperationFailedException", "InvalidArgumentException", "std::exception"}
vsm_get_poll_fd ==
  {"InvalidArgumentException"} \cup {IF mDispatcher = "internal" THEN "OperationFailedException" ELSE "nothing"}
vsm_get_dispatcher_type == {"nothing", "InvalidArgumentException"}
vsm_enter_eventloop == {IF mDispatcher = "internal" THEN "OperationFailedException" ELSE "nothing"}

Thrown(calls) == UNION {calls[f] : f \in DOMAIN calls}
ServerCalls ==
  Thrown(QueueCalls) \cup Thrown(ZoneCalls) \cup Thrown(StateCalls) \cup Thrown(AddressCalls)
  \cup Thrown(NetdevCalls) \cup Thrown(DeviceCalls) \cup Thrown(DeclarationCalls)
LocalCalls ==
  vsm_lookup_zone_by_pid \cup vsm_get_dispatcher_type
  \cup IF mDispatcher = "none" THEN {} ELSE vsm_get_poll_fd \cup vsm_enter_eventloop

-----------------------------------------------------------------------------
IdleCaller(t) == caller[t].at = "idle" /\ caller[t].calls < MaxClientCalls
Alone(t) == \A u \in Callers \ {t} : caller[u].at = "idle"

\* What the worker threw; only success waits for the lock.
Began(t, thrown) ==
  LET own == [status |-> StatusOf(thrown), by |-> t, nth |-> caller[t].calls + 1]
  IN  /\ caller' = [caller EXCEPT ![t] = [at |-> IF thrown = "nothing" THEN "lock" ELSE "set",
                                          calls |-> @.calls + 1, own |-> own]]
      \* the calls that others make now may still be writing their status
      /\ ended' = [u \in Callers |->
                     IF u = t THEN {own} \cup {caller[v].own : v \in {w \in Callers \ {t} : caller[w].at # "idle"}}
                     ELSE IF caller[u].at = "idle" THEN {} ELSE ended[u] \cup {own}]
      /\ anyThrew' = (thrown # "nothing" \/ (anyThrew /\ ~Alone(t)))
      /\ UNCHANGED <<mStatus, mStatusMutex, returned>>

\* A function that asks the server: connected at least once, or it dereferences
\* nothing; a client that is not started throws.
ServerCall(t) ==
  /\ IdleCaller(t) /\ mClient # "none"
  /\ \E thrown \in IF mClient = "started" THEN ServerCalls ELSE ServerCalls \ {"nothing"} : Began(t, thrown)
  /\ UNCHANGED <<mClient, mDispatcher>>

LocalCall(t) ==
  /\ IdleCaller(t)
  /\ \E thrown \in LocalCalls : Began(t, thrown)
  /\ UNCHANGED <<mClient, mDispatcher>>

\* The pointers are not protected: a program that connects, disconnects or
\* sets the dispatcher makes no other call meanwhile.
connect(t, address) ==
  /\ IdleCaller(t) /\ Alone(t)
  /\ mDispatcher' = IF mDispatcher = "none" THEN "internal" ELSE mDispatcher
  /\ mClient' = IF address = "served" THEN "started" ELSE "stopped"
  /\ Began(t, IF address = "served" THEN "nothing" ELSE "IPCException")

disconnect(t) ==
  /\ IdleCaller(t) /\ Alone(t)
  /\ mClient' = "none"
  /\ Began(t, "nothing")
  /\ UNCHANGED mDispatcher

isConnected == mClient = "started"

vsm_set_dispatcher_type(t, type) ==
  /\ IdleCaller(t) /\ Alone(t)
  /\ IF isConnected \/ type = "unsupported"
     THEN Began(t, "OperationFailedException") /\ UNCHANGED mDispatcher
     ELSE Began(t, "nothing") /\ mDispatcher' = type
  /\ UNCHANGED mClient

-----------------------------------------------------------------------------
Moves(t, to) == caller' = [caller EXCEPT ![t].at = to]

\* Mutant: the status is set without the lock.
Mutant_LockStatus(t) ==
  /\ caller[t].at = "lock"
  /\ Moves(t, "set")
  /\ UNCHANGED <<mClient, mDispatcher, mStatus, mStatusMutex, ended, returned, anyThrew>>

\* coverException after the worker: lock, only if nothing was thrown.
LockStatus(t) ==
  /\ caller[t].at = "lock" /\ mStatusMutex = "free"
  /\ mStatusMutex' = t
  /\ Moves(t, "set")
  /\ UNCHANGED <<mClient, mDispatcher, mStatus, ended, returned, anyThrew>>

SetStatus(t) ==
  /\ caller[t].at = "set"
  /\ mStatus' = caller[t].own
  /\ Moves(t, "read")
  /\ UNCHANGED <<mClient, mDispatcher, mStatusMutex, ended, returned, anyThrew>>

\* ret = mStatus.mVsmStatus
ReadStatus(t) ==
  /\ caller[t].at = "read"
  /\ returned' = [returned EXCEPT ![t] = mStatus]
  /\ Moves(t, "unlock")
  /\ UNCHANGED <<mClient, mDispatcher, mStatus, mStatusMutex, ended, anyThrew>>

\* unlock: whoever locked it, and whether it is locked or not.
UnlockStatus(t) ==
  /\ caller[t].at = "unlock"
  /\ mStatusMutex' = "free"
  /\ caller' = [caller EXCEPT ![t] = [@ EXCEPT !.at = "idle", !.own = NoStatus]]
  /\ ended' = [ended EXCEPT ![t] = {}]
  /\ returned' = [returned EXCEPT ![t] = NoStatus]
  /\ UNCHANGED <<mClient, mDispatcher, mStatus, anyThrew>>

ClientNext ==
  \E t \in Callers :
    \/ ServerCall(t) \/ LocalCall(t)
    \/ \E address \in {"served", "dead"} : connect(t, address)
    \/ disconnect(t)
    \/ \E type \in {"internal", "external", "unsupported"} : vsm_set_dispatcher_type(t, type)
    \/ LockStatus(t) \/ SetStatus(t) \/ ReadStatus(t) \/ UnlockStatus(t)

ClientSpec == ClientInit /\ [][ClientNext]_clientVars

-----------------------------------------------------------------------------
\* The status that t is about to return is of its own call.
OwnStatus(t) == returned[t] = caller[t].own

\* A function returns its own status or, where a function that throws writes the status
\* without the lock and gives back that of another, the status of a call that overlapped
\* it: never one of a call that was over before it began.
StatusNotStale ==
  \A t \in Callers : caller[t].at = "unlock" => returned[t] \in ended[t]

\* As long as no function throws, the lock serves: each returns its own status, whoever
\* calls meanwhile.
StatusLocked ==
  ~anyThrew => \A t \in Callers : caller[t].at = "unlock" => OwnStatus(t)

\* What coverException keeps of the promise of vasum-client.h.
StatusSound == StatusNotStale /\ StatusLocked
=============================================================================
