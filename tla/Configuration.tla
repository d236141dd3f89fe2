---------------------------- MODULE Configuration ----------------------------
(***************************************************************************)
(* Whose configuration a container runs with.  A ContainerImpl keeps one   *)
(* in memory and lets it be changed at any time; the guard gets a copy     *)
(* when it says that it is ready, and makes init of that copy; an object   *)
(* that connects later has its own replaced by the guard's.  Objects come  *)
(* one after another (never two at once), a program that ends leaves the   *)
(* guard where it is, and between an object and the guard are messages.    *)
(***************************************************************************)
EXTENDS Naturals, SequencesExt

CONSTANTS
  Provided,    \* declarations: files, mounts, links
  Values,      \* what is set: variables, limits, parameters, interfaces, maps of ids
  Refused,     \* of these, what start() does not take
  MaxObjects   \* bound on the objects, one after another

Settings == Provided \cup Values

ASSUME ConfigurationAssumption ==
  Refused \subseteq Settings /\ "none" \notin Settings /\ MaxObjects \in Nat

Nothing == {"none"}   \* no configuration yet

VARIABLES
  object,       \* the number of the last object
  objectStep,   \* "none", "stopped", "starting", "connecting", "handing", "joined"
  mConfig,      \* its settings
  changed,      \* what was changed in it since it was the guard's last (ghost)
  guardUp,
  guardSettings, \* the guard's configuration
  initSettings,  \* what init was made of
  inbox,        \* messages to the object
  guardEvents   \* connections and messages that the guard has yet to see

configurationVars == <<object, objectStep, mConfig, changed, guardUp, guardSettings,
                       initSettings, inbox, guardEvents>>

Configurations == SUBSET Settings

ConfigurationTypeOK ==
  /\ object \in 0 .. MaxObjects
  /\ objectStep \in {"none", "stopped", "starting", "connecting", "handing", "joined"}
  /\ mConfig \in Configurations /\ changed \in Configurations
  /\ guardUp \in BOOLEAN
  /\ {guardSettings, initSettings} \subseteq Configurations \cup {Nothing}
  /\ initSettings # Nothing => guardSettings = initSettings
  /\ \A i \in DOMAIN inbox : inbox[i].what \in {"GUARD_READY", "GUARD_CONNECTED"}
  /\ \A i \in DOMAIN guardEvents : guardEvents[i].what \in {"connection", "SET_CONFIG", "START"}

ConfigurationInit ==
  /\ object = 0 /\ objectStep = "none" /\ mConfig = {} /\ changed = {}
  /\ guardUp = FALSE /\ guardSettings = Nothing /\ initSettings = Nothing
  /\ inbox = <<>> /\ guardEvents = <<>>

Message(what, by, given) == [what |-> what, by |-> by, given |-> given]

-----------------------------------------------------------------------------
(* The object.                                                             *)

ObjectOnly == UNCHANGED <<object, guardUp, guardSettings, initSettings>>

ConstructObject ==
  /\ objectStep = "none" /\ object < MaxObjects
  /\ object' = object + 1 /\ objectStep' = "stopped"
  /\ mConfig' = {} /\ changed' = {}
  /\ UNCHANGED <<guardUp, guardSettings, initSettings, inbox, guardEvents>>

\* The program ends: what it sent may still be read.
ObjectEnds ==
  /\ objectStep # "none" /\ objectStep' = "none"
  /\ inbox' = <<>>
  /\ UNCHANGED <<mConfig, changed, guardEvents>> /\ ObjectOnly

ChangedTo(given, s) ==
  /\ objectStep # "none"
  /\ mConfig' = given /\ changed' = changed \cup {s}
  /\ UNCHANGED <<objectStep, inbox, guardEvents>> /\ ObjectOnly

\* What is declared already, and the removal of what is not, are refused.
DeclareProvided(s) == s \notin mConfig /\ ChangedTo(mConfig \cup {s}, s)
RemoveProvided(s) == s \in mConfig /\ ChangedTo(mConfig \ {s}, s)

\* The setters replace what was set; those that add a limit, a group, an interface add.
SetValue(s) == \E given \in {mConfig \cup {s}, mConfig \ {s}} : ChangedTo(given, s)

\* connect(), where a guard serves.
ConnectObject ==
  /\ objectStep = "stopped" /\ guardUp
  /\ objectStep' = "connecting"
  /\ guardEvents' = Append(guardEvents, Message("connection", object, {}))
  /\ UNCHANGED <<mConfig, changed, inbox>> /\ ObjectOnly

\* A new guard, detached from the program; the object connects when it sees its socket.
ForkGuard ==
  /\ guardUp' = TRUE /\ guardSettings' = Nothing /\ initSettings' = Nothing
  /\ guardEvents' = <<Message("connection", object, {})>>

\* start(): what it does not take is an exception, and the state is left behind.
StartObject ==
  /\ objectStep = "stopped" /\ ~guardUp
  /\ objectStep' = "starting"
  /\ IF mConfig \cap Refused # {}
     THEN UNCHANGED <<guardUp, guardSettings, initSettings, guardEvents>>
     ELSE ForkGuard
  /\ UNCHANGED <<object, mConfig, changed, inbox>>

ReadInbox(what) == inbox # <<>> /\ Head(inbox).what = what /\ inbox' = Tail(inbox)

\* onGuardReady, whoever forked the guard.
GuardReadyMet ==
  /\ ReadInbox("GUARD_READY")
  /\ objectStep' = "handing"
  /\ UNCHANGED <<mConfig, changed, guardEvents>> /\ ObjectOnly

\* The IPC library writes what mConfig holds by then: the call was given the pointer.
HandOver ==
  /\ objectStep = "handing" /\ objectStep' = "joined" /\ changed' = {}
  /\ guardEvents' =
       guardEvents \o <<Message("SET_CONFIG", object, mConfig), Message("START", object, {})>>
  /\ UNCHANGED <<mConfig, inbox>> /\ ObjectOnly

\* Mutant: what was changed before the guard's configuration came is kept.
Mutant_Replaced(given) == mConfig \cup given

Replaced(given) == given

\* onGuardConnected: what was changed meanwhile is lost.
TakeOver ==
  /\ ReadInbox("GUARD_CONNECTED")
  /\ objectStep' = "joined" /\ changed' = {}
  /\ mConfig' = Replaced(Head(inbox).given)
  /\ UNCHANGED guardEvents /\ ObjectOnly

-----------------------------------------------------------------------------
(* The guard, which takes events in the order they came.                   *)

NextEvent(what) ==
  /\ guardUp /\ guardEvents # <<>>
  /\ Head(guardEvents).what = what /\ guardEvents' = Tail(guardEvents)

Reply(what) ==
  inbox' = IF Head(guardEvents).by = object /\ objectStep # "none"
           THEN Append(inbox, Message(what, 0,
                                      IF what = "GUARD_READY" THEN {} ELSE guardSettings))
           ELSE inbox

GuardMeets ==
  /\ NextEvent("connection")
  /\ Reply(IF guardSettings = Nothing THEN "GUARD_READY" ELSE "GUARD_CONNECTED")
  /\ UNCHANGED <<object, objectStep, mConfig, changed, guardUp, guardSettings, initSettings>>

GuardConfigured ==
  /\ NextEvent("SET_CONFIG")
  /\ guardSettings' = Head(guardEvents).given
  /\ UNCHANGED <<object, objectStep, mConfig, changed, guardUp, initSettings, inbox>>

\* onStart, which may throw before it has an init.
GuardStarts(throws) ==
  /\ NextEvent("START")
  /\ initSettings' = IF throws THEN initSettings ELSE guardSettings
  /\ UNCHANGED <<object, objectStep, mConfig, changed, guardUp, guardSettings, inbox>>

\* What others than h sent.
SentByOthers(h) ==
  LET upTo[n \in 0 .. Len(guardEvents)] ==
        IF n = 0 THEN <<>>
        ELSE IF guardEvents[n].by = h THEN upTo[n - 1] ELSE Append(upTo[n - 1], guardEvents[n])
  IN  upTo[Len(guardEvents)]

\* What an object that is gone has sent and nobody read is lost when the guard sees its end.
PeerRemoved(h) ==
  /\ h < object \/ objectStep = "none"
  /\ \E i \in DOMAIN guardEvents : guardEvents[i].by = h
  /\ guardEvents[1].by = h => guardEvents[1].what # "connection"
  /\ guardEvents' = SentByOthers(h)
  /\ UNCHANGED <<object, objectStep, mConfig, changed, guardUp, guardSettings, initSettings, inbox>>

\* Init exits, and the guard with it.
GuardEnds ==
  /\ guardUp /\ initSettings # Nothing
  /\ guardUp' = FALSE /\ guardSettings' = Nothing /\ initSettings' = Nothing /\ guardEvents' = <<>>
  /\ UNCHANGED <<object, objectStep, mConfig, changed, inbox>>

ConfigurationNext ==
  \/ ConstructObject \/ ObjectEnds \/ ConnectObject \/ StartObject
  \/ GuardReadyMet \/ HandOver \/ TakeOver
  \/ \E s \in Provided : DeclareProvided(s) \/ RemoveProvided(s)
  \/ \E s \in Values : SetValue(s)
  \/ GuardMeets \/ GuardConfigured \/ (\E throws \in BOOLEAN : GuardStarts(throws)) \/ GuardEnds
  \/ \E h \in 1 .. MaxObjects : PeerRemoved(h)

ConfigurationSpec == ConfigurationInit /\ [][ConfigurationNext]_configurationVars

-----------------------------------------------------------------------------
\* What an object says of a container that runs is what the container's init was made of,
\* but for what was changed through it since: whoever started the container, with whose
\* configuration, and whatever was changed while the messages were on their way.
ShownIsRun ==
  (objectStep = "joined" /\ initSettings # Nothing) =>
    \A s \in Settings \ changed : s \in mConfig <=> s \in initSettings
=============================================================================
