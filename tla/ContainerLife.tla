--------------------------- MODULE ContainerLife ---------------------------
(***************************************************************************)
(* What lxcpp promises about the state of a container: an object's         *)
(* getState() follows the life of the container's init.  It never shows a  *)
(* state the init has not reached in this life, and it never goes back.    *)
(***************************************************************************)

VARIABLES
  life,   \* of init: "off"; "starting"; "up"; "down": it exited
  shown   \* what the object's getState() returns; "none": there is no object

vars == <<life, shown>>

\* A state is old news at worst: init got there, or beyond.
Reached(state) ==
  CASE state = "STARTING" -> life # "off"
    [] state \in {"RUNNING", "STOPPING"} -> life \in {"up", "down"}
    [] state = "STOPPED" -> life \in {"starting", "down"}

Init == life = "off" /\ shown = "none"

\* An object comes and goes.
Construct == shown = "none" /\ shown' = "STOPPED" /\ UNCHANGED life
Vanish    == shown # "none" /\ shown' = "none" /\ UNCHANGED life
Connect   == shown = "STOPPED" /\ life # "off" /\ shown' = "CONNECTING" /\ UNCHANGED life

\* start(), which may give up after it changed the state.
Start ==
  /\ shown = "STOPPED"
  /\ shown' = "STARTING"
  /\ life' = "starting" \/ UNCHANGED life

Up   == life = "starting" /\ life' = "up" /\ UNCHANGED shown
Down == life \in {"starting", "up"} /\ life' = "down" /\ UNCHANGED shown

Stop == shown = "RUNNING" /\ shown' = "STOPPING" /\ UNCHANGED life

\* The object learns what became of init.
Learn(state) ==
  /\ Reached(state)
  /\ shown \in CASE state \in {"STARTING", "STOPPING"} -> {"CONNECTING"}
                 [] state = "RUNNING" -> {"STOPPED", "STARTING", "CONNECTING"}
                 [] state = "STOPPED" -> {"STARTING", "CONNECTING", "RUNNING", "STOPPING"}
  /\ shown' = state
  /\ UNCHANGED life

Next ==
  \/ Construct \/ Vanish \/ Connect \/ Start \/ Up \/ Down \/ Stop
  \/ \E state \in {"STARTING", "RUNNING", "STOPPING", "STOPPED"} : Learn(state)

Spec == Init /\ [][Next]_vars
=============================================================================
