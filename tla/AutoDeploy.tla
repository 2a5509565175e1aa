------------------------------ MODULE AutoDeploy ------------------------------
(***************************************************************************)
(* What registrywatcher promises of one repository, without polls, caches  *)
(* or handlers: the job is given the image its pin stands for, in the end, *)
(* whenever that image changes while auto deployment is on and whenever a  *)
(* request pins a tag.                                                     *)
(***************************************************************************)
CONSTANTS Hubs,        \* what the registry may hold
          Pins,        \* what may be pinned
          Wanted(_, _) \* Wanted(hub, pin): the image a pin stands for

VARIABLES hub, pinned, auto, running,
          owed         \* a deployment has been called for and not yet made

vars == <<hub, pinned, auto, running, owed>>

Init ==
  /\ hub \in Hubs
  /\ pinned \in Pins
  /\ auto \in BOOLEAN
  /\ running = Wanted(hub, pinned)
  /\ owed = FALSE

\* The registry changes. Nothing is owed for a change made while auto
\* deployment is off, not even once it is on again.
Change ==
  /\ hub' \in Hubs
  /\ owed' = (owed \/ (auto /\ Wanted(hub', pinned) # Wanted(hub, pinned)))
  /\ UNCHANGED <<pinned, auto, running>>

SetAuto ==
  /\ auto' \in BOOLEAN
  /\ UNCHANGED <<hub, pinned, running, owed>>

SetPin ==
  /\ pinned' \in Pins
  /\ owed' = TRUE
  /\ UNCHANGED <<hub, auto, running>>

\* The job may be deployed again without need, never with another image.
Deploy ==
  /\ running' = Wanted(hub, pinned)
  /\ owed' = FALSE
  /\ UNCHANGED <<hub, pinned, auto>>

Next == Change \/ SetAuto \/ SetPin \/ Deploy

Spec == Init /\ [][Next]_vars /\ WF_vars(owed /\ Deploy)

==============================================================================
