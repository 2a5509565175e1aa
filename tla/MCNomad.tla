------------------------------- MODULE MCNomad -------------------------------
(* NomadJob with values for its constants. *)
EXTENDS NomadJob

\* Two repositories that share the job, and one mapped to a task it lacks.
SharedJob == [r \in Repo |-> CASE r = "api" -> "api-task" [] r = "web" -> "web-task"
                               [] OTHER -> "gone-task"]

\* registrywatcher's own job, with its backend and its dashboard.
OwnJob == [r \in Repo |-> r]
==============================================================================
