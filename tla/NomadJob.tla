------------------------------- MODULE NomadJob -------------------------------
(***************************************************************************)
(* One Nomad job and the calls of UpdateNomadJobTag that deploy to it: each *)
(* reads the job, edits its own copy, and leaves a RestartNomadJob          *)
(* goroutine to register that copy and to monitor the deployment. A job may *)
(* hold the tasks of several watched repositories.                          *)
(***************************************************************************)
EXTENDS Naturals

CONSTANTS
  Task,       \* the tasks of the job, by name
  Repo,       \* the watched repositories mapped to the job
  TaskOf,     \* nomad_task_name of each; the job may lack the task
  UiTask,     \* the task name the code treats apart: registrywatcher-ui
  UiRepo,     \* the repository of that name
  Tag,        \* the tags that may be deployed
  Call,       \* one element per call of UpdateNomadJobTag
  Restarts,   \* values of Meta["restart"] the job may start with
  MaxFaults   \* bound: calls to Nomad that fail

Image == [repo : Repo \union {UiRepo}, tag : Tag]

\* other: the job's Meta has keys besides "restart".
Job == [image : [Task -> Image], restart : {"unset", "foo", "bar"},
        other : BOOLEAN]

ASSUME JobAssumption ==
  /\ Restarts \subseteq {"unset", "foo", "bar"}
  /\ MaxFaults \in Nat

VARIABLES
  job,     \* the job as Nomad holds it
  copy,    \* the job as each call has read and edited it
  stale,   \* history: Nomad's job has changed since the call read it
  want,    \* what each call deploys
  pc,      \* where each call, then its goroutine, is
  timer,   \* the goroutine that ends the monitoring after 20 minutes
  status,  \* the deployment each registration has started
  reports, \* how often each monitor has reported its outcome to Slack
  faults   \* how much of the bound on failures has been used

monitor == <<timer, status, reports>>
vars == <<job, copy, stale, want, pc, monitor, faults>>

Init ==
  /\ \E tag \in Tag, restart \in Restarts, own \in [Task -> Repo] :
       /\ \A k \in Task : TaskOf[own[k]] = k
       /\ job = [image |-> [k \in Task |-> [repo |-> own[k], tag |-> tag]],
                 restart |-> restart, other |-> TRUE]
  /\ copy = [c \in Call |-> job]
  /\ stale = [c \in Call |-> FALSE]
  /\ want \in [Call -> Image]
  /\ \A c \in Call : want[c].repo \in Repo
  /\ pc = [c \in Call |-> "read"]
  /\ timer = [c \in Call |-> "none"]
  /\ status = [c \in Call |-> "none"]
  /\ reports = [c \in Call |-> 0]
  /\ faults = 0

Goto(c, l) == pc' = [pc EXCEPT ![c] = l]

Works == UNCHANGED faults

Fails == faults < MaxFaults /\ faults' = faults + 1

-----------------------------------------------------------------------------
(* UpdateNomadJobTag *)

\* Mutation: the image of every task is replaced.
EditedAll(j, w) == [j EXCEPT !.image = [k \in Task |-> w]]

\* The image of the task mapped to the repository is replaced; if that task is
\* called registrywatcher-ui, the image of every task is.
Edited(j, w) ==
  [j EXCEPT !.image =
     [k \in Task |-> CASE TaskOf[w.repo] = UiTask -> [w EXCEPT !.repo = UiRepo]
                       [] TaskOf[w.repo] = k -> w
                       [] OTHER -> j.image[k]]]

MatchFound(w) == TaskOf[w.repo] \in Task \union {UiTask}

UpdateNomadJobTag(c) ==
  /\ pc[c] = "read"
  /\ copy' = [copy EXCEPT ![c] = Edited(job, want[c])]
  /\ Goto(c, IF MatchFound(want[c]) THEN "restart" ELSE "done")
  /\ Works
  /\ UNCHANGED <<job, stale, want, monitor>>

UpdateNomadJobTagFails(c) ==
  /\ pc[c] = "read"
  /\ Goto(c, "done")
  /\ Fails
  /\ UNCHANGED <<job, copy, stale, want, monitor>>

-----------------------------------------------------------------------------
(* RestartNomadJob *)

\* Mutation: the flag is set, not flipped.
FlipToBar(j) == [j EXCEPT !.restart = "bar"]

\* A job without the flag gets a Meta with nothing else in it.
FlipJobMeta(j) ==
  CASE j.restart = "foo" -> [j EXCEPT !.restart = "bar"]
    [] j.restart = "bar" -> [j EXCEPT !.restart = "foo"]
    [] OTHER -> [j EXCEPT !.restart = "bar", !.other = FALSE]

\* The job is registered as the call's copy has it, whatever Nomad holds now.
Registers(c) ==
  /\ job' = FlipJobMeta(copy[c])
  /\ stale' = [d \in Call |->
                 d # c /\ (stale[d] \/ (pc[d] = "restart" /\ job' # job))]

RestartNomadJob(c) ==
  /\ pc[c] = "restart"
  /\ Registers(c)
  /\ Goto(c, "select")
  /\ timer' = [timer EXCEPT ![c] = "sleeping"]
  /\ status' = [status EXCEPT ![c] = "running"]
  /\ Works
  /\ UNCHANGED <<copy, want, reports>>

\* The registration may have reached Nomad all the same.
RestartNomadJobFails(c) ==
  /\ pc[c] = "restart"
  /\ Registers(c) \/ UNCHANGED <<job, stale>>
  /\ Goto(c, "done")
  /\ Fails
  /\ UNCHANGED <<copy, want, monitor>>

-----------------------------------------------------------------------------
(* MonitorNomadJob: an answer that is not the last, or an error, is asked for *)
(* again in a loop that nothing else ends.                                    *)

Tick(c) ==
  /\ pc[c] = "select"
  /\ Goto(c, "evaluation")
  /\ Works
  /\ UNCHANGED <<job, copy, stale, want, monitor>>

EvaluationComplete(c) ==
  /\ pc[c] = "evaluation"
  /\ Goto(c, "deployment")
  /\ Works
  /\ UNCHANGED <<job, copy, stale, want, monitor>>

\* Mutation: sending on done does not block.
AfterReportLoops == "select"

\* done has no buffer, and the only goroutine that receives from it is the one
\* that sends here.
AfterReport == "send"

Report(c) ==
  /\ pc[c] = "deployment"
  /\ status[c] # "running"
  /\ reports' = [reports EXCEPT ![c] = @ + 1]
  /\ Goto(c, AfterReport)
  /\ Works
  /\ UNCHANGED <<job, copy, stale, want, timer, status>>

TimeIsUp(c) ==
  /\ timer[c] = "sleeping"
  /\ timer' = [timer EXCEPT ![c] = "sending"]
  /\ Works
  /\ UNCHANGED <<job, copy, stale, want, pc, status, reports>>

\* The timer's send meets the monitor's receive.
Stop(c) ==
  /\ pc[c] = "select"
  /\ timer[c] = "sending"
  /\ timer' = [timer EXCEPT ![c] = "sent"]
  /\ Goto(c, "done")
  /\ Works
  /\ UNCHANGED <<job, copy, stale, want, status, reports>>

DeploymentEnds(c) ==
  /\ status[c] = "running"
  /\ \E s \in {"successful", "failed", "cancelled"} :
       status' = [status EXCEPT ![c] = s]
  /\ Works
  /\ UNCHANGED <<job, copy, stale, want, pc, timer, reports>>

MonitorNomadJob(c) ==
  \/ Tick(c) \/ EvaluationComplete(c) \/ Report(c) \/ Stop(c)

Next ==
  \E c \in Call :
    \/ UpdateNomadJobTag(c) \/ UpdateNomadJobTagFails(c)
    \/ RestartNomadJob(c) \/ RestartNomadJobFails(c)
    \/ MonitorNomadJob(c) \/ TimeIsUp(c)
    \/ DeploymentEnds(c)

Spec == Init /\ [][Next]_vars

\* Goroutines run on, the 20 minutes pass, and Nomad finishes what it starts.
FairSpec ==
  /\ Spec
  /\ \A c \in Call :
       /\ WF_vars(RestartNomadJob(c) \/ RestartNomadJobFails(c))
       /\ WF_vars(MonitorNomadJob(c))
       /\ WF_vars(TimeIsUp(c))
       /\ WF_vars(DeploymentEnds(c))

-----------------------------------------------------------------------------
(* Properties *)

\* Every task runs an image of the repository mapped to it, whatever calls for
\* other tasks of the job come between its calls' reads and registrations.
OwnImage == \A k \in Task : TaskOf[job.image[k].repo] = k

Registered(c) == pc[c] = "restart" /\ pc'[c] = "select"

\* A call that finds the job as it read it changes its own task's image and no
\* other, and always changes the job, so that Nomad restarts it even when the
\* tag is the one that runs.
UndisturbedUpdate ==
  [][\A c \in Call : Registered(c) /\ ~stale[c] =>
       /\ job' # job
       /\ \A k \in Task :
            job'.image[k] = IF TaskOf[want[c].repo] = k THEN want[c]
                                                        ELSE job.image[k]]_vars

\* The outcome of a deployment is reported once at most: a monitor that has
\* reported never comes back to its select.
ReportedOnce == \A c \in Call : reports[c] <= 1

-----------------------------------------------------------------------------
(* Claims the code does not keep *)

\* "stupid hack to force a restart when registering a job": no registration
\* leaves the job as it is. Two calls that read the same job flip its flag to
\* the same value, and the second restarts nothing.
RestartForced ==
  [][\A c \in Call : Registered(c) => job' # job]_vars

\* "monitor for max 20 mins": a monitor ends.
MonitorEnds == \A c \in Call : pc[c] = "select" ~> pc[c] = "done"

===============================================================================
