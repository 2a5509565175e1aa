---------------------------- MODULE NomadJobProof ----------------------------
(***************************************************************************)
(* Proofs about NomadJob, for every set of tasks, repositories, tags and   *)
(* calls and every bound on failures.                                      *)
(***************************************************************************)
EXTENDS NomadJob, TLAPS

Status == {"none", "running", "successful", "failed", "cancelled"}

Label == {"read", "restart", "select", "evaluation", "deployment", "send", "done"}

TypeOK ==
  /\ job \in Job
  /\ copy \in [Call -> Job]
  /\ stale \in [Call -> BOOLEAN]
  /\ want \in [Call -> [repo : Repo, tag : Tag]]
  /\ pc \in [Call -> Label]
  /\ reports \in [Call -> Nat]

-----------------------------------------------------------------------------
(* What the properties rest on *)

\* Every image of a job is its task's own.
Owns(j) == \A k \in Task : TaskOf[j.image[k].repo] = k

\* The copies that will be registered own their images too.
CopiesOwn == \A c \in Call : pc[c] = "restart" => Owns(copy[c])

\* A copy that is not stale is the job as it is now, edited.
FreshCopies ==
  \A c \in Call : pc[c] = "restart" /\ ~stale[c] => copy[c] = Edited(job, want[c])

\* A monitor has reported only if it waits at its send for ever.
ReportsStop ==
  \A c \in Call :
    \/ reports[c] = 0
    \/ reports[c] = 1 /\ pc[c] = "send"

\* None of the repositories has its task called registrywatcher-ui.
NoUi == \A r \in Repo : TaskOf[r] # UiTask

IInv == TypeOK /\ FreshCopies /\ ReportsStop

\* With NoUi besides.
OwnInv == IInv /\ OwnImage /\ CopiesOwn

LEMMA EditedType ==
  ASSUME NEW j \in Job, NEW w \in [repo : Repo, tag : Tag]
  PROVE  Edited(j, w) \in Job /\ Edited(j, w).restart = j.restart
<1>1. \A k \in Task : j.image[k] \in Image /\ w \in Image
                      /\ [w EXCEPT !.repo = UiRepo] \in Image
  BY DEF Job, Image
<1> DEFINE image == [k \in Task |->
                       CASE TaskOf[w.repo] = UiTask -> [w EXCEPT !.repo = UiRepo]
                         [] TaskOf[w.repo] = k -> w
                         [] OTHER -> j.image[k]]
<1>2. image \in [Task -> Image]
  BY <1>1
<1>3. Edited(j, w) = [j EXCEPT !.image = image]
  BY DEF Edited
<1> HIDE DEF image
<1> QED
  BY <1>2, <1>3 DEF Job

LEMMA FlipType ==
  ASSUME NEW j \in Job
  PROVE  /\ FlipJobMeta(j) \in Job
         /\ FlipJobMeta(j).image = j.image
         /\ FlipJobMeta(j).restart # j.restart
BY DEF FlipJobMeta, Job

LEMMA InitInv == Init => IInv
<1> SUFFICES ASSUME Init PROVE IInv
  OBVIOUS
<1>1. job \in Job
  <2>1. PICK tag \in Tag, restart \in Restarts, own \in [Task -> Repo] :
          job = [image |-> [k \in Task |-> [repo |-> own[k], tag |-> tag]],
                 restart |-> restart, other |-> TRUE]
    BY DEF Init
  <2> DEFINE image == [k \in Task |-> [repo |-> own[k], tag |-> tag]]
  <2>2. image \in [Task -> Image]
    BY DEF Image
  <2>3. restart \in {"unset", "foo", "bar"}
    BY JobAssumption
  <2>4. job = [image |-> image, restart |-> restart, other |-> TRUE]
    BY <2>1
  <2> HIDE DEF image
  <2> QED
    BY <2>2, <2>3, <2>4 DEF Job
<1>2. TypeOK
  BY <1>1 DEF Init, TypeOK, Label, Image
<1>3. FreshCopies /\ ReportsStop
  BY DEF Init, FreshCopies, ReportsStop
<1> QED
  BY <1>2, <1>3 DEF IInv

\* A registration, whether Nomad answers or not.
LEMMA RegistersInv ==
  ASSUME IInv, NEW c \in Call, pc[c] = "restart", Registers(c),
         NEW l \in Label, l # "restart", Goto(c, l),
         UNCHANGED <<copy, want, reports>>
  PROVE  IInv'
<1>1. job' \in Job
  BY FlipType DEF Registers, IInv, TypeOK
<1>2. stale' \in [Call -> BOOLEAN] /\ pc' \in [Call -> Label]
  BY DEF Registers, Goto, IInv, TypeOK
<1>3. TypeOK'
  BY <1>1, <1>2 DEF IInv, TypeOK
<1>4. FreshCopies'
  <2> SUFFICES ASSUME NEW d \in Call, pc'[d] = "restart", ~stale'[d]
               PROVE  copy'[d] = Edited(job', want'[d])
    BY DEF FreshCopies
  <2>1. d # c /\ pc[d] = "restart"
    BY DEF Goto, IInv, TypeOK
  <2>2. ~stale[d] /\ job' = job
    BY <2>1 DEF Registers
  <2> QED
    BY <2>1, <2>2 DEF IInv, FreshCopies
<1>5. ReportsStop'
  BY DEF IInv, TypeOK, ReportsStop, Goto
<1> QED
  BY <1>3, <1>4, <1>5 DEF IInv

\* A step that leaves the job and the copies alone and starts no registration.
LEMMA QuietInv ==
  ASSUME IInv, UNCHANGED <<job, copy, stale, want, reports>>,
         \/ UNCHANGED pc
         \/ \E c \in Call, l \in Label :
              pc[c] # "send" /\ l # "restart" /\ Goto(c, l)
  PROVE  IInv'
<1>1. TypeOK'
  BY DEF IInv, TypeOK, Goto
<1>2. FreshCopies' /\ ReportsStop'
  BY DEF IInv, TypeOK, FreshCopies, ReportsStop, Goto
<1> QED
  BY <1>1, <1>2 DEF IInv

LEMMA StepInv == IInv /\ [Next]_vars => IInv'
<1> SUFFICES ASSUME IInv, [Next]_vars PROVE IInv'
  OBVIOUS
<1>1. ASSUME NEW c \in Call, UpdateNomadJobTag(c)
      PROVE  IInv'
  <2>1. /\ copy' = [copy EXCEPT ![c] = Edited(job, want[c])]
        /\ UNCHANGED <<job, stale, want, reports>> /\ pc[c] = "read"
    BY <1>1 DEF UpdateNomadJobTag, monitor
  <2>2. copy' \in [Call -> Job]
    BY <2>1, EditedType DEF IInv, TypeOK
  <2>3. PICK l \in Label : Goto(c, l)
    BY <1>1 DEF UpdateNomadJobTag, Label
  <2>4. TypeOK'
    BY <2>1, <2>2, <2>3 DEF IInv, TypeOK, Goto
  <2>5. FreshCopies' /\ ReportsStop'
    BY <2>1, <2>3 DEF IInv, TypeOK, FreshCopies, ReportsStop, Goto
  <2> QED
    BY <2>4, <2>5 DEF IInv
<1>2. ASSUME NEW c \in Call, RestartNomadJob(c) \/ RestartNomadJobFails(c)
      PROVE  IInv'
  <2>1. CASE Registers(c)
    BY <1>2, <2>1, RegistersInv DEF RestartNomadJob, RestartNomadJobFails,
       Label, monitor
  <2>2. CASE UNCHANGED <<job, stale>> /\ RestartNomadJobFails(c)
    BY <2>2, QuietInv DEF RestartNomadJobFails, Label, monitor
  <2> QED
    BY <1>2, <2>1, <2>2 DEF RestartNomadJob, RestartNomadJobFails
<1>3. ASSUME NEW c \in Call, Report(c)
      PROVE  IInv'
  <2>1. /\ UNCHANGED <<job, copy, stale, want>> /\ pc[c] = "deployment"
        /\ reports' = [reports EXCEPT ![c] = @ + 1] /\ Goto(c, "send")
    BY <1>3 DEF Report, AfterReport
  <2>2. TypeOK'
    BY <2>1 DEF IInv, TypeOK, Goto, Label
  <2>3. FreshCopies'
    BY <2>1 DEF IInv, TypeOK, FreshCopies, Goto
  <2>4. ReportsStop'
    BY <2>1 DEF IInv, TypeOK, ReportsStop, Goto
  <2> QED
    BY <2>2, <2>3, <2>4 DEF IInv
<1>4. ASSUME NEW c \in Call,
             \/ UpdateNomadJobTagFails(c) \/ Tick(c) \/ EvaluationComplete(c)
             \/ Stop(c) \/ TimeIsUp(c) \/ DeploymentEnds(c)
      PROVE  IInv'
  BY <1>4, QuietInv
  DEF UpdateNomadJobTagFails, Tick, EvaluationComplete, Stop, TimeIsUp,
      DeploymentEnds, Label, monitor
<1>5. CASE UNCHANGED vars
  BY <1>5, QuietInv DEF vars, monitor
<1> QED
  BY <1>1, <1>2, <1>3, <1>4, <1>5 DEF Next, MonitorNomadJob

LEMMA Invariance == Spec => []IInv
BY InitInv, StepInv, PTL DEF Spec

LEMMA EditedOwns ==
  ASSUME NoUi, NEW j \in Job, Owns(j), NEW w \in [repo : Repo, tag : Tag]
  PROVE  Owns(Edited(j, w))
BY DEF NoUi, Owns, Edited, Job

LEMMA OwnStep ==
  ASSUME NoUi, OwnInv, [Next]_vars
  PROVE  OwnImage' /\ CopiesOwn'
<1>1. /\ job \in Job /\ pc \in [Call -> Label] /\ copy \in [Call -> Job]
      /\ want \in [Call -> [repo : Repo, tag : Tag]] /\ Owns(job)
  BY DEF OwnInv, IInv, TypeOK, OwnImage, Owns
<1>2. ASSUME NEW c \in Call, UpdateNomadJobTag(c)
      PROVE  OwnImage' /\ CopiesOwn'
  <2>1. Owns(Edited(job, want[c]))
    BY <1>1, EditedOwns
  <2> QED
    BY <1>1, <1>2, <2>1
    DEF UpdateNomadJobTag, Goto, OwnInv, OwnImage, CopiesOwn
<1>3. ASSUME NEW c \in Call, RestartNomadJob(c) \/ RestartNomadJobFails(c)
      PROVE  OwnImage' /\ CopiesOwn'
  <2>1. Owns(copy[c])
    BY <1>3 DEF RestartNomadJob, RestartNomadJobFails, OwnInv, CopiesOwn
  <2>2. Owns(FlipJobMeta(copy[c]))
    BY <1>1, <2>1, FlipType DEF Owns
  <2>3. OwnImage'
    BY <1>3, <2>2 DEF RestartNomadJob, RestartNomadJobFails, Registers, Owns,
       OwnInv, OwnImage
  <2>4. CopiesOwn'
    BY <1>1, <1>3 DEF RestartNomadJob, RestartNomadJobFails, Goto, OwnInv,
       CopiesOwn
  <2> QED
    BY <2>3, <2>4
<1>4. ASSUME NEW c \in Call,
             \/ UpdateNomadJobTagFails(c) \/ MonitorNomadJob(c)
             \/ TimeIsUp(c) \/ DeploymentEnds(c)
      PROVE  OwnImage' /\ CopiesOwn'
  BY <1>1, <1>4
  DEF UpdateNomadJobTagFails, MonitorNomadJob, Tick, EvaluationComplete, Report,
      AfterReport, Stop, TimeIsUp, DeploymentEnds, Goto, OwnInv, OwnImage,
      CopiesOwn
<1>5. CASE UNCHANGED vars
  BY <1>5 DEF vars, OwnInv, OwnImage, CopiesOwn
<1> QED
  BY <1>2, <1>3, <1>4, <1>5 DEF Next

-----------------------------------------------------------------------------
(* Theorems *)

\* Without the special case for the dashboard, every task runs an image of its
\* own repository, however the calls' reads and registrations interleave.
THEOREM TasksKeepTheirImage ==
  ASSUME NoUi
  PROVE  Spec => []OwnImage
<1>1. Init => OwnImage /\ CopiesOwn
  BY DEF Init, OwnImage, CopiesOwn
<1>2. IInv /\ OwnImage /\ CopiesOwn /\ [Next]_vars => OwnImage' /\ CopiesOwn'
  BY OwnStep DEF OwnInv
<1> QED
  BY <1>1, <1>2, Invariance, PTL DEF Spec

\* No monitor reports the outcome of its deployment to Slack twice.
THEOREM OneReport == Spec => []ReportedOnce
<1>1. IInv => ReportedOnce
  BY DEF IInv, ReportsStop, ReportedOnce
<1> QED
  BY <1>1, Invariance, PTL

\* UpdateNomadJobTag and RestartNomadJob, undisturbed, change the task mapped
\* to the repository and no other, and change the job even when its tag stays.
THEOREM UndisturbedUpdates ==
  ASSUME NoUi
  PROVE  Spec => UndisturbedUpdate
<1>1. ASSUME IInv, [Next]_vars, NEW c \in Call, Registered(c), ~stale[c]
      PROVE  /\ job' # job
             /\ \A k \in Task :
                  job'.image[k] = IF TaskOf[want[c].repo] = k THEN want[c]
                                                             ELSE job.image[k]
  <2>1. RestartNomadJob(c)
    BY <1>1
    DEF Registered, IInv, TypeOK, Next, UpdateNomadJobTag,
        UpdateNomadJobTagFails, RestartNomadJob, RestartNomadJobFails,
        MonitorNomadJob, Tick, EvaluationComplete, Report, AfterReport, Stop,
        TimeIsUp, DeploymentEnds, Goto, vars
  <2>2. job' = FlipJobMeta(copy[c]) /\ copy[c] = Edited(job, want[c])
    BY <1>1, <2>1 DEF RestartNomadJob, Registers, IInv, FreshCopies
  <2>3. want[c] \in [repo : Repo, tag : Tag] /\ job \in Job /\ copy[c] \in Job
    BY <1>1 DEF IInv, TypeOK
  <2>4. job'.restart # job.restart
    BY <2>2, <2>3, EditedType, FlipType
  <2>5. job'.image = Edited(job, want[c]).image
    BY <2>2, <2>3, FlipType
  <2>6. TaskOf[want[c].repo] # UiTask
    BY <2>3 DEF NoUi
  <2> QED
    BY <2>3, <2>4, <2>5, <2>6 DEF Edited, Job
<1>2. IInv /\ [Next]_vars =>
        [\A c \in Call : Registered(c) /\ ~stale[c] =>
           /\ job' # job
           /\ \A k \in Task :
                job'.image[k] = IF TaskOf[want[c].repo] = k THEN want[c]
                                                           ELSE job.image[k]]_vars
  BY <1>1
<1> QED
  BY <1>2, Invariance, PTL DEF Spec, UndisturbedUpdate

==============================================================================
