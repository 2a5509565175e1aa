------------------------- MODULE WatcherHistoryProof -------------------------
(***************************************************************************)
(* WatcherHistory for any number of requests, changes, failures and        *)
(* restarts: an accepted pin was stored, nothing is deployed by a poll     *)
(* that found auto deployment off, and what is shown is what is there.     *)
(***************************************************************************)
EXTENDS WatcherHistory, WatcherProof

-----------------------------------------------------------------------------
(* The inductive invariant *)

\* Where a handler may be before its pin has been stored, or after it has given
\* up on it.
Unsure == {"idle", "req_flag", "req_setflag", "req_list", "req_original",
           "req_update", "req_undo", "done"}

AcceptInv(h) ==
  /\ pc[h] = "idle" => answer[h] = "none"
  /\ req[h].pin \in Tag /\ pc[h] \notin Unsure => stored[h]
  /\ req[h].pin \in Tag /\ answer[h] = "200" => stored[h]

\* Where the worker may be only after it found the flag on.
Decided == {"should_pin", "should_check", "should_digest", "should_current",
            "should_list", "should_compare",
            "run_original", "run_deploy", "deploy_pin", "deploy_job"}

Updating == {"update_list", "update_store", "update_check", "update_digest",
             "update_current", "update_pin", "update_fetch", "update_save"}

\* The worker is to deploy in this poll, now or once the caches are refreshed.
Deploying ==
  \/ pc[Worker] \in Decided
  \/ pc[Worker] \in Updating /\ loc[Worker].ret = "run_original"

FlagInv ==
  /\ Deploying => enabled[Worker]
  /\ pc[Worker] = "should_auto" => loc[Worker].ret = "sleep"

\* What a handler that shows something has seen so far.
Seen(h) ==
  IF row.pinned # NoTag
  THEN loc[h].pin = row.pinned /\ loc[h].tag = row.pinned
  ELSE \/ /\ loc[h].tag \in FilterReleaseTags(loc[h].tags)
          /\ \A t \in FilterReleaseTags(loc[h].tags) : ~Older(loc[h].tag, t)
       \/ loc[h].tag = NoTag /\ FilterReleaseTags(loc[h].tags) = {}

GetLabels == {"idle", "get_pin", "get_list", "get_failed", "reply", "done"}

ViewInv(h) ==
  /\ req[h].kind = "get" => pc[h] \in GetLabels
  /\ pc[h] \in {"get_pin", "get_list", "get_failed"} => req[h].kind = "get"
  /\ pc[h] \in {"idle", "sum_pins", "sum_tags"} => ~loc[h].latest
  /\ steady[h] =>
       /\ pc[h] = "get_list" => row.pinned = NoTag
       /\ pc[h] \in {"sum_tags", "sum_value"} => loc[h].pin = row.pinned
       /\ pc[h] = "sum_value" =>
            /\ loc[h].tags = cachedTags
            /\ loc[h].latest => row.pinned = NoTag
       /\ pc[h] \in {"sum_flag", "sum_reply"} => Seen(h)
       /\ pc[h] = "reply" /\ req[h].kind = "get" => Seen(h)

HInv ==
  /\ FlagInv
  /\ \A h \in Handlers : AcceptInv(h) /\ ViewInv(h)

USE TagAssumption, EnvironmentAssumption

-----------------------------------------------------------------------------
(* Accepted pins *)

\* What is remembered of a pin is remembered until the handler is idle, which
\* it never is again.
LEMMA StoredStays ==
  ASSUME Remember, NEW h \in Handlers, pc'[h] # "idle",
         stored[h] \/ row'.pinned = req'[h].pin
  PROVE  stored'[h]
BY DEF Remember

LEMMA AcceptRests ==
  ASSUME Remember, NEW h \in Handlers, AcceptInv(h),
         UNCHANGED <<pc[h], req[h], answer[h]>>
  PROVE  AcceptInv(h)'
BY StoredStays DEF AcceptInv, Unsure

\* Outside Handle a handler is past storing its pin, and stays so.
LEMMA CommonIsSure ==
  ASSUME TypeOK, NEW h \in Handlers, Common(h)
  PROVE  /\ pc[h] \notin Unsure
         /\ pc'[h] \notin Unsure \/ pc'[h] = "done"
         /\ answer'[h] # "200" \/ answer'[h] = answer[h]
<1>0. /\ h \in Actor /\ h # Worker /\ pc \in [Actor -> Label]
      /\ answer \in [Handlers -> {"none", "200", "400", "twice"}]
      /\ loc[h].ret \in Return
  BY DEF TypeOK, Actor, Local
<1>1. /\ Return \intersect Unsure = {}
      /\ PinSites \intersect Unsure = {}
      /\ \A l \in PinSites : AfterPin[l] \notin Unsure
      /\ Back(h) \notin Unsure
  BY Labels DEF Return, Unsure, AfterPin, Back
<1>2. PinError(h) \notin Unsure
  BY <1>0, <1>1 DEF PinError, Unsure
<1>3. CASE ReadPin(h) \/ ReadPinFails(h) \/ LatestFromCache(h)
  BY <1>0, <1>1, <1>2, <1>3
  DEF ReadPin, ReadPinFails, LatestFromCache, Goto, Private, web
<1>4. CASE RefreshCaches(h)
  BY <1>0, <1>1, <1>4
  DEF RefreshCaches, ListTags, ListTagsFails, StoreTags, LoadDigest,
      CheckInUpdate, CheckInUpdateFails, FetchDigest, FetchDigestFails,
      SaveDigest, Goto, Private, web, Unsure
<1>5. CASE DeployJob(h) \/ DeployJobFails(h)
  BY <1>0, <1>5 DEF DeployJob, DeployJobFails, AfterJob, Goto, Private, web, Unsure
<1>6. CASE Show(h)
  BY <1>0, <1>6
  DEF Show, ReadShownPin, ListShownTags, ReadAllPins, LoadShownTags,
      ReadShownFlag, Refuse, Goto, Private, web, Unsure
<1> QED
  BY <1>0, <1>3, <1>4, <1>5, <1>6 DEF Common

\* The steps of DeployTagHandler and ResetTagHandler: the pin is read from the
\* row or written to it before anything is deployed.
LEMMA HandleAccepts ==
  ASSUME TypeOK, NEW h \in Handlers, Handle(h), Remember, AcceptInv(h)
  PROVE  AcceptInv(h)'
<1>0. /\ h \in Actor /\ pc \in [Actor -> Label] /\ req[h] \in Request \union {NoRequest}
      /\ answer \in [Handlers -> {"none", "200", "400", "twice"}]
      /\ row \in [pinned : Tag \union {NoTag}, auto : BOOLEAN]
  BY DEF TypeOK, Actor
<1>1. UNCHANGED req
  BY DEF Handle, ReadFlag, SetFlag, ValidatePin, ReadOriginal, ResetFlag,
     UpdatePin, UndoPin, Reply, Private, web
<1> SUFFICES ASSUME req[h].pin \in Tag
             PROVE  /\ pc'[h] # "idle"
                    /\ pc'[h] \notin Unsure => stored'[h]
                    /\ answer'[h] = "200" => stored'[h]
  <2>1. pc'[h] # "idle"
    BY <1>0, HandleMoves, GotoMoves
  <2> QED
    BY <1>1, <2>1 DEF AcceptInv
<1>2. req[h].kind = "deploy" /\ req[h].pin # Absent /\ req[h].pin # NoTag
  BY <1>0 DEF Request, NoRequest
<1>3. stored[h] /\ pc'[h] # "idle" => stored'[h]
  BY StoredStays
<1>4. CASE ReadFlag(h) \/ SetFlag(h) \/ ValidatePin(h) \/ UndoPin(h)
  BY <1>0, <1>2, <1>3, <1>4
  DEF ReadFlag, SetFlag, ValidatePin, UndoPin, Refuse, AfterFlag, Goto, Private, web,
      AcceptInv, Unsure
<1>5. CASE ReadOriginal(h)
  <2>1. PICK original \in {row.pinned, NoTag} :
          Goto(h, IF original = req[h].pin THEN "deploy_pin" ELSE "req_update")
    BY <1>2, <1>5 DEF ReadOriginal
  <2>2. UNCHANGED <<row, answer>>
    BY <1>5 DEF ReadOriginal, Private, web
  <2>3. CASE original = req[h].pin
    BY <1>0, <1>1, <1>2, <2>1, <2>2, <2>3, StoredStays DEF Goto
  <2>4. CASE original # req[h].pin
    BY <1>0, <1>3, <2>1, <2>2, <2>4 DEF Goto, Unsure, AcceptInv
  <2> QED
    BY <2>3, <2>4
<1>6. CASE ResetFlag(h) \/ Reply(h)
  <2>1. stored[h]
    BY <1>6 DEF ResetFlag, Reply, AcceptInv, Unsure
  <2>2. pc'[h] # "idle"
    BY <1>0, HandleMoves, GotoMoves
  <2> QED
    BY <1>3, <2>1, <2>2
<1>7. CASE UpdatePin(h)
  <2>1. UNCHANGED answer
    BY <1>7 DEF UpdatePin, web
  <2>2. CASE Goto(h, "deploy_pin") /\ row' = [row EXCEPT !.pinned = req[h].pin]
    BY <1>0, <1>1, <2>2, StoredStays DEF Goto
  <2>3. CASE Goto(h, UpdateError)
    BY <1>0, <1>3, <2>1, <2>3 DEF Goto, UpdateError, Unsure, AcceptInv
  <2> QED
    BY <1>7, <2>2, <2>3 DEF UpdatePin
<1> QED
  BY <1>4, <1>5, <1>6, <1>7 DEF Handle

LEMMA ReceiveAccepts ==
  ASSUME TypeOK, NEW h \in Handlers, NEW r \in Requests, Receive(h, r), AcceptInv(h)
  PROVE  AcceptInv(h)'
<1>0. /\ h \in Actor /\ pc \in [Actor -> Label] /\ r \in Request
      /\ answer \in [Handlers -> {"none", "200", "400", "twice"}]
      /\ req \in [Handlers -> Request \union {NoRequest}]
  BY DEF TypeOK, Actor
<1>1. req'[h] = r /\ answer[h] = "none" /\ answer'[h] \in {"none", "400"}
  BY <1>0 DEF Receive, AcceptInv
<1>2. r.pin \in Tag => r.kind = "deploy" /\ r.pin # Absent
  BY <1>0 DEF Request
<1>3. r.pin \in Tag => pc'[h] \in Unsure
  BY <1>0, <1>2 DEF Receive, Goto, Unsure
<1>4. pc'[h] # "idle"
  BY <1>0 DEF Receive, Goto
<1> QED
  BY <1>1, <1>3, <1>4 DEF AcceptInv

LEMMA AcceptStep ==
  ASSUME TypeOK, [HNext]_hvars, NEW h \in Handlers, AcceptInv(h)
  PROVE  AcceptInv(h)'
<1>0. h \in Actor /\ h # Worker /\ pc \in [Actor -> Label]
      /\ answer \in [Handlers -> {"none", "200", "400", "twice"}]
      /\ req \in [Handlers -> Request \union {NoRequest}]
  BY DEF Actor, TypeOK
<1>1. CASE UNCHANGED hvars
  BY <1>1 DEF hvars, vars, web, history, AcceptInv
<1> SUFFICES ASSUME Next, Remember PROVE AcceptInv(h)'
  BY <1>1 DEF HNext
<1>2. ASSUME NEW a \in Actor, Step(a) \/ (a = Worker /\ Poll) PROVE AcceptInv(h)'
  <2>1. CASE a # h
    BY <1>0, <1>2, <2>1, StepIsOwn, AcceptRests
  <2>2. CASE a = h /\ Handle(h)
    BY <2>2, HandleAccepts
  <2>3. CASE a = h /\ Common(h)
    <3>1. UNCHANGED req
      BY <1>2, <2>3, StepIsOwn
    <3> QED
      BY <3>1, <2>3, CommonIsSure, StoredStays DEF AcceptInv, Unsure
  <2> QED
    BY <1>0, <1>2, <2>1, <2>2, <2>3 DEF Step, Common
<1>3. ASSUME NEW g \in Handlers, NEW r \in Requests, Receive(g, r) PROVE AcceptInv(h)'
  <2>1. CASE g = h
    BY <1>3, <2>1, ReceiveAccepts
  <2>2. CASE g # h
    <3>1. pc'[h] = pc[h]
      BY <1>0, <1>3, <2>2 DEF Receive, Goto
    <3>2. req'[h] = req[h] /\ answer'[h] = answer[h]
      BY <1>0, <1>3, <2>2 DEF Receive
    <3> QED
      BY <3>1, <3>2, AcceptRests
  <2> QED
    BY <2>1, <2>2
<1>4. ASSUME UNCHANGED <<pc, web>> PROVE AcceptInv(h)'
  BY <1>4, AcceptRests DEF web
<1>5. CASE Restart
  <2>1. UNCHANGED web /\ pc'[h] = IF pc[h] = "idle" THEN "idle" ELSE "done"
    BY <1>0, <1>5 DEF Restart
  <2> QED
    BY <2>1, StoredStays DEF web, AcceptInv, Unsure
<1>6. CASE \E t \in ImageTag : RegisterJob(t) \/ RegisterJobFails(t)
  BY <1>4, <1>6 DEF RegisterJob, RegisterJobFails
<1>7. CASE \E t \in Tag : Remove(t) \/ \E d \in Digest : Push(t, d)
  BY <1>4, <1>7 DEF Remove, Push
<1> QED
  BY <1>2, <1>3, <1>5, <1>6, <1>7 DEF Next, Arrival, Progress, Actor

-----------------------------------------------------------------------------
(* Polls with auto deployment off *)

\* The worker deploys, or is to, only if it was to already or found the flag on.
LEMMA WorkerDecides ==
  ASSUME TypeOK, FlagInv, Step(Worker) \/ Poll
  PROVE  /\ Deploying' => Deploying \/ row.auto
         /\ pc'[Worker] = "should_auto" => loc'[Worker].ret = "sleep"
<1> DEFINE me == loc[Worker]
<1>0. /\ Worker \in Actor /\ Worker \notin Handlers
      /\ pc \in [Actor -> Label] /\ loc \in [Actor -> Local] /\ me \in Local
      /\ me.ret \in {"sleep", "run_original", "reply"}
  BY DEF TypeOK, Actor, Local, Return
<1>1. CASE ReadPin(Worker) \/ LatestFromCache(Worker)
  <2>1. PICK l : l \in {pc[Worker], AfterPin[pc[Worker]]} /\ pc'[Worker] = l
    BY <1>0, <1>1, GotoMoves DEF ReadPin, LatestFromCache
  <2>2. pc[Worker] \in PinSites /\ loc'[Worker].ret = me.ret
    BY <1>0, <1>1 DEF ReadPin, LatestFromCache, Local
  <2>3. pc[Worker] \in {"should_check", "update_check", "update_pin", "populate_pin",
                 "run_original", "run_deploy", "deploy_pin", "sum_value"}
    BY <2>2, Labels
  <2> QED
    BY <2>1, <2>2, <2>3 DEF Deploying, Decided, Updating, AfterPin, AtEase
<1>2. CASE ReadPinFails(Worker)
  <2>1. pc'[Worker] = PinError(Worker) /\ pc[Worker] \in PinSites
    BY <1>0, <1>2, GotoMoves DEF ReadPinFails
  <2> QED
    BY <1>0, <2>1, Labels DEF PinError, Back, Deploying, Decided, Updating, AtEase
<1>3. CASE ListTags(Worker) \/ StoreTags(Worker) \/ LoadDigest(Worker)
  <2>1. loc'[Worker].ret = me.ret
    BY <1>0, <1>3 DEF ListTags, StoreTags, LoadDigest, Local
  <2> QED
    BY <1>0, <1>3, <2>1, GotoMoves
    DEF ListTags, StoreTags, LoadDigest, Deploying, Decided, Updating, AtEase
<1>4. CASE FetchDigest(Worker) \/ SaveDigest(Worker) \/ CheckInUpdate(Worker)
  <2>1. loc'[Worker].ret = me.ret
    BY <1>0, <1>4 DEF FetchDigest, SaveDigest, CheckInUpdate, Local
  <2> QED
    BY <1>0, <1>4, <2>1, GotoMoves
    DEF FetchDigest, SaveDigest, CheckInUpdate, Deploying, Decided, Updating, AtEase
<1>5. CASE ListTagsFails(Worker) \/ CheckInUpdateFails(Worker) \/ FetchDigestFails(Worker)
  BY <1>0, <1>5, GotoMoves
  DEF ListTagsFails, CheckInUpdateFails, FetchDigestFails,
      Deploying, Decided, Updating, AtEase
<1>6. CASE DeployJob(Worker) \/ DeployJobFails(Worker)
  <2>1. loc' = [loc EXCEPT ![Worker].tag = NoTag, ![Worker].ret = "sleep"]
        /\ Goto(Worker, "update_list")
    BY <1>6 DEF DeployJob, DeployJobFails, AfterJob, Back
  <2>2. loc'[Worker].ret = "sleep"
    BY <1>0, <2>1 DEF Local
  <2> QED
    BY <1>0, <2>1, <2>2, GotoMoves DEF Deploying, Decided
<1>7. CASE Poll
  BY <1>0, <1>7, GotoMoves DEF Poll, NoLocals, Deploying, Decided, Updating
<1>8. CASE ShouldDeploy
  <2>1. CASE ReadAutoFlag
    <3>1. CASE row.auto
      BY <1>0, <2>1, <3>1, GotoMoves DEF ReadAutoFlag, AfterAutoFlag, AtEase
    <3>2. CASE ~row.auto
      BY <1>0, <2>1, <3>2, GotoMoves
      DEF ReadAutoFlag, AfterAutoFlag, FlagInv, Deploying, Decided
    <3> QED
      BY <3>1, <3>2
  <2>2. CASE GiveUp("should_auto") \/ GiveUp("should_pin") \/ CheckInShouldDeployFails
    BY <1>0, <2>2, GotoMoves
    DEF GiveUp, CheckInShouldDeployFails, Deploying, Decided, Updating
  <2>3. CASE ReadPinned \/ CheckInShouldDeploy \/ ListForRelease
             \/ ListForReleaseFails \/ CompareReleases
    <3>1. pc[Worker] \in Decided
      BY <2>3 DEF ReadPinned, CheckInShouldDeploy, ListForRelease,
         ListForReleaseFails, CompareReleases, Decided
    <3>2. \E l \in Label \ {"should_auto"} : Goto(Worker, l)
      BY <2>3, Labels DEF Label, ReadPinned, CheckInShouldDeploy, ListForRelease,
         ListForReleaseFails, CompareReleases
    <3>3. pc'[Worker] # "should_auto"
      BY <1>0, <3>2, GotoMoves
    <3> QED
      BY <3>1, <3>3 DEF Deploying, Decided, AtEase
  <2> QED
    BY <1>8, <2>1, <2>2, <2>3 DEF ShouldDeploy
<1> QED
  BY <1>0, <1>1, <1>2, <1>3, <1>4, <1>5, <1>6, <1>7, <1>8 DEF Step, RefreshCaches

\* A flag seen on is remembered for as long as the poll lasts.
LEMMA FlagStep == ASSUME TypeOK, FlagInv, [HNext]_hvars PROVE FlagInv'
<1>0. Worker \in Actor /\ Worker \notin Handlers
      /\ pc \in [Actor -> Label] /\ loc \in [Actor -> Local]
  BY DEF TypeOK, Actor
<1>1. CASE UNCHANGED hvars
  BY <1>1 DEF hvars, vars, history, FlagInv, Deploying
<1> SUFFICES ASSUME Next, Remember PROVE FlagInv'
  BY <1>1 DEF HNext
<1>2. Deploying' => pc'[Worker] \notin AtEase
  BY DEF Deploying, Decided, Updating, AtEase
<1>3. enabled'[Worker] = (pc'[Worker] \notin AtEase /\ (enabled[Worker] \/ row'.auto))
  BY <1>0 DEF Remember
<1>4. ASSUME UNCHANGED <<pc[Worker], loc[Worker]>> PROVE FlagInv'
  BY <1>2, <1>3, <1>4 DEF FlagInv, Deploying
<1>5. CASE Step(Worker) \/ Poll
  <2>1. UNCHANGED row
    BY <1>0, <1>5, CommonLeaves DEF Step, Common
  <2> QED
    BY <1>2, <1>3, <1>5, <2>1, WorkerDecides DEF FlagInv
<1>6. CASE \E a \in Actor : a # Worker /\ Step(a)
  BY <1>0, <1>4, <1>6, StepIsOwn
<1>7. CASE \E h \in Handlers, r \in Requests : Receive(h, r)
  <2>1. UNCHANGED loc /\ pc'[Worker] = pc[Worker]
    BY <1>0, <1>7 DEF Receive, Goto
  <2> QED
    BY <1>4, <2>1
<1>8. CASE Restart
  BY <1>0, <1>8 DEF Restart, FlagInv, Deploying, Decided, Updating
<1>9. CASE \/ \E t \in ImageTag : RegisterJob(t) \/ RegisterJobFails(t)
           \/ \E t \in Tag : Remove(t) \/ \E d \in Digest : Push(t, d)
  BY <1>4, <1>9 DEF RegisterJob, RegisterJobFails, Remove, Push
<1> QED
  BY <1>5, <1>6, <1>7, <1>8, <1>9 DEF Next, Arrival, Progress, Actor

-----------------------------------------------------------------------------
(* What is shown *)

LEMMA ViewRests ==
  ASSUME Remember, NEW h \in Handlers, ViewInv(h),
         UNCHANGED <<pc[h], loc[h], req[h]>>
  PROVE  ViewInv(h)'
<1>1. steady'[h] => steady[h] /\ UNCHANGED <<row, cachedTags>> /\ pc[h] # "idle"
  BY DEF Remember
<1> QED
  BY <1>1 DEF ViewInv, Seen

\* Where a handler is that shows something, but for its answer.
Shows == {"idle", "get_pin", "get_list", "get_failed",
          "sum_pins", "sum_tags", "sum_value", "sum_flag", "sum_reply"}

\* Deploying and refreshing lead to none of these.
LEMMA NothingShown ==
  ASSUME TypeOK, NEW h \in Handlers, Handle(h) \/ (Common(h) /\ ~Show(h)),
         pc[h] # "sum_value"
  PROVE  /\ pc'[h] \notin Shows
         /\ pc[h] \in GetLabels => pc'[h] = "done"
<1>0. /\ h \in Actor /\ h # Worker /\ pc \in [Actor -> Label] /\ loc[h].ret \in Return
  BY DEF TypeOK, Actor, Local
<1>1. /\ Return \intersect Shows = {} /\ "sleep" \notin Shows
      /\ PinSites \intersect GetLabels = {}
      /\ \A l \in PinSites : l # "sum_value" => l \notin Shows /\ AfterPin[l] \notin Shows
      /\ Back(h) \notin Shows
  BY Labels DEF Return, Shows, AfterPin, Back, GetLabels
<1>2. PinError(h) \notin Shows
  BY <1>0, <1>1 DEF PinError, Shows
<1>3. CASE ReadPin(h) \/ ReadPinFails(h) \/ LatestFromCache(h)
  BY <1>0, <1>1, <1>2, <1>3, GotoMoves DEF ReadPin, ReadPinFails, LatestFromCache
<1>4. CASE RefreshCaches(h)
  BY <1>0, <1>1, <1>4, GotoMoves
  DEF RefreshCaches, ListTags, ListTagsFails, StoreTags, LoadDigest,
      CheckInUpdate, CheckInUpdateFails, FetchDigest, FetchDigestFails,
      SaveDigest, Shows, GetLabels
<1>5. CASE DeployJob(h) \/ DeployJobFails(h)
  BY <1>0, <1>5, GotoMoves DEF DeployJob, DeployJobFails, AfterJob, Shows, GetLabels
<1>6. CASE ReadFlag(h) \/ SetFlag(h) \/ ValidatePin(h)
  BY <1>0, <1>6, GotoMoves
  DEF ReadFlag, SetFlag, ValidatePin, Refuse, AfterFlag, Shows, GetLabels
<1>7. CASE ReadOriginal(h)
  BY <1>0, <1>7, GotoMoves DEF ReadOriginal, Shows, GetLabels
<1>8. CASE ResetFlag(h) \/ UpdatePin(h)
  <2>1. pc[h] \in {"req_auto", "req_update"}
        /\ \E l \in {"req_update", "deploy_pin", "req_undo"} : Goto(h, l)
    BY <1>8 DEF ResetFlag, UpdatePin, UpdateError
  <2> QED
    BY <1>0, <2>1, GotoMoves DEF Shows, GetLabels
<1>9. CASE UndoPin(h) \/ Reply(h)
  BY <1>0, <1>9, GotoMoves DEF UndoPin, Reply, Refuse, Shows, GetLabels
<1> QED
  BY <1>0, <1>3, <1>4, <1>5, <1>6, <1>7, <1>8, <1>9 DEF Common, Handle

\* A summary's pin's value: the pin, or the latest release of the tags shown.
LEMMA ValueSeen ==
  ASSUME TypeOK, NEW h \in Handlers, Remember, ViewInv(h), pc[h] = "sum_value",
         ReadPin(h) \/ ReadPinFails(h) \/ LatestFromCache(h)
  PROVE  ViewInv(h)'
<1>0. /\ h \in Actor /\ h # Worker /\ pc \in [Actor -> Label]
      /\ loc \in [Actor -> Local] /\ loc[h] \in Local
      /\ cachedTags \in SUBSET Tag
      /\ UNCHANGED <<row, cachedTags, req>>
  BY DEF TypeOK, Actor, ReadPin, ReadPinFails, LatestFromCache, Private, caches, web
<1>1. steady'[h] => steady[h]
  BY DEF Remember
<1>2. req[h].kind # "get" /\ AfterPin["sum_value"] = "sum_flag"
  BY DEF ViewInv, GetLabels, AfterPin
<1>3. CASE ReadPin(h) /\ row.pinned # NoTag
  <2>1. pc'[h] = "sum_flag"
    BY <1>0, <1>2, <1>3, GotoMoves DEF ReadPin
  <2>2. loc'[h].tag = row.pinned /\ loc'[h].pin = loc[h].pin
    BY <1>0, <1>3 DEF ReadPin, Local
  <2> QED
    BY <1>0, <1>1, <1>2, <1>3, <2>1, <2>2 DEF ViewInv, Seen
<1>4. CASE ReadPin(h) /\ row.pinned = NoTag
  <2>1. pc'[h] = "sum_value"
    BY <1>4 DEF ReadPin
  <2>2. loc'[h].pin = loc[h].pin /\ loc'[h].tags = loc[h].tags
    BY <1>0, <1>4 DEF ReadPin, Local
  <2> QED
    BY <1>0, <1>1, <1>2, <1>4, <2>1, <2>2 DEF ViewInv
<1>5. CASE ReadPinFails(h)
  <2>1. pc'[h] = "reply"
    BY <1>0, <1>5, GotoMoves DEF ReadPinFails, PinError, Back
  <2> QED
    BY <1>0, <1>2, <2>1 DEF ViewInv
<1>6. CASE LatestFromCache(h)
  <2> DEFINE latest == IF FilterReleaseTags(cachedTags) = {} THEN NoTag
                       ELSE GetLatestReleaseTag(cachedTags)
  <2>1. pc'[h] = "sum_flag"
    BY <1>0, <1>2, <1>6, GotoMoves DEF LatestFromCache
  <2>2. loc'[h].tag = latest /\ loc'[h].tags = loc[h].tags /\ loc[h].latest
    BY <1>0, <1>6 DEF LatestFromCache, Local
  <2>3. steady[h] => loc[h].tags = cachedTags /\ row.pinned = NoTag
    BY <2>2 DEF ViewInv
  <2>4. CASE FilterReleaseTags(cachedTags) = {}
    BY <1>0, <1>1, <1>2, <2>1, <2>2, <2>3, <2>4 DEF ViewInv, Seen
  <2>5. CASE FilterReleaseTags(cachedTags) # {}
    <3>1. /\ latest \in FilterReleaseTags(cachedTags)
          /\ \A t \in FilterReleaseTags(cachedTags) : ~Older(latest, t)
      BY <1>0, <2>5, LatestIsNewest
    <3> HIDE DEF latest
    <3> QED
      BY <1>0, <1>1, <1>2, <2>1, <2>2, <2>3, <3>1 DEF ViewInv, Seen
  <2> QED
    BY <2>4, <2>5
<1> QED
  BY <1>3, <1>4, <1>5, <1>6

LEMMA ShowSeen ==
  ASSUME TypeOK, NEW h \in Handlers, Remember, ViewInv(h), Show(h)
  PROVE  ViewInv(h)'
<1>0. /\ h \in Actor /\ pc \in [Actor -> Label]
      /\ loc \in [Actor -> Local] /\ loc[h] \in Local
      /\ UNCHANGED <<row, cachedTags, req>>
  BY DEF TypeOK, Actor, Show, ReadShownPin, ListShownTags, ReadAllPins, LoadShownTags,
     ReadShownFlag, Private, caches, web
<1>1. steady'[h] => steady[h] \/ pc[h] = "idle"
  BY DEF Remember
<1>2. CASE ReadShownPin(h)
  <2>1. CASE /\ loc' = [loc EXCEPT ![h].pin = row.pinned, ![h].tag = row.pinned]
             /\ Goto(h, IF row.pinned = NoTag THEN "get_list" ELSE "reply")
    <3>1. loc'[h].pin = row.pinned /\ loc'[h].tag = row.pinned
      BY <1>0, <2>1 DEF Local
    <3>2. pc'[h] = IF row.pinned = NoTag THEN "get_list" ELSE "reply"
      BY <1>0, <2>1, GotoMoves
    <3> QED
      BY <1>0, <1>2, <3>1, <3>2 DEF ReadShownPin, ViewInv, GetLabels, Seen
  <2>2. CASE Goto(h, "get_failed")
    BY <1>0, <1>2, <2>2, GotoMoves DEF ReadShownPin, ViewInv, GetLabels
  <2> QED
    BY <1>2, <2>1, <2>2 DEF ReadShownPin
<1>3. CASE ListShownTags(h)
  <2>1. CASE pc'[h] = "done"
    BY <1>0, <2>1 DEF ViewInv, GetLabels
  <2>2. CASE pc'[h] # "done"
    <3>1. PICK S \in {RegistryTags, {}} :
            /\ FilterReleaseTags(S) # {} /\ pc[h] = "get_list"
            /\ loc' = [loc EXCEPT ![h].tags = S, ![h].tag = GetLatestReleaseTag(S)]
            /\ Goto(h, "reply")
      <4>1. ~Goto(h, "done")
        BY <1>0, <2>2, GotoMoves
      <4> QED
        BY <1>3, <4>1 DEF ListShownTags, Refuse
    <3>2. /\ loc'[h].tags = S /\ loc'[h].tag = GetLatestReleaseTag(S)
      BY <1>0, <3>1 DEF Local
    <3>3. S \in SUBSET Tag
      BY DEF RegistryTags
    <3>4. /\ loc'[h].tag \in FilterReleaseTags(loc'[h].tags)
          /\ \A t \in FilterReleaseTags(loc'[h].tags) : ~Older(loc'[h].tag, t)
      <4>1. /\ GetLatestReleaseTag(S) \in FilterReleaseTags(S)
            /\ \A t \in FilterReleaseTags(S) : ~Older(GetLatestReleaseTag(S), t)
        BY <3>1, <3>3, LatestIsNewest
      <4> QED
        BY <3>2, <4>1
    <3>5. pc'[h] = "reply"
      BY <1>0, <3>1, GotoMoves
    <3> QED
      BY <1>0, <1>1, <3>1, <3>4, <3>5 DEF ViewInv, GetLabels, Seen
  <2> QED
    BY <2>1, <2>2
<1>4. CASE ReadAllPins(h)
  <2>1. req[h].kind # "get" /\ ~loc[h].latest
    BY <1>4 DEF ReadAllPins, ViewInv, GetLabels
  <2>2. CASE loc' = [loc EXCEPT ![h].pin = row.pinned] /\ Goto(h, "sum_tags")
    <3>1. loc'[h].pin = row.pinned /\ loc'[h].latest = loc[h].latest
      BY <1>0, <2>2 DEF Local
    <3>2. pc'[h] = "sum_tags"
      BY <1>0, <2>2, GotoMoves
    <3> QED
      BY <1>0, <2>1, <3>1, <3>2 DEF ViewInv
  <2>3. CASE Goto(h, "reply")
    BY <1>0, <2>1, <2>3, GotoMoves DEF ViewInv
  <2> QED
    BY <1>4, <2>2, <2>3 DEF ReadAllPins
<1>5. CASE LoadShownTags(h)
  <2>1. req[h].kind # "get" /\ ~loc[h].latest /\ pc'[h] = "sum_value"
    BY <1>0, <1>5, GotoMoves DEF LoadShownTags, ViewInv, GetLabels
  <2>2. /\ loc'[h].tags = cachedTags /\ loc'[h].latest = loc[h].latest
        /\ loc'[h].pin = loc[h].pin
    BY <1>0, <1>5 DEF LoadShownTags, Local
  <2> QED
    BY <1>0, <1>1, <1>5, <2>1, <2>2 DEF LoadShownTags, ViewInv
<1>6. CASE ReadShownFlag(h)
  <2>1. req[h].kind # "get" /\ pc'[h] \in {"sum_reply", "reply"} /\ UNCHANGED loc
        /\ pc[h] = "sum_flag"
    BY <1>0, <1>6, GotoMoves DEF ReadShownFlag, ViewInv, GetLabels
  <2> QED
    BY <1>0, <1>1, <2>1 DEF ViewInv, Seen
<1> QED
  BY <1>2, <1>3, <1>4, <1>5, <1>6 DEF Show

LEMMA ReceiveSeen ==
  ASSUME TypeOK, NEW h \in Handlers, NEW r \in Requests, Receive(h, r), ViewInv(h)
  PROVE  ViewInv(h)'
<1>0. /\ h \in Actor /\ pc \in [Actor -> Label] /\ r \in Request
      /\ req \in [Handlers -> Request \union {NoRequest}]
  BY DEF TypeOK, Actor
<1>1. req'[h] = r /\ UNCHANGED loc /\ ~loc[h].latest
  BY <1>0 DEF Receive, ViewInv
<1>2. CASE r.kind = "get"
  BY <1>0, <1>1, <1>2, GotoMoves DEF Receive, ViewInv, GetLabels
<1>3. CASE r.kind # "get"
  <2>1. pc'[h] \in {"req_original", "req_flag", "req_list", "done", "sum_pins"}
    BY <1>0, <1>3, GotoMoves DEF Receive
  <2> QED
    BY <1>1, <1>3, <2>1 DEF ViewInv
<1> QED
  BY <1>2, <1>3

LEMMA ViewStep ==
  ASSUME TypeOK, [HNext]_hvars, NEW h \in Handlers, ViewInv(h)
  PROVE  ViewInv(h)'
<1>0. h \in Actor /\ h # Worker /\ pc \in [Actor -> Label]
      /\ req \in [Handlers -> Request \union {NoRequest}]
  BY DEF Actor, TypeOK
<1>1. CASE UNCHANGED hvars
  BY <1>1 DEF hvars, vars, caches, web, history, ViewInv, Seen
<1> SUFFICES ASSUME Next, Remember PROVE ViewInv(h)'
  BY <1>1 DEF HNext
<1>2. ASSUME NEW a \in Actor, Step(a) \/ (a = Worker /\ Poll) PROVE ViewInv(h)'
  <2>1. CASE a # h
    BY <1>0, <1>2, <2>1, StepIsOwn, ViewRests
  <2>2. CASE a = h /\ Show(h)
    BY <2>2, ShowSeen
  <2>3. CASE a = h /\ pc[h] # "sum_value" /\ (Handle(h) \/ (Common(h) /\ ~Show(h)))
    <3>1. UNCHANGED req
      BY <1>2, <2>3, StepIsOwn
    <3>2. /\ pc'[h] \notin Shows
          /\ pc[h] \in GetLabels => pc'[h] = "done"
      BY <2>3, NothingShown
    <3> QED
      BY <3>1, <3>2 DEF ViewInv, Shows, GetLabels
  <2>4. CASE a = h /\ pc[h] = "sum_value" /\ (Handle(h) \/ (Common(h) /\ ~Show(h)))
    <3>1. ReadPin(h) \/ ReadPinFails(h) \/ LatestFromCache(h)
      BY <1>0, <2>4
      DEF Handle, ReadFlag, SetFlag, ValidatePin, ReadOriginal, ResetFlag, UpdatePin,
          UndoPin, Reply, Common, RefreshCaches, ListTags, ListTagsFails, StoreTags,
          LoadDigest, CheckInUpdate, CheckInUpdateFails, FetchDigest, FetchDigestFails,
          SaveDigest, DeployJob, DeployJobFails
    <3> QED
      BY <2>4, <3>1, ValueSeen
  <2> QED
    BY <1>0, <1>2, <2>1, <2>2, <2>3, <2>4 DEF Step, Common
<1>3. ASSUME NEW g \in Handlers, NEW r \in Requests, Receive(g, r) PROVE ViewInv(h)'
  <2>1. CASE g = h
    BY <1>3, <2>1, ReceiveSeen
  <2>2. CASE g # h
    <3>1. pc'[h] = pc[h]
      BY <1>0, <1>3, <2>2 DEF Receive, Goto
    <3>2. req'[h] = req[h] /\ UNCHANGED loc
      BY <1>0, <1>3, <2>2 DEF Receive
    <3> QED
      BY <3>1, <3>2, ViewRests
  <2> QED
    BY <2>1, <2>2
<1>4. ASSUME UNCHANGED <<pc, loc, web>> PROVE ViewInv(h)'
  BY <1>4, ViewRests DEF web
<1>5. CASE Restart
  <2>1. /\ UNCHANGED web /\ pc'[h] = IF pc[h] = "idle" THEN "idle" ELSE "done"
        /\ ~loc'[h].latest
    BY <1>0, <1>5 DEF Restart, NoLocals
  <2> QED
    BY <2>1 DEF web, ViewInv, GetLabels
<1>6. CASE \E t \in ImageTag : RegisterJob(t) \/ RegisterJobFails(t)
  BY <1>4, <1>6 DEF RegisterJob, RegisterJobFails
<1>7. CASE \E t \in Tag : Remove(t) \/ \E d \in Digest : Push(t, d)
  BY <1>4, <1>7 DEF Remove, Push
<1> QED
  BY <1>2, <1>3, <1>5, <1>6, <1>7 DEF Next, Arrival, Progress, Actor

-----------------------------------------------------------------------------
LEMMA HistoryInit == HInit => HInv
<1> SUFFICES ASSUME HInit PROVE HInv
  OBVIOUS
<1>1. Worker \in Actor /\ Worker \notin Handlers
  BY DEF Actor
<1>2. FlagInv
  BY <1>1 DEF HInit, Init, FlagInv, Deploying, Decided, Updating
<1>3. ASSUME NEW h \in Handlers PROVE AcceptInv(h) /\ ViewInv(h)
  BY <1>1 DEF HInit, Init, Actor, AcceptInv, Unsure, ViewInv, NoLocals, NoRequest
<1> QED
  BY <1>2, <1>3 DEF HInv

THEOREM HistoryInvariance == HSpec => [](IInv /\ HInv)
<1>1. HInit => IInv /\ HInv
  BY HistoryInit, TypeInit, SafeInit DEF HInit, IInv
<1>2. IInv /\ HInv /\ [HNext]_hvars => (IInv /\ HInv)'
  <2> SUFFICES ASSUME IInv, HInv, [HNext]_hvars PROVE IInv' /\ HInv'
    OBVIOUS
  <2>1. [Next]_vars /\ TypeOK
    BY DEF HNext, hvars, IInv
  <2>2. IInv'
    BY <2>1, TypeStep, SafeStep DEF IInv, Safe
  <2>3. FlagInv'
    BY <2>1, FlagStep DEF HInv
  <2>4. \A h \in Handlers : AcceptInv(h)' /\ ViewInv(h)'
    BY <2>1, AcceptStep, ViewStep DEF HInv
  <2> QED
    BY <2>2, <2>3, <2>4 DEF HInv
<1> QED
  BY <1>1, <1>2, PTL DEF HSpec

\* However many requests overlap and whatever fails, a deploy request for a tag
\* that is answered 200 has had its tag in the row (DeployTagHandler).
THEOREM AcceptedPinsStored == HSpec => []AcceptedPinWasStored
<1>1. HInv => AcceptedPinWasStored
  BY DEF HInv, AcceptInv, AcceptedPinWasStored
<1> QED
  BY <1>1, HistoryInvariance, PTL

\* With any number of requests that flip the flag, a poll during which it was
\* off throughout deploys nothing (ShouldDeploy).
THEOREM NoDeployWhileOff == HSpec => []NoAutoDeployWhileOff
<1>1. HInv => NoAutoDeployWhileOff
  BY DEF HInv, FlagInv, Deploying, Decided, NoAutoDeployWhileOff
<1> QED
  BY <1>1, HistoryInvariance, PTL

\* What a handler shows of a repository that nobody changed meanwhile is its pin
\* or the newest of the releases shown (GetTagHandler, RepoSummaryHandler).
THEOREM ViewsAreTrue == HSpec => []UndisturbedView
<1>1. HInv => UndisturbedView
  BY DEF HInv, ViewInv, Seen, Showing, UndisturbedView
<1> QED
  BY <1>1, HistoryInvariance, PTL
==============================================================================
