------------------------------- MODULE Watcher -------------------------------
(***************************************************************************)
(* One watched repository of registrywatcher: its polling worker, the HTTP *)
(* requests that pin a tag, flip auto deployment or show what is pinned,   *)
(* the two in-memory caches they share, the repository's row in Postgres,  *)
(* the registry they read and the Nomad job they redeploy.                 *)
(*                                                                         *)
(* An actor is a goroutine: the worker, or the handler of one request.     *)
(* Every call to Postgres, to the registry, to Docker Hub or to Nomad, and *)
(* every Load or Store of a cache, is a step of its own.                   *)
(***************************************************************************)
EXTENDS Tags

CONSTANTS
  Digest,         \* image digests
  NoDigest,       \* "": the digest cache before it is first filled
  Absent,         \* a field left out of a request body
  Worker,         \* the repository's worker goroutine
  Handlers,       \* handler goroutines, one per request
  Requests,       \* the requests that may arrive
  InitialHubs,    \* what the registry may hold when the program first starts
  Pushes,         \* <<tag, digest>> pairs that may be pushed
  Removable,      \* tags that may be deleted from the registry
  EmptyDigestIsError, \* does Docker Hub refuse to look up the empty digest?
  MaxChanges,     \* bound: pushes and deletions
  MaxFaults,      \* bound: remote calls that fail
  MaxCrashes,     \* bound: process restarts
  MaxPending      \* bound: unfinished RestartNomadJob goroutines per tag

Actor == {Worker} \union Handlers

\* The tag in the name of the image a job is given. It is empty when
\* GetFormattedPinnedTag finds neither a pin nor a release.
ImageTag == Tag \union {NoTag}

\* ResetTagHandler takes no body; DeployTagHandler takes one with two optional
\* fields. A reset asks for the empty pin. The last two only show something:
\* GetTagHandler and RepoSummaryHandler.
Request ==
  [kind : {"reset"}, pin : {NoTag}, auto : {"absent"}]
    \union
  [kind : {"get", "summary"}, pin : {Absent}, auto : {"absent"}]
    \union
  [kind : {"deploy"}, pin : Tag \union {NoTag, Absent},
   auto : {"absent", "on", "off"}]

NoRequest == [kind |-> "none", pin |-> Absent, auto |-> "absent"]

Hub == [Tag -> Digest \union {NoDigest}]

ASSUME EnvironmentAssumption ==
  /\ Absent \notin Tag \union {NoTag}
  /\ NoDigest \notin Digest
  /\ Worker \notin Handlers
  /\ Requests \subseteq Request
  /\ InitialHubs \subseteq Hub
  /\ Pushes \subseteq Tag \X Digest
  /\ Removable \subseteq Tag
  /\ EmptyDigestIsError \in BOOLEAN
  /\ MaxChanges \in Nat
  /\ MaxFaults \in Nat
  /\ MaxCrashes \in Nat
  /\ MaxPending \in Nat \ {0}

VARIABLES
  hub,          \* hub[t]: the digest tag t points to, NoDigest if t is absent
  published,    \* history: tags the registry has ever held
  row,          \* the repository's row: pinned tag and auto_deploy flag
  cachedTags,   \* Clients.DockerTags for this repository
  cachedDigest, \* Clients.DigestMap for this repository
  running,      \* the image the Nomad job was last given
  restarts,     \* restarts[t]: RestartNomadJob goroutines carrying tag t
  pc,           \* where each actor is
  loc,          \* the local variables of each actor
  req,          \* the request each handler serves
  answer,       \* the status each handler answered with, or "twice"
  changes, faults, crashes  \* how much of each bound has been used

registry == <<hub, published, changes>>
caches == <<cachedTags, cachedDigest>>
nomad == <<running, restarts>>
web == <<req, answer>>
vars == <<registry, row, caches, nomad, pc, loc, web, faults, crashes>>

-----------------------------------------------------------------------------
(* What the registry and Docker Hub answer *)

\* RegistryTags is what GET /v2/<repository>/tags/list answers.
RegistryTags == {t \in Tag : hub[t] # NoDigest}

DigestOf(t) == IF t \in Tag THEN hub[t] ELSE NoDigest

\* isNewReleaseTagAvailable, once both listings are there.
IsNewRelease(listed, cached) ==
  /\ listed # {}
  /\ listed # cached
  /\ FilterReleaseTags(cached) # {}
  /\ FilterReleaseTags(listed) # {}
  /\ TagToNumber(GetLatestReleaseTag(listed))
       > TagToNumber(GetLatestReleaseTag(cached))

-----------------------------------------------------------------------------
(* Actors *)

\* The calls of GetFormattedPinnedTag, and where each goes on with a tag.
AfterPin == [
  should_check |-> "should_digest", update_check |-> "update_digest",
  update_pin |-> "update_fetch", populate_pin |-> "populate_fetch",
  run_original |-> "run_deploy", run_deploy |-> "deploy_pin",
  deploy_pin |-> "deploy_job", sum_value |-> "sum_flag"]

PinSites == DOMAIN AfterPin

Label ==
  PinSites \union
  {"sleep", "should_auto", "should_pin", "should_digest", "should_current",
   "should_list", "should_compare",
   "update_list", "update_store", "update_digest", "update_current",
   "update_fetch", "update_save",
   "populate_list", "populate_store", "populate_fetch", "populate_save",
   "deploy_job",
   "idle", "req_flag", "req_setflag", "req_list", "req_original", "req_auto",
   "req_update", "req_undo", "get_pin", "get_list", "get_failed",
   "sum_pins", "sum_tags", "sum_flag", "sum_reply", "reply", "done"}

\* Where updateCaches returns to.
Return == {"sleep", "run_original", "reply"}

Local == [
  ret : Return,
  pin : Tag \union {NoTag},           \* pinnedTag, originalTag
  tag : Tag \union {NoTag},           \* GetFormattedPinnedTag's result
  latest : BOOLEAN,                   \* it read an empty pin, looks at the cache
  tags : SUBSET Tag,                  \* a listing just fetched
  digest : Digest \union {NoDigest}]  \* a digest just loaded or fetched

NoLocals == [ret |-> "sleep", pin |-> NoTag, tag |-> NoTag, latest |-> FALSE,
             tags |-> {}, digest |-> NoDigest]

Init ==
  /\ hub \in InitialHubs
  /\ published = RegistryTags
  /\ row = [pinned |-> NoTag, auto |-> TRUE]
  /\ cachedTags = {}
  /\ cachedDigest = NoDigest
  /\ running =
       IF FilterReleaseTags(RegistryTags) = {}
       THEN [tag |-> NoTag, digest |-> NoDigest]
       ELSE LET t == GetLatestReleaseTag(RegistryTags)
            IN [tag |-> t, digest |-> hub[t]]
  /\ restarts = [t \in ImageTag |-> 0]
  /\ pc = [a \in Actor |-> IF a = Worker THEN "populate_list" ELSE "idle"]
  /\ loc = [a \in Actor |-> NoLocals]
  /\ req = [h \in Handlers |-> NoRequest]
  /\ answer = [h \in Handlers |-> "none"]
  /\ changes = 0 /\ faults = 0 /\ crashes = 0

Goto(a, l) == pc' = [pc EXCEPT ![a] = l]

\* Where DeployPinnedTag, and every early return, takes an actor.
Back(a) == IF a = Worker THEN "sleep" ELSE "reply"

Works == UNCHANGED faults

Fails == faults < MaxFaults /\ faults' = faults + 1

\* The step touches nothing but the actor's own state.
Private == UNCHANGED <<registry, row, caches, nomad, web, crashes>>

-----------------------------------------------------------------------------
(* GetFormattedPinnedTag: the pin, or the latest release in the tags cache *)

\* Where a failed read of the pin takes the caller of GetFormattedPinnedTag.
PinError(a) ==
  CASE pc[a] \in {"update_check", "update_pin"} -> loc[a].ret
    [] pc[a] = "populate_pin" -> "populate_fetch"
    [] OTHER -> Back(a)

ReadPin(a) ==
  /\ pc[a] \in PinSites
  /\ ~loc[a].latest
  /\ IF row.pinned # NoTag
     THEN /\ loc' = [loc EXCEPT ![a].tag = row.pinned]
          /\ Goto(a, AfterPin[pc[a]])
     ELSE /\ loc' = [loc EXCEPT ![a].latest = TRUE]
          /\ UNCHANGED pc
  /\ Works /\ Private

ReadPinFails(a) ==
  /\ pc[a] \in PinSites
  /\ ~loc[a].latest
  /\ loc' = [loc EXCEPT ![a].tag = NoTag]
  /\ Goto(a, PinError(a))
  /\ Fails /\ Private

\* Without a release the error of GetLatestReleaseTag goes to an err of the
\* inner scope: the caller is given an empty tag and no error.
LatestFromCache(a) ==
  /\ pc[a] \in PinSites
  /\ loc[a].latest
  /\ loc' = [loc EXCEPT ![a].latest = FALSE,
       ![a].tag = IF FilterReleaseTags(cachedTags) = {} THEN NoTag
                  ELSE GetLatestReleaseTag(cachedTags)]
  /\ Goto(a, AfterPin[pc[a]])
  /\ Works /\ Private

-----------------------------------------------------------------------------
(* PopulateCaches and updateCaches *)

ListTags(a) ==
  /\ pc[a] \in {"update_list", "populate_list"}
  /\ loc' = [loc EXCEPT ![a].tags = FilterSHATags(RegistryTags)]
  /\ Goto(a, IF pc[a] = "update_list" THEN "update_store" ELSE "populate_store")
  /\ Works /\ Private

ListTagsFails(a) ==
  /\ pc[a] \in {"update_list", "populate_list"}
  /\ Goto(a, IF pc[a] = "update_list" THEN loc[a].ret ELSE "sleep")
  /\ UNCHANGED loc
  /\ Fails /\ Private

StoreTags(a) ==
  /\ pc[a] \in {"update_store", "populate_store"}
  /\ cachedTags' = loc[a].tags
  /\ loc' = [loc EXCEPT ![a].tags = {}]
  /\ Goto(a, IF pc[a] = "update_store" THEN "update_check" ELSE "populate_pin")
  /\ Works
  /\ UNCHANGED <<registry, row, cachedDigest, nomad, web, crashes>>

\* The first half of isTagDigestChanged, from ShouldDeploy or updateCaches.
LoadDigest(a) ==
  /\ pc[a] \in {"should_digest", "update_digest"}
  /\ loc' = [loc EXCEPT ![a].digest = cachedDigest]
  /\ Goto(a, IF pc[a] = "should_digest" THEN "should_current"
                                        ELSE "update_current")
  /\ Works /\ Private

\* CheckImageIsCurrent as answered by Docker Hub: the cached digest is current
\* when the tag still points to it; no tag points to the empty digest.
IsCurrent(a) ==
  /\ loc[a].digest # NoDigest
  /\ DigestOf(loc[a].tag) = loc[a].digest

LookupRefused(a) == EmptyDigestIsError /\ loc[a].digest = NoDigest

\* An answer whose body is cut off or cannot be decoded counts as "not current":
\* CheckImageIsCurrent drops both errors.
Answered(a, current) ==
  \/ current = IsCurrent(a) /\ Works
  \/ ~current /\ Fails

CheckInUpdate(a) ==
  /\ pc[a] = "update_current"
  /\ ~LookupRefused(a)
  /\ \E current \in BOOLEAN :
       /\ Answered(a, current)
       /\ Goto(a, IF current THEN loc[a].ret ELSE "update_pin")
  /\ loc' = [loc EXCEPT ![a].tag = NoTag, ![a].digest = NoDigest]
  /\ Private

CheckInUpdateFails(a) ==
  /\ pc[a] = "update_current"
  /\ IF LookupRefused(a) THEN Works ELSE Fails
  /\ Goto(a, loc[a].ret)
  /\ loc' = [loc EXCEPT ![a].tag = NoTag, ![a].digest = NoDigest]
  /\ Private

\* GetTagDigestFromApi: no digest for a tag that is not there.
FetchDigest(a) ==
  /\ pc[a] \in {"update_fetch", "populate_fetch"}
  /\ DigestOf(loc[a].tag) # NoDigest
  /\ loc' = [loc EXCEPT ![a].digest = DigestOf(loc[a].tag), ![a].tag = NoTag]
  /\ Goto(a, IF pc[a] = "update_fetch" THEN "update_save" ELSE "populate_save")
  /\ Works /\ Private

FetchDigestFails(a) ==
  /\ pc[a] \in {"update_fetch", "populate_fetch"}
  /\ IF DigestOf(loc[a].tag) = NoDigest THEN Works ELSE Fails
  /\ loc' = [loc EXCEPT ![a].tag = NoTag]
  /\ Goto(a, IF pc[a] = "update_fetch" THEN loc[a].ret ELSE "sleep")
  /\ Private

SaveDigest(a) ==
  /\ pc[a] \in {"update_save", "populate_save"}
  /\ cachedDigest' = loc[a].digest
  /\ loc' = [loc EXCEPT ![a].digest = NoDigest]
  /\ Goto(a, IF pc[a] = "update_save" THEN loc[a].ret ELSE "sleep")
  /\ Works
  /\ UNCHANGED <<registry, row, cachedTags, nomad, web, crashes>>

RefreshCaches(a) ==
  \/ ListTags(a) \/ ListTagsFails(a) \/ StoreTags(a)
  \/ LoadDigest(a) \/ CheckInUpdate(a) \/ CheckInUpdateFails(a)
  \/ FetchDigest(a) \/ FetchDigestFails(a) \/ SaveDigest(a)

-----------------------------------------------------------------------------
(* DeployPinnedTag: a RestartNomadJob goroutine, then updateCaches *)

\* Mutation: the caches are not refreshed after a deployment.
AfterJobOnly(a) == Back(a)

AfterJob(a) == "update_list"

DeployJob(a) ==
  /\ pc[a] = "deploy_job"
  /\ restarts[loc[a].tag] < MaxPending
  /\ restarts' = [restarts EXCEPT ![loc[a].tag] = @ + 1]
  /\ loc' = [loc EXCEPT ![a].tag = NoTag, ![a].ret = Back(a)]
  /\ Goto(a, AfterJob(a))
  /\ Works
  /\ UNCHANGED <<registry, row, caches, running, web, crashes>>

\* The job cannot be read from Nomad: nothing is deployed, the caches are
\* refreshed all the same.
DeployJobFails(a) ==
  /\ pc[a] = "deploy_job"
  /\ loc' = [loc EXCEPT ![a].tag = NoTag, ![a].ret = Back(a)]
  /\ Goto(a, AfterJob(a))
  /\ Fails /\ Private

\* Mutation: a goroutine registers its job without end.
PendingForEver(t) == TRUE

Pending(t) == restarts[t] > 0

\* force_pull: the tag is pulled when the job is placed. A tag that is gone, or
\* empty, cannot be pulled.
RegisterJob(t) ==
  /\ Pending(t)
  /\ restarts' = [restarts EXCEPT ![t] = @ - 1]
  /\ running' = [tag |-> t, digest |-> DigestOf(t)]
  /\ Works
  /\ UNCHANGED <<registry, row, caches, pc, loc, web, crashes>>

RegisterJobFails(t) ==
  /\ Pending(t)
  /\ restarts' = [restarts EXCEPT ![t] = @ - 1]
  /\ Fails
  /\ UNCHANGED <<registry, row, caches, running, pc, loc, web, crashes>>

-----------------------------------------------------------------------------
(* WatcherWorker.runOnce and ShouldDeploy *)

Poll ==
  /\ pc[Worker] = "sleep"
  /\ Goto(Worker, "should_auto")
  /\ loc' = [loc EXCEPT ![Worker] = NoLocals]
  /\ Works /\ Private

\* The worker gives up this iteration with an error.
GiveUp(l) ==
  /\ pc[Worker] = l
  /\ Goto(Worker, "sleep")
  /\ UNCHANGED loc
  /\ Fails /\ Private

\* Mutation: the flag is read and not looked at.
AfterAutoFlagAlways == "should_pin"

\* Mutation: with auto deployment off the poll does nothing at all.
AfterAutoFlagOnly == IF row.auto THEN "should_pin" ELSE "sleep"

\* Auto deployment off: the caches are refreshed and nothing is deployed.
AfterAutoFlag == IF row.auto THEN "should_pin" ELSE "update_list"

ReadAutoFlag ==
  /\ pc[Worker] = "should_auto"
  /\ Goto(Worker, AfterAutoFlag)
  /\ UNCHANGED loc
  /\ Works /\ Private

ReadPinned ==
  /\ pc[Worker] = "should_pin"
  /\ loc' = [loc EXCEPT ![Worker].pin = row.pinned]
  /\ Goto(Worker, "should_check")
  /\ Works /\ Private

\* Mutation: with no pin, only a new release counts.
DigestVerdictPinned(current) ==
  IF current \/ loc[Worker].pin = NoTag THEN "sleep" ELSE "run_original"

\* Where runOnce goes once updateCaches returns; kept in loc.ret.
DigestVerdict(current) == IF current THEN "sleep" ELSE "run_original"

CheckInShouldDeploy ==
  LET me == loc[Worker] IN
  /\ pc[Worker] = "should_current"
  /\ ~LookupRefused(Worker)
  /\ \E current \in BOOLEAN :
       /\ Answered(Worker, current)
       /\ loc' = [loc EXCEPT
            ![Worker].ret = DigestVerdict(current),
            ![Worker].tag = NoTag, ![Worker].digest = NoDigest,
            ![Worker].pin = NoTag]
  /\ Goto(Worker, IF me.pin = NoTag THEN "should_list" ELSE "update_list")
  /\ Private

CheckInShouldDeployFails ==
  /\ pc[Worker] = "should_current"
  /\ IF LookupRefused(Worker) THEN Works ELSE Fails
  /\ Goto(Worker, "sleep")
  /\ UNCHANGED loc
  /\ Private

\* isNewReleaseTagAvailable: a listing that fails counts as "nothing new".
ListForRelease ==
  /\ pc[Worker] = "should_list"
  /\ loc' = [loc EXCEPT ![Worker].tags = FilterSHATags(RegistryTags)]
  /\ Goto(Worker, "should_compare")
  /\ Works /\ Private

ListForReleaseFails ==
  /\ pc[Worker] = "should_list"
  /\ Goto(Worker, "update_list")
  /\ UNCHANGED loc
  /\ Fails /\ Private

CompareReleases ==
  LET me == loc[Worker] IN
  /\ pc[Worker] = "should_compare"
  /\ loc' = [loc EXCEPT
       ![Worker].ret = IF IsNewRelease(me.tags, cachedTags) THEN "run_original"
                                                            ELSE me.ret,
       ![Worker].tags = {}]
  /\ Goto(Worker, "update_list")
  /\ Works /\ Private

ShouldDeploy ==
  \/ ReadAutoFlag \/ GiveUp("should_auto")
  \/ ReadPinned \/ GiveUp("should_pin")
  \/ CheckInShouldDeploy \/ CheckInShouldDeployFails
  \/ ListForRelease \/ ListForReleaseFails \/ CompareReleases

-----------------------------------------------------------------------------
(* ResetTagHandler and DeployTagHandler *)

Receive(h, r) ==
  /\ pc[h] = "idle"
  /\ r \in Requests
  /\ req' = [req EXCEPT ![h] = r]
  /\ \/ /\ r.kind = "reset"
        /\ Goto(h, "req_original")
        /\ UNCHANGED answer
     \/ /\ r.kind = "deploy" /\ r.auto # "absent"
        /\ Goto(h, "req_flag")
        /\ UNCHANGED answer
     \/ /\ r.kind = "deploy" /\ r.auto = "absent" /\ r.pin # Absent
        /\ Goto(h, "req_list")
        /\ UNCHANGED answer
     \/ /\ r.kind = "deploy" /\ r.auto = "absent" /\ r.pin = Absent
        /\ Goto(h, "done")
        /\ answer' = [answer EXCEPT ![h] = "400"]
     \/ /\ r.kind = "get"
        /\ Goto(h, "get_pin")
        /\ UNCHANGED answer
     \/ /\ r.kind = "summary"
        /\ Goto(h, "sum_pins")
        /\ UNCHANGED answer
  /\ Works
  /\ UNCHANGED <<registry, row, caches, nomad, loc, crashes>>

Refuse(h) ==
  /\ answer' = [answer EXCEPT ![h] = "400"]
  /\ Goto(h, "done")

\* Mutation: a request with auto_deploy alone is not answered.
AfterFlagSilent(h) == IF req[h].pin = Absent THEN "done" ELSE "req_list"

AfterFlag(h) == IF req[h].pin = Absent THEN "reply" ELSE "req_list"

\* A read that fails leaves currentAutoDeployFlag false.
ReadFlag(h) ==
  /\ pc[h] = "req_flag"
  /\ \E current \in BOOLEAN :
       /\ IF current = row.auto THEN Works ELSE Fails /\ ~current
       /\ Goto(h, IF current = (req[h].auto = "on") THEN AfterFlag(h)
                                                    ELSE "req_setflag")
  /\ UNCHANGED loc
  /\ Private

\* A write that reports an error may or may not have been committed; the
\* handlers ignore the error of a write to auto_deploy.
WriteFlag(flag) ==
  \/ row' = [row EXCEPT !.auto = flag] /\ (Works \/ Fails)
  \/ UNCHANGED row /\ Fails

SetFlag(h) ==
  /\ pc[h] = "req_setflag"
  /\ WriteFlag(req[h].auto = "on")
  /\ Goto(h, AfterFlag(h))
  /\ UNCHANGED <<registry, caches, nomad, loc, web, crashes>>

ValidatePin(h) ==
  /\ pc[h] = "req_list"
  /\ \/ /\ Works
        /\ IsTagDeployable(req[h].pin, RegistryTags)
        /\ Goto(h, "req_original")
        /\ UNCHANGED answer
     \/ /\ IF IsTagDeployable(req[h].pin, RegistryTags) THEN Fails ELSE Works
        /\ Refuse(h)
  /\ UNCHANGED <<registry, row, caches, nomad, loc, req, crashes>>

\* A read that fails leaves originalTag empty.
ReadOriginal(h) ==
  /\ pc[h] = "req_original"
  /\ \E original \in {row.pinned, NoTag} :
       /\ IF original = row.pinned THEN Works ELSE Fails
       /\ loc' = [loc EXCEPT ![h].pin = original]
       /\ Goto(h, CASE req[h].kind = "reset" /\ original = NoTag -> "reply"
                    [] req[h].kind = "reset" /\ original # NoTag -> "req_auto"
                    [] original = req[h].pin -> "deploy_pin"
                    [] OTHER -> "req_update")
  /\ Private

ResetFlag(h) ==
  /\ pc[h] = "req_auto"
  /\ WriteFlag(TRUE)
  /\ Goto(h, "req_update")
  /\ UNCHANGED <<registry, caches, nomad, loc, web, crashes>>

\* Mutation: the error of the update is ignored.
UpdateErrorIgnored == "deploy_pin"

UpdateError == "req_undo"

UpdatePin(h) ==
  /\ pc[h] = "req_update"
  /\ \/ /\ row' = [row EXCEPT !.pinned = req[h].pin]
        /\ Works
        /\ Goto(h, "deploy_pin")
     \/ /\ row' \in {row, [row EXCEPT !.pinned = req[h].pin]}
        /\ Fails
        /\ Goto(h, UpdateError)
  /\ UNCHANGED <<registry, caches, nomad, loc, web, crashes>>

UndoPin(h) ==
  /\ pc[h] = "req_undo"
  /\ \/ row' = [row EXCEPT !.pinned = loc[h].pin] /\ (Works \/ Fails)
     \/ UNCHANGED row /\ Fails
  /\ Refuse(h)
  /\ UNCHANGED <<registry, caches, nomad, loc, req, crashes>>

Reply(h) ==
  /\ pc[h] \in {"reply", "sum_reply"}
  /\ answer' = [answer EXCEPT ![h] = "200"]
  /\ Goto(h, "done")
  /\ loc' = [loc EXCEPT ![h] = NoLocals]
  /\ Works
  /\ UNCHANGED <<registry, row, caches, nomad, req, crashes>>

Handle(h) ==
  \/ ReadFlag(h) \/ SetFlag(h) \/ ValidatePin(h) \/ ReadOriginal(h)
  \/ ResetFlag(h) \/ UpdatePin(h) \/ UndoPin(h) \/ Reply(h)

-----------------------------------------------------------------------------
(* GetTagHandler and RepoSummaryHandler: what they show is in loc *)

\* A read that fails counts as no pin; its error is answered in the end.
ReadShownPin(h) ==
  /\ pc[h] = "get_pin"
  /\ \/ /\ Works
        /\ loc' = [loc EXCEPT ![h].pin = row.pinned, ![h].tag = row.pinned]
        /\ Goto(h, IF row.pinned = NoTag THEN "get_list" ELSE "reply")
     \/ /\ Fails
        /\ Goto(h, "get_failed")
        /\ UNCHANGED loc
  /\ Private

\* Without a release the handler answers 400 and goes on to answer again.
ListShownTags(h) ==
  /\ pc[h] \in {"get_list", "get_failed"}
  /\ \E listed \in {RegistryTags, {}} :
       /\ IF listed = RegistryTags THEN Works ELSE Fails
       /\ \/ /\ FilterReleaseTags(listed) = {}
             /\ answer' = [answer EXCEPT ![h] = "twice"]
             /\ Goto(h, "done")
             /\ UNCHANGED loc
          \/ /\ FilterReleaseTags(listed) # {}
             /\ pc[h] = "get_list"
             /\ loc' = [loc EXCEPT ![h].tags = listed,
                                   ![h].tag = GetLatestReleaseTag(listed)]
             /\ Goto(h, "reply")
             /\ UNCHANGED answer
          \/ /\ FilterReleaseTags(listed) # {}
             /\ pc[h] = "get_failed"
             /\ Refuse(h)
             /\ UNCHANGED loc
  /\ UNCHANGED <<registry, row, caches, nomad, req, crashes>>

\* GetAllTags, GetCachedTags, GetFormattedPinnedTag (at sum_value) and
\* GetAutoDeployFlag; one that fails leaves the repository out of the summary.
ReadAllPins(h) ==
  /\ pc[h] = "sum_pins"
  /\ \/ /\ Works
        /\ loc' = [loc EXCEPT ![h].pin = row.pinned]
        /\ Goto(h, "sum_tags")
     \/ /\ Fails
        /\ Goto(h, "reply")
        /\ UNCHANGED loc
  /\ Private

LoadShownTags(h) ==
  /\ pc[h] = "sum_tags"
  /\ loc' = [loc EXCEPT ![h].tags = cachedTags]
  /\ Goto(h, "sum_value")
  /\ Works /\ Private

ReadShownFlag(h) ==
  /\ pc[h] = "sum_flag"
  /\ \/ Works /\ Goto(h, "sum_reply")
     \/ Fails /\ Goto(h, "reply")
  /\ UNCHANGED loc
  /\ Private

Show(h) ==
  \/ ReadShownPin(h) \/ ListShownTags(h)
  \/ ReadAllPins(h) \/ LoadShownTags(h) \/ ReadShownFlag(h)

-----------------------------------------------------------------------------
(* The outside world, and a restart of the process *)

Push(t, d) ==
  /\ <<t, d>> \in Pushes
  /\ hub[t] # d
  /\ changes < MaxChanges
  /\ changes' = changes + 1
  /\ hub' = [hub EXCEPT ![t] = d]
  /\ published' = published \union {t}
  /\ Works
  /\ UNCHANGED <<row, caches, nomad, pc, loc, web, crashes>>

Remove(t) ==
  /\ t \in Removable
  /\ hub[t] # NoDigest
  /\ changes < MaxChanges
  /\ changes' = changes + 1
  /\ hub' = [hub EXCEPT ![t] = NoDigest]
  /\ Works
  /\ UNCHANGED <<published, row, caches, nomad, pc, loc, web, crashes>>

\* Mutation: initRows overwrites the row.
RowAfterInitRowsReset == [pinned |-> NoTag, auto |-> TRUE]

\* initRows inserts ON CONFLICT DO NOTHING.
RowAfterInitRows == row

\* The caches, the goroutines and the requests being served are lost.
Restart ==
  /\ crashes < MaxCrashes
  /\ crashes' = crashes + 1
  /\ row' = RowAfterInitRows
  /\ cachedTags' = {} /\ cachedDigest' = NoDigest
  /\ restarts' = [t \in ImageTag |-> 0]
  /\ pc' = [a \in Actor |-> IF a = Worker THEN "populate_list"
                            ELSE IF pc[a] = "idle" THEN "idle" ELSE "done"]
  /\ loc' = [a \in Actor |-> NoLocals]
  /\ Works
  /\ UNCHANGED <<registry, running, web>>

\* What begins something: a poll, a request, a change of the registry.
Arrival ==
  \/ Poll
  \/ \E h \in Handlers, r \in Requests : Receive(h, r)
  \/ \E t \in Tag, d \in Digest : Push(t, d)
  \/ \E t \in Tag : Remove(t)

\* The next step of what an actor has begun.
Step(a) ==
  \/ ReadPin(a) \/ ReadPinFails(a) \/ LatestFromCache(a)
  \/ RefreshCaches(a)
  \/ DeployJob(a) \/ DeployJobFails(a)
  \/ a = Worker /\ ShouldDeploy
  \/ a \in Handlers /\ (Handle(a) \/ Show(a))

Progress ==
  \/ \E a \in Actor : Step(a)
  \/ \E t \in ImageTag : RegisterJob(t) \/ RegisterJobFails(t)

Next == Arrival \/ Progress \/ Restart

Spec == Init /\ [][Next]_vars

\* Every remote call returns, so a goroutine that can go on does; the ticker
\* of the worker always fires again. Requests, pushes, deletions and restarts
\* are owed to nobody.
Fairness ==
  /\ WF_vars(Poll)
  /\ \A a \in Actor : WF_vars(Step(a))
  /\ \A t \in ImageTag : WF_vars(RegisterJob(t) \/ RegisterJobFails(t))

FairSpec == Spec /\ Fairness

-----------------------------------------------------------------------------
(* Properties *)

\* Every variable holds what the code can put there: no goroutine comes to a
\* place its caller does not have, no pin is a field a request left out.
TypeOK ==
  /\ hub \in Hub
  /\ published \subseteq Tag
  /\ row \in [pinned : Tag \union {NoTag}, auto : BOOLEAN]
  /\ cachedTags \subseteq Tag
  /\ cachedDigest \in Digest \union {NoDigest}
  /\ running \in [tag : Tag \union {NoTag}, digest : Digest \union {NoDigest}]
  /\ restarts \in [ImageTag -> Nat]
  /\ pc \in [Actor -> Label]
  /\ loc \in [Actor -> Local]
  /\ req \in [Handlers -> Request \union {NoRequest}]
  /\ answer \in [Handlers -> {"none", "200", "400", "twice"}]
  /\ changes \in Nat /\ faults \in Nat /\ crashes \in Nat

\* Nothing the registry never held is pinned, cached, deployed or run:
\* DeployTagHandler validates a tag before it stores it, the undo after a
\* failed update writes a pin read earlier, and the worker deploys what it
\* read from the row or from the tags cache, however those steps interleave.
PublishedOnly ==
  /\ row.pinned \in published \union {NoTag}
  /\ cachedTags \subseteq published
  /\ running.tag \in published \union {NoTag}
  /\ \A t \in Tag : restarts[t] > 0 => t \in published

=============================================================================
