----------------------------- MODULE WatcherQuiet -----------------------------
(***************************************************************************)
(* When registrywatcher keeps its promise (AutoDeploy): nothing happens to *)
(* a repository while a poll or a request is under way, and no request     *)
(* arrives between a change of the registry and the poll that sees it. The *)
(* runs of WatcherClaims show what goes wrong without each of these.       *)
(***************************************************************************)
EXTENDS Watcher

VARIABLES
  owed,      \* the promise: a deployment has been called for and not made
  launches   \* jobs the worker has deployed

qvars == <<vars, owed, launches>>

\* The tag a pin stands for in a registry that holds h, and its image.
TagWanted(h, pin) ==
  IF pin # NoTag THEN pin
  ELSE GetLatestReleaseTag({t \in Tag : h[t] # NoDigest})

Wanted(h, pin) == [tag |-> TagWanted(h, pin), digest |-> h[TagWanted(h, pin)]]

\* Nobody has anything left to do.
AtRest ==
  /\ pc[Worker] = "sleep"
  /\ \A h \in Handlers : pc[h] \in {"idle", "done"}
  /\ \A t \in ImageTag : restarts[t] = 0

\* The caches hold what the registry holds.
CachesCurrent ==
  /\ cachedTags = FilterSHATags(RegistryTags)
  /\ cachedDigest = Wanted(hub, row.pinned).digest

\* The tag whose image a poll compares with the cached digest.
Watched ==
  IF row.pinned # NoTag THEN row.pinned ELSE GetLatestReleaseTag(cachedTags)

\* A push that gives that tag the cached image back, before any poll has seen
\* that it lost it, undoes a change: no poll will see either.
PutsBack(t, d) == t = Watched /\ d = cachedDigest

-----------------------------------------------------------------------------
QInit == Init /\ owed = FALSE /\ launches = 0

\* The remote calls that may fail: those the next poll makes good. A failure
\* of any other loses a deployment or, at startup, every later one. The listing
\* ShouldDeploy caches before it answers yes is one of the others: without it
\* runOnce deploys the old release, and DeployPinnedTag caches the new one. A
\* refresh after a request is left out as well: the digest of the old pin stays
\* cached, and a push of that same image under the new pin, which PutsBack
\* leaves out too, goes unnoticed.
Retried ==
  {"should_auto", "should_pin", "should_check", "should_current",
   "update_list", "update_check", "update_current", "update_pin",
   "update_fetch"}

Tolerated(a) ==
  faults' > faults =>
    /\ a = Worker /\ pc[a] \in Retried
    /\ ~(pc[a] = "update_list" /\ loc[a].ret = "run_original")

\* A request calls for a deployment when its handler is about to make one; a
\* change of the registry does if it changes what the pin stands for.
CalledFor ==
  \/ \E h \in Handlers : pc[h] # "deploy_pin" /\ pc'[h] = "deploy_pin"
  \/ row.auto /\ Wanted(hub', row.pinned) # Wanted(hub, row.pinned)

Launched ==
  /\ pc[Worker] = "deploy_job"
  /\ \E t \in ImageTag : restarts'[t] > restarts[t]

Account ==
  /\ owed' = (owed \/ CalledFor)
  /\ launches' = IF Launched THEN launches + 1 ELSE launches

QPoll == AtRest /\ Poll /\ Account

QReceive ==
  /\ AtRest /\ CachesCurrent
  /\ \E h \in Handlers, r \in Requests : Receive(h, r)
  /\ Account

QChange ==
  /\ AtRest
  /\ \E t \in Tag, d \in Digest : ~PutsBack(t, d) /\ Push(t, d)
  /\ Account

QRestart == AtRest /\ CachesCurrent /\ Restart /\ Account

QStep(a) == Step(a) /\ Tolerated(a) /\ Account

QRegister ==
  /\ \E t \in ImageTag : RegisterJob(t)
  /\ owed' = FALSE
  /\ UNCHANGED launches

QNext ==
  \/ QPoll \/ QReceive \/ QChange \/ QRestart \/ QRegister
  \/ \E a \in Actor : QStep(a)

QFairness ==
  /\ WF_qvars(QPoll)
  /\ WF_qvars(QRegister)
  /\ \A a \in Actor : WF_qvars(QStep(a))

QSpec == QInit /\ [][QNext]_qvars /\ QFairness

-----------------------------------------------------------------------------
(* Properties *)

\* Between two polls, a deployment that is owed shows: auto deployment is on
\* and the caches differ from the registry, which is what ShouldDeploy looks
\* for. Whatever updates the caches without a deployment would hide it.
OwedIsVisible == AtRest /\ owed => row.auto /\ ~CachesCurrent

\* The worker deploys at most once for each change of the registry and each
\* failed call: what a request deployed, or a poll has deployed already, is in
\* the caches by the next poll (DeployPinnedTag refreshes them last).
OneLaunchPerChange == launches <= changes + faults

\* The job runs what the pin stands for, in the end, each time that changes
\* with auto deployment on and each time a request pins a tag; and it is never
\* given anything else.
Promise == INSTANCE AutoDeploy WITH
  pinned <- row.pinned, auto <- row.auto,
  Hubs <- Hub, Pins <- Tag \union {NoTag}

KeepsPromise == Promise!Spec

==============================================================================
