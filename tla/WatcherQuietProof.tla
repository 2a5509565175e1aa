--------------------------- MODULE WatcherQuietProof ---------------------------
(***************************************************************************)
(* WatcherQuiet for any tags, digests, requests and bounds: a deployment   *)
(* that is owed shows in the caches, each change is deployed once, and     *)
(* every step is one of AutoDeploy.                                        *)
(***************************************************************************)
EXTENDS WatcherQuiet, WatcherProof

-----------------------------------------------------------------------------
(* Where an actor may be *)

Should == {"should_auto", "should_pin", "should_check", "should_digest",
           "should_current", "should_list", "should_compare"}
Updated == {"update_check", "update_digest", "update_current", "update_pin",
            "update_fetch", "update_save"}
Updating == {"update_list", "update_store"} \union Updated
Populated == {"populate_pin", "populate_fetch", "populate_save"}
Populating == {"populate_list", "populate_store"} \union Populated
Deploying == {"run_original", "run_deploy", "deploy_pin", "deploy_job"}

\* A request has not touched the pin yet, or only looks, or is about to be
\* answered.
Harmless == {"req_flag", "req_setflag", "req_list", "req_original", "req_auto",
             "req_update", "get_pin", "get_list", "sum_pins", "sum_tags",
             "sum_value", "sum_flag", "sum_reply", "reply"}

WorkerPlaces == {"sleep"} \union Should \union Updating \union Populating \union Deploying
HandlerPlaces ==
  {"idle", "done", "deploy_pin", "deploy_job"} \union Harmless \union Updating

Rests(l) == l \in {"sleep", "idle", "done"}

\* One actor at most has something to do: the others wait.
OneIsBusy == \A a, b \in Actor : ~Rests(pc[a]) /\ ~Rests(pc[b]) => a = b

-----------------------------------------------------------------------------
(* What the caches hold *)

Goal == TagWanted(hub, row.pinned)

TagsCurrent == cachedTags = FilterSHATags(RegistryTags)

\* What ShouldDeploy looks for, of caches that were filled once.
Outdated == Watched # Goal \/ hub[Goal] # cachedDigest

\* The registry has what is pinned, and a release; so have the caches once they
\* were filled, and they have nothing the registry has not.
Stocked ==
  /\ FilterReleaseTags(RegistryTags) # {}
  /\ row.pinned # NoTag => row.pinned \in RegistryTags
  /\ pc[Worker] \notin Populating =>
       /\ cachedDigest # NoDigest
       /\ cachedTags \subseteq FilterSHATags(RegistryTags)
       /\ FilterReleaseTags(cachedTags) # {}

-----------------------------------------------------------------------------
(* What an actor at l with locals r is sure of *)

WorkerFits(l, r) ==
  /\ l \in Should \ {"should_auto"} => row.auto
  /\ l \in Should \ {"should_list", "should_compare"} => r.ret = "sleep"
  /\ l \in {"should_check", "should_digest", "should_current"} =>
       r.pin = row.pinned
  /\ l \in {"should_digest", "should_current"} => r.tag = Watched
  /\ l \in {"should_list", "should_compare"} =>
       /\ row.pinned = NoTag
       /\ hub[Watched] # cachedDigest => r.ret = "run_original"
  /\ l \in {"should_list", "should_compare"} \union Updating =>
       r.ret \in {"sleep", "run_original"}

HandlerFits(h, l, r) ==
  /\ ~Rests(l) => TagsCurrent
  /\ l \in Harmless => CachesCurrent
  /\ l \in Updating => r.ret = "reply"
  /\ l \in {"req_original", "req_auto", "req_update"} =>
       req[h].pin \in RegistryTags \union {NoTag}

Fits(a, l, r) ==
  /\ l \in (IF a = Worker THEN WorkerPlaces ELSE HandlerPlaces)
  /\ r.latest => l \in PinSites /\ row.pinned = NoTag
  /\ l \in Updated \union Populated \union Deploying => TagsCurrent
  /\ l \in {"update_store", "populate_store", "should_compare"} =>
       r.tags = FilterSHATags(RegistryTags)
  /\ l \in {"update_digest", "update_current", "update_fetch",
            "populate_fetch", "deploy_job"} => r.tag = Goal
  /\ l \in {"update_current", "should_current"} => r.digest = cachedDigest
  /\ l \in {"update_save", "populate_save"} => r.digest = hub[Goal]
  /\ IF a = Worker THEN WorkerFits(l, r) ELSE HandlerFits(a, l, r)

-----------------------------------------------------------------------------
(* What is owed *)

\* The worker sleeps or is finding out.
Seeks(l) == l \in {"sleep"} \union Should

\* An actor that will deploy, and one that has if anything was to be deployed. A
\* worker may have decided to, for a digest or an answer it could not read,
\* before it looks for a new release.
Decides(l, ret) ==
  \/ l \in Deploying
  \/ l \in {"should_list", "should_compare"} \union Updating /\ ret = "run_original"
Served(l, ret) == l = "reply" \/ (l \in Updating /\ ret # "run_original")

Decided(a) == Decides(pc[a], loc[a].ret)

JobUnderWay == \E t \in ImageTag : restarts[t] > 0

\* A job on its way to Nomad has the tag that is wanted.
RestartInv ==
  /\ \A t \in ImageTag : restarts[t] > 0 => t = Goal
  /\ JobUnderWay =>
       \A a \in Actor : Rests(pc[a]) \/ Served(pc[a], loc[a].ret)

\* The worker finds out, or will in its next poll, that the caches are outdated.
Shows ==
  /\ Seeks(pc[Worker]) /\ \A h \in Handlers : Rests(pc[h])
  /\ Outdated

OwedInv ==
  owed => JobUnderWay \/ (\E a \in Actor : Decided(a)) \/ (Shows /\ row.auto)

\* A deployment that the worker will make, or would if it looked.
Due == IF Decided(Worker) \/ Shows THEN 1 ELSE 0

LaunchInv == launches + Due <= changes + faults

QInv ==
  /\ \A a \in Actor : Fits(a, pc[a], loc[a])
  /\ OneIsBusy
  /\ Stocked
  /\ RestartInv
  /\ owed \in BOOLEAN /\ OwedInv
  /\ launches \in Nat /\ LaunchInv

-----------------------------------------------------------------------------
(* The latest release of what is cached, and of what is there *)

\* No two tags write one release: v1.0.0 and v01.0.0 are not both there. Where
\* both are, isNewReleaseTagAvailable takes neither for newer than the other.
OneSpelling ==
  \A t, u \in Release : TagToNumber(t) = TagToNumber(u) => t = u

\* The repository has a release when the program first starts.
ReleasesExist ==
  \A h \in InitialHubs : \E t \in Release : h[t] # NoDigest

\* The latest release depends on the releases alone, and a tag with a commit
\* hash is none.
LatestOf(R) ==
  CHOOSE t \in R :
    \A u \in R : \/ TagToNumber(u) < TagToNumber(t)
                 \/ TagToNumber(u) = TagToNumber(t) /\ SortKey[u] <= SortKey[t]

LEMMA LatestIgnoresSha ==
  ASSUME NEW S
  PROVE  /\ FilterReleaseTags(FilterSHATags(S)) = FilterReleaseTags(S)
         /\ GetLatestReleaseTag(FilterSHATags(S)) = GetLatestReleaseTag(S)
<1>1. FilterReleaseTags(FilterSHATags(S)) = FilterReleaseTags(S)
  BY TagAssumption DEF FilterReleaseTags, FilterSHATags
<1>2. /\ GetLatestReleaseTag(S) = LatestOf(FilterReleaseTags(S))
      /\ GetLatestReleaseTag(FilterSHATags(S))
           = LatestOf(FilterReleaseTags(FilterSHATags(S)))
  BY Zenon DEF GetLatestReleaseTag, LatestOf
<1> QED
  BY <1>1, <1>2, Zenon

LEMMA LatestHasGreatestNumber ==
  ASSUME NEW S \in SUBSET Tag, FilterReleaseTags(S) # {}
  PROVE  /\ GetLatestReleaseTag(S) \in S \intersect Release
         /\ TagToNumber(GetLatestReleaseTag(S)) \in Nat
         /\ \A t \in S \intersect Release :
              /\ TagToNumber(t) \in Nat
              /\ TagToNumber(t) <= TagToNumber(GetLatestReleaseTag(S))
<1> DEFINE last == GetLatestReleaseTag(S)
<1>1. FilterReleaseTags(S) \in SUBSET Release
  BY DEF FilterReleaseTags
<1>2. PICK t \in FilterReleaseTags(S) :
        \A u \in FilterReleaseTags(S) : NotAfter(u, t)
  BY <1>1, LatestExists DEF HasLast
<1>3. /\ last \in FilterReleaseTags(S)
      /\ \A u \in FilterReleaseTags(S) : NotAfter(u, last)
  BY <1>2, Zenon DEF GetLatestReleaseTag, NotAfter
<1>4. \A u \in FilterReleaseTags(S) : TagToNumber(u) \in Nat
  BY <1>1, NumberIsNatural
<1>5. \A u \in FilterReleaseTags(S) : TagToNumber(u) <= TagToNumber(last)
  BY <1>3, <1>4 DEF NotAfter
<1> QED
  BY <1>3, <1>4, <1>5 DEF FilterReleaseTags

\* Of a listing and a part of it, isNewReleaseTagAvailable sees a newer release
\* in the whole when the latest is another.
LEMMA NewReleaseIsAnother ==
  ASSUME OneSpelling, NEW S \in SUBSET Tag, NEW T \in SUBSET S,
         FilterReleaseTags(T) # {}
  PROVE  IsNewRelease(S, T) <=> GetLatestReleaseTag(S) # GetLatestReleaseTag(T)
<1> DEFINE s == GetLatestReleaseTag(S)
           t == GetLatestReleaseTag(T)
<1>1. FilterReleaseTags(S) # {} /\ T \in SUBSET Tag
  BY DEF FilterReleaseTags
<1>2. /\ s \in Release /\ t \in Release
      /\ TagToNumber(s) \in Nat /\ TagToNumber(t) \in Nat
      /\ TagToNumber(t) <= TagToNumber(s)
  BY <1>1, LatestHasGreatestNumber
<1>3. TagToNumber(s) > TagToNumber(t) <=> s # t
  <2>1. s # t => TagToNumber(s) # TagToNumber(t)
    BY <1>2 DEF OneSpelling
  <2> HIDE DEF s, t
  <2> QED
    BY <1>2, <2>1, SMT
<1>4. IsNewRelease(S, T) <=> TagToNumber(s) > TagToNumber(t)
  <2>1. TagToNumber(s) > TagToNumber(t) => S # T
    <3>1. SUFFICES ASSUME S = T PROVE ~(TagToNumber(s) > TagToNumber(t))
      OBVIOUS
    <3>2. s = t
      BY <3>1
    <3> HIDE DEF s, t
    <3> QED
      BY <1>2, <3>2
  <2>2. S # {}
    BY <1>1 DEF FilterReleaseTags
  <2> QED
    BY <1>1, <2>1, <2>2, Zenon DEF IsNewRelease
<1> QED
  BY <1>3, <1>4

\* Once the caches were filled, what is wanted and what is watched are there.
LEMMA GoalIsThere ==
  ASSUME TypeOK, Stocked
  PROVE  /\ RegistryTags \in SUBSET Tag /\ Goal \in RegistryTags
         /\ Goal \in Tag /\ hub[Goal] \in Digest /\ DigestOf(Goal) = hub[Goal]
         /\ row.pinned # NoTag => Goal = row.pinned
         /\ row.pinned = NoTag => Goal = GetLatestReleaseTag(RegistryTags)
<1>1. RegistryTags \in SUBSET Tag
  BY DEF RegistryTags
<1>2. Goal \in RegistryTags
  BY <1>1, LatestIsListed DEF Stocked, Goal, TagWanted, RegistryTags, FilterReleaseTags
<1>3. Goal \in Tag /\ hub[Goal] \in Digest
  BY <1>2 DEF RegistryTags, TypeOK, Hub
<1> QED
  BY <1>1, <1>2, <1>3 DEF DigestOf, Goal, TagWanted, RegistryTags

LEMMA WatchedIsThere ==
  ASSUME TypeOK, Stocked, pc[Worker] \notin Populating
  PROVE  Watched \in RegistryTags /\ Watched \in Tag /\ DigestOf(Watched) = hub[Watched]
<1>1. cachedTags \in SUBSET Tag
  BY DEF TypeOK
<1>2. Watched \in RegistryTags
  BY <1>1, LatestIsListed
  DEF Stocked, Watched, RegistryTags, FilterReleaseTags, FilterSHATags
<1> QED
  BY <1>2 DEF RegistryTags, DigestOf

\* Caches that hold the tags of the registry watch what is wanted.
LEMMA CurrentTagsWatchGoal ==
  ASSUME TagsCurrent
  PROVE  Watched = Goal
BY LatestIgnoresSha DEF TagsCurrent, Watched, Goal, TagWanted, RegistryTags

LEMMA CurrentIsNotOutdated ==
  ASSUME CachesCurrent
  PROVE  TagsCurrent /\ ~Outdated
BY CurrentTagsWatchGoal DEF CachesCurrent, TagsCurrent, Outdated, Wanted, Goal

-----------------------------------------------------------------------------
(* One actor moves, the others rest *)

LEMMA OthersRest ==
  ASSUME QInv, NEW a \in Actor, ~Rests(pc[a])
  PROVE  \A b \in Actor \ {a} : Rests(pc[b])
BY DEF QInv, OneIsBusy

\* An actor at rest is sure of nothing.
LEMMA RestFits ==
  ASSUME NEW b \in Actor, Rests(pc[b]), Fits(b, pc[b], loc[b]),
         pc'[b] = pc[b], loc'[b] = loc[b]
  PROVE  Fits(b, pc[b], loc[b])'
BY Labels
DEF Rests, Fits, WorkerFits, HandlerFits, WorkerPlaces, HandlerPlaces, Should,
    Updated, Updating, Populated, Populating, Deploying, Harmless

\* What a step of one actor must do about deployments, for the invariant to
\* stay: it may not forget one it decided on; nor, unless a call failed, decide
\* on one that is not called for or leave the caches outdated.
Accounted(a) ==
  /\ JobUnderWay =>
       /\ Rests(pc'[a]) \/ Served(pc'[a], loc'[a].ret)
       /\ Goal' = Goal
  /\ Decided(a) => Decided(a)'
  /\ a = Worker =>
       /\ Seeks(pc[a]) /\ Outdated /\ row.auto =>
            Decided(a)' \/ (Seeks(pc'[a]) /\ Outdated' /\ row'.auto)
       /\ Decided(a)' =>
            Decided(a) \/ (Seeks(pc[a]) /\ Outdated) \/ faults' > faults
       /\ Seeks(pc'[a]) /\ Outdated' =>
            (Seeks(pc[a]) /\ Outdated) \/ faults' > faults
  /\ a # Worker => ~Rests(pc[a]) /\ (Rests(pc'[a]) => ~Outdated')

LEMMA AccountType ==
  ASSUME Account
  PROVE  owed' \in BOOLEAN
<1>1. CASE owed \/ CalledFor
  BY <1>1 DEF Account
<1>2. CASE ~(owed \/ CalledFor)
  BY <1>2 DEF Account
<1> QED
  BY <1>1, <1>2

\* n launches, c changes; f failures become g, what is due d becomes e.
LEMMA Counted ==
  ASSUME NEW n \in Nat, NEW c \in Nat, NEW f \in Nat, NEW g \in Nat,
         NEW d \in {0, 1}, NEW e \in {0, 1},
         n + d <= c + f, f <= g, e = 1 => d = 1 \/ g > f
  PROVE  n + e <= c + g
OBVIOUS

LEMMA MoveKeeps ==
  ASSUME TypeOK, QInv, NEW a \in Actor,
         \A b \in Actor \ {a} :
           Rests(pc[b]) /\ pc'[b] = pc[b] /\ loc'[b] = loc[b],
         UNCHANGED <<hub, restarts, changes>>, Works \/ Fails, Account,
         \A h \in Handlers : h # a => req'[h] = req[h],
         Fits(a, pc[a], loc[a])', Stocked', Accounted(a)
  PROVE  QInv'
<1>0. /\ Worker \in Actor /\ Worker \notin Handlers
      /\ \A h \in Handlers : h \in Actor /\ h # Worker
      /\ \A b \in Actor : b # Worker => b \in Handlers
      /\ faults \in Nat /\ changes \in Nat /\ faults' \in Nat /\ faults' >= faults
  BY EnvironmentAssumption DEF Actor, TypeOK, Works, Fails
<1>1. (\A b \in Actor : Fits(b, pc[b], loc[b]))'
  BY RestFits DEF QInv
<1>2. OneIsBusy'
  BY DEF OneIsBusy
<1>3. RestartInv'
  BY DEF QInv, RestartInv, JobUnderWay, Accounted
<1>4. ~Launched /\ launches' = launches
  <2>1. \A t \in ImageTag : restarts[t] \in Nat /\ restarts'[t] = restarts[t]
    BY DEF TypeOK
  <2>2. ~Launched
    BY <2>1 DEF Launched
  <2> QED
    BY <2>2 DEF Account
<1>5. CalledFor => Decided(a)'
  <2>1. CalledFor => pc'[a] = "deploy_pin"
    BY <1>0 DEF CalledFor
  <2> QED
    BY <2>1 DEF Decided, Decides, Deploying
<1>6. OwedInv'
  <2>1. CASE Decided(a)'
    BY <2>1 DEF OwedInv, Decided
  <2>2. CASE ~Decided(a)'
    <3>1. SUFFICES ASSUME owed PROVE OwedInv'
      <4>1. owed' => owed
        BY <1>5, <2>2, Zenon DEF Account
      <4> QED
        BY <4>1 DEF OwedInv
    <3>2. CASE JobUnderWay
      BY <3>2 DEF OwedInv, JobUnderWay
    <3>3. CASE \E b \in Actor : Decided(b)
      <4>1. \A b \in Actor \ {a} : ~Decided(b)
        BY DEF Decided, Decides, Rests, Deploying, Updating, Updated
      <4> QED
        BY <2>2, <3>3, <4>1 DEF Accounted
    <3>4. CASE Shows /\ row.auto
      <4>1. a = Worker
        BY <1>0, <3>4 DEF Shows, Accounted
      <4>2. Shows' /\ row'.auto
        BY <1>0, <2>2, <3>4, <4>1 DEF Shows, Accounted
      <4> QED
        BY <4>2 DEF OwedInv
    <3> QED
      BY <3>1, <3>2, <3>3, <3>4 DEF QInv, OwedInv
  <2> QED
    BY <2>1, <2>2
<1>7. Due' = 1 => Due = 1 \/ faults' > faults
  <2>1. CASE a = Worker
    <3>1. Shows <=> Seeks(pc[a]) /\ Outdated
      BY <1>0, <2>1 DEF Shows
    <3>2. Shows' <=> Seeks(pc'[a]) /\ Outdated'
      BY <1>0, <2>1 DEF Shows
    <3> QED
      BY <2>1, <3>1, <3>2 DEF Due, Accounted
  <2>2. CASE a # Worker
    <3>1. ~Decided(Worker)'
      BY <1>0, <2>2 DEF Decided, Decides, Rests, Deploying, Updating, Updated
    <3>2. ~Shows'
      BY <1>0, <2>2 DEF Shows, Accounted
    <3> QED
      BY <3>1, <3>2 DEF Due
  <2> QED
    BY <2>1, <2>2
<1>8. LaunchInv'
  <2>1. launches \in Nat /\ Due \in {0, 1} /\ Due' \in {0, 1}
    BY DEF QInv, Due
  <2>2. launches + Due <= changes + faults /\ changes' = changes
    BY DEF QInv, LaunchInv
  <2> HIDE DEF Due
  <2>3. launches + Due' <= changes + faults'
    BY <1>0, <1>7, <2>1, <2>2, Counted
  <2> QED
    BY <1>4, <2>2, <2>3, Zenon DEF LaunchInv
<1> QED
  BY <1>1, <1>2, <1>3, <1>4, <1>6, <1>8, AccountType DEF QInv

\* The same for a step that changes nothing but the actor, its answer and the
\* count of failures.
LEMMA StillKeeps ==
  ASSUME TypeOK, QInv, NEW a \in Actor, NEW l, NEW r,
         \A b \in Actor \ {a} :
           Rests(pc[b]) /\ pc'[b] = pc[b] /\ loc'[b] = loc[b],
         pc'[a] = l, loc'[a] = r,
         UNCHANGED <<hub, row, caches, restarts, changes, req>>,
         Works \/ Fails, Account,
         Fits(a, l, r),
         pc[a] \in Populating => l \in Populating,
         JobUnderWay => Rests(l) \/ Served(l, r.ret),
         Decided(a) => Decides(l, r.ret),
         a = Worker =>
           /\ Seeks(pc[a]) /\ Outdated /\ row.auto => Seeks(l) \/ Decides(l, r.ret)
           /\ Decides(l, r.ret) =>
                Decided(a) \/ (Seeks(pc[a]) /\ Outdated) \/ faults' > faults
           /\ Seeks(l) /\ Outdated => Seeks(pc[a]) \/ faults' > faults,
         a # Worker => ~Rests(pc[a]) /\ (Rests(l) => ~Outdated)
  PROVE  QInv'
<1>1. /\ hub' = hub /\ row' = row /\ req' = req
      /\ cachedTags' = cachedTags /\ cachedDigest' = cachedDigest
  BY DEF caches
<1>2. /\ RegistryTags' = RegistryTags /\ Goal' = Goal /\ Watched' = Watched
      /\ (TagsCurrent' <=> TagsCurrent) /\ (Outdated' <=> Outdated)
      /\ (CachesCurrent' <=> CachesCurrent)
  BY <1>1
  DEF RegistryTags, Goal, TagWanted, Watched, TagsCurrent, Outdated,
      CachesCurrent, Wanted
<1>3. Fits(a, pc[a], loc[a])'
  BY <1>1, <1>2 DEF Fits, WorkerFits, HandlerFits
<1>4. Stocked'
  <2>1. pc'[Worker] \in Populating \/ pc[Worker] \notin Populating
    BY DEF Actor
  <2> QED
    BY <1>1, <1>2, <2>1 DEF QInv, Stocked
<1>5. Accounted(a)
  BY <1>1, <1>2 DEF Accounted, Decided
<1> QED
  BY <1>1, <1>3, <1>4, <1>5, MoveKeeps

\* What holds of an actor that takes a step.
LEMMA StepRests ==
  ASSUME NEW a \in Actor, Step(a)
  PROVE  ~Rests(pc[a])
BY Labels
DEF Step, Rests, ReadPin, ReadPinFails, LatestFromCache,
    RefreshCaches, ListTags, ListTagsFails, StoreTags, LoadDigest,
    CheckInUpdate, CheckInUpdateFails, FetchDigest, FetchDigestFails,
    SaveDigest, DeployJob, DeployJobFails,
    ShouldDeploy, ReadAutoFlag, GiveUp, ReadPinned,
    CheckInShouldDeploy, CheckInShouldDeployFails, ListForRelease,
    ListForReleaseFails, CompareReleases,
    Handle, ReadFlag, SetFlag, ValidatePin, ReadOriginal, ResetFlag,
    UpdatePin, UndoPin, Reply, Show, ReadShownPin, ListShownTags,
    ReadAllPins, LoadShownTags, ReadShownFlag

LEMMA StepHas ==
  ASSUME TypeOK, QInv, NEW a \in Actor, Step(a)
  PROVE  /\ ~Rests(pc[a]) /\ Fits(a, pc[a], loc[a]) /\ Stocked
         /\ \A b \in Actor \ {a} :
              Rests(pc[b]) /\ pc'[b] = pc[b] /\ loc'[b] = loc[b]
         /\ UNCHANGED req
         /\ JobUnderWay => Served(pc[a], loc[a].ret)
         /\ Fails => faults' > faults
<1>1. ~Rests(pc[a])
  BY StepRests
<1>2. Fails => faults' > faults
  BY DEF Fails, TypeOK
<1> QED
  BY <1>1, <1>2, OthersRest, StepIsOwn DEF QInv, RestartInv

\* A call that fails is the worker's, one of those that are retried.
LEMMA FailureTolerated ==
  ASSUME TypeOK, QInv, NEW a \in Actor, Step(a), Tolerated(a), Fails
  PROVE  /\ a = Worker /\ pc[a] \in Retried
         /\ ~(pc[a] = "update_list" /\ loc[a].ret = "run_original")
BY StepHas DEF Tolerated

-----------------------------------------------------------------------------
(* GetFormattedPinnedTag *)

\* It returns the tag that is watched, which is the one that is wanted where
\* the cached tags are current.
LEMMA PinFound ==
  ASSUME TypeOK, QInv, NEW a \in Actor, Step(a), Account,
         pc[a] \in PinSites, NEW r,
         r.ret = loc[a].ret, r.pin = loc[a].pin, ~r.latest, r.tag = Watched,
         pc'[a] = AfterPin[pc[a]], loc'[a] = r,
         UNCHANGED <<hub, row, caches, restarts, changes, req>>, Works
  PROVE  QInv'
<1> DEFINE l == AfterPin[pc[a]]
<1>0. /\ Fits(a, pc[a], loc[a]) /\ ~Rests(pc[a])
      /\ JobUnderWay => Served(pc[a], loc[a].ret)
  BY StepHas
<1>1. TagsCurrent => Watched = Goal
  BY CurrentTagsWatchGoal
<1>2. \/ pc[a] = "should_check" /\ l = "should_digest"
      \/ pc[a] = "update_check" /\ l = "update_digest"
      \/ pc[a] = "update_pin" /\ l = "update_fetch"
      \/ pc[a] = "populate_pin" /\ l = "populate_fetch"
      \/ pc[a] = "run_original" /\ l = "run_deploy"
      \/ pc[a] = "run_deploy" /\ l = "deploy_pin"
      \/ pc[a] = "deploy_pin" /\ l = "deploy_job"
      \/ pc[a] = "sum_value" /\ l = "sum_flag"
  BY DEF PinSites, AfterPin
<1>3. Fits(a, l, r)
  BY <1>0, <1>1, <1>2
  DEF Fits, WorkerFits, HandlerFits, WorkerPlaces, HandlerPlaces, Rests, Should,
      Updated, Updating, Populated, Populating, Deploying, Harmless
<1>4. /\ pc[a] \in Populating => l \in Populating
      /\ JobUnderWay => Served(l, r.ret)
      /\ Decided(a) <=> Decides(l, r.ret)
      /\ Seeks(pc[a]) <=> Seeks(l)
      /\ ~Rests(l)
  BY <1>0, <1>2
  DEF Populating, Populated, Served, Decided, Decides, Deploying, Updating, Updated,
      Rests, Seeks, Should
<1> QED
  BY <1>0, <1>3, <1>4, StepHas, StillKeeps

LEMMA PinKeeps ==
  ASSUME TypeOK, QInv, NEW a \in Actor, Step(a), Tolerated(a), Account,
         ReadPin(a) \/ ReadPinFails(a) \/ LatestFromCache(a)
  PROVE  QInv'
<1>0. /\ pc \in [Actor -> Label] /\ loc \in [Actor -> Local]
      /\ row \in [pinned : Tag \union {NoTag}, auto : BOOLEAN]
      /\ pc[a] \in PinSites
      /\ UNCHANGED <<hub, row, caches, restarts, changes, req>>
  BY DEF TypeOK, ReadPin, ReadPinFails, LatestFromCache, Private, registry, caches,
     nomad, web
<1>1. /\ Fits(a, pc[a], loc[a]) /\ ~Rests(pc[a]) /\ Stocked
      /\ JobUnderWay => Served(pc[a], loc[a].ret)
  BY StepHas
<1>2. CASE ReadPin(a) /\ row.pinned # NoTag
  <2> DEFINE r == [loc[a] EXCEPT !.tag = row.pinned]
  <2>1. /\ loc'[a] = r /\ pc'[a] = AfterPin[pc[a]] /\ ~loc[a].latest /\ Works
    BY <1>0, <1>2 DEF ReadPin, Goto
  <2>2. r.ret = loc[a].ret /\ r.pin = loc[a].pin /\ ~r.latest /\ r.tag = Watched
    BY <1>0, <1>2, <2>1 DEF Local, Watched
  <2> HIDE DEF r
  <2> QED
    BY <1>0, <2>1, <2>2, PinFound
<1>3. CASE ReadPin(a) /\ row.pinned = NoTag
  <2> DEFINE l == pc[a]
             r == [loc[a] EXCEPT !.latest = TRUE]
  <2>1. loc'[a] = r /\ pc'[a] = l /\ Works
    BY <1>0, <1>3 DEF ReadPin
  <2>2. /\ r.ret = loc[a].ret /\ r.pin = loc[a].pin /\ r.tag = loc[a].tag
        /\ r.tags = loc[a].tags /\ r.digest = loc[a].digest
    BY <1>0 DEF Local
  <2>3. Fits(a, l, r)
    BY <1>0, <1>1, <1>3, <2>2 DEF Fits, WorkerFits, HandlerFits
  <2>4. Decided(a) <=> Decides(l, r.ret)
    BY <2>2 DEF Decided
  <2>5. JobUnderWay => Served(l, r.ret)
    BY <1>1, <2>2
  <2> HIDE DEF r
  <2> QED
    BY <1>0, <1>1, <2>1, <2>3, <2>4, <2>5, StepHas, StillKeeps
<1>4. CASE LatestFromCache(a)
  <2>1. loc[a].latest /\ row.pinned = NoTag
    BY <1>1, <1>4 DEF LatestFromCache, Fits
  <2>2. FilterReleaseTags(cachedTags) # {}
    <3>1. CASE TagsCurrent
      BY <1>1, <3>1, LatestIgnoresSha DEF Stocked, TagsCurrent
    <3>2. CASE ~TagsCurrent
      <4>1. a = Worker => pc[a] \notin Populating
        BY <1>0, <1>1, <3>2, Labels DEF Fits, Populating
      <4>2. pc[Worker] \notin Populating
        BY <1>1, <4>1, StepHas DEF Rests, Populating, Populated, Actor
      <4> QED
        BY <1>1, <4>2 DEF Stocked
    <3> QED
      BY <3>1, <3>2
  <2> DEFINE r == [loc[a] EXCEPT !.latest = FALSE, !.tag = GetLatestReleaseTag(cachedTags)]
  <2>3. loc'[a] = r /\ pc'[a] = AfterPin[pc[a]] /\ Works
    BY <1>0, <1>4, <2>2 DEF LatestFromCache, Goto
  <2>4. r.ret = loc[a].ret /\ r.pin = loc[a].pin /\ ~r.latest /\ r.tag = Watched
    BY <1>0, <2>1 DEF Local, Watched
  <2> HIDE DEF r
  <2> QED
    BY <1>0, <2>3, <2>4, PinFound
<1>5. CASE ReadPinFails(a)
  <2>1. a = Worker /\ pc[a] \in {"should_check", "update_check", "update_pin"}
    BY <1>0, <1>5, FailureTolerated, Labels DEF ReadPinFails, Retried
  <2> DEFINE l == PinError(a)
             r == [loc[a] EXCEPT !.tag = NoTag]
  <2>2. loc'[a] = r /\ pc'[a] = l /\ Fails /\ ~loc[a].latest
    BY <1>0, <1>5 DEF ReadPinFails, Goto
  <2>3. /\ r.ret = loc[a].ret /\ r.pin = loc[a].pin /\ ~r.latest
    BY <1>0, <2>2 DEF Local
  <2>4. /\ l = loc[a].ret /\ loc[a].ret \in {"sleep", "run_original"}
        /\ (TagsCurrent /\ pc[a] # "should_check") \/ loc[a].ret = "sleep"
    BY <1>1, <2>1
    DEF PinError, Back, Fits, WorkerFits, Should, Updating, Updated, Deploying
  <2>5. Fits(a, l, r)
    BY <2>1, <2>3, <2>4
    DEF Fits, WorkerFits, WorkerPlaces, Should,
        Updated, Updating, Populated, Populating, Deploying
  <2>6. /\ pc[a] \notin Populating
        /\ JobUnderWay => Rests(l)
        /\ Decides(l, r.ret) <=> Decided(a)
        /\ Seeks(pc[a]) => Seeks(l)
    BY <1>1, <2>1, <2>3, <2>4
    DEF Populating, Populated, Rests, Served, Decides, Decided, Deploying, Updating,
        Updated, Seeks, Should
  <2>7. faults' > faults
    BY <2>2, StepHas
  <2> HIDE DEF l, r
  <2> QED
    BY <1>0, <2>1, <2>2, <2>5, <2>6, <2>7, StepHas, StillKeeps
<1> QED
  BY <1>2, <1>3, <1>4, <1>5

-----------------------------------------------------------------------------
(* PopulateCaches and updateCaches *)

\* An actor that returns from updateCaches, having found or made the caches
\* current, or after a call that failed.
LEMMA ReturnKeeps ==
  ASSUME TypeOK, QInv, NEW a \in Actor, Step(a), Tolerated(a), Account,
         pc[a] \in Updating, NEW r, r.ret = loc[a].ret, ~r.latest,
         pc'[a] = loc[a].ret, loc'[a] = r,
         UNCHANGED <<hub, row, caches, restarts, changes, req>>,
         \/ Works /\ CachesCurrent
         \/ Fails /\ (pc[a] \in Updated \/ pc[a] = "update_list")
  PROVE  QInv'
<1> DEFINE l == loc[a].ret
<1>1. /\ Fits(a, pc[a], loc[a])
      /\ JobUnderWay => Served(pc[a], loc[a].ret)
  BY StepHas
<1>2. \/ a = Worker /\ l = "sleep"
      \/ a = Worker /\ l = "run_original" /\ TagsCurrent
      \/ a # Worker /\ l = "reply" /\ CachesCurrent
  <2>1. IF a = Worker THEN l \in {"sleep", "run_original"} ELSE l = "reply"
    BY <1>1 DEF Fits, WorkerFits, HandlerFits
  <2>2. CASE CachesCurrent
    BY <2>1, <2>2, CurrentIsNotOutdated
  <2>3. CASE ~CachesCurrent
    <3>1. Fails /\ (pc[a] \in Updated \/ pc[a] = "update_list")
      BY <2>3
    <3>2. a = Worker /\ ~(pc[a] = "update_list" /\ l = "run_original")
      BY <3>1, FailureTolerated
    <3>3. pc[a] \in Updated => TagsCurrent
      BY <1>1 DEF Fits
    <3> QED
      BY <2>1, <3>1, <3>2, <3>3
  <2> QED
    BY <2>2, <2>3
<1>3. Fits(a, l, r)
  <2>1. CachesCurrent => TagsCurrent
    BY CurrentIsNotOutdated
  <2> QED
    BY <1>2, <2>1
    DEF Fits, WorkerFits, HandlerFits, WorkerPlaces, HandlerPlaces, Rests, Should,
        Updated, Updating, Populated, Populating, Deploying, Harmless
<1>4. /\ pc[a] \notin Populating /\ ~Seeks(pc[a])
      /\ JobUnderWay => Rests(l) \/ Served(l, r.ret)
      /\ Decided(a) <=> Decides(l, r.ret)
      /\ a # Worker => ~Rests(l)
  BY <1>1, <1>2
  DEF Populating, Populated, Served, Decided, Decides, Deploying, Updating, Updated,
      Rests, Seeks, Should
<1>5. Outdated => faults' > faults
  BY CurrentIsNotOutdated, StepHas
<1>6. pc'[a] = l
  OBVIOUS
<1> HIDE DEF l
<1> QED
  BY <1>3, <1>4, <1>5, <1>6, StepHas, StillKeeps

LEMMA StoreKeeps ==
  ASSUME TypeOK, QInv, NEW a \in Actor, Step(a), Account, StoreTags(a)
  PROVE  QInv'
<1>0. /\ pc \in [Actor -> Label] /\ loc \in [Actor -> Local]
      /\ hub' = hub /\ row' = row /\ req' = req /\ cachedDigest' = cachedDigest
      /\ UNCHANGED <<hub, restarts, changes>> /\ Works
      /\ RegistryTags' = RegistryTags /\ Goal' = Goal
  BY DEF TypeOK, StoreTags, registry, nomad, web, RegistryTags, Goal, TagWanted
<1>1. /\ Fits(a, pc[a], loc[a]) /\ Stocked /\ ~Rests(pc[a])
      /\ JobUnderWay => Served(pc[a], loc[a].ret)
  BY StepHas
<1>2. /\ \/ pc[a] = "update_store" /\ pc'[a] = "update_check"
         \/ pc[a] = "populate_store" /\ pc'[a] = "populate_pin"
      /\ cachedTags' = loc[a].tags
      /\ loc'[a].ret = loc[a].ret /\ loc'[a].latest = loc[a].latest
  BY <1>0 DEF StoreTags, Goto, Local
<1>3. cachedTags' = FilterSHATags(RegistryTags)
  BY <1>1, <1>2 DEF Fits
<1>4. TagsCurrent'
  BY <1>0, <1>3 DEF TagsCurrent
<1>5. Fits(a, pc[a], loc[a])'
  BY <1>0, <1>1, <1>2, <1>4, Labels
  DEF Fits, WorkerFits, HandlerFits, WorkerPlaces, HandlerPlaces, Rests, Should,
      Updated, Updating, Populated, Populating, Deploying, Harmless
<1>6. Stocked'
  <2>1. pc'[Worker] \in Populating \/ pc[Worker] \notin Populating
    BY <1>2, StepHas DEF Populating, Populated, Actor
  <2> QED
    BY <1>0, <1>1, <1>3, <2>1, LatestIgnoresSha DEF Stocked
<1>7. Accounted(a)
  BY <1>0, <1>1, <1>2
  DEF Accounted, Decided, Decides, Served, Rests, Seeks, Should, Deploying,
      Updating, Updated
<1> QED
  BY <1>0, <1>5, <1>6, <1>7, StepHas, MoveKeeps

LEMMA SaveKeeps ==
  ASSUME TypeOK, QInv, NEW a \in Actor, Step(a), Account, SaveDigest(a)
  PROVE  QInv'
<1>0. /\ pc \in [Actor -> Label] /\ loc \in [Actor -> Local]
      /\ hub' = hub /\ row' = row /\ req' = req /\ cachedTags' = cachedTags
      /\ UNCHANGED <<hub, restarts, changes>> /\ Works
      /\ RegistryTags' = RegistryTags /\ Goal' = Goal /\ Watched' = Watched
      /\ TagsCurrent' <=> TagsCurrent
  BY DEF TypeOK, SaveDigest, registry, nomad, web, RegistryTags, Goal, TagWanted,
     Watched, TagsCurrent
<1>1. /\ Fits(a, pc[a], loc[a]) /\ Stocked /\ ~Rests(pc[a])
      /\ JobUnderWay => Served(pc[a], loc[a].ret)
  BY StepHas
<1>2. /\ \/ pc[a] = "update_save" /\ pc'[a] = loc[a].ret
         \/ pc[a] = "populate_save" /\ pc'[a] = "sleep"
      /\ cachedDigest' = loc[a].digest
      /\ loc'[a].ret = loc[a].ret /\ loc'[a].latest = loc[a].latest
  BY <1>0 DEF SaveDigest, Goto, Local
<1>3. TagsCurrent /\ cachedDigest' = hub[Goal] /\ hub[Goal] \in Digest
  BY <1>1, <1>2, GoalIsThere DEF Fits, Updated, Populated
<1>4. CachesCurrent' /\ ~Outdated'
  <2>1. CachesCurrent'
    BY <1>0, <1>3 DEF CachesCurrent, TagsCurrent, Wanted, Goal
  <2>2. Watched = Goal
    BY <1>3, CurrentTagsWatchGoal
  <2> QED
    BY <1>0, <1>3, <2>1, <2>2 DEF Outdated
<1>5. \/ a = Worker /\ pc'[a] = "sleep"
      \/ a = Worker /\ pc'[a] = "run_original" /\ pc[a] = "update_save"
      \/ a # Worker /\ pc'[a] = "reply" /\ pc[a] = "update_save"
  BY <1>1, <1>2, Labels
  DEF Fits, WorkerFits, HandlerFits, WorkerPlaces, HandlerPlaces, Updating,
      Updated, Harmless
<1>6. Fits(a, pc[a], loc[a])'
  BY <1>0, <1>1, <1>2, <1>3, <1>4, <1>5, Labels
  DEF Fits, WorkerFits, HandlerFits, WorkerPlaces, HandlerPlaces, Rests, Should,
      Updated, Updating, Populated, Populating, Deploying, Harmless
<1>7. Stocked'
  <2>1. /\ cachedTags = FilterSHATags(RegistryTags)
        /\ FilterReleaseTags(cachedTags) # {}
    BY <1>1, <1>3, LatestIgnoresSha DEF TagsCurrent, Stocked
  <2> QED
    BY <1>0, <1>1, <1>3, <2>1, EnvironmentAssumption DEF Stocked
<1>8. Accounted(a)
  BY <1>0, <1>1, <1>2, <1>4, <1>5
  DEF Accounted, Decided, Decides, Served, Rests, Seeks, Should, Deploying,
      Updating, Updated
<1> QED
  BY <1>0, <1>6, <1>7, <1>8, StepHas, MoveKeeps

LEMMA RefreshKeeps ==
  ASSUME TypeOK, QInv, NEW a \in Actor, Step(a), Tolerated(a), Account,
         RefreshCaches(a)
  PROVE  QInv'
<1>0. /\ pc \in [Actor -> Label] /\ loc \in [Actor -> Local] /\ loc[a] \in Local
      /\ ~StoreTags(a) /\ ~SaveDigest(a) =>
           UNCHANGED <<hub, row, caches, restarts, changes, req>>
  BY DEF TypeOK, RefreshCaches, ListTags, ListTagsFails, LoadDigest,
     CheckInUpdate, CheckInUpdateFails, FetchDigest, FetchDigestFails,
     Private, registry, nomad, web
<1>1. /\ Fits(a, pc[a], loc[a]) /\ Stocked /\ ~Rests(pc[a])
      /\ JobUnderWay => Served(pc[a], loc[a].ret)
  BY StepHas
<1>2. Goal \in Tag /\ DigestOf(Goal) = hub[Goal] /\ hub[Goal] # NoDigest
  BY <1>1, GoalIsThere DEF RegistryTags
<1>3. pc[a] \notin Populating \/ a = Worker
  BY <1>1, Labels
  DEF Fits, HandlerPlaces, Populating, Populated, Harmless, Updating, Updated
<1>4. pc[a] \notin Populating => cachedDigest # NoDigest
  <2>1. pc[a] \notin Populating => pc[Worker] \notin Populating
    BY StepHas DEF Rests, Populating, Populated, Actor
  <2> QED
    BY <1>1, <2>1 DEF Stocked
<1>5. CASE ListTags(a)
  <2> DEFINE l == IF pc[a] = "update_list" THEN "update_store" ELSE "populate_store"
             r == [loc[a] EXCEPT !.tags = FilterSHATags(RegistryTags)]
  <2>1. /\ pc'[a] = l /\ loc'[a] = r /\ Works
        /\ pc[a] \in {"update_list", "populate_list"}
    BY <1>0, <1>5 DEF ListTags, Goto
  <2>2. /\ r.ret = loc[a].ret /\ r.latest = loc[a].latest
        /\ r.tags = FilterSHATags(RegistryTags)
    BY <1>0 DEF Local
  <2>3. Fits(a, l, r)
    BY <1>1, <2>1, <2>2, Labels
    DEF Fits, WorkerFits, HandlerFits, WorkerPlaces, HandlerPlaces, Rests, Should,
        Updated, Updating, Populated, Populating, Deploying, Harmless
  <2>4. /\ pc[a] \in Populating => l \in Populating
        /\ JobUnderWay => Served(l, r.ret)
        /\ Decided(a) <=> Decides(l, r.ret)
        /\ ~Seeks(l) /\ ~Seeks(pc[a]) /\ ~Rests(l)
    BY <1>1, <2>1, <2>2
    DEF Populating, Populated, Served, Decided, Decides, Deploying, Updating, Updated,
        Rests, Seeks, Should
  <2>5. ~StoreTags(a) /\ ~SaveDigest(a)
    BY <2>1 DEF StoreTags, SaveDigest
  <2> HIDE DEF l, r
  <2> QED
    BY <1>0, <1>1, <2>1, <2>3, <2>4, <2>5, StepHas, StillKeeps
<1>6. CASE ListTagsFails(a)
  <2>1. a = Worker /\ pc[a] = "update_list" /\ Fails
    BY <1>6, FailureTolerated DEF ListTagsFails, Retried
  <2>2. loc'[a] = loc[a] /\ pc'[a] = loc[a].ret /\ ~loc[a].latest
    BY <1>0, <1>1, <1>6, <2>1, Labels DEF ListTagsFails, Goto, Fits
  <2>3. pc[a] \in Updating
    BY <2>1 DEF Updating
  <2> QED
    BY <1>0, <1>6, <2>1, <2>2, <2>3, ReturnKeeps DEF StoreTags, SaveDigest
<1>7. CASE LoadDigest(a)
  <2> DEFINE l == IF pc[a] = "should_digest" THEN "should_current"
                                             ELSE "update_current"
             r == [loc[a] EXCEPT !.digest = cachedDigest]
  <2>1. /\ pc'[a] = l /\ loc'[a] = r /\ Works
        /\ pc[a] \in {"should_digest", "update_digest"}
    BY <1>0, <1>7 DEF LoadDigest, Goto
  <2>2. /\ r.ret = loc[a].ret /\ r.latest = loc[a].latest /\ r.tag = loc[a].tag
        /\ r.pin = loc[a].pin /\ r.digest = cachedDigest
    BY <1>0 DEF Local
  <2>3. Fits(a, l, r)
    BY <1>1, <2>1, <2>2, Labels
    DEF Fits, WorkerFits, HandlerFits, WorkerPlaces, HandlerPlaces, Rests, Should,
        Updated, Updating, Populated, Populating, Deploying, Harmless
  <2>4. /\ pc[a] \notin Populating
        /\ JobUnderWay => Served(l, r.ret)
        /\ Decided(a) <=> Decides(l, r.ret)
        /\ Seeks(l) <=> Seeks(pc[a])
        /\ ~Rests(l)
    BY <1>1, <2>1, <2>2
    DEF Populating, Populated, Served, Decided, Decides, Deploying, Updating, Updated,
        Rests, Seeks, Should
  <2>5. ~StoreTags(a) /\ ~SaveDigest(a)
    BY <2>1 DEF StoreTags, SaveDigest
  <2> HIDE DEF l, r
  <2> QED
    BY <1>0, <1>1, <2>1, <2>3, <2>4, <2>5, StepHas, StillKeeps
<1>8. CASE CheckInUpdate(a) \/ CheckInUpdateFails(a)
  <2> DEFINE r == [loc[a] EXCEPT !.tag = NoTag, !.digest = NoDigest]
  <2>1. pc[a] = "update_current" /\ ~LookupRefused(a)
    <3>1. pc[a] = "update_current"
      BY <1>8 DEF CheckInUpdate, CheckInUpdateFails
    <3> QED
      BY <1>1, <1>4, <3>1 DEF Fits, LookupRefused, Populating, Populated
  <2>2. /\ ~StoreTags(a) /\ ~SaveDigest(a)
        /\ pc[a] \in Updating /\ pc[a] \in Updated /\ ~loc[a].latest
    BY <1>1, <2>1, Labels DEF StoreTags, SaveDigest, Updating, Updated, Fits
  <2>3. loc'[a] = r
    BY <1>0, <1>8 DEF CheckInUpdate, CheckInUpdateFails
  <2>4. r.ret = loc[a].ret /\ r.latest = loc[a].latest
    BY <1>0 DEF Local
  <2>5. IsCurrent(a) => CachesCurrent
    <3>1. TagsCurrent /\ loc[a].tag = Goal /\ loc[a].digest = cachedDigest
      BY <1>1, <2>1 DEF Fits, Updated
    <3> QED
      BY <1>2, <3>1 DEF IsCurrent, CachesCurrent, TagsCurrent, Wanted, Goal
  <2>6. CASE CheckInUpdateFails(a)
    <3>1. Fails /\ pc'[a] = loc[a].ret
      BY <1>0, <2>1, <2>6 DEF CheckInUpdateFails, Goto
    <3> HIDE DEF r
    <3> QED
      BY <1>0, <2>2, <2>3, <2>4, <3>1, ReturnKeeps
  <2>7. CASE CheckInUpdate(a) /\ pc'[a] # "update_pin"
    <3>1. Works /\ IsCurrent(a) /\ pc'[a] = loc[a].ret
      BY <1>0, <2>7 DEF CheckInUpdate, Answered, Goto
    <3> HIDE DEF r
    <3> QED
      BY <1>0, <2>2, <2>3, <2>4, <2>5, <2>7, <3>1, ReturnKeeps
  <2>8. CASE CheckInUpdate(a) /\ pc'[a] = "update_pin"
    <3>1. Works \/ Fails
      BY <2>8 DEF CheckInUpdate, Answered
    <3>2. Fits(a, "update_pin", r)
      BY <1>1, <2>1, <2>4, Labels
      DEF Fits, WorkerFits, HandlerFits, WorkerPlaces, HandlerPlaces, Rests, Should,
          Updated, Updating, Populated, Populating, Deploying, Harmless
    <3>3. /\ pc[a] \notin Populating
          /\ JobUnderWay => Served("update_pin", r.ret)
          /\ Decided(a) <=> Decides("update_pin", r.ret)
          /\ ~Seeks("update_pin") /\ ~Seeks(pc[a]) /\ ~Rests("update_pin")
      BY <1>1, <2>1, <2>4
      DEF Populating, Populated, Served, Decided, Decides, Deploying, Updating,
          Updated, Rests, Seeks, Should
    <3> HIDE DEF r
    <3> QED
      BY <1>0, <1>1, <2>2, <2>3, <2>8, <3>1, <3>2, <3>3, StepHas, StillKeeps
  <2> QED
    BY <1>8, <2>6, <2>7, <2>8
<1>9. CASE FetchDigest(a)
  <2> DEFINE l == IF pc[a] = "update_fetch" THEN "update_save" ELSE "populate_save"
             r == [loc[a] EXCEPT !.digest = DigestOf(loc[a].tag), !.tag = NoTag]
  <2>1. /\ pc'[a] = l /\ loc'[a] = r /\ Works
        /\ pc[a] \in {"update_fetch", "populate_fetch"}
    BY <1>0, <1>9 DEF FetchDigest, Goto
  <2>2. loc[a].tag = Goal
    BY <1>1, <2>1 DEF Fits
  <2>3. /\ r.ret = loc[a].ret /\ r.latest = loc[a].latest /\ r.digest = hub[Goal]
    BY <1>0, <1>2, <2>2 DEF Local
  <2>4. Fits(a, l, r)
    BY <1>1, <2>1, <2>3, Labels
    DEF Fits, WorkerFits, HandlerFits, WorkerPlaces, HandlerPlaces, Rests, Should,
        Updated, Updating, Populated, Populating, Deploying, Harmless
  <2>5. /\ pc[a] \in Populating => l \in Populating
        /\ JobUnderWay => Served(l, r.ret)
        /\ Decided(a) <=> Decides(l, r.ret)
        /\ ~Seeks(l) /\ ~Seeks(pc[a]) /\ ~Rests(l)
    BY <1>1, <2>1, <2>3
    DEF Populating, Populated, Served, Decided, Decides, Deploying, Updating, Updated,
        Rests, Seeks, Should
  <2>6. ~StoreTags(a) /\ ~SaveDigest(a)
    BY <2>1 DEF StoreTags, SaveDigest
  <2> HIDE DEF l, r
  <2> QED
    BY <1>0, <1>1, <2>1, <2>4, <2>5, <2>6, StepHas, StillKeeps
<1>10. CASE FetchDigestFails(a)
  <2> DEFINE r == [loc[a] EXCEPT !.tag = NoTag]
  <2>1. Fails
    <3>1. loc[a].tag = Goal
      BY <1>1, <1>10 DEF FetchDigestFails, Fits
    <3> QED
      BY <1>2, <1>10, <3>1 DEF FetchDigestFails
  <2>2. a = Worker /\ pc[a] = "update_fetch"
    BY <1>10, <2>1, FailureTolerated DEF FetchDigestFails, Retried
  <2>3. /\ pc[a] \in Updating /\ pc[a] \in Updated /\ ~loc[a].latest
        /\ ~StoreTags(a) /\ ~SaveDigest(a)
    BY <1>1, <2>2, Labels DEF Updating, Updated, Fits, StoreTags, SaveDigest
  <2>4. loc'[a] = r /\ pc'[a] = loc[a].ret
    BY <1>0, <1>10, <2>2 DEF FetchDigestFails, Goto
  <2>5. r.ret = loc[a].ret /\ r.latest = loc[a].latest
    BY <1>0 DEF Local
  <2> HIDE DEF r
  <2> QED
    BY <1>0, <2>1, <2>3, <2>4, <2>5, ReturnKeeps
<1> QED
  BY <1>5, <1>6, <1>7, <1>8, <1>9, <1>10, StoreKeeps, SaveKeeps DEF RefreshCaches

-----------------------------------------------------------------------------
(* DeployPinnedTag *)

\* No job is under way when one is handed to Nomad, so that it is the only one,
\* and what was due is launched.
LEMMA DeployKeeps ==
  ASSUME TypeOK, QInv, NEW a \in Actor, Step(a), Tolerated(a), Account,
         DeployJob(a) \/ DeployJobFails(a)
  PROVE  QInv'
<1>0. /\ pc \in [Actor -> Label] /\ loc \in [Actor -> Local]
      /\ restarts \in [ImageTag -> Nat] /\ pc[a] = "deploy_job"
      /\ Worker \in Actor /\ Worker \notin Handlers
      /\ \A b \in Actor : b # Worker => b \in Handlers
  BY EnvironmentAssumption DEF TypeOK, DeployJob, DeployJobFails, Actor
<1>1. /\ Fits(a, pc[a], loc[a]) /\ Stocked /\ ~Rests(pc[a])
      /\ JobUnderWay => Served(pc[a], loc[a].ret)
  BY StepHas
<1>2. DeployJob(a)
  BY <1>0, FailureTolerated DEF Retried, DeployJobFails
<1>3. /\ hub' = hub /\ row' = row /\ req' = req /\ changes' = changes
      /\ faults' = faults
      /\ cachedTags' = cachedTags /\ cachedDigest' = cachedDigest
  BY <1>2 DEF DeployJob, registry, caches, web, Works
<1>4. /\ RegistryTags' = RegistryTags /\ Goal' = Goal /\ Watched' = Watched
      /\ (TagsCurrent' <=> TagsCurrent) /\ (Outdated' <=> Outdated)
      /\ (CachesCurrent' <=> CachesCurrent)
  BY <1>3
  DEF RegistryTags, Goal, TagWanted, Watched, TagsCurrent, Outdated,
      CachesCurrent, Wanted
<1>5. ~JobUnderWay
  BY <1>0, <1>1 DEF Served, Updating, Updated
<1>6. loc[a].tag = Goal /\ Goal \in ImageTag
  BY <1>0, <1>1, GoalIsThere DEF Fits, ImageTag
<1>7. /\ \A t \in ImageTag : restarts'[t] > 0 => t = Goal
      /\ restarts'[Goal] > restarts[Goal] /\ restarts'[Goal] > 0
  BY <1>0, <1>2, <1>5, <1>6 DEF DeployJob, JobUnderWay
<1>8. /\ pc'[a] = "update_list" /\ loc'[a].ret = Back(a)
      /\ loc'[a].latest = loc[a].latest
  <2> DEFINE r == [loc[a] EXCEPT !.tag = NoTag, !.ret = Back(a)]
  <2>1. loc'[a] = r /\ pc'[a] = "update_list"
    BY <1>0, <1>2 DEF DeployJob, AfterJob, Goto
  <2>2. r.ret = Back(a) /\ r.latest = loc[a].latest
    BY <1>0 DEF Local
  <2> QED
    BY <2>1, <2>2
<1>9. \A b \in Actor \ {a} :
        Rests(pc[b]) /\ pc'[b] = pc[b] /\ loc'[b] = loc[b]
  BY StepHas
<1>10. Served(pc'[a], loc'[a].ret) /\ ~Decided(a)'
  BY <1>8 DEF Served, Decided, Decides, Updating, Deploying, Back
<1>11. Fits(a, pc[a], loc[a])'
  BY <1>0, <1>1, <1>3, <1>4, <1>8, Labels
  DEF Fits, WorkerFits, HandlerFits, WorkerPlaces, HandlerPlaces, Rests, Should,
      Updated, Updating, Populated, Populating, Deploying, Harmless, Back
<1>12. (\A b \in Actor : Fits(b, pc[b], loc[b]))'
  BY <1>9, <1>11, RestFits DEF QInv
<1>13. OneIsBusy' /\ RestartInv'
  BY <1>4, <1>7, <1>9, <1>10 DEF OneIsBusy, RestartInv
<1>14. Stocked'
  <2>1. pc[Worker] \notin Populating
    BY <1>0, <1>9 DEF Rests, Populating, Populated
  <2> QED
    BY <1>1, <1>3, <1>4, <2>1 DEF Stocked
<1>15. OwedInv'
  BY <1>6, <1>7 DEF OwedInv, JobUnderWay
<1>16. \A b \in Actor : ~Decided(b)'
  <2>1. \A b \in Actor \ {a} : ~Decided(b)'
    BY <1>9 DEF Decided, Decides, Rests, Deploying, Updating, Updated
  <2> QED
    BY <1>10, <2>1
<1>17. Due' = 0
  <2>1. ~Shows'
    BY <1>0, <1>8 DEF Shows, Seeks, Should, Rests
  <2> QED
    BY <1>0, <1>16, <2>1 DEF Due
<1>18. launches' \in Nat /\ launches' + Due' <= changes' + faults'
  <2>1. launches \in Nat /\ launches + Due <= changes + faults
    BY DEF QInv, LaunchInv
  <2>2. CASE a = Worker
    <3>1. Launched
      BY <1>0, <1>6, <1>7, <2>2 DEF Launched
    <3>2. Due = 1
      BY <1>0, <2>2 DEF Due, Decided, Decides, Deploying
    <3> QED
      BY <1>3, <1>17, <2>1, <3>1, <3>2 DEF Account
  <2>3. CASE a # Worker
    <3>1. pc[Worker] # "deploy_job"
      BY <1>0, <1>9, <2>3 DEF Rests
    <3>2. launches' = launches
      BY <3>1 DEF Account, Launched
    <3>3. Due \in {0, 1}
      BY DEF Due
    <3>4. changes \in Nat /\ faults \in Nat
      BY DEF TypeOK
    <3> HIDE DEF Due
    <3> QED
      BY <1>3, <1>17, <2>1, <3>2, <3>3, <3>4
  <2> QED
    BY <2>2, <2>3
<1> QED
  BY <1>12, <1>13, <1>14, <1>15, <1>18, AccountType DEF QInv, LaunchInv

-----------------------------------------------------------------------------
(* runOnce and ShouldDeploy *)

\* isNewReleaseTagAvailable, of the listing and of the tags cached before.
LEMMA NewReleaseIsWanted ==
  ASSUME TypeOK, Stocked, OneSpelling, pc[Worker] \notin Populating,
         row.pinned = NoTag
  PROVE  IsNewRelease(FilterSHATags(RegistryTags), cachedTags) <=> Watched # Goal
<1> DEFINE S == FilterSHATags(RegistryTags)
<1>1. S \in SUBSET Tag
  BY DEF FilterSHATags, RegistryTags
<1>2. /\ cachedTags \in SUBSET S /\ FilterReleaseTags(cachedTags) # {}
  BY DEF Stocked
<1>3. Goal = GetLatestReleaseTag(S)
  BY GoalIsThere, LatestIgnoresSha
<1>4. Watched = GetLatestReleaseTag(cachedTags)
  BY DEF Watched
<1> HIDE DEF S
<1>5. IsNewRelease(S, cachedTags)
        <=> GetLatestReleaseTag(S) # GetLatestReleaseTag(cachedTags)
  BY <1>1, <1>2, NewReleaseIsAnother
<1> QED
  BY <1>3, <1>4, <1>5 DEF S

\* A step of the worker on its way to a decision.
LEMMA SeekKeeps ==
  ASSUME TypeOK, QInv, Account, Seeks(pc[Worker]), ~JobUnderWay, NEW l, NEW r,
         \A b \in Actor \ {Worker} :
           Rests(pc[b]) /\ pc'[b] = pc[b] /\ loc'[b] = loc[b],
         pc'[Worker] = l, loc'[Worker] = r,
         UNCHANGED <<hub, row, caches, restarts, changes, req>>,
         Works \/ Fails, Fits(Worker, l, r),
         Decided(Worker) => Decides(l, r.ret),
         Decides(l, r.ret) => Decided(Worker) \/ Outdated \/ faults' > faults,
         Seeks(l) \/ Decides(l, r.ret) \/ ~(Outdated /\ row.auto)
  PROVE  QInv'
<1>1. Worker \in Actor
  BY DEF Actor
<1>2. pc[Worker] \notin Populating
  BY DEF Seeks, Should, Populating, Populated
<1> QED
  BY <1>1, <1>2, StillKeeps

LEMMA PollKeeps ==
  ASSUME TypeOK, QInv, QPoll
  PROVE  QInv'
<1>0. /\ pc \in [Actor -> Label] /\ loc \in [Actor -> Local] /\ Worker \in Actor
      /\ restarts \in [ImageTag -> Nat]
      /\ UNCHANGED <<hub, row, caches, restarts, changes, req>> /\ Works /\ Account
      /\ pc[Worker] = "sleep"
  BY DEF TypeOK, QPoll, Poll, Private, registry, nomad, web, Actor
<1>1. \A b \in Actor \ {Worker} :
        Rests(pc[b]) /\ pc'[b] = pc[b] /\ loc'[b] = loc[b]
  <2>1. \A b \in Actor \ {Worker} : Rests(pc[b])
    BY DEF QPoll, AtRest, Rests, Actor
  <2> QED
    BY <1>0, <2>1, StepIsOwn DEF QPoll
<1>2. ~JobUnderWay
  BY <1>0 DEF QPoll, AtRest, JobUnderWay
<1>3. pc'[Worker] = "should_auto" /\ loc'[Worker] = NoLocals
  BY <1>0 DEF QPoll, Poll, Goto
<1>4. Fits(Worker, "should_auto", NoLocals)
  BY Labels
  DEF Fits, WorkerFits, WorkerPlaces, Should, NoLocals, Updated, Updating,
      Populated, Populating, Deploying
<1>5. /\ Seeks(pc[Worker]) /\ Seeks("should_auto")
      /\ ~Decided(Worker) /\ ~Decides("should_auto", NoLocals.ret)
  BY <1>0 DEF Seeks, Should, Decided, Decides, Deploying, Updating, Updated
<1> QED
  BY <1>0, <1>1, <1>2, <1>3, <1>4, <1>5, SeekKeeps

LEMMA ShouldDeployKeeps ==
  ASSUME OneSpelling, TypeOK, QInv, Step(Worker), Tolerated(Worker), Account,
         ShouldDeploy
  PROVE  QInv'
<1> DEFINE me == loc[Worker]
<1>0. /\ pc \in [Actor -> Label] /\ loc \in [Actor -> Local] /\ Worker \in Actor
      /\ me \in Local
      /\ UNCHANGED <<hub, row, caches, restarts, changes, req>>
      /\ Works \/ Fails
      /\ pc[Worker] \in {"should_auto", "should_pin", "should_current",
                         "should_list", "should_compare"}
  BY DEF TypeOK, ShouldDeploy, ReadAutoFlag, GiveUp, ReadPinned,
     CheckInShouldDeploy, CheckInShouldDeployFails, ListForRelease,
     ListForReleaseFails, CompareReleases, Answered, Private, registry, nomad, web, Actor
<1>1. /\ Fits(Worker, pc[Worker], me) /\ Stocked
      /\ JobUnderWay => Served(pc[Worker], me.ret)
      /\ \A b \in Actor \ {Worker} :
           Rests(pc[b]) /\ pc'[b] = pc[b] /\ loc'[b] = loc[b]
  BY <1>0, StepHas
<1>2. /\ Seeks(pc[Worker]) /\ ~JobUnderWay /\ pc[Worker] \notin Populating
      /\ ~me.latest /\ WorkerFits(pc[Worker], me)
  BY <1>0, <1>1, Labels
  DEF Fits, Seeks, Should, Served, Updating, Updated, Populating, Populated
<1>3. /\ cachedDigest # NoDigest
      /\ Watched \in Tag /\ DigestOf(Watched) = hub[Watched]
  BY <1>1, <1>2, WatchedIsThere DEF Stocked
<1>4. ASSUME NEW l, NEW r, pc'[Worker] = l, loc'[Worker] = r, Fits(Worker, l, r),
             Decided(Worker) => Decides(l, r.ret),
             Decides(l, r.ret) => Decided(Worker) \/ Outdated \/ faults' > faults,
             Seeks(l) \/ Decides(l, r.ret) \/ ~(Outdated /\ row.auto)
      PROVE  QInv'
  BY <1>0, <1>1, <1>2, <1>4, SeekKeeps
<1>5. CASE ReadAutoFlag
  <2> DEFINE l == AfterAutoFlag
  <2>1. /\ pc[Worker] = "should_auto" /\ me.ret = "sleep"
        /\ pc'[Worker] = l /\ loc'[Worker] = me
    BY <1>0, <1>2, <1>5 DEF ReadAutoFlag, Goto, WorkerFits, Should
  <2>2. l = IF row.auto THEN "should_pin" ELSE "update_list"
    BY DEF AfterAutoFlag
  <2>3. Fits(Worker, l, me)
    BY <1>2, <2>1, <2>2, Labels
    DEF Fits, WorkerFits, WorkerPlaces, Should, Updated, Updating, Populated,
        Populating, Deploying
  <2>4. /\ ~Decided(Worker) /\ ~Decides(l, me.ret)
        /\ Seeks(l) \/ ~row.auto
    BY <2>1, <2>2 DEF Seeks, Should, Decided, Decides, Deploying, Updating, Updated
  <2> HIDE DEF l, me
  <2> QED
    BY <1>4, <2>1, <2>3, <2>4
<1>6. CASE \/ GiveUp("should_auto") \/ GiveUp("should_pin")
           \/ CheckInShouldDeployFails
  <2>1. /\ pc'[Worker] = "sleep" /\ loc'[Worker] = me
        /\ pc[Worker] \in {"should_auto", "should_pin", "should_current"}
    BY <1>0, <1>6 DEF GiveUp, CheckInShouldDeployFails, Goto
  <2>2. Fits(Worker, "sleep", me)
    BY <1>2, Labels
    DEF Fits, WorkerFits, WorkerPlaces, Should, Updated, Updating, Populated,
        Populating, Deploying
  <2>3. Seeks("sleep") /\ ~Decided(Worker) /\ ~Decides("sleep", me.ret)
    BY <2>1 DEF Seeks, Decided, Decides, Deploying, Updating, Updated
  <2> HIDE DEF me
  <2> QED
    BY <1>4, <2>1, <2>2, <2>3
<1>7. CASE ReadPinned
  <2> DEFINE r == [me EXCEPT !.pin = row.pinned]
  <2>1. /\ pc[Worker] = "should_pin"
        /\ pc'[Worker] = "should_check" /\ loc'[Worker] = r
    BY <1>0, <1>7 DEF ReadPinned, Goto
  <2>2. r.pin = row.pinned /\ r.ret = me.ret /\ ~r.latest
    BY <1>0, <1>2 DEF Local
  <2>3. Fits(Worker, "should_check", r)
    BY <1>2, <2>1, <2>2, Labels
    DEF Fits, WorkerFits, WorkerPlaces, Should, Updated, Updating, Populated,
        Populating, Deploying
  <2>4. Seeks("should_check") /\ ~Decided(Worker) /\ ~Decides("should_check", r.ret)
    BY <2>1 DEF Seeks, Should, Decided, Decides, Deploying, Updating, Updated
  <2> HIDE DEF me, r
  <2> QED
    BY <1>4, <2>1, <2>3, <2>4
<1>8. CASE CheckInShouldDeploy
  <2>1. PICK current \in BOOLEAN :
          /\ Answered(Worker, current)
          /\ loc' = [loc EXCEPT
               ![Worker].ret = DigestVerdict(current),
               ![Worker].tag = NoTag, ![Worker].digest = NoDigest,
               ![Worker].pin = NoTag]
    BY <1>8 DEF CheckInShouldDeploy
  <2> DEFINE r == [me EXCEPT !.ret = DigestVerdict(current), !.tag = NoTag,
                             !.digest = NoDigest, !.pin = NoTag]
             l == IF row.pinned = NoTag THEN "should_list" ELSE "update_list"
  <2>2. /\ pc[Worker] = "should_current" /\ row.auto
        /\ me.pin = row.pinned /\ me.tag = Watched /\ me.digest = cachedDigest
    BY <1>1, <1>2, <1>8 DEF CheckInShouldDeploy, WorkerFits, Fits, Should
  <2>3. loc'[Worker] = r
    BY <1>0, <2>1
  <2>4. pc'[Worker] = l
    BY <1>0, <1>8, <2>2 DEF CheckInShouldDeploy, Goto
  <2>5. /\ current => hub[Watched] = cachedDigest
        /\ ~current => hub[Watched] # cachedDigest \/ faults' > faults
    <3>1. IsCurrent(Worker) <=> hub[Watched] = cachedDigest
      BY <1>3, <2>2 DEF IsCurrent
    <3>2. CASE current = IsCurrent(Worker)
      BY <3>1, <3>2
    <3>3. CASE ~current /\ Fails
      BY <1>0, <3>3, StepHas
    <3> QED
      BY <2>1, <3>2, <3>3 DEF Answered
  <2>6. r.ret = (IF current THEN "sleep" ELSE "run_original") /\ ~r.latest
    BY <1>0, <1>2 DEF Local, DigestVerdict
  <2>7. Fits(Worker, l, r)
    BY <1>2, <2>2, <2>5, <2>6, Labels
    DEF Fits, WorkerFits, WorkerPlaces, Should, Updated, Updating, Populated,
        Populating, Deploying
  <2>8. /\ hub[Watched] # cachedDigest => Outdated
        /\ row.pinned # NoTag /\ Outdated => hub[Watched] # cachedDigest
    BY DEF Outdated, Watched, Goal, TagWanted
  <2>9. /\ ~Decided(Worker)
        /\ Decides(l, r.ret) <=> ~current
        /\ row.pinned = NoTag => Seeks(l)
    BY <2>2, <2>6 DEF Seeks, Should, Decided, Decides, Deploying, Updating, Updated
  <2> HIDE DEF me, r, l
  <2> QED
    BY <1>4, <2>3, <2>4, <2>5, <2>7, <2>8, <2>9
<1>9. CASE ListForRelease
  <2> DEFINE r == [me EXCEPT !.tags = FilterSHATags(RegistryTags)]
  <2>1. /\ pc[Worker] = "should_list"
        /\ pc'[Worker] = "should_compare" /\ loc'[Worker] = r
    BY <1>0, <1>9 DEF ListForRelease, Goto
  <2>2. r.ret = me.ret /\ ~r.latest /\ r.tags = FilterSHATags(RegistryTags)
    BY <1>0, <1>2 DEF Local
  <2>3. Fits(Worker, "should_compare", r)
    BY <1>2, <2>1, <2>2, Labels
    DEF Fits, WorkerFits, WorkerPlaces, Should, Updated, Updating, Populated,
        Populating, Deploying
  <2>4. Seeks("should_compare") /\ (Decided(Worker) <=> Decides("should_compare", r.ret))
    BY <2>1, <2>2 DEF Seeks, Should, Decided, Decides, Deploying, Updating, Updated
  <2> HIDE DEF me, r
  <2> QED
    BY <1>4, <2>1, <2>3, <2>4
<1>10. ~ListForReleaseFails
  BY <1>0, FailureTolerated DEF ListForReleaseFails, Retried
<1>11. CASE CompareReleases
  <2> DEFINE ret == IF IsNewRelease(me.tags, cachedTags) THEN "run_original"
                                                         ELSE me.ret
             r == [me EXCEPT !.ret = ret, !.tags = {}]
  <2>1. /\ pc[Worker] = "should_compare"
        /\ pc'[Worker] = "update_list" /\ loc'[Worker] = r
    BY <1>0, <1>11 DEF CompareReleases, Goto
  <2>2. /\ row.pinned = NoTag
        /\ me.tags = FilterSHATags(RegistryTags)
        /\ hub[Watched] # cachedDigest => me.ret = "run_original"
        /\ me.ret \in {"sleep", "run_original"}
    BY <1>1, <1>2, <2>1 DEF Fits, WorkerFits
  <2>3. IsNewRelease(me.tags, cachedTags) <=> Watched # Goal
    BY <1>1, <1>2, <2>2, NewReleaseIsWanted
  <2>4. /\ ret \in {"sleep", "run_original"}
        /\ me.ret = "run_original" => ret = "run_original"
        /\ ret = "run_original" => me.ret = "run_original" \/ Outdated
        /\ Outdated => ret = "run_original"
    BY <2>2, <2>3 DEF Outdated
  <2>5. r.ret = ret /\ ~r.latest
    BY <1>0, <1>2 DEF Local
  <2>6. Fits(Worker, "update_list", r)
    BY <2>4, <2>5, Labels
    DEF Fits, WorkerFits, WorkerPlaces, Should, Updated, Updating, Populated,
        Populating, Deploying
  <2>7. /\ Decides("update_list", r.ret) <=> ret = "run_original"
        /\ Decided(Worker) <=> me.ret = "run_original"
    BY <2>1, <2>5 DEF Decided, Decides, Updating, Updated, Deploying
  <2> HIDE DEF me, r, ret
  <2> QED
    BY <1>4, <2>1, <2>4, <2>6, <2>7
<1> QED
  BY <1>5, <1>6, <1>7, <1>8, <1>9, <1>10, <1>11 DEF ShouldDeploy

-----------------------------------------------------------------------------
(* Requests *)

\* What holds of a handler that has not touched the pin.
LEMMA HarmlessHas ==
  ASSUME TypeOK, QInv, NEW h \in Handlers, Step(h), pc[h] \in Harmless
  PROVE  /\ h \in Actor /\ h # Worker /\ CachesCurrent /\ TagsCurrent /\ ~Outdated
         /\ pc[h] # "reply" => ~JobUnderWay
         /\ pc[h] \notin Populating /\ ~Decided(h) /\ ~Rests(pc[h])
         /\ pc[h] \in {"req_original", "req_auto", "req_update"} =>
              req[h].pin \in RegistryTags \union {NoTag}
         /\ pc[Worker] \notin Populating
<1>1. h \in Actor /\ h # Worker /\ Worker \in Actor
  BY EnvironmentAssumption DEF Actor
<1>2. /\ Fits(h, pc[h], loc[h]) /\ Rests(pc[Worker])
      /\ JobUnderWay => Served(pc[h], loc[h].ret)
  BY <1>1, StepHas
<1>3. CachesCurrent
  BY <1>1, <1>2 DEF Fits, HandlerFits
<1>4. /\ pc[h] # "reply" => ~JobUnderWay
      /\ pc[h] \notin Populating /\ ~Decided(h) /\ ~Rests(pc[h])
      /\ pc[Worker] \notin Populating
  BY <1>2
  DEF Harmless, Served, Updating, Updated, Populating, Populated, Decided, Decides,
      Deploying, Rests
<1> QED
  BY <1>1, <1>2, <1>3, <1>4, CurrentIsNotOutdated DEF Fits, HandlerFits

LEMMA HarmlessKeeps ==
  ASSUME TypeOK, QInv, NEW h \in Handlers, Step(h), Account, pc[h] \in Harmless,
         NEW l, l \in Harmless \union {"done", "deploy_pin"}, NEW r, ~r.latest,
         pc[h] = "reply" => l = "done",
         l \in {"req_original", "req_auto", "req_update"} =>
           req[h].pin \in RegistryTags \union {NoTag},
         pc'[h] = l, loc'[h] = r, Works,
         UNCHANGED <<hub, row, caches, restarts, changes>>
  PROVE  QInv'
<1>1. /\ h \in Actor /\ h # Worker /\ CachesCurrent /\ TagsCurrent /\ ~Outdated
      /\ pc[h] # "reply" => ~JobUnderWay
      /\ pc[h] \notin Populating /\ ~Decided(h) /\ ~Rests(pc[h])
  BY HarmlessHas
<1>2. Fits(h, l, r)
  BY <1>1
  DEF Fits, HandlerFits, HandlerPlaces, Rests, Updated, Updating, Populated,
      Populating, Deploying, Harmless
<1>3. JobUnderWay => Rests(l)
  BY <1>1 DEF Rests
<1> QED
  BY <1>1, <1>2, <1>3, StepHas, StillKeeps

\* A handler that writes the row, where no job is under way.
LEMMA WriteKeeps ==
  ASSUME TypeOK, QInv, NEW h \in Handlers, Step(h), Account, pc[h] \in Harmless,
         pc[h] # "reply", ~loc[h].latest,
         UNCHANGED <<hub, caches, restarts, changes, loc>>, Works,
         \/ row'.pinned = row.pinned /\ pc'[h] \in Harmless
         \/ pc[h] = "req_update" /\ row'.pinned = req[h].pin /\ pc'[h] = "deploy_pin",
         pc'[h] \in {"req_original", "req_auto", "req_update"} =>
           req[h].pin \in RegistryTags \union {NoTag}
  PROVE  QInv'
<1>1. /\ h \in Actor /\ h # Worker /\ CachesCurrent /\ TagsCurrent /\ ~Outdated
      /\ ~JobUnderWay
      /\ pc[h] \notin Populating /\ ~Decided(h) /\ ~Rests(pc[h])
      /\ pc[h] = "req_update" => req[h].pin \in RegistryTags \union {NoTag}
      /\ pc[Worker] \notin Populating
  BY HarmlessHas
<1>2. /\ hub' = hub /\ cachedTags' = cachedTags /\ cachedDigest' = cachedDigest
      /\ RegistryTags' = RegistryTags /\ req' = req /\ loc' = loc
  BY <1>1, StepHas DEF caches, RegistryTags
<1>3. /\ pc'[h] \in Harmless \union {"deploy_pin"} /\ TagsCurrent'
      /\ pc'[h] \in Harmless => CachesCurrent'
  <2>1. TagsCurrent'
    BY <1>1, <1>2 DEF TagsCurrent
  <2>2. row'.pinned = row.pinned => CachesCurrent'
    BY <1>1, <1>2 DEF CachesCurrent, Wanted, TagWanted
  <2> QED
    BY <2>1, <2>2 DEF Harmless
<1>4. Fits(h, pc[h], loc[h])'
  BY <1>1, <1>2, <1>3
  DEF Fits, HandlerFits, HandlerPlaces, Rests, Updated, Updating, Populated,
      Populating, Deploying, Harmless
<1>5. Stocked'
  <2>1. Stocked
    BY DEF QInv
  <2>2. row'.pinned # NoTag => row'.pinned \in RegistryTags
    BY <1>1, <2>1 DEF Stocked
  <2> QED
    BY <1>1, <1>2, <2>1, <2>2 DEF Stocked
<1>6. Accounted(h)
  <2>1. ~Rests(pc'[h])
    BY <1>3 DEF Harmless, Rests
  <2> QED
    BY <1>1, <2>1 DEF Accounted
<1> QED
  BY <1>1, <1>2, <1>4, <1>5, <1>6, StepHas, MoveKeeps

LEMMA HandlerNeverFails ==
  ASSUME TypeOK, QInv, NEW h \in Handlers, Step(h), Tolerated(h)
  PROVE  ~Fails /\ h # Worker
BY FailureTolerated, EnvironmentAssumption DEF Actor

LEMMA HandleKeeps ==
  ASSUME TypeOK, QInv, NEW h \in Handlers, Step(h), Tolerated(h), Account,
         Handle(h)
  PROVE  QInv'
<1>0. /\ pc \in [Actor -> Label] /\ loc \in [Actor -> Local] /\ h \in Actor
      /\ row \in [pinned : Tag \union {NoTag}, auto : BOOLEAN]
      /\ ~Fails /\ h # Worker
  BY HandlerNeverFails DEF TypeOK, Actor
<1>1. Fits(h, pc[h], loc[h]) /\ pc[h] \in HandlerPlaces
  BY <1>0, StepHas DEF Fits
<1>2. pc[h] \in Harmless
  BY <1>1
  DEF Handle, ReadFlag, SetFlag, ValidatePin, ReadOriginal, ResetFlag,
      UpdatePin, UndoPin, Reply, HandlerPlaces, Harmless, Updating, Updated
<1>3. ~loc[h].latest \/ Reply(h)
  BY <1>1, Labels
  DEF Fits, Handle, ReadFlag, SetFlag, ValidatePin, ReadOriginal, ResetFlag,
      UpdatePin, UndoPin, Reply
<1>4. pc[h] \in {"req_original", "req_auto", "req_update"} =>
        req[h].pin \in RegistryTags \union {NoTag}
  BY <1>0, <1>2, HarmlessHas
<1>5. AfterFlag(h) \in {"reply", "req_list"}
  BY DEF AfterFlag
<1>6. CASE ReadFlag(h)
  <2>1. PICK l \in {"reply", "req_list", "req_setflag"} : Goto(h, l)
    BY <1>5, <1>6 DEF ReadFlag
  <2>2. /\ pc'[h] = l /\ l \in Harmless
        /\ l \notin {"req_original", "req_auto", "req_update"}
    BY <1>0, <2>1 DEF Goto, Harmless
  <2>3. /\ pc[h] = "req_flag" /\ ~loc[h].latest /\ loc'[h] = loc[h] /\ Works
        /\ UNCHANGED <<hub, row, caches, restarts, changes>>
    BY <1>0, <1>3, <1>6 DEF ReadFlag, Reply, Private, registry, nomad
  <2> QED
    BY <1>2, <2>2, <2>3, HarmlessKeeps
<1>7. CASE SetFlag(h) \/ ResetFlag(h)
  <2>1. /\ Works /\ row'.pinned = row.pinned
        /\ UNCHANGED <<hub, caches, restarts, changes, loc>>
    BY <1>0, <1>7 DEF SetFlag, ResetFlag, WriteFlag, registry, nomad
  <2>2. /\ pc'[h] \in {"reply", "req_list", "req_update"}
        /\ pc'[h] = "req_update" => pc[h] = "req_auto"
        /\ pc[h] \in {"req_setflag", "req_auto"}
    BY <1>0, <1>5, <1>7 DEF SetFlag, ResetFlag, Goto
  <2>3. pc'[h] \in Harmless /\ ~loc[h].latest
    BY <1>3, <2>2 DEF Harmless, Reply
  <2> QED
    BY <1>2, <1>4, <2>1, <2>2, <2>3, WriteKeeps
<1>8. CASE ValidatePin(h)
  <2>1. /\ pc[h] = "req_list" /\ ~loc[h].latest /\ loc'[h] = loc[h] /\ Works
        /\ UNCHANGED <<hub, row, caches, restarts, changes>>
    BY <1>0, <1>3, <1>8 DEF ValidatePin, Reply, registry, nomad
  <2>2. \/ /\ pc'[h] = "req_original"
           /\ req[h].pin \in RegistryTags \union {NoTag}
        \/ pc'[h] = "done"
    BY <1>0, <1>8 DEF ValidatePin, Refuse, Goto, IsTagDeployable
  <2>3. CASE pc'[h] = "done"
    BY <1>2, <2>1, <2>3, HarmlessKeeps
  <2>4. CASE pc'[h] = "req_original" /\ req[h].pin \in RegistryTags \union {NoTag}
    <3>1. "req_original" \in Harmless
      BY DEF Harmless
    <3> QED
      BY <1>2, <2>1, <2>4, <3>1, HarmlessKeeps
  <2> QED
    BY <2>2, <2>3, <2>4
<1>9. CASE ReadOriginal(h)
  <2>1. PICK l \in {"reply", "req_auto", "deploy_pin", "req_update"} : Goto(h, l)
    BY <1>9 DEF ReadOriginal
  <2>2. PICK t : loc' = [loc EXCEPT ![h].pin = t]
    BY <1>9 DEF ReadOriginal
  <2> DEFINE r == [loc[h] EXCEPT !.pin = t]
  <2>3. /\ pc[h] = "req_original" /\ ~loc[h].latest /\ Works
        /\ UNCHANGED <<hub, row, caches, restarts, changes>>
    BY <1>0, <1>3, <1>9 DEF ReadOriginal, Reply, Private, registry, nomad
  <2>4. pc'[h] = l /\ loc'[h] = r /\ ~r.latest
    BY <1>0, <2>1, <2>2, <2>3 DEF Goto, Local
  <2>5. l \in Harmless \union {"done", "deploy_pin"}
    BY <2>1 DEF Harmless
  <2> HIDE DEF r
  <2> QED
    BY <1>2, <1>4, <2>3, <2>4, <2>5, HarmlessKeeps
<1>10. CASE UpdatePin(h)
  <2>1. /\ pc[h] = "req_update" /\ pc'[h] = "deploy_pin" /\ Works
        /\ row'.pinned = req[h].pin /\ ~loc[h].latest
        /\ UNCHANGED <<hub, caches, restarts, changes, loc>>
    BY <1>0, <1>3, <1>10 DEF UpdatePin, Reply, Goto, registry, nomad
  <2> QED
    BY <1>2, <1>4, <2>1, WriteKeeps
<1>11. CASE UndoPin(h)
  BY <1>2, <1>11 DEF UndoPin, Harmless
<1>12. CASE Reply(h)
  <2>1. /\ pc'[h] = "done" /\ loc'[h] = NoLocals /\ Works
        /\ UNCHANGED <<hub, row, caches, restarts, changes>>
    BY <1>0, <1>12 DEF Reply, Goto, registry, nomad
  <2>2. ~NoLocals.latest
    BY DEF NoLocals
  <2> QED
    BY <1>2, <2>1, <2>2, HarmlessKeeps
<1> QED
  BY <1>6, <1>7, <1>8, <1>9, <1>10, <1>11, <1>12 DEF Handle

LEMMA ShowKeeps ==
  ASSUME TypeOK, QInv, NEW h \in Handlers, Step(h), Tolerated(h), Account,
         Show(h)
  PROVE  QInv'
<1>0. /\ pc \in [Actor -> Label] /\ loc \in [Actor -> Local] /\ h \in Actor
      /\ ~Fails /\ h # Worker
  BY HandlerNeverFails DEF TypeOK, Actor
<1>1. /\ Fits(h, pc[h], loc[h]) /\ pc[h] \in HandlerPlaces
      /\ FilterReleaseTags(RegistryTags) # {}
  BY <1>0, StepHas DEF Fits, Stocked
<1>2. pc[h] \in Harmless /\ pc[h] # "get_failed" /\ pc[h] # "reply"
  BY <1>1
  DEF Show, ReadShownPin, ListShownTags, ReadAllPins, LoadShownTags,
      ReadShownFlag, HandlerPlaces, Harmless, Updating, Updated
<1>3. ~loc[h].latest
  BY <1>1, Labels
  DEF Fits, Show, ReadShownPin, ListShownTags, ReadAllPins, LoadShownTags,
      ReadShownFlag
<1>4. Works /\ UNCHANGED <<hub, row, caches, restarts, changes>>
  BY <1>0
  DEF Show, ReadShownPin, ListShownTags, ReadAllPins, LoadShownTags,
      ReadShownFlag, Private, registry, nomad
<1>5. PICK l \in {"get_list", "reply", "sum_tags", "sum_value", "sum_reply"} :
        Goto(h, l)
  <2>1. CASE ListShownTags(h)
    <3>1. PICK listed \in {RegistryTags, {}} :
            /\ IF listed = RegistryTags THEN Works ELSE Fails
            /\ FilterReleaseTags(listed) # {} => Goto(h, "reply")
      BY <1>2, <2>1 DEF ListShownTags
    <3>2. listed = RegistryTags
      BY <1>0, <3>1
    <3> QED
      BY <1>1, <3>1, <3>2
  <2>2. CASE ~ListShownTags(h)
    BY <1>0, <2>2 DEF Show, ReadShownPin, ReadAllPins, LoadShownTags, ReadShownFlag
  <2> QED
    BY <2>1, <2>2
<1>6. ~loc'[h].latest
  <2>1. CASE ReadShownPin(h)
    BY <1>0, <1>3, <2>1 DEF ReadShownPin, Local
  <2>2. CASE ListShownTags(h)
    <3>1. PICK S : \/ UNCHANGED loc
                   \/ loc' = [loc EXCEPT ![h].tags = S,
                                         ![h].tag = GetLatestReleaseTag(S)]
      BY <2>2 DEF ListShownTags
    <3> QED
      BY <1>0, <1>3, <3>1 DEF Local
  <2>3. CASE ReadAllPins(h) \/ LoadShownTags(h) \/ ReadShownFlag(h)
    BY <1>0, <1>3, <2>3 DEF ReadAllPins, LoadShownTags, ReadShownFlag, Local
  <2> QED
    BY <2>1, <2>2, <2>3 DEF Show
<1>7. /\ pc'[h] = l /\ l \in Harmless
      /\ l \notin {"req_original", "req_auto", "req_update"}
  BY <1>0, <1>5 DEF Goto, Harmless
<1> QED
  BY <1>2, <1>4, <1>6, <1>7, HarmlessKeeps

LEMMA StepKeeps ==
  ASSUME OneSpelling, TypeOK, QInv, NEW a \in Actor, QStep(a)
  PROVE  QInv'
BY PinKeeps, RefreshKeeps, DeployKeeps, ShouldDeployKeeps, HandleKeeps, ShowKeeps
DEF QStep, Step

-----------------------------------------------------------------------------
(* Between two polls *)

LEMMA AtRestHas ==
  ASSUME TypeOK, QInv, AtRest
  PROVE  /\ \A a \in Actor : Rests(pc[a]) /\ ~Decided(a) /\ ~loc[a].latest
         /\ pc[Worker] \notin Populating /\ Seeks(pc[Worker])
         /\ \A h \in Handlers : Rests(pc[h])
         /\ \A t \in ImageTag : ~(restarts[t] > 0)
         /\ ~JobUnderWay
         /\ owed => row.auto /\ Outdated
         /\ Due = IF Outdated THEN 1 ELSE 0
<1>1. \A a \in Actor : Rests(pc[a])
  BY DEF AtRest, Rests, Actor
<1>2. \A a \in Actor : ~Decided(a) /\ ~loc[a].latest
  BY <1>1, Labels
  DEF QInv, Fits, Rests, Decided, Decides, Deploying, Updating, Updated
<1>3. /\ pc[Worker] \notin Populating /\ Seeks(pc[Worker])
      /\ \A h \in Handlers : Rests(pc[h])
  BY <1>1 DEF AtRest, Populating, Populated, Seeks, Actor
<1>4. \A t \in ImageTag : ~(restarts[t] > 0)
  BY DEF AtRest, TypeOK
<1>5. ~JobUnderWay
  BY <1>4 DEF JobUnderWay
<1>6. owed => row.auto /\ Outdated
  BY <1>2, <1>5 DEF QInv, OwedInv, Shows
<1>7. Due = IF Outdated THEN 1 ELSE 0
  BY <1>2, <1>3 DEF Due, Shows, Actor
<1> QED
  BY <1>1, <1>2, <1>3, <1>4, <1>5, <1>6, <1>7

LEMMA RegisterKeeps ==
  ASSUME TypeOK, QInv, QRegister
  PROVE  QInv'
<1>1. PICK t \in ImageTag : RegisterJob(t)
  BY DEF QRegister
<1>2. /\ hub' = hub /\ row' = row /\ req' = req /\ pc' = pc /\ loc' = loc
      /\ cachedTags' = cachedTags /\ cachedDigest' = cachedDigest
      /\ changes' = changes /\ faults' = faults /\ launches' = launches
      /\ owed' = FALSE
  BY <1>1 DEF QRegister, RegisterJob, registry, caches, web, Works
<1>3. /\ RegistryTags' = RegistryTags /\ Goal' = Goal /\ Watched' = Watched
      /\ (TagsCurrent' <=> TagsCurrent) /\ (Outdated' <=> Outdated)
      /\ (CachesCurrent' <=> CachesCurrent)
  BY <1>2
  DEF RegistryTags, Goal, TagWanted, Watched, TagsCurrent, Outdated,
      CachesCurrent, Wanted
<1>4. \A u \in ImageTag : restarts'[u] > 0 => restarts[u] > 0
  BY <1>1 DEF RegisterJob, Pending, TypeOK
<1>5. RestartInv'
  BY <1>2, <1>3, <1>4 DEF QInv, RestartInv, JobUnderWay
<1>6. (\A a \in Actor : Fits(a, pc[a], loc[a]))'
  BY <1>2, <1>3 DEF QInv, Fits, WorkerFits, HandlerFits
<1>7. OneIsBusy' /\ Stocked'
  BY <1>2, <1>3 DEF QInv, OneIsBusy, Stocked
<1>8. Due' = Due
  BY <1>2, <1>3 DEF Due, Decided, Shows
<1>9. LaunchInv' /\ launches' \in Nat
  <2> HIDE DEF Due
  <2> QED
    BY <1>2, <1>8 DEF QInv, LaunchInv
<1> QED
  BY <1>2, <1>5, <1>6, <1>7, <1>9 DEF QInv, OwedInv

LEMMA ReceiveKeeps ==
  ASSUME TypeOK, QInv, QReceive
  PROVE  QInv'
<1>0. /\ pc \in [Actor -> Label] /\ req \in [Handlers -> Request \union {NoRequest}]
      /\ AtRest /\ CachesCurrent /\ Account
  BY DEF TypeOK, QReceive
<1>1. PICK h \in Handlers, r \in Requests : Receive(h, r)
  BY DEF QReceive
<1>2. /\ hub' = hub /\ row' = row /\ loc' = loc /\ restarts' = restarts
      /\ cachedTags' = cachedTags /\ cachedDigest' = cachedDigest
      /\ changes' = changes /\ faults' = faults
  BY <1>1 DEF Receive, registry, caches, nomad, Works
<1>3. /\ h \in Actor /\ h # Worker /\ Worker \in Actor /\ Worker \notin Handlers
      /\ r \in Request
  BY EnvironmentAssumption DEF Actor
<1>4. /\ pc'[h] \in {"req_original", "req_flag", "req_list", "done", "get_pin",
                     "sum_pins"}
      /\ pc'[h] = "req_original" => req'[h].pin = NoTag
      /\ \A a \in Actor : a # h => pc'[a] = pc[a]
      /\ \A g \in Handlers : g # h => req'[g] = req[g]
  BY <1>0, <1>1, <1>3 DEF Receive, Goto, Request
<1>5. TagsCurrent /\ ~Outdated
  BY <1>0, CurrentIsNotOutdated
<1>6. /\ RegistryTags' = RegistryTags /\ Goal' = Goal /\ Watched' = Watched
      /\ TagsCurrent' /\ ~Outdated' /\ CachesCurrent'
  BY <1>0, <1>2, <1>5
  DEF RegistryTags, Goal, TagWanted, Watched, TagsCurrent, Outdated,
      CachesCurrent, Wanted
<1>7. /\ \A a \in Actor : Rests(pc[a]) /\ ~Decided(a) /\ ~loc[a].latest
      /\ pc[Worker] \notin Populating /\ ~JobUnderWay /\ ~owed
  BY <1>0, <1>5, AtRestHas
<1>8. Fits(h, pc[h], loc[h])'
  BY <1>2, <1>3, <1>4, <1>6, <1>7
  DEF Fits, HandlerFits, HandlerPlaces, Rests, Updated, Updating, Populated,
      Populating, Deploying, Harmless
<1>9. (\A a \in Actor : Fits(a, pc[a], loc[a]))'
  <2>1. \A a \in Actor : a # h => loc'[a] = loc[a]
    BY <1>2
  <2> QED
    BY <1>4, <1>7, <1>8, <2>1, RestFits DEF QInv
<1>10. OneIsBusy'
  BY <1>4, <1>7 DEF OneIsBusy
<1>11. Stocked' /\ RestartInv'
  BY <1>2, <1>3, <1>4, <1>6, <1>7 DEF QInv, Stocked, RestartInv, JobUnderWay
<1>12. ~owed' /\ launches' = launches
  <2>1. ~CalledFor
    BY <1>2, <1>3, <1>4 DEF CalledFor, Actor
  <2>2. pc[Worker] # "deploy_job"
    BY <1>3, <1>7 DEF Rests
  <2>3. launches' = launches
    BY <1>0, <2>2 DEF Account, Launched
  <2>4. ~owed'
    BY <1>0, <1>7, <2>1, Zenon DEF Account
  <2> QED
    BY <2>3, <2>4
<1>13. Due' = 0
  BY <1>2, <1>3, <1>4, <1>6, <1>7 DEF Due, Decided, Shows
<1>14. LaunchInv'
  <2>1. launches + Due <= changes + faults /\ launches \in Nat /\ Due \in {0, 1}
    BY DEF QInv, LaunchInv, Due
  <2>2. changes \in Nat /\ faults \in Nat
    BY DEF TypeOK
  <2> HIDE DEF Due
  <2> QED
    BY <1>2, <1>12, <1>13, <2>1, <2>2 DEF LaunchInv
<1> QED
  BY <1>0, <1>9, <1>10, <1>11, <1>12, <1>14, AccountType DEF QInv, OwedInv

LEMMA RestartKeeps ==
  ASSUME TypeOK, QInv, QRestart
  PROVE  QInv'
<1>0. /\ AtRest /\ CachesCurrent /\ Account /\ Restart
      /\ Worker \in Actor /\ Worker \notin Handlers
      /\ \A h \in Handlers : h \in Actor /\ h # Worker
      /\ \A a \in Actor : a # Worker => a \in Handlers
  BY EnvironmentAssumption DEF QRestart, Actor
<1>1. /\ hub' = hub /\ row' = row /\ req' = req
      /\ changes' = changes /\ faults' = faults
      /\ restarts' = [t \in ImageTag |-> 0]
      /\ loc' = [a \in Actor |-> NoLocals]
  BY <1>0 DEF Restart, RowAfterInitRows, registry, web, Works
<1>2. /\ pc'[Worker] = "populate_list"
      /\ \A h \in Handlers : pc'[h] \in {"idle", "done"}
  BY <1>0 DEF Restart
<1>3. ~owed /\ pc[Worker] = "sleep"
  BY <1>0, AtRestHas, CurrentIsNotOutdated DEF AtRest
<1>4. (\A a \in Actor : Fits(a, pc[a], loc[a]))'
  <2>1. \A a \in Actor : ~loc'[a].latest
    BY <1>1 DEF NoLocals
  <2>2. Fits(Worker, pc[Worker], loc[Worker])'
    BY <1>0, <1>2, <2>1
    DEF Fits, WorkerFits, WorkerPlaces, Should, Updated, Updating, Populated,
        Populating, Deploying
  <2>3. ASSUME NEW h \in Handlers PROVE Fits(h, pc[h], loc[h])'
    BY <1>0, <1>2, <2>1
    DEF Fits, HandlerFits, HandlerPlaces, Rests, Updated, Updating, Populated,
        Populating, Deploying, Harmless
  <2> QED
    BY <1>0, <2>2, <2>3
<1>5. OneIsBusy'
  <2>1. \A a \in Actor : a # Worker => Rests(pc'[a])
    BY <1>0, <1>2 DEF Rests
  <2> QED
    BY <2>1 DEF OneIsBusy
<1>6. Stocked'
  <2>1. RegistryTags' = RegistryTags /\ pc'[Worker] \in Populating
    BY <1>1, <1>2 DEF RegistryTags, Populating
  <2> QED
    BY <1>1, <2>1 DEF QInv, Stocked
<1>7. RestartInv'
  BY <1>1 DEF RestartInv, JobUnderWay
<1>8. ~owed' /\ launches' = launches
  <2>1. ~CalledFor
    BY <1>0, <1>1, <1>2 DEF CalledFor
  <2>2. launches' = launches
    BY <1>0, <1>3 DEF Account, Launched
  <2>3. ~owed'
    BY <1>0, <1>3, <2>1, Zenon DEF Account
  <2> QED
    BY <2>2, <2>3
<1>9. Due' = 0
  BY <1>2
  DEF Due, Decided, Decides, Shows, Seeks, Should, Deploying, Updating, Updated
<1>10. LaunchInv'
  <2>1. launches + Due <= changes + faults /\ launches \in Nat /\ Due \in {0, 1}
    BY DEF QInv, LaunchInv, Due
  <2>2. changes \in Nat /\ faults \in Nat
    BY DEF TypeOK
  <2> HIDE DEF Due
  <2> QED
    BY <1>1, <1>8, <1>9, <2>1, <2>2 DEF LaunchInv
<1> QED
  BY <1>0, <1>4, <1>5, <1>6, <1>7, <1>8, <1>10, AccountType DEF QInv, OwedInv

\* A push makes the caches outdated if it changes what is wanted, and leaves
\* them outdated if they were: it may not put back what a poll has not missed.
LEMMA PushShows ==
  ASSUME OneSpelling, TypeOK, Stocked, pc[Worker] \notin Populating,
         NEW t \in Tag, NEW d \in Digest, Push(t, d), ~PutsBack(t, d), ~Outdated'
  PROVE  ~Outdated /\ Wanted(hub', row.pinned) = Wanted(hub, row.pinned)
<1> DEFINE W == Watched
           G == Goal
           H == Goal'
           R == RegistryTags
           S == RegistryTags'
<1>1. /\ row' = row /\ cachedTags' = cachedTags /\ cachedDigest' = cachedDigest
      /\ hub' = [hub EXCEPT ![t] = d] /\ hub \in [Tag -> Digest \union {NoDigest}]
  BY DEF Push, caches, TypeOK, Hub
<1>2. S = R \union {t}
  BY <1>1, EnvironmentAssumption DEF RegistryTags
<1>3. Watched' = W
  BY <1>1 DEF Watched
<1>4. W = H /\ hub'[W] = cachedDigest
  BY <1>1, <1>3 DEF Outdated
<1>5. W \in R /\ W \in Tag
  BY WatchedIsThere
<1>6. t # W
  BY <1>1, <1>4, <1>5 DEF PutsBack
<1>7. hub[W] = cachedDigest
  BY <1>1, <1>4, <1>5, <1>6
<1>8. G = W
  <2>1. CASE row.pinned # NoTag
    BY <2>1 DEF Goal, TagWanted, Watched
  <2>2. CASE row.pinned = NoTag
    <3>1. /\ G = GetLatestReleaseTag(R) /\ R \in SUBSET Tag
          /\ FilterReleaseTags(R) # {}
      BY <2>2, GoalIsThere DEF Stocked
    <3>2. H = GetLatestReleaseTag(S) /\ S \in SUBSET Tag
      BY <1>1, <2>2 DEF Goal, TagWanted, RegistryTags
    <3>3. FilterReleaseTags(S) # {}
      BY <1>2, <3>1 DEF FilterReleaseTags
    <3> HIDE DEF R, S, G, H, W
    <3>4. /\ G \in R \intersect Release
          /\ \A u \in R \intersect Release :
               TagToNumber(u) \in Nat /\ TagToNumber(u) <= TagToNumber(G)
      BY <3>1, LatestHasGreatestNumber
    <3>5. /\ H \in S \intersect Release
          /\ \A u \in S \intersect Release :
               TagToNumber(u) \in Nat /\ TagToNumber(u) <= TagToNumber(H)
      BY <3>2, <3>3, LatestHasGreatestNumber
    <3>6. /\ TagToNumber(G) \in Nat /\ TagToNumber(H) \in Nat
          /\ TagToNumber(G) <= TagToNumber(H) /\ TagToNumber(H) <= TagToNumber(G)
          /\ G \in Release /\ H \in Release
      BY <1>2, <1>4, <1>5, <3>4, <3>5
    <3>7. TagToNumber(G) = TagToNumber(H)
      BY <3>6, SMT
    <3> QED
      BY <1>4, <3>6, <3>7 DEF OneSpelling
  <2> QED
    BY <2>1, <2>2
<1>9. ~Outdated
  BY <1>7, <1>8 DEF Outdated
<1>10. /\ TagWanted(hub', row.pinned) = W /\ TagWanted(hub, row.pinned) = W
       /\ hub'[W] = hub[W]
  BY <1>1, <1>4, <1>7, <1>8 DEF Goal
<1> QED
  BY <1>9, <1>10 DEF Wanted

LEMMA ChangeKeeps ==
  ASSUME OneSpelling, TypeOK, QInv, QChange
  PROVE  QInv'
<1>0. /\ hub \in [Tag -> Digest \union {NoDigest}] /\ changes \in Nat /\ faults \in Nat
      /\ AtRest /\ Account /\ Stocked
      /\ Worker \in Actor /\ NoDigest \notin Digest
  BY EnvironmentAssumption DEF TypeOK, Hub, QChange, QInv, Actor
<1>1. PICK t \in Tag, d \in Digest : ~PutsBack(t, d) /\ Push(t, d)
  BY DEF QChange
<1>2. /\ row' = row /\ req' = req /\ pc' = pc /\ loc' = loc /\ restarts' = restarts
      /\ cachedTags' = cachedTags /\ cachedDigest' = cachedDigest
      /\ changes' = changes + 1 /\ faults' = faults
      /\ hub' = [hub EXCEPT ![t] = d]
  BY <1>1 DEF Push, caches, nomad, web, Works
<1>3. RegistryTags' = RegistryTags \union {t}
  BY <1>0, <1>2 DEF RegistryTags
<1>4. /\ \A a \in Actor : Rests(pc[a]) /\ ~Decided(a) /\ ~loc[a].latest
      /\ pc[Worker] \notin Populating /\ Seeks(pc[Worker])
      /\ \A h \in Handlers : Rests(pc[h])
      /\ ~JobUnderWay /\ (owed => row.auto /\ Outdated)
  BY <1>0, AtRestHas
<1>5. ~Outdated' => ~Outdated /\ Wanted(hub', row.pinned) = Wanted(hub, row.pinned)
  BY <1>0, <1>1, <1>4, PushShows
<1>6. (\A a \in Actor : Fits(a, pc[a], loc[a]))'
  <2>1. \A a \in Actor : pc'[a] = pc[a] /\ loc'[a] = loc[a]
    BY <1>2
  <2> QED
    BY <1>4, <2>1, RestFits DEF QInv
<1>7. OneIsBusy' /\ RestartInv'
  BY <1>2, <1>4 DEF QInv, OneIsBusy, RestartInv, JobUnderWay
<1>8. Stocked'
  BY <1>0, <1>2, <1>3 DEF Stocked, FilterReleaseTags, FilterSHATags
<1>9. launches' = launches
  <2>1. pc[Worker] # "deploy_job"
    BY <1>0 DEF AtRest
  <2> QED
    BY <1>0, <2>1 DEF Account, Launched
<1>10. OwedInv'
  <2>1. owed' => row.auto /\ Outdated'
    <3>1. CalledFor => row.auto /\ Wanted(hub', row.pinned) # Wanted(hub, row.pinned)
      BY <1>2 DEF CalledFor
    <3>2. owed' => owed \/ CalledFor
      BY <1>0, Zenon DEF Account
    <3> QED
      BY <1>4, <1>5, <3>1, <3>2
  <2> QED
    BY <1>2, <1>4, <2>1 DEF OwedInv, Shows
<1>11. LaunchInv' /\ launches' \in Nat
  <2>1. launches + Due <= changes + faults /\ launches \in Nat
        /\ Due \in {0, 1} /\ Due' \in {0, 1}
    BY DEF QInv, LaunchInv, Due
  <2>2. changes' + faults' = (changes + faults) + 1
    BY <1>0, <1>2
  <2> HIDE DEF Due
  <2>3. launches + Due' <= changes' + faults'
    BY <1>0, <2>1, <2>2
  <2> QED
    BY <1>9, <2>1, <2>3 DEF LaunchInv
<1> QED
  BY <1>0, <1>6, <1>7, <1>8, <1>10, <1>11, AccountType DEF QInv

LEMMA QInvStep ==
  ASSUME OneSpelling, TypeOK, QInv, [QNext]_qvars
  PROVE  QInv'
<1>1. CASE QNext
  BY <1>1, PollKeeps, ReceiveKeeps, ChangeKeeps, RestartKeeps, RegisterKeeps, StepKeeps
  DEF QNext
<1>2. CASE UNCHANGED qvars
  <2>1. /\ UNCHANGED <<hub, row, cachedTags, cachedDigest, restarts, pc, loc, req>>
        /\ UNCHANGED <<changes, faults, owed, launches>>
    BY <1>2 DEF qvars, vars, registry, caches, nomad, web
  <2>2. /\ RegistryTags' = RegistryTags /\ Goal' = Goal /\ Watched' = Watched
        /\ (TagsCurrent' <=> TagsCurrent) /\ (Outdated' <=> Outdated)
        /\ (CachesCurrent' <=> CachesCurrent)
    BY <2>1
    DEF RegistryTags, Goal, TagWanted, Watched, TagsCurrent, Outdated,
        CachesCurrent, Wanted
  <2>3. (\A a \in Actor : Fits(a, pc[a], loc[a]))'
    BY <2>1, <2>2 DEF QInv, Fits, WorkerFits, HandlerFits
  <2>4. OneIsBusy' /\ Stocked' /\ RestartInv'
    BY <2>1, <2>2 DEF QInv, OneIsBusy, Stocked, RestartInv, JobUnderWay
  <2>5. (Shows' <=> Shows) /\ \A a \in Actor : Decided(a)' <=> Decided(a)
    BY <2>1, <2>2 DEF Decided, Shows
  <2>6. OwedInv'
    BY <2>1, <2>2 DEF QInv, OwedInv, Shows, JobUnderWay, Decided
  <2>7. Due' = Due
    BY <2>5 DEF Due, Actor
  <2>8. LaunchInv'
    <3> HIDE DEF Due
    <3> QED
      BY <2>1, <2>7 DEF QInv, LaunchInv
  <2> QED
    BY <2>1, <2>3, <2>4, <2>6, <2>8 DEF QInv
<1> QED
  BY <1>1, <1>2

-----------------------------------------------------------------------------
(* The invariants *)

LEMMA QInvInit ==
  ASSUME ReleasesExist, QInit
  PROVE  QInv
<1>1. /\ TypeOK /\ hub \in InitialHubs /\ row.pinned = NoTag
      /\ owed = FALSE /\ launches = 0 /\ changes = 0 /\ faults = 0
      /\ \A t \in ImageTag : restarts[t] = 0
      /\ pc[Worker] = "populate_list" /\ loc[Worker] = NoLocals
  BY TypeInit DEF QInit, Init, Actor
<1>2. \A h \in Handlers : pc[h] = "idle" /\ loc[h] = NoLocals /\ h # Worker
  BY EnvironmentAssumption DEF QInit, Init, Actor
<1>3. \A a \in Actor : a = Worker \/ a \in Handlers
  BY DEF Actor
<1>4. PICK t \in Release : hub[t] # NoDigest
  BY <1>1 DEF ReleasesExist
<1>5. FilterReleaseTags(RegistryTags) # {}
  BY <1>4, TagAssumption DEF RegistryTags, FilterReleaseTags
<1>6. \A a \in Actor : Fits(a, pc[a], loc[a])
  <2>1. Fits(Worker, "populate_list", NoLocals)
    BY Labels DEF Fits, WorkerFits, WorkerPlaces, Should, Updating, Updated, Populating,
           Populated, Deploying, NoLocals
  <2>2. \A h \in Handlers : h # Worker => Fits(h, "idle", NoLocals)
    BY Labels DEF Fits, HandlerFits, HandlerPlaces, Harmless, Updating, Updated,
           Populated, Deploying, Rests, NoLocals
  <2> QED
    BY <1>1, <1>2, <1>3, <2>1, <2>2
<1>7. OneIsBusy
  BY <1>2, <1>3 DEF OneIsBusy, Rests
<1>8. Stocked
  BY <1>1, <1>5 DEF Stocked, Populating
<1>9. RestartInv /\ OwedInv
  BY <1>1 DEF RestartInv, OwedInv, JobUnderWay
<1>10. LaunchInv
  BY <1>1 DEF LaunchInv, Due, Shows, Seeks, Should, Decided, Decides, Deploying,
         Updating, Updated
<1> QED
  BY <1>1, <1>6, <1>7, <1>8, <1>9, <1>10 DEF QInv

\* WatcherQuiet takes steps of Watcher.
LEMMA QuietSteps ==
  /\ QInit => Init
  /\ [QNext]_qvars => [Next]_vars
<1>1. QNext => Next
  BY DEF QNext, QPoll, QReceive, QChange, QRestart, QRegister, QStep,
         Next, Arrival, Progress
<1>2. UNCHANGED qvars => UNCHANGED vars
  BY DEF qvars
<1> QED
  BY <1>1, <1>2 DEF QInit

LEMMA QInvariance ==
  ASSUME OneSpelling, ReleasesExist
  PROVE  QSpec => [](IInv /\ QInv)
<1>1. QInit => IInv /\ QInv
  BY QInvInit, QuietSteps, TypeInit, SafeInit DEF IInv, Safe
<1>2. IInv /\ QInv /\ [QNext]_qvars => IInv' /\ QInv'
  <2>1. IInv /\ [QNext]_qvars => IInv'
    BY QuietSteps, TypeStep, SafeStep DEF IInv, Safe
  <2>2. IInv /\ QInv /\ [QNext]_qvars => QInv'
    BY QInvStep DEF IInv
  <2> QED
    BY <2>1, <2>2
<1> QED
  BY <1>1, <1>2, PTL DEF QSpec

LEMMA RestShows ==
  ASSUME TypeOK, QInv
  PROVE  OwedIsVisible
BY AtRestHas, CurrentIsNotOutdated DEF OwedIsVisible

LEMMA LaunchesBounded ==
  ASSUME TypeOK, QInv
  PROVE  OneLaunchPerChange
<1>1. /\ launches + Due <= changes + faults
      /\ launches \in Nat /\ changes \in Nat /\ faults \in Nat
  BY DEF TypeOK, QInv, LaunchInv
<1>2. Due \in {0, 1}
  BY DEF Due
<1> HIDE DEF Due
<1> QED
  BY <1>1, <1>2 DEF OneLaunchPerChange

-----------------------------------------------------------------------------
(* Every step is one of AutoDeploy *)

LEMMA PromiseInit ==
  ASSUME ReleasesExist, QInit
  PROVE  Promise!Init
<1>1. /\ TypeOK /\ hub \in Hub /\ row = [pinned |-> NoTag, auto |-> TRUE]
      /\ owed = FALSE
  BY TypeInit DEF QInit, Init, TypeOK
<1>2. running = Wanted(hub, row.pinned)
  <2>1. FilterReleaseTags(RegistryTags) # {}
    BY QInvInit DEF QInv, Stocked
  <2> QED
    BY <1>1, <2>1 DEF QInit, Init, Wanted, TagWanted, RegistryTags
<1> QED
  BY <1>1, <1>2 DEF Promise!Init

\* A step that leaves these alone is none of AutoDeploy's.
LEMMA Stutters ==
  ASSUME TypeOK, QInv, Account, ~CalledFor, UNCHANGED <<hub, row, running>>
  PROVE  UNCHANGED Promise!vars
<1>1. owed' = owed
  BY Zenon DEF Account, QInv
<1> QED
  BY <1>1 DEF Promise!vars

\* A request calls for a deployment in Handle alone: nothing else takes a
\* handler to deploy_pin.
LEMMA CommonCallsNothing ==
  ASSUME TypeOK, NEW h \in Handlers, h # Worker, pc[h] \in HandlerPlaces,
         pc[h] # "deploy_pin", Common(h)
  PROVE  pc'[h] # "deploy_pin"
<1>0. pc \in [Actor -> Label] /\ h \in Actor /\ loc[h].ret \in Return
  BY DEF TypeOK, Actor, Local
<1>1. pc[h] \notin {"run_deploy", "run_original"} /\ loc[h].ret # "deploy_pin"
      /\ Back(h) # "deploy_pin"
  BY <1>0 DEF HandlerPlaces, Harmless, Updating, Updated, Return, Back
<1>2. CASE ReadPin(h) \/ LatestFromCache(h)
  BY <1>0, <1>1, <1>2, Labels DEF ReadPin, LatestFromCache, AfterPin, Goto
<1>3. CASE ReadPinFails(h)
  BY <1>0, <1>1, <1>3 DEF ReadPinFails, PinError, Goto
<1>4. CASE RefreshCaches(h)
  BY <1>0, <1>1, <1>4
  DEF RefreshCaches, ListTags, ListTagsFails, StoreTags, LoadDigest,
      CheckInUpdate, CheckInUpdateFails, FetchDigest, FetchDigestFails,
      SaveDigest, Goto
<1>5. CASE DeployJob(h) \/ DeployJobFails(h)
  BY <1>0, <1>5 DEF DeployJob, DeployJobFails, AfterJob, Goto
<1>6. CASE Show(h)
  BY <1>0, <1>6
  DEF Show, ReadShownPin, ListShownTags, ReadAllPins, LoadShownTags,
      ReadShownFlag, Refuse, Goto
<1> QED
  BY <1>2, <1>3, <1>4, <1>5, <1>6 DEF Common

LEMMA CommonImplements ==
  ASSUME TypeOK, QInv, NEW a \in Actor, Step(a), Account, Common(a)
  PROVE  UNCHANGED Promise!vars
<1>1. UNCHANGED <<hub, row, running>>
  <2>1. UNCHANGED row
    BY CommonLeaves
  <2>2. UNCHANGED <<hub, running>>
    BY DEF Common, ReadPin, ReadPinFails, LatestFromCache,
       RefreshCaches, ListTags, ListTagsFails, StoreTags, LoadDigest,
       CheckInUpdate, CheckInUpdateFails, FetchDigest, FetchDigestFails,
       SaveDigest, DeployJob, DeployJobFails,
       Poll, ShouldDeploy, ReadAutoFlag, GiveUp, ReadPinned,
       CheckInShouldDeploy, CheckInShouldDeployFails, ListForRelease,
       ListForReleaseFails, CompareReleases, Show, ReadShownPin, ListShownTags,
       ReadAllPins, LoadShownTags, ReadShownFlag, Refuse, Private, registry, nomad
  <2> QED
    BY <2>1, <2>2
<1>2. ASSUME NEW h \in Handlers, pc[h] # "deploy_pin"
      PROVE  pc'[h] # "deploy_pin"
  <2>0. h # Worker /\ h \in Actor /\ pc[h] \in HandlerPlaces
    BY EnvironmentAssumption DEF QInv, Fits, Actor
  <2>1. CASE h = a
    BY <1>2, <2>0, <2>1, CommonCallsNothing
  <2>2. CASE h # a
    BY <1>2, <2>0, <2>2, StepHas
  <2> QED
    BY <2>1, <2>2
<1>3. ~CalledFor
  BY <1>1, <1>2 DEF CalledFor, Wanted, TagWanted
<1> QED
  BY <1>1, <1>3, Stutters

LEMMA HandleImplements ==
  ASSUME TypeOK, QInv, NEW h \in Handlers, Step(h), Tolerated(h), Account,
         Handle(h)
  PROVE  [Promise!Next]_Promise!vars
<1>0. /\ pc \in [Actor -> Label] /\ h \in Actor /\ ~Fails /\ h # Worker
      /\ row \in [pinned : Tag \union {NoTag}, auto : BOOLEAN]
      /\ pc[h] \in HandlerPlaces
      /\ \A b \in Handlers : b # h => pc'[b] = pc[b]
  BY HandlerNeverFails, StepHas DEF TypeOK, Actor, Fits
<1>1. AfterFlag(h) # "deploy_pin"
  BY DEF AfterFlag
<1>2. UNCHANGED <<hub, running>>
  BY DEF Handle, ReadFlag, SetFlag, ValidatePin, ReadOriginal, ResetFlag,
     UpdatePin, UndoPin, Reply, Private, registry, nomad
<1>3. pc'[h] # "deploy_pin" => ~CalledFor
  BY <1>0, <1>2 DEF CalledFor, Wanted, TagWanted
<1>4. ~CalledFor => owed' = owed
  BY Zenon DEF Account, QInv
<1>5. CASE ReadFlag(h) \/ ValidatePin(h) \/ Reply(h)
  <2>1. pc'[h] # "deploy_pin" /\ UNCHANGED row
    BY <1>0, <1>1, <1>5 DEF ReadFlag, ValidatePin, Reply, Refuse, Goto, Private
  <2> QED
    BY <1>2, <1>3, <2>1, Stutters
<1>6. CASE SetFlag(h) \/ ResetFlag(h)
  <2>1. pc'[h] # "deploy_pin"
    BY <1>0, <1>1, <1>6 DEF SetFlag, ResetFlag, Goto
  <2>2. row'.pinned = row.pinned /\ row'.auto \in BOOLEAN
    BY <1>0, <1>6 DEF SetFlag, ResetFlag, WriteFlag
  <2>3. Promise!SetAuto
    BY <1>2, <1>3, <1>4, <2>1, <2>2 DEF Promise!SetAuto
  <2> QED
    BY <2>3 DEF Promise!Next
<1>7. CASE ReadOriginal(h)
  <2>1. UNCHANGED row
    BY <1>7 DEF ReadOriginal, Private
  <2>2. CASE pc'[h] = "deploy_pin"
    <3>1. CalledFor
      BY <1>7, <2>2 DEF ReadOriginal, CalledFor
    <3>2. owed' = TRUE
      BY <3>1, Zenon DEF Account
    <3>3. Promise!SetPin
      BY <1>0, <1>2, <2>1, <3>2 DEF Promise!SetPin
    <3> QED
      BY <3>3 DEF Promise!Next
  <2>3. CASE pc'[h] # "deploy_pin"
    BY <1>2, <1>3, <2>1, <2>3, Stutters
  <2> QED
    BY <2>2, <2>3
<1>8. CASE UpdatePin(h)
  <2>1. /\ pc[h] = "req_update" /\ pc'[h] = "deploy_pin"
        /\ row' = [row EXCEPT !.pinned = req[h].pin]
    BY <1>0, <1>8 DEF UpdatePin, Goto
  <2>2. CalledFor
    BY <2>1 DEF CalledFor
  <2>3. owed' = TRUE
    BY <2>2, Zenon DEF Account
  <2>4. req[h].pin \in Tag \union {NoTag}
    BY <1>0, <2>1 DEF QInv, Fits, HandlerFits, RegistryTags
  <2>5. row'.pinned \in Tag \union {NoTag} /\ row'.auto = row.auto
    BY <1>0, <2>1, <2>4
  <2>6. Promise!SetPin
    BY <1>2, <2>3, <2>5 DEF Promise!SetPin
  <2> QED
    BY <2>6 DEF Promise!Next
<1>9. ~UndoPin(h)
  BY <1>0 DEF UndoPin, HandlerPlaces, Harmless, Updating, Updated
<1> QED
  BY <1>5, <1>6, <1>7, <1>8, <1>9 DEF Handle

\* What the worker sleeps through: a poll that begins, a request, a restart.
LEMMA BeginningStutters ==
  ASSUME TypeOK, QInv, QPoll \/ QReceive \/ QRestart
  PROVE  UNCHANGED Promise!vars
<1>1. pc \in [Actor -> Label] /\ Account
  BY DEF TypeOK, QPoll, QReceive, QRestart
<1>2. UNCHANGED <<hub, row, running>>
  BY DEF QPoll, QReceive, QRestart, Poll, Receive, Restart, RowAfterInitRows,
     Private, registry, nomad
<1>3. \A h \in Handlers : pc'[h] = "deploy_pin" => pc[h] = "deploy_pin"
  BY <1>1 DEF QPoll, QReceive, QRestart, Poll, Receive, Restart, Goto, Actor
<1>4. ~CalledFor
  BY <1>2, <1>3 DEF CalledFor, Wanted, TagWanted
<1> QED
  BY <1>1, <1>2, <1>4, Stutters

LEMMA ChangeImplements ==
  ASSUME TypeOK, TypeOK', QInv, QChange
  PROVE  Promise!Change
<1>1. /\ hub' \in Hub /\ Account
      /\ UNCHANGED <<row, running, pc>>
  BY DEF TypeOK, QChange, Push, nomad
<1>2. CalledFor <=> row.auto /\ Wanted(hub', row.pinned) # Wanted(hub, row.pinned)
  BY <1>1 DEF CalledFor
<1>3. owed' = (owed \/ (row.auto /\ Wanted(hub', row.pinned) # Wanted(hub, row.pinned)))
  <2>1. owed \/ CalledFor <=>
          owed \/ (row.auto /\ Wanted(hub', row.pinned) # Wanted(hub, row.pinned))
    BY <1>2
  <2> QED
    BY <1>1, <2>1, Zenon DEF Account
<1> QED
  BY <1>1, <1>3 DEF Promise!Change

\* The job is given what the pin stands for.
LEMMA RegisterImplements ==
  ASSUME TypeOK, QInv, QRegister
  PROVE  Promise!Deploy
<1>1. PICK t \in ImageTag : RegisterJob(t)
  BY DEF QRegister
<1>2. t = Goal /\ DigestOf(Goal) = hub[Goal]
  BY <1>1, GoalIsThere DEF QInv, RestartInv, RegisterJob, Pending
<1>3. /\ UNCHANGED <<hub, row>> /\ owed' = FALSE
      /\ running' = [tag |-> t, digest |-> DigestOf(t)]
  BY <1>1 DEF RegisterJob, QRegister, registry
<1>4. running' = Wanted(hub, row.pinned)
  BY <1>2, <1>3 DEF Wanted, Goal
<1> QED
  BY <1>3, <1>4 DEF Promise!Deploy

LEMMA PromiseStep ==
  ASSUME IInv, IInv', QInv, [QNext]_qvars
  PROVE  [Promise!Next]_Promise!vars
<1>0. TypeOK /\ TypeOK'
  BY DEF IInv
<1>1. CASE QPoll \/ QReceive \/ QRestart
  BY <1>0, <1>1, BeginningStutters
<1>2. CASE QChange
  BY <1>0, <1>2, ChangeImplements DEF Promise!Next
<1>3. CASE QRegister
  BY <1>0, <1>3, RegisterImplements DEF Promise!Next
<1>4. ASSUME NEW a \in Actor, QStep(a)
      PROVE  [Promise!Next]_Promise!vars
  <2>1. Step(a) /\ Tolerated(a) /\ Account
    BY <1>4 DEF QStep
  <2>2. CASE Common(a)
    BY <1>0, <2>1, <2>2, CommonImplements
  <2>3. CASE a \in Handlers /\ Handle(a)
    BY <1>0, <2>1, <2>3, HandleImplements
  <2> QED
    BY <2>1, <2>2, <2>3 DEF Step, Common
<1>5. CASE UNCHANGED qvars
  BY <1>5 DEF qvars, vars, registry, nomad, Promise!vars
<1> QED
  BY <1>1, <1>2, <1>3, <1>4, <1>5 DEF QNext

-----------------------------------------------------------------------------
(* Theorems *)

\* In a quiet repository a deployment that is owed can be seen between polls:
\* auto deployment is on, and the caches differ from the registry.
THEOREM OwedShows ==
  ASSUME OneSpelling, ReleasesExist
  PROVE  QSpec => []OwedIsVisible
<1>1. IInv /\ QInv => OwedIsVisible
  BY RestShows DEF IInv
<1> QED
  BY <1>1, QInvariance, PTL

\* The worker deploys no more often than the registry changes or a call fails.
THEOREM LaunchesAreCalledFor ==
  ASSUME OneSpelling, ReleasesExist
  PROVE  QSpec => []OneLaunchPerChange
<1>1. IInv /\ QInv => OneLaunchPerChange
  BY LaunchesBounded DEF IInv
<1> QED
  BY <1>1, QInvariance, PTL

\* In a quiet repository registrywatcher takes no step that AutoDeploy does not
\* allow: whatever is deployed is the image the pin stands for, and no change of
\* the registry and no request loses the deployment it calls for. That the
\* deployment is made in the end is KeepsPromise's other half, and TLC's.
THEOREM DeploysAsPromised ==
  ASSUME OneSpelling, ReleasesExist
  PROVE  QSpec => Promise!Init /\ [][Promise!Next]_Promise!vars
<1>1. QInit => Promise!Init
  BY PromiseInit
<1>2. IInv /\ IInv' /\ QInv /\ [QNext]_qvars => [Promise!Next]_Promise!vars
  BY PromiseStep
<1> QED
  BY <1>1, <1>2, QInvariance, PTL DEF QSpec

===============================================================================
