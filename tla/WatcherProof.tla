----------------------------- MODULE WatcherProof -----------------------------
(***************************************************************************)
(* Proofs about Watcher, for every set of tags, releases, digests,         *)
(* handlers and requests and every bound on changes, failures and          *)
(* restarts: its variables keep their types, and nothing the registry      *)
(* never held is pinned, cached, deployed or run.                          *)
(***************************************************************************)
EXTENDS Watcher, TagsProof

-----------------------------------------------------------------------------
(* The inductive invariant *)

\* A handler past the validation of its tag, or one that resets, asks for a pin
\* that may be stored. TypeOK alone is not inductive without this: the pin of a
\* request may be absent.
Asks == {"req_original", "req_auto", "req_update", "req_undo"}

Validated ==
  \A h \in Handlers :
    pc[h] \in Asks => req[h].pin \in published \union {NoTag}

\* What the actors carry came from the registry, from the row or from the
\* caches.
CarriesPublished(r) ==
  /\ r.pin \in published \union {NoTag}
  /\ r.tag \in published \union {NoTag}
  /\ r.tags \subseteq published

Safe ==
  /\ PublishedOnly
  /\ Validated
  /\ RegistryTags \subseteq published
  /\ \A a \in Actor : CarriesPublished(loc[a])

IInv == TypeOK /\ Safe

-----------------------------------------------------------------------------
(* Types *)

LEMMA Labels ==
  /\ PinSites = {"should_check", "update_check", "update_pin", "populate_pin",
                 "run_original", "run_deploy", "deploy_pin", "sum_value"}
  /\ \A l \in PinSites : AfterPin[l] \in Label
BY DEF PinSites, AfterPin, Label

\* An actor's move to a label keeps pc in its type, and writing one of an
\* actor's local variables keeps loc in its type.
LEMMA GotoType ==
  ASSUME pc \in [Actor -> Label], NEW a, NEW l \in Label, Goto(a, l)
  PROVE  pc' \in [Actor -> Label]
BY DEF Goto

LEMMA LocalTagType ==
  ASSUME loc \in [Actor -> Local], NEW a \in Actor, NEW t \in Tag \union {NoTag}
  PROVE  /\ [loc EXCEPT ![a].tag = t] \in [Actor -> Local]
         /\ [loc EXCEPT ![a].latest = FALSE, ![a].tag = t] \in [Actor -> Local]
BY DEF Local

LEMMA LocalDigestType ==
  ASSUME loc \in [Actor -> Local], NEW a \in Actor,
         NEW d \in Digest \union {NoDigest}
  PROVE  /\ [loc EXCEPT ![a].digest = d] \in [Actor -> Local]
         /\ [loc EXCEPT ![a].tag = NoTag, ![a].digest = d] \in [Actor -> Local]
         /\ [loc EXCEPT ![a].digest = d, ![a].tag = NoTag] \in [Actor -> Local]
<1>1. [loc EXCEPT ![a].digest = d] \in [Actor -> Local]
  BY DEF Local
<1>2. [loc EXCEPT ![a].tag = NoTag, ![a].digest = d] \in [Actor -> Local]
  BY DEF Local
<1>3. [loc EXCEPT ![a].digest = d, ![a].tag = NoTag] \in [Actor -> Local]
  BY DEF Local
<1> QED
  BY <1>1, <1>2, <1>3

LEMMA BackType ==
  ASSUME NEW a
  PROVE  Back(a) \in Return
BY DEF Back, Return

LEMMA ReturnType == Return \subseteq Label
BY Labels DEF Return, Label

LEMMA PinErrorType ==
  ASSUME TypeOK, NEW a \in Actor
  PROVE  PinError(a) \in Label
<1>1. loc[a].ret \in Return
  BY DEF TypeOK, Local
<1> QED
  BY <1>1, BackType, ReturnType DEF PinError, Label

LEMMA LatestCachedType ==
  ASSUME TypeOK, FilterReleaseTags(cachedTags) # {}
  PROVE  GetLatestReleaseTag(cachedTags) \in Tag
BY LatestIsListed DEF TypeOK, FilterReleaseTags

LEMMA DigestOfType ==
  ASSUME TypeOK, NEW t
  PROVE  DigestOf(t) \in Digest \union {NoDigest}
BY DEF TypeOK, Hub, DigestOf

LEMMA TypeInit == Init => TypeOK
<1> SUFFICES ASSUME Init PROVE TypeOK
  OBVIOUS
<1> USE TagAssumption, EnvironmentAssumption
<1>1. hub \in Hub /\ RegistryTags \subseteq Tag
  BY DEF Init, RegistryTags
<1>2. running \in [tag : Tag \union {NoTag}, digest : Digest \union {NoDigest}]
  <2>1. CASE FilterReleaseTags(RegistryTags) = {}
    BY <2>1 DEF Init
  <2>2. CASE FilterReleaseTags(RegistryTags) # {}
    <3>1. GetLatestReleaseTag(RegistryTags) \in Tag
      BY <1>1, <2>2, LatestIsListed DEF FilterReleaseTags
    <3> QED
      BY <1>1, <2>2, <3>1 DEF Init, Hub
  <2> QED
    BY <2>1, <2>2
<1>3. NoLocals \in Local
  BY DEF NoLocals, Local, Return
<1>4. pc \in [Actor -> Label] /\ loc \in [Actor -> Local]
  BY <1>3 DEF Init, Label
<1> QED
  BY <1>1, <1>2, <1>4 DEF Init, TypeOK

LEMMA FaultsType ==
  ASSUME TypeOK, Works \/ Fails
  PROVE  faults' \in Nat
BY DEF TypeOK, Works, Fails

\* A step that touches only the actors has only the actors' types to keep.
LEMMA PrivateType ==
  ASSUME TypeOK, Private, Works \/ Fails,
         pc' \in [Actor -> Label], loc' \in [Actor -> Local]
  PROVE  TypeOK'
<1>1. faults' \in Nat
  BY FaultsType
<1> QED
  BY <1>1 DEF TypeOK, Private, registry, caches, nomad, web

LEMMA PinTypes ==
  ASSUME TypeOK, NEW a \in Actor,
         ReadPin(a) \/ ReadPinFails(a) \/ LatestFromCache(a)
  PROVE  TypeOK'
<1>1. /\ pc \in [Actor -> Label] /\ loc \in [Actor -> Local]
      /\ row.pinned \in Tag \union {NoTag}
  BY DEF TypeOK
<1>2. CASE ReadPin(a)
  <2>1. pc' \in [Actor -> Label]
    BY <1>1, <1>2, Labels DEF ReadPin, Goto
  <2>2. loc' \in [Actor -> Local]
    <3>1. CASE row.pinned # NoTag
      <4>1. loc' = [loc EXCEPT ![a].tag = row.pinned]
        BY <1>2, <3>1 DEF ReadPin
      <4> QED
        BY <1>1, <4>1, LocalTagType
    <3>2. CASE row.pinned = NoTag
      <4>1. loc' = [loc EXCEPT ![a].latest = TRUE]
        BY <1>2, <3>2 DEF ReadPin
      <4> QED
        BY <1>1, <4>1 DEF Local
    <3> QED
      BY <3>1, <3>2
  <2> QED
    BY <1>2, <2>1, <2>2, PrivateType DEF ReadPin
<1>3. CASE ReadPinFails(a)
  <2>1. pc' \in [Actor -> Label]
    BY <1>1, <1>3, PinErrorType DEF ReadPinFails, Goto
  <2>2. loc' \in [Actor -> Local]
    BY <1>1, <1>3 DEF ReadPinFails, Local
  <2> QED
    BY <1>3, <2>1, <2>2, PrivateType DEF ReadPinFails
<1>4. CASE LatestFromCache(a)
  <2>1. pc' \in [Actor -> Label]
    BY <1>1, <1>4, Labels DEF LatestFromCache, Goto
  <2>2. loc' \in [Actor -> Local]
    <3>1. PICK t \in Tag \union {NoTag} :
            loc' = [loc EXCEPT ![a].latest = FALSE, ![a].tag = t]
      BY <1>1, <1>4, LatestCachedType DEF LatestFromCache
    <3> QED
      BY <1>1, <3>1, LocalTagType
  <2> QED
    BY <1>4, <2>1, <2>2, PrivateType DEF LatestFromCache
<1> QED
  BY <1>2, <1>3, <1>4

LEMMA RefreshTypes ==
  ASSUME TypeOK, NEW a \in Actor, RefreshCaches(a)
  PROVE  TypeOK'
<1>1. /\ pc \in [Actor -> Label] /\ loc \in [Actor -> Local]
      /\ loc[a].ret \in Label /\ loc[a].tags \subseteq Tag
      /\ loc[a].digest \in Digest \union {NoDigest}
      /\ cachedDigest \in Digest \union {NoDigest}
  BY ReturnType DEF TypeOK, Local
<1>2. CASE ListTags(a)
  <2>1. FilterSHATags(RegistryTags) \subseteq Tag
    BY DEF FilterSHATags, RegistryTags
  <2>2. pc' \in [Actor -> Label]
    BY <1>1, <1>2 DEF ListTags, Goto, Label
  <2>3. loc' \in [Actor -> Local]
    BY <1>1, <1>2, <2>1 DEF ListTags, Local
  <2> QED
    BY <1>2, <2>2, <2>3, PrivateType DEF ListTags
<1>3. CASE ListTagsFails(a)
  <2>1. pc' \in [Actor -> Label]
    BY <1>1, <1>3 DEF ListTagsFails, Goto, Label
  <2> QED
    BY <1>1, <1>3, <2>1, PrivateType DEF ListTagsFails
<1>4. CASE StoreTags(a)
  <2>1. pc' \in [Actor -> Label]
    BY <1>1, <1>4, Labels DEF StoreTags, Goto, Label
  <2>2. loc' \in [Actor -> Local]
    BY <1>1, <1>4 DEF StoreTags, Local
  <2> QED
    BY <1>1, <1>4, <2>1, <2>2
    DEF StoreTags, TypeOK, registry, nomad, web, Works
<1>5. CASE LoadDigest(a)
  <2>1. pc' \in [Actor -> Label]
    BY <1>1, <1>5 DEF LoadDigest, Goto, Label
  <2>2. loc' \in [Actor -> Local]
    BY <1>1, <1>5 DEF LoadDigest, Local
  <2> QED
    BY <1>5, <2>1, <2>2, PrivateType DEF LoadDigest
<1>6. CASE CheckInUpdate(a)
  <2>1. pc' \in [Actor -> Label]
    <3>1. \E l \in Label : Goto(a, l)
      BY <1>1, <1>6, Labels DEF CheckInUpdate, Label
    <3> QED
      BY <1>1, <3>1, GotoType
  <2>2. loc' \in [Actor -> Local]
    BY <1>1, <1>6, LocalDigestType DEF CheckInUpdate
  <2>3. Private /\ (Works \/ Fails)
    BY <1>6 DEF CheckInUpdate, Answered
  <2> QED
    BY <2>1, <2>2, <2>3, PrivateType
<1>7. CASE CheckInUpdateFails(a)
  <2>1. pc' \in [Actor -> Label]
    BY <1>1, <1>7 DEF CheckInUpdateFails, Goto
  <2>2. loc' \in [Actor -> Local]
    BY <1>1, <1>7, LocalDigestType DEF CheckInUpdateFails
  <2> QED
    BY <1>7, <2>1, <2>2, PrivateType DEF CheckInUpdateFails
<1>8. CASE FetchDigest(a)
  <2>1. pc' \in [Actor -> Label]
    BY <1>1, <1>8 DEF FetchDigest, Goto, Label
  <2>2. loc' \in [Actor -> Local]
    BY <1>1, <1>8, DigestOfType, LocalDigestType DEF FetchDigest
  <2> QED
    BY <1>8, <2>1, <2>2, PrivateType DEF FetchDigest
<1>9. CASE FetchDigestFails(a)
  <2>1. pc' \in [Actor -> Label]
    BY <1>1, <1>9 DEF FetchDigestFails, Goto, Label
  <2>2. loc' \in [Actor -> Local]
    BY <1>1, <1>9 DEF FetchDigestFails, Local
  <2> QED
    BY <1>9, <2>1, <2>2, PrivateType DEF FetchDigestFails
<1>10. CASE SaveDigest(a)
  <2>1. pc' \in [Actor -> Label]
    BY <1>1, <1>10 DEF SaveDigest, Goto, Label
  <2>2. loc' \in [Actor -> Local]
    BY <1>1, <1>10 DEF SaveDigest, Local
  <2> QED
    BY <1>1, <1>10, <2>1, <2>2
    DEF SaveDigest, TypeOK, registry, nomad, web, Works
<1> QED
  BY <1>2, <1>3, <1>4, <1>5, <1>6, <1>7, <1>8, <1>9, <1>10 DEF RefreshCaches

LEMMA DeployTypes ==
  ASSUME TypeOK, NEW a \in Actor, DeployJob(a) \/ DeployJobFails(a)
  PROVE  TypeOK'
<1>1. /\ pc \in [Actor -> Label] /\ loc \in [Actor -> Local]
      /\ restarts \in [ImageTag -> Nat]
  BY DEF TypeOK
<1>2. Goto(a, "update_list") /\ pc' \in [Actor -> Label]
  BY <1>1 DEF DeployJob, DeployJobFails, AfterJob, Goto, Label
<1>3. loc' \in [Actor -> Local]
  <2>1. PICK l \in Return : loc' = [loc EXCEPT ![a].tag = NoTag, ![a].ret = l]
    BY BackType DEF DeployJob, DeployJobFails
  <2> DEFINE r == [loc[a] EXCEPT !.tag = NoTag, !.ret = l]
  <2>2. r \in Local
    BY <1>1 DEF Local
  <2>3. loc' = [loc EXCEPT ![a] = r]
    BY <2>1
  <2> QED
    BY <1>1, <2>2, <2>3
<1>4. CASE DeployJob(a)
  <2>1. restarts' \in [ImageTag -> Nat]
    <3>1. PICK t : restarts' = [restarts EXCEPT ![t] = @ + 1]
      BY <1>4 DEF DeployJob
    <3>2. CASE t \in ImageTag
      BY <1>1, <3>1, <3>2
    <3>3. CASE t \notin ImageTag
      BY <1>1, <3>1, <3>3
    <3> QED
      BY <3>2, <3>3
  <2> QED
    BY <1>2, <1>3, <1>4, <2>1
    DEF DeployJob, TypeOK, registry, caches, web, Works
<1>5. CASE DeployJobFails(a)
  BY <1>2, <1>3, <1>5, PrivateType DEF DeployJobFails
<1> QED
  BY <1>4, <1>5

LEMMA RegisterTypes ==
  ASSUME TypeOK, NEW t \in ImageTag, RegisterJob(t) \/ RegisterJobFails(t)
  PROVE  TypeOK'
<1>1. restarts \in [ImageTag -> Nat] /\ restarts[t] > 0
  BY DEF TypeOK, RegisterJob, RegisterJobFails, Pending
<1>2. restarts' \in [ImageTag -> Nat]
  BY <1>1 DEF RegisterJob, RegisterJobFails
<1>3. CASE RegisterJob(t)
  <2>1. running' \in
          [tag : Tag \union {NoTag}, digest : Digest \union {NoDigest}]
    BY <1>3, DigestOfType DEF RegisterJob, ImageTag
  <2> QED
    BY <1>2, <1>3, <2>1 DEF RegisterJob, TypeOK, registry, caches, web, Works
<1>4. CASE RegisterJobFails(t)
  BY <1>2, <1>4, FaultsType
  DEF RegisterJobFails, TypeOK, registry, caches, web
<1> QED
  BY <1>3, <1>4

LEMMA ShouldDeployTypes ==
  ASSUME TypeOK, ShouldDeploy \/ Poll
  PROVE  TypeOK'
<1>1. /\ pc \in [Actor -> Label] /\ loc \in [Actor -> Local]
      /\ Worker \in Actor /\ row.pinned \in Tag \union {NoTag}
      /\ loc[Worker].ret \in Return
  BY DEF TypeOK, Local, Actor
<1> DEFINE me == loc[Worker]
<1>2. Private /\ (Works \/ Fails)
  BY DEF ShouldDeploy, Poll, ReadAutoFlag, GiveUp, ReadPinned,
     CheckInShouldDeploy, CheckInShouldDeployFails, ListForRelease,
     ListForReleaseFails, CompareReleases, Answered
<1>3. \E l \in Label : Goto(Worker, l)
  <2>1. /\ {"sleep", "should_auto", "should_pin", "should_check",
            "should_list", "should_compare", "update_list"} \subseteq Label
        /\ AfterAutoFlag \in Label
    BY Labels DEF Label, AfterAutoFlag
  <2> QED
    BY <2>1 DEF ShouldDeploy, Poll, ReadAutoFlag, GiveUp, ReadPinned,
       CheckInShouldDeploy, CheckInShouldDeployFails, ListForRelease,
       ListForReleaseFails, CompareReleases
<1>4. pc' \in [Actor -> Label]
  BY <1>1, <1>3, GotoType
<1>5. loc' \in [Actor -> Local]
  <2>1. CASE Poll
    <3>1. NoLocals \in Local
      BY DEF NoLocals, Local, Return
    <3> QED
      BY <1>1, <2>1, <3>1 DEF Poll
  <2>2. CASE \/ ReadAutoFlag \/ GiveUp("should_auto") \/ GiveUp("should_pin")
             \/ CheckInShouldDeployFails \/ ListForReleaseFails
    BY <1>1, <2>2
    DEF ReadAutoFlag, GiveUp, CheckInShouldDeployFails, ListForReleaseFails
  <2>3. CASE ReadPinned
    BY <1>1, <2>3 DEF ReadPinned, Local
  <2>4. CASE CheckInShouldDeploy
    <3>1. PICK l \in Return :
            loc' = [loc EXCEPT ![Worker].ret = l, ![Worker].tag = NoTag,
                               ![Worker].digest = NoDigest, ![Worker].pin = NoTag]
      BY <2>4 DEF CheckInShouldDeploy, DigestVerdict, Return
    <3> DEFINE r == [me EXCEPT !.ret = l, !.tag = NoTag,
                               !.digest = NoDigest, !.pin = NoTag]
    <3>2. r \in Local
      BY <1>1 DEF Local
    <3>3. loc' = [loc EXCEPT ![Worker] = r]
      BY <3>1
    <3> QED
      BY <1>1, <3>2, <3>3
  <2>5. CASE ListForRelease
    <3>1. FilterSHATags(RegistryTags) \subseteq Tag
      BY DEF FilterSHATags, RegistryTags
    <3> QED
      BY <1>1, <2>5, <3>1 DEF ListForRelease, Local
  <2>6. CASE CompareReleases
    <3>1. PICK l \in Return :
            loc' = [loc EXCEPT ![Worker].ret = l, ![Worker].tags = {}]
      <4>1. "run_original" \in Return
        BY DEF Return
      <4> QED
        BY <1>1, <2>6, <4>1 DEF CompareReleases
    <3> DEFINE r == [me EXCEPT !.ret = l, !.tags = {}]
    <3>2. r \in Local
      BY <1>1 DEF Local
    <3>3. loc' = [loc EXCEPT ![Worker] = r]
      BY <3>1
    <3> QED
      BY <1>1, <3>2, <3>3
  <2> QED
    BY <2>1, <2>2, <2>3, <2>4, <2>5, <2>6 DEF ShouldDeploy
<1> QED
  BY <1>2, <1>4, <1>5, PrivateType

\* What a handler's step can do to the types: everything but the row, its own
\* answer, its place and its locals stays.
LEMMA HandleTypes ==
  ASSUME TypeOK, Validated, NEW h \in Handlers, Handle(h)
  PROVE  TypeOK'
<1>1. /\ pc \in [Actor -> Label] /\ loc \in [Actor -> Local]
      /\ h \in Actor /\ req[h] \in Request \union {NoRequest}
      /\ row \in [pinned : Tag \union {NoTag}, auto : BOOLEAN]
      /\ answer \in [Handlers -> {"none", "200", "400", "twice"}]
  BY DEF TypeOK, Actor
<1>2. /\ {"reply", "done", "req_list", "req_setflag", "req_original",
          "req_auto", "req_update", "req_undo", "deploy_pin"} \subseteq Label
      /\ AfterFlag(h) \in Label /\ UpdateError \in Label
  BY Labels DEF Label, AfterFlag, UpdateError
<1>3. \A flag \in BOOLEAN : WriteFlag(flag) =>
        /\ Works \/ Fails
        /\ row' \in [pinned : Tag \union {NoTag}, auto : BOOLEAN]
  BY <1>1 DEF WriteFlag
<1>4. CASE ReadFlag(h)
  <2>1. Works \/ Fails
    BY <1>4 DEF ReadFlag
  <2>2. \E l \in Label : Goto(h, l)
    BY <1>2, <1>4 DEF ReadFlag
  <2>3. Private /\ UNCHANGED loc
    BY <1>4 DEF ReadFlag
  <2> QED
    BY <1>1, <2>1, <2>2, <2>3, GotoType, PrivateType
<1>5. CASE SetFlag(h)
  <2>1. pc' \in [Actor -> Label]
    BY <1>1, <1>2, <1>5, GotoType DEF SetFlag
  <2>2. row' \in [pinned : Tag \union {NoTag}, auto : BOOLEAN]
    BY <1>3, <1>5 DEF SetFlag
  <2>3. faults' \in Nat
    BY <1>3, <1>5, FaultsType DEF SetFlag
  <2> QED
    BY <1>5, <2>1, <2>2, <2>3
    DEF SetFlag, TypeOK, registry, caches, nomad, web
<1>6. CASE ValidatePin(h)
  <2>1. pc' \in [Actor -> Label]
    BY <1>1, <1>2, <1>6, GotoType DEF ValidatePin, Refuse
  <2>2. faults' \in Nat
    BY <1>6, FaultsType DEF ValidatePin
  <2>3. answer' \in [Handlers -> {"none", "200", "400", "twice"}]
    BY <1>1, <1>6 DEF ValidatePin, Refuse
  <2> QED
    BY <1>6, <2>1, <2>2, <2>3
    DEF ValidatePin, TypeOK, registry, caches, nomad, web
<1>7. CASE ReadOriginal(h)
  <2>1. PICK original \in {row.pinned, NoTag} :
          /\ Works \/ Fails
          /\ loc' = [loc EXCEPT ![h].pin = original]
          /\ \E l \in Label : Goto(h, l)
    BY <1>2, <1>7 DEF ReadOriginal
  <2>2. loc' \in [Actor -> Local]
    BY <1>1, <2>1 DEF Local
  <2> QED
    BY <1>1, <1>7, <2>1, <2>2, GotoType, PrivateType DEF ReadOriginal
<1>8. CASE ResetFlag(h)
  <2>1. pc' \in [Actor -> Label]
    BY <1>1, <1>2, <1>8, GotoType DEF ResetFlag
  <2>2. row' \in [pinned : Tag \union {NoTag}, auto : BOOLEAN]
    BY <1>3, <1>8 DEF ResetFlag
  <2>3. faults' \in Nat
    BY <1>3, <1>8, FaultsType DEF ResetFlag
  <2> QED
    BY <1>8, <2>1, <2>2, <2>3
    DEF ResetFlag, TypeOK, registry, caches, nomad, web
<1>9. CASE UpdatePin(h)
  <2>1. pc' \in [Actor -> Label]
    BY <1>1, <1>2, <1>9, GotoType DEF UpdatePin
  <2>2. faults' \in Nat
    BY <1>9, FaultsType DEF UpdatePin
  <2>3. row' \in [pinned : Tag \union {NoTag}, auto : BOOLEAN]
    <3>1. req[h].pin \in Tag \union {NoTag}
      BY <1>9 DEF UpdatePin, Validated, Asks, TypeOK
    <3> QED
      BY <1>1, <1>9, <3>1 DEF UpdatePin
  <2> QED
    BY <1>9, <2>1, <2>2, <2>3
    DEF UpdatePin, TypeOK, registry, caches, nomad, web
<1>10. CASE UndoPin(h)
  <2>1. pc' \in [Actor -> Label]
    BY <1>1, <1>2, <1>10, GotoType DEF UndoPin, Refuse
  <2>2. faults' \in Nat
    BY <1>10, FaultsType DEF UndoPin
  <2>3. row' \in [pinned : Tag \union {NoTag}, auto : BOOLEAN]
    BY <1>1, <1>10 DEF UndoPin, Local
  <2>4. answer' \in [Handlers -> {"none", "200", "400", "twice"}]
    BY <1>1, <1>10 DEF UndoPin, Refuse
  <2> QED
    BY <1>10, <2>1, <2>2, <2>3, <2>4
    DEF UndoPin, TypeOK, registry, caches, nomad, web
<1>11. CASE Reply(h)
  <2>1. pc' \in [Actor -> Label]
    BY <1>1, <1>2, <1>11, GotoType DEF Reply
  <2>2. loc' \in [Actor -> Local]
    BY <1>1, <1>11 DEF Reply, NoLocals, Local, Return
  <2>3. answer' \in [Handlers -> {"none", "200", "400", "twice"}]
    BY <1>1, <1>11 DEF Reply
  <2> QED
    BY <1>11, <2>1, <2>2, <2>3
    DEF Reply, Works, TypeOK, registry, caches, nomad, web
<1> QED
  BY <1>4, <1>5, <1>6, <1>7, <1>8, <1>9, <1>10, <1>11 DEF Handle

LEMMA LatestShownType ==
  ASSUME NEW S \in SUBSET Tag, FilterReleaseTags(S) # {}
  PROVE  GetLatestReleaseTag(S) \in Tag
BY LatestIsListed DEF FilterReleaseTags

\* A handler that shows something changes its place, its locals, its answer.
LEMMA ShowTypes ==
  ASSUME TypeOK, NEW h \in Handlers, Show(h)
  PROVE  TypeOK'
<1>1. /\ pc \in [Actor -> Label] /\ loc \in [Actor -> Local] /\ h \in Actor
      /\ row.pinned \in Tag \union {NoTag} /\ cachedTags \subseteq Tag
      /\ answer \in [Handlers -> {"none", "200", "400", "twice"}]
  BY DEF TypeOK, Actor
<1>2. {"get_list", "get_failed", "reply", "done", "sum_tags", "sum_value",
       "sum_reply"} \subseteq Label
  BY Labels DEF Label
<1>3. CASE ReadShownPin(h)
  <2>1. Private /\ (Works \/ Fails) /\ \E l \in Label : Goto(h, l)
    BY <1>2, <1>3 DEF ReadShownPin
  <2>2. loc' \in [Actor -> Local]
    <3>1. CASE UNCHANGED loc
      BY <1>1, <3>1
    <3>2. CASE loc' = [loc EXCEPT ![h].pin = row.pinned, ![h].tag = row.pinned]
      <4> DEFINE r == [loc[h] EXCEPT !.pin = row.pinned, !.tag = row.pinned]
      <4>1. r \in Local
        BY <1>1 DEF Local
      <4>2. loc' = [loc EXCEPT ![h] = r]
        BY <3>2
      <4> QED
        BY <1>1, <4>1, <4>2
    <3> QED
      BY <1>3, <3>1, <3>2 DEF ReadShownPin
  <2> QED
    BY <1>1, <2>1, <2>2, GotoType, PrivateType
<1>4. CASE ListShownTags(h)
  <2>1. PICK listed \in {RegistryTags, {}} :
          /\ Works \/ Fails
          /\ \E l \in Label : Goto(h, l)
          /\ answer' \in [Handlers -> {"none", "200", "400", "twice"}]
          /\ \/ UNCHANGED loc
             \/ /\ FilterReleaseTags(listed) # {}
                /\ loc' = [loc EXCEPT ![h].tags = listed,
                                      ![h].tag = GetLatestReleaseTag(listed)]
    BY <1>1, <1>2, <1>4 DEF ListShownTags, Refuse
  <2>2. listed \in SUBSET Tag
    BY DEF RegistryTags
  <2>3. loc' \in [Actor -> Local]
    <3>1. CASE UNCHANGED loc
      BY <1>1, <3>1
    <3>2. CASE ~UNCHANGED loc
      <4> DEFINE r == [loc[h] EXCEPT !.tags = listed,
                                     !.tag = GetLatestReleaseTag(listed)]
      <4>1. r \in Local
        <5>1. GetLatestReleaseTag(listed) \in Tag
          BY <2>1, <2>2, <3>2, LatestShownType
        <5> QED
          BY <1>1, <2>2, <5>1 DEF Local
      <4>2. loc' = [loc EXCEPT ![h] = r]
        BY <2>1, <3>2
      <4> QED
        BY <1>1, <4>1, <4>2
    <3> QED
      BY <3>1, <3>2
  <2>4. pc' \in [Actor -> Label] /\ faults' \in Nat
    BY <1>1, <2>1, GotoType, FaultsType
  <2> QED
    BY <1>4, <2>1, <2>3, <2>4
    DEF ListShownTags, TypeOK, registry, caches, nomad
<1>5. CASE ReadAllPins(h)
  <2>1. Private /\ (Works \/ Fails) /\ \E l \in Label : Goto(h, l)
    BY <1>2, <1>5 DEF ReadAllPins
  <2>2. loc' \in [Actor -> Local]
    BY <1>1, <1>5 DEF ReadAllPins, Local
  <2> QED
    BY <1>1, <2>1, <2>2, GotoType, PrivateType
<1>6. CASE LoadShownTags(h)
  <2>1. Private /\ Works /\ \E l \in Label : Goto(h, l)
    BY <1>2, <1>6 DEF LoadShownTags
  <2>2. loc' \in [Actor -> Local]
    BY <1>1, <1>6 DEF LoadShownTags, Local
  <2> QED
    BY <1>1, <2>1, <2>2, GotoType, PrivateType
<1>7. CASE ReadShownFlag(h)
  <2>1. Private /\ (Works \/ Fails) /\ \E l \in Label : Goto(h, l)
    BY <1>2, <1>7 DEF ReadShownFlag
  <2> QED
    BY <1>1, <1>7, <2>1, GotoType, PrivateType DEF ReadShownFlag
<1> QED
  BY <1>3, <1>4, <1>5, <1>6, <1>7 DEF Show

\* The steps of the environment, of the Nomad goroutines and of a restart.
LEMMA EnvironmentTypes ==
  ASSUME TypeOK,
         \/ \E h \in Handlers, r \in Requests : Receive(h, r)
         \/ \E t \in Tag, d \in Digest : Push(t, d)
         \/ \E t \in Tag : Remove(t)
         \/ Restart
  PROVE  TypeOK'
<1>1. /\ pc \in [Actor -> Label] /\ hub \in [Tag -> Digest \union {NoDigest}]
      /\ answer \in [Handlers -> {"none", "200", "400", "twice"}]
      /\ req \in [Handlers -> Request \union {NoRequest}]
      /\ changes \in Nat /\ crashes \in Nat /\ published \subseteq Tag
  BY DEF TypeOK, Hub
<1>2. CASE \E h \in Handlers, r \in Requests : Receive(h, r)
  <2>1. PICK h \in Handlers, r \in Requests : Receive(h, r)
    BY <1>2
  <2>2. pc' \in [Actor -> Label]
    BY <1>1, <2>1, GotoType DEF Receive, Label
  <2>3. req' \in [Handlers -> Request \union {NoRequest}]
    BY <1>1, <2>1, EnvironmentAssumption DEF Receive
  <2>4. answer' \in [Handlers -> {"none", "200", "400", "twice"}]
    BY <1>1, <2>1 DEF Receive
  <2> QED
    BY <2>1, <2>2, <2>3, <2>4
    DEF Receive, Works, TypeOK, registry, caches, nomad
<1>3. CASE \E t \in Tag, d \in Digest : Push(t, d)
  <2>1. PICK t \in Tag, d \in Digest : Push(t, d)
    BY <1>3
  <2>2. hub' \in [Tag -> Digest \union {NoDigest}]
    BY <1>1, <2>1 DEF Push
  <2>3. published' \subseteq Tag /\ changes' \in Nat
    BY <1>1, <2>1 DEF Push
  <2> QED
    BY <2>1, <2>2, <2>3 DEF Push, Works, TypeOK, Hub, caches, nomad, web
<1>4. CASE \E t \in Tag : Remove(t)
  <2>1. PICK t \in Tag : Remove(t)
    BY <1>4
  <2>2. hub' \in [Tag -> Digest \union {NoDigest}] /\ changes' \in Nat
    BY <1>1, <2>1 DEF Remove
  <2> QED
    BY <2>1, <2>2 DEF Remove, Works, TypeOK, Hub, caches, nomad, web
<1>5. CASE Restart
  <2>1. pc' \in [Actor -> Label]
    BY <1>5 DEF Restart, Label
  <2>2. NoLocals \in Local
    BY DEF NoLocals, Local, Return
  <2>3. loc' \in [Actor -> Local] /\ restarts' \in [ImageTag -> Nat]
    BY <1>5, <2>2 DEF Restart
  <2>4. crashes' \in Nat
    BY <1>1, <1>5 DEF Restart
  <2> QED
    BY <1>5, <2>1, <2>3, <2>4
    DEF Restart, RowAfterInitRows, Works, TypeOK, registry, web
<1> QED
  BY <1>2, <1>3, <1>4, <1>5

LEMMA TypeStep ==
  ASSUME TypeOK, Validated, [Next]_vars
  PROVE  TypeOK'
<1>1. CASE Arrival
  BY <1>1, ShouldDeployTypes, EnvironmentTypes DEF Arrival
<1>2. CASE \E a \in Actor : Step(a)
  BY <1>2, PinTypes, RefreshTypes, DeployTypes, ShouldDeployTypes, HandleTypes,
     ShowTypes
  DEF Step
<1>3. CASE \E t \in ImageTag : RegisterJob(t) \/ RegisterJobFails(t)
  BY <1>3, RegisterTypes
<1>4. CASE Restart
  BY <1>4, EnvironmentTypes
<1>5. CASE UNCHANGED vars
  BY <1>5 DEF TypeOK, vars, registry, caches, nomad, web
<1> QED
  BY <1>1, <1>2, <1>3, <1>4, <1>5 DEF Next, Progress

-----------------------------------------------------------------------------
(* What the actors carry *)

\* An actor goes to a label where its request must be validated only by a step
\* of its handler.
LEMMA ElsewhereLabels ==
  /\ Return \intersect Asks = {}
  /\ \A l \in PinSites : AfterPin[l] \notin Asks
  /\ \A a : Back(a) \notin Asks
BY Labels DEF Return, Asks, AfterPin, Back

\* The steps an actor takes outside Handle.
Common(a) ==
  \/ ReadPin(a) \/ ReadPinFails(a) \/ LatestFromCache(a)
  \/ RefreshCaches(a)
  \/ DeployJob(a) \/ DeployJobFails(a)
  \/ a = Worker /\ (Poll \/ ShouldDeploy)
  \/ a \in Handlers /\ Show(a)

LEMMA CommonElsewhere ==
  ASSUME TypeOK, NEW a \in Actor, Common(a)
  PROVE  UNCHANGED pc \/ \E l : l \notin Asks /\ Goto(a, l)
<1>1. loc[a].ret \in Return
  BY DEF TypeOK, Local
<1>2. PinError(a) \notin Asks
  BY <1>1, ElsewhereLabels DEF PinError, Asks
<1>3. CASE ReadPin(a) \/ ReadPinFails(a) \/ LatestFromCache(a)
  BY <1>2, <1>3, ElsewhereLabels DEF ReadPin, ReadPinFails, LatestFromCache
<1>4. loc[a].ret \notin Asks
  BY <1>1, ElsewhereLabels
<1>5. CASE RefreshCaches(a)
  BY <1>4, <1>5
  DEF RefreshCaches, ListTags, ListTagsFails, StoreTags, LoadDigest,
      CheckInUpdate, CheckInUpdateFails, FetchDigest, FetchDigestFails,
      SaveDigest, Asks
<1>6. CASE DeployJob(a) \/ DeployJobFails(a)
  BY <1>6 DEF DeployJob, DeployJobFails, AfterJob, Asks
<1>7. CASE a = Worker /\ (Poll \/ ShouldDeploy)
  BY <1>7
  DEF Poll, ShouldDeploy, ReadAutoFlag, AfterAutoFlag, GiveUp, ReadPinned,
      CheckInShouldDeploy, CheckInShouldDeployFails, ListForRelease,
      ListForReleaseFails, CompareReleases, Asks
<1>8. CASE Show(a)
  BY <1>8
  DEF Show, ReadShownPin, ListShownTags, ReadAllPins, LoadShownTags,
      ReadShownFlag, Refuse, Asks
<1> QED
  BY <1>3, <1>5, <1>6, <1>7, <1>8 DEF Common

\* So the requests of the handlers stay validated.
LEMMA ValidatedStays ==
  ASSUME TypeOK, Validated, NEW a \in Actor, NEW l, l \notin Asks, Goto(a, l),
         UNCHANGED req, published \subseteq published'
  PROVE  Validated'
<1> SUFFICES ASSUME NEW h \in Handlers, pc'[h] \in Asks
             PROVE  req'[h].pin \in published' \union {NoTag}
  BY DEF Validated
<1>1. h \in Actor /\ pc \in [Actor -> Label]
  BY DEF Actor, TypeOK
<1>2. pc[h] \in Asks
  BY <1>1 DEF Goto
<1> QED
  BY <1>2 DEF Validated

\* Whatever of its locals an actor rewrites, the others keep theirs.
LEMMA CarriesStays ==
  ASSUME TypeOK, \A b \in Actor : CarriesPublished(loc[b]),
         NEW a \in Actor, NEW r, CarriesPublished(r),
         loc' = [loc EXCEPT ![a] = r], UNCHANGED published
  PROVE  \A b \in Actor : CarriesPublished(loc[b])'
<1>1. \A b \in Actor : CarriesPublished(loc'[b])
  BY DEF TypeOK
<1> QED
  BY <1>1 DEF CarriesPublished

LEMMA LatestCachedIsPublished ==
  ASSUME TypeOK, PublishedOnly, FilterReleaseTags(cachedTags) # {}
  PROVE  GetLatestReleaseTag(cachedTags) \in published
BY LatestIsListed DEF TypeOK, PublishedOnly, FilterReleaseTags

LEMMA CommonCarries ==
  ASSUME IInv, NEW a \in Actor, Common(a)
  PROVE  \A b \in Actor : CarriesPublished(loc[b])'
<1> DEFINE me == loc[a]
<1>1. /\ loc \in [Actor -> Local] /\ me \in Local /\ CarriesPublished(me)
      /\ row.pinned \in published \union {NoTag}
  BY DEF IInv, Safe, TypeOK, PublishedOnly
<1>2. /\ CarriesPublished(NoLocals)
      /\ FilterSHATags(RegistryTags) \subseteq published
  BY DEF CarriesPublished, NoLocals, IInv, Safe, FilterSHATags
<1>3. UNCHANGED published
  BY DEF Common, ReadPin, ReadPinFails, LatestFromCache,
     RefreshCaches, ListTags, ListTagsFails, StoreTags, LoadDigest,
     CheckInUpdate, CheckInUpdateFails, FetchDigest, FetchDigestFails,
     SaveDigest, DeployJob, DeployJobFails,
     Poll, ShouldDeploy, ReadAutoFlag, GiveUp, ReadPinned,
     CheckInShouldDeploy, CheckInShouldDeployFails, ListForRelease,
     ListForReleaseFails, CompareReleases, Show, ReadShownPin, ListShownTags,
     ReadAllPins, LoadShownTags, ReadShownFlag, Refuse, Private, registry
<1>4. ASSUME NEW r, CarriesPublished(r), loc' = [loc EXCEPT ![a] = r]
      PROVE  \A b \in Actor : CarriesPublished(loc[b])'
  BY <1>3, <1>4, CarriesStays DEF IInv, Safe
<1>5. ASSUME UNCHANGED loc
      PROVE  \A b \in Actor : CarriesPublished(loc[b])'
  BY <1>3, <1>5 DEF IInv, Safe, CarriesPublished
<1>6. ASSUME NEW t \in published \union {NoTag}, NEW latest, NEW d, NEW ret
      PROVE  /\ CarriesPublished([me EXCEPT !.tag = t])
             /\ CarriesPublished([me EXCEPT !.latest = latest, !.tag = t])
             /\ CarriesPublished([me EXCEPT !.tag = t, !.digest = d])
             /\ CarriesPublished([me EXCEPT !.digest = d, !.tag = t])
             /\ CarriesPublished([me EXCEPT !.tag = t, !.ret = ret])
             /\ CarriesPublished([me EXCEPT !.ret = ret, !.tag = NoTag,
                                            !.digest = d, !.pin = NoTag])
             /\ CarriesPublished([me EXCEPT !.pin = t])
             /\ CarriesPublished([me EXCEPT !.digest = d])
             /\ CarriesPublished([me EXCEPT !.latest = latest])
             /\ CarriesPublished([me EXCEPT !.tags = {}])
             /\ CarriesPublished([me EXCEPT !.ret = ret, !.tags = {}])
             /\ CarriesPublished([me EXCEPT
                                    !.tags = FilterSHATags(RegistryTags)])
  BY <1>1, <1>2, <1>6 DEF CarriesPublished, Local
<1>7. CASE ReadPin(a) \/ ReadPinFails(a)
  <2>1. \/ \E t \in published \union {NoTag} :
             loc' = [loc EXCEPT ![a] = [me EXCEPT !.tag = t]]
        \/ loc' = [loc EXCEPT ![a] = [me EXCEPT !.latest = TRUE]]
    BY <1>1, <1>7 DEF ReadPin, ReadPinFails
  <2> QED
    BY <1>4, <1>6, <2>1
<1>8. CASE LatestFromCache(a)
  <2>1. PICK t \in published \union {NoTag} :
          loc' = [loc EXCEPT ![a] = [me EXCEPT !.latest = FALSE, !.tag = t]]
    BY <1>8, LatestCachedIsPublished DEF LatestFromCache, IInv, Safe
  <2> QED
    BY <1>4, <1>6, <2>1
<1>9. CASE RefreshCaches(a)
  <2>1. CASE ListTags(a)
    <3>1. loc' = [loc EXCEPT ![a] =
                    [me EXCEPT !.tags = FilterSHATags(RegistryTags)]]
      BY <2>1 DEF ListTags
    <3> QED
      BY <1>4, <1>6, <3>1
  <2>2. CASE ListTagsFails(a)
    BY <1>5, <2>2 DEF ListTagsFails
  <2>3. CASE StoreTags(a)
    <3>1. loc' = [loc EXCEPT ![a] = [me EXCEPT !.tags = {}]]
      BY <2>3 DEF StoreTags
    <3> QED
      BY <1>4, <1>6, <3>1
  <2>4. CASE LoadDigest(a) \/ SaveDigest(a)
    <3>1. PICK d : loc' = [loc EXCEPT ![a] = [me EXCEPT !.digest = d]]
      BY <2>4 DEF LoadDigest, SaveDigest
    <3> QED
      BY <1>4, <1>6, <3>1
  <2>5. CASE CheckInUpdate(a) \/ CheckInUpdateFails(a)
    <3>1. loc' = [loc EXCEPT ![a] =
                    [me EXCEPT !.tag = NoTag, !.digest = NoDigest]]
      BY <2>5 DEF CheckInUpdate, CheckInUpdateFails
    <3> QED
      BY <1>4, <1>6, <3>1
  <2>6. CASE FetchDigest(a)
    <3>1. loc' = [loc EXCEPT ![a] =
                    [me EXCEPT !.digest = DigestOf(me.tag), !.tag = NoTag]]
      BY <2>6 DEF FetchDigest
    <3> QED
      BY <1>4, <1>6, <3>1
  <2>7. CASE FetchDigestFails(a)
    <3>1. loc' = [loc EXCEPT ![a] = [me EXCEPT !.tag = NoTag]]
      BY <2>7 DEF FetchDigestFails
    <3> QED
      BY <1>4, <1>6, <3>1
  <2> QED
    BY <1>9, <2>1, <2>2, <2>3, <2>4, <2>5, <2>6, <2>7 DEF RefreshCaches
<1>10. CASE DeployJob(a) \/ DeployJobFails(a)
  <2>1. loc' = [loc EXCEPT ![a] = [me EXCEPT !.tag = NoTag, !.ret = Back(a)]]
    BY <1>10 DEF DeployJob, DeployJobFails
  <2> QED
    BY <1>4, <1>6, <2>1
<1>11. CASE a = Worker /\ (Poll \/ ShouldDeploy)
  <2>1. CASE Poll
    <3>1. loc' = [loc EXCEPT ![a] = NoLocals]
      BY <1>11, <2>1 DEF Poll
    <3> QED
      BY <1>2, <1>4, <3>1
  <2>2. CASE \/ ReadAutoFlag \/ GiveUp("should_auto") \/ GiveUp("should_pin")
             \/ CheckInShouldDeployFails \/ ListForReleaseFails
    BY <1>5, <2>2
    DEF ReadAutoFlag, GiveUp, CheckInShouldDeployFails, ListForReleaseFails
  <2>3. CASE ReadPinned
    <3>1. loc' = [loc EXCEPT ![a] = [me EXCEPT !.pin = row.pinned]]
      BY <1>11, <2>3 DEF ReadPinned
    <3> QED
      BY <1>1, <1>4, <1>6, <3>1
  <2>4. CASE CheckInShouldDeploy
    <3>1. PICK ret :
            loc' = [loc EXCEPT ![a].ret = ret, ![a].tag = NoTag,
                               ![a].digest = NoDigest, ![a].pin = NoTag]
      BY <1>11, <2>4 DEF CheckInShouldDeploy
    <3>2. loc' = [loc EXCEPT ![a] =
                    [me EXCEPT !.ret = ret, !.tag = NoTag,
                               !.digest = NoDigest, !.pin = NoTag]]
      BY <3>1
    <3> QED
      BY <1>4, <1>6, <3>2
  <2>5. CASE ListForRelease
    <3>1. loc' = [loc EXCEPT ![a] =
                    [me EXCEPT !.tags = FilterSHATags(RegistryTags)]]
      BY <1>11, <2>5 DEF ListForRelease
    <3> QED
      BY <1>4, <1>6, <3>1
  <2>6. CASE CompareReleases
    <3>1. PICK ret : loc' = [loc EXCEPT ![a] =
                               [me EXCEPT !.ret = ret, !.tags = {}]]
      BY <1>11, <2>6 DEF CompareReleases
    <3> QED
      BY <1>4, <1>6, <3>1
  <2> QED
    BY <1>11, <2>1, <2>2, <2>3, <2>4, <2>5, <2>6 DEF ShouldDeploy
<1>12. CASE Show(a)
  <2>1. ASSUME NEW S \in SUBSET published, FilterReleaseTags(S) # {}
        PROVE  GetLatestReleaseTag(S) \in published
    BY <2>1, LatestIsListed DEF IInv, TypeOK, FilterReleaseTags
  <2>2. CASE ReadShownPin(a)
    <3>1. \/ UNCHANGED loc
          \/ loc' = [loc EXCEPT ![a] =
                       [me EXCEPT !.pin = row.pinned, !.tag = row.pinned]]
      BY <2>2 DEF ReadShownPin
    <3>2. CarriesPublished([me EXCEPT !.pin = row.pinned, !.tag = row.pinned])
      BY <1>1 DEF CarriesPublished, Local
    <3> QED
      BY <1>4, <1>5, <3>1, <3>2
  <2>3. CASE ListShownTags(a)
    <3>1. RegistryTags \subseteq published
      BY DEF IInv, Safe
    <3>2. \/ UNCHANGED loc
          \/ \E S \in SUBSET published, t \in published :
               loc' = [loc EXCEPT ![a] = [me EXCEPT !.tags = S, !.tag = t]]
      <4>1. PICK S \in SUBSET published :
              \/ UNCHANGED loc
              \/ /\ FilterReleaseTags(S) # {}
                 /\ loc' = [loc EXCEPT ![a].tags = S,
                                       ![a].tag = GetLatestReleaseTag(S)]
        BY <2>3, <3>1 DEF ListShownTags
      <4>2. CASE UNCHANGED loc
        BY <4>2
      <4>3. CASE ~UNCHANGED loc
        <5>1. GetLatestReleaseTag(S) \in published
          BY <2>1, <4>1, <4>3
        <5>2. loc' = [loc EXCEPT ![a] =
                        [me EXCEPT !.tags = S, !.tag = GetLatestReleaseTag(S)]]
          BY <4>1, <4>3
        <5> QED
          BY <5>1, <5>2
      <4> QED
        BY <4>2, <4>3
    <3>3. ASSUME NEW S \in SUBSET published, NEW t \in published
          PROVE  CarriesPublished([me EXCEPT !.tags = S, !.tag = t])
      BY <1>1 DEF CarriesPublished, Local
    <3> QED
      BY <1>4, <1>5, <3>2, <3>3
  <2>4. CASE ReadAllPins(a)
    <3>1. \/ UNCHANGED loc
          \/ loc' = [loc EXCEPT ![a] = [me EXCEPT !.pin = row.pinned]]
      BY <2>4 DEF ReadAllPins
    <3> QED
      BY <1>1, <1>4, <1>5, <1>6, <3>1
  <2>5. CASE LoadShownTags(a)
    <3>1. loc' = [loc EXCEPT ![a] = [me EXCEPT !.tags = cachedTags]]
      BY <2>5 DEF LoadShownTags
    <3>2. CarriesPublished([me EXCEPT !.tags = cachedTags])
      BY <1>1 DEF IInv, Safe, PublishedOnly, CarriesPublished, Local
    <3> QED
      BY <1>4, <3>1, <3>2
  <2>6. CASE ReadShownFlag(a)
    BY <1>5, <2>6 DEF ReadShownFlag
  <2> QED
    BY <1>12, <2>2, <2>3, <2>4, <2>5, <2>6 DEF Show
<1> QED
  BY <1>7, <1>8, <1>9, <1>10, <1>11, <1>12 DEF Common

-----------------------------------------------------------------------------
(* Nothing that was never published *)

LEMMA SafeInit == Init => Safe
<1> SUFFICES ASSUME Init PROVE Safe
  OBVIOUS
<1>1. PublishedOnly
  <2>1. running.tag \in published \union {NoTag}
    <3>1. CASE FilterReleaseTags(RegistryTags) = {}
      BY <3>1 DEF Init
    <3>2. CASE FilterReleaseTags(RegistryTags) # {}
      <4>1. RegistryTags \in SUBSET Tag
        BY DEF RegistryTags
      <4>2. GetLatestReleaseTag(RegistryTags) \in RegistryTags
        BY <3>2, <4>1, LatestIsListed DEF FilterReleaseTags
      <4> QED
        BY <3>2, <4>2 DEF Init
    <3> QED
      BY <3>1, <3>2
  <2> QED
    BY <2>1 DEF Init, PublishedOnly, ImageTag
<1>2. Validated
  BY EnvironmentAssumption DEF Init, Validated, Asks, Actor
<1>3. \A a \in Actor : CarriesPublished(loc[a])
  BY DEF Init, CarriesPublished, NoLocals
<1> QED
  BY <1>1, <1>2, <1>3 DEF Init, Safe

\* An actor's steps outside Handle: a store of the tags cache takes a listing,
\* a deployment takes a tag the actor carries.
LEMMA CommonSafe ==
  ASSUME IInv, NEW a \in Actor, Common(a)
  PROVE  Safe'
<1>1. CarriesPublished(loc[a]) /\ restarts \in [ImageTag -> Nat]
  BY DEF IInv, Safe, TypeOK
<1>2. UNCHANGED <<hub, published, row, running, req>>
  BY DEF Common, ReadPin, ReadPinFails, LatestFromCache,
     RefreshCaches, ListTags, ListTagsFails, StoreTags, LoadDigest,
     CheckInUpdate, CheckInUpdateFails, FetchDigest, FetchDigestFails,
     SaveDigest, DeployJob, DeployJobFails,
     Poll, ShouldDeploy, ReadAutoFlag, GiveUp, ReadPinned,
     CheckInShouldDeploy, CheckInShouldDeployFails, ListForRelease,
     ListForReleaseFails, CompareReleases, Show, ReadShownPin, ListShownTags,
     ReadAllPins, LoadShownTags, ReadShownFlag, Refuse, Private, registry, nomad, web
<1>3. cachedTags' \in {cachedTags, loc[a].tags}
  BY DEF Common, ReadPin, ReadPinFails, LatestFromCache,
     RefreshCaches, ListTags, ListTagsFails, StoreTags, LoadDigest,
     CheckInUpdate, CheckInUpdateFails, FetchDigest, FetchDigestFails,
     SaveDigest, DeployJob, DeployJobFails,
     Poll, ShouldDeploy, ReadAutoFlag, GiveUp, ReadPinned,
     CheckInShouldDeploy, CheckInShouldDeployFails, ListForRelease,
     ListForReleaseFails, CompareReleases, Show, ReadShownPin, ListShownTags,
     ReadAllPins, LoadShownTags, ReadShownFlag, Refuse, Private, caches
<1>4. \/ UNCHANGED restarts
      \/ restarts' = [restarts EXCEPT ![loc[a].tag] = @ + 1]
  BY DEF Common, ReadPin, ReadPinFails, LatestFromCache,
     RefreshCaches, ListTags, ListTagsFails, StoreTags, LoadDigest,
     CheckInUpdate, CheckInUpdateFails, FetchDigest, FetchDigestFails,
     SaveDigest, DeployJob, DeployJobFails,
     Poll, ShouldDeploy, ReadAutoFlag, GiveUp, ReadPinned,
     CheckInShouldDeploy, CheckInShouldDeployFails, ListForRelease,
     ListForReleaseFails, CompareReleases, Show, ReadShownPin, ListShownTags,
     ReadAllPins, LoadShownTags, ReadShownFlag, Refuse, Private, nomad
<1>5. PublishedOnly'
  <2>1. \A t \in Tag : restarts'[t] > 0 => t \in published
    <3>1. \A t \in Tag : t # loc[a].tag => restarts'[t] = restarts[t]
      BY <1>1, <1>4 DEF ImageTag
    <3>2. loc[a].tag \in published \union {NoTag} /\ NoTag \notin Tag
      BY <1>1, TagAssumption DEF CarriesPublished
    <3> QED
      BY <1>4, <3>1, <3>2 DEF IInv, Safe, PublishedOnly
  <2> QED
    BY <1>1, <1>2, <1>3, <2>1 DEF IInv, Safe, PublishedOnly, CarriesPublished
<1>6. Validated'
  <2>1. CASE UNCHANGED pc
    BY <1>2, <2>1 DEF IInv, Safe, Validated
  <2>2. CASE \E l : l \notin Asks /\ Goto(a, l)
    BY <1>2, <2>2, ValidatedStays DEF IInv, Safe
  <2> QED
    BY <2>1, <2>2, CommonElsewhere DEF IInv, Safe
<1>7. (RegistryTags \subseteq published)'
  BY <1>2 DEF IInv, Safe, RegistryTags
<1> QED
  BY <1>5, <1>6, <1>7, CommonCarries DEF Safe

\* A handler's steps: only a validated pin, or one read earlier, is stored.
LEMMA HandleSafe ==
  ASSUME IInv, NEW h \in Handlers, Handle(h)
  PROVE  Safe'
<1> DEFINE me == loc[h]
<1>1. /\ h \in Actor /\ CarriesPublished(me) /\ me \in Local
      /\ row \in [pinned : Tag \union {NoTag}, auto : BOOLEAN]
      /\ row.pinned \in published \union {NoTag}
      /\ pc \in [Actor -> Label] /\ loc \in [Actor -> Local]
      /\ TypeOK /\ Validated
  BY DEF IInv, Safe, TypeOK, PublishedOnly, Actor
<1>2. UNCHANGED <<hub, published, cachedTags, running, restarts, req>>
  BY DEF Handle, ReadFlag, SetFlag, ValidatePin, ReadOriginal, ResetFlag,
     UpdatePin, UndoPin, Reply, Private, registry, caches, nomad, web
<1>3. row'.pinned \in published \union {NoTag}
  <2>1. CASE SetFlag(h) \/ ResetFlag(h)
    BY <1>1, <2>1 DEF SetFlag, ResetFlag, WriteFlag
  <2>2. CASE UpdatePin(h)
    <3>1. req[h].pin \in published \union {NoTag}
      BY <1>1, <2>2 DEF UpdatePin, Validated, Asks
    <3> QED
      BY <1>1, <2>2, <3>1 DEF UpdatePin
  <2>3. CASE UndoPin(h)
    BY <1>1, <2>3 DEF UndoPin, CarriesPublished
  <2>4. CASE ReadFlag(h) \/ ValidatePin(h) \/ ReadOriginal(h) \/ Reply(h)
    BY <1>1, <2>4 DEF ReadFlag, ValidatePin, ReadOriginal, Reply, Private
  <2> QED
    BY <2>1, <2>2, <2>3, <2>4 DEF Handle
<1>4. PublishedOnly'
  BY <1>2, <1>3 DEF IInv, Safe, PublishedOnly
<1>5. (RegistryTags \subseteq published)'
  BY <1>2 DEF IInv, Safe, RegistryTags
<1>6. Validated'
  <2>1. ASSUME NEW l, Goto(h, l), req[h].pin \in published \union {NoTag}
        PROVE  Validated'
    BY <1>1, <1>2, <2>1 DEF Validated, Goto, Actor
  <2>2. ASSUME NEW l, Goto(h, l), l \notin Asks
        PROVE  Validated'
    BY <1>1, <1>2, <2>2, ValidatedStays
  <2>3. CASE ReadFlag(h) \/ SetFlag(h)
    <3>1. AfterFlag(h) \notin Asks
      BY DEF AfterFlag, Asks
    <3> QED
      BY <2>2, <2>3, <3>1 DEF ReadFlag, SetFlag, Asks
  <2>4. CASE ValidatePin(h)
    <3>1. CASE IsTagDeployable(req[h].pin, RegistryTags) /\ Goto(h, "req_original")
      BY <2>1, <3>1 DEF IsTagDeployable, IInv, Safe
    <3>2. CASE Refuse(h)
      BY <2>2, <3>2 DEF Refuse, Asks
    <3> QED
      BY <2>4, <3>1, <3>2 DEF ValidatePin
  <2>5. CASE ReadOriginal(h)
    <3>1. req[h].pin \in published \union {NoTag}
      BY <1>1, <2>5 DEF ReadOriginal, Validated, Asks
    <3> QED
      BY <2>1, <2>5, <3>1 DEF ReadOriginal
  <2>6. CASE ResetFlag(h)
    <3>1. req[h].pin \in published \union {NoTag}
      BY <1>1, <2>6 DEF ResetFlag, Validated, Asks
    <3> QED
      BY <2>1, <2>6, <3>1 DEF ResetFlag
  <2>7. CASE UpdatePin(h)
    <3>1. req[h].pin \in published \union {NoTag}
      BY <1>1, <2>7 DEF UpdatePin, Validated, Asks
    <3> QED
      BY <2>1, <2>7, <3>1 DEF UpdatePin
  <2>8. CASE UndoPin(h) \/ Reply(h)
    BY <2>2, <2>8 DEF UndoPin, Reply, Refuse, Asks
  <2> QED
    BY <2>3, <2>4, <2>5, <2>6, <2>7, <2>8 DEF Handle
<1>7. \A b \in Actor : CarriesPublished(loc[b])'
  <2>1. ASSUME NEW r, CarriesPublished(r), loc' = [loc EXCEPT ![h] = r]
        PROVE  \A b \in Actor : CarriesPublished(loc[b])'
    BY <1>1, <1>2, <2>1, CarriesStays DEF IInv, Safe
  <2>2. CASE ReadOriginal(h)
    <3>1. PICK t \in published \union {NoTag} :
            loc' = [loc EXCEPT ![h] = [me EXCEPT !.pin = t]]
      BY <1>1, <2>2 DEF ReadOriginal
    <3>2. CarriesPublished([me EXCEPT !.pin = t])
      BY <1>1, <3>1 DEF CarriesPublished, Local
    <3> QED
      BY <2>1, <3>1, <3>2
  <2>3. CASE Reply(h)
    <3>1. CarriesPublished(NoLocals)
      BY DEF CarriesPublished, NoLocals
    <3> QED
      BY <2>1, <2>3, <3>1 DEF Reply
  <2>4. CASE UNCHANGED loc
    BY <1>2, <2>4 DEF IInv, Safe, CarriesPublished
  <2> QED
    BY <2>2, <2>3, <2>4
    DEF Handle, ReadFlag, SetFlag, ValidatePin, ResetFlag, UpdatePin, UndoPin
<1> QED
  BY <1>4, <1>5, <1>6, <1>7 DEF Safe

LEMMA RegisterSafe ==
  ASSUME IInv, NEW t \in ImageTag, RegisterJob(t) \/ RegisterJobFails(t)
  PROVE  Safe'
<1>1. UNCHANGED <<hub, published, row, cachedTags, pc, loc, req>>
  BY DEF RegisterJob, RegisterJobFails, registry, caches, web
<1>2. restarts \in [ImageTag -> Nat] /\ restarts[t] > 0
  BY DEF IInv, Safe, TypeOK, RegisterJob, RegisterJobFails, Pending
<1>3. \A u \in Tag : restarts'[u] > 0 => restarts[u] > 0
  BY <1>2 DEF RegisterJob, RegisterJobFails, ImageTag
<1>4. running'.tag \in published \union {NoTag}
  BY <1>2 DEF RegisterJob, RegisterJobFails, ImageTag, IInv, Safe, PublishedOnly
<1>5. PublishedOnly'
  BY <1>1, <1>3, <1>4 DEF IInv, Safe, PublishedOnly
<1>6. Validated' /\ (RegistryTags \subseteq published)'
      /\ \A b \in Actor : CarriesPublished(loc[b])'
  BY <1>1 DEF IInv, Safe, Validated, RegistryTags, CarriesPublished
<1> QED
  BY <1>5, <1>6 DEF Safe

LEMMA EnvironmentSafe ==
  ASSUME IInv,
         \/ \E h \in Handlers, r \in Requests : Receive(h, r)
         \/ \E t \in Tag, d \in Digest : Push(t, d)
         \/ \E t \in Tag : Remove(t)
         \/ Restart
  PROVE  Safe'
<1>1. /\ pc \in [Actor -> Label] /\ req \in [Handlers -> Request \union {NoRequest}]
      /\ hub \in [Tag -> Digest \union {NoDigest}]
      /\ NoDigest \notin Digest
  BY EnvironmentAssumption DEF IInv, Safe, TypeOK, Hub
<1>2. CASE \E h \in Handlers, r \in Requests : Receive(h, r)
  <2>1. PICK h \in Handlers, r \in Requests : Receive(h, r)
    BY <1>2
  <2>2. UNCHANGED <<hub, published, row, cachedTags, running, restarts, loc>>
    BY <2>1 DEF Receive, registry, caches, nomad
  <2>3. pc'[h] \in Asks => r.pin = NoTag
    <3>1. h \in Actor /\ r \in Request
      BY EnvironmentAssumption DEF Actor
    <3>2. CASE r.kind = "reset"
      BY <3>1, <3>2 DEF Request
    <3>3. CASE r.kind = "deploy"
      BY <1>1, <2>1, <3>1, <3>3 DEF Receive, Goto, Asks, Actor
    <3>4. CASE r.kind \in {"get", "summary"}
      <4>1. pc'[h] \in {"get_pin", "sum_pins"}
        BY <1>1, <2>1, <3>1, <3>4 DEF Receive, Goto
      <4> QED
        BY <4>1 DEF Asks
    <3> QED
      BY <2>1, <3>2, <3>3, <3>4 DEF Receive
  <2>4. \A g \in Handlers \ {h} : pc'[g] = pc[g] /\ req'[g] = req[g]
    BY <1>1, <2>1 DEF Receive, Goto, Actor
  <2>5. req'[h] = r
    BY <1>1, <2>1 DEF Receive
  <2>6. Validated'
    BY <2>2, <2>3, <2>4, <2>5 DEF IInv, Safe, Validated
  <2> QED
    BY <2>2, <2>6 DEF IInv, Safe, PublishedOnly, RegistryTags, CarriesPublished
<1>3. CASE \E t \in Tag, d \in Digest : Push(t, d)
  <2>1. PICK t \in Tag, d \in Digest : Push(t, d)
    BY <1>3
  <2>2. UNCHANGED <<row, cachedTags, running, restarts, pc, loc, req>>
    BY <2>1 DEF Push, caches, nomad, web
  <2>3. published' = published \union {t} /\ hub' = [hub EXCEPT ![t] = d]
    BY <2>1 DEF Push
  <2>4. (RegistryTags \subseteq published)'
    BY <1>1, <2>3 DEF IInv, Safe, RegistryTags
  <2>5. PublishedOnly' /\ Validated'
    BY <2>2, <2>3 DEF IInv, Safe, PublishedOnly, Validated
  <2>6. \A b \in Actor : CarriesPublished(loc[b])'
    BY <2>2, <2>3 DEF IInv, Safe, CarriesPublished
  <2> QED
    BY <2>4, <2>5, <2>6 DEF Safe
<1>4. CASE \E t \in Tag : Remove(t)
  <2>1. PICK t \in Tag : Remove(t)
    BY <1>4
  <2>2. UNCHANGED <<published, row, cachedTags, running, restarts, pc, loc, req>>
    BY <2>1 DEF Remove, caches, nomad, web
  <2>3. (RegistryTags \subseteq published)'
    BY <1>1, <2>1, <2>2 DEF Remove, IInv, Safe, RegistryTags
  <2>4. PublishedOnly' /\ Validated'
    BY <2>2 DEF IInv, Safe, PublishedOnly, Validated
  <2>5. \A b \in Actor : CarriesPublished(loc[b])'
    BY <2>2 DEF IInv, Safe, CarriesPublished
  <2> QED
    BY <2>3, <2>4, <2>5 DEF Safe
<1>5. CASE Restart
  <2>1. /\ UNCHANGED <<hub, published, row, running, req>>
        /\ cachedTags' = {} /\ restarts' = [t \in ImageTag |-> 0]
        /\ loc' = [a \in Actor |-> NoLocals]
    BY <1>5 DEF Restart, RowAfterInitRows, registry, web
  <2>2. \A h \in Handlers : pc'[h] \notin Asks
    BY <1>5, EnvironmentAssumption DEF Restart, Actor, Asks
  <2>3. PublishedOnly' /\ Validated'
    BY <2>1, <2>2 DEF IInv, Safe, PublishedOnly, Validated, ImageTag
  <2>4. \A b \in Actor : CarriesPublished(loc[b])'
    BY <2>1 DEF CarriesPublished, NoLocals
  <2> QED
    BY <2>1, <2>3, <2>4 DEF IInv, Safe, RegistryTags
<1> QED
  BY <1>2, <1>3, <1>4, <1>5

LEMMA SafeStep ==
  ASSUME IInv, [Next]_vars
  PROVE  Safe'
<1>1. CASE Poll
  BY <1>1, CommonSafe DEF Common, Actor
<1>2. CASE Arrival /\ ~Poll
  BY <1>2, EnvironmentSafe DEF Arrival
<1>3. CASE \E a \in Actor : Step(a)
  BY <1>3, CommonSafe, HandleSafe DEF Step, Common
<1>4. CASE \E t \in ImageTag : RegisterJob(t) \/ RegisterJobFails(t)
  BY <1>4, RegisterSafe
<1>5. CASE Restart
  BY <1>5, EnvironmentSafe
<1>6. CASE UNCHANGED vars
  BY <1>6
  DEF IInv, Safe, PublishedOnly, Validated, RegistryTags, CarriesPublished,
      vars, registry, caches, nomad, web
<1> QED
  BY <1>1, <1>2, <1>3, <1>4, <1>5, <1>6 DEF Next, Progress

LEMMA Invariance == Spec => []IInv
<1>1. Init => IInv
  BY TypeInit, SafeInit DEF IInv, Safe
<1>2. IInv /\ [Next]_vars => IInv'
  BY TypeStep, SafeStep DEF IInv, Safe
<1> QED
  BY <1>1, <1>2, PTL DEF Spec

-----------------------------------------------------------------------------
(* One actor's step and the others *)

LEMMA GotoMoves ==
  ASSUME TypeOK, NEW a \in Actor, NEW l, Goto(a, l)
  PROVE  pc'[a] = l /\ \A b \in Actor : b # a => pc'[b] = pc[b]
BY DEF TypeOK, Goto

LEMMA HandleMoves ==
  ASSUME TypeOK, NEW h \in Handlers, Handle(h)
  PROVE  \E l \in Label \ {"idle"} : Goto(h, l)
<1>1. /\ {"reply", "done", "req_list", "req_setflag", "req_original",
          "req_auto", "req_update", "req_undo", "deploy_pin"} \subseteq Label \ {"idle"}
      /\ AfterFlag(h) \in Label \ {"idle"} /\ UpdateError \in Label \ {"idle"}
  BY Labels DEF Label, AfterFlag, UpdateError
<1>2. CASE ReadFlag(h) \/ SetFlag(h) \/ ValidatePin(h)
  BY <1>1, <1>2 DEF ReadFlag, SetFlag, ValidatePin, Refuse
<1>3. CASE ReadOriginal(h)
  BY <1>1, <1>3 DEF ReadOriginal
<1>4. CASE ResetFlag(h) \/ UpdatePin(h) \/ UndoPin(h) \/ Reply(h)
  BY <1>1, <1>4 DEF ResetFlag, UpdatePin, UndoPin, Reply, Refuse
<1> QED
  BY <1>2, <1>3, <1>4 DEF Handle

\* A step of one actor leaves where the others are, what they carry and what
\* they have answered alone; no step but an arrival changes a request.
LEMMA StepIsOwn ==
  ASSUME TypeOK, NEW a \in Actor, Step(a) \/ (a = Worker /\ Poll)
  PROVE  /\ UNCHANGED req
         /\ \A b \in Actor : b # a => pc'[b] = pc[b] /\ loc'[b] = loc[b]
         /\ \A h \in Handlers : h # a => answer'[h] = answer[h]
<1>0. /\ pc \in [Actor -> Label] /\ loc \in [Actor -> Local] /\ Worker \in Actor
      /\ answer \in [Handlers -> {"none", "200", "400", "twice"}]
  BY DEF TypeOK, Actor
<1>1. CASE ReadPin(a) \/ ReadPinFails(a) \/ LatestFromCache(a)
  BY <1>0, <1>1 DEF ReadPin, ReadPinFails, LatestFromCache, Goto, Private, web
<1>2. CASE RefreshCaches(a)
  BY <1>0, <1>2
  DEF RefreshCaches, ListTags, ListTagsFails, StoreTags, LoadDigest,
      CheckInUpdate, CheckInUpdateFails, FetchDigest, FetchDigestFails,
      SaveDigest, Goto, Private, web
<1>3. CASE DeployJob(a) \/ DeployJobFails(a)
  BY <1>0, <1>3 DEF DeployJob, DeployJobFails, Goto, Private, web
<1>4. CASE a = Worker /\ (Poll \/ ShouldDeploy)
  BY <1>0, <1>4
  DEF Poll, ShouldDeploy, ReadAutoFlag, GiveUp, ReadPinned,
      CheckInShouldDeploy, CheckInShouldDeployFails, ListForRelease,
      ListForReleaseFails, CompareReleases, Goto, Private, web
<1>5. CASE a \in Handlers /\ Handle(a)
  <2>1. \A b \in Actor : b # a => pc'[b] = pc[b]
    BY <1>5, HandleMoves, GotoMoves
  <2>2. \/ UNCHANGED loc
        \/ \E r : loc' = [loc EXCEPT ![a] = r]
    <3>1. CASE ReadOriginal(a)
      <4>1. PICK t : loc' = [loc EXCEPT ![a].pin = t]
        BY <3>1 DEF ReadOriginal
      <4>2. loc' = [loc EXCEPT ![a] = [@ EXCEPT !.pin = t]]
        BY <4>1
      <4> QED
        BY <4>2
    <3>2. CASE ~ReadOriginal(a)
      BY <1>5, <3>2
      DEF Handle, ReadFlag, SetFlag, ValidatePin, ResetFlag, UpdatePin, UndoPin, Reply
    <3> QED
      BY <3>1, <3>2
  <2>3. UNCHANGED req
    BY <1>5
    DEF Handle, ReadFlag, SetFlag, ValidatePin, ReadOriginal, ResetFlag,
        UpdatePin, UndoPin, Reply, Private, web
  <2>4. UNCHANGED answer \/ \E s : answer' = [answer EXCEPT ![a] = s]
    BY <1>5
    DEF Handle, ReadFlag, SetFlag, ValidatePin, ReadOriginal, ResetFlag,
        UpdatePin, UndoPin, Reply, Refuse, Private, web
  <2> QED
    BY <1>0, <2>1, <2>2, <2>3, <2>4
<1>6. CASE a \in Handlers /\ Show(a)
  <2>1. CASE ReadShownPin(a) \/ ReadAllPins(a)
    BY <1>0, <2>1 DEF ReadShownPin, ReadAllPins, Goto, Private, web
  <2>2. CASE LoadShownTags(a) \/ ReadShownFlag(a)
    BY <1>0, <2>2 DEF LoadShownTags, ReadShownFlag, Goto, Private, web
  <2>3. CASE ListShownTags(a)
    <3>1. PICK S : \/ UNCHANGED loc
                   \/ loc' = [loc EXCEPT ![a].tags = S,
                                         ![a].tag = GetLatestReleaseTag(S)]
      BY <2>3 DEF ListShownTags
    <3>2. \E l : Goto(a, l)
      BY <2>3 DEF ListShownTags, Refuse
    <3>3. UNCHANGED req /\ (UNCHANGED answer \/ \E s : answer' = [answer EXCEPT ![a] = s])
      BY <2>3 DEF ListShownTags, Refuse
    <3> QED
      BY <1>0, <3>1, <3>2, <3>3, GotoMoves
  <2> QED
    BY <1>6, <2>1, <2>2, <2>3 DEF Show
<1> QED
  BY <1>1, <1>2, <1>3, <1>4, <1>5, <1>6 DEF Step

LEMMA CommonLeaves ==
  ASSUME NEW a \in Actor, Common(a)
  PROVE  UNCHANGED row
BY DEF Common, ReadPin, ReadPinFails, LatestFromCache,
   RefreshCaches, ListTags, ListTagsFails, StoreTags, LoadDigest,
   CheckInUpdate, CheckInUpdateFails, FetchDigest, FetchDigestFails,
   SaveDigest, DeployJob, DeployJobFails,
   Poll, ShouldDeploy, ReadAutoFlag, GiveUp, ReadPinned,
   CheckInShouldDeploy, CheckInShouldDeployFails, ListForRelease,
   ListForReleaseFails, CompareReleases, Show, ReadShownPin, ListShownTags,
   ReadAllPins, LoadShownTags, ReadShownFlag, Refuse, Private

-----------------------------------------------------------------------------
(* Theorems *)

\* However polls, requests, failures and restarts interleave, the caches, the
\* row, the job and every goroutine's locals hold values of their types: the
\* pin a handler stores is a tag or empty, never a field the request left out,
\* and no goroutine ever returns to a place its caller does not have.
THEOREM TypeCorrect == Spec => []TypeOK
BY Invariance, PTL DEF IInv

\* With any number of requests, tags and restarts, what is pinned, cached,
\* handed to Nomad or run is a tag the registry has held, or no tag at all.
THEOREM OnlyPublished == Spec => []PublishedOnly
BY Invariance, PTL DEF IInv, Safe

===============================================================================
