----------------------------- MODULE WatcherClaims -----------------------------
(***************************************************************************)
(* What the README, or the code's own messages, say of the program and the *)
(* program does not do. Each run of this module checks one claim under one *)
(* specification and shows how the code breaks it.                         *)
(***************************************************************************)
EXTENDS WatcherQuiet

Populating ==
  pc[Worker] \in {"populate_list", "populate_store", "populate_pin",
                 "populate_fetch", "populate_save"}

\* Anything may happen at any time, once PopulateCaches has returned.
FreeNext ==
  /\ Next
  /\ Populating => changes' = changes
  /\ UNCHANGED <<owed, launches>>

FreeSpec == QInit /\ [][FreeNext]_qvars /\ Fairness

-----------------------------------------------------------------------------
(* Claims *)

\* Releases are tracked, and t is the latest.
Tracked(t) ==
  /\ row = [pinned |-> NoTag, auto |-> TRUE]
  /\ t \in FilterReleaseTags(RegistryTags)
  /\ t = GetLatestReleaseTag(RegistryTags)

\* README, on the empty pinned_tag: a new tag v1.0.0 will be autodeployed if
\* the current deployed tag is v0.9.0. ShouldDeploy compares one listing with
\* the tags cache and updateCaches stores another.
NewReleaseIsDeployed ==
  \A t \in Release : Tracked(t) ~> running.tag = t \/ ~Tracked(t)

\* README, on POST /tags/$REPO_NAME: to update the pinned_tag and deploy it. A
\* pin that was accepted is what the job runs, in the end, unless another pin
\* takes its place. The last RestartNomadJob to reach Nomad wins.
AcceptedPinRuns ==
  \A h \in Handlers :
    answer[h] = "200" /\ req[h].pin \in Tag /\ row.pinned = req[h].pin
      ~> running.tag = req[h].pin \/ row.pinned # req[h].pin

\* GetLatestReleaseTag answers "No valid tag" where there is no release, and
\* DeployPinnedTag gives up when it is given an error ("Couldn't fetch pinned
\* tag while deploying pinned tag"): no job is given an image without a tag.
\* GetFormattedPinnedTag loses that error.
EveryImageHasATag == restarts[NoTag] = 0

==============================================================================
