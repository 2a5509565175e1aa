---------------------------- MODULE WatcherHistory ----------------------------
(***************************************************************************)
(* Watcher with the history its properties speak of: what the row and the  *)
(* tags cache have held since a poll or a request began.                   *)
(***************************************************************************)
EXTENDS Watcher

VARIABLES
  stored,    \* stored[h]: the row held h's pin at some time since h began
  enabled,   \* enabled[a]: auto_deploy was on at some time since a began
  steady     \* steady[h]: neither the row nor the tags cache nor the registry
             \* has changed since h began

history == <<stored, enabled, steady>>
hvars == <<vars, history>>

HInit ==
  /\ Init
  /\ stored = [h \in Handlers |-> FALSE]
  /\ enabled = [a \in Actor |-> FALSE]
  /\ steady = [h \in Handlers |-> FALSE]

\* An actor between two polls or requests has begun nothing.
AtEase == {"sleep", "idle"}

Remember ==
  /\ stored' = [h \in Handlers |->
       pc'[h] # "idle" /\ (stored[h] \/ row'.pinned = req'[h].pin)]
  /\ enabled' = [a \in Actor |->
       pc'[a] \notin AtEase /\ (enabled[a] \/ row'.auto)]
  /\ steady' = [h \in Handlers |->
       /\ pc'[h] \notin {"idle", "done"}
       /\ \/ pc[h] = "idle"
          \/ steady[h] /\ UNCHANGED <<row, cachedTags, hub>>]

HNext == Next /\ Remember

HSpec == HInit /\ [][HNext]_hvars

-----------------------------------------------------------------------------
(* Properties *)

\* A deploy request for a tag that is answered 200 has had its tag in the row
\* while it was served: no failed read or write of DeployTagHandler, and no
\* other request, makes it report a pin that was never stored.
AcceptedPinWasStored ==
  \A h \in Handlers :
    answer[h] = "200" /\ req[h].pin \in Tag => stored[h]

\* The worker deploys nothing in a poll during which auto_deploy was off from
\* beginning to end: ShouldDeploy reads the flag first, and a poll that finds
\* it off only refreshes the caches.
NoAutoDeployWhileOff ==
  pc[Worker] \in {"run_original", "run_deploy", "deploy_pin", "deploy_job"}
    => enabled[Worker]

\* GetTagHandler and RepoSummaryHandler put together what they show from
\* several reads. If nothing was changed under them, the pin's value is the pin;
\* without one, it is the release of the tags shown that no other of them
\* exceeds, or empty if there is none.
Showing == {h \in Handlers :
  \/ pc[h] = "sum_reply"
  \/ pc[h] = "reply" /\ req[h].kind = "get"}

UndisturbedView ==
  \A h \in Showing : steady[h] =>
    IF row.pinned # NoTag
    THEN loc[h].pin = row.pinned /\ loc[h].tag = row.pinned
    ELSE \/ /\ loc[h].tag \in FilterReleaseTags(loc[h].tags)
            /\ \A t \in FilterReleaseTags(loc[h].tags) :
                 ~Older(loc[h].tag, t)
         \/ /\ loc[h].tag = NoTag
            /\ FilterReleaseTags(loc[h].tags) = {}

==============================================================================
