------------------------------ MODULE WatcherLive ------------------------------
(***************************************************************************)
(* What the watcher does in the end, however polls, requests, changes of   *)
(* the registry, failed calls and restarts interleave, once PopulateCaches *)
(* has succeeded.                                                          *)
(***************************************************************************)
EXTENDS WatcherQuiet

\* Where Docker Hub refuses to look up the empty digest a failed PopulateCaches is
\* never made good: every later poll ends at that lookup.
AtStartup == {"populate_list", "populate_pin", "populate_fetch"}

LNext ==
  /\ Next
  /\ faults' > faults => pc[Worker] \notin AtStartup
  /\ UNCHANGED <<owed, launches>>

LSpec == QInit /\ [][LNext]_qvars /\ Fairness

-----------------------------------------------------------------------------
(* Properties *)

\* Once changes, requests, failures and restarts are over, the caches come to
\* hold what the registry holds and stay so: a handler that stores a listing or
\* a digest fetched long ago, over what a poll has stored since, is corrected
\* by a later poll, and so is a refresh that failed half-way.
CachesCatchUp == <>[]CachesCurrent

\* Every request is answered, 200 or 400, unless a restart loses it: no path
\* of a handler waits for a poll, for another request or for the job.
RequestsAnswered ==
  \A h \in Handlers :
    pc[h] \notin {"idle", "done"} ~> answer[h] # "none" \/ crashes > 0

==============================================================================
