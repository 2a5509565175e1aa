------------------------------- MODULE MCQuiet -------------------------------
(* WatcherQuiet, WatcherLive and WatcherClaims with values for their
   constants. *)
EXTENDS WatcherLive, WatcherClaims, MCValues
==============================================================================
