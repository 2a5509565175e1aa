------------------------------ MODULE MCWatcher ------------------------------
(* WatcherHistory with values for its constants. *)
EXTENDS WatcherHistory, MCValues
==============================================================================
