------------------------------- MODULE MCValues -------------------------------
(* Values for the constants of Watcher, shared by its configurations. *)
EXTENDS Watcher

\* Three releases, a branch tag and a commit tag, of which each configuration
\* takes some.
MCMajor == [t \in Release |-> IF t = "v0" THEN 0 ELSE 1]
MCMinor == [t \in Release |-> IF t = "v0" THEN 999 ELSE 0]
MCPatch == [t \in Release |-> IF t = "v2" THEN 100 ELSE 99]
MCSortKey == [t \in Tag |-> CASE t = "abc" -> 0 [] t = "test" -> 1
                              [] t = "v0" -> 2 [] t = "v1" -> 3 [] OTHER -> 4]

\* One release, the branch tag and the commit tag, under one digest.
OneRelease == {[t \in Tag |-> IF t \in {"v0", "v2"} THEN NoDigest ELSE "d1"]}

\* No release: the branch tag alone.
OnlyABranch == {[t \in Tag |-> IF t = "test" THEN "d1" ELSE NoDigest]}

NewRelease == {<<"v2", "d2">>}
ReleaseOrBranch == {<<"v2", "d2">>, <<"test", "d2">>}

\* An older and a newer release, the release in use overwritten, the branch
\* tag overwritten, and either of the two given its first image again; never
\* the commit tag.
AnyPush == (Tag \ {"abc"}) \X {"d2"} \union {"v1", "test"} \X {"d1"}

Deploy(pin, auto) == [kind |-> "deploy", pin |-> pin, auto |-> auto]
Get == [kind |-> "get", pin |-> Absent, auto |-> "absent"]
Summary == [kind |-> "summary", pin |-> Absent, auto |-> "absent"]
Reset == [kind |-> "reset", pin |-> NoTag, auto |-> "absent"]

\* A request of each shape, the refused one included.
AnyRequest ==
  {Reset, Deploy("test", "absent"), Deploy("v2", "absent"),
   Deploy(NoTag, "on"), Deploy(Absent, "off"), Deploy(Absent, "absent"),
   Get, Summary}

Unpin == {Deploy(NoTag, "absent")}

QuietRequests ==
  {Reset, Deploy("test", "absent"), Deploy("abc", "off"),
   Deploy(NoTag, "on"), Deploy(Absent, "off")}

LiveRequests ==
  {Reset, Deploy("test", "off"), Deploy("v2", "absent"), Deploy(Absent, "off")}

TwoPins == {Deploy("test", "absent"), Deploy("v1", "absent")}

NoRequests == {}
===============================================================================
