------------------------------ MODULE MCServices ------------------------------
(* Values for the constants of Services. *)
EXTENDS Services

TwoRepos == <<"a", "b">>

\* One repository is new to the configuration.
OneIsNew == {[repo \in Repo |-> IF repo = "a" THEN "set" ELSE NoRow]}

\* One token is longer than the others.
OneLonger == [t \in Token |-> IF t = MaxToken THEN 2 ELSE 1]
===============================================================================
