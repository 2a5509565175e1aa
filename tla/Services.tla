------------------------------- MODULE Services -------------------------------
(***************************************************************************)
(* The process: main and SetUpClients, which connect to Postgres, the      *)
(* registries and Docker Hub in turn and panic when one is not there, and  *)
(* then the Docker Hub calls of the workers and handlers. The process may  *)
(* exit at any moment and be started again; the rows stay.                 *)
(***************************************************************************)
EXTENDS DockerHub, Sequences

CONSTANTS
  Repos,        \* watched_repositories, in the order of the configuration
  CreateSchema, \* create_database_schema
  InitialRows   \* what the table may hold before the first start

Repo == {Repos[n] : n \in DOMAIN Repos}
NoRow == "no row"
Row == {"initial", "set"}   \* initial: no pin, automatic deployment on

ASSUME ServicesAssumption ==
  /\ Repos \in Seq(STRING) /\ Repos # <<>>
  /\ Worker \subseteq Repo
  /\ CreateSchema \in BOOLEAN
  /\ InitialRows \subseteq [Repo -> Row \union {NoRow}]

VARIABLES
  phase,        \* how far the process is: "down", a step of SetUpClients, "up"
  next,         \* the repository a loop is at
  tries,        \* the pings of Postgres that failed
  rows,         \* the table, by repository
  exit,         \* how the last process ended: "", "panic", "stopped", "crash"
  failed        \* history: whether a service failed the last start

processVars == <<phase, next, tries, exit, failed>>
vars == <<processVars, rows, hubVars, tokenless, faults>>

Init ==
  /\ HubInit
  /\ faults = 0
  /\ phase = "down"
  /\ next = 1
  /\ tries = 0
  /\ rows \in InitialRows
  /\ exit = ""
  /\ failed = FALSE
  /\ tokenless = FALSE

-----------------------------------------------------------------------------
(* Starting *)

\* A process ends, and its memory with it; Docker Hub's tokens stay valid.
Exit(how) ==
  /\ phase' = "down"
  /\ exit' = how
  /\ token' = Free
  /\ at' = [c \in Caller |-> "idle"]
  /\ todo' = [c \in Caller |-> {}]
  /\ header' = [c \in Caller |-> Free]
  /\ jwt' = [c \in Caller |-> NoToken]
  /\ disturbed' = [c \in Caller |-> FALSE]
  /\ UNCHANGED <<next, tries, tokenless, valid, expiries>>

\* Somebody starts the process. The schema is looked after if so configured.
Start ==
  /\ phase = "down"
  /\ phase' = IF CreateSchema THEN "postgres" ELSE "registry"
  /\ next' = 1
  /\ tries' = 0
  /\ failed' = FALSE
  /\ tokenless' = FALSE
  /\ exit' = ""
  /\ UNCHANGED <<rows, hubVars, faults>>

\* A step of SetUpClients that went well leads to the next.
Goto(label) ==
  /\ phase' = label
  /\ next' = 1
  /\ tries' = 0
  /\ UNCHANGED <<exit, failed, tokenless, hubVars, faults>>

\* A service fails the start.
Outage ==
  /\ faults < MaxFaults
  /\ faults' = faults + 1
  /\ failed' = TRUE

PingPostgres == phase = "postgres" /\ Goto("tables") /\ UNCHANGED rows

\* Mutation: the loop ends while there is an error.
NoRetry == FALSE

\* Mutation: the loop has lost its bound.
AlwaysTries == TRUE

\* After the first ping three more are tried.
TriesAgain == tries < 3

PingPostgresFails ==
  /\ phase = "postgres"
  /\ IF TriesAgain
     THEN tries' = tries + 1 /\ UNCHANGED <<phase, next, exit, tokenless, hubVars>>
     ELSE Exit("panic")
  /\ UNCHANGED <<rows, failed, faults>>

\* CREATE TABLE IF NOT EXISTS.
CreateTables == phase = "tables" /\ Goto("rows") /\ UNCHANGED rows

CreateTablesFails == phase = "tables" /\ Outage /\ Exit("panic") /\ UNCHANGED rows

\* Mutation: DO UPDATE instead of DO NOTHING.
InsertOrReset(row) == "initial"

InsertRow(row) == IF row = NoRow THEN "initial" ELSE row

\* Mutation: no ON CONFLICT, so that a second insertion is an error.
OnlyIfAbsent(row) == row = NoRow

MayInsert(row) == TRUE

Advance(label) ==
  /\ IF next = Len(Repos) THEN phase' = label /\ next' = 1
                          ELSE next' = next + 1 /\ UNCHANGED phase
  /\ UNCHANGED <<exit, tries, tokenless, hubVars>>

\* initRows, a transaction per repository; one that the table refuses ends the
\* start.
InitRow ==
  LET repo == Repos[next]
  IN  /\ phase = "rows"
      /\ IF MayInsert(rows[repo])
         THEN /\ rows' = [rows EXCEPT ![repo] = InsertRow(@)]
              /\ Advance("registry")
         ELSE Exit("panic") /\ UNCHANGED rows
      /\ UNCHANGED <<failed, faults>>

\* Mutation: the error of a row is dropped.
NextRow == Advance("registry")

RowError == Exit("panic")

\* The transaction fails, or was committed but its answer is lost.
InitRowFails ==
  LET repo == Repos[next]
  IN  /\ phase = "rows"
      /\ Outage
      /\ rows' \in {rows, [rows EXCEPT ![repo] = InsertRow(@)]}
      /\ RowError

\* registry.New pings the registry of each repository.
PingRegistry ==
  /\ phase = "registry"
  /\ Advance("dockerhub")
  /\ UNCHANGED <<rows, failed, faults>>

PingRegistryFails ==
  phase = "registry" /\ Outage /\ Exit("panic") /\ UNCHANGED rows

\* The login of InitializeDockerhubApi; then the workers start.
FirstLogin ==
  /\ phase = "dockerhub"
  /\ phase' = "up"
  /\ \E t \in Token \union {NoToken} : Authenticated(t) /\ token' = String(t)
  /\ UNCHANGED <<rows, next, tries, exit, failed>>
  /\ UNCHANGED <<at, todo, header, jwt, disturbed, expiries>>

\* A failed login is logged, and the client has an empty token.
FirstLoginFails ==
  /\ phase = "dockerhub"
  /\ faults < MaxFaults
  /\ faults' = faults + 1
  /\ phase' = "up"
  /\ tokenless' = TRUE
  /\ UNCHANGED <<rows, next, tries, exit, failed, hubVars>>

SetUp ==
  \/ PingPostgres \/ CreateTables \/ InitRow
  \/ PingRegistry \/ FirstLogin
  \/ PingPostgresFails \/ CreateTablesFails \/ InitRowFails
  \/ PingRegistryFails \/ FirstLoginFails

-----------------------------------------------------------------------------
(* Serving *)

serving == <<processVars, rows>>

\* Workers and handlers use Docker Hub.
Use(c) == phase = "up" /\ Call(c) /\ UNCHANGED serving

Continue(c) == phase = "up" /\ GoesOn(c) /\ UNCHANGED serving

UseFails(c) == phase = "up" /\ CallFails(c) /\ UNCHANGED serving

\* A panic in a worker's goroutine ends the process.
Crash(c) ==
  /\ phase = "up"
  /\ c \in Worker
  /\ at[c] \in {"send", "resend"}
  /\ IsNil(header[c])
  /\ Exit("crash")
  /\ UNCHANGED <<rows, failed, faults>>

\* A request changes the row of its repository; UPDATE does not add one.
UpdateRow(repo) ==
  /\ phase = "up"
  /\ rows[repo] # NoRow
  /\ rows' = [rows EXCEPT ![repo] = "set"]
  /\ UNCHANGED <<processVars, hubVars, tokenless, faults>>

TokenExpires == Expire /\ UNCHANGED serving

Stop ==
  /\ phase # "down"
  /\ faults < MaxFaults
  /\ faults' = faults + 1
  /\ Exit("stopped")
  /\ UNCHANGED <<rows, failed>>

Next ==
  \/ Start \/ SetUp \/ TokenExpires \/ Stop
  \/ \E c \in Caller : Use(c) \/ Continue(c) \/ UseFails(c) \/ Crash(c)
  \/ \E repo \in Repo : UpdateRow(repo)

Spec == Init /\ [][Next]_vars

\* SetUpClients goes on, and so do calls, since goroutines are scheduled and
\* Docker Hub answers; a worker's loop calls again and again. Nobody need start
\* the process, and requests need not come.
FairSpec ==
  /\ Spec
  /\ WF_vars(SetUp)
  /\ \A c \in Caller : WF_vars(Continue(c) \/ Crash(c))
  /\ \A c \in Worker : WF_vars(Use(c))

-----------------------------------------------------------------------------
(* Properties *)

TypeOK ==
  /\ HubTypeOK
  /\ faults \in 0..MaxFaults
  /\ phase \in {"down", "postgres", "tables", "rows", "registry", "dockerhub", "up"}
  /\ next \in 1..Len(Repos)
  /\ tries \in 0..3
  /\ rows \in [Repo -> Row \union {NoRow}]
  /\ exit \in {"", "panic", "stopped", "crash"}
  /\ failed \in BOOLEAN

\* No worker runs without a row to read its pin and its flag from, wherever an
\* earlier start broke off (initRows): UPDATE would change nothing and say so to
\* nobody.
RowPerWorker == phase = "up" /\ CreateSchema => \A repo \in Repo : rows[repo] # NoRow

\* Once there, a row is changed by requests alone: starts leave pins and flags as
\* they were (InsertRowSql).
RowsSurviveStarts ==
  [][\A repo \in Repo :
       rows[repo] # NoRow /\ rows'[repo] # rows[repo] => phase = "up"]_vars

\* A start fails only when a service fails it, Postgres after four pings: never
\* for what an earlier start left behind (InitializePostgresClient).
StartFailsWithExcuse == exit = "panic" => failed \/ tries = 3

\* A worker dies of a torn token only if a login of its process gave no token:
\* from one token to the next, the string is never empty (api.token).
CrashOnlyWithoutToken == exit = "crash" => tokenless

\* A renewed token is refused only if it expired, or another caller was storing
\* its own, or Docker Hub's answer to the login could not be read.
RefusedOnlyIfDisturbed == \A c \in Caller : at[c] = "refused" => disturbed[c]

\* Callers that renew the token without a lock may tear each other's for ever.
\* Once renewals no longer overlap, each worker is answered again and again,
\* whatever earlier ones left behind, but for one thing that may last: bytes with
\* the length of a longer token, which nobody is told to replace (api.token).
RenewsAlone == \A c, d \in Caller :
  c # d => at[c] \notin {"login"} \union Renewed \/ at[d] \notin {"login"} \union Renewed

HubAnswersAgain ==
  <>[]RenewsAlone =>
    \/ <>[]Overruns(token)
    \/ \A c \in Worker : []<>(phase = "down" \/ at[c] = "answered")
===============================================================================
