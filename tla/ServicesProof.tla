----------------------------- MODULE ServicesProof -----------------------------
(***************************************************************************)
(* Services for any repositories, callers, tokens and bounds: what starts  *)
(* leave in the table, what may end the process, when a renewed token is   *)
(* refused.                                                                *)
(***************************************************************************)
EXTENDS Services, DockerHubProof

AllIdle == \A c \in Caller : at[c] = "idle"

\* The part of TypeOK that the process adds to that of the Docker Hub client.
ProcessTypeOK ==
  /\ faults \in 0..MaxFaults
  /\ phase \in {"down", "postgres", "tables", "rows", "registry", "dockerhub", "up"}
  /\ next \in 1..Len(Repos)
  /\ tries \in 0..3
  /\ rows \in [Repo -> Row \union {NoRow}]
  /\ exit \in {"", "panic", "stopped", "crash"}
  /\ failed \in BOOLEAN

\* Only a process that is up calls Docker Hub, with a token no caller can find
\* empty, unless one of its logins gave none.
TokenInv ==
  /\ phase # "up" => AllIdle
  /\ phase = "up" => Handed

\* Rows are made one after the other before anything else is connected to.
RowInv ==
  CreateSchema =>
    /\ phase \in {"registry", "dockerhub", "up"} => \A repo \in Repo : rows[repo] # NoRow
    /\ phase = "rows" => \A n \in 1..(next - 1) : rows[Repos[n]] # NoRow

\* A process that has ended stays as it was.
ExitInv ==
  /\ exit # "" => phase = "down"
  /\ exit = "panic" => failed \/ tries = 3
  /\ exit = "crash" => tokenless

IInv == HubInv /\ ProcessTypeOK /\ TokenInv /\ RowInv /\ ExitInv

USE ServicesAssumption, DockerHubAssumption

-----------------------------------------------------------------------------
LEMMA Places == /\ Len(Repos) \in Nat /\ 1 \in 1..Len(Repos)
                /\ \A n \in 1..Len(Repos) : Repos[n] \in Repo
                /\ \A repo \in Repo : \E n \in 1..Len(Repos) : repo = Repos[n]
BY DEF Repo

\* The counters that a step may set, or count up to their bounds.
LEMMA Bounds ==
  /\ 0 \in 0..3 /\ \A n \in 0..3 : IF n < 3 THEN n + 1 \in 0..3 ELSE n = 3
  /\ 0 \in 0..MaxFaults /\ \A n \in 0..MaxFaults : n < MaxFaults => n + 1 \in 0..MaxFaults
  /\ \A n \in 1..Len(Repos) : n # Len(Repos) => n + 1 \in 1..Len(Repos)
<1>1. 0 \in 0..3 /\ \A n \in 0..3 : IF n < 3 THEN n + 1 \in 0..3 ELSE n = 3
  OBVIOUS
<1>2. 0 \in 0..MaxFaults /\ \A n \in 0..MaxFaults : n < MaxFaults => n + 1 \in 0..MaxFaults
  OBVIOUS
<1>3. \A n \in 1..Len(Repos) : n # Len(Repos) => n + 1 \in 1..Len(Repos)
  BY Places
<1> QED
  BY <1>1, <1>2, <1>3

LEMMA RowKept ==
  ASSUME NEW row \in Row \union {NoRow}
  PROVE  /\ InsertRow(row) \in Row /\ InsertRow(row) # NoRow
         /\ row # NoRow => InsertRow(row) = row
BY DEF InsertRow, Row, NoRow

\* A process that ends leaves nothing behind that a caller could trip over.
LEMMA ExitSafe ==
  ASSUME IInv, NEW how \in {"panic", "stopped", "crash"}, Exit(how)
  PROVE  /\ HubInv' /\ AllIdle'
         /\ phase' = "down" /\ exit' = how
         /\ UNCHANGED <<next, tries, tokenless>>
<1>1. \A c \in Caller : at'[c] = "idle"
  BY DEF Exit
<1>2. HubTypeOK'
  BY FreeTyped DEF Exit, IInv, HubInv, HubTypeOK, Ended, NoToken
<1>3. HubInv'
  BY <1>1, <1>2 DEF HubInv, OwnToken
<1> QED
  BY <1>1, <1>3 DEF Exit, AllIdle

LEMMA EndSafe ==
  ASSUME IInv, NEW how \in {"panic", "stopped", "crash"}, Exit(how), ProcessTypeOK',
         how = "panic" => failed' \/ tries = 3,
         how = "crash" => tokenless
  PROVE  IInv'
<1>1. /\ HubInv' /\ AllIdle' /\ phase' = "down" /\ exit' = how
      /\ UNCHANGED <<next, tries, tokenless>>
  BY ExitSafe
<1> QED
  BY <1>1 DEF IInv, TokenInv, RowInv, ExitInv

\* Steps of a start leave the Docker Hub client alone.
LEMMA HubRests == HubInv /\ UNCHANGED <<hubVars>> /\ tokenless' \in BOOLEAN => HubInv'
BY DEF HubInv, HubTypeOK, OwnToken, Loaded, hubVars

LEMMA StartStepSafe ==
  ASSUME IInv, UNCHANGED <<hubVars, tokenless>>, UNCHANGED exit, ProcessTypeOK',
         phase \notin {"down", "up"}, phase' # "up", RowInv'
  PROVE  IInv'
<1>1. HubInv'
  BY HubRests DEF IInv, HubInv, HubTypeOK
<1>2. TokenInv'
  BY DEF IInv, TokenInv, AllIdle, hubVars
<1>3. exit = ""
  BY DEF IInv, ExitInv
<1>4. ExitInv'
  BY <1>3 DEF ExitInv
<1> QED
  BY <1>1, <1>2, <1>4 DEF IInv

LEMMA GotoSafe ==
  ASSUME IInv, NEW label \in {"tables", "rows"}, phase \in {"postgres", "tables"},
         Goto(label), UNCHANGED rows
  PROVE  IInv'
<1>1. ProcessTypeOK'
  BY Places, Bounds DEF Goto, IInv, ProcessTypeOK
<1>2. RowInv'
  BY DEF Goto, RowInv
<1> QED
  BY <1>1, <1>2, StartStepSafe DEF Goto

LEMMA StartSafe == ASSUME IInv, Start PROVE IInv'
<1>1. HubInv'
  BY HubRests DEF IInv, Start
<1>2. ProcessTypeOK'
  BY Places, Bounds DEF Start, IInv, ProcessTypeOK
<1>3. TokenInv'
  BY DEF Start, IInv, TokenInv, AllIdle, hubVars
<1>4. RowInv' /\ ExitInv'
  BY DEF Start, RowInv, ExitInv
<1> QED
  BY <1>1, <1>2, <1>3, <1>4 DEF IInv

LEMMA PingPostgresFailsSafe == ASSUME IInv, PingPostgresFails PROVE IInv'
<1>1. CASE TriesAgain
  <2>1. /\ tries' = tries + 1 /\ tries < 3
        /\ UNCHANGED <<phase, next, exit, tokenless, rows, failed, faults>>
        /\ UNCHANGED <<hubVars, tokenless>>
        /\ phase = "postgres"
    BY <1>1 DEF PingPostgresFails, TriesAgain
  <2>2. ProcessTypeOK'
    BY <2>1, Bounds DEF IInv, ProcessTypeOK
  <2>3. RowInv'
    BY <2>1 DEF RowInv
  <2> QED
    BY <2>1, <2>2, <2>3, StartStepSafe
<1>2. CASE ~TriesAgain
  <2>1. Exit("panic") /\ UNCHANGED <<rows, failed, faults>>
    BY <1>2 DEF PingPostgresFails
  <2>2. tries = 3
    <3>1. tries \in 0..3
      BY DEF IInv, ProcessTypeOK
    <3> QED
      BY <1>2, <3>1, Bounds DEF TriesAgain
  <2>3. ProcessTypeOK'
    <3>1. phase' = "down" /\ exit' = "panic" /\ UNCHANGED <<next, tries, tokenless>>
      BY <2>1, ExitSafe
    <3> QED
      BY <2>1, <3>1 DEF IInv, ProcessTypeOK
  <2> QED
    BY <2>1, <2>2, <2>3, EndSafe
<1> QED
  BY <1>1, <1>2

\* A service that fails a start gives it its excuse.
LEMMA OutageSafe ==
  ASSUME IInv, Outage, Exit("panic"), rows' \in [Repo -> Row \union {NoRow}]
  PROVE  IInv'
<1>1. ProcessTypeOK'
  BY ExitSafe, Bounds DEF Outage, IInv, ProcessTypeOK
<1> QED
  BY <1>1, EndSafe DEF Outage

\* The row that initRows is at, once inserted.
LEMMA InsertTyped ==
  ASSUME IInv
  PROVE  [rows EXCEPT ![Repos[next]] = InsertRow(@)] \in [Repo -> Row \union {NoRow}]
BY Places, RowKept DEF IInv, ProcessTypeOK

LEMMA AdvanceTyped ==
  ASSUME IInv, NEW label \in {"registry", "dockerhub"}, Advance(label),
         rows' \in [Repo -> Row \union {NoRow}], UNCHANGED <<failed, faults>>
  PROVE  ProcessTypeOK'
BY Places, Bounds DEF Advance, IInv, ProcessTypeOK

LEMMA InitRowSafe == ASSUME IInv, InitRow PROVE IInv'
<1> DEFINE repo == Repos[next]
<1>1. /\ phase = "rows" /\ Advance("registry") /\ UNCHANGED <<failed, faults>>
      /\ rows' = [rows EXCEPT ![repo] = InsertRow(@)]
  BY DEF InitRow, MayInsert
<1>2. rows' \in [Repo -> Row \union {NoRow}]
  BY <1>1, InsertTyped
<1>3. ProcessTypeOK'
  BY <1>1, <1>2, AdvanceTyped
<1>4. next \in 1..Len(Repos) /\ repo \in Repo
  BY Places DEF IInv, ProcessTypeOK
<1>5. rows'[repo] # NoRow /\ \A other \in Repo : rows[other] # NoRow => rows'[other] # NoRow
  BY <1>1, <1>4, RowKept DEF IInv, ProcessTypeOK
<1>6. CreateSchema => \A n \in 1..next : rows'[Repos[n]] # NoRow
  <2> SUFFICES ASSUME CreateSchema, NEW n \in 1..next PROVE rows'[Repos[n]] # NoRow
    OBVIOUS
  <2>1. CASE n = next
    BY <2>1, <1>5
  <2>2. CASE n # next
    <3>1. n \in 1..(next - 1) /\ n \in 1..Len(Repos)
      BY <2>2, <1>4, Places
    <3> QED
      BY <3>1, <1>1, <1>5, Places DEF IInv, RowInv
  <2> QED
    BY <2>1, <2>2
<1>7. RowInv'
  <2>1. CASE next = Len(Repos)
    BY <2>1, <1>1, <1>6, Places DEF RowInv, Advance
  <2>2. CASE next # Len(Repos)
    <3>1. next' = next + 1 /\ phase' = "rows"
      BY <2>2, <1>1 DEF Advance
    <3>2. 1..(next' - 1) = 1..next
      BY <3>1, <1>4
    <3> QED
      BY <3>1, <3>2, <1>6 DEF RowInv
  <2> QED
    BY <2>1, <2>2
<1>8. phase' # "up" /\ UNCHANGED exit /\ UNCHANGED <<hubVars, tokenless>>
  BY <1>1 DEF Advance
<1> QED
  BY <1>1, <1>3, <1>7, <1>8, StartStepSafe

LEMMA PingRegistrySafe == ASSUME IInv, PingRegistry PROVE IInv'
<1>1. phase = "registry" /\ Advance("dockerhub") /\ UNCHANGED <<rows, failed, faults>>
  BY DEF PingRegistry
<1>2. ProcessTypeOK'
  BY <1>1, AdvanceTyped DEF IInv, ProcessTypeOK
<1>3. phase' \in {"registry", "dockerhub"}
  BY <1>1 DEF Advance
<1>4. RowInv'
  BY <1>1, <1>3 DEF IInv, RowInv
<1>5. UNCHANGED exit /\ UNCHANGED <<hubVars, tokenless>>
  BY <1>1 DEF Advance
<1> QED
  BY <1>1, <1>2, <1>3, <1>4, <1>5, StartStepSafe

LEMMA FirstLoginSafe == ASSUME IInv, FirstLogin PROVE IInv'
<1>1. PICK t \in Token \union {NoToken} : Authenticated(t) /\ token' = String(t)
  BY DEF FirstLogin
<1>2. /\ phase = "dockerhub" /\ phase' = "up"
      /\ UNCHANGED <<rows, next, tries, exit, failed>>
      /\ UNCHANGED <<at, todo, header, jwt, disturbed, expiries>>
  BY DEF FirstLogin
<1>3. \A c \in Caller : at[c] = "idle"
  BY <1>2 DEF IInv, TokenInv, AllIdle
<1>4. token' \in [Word -> 0..MaxToken] /\ token'.bytes = t
  BY <1>1, StringWords DEF Word, Token, NoToken
<1>5. /\ valid' \subseteq Token /\ tokenless' \in BOOLEAN
      /\ t # NoToken \/ tokenless'
      /\ faults' \in 0..MaxFaults
  BY <1>1, NewTyped, Bounds
  DEF Authenticated, IInv, HubInv, HubTypeOK, ProcessTypeOK
<1>6. HubTypeOK'
  BY <1>2, <1>4, <1>5 DEF IInv, HubInv, HubTypeOK
<1>7. HubInv'
  BY <1>2, <1>3, <1>6 DEF HubInv, OwnToken
<1>8. Handed'
  BY <1>2, <1>3, <1>4, <1>5 DEF Handed, Whole, Loaded
<1>9. exit = ""
  BY <1>2 DEF IInv, ExitInv
<1>10. ProcessTypeOK' /\ RowInv' /\ ExitInv'
  BY <1>2, <1>5, <1>9 DEF IInv, ProcessTypeOK, RowInv, ExitInv
<1> QED
  BY <1>2, <1>7, <1>8, <1>10 DEF IInv, TokenInv

LEMMA FirstLoginFailsSafe == ASSUME IInv, FirstLoginFails PROVE IInv'
<1>1. HubInv'
  BY HubRests DEF IInv, FirstLoginFails
<1>2. ProcessTypeOK'
  BY Bounds DEF FirstLoginFails, IInv, ProcessTypeOK
<1>3. TokenInv' /\ RowInv' /\ ExitInv'
  BY DEF FirstLoginFails, IInv, TokenInv, Handed, RowInv, ExitInv
<1> QED
  BY <1>1, <1>2, <1>3 DEF IInv

LEMMA SetUpSafe == ASSUME IInv, SetUp PROVE IInv'
<1>1. CASE PingPostgres
  BY <1>1, GotoSafe DEF PingPostgres
<1>2. CASE CreateTables
  BY <1>2, GotoSafe DEF CreateTables
<1>3. CASE CreateTablesFails
  BY <1>3, OutageSafe DEF CreateTablesFails, IInv, ProcessTypeOK
<1>4. CASE InitRowFails
  <2>1. rows' \in [Repo -> Row \union {NoRow}]
    BY <1>4, InsertTyped DEF InitRowFails, IInv, ProcessTypeOK
  <2> QED
    BY <1>4, <2>1, OutageSafe DEF InitRowFails, RowError
<1>5. CASE PingRegistryFails
  BY <1>5, OutageSafe DEF PingRegistryFails, IInv, ProcessTypeOK
<1> QED
  BY <1>1, <1>2, <1>3, <1>4, <1>5, InitRowSafe, PingRegistrySafe, FirstLoginSafe,
     PingPostgresFailsSafe, FirstLoginFailsSafe DEF SetUp

-----------------------------------------------------------------------------
(* A process that is up *)

LEMMA ServingSafe ==
  ASSUME IInv, phase = "up", UNCHANGED serving, faults' \in 0..MaxFaults,
         HubInv', Handed => Handed'
  PROVE  IInv'
BY DEF IInv, serving, processVars, ProcessTypeOK, TokenInv, RowInv, ExitInv

LEMMA UseSafe ==
  ASSUME IInv, NEW c \in Caller, Use(c) \/ Continue(c) \/ UseFails(c)
  PROVE  IInv'
<1>1. phase = "up" /\ UNCHANGED serving /\ HubInv
  BY DEF Use, Continue, UseFails, IInv
<1>2. HubInv' /\ (Handed => Handed')
  <2>1. CASE Use(c)
    BY <1>1, <2>1, CallSafe DEF Use, Call, Handed
  <2>2. CASE Continue(c)
    BY <1>1, <2>2, GoesOnSafe DEF Continue
  <2>3. CASE UseFails(c)
    BY <1>1, <2>3, CallFailsSafe DEF UseFails, CallFails, Handed
  <2> QED
    BY <2>1, <2>2, <2>3
<1>3. faults' \in 0..MaxFaults
  BY Bounds DEF Use, Call, Continue, GoesOn, Send, Login, Authenticated, Resend,
     Recovered, LoadWord, StoreWord, UseFails, CallFails, IInv, ProcessTypeOK
<1> QED
  BY <1>1, <1>2, <1>3, ServingSafe

\* A worker finds a string without bytes only if a login gave no token.
LEMMA CrashSafe == ASSUME IInv, NEW c \in Caller, Crash(c) PROVE IInv'
<1>1. /\ phase = "up" /\ at[c] \in {"send", "resend"} /\ IsNil(header[c])
      /\ Exit("crash") /\ UNCHANGED <<rows, failed, faults>>
  BY DEF Crash
<1>2. "bytes" \in Loaded(c) /\ header[c].bytes = NoToken
  BY <1>1 DEF Loaded, Word, IsNil
<1>3. tokenless
  BY <1>1, <1>2 DEF IInv, TokenInv, Handed, Whole, HubInv, HubTypeOK
<1>4. ProcessTypeOK'
  BY <1>1, ExitSafe DEF IInv, ProcessTypeOK
<1> QED
  BY <1>1, <1>3, <1>4, EndSafe

LEMMA StopSafe == ASSUME IInv, Stop PROVE IInv'
<1>1. ProcessTypeOK'
  BY ExitSafe, Bounds DEF Stop, IInv, ProcessTypeOK
<1> QED
  BY <1>1, EndSafe DEF Stop

LEMMA UpdateRowSafe == ASSUME IInv, NEW repo \in Repo, UpdateRow(repo) PROVE IInv'
<1>1. /\ phase = "up" /\ rows' = [rows EXCEPT ![repo] = "set"]
      /\ UNCHANGED <<processVars, hubVars, tokenless, faults>>
  BY DEF UpdateRow
<1>2. rows' \in [Repo -> Row \union {NoRow}]
      /\ \A other \in Repo : rows[other] # NoRow => rows'[other] # NoRow
  BY <1>1 DEF IInv, ProcessTypeOK, Row, NoRow
<1>3. HubInv'
  BY <1>1, HubRests DEF IInv, HubInv, HubTypeOK
<1>4. ProcessTypeOK' /\ ExitInv'
  BY <1>1, <1>2 DEF IInv, ProcessTypeOK, ExitInv, processVars
<1>5. RowInv'
  BY <1>1, <1>2 DEF IInv, RowInv, processVars
<1>6. TokenInv'
  BY <1>1 DEF IInv, TokenInv, Handed, Whole, Loaded, processVars, hubVars
<1> QED
  BY <1>3, <1>4, <1>5, <1>6 DEF IInv

LEMMA TokenExpiresSafe == ASSUME IInv, TokenExpires PROVE IInv'
<1>1. HubInv' /\ (Whole => Whole')
  BY ExpireSafe DEF TokenExpires, IInv
<1>2. UNCHANGED <<serving, faults, at, tokenless>>
  BY DEF TokenExpires, Expire
<1> QED
  BY <1>1, <1>2
  DEF IInv, serving, processVars, ProcessTypeOK, TokenInv, Handed, AllIdle, RowInv, ExitInv

-----------------------------------------------------------------------------
LEMMA InitialSafe == Init => IInv
<1> SUFFICES ASSUME Init PROVE IInv
  OBVIOUS
<1>1. HubInv
  BY InitSafe DEF Init
<1>2. ProcessTypeOK
  BY Places, Bounds DEF Init, ProcessTypeOK
<1>3. TokenInv /\ RowInv /\ ExitInv
  BY DEF Init, HubInit, TokenInv, AllIdle, RowInv, ExitInv
<1> QED
  BY <1>1, <1>2, <1>3 DEF IInv

LEMMA NextSafe == IInv /\ [Next]_vars => IInv'
<1> SUFFICES ASSUME IInv, [Next]_vars PROVE IInv'
  OBVIOUS
<1>1. CASE Next
  BY <1>1, StartSafe, SetUpSafe, TokenExpiresSafe, StopSafe, UseSafe, CrashSafe,
     UpdateRowSafe DEF Next
<1>2. CASE UNCHANGED vars
  <2>1. HubInv'
    BY <1>2, HubRests DEF vars, IInv, HubInv, HubTypeOK
  <2> QED
    BY <1>2, <2>1 DEF IInv, vars, processVars, hubVars, ProcessTypeOK, TokenInv, AllIdle,
       Handed, Whole, Loaded, RowInv, ExitInv
<1> QED
  BY <1>1, <1>2

THEOREM Invariance == Spec => []IInv
BY InitialSafe, NextSafe, PTL DEF Spec

\* Every variable keeps its type (Services.TypeOK): the pings stop at the fourth.
THEOREM TypeCorrect == Spec => []TypeOK
<1>1. IInv => TypeOK
  BY DEF IInv, HubInv, ProcessTypeOK, TypeOK
<1> QED
  BY <1>1, Invariance, PTL

\* However many repositories there are and wherever earlier starts broke off,
\* every worker finds its row (initRows).
THEOREM RowsAreThere == Spec => []RowPerWorker
<1>1. IInv => RowPerWorker
  BY DEF IInv, RowInv, RowPerWorker
<1> QED
  BY <1>1, Invariance, PTL

\* A start fails only when a service fails it (SetUpClients).
THEOREM StartsFailWithExcuse == Spec => []StartFailsWithExcuse
<1>1. IInv => StartFailsWithExcuse
  BY DEF IInv, ExitInv, StartFailsWithExcuse
<1> QED
  BY <1>1, Invariance, PTL

\* However many callers tear the token, none finds it empty as long as every login
\* of the process gave one (api.token, Authenticate).
THEOREM TokenNeverEmpty == Spec => []CrashOnlyWithoutToken
<1>1. IInv => CrashOnlyWithoutToken
  BY DEF IInv, ExitInv, CrashOnlyWithoutToken
<1> QED
  BY <1>1, Invariance, PTL

\* A caller whose login gave a token, and whose renewal no other and no expiry
\* crossed, is not refused (CheckImageIsCurrent, GetTagDigestFromApi).
THEOREM UndisturbedRenewal == Spec => []RefusedOnlyIfDisturbed
<1>1. IInv => RefusedOnlyIfDisturbed
  BY DEF IInv, HubInv, HubTypeOK, OwnToken, RefusedOnlyIfDisturbed
<1> QED
  BY <1>1, Invariance, PTL

\* Starts keep the pins and flags that requests have set (InsertRowSql).
THEOREM StartsKeepRows == Spec => RowsSurviveStarts
<1>1. IInv /\ [Next]_vars =>
        [\A repo \in Repo : rows[repo] # NoRow /\ rows'[repo] # rows[repo] => phase = "up"]_vars
  <2> SUFFICES ASSUME IInv, Next, NEW repo \in Repo,
                      rows[repo] # NoRow, rows'[repo] # rows[repo]
               PROVE  phase = "up"
    OBVIOUS
  <2>1. InsertRow(rows[repo]) = rows[repo] /\ rows[repo] \in Row \union {NoRow}
    BY RowKept DEF IInv, ProcessTypeOK
  <2>2. ~InitRow
    BY <2>1, Places DEF InitRow, MayInsert, IInv, ProcessTypeOK
  <2>3. ~InitRowFails
    BY <2>1, Places DEF InitRowFails, IInv, ProcessTypeOK
  <2>4. ~SetUp
    BY <2>2, <2>3 DEF SetUp, PingPostgres, CreateTables, PingRegistry, FirstLogin,
       PingPostgresFails, CreateTablesFails, PingRegistryFails, FirstLoginFails
  <2>5. ~Start /\ ~TokenExpires /\ ~Stop
    BY DEF Start, TokenExpires, Stop, serving
  <2> QED
    BY <2>4, <2>5 DEF Next, Use, Continue, UseFails, Crash, UpdateRow
<1> QED
  BY <1>1, Invariance, PTL DEF Spec, RowsSurviveStarts
===============================================================================
