# Verification of registrywatcher

TLA+ models of registrywatcher, the TLC configurations that check them, and
proofs that TLAPS checks. The reference is the Go source; file names below are
relative to the repository.

## 1. The system

registrywatcher polls docker registries for the tags of a list of repositories
and redeploys a Nomad job when the tag the repository is pinned to, or the
latest release if it has no pin, stands for another image.

| component | state it keeps | operations | hard behaviour |
|---|---|---|---|
| worker, one goroutine per repository (`worker/watcher_worker.go`, `client/client.go`) | none of its own | `PopulateCaches` once, then `runOnce` = `ShouldDeploy`, then `DeployPinnedTag`, every poll interval | what it decided on is stale when it acts; any remote call may fail half-way |
| tag cache and digest cache (`Clients.DockerTags`, `Clients.DigestMap`) | the tags, and the digest of the pinned tag, that a change is measured against | `updateCaches` by the worker and by every request's handler | written by several goroutines, in several steps; an update without a deployment hides a change for ever; lost in a restart |
| deploy and reset handlers (`main.go`) | none | set `auto_deploy`, validate and store a pin, undo it, deploy it | ignored errors, early returns, requests that overlap each other and the worker |
| Postgres client (`client/postgres_client.go`) | one row per repository: `pinned_tag`, `auto_deploy` | read, write, `initRows` | survives restarts; a commit that reports an error may have been made |
| Nomad client (`client/nomad_client.go`) | the job, in Nomad | `UpdateNomadJobTag` reads and edits the job and starts a `RestartNomadJob` goroutine, which registers and monitors it | goroutines are unordered; a job shared by two repositories is read and written back whole; channels |
| Docker Hub client (`client/dockerhub_api_client.go`) | the token | `CheckImageIsCurrent`, `GetTagDigestFromApi`, each of which logs in again after a 401 or 403 and asks once more | the token is a string of two words that all goroutines load and store without a lock |
| registry client (`registry/`, `client/docker_registry_client.go`) | none | a ping; a listing, page by page, through three transports (errors, tokens, passwords); the parser of `WWW-Authenticate` | pages are not a snapshot; every page asks for its token anew |
| tag helpers (`utils/helpers.go`) | none | filters, `TagToNumber`, `GetLatestReleaseTag` | three numbers packed into one; releases with equal numbers |
| read-only handlers (`main.go`) | none | `GET /tags/:repo_name`, `/repos`, `/debug/caches` | what is shown is put together from several reads |
| startup (`main.go`, `SetUpClients`) | none | ping Postgres four times, create the table and a row per repository, ping each registry, log in to Docker Hub, start the workers | some failures end the process and some are logged; the next start finds what a broken one left |
| Slack, logging, configuration, dashboard, test support | none that matters here | | |

How they interact: a worker and any number of handlers of one repository call
the same methods of `Clients` without any lock. Each reads the row, reads and
writes both caches, asks the registry and Docker Hub, and hands a deployment
over to a goroutine that outlives it. Two `sync.Map` operations or two remote
calls of one method are never atomic together. Repositories share nothing but
the clients, with them Docker Hub's token, and, when the configuration maps two
of them to one Nomad job, that job.

What makes the system correct:

- worker and caches: a change that matters leads to a deployment, once; the
  caches come to hold what the registry holds; nothing is deployed while auto
  deployment is off;
- handlers: every request is answered; a pin that is accepted was stored and is
  what runs in the end; only tags the registry has had are pinned;
- Postgres: a restart loses neither pin nor flag;
- Nomad: a deployment changes its own task and no other, and restarts it; a
  monitor ends and reports once;
- helpers: `GetLatestReleaseTag` gives a release of the listing, and none is
  newer by its three numbers;
- registry client: a listing ends, repeats no tag, misses none that stayed and
  invents none, and fails only for a reason outside it;
- Docker Hub client: a renewed token is refused only if something else
  interfered or the answer to the login could not be read; a torn token is
  replaced, unless it is read beyond its bytes, and ends the process only if some
  login gave no token;
- read-only handlers: what is shown fits together if nothing changed meanwhile;
- startup: every worker has its row, whatever an earlier start left, and a start
  fails only because a service did.

`PROJECT.json` lists the places in the code where each of these is at risk
("hazards"), with the properties that would catch it going wrong.

## 2. The modules

    Tags                  releases, their numbers and their order
      TagsProof           proofs
    Watcher               the core: one repository, its worker, its requests
      WatcherHistory      + what the row has held: safety properties
        MCWatcher         for TLC
      WatcherQuiet        + the promise's ghost variables, a serial environment
        WatcherLive       liveness without the serial environment
        WatcherClaims     claims of the documentation that fail
        MCQuiet           for TLC (WatcherLive and WatcherClaims)
      WatcherProof        proofs about Watcher
        WatcherHistoryProof  and about WatcherHistory
        WatcherQuietProof    and about WatcherQuiet
    AutoDeploy            the abstract specification WatcherQuiet implements
    MCValues              values of Watcher's constants for TLC
    NomadJob              one Nomad job and the calls that deploy to it
      MCNomad             for TLC
      NomadJobProof       proofs
    Challenge             the parser of WWW-Authenticate
      Registry            a ping and a listing (extends Tags and Challenge)
        MCRegistry        for TLC
        RegistryProof     proofs
    DockerHub             one shared token and the calls that use and renew it
      DockerHubProof      what each call keeps true
      Services            the process: startup, Docker Hub calls, exits
        MCServices        for TLC
        ServicesProof     proofs

`Watcher` uses the other clients as what they answer: a listing is the
registry's tags or a failure, a lookup at Docker Hub an answer or a failure, a
deployment a goroutine that registers the image later. `Registry`, `DockerHub`
and `NomadJob` look into those calls, and `Services` into what `Restart` is for
one repository.

### Watcher

An actor is a goroutine: the worker, or the handler of one request. `pc[a]` is
where it is, `loc[a]` its local variables, and each remote call and each `Load`
or `Store` of a cache is one action, so that any two actors interleave between
any two of them.

| variable | code |
|---|---|
| `hub`, `published` | the registry: the digest of each tag; every tag it ever held (history) |
| `row` | the repository's row in Postgres |
| `cachedTags`, `cachedDigest` | `Clients.DockerTags`, `Clients.DigestMap` |
| `running`, `restarts` | the image the Nomad job runs; `RestartNomadJob` goroutines not yet done, per tag |
| `pc`, `loc` | goroutines of the worker and the handlers |
| `req`, `answer` | the request each handler serves and its status |
| `changes`, `faults`, `crashes` | how much of a bound is used |

| actions | code |
|---|---|
| `ReadPin`, `ReadPinFails`, `LatestFromCache` | `GetFormattedPinnedTag`, called from eight places (`AfterPin`) |
| `ListTags`, `StoreTags`, `LoadDigest`, `CheckInUpdate`, `FetchDigest`, `SaveDigest` and their failures | `PopulateCaches` and `updateCaches` |
| `DeployJob`, `DeployJobFails`, `RegisterJob`, `RegisterJobFails` | `DeployPinnedTag`, `UpdateNomadJobTag`, `RestartNomadJob` |
| `Poll`, `ReadAutoFlag`, `ReadPinned`, `CheckInShouldDeploy`, `ListForRelease`, `CompareReleases`, `GiveUp` and failures | `runOnce` and `ShouldDeploy` |
| `Receive`, `ReadFlag`, `SetFlag`, `ValidatePin`, `ReadOriginal`, `ResetFlag`, `UpdatePin`, `UndoPin`, `Reply` | `DeployTagHandler`, `ResetTagHandler` |
| `ReadShownPin`, `ListShownTags`, and their failures | `GetTagHandler` |
| `ReadAllPins`, `LoadShownTags`, `ReadShownFlag`, and their failures | `RepoSummaryHandler`, on its one repository |
| `Push`, `Remove` | the registry's users (external) |
| `Restart` | the process stops and starts again |

Modelling choices:

- Releases are compared by `TagToNumber`, computed from the three numbers of a
  release as `helpers.go` does; that a tag has three numbers is data (`Major`,
  `Minor`, `Patch`). Tags with equal numbers are told apart by their place in the
  sorted listing,
  as `tagValueMap` does. A listing is a set: `reflect.DeepEqual` of two sorted
  listings without duplicates is equality of sets. `PopulateCaches` stores an
  unsorted repetition of the same filter, which is the same set.
- `updateCaches` returns to three places (`Return`): the end of a poll, the
  deployment of a poll whose verdict was yes, or a handler's answer. The verdict
  of `ShouldDeploy` travels in `loc.ret`.
- A failed write may have been committed. A failed registration in Nomad is
  modelled as not applied in `Watcher` and as either in `NomadJob`.
- A tag that is gone, or empty because there is neither a pin nor a release,
  cannot be pulled: the job is registered with it, and what it runs has no digest.
- `EmptyDigestIsError`: whether Docker Hub refuses to look up the empty digest,
  with which the cache starts. The code cannot tell; the repository's mock server
  (`client/setup.go:88`) answers an unknown digest with an empty list. Runs use
  the refusal, which leaves the cache empty for longer. For the same reason
  `WatcherLive` excludes failures in `PopulateCaches` (`AtStartup`): with the
  refusal one of them stops every later poll, without it none does.
- `GetTagHandler` answers 400 when there is no release and may then go on to
  another answer; `answer` is then `"twice"`.
- The job has the task the configuration names, and no other repository deploys
  to it; `NomadJob` is about jobs where that is not so.
- `CheckImageIsCurrent` ignores the errors of `ReadAll` and `json.Unmarshal`: a 200
  whose body is cut off or cannot be decoded counts as "not current"
  (`Answered`), so that a poll deploys and an update of the caches fetches the
  digest. It costs one of the failures a run may have.
- Left out: Slack and log messages, the `DEBUG` environment variable, requests
  for repositories that are not watched and bodies that are not JSON (answered
  400 before anything is read), and the first `GetFormattedPinnedTag` of
  `runOnce` when `ShouldDeploy` said no, which has no effect.

### AutoDeploy and WatcherQuiet

`AutoDeploy` is the promise of the repository's README for one repository: a
change of the image the pin stands for, while auto deployment is on, and every
pin by request, are owed a deployment; the job is given that image in the end
and never another; a change while auto deployment is off is owed nothing, as
the last entry of the README's TODO says.

`WatcherQuiet` adds `owed` and `launches` to `Watcher` and restricts the order
of events to where the code keeps the promise:

- registry changes, polls, requests and restarts begin when nothing else is
  under way (`AtRest`);
- a request or a restart comes only while the caches are current;
- the calls that may fail are those the next poll makes good (`Tolerated`);
- a push does not give the watched tag back the digest that is in the cache
  before a poll has missed it (`PutsBack`), and nothing is deleted.

Nearly each restriction is needed: dropping `PutsBack`, the wait for current caches
in `QReceive` or `QRestart`, the list of calls in `Tolerated` or its exception gives
a counterexample to `OwedIsVisible` or `KeepsPromise`, and a deletion one to
`OneLaunchPerChange`; they are listed among the hazards. That failures are the
worker's is not needed as long as `PutsBack` is there: a handler's refresh that
fails does harm only through a push `PutsBack` leaves out. The refinement mapping is in `Promise`: `row.pinned` and
`row.auto` for the pin and the flag, `running` for what runs.

### Tags

`Older` compares two releases by their three numbers, one after the other, as a
reader of `v1.99.9` and `v1.100.1` does. It is the reference definition that
`TagToNumber` and `GetLatestReleaseTag` are measured against.

### NomadJob

A call of `UpdateNomadJobTag` reads the job, edits its copy and leaves a
goroutine that flips `Meta["restart"]`, registers the copy and monitors the
deployment. `copy[c]` is that copy, `stale[c]` records that Nomad's job has
changed since it was read, `timer[c]` is the goroutine of the 20 minutes.
`RestartNomadJob` in `Watcher` is this module seen from one repository with a
job of its own: `restarts` counts the calls at `"restart"`, and `running` is the
image of its task.

### Registry and Challenge

`Registry` is the ping that ends `registry.New` followed by one `GetAllTags`; two
calls of the client share nothing, so one stands for all. A `site` is a registry
with the credentials configured for it: open, asking for a password or asking
for a token; links to the next page that are absolute, relative or lead to
another host; and, in some, a link back to the first page before the one ahead.
Each page ends where the registry likes, and others push and delete tags between
two pages. `Get` is a request as it leaves `BasicTransport`; `AskToken` and `Retry`
are `TokenTransport`'s; `IsError` is `ErrorTransport`'s. `page` is the variable every
response is decoded into, which an answer without a `tags` field would leave as
the page before filled it; `always` and `ever` record which tags were held
throughout, and at some time.

`Challenge` parses the header a registry answers a 401 with. It reads words and
separators where the code reads octets: a token is one word, and equality of
words up to case is `ToLower`. The values the runs take include the separators
of the grammar: a comma in a quoted scope, colons in a realm, a challenge of
another scheme before the right one. The escape of a quoted value is left out;
words have no backslash. The last section of the module says how a challenge is
written, whoever reads it: where its parameters are (`Place`, `IsWritten`), what
lies between them (`IsChallenge`) and what they say (`Says`). It is the reference
the parser is proved against; `MCRegistry` gives the places of each header of the
runs, and TLC confirms that they are right.

### DockerHub and Services

A Go string is the address of its bytes and their number. `api.token` is read
and assigned by every goroutine without a lock, so `DockerHub` loads and stores
the two words one at a time, in any order: a caller may hold the bytes of one
token and the length of another. `Length` says how long each token is, and what
becomes of a mixture depends on it:

- of equal lengths, the bytes are the token they belong to (`ReadAs`);
- with too short a length it is no token, which Docker Hub refuses: a login
  follows;
- with too long a length (`Overruns`) it is read beyond its bytes. If a byte found
  there may not be in a header, net/http does not send the request (`Unsendable`):
  the call returns an error before any 401, and nobody logs in. If every byte
  may, Docker Hub refuses it. Both are possible each time;
- a length without bytes (`IsNil`) is a panic: gin recovers that of a handler,
  that of a worker ends the process. Only an empty token lends "no bytes" to a
  mixture.

The token is empty after a first login that failed, and after any login whose
200 could not be read: `Authenticate` ignores the errors of `ReadAll` and
`json.Unmarshal` and returns an empty token and no error (`Authenticated`), which
is stored like any other. `tokenless` records that this happened in the life of
the process. `disturbed[c]` records that since `c` logged in a token expired or
another caller stored one, or that this login gave `c` no token.

Names of tokens nobody holds a word of are used again, so that six stand for
any number; a login is answered with a token of either length, if one is free.

`Services` puts those calls into the life of the process: `phase` is where
`SetUpClients` is, one action per connection it makes or fails to make, and `Exit`
is the end of the process, by a panic, a crash or from outside, after which only
the table is left. `Start` begins again.

## 3. The runs

Every property of a passing run has a mutant in `PROJECT.json`: an operator,
defined beside the one it replaces, that changes the code in a plausible way and
makes TLC refute the property.

| run | what it shows | bounds |
|---|---|---|
| `watcher` | `TypeOK`; `PublishedOnly`: nothing the registry never held is pinned, cached or deployed; `AcceptedPinWasStored`: 200 for a tag means it was in the row; `NoAutoDeployWhileOff`; `UndisturbedView`: what a handler shows fits together if nothing changed meanwhile | one request of eight shapes, 1 change of three, 1 failure, 1 restart, two goroutines per tag; 486,000 states |
| `quiet` | `KeepsPromise` (implements `AutoDeploy`, liveness included), `OwedIsVisible` (a change nobody has deployed is visible to the next poll), `OneLaunchPerChange` | two requests of five shapes, 5 tags, 2 changes, 1 failure, 1 restart, pushes that put an older digest back among them; 343,000 states |
| `live` | `CachesCatchUp`, `RequestsAnswered`, with everything interleaved | one request of four shapes, 1 change, 1 failure, 1 restart; 126,000 states |
| `nomad` | `OwnImage`, `ReportedOnce`, `UndisturbedUpdate` | two calls, three repositories, one of whose tasks is missing, 1 failure; 470,000 states |
| `listing` | `ListedIsHeld`, `NoDuplicates`, `LatestIsRecent`: a listing of several pages is right about every tag that stayed or never was; `TokenAskedOfService`: the challenge was read right; `FailsWithExcuse`; `ListingEnds` | 4 tags, 3 of them releases, 46 sites, 2 changes, 1 failure; 115,000 states |
| `services` | `RowPerWorker`, `RowsSurviveStarts`, `StartFailsWithExcuse`: starts that break off anywhere; `CrashOnlyWithoutToken`, `RefusedOnlyIfDisturbed`, `HubAnswersAgain`: the shared token | a worker and a request, 2 repositories, one of them new, 6 names of tokens, one of them longer, 1 expiry, 1 failure, unreadable login or stop; 331,000 states |
| `new_release` | fails: a release pushed between the two listings of one poll is never deployed | 1 change |
| `two_pins` | fails: the job may run the first of two accepted pins | two requests |
| `no_release` | fails: without a release, removing the pin deploys an image without a tag | one request |
| `same_job` | fails: of two calls that read the same job the second restarts nothing | two calls |
| `ui_image` | fails: deploying `registrywatcher-ui` gives its image to the backend's task | one call |
| `monitor` | fails: a monitor never ends | one call |

The six failures are the findings of `PROJECT.json`, each with the sentence of
the repository it contradicts.

Why the bounds are enough for what they show. In `watcher` one handler meets the
worker: its properties are about one handler and what moves under it, and the
worker, the registry and a restart move all that another request could, except
the row. Two requests that write the row are in `two_pins` and, one after the
other, in `quiet`. Two handlers with all eight shapes are beyond what TLC finishes
in five minutes; the theorems of section 4 cover all five properties of `watcher`
for any number of handlers, changes, failures and restarts. One change and one
failure can fall between any two steps; three releases are an older one, the
current one and a newer one. `MaxPending` bounds the unfinished goroutines of a
tag; one per tag still lets two with different tags reach Nomad in either order.

In `listing` four tags make up to four pages, and two changes can take a tag away
behind a page and put another before it. In `services` two callers are the least
that tear a token, with six names one of the shorter tokens is left for every
login, and one longer token is enough for every kind of mixture. One failure or
stop breaks a start off at any step, and the next start finds what it left; failed
pings of Postgres are not counted among the failures.

Deadlock is not checked: with the bounds used up the environment stops, and a
stuck monitor is what the code does.

Fairness: weak fairness of each actor's next step (every remote call returns,
with an answer or an error, and goroutines are scheduled), of `Poll` (the worker
sleeps for a bounded time) and of registrations. Requests, changes and restarts
are owed to nobody. In `NomadJob`, moreover, the 20 minutes pass and Nomad
finishes deployments, so that `MonitorEnds` fails for no other reason than the
channel. In `Registry` the client goes on, and in `Services` `SetUpClients` and
calls under way go on and a worker calls again; starting the process is owed by
nobody. That a call returns is the services' doing: the HTTP clients set no
timeout, and a server that accepts a request and stays silent would hold its
goroutine for ever. The liveness properties assume it does not.

`HubAnswersAgain` has a premise, that renewals stop overlapping: two callers
that always renew at once may tear each other's token for ever, and TLC finds
that if the premise is dropped. What the property says is that only one kind of
mixture left behind can last: bytes with the length of a longer token, if net/http
refuses to send it. No 401 leads to another login then, and every call fails
until the process is started again; without the disjunct that names this case
TLC finds it. Every other mixture is replaced by the next caller whose login gives a
token, or ends the process.

## 4. What is proved

For every value of the constants that the named assumptions allow: any finite
set of tags, any number of handlers, requests, callers and repositories, any
bounds.

`TagsProof`, from `TagAssumption`:

- `NumberFits`: the number of a release is below 10^9;
- `NumberOrdersReleases`: numbers are ordered as the releases' triples are
  (`Older`), and `EqualNumbers`: releases with one number have one triple;
- `LatestIsNewest`: `GetLatestReleaseTag` of a listing with a release is a
  release of that listing, and none of them is newer. The operator is a
  `CHOOSE`, so this takes a proof that its order has a last element in every
  finite set, by a smallest counterexample.

`WatcherProof`: `TypeCorrect` and `OnlyPublished`. `TypeOK` is not inductive: the
pin of a request may be absent, and `UpdatePin` would store it. `IInv` adds
`Validated` (a handler that has come to read, write or undo the pin asks for one
that may be stored) and, for `PublishedOnly`, that the locals of every actor carry
only published tags (`CarriesPublished`) and that the registry's present tags are
published. The step is proved in two halves, types and the rest (`Safe`), one
lemma per group of actions; most actions touch only their actor's own state
(`PrivateType`, `CarriesStays`, `ValidatedStays`).

`WatcherHistoryProof`, on top of that `IInv`: `AcceptedPinsStored`,
`NoDeployWhileOff` and `ViewsAreTrue`, from `HInv`:

- `FlagInv`: wherever the worker is bound to deploy (`Deploying`: past the flag, or
  refreshing the caches with a verdict of yes to return to) the flag was on in
  this poll;
- `AcceptInv`: outside the labels where a handler may still fail (`Unsure`) its pin
  has been stored;
- `ViewInv`: what an undisturbed handler has read so far agrees with the row, the
  registry and the cache (`Seen`).

`NomadJobProof`: `OneReport`; and, if no repository's task is
`registrywatcher-ui`, `TasksKeepTheirImage` and `UndisturbedUpdates`, from
`FreshCopies`: a copy that is not stale is the present job, edited.

`WatcherQuietProof`, under two assumptions: `OneSpelling` (no two releases have
the same three numbers) and `ReleasesExist` (the registry holds a release to
begin with). `OwedShows` and `LaunchesAreCalledFor` are the properties
`OwedIsVisible` and `OneLaunchPerChange`; `DeploysAsPromised` is the safety half of
`KeepsPromise`: the initial states of `WatcherQuiet` are `AutoDeploy`'s, and every
step is one of its steps or a stutter. The invariant `QInv` relates what the code
keeps in five places:

- `OneIsBusy`: at most one actor has something to do;
- `Fits`: what the actor at each label is sure of: that what it has read is still
  in the row, the registry or the cache, and what a verdict of no means;
- `Stocked`: what the caches hold, and that a release is always there;
- `RestartInv`: a registration that is still to come gives the job the tag that is
  wanted, and meanwhile nobody works towards another;
- `OwedInv`: a deployment that is owed can be seen by the next poll, has been seen
  by this one, or is on its way to Nomad;
- `LaunchInv`: the launches so far, and one more where the next is `Due`, are no
  more than the changes and failures.

Both assumptions are needed. Of two releases with the same numbers, `v1.0.0` and
`v01.0.0`, the later in the listing is the latest, but `isNewReleaseTagAvailable`
asks for a greater number and never sees it: the deployment would be owed for
ever. Without a release and a pin there is nothing to deploy.

`RegistryProof`, from `RegistryAssumption`, `TagAssumption` and
`ChallengeAssumption`: `TypeCorrect`, `ListingIsFaithful`, `ListingRepeatsNothing` and
`LatestOfAListing`. `Reading` is the invariant that pages leave: between two of
them, what was listed lies up to the last tag of the page before, and every tag
that stayed lies after it or was listed. How pages are cut and what changes
between them does not matter to it.

`ChallengeIsRead` is about the parser: a header that is written as a challenge,
of whatever length, is read as what it says. Its proof first shows that the
recursive function `ParamsFrom` is one (`ParamsAreThere`: what is read at a
position depends on later positions only), and then goes through the parameters
from the last to the first (`ParametersAreRead`); both are inductions by a least
counterexample. `TokenIsAskedRight` and `FailuresAreExcused` follow for sites that
satisfy `ChallengesAreWritten`: one that gives out tokens demands them in a
well-written challenge, the first of its scheme, and no other site does. A header
that is cut off or malformed is outside that assumption; TLC's headers are all
inside it.

`DockerHubProof` and `ServicesProof`, from `DockerHubAssumption` and
`ServicesAssumption`: `TypeCorrect`, `RowsAreThere`, `StartsKeepRows`,
`StartsFailWithExcuse`, `TokenNeverEmpty` and `UndisturbedRenewal`. `HubInv` says what
an undisturbed caller has in its hands at each step of a renewal (`OwnToken`):
the words it has stored, then the words it has loaded, are those of one token
that is valid. It speaks of callers whose login gave them a token; the others are
disturbed from the start. `Whole` says that no string anybody may read has a length
without bytes, and no caller has an empty token to store; it holds as long as
every login of the process gave a token (`Handed`). `IInv` joins them with what each phase of a start has done (`RowInv`) and
how a process may have ended (`ExitInv`).

Only model-checked: liveness (`CachesCatchUp`, `RequestsAnswered`, `ListingEnds`,
`HubAnswersAgain`, and the fairness half of `KeepsPromise`, that what is owed is
deployed in the end), which is out of the prover's reach.

## 5. What is not modelled, and what is left

Not modelled:

- Slack messages and logging, configuration, the dashboard and the test support:
  nothing they do changes the state above;
- `GetNomadJobTag` and `isPinnedTagDeployed`: they change nothing, and the second,
  the only caller of the first, is itself never called;
- `CacheSummaryHandler` and `HealthCheckHandler`: one shows two loads, the other
  a constant;
- the escapes of a quoted header value and malformed octets (`Challenge`);
- the page of 100 images a lookup at Docker Hub is limited to: a run would need
  as many images;
- certificates (`NewSecure`, `NewInsecure`), which only tests use.

Left to do: a `watcher` run with two concurrent requests of all shapes, if a
symmetry or a smaller set of labels makes it small enough; and the escapes of a
quoted value, which would take a parser of octets.
