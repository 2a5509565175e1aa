------------------------------- MODULE Registry -------------------------------
(***************************************************************************)
(* The registry client (registry/, client/docker_registry_client.go): the  *)
(* ping that ends registry.New, then one call of GetAllTags. A call of the *)
(* client shares nothing with another, so one stands for all.              *)
(*                                                                         *)
(* A request goes down the three transports of WrapTransport: basic        *)
(* credentials for the registry itself; on a 401 with a bearer challenge,  *)
(* a token, and the request again; an error for any status from 400 on.    *)
(* The listing is one request per page, and others push and delete tags    *)
(* between the pages.                                                      *)
(***************************************************************************)
EXTENDS Tags, Challenge

CONSTANTS
  Sites,        \* what registrywatcher may be configured with, and faces
  Scope,        \* the scope in the configuration, repository:<prefix>/<name>:...
  MaxChanges,   \* bound on pushes and deletions of tags
  MaxFaults     \* bound on failed exchanges

\* A site is a registry and the credentials configured for it:
\*   auth      "open", "basic" or "bearer": what a request must carry
\*   headers   the WWW-Authenticate headers of its 401 answer
\*   service   what its token service must be asked for, in a challenge's form
\*   creds     whether a user name or a password is configured
\*   grants    whether they, or none, are enough for it
\*   prev      whether a page after the first links to the one before
\*   link      "absolute", "relative" or "elsewhere": its links to pages
ASSUME RegistryAssumption ==
  /\ \A s \in Sites :
       /\ s.auth \in {"open", "basic", "bearer"}
       /\ s.link \in {"absolute", "relative", "elsewhere"}
       /\ s.creds \in BOOLEAN /\ s.grants \in BOOLEAN /\ s.prev \in BOOLEAN
  /\ MaxChanges \in Nat
  /\ MaxFaults \in Nat

VARIABLES
  site,      \* the site this call is made to; it never changes
  hub,       \* the tags the registry holds
  pc,        \* "get", "auth", "retry" or "done"
  call,      \* "ping" or "tags"
  url,       \* the page asked for
  demand,    \* authService: what the last bearer challenge named
  token,     \* what the token service gave out
  page,      \* the response variable of Tags, which every page is decoded into
  listed,    \* listed[t]: how often t is in tags: 0, 1 or 2 for more than once
  result,    \* "", "ok" or "error"
  always,    \* history: tags held all through the listing
  ever,      \* history: tags held at some moment of it
  changes, faults   \* how much of each bound has been used

outside == <<site, hub, always, ever, changes>>
vars == <<outside, pc, call, url, demand, token, page, listed, result, faults>>

-----------------------------------------------------------------------------
(* Pages and links *)

\* The page after tag last, on a host: the registry, another, or none for a
\* relative reference. NoTag: the first page.
Page(host, last) == [host |-> host, last |-> last]
NoPage == Page("none", NoTag)

After(t, last) == last = NoTag \/ SortKey[t] > SortKey[last]

Host == CASE site.link = "absolute"  -> "registry"
          [] site.link = "elsewhere" -> "other"
          [] OTHER                   -> "none"

Link(rel, last) == [rel |-> rel, page |-> Page(Host, last)]

\* Mutation: the first link, whatever its relation.
GetFirstLink(links) == IF links = <<>> THEN [found |-> FALSE, page |-> NoPage]
                       ELSE [found |-> TRUE, page |-> links[1].page]

\* The first link with rel="next", if any.
GetNextLink(links) ==
  LET next == {i \in DOMAIN links : links[i].rel = "next"}
  IN  IF next = {} THEN [found |-> FALSE, page |-> NoPage]
      ELSE [found |-> TRUE, page |-> links[Min(next)].page]

-----------------------------------------------------------------------------
(* What a registry answers *)

\* What a response is decoded to: no tags when the JSON names none.
Response(status, tags, links) ==
  [status |-> status, named |-> status = 200, tags |-> tags, links |-> links]

Refusal == Response(401, {}, <<>>)

\* The links of the last page and of one that ends at cut.
LinksBack ==
  IF site.prev /\ url.last # NoTag THEN <<Link("prev", NoTag)>> ELSE <<>>

LinksAhead(cut) ==
  IF site.prev /\ url.last # NoTag THEN <<Link("prev", NoTag), Link("next", cut)>>
                                   ELSE <<Link("next", cut)>>

\* A page is what comes after the one before, up to a tag of the registry's
\* choice, with a link to the next if anything is left.
Pages ==
  LET left == {t \in hub : After(t, url.last)}
  IN  {Response(200, left, LinksBack)} \union
      {Response(200, {t \in left : ~After(t, cut)}, LinksAhead(cut)) :
         cut \in {c \in left : \E t \in left : After(t, c)}}

Answers == IF call = "ping" THEN {Response(200, {}, <<>>)} ELSE Pages

-----------------------------------------------------------------------------
(* The transports *)

\* BasicTransport: credentials for the URLs under the registry's.
Credentials == url.host = "registry" /\ site.creds

Admits(credentials) ==
  \/ site.auth = "open"
  \/ site.auth = "basic" /\ credentials /\ site.grants

\* TokenTransport: isTokenDemand of each site's 401.
TokenDemand == [s \in Sites |-> ParseOauthHeader(s.headers)]

\* Mutation: the scope of the challenge is kept.
KeepScope(service) == service

InjectScope(service) == [service EXCEPT !.scope = Scope]

\* Mutation: a status is never an error.
NoStatusIsError(status) == FALSE

\* ErrorTransport.
IsError(status) == status >= 400

Fail ==
  /\ pc' = "done"
  /\ result' = "error"
  /\ UNCHANGED <<call, url, page, listed>>

\* Mutation: the same page is asked for again.
FollowNoLink(link) == url

\* Mutation: the whole header, angle brackets and all, is taken for the URL.
FollowHeader(link) == [link.page EXCEPT !.host = "<"]

FollowLink(link) == link.page

Twice(n) == IF n > 2 THEN 2 ELSE n

Init ==
  /\ site \in Sites
  /\ hub \in SUBSET Tag
  /\ pc = "get"
  /\ call = "ping"
  /\ url = Page("registry", NoTag)
  /\ demand = NoService
  /\ token = "none"
  /\ page = {}
  /\ listed = [t \in Tag |-> 0]
  /\ result = ""
  /\ always = hub
  /\ ever = hub
  /\ changes = 0
  /\ faults = 0

\* The ping of registry.New went well; GetAllTags is called.
Pinged(response) ==
  /\ call = "ping"
  /\ call' = "tags"
  /\ pc' = "get"
  /\ UNCHANGED <<url, page, listed, result>>

\* Tags decodes a page, adds its tags and takes the link.
Decoded(response) ==
  /\ call = "tags"
  /\ page' = IF response.named THEN response.tags ELSE page
  /\ listed' = [t \in Tag |-> Twice(listed[t] + (IF t \in page' THEN 1 ELSE 0))]
  /\ LET link == GetNextLink(response.links)
     IN  IF link.found
         THEN pc' = "get" /\ url' = FollowLink(link) /\ UNCHANGED result
         ELSE pc' = "done" /\ result' = "ok" /\ UNCHANGED url
  /\ UNCHANGED call

\* What reaches the caller of Client.Get.
Receive(response) ==
  IF IsError(response.status) THEN Fail
  ELSE Pinged(response) \/ Decoded(response)

\* A relative reference is no URL to http.Client.
GetRelative ==
  /\ pc = "get"
  /\ url.host = "none"
  /\ Fail
  /\ UNCHANGED <<demand, token, faults, outside>>

\* The request as BasicTransport sends it: an answer, a demand for a token, or
\* a refusal.
Get ==
  /\ pc = "get"
  /\ url.host # "none"
  /\ IF Admits(Credentials)
     THEN (\E response \in Answers : Receive(response)) /\ UNCHANGED demand
     ELSE IF TokenDemand[site] # NoService
     THEN /\ demand' = InjectScope(TokenDemand[site])
          /\ pc' = "auth"
          /\ UNCHANGED <<call, url, page, listed, result>>
     ELSE Receive(Refusal) /\ UNCHANGED demand
  /\ UNCHANGED <<token, faults, outside>>

\* authService.Request and the token service: a refusal is no error here, and
\* leaves an empty token. Nobody listens at a realm that was misread.
AskToken ==
  /\ pc = "auth"
  /\ IF demand.realm # site.service.realm
     THEN Fail /\ UNCHANGED token
     ELSE /\ token' = IF site.grants /\ demand = site.service THEN "good" ELSE ""
          /\ pc' = "retry"
          /\ UNCHANGED <<call, url, page, listed, result>>
  /\ UNCHANGED <<demand, faults, outside>>

\* The request again, with the token; another 401 is an error.
Retry ==
  /\ pc = "retry"
  /\ IF token = "good" THEN \E response \in Answers : Receive(response)
                       ELSE Receive(Refusal)
  /\ UNCHANGED <<demand, token, faults, outside>>

\* No connection, an answer that is cut off, an error of the other side.
Fault ==
  /\ pc # "done"
  /\ faults < MaxFaults
  /\ faults' = faults + 1
  /\ Fail
  /\ UNCHANGED <<demand, token, outside>>

-----------------------------------------------------------------------------
(* Other users of the registry *)

\* The history covers the listing: it starts anew until the ping is answered.
Record(tags) ==
  /\ always' = IF call = "ping" THEN tags ELSE always \intersect tags
  /\ ever' = IF call = "ping" THEN tags ELSE ever \union tags

Change(tags) ==
  /\ pc # "done"
  /\ changes < MaxChanges
  /\ changes' = changes + 1
  /\ hub' = tags
  /\ Record(tags)
  /\ UNCHANGED <<site, pc, call, url, demand, token, page, listed, result, faults>>

Push == \E t \in Tag \ hub : Change(hub \union {t})

Delete == \E t \in hub : Change(hub \ {t})

Client == GetRelative \/ Get \/ AskToken \/ Retry

Next == Client \/ Fault \/ Push \/ Delete

Spec == Init /\ [][Next]_vars

FairSpec == Spec /\ WF_vars(Client)

-----------------------------------------------------------------------------
(* Properties *)

Listed == {t \in Tag : listed[t] > 0}

TypeOK ==
  /\ site \in Sites
  /\ hub \in SUBSET Tag
  /\ pc \in {"get", "auth", "retry", "done"}
  /\ call \in {"ping", "tags"}
  /\ url \in [host : {"registry", "other", "none"}, last : Tag \union {NoTag}]
  /\ DOMAIN demand = {"realm", "service", "scope"}
  /\ token \in {"none", "good", ""}
  /\ page \in SUBSET Tag
  /\ listed \in [Tag -> 0..2]
  /\ result \in {"", "ok", "error"}
  /\ always \in SUBSET Tag /\ ever \in SUBSET Tag
  /\ changes \in 0..MaxChanges /\ faults \in 0..MaxFaults

\* A listing that succeeds has every tag the registry held all through it and
\* no tag the registry did not hold at some moment of it, however its pages were
\* cut and whatever was pushed and deleted between them (Registry.Tags).
ListedIsHeld == result = "ok" => always \subseteq Listed /\ Listed \subseteq ever

\* No page repeats a tag of an earlier page (getNextLink, Registry.Tags).
NoDuplicates == \A t \in Tag : listed[t] < 2

\* The release GetLatestReleaseTag takes from a listing is no older than any
\* release that was there all along.
LatestIsRecent ==
  result = "ok" => \A t \in always \intersect Release :
                     ~Older(GetLatestReleaseTag(Listed), t)

\* The token is asked of the service the registry's challenge names, and for the
\* configured scope, in whatever order, case, spacing or quotes the challenge is
\* written (parseOauthHeader, TokenTransport.auth).
TokenAskedOfService == pc \in {"auth", "retry"} => demand = site.service

\* What justifies a failure: an exchange that failed, credentials that do not
\* do, a relative link, a link to a host the credentials are not for.
Excuse ==
  \/ faults > 0
  \/ site.auth # "open" /\ ~site.grants
  \/ site.auth = "basic" /\ ~site.creds
  \/ url.host = "none"
  \/ url.host = "other" /\ site.auth = "basic"

\* New and GetAllTags fail only with an excuse: a token is obtained for each page
\* as it is needed (TokenTransport.RoundTrip).
FailsWithExcuse == result = "error" => Excuse

\* A listing ends, in success or failure, once the registry holds still.
ListingEnds == <>(pc = "done")
===============================================================================
