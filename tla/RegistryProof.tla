----------------------------- MODULE RegistryProof -----------------------------
(***************************************************************************)
(* Proofs about Registry: whatever the registry, however it cuts its pages *)
(* and whatever is pushed and deleted between them, a listing repeats no   *)
(* tag, misses none that stayed and invents none, and fails for a reason.  *)
(***************************************************************************)
EXTENDS Registry, TagsProof, SequenceTheorems

-----------------------------------------------------------------------------
(* The invariant *)

\* While pages are read, what was listed is what lies up to the last tag of the
\* page before: every tag that stayed, none that was never there.
Reading ==
  /\ call = "ping" => url.last = NoTag
  /\ \A t \in Tag : listed[t] > 0 => ~After(t, url.last)
  /\ \A t \in always : After(t, url.last) \/ listed[t] > 0

History ==
  /\ always \subseteq hub
  /\ hub \subseteq ever
  /\ ever \subseteq Tag

Types ==
  /\ listed \in [Tag -> 0..2]
  /\ url.last \in Tag \union {NoTag}
  /\ result = "ok" => pc = "done"

IInv ==
  /\ Types
  /\ History
  /\ NoDuplicates
  /\ Listed \subseteq ever
  /\ pc # "done" => Reading
  /\ ListedIsHeld

-----------------------------------------------------------------------------
(* Links and pages *)

LEMMA MinOfOne == ASSUME NEW n \in Int PROVE Min({n}) = n
BY DEF Min

LEMMA NoLinkBack == ~GetNextLink(LinksBack).found
<1>1. \A i \in DOMAIN LinksBack : LinksBack[i].rel # "next"
  BY DEF LinksBack, Link
<1> QED
  BY <1>1 DEF GetNextLink

LEMMA LinkAhead ==
  ASSUME NEW cut \in Tag
  PROVE  /\ GetNextLink(LinksAhead(cut)).found
         /\ GetNextLink(LinksAhead(cut)).page = Page(Host, cut)
<1> DEFINE links == LinksAhead(cut)
           next == {i \in DOMAIN links : links[i].rel = "next"}
<1>1. \E n \in {1, 2} : next = {n} /\ links[n] = Link("next", cut)
  BY DEF LinksAhead, Link
<1>2. PICK n \in {1, 2} : next = {n} /\ links[n] = Link("next", cut)
  BY <1>1
<1>3. next # {} /\ Min(next) = n
  <2>1. n \in Int
    BY <1>2
  <2> QED
    BY <1>2, <2>1, MinOfOne, Zenon
<1>4. GetNextLink(links) = [found |-> TRUE, page |-> links[n].page]
  BY <1>3, Zenon DEF GetNextLink
<1>5. links[n].page = Page(Host, cut)
  BY <1>2 DEF Link
<1> QED
  BY <1>4, <1>5

\* A page is what is left of the registry, up to a cut if it links to the next.
LEMMA PageIsARange ==
  ASSUME IInv, NEW response \in Pages
  PROVE  /\ response.named
         /\ ~IsError(response.status)
         /\ LET link == GetNextLink(response.links)
            IN  \/ /\ ~link.found
                   /\ response.tags = {t \in hub : After(t, url.last)}
                \/ \E cut \in hub :
                     /\ link.found /\ link.page = Page(Host, cut)
                     /\ After(cut, url.last)
                     /\ response.tags =
                          {t \in hub : After(t, url.last) /\ ~After(t, cut)}
<1> DEFINE left == {t \in hub : After(t, url.last)}
<1>1. CASE response = Response(200, left, LinksBack)
  <2>1. /\ response.status = 200 /\ response.named
        /\ response.tags = left /\ response.links = LinksBack
    BY <1>1 DEF Response
  <2> QED
    BY <2>1, NoLinkBack DEF IsError
<1>2. ASSUME NEW cut \in left,
             response = Response(200, {t \in left : ~After(t, cut)}, LinksAhead(cut))
      PROVE  /\ response.named
             /\ ~IsError(response.status)
             /\ GetNextLink(response.links).found
             /\ GetNextLink(response.links).page = Page(Host, cut)
             /\ response.tags = {t \in hub : After(t, url.last) /\ ~After(t, cut)}
  <2>1. /\ response.status = 200 /\ response.named
        /\ response.tags = {t \in left : ~After(t, cut)}
        /\ response.links = LinksAhead(cut)
    BY <1>2 DEF Response
  <2>2. cut \in Tag
    BY DEF IInv, History
  <2> QED
    BY <2>1, <2>2, LinkAhead DEF IsError
<1> QED
  BY <1>1, <1>2 DEF Pages

-----------------------------------------------------------------------------
(* Steps of the client *)

\* A failure lists nothing more.
LEMMA FailSafe ==
  ASSUME IInv, pc # "done", Fail, UNCHANGED outside
  PROVE  IInv'
BY DEF IInv, Types, History, NoDuplicates, Listed, Reading, ListedIsHeld, Fail, outside

\* Another step of a round trip, before the answer.
LEMMA OnTheWay ==
  ASSUME IInv, pc # "done", pc' # "done",
         UNCHANGED <<call, url, page, listed, result, outside>>
  PROVE  IInv'
BY DEF IInv, Types, History, NoDuplicates, Listed, Reading, After, ListedIsHeld, outside

LEMMA PingedSafe ==
  ASSUME IInv, pc # "done", NEW response, Pinged(response), UNCHANGED outside
  PROVE  IInv'
BY DEF IInv, Types, History, NoDuplicates, Listed, Reading, After, ListedIsHeld,
       Pinged, outside

LEMMA DecodedSafe ==
  ASSUME IInv, pc # "done", NEW response \in Pages, Decoded(response),
         UNCHANGED outside
  PROVE  IInv'
<1> DEFINE link == GetNextLink(response.links)
           left == {t \in hub : After(t, url.last)}
<1>1. /\ response.named
      /\ \/ ~link.found /\ response.tags = left
         \/ \E cut \in hub :
              /\ link.found /\ link.page = Page(Host, cut)
              /\ After(cut, url.last)
              /\ response.tags = {t \in hub : After(t, url.last) /\ ~After(t, cut)}
  BY PageIsARange
<1>2. /\ page' = response.tags
      /\ page' \subseteq left
      /\ left \subseteq Tag
  BY <1>1 DEF Decoded, IInv, History
<1>3. \A t \in Tag : /\ t \in page' => listed[t] = 0 /\ listed'[t] = 1
                     /\ t \notin page' => listed'[t] = listed[t]
  <2>1. \A t \in Tag : /\ listed[t] \in {0, 1}
                       /\ t \in page' => listed[t] = 0
                       /\ listed'[t] = Twice(listed[t] + (IF t \in page' THEN 1 ELSE 0))
    BY <1>2 DEF Decoded, IInv, Types, NoDuplicates, Reading
  <2> QED
    BY <2>1 DEF Twice
<1>4. /\ listed' \in [Tag -> 0..2]
      /\ NoDuplicates'
      /\ Listed' = Listed \union page'
  <2>1. \A t \in Tag : listed[t] \in {0, 1} /\ listed'[t] \in {0, 1}
    BY <1>3 DEF IInv, Types, NoDuplicates
  <2>2. listed' = [t \in Tag |-> listed'[t]]
    BY DEF Decoded
  <2>3. listed' \in [Tag -> 0..2]
    BY <2>1, <2>2
  <2>4. NoDuplicates'
    BY <2>1 DEF NoDuplicates
  <2>5. Listed' = Listed \union page'
    BY <1>2, <1>3, <2>1 DEF Listed
  <2> QED
    BY <2>3, <2>4, <2>5
<1>5. History' /\ (Listed \subseteq ever)'
  BY <1>2, <1>4 DEF IInv, History, outside
<1>6. CASE ~link.found
  <2>1. pc' = "done" /\ result' = "ok" /\ url' = url
    BY <1>6 DEF Decoded
  <2>2. page' = left
    BY <1>1, <1>2, <1>6
  <2>3. always \subseteq Listed'
    BY <1>4, <2>2 DEF IInv, Reading, History, Listed
  <2>4. ListedIsHeld'
    BY <1>5, <2>3 DEF ListedIsHeld, outside
  <2> QED
    BY <1>4, <1>5, <2>1, <2>4 DEF IInv, Types
<1>7. CASE link.found
  <2>1. pc' = "get" /\ url' = link.page /\ result' = result /\ call' = "tags"
    BY <1>7 DEF Decoded, FollowLink
  <2>2. PICK cut \in hub :
          /\ link.page = Page(Host, cut)
          /\ After(cut, url.last)
          /\ page' = {t \in hub : After(t, url.last) /\ ~After(t, cut)}
    BY <1>1, <1>2, <1>7
  <2>3. url'.last = cut /\ cut \in Tag /\ cut # NoTag
    BY <2>1, <2>2, TagAssumption DEF Page, IInv, History
  <2>4. \A t \in Tag : ~After(t, url.last) => ~After(t, cut)
    <3>1. \A t \in Tag : SortKey[t] \in Nat
      BY TagAssumption
    <3>2. url.last \in Tag \union {NoTag}
      BY DEF IInv, Types
    <3> QED
      BY <2>2, <2>3, <3>1, <3>2 DEF After
  <2>5. \A t \in Tag : listed'[t] > 0 => ~After(t, cut)
    BY <1>3, <2>2, <2>4 DEF IInv, Reading
  <2>6. \A t \in always : After(t, cut) \/ listed'[t] > 0
    BY <1>3, <2>2 DEF IInv, Reading, History
  <2>7. Reading'
    BY <2>1, <2>3, <2>5, <2>6 DEF Reading, After, outside
  <2>8. result' # "ok"
    BY <2>1 DEF IInv, Types
  <2> QED
    BY <1>4, <1>5, <2>1, <2>3, <2>7, <2>8 DEF IInv, Types, ListedIsHeld
<1> QED
  BY <1>6, <1>7

LEMMA AnswerSafe ==
  ASSUME IInv, pc # "done", NEW response \in Answers, Receive(response),
         UNCHANGED outside
  PROVE  IInv'
<1>1. CASE Fail
  BY <1>1, FailSafe
<1>2. CASE Pinged(response)
  BY <1>2, PingedSafe
<1>3. CASE Decoded(response)
  <2>1. response \in Pages
    BY <1>3 DEF Answers, Decoded
  <2> QED
    BY <1>3, <2>1, DecodedSafe
<1> QED
  BY <1>1, <1>2, <1>3 DEF Receive

LEMMA RefusalFails == ASSUME Receive(Refusal) PROVE Fail
BY DEF Receive, Refusal, Response, IsError

LEMMA GetSafe == ASSUME IInv, Get PROVE IInv'
<1>1. pc # "done" /\ UNCHANGED outside
  BY DEF Get
<1>2. CASE \E response \in Answers : Receive(response)
  BY <1>1, <1>2, AnswerSafe
<1>3. CASE pc' = "auth" /\ UNCHANGED <<call, url, page, listed, result>>
  BY <1>1, <1>3, OnTheWay
<1>4. CASE Receive(Refusal)
  BY <1>1, <1>4, RefusalFails, FailSafe
<1> QED
  BY <1>2, <1>3, <1>4 DEF Get

LEMMA AskTokenSafe == ASSUME IInv, AskToken PROVE IInv'
<1>1. pc # "done" /\ UNCHANGED outside
  BY DEF AskToken
<1>2. CASE Fail
  BY <1>1, <1>2, FailSafe
<1>3. CASE pc' = "retry" /\ UNCHANGED <<call, url, page, listed, result>>
  BY <1>1, <1>3, OnTheWay
<1> QED
  BY <1>2, <1>3 DEF AskToken

LEMMA RetrySafe == ASSUME IInv, Retry PROVE IInv'
<1>1. pc # "done" /\ UNCHANGED outside
  BY DEF Retry
<1>2. CASE \E response \in Answers : Receive(response)
  BY <1>1, <1>2, AnswerSafe
<1>3. CASE Receive(Refusal)
  BY <1>1, <1>3, RefusalFails, FailSafe
<1> QED
  BY <1>2, <1>3 DEF Retry

\* Pushes and deletions, whose tags the history follows.
LEMMA ChangeSafe ==
  ASSUME IInv, NEW tags \in SUBSET Tag, Change(tags)
  PROVE  IInv'
<1>1. /\ pc # "done" /\ result # "ok" /\ hub' = tags
      /\ UNCHANGED <<pc, call, url, listed, result>>
  BY DEF Change, IInv, Types
<1>2. CASE call = "ping"
  <2>1. always' = tags /\ ever' = tags
    BY <1>2 DEF Change, Record
  <2>2. Listed = {}
    BY <1>1, <1>2 DEF IInv, Reading, After, Listed
  <2> QED
    BY <1>1, <1>2, <2>1, <2>2
       DEF IInv, Types, History, NoDuplicates, Listed, Reading, After, ListedIsHeld
<1>3. CASE call # "ping"
  <2>1. always' = always \intersect tags /\ ever' = ever \union tags
    BY <1>3 DEF Change, Record
  <2> QED
    BY <1>1, <1>3, <2>1
       DEF IInv, Types, History, NoDuplicates, Listed, Reading, After, ListedIsHeld
<1> QED
  BY <1>2, <1>3

-----------------------------------------------------------------------------
(* The theorem *)

THEOREM Invariance == Spec => []IInv
<1>1. Init => IInv
  <2> SUFFICES ASSUME Init PROVE IInv
    OBVIOUS
  <2>1. /\ hub \in SUBSET Tag /\ always = hub /\ ever = hub
        /\ pc = "get" /\ result # "ok"
        /\ url = Page("registry", NoTag)
        /\ listed = [t \in Tag |-> 0]
    BY Zenon DEF Init
  <2>2. url.last = NoTag
    BY <2>1 DEF Page
  <2>3. \A t \in Tag : listed[t] = 0
    BY <2>1
  <2>4. Listed = {} /\ NoDuplicates
    BY <2>3 DEF Listed, NoDuplicates
  <2>5. Types /\ History /\ ListedIsHeld
    BY <2>1, <2>2 DEF Types, History, ListedIsHeld
  <2>6. Reading
    BY <2>1, <2>2, <2>3 DEF Reading, After
  <2> QED
    BY <2>4, <2>5, <2>6 DEF IInv
<1>2. IInv /\ [Next]_vars => IInv'
  <2> SUFFICES ASSUME IInv, [Next]_vars PROVE IInv'
    OBVIOUS
  <2>1. CASE GetRelative
    BY <2>1, FailSafe DEF GetRelative
  <2>2. CASE Get
    BY <2>2, GetSafe
  <2>3. CASE AskToken
    BY <2>3, AskTokenSafe
  <2>4. CASE Retry
    BY <2>4, RetrySafe
  <2>5. CASE Fault
    BY <2>5, FailSafe DEF Fault
  <2>6. CASE Push
    <3>1. PICK t \in Tag \ hub : Change(hub \union {t})
      BY <2>6 DEF Push
    <3>2. hub \union {t} \in SUBSET Tag
      BY DEF IInv, History
    <3> QED
      BY <3>1, <3>2, ChangeSafe
  <2>7. CASE Delete
    <3>1. PICK t \in hub : Change(hub \ {t})
      BY <2>7 DEF Delete
    <3>2. hub \ {t} \in SUBSET Tag
      BY DEF IInv, History
    <3> QED
      BY <3>1, <3>2, ChangeSafe
  <2>8. CASE UNCHANGED vars
    BY <2>8 DEF IInv, Types, History, NoDuplicates, Listed, Reading, After,
                ListedIsHeld, vars, outside
  <2> QED
    BY <2>1, <2>2, <2>3, <2>4, <2>5, <2>6, <2>7, <2>8 DEF Next, Client
<1> QED
  BY <1>1, <1>2, PTL DEF Spec

\* For any registry, any pages and any pushes and deletions between them, a
\* listing has what was there all along and nothing that was not there.
THEOREM ListingIsFaithful == Spec => []ListedIsHeld
BY Invariance, PTL DEF IInv

\* No tag is listed twice.
THEOREM ListingRepeatsNothing == Spec => []NoDuplicates
BY Invariance, PTL DEF IInv

\* What GetLatestReleaseTag takes from a listing is no older than any release that
\* stayed, for releases of any three numbers.
THEOREM LatestOfAListing == Spec => []LatestIsRecent
<1>1. IInv => LatestIsRecent
  <2> SUFFICES ASSUME IInv, result = "ok", NEW t \in always \intersect Release
               PROVE  ~Older(GetLatestReleaseTag(Listed), t)
    BY DEF LatestIsRecent
  <2>1. t \in Listed /\ Listed \in SUBSET Tag
    BY DEF IInv, ListedIsHeld, Listed
  <2>2. t \in FilterReleaseTags(Listed)
    BY <2>1 DEF FilterReleaseTags
  <2> QED
    BY <2>1, <2>2, LatestIsNewest
<1> QED
  BY <1>1, Invariance, PTL

-----------------------------------------------------------------------------
(* Types *)

\* What an answer may change, but for the listing (Types).
CallTypeOK ==
  /\ pc \in {"get", "auth", "retry", "done"}
  /\ call \in {"ping", "tags"}
  /\ url \in [host : {"registry", "other", "none"}, last : Tag \union {NoTag}]
  /\ page \in SUBSET Tag
  /\ result \in {"", "ok", "error"}

LEMMA FailTyped == ASSUME CallTypeOK, Fail PROVE CallTypeOK'
BY DEF CallTypeOK, Fail

LEMMA AnswerTyped ==
  ASSUME IInv, CallTypeOK, NEW response \in Answers, Receive(response)
  PROVE  CallTypeOK'
<1>1. CASE Fail
  BY <1>1, FailTyped
<1>2. CASE Pinged(response)
  BY <1>2 DEF Pinged, CallTypeOK
<1>3. CASE Decoded(response)
  <2> DEFINE link == GetNextLink(response.links)
  <2>1. response \in Pages
    BY <1>3 DEF Answers, Decoded
  <2>2. response.tags \in SUBSET Tag
    BY <2>1, PageIsARange DEF IInv, History
  <2>3. link.found => \E cut \in Tag : link.page = Page(Host, cut)
    BY <2>1, PageIsARange DEF IInv, History
  <2>4. page' \in SUBSET Tag
    BY <1>3, <2>2 DEF Decoded, CallTypeOK
  <2>5. Host \in {"registry", "other", "none"}
    BY DEF Host
  <2>6. CASE link.found
    <3>1. pc' = "get" /\ url' = link.page /\ call' = call /\ result' = result
      BY <1>3, <2>6 DEF Decoded, FollowLink
    <3>2. url' \in [host : {"registry", "other", "none"}, last : Tag \union {NoTag}]
      <4>1. PICK cut \in Tag : link.page = Page(Host, cut)
        BY <2>3, <2>6
      <4>2. url' = [host |-> Host, last |-> cut]
        BY <3>1, <4>1, Zenon DEF Page
      <4> QED
        BY <2>5, <4>2
    <3> QED
      BY <2>4, <3>1, <3>2 DEF CallTypeOK
  <2>7. CASE ~link.found
    BY <1>3, <2>4, <2>7 DEF Decoded, CallTypeOK
  <2> QED
    BY <2>6, <2>7
<1> QED
  BY <1>1, <1>2, <1>3 DEF Receive

\* What a challenge is read as has the three fields of authService.
LEMMA DemandIsAService ==
  ASSUME NEW s \in Sites
  PROVE  DOMAIN InjectScope(TokenDemand[s]) = {"realm", "service", "scope"}
<1>1. TokenDemand[s] = ParseOauthHeader(s.headers)
  BY DEF TokenDemand
<1>2. \E r, n, c : TokenDemand[s] = [realm |-> r, service |-> n, scope |-> c]
  BY <1>1, Zenon DEF ParseOauthHeader, NoService
<1> QED
  BY <1>2 DEF InjectScope

LEMMA ClientTyped ==
  ASSUME IInv, TypeOK, Client
  PROVE  /\ CallTypeOK'
         /\ DOMAIN demand' = {"realm", "service", "scope"}
         /\ token' \in {"none", "good", ""}
         /\ UNCHANGED <<faults, outside>>
<1>0. CallTypeOK /\ site \in Sites /\ DOMAIN demand = {"realm", "service", "scope"}
      /\ token \in {"none", "good", ""}
  BY DEF TypeOK, CallTypeOK
<1>1. CASE GetRelative
  BY <1>0, <1>1, FailTyped DEF GetRelative
<1>2. CASE Get
  <2>1. CASE (\E response \in Answers : Receive(response)) /\ UNCHANGED demand
    BY <1>0, <1>2, <2>1, AnswerTyped DEF Get
  <2>2. CASE /\ demand' = InjectScope(TokenDemand[site])
             /\ pc' = "auth"
             /\ UNCHANGED <<call, url, page, listed, result>>
    BY <1>0, <1>2, <2>2, DemandIsAService DEF Get, CallTypeOK
  <2>3. CASE Receive(Refusal) /\ UNCHANGED demand
    BY <1>0, <1>2, <2>3, RefusalFails, FailTyped DEF Get
  <2> QED
    BY <1>2, <2>1, <2>2, <2>3 DEF Get
<1>3. CASE AskToken
  <2>1. CASE Fail /\ UNCHANGED token
    BY <1>0, <1>3, <2>1, FailTyped DEF AskToken
  <2>2. CASE token' \in {"good", ""} /\ pc' = "retry"
             /\ UNCHANGED <<call, url, page, listed, result>>
    BY <1>0, <1>3, <2>2 DEF AskToken, CallTypeOK
  <2> QED
    BY <1>3, <2>1, <2>2 DEF AskToken
<1>4. CASE Retry
  <2>1. CASE \E response \in Answers : Receive(response)
    BY <1>0, <1>4, <2>1, AnswerTyped DEF Retry
  <2>2. CASE Receive(Refusal)
    BY <1>0, <1>4, <2>2, RefusalFails, FailTyped DEF Retry
  <2> QED
    BY <1>4, <2>1, <2>2 DEF Retry
<1> QED
  BY <1>1, <1>2, <1>3, <1>4 DEF Client

\* The counters stay within their bounds.
LEMMA Counted ==
  /\ 0 \in 0..MaxFaults /\ \A n \in 0..MaxFaults : n < MaxFaults => n + 1 \in 0..MaxFaults
  /\ \A n \in 0..MaxFaults : n + 1 > 0
  /\ 0 \in 0..MaxChanges /\ \A n \in 0..MaxChanges : n < MaxChanges => n + 1 \in 0..MaxChanges
<1>1. MaxChanges \in Nat /\ MaxFaults \in Nat
  BY RegistryAssumption, Zenon
<1> QED
  BY <1>1

LEMMA TypeStep == ASSUME IInv, IInv', TypeOK, [Next]_vars PROVE TypeOK'
<1>0. CallTypeOK
  BY DEF TypeOK, CallTypeOK
<1>1. Types' /\ History'
  BY DEF IInv
<1>2. CASE Client
  BY <1>1, <1>2, ClientTyped DEF TypeOK, CallTypeOK, Types, outside
<1>3. CASE Fault
  <2>1. CallTypeOK'
    BY <1>0, <1>3, FailTyped DEF Fault
  <2>2. faults' \in 0..MaxFaults
    BY <1>3, Counted, Zenon DEF Fault, TypeOK
  <2> QED
    BY <1>1, <1>3, <2>1, <2>2 DEF Fault, TypeOK, CallTypeOK, Types, outside
<1>4. ASSUME NEW tags \in SUBSET Tag, Change(tags) PROVE TypeOK'
  <2>1. changes' \in 0..MaxChanges
    BY <1>4, Counted, Zenon DEF Change, TypeOK
  <2>2. always' \in SUBSET Tag /\ ever' \in SUBSET Tag
    BY <1>4 DEF Change, Record, TypeOK
  <2> QED
    BY <1>4, <2>1, <2>2 DEF Change, TypeOK
<1>5. CASE Push \/ Delete
  BY <1>4, <1>5 DEF Push, Delete, TypeOK
<1>6. CASE UNCHANGED vars
  BY <1>6 DEF TypeOK, vars, outside
<1> QED
  BY <1>2, <1>3, <1>5, <1>6 DEF Next

\* Every variable keeps its type, whatever a challenge is read as.
THEOREM TypeCorrect == Spec => []TypeOK
<1>1. Init => TypeOK
  <2> SUFFICES ASSUME Init PROVE TypeOK
    OBVIOUS
  <2>1. DOMAIN demand = {"realm", "service", "scope"}
    BY DEF Init, NoService
  <2>2. url \in [host : {"registry", "other", "none"}, last : Tag \union {NoTag}]
    BY DEF Init, Page
  <2>3. listed \in [Tag -> 0..2]
    <3>1. listed = [t \in Tag |-> 0]
      BY Zenon DEF Init
    <3> QED
      BY <3>1
  <2>4. faults \in 0..MaxFaults /\ changes \in 0..MaxChanges
    BY Counted, Zenon DEF Init
  <2>5. /\ site \in Sites /\ hub \in SUBSET Tag
        /\ always \in SUBSET Tag /\ ever \in SUBSET Tag
    BY DEF Init
  <2>6. /\ pc \in {"get", "auth", "retry", "done"} /\ call \in {"ping", "tags"}
        /\ token \in {"none", "good", ""} /\ page \in SUBSET Tag
        /\ result \in {"", "ok", "error"}
    BY DEF Init
  <2> QED
    BY <2>1, <2>2, <2>3, <2>4, <2>5, <2>6 DEF TypeOK
<1>2. IInv /\ IInv' /\ TypeOK /\ [Next]_vars => TypeOK'
  BY TypeStep
<1> QED
  BY <1>1, <1>2, Invariance, PTL DEF Spec

-----------------------------------------------------------------------------
(* Reading a challenge *)

\* Every set of natural numbers but the empty one has a least.
LEMMA MinIsLeast ==
  ASSUME NEW S \in SUBSET Nat, S # {}
  PROVE  Min(S) \in S /\ \A n \in S : Min(S) <= n
<1>1. PICK m \in S : \A n \in S : ~ (<<n, m>> \in OpToRel(<, Nat))
  BY WFMin, NatLessThanWellFounded
<1>2. ASSUME NEW n \in S PROVE m <= n
  <2>1. ~(n < m)
    <3>1. SUFFICES ASSUME n < m PROVE FALSE
      OBVIOUS
    <3>2. <<n, m>> \in OpToRel(<, Nat)
      BY <3>1 DEF OpToRel
    <3> QED
      BY <1>1, <3>2
  <2> QED
    BY <2>1
<1> QED
  BY <1>2 DEF Min

\* The first position from i on with a property, given as the set of those.
LEMMA MinIs ==
  ASSUME NEW S \in SUBSET Nat, NEW m \in S, \A n \in S : m <= n
  PROVE  Min(S) = m
<1>1. Min(S) \in S /\ Min(S) <= m
  BY MinIsLeast
<1>2. Min(S) \in Nat /\ m \in Nat /\ m <= Min(S)
  BY <1>1
<1> QED
  BY <1>1, <1>2

LEMMA HeaderType ==
  ASSUME NEW h, IsHeader(h)
  PROVE  Len(h) \in Nat /\ DOMAIN h = 1..Len(h)
BY DEF IsHeader

LEMMA SpacesSkipped ==
  ASSUME NEW h, IsHeader(h), NEW i \in 1..(Len(h) + 1)
  PROVE  /\ SkipSpace(h, i) \in i..(Len(h) + 1)
         /\ \A j \in i..(Len(h) + 1) :
              OnlySpace(h, i, j) /\ (j <= Len(h) => h[j] \notin Space)
                => SkipSpace(h, i) = j
<1> DEFINE S == {j \in i..(Len(h) + 1) : j > Len(h) \/ h[j] \notin Space}
<1>1. /\ Len(h) \in Nat /\ S \in SUBSET Nat /\ Len(h) + 1 \in S
  BY HeaderType
<1>2. SkipSpace(h, i) = Min(S)
  BY DEF SkipSpace
<1>3. ASSUME NEW j \in i..(Len(h) + 1), OnlySpace(h, i, j), j <= Len(h) => h[j] \notin Space
      PROVE  Min(S) = j
  <2>1. j \in S
    BY <1>1, <1>3
  <2>2. \A k \in S : j <= k
    BY <1>1, <1>3 DEF OnlySpace
  <2> QED
    BY <1>1, <2>1, <2>2, MinIs
<1> HIDE DEF S
<1>4. Min(S) \in S
  BY <1>1, MinIsLeast
<1> QED
  BY <1>2, <1>3, <1>4 DEF S

LEMMA SliceIs ==
  ASSUME NEW h, IsHeader(h), NEW i \in 1..(Len(h) + 1), NEW j \in (i - 1)..Len(h)
  PROVE  /\ SubSeq(h, i, j) = <<>> <=> j < i
         /\ i <= j => SubSeq(h, i, j)[1] = h[i]
<1>1. h \in Seq({h[k] : k \in DOMAIN h}) /\ Len(h) \in Nat
  BY DEF IsHeader
<1>2. /\ Len(SubSeq(h, i, j)) = (IF i <= j THEN j - i + 1 ELSE 0)
      /\ SubSeq(h, i, j) \in Seq({h[k] : k \in DOMAIN h})
      /\ \A k \in 1..(j - i + 1) : SubSeq(h, i, j)[k] = h[i + k - 1]
  BY <1>1, SubSeqProperties
<1> QED
  BY <1>1, <1>2, EmptySeq

LEMMA TokenIs ==
  ASSUME NEW h, IsHeader(h), NEW i \in 1..(Len(h) + 1)
  PROVE  LET read == ExpectToken(h, i) IN
         IF i <= Len(h) /\ h[i] \in Word
         THEN read.value # <<>> /\ read.value[1] = h[i] /\ read.rest = i + 1
              /\ read.value = SubSeq(h, i, i)
         ELSE read.value = <<>> /\ read.rest = i
<1>1. Len(h) \in Nat
  BY HeaderType
<1>2. SubSeq(h, i, i - 1) = <<>>
  BY <1>1, SliceIs
<1>3. i <= Len(h) => SubSeq(h, i, i) # <<>> /\ SubSeq(h, i, i)[1] = h[i]
  BY <1>1, SliceIs
<1> QED
  BY <1>1, <1>2, <1>3 DEF ExpectToken, Read

\* Whatever is read ends within the header.
LEMMA ValueEnds ==
  ASSUME NEW h, IsHeader(h), NEW i \in 1..(Len(h) + 1)
  PROVE  ExpectTokenOrQuoted(h, i).rest \in i..(Len(h) + 1)
<1>1. Len(h) \in Nat
  BY HeaderType
<1>2. CASE ~Has(h, i, Quote)
  BY <1>1, <1>2, TokenIs DEF ExpectTokenOrQuoted
<1>3. CASE Has(h, i, Quote)
  <2> DEFINE ends == {j \in (i + 1)..Len(h) : h[j] = Quote}
  <2>1. ends \in SUBSET Nat
    BY <1>1
  <2>2. ends # {} => Min(ends) \in ends
    BY <2>1, MinIsLeast
  <2>3. ExpectTokenOrQuoted(h, i) =
          IF ends = {} THEN Read(h, i, i - 1, Len(h) + 1)
          ELSE Read(h, i + 1, Min(ends) - 1, Min(ends) + 1)
    BY <1>3 DEF ExpectTokenOrQuoted
  <2>4. ends # {} => Min(ends) \in (i + 1)..Len(h)
    BY <2>2
  <2> HIDE DEF ends
  <2> QED
    BY <1>1, <2>3, <2>4 DEF Read
<1> QED
  BY <1>2, <1>3

LEMMA QuotedIs ==
  ASSUME NEW h, IsHeader(h), NEW i \in 1..(Len(h) + 1),
         NEW first \in Nat, NEW last \in Nat,
         first = i + 1, first <= last, Has(h, i, Quote), Has(h, last + 1, Quote),
         \A j \in first..last : h[j] # Quote
  PROVE  LET value == ExpectTokenOrQuoted(h, i) IN
         /\ value.value = SubSeq(h, first, last) /\ value.value # <<>>
         /\ value.rest = last + 2 /\ last + 2 <= Len(h) + 1
<1> DEFINE ends == {j \in (i + 1)..Len(h) : h[j] = Quote}
<1>1. Len(h) \in Nat /\ last + 1 <= Len(h) /\ h[last + 1] = Quote
  BY HeaderType DEF Has
<1>2. ends \in SUBSET Nat /\ last + 1 \in ends
  BY <1>1
<1>3. \A j \in ends : last + 1 <= j
  BY <1>1
<1>4. ExpectTokenOrQuoted(h, i) =
        IF ends = {} THEN Read(h, i, i - 1, Len(h) + 1)
        ELSE Read(h, i + 1, Min(ends) - 1, Min(ends) + 1)
  BY DEF ExpectTokenOrQuoted
<1> HIDE DEF ends
<1>5. ends # {} /\ Min(ends) = last + 1
  BY <1>2, <1>3, MinIs
<1>6. Min(ends) - 1 = last /\ Min(ends) + 1 = last + 2
  BY <1>5
<1>7. ExpectTokenOrQuoted(h, i) = Read(h, first, last, last + 2)
  BY <1>4, <1>5, <1>6
<1>8. SubSeq(h, first, last) # <<>>
  BY <1>1, SliceIs
<1> QED
  BY <1>1, <1>7, <1>8 DEF Read

\* A parameter is read as it is written.
LEMMA ParameterIsRead ==
  ASSUME NEW h, IsHeader(h), NEW p \in Place, IsWritten(h, p)
  PROVE  /\ p.at \in 1..Len(h) /\ h[p.at] \in Word /\ Has(h, p.at + 1, Equals)
         /\ p.after \in (p.at + 3)..(Len(h) + 1)
         /\ ExpectToken(h, p.at).value # <<>>
         /\ ExpectToken(h, p.at).value[1] = h[p.at]
         /\ ExpectToken(h, p.at).rest = p.at + 1
         /\ ExpectTokenOrQuoted(h, p.at + 2).value = Value(h, p)
         /\ Value(h, p) # <<>>
         /\ ExpectTokenOrQuoted(h, p.at + 2).rest = p.after
<1>1. PICK at \in Nat, first \in Nat, last \in Nat, after \in Nat :
        p.at = at /\ p.first = first /\ p.last = last /\ p.after = after
  BY DEF Place
<1>2. at \in 1..Len(h) /\ h[at] \in Word /\ Has(h, at + 1, Equals)
  BY <1>1 DEF IsWritten
<1>3. /\ Len(h) \in Nat /\ at \in 1..(Len(h) + 1) /\ at + 2 \in 1..(Len(h) + 1)
      /\ (at + 2) + 1 = at + 3
  BY <1>2, HeaderType DEF Has
<1>4. /\ ExpectToken(h, at).value # <<>>
      /\ ExpectToken(h, at).value[1] = h[at]
      /\ ExpectToken(h, at).rest = at + 1
  BY <1>2, <1>3, TokenIs
<1>5. /\ after \in (at + 3)..(Len(h) + 1)
      /\ ExpectTokenOrQuoted(h, at + 2).value = SubSeq(h, first, last)
      /\ SubSeq(h, first, last) # <<>>
      /\ ExpectTokenOrQuoted(h, at + 2).rest = after
  <2>1. CASE /\ first = at + 2 /\ first = last /\ after = at + 3
             /\ first <= Len(h) /\ h[first] \in Word
    <3>1. ExpectTokenOrQuoted(h, at + 2) = ExpectToken(h, at + 2)
      BY <2>1, ChallengeAssumption DEF Has, Separators, ExpectTokenOrQuoted
    <3>2. /\ ExpectToken(h, at + 2).value # <<>>
          /\ ExpectToken(h, at + 2).value = SubSeq(h, at + 2, at + 2)
          /\ ExpectToken(h, at + 2).rest = (at + 2) + 1
      BY <1>3, <2>1, TokenIs
    <3>3. (at + 2) + 1 = after /\ after \in (at + 3)..(Len(h) + 1)
      BY <1>3, <2>1
    <3> QED
      BY <2>1, <3>1, <3>2, <3>3
  <2>2. CASE /\ Has(h, at + 2, Quote)
             /\ first = at + 3 /\ first <= last /\ after = last + 2
             /\ \A i \in first..last : h[i] # Quote
             /\ Has(h, last + 1, Quote)
    <3>1. first = (at + 2) + 1
      BY <1>3, <2>2
    <3>2. /\ ExpectTokenOrQuoted(h, at + 2).value = SubSeq(h, first, last)
          /\ ExpectTokenOrQuoted(h, at + 2).value # <<>>
          /\ ExpectTokenOrQuoted(h, at + 2).rest = last + 2
          /\ last + 2 <= Len(h) + 1
      BY <1>3, <2>2, <3>1, QuotedIs
    <3>3. after \in (at + 3)..(Len(h) + 1)
      BY <1>3, <2>2, <3>2
    <3> QED
      BY <2>2, <3>2, <3>3
  <2>3. \/ /\ first = at + 2 /\ first = last /\ after = at + 3
           /\ first <= Len(h) /\ h[first] \in Word
        \/ /\ Has(h, at + 2, Quote)
           /\ first = at + 3 /\ first <= last /\ after = last + 2
           /\ \A i \in first..last : h[i] # Quote
           /\ Has(h, last + 1, Quote)
    BY <1>1 DEF IsWritten
  <2> QED
    BY <2>1, <2>2, <2>3
<1> QED
  BY <1>1, <1>2, <1>4, <1>5 DEF Value

\* What is read at a position depends on later positions only.
LEMMA ParamsLookAhead ==
  ASSUME NEW h, IsHeader(h), NEW i \in 1..(Len(h) + 1), NEW f, NEW g,
         \A j \in (i + 1)..(Len(h) + 1) : f[j] = g[j]
  PROVE  ParamsAt(h, f, i) = ParamsAt(h, g, i)
<1> DEFINE start == SkipSpace(h, i)
           key   == ExpectToken(h, start)
           value == ExpectTokenOrQuoted(h, key.rest + 1)
           next  == SkipSpace(h, value.rest)
<1>1. Len(h) \in Nat /\ start \in i..(Len(h) + 1)
  BY HeaderType, SpacesSkipped
<1>2. CASE key.value = <<>> \/ ~Has(h, key.rest, Equals)
  BY <1>2 DEF ParamsAt
<1>3. CASE key.value # <<>> /\ Has(h, key.rest, Equals)
  <2>1. key.rest = start + 1 /\ key.rest <= Len(h)
    <3>1. start \in 1..(Len(h) + 1)
      BY <1>1
    <3> HIDE DEF start
    <3> QED
      BY <1>3, <3>1, TokenIs DEF Has
  <2>2. value.rest \in (key.rest + 1)..(Len(h) + 1)
    <3>1. key.rest + 1 \in 1..(Len(h) + 1)
      BY <1>1, <2>1
    <3> HIDE DEF key
    <3> QED
      BY <3>1, ValueEnds
  <2>3. value.rest \in 1..(Len(h) + 1) /\ value.rest > i
    <3> HIDE DEF start, key, value
    <3> QED
      BY <1>1, <2>1, <2>2
  <2>4. next \in value.rest..(Len(h) + 1)
    <3> HIDE DEF value
    <3> QED
      BY <2>3, SpacesSkipped
  <2>5. Has(h, next, Comma) => f[next + 1] = g[next + 1]
    <3>1. SUFFICES ASSUME Has(h, next, Comma)
                   PROVE  next + 1 \in (i + 1)..(Len(h) + 1)
      OBVIOUS
    <3>2. next <= Len(h)
      BY <3>1 DEF Has
    <3> HIDE DEF value, next
    <3> QED
      BY <1>1, <2>3, <2>4, <3>2
  <2> QED
    BY <2>5 DEF ParamsAt
<1> QED
  BY <1>2, <1>3

\* There is a function that reads parameters at every position: one that does
\* so from some position on can be had for the position before.
LEMMA ParamsAreThere ==
  ASSUME NEW h, IsHeader(h)
  PROVE  \A i \in 1..(Len(h) + 1) :
           ParamsFrom(h)[i] = ParamsAt(h, ParamsFrom(h), i)
<1> DEFINE N == Len(h) + 1
           Reads(f, d) == \A i \in 1..N : i >= N - d => f[i] = ParamsAt(h, f, i)
           Bad == {d \in Nat : \A f : ~Reads(f, d)}
<1>0. N \in Nat
  BY HeaderType
<1>1. ASSUME NEW f, NEW g, NEW i \in 1..N, \A j \in 1..N : j > i => f[j] = g[j]
      PROVE  ParamsAt(h, f, i) = ParamsAt(h, g, i)
  BY <1>0, <1>1, ParamsLookAhead
<1> HIDE DEF N
<1>2. ASSUME NEW d \in Nat, NEW f, \A i \in 1..N : i > N - d => f[i] = ParamsAt(h, f, i)
      PROVE  \E g : Reads(g, d)
  <2> DEFINE g == [i \in 1..N |-> IF i > N - d THEN f[i] ELSE ParamsAt(h, f, i)]
  <2>1. ASSUME NEW i \in 1..N, i >= N - d
        PROVE  g[i] = ParamsAt(h, g, i)
    <3>1. \A j \in 1..N : j > i => f[j] = g[j]
      BY <1>0, <2>1
    <3>2. ParamsAt(h, f, i) = ParamsAt(h, g, i)
      <4> HIDE DEF g
      <4> QED
        BY <1>1, <3>1
    <3>3. g[i] = ParamsAt(h, f, i)
      BY <1>0, <1>2, <2>1
    <3> QED
      BY <3>2, <3>3
  <2>2. Reads(g, d)
    BY <2>1
  <2> QED
    BY <2>2
<1>3. Bad = {}
  <2>1. SUFFICES ASSUME Bad # {} PROVE FALSE
    OBVIOUS
  <2>2. Bad \in SUBSET Nat
    OBVIOUS
  <2>3. PICK d \in Bad : \A n \in Bad : d <= n
    <3> HIDE DEF Bad
    <3> QED
      BY <2>1, <2>2, MinIsLeast
  <2>4. d \in Nat /\ \A f : ~Reads(f, d)
    OBVIOUS
  <2>5. \E f : \A i \in 1..N : i > N - d => f[i] = ParamsAt(h, f, i)
    <3>1. CASE d = 0
      BY <1>0, <3>1
    <3>2. CASE d > 0
      <4>1. d - 1 \in Nat /\ d - 1 \notin Bad
        <5> HIDE DEF Bad
        <5> QED
          BY <2>3, <2>4, <3>2
      <4>2. PICK f : Reads(f, d - 1)
        BY <4>1
      <4>3. \A i \in 1..N : i > N - d => i >= N - (d - 1)
        BY <1>0, <2>4
      <4> QED
        BY <4>2, <4>3
    <3> QED
      BY <2>4, <3>1, <3>2
  <2> QED
    BY <1>2, <2>4, <2>5
<1>4. PICK f : \A i \in 1..N : f[i] = ParamsAt(h, f, i)
  <2>1. N \notin Bad
    BY <1>3
  <2>2. PICK f : Reads(f, N)
    BY <1>0, <2>1
  <2> QED
    BY <1>0, <2>2
<1>5. PICK g : g = [i \in 1..N |-> ParamsAt(h, g, i)]
  <2> DEFINE g == [i \in 1..N |-> f[i]]
  <2>1. ASSUME NEW i \in 1..N PROVE f[i] = ParamsAt(h, g, i)
    <3>1. \A j \in 1..N : j > i => f[j] = g[j]
      OBVIOUS
    <3> HIDE DEF g
    <3> QED
      BY <1>1, <1>4, <3>1
  <2>2. g = [i \in 1..N |-> ParamsAt(h, g, i)]
    <3>1. [i \in 1..N |-> ParamsAt(h, g, i)] = [i \in 1..N |-> f[i]]
      <4> HIDE DEF g
      <4> QED
        BY <2>1
    <3> QED
      BY <3>1
  <2> HIDE DEF g
  <2> QED
    BY <2>2
<1>6. ParamsFrom(h) = [i \in 1..N |-> ParamsAt(h, ParamsFrom(h), i)]
  BY <1>5 DEF ParamsFrom, N
<1>7. \A i \in 1..N : ParamsFrom(h)[i] = ParamsAt(h, ParamsFrom(h), i)
  <2> HIDE DEF ParamsFrom
  <2> QED
    BY <1>6
<1> QED
  BY <1>7 DEF N

\* A parameter is added to those that follow it, which count for more.
WithParameter(later, name, value) ==
  [k \in DOMAIN later \union {name} |->
     IF k \in DOMAIN later THEN later[k] ELSE value]

LEMMA ParameterIsAdded ==
  ASSUME NEW h, IsHeader(h), NEW p \in Place, IsWritten(h, p), NEW f,
         NEW i \in 1..(Len(h) + 1), OnlySpace(h, i, p.at)
  PROVE  LET next == SkipSpace(h, p.after)
             later == IF Has(h, next, Comma) THEN f[next + 1] ELSE NoParams
         IN  ParamsAt(h, f, i) = WithParameter(later, Key(h, p), Value(h, p))
<1>1. /\ Len(h) \in Nat /\ p.at \in 1..Len(h) /\ h[p.at] \in Word
      /\ Has(h, p.at + 1, Equals)
      /\ ExpectToken(h, p.at).value # <<>>
      /\ ExpectToken(h, p.at).value[1] = h[p.at]
      /\ ExpectToken(h, p.at).rest = p.at + 1
      /\ ExpectTokenOrQuoted(h, p.at + 2).value = Value(h, p)
      /\ Value(h, p) # <<>>
      /\ ExpectTokenOrQuoted(h, p.at + 2).rest = p.after
  BY ParameterIsRead, HeaderType
<1>2. p.at \in Nat /\ (p.at + 1) + 1 = p.at + 2
  BY DEF Place
<1>3. SkipSpace(h, i) = p.at
  <2>1. p.at \in i..(Len(h) + 1)
    BY <1>1, <1>2 DEF OnlySpace
  <2>2. h[p.at] \notin Space
    BY <1>1, ChallengeAssumption
  <2> QED
    BY <2>1, <2>2, SpacesSkipped
<1> QED
  BY <1>1, <1>2, <1>3 DEF ParamsAt, WithParameter, Key

\* f holds what the parameters from the k-th on say.
Holds(h, ps, k, f) ==
  /\ DOMAIN f = {Key(h, ps[j]) : j \in k..Len(ps)}
  /\ \A j \in k..Len(ps) :
       (\A l \in (j + 1)..Len(ps) : Key(h, ps[l]) # Key(h, ps[j]))
         => f[Key(h, ps[j])] = Value(h, ps[j])

LEMMA HoldsMore ==
  ASSUME NEW h, NEW ps, Len(ps) \in Nat, NEW k \in 1..Len(ps), NEW later,
         IF k = Len(ps) THEN later = NoParams ELSE Holds(h, ps, k + 1, later)
  PROVE  Holds(h, ps, k, WithParameter(later, Key(h, ps[k]), Value(h, ps[k])))
<1> DEFINE f == WithParameter(later, Key(h, ps[k]), Value(h, ps[k]))
<1>1. DOMAIN later = {Key(h, ps[j]) : j \in (k + 1)..Len(ps)}
  <2>1. CASE k = Len(ps)
    <3>1. (k + 1)..Len(ps) = {} /\ later = NoParams
      BY <2>1
    <3>2. DOMAIN NoParams = {}
      BY DEF NoParams
    <3> QED
      BY <3>1, <3>2
  <2>2. CASE k # Len(ps)
    BY <2>2 DEF Holds
  <2> QED
    BY <2>1, <2>2
<1>2. DOMAIN f = {Key(h, ps[j]) : j \in k..Len(ps)}
  <2>1. k..Len(ps) = {k} \union (k + 1)..Len(ps)
    OBVIOUS
  <2> QED
    BY <1>1, <2>1 DEF WithParameter
<1>3. ASSUME NEW j \in k..Len(ps),
             \A l \in (j + 1)..Len(ps) : Key(h, ps[l]) # Key(h, ps[j])
      PROVE  f[Key(h, ps[j])] = Value(h, ps[j])
  <2>1. CASE j = k
    BY <1>1, <1>3, <2>1 DEF WithParameter
  <2>2. CASE j # k
    <3>1. j \in (k + 1)..Len(ps) /\ k # Len(ps)
      BY <2>2
    <3>2. Key(h, ps[j]) \in DOMAIN later /\ later[Key(h, ps[j])] = Value(h, ps[j])
      BY <1>1, <1>3, <3>1 DEF Holds
    <3> QED
      BY <3>2 DEF WithParameter
  <2> QED
    BY <2>1, <2>2
<1> QED
  BY <1>2, <1>3 DEF Holds

LEMMA ParametersAreRead ==
  ASSUME NEW h, IsHeader(h), NEW ps, IsChallenge(h, ps)
  PROVE  \A k \in 1..Len(ps), i \in 1..(Len(h) + 1) :
           OnlySpace(h, i, ps[k].at) => Holds(h, ps, k, ParamsFrom(h)[i])
<1> DEFINE n == Len(ps)
           N == Len(h) + 1
           IsRead(k) == \A i \in 1..N :
                          OnlySpace(h, i, ps[k].at) => Holds(h, ps, k, ParamsFrom(h)[i])
           Bad == {d \in Nat : d < n /\ ~IsRead(n - d)}
<1>1. /\ n \in Nat /\ N \in Nat /\ N = Len(h) + 1
      /\ \A k \in 1..n : ps[k] \in Place /\ IsWritten(h, ps[k])
  BY HeaderType DEF IsChallenge
<1>2. ASSUME NEW k \in 1..n, k # n => IsRead(k + 1)
      PROVE  IsRead(k)
  <2> SUFFICES ASSUME NEW i \in 1..N, OnlySpace(h, i, ps[k].at)
               PROVE  Holds(h, ps, k, ParamsFrom(h)[i])
    OBVIOUS
  <2> DEFINE p == ps[k]
             next == SkipSpace(h, p.after)
             later == IF Has(h, next, Comma) THEN ParamsFrom(h)[next + 1] ELSE NoParams
  <2>1. ParamsFrom(h)[i] = WithParameter(later, Key(h, p), Value(h, p))
    <3>1. ParamsFrom(h)[i] = ParamsAt(h, ParamsFrom(h), i)
      BY ParamsAreThere
    <3> QED
      BY <1>1, <3>1, ParameterIsAdded
  <2>2. p.after \in 1..N /\ p.after \in Nat
    <3>1. p.at \in Nat /\ p.after \in (p.at + 3)..N
      BY <1>1, ParameterIsRead DEF Place
    <3> QED
      BY <1>1, <3>1
  <2>3. CASE k = n
    <3>1. OnlySpace(h, p.after, N)
      BY <2>3 DEF IsChallenge
    <3>2. next = N
      <4>1. N \in p.after..(Len(h) + 1) /\ ~(N <= Len(h))
        BY <1>1, <2>2
      <4> QED
        BY <2>2, <3>1, <4>1, SpacesSkipped
    <3>3. later = NoParams
      BY <1>1, <3>2 DEF Has
    <3> HIDE DEF later
    <3> QED
      BY <1>1, <2>1, <2>3, <3>3, HoldsMore
  <2>4. CASE k # n
    <3>1. PICK comma \in p.after..Len(h) :
            /\ h[comma] = Comma
            /\ OnlySpace(h, p.after, comma)
            /\ OnlySpace(h, comma + 1, ps[k + 1].at)
      <4>1. k \in 1..(n - 1)
        BY <1>1, <2>4
      <4> QED
        BY <4>1 DEF IsChallenge
    <3>2. comma \in Nat /\ comma <= Len(h) /\ comma + 1 \in 1..N
      BY <1>1, <2>2
    <3>3. next = comma
      <4>1. h[comma] \notin Space
        BY <3>1, ChallengeAssumption DEF Separators
      <4>2. comma \in p.after..(Len(h) + 1)
        BY <1>1, <2>2, <3>2
      <4> QED
        BY <2>2, <3>1, <4>1, <4>2, SpacesSkipped
    <3>4. later = ParamsFrom(h)[comma + 1]
      BY <3>1, <3>2, <3>3 DEF Has
    <3>5. Holds(h, ps, k + 1, ParamsFrom(h)[comma + 1])
      BY <1>2, <2>4, <3>1, <3>2
    <3> HIDE DEF later
    <3> QED
      BY <1>1, <2>1, <2>4, <3>4, <3>5, HoldsMore
  <2> QED
    BY <2>3, <2>4
<1>3. Bad = {}
  <2>1. SUFFICES ASSUME Bad # {} PROVE FALSE
    OBVIOUS
  <2> HIDE DEF IsRead, n
  <2>2. Bad \in SUBSET Nat
    OBVIOUS
  <2>3. PICK d \in Bad : \A e \in Bad : d <= e
    <3> HIDE DEF Bad
    <3> QED
      BY <2>1, <2>2, MinIsLeast
  <2>4. d \in Nat /\ d < n /\ ~IsRead(n - d) /\ n - d \in 1..n
    BY <1>1
  <2>5. n - d # n => IsRead((n - d) + 1)
    <3>1. SUFFICES ASSUME d # 0 PROVE IsRead((n - d) + 1)
      BY <1>1, <2>4
    <3>2. d - 1 \in Nat /\ d - 1 < n /\ (n - d) + 1 = n - (d - 1)
      BY <1>1, <2>4, <3>1
    <3>3. d - 1 \notin Bad
      <4> HIDE DEF Bad
      <4> QED
        BY <2>3, <2>4
    <3> QED
      BY <3>2, <3>3
  <2> QED
    BY <1>2, <2>4, <2>5
<1>4. ASSUME NEW k \in 1..n PROVE IsRead(k)
  <2> HIDE DEF IsRead, n
  <2>1. n - k \in Nat /\ n - k < n /\ n - (n - k) = k
    BY <1>1
  <2> QED
    BY <1>3, <2>1
<1> QED
  BY <1>4

\* A challenge is read as it is written: its scheme, and for each key what the
\* last parameter with this key says, or nothing.
THEOREM ChallengeIsRead ==
  ASSUME NEW h, IsHeader(h), NEW ps, IsChallenge(h, ps)
  PROVE  /\ ParseValueAndParams(h).scheme = <<ToLower[h[1]]>>
         /\ \A key, value : Says(h, ps, key, value)
              => Parameter(ParseValueAndParams(h), key) = value
         /\ \A key : (\A k \in DOMAIN ps : Key(h, ps[k]) # key)
              => Parameter(ParseValueAndParams(h), key) = <<>>
<1> DEFINE f == ParamsFrom(h)[SkipSpace(h, 2)]
<1>1. /\ Len(h) \in Nat /\ 1 <= Len(h) /\ h[1] \in Word
      /\ Len(ps) \in Nat /\ DOMAIN ps = 1..Len(ps) /\ 1 \in 1..Len(ps)
  BY HeaderType, EmptySeq DEF IsChallenge
<1>2. /\ ParseValueAndParams(h).scheme = <<ToLower[h[1]]>>
      /\ ParseValueAndParams(h).params = f
  <2>1. /\ ExpectToken(h, 1).value # <<>> /\ ExpectToken(h, 1).value[1] = h[1]
        /\ ExpectToken(h, 1).rest = 2
    BY <1>1, TokenIs
  <2> QED
    BY <2>1 DEF ParseValueAndParams
<1>3. Holds(h, ps, 1, f)
  <2>1. SkipSpace(h, 2) \in 2..(Len(h) + 1)
    BY <1>1, SpacesSkipped
  <2>2. SkipSpace(h, 2) = ps[1].at
    <3>1. ps[1].at \in 1..Len(h) /\ h[ps[1].at] \notin Space
      BY <1>1, ChallengeAssumption DEF IsChallenge, IsWritten
    <3>2. OnlySpace(h, 2, ps[1].at)
      BY DEF IsChallenge
    <3>3. ps[1].at \in 2..(Len(h) + 1)
      BY <1>1, <3>1, <3>2 DEF OnlySpace
    <3> QED
      BY <1>1, <3>1, <3>2, <3>3, SpacesSkipped
  <2>3. OnlySpace(h, SkipSpace(h, 2), ps[1].at)
    BY <1>1, <2>1, <2>2 DEF OnlySpace
  <2>4. SkipSpace(h, 2) \in 1..(Len(h) + 1)
    BY <1>1, <2>1
  <2> QED
    BY <1>1, <2>3, <2>4, ParametersAreRead
<1> HIDE DEF f
<1>4. ASSUME NEW key, NEW value, Says(h, ps, key, value)
      PROVE  Parameter(ParseValueAndParams(h), key) = value
  <2>1. PICK k \in 1..Len(ps) :
          /\ Key(h, ps[k]) = key /\ Value(h, ps[k]) = value
          /\ \A l \in (k + 1)..Len(ps) : Key(h, ps[l]) # key
    BY <1>1, <1>4 DEF Says
  <2>2. key \in DOMAIN f /\ f[key] = value
    BY <1>3, <2>1 DEF Holds
  <2> QED
    BY <1>2, <2>2 DEF Parameter
<1>5. ASSUME NEW key, \A k \in DOMAIN ps : Key(h, ps[k]) # key
      PROVE  Parameter(ParseValueAndParams(h), key) = <<>>
  <2>1. key \notin DOMAIN f
    BY <1>1, <1>3, <1>5 DEF Holds
  <2> QED
    BY <1>2, <2>1 DEF Parameter
<1> QED
  BY <1>2, <1>4, <1>5

-----------------------------------------------------------------------------
(* Why a call fails *)

\* The sites that ask for a token do so in a challenge that is written well and
\* is the first of its scheme, and no other site does; the scope they want is
\* the configured one.
ChallengesAreWritten == \A s \in Sites :
  /\ DOMAIN s.headers \in SUBSET Nat
  /\ \A n \in DOMAIN s.headers : IsHeader(s.headers[n])
  /\ s.service = [realm |-> s.service.realm, service |-> s.service.service, scope |-> Scope]
  /\ IF s.auth = "bearer"
     THEN \E n \in DOMAIN s.headers :
            /\ \E ps : Demands(s.headers[n], ps, s.service)
            /\ \A m \in DOMAIN s.headers : m < n => OtherScheme(s.headers[m])
     ELSE \A n \in DOMAIN s.headers : OtherScheme(s.headers[n])

LEMMA OtherSchemeIsRead ==
  ASSUME NEW h, IsHeader(h), OtherScheme(h)
  PROVE  ParseValueAndParams(h).scheme # <<"bearer">>
<1>1. Len(h) \in Nat /\ 1 \in 1..(Len(h) + 1) /\ (1 <= Len(h) => h # <<>>)
  BY HeaderType, EmptySeq
<1>2. ExpectToken(h, 1).value # <<>>
        => h[1] \in Word /\ h # <<>> /\ ExpectToken(h, 1).value[1] = h[1]
  BY <1>1, TokenIs
<1>3. CASE ExpectToken(h, 1).value = <<>>
  BY <1>3 DEF ParseValueAndParams
<1>4. CASE ExpectToken(h, 1).value # <<>>
  <2>1. ToLower[h[1]] # "bearer"
    BY <1>2, <1>4 DEF OtherScheme
  <2>2. ParseValueAndParams(h).scheme = <<ToLower[h[1]]>>
    BY <1>2, <1>4 DEF ParseValueAndParams
  <2> QED
    BY <2>1, <2>2
<1> QED
  BY <1>3, <1>4

\* A demand is read as its realm and its service.
LEMMA DemandIsRead ==
  ASSUME NEW h, IsHeader(h), NEW ps, NEW service, Demands(h, ps, service)
  PROVE  LET challenge == ParseValueAndParams(h) IN
         /\ challenge.scheme = <<"bearer">>
         /\ Parameter(challenge, "realm") = service.realm
         /\ Parameter(challenge, "service") = service.service
         /\ service.realm # <<>>
<1>1. IsChallenge(h, ps) /\ ToLower[h[1]] = "bearer" /\ Says(h, ps, "realm", service.realm)
  BY DEF Demands
<1>2. /\ ParseValueAndParams(h).scheme = <<"bearer">>
      /\ Parameter(ParseValueAndParams(h), "realm") = service.realm
  BY <1>1, ChallengeIsRead
<1>3. Parameter(ParseValueAndParams(h), "service") = service.service
  <2>1. CASE Says(h, ps, "service", service.service)
    BY <1>1, <2>1, ChallengeIsRead
  <2>2. CASE SaysNothing(h, ps, "service") /\ service.service = <<>>
    BY <1>1, <2>2, ChallengeIsRead DEF SaysNothing
  <2> QED
    BY <2>1, <2>2 DEF Demands
<1>4. service.realm # <<>>
  <2>1. PICK k \in DOMAIN ps : Value(h, ps[k]) = service.realm
    BY <1>1 DEF Says
  <2>2. ps[k] \in Place /\ IsWritten(h, ps[k])
    BY <1>1 DEF IsChallenge
  <2> QED
    BY <2>1, <2>2, ParameterIsRead
<1> QED
  BY <1>2, <1>3, <1>4

\* So their challenges, and no others, are read as naming a service: their own.
ChallengesAreRead == \A s \in Sites :
  /\ s.auth = "bearer" <=> TokenDemand[s] # NoService
  /\ s.auth = "bearer" => InjectScope(TokenDemand[s]) = s.service

LEMMA WrittenIsRead == ASSUME ChallengesAreWritten PROVE ChallengesAreRead
<1> SUFFICES ASSUME NEW s \in Sites
             PROVE  /\ s.auth = "bearer" <=> TokenDemand[s] # NoService
                    /\ s.auth = "bearer" => InjectScope(TokenDemand[s]) = s.service
  BY DEF ChallengesAreRead
<1> DEFINE headers == s.headers
           challenge(n) == ParseValueAndParams(headers[n])
           bearer == {n \in DOMAIN headers : challenge(n).scheme = <<"bearer">>}
<1>1. /\ DOMAIN headers \in SUBSET Nat
      /\ \A n \in DOMAIN headers : IsHeader(headers[n])
      /\ s.service = [realm |-> s.service.realm, service |-> s.service.service,
                      scope |-> Scope]
  BY DEF ChallengesAreWritten
<1>2. \A n \in DOMAIN headers : OtherScheme(headers[n]) => n \notin bearer
  BY <1>1, OtherSchemeIsRead
<1>3. TokenDemand[s] =
        IF bearer = {} THEN NoService
        ELSE [realm   |-> Parameter(ParseAuthHeader(headers)[Min(bearer)], "realm"),
              service |-> Parameter(ParseAuthHeader(headers)[Min(bearer)], "service"),
              scope   |-> Parameter(ParseAuthHeader(headers)[Min(bearer)], "scope")]
  <2>1. bearer = {n \in DOMAIN headers : ParseAuthHeader(headers)[n].scheme = <<"bearer">>}
    BY DEF ParseAuthHeader
  <2> HIDE DEF bearer
  <2> QED
    BY <2>1, Zenon DEF TokenDemand, ParseOauthHeader
<1>4. CASE s.auth = "bearer"
  <2>1. PICK n \in DOMAIN headers :
          /\ \E ps : Demands(headers[n], ps, s.service)
          /\ \A m \in DOMAIN headers : m < n => OtherScheme(headers[m])
    BY <1>4 DEF ChallengesAreWritten
  <2>2. PICK ps : Demands(headers[n], ps, s.service)
    BY <2>1
  <2>3. /\ challenge(n).scheme = <<"bearer">>
        /\ Parameter(challenge(n), "realm") = s.service.realm
        /\ Parameter(challenge(n), "service") = s.service.service
        /\ s.service.realm # <<>>
    BY <1>1, <2>2, DemandIsRead
  <2>4. n \in bearer /\ bearer \in SUBSET Nat
    BY <1>1, <2>3
  <2>5. \A m \in bearer : n <= m
    <3>1. \A m \in bearer : m \in DOMAIN headers /\ ~(m < n)
      BY <1>2, <2>1
    <3> QED
      BY <1>1, <3>1
  <2>6. Min(bearer) = n /\ ParseAuthHeader(headers)[n] = challenge(n)
    <3>1. ParseAuthHeader(headers)[n] = challenge(n)
      BY DEF ParseAuthHeader
    <3> HIDE DEF bearer
    <3> QED
      BY <2>4, <2>5, <3>1, MinIs
  <2>7. TokenDemand[s] = [realm |-> s.service.realm, service |-> s.service.service,
                          scope |-> Parameter(challenge(n), "scope")]
    <3>1. bearer # {}
      BY <2>4
    <3> HIDE DEF bearer, challenge
    <3> QED
      BY <1>3, <2>3, <2>6, <3>1
  <2>8. TokenDemand[s] # NoService
    BY <2>3, <2>7 DEF NoService
  <2>9. InjectScope(TokenDemand[s]) = s.service
    <3>1. InjectScope(TokenDemand[s]) =
            [realm |-> s.service.realm, service |-> s.service.service, scope |-> Scope]
      BY <2>7 DEF InjectScope
    <3> QED
      BY <1>1, <3>1
  <2> QED
    BY <1>4, <2>8, <2>9
<1>5. CASE s.auth # "bearer"
  <2>1. \A n \in DOMAIN headers : OtherScheme(headers[n])
    BY <1>5 DEF ChallengesAreWritten
  <2>2. bearer = {}
    BY <1>2, <2>1
  <2> QED
    BY <1>3, <1>5, <2>2
<1> QED
  BY <1>4, <1>5

\* Where a round trip with a token is: it is for the right service, and the token
\* is missing only if the credentials do not do.
TokenTrip ==
  /\ pc \in {"auth", "retry"} => demand = site.service /\ site.auth # "open"
  /\ pc = "retry" => token \in {"good", ""} /\ (token = "" => ~site.grants)

Excused == TokenTrip /\ (result = "error" => pc = "done" /\ Excuse)

LEMMA AnswerExcused ==
  ASSUME IInv, TypeOK, Excused, pc # "done", NEW response \in Answers, Receive(response),
         UNCHANGED outside
  PROVE  Excused'
<1>1. response.status = 200
  BY DEF Answers, Pages, Response
<1>2. CASE Pinged(response)
  BY <1>2 DEF Pinged, Excused, TokenTrip
<1>3. CASE Decoded(response)
  BY <1>3 DEF Decoded, Excused, TokenTrip
<1> QED
  BY <1>1, <1>2, <1>3 DEF Receive, IsError

\* A failure with an excuse that the next state still has.
LEMMA FailExcused ==
  ASSUME Fail, faults' = faults, Excuse, UNCHANGED outside
  PROVE  Excused'
BY DEF Fail, Excused, TokenTrip, Excuse, outside

LEMMA ClientExcused ==
  ASSUME ChallengesAreRead, IInv, TypeOK, Excused, Client
  PROVE  Excused'
<1>0. UNCHANGED <<faults, outside>> /\ site \in Sites
  BY ClientTyped DEF TypeOK
<1>1. CASE GetRelative
  BY <1>0, <1>1, FailExcused DEF GetRelative, Excuse
<1>2. CASE Get
  <2>1. CASE Admits(Credentials)
    BY <1>0, <1>2, <2>1, AnswerExcused DEF Get
  <2>2. CASE ~Admits(Credentials) /\ TokenDemand[site] # NoService
    <3>1. site.auth = "bearer" /\ demand' = site.service
      BY <1>0, <1>2, <2>2 DEF Get, ChallengesAreRead
    <3> QED
      BY <1>0, <1>2, <2>2, <3>1 DEF Get, Excused, TokenTrip, outside
  <2>3. CASE ~Admits(Credentials) /\ TokenDemand[site] = NoService
    <3>1. Fail
      BY <1>2, <2>3, RefusalFails DEF Get
    <3>2. site.auth = "basic"
      <4>1. site.auth \in {"open", "basic", "bearer"}
        BY <1>0, RegistryAssumption, Zenon
      <4>2. site.auth # "bearer"
        BY <1>0, <2>3, Zenon DEF ChallengesAreRead
      <4> QED
        BY <2>3, <4>1, <4>2 DEF Admits
    <3>3. url.host \in {"registry", "other"}
      BY <1>2 DEF Get, TypeOK
    <3>4. Excuse
      BY <1>0, <2>3, <3>2, <3>3 DEF Excuse, Admits, Credentials
    <3> QED
      BY <1>0, <3>1, <3>4, FailExcused
  <2> QED
    BY <2>1, <2>2, <2>3
<1>3. CASE AskToken
  <2>1. demand = site.service /\ site.auth # "open"
    BY <1>3 DEF AskToken, Excused, TokenTrip
  <2>2. /\ token' = IF site.grants THEN "good" ELSE ""
        /\ pc' = "retry"
        /\ UNCHANGED <<demand, result>>
    BY <1>3, <2>1 DEF AskToken
  <2> QED
    BY <1>0, <1>3, <2>1, <2>2 DEF AskToken, Excused, TokenTrip, outside
<1>4. CASE Retry
  <2>1. CASE token = "good"
    BY <1>0, <1>4, <2>1, AnswerExcused DEF Retry
  <2>2. CASE token # "good"
    <3>1. Fail
      BY <1>4, <2>2, RefusalFails DEF Retry
    <3>2. Excuse
      BY <1>4, <2>2 DEF Retry, Excused, TokenTrip, Excuse
    <3> QED
      BY <1>0, <3>1, <3>2, FailExcused
  <2> QED
    BY <2>1, <2>2
<1> QED
  BY <1>1, <1>2, <1>3, <1>4 DEF Client

LEMMA ExcusedInvariance == ASSUME ChallengesAreWritten PROVE Spec => []Excused
<1>1. Init => Excused
  BY DEF Init, Excused, TokenTrip
<1>2. IInv /\ TypeOK /\ Excused /\ [Next]_vars => Excused'
  <2> SUFFICES ASSUME IInv, TypeOK, Excused, [Next]_vars PROVE Excused'
    OBVIOUS
  <2>1. CASE Client
    BY <2>1, WrittenIsRead, ClientExcused
  <2>2. CASE Fault
    <3>1. faults' > 0
      BY <2>2, Counted, Zenon DEF Fault, TypeOK
    <3>2. pc' = "done" /\ result' = "error"
      BY <2>2 DEF Fault, Fail
    <3> QED
      BY <3>1, <3>2, Zenon DEF Excused, TokenTrip, Excuse
  <2>3. ASSUME NEW tags, Change(tags) PROVE Excused'
    BY <2>3 DEF Change, Excused, TokenTrip, Excuse
  <2>4. CASE UNCHANGED vars
    BY <2>4 DEF vars, outside, Excused, TokenTrip, Excuse
  <2> QED
    BY <2>1, <2>2, <2>3, <2>4 DEF Next, Push, Delete
<1> QED
  BY <1>1, <1>2, Invariance, TypeCorrect, PTL DEF Spec

\* Whatever the order, case, spacing and quotes of a challenge, and whatever other
\* schemes are offered with it, the token is asked of the service it names, for
\* the configured scope (parseOauthHeader, TokenTransport.auth).
THEOREM TokenIsAskedRight ==
  ASSUME ChallengesAreWritten
  PROVE  Spec => []TokenAskedOfService
<1>1. Excused => TokenAskedOfService
  BY DEF Excused, TokenTrip, TokenAskedOfService
<1> QED
  BY <1>1, ExcusedInvariance, PTL

\* Whatever pages, changes and failures: New and GetAllTags fail only with an
\* excuse.
THEOREM FailuresAreExcused ==
  ASSUME ChallengesAreWritten
  PROVE  Spec => []FailsWithExcuse
<1>1. Excused => FailsWithExcuse
  BY DEF Excused, FailsWithExcuse
<1> QED
  BY <1>1, ExcusedInvariance, PTL
===============================================================================
