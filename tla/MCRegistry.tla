------------------------------ MODULE MCRegistry ------------------------------
(* Values for the constants of Registry. *)
EXTENDS Registry

\* Tags in the order a registry lists them, which is not that of releases.
MCRelease == {"v1.100.1", "v1.99.9", "v2.0.0"}
MCTag == MCRelease \union {"edge"}
MCMajor == [t \in Release |-> IF t = "v2.0.0" THEN 2 ELSE 1]
MCMinor == [t \in Release |-> CASE t = "v1.100.1" -> 100 [] t = "v1.99.9" -> 99 [] OTHER -> 0]
MCPatch == [t \in Release |-> CASE t = "v1.100.1" -> 1 [] t = "v1.99.9" -> 9 [] OTHER -> 0]
MCSortKey == [t \in Tag |-> CASE t = "edge" -> 0 [] t = "v1.100.1" -> 1
                              [] t = "v1.99.9" -> 2 [] OTHER -> 3]

-----------------------------------------------------------------------------
(* Challenges *)

Capital == [Bearer |-> "bearer", Basic |-> "basic", Realm |-> "realm"]

MCToLower == [w \in Word |-> IF w \in DOMAIN Capital THEN Capital[w] ELSE w]

Realm == <<"https", ":", "/", "/", "auth", "/", "token">>
Service == <<"hub">>
MCScope == <<"repository", ":", "app", ":", "pull", ",", "push">>

\* The scope of another call.
Others == <<"registry", ":", "catalog", ",", "*">>

Quoted(key, value) == <<key, Equals, Quote>> \o value \o <<Quote>>
Blank == <<" ">>

Plain == <<"Bearer">> \o Blank \o Quoted("realm", Realm) \o <<Comma>>
           \o Quoted("service", Service)

Scoped == <<"bearer">> \o Blank \o Blank \o Quoted("scope", MCScope) \o Blank \o <<Comma>>
            \o Blank \o <<"service", Equals>> \o Service \o <<Comma>> \o Quoted("Realm", Realm)

OtherScope == <<"Bearer">> \o Blank \o Quoted("scope", Others) \o <<Comma>> \o Blank
            \o Quoted("realm", Realm) \o <<Comma>> \o Blank \o Quoted("service", Service)

BasicChallenge == <<"Basic">> \o Blank \o Quoted("Realm", <<"Registry", " ", "Realm">>)

Challenges == {<<Plain>>, <<Scoped>>, <<OtherScope>>, <<BasicChallenge, Plain>>}

\* Where their parameters are, as a word or n symbols within quotes.
AsWord(at) == [at |-> at, first |-> at + 2, last |-> at + 2, after |-> at + 3]
AsQuoted(at, n) == [at |-> at, first |-> at + 3, last |-> at + 2 + n, after |-> at + 4 + n]

Places(h) == CASE h = Plain      -> <<AsQuoted(3, 7), AsQuoted(15, 1)>>
               [] h = Scoped     -> <<AsQuoted(4, 7), AsWord(18), AsQuoted(22, 7)>>
               [] h = OtherScope -> <<AsQuoted(3, 5), AsQuoted(14, 7), AsQuoted(27, 1)>>

-----------------------------------------------------------------------------
MCService == [realm |-> Realm, service |-> Service, scope |-> Scope]

Site(auth, headers, link, prev, creds, grants) ==
  [auth |-> auth, headers |-> headers, service |-> MCService, link |-> link,
   prev |-> prev, creds |-> creds, grants |-> grants]

MCSites ==
  {Site("open", <<>>, link, prev, FALSE, TRUE) :
     link \in {"absolute", "relative", "elsewhere"}, prev \in BOOLEAN}
  \union
  {Site("basic", <<BasicChallenge>>, link, FALSE, creds, grants) :
     link \in {"absolute", "elsewhere"}, creds \in BOOLEAN, grants \in BOOLEAN}
  \union
  {Site("bearer", headers, link, FALSE, creds, grants) :
     headers \in Challenges, link \in {"absolute", "elsewhere"},
     creds \in BOOLEAN, grants \in BOOLEAN}

\* Every header is written as IsChallenge says, or of another scheme.
ASSUME HeadersAreWritten ==
  \A s \in MCSites : \A n \in DOMAIN s.headers :
    /\ IsHeader(s.headers[n])
    /\ IF s.headers[n] = BasicChallenge THEN OtherScheme(s.headers[n])
       ELSE Demands(s.headers[n], Places(s.headers[n]), s.service)
===============================================================================
