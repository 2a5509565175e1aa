------------------------------- MODULE Challenge -------------------------------
(***************************************************************************)
(* Reading the WWW-Authenticate headers of a registry's 401 answer         *)
(* (registry/authchallenge.go), to find the service that gives out tokens. *)
(*                                                                         *)
(* A header is a sequence of symbols. A word stands for a longest run of   *)
(* token octets, so two words are never next to each other; every other    *)
(* symbol is a separator of one octet. Positions in the header stand for   *)
(* the strings that remain to be read. A header has no backslash.          *)
(***************************************************************************)
EXTENDS Integers, Sequences, FiniteSetsExt

CONSTANTS
  Word,      \* runs of token octets
  Space,     \* blanks and tabs
  ToLower    \* the lower-case form of each word

Comma == ","
Equals == "="
Quote == "\""
Separators == {Comma, Equals, Quote}

ASSUME ChallengeAssumption ==
  /\ Word \intersect Space = {}
  /\ Word \intersect Separators = {}
  /\ Space \intersect Separators = {}
  /\ ToLower \in [Word -> Word]

-----------------------------------------------------------------------------
Has(h, i, symbol) == i <= Len(h) /\ h[i] = symbol

\* The first position from i on that is not a space.
SkipSpace(h, i) == Min({j \in i..(Len(h) + 1) : j > Len(h) \/ h[j] \notin Space})

\* What was read from position i, and the position where it ended.
Read(h, first, last, rest) == [value |-> SubSeq(h, first, last), rest |-> rest]

ExpectToken(h, i) ==
  IF i <= Len(h) /\ h[i] \in Word THEN Read(h, i, i, i + 1) ELSE Read(h, i, i - 1, i)

\* Mutation: a value ends at the first separator, even within quotes.
ExpectTokenOrUnquoted(h, i) ==
  IF ~Has(h, i, Quote) THEN ExpectToken(h, i)
  ELSE LET ends == {j \in (i + 1)..Len(h) : h[j] \in {Comma, Quote}}
       IN  IF ends = {} THEN Read(h, i, i - 1, Len(h) + 1)
           ELSE Read(h, i + 1, Min(ends) - 1, Min(ends) + 1)

\* A quote that is never closed leaves nothing.
ExpectTokenOrQuoted(h, i) ==
  IF ~Has(h, i, Quote) THEN ExpectToken(h, i)
  ELSE LET ends == {j \in (i + 1)..Len(h) : h[j] = Quote}
       IN  IF ends = {} THEN Read(h, i, i - 1, Len(h) + 1)
           ELSE Read(h, i + 1, Min(ends) - 1, Min(ends) + 1)

NoParams == [key \in {} |-> <<>>]

\* The parameters from position i on, given those from every later one. Reading
\* stops at the first thing that is not <key>=<value>; what was read before
\* stays. The last value of a key counts.
ParamsAt(h, params, i) ==
  LET key   == ExpectToken(h, SkipSpace(h, i))
      value == ExpectTokenOrQuoted(h, key.rest + 1)
      next  == SkipSpace(h, value.rest)
      later == IF Has(h, next, Comma) THEN params[next + 1] ELSE NoParams
      name  == ToLower[key.value[1]]
  IN  IF key.value = <<>> \/ ~Has(h, key.rest, Equals) \/ value.value = <<>>
      THEN NoParams
      ELSE [k \in DOMAIN later \union {name} |->
              IF k \in DOMAIN later THEN later[k] ELSE value.value]

ParamsFrom(h) ==
  LET params[i \in 1..(Len(h) + 1)] == ParamsAt(h, params, i) IN params

\* The scheme, <<>> when there is none, and the parameters of one header.
ParseValueAndParams(h) ==
  LET scheme == ExpectToken(h, 1)
  IN  IF scheme.value = <<>> THEN [scheme |-> <<>>, params |-> NoParams]
      ELSE [scheme |-> <<ToLower[scheme.value[1]]>>,
            params |-> ParamsFrom(h)[SkipSpace(h, scheme.rest)]]

\* parseAuthHeader drops what has no scheme, which is no bearer challenge either.
ParseAuthHeader(headers) ==
  [n \in DOMAIN headers |-> ParseValueAndParams(headers[n])]

-----------------------------------------------------------------------------
\* nil: no token is asked for.
NoService == [realm |-> <<>>, service |-> <<>>, scope |-> <<>>]

Parameter(challenge, key) ==
  IF key \in DOMAIN challenge.params THEN challenge.params[key] ELSE <<>>

\* The service that the first challenge of the bearer scheme names.
ParseOauthHeader(headers) ==
  LET challenges == ParseAuthHeader(headers)
      bearer == {n \in DOMAIN headers : challenges[n].scheme = <<"bearer">>}
      first == challenges[Min(bearer)]
  IN  IF bearer = {} THEN NoService
      ELSE [realm   |-> Parameter(first, "realm"),
            service |-> Parameter(first, "service"),
            scope   |-> Parameter(first, "scope")]

-----------------------------------------------------------------------------
(* How a challenge is written, whoever reads it (RFC 7235) *)

IsHeader(h) == h \in Seq({h[i] : i \in DOMAIN h})

\* Where a parameter is: its key is at, its value from first to last, and what
\* follows is after.
Place == [at : Nat, first : Nat, last : Nat, after : Nat]

\* A key, an equals sign, and a word, or anything but quotes within quotes.
IsWritten(h, p) ==
  /\ p.at \in 1..Len(h) /\ h[p.at] \in Word
  /\ Has(h, p.at + 1, Equals)
  /\ \/ /\ p.first = p.at + 2 /\ p.first = p.last /\ p.after = p.at + 3
        /\ p.first <= Len(h) /\ h[p.first] \in Word
     \/ /\ Has(h, p.at + 2, Quote)
        /\ p.first = p.at + 3 /\ p.first <= p.last /\ p.after = p.last + 2
        /\ \A i \in p.first..p.last : h[i] # Quote
        /\ Has(h, p.last + 1, Quote)

\* Nothing but spaces from position i up to j.
OnlySpace(h, i, j) == i <= j /\ \A k \in i..(j - 1) : h[k] \in Space

\* A scheme and parameters, separated by commas with spaces around them.
IsChallenge(h, ps) ==
  /\ ps \in Seq(Place) /\ ps # <<>>
  /\ Len(h) > 0 /\ h[1] \in Word
  /\ \A k \in DOMAIN ps : IsWritten(h, ps[k])
  /\ OnlySpace(h, 2, ps[1].at)
  /\ \A k \in 1..(Len(ps) - 1) :
       \E comma \in ps[k].after..Len(h) :
         /\ h[comma] = Comma
         /\ OnlySpace(h, ps[k].after, comma)
         /\ OnlySpace(h, comma + 1, ps[k + 1].at)
  /\ OnlySpace(h, ps[Len(ps)].after, Len(h) + 1)

Key(h, p) == ToLower[h[p.at]]
Value(h, p) == SubSeq(h, p.first, p.last)

\* The last of the parameters ps that has this key has this value.
Says(h, ps, key, value) ==
  \E k \in DOMAIN ps :
    /\ Key(h, ps[k]) = key /\ Value(h, ps[k]) = value
    /\ \A l \in (k + 1)..Len(ps) : Key(h, ps[l]) # key

SaysNothing(h, ps, key) == \A k \in DOMAIN ps : Key(h, ps[k]) # key

\* A header that asks for a token of this service, whatever else it says.
Demands(h, ps, service) ==
  /\ IsChallenge(h, ps)
  /\ ToLower[h[1]] = "bearer"
  /\ Says(h, ps, "realm", service.realm)
  /\ \/ Says(h, ps, "service", service.service)
     \/ SaysNothing(h, ps, "service") /\ service.service = <<>>

\* A header of another scheme, or of none.
OtherScheme(h) == h = <<>> \/ h[1] \notin Word \/ ToLower[h[1]] # "bearer"
===============================================================================
