------------------------------- MODULE DockerHub -------------------------------
(***************************************************************************)
(* The Docker Hub client (client/dockerhub_api_client.go): one DockerhubApi *)
(* shared by every worker and handler, its token renewed by whichever of   *)
(* them meets a 401 or a 403, without a lock.                              *)
(*                                                                         *)
(* A Go string is two words, where its bytes are and how many. They are    *)
(* loaded and stored one at a time and in any order, so a load beside a    *)
(* store may take one word of each of two tokens. A word is named after    *)
(* the token it belongs to; NoToken, the empty string, has no bytes. What  *)
(* lies beyond the bytes of a token is memory of the same heap: it can be  *)
(* read, and may be anything.                                              *)
(***************************************************************************)
EXTENDS Integers

CONSTANTS
  Worker,       \* workers told apart, by their repository
  Request,      \* handlers that deploy a tag
  MaxToken,     \* bound on the tokens told apart at one time
  Length,       \* how long each token is
  MaxExpiries,  \* bound on tokens that expire
  MaxFaults     \* bound on failed calls, unreadable answers, failed starts, stops

Caller == Worker \union Request
NoToken == 0
Token == 1..MaxToken

ASSUME DockerHubAssumption ==
  /\ Worker \intersect Request = {}
  /\ MaxToken \in Nat
  /\ Length \in [Token -> Nat]
  /\ MaxExpiries \in Nat
  /\ MaxFaults \in Nat

Word == {"bytes", "length"}
Words(bytes, length) == [bytes |-> bytes, length |-> length]
String(t) == Words(t, t)

VARIABLES
  token,    \* api.token
  valid,    \* the tokens Docker Hub accepts
  at,       \* where each caller is in CheckImageIsCurrent or GetTagDigestFromApi
  todo,     \* the words it has yet to load or store
  header,   \* the words of its Authorization header
  jwt,      \* the token it was just given
  disturbed,\* history: since it logged in a token expired, or another
            \* caller stored one, or the login had given it none
  tokenless,\* history: a login of this process gave it no token
  expiries, faults   \* how much of each bound has been used

hubVars == <<token, valid, at, todo, header, jwt, disturbed, expiries>>

Ended == {"idle", "answered", "refused"}   \* between two calls
Renewed == {"store", "reload", "resend"}   \* with a token of its own

Free == String(NoToken)

HubInit ==
  /\ token = Free
  /\ valid = {}
  /\ at = [c \in Caller |-> "idle"]
  /\ todo = [c \in Caller |-> {}]
  /\ header = [c \in Caller |-> Free]
  /\ jwt = [c \in Caller |-> NoToken]
  /\ disturbed = [c \in Caller |-> FALSE]
  /\ expiries = 0

-----------------------------------------------------------------------------
(* Tokens *)

\* Tokens that some variable still holds a word of. Docker Hub's tokens never
\* come back; here the name of one that is forgotten does.
Held == {token.bytes, token.length}
          \union UNION {{header[c].bytes, header[c].length, jwt[c]} : c \in Caller}

\* A token Docker Hub gives out is none that is still held, and may be of any
\* length.
NewTokens ==
  LET free == Token \ Held
  IN  {CHOOSE t \in free : Length[t] = n : n \in {Length[t] : t \in free}}

\* Reading a string that has a length but no bytes.
IsNil(s) == s.bytes = NoToken /\ s.length # NoToken

\* Bytes of one token with the length of another are that token if the two are
\* as long as each other, and no token if not.
ReadAs(s) ==
  IF s.length # NoToken /\ Length[s.bytes] = Length[s.length] THEN s.bytes
  ELSE NoToken

\* With the length of a longer token, whatever lies beyond the bytes is read too.
Overruns(s) ==
  s.bytes # NoToken /\ s.length # NoToken /\ Length[s.bytes] < Length[s.length]

-----------------------------------------------------------------------------
(* One call *)

\* What one call of the API does, between those of others.
Go(c, label, words) ==
  /\ at' = [at EXCEPT ![c] = label]
  /\ todo' = [todo EXCEPT ![c] = words]

\* The call returns, and its variables with it.
Return(c, how) ==
  /\ Go(c, how, {})
  /\ header' = [header EXCEPT ![c] = Free]
  /\ jwt' = [jwt EXCEPT ![c] = NoToken]

Call(c) ==
  /\ at[c] \in Ended
  /\ Go(c, "load", Word)
  /\ disturbed' = [disturbed EXCEPT ![c] = FALSE]
  /\ UNCHANGED <<token, valid, header, jwt, tokenless, expiries, faults>>

\* fmt.Sprintf("Bearer %s", api.token), before the first request and again
\* before the second.
LoadWord(c, w) ==
  /\ at[c] \in {"load", "reload"}
  /\ w \in todo[c]
  /\ header' = [header EXCEPT ![c][w] = token[w]]
  /\ Go(c, IF todo[c] # {w} THEN at[c] ELSE IF at[c] = "load" THEN "send" ELSE "resend",
        todo[c] \ {w})
  /\ UNCHANGED <<token, valid, jwt, disturbed, tokenless, expiries, faults>>

\* A header net/http does not send, for it has a byte no header may have. Do
\* returns an error, and there is no 401 that would lead to a new token.
Unsendable(c) == Overruns(header[c]) /\ Return(c, "idle")

\* The first request: 401 and 403 are no answer yet.
Send(c) ==
  /\ at[c] = "send"
  /\ ~IsNil(header[c])
  /\ \/ Unsendable(c)
     \/ Return(c, IF ReadAs(header[c]) \in valid THEN "answered" ELSE "login")
  /\ UNCHANGED <<token, valid, disturbed, tokenless, expiries, faults>>

\* Mutation: the token is dropped as soon as it is refused.
DropToken == token' = Free

KeepToken == UNCHANGED token

\* What a login that succeeds gives: a token, or an empty string if the body is cut
\* off or cannot be decoded, since Authenticate drops both errors.
Authenticated(t) ==
  \/ /\ t \in NewTokens
     /\ valid' = (valid \intersect Held) \union {t}
     /\ UNCHANGED <<tokenless, faults>>
  \/ /\ t = NoToken
     /\ faults < MaxFaults
     /\ faults' = faults + 1
     /\ tokenless' = TRUE
     /\ UNCHANGED valid

Login(c) ==
  /\ at[c] = "login"
  /\ \E t \in Token \union {NoToken} :
       /\ Authenticated(t)
       /\ jwt' = [jwt EXCEPT ![c] = t]
       /\ disturbed' = [disturbed EXCEPT ![c] = (t = NoToken)]
  /\ Go(c, "store", Word)
  /\ KeepToken
  /\ UNCHANGED <<header, expiries>>

\* Mutation: the new token is not stored.
StoreNothing(c, w) == UNCHANGED token

Store(c, w) == token' = [token EXCEPT ![w] = jwt[c]]

\* api.token = *jwt. Other calls that have a token of their own are disturbed.
StoreWord(c, w) ==
  /\ at[c] = "store"
  /\ w \in todo[c]
  /\ Store(c, w)
  /\ IF todo[c] = {w}
     THEN Go(c, "reload", Word) /\ jwt' = [jwt EXCEPT ![c] = NoToken]
     ELSE Go(c, "store", todo[c] \ {w}) /\ UNCHANGED jwt
  /\ disturbed' = [d \in Caller |-> disturbed[d] \/ (d # c /\ at[d] \in Renewed)]
  /\ UNCHANGED <<valid, header, tokenless, expiries, faults>>

\* The second request, whose 401 is final.
Resend(c) ==
  /\ at[c] = "resend"
  /\ ~IsNil(header[c])
  /\ \/ Unsendable(c) /\ disturbed' = [disturbed EXCEPT ![c] = FALSE]
     \/ IF ReadAs(header[c]) \in valid
        THEN Return(c, "answered") /\ disturbed' = [disturbed EXCEPT ![c] = FALSE]
        ELSE Return(c, "refused") /\ UNCHANGED disturbed
  /\ UNCHANGED <<token, valid, tokenless, expiries, faults>>

\* No connection, or a login that fails.
CallFails(c) ==
  /\ at[c] \in {"send", "login", "resend"}
  /\ ~IsNil(header[c])
  /\ faults < MaxFaults
  /\ faults' = faults + 1
  /\ Return(c, "idle")
  /\ disturbed' = [disturbed EXCEPT ![c] = FALSE]
  /\ UNCHANGED <<token, valid, tokenless, expiries>>

\* Sprintf copies bytes from nowhere and panics; gin catches the panic of a
\* handler.
Recovered(c) ==
  /\ c \in Request
  /\ at[c] \in {"send", "resend"}
  /\ IsNil(header[c])
  /\ Return(c, "idle")
  /\ disturbed' = [disturbed EXCEPT ![c] = FALSE]
  /\ UNCHANGED <<token, valid, tokenless, expiries, faults>>

\* A token's time is over, or it is revoked.
Expire ==
  /\ expiries < MaxExpiries
  /\ expiries' = expiries + 1
  /\ \E t \in valid : valid' = valid \ {t}
  /\ disturbed' = [c \in Caller |-> disturbed[c] \/ at[c] \in Renewed]
  /\ UNCHANGED <<token, at, todo, header, jwt, tokenless, faults>>

GoesOn(c) ==
  \/ Send(c) \/ Login(c) \/ Resend(c) \/ Recovered(c)
  \/ \E w \in Word : LoadWord(c, w) \/ StoreWord(c, w)

-----------------------------------------------------------------------------
(* Properties *)

HubTypeOK ==
  /\ token \in [Word -> 0..MaxToken]
  /\ valid \in SUBSET Token
  /\ at \in [Caller -> Ended \union {"load", "send", "login"} \union Renewed]
  /\ todo \in [Caller -> SUBSET Word]
  /\ header \in [Caller -> [Word -> 0..MaxToken]]
  /\ jwt \in [Caller -> 0..MaxToken]
  /\ disturbed \in [Caller -> BOOLEAN]
  /\ tokenless \in BOOLEAN
  /\ expiries \in 0..MaxExpiries
===============================================================================
