---------------------------- MODULE DockerHubProof ----------------------------
(***************************************************************************)
(* What every call of the Docker Hub client keeps true of the shared       *)
(* token, with any number of callers, in any interleaving of the words     *)
(* they load and store.                                                    *)
(***************************************************************************)
EXTENDS DockerHub, TLAPS

\* The words of its header that a caller has loaded.
Loaded(c) ==
  IF at[c] \in {"load", "reload"} THEN Word \ todo[c]
  ELSE IF at[c] \in {"send", "resend"} THEN Word
  ELSE {}

\* No caller could be handed a string with a length and no bytes, and none is
\* storing one.
Whole ==
  /\ token.bytes # NoToken
  /\ \A c \in Caller : "bytes" \in Loaded(c) => header[c].bytes # NoToken
  /\ \A c \in Caller : at[c] = "store" => jwt[c] # NoToken

\* That is so as long as every login gives a token.
Handed == tokenless \/ Whole

\* What a caller whose renewal nobody disturbed has in its hands.
OwnToken(c) ==
  /\ at[c] = "store" =>
       jwt[c] \in valid /\ \A w \in Word \ todo[c] : token[w] = jwt[c]
  /\ at[c] = "reload" =>
       \E t \in valid : token = String(t) /\ \A w \in Loaded(c) : header[c][w] = t
  /\ at[c] = "resend" => \E t \in valid : header[c] = String(t)
  /\ at[c] # "refused"

HubInv ==
  /\ HubTypeOK
  /\ \A c \in Caller : ~disturbed[c] => OwnToken(c)

USE DockerHubAssumption

-----------------------------------------------------------------------------
\* The words of a string built from one token.
LEMMA StringWords == \A t : String(t) = [bytes |-> t, length |-> t]
BY DEF String, Words

\* A string is the words it has.
LEMMA StringIs ==
  ASSUME NEW s \in [Word -> 0..MaxToken], NEW t \in 0..MaxToken,
         \A w \in Word : s[w] = t
  PROVE  s = String(t)
BY DEF String, Words, Word

\* The string of a token is read as that token.
LEMMA ReadOwn == ASSUME NEW t \in Token PROVE ReadAs(String(t)) = t
BY DEF ReadAs, String, Words, NoToken, Token

LEMMA FreeTyped == Free \in [Word -> 0..MaxToken]
BY DEF Free, String, Words, NoToken, Word

\* A token that is given out is a token, and new.
LEMMA NewTyped ==
  ASSUME NEW t \in NewTokens
  PROVE  t \in Token /\ t \notin Held /\ t # NoToken
<1>1. PICK n \in {Length[u] : u \in Token \ Held} :
        t = CHOOSE u \in Token \ Held : Length[u] = n
  BY DEF NewTokens
<1>2. t \in Token \ Held
  BY <1>1
<1> QED
  BY <1>2 DEF Token, NoToken

LEMMA InitSafe == HubInit /\ tokenless \in BOOLEAN => HubInv
<1> SUFFICES ASSUME HubInit, tokenless \in BOOLEAN PROVE HubInv
  OBVIOUS
<1>1. HubTypeOK
  BY FreeTyped DEF HubInit, HubTypeOK, Ended, NoToken
<1>2. \A c \in Caller : at[c] = "idle"
  BY DEF HubInit
<1> QED
  BY <1>1, <1>2 DEF HubInv, OwnToken

-----------------------------------------------------------------------------
(* One step of one caller *)

\* A step of one caller that leaves the token, the tokens accepted and what is
\* remembered of the others alone leaves those safe.
LEMMA OthersSafe ==
  ASSUME HubInv, NEW c \in Caller, NEW d \in Caller, d # c,
         UNCHANGED <<token, valid, header[d], jwt[d], at[d], todo[d], disturbed[d]>>
  PROVE  /\ at'[d] = at[d] /\ jwt'[d] = jwt[d]
         /\ ~disturbed'[d] => OwnToken(d)'
         /\ ("bytes" \in Loaded(d) => header[d].bytes # NoToken)
              => ("bytes" \in Loaded(d)' => header'[d].bytes # NoToken)
BY DEF HubInv, OwnToken, Loaded

LEMMA GoTyped ==
  ASSUME HubTypeOK, NEW c \in Caller, NEW label, NEW words \in SUBSET Word,
         label \in Ended \union {"load", "send", "login"} \union Renewed,
         Go(c, label, words)
  PROVE  /\ at' \in [Caller -> Ended \union {"load", "send", "login"} \union Renewed]
         /\ todo' \in [Caller -> SUBSET Word]
         /\ at'[c] = label /\ todo'[c] = words
         /\ \A d \in Caller : d # c => at'[d] = at[d] /\ todo'[d] = todo[d]
BY DEF HubTypeOK, Go

LEMMA ReturnTyped ==
  ASSUME HubTypeOK, NEW c \in Caller, NEW how \in Ended \union {"login"}, Return(c, how)
  PROVE  /\ at' \in [Caller -> Ended \union {"load", "send", "login"} \union Renewed]
         /\ todo' \in [Caller -> SUBSET Word]
         /\ header' \in [Caller -> [Word -> 0..MaxToken]]
         /\ jwt' \in [Caller -> 0..MaxToken]
         /\ at'[c] = how
         /\ \A d \in Caller : d # c => /\ at'[d] = at[d] /\ todo'[d] = todo[d]
                                       /\ header'[d] = header[d] /\ jwt'[d] = jwt[d]
<1>1. Go(c, how, {})
  BY DEF Return
<1>2. NoToken \in 0..MaxToken
  BY DEF NoToken
<1> QED
  BY <1>1, <1>2, GoTyped, FreeTyped DEF Return, HubTypeOK

LEMMA CallSafe ==
  ASSUME HubInv, NEW c \in Caller, Call(c)
  PROVE  HubInv' /\ (Whole => Whole')
<1>1. Go(c, "load", Word)
  BY DEF Call
<1>2. HubTypeOK
  BY DEF HubInv
<1>3. HubTypeOK'
  BY <1>1, <1>2, GoTyped DEF Call, HubTypeOK
<1>4. \A d \in Caller : d # c =>
        UNCHANGED <<token, valid, header[d], jwt[d], at[d], todo[d], disturbed[d]>>
  BY <1>1, <1>2, GoTyped DEF Call, HubTypeOK
<1>5. at'[c] = "load" /\ todo'[c] = Word
  BY <1>1, <1>2, GoTyped
<1>6. OwnToken(c)' /\ Loaded(c)' = {} /\ at'[c] # "store"
  BY <1>5 DEF OwnToken, Loaded
<1>7. HubInv'
  BY <1>3, <1>4, <1>5, <1>6, OthersSafe DEF HubInv
<1>8. Whole => Whole'
  BY <1>4, <1>6, OthersSafe DEF Whole, Call
<1> QED
  BY <1>7, <1>8

\* A call that returns, or goes to the login, holds nothing any more.
LEMMA ReturnSafe ==
  ASSUME HubInv, NEW c \in Caller, NEW how \in Ended \union {"login"}, Return(c, how),
         disturbed' \in [Caller -> BOOLEAN],
         \A d \in Caller : d # c => disturbed'[d] = disturbed[d],
         how = "refused" => disturbed'[c],
         UNCHANGED <<token, valid, tokenless, expiries>>
  PROVE  HubInv' /\ (Whole => Whole')
<1>2. HubTypeOK
  BY DEF HubInv
<1>3. HubTypeOK'
  BY <1>2, ReturnTyped DEF HubTypeOK
<1>4. \A d \in Caller : d # c =>
        UNCHANGED <<token, valid, header[d], jwt[d], at[d], todo[d], disturbed[d]>>
  BY <1>2, ReturnTyped
<1>5. at'[c] = how
  BY <1>2, ReturnTyped
<1>6. (~disturbed'[c] => OwnToken(c)') /\ Loaded(c)' = {} /\ at'[c] # "store"
  BY <1>5 DEF OwnToken, Loaded, Ended
<1>7. HubInv'
  BY <1>3, <1>4, <1>6, OthersSafe DEF HubInv
<1>8. Whole => Whole'
  BY <1>4, <1>6, OthersSafe DEF Whole
<1> QED
  BY <1>7, <1>8

LEMMA LoadWordSafe ==
  ASSUME HubInv, NEW c \in Caller, NEW w \in Word, LoadWord(c, w)
  PROVE  HubInv' /\ (Whole => Whole')
<1>2. HubTypeOK
  BY DEF HubInv
<1>3. PICK label \in {"load", "reload", "send", "resend"} :
        /\ Go(c, label, todo[c] \ {w})
        /\ label = IF todo[c] # {w} THEN at[c] ELSE IF at[c] = "load" THEN "send" ELSE "resend"
  BY DEF LoadWord
<1>4. label \in Ended \union {"load", "send", "login"} \union Renewed
  BY <1>3 DEF Renewed
<1>5. todo[c] \ {w} \in SUBSET Word
  BY <1>2 DEF HubTypeOK
<1>6. /\ at' \in [Caller -> Ended \union {"load", "send", "login"} \union Renewed]
      /\ todo' \in [Caller -> SUBSET Word]
      /\ at'[c] = label /\ todo'[c] = todo[c] \ {w}
      /\ \A d \in Caller : d # c => at'[d] = at[d] /\ todo'[d] = todo[d]
  BY <1>2, <1>3, <1>4, <1>5, GoTyped
<1>7. token[w] \in 0..MaxToken
  BY <1>2 DEF HubTypeOK
<1>8. /\ header' \in [Caller -> [Word -> 0..MaxToken]]
      /\ header'[c] = [header[c] EXCEPT ![w] = token[w]]
      /\ header'[c] \in [Word -> 0..MaxToken]
      /\ \A d \in Caller : d # c => header'[d] = header[d]
  BY <1>2, <1>7 DEF LoadWord, HubTypeOK
<1>9. HubTypeOK'
  BY <1>2, <1>6, <1>8 DEF LoadWord, HubTypeOK
<1>10. \A d \in Caller : d # c =>
        UNCHANGED <<token, valid, header[d], jwt[d], at[d], todo[d], disturbed[d]>>
  BY <1>6, <1>8 DEF LoadWord
<1>11. /\ header'[c][w] = token[w]
       /\ \A v \in Word : v # w => header'[c][v] = header[c][v]
  BY <1>2, <1>8 DEF HubTypeOK
<1>12. w \in todo[c] /\ at[c] \in {"load", "reload"}
  BY DEF LoadWord
<1>13. Loaded(c)' \subseteq Loaded(c) \union {w}
  <2>1. CASE todo[c] = {w}
    BY <2>1, <1>3, <1>6, <1>12 DEF Loaded
  <2>2. CASE todo[c] # {w}
    BY <2>2, <1>3, <1>6, <1>12 DEF Loaded
  <2> QED
    BY <2>1, <2>2
<1>14. ~disturbed'[c] => OwnToken(c)'
  <2> SUFFICES ASSUME ~disturbed'[c] PROVE OwnToken(c)'
    OBVIOUS
  <2>1. ~disturbed[c] /\ OwnToken(c)
    BY DEF LoadWord, HubInv
  <2>2. CASE at[c] = "load"
    BY <2>2, <1>3, <1>6 DEF OwnToken
  <2>3. CASE at[c] = "reload"
    <3>1. PICK t \in valid : token = String(t) /\ \A v \in Loaded(c) : header[c][v] = t
      BY <2>1, <2>3 DEF OwnToken
    <3>2. token[w] = t /\ t \in 0..MaxToken
      BY <3>1, <1>2, StringWords DEF Word, HubTypeOK, Token
    <3>3. \A v \in Loaded(c)' : header'[c][v] = t
      BY <3>1, <3>2, <1>11, <1>13, <1>6 DEF Loaded
    <3>4. CASE todo[c] = {w}
      <4>1. at'[c] = "resend"
        BY <3>4, <2>3, <1>3, <1>6
      <4>2. header'[c] = String(t)
        BY <4>1, <3>2, <3>3, <1>8, StringIs DEF Loaded
      <4> QED
        BY <4>1, <4>2 DEF OwnToken, LoadWord
    <3>5. CASE todo[c] # {w}
      <4>1. at'[c] = "reload"
        BY <3>5, <2>3, <1>3, <1>6
      <4> QED
        BY <4>1, <3>1, <3>3 DEF OwnToken, LoadWord
    <3> QED
      BY <3>4, <3>5
  <2> QED
    BY <2>2, <2>3, <1>12
<1>15. HubInv'
  BY <1>3, <1>6, <1>9, <1>10, <1>14, OthersSafe DEF HubInv
<1>16. Whole => Whole'
  <2> SUFFICES ASSUME Whole PROVE Whole'
    OBVIOUS
  <2>1. /\ "bytes" \in Loaded(c)' => header'[c].bytes # NoToken
        /\ at'[c] # "store"
    BY <1>3, <1>6, <1>11, <1>13 DEF Whole, Word
  <2> QED
    BY <2>1, <1>10, OthersSafe DEF Whole, LoadWord
<1> QED
  BY <1>15, <1>16

LEMMA SendSafe ==
  ASSUME HubInv, NEW c \in Caller, Send(c)
  PROVE  HubInv' /\ (Whole => Whole')
<1>1. PICK how \in Ended \union {"login"} : Return(c, how) /\ how # "refused"
  BY DEF Send, Unsendable, Ended
<1>2. disturbed' = disturbed /\ UNCHANGED <<token, valid, tokenless, expiries>>
  BY DEF Send
<1> QED
  BY <1>1, <1>2, ReturnSafe DEF HubInv, HubTypeOK

\* A call that ends well, or fails, forgets that it was disturbed.
LEMMA ForgetSafe ==
  ASSUME HubInv, NEW c \in Caller, NEW how \in {"idle", "answered"}, Return(c, how),
         disturbed' = [disturbed EXCEPT ![c] = FALSE],
         UNCHANGED <<token, valid, tokenless, expiries>>
  PROVE  HubInv' /\ (Whole => Whole')
BY ReturnSafe DEF HubInv, HubTypeOK, Ended

LEMMA ResendSafe ==
  ASSUME HubInv, NEW c \in Caller, Resend(c)
  PROVE  HubInv' /\ (Whole => Whole')
<1>1. UNCHANGED <<token, valid, tokenless, expiries>> /\ at[c] = "resend"
  BY DEF Resend
<1>2. CASE /\ Return(c, "idle") \/ Return(c, "answered")
           /\ disturbed' = [disturbed EXCEPT ![c] = FALSE]
  BY <1>1, <1>2, ForgetSafe
<1>3. CASE /\ ReadAs(header[c]) \notin valid
           /\ Return(c, "refused") /\ UNCHANGED disturbed
  <2>1. disturbed[c]
    <3>1. SUFFICES ASSUME ~disturbed[c] PROVE FALSE
      BY DEF HubInv, HubTypeOK
    <3>2. PICK u \in valid : header[c] = String(u)
      BY <3>1, <1>1 DEF HubInv, OwnToken
    <3>3. ReadAs(header[c]) = u
      BY <3>2, ReadOwn DEF HubInv, HubTypeOK
    <3> QED
      BY <1>3, <3>2, <3>3
  <2> QED
    BY <1>1, <1>3, <2>1, ReturnSafe DEF HubInv, HubTypeOK, Ended
<1> QED
  BY <1>2, <1>3 DEF Resend, Unsendable

LEMMA CallFailsSafe ==
  ASSUME HubInv, NEW c \in Caller, CallFails(c)
  PROVE  HubInv' /\ (Whole => Whole')
BY ForgetSafe DEF CallFails

LEMMA RecoveredSafe ==
  ASSUME HubInv, NEW c \in Caller, Recovered(c)
  PROVE  HubInv' /\ (Whole => Whole')
BY ForgetSafe DEF Recovered

LEMMA LoginSafe ==
  ASSUME HubInv, NEW c \in Caller, Login(c)
  PROVE  HubInv' /\ (Handed => Handed')
<1>1. Go(c, "store", Word) /\ UNCHANGED <<token, header, expiries>>
  BY DEF Login, KeepToken
<1>2. HubTypeOK
  BY DEF HubInv
<1>3. /\ at' \in [Caller -> Ended \union {"load", "send", "login"} \union Renewed]
      /\ todo' \in [Caller -> SUBSET Word]
      /\ at'[c] = "store" /\ todo'[c] = Word
      /\ \A d \in Caller : d # c => at'[d] = at[d] /\ todo'[d] = todo[d]
  BY <1>1, <1>2, GoTyped DEF Renewed
<1>4. PICK t \in Token \union {NoToken} :
        /\ Authenticated(t)
        /\ jwt' = [jwt EXCEPT ![c] = t]
        /\ disturbed' = [disturbed EXCEPT ![c] = (t = NoToken)]
  BY DEF Login
<1>5. /\ jwt' \in [Caller -> 0..MaxToken]
      /\ jwt'[c] = t
      /\ \A d \in Caller : d # c => jwt'[d] = jwt[d]
  BY <1>2, <1>4 DEF HubTypeOK, Token, NoToken
<1>6. /\ valid \intersect Held \subseteq valid' /\ valid' \subseteq Token
      /\ t # NoToken => t \in valid' /\ tokenless' = tokenless
      /\ t = NoToken => tokenless'
      /\ tokenless' \in BOOLEAN
  BY <1>2, <1>4, NewTyped DEF Authenticated, HubTypeOK
<1>7. /\ disturbed' \in [Caller -> BOOLEAN]
      /\ disturbed'[c] = (t = NoToken)
      /\ \A d \in Caller : d # c => disturbed'[d] = disturbed[d]
  BY <1>2, <1>4 DEF HubTypeOK
<1>8. HubTypeOK'
  BY <1>1, <1>2, <1>3, <1>5, <1>6, <1>7 DEF HubTypeOK
<1>9. ~disturbed'[c] => OwnToken(c)'
  BY <1>3, <1>5, <1>6, <1>7 DEF OwnToken
<1>10. ASSUME NEW d \in Caller, d # c, ~disturbed'[d]
       PROVE  OwnToken(d)'
  <2>1. OwnToken(d) /\ UNCHANGED <<token, header[d], jwt[d], at[d], todo[d]>>
    BY <1>1, <1>3, <1>5, <1>7, <1>10 DEF HubInv
  <2>2. CASE at[d] = "store"
    <3>1. jwt[d] \in valid'
      BY <2>1, <2>2, <1>6 DEF OwnToken, Held
    <3> QED
      BY <2>1, <2>2, <3>1 DEF OwnToken
  <2>3. CASE at[d] = "reload"
    <3>1. PICK u \in valid : token = String(u) /\ \A w \in Loaded(d) : header[d][w] = u
      BY <2>1, <2>3 DEF OwnToken
    <3>2. u \in valid'
      BY <3>1, <1>6, StringWords DEF Held
    <3>3. Loaded(d)' = Loaded(d)
      BY <2>1 DEF Loaded
    <3> QED
      BY <2>1, <2>3, <3>1, <3>2, <3>3 DEF OwnToken
  <2>4. CASE at[d] = "resend"
    <3>1. PICK u \in valid : header[d] = String(u)
      BY <2>1, <2>4 DEF OwnToken
    <3>2. u \in valid'
      BY <3>1, <1>6, StringWords DEF Held
    <3> QED
      BY <2>1, <2>4, <3>1, <3>2 DEF OwnToken
  <2> QED
    BY <2>1, <2>2, <2>3, <2>4 DEF OwnToken
<1>11. HubInv'
  BY <1>8, <1>9, <1>10 DEF HubInv
<1>12. Handed => Handed'
  <2>1. CASE tokenless'
    BY <2>1 DEF Handed
  <2>2. CASE ~tokenless'
    <3>1. t # NoToken /\ ~tokenless
      BY <1>6, <2>2
    <3>2. Loaded(c)' = {}
      BY <1>3 DEF Loaded
    <3>3. \A d \in Caller : d # c => Loaded(d)' = Loaded(d)
      BY <1>3 DEF Loaded
    <3>4. Whole => Whole'
      BY <1>1, <1>3, <1>5, <3>1, <3>2, <3>3 DEF Whole
    <3> QED
      BY <3>1, <3>4 DEF Handed
  <2> QED
    BY <2>1, <2>2
<1> QED
  BY <1>11, <1>12

LEMMA StoreWordSafe ==
  ASSUME HubInv, NEW c \in Caller, NEW w \in Word, StoreWord(c, w)
  PROVE  HubInv' /\ (Whole => Whole')
<1>1. /\ at[c] = "store" /\ w \in todo[c]
      /\ token' = [token EXCEPT ![w] = jwt[c]]
      /\ UNCHANGED <<valid, header, tokenless, expiries>>
  BY DEF StoreWord, Store
<1>2. HubTypeOK /\ jwt[c] \in 0..MaxToken
  BY <1>1 DEF HubInv, HubTypeOK
<1>3. /\ token' \in [Word -> 0..MaxToken]
      /\ token'[w] = jwt[c]
      /\ \A v \in Word : v # w => token'[v] = token[v]
  BY <1>1, <1>2 DEF HubTypeOK
<1>4. PICK label \in {"store", "reload"}, words \in SUBSET Word :
        /\ Go(c, label, words)
        /\ label = IF todo[c] = {w} THEN "reload" ELSE "store"
        /\ words = IF todo[c] = {w} THEN Word ELSE todo[c] \ {w}
  BY <1>2 DEF StoreWord, HubTypeOK
<1>5. /\ at' \in [Caller -> Ended \union {"load", "send", "login"} \union Renewed]
      /\ todo' \in [Caller -> SUBSET Word]
      /\ at'[c] = label /\ todo'[c] = words
      /\ \A d \in Caller : d # c => at'[d] = at[d] /\ todo'[d] = todo[d]
  BY <1>2, <1>4, GoTyped DEF Renewed
<1>6. /\ jwt' \in [Caller -> 0..MaxToken]
      /\ \A d \in Caller : d # c => jwt'[d] = jwt[d]
      /\ label = "store" => jwt'[c] = jwt[c]
  BY <1>2, <1>4 DEF StoreWord, HubTypeOK, NoToken
<1>7. /\ disturbed' \in [Caller -> BOOLEAN]
      /\ disturbed'[c] = disturbed[c]
      /\ \A d \in Caller : d # c /\ ~disturbed'[d] => ~disturbed[d] /\ at[d] \notin Renewed
  BY <1>2 DEF StoreWord, HubTypeOK
<1>8. HubTypeOK'
  BY <1>1, <1>2, <1>3, <1>5, <1>6, <1>7 DEF HubTypeOK
<1>9. ASSUME NEW d \in Caller, d # c, ~disturbed'[d]
      PROVE  OwnToken(d)'
  BY <1>5, <1>7, <1>9 DEF OwnToken, HubInv, Renewed
<1>10. ASSUME ~disturbed'[c] PROVE OwnToken(c)'
  <2>1. jwt[c] \in valid /\ \A v \in Word \ todo[c] : token[v] = jwt[c]
    BY <1>1, <1>7, <1>10 DEF HubInv, OwnToken
  <2>2. CASE todo[c] = {w}
    <3>1. \A v \in Word : token'[v] = jwt[c]
      BY <2>1, <2>2, <1>3
    <3>2. token' = String(jwt[c])
      BY <3>1, <1>2, <1>3, StringIs
    <3>3. Loaded(c)' = {} /\ at'[c] = "reload"
      BY <2>2, <1>4, <1>5 DEF Loaded
    <3> QED
      BY <2>1, <3>2, <3>3, <1>1 DEF OwnToken
  <2>3. CASE todo[c] # {w}
    <3>1. at'[c] = "store" /\ todo'[c] = todo[c] \ {w} /\ jwt'[c] = jwt[c]
      BY <2>3, <1>4, <1>5, <1>6
    <3>2. \A v \in Word \ todo'[c] : token'[v] = jwt'[c]
      BY <2>1, <3>1, <1>3
    <3> QED
      BY <2>1, <3>1, <3>2, <1>1 DEF OwnToken
  <2> QED
    BY <2>2, <2>3
<1>11. HubInv'
  BY <1>8, <1>9, <1>10 DEF HubInv
<1>12. Whole => Whole'
  <2> SUFFICES ASSUME Whole PROVE Whole'
    OBVIOUS
  <2>1. jwt[c] # NoToken /\ token'.bytes # NoToken
    BY <1>1, <1>3 DEF Whole, Word
  <2>2. Loaded(c)' = {} /\ (at'[c] = "store" => jwt'[c] = jwt[c])
    BY <1>4, <1>5, <1>6 DEF Loaded
  <2>3. \A d \in Caller : d # c => Loaded(d)' = Loaded(d)
    BY <1>5 DEF Loaded
  <2> QED
    BY <1>1, <1>5, <1>6, <2>1, <2>2, <2>3 DEF Whole
<1> QED
  BY <1>11, <1>12

LEMMA GoesOnSafe ==
  ASSUME HubInv, NEW c \in Caller, GoesOn(c)
  PROVE  HubInv' /\ (Handed => Handed')
<1>1. CASE Send(c)
  BY <1>1, SendSafe DEF Send, Handed
<1>2. CASE Resend(c)
  BY <1>2, ResendSafe DEF Resend, Handed
<1>3. CASE Recovered(c)
  BY <1>3, RecoveredSafe DEF Recovered, Handed
<1>4. ASSUME NEW w \in Word, LoadWord(c, w) \/ StoreWord(c, w)
      PROVE  HubInv' /\ (Handed => Handed')
  <2>1. HubInv' /\ (Whole => Whole')
    BY <1>4, LoadWordSafe, StoreWordSafe
  <2>2. UNCHANGED tokenless
    BY <1>4 DEF LoadWord, StoreWord
  <2> QED
    BY <2>1, <2>2 DEF Handed
<1> QED
  BY <1>1, <1>2, <1>3, <1>4, LoginSafe DEF GoesOn

LEMMA ExpireSafe ==
  ASSUME HubInv, Expire
  PROVE  HubInv' /\ (Whole => Whole')
<1>1. /\ UNCHANGED <<token, at, todo, header, jwt, tokenless>>
      /\ valid' \subseteq valid /\ expiries' \in 0..MaxExpiries
  BY DEF Expire, HubInv, HubTypeOK
<1>2. /\ disturbed' \in [Caller -> BOOLEAN]
      /\ \A c \in Caller : ~disturbed'[c] => ~disturbed[c] /\ at[c] \notin Renewed
  BY DEF Expire, HubInv, HubTypeOK
<1>3. HubTypeOK'
  BY <1>1, <1>2 DEF HubInv, HubTypeOK
<1>4. \A c \in Caller : ~disturbed'[c] => OwnToken(c)'
  BY <1>1, <1>2 DEF HubInv, OwnToken, Renewed
<1> QED
  BY <1>1, <1>3, <1>4 DEF HubInv, Whole, Loaded
===============================================================================
