----------------------------- MODULE Sessions_proofs -----------------------------
(***************************************************************************)
(* Sign-ins end and no token is refused early, for any number of           *)
(* instances, any secrets, life times and skew.                            *)
(***************************************************************************)
EXTENDS Sessions, TLAPS

(* What an instance issues is a token whose times fit. *)
LEMMA EncodeFits ==
    ASSUME TypeOK, NEW i \in Instances, NEW type \in Types, Configured(i, type),
           NEW login \in Nat, login <= now,
           type = REFRESH_TOKEN_TYPE => login = now,
           Clock(i) < login + Skew + RefreshTTL \/ login = now
    PROVE  LET t == Encode(i, type, login)
           IN  /\ t \in Token
               /\ t.login <= t.issued /\ t.issued = now
               /\ t.issued <= t.iat /\ t.iat <= t.issued + Skew
               /\ t.exp = t.iat + TTL(t.type)
               /\ t.type = REFRESH_TOKEN_TYPE => t.issued = t.login
               /\ t.type = ACCESS_TOKEN_TYPE => t.exp <= t.login + Skew + RefreshTTL + AccessTTL
<1> DEFINE t == Encode(i, type, login)
<1>1. offset[i] \in Int /\ 0 <= offset[i] /\ offset[i] <= Skew /\ now \in Nat
  BY TimesAssumption DEF TypeOK
<1>2. secret[i][type] \in Secrets
  <2>1. secret[i] \in [Types -> Secrets \cup {NoSecret}]
    BY SecretAssumption DEF TypeOK
  <2>2. QED BY <2>1 DEF Configured
<1>3. Clock(i) \in Int /\ TTL(type) \in Nat
  BY <1>1, TimesAssumption DEF Clock, TTL
<1>4. /\ t.type = type /\ t.secret = secret[i][type] /\ t.iat = Clock(i)
      /\ t.exp = Clock(i) + TTL(type) /\ t.login = login /\ t.issued = now
  BY DEF Encode
<1>5. t \in Token
  BY <1>1, <1>2, <1>3 DEF Encode, Token
<1>6. now <= Clock(i) /\ Clock(i) <= now + Skew
  BY <1>1, TimesAssumption DEF Clock
<1>7. ASSUME type = ACCESS_TOKEN_TYPE
      PROVE  Clock(i) + TTL(type) <= login + Skew + RefreshTTL + AccessTTL
  BY <1>1, <1>3, <1>6, <1>7, TimesAssumption DEF TTL
<1>8. QED BY <1>1, <1>4, <1>5, <1>6, <1>7

(* An accepted token has not expired by the clock of the instance, nor then by the
   slowest clock.                                                               *)
LEMMA DecodedInTime ==
    ASSUME TypeOK, NEW i \in Instances, NEW t \in tokens, NEW type \in Types,
           Decodes(i, t, type)
    PROVE  t.type = type /\ Clock(i) < t.exp /\ now < t.exp
BY TimesAssumption DEF TypeOK, Decodes, Clock, Token

(* A token that an instance with the right secret refuses is near one of its ends. *)
LEMMA RefusedAtTheEnds ==
    ASSUME TypeOK, TokensFit, NEW i \in Instances, NEW t \in tokens, NEW type \in Types,
           ~ Decodes(i, t, type), t.type = type, t.secret = secret[i][type]
    PROVE  Age(t) < Skew \/ Age(t) >= TTL(type) - Skew
<1>1. /\ offset[i] \in Int /\ 0 <= offset[i] /\ offset[i] <= Skew /\ now \in Nat
      /\ t \in Token
  BY TimesAssumption DEF TypeOK
<1>2. /\ t.issued <= t.iat /\ t.iat <= t.issued + Skew
      /\ t.exp = t.iat + TTL(type) /\ TTL(type) \in Nat
  BY TimesAssumption DEF TokensFit, TTL
<1>3. Clock(i) < t.iat \/ Clock(i) >= t.exp
  BY <1>1, <1>2 DEF Decodes, Clock, Token
<1>4. QED BY <1>1, <1>2, <1>3, TimesAssumption DEF Age, Clock, Token

(* Handing out tokens that fit keeps types and times. *)
LEMMA HandOutFits ==
    ASSUME TypeOK, TokensFit, UNCHANGED <<now, offset, secret>>, NEW issued, HandOut(issued),
           \A t \in issued :
               /\ t \in Token
               /\ t.login <= t.issued /\ t.issued = now
               /\ t.issued <= t.iat /\ t.iat <= t.issued + Skew
               /\ t.exp = t.iat + TTL(t.type)
               /\ t.type = REFRESH_TOKEN_TYPE => t.issued = t.login
               /\ t.type = ACCESS_TOKEN_TYPE => t.exp <= t.login + Skew + RefreshTTL + AccessTTL
    PROVE  tokens' \subseteq Token /\ tokens \subseteq tokens' /\ TokensFit'
<1>1. tokens' = tokens \cup issued
  BY DEF HandOut
<1>2. tokens' \subseteq Token
  BY <1>1 DEF TypeOK
<1>3. ASSUME NEW t \in tokens'
      PROVE  /\ t.login <= t.issued /\ t.issued <= now'
             /\ t.issued <= t.iat /\ t.iat <= t.issued + Skew
             /\ t.exp = t.iat + TTL(t.type)
             /\ t.type = REFRESH_TOKEN_TYPE => t.issued = t.login
             /\ t.type = ACCESS_TOKEN_TYPE => t.exp <= t.login + Skew + RefreshTTL + AccessTTL
  <2>1. CASE t \in tokens BY <2>1 DEF TokensFit
  <2>2. CASE t \in issued BY <2>2 DEF TypeOK
  <2>3. QED BY <1>1, <2>1, <2>2
<1>4. QED BY <1>1, <1>2, <1>3 DEF TokensFit, TTL

LEMMA NothingHandedOut ==
    ASSUME TypeOK, TokensFit, UNCHANGED <<now, offset, secret>>, HandOut({})
    PROVE  tokens' = tokens /\ TokensFit'
BY DEF HandOut, TokensFit, TTL

LEMMA InitInv == Init => SessionsInv
BY TimesAssumption
   DEF Init, NoRequest, SessionsInv, TypeOK, TokensFit, SessionEnds, NoEarlyRefusal,
       Accepted

(* A request of no concern to the history: only the tokens can disturb the rest. *)
LEMMA OtherRequests ==
    ASSUME last'.kind \in {"none", "google"}
    PROVE  SessionEnds' /\ NoEarlyRefusal'
BY DEF SessionEnds, NoEarlyRefusal, Accepted

LEMMA SignInKeepsInv ==
    ASSUME SessionsInv, NEW i \in Instances, SignIn(i) PROVE SessionsInv'
<1> USE DEF SessionsInv
<1>1. UNCHANGED <<now, offset, secret>> /\ \E code \in {200, 401, 500} : Answered("google", code, i, NoToken)
  BY DEF SignIn
<1>2. last'.kind = "google" /\ last'.status \in {200, 401, 500}
  BY <1>1 DEF Answered
<1>3. SessionEnds' /\ NoEarlyRefusal'
  BY <1>2, OtherRequests
<1>4. tokens' \subseteq Token /\ TokensFit'
  <2>1. CASE HandOut({})
    BY <1>1, <2>1, NothingHandedOut DEF TypeOK
  <2>2. CASE /\ \A type \in Types : Configured(i, type)
             /\ HandOut({Encode(i, type, now) : type \in Types})
    <3> DEFINE issued == {Encode(i, type, now) : type \in Types}
    <3>1. ASSUME NEW t \in issued
          PROVE  /\ t \in Token
                 /\ t.login <= t.issued /\ t.issued = now
                 /\ t.issued <= t.iat /\ t.iat <= t.issued + Skew
                 /\ t.exp = t.iat + TTL(t.type)
                 /\ t.type = REFRESH_TOKEN_TYPE => t.issued = t.login
                 /\ t.type = ACCESS_TOKEN_TYPE => t.exp <= t.login + Skew + RefreshTTL + AccessTTL
      <4>1. PICK type \in Types : t = Encode(i, type, now)
        OBVIOUS
      <4>2. now \in Nat /\ now <= now
        BY DEF TypeOK
      <4>3. QED BY <2>2, <4>1, <4>2, EncodeFits
    <3> HIDE DEF issued
    <3>2. HandOut(issued)
      BY <2>2 DEF issued
    <3>3. QED BY <1>1, <3>1, <3>2, HandOutFits
  <2>3. QED BY <2>1, <2>2 DEF SignIn
<1>5. TypeOK'
  BY <1>1, <1>2, <1>4 DEF TypeOK
<1>6. QED BY <1>3, <1>4, <1>5

LEMMA RefreshKeepsInv ==
    ASSUME SessionsInv, NEW i \in Instances, NEW t \in tokens, Refresh(i, t) PROVE SessionsInv'
<1> USE DEF SessionsInv
<1>1. UNCHANGED <<now, offset, secret>>
  BY DEF Refresh
<1>2. \/ HandOut({})
      \/ /\ HandOut({Encode(i, ACCESS_TOKEN_TYPE, t.login)})
         /\ Configured(i, ACCESS_TOKEN_TYPE) /\ Decodes(i, t, REFRESH_TOKEN_TYPE)
  BY DEF Refresh
<1>3. tokens' \subseteq Token /\ tokens \subseteq tokens' /\ TokensFit'
  <2>1. CASE HandOut({})
    BY <1>1, <2>1, NothingHandedOut DEF TypeOK
  <2>2. CASE /\ HandOut({Encode(i, ACCESS_TOKEN_TYPE, t.login)})
             /\ Configured(i, ACCESS_TOKEN_TYPE) /\ Decodes(i, t, REFRESH_TOKEN_TYPE)
    <3>1. t.type = REFRESH_TOKEN_TYPE /\ Clock(i) < t.exp
      BY <2>2, DecodedInTime DEF Types
    <3>2. t \in Token /\ t.login \in Nat /\ t.login <= now /\ Clock(i) < t.login + Skew + RefreshTTL
      <4>1. t \in Token /\ now \in Nat /\ offset[i] \in Int
        BY TimesAssumption DEF TypeOK
      <4>2. /\ t.login = t.issued /\ t.issued <= now /\ t.iat <= t.issued + Skew
            /\ t.exp = t.iat + RefreshTTL
        BY <3>1 DEF TokensFit, TTL, REFRESH_TOKEN_TYPE, ACCESS_TOKEN_TYPE
      <4>3. QED BY <3>1, <4>1, <4>2, TimesAssumption DEF Token, Clock
    <3>3. ACCESS_TOKEN_TYPE \in Types /\ ACCESS_TOKEN_TYPE # REFRESH_TOKEN_TYPE
      BY DEF Types, ACCESS_TOKEN_TYPE, REFRESH_TOKEN_TYPE
    <3> DEFINE new == Encode(i, ACCESS_TOKEN_TYPE, t.login)
    <3>4. /\ new \in Token
          /\ new.login <= new.issued /\ new.issued = now
          /\ new.issued <= new.iat /\ new.iat <= new.issued + Skew
          /\ new.exp = new.iat + TTL(new.type)
          /\ new.type = REFRESH_TOKEN_TYPE => new.issued = new.login
          /\ new.type = ACCESS_TOKEN_TYPE => new.exp <= new.login + Skew + RefreshTTL + AccessTTL
      BY <2>2, <3>2, <3>3, EncodeFits
    <3> HIDE DEF new
    <3>5. HandOut({new})
      BY <2>2 DEF new
    <3>6. QED BY <1>1, <3>4, <3>5, HandOutFits
  <2>3. QED BY <1>2, <2>1, <2>2
<1>4. /\ last'.kind = "refresh" /\ last'.token = t /\ last'.instance = i
      /\ last'.status \in {200, 401, 500}
      /\ last'.status = 200 => Decodes(i, t, REFRESH_TOKEN_TYPE)
      /\ last'.status # 200 => \/ ~ Decodes(i, t, REFRESH_TOKEN_TYPE)
                               \/ \E type \in Types : secret[i][type] = NoSecret
  BY DEF Refresh, Answered, Configured, Types
<1>5. TypeOK'
  BY <1>1, <1>3, <1>4 DEF TypeOK
<1>6. SessionEnds'
  BY <1>4 DEF SessionEnds, Accepted
<1>7. NoEarlyRefusal'
  <2>1. REFRESH_TOKEN_TYPE \in Types /\ TTL(REFRESH_TOKEN_TYPE) = RefreshTTL
    BY DEF Types, TTL, REFRESH_TOKEN_TYPE, ACCESS_TOKEN_TYPE
  <2>2. ASSUME last'.status # 200, t.type = REFRESH_TOKEN_TYPE, t.secret = secret[i][REFRESH_TOKEN_TYPE],
               \A type \in Types : secret[i][type] # NoSecret
        PROVE  Age(t) < Skew \/ Age(t) >= RefreshTTL - Skew
    BY <1>4, <2>1, <2>2, RefusedAtTheEnds
  <2>3. Needs("refresh") = Types
    BY DEF Needs
  <2>4. QED BY <1>1, <1>4, <2>2, <2>3 DEF NoEarlyRefusal, Age
<1>8. QED BY <1>3, <1>5, <1>6, <1>7

LEMMA AnalyzeKeepsInv ==
    ASSUME SessionsInv, NEW i \in Instances, NEW t \in tokens, Analyze(i, t) PROVE SessionsInv'
<1> USE DEF SessionsInv
<1>1. UNCHANGED <<now, offset, secret, tokens>>
  BY DEF Analyze
<1>2. /\ last'.kind = "analyze" /\ last'.token = t /\ last'.instance = i
      /\ last'.status \in {200, 401, 500}
      /\ last'.status = 200 => Decodes(i, t, ACCESS_TOKEN_TYPE)
      /\ last'.status # 200 => \/ ~ Decodes(i, t, ACCESS_TOKEN_TYPE)
                               \/ secret[i][ACCESS_TOKEN_TYPE] = NoSecret
  BY DEF Analyze, Answered, Configured
<1>3. ACCESS_TOKEN_TYPE \in Types /\ TTL(ACCESS_TOKEN_TYPE) = AccessTTL
  BY DEF Types, TTL
<1>4. TypeOK' /\ TokensFit'
  BY <1>1, <1>2 DEF TypeOK, TokensFit, TTL
<1>5. SessionEnds'
  <2>1. ASSUME last'.status = 200
        PROVE  now < t.login + RefreshTTL + AccessTTL + Skew
    <3>1. t.type = ACCESS_TOKEN_TYPE /\ now < t.exp
      BY <1>2, <1>3, <2>1, DecodedInTime
    <3>2. t.exp <= t.login + Skew + RefreshTTL + AccessTTL
      BY <3>1 DEF TokensFit
    <3>3. t \in Token /\ now \in Nat
      BY DEF TypeOK
    <3>4. QED BY <3>1, <3>2, <3>3, TimesAssumption DEF Token
  <2>2. QED BY <1>1, <1>2, <2>1 DEF SessionEnds, Accepted
<1>6. NoEarlyRefusal'
  <2>1. ASSUME last'.status # 200, t.type = ACCESS_TOKEN_TYPE, t.secret = secret[i][ACCESS_TOKEN_TYPE],
               secret[i][ACCESS_TOKEN_TYPE] # NoSecret
        PROVE  Age(t) < Skew \/ Age(t) >= AccessTTL - Skew
    BY <1>2, <1>3, <2>1, RefusedAtTheEnds
  <2>2. Needs("analyze") = {ACCESS_TOKEN_TYPE}
    BY DEF Needs
  <2>3. QED BY <1>1, <1>2, <2>1, <2>2 DEF NoEarlyRefusal, Age
<1>7. QED BY <1>4, <1>5, <1>6

LEMMA NextKeepsInv == SessionsInv /\ [Next]_vars => SessionsInv'
<1> SUFFICES ASSUME SessionsInv, [Next]_vars PROVE SessionsInv'
  OBVIOUS
<1>1. ASSUME NEW i \in Instances, SignIn(i) PROVE SessionsInv'
  BY <1>1, SignInKeepsInv
<1>2. ASSUME NEW i \in Instances, NEW t \in tokens, Refresh(i, t) PROVE SessionsInv'
  BY <1>2, RefreshKeepsInv
<1>3. ASSUME NEW i \in Instances, NEW t \in tokens, Analyze(i, t) PROVE SessionsInv'
  BY <1>3, AnalyzeKeepsInv
<1>4. ASSUME NEW i \in Instances, Redeploy(i) PROVE SessionsInv'
  <2>1. last'.kind = "none" /\ last'.status = 0
    BY <1>4 DEF Redeploy, NoRequest
  <2>2. TypeOK' /\ TokensFit'
    BY <1>4, <2>1 DEF SessionsInv, TypeOK, Redeploy, TokensFit, TTL
  <2>3. QED BY <2>1, <2>2, OtherRequests DEF SessionsInv
<1>5. ASSUME Tick PROVE SessionsInv'
  <2>1. last'.kind = "none" /\ last'.status = 0
    BY <1>5 DEF Tick, NoRequest
  <2>2. TypeOK'
    BY <1>5, <2>1 DEF SessionsInv, TypeOK, Tick
  <2>3. TokensFit'
    BY <1>5 DEF SessionsInv, TypeOK, Token, Tick, TokensFit, TTL
  <2>4. QED BY <2>1, <2>2, <2>3, OtherRequests DEF SessionsInv
<1>6. ASSUME UNCHANGED vars PROVE SessionsInv'
  BY <1>6 DEF vars, SessionsInv, TypeOK, TokensFit, TTL, SessionEnds,
             NoEarlyRefusal, Accepted, Age
<1>7. QED BY <1>1, <1>2, <1>3, <1>4, <1>5, <1>6 DEF Next

(* The inductive invariant: tokens fit the times of their sign-in, their issue and
   their expiry, whichever instances they went through.                           *)
THEOREM InvHolds == Spec => []SessionsInv
<1>1. Init => SessionsInv
  BY InitInv
<1>2. SessionsInv /\ [Next]_vars => SessionsInv'
  BY NextKeepsInv
<1>3. QED BY <1>1, <1>2, PTL DEF Spec

(* Every variable keeps its type, and no token is signed with a missing secret. *)
THEOREM TypeCorrect == Spec => []TypeOK
BY InvHolds, PTL DEF SessionsInv

(* A sign-in carries for the two life times and the skew, and no longer, however
   often and wherever it is refreshed.                                         *)
THEOREM SessionsEnd == Spec => []SessionEnds
BY InvHolds, PTL DEF SessionsInv

(* A token in the middle of its life is accepted wherever its secret is, together
   with the other secrets the request needs.                                     *)
THEOREM NoTokenRefusedEarly == Spec => []NoEarlyRefusal
BY InvHolds, PTL DEF SessionsInv
=============================================================================
