-------------------------------- MODULE Sessions --------------------------------
(***************************************************************************)
(* app/auth.py and the auth endpoints of app/main.py: sign-in with Google, *)
(* refresh, and the token check of POST /v1/analyze.  The server keeps no  *)
(* session: whatever holds about one is in the tokens, in the secrets of   *)
(* the instance that is asked and in that instance's clock.  Instances are *)
(* redeployed, with other secrets too, and their clocks are up to Skew     *)
(* apart; time is told by the slowest clock there could be.                *)
(***************************************************************************)
EXTENDS Integers, FiniteSets

CONSTANTS
    Instances,     \* running copies of the backend
    Secrets,       \* values of JWT_ACCESS_SECRET and JWT_REFRESH_SECRET
    NoSecret,      \* the variable is not set
    Settings,      \* the pairs of secrets an instance may be deployed with
    AccessTTL,     \* settings.jwt_access_ttl_seconds
    RefreshTTL,    \* settings.jwt_refresh_ttl_seconds
    Skew,          \* how far the clocks of two instances may be apart
    NoToken,       \* the request carries no token of ours
    MaxTime,       \* bound: the time the model runs to
    MaxTokens      \* bound: tokens in circulation

ACCESS_TOKEN_TYPE == "access"
REFRESH_TOKEN_TYPE == "refresh"
Types == {ACCESS_TOKEN_TYPE, REFRESH_TOKEN_TYPE}

ASSUME SecretAssumption ==
    NoSecret \notin Secrets /\ Settings \subseteq [Types -> Secrets \cup {NoSecret}]
ASSUME TimesAssumption ==
    AccessTTL \in Nat /\ RefreshTTL \in Nat /\ Skew \in Nat /\ MaxTime \in Nat


VARIABLES
    now,       \* the time, by the slowest clock
    offset,    \* how far each instance's clock is ahead of it
    secret,    \* each instance's secrets
    tokens,    \* the tokens handed out so far
    last       \* history: the last request since the clock moved, and its answer

vars == <<now, offset, secret, tokens, last>>
-----------------------------------------------------------------------------
(* time.time() at an instance *)
Clock(i) == now + offset[i]

(* Seeded fault: the life times are mixed up. *)
TTLSwapped(type) == IF type = ACCESS_TOKEN_TYPE THEN RefreshTTL ELSE AccessTTL

TTL(type) == IF type = ACCESS_TOKEN_TYPE THEN AccessTTL ELSE RefreshTTL

(* _encode_token.  login and issued are history: the time of the sign-in the
   token goes back to, and of its own issue.                                  *)
Encode(i, type, login) ==
    [type |-> type, secret |-> secret[i][type],
     iat |-> Clock(i), exp |-> Clock(i) + TTL(type),
     login |-> login, issued |-> now]

(* Seeded fault: the type of the token is not looked at. *)
DecodesAnyType(i, t, type) ==
    /\ t.secret = secret[i][type]
    /\ t.iat <= Clock(i) /\ Clock(i) < t.exp

(* _decode_token: the signature fits, the token is neither from the future nor
   expired (the library's checks, with no leeway), and it is of the right type. *)
Decodes(i, t, type) ==
    /\ t.secret = secret[i][type]
    /\ t.iat <= Clock(i) /\ Clock(i) < t.exp
    /\ t.type = type

(* Seeded fault: a missing secret is used all the same. *)
ConfiguredOrNot(i, type) == i \in Instances /\ type \in Types

(* Seeded fault: either secret is asked for by a check of all the settings. *)
ConfiguredInFull(i, type) ==
    type \in Types /\ \A needed \in Types : secret[i][needed] # NoSecret

(* _access_secret, _refresh_secret: a missing secret is a 500. *)
Configured(i, type) == secret[i][type] # NoSecret

NoRequest == [kind |-> "none", status |-> 0, instance |-> NoToken, token |-> NoToken]
Answered(kind, status, i, t) ==
    last' = [kind |-> kind, status |-> status, instance |-> i, token |-> t]
HandOut(issued) == tokens' = tokens \cup issued

Init ==
    /\ now = 0
    /\ offset \in [Instances -> 0 .. Skew]
    /\ secret \in [Instances -> Settings]
    /\ tokens = {}
    /\ last = NoRequest

(* POST /v1/auth/google: a token of Google's that is not good is answered 401 (or
   500 without a client id), a good one with a pair.                             *)
SignIn(i) ==
    /\ \/ \E code \in {401, 500} : Answered("google", code, i, NoToken) /\ HandOut({})
       \/ /\ \A type \in Types : Configured(i, type)
          /\ Cardinality(tokens) + 2 <= MaxTokens
          /\ HandOut({Encode(i, type, now) : type \in Types})
          /\ Answered("google", 200, i, NoToken)
       \/ /\ \E type \in Types : ~ Configured(i, type)
          /\ Answered("google", 500, i, NoToken) /\ HandOut({})
    /\ UNCHANGED <<now, offset, secret>>

(* Seeded fault: the new token is issued before the old one is looked at. *)
RefreshUnchecked(i, t) ==
    /\ Configured(i, ACCESS_TOKEN_TYPE)
    /\ Cardinality(tokens) < MaxTokens
    /\ HandOut({Encode(i, ACCESS_TOKEN_TYPE, t.login)})
    /\ Answered("refresh", 200, i, t)
    /\ UNCHANGED <<now, offset, secret>>

(* POST /v1/auth/refresh: a refresh token buys an access token, and stays what it
   is.  The refresh secret is needed to check, the access secret to issue.       *)
Refresh(i, t) ==
    /\ \/ /\ ~ Configured(i, REFRESH_TOKEN_TYPE)
          /\ Answered("refresh", 500, i, t) /\ HandOut({})
       \/ /\ Configured(i, REFRESH_TOKEN_TYPE) /\ ~ Decodes(i, t, REFRESH_TOKEN_TYPE)
          /\ Answered("refresh", 401, i, t) /\ HandOut({})
       \/ /\ Configured(i, REFRESH_TOKEN_TYPE) /\ Decodes(i, t, REFRESH_TOKEN_TYPE)
          /\ IF Configured(i, ACCESS_TOKEN_TYPE)
             THEN /\ Cardinality(tokens) < MaxTokens
                  /\ HandOut({Encode(i, ACCESS_TOKEN_TYPE, t.login)})
                  /\ Answered("refresh", 200, i, t)
             ELSE Answered("refresh", 500, i, t) /\ HandOut({})
    /\ UNCHANGED <<now, offset, secret>>

(* The token check of POST /v1/analyze; 200 stands for being let in. *)
Analyze(i, t) ==
    /\ \/ /\ ~ Configured(i, ACCESS_TOKEN_TYPE)
          /\ Answered("analyze", 500, i, t)
       \/ /\ Configured(i, ACCESS_TOKEN_TYPE) /\ ~ Decodes(i, t, ACCESS_TOKEN_TYPE)
          /\ Answered("analyze", 401, i, t)
       \/ /\ Configured(i, ACCESS_TOKEN_TYPE) /\ Decodes(i, t, ACCESS_TOKEN_TYPE)
          /\ Answered("analyze", 200, i, t)
    /\ UNCHANGED <<now, offset, secret, tokens>>

(* An instance is replaced by one with other secrets.  Nothing is lost with it:
   tokens are nowhere but with the clients.                                   *)
Redeploy(i) ==
    /\ \E s \in Settings \ {secret[i]} : secret' = [secret EXCEPT ![i] = s]
    /\ last' = NoRequest
    /\ UNCHANGED <<now, offset, tokens>>

Tick ==
    /\ now < MaxTime
    /\ now' = now + 1
    /\ last' = NoRequest
    /\ UNCHANGED <<offset, secret, tokens>>

Next ==
    \/ \E i \in Instances : SignIn(i) \/ Redeploy(i)
    \/ \E i \in Instances, t \in tokens : Refresh(i, t) \/ Analyze(i, t)
    \/ Tick

Spec == Init /\ [][Next]_vars
-----------------------------------------------------------------------------
Token ==
    [type : Types, secret : Secrets, iat : Int, exp : Int, login : Nat, issued : Nat]

(* Every variable has its type; a token is never signed with a missing secret. *)
TypeOK ==
    /\ now \in Nat
    /\ offset \in [Instances -> 0 .. Skew]
    /\ secret \in [Instances -> Settings]
    /\ tokens \subseteq Token
    /\ last.kind \in {"none", "google", "refresh", "analyze"}
    /\ last.status \in {0, 200, 401, 500}
    /\ last.kind \in {"refresh", "analyze"} => last.token \in tokens /\ last.instance \in Instances

Accepted(kind) == last.kind = kind /\ last.status = 200

(* A sign-in carries for RefreshTTL + AccessTTL and no longer: refreshing buys
   access tokens, the last of them just before the refresh token expires, an access
   token buys nothing (tests/test_auth.py has the check of the kind for one request,
   and where both secrets are the same nothing but it keeps a session from renewing
   itself for ever), and on the way from one instance to the next the clocks add up
   to Skew at most, never once per refresh.                                        *)
SessionEnds ==
    Accepted("analyze") => now < last.token.login + RefreshTTL + AccessTTL + Skew

Age(t) == now - t.issued

(* The secrets a request needs: refreshing checks with one and issues with the other. *)
Needs(kind) == IF kind = "refresh" THEN Types ELSE {ACCESS_TOKEN_TYPE}

(* A token of the right kind is refused, by 401 or by 500, by an instance that
   still has the secret it was signed with and every other one the request needs,
   only near the ends of its life: when it is younger than the clocks are apart,
   or when its life time is up but for that much.  In particular an instance that
   has no refresh secret lets every good access token in.                        *)
NoEarlyRefusal ==
    LET t == last.token
        Refused(kind, type) ==
            /\ last.kind = kind /\ last.status # 200
            /\ t.type = type /\ t.secret = secret[last.instance][type]
            /\ \A needed \in Needs(kind) : secret[last.instance][needed] # NoSecret
        NearTheEnds(ttl) == Age(t) < Skew \/ Age(t) >= ttl - Skew
    IN  /\ Refused("analyze", ACCESS_TOKEN_TYPE) => NearTheEnds(AccessTTL)
        /\ Refused("refresh", REFRESH_TOKEN_TYPE) => NearTheEnds(RefreshTTL)
-----------------------------------------------------------------------------
(* What the tokens in circulation look like: times fit each other up to the skew,
   and an access token, however it was bought, ends with its session.            *)
TokensFit ==
    \A t \in tokens :
        /\ t.login <= t.issued /\ t.issued <= now
        /\ t.issued <= t.iat /\ t.iat <= t.issued + Skew
        /\ t.exp = t.iat + TTL(t.type)
        /\ t.type = REFRESH_TOKEN_TYPE => t.issued = t.login
        /\ t.type = ACCESS_TOKEN_TYPE => t.exp <= t.login + Skew + RefreshTTL + AccessTTL

SessionsInv == TypeOK /\ TokensFit /\ SessionEnds /\ NoEarlyRefusal
=============================================================================
