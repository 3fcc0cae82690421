------------------------------ MODULE Sessions ------------------------------
(***************************************************************************)
(* Sign-in, refresh and logout of one account from several clients:        *)
(* AuthService.verifyOtp (after the code was accepted), refreshToken and   *)
(* logout.  Accounts do not interact, so one is enough.                    *)
(*                                                                         *)
(* The account document keeps the hash of one refresh token.  A refresh    *)
(* token has no id: it is signed over the account, the type and the second *)
(* of issue, so two tokens of the account issued in one second are the     *)
(* same string.  A token is therefore its second of issue.                 *)
(*                                                                         *)
(* Every request advances one database call at a time, its response        *)
(* reaches the client in a step of its own, and Fail is a call that throws *)
(* or a response that is lost.                                             *)
(***************************************************************************)
EXTENDS Integers

CONSTANTS Clients,       \* browsers, each with one cookie jar
          Requests,      \* slots for the requests of the account served at the same time
          RefreshTTL,    \* jwt.refreshExpiresIn, in seconds
          MaxSecond      \* bound on the clock

ASSUME TTLAssumption == RefreshTTL \in Nat \ {0}
ASSUME BoundAssumption == MaxSecond \in Nat \ {0}

VARIABLES second,      \* the clock
          account,     \* the account document exists
          stored,      \* refreshTokenHash: the token whose hash it is, or NoToken
          cookie,      \* the refresh_token cookie of each client
          bearer,      \* the clients that were given an access token
          pc, client, token, issued,   \* each slot: next call, caller, token presented, token issued
          session,     \* history: "ended" from a logout to a sign-in, or to the save of a racer:
                       \*   "revived"
          racers,      \* history: the requests that were between the look-up and the save of a
                       \*   refresh when the last logout took effect
          disturbed,   \* history: requests that ran while another one did
          settled      \* history: the client last given a token by a request that ran alone

slots == <<pc, client, token, issued>>
sessionsVars == <<second, account, stored, cookie, bearer, slots,
                  session, racers, disturbed, settled>>

NoToken == 0
Nobody == "nobody"
Token == 1..MaxSecond

PCs == {"idle", "signIn.find", "signIn.create", "signIn.save", "refresh.find", "refresh.save",
        "logout.update", "respond", "rejected", "replaced", "loggedOut"}

ASSUME ClientsAssumption == Nobody \notin Clients

SessionsTypeOK == /\ second \in 1..MaxSecond
                  /\ account \in BOOLEAN
                  /\ stored \in Token \cup {NoToken}
                  /\ cookie \in [Clients -> Token \cup {NoToken}]
                  /\ bearer \subseteq Clients
                  /\ pc \in [Requests -> PCs]
                  /\ client \in [Requests -> Clients \cup {Nobody}]
                  /\ token \in [Requests -> Token \cup {NoToken}]
                  /\ issued \in [Requests -> Token \cup {NoToken}]
                  /\ \A r \in Requests : pc[r] # "idle" => client[r] \in Clients
                  /\ session \in {"open", "ended", "revived"}
                  /\ racers \subseteq Requests
                  /\ disturbed \subseteq Requests
                  /\ settled \in Clients \cup {Nobody}

SessionsInit == /\ second = 1
                /\ account = FALSE
                /\ stored = NoToken
                /\ cookie = [c \in Clients |-> NoToken]
                /\ bearer = {}
                /\ pc = [r \in Requests |-> "idle"]
                /\ client = [r \in Requests |-> Nobody]
                /\ token = [r \in Requests |-> NoToken]
                /\ issued = [r \in Requests |-> NoToken]
                /\ session = "open" /\ racers = {}
                /\ disturbed = {} /\ settled = Nobody

-----------------------------------------------------------------------------
(* Helpers.                                                                *)

Running == {r \in Requests : pc[r] # "idle"}

\* A request of client c that presents token t arrives in slot r and waits at `call`.
Arrive(r, c, t, call) ==
  /\ pc[r] = "idle"
  /\ pc' = [pc EXCEPT ![r] = call]
  /\ client' = [client EXCEPT ![r] = c]
  /\ token' = [token EXCEPT ![r] = t]
  /\ disturbed' = IF Running = {} THEN disturbed ELSE disturbed \cup Running \cup {r}
  /\ UNCHANGED <<second, account, stored, cookie, bearer, issued, session, racers, settled>>

Goto(r, call) == /\ pc' = [pc EXCEPT ![r] = call]
                 /\ UNCHANGED <<client, token, issued, racers, disturbed>>

\* generateTokens, and the next call.
GenerateTokens(r, call) == /\ pc' = [pc EXCEPT ![r] = call]
                           /\ issued' = [issued EXCEPT ![r] = second]
                           /\ UNCHANGED <<client, token, racers, disturbed>>

\* The request is over: its slot is free for another one.
Leave(r) == /\ pc' = [pc EXCEPT ![r] = "idle"]
            /\ client' = [client EXCEPT ![r] = Nobody]
            /\ token' = [token EXCEPT ![r] = NoToken]
            /\ issued' = [issued EXCEPT ![r] = NoToken]
            /\ racers' = racers \ {r}
            /\ disturbed' = disturbed \ {r}

\* jwtService.verify accepts any token of the account that has not expired.
Verifies(t) == t # NoToken /\ second < t + RefreshTTL

-----------------------------------------------------------------------------
(* POST /auth/verify-otp, the one-time code having been accepted.          *)

BeginSignIn(r, c) == Arrive(r, c, NoToken, "signIn.find")

SignInFind(r) ==
  /\ pc[r] = "signIn.find"
  /\ IF account THEN GenerateTokens(r, "signIn.save")
                ELSE Goto(r, "signIn.create")
  /\ UNCHANGED <<second, account, stored, cookie, bearer, session, settled>>

\* The phone is unique: of two first sign-ins the later one gets an error.
SignInCreate(r) ==
  /\ pc[r] = "signIn.create"
  /\ account' = TRUE
  /\ IF account THEN Leave(r)
                ELSE GenerateTokens(r, "signIn.save")
  /\ UNCHANGED <<second, stored, cookie, bearer, session, settled>>

SignInSave(r) ==
  /\ pc[r] = "signIn.save"
  /\ stored' = issued[r]
  /\ pc' = [pc EXCEPT ![r] = "respond"]
  /\ session' = "open" /\ racers' = {} /\ settled' = Nobody
  /\ UNCHANGED <<second, account, cookie, bearer, client, token, issued, disturbed>>

-----------------------------------------------------------------------------
(* POST /auth/refresh-token.  The signature and the expiry are checked     *)
(* before the first await.                                                 *)

BeginRefresh(r, c) ==
  Arrive(r, c, cookie[c], IF Verifies(cookie[c]) THEN "refresh.find" ELSE "rejected")

\* Seeded fault: an account without a hash accepts any token.
RefreshFindNoHash(r) ==
  /\ pc[r] = "refresh.find"
  /\ \/ stored \in {NoToken, token[r]} /\ GenerateTokens(r, "refresh.save")
     \/ stored \notin {NoToken, token[r]} /\ Goto(r, "replaced")
  /\ UNCHANGED <<second, account, stored, cookie, bearer, session, settled>>

\* Seeded fault: the stored hash is dropped when it is matched, to make the token one-use.
RefreshFindClaims(r) ==
  /\ pc[r] = "refresh.find"
  /\ IF stored = token[r]
       THEN GenerateTokens(r, "refresh.save") /\ stored' = NoToken
       ELSE Goto(r, "rejected") /\ UNCHANGED stored
  /\ UNCHANGED <<second, account, cookie, bearer, session, settled>>

RefreshFind(r) ==
  /\ pc[r] = "refresh.find"
  /\ \/ stored = token[r] /\ GenerateTokens(r, "refresh.save")
     \/ stored = NoToken /\ Goto(r, "rejected")
     \/ stored \notin {NoToken, token[r]} /\ Goto(r, "replaced")
  /\ UNCHANGED <<second, account, stored, cookie, bearer, session, settled>>

\* Mongoose writes the path only if it was modified: the same token again is no write.
RefreshSave(r) ==
  /\ pc[r] = "refresh.save"
  /\ pc' = [pc EXCEPT ![r] = "respond"]
  /\ IF issued[r] = token[r]
       THEN UNCHANGED <<stored, session, settled>>
       ELSE /\ stored' = issued[r]
            /\ session' = IF session = "ended" /\ r \in racers THEN "revived" ELSE session
            /\ settled' = Nobody
  /\ UNCHANGED <<second, account, cookie, bearer, client, token, issued, racers, disturbed>>

-----------------------------------------------------------------------------
(* POST /auth/logout.  The access token is all it takes.                   *)

BeginLogout(r, c) == /\ c \in bearer
                     /\ Arrive(r, c, NoToken, "logout.update")

\* What a logout does to the history.
Ended == /\ session' = "ended" /\ settled' = Nobody
         /\ racers' = {q \in Requests : pc[q] = "refresh.save"}

\* Seeded fault: only the cookie is cleared.
LogoutUpdateCookieOnly(r) ==
  /\ pc[r] = "logout.update"
  /\ pc' = [pc EXCEPT ![r] = "loggedOut"]
  /\ Ended
  /\ UNCHANGED <<second, account, stored, cookie, bearer, client, token, issued, disturbed>>

LogoutUpdate(r) ==
  /\ pc[r] = "logout.update"
  /\ stored' = NoToken
  /\ pc' = [pc EXCEPT ![r] = "loggedOut"]
  /\ Ended
  /\ UNCHANGED <<second, account, cookie, bearer, client, token, issued, disturbed>>

-----------------------------------------------------------------------------
(* Responses.                                                              *)

\* The client stores the cookie and the access token of a successful answer.
Respond(r) ==
  /\ pc[r] = "respond"
  /\ cookie' = [cookie EXCEPT ![client[r]] = issued[r]]
  /\ bearer' = bearer \cup {client[r]}
  /\ settled' = IF r \in disturbed THEN settled ELSE client[r]
  /\ Leave(r)
  /\ UNCHANGED <<second, account, stored, session>>

\* rejectRefresh and logout clear the cookie of whoever asked.
ClearCookie(r) ==
  /\ pc[r] \in {"rejected", "replaced", "loggedOut"}
  /\ cookie' = [cookie EXCEPT ![client[r]] = NoToken]
  /\ Leave(r)
  /\ UNCHANGED <<second, account, stored, bearer, session, settled>>

\* A call throws, the process dies, or the response is lost.
Fail(r) ==
  /\ pc[r] # "idle"
  /\ Leave(r)
  /\ UNCHANGED <<second, account, stored, cookie, bearer, session, settled>>

ClockTick == /\ second < MaxSecond
             /\ second' = second + 1
             /\ UNCHANGED <<account, stored, cookie, bearer, slots,
                            session, racers, disturbed, settled>>

Begin(r, c) == BeginSignIn(r, c) \/ BeginRefresh(r, c) \/ BeginLogout(r, c)

Step(r) == \/ SignInFind(r) \/ SignInCreate(r) \/ SignInSave(r)
           \/ RefreshFind(r) \/ RefreshSave(r)
           \/ LogoutUpdate(r)
           \/ Respond(r) \/ ClearCookie(r) \/ Fail(r)

SessionsNext == \/ \E r \in Requests, c \in Clients : Begin(r, c)
                \/ \E r \in Requests : Step(r)
                \/ ClockTick

SessionsSpec == SessionsInit /\ [][SessionsNext]_sessionsVars

-----------------------------------------------------------------------------
(* Properties                                                              *)

\* From a logout until the next sign-in no refresh is accepted, whichever client sends it,
\* whichever token it kept and whenever it arrived, but those whose token had been matched
\* before the logout took effect; until one of these saves, no hash is stored, and when
\* none of them is left, nothing but a sign-in stores one (AuthService.logout empties the
\* hash, not only the cookie of the caller).  That one of these saves is LogoutEndsSession.
RefusedAfterLogout ==
  session = "ended" => /\ stored = NoToken
                       /\ \A r \in Requests : pc[r] = "refresh.save" => r \in racers

\* A client whose sign-in or refresh ran alone keeps a cookie the next refresh
\* accepts, until the token expires or the session is replaced or ended.  Refused
\* requests of other clients and requests that fail half-way do not disturb it.
UndisturbedSessionWorks ==
  settled # Nobody => /\ stored # NoToken
                      /\ cookie[settled] = stored \/ ~Verifies(stored)

\* README "Logout" under session management: after a logout a refresh token of the
\* session is refused.  A refresh between its read and its save when the logout
\* happens writes a new hash over the cleared one, and the session lives on.
LogoutEndsSession == session # "revived"
=============================================================================
