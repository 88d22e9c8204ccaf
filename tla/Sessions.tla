------------------------------ MODULE Sessions ------------------------------
(***************************************************************************)
(* Accounts, tokens and cookies: AuthService, UsersService, the passport   *)
(* strategies in front of them and the middleware that admits a socket.    *)
(* Each await on the database is a step of its own, so that a request may  *)
(* find the account as another request left it; the answers carry the      *)
(* cookies and reach the client in any order, or not at all.               *)
(*                                                                         *)
(* One e-mail address is modelled.  Accounts of other addresses share no   *)
(* row with it.  A token pair bears the name of the request that issued    *)
(* it, an account the name of the request that created it.  A crash of     *)
(* the process is every request under way failing.                         *)
(***************************************************************************)
EXTENDS Integers

CONSTANTS
    Requests,    \* the requests made
    Clients,     \* the clients that make them
    Browsers,    \* the clients that keep to the path of a cookie
    Passwords,
    Old,         \* the account and the token pair the run may begin with
    None,
    MaxExpiries  \* bound on the tokens that expire

ASSUME BrowsersAssumption == Browsers \subseteq Clients
ASSUME NamesAssumption ==
    Old \notin Requests /\ None \notin Requests \cup {Old} \cup Clients
ASSUME NoPasswordAssumption == None \notin Passwords
ASSUME ExpiriesAssumption == MaxExpiries \in Nat

VARIABLES
    account,   \* the row of users with the address, or NoAccount
    token,     \* token pair -> the subject it names and how old it is
    jar,       \* client -> the pairs its two cookies hold
    pc,        \* request -> the step it comes to next
    req,       \* request -> what it asks and brings along
    out,       \* request -> its answer
    expiries,
    \* History variables; no step of the code reads them.
    entitled,  \* requests that had a right to what they ask, at some time so far
    barred,    \* requests that had none, at some time so far
    crossed,   \* refreshes past their last look when the session was ended
    left,      \* clients that signed out, with no sign-in and no cookies since
    strays     \* requests of a client that were under way when it signed out

svars == <<account, token, jar, pc, req, out, expiries,
           entitled, barred, crossed, left, strays>>

Names == Requests \cup {Old}

NoAccount == [id |-> None, password |-> None, hash |-> None]
NoToken == [sub |-> None, age |-> "none"]
NoCookies == [access |-> None, refresh |-> None]
NoRequest == [kind |-> "none", client |-> None, access |-> None, refresh |-> None,
              password |-> None, new |-> None]

\* A pair is fresh; then its access token expires; then its refresh token does.
Ages == {"none", "fresh", "stale", "dead"}

\* The step each kind of request begins with.
Entry == [register |-> "find", login |-> "validate", refresh |-> "verify",
          logout |-> "guard", password |-> "guard", delete |-> "guard",
          profile |-> "guard", connect |-> "access"]
Kinds == DOMAIN Entry
SignIns == {"register", "login"}

\* Those whose answers bring cookies.
Opening == SignIns \cup {"refresh"}

\* The cookie of the refresh token is kept for the path /api/v1/auth.
AuthRoutes == {"register", "login", "refresh", "logout"}

InFlight(t) == pc[t] \notin {"idle", "answered", "done"}

\* What bcrypt keeps of a refresh token: it reads 72 bytes, which end inside the
\* subject of the payload.
DigestWhole(t) == t
Digest(t) == token[t].sub

AccessGood(t) == t # None /\ token[t].age = "fresh"
RefreshGood(t) == t # None /\ token[t].age \in {"fresh", "stale"}

\* findById of the subject a token names.
Present(id) == id # None /\ account.id = id
Holds(t) == t # None /\ Present(token[t].sub)

\* The account the update of a request is for.
Subject(t) ==
    IF req[t].kind \in Opening
    THEN token[t].sub ELSE token[req[t].access].sub
-----------------------------------------------------------------------------
(* What the requests have a right to, for the history variables and the      *)
(* properties.                                                               *)

Entitled(t) ==
    CASE req[t].kind = "register" -> account = NoAccount
      [] req[t].kind = "login"    -> account.password = req[t].password
      [] req[t].kind = "refresh"  ->
            /\ RefreshGood(req[t].refresh) /\ Holds(req[t].refresh)
            /\ account.hash # None
      [] req[t].kind = "password" ->
            Holds(req[t].access) /\ account.password = req[t].password
      [] req[t].kind = "connect"  ->
            \/ AccessGood(req[t].access) /\ Holds(req[t].access)
            \/ /\ RefreshGood(req[t].refresh) /\ Holds(req[t].refresh)
               /\ account.hash # None
      [] OTHER -> AccessGood(req[t].access) /\ Holds(req[t].access)

Barred(t) == \/ ~Entitled(t)
             \/ req[t].kind = "password" /\ ~AccessGood(req[t].access)

\* The history of every step; the call of a request in Failing fails in it.
Watch(Failing) ==
    LET Live(S) == {t \in S : pc'[t] # "done"}
    IN  /\ entitled' = Live(entitled \cup {t \in Requests : InFlight(t) /\ Entitled(t)})
        /\ barred' = Live(barred \cup Failing
                                 \cup {t \in Requests : InFlight(t) /\ Barred(t)})
-----------------------------------------------------------------------------
(* The pieces the handlers are made of.                                      *)

\* A request whose answer no longer matters leaves nothing behind but its pair.
Finish(t) ==
    /\ pc' = [pc EXCEPT ![t] = "done"]
    /\ req' = [req EXCEPT ![t] = NoRequest]
    /\ out' = [out EXCEPT ![t] = "none"]
    /\ crossed' = crossed \ {t}

Answer(t, o) ==
    /\ pc' = [pc EXCEPT ![t] = "answered"]
    /\ out' = [out EXCEPT ![t] = o]
    /\ UNCHANGED <<req, crossed>>

Go(t, step) ==
    /\ pc' = [pc EXCEPT ![t] = step]
    /\ UNCHANGED <<req, out, crossed>>

\* generateTokens
Issue(t, id) == token' = [token EXCEPT ![t] = [sub |-> id, age |-> "fresh"]]

\* An update names its row by id and rejects when the row is gone.
Update(t, row) ==
    IF Present(Subject(t))
    THEN account' = row /\ Answer(t, "ok")
    ELSE account' = account /\ Finish(t)

Client == <<jar, left, strays>>
-----------------------------------------------------------------------------
(* Requests arrive with the cookies of their client.                         *)

\* What a request brings along: its client's cookies as they are when it is sent.
Ask(k, c, w, n) ==
    [kind |-> k, client |-> c, access |-> jar[c].access,
     refresh |-> IF c \in Browsers /\ k \notin AuthRoutes THEN None ELSE jar[c].refresh,
     password |-> w, new |-> n]

Arrive(t) ==
    /\ pc[t] = "idle"
    /\ \E k \in Kinds, c \in Clients :
         \E w, n \in Passwords \cup {None} :
           /\ w # None <=> k \in SignIns \cup {"password"}
           /\ n # None <=> k = "password"
           /\ req' = [req EXCEPT ![t] = Ask(k, c, w, n)]
           /\ pc' = [pc EXCEPT ![t] = Entry[k]]
           /\ left' = IF k \in SignIns THEN left \ {c} ELSE left
    /\ Watch({})
    /\ UNCHANGED <<account, token, jar, out, expiries, crossed, strays>>
-----------------------------------------------------------------------------
(* register: find, create, store.                                            *)

Find(t) ==
    /\ pc[t] = "find"
    /\ IF account = NoAccount THEN Go(t, "create") ELSE Answer(t, "refused")
    /\ Watch({})
    /\ UNCHANGED <<account, token, expiries, Client>>

\* The address is unique in the table: the later of two creates rejects.
Create(t) ==
    /\ pc[t] = "create"
    /\ IF account = NoAccount
       THEN /\ account' = [id |-> t, password |-> req[t].password, hash |-> None]
            /\ Issue(t, t) /\ Go(t, "store")
       ELSE Finish(t) /\ UNCHANGED <<account, token>>
    /\ Watch({})
    /\ UNCHANGED <<expiries, Client>>

\* storeRefreshToken, the last step of register, login and refresh.
\* Mutant: the hash is written whether the row is there or not.
StoreBlind(t) ==
    /\ pc[t] = "store"
    /\ account' = [account EXCEPT !.hash = Digest(t)]
    /\ Answer(t, "ok")
    /\ Watch({})
    /\ UNCHANGED <<token, expiries, Client>>

Store(t) ==
    /\ pc[t] = "store"
    /\ Update(t, [account EXCEPT !.hash = Digest(t)])
    /\ Watch({})
    /\ UNCHANGED <<token, expiries, Client>>
-----------------------------------------------------------------------------
(* login: LocalStrategy and validateUser, then store.                        *)

Validate(t) ==
    /\ pc[t] = "validate"
    /\ IF account # NoAccount /\ account.password = req[t].password
       THEN Issue(t, account.id) /\ Go(t, "store")
       ELSE Answer(t, "refused") /\ UNCHANGED token
    /\ Watch({})
    /\ UNCHANGED <<account, expiries, Client>>
-----------------------------------------------------------------------------
(* refresh: JwtRefreshStrategy, then refreshTokens, which looks once more.   *)

Verify(t) ==
    /\ pc[t] = "verify"
    /\ LET r == req[t].refresh
       IN  IF RefreshGood(r) /\ Holds(r) /\ account.hash # None /\ Digest(r) = account.hash
           THEN Go(t, "check") ELSE Answer(t, "refused")
    /\ Watch({})
    /\ UNCHANGED <<account, token, expiries, Client>>

\* Mutant: the tokens are issued on the word of the strategy.
CheckNot(t) ==
    /\ pc[t] = "check"
    /\ Issue(t, token[req[t].refresh].sub) /\ Go(t, "store")
    /\ Watch({})
    /\ UNCHANGED <<account, expiries, Client>>

Check(t) ==
    /\ pc[t] = "check"
    /\ IF Holds(req[t].refresh) /\ account.hash # None
       THEN Issue(t, token[req[t].refresh].sub) /\ Go(t, "store")
       ELSE Answer(t, "refused") /\ UNCHANGED token
    /\ Watch({})
    /\ UNCHANGED <<account, expiries, Client>>
-----------------------------------------------------------------------------
(* The guarded routes: JwtAuthGuard and JwtStrategy, then the call.          *)

AfterGuard == [logout |-> "clear", password |-> "compare",
               delete |-> "remove", profile |-> "edit"]

Guard(t) ==
    /\ pc[t] = "guard"
    /\ IF AccessGood(req[t].access) /\ Holds(req[t].access)
       THEN Go(t, AfterGuard[req[t].kind]) ELSE Answer(t, "refused")
    /\ Watch({})
    /\ UNCHANGED <<account, token, expiries, Client>>

\* clearRefreshToken.  The refreshes about to store have seen the last of it.
Clear(t) ==
    /\ pc[t] = "clear"
    /\ IF Present(Subject(t))
       THEN /\ account' = [account EXCEPT !.hash = None]
            /\ pc' = [pc EXCEPT ![t] = "answered"]
            /\ out' = [out EXCEPT ![t] = "ok"]
            /\ crossed' = crossed \cup
                 {u \in Requests : pc[u] = "store" /\ req[u].kind = "refresh"}
            /\ UNCHANGED req
       ELSE Finish(t) /\ UNCHANGED account
    /\ Watch({})
    /\ UNCHANGED <<token, expiries, Client>>

\* changePassword, up to the comparison with the current password.
Compare(t) ==
    /\ pc[t] = "compare"
    /\ IF Holds(req[t].access) /\ account.password = req[t].password
       THEN Go(t, "rewrite") ELSE Answer(t, "refused")
    /\ Watch({})
    /\ UNCHANGED <<account, token, expiries, Client>>

Rewrite(t) ==
    /\ pc[t] = "rewrite"
    /\ Update(t, [account EXCEPT !.password = req[t].new])
    /\ Watch({})
    /\ UNCHANGED <<token, expiries, Client>>

Remove(t) ==
    /\ pc[t] = "remove"
    /\ Update(t, NoAccount)
    /\ Watch({})
    /\ UNCHANGED <<token, expiries, Client>>

\* updateMe; the fields it sets bear on nothing here.
Edit(t) ==
    /\ pc[t] = "edit"
    /\ Update(t, account)
    /\ Watch({})
    /\ UNCHANGED <<token, expiries, Client>>
-----------------------------------------------------------------------------
(* The middleware of the socket server: the access token, else the refresh   *)
(* token, else a guest.                                                      *)

\* Mutant: the payload of the token is taken for the user.
ConnectAccessBlind(t) ==
    /\ pc[t] = "access"
    /\ IF AccessGood(req[t].access) THEN Answer(t, "ok") ELSE Go(t, "fallback")
    /\ Watch({})
    /\ UNCHANGED <<account, token, expiries, Client>>

ConnectAccess(t) ==
    /\ pc[t] = "access"
    /\ IF AccessGood(req[t].access) /\ Holds(req[t].access)
       THEN Answer(t, "ok") ELSE Go(t, "fallback")
    /\ Watch({})
    /\ UNCHANGED <<account, token, expiries, Client>>

ConnectRefresh(t) ==
    /\ pc[t] = "fallback"
    /\ LET r == req[t].refresh
       IN  IF RefreshGood(r) /\ Holds(r) /\ account.hash # None
           THEN Answer(t, "ok") ELSE Answer(t, "guest")
    /\ Watch({})
    /\ UNCHANGED <<account, token, expiries, Client>>
-----------------------------------------------------------------------------
(* Failures, answers and time.                                               *)

\* The call a request waits for rejects.  The middleware catches that.
Fail(t) ==
    /\ InFlight(t)
    /\ CASE pc[t] = "access"   -> Go(t, "fallback")
         [] pc[t] = "fallback" -> Answer(t, "guest")
         [] OTHER              -> Finish(t)
    /\ Watch({t})
    /\ UNCHANGED <<account, token, expiries, Client>>

\* attachCookies and clearCookies.
\* Mutant: the refresh cookie is cleared without its path, and so is kept.
CookiesPathless(t) ==
    CASE req[t].kind \in Opening -> [access |-> t, refresh |-> t]
      [] req[t].kind = "logout" -> [access |-> None, refresh |-> jar[req[t].client].refresh]
      [] OTHER -> jar[req[t].client]

Cookies(t) ==
    CASE req[t].kind \in Opening -> [access |-> t, refresh |-> t]
      [] req[t].kind = "logout" -> NoCookies
      [] OTHER -> jar[req[t].client]

\* A client has signed out when it learns so.  The answer to another request, under
\* way at that time, may bring it cookies again.
Deliver(t) ==
    LET c     == req[t].client
        leave == req[t].kind = "logout"
    IN
    /\ pc[t] = "answered"
    /\ Finish(t)
    /\ IF out[t] = "ok"
       THEN /\ jar' = [jar EXCEPT ![c] = Cookies(t)]
            /\ left' = IF leave THEN left \cup {c}
                       ELSE IF req[t].kind \in Opening THEN left \ {c} ELSE left
            /\ strays' = IF leave /\ c \notin left
                         THEN strays \cup {u \in Requests \ {t} : req[u].client = c}
                         ELSE strays
       ELSE UNCHANGED Client
    /\ Watch({})
    /\ UNCHANGED <<account, token, expiries>>

Lose(t) ==
    /\ pc[t] = "answered" /\ out[t] = "ok"
    /\ Finish(t)
    /\ Watch({})
    /\ UNCHANGED <<account, token, expiries, Client>>

\* A pair nobody holds any more need not grow older.
Expire(t) ==
    /\ token[t].age \in {"fresh", "stale"} /\ expiries < MaxExpiries
    /\ \/ \E c \in Clients : t \in {jar[c].access, jar[c].refresh}
       \/ \E u \in Requests : t \in {req[u].access, req[u].refresh, u} /\ pc[u] # "done"
    /\ token' = [token EXCEPT ![t].age = IF @ = "fresh" THEN "stale" ELSE "dead"]
    /\ expiries' = expiries + 1
    /\ UNCHANGED <<account, jar, pc, req, out, crossed, left, strays>>
    /\ Watch({})
-----------------------------------------------------------------------------
(* The run begins with nobody registered, or with somebody who is and whom   *)
(* one of the clients may have signed in.                                    *)

SInit ==
    /\ \E known \in BOOLEAN, holders \in {{}} \cup {{c} : c \in Clients} :
         /\ known \/ holders = {}
         /\ token = [t \in Names |->
              IF known /\ t = Old THEN [sub |-> Old, age |-> "fresh"] ELSE NoToken]
         /\ jar = [c \in Clients |->
              IF c \in holders THEN [access |-> Old, refresh |-> Old] ELSE NoCookies]
         /\ \E w \in Passwords :
              account = IF known
                        THEN [id |-> Old, password |-> w,
                              hash |-> IF holders = {} THEN None ELSE Digest(Old)]
                        ELSE NoAccount
    /\ pc = [t \in Requests |-> "idle"]
    /\ req = [t \in Requests |-> NoRequest]
    /\ out = [t \in Requests |-> "none"]
    /\ expiries = 0
    /\ entitled = {} /\ barred = {} /\ crossed = {}
    /\ left = {} /\ strays = {}

Step(t) ==
    \/ Arrive(t) \/ Find(t) \/ Create(t) \/ Store(t) \/ Validate(t)
    \/ Verify(t) \/ Check(t) \/ Guard(t) \/ Clear(t)
    \/ Compare(t) \/ Rewrite(t) \/ Remove(t) \/ Edit(t)
    \/ ConnectAccess(t) \/ ConnectRefresh(t)
    \/ Fail(t) \/ Deliver(t) \/ Lose(t)

SNext == (\E t \in Requests : Step(t)) \/ (\E t \in Names : Expire(t))

SSpec == SInit /\ [][SNext]_svars
-----------------------------------------------------------------------------
(* Properties.                                                               *)

Steps == {"idle", "find", "create", "store", "validate", "verify", "check",
          "guard", "clear", "compare", "rewrite", "remove", "edit",
          "access", "fallback", "answered", "done"}

AccountOK ==
    /\ account \in [id : Names \cup {None}, password : Passwords \cup {None},
                    hash : Names \cup {None}]
    /\ account.id = None => account = NoAccount

\* Types.  The hash stored with an account is that of a token which names it,
\* and no request is answered before it has arrived.
STypeOK ==
    /\ AccountOK
    /\ account.hash \in {None, account.id}
    /\ token \in [Names -> [sub : Names \cup {None}, age : Ages]]
    /\ jar \in [Clients -> [access : Names \cup {None}, refresh : Names \cup {None}]]
    /\ pc \in [Requests -> Steps]
    /\ req \in [Requests -> [kind : Kinds \cup {"none"}, client : Clients \cup {None},
                              access : Names \cup {None}, refresh : Names \cup {None},
                              password : Passwords \cup {None},
                              new : Passwords \cup {None}]]
    /\ \A t \in Requests : req[t] = NoRequest <=> pc[t] \in {"idle", "done"}
    /\ out \in [Requests -> {"none", "ok", "refused", "guest"}]
    /\ \A t \in Requests : out[t] # "none" <=> pc[t] = "answered"
    /\ expiries \in 0..MaxExpiries
    /\ entitled \subseteq Requests /\ barred \subseteq Requests
    /\ crossed \subseteq Requests /\ left \subseteq Clients /\ strays \subseteq Requests

\* Who is let in had a right to it at some time while the request was under way:
\* the password matched, the token was valid and its account there and, for a
\* refresh, signed in.  (A change of password looks at the token first and at the
\* password later: when they match, the token may have expired since.)  The token
\* of an account that was deleted opens nothing of the account registered at the
\* address after it.
EntryEarned ==
    \A t \in Requests : out[t] = "ok" => t \in entitled

\* Who is turned away, or admitted to a socket as a guest, had no right at some
\* time while the request was under way, or a call failed: nobody is signed out
\* by what another client does, short of a logout or the end of the account.
RefusedForCause ==
    \A t \in Requests : out[t] \in {"refused", "guest"} => t \in barred

\* Who signed out gets in nowhere before signing in again, whatever the account's
\* other clients do meanwhile, except by a request of its own that was under way
\* when it signed out: the answer to a refresh or a sign-in among those puts the
\* cookies back that the logout cleared.
SignedOutStaysOut ==
    \A t \in Requests : out[t] = "ok" /\ req[t].client \in left => t \in strays

\* A session that a logout has ended is opened again by signing in only, or by
\* a refresh that had taken its last look at it when the logout came.
LogoutHolds ==
    [][ account.id = account'.id /\ account.hash = None /\ account'.hash # None
        => \E t \in Requests :
             /\ pc[t] = "store" /\ pc'[t] = "answered"
             /\ req[t].kind \in SignIns \/ t \in crossed ]_svars
=============================================================================
