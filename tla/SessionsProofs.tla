--------------------------- MODULE SessionsProofs ---------------------------
(***************************************************************************)
(* Theorems about Sessions, for any requests, clients and passwords.       *)
(***************************************************************************)
EXTENDS Sessions, TLAPS

\* The kind of a request decides which steps it comes to.
FlowOf(t) ==
    /\ pc[t] \notin {"idle", "done"} => req[t].kind \in Kinds /\ req[t].client \in Clients
    /\ pc[t] \in {"find", "create"} => req[t].kind = "register"
    /\ pc[t] = "validate" => req[t].kind = "login"
    /\ pc[t] \in {"verify", "check"} => req[t].kind = "refresh"
    /\ pc[t] = "store" => req[t].kind \in {"register", "login", "refresh"}
    /\ pc[t] = "guard" => req[t].kind \in {"logout", "password", "delete", "profile"}
    /\ pc[t] = "clear" => req[t].kind = "logout"
    /\ pc[t] \in {"compare", "rewrite"} => req[t].kind = "password"
    /\ pc[t] = "remove" => req[t].kind = "delete"
    /\ pc[t] = "edit" => req[t].kind = "profile"
    /\ pc[t] \in {"access", "fallback"} => req[t].kind = "connect"
    /\ req[t].kind \in {"register", "login", "password"} => req[t].password # None

Flow == \A t \in Requests : FlowOf(t)

\* The kinds of request, and where each begins.
LEMMA KindsAre ==
    /\ Kinds = {"register", "login", "refresh", "logout", "password", "delete",
                "profile", "connect"}
    /\ Entry["register"] = "find" /\ Entry["login"] = "validate"
    /\ Entry["refresh"] = "verify" /\ Entry["connect"] = "access"
    /\ \A k \in {"logout", "password", "delete", "profile"} : Entry[k] = "guard"
BY DEF Kinds, Entry

\* Where the guarded requests go on.
LEMMA AfterGuardIs ==
    /\ AfterGuard["logout"] = "clear" /\ AfterGuard["password"] = "compare"
    /\ AfterGuard["delete"] = "remove" /\ AfterGuard["profile"] = "edit"
BY DEF AfterGuard

(* What a step of one request leaves alone: the other requests.              *)
Bystander(t) ==
    \A u \in Requests \ {t} :
       pc'[u] = pc[u] /\ req'[u] = req[u] /\ out'[u] = out[u] /\ token'[u] = token[u]

\* A step of one request is a step of no other.
LEMMA OthersStay ==
    ASSUME STypeOK, NEW t \in Requests, Step(t)
    PROVE  Bystander(t)
<1> USE DEF STypeOK, Bystander, Names
<1>1. CASE Arrive(t)
  BY <1>1 DEF Arrive
<1>2. CASE Find(t) \/ Verify(t) \/ Guard(t) \/ Compare(t) \/ ConnectAccess(t) \/ ConnectRefresh(t)
  BY <1>2 DEF Find, Verify, Guard, Compare, ConnectAccess, ConnectRefresh, Go, Answer
<1>3. CASE Create(t) \/ Validate(t) \/ Check(t)
  BY <1>3 DEF Create, Validate, Check, Go, Answer, Finish, Issue
<1>4. CASE Store(t) \/ Rewrite(t) \/ Remove(t) \/ Edit(t)
  BY <1>4 DEF Store, Rewrite, Remove, Edit, Update, Answer, Finish
<1>5. CASE Clear(t) \/ Fail(t) \/ Deliver(t) \/ Lose(t)
  BY <1>5 DEF Clear, Fail, Deliver, Lose, Go, Answer, Finish
<1> QED BY <1>1, <1>2, <1>3, <1>4, <1>5 DEF Step

\* The initial states are well typed.
LEMMA TypeInit == SInit => STypeOK
BY NamesAssumption, ExpiriesAssumption
   DEF SInit, STypeOK, AccountOK, Names, NoAccount, NoToken, NoCookies, NoRequest, Ages,
       Steps, Digest

\* No request is under way at first.
LEMMA FlowInit == SInit => Flow
<1> SUFFICES ASSUME SInit, NEW t \in Requests PROVE FlowOf(t)
  BY DEF Flow
<1>1. pc[t] = "idle" /\ req[t] = NoRequest
  BY DEF SInit
<1>2. req[t].kind = "none"
  BY <1>1 DEF NoRequest
<1> QED BY <1>1, <1>2 DEF FlowOf

(* The steps that take a request on, answer it or end it.                    *)
LEMMA Moves ==
    ASSUME STypeOK, NEW t \in Requests
    PROVE  /\ \A step : Go(t, step) => pc'[t] = step /\ req'[t] = req[t] /\ out'[t] = out[t]
           /\ \A o : Answer(t, o) => pc'[t] = "answered" /\ req'[t] = req[t] /\ out'[t] = o
           /\ Finish(t) => pc'[t] = "done" /\ req'[t] = NoRequest /\ out'[t] = "none"
BY DEF STypeOK, Go, Answer, Finish

\* A request arrives as one of its kind, at the beginning of its handler.
LEMMA ArrivesAs ==
    ASSUME STypeOK, NEW t \in Requests, Arrive(t)
    PROVE  \E k \in Kinds, c \in Clients : \E w, n \in Passwords \cup {None} :
              /\ k \in {"register", "login", "password"} => w # None
              /\ pc'[t] = Entry[k]
              /\ req'[t] = Ask(k, c, w, n)
              /\ left' = IF k \in SignIns THEN left \ {c} ELSE left
              /\ strays' = strays
<1>1. PICK k \in Kinds, c \in Clients : \E w, n \in Passwords \cup {None} :
         /\ w # None <=> k \in SignIns \cup {"password"}
         /\ req' = [req EXCEPT ![t] = Ask(k, c, w, n)]
         /\ pc' = [pc EXCEPT ![t] = Entry[k]]
         /\ left' = IF k \in SignIns THEN left \ {c} ELSE left
         /\ strays' = strays
  BY DEF Arrive
<1>2. PICK w \in Passwords \cup {None}, n \in Passwords \cup {None} :
         /\ w # None <=> k \in SignIns \cup {"password"}
         /\ req' = [req EXCEPT ![t] = Ask(k, c, w, n)]
         /\ pc' = [pc EXCEPT ![t] = Entry[k]]
         /\ left' = IF k \in SignIns THEN left \ {c} ELSE left
         /\ strays' = strays
  BY <1>1
<1>3. k \in {"register", "login", "password"} => w # None
  BY <1>2 DEF SignIns
<1>4. pc'[t] = Entry[k] /\ req'[t] = Ask(k, c, w, n)
  BY <1>2 DEF STypeOK
<1> QED BY <1>2, <1>3, <1>4

(* The kind of a request decides which steps it comes to.                    *)
LEMMA FlowStep == STypeOK /\ Flow /\ [SNext]_svars => Flow'
<1> SUFFICES ASSUME STypeOK, Flow, [SNext]_svars PROVE Flow'
  OBVIOUS
<1>1. ASSUME NEW t \in Requests, Step(t) PROVE Flow'
  <2>1. \A u \in Requests \ {t} : FlowOf(u)'
    BY <1>1, OthersStay DEF Flow, FlowOf, Bystander
  <2>2. FlowOf(t)'
    <3> USE Moves DEF Flow, FlowOf
    <3>1. CASE Arrive(t)
      <4>1. PICK k \in Kinds, c \in Clients, w \in Passwords \cup {None},
                 n \in Passwords \cup {None} :
              /\ k \in {"register", "login", "password"} => w # None
              /\ pc'[t] = Entry[k] /\ req'[t] = Ask(k, c, w, n)
        BY <3>1, ArrivesAs
      <4>2. req'[t].kind = k /\ req'[t].client = c /\ req'[t].password = w
        BY <4>1 DEF Ask
      <4> QED BY <4>1, <4>2, KindsAre
    <3>2. CASE Find(t) \/ Create(t) \/ Validate(t) \/ Verify(t) \/ Check(t)
      BY <3>2 DEF Find, Create, Validate, Verify, Check, NoRequest
    <3>3. CASE Guard(t)
      BY <3>3, AfterGuardIs DEF Guard
    <3>4. CASE Store(t) \/ Rewrite(t) \/ Remove(t) \/ Edit(t)
      BY <3>4 DEF Store, Rewrite, Remove, Edit, Update, NoRequest
    <3>5. CASE Clear(t)
      BY <3>5 DEF Clear, NoRequest, STypeOK
    <3>6. CASE Compare(t) \/ ConnectAccess(t) \/ ConnectRefresh(t)
      BY <3>6 DEF Compare, ConnectAccess, ConnectRefresh
    <3>7. CASE Fail(t)
      BY <3>7 DEF Fail, NoRequest
    <3>8. CASE Deliver(t) \/ Lose(t)
      BY <3>8 DEF Deliver, Lose, NoRequest
    <3> QED BY <1>1, <3>1, <3>2, <3>3, <3>4, <3>5, <3>6, <3>7, <3>8 DEF Step
  <2> QED BY <2>1, <2>2 DEF Flow
<1>2. ASSUME NEW t \in Names, Expire(t) PROVE Flow'
  BY <1>2 DEF Expire, Flow, FlowOf
<1>3. ASSUME UNCHANGED svars PROVE Flow'
  BY <1>3 DEF svars, Flow, FlowOf
<1> QED BY <1>1, <1>2, <1>3 DEF SNext

(* Requests and their answers keep their types.                              *)
RequestsOK ==
    /\ pc \in [Requests -> Steps]
    /\ req \in [Requests -> [kind : Kinds \cup {"none"}, client : Clients \cup {None},
                              access : Names \cup {None}, refresh : Names \cup {None},
                              password : Passwords \cup {None},
                              new : Passwords \cup {None}]]
    /\ \A t \in Requests : req[t] = NoRequest <=> pc[t] \in {"idle", "done"}
    /\ out \in [Requests -> {"none", "ok", "refused", "guest"}]
    /\ \A t \in Requests : out[t] # "none" <=> pc[t] = "answered"

\* The ways in which a request moves keep the types of the requests.
LEMMA RequestsKept ==
    ASSUME STypeOK, NEW t \in Requests
    PROVE  /\ Finish(t) => RequestsOK'
           /\ \A o \in {"ok", "refused", "guest"} :
                Answer(t, o) /\ InFlight(t) => RequestsOK'
           /\ \A step \in Steps \ {"idle", "answered", "done"} :
                Go(t, step) /\ InFlight(t) => RequestsOK'
           /\ Arrive(t) => RequestsOK'
<1> USE DEF STypeOK, RequestsOK, NoRequest, InFlight
<1>1. Finish(t) => RequestsOK'
  BY DEF Finish, Steps
<1>2. ASSUME NEW o \in {"ok", "refused", "guest"}, Answer(t, o), InFlight(t) PROVE RequestsOK'
  BY <1>2 DEF Answer, Steps
<1>3. ASSUME NEW step \in Steps \ {"idle", "answered", "done"}, Go(t, step), InFlight(t)
      PROVE RequestsOK'
  BY <1>3 DEF Go
<1>4. ASSUME Arrive(t) PROVE RequestsOK'
  BY <1>4, KindsAre DEF Arrive, Ask, Steps
<1> QED BY <1>1, <1>2, <1>3, <1>4

(* The account, the tokens, the cookies and the history variables.           *)
DataOK ==
    /\ AccountOK /\ account.hash \in {None, account.id}
    /\ token \in [Names -> [sub : Names \cup {None}, age : Ages]]
    /\ jar \in [Clients -> [access : Names \cup {None}, refresh : Names \cup {None}]]
    /\ expiries \in 0..MaxExpiries
    /\ entitled \subseteq Requests /\ barred \subseteq Requests
    /\ crossed \subseteq Requests /\ left \subseteq Clients /\ strays \subseteq Requests

\* The type invariant, in the part about requests and the part about data.
LEMMA TypeParts == STypeOK <=> RequestsOK /\ DataOK
BY DEF STypeOK, RequestsOK, DataOK

(* The hash an update stores is that of a token of the account it is for.    *)
LEMMA UpdateKept ==
    ASSUME STypeOK, Flow, NEW t \in Requests,
           Store(t) \/ Rewrite(t) \/ Remove(t) \/ Edit(t) \/ Clear(t)
    PROVE  AccountOK' /\ account'.hash \in {None, account'.id}
<1> USE DEF STypeOK, AccountOK, NoAccount
<1>1. CASE Store(t)
  <2>1. Subject(t) = Digest(t) /\ Digest(t) \in Names \cup {None}
    BY <1>1 DEF Store, Flow, FlowOf, Subject, Opening, SignIns, Digest, Names
  <2> QED BY <1>1, <2>1 DEF Store, Update, Present
<1>2. CASE Rewrite(t)
  BY <1>2 DEF Rewrite, Update, Present
<1>3. CASE Remove(t)
  BY <1>3 DEF Remove, Update
<1>4. CASE Edit(t)
  BY <1>4 DEF Edit, Update
<1>5. CASE Clear(t)
  BY <1>5 DEF Clear, Present
<1> QED BY <1>1, <1>2, <1>3, <1>4, <1>5

\* The types of the requests are kept by every step of a request.
LEMMA RequestsStep ==
    ASSUME STypeOK, Flow, NEW t \in Requests, Step(t)
    PROVE  RequestsOK'
<1> USE RequestsKept DEF Steps, InFlight
<1>1. CASE Arrive(t)
  BY <1>1
<1>2. CASE Find(t) \/ Create(t) \/ Validate(t) \/ Verify(t) \/ Check(t)
  BY <1>2 DEF Find, Create, Validate, Verify, Check
<1>3. CASE Guard(t)
  <2>1. AfterGuard[req[t].kind] \in {"clear", "compare", "remove", "edit"}
    BY <1>3, AfterGuardIs DEF Guard, Flow, FlowOf
  <2> QED BY <1>3, <2>1 DEF Guard
<1>4. CASE Store(t) \/ Rewrite(t) \/ Remove(t) \/ Edit(t)
  BY <1>4 DEF Store, Rewrite, Remove, Edit, Update
<1>5. CASE Clear(t)
  <2>1. CASE Finish(t)
    BY <2>1
  <2>2. CASE ~Finish(t)
    <3>1. /\ pc[t] = "clear" /\ req' = req
          /\ pc' = [pc EXCEPT ![t] = "answered"] /\ out' = [out EXCEPT ![t] = "ok"]
      BY <1>5, <2>2 DEF Clear
    <3> QED BY <3>1 DEF STypeOK, RequestsOK
  <2> QED BY <2>1, <2>2
<1>6. CASE Compare(t) \/ ConnectAccess(t) \/ ConnectRefresh(t)
  BY <1>6 DEF Compare, ConnectAccess, ConnectRefresh
<1>7. CASE Fail(t)
  BY <1>7 DEF Fail
<1>8. CASE Deliver(t) \/ Lose(t)
  BY <1>8 DEF Deliver, Lose
<1> QED BY <1>1, <1>2, <1>3, <1>4, <1>5, <1>6, <1>7, <1>8 DEF Step

(* Where tokens come from and go to.                                         *)
LEMMA TokensKept ==
    ASSUME STypeOK, NEW t \in Requests, NEW id \in Names \cup {None}, Issue(t, id)
    PROVE  token' \in [Names -> [sub : Names \cup {None}, age : Ages]]
BY DEF STypeOK, Issue, Names, Ages


\* The types of the account and the cookies are kept by every step of a request.
LEMMA DataStep ==
    ASSUME STypeOK, Flow, NEW t \in Requests, Step(t)
    PROVE  DataOK'
<1> USE DEF DataOK
<1>0. DataOK /\ RequestsOK
  BY TypeParts
<1>1. /\ entitled' \subseteq Requests /\ barred' \subseteq Requests
      /\ expiries' \in 0..MaxExpiries
  <2>1. Watch({}) \/ Watch({t})
    BY DEF Step, Arrive, Find, Create, Store, Validate, Verify, Check, Guard, Clear, Compare,
       Rewrite, Remove, Edit, ConnectAccess, ConnectRefresh, Fail, Deliver, Lose
  <2>2. expiries' = expiries
    BY DEF Step, Arrive, Find, Create, Store, Validate, Verify, Check, Guard, Clear, Compare,
       Rewrite, Remove, Edit, ConnectAccess, ConnectRefresh, Fail, Deliver, Lose
  <2> QED BY <1>0, <2>1, <2>2 DEF Watch
<1>2. crossed' \subseteq Requests
  <2> USE <1>0 DEF Go, Answer, Finish
  <2>1. CASE Clear(t)
    BY <2>1 DEF Clear
  <2>2. CASE ~Clear(t)
    BY <2>2 DEF Step, Arrive, Find, Create, Store, Validate, Verify, Check, Guard, Compare,
       Rewrite, Remove, Edit, ConnectAccess, ConnectRefresh, Fail, Deliver, Lose, Update
  <2> QED BY <2>1, <2>2
<1>3. /\ AccountOK' /\ account'.hash \in {None, account'.id}
      /\ token' \in [Names -> [sub : Names \cup {None}, age : Ages]]
  <2>1. CASE Store(t) \/ Rewrite(t) \/ Remove(t) \/ Edit(t) \/ Clear(t)
    BY <1>0, <2>1, UpdateKept DEF Store, Rewrite, Remove, Edit, Clear
  <2>2. CASE Create(t)
    <3>1. CASE account = NoAccount
      <4>1. /\ account' = [id |-> t, password |-> req[t].password, hash |-> None]
            /\ Issue(t, t)
        BY <2>2, <3>1 DEF Create
      <4>2. req[t].password \in Passwords \cup {None} /\ t \in Names /\ t # None
        BY <1>0, NamesAssumption DEF RequestsOK, Names
      <4> QED BY <4>1, <4>2, TokensKept DEF AccountOK
    <3>2. CASE account # NoAccount
      BY <1>0, <2>2, <3>2 DEF Create, AccountOK, NoAccount
    <3> QED BY <3>1, <3>2
  <2>3. CASE Validate(t)
    BY <1>0, <2>3, TokensKept DEF Validate, AccountOK
  <2>4. CASE Check(t)
    BY <1>0, <2>4, TokensKept DEF Check, AccountOK, RequestsOK, Holds
  <2>5. CASE UNCHANGED <<account, token>>
    BY <1>0, <2>5 DEF AccountOK
  <2> QED BY <2>1, <2>2, <2>3, <2>4, <2>5
          DEF Step, Arrive, Find, Verify, Guard, Compare, ConnectAccess, ConnectRefresh,
              Fail, Deliver, Lose
<1>4. /\ jar' \in [Clients -> [access : Names \cup {None}, refresh : Names \cup {None}]]
      /\ left' \subseteq Clients /\ strays' \subseteq Requests
  <2>1. CASE Arrive(t)
    BY <1>0, <2>1, ArrivesAs DEF Arrive
  <2>2. CASE Deliver(t)
    <3>1. Cookies(t) \in [access : Names \cup {None}, refresh : Names \cup {None}]
      BY <1>0, <2>2 DEF Deliver, Cookies, NoCookies, RequestsOK, Names, Flow, FlowOf
    <3>2. req[t].client \in Clients
      BY <2>2 DEF Deliver, Flow, FlowOf
    <3> QED BY <1>0, <2>2, <3>1, <3>2 DEF Deliver, Client
  <2>3. CASE UNCHANGED <<jar, left, strays>>
    BY <1>0, <2>3
  <2> QED BY <2>1, <2>2, <2>3
          DEF Step, Find, Create, Store, Validate, Verify, Check, Guard, Clear, Compare,
              Rewrite, Remove, Edit, ConnectAccess, ConnectRefresh, Fail, Lose, Client
<1> QED BY <1>1, <1>2, <1>3, <1>4

(* No request is answered before it arrived, none has two steps under way.   *)
LEMMA TypeStep == STypeOK /\ Flow /\ [SNext]_svars => STypeOK'
<1> SUFFICES ASSUME STypeOK, Flow, [SNext]_svars PROVE STypeOK'
  OBVIOUS
<1>1. ASSUME NEW t \in Requests, Step(t) PROVE STypeOK'
  <2>1. RequestsOK' /\ DataOK'
    BY <1>1, RequestsStep, DataStep
  <2> QED BY <2>1 DEF STypeOK, RequestsOK, DataOK
<1>2. ASSUME NEW t \in Names, Expire(t) PROVE STypeOK'
  <2>1. /\ token' \in [Names -> [sub : Names \cup {None}, age : Ages]]
        /\ expiries' \in 0..MaxExpiries
    BY <1>2, ExpiriesAssumption DEF Expire, STypeOK, Ages
  <2>2. entitled' \subseteq Requests /\ barred' \subseteq Requests
    BY <1>2 DEF Expire, Watch, STypeOK
  <2> QED BY <1>2, <2>1, <2>2 DEF Expire, STypeOK, AccountOK
<1>3. ASSUME UNCHANGED svars PROVE STypeOK'
  BY <1>3 DEF svars, STypeOK, AccountOK
<1> QED BY <1>1, <1>2, <1>3 DEF SNext

(* Types and flow together are inductive.                                    *)
LEMMA TypedFlow == SSpec => [](STypeOK /\ Flow)
<1>1. SInit => STypeOK /\ Flow
  BY TypeInit, FlowInit
<1>2. STypeOK /\ Flow /\ [SNext]_svars => (STypeOK /\ Flow)'
  BY TypeStep, FlowStep
<1> QED BY <1>1, <1>2, PTL DEF SSpec

(* The types of Sessions: the hash stored with an account is that of a token *)
(* which names it, whatever the requests of all clients do to each other.    *)
THEOREM SessionsTypeCorrect == SSpec => []STypeOK
BY TypedFlow, PTL
-----------------------------------------------------------------------------
(* EntryEarned.                                                              *)

\* The steps a request comes to only with a right to what it asks.
Earned ==
    \A t \in Requests :
       \/ pc[t] \in {"check", "store", "clear", "rewrite", "remove", "edit"}
       \/ out[t] = "ok"
       => t \in entitled

(* Every step watches: who is entitled before it is so ever after.           *)
LEMMA Watched ==
    ASSUME NEW t \in Requests, Step(t)
    PROVE  /\ \A u \in Requests :
                /\ pc'[u] # "done" /\ u \in entitled => u \in entitled'
                /\ pc'[u] # "done" /\ u \in barred => u \in barred'
                /\ pc'[u] # "done" /\ InFlight(u) /\ Entitled(u) => u \in entitled'
                /\ pc'[u] # "done" /\ InFlight(u) /\ Barred(u) => u \in barred'
           /\ Fail(t) /\ pc'[t] # "done" => t \in barred'
<1>1. Watch({}) \/ Watch({t})
  BY DEF Step, Arrive, Find, Create, Store, Validate, Verify, Check, Guard, Clear, Compare,
     Rewrite, Remove, Edit, ConnectAccess, ConnectRefresh, Fail, Deliver, Lose
<1>2. Fail(t) => Watch({t})
  BY DEF Fail
<1> QED BY <1>1, <1>2 DEF Watch

(* A request that goes on past its checks has shown its right to do so.      *)
LEMMA EarnedStep == STypeOK /\ Flow /\ Earned /\ [SNext]_svars => Earned'
<1> SUFFICES ASSUME STypeOK, Flow, Earned, [SNext]_svars PROVE Earned'
  OBVIOUS
<1>1. ASSUME NEW t \in Requests, Step(t) PROVE Earned'
  <2> DEFINE P(u) == \/ pc[u] \in {"check", "store", "clear", "rewrite", "remove", "edit"}
                     \/ out[u] = "ok"
                     => u \in entitled
  <2>1. ASSUME NEW u \in Requests \ {t} PROVE P(u)'
    <3>1. pc'[u] = pc[u] /\ out'[u] = out[u] /\ P(u)
      BY <1>1, OthersStay DEF Bystander, Earned
    <3>2. out[u] = "ok" => pc[u] = "answered"
      BY DEF STypeOK
    <3> QED BY <1>1, <3>1, <3>2, Watched
  <2>2. P(t)'
    <3> USE Moves, <1>1, Watched DEF Earned, Entitled, InFlight
    <3>0. FlowOf(t) /\ P(t)
      BY DEF Flow
    <3>1. CASE Arrive(t)
      <4>1. PICK k \in Kinds : pc'[t] = Entry[k]
        BY <3>1, ArrivesAs
      <4>2. out'[t] # "ok"
        BY <3>1 DEF Arrive, STypeOK
      <4> QED BY <4>1, <4>2, KindsAre
    <3>2. CASE Find(t) \/ Verify(t)
      BY <3>0, <3>2 DEF Find, Verify, FlowOf
    <3>3. CASE Create(t) \/ Validate(t)
      BY <3>0, <3>3 DEF Create, Validate, FlowOf
    <3>4. CASE Guard(t)
      BY <3>0, <3>4, AfterGuardIs DEF Guard, FlowOf
    <3>5. CASE Check(t) \/ Store(t) \/ Rewrite(t) \/ Remove(t) \/ Edit(t)
      BY <3>0, <3>5 DEF Check, Store, Rewrite, Remove, Edit, Update
    <3>6. CASE Clear(t)
      BY <3>0, <3>6 DEF Clear, STypeOK
    <3>7. CASE Compare(t) \/ ConnectAccess(t) \/ ConnectRefresh(t)
      BY <3>0, <3>7 DEF Compare, ConnectAccess, ConnectRefresh, FlowOf
    <3>8. CASE Fail(t)
      BY <3>0, <3>8 DEF Fail, STypeOK
    <3>9. CASE Deliver(t) \/ Lose(t)
      BY <3>9 DEF Deliver, Lose
    <3> QED BY <3>1, <3>2, <3>3, <3>4, <3>5, <3>6, <3>7, <3>8, <3>9 DEF Step
  <2> QED BY <2>1, <2>2 DEF Earned
<1>2. ASSUME NEW t \in Names, Expire(t) PROVE Earned'
  BY <1>2 DEF Expire, Earned, Watch, STypeOK
<1>3. ASSUME UNCHANGED svars PROVE Earned'
  BY <1>3 DEF svars, Earned
<1> QED BY <1>1, <1>2, <1>3 DEF SNext

(* Who is let in had a right to it at some time while the request was under  *)
(* way.                                                                      *)
THEOREM EntryIsEarned == SSpec => []EntryEarned
<1>1. SInit => Earned
  BY DEF SInit, Earned
<1>2. Earned => EntryEarned
  BY DEF Earned, EntryEarned
<1> QED BY <1>1, <1>2, EarnedStep, TypedFlow, PTL DEF SSpec
-----------------------------------------------------------------------------
(* Names of accounts and of token pairs.                                     *)

\* No account and no token bears the name of a request that has made none.
Fresh ==
    \A u \in Requests :
       pc[u] \in {"idle", "find", "create"} =>
          account.id # u /\ \A x \in Names : token[x].sub # u

\* The pairs that clients hold and requests bring are those of answered requests.
Given == {None, Old} \cup {x \in Requests : pc[x] = "done"}
Issued ==
    /\ \A c \in Clients : jar[c].access \in Given /\ jar[c].refresh \in Given
    /\ \A t \in Requests : req[t].access \in Given /\ req[t].refresh \in Given

(* The account and the tokens a step may leave behind.                       *)
LEMMA AccountMoves ==
    ASSUME STypeOK, NEW t \in Requests, Step(t)
    PROVE  /\ account'.id \in {account.id, None} \/ (Create(t) /\ account'.id = t)
           /\ \/ token' = token
              \/ Create(t) /\ Issue(t, t)
              \/ Validate(t) /\ Issue(t, account.id)
              \/ /\ Check(t) /\ Holds(req[t].refresh)
                 /\ Issue(t, token[req[t].refresh].sub)
<1>1. CASE Create(t)
  BY <1>1 DEF Create, Finish
<1>2. CASE Validate(t)
  BY <1>2 DEF Validate, Answer
<1>3. CASE Check(t)
  BY <1>3 DEF Check, Answer
<1>4. CASE Store(t) \/ Rewrite(t) \/ Remove(t) \/ Edit(t) \/ Clear(t)
  BY <1>4 DEF Store, Rewrite, Remove, Edit, Clear, Update, NoAccount, STypeOK, AccountOK
<1>5. CASE UNCHANGED <<account, token>>
  BY <1>5
<1> QED BY <1>1, <1>2, <1>3, <1>4, <1>5
        DEF Step, Arrive, Find, Verify, Guard, Compare, ConnectAccess, ConnectRefresh,
            Fail, Deliver, Lose

(* Requests neither start over nor move once they are done.                  *)
LEMMA Onward ==
    ASSUME STypeOK, Flow, NEW t \in Requests, Step(t)
    PROVE  /\ pc[t] # "done"
           /\ pc'[t] \in {"idle", "find", "create"} => pc[t] \in {"idle", "find"}
<1> USE Moves
<1>1. CASE Arrive(t)
  BY <1>1 DEF Arrive
<1>2. CASE Find(t) \/ Create(t) \/ Validate(t) \/ Verify(t) \/ Check(t)
  BY <1>2 DEF Find, Create, Validate, Verify, Check
<1>3. CASE Guard(t)
  BY <1>3, AfterGuardIs DEF Guard, Flow, FlowOf
<1>4. CASE Store(t) \/ Rewrite(t) \/ Remove(t) \/ Edit(t)
  BY <1>4 DEF Store, Rewrite, Remove, Edit, Update
<1>5. CASE Clear(t)
  BY <1>5 DEF Clear, STypeOK
<1>6. CASE Compare(t) \/ ConnectAccess(t) \/ ConnectRefresh(t)
  BY <1>6 DEF Compare, ConnectAccess, ConnectRefresh
<1>7. CASE Fail(t) \/ Deliver(t) \/ Lose(t)
  BY <1>7 DEF Fail, Deliver, Lose, InFlight
<1> QED BY <1>1, <1>2, <1>3, <1>4, <1>5, <1>6, <1>7 DEF Step

(* Only the request that creates an account gives it and its tokens a name.  *)
LEMMA FreshStep == STypeOK /\ Flow /\ Fresh /\ [SNext]_svars => Fresh'
<1> SUFFICES ASSUME STypeOK, Flow, Fresh, [SNext]_svars PROVE Fresh'
  OBVIOUS
<1>1. ASSUME NEW t \in Requests, Step(t) PROVE Fresh'
  <2> SUFFICES ASSUME NEW u \in Requests, pc'[u] \in {"idle", "find", "create"}
               PROVE  account'.id # u /\ \A x \in Names : token'[x].sub # u
    BY DEF Fresh
  <2>1. pc[u] \in {"idle", "find", "create"}
    BY <1>1, OthersStay, Onward DEF Bystander
  <2>2. account.id # u /\ \A x \in Names : token[x].sub # u
    BY <2>1 DEF Fresh
  <2>3. ~(Create(t) /\ t = u)
    BY <1>1, <2>1, Onward DEF Create
  <2>4. account'.id # u
    BY <1>1, <2>2, <2>3, AccountMoves, NamesAssumption
  <2>5. ASSUME NEW id, Issue(t, id), id # u, NEW x \in Names
        PROVE  token'[x].sub # u
    BY <2>2, <2>5 DEF Issue, STypeOK
  <2>6. Check(t) /\ Holds(req[t].refresh) => token[req[t].refresh].sub # u
    BY <2>2 DEF Holds, Present
  <2>7. \A x \in Names : token'[x].sub # u
    BY <1>1, <2>2, <2>3, <2>5, <2>6, AccountMoves
  <2> QED BY <2>4, <2>7
<1>2. ASSUME NEW t \in Names, Expire(t) PROVE Fresh'
  BY <1>2 DEF Expire, Fresh, STypeOK
<1>3. ASSUME UNCHANGED svars PROVE Fresh'
  BY <1>3 DEF svars, Fresh
<1> QED BY <1>1, <1>2, <1>3 DEF SNext

(* A cookie holds what an answer brought.                                    *)
LEMMA IssuedStep == STypeOK /\ Flow /\ Issued /\ [SNext]_svars => Issued'
<1> SUFFICES ASSUME STypeOK, Flow, Issued, [SNext]_svars PROVE Issued'
  OBVIOUS
<1>1. ASSUME NEW t \in Requests, Step(t) PROVE Issued'
  <2>1. Given \subseteq Given'
    BY <1>1, OthersStay, Onward DEF Given, Bystander
  <2>2. \A c \in Clients : jar'[c].access \in Given' /\ jar'[c].refresh \in Given'
    <3>1. CASE Deliver(t)
      <4>1. t \in Given'
        BY <3>1, Moves DEF Deliver, Given
      <4>2. Cookies(t).access \in Given' /\ Cookies(t).refresh \in Given'
        BY <2>1, <3>1, <4>1 DEF Cookies, NoCookies, Given, Issued, Deliver, Flow, FlowOf
      <4> QED BY <2>1, <3>1, <4>2 DEF Deliver, Client, Issued, STypeOK
    <3>2. CASE jar' = jar
      BY <2>1, <3>2 DEF Issued
    <3> QED BY <1>1, <3>1, <3>2
            DEF Step, Arrive, Find, Create, Store, Validate, Verify, Check, Guard, Clear,
                Compare, Rewrite, Remove, Edit, ConnectAccess, ConnectRefresh, Fail, Lose,
                Client
  <2>3. req'[t].access \in Given' /\ req'[t].refresh \in Given'
    <3>1. CASE Arrive(t)
      <4>1. PICK k \in Kinds, c \in Clients, w \in Passwords \cup {None},
                 n \in Passwords \cup {None} : req'[t] = Ask(k, c, w, n)
        BY <3>1, ArrivesAs
      <4>2. None \in Given'
        BY DEF Given
      <4> QED BY <2>1, <4>1, <4>2 DEF Ask, Issued
    <3>2. CASE req'[t] \in {req[t], NoRequest}
      BY <2>1, <3>2 DEF Issued, Given, NoRequest
    <3> QED BY <1>1, <3>1, <3>2, Moves
            DEF Step, Find, Create, Store, Validate, Verify, Check, Guard, Clear, Update,
                Compare, Rewrite, Remove, Edit, ConnectAccess, ConnectRefresh, Fail,
                Deliver, Lose
  <2>4. \A u \in Requests \ {t} : req'[u].access \in Given' /\ req'[u].refresh \in Given'
    BY <1>1, <2>1, OthersStay DEF Bystander, Issued
  <2> QED BY <2>2, <2>3, <2>4 DEF Issued
<1>2. ASSUME NEW t \in Names, Expire(t) PROVE Issued'
  BY <1>2 DEF Expire, Issued, Given
<1>3. ASSUME UNCHANGED svars PROVE Issued'
  BY <1>3 DEF svars, Issued, Given
<1> QED BY <1>1, <1>2, <1>3 DEF SNext

(* Names and cookies at the start.                                           *)
LEMMA NamesInit == SInit => Fresh /\ Issued
<1>1. SInit => Fresh
  BY NamesAssumption DEF SInit, Fresh, NoAccount, NoToken
<1>2. SInit => Issued
  BY DEF SInit, Issued, Given, NoCookies, NoRequest
<1> QED BY <1>1, <1>2
(* Names and pairs stay as they are whatever a client does.                  *)
LEMMA NamesHold == SSpec => [](Fresh /\ Issued)
BY TypedFlow, NamesInit, FreshStep, IssuedStep, PTL DEF SSpec
-----------------------------------------------------------------------------
(* LogoutHolds.                                                              *)

\* A refresh that is about to store finds the session as it saw it, unless a
\* logout came in between.
Crossed ==
    \A t \in Requests :
       /\ pc[t] = "store" /\ req[t].kind = "refresh"
       /\ Present(token[t].sub) /\ account.hash = None
       => t \in crossed

(* The steps that leave the account signed in, or signed out, as it is.      *)
LEMMA SessionMoves ==
    ASSUME STypeOK, Flow, NEW t \in Requests, Step(t)
    PROVE  \/ account' = NoAccount
           \/ Create(t) /\ account'.id = t
           \/ Clear(t) /\ account'.hash = None /\ account'.id = account.id
              /\ crossed' = crossed \cup
                    {u \in Requests : pc[u] = "store" /\ req[u].kind = "refresh"}
           \/ Store(t) /\ account'.hash # None /\ account'.id = account.id
              /\ pc'[t] = "answered" /\ crossed' = crossed
           \/ account'.hash = account.hash /\ account'.id = account.id
              /\ (crossed' = crossed \/ Finish(t))
<1>1. CASE Create(t)
  BY <1>1, NamesAssumption DEF Create
<1>2. CASE Clear(t)
  BY <1>2 DEF Clear, STypeOK, AccountOK
<1>3. CASE Store(t)
  <2>1. Subject(t) = Digest(t)
    BY <1>3 DEF Store, Flow, FlowOf, Subject, Opening, SignIns, Digest
  <2> QED BY <1>3, <2>1, Moves DEF Store, Update, Present, Answer, STypeOK, AccountOK
<1>4. CASE Rewrite(t) \/ Remove(t) \/ Edit(t)
  BY <1>4 DEF Rewrite, Remove, Edit, Update, Answer, STypeOK, AccountOK
<1>5. CASE Arrive(t) \/ Find(t) \/ Validate(t) \/ Verify(t) \/ Check(t) \/ Guard(t)
        \/ Compare(t)
  BY <1>5 DEF Arrive, Find, Validate, Verify, Check, Guard, Compare, Go, Answer
<1>6. CASE ConnectAccess(t) \/ ConnectRefresh(t) \/ Fail(t) \/ Deliver(t) \/ Lose(t)
  BY <1>6 DEF ConnectAccess, ConnectRefresh, Fail, Deliver, Lose, Go, Answer
<1> QED BY <1>1, <1>2, <1>3, <1>4, <1>5, <1>6 DEF Step

(* Only a logout ends a session between the last look of a refresh and the   *)
(* store that follows it.                                                    *)
LEMMA CrossedStep == STypeOK /\ Flow /\ Fresh /\ Crossed /\ [SNext]_svars => Crossed'
<1> SUFFICES ASSUME STypeOK, Flow, Fresh, Crossed, [SNext]_svars PROVE Crossed'
  OBVIOUS
<1>1. ASSUME NEW t \in Requests, Step(t) PROVE Crossed'
  <2> SUFFICES ASSUME NEW u \in Requests, pc'[u] = "store", req'[u].kind = "refresh",
                      Present(token[u].sub)', account'.hash = None
               PROVE  u \in crossed'
    BY DEF Crossed
  <2>1. CASE u = t
    <3>1. \/ Check(t) /\ account.hash # None /\ account' = account
          \/ Create(t) /\ req'[t] = req[t]
          \/ Validate(t) /\ req'[t] = req[t]
      <4> USE Moves, <2>1
      <4>1. CASE Arrive(t)
        <5>1. PICK k \in Kinds : pc'[t] = Entry[k]
          BY <4>1, ArrivesAs
        <5> QED BY <5>1, KindsAre
      <4>2. CASE Find(t) \/ Create(t) \/ Validate(t) \/ Verify(t) \/ Check(t)
        BY <4>2 DEF Find, Create, Validate, Verify, Check
      <4>3. CASE Guard(t)
        BY <4>3, AfterGuardIs DEF Guard, Flow, FlowOf
      <4>4. CASE Store(t) \/ Rewrite(t) \/ Remove(t) \/ Edit(t)
        BY <4>4 DEF Store, Rewrite, Remove, Edit, Update
      <4>5. CASE Clear(t)
        BY <4>5 DEF Clear, STypeOK
      <4>6. CASE Compare(t) \/ ConnectAccess(t) \/ ConnectRefresh(t)
        BY <4>6 DEF Compare, ConnectAccess, ConnectRefresh
      <4>7. CASE Fail(t) \/ Deliver(t) \/ Lose(t)
        BY <4>7 DEF Fail, Deliver, Lose
      <4> QED BY <1>1, <4>1, <4>2, <4>3, <4>4, <4>5, <4>6, <4>7 DEF Step
    <3>2. Create(t) => req[t].kind = "register"
      BY DEF Create, Flow, FlowOf
    <3>3. Validate(t) => req[t].kind = "login"
      BY DEF Validate, Flow, FlowOf
    <3> QED BY <2>1, <3>1, <3>2, <3>3
  <2>2. CASE u # t
    <3>1. /\ pc[u] = "store" /\ req[u].kind = "refresh" /\ token'[u] = token[u]
          /\ Present(token[u].sub) /\ account.hash = None => u \in crossed
      BY <1>1, <2>2, OthersStay DEF Bystander, Crossed
    <3>2. account'.id = token[u].sub /\ token[u].sub # None
      BY <3>1 DEF Present
    <3>3. ~(Create(t) /\ account'.id = t)
      BY <3>2 DEF Create, Fresh, Names
    <3>4. account' # NoAccount
      BY <3>2 DEF NoAccount
    <3> QED BY <1>1, <2>2, <3>1, <3>2, <3>3, <3>4, SessionMoves DEF Present, Finish
  <2> QED BY <2>1, <2>2
<1>2. ASSUME NEW t \in Names, Expire(t) PROVE Crossed'
  BY <1>2 DEF Expire, Crossed, Present, STypeOK, Names
<1>3. ASSUME UNCHANGED svars PROVE Crossed'
  BY <1>3 DEF svars, Crossed, Present
<1> QED BY <1>1, <1>2, <1>3 DEF SNext

(* A session that a logout has ended is opened again by signing in only, or  *)
(* by a refresh that had taken its last look at it when the logout came.     *)
THEOREM LogoutIsFinal == SSpec => LogoutHolds
<1> DEFINE Opened == \E t \in Requests :
                        /\ pc[t] = "store" /\ pc'[t] = "answered"
                        /\ req[t].kind \in SignIns \/ t \in crossed
<1>1. SInit => Crossed
  BY DEF SInit, Crossed
<1>2. ASSUME STypeOK, Flow, Crossed, [SNext]_svars,
             account.id = account'.id, account.hash = None, account'.hash # None
      PROVE  Opened
  <2>1. PICK t \in Requests : Step(t)
    BY <1>2 DEF SNext, Expire, svars
  <2>2. account # account'
    BY <1>2
  <2>3. Store(t) /\ pc'[t] = "answered"
    <3>1. ~Create(t)
      BY <1>2, <2>2, NamesAssumption DEF Create, STypeOK, AccountOK, NoAccount, Names
    <3>2. account'.hash # None => account' # NoAccount
      BY DEF NoAccount
    <3> QED BY <1>2, <2>1, <3>1, <3>2, SessionMoves
  <2>4. Present(token[t].sub) /\ req[t].kind \in {"register", "login", "refresh"}
    BY <1>2, <2>2, <2>3 DEF Store, Update, Flow, FlowOf, Subject, Opening, SignIns
  <2>5. req[t].kind \in SignIns \/ t \in crossed
    BY <1>2, <2>3, <2>4 DEF Store, Crossed, SignIns
  <2> QED BY <2>3, <2>5 DEF Store
<1>3. STypeOK /\ Flow /\ Crossed /\ [SNext]_svars
      => [account.id = account'.id /\ account.hash = None /\ account'.hash # None
          => Opened]_svars
  BY <1>2
<1> QED BY <1>1, <1>3, CrossedStep, NamesHold, TypedFlow, PTL DEF SSpec, LogoutHolds
-----------------------------------------------------------------------------
(* RefusedForCause.                                                          *)

\* A socket past the look at its access token had none that was good, and its
\* token does not become so.
Cause ==
    \A t \in Requests :
       /\ out[t] \in {"refused", "guest"} => t \in barred
       /\ pc[t] = "fallback" =>
            \/ t \in barred
            \/ ~(AccessGood(req[t].access) /\ Holds(req[t].access))

(* A pair that a client holds is neither issued again nor given an account   *)
(* of its subject's name.                                                    *)
LEMMA PairsKeep ==
    ASSUME STypeOK, Flow, Fresh, NEW t \in Requests, Step(t), NEW x \in Given
    PROVE  AccessGood(x)' /\ Holds(x)' => AccessGood(x) /\ Holds(x)
<1> SUFFICES ASSUME AccessGood(x)', Holds(x)' PROVE AccessGood(x) /\ Holds(x)
  OBVIOUS
<1>1. x # None /\ x \in Names /\ x # t
  BY Onward, NamesAssumption DEF Given, Names, AccessGood
<1>2. token'[x] = token[x]
  BY <1>1, AccountMoves DEF Issue, STypeOK
<1>3. AccessGood(x)
  BY <1>1, <1>2 DEF AccessGood
<1>4. token[x].sub # None /\ account'.id = token[x].sub
  BY <1>2 DEF Holds, Present
<1>5. ~(Create(t) /\ account'.id = t)
  BY <1>1, <1>4 DEF Create, Fresh
<1>6. account.id = token[x].sub
  BY <1>4, <1>5, AccountMoves
<1> QED BY <1>1, <1>3, <1>4, <1>6 DEF Holds, Present

(* No step turns a request away that had a right throughout.                 *)
LEMMA CauseStep ==
    STypeOK /\ Flow /\ Fresh /\ Issued /\ Cause /\ [SNext]_svars => Cause'
<1> SUFFICES ASSUME STypeOK, Flow, Fresh, Issued, Cause, [SNext]_svars PROVE Cause'
  OBVIOUS
<1> DEFINE Bad(u) == ~(AccessGood(req[u].access) /\ Holds(req[u].access))
           P(u) == /\ out[u] \in {"refused", "guest"} => u \in barred
                   /\ pc[u] = "fallback" => u \in barred \/ Bad(u)
<1>1. ASSUME NEW t \in Requests, Step(t) PROVE Cause'
  <2>1. ASSUME NEW u \in Requests \ {t} PROVE P(u)'
    <3>1. pc'[u] = pc[u] /\ out'[u] = out[u] /\ req'[u] = req[u] /\ P(u)
      BY <1>1, OthersStay DEF Bystander, Cause
    <3>2. out[u] \in {"refused", "guest"} => pc[u] = "answered"
      BY DEF STypeOK
    <3>3. Bad(u) => Bad(u)'
      BY <1>1, <3>1, PairsKeep DEF Issued
    <3> QED BY <1>1, <3>1, <3>2, <3>3, Watched
  <2>2. P(t)'
    <3> USE Moves, <1>1, Watched DEF Barred, Entitled, InFlight
    <3>0. FlowOf(t) /\ P(t)
      BY DEF Flow, Cause
    <3>1. CASE Arrive(t)
      <4>1. PICK k \in Kinds : pc'[t] = Entry[k]
        BY <3>1, ArrivesAs
      <4>2. out'[t] = "none"
        BY <3>1 DEF Arrive, STypeOK
      <4> QED BY <4>1, <4>2, KindsAre
    <3>2. CASE Find(t) \/ Create(t) \/ Validate(t)
      <4>1. account = NoAccount => account.password = None
        BY DEF NoAccount
      <4>2. pc[t] # "answered" => out[t] = "none"
        BY DEF STypeOK
      <4> QED BY <3>0, <3>2, <4>1, <4>2 DEF Find, Create, Validate, FlowOf
    <3>3. CASE Verify(t)
      <4>1. Holds(req[t].refresh) /\ account.hash # None
            => Digest(req[t].refresh) = account.hash
        BY DEF STypeOK, Holds, Present, Digest
      <4> QED BY <3>0, <3>3, <4>1 DEF Verify, FlowOf
    <3>4. CASE Check(t) \/ Compare(t)
      BY <3>0, <3>4 DEF Check, Compare, FlowOf
    <3>5. CASE Guard(t)
      BY <3>0, <3>5, AfterGuardIs DEF Guard, FlowOf
    <3>6. CASE Store(t) \/ Rewrite(t) \/ Remove(t) \/ Edit(t)
      BY <3>6 DEF Store, Rewrite, Remove, Edit, Update
    <3>7. CASE Clear(t)
      BY <3>7 DEF Clear, STypeOK
    <3>8. CASE ConnectAccess(t)
      <4>1. req'[t] = req[t] /\ token' = token /\ account' = account
        BY <3>8 DEF ConnectAccess
      <4>2. Bad(t) => Bad(t)'
        BY <4>1 DEF AccessGood, Holds, Present
      <4>3. out[t] = "none"
        BY <3>8 DEF ConnectAccess, STypeOK
      <4> QED BY <3>8, <4>2, <4>3 DEF ConnectAccess
    <3>9. CASE ConnectRefresh(t)
      BY <3>0, <3>9 DEF ConnectRefresh, FlowOf
    <3>10. CASE Fail(t)
      BY <3>0, <3>10 DEF Fail, STypeOK
    <3>11. CASE Deliver(t) \/ Lose(t)
      BY <3>11 DEF Deliver, Lose
    <3> QED BY <3>1, <3>2, <3>3, <3>4, <3>5, <3>6, <3>7, <3>8, <3>9, <3>10, <3>11 DEF Step
  <2> QED BY <2>1, <2>2 DEF Cause
<1>2. ASSUME NEW t \in Names, Expire(t) PROVE Cause'
  <2>1. \A u \in Requests : Bad(u) => Bad(u)'
    BY <1>2 DEF Expire, AccessGood, Holds, Present, STypeOK
  <2>2. \A u \in Requests : pc'[u] # "done" /\ u \in barred => u \in barred'
    BY <1>2 DEF Expire, Watch
  <2> QED BY <1>2, <2>1, <2>2 DEF Expire, Cause, STypeOK
<1>3. ASSUME UNCHANGED svars PROVE Cause'
  BY <1>3 DEF svars, Cause, AccessGood, Holds, Present
<1> QED BY <1>1, <1>2, <1>3 DEF SNext

(* Who is turned away, or admitted to a socket as a guest, had no right at   *)
(* some time while the request was under way, or a call of it failed.        *)
THEOREM RefusalHasCause == SSpec => []RefusedForCause
<1>1. SInit => Cause
  BY DEF SInit, Cause
<1>2. Cause => RefusedForCause
  BY DEF Cause, RefusedForCause
<1> QED BY <1>1, <1>2, CauseStep, NamesHold, TypedFlow, PTL DEF SSpec
-----------------------------------------------------------------------------
(* SignedOutStaysOut.                                                        *)

\* A client that signed out has no cookies, and its requests bring none but for
\* those that were under way.
Out(t) ==
    /\ req[t].kind \notin SignIns
    /\ req[t].access = None /\ req[t].refresh = None
    /\ pc[t] \in {"idle", "verify", "guard", "access", "fallback", "answered", "done"}
    /\ out[t] # "ok"

Emptied ==
    \A c \in left :
       jar[c] = NoCookies /\ \A t \in Requests \ strays : req[t].client = c => Out(t)

(* What a request without cookies comes to.                                  *)
LEMMA OutStays ==
    ASSUME STypeOK, Flow, NEW t \in Requests, Step(t), ~Arrive(t), Out(t)
    PROVE  Out(t)'
<1> USE Moves DEF Out
<1>1. ~AccessGood(req[t].access) /\ ~RefreshGood(req[t].refresh)
  BY DEF AccessGood, RefreshGood
<1>2. NoRequest.kind \notin SignIns /\ NoRequest.access = None /\ NoRequest.refresh = None
  BY DEF NoRequest, SignIns
<1>3. CASE Verify(t)
  BY <1>1, <1>3 DEF Verify
<1>4. CASE Guard(t)
  BY <1>1, <1>4 DEF Guard
<1>5. CASE ConnectAccess(t) \/ ConnectRefresh(t)
  BY <1>1, <1>5 DEF ConnectAccess, ConnectRefresh
<1>6. CASE Fail(t)
  BY <1>2, <1>6 DEF Fail
<1>7. CASE Deliver(t) \/ Lose(t)
  BY <1>2, <1>7 DEF Deliver, Lose
<1>8. pc[t] \notin {"find", "create", "store", "validate", "check", "clear", "compare",
                   "rewrite", "remove", "edit"}
  OBVIOUS
<1> QED BY <1>3, <1>4, <1>5, <1>6, <1>7, <1>8
        DEF Step, Find, Create, Store, Validate, Check, Clear, Compare, Rewrite, Remove, Edit

(* A client out of cookies gets none but by signing in.                      *)
LEMMA EmptiedStep == STypeOK /\ Flow /\ Emptied /\ [SNext]_svars => Emptied'
<1> SUFFICES ASSUME STypeOK, Flow, Emptied, [SNext]_svars PROVE Emptied'
  OBVIOUS
<1>1. ASSUME NEW t \in Requests, Step(t) PROVE Emptied'
  <2> SUFFICES ASSUME NEW c \in left'
               PROVE  /\ jar'[c] = NoCookies
                      /\ \A u \in Requests \ strays' : req'[u].client = c => Out(u)'
    BY DEF Emptied
  <2>1. \A u \in Requests \ {t} :
           /\ req'[u].client = c => req[u].client = c
           /\ Out(u) => Out(u)'
    BY <1>1, OthersStay DEF Bystander, Out
  <2>2. c \in Clients
    BY <1>1, DataStep DEF DataOK
  <2>3. Finish(t) => Out(t)'
    BY Moves DEF Out, NoRequest, SignIns
  <2>4. CASE Arrive(t)
    <3>1. PICK k \in Kinds, d \in Clients, w \in Passwords \cup {None},
               n \in Passwords \cup {None} :
            /\ pc'[t] = Entry[k] /\ req'[t] = Ask(k, d, w, n)
            /\ left' = IF k \in SignIns THEN left \ {d} ELSE left
            /\ strays' = strays
      BY <2>4, ArrivesAs
    <3>2. c \in left /\ jar' = jar /\ out'[t] = "none"
      BY <2>4, <3>1 DEF Arrive, STypeOK
    <3>3. jar[c] = NoCookies
      BY <3>2 DEF Emptied
    <3>4. ASSUME req'[t].client = c PROVE Out(t)'
      <4>1. d = c /\ req'[t].kind = k
        BY <3>1, <3>4 DEF Ask
      <4>2. k \notin SignIns
        BY <3>1, <4>1
      <4>3. req'[t].access = None /\ req'[t].refresh = None
        BY <3>1, <3>3, <4>1 DEF Ask, NoCookies
      <4>4. pc'[t] \in {"verify", "guard", "access"}
        BY <3>1, <4>2, KindsAre DEF SignIns
      <4> QED BY <3>2, <4>1, <4>2, <4>3, <4>4 DEF Out
    <3> QED BY <2>1, <3>1, <3>2, <3>3, <3>4 DEF Emptied
  <2>5. CASE Deliver(t)
    <3>1. Finish(t)
      BY <2>5 DEF Deliver
    <3>2. CASE c \in left
      <4>1. jar[c] = NoCookies /\ \A u \in Requests \ strays : req[u].client = c => Out(u)
        BY <3>2 DEF Emptied
      <4>2. strays \subseteq strays'
        BY <2>5 DEF Deliver, Client
      <4>3. out[t] = "ok" /\ req[t].client = c => req[t].kind \notin Opening
        BY <2>5 DEF Deliver, Opening, SignIns
      <4>4. jar'[c] = NoCookies
        BY <2>2, <2>5, <4>1, <4>3 DEF Deliver, Cookies, Client, STypeOK
      <4> QED BY <2>1, <2>3, <3>1, <4>1, <4>2, <4>4
    <3>3. CASE c \notin left
      <4>1. /\ c = req[t].client /\ out[t] = "ok" /\ req[t].kind = "logout"
            /\ {u \in Requests \ {t} : req[u].client = c} \subseteq strays'
        BY <2>5, <3>3 DEF Deliver, Client
      <4>2. jar'[c] = NoCookies
        BY <2>2, <2>5, <4>1 DEF Deliver, Cookies, Opening, SignIns, STypeOK
      <4> QED BY <2>1, <2>3, <3>1, <4>1, <4>2
    <3> QED BY <3>2, <3>3
  <2>6. CASE ~Arrive(t) /\ ~Deliver(t)
    <3>1. jar' = jar /\ left' = left /\ strays' = strays /\ req'[t] \in {req[t], NoRequest}
          /\ (req'[t] = req[t] \/ Finish(t))
      BY <1>1, <2>6, Moves
         DEF Step, Find, Create, Store, Validate, Verify, Check, Guard, Clear, Compare,
             Rewrite, Remove, Edit, ConnectAccess, ConnectRefresh, Fail, Lose, Update, Client
    <3> QED BY <1>1, <2>1, <2>3, <2>6, <3>1, OutStays DEF Emptied
  <2> QED BY <2>4, <2>5, <2>6
<1>2. ASSUME NEW t \in Names, Expire(t) PROVE Emptied'
  BY <1>2 DEF Expire, Emptied, Out
<1>3. ASSUME UNCHANGED svars PROVE Emptied'
  BY <1>3 DEF svars, Emptied, Out
<1> QED BY <1>1, <1>2, <1>3 DEF SNext

(* Who signed out gets in nowhere before signing in again, but by a request    *)
(* that was under way when it did, whatever the account's other clients do.   *)
THEOREM SignedOutIsOut == SSpec => []SignedOutStaysOut
<1>1. SInit => Emptied
  BY DEF SInit, Emptied
<1>2. Emptied => SignedOutStaysOut
  BY DEF Emptied, Out, SignedOutStaysOut
<1> QED BY <1>1, <1>2, EmptiedStep, TypedFlow, PTL DEF SSpec
=============================================================================
