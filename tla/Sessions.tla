------------------------------- MODULE Sessions -------------------------------
(***************************************************************************)
(* How devices (cloud/apps/device-api/src/auth, devices) and parents       *)
(* (cloud/apps/parent-bff/src/auth) log in and stay logged in: access and  *)
(* refresh tokens, the rows that back refresh tokens, and the parents'     *)
(* login at an OIDC provider, with the cookies it leaves in their browser. *)
(*                                                                         *)
(* The two servers hold tokens alike, each for its own clients: what       *)
(* differs are the lifetimes and the ways in.  A refused login changes     *)
(* nothing and is no step.  A client uses its access token until the guard *)
(* refuses it, then its refresh token; refused, it has to log in again.    *)
(*                                                                         *)
(* Time is in whole seconds, as in a JWT.  Over Redis a row expires and    *)
(* reading and writing it takes a round trip; in memory it stays until the *)
(* process ends and nothing waits for it (SessionsBusy).                   *)
(***************************************************************************)
EXTENDS Integers, Sequences

CONSTANTS
    DeviceClients, ParentClients,
    Deployments,    \* see Deployment
    DeviceAccess, DeviceRefresh,    \* ACCESS_TTL_SEC, REFRESH_TTL_SEC
    ParentAccess, ParentRefresh,
    CookieLife,     \* maxAge of the login cookies
    MaxTime, MaxTokens, MaxFlows

Clients == DeviceClients \cup ParentClients

(* env, file: the devices of DEVICE_DEV_CREDENTIALS and of the registry    *)
(* file; trust: MTLS_HEADER_TRUST; allow: MTLS_ALLOWED_DEVICE_IDS_JSON;    *)
(* all: MTLS_TRUST_REGISTERED_DEVICES; issuer: OIDC_ISSUER and client id   *)
Deployment ==
    [redis : BOOLEAN, env : SUBSET DeviceClients, file : SUBSET DeviceClients,
     trust : BOOLEAN, allow : SUBSET DeviceClients, all : BOOLEAN, issuer : BOOLEAN]

ASSUME DeploymentAssumption == Deployments \subseteq Deployment
ASSUME LifeAssumption ==
    /\ DeviceAccess \in Nat /\ DeviceRefresh \in Nat
    /\ ParentAccess \in Nat /\ ParentRefresh \in Nat /\ CookieLife \in Nat
ASSUME SessionBounds ==
    MaxTime \in Nat /\ MaxTokens \in Nat /\ MaxFlows \in Nat

VARIABLES
    dep,        \* one of Deployments, for good
    now,
    tokens,     \* refresh tokens signed so far: for whom, and when they expire
    rows,       \* refresh store: row i, of token i, is there until rows[i]
    cl,         \* each client: the token pair it holds, 0 for none
    hd,         \* the request of each client in its server
    oidc,       \* outcome of the provider's discovery
    flows,      \* logins begun at the provider, in order
    jar,        \* login cookies of each parent's browser
    refused,    \* refresh tokens refused, and when
    restarted   \* a server with rows in memory has been restarted

avars == <<dep, now, tokens, rows, cl, hd, oidc, flows, jar, refused, restarted>>

Life(c) == IF c \in DeviceClients THEN DeviceRefresh ELSE ParentRefresh
AccessLife(c) == IF c \in DeviceClients THEN DeviceAccess ELSE ParentAccess
Gone == -1
NoHandler == [pc |-> "none", token |-> 0, flow |-> 0, to |-> 0]
NoCookies == [flow |-> 0, until |-> 0, back |-> 0, backUntil |-> 0]
Flow == 1..MaxFlows

(* In a jar, flow is whose state and code verifier it holds, back whose    *)
(* redirect_uri; a flow's to is where its tokens went: back to the app of  *)
(* a flow, 0 for the page, Gone while it has none.                         *)
SessionsTypeOK ==
    /\ dep \in Deployments
    /\ now \in 0..MaxTime
    /\ tokens \in Seq([who : Clients, exp : Nat, access : Nat])
    /\ Len(tokens) <= MaxTokens
    /\ rows \in Seq(Nat \cup {Gone})
    /\ Len(rows) = Len(tokens)
    /\ cl \in [Clients -> 0..Len(tokens)]
    /\ hd \in [Clients -> [pc : {"none", "lookup", "store", "exchange", "userinfo"},
                           token : 0..Len(tokens), flow : Flow \cup {0},
                           to : Flow \cup {0}]]
    /\ oidc \in {"unset", "asked", "ready", "failed"}
    /\ flows \in Seq([who : ParentClients, mobile : BOOLEAN, open : BOOLEAN,
                      to : Flow \cup {0, Gone}])
    /\ Len(flows) <= MaxFlows
    /\ jar \in [ParentClients -> [flow : Flow \cup {0}, until : Nat,
                                  back : Flow \cup {0}, backUntil : Nat]]
    /\ refused \subseteq (1..Len(tokens)) \X (0..MaxTime)
    /\ restarted \in BOOLEAN

Discovery == IF dep.issuer THEN "asked" ELSE "unset"

SessionsInit ==
    /\ dep \in Deployments
    /\ now = 0
    /\ tokens = <<>>
    /\ rows = <<>>
    /\ cl = [c \in Clients |-> 0]
    /\ hd = [c \in Clients |-> NoHandler]
    /\ oidc = Discovery
    /\ flows = <<>>
    /\ jar = [p \in ParentClients |-> NoCookies]
    /\ refused = {}
    /\ restarted = FALSE

Idle(c) == hd[c].pc = "none"
SessionsBusy == ~dep.redis /\ \E c \in Clients : hd[c].pc \in {"lookup", "store"}

-----------------------------------------------------------------------------
(* Tokens *)

(* both tokens are signed here, and the row is stored in a later step      *)
issueTokens(c, flow, to) ==
    /\ Len(tokens) < MaxTokens
    /\ tokens' = Append(tokens, [who |-> c, exp |-> now + Life(c),
                                 access |-> now + AccessLife(c)])
    /\ rows' = Append(rows, Gone)
    /\ hd' = [hd EXCEPT ![c] = [pc |-> "store", token |-> Len(tokens) + 1,
                                flow |-> flow, to |-> to]]

BadRowLife(c) == AccessLife(c)
RowLife(c) == Life(c)

(* the request is over: its tokens are heard, or lost on the way           *)
StoreRow(c) ==
    LET h == hd[c] IN
    /\ h.pc = "store"
    /\ rows' = [rows EXCEPT ![h.token] = now + RowLife(c)]
    /\ hd' = [hd EXCEPT ![c] = NoHandler]
    /\ \/ /\ cl' = [cl EXCEPT ![c] = h.token]
          /\ IF h.flow = 0 THEN UNCHANGED <<flows, jar>>
             ELSE /\ flows' = [flows EXCEPT ![h.flow].to = h.to]
                  /\ jar' = [jar EXCEPT ![c] = IF h.to # 0 THEN NoCookies ELSE @]
       \/ UNCHANGED <<cl, flows, jar>>
    /\ UNCHANGED <<dep, now, tokens, oidc, refused, restarted>>

RowThere(i) == rows[i] # Gone /\ (dep.redis => now < rows[i])
Live(i) == now < tokens[i].exp
verifyAccess(c) == cl[c] # 0 /\ now < tokens[cl[c]].access

Refuse(c) ==
    /\ refused' = refused \cup {<<cl[c], now>>}
    /\ cl' = [cl EXCEPT ![c] = 0]
    /\ hd' = [hd EXCEPT ![c] = NoHandler]
    /\ UNCHANGED <<tokens, rows>>

(* POST auth/token: signature, expiry and kind first ...                   *)
BeginRefresh(c) ==
    /\ ~SessionsBusy
    /\ Idle(c) /\ cl[c] # 0 /\ ~verifyAccess(c)
    /\ IF ~Live(cl[c]) THEN Refuse(c)
       ELSE /\ hd' = [hd EXCEPT ![c] = [NoHandler EXCEPT !.pc = "lookup", !.token = cl[c]]]
            /\ UNCHANGED <<tokens, rows, cl, refused>>
    /\ UNCHANGED <<dep, now, oidc, flows, jar, restarted>>

(* ... then the row, which stays: the old token remains good               *)
LookUpRow(c) ==
    /\ hd[c].pc = "lookup"
    /\ IF RowThere(hd[c].token)
       THEN issueTokens(c, 0, 0) /\ UNCHANGED <<cl, refused>>
       ELSE Refuse(c)
    /\ UNCHANGED <<dep, now, oidc, flows, jar, restarted>>

-----------------------------------------------------------------------------
(* Ways in *)

LogsIn(c) ==
    /\ ~SessionsBusy
    /\ Idle(c) /\ cl[c] = 0
    /\ issueTokens(c, 0, 0)
    /\ UNCHANGED <<dep, now, cl, oidc, flows, jar, refused, restarted>>

registry == dep.env \cup dep.file
isMtlsDeviceAllowed(d) == d \in dep.allow \/ (dep.all /\ d \in registry)

(* with its secret (auth/device, devices/sessions), or vouched for by the  *)
(* gateway (auth/mtls)                                                     *)
DeviceLogsIn(d) ==
    /\ d \in registry \/ (dep.trust /\ isMtlsDeviceAllowed(d))
    /\ LogsIn(d)

(* the development password *)
ParentLogsIn(p) == LogsIn(p)

(* The constructor asks the provider once; a failure stays *)
initConfig ==
    /\ oidc = "asked"
    /\ oidc' \in {"ready", "failed"}
    /\ UNCHANGED <<dep, now, tokens, rows, cl, hd, flows, jar, refused, restarted>>

BadCookies(p, f, mobile) ==
    [flow |-> f, until |-> now + CookieLife,
     back |-> IF mobile /\ jar[p].back = 0 THEN f ELSE jar[p].back,
     backUntil |-> now + CookieLife]
Cookies(p, f, mobile) ==
    [flow |-> f, until |-> now + CookieLife,
     back |-> IF mobile THEN f ELSE jar[p].back,
     backUntil |-> IF mobile THEN now + CookieLife ELSE jar[p].backUntil]

(* oidc/login, in any tab; a mobile app passes its redirect_uri            *)
OidcLogin(p, mobile) ==
    /\ ~SessionsBusy
    /\ oidc = "ready"
    /\ cl[p] = 0 /\ Len(flows) < MaxFlows
    /\ flows' = Append(flows, [who |-> p, mobile |-> mobile, open |-> TRUE, to |-> Gone])
    /\ jar' = [jar EXCEPT ![p] = Cookies(p, Len(flows) + 1, mobile)]
    /\ UNCHANGED <<dep, now, tokens, rows, cl, hd, oidc, refused, restarted>>

Back(p) == IF now < jar[p].backUntil THEN jar[p].back ELSE 0
Session(p) == IF now < jar[p].until THEN jar[p].flow ELSE 0

ComesBack(f) ==
    /\ ~SessionsBusy
    /\ flows[f].open /\ Idle(flows[f].who)
    /\ flows' = [flows EXCEPT ![f].open = FALSE]
    /\ UNCHANGED <<dep, now, tokens, rows, cl, oidc, refused, restarted>>

(* oidc/callback with an error: handed to the app of the cookie, if any    *)
CallbackError(f) ==
    LET p == flows[f].who IN
    /\ ComesBack(f)
    /\ jar' = [jar EXCEPT ![p] = IF Back(p) # 0 THEN [@ EXCEPT !.back = 0] ELSE @]
    /\ UNCHANGED hd

CodeFits(f) == Session(flows[f].who) = f

(* oidc/callback with a code: 401 without the cookies of this login        *)
CallbackCode(f) ==
    LET p == flows[f].who IN
    /\ ComesBack(f)
    /\ hd' = IF CodeFits(f)
             THEN [hd EXCEPT ![p] = [pc |-> "exchange", token |-> 0, flow |-> f,
                                     to |-> Back(p)]]
             ELSE hd
    /\ UNCHANGED jar

(* The provider is asked for tokens, and for the user when they come       *)
(* without an id_token; each may fail, and the parent starts again.        *)
handleCallback(p) ==
    /\ ~SessionsBusy
    /\ hd[p].pc \in {"exchange", "userinfo"}
    /\ \/ issueTokens(p, hd[p].flow, hd[p].to)
       \/ /\ hd[p].pc = "exchange"
          /\ hd' = [hd EXCEPT ![p].pc = "userinfo"]
          /\ UNCHANGED <<tokens, rows>>
       \/ hd' = [hd EXCEPT ![p] = NoHandler] /\ UNCHANGED <<tokens, rows>>
    /\ UNCHANGED <<dep, now, cl, oidc, flows, jar, refused, restarted>>

-----------------------------------------------------------------------------
Tick ==
    /\ ~SessionsBusy
    /\ now < MaxTime
    /\ now' = now + 1
    /\ UNCHANGED <<dep, tokens, rows, cl, hd, oidc, flows, jar, refused, restarted>>

(* A server is restarted: what it was doing is lost, and its rows in memory*)
Restart(clients) ==
    /\ hd' = [c \in Clients |-> IF c \in clients THEN NoHandler ELSE hd[c]]
    /\ IF dep.redis THEN UNCHANGED <<rows, restarted>>
       ELSE /\ rows' = [i \in DOMAIN rows |->
                          IF tokens[i].who \in clients THEN Gone ELSE rows[i]]
            /\ restarted' = TRUE
    /\ oidc' = IF clients = ParentClients THEN Discovery ELSE oidc
    /\ UNCHANGED <<dep, now, tokens, cl, flows, jar, refused>>

SessionsNext ==
    \/ Tick \/ initConfig
    \/ Restart(DeviceClients) \/ Restart(ParentClients)
    \/ \E c \in Clients : BeginRefresh(c) \/ LookUpRow(c) \/ StoreRow(c)
    \/ \E d \in DeviceClients : DeviceLogsIn(d)
    \/ \E p \in ParentClients :
         ParentLogsIn(p) \/ handleCallback(p) \/ \E m \in BOOLEAN : OidcLogin(p, m)
    \/ \E f \in DOMAIN flows : CallbackError(f) \/ CallbackCode(f)

SessionsSpec == SessionsInit /\ [][SessionsNext]_avars

-----------------------------------------------------------------------------
(* A client that refreshes in time stays logged in: a refresh token is     *)
(* refused only once its own lifetime is over, because "tokens are stored  *)
(* in Redis with a TTL matching the refresh token lifetime"                *)
(* (parent-bff refresh-token-store.service.ts:18) counted from after it    *)
(* was signed; in memory until a restart.                                  *)
RefusedOnlyExpired ==
    \A r \in refused : r[2] >= tokens[r[1]].exp \/ restarted

(* "redirects there with tokens" (oidc.controller.ts:30): however logins   *)
(* in several tabs and apps overlap, fail or expire, the tokens of a login *)
(* an app began never go to another app.                                   *)
MobileEndsAtHome ==
    \A f \in DOMAIN flows : flows[f].mobile => flows[f].to \in {Gone, 0, f}
=============================================================================
