-------------------------------- MODULE Access --------------------------------
(***************************************************************************)
(* Accounts and tokens: POST /auth/register, /auth/login, /auth/logout,    *)
(* GET /auth/sso/callback, POST /internal/mint-customer-token and the      *)
(* check of a bearer token, in several API processes over the tables users *)
(* and tenant_registry.  Every SQL statement is a step (READ COMMITTED);   *)
(* an INSERT waits for an uncommitted row with the same unique key.        *)
(* Revocations live in the memory of a process.  Addresses have one "@".   *)
(***************************************************************************)
EXTENDS Integers, FiniteSets

CONSTANTS
  Requests,    \* requests that create an account or a token
  Processes,   \* uvicorn workers
  Forms,       \* the registration forms people send
  Usernames, Emails, Domains, Tenants, Customers,
  DomainOf,    \* the domain of each address
  Registry,    \* tenant_registry: the tenant of each domain, or NoTenant
  NoTenant,
  MaxKeys,     \* bound: how often a tenant's service key is provisioned
  MaxRestarts  \* bound: how often a process restarts

ASSUME ConstantsAssumption ==
  /\ Forms \subseteq
       [name : Usernames, email : Emails, tenant : Tenants, customer : Customers]
  /\ DomainOf \in [Emails -> Domains]
  /\ NoTenant \notin Tenants /\ Registry \in [Domains -> Tenants \cup {NoTenant}]
  /\ MaxKeys \in Nat /\ MaxRestarts \in Nat
  \* the random end of a name made at a first SSO login makes it new
  /\ Usernames \cap ({"sso"} \X Requests) = {}

VARIABLES
  users,    \* committed rows of users; by, their user_id, is the request that made them
  keys,     \* service_key_hash of each row of tenant_registry; 0 is NULL
  req,      \* each request
  expired,  \* tokens past their exp; the jti of a token is the request that got it
  revoked,  \* _revoked of each process
  issued,   \* history: how many keys each tenant was given,
  epoch,    \*   how often each process restarted,
  met,      \*   which requests were under way at the same time,
  out,      \*   <<token, process, epoch>> of every confirmed logout,
  broken    \*   and whether a process accepted what it had logged out

history == <<issued, epoch, met, out, broken>>
vars == <<users, keys, req, expired, revoked, history>>

\* "ok" got its account or token, "refused" a 4xx, "failed" a 500, "gone" none.
Ended == {"ok", "refused", "failed", "gone"}
SsoLocal == {"find", "ssoinsert", "ssoinserted"}
UnderWayStates ==
  {"tenant", "name", "customer", "insert", "inserted", "callback", "login", "mint"}
    \cup SsoLocal

UnderWay == {r \in Requests : req[r].pc \in UnderWayStates}
Tokens == {r \in Requests : req[r].pc = "ok" /\ req[r].kind # "register"}

NoClaims == [sub |-> "", tenant |-> NoTenant, customer |-> ""]
NoRequest ==
  [pc |-> "idle", kind |-> "", proc |-> "", form |-> "", claims |-> NoClaims,
   asof |-> 0, hit |-> FALSE]

\* The row of users a registration or a first SSO login inserts, and the claims
\* of a token for it.
Row(r) ==
  LET f == req[r].form
  IN IF req[r].kind = "sso"
     THEN [name |-> <<"sso", r>>, email |-> f.email, provider |-> "sso",
           tenant |-> Registry[DomainOf[f.email]], customer |-> f.email, by |-> r]
     ELSE [name |-> f.name, email |-> f.email, provider |-> "local",
           tenant |-> f.tenant, customer |-> f.customer, by |-> r]
ClaimsOf(x) == [sub |-> x.by, tenant |-> x.tenant, customer |-> x.customer]

\* username and email are unique, (tenant_id, customer_id) is not.
Clash(x, y) == x.name = y.name \/ x.email = y.email
Uncommitted == {Row(r) : r \in {q \in Requests : req[q].pc \in {"inserted", "ssoinserted"}}}

\* sso_callback is a coroutine whose database calls block the event loop: until
\* it returns the process takes no request and resumes no other callback.
LoopFree(p) == \A r \in Requests : req[r].proc = p => req[r].pc \notin SsoLocal

RowsOf(t) == {d \in Domains : Registry[d] = t}

\* A step of r that ends at pc and changes the request only.
Goes(r, pc) ==
  /\ req' = [req EXCEPT ![r].pc = pc]
  /\ UNCHANGED <<users, keys, expired, revoked, history>>

GetsToken(r, claims) ==
  /\ req' = [req EXCEPT ![r].pc = "ok", ![r].claims = claims]
  /\ UNCHANGED <<keys, expired, revoked, history>>

-----------------------------------------------------------------------------
(* Mutants: plausible mistakes the properties below must catch.            *)

\* A callback goes on without a tenant.
CallbackAnyDomain(r) ==
  /\ req[r].pc = "callback" /\ LoopFree(req[r].proc)
  /\ Goes(r, "find")

\* The customer is looked for under any tenant but this one.
CheckCustomerElsewhere(r) ==
  /\ req[r].pc = "customer"
  /\ Goes(r, IF \E x \in users : /\ x.customer = req[r].form.customer
                                 /\ x.tenant # req[r].form.tenant
             THEN "refused" ELSE "insert")

\* INSERT ... ON CONFLICT DO NOTHING.
InsertAnswers(r) ==
  /\ req[r].pc = "insert"
  /\ \A x \in Uncommitted : ~Clash(x, Row(r))
  /\ IF \E x \in users : Clash(x, Row(r)) THEN Goes(r, "ok") ELSE Goes(r, "inserted")

\* An account made by an earlier company login is not found.
FindUserLocalOnly(r) ==
  /\ req[r].pc = "find"
  /\ LET known == {x \in users : x.email = req[r].form.email /\ x.provider = "local"}
     IN \/ known = {} /\ Goes(r, "ssoinsert")
        \/ \E x \in known : GetsToken(r, ClaimsOf(x)) /\ UNCHANGED users

\* One row of the tenant gets the new key.
ProvisionOneRow(t) ==
  /\ issued[t] < MaxKeys
  /\ \E d \in RowsOf(t) : keys' = [keys EXCEPT ![d] = issued[t] + 1]
  /\ issued' = [issued EXCEPT ![t] = @ + 1]
  /\ UNCHANGED <<users, req, expired, revoked, epoch, met, out, broken>>

\* The token is decoded without a look at the revocations.
AcceptUnchecked(t, p) ==
  /\ t \in Tokens /\ LoopFree(p)
  /\ t \notin expired
  /\ broken' = (broken \/ <<t, p, epoch[p]>> \in out)
  /\ UNCHANGED <<users, keys, req, expired, revoked, issued, epoch, met, out>>
-----------------------------------------------------------------------------
Init ==
  /\ users = {}
  /\ keys = [d \in Domains |-> 0]
  /\ req = [r \in Requests |-> NoRequest]
  /\ expired = {}
  /\ revoked = [p \in Processes |-> {}]
  /\ issued = [t \in Tenants |-> 0]
  /\ epoch = [p \in Processes |-> 0]
  /\ met = [r \in Requests |-> {}]
  /\ out = {} /\ broken = FALSE

\* A request arrives at a process; asof is the tenant's newest key by then.
Begin(r, p, kind, form, asof, pc) ==
  /\ req[r].pc = "idle" /\ LoopFree(p)
  /\ req' = [req EXCEPT ![r] =
       [NoRequest EXCEPT !.pc = pc, !.kind = kind, !.proc = p, !.form = form, !.asof = asof]]
  /\ met' = [q \in Requests |-> IF q = r THEN UnderWay
                                ELSE IF q \in UnderWay THEN met[q] \cup {r} ELSE met[q]]
  /\ UNCHANGED <<users, keys, expired, revoked, issued, epoch, out, broken>>

\* "refused": by the rate limit.
BeginRegister(r, p) ==
  \E f \in Forms, pc \in {"tenant", "refused"} : Begin(r, p, "register", f, 0, pc)
BeginLogin(r, p) ==
  \E n \in Usernames \cup {x.name : x \in users}, pc \in {"login", "refused"} :
    Begin(r, p, "login", [name |-> n], 0, pc)
BeginCallback(r, p) ==
  \E e \in Emails : Begin(r, p, "sso", [email |-> e], 0, "callback")
\* The backend of a tenant that was given keys, with one of them.
BeginMint(r, p) ==
  \E t \in Tenants, c \in Customers, pc \in {"mint", "refused"} :
    \E k \in 1..issued[t] :
      Begin(r, p, "mint", [tenant |-> t, customer |-> c, key |-> k], issued[t], pc)

\* register: the domain of some row of the tenant must be that of the address.
CheckTenant(r) ==
  /\ req[r].pc = "tenant"
  /\ \/ RowsOf(req[r].form.tenant) = {} /\ Goes(r, "refused")
     \/ \E d \in RowsOf(req[r].form.tenant) :
          Goes(r, IF DomainOf[req[r].form.email] = d THEN "name" ELSE "refused")

CheckName(r) ==
  /\ req[r].pc = "name"
  /\ Goes(r, IF \E x \in users : x.name = req[r].form.name THEN "refused" ELSE "customer")

CheckCustomer(r) ==
  /\ req[r].pc = "customer"
  /\ Goes(r, IF \E x \in users : /\ x.customer = req[r].form.customer
                                 /\ x.tenant = req[r].form.tenant
             THEN "refused" ELSE "insert")

Insert(r) ==
  /\ req[r].pc = "insert"
  /\ \A x \in Uncommitted : ~Clash(x, Row(r))
  /\ Goes(r, IF \E x \in users : Clash(x, Row(r)) THEN "refused" ELSE "inserted")

Commit(r) ==
  /\ req[r].pc = "inserted"
  /\ users' = users \cup {Row(r)}
  /\ GetsToken(r, NoClaims)

\* sso_callback: no usable address from the provider, or none of a tenant.
\* get_tenant_id also answers None when the database does not.
Callback(r) ==
  /\ req[r].pc = "callback" /\ LoopFree(req[r].proc)
  /\ \/ Registry[DomainOf[req[r].form.email]] # NoTenant /\ Goes(r, "find")
     \/ Goes(r, "refused")

FindUser(r) ==
  /\ req[r].pc = "find"
  /\ LET known == {x \in users : x.email = req[r].form.email}
     IN \/ known = {} /\ Goes(r, "ssoinsert")
        \/ \E x \in known : GetsToken(r, ClaimsOf(x)) /\ UNCHANGED users

\* A unique violation is not caught here.
InsertSso(r) ==
  /\ req[r].pc = "ssoinsert"
  /\ \A x \in Uncommitted : ~Clash(x, Row(r))
  /\ Goes(r, IF \E x \in users : Clash(x, Row(r)) THEN "failed" ELSE "ssoinserted")

CommitSso(r) ==
  /\ req[r].pc = "ssoinserted"
  /\ users' = users \cup {Row(r)}
  /\ GetsToken(r, ClaimsOf(Row(r)))

\* The row is read and the password compared; a row made by SSO has none and
\* comparing with it raises.
Login(r) ==
  /\ req[r].pc = "login"
  /\ \/ Goes(r, "refused")
     \/ \E x \in users :
          /\ x.name = req[r].form.name
          /\ \/ x.provider = "sso" /\ Goes(r, "failed")
             \/ x.provider = "local" /\ GetsToken(r, ClaimsOf(x)) /\ UNCHANGED users

\* The key of some row of the tenant is compared with the one presented.
Mint(r) ==
  LET f == req[r].form
  IN /\ req[r].pc = "mint"
     /\ \E d \in RowsOf(f.tenant) :
          IF keys[d] = f.key
          THEN /\ GetsToken(r, [sub |-> "ext", tenant |-> f.tenant, customer |-> f.customer])
               /\ UNCHANGED users
          ELSE Goes(r, "refused")

\* The database refuses a statement or a connection: rollback and HTTP 500; or
\* it stores a commit whose answer is lost.
DbFails(r) ==
  /\ req[r].pc \in UnderWayStates \ {"callback"}
  /\ req' = [req EXCEPT ![r].pc = "failed", ![r].hit = TRUE]
  /\ \/ UNCHANGED users
     \/ req[r].pc \in {"inserted", "ssoinserted"} /\ users' = users \cup {Row(r)}
  /\ UNCHANGED <<keys, expired, revoked, history>>

\* provision_service_key: one UPDATE for all rows of the tenant.
ProvisionKey(t) ==
  /\ RowsOf(t) # {} /\ issued[t] < MaxKeys
  /\ keys' = [d \in Domains |-> IF d \in RowsOf(t) THEN issued[t] + 1 ELSE keys[d]]
  /\ issued' = [issued EXCEPT ![t] = @ + 1]
  /\ UNCHANGED <<users, req, expired, revoked, epoch, met, out, broken>>

Expire(t) ==
  /\ t \in Tokens \ expired
  /\ expired' = expired \cup {t}
  /\ UNCHANGED <<users, keys, req, revoked, history>>

\* logout decodes the token itself; one that is expired is left alone.
Logout(t, p) ==
  /\ t \in Tokens /\ LoopFree(p)
  /\ revoked' = [revoked EXCEPT ![p] = IF t \in expired THEN @ ELSE @ \cup {t}]
  /\ out' = out \cup {<<t, p, epoch[p]>>}
  /\ UNCHANGED <<users, keys, req, expired, issued, epoch, met, broken>>

\* decode_token accepts a token.
Accept(t, p) ==
  /\ t \in Tokens /\ LoopFree(p)
  /\ t \notin expired /\ t \notin revoked[p]
  /\ broken' = (broken \/ <<t, p, epoch[p]>> \in out)
  /\ UNCHANGED <<users, keys, req, expired, revoked, issued, epoch, met, out>>

\* A process dies with its requests and its revocations and starts anew.
Restart(p) ==
  /\ epoch[p] < MaxRestarts
  /\ epoch' = [epoch EXCEPT ![p] = @ + 1]
  /\ revoked' = [revoked EXCEPT ![p] = {}]
  /\ req' = [r \in Requests |->
               IF r \in UnderWay /\ req[r].proc = p THEN [req[r] EXCEPT !.pc = "gone"] ELSE req[r]]
  /\ UNCHANGED <<users, keys, expired, issued, met, out, broken>>

Handle(r) ==
  \/ CheckTenant(r) \/ CheckName(r) \/ CheckCustomer(r) \/ Insert(r) \/ Commit(r)
  \/ Callback(r) \/ FindUser(r) \/ InsertSso(r) \/ CommitSso(r)
  \/ Login(r) \/ Mint(r) \/ DbFails(r)

Next ==
  \/ \E r \in Requests, p \in Processes :
       BeginRegister(r, p) \/ BeginLogin(r, p) \/ BeginCallback(r, p) \/ BeginMint(r, p)
  \/ \E r \in Requests : Handle(r) \/ Expire(r)
  \/ \E t \in Tenants : ProvisionKey(t)
  \/ \E t \in Requests, p \in Processes : Logout(t, p) \/ Accept(t, p)
  \/ \E p \in Processes : Restart(p)

Spec == Init /\ [][Next]_vars

-----------------------------------------------------------------------------
Username == Usernames \cup ({"sso"} \X Requests)
User ==
  [name : Username, email : Emails, provider : {"local", "sso"}, tenant : Tenants,
   customer : Customers \cup Emails, by : Requests]

\* A row names a tenant, a request that ended well got what its kind is for,
\* and what a process revoked is a token.
TypeOK ==
  /\ users \subseteq User
  /\ keys \in [Domains -> 0..MaxKeys] /\ issued \in [Tenants -> 0..MaxKeys]
  /\ \A r \in Requests : req[r].pc \in Ended \cup UnderWayStates \cup {"idle"}
  /\ expired \subseteq Tokens
  /\ revoked \in [Processes -> SUBSET Tokens]
  /\ epoch \in [Processes -> 0..MaxRestarts]
  /\ met \in [Requests -> SUBSET Requests]
  /\ out \subseteq Requests \X Processes \X (0..MaxRestarts)
  /\ broken \in BOOLEAN

\* A customer of a tenant has one registered account, unless two registrations
\* for it were under way at once: both find nobody, and the table allows both.
OneAccountPerCustomer ==
  \A x, y \in users :
    (x.tenant = y.tenant /\ x.customer = y.customer
       /\ x.provider = "local" /\ y.provider = "local")
    => x = y \/ y.by \in met[x.by]

\* A creation that was answered with success is in the table, under the tenant
\* its domain is registered for; so is the account a token speaks for.
AnsweredAccountsStand ==
  /\ \A x \in users : Registry[DomainOf[x.email]] = x.tenant
  /\ \A r \in Requests : req[r].pc = "ok" =>
       CASE req[r].kind = "register" -> Row(r) \in users
         [] req[r].kind = "mint" -> TRUE
         [] OTHER -> \E x \in users : ClaimsOf(x) = req[r].claims

\* A company login that the provider and the registry accept fails only when
\* the database does, or when the same person's account was being made by
\* another request at the same time.
SsoFailsOnlyInRace ==
  \A r \in Requests : req[r].kind = "sso" /\ req[r].pc = "failed" =>
    \/ req[r].hit
    \/ \E q \in met[r] : req[q].kind \in {"register", "sso"} /\ req[q].form.email = req[r].form.email

\* Provisioning replaces the key of a tenant at once: a request that arrives
\* later gets no token with an older key.
OldKeyMintsNothing ==
  \A r \in Requests : req[r].kind = "mint" /\ req[r].pc = "ok" => req[r].form.key >= req[r].asof

\* A process that confirmed a logout does not accept the token again before it
\* restarts; another process does, and so does this one after a restart.
LogoutHolds == ~broken

-----------------------------------------------------------------------------
(* The inductive invariants behind these properties.                       *)

\* Who is past the checks has a tenant, the one its domain is registered for.
Vetted ==
  \A r \in Requests :
    req[r].pc \in {"name", "customer", "insert", "inserted"} \cup SsoLocal =>
      Row(r).tenant \in Tenants /\ Registry[DomainOf[req[r].form.email]] = Row(r).tenant

\* A row is what its request asked for; that request is over.
RowsStand ==
  \A x \in users :
    /\ x = Row(x.by) /\ Registry[DomainOf[x.email]] = x.tenant
    /\ req[x.by].kind \in {"register", "sso"} /\ req[x.by].pc \in {"ok", "failed"}

\* Requests under way know of each other.
Overlapping == \A r, q \in UnderWay : q # r => q \in met[r]

\* Who found no account of the customer has met whoever made one since.
NoSecond ==
  \A r \in Requests : req[r].pc \in {"insert", "inserted"} =>
    \A x \in users :
      x.provider = "local" /\ x.tenant = req[r].form.tenant /\ x.customer = req[r].form.customer
        => x.by \in met[r] /\ r \in met[x.by]

\* The same of a first SSO login and the address.
NoAddress ==
  \A r \in Requests : req[r].pc \in {"ssoinsert", "ssoinserted"} =>
    \A x \in users : x.email = req[r].form.email => x.by \in met[r]

\* All rows of a tenant hold its newest key, and nobody expects a newer one.
KeysAgree ==
  /\ \A t \in Tenants : \A d \in RowsOf(t) : keys[d] = issued[t]
  /\ \A r \in Requests : req[r].pc = "mint" => req[r].asof <= issued[req[r].form.tenant]

\* A confirmed logout is remembered by the process while the token lasts.
LogoutSeen ==
  /\ \A o \in out : o[3] <= epoch[o[2]]
  /\ \A t \in Requests, p \in Processes :
       <<t, p, epoch[p]>> \in out => t \in expired \/ t \in revoked[p]
=============================================================================
