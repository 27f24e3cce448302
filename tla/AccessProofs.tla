----------------------------- MODULE AccessProofs -----------------------------
(***************************************************************************)
(* Theorems about Access, for any requests, processes, forms and registry. *)
(***************************************************************************)
EXTENDS Access, TLAPS

\* The records a request can be.
Kinds == {"", "register", "login", "sso", "mint"}
MintForm == [tenant : Tenants, customer : Customers, key : Nat]
LoginForm == [name : Username]
SsoForm == [email : Emails]
Form == Forms \cup LoginForm \cup SsoForm \cup MintForm \cup {""}
Claims == [sub : Requests \cup {"", "ext"}, tenant : Tenants \cup {NoTenant},
           customer : Customers \cup Emails \cup {""}]
States == Ended \cup UnderWayStates \cup {"idle"}
Request ==
  [pc : States, kind : Kinds, proc : Processes \cup {""}, form : Form,
   claims : Claims, asof : Nat, hit : BOOLEAN]

\* What a step that takes r to l leaves of the requests.
Moved(r, l) ==
  /\ req' \in [Requests -> Request]
  /\ req'[r].pc = l /\ req'[r].kind = req[r].kind /\ req'[r].form = req[r].form
  /\ req'[r].proc = req[r].proc /\ req'[r].asof = req[r].asof
  /\ \A q \in Requests \ {r} : req'[q] = req[q]

LEMMA RecordUpdates ==
  ASSUME NEW x \in Request, NEW l \in States, NEW c \in Claims
  PROVE  /\ [x EXCEPT !.pc = l] \in Request
         /\ [x EXCEPT !.pc = l, !.claims = c] \in Request
         /\ [x EXCEPT !.pc = l, !.hit = TRUE] \in Request
<1>1. [x EXCEPT !.pc = l] \in Request
  BY DEF Request
<1>2. [x EXCEPT !.pc = l, !.claims = c] \in Request
  BY DEF Request
<1>3. [x EXCEPT !.pc = l, !.hit = TRUE] \in Request
  BY DEF Request
<1> QED
  BY <1>1, <1>2, <1>3

LEMMA GoesMoves ==
  ASSUME req \in [Requests -> Request], NEW r \in Requests, NEW l \in States, Goes(r, l)
  PROVE  Moved(r, l) /\ req'[r].claims = req[r].claims /\ req'[r].hit = req[r].hit
         /\ UNCHANGED <<users, keys, expired, revoked, history>>
<1>0. req[r] \in Request /\ req[r].claims \in Claims
  BY DEF Request
<1>1. [req[r] EXCEPT !.pc = l] \in Request
  BY <1>0, RecordUpdates
<1>2. req' = [req EXCEPT ![r] = [req[r] EXCEPT !.pc = l]]
  BY DEF Goes
<1>3. req' \in [Requests -> Request]
  BY <1>1, <1>2
<1>4. /\ req'[r].pc = l /\ req'[r].kind = req[r].kind /\ req'[r].form = req[r].form
      /\ req'[r].proc = req[r].proc /\ req'[r].asof = req[r].asof
      /\ req'[r].claims = req[r].claims /\ req'[r].hit = req[r].hit
  BY <1>2 DEF Request
<1>5. \A q \in Requests \ {r} : req'[q] = req[q]
  BY <1>2
<1> QED
  BY <1>3, <1>4, <1>5 DEF Moved, Goes

LEMMA TokenMoves ==
  ASSUME req \in [Requests -> Request], NEW r \in Requests, NEW c \in Claims, GetsToken(r, c)
  PROVE  Moved(r, "ok") /\ req'[r].claims = c /\ req'[r].hit = req[r].hit
         /\ UNCHANGED <<keys, expired, revoked, history>>
<1>0. "ok" \in States
  BY DEF States, Ended
<1>1. [req[r] EXCEPT !.pc = "ok", !.claims = c] \in Request
  BY <1>0, RecordUpdates
<1>2. req' = [req EXCEPT ![r] = [req[r] EXCEPT !.pc = "ok", !.claims = c]]
  BY DEF GetsToken
<1>3. req' \in [Requests -> Request]
  BY <1>1, <1>2
<1>4. /\ req'[r].pc = "ok" /\ req'[r].kind = req[r].kind /\ req'[r].form = req[r].form
      /\ req'[r].proc = req[r].proc /\ req'[r].asof = req[r].asof
      /\ req'[r].claims = c /\ req'[r].hit = req[r].hit
  BY <1>2 DEF Request
<1>5. \A q \in Requests \ {r} : req'[q] = req[q]
  BY <1>2
<1> QED
  BY <1>3, <1>4, <1>5 DEF Moved, GetsToken

-----------------------------------------------------------------------------
(* Where requests are, by their kind.                                      *)

PcsOf(k) ==
  CASE k = ""         -> {"idle"}
    [] k = "register" -> {"tenant", "name", "customer", "insert", "inserted"} \cup Ended
    [] k = "login"    -> {"login"} \cup Ended
    [] k = "sso"      -> {"callback"} \cup SsoLocal \cup Ended
    [] k = "mint"     -> {"mint"} \cup Ended
FormsOf(k) ==
  CASE k = ""         -> {""}
    [] k = "register" -> Forms
    [] k = "login"    -> LoginForm
    [] k = "sso"      -> SsoForm
    [] k = "mint"     -> MintForm

Shape ==
  /\ req \in [Requests -> Request]
  /\ \A r \in Requests : req[r].pc \in PcsOf(req[r].kind) /\ req[r].form \in FormsOf(req[r].kind)

Unmoved == UNCHANGED <<keys, expired, revoked, history>>

\* The parts of a row, of a form and of claims.
LEMMA Parts ==
  ASSUME TypeOK, Shape
  PROVE  /\ \A x \in users : ClaimsOf(x) \in Claims /\ x.by \in Requests
         /\ \A r \in Requests :
              /\ req[r] \in Request
              /\ req[r].kind = "register" => req[r].form \in Forms
              /\ req[r].kind = "sso" => req[r].form \in SsoForm
              /\ req[r].kind = "mint" => req[r].form \in MintForm
         /\ NoClaims \in Claims
<1>1. ASSUME NEW x \in users PROVE ClaimsOf(x) \in Claims /\ x.by \in Requests
  BY DEF TypeOK, User, ClaimsOf, Claims
<1>2. ASSUME NEW r \in Requests
      PROVE  /\ req[r] \in Request
             /\ req[r].kind = "register" => req[r].form \in Forms
             /\ req[r].kind = "sso" => req[r].form \in SsoForm
             /\ req[r].kind = "mint" => req[r].form \in MintForm
  BY DEF Shape, FormsOf
<1>3. NoClaims \in Claims
  BY DEF NoClaims, Claims
<1> QED
  BY <1>1, <1>2, <1>3

\* What the kind of a request is at each state.
LEMMA KindAt ==
  ASSUME Shape, NEW r \in Requests
  PROVE  /\ req[r].pc \in {"tenant", "name", "customer", "insert", "inserted"}
              => req[r].kind = "register"
         /\ req[r].pc \in {"callback", "find", "ssoinsert", "ssoinserted"} => req[r].kind = "sso"
         /\ req[r].pc = "login" => req[r].kind = "login"
         /\ req[r].pc = "mint" => req[r].kind = "mint"
         /\ req[r].pc = "idle" <=> req[r].kind = ""
<1>1. req[r].kind \in Kinds /\ req[r].pc \in PcsOf(req[r].kind)
  BY DEF Shape, Request
<1> QED
  BY <1>1 DEF Kinds, PcsOf, Ended, SsoLocal

LEMMA EndedPcs ==
  ASSUME Shape, NEW r \in Requests, req[r].pc # "idle"
  PROVE  Ended \subseteq PcsOf(req[r].kind) /\ Ended \subseteq States
<1>1. req[r].kind \in Kinds \ {""}
  BY KindAt DEF Shape, Request
<1> QED
  BY <1>1 DEF Kinds, PcsOf, States

LEMMA MakeUser ==
  ASSUME NEW n \in Username, NEW e \in Emails, NEW p \in {"local", "sso"},
         NEW t \in Tenants, NEW c \in Customers \cup Emails, NEW b \in Requests, NEW x,
         x = [name |-> n, email |-> e, provider |-> p, tenant |-> t, customer |-> c, by |-> b]
  PROVE  x \in User /\ ClaimsOf(x) \in Claims /\ x.by = b
<1>1. x \in User
  BY DEF User
<1>2. x.by = b /\ x.tenant = t /\ x.customer = c
  OBVIOUS
<1>3. ClaimsOf(x) = [sub |-> b, tenant |-> t, customer |-> c]
  BY <1>2 DEF ClaimsOf
<1>4. [sub |-> b, tenant |-> t, customer |-> c] \in Claims
  BY DEF Claims
<1> QED
  BY <1>1, <1>2, <1>3, <1>4, Zenon

\* A row that is about to be inserted.
LEMMA RowType ==
  ASSUME TypeOK, Shape, Vetted, NEW r \in Requests,
         req[r].pc \in {"insert", "inserted", "ssoinsert", "ssoinserted"}
  PROVE  Row(r) \in User /\ ClaimsOf(Row(r)) \in Claims /\ Row(r).by = r
<1>0. Row(r).tenant \in Tenants
  BY DEF Vetted, SsoLocal
<1>1. CASE req[r].kind = "register"
  <2>1. req[r].form \in [name : Usernames, email : Emails, tenant : Tenants, customer : Customers]
    BY <1>1, Parts, ConstantsAssumption
  <2>2. /\ req[r].form.name \in Username /\ req[r].form.email \in Emails
        /\ req[r].form.tenant \in Tenants /\ req[r].form.customer \in Customers \cup Emails
    BY <2>1 DEF Username
  <2>3. Row(r) = [name |-> req[r].form.name, email |-> req[r].form.email, provider |-> "local",
                  tenant |-> req[r].form.tenant, customer |-> req[r].form.customer, by |-> r]
    BY <1>1 DEF Row
  <2> QED
    BY <2>2, <2>3, MakeUser
<1>2. CASE req[r].kind = "sso"
  <2>1. req[r].form \in [email : Emails]
    BY <1>2, Parts DEF SsoForm
  <2>2. Row(r) = [name |-> <<"sso", r>>, email |-> req[r].form.email, provider |-> "sso",
                  tenant |-> Registry[DomainOf[req[r].form.email]],
                  customer |-> req[r].form.email, by |-> r]
    BY <1>2 DEF Row
  <2>3. Row(r).tenant = Registry[DomainOf[req[r].form.email]]
    BY <2>2
  <2>4. /\ <<"sso", r>> \in Username /\ req[r].form.email \in Emails
        /\ Registry[DomainOf[req[r].form.email]] \in Tenants
        /\ req[r].form.email \in Customers \cup Emails
    BY <1>0, <2>1, <2>3 DEF Username
  <2> QED
    BY <2>2, <2>4, MakeUser
<1> QED
  BY <1>1, <1>2, KindAt

-----------------------------------------------------------------------------
(* What each step of a handler does.                                       *)

Advance(r, l) ==
  /\ Moved(r, l) /\ Unmoved
  /\ req[r].pc \in UnderWayStates /\ l \in PcsOf(req[r].kind)

LEMMA GoesOn ==
  ASSUME Shape, NEW r \in Requests, NEW l \in States, Goes(r, l),
         req[r].pc \in UnderWayStates, l \in PcsOf(req[r].kind)
  PROVE  Advance(r, l) /\ users' = users
  BY GoesMoves DEF Shape, Advance, Unmoved

LEMMA Registers ==
  ASSUME Shape, NEW r \in Requests,
         req[r].pc \in {"tenant", "name", "customer", "insert", "inserted"},
         NEW l \in {"name", "customer", "insert", "inserted", "refused", "failed"}
  PROVE  /\ req[r].pc \in UnderWayStates /\ l \in PcsOf(req[r].kind) /\ l \in States
         /\ req[r].kind = "register"
  BY KindAt DEF UnderWayStates, PcsOf, States, Ended

LEMMA LogsIn ==
  ASSUME Shape, NEW r \in Requests,
         req[r].pc \in {"callback", "find", "ssoinsert", "ssoinserted"},
         NEW l \in {"find", "ssoinsert", "ssoinserted", "ok", "refused", "failed"}
  PROVE  /\ req[r].pc \in UnderWayStates /\ l \in PcsOf(req[r].kind) /\ l \in States
         /\ req[r].kind = "sso"
  BY KindAt DEF UnderWayStates, PcsOf, States, Ended, SsoLocal

LEMMA CheckTenantMoves ==
  ASSUME Shape, NEW r \in Requests, CheckTenant(r)
  PROVE  /\ users' = users
         /\ \E l \in {"name", "refused"} :
              /\ Advance(r, l)
              /\ l = "name" => Registry[DomainOf[req[r].form.email]] = req[r].form.tenant
<1>1. CASE Goes(r, "refused")
  BY <1>1, Registers, GoesOn DEF CheckTenant
<1>2. CASE ~Goes(r, "refused")
  <2>1. PICK d \in RowsOf(req[r].form.tenant) :
          Goes(r, IF DomainOf[req[r].form.email] = d THEN "name" ELSE "refused")
    BY <1>2 DEF CheckTenant
  <2>2. DomainOf[req[r].form.email] = d /\ Goes(r, "name")
    BY <1>2, <2>1
  <2> QED
    BY <2>1, <2>2, Registers, GoesOn DEF CheckTenant, RowsOf
<1> QED
  BY <1>1, <1>2

LEMMA CheckNameMoves ==
  ASSUME Shape, NEW r \in Requests, CheckName(r)
  PROVE  users' = users /\ \E l \in {"customer", "refused"} : Advance(r, l)
  BY Registers, GoesOn DEF CheckName

LEMMA CheckCustomerMoves ==
  ASSUME Shape, NEW r \in Requests, CheckCustomer(r)
  PROVE  /\ users' = users
         /\ \E l \in {"insert", "refused"} :
              /\ Advance(r, l)
              /\ l = "insert" => \A x \in users : ~ (/\ x.customer = req[r].form.customer
                                                    /\ x.tenant = req[r].form.tenant)
  BY Registers, GoesOn DEF CheckCustomer

LEMMA InsertMoves ==
  ASSUME Shape, NEW r \in Requests, Insert(r)
  PROVE  users' = users /\ \E l \in {"inserted", "refused"} : Advance(r, l)
  BY Registers, GoesOn DEF Insert

LEMMA CommitMoves ==
  ASSUME TypeOK, Shape, NEW r \in Requests, Commit(r)
  PROVE  Advance(r, "ok") /\ users' = users \cup {Row(r)}
<1>1. "ok" \in PcsOf(req[r].kind) /\ req[r].pc \in UnderWayStates
  BY KindAt DEF Commit, PcsOf, Ended, UnderWayStates
<1> QED
  BY <1>1, TokenMoves, Parts DEF Commit, Advance, Unmoved, Shape

LEMMA CallbackMoves ==
  ASSUME Shape, NEW r \in Requests, Callback(r)
  PROVE  /\ users' = users
         /\ \E l \in {"find", "refused"} :
              /\ Advance(r, l)
              /\ l = "find" => Registry[DomainOf[req[r].form.email]] # NoTenant
  BY LogsIn, GoesOn DEF Callback

LEMMA FindUserMoves ==
  ASSUME TypeOK, Shape, NEW r \in Requests, FindUser(r)
  PROVE  /\ users' = users
         /\ \/ /\ Advance(r, "ssoinsert")
               /\ \A x \in users : x.email # req[r].form.email
            \/ /\ Advance(r, "ok")
               /\ \E x \in users : req'[r].claims = ClaimsOf(x)
<1>1. CASE Goes(r, "ssoinsert") /\ \A x \in users : x.email # req[r].form.email
  BY <1>1, LogsIn, GoesOn DEF FindUser
<1>2. CASE \E x \in users : GetsToken(r, ClaimsOf(x)) /\ UNCHANGED users
  <2>1. PICK x \in users : GetsToken(r, ClaimsOf(x)) /\ UNCHANGED users
    BY <1>2
  <2>2. ClaimsOf(x) \in Claims
    BY Parts
  <2> QED
    BY <2>1, <2>2, LogsIn, TokenMoves DEF FindUser, Advance, Unmoved, Shape
<1> QED
  BY <1>1, <1>2 DEF FindUser

LEMMA InsertSsoMoves ==
  ASSUME Shape, NEW r \in Requests, InsertSso(r)
  PROVE  /\ users' = users
         /\ \E l \in {"ssoinserted", "failed"} :
              Advance(r, l) /\ (l = "failed" => \E x \in users : Clash(x, Row(r)))
  BY LogsIn, GoesOn DEF InsertSso

LEMMA CommitSsoMoves ==
  ASSUME TypeOK, Shape, Vetted, NEW r \in Requests, CommitSso(r)
  PROVE  Advance(r, "ok") /\ users' = users \cup {Row(r)} /\ req'[r].claims = ClaimsOf(Row(r))
<1>1. ClaimsOf(Row(r)) \in Claims
  BY RowType DEF CommitSso
<1> QED
  BY <1>1, LogsIn, TokenMoves DEF CommitSso, Advance, Unmoved, Shape

LEMMA LoginMoves ==
  ASSUME TypeOK, Shape, NEW r \in Requests, Login(r)
  PROVE  /\ users' = users
         /\ \E l \in {"ok", "refused", "failed"} :
              Advance(r, l) /\ (l = "ok" => \E x \in users : req'[r].claims = ClaimsOf(x))
<1>1. /\ req[r].pc \in UnderWayStates /\ {"ok", "refused", "failed"} \subseteq PcsOf(req[r].kind)
      /\ {"ok", "refused", "failed"} \subseteq States
  BY KindAt DEF Login, PcsOf, Ended, States, UnderWayStates
<1>2. CASE Goes(r, "refused") \/ Goes(r, "failed")
  BY <1>1, <1>2, GoesOn
<1>3. CASE \E x \in users : GetsToken(r, ClaimsOf(x)) /\ UNCHANGED users
  <2>1. PICK x \in users : GetsToken(r, ClaimsOf(x)) /\ UNCHANGED users
    BY <1>3
  <2>2. ClaimsOf(x) \in Claims
    BY Parts
  <2> QED
    BY <1>1, <2>1, <2>2, TokenMoves DEF Advance, Unmoved, Shape
<1> QED
  BY <1>2, <1>3 DEF Login

LEMMA MintMoves ==
  ASSUME Shape, NEW r \in Requests, Mint(r)
  PROVE  /\ users' = users
         /\ \E l \in {"ok", "refused"} :
              /\ Advance(r, l)
              /\ l = "ok" => \E d \in RowsOf(req[r].form.tenant) : keys[d] = req[r].form.key
<1>1. /\ req[r].pc \in UnderWayStates /\ {"ok", "refused"} \subseteq PcsOf(req[r].kind)
      /\ {"ok", "refused"} \subseteq States /\ req[r].kind = "mint"
  BY KindAt DEF Mint, PcsOf, Ended, States, UnderWayStates
<1>2. PICK d \in RowsOf(req[r].form.tenant) :
        IF keys[d] = req[r].form.key
        THEN /\ GetsToken(r, [sub |-> "ext", tenant |-> req[r].form.tenant,
                              customer |-> req[r].form.customer])
             /\ UNCHANGED users
        ELSE Goes(r, "refused")
  BY DEF Mint
<1>3. CASE keys[d] = req[r].form.key
  <2>1. req[r].form \in MintForm
    BY <1>1 DEF Shape, FormsOf
  <2>2. req[r].form.tenant \in Tenants /\ req[r].form.customer \in Customers
    BY <2>1 DEF MintForm
  <2>3. [sub |-> "ext", tenant |-> req[r].form.tenant, customer |-> req[r].form.customer] \in Claims
    BY <2>2 DEF Claims
  <2> QED
    BY <1>1, <1>2, <1>3, <2>3, TokenMoves DEF Advance, Unmoved, Shape
<1>4. CASE keys[d] # req[r].form.key
  BY <1>1, <1>2, <1>4, GoesOn
<1> QED
  BY <1>3, <1>4

LEMMA DbFailsMoves ==
  ASSUME Shape, NEW r \in Requests, DbFails(r)
  PROVE  /\ Advance(r, "failed") /\ req'[r].hit = TRUE
         /\ \/ users' = users
            \/ req[r].pc \in {"inserted", "ssoinserted"} /\ users' = users \cup {Row(r)}
<1>1. req[r].pc \in UnderWayStates /\ "failed" \in Ended /\ req[r].pc # "idle"
  BY DEF DbFails, UnderWayStates, SsoLocal, Ended
<1>2. "failed" \in PcsOf(req[r].kind) /\ "failed" \in States
  BY <1>1, EndedPcs
<1>3. req[r] \in Request /\ req[r].claims \in Claims
  BY DEF Shape, Request
<1>4. [req[r] EXCEPT !.pc = "failed", !.hit = TRUE] \in Request
  BY <1>2, <1>3, RecordUpdates
<1>5. req' = [req EXCEPT ![r] = [req[r] EXCEPT !.pc = "failed", !.hit = TRUE]]
  BY DEF DbFails, Shape
<1>6. req' \in [Requests -> Request] /\ \A q \in Requests \ {r} : req'[q] = req[q]
  BY <1>4, <1>5 DEF Shape
<1>7. /\ req'[r].pc = "failed" /\ req'[r].kind = req[r].kind /\ req'[r].form = req[r].form
      /\ req'[r].proc = req[r].proc /\ req'[r].asof = req[r].asof /\ req'[r].hit = TRUE
  BY <1>3, <1>5 DEF Shape, Request
<1> QED
  BY <1>1, <1>2, <1>6, <1>7 DEF DbFails, Advance, Moved, Unmoved

\* A request that begins is new to everyone.
Begun(r, k, f, a, l) ==
  /\ req' \in [Requests -> Request] /\ req[r].pc = "idle"
  /\ req'[r].pc = l /\ req'[r].kind = k /\ req'[r].form = f /\ req'[r].asof = a
  /\ \A q \in Requests \ {r} : req'[q] = req[q]
  /\ met' = [q \in Requests |-> IF q = r THEN UnderWay
                                ELSE IF q \in UnderWay THEN met[q] \cup {r} ELSE met[q]]
  /\ UNCHANGED <<users, keys, expired, revoked, issued, epoch, out, broken>>

LEMMA FirstRequest == NoRequest \in Request
<1>1. NoClaims \in Claims
  BY DEF NoClaims, Claims
<1>2. "idle" \in States /\ "" \in Kinds /\ "" \in Form
  BY DEF States, Kinds, Form
<1> QED
  BY <1>1, <1>2 DEF NoRequest, Request

\* What Begin makes of a request.
Fill(x, p, k, f, a, l) ==
  [x EXCEPT !.pc = l, !.kind = k, !.proc = p, !.form = f, !.asof = a]

LEMMA Filled ==
  ASSUME NEW x \in Request, NEW p \in Processes, NEW k \in Kinds, NEW f \in Form,
         NEW a \in Nat, NEW l \in States
  PROVE  /\ Fill(x, p, k, f, a, l) \in Request
         /\ Fill(x, p, k, f, a, l).pc = l /\ Fill(x, p, k, f, a, l).kind = k
         /\ Fill(x, p, k, f, a, l).form = f /\ Fill(x, p, k, f, a, l).asof = a
<1>1. Fill(x, p, k, f, a, l) \in Request
  BY DEF Request, Fill
<1>2. /\ Fill(x, p, k, f, a, l).pc = l /\ Fill(x, p, k, f, a, l).kind = k
      /\ Fill(x, p, k, f, a, l).form = f /\ Fill(x, p, k, f, a, l).asof = a
  BY DEF Request, Fill
<1> QED
  BY <1>1, <1>2

LEMMA BeginMoves ==
  ASSUME Shape, NEW r \in Requests, NEW p \in Processes, NEW k \in Kinds, NEW f \in Form,
         NEW a \in Nat, NEW l \in States, Begin(r, p, k, f, a, l)
  PROVE  Begun(r, k, f, a, l)
<1> DEFINE new == Fill(NoRequest, p, k, f, a, l)
<1>3. new \in Request /\ new.pc = l /\ new.kind = k /\ new.form = f /\ new.asof = a
  BY FirstRequest, Filled
<1>4. req' = [req EXCEPT ![r] = new] /\ req[r].pc = "idle"
  BY DEF Begin, Fill
<1> HIDE DEF new
<1>5. /\ req' \in [Requests -> Request] /\ req'[r] = new
      /\ \A q \in Requests \ {r} : req'[q] = req[q]
  BY <1>3, <1>4 DEF Shape
<1>6. /\ met' = [q \in Requests |-> IF q = r THEN UnderWay
                                ELSE IF q \in UnderWay THEN met[q] \cup {r} ELSE met[q]]
      /\ UNCHANGED <<users, keys, expired, revoked, issued, epoch, out, broken>>
  BY DEF Begin
<1> QED
  BY <1>3, <1>4, <1>5, <1>6 DEF Begun

BeginSome(r, p) == BeginRegister(r, p) \/ BeginLogin(r, p) \/ BeginCallback(r, p) \/ BeginMint(r, p)
First == {"tenant", "login", "callback", "mint", "refused"}

LEMMA Begins ==
  ASSUME TypeOK, Shape, NEW r \in Requests, NEW p \in Processes, BeginSome(r, p)
  PROVE  \E k \in Kinds \ {""} : \E f \in FormsOf(k), a \in Nat, l \in PcsOf(k) \cap First :
           /\ Begun(r, k, f, a, l)
           /\ k = "mint" => a = issued[f.tenant]
<1>0. /\ {"tenant", "refused"} \subseteq PcsOf("register") \cap First
      /\ {"login", "refused"} \subseteq PcsOf("login") \cap First
      /\ "callback" \in PcsOf("sso") \cap First
      /\ {"mint", "refused"} \subseteq PcsOf("mint") \cap First
      /\ First \subseteq States /\ {"register", "login", "sso", "mint"} \subseteq Kinds \ {""}
  BY DEF PcsOf, First, Ended, States, UnderWayStates, Kinds
<1>1. /\ FormsOf("register") = Forms /\ FormsOf("login") = LoginForm
      /\ FormsOf("sso") = SsoForm /\ FormsOf("mint") = MintForm
  BY DEF FormsOf
<1>2. /\ Forms \subseteq Form /\ LoginForm \subseteq Form
      /\ SsoForm \subseteq Form /\ MintForm \subseteq Form
  BY Zenon DEF Form
<1>3. CASE BeginRegister(r, p)
  <2>1. PICK f \in Forms, l \in {"tenant", "refused"} : Begin(r, p, "register", f, 0, l)
    BY <1>3 DEF BeginRegister
  <2>2. Begun(r, "register", f, 0, l)
    BY <1>0, <1>2, <2>1, BeginMoves
  <2> QED
    BY <1>0, <1>1, <2>1, <2>2
<1>4. CASE BeginLogin(r, p)
  <2>1. PICK n \in Usernames \cup {x.name : x \in users}, l \in {"login", "refused"} :
          Begin(r, p, "login", [name |-> n], 0, l)
    BY <1>4 DEF BeginLogin
  <2>2. [name |-> n] \in LoginForm
    BY <2>1 DEF TypeOK, User, Username, LoginForm
  <2>3. Begun(r, "login", [name |-> n], 0, l)
    BY <1>0, <1>2, <2>1, <2>2, BeginMoves
  <2> QED
    BY <1>0, <1>1, <2>1, <2>2, <2>3
<1>5. CASE BeginCallback(r, p)
  <2>1. PICK e \in Emails : Begin(r, p, "sso", [email |-> e], 0, "callback")
    BY <1>5 DEF BeginCallback
  <2>2. [email |-> e] \in SsoForm
    BY DEF SsoForm
  <2>3. Begun(r, "sso", [email |-> e], 0, "callback")
    BY <1>0, <1>2, <2>1, <2>2, BeginMoves
  <2> QED
    BY <1>0, <1>1, <2>2, <2>3
<1>6. CASE BeginMint(r, p)
  <2>0. PICK t \in Tenants, c \in Customers, l \in {"mint", "refused"} :
          \E n \in 1..issued[t] :
            Begin(r, p, "mint", [tenant |-> t, customer |-> c, key |-> n], issued[t], l)
    BY <1>6 DEF BeginMint
  <2>1. PICK n \in 1..issued[t] :
          Begin(r, p, "mint", [tenant |-> t, customer |-> c, key |-> n], issued[t], l)
    BY <2>0
  <2>2. issued[t] \in Nat /\ n \in Nat
    BY <2>1, ConstantsAssumption DEF TypeOK
  <2>3. /\ [tenant |-> t, customer |-> c, key |-> n] \in MintForm
        /\ [tenant |-> t, customer |-> c, key |-> n].tenant = t
    BY <2>2 DEF MintForm
  <2>4. Begun(r, "mint", [tenant |-> t, customer |-> c, key |-> n], issued[t], l)
    BY <1>0, <1>2, <2>1, <2>2, <2>3, BeginMoves
  <2> QED
    BY <1>0, <1>1, <2>1, <2>2, <2>3, <2>4
<1> QED
  BY <1>3, <1>4, <1>5, <1>6 DEF BeginSome

\* A restart ends what was under way.
LEMMA RestartMoves ==
  ASSUME Shape, NEW p \in Processes, Restart(p)
  PROVE  /\ req' \in [Requests -> Request]
         /\ \A r \in Requests :
              /\ req'[r].kind = req[r].kind /\ req'[r].form = req[r].form
              /\ \/ req'[r] = req[r]
                 \/ req[r].pc \in UnderWayStates /\ req'[r].pc = "gone"
         /\ UNCHANGED <<users, keys, expired, issued, met, out, broken>>
<1>1. ASSUME NEW r \in Requests
      PROVE  /\ [req[r] EXCEPT !.pc = "gone"] \in Request
             /\ [req[r] EXCEPT !.pc = "gone"].kind = req[r].kind
             /\ [req[r] EXCEPT !.pc = "gone"].form = req[r].form
             /\ [req[r] EXCEPT !.pc = "gone"].pc = "gone"
  <2>1. req[r] \in Request /\ req[r].claims \in Claims /\ "gone" \in States
    BY DEF Shape, Request, States, Ended
  <2>2. [req[r] EXCEPT !.pc = "gone"] \in Request
    BY <2>1, RecordUpdates
  <2> QED
    BY <2>1, <2>2 DEF Request
<1>2. req' = [r \in Requests |->
               IF r \in UnderWay /\ req[r].proc = p THEN [req[r] EXCEPT !.pc = "gone"] ELSE req[r]]
  BY DEF Restart
<1>3. ASSUME NEW r \in Requests
      PROVE  /\ req'[r] \in Request
             /\ req'[r].kind = req[r].kind /\ req'[r].form = req[r].form
             /\ \/ req'[r] = req[r]
                \/ req[r].pc \in UnderWayStates /\ req'[r].pc = "gone"
  <2>1. CASE r \in UnderWay /\ req[r].proc = p
    BY <1>1, <1>2, <2>1 DEF UnderWay
  <2>2. CASE ~(r \in UnderWay /\ req[r].proc = p)
    <3>1. req'[r] = req[r] /\ req[r] \in Request
      BY <1>2, <2>2 DEF Shape
    <3> QED
      BY <3>1
  <2> QED
    BY <2>1, <2>2
<1>4. req' \in [Requests -> Request]
  BY <1>2, <1>3
<1> QED
  BY <1>3, <1>4 DEF Restart

\* Everything else.
Other ==
  \/ \E t \in Requests : Expire(t)
  \/ \E t \in Tenants : ProvisionKey(t)
  \/ \E t \in Requests, p \in Processes : Logout(t, p) \/ Accept(t, p)
  \/ UNCHANGED vars

LEMMA OtherMoves == Other => UNCHANGED <<users, req, met>>
  BY DEF Other, Expire, ProvisionKey, Logout, Accept, vars, history

LEMMA Steps ==
  ASSUME [Next]_vars
  PROVE  \/ \E r \in Requests, p \in Processes : BeginSome(r, p)
         \/ \E r \in Requests : Handle(r)
         \/ \E p \in Processes : Restart(p)
         \/ Other
  BY DEF Next, BeginSome, Other

\* What all steps of handlers have in common.
LEMMA HandleMoves ==
  ASSUME TypeOK, Shape, Vetted, NEW r \in Requests, Handle(r)
  PROVE  \E l \in States \ {"mint"} :
           /\ Advance(r, l)
           /\ \/ users' = users
              \/ /\ users' = users \cup {Row(r)}
                 /\ req[r].pc \in {"inserted", "ssoinserted"} /\ l \in {"ok", "failed"}
<1>0. {"name", "customer", "insert", "inserted", "find", "ssoinsert", "ssoinserted",
       "ok", "refused", "failed"} \subseteq States \ {"mint"}
  BY DEF States, UnderWayStates, SsoLocal, Ended
<1>1. CASE CheckTenant(r)
  BY <1>0, <1>1, CheckTenantMoves
<1>2. CASE CheckName(r) \/ CheckCustomer(r) \/ Insert(r)
  BY <1>0, <1>2, CheckNameMoves, CheckCustomerMoves, InsertMoves
<1>3. CASE Commit(r)
  <2>1. req[r].pc = "inserted"
    BY <1>3 DEF Commit
  <2> QED
    BY <1>0, <1>3, <2>1, CommitMoves
<1>4. CASE Callback(r)
  BY <1>0, <1>4, CallbackMoves
<1>5. CASE FindUser(r)
  BY <1>0, <1>5, FindUserMoves
<1>6. CASE InsertSso(r)
  BY <1>0, <1>6, InsertSsoMoves
<1>7. CASE CommitSso(r)
  <2>1. req[r].pc = "ssoinserted"
    BY <1>7 DEF CommitSso
  <2> QED
    BY <1>0, <1>7, <2>1, CommitSsoMoves
<1>8. CASE Login(r)
  BY <1>0, <1>8, LoginMoves
<1>9. CASE Mint(r)
  BY <1>0, <1>9, MintMoves
<1>10. CASE DbFails(r)
  BY <1>0, <1>10, DbFailsMoves
<1> QED
  BY <1>1, <1>2, <1>3, <1>4, <1>5, <1>6, <1>7, <1>8, <1>9, <1>10 DEF Handle

\* Nothing that is over changes, and nobody forgets whom it met.
LEMMA Persist ==
  ASSUME TypeOK, Shape, Vetted, [Next]_vars
  PROVE  /\ users \subseteq users'
         /\ \A r \in Requests : req[r].pc # "idle" =>
              /\ req'[r].kind = req[r].kind /\ req'[r].form = req[r].form
              /\ req'[r].pc # "idle" /\ met[r] \subseteq met'[r]
         /\ \A r \in Requests : req[r].pc \in Ended => req'[r] = req[r]
<1>0. UnderWayStates \cap Ended = {} /\ "idle" \notin Ended /\ "idle" \notin UnderWayStates
  BY DEF UnderWayStates, Ended, SsoLocal
<1>1. ASSUME NEW r \in Requests, NEW p \in Processes, BeginSome(r, p)
      PROVE  /\ users' = users
             /\ \A q \in Requests : req[q].pc # "idle" => req'[q] = req[q] /\ met[q] \subseteq met'[q]
  <2>1. \E k, f, a, l : Begun(r, k, f, a, l)
    BY <1>1, Begins
  <2> QED
    BY <2>1 DEF Begun
<1>2. ASSUME NEW r \in Requests, Handle(r)
      PROVE  /\ users \subseteq users' /\ met' = met /\ req[r].pc \in UnderWayStates
             /\ req'[r].kind = req[r].kind /\ req'[r].form = req[r].form /\ req'[r].pc # "idle"
             /\ \A q \in Requests \ {r} : req'[q] = req[q]
  <2>1. PICK l \in States :
           /\ Advance(r, l)
           /\ users' = users \/ users' = users \cup {Row(r)}
    BY <1>2, HandleMoves
  <2>2. l # "idle"
    <3>1. req[r].kind # ""
      BY <2>1, <1>0, KindAt DEF Advance
    <3>2. req[r].kind \in Kinds /\ l \in PcsOf(req[r].kind)
      BY <2>1 DEF Advance, Shape, Request
    <3> QED
      BY <3>1, <3>2 DEF Kinds, PcsOf, Ended, SsoLocal
  <2>3. met' = met
    BY <2>1 DEF Advance, Unmoved, history
  <2> QED
    BY <2>1, <2>2, <2>3 DEF Advance, Moved
<1>3. ASSUME NEW p \in Processes, Restart(p)
      PROVE  /\ users' = users /\ met' = met
             /\ \A r \in Requests :
                  /\ req'[r].kind = req[r].kind /\ req'[r].form = req[r].form
                  /\ req'[r] = req[r] \/ (req[r].pc \in UnderWayStates /\ req'[r].pc = "gone")
  BY <1>3, RestartMoves
<1>4. CASE \E r \in Requests, p \in Processes : BeginSome(r, p)
  BY <1>0, <1>1, <1>4
<1>5. CASE \E r \in Requests : Handle(r)
  BY <1>0, <1>2, <1>5
<1>6. CASE \E p \in Processes : Restart(p)
  BY <1>0, <1>3, <1>6
<1>7. CASE Other
  BY <1>7, OtherMoves
<1> QED
  BY <1>4, <1>5, <1>6, <1>7, Steps

-----------------------------------------------------------------------------
LEMMA ShapeStep ==
  ASSUME TypeOK, Shape, Vetted, [Next]_vars
  PROVE  Shape'
<1>1. ASSUME NEW r \in Requests, NEW p \in Processes, BeginSome(r, p) PROVE Shape'
  <2>1. PICK k \in Kinds \ {""} : \E f \in FormsOf(k), a \in Nat, l \in PcsOf(k) : Begun(r, k, f, a, l)
    BY <1>1, Begins
  <2>2. PICK f \in FormsOf(k), a \in Nat, l \in PcsOf(k) : Begun(r, k, f, a, l)
    BY <2>1
  <2> QED
    BY <2>2 DEF Begun, Shape
<1>2. ASSUME NEW r \in Requests, Handle(r) PROVE Shape'
  <2>1. PICK l : Advance(r, l)
    BY <1>2, HandleMoves
  <2> QED
    BY <2>1 DEF Advance, Moved, Shape
<1>3. ASSUME NEW p \in Processes, Restart(p) PROVE Shape'
  <2>1. \A r \in Requests : req[r].pc \in UnderWayStates => "gone" \in PcsOf(req[r].kind)
    BY EndedPcs DEF UnderWayStates, Ended, SsoLocal
  <2> QED
    BY <1>3, <2>1, RestartMoves DEF Shape
<1>4. CASE Other
  BY <1>4, OtherMoves DEF Shape
<1> QED
  BY <1>1, <1>2, <1>3, <1>4, Steps

LEMMA TypeStep ==
  ASSUME TypeOK, Shape, Vetted, [Next]_vars
  PROVE  TypeOK'
<1>1. \A r \in Requests : req'[r].pc \in Ended \cup UnderWayStates \cup {"idle"}
  BY ShapeStep DEF Shape, Request, States
<1>2. Tokens \subseteq Tokens'
  <2>1. "ok" \in Ended
    BY DEF Ended
  <2> QED
    BY <2>1, Persist DEF Tokens
<1>3. users' \subseteq User
  <2>1. CASE users' = users
    BY <2>1 DEF TypeOK
  <2>2. CASE \E r \in Requests : Handle(r) /\ users' # users
    <3>1. PICK r \in Requests : Handle(r) /\ users' # users
      BY <2>2
    <3>2. req[r].pc \in {"inserted", "ssoinserted"} /\ users' = users \cup {Row(r)}
      BY <3>1, HandleMoves
    <3> QED
      BY <3>2, RowType DEF TypeOK
  <2> QED
    <3>1. (\E r \in Requests, p \in Processes : BeginSome(r, p)) => users' = users
      BY Begins DEF Begun
    <3>2. (\E p \in Processes : Restart(p)) => users' = users
      BY DEF Restart
    <3> QED
      BY <2>1, <2>2, <3>1, <3>2, OtherMoves, Steps
<1> DEFINE Rest ==
      /\ keys' \in [Domains -> 0..MaxKeys] /\ issued' \in [Tenants -> 0..MaxKeys]
      /\ expired' \subseteq Tokens' /\ revoked' \in [Processes -> SUBSET Tokens']
      /\ epoch' \in [Processes -> 0..MaxRestarts] /\ met' \in [Requests -> SUBSET Requests]
      /\ out' \subseteq Requests \X Processes \X (0..MaxRestarts) /\ broken' \in BOOLEAN
<1>4. /\ keys \in [Domains -> 0..MaxKeys] /\ issued \in [Tenants -> 0..MaxKeys]
      /\ expired \subseteq Tokens' /\ revoked \in [Processes -> SUBSET Tokens']
      /\ epoch \in [Processes -> 0..MaxRestarts] /\ met \in [Requests -> SUBSET Requests]
      /\ out \subseteq Requests \X Processes \X (0..MaxRestarts) /\ broken \in BOOLEAN
  BY <1>2 DEF TypeOK
<1>5. ASSUME NEW r \in Requests, NEW p \in Processes, BeginSome(r, p) PROVE Rest
  <2>1. PICK k, f, a, l : Begun(r, k, f, a, l)
    BY <1>5, Begins
  <2>2. met' \in [Requests -> SUBSET Requests]
    <3>1. UnderWay \subseteq Requests
      BY DEF UnderWay
    <3> QED
      BY <1>4, <2>1, <3>1 DEF Begun
  <2> QED
    BY <1>4, <2>1, <2>2 DEF Begun
<1>6. ASSUME NEW r \in Requests, Handle(r) PROVE Rest
  <2>1. PICK l : Advance(r, l)
    BY <1>6, HandleMoves
  <2>2. UNCHANGED <<keys, expired, revoked, issued, epoch, met, out, broken>>
    BY <2>1 DEF Advance, Unmoved, history
  <2> QED
    BY <1>4, <2>2
<1>7. ASSUME NEW p \in Processes, Restart(p) PROVE Rest
  <2>1. /\ epoch' = [epoch EXCEPT ![p] = epoch[p] + 1] /\ epoch[p] < MaxRestarts
        /\ revoked' = [revoked EXCEPT ![p] = {}]
        /\ UNCHANGED <<keys, expired, issued, met, out, broken>>
    BY <1>7 DEF Restart
  <2>2. epoch[p] \in 0..MaxRestarts /\ MaxRestarts \in Nat
    BY <1>4, ConstantsAssumption
  <2>3. epoch[p] + 1 \in 0..MaxRestarts
    BY <2>1, <2>2
  <2>4. epoch' \in [Processes -> 0..MaxRestarts]
    BY <1>4, <2>1, <2>3
  <2>5. revoked' \in [Processes -> SUBSET Tokens']
    BY <1>4, <2>1
  <2> QED
    BY <1>4, <2>1, <2>4, <2>5
<1>8. ASSUME Other PROVE Rest
  <2>1. ASSUME NEW t \in Requests, Expire(t) PROVE Rest
    <3>1. /\ expired' = expired \cup {t} /\ t \in Tokens
          /\ UNCHANGED <<keys, revoked, issued, epoch, met, out, broken>>
      BY <2>1 DEF Expire, history
    <3> QED
      BY <1>2, <1>4, <3>1
  <2>2. ASSUME NEW t \in Tenants, ProvisionKey(t) PROVE Rest
    <3>1. /\ keys' = [d \in Domains |-> IF d \in RowsOf(t) THEN issued[t] + 1 ELSE keys[d]]
          /\ issued' = [issued EXCEPT ![t] = issued[t] + 1] /\ issued[t] < MaxKeys
          /\ UNCHANGED <<expired, revoked, epoch, met, out, broken>>
      BY <2>2 DEF ProvisionKey
    <3>2. issued[t] \in 0..MaxKeys /\ MaxKeys \in Nat
      BY <1>4, ConstantsAssumption
    <3>3. issued[t] + 1 \in 0..MaxKeys
      BY <3>1, <3>2
    <3>4. issued' \in [Tenants -> 0..MaxKeys]
      BY <1>4, <3>1, <3>3
    <3>5. keys' \in [Domains -> 0..MaxKeys]
      BY <1>4, <3>1, <3>3
    <3> QED
      BY <1>4, <3>1, <3>4, <3>5
  <2>3. ASSUME NEW t \in Requests, NEW p \in Processes, Logout(t, p) PROVE Rest
    <3>1. /\ revoked' = [revoked EXCEPT ![p] = IF t \in expired THEN revoked[p] ELSE revoked[p] \cup {t}]
          /\ out' = out \cup {<<t, p, epoch[p]>>} /\ t \in Tokens
          /\ UNCHANGED <<keys, expired, issued, epoch, met, broken>>
      BY <2>3 DEF Logout
    <3>2. revoked' \in [Processes -> SUBSET Tokens']
      <4>1. revoked[p] \subseteq Tokens' /\ revoked[p] \cup {t} \subseteq Tokens'
        BY <1>2, <1>4, <3>1
      <4> QED
        BY <1>4, <3>1, <4>1
    <3>3. out' \subseteq Requests \X Processes \X (0..MaxRestarts)
      BY <1>4, <3>1
    <3> QED
      BY <1>4, <3>1, <3>2, <3>3
  <2>4. ASSUME NEW t \in Requests, NEW p \in Processes, Accept(t, p) PROVE Rest
    <3>1. /\ broken' = (broken \/ <<t, p, epoch[p]>> \in out)
          /\ UNCHANGED <<keys, expired, revoked, issued, epoch, met, out>>
      BY <2>4 DEF Accept
    <3>2. broken' \in BOOLEAN
      BY <3>1
    <3> QED
      BY <1>4, <3>1, <3>2
  <2>5. ASSUME UNCHANGED vars PROVE Rest
    <3>1. UNCHANGED <<keys, expired, revoked, issued, epoch, met, out, broken>>
      BY <2>5 DEF vars, history
    <3> QED
      BY <1>4, <3>1
  <2> HIDE DEF Rest
  <2> QED
    BY <1>8, <2>1, <2>2, <2>3, <2>4, <2>5 DEF Other
<1> HIDE DEF Rest
<1>9. Rest
  BY <1>5, <1>6, <1>7, <1>8, Steps
<1> USE DEF Rest
<1> QED
  BY <1>1, <1>3, <1>9 DEF TypeOK

-----------------------------------------------------------------------------
(* One fact per invariant: a step keeps it, given those before it.         *)

LEMMA SameRow ==
  ASSUME NEW r \in Requests, req'[r].kind = req[r].kind, req'[r].form = req[r].form
  PROVE  Row(r)' = Row(r)
  BY DEF Row

LEMMA VettedStep ==
  ASSUME TypeOK, Shape, Vetted, [Next]_vars
  PROVE  Vetted'
<1> DEFINE V == {"name", "customer", "insert", "inserted"} \cup SsoLocal
           Good(r) == req[r].pc \in V =>
             Row(r).tenant \in Tenants /\ Registry[DomainOf[req[r].form.email]] = Row(r).tenant
<1>0. SsoLocal = {"find", "ssoinsert", "ssoinserted"} /\ V \cap (Ended \cup First) = {}
  BY DEF SsoLocal, Ended, First
<1>1. ASSUME NEW q \in Requests, req'[q] = req[q] PROVE Good(q)'
  BY <1>1, SameRow DEF Vetted
<1>2. ASSUME NEW r \in Requests, NEW p \in Processes, BeginSome(r, p) PROVE \A q \in Requests : Good(q)'
  <2>1. \E k, f, a : \E l \in First : Begun(r, k, f, a, l)
    BY <1>2, Begins
  <2> QED
    BY <1>0, <1>1, <2>1 DEF Begun
<1>3. ASSUME NEW r \in Requests, Handle(r) PROVE \A q \in Requests : Good(q)'
  <2>1. PICK l : Advance(r, l)
    BY <1>3, HandleMoves
  <2>2. \A q \in Requests \ {r} : Good(q)'
    BY <1>1, <2>1 DEF Advance, Moved
  <2>3. /\ req'[r].kind = req[r].kind /\ req'[r].form = req[r].form /\ req'[r].pc = l
        /\ Row(r)' = Row(r)
    BY <2>1, SameRow DEF Advance, Moved
  <2>4. CASE req[r].pc \in V
    BY <2>2, <2>3, <2>4 DEF Vetted
  <2>5. CASE CheckTenant(r)
    <3>1. l \in V => Registry[DomainOf[req[r].form.email]] = req[r].form.tenant
      BY <1>0, <2>3, <2>5, CheckTenantMoves DEF Advance, Moved, Ended
    <3>2. req[r].kind = "register"
      BY <2>5, KindAt DEF CheckTenant
    <3>3. req[r].form.tenant \in Tenants
      BY <3>2, Parts, ConstantsAssumption
    <3>4. Row(r).tenant = req[r].form.tenant
      BY <3>2 DEF Row
    <3> QED
      BY <2>2, <2>3, <3>1, <3>3, <3>4
  <2>6. CASE Callback(r)
    <3>1. l \in V => Registry[DomainOf[req[r].form.email]] # NoTenant
      BY <1>0, <2>3, <2>6, CallbackMoves DEF Advance, Moved, Ended
    <3>2. req[r].kind = "sso"
      BY <2>6, KindAt DEF Callback
    <3>3. req[r].form.email \in Emails
      BY <3>2, Parts DEF SsoForm
    <3>4. Row(r).tenant = Registry[DomainOf[req[r].form.email]]
      BY <3>2 DEF Row
    <3> QED
      BY <2>2, <2>3, <3>1, <3>3, <3>4, ConstantsAssumption
  <2>7. CASE Login(r) \/ Mint(r) \/ DbFails(r)
    <3>1. l \in Ended
      BY <2>3, <2>7, LoginMoves, MintMoves, DbFailsMoves DEF Advance, Moved, Ended
    <3> QED
      BY <1>0, <2>2, <2>3, <3>1
  <2> QED
    BY <1>0, <1>3, <2>4, <2>5, <2>6, <2>7
       DEF Handle, CheckName, CheckCustomer, Insert, Commit, FindUser, InsertSso, CommitSso
<1>4. ASSUME NEW p \in Processes, Restart(p) PROVE \A q \in Requests : Good(q)'
  <2>1. ASSUME NEW q \in Requests, req'[q].pc = "gone" PROVE Good(q)'
    BY <1>0, <2>1 DEF Ended
  <2> QED
    BY <1>1, <1>4, <2>1, RestartMoves
<1>5. ASSUME Other PROVE \A q \in Requests : Good(q)'
  BY <1>1, <1>5, OtherMoves
<1>6. \A q \in Requests : Good(q)'
  BY <1>2, <1>3, <1>4, <1>5, Steps
<1> QED
  BY <1>6 DEF Vetted

\* How the table grows.
LEMMA Growth ==
  ASSUME TypeOK, Shape, Vetted, [Next]_vars
  PROVE  \/ users' = users
         \/ \E r \in Requests :
              /\ req[r].pc \in {"inserted", "ssoinserted"} /\ req'[r].pc \in {"ok", "failed"}
              /\ req'[r].kind = req[r].kind /\ req'[r].form = req[r].form
              /\ \A q \in Requests \ {r} : req'[q] = req[q]
              /\ users' = users \cup {Row(r)} /\ met' = met
<1>1. ASSUME NEW r \in Requests, NEW p \in Processes, BeginSome(r, p) PROVE users' = users
  BY <1>1, Begins DEF Begun
<1>2. ASSUME NEW r \in Requests, Handle(r), users' # users
      PROVE  /\ req[r].pc \in {"inserted", "ssoinserted"} /\ req'[r].pc \in {"ok", "failed"}
             /\ req'[r].kind = req[r].kind /\ req'[r].form = req[r].form
             /\ \A q \in Requests \ {r} : req'[q] = req[q]
             /\ users' = users \cup {Row(r)} /\ met' = met
  <2>1. PICK l \in {"ok", "failed"} :
          /\ Advance(r, l)
          /\ users' = users \cup {Row(r)} /\ req[r].pc \in {"inserted", "ssoinserted"}
    BY <1>2, HandleMoves
  <2>2. met' = met
    BY <2>1 DEF Advance, Unmoved, history
  <2> QED
    BY <2>1, <2>2 DEF Advance, Moved
<1>3. ASSUME NEW p \in Processes, Restart(p) PROVE users' = users
  BY <1>3 DEF Restart
<1> QED
  BY <1>1, <1>2, <1>3, OtherMoves, Steps

LEMMA RowsStandStep ==
  ASSUME TypeOK, Shape, Vetted, RowsStand, [Next]_vars
  PROVE  RowsStand'
<1> DEFINE Good(x) == /\ x = Row(x.by) /\ Registry[DomainOf[x.email]] = x.tenant
                      /\ req[x.by].kind \in {"register", "sso"} /\ req[x.by].pc \in {"ok", "failed"}
<1>1. ASSUME NEW x \in users PROVE Good(x)'
  <2>1. Good(x) /\ x.by \in Requests
    BY Parts DEF RowsStand
  <2>2. req'[x.by] = req[x.by]
    BY <2>1, Persist DEF Ended
  <2>3. Row(x.by)' = Row(x.by)
    BY <2>1, <2>2, SameRow
  <2> QED
    BY <2>1, <2>2, <2>3
<1>2. ASSUME NEW r \in Requests, NEW x, x = Row(r),
             req[r].pc \in {"inserted", "ssoinserted"}, req'[r].pc \in {"ok", "failed"},
             req'[r].kind = req[r].kind, req'[r].form = req[r].form
      PROVE  Good(x)'
  <2>1. Row(r).by = r /\ Row(r)' = Row(r)
    BY <1>2, RowType, SameRow
  <2>2. Row(r).email = req[r].form.email /\ req[r].kind \in {"register", "sso"}
    BY <1>2, KindAt DEF Row
  <2>3. Registry[DomainOf[req[r].form.email]] = Row(r).tenant
    BY <1>2 DEF Vetted, SsoLocal
  <2> QED
    BY <1>2, <2>1, <2>2, <2>3
<1> HIDE DEF Good
<1>3. \A x \in users' : Good(x)'
  BY <1>1, <1>2, Growth
<1> USE DEF Good
<1> QED
  BY <1>3 DEF RowsStand

LEMMA OverlappingStep ==
  ASSUME TypeOK, Shape, Vetted, Overlapping, [Next]_vars
  PROVE  Overlapping'
<1>0. UnderWayStates \cap Ended = {} /\ "idle" \notin UnderWayStates
  BY DEF UnderWayStates, Ended, SsoLocal
<1>1. ASSUME NEW r \in Requests, NEW p \in Processes, BeginSome(r, p) PROVE Overlapping'
  <2>1. PICK k, f, a, l : Begun(r, k, f, a, l)
    BY <1>1, Begins
  <2>2. UnderWay' \subseteq UnderWay \cup {r} /\ r \notin UnderWay
    BY <1>0, <2>1 DEF Begun, UnderWay
  <2>3. ASSUME NEW a1 \in UnderWay', NEW a2 \in UnderWay', a1 # a2 PROVE a2 \in met'[a1]
    <3>1. a1 \in Requests
      BY DEF UnderWay
    <3>2. CASE a1 = r
      <4>1. met'[a1] = UnderWay
        BY <2>1, <3>2 DEF Begun
      <4> QED
        BY <2>2, <2>3, <3>2, <4>1
    <3>3. CASE a1 # r
      <4>1. met'[a1] = met[a1] \cup {r} /\ a1 \in UnderWay
        BY <2>1, <2>2, <3>1, <3>3 DEF Begun
      <4> QED
        BY <2>2, <2>3, <4>1 DEF Overlapping
    <3> QED
      BY <3>2, <3>3
  <2> QED
    BY <2>3 DEF Overlapping
<1>2. ASSUME UnderWay' \subseteq UnderWay, met' = met PROVE Overlapping'
  BY <1>2 DEF Overlapping
<1>3. ASSUME NEW r \in Requests, Handle(r) PROVE UnderWay' \subseteq UnderWay /\ met' = met
  <2>1. PICK l : Advance(r, l)
    BY <1>3, HandleMoves
  <2>2. met' = met
    BY <2>1 DEF Advance, Unmoved, history
  <2> QED
    BY <2>1, <2>2 DEF Advance, Moved, UnderWay
<1>4. ASSUME NEW p \in Processes, Restart(p) PROVE UnderWay' \subseteq UnderWay /\ met' = met
  BY <1>0, <1>4, RestartMoves DEF UnderWay
<1>5. ASSUME Other PROVE UnderWay' \subseteq UnderWay /\ met' = met
  BY <1>5, OtherMoves DEF UnderWay
<1> QED
  BY <1>1, <1>2, <1>3, <1>4, <1>5, Steps

Registering == {"insert", "inserted"}
Joining == {"ssoinsert", "ssoinserted"}

\* Who comes to an INSERT has just looked, and found nobody.
LEMMA Enter ==
  ASSUME TypeOK, Shape, Vetted, [Next]_vars, NEW r \in Requests,
         req'[r].pc \in Registering \cup Joining
  PROVE  /\ req[r].pc # "idle" /\ req'[r].form = req[r].form
         /\ req'[r].pc \in Registering /\ req[r].pc \notin Registering =>
              /\ users' = users
              /\ \A x \in users : ~ (/\ x.customer = req[r].form.customer
                                    /\ x.tenant = req[r].form.tenant)
         /\ req'[r].pc \in Joining /\ req[r].pc \notin Joining =>
              /\ users' = users
              /\ \A x \in users : x.email # req[r].form.email
<1>0. (Registering \cup Joining) \cap (Ended \cup First \cup {"idle"}) = {}
  BY DEF Registering, Joining, Ended, First
<1>1. CASE req'[r] = req[r]
  BY <1>0, <1>1
<1>2. ASSUME NEW q \in Requests, NEW p \in Processes, BeginSome(q, p) PROVE req'[r] = req[r]
  <2>1. \E k, f, a : \E l \in First : Begun(q, k, f, a, l)
    BY <1>2, Begins
  <2> QED
    BY <1>0, <2>1 DEF Begun
<1>3. ASSUME NEW p \in Processes, Restart(p) PROVE req'[r] = req[r]
  BY <1>0, <1>3, RestartMoves DEF Ended
<1>4. ASSUME NEW q \in Requests, Handle(q), q # r PROVE req'[r] = req[r]
  BY <1>4, HandleMoves DEF Advance, Moved
<1>5. CASE Handle(r)
  <2>1. PICK l : Advance(r, l)
    BY <1>5, HandleMoves
  <2>2. /\ req'[r].form = req[r].form /\ req'[r].pc = l /\ req[r].pc \in UnderWayStates
        /\ req[r].pc # "idle"
    BY <2>1 DEF Advance, Moved, UnderWayStates, SsoLocal
  <2>3. CASE CheckTenant(r) \/ CheckName(r) \/ Commit(r) \/ Callback(r) \/ CommitSso(r)
             \/ Login(r) \/ Mint(r) \/ DbFails(r)
    <3>1. req'[r].pc \in {"name", "customer", "find"} \cup Ended
      <4>1. CASE CheckTenant(r) \/ CheckName(r) \/ Callback(r)
        BY <4>1, CheckTenantMoves, CheckNameMoves, CallbackMoves DEF Advance, Moved, Ended
      <4>2. CASE Commit(r) \/ CommitSso(r) \/ DbFails(r)
        BY <4>2, CommitMoves, CommitSsoMoves, DbFailsMoves DEF Advance, Moved, Ended
      <4>3. CASE Login(r) \/ Mint(r)
        BY <4>3, LoginMoves, MintMoves DEF Advance, Moved, Ended
      <4> QED
        BY <2>3, <4>1, <4>2, <4>3
    <3> QED
      BY <1>0, <3>1 DEF Registering, Joining
  <2>4. CASE CheckCustomer(r)
    BY <1>0, <2>2, <2>4, CheckCustomerMoves DEF Advance, Moved, Registering, Joining
  <2>5. CASE Insert(r)
    <3>1. req[r].pc \in Registering /\ req'[r].pc \notin Joining
      BY <1>0, <2>5, InsertMoves DEF Insert, Advance, Moved, Registering, Joining
    <3> QED
      BY <2>2, <3>1
  <2>6. CASE FindUser(r)
    BY <1>0, <2>2, <2>6, FindUserMoves DEF Advance, Moved, Registering, Joining
  <2>7. CASE InsertSso(r)
    <3>1. req[r].pc \in Joining /\ req'[r].pc \notin Registering
      BY <1>0, <2>7, InsertSsoMoves DEF InsertSso, Advance, Moved, Registering, Joining
    <3> QED
      BY <2>2, <3>1
  <2> QED
    BY <1>5, <2>3, <2>4, <2>5, <2>6, <2>7 DEF Handle
<1>6. ASSUME Other PROVE req'[r] = req[r]
  BY <1>6, OtherMoves
<1> QED
  BY <1>1, <1>2, <1>3, <1>4, <1>5, <1>6, Steps

\* Rows are made by requests that are over, and remember whom these met.
LEMMA Makers ==
  ASSUME TypeOK, Shape, Vetted, RowsStand, [Next]_vars, NEW x \in users
  PROVE  x.by \in Requests /\ req[x.by].pc # "idle" /\ met[x.by] \subseteq met'[x.by]
<1>1. x.by \in Requests /\ req[x.by].pc # "idle"
  BY Parts DEF RowsStand
<1> QED
  BY <1>1, Persist

LEMMA NoSecondStep ==
  ASSUME TypeOK, Shape, Vetted, RowsStand, Overlapping, NoSecond, [Next]_vars
  PROVE  NoSecond'
<1> SUFFICES ASSUME NEW r \in Requests, req'[r].pc \in Registering, NEW x \in users',
                    x.provider = "local", x.tenant = req'[r].form.tenant,
                    x.customer = req'[r].form.customer
             PROVE  x.by \in met'[r] /\ r \in met'[x.by]
  BY DEF NoSecond, Registering
<1>0. Registering \subseteq UnderWayStates /\ {"inserted", "ssoinserted"} \subseteq UnderWayStates
  BY DEF Registering, UnderWayStates, SsoLocal
<1>1. /\ req[r].pc # "idle" /\ req'[r].form = req[r].form
      /\ req[r].pc \notin Registering =>
           /\ users' = users
           /\ \A y \in users : ~ (y.customer = req[r].form.customer /\ y.tenant = req[r].form.tenant)
  BY Enter
<1>2. req[r].pc \in Registering
  BY <1>1
<1>3. CASE x \in users
  <2>1. x.by \in met[r] /\ r \in met[x.by]
    BY <1>1, <1>2, <1>3 DEF NoSecond, Registering
  <2> QED
    BY <1>1, <1>3, <2>1, Makers, Persist
<1>4. CASE x \notin users
  <2>1. PICK q \in Requests :
           /\ req[q].pc \in {"inserted", "ssoinserted"} /\ req'[q].pc \in {"ok", "failed"}
           /\ users' = users \cup {Row(q)} /\ met' = met
    BY <1>4, Growth
  <2>2. q # r /\ x = Row(q)
    BY <1>4, <2>1 DEF Registering
  <2>3. x.by = q
    BY <2>1, <2>2, RowType
  <2>4. q \in UnderWay /\ r \in UnderWay
    BY <1>0, <1>2, <2>1 DEF UnderWay
  <2> QED
    BY <2>1, <2>2, <2>3, <2>4 DEF Overlapping
<1> QED
  BY <1>3, <1>4

LEMMA NoAddressStep ==
  ASSUME TypeOK, Shape, Vetted, RowsStand, Overlapping, NoAddress, [Next]_vars
  PROVE  NoAddress'
<1> SUFFICES ASSUME NEW r \in Requests, req'[r].pc \in Joining, NEW x \in users',
                    x.email = req'[r].form.email
             PROVE  x.by \in met'[r]
  BY DEF NoAddress, Joining
<1>0. Joining \subseteq UnderWayStates /\ {"inserted", "ssoinserted"} \subseteq UnderWayStates
  BY DEF Joining, UnderWayStates, SsoLocal
<1>1. /\ req[r].pc # "idle" /\ req'[r].form = req[r].form
      /\ req[r].pc \notin Joining =>
           users' = users /\ \A y \in users : y.email # req[r].form.email
  BY Enter
<1>2. req[r].pc \in Joining
  BY <1>1
<1>3. CASE x \in users
  <2>1. x.by \in met[r]
    BY <1>1, <1>2, <1>3 DEF NoAddress, Joining
  <2> QED
    BY <1>1, <2>1, Persist
<1>4. CASE x \notin users
  <2>1. PICK q \in Requests :
           /\ req[q].pc \in {"inserted", "ssoinserted"} /\ req'[q].pc \in {"ok", "failed"}
           /\ users' = users \cup {Row(q)} /\ met' = met
    BY <1>4, Growth
  <2>2. q # r /\ x = Row(q)
    BY <1>4, <2>1 DEF Joining
  <2>3. x.by = q
    BY <2>1, <2>2, RowType
  <2>4. q \in UnderWay /\ r \in UnderWay
    BY <1>0, <1>2, <2>1 DEF UnderWay
  <2> QED
    BY <2>1, <2>2, <2>3, <2>4 DEF Overlapping
<1> QED
  BY <1>3, <1>4

\* The second of two accounts of a customer was looked for while the first was
\* being made.
LEMMA OneAccountStep ==
  ASSUME TypeOK, Shape, Vetted, RowsStand, NoSecond, OneAccountPerCustomer, [Next]_vars
  PROVE  OneAccountPerCustomer'
<1> SUFFICES ASSUME NEW x \in users', NEW y \in users', x.tenant = y.tenant,
                    x.customer = y.customer, x.provider = "local", y.provider = "local", x # y
             PROVE  y.by \in met'[x.by]
  BY DEF OneAccountPerCustomer
<1>1. CASE x \in users /\ y \in users
  <2>1. y.by \in met[x.by]
    BY <1>1 DEF OneAccountPerCustomer
  <2> QED
    BY <1>1, <2>1, Makers
<1>2. CASE x \notin users \/ y \notin users
  <2>1. PICK q \in Requests :
           /\ req[q].pc \in {"inserted", "ssoinserted"}
           /\ users' = users \cup {Row(q)} /\ met' = met
    BY <1>2, Growth
  <2>2. Row(q).by = q
    BY <2>1, RowType
  <2>3. Row(q) = x \/ Row(q) = y
    BY <1>2, <2>1
  <2>4. req[q].pc = "inserted" /\ Row(q).tenant = req[q].form.tenant
        /\ Row(q).customer = req[q].form.customer
    <3>1. Row(q).provider = "local"
      BY <2>3
    <3>2. req[q].kind # "sso"
      BY <3>1 DEF Row
    <3>3. Row(q).tenant = req[q].form.tenant /\ Row(q).customer = req[q].form.customer
      BY <3>2 DEF Row
    <3> QED
      BY <2>1, <3>2, <3>3, KindAt
  <2>5. CASE Row(q) = x
    <3>1. y \in users
      BY <2>1, <2>5
    <3> QED
      BY <2>1, <2>2, <2>4, <2>5, <3>1 DEF NoSecond
  <2>6. CASE Row(q) = y
    <3>1. x \in users
      BY <2>1, <2>6
    <3> QED
      BY <2>1, <2>2, <2>4, <2>6, <3>1 DEF NoSecond
  <2> QED
    BY <2>3, <2>5, <2>6
<1> QED
  BY <1>1, <1>2

\* Who ends well, or fails, does so at one of these steps.
LEMMA Finishing ==
  ASSUME TypeOK, Shape, Vetted, [Next]_vars, NEW r \in Requests,
         req'[r].pc \in {"ok", "failed"}, req[r].pc \notin Ended
  PROVE  Commit(r) \/ FindUser(r) \/ InsertSso(r) \/ CommitSso(r) \/ Login(r) \/ Mint(r) \/ DbFails(r)
<1>0. {"ok", "failed"} \subseteq Ended /\ {"ok", "failed"} \cap First = {}
  BY DEF Ended, First
<1>1. ASSUME NEW q \in Requests, NEW p \in Processes, BeginSome(q, p) PROVE FALSE
  <2>1. \E k, f, a : \E l \in First : Begun(q, k, f, a, l)
    BY <1>1, Begins
  <2> QED
    BY <1>0, <2>1 DEF Begun
<1>2. ASSUME NEW p \in Processes, Restart(p) PROVE FALSE
  BY <1>0, <1>2, RestartMoves
<1>3. ~Other
  BY <1>0, OtherMoves
<1>4. PICK q \in Requests : Handle(q)
  BY <1>1, <1>2, <1>3, Steps
<1>5. q = r
  BY <1>0, <1>4, HandleMoves DEF Advance, Moved
<1>6. ~CheckTenant(r) /\ ~CheckName(r) /\ ~CheckCustomer(r) /\ ~Insert(r) /\ ~Callback(r)
  BY CheckTenantMoves, CheckNameMoves, CheckCustomerMoves, InsertMoves, CallbackMoves
     DEF Advance, Moved
<1> QED
  BY <1>4, <1>5, <1>6 DEF Handle

Stands(r) ==
  req[r].pc = "ok" =>
    /\ req[r].kind = "register" => Row(r) \in users
    /\ req[r].kind \notin {"register", "mint"} => \E x \in users : ClaimsOf(x) = req[r].claims

LEMMA StandsStep ==
  ASSUME TypeOK, Shape, Vetted, \A r \in Requests : Stands(r), [Next]_vars
  PROVE  \A r \in Requests : Stands(r)'
<1> SUFFICES ASSUME NEW r \in Requests, req'[r].pc = "ok"
             PROVE  /\ req'[r].kind = "register" => Row(r)' \in users'
                    /\ req'[r].kind \notin {"register", "mint"} =>
                         \E x \in users' : ClaimsOf(x) = req'[r].claims
  BY DEF Stands, ClaimsOf
<1>1. CASE req[r].pc \in Ended
  <2>1. req'[r] = req[r] /\ users \subseteq users'
    BY <1>1, Persist
  <2>2. Row(r)' = Row(r)
    BY <2>1, SameRow
  <2> QED
    BY <2>1, <2>2 DEF Stands
<1>2. CASE req[r].pc \notin Ended
  <2>1. CASE Commit(r)
    <3>1. Advance(r, "ok") /\ users' = users \cup {Row(r)} /\ req[r].kind = "register"
      BY <2>1, CommitMoves, KindAt DEF Commit
    <3>2. req'[r].kind = "register" /\ Row(r)' = Row(r)
      BY <3>1, SameRow DEF Advance, Moved
    <3> QED
      BY <3>1, <3>2
  <2>2. CASE FindUser(r) \/ Login(r)
    <3>1. users' = users /\ \E x \in users : ClaimsOf(x) = req'[r].claims
      BY <2>2, FindUserMoves, LoginMoves DEF Advance, Moved
    <3>2. req'[r].kind # "register"
      BY <2>2, KindAt, FindUserMoves, LoginMoves DEF FindUser, Login, Advance, Moved
    <3> QED
      BY <3>1, <3>2
  <2>3. CASE CommitSso(r)
    <3>1. /\ Advance(r, "ok") /\ users' = users \cup {Row(r)} /\ req[r].kind = "sso"
          /\ req'[r].claims = ClaimsOf(Row(r))
      BY <2>3, CommitSsoMoves, KindAt DEF CommitSso
    <3>2. req'[r].kind = "sso"
      BY <3>1 DEF Advance, Moved
    <3> QED
      BY <3>1, <3>2
  <2>4. CASE Mint(r)
    <3>1. req'[r].kind = "mint"
      BY <2>4, KindAt, MintMoves DEF Mint, Advance, Moved
    <3> QED
      BY <3>1
  <2>5. ~InsertSso(r) /\ ~DbFails(r)
    BY InsertSsoMoves, DbFailsMoves DEF Advance, Moved
  <2> QED
    BY <1>2, <2>1, <2>2, <2>3, <2>4, <2>5, Finishing
<1> QED
  BY <1>1, <1>2

LEMMA SsoStep ==
  ASSUME TypeOK, Shape, Vetted, RowsStand, NoAddress, SsoFailsOnlyInRace, [Next]_vars
  PROVE  SsoFailsOnlyInRace'
<1> SUFFICES ASSUME NEW r \in Requests, req'[r].kind = "sso", req'[r].pc = "failed"
             PROVE  \/ req'[r].hit
                    \/ \E q \in met'[r] : /\ req'[q].kind \in {"register", "sso"}
                                         /\ req'[q].form.email = req'[r].form.email
  BY DEF SsoFailsOnlyInRace
<1>1. CASE req[r].pc \in Ended
  <2>1. req'[r] = req[r] /\ met[r] \subseteq met'[r] /\ met[r] \subseteq Requests
    BY <1>1, Persist DEF Ended, TypeOK
  <2>2. \/ req[r].hit
        \/ \E q \in met[r] : req[q].kind \in {"register", "sso"} /\ req[q].form.email = req[r].form.email
    BY <2>1 DEF SsoFailsOnlyInRace
  <2>3. ASSUME NEW q \in Requests, req[q].kind \in {"register", "sso"}
        PROVE  req'[q].kind = req[q].kind /\ req'[q].form = req[q].form
    BY <2>3, KindAt, Persist
  <2> QED
    BY <2>1, <2>2, <2>3
<1>2. CASE req[r].pc \notin Ended
  <2>1. CASE InsertSso(r)
    <3>1. PICK x \in users : Clash(x, Row(r))
      BY <2>1, InsertSsoMoves DEF Advance, Moved
    <3>2. /\ req[r].kind = "sso" /\ req[r].pc = "ssoinsert" /\ req'[r].form = req[r].form
          /\ met' = met
      BY <2>1, KindAt, InsertSsoMoves DEF InsertSso, Advance, Moved, Unmoved, history
    <3>3. /\ x = Row(x.by) /\ x.by \in Requests /\ req[x.by].kind \in {"register", "sso"}
          /\ req[x.by].pc \in {"ok", "failed"}
      BY Parts DEF RowsStand
    <3>4. x.by # r
      BY <3>2, <3>3
    <3>5. x.name # Row(r).name
      <4>1. Row(r).name = <<"sso", r>>
        BY <3>2 DEF Row
      <4>2. CASE req[x.by].kind = "sso"
        <5>1. x.name = <<"sso", x.by>>
          BY <3>3, <4>2 DEF Row
        <5> QED
          BY <3>4, <4>1, <5>1
      <4>3. CASE req[x.by].kind = "register"
        <5>1. x.name = req[x.by].form.name
          BY <3>3, <4>3 DEF Row
        <5>2. req[x.by].form.name \in Usernames
          BY <3>3, <4>3, Parts, ConstantsAssumption
        <5>3. <<"sso", r>> \in {"sso"} \X Requests
          OBVIOUS
        <5> QED
          BY <4>1, <5>1, <5>2, <5>3, ConstantsAssumption
      <4> QED
        BY <3>3, <4>2, <4>3
    <3>6. x.email = Row(r).email
      BY <3>1, <3>5 DEF Clash
    <3>7. Row(r).email = req[r].form.email
      BY DEF Row
    <3>8. x.email = req[x.by].form.email
      <4>1. Row(x.by).email = req[x.by].form.email
        BY DEF Row
      <4> QED
        BY <3>3, <4>1
    <3>9. x.by \in met[r]
      BY <3>2, <3>6, <3>7 DEF NoAddress
    <3>10. req'[x.by].kind = req[x.by].kind /\ req'[x.by].form = req[x.by].form
      BY <3>3, KindAt, Persist
    <3> QED
      BY <3>2, <3>3, <3>6, <3>7, <3>8, <3>9, <3>10
  <2>2. CASE DbFails(r)
    BY <2>2, DbFailsMoves
  <2>3. CASE Login(r) \/ Mint(r)
    BY <2>3, KindAt, LoginMoves, MintMoves DEF Login, Mint, Advance, Moved
  <2>4. ~Commit(r) /\ ~FindUser(r) /\ ~CommitSso(r)
    BY CommitMoves, FindUserMoves, CommitSsoMoves DEF Advance, Moved
  <2> QED
    BY <1>2, <2>1, <2>2, <2>3, <2>4, Finishing
<1> QED
  BY <1>1, <1>2

LEMMA KeysStep ==
  ASSUME TypeOK, Shape, Vetted, KeysAgree, [Next]_vars
  PROVE  KeysAgree'
<1>0. /\ \A t \in Tenants : issued[t] \in Nat
      /\ \A r \in Requests : req[r].asof \in Nat
      /\ \A r \in Requests : req[r].pc = "mint" => req[r].form.tenant \in Tenants
  <2>1. \A t \in Tenants : issued[t] \in Nat
    BY ConstantsAssumption DEF TypeOK
  <2>2. \A r \in Requests : req[r].asof \in Nat
    BY DEF Shape, Request
  <2>3. \A r \in Requests : req[r].pc = "mint" => req[r].form \in MintForm
    BY KindAt, Parts
  <2> QED
    BY <2>1, <2>2, <2>3 DEF MintForm
<1>1. ASSUME UNCHANGED <<keys, issued>>,
             \A r \in Requests : req'[r].pc = "mint" =>
               \/ req'[r] = req[r]
               \/ /\ req'[r].asof = issued[req'[r].form.tenant]
                  /\ req'[r].form.tenant \in Tenants
      PROVE  KeysAgree'
  <2>1. ASSUME NEW r \in Requests, req'[r].pc = "mint"
        PROVE  req'[r].asof <= issued'[req'[r].form.tenant]
    BY <1>0, <1>1, <2>1 DEF KeysAgree
  <2> QED
    BY <1>1, <2>1 DEF KeysAgree
<1>2. ASSUME NEW r \in Requests, NEW p \in Processes, BeginSome(r, p) PROVE KeysAgree'
  <2>1. PICK k \in Kinds \ {""} : \E f \in FormsOf(k), a \in Nat, l \in PcsOf(k) \cap First :
           Begun(r, k, f, a, l) /\ (k = "mint" => a = issued[f.tenant])
    BY <1>2, Begins
  <2>2. PICK f \in FormsOf(k), a \in Nat, l \in PcsOf(k) \cap First :
           Begun(r, k, f, a, l) /\ (k = "mint" => a = issued[f.tenant])
    BY <2>1
  <2>3. l = "mint" => k = "mint"
    BY <2>2 DEF Kinds, PcsOf, Ended, SsoLocal
  <2>4. k = "mint" => f.tenant \in Tenants
    BY <2>2 DEF FormsOf, MintForm
  <2> QED
    BY <1>1, <2>2, <2>3, <2>4 DEF Begun
<1>3. ASSUME NEW r \in Requests, Handle(r) PROVE KeysAgree'
  <2>1. PICK l \in States \ {"mint"} : Advance(r, l)
    BY <1>3, HandleMoves
  <2>2. UNCHANGED <<keys, issued>>
    BY <2>1 DEF Advance, Unmoved, history
  <2> QED
    BY <1>1, <2>1, <2>2 DEF Advance, Moved
<1>4. ASSUME NEW p \in Processes, Restart(p) PROVE KeysAgree'
  BY <1>1, <1>4, RestartMoves
<1>5. ASSUME NEW t \in Tenants, ProvisionKey(t) PROVE KeysAgree'
  <2>1. /\ keys' = [d \in Domains |-> IF d \in RowsOf(t) THEN issued[t] + 1 ELSE keys[d]]
        /\ issued' = [issued EXCEPT ![t] = issued[t] + 1] /\ req' = req
    BY <1>5 DEF ProvisionKey
  <2>2. ASSUME NEW u \in Tenants, NEW d \in RowsOf(u) PROVE keys'[d] = issued'[u]
    <3>1. d \in Domains /\ (d \in RowsOf(t) <=> u = t)
      BY DEF RowsOf
    <3> QED
      BY <2>1, <3>1 DEF KeysAgree, TypeOK
  <2>3. \A u \in Tenants : issued'[u] \in Nat /\ issued[u] <= issued'[u]
    BY <1>0, <2>1 DEF TypeOK
  <2>4. ASSUME NEW r \in Requests, req[r].pc = "mint" PROVE req[r].asof <= issued'[req[r].form.tenant]
    BY <1>0, <2>3, <2>4 DEF KeysAgree
  <2> QED
    BY <2>1, <2>2, <2>4 DEF KeysAgree, RowsOf
<1>6. ASSUME Other, ~ \E t \in Tenants : ProvisionKey(t) PROVE KeysAgree'
  <2>1. UNCHANGED <<keys, issued, req>>
    BY <1>6 DEF Other, Expire, Logout, Accept, vars, history
  <2> QED
    BY <1>1, <2>1
<1> QED
  BY <1>2, <1>3, <1>4, <1>5, <1>6, Steps

\* The key that opens a row of the tenant is the newest one.
LEMMA OldKeyStep ==
  ASSUME TypeOK, Shape, Vetted, KeysAgree, OldKeyMintsNothing, [Next]_vars
  PROVE  OldKeyMintsNothing'
<1> SUFFICES ASSUME NEW r \in Requests, req'[r].kind = "mint", req'[r].pc = "ok"
             PROVE  req'[r].form.key >= req'[r].asof
  BY DEF OldKeyMintsNothing
<1>1. CASE req[r].pc \in Ended
  BY <1>1, Persist DEF OldKeyMintsNothing
<1>2. CASE req[r].pc \notin Ended
  <2>1. CASE Mint(r)
    <3>1. /\ \E d \in RowsOf(req[r].form.tenant) : keys[d] = req[r].form.key
          /\ req'[r].form = req[r].form /\ req'[r].asof = req[r].asof
      BY <2>1, MintMoves DEF Advance, Moved
    <3>2. req[r].form \in MintForm /\ req[r].pc = "mint" /\ req[r].asof \in Nat
      BY <2>1, KindAt, Parts DEF Mint, Shape, Request
    <3>3. req[r].form.tenant \in Tenants /\ req[r].form.key \in Nat
      BY <3>2 DEF MintForm
    <3>4. req[r].form.key = issued[req[r].form.tenant]
      BY <3>1, <3>3 DEF KeysAgree
    <3>5. req[r].asof <= issued[req[r].form.tenant]
      BY <3>2 DEF KeysAgree
    <3> QED
      BY <3>1, <3>2, <3>3, <3>4, <3>5
  <2>2. CASE Commit(r) \/ FindUser(r) \/ CommitSso(r) \/ Login(r)
    BY <2>2, KindAt, CommitMoves, FindUserMoves, CommitSsoMoves, LoginMoves
       DEF Commit, FindUser, CommitSso, Login, Advance, Moved
  <2>3. ~InsertSso(r) /\ ~DbFails(r)
    BY InsertSsoMoves, DbFailsMoves DEF Advance, Moved
  <2> QED
    BY <1>2, <2>1, <2>2, <2>3, Finishing
<1> QED
  BY <1>1, <1>2

LEMMA LogoutStep ==
  ASSUME TypeOK, Shape, Vetted, LogoutSeen, LogoutHolds, [Next]_vars
  PROVE  LogoutSeen' /\ LogoutHolds'
<1>0. /\ \A p \in Processes : epoch[p] \in Nat
      /\ out \subseteq Requests \X Processes \X (0..MaxRestarts)
  BY ConstantsAssumption DEF TypeOK
<1>1. ASSUME UNCHANGED <<revoked, epoch, out, broken>>, expired \subseteq expired'
      PROVE  LogoutSeen' /\ LogoutHolds'
  BY <1>1 DEF LogoutSeen, LogoutHolds
<1>2. ASSUME NEW r \in Requests, NEW p \in Processes, BeginSome(r, p)
      PROVE  UNCHANGED <<revoked, epoch, out, broken>> /\ expired \subseteq expired'
  BY <1>2, Begins DEF Begun
<1>3. ASSUME NEW r \in Requests, Handle(r)
      PROVE  UNCHANGED <<revoked, epoch, out, broken>> /\ expired \subseteq expired'
  BY <1>3, HandleMoves DEF Advance, Unmoved, history
<1>4. ASSUME NEW p \in Processes, Restart(p) PROVE LogoutSeen' /\ LogoutHolds'
  <2>1. /\ epoch' = [epoch EXCEPT ![p] = epoch[p] + 1]
        /\ revoked' = [revoked EXCEPT ![p] = {}]
        /\ UNCHANGED <<expired, out, broken>>
    BY <1>4 DEF Restart
  <2>2. ASSUME NEW o \in out PROVE o[3] <= epoch'[o[2]]
    <3>1. o[3] \in Nat /\ o[2] \in Processes /\ o[3] <= epoch[o[2]]
      BY <1>0, ConstantsAssumption DEF LogoutSeen
    <3>2. epoch[o[2]] <= epoch'[o[2]] /\ epoch'[o[2]] \in Nat
      BY <1>0, <2>1, <3>1 DEF TypeOK
    <3> QED
      BY <1>0, <3>1, <3>2
  <2>3. ASSUME NEW t \in Requests, NEW q \in Processes, <<t, q, epoch'[q]>> \in out
        PROVE  t \in expired' \/ t \in revoked'[q]
    <3>1. epoch'[q] <= epoch[q]
      BY <2>3 DEF LogoutSeen
    <3>2. q # p
      BY <1>0, <2>1, <3>1 DEF TypeOK
    <3> QED
      BY <2>1, <2>3, <3>2 DEF LogoutSeen, TypeOK
  <2> QED
    BY <2>1, <2>2, <2>3 DEF LogoutSeen, LogoutHolds
<1>5. ASSUME NEW t \in Requests, NEW p \in Processes, Logout(t, p) PROVE LogoutSeen' /\ LogoutHolds'
  <2>1. /\ revoked' = [revoked EXCEPT ![p] = IF t \in expired THEN revoked[p] ELSE revoked[p] \cup {t}]
        /\ out' = out \cup {<<t, p, epoch[p]>>}
        /\ UNCHANGED <<expired, epoch, broken>>
    BY <1>5 DEF Logout
  <2>2. ASSUME NEW o \in out' PROVE o[3] <= epoch[o[2]]
    BY <1>0, <2>1 DEF LogoutSeen
  <2>3. ASSUME NEW u \in Requests, NEW q \in Processes, <<u, q, epoch[q]>> \in out'
        PROVE  u \in expired \/ u \in revoked'[q]
    <3>1. revoked[q] \subseteq revoked'[q] /\ (t \in expired \/ t \in revoked'[p])
      BY <2>1 DEF TypeOK
    <3>2. CASE <<u, q, epoch[q]>> \in out
      BY <3>1, <3>2 DEF LogoutSeen
    <3>3. CASE <<u, q, epoch[q]>> = <<t, p, epoch[p]>>
      BY <3>1, <3>3
    <3> QED
      BY <2>1, <2>3, <3>2, <3>3
  <2> QED
    BY <2>1, <2>2, <2>3 DEF LogoutSeen, LogoutHolds
<1>6. ASSUME NEW t \in Requests, NEW p \in Processes, Accept(t, p) PROVE LogoutSeen' /\ LogoutHolds'
  <2>1. /\ t \notin expired /\ t \notin revoked[p]
        /\ broken' = (broken \/ <<t, p, epoch[p]>> \in out)
        /\ UNCHANGED <<revoked, expired, epoch, out>>
    BY <1>6 DEF Accept
  <2>2. <<t, p, epoch[p]>> \notin out
    BY <2>1 DEF LogoutSeen
  <2>3. LogoutHolds'
    BY <2>1, <2>2 DEF LogoutHolds
  <2>4. LogoutSeen'
    BY <2>1 DEF LogoutSeen
  <2> QED
    BY <2>3, <2>4
<1>7. ASSUME Other, ~ \E t \in Requests, p \in Processes : Logout(t, p) \/ Accept(t, p)
      PROVE  UNCHANGED <<revoked, epoch, out, broken>> /\ expired \subseteq expired'
  BY <1>7 DEF Other, Expire, ProvisionKey, vars, history
<1> QED
  BY <1>1, <1>2, <1>3, <1>4, <1>5, <1>6, <1>7, Steps

-----------------------------------------------------------------------------
Kept ==
  /\ TypeOK /\ Shape /\ Vetted /\ RowsStand /\ Overlapping /\ NoSecond /\ NoAddress
  /\ OneAccountPerCustomer /\ SsoFailsOnlyInRace /\ \A r \in Requests : Stands(r)
  /\ KeysAgree /\ OldKeyMintsNothing /\ LogoutSeen /\ LogoutHolds

LEMMA InitKept == Init => Kept
<1> SUFFICES ASSUME Init PROVE Kept
  OBVIOUS
<1>1. \A r \in Requests : req[r].pc = "idle" /\ req[r].kind = "" /\ req[r].form = ""
  BY DEF Init, NoRequest
<1>2. users = {} /\ out = {} /\ UnderWay = {}
  BY <1>1 DEF Init, UnderWay, UnderWayStates, SsoLocal
<1>3. Shape
  BY <1>1, FirstRequest DEF Init, Shape, PcsOf, FormsOf
<1>4. TypeOK
  <2>1. /\ keys \in [Domains -> 0..MaxKeys] /\ issued \in [Tenants -> 0..MaxKeys]
        /\ epoch \in [Processes -> 0..MaxRestarts]
    BY ConstantsAssumption DEF Init
  <2>2. /\ expired \subseteq Tokens /\ revoked \in [Processes -> SUBSET Tokens]
        /\ met \in [Requests -> SUBSET Requests]
    BY DEF Init
  <2>3. broken \in BOOLEAN
    BY DEF Init
  <2> QED
    BY <1>1, <1>2, <2>1, <2>2, <2>3 DEF TypeOK
<1>5. Vetted /\ NoSecond /\ NoAddress
  BY <1>1 DEF Vetted, NoSecond, NoAddress, SsoLocal
<1>6. RowsStand /\ Overlapping /\ OneAccountPerCustomer
  BY <1>2 DEF RowsStand, Overlapping, OneAccountPerCustomer
<1>7. SsoFailsOnlyInRace /\ OldKeyMintsNothing /\ \A r \in Requests : Stands(r)
  BY <1>1 DEF SsoFailsOnlyInRace, OldKeyMintsNothing, Stands
<1>8. KeysAgree
  BY <1>1 DEF Init, KeysAgree, RowsOf
<1>9. LogoutSeen /\ LogoutHolds
  BY <1>2 DEF Init, LogoutSeen, LogoutHolds
<1> QED
  BY <1>3, <1>4, <1>5, <1>6, <1>7, <1>8, <1>9 DEF Kept

LEMMA StepKept ==
  ASSUME Kept, [Next]_vars
  PROVE  Kept'
<1>1. TypeOK' /\ Shape' /\ Vetted'
  BY TypeStep, ShapeStep, VettedStep DEF Kept
<1>2. RowsStand' /\ Overlapping' /\ NoSecond' /\ NoAddress'
  BY RowsStandStep, OverlappingStep, NoSecondStep, NoAddressStep DEF Kept
<1>3. OneAccountPerCustomer' /\ SsoFailsOnlyInRace' /\ (\A r \in Requests : Stands(r))'
  BY OneAccountStep, SsoStep, StandsStep DEF Kept
<1>4. KeysAgree' /\ OldKeyMintsNothing' /\ LogoutSeen' /\ LogoutHolds'
  BY KeysStep, OldKeyStep, LogoutStep DEF Kept
<1> QED
  BY <1>1, <1>2, <1>3, <1>4 DEF Kept

LEMMA AlwaysKept == Spec => []Kept
<1>1. Init => Kept
  BY InitKept
<1>2. Kept /\ [Next]_vars => Kept'
  BY StepKept
<1> QED
  BY <1>1, <1>2, PTL DEF Spec

\* Type correctness, for any requests, processes, forms and registry.
THEOREM TypeCorrect == Spec => []TypeOK
<1>1. Kept => TypeOK
  BY DEF Kept
<1> QED
  BY <1>1, AlwaysKept, PTL

\* A second registered account of a customer exists only when both registrations
\* were under way at once, however many processes serve them.
THEOREM OneAccount == Spec => []OneAccountPerCustomer
<1>1. Kept => OneAccountPerCustomer
  BY DEF Kept
<1> QED
  BY <1>1, AlwaysKept, PTL

\* Who was told of an account has it, through crashes and lost commits.
THEOREM AccountsStand == Spec => []AnsweredAccountsStand
<1>1. Kept => AnsweredAccountsStand
  <2> SUFFICES ASSUME Kept PROVE AnsweredAccountsStand
    OBVIOUS
  <2>1. \A x \in users : Registry[DomainOf[x.email]] = x.tenant
    BY DEF Kept, RowsStand
  <2>2. ASSUME NEW r \in Requests, req[r].pc = "ok"
        PROVE  CASE req[r].kind = "register" -> Row(r) \in users
                 [] req[r].kind = "mint" -> TRUE
                 [] OTHER -> \E x \in users : ClaimsOf(x) = req[r].claims
    BY <2>2 DEF Kept, Stands
  <2> QED
    BY <2>1, <2>2 DEF AnsweredAccountsStand
<1> QED
  BY <1>1, AlwaysKept, PTL

\* An accepted company login fails only with the database or in a race.
THEOREM SsoFails == Spec => []SsoFailsOnlyInRace
<1>1. Kept => SsoFailsOnlyInRace
  BY DEF Kept
<1> QED
  BY <1>1, AlwaysKept, PTL

\* A replaced key mints nothing for requests that arrive later.
THEOREM OldKeys == Spec => []OldKeyMintsNothing
<1>1. Kept => OldKeyMintsNothing
  BY DEF Kept
<1> QED
  BY <1>1, AlwaysKept, PTL

\* A process keeps to the logouts it confirmed until it restarts.
THEOREM Logouts == Spec => []LogoutHolds
<1>1. Kept => LogoutHolds
  BY DEF Kept
<1> QED
  BY <1>1, AlwaysKept, PTL
=============================================================================
