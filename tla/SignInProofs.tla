---------------------------- MODULE SignInProofs ----------------------------
(***************************************************************************)
(* Proofs about the login pages with the server behind them and about the  *)
(* tokens, for any number of browsers, users, roles, permissions and apps; *)
(* with those of GatewayProofs, about the three parts of MCSignIn.         *)
(*                                                                         *)
(* The tokens: what a request has read was so at some moment since it came *)
(* in, and the worlds it may have seen only grow.                          *)
(*                                                                         *)
(* The pages: a server action knows its page, since the page stays while   *)
(* it waits; a token that was replaced lies in the jar of the browser that *)
(* asked, whose answer carries the new one; and what a lookup of the       *)
(* second factor read is still so, or 2FA was off meanwhile, or the        *)
(* session is no more.  The other browsers rely on little: that nobody     *)
(* takes an acceptance back, that the sweep of an enrolment is claimed     *)
(* only by the one that did it, and that 2FA is only switched off for all  *)
(* sessions at once.                                                       *)
(***************************************************************************)
EXTENDS MCSignIn, GatewayProofs, TLAPS

-----------------------------------------------------------------------------
(* Tokens *)

\* What a request that mints a token has read was so at some time since it came in.
LinksSeen(e) ==
  \A r \in e.linked : \E w \in e.seen : <<e.who, r>> \in w.holds

PermissionsSeen(e) ==
  \A p \in e.permissions :
    /\ InAudience(p, e.app)
    /\ \/ \E w \in e.seen : <<e.who, p>> \in w.direct
       \/ \E r \in BearerRoles :
            /\ \E w \in e.seen : <<e.who, r>> \in w.holds
            /\ \E w \in e.seen : <<r, p>> \in w.grants

RolesSeen(e) ==
  \A r \in e.roles : AppOf[r] = e.app /\ \E w \in e.seen : <<e.who, r>> \in w.holds

\* A password alone was enough for the app when the request came in, and for its user
\* when twoFactorEnabled was read.
FactorsAsked(e) ==
  /\ e.kind = "direct" /\ "otp" \notin e.amr => \E w \in e.seen : e.app \notin w.required
  /\ e.kind = "mint" /\ "mfa" \notin e.amr =>
       /\ \E w \in e.seen : e.app \notin w.required
       /\ \E w \in e.seen : e.who \notin w.enrolled

MintOK(e) ==
  /\ e.kind \in {"direct", "mint"} => e.who \in Bearers /\ e.app \in Audiences /\ FactorsAsked(e)
  /\ e.kind = "mint" => LinksSeen(e) /\ PermissionsSeen(e) /\ RolesSeen(e)
  /\ e.kind = "direct" => e.linked = {} /\ e.permissions = {} /\ e.roles = {}

ServiceOK(e) ==
  e.kind = "service" =>
    e.app \in Audiences /\ (e.scope # {} => \E w \in e.seen : e.app \in w.optedIn)

UserinfoOK(e) ==
  e.kind = "userinfo" =>
    /\ token # Nobody /\ e.who = token.sub
    /\ \E w \in e.seen : e.who \notin w.inactive

WriteOK(e) ==
  e.kind = "write" =>
    /\ e.who \in Bearers /\ e.role \in BearerRoles
    /\ token # Nobody /\ token.earned /\ token.azp = e.app
    /\ OwnAffair(token.azp, e.who, e.role)
    /\ \E w \in e.seen : Carried(w, e.role) \cap SystemPermissions = {}

\* Only a service token has a scope, and only one of an app that had opted in.
TokenOK == token # Nobody /\ token.scope # {} => token.earned

TokensInv ==
  /\ TokensTypeOK
  /\ errand.kind # "none" => db \in errand.seen
  /\ MintOK(errand) /\ ServiceOK(errand) /\ UserinfoOK(errand) /\ WriteOK(errand)
  /\ TokenOK

LEMMA NoErrandOK ==
  /\ NoErrand \in Errand /\ NoErrand.kind = "none"
  /\ MintOK(NoErrand) /\ ServiceOK(NoErrand) /\ UserinfoOK(NoErrand) /\ WriteOK(NoErrand)
BY DEF NoErrand, Errand, MintOK, ServiceOK, UserinfoOK, WriteOK, Reads

LEMMA TokensInitInv == TokensInit => TokensInv
<1> SUFFICES ASSUME TokensInit PROVE TokensInv
  OBVIOUS
<1>1. db \in World
  BY TokenAssumption DEF TokensInit, World, Universe
<1>2. QED
  BY <1>1, NoErrandOK, TokenAssumption DEF TokensInit, TokensInv, TokensTypeOK, TokenOK

\* A request that leaves changes nothing else, and no other is under way.
LEMMA LeaveInv ==
  ASSUME TokensInv, Leave, db' \in World, changes' \in 0 .. MaxChanges,
         token' \in BearerToken \cup {Nobody}, TokenOK'
  PROVE  TokensInv'
BY NoErrandOK DEF Leave, TokensInv, TokensTypeOK, MintOK, ServiceOK, UserinfoOK, WriteOK,
     FactorsAsked

\* A request comes in: it sees what there is.
LEMMA ComeInv ==
  ASSUME TokensInv, NEW e \in Errand, Come(e), UNCHANGED <<db, changes, token>>,
         LET f == [e EXCEPT !.seen = {db}]
         IN MintOK(f) /\ ServiceOK(f) /\ UserinfoOK(f) /\ WriteOK(f)
  PROVE  TokensInv'
<1> DEFINE f == [e EXCEPT !.seen = {db}]
<1>1. errand' = f /\ f \in Errand /\ f.seen = {db}
  BY DEF Come, Errand, TokensInv, TokensTypeOK
<1>2. MintOK(f)' /\ ServiceOK(f)' /\ UserinfoOK(f)' /\ WriteOK(f)'
  BY DEF MintOK, ServiceOK, UserinfoOK, WriteOK, FactorsAsked, LinksSeen, PermissionsSeen,
     RolesSeen
<1>3. QED
  BY <1>1, <1>2 DEF TokensInv, TokensTypeOK, TokenOK

LEMMA DirectInv ==
  ASSUME TokensInv, NEW u \in Bearers, NEW aud \in Audiences, DirectLoginInner(u, aud)
  PROVE  TokensInv'
<1> DEFINE e == [NoErrand EXCEPT !.kind = "direct", !.who = u, !.app = aud,
                   !.amr = IF aud \in db.required THEN {"pwd", "otp"} ELSE {"pwd"}]
           f == [e EXCEPT !.seen = {db}]
<1>1. /\ e \in Errand /\ f.kind = "direct" /\ f.who = u /\ f.app = aud /\ f.seen = {db}
      /\ "otp" \notin f.amr => aud \notin db.required
      /\ f.linked = {} /\ f.permissions = {} /\ f.roles = {}
  BY NoErrandOK DEF NoErrand, Errand
<1>2. MintOK(f) /\ ServiceOK(f) /\ UserinfoOK(f) /\ WriteOK(f)
  BY <1>1 DEF MintOK, FactorsAsked, ServiceOK, UserinfoOK, WriteOK
<1>3. QED
  BY <1>1, <1>2, ComeInv DEF DirectLoginInner

LEMMA ClientInv ==
  ASSUME TokensInv, NEW aud \in Audiences, NEW asked \in SUBSET {"roles:write"},
         HandleClientCredentials(aud, asked)
  PROVE  TokensInv'
<1> DEFINE e == [NoErrand EXCEPT !.kind = "service", !.app = aud,
                   !.scope = IF aud \in db.optedIn THEN asked ELSE {}]
           f == [e EXCEPT !.seen = {db}]
<1>1. /\ e \in Errand /\ f.kind = "service" /\ f.app = aud /\ f.seen = {db}
      /\ f.scope # {} => aud \in db.optedIn
  BY NoErrandOK DEF NoErrand, Errand
<1>2. MintOK(f) /\ ServiceOK(f) /\ UserinfoOK(f) /\ WriteOK(f)
  BY <1>1 DEF MintOK, FactorsAsked, ServiceOK, UserinfoOK, WriteOK
<1>3. QED
  BY <1>1, <1>2, ComeInv DEF HandleClientCredentials

LEMMA UserinfoInv == ASSUME TokensInv, Userinfo PROVE TokensInv'
<1>1. PICK u \in Bearers : u = token.sub /\ u \notin db.inactive
                           /\ Come([NoErrand EXCEPT !.kind = "userinfo", !.who = u])
  BY DEF Userinfo, VerifyAccessToken, TokensInv, TokensTypeOK, BearerToken
<1> DEFINE e == [NoErrand EXCEPT !.kind = "userinfo", !.who = u]
           f == [e EXCEPT !.seen = {db}]
<1>2. e \in Errand /\ f.kind = "userinfo" /\ f.who = u /\ f.seen = {db}
  BY NoErrandOK DEF NoErrand, Errand
<1>3. MintOK(f) /\ ServiceOK(f) /\ UserinfoOK(f) /\ WriteOK(f)
  BY <1>1, <1>2 DEF MintOK, FactorsAsked, ServiceOK, UserinfoOK, WriteOK, Userinfo,
     VerifyAccessToken
<1>4. QED
  BY <1>1, <1>2, <1>3, ComeInv DEF Userinfo

LEMMA WriteInv ==
  ASSUME TokensInv, NEW u \in Bearers, NEW r \in BearerRoles, ResolveAndAuthorize(u, r)
  PROVE  TokensInv'
<1> DEFINE e == [NoErrand EXCEPT !.kind = "write", !.who = u, !.role = r, !.app = token.azp]
           f == [e EXCEPT !.seen = {db}]
<1>1. /\ token # Nobody /\ token \in BearerToken /\ token.scope # {}
      /\ OwnAffair(token.azp, u, r) /\ Carried(db, r) \cap SystemPermissions = {}
  BY DEF ResolveAndAuthorize, CanActivate, VerifyServiceAccessToken, TokensInv, TokensTypeOK
<1>2. token.earned /\ token.azp \in Audiences \cup {Nobody}
  BY <1>1 DEF TokensInv, TokenOK, BearerToken
<1>3. /\ e \in Errand /\ f.kind = "write" /\ f.who = u /\ f.role = r /\ f.app = token.azp
      /\ f.seen = {db}
  BY <1>2, NoErrandOK DEF NoErrand, Errand
<1>4. MintOK(f) /\ ServiceOK(f) /\ UserinfoOK(f) /\ WriteOK(f)
  BY <1>1, <1>2, <1>3 DEF MintOK, FactorsAsked, ServiceOK, UserinfoOK, WriteOK
<1>5. QED
  BY <1>3, <1>4, ComeInv DEF ResolveAndAuthorize

\* A request that mints a token goes on: its kind, its reads and what it saw fit.
LEMMA MintGoesOn ==
  ASSUME TokensInv, errand.kind # "none", errand'.kind = "mint", errand' \in Errand,
         errand'.seen = errand.seen, MintOK(errand)', UNCHANGED <<db, changes, token>>
  PROVE  TokensInv'
BY DEF TokensInv, TokensTypeOK, TokenOK, ServiceOK, UserinfoOK, WriteOK

LEMMA SecondFactorInv == ASSUME TokensInv, SecondFactor PROVE TokensInv'
<1> DEFINE asked == "otp" \in errand.amr \/ errand.who \in db.enrolled
<1>1. /\ errand \in Errand /\ errand.kind = "direct" /\ db \in errand.seen /\ MintOK(errand)
  BY DEF SecondFactor, TokensInv, TokensTypeOK
<1>2. errand' = [errand EXCEPT !.kind = "mint", !.left = Reads,
                               !.amr = IF asked THEN {"pwd", "otp", "mfa"} ELSE errand.amr]
  BY DEF SecondFactor
<1>3. /\ errand' \in Errand /\ errand'.kind = "mint" /\ errand'.seen = errand.seen
      /\ errand'.who = errand.who /\ errand'.app = errand.app
      /\ "mfa" \notin errand'.amr => ~asked
      /\ errand'.linked = {} /\ errand'.permissions = {} /\ errand'.roles = {}
  BY <1>1, <1>2 DEF Errand, MintOK
<1>4. FactorsAsked(errand')
  BY <1>1, <1>3 DEF MintOK, FactorsAsked
<1>5. MintOK(errand')
  BY <1>1, <1>3, <1>4 DEF MintOK, LinksSeen, PermissionsSeen, RolesSeen
<1>6. MintOK(errand)'
  BY <1>5 DEF MintOK, FactorsAsked, LinksSeen, PermissionsSeen, RolesSeen
<1>7. QED
  BY <1>1, <1>3, <1>6, MintGoesOn DEF SecondFactor

LEMMA ReadInv ==
  ASSUME TokensInv, ReadLinks \/ ReadGrants \/ ReadDirect \/ ReadRoles
  PROVE  TokensInv'
<1>1. /\ errand \in Errand /\ errand.kind = "mint" /\ db \in errand.seen /\ db \in World
      /\ MintOK(errand) /\ UNCHANGED <<db, changes, token>>
  BY DEF ReadLinks, ReadGrants, ReadDirect, ReadRoles, Read, TokensInv, TokensTypeOK
<1>2. LinksSeen(errand) /\ PermissionsSeen(errand) /\ RolesSeen(errand) /\ FactorsAsked(errand)
      /\ errand.who \in Bearers /\ errand.app \in Audiences
  BY <1>1 DEF MintOK
<1> DEFINE mine(R) == {p \in BearerPermissions : \E r \in R : <<r, p>> \in db.grants}
           direct == {p \in BearerPermissions : <<errand.who, p>> \in db.direct}
<1>3. CASE ReadLinks
  <2>1. errand' = [errand EXCEPT !.left = errand.left \ {"links"}, !.linked = RolesOf(errand.who)]
    BY <1>3 DEF ReadLinks
  <2>2. /\ errand' \in Errand /\ errand'.kind = "mint" /\ errand'.seen = errand.seen
        /\ errand'.who = errand.who /\ errand'.app = errand.app /\ errand'.amr = errand.amr
        /\ errand'.permissions = errand.permissions /\ errand'.roles = errand.roles
        /\ errand'.linked = RolesOf(errand.who)
    BY <1>1, <2>1 DEF Errand, RolesOf
  <2>3. MintOK(errand)'
    BY <1>1, <1>2, <2>2 DEF MintOK, LinksSeen, PermissionsSeen, RolesSeen, FactorsAsked, RolesOf
  <2>4. QED
    BY <1>1, <2>2, <2>3, MintGoesOn
<1>4. ASSUME NEW read, NEW found \in SUBSET BearerPermissions,
             errand' = [errand EXCEPT !.left = errand.left \ {read},
                          !.permissions = errand.permissions \cup Claimable(found, errand.app)],
             \A p \in found :
               \/ \E w \in errand.seen : <<errand.who, p>> \in w.direct
               \/ \E r \in BearerRoles :
                    /\ \E w \in errand.seen : <<errand.who, r>> \in w.holds
                    /\ \E w \in errand.seen : <<r, p>> \in w.grants
      PROVE  TokensInv'
  <2>1. /\ errand' \in Errand /\ errand'.kind = "mint" /\ errand'.seen = errand.seen
        /\ errand'.who = errand.who /\ errand'.app = errand.app /\ errand'.amr = errand.amr
        /\ errand'.linked = errand.linked /\ errand'.roles = errand.roles
        /\ errand'.permissions = errand.permissions \cup Claimable(found, errand.app)
    BY <1>1, <1>4 DEF Errand, Claimable
  <2>2. PermissionsSeen(errand)'
    BY <1>2, <1>4, <2>1 DEF PermissionsSeen, Claimable
  <2>3. MintOK(errand)'
    BY <1>1, <1>2, <2>1, <2>2 DEF MintOK, LinksSeen, RolesSeen, FactorsAsked
  <2>4. QED
    BY <1>1, <2>1, <2>3, MintGoesOn
<1>5. CASE ReadGrants
  <2>1. errand.linked \subseteq BearerRoles
    BY <1>1 DEF Errand
  <2>2. \A p \in mine(errand.linked) :
          \E r \in BearerRoles : /\ \E w \in errand.seen : <<errand.who, r>> \in w.holds
                                 /\ \E w \in errand.seen : <<r, p>> \in w.grants
    BY <1>1, <1>2, <2>1 DEF LinksSeen
  <2>3. QED
    BY <1>4, <1>5, <2>2 DEF ReadGrants
<1>6. CASE ReadDirect
  <2>1. \A p \in direct : \E w \in errand.seen : <<errand.who, p>> \in w.direct
    BY <1>1
  <2>2. QED
    BY <1>4, <1>6, <2>1 DEF ReadDirect
<1>7. CASE ReadRoles
  <2>1. errand' = [errand EXCEPT !.left = errand.left \ {"roles"},
                     !.roles = {r \in RolesOf(errand.who) : AppOf[r] = errand.app}]
    BY <1>7 DEF ReadRoles
  <2>2. /\ errand' \in Errand /\ errand'.kind = "mint" /\ errand'.seen = errand.seen
        /\ errand'.who = errand.who /\ errand'.app = errand.app /\ errand'.amr = errand.amr
        /\ errand'.permissions = errand.permissions /\ errand'.linked = errand.linked
        /\ errand'.roles = {r \in RolesOf(errand.who) : AppOf[r] = errand.app}
    BY <1>1, <2>1 DEF Errand, RolesOf
  <2>3. MintOK(errand)'
    BY <1>1, <1>2, <2>2 DEF MintOK, LinksSeen, PermissionsSeen, RolesSeen, FactorsAsked, RolesOf
  <2>4. QED
    BY <1>1, <2>2, <2>3, MintGoesOn
<1>8. QED
  BY <1>3, <1>5, <1>6, <1>7

LEMMA IssueInv == ASSUME TokensInv, IssueJwt \/ IssueServiceJwt PROVE TokensInv'
<1>1. errand \in Errand /\ MintOK(errand) /\ ServiceOK(errand) /\ 0 \in 0 .. UserTtl
  BY TokenAssumption DEF TokensInv, TokensTypeOK
<1>2. CASE IssueJwt
  <2>1. token' \in BearerToken /\ token'.scope = {}
    BY <1>1, <1>2 DEF IssueJwt, BearerToken, MintOK
  <2>2. QED
    BY <1>2, <2>1, LeaveInv DEF IssueJwt, TokenOK, TokensInv, TokensTypeOK
<1>3. CASE IssueServiceJwt
  <2>1. /\ token' \in BearerToken /\ token'.scope = errand.scope
        /\ token'.earned = \E w \in errand.seen : errand.app \in w.optedIn
    BY <1>1, <1>3 DEF IssueServiceJwt, BearerToken, ServiceOK, Errand
  <2>2. TokenOK'
    BY <1>1, <1>3, <2>1 DEF IssueServiceJwt, ServiceOK, TokenOK
  <2>3. QED
    BY <1>3, <2>1, <2>2, LeaveInv DEF IssueServiceJwt, TokensInv, TokensTypeOK
<1>4. QED
  BY <1>2, <1>3

LEMMA EndInv == ASSUME TokensInv, FailErrand \/ BuildScopedClaims \/ SetEdge PROVE TokensInv'
<1>1. UNCHANGED <<changes, token>> /\ Leave
  BY DEF FailErrand, BuildScopedClaims, SetEdge
<1>2. db' \in World
  <2>1. CASE SetEdge
    <3>1. <<errand.who, errand.role>> \in Universe.holds /\ db \in World
      BY <2>1 DEF SetEdge, TokensInv, TokensTypeOK, WriteOK, Universe
    <3>2. PICK holds \in SUBSET Universe.holds : db' = [db EXCEPT !.holds = holds]
      BY <2>1, <3>1 DEF SetEdge, World
    <3>3. QED
      BY <3>1, <3>2 DEF World
  <2>2. CASE db' = db
    BY <2>2 DEF TokensInv, TokensTypeOK
  <2>3. QED
    BY <2>1, <2>2 DEF FailErrand, BuildScopedClaims
<1>3. QED
  BY <1>1, <1>2, LeaveInv DEF TokensInv, TokensTypeOK, TokenOK

\* One more state of the world is seen: nothing that was seen is lost.
LEMMA ChangeInv == ASSUME TokensInv, ChangeByOthers PROVE TokensInv'
<1>1. /\ errand \in Errand /\ db \in World /\ token' = token /\ changes' \in 0 .. MaxChanges
  BY TokenAssumption DEF ChangeByOthers, TokensInv, TokensTypeOK
<1>2. db' \in World
  <2>1. PICK f \in DOMAIN db :
          \E e \in Turning[f] : db' = [db EXCEPT ![f] = (db[f] \ {e}) \cup ({e} \ db[f])]
    BY DEF ChangeByOthers
  <2>2. PICK e \in Turning[f] : db' = [db EXCEPT ![f] = (db[f] \ {e}) \cup ({e} \ db[f])]
    BY <2>1
  <2>3. DOMAIN db = DOMAIN Universe /\ f \in DOMAIN Universe /\ e \in Universe[f]
    BY <1>1, <2>1, <2>2, TurningAssumption DEF World, Universe
  <2>4. (db[f] \ {e}) \cup ({e} \ db[f]) \subseteq Universe[f]
    BY <1>1, <2>3 DEF World, Universe
  <2>5. QED
    BY <1>1, <2>2, <2>3, <2>4 DEF World, Universe
<1>3. CASE errand.kind = "none"
  BY <1>1, <1>2, <1>3 DEF ChangeByOthers, TokensInv, TokensTypeOK, TokenOK, MintOK, ServiceOK,
     UserinfoOK, WriteOK, FactorsAsked
<1>4. CASE errand.kind # "none"
  <2>1. errand' = [errand EXCEPT !.seen = errand.seen \cup {db'}]
    BY <1>4 DEF ChangeByOthers
  <2>2. /\ errand' \in Errand /\ errand'.seen = errand.seen \cup {db'}
        /\ errand'.kind = errand.kind /\ errand'.who = errand.who /\ errand'.app = errand.app
        /\ errand'.role = errand.role /\ errand'.amr = errand.amr /\ errand'.scope = errand.scope
        /\ errand'.linked = errand.linked /\ errand'.permissions = errand.permissions
        /\ errand'.roles = errand.roles
    BY <1>1, <1>2, <2>1 DEF Errand
  <2>3. FactorsAsked(errand)' /\ ServiceOK(errand)' /\ UserinfoOK(errand)' /\ WriteOK(errand)'
    BY <1>1, <2>2 DEF TokensInv, FactorsAsked, MintOK, ServiceOK, UserinfoOK, WriteOK
  <2>4. errand.kind = "mint" =>
          LinksSeen(errand)' /\ PermissionsSeen(errand)' /\ RolesSeen(errand)'
    BY <2>2 DEF TokensInv, MintOK, LinksSeen, PermissionsSeen, RolesSeen
  <2>5. MintOK(errand)'
    BY <2>2, <2>3, <2>4 DEF TokensInv, MintOK
  <2>6. QED
    BY <1>1, <1>2, <2>2, <2>3, <2>5 DEF TokensInv, TokensTypeOK, TokenOK
<1>5. QED
  BY <1>3, <1>4

LEMMA AgeInv == ASSUME TokensInv, TokenAges PROVE TokensInv'
<1>1. token \in BearerToken /\ token.age + 1 \in 0 .. UserTtl
  BY TokenAssumption DEF TokenAges, TokensInv, TokensTypeOK, BearerToken
<1>2. token' \in BearerToken /\ token'.scope = token.scope /\ token'.earned = token.earned
  BY <1>1 DEF TokenAges, BearerToken
<1>3. QED
  BY <1>1, <1>2 DEF TokenAges, TokensInv, TokensTypeOK, TokenOK, MintOK, ServiceOK, UserinfoOK,
     WriteOK, FactorsAsked

LEMMA TokensNextInv == TokensInv /\ [TokensNext]_tokenVars => TokensInv'
<1> SUFFICES ASSUME TokensInv, [TokensNext]_tokenVars PROVE TokensInv'
  OBVIOUS
<1>1. CASE UNCHANGED tokenVars
  BY <1>1 DEF tokenVars, TokensInv, TokensTypeOK, TokenOK, MintOK, ServiceOK, UserinfoOK,
     WriteOK, FactorsAsked, LinksSeen, PermissionsSeen, RolesSeen
<1>2. QED
  BY <1>1, DirectInv, ClientInv, WriteInv, UserinfoInv, SecondFactorInv, ReadInv, IssueInv,
     EndInv, ChangeInv, AgeInv DEF TokensNext

\* Each variable of the tokens' model has its type.
THEOREM TokensTypeCorrect == TokensSpec => []TokensTypeOK
<1>1. TokensInv => TokensTypeOK
  BY DEF TokensInv
<1>2. QED
  BY TokensInitInv, TokensNextInv, <1>1, PTL DEF TokensSpec

\* For any users, roles, permissions and apps, however often others change them while a
\* token is minted: what it says was so.
THEOREM TokensAreTrue == TokensSpec => TokensTellTheTruth
<1> DEFINE Said ==
      /\ IssueJwt =>
           /\ \A p \in errand.permissions : InAudience(p, errand.app) /\ WasHeld(errand.who, p)
           /\ \A r \in errand.roles :
                AppOf[r] = errand.app /\ \E w \in errand.seen : <<errand.who, r>> \in w.holds
           /\ "mfa" \in errand.amr \/ PasswordWillDo(errand.who, errand.app)
      /\ BuildScopedClaims =>
           /\ errand.who = token.sub
           /\ \E w \in errand.seen : errand.who \notin w.inactive
<1>1. TokensInv => Said
  BY DEF TokensInv, MintOK, FactorsAsked, PermissionsSeen, RolesSeen, UserinfoOK, IssueJwt,
     BuildScopedClaims, WasHeld, PasswordWillDo
<1>2. QED
  BY TokensInitInv, TokensNextInv, <1>1, PTL DEF TokensSpec, TokensTellTheTruth

\* For any apps: a service token ties only its app's users to its app's roles.
THEOREM ServiceKeepsItsPlace == TokensSpec => ServiceKeepsToItsApp
<1> DEFINE Kept ==
      SetEdge =>
        /\ token.earned /\ token.azp = errand.app
        /\ AppOf[errand.who] = token.azp /\ AppOf[errand.role] = token.azp
        /\ \E w \in errand.seen : Carried(w, errand.role) \cap SystemPermissions = {}
<1>1. TokensInv => Kept
  BY DEF TokensInv, WriteOK, SetEdge, OwnAffair
<1>2. QED
  BY TokensInitInv, TokensNextInv, <1>1, PTL DEF TokensSpec, ServiceKeepsToItsApp

-----------------------------------------------------------------------------
(* Pages *)

\* The calls that end in a session of their own.
Signing == {"signIn", "verifyOtp", "verify", "social"}

\* While a call is under way its page stays.
AtItsPage(kind, page) ==
  /\ kind \in {"signIn", "social"} => page = "login"
  /\ kind = "verifyOtp" => page = "code"
  /\ kind = "verify" => page = "challenge"
  /\ kind = "accept" => page = "consent"
  /\ kind = "authorize" => page = "blank"

\* Which tokens there can be, and who may hold one that its owner's request replaced.
TokensOK(j, c) ==
  /\ c.session # "rotated"
  /\ j.session = "rotated" =>
       c.kind \in {"confirm", "disable"} /\ c.at \in {"revoke", "ok"} /\ c.session # None
  /\ user.swept => j.session # "plain" /\ c.session # "plain"
  /\ ~user.on => j.session # "strong" /\ c.session # "strong"

\* What a call that signs in knows of the second factor.
LookupsOK(c) ==
  /\ c.at \in {"consent", "reads", "challenged", "consentDue", "promptDue"} => c.kind \in Signing
  /\ c.kind \in Signing /\ ~user.on => c.off
  /\ c.at = "consent" => "flag" \in c.unread
  /\ c.at = "reads" /\ "flag" \notin c.unread /\ c.known /\ ~c.flag =>
       c.off \/ ~Alive(c.session)

\* Who is past the consent gate, and for whom it still lies ahead.
ConsentOK(c, t) ==
  /\ c.kind \in Signing /\ c.at \in {"reads", "promptDue", "next"}
       /\ t.next = "app" /\ ~t.excused => ~Outstanding
  /\ c.kind = "accept" /\ c.at = "next" => user.accepted
  /\ t.signed /\ ~t.excused => ~Outstanding \/ t.page \in {"gate", "consent"}

BrowserOK(b) ==
  /\ AtItsPage(call[b].kind, tab[b].page)
  /\ TokensOK(jar[b], call[b])
  /\ LookupsOK(call[b])
  /\ ConsentOK(call[b], tab[b])

\* The sessions nobody holds any longer.
StrayOK ==
  /\ user.swept => user.on /\ stray # "plain"
  /\ ~user.on => stray # "strong"

PagesInv ==
  /\ TypeOK /\ StrayOK
  /\ \A b \in Browsers : BrowserOK(b)

LEMMA NoneElse ==
  /\ None # "plain" /\ None # "strong" /\ None # "dead" /\ None # "rotated" /\ None # "app"
  /\ None \notin Kinds /\ None \notin Signing /\ Signing \subseteq Kinds
BY NoneAssumption DEF Kinds, Signing

LEMMA IdleCallTyped ==
  /\ IdleCall \in Call /\ IdleCall.kind = None /\ IdleCall.at = "rest"
  /\ IdleCall.session = None /\ IdleCall.off = FALSE
BY DEF IdleCall, Call, Token

LEMMA PagesInitInv == Init => PagesInv
<1> SUFFICES ASSUME Init PROVE PagesInv
  OBVIOUS
<1>1. /\ app \in App /\ user = NewUser /\ trusted = {} /\ stray = None
      /\ \A b \in Browsers : jar[b] = EmptyJar /\ call[b] = IdleCall /\ tab[b] = NewTab
      /\ jar \in [Browsers -> {EmptyJar}] /\ call \in [Browsers -> {IdleCall}]
      /\ tab \in [Browsers -> {NewTab}]
  BY SettingsAssumption DEF Init, InitServer
<1>2. EmptyJar \in Jar /\ NewTab \in Tab /\ NewUser \in User
  BY DEF EmptyJar, Jar, Token, NewTab, Tab, NewUser, User
<1>3. TypeOK
  BY <1>1, <1>2, IdleCallTyped DEF TypeOK
<1>4. \A b \in Browsers : BrowserOK(b)
  BY <1>1, IdleCallTyped, NoneElse DEF BrowserOK, AtItsPage, TokensOK, LookupsOK, ConsentOK,
     EmptyJar, NewTab, Kinds
<1>5. StrayOK
  BY <1>1, NoneElse DEF StrayOK, NewUser
<1>6. QED
  BY <1>3, <1>4, <1>5 DEF PagesInv

-----------------------------------------------------------------------------
(* The shape of the steps *)

\* No browser but b moves.
OnlyMoves(b) ==
  \A x \in Browsers \ {b} : jar'[x] = jar[x] /\ call'[x] = call[x] /\ tab'[x] = tab[x]

\* The account changes in no way that others rely on it not to.
Gently ==
  /\ user.accepted => user'.accepted
  /\ user'.swept => user.swept
  /\ user.on => user'.on

LEMMA OneMoves ==
  ASSUME PagesInv, NEW b \in Browsers, OnlyMoves(b), Gently, TypeOK', app' = app,
         StrayOK', BrowserOK(b)'
  PROVE  PagesInv'
<1>1. ASSUME NEW x \in Browsers \ {b} PROVE BrowserOK(x)'
  <2>1. BrowserOK(x) /\ jar'[x] = jar[x] /\ call'[x] = call[x] /\ tab'[x] = tab[x]
    BY DEF PagesInv, OnlyMoves
  <2>2. TokensOK(jar[x], call[x])'
    BY <2>1 DEF BrowserOK, TokensOK, Gently
  <2>3. LookupsOK(call[x])'
    BY <2>1 DEF BrowserOK, LookupsOK, Gently, Alive
  <2>4. ConsentOK(call[x], tab[x])'
    BY <2>1 DEF BrowserOK, ConsentOK, Gently, Outstanding
  <2>5. QED
    BY <2>1, <2>2, <2>3, <2>4 DEF BrowserOK
<1>2. QED
  BY <1>1 DEF PagesInv

\* A call begins.
LEMMA BeginCall ==
  ASSUME TypeOK, NEW b \in Browsers, NEW kind \in Kinds, NEW trust \in BOOLEAN,
         Begin(b, kind, trust)
  PROVE  /\ call' \in [Browsers -> Call]
         /\ \A x \in Browsers \ {b} : call'[x] = call[x]
         /\ call[b].kind = None
         /\ call'[b].kind = kind /\ call'[b].at = "post" /\ call'[b].session = None
         /\ call'[b].off = ~user.on
<1>1. call' = [call EXCEPT ![b] = [IdleCall EXCEPT !.kind = kind, !.at = "post",
                 !.trust = trust, !.off = ~user.on]]
  BY DEF Begin
<1>2. PICK c \in Call : /\ c = [IdleCall EXCEPT !.kind = kind, !.at = "post",
                                   !.trust = trust, !.off = ~user.on]
                        /\ c.kind = kind /\ c.at = "post" /\ c.session = None
                        /\ c.off = ~user.on
  <2>1. user.on \in BOOLEAN
    BY DEF TypeOK, User
  <2>2. [IdleCall EXCEPT !.kind = kind, !.at = "post", !.trust = trust, !.off = ~user.on] \in Call
    BY <2>1, IdleCallTyped DEF Call
  <2>3. QED
    BY <2>1, <2>2, IdleCallTyped DEF IdleCall
<1>3. QED
  BY <1>1, <1>2 DEF TypeOK, Begin, Idle

\* A call is over.
LEMMA RestCall ==
  ASSUME TypeOK, NEW b \in Browsers, Rest(b)
  PROVE  /\ call' \in [Browsers -> Call] /\ call'[b] = IdleCall
         /\ \A x \in Browsers \ {b} : call'[x] = call[x]
BY IdleCallTyped DEF TypeOK, Rest

Pages == {"blank", "login", "code", "challenge", "gate", "consent", "prompt", "security",
          "reset", "console", "app", "oauthError", "refused"}

LEMMA TurnTab ==
  ASSUME TypeOK, NEW b \in Browsers, NEW page \in Pages, Turn(b, page)
  PROVE  /\ tab' \in [Browsers -> Tab]
         /\ \A x \in Browsers \ {b} : tab'[x] = tab[x]
         /\ tab'[b].page = page /\ tab'[b].next = tab[b].next
         /\ tab'[b].signed = tab[b].signed /\ tab'[b].excused = tab[b].excused
<1>1. tab[b] \in Tab /\ tab \in [Browsers -> Tab]
  BY DEF TypeOK
<1>2. PICK step \in {"email", "idle"} : step = IF page = "code" THEN "email" ELSE "idle"
  OBVIOUS
<1>3. PICK t \in Tab :
        /\ t = [tab[b] EXCEPT !.page = page, !.step = step, !.forced = FALSE, !.enabled = FALSE]
        /\ t.page = page /\ t.next = tab[b].next
        /\ t.signed = tab[b].signed /\ t.excused = tab[b].excused
  <2>1. [tab[b] EXCEPT !.page = page, !.step = step, !.forced = FALSE, !.enabled = FALSE] \in Tab
    BY <1>1 DEF Tab, Pages
  <2>2. QED
    BY <1>1, <2>1 DEF Tab
<1>4. tab' = [tab EXCEPT ![b] = t]
  BY <1>2, <1>3 DEF Turn
<1>5. QED
  BY <1>1, <1>3, <1>4

LEMMA VisitTab ==
  ASSUME TypeOK, NEW b \in Browsers, NEW page \in Pages, NEW next \in {None, "app"},
         Visit(b, page, next)
  PROVE  /\ tab' \in [Browsers -> Tab]
         /\ \A x \in Browsers \ {b} : tab'[x] = tab[x]
         /\ tab'[b].page = page /\ tab'[b].next = next
         /\ tab'[b].signed = FALSE /\ tab'[b].excused = FALSE
<1>1. PICK t \in Tab :
        /\ t = [NewTab EXCEPT !.page = page, !.next = next]
        /\ t.page = page /\ t.next = next /\ t.signed = FALSE /\ t.excused = FALSE
  <2>1. [NewTab EXCEPT !.page = page, !.next = next] \in Tab
    BY DEF Tab, Pages, NewTab
  <2>2. QED
    BY <2>1 DEF NewTab
<1>2. tab' = [tab EXCEPT ![b] = t]
  BY <1>1 DEF Visit
<1>3. QED
  BY <1>1, <1>2 DEF TypeOK

LEMMA SecurityTab ==
  ASSUME TypeOK, NEW b \in Browsers, NEW forced \in BOOLEAN, NEW next \in {None, "app"},
         SecurityPage(b, forced, next)
  PROVE  /\ tab' \in [Browsers -> Tab]
         /\ \A x \in Browsers \ {b} : tab'[x] = tab[x]
         /\ tab'[b].page \in {"security", "login"}
         /\ tab'[b].signed => tab[b].signed
         /\ tab'[b].signed => tab'[b].excused = tab[b].excused
<1>1. tab[b] \in Tab /\ tab \in [Browsers -> Tab] /\ user.on \in BOOLEAN
  BY DEF TypeOK, User
<1>2. CASE ~Alive(jar[b].session)
  BY <1>2, VisitTab DEF SecurityPage, Pages
<1>3. CASE Alive(jar[b].session)
  <2>1. PICK t \in Tab :
          /\ t = [tab[b] EXCEPT !.page = "security", !.step = "idle",
                    !.next = next, !.forced = forced, !.enabled = user.on]
          /\ t.page = "security" /\ t.signed = tab[b].signed /\ t.excused = tab[b].excused
    <3>1. [tab[b] EXCEPT !.page = "security", !.step = "idle",
             !.next = next, !.forced = forced, !.enabled = user.on] \in Tab
      BY <1>1 DEF Tab
    <3>2. QED
      BY <1>1, <3>1 DEF Tab
  <2>2. tab' = [tab EXCEPT ![b] = t]
    BY <1>3, <2>1 DEF SecurityPage
  <2>3. QED
    BY <1>1, <2>1, <2>2
<1>4. QED
  BY <1>2, <1>3

\* The way on after a page: an authorize request, or the console.
LEMMA GoOnBrowser ==
  ASSUME TypeOK, NEW b \in Browsers, GoOn(b)
  PROVE  /\ call' \in [Browsers -> Call] /\ tab' \in [Browsers -> Tab]
         /\ \A x \in Browsers \ {b} : call'[x] = call[x] /\ tab'[x] = tab[x]
         /\ call'[b].session = None /\ call'[b].at \in {"rest", "post"}
         /\ \/ call'[b].kind = None
            \/ call'[b].kind = "authorize" /\ tab'[b].page = "blank"
         /\ tab'[b].signed = tab[b].signed /\ tab'[b].excused = tab[b].excused
<1>1. CASE tab[b].next = "app"
  <2>1. PICK c \in Call :
          /\ c = [IdleCall EXCEPT !.kind = "authorize", !.at = "post"]
          /\ c.kind = "authorize" /\ c.at = "post" /\ c.session = None
    <3>1. [IdleCall EXCEPT !.kind = "authorize", !.at = "post"] \in Call
      BY IdleCallTyped DEF Call, Kinds
    <3>2. QED
      BY <3>1, IdleCallTyped DEF IdleCall
  <2>2. call' = [call EXCEPT ![b] = c] /\ Turn(b, "blank")
    BY <1>1, <2>1 DEF GoOn
  <2>3. QED
    BY <2>1, <2>2, TurnTab DEF TypeOK, Pages
<1>2. CASE tab[b].next # "app"
  BY <1>2, RestCall, IdleCallTyped, TurnTab DEF GoOn, Pages
<1>3. QED
  BY <1>1, <1>2

Stages == {"rest", "post", "revoke", "consent", "reads", "challenged", "consentDue",
           "promptDue", "next", "login", "enroll", "ok"}

LEMMA GoCall ==
  ASSUME TypeOK, NEW b \in Browsers, NEW stage \in Stages, Go(b, stage)
  PROVE  /\ call' \in [Browsers -> Call]
         /\ \A x \in Browsers \ {b} : call'[x] = call[x]
         /\ call'[b].at = stage
         /\ call'[b].kind = call[b].kind /\ call'[b].session = call[b].session
         /\ call'[b].off = call[b].off /\ call'[b].flag = call[b].flag
         /\ call'[b].unread = call[b].unread /\ call'[b].known = call[b].known
<1>1. call[b] \in Call /\ call \in [Browsers -> Call]
  BY DEF TypeOK
<1>2. PICK c \in Call :
        /\ c = [call[b] EXCEPT !.at = stage] /\ c.at = stage
        /\ c.kind = call[b].kind /\ c.session = call[b].session
        /\ c.off = call[b].off /\ c.flag = call[b].flag
        /\ c.unread = call[b].unread /\ c.known = call[b].known
  <2>1. [call[b] EXCEPT !.at = stage] \in Call
    BY <1>1 DEF Call, Stages
  <2>2. QED
    BY <1>1, <2>1 DEF Call
<1>3. call' = [call EXCEPT ![b] = c]
  BY <1>1, <1>2 DEF Go
<1>4. QED
  BY <1>1, <1>2, <1>3

\* The kind of session that begins fits the account.
LEMMA AdmitCall ==
  ASSUME TypeOK, NEW b \in Browsers, NEW stage \in Stages, Admit(b, stage)
  PROVE  /\ call' \in [Browsers -> Call]
         /\ \A x \in Browsers \ {b} : call'[x] = call[x]
         /\ call'[b].at = stage /\ call'[b].session = Begun
         /\ call'[b].kind = call[b].kind /\ call'[b].off = call[b].off
         /\ "flag" \in call'[b].unread
<1>1. call[b] \in Call /\ call \in [Browsers -> Call] /\ Begun \in Token
  BY DEF TypeOK, Begun, Token
<1>2. PICK c \in Call :
        /\ c = [call[b] EXCEPT !.session = Begun, !.at = stage, !.unread = {"flag", "prompted"}]
        /\ c.at = stage /\ c.session = Begun /\ "flag" \in c.unread
        /\ c.kind = call[b].kind /\ c.off = call[b].off
  <2>1. [call[b] EXCEPT !.session = Begun, !.at = stage, !.unread = {"flag", "prompted"}] \in Call
    BY <1>1 DEF Call, Stages
  <2>2. QED
    BY <1>1, <2>1 DEF Call
<1>3. call' = [call EXCEPT ![b] = c]
  BY <1>1, <1>2 DEF Admit
<1>4. QED
  BY <1>1, <1>2, <1>3

-----------------------------------------------------------------------------
(* What the user does *)

LEMMA SubmitInv ==
  ASSUME PagesInv, NEW b \in Browsers, NEW kind \in Kinds, NEW trust \in BOOLEAN,
         Begin(b, kind, trust), AtItsPage(kind, tab[b].page), UNCHANGED <<account, jar, tab>>
  PROVE  PagesInv'
<1>1. TypeOK /\ StrayOK /\ BrowserOK(b) /\ UNCHANGED <<uses, app, user, trusted, stray, jar, tab>>
  BY DEF PagesInv, account, setting
<1>2. /\ call' \in [Browsers -> Call]
      /\ \A x \in Browsers \ {b} : call'[x] = call[x]
      /\ call[b].kind = None
      /\ call'[b].kind = kind /\ call'[b].at = "post" /\ call'[b].session = None
      /\ call'[b].off = ~user.on
  BY <1>1, BeginCall
<1>3. BrowserOK(b)'
  BY <1>1, <1>2, NoneElse DEF BrowserOK, AtItsPage, TokensOK, LookupsOK, ConsentOK, Outstanding,
     Kinds
<1>4. TypeOK' /\ StrayOK' /\ OnlyMoves(b) /\ Gently
  BY <1>1, <1>2 DEF TypeOK, StrayOK, OnlyMoves, Gently
<1>5. QED
  BY <1>1, <1>3, <1>4, OneMoves

\* A token that may lie anywhere but in the jar of the browser whose request
\* replaced it.
Fits(held) ==
  /\ held # "rotated"
  /\ user.swept => held # "plain"
  /\ ~user.on => held # "strong"

LEMMA HeldTokensFit ==
  ASSUME PagesInv, NEW b \in Browsers
  PROVE  /\ Fits(stray) /\ Fits(call[b].session) /\ Fits(None) /\ Fits(Begun) /\ Fits("dead")
         /\ call[b].kind \notin {"confirm", "disable"} \/ call[b].at \notin {"revoke", "ok"} =>
              Fits(jar[b].session)
         /\ jar[b].session # "rotated" => Fits(jar[b].session)
BY NoneElse DEF PagesInv, TypeOK, StrayOK, BrowserOK, TokensOK, Fits, Begun

LEMMA OldestFits ==
  ASSUME NEW s \in {None, "plain", "strong"}, NEW t, Fits(s), Fits(t) \/ t = "rotated"
  PROVE  Fits(Oldest(s, t)) /\ Oldest(s, t) \in {None, "plain", "strong"}
BY NoneElse DEF Fits, Oldest

\* Nothing the sessions and the gates depend on changes in the account.
Alike == user' \in User /\ user'.accepted = user.accepted /\ user'.on = user.on
           /\ user'.swept = user.swept

\* Another page, or another look of it, while no call is under way.
LEMMA ShowInv ==
  ASSUME PagesInv, NEW b \in Browsers, call[b].kind = None,
         UNCHANGED <<setting, trusted, stray, jar, call>>, Alike,
         tab' \in [Browsers -> Tab], \A x \in Browsers \ {b} : tab'[x] = tab[x],
         tab'[b].signed /\ ~tab'[b].excused =>
           /\ tab[b].signed /\ ~tab[b].excused
           /\ tab[b].page \in {"gate", "consent"} => tab'[b].page \in {"gate", "consent"}
  PROVE  PagesInv'
<1>1. TypeOK /\ StrayOK /\ BrowserOK(b)
      /\ UNCHANGED <<uses, app, trusted, stray, jar, call>>
  BY DEF PagesInv, setting
<1>2. BrowserOK(b)'
  BY <1>1, NoneElse DEF BrowserOK, AtItsPage, TokensOK, LookupsOK, ConsentOK, Outstanding, Kinds,
     Signing, Alive, Alike
<1>3. TypeOK' /\ StrayOK' /\ OnlyMoves(b) /\ Gently
  BY <1>1 DEF TypeOK, StrayOK, OnlyMoves, Gently, Alike
<1>4. QED
  BY <1>1, <1>2, <1>3, OneMoves

\* A call ends, or an authorize request follows it.
LEMMA RestInv ==
  ASSUME PagesInv, NEW b \in Browsers, UNCHANGED <<setting, trusted>>, Alike,
         stray' \in {None, "plain", "strong"}, Fits(stray'),
         jar' \in [Browsers -> Jar], Fits(jar'[b].session),
         call' \in [Browsers -> Call], tab' \in [Browsers -> Tab], OnlyMoves(b),
         call'[b].session = None, call'[b].at \in {"rest", "post"},
         \/ call'[b].kind = None
         \/ call'[b].kind = "authorize" /\ tab'[b].page = "blank",
         tab'[b].signed /\ ~tab'[b].excused =>
           ~Outstanding \/ tab'[b].page \in {"gate", "consent"}
  PROVE  PagesInv'
<1>1. TypeOK /\ StrayOK /\ UNCHANGED <<uses, app, trusted>>
  BY DEF PagesInv, setting
<1>2. BrowserOK(b)'
  BY <1>1, NoneElse DEF BrowserOK, AtItsPage, TokensOK, LookupsOK, ConsentOK, Kinds, Signing,
     Fits, Alike, Outstanding
<1>3. TypeOK' /\ StrayOK' /\ Gently
  BY <1>1 DEF TypeOK, StrayOK, Gently, Alike, Fits
<1>4. QED
  BY <1>1, <1>2, <1>3, OneMoves

LEMMA FormInv ==
  ASSUME PagesInv, NEW b \in Browsers,
         \/ SubmitPassword(b) \/ SubmitSocial(b) \/ SubmitOtp(b) \/ SubmitConsent(b)
         \/ \E trust \in BOOLEAN : SubmitChallenge(b, trust)
         \/ SubmitEnable(b) \/ SubmitConfirm(b) \/ SubmitDisable(b) \/ SubmitRegenerate(b)
         \/ SubmitReset(b)
  PROVE  PagesInv'
<1>1. PICK kind \in Kinds, trust \in BOOLEAN :
        Begin(b, kind, trust) /\ AtItsPage(kind, tab[b].page) /\ UNCHANGED <<account, jar, tab>>
  BY DEF SubmitPassword, SubmitSocial, SubmitOtp, SubmitConsent, SubmitChallenge, SubmitEnable,
     SubmitConfirm, SubmitDisable, SubmitRegenerate, SubmitReset, AtItsPage, On, OnStep, Kinds
<1>2. QED
  BY <1>1, SubmitInv

LEMMA BrowseInv ==
  ASSUME PagesInv, NEW b \in Browsers,
         \/ OpenConsole(b) \/ OpenSecurity(b) \/ OpenReset(b) \/ UseCode(b) \/ UsePassword(b)
         \/ ChangeEmail(b) \/ ChooseStep(b)
  PROVE  PagesInv'
<1>1. /\ TypeOK /\ call[b].kind = None /\ Alike
      /\ UNCHANGED <<setting, trusted, stray, jar, call>>
  BY DEF PagesInv, OpenConsole, OpenSecurity, OpenReset, UseCode, UsePassword, ChangeEmail,
     ChooseStep, OnStep, On, Idle, Alike, TypeOK, account
<1>2. CASE OpenConsole(b) \/ OpenReset(b)
  <2>1. PICK page \in Pages : Visit(b, page, None)
    BY <1>2 DEF OpenConsole, OpenReset, Pages
  <2>2. QED
    BY <1>1, <2>1, VisitTab, ShowInv
<1>3. CASE OpenSecurity(b)
  BY <1>1, <1>3, SecurityTab, ShowInv DEF OpenSecurity, On
<1>4. CASE UseCode(b) \/ UsePassword(b)
  <2>1. PICK page \in Pages : Turn(b, page)
    BY <1>4 DEF UseCode, UsePassword, Pages
  <2>2. tab[b].page \notin {"gate", "consent"}
    BY <1>4 DEF UseCode, UsePassword, On
  <2>3. QED
    BY <1>1, <2>1, <2>2, TurnTab, ShowInv
<1>5. CASE ChangeEmail(b) \/ ChooseStep(b)
  <2>1. PICK step \in {"email", "idle", "disabling", "regenerating"} :
          tab' = [tab EXCEPT ![b].step = step]
    BY <1>5 DEF ChangeEmail, ChooseStep
  <2>2. tab[b] \in Tab /\ tab \in [Browsers -> Tab]
    BY <1>1 DEF TypeOK
  <2>3. /\ tab' \in [Browsers -> Tab] /\ \A x \in Browsers \ {b} : tab'[x] = tab[x]
        /\ tab'[b].signed = tab[b].signed /\ tab'[b].excused = tab[b].excused
        /\ tab'[b].page = tab[b].page
    BY <2>1, <2>2 DEF Tab
  <2>4. QED
    BY <1>1, <2>3, ShowInv
<1>6. QED
  BY <1>2, <1>3, <1>4, <1>5

LEMMA OpenInv ==
  ASSUME PagesInv, NEW b \in Browsers, OpenApp(b) \/ \E next \in {None, "app"} : OpenLogin(b, next)
  PROVE  PagesInv'
<1>1. /\ TypeOK /\ call[b].kind = None /\ Alike /\ Fits(stray') /\ Fits(jar'[b].session)
      /\ stray' \in {None, "plain", "strong"} /\ jar' \in [Browsers -> Jar]
      /\ UNCHANGED <<setting, trusted, stray, jar>>
  <2>1. call[b].kind = None /\ UNCHANGED <<user, setting, trusted, stray, jar>>
    BY DEF OpenApp, OpenLogin, Idle, account
  <2>2. Fits(stray) /\ Fits(jar[b].session)
    BY <2>1, NoneElse, HeldTokensFit DEF Kinds
  <2>3. QED
    BY <2>1, <2>2 DEF PagesInv, TypeOK, Alike
<1>2. CASE \E next \in {None, "app"} : Begin(b, "authorize", FALSE) /\ Visit(b, "blank", next)
  <2>1. PICK next \in {None, "app"} : Begin(b, "authorize", FALSE) /\ Visit(b, "blank", next)
    BY <1>2
  <2>2. /\ call' \in [Browsers -> Call] /\ \A x \in Browsers \ {b} : call'[x] = call[x]
        /\ call'[b].kind = "authorize" /\ call'[b].at = "post" /\ call'[b].session = None
    BY <1>1, <2>1, BeginCall DEF Kinds
  <2>3. /\ tab' \in [Browsers -> Tab] /\ \A x \in Browsers \ {b} : tab'[x] = tab[x]
        /\ tab'[b].page = "blank" /\ tab'[b].signed = FALSE
    BY <1>1, <2>1, VisitTab DEF Pages
  <2>4. QED
    BY <1>1, <2>2, <2>3, RestInv DEF OnlyMoves
<1>3. CASE UNCHANGED call /\ \E next \in {None, "app"} : Visit(b, "login", next)
  BY <1>1, <1>3, VisitTab, ShowInv DEF Pages
<1>4. QED
  BY <1>2, <1>3 DEF OpenApp, OpenLogin

\* What rests on the form: a code that is asked for, the page that proposes 2FA.
LEMMA OtpInv ==
  ASSUME PagesInv, NEW b \in Browsers, RequestOtp(b)
  PROVE  PagesInv'
<1>1. /\ TypeOK /\ call[b].kind = None /\ UNCHANGED <<setting, trusted, stray, jar, call>>
      /\ tab[b] \in Tab /\ tab \in [Browsers -> Tab]
  BY DEF PagesInv, TypeOK, RequestOtp, SendSignInOtp, Idle
<1>2. Alike
  <2>1. user \in User
    BY <1>1 DEF TypeOK
  <2>2. PICK otp \in BOOLEAN : user' = [user EXCEPT !.otp = otp]
    BY <2>1 DEF RequestOtp, SendSignInOtp, User
  <2>3. QED
    BY <2>1, <2>2 DEF Alike, User
<1>3. tab' = [tab EXCEPT ![b].step = "code"]
  BY DEF RequestOtp
<1>4. /\ tab' \in [Browsers -> Tab] /\ \A x \in Browsers \ {b} : tab'[x] = tab[x]
      /\ tab'[b].signed = tab[b].signed /\ tab'[b].excused = tab[b].excused
      /\ tab'[b].page = tab[b].page
  BY <1>1, <1>3 DEF Tab
<1>5. QED
  BY <1>1, <1>2, <1>4, ShowInv

LEMMA RecordAlike ==
  ASSUME PagesInv, NEW b \in Browsers, RecordPrompt(b)
  PROVE  Alike /\ UNCHANGED <<setting, trusted, stray, jar>>
<1>1. user \in User
  BY DEF PagesInv, TypeOK
<1>2. user' = [user EXCEPT !.prompted = TRUE] \/ user' = user
  BY DEF RecordPrompt
<1>3. QED
  BY <1>1, <1>2 DEF Alike, User, RecordPrompt

LEMMA PromptInv ==
  ASSUME PagesInv, NEW b \in Browsers, SkipPrompt(b) \/ SetUpTwoFactor(b)
  PROVE  PagesInv'
<1>1. /\ TypeOK /\ call[b].kind = None /\ tab[b].page = "prompt" /\ Alike
      /\ UNCHANGED <<setting, trusted, stray, jar>>
      /\ tab[b].signed /\ ~tab[b].excused => ~Outstanding
  <2>1. RecordPrompt(b) /\ On(b, "prompt")
    BY DEF SkipPrompt, SetUpTwoFactor
  <2>2. QED
    BY <2>1, RecordAlike DEF PagesInv, On, Idle, BrowserOK, ConsentOK
<1>2. CASE SkipPrompt(b)
  <2>1. Fits(stray') /\ Fits(jar'[b].session)
        /\ stray' \in {None, "plain", "strong"} /\ jar' \in [Browsers -> Jar]
    BY <1>1, HeldTokensFit, NoneElse DEF Kinds, TypeOK
  <2>2. GoOn(b)
    BY <1>2 DEF SkipPrompt
  <2>3. /\ call' \in [Browsers -> Call] /\ tab' \in [Browsers -> Tab] /\ OnlyMoves(b)
        /\ call'[b].session = None /\ call'[b].at \in {"rest", "post"}
        /\ \/ call'[b].kind = None
           \/ call'[b].kind = "authorize" /\ tab'[b].page = "blank"
        /\ tab'[b].signed = tab[b].signed /\ tab'[b].excused = tab[b].excused
    BY <1>1, <2>2, GoOnBrowser DEF OnlyMoves
  <2>4. QED
    BY <1>1, <2>1, <2>3, RestInv
<1>3. CASE SetUpTwoFactor(b)
  <2>1. SecurityPage(b, FALSE, tab[b].next) /\ UNCHANGED call /\ tab[b].next \in {None, "app"}
    BY <1>1, <1>3 DEF SetUpTwoFactor, TypeOK, Tab
  <2>2. /\ tab' \in [Browsers -> Tab]
        /\ \A x \in Browsers \ {b} : tab'[x] = tab[x]
        /\ tab'[b].signed => tab[b].signed
        /\ tab'[b].signed => tab'[b].excused = tab[b].excused
    BY <1>1, <2>1, SecurityTab
  <2>3. QED
    BY <1>1, <2>1, <2>2, ShowInv
<1>4. QED
  BY <1>2, <1>3

\* The button of a user who was made to enrol, and the way out.
LEMMA ContinueInv ==
  ASSUME PagesInv, NEW b \in Browsers, Continue(b)
  PROVE  PagesInv'
<1>1. /\ TypeOK /\ call[b].kind = None /\ tab[b].page = "security" /\ Alike
      /\ UNCHANGED <<setting, trusted, stray, jar>> /\ GoOn(b)
      /\ tab[b].signed /\ ~tab[b].excused => ~Outstanding
  BY DEF Continue, PagesInv, OnStep, On, Idle, BrowserOK, ConsentOK, Alike, TypeOK, account
<1>2. Fits(stray') /\ Fits(jar'[b].session)
      /\ stray' \in {None, "plain", "strong"} /\ jar' \in [Browsers -> Jar]
  BY <1>1, HeldTokensFit, NoneElse DEF Kinds, TypeOK
<1>3. /\ call' \in [Browsers -> Call] /\ tab' \in [Browsers -> Tab] /\ OnlyMoves(b)
      /\ call'[b].session = None /\ call'[b].at \in {"rest", "post"}
      /\ \/ call'[b].kind = None
         \/ call'[b].kind = "authorize" /\ tab'[b].page = "blank"
      /\ tab'[b].signed = tab[b].signed /\ tab'[b].excused = tab[b].excused
  BY <1>1, GoOnBrowser DEF OnlyMoves
<1>4. QED
  BY <1>1, <1>2, <1>3, RestInv

LEMMA SignOutInv ==
  ASSUME PagesInv, NEW b \in Browsers, SignOut(b)
  PROVE  PagesInv'
<1>1. /\ TypeOK /\ call[b].kind = None /\ Alike /\ UNCHANGED <<setting, trusted, call>>
  BY DEF PagesInv, TypeOK, SignOut, On, Idle, Alike
<1>2. Fits(stray') /\ stray' \in {None, "plain", "strong"}
  <2>1. stray \in {None, "plain", "strong"} /\ Fits(stray) /\ Fits(jar[b].session)
    BY <1>1, HeldTokensFit, NoneElse DEF Kinds, TypeOK
  <2>2. stray' = stray \/ stray' = Oldest(stray, jar[b].session)
    BY DEF SignOut
  <2>3. QED
    BY <2>1, <2>2, OldestFits
<1>3. /\ jar' \in [Browsers -> Jar] /\ jar'[b].session = None
      /\ \A x \in Browsers \ {b} : jar'[x] = jar[x]
  <2>1. jar[b] \in Jar /\ jar \in [Browsers -> Jar] /\ jar' = [jar EXCEPT ![b].session = None]
    BY <1>1 DEF TypeOK, SignOut
  <2>2. QED
    BY <2>1 DEF Jar, Token
<1>4. /\ tab' \in [Browsers -> Tab] /\ \A x \in Browsers \ {b} : tab'[x] = tab[x]
      /\ tab'[b].signed = FALSE
  BY <1>1, VisitTab DEF SignOut, Pages
<1>5. TypeOK' /\ StrayOK' /\ OnlyMoves(b) /\ Gently
  BY <1>1, <1>2, <1>3, <1>4 DEF TypeOK, StrayOK, PagesInv, OnlyMoves, Gently, Alike, Fits, setting
<1>6. BrowserOK(b)'
  BY <1>1, <1>3, <1>4, NoneElse DEF PagesInv, BrowserOK, AtItsPage, TokensOK, LookupsOK, ConsentOK,
     Kinds, Signing, Alike, Alive
<1>7. QED
  BY <1>1, <1>5, <1>6, OneMoves DEF setting

-----------------------------------------------------------------------------
(* What the server does for one browser *)

\* A call goes on, and nothing changes but the account's small print.
LEMMA GoInv ==
  ASSUME PagesInv, NEW b \in Browsers, NEW stage \in Stages, Go(b, stage),
         UNCHANGED <<setting, stray, jar, tab>>, trusted' \subseteq Browsers,
         user' \in User, user'.on = user.on, user'.swept = user.swept,
         user.accepted => user'.accepted,
         call[b].at = "post",
         stage = "challenged" => call[b].kind \in Signing,
         stage \in {"challenged", "login", "enroll", "next", "ok"},
         stage = "next" => \/ call[b].kind = "authorize"
                           \/ call[b].kind = "accept" /\ user'.accepted
  PROVE  PagesInv'
<1>1. TypeOK /\ StrayOK /\ BrowserOK(b) /\ UNCHANGED <<uses, app, stray, jar, tab>>
  BY DEF PagesInv, setting
<1>2. /\ call' \in [Browsers -> Call]
      /\ \A x \in Browsers \ {b} : call'[x] = call[x]
      /\ call'[b].at = stage
      /\ call'[b].kind = call[b].kind /\ call'[b].session = call[b].session
      /\ call'[b].off = call[b].off
  BY <1>1, GoCall
<1>3. BrowserOK(b)'
  BY <1>1, <1>2, NoneElse DEF BrowserOK, AtItsPage, TokensOK, LookupsOK, ConsentOK, Outstanding,
     Signing
<1>4. TypeOK' /\ StrayOK' /\ OnlyMoves(b) /\ Gently
  BY <1>1, <1>2 DEF TypeOK, StrayOK, OnlyMoves, Gently
<1>5. QED
  BY <1>1, <1>3, <1>4, OneMoves

\* A session begins.
LEMMA AdmitInv ==
  ASSUME PagesInv, NEW b \in Browsers, NEW stage \in Stages, Admit(b, stage),
         UNCHANGED <<setting, stray, jar, tab>>, trusted' \subseteq Browsers, Alike,
         call[b].at = "post", call[b].kind \in Signing,
         stage \in {"consent", "consentDue", "next"}, stage = "next" => ~Outstanding
  PROVE  PagesInv'
<1>1. TypeOK /\ StrayOK /\ BrowserOK(b) /\ UNCHANGED <<uses, app, stray, jar, tab>>
  BY DEF PagesInv, setting
<1>2. /\ call' \in [Browsers -> Call]
      /\ \A x \in Browsers \ {b} : call'[x] = call[x]
      /\ call'[b].at = stage /\ call'[b].session = Begun
      /\ call'[b].kind = call[b].kind /\ call'[b].off = call[b].off
      /\ "flag" \in call'[b].unread
  BY <1>1, AdmitCall
<1>3. BrowserOK(b)'
  BY <1>1, <1>2, NoneElse DEF BrowserOK, AtItsPage, TokensOK, LookupsOK, ConsentOK, Outstanding,
     Signing, Begun, StrayOK, Alike
<1>4. TypeOK' /\ StrayOK' /\ OnlyMoves(b) /\ Gently
  BY <1>1, <1>2 DEF TypeOK, StrayOK, OnlyMoves, Gently, Alike
<1>5. QED
  BY <1>1, <1>3, <1>4, OneMoves

LEMMA SignInEmailInv ==
  ASSUME PagesInv, NEW b \in Browsers, SignInEmail(b), UNCHANGED tab
  PROVE  PagesInv'
<1>1. /\ call[b].kind \in Signing /\ call[b].at = "post" /\ Alike /\ trusted' \subseteq Browsers
      /\ UNCHANGED <<setting, stray, jar, tab, user>> /\ user \in User
  BY DEF SignInEmail, At, Signing, PagesInv, TypeOK, Alike, account
<1>2. CASE Go(b, "challenged")
  BY <1>1, <1>2, GoInv DEF Stages
<1>3. CASE Admit(b, "consent")
  BY <1>1, <1>3, AdmitInv DEF Stages
<1>4. QED
  BY <1>2, <1>3 DEF SignInEmail

LEMMA SignInOtpInv ==
  ASSUME PagesInv, NEW b \in Browsers, SignInOtp(b), UNCHANGED tab
  PROVE  PagesInv'
<1>1. /\ call[b].kind \in Signing /\ call[b].at = "post" /\ trusted' \subseteq Browsers
      /\ UNCHANGED <<setting, stray, jar, tab>> /\ user' = [user EXCEPT !.otp = FALSE]
      /\ user \in User
  BY DEF SignInOtp, At, Signing, PagesInv, TypeOK
<1>2. Alike /\ user' \in User /\ user'.on = user.on /\ user'.swept = user.swept
      /\ user'.accepted = user.accepted
  BY <1>1 DEF Alike, User
<1>3. CASE Go(b, "challenged")
  BY <1>1, <1>2, <1>3, GoInv DEF Stages
<1>4. CASE Admit(b, "consent")
  BY <1>1, <1>2, <1>4, AdmitInv DEF Stages
<1>5. QED
  BY <1>3, <1>4 DEF SignInOtp

LEMMA VerifyInv ==
  ASSUME PagesInv, NEW b \in Browsers, VerifyTwoFactor(b), UNCHANGED tab
  PROVE  PagesInv'
<1>1. /\ call[b].kind \in Signing /\ call[b].at = "post" /\ Alike /\ trusted' \subseteq Browsers
      /\ UNCHANGED <<setting, stray, jar, tab>> /\ Admit(b, "consent")
  BY DEF VerifyTwoFactor, At, Signing, PagesInv, TypeOK, Alike
<1>2. QED
  BY <1>1, AdmitInv DEF Stages

LEMMA SocialInv ==
  ASSUME PagesInv, NEW b \in Browsers, SocialCallback(b), UNCHANGED tab
  PROVE  PagesInv'
<1>1. /\ call[b].kind \in Signing /\ call[b].at = "post" /\ Alike /\ trusted' \subseteq Browsers
      /\ UNCHANGED <<setting, stray, jar, tab>>
  BY DEF SocialCallback, At, Signing, PagesInv, TypeOK, Alike, account
<1>2. PICK stage \in {"consentDue", "next"} :
        Admit(b, stage) /\ (stage = "next" => ~Outstanding)
  BY DEF SocialCallback
<1>3. QED
  BY <1>1, <1>2, AdmitInv DEF Stages

\* An acceptance, an enrolment begun, fresh backup codes, an authorize request.
LEMMA PlainServeInv ==
  ASSUME PagesInv, NEW b \in Browsers, UNCHANGED tab,
         \/ RecordMyConsent(b) \/ EnableTwoFactor(b) \/ GenerateBackupCodes(b)
         \/ OAuthAuthorize(b)
  PROVE  PagesInv'
<1>1. user \in User /\ trusted \subseteq Browsers
  BY DEF PagesInv, TypeOK
<1>2. CASE RecordMyConsent(b)
  <2>1. user' \in User /\ user'.on = user.on /\ user'.swept = user.swept /\ user'.accepted
    BY <1>1, <1>2 DEF RecordMyConsent, User
  <2>2. QED
    BY <1>1, <1>2, <2>1, GoInv DEF RecordMyConsent, Stages, At
<1>3. CASE EnableTwoFactor(b)
  <2>1. user' \in User /\ user'.on = user.on /\ user'.swept = user.swept
        /\ user'.accepted = user.accepted
    BY <1>1, <1>3 DEF EnableTwoFactor, User
  <2>2. QED
    BY <1>1, <1>3, <2>1, GoInv DEF EnableTwoFactor, Stages, At
<1>4. CASE GenerateBackupCodes(b)
  BY <1>1, <1>4, GoInv DEF GenerateBackupCodes, Stages, At, account
<1>5. CASE OAuthAuthorize(b)
  <2>1. PICK stage \in {"login", "enroll", "next"} : Go(b, stage)
    BY <1>5 DEF OAuthAuthorize
  <2>2. QED
    BY <1>1, <1>5, <2>1, GoInv DEF OAuthAuthorize, Stages, At, account
<1>6. QED
  BY <1>2, <1>3, <1>4, <1>5

\* The first code of an enrolment.
LEMMA ConfirmInv ==
  ASSUME PagesInv, NEW b \in Browsers, ConfirmTwoFactor(b), UNCHANGED tab
  PROVE  PagesInv'
<1>1. /\ TypeOK /\ StrayOK /\ BrowserOK(b) /\ user \in User /\ trusted \subseteq Browsers
      /\ call[b].kind = "confirm" /\ call[b].at = "post"
      /\ UNCHANGED <<setting, trusted, stray, tab>> /\ UNCHANGED <<uses, app>>
  BY DEF ConfirmTwoFactor, At, PagesInv, TypeOK, setting
<1>2. CASE user.on
  BY <1>1, <1>2, GoInv DEF ConfirmTwoFactor, Stages
<1>3. CASE ~user.on
  <2>1. /\ user' = [user EXCEPT !.on = TRUE]
        /\ jar' = [jar EXCEPT ![b].session = "rotated"]
        /\ call' = [call EXCEPT ![b].session = "strong", ![b].at = "revoke"]
    BY <1>3 DEF ConfirmTwoFactor
  <2>2. /\ user' \in User /\ user'.on = TRUE /\ user'.swept = user.swept
        /\ user'.accepted = user.accepted
    BY <1>1, <2>1 DEF User
  <2>3. /\ jar' \in [Browsers -> Jar] /\ \A x \in Browsers \ {b} : jar'[x] = jar[x]
    <3>1. jar[b] \in Jar /\ jar \in [Browsers -> Jar]
      BY <1>1 DEF TypeOK
    <3>2. QED
      BY <2>1, <3>1 DEF Jar, Token
  <2>4. /\ call' \in [Browsers -> Call] /\ \A x \in Browsers \ {b} : call'[x] = call[x]
        /\ call'[b].kind = "confirm" /\ call'[b].at = "revoke" /\ call'[b].session = "strong"
    <3>1. call[b] \in Call /\ call \in [Browsers -> Call]
      BY <1>1 DEF TypeOK
    <3>2. QED
      BY <1>1, <2>1, <3>1 DEF Call, Token
  <2>5. ~user.swept
    BY <1>1, <1>3 DEF StrayOK
  <2>6. BrowserOK(b)'
    BY <1>1, <2>2, <2>4, <2>5, NoneElse DEF BrowserOK, AtItsPage, TokensOK, LookupsOK, ConsentOK,
       Outstanding, Signing
  <2>7. TypeOK' /\ StrayOK' /\ OnlyMoves(b) /\ Gently
    BY <1>1, <2>2, <2>3, <2>4, <2>5 DEF TypeOK, StrayOK, OnlyMoves, Gently
  <2>8. QED
    BY <1>1, <2>6, <2>7, OneMoves
<1>4. QED
  BY <1>2, <1>3

-----------------------------------------------------------------------------
(* What the server does for the account *)

LEMMA EndedTokens ==
  ASSUME NEW held \in Token
  PROVE  /\ Ended(held) \in Token /\ ~Alive(Ended(held))
         /\ Ended(held) = held \/ (Alive(held) /\ Ended(held) = "dead")
         /\ Aged(held) \in Token /\ Aged(held) # "strong"
         /\ Aged(held) = held \/ (Alive(held) /\ Aged(held) = "plain")
BY NoneElse DEF Ended, Aged, Alive, Token

LEMMA JarsAfterLost ==
  ASSUME TypeOK, NEW Lost
  PROVE  /\ JarsAfter(Lost) \in [Browsers -> Jar]
         /\ \A x \in Browsers : JarsAfter(Lost)[x].session =
              IF x \in Lost THEN Ended(jar[x].session) ELSE jar[x].session
<1>1. ASSUME NEW x \in Browsers
      PROVE  /\ JarsAfter(Lost)[x] \in Jar
             /\ JarsAfter(Lost)[x].session =
                  IF x \in Lost THEN Ended(jar[x].session) ELSE jar[x].session
  <2>1. jar[x] \in Jar /\ jar[x].session \in Token
    BY DEF TypeOK, Jar
  <2>2. PICK held \in Token : held = Ended(jar[x].session)
    BY <2>1, EndedTokens
  <2>3. JarsAfter(Lost)[x] = IF x \in Lost THEN [jar[x] EXCEPT !.session = held] ELSE jar[x]
    BY <2>2 DEF JarsAfter
  <2>4. QED
    BY <2>1, <2>2, <2>3 DEF Jar
<1>2. QED
  BY <1>1 DEF JarsAfter

LEMMA CallsAfterLost ==
  ASSUME TypeOK, NEW Lost
  PROVE  /\ CallsAfter(Lost) \in [Browsers -> Call]
         /\ \A x \in Browsers :
              /\ CallsAfter(Lost)[x].session =
                   IF x \in Lost THEN Ended(call[x].session) ELSE call[x].session
              /\ CallsAfter(Lost)[x].kind = call[x].kind /\ CallsAfter(Lost)[x].at = call[x].at
              /\ CallsAfter(Lost)[x].off = call[x].off /\ CallsAfter(Lost)[x].flag = call[x].flag
              /\ CallsAfter(Lost)[x].unread = call[x].unread
              /\ CallsAfter(Lost)[x].known = call[x].known
<1>1. ASSUME NEW x \in Browsers
      PROVE  \E c \in Call :
               /\ CallsAfter(Lost)[x] = c
               /\ c.session = IF x \in Lost THEN Ended(call[x].session) ELSE call[x].session
               /\ c.kind = call[x].kind /\ c.at = call[x].at /\ c.off = call[x].off
               /\ c.flag = call[x].flag /\ c.unread = call[x].unread /\ c.known = call[x].known
  <2>1. call[x] \in Call /\ call[x].session \in Token
    BY DEF TypeOK, Call
  <2>2. PICK held \in Token : held = Ended(call[x].session)
    BY <2>1, EndedTokens
  <2>3. CallsAfter(Lost)[x] = IF x \in Lost THEN [call[x] EXCEPT !.session = held] ELSE call[x]
    BY <2>2 DEF CallsAfter
  <2>4. CASE x \in Lost
    <3>1. PICK c \in Call : c = [call[x] EXCEPT !.session = held]
      BY <2>1 DEF Call
    <3>2. /\ c.session = held /\ c.kind = call[x].kind /\ c.at = call[x].at
          /\ c.off = call[x].off /\ c.flag = call[x].flag /\ c.unread = call[x].unread
          /\ c.known = call[x].known
      BY <2>1, <3>1 DEF Call
    <3>3. QED
      BY <2>2, <2>3, <2>4, <3>1, <3>2
  <2>5. QED
    BY <2>1, <2>3, <2>4
<1>2. QED
  BY <1>1 DEF CallsAfter

\* Sessions end, for every browser or for all but one.
LEMMA EndedBrowser ==
  ASSUME PagesInv, NEW x \in Browsers, UNCHANGED <<setting, tab>>, Alike,
         jar'[x].session = Ended(jar[x].session), call'[x].session = Ended(call[x].session),
         call'[x].kind = call[x].kind, call'[x].off = call[x].off,
         call'[x].flag = call[x].flag, call'[x].unread = call[x].unread,
         call'[x].known = call[x].known,
         call'[x].at = call[x].at \/ (call[x].kind = "reset" /\ call'[x].at = "ok")
  PROVE  BrowserOK(x)'
<1>1. /\ BrowserOK(x) /\ UNCHANGED <<app, tab>>
      /\ jar[x].session \in Token /\ call[x].session \in Token
  BY DEF PagesInv, TypeOK, Jar, Call, setting
<1>2. TokensOK(jar[x], call[x])'
  BY <1>1, EndedTokens, NoneElse DEF BrowserOK, TokensOK, Alike, Alive
<1>3. LookupsOK(call[x])'
  BY <1>1, EndedTokens DEF BrowserOK, LookupsOK, Alike, Signing
<1>4. ConsentOK(call[x], tab[x])' /\ AtItsPage(call[x].kind, tab[x].page)'
  BY <1>1 DEF BrowserOK, ConsentOK, AtItsPage, Alike, Outstanding, Signing
<1>5. QED
  BY <1>2, <1>3, <1>4 DEF BrowserOK

LEMMA ResetInv ==
  ASSUME PagesInv, NEW b \in Browsers, ResetPassword(b), UNCHANGED tab
  PROVE  PagesInv'
<1>1. /\ TypeOK /\ StrayOK /\ Alike /\ UNCHANGED <<setting, tab, trusted, user>>
      /\ UNCHANGED <<uses, app>> /\ stray' = None /\ jar' = JarsAfter(Browsers)
      /\ call' = [CallsAfter(Browsers) EXCEPT ![b].at = "ok"]
      /\ call[b].kind = "reset"
  BY DEF ResetPassword, EndSessions, PagesInv, TypeOK, Alike, setting, At
<1>2. /\ call' \in [Browsers -> Call]
      /\ \A x \in Browsers :
           /\ call'[x].session = Ended(call[x].session)
           /\ call'[x].kind = call[x].kind /\ call'[x].off = call[x].off
           /\ call'[x].flag = call[x].flag /\ call'[x].unread = call[x].unread
           /\ call'[x].known = call[x].known
           /\ call'[x].at = call[x].at \/ (call[x].kind = "reset" /\ call'[x].at = "ok")
  <2>1. PICK C : C = CallsAfter(Browsers)
    OBVIOUS
  <2>2. C \in [Browsers -> Call] /\ C[b] \in Call
    BY <1>1, <2>1, CallsAfterLost
  <2>3. call' = [C EXCEPT ![b].at = "ok"]
    BY <1>1, <2>1
  <2>4. /\ call' \in [Browsers -> Call] /\ \A x \in Browsers \ {b} : call'[x] = C[x]
        /\ call'[b].session = C[b].session /\ call'[b].kind = C[b].kind
        /\ call'[b].off = C[b].off /\ call'[b].flag = C[b].flag
        /\ call'[b].unread = C[b].unread /\ call'[b].known = C[b].known /\ call'[b].at = "ok"
    BY <2>2, <2>3 DEF Call
  <2>5. QED
    BY <1>1, <2>1, <2>4, CallsAfterLost
<1>3. jar' \in [Browsers -> Jar] /\ \A x \in Browsers : jar'[x].session = Ended(jar[x].session)
  BY <1>1, JarsAfterLost
<1>4. \A x \in Browsers : BrowserOK(x)'
  BY <1>1, <1>2, <1>3, EndedBrowser
<1>5. TypeOK' /\ StrayOK'
  BY <1>1, <1>2, <1>3, NoneElse DEF TypeOK, StrayOK
<1>6. QED
  BY <1>4, <1>5 DEF PagesInv

LEMMA DeactivateInv ==
  ASSUME PagesInv, Deactivate, UNCHANGED tab
  PROVE  PagesInv'
<1>1. /\ TypeOK /\ StrayOK /\ UNCHANGED <<setting, tab, trusted>>
      /\ UNCHANGED <<uses, app>> /\ stray' = None /\ jar' = JarsAfter(Browsers)
      /\ call' = CallsAfter(Browsers) /\ user \in User
  BY DEF Deactivate, EndSessions, PagesInv, TypeOK, setting
<1>2. Alike
  BY <1>1 DEF Deactivate, Alike, User
<1>3. jar' \in [Browsers -> Jar] /\ \A x \in Browsers : jar'[x].session = Ended(jar[x].session)
  BY <1>1, JarsAfterLost
<1>4. /\ call' \in [Browsers -> Call]
      /\ \A x \in Browsers :
           /\ call'[x].session = Ended(call[x].session)
           /\ call'[x].kind = call[x].kind /\ call'[x].off = call[x].off
           /\ call'[x].flag = call[x].flag /\ call'[x].unread = call[x].unread
           /\ call'[x].known = call[x].known /\ call'[x].at = call[x].at
  BY <1>1, CallsAfterLost
<1>5. \A x \in Browsers : BrowserOK(x)'
  BY <1>1, <1>2, <1>3, <1>4, EndedBrowser
<1>6. TypeOK' /\ StrayOK'
  BY <1>1, <1>2, <1>3, <1>4, NoneElse DEF TypeOK, StrayOK, Alike
<1>7. QED
  BY <1>5, <1>6 DEF PagesInv

\* Of the tokens about, only the one just issued for the enrolment lives on.
LEMMA RevokeInv ==
  ASSUME PagesInv, NEW b \in Browsers, RevokeOtherSessions(b), UNCHANGED tab
  PROVE  PagesInv'
<1>1. /\ TypeOK /\ StrayOK /\ BrowserOK(b) /\ UNCHANGED <<setting, tab, trusted>>
      /\ UNCHANGED <<uses, app>> /\ user \in User
      /\ call[b].kind = "confirm" /\ call[b].at = "revoke" /\ call[b] \in Call
  BY DEF RevokeOtherSessions, PagesInv, TypeOK, setting, At
<1>2. /\ user' \in User /\ user'.on = user.on /\ user'.accepted = user.accepted
      /\ user'.swept <=> user.swept \/ call[b].session = "strong"
  <2>1. PICK swept \in BOOLEAN : swept <=> user.swept \/ call[b].session = "strong"
    BY <1>1 DEF User
  <2>2. user.swept \in BOOLEAN
    BY <1>1 DEF User
  <2>3. user' = [user EXCEPT !.swept = user.swept \/ call[b].session = "strong"]
    BY <1>1 DEF RevokeOtherSessions, User
  <2>4. QED
    BY <1>1, <2>2, <2>3 DEF User
<1>3. CASE ~Alive(call[b].session)
  <2>1. Go(b, "ok") /\ UNCHANGED <<stray, jar>>
    BY <1>3 DEF RevokeOtherSessions, Presented
  <2>2. /\ call' \in [Browsers -> Call]
        /\ \A x \in Browsers \ {b} : call'[x] = call[x]
        /\ call'[b].at = "ok"
        /\ call'[b].kind = call[b].kind /\ call'[b].session = call[b].session
        /\ call'[b].off = call[b].off
    BY <1>1, <2>1, GoCall DEF Stages
  <2>3. user'.swept <=> user.swept
    BY <1>2, <1>3 DEF Alive
  <2>4. BrowserOK(b)'
    BY <1>1, <1>2, <2>1, <2>2, <2>3, NoneElse DEF BrowserOK, AtItsPage, TokensOK, LookupsOK,
       ConsentOK, Outstanding, Signing
  <2>5. TypeOK' /\ StrayOK' /\ OnlyMoves(b) /\ Gently
    BY <1>1, <1>2, <2>1, <2>2, <2>3 DEF TypeOK, StrayOK, OnlyMoves, Gently
  <2>6. QED
    BY <1>1, <2>4, <2>5, OneMoves
<1>4. CASE Alive(call[b].session)
  <2>1. /\ stray' = None /\ jar' = JarsAfter(Browsers)
        /\ call' = [CallsAfter(Browsers \ {b}) EXCEPT ![b].at = "ok"]
    BY <1>4 DEF RevokeOtherSessions, Presented
  <2>2. jar' \in [Browsers -> Jar] /\ \A x \in Browsers : jar'[x].session = Ended(jar[x].session)
    BY <1>1, <2>1, JarsAfterLost
  <2>3. /\ call' \in [Browsers -> Call]
        /\ \A x \in Browsers :
             /\ call'[x].session = IF x = b THEN call[b].session ELSE Ended(call[x].session)
             /\ call'[x].kind = call[x].kind /\ call'[x].off = call[x].off
             /\ call'[x].flag = call[x].flag /\ call'[x].unread = call[x].unread
             /\ call'[x].known = call[x].known
             /\ x # b => call'[x].at = call[x].at
        /\ call'[b].at = "ok"
    <3>1. PICK C : C = CallsAfter(Browsers \ {b})
      OBVIOUS
    <3>2. C \in [Browsers -> Call] /\ C[b] \in Call
      BY <1>1, <3>1, CallsAfterLost
    <3>3. call' = [C EXCEPT ![b].at = "ok"]
      BY <2>1, <3>1
    <3>4. /\ call' \in [Browsers -> Call] /\ \A x \in Browsers \ {b} : call'[x] = C[x]
          /\ call'[b].session = C[b].session /\ call'[b].kind = C[b].kind
          /\ call'[b].off = C[b].off /\ call'[b].flag = C[b].flag
          /\ call'[b].unread = C[b].unread /\ call'[b].known = C[b].known /\ call'[b].at = "ok"
      BY <3>2, <3>3 DEF Call
    <3>5. QED
      BY <1>1, <3>1, <3>4, CallsAfterLost
  <2>4. call[b].session = "strong" => user.on
    BY <1>1 DEF BrowserOK, TokensOK
  <2>5. call[b].session = "plain" => ~user.swept /\ ~user'.swept
    BY <1>1, <1>2 DEF BrowserOK, TokensOK
  <2>6. ASSUME NEW x \in Browsers PROVE BrowserOK(x)'
    <3>1. /\ BrowserOK(x) /\ jar[x].session \in Token /\ call[x].session \in Token
      BY <1>1 DEF PagesInv, TypeOK, Jar, Call
    <3>2. /\ jar'[x].session = jar[x].session \/ (Alive(jar[x].session) /\ jar'[x].session = "dead")
          /\ ~Alive(jar'[x].session)
      BY <2>2, <3>1, EndedTokens
    <3>3. call'[x].session = call[x].session
            \/ (x # b /\ Alive(call[x].session) /\ call'[x].session = "dead")
      BY <2>3, <3>1, EndedTokens
    <3>4. x # b => ~Alive(call'[x].session)
      BY <2>3, <3>1, EndedTokens
    <3>5. TokensOK(jar[x], call[x])'
      BY <1>1, <1>2, <2>3, <2>4, <2>5, <3>1, <3>2, <3>3, <3>4, NoneElse
         DEF BrowserOK, TokensOK, Alive
    <3>6. LookupsOK(call[x])'
      BY <1>1, <1>2, <2>3, <3>1, <3>3, <3>4 DEF BrowserOK, LookupsOK, Signing, Alive
    <3>7. ConsentOK(call[x], tab[x])' /\ AtItsPage(call[x].kind, tab[x].page)'
      BY <1>1, <1>2, <2>3, <3>1 DEF BrowserOK, ConsentOK, AtItsPage, Outstanding, Signing
    <3>8. QED
      BY <3>5, <3>6, <3>7 DEF BrowserOK
  <2>7. TypeOK' /\ StrayOK'
    BY <1>1, <1>2, <2>1, <2>2, <2>3, <2>4, NoneElse DEF TypeOK, StrayOK
  <2>8. QED
    BY <2>6, <2>7 DEF PagesInv
<1>5. QED
  BY <1>3, <1>4

\* 2FA ends for the account, at the owner's request from the page of b or at an
\* administrator's.
LEMMA TurnOffInv ==
  ASSUME PagesInv, NEW Rotating \in SUBSET Browsers, NEW tokens \in {None, "plain"},
         TurnOff(Rotating, tokens),
         UNCHANGED <<setting, tab>>, trusted' \subseteq Browsers,
         \A x \in Rotating : call[x].kind = "disable" /\ tokens = "plain"
  PROVE  PagesInv'
<1>1. /\ TypeOK /\ StrayOK /\ UNCHANGED <<uses, app, tab>> /\ user \in User
      /\ stray \in Token
  BY DEF PagesInv, TypeOK, setting, Token
<1>2. /\ user' \in User /\ user'.on = FALSE /\ user'.swept = FALSE
      /\ user'.accepted = user.accepted
  <2>1. user' = [user EXCEPT !.on = FALSE, !.row = FALSE, !.swept = FALSE]
    BY DEF TurnOff
  <2>2. QED
    BY <1>1, <2>1 DEF User
<1>3. ASSUME NEW x \in Browsers
      PROVE  /\ jar'[x] \in Jar /\ jar'[x].session # "strong"
             /\ jar'[x].session = "rotated" => x \in Rotating \/ jar[x].session = "rotated"
  <2>1. jar[x] \in Jar /\ jar[x].session \in Token
    BY <1>1 DEF TypeOK, Jar
  <2>2. PICK held \in Token : held = IF x \in Rotating THEN "rotated" ELSE Aged(jar[x].session)
    BY <2>1, EndedTokens DEF Token
  <2>3. jar'[x] = [jar[x] EXCEPT !.session = held]
    BY <2>2 DEF TurnOff
  <2>4. held # "strong" /\ (held = "rotated" => x \in Rotating \/ jar[x].session = "rotated")
    BY <2>1, <2>2, EndedTokens
  <2>5. QED
    BY <2>1, <2>3, <2>4 DEF Jar
<1>4. jar' \in [Browsers -> Jar]
  <2>1. jar' = [x \in Browsers |-> jar'[x]]
    BY DEF TurnOff
  <2>2. QED
    BY <1>3, <2>1
<1>5. ASSUME NEW x \in Browsers
      PROVE  /\ call'[x] \in Call /\ call'[x].session \notin {"strong", "rotated"}
             /\ call[x].session # None => call'[x].session # None
             /\ x \in Rotating => call'[x].session = "plain" /\ call'[x].at = "ok"
             /\ x \notin Rotating => call'[x].at = call[x].at
             /\ call'[x].kind = call[x].kind /\ (call'[x].off <=> call[x].kind # None)
             /\ call'[x].flag = call[x].flag /\ call'[x].unread = call[x].unread
             /\ call'[x].known = call[x].known
  <2>1. call[x] \in Call /\ call[x].session \in Token /\ call[x].session # "rotated"
    BY <1>1 DEF TypeOK, Call, PagesInv, BrowserOK, TokensOK
  <2>2. PICK held \in Token :
          held = IF x \in Rotating THEN tokens ELSE Aged(call[x].session)
    BY <2>1, EndedTokens DEF Token
  <2>3. PICK off \in BOOLEAN : off = ~Idle(x)
    BY <2>1 DEF Idle
  <2>4. PICK stage \in Stages : stage = IF x \in Rotating THEN "ok" ELSE call[x].at
    BY <2>1 DEF Stages, Call
  <2>5. call'[x] = [call[x] EXCEPT !.off = off, !.session = held, !.at = stage]
    BY <2>2, <2>3, <2>4 DEF TurnOff
  <2>6. /\ held \notin {"strong", "rotated"} /\ (call[x].session # None => held # None)
        /\ x \in Rotating => held = "plain" /\ stage = "ok"
        /\ x \notin Rotating => stage = call[x].at
    BY <2>1, <2>2, <2>4, EndedTokens, NoneElse
  <2>7. PICK c : c = [call[x] EXCEPT !.off = off, !.session = held, !.at = stage]
    OBVIOUS
  <2>8. /\ c \in Call /\ c.session = held /\ c.at = stage /\ c.off = off
        /\ c.kind = call[x].kind /\ c.flag = call[x].flag /\ c.unread = call[x].unread
        /\ c.known = call[x].known
    BY <2>1, <2>7 DEF Call, Stages
  <2>9. QED
    BY <2>3, <2>5, <2>6, <2>7, <2>8 DEF Idle
<1>6. call' \in [Browsers -> Call]
  <2>1. call' = [x \in Browsers |-> call'[x]]
    BY DEF TurnOff
  <2>2. QED
    BY <1>5, <2>1
<1>7. ASSUME NEW x \in Browsers PROVE BrowserOK(x)'
  <2>1. BrowserOK(x)
    BY DEF PagesInv
  <2>2. TokensOK(jar[x], call[x])'
    BY <1>2, <1>3, <1>5, <2>1, NoneElse DEF BrowserOK, TokensOK
  <2>3. LookupsOK(call[x])'
    BY <1>2, <1>5, <2>1, NoneElse DEF BrowserOK, LookupsOK
  <2>4. ConsentOK(call[x], tab[x])' /\ AtItsPage(call[x].kind, tab[x].page)'
    BY <1>1, <1>2, <1>5, <2>1 DEF BrowserOK, ConsentOK, AtItsPage, Outstanding, Signing
  <2>5. QED
    BY <2>2, <2>3, <2>4 DEF BrowserOK
<1>8. stray' \in {None, "plain", "strong"} /\ stray' # "strong"
  BY <1>1, EndedTokens DEF TurnOff, Aged, TypeOK
<1>9. TypeOK' /\ StrayOK'
  BY <1>1, <1>2, <1>4, <1>6, <1>8 DEF TypeOK, StrayOK
<1>10. QED
  BY <1>7, <1>9 DEF PagesInv

LEMMA DisableInv ==
  ASSUME PagesInv, NEW b \in Browsers, DisableTwoFactor(b), UNCHANGED tab
  PROVE  PagesInv'
<1>1. /\ TurnOff({b}, "plain") /\ UNCHANGED <<setting, tab>> /\ call[b].kind = "disable"
      /\ trusted' \subseteq Browsers
  BY DEF DisableTwoFactor, At, PagesInv, TypeOK
<1>2. QED
  BY <1>1, TurnOffInv

LEMMA AdministerInv ==
  ASSUME PagesInv, Administer
  PROVE  PagesInv'
<1>1. CASE Deactivate
  BY <1>1, DeactivateInv DEF Administer
<1>2. CASE Reset2fa
  <2>1. TurnOff({}, None) /\ UNCHANGED <<setting, tab>> /\ trusted' \subseteq Browsers
    BY <1>2 DEF Reset2fa, Administer, PagesInv, TypeOK
  <2>2. QED
    BY <2>1, TurnOffInv
<1>3. CASE Reactivate
  <2>1. /\ user \in User /\ UNCHANGED <<uses, app, trusted, stray, jar, call, tab>>
    BY <1>3 DEF Reactivate, Administer, PagesInv, TypeOK, setting
  <2>2. Alike
    BY <1>3, <2>1 DEF Reactivate, Alike, User
  <2>3. \A x \in Browsers : BrowserOK(x)'
    BY <2>1, <2>2 DEF PagesInv, BrowserOK, TokensOK, LookupsOK, ConsentOK, AtItsPage, Alike,
       Outstanding
  <2>4. QED
    BY <2>1, <2>2, <2>3 DEF PagesInv, TypeOK, StrayOK, Alike
<1>4. QED
  BY <1>1, <1>2, <1>3 DEF Administer

-----------------------------------------------------------------------------
(* What the answers do *)

LEMMA LookUpConsentInv ==
  ASSUME PagesInv, NEW b \in Browsers, LookUpConsent(b)
  PROVE  PagesInv'
<1>1. /\ TypeOK /\ StrayOK /\ BrowserOK(b) /\ call[b].at = "consent"
      /\ UNCHANGED <<uses, app, user, trusted, stray, jar>>
      /\ call[b].kind \in Signing /\ "flag" \in call[b].unread
      /\ tab[b] \in Tab /\ tab \in [Browsers -> Tab]
  BY DEF LookUpConsent, PagesInv, TypeOK, account, setting, BrowserOK, LookupsOK
<1>2. PICK stage \in {"next", "reads", "consentDue"} :
        /\ Go(b, stage)
        /\ \/ tab' = [tab EXCEPT ![b].excused = TRUE]
           \/ tab' = tab /\ (stage # "consentDue" /\ tab[b].next = "app" => ~Outstanding)
  <2>1. PICK after \in {"next", "reads"} : after = AfterConsent(b)
    BY DEF AfterConsent
  <2>2. CASE tab[b].next = None
    BY <2>1, <2>2, NoneElse DEF LookUpConsent, MaybeRedirectToConsent
  <2>3. CASE tab[b].next # None
    BY <2>1, <2>3 DEF LookUpConsent, MaybeRedirectToConsent
  <2>4. QED
    BY <2>2, <2>3
<1>3. /\ call' \in [Browsers -> Call]
      /\ \A x \in Browsers \ {b} : call'[x] = call[x]
      /\ call'[b].at = stage
      /\ call'[b].kind = call[b].kind /\ call'[b].session = call[b].session
      /\ call'[b].off = call[b].off /\ call'[b].unread = call[b].unread
  BY <1>1, <1>2, GoCall DEF Stages
<1>4. /\ tab' \in [Browsers -> Tab] /\ \A x \in Browsers \ {b} : tab'[x] = tab[x]
      /\ tab'[b].page = tab[b].page /\ tab'[b].signed = tab[b].signed
      /\ tab'[b].next = tab[b].next
      /\ \/ tab'[b].excused
         \/ stage # "consentDue" /\ tab'[b].next = "app" => ~Outstanding
      /\ ~tab'[b].excused => ~tab[b].excused
  <2>1. CASE tab' = [tab EXCEPT ![b].excused = TRUE]
    BY <1>1, <2>1 DEF Tab
  <2>2. CASE tab' = tab /\ (stage # "consentDue" /\ tab[b].next = "app" => ~Outstanding)
    BY <1>1, <2>2
  <2>3. QED
    BY <1>2, <2>1, <2>2
<1>5. BrowserOK(b)'
  BY <1>1, <1>2, <1>3, <1>4, NoneElse DEF BrowserOK, AtItsPage, TokensOK, LookupsOK, ConsentOK,
     Outstanding, Signing
<1>6. TypeOK' /\ StrayOK' /\ OnlyMoves(b) /\ Gently
  BY <1>1, <1>3, <1>4 DEF TypeOK, StrayOK, OnlyMoves, Gently
<1>7. QED
  BY <1>1, <1>5, <1>6, OneMoves

LEMMA ReadStateInv ==
  ASSUME PagesInv, NEW b \in Browsers, NEW what \in {"flag", "prompted"}, ReadState(b, what)
  PROVE  PagesInv'
<1>1. /\ TypeOK /\ StrayOK /\ BrowserOK(b) /\ call[b].at = "reads" /\ call[b] \in Call
      /\ call \in [Browsers -> Call] /\ user \in User
      /\ UNCHANGED <<uses, app, user, trusted, stray, jar, tab>>
  BY DEF ReadState, PagesInv, TypeOK, account, setting
<1>2. PICK flag \in BOOLEAN, prompted \in BOOLEAN, known \in BOOLEAN :
        /\ call' = [call EXCEPT ![b] = [call[b] EXCEPT !.unread = call[b].unread \ {what},
                      !.flag = flag, !.prompted = prompted, !.known = known]]
        /\ known => call[b].known
        /\ \/ ~known
           \/ what = "flag" /\ flag = user.on
           \/ flag = call[b].flag /\ what = "prompted"
           \/ ~Alive(call[b].session)
  <2>1. CASE /\ Alive(call[b].session)
             /\ call' = [call EXCEPT ![b].unread = @ \ {what},
                  ![b].flag = IF what = "flag" THEN user.on ELSE @,
                  ![b].prompted = IF what = "prompted" THEN user.prompted ELSE @]
    <3>1. PICK flag \in BOOLEAN : flag = IF what = "flag" THEN user.on ELSE call[b].flag
      BY <1>1 DEF Call, User
    <3>2. PICK prompted \in BOOLEAN :
            prompted = IF what = "prompted" THEN user.prompted ELSE call[b].prompted
      BY <1>1 DEF Call, User
    <3>3. call' = [call EXCEPT ![b].unread = call[b].unread \ {what},
                    ![b].flag = flag, ![b].prompted = prompted]
      BY <1>1, <2>1, <3>1, <3>2 DEF Call
    <3>4. call' = [call EXCEPT ![b] = [call[b] EXCEPT !.unread = call[b].unread \ {what},
                    !.flag = flag, !.prompted = prompted, !.known = call[b].known]]
      BY <1>1, <3>3 DEF Call
    <3>5. call[b].known \in BOOLEAN
      BY <1>1 DEF Call
    <3>6. QED
      BY <3>1, <3>2, <3>4, <3>5
  <2>2. CASE /\ ~Alive(call[b].session) /\ what = "flag"
             /\ call' = [call EXCEPT ![b].unread = @ \ {what}]
    <3>1. call' = [call EXCEPT ![b] = [call[b] EXCEPT !.unread = call[b].unread \ {what},
             !.flag = call[b].flag, !.prompted = call[b].prompted, !.known = call[b].known]]
      BY <1>1, <2>2 DEF Call
    <3>2. call[b].known \in BOOLEAN /\ call[b].flag \in BOOLEAN /\ call[b].prompted \in BOOLEAN
      BY <1>1 DEF Call
    <3>3. QED
      BY <2>2, <3>1, <3>2
  <2>3. CASE call' = [call EXCEPT ![b].unread = @ \ {what}, ![b].known = FALSE]
    <3>1. call' = [call EXCEPT ![b] = [call[b] EXCEPT !.unread = call[b].unread \ {what},
             !.flag = call[b].flag, !.prompted = call[b].prompted, !.known = FALSE]]
      BY <1>1, <2>3 DEF Call
    <3>2. call[b].flag \in BOOLEAN /\ call[b].prompted \in BOOLEAN
      BY <1>1 DEF Call
    <3>3. QED
      BY <3>1, <3>2
  <2>4. QED
    BY <2>1, <2>2, <2>3 DEF ReadState
<1>3. PICK c : c = [call[b] EXCEPT !.unread = call[b].unread \ {what},
                 !.flag = flag, !.prompted = prompted, !.known = known]
  OBVIOUS
<1>4. /\ c \in Call /\ c.kind = call[b].kind /\ c.at = "reads" /\ c.session = call[b].session
      /\ c.off = call[b].off /\ c.flag = flag /\ c.known = known
      /\ c.unread = call[b].unread \ {what}
  BY <1>1, <1>3 DEF Call
<1>5. /\ call' \in [Browsers -> Call] /\ call'[b] = c
      /\ \A x \in Browsers \ {b} : call'[x] = call[x]
  BY <1>1, <1>2, <1>3, <1>4
<1>6. LookupsOK(call[b])'
  <2>1. call[b].kind \in Signing /\ (~user.on => call[b].off)
    BY <1>1 DEF BrowserOK, LookupsOK
  <2>2. known /\ ~flag /\ "flag" \notin c.unread => c.off \/ ~Alive(c.session)
    BY <1>1, <1>2, <1>4, <2>1 DEF BrowserOK, LookupsOK
  <2>3. QED
    BY <1>1, <1>4, <1>5, <2>1, <2>2 DEF LookupsOK
<1>7. BrowserOK(b)'
  BY <1>1, <1>4, <1>5, <1>6 DEF BrowserOK, AtItsPage, TokensOK, ConsentOK, Outstanding
<1>8. TypeOK' /\ StrayOK' /\ OnlyMoves(b) /\ Gently
  BY <1>1, <1>5 DEF TypeOK, StrayOK, OnlyMoves, Gently
<1>9. QED
  BY <1>1, <1>7, <1>8, OneMoves

LEMMA MaybePromptInv ==
  ASSUME PagesInv, NEW b \in Browsers, MaybeRedirectToTwoFactorPrompt(b)
  PROVE  PagesInv'
<1>1. /\ TypeOK /\ StrayOK /\ BrowserOK(b) /\ call[b].at = "reads"
      /\ call[b].kind \in Signing
      /\ UNCHANGED <<uses, app, user, trusted, stray, jar, tab>>
  BY DEF MaybeRedirectToTwoFactorPrompt, PagesInv, account, setting, BrowserOK, LookupsOK
<1>2. PICK stage \in {"next", "promptDue"} : Go(b, stage)
  BY DEF MaybeRedirectToTwoFactorPrompt
<1>3. /\ call' \in [Browsers -> Call]
      /\ \A x \in Browsers \ {b} : call'[x] = call[x]
      /\ call'[b].at = stage
      /\ call'[b].kind = call[b].kind /\ call'[b].session = call[b].session
      /\ call'[b].off = call[b].off
  BY <1>1, <1>2, GoCall DEF Stages
<1>4. BrowserOK(b)'
  BY <1>1, <1>3, NoneElse DEF BrowserOK, AtItsPage, TokensOK, LookupsOK, ConsentOK, Outstanding,
     Signing
<1>5. TypeOK' /\ StrayOK' /\ OnlyMoves(b) /\ Gently
  BY <1>1, <1>3 DEF TypeOK, StrayOK, OnlyMoves, Gently
<1>6. QED
  BY <1>1, <1>4, <1>5, OneMoves

\* The cookies of an answer fit the account.
LEMMA ForwardFits ==
  ASSUME PagesInv, NEW b \in Browsers,
         Forward(b) \/ ForwardAfterDisable(b) \/ ForwardAfterChallenge(b)
  PROVE  /\ jar' \in [Browsers -> Jar] /\ \A x \in Browsers \ {b} : jar'[x] = jar[x]
         /\ Fits(jar'[b].session)
         /\ stray' \in {None, "plain", "strong"} /\ Fits(stray')
<1>1. /\ jar \in [Browsers -> Jar] /\ jar[b] \in Jar /\ call[b] \in Call
      /\ stray \in {None, "plain", "strong"} /\ TokensOK(jar[b], call[b])
  BY DEF PagesInv, TypeOK, BrowserOK
<1>2. PICK held \in Token : held = NewSession(b)
  BY <1>1 DEF NewSession, Jar, Call
<1>3. Fits(held)
  BY <1>1, <1>2, HeldTokensFit DEF NewSession, TokensOK
<1>4. stray' = Oldest(stray, Forsaken(b))
  BY DEF Forward, ForwardAfterDisable, ForwardAfterChallenge
<1>5. Fits(Forsaken(b)) \/ Forsaken(b) = "rotated"
  BY HeldTokensFit DEF Forsaken
<1>6. stray' \in {None, "plain", "strong"} /\ Fits(stray')
  BY <1>1, <1>4, <1>5, HeldTokensFit, OldestFits
<1>7. /\ jar' \in [Browsers -> Jar] /\ \A x \in Browsers \ {b} : jar'[x] = jar[x]
      /\ jar'[b].session = held
  <2>1. CASE Forward(b)
    <3>1. jar' = [jar EXCEPT ![b].session = held]
      BY <1>2, <2>1 DEF Forward
    <3>2. QED
      BY <1>1, <3>1 DEF Jar
  <2>2. CASE ForwardAfterDisable(b)
    <3>1. jar' = [jar EXCEPT ![b].session = held, ![b].trust = FALSE]
      BY <1>2, <2>2 DEF ForwardAfterDisable
    <3>2. QED
      BY <1>1, <3>1 DEF Jar
  <2>3. CASE ForwardAfterChallenge(b)
    <3>1. PICK trust \in BOOLEAN : trust = (jar[b].trust \/ call[b].trust)
      OBVIOUS
    <3>2. jar' = [jar EXCEPT ![b] = [session |-> held, challenge |-> FALSE, trust |-> trust]]
      BY <1>2, <2>3, <3>1 DEF ForwardAfterChallenge
    <3>3. QED
      BY <1>1, <3>2 DEF Jar
  <2>4. QED
    BY <2>1, <2>2, <2>3
<1>8. QED
  BY <1>3, <1>6, <1>7

LEMMA FollowRedirectInv ==
  ASSUME PagesInv, NEW b \in Browsers, FollowRedirect(b)
  PROVE  PagesInv'
<1>1. /\ TypeOK /\ BrowserOK(b) /\ call[b].kind \in Signing /\ Alike
      /\ UNCHANGED <<setting, trusted, user>> /\ tab[b] \in Tab /\ tab \in [Browsers -> Tab]
  BY DEF PagesInv, TypeOK, FollowRedirect, SignsIn, Signing, ServerKeeps, Alike
<1>2. /\ jar' \in [Browsers -> Jar] /\ \A x \in Browsers \ {b} : jar'[x] = jar[x]
      /\ Fits(jar'[b].session)
      /\ stray' \in {None, "plain", "strong"} /\ Fits(stray')
  BY ForwardFits DEF FollowRedirect, ForwardCookies
<1>3. PICK page \in {"gate", "prompt", "console", "blank"} :
        /\ Arrive(b, page)
        /\ page = "gate" <=> call[b].at = "consentDue"
        /\ page # "gate" => call[b].at \in {"promptDue", "next"}
        /\ \/ Rest(b)
           \/ page = "blank" /\ call' = [call EXCEPT ![b] =
                [IdleCall EXCEPT !.kind = "authorize", !.at = "post"]]
  BY DEF FollowRedirect
<1>4. /\ tab' \in [Browsers -> Tab] /\ \A x \in Browsers \ {b} : tab'[x] = tab[x]
      /\ tab'[b].page = page /\ tab'[b].excused = tab[b].excused
      /\ tab'[b].signed => tab[b].next = "app"
  <2>1. PICK signed \in BOOLEAN : signed = (tab[b].next = "app")
    OBVIOUS
  <2>2. PICK S : S = [tab EXCEPT ![b].signed = signed]
    OBVIOUS
  <2>3. S \in [Browsers -> Tab] /\ S[b] \in Tab /\ S[b].signed = signed
        /\ S[b].excused = tab[b].excused /\ \A x \in Browsers \ {b} : S[x] = tab[x]
    BY <1>1, <2>2 DEF Tab
  <2>4. tab' = [S EXCEPT ![b].page = page, ![b].step = "idle"]
    BY <1>3, <2>1, <2>2 DEF Arrive, SignedIn
  <2>5. QED
    BY <2>1, <2>3, <2>4 DEF Tab
<1>5. /\ call' \in [Browsers -> Call] /\ \A x \in Browsers \ {b} : call'[x] = call[x]
      /\ call'[b].session = None /\ call'[b].at \in {"rest", "post"}
      /\ \/ call'[b].kind = None
         \/ call'[b].kind = "authorize" /\ tab'[b].page = "blank"
  <2>1. CASE Rest(b)
    BY <1>1, <2>1, RestCall, IdleCallTyped
  <2>2. CASE ~Rest(b)
    <3>1. PICK c \in Call :
            /\ c = [IdleCall EXCEPT !.kind = "authorize", !.at = "post"]
            /\ c.kind = "authorize" /\ c.at = "post" /\ c.session = None
      <4>1. [IdleCall EXCEPT !.kind = "authorize", !.at = "post"] \in Call
        BY IdleCallTyped DEF Call, Kinds
      <4>2. QED
        BY <4>1, IdleCallTyped DEF IdleCall
    <3>2. page = "blank" /\ call' = [call EXCEPT ![b] = c]
      BY <1>3, <2>2, <3>1
    <3>3. QED
      BY <1>1, <1>4, <3>1, <3>2 DEF TypeOK
  <2>3. QED
    BY <2>1, <2>2
<1>6. tab'[b].signed /\ ~tab'[b].excused => ~Outstanding \/ tab'[b].page \in {"gate", "consent"}
  BY <1>1, <1>3, <1>4 DEF BrowserOK, ConsentOK
<1>7. QED
  BY <1>1, <1>2, <1>4, <1>5, <1>6, RestInv DEF OnlyMoves

LEMMA LoadConsentPageInv ==
  ASSUME PagesInv, NEW b \in Browsers, LoadConsentPage(b)
  PROVE  PagesInv'
<1>1. /\ TypeOK /\ call[b].kind = None /\ tab[b].page = "gate" /\ Alike
      /\ UNCHANGED <<setting, trusted, stray, jar>> /\ UNCHANGED <<uses, app, user>>
      /\ tab[b] \in Tab /\ tab \in [Browsers -> Tab]
  BY DEF PagesInv, LoadConsentPage, On, Idle, Alike, TypeOK, account, setting
<1>2. Fits(stray') /\ Fits(jar'[b].session)
      /\ stray' \in {None, "plain", "strong"} /\ jar' \in [Browsers -> Jar]
  BY <1>1, HeldTokensFit, NoneElse DEF Kinds, TypeOK
<1>3. CASE Turn(b, "consent") /\ UNCHANGED call
  BY <1>1, <1>3, TurnTab, ShowInv DEF Pages
<1>4. CASE ~Outstanding /\ GoOn(b)
  <2>1. /\ call' \in [Browsers -> Call] /\ tab' \in [Browsers -> Tab] /\ OnlyMoves(b)
        /\ call'[b].session = None /\ call'[b].at \in {"rest", "post"}
        /\ \/ call'[b].kind = None
           \/ call'[b].kind = "authorize" /\ tab'[b].page = "blank"
    BY <1>1, <1>4, GoOnBrowser DEF OnlyMoves
  <2>2. QED
    BY <1>1, <1>2, <1>4, <2>1, RestInv
<1>5. CASE /\ call' = [call EXCEPT ![b] = IF tab[b].next = None THEN IdleCall
                ELSE [IdleCall EXCEPT !.kind = "authorize", !.at = "post"]]
           /\ tab' = [tab EXCEPT ![b].excused = TRUE,
                ![b].page = IF tab[b].next = None THEN "console" ELSE "blank"]
  <2>1. PICK c \in Call :
          /\ c = [IdleCall EXCEPT !.kind = "authorize", !.at = "post"]
          /\ c.kind = "authorize" /\ c.at = "post" /\ c.session = None
    <3>1. [IdleCall EXCEPT !.kind = "authorize", !.at = "post"] \in Call
      BY IdleCallTyped DEF Call, Kinds
    <3>2. QED
      BY <3>1, IdleCallTyped DEF IdleCall
  <2>2. PICK page \in Pages : page = IF tab[b].next = None THEN "console" ELSE "blank"
    BY DEF Pages
  <2>3. /\ tab' \in [Browsers -> Tab] /\ \A x \in Browsers \ {b} : tab'[x] = tab[x]
        /\ tab'[b].page = page /\ tab'[b].excused = TRUE
    <3>1. tab' = [tab EXCEPT ![b].excused = TRUE, ![b].page = page]
      BY <1>5, <2>2
    <3>2. QED
      BY <1>1, <3>1 DEF Tab, Pages
  <2>4. /\ call' \in [Browsers -> Call] /\ \A x \in Browsers \ {b} : call'[x] = call[x]
        /\ call'[b] = IF tab[b].next = None THEN IdleCall ELSE c
    BY <1>1, <1>5, <2>1, IdleCallTyped DEF TypeOK
  <2>5. QED
    BY <1>1, <1>2, <2>1, <2>2, <2>3, <2>4, IdleCallTyped, RestInv DEF OnlyMoves
<1>6. QED
  BY <1>3, <1>4, <1>5 DEF LoadConsentPage

\* A call that is not about the browser's own tokens ends, at the page it began on or
\* at another.
LEMMA CallEndsInv ==
  ASSUME PagesInv, NEW b \in Browsers, Rest(b), UNCHANGED <<account, jar>>,
         call[b].kind \notin {"confirm", "disable"} \/ call[b].at \notin {"revoke", "ok"},
         tab' \in [Browsers -> Tab], \A x \in Browsers \ {b} : tab'[x] = tab[x],
         tab'[b].signed /\ ~tab'[b].excused =>
           ~Outstanding \/ tab'[b].page \in {"gate", "consent"}
  PROVE  PagesInv'
<1>1. /\ TypeOK /\ Alike /\ UNCHANGED <<setting, user, trusted, stray, jar>>
      /\ UNCHANGED <<uses, app>>
  BY DEF PagesInv, TypeOK, Alike, account, setting
<1>2. Fits(stray') /\ Fits(jar'[b].session)
      /\ stray' \in {None, "plain", "strong"} /\ jar' \in [Browsers -> Jar]
  BY <1>1, HeldTokensFit DEF TypeOK
<1>3. /\ call' \in [Browsers -> Call] /\ call'[b].kind = None /\ call'[b].at = "rest"
      /\ call'[b].session = None
      /\ \A x \in Browsers \ {b} : call'[x] = call[x]
  BY <1>1, RestCall, IdleCallTyped
<1>4. OnlyMoves(b)
  BY <1>1, <1>3 DEF OnlyMoves
<1>5. QED
  BY <1>1, <1>2, <1>3, <1>4, RestInv

LEMMA ConsentAcceptedInv ==
  ASSUME PagesInv, NEW b \in Browsers, ConsentAccepted(b)
  PROVE  PagesInv'
<1>1. /\ TypeOK /\ Alike /\ UNCHANGED <<setting, user, trusted, stray, jar>>
      /\ UNCHANGED <<uses, app>> /\ call[b].kind = "accept" /\ ~Outstanding
  BY DEF PagesInv, TypeOK, Alike, account, setting, ConsentAccepted, At, BrowserOK, ConsentOK,
     Outstanding
<1>2. Fits(stray') /\ Fits(jar'[b].session)
      /\ stray' \in {None, "plain", "strong"} /\ jar' \in [Browsers -> Jar]
  BY <1>1, HeldTokensFit DEF TypeOK
<1>3. /\ call' \in [Browsers -> Call] /\ tab' \in [Browsers -> Tab] /\ OnlyMoves(b)
      /\ call'[b].session = None /\ call'[b].at \in {"rest", "post"}
      /\ \/ call'[b].kind = None
         \/ call'[b].kind = "authorize" /\ tab'[b].page = "blank"
  BY <1>1, GoOnBrowser DEF OnlyMoves, ConsentAccepted
<1>4. QED
  BY <1>1, <1>2, <1>3, RestInv

LEMMA ReachInv ==
  ASSUME PagesInv, NEW b \in Browsers,
         \/ ReachApp(b) \/ BounceToLogin(b) \/ BounceToEnrol(b) \/ ResetAnswered(b)
  PROVE  PagesInv'
<1>1. /\ TypeOK /\ Rest(b) /\ UNCHANGED <<account, jar>>
      /\ call[b].kind \in {"authorize", "reset"}
      /\ tab[b].page = "blank" \/ ~(ReachApp(b) \/ BounceToEnrol(b))
  BY DEF PagesInv, BrowserOK, AtItsPage, ReachApp, BounceToLogin, BounceToEnrol, ResetAnswered, At
<1>2. tab[b].page = "blank" /\ tab[b].signed /\ ~tab[b].excused => ~Outstanding
  BY DEF PagesInv, BrowserOK, ConsentOK
<1>3. CASE ReachApp(b)
  BY <1>1, <1>2, <1>3, TurnTab, CallEndsInv DEF ReachApp, Pages
<1>4. CASE BounceToLogin(b) \/ ResetAnswered(b)
  <2>1. PICK next \in {None, "app"} : Visit(b, "login", next)
    BY <1>4 DEF BounceToLogin, ResetAnswered
  <2>2. QED
    BY <1>1, <2>1, VisitTab, CallEndsInv DEF Pages
<1>5. CASE BounceToEnrol(b)
  BY <1>1, <1>2, <1>5, SecurityTab, CallEndsInv DEF BounceToEnrol
<1>6. QED
  BY <1>3, <1>4, <1>5

\* The answers of the security page: the page stays.
LEMMA StepTab ==
  ASSUME TypeOK, NEW b \in Browsers, NEW step \in {"idle", "qr", "done"}, NEW enabled \in BOOLEAN,
         \/ tab' = [tab EXCEPT ![b].step = step]
         \/ tab' = [tab EXCEPT ![b].step = step, ![b].enabled = enabled]
  PROVE  /\ tab' \in [Browsers -> Tab] /\ \A x \in Browsers \ {b} : tab'[x] = tab[x]
         /\ tab'[b].page = tab[b].page /\ tab'[b].signed = tab[b].signed
         /\ tab'[b].excused = tab[b].excused
BY DEF TypeOK, Tab

LEMMA SecurityInv ==
  ASSUME PagesInv, NEW b \in Browsers,
         EnableAnswered(b) \/ ConfirmAnswered(b) \/ DisableAnswered(b) \/ RegenerateAnswered(b)
  PROVE  PagesInv'
<1>1. TypeOK /\ Rest(b) /\ ConsentOK(call[b], tab[b])
  BY DEF PagesInv, BrowserOK, EnableAnswered, ConfirmAnswered, DisableAnswered, RegenerateAnswered
<1>2. PICK step \in {"idle", "qr", "done"}, enabled \in BOOLEAN :
        \/ tab' = [tab EXCEPT ![b].step = step]
        \/ tab' = [tab EXCEPT ![b].step = step, ![b].enabled = enabled]
  BY DEF EnableAnswered, ConfirmAnswered, DisableAnswered, RegenerateAnswered
<1>3. /\ tab' \in [Browsers -> Tab] /\ \A x \in Browsers \ {b} : tab'[x] = tab[x]
      /\ tab'[b].page = tab[b].page /\ tab'[b].signed = tab[b].signed
      /\ tab'[b].excused = tab[b].excused
  BY <1>1, <1>2, StepTab
<1>4. tab'[b].signed /\ ~tab'[b].excused => ~Outstanding \/ tab'[b].page \in {"gate", "consent"}
  BY <1>1, <1>3 DEF ConsentOK
<1>5. CASE EnableAnswered(b) \/ RegenerateAnswered(b)
  BY <1>1, <1>3, <1>4, <1>5, CallEndsInv DEF EnableAnswered, RegenerateAnswered, At
<1>6. CASE ConfirmAnswered(b) \/ DisableAnswered(b)
  <2>1. Forward(b) \/ ForwardAfterDisable(b)
    BY <1>6 DEF ConfirmAnswered, DisableAnswered
  <2>2. /\ jar' \in [Browsers -> Jar] /\ \A x \in Browsers \ {b} : jar'[x] = jar[x]
        /\ Fits(jar'[b].session)
        /\ stray' \in {None, "plain", "strong"} /\ Fits(stray')
    BY <2>1, ForwardFits
  <2>3. UNCHANGED <<setting, user, trusted>> /\ Alike
    BY <1>1, <1>6 DEF ConfirmAnswered, DisableAnswered, ServerKeeps, Alike, TypeOK
  <2>4. /\ call' \in [Browsers -> Call] /\ call'[b].kind = None /\ call'[b].at = "rest"
        /\ call'[b].session = None
        /\ \A x \in Browsers \ {b} : call'[x] = call[x]
    BY <1>1, RestCall, IdleCallTyped
  <2>5. OnlyMoves(b)
    BY <1>3, <2>2, <2>4 DEF OnlyMoves
  <2>6. QED
    BY <1>3, <1>4, <2>2, <2>3, <2>4, <2>5, RestInv
<1>7. QED
  BY <1>5, <1>6

LEMMA ShowChallengeInv ==
  ASSUME PagesInv, NEW b \in Browsers, ShowChallenge(b)
  PROVE  PagesInv'
<1>1. /\ TypeOK /\ Alike /\ UNCHANGED <<setting, user, trusted, stray>> /\ UNCHANGED <<uses, app>>
      /\ call[b].at = "challenged" /\ call[b].kind \in Signing /\ BrowserOK(b)
  BY DEF PagesInv, TypeOK, Alike, account, setting, ShowChallenge, BrowserOK, LookupsOK
<1>2. Fits(stray') /\ stray' \in {None, "plain", "strong"} /\ Fits(jar[b].session)
  BY <1>1, HeldTokensFit DEF TypeOK, Signing
<1>3. /\ jar' \in [Browsers -> Jar] /\ jar'[b].session = jar[b].session
      /\ \A x \in Browsers \ {b} : jar'[x] = jar[x]
  <2>1. jar[b] \in Jar /\ jar \in [Browsers -> Jar] /\ jar' = [jar EXCEPT ![b].challenge = TRUE]
    BY <1>1 DEF TypeOK, ShowChallenge
  <2>2. QED
    BY <2>1 DEF Jar
<1>4. /\ call' \in [Browsers -> Call] /\ call'[b].kind = None /\ call'[b].at = "rest"
      /\ call'[b].session = None
      /\ \A x \in Browsers \ {b} : call'[x] = call[x]
  BY <1>1, RestCall, IdleCallTyped DEF ShowChallenge
<1>5. /\ tab' \in [Browsers -> Tab]
      /\ \A x \in Browsers \ {b} : tab'[x] = tab[x]
      /\ tab'[b].signed = tab[b].signed /\ tab'[b].excused = tab[b].excused
  BY <1>1, TurnTab DEF ShowChallenge, Pages
<1>6. tab[b].signed /\ ~tab[b].excused => ~Outstanding
  BY <1>1 DEF BrowserOK, AtItsPage, ConsentOK, Signing
<1>7. QED
  BY <1>1, <1>2, <1>3, <1>4, <1>5, <1>6, RestInv DEF OnlyMoves

LEMMA FailInv ==
  ASSUME PagesInv, NEW b \in Browsers, Fail(b)
  PROVE  PagesInv'
<1>1. TypeOK /\ Rest(b) /\ UNCHANGED <<account, jar>> /\ call[b].at = "post"
      /\ ConsentOK(call[b], tab[b])
  BY DEF Fail, PagesInv, BrowserOK
<1>2. (\E page \in Pages : Visit(b, page, None)) \/ UNCHANGED tab
  BY DEF Fail, Pages
<1>3. CASE \E page \in Pages : Visit(b, page, None)
  BY <1>1, <1>3, VisitTab, CallEndsInv
<1>4. CASE UNCHANGED tab
  BY <1>1, <1>4, CallEndsInv DEF ConsentOK, TypeOK
<1>5. QED
  BY <1>2, <1>3, <1>4

LEMMA LoseInv ==
  ASSUME PagesInv, NEW b \in Browsers, Lose(b)
  PROVE  PagesInv'
<1>1. /\ TypeOK /\ Alike /\ UNCHANGED <<setting, user, trusted, tab>>
      /\ ConsentOK(call[b], tab[b]) /\ jar[b] \in Jar /\ jar \in [Browsers -> Jar]
      /\ Rest(b) /\ stray' = Oldest(stray, call[b].session)
  BY DEF PagesInv, TypeOK, Alike, ServerKeeps, Lose, BrowserOK
<1>2. Fits(stray') /\ stray' \in {None, "plain", "strong"}
  BY <1>1, HeldTokensFit, OldestFits DEF TypeOK
<1>3. PICK held \in Token : held = IF jar[b].session = "rotated" THEN "dead" ELSE jar[b].session
  BY <1>1 DEF Jar, Token
<1>4. Fits(held)
  BY <1>3, HeldTokensFit
<1>5. jar' = [jar EXCEPT ![b].session = held]
  BY <1>1, <1>3 DEF Lose, Jar
<1>6. /\ jar' \in [Browsers -> Jar] /\ jar'[b].session = held
      /\ \A x \in Browsers \ {b} : jar'[x] = jar[x]
  BY <1>1, <1>5 DEF Jar
<1>7. /\ call' \in [Browsers -> Call] /\ call'[b].kind = None /\ call'[b].at = "rest"
      /\ call'[b].session = None
      /\ \A x \in Browsers \ {b} : call'[x] = call[x]
  BY <1>1, RestCall, IdleCallTyped
<1>8. tab' \in [Browsers -> Tab] /\ OnlyMoves(b)
      /\ (tab'[b].signed /\ ~tab'[b].excused =>
            ~Outstanding \/ tab'[b].page \in {"gate", "consent"})
  BY <1>1, <1>6, <1>7 DEF TypeOK, OnlyMoves, ConsentOK
<1>9. QED
  BY <1>1, <1>2, <1>4, <1>6, <1>7, <1>8, RestInv

\* Time passes.
LEMMA TimeInv ==
  ASSUME PagesInv, PromptAgain \/ CodeExpires \/ \E b \in Browsers : DeviceForgotten(b)
  PROVE  PagesInv'
<1>1. /\ TypeOK /\ user \in User /\ UNCHANGED <<uses, app, stray, call, tab>>
      /\ trusted' \subseteq Browsers
  BY DEF PagesInv, TypeOK, PromptAgain, CodeExpires, DeviceForgotten, setting
<1>2. Alike
  BY <1>1 DEF Alike, User, PromptAgain, CodeExpires, DeviceForgotten
<1>3. jar' \in [Browsers -> Jar] /\ \A x \in Browsers : jar'[x].session = jar[x].session
  <2>1. CASE UNCHANGED jar
    BY <1>1, <2>1 DEF TypeOK
  <2>2. CASE \E b \in Browsers : jar' = [jar EXCEPT ![b].trust = FALSE]
    <3>1. PICK b \in Browsers : jar' = [jar EXCEPT ![b].trust = FALSE]
      BY <2>2
    <3>2. QED
      BY <1>1, <3>1 DEF TypeOK, Jar
  <2>3. QED
    BY <2>1, <2>2 DEF PromptAgain, CodeExpires, DeviceForgotten
<1>4. \A x \in Browsers : BrowserOK(x)'
  BY <1>1, <1>2, <1>3 DEF PagesInv, BrowserOK, TokensOK, LookupsOK, ConsentOK, AtItsPage, Alike,
     Outstanding
<1>5. QED
  BY <1>1, <1>2, <1>3, <1>4 DEF PagesInv, TypeOK, StrayOK, Alike

-----------------------------------------------------------------------------
LEMMA PagesNextInv == PagesInv /\ [Next]_vars => PagesInv'
<1> SUFFICES ASSUME PagesInv, [Next]_vars PROVE PagesInv'
  OBVIOUS
<1>1. ASSUME NEW b \in Browsers, Serve(b) PROVE PagesInv'
  BY <1>1, SignInEmailInv, SignInOtpInv, SocialInv, VerifyInv, PlainServeInv, ConfirmInv,
     RevokeInv, DisableInv, ResetInv DEF Serve
<1>2. ASSUME NEW b \in Browsers, Browse(b) PROVE PagesInv'
  BY <1>2, FormInv, BrowseInv, OpenInv, OtpInv, PromptInv, ContinueInv, SignOutInv DEF Browse
<1>3. ASSUME NEW b \in Browsers, Answered(b) PROVE PagesInv'
  BY <1>3, ShowChallengeInv, LookUpConsentInv, MaybePromptInv, ReadStateInv, FollowRedirectInv,
     LoadConsentPageInv, ConsentAcceptedInv, ReachInv, SecurityInv, FailInv, LoseInv DEF Answered
<1>4. CASE UNCHANGED vars
  <2>1. UNCHANGED <<uses, app, user, trusted, stray, jar, call, tab>>
    BY <1>4 DEF vars, account, setting
  <2>2. QED
    BY <2>1 DEF PagesInv, TypeOK, StrayOK, BrowserOK, TokensOK, LookupsOK, ConsentOK, AtItsPage,
       Outstanding
<1>5. QED
  BY <1>1, <1>2, <1>3, <1>4, TimeInv, AdministerInv DEF Next

\* The page that proposes 2FA is decided on in one place.
LEMMA ProposedOnce ==
  ASSUME PagesInv, Next, NEW x \in Browsers, call[x].at # "promptDue", call'[x].at = "promptDue"
  PROVE  MaybeRedirectToTwoFactorPrompt(x)
<1>1. TypeOK /\ call[x] \in Call /\ call \in [Browsers -> Call] /\ IdleCall.at = "rest"
      /\ IdleCall \in Call
  BY IdleCallTyped DEF PagesInv, TypeOK
<1>2. ASSUME NEW b \in Browsers, NEW stage \in Stages, Go(b, stage) \/ Admit(b, stage),
             stage # "promptDue"
      PROVE  FALSE
  BY <1>1, <1>2, GoCall, AdmitCall
<1>3. ASSUME NEW b \in Browsers, Rest(b) PROVE FALSE
  BY <1>1, <1>3, RestCall
<1>4. ASSUME NEW b \in Browsers, NEW kind \in Kinds, NEW trust \in BOOLEAN, Begin(b, kind, trust)
      PROVE  FALSE
  BY <1>1, <1>4, BeginCall
<1>5. ASSUME NEW b \in Browsers, GoOn(b) PROVE FALSE
  BY <1>1, <1>5, GoOnBrowser
<1>6. ASSUME NEW b \in Browsers,
             call' = [call EXCEPT ![b] = [IdleCall EXCEPT !.kind = "authorize", !.at = "post"]]
      PROVE  FALSE
  <2>1. PICK c : c = [IdleCall EXCEPT !.kind = "authorize", !.at = "post"]
    OBVIOUS
  <2>2. c.at = "post"
    BY <2>1 DEF IdleCall
  <2>3. QED
    BY <1>1, <1>6, <2>1, <2>2
<1>7. ASSUME NEW Rotating \in SUBSET Browsers, NEW tokens, TurnOff(Rotating, tokens) PROVE FALSE
  <2>1. PICK off, held, stage :
          /\ call'[x] = [call[x] EXCEPT !.off = off, !.session = held, !.at = stage]
          /\ stage = IF x \in Rotating THEN "ok" ELSE call[x].at
    BY <1>7 DEF TurnOff
  <2>2. call'[x].at = stage
    BY <1>1, <2>1 DEF Call
  <2>3. QED
    BY <2>1, <2>2
<1>8. ASSUME NEW Lost, NEW b \in Browsers,
             \/ call' = CallsAfter(Lost)
             \/ call' = [CallsAfter(Lost) EXCEPT ![b].at = "ok"]
      PROVE  FALSE
  <2>1. PICK C : C = CallsAfter(Lost)
    OBVIOUS
  <2>2. C \in [Browsers -> Call] /\ C[x].at = call[x].at /\ C[b] \in Call
    BY <1>1, <2>1, CallsAfterLost
  <2>3. CASE call' = [C EXCEPT ![b].at = "ok"]
    BY <2>2, <2>3 DEF Call
  <2>4. QED
    BY <1>8, <2>1, <2>2, <2>3
<1>9. ASSUME NEW b \in Browsers, Serve(b) PROVE FALSE
  <2>1. CASE SignInEmail(b) \/ SignInOtp(b)
    BY <1>2, <2>1 DEF SignInEmail, SignInOtp, Stages
  <2>2. CASE VerifyTwoFactor(b)
    BY <1>2, <2>2 DEF VerifyTwoFactor, Stages
  <2>3. CASE SocialCallback(b)
    BY <1>2, <2>3 DEF SocialCallback, Stages
  <2>4. CASE RecordMyConsent(b) \/ EnableTwoFactor(b) \/ GenerateBackupCodes(b)
    BY <1>2, <2>4 DEF RecordMyConsent, EnableTwoFactor, GenerateBackupCodes, Stages
  <2>5. CASE OAuthAuthorize(b)
    BY <1>2, <2>5 DEF OAuthAuthorize, Stages
  <2>6. CASE ConfirmTwoFactor(b)
    <3>1. CASE call' = [call EXCEPT ![b].session = "strong", ![b].at = "revoke"]
      BY <1>1, <3>1 DEF Call
    <3>2. QED
      BY <1>2, <2>6, <3>1 DEF ConfirmTwoFactor, Stages
  <2>7. CASE RevokeOtherSessions(b)
    BY <1>2, <1>8, <2>7 DEF RevokeOtherSessions, Stages
  <2>8. CASE DisableTwoFactor(b)
    BY <1>7, <2>8 DEF DisableTwoFactor
  <2>9. CASE ResetPassword(b)
    BY <1>8, <2>9 DEF ResetPassword
  <2>10. QED
    BY <1>9, <2>1, <2>2, <2>3, <2>4, <2>5, <2>6, <2>7, <2>8, <2>9 DEF Serve
<1>10. ASSUME NEW b \in Browsers, Browse(b) PROVE FALSE
  <2>1. CASE \/ OpenConsole(b) \/ OpenSecurity(b) \/ OpenReset(b) \/ UseCode(b) \/ UsePassword(b)
             \/ RequestOtp(b) \/ ChangeEmail(b) \/ ChooseStep(b) \/ SetUpTwoFactor(b)
             \/ SignOut(b)
    BY <2>1 DEF OpenConsole, OpenSecurity, OpenReset, UseCode, UsePassword, RequestOtp,
       SendSignInOtp, ChangeEmail, ChooseStep, SetUpTwoFactor, SignOut
  <2>2. CASE OpenApp(b) \/ \E next \in {None, "app"} : OpenLogin(b, next)
    BY <1>4, <2>2 DEF OpenApp, OpenLogin, Kinds
  <2>3. CASE \/ SubmitPassword(b) \/ SubmitSocial(b) \/ SubmitOtp(b) \/ SubmitConsent(b)
             \/ \E trust \in BOOLEAN : SubmitChallenge(b, trust)
             \/ SubmitEnable(b) \/ SubmitConfirm(b) \/ SubmitDisable(b) \/ SubmitRegenerate(b)
             \/ SubmitReset(b)
    BY <1>4, <2>3 DEF SubmitPassword, SubmitSocial, SubmitOtp, SubmitConsent, SubmitChallenge,
       SubmitEnable, SubmitConfirm, SubmitDisable, SubmitRegenerate, SubmitReset, Kinds
  <2>4. CASE SkipPrompt(b) \/ Continue(b)
    BY <1>5, <2>4 DEF SkipPrompt, Continue
  <2>5. QED
    BY <1>10, <2>1, <2>2, <2>3, <2>4 DEF Browse
<1>11. ASSUME NEW b \in Browsers, Answered(b) PROVE MaybeRedirectToTwoFactorPrompt(x)
  <2>1. CASE \/ ShowChallenge(b) \/ ReachApp(b) \/ BounceToLogin(b) \/ BounceToEnrol(b)
             \/ EnableAnswered(b) \/ ConfirmAnswered(b) \/ DisableAnswered(b)
             \/ RegenerateAnswered(b) \/ ResetAnswered(b) \/ Fail(b) \/ Lose(b)
    BY <1>3, <2>1 DEF ShowChallenge, ReachApp, BounceToLogin, BounceToEnrol, EnableAnswered,
       ConfirmAnswered, DisableAnswered, RegenerateAnswered, ResetAnswered, Fail, Lose
  <2>2. CASE LookUpConsent(b)
    <3>1. PICK stage \in {"next", "reads", "consentDue"} : Go(b, stage)
      BY <2>2 DEF LookUpConsent, MaybeRedirectToConsent, AfterConsent
    <3>2. QED
      BY <1>2, <3>1 DEF Stages
  <2>3. CASE MaybeRedirectToTwoFactorPrompt(b)
    <3>1. PICK stage \in {"next", "promptDue"} : Go(b, stage)
      BY <2>3 DEF MaybeRedirectToTwoFactorPrompt
    <3>2. x = b
      BY <1>1, <3>1, GoCall DEF Stages
    <3>3. QED
      BY <2>3, <3>2
  <2>4. CASE \E what \in {"flag", "prompted"} : ReadState(b, what)
    <3>1. PICK what \in {"flag", "prompted"} : ReadState(b, what)
      BY <2>4
    <3>2. CASE call' = [call EXCEPT ![b].unread = @ \ {what},
                 ![b].flag = IF what = "flag" THEN user.on ELSE @,
                 ![b].prompted = IF what = "prompted" THEN user.prompted ELSE @]
      BY <1>1, <3>2 DEF Call
    <3>3. CASE call' = [call EXCEPT ![b].unread = @ \ {what}]
      BY <1>1, <3>3 DEF Call
    <3>4. CASE call' = [call EXCEPT ![b].unread = @ \ {what}, ![b].known = FALSE]
      BY <1>1, <3>4 DEF Call
    <3>5. QED
      BY <3>1, <3>2, <3>3, <3>4 DEF ReadState
  <2>5. CASE FollowRedirect(b)
    BY <1>3, <1>6, <2>5 DEF FollowRedirect
  <2>6. CASE LoadConsentPage(b)
    <3>1. CASE call' = [call EXCEPT ![b] = IF tab[b].next = None THEN IdleCall
                 ELSE [IdleCall EXCEPT !.kind = "authorize", !.at = "post"]]
      BY <1>3, <1>6, <3>1 DEF Rest
    <3>2. QED
      BY <1>5, <2>6, <3>1 DEF LoadConsentPage
  <2>7. CASE ConsentAccepted(b)
    BY <1>5, <2>7 DEF ConsentAccepted
  <2>8. QED
    BY <1>11, <2>1, <2>2, <2>3, <2>4, <2>5, <2>6, <2>7 DEF Answered
<1>12. ASSUME Administer PROVE FALSE
  <2>1. CASE Deactivate
    BY <1>8, <2>1 DEF Deactivate
  <2>2. CASE Reset2fa
    <3>1. TurnOff({}, None)
      BY <2>2 DEF Reset2fa
    <3>2. QED
      BY <1>7, <3>1
  <2>3. QED
    BY <1>12, <2>1, <2>2 DEF Administer, Reactivate
<1>13. ~(PromptAgain \/ CodeExpires \/ \E b \in Browsers : DeviceForgotten(b))
  BY DEF PromptAgain, CodeExpires, DeviceForgotten
<1>14. QED
  BY <1>9, <1>10, <1>11, <1>12, <1>13 DEF Next

-----------------------------------------------------------------------------
\* Each variable of the pages' model has its type.
THEOREM PagesTypeCorrect == Spec => []TypeOK
<1>1. PagesInv => TypeOK
  BY DEF PagesInv
<1>2. QED
  BY <1>1, PagesInitInv, PagesNextInv, PTL DEF Spec

\* For any number of browsers and of apps' settings: a browser holds a token that its own
\* request replaced only until the page has the answer, or has lost it.
THEOREM RotationIsFollowed == Spec => []RotationFollowed
<1>1. PagesInv => RotationFollowed
  BY DEF PagesInv, BrowserOK, TokensOK, RotationFollowed
<1>2. QED
  BY <1>1, PagesInitInv, PagesNextInv, PTL DEF Spec

\* For any number of browsers, of enrolments and of administrators' resets between them:
\* the sessions from before the enrolment are gone once it has revoked them.
THEOREM EnrolmentIsSwept == Spec => []EnrolmentSweeps
<1>1. PagesInv => EnrolmentSweeps
  BY DEF PagesInv, BrowserOK, TokensOK, StrayOK, EnrolmentSweeps
<1>2. QED
  BY <1>1, PagesInitInv, PagesNextInv, PTL DEF Spec

\* For any number of browsers: no app is reached past the consent gate, and 2FA is not
\* proposed to those who have it.
THEOREM PagesComeInOrder == Spec => PagesInOrder
<1>1. ASSUME PagesInv, PagesInv', [Next]_vars, NEW b \in Browsers
      PROVE  /\ (tab[b].page = "app" /\ tab[b].signed /\ ~tab[b].excused => ~Outstanding)'
             /\ call[b].at # "promptDue" /\ call'[b].at = "promptDue" =>
                  call[b].off \/ ~Alive(call[b].session)
  <2>1. (tab[b].page = "app" /\ tab[b].signed /\ ~tab[b].excused => ~Outstanding)'
    BY <1>1 DEF PagesInv, BrowserOK, ConsentOK
  <2>2. ASSUME call[b].at # "promptDue", call'[b].at = "promptDue"
        PROVE  call[b].off \/ ~Alive(call[b].session)
    <3>1. Next
      BY <1>1, <2>2 DEF vars
    <3>2. MaybeRedirectToTwoFactorPrompt(b)
      BY <1>1, <2>2, <3>1, ProposedOnce
    <3>3. PICK enabled : Go(b, IF ShouldPrompt(b, enabled) THEN "promptDue" ELSE "next")
      BY <3>2 DEF MaybeRedirectToTwoFactorPrompt
    <3>4. ShouldPrompt(b, enabled)
      <4>1. CASE Go(b, "next")
        BY <1>1, <2>2, <4>1, GoCall DEF PagesInv, Stages
      <4>2. QED
        BY <3>3, <4>1
    <3>5. call[b].at = "reads" /\ call[b].unread = {} /\ LookupsOK(call[b])
      BY <1>1, <3>2 DEF MaybeRedirectToTwoFactorPrompt, PagesInv, BrowserOK
    <3>6. QED
      BY <3>4, <3>5 DEF LookupsOK, ShouldPrompt
  <2>3. QED
    BY <2>1, <2>2
<1>2. PagesInv /\ PagesInv' /\ [Next]_vars =>
        [\A b \in Browsers :
           /\ (tab[b].page = "app" /\ tab[b].signed /\ ~tab[b].excused => ~Outstanding)'
           /\ call[b].at # "promptDue" /\ call'[b].at = "promptDue" =>
                call[b].off \/ ~Alive(call[b].session)]_vars
  BY <1>1
<1>3. QED
  BY <1>2, PagesInitInv, PagesNextInv, PTL DEF Spec, PagesInOrder

-----------------------------------------------------------------------------
(* The three together *)

\* In MCSignIn each part does what its own specification allows.
LEMMA PartsKeepTheirSpecs == SignInSpec => Spec /\ GatewaySpec /\ TokensSpec
<1>1. SignInInit => Init /\ GatewayInit /\ TokensInit
  BY DEF SignInInit
<1>2. [SignInNext]_SignInVars =>
        [Next]_vars /\ [GatewayNext]_gatewayVars /\ [TokensNext]_tokenVars
  BY DEF SignInNext, SignInVars
<1>3. QED
  BY <1>1, <1>2, PTL DEF SignInSpec, Spec, GatewaySpec, TokensSpec

\* Every variable of the three parts has its type.
THEOREM SignInTypes == SignInSpec => []SignInTypeOK
<1>1. TypeOK /\ GatewayTypeOK /\ TokensTypeOK => SignInTypeOK
  BY DEF SignInTypeOK
<1>2. QED
  BY <1>1, PartsKeepTheirSpecs, PagesTypeCorrect, TypeCorrect, TokensTypeCorrect, PTL
=============================================================================
