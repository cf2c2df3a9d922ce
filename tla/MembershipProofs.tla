--------------------------- MODULE MembershipProofs ---------------------------
(***************************************************************************)
(* For any accounts, projects, roles, permissions and tokens.  The tables  *)
(* and requests stay well formed whatever the callers; with one caller at  *)
(* a time no grant is left naming a role that is gone, no grant or role    *)
(* written gives anybody what the caller did not hold; and with any number *)
(* of callers what is done for one project stays inside it.                *)
(***************************************************************************)
EXTENDS Membership, TLAPS

-------------------------------------------------------------------------------
(* What the operators return.                                               *)

LEMMA RoleForType ==
    ASSUME role \in [Scopes -> [RoleIds -> {None} \cup SUBSET Permissions]],
           NEW x \in RoleIds, NEW s \in Scopes
    PROVE  RoleFor(x, s) \in {None} \cup SUBSET Permissions
BY DEF RoleFor, Scopes

\* Roles that are gone grant nothing, the others permissions.
LEMMA PermissionsType ==
    ASSUME role \in [Scopes -> [RoleIds -> {None} \cup SUBSET Permissions]],
           NEW roles \in SUBSET RoleIds, NEW s \in Scopes
    PROVE  PermissionsForRoles(roles, s) \subseteq Permissions
<1> SUFFICES ASSUME NEW x \in roles, RoleExists(x, s)
             PROVE  RoleFor(x, s) \subseteq Permissions
  BY DEF PermissionsForRoles
<1> QED
  BY RoleForType DEF RoleExists

LEMMA ResolvedType ==
    ASSUME binding \subseteq Binding, groups \in [Users -> SUBSET RoleIds], NEW u \in Users, NEW s \in Scopes
    PROVE  ResolveRoles(u, s) \subseteq RoleIds
<1>1. {b.role : b \in {g \in binding : g.user = u /\ g.scope \in {Any, s}}} \subseteq RoleIds
  BY DEF Binding
<1>2. AssignedRoles(u, s) \subseteq RoleIds
  BY <1>1, MembershipAssumption DEF AssignedRoles
<1> QED
  BY <1>2, MembershipAssumption DEF ResolveRoles

LEMMA HeldType ==
    ASSUME MembershipTypeOK, NEW p \in Caller, NEW s \in Scopes
    PROVE  Held(p, s) \in SUBSET Permissions
<1>1. p.user \in Users /\ p.token \in Tokens \cup {None}
  BY DEF Caller
<1>2. PermissionsForRoles(ResolveRoles(p.user, s), s) \subseteq Permissions
  BY <1>1, ResolvedType, PermissionsType DEF MembershipTypeOK
<1>3. \A cap : EffectivePermissions(p.user, s, cap) \subseteq Permissions
  BY <1>2 DEF EffectivePermissions
<1> QED
  BY <1>3 DEF Held

-------------------------------------------------------------------------------
(* Types.                                                                   *)

Requests == [scope : Scopes, held : SUBSET Permissions,
             mirror : Users \cup {None}, revoke : SUBSET Binding, last : Last]

LEMMA NoRequestType == NoRequest \in Requests
BY DEF NoRequest, Requests, Scopes, Last, NothingLast

LEMMA PlanType ==
    ASSUME MembershipTypeOK, NEW c \in Clients, NEW p \in Caller, NEW s \in Scopes,
           NEW mirror \in Users \cup {None}, NEW revoke \in SUBSET Binding, NEW last \in Last,
           Plan(c, p, s, mirror, revoke, last)
    PROVE  MembershipTypeOK'
<1>1. [scope |-> s, held |-> Held(p, s),
       mirror |-> mirror, revoke |-> revoke, last |-> last] \in Requests
  BY HeldType DEF Requests
<1>2. request' \in [Clients -> Requests]
  BY <1>1 DEF Plan, MembershipTypeOK, Requests
<1> QED
  BY <1>2 DEF MembershipTypeOK, Plan, tables, Requests

LEMMA TypeInit == Init => MembershipTypeOK
<1> SUFFICES ASSUME Init PROVE MembershipTypeOK
  OBVIOUS
<1>1. role \in [Scopes -> [RoleIds -> {None} \cup SUBSET Permissions]]
  BY MembershipAssumption DEF Init
<1>2. request \in [Clients -> Requests]
  BY NoRequestType DEF Init
<1>3. signedIn \subseteq Users /\ groups \in [Users -> SUBSET RoleIds]
  BY MembershipAssumption DEF Init
<1> QED
  BY <1>1, <1>2, <1>3 DEF Init, MembershipTypeOK, Requests

LEMMA MembersType ==
    ASSUME MembershipTypeOK, NEW c \in Clients, NEW p \in Caller, Members(c, p)
    PROVE  MembershipTypeOK'
<1> PICK s \in Projects, u \in Users :
        RemoveMember(c, p, s, u) \/ \E x \in RoleIds : AddMember(c, p, s, u, x)
  BY DEF Members
<1>s. s \in Scopes
  BY DEF Scopes
<1>1. CASE RemoveMember(c, p, s, u)
  <2>1. NothingLast \in Last
    BY DEF Last
  <2>2. {b \in binding : b.user = u /\ b.scope = s} \in SUBSET Binding
    BY DEF MembershipTypeOK
  <2> QED
    BY <1>1, <1>s, <2>1, <2>2, PlanType DEF RemoveMember
<1>2. CASE \E x \in RoleIds : AddMember(c, p, s, u, x)
  <2> PICK x \in RoleIds : AddMember(c, p, s, u, x)
    BY <1>2
  <2>1. [kind |-> "grant", binding |-> [user |-> u, scope |-> s, role |-> x]] \in Last
    BY <1>s DEF Last, Binding
  <2>2. {b \in binding : b.user = u /\ b.scope = s /\ b.role # x} \in SUBSET Binding
    BY DEF MembershipTypeOK
  <2>3. (IF account[u] = "absent" THEN u ELSE None) \in Users \cup {None}
    OBVIOUS
  <2> QED
    BY <1>s, <2>1, <2>2, <2>3, PlanType DEF AddMember
<1> QED
  BY <1>1, <1>2

LEMMA CatalogueType ==
    ASSUME MembershipTypeOK, NEW c \in Clients, NEW p \in Caller, Catalogue(c, p)
    PROVE  MembershipTypeOK'
<1> PICK s \in Scopes, x \in RoleIds :
        \/ \E perms \in Drafts[x] : CreateRole(c, p, s, x, perms) \/ UpdateRole(c, p, s, x, perms)
        \/ \E force \in BOOLEAN : DeleteRole(c, p, s, x, force)
  BY DEF Catalogue
<1>1. CASE \E perms \in Drafts[x] : CreateRole(c, p, s, x, perms) \/ UpdateRole(c, p, s, x, perms)
  <2> PICK perms \in Drafts[x] : CreateRole(c, p, s, x, perms) \/ UpdateRole(c, p, s, x, perms)
    BY <1>1
  <2>1. perms \in SUBSET Permissions
    BY MembershipAssumption
  <2>2. [kind |-> "putRole", scope |-> s, role |-> x, permissions |-> perms] \in Last
    BY <2>1 DEF Last
  <2> QED
    BY <2>2, PlanType DEF CreateRole, UpdateRole
<1>2. CASE \E force \in BOOLEAN : DeleteRole(c, p, s, x, force)
  <2>1. [kind |-> "deleteRole", scope |-> s, role |-> x] \in Last
    BY DEF Last
  <2>2. GrantsOf(x, s) \in SUBSET Binding
    BY DEF MembershipTypeOK, GrantsOf
  <2> QED
    BY <1>2, <2>1, <2>2, PlanType DEF DeleteRole
<1> QED
  BY <1>1, <1>2

LEMMA AdministrationType ==
    ASSUME MembershipTypeOK, NEW c \in Clients, NEW p \in Caller, Administration(c, p)
    PROVE  MembershipTypeOK'
<1>1. CASE \E s \in Scopes, u \in Users, x \in RoleIds : AdminGrant(c, p, s, u, x)
  <2> PICK s \in Scopes, u \in Users, x \in RoleIds : AdminGrant(c, p, s, u, x)
    BY <1>1
  <2>1. [kind |-> "grant", binding |-> [user |-> u, scope |-> s, role |-> x]] \in Last
    BY DEF Last, Binding
  <2>2. (IF account[u] = "absent" THEN u ELSE None) \in Users \cup {None}
    OBVIOUS
  <2> QED
    BY <2>1, <2>2, PlanType DEF AdminGrant
<1>2. CASE \E b \in binding : AdminRevoke(c, p, b)
  BY <1>2 DEF accounts, AdminRevoke, MembershipTypeOK
<1>3. CASE \E u \in Users, disabled \in BOOLEAN : SetDisabled(c, p, u, disabled)
  BY <1>3 DEF SetDisabled, MembershipTypeOK
<1>4. CASE \E t \in Tokens : RevokeToken(c, p, t)
  <2> PICK t \in Tokens : RevokeToken(c, p, t)
    BY <1>4
  <2>1. token[t] \in Token
    BY DEF RevokeToken, MembershipTypeOK
  <2>2. [token[t] EXCEPT !.revoked = TRUE] \in Token
    BY <2>1 DEF Token
  <2>3. token' \in [Tokens -> Token \cup {None}]
    BY <2>2 DEF RevokeToken, MembershipTypeOK
  <2> QED
    BY <2>3 DEF accounts, RevokeToken, MembershipTypeOK
<1> QED
  BY <1>1, <1>2, <1>3, <1>4 DEF Administration

LEMMA GoesType ==
    ASSUME MembershipTypeOK, NEW c \in Clients, Goes(c)
    PROVE  MembershipTypeOK'
<1>r. request \in [Clients -> Requests] /\ request[c] \in Requests
  BY DEF MembershipTypeOK, Requests
<1>1. CASE MirrorAccount(c)
  <2>1. [request[c] EXCEPT !.mirror = None] \in Requests
    BY <1>r DEF Requests
  <2>2. request' = [request EXCEPT ![c] = [request[c] EXCEPT !.mirror = None]]
    BY <1>1, <1>r DEF MirrorAccount, Requests
  <2>3. request' \in [Clients -> Requests]
    BY <1>r, <2>1, <2>2
  <2>4. account' \in [Users -> {"absent", "active", "disabled"}]
    BY <1>1 DEF MirrorAccount, MembershipTypeOK
  <2> QED
    BY <1>1, <2>3, <2>4 DEF MirrorAccount, MembershipTypeOK, Requests
<1>2. ASSUME NEW b \in request[c].revoke, RevokeOne(c, b) PROVE MembershipTypeOK'
  <2>1. [request[c] EXCEPT !.revoke = @ \ {b}] \in Requests
    BY <1>r DEF Requests
  <2>2. request' \in [Clients -> Requests]
    BY <1>2, <1>r, <2>1, NoRequestType DEF RevokeOne
  <2> QED
    BY <1>2, <2>2 DEF accounts, RevokeOne, MembershipTypeOK, Requests
<1>3. CASE WriteLast(c)
  <2>1. request' \in [Clients -> Requests]
    BY <1>3, <1>r, NoRequestType DEF WriteLast
  <2>2. request[c].last \in Last
    BY <1>r DEF Requests
  <2>3. binding' \subseteq Binding
    BY <1>3, <2>2 DEF WriteLast, Last, NothingLast, MembershipTypeOK
  <2>4. role' \in [Scopes -> [RoleIds -> {None} \cup SUBSET Permissions]]
    <3>1. CASE request[c].last.kind = "putRole"
      <4>1. request[c].last \in [kind : {"putRole"}, scope : Scopes, role : RoleIds, permissions : SUBSET Permissions]
        BY <2>2, <3>1 DEF Last, NothingLast
      <4> QED
        BY <1>3, <3>1, <4>1 DEF WriteLast, MembershipTypeOK
    <3>2. CASE request[c].last.kind = "deleteRole"
      <4>1. request[c].last \in [kind : {"deleteRole"}, scope : Scopes, role : RoleIds]
        BY <2>2, <3>2 DEF Last, NothingLast
      <4> QED
        BY <1>3, <3>2, <4>1 DEF WriteLast, MembershipTypeOK
    <3>3. CASE request[c].last.kind \notin {"putRole", "deleteRole"}
      BY <1>3, <3>3 DEF WriteLast, MembershipTypeOK
    <3> QED
      BY <3>1, <3>2, <3>3
  <2> QED
    BY <1>3, <2>1, <2>3, <2>4 DEF accounts, WriteLast, MembershipTypeOK, Requests
<1> QED
  BY <1>1, <1>2, <1>3 DEF Goes

LEMMA MintType ==
    ASSUME MembershipTypeOK, NEW c \in Clients, NEW t \in Tokens, NEW k \in TokenKinds,
           MintToken(c, t, k.user, k.cap, k.projects)
    PROVE  MembershipTypeOK'
<1>1. k.user \in Users /\ k.cap \in {None} \cup RoleIds /\ k.projects \in {None} \cup SUBSET Projects
  BY MembershipAssumption
<1>2. [user |-> k.user, revoked |-> FALSE, cap |-> k.cap, projects |-> k.projects] \in Token
  BY <1>1 DEF Token
<1>3. token' \in [Tokens -> Token \cup {None}]
  BY <1>2 DEF MintToken, MembershipTypeOK
<1> QED
  BY <1>3 DEF accounts, MintToken, MembershipTypeOK

LEMMA TypeStep == MembershipTypeOK /\ [Next]_vars => MembershipTypeOK'
<1> SUFFICES ASSUME MembershipTypeOK, [Next]_vars PROVE MembershipTypeOK'
  OBVIOUS
<1>1. CASE \E c \in Clients, p \in Caller : Members(c, p) \/ Catalogue(c, p) \/ Administration(c, p)
  BY <1>1, MembersType, CatalogueType, AdministrationType
<1>2. CASE \E c \in Clients, t \in Tokens, k \in TokenKinds : MintToken(c, t, k.user, k.cap, k.projects)
  BY <1>2, MintType
<1>3. CASE \E c \in Clients : Goes(c)
  BY <1>3, GoesType
<1>4. CASE \E u \in Users : SignIn(u)
  <2>1. PICK u \in Users : SignIn(u)
    BY <1>4
  <2>2. GroupRoles[u] \in SUBSET RoleIds
    BY MembershipAssumption
  <2> QED
    BY <2>1, <2>2 DEF SignIn, MembershipTypeOK
<1>5. CASE Stop
  BY <1>5, NoRequestType DEF Stop, tables, MembershipTypeOK, Requests
<1>6. CASE UNCHANGED vars
  BY <1>6 DEF vars, MembershipTypeOK
<1> QED
  BY <1>1, <1>2, <1>3, <1>4, <1>5, <1>6 DEF Next

\* Accounts, roles, grants, tokens and requests stay well formed, for any
\* number of callers and wherever a request is cut short.
THEOREM MembershipTypesCorrect == Spec => []MembershipTypeOK
BY TypeInit, TypeStep, PTL DEF Spec

-------------------------------------------------------------------------------
(* One caller at a time.  What a handler decided still holds when it        *)
(* writes, because nothing but its own writes comes in between.             *)

Decided(c) ==
    LET q == request[c]
        w == q.last
    IN  /\ w.kind = "grant" =>
               /\ w.binding.scope = q.scope
               /\ RoleExists(w.binding.role, q.scope)
               /\ ToGrant(RoleFor(w.binding.role, q.scope), q.scope) \subseteq q.held
        /\ w.kind = "putRole" =>
               /\ w.scope = q.scope
               /\ ToGrant(IF role[w.scope][w.role] = None THEN w.permissions
                          ELSE w.permissions \ role[w.scope][w.role], q.scope) \subseteq q.held
        /\ w.kind = "deleteRole" => GrantsOf(w.role, w.scope) \subseteq q.revoke

MembershipInv == MembershipTypeOK /\ GrantsNameRoles /\ \A c \in Clients : Decided(c)

LEMMA KindsDiffer ==
    ASSUME NEW w \in Last
    PROVE  /\ w.kind \in {"none", "grant", "putRole", "deleteRole"}
           /\ w.kind = "grant" => w.binding \in Binding
           /\ w.kind = "putRole" => w.scope \in Scopes /\ w.role \in RoleIds /\ w.permissions \in SUBSET Permissions
           /\ w.kind = "deleteRole" => w.scope \in Scopes /\ w.role \in RoleIds
           /\ w.kind = "none" <=> w = NothingLast
BY DEF Last, NothingLast

LEMMA IdleDecided == ASSUME NEW c \in Clients, request[c] = NoRequest PROVE Decided(c)
BY DEF Decided, NoRequest, NothingLast

\* Where no role and no grant changed, what was decided stays.
LEMMA SameDecided ==
    ASSUME NEW c \in Clients, Decided(c), UNCHANGED <<role, binding>>,
           request[c].last' = request[c].last, request[c].scope' = request[c].scope,
           request[c].held' = request[c].held, request[c].revoke' = request[c].revoke
    PROVE  Decided(c)'
BY DEF Decided, RoleExists, RoleFor, GrantsOf, ToGrant

LEMMA SameGrants ==
    ASSUME GrantsNameRoles, role' = role, binding' \subseteq binding
    PROVE  GrantsNameRoles'
BY DEF GrantsNameRoles, RoleExists, RoleFor

LEMMA InvInit == Init => MembershipInv
<1> SUFFICES ASSUME Init PROVE MembershipInv
  OBVIOUS
<1>1. GrantsNameRoles
  BY DEF Init, GrantsNameRoles
<1>2. \A c \in Clients : Decided(c)
  BY IdleDecided DEF Init
<1> QED
  BY <1>1, <1>2, TypeInit DEF MembershipInv

\* A request that was just planned: its tables are unchanged.
LEMMA PlanDecided ==
    ASSUME MembershipInv, NEW c \in Clients, Clients = {c}, NEW p, NEW s, NEW mirror, NEW revoke, NEW last,
           Plan(c, p, s, mirror, revoke, last),
           last.kind = "grant" =>
               /\ last.binding.scope = s
               /\ RoleExists(last.binding.role, s)
               /\ MayGrantRole(p, last.binding.role, s),
           last.kind = "putRole" =>
               /\ last.scope = s
               /\ MayGrant(p, IF role[s][last.role] = None THEN last.permissions
                              ELSE last.permissions \ role[s][last.role], s),
           last.kind = "deleteRole" => GrantsOf(last.role, last.scope) \subseteq revoke
    PROVE  GrantsNameRoles' /\ \A d \in Clients : Decided(d)'
<1>1. UNCHANGED <<role, binding>>
  BY DEF Plan, tables
<1>2. /\ request[c].last' = last /\ request[c].scope' = s
      /\ request[c].held' = Held(p, s) /\ request[c].revoke' = revoke
  BY DEF Plan, MembershipInv, MembershipTypeOK
<1>3. Decided(c)'
  BY <1>1, <1>2 DEF Decided, MayGrantRole, MayGrant, ToGrant, RoleExists, RoleFor, GrantsOf
<1> QED
  BY <1>1, <1>3, SameGrants DEF MembershipInv

LEMMA MembersInv ==
    ASSUME MembershipInv, NEW c \in Clients, Clients = {c}, NEW p \in Caller, Members(c, p)
    PROVE  GrantsNameRoles' /\ \A d \in Clients : Decided(d)'
<1> PICK s \in Projects, u \in Users :
        RemoveMember(c, p, s, u) \/ \E x \in RoleIds : AddMember(c, p, s, u, x)
  BY DEF Members
<1>1. CASE RemoveMember(c, p, s, u)
  <2>1. NothingLast.kind = "none"
    BY DEF NothingLast
  <2> QED
    BY <1>1, <2>1, PlanDecided DEF RemoveMember
<1>2. CASE \E x \in RoleIds : AddMember(c, p, s, u, x)
  <2> PICK x \in RoleIds : AddMember(c, p, s, u, x)
    BY <1>2
  <2> DEFINE last == [kind |-> "grant", binding |-> [user |-> u, scope |-> s, role |-> x]]
  <2>1. last.kind = "grant" /\ last.binding.scope = s /\ last.binding.role = x
    OBVIOUS
  <2>2. RoleExists(x, s) /\ MayGrantRole(p, x, s)
    BY DEF AddMember
  <2>3. Plan(c, p, s, IF account[u] = "absent" THEN u ELSE None,
             {b \in binding : b.user = u /\ b.scope = s /\ b.role # x}, last)
    BY DEF AddMember
  <2> HIDE DEF last
  <2> QED
    BY <2>1, <2>2, <2>3, PlanDecided
<1> QED
  BY <1>1, <1>2

LEMMA CatalogueInv ==
    ASSUME MembershipInv, NEW c \in Clients, Clients = {c}, NEW p \in Caller, Catalogue(c, p)
    PROVE  GrantsNameRoles' /\ \A d \in Clients : Decided(d)'
<1> PICK s \in Scopes, x \in RoleIds :
        \/ \E perms \in Drafts[x] : CreateRole(c, p, s, x, perms) \/ UpdateRole(c, p, s, x, perms)
        \/ \E force \in BOOLEAN : DeleteRole(c, p, s, x, force)
  BY DEF Catalogue
<1>1. ASSUME NEW perms \in Drafts[x], CreateRole(c, p, s, x, perms) \/ UpdateRole(c, p, s, x, perms)
      PROVE  GrantsNameRoles' /\ \A d \in Clients : Decided(d)'
  <2> DEFINE last == [kind |-> "putRole", scope |-> s, role |-> x, permissions |-> perms]
  <2>1. last.kind = "putRole" /\ last.scope = s /\ last.role = x /\ last.permissions = perms
    OBVIOUS
  <2>2. Plan(c, p, s, None, {}, last)
    BY <1>1 DEF CreateRole, UpdateRole
  <2>3. MayGrant(p, IF role[s][x] = None THEN perms ELSE perms \ role[s][x], s)
    BY <1>1 DEF CreateRole, UpdateRole
  <2> HIDE DEF last
  <2> QED
    BY <2>1, <2>2, <2>3, PlanDecided
<1>2. ASSUME NEW force \in BOOLEAN, DeleteRole(c, p, s, x, force)
      PROVE  GrantsNameRoles' /\ \A d \in Clients : Decided(d)'
  <2> DEFINE last == [kind |-> "deleteRole", scope |-> s, role |-> x]
  <2>1. last.kind = "deleteRole" /\ last.scope = s /\ last.role = x
    OBVIOUS
  <2>2. Plan(c, p, s, None, GrantsOf(x, s), last)
    BY <1>2 DEF DeleteRole
  <2> HIDE DEF last
  <2> QED
    BY <2>1, <2>2, PlanDecided
<1> QED
  BY <1>1, <1>2

LEMMA AdministrationInv ==
    ASSUME MembershipInv, NEW c \in Clients, Clients = {c}, NEW p \in Caller, Administration(c, p)
    PROVE  GrantsNameRoles' /\ \A d \in Clients : Decided(d)'
<1>1. ASSUME NEW s \in Scopes, NEW u \in Users, NEW x \in RoleIds, AdminGrant(c, p, s, u, x)
      PROVE  GrantsNameRoles' /\ \A d \in Clients : Decided(d)'
  <2> DEFINE last == [kind |-> "grant", binding |-> [user |-> u, scope |-> s, role |-> x]]
  <2>1. last.kind = "grant" /\ last.binding.scope = s /\ last.binding.role = x
    OBVIOUS
  <2>2. RoleExists(x, s) /\ MayGrantRole(p, x, s)
    BY <1>1 DEF AdminGrant
  <2>3. Plan(c, p, s, IF account[u] = "absent" THEN u ELSE None, {}, last)
    BY <1>1 DEF AdminGrant
  <2> HIDE DEF last
  <2> QED
    BY <2>1, <2>2, <2>3, PlanDecided
<1>2. ASSUME NEW b \in binding, AdminRevoke(c, p, b)
      PROVE  GrantsNameRoles' /\ \A d \in Clients : Decided(d)'
  <2>1. request'[c] = NoRequest
    BY <1>2 DEF AdminRevoke, Idle
  <2>2. Decided(c)'
    BY <2>1 DEF Decided, NoRequest, NothingLast
  <2> QED
    BY <1>2, <2>2, SameGrants DEF AdminRevoke, MembershipInv
<1>3. CASE \/ \E u \in Users, disabled \in BOOLEAN : SetDisabled(c, p, u, disabled)
           \/ \E t \in Tokens : RevokeToken(c, p, t)
  <2>1. UNCHANGED <<role, binding, request>>
    BY <1>3 DEF SetDisabled, RevokeToken
  <2> QED
    BY <2>1, SameGrants, SameDecided DEF MembershipInv
<1> QED
  BY <1>1, <1>2, <1>3 DEF Administration

\* A grant goes away: neither what is decided nor what grants name suffers.
LEMMA RevokeInv ==
    ASSUME MembershipInv, NEW c \in Clients, Clients = {c},
           NEW b \in request[c].revoke, RevokeOne(c, b)
    PROVE  GrantsNameRoles' /\ \A d \in Clients : Decided(d)'
<1>1. role' = role /\ binding' = binding \ {b}
  BY DEF RevokeOne
<1>2. Decided(c)'
  <2>1. CASE request'[c] = NoRequest
    BY <2>1 DEF Decided, NoRequest, NothingLast
  <2>2. CASE request'[c] = [request[c] EXCEPT !.revoke = request[c].revoke \ {b}]
    <3>r. request[c] \in Requests
      BY DEF MembershipInv, MembershipTypeOK, Requests
    <3>1. /\ request[c].last' = request[c].last /\ request[c].scope' = request[c].scope
          /\ request[c].held' = request[c].held /\ request[c].revoke' = request[c].revoke \ {b}
      BY <2>2, <3>r DEF Requests
    <3> QED
      BY <1>1, <3>1 DEF MembershipInv, Decided, RoleExists, RoleFor, GrantsOf, ToGrant
  <2> QED
    BY <2>1, <2>2 DEF RevokeOne, MembershipInv, MembershipTypeOK
<1> QED
  BY <1>1, <1>2, SameGrants DEF MembershipInv

\* What is written last leaves every grant a role to name.
LEMMA WriteInv ==
    ASSUME MembershipInv, NEW c \in Clients, Clients = {c}, WriteLast(c)
    PROVE  GrantsNameRoles' /\ \A d \in Clients : Decided(d)'
<1> DEFINE w == request[c].last
<1>r. request[c] \in Requests /\ w \in Last /\ role \in [Scopes -> [RoleIds -> {None} \cup SUBSET Permissions]]
  BY DEF MembershipInv, MembershipTypeOK, Requests
<1>d. Decided(c) /\ GrantsNameRoles
  BY DEF MembershipInv
<1>b. binding \subseteq Binding
  BY DEF MembershipInv, MembershipTypeOK
<1>1. request'[c] = NoRequest
  BY DEF WriteLast, MembershipInv, MembershipTypeOK
<1>2. Decided(c)'
  BY <1>1 DEF Decided, NoRequest, NothingLast
<1>3. GrantsNameRoles'
  <2>1. CASE w.kind = "grant"
    <3>1. role' = role /\ binding' = binding \cup {w.binding}
      BY <2>1 DEF WriteLast
    <3>2. RoleExists(w.binding.role, w.binding.scope)
      BY <1>d, <2>1 DEF Decided
    <3> QED
      BY <1>d, <3>1, <3>2 DEF GrantsNameRoles, RoleExists, RoleFor
  <2>2. CASE w.kind = "putRole"
    <3>1. binding' = binding /\ role' = [role EXCEPT ![w.scope][w.role] = w.permissions]
      BY <2>2 DEF WriteLast
    <3>2. w.scope \in Scopes /\ w.role \in RoleIds /\ w.permissions # None
      BY <1>r, <2>2, KindsDiffer, MembershipAssumption
    <3>3. \A s \in Scopes, x \in RoleIds : role[s][x] # None => role'[s][x] # None
      BY <1>r, <3>1, <3>2
    <3>4. ASSUME NEW b \in binding PROVE RoleExists(b.role, b.scope)'
      <4>1. b.role \in RoleIds /\ b.scope \in Scopes /\ Any \in Scopes
        BY <1>b DEF Binding, Scopes
      <4>2. RoleExists(b.role, b.scope)
        BY <1>d DEF GrantsNameRoles
      <4> QED
        BY <3>3, <4>1, <4>2 DEF RoleExists, RoleFor
    <3> QED
      BY <3>1, <3>4 DEF GrantsNameRoles
  <2>3. CASE w.kind = "deleteRole"
    <3>1. binding' = binding /\ role' = [role EXCEPT ![w.scope][w.role] = None]
      BY <2>3 DEF WriteLast
    <3>2. w.scope \in Scopes /\ w.role \in RoleIds
      BY <1>r, <2>3, KindsDiffer
    <3>3. GrantsOf(w.role, w.scope) = {}
      BY <1>d, <2>3 DEF Decided, WriteLast
    <3>4. ASSUME NEW b \in binding PROVE RoleExists(b.role, b.scope)'
      <4>1. b.role \in RoleIds /\ b.scope \in Scopes /\ Any \in Scopes
        BY <1>b DEF Binding, Scopes
      <4>2. RoleExists(b.role, b.scope)
        BY <1>d DEF GrantsNameRoles
      <4>3. b.role = w.role => w.scope # Any /\ b.scope # w.scope
        BY <3>3 DEF GrantsOf
      <4>4. role'[Any][b.role] = role[Any][b.role] /\ role'[b.scope][b.role] = role[b.scope][b.role]
        BY <1>r, <3>1, <3>2, <4>1, <4>3
      <4> QED
        BY <4>2, <4>4 DEF RoleExists, RoleFor
    <3> QED
      BY <3>1, <3>4 DEF GrantsNameRoles
  <2>4. w.kind # "none"
    BY <1>r, KindsDiffer DEF WriteLast
  <2> QED
    BY <1>r, <2>1, <2>2, <2>3, <2>4, KindsDiffer
<1> QED
  BY <1>2, <1>3

LEMMA InvStep ==
    ASSUME NEW c0, Clients = {c0}, MembershipInv, [Next]_vars
    PROVE  MembershipInv'
<1>0. MembershipTypeOK'
  BY TypeStep DEF MembershipInv
<1> SUFFICES GrantsNameRoles' /\ \A d \in Clients : Decided(d)'
  BY <1>0 DEF MembershipInv
<1>1. CASE \E c \in Clients, p \in Caller : Members(c, p) \/ Catalogue(c, p) \/ Administration(c, p)
  BY <1>1, MembersInv, CatalogueInv, AdministrationInv
<1>2. CASE \E c \in Clients, t \in Tokens, k \in TokenKinds : MintToken(c, t, k.user, k.cap, k.projects)
  <2>1. UNCHANGED <<role, binding, request>>
    BY <1>2 DEF MintToken
  <2> QED
    BY <2>1, SameGrants, SameDecided DEF MembershipInv
<1>3. CASE \E c \in Clients : Goes(c)
  <2>1. CASE MirrorAccount(c0)
    <3>r. request \in [Clients -> Requests]
      BY DEF MembershipInv, MembershipTypeOK, Requests
    <3>1. UNCHANGED <<role, binding>>
      BY <2>1 DEF MirrorAccount
    <3>2. /\ request[c0].last' = request[c0].last /\ request[c0].scope' = request[c0].scope
          /\ request[c0].held' = request[c0].held /\ request[c0].revoke' = request[c0].revoke
      BY <2>1, <3>r DEF MirrorAccount, Requests
    <3> QED
      BY <3>1, <3>2, SameGrants, SameDecided DEF MembershipInv
  <2> QED
    BY <1>3, <2>1, RevokeInv, WriteInv DEF Goes
<1>4. CASE \E u \in Users : SignIn(u)
  <2>1. UNCHANGED <<role, binding, request>>
    BY <1>4 DEF SignIn
  <2> QED
    BY <2>1, SameGrants, SameDecided DEF MembershipInv
<1>5. CASE Stop
  <2>1. UNCHANGED <<role, binding>> /\ request'[c0] = NoRequest
    BY <1>5 DEF Stop, tables
  <2>2. Decided(c0)'
    BY <2>1 DEF Decided, NoRequest, NothingLast
  <2> QED
    BY <2>1, <2>2, SameGrants DEF MembershipInv
<1>6. CASE UNCHANGED vars
  <2>1. UNCHANGED <<role, binding, request>>
    BY <1>6 DEF vars
  <2> QED
    BY <2>1, SameGrants, SameDecided DEF MembershipInv
<1> QED
  BY <1>1, <1>2, <1>3, <1>4, <1>5, <1>6 DEF Next

\* With one caller at a time no grant is ever left naming a role that does not
\* exist where the grant applies, for any accounts, projects and roles
\* (deleteRole, grantRole).
THEOREM GrantsAlwaysNameRoles ==
    ASSUME NEW c0, Clients = {c0}
    PROVE  Spec => []GrantsNameRoles
<1>1. MembershipInv => GrantsNameRoles
  BY DEF MembershipInv
<1> QED
  BY <1>1, InvInit, InvStep, PTL DEF Spec

-------------------------------------------------------------------------------
(* What somebody holds after the last write of a handler.                   *)

\* A grant adds its role, and nothing else, to what somebody is assigned.
LEMMA GrantAddsItsRole ==
    ASSUME NEW b, binding' = binding \cup {b}, groups' = groups, NEW u, NEW s
    PROVE  ResolveRoles(u, s)' \subseteq ResolveRoles(u, s) \cup {b.role}
<1>1. AssignedRoles(u, s)' \subseteq AssignedRoles(u, s) \cup {b.role}
  BY DEF AssignedRoles
<1>2. AssignedRoles(u, s) \subseteq AssignedRoles(u, s)'
  BY DEF AssignedRoles
<1> QED
  BY <1>1, <1>2 DEF ResolveRoles

LEMMA GrantGains ==
    ASSUME MembershipInv, NEW c \in Clients, NEW u \in Users, NEW s \in Scopes,
           WriteLast(c), request[c].last.kind = "grant", request[c].scope = s
    PROVE  PermissionsForRoles(ResolveRoles(u, s), s)'
               \subseteq PermissionsForRoles(ResolveRoles(u, s), s) \cup request[c].held
                         \cup (IF s = Any THEN {} ELSE GlobalOnly)
<1> PICK b : b = request[c].last.binding
  OBVIOUS
<1>1. role' = role /\ binding' = binding \cup {b} /\ groups' = groups
  BY DEF WriteLast, accounts
<1>2. ResolveRoles(u, s)' \subseteq ResolveRoles(u, s) \cup {b.role}
  BY <1>1, GrantAddsItsRole
<1>3. RoleExists(b.role, s) /\ ToGrant(RoleFor(b.role, s), s) \subseteq request[c].held
  BY DEF MembershipInv, Decided
<1>4. RoleFor(b.role, s) \subseteq request[c].held \cup (IF s = Any THEN {} ELSE GlobalOnly)
  BY <1>3 DEF ToGrant
<1>5. \A x : RoleFor(x, s)' = RoleFor(x, s) /\ (RoleExists(x, s)' <=> RoleExists(x, s))
  BY <1>1 DEF RoleExists, RoleFor
<1> QED
  BY <1>2, <1>4, <1>5 DEF PermissionsForRoles

LEMMA RoleGains ==
    ASSUME MembershipInv, NEW c \in Clients, NEW u \in Users, NEW s \in Scopes,
           WriteLast(c), request[c].last.kind = "putRole", request[c].scope = s
    PROVE  PermissionsForRoles(ResolveRoles(u, s), s)'
               \subseteq PermissionsForRoles(ResolveRoles(u, s), s) \cup request[c].held
                         \cup (IF s = Any THEN {} ELSE GlobalOnly)
<1> PICK w : w = request[c].last
  OBVIOUS
<1>r. w \in Last /\ role \in [Scopes -> [RoleIds -> {None} \cup SUBSET Permissions]]
  BY DEF MembershipInv, MembershipTypeOK
<1>1. binding' = binding /\ groups' = groups /\ role' = [role EXCEPT ![w.scope][w.role] = w.permissions]
  BY DEF WriteLast, accounts
<1>2. w.scope = s /\ w.role \in RoleIds /\ w.permissions # None
  BY <1>r, KindsDiffer, MembershipAssumption DEF MembershipInv, Decided
<1>3. ToGrant(IF role[s][w.role] = None THEN w.permissions ELSE w.permissions \ role[s][w.role], s)
          \subseteq request[c].held
  BY <1>2 DEF MembershipInv, Decided
<1>4. ResolveRoles(u, s)' = ResolveRoles(u, s) /\ ResolveRoles(u, s) \subseteq RoleIds
  BY <1>1, ResolvedType DEF ResolveRoles, AssignedRoles, MembershipInv, MembershipTypeOK
<1>5. ASSUME NEW x \in RoleIds, x # w.role
      PROVE  RoleFor(x, s)' = RoleFor(x, s) /\ (RoleExists(x, s)' <=> RoleExists(x, s))
  BY <1>r, <1>1, <1>2, <1>5 DEF RoleExists, RoleFor, Scopes
<1>6. RoleFor(w.role, s)' = w.permissions
  BY <1>r, <1>1, <1>2 DEF RoleFor, Scopes
<1>7. w.permissions \subseteq (IF RoleExists(w.role, s) THEN RoleFor(w.role, s) ELSE {})
                             \cup request[c].held \cup (IF s = Any THEN {} ELSE GlobalOnly)
  BY <1>3 DEF ToGrant, RoleExists, RoleFor
<1> QED
  BY <1>4, <1>5, <1>6, <1>7 DEF PermissionsForRoles

\* With one caller at a time nobody passes on, by a grant or a role, what the
\* caller did not hold there, for any catalogue (assertMayGrant).
THEOREM GainsAlwaysHeld ==
    ASSUME NEW c0, Clients = {c0}
    PROVE  Spec => GainsAreHeld
<1>1. ASSUME MembershipInv, NEW c \in Clients,
             request[c].last.kind \in {"grant", "putRole"}, WriteLast(c),
             NEW u \in Users, NEW s \in {request[c].scope}
      PROVE  PermissionsForRoles(ResolveRoles(u, s), s)'
                 \subseteq PermissionsForRoles(ResolveRoles(u, s), s)
                           \cup request[c].held
                           \cup (IF s = Any THEN {} ELSE GlobalOnly)
  <2>1. request[c].scope \in Scopes
    BY <1>1 DEF MembershipInv, MembershipTypeOK
  <2> QED
    BY <1>1, <2>1, GrantGains, RoleGains
<1>2. MembershipInv =>
        \A c \in Clients :
           request[c].last.kind \in {"grant", "putRole"} /\ WriteLast(c) =>
               \A u \in Users, s \in {request[c].scope} :
                   PermissionsForRoles(ResolveRoles(u, s), s)'
                       \subseteq PermissionsForRoles(ResolveRoles(u, s), s)
                                 \cup request[c].held
                                 \cup (IF s = Any THEN {} ELSE GlobalOnly)
  BY <1>1
<1> QED
  BY <1>2, InvInit, InvStep, PTL DEF Spec, GainsAreHeld

-------------------------------------------------------------------------------
(* What a request made for a project has left to write is about that        *)
(* project, for any number of callers.                                      *)

Inside(c) ==
    LET q == request[c]
        w == q.last
    IN  q.scope # Any =>
            /\ \A b \in q.revoke : b.scope = q.scope
            /\ w.kind = "grant" => w.binding.scope = q.scope
            /\ w.kind \in {"putRole", "deleteRole"} => w.scope = q.scope

InsideInv == MembershipTypeOK /\ \A c \in Clients : Inside(c)

LEMMA IdleInside == ASSUME NEW c \in Clients, request[c] = NoRequest PROVE Inside(c)
BY DEF Inside, NoRequest, NothingLast

LEMMA PlanInside ==
    ASSUME InsideInv, NEW c \in Clients, NEW p, NEW s, NEW mirror, NEW revoke, NEW last,
           Plan(c, p, s, mirror, revoke, last),
           s # Any =>
               /\ \A b \in revoke : b.scope = s
               /\ last.kind = "grant" => last.binding.scope = s
               /\ last.kind \in {"putRole", "deleteRole"} => last.scope = s
    PROVE  \A d \in Clients : Inside(d)'
<1>1. request'[c] = [scope |-> s, held |-> Held(p, s),
                     mirror |-> mirror, revoke |-> revoke, last |-> last]
  BY DEF Plan, InsideInv, MembershipTypeOK
<1>2. Inside(c)'
  BY <1>1 DEF Inside
<1>3. \A d \in Clients \ {c} : request'[d] = request[d]
  BY DEF Plan, InsideInv, MembershipTypeOK
<1> QED
  BY <1>2, <1>3 DEF Inside, InsideInv

LEMMA MembersInside ==
    ASSUME InsideInv, NEW c \in Clients, NEW p \in Caller, Members(c, p)
    PROVE  \A d \in Clients : Inside(d)'
<1> PICK s \in Projects, u \in Users :
        RemoveMember(c, p, s, u) \/ \E x \in RoleIds : AddMember(c, p, s, u, x)
  BY DEF Members
<1>1. CASE RemoveMember(c, p, s, u)
  <2>1. NothingLast.kind = "none"
    BY DEF NothingLast
  <2> QED
    BY <1>1, <2>1, PlanInside DEF RemoveMember
<1>2. ASSUME NEW x \in RoleIds, AddMember(c, p, s, u, x)
      PROVE  \A d \in Clients : Inside(d)'
  BY <1>2, PlanInside DEF AddMember
<1> QED
  BY <1>1, <1>2

LEMMA CatalogueInside ==
    ASSUME InsideInv, NEW c \in Clients, NEW p \in Caller, Catalogue(c, p)
    PROVE  \A d \in Clients : Inside(d)'
<1> PICK s \in Scopes, x \in RoleIds :
        \/ \E perms \in Drafts[x] : CreateRole(c, p, s, x, perms) \/ UpdateRole(c, p, s, x, perms)
        \/ \E force \in BOOLEAN : DeleteRole(c, p, s, x, force)
  BY DEF Catalogue
<1>1. ASSUME NEW perms, CreateRole(c, p, s, x, perms) \/ UpdateRole(c, p, s, x, perms)
      PROVE  \A d \in Clients : Inside(d)'
  BY <1>1, PlanInside DEF CreateRole, UpdateRole
<1>2. ASSUME NEW force, DeleteRole(c, p, s, x, force)
      PROVE  \A d \in Clients : Inside(d)'
  <2>1. s # Any => \A b \in GrantsOf(x, s) : b.scope = s
    BY DEF GrantsOf
  <2>2. Plan(c, p, s, None, GrantsOf(x, s), [kind |-> "deleteRole", scope |-> s, role |-> x])
    BY <1>2 DEF DeleteRole
  <2> HIDE DEF GrantsOf
  <2> QED
    BY <2>1, <2>2, PlanInside
<1> QED
  BY <1>1, <1>2

LEMMA AdministrationInside ==
    ASSUME InsideInv, NEW c \in Clients, NEW p \in Caller, Administration(c, p)
    PROVE  \A d \in Clients : Inside(d)'
<1>1. ASSUME NEW s \in Scopes, NEW u \in Users, NEW x \in RoleIds, AdminGrant(c, p, s, u, x)
      PROVE  \A d \in Clients : Inside(d)'
  BY <1>1, PlanInside DEF AdminGrant
<1>2. CASE ~\E s \in Scopes, u \in Users, x \in RoleIds : AdminGrant(c, p, s, u, x)
  <2>1. request' = request
    BY <1>2 DEF Administration, AdminRevoke, SetDisabled, RevokeToken
  <2> QED
    BY <2>1 DEF Inside, InsideInv
<1> QED
  BY <1>1, <1>2

LEMMA GoesInside ==
    ASSUME InsideInv, NEW c \in Clients, Goes(c)
    PROVE  \A d \in Clients : Inside(d)'
<1>r. request \in [Clients -> Requests] /\ Inside(c)
  BY DEF InsideInv, MembershipTypeOK, Requests
<1>1. \A d \in Clients \ {c} : request'[d] = request[d]
  BY <1>r DEF Goes, MirrorAccount, RevokeOne, WriteLast
<1>2. \/ request'[c] = NoRequest
      \/ /\ request'[c].scope = request[c].scope /\ request'[c].last = request[c].last
         /\ request'[c].revoke \subseteq request[c].revoke
  BY <1>r DEF Goes, MirrorAccount, RevokeOne, WriteLast, Requests
<1>3. Inside(c)'
  BY <1>2, <1>r DEF Inside, NoRequest, NothingLast
<1> QED
  BY <1>1, <1>3 DEF Inside, InsideInv

LEMMA InsideStep == InsideInv /\ [Next]_vars => InsideInv'
<1> SUFFICES ASSUME InsideInv, [Next]_vars PROVE InsideInv'
  OBVIOUS
<1>t. MembershipTypeOK'
  BY TypeStep DEF InsideInv
<1>1. CASE \E c \in Clients, p \in Caller : Members(c, p) \/ Catalogue(c, p) \/ Administration(c, p)
  BY <1>t, <1>1, MembersInside, CatalogueInside, AdministrationInside DEF InsideInv
<1>2. CASE \E c \in Clients : Goes(c)
  BY <1>t, <1>2, GoesInside DEF InsideInv
<1>3. CASE \/ \E c \in Clients, t \in Tokens, k \in TokenKinds : MintToken(c, t, k.user, k.cap, k.projects)
           \/ \E u \in Users : SignIn(u)
           \/ UNCHANGED vars
  <2>1. request' = request
    BY <1>3 DEF MintToken, SignIn, vars
  <2> QED
    BY <1>t, <2>1 DEF Inside, InsideInv
<1>4. CASE Stop
  <2>1. \A c \in Clients : request'[c] = NoRequest
    BY <1>4 DEF Stop
  <2>2. \A c \in Clients : Inside(c)'
    BY <2>1 DEF Inside, NoRequest, NothingLast
  <2> QED
    BY <1>t, <2>2 DEF InsideInv
<1> QED
  BY <1>1, <1>2, <1>3, <1>4 DEF Next

\* What a caller holds in a scope follows from the roles and grants of that
\* scope and of the whole server, and from an account that has signed in.
LEMMA HeldElsewhere ==
    ASSUME NEW here, here # Any, NEW s \in Scopes, s # here, NEW p,
           role'[s] = role[s], role'[Any] = role[Any],
           \A b : b.scope # here => (b \in binding' <=> b \in binding),
           UNCHANGED <<signedIn, token>>,
           p.user \in signedIn => account'[p.user] = account[p.user] /\ groups'[p.user] = groups[p.user]
    PROVE  Held(p, s)' = Held(p, s)
<1> DEFINE u == p.user
<1>1. \A x : RoleFor(x, s)' = RoleFor(x, s)
  BY DEF RoleFor
<1>2. \A roles : PermissionsForRoles(roles, s)' = PermissionsForRoles(roles, s)
  <2> TAKE roles
  <2>1. PermissionsForRoles(roles, s) = UNION {RoleFor(x, s) : x \in {y \in roles : RoleFor(y, s) # None}}
    BY DEF PermissionsForRoles, RoleExists
  <2>2. PermissionsForRoles(roles, s)' = UNION {RoleFor(x, s)' : x \in {y \in roles : RoleFor(y, s)' # None}}
    BY DEF PermissionsForRoles, RoleExists
  <2> QED
    BY <1>1, <2>1, <2>2
<1>3. ASSUME u \in signedIn
      PROVE  ResolveRoles(u, s)' = ResolveRoles(u, s)
  <2>1. {g \in binding' : g.user = u /\ g.scope \in {Any, s}} = {g \in binding : g.user = u /\ g.scope \in {Any, s}}
    OBVIOUS
  <2>2. AssignedRoles(u, s)' = AssignedRoles(u, s)
    BY <1>3, <2>1 DEF AssignedRoles
  <2> QED
    BY <2>2 DEF ResolveRoles
<1>4. Admitted(p, s)' = Admitted(p, s)
  BY DEF Admitted
<1>5. ASSUME u \in signedIn, NEW cap
      PROVE  EffectivePermissions(u, s, cap)' = EffectivePermissions(u, s, cap)
  <2>1. PermissionsForRoles(ResolveRoles(u, s), s)' = PermissionsForRoles(ResolveRoles(u, s), s)
    BY <1>2, <1>3, <1>5 DEF PermissionsForRoles, RoleExists
  <2>2. PermissionsForRoles({cap}, s)' = PermissionsForRoles({cap}, s)
    BY <1>2
  <2> QED
    BY <2>1, <2>2 DEF EffectivePermissions
<1>6. Admitted(p, s) => u \in signedIn
  BY DEF Admitted
<1> QED
  BY <1>4, <1>5, <1>6 DEF Held

LEMMA GoesStaysInside ==
    ASSUME InsideInv, NEW c \in Clients, Goes(c),
           request[c].scope # Any, request[c].mirror \notin signedIn,
           NEW p \in Caller, NEW s \in Scopes, s # request[c].scope
    PROVE  Held(p, s)' = Held(p, s)
<1> DEFINE here == request[c].scope
<1>t. /\ role \in [Scopes -> [RoleIds -> {None} \cup SUBSET Permissions]]
      /\ request[c].last \in Last /\ Any \in Scopes /\ Inside(c)
      /\ account \in [Users -> {"absent", "active", "disabled"}] /\ groups \in [Users -> SUBSET RoleIds]
  BY DEF InsideInv, MembershipTypeOK, Scopes
<1>1. CASE MirrorAccount(c)
  <2>1. p.user \in signedIn => account'[p.user] = account[p.user] /\ groups'[p.user] = groups[p.user]
    BY <1>1, <1>t DEF MirrorAccount
  <2> QED
    BY <1>1, <2>1, HeldElsewhere DEF MirrorAccount
<1>2. ASSUME NEW b \in request[c].revoke, RevokeOne(c, b) PROVE Held(p, s)' = Held(p, s)
  <2>1. b.scope = here
    BY <1>t DEF Inside
  <2> QED
    BY <1>2, <2>1, HeldElsewhere DEF RevokeOne, accounts
<1>3. CASE WriteLast(c)
  <2>1. PICK w : w = request[c].last
    OBVIOUS
  <2>2. w.kind = "grant" => w.binding.scope = here
    BY <1>t, <2>1 DEF Inside
  <2>3. \A b : b.scope # here => (b \in binding' <=> b \in binding)
    BY <1>3, <2>1, <2>2 DEF WriteLast
  <2>4. role'[s] = role[s] /\ role'[Any] = role[Any]
    <3>1. CASE w.kind \in {"putRole", "deleteRole"}
      <4>1. w.scope = here
        BY <1>t, <2>1, <3>1 DEF Inside
      <4>2. PICK new : role' = [role EXCEPT ![here][w.role] = new]
        BY <1>3, <2>1, <3>1, <4>1 DEF WriteLast
      <4> QED
        BY <1>t, <4>2
    <3>2. CASE w.kind \notin {"putRole", "deleteRole"}
      BY <1>3, <2>1, <3>2 DEF WriteLast
    <3> QED
      BY <3>1, <3>2
  <2> QED
    BY <1>3, <2>3, <2>4, HeldElsewhere DEF WriteLast, accounts
<1> QED
  BY <1>1, <1>2, <1>3 DEF Goes

\* For any number of callers, and wherever their requests are cut short, what is
\* done for one project changes nothing that any session or token may do in
\* another one or on the server (role-admin.ts, role-catalogue.ts).
THEOREM ProjectsStayInside == Spec => ProjectStaysInside
<1>1. Init => InsideInv
  BY TypeInit, IdleInside DEF Init, InsideInv
<1>2. InsideInv =>
        \A c \in Clients :
           request[c].scope # Any /\ request[c].mirror \notin signedIn /\ Goes(c) =>
               \A p \in Caller, s \in Scopes \ {request[c].scope} : Held(p, s)' = Held(p, s)
  BY GoesStaysInside
<1> QED
  BY <1>1, <1>2, InsideStep, PTL DEF Spec, ProjectStaysInside
===============================================================================
