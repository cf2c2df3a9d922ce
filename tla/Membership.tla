------------------------------ MODULE Membership ------------------------------
(***************************************************************************)
(* Who may do what: accounts, the role catalogue, role grants and access   *)
(* tokens (src/auth/role-catalogue.ts, roles.ts, role-admin.ts,            *)
(* members.ts) and the routes that change them (src/auth/routes.ts), over  *)
(* the tables of src/auth/store.ts.                                        *)
(*                                                                         *)
(* A handler looks things up, decides, and then writes row by row; a       *)
(* request is the list of writes it has left, and a stop of the process    *)
(* loses that list.  The scope Any is the whole server (project_id '*').   *)
(***************************************************************************)
EXTENDS FiniteSets

CONSTANTS
    Users, Projects, RoleIds, Tokens,
    Any,            \* ALL_PROJECTS, the scope of shared roles and server-wide grants
    Permissions,
    GlobalOnly,     \* permissions that only count server-wide (admin:users)
    ManageMembers,  \* project:members
    ManageUsers,    \* admin:users
    AdminRole,      \* the id "admin"
    BuiltIn,        \* PRESET_ROLES of this instance: id -> permissions
    Bootstrap,      \* REQU_BOOTSTRAP_ADMINS
    GroupRoles,     \* roles the groups map to that the directory has for each user
    DefaultRoles,   \* REQU_AUTH_DEFAULT_ROLE: one role or none
    Drafts,         \* bound of the model: the permission sets each role is written with
    TokenKinds,     \* bound of the model: whose tokens there are, with which limits
    Clients,        \* callers served at the same time
    None

Scopes == Projects \cup {Any}

ASSUME MembershipAssumption ==
    /\ Any \notin Projects
    /\ GlobalOnly \subseteq Permissions
    /\ ManageMembers \in Permissions /\ ManageUsers \in GlobalOnly
    /\ DOMAIN BuiltIn \subseteq RoleIds
    /\ \A x \in DOMAIN BuiltIn : BuiltIn[x] \subseteq Permissions
    /\ AdminRole \in DOMAIN BuiltIn
    /\ Bootstrap \subseteq Users
    /\ GroupRoles \in [Users -> SUBSET RoleIds]
    /\ DefaultRoles \subseteq RoleIds
    /\ Drafts \in [RoleIds -> SUBSET SUBSET Permissions]
    /\ \A k \in TokenKinds :
           /\ k.user \in Users /\ k.cap \in {None} \cup RoleIds
           /\ k.projects = None \/ k.projects \in (SUBSET Projects) \ {{}}
    /\ (\A d \in SUBSET Permissions : d # None) /\ None \notin Users \cup Tokens

VARIABLES
    account,    \* auth_users: absent, active or disabled
    signedIn,   \* accounts with a last_login_at; the others are placeholders
    groups,     \* the roles that the groups stored with an account map to
    role,       \* auth_roles: role[s][x] is what x grants where s defines it, or None
    binding,    \* auth_role_bindings
    token,      \* auth_tokens
    request     \* per caller: the writes its handler has left

accounts == <<account, signedIn, groups>>
tables   == <<account, signedIn, groups, role, binding, token>>
vars     == <<account, signedIn, groups, role, binding, token, request>>

Binding == [user : Users, scope : Scopes, role : RoleIds]
Token   == [user : Users, revoked : BOOLEAN, cap : {None} \cup RoleIds, projects : {None} \cup SUBSET Projects]

-------------------------------------------------------------------------------
(* What a caller holds.                                                     *)

\* rolesFor, roleFor: a project's own role shadows the shared one of the same id.
RoleFor(x, s) == IF s # Any /\ role[s][x] # None THEN role[s][x] ELSE role[Any][x]

RoleExists(x, s) == RoleFor(x, s) # None

\* permissionsForRoles: a role that is gone grants nothing.
PermissionsForRoles(roles, s) == UNION {RoleFor(x, s) : x \in {y \in roles : RoleExists(y, s)}}

\* resolveRoles
AssignedRoles(u, s) ==
    (IF u \in Bootstrap THEN {AdminRole} ELSE {})
        \cup groups[u]
        \cup {b.role : b \in {g \in binding : g.user = u /\ g.scope \in {Any, s}}}

ResolveRoles(u, s) ==
    IF AssignedRoles(u, s) = {} THEN DefaultRoles ELSE AssignedRoles(u, s)

\* effectivePermissions: a ceiling is an intersection.
EffectivePermissions(u, s, cap) ==
    IF cap = None THEN PermissionsForRoles(ResolveRoles(u, s), s)
    ELSE PermissionsForRoles(ResolveRoles(u, s), s) \cap PermissionsForRoles({cap}, s)

\* Callers: a session, or a token.
Caller == [user : Users, token : Tokens \cup {None}]

\* principalInScope: the account, and the token when there is one, are still
\* good.  A session, and the session a token was minted in, takes a sign-in.
Admitted(p, s) ==
    /\ account[p.user] = "active" /\ p.user \in signedIn
    /\ p.token # None =>
           /\ token[p.token] # None
           /\ token[p.token].user = p.user
           /\ ~token[p.token].revoked
           /\ token[p.token].projects = None \/ s = Any \/ s \in token[p.token].projects

Held(p, s) ==
    IF Admitted(p, s)
    THEN EffectivePermissions(p.user, s, IF p.token = None THEN None ELSE token[p.token].cap)
    ELSE {}

\* assertMayGrant: what only counts server-wide is dropped from a project's grant.
ToGrant(perms, s) == IF s = Any THEN perms ELSE perms \ GlobalOnly

MayGrant(p, perms, s) == ToGrant(perms, s) \subseteq Held(p, s)

\* Mutant: the role is looked up in the shared catalogue.
MayGrantShared(p, x, s) == role[Any][x] # None => MayGrant(p, role[Any][x], s)

\* The routes that grant a role look up what it says where it is granted.
MayGrantRole(p, x, s) == RoleFor(x, s) # None => MayGrant(p, RoleFor(x, s), s)

\* listProjectMembers, as far as routes.ts asks it: who can manage the members
\* of a project.  The list holds accounts, disabled ones and placeholders
\* included, and the people grants name.
ListedWith(perm, s) ==
    {u \in Users :
        /\ account[u] # "absent" \/ \E b \in binding : b.user = u /\ b.scope \in {Any, s}
        /\ perm \in PermissionsForRoles(ResolveRoles(u, s), s)}

-------------------------------------------------------------------------------
(* Requests: what is left to be done.  revoke holds the grants a handler    *)
(* takes away one by one, last what it writes when they are gone.           *)

NothingLast == [kind |-> "none"]
NoRequest   == [scope |-> Any, held |-> {}, mirror |-> None, revoke |-> {}, last |-> NothingLast]

Last == {NothingLast}
    \cup [kind : {"grant"}, binding : Binding]
    \cup [kind : {"putRole"}, scope : Scopes, role : RoleIds, permissions : SUBSET Permissions]
    \cup [kind : {"deleteRole"}, scope : Scopes, role : RoleIds]

Idle(c) == request[c] = NoRequest

\* A handler has decided; held is what the caller holds where it writes.
Plan(c, p, s, mirror, revoke, last) ==
    /\ request' = [request EXCEPT ![c] =
           [scope |-> s, held |-> Held(p, s),
            mirror |-> mirror, revoke |-> revoke, last |-> last]]
    /\ UNCHANGED tables

\* A placeholder account is recorded before anything is granted to a newcomer.
\* If the newcomer has signed in since the handler looked, the upsert keeps the
\* account but overwrites its groups.
MirrorAccount(c) ==
    /\ request[c].mirror # None
    /\ account' = [account EXCEPT ![request[c].mirror] = IF @ = "absent" THEN "active" ELSE @]
    /\ groups' = [groups EXCEPT ![request[c].mirror] = {}]
    /\ request' = [request EXCEPT ![c].mirror = None]
    /\ UNCHANGED <<signedIn, role, binding, token>>

RevokeOne(c, b) ==
    /\ request[c].mirror = None
    /\ b \in request[c].revoke
    /\ binding' = binding \ {b}
    /\ request' = [request EXCEPT ![c] =
           IF request[c].revoke = {b} /\ request[c].last = NothingLast
           THEN NoRequest
           ELSE [request[c] EXCEPT !.revoke = request[c].revoke \ {b}]]
    /\ UNCHANGED <<accounts, role, token>>

WriteLast(c) ==
    LET w == request[c].last IN
    /\ request[c].mirror = None /\ request[c].revoke = {} /\ w # NothingLast
    /\ binding' = IF w.kind = "grant" THEN binding \cup {w.binding} ELSE binding
    /\ role' = CASE w.kind = "putRole"    -> [role EXCEPT ![w.scope][w.role] = w.permissions]
                 [] w.kind = "deleteRole" -> [role EXCEPT ![w.scope][w.role] = None]
                 [] OTHER                 -> role
    /\ request' = [request EXCEPT ![c] = NoRequest]
    /\ UNCHANGED <<accounts, token>>

Stop ==
    /\ \E c \in Clients : ~Idle(c)
    /\ request' = [c \in Clients |-> NoRequest]
    /\ UNCHANGED tables

-------------------------------------------------------------------------------
(* /api/projects/:slug/members                                              *)

\* addProjectMember, after the checks of the route.
AddMember(c, p, s, u, x) ==
    /\ Idle(c)
    /\ s # Any
    /\ ManageMembers \in Held(p, s)
    /\ RoleExists(x, s)
    /\ MayGrantRole(p, x, s)
    /\ Plan(c, p, s,
            IF account[u] = "absent" THEN u ELSE None,
            {b \in binding : b.user = u /\ b.scope = s /\ b.role # x},
            [kind |-> "grant", binding |-> [user |-> u, scope |-> s, role |-> x]])

\* The other members a caller who leaves can leave the project to.
OtherManagers(p, s) == ListedWith(ManageMembers, s) \ {p.user}

RemoveMember(c, p, s, u) ==
    /\ Idle(c)
    /\ s # Any
    /\ ManageMembers \in Held(p, s)
    /\ u = p.user => OtherManagers(p, s) # {}
    /\ {b \in binding : b.user = u /\ b.scope = s} # {}
    /\ Plan(c, p, s, None, {b \in binding : b.user = u /\ b.scope = s}, NothingLast)

-------------------------------------------------------------------------------
(* /api/roles and /api/projects/:slug/roles                                 *)

MayWriteRoles(p, s) == (IF s = Any THEN ManageUsers ELSE ManageMembers) \in Held(p, s)

\* assertScopeable
Scopeable(perms, s) == s # Any => perms \cap GlobalOnly = {}

CreateRole(c, p, s, x, perms) ==
    /\ Idle(c)
    /\ MayWriteRoles(p, s)
    /\ role[s][x] = None
    /\ Scopeable(perms, s)
    /\ MayGrant(p, perms, s)
    /\ Plan(c, p, s, None, {}, [kind |-> "putRole", scope |-> s, role |-> x, permissions |-> perms])

UpdateRole(c, p, s, x, perms) ==
    /\ Idle(c)
    /\ MayWriteRoles(p, s)
    /\ role[s][x] # None
    /\ Scopeable(perms, s)
    /\ MayGrant(p, perms \ role[s][x], s)
    /\ Plan(c, p, s, None, {}, [kind |-> "putRole", scope |-> s, role |-> x, permissions |-> perms])

\* Mutant: a shared role is only held server-wide.
GrantsAtScope(x, s) == {b \in binding : b.role = x /\ b.scope = s}

\* Mutant: the project is not asked for.
GrantsAnywhere(x, s) == {b \in binding : b.role = x}

\* grantsOf: a shared role is held wherever it is granted.
GrantsOf(x, s) == {b \in binding : b.role = x /\ (s = Any \/ b.scope = s)}

DeleteRole(c, p, s, x, force) ==
    /\ Idle(c)
    /\ MayWriteRoles(p, s)
    /\ role[s][x] # None
    /\ ~(s = Any /\ x \in DOMAIN BuiltIn)
    /\ MayGrant(p, role[s][x], s)
    /\ force \/ GrantsOf(x, s) = {}
    /\ Plan(c, p, s, None, GrantsOf(x, s), [kind |-> "deleteRole", scope |-> s, role |-> x])

-------------------------------------------------------------------------------
(* /api/admin, decided server-wide, and the caller's own tokens.            *)

AdminGrant(c, p, s, u, x) ==
    /\ Idle(c)
    /\ ManageUsers \in Held(p, Any)
    /\ RoleExists(x, s)
    /\ MayGrantRole(p, x, s)
    /\ Plan(c, p, s, IF account[u] = "absent" THEN u ELSE None, {},
            [kind |-> "grant", binding |-> [user |-> u, scope |-> s, role |-> x]])

AdminRevoke(c, p, b) ==
    /\ Idle(c)
    /\ ManageUsers \in Held(p, Any)
    /\ b \in binding
    /\ binding' = binding \ {b}
    /\ UNCHANGED <<accounts, role, token, request>>

SetDisabled(c, p, u, disabled) ==
    /\ Idle(c)
    /\ ManageUsers \in Held(p, Any)
    /\ account[u] # "absent"
    /\ disabled => u # p.user
    /\ account' = [account EXCEPT ![u] = IF disabled THEN "disabled" ELSE "active"]
    /\ UNCHANGED <<signedIn, groups, role, binding, token, request>>

\* A sign-in of somebody the directory knows brings the stored groups up to
\* date.  The account is recorded before a sign-in without any role is rejected.
SignIn(u) ==
    /\ account[u] # "disabled"
    /\ account' = [account EXCEPT ![u] = "active"]
    /\ signedIn' = signedIn \cup {u}
    /\ groups' = [groups EXCEPT ![u] = GroupRoles[u]]
    /\ UNCHANGED <<role, binding, token, request>>

\* A ceiling must name a role where the token will be used.
MintToken(c, t, u, cap, projects) ==
    /\ Idle(c)
    /\ account[u] = "active" /\ u \in signedIn
    /\ token[t] = None
    /\ cap # None =>
           RoleExists(cap, IF projects # None /\ Cardinality(projects) = 1
                           THEN CHOOSE s \in projects : TRUE ELSE Any)
    /\ token' = [token EXCEPT ![t] = [user |-> u, revoked |-> FALSE, cap |-> cap, projects |-> projects]]
    /\ UNCHANGED <<accounts, role, binding, request>>

RevokeToken(c, p, t) ==
    /\ Idle(c)
    /\ token[t] # None /\ ~token[t].revoked
    /\ token[t].user = p.user \/ \E s \in Scopes : ManageUsers \in Held(p, s)
    /\ token' = [token EXCEPT ![t].revoked = TRUE]
    /\ UNCHANGED <<accounts, role, binding, request>>

-------------------------------------------------------------------------------
\* ensureSeeded has run; the bootstrap administrators have signed in.
Init ==
    /\ account = [u \in Users |-> IF u \in Bootstrap THEN "active" ELSE "absent"]
    /\ signedIn = Bootstrap
    /\ groups = [u \in Users |-> IF u \in Bootstrap THEN GroupRoles[u] ELSE {}]
    /\ role = [s \in Scopes |-> [x \in RoleIds |->
                  IF s = Any /\ x \in DOMAIN BuiltIn THEN BuiltIn[x] ELSE None]]
    /\ binding = {}
    /\ token = [t \in Tokens |-> None]
    /\ request = [c \in Clients |-> NoRequest]

Members(c, p) ==
    \E s \in Projects, u \in Users :
        RemoveMember(c, p, s, u) \/ \E x \in RoleIds : AddMember(c, p, s, u, x)

Catalogue(c, p) ==
    \E s \in Scopes, x \in RoleIds :
        \/ \E perms \in Drafts[x] : CreateRole(c, p, s, x, perms) \/ UpdateRole(c, p, s, x, perms)
        \/ \E force \in BOOLEAN : DeleteRole(c, p, s, x, force)

Administration(c, p) ==
    \/ \E s \in Scopes, u \in Users, x \in RoleIds : AdminGrant(c, p, s, u, x)
    \/ \E b \in binding : AdminRevoke(c, p, b)
    \/ \E u \in Users, disabled \in BOOLEAN : SetDisabled(c, p, u, disabled)
    \/ \E t \in Tokens : RevokeToken(c, p, t)

Goes(c) ==
    \/ MirrorAccount(c)
    \/ \E b \in request[c].revoke : RevokeOne(c, b)
    \/ WriteLast(c)

Next ==
    \/ \E c \in Clients, p \in Caller : Members(c, p) \/ Catalogue(c, p) \/ Administration(c, p)
    \/ \E c \in Clients, t \in Tokens, k \in TokenKinds : MintToken(c, t, k.user, k.cap, k.projects)
    \/ \E c \in Clients : Goes(c)
    \/ \E u \in Users : SignIn(u)
    \/ Stop

Spec == Init /\ [][Next]_vars

-------------------------------------------------------------------------------
MembershipTypeOK ==
    /\ account \in [Users -> {"absent", "active", "disabled"}]
    /\ signedIn \subseteq Users
    /\ groups \in [Users -> SUBSET RoleIds]
    /\ role \in [Scopes -> [RoleIds -> {None} \cup SUBSET Permissions]]
    /\ binding \subseteq Binding
    /\ token \in [Tokens -> Token \cup {None}]
    /\ request \in [Clients -> [scope : Scopes, held : SUBSET Permissions,
                                mirror : Users \cup {None}, revoke : SUBSET Binding, last : Last]]

\* With one caller at a time no grant is ever left naming a role that does not
\* exist where the grant applies, wherever a request is cut short (role-admin.ts,
\* deleteRole: grants "are revoked rather than left pointing at nothing").
GrantsNameRoles == \A b \in binding : RoleExists(b.role, b.scope)

\* Granting a role, and writing one, gives nobody in the scope that is written
\* a permission the caller did not hold there (role-admin.ts, assertMayGrant:
\* "a role can only ever pass on permissions its author already has").  Taking
\* things away is left out: it may uncover a shared role or the default one.
GainsAreHeld ==
    [][\A c \in Clients :
           request[c].last.kind \in {"grant", "putRole"} /\ WriteLast(c) =>
               \A u \in Users, s \in {request[c].scope} :
                   PermissionsForRoles(ResolveRoles(u, s), s)'
                       \subseteq PermissionsForRoles(ResolveRoles(u, s), s)
                                 \cup request[c].held
                                 \cup (IF s = Any THEN {} ELSE GlobalOnly)]_vars

\* Whatever is done for one project, by its administrators or by the server's,
\* changes nothing that any session or token may do in another scope, at any
\* of its writes and wherever it is cut short (role-admin.ts: "being an
\* administrator of one project has never added up to administering the server";
\* a project's own role of the same id shadows the shared one in that project
\* alone, and deleting it leaves the grants of the shared one).  The placeholder
\* of somebody who has signed in meanwhile is left out: it loses the groups.
ProjectStaysInside ==
    [][\A c \in Clients :
           request[c].scope # Any /\ request[c].mirror \notin signedIn /\ Goes(c) =>
               \A p \in Caller, s \in Scopes \ {request[c].scope} : Held(p, s)' = Held(p, s)]_vars
===============================================================================
