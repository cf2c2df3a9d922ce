-------------------------------- MODULE Access --------------------------------
(***************************************************************************)
(* How a request reaches its handler: the HTTP server of src/index.ts, the *)
(* guard of the REST API (src/web-api.ts), the permission tables           *)
(* (src/auth/rbac.ts), the request context (src/auth/context.ts) and the   *)
(* audit row each call hands to the store (src/audit.ts).                  *)
(*                                                                         *)
(* A web request is about the project its query names.  An MCP request is  *)
(* authenticated before anyone knows its project, and may carry several    *)
(* tool calls, which share one context: each looks up its own project and  *)
(* resolves the caller's roles again, query by query, while roles and      *)
(* credentials change.  Roles themselves are Membership's; here a caller   *)
(* holds a set of grants.                                                  *)
(***************************************************************************)
EXTENDS FiniteSets, Sequences, SequencesExt

CONSTANTS
    Projects,
    Requests,       \* HTTP requests, each served once
    Calls,          \* tool calls and web calls, each served once
    Versions,
    Global,         \* the scope of server-wide grants
    Grantable,      \* bound of the model: the grants that come and go
    Databases,      \* bound of the model: the projects the database may know at first
    Tools, Routes,  \* bound of the model: the tools and the routes that are called
    MaxEvents,      \* bound of the model: how often something changes around the calls
    None

ASSUME AccessAssumption ==
    /\ IsFiniteSet(Projects)
    /\ Global \notin Projects /\ None \notin Projects
    /\ Calls \cap Requests = {}
    /\ Databases \subseteq SUBSET Projects
    /\ \A g \in Grantable : g = <<g[1], g[2]>>

VARIABLES
    live,       \* the caller's account and credential are good
    granted,    \* the caller's grants: <<scope, permission>>
    database,   \* projects the database knows
    stores,     \* projects this process has attached (_stores)
    session,    \* the client's MCP session is open (sessions)
    request,    \* the requests being served, each with its context
    call,       \* the calls they carry
    audit,      \* per call or request: the audit rows it handed to appendAudit
    events      \* not in the program: counts what changed around the calls

vars == <<live, granted, database, stores, session, request, call, audit, events>>

-------------------------------------------------------------------------------
(* Which permission an operation needs.                                     *)

Scopes == Projects \cup {Global}

TOOL_PERMISSIONS ==
    [set_active_phase |-> "phase:write", export_project |-> "project:export",
     init_project |-> "project:manage"]

\* permissionForTool: a tool the table does not name reads.  The fallback by
\* suffix is for tools yet to come: every tool that writes is in the table.
permissionForTool(tool) ==
    IF tool \in DOMAIN TOOL_PERMISSIONS THEN TOOL_PERMISSIONS[tool] ELSE "spec:read"

\* Routes are <<method, what>>.
ROUTE_PERMISSIONS ==
    {<<<<"PATCH", "config">>, "project:manage">>, <<<<"DELETE", "phases">>, "phase:write">>,
     <<<<"GET", "export">>, "project:export">>}

PUBLIC_ROUTES == {<<"GET", "version">>}

Reads(route) == route[1] = "GET"

\* permissionForRoute: the table, else the method.
permissionForRoute(route) ==
    CASE route \in PUBLIC_ROUTES -> None
      [] \E e \in ROUTE_PERMISSIONS : e[1] = route ->
             (CHOOSE e \in ROUTE_PERMISSIONS : e[1] = route)[2]
      [] OTHER -> IF Reads(route) THEN "spec:read" ELSE "requirement:write"

Permission(c) ==
    IF call[c].surface = "mcp" THEN permissionForTool(call[c].op) ELSE permissionForRoute(call[c].op)

\* resolveRoles, effectivePermissions: a server-wide grant counts everywhere.
PermissionsIn(scope) == {g[2] : g \in {h \in granted : h[1] \in {Global, scope}}}

-------------------------------------------------------------------------------
(* The context of a request, and the audit rows.                            *)

\* newContext
Context(surface, scope) ==
    [pc |-> "identify", surface |-> surface, scope |-> scope,
     principal |-> {}, projectKey |-> IF scope = Global THEN None ELSE scope, version |-> None]

IdleRequest == [Context("mcp", Global) EXCEPT !.pc = "idle"]
Done == [Context("mcp", Global) EXCEPT !.pc = "done"]

\* A call: what it asks, how far it is, and (not in the program) what the
\* caller had at some moment since it arrived.
Asked(surface, op, key, r) ==
    [pc |-> "wait", surface |-> surface, op |-> op, key |-> key, by |-> r,
     project |-> None, roles |-> {}, bound |-> None, ran |-> FALSE,
     sawLive |-> live, sawGranted |-> granted]

IdleCall == [pc |-> "idle"]
Waiting(c, step) == call[c].pc = step
InFlight(c) == call[c].pc \notin {"idle", "ended", "lost"}

Siblings(r) == {c \in Calls : InFlight(c) /\ call[c].by = r}

\* Mutant: the project is taken from the context too.
AuditRowOfContext(ctx, project, outcome) ==
    [project |-> ctx.projectKey, version |-> ctx.version, outcome |-> outcome]

\* The row audit() builds: an explicit project wins over the context's, the
\* version is always the context's.
AuditRow(ctx, project, outcome) ==
    [project |-> IF project # None THEN project ELSE ctx.projectKey,
     version |-> ctx.version, outcome |-> outcome]

\* audit(): the row is handed to appendAudit and not waited for; should the
\* insert fail, that is only logged.
Note(who, project, outcome) ==
    audit' = [audit EXCEPT ![who] = Append(@, AuditRow(request[IF who \in Calls THEN call[who].by ELSE who], project, outcome))]

End(c, outcome) ==
    /\ call' = [call EXCEPT ![c].pc = "ended", ![c].ran = (outcome \in {"ok", "failed"})]
    /\ Note(c, call[c].project, IF outcome = "failed" THEN "error" ELSE outcome)

Goto(c, step) == call' = [call EXCEPT ![c].pc = step]

-------------------------------------------------------------------------------
Init ==
    /\ live = TRUE
    /\ granted \in SUBSET Grantable
    /\ database \in Databases
    /\ stores = {}
    /\ session = TRUE
    /\ request = [r \in Requests |-> IdleRequest]
    /\ call = [c \in Calls |-> IdleCall]
    /\ audit = [x \in Calls \cup Requests |-> <<>>]
    /\ events = 0

(***************************************************************************)
(* A request arrives.  The web guard first attaches the projects of the    *)
(* database (ensureDbProjects) and reads the project off the query         *)
(* (projectSlugFor); an MCP request has no project yet.                    *)
(***************************************************************************)
projectSlugFor(key, loaded) ==
    IF key # None THEN (IF key \in loaded THEN key ELSE Global)
    ELSE IF Cardinality(loaded) = 1 THEN CHOOSE p \in loaded : TRUE ELSE Global

ArriveWeb(r, c, route, key) ==
    /\ request[r] = IdleRequest /\ call[c] = IdleCall
    /\ stores' = stores \cup database
    /\ request' = [request EXCEPT ![r] = Context("web", projectSlugFor(key, stores'))]
    /\ call' = [call EXCEPT ![c] = Asked("web", route, key, r)]
    /\ UNCHANGED <<live, granted, database, session, audit, events>>

ArriveMcp(r, asked) ==
    /\ request[r] = IdleRequest
    /\ asked \in UNION {[S -> Tools \X ({None} \cup Projects)] : S \in {T \in SUBSET Calls : T # {}}}
    /\ \A c \in DOMAIN asked : call[c] = IdleCall
    /\ request' = [request EXCEPT ![r] = Context("mcp", Global)]
    /\ call' = [c \in Calls |-> IF c \in DOMAIN asked THEN Asked("mcp", asked[c][1], asked[c][2], r) ELSE call[c]]
    /\ UNCHANGED <<live, granted, database, stores, session, audit, events>>

(***************************************************************************)
(* authenticateRequest: the credential and the account, then the roles in  *)
(* the scope of the request.                                               *)
(***************************************************************************)
Identify(r) ==
    /\ request[r].pc = "identify" /\ live
    /\ request' = [request EXCEPT ![r].pc = "resolve"]
    /\ UNCHANGED <<live, granted, database, stores, session, call, audit, events>>

\* auditUnauthenticated: the refusal of an MCP request is the request's row.
RefuseMcp(r) ==
    /\ request[r].pc = "identify" /\ ~live /\ request[r].surface = "mcp"
    /\ request' = [request EXCEPT ![r] = Done]
    /\ call' = [c \in Calls |-> IF c \in Siblings(r) THEN [call[c] EXCEPT !.pc = "lost"] ELSE call[c]]
    /\ Note(r, None, "denied")
    /\ UNCHANGED <<live, granted, database, stores, session, events>>

\* handleWebRequest: only a public route is served to nobody.
RefuseWeb(r) ==
    /\ request[r].pc = "identify" /\ ~live /\ request[r].surface = "web"
    /\ request' = [request EXCEPT ![r].pc = "open"]
    /\ \E c \in Siblings(r) :
          IF Permission(c) = None
          THEN Goto(c, "route") /\ audit' = audit
          ELSE End(c, "denied")
    /\ UNCHANGED <<live, granted, database, stores, session, events>>

Resolve(r) ==
    /\ request[r].pc = "resolve"
    /\ request' = [request EXCEPT ![r].pc = "open", ![r].principal = PermissionsIn(request[r].scope)]
    /\ UNCHANGED <<live, granted, database, stores, session, call, audit, events>>

(***************************************************************************)
(* Web: the guard, then the store the query names.                         *)
(***************************************************************************)
Guard(c) ==
    /\ Waiting(c, "wait") /\ call[c].surface = "web" /\ request[call[c].by].pc = "open"
    /\ LET r == call[c].by IN
       IF Permission(c) \in {None} \cup request[r].principal
       THEN Goto(c, "route") /\ UNCHANGED <<audit, request>>
       ELSE End(c, "denied") /\ request' = [request EXCEPT ![r] = Done]
    /\ UNCHANGED <<live, granted, database, stores, session, events>>

\* resolveStore: the store the query names, or the only one there is.
Resolvable(key) ==
    IF key = None THEN (IF Cardinality(stores) = 1 THEN stores ELSE {}) ELSE stores \cap {key}

\* Every write leaves a row, with the project the guard saw; a read leaves none.
Answer(c, outcome, served) ==
    /\ call' = [call EXCEPT ![c].pc = "ended", ![c].ran = (outcome # "error"), ![c].project = served]
    /\ IF Reads(call[c].op) THEN audit' = audit
       ELSE Note(c, None, IF outcome = "ok" THEN "ok" ELSE "error")

Route(c) ==
    /\ Waiting(c, "route")
    /\ \/ Permission(c) = None /\ Answer(c, "ok", None)
       \/ Permission(c) # None /\ Resolvable(call[c].key) = {} /\ Answer(c, "error", None)
       \/ /\ Permission(c) # None
          /\ \E p \in Resolvable(call[c].key), outcome \in {"ok", "failed"} : Answer(c, outcome, p)
    /\ request' = [request EXCEPT ![call[c].by] = Done]
    /\ UNCHANGED <<live, granted, database, stores, session, events>>

(***************************************************************************)
(* MCP: a transport without the session refuses the message; otherwise     *)
(* each call runs through the wrapper of createServer.                     *)
(***************************************************************************)
NoSession(r) ==
    /\ request[r].pc = "open" /\ request[r].surface = "mcp" /\ ~session
    /\ \A c \in Siblings(r) : Waiting(c, "wait")
    /\ request' = [request EXCEPT ![r] = Done]
    /\ call' = [c \in Calls |-> IF c \in Siblings(r) THEN [call[c] EXCEPT !.pc = "lost"] ELSE call[c]]
    /\ UNCHANGED <<live, granted, database, stores, session, audit, events>>

\* selectorFor, and what can be refused before the project is looked up:
\* init_project without a key, or without a server-wide grant.
Dispatch(c) ==
    /\ Waiting(c, "wait") /\ call[c].surface = "mcp" /\ request[call[c].by].pc = "open"
    /\ LET r == call[c].by
           init == call[c].op = "init_project"
           refusal == IF init /\ call[c].key = None THEN "error"
                      ELSE IF init /\ Permission(c) \notin request[r].principal THEN "denied"
                      ELSE "none"
           ctx == IF call[c].key = None THEN request[r] ELSE [request[r] EXCEPT !.projectKey = call[c].key]
       IN  /\ request' = [request EXCEPT ![r] = ctx]
           /\ call' = [call EXCEPT ![c].pc = IF refusal = "none" THEN "find" ELSE "ended", ![c].project = call[c].key]
           /\ audit' = IF refusal = "none" THEN audit
                       ELSE [audit EXCEPT ![c] = Append(@, AuditRow(ctx, call[c].key, refusal))]
    /\ UNCHANGED <<live, granted, database, stores, session, events>>

(***************************************************************************)
(* getStore: an attached project, else one of the database; an unknown     *)
(* name is minted for init_project alone.  Without a key there has to be   *)
(* exactly one project.                                                    *)
(***************************************************************************)
Attached(key) == IF key \in stores THEN stores ELSE stores \cup database

Target(c) ==
    LET loaded == Attached(call[c].key) IN
    IF call[c].key = None THEN (IF Cardinality(loaded) = 1 THEN loaded ELSE {})
    ELSE IF call[c].op = "init_project" THEN {call[c].key}
    ELSE loaded \cap {call[c].key}

FindStore(c) ==
    /\ Waiting(c, "find")
    /\ stores' = Attached(call[c].key) \cup Target(c)
    /\ IF Target(c) = {}
       THEN End(c, "error")
       ELSE /\ call' = [call EXCEPT ![c].pc = "again", ![c].project = CHOOSE p \in Target(c) : TRUE]
            /\ audit' = audit
    /\ UNCHANGED <<live, granted, database, session, request, events>>

\* reauthorizeForProject: the same queries again, for this call's project.
IdentifyAgain(c) ==
    /\ Waiting(c, "again")
    /\ IF live THEN Goto(c, "roles") /\ audit' = audit ELSE End(c, "denied")
    /\ UNCHANGED <<live, granted, database, stores, session, request, events>>

ResolveAgain(c) ==
    /\ Waiting(c, "roles")
    /\ call' = [call EXCEPT ![c].pc = "admit", ![c].roles = PermissionsIn(call[c].project)]
    /\ UNCHANGED <<live, granted, database, stores, session, request, audit, events>>

\* Mutant: the context's principal is read before the new one is in it.
PrincipalBefore(c) == request[call[c].by].principal

\* What requirePermission sees: the principal just stored in the context.
Principal(c) == call[c].roles

Admit(c) ==
    /\ Waiting(c, "admit")
    /\ LET r   == call[c].by
           ctx == [request[r] EXCEPT !.principal = call[c].roles, !.projectKey = call[c].project]
           ok  == Permission(c) \in Principal(c)
       IN  /\ request' = [request EXCEPT ![r] = ctx]
           /\ call' = [call EXCEPT ![c].pc = IF ok THEN "bind" ELSE "ended", ![c].roles = {}]
           /\ audit' = IF ok THEN audit
                       ELSE [audit EXCEPT ![c] = Append(@, AuditRow(ctx, call[c].project, "denied"))]
    /\ UNCHANGED <<live, granted, database, stores, session, events>>

\* bindVersion: a version that does not exist, or is locked, is an error;
\* noteTarget leaves the version in the context.
Bind(c) ==
    /\ Waiting(c, "bind")
    /\ \/ End(c, "error") /\ UNCHANGED request
       \/ \E v \in Versions \cup {None} :
             /\ v = None => call[c].op = "init_project"
             /\ call' = [call EXCEPT ![c].pc = "run", ![c].bound = v]
             /\ request' = [request EXCEPT ![call[c].by].version = IF v = None THEN @ ELSE v,
                                           ![call[c].by].projectKey = call[c].project]
             /\ UNCHANGED audit
    /\ UNCHANGED <<live, granted, database, stores, session, events>>

Run(c) ==
    /\ Waiting(c, "run")
    /\ \E outcome \in {"ok", "failed"} : End(c, outcome)
    /\ database' = IF call[c].op = "init_project" THEN database \cup {call[c].project} ELSE database
    /\ UNCHANGED <<live, granted, stores, session, request, events>>

-------------------------------------------------------------------------------
(***************************************************************************)
(* Meanwhile: grants and the credential come and go, the MCP session is    *)
(* opened and closed, the process stops.                                   *)
(***************************************************************************)
Watched == [c \in Calls |->
    IF InFlight(c)
    THEN [call[c] EXCEPT !.sawLive = @ \/ live', !.sawGranted = @ \cup granted']
    ELSE call[c]]

Another == events < MaxEvents /\ events' = events + 1

Regrant ==
    /\ Another
    /\ \E g \in Grantable : granted' = IF g \in granted THEN granted \ {g} ELSE granted \cup {g}
    /\ live' = live
    /\ call' = Watched
    /\ UNCHANGED <<database, stores, session, request, audit>>

Revoke ==
    /\ Another
    /\ live' = ~live
    /\ granted' = granted
    /\ call' = Watched
    /\ UNCHANGED <<database, stores, session, request, audit>>

ReopenSession ==
    /\ Another
    /\ session' = IF session THEN FALSE ELSE live
    /\ session' # session
    /\ UNCHANGED <<live, granted, database, stores, request, call, audit>>

Stop ==
    /\ Another
    /\ stores' = {}
    /\ session' = FALSE
    /\ request' = [r \in Requests |-> IF request[r] = IdleRequest THEN request[r] ELSE Done]
    /\ call' = [c \in Calls |-> IF InFlight(c) THEN [call[c] EXCEPT !.pc = "lost"] ELSE call[c]]
    /\ UNCHANGED <<live, granted, database, audit>>

Serve(c) ==
    \/ Guard(c) \/ Route(c)
    \/ Dispatch(c) \/ FindStore(c) \/ IdentifyAgain(c) \/ ResolveAgain(c)
    \/ Admit(c) \/ Bind(c) \/ Run(c)

Next ==
    \/ \E r \in Requests :
          \/ Identify(r) \/ RefuseMcp(r) \/ RefuseWeb(r) \/ Resolve(r) \/ NoSession(r)
          \/ \E c \in Calls, route \in Routes, key \in Projects \cup {None} : ArriveWeb(r, c, route, key)
          \/ \E S \in SUBSET Calls : \E asked \in [S -> Tools \X ({None} \cup Projects)] : ArriveMcp(r, asked)
    \/ \E c \in Calls : Serve(c)
    \/ Regrant \/ Revoke \/ ReopenSession \/ Stop

Spec == Init /\ [][Next]_vars

===============================================================================
