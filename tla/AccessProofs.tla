----------------------------- MODULE AccessProofs -----------------------------
(***************************************************************************)
(* Every call that ran was allowed to, and every call that ended left its  *)
(* audit row: RanWithLeave and OneRowEach as theorems, for any requests,   *)
(* calls, projects, tools, routes and grants, however often something      *)
(* changes around the calls.                                               *)
(***************************************************************************)
EXTENDS AccessProperties, FiniteSetTheorems, TLAPS

Rights == {g[2] : g \in Grantable}

RequestRecord ==
    [pc : {"idle", "identify", "resolve", "open", "done"}, surface : {"mcp", "web"}, scope : Scopes,
     principal : SUBSET Rights, projectKey : Projects \cup {None}, version : Versions \cup {None}]

\* A call that found its store is about a project.
CallRecord ==
    {k \in [pc : {"wait", "route", "find", "again", "roles", "admit", "bind", "run", "ended", "lost"},
            surface : {"mcp", "web"}, op : Tools \cup Routes, key : Projects \cup {None}, by : Requests,
            project : Projects \cup {None}, roles : SUBSET Rights, bound : Versions \cup {None},
            ran : BOOLEAN, sawLive : BOOLEAN, sawGranted : SUBSET Grantable] :
        k.pc \in {"again", "roles", "admit", "bind", "run"} => k.project \in Projects}

AccessTypeOK ==
    /\ live \in BOOLEAN
    /\ granted \in SUBSET Grantable
    /\ database \in SUBSET Projects
    /\ stores \in SUBSET Projects
    /\ request \in [Requests -> RequestRecord]
    /\ call \in [Calls -> {IdleCall} \cup CallRecord]

-------------------------------------------------------------------------------
(* The invariant, part by part.                                             *)

\* Somebody held the right x, server-wide or in s, since the call arrived.
Seen(c, s, x) == \E t \in {Global, s} : <<t, x>> \in call[c].sawGranted

Backed(c, s) == call[c].sawLive /\ Seen(c, s, Permission(c))

\* A web call: its request is its own, and the scope the roles are resolved in
\* will be the project that is served.
WebScope(c, s) ==
    \/ s = Global
    \/ call[c].key # None /\ s = call[c].key
    \/ call[c].key = None /\ s \in stores

WebCall(c, q) ==
    /\ q.surface = "web"
    /\ q.pc = "identify" => q.principal = {}
    /\ q.pc = "resolve" \/ q.principal # {} => call[c].sawLive
    /\ \A x \in q.principal : Seen(c, q.scope, x)
    /\ WebScope(c, q.scope)
    /\ call[c].pc \in {"wait", "route"}
    /\ call[c].pc = "route" /\ Permission(c) # None => Backed(c, q.scope)

McpCall(c, q) ==
    /\ q.surface = "mcp"
    /\ call[c].pc # "route"
    /\ call[c].pc \in {"roles", "admit"} => call[c].sawLive
    /\ call[c].pc = "admit" => \A x \in call[c].roles : Seen(c, call[c].project, x)
    /\ call[c].pc \in {"bind", "run"} => Backed(c, call[c].project)

Serving(c, q) ==
    /\ q.pc # "idle"
    /\ live => call[c].sawLive
    /\ granted \subseteq call[c].sawGranted
    /\ ~call[c].ran
    /\ call[c].surface = "web" => WebCall(c, q)
    /\ call[c].surface = "mcp" => McpCall(c, q)

Sound(c) ==
    /\ InFlight(c) => Serving(c, request[call[c].by])
    /\ Ended(c) /\ call[c].ran /\ Permission(c) # None => Backed(c, call[c].project)

WebAlone ==
    \A c, d \in Calls :
        InFlight(c) /\ InFlight(d) /\ call[c].surface = "web" /\ call[d].by = call[c].by => c = d

AccessInv == AccessTypeOK /\ WebAlone /\ (\A c \in Calls : Sound(c))

-------------------------------------------------------------------------------
(* Lemmas: what resolving roles yields, and the types.                      *)

LEMMA RightsTyped ==
  ASSUME granted \in SUBSET Grantable, NEW s
  PROVE  PermissionsIn(s) \in SUBSET Rights
  BY DEF PermissionsIn, Rights

\* Roles resolved now were held since the call arrived.
LEMMA RolesSeen ==
  ASSUME NEW c, granted \in SUBSET Grantable, granted \subseteq call[c].sawGranted,
         NEW s, NEW x \in PermissionsIn(s)
  PROVE  Seen(c, s, x)
  <1>1. PICK g \in granted : g[1] \in {Global, s} /\ g[2] = x
    BY DEF PermissionsIn
  <1>2. g = <<g[1], g[2]>>
    BY <1>1, AccessAssumption
  <1> QED BY <1>1, <1>2 DEF Seen

LEMMA FoundInProjects ==
  ASSUME AccessTypeOK, NEW c \in Calls, Waiting(c, "find")
  PROVE  Target(c) \subseteq Projects /\ Attached(call[c].key) \subseteq Projects
  <1>1. call[c] \in CallRecord
    BY DEF AccessTypeOK, Waiting, IdleCall
  <1>2. Attached(call[c].key) \subseteq Projects
    BY DEF Attached, AccessTypeOK
  <1>3. Target(c) \subseteq Projects
    BY <1>1, <1>2 DEF Target, CallRecord
  <1> QED BY <1>2, <1>3

LEMMA ScopeTyped ==
  ASSUME NEW key \in Projects \cup {None}, NEW loaded \in SUBSET Projects
  PROVE  projectSlugFor(key, loaded) \in Scopes
  <1>1. CASE key = None /\ Cardinality(loaded) = 1
    <2>1. loaded # {}
      BY <1>1, FS_EmptySet
    <2> QED BY <1>1, <2>1 DEF projectSlugFor, Scopes
  <1>2. CASE ~(key = None /\ Cardinality(loaded) = 1)
    BY <1>2 DEF projectSlugFor, Scopes
  <1> QED BY <1>1, <1>2

LEMMA CallUpdated ==
  ASSUME AccessTypeOK, NEW c \in Calls, NEW k \in CallRecord, call' = [call EXCEPT ![c] = k]
  PROVE  call' \in [Calls -> {IdleCall} \cup CallRecord]
  BY DEF AccessTypeOK

LEMMA InitTyped == Init => AccessTypeOK
  BY AccessAssumption DEF Init, AccessTypeOK, IdleRequest, Context, RequestRecord, Scopes, Rights

LEMMA RequestStepsTyped ==
  ASSUME AccessTypeOK, NEW r \in Requests,
         \/ Identify(r) \/ RefuseMcp(r) \/ RefuseWeb(r) \/ Resolve(r) \/ NoSession(r)
         \/ \E c \in Calls, route \in Routes, key \in Projects \cup {None} : ArriveWeb(r, c, route, key)
         \/ \E asked : ArriveMcp(r, asked)
  PROVE  AccessTypeOK'
  <1> USE DEF AccessTypeOK
  <1>r. request[r] \in RequestRecord
    OBVIOUS
  <1>d. Done \in RequestRecord
    BY DEF Done, Context, RequestRecord, Scopes
  <1>l. [c \in Calls |-> IF c \in Siblings(r) THEN [call[c] EXCEPT !.pc = "lost"] ELSE call[c]]
            \in [Calls -> {IdleCall} \cup CallRecord]
    BY DEF Siblings, InFlight, IdleCall, CallRecord
  <1>1. CASE Identify(r)
    BY <1>1, <1>r DEF Identify, RequestRecord
  <1>2. CASE RefuseMcp(r)
    BY <1>2, <1>d, <1>l DEF RefuseMcp
  <1>3. CASE RefuseWeb(r)
    <2>1. PICK c \in Siblings(r) :
             IF Permission(c) = None THEN Goto(c, "route") /\ audit' = audit ELSE End(c, "denied")
      BY <1>3 DEF RefuseWeb
    <2>2. c \in Calls /\ call[c] \in CallRecord
      BY DEF Siblings, InFlight, IdleCall
    <2>3. call' \in [Calls -> {IdleCall} \cup CallRecord]
      BY <2>1, <2>2 DEF Goto, End, CallRecord
    <2> QED BY <1>3, <1>r, <2>3 DEF RefuseWeb, RequestRecord
  <1>4. CASE Resolve(r)
    BY <1>4, <1>r, RightsTyped DEF Resolve, RequestRecord
  <1>5. CASE NoSession(r)
    BY <1>5, <1>d, <1>l DEF NoSession
  <1>6. ASSUME NEW c \in Calls, NEW route \in Routes, NEW key \in Projects \cup {None},
               ArriveWeb(r, c, route, key)
        PROVE  AccessTypeOK'
    <2>1. stores' \in SUBSET Projects
      BY <1>6 DEF ArriveWeb
    <2>2. Context("web", projectSlugFor(key, stores')) \in RequestRecord
      <3> DEFINE scope == projectSlugFor(key, stores')
      <3>1. scope \in Scopes
        BY <2>1, ScopeTyped
      <3> HIDE DEF scope
      <3>2. Context("web", scope) \in RequestRecord
        BY <3>1 DEF Context, RequestRecord, Scopes
      <3> QED BY <3>2 DEF scope
    <2>3. Asked("web", route, key, r) \in CallRecord
      BY DEF Asked, CallRecord
    <2> QED BY <1>6, <2>1, <2>2, <2>3 DEF ArriveWeb
  <1>7. ASSUME NEW asked, ArriveMcp(r, asked)
        PROVE  AccessTypeOK'
    <2>1. PICK S \in SUBSET Calls : asked \in [S -> Tools \X ({None} \cup Projects)]
      BY <1>7 DEF ArriveMcp
    <2>2. \A c \in S : Asked("mcp", asked[c][1], asked[c][2], r) \in CallRecord
      BY <2>1 DEF Asked, CallRecord
    <2>3. Context("mcp", Global) \in RequestRecord
      BY DEF Context, RequestRecord, Scopes
    <2> QED BY <1>7, <2>1, <2>2, <2>3 DEF ArriveMcp
  <1> QED BY <1>1, <1>2, <1>3, <1>4, <1>5, <1>6, <1>7

LEMMA CallStepsTyped ==
  ASSUME AccessTypeOK, NEW c \in Calls, Serve(c)
  PROVE  AccessTypeOK'
  <1> USE DEF AccessTypeOK, Waiting
  <1>c. call[c] \in CallRecord
    BY DEF Serve, Guard, Route, Dispatch, FindStore, IdentifyAgain, ResolveAgain, Admit, Bind, Run, IdleCall
  <1>r. call[c].by \in Requests /\ request[call[c].by] \in RequestRecord
    BY <1>c DEF CallRecord
  <1>d. Done \in RequestRecord
    BY DEF Done, Context, RequestRecord, Scopes
  <1>e. \A outcome : End(c, outcome) => call' \in [Calls -> {IdleCall} \cup CallRecord]
    <2> SUFFICES ASSUME NEW outcome, End(c, outcome)
                 PROVE  call' \in [Calls -> {IdleCall} \cup CallRecord]
      OBVIOUS
    <2> DEFINE ran == outcome \in {"ok", "failed"}
    <2>1. ran \in BOOLEAN
      OBVIOUS
    <2> DEFINE k == [call[c] EXCEPT !.pc = "ended", !.ran = ran]
    <2>2. call' = [call EXCEPT ![c] = k]
      BY DEF End
    <2> HIDE DEF ran
    <2>3. k \in CallRecord
      BY <1>c, <2>1 DEF CallRecord
    <2> HIDE DEF k
    <2> QED BY <2>2, <2>3, CallUpdated
  <1>1. CASE Guard(c)
    <2>1. call' \in [Calls -> {IdleCall} \cup CallRecord]
      BY <1>1, <1>c, <1>e DEF Guard, Goto, CallRecord
    <2> QED BY <1>1, <1>r, <1>d, <2>1 DEF Guard
  <1>2. CASE Route(c)
    <2>1. PICK served \in Projects \cup {None}, outcome \in {"ok", "failed", "error"} :
             Answer(c, outcome, served)
      BY <1>2 DEF Route, Resolvable
    <2> DEFINE ran == outcome # "error"
               k == [call[c] EXCEPT !.pc = "ended", !.ran = ran, !.project = served]
    <2>2. call' = [call EXCEPT ![c] = k]
      BY <2>1 DEF Answer
    <2>3. ran \in BOOLEAN
      OBVIOUS
    <2> HIDE DEF ran
    <2>4. k \in CallRecord
      BY <1>c, <2>3 DEF CallRecord
    <2> HIDE DEF k
    <2>5. call' \in [Calls -> {IdleCall} \cup CallRecord]
      BY <2>2, <2>4, CallUpdated
    <2> QED BY <1>2, <1>r, <1>d, <2>5 DEF Route
  <1>3. CASE Dispatch(c)
    <2>1. call' \in [Calls -> {IdleCall} \cup CallRecord]
      <3>1. PICK to \in {"find", "ended"} : call' = [call EXCEPT ![c].pc = to, ![c].project = call[c].key]
        BY <1>3 DEF Dispatch
      <3>2. PICK k : k = [call[c] EXCEPT !.pc = to, !.project = call[c].key]
        OBVIOUS
      <3>3. k \in CallRecord
        BY <1>c, <3>2 DEF CallRecord
      <3>4. call' = [call EXCEPT ![c] = k]
        BY <3>1, <3>2
      <3> QED BY <3>3, <3>4, CallUpdated
    <2>2. request' \in [Requests -> RequestRecord]
      BY <1>3, <1>c, <1>r DEF Dispatch, CallRecord, RequestRecord
    <2> QED BY <1>3, <2>1, <2>2 DEF Dispatch
  <1>4. CASE FindStore(c)
    <2>1. Target(c) \subseteq Projects /\ Attached(call[c].key) \subseteq Projects
      BY <1>4, FoundInProjects DEF FindStore
    <2>2. call' \in [Calls -> {IdleCall} \cup CallRecord]
      <3>1. CASE Target(c) = {}
        BY <1>4, <1>e, <3>1 DEF FindStore
      <3>2. CASE Target(c) # {}
        <4> DEFINE found == CHOOSE p \in Target(c) : TRUE
                   k     == [call[c] EXCEPT !.pc = "again", !.project = found]
        <4>1. found \in Projects
          BY <2>1, <3>2
        <4>2. call' = [call EXCEPT ![c] = k]
          BY <1>4, <3>2 DEF FindStore
        <4> HIDE DEF found
        <4>3. k \in CallRecord
          BY <1>c, <4>1 DEF CallRecord
        <4> HIDE DEF k
        <4> QED BY <4>2, <4>3, CallUpdated
      <3> QED BY <3>1, <3>2
    <2> QED BY <1>4, <2>1, <2>2 DEF FindStore
  <1>5. CASE IdentifyAgain(c)
    <2>1. call' \in [Calls -> {IdleCall} \cup CallRecord]
      BY <1>5, <1>c, <1>e DEF IdentifyAgain, Goto, CallRecord
    <2> QED BY <1>5, <2>1 DEF IdentifyAgain
  <1>6. CASE ResolveAgain(c)
    <2>1. call' \in [Calls -> {IdleCall} \cup CallRecord]
      <3>1. PICK roles \in SUBSET Rights : roles = PermissionsIn(call[c].project)
        BY RightsTyped
      <3>2. PICK k : k = [call[c] EXCEPT !.pc = "admit", !.roles = roles]
        OBVIOUS
      <3>3. call[c].project \in Projects
        BY <1>6, <1>c DEF ResolveAgain, CallRecord
      <3>4. k \in CallRecord
        BY <1>c, <3>2, <3>3 DEF CallRecord
      <3>5. call' = [call EXCEPT ![c] = k]
        BY <1>6, <3>1, <3>2 DEF ResolveAgain
      <3> QED BY <3>4, <3>5, CallUpdated
    <2> QED BY <1>6, <2>1 DEF ResolveAgain
  <1>7. CASE Admit(c)
    <2>1. call' \in [Calls -> {IdleCall} \cup CallRecord]
      <3>1. PICK to \in {"bind", "ended"} : call' = [call EXCEPT ![c].pc = to, ![c].roles = {}]
        BY <1>7 DEF Admit
      <3>2. PICK k : k = [call[c] EXCEPT !.pc = to, !.roles = {}]
        OBVIOUS
      <3>3. call[c].project \in Projects
        BY <1>7, <1>c DEF Admit, CallRecord
      <3>4. k \in CallRecord
        BY <1>c, <3>2, <3>3 DEF CallRecord
      <3>5. call' = [call EXCEPT ![c] = k]
        BY <3>1, <3>2
      <3> QED BY <3>4, <3>5, CallUpdated
    <2>2. request' \in [Requests -> RequestRecord]
      BY <1>7, <1>c, <1>r DEF Admit, CallRecord, RequestRecord
    <2> QED BY <1>7, <2>1, <2>2 DEF Admit
  <1>8. CASE Bind(c)
    <2>1. CASE End(c, "error") /\ UNCHANGED request
      BY <1>8, <1>e, <2>1 DEF Bind
    <2>2. CASE ~(End(c, "error") /\ UNCHANGED request)
      <3>1. PICK v \in Versions \cup {None} :
               /\ call' = [call EXCEPT ![c].pc = "run", ![c].bound = v]
               /\ request' = [request EXCEPT ![call[c].by].version = IF v = None THEN @ ELSE v,
                                             ![call[c].by].projectKey = call[c].project]
        BY <1>8, <2>2 DEF Bind
      <3>2. call' \in [Calls -> {IdleCall} \cup CallRecord]
        <4>k. PICK k : k = [call[c] EXCEPT !.pc = "run", !.bound = v]
          OBVIOUS
        <4>1. call' = [call EXCEPT ![c] = k]
          BY <3>1, <4>k
        <4>2. k \in CallRecord
          <5>1. call[c].project \in Projects
            BY <1>8, <1>c DEF Bind, CallRecord
          <5> QED BY <1>c, <4>k, <5>1 DEF CallRecord
        <4> QED BY <4>1, <4>2, CallUpdated
      <3>3. request' \in [Requests -> RequestRecord]
        <4>1. PICK ver : ver = IF v = None THEN request[call[c].by].version ELSE v
          OBVIOUS
        <4>2. PICK ctx : ctx = [request[call[c].by] EXCEPT !.version = ver, !.projectKey = call[c].project]
          OBVIOUS
        <4>3. call[c].project \in Projects \cup {None}
          BY <1>c DEF CallRecord
        <4>4. ver \in Versions \cup {None}
          BY <1>r, <4>1 DEF RequestRecord
        <4>5. ctx \in RequestRecord
          BY <1>r, <4>2, <4>3, <4>4 DEF RequestRecord
        <4>6. request' = [request EXCEPT ![call[c].by] = ctx]
          BY <3>1, <4>1, <4>2
        <4> QED BY <1>r, <4>5, <4>6
      <3> QED BY <1>8, <3>2, <3>3 DEF Bind
    <2> QED BY <2>1, <2>2
  <1>9. CASE Run(c)
    <2>1. call[c].project \in Projects
      BY <1>9, <1>c DEF Run, CallRecord
    <2>2. call' \in [Calls -> {IdleCall} \cup CallRecord]
      BY <1>9, <1>e DEF Run
    <2> QED BY <1>9, <2>1, <2>2 DEF Run
  <1> QED BY <1>1, <1>2, <1>3, <1>4, <1>5, <1>6, <1>7, <1>8, <1>9 DEF Serve

LEMMA EventsTyped ==
  ASSUME AccessTypeOK, Regrant \/ Revoke \/ ReopenSession \/ Stop
  PROVE  AccessTypeOK'
  <1> USE DEF AccessTypeOK
  <1>w. ASSUME live' \in BOOLEAN, granted' \in SUBSET Grantable, call' = Watched
        PROVE  call' \in [Calls -> {IdleCall} \cup CallRecord]
    <2> SUFFICES ASSUME NEW c \in Calls, InFlight(c)
                 PROVE  [call[c] EXCEPT !.sawLive = @ \/ live', !.sawGranted = @ \cup granted'] \in CallRecord
      BY <1>w DEF Watched
    <2> DEFINE sawLive == call[c].sawLive \/ live'
    <2>1. call[c] \in CallRecord
      BY DEF InFlight, IdleCall
    <2>2. sawLive \in BOOLEAN
      OBVIOUS
    <2>3. call[c].sawGranted \cup granted' \in SUBSET Grantable
      BY <1>w, <2>1 DEF CallRecord
    <2> HIDE DEF sawLive
    <2>4. [call[c] EXCEPT !.sawLive = sawLive, !.sawGranted = @ \cup granted'] \in CallRecord
      <3>1. PICK seen \in SUBSET Grantable : seen = call[c].sawGranted \cup granted'
        BY <2>3
      <3>2. [call[c] EXCEPT !.sawLive = sawLive, !.sawGranted = seen] \in CallRecord
        BY <2>1, <2>2 DEF CallRecord
      <3> QED BY <3>1, <3>2
    <2> QED BY <2>4 DEF sawLive
  <1>1. CASE Regrant
    <2>1. granted' \in SUBSET Grantable
      BY <1>1 DEF Regrant
    <2> QED BY <1>1, <1>w, <2>1 DEF Regrant
  <1>2. CASE Revoke
    BY <1>2, <1>w DEF Revoke
  <1>3. CASE ReopenSession
    BY <1>3 DEF ReopenSession
  <1>4. CASE Stop
    <2>1. Done \in RequestRecord
      BY DEF Done, Context, RequestRecord, Scopes
    <2>2. \A c \in Calls : InFlight(c) => [call[c] EXCEPT !.pc = "lost"] \in CallRecord
      BY DEF InFlight, IdleCall, CallRecord
    <2> QED BY <1>4, <2>1, <2>2 DEF Stop
  <1> QED BY <1>1, <1>2, <1>3, <1>4

LEMMA NextTyped == AccessTypeOK /\ [Next]_vars => AccessTypeOK'
  <1> SUFFICES ASSUME AccessTypeOK, [Next]_vars
               PROVE  AccessTypeOK'
    OBVIOUS
  <1>1. CASE UNCHANGED vars
    BY <1>1 DEF vars, AccessTypeOK
  <1>2. CASE Next
    <2>1. CASE \E r \in Requests :
                  \/ Identify(r) \/ RefuseMcp(r) \/ RefuseWeb(r) \/ Resolve(r) \/ NoSession(r)
                  \/ \E c \in Calls, route \in Routes, key \in Projects \cup {None} : ArriveWeb(r, c, route, key)
                  \/ \E S \in SUBSET Calls : \E asked \in [S -> Tools \X ({None} \cup Projects)] : ArriveMcp(r, asked)
      BY <2>1, RequestStepsTyped
    <2>2. CASE \E c \in Calls : Serve(c)
      BY <2>2, CallStepsTyped
    <2>3. CASE Regrant \/ Revoke \/ ReopenSession \/ Stop
      BY <2>3, EventsTyped
    <2> QED BY <1>2, <2>1, <2>2, <2>3 DEF Next
  <1> QED BY <1>1, <1>2

\* The types of the front end's state, for any instance.
THEOREM AccessTypesCorrect == Spec => []AccessTypeOK
  BY InitTyped, NextTyped, PTL DEF Spec

-------------------------------------------------------------------------------
(* Lemmas: what a step leaves alone.                                        *)

LEMMA SamePermission ==
  ASSUME NEW c, call'[c].surface = call[c].surface, call'[c].op = call[c].op
  PROVE  Permission(c)' = Permission(c)
  BY DEF Permission

\* A call the step does not touch, whose request keeps its kind.
LEMMA Undisturbed ==
  ASSUME NEW d, Sound(d), call'[d] = call[d], live' = live, granted' = granted,
         InFlight(d) =>
             /\ request'[call[d].by].surface = request[call[d].by].surface
             /\ request'[call[d].by].pc # "idle"
             /\ call[d].surface = "web" =>
                    request'[call[d].by] = request[call[d].by] /\ stores \subseteq stores'
  PROVE  Sound(d)'
  <1>1. Permission(d)' = Permission(d)
    BY SamePermission
  <1>2. InFlight(d)' <=> InFlight(d)
    BY DEF InFlight
  <1>3. ASSUME InFlight(d)
        PROVE  Serving(d, request[call[d].by])'
    <2>1. Serving(d, request[call[d].by])
      BY <1>3 DEF Sound
    <2>2. CASE call[d].surface = "web"
      BY <1>1, <1>3, <2>1, <2>2 DEF Serving, WebCall, WebScope, Backed, Seen
    <2>3. CASE call[d].surface # "web"
      BY <1>1, <1>3, <2>1, <2>3 DEF Serving, McpCall, Backed, Seen
    <2> QED BY <2>2, <2>3
  <1>4. (Ended(d) /\ call[d].ran /\ Permission(d) # None)' => Backed(d, call[d].project)'
    BY <1>1 DEF Sound, Ended, Backed, Seen
  <1> QED BY <1>2, <1>3, <1>4 DEF Sound

\* A call that is over without having run.
LEMMA OverIsSound ==
  ASSUME NEW d, call'[d].pc \in {"idle", "ended", "lost"}, call'[d].pc = "ended" => ~call'[d].ran
  PROVE  Sound(d)'
  BY DEF Sound, InFlight, Ended

\* A step of one call disturbs no other.
LEMMA OthersUndisturbed ==
  ASSUME AccessInv, NEW c \in Calls, NEW d \in Calls, c # d, InFlight(c),
         call'[d] = call[d], live' = live, granted' = granted, stores \subseteq stores',
         \A r \in Requests : r # call[c].by => request'[r] = request[r],
         call[c].surface = "mcp" =>
             /\ request'[call[c].by].surface = request[call[c].by].surface
             /\ request'[call[c].by].pc = request[call[c].by].pc
  PROVE  Sound(d)'
  <1>1. Sound(c) /\ Sound(d) /\ WebAlone
    BY DEF AccessInv
  <1>2. \A e \in Calls : InFlight(e) => call[e] \in CallRecord
    BY DEF AccessInv, AccessTypeOK, InFlight, IdleCall
  <1>3. ASSUME InFlight(d)
        PROVE  /\ request'[call[d].by].surface = request[call[d].by].surface
               /\ request'[call[d].by].pc # "idle"
               /\ call[d].surface = "web" => request'[call[d].by] = request[call[d].by]
    <2>1. request[call[d].by].pc # "idle"
      BY <1>1, <1>3 DEF Sound, Serving
    <2>2. call[d].by \in Requests
      BY <1>2, <1>3 DEF CallRecord
    <2>3. CASE call[d].by # call[c].by
      BY <2>1, <2>2, <2>3
    <2>4. CASE call[d].by = call[c].by
      <3>1. call[c].surface # "web" /\ call[d].surface # "web"
        BY <1>1, <1>3, <2>4 DEF WebAlone
      <3>2. call[c].surface = "mcp"
        BY <1>2, <3>1 DEF CallRecord
      <3> QED BY <2>1, <2>4, <3>1, <3>2
    <2> QED BY <2>3, <2>4
  <1> QED BY <1>1, <1>3, Undisturbed

-------------------------------------------------------------------------------
(* A web request carries one call, and no request is served twice.          *)

\* No step but an arrival brings a call into flight.
Onward == \A c \in Calls : InFlight(c)' => /\ InFlight(c)
                                          /\ call'[c].surface = call[c].surface
                                          /\ call'[c].by = call[c].by

LEMMA AloneOnward == WebAlone /\ Onward => WebAlone'
  BY DEF WebAlone, Onward

LEMMA RequestStepsOnward ==
  ASSUME AccessTypeOK, NEW r \in Requests,
         Identify(r) \/ RefuseMcp(r) \/ RefuseWeb(r) \/ Resolve(r) \/ NoSession(r)
  PROVE  Onward
  <1> USE DEF Onward, InFlight, AccessTypeOK
  <1>1. CASE Identify(r) \/ Resolve(r)
    BY <1>1 DEF Identify, Resolve
  <1>2. CASE RefuseMcp(r) \/ NoSession(r)
    <2>1. \A c \in Calls : call'[c] = IF c \in Siblings(r) THEN [call[c] EXCEPT !.pc = "lost"] ELSE call[c]
      BY <1>2 DEF RefuseMcp, NoSession
    <2>2. \A c \in Siblings(r) : call[c] \in CallRecord
      BY DEF Siblings, IdleCall
    <2> QED BY <2>1, <2>2 DEF CallRecord
  <1>3. CASE RefuseWeb(r)
    <2>1. PICK c \in Siblings(r) :
             IF Permission(c) = None THEN Goto(c, "route") /\ audit' = audit ELSE End(c, "denied")
      BY <1>3 DEF RefuseWeb
    <2>2. call[c] \in CallRecord
      BY DEF Siblings, IdleCall
    <2> QED BY <2>1, <2>2 DEF Goto, End, Siblings, CallRecord
  <1> QED BY <1>1, <1>2, <1>3

LEMMA CallStepsOnward ==
  ASSUME AccessTypeOK, NEW c \in Calls, Serve(c)
  PROVE  /\ InFlight(c)
         /\ \A d \in Calls \ {c} : call'[d] = call[d]
         /\ call'[c].surface = call[c].surface /\ call'[c].op = call[c].op
         /\ call'[c].by = call[c].by
         /\ live' = live /\ granted' = granted /\ stores \subseteq stores'
  <1> USE DEF Waiting, AccessTypeOK
  <1>f. InFlight(c)
    BY DEF Serve, Guard, Route, Dispatch, FindStore, IdentifyAgain, ResolveAgain, Admit, Bind, Run, InFlight
  <1>c. call[c] \in CallRecord
    BY <1>f DEF InFlight, IdleCall
  <1>1. CASE Guard(c)
    BY <1>1, <1>f, <1>c DEF Guard, Goto, End, CallRecord
  <1>2. CASE Route(c)
    BY <1>2, <1>f, <1>c DEF Route, Answer, CallRecord
  <1>3. CASE Dispatch(c)
    BY <1>3, <1>f, <1>c DEF Dispatch, CallRecord
  <1>4. CASE FindStore(c)
    BY <1>4, <1>f, <1>c DEF FindStore, Attached, End, CallRecord
  <1>5. CASE IdentifyAgain(c)
    BY <1>5, <1>f, <1>c DEF IdentifyAgain, Goto, End, CallRecord
  <1>6. CASE ResolveAgain(c)
    BY <1>6, <1>f, <1>c DEF ResolveAgain, CallRecord
  <1>7. CASE Admit(c)
    BY <1>7, <1>f, <1>c DEF Admit, CallRecord
  <1>8. CASE Bind(c)
    <2>1. PICK k : /\ k.surface = call[c].surface /\ k.op = call[c].op /\ k.by = call[c].by
                   /\ call' = [call EXCEPT ![c] = k]
      <3>1. CASE End(c, "error")
        <4> DEFINE ran == "error" \in {"ok", "failed"}
        <4>1. call' = [call EXCEPT ![c] = [call[c] EXCEPT !.pc = "ended", !.ran = ran]]
          BY <3>1 DEF End
        <4> HIDE DEF ran
        <4> WITNESS [call[c] EXCEPT !.pc = "ended", !.ran = ran]
        <4> QED BY <1>c, <4>1 DEF CallRecord
      <3>2. CASE ~End(c, "error")
        <4>1. PICK v \in Versions \cup {None} : call' = [call EXCEPT ![c].pc = "run", ![c].bound = v]
          BY <1>8, <3>2 DEF Bind
        <4> WITNESS [call[c] EXCEPT !.pc = "run", !.bound = v]
        <4> QED BY <1>c, <4>1 DEF CallRecord
      <3> QED BY <3>1, <3>2
    <2>2. live' = live /\ granted' = granted /\ stores' = stores
      BY <1>8 DEF Bind
    <2> QED BY <1>f, <2>1, <2>2
  <1>9. CASE Run(c)
    BY <1>9, <1>f, <1>c DEF Run, End, CallRecord
  <1> QED BY <1>1, <1>2, <1>3, <1>4, <1>5, <1>6, <1>7, <1>8, <1>9 DEF Serve

LEMMA CallStepsAlone ==
  ASSUME AccessInv, NEW c \in Calls, Serve(c)
  PROVE  WebAlone'
  <1>1. Onward
    BY CallStepsOnward DEF AccessInv, Onward, InFlight
  <1> QED BY <1>1, AloneOnward DEF AccessInv

LEMMA EventsAlone ==
  ASSUME AccessInv, Regrant \/ Revoke \/ ReopenSession \/ Stop
  PROVE  WebAlone'
  <1>c. /\ call \in [Calls -> {IdleCall} \cup CallRecord]
        /\ \A c \in Calls : InFlight(c) => call[c] \in CallRecord
    BY DEF AccessInv, AccessTypeOK, InFlight, IdleCall
  <1>1. CASE call' = Watched
    <2>1. \A c \in Calls : call'[c] = IF InFlight(c)
                                      THEN [call[c] EXCEPT !.sawLive = @ \/ live', !.sawGranted = @ \cup granted']
                                      ELSE call[c]
      BY <1>1 DEF Watched
    <2>2. Onward
      BY <1>c, <2>1 DEF Onward, InFlight, CallRecord
    <2> QED BY <2>2, AloneOnward DEF AccessInv
  <1>2. CASE ReopenSession
    BY <1>2, AloneOnward DEF AccessInv, ReopenSession, Onward, InFlight
  <1>3. CASE Stop
    <2>1. \A c \in Calls : call'[c] = IF InFlight(c) THEN [call[c] EXCEPT !.pc = "lost"] ELSE call[c]
      BY <1>3 DEF Stop
    <2>2. Onward
      BY <1>c, <2>1 DEF Onward, InFlight, CallRecord
    <2> QED BY <2>2, AloneOnward DEF AccessInv
  <1> QED BY <1>1, <1>2, <1>3 DEF Regrant, Revoke

\* An idle request has no call in flight.
LEMMA NoneBeforeArrival ==
  ASSUME AccessInv, NEW r \in Requests, request[r] = IdleRequest,
         NEW c \in Calls, InFlight(c)
  PROVE  call[c].by # r
  BY DEF AccessInv, Sound, Serving, IdleRequest, Context

LEMMA ArrivalsAlone ==
  ASSUME AccessInv, NEW r \in Requests,
         \/ \E c \in Calls, route \in Routes, key \in Projects \cup {None} : ArriveWeb(r, c, route, key)
         \/ \E asked : ArriveMcp(r, asked)
  PROVE  WebAlone'
  <1>t. WebAlone /\ call \in [Calls -> {IdleCall} \cup CallRecord]
    BY DEF AccessInv, AccessTypeOK
  <1>1. ASSUME NEW c \in Calls, NEW route \in Routes, NEW key \in Projects \cup {None},
               ArriveWeb(r, c, route, key)
        PROVE  WebAlone'
    <2>1. request[r] = IdleRequest
      BY <1>1 DEF ArriveWeb
    <2>2. call' = [call EXCEPT ![c] = Asked("web", route, key, r)]
      BY <1>1 DEF ArriveWeb
    <2>3. call'[c].by = r /\ \A d \in Calls \ {c} : call'[d] = call[d]
      BY <1>t, <2>2 DEF Asked
    <2>4. \A d \in Calls \ {c} : InFlight(d) => call[d].by # r
      BY <2>1, NoneBeforeArrival
    <2> QED BY <1>t, <2>3, <2>4 DEF WebAlone, InFlight
  <1>2. ASSUME NEW asked, ArriveMcp(r, asked)
        PROVE  WebAlone'
    <2>1. request[r] = IdleRequest
      BY <1>2 DEF ArriveMcp
    <2>2. call' = [c \in Calls |-> IF c \in DOMAIN asked THEN Asked("mcp", asked[c][1], asked[c][2], r) ELSE call[c]]
      BY <1>2 DEF ArriveMcp
    <2>3. \A c \in Calls : IF c \in DOMAIN asked THEN call'[c].by = r /\ call'[c].surface = "mcp"
                                                ELSE call'[c] = call[c]
      BY <2>2 DEF Asked
    <2>4. \A d \in Calls : InFlight(d) => call[d].by # r
      BY <2>1, NoneBeforeArrival
    <2> QED BY <1>t, <2>3, <2>4 DEF WebAlone, InFlight
  <1> QED BY <1>1, <1>2

-------------------------------------------------------------------------------
(* Every call stays sound: arrivals and the steps of a request.             *)

LEMMA InitSound == Init => AccessInv
  <1> SUFFICES ASSUME Init
               PROVE  AccessInv
    OBVIOUS
  <1>1. \A c \in Calls : call[c].pc = "idle"
    BY DEF Init, IdleCall
  <1> QED BY <1>1, InitTyped DEF AccessInv, WebAlone, Sound, InFlight, Ended

\* The scope a web request is given is the one its answer will be about.
LEMMA ArrivalScope ==
  ASSUME NEW key, NEW loaded
  PROVE  \/ projectSlugFor(key, loaded) = Global
         \/ key # None /\ projectSlugFor(key, loaded) = key
         \/ key = None /\ projectSlugFor(key, loaded) \in loaded
  <1>1. CASE key = None /\ Cardinality(loaded) = 1
    <2>1. loaded # {}
      BY <1>1, FS_EmptySet
    <2>2. projectSlugFor(key, loaded) \in loaded
      BY <1>1, <2>1 DEF projectSlugFor
    <2> QED BY <1>1, <2>2
  <1>2. CASE ~(key = None /\ Cardinality(loaded) = 1)
    BY <1>2 DEF projectSlugFor
  <1> QED BY <1>1, <1>2

LEMMA ArriveWebSound ==
  ASSUME AccessInv, NEW r \in Requests, NEW c \in Calls, NEW route \in Routes,
         NEW key \in Projects \cup {None}, ArriveWeb(r, c, route, key)
  PROVE  \A d \in Calls : Sound(d)'
  <1>t. AccessTypeOK /\ \A d \in Calls : Sound(d)
    BY DEF AccessInv
  <1>a. /\ request[r] = IdleRequest
        /\ stores' = stores \cup database
        /\ request' = [request EXCEPT ![r] = Context("web", projectSlugFor(key, stores'))]
        /\ call' = [call EXCEPT ![c] = Asked("web", route, key, r)]
        /\ live' = live /\ granted' = granted
    BY DEF ArriveWeb
  <1>1. ASSUME NEW d \in Calls \ {c}
        PROVE  Sound(d)'
    <2>1. InFlight(d) => call[d].by # r /\ call[d].by \in Requests
      BY <1>t, <1>a, NoneBeforeArrival DEF AccessTypeOK, InFlight, IdleCall, CallRecord
    <2>2. call'[d] = call[d]
      BY <1>t, <1>a DEF AccessTypeOK
    <2>3. InFlight(d) => request'[call[d].by] = request[call[d].by]
      BY <1>t, <1>a, <2>1 DEF AccessTypeOK
    <2>4. InFlight(d) => request[call[d].by].pc # "idle"
      BY <1>t DEF Sound, Serving
    <2> QED BY <1>t, <1>a, <2>2, <2>3, <2>4, Undisturbed
  <1>2. Sound(c)'
    <2>1. call'[c] = Asked("web", route, key, r)
      BY <1>t, <1>a DEF AccessTypeOK
    <2>2. /\ call'[c].pc = "wait" /\ call'[c].surface = "web" /\ call'[c].key = key /\ call'[c].by = r
          /\ call'[c].ran = FALSE /\ call'[c].sawLive = live /\ call'[c].sawGranted = granted
      BY <2>1 DEF Asked
    <2> DEFINE scope == projectSlugFor(key, stores')
    <2>3. request'[r] = Context("web", scope)
      BY <1>t, <1>a DEF AccessTypeOK
    <2>4. scope = Global \/ (key # None /\ scope = key) \/ (key = None /\ scope \in stores')
      BY ArrivalScope
    <2> HIDE DEF scope
    <2> QED BY <1>a, <2>2, <2>3, <2>4 DEF Sound, Serving, WebCall, InFlight, Ended, Context, WebScope
  <1> QED BY <1>1, <1>2

LEMMA ArriveMcpSound ==
  ASSUME AccessInv, NEW r \in Requests, NEW asked, ArriveMcp(r, asked)
  PROVE  \A d \in Calls : Sound(d)'
  <1>t. AccessTypeOK /\ \A d \in Calls : Sound(d)
    BY DEF AccessInv
  <1>a. /\ request[r] = IdleRequest
        /\ stores' = stores
        /\ request' = [request EXCEPT ![r] = Context("mcp", Global)]
        /\ call' = [c \in Calls |-> IF c \in DOMAIN asked THEN Asked("mcp", asked[c][1], asked[c][2], r) ELSE call[c]]
        /\ live' = live /\ granted' = granted
    BY DEF ArriveMcp
  <1>1. ASSUME NEW d \in Calls, d \notin DOMAIN asked
        PROVE  Sound(d)'
    <2>1. InFlight(d) => call[d].by # r /\ call[d].by \in Requests
      BY <1>t, <1>a, NoneBeforeArrival DEF AccessTypeOK, InFlight, IdleCall, CallRecord
    <2>2. call'[d] = call[d]
      BY <1>a, <1>1
    <2>3. InFlight(d) => request'[call[d].by] = request[call[d].by]
      BY <1>t, <1>a, <2>1 DEF AccessTypeOK
    <2>4. InFlight(d) => request[call[d].by].pc # "idle"
      BY <1>t DEF Sound, Serving
    <2> QED BY <1>t, <1>a, <2>2, <2>3, <2>4, Undisturbed
  <1>2. ASSUME NEW d \in Calls, d \in DOMAIN asked
        PROVE  Sound(d)'
    <2>1. call'[d] = Asked("mcp", asked[d][1], asked[d][2], r)
      BY <1>a, <1>2
    <2>2. /\ call'[d].pc = "wait" /\ call'[d].surface = "mcp" /\ call'[d].by = r
          /\ call'[d].ran = FALSE /\ call'[d].sawLive = live /\ call'[d].sawGranted = granted
      BY <2>1 DEF Asked
    <2>3. request'[r].pc = "identify" /\ request'[r].surface = "mcp"
      BY <1>t, <1>a DEF AccessTypeOK, Context
    <2> QED BY <1>a, <2>2, <2>3 DEF Sound, Serving, McpCall, InFlight, Ended
  <1> QED BY <1>1, <1>2

\* A step of request r disturbs no call of another request.
LEMMA OtherRequests ==
  ASSUME AccessInv, NEW r \in Requests, NEW d \in Calls, InFlight(d) => call[d].by # r,
         call'[d] = call[d], live' = live, granted' = granted, stores' = stores,
         \A x \in Requests : x # r => request'[x] = request[x]
  PROVE  Sound(d)'
  <1>1. Sound(d)
    BY DEF AccessInv
  <1>2. InFlight(d) => call[d].by \in Requests
    BY DEF AccessInv, AccessTypeOK, InFlight, IdleCall, CallRecord
  <1>3. InFlight(d) => request'[call[d].by] = request[call[d].by] /\ request[call[d].by].pc # "idle"
    BY <1>1, <1>2 DEF Sound, Serving
  <1> QED BY <1>1, <1>3, Undisturbed

LEMMA IdentifySound ==
  ASSUME AccessInv, NEW r \in Requests, Identify(r), NEW d \in Calls
  PROVE  Sound(d)'
  <1>t. AccessTypeOK /\ Sound(d)
    BY DEF AccessInv
  <1>a. /\ live /\ live' = live /\ granted' = granted /\ stores' = stores /\ call' = call
        /\ request[r].pc = "identify"
        /\ request' = [request EXCEPT ![r].pc = "resolve"]
    BY DEF Identify
  <1>1. CASE InFlight(d) => call[d].by # r
    BY <1>t, <1>a, <1>1, OtherRequests DEF AccessTypeOK
  <1>2. CASE InFlight(d) /\ call[d].by = r
    <2>1. Serving(d, request[r]) /\ Permission(d)' = Permission(d)
      BY <1>t, <1>a, <1>2, SamePermission DEF Sound
    <2>2. request'[r] = [request[r] EXCEPT !.pc = "resolve"] /\ request[r] \in RequestRecord
      BY <1>t, <1>a DEF AccessTypeOK
    <2>3. Serving(d, request[r])'
      BY <1>a, <2>1, <2>2 DEF Serving, WebCall, McpCall, WebScope, Backed, Seen, RequestRecord
    <2> QED BY <1>a, <1>2, <2>3 DEF Sound, InFlight, Ended
  <1> QED BY <1>1, <1>2

LEMMA ResolveSound ==
  ASSUME AccessInv, NEW r \in Requests, Resolve(r), NEW d \in Calls
  PROVE  Sound(d)'
  <1>t. AccessTypeOK /\ Sound(d)
    BY DEF AccessInv
  <1>a. PICK roles :
        /\ roles = PermissionsIn(request[r].scope)
        /\ live' = live /\ granted' = granted /\ stores' = stores /\ call' = call
        /\ request[r].pc = "resolve"
        /\ request' = [request EXCEPT ![r].pc = "open", ![r].principal = roles]
    BY DEF Resolve
  <1>1. CASE InFlight(d) => call[d].by # r
    BY <1>t, <1>a, <1>1, OtherRequests DEF AccessTypeOK
  <1>2. CASE InFlight(d) /\ call[d].by = r
    <2>1. Serving(d, request[r]) /\ Permission(d)' = Permission(d)
      BY <1>t, <1>a, <1>2, SamePermission DEF Sound
    <2>2. request'[r] = [request[r] EXCEPT !.pc = "open", !.principal = roles] /\ request[r] \in RequestRecord
      BY <1>t, <1>a DEF AccessTypeOK
    <2>3. \A x \in roles : Seen(d, request[r].scope, x)
      BY <1>t, <1>a, <2>1, RolesSeen DEF AccessTypeOK, Serving
    <2>4. /\ request'[r].pc = "open" /\ request'[r].principal = roles
          /\ request'[r].surface = request[r].surface /\ request'[r].scope = request[r].scope
      BY <2>2 DEF RequestRecord
    <2>5. call[d].surface = "web" => WebCall(d, request[r])'
      <3> SUFFICES ASSUME call[d].surface = "web"
                   PROVE  WebCall(d, request[r])'
        OBVIOUS
      <3>1. WebCall(d, request[r])
        BY <2>1 DEF Serving
      <3>2. \A x \in roles : Seen(d, request[r].scope, x)'
        BY <1>a, <2>3, <2>4 DEF Seen
      <3>3. call[d].sawLive /\ call'[d] = call[d]
        BY <1>a, <3>1 DEF WebCall
      <3>4. WebScope(d, request[r].scope)'
        BY <1>a, <2>4, <3>1 DEF WebCall, WebScope
      <3>5. \A x \in request'[r].principal : Seen(d, request[r].scope, x)'
        BY <2>4, <3>2
      <3>6. call[d].pc = "route" /\ Permission(d)' # None => Backed(d, request[r].scope)'
        BY <1>a, <2>1, <2>4, <3>1 DEF WebCall, Backed, Seen
      <3>7. request'[r].surface = "web" /\ call[d].pc \in {"wait", "route"}
        BY <2>4, <3>1 DEF WebCall
      <3> QED BY <2>4, <3>3, <3>4, <3>5, <3>6, <3>7 DEF WebCall
    <2>6. call[d].surface = "mcp" => McpCall(d, request[r])'
      BY <1>a, <2>1, <2>4 DEF Serving, McpCall, Backed, Seen
    <2>7. Serving(d, request[r])'
      BY <1>a, <2>1, <2>4, <2>5, <2>6 DEF Serving
    <2> QED BY <1>a, <1>2, <2>7 DEF Sound, InFlight, Ended
  <1> QED BY <1>1, <1>2

\* The calls of a request that is refused, or finds no session, are lost.
LEMMA RequestLostSound ==
  ASSUME AccessInv, NEW r \in Requests, RefuseMcp(r) \/ NoSession(r), NEW d \in Calls
  PROVE  Sound(d)'
  <1>t. AccessTypeOK
    BY DEF AccessInv
  <1>a. /\ live' = live /\ granted' = granted /\ stores' = stores
        /\ request' = [request EXCEPT ![r] = Done]
        /\ call'[d] = IF d \in Siblings(r) THEN [call[d] EXCEPT !.pc = "lost"] ELSE call[d]
    BY DEF RefuseMcp, NoSession
  <1>1. CASE d \in Siblings(r)
    <2>1. call'[d].pc = "lost"
      BY <1>t, <1>a, <1>1 DEF AccessTypeOK, Siblings, InFlight, IdleCall, CallRecord
    <2> QED BY <2>1, OverIsSound
  <1>2. CASE d \notin Siblings(r)
    BY <1>t, <1>a, <1>2, OtherRequests DEF AccessTypeOK, Siblings
  <1> QED BY <1>1, <1>2

LEMMA RefuseWebSound ==
  ASSUME AccessInv, NEW r \in Requests, RefuseWeb(r), NEW d \in Calls
  PROVE  Sound(d)'
  <1>t. AccessTypeOK /\ WebAlone /\ Sound(d) /\ \A c \in Calls : Sound(c)
    BY DEF AccessInv
  <1>a. /\ live' = live /\ granted' = granted /\ stores' = stores
        /\ request[r].pc = "identify" /\ request[r].surface = "web"
        /\ request' = [request EXCEPT ![r].pc = "open"]
    BY DEF RefuseWeb
  <1>c. PICK c \in Siblings(r) :
           IF Permission(c) = None THEN Goto(c, "route") /\ audit' = audit ELSE End(c, "denied")
    BY DEF RefuseWeb
  <1>s. c \in Calls /\ InFlight(c) /\ call[c].by = r /\ call[c] \in CallRecord
    BY <1>t DEF Siblings, AccessTypeOK, InFlight, IdleCall
  <1>w. Serving(c, request[r]) /\ call[c].surface = "web"
    BY <1>t, <1>a, <1>s DEF Sound, Serving, McpCall, CallRecord
  <1>1. CASE d # c
    <2>1. InFlight(d) => call[d].by # r
      BY <1>t, <1>s, <1>w, <1>1 DEF WebAlone
    <2>2. call'[d] = call[d]
      BY <1>t, <1>c, <1>1 DEF Goto, End, AccessTypeOK
    <2> QED BY <1>t, <1>a, <2>1, <2>2, OtherRequests DEF AccessTypeOK
  <1>2. CASE d = c /\ Permission(c) = None
    <2>1. call'[c] = [call[c] EXCEPT !.pc = "route"]
      BY <1>t, <1>c, <1>s, <1>2 DEF Goto, AccessTypeOK
    <2>2. Permission(c)' = None
      BY <1>s, <1>2, <2>1, SamePermission DEF CallRecord
    <2>3. request'[r] = [request[r] EXCEPT !.pc = "open"] /\ request[r] \in RequestRecord
      BY <1>t, <1>a DEF AccessTypeOK
    <2>4. Serving(c, request[r])'
      BY <1>a, <1>s, <1>w, <2>1, <2>2, <2>3 DEF Serving, WebCall, WebScope, Seen, CallRecord, RequestRecord
    <2> QED BY <1>s, <1>2, <2>1, <2>4 DEF Sound, Ended, CallRecord
  <1>3. CASE d = c /\ Permission(c) # None
    <2>1. call' = [call EXCEPT ![c].pc = "ended", ![c].ran = ("denied" \in {"ok", "failed"})]
      BY <1>c, <1>3 DEF End
    <2>2. call'[c].pc = "ended" /\ ~call'[c].ran
      BY <1>t, <1>s, <2>1 DEF AccessTypeOK, CallRecord
    <2> QED BY <1>3, <2>2, OverIsSound
  <1> QED BY <1>1, <1>2, <1>3

-------------------------------------------------------------------------------
(* Every call stays sound: the steps of a call.                             *)

LEMMA CallStepsLeaveOthers ==
  ASSUME AccessInv, NEW c \in Calls, Serve(c), NEW d \in Calls \ {c}
  PROVE  Sound(d)'
  <1> USE DEF Waiting
  <1>c. InFlight(c) /\ call'[d] = call[d] /\ live' = live /\ granted' = granted /\ stores \subseteq stores'
    BY CallStepsOnward DEF AccessInv
  <1>t. /\ call[c].by \in Requests
        /\ request \in [Requests -> RequestRecord]
        /\ Serving(c, request[call[c].by])
    BY <1>c DEF AccessInv, AccessTypeOK, InFlight, IdleCall, CallRecord, Sound
  <1>1. /\ \A r \in Requests : r # call[c].by => request'[r] = request[r]
        /\ call[c].surface = "mcp" =>
               /\ request'[call[c].by].surface = request[call[c].by].surface
               /\ request'[call[c].by].pc = request[call[c].by].pc
    <2>1. CASE Guard(c)
      BY <1>t, <2>1 DEF Guard
    <2>2. CASE Route(c)
      BY <1>t, <2>2 DEF Route, Serving, McpCall
    <2>3. CASE Dispatch(c)
      BY <1>t, <2>3 DEF Dispatch, RequestRecord
    <2>4. CASE FindStore(c) \/ IdentifyAgain(c) \/ ResolveAgain(c) \/ Run(c)
      BY <2>4 DEF FindStore, IdentifyAgain, ResolveAgain, Run
    <2>5. CASE Admit(c)
      BY <1>t, <2>5 DEF Admit, RequestRecord
    <2>6. CASE Bind(c)
      <3>1. CASE request' = request
        BY <3>1
      <3>2. CASE request' # request
        <4>1. PICK v : request' = [request EXCEPT ![call[c].by].version = IF v = None THEN @ ELSE v,
                                                  ![call[c].by].projectKey = call[c].project]
          BY <2>6, <3>2 DEF Bind
        <4> QED BY <1>t, <4>1 DEF RequestRecord
      <3> QED BY <3>1, <3>2
    <2> QED BY <2>1, <2>2, <2>3, <2>4, <2>5, <2>6 DEF Serve
  <1> QED BY <1>1, <1>c, OthersUndisturbed

LEMMA EndsQuietly ==
  ASSUME NEW c, call \in [Calls -> {IdleCall} \cup CallRecord], c \in Calls, InFlight(c),
         NEW outcome \in {"denied", "error"}, End(c, outcome)
  PROVE  Sound(c)'
  <1> DEFINE ran == outcome \in {"ok", "failed"}
  <1>1. call' = [call EXCEPT ![c].pc = "ended", ![c].ran = ran]
    BY DEF End
  <1>2. ran = FALSE
    OBVIOUS
  <1> HIDE DEF ran
  <1>3. call[c] \in CallRecord
    BY DEF InFlight, IdleCall
  <1>4. call'[c].pc = "ended" /\ ~call'[c].ran
    BY <1>1, <1>2, <1>3 DEF CallRecord
  <1> QED BY <1>4, OverIsSound

\* The project that is served is the one the roles were resolved in.
LEMMA ServedInScope ==
  ASSUME stores \in SUBSET Projects, NEW c, NEW s, WebScope(c, s), NEW p \in Resolvable(call[c].key)
  PROVE  s \in {Global, p}
  <1>1. CASE call[c].key # None
    BY <1>1 DEF Resolvable, WebScope
  <1>2. CASE call[c].key = None
    <2>1. p \in stores /\ Cardinality(stores) = 1
      BY <1>2 DEF Resolvable
    <2>2. IsFiniteSet(stores)
      BY AccessAssumption, FS_Subset
    <2>3. PICK x : stores = {x}
      BY <2>1, <2>2, FS_Singleton
    <2> QED BY <1>2, <2>1, <2>3 DEF WebScope
  <1> QED BY <1>1, <1>2

LEMMA GuardSound ==
  ASSUME AccessInv, NEW c \in Calls, Guard(c)
  PROVE  Sound(c)'
  <1> DEFINE q == request[call[c].by]
  <1>t. InFlight(c) /\ call \in [Calls -> {IdleCall} \cup CallRecord] /\ call[c] \in CallRecord
    BY DEF AccessInv, AccessTypeOK, Guard, Waiting, InFlight, IdleCall
  <1>s. Serving(c, q) /\ call[c].surface = "web" /\ live' = live /\ granted' = granted /\ stores' = stores
    BY <1>t DEF AccessInv, Sound, Guard
  <1>1. CASE Permission(c) \in {None} \cup q.principal
    <2>1. call'[c] = [call[c] EXCEPT !.pc = "route"] /\ request' = request
      BY <1>t, <1>1 DEF Guard, Goto
    <2>2. /\ call'[c].pc = "route" /\ call'[c].surface = call[c].surface /\ call'[c].op = call[c].op
          /\ call'[c].by = call[c].by /\ call'[c].key = call[c].key /\ call'[c].ran = call[c].ran
          /\ call'[c].sawLive = call[c].sawLive /\ call'[c].sawGranted = call[c].sawGranted
      BY <1>t, <2>1 DEF CallRecord
    <2>3. Permission(c)' = Permission(c)
      BY <2>2, SamePermission
    <2>4. Permission(c) # None => Backed(c, q.scope)
      BY <1>1, <1>s DEF Serving, WebCall, Backed
    <2>5. Serving(c, request[call[c].by])'
      BY <1>s, <2>1, <2>2, <2>3, <2>4 DEF Serving, WebCall, WebScope, Backed, Seen
    <2> QED BY <2>2, <2>5 DEF Sound, Ended
  <1>2. CASE ~(Permission(c) \in {None} \cup q.principal)
    BY <1>t, <1>2, EndsQuietly DEF Guard
  <1> QED BY <1>1, <1>2

LEMMA RouteSound ==
  ASSUME AccessInv, NEW c \in Calls, Route(c)
  PROVE  Sound(c)'
  <1> DEFINE q == request[call[c].by]
  <1>t. InFlight(c) /\ call \in [Calls -> {IdleCall} \cup CallRecord] /\ call[c] \in CallRecord
    BY DEF AccessInv, AccessTypeOK, Route, Waiting, InFlight, IdleCall
  <1>s. WebCall(c, q) /\ call[c].pc = "route"
    BY <1>t DEF AccessInv, Sound, Serving, McpCall, Route, Waiting, CallRecord
  <1>0. PICK outcome \in {"ok", "failed", "error"} :
           \E served : /\ Answer(c, outcome, served)
                       /\ Permission(c) # None /\ outcome # "error" => served \in Resolvable(call[c].key)
    BY DEF Route
  <1>1. PICK served :
           /\ Answer(c, outcome, served)
           /\ Permission(c) # None /\ outcome # "error" => served \in Resolvable(call[c].key)
    BY <1>0
  <1> DEFINE ran == outcome # "error"
  <1>2. call' = [call EXCEPT ![c].pc = "ended", ![c].ran = ran, ![c].project = served]
    BY <1>1 DEF Answer
  <1> HIDE DEF ran
  <1>3. /\ call'[c].pc = "ended" /\ call'[c].surface = call[c].surface /\ call'[c].op = call[c].op
        /\ call'[c].ran = ran /\ call'[c].project = served
        /\ call'[c].sawLive = call[c].sawLive /\ call'[c].sawGranted = call[c].sawGranted
    BY <1>t, <1>2 DEF CallRecord
  <1>4. Permission(c)' = Permission(c)
    BY <1>3, SamePermission
  <1>5. ASSUME ran, Permission(c) # None
        PROVE  Backed(c, call[c].project)'
    <2>1. q.scope \in {Global, served}
      <3>1. served \in Resolvable(call[c].key) /\ WebScope(c, q.scope) /\ stores \in SUBSET Projects
        BY <1>1, <1>5, <1>s DEF ran, WebCall, AccessInv, AccessTypeOK
      <3> QED BY <3>1, ServedInScope
    <2>2. Backed(c, q.scope)
      BY <1>5, <1>s DEF WebCall
    <2> QED BY <1>3, <1>4, <2>1, <2>2 DEF Backed, Seen
  <1> QED BY <1>3, <1>4, <1>5 DEF Sound, InFlight, Ended

\* An MCP call at one of the steps of createServer's wrapper.
LEMMA AtMcpStep ==
  ASSUME AccessInv, NEW c \in Calls,
         Dispatch(c) \/ FindStore(c) \/ IdentifyAgain(c) \/ ResolveAgain(c) \/ Admit(c) \/ Bind(c) \/ Run(c)
  PROVE  /\ InFlight(c) /\ call \in [Calls -> {IdleCall} \cup CallRecord] /\ call[c] \in CallRecord
         /\ call[c].surface = "mcp"
         /\ Serving(c, request[call[c].by])
         /\ McpCall(c, request[call[c].by])
         /\ request'[call[c].by].pc = request[call[c].by].pc
         /\ request'[call[c].by].surface = "mcp"
         /\ live' = live /\ granted' = granted
  <1> USE DEF Waiting
  <1>1. InFlight(c) /\ call \in [Calls -> {IdleCall} \cup CallRecord] /\ call[c] \in CallRecord
    BY DEF AccessInv, AccessTypeOK, Dispatch, FindStore, IdentifyAgain, ResolveAgain, Admit, Bind, Run,
           InFlight, IdleCall
  <1>2. Serving(c, request[call[c].by])
    BY <1>1 DEF AccessInv, Sound
  <1>3. call[c].surface = "mcp"
    BY <1>1, <1>2 DEF Serving, WebCall, Dispatch, FindStore, IdentifyAgain, ResolveAgain, Admit, Bind, Run,
                      CallRecord
  <1>4. call[c].by \in Requests /\ request \in [Requests -> RequestRecord]
    BY <1>1 DEF CallRecord, AccessInv, AccessTypeOK
  <1>5. /\ request'[call[c].by].pc = request[call[c].by].pc
        /\ request'[call[c].by].surface = request[call[c].by].surface
    <2>1. CASE Dispatch(c)
      BY <1>4, <2>1 DEF Dispatch, RequestRecord
    <2>2. CASE Admit(c)
      BY <1>4, <2>2 DEF Admit, RequestRecord
    <2>3. CASE Bind(c)
      <3>1. CASE request' = request
        BY <3>1
      <3>2. CASE request' # request
        <4>1. PICK v : request' = [request EXCEPT ![call[c].by].version = IF v = None THEN @ ELSE v,
                                                  ![call[c].by].projectKey = call[c].project]
          BY <2>3, <3>2 DEF Bind
        <4> QED BY <1>4, <4>1 DEF RequestRecord
      <3> QED BY <3>1, <3>2
    <2>4. CASE FindStore(c) \/ IdentifyAgain(c) \/ ResolveAgain(c) \/ Run(c)
      BY <2>4 DEF FindStore, IdentifyAgain, ResolveAgain, Run
    <2> QED BY <2>1, <2>2, <2>3, <2>4
  <1>6. live' = live /\ granted' = granted
    BY DEF Dispatch, FindStore, IdentifyAgain, ResolveAgain, Admit, Bind, Run
  <1>7. McpCall(c, request[call[c].by])
    BY <1>2, <1>3 DEF Serving
  <1>8. request[call[c].by].surface = "mcp"
    BY <1>7 DEF McpCall
  <1> QED BY <1>1, <1>2, <1>3, <1>5, <1>6, <1>7, <1>8

\* The next step of an MCP call, given what has to be known there.
LEMMA McpMovesOn ==
  ASSUME AccessInv, NEW c \in Calls,
         Dispatch(c) \/ FindStore(c) \/ IdentifyAgain(c) \/ ResolveAgain(c) \/ Admit(c) \/ Bind(c),
         call'[c].pc \in {"find", "again", "roles", "admit", "bind", "run"},
         call'[c].surface = call[c].surface, call'[c].op = call[c].op, call'[c].by = call[c].by,
         call'[c].ran = call[c].ran,
         call'[c].sawLive = call[c].sawLive, call'[c].sawGranted = call[c].sawGranted,
         call'[c].pc \in {"roles", "admit"} => call[c].sawLive,
         call'[c].pc = "admit" => \A x \in call'[c].roles : Seen(c, call'[c].project, x),
         call'[c].pc \in {"bind", "run"} => Backed(c, call'[c].project)
  PROVE  Sound(c)'
  <1>1. Permission(c)' = Permission(c)
    BY SamePermission
  <1>2. McpCall(c, request[call[c].by])'
    BY <1>1, AtMcpStep DEF McpCall, Backed, Seen
  <1>3. Serving(c, request[call[c].by])'
    BY <1>2, AtMcpStep DEF Serving
  <1> QED BY <1>3 DEF Sound, Ended

LEMMA FindSound ==
  ASSUME AccessInv, NEW c \in Calls, Dispatch(c) \/ FindStore(c) \/ IdentifyAgain(c) \/ ResolveAgain(c)
  PROVE  Sound(c)'
  <1> USE DEF Waiting
  <1>t. /\ InFlight(c) /\ call \in [Calls -> {IdleCall} \cup CallRecord] /\ call[c] \in CallRecord
        /\ McpCall(c, request[call[c].by]) /\ Serving(c, request[call[c].by])
    BY AtMcpStep
  <1>1. CASE Dispatch(c)
    <2>1. PICK step \in {"find", "ended"} :
             call' = [call EXCEPT ![c].pc = step, ![c].project = call[c].key]
      BY <1>1 DEF Dispatch
    <2>2. /\ call'[c].pc = step /\ call'[c].ran = call[c].ran
          /\ call'[c].surface = call[c].surface /\ call'[c].op = call[c].op /\ call'[c].by = call[c].by
          /\ call'[c].sawLive = call[c].sawLive /\ call'[c].sawGranted = call[c].sawGranted
      BY <1>t, <2>1 DEF CallRecord
    <2>3. CASE step = "find"
      BY <1>1, <2>2, <2>3, McpMovesOn
    <2>4. CASE step = "ended"
      BY <1>t, <2>2, <2>4, OverIsSound DEF Serving
    <2> QED BY <2>3, <2>4
  <1>2. CASE FindStore(c)
    <2>1. CASE Target(c) = {}
      BY <1>t, <1>2, <2>1, EndsQuietly DEF FindStore
    <2>2. CASE Target(c) # {}
      <3>1. PICK p : call' = [call EXCEPT ![c].pc = "again", ![c].project = p]
        BY <1>2, <2>2 DEF FindStore
      <3>2. /\ call'[c].pc = "again" /\ call'[c].ran = call[c].ran
            /\ call'[c].surface = call[c].surface /\ call'[c].op = call[c].op /\ call'[c].by = call[c].by
            /\ call'[c].sawLive = call[c].sawLive /\ call'[c].sawGranted = call[c].sawGranted
        BY <1>t, <3>1 DEF CallRecord
      <3> QED BY <1>2, <3>2, McpMovesOn
    <2> QED BY <2>1, <2>2
  <1>3. CASE IdentifyAgain(c)
    <2>1. CASE live
      <3>1. call' = [call EXCEPT ![c].pc = "roles"]
        BY <1>3, <2>1 DEF IdentifyAgain, Goto
      <3>2. /\ call'[c].pc = "roles" /\ call'[c].ran = call[c].ran
            /\ call'[c].surface = call[c].surface /\ call'[c].op = call[c].op /\ call'[c].by = call[c].by
            /\ call'[c].sawLive = call[c].sawLive /\ call'[c].sawGranted = call[c].sawGranted
        BY <1>t, <3>1 DEF CallRecord
      <3>3. call[c].sawLive
        BY <1>t, <2>1 DEF Serving
      <3> QED BY <1>3, <3>2, <3>3, McpMovesOn
    <2>2. CASE ~live
      BY <1>t, <1>3, <2>2, EndsQuietly DEF IdentifyAgain
    <2> QED BY <2>1, <2>2
  <1>4. CASE ResolveAgain(c)
    <2>1. PICK roles : /\ roles = PermissionsIn(call[c].project)
                       /\ call' = [call EXCEPT ![c].pc = "admit", ![c].roles = roles]
      BY <1>4 DEF ResolveAgain
    <2>2. /\ call'[c].pc = "admit" /\ call'[c].ran = call[c].ran
          /\ call'[c].roles = roles /\ call'[c].project = call[c].project
          /\ call'[c].surface = call[c].surface /\ call'[c].op = call[c].op /\ call'[c].by = call[c].by
          /\ call'[c].sawLive = call[c].sawLive /\ call'[c].sawGranted = call[c].sawGranted
      BY <1>t, <2>1 DEF CallRecord
    <2>3. call[c].sawLive
      BY <1>t, <1>4 DEF McpCall, ResolveAgain
    <2>4. \A x \in roles : Seen(c, call[c].project, x)
      BY <1>t, <2>1, RolesSeen DEF Serving, AccessInv, AccessTypeOK
    <2> QED BY <1>4, <2>2, <2>3, <2>4, McpMovesOn DEF Seen
  <1> QED BY <1>1, <1>2, <1>3, <1>4

LEMMA AdmitSound ==
  ASSUME AccessInv, NEW c \in Calls, Admit(c)
  PROVE  Sound(c)'
  <1> USE DEF Waiting
  <1>t. /\ InFlight(c) /\ call \in [Calls -> {IdleCall} \cup CallRecord] /\ call[c] \in CallRecord
        /\ McpCall(c, request[call[c].by]) /\ Serving(c, request[call[c].by])
    BY AtMcpStep
  <1>1. PICK step : /\ step = IF Permission(c) \in Principal(c) THEN "bind" ELSE "ended"
                    /\ call' = [call EXCEPT ![c].pc = step, ![c].roles = {}]
    BY DEF Admit
  <1>2. /\ call'[c].pc = step /\ call'[c].ran = call[c].ran /\ call'[c].project = call[c].project
        /\ call'[c].surface = call[c].surface /\ call'[c].op = call[c].op /\ call'[c].by = call[c].by
        /\ call'[c].sawLive = call[c].sawLive /\ call'[c].sawGranted = call[c].sawGranted
    BY <1>t, <1>1 DEF CallRecord
  <1>3. CASE step = "bind"
    <2>1. Backed(c, call[c].project)
      BY <1>t, <1>1, <1>3 DEF McpCall, Backed, Principal, Admit
    <2> QED BY <1>2, <1>3, <2>1, McpMovesOn DEF Backed, Seen
  <1>4. CASE step = "ended"
    BY <1>t, <1>2, <1>4, OverIsSound DEF Serving
  <1> QED BY <1>1, <1>3, <1>4

LEMMA BindSound ==
  ASSUME AccessInv, NEW c \in Calls, Bind(c)
  PROVE  Sound(c)'
  <1> USE DEF Waiting
  <1>t. /\ InFlight(c) /\ call \in [Calls -> {IdleCall} \cup CallRecord] /\ call[c] \in CallRecord
        /\ McpCall(c, request[call[c].by])
    BY AtMcpStep
  <1>1. CASE End(c, "error")
    BY <1>t, <1>1, EndsQuietly
  <1>2. CASE ~End(c, "error")
    <2>1. PICK v : call' = [call EXCEPT ![c].pc = "run", ![c].bound = v]
      BY <1>2 DEF Bind
    <2>2. /\ call'[c].pc = "run" /\ call'[c].ran = call[c].ran /\ call'[c].project = call[c].project
          /\ call'[c].surface = call[c].surface /\ call'[c].op = call[c].op /\ call'[c].by = call[c].by
          /\ call'[c].sawLive = call[c].sawLive /\ call'[c].sawGranted = call[c].sawGranted
      BY <1>t, <2>1 DEF CallRecord
    <2>3. Backed(c, call[c].project)
      BY <1>t DEF McpCall, Bind
    <2> QED BY <2>2, <2>3, McpMovesOn DEF Backed, Seen
  <1> QED BY <1>1, <1>2

LEMMA RunSound ==
  ASSUME AccessInv, NEW c \in Calls, Run(c)
  PROVE  Sound(c)'
  <1> USE DEF Waiting
  <1>t. /\ InFlight(c) /\ call \in [Calls -> {IdleCall} \cup CallRecord] /\ call[c] \in CallRecord
        /\ McpCall(c, request[call[c].by])
    BY AtMcpStep
  <1>1. PICK ran : call' = [call EXCEPT ![c].pc = "ended", ![c].ran = ran]
    BY DEF Run, End
  <1>2. /\ call'[c].pc = "ended" /\ call'[c].project = call[c].project
        /\ call'[c].surface = call[c].surface /\ call'[c].op = call[c].op
        /\ call'[c].sawLive = call[c].sawLive /\ call'[c].sawGranted = call[c].sawGranted
    BY <1>t, <1>1 DEF CallRecord
  <1>3. Permission(c)' = Permission(c)
    BY <1>2, SamePermission
  <1>4. Backed(c, call[c].project)
    BY <1>t DEF McpCall, Run
  <1> QED BY <1>2, <1>3, <1>4 DEF Sound, InFlight, Ended, Backed, Seen

-------------------------------------------------------------------------------
(* Every call stays sound: what happens around the calls.                   *)

\* What a call saw only grows while it is in flight.
LEMMA WatchingSound ==
  ASSUME AccessInv, Regrant \/ Revoke, NEW d \in Calls
  PROVE  Sound(d)'
  <1>t. call \in [Calls -> {IdleCall} \cup CallRecord] /\ Sound(d)
    BY DEF AccessInv, AccessTypeOK
  <1>a. /\ call' = Watched /\ request' = request /\ stores' = stores
        /\ live' \in BOOLEAN
    BY DEF Regrant, Revoke, AccessInv, AccessTypeOK
  <1>1. CASE ~InFlight(d)
    <2>1. call'[d] = call[d]
      BY <1>a, <1>1 DEF Watched
    <2>2. Permission(d)' = Permission(d)
      BY <2>1, SamePermission
    <2> QED BY <1>t, <1>1, <2>1, <2>2 DEF Sound, InFlight, Ended, Backed, Seen
  <1>2. CASE InFlight(d)
    <2>c. call[d] \in CallRecord /\ Serving(d, request[call[d].by])
      BY <1>t, <1>2 DEF InFlight, IdleCall, Sound
    <2> DEFINE q == request[call[d].by]
    <2> DEFINE saw == call[d].sawLive \/ live'
    <2>s. saw \in BOOLEAN /\ (saw <=> call[d].sawLive \/ live')
      OBVIOUS
    <2>1. call'[d] = [call[d] EXCEPT !.sawLive = saw, !.sawGranted = @ \cup granted']
      BY <1>a, <1>2 DEF Watched
    <2> HIDE DEF saw
    <2>2. /\ call'[d].pc = call[d].pc /\ call'[d].surface = call[d].surface /\ call'[d].op = call[d].op
          /\ call'[d].by = call[d].by /\ call'[d].key = call[d].key /\ call'[d].ran = call[d].ran
          /\ call'[d].roles = call[d].roles /\ call'[d].project = call[d].project
          /\ call'[d].sawLive = saw /\ call'[d].sawGranted = call[d].sawGranted \cup granted'
      BY <2>c, <2>1 DEF CallRecord
    <2>3. Permission(d)' = Permission(d)
      BY <2>2, SamePermission
    <2>4. /\ call[d].sawLive => call'[d].sawLive
          /\ live' => call'[d].sawLive
          /\ call[d].sawGranted \subseteq call'[d].sawGranted
          /\ granted' \subseteq call'[d].sawGranted
      BY <2>s, <2>2
    <2>5. call[d].surface = "web" => WebCall(d, request[call[d].by])'
      BY <1>a, <2>c, <2>2, <2>3, <2>4 DEF Serving, WebCall, WebScope, Backed, Seen
    <2>6. call[d].surface = "mcp" => McpCall(d, request[call[d].by])'
      BY <1>a, <2>c, <2>2, <2>3, <2>4 DEF Serving, McpCall, Backed, Seen
    <2>7. Serving(d, request[call[d].by])'
      BY <1>a, <2>c, <2>2, <2>4, <2>5, <2>6 DEF Serving
    <2> QED BY <1>2, <2>2, <2>7 DEF Sound, InFlight, Ended
  <1> QED BY <1>1, <1>2

LEMMA ReopenSound ==
  ASSUME AccessInv, ReopenSession, NEW d \in Calls
  PROVE  Sound(d)'
  <1>1. /\ Sound(d) /\ call' = call /\ request' = request /\ stores' = stores
        /\ live' = live /\ granted' = granted
    BY DEF AccessInv, ReopenSession
  <1>2. InFlight(d) => request[call[d].by].pc # "idle"
    BY <1>1 DEF Sound, Serving
  <1> QED BY <1>1, <1>2, Undisturbed

LEMMA StopSound ==
  ASSUME AccessInv, Stop, NEW d \in Calls
  PROVE  Sound(d)'
  <1>1. call'[d] = IF InFlight(d) THEN [call[d] EXCEPT !.pc = "lost"] ELSE call[d]
    BY DEF Stop
  <1>2. CASE InFlight(d)
    <2>1. call[d] \in CallRecord
      BY <1>2 DEF AccessInv, AccessTypeOK, InFlight, IdleCall
    <2> QED BY <1>1, <1>2, <2>1, OverIsSound DEF CallRecord
  <1>3. CASE ~InFlight(d)
    <2>1. /\ Sound(d) /\ call'[d] = call[d] /\ live' = live /\ granted' = granted
      BY <1>1, <1>3 DEF AccessInv, Stop
    <2> QED BY <1>3, <2>1, Undisturbed
  <1> QED BY <1>2, <1>3

-------------------------------------------------------------------------------
LEMMA NextSound == AccessInv /\ [Next]_vars => AccessInv'
  <1> SUFFICES ASSUME AccessInv, [Next]_vars
               PROVE  AccessInv'
    OBVIOUS
  <1>t. AccessTypeOK'
    BY NextTyped DEF AccessInv
  <1>1. CASE UNCHANGED vars
    <2>1. ASSUME NEW d \in Calls
          PROVE  Sound(d)'
      <3>1. Sound(d) /\ (InFlight(d) => request[call[d].by].pc # "idle")
        BY DEF AccessInv, Sound, Serving
      <3> QED BY <1>1, <3>1, Undisturbed DEF vars
    <2>2. WebAlone'
      BY <1>1 DEF vars, AccessInv, WebAlone, InFlight
    <2> QED BY <1>t, <2>1, <2>2 DEF AccessInv
  <1>2. ASSUME NEW r \in Requests,
               Identify(r) \/ RefuseMcp(r) \/ RefuseWeb(r) \/ Resolve(r) \/ NoSession(r)
        PROVE  AccessInv'
    <2>1. WebAlone'
      BY <1>2, RequestStepsOnward, AloneOnward DEF AccessInv
    <2>2. \A d \in Calls : Sound(d)'
      BY <1>2, IdentifySound, ResolveSound, RequestLostSound, RefuseWebSound
    <2> QED BY <1>t, <2>1, <2>2 DEF AccessInv
  <1>3. ASSUME NEW r \in Requests, NEW c \in Calls, NEW route \in Routes, NEW key \in Projects \cup {None},
               ArriveWeb(r, c, route, key)
        PROVE  AccessInv'
    BY <1>t, <1>3, ArrivalsAlone, ArriveWebSound DEF AccessInv
  <1>4. ASSUME NEW r \in Requests, NEW asked, ArriveMcp(r, asked)
        PROVE  AccessInv'
    BY <1>t, <1>4, ArrivalsAlone, ArriveMcpSound DEF AccessInv
  <1>5. ASSUME NEW c \in Calls, Serve(c)
        PROVE  AccessInv'
    <2>1. Sound(c)'
      BY <1>5, GuardSound, RouteSound, FindSound, AdmitSound, BindSound, RunSound DEF Serve
    <2> QED BY <1>t, <1>5, <2>1, CallStepsAlone, CallStepsLeaveOthers DEF AccessInv
  <1>6. CASE Regrant \/ Revoke \/ ReopenSession \/ Stop
    BY <1>t, <1>6, EventsAlone, WatchingSound, ReopenSound, StopSound DEF AccessInv
  <1> QED BY <1>1, <1>2, <1>3, <1>4, <1>5, <1>6 DEF Next

LEMMA InvImpliesLeave == AccessInv => RanWithLeave
  <1> SUFFICES ASSUME AccessInv, NEW c \in Calls, Passed(c), Permission(c) # None
               PROVE  Backed(c, call[c].project)
    BY DEF RanWithLeave, Backed, Seen
  <1>1. Sound(c)
    BY DEF AccessInv
  <1>2. CASE call[c].pc \in {"bind", "run"}
    <2>1. InFlight(c) /\ call[c] \in CallRecord
      BY <1>2 DEF InFlight, AccessInv, AccessTypeOK, IdleCall
    <2>2. Serving(c, request[call[c].by])
      BY <1>1, <2>1 DEF Sound
    <2>3. McpCall(c, request[call[c].by])
      BY <1>2, <2>1, <2>2 DEF Serving, WebCall, CallRecord
    <2> QED BY <1>2, <2>3 DEF McpCall
  <1>3. CASE Ended(c) /\ call[c].ran
    BY <1>1, <1>3 DEF Sound
  <1> QED BY <1>2, <1>3 DEF Passed

\* However the calls of a request interleave, and whatever is granted, revoked
\* or attached meanwhile, a call only passes its check for a caller who was
\* recognised and held the permission, server-wide or in the project it touches.
THEOREM AlwaysRanWithLeave == Spec => []RanWithLeave
  BY InitSound, NextSound, InvImpliesLeave, PTL DEF Spec

-------------------------------------------------------------------------------
(* One row each: what the audit log says of every call.                     *)

\* The row a call left.
RowOf(c, row) ==
    /\ audit[c] = <<row>>
    /\ row.outcome = "denied" => ~call[c].ran
    /\ row.outcome = "ok" => call[c].ran
    /\ call[c].surface = "web" /\ call[c].ran => ~Reads(call[c].op)
    /\ call[c].surface = "mcp" /\ call[c].project # None =>
          /\ row.project = call[c].project
          /\ Alone(c) /\ call[c].ran => row.version = call[c].bound

\* Only a read of the web ends without one.
NoRow(c) == audit[c] = <<>> /\ (Ended(c) => call[c].surface = "web" /\ Reads(call[c].op))

Audited(c) == NoRow(c) \/ (Ended(c) /\ \E row : RowOf(c, row))

\* A call is bound to its version last of all; the context of one that is alone in
\* its request shows that version, or none before.
VersionShown(c) ==
    InFlight(c) /\ call[c].surface = "mcp" =>
        /\ call[c].pc # "run" => call[c].bound = None
        /\ Alone(c) => request[call[c].by].version = call[c].bound

OneRowInv ==
    /\ AccessInv
    /\ DOMAIN audit = Calls \cup Requests
    /\ \A c \in Calls : Audited(c) /\ VersionShown(c)

\* A call that has arrived stays with its request.
Kept == \A d \in Calls : call[d] # IdleCall => call'[d] # IdleCall /\ call'[d].by = call[d].by

LEMMA AloneBefore ==
  ASSUME Kept, NEW c \in Calls, call'[c].by = call[c].by, Alone(c)'
  PROVE  Alone(c)
  BY DEF Kept, Alone, IdleCall

LEMMA RowKept ==
  ASSUME Kept, NEW d \in Calls, Audited(d), call'[d] = call[d], audit'[d] = audit[d]
  PROVE  Audited(d)'
  <1>1. Alone(d)' => Alone(d)
    BY AloneBefore
  <1>2. ASSUME NEW row, RowOf(d, row)
        PROVE  RowOf(d, row)'
    BY <1>1, <1>2 DEF RowOf
  <1> QED BY <1>2 DEF Audited, NoRow, Ended

LEMMA NoRowYet ==
  ASSUME NEW d \in Calls, Audited(d), ~Ended(d), call'[d].pc # "ended", audit'[d] = audit[d]
  PROVE  Audited(d)'
  BY DEF Audited, NoRow, Ended

LEMMA VersionKept ==
  ASSUME Kept, NEW d \in Calls, VersionShown(d),
         call'[d].pc \notin {"idle", "ended", "lost"} =>
             /\ InFlight(d) /\ call'[d].surface = call[d].surface
             /\ call'[d].by = call[d].by /\ call'[d].bound = call[d].bound
             /\ call[d].pc = "run" => call'[d].pc = "run"
             /\ Alone(d) => request'[call[d].by].version = request[call[d].by].version
  PROVE  VersionShown(d)'
  <1> SUFFICES ASSUME InFlight(d)', call'[d].surface = "mcp"
               PROVE  /\ call'[d].pc # "run" => call'[d].bound = None
                      /\ Alone(d)' => request'[call'[d].by].version = call'[d].bound
    BY DEF VersionShown
  <1>1. call'[d].pc \notin {"idle", "ended", "lost"}
    BY DEF InFlight
  <1>2. Alone(d)' => Alone(d)
    BY <1>1, AloneBefore
  <1> QED BY <1>1, <1>2 DEF VersionShown

\* A call ends, with a row.
LEMMA EndsWithRow ==
  ASSUME Kept, NEW c \in Calls, Audited(c), ~Ended(c), c \in DOMAIN audit,
         NEW row, audit' = [audit EXCEPT ![c] = Append(@, row)],
         call'[c].pc = "ended",
         row.outcome = "denied" => ~call'[c].ran,
         row.outcome = "ok" => call'[c].ran,
         call'[c].surface = "web" /\ call'[c].ran => ~Reads(call'[c].op),
         call'[c].surface = "mcp" /\ call'[c].project # None =>
             /\ row.project = call'[c].project
             /\ Alone(c)' /\ call'[c].ran => row.version = call'[c].bound
  PROVE  Audited(c)'
  <1>1. audit[c] = <<>>
    BY DEF Audited, NoRow
  <1>2. audit'[c] = <<row>>
    BY <1>1
  <1>3. RowOf(c, row)'
    BY <1>2 DEF RowOf
  <1> QED BY <1>3 DEF Audited, Ended

\* What the row of a call that ends says.
LEMMA EndNotes ==
  ASSUME NEW c \in Calls, NEW outcome, End(c, outcome)
  PROVE  \E row : /\ row.outcome = IF outcome = "failed" THEN "error" ELSE outcome
                  /\ call[c].project # None => row.project = call[c].project
                  /\ row.version = request[call[c].by].version
                  /\ audit' = [audit EXCEPT ![c] = Append(@, row)]
  <1> DEFINE row == AuditRow(request[call[c].by], call[c].project, IF outcome = "failed" THEN "error" ELSE outcome)
  <1>1. /\ row.outcome = IF outcome = "failed" THEN "error" ELSE outcome
        /\ call[c].project # None => row.project = call[c].project
        /\ row.version = request[call[c].by].version
    BY DEF AuditRow
  <1>2. audit' = [audit EXCEPT ![c] = Append(@, row)]
    BY DEF End, Note
  <1> HIDE DEF row
  <1> WITNESS row
  <1> QED BY <1>1, <1>2

LEMMA EndFields ==
  ASSUME AccessTypeOK, NEW c \in Calls, call[c] \in CallRecord, NEW outcome, End(c, outcome)
  PROVE  /\ call'[c].pc = "ended" /\ (call'[c].ran <=> outcome \in {"ok", "failed"})
         /\ call'[c].surface = call[c].surface /\ call'[c].op = call[c].op /\ call'[c].by = call[c].by
         /\ call'[c].project = call[c].project /\ call'[c].bound = call[c].bound
  <1> DEFINE ran == outcome \in {"ok", "failed"}
  <1>1. call' = [call EXCEPT ![c].pc = "ended", ![c].ran = ran]
    BY DEF End
  <1>2. ran <=> outcome \in {"ok", "failed"}
    OBVIOUS
  <1> HIDE DEF ran
  <1> QED BY <1>1, <1>2 DEF AccessTypeOK, CallRecord

-------------------------------------------------------------------------------
(* One row each: arrivals and the steps of a request.                       *)

LEMMA InitOneRow == Init => OneRowInv
  <1> SUFFICES ASSUME Init
               PROVE  OneRowInv
    OBVIOUS
  <1>1. \A c \in Calls : call[c].pc = "idle" /\ audit[c] = <<>>
    BY DEF Init, IdleCall
  <1>2. DOMAIN audit = Calls \cup Requests
    BY DEF Init
  <1> QED BY <1>1, <1>2, InitSound DEF OneRowInv, Audited, NoRow, VersionShown, InFlight, Ended

LEMMA ArrivalRows ==
  ASSUME OneRowInv, NEW r \in Requests, request[r] = IdleRequest,
         NEW ctx, ctx.version = None, request' = [request EXCEPT ![r] = ctx],
         audit' = audit, NEW S \in SUBSET Calls,
         \A c \in S : call[c] = IdleCall /\ call'[c].pc = "wait" /\ call'[c].by = r /\ call'[c].bound = None,
         \A c \in Calls \ S : call'[c] = call[c]
  PROVE  DOMAIN audit' = Calls \cup Requests /\ \A d \in Calls : Audited(d)' /\ VersionShown(d)'
  <1>k. Kept
    BY DEF Kept, IdleCall
  <1>t. AccessInv /\ request \in [Requests -> RequestRecord]
    BY DEF OneRowInv, AccessInv, AccessTypeOK
  <1>1. ASSUME NEW d \in S
        PROVE  Audited(d)' /\ VersionShown(d)'
    <2>1. d \in Calls /\ ~Ended(d) /\ Audited(d)
      BY <1>1 DEF Ended, IdleCall, OneRowInv
    <2>2. Audited(d)'
      BY <2>1, NoRowYet
    <2> QED BY <1>t, <2>2 DEF VersionShown
  <1>2. ASSUME NEW d \in Calls \ S
        PROVE  Audited(d)' /\ VersionShown(d)'
    <2>1. InFlight(d) => call[d].by # r /\ call[d].by \in Requests
      BY <1>t, NoneBeforeArrival DEF AccessInv, AccessTypeOK, InFlight, IdleCall, CallRecord
    <2>2. InFlight(d) => request'[call[d].by] = request[call[d].by]
      BY <1>t, <2>1
    <2>3. VersionShown(d)'
      BY <1>k, <2>2, VersionKept DEF OneRowInv, InFlight
    <2> QED BY <1>k, <2>3, RowKept DEF OneRowInv
  <1> QED BY <1>1, <1>2 DEF OneRowInv

LEMMA ArrivalsOneRow ==
  ASSUME OneRowInv, NEW r \in Requests,
         \/ \E c \in Calls, route \in Routes, key \in Projects \cup {None} : ArriveWeb(r, c, route, key)
         \/ \E asked : ArriveMcp(r, asked)
  PROVE  DOMAIN audit' = Calls \cup Requests /\ \A d \in Calls : Audited(d)' /\ VersionShown(d)'
  <1>t. call \in [Calls -> {IdleCall} \cup CallRecord]
    BY DEF OneRowInv, AccessInv, AccessTypeOK
  <1>1. ASSUME NEW c \in Calls, NEW route \in Routes, NEW key \in Projects \cup {None},
               ArriveWeb(r, c, route, key)
        PROVE  DOMAIN audit' = Calls \cup Requests /\ \A d \in Calls : Audited(d)' /\ VersionShown(d)'
    <2>1. PICK ctx : ctx.version = None /\ request' = [request EXCEPT ![r] = ctx]
      <3>1. PICK scope : request' = [request EXCEPT ![r] = Context("web", scope)]
        BY <1>1 DEF ArriveWeb
      <3>2. Context("web", scope).version = None
        BY DEF Context
      <3> QED BY <3>1, <3>2
    <2>2. call[c] = IdleCall /\ call'[c] = Asked("web", route, key, r) /\ \A d \in Calls \ {c} : call'[d] = call[d]
      BY <1>t, <1>1 DEF ArriveWeb
    <2>3. call'[c].pc = "wait" /\ call'[c].by = r /\ call'[c].bound = None
      BY <2>2 DEF Asked
    <2>4. request[r] = IdleRequest /\ audit' = audit
      BY <1>1 DEF ArriveWeb
    <2>5. {c} \in SUBSET Calls
      OBVIOUS
    <2> QED BY <2>1, <2>2, <2>3, <2>4, <2>5, ArrivalRows
  <1>2. ASSUME NEW asked, ArriveMcp(r, asked)
        PROVE  DOMAIN audit' = Calls \cup Requests /\ \A d \in Calls : Audited(d)' /\ VersionShown(d)'
    <2>1. PICK ctx : ctx.version = None /\ request' = [request EXCEPT ![r] = ctx]
      <3>1. Context("mcp", Global).version = None
        BY DEF Context
      <3> QED BY <1>2, <3>1 DEF ArriveMcp
    <2>2. PICK S \in SUBSET Calls : S = DOMAIN asked
      BY <1>2 DEF ArriveMcp
    <2>3. /\ \A c \in S : call'[c] = Asked("mcp", asked[c][1], asked[c][2], r)
          /\ \A c \in S : call[c] = IdleCall
          /\ \A c \in Calls \ S : call'[c] = call[c]
      BY <1>2, <2>2 DEF ArriveMcp
    <2>4. \A c \in S : call'[c].pc = "wait" /\ call'[c].by = r /\ call'[c].bound = None
      <3>1. \A op, key : LET k == Asked("mcp", op, key, r) IN k.pc = "wait" /\ k.by = r /\ k.bound = None
        BY DEF Asked
      <3> QED BY <2>3, <3>1
    <2>5. request[r] = IdleRequest /\ audit' = audit
      BY <1>2 DEF ArriveMcp
    <2> QED BY <2>1, <2>3, <2>4, <2>5, ArrivalRows
  <1> QED BY <1>1, <1>2

LEMMA RequestStepsKept ==
  ASSUME AccessTypeOK, NEW r \in Requests,
         Identify(r) \/ RefuseMcp(r) \/ RefuseWeb(r) \/ Resolve(r) \/ NoSession(r)
  PROVE  Kept
  <1>c. /\ call \in [Calls -> {IdleCall} \cup CallRecord]
        /\ \A c \in Calls : call[c] # IdleCall => call[c] \in CallRecord
    BY DEF AccessTypeOK
  <1>1. CASE Identify(r) \/ Resolve(r)
    BY <1>1 DEF Identify, Resolve, Kept
  <1>2. CASE RefuseMcp(r) \/ NoSession(r)
    <2>1. \A c \in Calls : call'[c] = IF c \in Siblings(r) THEN [call[c] EXCEPT !.pc = "lost"] ELSE call[c]
      BY <1>2 DEF RefuseMcp, NoSession
    <2> QED BY <1>c, <2>1 DEF Kept, CallRecord, IdleCall
  <1>3. CASE RefuseWeb(r)
    <2>1. PICK c \in Siblings(r), step \in {"route", "ended"} :
             \/ call' = [call EXCEPT ![c].pc = step]
             \/ \E ran : call' = [call EXCEPT ![c].pc = step, ![c].ran = ran]
      BY <1>3 DEF RefuseWeb, Goto, End
    <2>2. c \in Calls /\ call[c] \in CallRecord
      BY <1>c DEF Siblings, InFlight, IdleCall
    <2>3. /\ call'[c].pc = step /\ call'[c].by = call[c].by
          /\ \A d \in Calls \ {c} : call'[d] = call[d]
      BY <1>c, <2>1, <2>2 DEF CallRecord
    <2> QED BY <2>2, <2>3 DEF Kept, IdleCall
  <1> QED BY <1>1, <1>2, <1>3

\* The steps of a request keep the version in its context.
LEMMA RequestStepsOneRow ==
  ASSUME OneRowInv, NEW r \in Requests,
         Identify(r) \/ RefuseMcp(r) \/ RefuseWeb(r) \/ Resolve(r) \/ NoSession(r)
  PROVE  DOMAIN audit' = Calls \cup Requests /\ \A d \in Calls : Audited(d)' /\ VersionShown(d)'
  <1>t. /\ AccessInv /\ AccessTypeOK /\ request \in [Requests -> RequestRecord]
        /\ call \in [Calls -> {IdleCall} \cup CallRecord]
        /\ DOMAIN audit = Calls \cup Requests
        /\ \A d \in Calls : Audited(d) /\ VersionShown(d)
    BY DEF OneRowInv, AccessInv, AccessTypeOK
  <1>k. Kept
    BY <1>t, RequestStepsKept
  <1>1. CASE Identify(r) \/ Resolve(r)
    <2>1. call' = call /\ audit' = audit /\ \A x \in Requests : request'[x].version = request[x].version
      BY <1>t, <1>1 DEF Identify, Resolve, RequestRecord
    <2>2. \A d \in Calls : InFlight(d) => call[d].by \in Requests
      BY <1>t DEF InFlight, IdleCall, CallRecord
    <2> QED BY <1>t, <1>k, <2>1, <2>2, RowKept, VersionKept DEF InFlight
  <1>2. CASE RefuseMcp(r) \/ NoSession(r)
    <2>1. /\ \A d \in Calls : call'[d] = IF d \in Siblings(r) THEN [call[d] EXCEPT !.pc = "lost"] ELSE call[d]
          /\ request' = [request EXCEPT ![r] = Done]
      BY <1>2 DEF RefuseMcp, NoSession
    <2>2. /\ DOMAIN audit' = DOMAIN audit
          /\ \A d \in Calls : audit'[d] = audit[d]
      BY <1>t, <1>2, AccessAssumption DEF RefuseMcp, NoSession, Note
    <2>3. ASSUME NEW d \in Siblings(r)
          PROVE  Audited(d)' /\ VersionShown(d)'
      <3>1. d \in Calls /\ call[d] \in CallRecord /\ InFlight(d)
        BY <1>t DEF Siblings, InFlight, IdleCall
      <3>2. call'[d].pc = "lost"
        BY <2>1, <3>1 DEF CallRecord
      <3> QED BY <1>t, <1>k, <2>2, <3>1, <3>2, NoRowYet, VersionKept DEF InFlight, Ended
    <2>4. ASSUME NEW d \in Calls \ Siblings(r)
          PROVE  Audited(d)' /\ VersionShown(d)'
      <3>1. call'[d] = call[d]
        BY <2>1
      <3>2. InFlight(d) => call[d].by # r /\ call[d].by \in Requests
        BY <1>t DEF Siblings, InFlight, IdleCall, CallRecord
      <3>3. InFlight(d) => request'[call[d].by] = request[call[d].by]
        BY <1>t, <2>1, <3>2
      <3> QED BY <1>t, <1>k, <2>2, <3>1, <3>3, RowKept, VersionKept DEF InFlight
    <2> QED BY <1>t, <2>2, <2>3, <2>4
  <1>3. CASE RefuseWeb(r)
    <2>1. PICK c \in Siblings(r) :
             IF Permission(c) = None THEN Goto(c, "route") /\ audit' = audit ELSE End(c, "denied")
      BY <1>3 DEF RefuseWeb
    <2>2. c \in Calls /\ call[c] \in CallRecord /\ InFlight(c) /\ call[c].by = r
      BY <1>t DEF Siblings, InFlight, IdleCall
    <2>3. call[c].surface = "web"
      <3>1. Serving(c, request[r])
        BY <1>t, <2>2 DEF AccessInv, Sound
      <3> QED BY <1>3, <2>2, <3>1 DEF Serving, McpCall, RefuseWeb, CallRecord
    <2>4. \A x \in Requests : request'[x].version = request[x].version
      BY <1>t, <1>3 DEF RefuseWeb, RequestRecord
    <2>5. ASSUME NEW d \in Calls \ {c}
          PROVE  Audited(d)' /\ VersionShown(d)'
      <3>1. call'[d] = call[d] /\ audit'[d] = audit[d]
        BY <1>t, <2>1, <2>2 DEF Goto, End, Note
      <3>2. InFlight(d) => call[d].by \in Requests
        BY <1>t DEF InFlight, IdleCall, CallRecord
      <3> QED BY <1>t, <1>k, <2>4, <3>1, <3>2, RowKept, VersionKept DEF InFlight
    <2>6. CASE Permission(c) = None
      <3>1. call' = [call EXCEPT ![c].pc = "route"] /\ audit' = audit
        BY <2>1, <2>6 DEF Goto
      <3>2. call'[c].pc = "route" /\ call'[c].surface = "web"
        BY <1>t, <2>2, <2>3, <3>1 DEF CallRecord
      <3>3. Audited(c)' /\ VersionShown(c)'
        BY <1>t, <2>2, <3>1, <3>2, NoRowYet DEF VersionShown, InFlight, Ended
      <3> QED BY <1>t, <2>5, <3>1, <3>3
    <2>7. CASE Permission(c) # None
      <3>1. PICK row : row.outcome = "denied" /\ audit' = [audit EXCEPT ![c] = Append(@, row)]
        BY <2>1, <2>2, <2>7, EndNotes
      <3>3. call'[c].pc = "ended" /\ call'[c].surface = "web" /\ ~call'[c].ran
        BY <1>t, <2>1, <2>2, <2>3, <2>7, EndFields
      <3>4. Audited(c)' /\ VersionShown(c)'
        BY <1>k, <1>t, <2>2, <3>1, <3>3, EndsWithRow DEF VersionShown, InFlight, Ended
      <3> QED BY <1>t, <2>5, <3>1, <3>4
    <2> QED BY <2>6, <2>7
  <1> QED BY <1>1, <1>2, <1>3

-------------------------------------------------------------------------------
(* One row each: the steps of a call.                                       *)

LEMMA CallStepsKept ==
  ASSUME AccessTypeOK, NEW c \in Calls, Serve(c)
  PROVE  Kept
  <1>1. /\ call'[c].by = call[c].by /\ \A d \in Calls \ {c} : call'[d] = call[d]
    BY CallStepsOnward
  <1>2. call'[c].pc # "idle"
    <2>c. call \in [Calls -> {IdleCall} \cup CallRecord] /\ call[c] \in CallRecord
      BY CallStepsOnward DEF AccessTypeOK, InFlight, IdleCall
    <2>e. \A outcome : End(c, outcome) => call'[c].pc # "idle"
      BY <2>c, EndFields
    <2>1. CASE Guard(c) \/ IdentifyAgain(c)
      BY <2>c, <2>e, <2>1 DEF Guard, IdentifyAgain, Goto, CallRecord
    <2>2. CASE Route(c)
      BY <2>c, <2>2 DEF Route, Answer, CallRecord
    <2>3. CASE Dispatch(c) \/ ResolveAgain(c) \/ Admit(c)
      BY <2>c, <2>3 DEF Dispatch, ResolveAgain, Admit, CallRecord
    <2>4. CASE FindStore(c)
      BY <2>c, <2>e, <2>4 DEF FindStore, CallRecord
    <2>5. CASE Bind(c) \/ Run(c)
      <3>1. CASE \E outcome : End(c, outcome)
        BY <2>e, <3>1
      <3>2. CASE ~\E outcome : End(c, outcome)
        <4>1. PICK v : call' = [call EXCEPT ![c].pc = "run", ![c].bound = v]
          BY <2>5, <3>2 DEF Bind, Run
        <4> QED BY <2>c, <4>1 DEF CallRecord
      <3> QED BY <3>1, <3>2
    <2> QED BY <2>1, <2>2, <2>3, <2>4, <2>5 DEF Serve
  <1> QED BY <1>1, <1>2 DEF Kept, IdleCall

\* A step of one call leaves the rows of the others, and their context.
LEMMA CallStepsRows ==
  ASSUME OneRowInv, NEW c \in Calls, Serve(c)
  PROVE  /\ DOMAIN audit' = Calls \cup Requests
         /\ \A d \in Calls \ {c} : audit'[d] = audit[d]
         /\ \A r \in Requests : r # call[c].by => request'[r] = request[r]
  <1>t. /\ DOMAIN audit = Calls \cup Requests /\ request \in [Requests -> RequestRecord]
    BY DEF OneRowInv, AccessInv, AccessTypeOK
  <1>e. ASSUME NEW outcome, End(c, outcome)
        PROVE  /\ DOMAIN audit' = DOMAIN audit
               /\ \A d \in Calls \ {c} : audit'[d] = audit[d]
    <2>1. PICK row : audit' = [audit EXCEPT ![c] = Append(@, row)]
      BY <1>e, EndNotes
    <2> QED BY <1>t, <2>1
  <1>1. CASE Guard(c)
    BY <1>t, <1>e, <1>1 DEF Guard
  <1>2. CASE Route(c)
    BY <1>t, <1>2 DEF Route, Answer, Note
  <1>3. CASE Dispatch(c)
    BY <1>t, <1>3 DEF Dispatch
  <1>4. CASE FindStore(c) \/ IdentifyAgain(c) \/ ResolveAgain(c) \/ Run(c)
    BY <1>t, <1>e, <1>4 DEF FindStore, IdentifyAgain, ResolveAgain, Run
  <1>5. CASE Admit(c)
    BY <1>t, <1>5 DEF Admit
  <1>6. CASE Bind(c)
    <2>1. CASE End(c, "error") /\ UNCHANGED request
      BY <1>t, <1>e, <2>1
    <2>2. CASE ~(End(c, "error") /\ UNCHANGED request)
      <3>1. PICK v : /\ request' = [request EXCEPT ![call[c].by].version = IF v = None THEN @ ELSE v,
                                                   ![call[c].by].projectKey = call[c].project]
                     /\ audit' = audit
        BY <1>6, <2>2 DEF Bind
      <3> QED BY <1>t, <3>1
    <2> QED BY <2>1, <2>2
  <1> QED BY <1>1, <1>2, <1>3, <1>4, <1>5, <1>6 DEF Serve

LEMMA CallStepsOthersOneRow ==
  ASSUME OneRowInv, NEW c \in Calls, Serve(c), NEW d \in Calls \ {c}
  PROVE  Audited(d)' /\ VersionShown(d)'
  <1>t. AccessTypeOK /\ Audited(d) /\ VersionShown(d)
    BY DEF OneRowInv, AccessInv
  <1>1. InFlight(c) /\ call'[d] = call[d] /\ Kept
    BY <1>t, CallStepsOnward, CallStepsKept
  <1>2. Audited(d)'
    BY <1>t, <1>1, CallStepsRows, RowKept
  <1>3. ASSUME InFlight(d), Alone(d)
        PROVE  request'[call[d].by].version = request[call[d].by].version
    <2>1. call[c] # IdleCall
      BY <1>1 DEF InFlight, IdleCall
    <2>2. call[c].by # call[d].by
      BY <1>3, <2>1 DEF Alone
    <2>3. call[d].by \in Requests
      BY <1>t, <1>3 DEF AccessTypeOK, InFlight, IdleCall, CallRecord
    <2> QED BY <2>2, <2>3, CallStepsRows
  <1>4. VersionShown(d)'
    BY <1>t, <1>1, <1>3, VersionKept DEF InFlight
  <1> QED BY <1>2, <1>4

\* A call that has not ended has left no row.
LEMMA BeforeStep ==
  ASSUME OneRowInv, NEW c \in Calls, Serve(c)
  PROVE  /\ AccessTypeOK /\ InFlight(c) /\ call[c] \in CallRecord /\ call[c].by \in Requests
         /\ ~Ended(c) /\ ~call[c].ran /\ Audited(c) /\ VersionShown(c) /\ c \in DOMAIN audit /\ Kept
         /\ call'[c].surface = call[c].surface /\ call'[c].by = call[c].by /\ call'[c].op = call[c].op
  <1>1. AccessTypeOK /\ InFlight(c) /\ Kept
    BY CallStepsOnward, CallStepsKept DEF OneRowInv, AccessInv
  <1>2. call[c] \in CallRecord
    BY <1>1 DEF AccessTypeOK, InFlight, IdleCall
  <1>3. Serving(c, request[call[c].by])
    BY <1>1 DEF OneRowInv, AccessInv, Sound
  <1> QED BY <1>1, <1>2, <1>3, CallStepsOnward DEF OneRowInv, CallRecord, Serving, InFlight, Ended

LEMMA EndOneRow ==
  ASSUME OneRowInv, NEW c \in Calls, Serve(c), NEW outcome \in {"denied", "error", "ok", "failed"},
         End(c, outcome), outcome \in {"ok", "failed"} => call[c].surface = "mcp"
  PROVE  Audited(c)' /\ VersionShown(c)'
  <1>1. PICK row : /\ row.outcome = IF outcome = "failed" THEN "error" ELSE outcome
                   /\ call[c].project # None => row.project = call[c].project
                   /\ row.version = request[call[c].by].version
                   /\ audit' = [audit EXCEPT ![c] = Append(@, row)]
    BY EndNotes
  <1>b. /\ AccessTypeOK /\ InFlight(c) /\ call[c] \in CallRecord
        /\ ~Ended(c) /\ Audited(c) /\ VersionShown(c) /\ c \in DOMAIN audit /\ Kept
    BY BeforeStep
  <1>2. /\ call'[c].pc = "ended" /\ (call'[c].ran <=> outcome \in {"ok", "failed"})
        /\ call'[c].surface = call[c].surface /\ call'[c].op = call[c].op /\ call'[c].by = call[c].by
        /\ call'[c].project = call[c].project /\ call'[c].bound = call[c].bound
    BY <1>b, EndFields
  <1>3. call[c].surface = "mcp" /\ Alone(c)' => row.version = call[c].bound
    BY <1>b, <1>1, <1>2, AloneBefore DEF VersionShown
  <1>4. row.outcome = "denied" => ~call'[c].ran
    BY <1>1, <1>2
  <1>5. row.outcome = "ok" => call'[c].ran
    BY <1>1, <1>2
  <1>6. Audited(c)'
    BY <1>b, <1>1, <1>2, <1>3, <1>4, <1>5, EndsWithRow
  <1> QED BY <1>2, <1>6 DEF VersionShown, InFlight

\* A call goes one step on, and its context keeps its version.
LEMMA GoesOn ==
  ASSUME OneRowInv, NEW c \in Calls, Serve(c), audit' = audit,
         call[c].pc # "run", call'[c].pc # "ended", call'[c].bound = call[c].bound,
         call[c].surface = "mcp" => request'[call[c].by].version = request[call[c].by].version
  PROVE  Audited(c)' /\ VersionShown(c)'
  <1>b. /\ InFlight(c) /\ ~Ended(c) /\ Audited(c) /\ VersionShown(c) /\ Kept
        /\ call'[c].surface = call[c].surface /\ call'[c].by = call[c].by
    BY BeforeStep
  <1>1. Audited(c)'
    BY <1>b, NoRowYet
  <1>2. CASE call[c].surface = "mcp"
    BY <1>b, <1>1, <1>2, VersionKept
  <1>3. CASE call[c].surface # "mcp"
    BY <1>b, <1>1, <1>3 DEF VersionShown
  <1> QED BY <1>2, <1>3

LEMMA WebStepsOneRow ==
  ASSUME OneRowInv, NEW c \in Calls, Serve(c), Guard(c) \/ Route(c)
  PROVE  Audited(c)' /\ VersionShown(c)'
  <1>b. /\ AccessTypeOK /\ InFlight(c) /\ call[c] \in CallRecord
        /\ ~Ended(c) /\ Audited(c) /\ c \in DOMAIN audit /\ Kept
        /\ call'[c].surface = call[c].surface /\ call'[c].op = call[c].op
    BY BeforeStep
  <1>t. call \in [Calls -> {IdleCall} \cup CallRecord]
    BY <1>b DEF AccessTypeOK
  <1>w. call[c].surface = "web"
    <2>1. Serving(c, request[call[c].by])
      BY <1>b DEF OneRowInv, AccessInv, Sound
    <2> QED BY <1>b, <2>1 DEF Serving, McpCall, Guard, Route, Waiting, CallRecord
  <1>1. CASE Guard(c)
    <2>1. CASE End(c, "denied")
      BY <2>1, EndOneRow
    <2>2. CASE ~End(c, "denied")
      <3>1. call' = [call EXCEPT ![c].pc = "route"] /\ audit' = audit
        BY <1>1, <2>2 DEF Guard, Goto
      <3>2. call'[c].pc = "route" /\ call'[c].bound = call[c].bound
        BY <1>b, <1>t, <3>1 DEF CallRecord
      <3> QED BY <1>1, <1>w, <3>1, <3>2, GoesOn DEF Guard, Waiting
    <2> QED BY <2>1, <2>2
  <1>2. CASE Route(c)
    <2>1. PICK outcome \in {"ok", "failed", "error"} : \E served : Answer(c, outcome, served)
      BY <1>2 DEF Route
    <2>2. PICK served : Answer(c, outcome, served)
      BY <2>1
    <2> DEFINE ran == outcome # "error"
    <2>3. /\ ran <=> outcome # "error"
          /\ call' = [call EXCEPT ![c].pc = "ended", ![c].ran = ran, ![c].project = served]
      BY <2>2 DEF Answer
    <2> HIDE DEF ran
    <2>4. call'[c].pc = "ended" /\ call'[c].ran = ran
      BY <1>b, <1>t, <2>3 DEF CallRecord
    <2>5. CASE Reads(call[c].op)
      <3>1. audit' = audit
        BY <2>2, <2>5 DEF Answer
      <3> QED BY <1>b, <1>w, <2>4, <2>5, <3>1 DEF Audited, NoRow, Ended, VersionShown
    <2>6. CASE ~Reads(call[c].op)
      <3>1. PICK row : /\ row.outcome = IF outcome = "ok" THEN "ok" ELSE "error"
                       /\ audit' = [audit EXCEPT ![c] = Append(@, row)]
        <4> DEFINE row == AuditRow(request[call[c].by], None, IF outcome = "ok" THEN "ok" ELSE "error")
        <4>1. row.outcome = IF outcome = "ok" THEN "ok" ELSE "error"
          BY DEF AuditRow
        <4>2. audit' = [audit EXCEPT ![c] = Append(@, row)]
          BY <2>2, <2>6 DEF Answer, Note
        <4> HIDE DEF row
        <4> QED BY <4>1, <4>2
      <3>2. row.outcome # "denied" /\ (row.outcome = "ok" => ran)
        BY <2>3, <3>1
      <3>3. Audited(c)'
        BY <1>b, <1>w, <2>4, <2>6, <3>1, <3>2, EndsWithRow
      <3> QED BY <1>b, <1>w, <3>3 DEF VersionShown
    <2> QED BY <2>5, <2>6
  <1> QED BY <1>1, <1>2

LEMMA McpStepsOneRow ==
  ASSUME OneRowInv, NEW c \in Calls, Serve(c),
         Dispatch(c) \/ FindStore(c) \/ IdentifyAgain(c) \/ ResolveAgain(c) \/ Admit(c) \/ Bind(c) \/ Run(c)
  PROVE  Audited(c)' /\ VersionShown(c)'
  <1>b. /\ AccessTypeOK /\ InFlight(c) /\ call[c] \in CallRecord /\ call[c].by \in Requests
        /\ ~Ended(c) /\ ~call[c].ran /\ Audited(c) /\ VersionShown(c) /\ c \in DOMAIN audit /\ Kept
        /\ call'[c].surface = call[c].surface /\ call'[c].by = call[c].by
    BY BeforeStep
  <1>t. call \in [Calls -> {IdleCall} \cup CallRecord] /\ request \in [Requests -> RequestRecord]
    BY <1>b DEF AccessTypeOK
  <1>m. call[c].surface = "mcp"
    BY AtMcpStep DEF OneRowInv
  <1>1. CASE Dispatch(c)
    <2> DEFINE r == call[c].by
               init == call[c].op = "init_project"
               refusal == IF init /\ call[c].key = None THEN "error"
                          ELSE IF init /\ Permission(c) \notin request[r].principal THEN "denied"
                          ELSE "none"
               ctx == IF call[c].key = None THEN request[r] ELSE [request[r] EXCEPT !.projectKey = call[c].key]
    <2>1. /\ request' = [request EXCEPT ![r] = ctx]
          /\ call' = [call EXCEPT ![c].pc = IF refusal = "none" THEN "find" ELSE "ended", ![c].project = call[c].key]
          /\ audit' = IF refusal = "none" THEN audit
                      ELSE [audit EXCEPT ![c] = Append(@, AuditRow(ctx, call[c].key, refusal))]
      BY <1>1 DEF Dispatch
    <2>v. ctx.version = request[r].version /\ refusal \in {"none", "error", "denied"}
      BY <1>b, <1>t DEF RequestRecord
    <2> HIDE DEF refusal, ctx, init
    <2>2. /\ call'[c].pc = (IF refusal = "none" THEN "find" ELSE "ended") /\ call'[c].ran = call[c].ran
          /\ call'[c].project = call[c].key /\ call'[c].bound = call[c].bound
      BY <1>b, <1>t, <2>1 DEF CallRecord
    <2>3. CASE refusal = "none"
      <3>1. request'[r].version = request[r].version
        BY <1>b, <1>t, <2>1, <2>v
      <3>2. call'[c].pc = "find" /\ call'[c].bound = call[c].bound /\ audit' = audit /\ call[c].pc # "run"
        BY <1>1, <2>1, <2>2, <2>3 DEF Dispatch, Waiting
      <3> QED BY <3>1, <3>2, GoesOn
    <2>4. CASE refusal # "none"
      <3>1. PICK row : row = AuditRow(ctx, call[c].key, refusal)
        OBVIOUS
      <3>2. /\ row.outcome = refusal
            /\ call[c].key # None => row.project = call[c].key
        BY <3>1 DEF AuditRow
      <3>3. audit' = [audit EXCEPT ![c] = Append(@, row)]
        BY <2>1, <2>4, <3>1
      <3>4. Audited(c)'
        BY <1>b, <1>m, <2>2, <2>v, <2>4, <3>2, <3>3, EndsWithRow
      <3> QED BY <2>2, <2>4, <3>4 DEF VersionShown, InFlight
    <2> QED BY <2>3, <2>4
  <1>2. CASE FindStore(c)
    <2>1. CASE Target(c) = {}
      BY <1>2, <2>1, EndOneRow DEF FindStore
    <2>2. CASE Target(c) # {}
      <3>1. PICK p : call' = [call EXCEPT ![c].pc = "again", ![c].project = p]
        BY <1>2, <2>2 DEF FindStore
      <3>2. audit' = audit /\ request' = request
        BY <1>2, <2>2 DEF FindStore
      <3>3. call'[c].pc = "again" /\ call'[c].bound = call[c].bound
        BY <1>b, <1>t, <3>1 DEF CallRecord
      <3> QED BY <1>2, <3>2, <3>3, GoesOn DEF FindStore, Waiting
    <2> QED BY <2>1, <2>2
  <1>3. CASE IdentifyAgain(c)
    <2>1. CASE live
      <3>1. call' = [call EXCEPT ![c].pc = "roles"] /\ audit' = audit /\ request' = request
        BY <1>3, <2>1 DEF IdentifyAgain, Goto
      <3>2. call'[c].pc = "roles" /\ call'[c].bound = call[c].bound
        BY <1>b, <1>t, <3>1 DEF CallRecord
      <3> QED BY <1>3, <3>1, <3>2, GoesOn DEF IdentifyAgain, Waiting
    <2>2. CASE ~live
      BY <1>3, <2>2, EndOneRow DEF IdentifyAgain
    <2> QED BY <2>1, <2>2
  <1>4. CASE ResolveAgain(c)
    <2>1. PICK roles : call' = [call EXCEPT ![c].pc = "admit", ![c].roles = roles]
      BY <1>4 DEF ResolveAgain
    <2>2. call'[c].pc = "admit" /\ call'[c].bound = call[c].bound /\ audit' = audit /\ request' = request
      BY <1>b, <1>t, <1>4, <2>1 DEF CallRecord, ResolveAgain
    <2> QED BY <1>4, <2>2, GoesOn DEF ResolveAgain, Waiting
  <1>5. CASE Admit(c)
    <2> DEFINE r   == call[c].by
               ctx == [request[r] EXCEPT !.principal = call[c].roles, !.projectKey = call[c].project]
               ok  == Permission(c) \in Principal(c)
    <2>1. /\ request' = [request EXCEPT ![r] = ctx]
          /\ call' = [call EXCEPT ![c].pc = IF ok THEN "bind" ELSE "ended", ![c].roles = {}]
          /\ audit' = IF ok THEN audit
                      ELSE [audit EXCEPT ![c] = Append(@, AuditRow(ctx, call[c].project, "denied"))]
      BY <1>5 DEF Admit
    <2>v. ctx.version = request[r].version
      BY <1>b, <1>t DEF RequestRecord
    <2> HIDE DEF ctx, ok
    <2>2. /\ call'[c].pc = (IF ok THEN "bind" ELSE "ended") /\ call'[c].ran = call[c].ran
          /\ call'[c].project = call[c].project /\ call'[c].bound = call[c].bound
      BY <1>b, <1>t, <2>1 DEF CallRecord
    <2>3. CASE ok
      <3>1. request'[r].version = request[r].version
        BY <1>b, <1>t, <2>1, <2>v
      <3>2. call'[c].pc = "bind" /\ call'[c].bound = call[c].bound /\ audit' = audit /\ call[c].pc # "run"
        BY <1>5, <2>1, <2>2, <2>3 DEF Admit, Waiting
      <3> QED BY <3>1, <3>2, GoesOn
    <2>4. CASE ~ok
      <3>1. PICK row : row = AuditRow(ctx, call[c].project, "denied")
        OBVIOUS
      <3>2. /\ row.outcome = "denied"
            /\ call[c].project # None => row.project = call[c].project
        BY <3>1 DEF AuditRow
      <3>3. audit' = [audit EXCEPT ![c] = Append(@, row)]
        BY <2>1, <2>4, <3>1
      <3>4. Audited(c)'
        BY <1>b, <1>m, <2>2, <2>4, <3>2, <3>3, EndsWithRow
      <3> QED BY <2>2, <2>4, <3>4 DEF VersionShown, InFlight
    <2> QED BY <2>3, <2>4
  <1>6. CASE Bind(c)
    <2>1. CASE End(c, "error")
      BY <2>1, EndOneRow
    <2>2. CASE ~End(c, "error")
      <3>1. PICK v \in Versions \cup {None} :
               /\ call' = [call EXCEPT ![c].pc = "run", ![c].bound = v]
               /\ request' = [request EXCEPT ![call[c].by].version = IF v = None THEN @ ELSE v,
                                             ![call[c].by].projectKey = call[c].project]
               /\ UNCHANGED audit
        BY <1>6, <2>2, Zenon DEF Bind
      <3>2. call'[c].pc = "run" /\ call'[c].bound = v
        <4>1. PICK k : k = [call[c] EXCEPT !.pc = "run", !.bound = v]
          OBVIOUS
        <4>2. call'[c] = k
          BY <1>b, <1>t, <3>1, <4>1
        <4> QED BY <1>b, <4>1, <4>2 DEF CallRecord
      <3>3. request'[call[c].by].version = IF v = None THEN request[call[c].by].version ELSE v
        <4>1. PICK w : w = IF v = None THEN request[call[c].by].version ELSE v
          OBVIOUS
        <4>2. PICK q : q = [request[call[c].by] EXCEPT !.version = w, !.projectKey = call[c].project]
          OBVIOUS
        <4>3. request'[call[c].by] = q
          BY <1>b, <1>t, <3>1, <4>1, <4>2
        <4>4. q.version = w
          BY <1>b, <1>t, <4>2 DEF RequestRecord
        <4> QED BY <4>1, <4>3, <4>4
      <3>4. call[c].bound = None
        BY <1>b, <1>6, <1>m DEF Waiting, Bind, VersionShown
      <3>5. VersionShown(c)'
        BY <1>b, <1>m, <3>2, <3>3, <3>4, AloneBefore DEF VersionShown, InFlight
      <3>6. audit' = audit
        BY <3>1
      <3>7. Audited(c)'
        BY <1>b, <3>2, <3>6, NoRowYet
      <3> QED BY <3>5, <3>7
    <2> QED BY <2>1, <2>2
  <1>7. CASE Run(c)
    BY <1>7, <1>m, EndOneRow DEF Run
  <1> QED BY <1>1, <1>2, <1>3, <1>4, <1>5, <1>6, <1>7

-------------------------------------------------------------------------------
(* One row each: what happens around the calls.                             *)

LEMMA EventsOneRow ==
  ASSUME OneRowInv, Regrant \/ Revoke \/ ReopenSession \/ Stop
  PROVE  DOMAIN audit' = Calls \cup Requests /\ \A d \in Calls : Audited(d)' /\ VersionShown(d)'
  <1>t. /\ call \in [Calls -> {IdleCall} \cup CallRecord]
        /\ \A d \in Calls : call[d] # IdleCall => call[d] \in CallRecord
        /\ \A d \in Calls : Audited(d) /\ VersionShown(d)
        /\ DOMAIN audit = Calls \cup Requests
        /\ audit' = audit
    BY DEF OneRowInv, AccessInv, AccessTypeOK, Regrant, Revoke, ReopenSession, Stop
  <1>1. CASE Regrant \/ Revoke
    <2>0. call' = Watched
      BY <1>1 DEF Regrant, Revoke
    <2>1. request' = request
      BY <1>1 DEF Regrant, Revoke
    <2>w. \A c \in Calls : call'[c] = IF InFlight(c)
                                      THEN [call[c] EXCEPT !.sawLive = @ \/ live', !.sawGranted = @ \cup granted']
                                      ELSE call[c]
      BY <2>0, Zenon DEF Watched
    <2>2. ASSUME NEW d \in Calls
          PROVE  /\ call[d] # IdleCall => call'[d] # IdleCall /\ call'[d].by = call[d].by
                 /\ ~InFlight(d) => call'[d] = call[d]
                 /\ InFlight(d) => /\ call'[d].pc = call[d].pc /\ call'[d].surface = call[d].surface
                                   /\ call'[d].by = call[d].by /\ call'[d].bound = call[d].bound
      <3>1. CASE InFlight(d)
        <4>1. call[d] \in CallRecord
          BY <1>t, <3>1 DEF InFlight, IdleCall
        <4> DEFINE saw == call[d].sawLive \/ live'
        <4>2. call'[d] = [call[d] EXCEPT !.sawLive = saw, !.sawGranted = @ \cup granted']
          BY <2>w, <3>1, Zenon
        <4> HIDE DEF saw
        <4>3. /\ call'[d].pc = call[d].pc /\ call'[d].surface = call[d].surface
              /\ call'[d].by = call[d].by /\ call'[d].bound = call[d].bound
          BY <4>1, <4>2 DEF CallRecord
        <4> QED BY <3>1, <4>3 DEF InFlight, IdleCall
      <3>2. CASE ~InFlight(d)
        <4>1. call'[d] = call[d]
          BY <2>w, <3>2, Zenon
        <4> QED BY <3>2, <4>1
      <3> QED BY <3>1, <3>2
    <2>3. Kept
      BY <2>2 DEF Kept
    <2>4. ASSUME NEW d \in Calls
          PROVE  Audited(d)' /\ VersionShown(d)'
      <3>1. VersionShown(d)'
        BY <1>t, <2>1, <2>2, <2>3, VersionKept DEF InFlight
      <3>2. CASE InFlight(d)
        BY <1>t, <2>2, <3>1, <3>2, NoRowYet DEF InFlight, Ended
      <3>3. CASE ~InFlight(d)
        BY <1>t, <2>2, <2>3, <3>1, <3>3, RowKept
      <3> QED BY <3>2, <3>3
    <2> QED BY <1>t, <2>4
  <1>2. CASE ReopenSession
    <2>1. call' = call /\ request' = request
      BY <1>2 DEF ReopenSession
    <2>2. Kept
      BY <2>1 DEF Kept
    <2> QED BY <1>t, <2>1, <2>2, RowKept, VersionKept DEF InFlight
  <1>3. CASE Stop
    <2>1. \A d \in Calls : call'[d] = IF InFlight(d) THEN [call[d] EXCEPT !.pc = "lost"] ELSE call[d]
      BY <1>3 DEF Stop
    <2>2. ASSUME NEW d \in Calls, InFlight(d)
          PROVE  call'[d].pc = "lost" /\ call'[d].by = call[d].by
      <3>1. call[d] \in CallRecord
        BY <1>t, <2>2 DEF InFlight, IdleCall
      <3>2. call'[d] = [call[d] EXCEPT !.pc = "lost"]
        BY <2>1, <2>2
      <3> QED BY <3>1, <3>2 DEF CallRecord
    <2>3. Kept
      <3> SUFFICES ASSUME NEW d \in Calls, call[d] # IdleCall
                   PROVE  call'[d] # IdleCall /\ call'[d].by = call[d].by
        BY DEF Kept
      <3>1. CASE InFlight(d)
        BY <2>2, <3>1 DEF IdleCall
      <3>2. CASE ~InFlight(d)
        BY <2>1, <3>2
      <3> QED BY <3>1, <3>2
    <2>4. ASSUME NEW d \in Calls
          PROVE  Audited(d)' /\ VersionShown(d)'
      <3>1. CASE InFlight(d)
        BY <1>t, <2>2, <3>1, NoRowYet DEF VersionShown, InFlight, Ended
      <3>2. CASE ~InFlight(d)
        <4>1. call'[d] = call[d]
          BY <2>1, <3>2
        <4> QED BY <1>t, <2>3, <3>2, <4>1, RowKept DEF VersionShown, InFlight
      <3> QED BY <3>1, <3>2
    <2> QED BY <1>t, <2>4
  <1> QED BY <1>1, <1>2, <1>3

LEMMA NextOneRow == OneRowInv /\ [Next]_vars => OneRowInv'
  <1> SUFFICES ASSUME OneRowInv, [Next]_vars
               PROVE  OneRowInv'
    OBVIOUS
  <1>s. AccessInv'
    BY NextSound DEF OneRowInv
  <1>1. CASE UNCHANGED vars
    <2>1. Kept
      BY <1>1 DEF vars, Kept
    <2> QED BY <1>s, <1>1, <2>1, RowKept, VersionKept DEF vars, OneRowInv, InFlight
  <1>2. ASSUME NEW r \in Requests,
               Identify(r) \/ RefuseMcp(r) \/ RefuseWeb(r) \/ Resolve(r) \/ NoSession(r)
        PROVE  OneRowInv'
    BY <1>s, <1>2, RequestStepsOneRow DEF OneRowInv
  <1>3. ASSUME NEW r \in Requests,
               \/ \E c \in Calls, route \in Routes, key \in Projects \cup {None} : ArriveWeb(r, c, route, key)
               \/ \E asked : ArriveMcp(r, asked)
        PROVE  OneRowInv'
    BY <1>s, <1>3, ArrivalsOneRow DEF OneRowInv
  <1>4. ASSUME NEW c \in Calls, Serve(c)
        PROVE  OneRowInv'
    <2>1. DOMAIN audit' = Calls \cup Requests
      BY <1>4, CallStepsRows
    <2>2. Audited(c)' /\ VersionShown(c)'
      BY <1>4, WebStepsOneRow, McpStepsOneRow DEF Serve
    <2>3. \A d \in Calls \ {c} : Audited(d)' /\ VersionShown(d)'
      BY <1>4, CallStepsOthersOneRow
    <2> QED BY <1>s, <2>1, <2>2, <2>3 DEF OneRowInv
  <1>5. CASE Regrant \/ Revoke \/ ReopenSession \/ Stop
    BY <1>s, <1>5, EventsOneRow DEF OneRowInv
  <1> QED BY <1>1, <1>2, <1>3, <1>4, <1>5 DEF Next

LEMMA InvImpliesOneRow == OneRowInv => OneRowEach
  <1> SUFFICES ASSUME OneRowInv, NEW c \in Calls
               PROVE  /\ Len(audit[c]) <= 1
                      /\ Ended(c) /\ call[c].surface = "mcp" => Len(audit[c]) = 1
                      /\ Ended(c) /\ call[c].ran /\ call[c].surface = "web" => (Len(audit[c]) = 1 <=> ~Reads(call[c].op))
                      /\ Ended(c) /\ call[c].ran /\ audit[c] # <<>> => audit[c][1].outcome # "denied"
                      /\ Ended(c) /\ ~call[c].ran /\ audit[c] # <<>> => audit[c][1].outcome # "ok"
                      /\ Ended(c) /\ call[c].surface = "mcp" /\ call[c].project # None =>
                             /\ audit[c][1].project = call[c].project
                             /\ Alone(c) /\ call[c].ran => audit[c][1].version = call[c].bound
    BY DEF OneRowEach
  <1>1. CASE NoRow(c)
    <2>1. audit[c] = <<>> /\ Len(audit[c]) = 0
      BY <1>1 DEF NoRow
    <2> QED BY <1>1, <2>1 DEF NoRow
  <1>2. CASE ~NoRow(c)
    <2>1. PICK row : RowOf(c, row)
      BY <1>2 DEF OneRowInv, Audited
    <2>2. Len(audit[c]) = 1 /\ audit[c][1] = row /\ Ended(c)
      BY <1>2, <2>1 DEF RowOf, OneRowInv, Audited
    <2> QED BY <2>1, <2>2 DEF RowOf
  <1> QED BY <1>1, <1>2

\* Every tool call and every write that ended handed one audit row over, whatever the
\* other calls of its request did to the context they share: the outcome agrees
\* with what ran, the project is the call's own, and the version too where the
\* call was alone.
THEOREM AlwaysOneRowEach == Spec => []OneRowEach
  BY InitOneRow, NextOneRow, InvImpliesOneRow, PTL DEF Spec

===============================================================================
