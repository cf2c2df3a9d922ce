----------------------------- MODULE Dashboard ------------------------------
(***************************************************************************)
(* One browser tab: the project, version and phase it looks at, the        *)
(* requests its panels have in flight, and the live stream.                *)
(*                                                                         *)
(* A response is applied to its panel whenever it comes: nothing ties it   *)
(* to what the tab looks at by then.  Responses overtake each other and    *)
(* fail.  Panels that a switch loads together are one panel: lists stands  *)
(* for requirements, stories, components and phases, coverage for coverage *)
(* and gaps, summary for config and summary.  The user's deletions, a run  *)
(* and a tick load only some of these, so such a load does not make up for *)
(* one that was lost, or for a change that was missed, before it.  The     *)
(* traceability chain is loaded when its tab is first opened, and has a    *)
(* phase filter of its own.  The content of a version is its number of     *)
(* edits.                                                                  *)
(***************************************************************************)
EXTENDS Naturals, Sequences, FiniteSets

CONSTANTS First,           \* the project the tab opens on
          VersionsOf,      \* [project -> its versions]
          Current,         \* [project -> the version an unversioned request reads]
          ActivePhase,     \* [project -> phase, or None]
          PhasesOf,        \* [project -> its phases]
          MaxEvents,       \* bound on the user's moves, others' writes, failures and overtakings together
          MaxEdits,        \* [project -> bound on the writes of each of its versions]
          None, All        \* no phase chosen yet, all phases chosen (for the chain)

Projects == DOMAIN VersionsOf
Versions == UNION {VersionsOf[p] : p \in Projects}
PhaseNames == {None} \cup UNION {PhasesOf[p] : p \in Projects}
Panels == {"summary", "lists", "coverage"}
Requests == Panels \cup {"versions", "chain"}
Dated == {"summary", "lists"}      \* whose edits the properties compare

\* What a panel shows: the content read, for which phase, and for those of Dated
\* how often it was written by then.
Answers == [content : Projects \X Versions, phase : PhaseNames, edits : Nat]

ASSUME DashboardAssumption ==
    /\ First \in Projects
    /\ \A p \in Projects : Current[p] \in VersionsOf[p] /\ ActivePhase[p] \in {None} \cup PhasesOf[p]
    /\ All \notin PhaseNames /\ None \notin Versions \cup Answers
    /\ \A p \in Projects : None \notin PhasesOf[p]

VARIABLES edits,     \* [content -> how often it was written]
          view,      \* what the tab looks at; versions is the list it knows
          shown,     \* [Panels -> the response it shows]
          chain,     \* the response the chain shows, None before the first
          flight,    \* [Requests -> those without an answer, in the order they were asked]
          stream,    \* the scope the live stream was opened on
          events,    \* how many of these there were
          lost,      \* history: requests one of which failed or was overtaken, and was not made up for
          swallowed, \* history: a summary not loaded before the lists may have hidden a change from the stream
          crossed    \* history: what an answer for a project that was left has changed

vars == <<edits, view, shown, chain, flight, stream, events, lost, swallowed, crossed>>

-----------------------------------------------------------------------------
\* apiUrl: a version is named only when the tab knows of several.
Scope(w) == <<w.project, IF Cardinality(w.versions) > 1 THEN w.version ELSE None>>

\* What a request of that scope reads (resolveStore); an unknown version fails.
Content(scope) == <<scope[1], IF scope[2] = None THEN Current[scope[1]] ELSE scope[2]>>
Contents == {c \in Projects \X Versions : c[2] \in VersionsOf[c[1]]}

\* The phase filter of a request; the key that says which slice the chain shows.
ChainPhase(w) == IF w.trace = All THEN None ELSE w.trace
PhaseFor(r, w) == CASE r = "coverage" -> w.phase [] r = "chain" -> ChainPhase(w) [] OTHER -> None

(***************************************************************************)
(* A request: what is read can be as old as since; task is what waits for  *)
(* the answer, a switch with the number it has among the events, or none.  *)
(***************************************************************************)
NoTask == <<"none", 0>>
Ask(r, w, task) ==
    [scope |-> Scope(w), phase |-> PhaseFor(r, w), task |-> task, late |-> FALSE,
     since |-> IF Content(Scope(w)) \in Contents /\ r \in Dated THEN edits[Content(Scope(w))] ELSE 0]

\* The flight once the requests in asked were sent by a tab that looks at w.
SentFor(f, asked, w, task) == [r \in Requests |-> IF r \in asked THEN Append(f[r], Ask(r, w, task)) ELSE f[r]]
Sent(f, asked, w) == SentFor(f, asked, w, NoTask)

\* What waits for the answers goes on: switchProject asks for the summary, then
\* for the rest, then for the chain if its tab is open; switchVersion loads the
\* chain again if there was one.
Awaited(f, task) == \E r \in Requests : \E n \in DOMAIN f[r] : f[r][n].task = task
GoesOn(f, r, task, w) ==
    CASE task = NoTask -> f
      [] task[1] = "project" /\ r = "versions" -> SentFor(f, {"summary"}, w, task)
      [] task[1] = "project" /\ r = "summary" -> SentFor(f, {"lists", "coverage"}, w, task)
      [] task[1] = "project" /\ r \in {"lists", "coverage"} ->
            IF ~Awaited(f, task) /\ w.tab = "chain" THEN Sent(f, {"chain"}, w) ELSE f
      [] task[1] = "version" -> IF ~Awaited(f, task) /\ chain # None THEN Sent(f, {"chain"}, w) ELSE f

Answer(scope, phase, n) == [content |-> Content(scope), phase |-> phase, edits |-> n]

\* bootDashboard has run: a project is in view and all is loaded.
Init ==
    LET w == [project |-> First, version |-> Current[First], versions |-> VersionsOf[First],
              phase |-> ActivePhase[First], trace |-> ActivePhase[First], tab |-> "other"] IN
    /\ view = w
    /\ edits = [c \in Contents |-> 0]
    /\ shown = [x \in Panels |-> Answer(Scope(w), IF x = "coverage" THEN w.phase ELSE None, 0)]
    /\ chain = None
    /\ flight = [r \in Requests |-> <<>>]
    /\ stream = Scope(w)
    /\ events = 0
    /\ lost = {}
    /\ swallowed = FALSE
    /\ crossed = {}

-----------------------------------------------------------------------------
Counted == events < MaxEvents /\ events' = events + 1

Others ==
    /\ Counted
    /\ \E c \in Contents : edits[c] < MaxEdits[c[1]] /\ edits' = [edits EXCEPT ![c] = @ + 1]
    /\ UNCHANGED <<view, shown, chain, flight, stream, lost, swallowed, crossed>>

\* The chain is not asked for again, so an answer under way is an old one.
Late(req) == [req EXCEPT !.late = TRUE]
AllLate(asked) == [n \in DOMAIN asked |-> Late(asked[n])]
Overlooked(f) == [f EXCEPT !["chain"] = AllLate(f["chain"])]

\* As WithPhase, but the panel is not loaded again.
WithPhaseQuietly(f, w, phase) == f

\* The watcher of coveragePhase: a change of phase loads the coverage again.
WithPhase(f, w, phase) == IF phase = w.phase THEN f ELSE Sent(f, {"coverage"}, [w EXCEPT !.phase = phase])

\* Up to its first await: everything of the old project is dropped, its phase
\* too, and the watcher of that loads the coverage.
SwitchProject(p) ==
    /\ Counted
    /\ p # view.project
    /\ LET w == [project |-> p, version |-> None, versions |-> {}, phase |-> None, trace |-> None, tab |-> view.tab]
           f == WithPhase(Overlooked(flight), [w EXCEPT !.phase = view.phase], None)
       IN  view' = w /\ flight' = SentFor(f, {"versions"}, w, <<"project", events>>)
    /\ chain' = None
    /\ crossed' = {}
    /\ UNCHANGED <<edits, shown, stream, lost, swallowed>>

SwitchVersion(v) ==
    /\ Counted
    /\ v \in view.versions \ {view.version}
    /\ LET w == [view EXCEPT !.version = v]
       IN  /\ view' = w
           /\ stream' = Scope(w)
           /\ flight' = SentFor(IF chain = None THEN Overlooked(flight) ELSE flight,
                               Panels, w, <<"version", events>>)
    /\ swallowed' = FALSE
    /\ UNCHANGED <<edits, shown, chain, lost, crossed>>

\* The watcher of tracePhase: a chain that is there is loaded again, unless it
\* shows that phase already.
WithTrace(f, w, trace) ==
    LET phase == ChainPhase([w EXCEPT !.trace = trace]) IN
    CASE trace = w.trace -> f
      [] trace # w.trace /\ chain # None /\ chain.phase # phase -> Sent(f, {"chain"}, [w EXCEPT !.trace = trace])
      [] OTHER -> Overlooked(f)

Watched(f, w) == WithTrace(WithPhase(f, view, w.phase), view, w.trace)

PickPhase(phase) ==
    /\ Counted
    /\ phase # view.phase
    /\ view' = [view EXCEPT !.phase = phase]
    /\ flight' = WithPhase(flight, view, phase)
    /\ UNCHANGED <<edits, shown, chain, stream, lost, swallowed, crossed>>

PickTrace(trace) ==
    /\ Counted
    /\ view.tab = "chain" /\ trace # view.trace
    /\ view' = [view EXCEPT !.trace = trace]
    /\ flight' = WithTrace(flight, view, trace)
    /\ UNCHANGED <<edits, shown, chain, stream, lost, swallowed, crossed>>

\* The versions tab, and the one of the chain.
OpenVersions ==
    /\ Counted
    /\ view' = [view EXCEPT !.tab = "other"]
    /\ flight' = Sent(flight, {"versions"}, view)
    /\ UNCHANGED <<edits, shown, chain, stream, lost, swallowed, crossed>>

OpenChain ==
    /\ Counted
    /\ view.tab # "chain"
    /\ view' = [view EXCEPT !.tab = "chain"]
    /\ flight' = IF chain # None /\ chain.phase = ChainPhase(view) THEN flight ELSE Sent(flight, {"chain"}, view)
    /\ UNCHANGED <<edits, shown, chain, stream, lost, swallowed, crossed>>

\* deletePhaseItem and deleteRequirementItem load the lists they changed, the
\* coverage and the summary; executeScenario only the summary.
Act(asked) ==
    /\ Counted
    /\ LET c == Content(Scope(view)) IN
       c \in Contents /\ edits[c] < MaxEdits[c[1]] /\ edits' = [edits EXCEPT ![c] = @ + 1]
    /\ flight' = [r \in Requests |->
                    IF r \in asked THEN Append(flight[r], [Ask(r, view, NoTask) EXCEPT !.since = IF r \in Dated THEN @ + 1 ELSE @]) ELSE flight[r]]
    /\ UNCHANGED <<view, shown, chain, stream, lost, swallowed, crossed>>

-----------------------------------------------------------------------------
\* The n-th request of a panel is answered: those asked before it are late now.
InTurn(n) == IF n = 1 THEN UNCHANGED events ELSE Counted
Answered(asked, n) == [m \in 1..Len(asked) - 1 |-> IF m < n THEN Late(asked[m]) ELSE asked[m + 1]]
Without(r, n) == [flight EXCEPT ![r] = Answered(flight[r], n)]

Heard(r, req) ==
    lost' = IF req.late THEN lost \cup {r} ELSE IF r \in Panels /\ req.task = NoTask THEN lost ELSE lost \ {r}
Shows(x, req, n) == shown' = [shown EXCEPT ![x] = Answer(req.scope, req.phase, n)]
Readable(req) == Content(req.scope) \in Contents

\* loadVersions; for switchProject the stream is then opened again.  The baseline
\* is chosen only when none is.
VersionsLoaded(n) ==
    LET req == flight["versions"][n]
        p == req.scope[1]
        w == [view EXCEPT !.versions = VersionsOf[p],
                          !.version = IF view.version = None THEN Current[p] ELSE view.version] IN
    /\ view' = w
    /\ Heard("versions", req)
    /\ crossed' = IF p = view.project THEN crossed ELSE crossed \cup {"versions"}
    /\ stream' = IF req.task = NoTask THEN stream ELSE Scope(w)
    /\ flight' = GoesOn(Without("versions", n), "versions", req.task, w)
    /\ InTurn(n) /\ UNCHANGED <<edits, shown, chain, swallowed>>

\* loadSummary seeds the phases that are not chosen yet.
SummaryLoaded(n) ==
    LET req == flight["summary"][n]
        Seeded(phase) == IF phase = None THEN ActivePhase[req.scope[1]] ELSE phase
        w == [view EXCEPT !.phase = Seeded(view.phase), !.trace = Seeded(view.trace)] IN
    /\ Readable(req)
    /\ \E k \in req.since..edits[Content(req.scope)] :
          /\ Shows("summary", req, k)
          /\ swallowed' = (req.task[1] # "project"
                           /\ (swallowed \/ shown["summary"] # Answer(req.scope, req.phase, k)))
    /\ view' = w
    /\ Heard("summary", req)
    /\ crossed' = IF req.scope[1] = view.project \/ w = view THEN crossed ELSE crossed \cup {"phase"}
    /\ flight' = GoesOn(Watched(Without("summary", n), w), "summary", req.task, w)
    /\ InTurn(n) /\ UNCHANGED <<edits, chain, stream>>

\* loadPhases drops a phase that is not among those it shows, those of p
\* (syncCoveragePhaseSelect, syncTracePhaseSelect).
Synced(p) ==
    LET Kept(phase) == IF phase \in PhasesOf[p] \cup {All} THEN phase ELSE None IN
    [view EXCEPT !.phase = Kept(view.phase), !.trace = Kept(view.trace)]

ListsLoaded(n) ==
    LET req == flight["lists"][n]
        w == Synced(req.scope[1]) IN
    /\ Readable(req)
    /\ \E k \in req.since..edits[Content(req.scope)] : Shows("lists", req, k)
    /\ view' = w
    /\ Heard("lists", req)
    /\ crossed' = IF req.scope[1] = view.project THEN crossed \ {"phase"} ELSE crossed
    /\ flight' = GoesOn(Watched(Without("lists", n), w), "lists", req.task, w)
    /\ InTurn(n) /\ UNCHANGED <<edits, chain, stream, swallowed>>

CoverageLoaded(n) ==
    LET req == flight["coverage"][n] IN
    /\ Readable(req)
    /\ Shows("coverage", req, 0)
    /\ Heard("coverage", req)
    /\ flight' = GoesOn(Without("coverage", n), "coverage", req.task, view)
    /\ InTurn(n) /\ UNCHANGED <<edits, view, chain, stream, swallowed, crossed>>

ChainLoaded(n) ==
    LET req == flight["chain"][n] IN
    /\ Readable(req)
    /\ chain' = Answer(req.scope, req.phase, 0)
    /\ Heard("chain", req)
    /\ flight' = Without("chain", n)
    /\ InTurn(n) /\ UNCHANGED <<edits, view, shown, stream, swallowed, crossed>>

\* _fetch returns null: the panel keeps what it shows, what waited goes on.
\* loadPhases then takes the phases it shows for those of the project.
Fails(r, n) ==
    LET req == flight[r][n]
        w == IF r = "lists" THEN Synced(shown["lists"].content[1]) ELSE view IN
    /\ Counted
    /\ lost' = lost \cup {r}
    /\ view' = w
    /\ stream' = IF r = "versions" /\ req.task # NoTask THEN Scope(view) ELSE stream
    /\ flight' = GoesOn(Watched(Without(r, n), w), r, req.task, w)
    /\ UNCHANGED <<edits, shown, chain, swallowed, crossed>>

\* As Changed, but the summary is compared once it was replaced.
ChangedAfter(new, old) == FALSE

\* Which panels a tick loads: those whose fingerprint differs.
Changed(new, old) == new.content # old.content \/ new.edits # old.edits

\* A message of the stream.  One of another scope than the panels' is dropped,
\* and the stream opened again; else it is the new summary.
Tick ==
    LET new == Answer(stream, None, edits[Content(stream)]) IN
    IF stream # Scope(view)
    THEN stream' = Scope(view) /\ UNCHANGED <<edits, view, shown, chain, flight, events, lost, swallowed, crossed>>
    ELSE /\ Content(stream) \in Contents
         /\ shown' = [shown EXCEPT !["summary"] = new]
         /\ IF Changed(new, shown["summary"])
            THEN flight' = Sent(flight, {"lists", "coverage"} \cup (IF chain = None THEN {} ELSE {"chain"}), view)
            ELSE UNCHANGED flight
         /\ UNCHANGED <<edits, view, chain, stream, events, lost, swallowed, crossed>>

Next ==
    \/ Others
    \/ \E p \in Projects : SwitchProject(p)
    \/ \E v \in Versions : SwitchVersion(v)
    \/ \E phase \in {None} \cup PhasesOf[view.project] : PickPhase(phase)
    \/ \E trace \in {All} \cup PhasesOf[view.project] : PickTrace(trace)
    \/ OpenVersions \/ OpenChain
    \/ Act({"lists", "coverage", "summary"})
    \/ Act({"summary"})
    \/ \E n \in DOMAIN flight["versions"] : VersionsLoaded(n)
    \/ \E n \in DOMAIN flight["summary"] : SummaryLoaded(n)
    \/ \E n \in DOMAIN flight["lists"] : ListsLoaded(n)
    \/ \E n \in DOMAIN flight["coverage"] : CoverageLoaded(n)
    \/ \E n \in DOMAIN flight["chain"] : ChainLoaded(n)
    \/ \E r \in Requests : \E n \in DOMAIN flight[r] : Fails(r, n)
    \/ Tick

Spec == Init /\ [][Next]_vars
=============================================================================
