------------------------------- MODULE Surfaces -----------------------------
(***************************************************************************)
(* What the tools and the routes answer about coverage.  The web interface *)
(* and the agents read the same tables through different code: each answer *)
(* is written here as its tool or route computes it.  The current phase,   *)
(* the active one or else the last, is an argument; None is no phase, that *)
(* is all of them.  Modes are given: left out, a tool's is cumulative and  *)
(* a route's strict.                                                       *)
(***************************************************************************)
EXTENDS Reports

resolvePhaseId(phase, current) == IF phase = Absent THEN current ELSE phase

\* coverage_report and find_gaps
coverage_report(phase, mode, current) == Summary(resolvePhaseId(phase, current), mode)
find_gaps(phase, mode, current) == Gaps(resolvePhaseId(phase, current), mode)
\* coverage_trend, a report for each phase
coverage_trend(mode) == [p \in Phases |-> coverage_report(p, mode, None)]

\* The routes take an empty phase for all phases, which no tool can ask for.
RoutePhase(param, current) == IF param = Absent THEN current ELSE param
api_coverage(param, mode, current) == Summary(RoutePhase(param, current), mode)
api_gaps(param, mode, current) == Gaps(RoutePhase(param, current), mode)
api_traceability(param, mode, current) == TraceSummary(RoutePhase(param, current), mode)

\* list_requirements, search_requirements, list_user_stories and
\* search_user_stories: by phase, an exact match; the text is left out.
list_requirements(phase) == {r \in Reqs : phaseOf[r] = phase}
list_user_stories(phase) == {s \in Stories : \E r \in traces[s] : phaseOf[r] = phase}

\* get_requirement
linkedStories(r) == {s \in Stories : r \in traces[s]}

\* The pages of one item show statuses in the current phase, cumulative.
LatestAsOf(current) == LatestRuns(current, "cumulative")

\* get_user_story
get_user_story(s, latest) == [linkedScenarios |-> [sc \in ScenariosOf(s) |-> Status(latest, sc)]]

\* GET /api/story, for the page of a story: from the feature files alone
api_story(s, latest) == [scenarios |-> [sc \in {x \in OnDisk : s \in DiskTags[x]} |-> Status(latest, sc)]]

\* GET /api/stories/:id/scenarios: stored ones alone
api_story_scenarios(s) == {sc \in StoredScenarios : s \in tags[sc]}

LinksOnDisk ==
    [linked |-> [s \in Stories |-> {sc \in OnDisk : s \in DiskTags[sc]}],
     danglingTags |-> {d \in OnDisk \X {Lost} : d[2] \in DiskTags[d[1]]}]
\* list_links
list_links ==
    IF StoredScenarios = {} THEN LinksOnDisk
    ELSE [linked |-> [s \in Stories |-> {sc \in StoredScenarios : s \in tags[sc]}],
          danglingTags |-> {d \in StoredScenarios \X {Lost} : d[2] \in tags[d[1]]}]

\* list_scenarios and GET /api/scenarios: an empty set of stories or of
\* requirements restricts nothing.
list_scenarios(stories, reqs, phase, mode) ==
    {sc \in Filtered(phase, mode) :
        /\ stories # {} => tags[sc] \cap stories # {}
        /\ reqs # {} => \E s \in tags[sc] \cap Stories : traces[s] \cap reqs # {}}

api_scenarios(stories, reqs, phase, mode) == list_scenarios(stories, reqs, phase, mode)

\* requirementIdsForScenario, in both
requirementIds(sc) == UNION {traces[s] : s \in tags[sc] \cap Stories}

\* get_scenario
get_scenario(sc, latest) == Status(latest, sc)

\* list_vcs_refs by kind, state and story
list_vcs_refs(kind, states, s) ==
    {ref \in kind : refs[ref] # None /\ refs[ref].state \in states /\ s \in refs[ref].stories}

\* computeSummary shows beside the reports (Summary, DeliveredCoverage,
\* CountsByPhase, coverage_trend) the scenarios that pass and those that are
\* linked, each counted once however many stories it is tagged with.
scenariosPassingDistinct ==
    LET latest == LatestRuns(None, "cumulative")
    IN  {sc \in StoredScenarios : Status(latest, sc) = "pass"}
scenariosLinkedDistinct == {sc \in Scenarios : TagsOf(sc) # {}}
=============================================================================
