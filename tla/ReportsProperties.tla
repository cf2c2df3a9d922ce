-------------------------- MODULE ReportsProperties -------------------------
(***************************************************************************)
(* What a reader of the reports relies on: the reports agree with one      *)
(* another and with the log, a run moves them only where it may, and moving *)
(* the scenarios into the store does not move them.                        *)
(***************************************************************************)
EXTENDS Surfaces

Views == {<<None, "cumulative">>} \cup (Phases \X Modes)

\* The run a report shows for a scenario is the last one, by its own time, of
\* the last phase in view that has any: a run recorded late in an earlier phase,
\* or stamped by a clock that is behind, never hides it.  Phases of equal order
\* are taken in either order (resolveLatestRuns).
LatestWins ==
    \A v \in Views :
        LET latest == LatestRuns(v[1], v[2])
        IN  \A sc \in Scenarios :
                LET inView == {i \in DOMAIN log : /\ log[i].sc = sc
                                                  /\ log[i].phase \in Phases
                                                  /\ InScope(log[i].phase, v[1], v[2])}
                    i == latest[sc]
                IN  IF inView = {} THEN i = 0
                    ELSE /\ i \in inView
                         /\ \A j \in inView : IF log[j].phase = log[i].phase THEN NotLater(j, i)
                                              ELSE PhaseOrder[log[j].phase] <= PhaseOrder[log[i].phase]

\* An active requirement that is not verified has its reason among the gaps, and
\* a verified one has none: the gap list and the report never disagree
\* (findGaps, buildReport).
GapsExplain ==
    \A v \in Views :
        LET verified == VerifiedReqs(v[1], v[2])
            gaps == Gaps(v[1], v[2])
        IN  \A r \in ReqsIn(v[1], v[2]) \cap active :
                r \in verified
                <=> /\ r \notin gaps.noStory
                    /\ \A s \in Stories : r \in traces[s] => s \notin gaps.noScenario \cup gaps.notCovered

\* The scenario list of a phase and the traceability chain of that phase, built
\* by two algorithms, hold the same stored scenarios, tags that lead nowhere
\* aside; and the chain's counts add up (filterScenarios, buildTraceability).
ChainIsWhole ==
    \A v \in Views \cap (Phases \X Modes) :
        /\ Filtered(v[1], v[2])
             = {sc \in StoredScenarios : TraceStories(sc, v[1], v[2]) \ {Lost} # {}}
        /\ LET t == TraceSummary(v[1], v[2])
           IN  t.scenarios = t.neverRun + t.failing + t.pending + t.passing

\* A column of the phase table, the Unassigned row included.
Counted(column) == SumFunction([p \in {None} \cup Phases |-> CountsByPhase[p][column]])

\* The tools and the routes tell one story: what is listed under a phase is what
\* its strict report is about, and the phase table counts each item once; a
\* requirement's scenarios are the same whether reached through its stories, by
\* the filter or from the scenario; a story shows the scenarios that the links,
\* the gaps and the counts are computed from; a scenario shows the status the
\* chain gives it; a story's merge request is a merged one if one is listed; a
\* phase left out is the current one everywhere, and the report, the gaps and
\* the chain count the same.  The page of a story joins in only while no
\* scenario is stored (web-api.ts, index.ts).
SurfacesAgree ==
    LET links == list_links.linked
    IN  /\ \A p \in Phases : /\ list_requirements(p) = ReqsIn(p, "strict")
                             /\ list_user_stories(p) = StoriesIn(p, "strict")
                             /\ CountsByPhase[p].requirements = Cardinality(list_requirements(p))
        /\ Counted("stories") = Cardinality(Stories)
        /\ Counted("scenarios") = Cardinality(StoredScenarios)
        /\ \A r \in Reqs : linkedStories(r) = StoriesOf(r, None, "cumulative")
        /\ \A s \in Stories :
              /\ MrOf(s) # 0 <=> list_vcs_refs(Mrs, RefStates, s) # {}
              /\ MrOf(s) \in list_vcs_refs(Mrs, {"merged"}, s) <=> list_vcs_refs(Mrs, {"merged"}, s) # {}
        /\ api_gaps(None, "cumulative", None).noScenario = {s \in Stories : links[s] = {}}
        /\ StoredScenarios # {} =>
              /\ \A r \in Reqs :
                    /\ list_scenarios({}, {r}, None, "strict") = {sc \in StoredScenarios : r \in requirementIds(sc)}
                    /\ list_scenarios({}, {r}, None, "strict") = UNION {links[s] : s \in linkedStories(r)}
              /\ \A s \in Stories : api_story_scenarios(s) = list_scenarios({s}, {}, None, "strict")
              /\ \A s \in Stories : api_story_scenarios(s) = links[s]
              /\ TraceScenarios(None, "cumulative") = scenariosLinkedDistinct
              /\ TraceSummary(None, "cumulative").passing =
                    Cardinality(scenariosPassingDistinct \cap scenariosLinkedDistinct)
        /\ \A current \in Phases :
              LET latest == LatestAsOf(current)
                  shown == [s \in Stories |-> get_user_story(s, latest).linkedScenarios]
                  inScope == StoriesIn(current, "cumulative")
                  report == api_coverage(current, "cumulative", None)
                  gaps == find_gaps(Absent, "cumulative", current)
                  traced == api_traceability(Absent, "cumulative", current)
              IN  /\ \A s \in Stories : DOMAIN shown[s] = links[s]
                  /\ report = coverage_report(Absent, "cumulative", current)
                  /\ traced.withoutScenario = Cardinality(gaps.noScenario)
                  /\ traced.notCovered = Cardinality(gaps.notCovered)
                  /\ report.stories = report.covered + traced.withoutScenario + traced.notCovered
                  /\ api_scenarios({}, {}, current, "cumulative")
                        \subseteq TraceScenarios(current, "cumulative")
                  /\ StoredScenarios = {} => \A s \in Stories : api_story(s, latest).scenarios = shown[s]
                  /\ report.covered =
                        Cardinality({s \in inScope : links[s] # {} /\ \A sc \in links[s] : shown[s][sc] = "pass"})
                  /\ \A sc \in TraceScenarios(current, "cumulative") :
                        TraceStatus(sc, latest) \in Statuses => get_scenario(sc, latest) = TraceStatus(sc, latest)

\* Taking the scenarios over from the feature files leaves every report as it
\* was: an import that had the table to itself, and was told to take malformed
\* ones or met none, ends with each story linked to what the files link it to
\* (import_scenarios_from_features, resolveScenariosByStory).
MigrationIsWhole ==
    [][(/\ ImportDone /\ importing' = None
        /\ importing.alone
        /\ importing.force \/ OnDisk \cap Malformed = {})
       => \A sc \in OnDisk : TagsOf(sc) = DiskTags[sc]]_vars

\* A run recorded in a phase changes no report of an earlier phase, nor the
\* strict report of another one, nor what is verified of the delivered scope
\* (feedingPhases, computeDeliveredCoverage).
RunsStayInPhase ==
    [][Len(log') > Len(log) =>
          LET p == log'[Len(log')].phase
          IN  \A v \in Phases \X Modes :
                 (IF v[2] = "strict" \/ p \notin Phases THEN p # v[1] ELSE PhaseOrder[v[1]] < PhaseOrder[p])
                 => /\ coverage_trend(v[2])'[v[1]] = coverage_trend(v[2])[v[1]]
                    /\ v[2] = "cumulative" => DeliveredCoverage(v[1])' = DeliveredCoverage(v[1])]_vars
=============================================================================
