------------------------------- MODULE Reports ------------------------------
(***************************************************************************)
(* The coverage reports: from requirements, stories, scenarios and the log *)
(* of test runs to what is covered, verified and missing, per phase.       *)
(*                                                                         *)
(* The reports are functions of the tables, and are written here as such;  *)
(* the behaviours record runs, edit scenarios, take scenarios over from    *)
(* feature files and record merge requests.  The tables start as any the   *)
(* choices allow.  Run times are those of the host that recorded the run,  *)
(* so a run may be older than one logged before it.  Titles, priorities,   *)
(* contents, tag expressions and percentages are left out.                 *)
(***************************************************************************)
EXTENDS Scope, Sequences, FiniteSets, SequencesExt, FiniteSetsExt

CONSTANTS Reqs, Scenarios,
          Lost,           \* a story id of a tag that names no story
          MayRetire,      \* requirements that may be other than active
          PhaseChoices,   \* [Reqs -> the phases it may be assigned to]
          LinkChoices,    \* [Stories -> the requirement sets it may trace to]
          TagChoices,     \* [Scenarios -> the story sets it may be tagged with]
          DiskTags,       \* [Scenarios -> its tags in the feature files], None if in no file
          Malformed,      \* scenarios whose text in the files is not valid gherkin
          Mrs, Branches,  \* numbers of merge requests, names of branches
          RefChoices,     \* the story sets they may name
          Delivered,      \* phases that are active or completed
          Times, MaxEvents

ASSUME LostAssumption == Lost \notin Stories \cup Phases
ASSUME MrsAssumption == Mrs \subseteq Nat \ {0} /\ IsFiniteSet(Mrs)
ASSUME FiniteAssumption == IsFiniteSet(Phases) /\ IsFiniteSet(Stories) /\ IsFiniteSet(Scenarios)
ASSUME ScenariosAssumption == None \notin Scenarios /\ Times \subseteq Nat
ASSUME ChoicesAssumption ==
    /\ PhaseChoices \in [Reqs -> SUBSET (Phases \cup {None, Lost})]
    /\ LinkChoices \in [Stories -> SUBSET SUBSET Reqs]
    /\ TagChoices \in [Scenarios -> SUBSET SUBSET (Stories \cup {Lost})]
    /\ DiskTags \in [Scenarios -> {None} \cup SUBSET (Stories \cup {Lost})]
    /\ RefChoices \subseteq SUBSET Stories

VARIABLES phaseOf, active,   \* requirements: target phase, whether status is active
          traces,            \* [Stories -> requirement ids]
          tags,              \* [Scenarios -> story ids], None when not stored
          log,               \* the executions, in the order they were appended
          refs,              \* [Mrs \cup Branches -> [state, stories]], None when not recorded
          importing,         \* the import of feature files under way, None when there is none
          imports            \* how many there have been, for the bound

spec == <<phaseOf, active, traces>>
vars == <<phaseOf, active, traces, tags, log, refs, importing, imports>>

Statuses == {"pass", "fail", "pending"}
Runs == [phase : Phases, sc : Scenarios, status : Statuses, at : Times]
RefStates == {"opened", "merged", "closed"}
OnDisk == {sc \in Scenarios : DiskTags[sc] # None}

Init ==
    /\ phaseOf \in [Reqs -> UNION {PhaseChoices[r] : r \in Reqs}]
    /\ \A r \in Reqs : phaseOf[r] \in PhaseChoices[r]
    /\ \E retired \in SUBSET MayRetire : active = Reqs \ retired
    /\ traces \in [Stories -> UNION {LinkChoices[s] : s \in Stories}]
    /\ \A s \in Stories : traces[s] \in LinkChoices[s]
    /\ tags \in [Scenarios -> {None} \cup UNION {TagChoices[sc] : sc \in Scenarios}]
    /\ \A sc \in Scenarios : tags[sc] \in {None} \cup TagChoices[sc]
    /\ log = <<>>
    /\ refs = [ref \in Mrs \cup Branches |-> None]
    /\ importing = None
    /\ imports = 0

\* The bound: runs and references together, an import counting for two.
Events == Len(log) + Cardinality({ref \in DOMAIN refs : refs[ref] # None}) + 2 * imports

StoredScenarios == {sc \in Scenarios : tags[sc] # None}

\* Stored scenarios are authoritative as soon as there is one; the feature
\* files are read only when there is none.
TagsOf(sc) == IF StoredScenarios = {} THEN (IF sc \in OnDisk THEN DiskTags[sc] ELSE {})
              ELSE IF sc \in StoredScenarios THEN tags[sc] ELSE {}
ScenariosOf(s) == {sc \in Scenarios : s \in TagsOf(sc)}

Logged(runs) ==
    /\ Events + Len(runs) <= MaxEvents
    /\ log' = log \o runs
    /\ UNCHANGED <<spec, tags, refs, importing, imports>>

\* record_execution: the scenario must be stored, or on disk if none is.
Record ==
    \E run \in Runs :
        /\ IF StoredScenarios = {} THEN run.sc \in OnDisk ELSE run.sc \in StoredScenarios
        /\ Logged(<<run>>)

\* The execute route looks at the disk alone, and takes a phase id as it comes.
Execute ==
    \E p \in Phases \cup {Lost}, sc \in OnDisk, status \in Statuses, at \in Times :
        Logged(<<[phase |-> p, sc |-> sc, status |-> status, at |-> at]>>)

\* import_execution_report records what the report holds, unchecked and at one time.
ImportReport ==
    \E p \in Phases, at \in Times, some \in (SUBSET Scenarios) \ {{}} :
        \E status \in [some -> Statuses] :
            Logged([i \in 1 .. Cardinality(some) |->
                        [phase |-> p, sc |-> SetToSeq(some)[i],
                         status |-> status[SetToSeq(some)[i]], at |-> at]])

-----------------------------------------------------------------------------
\* An import takes scenarios over one at a time, and anyone may write between
\* two of them.  It knows which are left, which one it is about to write, and
\* whether it had the table to itself so far.
Store(sc, links) == tags' = [tags EXCEPT ![sc] = links]
Intruded == importing' = IF importing = None THEN None ELSE [importing EXCEPT !.alone = FALSE]
Edited(sc, links) == Store(sc, links) /\ Intruded /\ UNCHANGED <<spec, log, refs, imports>>

\* create_scenario puts whatever was there aside.
CreateScenario == \E sc \in Scenarios : \E links \in TagChoices[sc] : Edited(sc, links)
UpdateScenario == \E sc \in StoredScenarios : \E links \in TagChoices[sc] : Edited(sc, links)
DeleteScenario == \E sc \in StoredScenarios : Edited(sc, None)

\* import_scenarios_from_features
BeginImport ==
    /\ importing = None
    /\ Events + 2 <= MaxEvents
    /\ imports' = imports + 1
    /\ \E overwrite, force \in BOOLEAN :
           importing' = [todo |-> OnDisk, writing |-> None, overwrite |-> overwrite,
                         force |-> force, alone |-> StoredScenarios = {}]
    /\ UNCHANGED <<spec, tags, log, refs>>

TakesValid(sc) == (sc \notin StoredScenarios \/ importing.overwrite) /\ sc \notin Malformed
Takes(sc) == /\ sc \notin StoredScenarios \/ importing.overwrite
             /\ sc \notin Malformed \/ importing.force

ConsiderNext ==
    /\ importing # None
    /\ importing.writing = None
    /\ \E sc \in importing.todo :
           importing' = [importing EXCEPT !.todo = @ \ {sc},
                                          !.writing = IF Takes(sc) THEN sc ELSE None]
    /\ UNCHANGED <<spec, tags, log, refs, imports>>

TakeOver ==
    /\ importing # None
    /\ importing.writing # None
    /\ Store(importing.writing, DiskTags[importing.writing])
    /\ importing' = [importing EXCEPT !.writing = None]
    /\ UNCHANGED <<spec, log, refs, imports>>

ImportDone == importing # None /\ importing.todo = {} /\ importing.writing = None
\* It ends, or a query fails and what was taken over stays.
EndImport ==
    /\ importing # None
    /\ importing' = None
    /\ UNCHANGED <<spec, tags, log, refs, imports>>

-----------------------------------------------------------------------------
\* Merge requests and branches: requ keeps what it is told.
Refer(ref, state, stories) ==
    /\ refs[ref] = None => Events < MaxEvents
    /\ refs' = [refs EXCEPT ![ref] = [state |-> state, stories |-> stories]]
    /\ UNCHANGED <<spec, tags, log, importing, imports>>

LinkBranch == \E b \in Branches, stories \in RefChoices : Refer(b, "opened", stories)
\* Linking again replaces the state too.
LinkMergeRequest == \E m \in Mrs, stories \in RefChoices, state \in RefStates : Refer(m, state, stories)
UpdateMergeRequest ==
    \E m \in Mrs, state \in RefStates :
        refs[m] # None /\ Refer(m, state, refs[m].stories)

Next ==
    \/ Events < MaxEvents /\ (Record \/ Execute \/ ImportReport)
    \/ CreateScenario \/ UpdateScenario \/ DeleteScenario
    \/ BeginImport \/ ConsiderNext \/ TakeOver \/ EndImport
    \/ LinkBranch \/ LinkMergeRequest \/ UpdateMergeRequest
Spec == Init /\ [][Next]_vars

-----------------------------------------------------------------------------
\* A set in order; which of two that tie comes first is left open.
InOrder(S, notAfter(_, _)) ==
    CHOOSE f \in [1 .. Cardinality(S) -> S] :
        /\ IsInjective(f)
        /\ \A i, j \in 1 .. Cardinality(S) : i <= j => notAfter(f[i], f[j])

\* feedingPhases, oldest first
PhasesInOrder == InOrder(Phases, LAMBDA p, q : PhaseOrder[p] <= PhaseOrder[q])
FeedingAll(phase, mode) == IF mode = "strict" THEN Phases \cap {phase} ELSE Phases
FeedingPhases(phase, mode) ==
    {p \in Phases : \/ phase = None
                    \/ /\ phase \in Phases
                       /\ IF mode = "strict" THEN p = phase ELSE PhaseOrder[p] <= PhaseOrder[phase]}

\* The log positions by time and, at the same time, in log order.
NotLater(i, j) == log[i].at < log[j].at \/ (log[i].at = log[j].at /\ i <= j)
AsLogged == [i \in DOMAIN log |-> i]
ByTime == InOrder(DOMAIN log, NotLater)

\* resolveLatestRuns: each run overwrites the one before, phase after phase.
Overwrite(latest, p) ==
    FoldLeft(LAMBDA acc, i : IF log[i].phase = p THEN [acc EXCEPT ![log[i].sc] = i] ELSE acc,
             latest, ByTime)
LatestRuns(phase, mode) ==
    FoldLeft(LAMBDA acc, p : IF p \in FeedingPhases(phase, mode) THEN Overwrite(acc, p) ELSE acc,
             [sc \in Scenarios |-> 0], PhasesInOrder)

\* resolveStatuses and its lookup: never run and pending are the same.
Status(latest, sc) == IF latest[sc] = 0 THEN "pending" ELSE log[latest[sc]].status

PhasesOf(s) == {phaseOf[r] : r \in traces[s]}
ReqsIn(phase, mode) == {r \in Reqs : InScope(phaseOf[r], phase, mode)}
StoriesIn(phase, mode) == {s \in Stories : StoryInScope(PhasesOf(s), phase, mode)}

\* computeStoryCoverage
Tested(s) == ScenariosOf(s) # {}
Covered(s, latest) == Tested(s) /\ \A sc \in ScenariosOf(s) : Status(latest, sc) = "pass"

\* buildReport
StoriesOf(r, phase, mode) == {s \in StoriesIn(phase, mode) : r \in traces[s]}
HasStory(r, phase, mode) == StoriesOf(r, phase, mode) # {}
VerifiedReqs(phase, mode) ==
    LET latest == LatestRuns(phase, mode)
    IN  {r \in ReqsIn(phase, mode) :
            /\ HasStory(r, phase, mode)
            /\ \A s \in StoriesOf(r, phase, mode) : Covered(s, latest)}

\* A scenario is linked once for each story it is tagged with.
LinkedIn(phase, mode) == {x \in StoriesIn(phase, mode) \X Scenarios : x[2] \in ScenariosOf(x[1])}

Summary(phase, mode) ==
    LET latest == LatestRuns(phase, mode)
    IN  [requirements |-> Cardinality(ReqsIn(phase, mode) \cap active),
         withStory |-> Cardinality({r \in ReqsIn(phase, mode) \cap active : HasStory(r, phase, mode)}),
         verified |-> Cardinality(VerifiedReqs(phase, mode) \cap active),
         stories |-> Cardinality(StoriesIn(phase, mode)),
         tested |-> Cardinality({s \in StoriesIn(phase, mode) : Tested(s)}),
         covered |-> Cardinality({s \in StoriesIn(phase, mode) : Covered(s, latest)}),
         linked |-> Cardinality(LinkedIn(phase, mode)),
         passing |-> Cardinality({x \in LinkedIn(phase, mode) : Status(latest, x[2]) = "pass"})]

\* findGaps
GapsNotRunOnly(phase, mode) ==
    LET latest == LatestRuns(phase, mode)
    IN  [noStory |-> {r \in ReqsIn(phase, mode) \cap active : ~HasStory(r, phase, mode)},
         noScenario |-> {s \in StoriesIn(phase, mode) : ~Tested(s)},
         notCovered |-> {s \in StoriesIn(phase, mode) :
                            \E sc \in ScenariosOf(s) : Status(latest, sc) = "fail"}]
Gaps(phase, mode) ==
    LET latest == LatestRuns(phase, mode)
    IN  [noStory |-> {r \in ReqsIn(phase, mode) \cap active : ~HasStory(r, phase, mode)},
         noScenario |-> {s \in StoriesIn(phase, mode) : ~Tested(s)},
         notCovered |-> {s \in StoriesIn(phase, mode) : Tested(s) /\ ~Covered(s, latest)}]

-----------------------------------------------------------------------------
\* countsByPhase: an item counts in the earliest phase it touches; None is the
\* Unassigned row.
Earliest(phases) ==
    IF phases \cap Phases = {} THEN None
    ELSE CHOOSE p \in phases \cap Phases : \A q \in phases \cap Phases : PhaseOrder[p] <= PhaseOrder[q]
TagPhases(sc) == UNION {PhasesOf(s) : s \in tags[sc] \cap Stories}

CountsByPhase ==
    [p \in {None} \cup Phases |->
        [requirements |-> Cardinality({r \in Reqs : Earliest({phaseOf[r]}) = p}),
         stories |-> Cardinality({s \in Stories : Earliest(PhasesOf(s)) = p}),
         scenarios |-> Cardinality({sc \in StoredScenarios : Earliest(TagPhases(sc)) = p})]]

FilteredEarliest(phase, mode) ==
    {sc \in StoredScenarios : InScope(Earliest(TagPhases(sc)), phase, mode)}
\* filterScenarios by phase (and by nothing else)
Filtered(phase, mode) ==
    {sc \in StoredScenarios :
        phase # None => \E s \in tags[sc] \cap Stories : StoryInScope(PhasesOf(s), phase, mode)}

-----------------------------------------------------------------------------
\* mergedMrByStory: a merged one if there is one, else the first by number, else 0.
KeepMerged(best, m) == IF best = 0 \/ (refs[best].state # "merged" /\ refs[m].state = "merged") THEN m ELSE best
MrOf(s) ==
    LET naming == {m \in Mrs : refs[m] # None /\ s \in refs[m].stories}
    IN  FoldLeft(KeepMerged, 0, InOrder(naming, <=))

\* computeDeliveredCoverage, over the cumulative report.  The report's
\* requirements are those in scope, retired ones among them.
InDeliveredPhase(r) == phaseOf[r] \in Phases => phaseOf[r] \in Delivered
DeliveredCoverage(phase) ==
    LET scope == {r \in ReqsIn(phase, "cumulative") : InDeliveredPhase(r)}
    IN  [total |-> Cardinality(scope),
         verified |-> Cardinality(scope \cap VerifiedReqs(phase, "cumulative"))]

\* buildTraceability: the chain, one node per entity
Dangling == {d \in StoredScenarios \X {Lost} : d[2] \in tags[d[1]]}
TraceScenarios(phase, mode) ==
    {d[1] : d \in Dangling} \cup UNION {ScenariosOf(s) : s \in StoriesIn(phase, mode)}
TraceStories(sc, phase, mode) ==
    {s \in StoriesIn(phase, mode) : sc \in ScenariosOf(s)} \cup {d[2] : d \in {x \in Dangling : x[1] = sc}}
TraceStatus(sc, latest) == IF latest[sc] = 0 THEN "never_run" ELSE log[latest[sc]].status

TraceSummary(phase, mode) ==
    LET latest == LatestRuns(phase, mode)
        Count(status) == Cardinality({sc \in TraceScenarios(phase, mode) : TraceStatus(sc, latest) = status})
    IN  [withoutStory |-> Cardinality({r \in ReqsIn(phase, mode) \cap active : ~HasStory(r, phase, mode)}),
         verified |-> Cardinality(VerifiedReqs(phase, mode)),
         withoutScenario |-> Cardinality({s \in StoriesIn(phase, mode) : ~Tested(s)}),
         notCovered |-> Cardinality({s \in StoriesIn(phase, mode) : Tested(s) /\ ~Covered(s, latest)}),
         scenarios |-> Cardinality(TraceScenarios(phase, mode)),
         neverRun |-> Count("never_run"), failing |-> Count("fail"),
         pending |-> Count("pending"), passing |-> Count("pass")]
=============================================================================
