-------------------------- MODULE ScreensProperties -------------------------
(***************************************************************************)
(* What the screen tools promise: the staleness flag is not lost to an     *)
(* edit that has nothing to do with it, and the consistency check says the *)
(* same of an item whichever phase it is asked about.                      *)
(***************************************************************************)
EXTENDS ScreenViews

\* A story written after the screen's mockup came in shows as drift, unless it
\* was linked later by hand, or written before the call that brought the mockup
\* had taken its snapshot (that drift the code does not notice): no metadata
\* edit, unlink or overlapping request that writes an older row back clears the
\* flag silently (the snapshot rule of create_or_update_screen).  And it shows
\* in every list, page and worklist that reports drift, from the story's side as
\* from the screen's.
Flagged(s, st) ==
    /\ st \in Drifted(s)
    /\ s \in list_screens(PhaseOf[s], Absent, st, TRUE) \ list_screens(Absent, Shows[s], st, FALSE)
    /\ get_screen(s).stale /\ get_screen(s).stories[st].drifted
    /\ get_screens_for_story(st)[s].stale
    /\ get_stories_for_screen(s)[st].drifted
    /\ st \in get_stale_screens(PhaseOf[s])[s]
    /\ PhaseOf[s] \in Phases => st \in reportedStale(PhaseOf[s], "strict")[s]
    /\ api_screens(PhaseOf[s], Absent, st)[s].stale
    /\ api_screen(s).stale /\ st \in api_screen(s).drifted

DriftShows ==
    \A s \in Stored : \A st \in Links(screen[s]) :
        (screen[s].made[st] # rev[st] /\ st \notin screen[s].joined \cup screen[s].late) => Flagged(s, st)

\* The screens reachable by embedding, defined without a traversal.
Reaches(s) ==
    {u \in Stored : \A closed \in SUBSET Stored :
        (s \in closed /\ \A x \in closed : screen[x].uses \cap Stored \subseteq closed)
        => u \in closed}

\* Whatever embeds what, cycles and shared parts included, a screen resolves to
\* the elements of every screen it reaches, each exactly once (resolveElements).
\* A screen is used by those that reach it in a step.
ResolvedOnce ==
    \A s \in Stored :
        /\ \A u \in Screens : Resolved(s)[u] = IF u \in Reaches(s) THEN 1 ELSE 0
        /\ \A u \in get_screen(s).usedBy : get_screen(u).elements[s] = 1

\* A graph with no error over all phases has none in any phase, strict or
\* cumulative, asked by tool or route, named or left to the current one: a screen
\* that serves a story from another phase still counts (checkUiCoverage looks a
\* story's screens up among all of them); and no story of a phase without errors
\* lacks a screen on a platform of its own.
OkEverywhere ==
    /\ check_ui_coverage(None, "cumulative", None) =>
          \A p \in Phases : /\ \A m \in Modes : check_ui_coverage(p, m, None)
                             /\ api_ui_coverage(Absent, Absent, p)
    /\ \A p \in Phases :
          check_ui_coverage(Absent, "strict", p) =>
              \A st \in Known : StoryInScope(StoryPhases[st], p, "strict") => missingPlatforms(st) = {}
=============================================================================
