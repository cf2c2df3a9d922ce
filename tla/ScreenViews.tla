----------------------------- MODULE ScreenViews ----------------------------
(***************************************************************************)
(* What the tools and the routes show of screens, stories, drift and the   *)
(* consistency check.  Each answer is computed by code of its own from one *)
(* read of the tables; text, roles, exits and requirements are left out.   *)
(***************************************************************************)
EXTENDS Screens

Matching(phase, platform, st) ==
    {s \in Stored : /\ phase = Absent \/ PhaseOf[s] = phase
                    /\ platform = Absent \/ Shows[s] = platform
                    /\ st = Absent \/ st \in Links(screen[s])}

\* driftedStories and isStale over the stories the caller listed
DriftedAmong(s, stories) == {st \in Links(screen[s]) \cap stories : screen[s].seen[st] # rev[st]}
IsStale(s, stories) == DriftedAmong(s, stories) # {}

\* list_screens
list_screens(phase, platform, st, stale) ==
    {s \in Matching(phase, platform, st) : stale = Absent \/ IsStale(s, Known) = stale}

\* get_screen: the page of a screen, its stories one by one
get_screen(s) ==
    [stale |-> IsStale(s, Known),
     elements |-> Resolved(s),
     stories |-> [st \in Links(screen[s]) |->
                    [exists |-> st \in Known, drifted |-> st \in Known /\ screen[s].seen[st] # rev[st]]],
     usedBy |-> {u \in Stored : s \in screen[u].uses}]

\* get_screens_for_story: staleness in view of this story alone
get_screens_for_story(st) ==
    [s \in {x \in Stored : st \in Links(screen[x])} |->
        [platform |-> Shows[s], stale |-> IsStale(s, {st}), elements |-> Resolved(s)]]
\* The story's own platforms that none of its screens shows.
missingPlatforms(st) == {p \in Wanted[st] : \A s \in DOMAIN get_screens_for_story(st) : Shows[s] # p}

\* get_stories_for_screen
get_stories_for_screen(s) ==
    [st \in Links(screen[s]) |-> [exists |-> st \in Known,
                                  drifted |-> st \in Known /\ screen[s].seen[st] # rev[st]]]

staleScreens(some) == [s \in {x \in some : IsStale(x, Known)} |-> DriftedAmong(s, Known)]

\* get_stale_screens: the worklist, each screen with the stories that changed;
\* and the same in the report of the consistency check.
get_stale_screens(phase) == staleScreens(Matching(phase, Absent, Absent))
reportedStale(phase, mode) == staleScreens({s \in Stored : InScope(PhaseOf[s], phase, mode)})

\* GET /api/screens and GET /api/screens/:id
api_screens(phase, platform, st) ==
    [s \in Matching(phase, platform, st) |-> [stale |-> IsStale(s, Known), elements |-> Resolved(s)]]
api_screen(s) ==
    [stale |-> IsStale(s, Known),
     drifted |-> {st \in Links(screen[s]) : st \in Known /\ screen[s].seen[st] # rev[st]},
     usedBy |-> {u \in Stored : s \in screen[u].uses}]

\* check_ui_coverage and GET /api/ui-coverage: the tool refuses a phase that is
\* not there, the route checks it, and nothing is in scope.  current is the phase
\* a call that names none is about.
check_ui_coverage(phase, mode, current) == Ok(IF phase = Absent THEN current ELSE phase, mode)
api_ui_coverage(param, mode, current) ==
    Ok(IF param = Absent THEN current ELSE param, IF mode = Absent THEN "cumulative" ELSE mode)
=============================================================================
