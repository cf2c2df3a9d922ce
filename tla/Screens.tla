------------------------------ MODULE Screens -------------------------------
(***************************************************************************)
(* Screens and the stories they materialize: publishing a mockup, linking, *)
(* the staleness flag, and the consistency check over the whole graph.     *)
(*                                                                         *)
(* A request reads the screen, then the stories, and writes the screen row *)
(* back whole; requests of several clients interleave between the queries. *)
(* A mockup is a name: what the checks need of it is which screens its     *)
(* markup embeds.  The version is a draft, so the write guard lets writes  *)
(* through.  Exits, roles and the text heuristics (data fields, error      *)
(* criteria) are left out.                                                 *)
(***************************************************************************)
EXTENDS Scope, FiniteSets, FiniteSetsExt

CONSTANTS Screens, Mockups, Clients,
          MaxRev,          \* [Stories -> Nat]: bound on the writes of each story
          MaxRequests,     \* bound on the screen requests of a behaviour
          LinkLists,       \* the link sets a caller supplies
          UseLists,        \* the sets of used screens a caller supplies
          Embeds,          \* [Mockups -> SUBSET Screens]: data-req-component references
          Shared,          \* the screens whose kind is component
          PhaseOf,         \* [Screens -> phase or None]
          StoryPhases,     \* [Stories -> the phases of its requirements]
          Wanted, Shows    \* platforms: of a story, of a screen (or None)

ASSUME ScreensAssumption == IsFiniteSet(Screens) /\ UseLists \subseteq SUBSET Screens
ASSUME EmbedsAssumption == Embeds \in [Mockups -> SUBSET Screens]

VARIABLES rev,       \* updatedAt of each story: its number of writes, 0 before it exists
          screen,    \* the screens table
          req,       \* the request each client has in flight
          requests   \* how many were started

screenVars == <<rev, screen, req, requests>>

(***************************************************************************)
(* A row: seen is storyVersions, defined for exactly the linked stories.   *)
(* History, for the properties: made holds the stories as they were when   *)
(* the mockup came in, joined the stories linked after that, and late the  *)
(* stories written between its coming in and the snapshot taken of them.   *)
(***************************************************************************)
NoRow == [mockup |-> None, seen |-> [st \in {} |-> 0], uses |-> {},
          made |-> [st \in Stories |-> 0], joined |-> {}, late |-> {}]

Links(row) == DOMAIN row.seen
Stored == {s \in Screens : screen[s] # None}
Known == {st \in Stories : rev[st] > 0}

Idle == [tool |-> "none", s |-> None, st |-> None, mockup |-> None, links |-> None,
         uses |-> None, made |-> None, base |-> None, version |-> 0]

ScreensInit ==
    /\ rev = [st \in Stories |-> 0]
    /\ screen = [s \in Screens |-> None]
    /\ req = [c \in Clients |-> Idle]
    /\ requests = 0

-----------------------------------------------------------------------------
\* create_user_story and every tool that rewrites a story and stamps it.
WriteStory(st) ==
    /\ rev[st] < MaxRev[st]
    /\ rev' = [rev EXCEPT ![st] = @ + 1]
    /\ UNCHANGED <<screen, req, requests>>

Starts(c, r) ==
    /\ req[c] = Idle
    /\ requests < MaxRequests
    /\ req' = [req EXCEPT ![c] = r]
    /\ requests' = requests + 1
    /\ UNCHANGED <<rev, screen>>

Ends(c) == req' = [req EXCEPT ![c] = Idle] /\ UNCHANGED requests
Refused(c) == Ends(c) /\ UNCHANGED <<rev, screen>>
Writes(c, s, row) == Ends(c) /\ screen' = [screen EXCEPT ![s] = row] /\ UNCHANGED rev

\* create_or_update_screen: the call brings the mockup, and the stored row is
\* read.  What the call leaves out (None) keeps the stored body, links or uses.
Publish(c) ==
    \E s \in Screens, m \in {None} \cup Mockups, L \in {None} \cup LinkLists, U \in {None} \cup UseLists :
        Starts(c, [Idle EXCEPT !.tool = "publish", !.s = s, !.mockup = m, !.links = L, !.uses = U,
                               !.made = IF m = None THEN None ELSE rev, !.base = screen[s]])

Base(r) == IF r.base = None THEN NoRow ELSE r.base
Regenerated(r) == r.mockup # None
LinksWanted(r) == IF r.links = None THEN Links(Base(r)) ELSE r.links

\* As SeenBy, but whatever is written takes a full snapshot.
SeenAnew(r) == [st \in LinksWanted(r) |-> rev[st]]
\* A full snapshot when the mockup was generated, else only for added links.
SeenBy(r) == [st \in LinksWanted(r) |->
                IF ~Regenerated(r) /\ st \in Links(Base(r)) THEN Base(r).seen[st] ELSE rev[st]]

UsesKept(r) == IF r.uses = None THEN Base(r).uses ELSE r.uses

\* A request sees the stories change between its mockup and its snapshot.
Overtaken(r) == {st \in LinksWanted(r) : r.made[st] # rev[st]}

Published(r) ==
    LET body == IF Regenerated(r) THEN r.mockup ELSE Base(r).mockup
        kept == Links(Base(r)) \cap LinksWanted(r)
    IN  [mockup |-> body, seen |-> SeenBy(r),
         uses   |-> UsesKept(r) \cup (IF body = None THEN {} ELSE Embeds[body]),
         made   |-> [st \in Stories |-> IF st \notin LinksWanted(r) THEN 0
                                       ELSE IF Regenerated(r) THEN r.made[st] ELSE Base(r).made[st]],
         joined |-> IF Regenerated(r) THEN {}
                    ELSE (Base(r).joined \cap kept) \cup (LinksWanted(r) \ kept),
         late   |-> IF Regenerated(r) THEN Overtaken(r) ELSE Base(r).late \cap kept]

\* The stories are listed, unknown links refused, and the row composed.  The
\* code lists them twice, but a story once known stays known.
Compose(c) ==
    /\ req[c].tool = "publish"
    /\ IF LinksWanted(req[c]) \subseteq Known
       THEN /\ req' = [req EXCEPT ![c] = [Idle EXCEPT !.tool = "write", !.s = req[c].s,
                                                      !.base = Published(req[c])]]
            /\ UNCHANGED <<rev, screen, requests>>
       ELSE Refused(c)

StoreScreen(c) == req[c].tool = "write" /\ Writes(c, req[c].s, req[c].base)

\* link_story_screen reads the story and the screen with two parallel queries.
Link(c) == \E s \in Screens, st \in Stories : Starts(c, [Idle EXCEPT !.tool = "link", !.s = s, !.st = st])

ReadStory(c) ==
    /\ req[c].tool = "link" /\ req[c].version = 0
    /\ IF req[c].st \in Known
       THEN req' = [req EXCEPT ![c].version = rev[req[c].st]] /\ UNCHANGED <<rev, screen, requests>>
       ELSE Refused(c)

ReadScreen(c) ==
    /\ req[c].tool = "link" /\ req[c].base = None
    /\ IF req[c].s \in Stored
       THEN req' = [req EXCEPT ![c].base = screen[req[c].s]] /\ UNCHANGED <<rev, screen, requests>>
       ELSE Refused(c)

With(f, st, v) == [x \in DOMAIN f \cup {st} |-> IF x = st THEN v ELSE f[x]]
Without(f, st) == [x \in DOMAIN f \ {st} |-> f[x]]

StoreLink(c) ==
    /\ req[c].tool = "link" /\ req[c].version > 0 /\ req[c].base # None
    /\ Writes(c, req[c].s,
              [req[c].base EXCEPT !.seen = With(@, req[c].st, req[c].version),
                                  !.joined = @ \cup {req[c].st}])

\* unlink_story_screen: nothing is written when the story was not linked.
Unlink(c) ==
    \E s \in Stored, st \in Stories :
        Starts(c, [Idle EXCEPT !.tool = "unlink", !.s = s, !.st = st, !.base = screen[s]])

StoreUnlink(c) ==
    /\ req[c].tool = "unlink"
    /\ IF req[c].st \in Links(req[c].base)
       THEN Writes(c, req[c].s, [req[c].base EXCEPT !.seen = Without(@, req[c].st),
                                                  !.joined = @ \ {req[c].st}, !.late = @ \ {req[c].st}])
       ELSE Refused(c)

DeleteScreen(c) ==
    /\ req[c] = Idle
    /\ \E s \in Stored : screen' = [screen EXCEPT ![s] = None]
    /\ UNCHANGED <<rev, req, requests>>

ScreensNext ==
    \/ \E st \in Stories : WriteStory(st)
    \/ \E c \in Clients :
          \/ Publish(c) \/ Compose(c) \/ StoreScreen(c)
          \/ Link(c) \/ ReadStory(c) \/ ReadScreen(c) \/ StoreLink(c)
          \/ Unlink(c) \/ StoreUnlink(c)
          \/ DeleteScreen(c)

ScreensSpec == ScreensInit /\ [][ScreensNext]_screenVars

-----------------------------------------------------------------------------
\* driftedStories, isStale
Drifted(s) == {st \in Links(screen[s]) : screen[s].seen[st] # rev[st]}

(***************************************************************************)
(* resolveElements: the screens whose own elements end up in a screen's    *)
(* list, with repetitions counted.  Each screen has one element of its     *)
(* own.  The set of screens seen is shared by the whole traversal.         *)
(***************************************************************************)
Nothing == [list |-> [s \in Screens |-> 0], seen |-> {}]

Accs == [list : [Screens -> Nat], seen : SUBSET Screens]

Entered(s, acc) == [list |-> [acc.list EXCEPT ![s] = @ + 1], seen |-> acc.seen \cup {s}]

\* From a screen and what was seen before.
Walk[p \in Stored \X Accs] ==
    LET s == p[1]
        acc == p[2]
    IN  IF s \in acc.seen THEN acc
        ELSE FoldSet(LAMBDA used, a : IF used \in Stored THEN Walk[<<used, a>>] ELSE a,
                     Entered(s, acc), screen[s].uses)

\* As Walk, but the screen the walk starts from is not marked as seen.
WalkRootUnmarked(s, acc) ==
    FoldSet(LAMBDA used, a : IF used \in Stored THEN Walk[<<used, a>>] ELSE a,
            [acc EXCEPT !.list[s] = @ + 1], screen[s].uses)

ResolvedUnmarked(s) == WalkRootUnmarked(s, Nothing).list
Resolved(s) == Walk[<<s, Nothing>>].list

LinkedScoped(st, phase, mode) ==
    {s \in Stored : st \in Links(screen[s]) /\ InScope(PhaseOf[s], phase, mode)}
\* The screens of a story, whatever phase they are in.
LinkedTo(st, phase, mode) == {s \in Stored : st \in Links(screen[s])}

Issue(code, item) == [code |-> code, item |-> item]

StoryErrors(st, phase, mode) ==
    LET linked == LinkedTo(st, phase, mode)
    IN  IF linked = {} THEN {Issue("story_without_screen", st)}
        ELSE {Issue("platform_gap", st) : p \in Wanted[st] \ {Shows[s] : s \in linked}}

ScreenErrors(s) ==
    (IF Links(screen[s]) = {} THEN {Issue("screen_without_story", s)} ELSE {})
    \cup (IF Links(screen[s]) \subseteq Known THEN {} ELSE {Issue("unknown_story_link", s)})
    \cup (IF screen[s].mockup = None THEN {Issue("missing_mockup", s)} ELSE {})
    \cup (IF s \notin Shared /\ Shows[s] = None THEN {Issue("missing_platform", s)} ELSE {})
    \cup (IF screen[s].uses \subseteq Stored THEN {} ELSE {Issue("unknown_component", s)})
    \cup (IF \E u \in Screens : Resolved(s)[u] > 1 THEN {Issue("duplicate_element_id", s)} ELSE {})

\* checkUiCoverage: the errors (warnings do not decide whether a phase is ok).
Errors(phase, mode) ==
    (UNION {StoryErrors(st, phase, mode) : st \in {x \in Known : StoryInScope(StoryPhases[x], phase, mode)}})
    \cup UNION {ScreenErrors(s) : s \in {x \in Stored : InScope(PhaseOf[x], phase, mode)}}

Ok(phase, mode) == Errors(phase, mode) = {}
=============================================================================
