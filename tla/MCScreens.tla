------------------------------ MODULE MCScreens -----------------------------
\* Two phases, a story and a screen in each; the mockups embed the other screen
\* or both, so that cycles arise.  The first story is wanted on two platforms.
EXTENDS ScreensProperties, TLC

CONSTANTS s1, s2, t1, t2, m2, m3, a, b, p1, p2, web, mobile

MCEmbeds == (m2 :> {s2}) @@ (m3 :> {s1, s2})
MCLinkLists == {{t1, t2}}
MCUseLists == {{}}
MCMaxRev == (t1 :> 2) @@ (t2 :> 1)
MCPhaseOrder == (p1 :> 1) @@ (p2 :> 2)
MCPhaseOf == (s1 :> p1) @@ (s2 :> p2)
MCStoryPhases == (t1 :> {p1, p2}) @@ (t2 :> {p2})
MCWanted == (t1 :> {web, mobile}) @@ (t2 :> {web})
MCShows == (s1 :> web) @@ (s2 :> mobile)

Symmetric == Permutations({a, b})
=============================================================================
