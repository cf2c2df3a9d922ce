------------------------------ MODULE MCReports -----------------------------
\* Two phases, one not delivered yet; a requirement that may be unassigned;
\* runs of a phase that does not exist; a story that spans both; scenarios
\* that may be shared, tagged with a lost story, malformed, only on disk or there
\* with other tags; two merge requests and a branch.
EXTENDS ReportsProperties, TLC

CONSTANTS p1, p2, r1, r2, s1, s2, c1, c2, b

MCPhaseOrder == (p1 :> 1) @@ (p2 :> 2)
MCPhaseChoices == (r1 :> {p1}) @@ (r2 :> {p2, None})
MCLinkChoices == (s1 :> {{r1, r2}}) @@ (s2 :> {{r2}})
MCTagChoices == (c1 :> {{s1, s2, Lost}}) @@ (c2 :> {{s2}})
MCDiskTags == (c1 :> {s1, s2}) @@ (c2 :> {s1})
=============================================================================
