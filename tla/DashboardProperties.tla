------------------------ MODULE DashboardProperties -------------------------
(***************************************************************************)
(* What a tab shows once nothing is in flight any more.                    *)
(***************************************************************************)
EXTENDS Dashboard

Quiet == \A r \in Requests : flight[r] = <<>>

\* No answer a tab got was lost or overtaken and not made up for by a switch, nor
\* was it the versions of a project that had been left.
Settled == Quiet /\ lost = {} /\ "versions" \notin crossed

\* Once all answers are in, and unless an answer was lost or overtaken or the
\* versions of a project came in after it was left, every panel shows the project
\* and version in view, the coverage panel the phase in view; and that phase is
\* one of the project, unless the summary of one that was left chose it and no
\* list was loaded after (apiUrl, switchProject, switchVersion,
\* syncCoveragePhaseSelect and the watchers).
PanelsFollow ==
    Settled =>
       /\ \A x \in Panels : shown[x].content = Content(Scope(view))
       /\ shown["coverage"].phase = view.phase
       /\ chain # None => chain.content = Content(Scope(view)) /\ chain.phase = ChainPhase(view)
       /\ "phase" \notin crossed => /\ view.trace \in {None, All} \cup PhasesOf[view.project]
                                   /\ view.phase \in {None} \cup PhasesOf[view.project]

\* Once all answers are in, unless one was lost or overtaken, the versions of a
\* project came in after it was left, or a summary that was not loaded before the
\* lists (as switchVersion, a deletion and a run load it) hid a change from the
\* stream, the lists are at least as recent as the summary beside them (the
\* stream's onmessage).
ListsKeepUp ==
    Settled /\ ~swallowed => shown["lists"].edits >= shown["summary"].edits
=============================================================================
