----------------------------- MODULE MCCarryOver -----------------------------
(***************************************************************************)
(* Carry-over on a small instance, with a bound on the writes to stories.  *)
(***************************************************************************)
EXTENDS CarryOver

CONSTANTS MaxWrites,      \* bound: edits and creations
          single, both, adhoc

VARIABLE writes

MCTests == {single, both, adhoc}
\* One scenario of one story, one of two, and one that covers no story.
MCLinks == [test \in MCTests |-> CASE test = single -> {1} [] test = both -> {1, 2} [] test = adhoc -> {}]

\* Opened, with the first story created.
MCInit ==
    /\ status = [v \in Versions |-> IF v = INITIAL_VERSION THEN "draft" ELSE "absent"]
    /\ content = [v \in Versions |->
                    IF v = INITIAL_VERSION THEN [EmptyTable EXCEPT ![1] = NewRow] ELSE EmptyTable]
    /\ branchedFrom = [v \in Versions |-> None]
    /\ runs = {}
    /\ writes = 0

MCNext ==
    \/ WriteStory /\ content' # content /\ writes < MaxWrites /\ writes' = writes + 1
    \/ Operate /\ UNCHANGED writes

MCSpec == MCInit /\ [][MCNext]_<<carryVars, writes>>

=============================================================================
