------------------------------ MODULE CarryOver ------------------------------
(***************************************************************************)
(* Coverage carry-over: which test results recorded against one version    *)
(* still count in the report of another.  Results sit in a table of their  *)
(* own, stamped with the version they were produced against, and are never *)
(* copied or frozen; a report decides each time which of them to keep.     *)
(*                                                                         *)
(* The versions are those of SpecPromise (the serial store implements it): *)
(* here an entity is a user story, spec its fingerprint and prog its       *)
(* status.  A report is one read, so it is an operator and not an action.  *)
(***************************************************************************)
EXTENDS SpecPromise, Sequences

CONSTANTS Tests,      \* scenarios
          LinksOf,    \* the stories a scenario is tagged with
          MaxRuns     \* bound: results recorded

ASSUME LinksAssumption == LinksOf \in [Tests -> SUBSET Ids]
ASSUME MaxRunsAssumption == MaxRuns \in Nat

VARIABLES branchedFrom,  \* the version each version was branched from
          runs           \* the recorded results

carryVars == <<status, content, branchedFrom, runs>>

(***************************************************************************)
(* What a lock would freeze of a story: the specification without status.  *)
(* An absent story has no fingerprint.                                     *)
(***************************************************************************)
NoFingerprint == <<>>

storyFingerprint(row) ==
    IF row.st = "absent" THEN NoFingerprint ELSE <<row.spec>>
Fingerprints == {NoFingerprint} \cup {<<s>> : s \in Specs}

(***************************************************************************)
(* A result: the version it is stamped with and the scenario that ran.     *)
(* saw and frozen are not stored; they record, for the properties, the     *)
(* fingerprints at the time and that its version has been locked since.    *)
(***************************************************************************)
Run == [version : Versions, test : Tests, saw : [Ids -> Fingerprints], frozen : BOOLEAN]

CarryTypeOK ==
    /\ status \in [Versions -> Status]
    /\ content \in [Versions -> Table]
    /\ branchedFrom \in [Versions -> Pointer]
    /\ runs \subseteq Run

\* A project as it is opened: INITIAL_VERSION is an empty draft.
CarryInit ==
    /\ status = [v \in Versions |-> IF v = INITIAL_VERSION THEN "draft" ELSE "absent"]
    /\ content = [v \in Versions |-> EmptyTable]
    /\ branchedFrom = [v \in Versions |-> None]
    /\ runs = {}

-----------------------------------------------------------------------------
\* Mutant: only the version and its parent.
ParentOnly(version) ==
    IF branchedFrom[version] \in Existing THEN <<version, branchedFrom[version]>> ELSE <<version>>

(***************************************************************************)
(* The versions back along the parent links, as long as they are           *)
(* registered and not seen before: at is the seen ones and the cursor.     *)
(***************************************************************************)
walk[at \in (SUBSET Versions) \X Pointer] ==
    IF at[2] \in Existing \ at[1]
    THEN <<at[2]>> \o walk[<<at[1] \cup {at[2]}, branchedFrom[at[2]]>>]
    ELSE <<>>

\* A version that is not registered is still the one reported on.
ancestorChain(version) ==
    LET chain == walk[<<{}, version>>]
    IN  IF chain = <<>> THEN <<version>> ELSE chain

\* Mutants: a change that was reverted is forgotten; nothing is compared.
AcceptedIfSameNow(chain, id) ==
    LET print(i) == storyFingerprint(content[chain[i]][id])
    IN  {chain[i] : i \in {n \in 1..Len(chain) : print(n) = print(1)}}
AcceptedWholeChain(chain, id) == {chain[i] : i \in 1..Len(chain)}

(***************************************************************************)
(* The target and the contiguous ancestors whose story is still the same.  *)
(***************************************************************************)
acceptedVersions(chain, id) ==
    LET print(i) == storyFingerprint(content[chain[i]][id])
        same(i) == \A j \in 1..i : print(j) = print(1)
    IN  {chain[i] : i \in {n \in 1..Len(chain) : same(n)}}

\* A story the target does not hold vouches for nothing.
Vouches(id, run, chain) ==
    /\ content[chain[1]][id].st # "absent"
    /\ run.version \in acceptedVersions(chain, id)

keep(run, target, chain) ==
    \/ run.version = target
    \/ LinksOf[run.test] = {}
    \/ \E id \in LinksOf[run.test] : Vouches(id, run, chain)

(***************************************************************************)
(* What a report on `target` counts.  A project with a single version, or  *)
(* a target with no ancestor, has nothing filtered.                        *)
(***************************************************************************)
applyCarryOver(target) ==
    LET chain == ancestorChain(target)
    IN  IF Cardinality(Existing) <= 1 \/ Len(chain) <= 1 THEN runs
        ELSE {run \in runs : keep(run, target, chain)}

-----------------------------------------------------------------------------
Edit(v, id) ==
    /\ content[v][id].st = "live"
    /\ \E row \in Row : row.st = "live" /\ Write(v, id, row)
    /\ UNCHANGED <<branchedFrom, runs>>

\* No tool or route deletes a story, so an id is either free or live.
Create(v, id) ==
    /\ content[v][id].st = "absent"
    /\ Write(v, id, NewRow)
    /\ UNCHANGED <<branchedFrom, runs>>

BranchFrom(from, to) ==
    /\ Branch(from, to)
    /\ branchedFrom' = [branchedFrom EXCEPT ![to] = from]
    /\ UNCHANGED runs

LockIt(v) == Lock(v) /\ UNCHANGED <<branchedFrom, runs>>

UnlockIt(v) ==
    /\ Unlock(v)
    /\ runs' = {IF run.version = v THEN [run EXCEPT !.frozen = FALSE] ELSE run : run \in runs}
    /\ UNCHANGED branchedFrom

\* appendExecutions stamps the version the store is bound to, open or locked.
Record(v, test) ==
    /\ v \in Existing
    /\ Cardinality(runs) < MaxRuns
    /\ runs' = runs \cup {[version |-> v, test |-> test, frozen |-> status[v] = "locked",
                           saw |-> [id \in Ids |-> storyFingerprint(content[v][id])]]}
    /\ UNCHANGED <<status, content, branchedFrom>>

WriteStory == \E v \in Versions, id \in Ids : Edit(v, id) \/ Create(v, id)

Operate ==
    \/ \E from, to \in Versions : BranchFrom(from, to)
    \/ \E v \in Versions : LockIt(v) \/ UnlockIt(v)
    \/ \E v \in Versions, test \in Tests : Record(v, test)

CarryNext == WriteStory \/ Operate

CarrySpec == CarryInit /\ [][CarryNext]_carryVars

-----------------------------------------------------------------------------
(***************************************************************************)
(* What acceptedVersionsByStory computes, said by inheritance: a version   *)
(* accepts its own results and, when the story is the one its parent has,  *)
(* whatever the parent accepts.  So a story that changed and was reverted  *)
(* never reclaims the results from before the change.                      *)
(***************************************************************************)
AcceptedByInheritance ==
    \A v \in Existing, id \in Ids :
        LET p == branchedFrom[v]
            inherited == IF /\ p \in Existing
                            /\ storyFingerprint(content[p][id]) = storyFingerprint(content[v][id])
                         THEN acceptedVersions(ancestorChain(p), id) ELSE {}
        IN  acceptedVersions(ancestorChain(v), id) = {v} \cup inherited

(***************************************************************************)
(* The version diff, for stories: any field but the bookkeeping ones makes *)
(* a story modified, its status included.                                  *)
(***************************************************************************)
IsLive(v, id) == content[v][id].st = "live"
fieldChanges(from, to, id) == content[from][id] # content[to][id]
diffVersions(from, to) ==
    [added |-> {id \in Ids : ~IsLive(from, id) /\ IsLive(to, id)},
     removed |-> {id \in Ids : IsLive(from, id) /\ ~IsLive(to, id)},
     modified |-> {id \in Ids : /\ IsLive(from, id) /\ IsLive(to, id)
                                /\ fieldChanges(from, to, id)}]

\* The tool and the route compare two different versions that are registered;
\* the version they compare with when none is named is left out.
NoDiff == [added |-> {}, removed |-> {}, modified |-> {}, refused |-> TRUE]
diff_versions(from, to) ==
    IF {from, to} \subseteq Existing /\ from # to THEN diffVersions(from, to) ELSE NoDiff
api_versions_diff(from, to) == diff_versions(from, to)

(***************************************************************************)
(* "Copying a version costs nothing in re-testing" (README), and what does *)
(* cost some is on the page that compares a version with its parent: a     *)
(* result of the parent's lineage that counts for the parent and not for   *)
(* the version covers a story the diff lists, or no story the parent had.  *)
(***************************************************************************)
DiffExplains ==
    \A v \in Existing : branchedFrom[v] \in Existing =>
        LET p == branchedFrom[v]
            diff == api_versions_diff(p, v)
            lineage == {ancestorChain(p)[i] : i \in 1..Len(ancestorChain(p))}
        IN  /\ diff # NoDiff
            /\ \A run \in applyCarryOver(p) \ applyCarryOver(v) :
                  run.version \in lineage =>
                    \/ LinksOf[run.test] \cap (diff.added \cup diff.removed \cup diff.modified) # {}
                    \/ \A id \in LinksOf[run.test] : ~IsLive(p, id)

(***************************************************************************)
(* "A real scope change is never silently signed off by an old green run": *)
(* what a version with a parent counts of the results recorded on locked   *)
(* baselines was, for some story it covers, a test of that story as it     *)
(* stands in the version, whatever was edited, reverted, created or        *)
(* branched since.                                                         *)
(***************************************************************************)
BaselineRunsCurrent ==
    \A v \in Existing : branchedFrom[v] \in Existing =>
        \A run \in applyCarryOver(v) :
            run.frozen /\ LinksOf[run.test] # {} =>
                \E id \in LinksOf[run.test] :
                    run.saw[id] = storyFingerprint(content[v][id])
=============================================================================
