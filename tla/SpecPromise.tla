----------------------------- MODULE SpecPromise -----------------------------
(***************************************************************************)
(* What the version lifecycle promises, as atomic operations: at most one  *)
(* version is open as a draft; a version is branched as an exact copy of   *)
(* the live entities of an earlier one and appears with its content in one *)
(* step; and while a version is locked a write may only touch what the     *)
(* freeze matrix leaves open.  It knows nothing of queries or pointers.    *)
(***************************************************************************)
EXTENDS SpecTables

VARIABLES status,     \* Status of each version
          content     \* the rows of each version; empty while it does not exist

promiseVars == <<status, content>>

Existing == {v \in Versions : status[v] # "absent"}
NoDraft == \A v \in Versions : status[v] # "draft"

\* What a lock freezes of an entity: whether it exists, and its specification.
FrozenPart(row) == <<row.st, row.spec>>

LiveRows(table) == [id \in Ids |-> IF table[id].st = "live" THEN table[id] ELSE NoRow]

PromiseInit ==
    /\ status = [v \in Versions |-> "absent"]
    /\ content = [v \in Versions |-> EmptyTable]

\* A project opens on an empty draft.
Found(v) ==
    /\ Existing = {}
    /\ status' = [status EXCEPT ![v] = "draft"]
    /\ UNCHANGED content

Branch(from, to) ==
    /\ NoDraft
    /\ from \in Existing
    /\ to \notin Existing
    /\ to > from
    /\ status' = [status EXCEPT ![to] = "draft"]
    /\ content' = [content EXCEPT ![to] = LiveRows(content[from])]

Lock(v) ==
    /\ status[v] = "draft"
    /\ status' = [status EXCEPT ![v] = "locked"]
    /\ UNCHANGED content

Unlock(v) ==
    /\ status[v] = "locked"
    /\ NoDraft
    /\ status' = [status EXCEPT ![v] = "draft"]
    /\ UNCHANGED content

Write(v, id, row) ==
    /\ v \in Existing
    /\ status[v] = "locked" => FrozenPart(row) = FrozenPart(content[v][id])
    /\ content' = [content EXCEPT ![v][id] = row]
    /\ UNCHANGED status

PromiseNext ==
    \/ \E v \in Versions : Found(v) \/ Lock(v) \/ Unlock(v)
    \/ \E from, to \in Versions : Branch(from, to)
    \/ \E v \in Versions, id \in Ids, row \in Row : Write(v, id, row)

PromiseSpec == PromiseInit /\ [][PromiseNext]_promiseVars

=============================================================================
