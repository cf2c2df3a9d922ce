------------------------- MODULE SpecStoreProperties -------------------------
(***************************************************************************)
(* What the specification store should guarantee.  OneDraft, KeepsPromise, *)
(* PointersKnown and AllocatedIdsFresh are for requests that do not        *)
(* overlap; ParentOlder, SettledStaysFrozen and LockTakesHold for any      *)
(* number of clients and for failures.                                     *)
(***************************************************************************)
EXTENDS SpecStore

SameFrozen(before, after) == after.st = before.st /\ after.spec = before.spec

Quiet == \A c \in Clients : req[c] = Idle

(***************************************************************************)
(* version-ops.ts: exactly one version is editable at a time, so no two    *)
(* rows of the registry are drafts together.                               *)
(***************************************************************************)
OneDraft == \A v, w \in Drafts : v = w

(***************************************************************************)
(* Copy first, register second, and a lock freezes: seen from outside,     *)
(* the registry and the rows of its registered versions only ever move by  *)
(* the atomic operations of SpecPromise.                                   *)
(***************************************************************************)
Promise == INSTANCE SpecPromise
    WITH status <- registry,
         content <- [v \in Versions |-> IF v \in Registered THEN rows[v] ELSE EmptyTable]
KeepsPromise == Promise!PromiseSpec

(***************************************************************************)
(* A version pointer names a registered version whenever no request is     *)
(* half-way: "a pointer to a version that does not exist is never right".  *)
(***************************************************************************)
PointersKnown ==
    Quiet => {config.current, config.draft} \subseteq Registered \cup {None}

(***************************************************************************)
(* Ids are allocated across every version: the row an automatic creation   *)
(* writes is one that no version holds, not even as a tombstone.           *)
(***************************************************************************)
AllocatedIdsFresh ==
    [][\A c \in Clients :
          At(c, "upsert") /\ req[c].tool = "create" /\ rows' # rows
              => \A v \in Versions : rows[v][req[c].id].st = "absent"]_vars

(***************************************************************************)
(* A version is always newer than the one it was branched from, whoever    *)
(* else is branching, locking or failing at the time.                      *)
(***************************************************************************)
ParentOlder == \A v \in Registered : parent[v] < v

(***************************************************************************)
(* A locked version v is settled when no request can still undo what the   *)
(* lock froze: none holds a write that passed its guard before the lock,   *)
(* none is branching or rolling back v itself, and no init_project is      *)
(* about to register v as a fresh draft.                                   *)
(***************************************************************************)
Pending(c, v) ==
    \/ /\ At(c, "upsert") /\ req[c].ver = v
       /\ ~SameFrozen(rows[v][req[c].id], req[c].doc)
    \/ req[c].to = v /\ req[c].pc \in {"cvCopy", "cvRegister", "cvDrop"}
    \/ At(c, "inRegister") /\ req[c].cfg.draft = v
Settled(v) == registry[v] = "locked" /\ \A c \in Clients : ~Pending(c, v)

Unlocks(v) == \E c \in Clients : At(c, "ulWrite") /\ req[c].ver = v /\ req' # req

(***************************************************************************)
(* Once settled, a baseline stays locked and settled, with its frozen part *)
(* unchanged, until an unlock_version reopens it: the guard in writeRow    *)
(* and the checks of createVersion stop every later request, although each *)
(* of them is a query apart from the write it protects.                    *)
(***************************************************************************)
SettledStaysFrozen ==
    [][\A v \in Versions :
          Settled(v) /\ ~Unlocks(v)
              => /\ Settled(v)'
                 /\ \A id \in Ids : SameFrozen(rows[v][id], rows'[v][id])]_vars

(***************************************************************************)
(* A write that saw the version open can only overtake a lock for so long: *)
(* if v stays locked, then from some point on every write about to land on *)
(* v was compared with the stored row first.                               *)
(***************************************************************************)
LockTakesHold ==
    \A v \in Versions :
        <>[](registry[v] = "locked")
            => <>[](\A c \in Clients :
                       At(c, "upsert") /\ req[c].ver = v => req[c].compared)
=============================================================================
