----------------------------- MODULE SpecTables -----------------------------
(***************************************************************************)
(* The data a project's database holds for its specification versions, and *)
(* the pure rules the lifecycle and the write guard are built from.        *)
(*                                                                         *)
(* A version is its rank in semver order; 1 is INITIAL_VERSION ("1.0.0")   *)
(* and None stands for an absent pointer, argument or parent.  An entity   *)
(* of any of the six versioned types is one row per version: st is the row *)
(* itself (absent, live, or the tombstone a soft delete leaves), spec      *)
(* stands for all the fields the freeze matrix never lets through and prog *)
(* for the fields it lists.  PureSpec are the entities whose type lists no *)
(* field (requirements, components): all they hold is spec, prog stays 0.  *)
(***************************************************************************)
EXTENDS Integers, FiniteSets, FiniteSetsExt

CONSTANTS Versions,   \* the semver ranks in play
          Ids,        \* the entity numbers in play (REQ-001 is 1)
          Specs,      \* values of the frozen fields; 0 is what a creation writes
          Progs,      \* values of the progress fields; 0 is what a creation writes
          PureSpec    \* the entities of a type with an empty freeze row

ASSUME VersionsAssumption == Versions \subseteq Nat \ {0} /\ 1 \in Versions
ASSUME IdsAssumption == Ids \subseteq Nat \ {0} /\ PureSpec \subseteq Ids
ASSUME FieldsAssumption == 0 \in Specs /\ 0 \in Progs

None == 0
INITIAL_VERSION == 1

Row == [st : {"absent", "live", "removed"}, spec : Specs, prog : Progs]
NoRow == [st |-> "absent", spec |-> 0, prog |-> 0]
NewRow == [st |-> "live", spec |-> 0, prog |-> 0]
Table == [Ids -> Row]

Status == {"absent", "draft", "locked"}
Pointer == Versions \cup {None}

\* The version pointers of the project's config row; init says the row exists.
ConfigRow == [init : BOOLEAN, current : Pointer, draft : Pointer]
NoConfig == [init |-> FALSE, current |-> None, draft |-> None]

\* Mutant: only the existence of the row is protected.
CheckPresence(before, after) == before.st # "absent" /\ after.st = before.st

(***************************************************************************)
(* checkWritable: what a write may change in a locked version.  There must *)
(* be a row (a creation is refused), and `removed` and the frozen fields   *)
(* must keep their values.                                                 *)
(***************************************************************************)
CheckWritable(before, after) ==
    /\ before.st # "absent"
    /\ after.st = before.st
    /\ after.spec = before.spec

\* copyVersion's INSERT ... SELECT: live rows only, and a primary key already
\* taken in the target fails the transaction.
CopyConflict(from, to) ==
    \E id \in Ids : from[id].st = "live" /\ to[id].st # "absent"
\* Mutant: tombstones are carried over.
CopyTombstones(from, to) ==
    [id \in Ids |-> IF from[id].st # "absent" THEN from[id] ELSE to[id]]
CopyInto(from, to) ==
    [id \in Ids |-> IF from[id].st = "live" THEN from[id] ELSE to[id]]

EmptyTable == [id \in Ids |-> NoRow]

\* `a ?? b`
FirstOf(a, b) == IF a # None THEN a ELSE b

(***************************************************************************)
(* bindVersion: the version a tool call addresses.  A specification edit   *)
(* goes to the draft pointer, anything else to the current one.            *)
(***************************************************************************)
BindTarget(explicit, isSpec, cfg) ==
    LET implicit == IF isSpec THEN FirstOf(cfg.draft, cfg.current)
                              ELSE FirstOf(cfg.current, cfg.draft)
    IN  FirstOf(explicit, FirstOf(implicit, INITIAL_VERSION))

\* nextId: one more than the largest number in use.
NextId(used) == 1 + Max(used \cup {0})

=============================================================================
