------------------------------- MODULE Import -------------------------------
(***************************************************************************)
(* Importing a version history into a project others are working on.       *)
(*                                                                         *)
(* For each version of the payload: register it as a draft, fill it, then  *)
(* lock it again if it is to be locked, whatever happened in between.      *)
(* Everything is written through the recording store of History, query by  *)
(* query, beside edits, deletions, locks and unlocks of other clients.     *)
(* One id stands for each kind of entity; executions are left out.         *)
(***************************************************************************)
EXTENDS History, Naturals

CONSTANTS Payload,       \* the versions of the payload, in its order
          Exports,       \* the statuses it may have been exported with: functions on its versions
          Data,          \* [version of the payload -> [Ids -> value, or None]]
          Order,         \* the ids in the order an import writes them
          Needs,         \* [Ids -> SUBSET Ids]: what a story traces to
          Edited,        \* the keys others edit and delete
          Contents,      \* what an edit writes
          MaxCalls,      \* bound on the requests of a behaviour
          Present        \* the tables a behaviour may begin with

ASSUME ImportAssumption ==
    /\ None # "draft" /\ None # "locked"
    /\ Payload \in Seq(Versions) /\ Order \in Seq(Ids)
    /\ \A exported \in Exports : \A v \in Versions : exported[v] \in {"draft", "locked"}
    /\ Edited \subseteq Versions \X Ids
    /\ \A t \in Present :
           t = [k \in Keys |-> t[k]] /\ \A v \in Versions : t[Status(v)] \in {None, "draft", "locked"}

VARIABLES calls,     \* how many requests were started
          sealed     \* history, for the properties: see Seal

vars == <<table, call, history, base, mixed, cut, calls, sealed>>

Init ==
    /\ table \in Present
    /\ base = table
    /\ call = [c \in Clients |-> Idle]
    /\ history = [k \in Keys |-> <<>>]
    /\ mixed = {}
    /\ cut = {}
    /\ calls = 0
    /\ sealed = {v \in Versions : Locked(v)}

(***************************************************************************)
(* sealed holds the versions that were locked and that nobody opened:      *)
(* neither unlock_version, nor an import of a version exported as a draft  *)
(* that did not see it when it looked, nor an import that was stopped or   *)
(* whose last write failed.                                                *)
(***************************************************************************)
Opens(r, v) == \/ r.tool = "unlock"
               \/ r.tool = "import" /\ r.existing = None /\ r.exported[v] = "draft"

Seal(c) ==
    LET r == call[c]
        v == r.key[1] IN
    sealed' = IF r.key[2] # Registry THEN sealed
              ELSE IF r.new = "locked" THEN sealed \cup {v}
              ELSE IF Opens(r, v) THEN sealed \ {v}
              ELSE sealed

Holding(c, v) == call[c].tool = "import" /\ call[c].v = v /\ call[c].pc \notin {"version", "flush"}
SealStopped == sealed' = {v \in sealed : \A c \in Clients : ~Holding(c, v)}
SealFailed(c) == sealed' = IF call[c].new = "locked" THEN sealed \ {call[c].key[1]} ELSE sealed

-----------------------------------------------------------------------------
Begin(c, r) ==
    /\ At(c, "idle")
    /\ calls < MaxCalls
    /\ calls' = calls + 1
    /\ call' = [call EXCEPT ![c] = r]
    /\ UNCHANGED <<table, history, base, mixed, cut, sealed>>

Continue(c, r) ==
    /\ call' = [call EXCEPT ![c] = r]
    /\ UNCHANGED <<table, history, base, mixed, cut, calls, sealed>>

\* update_user_story and its like, and the deletions.
Edit(c) ==
    \E k \in Edited, new \in {None} \cup Contents :
       /\ table[Status(k[1])] # None
       /\ Begin(c, Writing([Idle EXCEPT !.tool = "edit"], k, new, "flush"))

\* lock_version and unlock_version: read the row, then write it back.
SetStatus(c) ==
    \E v \in Versions, tool \in {"lock", "unlock"} :
       Begin(c, [Idle EXCEPT !.tool = tool, !.v = v, !.pc = "check"])

CheckStatus(c) ==
    /\ At(c, "check")
    /\ LET r == call[c]
           key == Status(r.v)
           new == IF r.tool = "lock" THEN "locked" ELSE "draft" IN
       Continue(c, IF table[key] = None \/ table[key] = new THEN [r EXCEPT !.pc = "flush"]
                   ELSE Writing(r, key, new, "flush"))

-----------------------------------------------------------------------------
ImportProject(c) ==
    \E force \in BOOLEAN, exported \in Exports :
       Begin(c, [Idle EXCEPT !.tool = "import", !.pc = "version", !.todo = Payload, !.force = force,
                             !.exported = exported])

\* The next version of the payload, or the end. A locked one is left alone
\* unless forced; an absent one is registered, a locked one opened.
NextVersion(r) ==
    LET v == Head(r.todo)
        existing == table[Status(v)]
        here == [r EXCEPT !.v = v, !.todo = Tail(@), !.existing = existing] IN
    IF r.todo = <<>> THEN [r EXCEPT !.pc = "flush"]
    ELSE IF existing = "locked" /\ ~r.force THEN here
    ELSE IF existing = "draft" THEN [here EXCEPT !.pc = "list"]
    ELSE Writing(here, Status(v), "draft", "list")

ImportVersion(c) == At(c, "version") /\ Continue(c, NextVersion(call[c]))

\* The ids the version has, read once for the whole snapshot.
ListIds(c) ==
    /\ At(c, "list")
    /\ LET r == call[c] IN
       Continue(c, [r EXCEPT !.pc = "item",
                             !.items = Order,
                             !.known = {id \in Ids : table[<<r.v, id>>] # None}])

\* An id that is there already is skipped, and so is a story of an unknown
\* requirement; the rest of what the payload has is written.
NextItem(r) ==
    LET id == Head(r.items)
        rest == [r EXCEPT !.items = Tail(@)] IN
    IF Data[r.v][id] = None \/ id \in r.known \/ ~(Needs[id] \subseteq r.known) THEN rest
    ELSE Writing([rest EXCEPT !.known = @ \cup {id}], <<r.v, id>>, Data[r.v][id], "item")

\* As ToRestore, but a version that was there is given the exported status.
ToRestoreExported(r) == r.exported[r.v]

\* The status a version is left with: its own, or for a new one the exported.
ToRestore(r) == IF r.existing = None THEN r.exported[r.v] ELSE r.existing

AfterVersion(r) == IF r.failed THEN "flush" ELSE "version"

\* The finally: a version that is to be locked is locked.
Close(r) ==
    IF ToRestore(r) = "locked" THEN Writing(r, Status(r.v), "locked", AfterVersion(r))
    ELSE [r EXCEPT !.pc = AfterVersion(r), !.after = AfterVersion(r)]

ImportItem(c) ==
    /\ At(c, "item")
    /\ Continue(c, IF call[c].items = <<>> THEN [call[c] EXCEPT !.pc = "close"] ELSE NextItem(call[c]))

CloseVersion(c) == At(c, "close") /\ Continue(c, Close(call[c]))

ListFails(c) == At(c, "list") /\ Continue(c, Failed(call[c]))

-----------------------------------------------------------------------------
Step(c) ==
    \/ (ReadBefore(c) \/ Guard(c) \/ Flush(c) \/ FlushFails(c) \/ HangUp(c))
       /\ UNCHANGED <<calls, sealed>>
    \/ Upsert(c) /\ Seal(c) /\ UNCHANGED calls
    \/ WriteFails(c) /\ SealFailed(c) /\ UNCHANGED calls
    \/ Edit(c) \/ SetStatus(c) \/ CheckStatus(c)
    \/ ImportProject(c) \/ ImportVersion(c) \/ ListIds(c) \/ ImportItem(c) \/ CloseVersion(c) \/ ListFails(c)

Next == (\E c \in Clients : Step(c)) \/ (Stop /\ SealStopped /\ UNCHANGED calls)

Spec == Init /\ [][Next]_vars

-----------------------------------------------------------------------------
Pending(k) ==
    LET queues == {call[c].queue[k] : c \in Clients} \ {<<>>} IN
    IF queues = {} THEN <<>> ELSE CHOOSE queue \in queues : TRUE

\* A write whose prior state could not be read is on record as a creation.
Replayed(k, entries) ==
    LET value(n) == IF n = 0 THEN base[k] ELSE entries[n].to IN
    /\ \A n \in DOMAIN entries : entries[n].from = IF entries[n].read THEN value(n - 1) ELSE None
    /\ value(Len(entries)) = table[k]

\* A version that was locked and that nobody opened is locked, except while an
\* import is filling it: a failed or refused write of the import, its force
\* flag, a second import or a lock in the middle of it leave no baseline open
\* (the finally of applyImport).
BaselinesShut == \A v \in sealed : Locked(v) \/ \E c \in Clients : Holding(c, v)

\* Where writes of a row never overlapped and no entry was lost, the entries of
\* the row, replayed, lead from each state to the next and end in the row as it
\* is (recordingStore and flushChanges), but that a write whose prior state could
\* not be read shows as a creation (safeRead).
Replays == \A k \in Keys \ (mixed \cup cut) : Replayed(k, history[k] \o Pending(k))
=============================================================================
