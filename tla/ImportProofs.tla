----------------------------- MODULE ImportProofs -----------------------------
(***************************************************************************)
(* For any number of clients, versions and ids, and wherever a request     *)
(* fails or the process stops: an import leaves no baseline open, and the  *)
(* change history of a row leads to the row as it is.                      *)
(***************************************************************************)
EXTENDS Import, TLAPS

Statuses == {None, "draft", "locked"}
Values == Statuses \cup Contents \cup {Data[v][id] : v \in Versions, id \in Ids}
                   \cup {t[k] : t \in Present, k \in Keys}
Entries == [from : Values, to : Values, read : BOOLEAN]

Calls == [tool : {"none", "edit", "lock", "unlock", "import"},
          pc : {"idle", "before", "guard", "upsert", "flush", "check", "version", "list", "item", "close"},
          v : Versions \cup {None}, key : Keys \cup {None}, new : Values, was : Values,
          after : {"idle", "flush", "list", "item", "version"}, queue : [Keys -> Seq(Entries)],
          force : BOOLEAN, todo : Seq(Versions), items : Seq(Ids), known : SUBSET Ids,
          exported : Exports \cup {None}, existing : Statuses, failed : BOOLEAN,
          read : BOOLEAN, gone : BOOLEAN]

ImportTypeOK ==
    /\ table \in [Keys -> Values] /\ \A v \in Versions : table[Status(v)] \in Statuses
    /\ call \in [Clients -> Calls]
    /\ sealed \subseteq Versions

(***************************************************************************)
(* What a request in the middle of a write writes, and where it goes on.   *)
(***************************************************************************)
Writes(r) == r.pc \in {"before", "guard", "upsert"}

Registers(r) == r.tool = "import" /\ r.after = "list" /\ r.key = Status(r.v) /\ r.new = "draft"
                /\ r.existing # "draft" /\ r.exported \in Exports
Fills(r)     == r.tool = "import" /\ r.after = "item" /\ r.key[1] = r.v /\ r.key[2] # Registry
Restoring(r) == r.tool = "import" /\ r.after \in {"version", "flush"} /\ r.key = Status(r.v) /\ r.new = "locked"
Edits(r)     == r.tool = "edit" /\ r.after = "flush" /\ r.key[2] # Registry
Locks(r)     == r.tool = "lock" /\ r.after = "flush" /\ r.key = Status(r.v) /\ r.new = "locked"
Unlocks(r)   == r.tool = "unlock" /\ r.after = "flush" /\ r.key = Status(r.v) /\ r.new = "draft"

Shape(r) ==
    /\ Writes(r) => /\ r.key \in Keys
                    /\ Registers(r) \/ Fills(r) \/ Restoring(r) \/ Edits(r) \/ Locks(r) \/ Unlocks(r)
    /\ r.pc = "guard" => r.key[2] # Registry
    /\ r.pc \in {"version", "list", "item", "close"} => r.tool = "import"
    /\ r.pc = "check" => r.tool \in {"lock", "unlock"}
    /\ r.tool = "import" => r.exported \in Exports
    /\ Writes(r) /\ ~Edits(r) => r.v \in Versions
    /\ r.pc \in {"check", "list", "item", "close"} => r.v \in Versions

\* The import r will lock v before it goes on.
Restores(r, v) ==
    /\ r.tool = "import" /\ r.v = v /\ ToRestore(r) = "locked"
    /\ r.pc \in {"list", "item", "close"} \/ (Writes(r) /\ r.after # "list")

Shut == \A v \in sealed : Locked(v) \/ \E c \in Clients : Restores(call[c], v)

ImportInv == ImportTypeOK /\ (\A c \in Clients : Shape(call[c])) /\ Shut

-------------------------------------------------------------------------------
LEMMA StatusKeys == \A v \in Versions : Status(v) \in Keys /\ Status(v)[1] = v /\ Status(v)[2] = Registry
BY DEF Status, Keys

LEMMA IdKeys == \A v \in Versions, id \in Ids : <<v, id>> \in Keys /\ <<v, id>>[1] = v /\ <<v, id>>[2] # Registry
BY HistoryAssumption DEF Keys

LEMMA IdleCall == Idle \in Calls /\ Shape(Idle) /\ Idle.pc = "idle" /\ Idle.tool = "none"
<1>1. Idle \in Calls
  <2>1. None \in Values /\ None \in Statuses
    BY DEF Values, Statuses
  <2>2. Nothing \in [Keys -> Seq(Entries)] /\ <<>> \in Seq(Versions) /\ <<>> \in Seq(Ids)
    BY DEF Nothing
  <2> QED
    BY <2>1, <2>2 DEF Idle, Calls
<1>2. Idle.pc = "idle" /\ Idle.tool = "none"
  BY DEF Idle
<1>3. Shape(Idle)
  BY <1>2 DEF Shape, Writes
<1> QED
  BY <1>1, <1>2, <1>3

LEMMA InitInv == Init => ImportInv
<1> SUFFICES ASSUME Init PROVE ImportInv
  OBVIOUS
<1>1. table \in [Keys -> Values]
  <2>1. table \in Present /\ table = [k \in Keys |-> table[k]]
    BY ImportAssumption DEF Init
  <2>2. \A k \in Keys : table[k] \in Values
    BY <2>1 DEF Values
  <2> QED
    BY <2>1, <2>2
<1>2. \A v \in Versions : table[Status(v)] \in Statuses
  BY ImportAssumption DEF Init, Statuses
<1>3. call \in [Clients -> Calls] /\ \A c \in Clients : Shape(call[c])
  BY IdleCall DEF Init
<1>4. sealed \subseteq Versions /\ Shut
  BY DEF Init, Shut
<1> QED
  BY <1>1, <1>2, <1>3, <1>4 DEF ImportInv, ImportTypeOK

-------------------------------------------------------------------------------
(* A step of one request that leaves the table alone.                       *)

LEMMA LocalStep ==
    ASSUME ImportInv, NEW c \in Clients, NEW r \in Calls, Shape(r),
           call' = [call EXCEPT ![c] = r], table' = table, sealed' \subseteq sealed,
           \A v \in sealed' : Restores(call[c], v) => Restores(r, v)
    PROVE  ImportInv'
<1>1. ImportTypeOK'
  BY DEF ImportInv, ImportTypeOK
<1>2. \A d \in Clients : Shape(call'[d])
  BY DEF ImportInv, ImportTypeOK
<1>3. \A d \in Clients : call'[d] = IF d = c THEN r ELSE call[d]
  BY DEF ImportInv, ImportTypeOK
<1>4. ASSUME NEW v \in sealed' PROVE (Locked(v) \/ \E d \in Clients : Restores(call[d], v))'
  <2>1. CASE Locked(v)
    BY <2>1 DEF Locked
  <2>2. CASE \E d \in Clients : Restores(call[d], v)
    <3> PICK d \in Clients : Restores(call[d], v)
      BY <2>2
    <3>1. Restores(call'[d], v)
      BY <1>3, <1>4
    <3> QED
      BY <3>1 DEF Restores, ToRestore, Writes
  <2> QED
    BY <2>1, <2>2, <1>4 DEF ImportInv, Shut
<1>5. \A d \in Clients : Shape(call[d])'
  BY <1>2 DEF Shape, Writes, Registers, Fills, Restoring, Edits, Locks, Unlocks, Status
<1> QED
  BY <1>1, <1>4, <1>5 DEF ImportInv, Shut

-------------------------------------------------------------------------------
(* The queries of a write that leave the table alone.                       *)

LEMMA CallType ==
    ASSUME ImportInv, NEW c \in Clients
    PROVE  call[c] \in Calls /\ Shape(call[c])
BY DEF ImportInv, ImportTypeOK

\* The call once it has read the row it is to write, or has failed to.
ReadCall(q, read) ==
    [q EXCEPT !.was = IF read THEN table[q.key] ELSE None,
              !.read = read \/ table[q.key] = None,
              !.pc = IF q.key[2] = Registry THEN "upsert" ELSE "guard"]

LEMMA ReadCalls ==
    ASSUME ImportInv, NEW c \in Clients, ReadBefore(c)
    PROVE  \E read \in BOOLEAN : call' = [call EXCEPT ![c] = ReadCall(call[c], read)]
<1>1. call[c] \in Calls
  BY CallType
<1>2. PICK read \in BOOLEAN :
         call' = [call EXCEPT ![c].was = IF read THEN table[call[c].key] ELSE None,
                              ![c].read = read \/ table[call[c].key] = None,
                              ![c].pc = IF call[c].key[2] = Registry THEN "upsert" ELSE "guard"]
  BY DEF ReadBefore
<1>3. call' = [call EXCEPT ![c] = ReadCall(call[c], read)]
  BY <1>1, <1>2 DEF ReadCall, Calls, ImportInv, ImportTypeOK
<1> QED
  BY <1>3

LEMMA ReadCallType ==
    ASSUME NEW q \in Calls, NEW read \in BOOLEAN, table[q.key] \in Values
    PROVE  ReadCall(q, read) \in Calls
<1>1. None \in Values
  BY DEF Values, Statuses
<1>2. PICK was \in Values, known \in BOOLEAN, to \in {"upsert", "guard"} :
         ReadCall(q, read) = [q EXCEPT !.was = was, !.read = known, !.pc = to]
  BY <1>1 DEF ReadCall
<1> QED
  BY <1>2 DEF Calls

LEMMA ReadBeforeInv ==
    ASSUME ImportInv, NEW c \in Clients, ReadBefore(c), UNCHANGED sealed
    PROVE  ImportInv'
<1> DEFINE q == call[c]
<1>1. q \in Calls /\ Shape(q) /\ q.pc = "before" /\ Writes(q)
  BY CallType DEF ReadBefore, At, Writes
<1>2. q.key \in Keys /\ table[q.key] \in Values /\ None \in Values
  BY <1>1 DEF Shape, ImportInv, ImportTypeOK, Values, Statuses
<1> PICK read \in BOOLEAN : call' = [call EXCEPT ![c] = ReadCall(q, read)]
  BY ReadCalls
<1> DEFINE r == ReadCall(q, read)
<1>3. r \in Calls
  BY <1>1, <1>2, ReadCallType
<1>4. call' = [call EXCEPT ![c] = r]
  OBVIOUS
<1>5. /\ r.tool = q.tool /\ r.v = q.v /\ r.key = q.key /\ r.new = q.new /\ r.after = q.after
      /\ r.exported = q.exported /\ r.existing = q.existing
      /\ r.pc \in {"upsert", "guard"} /\ (r.pc = "guard" => q.key[2] # Registry)
  BY <1>1 DEF ReadCall, Calls
<1> HIDE DEF q, r
<1>6. Shape(r)
  BY <1>1, <1>5 DEF Shape, Writes, Registers, Fills, Restoring, Edits, Locks, Unlocks
<1>7. \A v : Restores(q, v) => Restores(r, v)
  BY <1>1, <1>5 DEF Restores, Writes, ToRestore
<1>8. q = call[c] /\ table' = table
  BY DEF q, ReadBefore
<1> QED
  BY <1>3, <1>4, <1>6, <1>7, <1>8, LocalStep

\* What a request forgets with a write is what it read before it.
LEMMA ResumedCall ==
    ASSUME NEW q \in Calls, NEW to \in {"flush", "list", "item", "version", "close"}
    PROVE  /\ Resume(q, to) \in Calls /\ Resume(q, to).pc = to /\ Resume(q, to).tool = q.tool
           /\ Resume(q, to).v = q.v /\ Resume(q, to).exported = q.exported
           /\ Resume(q, to).existing = q.existing /\ Resume(q, to).queue = q.queue
<1>1. None \in Values
  BY DEF Values, Statuses
<1> QED
  BY <1>1 DEF Resume, Calls

\* A refused or failed write of an import goes on to the lock it has to restore.
LEMMA FailedCall ==
    ASSUME NEW q \in Calls, Shape(q)
    PROVE  /\ Failed(q) \in Calls
           /\ Failed(q).tool = q.tool /\ Failed(q).v = q.v
           /\ Failed(q).exported = q.exported /\ Failed(q).existing = q.existing
           /\ Failed(q).pc = IF q.pc = "list" \/ q.after = "item" THEN "close" ELSE "flush"
<1>1. PICK to \in {"close", "flush"} : to = IF q.pc = "list" \/ q.after = "item" THEN "close" ELSE "flush"
  OBVIOUS
<1>2. Failed(q) = [Resume(q, to) EXCEPT !.failed = TRUE]
  BY <1>1 DEF Failed
<1> DEFINE r == Resume(q, to)
<1>3. /\ r \in Calls /\ r.pc = to /\ r.tool = q.tool /\ r.v = q.v
      /\ r.exported = q.exported /\ r.existing = q.existing
  BY ResumedCall
<1>4. Failed(q) = [r EXCEPT !.failed = TRUE]
  BY <1>2
<1> DEFINE f == [r EXCEPT !.failed = TRUE]
<1> HIDE DEF r
<1>5. /\ f \in Calls /\ f.pc = r.pc /\ f.tool = r.tool /\ f.v = r.v
      /\ f.exported = r.exported /\ f.existing = r.existing
  BY <1>3 DEF Calls
<1> HIDE DEF f
<1>6. f = Failed(q)
  BY <1>4 DEF f
<1> QED
  BY <1>1, <1>3, <1>5, <1>6

LEMMA FailedShape ==
    ASSUME NEW q \in Calls, Shape(q), Writes(q) \/ q.pc = "list"
    PROVE  Shape(Failed(q))
<1>1. ~Writes(Failed(q))
  BY FailedCall DEF Writes
<1>2. q.after = "item" /\ Writes(q) => q.tool = "import" /\ q.v \in Versions
  BY DEF Shape, Registers, Fills, Restoring, Edits, Locks, Unlocks
<1> QED
  BY <1>1, <1>2, FailedCall DEF Shape

LEMMA GuardInv ==
    ASSUME ImportInv, NEW c \in Clients, Guard(c), UNCHANGED sealed
    PROVE  ImportInv'
<1> DEFINE q == call[c]
           r == Guarded(q)
<1>1. q \in Calls /\ Shape(q) /\ q.pc = "guard" /\ Writes(q)
  BY CallType DEF Guard, At, Writes
<1>2. call' = [call EXCEPT ![c] = r] /\ table' = table
  BY DEF Guard
<1>3. Fills(q) \/ Edits(q)
  BY <1>1, StatusKeys DEF Shape, Registers, Fills, Restoring, Edits, Locks, Unlocks, Status
<1>4. CASE r = Resume(q, q.after)
  <2>1. /\ r \in Calls /\ r.tool = q.tool /\ r.v = q.v /\ r.exported = q.exported
        /\ r.existing = q.existing /\ r.pc = q.after
    BY <1>1, <1>3, <1>4, ResumedCall DEF Fills, Edits
  <2>2. Shape(r) /\ \A v : Restores(q, v) => Restores(r, v)
    <3> HIDE DEF q, r
    <3> QED
      BY <1>1, <1>3, <2>1 DEF Shape, Writes, Fills, Edits, Restores, ToRestore
  <2> QED
    BY <1>2, <2>1, <2>2, LocalStep
<1>5. CASE r = Failed(q)
  <2>1. r \in Calls /\ Shape(r)
    BY <1>1, <1>5, FailedCall, FailedShape
  <2>2. \A v : Restores(q, v) => Restores(r, v)
    <3> HIDE DEF q, r
    <3> QED
      BY <1>1, <1>3, <1>5, FailedCall DEF Fills, Edits, Restores, ToRestore, Writes
  <2> QED
    BY <1>2, <2>1, <2>2, LocalStep
<1>6. CASE r = [q EXCEPT !.pc = "upsert"]
  <2>1. /\ r \in Calls /\ r.tool = q.tool /\ r.v = q.v /\ r.exported = q.exported
        /\ r.existing = q.existing /\ r.pc = "upsert" /\ r.after = q.after /\ r.key = q.key /\ r.new = q.new
    BY <1>1, <1>6 DEF Calls
  <2>2. Shape(r) /\ \A v : Restores(q, v) => Restores(r, v)
    <3> HIDE DEF q, r
    <3> QED
      BY <1>1, <1>3, <2>1 DEF Shape, Writes, Fills, Edits, Restores, ToRestore
  <2> QED
    BY <1>2, <2>1, <2>2, LocalStep
<1> QED
  BY <1>4, <1>5, <1>6 DEF Guarded

LEMMA FlushInv ==
    ASSUME ImportInv, NEW c \in Clients, Flush(c) \/ FlushFails(c), UNCHANGED sealed
    PROVE  ImportInv'
<1>1. call[c].pc = "flush" /\ call' = [call EXCEPT ![c] = Idle] /\ table' = table
  BY DEF Flush, FlushFails, At
<1>2. \A v : ~Restores(call[c], v)
  BY <1>1 DEF Restores, Writes
<1> QED
  BY <1>1, <1>2, IdleCall, LocalStep

LEMMA HangUpInv ==
    ASSUME ImportInv, NEW c \in Clients, HangUp(c), UNCHANGED sealed
    PROVE  ImportInv'
<1> DEFINE q == call[c]
           r == [q EXCEPT !.gone = TRUE, !.queue = Nothing]
<1>1. q \in Calls /\ Shape(q)
  BY CallType
<1>2. call' = [call EXCEPT ![c] = r] /\ table' = table
  BY <1>1 DEF HangUp, Calls, ImportInv, ImportTypeOK
<1>3. Nothing \in [Keys -> Seq(Entries)]
  BY DEF Nothing
<1>4. /\ r \in Calls /\ r.tool = q.tool /\ r.v = q.v /\ r.key = q.key /\ r.new = q.new /\ r.after = q.after
      /\ r.exported = q.exported /\ r.existing = q.existing /\ r.pc = q.pc
  BY <1>1, <1>3 DEF Calls
<1> HIDE DEF r
<1>5. Shape(r)
  BY <1>1, <1>4 DEF Shape, Writes, Registers, Fills, Restoring, Edits, Locks, Unlocks
<1>6. \A v : Restores(q, v) => Restores(r, v)
  BY <1>4 DEF Restores, Writes, ToRestore
<1> QED
  BY <1>2, <1>4, <1>5, <1>6, LocalStep

LEMMA WriteFailsInv ==
    ASSUME ImportInv, NEW c \in Clients, WriteFails(c), SealFailed(c)
    PROVE  ImportInv'
<1> DEFINE q == call[c]
<1>1. q \in Calls /\ Shape(q) /\ q.pc = "upsert" /\ Writes(q)
  BY CallType DEF WriteFails, At, Writes
<1>2. call' = [call EXCEPT ![c] = Failed(q)] /\ table' = table
  BY DEF WriteFails
<1>3. sealed' = IF q.new = "locked" THEN sealed \ {q.key[1]} ELSE sealed
  BY DEF SealFailed
<1>4. Failed(q) \in Calls /\ Shape(Failed(q))
  BY <1>1, FailedCall, FailedShape
<1>5. ASSUME NEW v \in sealed', Restores(q, v) PROVE Restores(Failed(q), v)
  <2>1. q.tool = "import" /\ q.v = v /\ ToRestore(q) = "locked" /\ q.after # "list"
    BY <1>1, <1>5 DEF Restores
  <2>2. Fills(q) \/ Restoring(q)
    BY <1>1, <2>1 DEF Shape, Registers, Edits, Locks, Unlocks
  <2>3. CASE Restoring(q)
    <3>1. v \in Versions
      BY <1>3, <1>5 DEF ImportInv, ImportTypeOK
    <3>2. q.key[1] = v
      BY <2>1, <2>3, <3>1, StatusKeys DEF Restoring
    <3> QED
      BY <1>3, <1>5, <2>3, <3>2 DEF Restoring
  <2>4. CASE Fills(q)
    BY <1>1, <2>1, <2>4, FailedCall DEF Fills, Restores, ToRestore
  <2> QED
    BY <2>2, <2>3, <2>4
<1> QED
  BY <1>2, <1>3, <1>4, <1>5, LocalStep

-------------------------------------------------------------------------------
(* The steps of the handlers between their writes.                          *)

LEMMA WritingCall ==
    ASSUME NEW q \in Calls, NEW key \in Keys, NEW new \in Values,
           NEW after \in {"flush", "list", "item", "version"}
    PROVE  LET r == Writing(q, key, new, after) IN
           /\ r \in Calls /\ r.pc = "before" /\ r.key = key /\ r.new = new /\ r.after = after
           /\ r.tool = q.tool /\ r.v = q.v /\ r.exported = q.exported /\ r.existing = q.existing
BY DEF Writing, Calls

LEMMA BeginInv ==
    ASSUME ImportInv, NEW c \in Clients, NEW r \in Calls, Shape(r), Begin(c, r)
    PROVE  ImportInv'
<1>1. \A v : ~Restores(call[c], v)
  BY DEF Begin, At, Restores, Writes
<1> QED
  BY <1>1, LocalStep DEF Begin

LEMMA EditInv ==
    ASSUME ImportInv, NEW c \in Clients, Edit(c)
    PROVE  ImportInv'
<1> PICK k \in Edited, new \in {None} \cup Contents :
        Begin(c, Writing([Idle EXCEPT !.tool = "edit"], k, new, "flush"))
  BY DEF Edit
<1> DEFINE q == [Idle EXCEPT !.tool = "edit"]
           r == Writing(q, k, new, "flush")
<1>1. k \in Keys /\ k[2] # Registry
  BY ImportAssumption, HistoryAssumption DEF Keys
<1>2. new \in Values
  BY DEF Values, Statuses
<1>3. q \in Calls /\ q.tool = "edit"
  BY IdleCall DEF Calls
<1>4. r \in Calls /\ r.pc = "before" /\ r.key = k /\ r.new = new /\ r.after = "flush" /\ r.tool = "edit"
  <2> HIDE DEF q
  <2> QED
    BY <1>1, <1>2, <1>3, WritingCall
<1> HIDE DEF r
<1>5. Shape(r)
  BY <1>1, <1>4 DEF Shape, Writes, Edits
<1>6. Begin(c, r)
  BY DEF r
<1> QED
  BY <1>4, <1>5, <1>6, BeginInv

LEMMA SetStatusInv ==
    ASSUME ImportInv, NEW c \in Clients, SetStatus(c)
    PROVE  ImportInv'
<1> PICK v \in Versions, tool \in {"lock", "unlock"} :
        Begin(c, [Idle EXCEPT !.tool = tool, !.v = v, !.pc = "check"])
  BY DEF SetStatus
<1> DEFINE r == [Idle EXCEPT !.tool = tool, !.v = v, !.pc = "check"]
<1>1. r \in Calls /\ r.tool = tool /\ r.v = v /\ r.pc = "check"
  BY IdleCall DEF Calls
<1>2. Begin(c, r)
  OBVIOUS
<1> HIDE DEF r
<1>3. Shape(r)
  BY <1>1 DEF Shape, Writes, Edits
<1> QED
  BY <1>1, <1>2, <1>3, BeginInv

\* A step that reads the table and goes on.
LEMMA ContinueInv ==
    ASSUME ImportInv, NEW c \in Clients, NEW r \in Calls, Shape(r), Continue(c, r),
           \A v : Restores(call[c], v) => Restores(r, v)
    PROVE  ImportInv'
BY LocalStep DEF Continue

LEMMA CheckStatusInv ==
    ASSUME ImportInv, NEW c \in Clients, CheckStatus(c)
    PROVE  ImportInv'
<1> DEFINE q == call[c]
           key == Status(q.v)
           new == IF q.tool = "lock" THEN "locked" ELSE "draft"
<1>1. q \in Calls /\ Shape(q) /\ q.pc = "check"
  BY CallType DEF CheckStatus, At
<1>2. q.tool \in {"lock", "unlock"} /\ q.v \in Versions /\ key \in Keys /\ new \in Values
  BY <1>1, StatusKeys DEF Shape, Values, Statuses
<1>3. \A v : ~Restores(q, v)
  BY <1>1 DEF Restores, Writes
<1>4. CASE Continue(c, [q EXCEPT !.pc = "flush"])
  <2> DEFINE r == [q EXCEPT !.pc = "flush"]
  <2>1. r \in Calls /\ r.pc = "flush" /\ r.tool = q.tool
    BY <1>1 DEF Calls
  <2>2. Shape(r)
    <3> HIDE DEF r
    <3> QED
      BY <1>2, <2>1 DEF Shape, Writes
  <2> QED
    BY <1>3, <1>4, <2>1, <2>2, ContinueInv
<1>5. CASE Continue(c, Writing(q, key, new, "flush"))
  <2> DEFINE r == Writing(q, key, new, "flush")
  <2>1. r \in Calls /\ r.pc = "before" /\ r.key = key /\ r.new = new /\ r.after = "flush" /\ r.tool = q.tool /\ r.v = q.v
    BY <1>1, <1>2, WritingCall
  <2>2. Shape(r)
    <3> HIDE DEF r
    <3> QED
      BY <1>2, <2>1 DEF Shape, Writes, Locks, Unlocks
  <2> QED
    BY <1>3, <1>5, <2>1, <2>2, ContinueInv
<1> QED
  BY <1>4, <1>5 DEF CheckStatus

LEMMA ImportProjectInv ==
    ASSUME ImportInv, NEW c \in Clients, ImportProject(c)
    PROVE  ImportInv'
<1> PICK force \in BOOLEAN, exported \in Exports :
        Begin(c, [Idle EXCEPT !.tool = "import", !.pc = "version", !.todo = Payload, !.force = force,
                              !.exported = exported])
  BY DEF ImportProject
<1> DEFINE r == [Idle EXCEPT !.tool = "import", !.pc = "version", !.todo = Payload, !.force = force,
                             !.exported = exported]
<1>1. r \in Calls /\ r.tool = "import" /\ r.pc = "version" /\ r.exported \in Exports
  BY IdleCall, ImportAssumption DEF Calls
<1>2. Begin(c, r)
  OBVIOUS
<1> HIDE DEF r
<1>3. Shape(r)
  BY <1>1 DEF Shape, Writes
<1> QED
  BY <1>1, <1>2, <1>3, BeginInv

LEMMA ImportVersionInv ==
    ASSUME ImportInv, NEW c \in Clients, ImportVersion(c)
    PROVE  ImportInv'
<1> DEFINE q == call[c]
           v == Head(q.todo)
           existing == table[Status(v)]
           here == [q EXCEPT !.v = v, !.todo = Tail(@), !.existing = existing]
<1>1. q \in Calls /\ Shape(q) /\ q.pc = "version" /\ q.tool = "import" /\ q.exported \in Exports
  BY CallType DEF ImportVersion, At, Shape
<1>2. Continue(c, NextVersion(q))
  BY DEF ImportVersion
<1>3. \A w : ~Restores(q, w)
  BY <1>1 DEF Restores, Writes
<1>4. CASE q.todo = <<>>
  <2> DEFINE r == [q EXCEPT !.pc = "flush"]
  <2>1. r \in Calls /\ r.pc = "flush" /\ r.tool = q.tool /\ r.exported = q.exported
    BY <1>1 DEF Calls
  <2>2. Shape(r)
    <3> HIDE DEF r
    <3> QED
      BY <1>1, <2>1 DEF Shape, Writes
  <2>3. Continue(c, r)
    BY <1>2, <1>4 DEF NextVersion
  <2> QED
    BY <1>3, <2>1, <2>2, <2>3, ContinueInv
<1>5. CASE q.todo # <<>>
  <2>1. v \in Versions /\ Tail(q.todo) \in Seq(Versions) /\ existing \in Statuses
    <3>1. q.todo \in Seq(Versions)
      BY <1>1 DEF Calls
    <3>2. v \in Versions /\ Tail(q.todo) \in Seq(Versions)
      BY <1>5, <3>1
    <3> QED
      BY <3>2 DEF ImportInv, ImportTypeOK
  <2>2. /\ here \in Calls /\ here.v = v /\ here.existing = existing /\ here.tool = "import"
        /\ here.exported = q.exported /\ here.pc = "version"
    BY <1>1, <2>1 DEF Calls
  <2>3. \/ Continue(c, here)
        \/ Continue(c, [here EXCEPT !.pc = "list"])
        \/ existing # "draft" /\ Continue(c, Writing(here, Status(v), "draft", "list"))
    BY <1>2, <1>5 DEF NextVersion
  <2> HIDE DEF here, v, existing
  <2>4. CASE Continue(c, here)
    <3>1. Shape(here)
      BY <1>1, <2>2 DEF Shape, Writes
    <3> QED
      BY <1>3, <2>2, <2>4, <3>1, ContinueInv
  <2>5. CASE Continue(c, [here EXCEPT !.pc = "list"])
    <3> DEFINE r == [here EXCEPT !.pc = "list"]
    <3>1. r \in Calls /\ r.pc = "list" /\ r.tool = "import" /\ r.exported = q.exported /\ r.v = v
      BY <2>2 DEF Calls
    <3>2. Shape(r)
      <4> HIDE DEF r
      <4> QED
        BY <1>1, <2>1, <3>1 DEF Shape, Writes
    <3> QED
      BY <1>3, <2>5, <3>1, <3>2, ContinueInv
  <2>6. CASE existing # "draft" /\ Continue(c, Writing(here, Status(v), "draft", "list"))
    <3> DEFINE r == Writing(here, Status(v), "draft", "list")
    <3>1. "draft" \in Values /\ Status(v) \in Keys
      BY <2>1, StatusKeys DEF Values, Statuses
    <3>2. /\ r \in Calls /\ r.pc = "before" /\ r.key = Status(v) /\ r.new = "draft" /\ r.after = "list"
          /\ r.tool = "import" /\ r.v = v /\ r.exported = q.exported /\ r.existing = existing
      BY <2>2, <3>1, WritingCall
    <3>3. Shape(r)
      <4> HIDE DEF r
      <4> QED
        BY <1>1, <2>1, <2>6, <3>1, <3>2 DEF Shape, Writes, Registers
    <3> QED
      BY <1>3, <2>6, <3>2, <3>3, ContinueInv
  <2> QED
    BY <2>3, <2>4, <2>5, <2>6
<1> QED
  BY <1>4, <1>5

LEMMA ListIdsInv ==
    ASSUME ImportInv, NEW c \in Clients, ListIds(c)
    PROVE  ImportInv'
<1> DEFINE q == call[c]
           r == [q EXCEPT !.pc = "item", !.items = Order,
                          !.known = {id \in Ids : table[<<q.v, id>>] # None}]
<1>1. q \in Calls /\ Shape(q) /\ q.pc = "list" /\ q.tool = "import" /\ q.exported \in Exports /\ q.v \in Versions
  BY CallType DEF ListIds, At, Shape
<1>2. /\ r \in Calls /\ r.pc = "item" /\ r.tool = "import" /\ r.v = q.v
      /\ r.exported = q.exported /\ r.existing = q.existing
  BY <1>1, ImportAssumption DEF Calls
<1>3. Continue(c, r)
  BY DEF ListIds
<1>4. \A v : Restores(q, v) => Restores(r, v)
  <2> HIDE DEF q, r
  <2> QED
    BY <1>1, <1>2 DEF Restores, ToRestore, Writes
<1>5. Shape(r)
  <2> HIDE DEF q, r
  <2> QED
    BY <1>1, <1>2 DEF Shape, Writes
<1> QED
  BY <1>2, <1>3, <1>4, <1>5, ContinueInv

LEMMA ListFailsInv ==
    ASSUME ImportInv, NEW c \in Clients, ListFails(c)
    PROVE  ImportInv'
<1>1. call[c] \in Calls /\ Shape(call[c]) /\ call[c].pc = "list"
  BY CallType DEF ListFails, At
<1>2. Failed(call[c]) \in Calls /\ Shape(Failed(call[c]))
  BY <1>1, FailedCall, FailedShape
<1>3. \A v : Restores(call[c], v) => Restores(Failed(call[c]), v)
  BY <1>1, FailedCall DEF Restores, ToRestore, Writes
<1> QED
  BY <1>2, <1>3, ContinueInv DEF ListFails

LEMMA ImportItemInv ==
    ASSUME ImportInv, NEW c \in Clients, ImportItem(c)
    PROVE  ImportInv'
<1> DEFINE q == call[c]
<1>1. q \in Calls /\ Shape(q) /\ q.pc = "item" /\ q.tool = "import" /\ q.exported \in Exports /\ q.v \in Versions
  BY CallType DEF ImportItem, At, Shape
<1>2. Continue(c, IF q.items = <<>> THEN [q EXCEPT !.pc = "close"] ELSE NextItem(q))
  BY DEF ImportItem
<1>3. CASE q.items = <<>>
  <2> DEFINE r == [q EXCEPT !.pc = "close"]
  <2>1. /\ r \in Calls /\ r.pc = "close" /\ r.tool = "import" /\ r.v = q.v
        /\ r.exported = q.exported /\ r.existing = q.existing
    BY <1>1 DEF Calls
  <2>2. Shape(r) /\ \A v : Restores(q, v) => Restores(r, v)
    <3> HIDE DEF q, r
    <3> QED
      BY <1>1, <2>1 DEF Shape, Writes, Restores, ToRestore
  <2> QED
    BY <1>2, <1>3, <2>1, <2>2, ContinueInv
<1>4. CASE q.items # <<>>
  <2> DEFINE id == Head(q.items)
             rest == [q EXCEPT !.items = Tail(@)]
             more == [rest EXCEPT !.known = @ \cup {id}]
             r == Writing(more, <<q.v, id>>, Data[q.v][id], "item")
  <2>1. id \in Ids /\ Tail(q.items) \in Seq(Ids)
    <3>1. q.items \in Seq(Ids)
      BY <1>1 DEF Calls
    <3> QED
      BY <1>4, <3>1
  <2>2. /\ rest \in Calls /\ rest.pc = "item" /\ rest.tool = "import" /\ rest.v = q.v
        /\ rest.exported = q.exported /\ rest.existing = q.existing
    BY <1>1, <2>1 DEF Calls
  <2>3. /\ more \in Calls /\ more.pc = "item" /\ more.tool = "import" /\ more.v = q.v
        /\ more.exported = q.exported /\ more.existing = q.existing
    <3> HIDE DEF rest
    <3> QED
      BY <2>1, <2>2 DEF Calls
  <2>4. Data[q.v][id] \in Values /\ <<q.v, id>> \in Keys /\ <<q.v, id>>[1] = q.v /\ <<q.v, id>>[2] # Registry
    BY <1>1, <2>1, IdKeys DEF Values
  <2>5. /\ r \in Calls /\ r.pc = "before" /\ r.key = <<q.v, id>> /\ r.after = "item" /\ r.tool = "import"
        /\ r.v = q.v /\ r.exported = q.exported /\ r.existing = q.existing
    <3> DEFINE key == <<q.v, id>>
               new == Data[q.v][id]
    <3>1. more \in Calls /\ key \in Keys /\ new \in Values
      BY <2>3, <2>4
    <3>2. r = Writing(more, key, new, "item")
      OBVIOUS
    <3> HIDE DEF q, id, rest, more, r, key, new
    <3>3. r \in Calls /\ r.pc = "before" /\ r.key = key /\ r.after = "item" /\ r.tool = more.tool
          /\ r.v = more.v /\ r.exported = more.exported /\ r.existing = more.existing
      BY <3>1, <3>2, WritingCall
    <3> QED
      BY <2>3, <3>3 DEF key
  <2>6. Continue(c, rest) \/ Continue(c, r)
    BY <1>2, <1>4 DEF NextItem
  <2>7. CASE Continue(c, rest)
    <3>1. Shape(rest) /\ \A v : Restores(q, v) => Restores(rest, v)
      <4> HIDE DEF q, rest
      <4> QED
        BY <1>1, <2>2 DEF Shape, Writes, Restores, ToRestore
    <3> QED
      BY <2>2, <2>7, <3>1, ContinueInv
  <2>8. CASE Continue(c, r)
    <3>1. Shape(r) /\ \A v : Restores(q, v) => Restores(r, v)
      <4> HIDE DEF q, r, id
      <4> QED
        BY <1>1, <2>4, <2>5 DEF Shape, Writes, Fills, Restores, ToRestore
    <3> QED
      BY <2>5, <2>8, <3>1, ContinueInv
  <2> QED
    BY <2>6, <2>7, <2>8
<1> QED
  BY <1>3, <1>4

LEMMA CloseVersionInv ==
    ASSUME ImportInv, NEW c \in Clients, CloseVersion(c)
    PROVE  ImportInv'
<1> DEFINE q == call[c]
<1>1. q \in Calls /\ Shape(q) /\ q.pc = "close" /\ q.tool = "import" /\ q.exported \in Exports /\ q.v \in Versions
  BY CallType DEF CloseVersion, At, Shape
<1>2. Continue(c, Close(q))
  BY DEF CloseVersion
<1>3. AfterVersion(q) \in {"version", "flush"}
  BY DEF AfterVersion
<1>4. CASE ToRestore(q) = "locked"
  <2> DEFINE r == Writing(q, Status(q.v), "locked", AfterVersion(q))
  <2>1. "locked" \in Values /\ Status(q.v) \in Keys
    BY <1>1, StatusKeys DEF Values, Statuses
  <2>2. /\ r \in Calls /\ r.pc = "before" /\ r.key = Status(q.v) /\ r.new = "locked"
        /\ r.after = AfterVersion(q) /\ r.tool = "import" /\ r.v = q.v
        /\ r.exported = q.exported /\ r.existing = q.existing
    BY <1>1, <1>3, <2>1, WritingCall
  <2>3. Shape(r) /\ \A v : Restores(q, v) => Restores(r, v)
    <3> HIDE DEF q, r
    <3> QED
      BY <1>1, <1>3, <2>1, <2>2 DEF Shape, Writes, Restoring, Restores, ToRestore
  <2> QED
    BY <1>2, <1>4, <2>2, <2>3, ContinueInv DEF Close
<1>5. CASE ToRestore(q) # "locked"
  <2> DEFINE r == [q EXCEPT !.pc = AfterVersion(q), !.after = AfterVersion(q)]
  <2>1. r \in Calls /\ r.pc = AfterVersion(q) /\ r.tool = "import" /\ r.exported = q.exported
    BY <1>1, <1>3 DEF Calls
  <2>2. Shape(r)
    <3> HIDE DEF q, r
    <3> QED
      BY <1>1, <1>3, <2>1 DEF Shape, Writes
  <2>3. \A v : ~Restores(q, v)
    BY <1>5 DEF Restores
  <2> QED
    BY <1>2, <1>5, <2>1, <2>2, <2>3, ContinueInv DEF Close
<1> QED
  BY <1>4, <1>5

-------------------------------------------------------------------------------
(* The write itself, and the stop.                                          *)

LEMMA WriteStep ==
    ASSUME ImportInv, NEW c \in Clients, NEW r \in Calls, Shape(r),
           NEW k \in Keys, NEW new \in Values, k[2] = Registry => new \in Statuses,
           table' = [table EXCEPT ![k] = new], call' = [call EXCEPT ![c] = r], sealed' \subseteq Versions,
           \A v \in sealed' :
              \/ table'[Status(v)] = "locked"
              \/ Restores(r, v)
              \/ v \in sealed /\ k # Status(v) /\ (Restores(call[c], v) => Restores(r, v))
    PROVE  ImportInv'
<1>1. \A key \in Keys : table'[key] = IF key = k THEN new ELSE table[key]
  BY DEF ImportInv, ImportTypeOK
<1>2. \A d \in Clients : call'[d] = IF d = c THEN r ELSE call[d]
  BY DEF ImportInv, ImportTypeOK
<1>3. ImportTypeOK'
  <2>1. table' \in [Keys -> Values] /\ call' \in [Clients -> Calls]
    BY DEF ImportInv, ImportTypeOK
  <2>2. ASSUME NEW v \in Versions PROVE table'[Status(v)] \in Statuses
    BY <1>1, StatusKeys DEF ImportInv, ImportTypeOK
  <2>3. \A v \in Versions : Status(v)' = Status(v)
    BY DEF Status
  <2> QED
    BY <2>1, <2>2, <2>3 DEF ImportTypeOK
<1>4. \A d \in Clients : Shape(call[d])'
  <2>1. \A d \in Clients : Shape(call'[d])
    BY <1>2 DEF ImportInv
  <2> QED
    BY <2>1 DEF Shape, Writes, Registers, Fills, Restoring, Edits, Locks, Unlocks, Status
<1>5. ASSUME NEW v \in sealed' PROVE (Locked(v) \/ \E d \in Clients : Restores(call[d], v))'
  <2>1. CASE table'[Status(v)] = "locked"
    BY <2>1 DEF Locked, Status
  <2>2. CASE Restores(r, v)
    <3>1. Restores(call'[c], v)
      BY <1>2, <2>2
    <3> QED
      BY <3>1 DEF Restores, ToRestore, Writes
  <2>3. CASE v \in sealed /\ k # Status(v) /\ (Restores(call[c], v) => Restores(r, v))
    <3>1. CASE Locked(v)
      <4>1. table'[Status(v)] = "locked"
        BY <1>1, <2>3, <3>1, StatusKeys DEF Locked, ImportInv, ImportTypeOK
      <4> QED
        BY <4>1 DEF Locked, Status
    <3>2. CASE \E d \in Clients : Restores(call[d], v)
      <4> PICK d \in Clients : Restores(call[d], v)
        BY <3>2
      <4>1. Restores(call'[d], v)
        BY <1>2, <2>3
      <4> QED
        BY <4>1 DEF Restores, ToRestore, Writes
    <3> QED
      BY <2>3, <3>1, <3>2 DEF ImportInv, Shut
  <2> QED
    BY <1>5, <2>1, <2>2, <2>3
<1> QED
  BY <1>3, <1>4, <1>5 DEF ImportInv, Shut

LEMMA RecordedCall ==
    ASSUME NEW q \in Calls, q.key \in Keys, q.after # "idle"
    PROVE  /\ Recorded(q) \in Calls /\ Recorded(q).pc = q.after
           /\ Recorded(q).tool = q.tool /\ Recorded(q).v = q.v
           /\ Recorded(q).exported = q.exported /\ Recorded(q).existing = q.existing
<1> DEFINE entries == IF q.new # None /\ q.was = q.new THEN q.queue[q.key] ELSE Append(q.queue[q.key], Entry(q))
           queue == [q.queue EXCEPT ![q.key] = entries]
<1>1. Entry(q) \in Entries
  BY DEF Entry, Entries, Calls
<1>2. queue \in [Keys -> Seq(Entries)]
  <2>1. q.queue[q.key] \in Seq(Entries) /\ q.queue \in [Keys -> Seq(Entries)]
    BY DEF Calls
  <2>2. entries \in Seq(Entries)
    BY <1>1, <2>1
  <2> HIDE DEF entries
  <2> QED
    BY <2>1, <2>2
<1>3. Recorded(q) = [Resume(q, q.after) EXCEPT !.queue = queue]
  BY DEF Recorded, Resume, Calls
<1>4. None \in Values
  BY DEF Values, Statuses
<1> HIDE DEF queue
<1> QED
  BY <1>2, <1>3, <1>4 DEF Calls, Resume

\* Of the writes, only those of a version's row touch sealed; of these a lock
\* adds, an unlock and a registration as a draft remove, and one that opens a
\* locked version makes its import owe the lock.
LEMMA UpsertInv ==
    ASSUME ImportInv, NEW c \in Clients, Upsert(c), Seal(c)
    PROVE  ImportInv'
<1> DEFINE q == call[c]
           r == Recorded(q)
<1>1. q \in Calls /\ Shape(q) /\ q.pc = "upsert" /\ Writes(q)
  BY CallType DEF Upsert, At, Writes
<1>2. table' = [table EXCEPT ![q.key] = q.new] /\ call' = [call EXCEPT ![c] = r]
  BY DEF Upsert
<1>3. /\ q.key \in Keys /\ q.new \in Values
      /\ Registers(q) \/ Fills(q) \/ Restoring(q) \/ Edits(q) \/ Locks(q) \/ Unlocks(q)
      /\ ~Edits(q) => q.v \in Versions
  BY <1>1 DEF Shape, Calls
<1>4. /\ r \in Calls /\ r.pc = q.after /\ r.tool = q.tool /\ r.v = q.v
      /\ r.exported = q.exported /\ r.existing = q.existing
  BY <1>1, <1>3, RecordedCall DEF Registers, Fills, Restoring, Edits, Locks, Unlocks
<1>5. Shape(r)
  <2> HIDE DEF q, r
  <2> QED
    BY <1>1, <1>3, <1>4 DEF Shape, Writes, Registers, Fills, Restoring, Edits, Locks, Unlocks
<1>6. q.key[2] = Registry => q.new \in Statuses /\ q.key = Status(q.v) /\ q.key[1] = q.v /\ q.v \in Versions
  BY <1>3, StatusKeys DEF Registers, Fills, Restoring, Edits, Locks, Unlocks, Statuses
<1>7. table'[q.key] = q.new
  BY <1>2, <1>3 DEF ImportInv, ImportTypeOK
<1>8. sealed' = IF q.key[2] # Registry THEN sealed
                ELSE IF q.new = "locked" THEN sealed \cup {q.key[1]}
                ELSE IF Opens(q, q.key[1]) THEN sealed \ {q.key[1]}
                ELSE sealed
  BY DEF Seal
<1>9. sealed' \subseteq Versions
  BY <1>6, <1>8 DEF ImportInv, ImportTypeOK
<1>10. ASSUME NEW v \in sealed'
       PROVE  \/ table'[Status(v)] = "locked"
              \/ Restores(r, v)
              \/ v \in sealed /\ q.key # Status(v) /\ (Restores(q, v) => Restores(r, v))
  <2>1. v \in Versions /\ Status(v)[1] = v /\ Status(v)[2] = Registry
    BY <1>9, StatusKeys
  <2>2. CASE q.key[2] # Registry
    <3>1. v \in sealed /\ q.key # Status(v)
      BY <1>8, <2>1, <2>2
    <3>2. Fills(q) \/ Edits(q)
      BY <1>3, <2>2, StatusKeys DEF Registers, Restoring, Locks, Unlocks
    <3>3. Restores(q, v) => Restores(r, v)
      <4> HIDE DEF q, r
      <4> QED
        BY <1>4, <3>2 DEF Restores, ToRestore, Fills, Edits
    <3> QED
      BY <3>1, <3>3
  <2>3. CASE q.key[2] = Registry /\ q.new = "locked"
    <3>1. CASE v = q.v
      BY <1>6, <1>7, <2>3, <3>1
    <3>2. CASE v # q.v
      <4>1. v \in sealed /\ q.key # Status(v) /\ ~Restores(q, v)
        BY <1>6, <1>8, <2>1, <2>3, <3>2 DEF Restores
      <4> QED
        BY <4>1
    <3> QED
      BY <3>1, <3>2
  <2>4. CASE q.key[2] = Registry /\ q.new # "locked"
    <3>1. Registers(q) \/ Unlocks(q)
      BY <1>3, <2>4 DEF Fills, Restoring, Edits, Locks
    <3>2. CASE v = q.v
      <4>1. ~Opens(q, v) /\ v \in sealed
        BY <1>6, <1>8, <2>4, <3>2
      <4>2. Registers(q) /\ (q.existing = None => q.exported[v] # "draft")
        BY <3>1, <4>1 DEF Opens, Unlocks, Registers
      <4>3. ToRestore(q) = "locked"
        <5>1. q.existing \in Statuses /\ q.existing # "draft"
          BY <1>1, <4>2 DEF Calls, Registers
        <5>2. q.exported[v] \in {"draft", "locked"}
          BY <2>1, <4>2, ImportAssumption DEF Registers
        <5> QED
          BY <3>2, <4>2, <5>1, <5>2 DEF ToRestore, Statuses
      <4>4. Restores(r, v)
        <5> HIDE DEF q, r
        <5> QED
          BY <1>4, <3>2, <4>2, <4>3 DEF Restores, ToRestore, Registers
      <4> QED
        BY <4>4
    <3>3. CASE v # q.v
      <4>1. v \in sealed /\ q.key # Status(v) /\ ~Restores(q, v)
        BY <1>6, <1>8, <2>1, <2>4, <3>3 DEF Restores
      <4> QED
        BY <4>1
    <3> QED
      BY <3>2, <3>3
  <2> QED
    BY <2>2, <2>3, <2>4
<1> HIDE DEF r
<1> QED
  BY <1>2, <1>3, <1>4, <1>5, <1>6, <1>9, <1>10, WriteStep

LEMMA StopInv ==
    ASSUME ImportInv, Stop, SealStopped
    PROVE  ImportInv'
<1>1. call' = [c \in Clients |-> Idle] /\ table' = table
  BY DEF Stop
<1>2. sealed' = {v \in sealed : \A c \in Clients : ~Holding(c, v)}
  BY DEF SealStopped
<1>3. ImportTypeOK'
  BY <1>1, <1>2, IdleCall DEF ImportInv, ImportTypeOK, Status
<1>4. \A c \in Clients : Shape(call[c])'
  <2>1. \A c \in Clients : Shape(call'[c])
    BY <1>1, IdleCall
  <2> QED
    BY <2>1 DEF Shape, Writes, Registers, Fills, Restoring, Edits, Locks, Unlocks, Status
<1>5. ASSUME NEW v \in sealed' PROVE Locked(v)'
  <2>1. v \in sealed /\ \A c \in Clients : ~Holding(c, v)
    BY <1>2
  <2>2. \A c \in Clients : ~Restores(call[c], v)
    BY <2>1 DEF Restores, Holding, Writes
  <2> QED
    BY <1>1, <2>1, <2>2 DEF ImportInv, Shut, Locked, Status
<1> QED
  BY <1>3, <1>4, <1>5 DEF ImportInv, Shut

-------------------------------------------------------------------------------
LEMMA StepInv == ASSUME ImportInv, [Next]_vars PROVE ImportInv'
<1>1. ASSUME NEW c \in Clients, Step(c) PROVE ImportInv'
  <2>1. CASE (ReadBefore(c) \/ Guard(c) \/ Flush(c) \/ FlushFails(c) \/ HangUp(c)) /\ UNCHANGED <<calls, sealed>>
    BY <2>1, ReadBeforeInv, GuardInv, FlushInv, HangUpInv
  <2>2. CASE Upsert(c) /\ Seal(c) /\ UNCHANGED calls
    BY <2>2, UpsertInv
  <2>3. CASE WriteFails(c) /\ SealFailed(c) /\ UNCHANGED calls
    BY <2>3, WriteFailsInv
  <2>4. CASE Edit(c)
    BY <2>4, EditInv
  <2>5. CASE SetStatus(c)
    BY <2>5, SetStatusInv
  <2>6. CASE CheckStatus(c)
    BY <2>6, CheckStatusInv
  <2>7. CASE ImportProject(c)
    BY <2>7, ImportProjectInv
  <2>8. CASE ImportVersion(c)
    BY <2>8, ImportVersionInv
  <2>9. CASE ListIds(c)
    BY <2>9, ListIdsInv
  <2>10. CASE ImportItem(c)
    BY <2>10, ImportItemInv
  <2>11. CASE CloseVersion(c)
    BY <2>11, CloseVersionInv
  <2>12. CASE ListFails(c)
    BY <2>12, ListFailsInv
  <2> QED
    BY <1>1, <2>1, <2>2, <2>3, <2>4, <2>5, <2>6, <2>7, <2>8, <2>9, <2>10, <2>11, <2>12 DEF Step
<1>2. CASE Stop /\ SealStopped /\ UNCHANGED calls
  BY <1>2, StopInv
<1>3. CASE UNCHANGED vars
  BY <1>3 DEF vars, ImportInv, ImportTypeOK, Shape, Writes, Registers, Fills, Restoring, Edits, Locks,
              Unlocks, Status, Shut, Locked, Restores, ToRestore
<1> QED
  BY <1>1, <1>2, <1>3 DEF Next

LEMMA ShutBaselines == ImportInv => BaselinesShut
<1> SUFFICES ASSUME ImportInv, NEW v \in sealed
             PROVE  Locked(v) \/ \E c \in Clients : Holding(c, v)
  BY DEF BaselinesShut
<1>1. CASE \E c \in Clients : Restores(call[c], v)
  BY <1>1 DEF Restores, Holding, Writes
<1> QED
  BY <1>1 DEF ImportInv, Shut

\* Whatever else is written meanwhile, and wherever the process stops or a
\* query fails, applyImport leaves no version open that was locked and that
\* neither an unlock, nor its own registration as a draft, nor the stop or the
\* failure of the restoring write itself opened.
THEOREM BaselinesStayShut == Spec => []BaselinesShut
<1>1. Init => ImportInv
  BY InitInv
<1>2. ImportInv /\ [Next]_vars => ImportInv'
  BY StepInv
<1>3. ImportInv => BaselinesShut
  BY ShutBaselines
<1> QED
  BY <1>1, <1>2, <1>3, PTL DEF Spec

-------------------------------------------------------------------------------
(* The change history. Of a row that no two requests wrote at once, and no  *)
(* entry of which was lost, one request at most has anything in flight; it  *)
(* knows the row as it is, and its queue goes on where the history ends.    *)

Waiting(r) == r.pc \in {"guard", "upsert"}

Whole(k) == k \in Keys \ (mixed \cup cut)

Alone(k) == \A c, d \in Clients : k \in Touched(call[c]) /\ k \in Touched(call[d]) => c = d

\* What a read of x finds, None when it fails.
Found(read, x) == IF read THEN x ELSE None

Fresh(k) ==
    \A c \in Clients : Waiting(call[c]) /\ call[c].key = k => call[c].was = Found(call[c].read, table[k])

\* The entries lead from b to t, but one whose prior state could not be read
\* begins with nothing.
Chain(b, entries, t) ==
    /\ \A n \in DOMAIN entries :
          entries[n].from = Found(entries[n].read, IF n = 1 THEN b ELSE entries[n - 1].to)
    /\ t = IF entries = <<>> THEN b ELSE entries[Len(entries)].to

Stored(k) == (\A c \in Clients : call[c].queue[k] = <<>>) => Chain(base[k], history[k], table[k])

Queueing(k) ==
    \A c \in Clients :
        call[c].queue[k] # <<>> => Chain(base[k], history[k] \o call[c].queue[k], table[k])

TrackInv ==
    /\ history \in [Keys -> Seq(Entries)]
    /\ \A c \in Clients : call[c].pc = "idle" => call[c].queue = Nothing
    /\ \A k \in Keys : Whole(k) => Alone(k) /\ Fresh(k) /\ Stored(k) /\ Queueing(k)

LEMMA ChainIsReplayed ==
    ASSUME NEW k, NEW entries \in Seq(Entries), Chain(base[k], entries, table[k])
    PROVE  Replayed(k, entries)
<1>1. DOMAIN entries = 1..Len(entries) /\ Len(entries) \in Nat
  OBVIOUS
<1>2. entries = <<>> <=> Len(entries) = 0
  OBVIOUS
<1>3. \A n \in DOMAIN entries : (n = 1 <=> n - 1 = 0)
  BY <1>1
<1> QED
  BY <1>1, <1>2, <1>3 DEF Chain, Replayed, Found

LEMMA ChainGoesOn ==
    ASSUME NEW b, NEW t, NEW entries \in Seq(Entries), NEW e \in Entries, Chain(b, entries, t),
           e.from = Found(e.read, t)
    PROVE  Chain(b, Append(entries, e), e.to)
<1> DEFINE more == Append(entries, e)
<1>1. Len(more) = Len(entries) + 1 /\ Len(entries) \in Nat /\ DOMAIN more = 1..Len(entries) + 1
  OBVIOUS
<1>2. more[Len(more)] = e /\ more # <<>>
  OBVIOUS
<1>3. \A n \in 1..Len(entries) : more[n] = entries[n]
  OBVIOUS
<1>4. DOMAIN entries = 1..Len(entries) /\ (entries = <<>> <=> Len(entries) = 0)
  OBVIOUS
<1> HIDE DEF more
<1>5. ASSUME NEW n \in DOMAIN more PROVE more[n].from = Found(more[n].read, IF n = 1 THEN b ELSE more[n - 1].to)
  <2>1. CASE n = Len(entries) + 1
    BY <1>1, <1>2, <1>3, <1>4, <2>1 DEF Chain
  <2>2. CASE n # Len(entries) + 1
    <3>1. n \in 1..Len(entries)
      BY <1>1, <2>2
    <3>2. n # 1 => n - 1 \in 1..Len(entries)
      BY <1>1, <3>1
    <3> QED
      BY <1>3, <1>4, <3>1, <3>2 DEF Chain
  <2> QED
    BY <2>1, <2>2
<1>6. Chain(b, more, e.to)
  BY <1>2, <1>5 DEF Chain
<1> QED
  BY <1>6 DEF more

LEMMA ChainStarts == \A b : Chain(b, <<>>, b)
BY DEF Chain

LEMMA Appended ==
    ASSUME NEW h \in Seq(Entries), NEW q \in Seq(Entries), NEW e \in Entries
    PROVE  h \o Append(q, e) = Append(h \o q, e) /\ h \o q \in Seq(Entries) /\ h \o <<>> = h
OBVIOUS

LEMMA InitTrack == Init => TrackInv
<1> SUFFICES ASSUME Init PROVE TrackInv
  OBVIOUS
<1>1. \A c \in Clients : call[c] = Idle
  BY DEF Init
<1>2. Idle.queue = Nothing /\ Idle.pc = "idle" /\ \A k \in Keys : Nothing[k] = <<>>
  BY DEF Idle, Nothing
<1>3. history \in [Keys -> Seq(Entries)] /\ \A k \in Keys : history[k] = <<>> /\ base[k] = table[k]
  BY DEF Init
<1>4. \A k \in Keys : \A c \in Clients : k \notin Touched(call[c]) /\ ~Waiting(call[c])
  BY <1>1, <1>2 DEF Touched, Queued, Waiting
<1>5. \A k \in Keys : Alone(k) /\ Fresh(k) /\ Stored(k) /\ Queueing(k)
  BY <1>1, <1>2, <1>3, <1>4, ChainStarts DEF Alone, Fresh, Stored, Queueing
<1> QED
  BY <1>1, <1>2, <1>3, <1>5 DEF TrackInv

\* What a step of one request leaves of a row it has nothing to do with.
LEMMA RowLeft ==
    ASSUME ImportInv, TrackInv, NEW c \in Clients, NEW r \in Calls, call' = [call EXCEPT ![c] = r],
           NEW k \in Keys, Whole(k),
           table'[k] = table[k], base' = base, history'[k] = history[k], r.queue[k] = call[c].queue[k],
           Waiting(r) /\ r.key = k => /\ Waiting(call[c]) /\ call[c].key = k
                                       /\ call[c].was = r.was /\ call[c].read = r.read
    PROVE  (Alone(k) /\ Fresh(k) /\ Stored(k) /\ Queueing(k))'
<1>1. Alone(k) /\ Fresh(k) /\ Stored(k) /\ Queueing(k)
  BY DEF TrackInv
<1>2. \A d \in Clients : call'[d] = IF d = c THEN r ELSE call[d]
  BY DEF ImportInv, ImportTypeOK
<1>3. \A d \in Clients : call'[d].queue[k] = call[d].queue[k]
  BY <1>2
<1>4. \A d \in Clients : Waiting(call'[d]) /\ call'[d].key = k =>
                           /\ Waiting(call[d]) /\ call[d].key = k
                           /\ call[d].was = call'[d].was /\ call[d].read = call'[d].read
  BY <1>2
<1>5. \A d \in Clients : k \in Touched(call'[d]) => k \in Touched(call[d])
  BY <1>3, <1>4 DEF Touched, Queued, Waiting
<1>6. \A d, e \in Clients : k \in Touched(call'[d]) /\ k \in Touched(call'[e]) => d = e
  BY <1>1, <1>5 DEF Alone
<1>7. Alone(k)'
  BY <1>6 DEF Alone, Touched, Queued
<1>8. Fresh(k)'
  BY <1>1, <1>4 DEF Fresh, Waiting
<1>9. Stored(k)'
  BY <1>1, <1>3 DEF Stored
<1>10. Queueing(k)'
  <2>1. ASSUME NEW d \in Clients, call'[d].queue[k] # <<>>
        PROVE  Chain(base'[k], history'[k] \o call'[d].queue[k], table'[k])
    <3>1. Chain(base[k], history[k] \o call[d].queue[k], table[k])
      BY <1>1, <1>3, <2>1 DEF Queueing
    <3> QED
      BY <1>3, <3>1
  <2> QED
    BY <2>1 DEF Queueing
<1> QED
  BY <1>7, <1>8, <1>9, <1>10

\* A step that neither reads nor writes a row, nor stores or drops entries.
LEMMA QuietStep ==
    ASSUME ImportInv, TrackInv, NEW c \in Clients, NEW r \in Calls, call' = [call EXCEPT ![c] = r],
           UNCHANGED <<table, history, base, mixed, cut>>,
           r.pc # "idle", r.queue = call[c].queue,
           Waiting(r) => /\ Waiting(call[c]) /\ call[c].key = r.key
                         /\ call[c].was = r.was /\ call[c].read = r.read
    PROVE  TrackInv'
<1>1. \A d \in Clients : call'[d] = IF d = c THEN r ELSE call[d]
  BY DEF ImportInv, ImportTypeOK
<1>2. \A d \in Clients : call'[d].pc = "idle" => call'[d].queue = Nothing
  BY <1>1 DEF TrackInv
<1>3. \A k \in Keys : Whole(k) => (Alone(k) /\ Fresh(k) /\ Stored(k) /\ Queueing(k))'
  BY RowLeft
<1>4. \A k \in Keys : Whole(k)' => Whole(k)
  BY DEF Whole
<1> QED
  BY <1>2, <1>3, <1>4 DEF TrackInv, Nothing

\* The one request that has a row in flight knows what became of it.
LEMMA Current ==
    ASSUME ImportInv, TrackInv, NEW c \in Clients, NEW k \in Keys, Whole(k), k \in Touched(call[c])
    PROVE  /\ Chain(base[k], history[k] \o call[c].queue[k], table[k])
           /\ \A d \in Clients \ {c} :
                 call[d].queue[k] = <<>> /\ ~(Waiting(call[d]) /\ call[d].key = k) /\ k \notin Touched(call[d])
<1>1. Alone(k) /\ Stored(k) /\ Queueing(k)
  BY DEF TrackInv
<1>2. \A d \in Clients \ {c} : k \notin Touched(call[d])
  BY <1>1 DEF Alone
<1>3. \A d \in Clients \ {c} : call[d].queue[k] = <<>> /\ ~(Waiting(call[d]) /\ call[d].key = k)
  BY <1>2 DEF Touched, Queued, Waiting
<1>4. Chain(base[k], history[k] \o call[c].queue[k], table[k])
  <2>1. CASE call[c].queue[k] # <<>>
    BY <1>1, <2>1 DEF Queueing
  <2>2. CASE call[c].queue[k] = <<>>
    <3>1. Chain(base[k], history[k], table[k])
      BY <1>1, <1>3, <2>2 DEF Stored
    <3>2. history[k] \o <<>> = history[k]
      <4>1. history[k] \in Seq(Entries)
        BY DEF TrackInv
      <4> QED
        BY <4>1
    <3> QED
      BY <2>2, <3>1, <3>2
  <2> QED
    BY <2>1, <2>2
<1> QED
  BY <1>2, <1>3, <1>4

LEMMA ReadBeforeTrack ==
    ASSUME ImportInv, TrackInv, NEW c \in Clients, ReadBefore(c)
    PROVE  TrackInv'
<1> DEFINE q == call[c]
           key == q.key
<1>1. q \in Calls /\ Shape(q) /\ q.pc = "before" /\ Writes(q) /\ ~Waiting(q)
  BY CallType DEF ReadBefore, At, Writes, Waiting
<1>2. key \in Keys /\ table[key] \in Values
  BY <1>1 DEF Shape, ImportInv, ImportTypeOK
<1> PICK read \in BOOLEAN : call' = [call EXCEPT ![c] = ReadCall(q, read)]
  BY ReadCalls
<1> DEFINE r == ReadCall(q, read)
<1>3. /\ r \in Calls /\ r.queue = q.queue /\ r.key = key /\ r.was = Found(r.read, table[key])
      /\ r.pc \in {"upsert", "guard"}
  <2>1. r \in Calls
    BY <1>1, <1>2, ReadCallType
  <2>2. /\ r.queue = q.queue /\ r.key = key /\ r.pc \in {"upsert", "guard"}
        /\ r.was = (IF read THEN table[key] ELSE None) /\ r.read = (read \/ table[key] = None)
    BY <1>1 DEF ReadCall, Calls
  <2> QED
    BY <2>1, <2>2 DEF Found
<1>4. call' = [call EXCEPT ![c] = r]
  OBVIOUS
<1>5. mixed' = IF \E d \in Clients \ {c} : key \in Touched(call[d]) THEN mixed \cup {key} ELSE mixed
  BY DEF ReadBefore
<1>6. UNCHANGED <<table, history, base, cut>>
  BY DEF ReadBefore
<1> HIDE DEF r
<1>7. \A d \in Clients : call'[d] = IF d = c THEN r ELSE call[d]
  BY <1>4 DEF ImportInv, ImportTypeOK
<1>8. \A d \in Clients : call'[d].pc = "idle" => call'[d].queue = Nothing
  BY <1>3, <1>7 DEF TrackInv
<1>9. ASSUME NEW k \in Keys, Whole(k)' PROVE (Alone(k) /\ Fresh(k) /\ Stored(k) /\ Queueing(k))'
  <2>1. Whole(k)
    BY <1>5, <1>6, <1>9 DEF Whole
  <2>2. CASE k # key
    BY <1>3, <1>4, <1>6, <2>1, <2>2, RowLeft
  <2>3. CASE k = key
    <3>1. \A d \in Clients \ {c} : k \notin Touched(call[d])
      BY <1>5, <1>9, <2>3 DEF Whole
    <3>2. \A d \in Clients \ {c} : ~(Waiting(call[d]) /\ call[d].key = k)
      BY <3>1 DEF Touched, Waiting
    <3>3. Alone(k)'
      <4>1. \A d \in Clients \ {c} : k \notin Touched(call'[d])
        BY <1>7, <3>1
      <4> QED
        BY <4>1 DEF Alone, Touched, Queued
    <3>4. Fresh(k)'
      <4>1. \A d \in Clients : Waiting(call'[d]) /\ call'[d].key = k => call'[d].was = Found(call'[d].read, table'[k])
        BY <1>3, <1>6, <1>7, <2>3, <3>2
      <4> QED
        BY <4>1 DEF Fresh, Waiting
    <3>5. \A d \in Clients : call'[d].queue = call[d].queue
      BY <1>3, <1>7
    <3>6. Stored(k)'
      BY <1>6, <2>1, <3>5 DEF TrackInv, Stored
    <3>7. Queueing(k)'
      <4>1. ASSUME NEW d \in Clients, call'[d].queue[k] # <<>>
            PROVE  Chain(base'[k], history'[k] \o call'[d].queue[k], table'[k])
        BY <1>6, <2>1, <3>5, <4>1 DEF TrackInv, Queueing
      <4> QED
        BY <4>1 DEF Queueing
    <3> QED
      BY <3>3, <3>4, <3>6, <3>7
  <2> QED
    BY <2>2, <2>3
<1> QED
  BY <1>6, <1>8, <1>9 DEF TrackInv, Nothing

LEMMA FailedQueue == \A q \in Calls : Failed(q).queue = q.queue
BY DEF Failed, Calls, Resume

LEMMA GuardTrack ==
    ASSUME ImportInv, TrackInv, NEW c \in Clients, Guard(c)
    PROVE  TrackInv'
<1> DEFINE q == call[c]
           r == Guarded(q)
<1>1. q \in Calls /\ Shape(q) /\ q.pc = "guard" /\ Writes(q) /\ Waiting(q)
  BY CallType DEF Guard, At, Writes, Waiting
<1>2. call' = [call EXCEPT ![c] = r] /\ UNCHANGED <<table, history, base, mixed, cut>>
  BY DEF Guard
<1>3. q.after \in {"flush", "list", "item", "version"}
  BY <1>1 DEF Shape, Registers, Fills, Restoring, Edits, Locks, Unlocks
<1>4. /\ r \in Calls /\ r.pc # "idle" /\ r.queue = q.queue
      /\ Waiting(r) => r.key = q.key /\ r.was = q.was /\ r.read = q.read
  <2>1. CASE r = Resume(q, q.after)
    BY <1>1, <1>3, <2>1, ResumedCall DEF Waiting
  <2>2. CASE r = Failed(q)
    BY <1>1, <2>2, FailedCall, FailedQueue DEF Waiting
  <2>3. CASE r = [q EXCEPT !.pc = "upsert"]
    BY <1>1, <2>3 DEF Calls
  <2> QED
    BY <2>1, <2>2, <2>3 DEF Guarded
<1> HIDE DEF r
<1> QED
  BY <1>1, <1>2, <1>4, QuietStep

LEMMA WriteFailsTrack ==
    ASSUME ImportInv, TrackInv, NEW c \in Clients, WriteFails(c)
    PROVE  TrackInv'
<1> DEFINE q == call[c]
           r == Failed(q)
<1>1. q \in Calls /\ Shape(q)
  BY CallType
<1>2. call' = [call EXCEPT ![c] = r] /\ UNCHANGED <<table, history, base, mixed, cut>>
  BY DEF WriteFails
<1>3. r \in Calls /\ r.pc \in {"close", "flush"} /\ r.queue = q.queue /\ ~Waiting(r)
  BY <1>1, FailedCall, FailedQueue DEF Waiting
<1> HIDE DEF r
<1> QED
  BY <1>2, <1>3, QuietStep

LEMMA RecordedQueue ==
    ASSUME NEW q \in Calls, q.key \in Keys
    PROVE  /\ \A k \in Keys : k # q.key => Recorded(q).queue[k] = q.queue[k]
           /\ Recorded(q).queue[q.key] = IF q.new # None /\ q.was = q.new THEN q.queue[q.key]
                                         ELSE Append(q.queue[q.key], Entry(q))
           /\ Entry(q) \in Entries /\ Entry(q).from = q.was /\ Entry(q).to = q.new /\ Entry(q).read = q.read
           /\ q.queue[q.key] \in Seq(Entries)
<1> DEFINE entries == IF q.new # None /\ q.was = q.new THEN q.queue[q.key] ELSE Append(q.queue[q.key], Entry(q))
           queue == [q.queue EXCEPT ![q.key] = entries]
<1>1. Entry(q) \in Entries /\ Entry(q).from = q.was /\ Entry(q).to = q.new /\ Entry(q).read = q.read
  BY DEF Entry, Entries, Calls
<1>2. q.queue \in [Keys -> Seq(Entries)]
  BY DEF Calls
<1>3. Recorded(q) = [Resume(q, q.after) EXCEPT !.queue = queue]
  BY DEF Recorded, Resume, Calls
<1>4. Recorded(q).queue = queue
  <2> HIDE DEF queue
  <2> QED
    BY <1>3 DEF Calls, Resume
<1>5. /\ \A k \in Keys : k # q.key => queue[k] = q.queue[k]
      /\ queue[q.key] = entries
  <2> HIDE DEF entries
  <2> QED
    BY <1>2
<1> QED
  BY <1>1, <1>2, <1>4, <1>5

LEMMA UpsertTrack ==
    ASSUME ImportInv, TrackInv, NEW c \in Clients, Upsert(c)
    PROVE  TrackInv'
<1> DEFINE q == call[c]
           r == Recorded(q)
           key == q.key
<1>1. q \in Calls /\ Shape(q) /\ q.pc = "upsert" /\ Writes(q) /\ Waiting(q)
  BY CallType DEF Upsert, At, Writes, Waiting
<1>2. /\ table' = [table EXCEPT ![key] = q.new] /\ call' = [call EXCEPT ![c] = r]
      /\ UNCHANGED <<history, base, mixed, cut>>
  BY DEF Upsert
<1>3. key \in Keys /\ q.after \in {"flush", "list", "item", "version"}
  BY <1>1 DEF Shape, Registers, Fills, Restoring, Edits, Locks, Unlocks
<1>4. r \in Calls /\ r.pc = q.after
  BY <1>1, <1>3, RecordedCall
<1>5. ~Waiting(r) /\ r.pc # "idle"
  BY <1>3, <1>4 DEF Waiting
<1>6. \A k \in Keys : k # key => r.queue[k] = q.queue[k]
  BY <1>1, <1>3, RecordedQueue
<1>7. /\ r.queue[key] = IF q.new # None /\ q.was = q.new THEN q.queue[key] ELSE Append(q.queue[key], Entry(q))
      /\ Entry(q) \in Entries /\ Entry(q).from = q.was /\ Entry(q).to = q.new /\ Entry(q).read = q.read
      /\ q.queue[key] \in Seq(Entries)
  BY <1>1, <1>3, RecordedQueue
<1>8. \A k \in Keys : table'[k] = IF k = key THEN q.new ELSE table[k]
  BY <1>2, <1>3 DEF ImportInv, ImportTypeOK
<1> HIDE DEF r
<1>9. \A d \in Clients : call'[d] = IF d = c THEN r ELSE call[d]
  BY <1>2 DEF ImportInv, ImportTypeOK
<1>10. \A d \in Clients : call'[d].pc = "idle" => call'[d].queue = Nothing
  BY <1>5, <1>9 DEF TrackInv
<1>11. ASSUME NEW k \in Keys, Whole(k)' PROVE (Alone(k) /\ Fresh(k) /\ Stored(k) /\ Queueing(k))'
  <2>1. Whole(k)
    BY <1>2, <1>11 DEF Whole
  <2>2. CASE k # key
    BY <1>2, <1>4, <1>5, <1>6, <1>8, <2>1, <2>2, RowLeft
  <2>3. CASE k = key
    <3>1. k \in Touched(q)
      BY <1>1, <2>3 DEF Touched, Waiting
    <3>2. q.was = Found(q.read, table[k])
      BY <1>1, <2>1, <2>3 DEF TrackInv, Fresh
    <3>3. Chain(base[k], history[k] \o q.queue[k], table[k])
      BY <2>1, <3>1, Current
    <3>4. \A d \in Clients \ {c} :
             call[d].queue[k] = <<>> /\ ~(Waiting(call[d]) /\ call[d].key = k) /\ k \notin Touched(call[d])
      BY <2>1, <3>1, Current
    <3>5. CASE q.new # None /\ q.was = q.new
      <4>1. r.queue[k] = q.queue[k] /\ table'[k] = table[k]
        BY <1>7, <1>8, <2>3, <3>2, <3>5 DEF Found
      <4> QED
        BY <1>2, <1>4, <1>5, <2>1, <4>1, RowLeft
    <3>6. CASE ~(q.new # None /\ q.was = q.new)
      <4>1. r.queue[k] = Append(q.queue[k], Entry(q)) /\ table'[k] = q.new
        BY <1>7, <1>8, <2>3, <3>6
      <4>2. history[k] \in Seq(Entries) /\ q.queue[k] \in Seq(Entries)
        BY <1>7, <2>3 DEF TrackInv
      <4>3. history[k] \o r.queue[k] = Append(history[k] \o q.queue[k], Entry(q))
            /\ history[k] \o q.queue[k] \in Seq(Entries)
        <5>1. PICK h \in Seq(Entries), w \in Seq(Entries), e \in Entries :
                 h = history[k] /\ w = q.queue[k] /\ e = Entry(q)
          BY <1>7, <4>2
        <5>2. h \o Append(w, e) = Append(h \o w, e) /\ h \o w \in Seq(Entries)
          BY Appended
        <5> QED
          BY <4>1, <5>1, <5>2
      <4>4. Chain(base[k], history[k] \o r.queue[k], q.new)
        BY <1>7, <3>2, <3>3, <4>3, ChainGoesOn
      <4>5. r.queue[k] # <<>>
        BY <1>7, <2>3, <4>1, <4>2
      <4>6. Alone(k)'
        <5>1. \A d \in Clients \ {c} : k \notin Touched(call'[d])
          BY <1>9, <3>4
        <5> QED
          BY <5>1 DEF Alone, Touched, Queued
      <4>7. Fresh(k)'
        <5>1. \A d \in Clients : ~(Waiting(call'[d]) /\ call'[d].key = k)
          BY <1>5, <1>9, <3>4
        <5> QED
          BY <5>1 DEF Fresh, Waiting
      <4>8. Stored(k)'
        BY <1>9, <4>5 DEF Stored
      <4>9. Queueing(k)'
        <5>1. ASSUME NEW d \in Clients, call'[d].queue[k] # <<>>
              PROVE  Chain(base'[k], history'[k] \o call'[d].queue[k], table'[k])
          <6>1. d = c /\ call'[d] = r
            BY <1>9, <3>4, <5>1
          <6> QED
            BY <1>2, <4>1, <4>4, <6>1
        <5> QED
          BY <5>1 DEF Queueing
      <4> QED
        BY <4>6, <4>7, <4>8, <4>9
    <3> QED
      BY <3>5, <3>6
  <2> QED
    BY <2>2, <2>3
<1> QED
  BY <1>2, <1>10, <1>11 DEF TrackInv, Nothing

\* What a request queued is stored.
LEMMA StoredStep ==
    ASSUME ImportInv, TrackInv, NEW c \in Clients, NEW r \in Calls, r.queue = Nothing, ~Waiting(r),
           history' = [k \in Keys |-> history[k] \o call[c].queue[k]], call' = [call EXCEPT ![c] = r],
           UNCHANGED <<table, base, mixed, cut>>
    PROVE  TrackInv'
<1> DEFINE q == call[c]
<1>1. q \in Calls
  BY CallType
<1>2. /\ history' = [k \in Keys |-> history[k] \o q.queue[k]] /\ call' = [call EXCEPT ![c] = r]
      /\ UNCHANGED <<table, base, mixed, cut>>
  OBVIOUS
<1>3. \A d \in Clients : call'[d] = IF d = c THEN r ELSE call[d]
  BY <1>2 DEF ImportInv, ImportTypeOK
<1>4. r \in Calls /\ r.queue = Nothing /\ ~Waiting(r) /\ \A k \in Keys : Nothing[k] = <<>>
  BY DEF Nothing
<1>5. \A d \in Clients : call'[d].pc = "idle" => call'[d].queue = Nothing
  BY <1>3, <1>4 DEF TrackInv
<1>6. \A k \in Keys : history[k] \in Seq(Entries) /\ q.queue[k] \in Seq(Entries)
  BY <1>1 DEF TrackInv, Calls
<1>7. \A k \in Keys : /\ history'[k] = history[k] \o q.queue[k] /\ history'[k] \in Seq(Entries)
                      /\ history'[k] \o <<>> = history'[k] /\ history[k] \o <<>> = history[k]
  <2> SUFFICES ASSUME NEW k \in Keys
               PROVE  /\ history'[k] = history[k] \o q.queue[k] /\ history'[k] \in Seq(Entries)
                      /\ history'[k] \o <<>> = history'[k] /\ history[k] \o <<>> = history[k]
    OBVIOUS
  <2>1. history'[k] = history[k] \o q.queue[k]
    BY <1>2
  <2>2. history'[k] \in Seq(Entries)
    BY <1>6, <2>1
  <2>3. \A h \in Seq(Entries) : h \o <<>> = h
    OBVIOUS
  <2> QED
    BY <1>6, <2>1, <2>2, <2>3
<1>8. history' \in [Keys -> Seq(Entries)]
  BY <1>2, <1>7
<1>9. ASSUME NEW k \in Keys, Whole(k)' PROVE (Alone(k) /\ Fresh(k) /\ Stored(k) /\ Queueing(k))'
  <2>1. Whole(k)
    BY <1>2, <1>9 DEF Whole
  <2>2. CASE q.queue[k] = <<>>
    <3>1. history'[k] = history[k] /\ r.queue[k] = call[c].queue[k]
      BY <1>4, <1>7, <2>2
    <3> QED
      BY <1>2, <1>4, <2>1, <3>1, RowLeft
  <2>3. CASE q.queue[k] # <<>>
    <3>1. k \in Touched(q)
      BY <2>3 DEF Touched, Queued
    <3>2. Chain(base'[k], history'[k], table'[k])
      BY <1>2, <1>7, <2>1, <3>1, Current
    <3>3. \A d \in Clients \ {c} :
             call[d].queue[k] = <<>> /\ ~(Waiting(call[d]) /\ call[d].key = k) /\ k \notin Touched(call[d])
      BY <2>1, <3>1, Current
    <3>4. \A d \in Clients : call'[d].queue[k] = <<>> /\ ~(Waiting(call'[d]) /\ call'[d].key = k)
      BY <1>3, <1>4, <3>3
    <3>5. \A d \in Clients : k \notin Touched(call'[d])
      BY <3>4 DEF Touched, Queued, Waiting
    <3>6. Alone(k)'
      BY <3>5 DEF Alone, Touched, Queued
    <3>7. Fresh(k)'
      BY <3>4 DEF Fresh, Waiting
    <3>8. Stored(k)' /\ Queueing(k)'
      BY <3>2, <3>4 DEF Stored, Queueing
    <3> QED
      BY <3>6, <3>7, <3>8
  <2> QED
    BY <2>2, <2>3
<1> QED
  BY <1>5, <1>8, <1>9 DEF TrackInv, Nothing

\* What a request queued is lost.
LEMMA LostStep ==
    ASSUME ImportInv, TrackInv, NEW c \in Clients, NEW r \in Calls, r.queue = Nothing, ~Waiting(r),
           cut' = cut \cup Queued(call[c]), call' = [call EXCEPT ![c] = r],
           UNCHANGED <<table, history, base, mixed>>
    PROVE  TrackInv'
<1> DEFINE q == call[c]
<1>1. /\ call' = [call EXCEPT ![c] = r] /\ cut' = cut \cup Queued(q)
      /\ UNCHANGED <<table, history, base, mixed>>
  OBVIOUS
<1>2. \A d \in Clients : call'[d] = IF d = c THEN r ELSE call[d]
  BY <1>1 DEF ImportInv, ImportTypeOK
<1>3. r \in Calls /\ r.queue = Nothing /\ ~Waiting(r) /\ \A k \in Keys : Nothing[k] = <<>>
  BY DEF Nothing
<1>4. \A d \in Clients : call'[d].pc = "idle" => call'[d].queue = Nothing
  BY <1>2, <1>3 DEF TrackInv
<1>5. ASSUME NEW k \in Keys, Whole(k)' PROVE (Alone(k) /\ Fresh(k) /\ Stored(k) /\ Queueing(k))'
  <2>1. Whole(k) /\ q.queue[k] = <<>>
    BY <1>1, <1>5 DEF Whole, Queued
  <2> QED
    BY <1>1, <1>3, <2>1, RowLeft
<1> QED
  BY <1>1, <1>4, <1>5 DEF TrackInv, Nothing

\* A request ends: what it wrote is stored, or lost.
LEMMA FlushTrack ==
    ASSUME ImportInv, TrackInv, NEW c \in Clients, Flush(c) \/ FlushFails(c)
    PROVE  TrackInv'
<1>1. Idle \in Calls /\ Idle.queue = Nothing /\ ~Waiting(Idle)
  BY IdleCall DEF Idle, Waiting
<1>2. CASE Flush(c)
  BY <1>1, <1>2, StoredStep DEF Flush
<1>3. CASE FlushFails(c)
  BY <1>1, <1>3, LostStep DEF FlushFails
<1> QED
  BY <1>2, <1>3

\* A client hangs up: what its request wrote is stored, or lost, and the
\* request goes on.
LEMMA HangUpTrack ==
    ASSUME ImportInv, TrackInv, NEW c \in Clients, HangUp(c)
    PROVE  TrackInv'
<1> DEFINE q == call[c]
           r == [q EXCEPT !.gone = TRUE, !.queue = Nothing]
<1>1. q \in Calls /\ q.pc = "before"
  BY CallType DEF HangUp, At
<1>2. /\ \/ history' = [k \in Keys |-> history[k] \o q.queue[k]] /\ UNCHANGED cut
         \/ cut' = cut \cup Queued(q) /\ UNCHANGED history
      /\ call' = [call EXCEPT ![c] = r] /\ UNCHANGED <<table, base, mixed>>
  BY <1>1 DEF HangUp, Calls, ImportInv, ImportTypeOK
<1>3. Nothing \in [Keys -> Seq(Entries)] /\ \A k \in Keys : Nothing[k] = <<>>
  BY DEF Nothing
<1>4. r \in Calls /\ r.pc = "before" /\ r.queue = Nothing /\ ~Waiting(r)
  BY <1>1, <1>3 DEF Calls, Waiting
<1> HIDE DEF r
<1>5. CASE history' = [k \in Keys |-> history[k] \o q.queue[k]] /\ UNCHANGED cut
  BY <1>1, <1>2, <1>4, <1>5, StoredStep
<1>6. CASE cut' = cut \cup Queued(q) /\ UNCHANGED history
  BY <1>2, <1>4, <1>6, LostStep
<1> QED
  BY <1>2, <1>5, <1>6

LEMMA StopTrack ==
    ASSUME ImportInv, TrackInv, Stop
    PROVE  TrackInv'
<1>1. /\ call' = [c \in Clients |-> Idle] /\ cut' = cut \cup UNION {Queued(call[c]) : c \in Clients}
      /\ UNCHANGED <<table, history, base, mixed>>
  BY DEF Stop
<1>2. Idle.pc = "idle" /\ Idle.queue = Nothing /\ ~Waiting(Idle) /\ \A k \in Keys : Nothing[k] = <<>>
  BY IdleCall DEF Idle, Nothing, Waiting
<1>3. ASSUME NEW k \in Keys, Whole(k)' PROVE (Alone(k) /\ Fresh(k) /\ Stored(k) /\ Queueing(k))'
  <2>1. Whole(k) /\ \A c \in Clients : call[c].queue[k] = <<>>
    BY <1>1, <1>3 DEF Whole, Queued
  <2>2. Chain(base'[k], history'[k], table'[k])
    BY <1>1, <2>1 DEF TrackInv, Stored
  <2>3. \A d \in Clients : call'[d].queue[k] = <<>> /\ ~Waiting(call'[d])
    BY <1>1, <1>2
  <2>4. \A d \in Clients : k \notin Touched(call'[d])
    BY <2>3 DEF Touched, Queued, Waiting
  <2>5. Alone(k)'
    BY <2>4 DEF Alone, Touched, Queued
  <2>6. Fresh(k)'
    BY <2>3 DEF Fresh, Waiting
  <2>7. Stored(k)' /\ Queueing(k)'
    BY <2>2, <2>3 DEF Stored, Queueing
  <2> QED
    BY <2>5, <2>6, <2>7
<1>4. \A d \in Clients : call'[d].pc = "idle" => call'[d].queue = Nothing
  BY <1>1, <1>2
<1> QED
  BY <1>1, <1>3, <1>4 DEF TrackInv, Nothing

-------------------------------------------------------------------------------
(* The steps of the handlers between their writes queue nothing.            *)

LEMMA WritingQueue ==
    ASSUME NEW q \in Calls, NEW key \in Keys, NEW new \in Values,
           NEW after \in {"flush", "list", "item", "version"}
    PROVE  LET r == Writing(q, key, new, after) IN r.queue = q.queue /\ r.pc = "before" /\ r \in Calls
BY DEF Writing, Calls

LEMMA BeginTrack ==
    ASSUME ImportInv, TrackInv, NEW c \in Clients, NEW r \in Calls, Begin(c, r),
           r.queue = Nothing, r.pc \in {"before", "check", "version"}
    PROVE  TrackInv'
<1>1. call[c].queue = Nothing
  BY DEF Begin, At, TrackInv
<1>2. call' = [call EXCEPT ![c] = r] /\ UNCHANGED <<table, history, base, mixed, cut>>
  BY DEF Begin
<1> QED
  BY <1>1, <1>2, QuietStep DEF Waiting

LEMMA ContinueTrack ==
    ASSUME ImportInv, TrackInv, NEW c \in Clients, NEW r \in Calls, Continue(c, r),
           r.queue = call[c].queue, r.pc \in {"before", "flush", "version", "list", "item", "close"}
    PROVE  TrackInv'
<1>1. call' = [call EXCEPT ![c] = r] /\ UNCHANGED <<table, history, base, mixed, cut>>
  BY DEF Continue
<1> QED
  BY <1>1, QuietStep DEF Waiting

LEMMA EditTrack ==
    ASSUME ImportInv, TrackInv, NEW c \in Clients, Edit(c)
    PROVE  TrackInv'
<1> PICK k \in Edited, new \in {None} \cup Contents :
        Begin(c, Writing([Idle EXCEPT !.tool = "edit"], k, new, "flush"))
  BY DEF Edit
<1> DEFINE q == [Idle EXCEPT !.tool = "edit"]
           r == Writing(q, k, new, "flush")
<1>1. k \in Keys /\ new \in Values
  BY ImportAssumption DEF Keys, Values, Statuses
<1>2. q \in Calls /\ q.queue = Nothing
  BY IdleCall DEF Calls, Idle
<1>3. r \in Calls /\ r.pc = "before" /\ r.queue = Nothing
  <2> HIDE DEF q
  <2> QED
    BY <1>1, <1>2, WritingQueue
<1>4. Begin(c, r)
  OBVIOUS
<1> HIDE DEF r
<1> QED
  BY <1>3, <1>4, BeginTrack

LEMMA SetStatusTrack ==
    ASSUME ImportInv, TrackInv, NEW c \in Clients, SetStatus(c)
    PROVE  TrackInv'
<1> PICK v \in Versions, tool \in {"lock", "unlock"} :
        Begin(c, [Idle EXCEPT !.tool = tool, !.v = v, !.pc = "check"])
  BY DEF SetStatus
<1> DEFINE r == [Idle EXCEPT !.tool = tool, !.v = v, !.pc = "check"]
<1>1. r \in Calls /\ r.pc = "check" /\ r.queue = Nothing
  <2>1. Idle \in Calls /\ Idle.queue = Nothing
    BY IdleCall DEF Idle
  <2> QED
    BY <2>1 DEF Calls
<1>2. Begin(c, r)
  OBVIOUS
<1> HIDE DEF r
<1> QED
  BY <1>1, <1>2, BeginTrack

LEMMA ImportProjectTrack ==
    ASSUME ImportInv, TrackInv, NEW c \in Clients, ImportProject(c)
    PROVE  TrackInv'
<1> PICK force \in BOOLEAN, exported \in Exports :
        Begin(c, [Idle EXCEPT !.tool = "import", !.pc = "version", !.todo = Payload, !.force = force,
                              !.exported = exported])
  BY DEF ImportProject
<1> DEFINE r == [Idle EXCEPT !.tool = "import", !.pc = "version", !.todo = Payload, !.force = force,
                             !.exported = exported]
<1>1. r \in Calls /\ r.pc = "version" /\ r.queue = Nothing
  <2>1. Idle \in Calls /\ Idle.queue = Nothing
    BY IdleCall DEF Idle
  <2> QED
    BY <2>1, ImportAssumption DEF Calls
<1>2. Begin(c, r)
  OBVIOUS
<1> HIDE DEF r
<1> QED
  BY <1>1, <1>2, BeginTrack

LEMMA CheckStatusTrack ==
    ASSUME ImportInv, TrackInv, NEW c \in Clients, CheckStatus(c)
    PROVE  TrackInv'
<1> DEFINE q == call[c]
           key == Status(q.v)
           new == IF q.tool = "lock" THEN "locked" ELSE "draft"
<1>1. q \in Calls /\ q.v \in Versions
  BY CallType DEF CheckStatus, At, Shape
<1>2. key \in Keys /\ new \in Values
  BY <1>1, StatusKeys DEF Values, Statuses
<1>3. CASE Continue(c, [q EXCEPT !.pc = "flush"])
  <2> DEFINE r == [q EXCEPT !.pc = "flush"]
  <2>1. r \in Calls /\ r.pc = "flush" /\ r.queue = q.queue
    BY <1>1 DEF Calls
  <2> QED
    BY <1>3, <2>1, ContinueTrack
<1>4. CASE Continue(c, Writing(q, key, new, "flush"))
  BY <1>1, <1>2, <1>4, WritingQueue, ContinueTrack
<1> QED
  BY <1>3, <1>4 DEF CheckStatus

LEMMA ImportVersionTrack ==
    ASSUME ImportInv, TrackInv, NEW c \in Clients, ImportVersion(c)
    PROVE  TrackInv'
<1> DEFINE q == call[c]
           v == Head(q.todo)
           existing == table[Status(v)]
           here == [q EXCEPT !.v = v, !.todo = Tail(@), !.existing = existing]
<1>1. q \in Calls /\ q.pc = "version"
  BY CallType DEF ImportVersion, At
<1>2. Continue(c, NextVersion(q))
  BY DEF ImportVersion
<1>3. CASE q.todo = <<>>
  <2> DEFINE r == [q EXCEPT !.pc = "flush"]
  <2>1. r \in Calls /\ r.pc = "flush" /\ r.queue = q.queue
    BY <1>1 DEF Calls
  <2>2. Continue(c, r)
    BY <1>2, <1>3 DEF NextVersion
  <2> QED
    BY <2>1, <2>2, ContinueTrack
<1>4. CASE q.todo # <<>>
  <2>1. v \in Versions /\ Tail(q.todo) \in Seq(Versions)
    <3>1. q.todo \in Seq(Versions)
      BY <1>1 DEF Calls
    <3> QED
      BY <1>4, <3>1
  <2>2. existing \in Statuses
    BY <2>1 DEF ImportInv, ImportTypeOK
  <2>3. here \in Calls /\ here.queue = q.queue /\ here.pc = "version"
    BY <1>1, <2>1, <2>2 DEF Calls
  <2>4. \/ Continue(c, here)
        \/ Continue(c, [here EXCEPT !.pc = "list"])
        \/ Continue(c, Writing(here, Status(v), "draft", "list"))
    BY <1>2, <1>4 DEF NextVersion
  <2> HIDE DEF here, v, existing
  <2>5. CASE Continue(c, here)
    BY <2>3, <2>5, ContinueTrack
  <2>6. CASE Continue(c, [here EXCEPT !.pc = "list"])
    <3> DEFINE r == [here EXCEPT !.pc = "list"]
    <3>1. r \in Calls /\ r.pc = "list" /\ r.queue = q.queue
      BY <2>3 DEF Calls
    <3> QED
      BY <2>6, <3>1, ContinueTrack
  <2>7. CASE Continue(c, Writing(here, Status(v), "draft", "list"))
    <3>1. "draft" \in Values /\ Status(v) \in Keys
      BY <2>1, StatusKeys DEF Values, Statuses
    <3>2. LET r == Writing(here, Status(v), "draft", "list") IN r.queue = q.queue /\ r.pc = "before" /\ r \in Calls
      BY <2>3, <3>1, WritingQueue
    <3> QED
      BY <2>7, <3>2, ContinueTrack
  <2> QED
    BY <2>4, <2>5, <2>6, <2>7
<1> QED
  BY <1>3, <1>4

LEMMA ListIdsTrack ==
    ASSUME ImportInv, TrackInv, NEW c \in Clients, ListIds(c)
    PROVE  TrackInv'
<1> DEFINE q == call[c]
           r == [q EXCEPT !.pc = "item", !.items = Order,
                          !.known = {id \in Ids : table[<<q.v, id>>] # None}]
<1>1. q \in Calls
  BY CallType
<1>2. r \in Calls /\ r.pc = "item" /\ r.queue = q.queue
  BY <1>1, ImportAssumption DEF Calls
<1>3. Continue(c, r)
  BY DEF ListIds
<1> HIDE DEF r
<1> QED
  BY <1>2, <1>3, ContinueTrack

LEMMA ListFailsTrack ==
    ASSUME ImportInv, TrackInv, NEW c \in Clients, ListFails(c)
    PROVE  TrackInv'
<1>1. call[c] \in Calls /\ Shape(call[c])
  BY CallType
<1>2. /\ Failed(call[c]) \in Calls /\ Failed(call[c]).queue = call[c].queue
      /\ Failed(call[c]).pc \in {"close", "flush"}
  BY <1>1, FailedCall, FailedQueue
<1> QED
  BY <1>2, ContinueTrack DEF ListFails

LEMMA ImportItemTrack ==
    ASSUME ImportInv, TrackInv, NEW c \in Clients, ImportItem(c)
    PROVE  TrackInv'
<1> DEFINE q == call[c]
<1>1. q \in Calls /\ q.pc = "item" /\ q.v \in Versions
  BY CallType DEF ImportItem, At, Shape
<1>2. Continue(c, IF q.items = <<>> THEN [q EXCEPT !.pc = "close"] ELSE NextItem(q))
  BY DEF ImportItem
<1>3. CASE q.items = <<>>
  <2> DEFINE r == [q EXCEPT !.pc = "close"]
  <2>1. r \in Calls /\ r.pc = "close" /\ r.queue = q.queue
    BY <1>1 DEF Calls
  <2>2. Continue(c, r)
    BY <1>2, <1>3
  <2> HIDE DEF r
  <2> QED
    BY <2>1, <2>2, ContinueTrack
<1>4. CASE q.items # <<>>
  <2> DEFINE id == Head(q.items)
             rest == [q EXCEPT !.items = Tail(@)]
             more == [rest EXCEPT !.known = @ \cup {id}]
             key == <<q.v, id>>
             new == Data[q.v][id]
  <2>1. id \in Ids /\ Tail(q.items) \in Seq(Ids)
    <3>1. q.items \in Seq(Ids)
      BY <1>1 DEF Calls
    <3> QED
      BY <1>4, <3>1
  <2>2. rest \in Calls /\ rest.queue = q.queue /\ rest.pc = "item"
    BY <1>1, <2>1 DEF Calls
  <2>3. more \in Calls /\ more.queue = q.queue
    <3> HIDE DEF rest
    <3> QED
      BY <2>1, <2>2 DEF Calls
  <2>4. new \in Values /\ key \in Keys
    BY <1>1, <2>1, IdKeys DEF Values
  <2>5. Continue(c, rest) \/ Continue(c, Writing(more, key, new, "item"))
    BY <1>2, <1>4 DEF NextItem
  <2> HIDE DEF q, id, rest, more, key, new
  <2>6. CASE Continue(c, rest)
    BY <2>2, <2>6, ContinueTrack DEF q
  <2>7. CASE Continue(c, Writing(more, key, new, "item"))
    <3>1. LET r == Writing(more, key, new, "item") IN r.queue = q.queue /\ r.pc = "before" /\ r \in Calls
      BY <2>3, <2>4, WritingQueue
    <3> QED
      BY <2>7, <3>1, ContinueTrack DEF q
  <2> QED
    BY <2>5, <2>6, <2>7
<1> QED
  BY <1>3, <1>4

LEMMA CloseVersionTrack ==
    ASSUME ImportInv, TrackInv, NEW c \in Clients, CloseVersion(c)
    PROVE  TrackInv'
<1> DEFINE q == call[c]
<1>1. q \in Calls /\ q.v \in Versions
  BY CallType DEF CloseVersion, At, Shape
<1>2. Continue(c, Close(q))
  BY DEF CloseVersion
<1>3. AfterVersion(q) \in {"version", "flush"}
  BY DEF AfterVersion
<1>4. CASE ToRestore(q) = "locked"
  <2> DEFINE r == Writing(q, Status(q.v), "locked", AfterVersion(q))
  <2>1. "locked" \in Values /\ Status(q.v) \in Keys
    BY <1>1, StatusKeys DEF Values, Statuses
  <2>2. r \in Calls /\ r.pc = "before" /\ r.queue = q.queue
    BY <1>1, <1>3, <2>1, WritingQueue
  <2> QED
    BY <1>2, <1>4, <2>2, ContinueTrack DEF Close
<1>5. CASE ToRestore(q) # "locked"
  <2> DEFINE r == [q EXCEPT !.pc = AfterVersion(q), !.after = AfterVersion(q)]
  <2>1. r \in Calls /\ r.pc = AfterVersion(q) /\ r.queue = q.queue
    BY <1>1, <1>3 DEF Calls
  <2>2. Continue(c, r)
    BY <1>2, <1>5 DEF Close
  <2> HIDE DEF r
  <2> QED
    BY <1>3, <2>1, <2>2, ContinueTrack
<1> QED
  BY <1>4, <1>5

-------------------------------------------------------------------------------
LEMMA StepTrack == ASSUME ImportInv, TrackInv, [Next]_vars PROVE TrackInv'
<1>1. ASSUME NEW c \in Clients, Step(c) PROVE TrackInv'
  <2>1. CASE ReadBefore(c) \/ Guard(c) \/ Flush(c) \/ FlushFails(c) \/ HangUp(c)
    BY <2>1, ReadBeforeTrack, GuardTrack, FlushTrack, HangUpTrack
  <2>2. CASE Upsert(c) \/ WriteFails(c)
    BY <2>2, UpsertTrack, WriteFailsTrack
  <2>3. CASE Edit(c) \/ SetStatus(c) \/ CheckStatus(c)
    BY <2>3, EditTrack, SetStatusTrack, CheckStatusTrack
  <2>4. CASE ImportProject(c) \/ ImportVersion(c) \/ ListIds(c) \/ ListFails(c)
    BY <2>4, ImportProjectTrack, ImportVersionTrack, ListIdsTrack, ListFailsTrack
  <2>5. CASE ImportItem(c) \/ CloseVersion(c)
    BY <2>5, ImportItemTrack, CloseVersionTrack
  <2> QED
    BY <1>1, <2>1, <2>2, <2>3, <2>4, <2>5 DEF Step
<1>2. CASE Stop /\ SealStopped /\ UNCHANGED calls
  BY <1>2, StopTrack
<1>3. CASE UNCHANGED vars
  <2>1. UNCHANGED <<table, call, history, base, mixed, cut>>
    BY <1>3 DEF vars
  <2>2. \A k \in Keys : Whole(k)' => (Alone(k) /\ Fresh(k) /\ Stored(k) /\ Queueing(k))'
    BY <2>1 DEF TrackInv, Whole, Alone, Fresh, Stored, Queueing
  <2> QED
    BY <2>1, <2>2 DEF TrackInv
<1> QED
  BY <1>1, <1>2, <1>3 DEF Next

LEMMA PendingIsTheQueue ==
    ASSUME ImportInv, TrackInv, NEW k \in Keys, Whole(k)
    PROVE  Replayed(k, history[k] \o Pending(k))
<1> DEFINE queues == {call[c].queue[k] : c \in Clients} \ {<<>>}
<1>1. history[k] \in Seq(Entries) /\ \A c \in Clients : call[c].queue[k] \in Seq(Entries)
  BY DEF TrackInv, ImportInv, ImportTypeOK, Calls
<1>2. CASE queues = {}
  <2>1. \A c \in Clients : call[c].queue[k] = <<>>
    BY <1>2
  <2>2. Chain(base[k], history[k], table[k])
    BY <2>1 DEF TrackInv, Stored
  <2>3. Pending(k) = <<>>
    BY <1>2 DEF Pending
  <2>4. history[k] \o <<>> = history[k]
    BY <1>1
  <2> QED
    BY <1>1, <2>2, <2>3, <2>4, ChainIsReplayed
<1>3. CASE queues # {}
  <2>1. Pending(k) \in queues
    BY <1>3 DEF Pending
  <2>2. PICK c \in Clients : Pending(k) = call[c].queue[k] /\ call[c].queue[k] # <<>>
    BY <2>1
  <2>3. Chain(base[k], history[k] \o call[c].queue[k], table[k])
    BY <2>2 DEF TrackInv, Queueing
  <2>4. history[k] \o call[c].queue[k] \in Seq(Entries)
    BY <1>1
  <2> QED
    BY <2>2, <2>3, <2>4, ChainIsReplayed
<1> QED
  BY <1>2, <1>3

\* Whatever the interleaving, the failures and the stops: of a row that was not
\* written by two requests at once and lost no entry, the stored entries and
\* those still queued lead from the first value of the row to its present one,
\* each from where the one before it left off; where the row could not be read
\* before its write, and only there, the entry begins with nothing
\* (recordingStore, flushChanges, safeRead).
THEOREM HistoryAlwaysReplays == Spec => []Replays
<1>1. Init => ImportInv /\ TrackInv
  BY InitInv, InitTrack
<1>2. ImportInv /\ TrackInv /\ [Next]_vars => (ImportInv /\ TrackInv)'
  BY StepInv, StepTrack
<1>3. ImportInv /\ TrackInv => Replays
  BY PendingIsTheQueue DEF Replays, Whole
<1> QED
  BY <1>1, <1>2, <1>3, PTL DEF Spec
===============================================================================
