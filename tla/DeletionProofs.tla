---------------------------- MODULE DeletionProofs ----------------------------
(***************************************************************************)
(* Traceability, proved for any phases, requirements, stories, screens and *)
(* decisions, for requests one after the other that may be cut short at    *)
(* any query and meet a lock at any moment.                                *)
(***************************************************************************)
EXTENDS Deletion, TLAPS

\* One request at a time.
OneClient == \A c, d \in Clients : c = d

-------------------------------------------------------------------------------
(* The invariant.                                                           *)

\* Every live row is one its type can have and names live rows only.
Traced(e, row) == row \in Docs(e) /\ \A x \in References(row) : Live(x)
RowsTraced == \A e \in Entities : Live(e) => Traced(e, rows[e])

Unreferenced(x) == \A e \in Entities : Live(e) => x \notin References(rows[e])

\* A write that may land: of a traced row, or the removal of what nothing names.
SafeWrite(e, doc) == Traced(e, doc) \/ (doc.st = "removed" /\ Unreferenced(e))

Deletes == {"delete_phase", "delete_requirement"}
Rewrites == {"assign_requirements_to_phase", "import_adrs_from_files"}
Writes == {"create", "update"}

\* The rows of the tables a deletion k has listed so far.
Listed(k) == UNION {Stages(k.tool)[i] : i \in 1 .. k.stage}

\* Of those, the ones it has still to write; item is the one in hand.
Remaining(k) == {w.item : w \in k.todo} \cup (IF k.pc = "upsert" THEN {k.item} ELSE {})

FitsWrite(k) ==
    k.pc \in {"guard", "upsert"} =>
        /\ k.tool \in Writes \cup Deletes \cup Rewrites \cup {"delete_document"}
        /\ k.item \in Entities /\ SafeWrite(k.item, k.doc)
        /\ k.tool \in Writes => k.doc.st = "live" /\ k.target \in {NoPhase, k.item}
        /\ k.tool \in Rewrites => k.doc.st = "live"
        /\ k.tool = "delete_document" => k.doc.st = "removed" /\ k.item \in Adrs \cup Screens
        /\ k.tool \in Deletes /\ k.doc.st = "removed" => k.item = k.target
        /\ k.pc = "guard" => k.tool \notin Rewrites /\ (k.tool \in Deletes => k.doc.st = "removed")

FitsCascade(k) ==
    k.pc = "cascade" \/ (k.pc = "upsert" /\ k.tool \in Deletes \cup Rewrites /\ k.doc.st = "live") =>
        /\ k.tool \in Deletes \cup Rewrites
        /\ \A w \in k.todo : Traced(w.item, w.doc)
        /\ k.tool \in Deletes =>
              /\ k.stage <= Len(Stages(k.tool))
              /\ k.tool = "delete_requirement" => LinkedStories(k.target) = {}
              /\ \A w \in k.todo : k.target \notin References(w.doc)
              /\ k.pc = "upsert" => k.target \notin References(k.doc)
              /\ \A e \in Listed(k) \ Remaining(k) : Live(e) => k.target \notin References(rows[e])

Fits(k) ==
    /\ k.pc = "refs" =>
          /\ k.tool \in Writes /\ k.target = NoPhase
          /\ k.item \in Entities /\ k.doc \in Docs(k.item)
          /\ \A x \in References(k.doc) \ k.refs : Live(x)
    /\ FitsWrite(k)
    /\ FitsCascade(k)
    /\ k.tool = "delete_phase" => k.target \in Phases
    /\ k.tool = "delete_requirement" => k.target \in Reqs
    /\ k.pc \in {"activate", "config", "clear"} => k.target \in Phases
    /\ k.pc = "activate" => Live(k.target)
    /\ k.pc = "list" => /\ k.tool = "assign_requirements_to_phase"
                        /\ k.target \in Phases \cup {NoPhase}
                        /\ k.target # NoPhase => Live(k.target)
    /\ k.pc = "stories" => k.tool = "delete_requirement"
    /\ k.pc = "locked" => k.tool \in Deletes
    /\ k.pc = "locked" /\ k.tool = "delete_requirement" => LinkedStories(k.target) = {}
    /\ k.pc \in {"stories", "locked", "list"} => k.stage = 0 /\ k.todo = {}
    /\ k.pc \in {"config", "clear"} => k.tool = "delete_phase" /\ ~Live(k.target)
    /\ k.pc \in {"guard", "upsert"} /\ k.tool \in Writes /\ k.target # NoPhase => k.target \in Phases

\* The pointer is live, or the request that removed the phase is about to look at it.
ActiveFits ==
    ~stopped /\ activePhase # NoPhase =>
        \/ Live(activePhase)
        \/ \E c \in Clients : req[c].pc \in {"config", "clear"} /\ req[c].target = activePhase

DeletionInv ==
    /\ TypeOK
    /\ RowsTraced
    /\ \A c \in Clients : Fits(req[c])
    /\ ActiveFits
-------------------------------------------------------------------------------
(* Rows and what they name.                                                 *)

LEMMA IdleTyped == Idle \in Request /\ Idle.pc = "idle" /\ Idle.tool = "none" /\ Idle.target = NoPhase
  BY DEF Idle, Request, Steps, Row, NoRow

LEMMA IdleFits == Fits(Idle) /\ Fits(Idle)'
  BY DEF Idle, Fits, FitsWrite, FitsCascade, Deletes, Writes, Rewrites

\* Only a requirement is named as a link and only a phase as the phase.
LEMMA ReferenceTypes ==
  ASSUME NEW e, NEW row \in Docs(e), NEW x \in References(row)
  PROVE  \/ x \in Phases /\ x = row.phase /\ e \in Phased
         \/ x \in Reqs /\ x \in row.links /\ e \in Linked
  BY DEF Docs, Row, References

\* What is neither a phase nor a requirement is named by nothing.
LEMMA DocumentsUnreferenced ==
  ASSUME RowsTraced, NEW x \in Adrs \cup Screens
  PROVE  Unreferenced(x)
  BY ReferenceTypes, TypesAssumption DEF RowsTraced, Traced, Unreferenced

LEMMA StagesOf ==
  /\ Stages("delete_phase") = <<Reqs, Screens, Adrs>>
  /\ Stages("delete_requirement") = <<Adrs>>
  /\ \A tool : tool \notin Deletes => Stages(tool) = <<>>
  BY DEF Stages, Deletes

LEMMA StageLengths ==
  /\ Len(Stages("delete_phase")) = 3 /\ Len(Stages("delete_requirement")) = 1
  /\ \A tool : tool \notin Deletes => Len(Stages(tool)) = 0
  /\ \A tool \in Deletes : Stages(tool) # <<>>
  <1>1. Len(<<Reqs, Screens, Adrs>>) = 3 /\ Len(<<Adrs>>) = 1 /\ Len(<<>>) = 0
    OBVIOUS
  <1> QED BY <1>1, StagesOf DEF Deletes

\* The tables of a stage hold entities.
LEMMA StageTables ==
  ASSUME NEW tool \in Deletes, NEW i \in 1 .. Len(Stages(tool))
  PROVE  Stages(tool)[i] \subseteq Entities \ Stories
  <1>0. /\ Reqs \subseteq Entities \ Stories /\ Screens \subseteq Entities \ Stories
        /\ Adrs \subseteq Entities \ Stories
    BY TypesAssumption DEF Entities
  <1>1. CASE tool = "delete_phase"
    <2>1. i \in 1 .. 3
      BY <1>1, StageLengths
    <2>2. i = 1 \/ i = 2 \/ i = 3
      BY <2>1
    <2>3. Stages(tool) = <<Reqs, Screens, Adrs>>
      BY <1>1, StagesOf
    <2>4. Stages(tool)[i] = Reqs \/ Stages(tool)[i] = Screens \/ Stages(tool)[i] = Adrs
      BY <2>2, <2>3
    <2> QED BY <1>0, <2>4, Zenon
  <1>2. CASE tool = "delete_requirement"
    <2>0. i \in 1 .. 1
      BY <1>2, StageLengths
    <2>1. i = 1
      BY <2>0
    <2>2. Stages(tool)[i] = Adrs
      BY <1>2, <2>1, StagesOf
    <2> QED BY <1>0, <2>2, Zenon
  <1> QED BY <1>1, <1>2 DEF Deletes

\* Once every table was gone through, nothing names the target any more.
LEMMA TargetFree ==
  ASSUME TypeOK, RowsTraced, NEW k \in Request, Fits(k), k.pc = "cascade", k.tool \in Deletes,
         k.todo = {}, k.stage = Len(Stages(k.tool))
  PROVE  Unreferenced(k.target)
  <1> SUFFICES ASSUME NEW e \in Entities, Live(e), k.target \in References(rows[e])
               PROVE  FALSE
    BY DEF Unreferenced
  <1>1. rows[e] \in Docs(e)
    BY DEF RowsTraced, Traced
  <1>2. e \notin Listed(k)
    BY DEF Fits, FitsCascade, Remaining
  <1>3. CASE k.tool = "delete_phase"
    <2>1. k.target \in Phases
      BY <1>3 DEF Fits
    <2>2. e \in Phased
      BY <1>1, <2>1, ReferenceTypes, TypesAssumption
    <2>3. k.stage = 3 /\ Stages(k.tool) = <<Reqs, Screens, Adrs>>
      BY <1>3, StagesOf, StageLengths
    <2>4. Reqs \subseteq Listed(k) /\ Screens \subseteq Listed(k) /\ Adrs \subseteq Listed(k)
      <3>1. 1 \in 1 .. k.stage /\ 2 \in 1 .. k.stage /\ 3 \in 1 .. k.stage
        BY <2>3
      <3>2. Stages(k.tool)[1] = Reqs /\ Stages(k.tool)[2] = Screens /\ Stages(k.tool)[3] = Adrs
        BY <2>3
      <3> QED BY <3>1, <3>2 DEF Listed
    <2> QED BY <1>2, <2>2, <2>4 DEF Phased
  <1>4. CASE k.tool = "delete_requirement"
    <2>1. k.target \in Reqs /\ LinkedStories(k.target) = {}
      BY <1>4 DEF Fits, FitsCascade
    <2>2. e \in Linked /\ k.target \in rows[e].links
      BY <1>1, <2>1, ReferenceTypes, TypesAssumption
    <2>3. e \in Adrs
      BY <2>1, <2>2 DEF Linked, LinkedStories
    <2>4. k.stage = 1 /\ Stages(k.tool)[1] = Adrs
      BY <1>4, StagesOf, StageLengths
    <2>5. Adrs \subseteq Listed(k)
      BY <2>4 DEF Listed
    <2> QED BY <1>2, <2>3, <2>5
  <1> QED BY <1>3, <1>4 DEF Deletes

-------------------------------------------------------------------------------
(* Steps of the only request.                                               *)

LEMMA RequestMoves ==
  ASSUME OneClient, DeletionInv, NEW c \in Clients, NEW k \in Request, Becomes(c, k), Fits(k)'
  PROVE  req' \in [Clients -> Request] /\ req'[c] = k /\ \A d \in Clients : Fits(req[d])'
  <1>1. \A d \in Clients : d = c
    BY DEF OneClient
  <1>2. req' \in [Clients -> Request] /\ req'[c] = k
    BY DEF DeletionInv, TypeOK, Becomes
  <1> QED BY <1>1, <1>2

LEMMA SameRowsFit ==
  ASSUME rows' = rows, NEW k, Fits(k)
  PROVE  Fits(k)'
  <1>1. \A e : Live(e)' = Live(e)
    BY DEF Live
  <1>2. \A e, doc : Traced(e, doc)' <=> Traced(e, doc)
    BY <1>1 DEF Traced
  <1>3. \A e, doc : SafeWrite(e, doc)' <=> SafeWrite(e, doc)
    BY <1>1, <1>2 DEF SafeWrite, Unreferenced
  <1>4. \A x : LinkedStories(x)' = LinkedStories(x)
    BY <1>1 DEF LinkedStories
  <1>5. FitsWrite(k)'
    BY <1>3 DEF Fits, FitsWrite
  <1>6. FitsCascade(k)'
    BY <1>1, <1>2, <1>4 DEF Fits, FitsCascade
  <1> QED BY <1>1, <1>4, <1>5, <1>6 DEF Fits

LEMMA SameRowsTraced ==
  ASSUME rows' = rows, RowsTraced
  PROVE  RowsTraced'
  BY DEF RowsTraced, Traced, Live

\* A step that only reads.
LEMMA ReadKeeps ==
  ASSUME OneClient, DeletionInv, NEW c \in Clients, NEW k \in Request, Becomes(c, k), Reads, Fits(k),
         \/ req[c].pc \notin {"config", "clear"}
         \/ req[c].target # activePhase
         \/ k.pc \in {"config", "clear"} /\ k.target = req[c].target
  PROVE  DeletionInv'
  <1>1. Fits(k)'
    BY SameRowsFit DEF Reads
  <1>2. req' \in [Clients -> Request] /\ req'[c] = k /\ \A d \in Clients : Fits(req[d])'
    BY <1>1, RequestMoves
  <1>3. TypeOK'
    BY <1>2 DEF DeletionInv, TypeOK, Reads
  <1>4. ActiveFits'
    <2>1. \A d \in Clients : d = c
      BY DEF OneClient
    <2> QED BY <1>2, <2>1 DEF DeletionInv, ActiveFits, Live, Reads
  <1> QED BY <1>2, <1>3, <1>4, SameRowsTraced DEF DeletionInv, Reads

LEMMA EndKeeps ==
  ASSUME OneClient, DeletionInv, NEW c \in Clients, Ends(c), Reads,
         req[c].pc \notin {"config", "clear"} \/ req[c].target # activePhase
  PROVE  DeletionInv'
  BY IdleTyped, IdleFits, ReadKeeps DEF Ends
-------------------------------------------------------------------------------
(* Creations and updates, up to their write.                                *)

LEMMA CreateStartKeeps ==
  ASSUME OneClient, DeletionInv, NEW c \in Clients, CreateStart(c)
  PROVE  DeletionInv'
  <1>0. PICK e \in Entities : \E doc \in Docs(e) :
           Becomes(c, [Idle EXCEPT !.tool = "create", !.pc = "refs", !.item = e, !.doc = doc,
                                   !.refs = References(doc)])
    BY DEF CreateStart
  <1>1. PICK doc \in Docs(e) :
           Becomes(c, [Idle EXCEPT !.tool = "create", !.pc = "refs", !.item = e, !.doc = doc,
                                   !.refs = References(doc)])
    BY <1>0
  <1>2. PICK k : k = [Idle EXCEPT !.tool = "create", !.pc = "refs", !.item = e, !.doc = doc,
                                  !.refs = References(doc)]
    OBVIOUS
  <1>3. "create" \in Tools /\ req[c].pc = "idle" /\ Reads
    BY IdleTyped DEF CreateStart, Starts
  <1>4. doc \in Row /\ References(doc) \in SUBSET Entities
    BY DEF Docs, Row, References, Entities
  <1>5. /\ k.pc = "refs" /\ k.tool = "create" /\ k.item = e /\ k.doc = doc /\ k.refs = References(doc)
        /\ k.target = NoPhase
    BY <1>2, IdleTyped DEF Request, Idle
  <1>6. k \in Request
    BY <1>2, <1>3, <1>4, IdleTyped DEF Request, Steps
  <1>7. Fits(k)
    BY <1>5 DEF Fits, FitsWrite, FitsCascade, Writes
  <1> QED BY <1>1, <1>2, <1>3, <1>6, <1>7, ReadKeeps

LEMMA UpdateReadKeeps ==
  ASSUME OneClient, DeletionInv, NEW c \in Clients, UpdateRead(c)
  PROVE  DeletionInv'
  <1>0. PICK e \in Entities :
           /\ Live(e)
           /\ \E doc \in Docs(e) :
                LET supplied == (IF doc.links = rows[e].links THEN {} ELSE doc.links)
                                \cup (References(doc) \ (References(rows[e]) \cup doc.links))
                IN  Becomes(c, [Idle EXCEPT !.tool = "update", !.pc = "refs", !.item = e,
                                            !.doc = doc, !.refs = supplied])
    BY DEF UpdateRead
  <1>1. PICK doc \in Docs(e) :
           LET supplied == (IF doc.links = rows[e].links THEN {} ELSE doc.links)
                           \cup (References(doc) \ (References(rows[e]) \cup doc.links))
           IN  Becomes(c, [Idle EXCEPT !.tool = "update", !.pc = "refs", !.item = e,
                                       !.doc = doc, !.refs = supplied])
    BY <1>0
  <1>2. PICK supplied : supplied = (IF doc.links = rows[e].links THEN {} ELSE doc.links)
                                   \cup (References(doc) \ (References(rows[e]) \cup doc.links))
    OBVIOUS
  <1>3. PICK k : k = [Idle EXCEPT !.tool = "update", !.pc = "refs", !.item = e, !.doc = doc, !.refs = supplied]
    OBVIOUS
  <1>4. "update" \in Tools /\ req[c].pc = "idle" /\ Reads
    BY IdleTyped DEF UpdateRead, Starts
  <1>5. doc \in Row /\ supplied \in SUBSET Entities
    BY <1>2 DEF Docs, Row, References, Entities
  <1>6. k.pc = "refs" /\ k.tool = "update" /\ k.item = e /\ k.doc = doc /\ k.refs = supplied /\ k.target = NoPhase
    BY <1>3, IdleTyped DEF Request, Idle
  <1>7. k \in Request
    BY <1>3, <1>4, <1>5, IdleTyped DEF Request, Steps
  \* A reference that is not supplied is one the stored row has.
  <1>8. \A x \in References(doc) \ supplied : Live(x)
    <2>1. \A x \in References(rows[e]) : Live(x)
      BY <1>0 DEF DeletionInv, RowsTraced, Traced
    <2>2. References(doc) \ supplied \subseteq References(rows[e])
      BY <1>2 DEF References
    <2> QED BY <2>1, <2>2
  <1>9. Fits(k)
    BY <1>6, <1>8 DEF Fits, FitsWrite, FitsCascade, Writes
  <1>10. Becomes(c, k)
    BY <1>1, <1>2, <1>3
  <1> QED BY <1>4, <1>7, <1>9, <1>10, ReadKeeps

LEMMA CheckReferenceKeeps ==
  ASSUME OneClient, DeletionInv, NEW c \in Clients, CheckReference(c)
  PROVE  DeletionInv'
  <1>r. req[c] \in Request /\ Fits(req[c]) /\ req[c].pc = "refs" /\ Reads
    BY DEF DeletionInv, TypeOK, CheckReference, At
  <1>1. PICK ref \in req[c].refs :
           IF Live(ref) THEN Becomes(c, [req[c] EXCEPT !.refs = @ \ {ref}]) ELSE Ends(c)
    BY DEF CheckReference
  <1>2. CASE ~Live(ref)
    BY <1>r, <1>1, <1>2, EndKeeps
  <1>3. CASE Live(ref)
    <2>1. PICK k : k = [req[c] EXCEPT !.refs = @ \ {ref}]
      OBVIOUS
    <2>2. k \in Request
      BY <1>r, <2>1 DEF Request
    <2>3. k.pc = "refs" /\ k.tool = req[c].tool /\ k.item = req[c].item /\ k.doc = req[c].doc
          /\ k.refs = req[c].refs \ {ref} /\ k.target = req[c].target
      BY <1>r, <2>1 DEF Request
    <2>4. Fits(k)
      BY <1>r, <1>3, <2>3 DEF Fits, FitsWrite, FitsCascade, Writes
    <2>5. Becomes(c, k)
      BY <1>1, <1>3, <2>1
    <2> QED BY <1>r, <2>2, <2>4, <2>5, ReadKeeps
  <1> QED BY <1>2, <1>3

LEMMA ListExistingKeeps ==
  ASSUME OneClient, DeletionInv, NEW c \in Clients, ListExisting(c)
  PROVE  DeletionInv'
  <1>r. req[c] \in Request /\ Fits(req[c]) /\ req[c].pc = "refs" /\ req[c].refs = {} /\ Reads
    BY DEF DeletionInv, TypeOK, ListExisting, At
  <1>f. /\ req[c].tool \in Writes /\ req[c].item \in Entities /\ Traced(req[c].item, req[c].doc)
        /\ req[c].doc.st = "live" /\ req[c].target = NoPhase
    BY <1>r DEF Fits, Traced, Docs
  <1>1. CASE Ends(c)
    BY <1>r, <1>1, EndKeeps
  <1>2. ASSUME NEW target \in Entities \cup {NoPhase},
               Becomes(c, [req[c] EXCEPT !.pc = "guard", !.target = target]),
               target # NoPhase => target \in Phases /\ target = req[c].item
        PROVE  DeletionInv'
    <2>1. PICK k : k = [req[c] EXCEPT !.pc = "guard", !.target = target]
      OBVIOUS
    <2>2. k \in Request
      BY <1>r, <2>1 DEF Request, Steps
    <2>3. k.pc = "guard" /\ k.tool = req[c].tool /\ k.item = req[c].item /\ k.doc = req[c].doc /\ k.target = target
      BY <1>r, <2>1 DEF Request
    <2>4. Fits(k)
      BY <1>f, <1>2, <2>3 DEF Fits, FitsWrite, FitsCascade, SafeWrite, Writes, Deletes, Rewrites
    <2> QED BY <1>r, <1>2, <2>1, <2>2, <2>4, ReadKeeps
  <1>3. CASE req[c].tool = "update"
    <2>1. Becomes(c, [req[c] EXCEPT !.pc = "guard", !.target = NoPhase])
      <3>1. Goto(c, "guard")
        BY <1>3 DEF ListExisting
      <3>2. [req[c] EXCEPT !.pc = "guard"] = [req[c] EXCEPT !.pc = "guard", !.target = NoPhase]
        BY <1>r, <1>f DEF Request
      <3> QED BY <3>1, <3>2 DEF Goto
    <2> QED BY <1>2, <2>1
  <1>4. CASE req[c].tool = "create" /\ ~Ends(c)
    <2>1. PICK activate \in BOOLEAN :
             /\ activate => req[c].item \in Phases
             /\ Becomes(c, [req[c] EXCEPT !.pc = "guard", !.target = IF activate THEN req[c].item ELSE NoPhase])
      BY <1>4 DEF ListExisting
    <2>2. PICK target \in Entities \cup {NoPhase} : target = IF activate THEN req[c].item ELSE NoPhase
      BY <1>f
    <2> QED BY <1>2, <2>1, <2>2
  <1> QED BY <1>1, <1>3, <1>4, <1>f DEF Writes

LEMMA GuardKeeps ==
  ASSUME OneClient, DeletionInv, NEW c \in Clients, Guard(c)
  PROVE  DeletionInv'
  <1>r. req[c] \in Request /\ Fits(req[c]) /\ req[c].pc = "guard" /\ Reads
    BY DEF DeletionInv, TypeOK, Guard, At
  <1>1. CASE Ends(c)
    BY <1>r, <1>1, EndKeeps
  <1>2. CASE ~Ends(c)
    <2>1. PICK k : k = [req[c] EXCEPT !.pc = "upsert"]
      OBVIOUS
    <2>2. k \in Request
      BY <1>r, <2>1 DEF Request, Steps
    <2>3. k.pc = "upsert" /\ k.tool = req[c].tool /\ k.item = req[c].item /\ k.doc = req[c].doc
          /\ k.target = req[c].target
      BY <1>r, <2>1 DEF Request
    <2>4. FitsWrite(req[c])
      BY <1>r DEF Fits
    <2>5. FitsWrite(k) /\ FitsCascade(k)
      BY <1>r, <2>3, <2>4 DEF FitsWrite, FitsCascade, Deletes, Rewrites
    <2>6. Fits(k)
      BY <1>r, <2>3, <2>5 DEF Fits
    <2>7. Becomes(c, k)
      BY <1>2, <2>1 DEF Guard, Goto
    <2> QED BY <1>r, <2>2, <2>6, <2>7, ReadKeeps
  <1> QED BY <1>1, <1>2

LEMMA SapCheckKeeps ==
  ASSUME OneClient, DeletionInv, NEW c \in Clients, SapCheck(c)
  PROVE  DeletionInv'
  <1>1. PICK p \in Phases :
           /\ Live(p)
           /\ Becomes(c, [Idle EXCEPT !.tool = "set_active_phase", !.pc = "activate", !.target = p])
    BY DEF SapCheck
  <1>2. PICK k : k = [Idle EXCEPT !.tool = "set_active_phase", !.pc = "activate", !.target = p]
    OBVIOUS
  <1>3. "set_active_phase" \in Tools /\ req[c].pc = "idle" /\ Reads
    BY IdleTyped DEF SapCheck, Starts
  <1>4. k \in Request
    BY <1>2, <1>3, IdleTyped DEF Request, Steps, Entities
  <1>5. k.pc = "activate" /\ k.tool = "set_active_phase" /\ k.target = p
    BY <1>2, IdleTyped DEF Request
  <1>6. Fits(k)
    BY <1>1, <1>5 DEF Fits, FitsWrite, FitsCascade
  <1> QED BY <1>1, <1>2, <1>3, <1>4, <1>6, ReadKeeps

-------------------------------------------------------------------------------
(* Bulk writes and the beginnings of deletions.                             *)

LEMMA AssignStartKeeps ==
  ASSUME OneClient, DeletionInv, NEW c \in Clients, AssignStart(c)
  PROVE  DeletionInv'
  <1>1. PICK p \in {NoPhase} \cup {q \in Phases : Live(q)} :
           Becomes(c, [Idle EXCEPT !.tool = "assign_requirements_to_phase", !.pc = "list", !.target = p])
    BY DEF AssignStart
  <1>2. PICK k : k = [Idle EXCEPT !.tool = "assign_requirements_to_phase", !.pc = "list", !.target = p]
    OBVIOUS
  <1>3. "assign_requirements_to_phase" \in Tools /\ req[c].pc = "idle" /\ Reads
    BY IdleTyped DEF AssignStart, Starts
  <1>4. k \in Request
    <2>1. "list" \in Steps /\ "assign_requirements_to_phase" \in Tools \cup {"none"} /\ p \in Entities \cup {NoPhase}
      BY <1>3 DEF Steps, Entities
    <2> QED BY <1>2, <2>1, IdleTyped DEF Request
  <1>5. k.pc = "list" /\ k.tool = "assign_requirements_to_phase" /\ k.target = p /\ k.stage = 0 /\ k.todo = {}
    BY <1>2 DEF Idle
  <1>6. Fits(k)
    BY <1>5 DEF Fits, FitsWrite, FitsCascade
  <1> QED BY <1>1, <1>2, <1>3, <1>4, <1>6, ReadKeeps

LEMMA AssignListKeeps ==
  ASSUME OneClient, DeletionInv, NEW c \in Clients, AssignList(c)
  PROVE  DeletionInv'
  <1>r. req[c] \in Request /\ Fits(req[c]) /\ req[c].pc = "list" /\ Reads
    BY DEF DeletionInv, TypeOK, AssignList, At
  <1>p. /\ req[c].target \in Phases \cup {NoPhase} /\ req[c].tool = "assign_requirements_to_phase"
        /\ req[c].target # NoPhase => Live(req[c].target)
    BY <1>r DEF Fits
  <1>1. PICK moved \in SUBSET {e \in Reqs : Live(e)} :
           Becomes(c, [req[c] EXCEPT !.pc = "cascade",
                          !.todo = {[item |-> e, doc |-> [rows[e] EXCEPT !.phase = req[c].target]] : e \in moved}])
    <2>1. PICK selected \in SUBSET {e \in Reqs : Live(e)} :
            Becomes(c, [req[c] EXCEPT !.pc = "cascade",
               !.todo = {[item |-> e, doc |-> [rows[e] EXCEPT !.phase = req[c].target]] :
                         e \in {e \in selected : rows[e].phase # req[c].target}}])
      BY DEF AssignList
    <2>2. PICK moved : moved = {e \in selected : rows[e].phase # req[c].target}
      OBVIOUS
    <2> QED BY <2>1, <2>2
  <1>2. PICK todo : todo = {[item |-> e, doc |-> [rows[e] EXCEPT !.phase = req[c].target]] : e \in moved}
    OBVIOUS
  <1>3. ASSUME NEW w \in todo
        PROVE  w \in Write /\ Traced(w.item, w.doc)
    <2>1. PICK e \in moved : w = [item |-> e, doc |-> [rows[e] EXCEPT !.phase = req[c].target]]
      BY <1>2
    <2>2. e \in Reqs /\ Live(e) /\ e \in Entities
      BY DEF Entities
    <2>3. rows[e] \in Row /\ Traced(e, rows[e])
      BY <2>2 DEF DeletionInv, TypeOK, RowsTraced
    <2>4. PICK doc : doc = [rows[e] EXCEPT !.phase = req[c].target]
      OBVIOUS
    <2>5. doc \in Row /\ doc.st = rows[e].st /\ doc.links = rows[e].links /\ doc.phase = req[c].target
      BY <1>p, <2>3, <2>4 DEF Row
    <2>6. doc \in Docs(e)
      BY <2>2, <2>3, <2>5, TypesAssumption DEF Traced, Docs, Live, Phased
    <2>7. \A x \in References(doc) : Live(x)
      BY <1>p, <2>3, <2>5 DEF Traced, References
    <2> QED BY <2>1, <2>2, <2>4, <2>5, <2>6, <2>7 DEF Write, Traced
  <1>4. PICK k : k = [req[c] EXCEPT !.pc = "cascade", !.todo = todo]
    OBVIOUS
  <1>5. todo \in SUBSET Write
    BY <1>3
  <1>6. k \in Request
    BY <1>r, <1>4, <1>5 DEF Request, Steps
  <1>7. k.pc = "cascade" /\ k.tool = "assign_requirements_to_phase" /\ k.todo = todo
    BY <1>r, <1>p, <1>4 DEF Request
  <1>8. Fits(k)
    BY <1>3, <1>7 DEF Fits, FitsWrite, FitsCascade, Deletes, Rewrites
  <1>9. Becomes(c, k)
    BY <1>1, <1>2, <1>4
  <1> QED BY <1>r, <1>6, <1>8, <1>9, ReadKeeps

LEMMA ImportAdrsKeeps ==
  ASSUME OneClient, DeletionInv, NEW c \in Clients, ImportAdrs(c)
  PROVE  DeletionInv'
  <1>1. PICK files \in SUBSET Adrs :
           Becomes(c, [Idle EXCEPT !.tool = "import_adrs_from_files", !.pc = "cascade",
                          !.todo = {[item |-> a, doc |-> [NoRow EXCEPT !.st = "live"]] :
                                    a \in {x \in files : rows[x].st = "absent"}}])
    BY DEF ImportAdrs
  <1>2. PICK todo : todo = {[item |-> a, doc |-> [NoRow EXCEPT !.st = "live"]] :
                            a \in {x \in files : rows[x].st = "absent"}}
    OBVIOUS
  <1>3. ASSUME NEW w \in todo
        PROVE  w \in Write /\ Traced(w.item, w.doc)
    <2>1. PICK doc : doc = [NoRow EXCEPT !.st = "live"]
      OBVIOUS
    <2>2. PICK a \in Adrs : w = [item |-> a, doc |-> doc]
      BY <1>2, <2>1
    <2>3. doc \in Row /\ doc.st = "live" /\ doc.phase = NoPhase /\ doc.links = {}
      BY <2>1 DEF NoRow, Row
    <2>4. doc \in Docs(a) /\ References(doc) = {}
      BY <2>3, TypesAssumption DEF Docs, References
    <2> QED BY <2>2, <2>3, <2>4 DEF Write, Traced, Entities
  <1>4. PICK k : k = [Idle EXCEPT !.tool = "import_adrs_from_files", !.pc = "cascade", !.todo = todo]
    OBVIOUS
  <1>5. todo \in SUBSET Write
    BY <1>3
  <1>6. "import_adrs_from_files" \in Tools /\ req[c].pc = "idle" /\ Reads
    BY IdleTyped DEF ImportAdrs, Starts
  <1>7. k \in Request
    BY <1>4, <1>5, <1>6, IdleTyped DEF Request, Steps
  <1>8. k.pc = "cascade" /\ k.tool = "import_adrs_from_files" /\ k.todo = todo
    BY <1>4, IdleTyped DEF Request
  <1>9. Fits(k)
    BY <1>3, <1>8 DEF Fits, FitsWrite, FitsCascade, Deletes, Rewrites
  <1>10. Becomes(c, k)
    BY <1>1, <1>2, <1>4
  <1> QED BY <1>6, <1>7, <1>9, <1>10, ReadKeeps

\* The row of e as it is, removed.
LEMMA RemovedRow ==
  ASSUME TypeOK, NEW e \in Entities
  PROVE  [rows[e] EXCEPT !.st = "removed"] \in Row /\ [rows[e] EXCEPT !.st = "removed"].st = "removed"
  BY DEF TypeOK, Row

LEMMA DeleteDocumentKeeps ==
  ASSUME OneClient, DeletionInv, NEW c \in Clients, DeleteDocument(c)
  PROVE  DeletionInv'
  <1>1. PICK e \in Adrs \cup Screens :
           Becomes(c, [Idle EXCEPT !.tool = "delete_document", !.pc = "guard", !.item = e,
                                   !.doc = [rows[e] EXCEPT !.st = "removed"]])
    BY DEF DeleteDocument
  <1>2. PICK doc \in Row : doc = [rows[e] EXCEPT !.st = "removed"] /\ doc.st = "removed" /\ e \in Entities
    BY RemovedRow DEF Entities, DeletionInv
  <1>3. PICK k : k = [Idle EXCEPT !.tool = "delete_document", !.pc = "guard", !.item = e, !.doc = doc]
    OBVIOUS
  <1>4. "delete_document" \in Tools /\ req[c].pc = "idle" /\ Reads
    BY IdleTyped DEF DeleteDocument, Starts
  <1>5. k \in Request
    BY <1>2, <1>3, <1>4, IdleTyped DEF Request, Steps
  <1>6. k.pc = "guard" /\ k.tool = "delete_document" /\ k.item = e /\ k.doc = doc
    BY <1>3, IdleTyped DEF Request
  <1>7. Fits(k)
    BY <1>2, <1>6, DocumentsUnreferenced
       DEF DeletionInv, Fits, FitsWrite, FitsCascade, SafeWrite, Writes, Deletes, Rewrites
  <1>8. Becomes(c, k)
    BY <1>1, <1>2, <1>3
  <1> QED BY <1>4, <1>5, <1>7, <1>8, ReadKeeps
LEMMA DeleteStartKeeps ==
  ASSUME OneClient, DeletionInv, NEW c \in Clients, DeleteStart(c)
  PROVE  DeletionInv'
  <1>1. PICK e \in Phases \cup Reqs :
           LET tool == IF e \in Phases THEN "delete_phase" ELSE "delete_requirement"
           IN  /\ Starts(c, tool)
               /\ Becomes(c, [Idle EXCEPT !.tool = tool, !.target = e,
                                          !.pc = IF e \in Phases THEN "locked" ELSE "stories"])
    BY DEF DeleteStart
  <1>2. PICK tool : tool = IF e \in Phases THEN "delete_phase" ELSE "delete_requirement"
    OBVIOUS
  <1>3. PICK pc : pc = IF e \in Phases THEN "locked" ELSE "stories"
    OBVIOUS
  <1>4. PICK k : k = [Idle EXCEPT !.tool = tool, !.target = e, !.pc = pc]
    OBVIOUS
  <1>5. tool \in Tools /\ req[c].pc = "idle" /\ Reads
    BY <1>1, <1>2, IdleTyped DEF DeleteStart, Starts
  <1>6. k \in Request
    <2>1. e \in Entities /\ pc \in Steps /\ tool \in Tools
      BY <1>3, <1>5 DEF Entities, Steps
    <2> QED BY <1>4, <2>1, IdleTyped DEF Request
  <1>7. k.pc = pc /\ k.tool = tool /\ k.target = e /\ k.stage = 0 /\ k.todo = {}
    BY <1>4 DEF Idle
  <1>8. Fits(k)
    BY <1>2, <1>3, <1>7 DEF Fits, FitsWrite, FitsCascade, Deletes
  <1>9. Becomes(c, k)
    BY <1>1, <1>2, <1>3, <1>4
  <1> QED BY <1>5, <1>6, <1>8, <1>9, ReadKeeps

LEMMA CheckStoriesKeeps ==
  ASSUME OneClient, DeletionInv, NEW c \in Clients, CheckStories(c)
  PROVE  DeletionInv'
  <1>r. req[c] \in Request /\ Fits(req[c]) /\ req[c].pc = "stories" /\ Reads
    BY DEF DeletionInv, TypeOK, CheckStories, At
  <1>1. CASE Ends(c)
    BY <1>r, <1>1, EndKeeps
  <1>2. CASE ~Ends(c)
    <2>1. PICK k : k = [req[c] EXCEPT !.pc = "locked"]
      OBVIOUS
    <2>2. k \in Request
      BY <1>r, <2>1 DEF Request, Steps
    <2>3. k.pc = "locked" /\ k.tool = req[c].tool /\ k.target = req[c].target
          /\ k.todo = req[c].todo /\ k.stage = req[c].stage
      BY <1>r, <2>1 DEF Request
    <2>4. Fits(k)
      BY <1>r, <1>2, <2>3 DEF Fits, FitsWrite, FitsCascade, CheckStories, Deletes
    <2>5. Becomes(c, k)
      BY <1>2, <2>1 DEF CheckStories, Goto
    <2> QED BY <1>r, <2>2, <2>4, <2>5, ReadKeeps
  <1> QED BY <1>1, <1>2

LEMMA AssertNotLockedKeeps ==
  ASSUME OneClient, DeletionInv, NEW c \in Clients, AssertNotLocked(c)
  PROVE  DeletionInv'
  <1>r. req[c] \in Request /\ Fits(req[c]) /\ req[c].pc = "locked" /\ Reads
    BY DEF DeletionInv, TypeOK, AssertNotLocked, At
  <1>1. CASE Ends(c)
    BY <1>r, <1>1, EndKeeps
  <1>2. CASE ~Ends(c)
    <2>1. PICK k : k = [req[c] EXCEPT !.pc = "cascade"]
      OBVIOUS
    <2>2. k \in Request
      BY <1>r, <2>1 DEF Request, Steps
    <2>3. k.pc = "cascade" /\ k.tool = req[c].tool /\ k.target = req[c].target
          /\ k.todo = {} /\ k.stage = 0
      BY <1>r, <2>1 DEF Request, Fits
    <2>4. Listed(k) = {}
      BY <2>3 DEF Listed
    <2>5. FitsWrite(k) /\ FitsCascade(k)
      <3>1. k.tool \in Deletes /\ k.stage <= Len(Stages(k.tool))
        BY <1>r, <2>3, StageLengths DEF Fits, Deletes
      <3> QED BY <1>r, <2>3, <2>4, <3>1 DEF Fits, FitsWrite, FitsCascade
    <2>6. Fits(k)
      BY <1>r, <2>3, <2>5 DEF Fits
    <2>7. Becomes(c, k)
      BY <1>2, <2>1 DEF AssertNotLocked, Goto
    <2> QED BY <1>r, <2>2, <2>6, <2>7, ReadKeeps
  <1> QED BY <1>1, <1>2

-------------------------------------------------------------------------------
(* The cascade.                                                             *)

\* A row that names the target, without it.
LEMMA DetachedTraced ==
  ASSUME NEW e \in Entities \ Stories, NEW row \in Row, Traced(e, row), NEW x \in Phases \cup Reqs
  PROVE  /\ Detached(row, x) \in Row
         /\ Traced(e, Detached(row, x))
         /\ x \notin References(Detached(row, x))
  <1>1. PICK phase : phase = IF row.phase = x THEN NoPhase ELSE row.phase
    OBVIOUS
  <1>2. PICK links : links = row.links \ {x}
    OBVIOUS
  <1>3. PICK doc : doc = [row EXCEPT !.links = links, !.phase = phase]
    OBVIOUS
  <1>4. Detached(row, x) = doc
    BY <1>1, <1>2, <1>3 DEF Detached
  <1>5. doc \in Row /\ doc.st = row.st /\ doc.links = links /\ doc.phase = phase
    BY <1>1, <1>2, <1>3 DEF Row
  <1>6. References(doc) = References(row) \ {x}
    <2>1. x # NoPhase
      BY NoPhaseAssumption
    <2> QED BY <1>1, <1>2, <1>5, <2>1 DEF References
  <1>7. doc \in Docs(e)
    BY <1>1, <1>2, <1>5 DEF Traced, Docs
  <1> QED BY <1>4, <1>5, <1>6, <1>7 DEF Traced

LEMMA CascadeListKeeps ==
  ASSUME OneClient, DeletionInv, NEW c \in Clients, CascadeList(c)
  PROVE  DeletionInv'
  <1>r. req[c] \in Request /\ Fits(req[c]) /\ req[c].pc = "cascade" /\ req[c].todo = {} /\ Reads
    BY DEF DeletionInv, TypeOK, CascadeList, At
  <1>s. req[c].stage \in 0 .. 3 /\ req[c].stage < Len(Stages(req[c].tool)) /\ FitsCascade(req[c])
    BY <1>r DEF CascadeList, Request, Fits
  <1>t. req[c].tool \in Deletes
    BY <1>s, StageLengths
  <1>x. req[c].target \in Phases \cup Reqs
    BY <1>r, <1>t DEF Fits, Deletes
  <1>1. PICK next : next = req[c].stage + 1
    OBVIOUS
  <1>2. next \in 1 .. Len(Stages(req[c].tool)) /\ next \in 0 .. 3
    <2>1. PICK n : n = Len(Stages(req[c].tool))
      OBVIOUS
    <2>2. n = 3 \/ n = 1
      BY <1>t, <2>1, StageLengths DEF Deletes
    <2>3. req[c].stage < n /\ req[c].stage \in 0 .. 3
      BY <1>s, <2>1
    <2>4. next \in 1 .. n /\ next \in 0 .. 3
      BY <1>1, <2>2, <2>3
    <2> QED BY <2>1, <2>4
  <1>3. PICK table : table = Stages(req[c].tool)[next]
    OBVIOUS
  <1>4. table \subseteq Entities \ Stories
    BY <1>t, <1>2, <1>3, StageTables
  <1>5. PICK pointing : pointing = {e \in table : Live(e) /\ req[c].target \in References(rows[e])}
    OBVIOUS
  <1>6. PICK todo : todo = {[item |-> e, doc |-> Detached(rows[e], req[c].target)] : e \in pointing}
    OBVIOUS
  <1>7. ASSUME NEW w \in todo
        PROVE  w \in Write /\ Traced(w.item, w.doc) /\ req[c].target \notin References(w.doc)
    <2>1. PICK e \in pointing : w = [item |-> e, doc |-> Detached(rows[e], req[c].target)]
      BY <1>6
    <2>2. e \in Entities \ Stories /\ Live(e)
      BY <1>4, <1>5
    <2>3. rows[e] \in Row /\ Traced(e, rows[e])
      BY <2>2 DEF DeletionInv, TypeOK, RowsTraced
    <2> QED BY <1>x, <2>1, <2>2, <2>3, DetachedTraced DEF Write
  <1>8. PICK k : k = [req[c] EXCEPT !.stage = next, !.todo = todo]
    OBVIOUS
  <1>9. todo \in SUBSET Write
    BY <1>7
  <1>10. k \in Request
    BY <1>r, <1>2, <1>8, <1>9 DEF Request
  <1>11. k.pc = "cascade" /\ k.tool = req[c].tool /\ k.target = req[c].target /\ k.todo = todo /\ k.stage = next
    BY <1>r, <1>8 DEF Request
  <1>12. Listed(k) \subseteq Listed(req[c]) \cup table
    <2> SUFFICES ASSUME NEW i \in 1 .. next
                 PROVE  Stages(k.tool)[i] \subseteq Listed(req[c]) \cup table
      BY <1>11 DEF Listed
    <2>1. i = next \/ i \in 1 .. req[c].stage
      BY <1>1, <1>s
    <2> QED BY <1>3, <1>11, <2>1 DEF Listed
  <1>13. \A e \in Listed(k) \ Remaining(k) : Live(e) => k.target \notin References(rows[e])
    <2> SUFFICES ASSUME NEW e \in Listed(k) \ Remaining(k), Live(e)
                 PROVE  k.target \notin References(rows[e])
      OBVIOUS
    <2>1. CASE e \in Listed(req[c])
      <3>1. e \notin Remaining(req[c])
        BY <1>r DEF Remaining
      <3> QED BY <1>s, <1>t, <1>r, <1>11, <2>1, <3>1 DEF FitsCascade
    <2>2. CASE e \in table
      <3>1. e \notin pointing
        <4>1. ASSUME e \in pointing PROVE FALSE
          <5>1. PICK w : w = [item |-> e, doc |-> Detached(rows[e], req[c].target)]
            OBVIOUS
          <5>2. w \in todo /\ w.item = e
            BY <1>6, <4>1, <5>1
          <5> QED BY <1>11, <5>2 DEF Remaining
        <4> QED BY <4>1
      <3> QED BY <1>5, <1>11, <2>2, <3>1
    <2> QED BY <1>12, <2>1, <2>2
  <1>14. FitsWrite(k) /\ FitsCascade(k)
    <2>1. k.stage <= Len(Stages(k.tool))
      BY <1>2, <1>11
    <2> QED BY <1>r, <1>s, <1>7, <1>11, <1>13, <2>1 DEF FitsWrite, FitsCascade
  <1>15. Fits(k)
    BY <1>r, <1>11, <1>14 DEF Fits
  <1>16. Becomes(c, k)
    BY <1>1, <1>3, <1>5, <1>6, <1>8 DEF CascadeList
  <1> QED BY <1>r, <1>10, <1>15, <1>16, ReadKeeps

LEMMA CascadeGuardKeeps ==
  ASSUME OneClient, DeletionInv, NEW c \in Clients, CascadeGuard(c)
  PROVE  DeletionInv'
  <1>r. req[c] \in Request /\ Fits(req[c]) /\ req[c].pc = "cascade" /\ FitsCascade(req[c]) /\ Reads
    BY DEF DeletionInv, TypeOK, CascadeGuard, At, Fits
  <1>1. PICK w \in req[c].todo :
           IF Refused(w.item, w.doc) THEN Ends(c)
           ELSE Becomes(c, [req[c] EXCEPT !.pc = "upsert", !.item = w.item, !.doc = w.doc, !.todo = @ \ {w}])
    BY DEF CascadeGuard
  <1>2. CASE Refused(w.item, w.doc)
    BY <1>r, <1>1, <1>2, EndKeeps
  <1>3. CASE ~Refused(w.item, w.doc)
    <2>1. w \in Write /\ Traced(w.item, w.doc) /\ w.doc.st = "live"
      BY <1>r DEF Request, FitsCascade, Traced, Docs
    <2>2. w.item \in Entities /\ w.doc \in Row
      BY <2>1 DEF Write
    <2>3. PICK k : k = [req[c] EXCEPT !.pc = "upsert", !.item = w.item, !.doc = w.doc, !.todo = @ \ {w}]
      OBVIOUS
    <2>4. k \in Request
      BY <1>r, <2>2, <2>3 DEF Request, Steps
    <2>5. /\ k.pc = "upsert" /\ k.tool = req[c].tool /\ k.item = w.item /\ k.doc = w.doc
          /\ k.target = req[c].target /\ k.todo = req[c].todo \ {w} /\ k.stage = req[c].stage
      BY <1>r, <2>3 DEF Request
    <2>6. Listed(k) = Listed(req[c])
      BY <2>5 DEF Listed
    <2>7. Remaining(req[c]) \subseteq Remaining(k)
      BY <1>r, <2>5 DEF Remaining
    <2>8. FitsWrite(k)
      BY <1>r, <2>1, <2>2, <2>5 DEF FitsWrite, FitsCascade, SafeWrite, Writes, Deletes, Rewrites
    <2>9. FitsCascade(k)
      BY <1>r, <2>5, <2>6, <2>7 DEF FitsCascade
    <2>10. Fits(k)
      BY <1>r, <2>5, <2>8, <2>9 DEF Fits, FitsCascade, Writes, Deletes, Rewrites
    <2>11. Becomes(c, k)
      BY <1>1, <1>3, <2>3
    <2> QED BY <1>r, <2>4, <2>10, <2>11, ReadKeeps
  <1> QED BY <1>2, <1>3

LEMMA ReadExistingKeeps ==
  ASSUME OneClient, DeletionInv, NEW c \in Clients, ReadExisting(c)
  PROVE  DeletionInv'
  <1>r. /\ req[c] \in Request /\ Fits(req[c]) /\ req[c].pc = "cascade" /\ req[c].todo = {} /\ Reads
        /\ req[c].stage = Len(Stages(req[c].tool))
    BY DEF DeletionInv, TypeOK, ReadExisting, At
  <1>1. CASE req[c].tool \notin Deletes
    <2>1. Stages(req[c].tool) = <<>>
      BY <1>1, StagesOf
    <2>2. Ends(c)
      BY <2>1 DEF ReadExisting
    <2> QED BY <1>r, <2>2, EndKeeps
  <1>2. CASE req[c].tool \in Deletes
    <2>1. Unreferenced(req[c].target)
      BY <1>r, <1>2, TargetFree DEF DeletionInv
    <2>2. Stages(req[c].tool) # <<>>
      BY <1>2, StageLengths
    <2>3. req[c].target \in Phases \cup Reqs /\ req[c].target \in Entities
      BY <1>r, <1>2 DEF Fits, Deletes, Entities
    <2>4. CASE Live(req[c].target)
      <3>1. Becomes(c, [req[c] EXCEPT !.pc = "guard", !.item = req[c].target,
                                      !.doc = [rows[req[c].target] EXCEPT !.st = "removed"]])
        BY <2>2, <2>4 DEF ReadExisting
      <3>2. PICK doc \in Row : doc = [rows[req[c].target] EXCEPT !.st = "removed"] /\ doc.st = "removed"
        BY <2>3, RemovedRow DEF DeletionInv
      <3>3. PICK k : k = [req[c] EXCEPT !.pc = "guard", !.item = req[c].target, !.doc = doc]
        OBVIOUS
      <3>4. k \in Request
        BY <1>r, <2>3, <3>2, <3>3 DEF Request, Steps
      <3>5. k.pc = "guard" /\ k.tool = req[c].tool /\ k.item = req[c].target /\ k.doc = doc
            /\ k.target = req[c].target
        BY <1>r, <3>3 DEF Request
      <3>6. FitsWrite(k) /\ FitsCascade(k)
        BY <1>2, <2>1, <2>3, <3>2, <3>5
           DEF FitsWrite, FitsCascade, SafeWrite, Writes, Deletes, Rewrites
      <3>7. Fits(k)
        BY <1>r, <1>2, <3>5, <3>6 DEF Fits, Deletes, Writes
      <3> QED BY <1>r, <3>1, <3>2, <3>3, <3>4, <3>7, ReadKeeps
    <2>5. CASE ~Live(req[c].target) /\ req[c].tool = "delete_phase"
      <3>1. req[c].target \in Phases
        BY <1>r, <2>5 DEF Fits
      <3>2. Goto(c, "config")
        BY <2>2, <2>5, <3>1, TypesAssumption DEF ReadExisting
      <3>3. PICK k : k = [req[c] EXCEPT !.pc = "config"]
        OBVIOUS
      <3>4. k \in Request
        BY <1>r, <3>3 DEF Request, Steps
      <3>5. k.pc = "config" /\ k.tool = req[c].tool /\ k.target = req[c].target
        BY <1>r, <3>3 DEF Request
      <3>6. Fits(k)
        BY <2>5, <3>1, <3>5 DEF Fits, FitsWrite, FitsCascade
      <3> QED BY <1>r, <3>2, <3>3, <3>4, <3>6, ReadKeeps DEF Goto
    <2>6. CASE ~Live(req[c].target) /\ req[c].tool = "delete_requirement"
      <3>1. req[c].target \in Reqs
        BY <1>r, <2>6 DEF Fits
      <3>2. Ends(c)
        BY <2>2, <2>6, <3>1, TypesAssumption DEF ReadExisting
      <3> QED BY <1>r, <3>2, EndKeeps
    <2> QED BY <1>2, <2>4, <2>5, <2>6 DEF Deletes
  <1> QED BY <1>1, <1>2

LEMMA ConfigReadKeeps ==
  ASSUME OneClient, DeletionInv, NEW c \in Clients, ReadConfig(c)
  PROVE  DeletionInv'
  <1>r. req[c] \in Request /\ Fits(req[c]) /\ req[c].pc = "config" /\ Reads
    BY DEF DeletionInv, TypeOK, ReadConfig, At
  <1>1. CASE activePhase # req[c].target
    BY <1>r, <1>1, EndKeeps DEF ReadConfig
  <1>2. CASE activePhase = req[c].target
    <2>1. PICK k : k = [req[c] EXCEPT !.pc = "clear"]
      OBVIOUS
    <2>2. k \in Request
      BY <1>r, <2>1 DEF Request, Steps
    <2>3. k.pc = "clear" /\ k.tool = req[c].tool /\ k.target = req[c].target
      BY <1>r, <2>1 DEF Request
    <2>4. Fits(k)
      BY <1>r, <2>3 DEF Fits, FitsWrite, FitsCascade
    <2>5. Becomes(c, k)
      BY <1>2, <2>1 DEF ReadConfig, Goto
    <2> QED BY <1>r, <2>2, <2>3, <2>4, <2>5, ReadKeeps
  <1> QED BY <1>1, <1>2

-------------------------------------------------------------------------------
(* Writes.                                                                  *)

\* One safe write: every row that stays live keeps what it names.
LEMMA SafeWriteKeeps ==
  ASSUME TypeOK, RowsTraced, NEW e \in Entities, NEW doc \in Row, SafeWrite(e, doc),
         rows' = [rows EXCEPT ![e] = doc]
  PROVE  /\ rows' \in [Entities -> Row] /\ rows'[e] = doc
         /\ \A x \in Entities \ {e} : rows'[x] = rows[x]
         /\ \A x \in Entities : Live(x) /\ (x # e \/ doc.st = "live") => Live(x)'
         /\ RowsTraced'
  <1>1. /\ rows' \in [Entities -> Row] /\ rows'[e] = doc
        /\ \A x \in Entities \ {e} : rows'[x] = rows[x]
    BY DEF TypeOK
  <1>2. \A x \in Entities : Live(x) /\ (x # e \/ doc.st = "live") => Live(x)'
    BY <1>1 DEF Live
  <1>3. \A x \in Entities : \A y \in References(rows[x]) : y \in Entities
    BY DEF TypeOK, Row, References, Entities
  <1>4. \A y \in References(doc) : y \in Entities
    BY DEF Row, References, Entities
  <1>5. ASSUME NEW x \in Entities, Live(x)'
        PROVE  Traced(x, rows[x])'
    <2>1. CASE Traced(e, doc)
      <3>1. doc.st = "live"
        BY <2>1 DEF Traced, Docs
      <3>2. CASE x = e
        BY <1>1, <1>2, <1>4, <2>1, <3>1, <3>2 DEF Traced
      <3>3. CASE x # e
        <4>1. rows'[x] = rows[x] /\ Live(x)
          BY <1>1, <1>5, <3>3 DEF Live
        <4>2. Traced(x, rows[x])
          BY <4>1 DEF RowsTraced
        <4> QED BY <1>2, <1>3, <3>1, <4>1, <4>2 DEF Traced
      <3> QED BY <3>2, <3>3
    <2>2. CASE doc.st = "removed" /\ Unreferenced(e)
      <3>1. x # e
        BY <1>1, <1>5, <2>2 DEF Live
      <3>2. rows'[x] = rows[x] /\ Live(x)
        BY <1>1, <1>5, <3>1 DEF Live
      <3>3. Traced(x, rows[x]) /\ e \notin References(rows[x])
        BY <2>2, <3>2 DEF RowsTraced, Unreferenced
      <3> QED BY <1>2, <1>3, <3>2, <3>3 DEF Traced
    <2> QED BY <2>1, <2>2 DEF SafeWrite
  <1> QED BY <1>1, <1>2, <1>5 DEF RowsTraced

\* What a cascade still has to write stays traced, and its target loses no ground.
LEMMA CascadeGoesOn ==
  ASSUME TypeOK, RowsTraced, NEW r \in Request, NEW k \in Request, Fits(r), r.pc = "upsert",
         r.tool \in Deletes \cup Rewrites, r.doc.st = "live",
         rows' = [rows EXCEPT ![r.item] = r.doc],
         k.pc = "cascade", k.tool = r.tool, k.target = r.target, k.todo = r.todo, k.stage = r.stage
  PROVE  Fits(k)'
  <1>1. r.item \in Entities /\ r.doc \in Row /\ SafeWrite(r.item, r.doc) /\ FitsCascade(r)
    BY DEF Request, Fits, FitsWrite
  <1>2. /\ rows'[r.item] = r.doc
        /\ \A x \in Entities \ {r.item} : rows'[x] = rows[x]
        /\ \A x \in Entities : Live(x) => Live(x)'
    BY <1>1, SafeWriteKeeps
  <1>3. ASSUME NEW w \in k.todo
        PROVE  Traced(w.item, w.doc)'
    <2>1. w \in Write /\ Traced(w.item, w.doc)
      BY <1>1 DEF Request, FitsCascade
    <2>2. References(w.doc) \subseteq Entities
      BY <2>1 DEF Write, Row, References, Entities
    <2> QED BY <1>2, <2>1, <2>2 DEF Traced
  <1>4. ASSUME k.tool = "delete_requirement"
        PROVE  (LinkedStories(k.target) = {})'
    <2>1. LinkedStories(r.target) = {} /\ r.target \notin References(r.doc)
      BY <1>1, <1>4 DEF FitsCascade, Deletes
    <2>2. ASSUME NEW s \in Stories, Live(s)', k.target \in rows'[s].links
          PROVE  FALSE
      <3>1. s \in Entities
        BY DEF Entities
      <3>2. s # r.item
        BY <1>2, <2>1, <2>2 DEF References
      <3>3. rows'[s] = rows[s]
        BY <1>2, <3>1, <3>2
      <3>4. s \in LinkedStories(r.target)
        BY <2>2, <3>3 DEF LinkedStories, Live
      <3> QED BY <2>1, <3>4
    <2> QED BY <2>2 DEF LinkedStories
  <1>5. ASSUME k.tool \in Deletes, NEW e \in Listed(k) \ Remaining(k), Live(e)'
        PROVE  k.target \notin References(rows'[e])
    <2>1. e \in Listed(r) /\ (e = r.item \/ e \notin Remaining(r))
      BY DEF Listed, Remaining
    <2>2. CASE e = r.item
      BY <1>1, <1>2, <1>5, <2>2 DEF FitsCascade
    <2>3. CASE e # r.item
      <3>1. e \in Entities
        <4>1. PICK i \in 1 .. r.stage : e \in Stages(r.tool)[i]
          BY <2>1 DEF Listed
        <4>2. PICK n : n = Len(Stages(r.tool))
          OBVIOUS
        <4>3. (n = 3 \/ n = 1) /\ r.stage <= n /\ r.stage \in 0 .. 3
          BY <1>1, <1>5, <4>2, StageLengths DEF FitsCascade, Request, Deletes
        <4>4. i \in 1 .. n
          BY <4>3
        <4>5. i \in 1 .. Len(Stages(r.tool))
          BY <4>2, <4>4
        <4> QED BY <4>1, <4>5, <1>5, StageTables
      <3>2. rows'[e] = rows[e]
        BY <1>2, <2>3, <3>1
      <3> QED BY <1>1, <1>5, <2>1, <2>3, <3>2 DEF FitsCascade, Live
    <2> QED BY <2>2, <2>3
  <1>6. FitsCascade(k)'
    <2>1. /\ k.tool \in Deletes \cup Rewrites
          /\ k.tool \in Deletes => /\ k.stage <= Len(Stages(k.tool))
                                  /\ \A w \in k.todo : k.target \notin References(w.doc)
      BY <1>1 DEF FitsCascade
    <2> QED BY <1>3, <1>4, <1>5, <2>1 DEF FitsCascade
  <1> QED BY <1>6 DEF Fits, FitsWrite

LEMMA UpsertKeeps ==
  ASSUME OneClient, DeletionInv, NEW c \in Clients, Upsert(c)
  PROVE  DeletionInv'
  <1>r. /\ req[c] \in Request /\ Fits(req[c]) /\ req[c].pc = "upsert"
        /\ rows' = [rows EXCEPT ![req[c].item] = req[c].doc] /\ UNCHANGED <<locked, activePhase, stopped>>
    BY DEF DeletionInv, TypeOK, Upsert, At
  <1>f. /\ req[c].item \in Entities /\ req[c].doc \in Row /\ SafeWrite(req[c].item, req[c].doc)
        /\ FitsWrite(req[c])
    BY <1>r DEF Request, Fits, FitsWrite
  <1>w. /\ rows' \in [Entities -> Row] /\ rows'[req[c].item] = req[c].doc /\ RowsTraced'
        /\ \A x \in Entities : Live(x) /\ (x # req[c].item \/ req[c].doc.st = "live") => Live(x)'
    BY <1>r, <1>f, SafeWriteKeeps DEF DeletionInv
  <1>a. ~stopped /\ activePhase # NoPhase => activePhase \in Phases /\ activePhase \in Entities /\ Live(activePhase)
    <2>1. \A d \in Clients : req[d].pc \notin {"config", "clear"}
      BY <1>r DEF OneClient
    <2> QED BY <2>1 DEF DeletionInv, ActiveFits, TypeOK, Entities
  \* Each way on, given that it fits and leaves the pointer live or about to be looked at.
  <1>1. ASSUME NEW k \in Request, Becomes(c, k), Fits(k)',
               \/ req[c].doc.st = "live"
               \/ req[c].item \notin Phases
               \/ k.pc = "config" /\ k.target = req[c].item
        PROVE  DeletionInv'
    <2>1. req' \in [Clients -> Request] /\ req'[c] = k /\ \A d \in Clients : Fits(req[d])'
      BY <1>1, RequestMoves
    <2>2. TypeOK'
      BY <1>r, <1>w, <2>1 DEF DeletionInv, TypeOK
    <2>3. ActiveFits'
      BY <1>r, <1>w, <1>a, <1>1, <2>1 DEF ActiveFits
    <2> QED BY <1>w, <2>1, <2>2, <2>3 DEF DeletionInv
  <1>2. CASE req[c].tool \in Writes /\ req[c].target = NoPhase
    <2>1. Ends(c) /\ req[c].doc.st = "live"
      BY <1>r, <1>f, <1>2 DEF Upsert, Writes, FitsWrite
    <2> QED BY <1>1, <2>1, IdleTyped, IdleFits DEF Ends
  <1>3. CASE req[c].tool \in Writes /\ req[c].target # NoPhase
    <2>1. Goto(c, "activate") /\ req[c].doc.st = "live" /\ req[c].target = req[c].item /\ req[c].target \in Phases
      BY <1>r, <1>f, <1>3 DEF Upsert, Writes, Fits, FitsWrite
    <2>2. PICK k : k = [req[c] EXCEPT !.pc = "activate"]
      OBVIOUS
    <2>3. k \in Request
      BY <1>r, <2>2 DEF Request, Steps
    <2>4. k.pc = "activate" /\ k.tool \in Writes /\ k.target = req[c].item
      BY <1>r, <1>3, <2>1, <2>2 DEF Request
    <2>5. Live(k.target)'
      BY <1>w, <2>1, <2>4 DEF Live
    <2>6. Fits(k)'
      BY <2>1, <2>4, <2>5 DEF Fits, FitsWrite, FitsCascade, Writes
    <2> QED BY <1>1, <2>1, <2>2, <2>3, <2>6 DEF Goto
  <1>4. CASE req[c].tool \in {"delete_requirement", "delete_document"} /\ req[c].doc.st = "removed"
    <2>1. Ends(c)
      BY <1>r, <1>4 DEF Upsert
    <2>2. req[c].item \notin Phases
      BY <1>r, <1>f, <1>4, TypesAssumption DEF Fits, FitsWrite, Deletes
    <2> QED BY <1>1, <2>1, <2>2, IdleTyped, IdleFits DEF Ends
  <1>5. CASE req[c].tool = "delete_phase" /\ req[c].doc.st = "removed"
    <2>1. Goto(c, "config")
      BY <1>r, <1>5 DEF Upsert
    <2>2. req[c].item = req[c].target /\ req[c].target \in Phases
      BY <1>r, <1>f, <1>5 DEF Fits, FitsWrite, Deletes
    <2>3. PICK k : k = [req[c] EXCEPT !.pc = "config"]
      OBVIOUS
    <2>4. k \in Request
      BY <1>r, <2>3 DEF Request, Steps
    <2>5. k.pc = "config" /\ k.tool = "delete_phase" /\ k.target = req[c].item
      BY <1>r, <1>5, <2>2, <2>3 DEF Request
    <2>6. ~Live(k.target)'
      BY <1>w, <1>5, <2>5 DEF Live
    <2>7. Fits(k)'
      BY <2>2, <2>5, <2>6 DEF Fits, FitsWrite, FitsCascade
    <2> QED BY <1>1, <2>1, <2>3, <2>4, <2>5, <2>7 DEF Goto
  <1>6. CASE req[c].tool \in Deletes \cup Rewrites /\ req[c].doc.st # "removed"
    <2>1. req[c].doc.st = "live"
      BY <1>f, <1>6 DEF SafeWrite, Traced, Docs
    <2>2. Becomes(c, [req[c] EXCEPT !.pc = "cascade", !.item = NoPhase, !.doc = NoRow])
      BY <1>6 DEF Upsert, Deletes, Rewrites
    <2>3. PICK k : k = [req[c] EXCEPT !.pc = "cascade", !.item = NoPhase, !.doc = NoRow]
      OBVIOUS
    <2>4. k \in Request
      <3>1. NoRow \in Row
        BY DEF NoRow, Row
      <3> QED BY <1>r, <2>3, <3>1 DEF Request, Steps
    <2>5. /\ k.pc = "cascade" /\ k.tool = req[c].tool /\ k.target = req[c].target
          /\ k.todo = req[c].todo /\ k.stage = req[c].stage
      BY <1>r, <2>3 DEF Request
    <2>6. Fits(k)'
      BY <1>r, <1>6, <2>1, <2>4, <2>5, CascadeGoesOn DEF DeletionInv
    <2> QED BY <1>1, <2>1, <2>2, <2>3, <2>4, <2>6
  <1>7. /\ req[c].tool \in Writes \cup Deletes \cup Rewrites \cup {"delete_document"}
        /\ req[c].tool \in Rewrites => req[c].doc.st = "live"
        /\ req[c].tool = "delete_document" => req[c].doc.st = "removed"
    BY <1>r, <1>f DEF FitsWrite
  <1> QED BY <1>2, <1>3, <1>4, <1>5, <1>6, <1>7 DEF Deletes

-------------------------------------------------------------------------------
(* The pointer, the lock, and requests cut short.                           *)

LEMMA ActivateKeeps ==
  ASSUME OneClient, DeletionInv, NEW c \in Clients, Activate(c)
  PROVE  DeletionInv'
  <1>1. /\ activePhase' = req[c].target /\ req[c].target \in Phases /\ Live(req[c].target)
        /\ UNCHANGED <<rows, locked, stopped>>
    BY DEF DeletionInv, Fits, Activate, At
  <1>2. Idle \in Request /\ Becomes(c, Idle) /\ Fits(Idle)'
    BY IdleTyped, IdleFits DEF Activate, Ends
  <1>3. req' \in [Clients -> Request] /\ \A d \in Clients : Fits(req[d])'
    BY <1>2, RequestMoves
  <1>4. TypeOK' /\ ActiveFits'
    BY <1>1, <1>3 DEF DeletionInv, TypeOK, ActiveFits, Live
  <1> QED BY <1>1, <1>3, <1>4, SameRowsTraced DEF DeletionInv

LEMMA ClearActivePhaseKeeps ==
  ASSUME OneClient, DeletionInv, NEW c \in Clients, ClearActivePhase(c)
  PROVE  DeletionInv'
  <1>1. activePhase' = NoPhase /\ UNCHANGED <<rows, locked, stopped>>
    BY DEF ClearActivePhase
  <1>2. Idle \in Request /\ Becomes(c, Idle) /\ Fits(Idle)'
    BY IdleTyped, IdleFits DEF ClearActivePhase, Ends
  <1>3. req' \in [Clients -> Request] /\ \A d \in Clients : Fits(req[d])'
    BY <1>2, RequestMoves
  <1>4. TypeOK' /\ ActiveFits'
    BY <1>1, <1>3 DEF DeletionInv, TypeOK, ActiveFits
  <1> QED BY <1>1, <1>3, <1>4, SameRowsTraced DEF DeletionInv

LEMMA StopKeeps ==
  ASSUME OneClient, DeletionInv, NEW c \in Clients, Stop(c)
  PROVE  DeletionInv'
  <1>1. stopped' = TRUE /\ UNCHANGED <<rows, locked, activePhase>>
    BY DEF Stop
  <1>2. Idle \in Request /\ Becomes(c, Idle) /\ Fits(Idle)'
    BY IdleTyped, IdleFits DEF Stop, Ends
  <1>3. req' \in [Clients -> Request] /\ \A d \in Clients : Fits(req[d])'
    BY <1>2, RequestMoves
  <1>4. TypeOK' /\ ActiveFits'
    BY <1>1, <1>3 DEF DeletionInv, TypeOK, ActiveFits
  <1> QED BY <1>1, <1>3, <1>4, SameRowsTraced DEF DeletionInv

\* What the invariant says does not depend on the lock.
LEMMA OtherStepsKeep ==
  ASSUME DeletionInv, LockOrUnlock \/ UNCHANGED vars
  PROVE  DeletionInv'
  <1>1. UNCHANGED <<rows, activePhase, req, stopped>> /\ locked' \in BOOLEAN
    BY DEF DeletionInv, TypeOK, LockOrUnlock, vars
  <1>2. TypeOK' /\ ActiveFits'
    BY <1>1 DEF DeletionInv, TypeOK, ActiveFits, Live
  <1>3. \A c \in Clients : Fits(req[c])'
    <2> SUFFICES ASSUME NEW c \in Clients PROVE Fits(req[c])'
      OBVIOUS
    <2>1. Fits(req[c]) /\ req'[c] = req[c]
      BY <1>1 DEF DeletionInv
    <2>2. PICK k : k = req[c]
      OBVIOUS
    <2>3. Fits(k)'
      BY <1>1, <2>1, <2>2, SameRowsFit
    <2> QED BY <2>1, <2>2, <2>3
  <1> QED BY <1>1, <1>2, <1>3, SameRowsTraced DEF DeletionInv

LEMMA InitDeletionInv == Init => DeletionInv
  <1> SUFFICES ASSUME Init PROVE DeletionInv
    OBVIOUS
  <1>1. TypeOK
    BY IdleTyped DEF Init, TypeOK, Row, NoRow
  <1>2. \A c \in Clients : Fits(req[c])
    BY IdleFits DEF Init
  <1> QED BY <1>1, <1>2 DEF Init, DeletionInv, RowsTraced, Live, NoRow, ActiveFits

LEMMA NextDeletionInv ==
  ASSUME OneClient, DeletionInv, [Next]_vars
  PROVE  DeletionInv'
  <1>1. ASSUME NEW c \in Clients, Serve(c)
        PROVE  DeletionInv'
    BY <1>1, CreateStartKeeps, UpdateReadKeeps, CheckReferenceKeeps, ListExistingKeeps, GuardKeeps,
       UpsertKeeps, SapCheckKeeps, ActivateKeeps, AssignStartKeeps, AssignListKeeps, ImportAdrsKeeps,
       DeleteDocumentKeeps, DeleteStartKeeps, CheckStoriesKeeps, AssertNotLockedKeeps, CascadeListKeeps,
       CascadeGuardKeeps, ReadExistingKeeps, ConfigReadKeeps, ClearActivePhaseKeeps DEF Serve
  <1>2. ASSUME NEW c \in Clients, Stop(c)
        PROVE  DeletionInv'
    BY <1>2, StopKeeps
  <1> QED BY <1>1, <1>2, OtherStepsKeep DEF Next

LEMMA AlwaysDeletionInv == OneClient => (Spec => []DeletionInv)
  <1> SUFFICES ASSUME OneClient PROVE Spec => []DeletionInv
    OBVIOUS
  <1>1. DeletionInv /\ [Next]_vars => DeletionInv'
    BY NextDeletionInv
  <1> QED BY <1>1, InitDeletionInv, PTL DEF Spec

-------------------------------------------------------------------------------
(* What a reader of the version relies on.                                  *)

\* Every variable keeps its type, whatever requests interleave one after the other.
THEOREM Typed == OneClient => (Spec => []TypeOK)
  BY AlwaysDeletionInv, PTL DEF DeletionInv

\* A story never traces to a requirement that is gone: deleteRequirement looks
\* for the stories first, and every write validated what it names.
THEOREM StoriesAlwaysTraced == OneClient => (Spec => []StoriesTraced)
  <1>1. DeletionInv => StoriesTraced
    BY DEF DeletionInv, RowsTraced, Traced, StoriesTraced, Entities, References
  <1> QED BY <1>1, AlwaysDeletionInv, PTL

\* No live row names a phase or a requirement that is gone, at no moment of a
\* cascade and wherever one was cut short or met a lock.
THEOREM NothingEverDangles == OneClient => (Spec => []NothingDangles)
  <1>1. ASSUME DeletionInv
        PROVE  NothingDangles
    <2>1. ASSUME NEW e \in Entities, Live(e)
          PROVE  /\ rows[e].phase # NoPhase => Live(rows[e].phase)
                 /\ \A r \in rows[e].links : r \in Reqs /\ Live(r)
      BY <1>1, <2>1 DEF DeletionInv, TypeOK, Row, RowsTraced, Traced, References
    <2>2. Phased \subseteq Entities /\ Adrs \subseteq Entities
      BY DEF Phased, Entities
    <2>3. ASSUME NEW a \in Adrs, Live(a), NEW r \in rows[a].links
          PROVE  get_adr(a)[r].exists /\ api_adr(a)[r].exists
      BY <2>1, <2>2, <2>3 DEF get_adr, api_adr
    <2>4. \A r \in Reqs : ~Live(r) => list_adrs(r, NoPhase) = {}
      BY <2>1, <2>2, NoPhaseAssumption DEF list_adrs
    <2>5. \A p \in Phases : ~Live(p) => api_adrs(NoPhase, p) = {}
      BY <2>1, <2>2, NoPhaseAssumption DEF api_adrs, list_adrs
    <2> QED BY <2>1, <2>2, <2>3, <2>4, <2>5 DEF NothingDangles
  <1> QED BY <1>1, AlwaysDeletionInv, PTL

\* Between requests, and while none was cut short, new executions go to a phase
\* that is there: deletePhase clears the pointer it takes the phase from.
THEOREM ActivePhaseAlwaysLive == OneClient => (Spec => []ActivePhaseLive)
  <1>1. DeletionInv => ActivePhaseLive
    BY IdleTyped DEF DeletionInv, ActiveFits, ActivePhaseLive, Quiet
  <1> QED BY <1>1, AlwaysDeletionInv, PTL

===============================================================================
