------------------------------ MODULE Deletion ------------------------------
(***************************************************************************)
(* Traceability inside one version: what points at a requirement or a      *)
(* phase, and the two deletions that take such a target away.  Stories     *)
(* trace to requirements and block their deletion; architecture decisions  *)
(* (ADRs) drop the reference; requirements, screens and ADRs assigned to a *)
(* deleted phase become unassigned, one write at a time.  Requirements are *)
(* also moved between phases in bulk, and ADRs taken over from files.      *)
(*                                                                         *)
(* As in SpecStore an action is one query and the code up to the next; the *)
(* lock state and the comparison of a write with the stored row are one    *)
(* step here.  Titles, texts and statuses are left out, so a write that a  *)
(* locked version lets through changes nothing.                            *)
(***************************************************************************)
EXTENDS Integers, Sequences, FiniteSets

CONSTANTS Phases, Reqs, Stories, Screens, Adrs,   \* the entities, by type
          NoPhase,                                \* unassigned
          Clients, Tools,
          Stops      \* whether a request may be cut short

AllTools == {"create", "update", "delete_requirement", "delete_phase", "set_active_phase",
             "assign_requirements_to_phase", "import_adrs_from_files", "delete_document"}

ASSUME ToolsAssumption == Tools \subseteq AllTools /\ Stops \in BOOLEAN
ASSUME NoPhaseAssumption == NoPhase \notin Phases \cup Reqs \cup Stories \cup Screens \cup Adrs
ASSUME TypesAssumption ==
    /\ Phases \cap (Reqs \cup Stories \cup Screens \cup Adrs) = {}
    /\ Reqs \cap (Stories \cup Screens \cup Adrs) = {}
    /\ Stories \cap (Screens \cup Adrs) = {}
    /\ Screens \cap Adrs = {}

VARIABLES rows,         \* the entity tables of the version
          locked,       \* its lock state
          activePhase,  \* the pointer in the config row
          req,          \* the request each client has in flight
          stopped       \* history: some request was cut short

vars == <<rows, locked, activePhase, req, stopped>>

Entities == Phases \cup Reqs \cup Stories \cup Screens \cup Adrs
Phased == Reqs \cup Screens \cup Adrs      \* what may be assigned to a phase
Linked == Stories \cup Adrs                \* what may name requirements

Row == [st : {"absent", "live", "removed"}, phase : Phases \cup {NoPhase}, links : SUBSET Reqs]
NoRow == [st |-> "absent", phase |-> NoPhase, links |-> {}]

\* The live rows an entity can have; a story names at least one requirement.
Docs(e) == {row \in Row : /\ row.st = "live"
                          /\ row.phase # NoPhase => e \in Phased
                          /\ row.links # {} => e \in Linked
                          /\ e \in Stories => row.links # {}}

Steps == {"idle", "refs", "list", "guard", "upsert", "activate",
          "stories", "locked", "cascade", "existing", "config", "clear"}

(***************************************************************************)
(* item and doc are the row about to be written; refs the references still *)
(* to be validated; target what is being deleted or activated; todo the    *)
(* cascade's rows as listed and rewritten, stage the table they came from. *)
(***************************************************************************)
Write == [item : Entities, doc : Row]
Request == [tool : Tools \cup {"none"}, pc : Steps, item : Entities \cup {NoPhase}, doc : Row,
            refs : SUBSET Entities, target : Entities \cup {NoPhase},
            todo : SUBSET Write, stage : 0..3]
Idle == [tool |-> "none", pc |-> "idle", item |-> NoPhase, doc |-> NoRow, refs |-> {},
         target |-> NoPhase, todo |-> {}, stage |-> 0]

TypeOK ==
    /\ rows \in [Entities -> Row]
    /\ locked \in BOOLEAN
    /\ activePhase \in Phases \cup {NoPhase}
    /\ req \in [Clients -> Request]
    /\ stopped \in BOOLEAN

Init ==
    /\ rows = [e \in Entities |-> NoRow]
    /\ locked = FALSE
    /\ activePhase = NoPhase
    /\ req = [c \in Clients |-> Idle]
    /\ stopped = FALSE

Live(e) == rows[e].st = "live"
At(c, step) == req[c].pc = step
Becomes(c, r) == req' = [req EXCEPT ![c] = r]
Goto(c, step) == Becomes(c, [req[c] EXCEPT !.pc = step])
Ends(c) == Becomes(c, Idle)
Starts(c, tool) == req[c] = Idle /\ tool \in Tools
Reads == UNCHANGED <<rows, locked, activePhase, stopped>>

-----------------------------------------------------------------------------
References(row) == row.links \cup (IF row.phase = NoPhase THEN {} ELSE {row.phase})

\* create_*: every reference is validated, then the type's rows are listed.
CreateStart(c) ==
    /\ Starts(c, "create")
    /\ \E e \in Entities : \E doc \in Docs(e) :
          Becomes(c, [Idle EXCEPT !.tool = "create", !.pc = "refs", !.item = e, !.doc = doc,
                                  !.refs = References(doc)])
    /\ Reads

\* update_*: the row is read first, and only the fields supplied are validated.
UpdateRead(c) ==
    /\ Starts(c, "update")
    /\ \E e \in Entities :
          /\ Live(e)
          /\ \E doc \in Docs(e) :
                LET supplied == (IF doc.links = rows[e].links THEN {} ELSE doc.links)
                                \cup (References(doc) \ (References(rows[e]) \cup doc.links))
                IN  Becomes(c, [Idle EXCEPT !.tool = "update", !.pc = "refs", !.item = e,
                                            !.doc = doc, !.refs = supplied])
    /\ Reads

CheckReference(c) ==
    /\ At(c, "refs")
    /\ req[c].refs # {}
    /\ \E ref \in req[c].refs :
          IF Live(ref) THEN Becomes(c, [req[c] EXCEPT !.refs = @ \ {ref}]) ELSE Ends(c)
    /\ Reads

ListExisting(c) ==
    /\ At(c, "refs")
    /\ req[c].refs = {}
    /\ CASE req[c].tool = "update" -> Goto(c, "guard")
         [] req[c].tool = "create" /\ Live(req[c].item) -> Ends(c)
         [] req[c].tool = "create" /\ ~Live(req[c].item) ->
              \* create_phase activates on request, and always the first phase
              \E activate \in BOOLEAN :
                 /\ activate => req[c].item \in Phases
                 /\ req[c].item \in Phases /\ (\A p \in Phases : ~Live(p)) => activate
                 /\ Becomes(c, [req[c] EXCEPT !.pc = "guard",
                                   !.target = IF activate THEN req[c].item ELSE NoPhase])
    /\ Reads

\* writeRow on a locked version: the row must be there and stay as it is.
Refused(item, doc) == locked /\ rows[item] # doc

Guard(c) ==
    /\ At(c, "guard")
    /\ IF Refused(req[c].item, req[c].doc) THEN Ends(c) ELSE Goto(c, "upsert")
    /\ Reads

Upsert(c) ==
    /\ At(c, "upsert")
    /\ rows' = [rows EXCEPT ![req[c].item] = req[c].doc]
    /\ LET r == req[c]
           removes == r.doc.st = "removed"
       IN  CASE r.tool \in {"create", "update"} /\ r.target = NoPhase -> Ends(c)
             [] r.tool \in {"create", "update"} /\ r.target # NoPhase -> Goto(c, "activate")
             [] r.tool \in {"delete_requirement", "delete_document"} /\ removes -> Ends(c)
             [] r.tool = "delete_phase" /\ removes -> Goto(c, "config")
             [] OTHER -> Becomes(c, [r EXCEPT !.pc = "cascade", !.item = NoPhase, !.doc = NoRow])
    /\ UNCHANGED <<locked, activePhase, stopped>>

SapCheck(c) ==
    /\ Starts(c, "set_active_phase")
    /\ \E p \in Phases :
          /\ Live(p)
          /\ Becomes(c, [Idle EXCEPT !.tool = "set_active_phase", !.pc = "activate", !.target = p])
    /\ Reads

Activate(c) ==
    /\ At(c, "activate")
    /\ activePhase' = req[c].target
    /\ Ends(c)
    /\ UNCHANGED <<rows, locked, stopped>>

-----------------------------------------------------------------------------
\* assign_requirements_to_phase: the phase is validated, then the requirements are
\* listed and those selected that are elsewhere are written back one by one.
AssignStart(c) ==
    /\ Starts(c, "assign_requirements_to_phase")
    /\ \E p \in {NoPhase} \cup {q \in Phases : Live(q)} :
          Becomes(c, [Idle EXCEPT !.tool = "assign_requirements_to_phase", !.pc = "list", !.target = p])
    /\ Reads

AssignList(c) ==
    /\ At(c, "list")
    /\ \E selected \in SUBSET {e \in Reqs : Live(e)} :
          LET p == req[c].target
              moved == {e \in selected : rows[e].phase # p}
          IN  Becomes(c, [req[c] EXCEPT !.pc = "cascade",
                             !.todo = {[item |-> e, doc |-> [rows[e] EXCEPT !.phase = p]] : e \in moved}])
    /\ Reads

\* import_adrs_from_files: files of ids that no version ever had become ADRs
\* without links or phase.
ImportAdrs(c) ==
    /\ Starts(c, "import_adrs_from_files")
    /\ \E files \in SUBSET Adrs :
          Becomes(c, [Idle EXCEPT !.tool = "import_adrs_from_files", !.pc = "cascade",
                         !.todo = {[item |-> a, doc |-> [NoRow EXCEPT !.st = "live"]] :
                                   a \in {x \in files : rows[x].st = "absent"}}])
    /\ Reads

\* delete_adr and delete_screen remove a row that nothing modelled points at.
DeleteDocument(c) ==
    /\ Starts(c, "delete_document")
    /\ \E e \in Adrs \cup Screens :
          /\ Live(e)
          /\ Becomes(c, [Idle EXCEPT !.tool = "delete_document", !.pc = "guard", !.item = e,
                                     !.doc = [rows[e] EXCEPT !.st = "removed"]])
    /\ Reads

-----------------------------------------------------------------------------
\* The deletions begin by looking the target up; an unknown one ends them.
DeleteStart(c) ==
    /\ \E e \in Phases \cup Reqs :
          LET tool == IF e \in Phases THEN "delete_phase" ELSE "delete_requirement"
          IN  /\ Starts(c, tool)
              /\ Live(e)
              /\ Becomes(c, [Idle EXCEPT !.tool = tool, !.target = e,
                                         !.pc = IF e \in Phases THEN "locked" ELSE "stories"])
    /\ Reads

\* Mutant: only what traces to this requirement and no other counts.
LinkedStoriesOnly(target) == {s \in Stories : Live(s) /\ rows[s].links = {target}}

LinkedStories(target) == {s \in Stories : Live(s) /\ target \in rows[s].links}

CheckStories(c) ==
    /\ At(c, "stories")
    /\ IF LinkedStories(req[c].target) # {} THEN Ends(c) ELSE Goto(c, "locked")
    /\ Reads

AssertNotLocked(c) ==
    /\ At(c, "locked")
    /\ IF locked THEN Ends(c) ELSE Goto(c, "cascade")
    /\ Reads

\* Mutant: the table of decisions is forgotten.
StagesWithoutAdrs(tool) ==
    CASE tool = "delete_phase" -> <<Reqs, Screens>>
      [] tool = "delete_requirement" -> <<Adrs>>
      [] OTHER -> <<>>

\* The tables a deletion goes through, in this order.
Stages(tool) ==
    CASE tool = "delete_phase" -> <<Reqs, Screens, Adrs>>
      [] tool = "delete_requirement" -> <<Adrs>>
      [] OTHER -> <<>>

Detached(row, target) ==
    [row EXCEPT !.links = @ \ {target}, !.phase = IF @ = target THEN NoPhase ELSE @]

CascadeList(c) ==
    /\ At(c, "cascade")
    /\ req[c].todo = {}
    /\ req[c].stage < Len(Stages(req[c].tool))
    /\ LET target == req[c].target
           next == req[c].stage + 1
           pointing == {e \in Stages(req[c].tool)[next] : Live(e) /\ target \in References(rows[e])}
       IN  Becomes(c, [req[c] EXCEPT !.stage = next,
                          !.todo = {[item |-> e, doc |-> Detached(rows[e], target)] : e \in pointing}])
    /\ Reads

\* The write of one listed row; a lock that landed meanwhile stops the rest.
CascadeGuard(c) ==
    /\ At(c, "cascade")
    /\ \E w \in req[c].todo :
          IF Refused(w.item, w.doc) THEN Ends(c)
          ELSE Becomes(c, [req[c] EXCEPT !.pc = "upsert", !.item = w.item, !.doc = w.doc,
                                         !.todo = @ \ {w}])
    /\ Reads

\* removeRow, once every table is done; a target already gone is not written.
\* A bulk move and an import of files have nothing to remove.
ReadExisting(c) ==
    /\ At(c, "cascade")
    /\ req[c].todo = {}
    /\ req[c].stage = Len(Stages(req[c].tool))
    /\ LET target == req[c].target
           deletes == Stages(req[c].tool) # <<>>
       IN  CASE ~deletes -> Ends(c)
             [] deletes /\ Live(target) -> Becomes(c, [req[c] EXCEPT !.pc = "guard", !.item = target,
                                                          !.doc = [rows[target] EXCEPT !.st = "removed"]])
             [] deletes /\ ~Live(target) /\ target \in Phases -> Goto(c, "config")
             [] deletes /\ ~Live(target) /\ target \in Reqs -> Ends(c)
    /\ Reads

\* Mutant: the pointer is left where it is.
ReadConfigKeeps(c) ==
    /\ At(c, "config")
    /\ Ends(c)
    /\ Reads

ReadConfig(c) ==
    /\ At(c, "config")
    /\ IF activePhase = req[c].target THEN Goto(c, "clear") ELSE Ends(c)
    /\ Reads

ClearActivePhase(c) ==
    /\ At(c, "clear")
    /\ activePhase' = NoPhase
    /\ Ends(c)
    /\ UNCHANGED <<rows, locked, stopped>>

-----------------------------------------------------------------------------
Serve(c) ==
    \/ CreateStart(c) \/ UpdateRead(c) \/ CheckReference(c) \/ ListExisting(c)
    \/ Guard(c) \/ Upsert(c) \/ SapCheck(c) \/ Activate(c)
    \/ AssignStart(c) \/ AssignList(c) \/ ImportAdrs(c) \/ DeleteDocument(c)
    \/ DeleteStart(c) \/ CheckStories(c) \/ AssertNotLocked(c)
    \/ CascadeList(c) \/ CascadeGuard(c) \/ ReadExisting(c)
    \/ ReadConfig(c) \/ ClearActivePhase(c)

\* The process stops, or a query throws: what was written stays.
Stop(c) ==
    /\ Stops
    /\ req[c] # Idle
    /\ Ends(c)
    /\ stopped' = TRUE
    /\ UNCHANGED <<rows, locked, activePhase>>

\* lock_version and unlock_version, from anywhere, are one status write here.
LockOrUnlock ==
    /\ locked' = ~locked
    /\ UNCHANGED <<rows, activePhase, req, stopped>>

Next ==
    \/ \E c \in Clients : Serve(c) \/ Stop(c)
    \/ LockOrUnlock

Spec == Init /\ [][Next]_vars

-----------------------------------------------------------------------------
\* What is shown of ADRs; the body, the status and the text search are left out.
list_adrs(requirement, phase) ==
    {a \in Adrs : /\ Live(a)
                  /\ requirement # NoPhase => requirement \in rows[a].links
                  /\ phase # NoPhase => rows[a].phase = phase}
api_adrs(requirement, phase) == list_adrs(requirement, phase)
get_adr(a) == [r \in rows[a].links |-> [exists |-> Live(r)]]
api_adr(a) ==
    LET listed == {r \in Reqs : Live(r)}
    IN  [r \in rows[a].links |-> [exists |-> r \in listed]]

Quiet == \A c \in Clients : req[c] = Idle

(***************************************************************************)
(* "A story must trace to at least one requirement" (deletion.ts): the     *)
(* requirements a live story names are live.                               *)
(***************************************************************************)
StoriesTraced == \A s \in Stories : Live(s) => \A r \in rows[s].links : Live(r)

(***************************************************************************)
(* Nothing live points at a deleted phase and no ADR at a deleted          *)
(* requirement, at no moment of a cascade and wherever one was stopped or  *)
(* met a lock: each detaches everything before it removes its target.  So  *)
(* no page of an ADR says that a requirement does not exist, and nothing   *)
(* is listed under something deleted.                                      *)
(***************************************************************************)
NothingDangles ==
    /\ \A e \in Phased : Live(e) /\ rows[e].phase # NoPhase => Live(rows[e].phase)
    /\ \A a \in Adrs : Live(a) => \A r \in rows[a].links : get_adr(a)[r].exists /\ api_adr(a)[r].exists
    /\ \A r \in Reqs : ~Live(r) => list_adrs(r, NoPhase) = {}
    /\ \A p \in Phases : ~Live(p) => api_adrs(NoPhase, p) = {}

(***************************************************************************)
(* New executions go to the active phase by default: between requests, and *)
(* while none was cut short, it names a phase that is there.               *)
(***************************************************************************)
ActivePhaseLive == Quiet /\ ~stopped /\ activePhase # NoPhase => Live(activePhase)

=============================================================================
