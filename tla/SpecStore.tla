------------------------------ MODULE SpecStore ------------------------------
(***************************************************************************)
(* The versioned specification store of one project and the requests that  *)
(* work on it, over the Postgres back end: every `await` of a handler is a *)
(* query, and the queries of requests running at the same time interleave. *)
(* One action is one query together with the code that runs up to the next *)
(* one; what the request has read so far is kept in req[c].                *)
(*                                                                         *)
(* With a single client requests never overlap.  That is also what the     *)
(* SQLite back end does inside one process: its queries are synchronous,   *)
(* so a handler runs to its end before the next request is taken.          *)
(*                                                                         *)
(* A handler's arguments are chosen at the step that first uses them, and  *)
(* a request ends (returns to Idle) where the code returns or throws; a    *)
(* value its handler does not use again is forgotten.                      *)
(***************************************************************************)
EXTENDS SpecTables

CONSTANTS Clients,    \* the connections that may have one request in flight each
          Tools,      \* the tools and routes they call
          Faults      \* subset of FaultKinds

FaultKinds == {"crash", "error", "boot"}
RowTools == {"edit", "create", "create_with_id", "delete"}
AllTools == RowTools \cup {"create_version", "lock_version", "unlock_version",
                           "set_active_version", "init_project", "web_init"}

ASSUME ToolsAssumption == Tools \subseteq AllTools /\ Faults \subseteq FaultKinds

VARIABLES registry,   \* the versions table: status of each version, "absent" when unregistered
          parent,     \* the version each registered version was branched from
          config,     \* the version pointers of the config row
          rows,       \* the entity tables, by version and id
          req         \* the request each client has in flight

vars == <<registry, parent, config, rows, req>>

Steps == {"idle", "known", "read", "list", "ids", "existing", "guard", "raw", "upsert",
          "cvList", "cvCopy", "cvRegister", "cvDrop", "cvPoint",
          "lkWrite", "lkConfig", "lkPoint",
          "ulList", "ulWrite", "ulConfig", "ulPoint",
          "saConfig", "saPoint", "inWrite", "inRow", "inRegister"}

(***************************************************************************)
(* ver is the version the request is bound to, or its lock/unlock target;  *)
(* from and to are create_version's parent and target, and the current and *)
(* draft arguments of set_active_version; cfg the config row as read; par  *)
(* the parent field of the version row as read; implicit that bindVersion  *)
(* picked the version for a specification edit; live the ids the create's  *)
(* listing saw; doc the row about to be written; compared that writeRow    *)
(* found the version locked and compared doc with the stored row.          *)
(***************************************************************************)
Request == [tool : Tools \cup {"none"}, pc : Steps, ver : Pointer, from : Pointer,
            to : Pointer, cfg : ConfigRow, par : Pointer, implicit : BOOLEAN,
            progress : BOOLEAN, live : SUBSET Ids, id : Ids \cup {None}, doc : Row,
            compared : BOOLEAN]

Idle == [tool |-> "none", pc |-> "idle", ver |-> None, from |-> None, to |-> None,
         cfg |-> NoConfig, par |-> None, implicit |-> FALSE, progress |-> FALSE,
         live |-> {}, id |-> None, doc |-> NoRow, compared |-> FALSE]

TypeOK ==
    /\ registry \in [Versions -> Status]
    /\ parent \in [Versions -> Pointer]
    /\ config \in ConfigRow
    /\ rows \in [Versions -> Table]
    /\ req \in [Clients -> Request]

Init ==
    /\ registry = [v \in Versions |-> "absent"]
    /\ parent = [v \in Versions |-> None]
    /\ config = NoConfig
    /\ rows = [v \in Versions |-> EmptyTable]
    /\ req = [c \in Clients |-> Idle]

Registered == {v \in Versions : registry[v] # "absent"}
Drafts == {v \in Versions : registry[v] = "draft"}
At(c, step) == req[c].pc = step

\* Shorthands for what a step does to its request.
Becomes(c, r) == req' = [req EXCEPT ![c] = r]
Goto(c, step) == Becomes(c, [req[c] EXCEPT !.pc = step])
Ends(c) == Becomes(c, Idle)
TablesSame == UNCHANGED <<registry, parent, config, rows>>
Starts(c, tool) == req[c] = Idle /\ tool \in Tools

-----------------------------------------------------------------------------
(***************************************************************************)
(* Tool calls on entities: bindVersion, then the handler on the bound      *)
(* store.  A call before the project is initialised is refused by          *)
(* ensureInit and changes nothing.                                         *)
(***************************************************************************)
BindConfig(c) ==
    \E tool \in RowTools, explicit \in Pointer, progress \in BOOLEAN, id \in Ids \cup {None} :
        /\ Starts(c, tool)
        /\ config.init
        /\ (tool = "create") <=> (id = None)
        /\ progress => tool = "edit" /\ id \notin PureSpec
        /\ Becomes(c, [Idle EXCEPT !.tool = tool, !.pc = "known", !.id = id,
                           !.ver = BindTarget(explicit, ~progress, config),
                           !.implicit = (explicit = None /\ ~progress),
                           !.progress = progress])
        /\ TablesSame

FirstStep(tool) ==
    CASE tool = "edit" -> "read"
      [] tool \in {"create", "create_with_id"} -> "list"
      [] tool = "delete" -> "existing"

\* An unknown version is refused once any is registered; so is a specification
\* edit that named no version and landed on a locked one.
BindKnown(c) ==
    /\ At(c, "known")
    /\ LET v == req[c].ver
           refused == \/ Registered # {} /\ v \notin Registered
                      \/ req[c].implicit /\ registry[v] = "locked"
       IN  IF refused THEN Ends(c)
           ELSE Becomes(c, [req[c] EXCEPT !.pc = FirstStep(req[c].tool), !.implicit = FALSE])
    /\ TablesSame

\* update_*: the live row with the supplied fields replaced.
ReadRow(c) ==
    /\ At(c, "read")
    /\ LET row == rows[req[c].ver][req[c].id]
       IN  \/ /\ row.st # "live"
              /\ Ends(c)
           \/ /\ row.st = "live"
              /\ \E doc \in Row :
                    /\ doc.st = "live"
                    /\ req[c].progress => doc.spec = row.spec
                    /\ req[c].id \in PureSpec => doc.prog = row.prog
                    /\ Becomes(c, [req[c] EXCEPT !.pc = "guard", !.doc = doc, !.progress = FALSE])
    /\ TablesSame

\* create_*: the live rows of the bound version, then an id no version uses.
ListRows(c) ==
    /\ At(c, "list")
    /\ LET live == {id \in Ids : rows[req[c].ver][id].st = "live"}
       IN  IF req[c].tool = "create"
           THEN Becomes(c, [req[c] EXCEPT !.pc = "ids", !.live = live])
           ELSE IF req[c].id \in live THEN Ends(c)
           ELSE Becomes(c, [req[c] EXCEPT !.pc = "guard", !.doc = NewRow])
    /\ TablesSame

\* Mutant: tombstones are not counted.
IdsOfLiveRows == {id \in Ids : \E v \in Versions : rows[v][id].st = "live"}

IdsAcrossVersions == {id \in Ids : \E v \in Versions : rows[v][id].st # "absent"}

\* Bound: a create that would need a number outside Ids ends here.
AllocateId(c) ==
    /\ At(c, "ids")
    /\ LET id == NextId(IdsAcrossVersions)
       IN  IF id \notin Ids \/ id \in req[c].live THEN Ends(c)
           ELSE Becomes(c, [req[c] EXCEPT !.pc = "guard", !.id = id, !.doc = NewRow,
                                          !.live = {}])
    /\ TablesSame

\* removeRow: the row as stored, rewritten as a tombstone.
ReadExisting(c) ==
    /\ At(c, "existing")
    /\ LET row == rows[req[c].ver][req[c].id]
       IN  IF row.st # "live" THEN Ends(c)
           ELSE Becomes(c, [req[c] EXCEPT !.pc = "guard", !.doc = [row EXCEPT !.st = "removed"]])
    /\ TablesSame

\* Mutant: a cached lock state that a later lock does not reach.
IsLockedCached(c) ==
    /\ At(c, "guard")
    /\ Goto(c, "upsert")
    /\ TablesSame

\* writeRow: isLocked(); only a locked version has its stored row compared.
IsLocked(c) ==
    /\ At(c, "guard")
    /\ Goto(c, IF registry[req[c].ver] = "locked" THEN "raw" ELSE "upsert")
    /\ TablesSame

AssertWritable(c) ==
    /\ At(c, "raw")
    /\ IF CheckWritable(rows[req[c].ver][req[c].id], req[c].doc)
       THEN Becomes(c, [req[c] EXCEPT !.pc = "upsert", !.compared = TRUE])
       ELSE Ends(c)
    /\ TablesSame

Upsert(c) ==
    /\ At(c, "upsert")
    /\ rows' = [rows EXCEPT ![req[c].ver][req[c].id] = req[c].doc]
    /\ Ends(c)
    /\ UNCHANGED <<registry, parent, config>>

WriteSteps(c) ==
    \/ BindConfig(c)
    \/ BindKnown(c)
    \/ ReadRow(c)
    \/ ListRows(c)
    \/ AllocateId(c)
    \/ ReadExisting(c)
    \/ IsLocked(c)
    \/ AssertWritable(c)
    \/ Upsert(c)

-----------------------------------------------------------------------------
(***************************************************************************)
(* The lifecycle operations, shared by the tools and by REST.  Over REST   *)
(* they name their version themselves; bindVersion, in front of the tools, *)
(* only reads and refuses some of the same targets.                        *)
(***************************************************************************)
CvConfig(c) ==
    /\ Starts(c, "create_version")
    /\ config.init
    /\ Becomes(c, [Idle EXCEPT !.tool = "create_version", !.pc = "cvList", !.cfg = config])
    /\ TablesSame

\* Mutants: the open draft, or the order of parent and target, is not checked.
MayBranchBesideDraft(from, to) ==
    /\ Registered = {} \/ from \in Registered
    /\ to \notin Registered
    /\ to > from
MayBranchBackwards(from, to) ==
    /\ Drafts = {}
    /\ Registered = {} \/ from \in Registered
    /\ to \notin Registered

\* The checks on the listing of the registry that createVersion took.
MayBranch(from, to) ==
    /\ Drafts = {}
    /\ Registered = {} \/ from \in Registered
    /\ to \notin Registered
    /\ to > from

CvList(c) ==
    /\ At(c, "cvList")
    /\ \E arg \in Pointer, to \in Versions :
          LET cfg == req[c].cfg
              from == FirstOf(arg, FirstOf(FirstOf(cfg.current, cfg.draft), INITIAL_VERSION))
          IN  IF MayBranch(from, to)
              THEN Becomes(c, [req[c] EXCEPT !.pc = "cvCopy", !.from = from, !.to = to])
              ELSE Ends(c)
    /\ TablesSame

\* One transaction; a duplicate key rolls it back and the handler drops `to`.
CvCopy(c) ==
    /\ At(c, "cvCopy")
    /\ LET source == rows[req[c].from]
           target == rows[req[c].to]
       IN  \/ /\ CopyConflict(source, target)
              /\ Goto(c, "cvDrop")
              /\ rows' = rows
           \/ /\ ~CopyConflict(source, target)
              /\ rows' = [rows EXCEPT ![req[c].to] = CopyInto(source, target)]
              /\ Goto(c, "cvRegister")
    /\ UNCHANGED <<registry, parent, config>>

CvRegister(c) ==
    /\ At(c, "cvRegister")
    /\ registry' = [registry EXCEPT ![req[c].to] = "draft"]
    /\ parent' = [parent EXCEPT ![req[c].to] = req[c].from]
    /\ \E setDraft \in BOOLEAN : IF setDraft THEN Goto(c, "cvPoint") ELSE Ends(c)
    /\ UNCHANGED <<config, rows>>

\* The pointer is written over the config row as createVersion first read it.
CvPoint(c) ==
    /\ At(c, "cvPoint")
    /\ config' = [req[c].cfg EXCEPT !.draft = req[c].to]
    /\ Ends(c)
    /\ UNCHANGED <<registry, parent, rows>>

\* dropVersion: every row of the version and its registry row.
CvDrop(c) ==
    /\ At(c, "cvDrop")
    /\ registry' = [registry EXCEPT ![req[c].to] = "absent"]
    /\ parent' = [parent EXCEPT ![req[c].to] = None]
    /\ rows' = [rows EXCEPT ![req[c].to] = EmptyTable]
    /\ Ends(c)
    /\ UNCHANGED config

\* lockVersion; an absent or locked target is reported and nothing changes.
LkRow(c) ==
    /\ Starts(c, "lock_version")
    /\ \E v \in Drafts :
          Becomes(c, [Idle EXCEPT !.tool = "lock_version", !.pc = "lkWrite",
                                  !.ver = v, !.par = parent[v]])
    /\ TablesSame

\* writeVersion({...row, status}): an upsert of the row as it was read.
WriteStatus(c, status) ==
    /\ registry' = [registry EXCEPT ![req[c].ver] = status]
    /\ parent' = [parent EXCEPT ![req[c].ver] = req[c].par]

LkWrite(c) ==
    /\ At(c, "lkWrite")
    /\ WriteStatus(c, "locked")
    /\ Goto(c, "lkConfig")
    /\ UNCHANGED <<config, rows>>

LkConfig(c) ==
    /\ At(c, "lkConfig")
    /\ IF config.init THEN Becomes(c, [req[c] EXCEPT !.pc = "lkPoint", !.cfg = config])
       ELSE Ends(c)
    /\ TablesSame

\* Mutant: points the baseline past the version it locked.
LkPointPast(c) ==
    /\ At(c, "lkPoint")
    /\ config' = [req[c].cfg EXCEPT !.current = req[c].ver + 1]
    /\ Ends(c)
    /\ UNCHANGED <<registry, parent, rows>>

LkPoint(c) ==
    /\ At(c, "lkPoint")
    /\ \E setCurrent \in BOOLEAN :
          LET cfg == req[c].cfg
              v == req[c].ver
          IN  config' = [cfg EXCEPT !.current = IF setCurrent THEN v ELSE cfg.current,
                                    !.draft = IF cfg.draft = v THEN None ELSE cfg.draft]
    /\ Ends(c)
    /\ UNCHANGED <<registry, parent, rows>>

\* unlockVersion with force; without it a locked target is refused.
UlRow(c) ==
    /\ Starts(c, "unlock_version")
    /\ \E v \in Versions :
          /\ registry[v] = "locked"
          /\ Becomes(c, [Idle EXCEPT !.tool = "unlock_version", !.pc = "ulList",
                                     !.ver = v, !.par = parent[v]])
    /\ TablesSame

UlList(c) ==
    /\ At(c, "ulList")
    /\ IF Drafts # {} THEN Ends(c) ELSE Goto(c, "ulWrite")
    /\ TablesSame

UlWrite(c) ==
    /\ At(c, "ulWrite")
    /\ WriteStatus(c, "draft")
    /\ Goto(c, "ulConfig")
    /\ UNCHANGED <<config, rows>>

UlConfig(c) ==
    /\ At(c, "ulConfig")
    /\ IF config.init THEN Becomes(c, [req[c] EXCEPT !.pc = "ulPoint", !.cfg = config])
       ELSE Ends(c)
    /\ TablesSame

UlPoint(c) ==
    /\ At(c, "ulPoint")
    /\ config' = [req[c].cfg EXCEPT !.draft = req[c].ver]
    /\ Ends(c)
    /\ UNCHANGED <<registry, parent, rows>>

\* Mutant: the pointers are not looked up in the registry.
SaListUnchecked(c) ==
    /\ Starts(c, "set_active_version")
    /\ \E current, draft \in Pointer :
          Becomes(c, [Idle EXCEPT !.tool = "set_active_version", !.pc = "saConfig",
                                  !.from = current, !.to = draft])
    /\ TablesSame

\* setActiveVersion: from is the `current` argument, to the `draft` one.
SaList(c) ==
    /\ Starts(c, "set_active_version")
    /\ \E current, draft \in Registered \cup {None} :
          /\ current # None \/ draft # None
          /\ draft # None => registry[draft] # "locked"
          /\ Becomes(c, [Idle EXCEPT !.tool = "set_active_version", !.pc = "saConfig",
                                     !.from = current, !.to = draft])
    /\ TablesSame

SaConfig(c) ==
    /\ At(c, "saConfig")
    /\ IF config.init THEN Becomes(c, [req[c] EXCEPT !.pc = "saPoint", !.cfg = config])
       ELSE Ends(c)
    /\ TablesSame

SaPoint(c) ==
    /\ At(c, "saPoint")
    /\ LET cfg == req[c].cfg
       IN  config' = [cfg EXCEPT !.current = FirstOf(req[c].from, cfg.current),
                                 !.draft = FirstOf(req[c].to, cfg.draft)]
    /\ Ends(c)
    /\ UNCHANGED <<registry, parent, rows>>

LifecycleSteps(c) ==
    \/ CvConfig(c) \/ CvList(c) \/ CvCopy(c) \/ CvRegister(c) \/ CvPoint(c) \/ CvDrop(c)
    \/ LkRow(c) \/ LkWrite(c) \/ LkConfig(c) \/ LkPoint(c)
    \/ UlRow(c) \/ UlList(c) \/ UlWrite(c) \/ UlConfig(c) \/ UlPoint(c)
    \/ SaList(c) \/ SaConfig(c) \/ SaPoint(c)

-----------------------------------------------------------------------------
(***************************************************************************)
(* The two ways to initialise a project.  init_project keeps the pointers  *)
(* it finds, falls back to 1.0.0 for each, and registers the draft it      *)
(* points at when that is missing (its optional first phase is left out);  *)
(* POST /api/init writes a config row with no version pointers.            *)
(***************************************************************************)
InRead(c) ==
    /\ Starts(c, "init_project")
    /\ Becomes(c, [Idle EXCEPT !.tool = "init_project", !.pc = "inWrite",
                      !.cfg = [init |-> TRUE,
                               current |-> FirstOf(config.current, INITIAL_VERSION),
                               draft |-> FirstOf(config.draft, INITIAL_VERSION)]])
    /\ TablesSame

InWrite(c) ==
    /\ At(c, "inWrite")
    /\ config' = req[c].cfg
    /\ Goto(c, "inRow")
    /\ UNCHANGED <<registry, parent, rows>>

InRow(c) ==
    /\ At(c, "inRow")
    /\ IF registry[req[c].cfg.draft] # "absent" THEN Ends(c) ELSE Goto(c, "inRegister")
    /\ TablesSame

InRegister(c) ==
    /\ At(c, "inRegister")
    /\ registry' = [registry EXCEPT ![req[c].cfg.draft] = "draft"]
    /\ parent' = [parent EXCEPT ![req[c].cfg.draft] = None]
    /\ Ends(c)
    /\ UNCHANGED <<config, rows>>

WebInit(c) ==
    /\ Starts(c, "web_init")
    /\ config' = [NoConfig EXCEPT !.init = TRUE]
    /\ UNCHANGED <<registry, parent, rows, req>>

InitSteps(c) == InRead(c) \/ InWrite(c) \/ InRow(c) \/ InRegister(c) \/ WebInit(c)

-----------------------------------------------------------------------------
(***************************************************************************)
(* What the environment does.  Crash: the process serving c stops; its     *)
(* request is gone, its queries stay.  QueryError: a query throws, which   *)
(* create_version alone catches, to drop the version it was making.  Boot: *)
(* a process starts and runs the forward migration, in one transaction.    *)
(***************************************************************************)
Crash(c) ==
    /\ "crash" \in Faults
    /\ req[c] # Idle
    /\ Ends(c)
    /\ TablesSame

QueryError(c) ==
    /\ "error" \in Faults
    /\ req[c] # Idle
    /\ IF req[c].pc \in {"cvCopy", "cvRegister"} THEN Goto(c, "cvDrop") ELSE Ends(c)
    /\ TablesSame

Boot ==
    /\ "boot" \in Faults
    /\ config.init
    /\ Registered = {} \/ config.current = None
    /\ registry' = IF Registered = {}
                   THEN [registry EXCEPT ![INITIAL_VERSION] = "draft"] ELSE registry
    /\ config' = IF config.current = None
                 THEN [config EXCEPT !.current = INITIAL_VERSION, !.draft = INITIAL_VERSION]
                 ELSE config
    /\ UNCHANGED <<parent, rows, req>>

Serve(c) == WriteSteps(c) \/ LifecycleSteps(c) \/ InitSteps(c)

Next ==
    \/ \E c \in Clients : Serve(c) \/ Crash(c) \/ QueryError(c)
    \/ Boot

Spec == Init /\ [][Next]_vars

\* A request once started runs to its end: its queries are answered.
Progress(c) == req[c] # Idle /\ Serve(c)
FairSpec == Spec /\ \A c \in Clients : WF_vars(Progress(c))

=============================================================================
