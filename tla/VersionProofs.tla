---------------------------- MODULE VersionProofs ----------------------------
(***************************************************************************)
(* Theorems about versions.  The specification store: first for every      *)
(* value of its constants, then for requests that do not overlap, which is *)
(* what one process promises over SQLite, for every number of versions and *)
(* entities.  Then the carry-over of results over the versions that the    *)
(* serial store's promise allows, for any number of versions, stories,     *)
(* scenarios and results.                                                  *)
(***************************************************************************)
EXTENDS SpecStoreProperties, CarryOver, FiniteSetTheorems, SequenceTheorems,
        WellFoundedInduction, TLAPS

USE DEF None, INITIAL_VERSION

(***************************************************************************)
(* TypeOK is not inductive alone: a step reads the tables at the version   *)
(* and entity its request names, so it matters that a request past the     *)
(* step that chose them names one.  Likewise ParentOlder needs that the    *)
(* parent a request carries to the registry is older than its version.     *)
(***************************************************************************)
Addressed(r) ==
    /\ r.pc \in {"known", "read", "list", "ids", "existing", "guard", "raw", "upsert",
                 "lkWrite", "lkConfig", "lkPoint", "ulList", "ulWrite", "ulConfig", "ulPoint"}
          => r.ver \in Versions
    /\ r.pc = "known" => r.tool \in RowTools
    /\ r.pc \in {"known", "list"} /\ r.tool # "create" => r.id \in Ids
    /\ r.pc \in {"read", "existing", "guard", "raw", "upsert"} => r.id \in Ids
    /\ r.pc \in {"cvCopy", "cvRegister", "cvDrop", "cvPoint"}
          => r.from \in Versions /\ r.to \in Versions /\ r.from < r.to
    /\ r.pc \in {"lkWrite", "ulList", "ulWrite"} => r.par < r.ver
    /\ r.pc \in {"inWrite", "inRow", "inRegister"} => r.cfg.draft \in Versions

SoundRequest == {r \in Request : Addressed(r)}

TypeInv ==
    /\ registry \in [Versions -> Status]
    /\ parent \in [Versions -> Pointer]
    /\ config \in ConfigRow
    /\ rows \in [Versions -> Table]
    /\ req \in [Clients -> SoundRequest]
    /\ \A v \in Versions : parent[v] < v

LEMMA TypeInvImpliesTypeOK == TypeInv => TypeOK
  BY DEF TypeInv, TypeOK, SoundRequest

LEMMA TypeInvImpliesParentOlder == TypeInv => ParentOlder
  BY DEF TypeInv, ParentOlder, Registered

(***************************************************************************)
(* Facts about the data.                                                   *)
(***************************************************************************)
LEMMA RowTypes == /\ NoRow \in Row
                  /\ NewRow \in Row
                  /\ EmptyTable \in Table
                  /\ NoConfig \in ConfigRow
  BY FieldsAssumption DEF NoRow, NewRow, Row, EmptyTable, Table, NoConfig, ConfigRow, Pointer

LEMMA IdleSound == Idle \in SoundRequest
  BY RowTypes DEF Idle, Request, SoundRequest, Addressed, Steps, Pointer

LEMMA BoundRequestType ==
  ASSUME NEW tool \in Tools, NEW id \in Ids \cup {None}, NEW v \in Versions,
         NEW implicit \in BOOLEAN, NEW progress \in BOOLEAN
  PROVE  [Idle EXCEPT !.tool = tool, !.pc = "known", !.id = id, !.ver = v,
                      !.implicit = implicit, !.progress = progress] \in Request
  BY IdleSound DEF SoundRequest, Request, Steps, Pointer

LEMMA TargetRequestSound ==
  ASSUME NEW tool \in Tools, NEW step \in {"lkWrite", "ulList"},
         NEW v \in Versions, NEW p \in Pointer, p < v
  PROVE  [Idle EXCEPT !.tool = tool, !.pc = step, !.ver = v, !.par = p] \in SoundRequest
  <1> DEFINE r == [Idle EXCEPT !.tool = tool, !.pc = step, !.ver = v, !.par = p]
  <1>1. Idle \in Request
    BY IdleSound DEF SoundRequest
  <1>2. r \in Request
    BY <1>1 DEF Request, Steps, Pointer
  <1>3. Addressed(r)
    BY <1>1 DEF Request, Addressed
  <1> QED BY <1>2, <1>3 DEF SoundRequest

LEMMA ActiveRequestSound ==
  ASSUME NEW tool \in Tools, NEW current \in Pointer, NEW draft \in Pointer
  PROVE  [Idle EXCEPT !.tool = tool, !.pc = "saConfig", !.from = current, !.to = draft]
            \in SoundRequest
  <1> DEFINE r == [Idle EXCEPT !.tool = tool, !.pc = "saConfig", !.from = current,
                               !.to = draft]
  <1>1. Idle \in Request
    BY IdleSound DEF SoundRequest
  <1>2. r \in Request
    BY <1>1 DEF Request, Steps
  <1>3. Addressed(r)
    BY <1>1 DEF Request, Addressed
  <1> QED BY <1>2, <1>3 DEF SoundRequest

\* The requests that start with a config row: create_version and init_project.
LEMMA ConfigRequestSound ==
  ASSUME NEW tool \in Tools, NEW step \in {"cvList", "inWrite"}, NEW cfg \in ConfigRow,
         step = "inWrite" => cfg.draft \in Versions
  PROVE  [Idle EXCEPT !.tool = tool, !.pc = step, !.cfg = cfg] \in SoundRequest
  <1> DEFINE r == [Idle EXCEPT !.tool = tool, !.pc = step, !.cfg = cfg]
  <1>1. Idle \in Request
    BY IdleSound DEF SoundRequest
  <1>2. r \in Request
    BY <1>1 DEF Request, Steps
  <1>3. Addressed(r)
    BY <1>1 DEF Request, Addressed
  <1> QED BY <1>2, <1>3 DEF SoundRequest

LEMMA CopyRequestSound ==
  ASSUME NEW q \in Request, NEW from \in Versions, NEW to \in Versions, from < to
  PROVE  [q EXCEPT !.pc = "cvCopy", !.from = from, !.to = to] \in SoundRequest
  <1> DEFINE r == [q EXCEPT !.pc = "cvCopy", !.from = from, !.to = to]
  <1>1. r \in Request
    BY DEF Request, Steps, Pointer
  <1>2. Addressed(r)
    BY DEF Request, Addressed
  <1> QED BY <1>1, <1>2 DEF SoundRequest

LEMMA FirstOfType ==
  ASSUME NEW a \in Pointer, NEW b \in Pointer
  PROVE  /\ FirstOf(a, b) \in Pointer
         /\ b \in Versions => FirstOf(a, b) \in Versions
  BY DEF FirstOf, Pointer

\* A call always addresses some version: the fallback is INITIAL_VERSION.
LEMMA BindTargetType ==
  ASSUME NEW explicit \in Pointer, NEW isSpec \in BOOLEAN, NEW cfg \in ConfigRow
  PROVE  BindTarget(explicit, isSpec, cfg) \in Versions
  BY VersionsAssumption DEF BindTarget, FirstOf, ConfigRow, Pointer

LEMMA CopyType ==
  ASSUME NEW from \in Table, NEW to \in Table
  PROVE  CopyInto(from, to) \in Table
  BY DEF CopyInto, Table

\* A step that gives its client a sound request keeps all of them sound.
LEMMA BecomesSound ==
  ASSUME req \in [Clients -> SoundRequest], NEW c \in Clients,
         NEW r \in SoundRequest, Becomes(c, r)
  PROVE  req' \in [Clients -> SoundRequest]
  BY DEF Becomes

LEMMA EndsSound ==
  ASSUME req \in [Clients -> SoundRequest], NEW c \in Clients, Ends(c)
  PROVE  req' \in [Clients -> SoundRequest]
  BY IdleSound, BecomesSound DEF Ends

LEMMA GotoSound ==
  ASSUME req \in [Clients -> SoundRequest], NEW c \in Clients, NEW step \in Steps,
         Addressed([req[c] EXCEPT !.pc = step]), Goto(c, step)
  PROVE  req' \in [Clients -> SoundRequest]
  <1>1. req[c] \in Request
    BY DEF SoundRequest
  <1>2. [req[c] EXCEPT !.pc = step] \in SoundRequest
    BY <1>1 DEF Request, SoundRequest
  <1> QED BY <1>2, BecomesSound DEF Goto

-----------------------------------------------------------------------------
(***************************************************************************)
(* The steps of the tool calls on entities.                                *)
(***************************************************************************)
LEMMA WriteStepsType ==
  ASSUME TypeInv, NEW c \in Clients, WriteSteps(c)
  PROVE  TypeInv'
  <1> USE DEF TypeInv, TablesSame, At
  <1>r. req[c] \in Request /\ Addressed(req[c])
    BY DEF SoundRequest
  <1>1. CASE BindConfig(c)
    <2>1. PICK tool \in RowTools, explicit \in Pointer, progress \in BOOLEAN,
               id \in Ids \cup {None} :
             /\ Starts(c, tool)
             /\ config.init
             /\ (tool = "create") <=> (id = None)
             /\ progress => tool = "edit" /\ id \notin PureSpec
             /\ Becomes(c, [Idle EXCEPT !.tool = tool, !.pc = "known", !.id = id,
                               !.ver = BindTarget(explicit, ~progress, config),
                               !.implicit = (explicit = None /\ ~progress),
                               !.progress = progress])
             /\ TablesSame
      BY <1>1, Zenon DEF BindConfig
    <2> DEFINE r == [Idle EXCEPT !.tool = tool, !.pc = "known", !.id = id,
                        !.ver = BindTarget(explicit, ~progress, config),
                        !.implicit = (explicit = None /\ ~progress),
                        !.progress = progress]
    <2>2. BindTarget(explicit, ~progress, config) \in Versions
      BY BindTargetType
    <2>3. r \in Request
      <3>1. (explicit = None /\ ~progress) \in BOOLEAN
        OBVIOUS
      <3>2. tool \in Tools
        BY <2>1 DEF Starts
      <3> QED BY <2>2, <3>1, <3>2, BoundRequestType
    <2>4. Addressed(r)
      BY <2>1, <2>2, IdleSound, IdsAssumption DEF SoundRequest, Request, Addressed
    <2> QED BY <2>1, <2>3, <2>4, BecomesSound DEF SoundRequest
  <1>2. CASE BindKnown(c)
    <2> DEFINE r == [req[c] EXCEPT !.pc = FirstStep(req[c].tool), !.implicit = FALSE]
    <2>1. req[c].tool \in RowTools /\ req[c].pc = "known"
      BY <1>2, <1>r DEF BindKnown, Addressed
    <2>2. /\ FirstStep(req[c].tool) \in {"read", "list", "existing"}
          /\ FirstStep(req[c].tool) \in {"read", "existing"} => req[c].tool # "create"
      BY <2>1 DEF FirstStep, RowTools
    <2>3. r \in SoundRequest
      BY <1>r, <2>1, <2>2 DEF SoundRequest, Request, Addressed, Steps
    <2>4. Ends(c) \/ Becomes(c, r)
      BY <1>2 DEF BindKnown
    <2> QED BY <1>2, <2>3, <2>4, EndsSound, BecomesSound DEF BindKnown
  <1>3. CASE ReadRow(c)
    <2>1. Ends(c) \/ \E doc \in Row :
             Becomes(c, [req[c] EXCEPT !.pc = "guard", !.doc = doc, !.progress = FALSE])
      BY <1>3 DEF ReadRow
    <2>2. ASSUME NEW doc \in Row
          PROVE  [req[c] EXCEPT !.pc = "guard", !.doc = doc, !.progress = FALSE] \in SoundRequest
      BY <1>3, <1>r DEF ReadRow, SoundRequest, Request, Addressed, Steps
    <2> QED BY <1>3, <2>1, <2>2, EndsSound, BecomesSound DEF ReadRow
  <1>4. CASE ListRows(c)
    <2> DEFINE live == {id \in Ids : rows[req[c].ver][id].st = "live"}
               listed == [req[c] EXCEPT !.pc = "ids", !.live = live]
               named == [req[c] EXCEPT !.pc = "guard", !.doc = NewRow]
    <2>1. listed \in SoundRequest
      BY <1>4, <1>r DEF ListRows, SoundRequest, Request, Addressed, Steps
    <2>2. req[c].tool # "create" => named \in SoundRequest
      BY <1>4, <1>r, RowTypes DEF ListRows, SoundRequest, Request, Addressed, Steps
    <2>3. \/ Becomes(c, listed)
          \/ Ends(c)
          \/ req[c].tool # "create" /\ Becomes(c, named)
      BY <1>4 DEF ListRows
    <2> QED BY <1>4, <2>1, <2>2, <2>3, EndsSound, BecomesSound DEF ListRows
  <1>5. CASE AllocateId(c)
    <2> DEFINE id == NextId(IdsAcrossVersions)
               r == [req[c] EXCEPT !.pc = "guard", !.id = id, !.doc = NewRow, !.live = {}]
    <2>1. Ends(c) \/ (id \in Ids /\ Becomes(c, r))
      BY <1>5 DEF AllocateId
    <2>2. id \in Ids => r \in SoundRequest
      BY <1>5, <1>r, RowTypes DEF AllocateId, SoundRequest, Request, Addressed, Steps
    <2> QED BY <1>5, <2>1, <2>2, EndsSound, BecomesSound DEF AllocateId
  <1>6. CASE ReadExisting(c)
    <2> DEFINE row == rows[req[c].ver][req[c].id]
               r == [req[c] EXCEPT !.pc = "guard", !.doc = [row EXCEPT !.st = "removed"]]
    <2>1. Ends(c) \/ Becomes(c, r)
      BY <1>6 DEF ReadExisting
    <2>2. row \in Row
      BY <1>6, <1>r DEF ReadExisting, Addressed, Table
    <2>3. [row EXCEPT !.st = "removed"] \in Row
      BY <2>2 DEF Row
    <2>4. r \in SoundRequest
      BY <1>6, <1>r, <2>3 DEF ReadExisting, SoundRequest, Request, Addressed, Steps
    <2> QED BY <1>6, <2>1, <2>4, EndsSound, BecomesSound DEF ReadExisting
  <1>7. CASE IsLocked(c)
    <2>1. Goto(c, "raw") \/ Goto(c, "upsert")
      BY <1>7 DEF IsLocked
    <2>2. \A step \in {"raw", "upsert"} : Addressed([req[c] EXCEPT !.pc = step])
      BY <1>7, <1>r DEF IsLocked, Request, Addressed
    <2> QED BY <1>7, <2>1, <2>2, GotoSound DEF IsLocked, Steps
  <1>8. CASE AssertWritable(c)
    <2> DEFINE r == [req[c] EXCEPT !.pc = "upsert", !.compared = TRUE]
    <2>1. Ends(c) \/ Becomes(c, r)
      BY <1>8 DEF AssertWritable
    <2>2. r \in SoundRequest
      BY <1>8, <1>r DEF AssertWritable, SoundRequest, Request, Addressed, Steps
    <2> QED BY <1>8, <2>1, <2>2, EndsSound, BecomesSound DEF AssertWritable
  <1>9. CASE Upsert(c)
    <2>1. rows' \in [Versions -> Table]
      BY <1>9, <1>r DEF Upsert, Table, Request
    <2> QED BY <1>9, <2>1, EndsSound DEF Upsert
  <1> QED BY <1>1, <1>2, <1>3, <1>4, <1>5, <1>6, <1>7, <1>8, <1>9 DEF WriteSteps

(***************************************************************************)
(* The lifecycle operations.                                               *)
(***************************************************************************)
LEMMA BranchStepsType ==
  ASSUME TypeInv, NEW c \in Clients,
         \/ CvConfig(c) \/ CvList(c) \/ CvCopy(c)
         \/ CvRegister(c) \/ CvPoint(c) \/ CvDrop(c)
  PROVE  TypeInv'
  <1> USE DEF TypeInv, TablesSame, At
  <1>r. req[c] \in Request /\ Addressed(req[c])
    BY DEF SoundRequest
  <1>1. CASE CvConfig(c)
    <2> DEFINE r == [Idle EXCEPT !.tool = "create_version", !.pc = "cvList", !.cfg = config]
    <2>1. r \in SoundRequest
      BY <1>1, ConfigRequestSound DEF CvConfig, Starts
    <2> QED BY <1>1, <2>1, BecomesSound DEF CvConfig
  <1>2. CASE CvList(c)
    <2> DEFINE from(arg) == FirstOf(arg, FirstOf(FirstOf(req[c].cfg.current, req[c].cfg.draft),
                                                 INITIAL_VERSION))
               r(arg, to) == [req[c] EXCEPT !.pc = "cvCopy", !.from = from(arg), !.to = to]
    <2>1. ASSUME NEW arg \in Pointer  PROVE from(arg) \in Versions
      BY <1>r, FirstOfType, VersionsAssumption DEF Request, ConfigRow, Pointer
    <2>2. ASSUME NEW arg \in Pointer, NEW to \in Versions, from(arg) < to
          PROVE  r(arg, to) \in SoundRequest
      BY <2>1, <2>2, <1>r, CopyRequestSound
    <2>3. Ends(c) \/ \E arg \in Pointer, to \in Versions :
                       from(arg) < to /\ Becomes(c, r(arg, to))
      <3>1. \A arg \in Pointer, to \in Versions : to > from(arg) => from(arg) < to
        BY <2>1, VersionsAssumption
      <3> QED BY <1>2, <3>1 DEF CvList, MayBranch
    <2> HIDE DEF r
    <2> QED BY <1>2, <2>2, <2>3, EndsSound, BecomesSound DEF CvList
  <1>3. CASE CvCopy(c)
    <2>1. rows' \in [Versions -> Table]
      BY <1>3, <1>r, CopyType DEF CvCopy, Addressed
    <2>2. Goto(c, "cvDrop") \/ Goto(c, "cvRegister")
      BY <1>3 DEF CvCopy
    <2>3. \A step \in {"cvDrop", "cvRegister"} : Addressed([req[c] EXCEPT !.pc = step])
      BY <1>3, <1>r DEF CvCopy, Request, Addressed
    <2> QED BY <1>3, <2>1, <2>2, <2>3, GotoSound DEF CvCopy, Steps
  <1>4. CASE CvRegister(c)
    <2>1. registry' \in [Versions -> Status] /\ parent' \in [Versions -> Pointer]
      BY <1>4, <1>r DEF CvRegister, Request, Status
    <2>2. Goto(c, "cvPoint") \/ Ends(c)
      BY <1>4 DEF CvRegister
    <2>3. Addressed([req[c] EXCEPT !.pc = "cvPoint"])
      BY <1>4, <1>r DEF CvRegister, Request, Addressed
    <2>4. \A v \in Versions : parent'[v] < v
      BY <1>4, <1>r DEF CvRegister, Addressed
    <2> QED BY <1>4, <2>1, <2>2, <2>3, <2>4, GotoSound, EndsSound DEF CvRegister, Steps
  <1>5. CASE CvPoint(c)
    <2>1. config' \in ConfigRow
      BY <1>5, <1>r DEF CvPoint, Request, ConfigRow
    <2> QED BY <1>5, <2>1, EndsSound DEF CvPoint
  <1>6. CASE CvDrop(c)
    <2>1. registry' \in [Versions -> Status] /\ parent' \in [Versions -> Pointer]
      BY <1>6 DEF CvDrop, Status, Pointer
    <2>2. rows' \in [Versions -> Table]
      BY <1>6, RowTypes DEF CvDrop
    <2>3. \A v \in Versions : parent'[v] < v
      BY <1>6, VersionsAssumption DEF CvDrop
    <2> QED BY <1>6, <2>1, <2>2, <2>3, EndsSound DEF CvDrop
  <1> QED BY <1>1, <1>2, <1>3, <1>4, <1>5, <1>6

LEMMA LockStepsType ==
  ASSUME TypeInv, NEW c \in Clients,
         \/ LkRow(c) \/ LkWrite(c) \/ LkConfig(c) \/ LkPoint(c)
         \/ UlRow(c) \/ UlList(c) \/ UlWrite(c) \/ UlConfig(c) \/ UlPoint(c)
  PROVE  TypeInv'
  <1> USE DEF TypeInv, TablesSame, At
  <1>r. req[c] \in Request /\ Addressed(req[c])
    BY DEF SoundRequest
  <1>1. CASE LkRow(c)
    <2>1. PICK v \in Drafts : Becomes(c, [Idle EXCEPT !.tool = "lock_version",
                                             !.pc = "lkWrite", !.ver = v, !.par = parent[v]])
      BY <1>1 DEF LkRow
    <2>2. [Idle EXCEPT !.tool = "lock_version", !.pc = "lkWrite",
                       !.ver = v, !.par = parent[v]] \in SoundRequest
      BY <1>1, TargetRequestSound DEF LkRow, Starts, Drafts
    <2> QED BY <1>1, <2>1, <2>2, BecomesSound DEF LkRow
  <1>2. CASE LkWrite(c)
    <2>1. registry' \in [Versions -> Status] /\ parent' \in [Versions -> Pointer]
      BY <1>2, <1>r DEF LkWrite, WriteStatus, Request, Status
    <2>2. Addressed([req[c] EXCEPT !.pc = "lkConfig"])
      BY <1>2, <1>r DEF LkWrite, Request, Addressed
    <2>3. \A v \in Versions : parent'[v] < v
      BY <1>2, <1>r DEF LkWrite, WriteStatus, Addressed
    <2> QED BY <1>2, <2>1, <2>2, <2>3, GotoSound DEF LkWrite, Steps
  <1>3. CASE LkConfig(c)
    <2>1. [req[c] EXCEPT !.pc = "lkPoint", !.cfg = config] \in SoundRequest
      BY <1>3, <1>r DEF LkConfig, SoundRequest, Request, Addressed, Steps
    <2> QED BY <1>3, <2>1, EndsSound, BecomesSound DEF LkConfig
  <1>4. CASE LkPoint(c)
    <2>1. config' \in ConfigRow
      BY <1>4, <1>r DEF LkPoint, Request, ConfigRow, Pointer
    <2> QED BY <1>4, <2>1, EndsSound DEF LkPoint
  <1>5. CASE UlRow(c)
    <2>1. PICK v \in Versions : Becomes(c, [Idle EXCEPT !.tool = "unlock_version",
                                              !.pc = "ulList", !.ver = v, !.par = parent[v]])
      BY <1>5 DEF UlRow
    <2>2. [Idle EXCEPT !.tool = "unlock_version", !.pc = "ulList",
                       !.ver = v, !.par = parent[v]] \in SoundRequest
      BY <1>5, TargetRequestSound DEF UlRow, Starts
    <2> QED BY <1>5, <2>1, <2>2, BecomesSound DEF UlRow
  <1>6. CASE UlList(c)
    <2>1. Addressed([req[c] EXCEPT !.pc = "ulWrite"])
      BY <1>6, <1>r DEF UlList, Request, Addressed
    <2> QED BY <1>6, <2>1, EndsSound, GotoSound DEF UlList, Steps
  <1>7. CASE UlWrite(c)
    <2>1. registry' \in [Versions -> Status] /\ parent' \in [Versions -> Pointer]
      BY <1>7, <1>r DEF UlWrite, WriteStatus, Request, Status
    <2>2. Addressed([req[c] EXCEPT !.pc = "ulConfig"])
      BY <1>7, <1>r DEF UlWrite, Request, Addressed
    <2>3. \A v \in Versions : parent'[v] < v
      BY <1>7, <1>r DEF UlWrite, WriteStatus, Addressed
    <2> QED BY <1>7, <2>1, <2>2, <2>3, GotoSound DEF UlWrite, Steps
  <1>8. CASE UlConfig(c)
    <2>1. [req[c] EXCEPT !.pc = "ulPoint", !.cfg = config] \in SoundRequest
      BY <1>8, <1>r DEF UlConfig, SoundRequest, Request, Addressed, Steps
    <2> QED BY <1>8, <2>1, EndsSound, BecomesSound DEF UlConfig
  <1>9. CASE UlPoint(c)
    <2>1. config' \in ConfigRow
      BY <1>9, <1>r DEF UlPoint, Request, ConfigRow
    <2> QED BY <1>9, <2>1, EndsSound DEF UlPoint
  <1> QED BY <1>1, <1>2, <1>3, <1>4, <1>5, <1>6, <1>7, <1>8, <1>9

LEMMA PointerStepsType ==
  ASSUME TypeInv, NEW c \in Clients, SaList(c) \/ SaConfig(c) \/ SaPoint(c)
  PROVE  TypeInv'
  <1> USE DEF TypeInv, TablesSame, At
  <1>r. req[c] \in Request /\ Addressed(req[c])
    BY DEF SoundRequest
  <1>1. CASE SaList(c)
    <2>1. PICK current, draft \in Registered \cup {None} :
             Becomes(c, [Idle EXCEPT !.tool = "set_active_version", !.pc = "saConfig",
                                     !.from = current, !.to = draft])
      BY <1>1 DEF SaList
    <2>2. [Idle EXCEPT !.tool = "set_active_version", !.pc = "saConfig",
                       !.from = current, !.to = draft] \in SoundRequest
      BY <1>1, ActiveRequestSound DEF SaList, Starts, Registered, Pointer
    <2> QED BY <1>1, <2>1, <2>2, BecomesSound DEF SaList
  <1>2. CASE SaConfig(c)
    <2>1. [req[c] EXCEPT !.pc = "saPoint", !.cfg = config] \in SoundRequest
      BY <1>2, <1>r DEF SaConfig, SoundRequest, Request, Addressed, Steps
    <2> QED BY <1>2, <2>1, EndsSound, BecomesSound DEF SaConfig
  <1>3. CASE SaPoint(c)
    <2>1. config' \in ConfigRow
      BY <1>3, <1>r, FirstOfType DEF SaPoint, Request, ConfigRow
    <2> QED BY <1>3, <2>1, EndsSound DEF SaPoint
  <1> QED BY <1>1, <1>2, <1>3

LEMMA InitStepsType ==
  ASSUME TypeInv, NEW c \in Clients, InitSteps(c)
  PROVE  TypeInv'
  <1> USE DEF TypeInv, TablesSame, At
  <1>r. req[c] \in Request /\ Addressed(req[c])
    BY DEF SoundRequest
  <1>1. CASE InRead(c)
    <2> DEFINE cfg == [init |-> TRUE,
                       current |-> FirstOf(config.current, INITIAL_VERSION),
                       draft |-> FirstOf(config.draft, INITIAL_VERSION)]
    <2>1. cfg \in ConfigRow /\ cfg.draft \in Versions
      BY FirstOfType, VersionsAssumption DEF ConfigRow, Pointer
    <2> HIDE DEF cfg
    <2>2. [Idle EXCEPT !.tool = "init_project", !.pc = "inWrite", !.cfg = cfg] \in SoundRequest
      BY <1>1, <2>1, ConfigRequestSound DEF InRead, Starts
    <2>3. Becomes(c, [Idle EXCEPT !.tool = "init_project", !.pc = "inWrite", !.cfg = cfg])
      BY <1>1 DEF InRead, cfg
    <2> QED BY <1>1, <2>2, <2>3, BecomesSound DEF InRead
  <1>2. CASE InWrite(c)
    <2>1. Addressed([req[c] EXCEPT !.pc = "inRow"])
      BY <1>2, <1>r DEF InWrite, Request, Addressed
    <2> QED BY <1>2, <1>r, <2>1, GotoSound DEF InWrite, Request, Steps
  <1>3. CASE InRow(c)
    <2>1. Addressed([req[c] EXCEPT !.pc = "inRegister"])
      BY <1>3, <1>r DEF InRow, Request, Addressed
    <2> QED BY <1>3, <2>1, EndsSound, GotoSound DEF InRow, Steps
  <1>4. CASE InRegister(c)
    <2>1. registry' \in [Versions -> Status] /\ parent' \in [Versions -> Pointer]
      BY <1>4 DEF InRegister, Status, Pointer
    <2>2. \A v \in Versions : parent'[v] < v
      BY <1>4, VersionsAssumption DEF InRegister
    <2> QED BY <1>4, <2>1, <2>2, EndsSound DEF InRegister
  <1>5. CASE WebInit(c)
    <2>1. config' \in ConfigRow
      BY <1>5, RowTypes DEF WebInit, ConfigRow
    <2> QED BY <1>5, <2>1 DEF WebInit
  <1> QED BY <1>1, <1>2, <1>3, <1>4, <1>5 DEF InitSteps

LEMMA FaultStepsType ==
  ASSUME TypeInv, Boot \/ \E c \in Clients : Crash(c) \/ QueryError(c)
  PROVE  TypeInv'
  <1> USE DEF TypeInv, TablesSame
  <1>1. CASE Boot
    <2>1. registry' \in [Versions -> Status]
      BY <1>1 DEF Boot, Status
    <2>2. config' \in ConfigRow
      BY <1>1, VersionsAssumption DEF Boot, ConfigRow, Pointer
    <2> QED BY <1>1, <2>1, <2>2 DEF Boot
  <1>2. ASSUME NEW c \in Clients, Crash(c)  PROVE TypeInv'
    BY <1>2, EndsSound DEF Crash
  <1>3. ASSUME NEW c \in Clients, QueryError(c)  PROVE TypeInv'
    <2>1. req[c] \in Request /\ Addressed(req[c])
      BY DEF SoundRequest
    <2>2. req[c].pc \in {"cvCopy", "cvRegister"} => Addressed([req[c] EXCEPT !.pc = "cvDrop"])
      BY <2>1 DEF Request, Addressed
    <2> QED BY <1>3, <2>2, EndsSound, GotoSound DEF QueryError, Steps
  <1> QED BY <1>1, <1>2, <1>3

LEMMA TypeInvStep == TypeInv /\ [Next]_vars => TypeInv'
  <1> SUFFICES ASSUME TypeInv, [Next]_vars  PROVE TypeInv'
    OBVIOUS
  <1>1. CASE UNCHANGED vars
    BY <1>1 DEF TypeInv, vars
  <1>2. ASSUME NEW c \in Clients, Serve(c)  PROVE TypeInv'
    BY <1>2, WriteStepsType, BranchStepsType, LockStepsType, PointerStepsType, InitStepsType
       DEF Serve, LifecycleSteps
  <1> QED BY <1>1, <1>2, FaultStepsType DEF Next

LEMMA TypeInvInit == Init => TypeInv
  BY RowTypes, IdleSound, VersionsAssumption DEF Init, TypeInv, Status, Pointer

\* TypeInv in every reachable state; what the later proofs start from.
LEMMA AlwaysTypeInv == Spec => []TypeInv
  BY TypeInvInit, TypeInvStep, PTL DEF Spec

(***************************************************************************)
(* Type correctness: whatever the requests do and however they overlap or  *)
(* fail, the tables, the config row and every request stay well formed.    *)
(***************************************************************************)
THEOREM TypeCorrect == Spec => []TypeOK
  BY AlwaysTypeInv, TypeInvImpliesTypeOK, PTL

(***************************************************************************)
(* The registry stays a forest ordered by semver: no overlap of branching, *)
(* locking, rolling back and failing makes a version its own ancestor.     *)
(***************************************************************************)
THEOREM ParentsOlder == Spec => []ParentOlder
  BY AlwaysTypeInv, TypeInvImpliesParentOlder, PTL

-----------------------------------------------------------------------------
(***************************************************************************)
(* A settled baseline.  Every step is one client's or a boot; it is enough *)
(* to look at what it writes and at where it leaves that client.           *)
(***************************************************************************)
OthersWait(c) == \A d \in Clients \ {c} : req'[d] = req[d]
Hazardous == {"upsert", "cvCopy", "cvRegister", "cvDrop", "inRegister"}

\* The moving client does not endanger v after its step.
LeavesAlone(c, v) ==
    /\ req'[c].pc = "upsert" /\ req'[c].ver = v
          => SameFrozen(rows'[v][req'[c].id], req'[c].doc)
    /\ req'[c].pc \in {"cvCopy", "cvRegister", "cvDrop"} => req'[c].to # v
    /\ req'[c].pc = "inRegister" => req'[c].cfg.draft # v

Kept(v) == /\ Settled(v)'
           /\ \A id \in Ids : SameFrozen(rows[v][id], rows'[v][id])

LEMMA KeptByOneClient ==
  ASSUME TypeInv, NEW v \in Versions, Settled(v), NEW c \in Clients, OthersWait(c),
         registry'[v] = "locked",
         \A id \in Ids : SameFrozen(rows[v][id], rows'[v][id]),
         LeavesAlone(c, v)
  PROVE  Kept(v)
  <1>1. ~Pending(c, v)'
    BY DEF LeavesAlone, Pending, At
  <1>2. ASSUME NEW d \in Clients \ {c}  PROVE ~Pending(d, v)'
    <2>1. ~Pending(d, v) /\ req'[d] = req[d]
      BY DEF Settled, OthersWait
    <2>2. req[d].pc = "upsert" => req[d].id \in Ids
      BY DEF TypeInv, SoundRequest, Addressed
    <2> QED BY <2>1, <2>2 DEF Pending, At, SameFrozen
  <1> QED BY <1>1, <1>2 DEF Kept, Settled

LEMMA SameFrozenReflexive == \A row : SameFrozen(row, row)
  BY DEF SameFrozen

\* A step that writes no table and stops short of the hazardous steps.
LEMMA KeptByCalmStep ==
  ASSUME TypeInv, NEW v \in Versions, Settled(v), NEW c \in Clients, OthersWait(c),
         registry' = registry, rows' = rows, req'[c].pc \notin Hazardous
  PROVE  Kept(v)
  <1>1. registry'[v] = "locked"
    BY DEF Settled
  <1>2. LeavesAlone(c, v)
    BY DEF LeavesAlone, Hazardous
  <1> QED BY <1>1, <1>2, KeptByOneClient, SameFrozenReflexive

LEMMA EndsCalm ==
  ASSUME TypeInv, NEW c \in Clients, Ends(c)
  PROVE  OthersWait(c) /\ req'[c].pc \notin Hazardous
  BY DEF TypeInv, Ends, Becomes, OthersWait, Hazardous, Idle

LEMMA BecomesMoves ==
  ASSUME TypeInv, NEW c \in Clients, NEW r, Becomes(c, r)
  PROVE  OthersWait(c) /\ req'[c] = r
  BY DEF TypeInv, Becomes, OthersWait

LEMMA GotoMoves ==
  ASSUME TypeInv, NEW c \in Clients, NEW step, Goto(c, step)
  PROVE  OthersWait(c) /\ req'[c] = [req[c] EXCEPT !.pc = step] /\ req'[c].pc = step
  BY DEF TypeInv, SoundRequest, Request, Becomes, Goto, OthersWait

LEMMA GotoCalm ==
  ASSUME TypeInv, NEW c \in Clients, NEW step, step \notin Hazardous, Goto(c, step)
  PROVE  OthersWait(c) /\ req'[c].pc \notin Hazardous
  BY GotoMoves

LEMMA KeptByEnding ==
  ASSUME TypeInv, NEW v \in Versions, Settled(v), NEW c \in Clients, Ends(c),
         registry' = registry, rows' = rows
  PROVE  Kept(v)
  BY EndsCalm, KeptByCalmStep

LEMMA KeptByBecoming ==
  ASSUME TypeInv, NEW v \in Versions, Settled(v), NEW c \in Clients,
         NEW r, Becomes(c, r), r.pc \notin Hazardous,
         registry' = registry, rows' = rows
  PROVE  Kept(v)
  BY BecomesMoves, KeptByCalmStep

\* A step of no client, or of one that leaves its request as it is.
LEMMA KeptByIdleStep ==
  ASSUME TypeInv, NEW v \in Versions, Settled(v),
         registry' = registry, rows' = rows, req' = req
  PROVE  Kept(v)
  <1>1. \A c \in Clients : ~Pending(c, v)'
    BY DEF Settled, Pending, At, SameFrozen
  <1> QED BY <1>1, SameFrozenReflexive DEF Kept, Settled

LEMMA KeptByWriteSteps ==
  ASSUME TypeInv, NEW v \in Versions, Settled(v), NEW c \in Clients, WriteSteps(c)
  PROVE  Kept(v)
  <1> USE DEF At
  <1>r. req[c] \in Request /\ Idle \in Request
    BY IdleSound DEF TypeInv, SoundRequest
  <1>s. Addressed(req[c]) /\ registry[v] = "locked" /\ ~Pending(c, v)
    BY DEF TypeInv, SoundRequest, Settled
  <1>1. CASE BindConfig(c)
    <2>1. PICK tool \in RowTools, explicit \in Pointer, progress \in BOOLEAN,
               id \in Ids \cup {None} :
             /\ Starts(c, tool)
             /\ config.init
             /\ (tool = "create") <=> (id = None)
             /\ progress => tool = "edit" /\ id \notin PureSpec
             /\ Becomes(c, [Idle EXCEPT !.tool = tool, !.pc = "known", !.id = id,
                               !.ver = BindTarget(explicit, ~progress, config),
                               !.implicit = (explicit = None /\ ~progress),
                               !.progress = progress])
             /\ TablesSame
      BY <1>1, Zenon DEF BindConfig
    <2> DEFINE r == [Idle EXCEPT !.tool = tool, !.pc = "known", !.id = id,
                        !.ver = BindTarget(explicit, ~progress, config),
                        !.implicit = (explicit = None /\ ~progress),
                        !.progress = progress]
    <2>2. r.pc = "known"
      BY DEF Idle
    <2> QED BY <1>1, <2>1, <2>2, KeptByBecoming DEF BindConfig, TablesSame, Hazardous
  <1>2. CASE BindKnown(c)
    <2> DEFINE r == [req[c] EXCEPT !.pc = FirstStep(req[c].tool), !.implicit = FALSE]
    <2>1. req[c].tool \in RowTools
      BY <1>2, <1>s DEF BindKnown, Addressed
    <2>2. FirstStep(req[c].tool) \in {"read", "list", "existing"}
      BY <2>1 DEF FirstStep, RowTools
    <2>3. r.pc \notin Hazardous
      BY <1>r, <2>2 DEF Request, Hazardous
    <2>4. Ends(c) \/ Becomes(c, r)
      BY <1>2 DEF BindKnown
    <2> QED BY <1>2, <2>3, <2>4, KeptByEnding, KeptByBecoming DEF BindKnown, TablesSame
  <1>3. CASE ReadRow(c)
    <2>1. Ends(c) \/ \E doc \in Row :
             Becomes(c, [req[c] EXCEPT !.pc = "guard", !.doc = doc, !.progress = FALSE])
      BY <1>3 DEF ReadRow
    <2>2. ASSUME NEW doc \in Row
          PROVE  [req[c] EXCEPT !.pc = "guard", !.doc = doc, !.progress = FALSE].pc
                    \notin Hazardous
      BY <1>r DEF Request, Hazardous
    <2> QED BY <1>3, <2>1, <2>2, KeptByEnding, KeptByBecoming DEF ReadRow, TablesSame
  <1>4. CASE ListRows(c)
    <2> DEFINE live == {id \in Ids : rows[req[c].ver][id].st = "live"}
               listed == [req[c] EXCEPT !.pc = "ids", !.live = live]
               named == [req[c] EXCEPT !.pc = "guard", !.doc = NewRow]
    <2>1. listed.pc \notin Hazardous /\ named.pc \notin Hazardous
      BY <1>r DEF Request, Hazardous
    <2>2. Becomes(c, listed) \/ Ends(c) \/ Becomes(c, named)
      BY <1>4 DEF ListRows
    <2> QED BY <1>4, <2>1, <2>2, KeptByEnding, KeptByBecoming DEF ListRows, TablesSame
  <1>5. CASE AllocateId(c)
    <2> DEFINE r == [req[c] EXCEPT !.pc = "guard", !.id = NextId(IdsAcrossVersions),
                                   !.doc = NewRow, !.live = {}]
    <2>1. r.pc \notin Hazardous
      BY <1>r DEF Request, Hazardous
    <2>2. Ends(c) \/ Becomes(c, r)
      BY <1>5 DEF AllocateId
    <2> QED BY <1>5, <2>1, <2>2, KeptByEnding, KeptByBecoming DEF AllocateId, TablesSame
  <1>6. CASE ReadExisting(c)
    <2> DEFINE row == rows[req[c].ver][req[c].id]
               r == [req[c] EXCEPT !.pc = "guard", !.doc = [row EXCEPT !.st = "removed"]]
    <2>1. r.pc \notin Hazardous
      BY <1>r DEF Request, Hazardous
    <2>2. Ends(c) \/ Becomes(c, r)
      BY <1>6 DEF ReadExisting
    <2> QED BY <1>6, <2>1, <2>2, KeptByEnding, KeptByBecoming DEF ReadExisting, TablesSame
  <1>7. CASE IsLocked(c)
    <2>1. CASE registry[req[c].ver] = "locked"
      <3>1. OthersWait(c) /\ req'[c].pc = "raw"
        BY <1>7, <2>1, GotoMoves DEF IsLocked
      <3> QED BY <1>7, <3>1, KeptByCalmStep DEF IsLocked, TablesSame, Hazardous
    <2>2. CASE registry[req[c].ver] # "locked"
      <3>1. OthersWait(c) /\ req'[c] = [req[c] EXCEPT !.pc = "upsert"] /\ req'[c].pc = "upsert"
        BY <1>7, <2>2, GotoMoves DEF IsLocked
      <3>2. req'[c].ver # v
        BY <3>1, <2>2, <1>s, <1>r DEF Request
      <3>3. LeavesAlone(c, v)
        BY <3>1, <3>2 DEF LeavesAlone
      <3> QED BY <1>7, <1>s, <3>1, <3>3, KeptByOneClient, SameFrozenReflexive
              DEF IsLocked, TablesSame
    <2> QED BY <2>1, <2>2
  <1>8. CASE AssertWritable(c)
    <2> DEFINE row == rows[req[c].ver][req[c].id]
               r == [req[c] EXCEPT !.pc = "upsert", !.compared = TRUE]
    <2>1. CASE CheckWritable(row, req[c].doc)
      <3>1. OthersWait(c) /\ req'[c] = r
        BY <1>8, <2>1, BecomesMoves DEF AssertWritable
      <3>2. r.pc = "upsert" /\ r.ver = req[c].ver /\ r.id = req[c].id /\ r.doc = req[c].doc
        BY <1>r DEF Request
      <3>3. SameFrozen(row, req[c].doc)
        BY <2>1 DEF CheckWritable, SameFrozen
      <3>4. rows' = rows
        BY <1>8 DEF AssertWritable, TablesSame
      <3>5. LeavesAlone(c, v)
        BY <3>1, <3>2, <3>3, <3>4 DEF LeavesAlone
      <3> QED BY <1>8, <1>s, <3>1, <3>5, KeptByOneClient, SameFrozenReflexive
              DEF AssertWritable, TablesSame
    <2>2. CASE ~CheckWritable(row, req[c].doc)
      BY <1>8, <2>2, EndsCalm, KeptByCalmStep DEF AssertWritable, TablesSame
    <2> QED BY <2>1, <2>2
  <1>9. CASE Upsert(c)
    <2>1. OthersWait(c) /\ req'[c].pc \notin Hazardous
      BY <1>9, EndsCalm DEF Upsert
    <2>2. req[c].ver \in Versions /\ req[c].id \in Ids
      BY <1>9, <1>s DEF Upsert, Addressed
    <2>3. req[c].ver = v => SameFrozen(rows[v][req[c].id], req[c].doc)
      BY <1>9, <1>s DEF Upsert, Pending
    <2>4. \A id \in Ids : SameFrozen(rows[v][id], rows'[v][id])
      BY <1>9, <2>2, <2>3, SameFrozenReflexive DEF Upsert, TypeInv, Table
    <2>5. LeavesAlone(c, v)
      BY <2>1 DEF LeavesAlone, Hazardous
    <2> QED BY <1>9, <1>s, <2>1, <2>4, <2>5, KeptByOneClient DEF Upsert
  <1> QED BY <1>1, <1>2, <1>3, <1>4, <1>5, <1>6, <1>7, <1>8, <1>9 DEF WriteSteps

LEMMA KeptByBranchSteps ==
  ASSUME TypeInv, NEW v \in Versions, Settled(v), NEW c \in Clients,
         CvConfig(c) \/ CvList(c) \/ CvCopy(c) \/ CvRegister(c) \/ CvPoint(c) \/ CvDrop(c)
  PROVE  Kept(v)
  <1> USE DEF At
  <1>r. req[c] \in Request /\ Idle \in Request
    BY IdleSound DEF TypeInv, SoundRequest
  <1>s. Addressed(req[c]) /\ registry[v] = "locked" /\ ~Pending(c, v)
    BY DEF TypeInv, SoundRequest, Settled
  <1>1. CASE CvConfig(c)
    <2> DEFINE r == [Idle EXCEPT !.tool = "create_version", !.pc = "cvList", !.cfg = config]
    <2>1. r.pc \notin Hazardous
      BY DEF Idle, Hazardous
    <2> QED BY <1>1, <2>1, KeptByBecoming DEF CvConfig, TablesSame
  <1>2. CASE CvList(c)
    <2>1. Ends(c) \/ \E arg \in Pointer, to \in Versions \ Registered :
             Becomes(c, [req[c] EXCEPT !.pc = "cvCopy", !.to = to,
                           !.from = FirstOf(arg, FirstOf(FirstOf(req[c].cfg.current,
                                                                 req[c].cfg.draft),
                                                         INITIAL_VERSION))])
      BY <1>2 DEF CvList, MayBranch
    <2>2. ASSUME NEW from, NEW to, to \in Versions \ Registered,
                 Becomes(c, [req[c] EXCEPT !.pc = "cvCopy", !.to = to, !.from = from])
          PROVE  Kept(v)
      <3>1. OthersWait(c) /\ req'[c] = [req[c] EXCEPT !.pc = "cvCopy", !.to = to, !.from = from]
        BY <2>2, BecomesMoves
      <3>2. req'[c].pc = "cvCopy" /\ req'[c].to = to
        BY <3>1, <1>r DEF Request
      <3>3. to # v
        BY <2>2, <1>s DEF Registered
      <3>4. LeavesAlone(c, v)
        BY <3>2, <3>3 DEF LeavesAlone
      <3> QED BY <1>2, <1>s, <3>1, <3>4, KeptByOneClient, SameFrozenReflexive
              DEF CvList, TablesSame
    <2> QED BY <1>2, <2>1, <2>2, KeptByEnding DEF CvList, TablesSame
  <1>3. CASE CvCopy(c)
    <2>1. req[c].to # v /\ req[c].to \in Versions
      BY <1>3, <1>s DEF CvCopy, Pending, Addressed
    <2>2. OthersWait(c) /\ req'[c].to = req[c].to
      <3>1. PICK step \in {"cvDrop", "cvRegister"} : Goto(c, step)
        BY <1>3 DEF CvCopy
      <3>2. OthersWait(c) /\ req'[c] = [req[c] EXCEPT !.pc = step]
        BY <3>1, GotoMoves
      <3> QED BY <3>2, <1>r DEF Request
    <2>3. registry'[v] = "locked" /\ rows'[v] = rows[v]
      BY <1>3, <1>s, <2>1 DEF CvCopy, TypeInv
    <2>4. LeavesAlone(c, v)
      <3>1. req'[c].pc \in {"cvDrop", "cvRegister"}
        BY <1>3, GotoMoves DEF CvCopy
      <3> QED BY <2>1, <2>2, <3>1 DEF LeavesAlone
    <2> QED BY <2>2, <2>3, <2>4, KeptByOneClient, SameFrozenReflexive
  <1>4. CASE CvRegister(c)
    <2>1. req[c].to # v /\ req[c].to \in Versions
      BY <1>4, <1>s DEF CvRegister, Pending, Addressed
    <2>2. OthersWait(c) /\ req'[c].pc \notin Hazardous
      <3>1. Goto(c, "cvPoint") \/ Ends(c)
        BY <1>4 DEF CvRegister
      <3> QED BY <3>1, GotoCalm, EndsCalm DEF Hazardous
    <2>3. registry'[v] = "locked" /\ rows' = rows
      BY <1>4, <1>s, <2>1 DEF CvRegister, TypeInv
    <2>4. LeavesAlone(c, v)
      BY <2>2 DEF LeavesAlone, Hazardous
    <2> QED BY <2>2, <2>3, <2>4, KeptByOneClient, SameFrozenReflexive
  <1>5. CASE CvPoint(c)
    BY <1>5, KeptByEnding DEF CvPoint
  <1>6. CASE CvDrop(c)
    <2>1. req[c].to # v /\ req[c].to \in Versions
      BY <1>6, <1>s DEF CvDrop, Pending, Addressed
    <2>2. OthersWait(c) /\ req'[c].pc \notin Hazardous
      BY <1>6, EndsCalm DEF CvDrop
    <2>3. registry'[v] = "locked" /\ rows'[v] = rows[v]
      BY <1>6, <1>s, <2>1 DEF CvDrop, TypeInv
    <2>4. LeavesAlone(c, v)
      BY <2>2 DEF LeavesAlone, Hazardous
    <2> QED BY <2>2, <2>3, <2>4, KeptByOneClient, SameFrozenReflexive
  <1> QED BY <1>1, <1>2, <1>3, <1>4, <1>5, <1>6

LEMMA KeptByLockSteps ==
  ASSUME TypeInv, NEW v \in Versions, Settled(v), NEW c \in Clients,
         \/ LkRow(c) \/ LkWrite(c) \/ LkConfig(c) \/ LkPoint(c)
         \/ UlRow(c) \/ UlList(c) \/ UlConfig(c) \/ UlPoint(c)
         \/ UlWrite(c) /\ ~Unlocks(v)
  PROVE  Kept(v)
  <1> USE DEF At
  <1>r. req[c] \in Request /\ Idle \in Request
    BY IdleSound DEF TypeInv, SoundRequest
  <1>s. Addressed(req[c]) /\ registry[v] = "locked"
    BY DEF TypeInv, SoundRequest, Settled
  <1>1. CASE LkRow(c)
    <2>1. PICK w \in Drafts : Becomes(c, [Idle EXCEPT !.tool = "lock_version", !.pc = "lkWrite",
                                                     !.ver = w, !.par = parent[w]])
      BY <1>1 DEF LkRow
    <2> DEFINE r == [Idle EXCEPT !.tool = "lock_version", !.pc = "lkWrite",
                                 !.ver = w, !.par = parent[w]]
    <2>2. r.pc \notin Hazardous
      BY DEF Idle, Hazardous
    <2> QED BY <1>1, <2>1, <2>2, KeptByBecoming DEF LkRow, TablesSame
  <1>2. CASE LkWrite(c)
    <2>1. OthersWait(c) /\ req'[c].pc \notin Hazardous
      <3>1. Goto(c, "lkConfig")
        BY <1>2 DEF LkWrite
      <3> QED BY <3>1, GotoCalm DEF Hazardous
    <2>2. registry'[v] = "locked" /\ rows' = rows
      BY <1>2, <1>s DEF LkWrite, WriteStatus, TypeInv
    <2>3. LeavesAlone(c, v)
      BY <2>1 DEF LeavesAlone, Hazardous
    <2> QED BY <2>1, <2>2, <2>3, KeptByOneClient, SameFrozenReflexive
  <1>3. CASE LkConfig(c) \/ UlConfig(c)
    <2>1. \/ Ends(c)
          \/ Becomes(c, [req[c] EXCEPT !.pc = "lkPoint", !.cfg = config])
          \/ Becomes(c, [req[c] EXCEPT !.pc = "ulPoint", !.cfg = config])
      BY <1>3 DEF LkConfig, UlConfig
    <2>2. /\ [req[c] EXCEPT !.pc = "lkPoint", !.cfg = config].pc \notin Hazardous
          /\ [req[c] EXCEPT !.pc = "ulPoint", !.cfg = config].pc \notin Hazardous
      BY <1>r DEF Request, Hazardous
    <2> QED BY <1>3, <2>1, <2>2, KeptByEnding, KeptByBecoming DEF LkConfig, UlConfig, TablesSame
  <1>4. CASE LkPoint(c) \/ UlPoint(c)
    BY <1>4, KeptByEnding DEF LkPoint, UlPoint
  <1>5. CASE UlRow(c)
    <2>1. PICK w \in Versions : Becomes(c, [Idle EXCEPT !.tool = "unlock_version",
                                              !.pc = "ulList", !.ver = w, !.par = parent[w]])
      BY <1>5 DEF UlRow
    <2> DEFINE r == [Idle EXCEPT !.tool = "unlock_version",
                                 !.pc = "ulList", !.ver = w, !.par = parent[w]]
    <2>2. r.pc \notin Hazardous
      BY DEF Idle, Hazardous
    <2> QED BY <1>5, <2>1, <2>2, KeptByBecoming DEF UlRow, TablesSame
  <1>6. CASE UlList(c)
    <2>1. OthersWait(c) /\ req'[c].pc \notin Hazardous
      <3>1. Ends(c) \/ Goto(c, "ulWrite")
        BY <1>6 DEF UlList
      <3> QED BY <3>1, GotoCalm, EndsCalm DEF Hazardous
    <2> QED BY <1>6, <2>1, KeptByCalmStep DEF UlList, TablesSame
  <1>7. CASE UlWrite(c) /\ ~Unlocks(v)
    <2>1. OthersWait(c) /\ req'[c].pc = "ulConfig"
      BY <1>7, GotoMoves DEF UlWrite
    <2>2. req' # req
      BY <1>7, <2>1 DEF UlWrite
    <2>3. req[c].ver # v
      BY <1>7, <2>2 DEF UlWrite, Unlocks
    <2>4. registry'[v] = "locked" /\ rows' = rows
      BY <1>7, <1>s, <2>3 DEF UlWrite, WriteStatus, TypeInv
    <2>5. LeavesAlone(c, v)
      BY <2>1 DEF LeavesAlone
    <2> QED BY <2>1, <2>4, <2>5, KeptByOneClient, SameFrozenReflexive
  <1> QED BY <1>1, <1>2, <1>3, <1>4, <1>5, <1>6, <1>7

LEMMA KeptByPointerSteps ==
  ASSUME TypeInv, NEW v \in Versions, Settled(v), NEW c \in Clients,
         SaList(c) \/ SaConfig(c) \/ SaPoint(c)
  PROVE  Kept(v)
  <1>1. CASE SaList(c)
    <2>1. PICK current, draft \in Registered \cup {None} :
             Becomes(c, [Idle EXCEPT !.tool = "set_active_version", !.pc = "saConfig",
                                     !.from = current, !.to = draft])
      BY <1>1 DEF SaList
    <2> DEFINE r == [Idle EXCEPT !.tool = "set_active_version", !.pc = "saConfig",
                                 !.from = current, !.to = draft]
    <2>2. r.pc \notin Hazardous
      BY DEF Idle, Hazardous
    <2> QED BY <1>1, <2>1, <2>2, KeptByBecoming DEF SaList, TablesSame
  <1>2. CASE SaConfig(c)
    <2> DEFINE r == [req[c] EXCEPT !.pc = "saPoint", !.cfg = config]
    <2>1. r.pc \notin Hazardous
      BY DEF TypeInv, SoundRequest, Request, Hazardous
    <2>2. Ends(c) \/ Becomes(c, r)
      BY <1>2 DEF SaConfig
    <2> QED BY <1>2, <2>1, <2>2, KeptByEnding, KeptByBecoming DEF SaConfig, TablesSame
  <1>3. CASE SaPoint(c)
    BY <1>3, KeptByEnding DEF SaPoint
  <1> QED BY <1>1, <1>2, <1>3

LEMMA KeptByInitSteps ==
  ASSUME TypeInv, NEW v \in Versions, Settled(v), NEW c \in Clients, InitSteps(c)
  PROVE  Kept(v)
  <1> USE DEF At
  <1>r. req[c] \in Request
    BY DEF TypeInv, SoundRequest
  <1>s. Addressed(req[c]) /\ registry[v] = "locked" /\ ~Pending(c, v)
    BY DEF TypeInv, SoundRequest, Settled
  <1>1. CASE InRead(c)
    <2> DEFINE cfg == [init |-> TRUE,
                       current |-> FirstOf(config.current, INITIAL_VERSION),
                       draft |-> FirstOf(config.draft, INITIAL_VERSION)]
               r == [Idle EXCEPT !.tool = "init_project", !.pc = "inWrite", !.cfg = cfg]
    <2>1. r.pc \notin Hazardous
      BY DEF Idle, Hazardous
    <2> QED BY <1>1, <2>1, KeptByBecoming DEF InRead, TablesSame
  <1>2. CASE InWrite(c)
    <2>1. OthersWait(c) /\ req'[c].pc \notin Hazardous
      <3>1. Goto(c, "inRow")
        BY <1>2 DEF InWrite
      <3> QED BY <3>1, GotoCalm DEF Hazardous
    <2> QED BY <1>2, <2>1, KeptByCalmStep DEF InWrite
  <1>3. CASE InRow(c)
    <2>1. CASE registry[req[c].cfg.draft] # "absent"
      BY <1>3, <2>1, KeptByEnding DEF InRow, TablesSame
    <2>2. CASE registry[req[c].cfg.draft] = "absent"
      <3>1. /\ OthersWait(c)
            /\ req'[c] = [req[c] EXCEPT !.pc = "inRegister"] /\ req'[c].pc = "inRegister"
        BY <1>3, <2>2, GotoMoves DEF InRow
      <3>2. req'[c].cfg.draft # v
        BY <3>1, <2>2, <1>s, <1>r DEF Request
      <3>3. LeavesAlone(c, v)
        BY <3>1, <3>2 DEF LeavesAlone
      <3> QED BY <1>3, <1>s, <3>1, <3>3, KeptByOneClient, SameFrozenReflexive
              DEF InRow, TablesSame
    <2> QED BY <2>1, <2>2
  <1>4. CASE InRegister(c)
    <2>1. OthersWait(c) /\ req'[c].pc \notin Hazardous
      BY <1>4, EndsCalm DEF InRegister
    <2>2. req[c].cfg.draft # v
      BY <1>4, <1>s DEF InRegister, Pending
    <2>3. registry'[v] = "locked" /\ rows' = rows
      BY <1>4, <1>s, <2>2 DEF InRegister, TypeInv
    <2>4. LeavesAlone(c, v)
      BY <2>1 DEF LeavesAlone, Hazardous
    <2> QED BY <2>1, <2>3, <2>4, KeptByOneClient, SameFrozenReflexive
  <1>5. CASE WebInit(c)
    BY <1>5, KeptByIdleStep DEF WebInit
  <1> QED BY <1>1, <1>2, <1>3, <1>4, <1>5 DEF InitSteps

LEMMA KeptByFaults ==
  ASSUME TypeInv, NEW v \in Versions, Settled(v),
         Boot \/ \E c \in Clients : Crash(c) \/ QueryError(c)
  PROVE  Kept(v)
  <1>1. CASE Boot
    <2>1. v \in Registered
      BY DEF Settled, Registered
    <2>2. registry' = registry
      BY <1>1, <2>1 DEF Boot
    <2> QED BY <1>1, <2>2, KeptByIdleStep DEF Boot
  <1>2. ASSUME NEW c \in Clients, Crash(c)  PROVE Kept(v)
    BY <1>2, KeptByEnding DEF Crash, TablesSame
  <1>3. ASSUME NEW c \in Clients, QueryError(c)  PROVE Kept(v)
    <2>1. CASE req[c].pc \in {"cvCopy", "cvRegister"}
      <3>1. OthersWait(c) /\ req'[c] = [req[c] EXCEPT !.pc = "cvDrop"] /\ req'[c].pc = "cvDrop"
        BY <1>3, <2>1, GotoMoves DEF QueryError
      <3>2. req'[c].to = req[c].to
        BY <3>1 DEF TypeInv, SoundRequest, Request
      <3>3. req[c].to # v
        BY <2>1 DEF Settled, Pending
      <3>4. LeavesAlone(c, v)
        BY <3>1, <3>2, <3>3 DEF LeavesAlone
      <3>5. registry'[v] = "locked" /\ rows' = rows
        BY <1>3 DEF QueryError, TablesSame, Settled
      <3> QED BY <3>1, <3>4, <3>5, KeptByOneClient, SameFrozenReflexive
    <2>2. CASE req[c].pc \notin {"cvCopy", "cvRegister"}
      BY <1>3, <2>2, KeptByEnding DEF QueryError, TablesSame
    <2> QED BY <2>1, <2>2
  <1> QED BY <1>1, <1>2, <1>3

LEMMA KeptByEveryStep ==
  ASSUME TypeInv, [Next]_vars, NEW v \in Versions, Settled(v), ~Unlocks(v)
  PROVE  Kept(v)
  <1>1. CASE UNCHANGED vars
    BY <1>1, KeptByIdleStep DEF vars
  <1>2. ASSUME NEW c \in Clients, Serve(c)  PROVE Kept(v)
    BY <1>2, KeptByWriteSteps, KeptByBranchSteps, KeptByLockSteps, KeptByPointerSteps,
       KeptByInitSteps
       DEF Serve, LifecycleSteps
  <1> QED BY <1>1, <1>2, KeptByFaults DEF Next

(***************************************************************************)
(* A settled baseline stays frozen until an unlock, for any number of      *)
(* clients, versions and entities, and whatever fails: a request meets the *)
(* lock in a query of its own, so all that can undo a lock are the writes  *)
(* already past their check, which Settled rules out.                      *)
(***************************************************************************)
THEOREM BaselineStaysFrozen == Spec => SettledStaysFrozen
  <1>1. TypeInv /\ [Next]_vars
          => [\A v \in Versions :
                 Settled(v) /\ ~Unlocks(v)
                    => /\ Settled(v)'
                       /\ \A id \in Ids : SameFrozen(rows[v][id], rows'[v][id])]_vars
    BY KeptByEveryStep DEF Kept
  <1> QED BY <1>1, AlwaysTypeInv, PTL DEF Spec, SettledStaysFrozen

-----------------------------------------------------------------------------
(***************************************************************************)
(* One request at a time, none interrupted, and no project initialised     *)
(* over REST, which leaves the pointers and the registry empty.  Processes *)
(* may start at any moment and run their migration.                        *)
(***************************************************************************)
SerialUse ==
    /\ \A c, d \in Clients : c = d
    /\ Faults \subseteq {"boot"}
    /\ "web_init" \notin Tools

KnownOrNone == Registered \cup {None}
KnownPointers(cfg) == cfg.current \in KnownOrNone /\ cfg.draft \in KnownOrNone

\* What init_project puts in the config row, before the row is registered.
Opening(cfg) ==
    /\ cfg.init
    /\ \/ Registered = {} /\ cfg.current = INITIAL_VERSION /\ cfg.draft = INITIAL_VERSION
       \/ /\ INITIAL_VERSION \in Registered
          /\ cfg.current \in Registered /\ cfg.draft \in Registered

(***************************************************************************)
(* What a request half-way relies on: it is alone, so what it read of the  *)
(* registry and the config row still holds at its later steps.             *)
(***************************************************************************)
Initialising(c) == req[c].pc \in {"inRow", "inRegister"}

RequestFits(c) ==
    /\ req[c].pc = "inWrite" => Opening(req[c].cfg)
    /\ Initialising(c) => Opening(req[c].cfg) /\ config = req[c].cfg
    /\ req[c].pc = "inRegister" => Registered \subseteq {INITIAL_VERSION} /\ Drafts = Registered
    /\ req[c].pc \in {"cvList", "cvCopy", "cvRegister", "cvPoint", "lkPoint", "ulPoint", "saPoint"}
          => req[c].cfg.init /\ KnownPointers(req[c].cfg)
    /\ req[c].pc \in {"cvList", "cvCopy", "cvRegister", "cvDrop", "cvPoint",
                      "lkPoint", "ulPoint", "saPoint"}
          => config.init
    /\ req[c].pc \in {"cvCopy", "cvRegister"} => Drafts = {}
    /\ req[c].pc \in {"cvCopy", "cvRegister", "cvDrop"} => req[c].to \notin Registered
    /\ req[c].pc = "cvPoint" => req[c].to \in Registered
    /\ req[c].pc \in {"lkWrite", "lkConfig", "lkPoint", "ulList", "ulWrite", "ulConfig", "ulPoint"}
          => req[c].ver \in Registered
    /\ req[c].pc = "ulWrite" => Drafts = {}
    /\ req[c].pc \in {"saConfig", "saPoint"}
          => req[c].from \in KnownOrNone /\ req[c].to \in KnownOrNone

ConfigFits ==
    /\ ~config.init => Registered = {} /\ config = NoConfig
    /\ config.init /\ (\A c \in Clients : ~Initialising(c))
          => INITIAL_VERSION \in Registered /\ KnownPointers(config)

SerialInv == OneDraft /\ ConfigFits /\ \A c \in Clients : RequestFits(c)

-----------------------------------------------------------------------------
Delicate == {"inWrite", "inRow", "inRegister", "cvList", "cvCopy", "cvRegister", "cvDrop",
             "cvPoint", "lkWrite", "lkConfig", "lkPoint", "ulList", "ulWrite", "ulConfig",
             "ulPoint", "saConfig", "saPoint"}

\* With one client the invariant of the next state is about that client alone.
LEMMA SerialByOneClient ==
  ASSUME SerialUse, NEW c \in Clients, OneDraft', ConfigFits', RequestFits(c)'
  PROVE  SerialInv'
  <1>1. \A d \in Clients : d = c
    BY DEF SerialUse
  <1> QED BY <1>1 DEF SerialInv

LEMMA FitsAtDelicateStepsOnly ==
  ASSUME NEW c \in Clients, req'[c].pc \notin Delicate
  PROVE  RequestFits(c)' /\ ~Initialising(c)'
  BY DEF RequestFits, Initialising, Delicate

\* A step that leaves the registry and the config row alone.
LEMMA SerialByOtherTables ==
  ASSUME SerialUse, SerialInv, NEW c \in Clients, ~Initialising(c), ~Initialising(c)',
         registry' = registry, config' = config, RequestFits(c)'
  PROVE  SerialInv'
  <1>1. \A d \in Clients : d = c
    BY DEF SerialUse
  <1>2. Registered' = Registered /\ Drafts' = Drafts
    BY DEF Registered, Drafts
  <1>3. OneDraft'
    BY <1>2 DEF SerialInv, OneDraft
  <1>4. ConfigFits'
    BY <1>1, <1>2 DEF SerialInv, ConfigFits, KnownPointers, KnownOrNone
  <1> QED BY <1>3, <1>4, SerialByOneClient

\* A step whose client ends, or goes where nothing is asked of it.
LEMMA SerialByQuietStep ==
  ASSUME SerialUse, SerialInv, NEW c \in Clients, ~Initialising(c),
         registry' = registry, config' = config, req'[c].pc \notin Delicate
  PROVE  SerialInv'
  BY FitsAtDelicateStepsOnly, SerialByOtherTables

LEMMA EndsQuietly ==
  ASSUME TypeInv, NEW c \in Clients, Ends(c)
  PROVE  req'[c] = Idle /\ req'[c].pc \notin Delicate
  BY DEF TypeInv, Ends, Becomes, Idle, Delicate

LEMMA SerialByEnding ==
  ASSUME TypeInv, SerialUse, SerialInv, NEW c \in Clients, ~Initialising(c), Ends(c),
         registry' = registry, config' = config
  PROVE  SerialInv'
  BY EndsQuietly, SerialByQuietStep

LEMMA SerialByBecoming ==
  ASSUME TypeInv, SerialUse, SerialInv, NEW c \in Clients, ~Initialising(c),
         NEW r, Becomes(c, r), r.pc \notin Delicate,
         registry' = registry, config' = config
  PROVE  SerialInv'
  BY BecomesMoves, SerialByQuietStep

LEMMA StartsIdle ==
  ASSUME NEW c, NEW tool, Starts(c, tool)
  PROVE  req[c].pc = "idle"
  BY DEF Starts, Idle

LEMMA SerialByWriteSteps ==
  ASSUME TypeInv, SerialUse, SerialInv, NEW c \in Clients, WriteSteps(c)
  PROVE  SerialInv'
  <1> USE DEF At
  <1>r. req[c] \in Request /\ Addressed(req[c])
    BY DEF TypeInv, SoundRequest
  <1>i. ~Initialising(c)
    <2>1. BindConfig(c) => req[c].pc = "idle"
      BY StartsIdle DEF BindConfig
    <2>2. CASE BindConfig(c)
      BY <2>1, <2>2 DEF Initialising
    <2>3. CASE ~BindConfig(c)
      BY <2>3 DEF WriteSteps, BindKnown, ReadRow, ListRows, AllocateId, ReadExisting, IsLocked,
                  AssertWritable, Upsert, Initialising
    <2> QED BY <2>2, <2>3
  <1>t. registry' = registry /\ config' = config
    <2>1. CASE TablesSame
      BY <2>1 DEF TablesSame
    <2>2. CASE Upsert(c)
      BY <2>2 DEF Upsert
    <2> QED BY <2>1, <2>2 DEF WriteSteps, BindConfig, BindKnown, ReadRow, ListRows, AllocateId,
               ReadExisting, IsLocked, AssertWritable
  <1>1. CASE BindConfig(c)
    <2>1. PICK tool \in RowTools, explicit \in Pointer, progress \in BOOLEAN,
               id \in Ids \cup {None} :
             /\ Starts(c, tool)
             /\ config.init
             /\ (tool = "create") <=> (id = None)
             /\ progress => tool = "edit" /\ id \notin PureSpec
             /\ Becomes(c, [Idle EXCEPT !.tool = tool, !.pc = "known", !.id = id,
                               !.ver = BindTarget(explicit, ~progress, config),
                               !.implicit = (explicit = None /\ ~progress),
                               !.progress = progress])
             /\ TablesSame
      BY <1>1, Zenon DEF BindConfig
    <2> DEFINE r == [Idle EXCEPT !.tool = tool, !.pc = "known", !.id = id,
                        !.ver = BindTarget(explicit, ~progress, config),
                        !.implicit = (explicit = None /\ ~progress),
                        !.progress = progress]
    <2>2. r.pc \notin Delicate
      BY DEF Idle, Delicate
    <2> HIDE DEF r
    <2>3. Becomes(c, r)
      BY <2>1 DEF r
    <2> QED BY <1>i, <1>t, <2>2, <2>3, SerialByBecoming
  <1>2. CASE BindKnown(c)
    <2> DEFINE r == [req[c] EXCEPT !.pc = FirstStep(req[c].tool), !.implicit = FALSE]
    <2>1. req[c].tool \in RowTools
      BY <1>2, <1>r DEF BindKnown, Addressed
    <2>2. FirstStep(req[c].tool) \in {"read", "list", "existing"}
      BY <2>1 DEF FirstStep, RowTools
    <2>3. r.pc \notin Delicate
      BY <1>r, <2>2 DEF Request, Delicate
    <2>4. Ends(c) \/ Becomes(c, r)
      BY <1>2 DEF BindKnown
    <2> QED BY <1>i, <1>t, <2>3, <2>4, SerialByEnding, SerialByBecoming
  <1>3. CASE ReadRow(c)
    <2>1. Ends(c) \/ \E doc \in Row :
             Becomes(c, [req[c] EXCEPT !.pc = "guard", !.doc = doc, !.progress = FALSE])
      BY <1>3 DEF ReadRow
    <2>2. ASSUME NEW doc \in Row
          PROVE  [req[c] EXCEPT !.pc = "guard", !.doc = doc, !.progress = FALSE].pc
                    \notin Delicate
      BY <1>r DEF Request, Delicate
    <2> QED BY <1>i, <1>t, <2>1, <2>2, SerialByEnding, SerialByBecoming
  <1>4. CASE ListRows(c)
    <2> DEFINE live == {id \in Ids : rows[req[c].ver][id].st = "live"}
               listed == [req[c] EXCEPT !.pc = "ids", !.live = live]
               named == [req[c] EXCEPT !.pc = "guard", !.doc = NewRow]
    <2>1. listed.pc \notin Delicate /\ named.pc \notin Delicate
      BY <1>r DEF Request, Delicate
    <2>2. Becomes(c, listed) \/ Ends(c) \/ Becomes(c, named)
      BY <1>4 DEF ListRows
    <2> QED BY <1>i, <1>t, <2>1, <2>2, SerialByEnding, SerialByBecoming
  <1>5. CASE AllocateId(c)
    <2> DEFINE r == [req[c] EXCEPT !.pc = "guard", !.id = NextId(IdsAcrossVersions),
                                   !.doc = NewRow, !.live = {}]
    <2>1. r.pc \notin Delicate
      BY <1>r DEF Request, Delicate
    <2>2. Ends(c) \/ Becomes(c, r)
      BY <1>5 DEF AllocateId
    <2> QED BY <1>i, <1>t, <2>1, <2>2, SerialByEnding, SerialByBecoming
  <1>6. CASE ReadExisting(c)
    <2> DEFINE row == rows[req[c].ver][req[c].id]
               r == [req[c] EXCEPT !.pc = "guard", !.doc = [row EXCEPT !.st = "removed"]]
    <2>1. r.pc \notin Delicate
      BY <1>r DEF Request, Delicate
    <2>2. Ends(c) \/ Becomes(c, r)
      BY <1>6 DEF ReadExisting
    <2> QED BY <1>i, <1>t, <2>1, <2>2, SerialByEnding, SerialByBecoming
  <1>7. CASE IsLocked(c)
    <2>1. Becomes(c, [req[c] EXCEPT !.pc = "raw"]) \/ Becomes(c, [req[c] EXCEPT !.pc = "upsert"])
      BY <1>7 DEF IsLocked, Goto
    <2>2. /\ [req[c] EXCEPT !.pc = "raw"].pc \notin Delicate
          /\ [req[c] EXCEPT !.pc = "upsert"].pc \notin Delicate
      BY <1>r DEF Request, Delicate
    <2> QED BY <1>i, <1>t, <2>1, <2>2, SerialByBecoming
  <1>8. CASE AssertWritable(c)
    <2> DEFINE r == [req[c] EXCEPT !.pc = "upsert", !.compared = TRUE]
    <2>1. r.pc \notin Delicate
      BY <1>r DEF Request, Delicate
    <2>2. Ends(c) \/ Becomes(c, r)
      BY <1>8 DEF AssertWritable
    <2> QED BY <1>i, <1>t, <2>1, <2>2, SerialByEnding, SerialByBecoming
  <1>9. CASE Upsert(c)
    BY <1>i, <1>t, <1>9, SerialByEnding DEF Upsert
  <1> QED BY <1>1, <1>2, <1>3, <1>4, <1>5, <1>6, <1>7, <1>8, <1>9 DEF WriteSteps

\* Outside the initialisation a configured project has 1.0.0 and known pointers.
LEMMA OpenConfig ==
  ASSUME SerialUse, SerialInv, NEW c \in Clients, ~Initialising(c), config.init
  PROVE  INITIAL_VERSION \in Registered /\ KnownPointers(config)
  <1>1. \A d \in Clients : d = c
    BY DEF SerialUse
  <1> QED BY <1>1 DEF SerialInv, ConfigFits

LEMMA StatusWritten ==
  ASSUME TypeInv, NEW v \in Versions, NEW to \in {"draft", "locked"},
         registry' = [registry EXCEPT ![v] = to]
  PROVE  /\ Registered' = Registered \cup {v}
         /\ to = "draft" => Drafts' = Drafts \cup {v}
         /\ to = "locked" => Drafts' = Drafts \ {v}
  BY DEF TypeInv, Registered, Drafts

LEMMA SerialByBranchSteps ==
  ASSUME TypeInv, SerialUse, SerialInv, NEW c \in Clients,
         CvConfig(c) \/ CvList(c) \/ CvCopy(c) \/ CvRegister(c) \/ CvPoint(c) \/ CvDrop(c)
  PROVE  SerialInv'
  <1> USE DEF At
  <1>r. req[c] \in Request /\ Addressed(req[c]) /\ RequestFits(c)
    BY DEF TypeInv, SoundRequest, SerialInv
  <1>i. ~Initialising(c)
    <2>1. CvConfig(c) => req[c].pc = "idle"
      BY StartsIdle DEF CvConfig
    <2> QED BY <2>1 DEF CvList, CvCopy, CvRegister, CvPoint, CvDrop, Initialising
  <1>1. CASE CvConfig(c)
    <2> DEFINE r == [Idle EXCEPT !.tool = "create_version", !.pc = "cvList", !.cfg = config]
    <2>1. r.pc = "cvList" /\ r.cfg = config
      BY DEF Idle
    <2>2. req'[c] = r /\ config.init /\ registry' = registry /\ config' = config
      BY <1>1, BecomesMoves DEF CvConfig, TablesSame
    <2>3. KnownPointers(config)
      BY <1>i, <2>2, OpenConfig
    <2> HIDE DEF r
    <2>4. RequestFits(c)' /\ ~Initialising(c)'
      BY <2>1, <2>2, <2>3 DEF RequestFits, Initialising, KnownPointers, KnownOrNone, Registered
    <2> QED BY <1>i, <2>2, <2>4, SerialByOtherTables
  <1>2. CASE CvList(c)
    <2> DEFINE from(arg) == FirstOf(arg, FirstOf(FirstOf(req[c].cfg.current, req[c].cfg.draft),
                                                 INITIAL_VERSION))
               r(arg, to) == [req[c] EXCEPT !.pc = "cvCopy", !.from = from(arg), !.to = to]
    <2>1. registry' = registry /\ config' = config
      BY <1>2 DEF CvList, TablesSame
    <2>2. \/ Ends(c)
          \/ Drafts = {} /\ \E arg \in Pointer, to \in Versions \ Registered : Becomes(c, r(arg, to))
      BY <1>2 DEF CvList, MayBranch
    <2>3. ASSUME Drafts = {}, NEW arg \in Pointer, NEW to \in Versions \ Registered,
                 Becomes(c, r(arg, to))
          PROVE  SerialInv'
      <3>1. r(arg, to).pc = "cvCopy" /\ r(arg, to).to = to /\ r(arg, to).cfg = req[c].cfg
        BY <1>r DEF Request
      <3> HIDE DEF r
      <3>2. req'[c] = r(arg, to)
        BY <2>3, BecomesMoves
      <3>3. RequestFits(c)' /\ ~Initialising(c)'
        BY <1>r, <1>2, <2>1, <2>3, <3>1, <3>2
           DEF CvList, RequestFits, Initialising, KnownPointers, KnownOrNone, Registered, Drafts
      <3> QED BY <1>i, <2>1, <3>3, SerialByOtherTables
    <2> QED BY <1>i, <2>1, <2>2, <2>3, SerialByEnding
  <1>3. CASE CvCopy(c)
    <2>1. PICK step \in {"cvDrop", "cvRegister"} : Goto(c, step)
      BY <1>3 DEF CvCopy
    <2>2. req'[c] = [req[c] EXCEPT !.pc = step] /\ req'[c].pc = step
      BY <2>1, GotoMoves
    <2>3. req'[c].to = req[c].to /\ req'[c].cfg = req[c].cfg
      BY <1>r, <2>2 DEF Request
    <2>4. registry' = registry /\ config' = config
      BY <1>3 DEF CvCopy
    <2>5. RequestFits(c)' /\ ~Initialising(c)'
      BY <1>r, <1>3, <2>2, <2>3, <2>4
         DEF CvCopy, RequestFits, Initialising, KnownPointers, KnownOrNone, Registered, Drafts
    <2> QED BY <1>i, <2>4, <2>5, SerialByOtherTables
  <1>4. CASE CvRegister(c)
    <2>1. /\ req[c].to \in Versions
          /\ registry' = [registry EXCEPT ![req[c].to] = "draft"] /\ config' = config
      BY <1>r, <1>4 DEF CvRegister, Addressed
    <2>2. Registered' = Registered \cup {req[c].to} /\ Drafts' = {req[c].to}
      BY <1>r, <1>4, <2>1, StatusWritten DEF CvRegister, RequestFits
    <2>3. config.init /\ INITIAL_VERSION \in Registered /\ KnownPointers(config)
      BY <1>r, <1>4, <1>i, OpenConfig DEF CvRegister, RequestFits
    <2>4. Ends(c) \/ Goto(c, "cvPoint")
      BY <1>4 DEF CvRegister
    <2>5. RequestFits(c)'
      <3>1. CASE Ends(c)
        BY <3>1, EndsQuietly, FitsAtDelicateStepsOnly
      <3>2. CASE Goto(c, "cvPoint")
        <4>1. req'[c] = [req[c] EXCEPT !.pc = "cvPoint"] /\ req'[c].pc = "cvPoint"
          BY <3>2, GotoMoves
        <4>2. req'[c].to = req[c].to /\ req'[c].cfg = req[c].cfg
          BY <1>r, <4>1 DEF Request
        <4> QED BY <1>r, <1>4, <2>1, <2>2, <2>3, <4>1, <4>2
                DEF CvRegister, RequestFits, Initialising, KnownPointers, KnownOrNone
      <3> QED BY <2>4, <3>1, <3>2
    <2>6. ConfigFits'
      BY <2>1, <2>2, <2>3 DEF ConfigFits, KnownPointers, KnownOrNone
    <2>7. OneDraft'
      BY <2>2 DEF OneDraft
    <2> QED BY <2>5, <2>6, <2>7, SerialByOneClient
  <1>5. CASE CvPoint(c)
    <2>1. /\ registry' = registry /\ config' = [req[c].cfg EXCEPT !.draft = req[c].to]
          /\ req'[c].pc \notin Delicate
      BY <1>5, EndsQuietly DEF CvPoint
    <2>2. /\ config'.init /\ config'.draft = req[c].to /\ config'.current = req[c].cfg.current
      BY <1>r, <1>5, <2>1 DEF CvPoint, RequestFits, Request, ConfigRow
    <2>3. INITIAL_VERSION \in Registered
      BY <1>r, <1>5, <1>i, OpenConfig DEF CvPoint, RequestFits
    <2>4. Registered' = Registered /\ Drafts' = Drafts
      BY <2>1 DEF Registered, Drafts
    <2>5. ConfigFits'
      BY <1>r, <1>5, <2>2, <2>3, <2>4 DEF CvPoint, RequestFits, ConfigFits, KnownPointers, KnownOrNone
    <2>6. OneDraft'
      BY <2>4 DEF SerialInv, OneDraft
    <2> QED BY <2>1, <2>5, <2>6, FitsAtDelicateStepsOnly, SerialByOneClient
  <1>6. CASE CvDrop(c)
    <2>1. registry' = registry
      BY <1>r, <1>6 DEF CvDrop, RequestFits, Registered, TypeInv, Addressed
    <2> QED BY <1>6, <1>i, <2>1, SerialByEnding DEF CvDrop
  <1> QED BY <1>1, <1>2, <1>3, <1>4, <1>5, <1>6

\* A step that ends by writing the pointers: known ones, to an open project.
LEMMA SerialByPointing ==
  ASSUME TypeInv, SerialUse, SerialInv, NEW c \in Clients, ~Initialising(c), Ends(c),
         registry' = registry, config.init, config'.init,
         config'.current \in KnownOrNone, config'.draft \in KnownOrNone
  PROVE  SerialInv'
  <1>1. req'[c].pc \notin Delicate
    BY EndsQuietly
  <1>2. Registered' = Registered /\ Drafts' = Drafts
    BY DEF Registered, Drafts
  <1>3. ConfigFits'
    BY <1>2, OpenConfig DEF ConfigFits, KnownPointers, KnownOrNone
  <1>4. OneDraft'
    BY <1>2 DEF SerialInv, OneDraft
  <1> QED BY <1>1, <1>3, <1>4, FitsAtDelicateStepsOnly, SerialByOneClient

\* lock_version and unlock_version write the status of a registered version.
LEMMA SerialByStatus ==
  ASSUME TypeInv, SerialUse, SerialInv, NEW c \in Clients, ~Initialising(c), ~Initialising(c)',
         NEW v \in Registered, NEW to \in {"draft", "locked"}, to = "draft" => Drafts = {},
         registry' = [registry EXCEPT ![v] = to], config' = config, RequestFits(c)'
  PROVE  SerialInv'
  <1>1. Registered' = Registered /\ Drafts' \subseteq (IF to = "draft" THEN {v} ELSE Drafts)
    BY StatusWritten DEF Registered
  <1>2. OneDraft'
    BY <1>1 DEF SerialInv, OneDraft
  <1>3. \A d \in Clients : d = c
    BY DEF SerialUse
  <1>4. ConfigFits'
    BY <1>1, <1>3 DEF SerialInv, ConfigFits, KnownPointers, KnownOrNone
  <1> QED BY <1>2, <1>4, SerialByOneClient

LEMMA SerialByLockSteps ==
  ASSUME TypeInv, SerialUse, SerialInv, NEW c \in Clients,
         LkRow(c) \/ LkWrite(c) \/ LkConfig(c) \/ LkPoint(c)
  PROVE  SerialInv'
  <1> USE DEF At
  <1>r. req[c] \in Request /\ RequestFits(c)
    BY DEF TypeInv, SoundRequest, SerialInv
  <1>i. ~Initialising(c)
    <2>1. LkRow(c) => req[c].pc = "idle"
      BY StartsIdle DEF LkRow
    <2> QED BY <2>1 DEF LkWrite, LkConfig, LkPoint, Initialising
  <1>1. CASE LkRow(c)
    <2>1. PICK v \in Drafts : Becomes(c, [Idle EXCEPT !.tool = "lock_version", !.pc = "lkWrite",
                                                     !.ver = v, !.par = parent[v]])
      BY <1>1 DEF LkRow
    <2>2. registry' = registry /\ config' = config
      BY <1>1 DEF LkRow, TablesSame
    <2> DEFINE r == [Idle EXCEPT !.tool = "lock_version", !.pc = "lkWrite",
                                 !.ver = v, !.par = parent[v]]
    <2>r. r.pc = "lkWrite" /\ r.ver = v
      BY DEF Idle
    <2> HIDE DEF r
    <2>b. Becomes(c, r)
      BY <2>1 DEF r
    <2>3. req'[c].pc = "lkWrite" /\ req'[c].ver = v
      BY <2>r, <2>b, BecomesMoves
    <2>4. RequestFits(c)' /\ ~Initialising(c)'
      BY <2>2, <2>3 DEF RequestFits, Initialising, Registered, Drafts
    <2> QED BY <1>i, <2>2, <2>4, SerialByOtherTables
  <1>2. CASE LkWrite(c)
    <2>1. /\ req[c].ver \in Registered /\ config' = config
          /\ registry' = [registry EXCEPT ![req[c].ver] = "locked"]
      BY <1>2, <1>r DEF LkWrite, RequestFits, WriteStatus
    <2>2. req'[c] = [req[c] EXCEPT !.pc = "lkConfig"] /\ req'[c].pc = "lkConfig"
      BY <1>2, GotoMoves DEF LkWrite
    <2>3. req'[c].ver = req[c].ver
      BY <1>r, <2>2 DEF Request
    <2>4. Registered' = Registered
      BY <2>1, StatusWritten DEF Registered
    <2>5. RequestFits(c)' /\ ~Initialising(c)'
      BY <2>1, <2>2, <2>3, <2>4 DEF RequestFits, Initialising
    <2> QED BY <1>i, <2>1, <2>5, SerialByStatus
  <1>3. CASE LkConfig(c)
    <2> DEFINE r == [req[c] EXCEPT !.pc = "lkPoint", !.cfg = config]
    <2>1. registry' = registry /\ config' = config
      BY <1>3 DEF LkConfig, TablesSame
    <2>2. Ends(c) \/ (config.init /\ Becomes(c, r))
      BY <1>3 DEF LkConfig
    <2>3. ASSUME config.init, Becomes(c, r)  PROVE SerialInv'
      <3>1. r.pc = "lkPoint" /\ r.ver = req[c].ver /\ r.cfg = config
        BY <1>r DEF Request
      <3> HIDE DEF r
      <3>2. req'[c] = r
        BY <2>3, BecomesMoves
      <3>3. RequestFits(c)' /\ ~Initialising(c)'
        BY <1>3, <1>r, <1>i, <2>1, <2>3, <3>1, <3>2, OpenConfig
           DEF LkConfig, RequestFits, Initialising, KnownPointers, KnownOrNone, Registered
      <3> QED BY <1>i, <2>1, <3>3, SerialByOtherTables
    <2> QED BY <1>i, <2>1, <2>2, <2>3, SerialByEnding
  <1>4. CASE LkPoint(c)
    <2>1. /\ config'.init /\ config'.current \in KnownOrNone /\ config'.draft \in KnownOrNone
      BY <1>4, <1>r DEF LkPoint, RequestFits, KnownPointers, KnownOrNone, Request, ConfigRow
    <2>2. config.init
      BY <1>4, <1>r DEF LkPoint, RequestFits
    <2> QED BY <1>4, <1>i, <2>1, <2>2, SerialByPointing DEF LkPoint
  <1> QED BY <1>1, <1>2, <1>3, <1>4

LEMMA SerialByUnlockSteps ==
  ASSUME TypeInv, SerialUse, SerialInv, NEW c \in Clients,
         UlRow(c) \/ UlList(c) \/ UlWrite(c) \/ UlConfig(c) \/ UlPoint(c)
  PROVE  SerialInv'
  <1> USE DEF At
  <1>r. req[c] \in Request /\ RequestFits(c)
    BY DEF TypeInv, SoundRequest, SerialInv
  <1>i. ~Initialising(c)
    <2>1. UlRow(c) => req[c].pc = "idle"
      BY StartsIdle DEF UlRow
    <2> QED BY <2>1 DEF UlList, UlWrite, UlConfig, UlPoint, Initialising
  <1>1. CASE UlRow(c)
    <2>1. PICK v \in Versions :
             /\ registry[v] = "locked"
             /\ Becomes(c, [Idle EXCEPT !.tool = "unlock_version", !.pc = "ulList",
                                        !.ver = v, !.par = parent[v]])
      BY <1>1 DEF UlRow
    <2>2. registry' = registry /\ config' = config
      BY <1>1 DEF UlRow, TablesSame
    <2> DEFINE r == [Idle EXCEPT !.tool = "unlock_version", !.pc = "ulList",
                                 !.ver = v, !.par = parent[v]]
    <2>r. r.pc = "ulList" /\ r.ver = v
      BY DEF Idle
    <2> HIDE DEF r
    <2>b. Becomes(c, r)
      BY <2>1 DEF r
    <2>3. req'[c].pc = "ulList" /\ req'[c].ver = v
      BY <2>r, <2>b, BecomesMoves
    <2>4. RequestFits(c)' /\ ~Initialising(c)'
      BY <2>1, <2>2, <2>3 DEF RequestFits, Initialising, Registered
    <2> QED BY <1>i, <2>2, <2>4, SerialByOtherTables
  <1>2. CASE UlList(c)
    <2>1. registry' = registry /\ config' = config
      BY <1>2 DEF UlList, TablesSame
    <2>2. Ends(c) \/ (Drafts = {} /\ Goto(c, "ulWrite"))
      BY <1>2 DEF UlList
    <2>3. ASSUME Drafts = {}, Goto(c, "ulWrite")  PROVE SerialInv'
      <3>1. req'[c] = [req[c] EXCEPT !.pc = "ulWrite"] /\ req'[c].pc = "ulWrite"
        BY <2>3, GotoMoves
      <3>2. req'[c].ver = req[c].ver
        BY <1>r, <3>1 DEF Request
      <3>3. RequestFits(c)' /\ ~Initialising(c)'
        BY <1>2, <1>r, <2>1, <2>3, <3>1, <3>2
           DEF UlList, RequestFits, Initialising, Registered, Drafts
      <3> QED BY <1>i, <2>1, <3>3, SerialByOtherTables
    <2> QED BY <1>i, <2>1, <2>2, <2>3, SerialByEnding
  <1>3. CASE UlWrite(c)
    <2>1. /\ req[c].ver \in Registered /\ Drafts = {} /\ config' = config
          /\ registry' = [registry EXCEPT ![req[c].ver] = "draft"]
      BY <1>3, <1>r DEF UlWrite, RequestFits, WriteStatus
    <2>2. req'[c] = [req[c] EXCEPT !.pc = "ulConfig"] /\ req'[c].pc = "ulConfig"
      BY <1>3, GotoMoves DEF UlWrite
    <2>3. req'[c].ver = req[c].ver
      BY <1>r, <2>2 DEF Request
    <2>4. Registered' = Registered
      BY <2>1, StatusWritten DEF Registered
    <2>5. RequestFits(c)' /\ ~Initialising(c)'
      BY <2>1, <2>2, <2>3, <2>4 DEF RequestFits, Initialising
    <2> QED BY <1>i, <2>1, <2>5, SerialByStatus
  <1>4. CASE UlConfig(c)
    <2> DEFINE r == [req[c] EXCEPT !.pc = "ulPoint", !.cfg = config]
    <2>1. registry' = registry /\ config' = config
      BY <1>4 DEF UlConfig, TablesSame
    <2>2. Ends(c) \/ (config.init /\ Becomes(c, r))
      BY <1>4 DEF UlConfig
    <2>3. ASSUME config.init, Becomes(c, r)  PROVE SerialInv'
      <3>1. r.pc = "ulPoint" /\ r.ver = req[c].ver /\ r.cfg = config
        BY <1>r DEF Request
      <3> HIDE DEF r
      <3>2. req'[c] = r
        BY <2>3, BecomesMoves
      <3>3. RequestFits(c)' /\ ~Initialising(c)'
        BY <1>4, <1>r, <1>i, <2>1, <2>3, <3>1, <3>2, OpenConfig
           DEF UlConfig, RequestFits, Initialising, KnownPointers, KnownOrNone, Registered
      <3> QED BY <1>i, <2>1, <3>3, SerialByOtherTables
    <2> QED BY <1>i, <2>1, <2>2, <2>3, SerialByEnding
  <1>5. CASE UlPoint(c)
    <2>1. /\ config'.init /\ config'.current \in KnownOrNone /\ config'.draft \in KnownOrNone
      BY <1>5, <1>r DEF UlPoint, RequestFits, KnownPointers, KnownOrNone, Request, ConfigRow
    <2>2. config.init
      BY <1>5, <1>r DEF UlPoint, RequestFits
    <2> QED BY <1>5, <1>i, <2>1, <2>2, SerialByPointing DEF UlPoint
  <1> QED BY <1>1, <1>2, <1>3, <1>4, <1>5

LEMMA SerialByPointerSteps ==
  ASSUME TypeInv, SerialUse, SerialInv, NEW c \in Clients,
         SaList(c) \/ SaConfig(c) \/ SaPoint(c)
  PROVE  SerialInv'
  <1> USE DEF At
  <1>r. req[c] \in Request /\ RequestFits(c)
    BY DEF TypeInv, SoundRequest, SerialInv
  <1>i. ~Initialising(c)
    <2>1. SaList(c) => req[c].pc = "idle"
      BY StartsIdle DEF SaList
    <2> QED BY <2>1 DEF SaConfig, SaPoint, Initialising
  <1>1. CASE SaList(c)
    <2>1. PICK current, draft \in Registered \cup {None} :
             Becomes(c, [Idle EXCEPT !.tool = "set_active_version", !.pc = "saConfig",
                                     !.from = current, !.to = draft])
      BY <1>1 DEF SaList
    <2>2. registry' = registry /\ config' = config
      BY <1>1 DEF SaList, TablesSame
    <2> DEFINE r == [Idle EXCEPT !.tool = "set_active_version", !.pc = "saConfig",
                                 !.from = current, !.to = draft]
    <2>r. r.pc = "saConfig" /\ r.from = current /\ r.to = draft
      BY DEF Idle
    <2> HIDE DEF r
    <2>b. Becomes(c, r)
      BY <2>1 DEF r
    <2>3. req'[c].pc = "saConfig" /\ req'[c].from = current /\ req'[c].to = draft
      BY <2>r, <2>b, BecomesMoves
    <2>4. RequestFits(c)' /\ ~Initialising(c)'
      BY <2>1, <2>2, <2>3 DEF RequestFits, Initialising, KnownOrNone, Registered
    <2> QED BY <1>i, <2>2, <2>4, SerialByOtherTables
  <1>2. CASE SaConfig(c)
    <2> DEFINE r == [req[c] EXCEPT !.pc = "saPoint", !.cfg = config]
    <2>1. registry' = registry /\ config' = config
      BY <1>2 DEF SaConfig, TablesSame
    <2>2. Ends(c) \/ (config.init /\ Becomes(c, r))
      BY <1>2 DEF SaConfig
    <2>3. ASSUME config.init, Becomes(c, r)  PROVE SerialInv'
      <3>1. r.pc = "saPoint" /\ r.from = req[c].from /\ r.to = req[c].to /\ r.cfg = config
        BY <1>r DEF Request
      <3> HIDE DEF r
      <3>2. req'[c] = r
        BY <2>3, BecomesMoves
      <3>3. RequestFits(c)' /\ ~Initialising(c)'
        BY <1>2, <1>r, <1>i, <2>1, <2>3, <3>1, <3>2, OpenConfig
           DEF SaConfig, RequestFits, Initialising, KnownPointers, KnownOrNone, Registered
      <3> QED BY <1>i, <2>1, <3>3, SerialByOtherTables
    <2> QED BY <1>i, <2>1, <2>2, <2>3, SerialByEnding
  <1>3. CASE SaPoint(c)
    <2>1. /\ config'.init /\ config'.current \in KnownOrNone /\ config'.draft \in KnownOrNone
      BY <1>3, <1>r
         DEF SaPoint, RequestFits, KnownPointers, KnownOrNone, Request, ConfigRow, FirstOf
    <2>2. config.init
      BY <1>3, <1>r DEF SaPoint, RequestFits
    <2> QED BY <1>3, <1>i, <2>1, <2>2, SerialByPointing DEF SaPoint
  <1> QED BY <1>1, <1>2, <1>3

LEMMA SerialByInitSteps ==
  ASSUME TypeInv, SerialUse, SerialInv, NEW c \in Clients, InitSteps(c)
  PROVE  SerialInv'
  <1> USE DEF At
  <1>r. req[c] \in Request /\ RequestFits(c)
    BY DEF TypeInv, SoundRequest, SerialInv
  <1>s. \A d \in Clients : d = c
    BY DEF SerialUse
  <1>1. CASE InRead(c)
    <2> DEFINE cfg == [init |-> TRUE,
                       current |-> FirstOf(config.current, INITIAL_VERSION),
                       draft |-> FirstOf(config.draft, INITIAL_VERSION)]
               r == [Idle EXCEPT !.tool = "init_project", !.pc = "inWrite", !.cfg = cfg]
    <2>1. req[c].pc = "idle"
      BY <1>1, StartsIdle DEF InRead
    <2>2. ~Initialising(c)
      BY <2>1 DEF Initialising
    <2>4. Opening(cfg)
      <3>1. CASE config.init
        BY <2>2, <3>1, OpenConfig DEF Opening, KnownPointers, KnownOrNone, FirstOf
      <3>2. CASE ~config.init
        BY <3>2 DEF SerialInv, ConfigFits, Opening, FirstOf, NoConfig
      <3> QED BY <3>1, <3>2
    <2> HIDE DEF cfg
    <2>5. r.pc = "inWrite" /\ r.cfg = cfg
      BY DEF Idle
    <2>6. Becomes(c, r)
      BY <1>1 DEF InRead, cfg
    <2> HIDE DEF r
    <2>7. req'[c] = r /\ registry' = registry /\ config' = config
      BY <1>1, <2>6, BecomesMoves DEF InRead, TablesSame
    <2>8. RequestFits(c)' /\ ~Initialising(c)'
      BY <2>4, <2>5, <2>7 DEF RequestFits, Initialising, Opening, Registered
    <2> QED BY <2>2, <2>7, <2>8, SerialByOtherTables
  <1>2. CASE InWrite(c)
    <2>1. registry' = registry /\ config' = req[c].cfg /\ Opening(req[c].cfg)
      BY <1>2, <1>r DEF InWrite, RequestFits
    <2>2. req'[c] = [req[c] EXCEPT !.pc = "inRow"] /\ req'[c].pc = "inRow"
      BY <1>2, GotoMoves DEF InWrite
    <2>3. req'[c].cfg = req[c].cfg
      BY <1>r, <2>2 DEF Request
    <2>4. Registered' = Registered /\ Drafts' = Drafts
      BY <2>1 DEF Registered, Drafts
    <2>5. RequestFits(c)'
      BY <2>1, <2>2, <2>3, <2>4 DEF RequestFits, Initialising, Opening
    <2>6. ConfigFits'
      BY <2>1, <2>2 DEF ConfigFits, Opening, Initialising
    <2>7. OneDraft'
      BY <2>4 DEF SerialInv, OneDraft
    <2> QED BY <2>5, <2>6, <2>7, SerialByOneClient
  <1>3. CASE InRow(c)
    <2>1. registry' = registry /\ config' = config /\ config = req[c].cfg /\ Opening(config)
      BY <1>3, <1>r DEF InRow, TablesSame, RequestFits, Initialising
    <2>2. Registered' = Registered /\ Drafts' = Drafts
      BY <2>1 DEF Registered, Drafts
    <2>3. OneDraft'
      BY <2>2 DEF SerialInv, OneDraft
    <2>4. config.draft \in Versions
      BY <1>3, <2>1 DEF InRow, TypeInv, SoundRequest, Addressed
    <2>5. CASE registry[config.draft] # "absent"
      <3>1. INITIAL_VERSION \in Registered /\ KnownPointers(config) /\ config.init
        BY <2>1, <2>4, <2>5 DEF Opening, Registered, KnownPointers, KnownOrNone
      <3>2. ConfigFits'
        BY <2>1, <2>2, <3>1 DEF ConfigFits, KnownPointers, KnownOrNone
      <3>3. Ends(c)
        BY <1>3, <2>1, <2>5 DEF InRow
      <3> QED BY <2>3, <3>2, <3>3, EndsQuietly, FitsAtDelicateStepsOnly, SerialByOneClient
    <2>6. CASE registry[config.draft] = "absent"
      <3>1. req'[c] = [req[c] EXCEPT !.pc = "inRegister"] /\ req'[c].pc = "inRegister"
        BY <1>3, <2>1, <2>6, GotoMoves DEF InRow
      <3>2. req'[c].cfg = req[c].cfg
        BY <1>r, <3>1 DEF Request
      <3>3. Registered = {} /\ Drafts = {}
        BY <2>1, <2>6 DEF Opening, Registered, Drafts
      <3>4. RequestFits(c)'
        BY <2>1, <2>2, <3>1, <3>2, <3>3 DEF RequestFits, Initialising, Opening
      <3>5. ConfigFits'
        BY <2>1, <3>1 DEF ConfigFits, Opening, Initialising
      <3> QED BY <2>3, <3>4, <3>5, SerialByOneClient
    <2> QED BY <2>5, <2>6
  <1>4. CASE InRegister(c)
    <2>1. /\ Registered \subseteq {INITIAL_VERSION} /\ Drafts = Registered
          /\ config = req[c].cfg /\ Opening(config)
      BY <1>4, <1>r DEF InRegister, RequestFits, Initialising
    <2>2. config.init /\ config.current = INITIAL_VERSION /\ config.draft = INITIAL_VERSION
      BY <2>1, Zenon DEF Opening
    <2>3. registry' = [registry EXCEPT ![INITIAL_VERSION] = "draft"] /\ config' = config
      BY <1>4, <2>1, <2>2 DEF InRegister
    <2>4. Registered' = {INITIAL_VERSION} /\ Drafts' = {INITIAL_VERSION}
      <3>1. INITIAL_VERSION \in Versions
        BY VersionsAssumption DEF INITIAL_VERSION
      <3>2. Registered' = Registered \cup {INITIAL_VERSION} /\ Drafts' = Drafts \cup {INITIAL_VERSION}
        BY <2>3, <3>1, StatusWritten
      <3> QED BY <2>1, <3>2
    <2>5. ConfigFits'
      BY <2>2, <2>3, <2>4 DEF ConfigFits, KnownPointers, KnownOrNone
    <2>6. OneDraft'
      BY <2>4 DEF OneDraft
    <2>7. Ends(c)
      BY <1>4 DEF InRegister
    <2> QED BY <2>5, <2>6, <2>7, EndsQuietly, FitsAtDelicateStepsOnly, SerialByOneClient
  <1>5. ~WebInit(c)
    BY DEF SerialUse, WebInit, Starts
  <1> QED BY <1>1, <1>2, <1>3, <1>4, <1>5 DEF InitSteps

\* The migration of a starting process: it registers 1.0.0 or fills the pointers.
LEMMA SerialByBoot ==
  ASSUME TypeInv, SerialUse, SerialInv, Boot
  PROVE  SerialInv'
  <1>b. /\ config.init /\ req' = req /\ config'.init
        /\ Registered = {} \/ config.current = None
    BY DEF Boot, TypeInv, ConfigRow
  <1>v. INITIAL_VERSION \in Versions /\ None \notin Versions /\ INITIAL_VERSION # None
    BY VersionsAssumption DEF INITIAL_VERSION, None
  <1>1. CASE \E c \in Clients : Initialising(c)
    <2>1. PICK c \in Clients : Initialising(c)
      BY <1>1
    <2>2. Opening(config) /\ config = req[c].cfg /\ RequestFits(c)
      BY <2>1 DEF SerialInv, RequestFits
    <2>3. Registered = {} /\ config.current = INITIAL_VERSION /\ config.draft = INITIAL_VERSION
      BY <1>b, <1>v, <2>2 DEF Opening, Registered
    <2>4. config' = config /\ registry' = [registry EXCEPT ![INITIAL_VERSION] = "draft"]
      BY <1>v, <2>3 DEF Boot
    <2>5. Registered' = {INITIAL_VERSION} /\ Drafts' = {INITIAL_VERSION}
      <3>1. Drafts = {}
        BY <2>3 DEF Registered, Drafts
      <3> QED BY <1>v, <2>3, <2>4, <3>1, StatusWritten
    <2>6. RequestFits(c)'
      BY <1>b, <2>1, <2>2, <2>3, <2>4, <2>5 DEF RequestFits, Initialising, Opening
    <2>7. ConfigFits'
      BY <1>b, <2>3, <2>4, <2>5 DEF ConfigFits, KnownPointers, KnownOrNone
    <2>8. OneDraft'
      BY <2>5 DEF OneDraft
    <2> QED BY <2>6, <2>7, <2>8, SerialByOneClient
  <1>2. CASE \A c \in Clients : ~Initialising(c)
    <2>1. INITIAL_VERSION \in Registered /\ KnownPointers(config)
      BY <1>2, <1>b DEF SerialInv, ConfigFits
    <2>2. registry' = registry /\ config' = [config EXCEPT !.current = INITIAL_VERSION, !.draft = INITIAL_VERSION]
      BY <1>b, <2>1 DEF Boot
    <2>3. config'.current = INITIAL_VERSION /\ config'.draft = INITIAL_VERSION
      BY <2>2 DEF TypeInv, ConfigRow
    <2>4. Registered' = Registered /\ Drafts' = Drafts
      BY <2>2 DEF Registered, Drafts
    <2>5. OneDraft'
      BY <2>4 DEF SerialInv, OneDraft
    <2>6. ConfigFits'
      BY <1>b, <2>1, <2>3, <2>4 DEF ConfigFits, KnownPointers, KnownOrNone
    <2>7. ASSUME NEW c \in Clients
          PROVE  RequestFits(c)'
      <3>1. RequestFits(c) /\ ~Initialising(c)
        BY <1>2 DEF SerialInv
      <3> QED BY <1>b, <2>4, <3>1 DEF RequestFits, Initialising, Opening, KnownPointers, KnownOrNone
    <2> QED BY <2>5, <2>6, <2>7 DEF SerialInv
  <1> QED BY <1>1, <1>2

LEMMA SerialByEveryStep ==
  ASSUME TypeInv, SerialUse, SerialInv, [Next]_vars
  PROVE  SerialInv'
  <1>1. CASE UNCHANGED vars
    BY <1>1 DEF vars, SerialInv, OneDraft, Drafts, ConfigFits, RequestFits, Initialising, Opening,
                KnownPointers, KnownOrNone, Registered
  <1>2. ASSUME NEW c \in Clients, Serve(c)  PROVE SerialInv'
    BY <1>2, SerialByWriteSteps, SerialByBranchSteps, SerialByLockSteps, SerialByUnlockSteps,
       SerialByPointerSteps, SerialByInitSteps
       DEF Serve, LifecycleSteps
  <1>3. \A c \in Clients : ~Crash(c) /\ ~QueryError(c)
    BY DEF SerialUse, Crash, QueryError
  <1> QED BY <1>1, <1>2, <1>3, SerialByBoot DEF Next

LEMMA SerialInitially == Init => SerialInv
  <1> SUFFICES ASSUME Init  PROVE SerialInv
    OBVIOUS
  <1>1. Registered = {} /\ Drafts = {} /\ config = NoConfig
    BY DEF Init, Registered, Drafts
  <1>2. \A c \in Clients : req[c].pc = "idle"
    BY DEF Init, Idle
  <1>3. ~NoConfig.init
    BY DEF NoConfig
  <1> QED BY <1>1, <1>2, <1>3 DEF SerialInv, OneDraft, ConfigFits, RequestFits, Initialising

LEMMA AlwaysSerialInv == SerialUse => (Spec => []SerialInv)
  <1> SUFFICES ASSUME SerialUse  PROVE Spec => []SerialInv
    OBVIOUS
  <1>1. TypeInv /\ SerialInv /\ [Next]_vars => SerialInv'
    BY SerialByEveryStep
  <1> QED BY <1>1, SerialInitially, AlwaysTypeInv, PTL DEF Spec

(***************************************************************************)
(* Requests that do not overlap never open a second draft: createVersion   *)
(* and unlockVersion look for one before they write, and init_project only *)
(* registers 1.0.0 while nothing is registered.                            *)
(***************************************************************************)
THEOREM OneDraftSerially == SerialUse => (Spec => []OneDraft)
  <1>1. SerialInv => OneDraft
    BY DEF SerialInv
  <1> QED BY <1>1, AlwaysSerialInv, PTL

(***************************************************************************)
(* And between requests the version pointers of the config row only name   *)
(* registered versions.                                                    *)
(***************************************************************************)
THEOREM PointersKnownSerially == SerialUse => (Spec => []PointersKnown)
  <1>1. SerialInv => PointersKnown
    <2> SUFFICES ASSUME SerialInv, Quiet  PROVE KnownPointers(config)
      BY DEF PointersKnown, KnownPointers, KnownOrNone
    <2>1. \A c \in Clients : ~Initialising(c)
      BY DEF Quiet, Initialising, Idle
    <2>2. CASE config.init
      BY <2>1, <2>2 DEF SerialInv, ConfigFits
    <2>3. CASE ~config.init
      BY <2>3 DEF SerialInv, ConfigFits, NoConfig, KnownPointers, KnownOrNone
    <2> QED BY <2>2, <2>3
  <1> QED BY <1>1, AlwaysSerialInv, PTL

-----------------------------------------------------------------------------
(***************************************************************************)
(* KeepsPromise: requests that do not overlap implement SpecPromise.  For  *)
(* that the rows matter too: a version that is not registered is empty,    *)
(* except that a branch half-way has filled its target; and what a request *)
(* read of a status or a row is what it still finds when it writes.        *)
(***************************************************************************)
Bound == {"read", "list", "ids", "existing", "guard", "raw", "upsert"}

DataFits(c) ==
    /\ req[c].pc = "known" => Registered # {}
    /\ req[c].pc \in Bound => req[c].ver \in Registered
    /\ req[c].pc = "upsert" /\ registry[req[c].ver] = "locked"
          => SameFrozen(rows[req[c].ver][req[c].id], req[c].doc)
    /\ req[c].pc \in {"cvCopy", "cvRegister"} => req[c].from \in Registered
    /\ req[c].pc = "cvRegister" => rows[req[c].to] = CopyInto(rows[req[c].from], EmptyTable)
    /\ req[c].pc # "cvDrop"
    /\ req[c].pc = "lkWrite" => registry[req[c].ver] = "draft"
    /\ req[c].pc \in {"ulList", "ulWrite"} => registry[req[c].ver] = "locked"

Filling(v) == \E c \in Clients : req[c].pc = "cvRegister" /\ req[c].to = v
UnregisteredEmpty == \A v \in Versions \ Registered : rows[v] = EmptyTable \/ Filling(v)

DataInv == UnregisteredEmpty /\ \A c \in Clients : DataFits(c)

\* The steps DataFits asks something of.
Careful == Bound \cup {"known", "cvCopy", "cvRegister", "cvDrop", "lkWrite", "ulList", "ulWrite"}

\* The content of the registered versions, which is what SpecPromise sees.
Content == [v \in Versions |-> IF v \in Registered THEN rows[v] ELSE EmptyTable]
Moves == Promise!PromiseNext \/ UNCHANGED <<registry, Content>>

LEMMA StuttersUnlessRegistered ==
  ASSUME registry' = registry, \A v \in Registered : rows'[v] = rows[v]
  PROVE  Moves
  <1>1. Registered' = Registered
    BY DEF Registered
  <1>2. Content' = Content
    BY <1>1 DEF Content
  <1> QED BY <1>2 DEF Moves

LEMMA DataByOneClient ==
  ASSUME SerialUse, NEW c \in Clients, UnregisteredEmpty', DataFits(c)'
  PROVE  DataInv'
  <1>1. \A d \in Clients : d = c
    BY DEF SerialUse
  <1> QED BY <1>1 DEF DataInv

\* A step that reads the tables and leaves its client where the rest fits.
LEMMA DataBySameTables ==
  ASSUME SerialUse, DataInv, NEW c \in Clients, registry' = registry, rows' = rows,
         req[c].pc # "cvRegister", DataFits(c)'
  PROVE  DataInv' /\ Moves
  <1>1. \A d \in Clients : d = c
    BY DEF SerialUse
  <1>2. Registered' = Registered
    BY DEF Registered
  <1>3. UnregisteredEmpty'
    BY <1>1, <1>2 DEF DataInv, UnregisteredEmpty, Filling
  <1> QED BY <1>3, DataByOneClient, StuttersUnlessRegistered

LEMMA DataByQuietStep ==
  ASSUME SerialUse, DataInv, NEW c \in Clients, registry' = registry, rows' = rows,
         req[c].pc # "cvRegister", req'[c].pc \notin Careful
  PROVE  DataInv' /\ Moves
  <1>1. DataFits(c)'
    BY DEF DataFits, Careful, Bound
  <1> QED BY <1>1, DataBySameTables

LEMMA EndsFreely ==
  ASSUME TypeInv, NEW c \in Clients, Ends(c)
  PROVE  req'[c] = Idle /\ req'[c].pc \notin Careful /\ DataFits(c)'
  BY DEF TypeInv, Ends, Becomes, Idle, Careful, Bound, DataFits

LEMMA GoesFreely ==
  ASSUME TypeInv, NEW c \in Clients, NEW step \in {"cvPoint", "lkConfig", "ulConfig", "inRow", "inRegister"},
         Goto(c, step)
  PROVE  req'[c].pc \notin Careful
  <1>1. req'[c].pc = step
    BY GotoMoves
  <1> QED BY <1>1 DEF Careful, Bound

LEMMA DataByEnding ==
  ASSUME TypeInv, SerialUse, DataInv, NEW c \in Clients, registry' = registry, rows' = rows,
         req[c].pc # "cvRegister", Ends(c)
  PROVE  DataInv' /\ Moves
  BY EndsFreely, DataByQuietStep

\* A step of a tool call that keeps its version and goes on to an earlier step than the write.
LEMMA DataByBoundStep ==
  ASSUME TypeInv, SerialUse, DataInv, NEW c \in Clients, registry' = registry, rows' = rows,
         req[c].pc # "cvRegister", NEW r, Becomes(c, r),
         r.pc \in Bound \ {"upsert"}, r.ver \in Registered
  PROVE  DataInv' /\ Moves
  <1>1. req'[c] = r
    BY BecomesMoves
  <1>2. DataFits(c)'
    BY <1>1 DEF DataFits, Bound, Registered
  <1> QED BY <1>2, DataBySameTables

LEMMA DataByWriteSteps ==
  ASSUME TypeInv, SerialUse, SerialInv, DataInv, NEW c \in Clients, WriteSteps(c)
  PROVE  DataInv' /\ Moves
  <1> USE DEF At
  <1>r. req[c] \in Request /\ Addressed(req[c]) /\ DataFits(c)
    BY DEF TypeInv, SoundRequest, DataInv
  <1>1. CASE BindConfig(c)
    <2>1. PICK tool \in RowTools, explicit \in Pointer, progress \in BOOLEAN,
               id \in Ids \cup {None} :
             /\ Starts(c, tool)
             /\ config.init
             /\ (tool = "create") <=> (id = None)
             /\ progress => tool = "edit" /\ id \notin PureSpec
             /\ Becomes(c, [Idle EXCEPT !.tool = tool, !.pc = "known", !.id = id,
                               !.ver = BindTarget(explicit, ~progress, config),
                               !.implicit = (explicit = None /\ ~progress),
                               !.progress = progress])
             /\ TablesSame
      BY <1>1, Zenon DEF BindConfig
    <2> DEFINE r == [Idle EXCEPT !.tool = tool, !.pc = "known", !.id = id,
                        !.ver = BindTarget(explicit, ~progress, config),
                        !.implicit = (explicit = None /\ ~progress),
                        !.progress = progress]
    <2>2. r.pc = "known"
      BY DEF Idle
    <2> HIDE DEF r
    <2>3. req'[c] = r /\ registry' = registry /\ rows' = rows
      BY <2>1, BecomesMoves DEF r, TablesSame
    <2>4. req[c].pc = "idle"
      BY <2>1, StartsIdle
    <2>5. Registered # {}
      <3>1. ~Initialising(c)
        BY <2>4 DEF Initialising
      <3> QED BY <2>1, <3>1, OpenConfig
    <2>6. DataFits(c)'
      BY <2>2, <2>3, <2>5 DEF DataFits, Bound, Registered
    <2> QED BY <2>3, <2>4, <2>6, DataBySameTables
  <1>2. CASE BindKnown(c)
    <2> DEFINE r == [req[c] EXCEPT !.pc = FirstStep(req[c].tool), !.implicit = FALSE]
    <2>1. req[c].tool \in RowTools /\ req[c].pc = "known" /\ Registered # {}
      BY <1>2, <1>r DEF BindKnown, Addressed, DataFits
    <2>2. FirstStep(req[c].tool) \in {"read", "list", "existing"}
      BY <2>1 DEF FirstStep, RowTools
    <2>3. r.pc \in Bound \ {"upsert"} /\ r.ver = req[c].ver
      BY <1>r, <2>2 DEF Request, Bound
    <2>4. Ends(c) \/ (req[c].ver \in Registered /\ Becomes(c, r))
      BY <1>2, <2>1 DEF BindKnown
    <2>5. registry' = registry /\ rows' = rows
      BY <1>2 DEF BindKnown, TablesSame
    <2> QED BY <2>1, <2>3, <2>4, <2>5, DataByEnding, DataByBoundStep
  <1>3. CASE ReadRow(c)
    <2>1. /\ registry' = registry /\ rows' = rows /\ req[c].pc = "read"
          /\ Ends(c) \/ \E doc \in Row :
                Becomes(c, [req[c] EXCEPT !.pc = "guard", !.doc = doc, !.progress = FALSE])
      BY <1>3 DEF ReadRow, TablesSame
    <2>2. req[c].ver \in Registered
      BY <1>r, <2>1 DEF DataFits, Bound
    <2>3. ASSUME NEW doc \in Row
          PROVE  LET r == [req[c] EXCEPT !.pc = "guard", !.doc = doc, !.progress = FALSE]
                 IN  r.pc \in Bound \ {"upsert"} /\ r.ver = req[c].ver
      BY <1>r DEF Request, Bound
    <2> QED BY <2>1, <2>2, <2>3, DataByEnding, DataByBoundStep
  <1>4. CASE ListRows(c)
    <2> DEFINE live == {id \in Ids : rows[req[c].ver][id].st = "live"}
               listed == [req[c] EXCEPT !.pc = "ids", !.live = live]
               named == [req[c] EXCEPT !.pc = "guard", !.doc = NewRow]
    <2>1. /\ listed.pc \in Bound \ {"upsert"} /\ listed.ver = req[c].ver
          /\ named.pc \in Bound \ {"upsert"} /\ named.ver = req[c].ver
      BY <1>r DEF Request, Bound
    <2>2. /\ registry' = registry /\ rows' = rows /\ req[c].pc = "list"
          /\ Becomes(c, listed) \/ Ends(c) \/ Becomes(c, named)
      BY <1>4 DEF ListRows, TablesSame
    <2>3. req[c].ver \in Registered
      BY <1>r, <2>2 DEF DataFits, Bound
    <2> QED BY <2>1, <2>2, <2>3, DataByEnding, DataByBoundStep
  <1>5. CASE AllocateId(c)
    <2> DEFINE r == [req[c] EXCEPT !.pc = "guard", !.id = NextId(IdsAcrossVersions),
                                   !.doc = NewRow, !.live = {}]
    <2>1. r.pc \in Bound \ {"upsert"} /\ r.ver = req[c].ver
      BY <1>r DEF Request, Bound
    <2>2. /\ registry' = registry /\ rows' = rows /\ req[c].pc = "ids"
          /\ Ends(c) \/ Becomes(c, r)
      BY <1>5 DEF AllocateId, TablesSame
    <2>3. req[c].ver \in Registered
      BY <1>r, <2>2 DEF DataFits, Bound
    <2> QED BY <2>1, <2>2, <2>3, DataByEnding, DataByBoundStep
  <1>6. CASE ReadExisting(c)
    <2> DEFINE row == rows[req[c].ver][req[c].id]
               r == [req[c] EXCEPT !.pc = "guard", !.doc = [row EXCEPT !.st = "removed"]]
    <2>1. r.pc \in Bound \ {"upsert"} /\ r.ver = req[c].ver
      BY <1>r DEF Request, Bound
    <2>2. /\ registry' = registry /\ rows' = rows /\ req[c].pc = "existing"
          /\ Ends(c) \/ Becomes(c, r)
      BY <1>6 DEF ReadExisting, TablesSame
    <2>3. req[c].ver \in Registered
      BY <1>r, <2>2 DEF DataFits, Bound
    <2> QED BY <2>1, <2>2, <2>3, DataByEnding, DataByBoundStep
  <1>7. CASE IsLocked(c)
    <2>1. /\ registry' = registry /\ rows' = rows /\ req[c].pc = "guard" /\ req[c].ver \in Registered
      BY <1>7, <1>r DEF IsLocked, TablesSame, DataFits, Bound
    <2>2. CASE registry[req[c].ver] = "locked"
      <3>1. Becomes(c, [req[c] EXCEPT !.pc = "raw"])
        BY <1>7, <2>2 DEF IsLocked, Goto
      <3>2. [req[c] EXCEPT !.pc = "raw"].pc \in Bound \ {"upsert"} /\ [req[c] EXCEPT !.pc = "raw"].ver = req[c].ver
        BY <1>r DEF Request, Bound
      <3> QED BY <2>1, <3>1, <3>2, DataByBoundStep
    <2>3. CASE registry[req[c].ver] # "locked"
      <3>1. Goto(c, "upsert")
        BY <1>7, <2>3 DEF IsLocked
      <3>2. req'[c] = [req[c] EXCEPT !.pc = "upsert"] /\ req'[c].pc = "upsert"
        BY <3>1, GotoMoves
      <3>3. req'[c].ver = req[c].ver
        BY <1>r, <3>2 DEF Request
      <3>4. DataFits(c)'
        BY <2>1, <2>3, <3>2, <3>3 DEF DataFits, Bound, Registered
      <3> QED BY <2>1, <3>4, DataBySameTables
    <2> QED BY <2>2, <2>3
  <1>8. CASE AssertWritable(c)
    <2> DEFINE r == [req[c] EXCEPT !.pc = "upsert", !.compared = TRUE]
    <2>1. /\ registry' = registry /\ rows' = rows /\ req[c].pc = "raw" /\ req[c].ver \in Registered
      BY <1>8, <1>r DEF AssertWritable, TablesSame, DataFits, Bound
    <2>2. \/ Ends(c)
          \/ /\ CheckWritable(rows[req[c].ver][req[c].id], req[c].doc)
             /\ Becomes(c, r)
      BY <1>8 DEF AssertWritable
    <2>3. ASSUME CheckWritable(rows[req[c].ver][req[c].id], req[c].doc), Becomes(c, r)
          PROVE  DataInv' /\ Moves
      <3>1. r.pc = "upsert" /\ r.ver = req[c].ver /\ r.id = req[c].id /\ r.doc = req[c].doc
        BY <1>r DEF Request
      <3> HIDE DEF r
      <3>2. req'[c] = r
        BY <2>3, BecomesMoves
      <3>3. DataFits(c)'
        BY <2>1, <2>3, <3>1, <3>2 DEF DataFits, Bound, Registered, CheckWritable, SameFrozen
      <3> QED BY <2>1, <3>3, DataBySameTables
    <2> QED BY <2>1, <2>2, <2>3, DataByEnding
  <1>9. CASE Upsert(c)
    <2>1. PICK v \in Registered : v = req[c].ver
      BY <1>9, <1>r DEF Upsert, DataFits, Bound
    <2>2. PICK id \in Ids, doc \in Row : id = req[c].id /\ doc = req[c].doc
      BY <1>9, <1>r DEF Upsert, Addressed, Request
    <2>3. /\ registry' = registry /\ rows' = [rows EXCEPT ![v][id] = doc] /\ Ends(c) /\ req[c].pc = "upsert"
      BY <1>9, <2>1, <2>2 DEF Upsert
    <2>4. v \in Versions /\ Registered' = Registered
      BY <2>3 DEF Registered
    <2>5. UnregisteredEmpty'
      <3>1. \A d \in Clients : d = c
        BY DEF SerialUse
      <3>2. \A w \in Versions \ Registered : rows'[w] = rows[w]
        BY <2>3 DEF TypeInv
      <3> QED BY <2>3, <2>4, <3>1, <3>2 DEF DataInv, UnregisteredEmpty, Filling
    <2>6. Content' = [Content EXCEPT ![v][id] = doc]
      <3>1. \A w \in Versions : rows'[w] = IF w = v THEN [rows[v] EXCEPT ![id] = doc] ELSE rows[w]
        BY <2>3, <2>4 DEF TypeInv
      <3> QED BY <2>4, <3>1 DEF Content
    <2>7. Content[v] = rows[v]
      BY <2>4 DEF Content
    <2>8. registry[v] = "locked" => SameFrozen(rows[v][id], doc)
      BY <1>r, <2>1, <2>2, <2>3 DEF DataFits
    <2>9. Promise!Write(v, id, doc)
      <3>1. v \in Promise!Existing
        BY DEF Promise!Existing, Registered
      <3>2. registry[v] = "locked" => Promise!FrozenPart(doc) = Promise!FrozenPart(Content[v][id])
        BY <2>7, <2>8 DEF Promise!FrozenPart, SameFrozen
      <3> QED BY <2>3, <2>6, <3>1, <3>2 DEF Promise!Write, Content
    <2>10. Moves
      BY <2>4, <2>9 DEF Moves, Promise!PromiseNext, Promise!Row, Row
    <2> QED BY <2>3, <2>5, <2>10, EndsFreely, DataByOneClient
  <1> QED BY <1>1, <1>2, <1>3, <1>4, <1>5, <1>6, <1>7, <1>8, <1>9 DEF WriteSteps

LEMMA DataByBranchSteps ==
  ASSUME TypeInv, SerialUse, SerialInv, DataInv, NEW c \in Clients,
         CvConfig(c) \/ CvList(c) \/ CvCopy(c) \/ CvRegister(c) \/ CvPoint(c) \/ CvDrop(c)
  PROVE  DataInv' /\ Moves
  <1> USE DEF At
  <1>r. req[c] \in Request /\ Addressed(req[c]) /\ RequestFits(c) /\ DataFits(c)
    BY DEF TypeInv, SoundRequest, SerialInv, DataInv
  <1>s. \A d \in Clients : d = c
    BY DEF SerialUse
  <1>1. CASE CvConfig(c)
    <2> DEFINE r == [Idle EXCEPT !.tool = "create_version", !.pc = "cvList", !.cfg = config]
    <2>1. r.pc = "cvList"
      BY DEF Idle
    <2>2. req'[c] = r /\ registry' = registry /\ rows' = rows /\ req[c].pc = "idle"
      <3>1. Starts(c, "create_version") /\ Becomes(c, r) /\ TablesSame
        BY <1>1, Zenon DEF CvConfig
      <3> HIDE DEF r
      <3> QED BY <3>1, BecomesMoves, StartsIdle DEF TablesSame
    <2>3. "cvList" \notin Careful
      BY DEF Careful, Bound
    <2> HIDE DEF r
    <2> QED BY <2>1, <2>2, <2>3, DataByQuietStep
  <1>2. CASE CvList(c)
    <2> DEFINE from(arg) == FirstOf(arg, FirstOf(FirstOf(req[c].cfg.current, req[c].cfg.draft),
                                                 INITIAL_VERSION))
               r(arg, to) == [req[c] EXCEPT !.pc = "cvCopy", !.from = from(arg), !.to = to]
    <2>1. registry' = registry /\ rows' = rows /\ req[c].pc = "cvList"
      BY <1>2 DEF CvList, TablesSame
    <2>2. Registered # {}
      <3>1. config.init /\ ~Initialising(c)
        BY <1>r, <2>1 DEF RequestFits, Initialising
      <3> QED BY <3>1, OpenConfig
    <2>3. \/ Ends(c)
          \/ \E arg \in Pointer, to \in Versions :
                from(arg) \in Registered /\ Becomes(c, r(arg, to))
      BY <1>2, <2>2 DEF CvList, MayBranch
    <2>4. ASSUME NEW arg \in Pointer, NEW to \in Versions, from(arg) \in Registered,
                 Becomes(c, r(arg, to))
          PROVE  DataInv' /\ Moves
      <3>1. r(arg, to).pc = "cvCopy" /\ r(arg, to).from = from(arg)
        BY <1>r DEF Request
      <3> HIDE DEF r
      <3>2. req'[c] = r(arg, to)
        BY <2>4, BecomesMoves
      <3> HIDE DEF from
      <3>3. DataFits(c)'
        BY <2>1, <2>4, <3>1, <3>2 DEF DataFits, Bound, Registered
      <3> QED BY <2>1, <3>3, DataBySameTables
    <2> QED BY <2>1, <2>3, <2>4, DataByEnding
  <1>3. CASE CvCopy(c)
    <2>1. /\ req[c].pc = "cvCopy" /\ req[c].from \in Registered /\ req[c].to \in Versions \ Registered
          /\ registry' = registry /\ req[c].from # req[c].to
      BY <1>3, <1>r DEF CvCopy, RequestFits, DataFits, Addressed
    <2>2. rows[req[c].to] = EmptyTable
      BY <1>s, <2>1 DEF DataInv, UnregisteredEmpty, Filling
    <2>3. ~CopyConflict(rows[req[c].from], rows[req[c].to])
      BY <2>2 DEF CopyConflict, EmptyTable, NoRow
    <2>4. /\ rows' = [rows EXCEPT ![req[c].to] = CopyInto(rows[req[c].from], EmptyTable)]
          /\ Goto(c, "cvRegister")
      BY <1>3, <2>2, <2>3 DEF CvCopy
    <2>5. /\ rows'[req[c].to] = CopyInto(rows[req[c].from], EmptyTable)
          /\ \A v \in Versions \ {req[c].to} : rows'[v] = rows[v]
      BY <2>1, <2>4 DEF TypeInv
    <2>6. req'[c] = [req[c] EXCEPT !.pc = "cvRegister"] /\ req'[c].pc = "cvRegister"
      BY <2>4, GotoMoves
    <2>7. req'[c].to = req[c].to /\ req'[c].from = req[c].from
      BY <1>r, <2>6 DEF Request
    <2>8. Registered' = Registered /\ Registered \subseteq Versions
      BY <2>1 DEF Registered
    <2>9. DataFits(c)'
      BY <2>1, <2>5, <2>6, <2>7, <2>8 DEF DataFits, Bound
    <2>10. UnregisteredEmpty'
      <3>1. ASSUME NEW v \in Versions \ Registered
            PROVE  rows'[v] = EmptyTable \/ v = req[c].to
        BY <1>s, <2>1, <2>5 DEF DataInv, UnregisteredEmpty, Filling
      <3> QED BY <2>6, <2>7, <2>8, <3>1 DEF UnregisteredEmpty, Filling
    <2>11. Moves
      BY <2>1, <2>5, <2>8, StuttersUnlessRegistered
    <2> QED BY <2>9, <2>10, <2>11, DataByOneClient
  <1>4. CASE CvRegister(c)
    <2>1. PICK from \in Registered, to \in Versions \ Registered :
             /\ from = req[c].from /\ to = req[c].to /\ from < to /\ Drafts = {}
             /\ rows[to] = CopyInto(rows[from], EmptyTable)
      BY <1>4, <1>r DEF CvRegister, RequestFits, DataFits, Addressed
    <2>2. /\ registry' = [registry EXCEPT ![to] = "draft"] /\ rows' = rows /\ req[c].pc = "cvRegister"
          /\ Ends(c) \/ Goto(c, "cvPoint")
      BY <1>4, <2>1 DEF CvRegister
    <2>3. Registered' = Registered \cup {to}
      BY <2>1, <2>2, StatusWritten
    <2>4. UnregisteredEmpty'
      BY <1>s, <2>1, <2>2, <2>3 DEF DataInv, UnregisteredEmpty, Filling
    <2>5. req'[c].pc \notin Careful
      BY <2>2, EndsFreely, GoesFreely
    <2>6. DataFits(c)'
      BY <2>5 DEF DataFits, Careful, Bound
    <2>7. Content' = [Content EXCEPT ![to] = Promise!LiveRows(Content[from])]
      <3>1. Content[from] = rows[from] /\ from \in Versions
        BY DEF Content, Registered
      <3>2. Promise!LiveRows(rows[from]) = CopyInto(rows[from], EmptyTable)
        BY DEF Promise!LiveRows, Promise!NoRow, CopyInto, EmptyTable, NoRow, Promise!None, None
      <3> QED BY <2>1, <2>2, <2>3, <3>1, <3>2 DEF Content
    <2>8. Promise!Branch(from, to)
      <3>1. from \in Promise!Existing /\ to \notin Promise!Existing
        BY <2>1 DEF Promise!Existing, Registered
      <3>2. Promise!NoDraft
        BY <2>1 DEF Promise!NoDraft, Drafts
      <3>3. from \in Nat /\ to \in Nat
        BY VersionsAssumption DEF Registered
      <3> QED BY <2>1, <2>2, <2>7, <3>1, <3>2, <3>3 DEF Promise!Branch, Content
    <2>9. Moves
      BY <2>8 DEF Moves, Promise!PromiseNext, Registered
    <2> QED BY <2>4, <2>6, <2>9, DataByOneClient
  <1>5. CASE CvPoint(c)
    <2>1. registry' = registry /\ rows' = rows /\ req[c].pc = "cvPoint" /\ Ends(c)
      BY <1>5 DEF CvPoint
    <2> QED BY <2>1, DataByEnding
  <1>6. ~CvDrop(c)
    BY <1>r DEF CvDrop, DataFits
  <1> QED BY <1>1, <1>2, <1>3, <1>4, <1>5, <1>6

\* A change of one registered version's status.
LEMMA DataByStatus ==
  ASSUME TypeInv, SerialUse, DataInv, NEW c \in Clients, NEW v \in Registered,
         NEW to \in {"draft", "locked"}, registry' = [registry EXCEPT ![v] = to], rows' = rows,
         req[c].pc # "cvRegister", req'[c].pc \notin Careful
  PROVE  DataInv' /\ Content' = Content /\ registry'[v] = to
  <1>1. \A d \in Clients : d = c
    BY DEF SerialUse
  <1>2. v \in Versions
    BY DEF Registered
  <1>3. Registered' = Registered
    <2>1. Registered' = Registered \cup {v}
      BY <1>2, StatusWritten
    <2> QED BY <2>1
  <1>4. UnregisteredEmpty'
    BY <1>1, <1>3 DEF DataInv, UnregisteredEmpty, Filling
  <1>5. DataFits(c)'
    BY DEF DataFits, Careful, Bound
  <1>6. Content' = Content /\ registry'[v] = to
    BY <1>2, <1>3 DEF Content, TypeInv
  <1> QED BY <1>4, <1>5, <1>6, DataByOneClient

LEMMA DataByLockSteps ==
  ASSUME TypeInv, SerialUse, SerialInv, DataInv, NEW c \in Clients,
         LkRow(c) \/ LkWrite(c) \/ LkConfig(c) \/ LkPoint(c)
  PROVE  DataInv' /\ Moves
  <1> USE DEF At
  <1>r. req[c] \in Request /\ RequestFits(c) /\ DataFits(c)
    BY DEF TypeInv, SoundRequest, SerialInv, DataInv
  <1>1. CASE LkRow(c)
    <2>1. PICK v \in Drafts : Becomes(c, [Idle EXCEPT !.tool = "lock_version", !.pc = "lkWrite",
                                                     !.ver = v, !.par = parent[v]])
      BY <1>1 DEF LkRow
    <2> DEFINE r == [Idle EXCEPT !.tool = "lock_version", !.pc = "lkWrite",
                                 !.ver = v, !.par = parent[v]]
    <2>2. r.pc = "lkWrite" /\ r.ver = v
      BY DEF Idle
    <2> HIDE DEF r
    <2>3. req'[c] = r
      BY <2>1, BecomesMoves DEF r
    <2>4. registry' = registry /\ rows' = rows /\ req[c].pc = "idle"
      BY <1>1, StartsIdle DEF LkRow, TablesSame
    <2>5. DataFits(c)'
      BY <2>2, <2>3, <2>4 DEF DataFits, Bound, Drafts
    <2> QED BY <2>4, <2>5, DataBySameTables
  <1>2. CASE LkWrite(c)
    <2>1. PICK v \in Registered : v = req[c].ver /\ registry[v] = "draft"
      BY <1>2, <1>r DEF LkWrite, RequestFits, DataFits
    <2>2. registry' = [registry EXCEPT ![v] = "locked"] /\ rows' = rows /\ req[c].pc = "lkWrite"
      BY <1>2, <2>1 DEF LkWrite, WriteStatus
    <2>3. req'[c].pc \notin Careful
      BY <1>2, GoesFreely DEF LkWrite
    <2>4. DataInv' /\ Content' = Content
      BY <2>2, <2>3, DataByStatus
    <2>5. Promise!Lock(v)
      BY <2>1, <2>2, <2>4 DEF Promise!Lock, Content
    <2> QED BY <2>4, <2>5 DEF Moves, Promise!PromiseNext, Registered
  <1>3. CASE LkConfig(c)
    <2> DEFINE r == [req[c] EXCEPT !.pc = "lkPoint", !.cfg = config]
    <2>1. registry' = registry /\ rows' = rows /\ req[c].pc = "lkConfig" /\ (Ends(c) \/ Becomes(c, r))
      BY <1>3 DEF LkConfig, TablesSame
    <2>2. r.pc = "lkPoint"
      BY <1>r DEF Request
    <2>3. req'[c].pc \notin Careful
      BY <2>1, <2>2, EndsFreely, BecomesMoves DEF Careful, Bound
    <2> QED BY <2>1, <2>3, DataByQuietStep
  <1>4. CASE LkPoint(c)
    <2>1. registry' = registry /\ rows' = rows /\ req[c].pc = "lkPoint" /\ Ends(c)
      BY <1>4 DEF LkPoint
    <2> QED BY <2>1, DataByEnding
  <1> QED BY <1>1, <1>2, <1>3, <1>4

LEMMA DataByUnlockSteps ==
  ASSUME TypeInv, SerialUse, SerialInv, DataInv, NEW c \in Clients,
         UlRow(c) \/ UlList(c) \/ UlWrite(c) \/ UlConfig(c) \/ UlPoint(c)
  PROVE  DataInv' /\ Moves
  <1> USE DEF At
  <1>r. req[c] \in Request /\ RequestFits(c) /\ DataFits(c)
    BY DEF TypeInv, SoundRequest, SerialInv, DataInv
  <1>1. CASE UlRow(c)
    <2>1. PICK v \in Versions :
             /\ registry[v] = "locked"
             /\ Becomes(c, [Idle EXCEPT !.tool = "unlock_version", !.pc = "ulList",
                                        !.ver = v, !.par = parent[v]])
      BY <1>1 DEF UlRow
    <2> DEFINE r == [Idle EXCEPT !.tool = "unlock_version", !.pc = "ulList",
                                 !.ver = v, !.par = parent[v]]
    <2>2. r.pc = "ulList" /\ r.ver = v
      BY DEF Idle
    <2> HIDE DEF r
    <2>3. req'[c] = r
      BY <2>1, BecomesMoves DEF r
    <2>4. registry' = registry /\ rows' = rows /\ req[c].pc = "idle"
      BY <1>1, StartsIdle DEF UlRow, TablesSame
    <2>5. DataFits(c)'
      BY <2>1, <2>2, <2>3, <2>4 DEF DataFits, Bound
    <2> QED BY <2>4, <2>5, DataBySameTables
  <1>2. CASE UlList(c)
    <2>1. registry' = registry /\ rows' = rows /\ req[c].pc = "ulList" /\ (Ends(c) \/ Goto(c, "ulWrite"))
      BY <1>2 DEF UlList, TablesSame
    <2>2. ASSUME Goto(c, "ulWrite")  PROVE DataInv' /\ Moves
      <3>1. req'[c] = [req[c] EXCEPT !.pc = "ulWrite"] /\ req'[c].pc = "ulWrite"
        BY <2>2, GotoMoves
      <3>2. req'[c].ver = req[c].ver
        BY <1>r, <3>1 DEF Request
      <3>3. DataFits(c)'
        BY <1>r, <2>1, <3>1, <3>2 DEF DataFits, Bound
      <3> QED BY <2>1, <3>3, DataBySameTables
    <2> QED BY <2>1, <2>2, DataByEnding
  <1>3. CASE UlWrite(c)
    <2>1. PICK v \in Registered : v = req[c].ver /\ registry[v] = "locked" /\ Drafts = {}
      BY <1>3, <1>r DEF UlWrite, RequestFits, DataFits
    <2>2. registry' = [registry EXCEPT ![v] = "draft"] /\ rows' = rows /\ req[c].pc = "ulWrite"
      BY <1>3, <2>1 DEF UlWrite, WriteStatus
    <2>3. req'[c].pc \notin Careful
      BY <1>3, GoesFreely DEF UlWrite
    <2>4. DataInv' /\ Content' = Content
      BY <2>2, <2>3, DataByStatus
    <2>5. Promise!Unlock(v)
      BY <2>1, <2>2, <2>4 DEF Promise!Unlock, Promise!NoDraft, Drafts, Content
    <2> QED BY <2>4, <2>5 DEF Moves, Promise!PromiseNext, Registered
  <1>4. CASE UlConfig(c)
    <2> DEFINE r == [req[c] EXCEPT !.pc = "ulPoint", !.cfg = config]
    <2>1. registry' = registry /\ rows' = rows /\ req[c].pc = "ulConfig" /\ (Ends(c) \/ Becomes(c, r))
      BY <1>4 DEF UlConfig, TablesSame
    <2>2. r.pc = "ulPoint"
      BY <1>r DEF Request
    <2>3. req'[c].pc \notin Careful
      BY <2>1, <2>2, EndsFreely, BecomesMoves DEF Careful, Bound
    <2> QED BY <2>1, <2>3, DataByQuietStep
  <1>5. CASE UlPoint(c)
    <2>1. registry' = registry /\ rows' = rows /\ req[c].pc = "ulPoint" /\ Ends(c)
      BY <1>5 DEF UlPoint
    <2> QED BY <2>1, DataByEnding
  <1> QED BY <1>1, <1>2, <1>3, <1>4, <1>5

LEMMA DataByPointerSteps ==
  ASSUME TypeInv, SerialUse, DataInv, NEW c \in Clients,
         SaList(c) \/ SaConfig(c) \/ SaPoint(c)
  PROVE  DataInv' /\ Moves
  <1> USE DEF At
  <1>r. req[c] \in Request
    BY DEF TypeInv, SoundRequest
  <1>1. CASE SaList(c)
    <2>1. PICK current, draft \in Registered \cup {None} :
             Becomes(c, [Idle EXCEPT !.tool = "set_active_version", !.pc = "saConfig",
                                     !.from = current, !.to = draft])
      BY <1>1 DEF SaList
    <2> DEFINE r == [Idle EXCEPT !.tool = "set_active_version", !.pc = "saConfig",
                                 !.from = current, !.to = draft]
    <2>2. r.pc = "saConfig"
      BY DEF Idle
    <2> HIDE DEF r
    <2>3. req'[c] = r
      BY <2>1, BecomesMoves DEF r
    <2>4. registry' = registry /\ rows' = rows /\ req[c].pc = "idle"
      BY <1>1, StartsIdle DEF SaList, TablesSame
    <2>5. req'[c].pc \notin Careful
      BY <2>2, <2>3 DEF Careful, Bound
    <2> QED BY <2>4, <2>5, DataByQuietStep
  <1>2. CASE SaConfig(c)
    <2> DEFINE r == [req[c] EXCEPT !.pc = "saPoint", !.cfg = config]
    <2>1. registry' = registry /\ rows' = rows /\ req[c].pc = "saConfig" /\ (Ends(c) \/ Becomes(c, r))
      BY <1>2 DEF SaConfig, TablesSame
    <2>2. r.pc = "saPoint"
      BY <1>r DEF Request
    <2>3. req'[c].pc \notin Careful
      BY <2>1, <2>2, EndsFreely, BecomesMoves DEF Careful, Bound
    <2> QED BY <2>1, <2>3, DataByQuietStep
  <1>3. CASE SaPoint(c)
    <2>1. registry' = registry /\ rows' = rows /\ req[c].pc = "saPoint" /\ Ends(c)
      BY <1>3 DEF SaPoint
    <2> QED BY <2>1, DataByEnding
  <1> QED BY <1>1, <1>2, <1>3

\* 1.0.0 is registered, by init_project or a migration, while nothing else is.
LEMMA FoundMoves ==
  ASSUME TypeInv, DataInv, Registered \subseteq {INITIAL_VERSION}, Drafts = Registered,
         \A d \in Clients : req[d].pc # "cvRegister",
         registry' = [registry EXCEPT ![INITIAL_VERSION] = "draft"], rows' = rows
  PROVE  UnregisteredEmpty' /\ Moves /\ Registered' = {INITIAL_VERSION}
  <1>1. INITIAL_VERSION \in Versions
    BY VersionsAssumption DEF INITIAL_VERSION
  <1>2. Registered' = {INITIAL_VERSION}
    BY <1>1, StatusWritten
  <1>3. \A v \in Versions \ Registered : rows[v] = EmptyTable
    BY DEF DataInv, UnregisteredEmpty, Filling
  <1>4. Content' = Content
    BY <1>2, <1>3 DEF Content
  <1>5. UnregisteredEmpty'
    BY <1>2, <1>3 DEF UnregisteredEmpty
  <1>6. CASE Registered = {}
    <2>1. Promise!Existing = {}
      BY <1>6 DEF Promise!Existing, Registered
    <2>2. Promise!Found(INITIAL_VERSION)
      BY <1>4, <2>1 DEF Promise!Found, Content
    <2> QED BY <1>1, <1>2, <1>5, <2>2 DEF Moves, Promise!PromiseNext
  <1>7. CASE Registered = {INITIAL_VERSION}
    <2>1. registry[INITIAL_VERSION] = "draft"
      BY <1>7 DEF Drafts
    <2>2. registry' = registry
      BY <2>1 DEF TypeInv
    <2> QED BY <1>2, <1>4, <1>5, <2>2 DEF Moves
  <1> QED BY <1>6, <1>7

LEMMA DataByInitSteps ==
  ASSUME TypeInv, SerialUse, SerialInv, DataInv, NEW c \in Clients, InitSteps(c)
  PROVE  DataInv' /\ Moves
  <1> USE DEF At
  <1>r. req[c] \in Request /\ RequestFits(c)
    BY DEF TypeInv, SoundRequest, SerialInv
  <1>s. \A d \in Clients : d = c
    BY DEF SerialUse
  <1>1. CASE InRead(c)
    <2> DEFINE cfg == [init |-> TRUE,
                       current |-> FirstOf(config.current, INITIAL_VERSION),
                       draft |-> FirstOf(config.draft, INITIAL_VERSION)]
               r == [Idle EXCEPT !.tool = "init_project", !.pc = "inWrite", !.cfg = cfg]
    <2> HIDE DEF cfg
    <2>1. r.pc = "inWrite"
      BY DEF Idle
    <2>2. Becomes(c, r)
      BY <1>1 DEF InRead, cfg
    <2> HIDE DEF r
    <2>3. req'[c] = r /\ registry' = registry /\ rows' = rows /\ req[c].pc = "idle"
      BY <1>1, <2>2, BecomesMoves, StartsIdle DEF InRead, TablesSame
    <2>4. req'[c].pc \notin Careful
      BY <2>1, <2>3 DEF Careful, Bound
    <2> QED BY <2>3, <2>4, DataByQuietStep
  <1>2. CASE InWrite(c)
    <2>1. registry' = registry /\ rows' = rows /\ req[c].pc = "inWrite" /\ req'[c].pc = "inRow"
      BY <1>2, GotoMoves DEF InWrite
    <2>2. req'[c].pc \notin Careful
      BY <2>1 DEF Careful, Bound
    <2> QED BY <2>1, <2>2, DataByQuietStep
  <1>3. CASE InRow(c)
    <2>1. /\ registry' = registry /\ rows' = rows /\ req[c].pc = "inRow"
          /\ Ends(c) \/ Goto(c, "inRegister")
      BY <1>3 DEF InRow, TablesSame
    <2>2. req'[c].pc \notin Careful
      BY <2>1, EndsFreely, GoesFreely
    <2> QED BY <2>1, <2>2, DataByQuietStep
  <1>4. CASE InRegister(c)
    <2>1. /\ Registered \subseteq {INITIAL_VERSION} /\ Drafts = Registered
          /\ Opening(req[c].cfg) /\ req[c].pc = "inRegister"
      BY <1>4, <1>r DEF InRegister, RequestFits, Initialising
    <2>2. req[c].cfg.draft = INITIAL_VERSION
      BY <2>1, Zenon DEF Opening
    <2>3. /\ registry' = [registry EXCEPT ![INITIAL_VERSION] = "draft"]
          /\ rows' = rows /\ Ends(c)
      BY <1>4, <2>2 DEF InRegister
    <2>4. \A d \in Clients : req[d].pc # "cvRegister"
      BY <1>s, <2>1
    <2>5. UnregisteredEmpty' /\ Moves
      BY <2>1, <2>3, <2>4, FoundMoves
    <2> QED BY <2>3, <2>5, EndsFreely, DataByOneClient
  <1>5. ~WebInit(c)
    BY DEF SerialUse, WebInit, Starts
  <1> QED BY <1>1, <1>2, <1>3, <1>4, <1>5 DEF InitSteps

LEMMA DataByBoot ==
  ASSUME TypeInv, SerialUse, SerialInv, DataInv, Boot
  PROVE  DataInv' /\ Moves
  <1>1. rows' = rows /\ req' = req /\ config.init
    BY DEF Boot
  <1>2. CASE Registered # {}
    <2>1. registry' = registry
      BY <1>2 DEF Boot
    <2>2. Registered' = Registered
      BY <2>1 DEF Registered
    <2>3. DataInv'
      BY <1>1, <2>1, <2>2 DEF DataInv, UnregisteredEmpty, Filling, DataFits
    <2> QED BY <1>1, <2>1, <2>3, StuttersUnlessRegistered
  <1>3. CASE Registered = {}
    <2>1. registry' = [registry EXCEPT ![INITIAL_VERSION] = "draft"]
      BY <1>3 DEF Boot
    <2>2. Drafts = {}
      BY <1>3 DEF Drafts, Registered
    \* Only an initialisation can be half-way: the others need a registered version.
    <2>3. PICK d \in Clients : Initialising(d)
      BY <1>1, <1>3 DEF SerialInv, ConfigFits
    <2>4. \A c \in Clients : req[c].pc \in {"inRow", "inRegister"}
      BY <2>3 DEF SerialUse, Initialising
    <2>5. UnregisteredEmpty' /\ Moves
      BY <1>1, <1>3, <2>1, <2>2, <2>4, FoundMoves
    <2>6. \A c \in Clients : DataFits(c)'
      BY <1>1, <2>4 DEF DataFits, Bound
    <2> QED BY <2>5, <2>6 DEF DataInv
  <1> QED BY <1>2, <1>3

LEMMA DataByEveryStep ==
  ASSUME TypeInv, SerialUse, SerialInv, DataInv, [Next]_vars
  PROVE  DataInv' /\ Moves
  <1>1. CASE UNCHANGED vars
    <2>1. rows' = rows /\ req' = req /\ registry' = registry /\ Registered' = Registered
      BY <1>1 DEF vars, Registered
    <2>2. DataInv'
      BY <2>1 DEF DataInv, UnregisteredEmpty, Filling, DataFits
    <2> QED BY <2>1, <2>2, StuttersUnlessRegistered
  <1>2. ASSUME NEW c \in Clients, Serve(c)  PROVE DataInv' /\ Moves
    BY <1>2, DataByWriteSteps, DataByBranchSteps, DataByLockSteps, DataByUnlockSteps,
       DataByPointerSteps, DataByInitSteps
       DEF Serve, LifecycleSteps
  <1>3. \A c \in Clients : ~Crash(c) /\ ~QueryError(c)
    BY DEF SerialUse, Crash, QueryError
  <1> QED BY <1>1, <1>2, <1>3, DataByBoot DEF Next

LEMMA DataInitially == Init => DataInv /\ Promise!PromiseInit
  <1> SUFFICES ASSUME Init  PROVE DataInv /\ Promise!PromiseInit
    OBVIOUS
  <1>1. DataInv
    BY DEF Init, DataInv, UnregisteredEmpty, Filling, DataFits, Idle, Bound
  <1>2. Registered = {}
    BY DEF Init, Registered
  <1>3. Promise!PromiseInit
    BY <1>2 DEF Init, Promise!PromiseInit, Promise!EmptyTable, Promise!NoRow, EmptyTable, NoRow
  <1> QED BY <1>1, <1>3

LEMMA AlwaysDataInv == SerialUse => (Spec => []DataInv)
  <1> SUFFICES ASSUME SerialUse  PROVE Spec => []DataInv
    OBVIOUS
  <1>1. TypeInv /\ SerialInv /\ DataInv /\ [Next]_vars => DataInv'
    BY DataByEveryStep
  <1> QED BY <1>1, DataInitially, AlwaysSerialInv, AlwaysTypeInv, PTL DEF Spec

(***************************************************************************)
(* Requests that do not overlap implement the promise: though createVersion*)
(* copies, registers and points in separate queries, and every write is    *)
(* apart from the guard that let it pass, the registry and the content of  *)
(* the registered versions move by SpecPromise's atomic operations only.   *)
(***************************************************************************)
THEOREM ImplementsPromise == SerialUse => (Spec => KeepsPromise)
  <1> SUFFICES ASSUME SerialUse  PROVE Spec => KeepsPromise
    OBVIOUS
  <1>1. Moves => [Promise!PromiseNext]_(Promise!promiseVars)
    BY DEF Moves, Promise!promiseVars, Content
  <1>2. TypeInv /\ SerialInv /\ DataInv /\ [Next]_vars => [Promise!PromiseNext]_(Promise!promiseVars)
    BY <1>1, DataByEveryStep
  <1>3. Init => Promise!PromiseInit
    BY DataInitially
  <1> QED BY <1>2, <1>3, AlwaysDataInv, AlwaysSerialInv, AlwaysTypeInv, PTL
          DEF Spec, KeepsPromise, Promise!PromiseSpec

-----------------------------------------------------------------------------
(***************************************************************************)
(* AllocatedIdsFresh: NextId is one more than the largest number in use,   *)
(* which there is because the ids are bounded; and alone, a request finds  *)
(* the id still free when it writes.                                       *)
(***************************************************************************)
IdsBounded == \E n \in Nat : \A id \in Ids : id <= n

\* A bounded non-empty set of naturals has a largest element: its least upper bound.
LEMMA MaxIsLargest ==
  ASSUME NEW S \in SUBSET Nat, NEW n \in Nat, \A x \in S : x <= n, NEW z \in S
  PROVE  Max(S) \in S /\ \A x \in S : Max(S) >= x
  <1> DEFINE Bounds == {b \in Nat : \A x \in S : x <= b}
  <1>1. PICK b \in Bounds : \A y \in Bounds : ~(<<y, b>> \in OpToRel(<, Nat))
    <2> HIDE DEF Bounds
    <2>1. Bounds \subseteq Nat /\ Bounds # {}
      BY DEF Bounds
    <2> QED BY <2>1, NatLessThanWellFounded, WFMin
  <1>2. \A y \in Bounds : ~(y < b)
    BY <1>1 DEF OpToRel
  <1>3. b \in S
    <2>1. CASE b = 0
      BY <2>1
    <2>2. CASE b # 0
      <3>1. b - 1 \in Nat /\ b - 1 < b
        BY <2>2
      <3>2. b - 1 \notin Bounds
        BY <1>2, <3>1
      <3>3. PICK x \in S : x > b - 1
        BY <3>1, <3>2
      <3> QED BY <3>3
    <2> QED BY <2>1, <2>2
  <1>4. \E x \in S : \A y \in S : x >= y
    BY <1>3
  <1> QED BY <1>4 DEF Max

\* No version uses the number NextId returns.
LEMMA NextIdUnused ==
  ASSUME IdsBounded, NEW used \in SUBSET Ids
  PROVE  NextId(used) \notin used
  <1>1. PICK n \in Nat : \A id \in Ids : id <= n
    BY DEF IdsBounded
  <1>2. PICK S : S = used \cup {0}
    OBVIOUS
  <1>3. S \in SUBSET Nat /\ (\A x \in S : x <= n) /\ 0 \in S
    BY <1>1, <1>2, IdsAssumption
  <1>4. Max(S) \in S /\ \A x \in S : Max(S) >= x
    BY <1>3, MaxIsLargest
  <1>5. NextId(used) = 1 + Max(S)
    BY <1>2 DEF NextId
  <1>6. PICK m : m = Max(S)
    OBVIOUS
  <1>7. m \in Nat /\ \A x \in S : m >= x
    BY <1>3, <1>4, <1>6
  <1>8. 1 + m \notin S
    BY <1>7
  <1> QED BY <1>2, <1>5, <1>6, <1>8

Writing == {"guard", "raw", "upsert"}

FreshFits(c) ==
    /\ req[c].pc = "read" => req[c].tool = "edit"
    /\ req[c].pc = "existing" => req[c].tool = "delete"
    /\ req[c].pc \in Writing /\ req[c].tool = "create"
          => \A v \in Versions : rows[v][req[c].id].st = "absent"

FreshInv == \A c \in Clients : FreshFits(c)

LEMMA FreshByOneClient ==
  ASSUME SerialUse, NEW c \in Clients, FreshFits(c)'
  PROVE  FreshInv'
  <1>1. \A d \in Clients : d = c
    BY DEF SerialUse
  <1> QED BY <1>1 DEF FreshInv

LEMMA FreshElsewhere ==
  ASSUME SerialUse, NEW c \in Clients, req'[c].pc \notin Writing \cup {"read", "existing"}
  PROVE  FreshInv'
  <1>1. FreshFits(c)'
    BY DEF FreshFits
  <1> QED BY <1>1, FreshByOneClient

LEMMA FreshByEnding ==
  ASSUME TypeInv, SerialUse, NEW c \in Clients, Ends(c)
  PROVE  FreshInv'
  <1>1. req'[c].pc = "idle"
    BY EndsFreely DEF Idle
  <1> QED BY <1>1, FreshElsewhere DEF Writing

\* A write that is not an automatic creation.
LEMMA FreshByNamedWrite ==
  ASSUME TypeInv, SerialUse, NEW c \in Clients, NEW r, Becomes(c, r), r.pc = "guard", r.tool # "create"
  PROVE  FreshInv'
  <1>1. req'[c] = r
    BY BecomesMoves
  <1>2. FreshFits(c)'
    BY <1>1 DEF FreshFits, Writing
  <1> QED BY <1>2, FreshByOneClient

LEMMA FreshByWriteSteps ==
  ASSUME IdsBounded, TypeInv, SerialUse, FreshInv, NEW c \in Clients, WriteSteps(c)
  PROVE  FreshInv'
  <1> USE DEF At
  <1>r. req[c] \in Request /\ Addressed(req[c]) /\ FreshFits(c)
    BY DEF TypeInv, SoundRequest, FreshInv
  <1>1. CASE BindConfig(c)
    <2>1. PICK tool \in RowTools, explicit \in Pointer, progress \in BOOLEAN,
               id \in Ids \cup {None} :
             /\ Starts(c, tool)
             /\ config.init
             /\ (tool = "create") <=> (id = None)
             /\ progress => tool = "edit" /\ id \notin PureSpec
             /\ Becomes(c, [Idle EXCEPT !.tool = tool, !.pc = "known", !.id = id,
                               !.ver = BindTarget(explicit, ~progress, config),
                               !.implicit = (explicit = None /\ ~progress),
                               !.progress = progress])
             /\ TablesSame
      BY <1>1, Zenon DEF BindConfig
    <2> DEFINE r == [Idle EXCEPT !.tool = tool, !.pc = "known", !.id = id,
                        !.ver = BindTarget(explicit, ~progress, config),
                        !.implicit = (explicit = None /\ ~progress),
                        !.progress = progress]
    <2>2. r.pc = "known"
      BY DEF Idle
    <2> HIDE DEF r
    <2>3. req'[c].pc = "known"
      BY <2>1, <2>2, BecomesMoves DEF r
    <2> QED BY <2>3, FreshElsewhere DEF Writing
  <1>2. CASE BindKnown(c)
    <2> DEFINE r == [req[c] EXCEPT !.pc = FirstStep(req[c].tool), !.implicit = FALSE]
    <2>1. req[c].tool \in RowTools
      BY <1>2, <1>r DEF BindKnown, Addressed
    <2>2. \/ FirstStep(req[c].tool) = "read" /\ req[c].tool = "edit"
          \/ FirstStep(req[c].tool) = "list"
          \/ FirstStep(req[c].tool) = "existing" /\ req[c].tool = "delete"
      BY <2>1 DEF FirstStep, RowTools
    <2>3. r.pc = FirstStep(req[c].tool) /\ r.tool = req[c].tool
      BY <1>r DEF Request
    <2>4. Ends(c) \/ Becomes(c, r)
      BY <1>2 DEF BindKnown
    <2> HIDE DEF r
    <2>5. ASSUME Becomes(c, r)  PROVE FreshInv'
      <3>1. req'[c] = r
        BY <2>5, BecomesMoves
      <3>2. FreshFits(c)'
        BY <2>2, <2>3, <3>1 DEF FreshFits, Writing
      <3> QED BY <3>2, FreshByOneClient
    <2> QED BY <2>4, <2>5, FreshByEnding
  <1>3. CASE ReadRow(c)
    <2>1. /\ req[c].pc = "read"
          /\ Ends(c) \/ \E doc \in Row :
                Becomes(c, [req[c] EXCEPT !.pc = "guard", !.doc = doc, !.progress = FALSE])
      BY <1>3 DEF ReadRow
    <2>2. ASSUME NEW doc \in Row
          PROVE  LET r == [req[c] EXCEPT !.pc = "guard", !.doc = doc, !.progress = FALSE]
                 IN  r.pc = "guard" /\ r.tool # "create"
      BY <1>r, <2>1 DEF Request, FreshFits
    <2> QED BY <2>1, <2>2, FreshByEnding, FreshByNamedWrite
  <1>4. CASE ListRows(c)
    <2> DEFINE live == {id \in Ids : rows[req[c].ver][id].st = "live"}
               listed == [req[c] EXCEPT !.pc = "ids", !.live = live]
               named == [req[c] EXCEPT !.pc = "guard", !.doc = NewRow]
    <2>1. /\ listed.pc = "ids"
          /\ named.pc = "guard" /\ named.tool = req[c].tool
      BY <1>r DEF Request
    <2>2. Becomes(c, listed) \/ Ends(c) \/ (req[c].tool # "create" /\ Becomes(c, named))
      BY <1>4 DEF ListRows
    <2> HIDE DEF listed, named
    <2>3. ASSUME Becomes(c, listed)  PROVE FreshInv'
      <3>1. req'[c].pc = "ids"
        BY <2>1, <2>3, BecomesMoves
      <3> QED BY <3>1, FreshElsewhere DEF Writing
    <2> QED BY <2>1, <2>2, <2>3, FreshByEnding, FreshByNamedWrite
  <1>5. CASE AllocateId(c)
    <2> DEFINE r == [req[c] EXCEPT !.pc = "guard", !.id = NextId(IdsAcrossVersions),
                                   !.doc = NewRow, !.live = {}]
    <2>1. r.pc = "guard" /\ r.id = NextId(IdsAcrossVersions)
      BY <1>r DEF Request
    <2>2. /\ rows' = rows
          /\ Ends(c) \/ (NextId(IdsAcrossVersions) \in Ids /\ Becomes(c, r))
      BY <1>5 DEF AllocateId, TablesSame
    <2> HIDE DEF r
    <2>3. ASSUME NextId(IdsAcrossVersions) \in Ids, Becomes(c, r)  PROVE FreshInv'
      <3>1. req'[c] = r
        BY <2>3, BecomesMoves
      <3>2. NextId(IdsAcrossVersions) \notin IdsAcrossVersions
        BY NextIdUnused DEF IdsAcrossVersions
      <3>3. \A v \in Versions : rows[v][r.id].st = "absent"
        BY <2>1, <2>3, <3>2 DEF IdsAcrossVersions
      <3>4. FreshFits(c)'
        BY <2>1, <2>2, <3>1, <3>3 DEF FreshFits, Writing
      <3> QED BY <3>4, FreshByOneClient
    <2> QED BY <2>2, <2>3, FreshByEnding
  <1>6. CASE ReadExisting(c)
    <2> DEFINE row == rows[req[c].ver][req[c].id]
               r == [req[c] EXCEPT !.pc = "guard", !.doc = [row EXCEPT !.st = "removed"]]
    <2>1. r.pc = "guard" /\ r.tool # "create"
      BY <1>6, <1>r DEF Request, FreshFits, ReadExisting
    <2>2. Ends(c) \/ Becomes(c, r)
      BY <1>6 DEF ReadExisting
    <2> QED BY <2>1, <2>2, FreshByEnding, FreshByNamedWrite
  <1>7. CASE IsLocked(c) \/ AssertWritable(c)
    <2> DEFINE passed == [req[c] EXCEPT !.pc = "upsert", !.compared = TRUE]
    <2>1. /\ req[c].pc \in Writing /\ rows' = rows
          /\ Ends(c) \/ Goto(c, "raw") \/ Goto(c, "upsert") \/ Becomes(c, passed)
      BY <1>7 DEF IsLocked, AssertWritable, Writing, TablesSame
    <2>2. CASE Ends(c)
      BY <2>2, FreshByEnding
    <2>3. CASE ~Ends(c)
      <3>1. req'[c].tool = req[c].tool /\ req'[c].id = req[c].id /\ req'[c].pc \in {"raw", "upsert"}
        <4>1. Becomes(c, [req[c] EXCEPT !.pc = "raw"]) \/ Becomes(c, [req[c] EXCEPT !.pc = "upsert"])
              \/ Becomes(c, passed)
          BY <2>1, <2>3 DEF Goto
        <4>2. req'[c] = [req[c] EXCEPT !.pc = "raw"] \/ req'[c] = [req[c] EXCEPT !.pc = "upsert"]
              \/ req'[c] = passed
          BY <4>1, BecomesMoves
        <4> QED BY <1>r, <4>2 DEF Request
      <3>2. FreshFits(c)'
        BY <1>r, <2>1, <3>1 DEF FreshFits, Writing
      <3> QED BY <3>2, FreshByOneClient
    <2> QED BY <2>2, <2>3
  <1>8. CASE Upsert(c)
    BY <1>8, FreshByEnding DEF Upsert
  <1> QED BY <1>1, <1>2, <1>3, <1>4, <1>5, <1>6, <1>7, <1>8 DEF WriteSteps

\* The lifecycle and the initialisation never write an entity's row.
LEMMA FreshByOtherSteps ==
  ASSUME TypeInv, SerialUse, NEW c \in Clients, LifecycleSteps(c) \/ InitSteps(c)
  PROVE  FreshInv'
  <1>r. req[c] \in Request
    BY DEF TypeInv, SoundRequest
  <1>g. \A step : Goto(c, step) => req'[c].pc = step
    BY GotoMoves
  <1>b. \A r : Becomes(c, r) => req'[c] = r
    BY BecomesMoves
  <1>e. Ends(c) => req'[c].pc = "idle"
    BY EndsFreely DEF Idle
  <1>c. ASSUME NEW step, Becomes(c, [req[c] EXCEPT !.pc = step, !.cfg = config])
        PROVE  req'[c].pc = step
    <2>1. req'[c] = [req[c] EXCEPT !.pc = step, !.cfg = config]
      BY <1>c, BecomesMoves
    <2> QED BY <1>r, <2>1 DEF Request
  <1>1. CASE CvConfig(c) \/ CvList(c) \/ CvCopy(c) \/ CvRegister(c) \/ CvPoint(c) \/ CvDrop(c)
    <2>1. CvConfig(c) => req'[c].pc \in {"cvList"}
      BY <1>r, <1>g, <1>b, <1>e DEF CvConfig, Idle, Request
    <2>2. CvList(c) => req'[c].pc \in {"cvCopy", "idle"}
      BY <1>r, <1>g, <1>b, <1>e DEF CvList, Idle, Request
    <2>3. CvCopy(c) => req'[c].pc \in {"cvDrop", "cvRegister"}
      BY <1>r, <1>g, <1>b, <1>e DEF CvCopy, Idle, Request
    <2>4. CvRegister(c) => req'[c].pc \in {"cvPoint", "idle"}
      BY <1>r, <1>g, <1>b, <1>e DEF CvRegister, Idle, Request
    <2>5. CvPoint(c) => req'[c].pc \in {"idle"}
      BY <1>r, <1>g, <1>b, <1>e DEF CvPoint, Idle, Request
    <2>6. CvDrop(c) => req'[c].pc \in {"idle"}
      BY <1>r, <1>g, <1>b, <1>e DEF CvDrop, Idle, Request
    <2> QED BY <1>1, <2>1, <2>2, <2>3, <2>4, <2>5, <2>6, FreshElsewhere DEF Writing
  <1>2. CASE LkRow(c) \/ LkWrite(c) \/ LkConfig(c) \/ LkPoint(c)
    <2>1. LkRow(c) => req'[c].pc \in {"lkWrite"}
      BY <1>r, <1>g, <1>b, <1>e DEF LkRow, Idle, Request
    <2>2. LkWrite(c) => req'[c].pc \in {"lkConfig"}
      BY <1>r, <1>g, <1>b, <1>e DEF LkWrite, Idle, Request
    <2>3. LkConfig(c) => req'[c].pc \in {"lkPoint", "idle"}
      BY <1>c, <1>e DEF LkConfig
    <2>4. LkPoint(c) => req'[c].pc \in {"idle"}
      BY <1>r, <1>g, <1>b, <1>e DEF LkPoint, Idle, Request
    <2> QED BY <1>2, <2>1, <2>2, <2>3, <2>4, FreshElsewhere DEF Writing
  <1>3. CASE UlRow(c) \/ UlList(c) \/ UlWrite(c) \/ UlConfig(c) \/ UlPoint(c)
    <2>1. UlRow(c) => req'[c].pc \in {"ulList"}
      <3> SUFFICES ASSUME UlRow(c)  PROVE req'[c].pc = "ulList"
        OBVIOUS
      <3>1. PICK v \in Versions : Becomes(c, [Idle EXCEPT !.tool = "unlock_version", !.pc = "ulList",
                                                         !.ver = v, !.par = parent[v]])
        BY DEF UlRow
      <3> QED BY <1>b, <3>1 DEF Idle
    <2>2. UlList(c) => req'[c].pc \in {"ulWrite", "idle"}
      BY <1>r, <1>g, <1>b, <1>e DEF UlList, Idle, Request
    <2>3. UlWrite(c) => req'[c].pc \in {"ulConfig"}
      BY <1>r, <1>g, <1>b, <1>e DEF UlWrite, Idle, Request
    <2>4. UlConfig(c) => req'[c].pc \in {"ulPoint", "idle"}
      BY <1>c, <1>e DEF UlConfig
    <2>5. UlPoint(c) => req'[c].pc \in {"idle"}
      BY <1>r, <1>g, <1>b, <1>e DEF UlPoint, Idle, Request
    <2> QED BY <1>3, <2>1, <2>2, <2>3, <2>4, <2>5, FreshElsewhere DEF Writing
  <1>4. CASE SaList(c) \/ SaConfig(c) \/ SaPoint(c)
    <2>1. SaList(c) => req'[c].pc \in {"saConfig"}
      BY <1>r, <1>g, <1>b, <1>e DEF SaList, Idle, Request
    <2>2. SaConfig(c) => req'[c].pc \in {"saPoint", "idle"}
      BY <1>c, <1>e DEF SaConfig
    <2>3. SaPoint(c) => req'[c].pc \in {"idle"}
      BY <1>r, <1>g, <1>b, <1>e DEF SaPoint, Idle, Request
    <2> QED BY <1>4, <2>1, <2>2, <2>3, FreshElsewhere DEF Writing
  <1>5. CASE InitSteps(c)
    <2>0. ~WebInit(c)
      BY DEF SerialUse, WebInit, Starts
    <2>1. InRead(c) => req'[c].pc \in {"inWrite"}
      BY <1>r, <1>g, <1>b, <1>e DEF InRead, Idle, Request
    <2>2. InWrite(c) => req'[c].pc \in {"inRow"}
      BY <1>r, <1>g, <1>b, <1>e DEF InWrite, Idle, Request
    <2>3. InRow(c) => req'[c].pc \in {"inRegister", "idle"}
      BY <1>r, <1>g, <1>b, <1>e DEF InRow, Idle, Request
    <2>4. InRegister(c) => req'[c].pc \in {"idle"}
      BY <1>r, <1>g, <1>b, <1>e DEF InRegister, Idle, Request
    <2> QED BY <1>5, <2>0, <2>1, <2>2, <2>3, <2>4, FreshElsewhere DEF Writing, InitSteps
  <1> QED BY <1>1, <1>2, <1>3, <1>4, <1>5 DEF LifecycleSteps

LEMMA FreshByEveryStep ==
  ASSUME IdsBounded, TypeInv, SerialUse, FreshInv, [Next]_vars
  PROVE  FreshInv'
  <1>1. CASE UNCHANGED <<rows, req>>
    BY <1>1 DEF FreshInv, FreshFits
  <1>2. ASSUME NEW c \in Clients, Serve(c)  PROVE FreshInv'
    BY <1>2, FreshByWriteSteps, FreshByOtherSteps DEF Serve
  <1>3. \A c \in Clients : ~Crash(c) /\ ~QueryError(c)
    BY DEF SerialUse, Crash, QueryError
  <1> QED BY <1>1, <1>2, <1>3 DEF Next, Boot, vars

(***************************************************************************)
(* Requests that do not overlap never reuse an id: what nextId proposes    *)
(* from the ids of every version is still free in all of them, tombstones  *)
(* included, when the row is written.                                      *)
(***************************************************************************)
THEOREM IdsFreshSerially == SerialUse /\ IdsBounded => (Spec => AllocatedIdsFresh)
  <1> SUFFICES ASSUME SerialUse, IdsBounded  PROVE Spec => AllocatedIdsFresh
    OBVIOUS
  <1> DEFINE Fresh == \A c \in Clients :
                At(c, "upsert") /\ req[c].tool = "create" /\ rows' # rows
                    => \A v \in Versions : rows[v][req[c].id].st = "absent"
  <1>1. Init => FreshInv
    BY DEF Init, FreshInv, FreshFits, Idle, Writing
  <1>2. TypeInv /\ FreshInv /\ [Next]_vars => FreshInv'
    BY FreshByEveryStep
  <1>3. FreshInv => Fresh
    BY DEF FreshInv, FreshFits, At, Writing
  <1>4. FreshInv /\ [Next]_vars => [Fresh]_vars
    BY <1>3
  <1> QED BY <1>1, <1>2, <1>4, AlwaysTypeInv, PTL DEF Spec, AllocatedIdsFresh

-----------------------------------------------------------------------------
(***************************************************************************)
(* Carry-over.  A result recorded on a locked baseline that a report keeps *)
(* was a test of the story as the report's version has it; what a version  *)
(* accepts is what it inherits; and what a branch costs is in the version  *)
(* diff.                                                                   *)
(*                                                                         *)
(* CarryInv says that a frozen result saw what its version still holds.    *)
(* ShapeInv says what histories of versions look like: parents are older,  *)
(* which is why the recursion of ancestorChain ends and why it never meets *)
(* a version it has seen.                                                  *)
(***************************************************************************)
SawNow(run) ==
    /\ status[run.version] = "locked"
    /\ \A id \in Ids : run.saw[id] = storyFingerprint(content[run.version][id])

\* While a baseline is frozen its stories stay what they were at the run.
FrozenRunsFaithful == \A run \in runs : run.frozen => SawNow(run)

CarryInv == CarryTypeOK /\ FrozenRunsFaithful

(***************************************************************************)
(* What keep guarantees of a frozen result.                                *)
(***************************************************************************)
KeptRunsCurrent ==
    \A v \in Existing, chain \in Seq(Versions) :
        Len(chain) > 0 /\ chain[1] = v =>
            \A run \in runs :
                /\ keep(run, v, chain)
                /\ run.frozen
                /\ LinksOf[run.test] # {}
                => \E id \in LinksOf[run.test] :
                       run.saw[id] = storyFingerprint(content[v][id])

LEMMA FingerprintType ==
    ASSUME NEW row \in Row
    PROVE  storyFingerprint(row) \in Fingerprints
BY DEF storyFingerprint, Fingerprints, Row, NoFingerprint

\* Rows a lock cannot tell apart have one fingerprint.
LEMMA FrozenPartDecides ==
    ASSUME NEW before \in Row, NEW after \in Row, FrozenPart(before) = FrozenPart(after)
    PROVE  storyFingerprint(before) = storyFingerprint(after)
BY DEF FrozenPart, storyFingerprint, Row

LEMMA CarryRowTypes == NoRow \in Row /\ NewRow \in Row /\ EmptyTable \in Table
BY FieldsAssumption DEF NoRow, NewRow, EmptyTable, Row, Table

LEMMA CarryInitInv == CarryInit => CarryInv
<1> SUFFICES ASSUME CarryInit PROVE CarryInv
  OBVIOUS
<1>1. CarryTypeOK
  BY CarryRowTypes DEF CarryInit, CarryTypeOK, Status, Pointer
<1>2. FrozenRunsFaithful
  BY DEF CarryInit, FrozenRunsFaithful
<1> QED
  BY <1>1, <1>2 DEF CarryInv

\* Any write the lifecycle allows keeps the invariant.
LEMMA WriteKeepsInv ==
    ASSUME CarryInv, NEW v \in Versions, NEW id \in Ids, NEW row \in Row,
           Write(v, id, row), UNCHANGED <<branchedFrom, runs>>
    PROVE  CarryInv'
<1> USE DEF CarryInv
<1>1. content' = [content EXCEPT ![v][id] = row] /\ status' = status
  BY DEF Write
<1>2. content' \in [Versions -> Table]
  BY <1>1 DEF CarryTypeOK, Table
<1>3. CarryTypeOK'
  BY <1>1, <1>2 DEF CarryTypeOK
<1>4. ASSUME NEW run \in runs', run.frozen PROVE SawNow(run)'
  <2>1. run \in runs /\ run \in Run /\ SawNow(run)
    BY <1>4 DEF CarryTypeOK, FrozenRunsFaithful
  <2>2. run.version \in Versions
    BY <2>1 DEF Run
  <2>3. status'[run.version] = "locked"
    BY <1>1, <2>1 DEF SawNow
  <2>4. ASSUME NEW i \in Ids
        PROVE  run.saw[i] = storyFingerprint(content'[run.version][i])
    <3>1. CASE run.version = v /\ i = id
      <4>1. status[v] = "locked"
        BY <2>1, <3>1 DEF SawNow
      <4>2. FrozenPart(content[v][id]) = FrozenPart(row)
        BY <4>1 DEF Write
      <4>3. content[v][id] \in Row
        BY DEF CarryTypeOK, Table
      <4>4. storyFingerprint(content[v][id]) = storyFingerprint(row)
        BY <4>2, <4>3, FrozenPartDecides
      <4>5. content'[v][id] = row
        BY <1>1 DEF CarryTypeOK, Table
      <4>6. run.saw[id] = storyFingerprint(content[v][id])
        BY <2>1, <3>1 DEF SawNow
      <4> QED
        BY <3>1, <4>4, <4>5, <4>6
    <3>2. CASE ~(run.version = v /\ i = id)
      <4>1. content'[run.version][i] = content[run.version][i]
        BY <1>1, <2>2, <3>2 DEF CarryTypeOK, Table
      <4> QED
        BY <2>1, <4>1 DEF SawNow
    <3> QED
      BY <3>1, <3>2
  <2> QED
    BY <2>3, <2>4 DEF SawNow
<1> QED
  BY <1>3, <1>4 DEF FrozenRunsFaithful

LEMMA CarryStepInv == CarryInv /\ [CarryNext]_carryVars => CarryInv'
<1> SUFFICES ASSUME CarryInv, [CarryNext]_carryVars PROVE CarryInv'
  OBVIOUS
<1> USE DEF CarryInv
<1>1. ASSUME NEW v \in Versions, NEW id \in Ids, Edit(v, id) PROVE CarryInv'
  BY <1>1, WriteKeepsInv DEF Edit
<1>2. ASSUME NEW v \in Versions, NEW id \in Ids, Create(v, id) PROVE CarryInv'
  BY <1>2, CarryRowTypes, WriteKeepsInv DEF Create
<1>3. ASSUME NEW from \in Versions, NEW to \in Versions, BranchFrom(from, to) PROVE CarryInv'
  <2>1. LiveRows(content[from]) \in Table
    BY CarryRowTypes DEF LiveRows, CarryTypeOK, Table
  <2>2. CarryTypeOK'
    <3>1. content' \in [Versions -> Table]
      BY <1>3, <2>1 DEF BranchFrom, Branch, CarryTypeOK
    <3>2. status' \in [Versions -> Status] /\ branchedFrom' \in [Versions -> Pointer]
      BY <1>3 DEF BranchFrom, Branch, CarryTypeOK, Status, Pointer
    <3> QED
      BY <1>3, <3>1, <3>2 DEF BranchFrom, CarryTypeOK
  <2>3. ASSUME NEW run \in runs', run.frozen PROVE SawNow(run)'
    <3>1. run \in runs /\ run \in Run /\ SawNow(run)
      BY <1>3, <2>3 DEF BranchFrom, CarryTypeOK, FrozenRunsFaithful
    <3>2. run.version \in Versions /\ run.version # to
      BY <1>3, <3>1 DEF BranchFrom, Branch, SawNow, Existing, Run
    <3>3. content'[run.version] = content[run.version] /\ status'[run.version] = "locked"
      BY <1>3, <3>1, <3>2 DEF BranchFrom, Branch, CarryTypeOK, SawNow
    <3> QED
      BY <3>1, <3>3 DEF SawNow
  <2> QED
    BY <2>2, <2>3 DEF FrozenRunsFaithful
<1>4. ASSUME NEW v \in Versions, LockIt(v) PROVE CarryInv'
  <2>1. CarryTypeOK'
    BY <1>4 DEF LockIt, Lock, CarryTypeOK, Status
  <2>2. ASSUME NEW run \in runs', run.frozen PROVE SawNow(run)'
    <3>1. run \in runs /\ run \in Run /\ SawNow(run)
      BY <1>4, <2>2 DEF LockIt, CarryTypeOK, FrozenRunsFaithful
    <3>2. run.version \in Versions
      BY <3>1 DEF Run
    <3>3. content' = content /\ status'[run.version] = "locked"
      BY <1>4, <3>1, <3>2 DEF LockIt, Lock, CarryTypeOK, SawNow
    <3> QED
      BY <3>1, <3>3 DEF SawNow
  <2> QED
    BY <2>1, <2>2 DEF FrozenRunsFaithful
<1>5. ASSUME NEW v \in Versions, UnlockIt(v) PROVE CarryInv'
  <2> DEFINE after(run) == IF run.version = v THEN [run EXCEPT !.frozen = FALSE] ELSE run
  <2>1. runs' = {after(run) : run \in runs}
    BY <1>5 DEF UnlockIt
  <2>2. \A run \in Run : after(run) \in Run
    BY DEF Run
  <2>3. CarryTypeOK'
    <3>1. runs' \subseteq Run
      BY <2>1, <2>2 DEF CarryTypeOK
    <3> QED
      BY <1>5, <3>1 DEF UnlockIt, Unlock, CarryTypeOK, Status
  <2>4. ASSUME NEW run \in runs', run.frozen PROVE SawNow(run)'
    <3>1. PICK old \in runs : run = after(old)
      BY <2>1, <2>4
    <3>2. old \in Run
      BY DEF CarryTypeOK
    <3>3. old.version # v
      BY <2>4, <3>1, <3>2 DEF Run
    <3>4. run = old /\ SawNow(run) /\ run.version \in Versions
      BY <2>4, <3>1, <3>2, <3>3 DEF FrozenRunsFaithful, Run
    <3>5. content' = content /\ status'[run.version] = "locked"
      BY <1>5, <3>3, <3>4 DEF UnlockIt, Unlock, CarryTypeOK, SawNow
    <3> QED
      BY <3>4, <3>5 DEF SawNow
  <2> QED
    BY <2>3, <2>4 DEF FrozenRunsFaithful
<1>6. ASSUME NEW v \in Versions, NEW test \in Tests, Record(v, test) PROVE CarryInv'
  <2> DEFINE saw == [id \in Ids |-> storyFingerprint(content[v][id])]
             new == [version |-> v, test |-> test, frozen |-> status[v] = "locked", saw |-> saw]
  <2>1. runs' = runs \cup {new} /\ content' = content /\ status' = status /\ branchedFrom' = branchedFrom
    BY <1>6 DEF Record
  <2>2. saw \in [Ids -> Fingerprints]
    BY FingerprintType DEF CarryTypeOK, Table
  <2>3. new \in Run
    BY <2>2 DEF Run
  <2>4. CarryTypeOK'
    BY <2>1, <2>3 DEF CarryTypeOK
  <2>5. new.frozen => SawNow(new)
    BY DEF SawNow
  <2>6. FrozenRunsFaithful'
    BY <2>1, <2>5 DEF FrozenRunsFaithful, SawNow
  <2> QED
    BY <2>4, <2>6
<1>7. CASE UNCHANGED carryVars
  BY <1>7 DEF carryVars, CarryTypeOK, FrozenRunsFaithful, SawNow
<1> QED
  BY <1>1, <1>2, <1>3, <1>4, <1>5, <1>6, <1>7 DEF CarryNext, WriteStory, Operate

LEMMA CarryInvKept == CarryInv => KeptRunsCurrent
<1> SUFFICES ASSUME CarryInv,
                    NEW v \in Existing, NEW chain \in Seq(Versions),
                    Len(chain) > 0, chain[1] = v,
                    NEW run \in runs,
                    keep(run, v, chain), run.frozen, LinksOf[run.test] # {}
             PROVE  \E id \in LinksOf[run.test] :
                       run.saw[id] = storyFingerprint(content[v][id])
  BY DEF KeptRunsCurrent
<1>1. run \in Run /\ SawNow(run)
  BY DEF CarryInv, CarryTypeOK, FrozenRunsFaithful
<1>2. LinksOf[run.test] \subseteq Ids
  BY <1>1, LinksAssumption DEF Run
<1>3. CASE run.version = v
  BY <1>1, <1>2, <1>3 DEF SawNow
<1>4. CASE run.version # v
  <2>1. PICK id \in LinksOf[run.test] : Vouches(id, run, chain)
    BY <1>4 DEF keep
  <2>2. PICK n \in 1..Len(chain) :
            /\ run.version = chain[n]
            /\ \A j \in 1..n : storyFingerprint(content[chain[j]][id])
                                  = storyFingerprint(content[chain[1]][id])
    BY <2>1 DEF Vouches, acceptedVersions
  <2>3. storyFingerprint(content[run.version][id]) = storyFingerprint(content[v][id])
    BY <2>2
  <2> QED
    BY <1>1, <1>2, <2>1, <2>3 DEF SawNow
<1> QED
  BY <1>3, <1>4

-----------------------------------------------------------------------------
(***************************************************************************)
(* The shape of the histories: a version is newer than its parent, there   *)
(* are finitely many, and a story is never soft-deleted.                   *)
(***************************************************************************)
BranchedLater == \A v \in Versions : branchedFrom[v] < v
Bounded == \E n \in Nat : \A v \in Existing : v <= n
NoTombstones == \A v \in Versions, id \in Ids : content[v][id].st # "removed"

ShapeInv == BranchedLater /\ Bounded /\ NoTombstones

LEMMA ShapeInit == CarryInit => ShapeInv
<1> SUFFICES ASSUME CarryInit PROVE ShapeInv
  OBVIOUS
<1>1. BranchedLater
  BY VersionsAssumption DEF CarryInit, BranchedLater, None
<1>2. Bounded
  <2>1. \A v \in Existing : v <= 1
    BY DEF CarryInit, Existing, INITIAL_VERSION
  <2> QED BY <2>1 DEF Bounded
<1>3. NoTombstones
  BY DEF CarryInit, NoTombstones, EmptyTable, NoRow
<1> QED BY <1>1, <1>2, <1>3 DEF ShapeInv

LEMMA WriteKeepsShape ==
    ASSUME CarryTypeOK, ShapeInv, NEW v \in Versions, NEW id \in Ids, NEW row,
           row.st = "live", Write(v, id, row), branchedFrom' = branchedFrom
    PROVE  ShapeInv'
<1>1. content' = [content EXCEPT ![v][id] = row] /\ status' = status
  BY DEF Write
<1>2. BranchedLater' /\ Bounded'
  BY <1>1 DEF ShapeInv, BranchedLater, Bounded, Existing
<1>3. NoTombstones'
  <2> SUFFICES ASSUME NEW u \in Versions, NEW i \in Ids
               PROVE  content'[u][i].st # "removed"
    BY DEF NoTombstones
  <2>1. CASE u = v /\ i = id
    BY <1>1, <2>1 DEF CarryTypeOK, Table
  <2>2. CASE ~(u = v /\ i = id)
    <3>1. content'[u][i] = content[u][i]
      BY <1>1, <2>2 DEF CarryTypeOK, Table
    <3> QED BY <3>1 DEF ShapeInv, NoTombstones
  <2> QED BY <2>1, <2>2
<1> QED BY <1>2, <1>3 DEF ShapeInv

LEMMA ShapeStep == CarryTypeOK /\ ShapeInv /\ [CarryNext]_carryVars => ShapeInv'
<1> SUFFICES ASSUME CarryTypeOK, ShapeInv, [CarryNext]_carryVars PROVE ShapeInv'
  OBVIOUS
<1>1. ASSUME NEW v \in Versions, NEW id \in Ids, Edit(v, id) PROVE ShapeInv'
  BY <1>1, WriteKeepsShape DEF Edit
<1>2. ASSUME NEW v \in Versions, NEW id \in Ids, Create(v, id) PROVE ShapeInv'
  BY <1>2, WriteKeepsShape DEF Create, NewRow
<1>3. ASSUME NEW from \in Versions, NEW to \in Versions, BranchFrom(from, to) PROVE ShapeInv'
  <2>1. from < to /\ status' = [status EXCEPT ![to] = "draft"]
        /\ content' = [content EXCEPT ![to] = LiveRows(content[from])]
        /\ branchedFrom' = [branchedFrom EXCEPT ![to] = from]
    BY <1>3, VersionsAssumption DEF BranchFrom, Branch
  <2>2. BranchedLater'
    BY <2>1 DEF ShapeInv, BranchedLater, CarryTypeOK
  <2>3. Bounded'
    <3>1. PICK n \in Nat : \A v \in Existing : v <= n
      BY DEF ShapeInv, Bounded
    <3>2. Existing' \subseteq Existing \cup {to}
      BY <2>1 DEF Existing, CarryTypeOK
    <3>3. to \in Nat /\ \A v \in Existing : v \in Nat
      BY VersionsAssumption DEF Existing
    <3>4. n + to \in Nat /\ \A v \in Existing' : v <= n + to
      BY <3>1, <3>2, <3>3
    <3> QED BY <3>4 DEF Bounded
  <2>4. NoTombstones'
    <3> SUFFICES ASSUME NEW u \in Versions, NEW i \in Ids
                 PROVE  content'[u][i].st # "removed"
      BY DEF NoTombstones
    <3>1. CASE u = to
      BY <2>1, <3>1 DEF CarryTypeOK, LiveRows, NoRow
    <3>2. CASE u # to
      BY <2>1, <3>2 DEF CarryTypeOK, ShapeInv, NoTombstones
    <3> QED BY <3>1, <3>2
  <2> QED BY <2>2, <2>3, <2>4 DEF ShapeInv
<1>4. ASSUME NEW v \in Versions, LockIt(v) \/ UnlockIt(v) PROVE ShapeInv'
  <2>1. branchedFrom' = branchedFrom /\ content' = content /\ Existing' = Existing
    BY <1>4 DEF LockIt, UnlockIt, Lock, Unlock, Existing, CarryTypeOK
  <2> QED BY <2>1 DEF ShapeInv, BranchedLater, Bounded, NoTombstones
<1>5. ASSUME NEW v \in Versions, NEW test \in Tests, Record(v, test) PROVE ShapeInv'
  BY <1>5 DEF Record, ShapeInv, BranchedLater, Bounded, NoTombstones, Existing
<1>6. CASE UNCHANGED carryVars
  BY <1>6 DEF carryVars, ShapeInv, BranchedLater, Bounded, NoTombstones, Existing
<1> QED
  BY <1>1, <1>2, <1>3, <1>4, <1>5, <1>6 DEF CarryNext, WriteStory, Operate

-----------------------------------------------------------------------------
(***************************************************************************)
(* The recursion of ancestorChain.  It has a value because a version is    *)
(* newer than its parent; what is said of it for a version is shown by     *)
(* induction on the version, as a set of naturals closed under successor.  *)
(***************************************************************************)
LEMMA ClosedIsNat ==
    ASSUME NEW S \in SUBSET Nat, 0 \in S, \A n \in S : n + 1 \in S
    PROVE  S = Nat
<1> DEFINE Bad == Nat \ S
<1> SUFFICES ASSUME Bad # {} PROVE FALSE
  OBVIOUS
<1>1. PICK n \in Bad : \A m \in Bad : ~(<<m, n>> \in OpToRel(<, Nat))
  <2>1. Bad \subseteq Nat /\ Bad # {}
    OBVIOUS
  <2> HIDE DEF Bad
  <2> QED BY <2>1, NatLessThanWellFounded, WFMin
<1>2. \A m \in Bad : ~(m < n)
  BY <1>1 DEF OpToRel
<1>3. n # 0
  BY <1>2
<1>4. n - 1 \in S
  <2>1. n - 1 \in Nat /\ n - 1 < n
    BY <1>2, <1>3
  <2> QED BY <1>2, <2>1
<1>5. (n - 1) + 1 \in S
  BY <1>4
<1> QED BY <1>2, <1>5

Walks == (SUBSET Versions) \X Pointer
Goes(at) == at[2] \in Existing \ at[1]
Onward(at) == <<at[1] \cup {at[2]}, branchedFrom[at[2]]>>
Unfold(f) == [at \in Walks |-> IF Goes(at) THEN <<at[2]>> \o f[Onward(at)] ELSE <<>>]

LEMMA CursorIsNat == \A at \in Walks : at[2] \in Pointer /\ at[2] \in Nat
<1>1. Pointer \subseteq Nat
  BY VersionsAssumption DEF Pointer, None
<1>2. \A at \in Walks : at[2] \in Pointer
  BY DEF Walks
<1> QED BY <1>1, <1>2

LEMMA OnwardOlder ==
    ASSUME CarryTypeOK, ShapeInv, NEW at \in Walks, Goes(at)
    PROVE  Onward(at) \in Walks /\ Onward(at)[2] < at[2]
<1>1. at[1] \in SUBSET Versions /\ at[2] \in Versions
  BY DEF Walks, Goes, Existing
<1>2. branchedFrom[at[2]] \in Pointer /\ branchedFrom[at[2]] < at[2]
  BY <1>1 DEF CarryTypeOK, ShapeInv, BranchedLater
<1> QED BY <1>1, <1>2 DEF Onward, Walks

LEMMA UnfoldType ==
    ASSUME CarryTypeOK, ShapeInv, NEW g \in [Walks -> Seq(Versions)]
    PROVE  Unfold(g) \in [Walks -> Seq(Versions)]
<1> SUFFICES ASSUME NEW at \in Walks
             PROVE  (IF Goes(at) THEN <<at[2]>> \o g[Onward(at)] ELSE <<>>) \in Seq(Versions)
  BY DEF Unfold
<1>1. CASE Goes(at)
  <2>1. at[2] \in Versions
    BY <1>1 DEF Goes, Existing
  <2>2. <<at[2]>> \in Seq(Versions)
    BY <2>1
  <2>3. g[Onward(at)] \in Seq(Versions)
    BY <1>1, OnwardOlder
  <2>4. <<at[2]>> \o g[Onward(at)] \in Seq(Versions)
    BY <2>2, <2>3, ConcatProperties
  <2> QED BY <1>1, <2>4
<1>2. CASE ~Goes(at)
  BY <1>2, EmptySeq
<1> QED BY <1>1, <1>2

\* An approximation that is right about the cursors below n.
RightBelow(g, n) == \A at \in Walks : at[2] < n => g[at] = Unfold(g)[at]

LEMMA OneStepFurther ==
    ASSUME CarryTypeOK, ShapeInv, NEW n \in Nat,
           NEW g \in [Walks -> Seq(Versions)], RightBelow(g, n)
    PROVE  RightBelow(Unfold(g), n + 1)
<1> SUFFICES ASSUME NEW at \in Walks, at[2] < n + 1
             PROVE  Unfold(g)[at] = Unfold(Unfold(g))[at]
  BY DEF RightBelow
<1>1. CASE Goes(at)
  <2>1. Onward(at) \in Walks /\ Onward(at)[2] < at[2]
    BY <1>1, OnwardOlder
  <2>2. Onward(at)[2] < n
    <3>1. at[2] \in Nat /\ Onward(at)[2] \in Nat
      BY <2>1, CursorIsNat
    <3> QED BY <2>1, <3>1
  <2>3. g[Onward(at)] = Unfold(g)[Onward(at)]
    BY <2>1, <2>2 DEF RightBelow
  <2>4. Unfold(g)[at] = <<at[2]>> \o g[Onward(at)]
    BY <1>1 DEF Unfold
  <2>5. Unfold(Unfold(g))[at] = <<at[2]>> \o Unfold(g)[Onward(at)]
    BY <1>1 DEF Unfold
  <2> QED BY <2>3, <2>4, <2>5
<1>2. CASE ~Goes(at)
  BY <1>2 DEF Unfold
<1> QED BY <1>1, <1>2

LEMMA Approximated ==
    ASSUME CarryTypeOK, ShapeInv, NEW n \in Nat
    PROVE  \E g \in [Walks -> Seq(Versions)] : RightBelow(g, n)
<1> DEFINE S == {m \in Nat : \E g \in [Walks -> Seq(Versions)] : RightBelow(g, m)}
<1>1. 0 \in S
  <2> DEFINE g == [at \in Walks |-> <<>>]
  <2>1. g \in [Walks -> Seq(Versions)]
    BY EmptySeq
  <2>2. \A at \in Walks : ~(at[2] < 0)
    BY CursorIsNat
  <2>3. RightBelow(g, 0)
    BY <2>2 DEF RightBelow
  <2> QED BY <2>1, <2>3
<1>2. ASSUME NEW m \in S PROVE m + 1 \in S
  <2>1. PICK g \in [Walks -> Seq(Versions)] : RightBelow(g, m)
    OBVIOUS
  <2>2. RightBelow(Unfold(g), m + 1)
    BY <2>1, OneStepFurther
  <2>3. Unfold(g) \in [Walks -> Seq(Versions)]
    BY UnfoldType
  <2>4. m + 1 \in Nat
    OBVIOUS
  <2> QED BY <2>2, <2>3, <2>4
<1>3. S \in SUBSET Nat
  OBVIOUS
<1>4. S = Nat
  <2> HIDE DEF S
  <2> QED BY <1>1, <1>2, <1>3, ClosedIsNat
<1> QED BY <1>4

(***************************************************************************)
(* The walk is the function its definition says it is.                     *)
(***************************************************************************)
LEMMA WalkUnfolds ==
    ASSUME CarryTypeOK, ShapeInv
    PROVE  walk = Unfold(walk)
<1>1. PICK n \in Nat : \A v \in Existing : v <= n
  BY DEF ShapeInv, Bounded
<1>2. PICK g \in [Walks -> Seq(Versions)] : RightBelow(g, n + 1)
  <2>1. n + 1 \in Nat
    OBVIOUS
  <2> QED BY <2>1, Approximated
<1> DEFINE h == Unfold(g)
<1>3. h \in [Walks -> Seq(Versions)]
  BY UnfoldType
<1>4. ASSUME NEW at \in Walks PROVE h[at] = Unfold(h)[at]
  <2>1. CASE Goes(at)
    <3>1. at[2] < n + 1
      <4>1. at[2] \in Existing /\ at[2] \in Nat
        BY <2>1, VersionsAssumption DEF Goes, Existing
      <4> QED BY <1>1, <4>1
    <3>2. Onward(at) \in Walks /\ Onward(at)[2] < n + 1
      <4>1. Onward(at) \in Walks /\ Onward(at)[2] < at[2]
        BY <2>1, OnwardOlder
      <4>2. at[2] \in Nat /\ Onward(at)[2] \in Nat
        BY <4>1, CursorIsNat
      <4> QED BY <3>1, <4>1, <4>2
    <3>3. g[Onward(at)] = h[Onward(at)]
      BY <1>2, <3>2 DEF RightBelow
    <3>4. h[at] = <<at[2]>> \o g[Onward(at)]
      BY <2>1 DEF Unfold
    <3>5. Unfold(h)[at] = <<at[2]>> \o h[Onward(at)]
      BY <2>1 DEF Unfold
    <3> QED BY <3>3, <3>4, <3>5
  <2>2. CASE ~Goes(at)
    BY <2>2 DEF Unfold
  <2> QED BY <2>1, <2>2
<1>5. h = Unfold(h)
  <2>1. Unfold(h) \in [Walks -> Seq(Versions)]
    BY <1>3, UnfoldType
  <2> HIDE DEF h
  <2> QED BY <1>3, <1>4, <2>1
<1>6. walk = CHOOSE f : f = Unfold(f)
  BY DEF walk, Unfold, Goes, Onward, Walks
<1> HIDE DEF h
<1> QED BY <1>5, <1>6

LEMMA WalkOnward ==
    ASSUME CarryTypeOK, ShapeInv, NEW at \in Walks
    PROVE  walk[at] = IF Goes(at) THEN <<at[2]>> \o walk[Onward(at)] ELSE <<>>
<1>1. PICK w : w = walk
  OBVIOUS
<1>2. w = Unfold(w)
  BY <1>1, WalkUnfolds
<1>3. w = [x \in Walks |-> IF Goes(x) THEN <<x[2]>> \o w[Onward(x)] ELSE <<>>]
  BY <1>2 DEF Unfold
<1>4. w[at] = IF Goes(at) THEN <<at[2]>> \o w[Onward(at)] ELSE <<>>
  BY <1>3
<1> QED BY <1>1, <1>4

LEMMA WalkType ==
    ASSUME CarryTypeOK, ShapeInv, NEW at \in Walks
    PROVE  walk[at] \in Seq(Versions)
<1> DEFINE S == {n \in Nat : \A x \in Walks : x[2] < n => walk[x] \in Seq(Versions)}
<1>1. \A x \in Walks : x[2] \in Nat
  BY CursorIsNat
<1>2. 0 \in S
  BY <1>1
<1>3. ASSUME NEW n \in S PROVE n + 1 \in S
  <2> SUFFICES ASSUME NEW x \in Walks, x[2] < n + 1 PROVE walk[x] \in Seq(Versions)
    OBVIOUS
  <2>1. CASE Goes(x)
    <3>1. Onward(x) \in Walks /\ Onward(x)[2] < x[2]
      BY <2>1, OnwardOlder
    <3>2. Onward(x)[2] < n
      BY <1>1, <3>1
    <3>3. walk[Onward(x)] \in Seq(Versions)
      BY <3>1, <3>2
    <3>4. x[2] \in Versions
      BY <2>1 DEF Goes, Existing
    <3>5. <<x[2]>> \in Seq(Versions)
      BY <3>4
    <3>6. <<x[2]>> \o walk[Onward(x)] \in Seq(Versions)
      BY <3>3, <3>5, ConcatProperties
    <3> QED BY <2>1, <3>6, WalkOnward
  <2>2. CASE ~Goes(x)
    BY <2>2, WalkOnward, EmptySeq
  <2> QED BY <2>1, <2>2
<1>4. S = Nat
  <2>1. S \in SUBSET Nat
    OBVIOUS
  <2> HIDE DEF S
  <2> QED BY <1>2, <1>3, <2>1, ClosedIsNat
<1>5. at[2] + 1 \in Nat /\ at[2] < at[2] + 1
  BY <1>1
<1>6. at[2] + 1 \in S
  BY <1>4, <1>5
<1> QED BY <1>5, <1>6

\* What was seen is newer than the cursor, so it does not matter.
LEMMA SeenNeverMatters ==
    ASSUME CarryTypeOK, ShapeInv, NEW w \in Pointer, NEW seen \in SUBSET Versions,
           \A u \in seen : u > w
    PROVE  walk[<<seen, w>>] = walk[<<{}, w>>]
<1> DEFINE Alike(v, A, B) == walk[<<A, v>>] = walk[<<B, v>>]
           Newer(A, v) == \A u \in A : u > v
           S == {n \in Nat : \A v \in Pointer : \A A, B \in SUBSET Versions :
                     v < n /\ Newer(A, v) /\ Newer(B, v) => Alike(v, A, B)}
<1>1. Pointer \subseteq Nat
  BY VersionsAssumption DEF Pointer, None
<1>2. 0 \in S
  BY <1>1
<1>3. ASSUME NEW n \in S PROVE n + 1 \in S
  <2> SUFFICES ASSUME NEW v \in Pointer, NEW A \in SUBSET Versions, NEW B \in SUBSET Versions,
                      v < n + 1, Newer(A, v), Newer(B, v)
               PROVE  Alike(v, A, B)
    OBVIOUS
  <2>1. v \notin A /\ v \notin B /\ v \in Nat
    <3>1. v \in Nat /\ ~(v > v)
      BY <1>1
    <3>2. Newer(A, v) /\ Newer(B, v)
      OBVIOUS
    <3> QED BY <3>1, <3>2
  <2>2. <<A, v>> \in Walks /\ <<B, v>> \in Walks
    BY DEF Walks
  <2>3. CASE v \in Existing
    <3>1. Goes(<<A, v>>) /\ Goes(<<B, v>>)
      BY <2>1, <2>3 DEF Goes
    <3>2. v \in Versions
      BY <2>3 DEF Existing
    <3>3. branchedFrom[v] \in Pointer /\ branchedFrom[v] < v /\ branchedFrom[v] \in Nat
      BY <1>1, <3>2 DEF CarryTypeOK, ShapeInv, BranchedLater
    <3>4. A \cup {v} \in SUBSET Versions /\ B \cup {v} \in SUBSET Versions
      BY <3>2
    <3>5. branchedFrom[v] < n
      BY <2>1, <3>3
    <3>6. Newer(A \cup {v}, branchedFrom[v]) /\ Newer(B \cup {v}, branchedFrom[v])
      BY <1>1, <2>1, <3>3, VersionsAssumption
    <3>7. Alike(branchedFrom[v], A \cup {v}, B \cup {v})
      <4> HIDE DEF Alike, Newer
      <4> QED BY <3>3, <3>4, <3>5, <3>6
    <3>8. walk[<<A, v>>] = <<v>> \o walk[<<A \cup {v}, branchedFrom[v]>>]
      BY <2>2, <3>1, WalkOnward DEF Onward
    <3>9. walk[<<B, v>>] = <<v>> \o walk[<<B \cup {v}, branchedFrom[v]>>]
      BY <2>2, <3>1, WalkOnward DEF Onward
    <3> QED BY <3>7, <3>8, <3>9
  <2>4. CASE v \notin Existing
    BY <2>2, <2>4, WalkOnward DEF Goes
  <2> QED BY <2>3, <2>4
<1>4. S = Nat
  <2>1. S \in SUBSET Nat
    OBVIOUS
  <2> HIDE DEF S
  <2> QED BY <1>2, <1>3, <2>1, ClosedIsNat
<1>5. w + 1 \in S /\ w < w + 1
  <2>1. w + 1 \in Nat /\ w < w + 1
    BY <1>1
  <2> HIDE DEF S
  <2> QED BY <1>4, <2>1
<1>6. Newer({}, w) /\ Newer(seen, w) /\ {} \in SUBSET Versions
  OBVIOUS
<1>7. Alike(w, seen, {})
  <2> HIDE DEF Alike, Newer
  <2> QED BY <1>5, <1>6
<1> QED BY <1>7

(***************************************************************************)
(* The chain of a version is the version and the chain of its parent.      *)
(***************************************************************************)
LEMMA ChainIsInherited ==
    ASSUME CarryTypeOK, ShapeInv, NEW v \in Existing
    PROVE  /\ v \in Versions
           /\ ancestorChain(v) \in Seq(Versions)
           /\ ancestorChain(v) = IF branchedFrom[v] \in Existing
                                   THEN <<v>> \o ancestorChain(branchedFrom[v]) ELSE <<v>>
<1>1. v \in Versions /\ v \in Pointer
  BY DEF Existing, Pointer
<1>2. PICK p \in Pointer : p = branchedFrom[v]
  BY <1>1 DEF CarryTypeOK
<1>3. p < v /\ v \in Nat /\ p \in Nat
  BY <1>1, <1>2, VersionsAssumption DEF ShapeInv, BranchedLater, Pointer, None
<1>4. \A u \in Pointer : <<{}, u>> \in Walks /\ Onward(<<{}, u>>) = <<{u}, branchedFrom[u]>>
                         /\ (Goes(<<{}, u>>) <=> u \in Existing)
  <2>1. \A u : {} \cup {u} = {u}
    OBVIOUS
  <2> QED BY <2>1 DEF Walks, Onward, Goes
<1>5. walk[<<{v}, p>>] = walk[<<{}, p>>]
  BY <1>1, <1>3, SeenNeverMatters
<1>6. walk[<<{}, v>>] = <<v>> \o walk[<<{}, p>>]
  <2>1. <<{}, v>> \in Walks /\ Onward(<<{}, v>>) = <<{v}, p>> /\ Goes(<<{}, v>>)
    BY <1>1, <1>2, <1>4
  <2>2. <<{}, v>>[2] = v
    OBVIOUS
  <2>3. PICK at \in Walks : at = <<{}, v>>
    BY <2>1
  <2>4. walk[at] = <<at[2]>> \o walk[Onward(at)]
    BY <2>1, <2>3, WalkOnward
  <2> QED BY <1>5, <2>1, <2>2, <2>3, <2>4
<1>7. <<v>> \in Seq(Versions)
  BY <1>1
<1>8. \A u \in Existing : walk[<<{}, u>>] # <<>>
  <2> SUFFICES ASSUME NEW u \in Existing PROVE walk[<<{}, u>>] # <<>>
    OBVIOUS
  <2>1. u \in Versions /\ u \in Pointer
    BY DEF Existing, Pointer
  <2>2. walk[<<{}, u>>] = <<u>> \o walk[<<{u}, branchedFrom[u]>>]
    BY <1>4, <2>1, WalkOnward
  <2>3. <<u>> \in Seq(Versions) /\ <<{u}, branchedFrom[u]>> \in Walks
    BY <2>1 DEF CarryTypeOK, Walks
  <2>4. walk[<<{u}, branchedFrom[u]>>] \in Seq(Versions)
    BY <2>3, WalkType
  <2>5. Len(<<u>> \o walk[<<{u}, branchedFrom[u]>>]) = 1 + Len(walk[<<{u}, branchedFrom[u]>>])
    BY <2>3, <2>4, ConcatProperties
  <2>6. Len(walk[<<{u}, branchedFrom[u]>>]) \in Nat
    BY <2>4, LenProperties
  <2>7. Len(walk[<<{}, u>>]) # 0
    BY <2>2, <2>5, <2>6
  <2> QED BY <2>7, EmptySeq
<1>9. ancestorChain(v) = walk[<<{}, v>>]
  BY <1>8 DEF ancestorChain
<1>10. ancestorChain(v) \in Seq(Versions)
  BY <1>1, <1>4, <1>9, WalkType
<1>11. CASE p \in Existing
  <2>1. ancestorChain(p) = walk[<<{}, p>>]
    BY <1>8, <1>11 DEF ancestorChain
  <2> QED BY <1>1, <1>2, <1>6, <1>9, <1>10, <1>11, <2>1
<1>12. CASE p \notin Existing
  <2>1. walk[<<{}, p>>] = <<>>
    BY <1>4, <1>12, WalkOnward
  <2>2. ancestorChain(v) = <<v>>
    BY <1>6, <1>7, <1>9, <2>1, ConcatEmptySeq
  <2> QED BY <1>1, <1>2, <1>10, <1>12, <2>2
<1> QED BY <1>11, <1>12

LEMMA OneLong ==
    ASSUME NEW v \in Existing
    PROVE  v \in Versions /\ <<v>> \in Seq(Versions) /\ <<v>>[1] = v /\ Len(<<v>>) = 1
<1>1. v \in Versions
  BY DEF Existing
<1> QED BY <1>1

LEMMA ChainStart ==
    ASSUME CarryTypeOK, ShapeInv, NEW v \in Existing
    PROVE  /\ ancestorChain(v)[1] = v
           /\ Len(ancestorChain(v)) \in Nat \ {0}
           /\ branchedFrom[v] \in Existing => Len(ancestorChain(v)) > 1
           /\ branchedFrom[v] \notin Existing => Len(ancestorChain(v)) = 1
<1>1. v \in Versions /\ <<v>> \in Seq(Versions) /\ <<v>>[1] = v /\ Len(<<v>>) = 1
  BY OneLong
<1>2. CASE branchedFrom[v] \notin Existing
  <2>1. ancestorChain(v) = <<v>>
    BY <1>2, ChainIsInherited
  <2> QED BY <1>1, <1>2, <2>1
<1>3. CASE branchedFrom[v] \in Existing
  <2>1. PICK c : c = ancestorChain(branchedFrom[v])
    OBVIOUS
  <2>2. c \in Seq(Versions) /\ c # <<>>
    <3>1. c \in Seq(Versions)
      BY <1>3, <2>1, ChainIsInherited
    <3>2. PICK u : u = branchedFrom[v]
      OBVIOUS
    <3>3. u \in Existing /\ c = ancestorChain(u)
      BY <1>3, <2>1, <3>2
    <3>4. c # <<>>
      BY <3>1, <3>3, EmptySeq DEF ancestorChain
    <3> QED BY <3>1, <3>4
  <2>3. Len(c) \in Nat \ {0}
    BY <2>2, EmptySeq
  <2>4. ancestorChain(v) = <<v>> \o c
    BY <1>3, <2>1, ChainIsInherited
  <2>5. Len(<<v>> \o c) = 1 + Len(c) /\ (<<v>> \o c)[1] = v
    <3>1. 1 \in 1 .. Len(<<v>>) + Len(c)
      BY <1>1, <2>3
    <3> QED BY <1>1, <2>2, <3>1, ConcatProperties
  <2> QED BY <1>3, <2>3, <2>4, <2>5
<1> QED BY <1>2, <1>3

-----------------------------------------------------------------------------
(***************************************************************************)
(* What a version accepts is its own results and, for a story it shares    *)
(* with its parent, what the parent accepts.                               *)
(***************************************************************************)
LEMMA AcceptedFollows ==
    ASSUME CarryTypeOK, ShapeInv PROVE AcceptedByInheritance
<1> SUFFICES ASSUME NEW v \in Existing, NEW id \in Ids
             PROVE  acceptedVersions(ancestorChain(v), id) =
                      {v} \cup IF /\ branchedFrom[v] \in Existing
                                  /\ storyFingerprint(content[branchedFrom[v]][id])
                                       = storyFingerprint(content[v][id])
                               THEN acceptedVersions(ancestorChain(branchedFrom[v]), id) ELSE {}
  BY DEF AcceptedByInheritance
<1> DEFINE print(u) == storyFingerprint(content[u][id])
<1>1. v \in Versions /\ <<v>> \in Seq(Versions) /\ <<v>>[1] = v /\ Len(<<v>>) = 1
  BY OneLong
<1>2. CASE branchedFrom[v] \notin Existing
  <2>1. ancestorChain(v) = <<v>>
    BY <1>2, ChainIsInherited
  <2>2. acceptedVersions(<<v>>, id) = {v}
    BY <1>1 DEF acceptedVersions
  <2> QED BY <1>2, <2>1, <2>2
<1>3. CASE branchedFrom[v] \in Existing
  <2>1. PICK p : p = branchedFrom[v]
    OBVIOUS
  <2>2. PICK c : c = ancestorChain(p)
    OBVIOUS
  <2>3. PICK d : d = ancestorChain(v)
    OBVIOUS
  <2>4. c \in Seq(Versions) /\ c[1] = p /\ Len(c) \in Nat \ {0}
    BY <1>3, <2>1, <2>2, ChainIsInherited, ChainStart
  <2>5. d = <<v>> \o c
    BY <1>3, <2>1, <2>2, <2>3, ChainIsInherited
  <2>6. Len(d) = 1 + Len(c) /\ \A i \in 1 .. 1 + Len(c) : d[i] = IF i <= 1 THEN v ELSE c[i - 1]
    <3>1. Len(d) = Len(<<v>>) + Len(c) /\ \A i \in 1 .. Len(<<v>>) + Len(c) :
              d[i] = IF i <= Len(<<v>>) THEN <<v>>[i] ELSE c[i - Len(<<v>>)]
      BY <1>1, <2>4, <2>5, ConcatProperties
    <3>2. \A i \in 1 .. 1 + Len(c) : d[i] = IF i <= 1 THEN <<v>>[i] ELSE c[i - 1]
      BY <1>1, <3>1
    <3> QED BY <1>1, <2>4, <3>1, <3>2
  <2>7. d[1] = v /\ \A i \in 1 .. Len(c) : i + 1 \in 1 .. Len(d) /\ d[i + 1] = c[i]
    BY <2>4, <2>6
  <2> DEFINE sameAll(s, i) == \A j \in 1 .. i : print(s[j]) = print(s[1])
  <2>8. acceptedVersions(d, id) = {d[i] : i \in {n \in 1 .. Len(d) : sameAll(d, n)}}
    BY DEF acceptedVersions
  <2>9. acceptedVersions(c, id) = {c[i] : i \in {n \in 1 .. Len(c) : sameAll(c, n)}}
    BY DEF acceptedVersions
  <2>10. 1 \in 1 .. Len(d) /\ sameAll(d, 1)
    BY <2>4, <2>6
  <2>11. CASE print(p) = print(v)
    <3>1. \A n \in 1 .. Len(c) : sameAll(d, n + 1) <=> sameAll(c, n)
      <4> SUFFICES ASSUME NEW n \in 1 .. Len(c)
                   PROVE  sameAll(d, n + 1) <=> sameAll(c, n)
        OBVIOUS
      <4>1. ASSUME sameAll(d, n + 1), NEW j \in 1 .. n PROVE print(c[j]) = print(c[1])
        <5>1. j \in 1 .. Len(c) /\ j + 1 \in 1 .. n + 1
          BY <2>4
        <5>2. print(d[j + 1]) = print(d[1]) /\ d[j + 1] = c[j]
          BY <2>7, <4>1, <5>1
        <5>3. print(c[j]) = print(v)
          BY <2>7, <5>2
        <5> QED BY <2>4, <2>11, <5>3
      <4>2. ASSUME sameAll(c, n), NEW j \in 1 .. n + 1 PROVE print(d[j]) = print(d[1])
        <5>1. CASE j = 1
          BY <5>1
        <5>2. CASE j # 1
          <6>1. PICK i \in 1 .. n : j = i + 1
            <7>1. j - 1 \in 1 .. n /\ j = (j - 1) + 1
              BY <2>4, <5>2
            <7> QED BY <7>1
          <6>2. i \in 1 .. Len(c)
            BY <2>4
          <6>3. d[j] = c[i]
            BY <2>7, <6>1, <6>2
          <6>4. print(c[i]) = print(c[1])
            BY <4>2, <6>1
          <6>5. print(c[i]) = print(v)
            BY <2>4, <2>11, <6>4
          <6> QED BY <2>7, <6>3, <6>5
        <5> QED BY <5>1, <5>2
      <4> QED BY <4>1, <4>2
    <3>2. \A i \in 1 .. Len(d) : i = 1 \/ \E n \in 1 .. Len(c) : i = n + 1
      <4> SUFFICES ASSUME NEW i \in 1 .. Len(d), i # 1 PROVE \E n \in 1 .. Len(c) : i = n + 1
        OBVIOUS
      <4>1. i - 1 \in 1 .. Len(c) /\ i = (i - 1) + 1
        BY <2>4, <2>6
      <4> QED BY <4>1
    <3>3. acceptedVersions(d, id) = {v} \cup acceptedVersions(c, id)
      <4> HIDE DEF sameAll
      <4>1. ASSUME NEW x \in acceptedVersions(d, id) PROVE x \in {v} \cup acceptedVersions(c, id)
        <5>1. PICK i \in 1 .. Len(d) : sameAll(d, i) /\ x = d[i]
          BY <2>8
        <5>2. CASE i = 1
          BY <2>7, <5>1, <5>2
        <5>3. CASE i # 1
          <6>1. PICK n \in 1 .. Len(c) : i = n + 1
            BY <3>2, <5>3
          <6>2. sameAll(c, n) /\ x = c[n]
            BY <2>7, <3>1, <5>1, <6>1
          <6> QED BY <2>9, <6>2
        <5> QED BY <5>2, <5>3
      <4>2. ASSUME NEW x \in acceptedVersions(c, id) PROVE x \in acceptedVersions(d, id)
        <5>1. PICK n \in 1 .. Len(c) : sameAll(c, n) /\ x = c[n]
          BY <2>9
        <5>2. n + 1 \in 1 .. Len(d) /\ sameAll(d, n + 1) /\ x = d[n + 1]
          BY <2>7, <3>1, <5>1
        <5> QED BY <2>8, <5>2
      <4>3. v \in acceptedVersions(d, id)
        BY <2>7, <2>8, <2>10
      <4> QED BY <4>1, <4>2, <4>3
    <3> QED BY <1>3, <2>1, <2>2, <2>3, <2>11, <3>3
  <2>12. CASE print(p) # print(v)
    <3>1. \A i \in 1 .. Len(d) : sameAll(d, i) => i = 1
      <4> SUFFICES ASSUME NEW i \in 1 .. Len(d), i # 1, sameAll(d, i) PROVE FALSE
        OBVIOUS
      <4>1. 2 \in 1 .. i /\ 1 \in 1 .. Len(c)
        BY <2>4, <2>6
      <4>2. d[2] = p
        BY <2>4, <2>7, <4>1
      <4>3. print(d[2]) = print(d[1])
        BY <4>1
      <4> QED BY <2>7, <2>12, <4>2, <4>3
    <3>2. acceptedVersions(d, id) = {v}
      <4> HIDE DEF sameAll
      <4> QED BY <2>7, <2>8, <2>10, <3>1
    <3> QED BY <1>3, <2>1, <2>2, <2>3, <2>12, <3>2
  <2> QED BY <2>11, <2>12
<1> QED BY <1>2, <1>3

\* A version with a parent has its reports filtered.
LEMMA ReportsFiltered ==
    ASSUME CarryTypeOK, ShapeInv, NEW v \in Existing, branchedFrom[v] \in Existing
    PROVE  /\ branchedFrom[v] # v
           /\ Cardinality(Existing) \in Nat /\ Cardinality(Existing) > 1
           /\ applyCarryOver(v) = {run \in runs : keep(run, v, ancestorChain(v))}
<1>1. v \in Versions /\ v \in Nat
  BY VersionsAssumption DEF Existing
<1>2. PICK p : p = branchedFrom[v]
  OBVIOUS
<1>3. p \in Existing /\ p # v
  BY <1>1, <1>2 DEF ShapeInv, BranchedLater
<1>4. IsFiniteSet(Existing)
  <2>1. Existing \in SUBSET Nat
    BY VersionsAssumption DEF Existing
  <2> QED BY <2>1, FS_BoundedSetOfNaturals DEF ShapeInv, Bounded
<1>5. Cardinality(Existing) \in Nat /\ Cardinality(Existing) > 1
  <2>1. IsFiniteSet({v}) /\ Cardinality({v}) = 1
    BY FS_Singleton
  <2>2. IsFiniteSet({v} \cup {p}) /\ Cardinality({v} \cup {p}) = 2
    BY <1>3, <2>1, FS_AddElement
  <2>3. {v} \cup {p} \in SUBSET Existing
    BY <1>3
  <2>4. Cardinality({v} \cup {p}) <= Cardinality(Existing)
    BY <1>4, <2>3, FS_Subset
  <2>5. Cardinality(Existing) \in Nat
    BY <1>4, FS_CardinalityType
  <2> QED BY <2>2, <2>4, <2>5
<1>6. Len(ancestorChain(v)) \in Nat /\ Len(ancestorChain(v)) > 1
  BY ChainStart
<1>7. ~(Cardinality(Existing) <= 1 \/ Len(ancestorChain(v)) <= 1)
  BY <1>5, <1>6
<1> QED BY <1>2, <1>3, <1>5, <1>7 DEF applyCarryOver

LEMMA BaselinesFollow ==
    ASSUME CarryInv, ShapeInv PROVE BaselineRunsCurrent
<1> SUFFICES ASSUME NEW v \in Existing, branchedFrom[v] \in Existing,
                    NEW run \in applyCarryOver(v), run.frozen, LinksOf[run.test] # {}
             PROVE  \E id \in LinksOf[run.test] :
                       run.saw[id] = storyFingerprint(content[v][id])
  BY DEF BaselineRunsCurrent
<1> USE DEF CarryInv
<1>1. run \in runs /\ keep(run, v, ancestorChain(v))
  BY ReportsFiltered
<1>2. ancestorChain(v) \in Seq(Versions)
  BY ChainIsInherited
<1>3. ancestorChain(v)[1] = v /\ Len(ancestorChain(v)) > 0
  BY ChainStart
<1>4. KeptRunsCurrent
  BY CarryInvKept
<1> QED BY <1>1, <1>2, <1>3, <1>4 DEF KeptRunsCurrent

(***************************************************************************)
(* A result that counts for the parent and not for the version: a story it *)
(* covers that the parent has and the diff does not list would be the same *)
(* in both, so the version would accept what the parent accepts.           *)
(***************************************************************************)
LEMMA DiffFollows ==
    ASSUME CarryTypeOK, ShapeInv PROVE DiffExplains
<1> SUFFICES ASSUME NEW v \in Existing, branchedFrom[v] \in Existing
             PROVE  LET p == branchedFrom[v]
                        diff == api_versions_diff(p, v)
                        lineage == {ancestorChain(p)[i] : i \in 1..Len(ancestorChain(p))}
                    IN  /\ diff # NoDiff
                        /\ \A run \in applyCarryOver(p) \ applyCarryOver(v) :
                              run.version \in lineage =>
                                \/ LinksOf[run.test] \cap (diff.added \cup diff.removed \cup diff.modified) # {}
                                \/ \A id \in LinksOf[run.test] : ~IsLive(p, id)
  BY DEF DiffExplains
<1>1. PICK p : p = branchedFrom[v]
  OBVIOUS
<1>2. p \in Existing /\ p # v /\ p \in Versions /\ v \in Versions
  BY <1>1, ReportsFiltered DEF Existing
<1>3. PICK diff : diff = api_versions_diff(p, v)
  OBVIOUS
<1>4. diff = diffVersions(p, v)
  BY <1>2, <1>3 DEF api_versions_diff, diff_versions
<1>5. diff # NoDiff
  <2>1. DOMAIN diff = {"added", "removed", "modified"}
    BY <1>4 DEF diffVersions
  <2>2. DOMAIN NoDiff = {"added", "removed", "modified", "refused"}
    BY DEF NoDiff
  <2> QED BY <2>1, <2>2
<1>6. \A id \in Ids : id \notin diff.added \cup diff.removed \cup diff.modified /\ IsLive(p, id)
                        => IsLive(v, id) /\ content[v][id] = content[p][id]
  BY <1>4 DEF diffVersions, fieldChanges
<1>7. PICK c : c = ancestorChain(p)
  OBVIOUS
<1>8. PICK d : d = ancestorChain(v)
  OBVIOUS
<1>9. c[1] = p /\ d[1] = v
  BY <1>2, <1>7, <1>8, ChainStart
<1>10. ASSUME NEW run \in applyCarryOver(p) \ applyCarryOver(v),
              run.version \in {c[i] : i \in 1 .. Len(c)},
              LinksOf[run.test] \cap (diff.added \cup diff.removed \cup diff.modified) = {},
              NEW some \in LinksOf[run.test], IsLive(p, some)
       PROVE  FALSE
  <2>1. run \in runs /\ run \in Run
    BY <1>10 DEF applyCarryOver, CarryTypeOK
  <2>2. LinksOf[run.test] \subseteq Ids
    BY <2>1, LinksAssumption DEF Run
  <2>3. ~keep(run, v, d)
    BY <1>1, <1>2, <1>8, <1>10, <2>1, ReportsFiltered
  <2>4. LinksOf[run.test] # {} /\ \A id \in LinksOf[run.test] : ~Vouches(id, run, d)
    BY <2>3 DEF keep
  <2>5. ASSUME NEW id \in LinksOf[run.test], IsLive(p, id), run.version \in acceptedVersions(c, id)
        PROVE  FALSE
    <3>1. id \in Ids /\ id \notin diff.added \cup diff.removed \cup diff.modified
      BY <1>10, <2>2
    <3>2. IsLive(v, id) /\ content[v][id] = content[p][id]
      BY <1>6, <2>5, <3>1
    <3>3. content[v][id].st # "absent"
      BY <3>2 DEF IsLive
    <3>4. run.version \notin acceptedVersions(d, id)
      BY <1>9, <2>4, <3>3 DEF Vouches
    <3>5. acceptedVersions(d, id) = {v} \cup acceptedVersions(c, id)
      BY <1>1, <1>2, <1>7, <1>8, <3>1, <3>2, AcceptedFollows DEF AcceptedByInheritance
    <3> QED BY <2>5, <3>4, <3>5
  <2>6. \A id \in Ids : p \in acceptedVersions(c, id)
    BY <1>2, <1>7, <1>1, AcceptedFollows DEF AcceptedByInheritance
  <2>7. CASE run.version = p
    BY <1>10, <2>2, <2>5, <2>6, <2>7
  <2>8. CASE run.version # p
    <3>1. Len(c) \in Nat /\ Len(c) > 1 /\ branchedFrom[p] \in Existing
      <4>1. Len(c) \in Nat \ {0} /\ (branchedFrom[p] \notin Existing => Len(c) = 1)
        BY <1>2, <1>7, ChainStart
      <4>2. Len(c) # 1
        BY <1>9, <1>10, <2>8
      <4>3. PICK n : n = Len(c)
        OBVIOUS
      <4>4. n \in Nat /\ n > 1
        BY <4>1, <4>2, <4>3
      <4>5. branchedFrom[p] \in Existing
        BY <4>1, <4>2
      <4> QED BY <4>3, <4>4, <4>5
    <3>2. keep(run, p, c)
      BY <1>2, <1>7, <1>10, <3>1, ReportsFiltered
    <3>3. PICK id \in LinksOf[run.test] : Vouches(id, run, c)
      BY <2>4, <2>8, <3>2 DEF keep
    <3>4. content[p][id].st # "absent" /\ run.version \in acceptedVersions(c, id)
      BY <1>9, <3>3 DEF Vouches
    <3>5. IsLive(p, id)
      <4>1. content[p][id] \in Row /\ content[p][id].st # "removed"
        BY <1>2, <2>2 DEF CarryTypeOK, Table, ShapeInv, NoTombstones
      <4> QED BY <3>4, <4>1 DEF IsLive, Row
    <3> QED BY <2>5, <3>4, <3>5
  <2> QED BY <2>7, <2>8
<1>11. ASSUME NEW run \in applyCarryOver(p) \ applyCarryOver(v),
              run.version \in {c[i] : i \in 1 .. Len(c)}
       PROVE  \/ LinksOf[run.test] \cap (diff.added \cup diff.removed \cup diff.modified) # {}
              \/ \A id \in LinksOf[run.test] : ~IsLive(p, id)
  BY <1>10, <1>11
<1> QED BY <1>1, <1>3, <1>5, <1>7, <1>11

-----------------------------------------------------------------------------
LEMMA CarryInvAlways == CarrySpec => [](CarryInv /\ ShapeInv)
<1>1. CarryInv /\ ShapeInv /\ [CarryNext]_carryVars => (CarryInv /\ ShapeInv)'
  BY CarryStepInv, ShapeStep DEF CarryInv
<1> QED BY <1>1, CarryInitInv, ShapeInit, PTL DEF CarrySpec

(***************************************************************************)
(* What acceptedVersionsByStory accepts over the chain that ancestorChain  *)
(* walks is what the versions inherit from one another.                    *)
(***************************************************************************)
THEOREM AcceptanceIsInherited == CarrySpec => []AcceptedByInheritance
<1>1. CarryInv /\ ShapeInv => AcceptedByInheritance
  BY AcceptedFollows DEF CarryInv
<1> QED BY <1>1, CarryInvAlways, PTL

(***************************************************************************)
(* A report on a version with a parent keeps a result of a locked baseline *)
(* only where some story it covers is still what was tested.               *)
(***************************************************************************)
THEOREM BaselineRunsStayCurrent == CarrySpec => []BaselineRunsCurrent
<1>1. CarryInv /\ ShapeInv => BaselineRunsCurrent
  BY BaselinesFollow
<1> QED BY <1>1, CarryInvAlways, PTL

(***************************************************************************)
(* What a branch costs in re-testing is in the diff of the version with    *)
(* its parent.                                                             *)
(***************************************************************************)
THEOREM DiffAlwaysExplains == CarrySpec => []DiffExplains
<1>1. CarryInv /\ ShapeInv => DiffExplains
  BY DiffFollows DEF CarryInv
<1> QED BY <1>1, CarryInvAlways, PTL

(***************************************************************************)
(* The versions, stories, parent links and results stay well formed.       *)
(***************************************************************************)
THEOREM CarryTypesCorrect == CarrySpec => []CarryTypeOK
<1>1. CarryInv => CarryTypeOK
  BY DEF CarryInv
<1> QED
  BY <1>1, CarryInitInv, CarryStepInv, PTL DEF CarrySpec

(***************************************************************************)
(* A result of a locked baseline is kept only where some story it covers   *)
(* is still what was tested (filterCarriedOver).                           *)
(***************************************************************************)
THEOREM KeptRunsAreCurrent == CarrySpec => []KeptRunsCurrent
BY CarryInitInv, CarryStepInv, CarryInvKept, PTL DEF CarrySpec

===============================================================================
