# requ-mcp in TLA+

requ-mcp is a requirements manager: a server that AI agents reach over MCP and
people over a REST API and a web interface. It keeps, per project, versioned
specifications (requirements, stories, phases, screens, components, architecture
decisions), the records of test runs, and who may see and change them. These
modules model

* how specification *versions* are created, locked, reopened and pointed at, how
  an edit finds the version it is meant for, and what stops it from touching a
  frozen baseline; imports into such a project, and the change history they leave;
* which references deletions leave behind;
* what the reports, lists and pages say about coverage, traceability, screens
  and versions, and whether they agree;
* signing in, the second factor, roles, grants and tokens, and the way of a call
  from the HTTP server through its permission check to its audit row;
* how one browser tab keeps its panels in step with what it looks at.

Paths below are relative to the repository; sources are under `src/`.

## 1. The system

| Component | State | Operations | Module |
| --- | --- | --- | --- |
| Version lifecycle (`src/version-ops.ts`) | none of its own | `createVersion`, `lockVersion`, `unlockVersion`, `setActiveVersion` | `SpecStore`, `SpecPromise` |
| Registry and tables (`src/postgres-store.ts`, `src/sqlite-store.ts`) | `versions`, six versioned entity tables, five tagged tables, the config row | `listRows`, `writeRow`, `removeRow`, `copyVersion`, `dropVersion`, migration | `SpecTables`, `SpecStore` |
| Freeze matrix (`src/versioning.ts`) | none | `checkWritable`, `assertWritable`, semver | `SpecTables` |
| Ids (`src/ids.ts`) | none | `nextId` over `idsAcrossVersions` | `SpecTables` |
| Deletion (`src/deletion.ts`) | several tables at once | `deletePhase`, `deleteRequirement` and what points at their targets | `Deletion` |
| Carry-over (`src/version-carryover.ts`, `version-diff.ts`) | none | `ancestorChain`, `acceptedVersionsByStory`, `filterCarriedOver`, `diffVersions` | `CarryOver` |
| Reports (`src/coverage.ts`) | executions, scenarios, VCS references | record, import, edit; reports, gaps, chain, lists | `Scope`, `Reports`, `Surfaces` |
| Screens (`src/screen-coverage.ts`) | the screens table | publish, link, unlink, delete; drift, consistency check | `Screens`, `ScreenViews` |
| Export, import (`src/export-import.ts`) | registry, tables, lock state | `applyImport` | `Import` |
| Change history (`src/audit.ts`) | a queue per request; the history table | `recordingStore`, `flushChanges` | `History` |
| Sign-in (`src/auth/authenticate.ts`, `throttle.ts`) | sessions, back-off counters | log in, pending steps, log out, back off | `SignIn`, `Throttle` |
| Second factor (`src/auth/two-factor.ts`, `totp.ts`) | enrolment, last step, recovery codes | begin, confirm, verify, disable, regenerate, reset | `SignIn` |
| Roles and members (`src/auth/role-admin.ts`, `members.ts`, `roles.ts`) | role definitions, grants, tokens | write and delete roles, grant, revoke, add, remove | `Membership` |
| Front ends (`src/index.ts`, `src/web-api.ts`, `src/auth/rbac.ts`, `context.ts`) | sessions, attached stores, a context per request | dispatch, permission check, binding, audit | `Access` |
| Web interface (`src/public/app.js`) | one tab: selections, panels, requests in flight | switches, loaders, live stream | `Dashboard` |
| Project settings (config row) | mode, repository, active phase, pointers | read, then written back whole | parts of `SpecStore`, `Deletion` |
| Parsers (`src/conductor.ts`, `gherkin.ts`, `ingest.ts`, `openapi.ts`, `screen-html.ts`) | none | pure functions of text | only what they return |

What makes each hard, and what makes it correct:

* **Versions and tables.** Over Postgres every `await` is a query and requests
  interleave at each one; several server processes may share a database. No
  lifecycle operation is a transaction (only `copyVersion` and `dropVersion`
  are, each by itself), so checks are stale by the time they are acted on, and
  a stop in the middle leaves what was written. Correct means: one open draft;
  a branch is an exact copy and appears whole; a baseline, once frozen, stays
  frozen; pointers name versions that exist; ids are never reused.
* **Deletion.** A check over one table, then a cascade over others, each write
  guarded separately by the lock state of that moment. Nothing may be left
  pointing at what is gone, wherever it stops.
* **Carry-over.** A result recorded in an ancestor version counts only if the
  story did not change in any version since; what a branch costs has to show in
  the version diff.
* **Reports.** Half a dozen algorithms over the same tables, behind tools and
  routes written separately, have to give one answer.
* **Screens.** A row is read, rebuilt and written back with a snapshot of story
  versions in it; screens embed each other, in circles too.
* **Import.** Opens locked versions, writes them, locks them again.
* **Change history.** The prior state is a read before the write; entries are
  queued in memory until the request ends.
* **Sign-in and second factor.** A session is pending until a factor was shown,
  and what was checked is acted on queries later; time steps and recovery codes
  are read, checked and written back; the back-off must not lock people out.
* **Roles.** Grants outlive the redefinition of their roles; deletions and
  removals go row by row.
* **Front ends.** An MCP request is authenticated before its project is known,
  and its calls share one context.
* **Web interface.** Answers overtake each other and fail, and nothing ties an
  answer to what the tab looks at by the time it comes.

`PROJECT.json` lists the components with what is modelled of each and, under
`hazards`, each of these dangers at the line where it bites.

## 2. Modules

A module with `Properties`, `Proofs` or `MC` in its name states what the one it
extends should guarantee, proves it, or is its instance for TLC.

| Module | What it is |
| --- | --- |
| `SpecTables` | the data (rows, registry status, pointers) and the pure rules: `CheckWritable`, `CopyInto`, `BindTarget`, `NextId` |
| `SpecStore` | one project's registry, config row and tables, and the requests of `Clients` that work on them query by query |
| `SpecPromise` | the abstract specification: the lifecycle as atomic operations |
| `CarryOver` | which recorded results a report counts, over the versions of `SpecPromise` with their parents; the version diff |
| `Deletion` | one version's phases, requirements, stories, screens and ADRs, and the requests that create, move, re-point and delete them |
| `Scope` | which requirements, stories and screens a report of a phase is about |
| `Reports` | the coverage reports as functions of the tables, and the steps that change scenarios, runs and VCS references |
| `Surfaces` | what each tool and route answers about them |
| `Screens` | the screens table and its requests; drift, resolution, the consistency check |
| `ScreenViews` | what each tool and route shows of screens |
| `History` | the store a request writes through, and the history it leaves |
| `Import` | an import beside other requests, over `History` |
| `Throttle` | the back-off counters |
| `SignIn` | password, second factor and sessions, over `Throttle` |
| `Membership` | accounts, the role catalogue, grants and tokens |
| `Access` | the way of a call to its handler, and its audit row |
| `Dashboard` | one browser tab |

`CarryOver` extends `SpecPromise`, which `SpecStore` implements when requests do
not overlap (`KeepsPromise`). `Screens` and `Reports` share `Scope`. The other
compositions are by extension: `Import` over `History`, `SignIn` over
`Throttle`. `Access` abstracts `Membership` to a set of grants that comes and
goes, and `SpecStore` to the version a call is bound to.

### Conventions

A request is a record `req[c]` (or `call[c]`): where its handler waits (`pc`,
`at`), and what it has read that it will still use. Each action is one query and
the code up to the next one; handlers write back *the row they read*, which is
the code's read, spread and write, and is where updates get lost. With one
element in `Clients` (or `Overlap = FALSE`), requests never overlap. That is
also exactly what the SQLite back end does within one process, whose queries are
synchronous: a handler runs to its end before the next request is read.

Variables and fields marked "history" are no state of the program. They hold
what a property has to remember: what a result was a test of, which keys two
requests wrote at once, which sign-in a code was accepted in.

### `SpecStore`

A version is its rank in semver order, 1 being `1.0.0`; an absent pointer,
argument or parent is `None`. `compareSemver` is then `<`. An entity is one row
per version (the tables' primary key is project, version, id). The six entity
tables are alike in everything the store does with them, so `Ids` ranges over
entities of any type; `st` is absent, live or removed (a soft delete leaves a
tombstone row), `spec` stands for the fields that the freeze matrix protects,
and `prog` for the ones it lists. `PureSpec` are entities of a type that lists
none.

| Variable | Code |
| --- | --- |
| `registry`, `parent` | table `versions`: `status`, `parent` |
| `config` | the config row: whether it exists, `currentVersion`, `draftVersion` |
| `rows` | the entity tables |

| Actions | Code |
| --- | --- |
| `BindConfig`, `BindKnown` | `bindVersion`: pick the version (a specification edit goes to the draft pointer, anything else to the current one), then refuse an unknown or implicitly chosen locked one |
| `ReadRow` / `ListRows`, `AllocateId` / `ReadExisting` | what an update, a creation and a removal read before they write |
| `IsLocked`, `AssertWritable`, `Upsert` | `writeRow`: the lock state, then, only if locked, the stored row to compare with, then the write |
| `CvConfig` ... `CvDrop` | `createVersion`: config, registry listing and checks, copy (one transaction), registration, pointer; the rollback when copy or registration throws |
| `Lk*`, `Ul*`, `Sa*` | `lockVersion`, `unlockVersion`, `setActiveVersion` |
| `In*`, `WebInit` | `init_project` and `POST /api/init` |
| `Crash`, `QueryError`, `Boot` | a process stops; a query throws; a process starts and runs the forward migration |

The lifecycle operations take any version, as the REST routes do; `bindVersion`
in front of the tools of the same name only reads and narrows the choice.

### `CarryOver` and `Deletion`

In `CarryOver` an entity is a user story, and `storyFingerprint` is its `spec`.
Nothing calls the stores' `deleteStory`, so stories are edited and created only.
`BranchFrom`, `LockIt` and `UnlockIt` are the lifecycle, `Record` is
`appendExecutions`, and a report is the operator `applyCarryOver`, since it
writes nothing; so is `diff_versions`. `branchedFrom` is a version's parent.

In `Deletion` a row carries only what can point elsewhere: a phase, and the
requirements it names.

| Actions | Code |
| --- | --- |
| `CreateStart`, `UpdateRead`, `CheckReference`, `ListExisting` | the `create_*` and `update_*` tools up to their write: look up each reference supplied, then the rows of the type |
| `AssignStart`, `AssignList` | `assign_requirements_to_phase`: requirement after requirement, each its own guarded write |
| `ImportAdrs` | `import_adrs_from_files`: decision after decision, those whose id no version ever had, without references |
| `Guard`, `Upsert` | `writeRow` and `removeRow`; the lock state and the comparison are one step here |
| `SapCheck`, `Activate` | `set_active_phase`, and `create_phase` when it activates |
| `DeleteStart` ... `ClearActivePhase` | `deletePhase`, `deleteRequirement`: look up, check, list and rewrite one table after another, remove, clear the active phase |
| `DeleteDocument` | `delete_adr`, `delete_screen` |
| `Stop`, `LockOrUnlock` | a request is cut short; the version is locked or unlocked between any two queries |

### `Reports`, `Surfaces`, `Screens`, `ScreenViews`

The tables start as any the choices of the instance allow, so the checks of the
reports range over every small graph of requirements, stories, scenarios and
tags; the behaviours then record runs (`Record`, `ImportReport`, `Execute`), edit
scenarios, import feature files one scenario at a time (`BeginImport` ...
`EndImport`, with other writes between them) and record branches and merge
requests. A run has a phase, a verdict and a time of its own, not in the order
of the log; `InOrder` sorts phases and runs, `LatestRuns` goes through them one after
the other and overwrites, as `resolveLatestRuns` does. The operators of `Surfaces` carry the names of the tools; those with
`api_` are routes.

A screen's row holds `seen`, the story versions it was drawn against, and
`uses`, the screens it embeds (those the call lists, else those it had, and those
in the markup); `Walk` is the traversal of `resolveElements`, from a
screen and what was seen before, to the elements listed and what is seen then. A story's `updatedAt` is its number of writes.
`Publish` brings the mockup and reads the row, `Compose` lists the stories and
takes the snapshot, `StoreScreen` writes; they are the queries of
`create_or_update_screen`, and stories may be written between any two. The
history variable `made` therefore dates from `Publish`, when the mockup came in,
and `late` are the stories written between that and the snapshot. `Link`, `ReadStory`, `ReadScreen`, `StoreLink` those
of `link_story_screen`.

### `History` and `Import`

`table` holds every row of the project, the registry's included. A write is
`ReadBefore` (the recording proxy), `Guard`, `Upsert`; its entry goes to the
queue of the call and into `history` with `Flush`, which `Failed` leads to as
well; both are kept by row, the order in which a row's history is read. The read
before a write may fail, and then reads as no row (`safeRead`); a client that
hangs up (`HangUp`) has the queue written out while its tool goes on, and what the
tool writes then is lost to the history. `Import` registers, fills and closes version by version; `Close` is the
`finally` that locks again. `sealed` is history: the versions that were baselines
and that nobody but an import has opened since.

### `SignIn`, `Throttle`, `Membership`, `Access`

Time in `SignIn` is relative: a `Tick` is one authenticator step and one unit of
the base lockout, an accepted step is its distance from now, and a bucket holds
how long it still blocks. A code is its step (or the name of a recovery code)
for a secret.

| Actions of `SignIn` | Code |
| --- | --- |
| `Login` ... `OpenSession` | `POST /api/auth/login` and `login`: throttle, directory, account, role, factor owed, session |
| `Challenge`, `ReadHolder`, `Factor`, `Promote` | `handlePendingStep`, with `Begin`, `PutNew`, `Confirm`, `PutConfirmed`, `TakeAppCode`, `MarkStep`, `SpendCode` for the factor itself |
| `Manage` ... | `/api/auth/2fa`: disable, new recovery codes |
| `AdminReset`, `SetDisabled`, `RevokeAll`, `Logout` | the administrator's and the user's ways to end sessions |
| `Tick`, `Expire`, `Stop` | time passes, a session expires, the server stops (its buckets are memory) |

In `Membership` a handler looks up and decides in one step (`Plan`) and then
writes row by row; a request is the writes it has left (`MirrorAccount`,
`RevokeOne`, `WriteLast`) and `Stop` loses them. An account that is only mentioned
in a grant is a placeholder: it has no groups and nobody signs in with it until
the directory has let its owner in (`SignIn`). `Access` follows a call from `ArriveMcp` or `ArriveWeb` to
`End`: `Dispatch`, `FindStore`, `IdentifyAgain`, `ResolveAgain`, `Admit`, `Bind`,
`Run`. `audit` holds the rows handed to the audit log: `appendAudit` is not
awaited and its failure only logged, so a row may yet be missing from the table.
The calls of one MCP request share its context, and any of them may be
between two of its queries while another writes it. `TOOL_PERMISSIONS` and
`ROUTE_PERMISSIONS` are the tables of `rbac.ts`.

### `Dashboard`

`view` is what the tab looks at (project, version, phase, tab, the chain's own
phase), `shown` the answer each panel shows, `chain` that of the traceability
chain, `flight` the requests without an answer, `stream` the scope of the live
stream. Panels that a switch loads together are one panel: requirements,
stories, components and phases; coverage and gaps; config and summary. The user's
deletions, a run and a tick load some of these only, so the answer to such a load
does not make up for one that was lost before it. The contents of the lists and
of the summary are dated (`Dated`), which is what `ListsKeepUp` compares. A switch is an
event handler up to its first `await`; what it does afterwards is `GoesOn`, when
the answers it awaits are in. `WithPhase` and `WithTrace` are the watchers; a
switch of project drops the phase, which sends a coverage request of its own.
`crossed` is a history variable: what an answer for a project that was left has
since changed, the list of versions or a phase (section 5).

## 3. Runs

| Run | Instance | Shows |
| --- | --- | --- |
| `serial` | one client, every MCP tool, 2 versions, 2 entities (one `PureSpec`), no fault | `TypeOK`; `OneDraft`; `PointersKnown`; `AllocatedIdsFresh`; `KeepsPromise`: every step is an atomic operation of `SpecPromise` or invisible |
| `overlap` | two clients, 2 versions, one entity, failing queries, crashes, fair | `SettledStaysFrozen`: once no in-flight write predates the lock, a baseline stays locked and frozen until it is unlocked, although each guard is a query apart from its write; `ParentOlder`; `LockTakesHold`: under a lock that lasts, writes that were not compared with the stored row die out |
| `carry_over` | 3 versions, 2 stories, 3 kinds of scenario | `AcceptedByInheritance`: a version accepts what its parent does if the story is the same, else only its own results; `BaselineRunsCurrent`: a result of a baseline counts only if it tested a story as it stands; `DiffExplains`: what a branch costs in results is in the diff with its parent |
| `deletion` | one client, 2 phases, 2 requirements, a story, an ADR, stops, locks | `StoriesTraced`, `NothingDangles`, `ActivePhaseLive` |
| `screens` | two clients, 2 screens that embed each other and themselves, 2 stories, 2 phases | `DriftShows`: a story changed since the mockup came in is flagged in every list, page and worklist, unless it changed before the same call took its snapshot; `ResolvedOnce`; `OkEverywhere`: the consistency check of all phases and of each agree |
| `reports` | 2 phases, requirements, stories and scenarios each, 2 events | `LatestWins`, `GapsExplain`, `ChainIsWhole`, `SurfacesAgree` of every reachable set of tables; `RunsStayInPhase`: a run moves no report it has no part in; `MigrationIsWhole`: an import of feature files loses no scenario |
| `import` | two clients, a baseline and its successor imported into projects that lack it, fill it or locked it | `BaselinesShut`: no baseline is left open; `Replays`: the history of a row leads from state to state to the row as it is, a write whose prior state could not be read showing as a creation |
| `sign_in` | requests one after the other, wrong codes, time, expiry, stops | `NoUnprotectedSession`, `RecoveryCodesTrack`, `SpentIsCovered`, `Reopens` (liveness of the throttle) |
| `sign_in_overlap` | two requests interleaving query by query, stops | `ConfirmedIsHeld`, `OwedFactorProven`, `EndedStaysEnded`, `WatermarkAdvances` |
| `membership` | two accounts, one project, a built-in and a custom role, a capped token, placeholders, stops between writes | `GrantsNameRoles`; `GainsAreHeld`; `ProjectStaysInside`: whatever is written for a project changes nobody's permissions in another scope |
| `access` | two calls in one request or two, two projects, grants that change, a process that stops | `RanWithLeave`: a call passes its check only with its own permission in its own project; `OneRowEach`: each hands over the audit row that says so |
| `dashboard` | two projects, one with two versions and 1 write to each, 3 events | `PanelsFollow`: when all answers are in, and none was lost, overtaken or crossed by a project switch, every panel shows what the tab looks at; `ListsKeepUp`: no list is then older than the summary beside it |

**Bounds.** Two versions are a parent and a branch, with either one locked,
open or unknown. One entity already has all of the row's states in each version;
the second in `serial` lets an id be taken in one version and free in the other,
and lets one entity have no progress field. Two values of `spec` and of `prog`
tell changed from unchanged. Two clients suffice to have something happen
between two queries of the other. An automatic id outside `Ids` ends the request
(`AllocateId`).

* `carry_over`: three versions are the fewest in which a change can be made and
  reverted between two others, and in which a version has a sibling. Results are
  judged one by one (`keep` looks at one result), so one is enough, tagged with
  one story, with two, or with none; the second story does not exist at first.
  `MaxWrites` = 3 are a change, its reversion, and a creation.
* `deletion`: two phases let one be deleted while the other takes over, and two
  requirements let a story keep one link of two. No screen exists in it: screens
  are to a phase what requirements are, and nothing else here refers to them.
* `screens`: two screens make every shape of embedding that matters, a cycle and
  a self-reference included. `MaxRequests` = 3 lets a third request see what two
  overlapping ones left; `MaxRev` lets a story change between a read and a write.
  `LinkLists` is one list of links, `UseLists` the empty list, which takes back what
  was used before; either may also be left out of a call.
* `reports`: two phases have an earlier and a later one; `PhaseChoices` adds the
  requirement without a phase (one of an unknown phase fares the same in reports of
  known phases and of all phases, and runs of unknown phases occur); `TagChoices` has
  a shared scenario and a tag that names no story, `DiskTags` other tags than those
  stored, so that an import changes them. `MaxEvents` = 2 bounds runs, references
  and imports together: two runs are needed to disagree about the order.
* `import`: the payload has the baseline and the version after it, the project
  one of `Present`. `MaxCalls` = 2 are an import and another request, or two
  imports, each interleaved query by query. `Misread` and `HangUps` are the rows
  whose prior state may fail to be read, and before whose write a client may hang
  up: one row that an import and an edit both write.
* `sign_in`, `sign_in_overlap`: one account, as nothing relates two; two or three
  secrets, so that an enrolment can be restarted; the lockout cap and the count
  of failures are shrunk to where they are reached. Ids of sessions and secrets
  that no row holds any more are used again, which bounds both without a counter.
* `membership`: a bootstrap administrator and one other, whose directory group
  names the role of the team's own; one project, so that its roles can shadow
  shared ones; the other scope that must not be touched is then the server.
  `Drafts` is one content for each role, so a role is narrowed and shadowed; with
  three for `admin`, so that it can be widened again, the properties were checked
  as well, in a longer run. `TokenKinds` are the tokens that occur.
* `access`: `MaxEvents` = 2 changes around the calls: a credential that goes and
  comes back, or a grant and a new session.
* `dashboard`: `MaxEvents` = 3 counts the user's moves, others' writes, failures
  and overtakings together; answers that come in their order are free. Two
  projects with versions and phases of their own make every kind of leftover.
  The two properties were also simulated with 10 events and 2 writes: that is how
  the crossings of section 5, which take two switches and more, were found.

**Fairness.** `SpecStore!FairSpec` asks for weak fairness of each client's
request once it is started: the database answers a query, and Node resumes the
handler. It asks for no request to be started, no lock to be made, no fault to
happen or not to happen. `LockTakesHold` is conditional on the lock lasting. A
stronger form, that a lasting lock ends up *settled* for good, does not hold: two
requests that compared their documents against the row while a third held a
stale write can go on replacing each other's versions of a frozen field.
`SignIn!Spec` asks for weak fairness of `Tick` only, the clock: whatever requests
do, time passes. `Reopens` then says that no pattern of attempts keeps a key
blocked for ever.

**Deadlock** is not checked where a system may simply rest: with every tool
disabled, every version used, or every bounded event spent. `SignIn` can always
tick, so its runs check it.

## 4. Proofs

All proofs rest on the named assumptions about the constants: versions are
positive naturals and include 1, ids are positive naturals, field values
include the one a creation writes, tools and faults are known ones; role
scopes, built-in roles and permissions fit together; statuses and payloads are
what they are called; no secret and no row is the name of none. What a report
counts, folds or walks is finite (phases, stories, scenarios, merge requests,
screens), as the rows of a table are. Other sets may be infinite, and the number of clients is arbitrary unless a theorem says
otherwise.

`VersionProofs`, of `SpecStore` (any clients, any tools, any faults):

* `TypeCorrect`: `Spec => []TypeOK`.
* `ParentsOlder`: `Spec => []ParentOlder`.
* `BaselineStaysFrozen`: `Spec => SettledStaysFrozen`.

`TypeOK` is not inductive: a pending upsert indexes the tables with the version
and id its request carries, and a pending registration copies `from` and `to`
into the parent link. `TypeInv` adds what each program counter implies for
those fields, and that `from` is older than `to`, and the parent a
status change carries older than its version. With it, `SettledStaysFrozen` is a
case split over the actions: each one either cannot touch a settled version,
because `Settled` excludes the requests that could, or is `AssertWritable`,
after which the write about to land keeps the frozen part.

The next four theorems are under `SerialUse`: one client, nothing cut short or
failing, no `POST /api/init`; processes may start, and migrate, at any moment:

* `OneDraftSerially`: `SerialUse => (Spec => []OneDraft)`.
* `PointersKnownSerially`: `SerialUse => (Spec => []PointersKnown)`.
* `ImplementsPromise`: `SerialUse => (Spec => KeepsPromise)`: `SpecStore`
  implements `SpecPromise`.
* `IdsFreshSerially`: `SerialUse /\ IdsBounded => (Spec => AllocatedIdsFresh)`.

The inductive invariant of the first two is `SerialInv`: `OneDraft`, `ConfigFits`
(how pointers and registry fit together while no request is half-way) and
`RequestFits` (what a half-way request has read is still true: nobody else has
run). Neither property is inductive without it: `CvRegister` adds a draft on the
strength of a check three queries earlier. The hypotheses are needed: section 5
says what overlap does.

The refinement adds `DataInv`: an unregistered version has no rows, except those
of a branch being made, which are a copy of its parent's live ones; and a lock or
unlock still finds the status it read. Each action then maps to a stutter or to
one operation of `SpecPromise`: `CvRegister` is the step in which a branch appears
with all its content, and `Upsert` is `Write`, by what `AssertWritable` compared.
`FreshInv` says that a creation in hand holds an id that no version uses. It rests
on `NextIdUnused`: `nextId` returns a number above all those in use, provided they
have a largest one, which is what `IdsBounded` is for.

`DeletionProofs` (any phases, requirements, stories, screens and decisions;
requests may stop anywhere and a lock may come and go at any moment; under
`OneClient`, one request at a time):

* `Typed`: `OneClient => (Spec => []TypeOK)`.
* `StoriesAlwaysTraced`: `OneClient => (Spec => []StoriesTraced)`.
* `NothingEverDangles`: `OneClient => (Spec => []NothingDangles)`.
* `ActivePhaseAlwaysLive`: `OneClient => (Spec => []ActivePhaseLive)`.

A cascade goes through one table after another, so the properties are not
inductive: the removal at its end is harmless only because of every write before
it. `DeletionInv` says that live rows name live rows (`RowsTraced`), and of the
request in hand (`Fits`): the row it is about to write names live rows only; a row
on its list is the current one without its reference to the target; and no row of
the tables it has been through names the target, so the removal that comes last
is of something nothing names (`SafeWrite`). `ActiveFits` is the same for the
pointer in the config row. With a second client `StoriesTraced` fails (section 5).

`VersionProofs` again, of `CarryOver` (any versions, stories, scenarios, results):

* `CarryTypesCorrect`: `CarrySpec => []CarryTypeOK`.
* `KeptRunsAreCurrent`: `CarrySpec => []KeptRunsCurrent`: a result of a locked
  baseline that `keep` lets through was a test of some story it covers as that
  story stands in the version reported on, for every chain of versions.
* `AcceptanceIsInherited`: `CarrySpec => []AcceptedByInheritance`.
* `BaselineRunsStayCurrent`: `CarrySpec => []BaselineRunsCurrent`.
* `DiffAlwaysExplains`: `CarrySpec => []DiffExplains`.

`FrozenRunsFaithful` is the invariant about results: while the version of a result
stays locked, its stories are what the result saw. It holds because a write to a
locked version keeps `FrozenPart`, which decides the fingerprint
(`FrozenPartDecides`), and because unlocking clears the mark.

The others need what `ancestorChain` computes. `walk` is a recursive function, of
which TLA+ says only that it is a function that satisfies its equation if there
is one. `WalkUnfolds` shows that there is: parents are older (`ShapeInv`) and
versions are finitely many, so repeating the step from a constant function gets it
right below any number, and in the end everywhere. The library's induction
theorems take an operator as a parameter; `ClosedIsNat` says the same of a set of
naturals, and needs none. By the same induction the versions seen never matter
(`SeenNeverMatters`: they are newer than the cursor), so a chain is a version and
the chain of its parent (`ChainIsInherited`). `AcceptedByInheritance` is one step
along it, and `DiffExplains` follows: a story that is not in the diff is the same
in both versions, so what the parent accepts for it the version inherits.

`ImportProofs` (any clients, payload, versions, ids; failures and stops):

* `BaselinesStayShut`: `Spec => []BaselinesShut`;
* `HistoryAlwaysReplays`: `Spec => []Replays`.

`BaselinesShut` speaks of an import that *holds* a version, which says nothing of
how it will let go. The invariant `Shut` says that the import in question will
restore `locked` (`Restores`), and `Shape` what each program counter implies for
the write in flight: whose version it is of, and which of registration, filling,
restoration, edit, lock or unlock it belongs to.

`Replays` looks at the stored entries and one queue. Its invariant `TrackInv`
says why one queue is enough: of a row that is neither `mixed` nor `cut`, one
request at most has anything in flight (`Alone`); where it has read the row and
not yet written it, the row is still what it read (`Fresh`); and the entries
stored, with those it has queued, form a `Chain` from the row's first value to
its present one. An entry is only added where the chain ends, by `Fresh`; a
queue is only dropped together with the claim, by `cut`. Where the prior state
could not be read, `Fresh` and `Chain` say that the entry starts from nothing, and
that it is marked as such; a request whose client has hung up may still write and
queue (`HangUpTrack`), and what it queues then ends in `cut` (`LostStep`).

`MembershipProofs` (any accounts, projects, roles, permissions and tokens):

* `MembershipTypesCorrect`: `Spec => []MembershipTypeOK`, for any callers.
* `GrantsAlwaysNameRoles`, for one caller at a time: `Spec => []GrantsNameRoles`.
* `GainsAlwaysHeld`, for one caller at a time: `Spec => GainsAreHeld`.
* `ProjectsStayInside`, for any callers: `Spec => ProjectStaysInside`.

The invariant of the middle two is `MembershipInv`: the property and `Decided`,
which says that what the request in hand decided still holds: a role about to be
deleted is held only by grants the request is still to revoke, a role about to be
granted exists, and what is passed on is held. Two callers break it, as section 5
says of `deleteRole`. `ProjectStaysInside` is about each write of a request, so its
invariant `InsideInv` is about what a request has left to write: for a project, it
is grants and role rows of that project alone (`Inside`; a shared role is listed
with its grants everywhere, a project's own role with those in the project). The
rest is `HeldElsewhere`: a session or token holds in a scope what the grants there
and server-wide, the role rows there and shared, and its account say.

`AccessProofs` (any requests, calls, projects, tools, routes and grants, however
often something changes around the calls; finitely many projects):

* `AccessTypesCorrect`: `Spec => []AccessTypeOK`.
* `AlwaysRanWithLeave`: `Spec => []RanWithLeave`.
* `AlwaysOneRowEach`: `Spec => []OneRowEach`.

`RanWithLeave` speaks of a call that has passed its check; the invariant
`AccessInv` carries what makes the check good. `McpCall`: the roles a call
resolved for itself were all granted, in its own project, at some moment since it
arrived, and `Admit` reads those and nothing of its siblings. `WebCall`: the
principal of a web request was granted in the scope of the request, and that
scope is the project that will be served (`WebScope`: the one the query names,
or the only one attached, which stays the only one that can be served since
`_stores` never shrinks while a request lives). `WebAlone`: a web request carries
one call, so no other call changes its context.

`OneRowEach` is about calls that have ended; `OneRowInv` adds to `AccessInv` that
one still under way has handed over no row (`Audited`), and `VersionShown`: the context that
a row's version is copied from shows what the call was bound to, as long as the
call is alone in its request. The second is where siblings of a batch matter.

`SignInProofs` (any accounts, sessions, secrets, codes and requests in hand,
whether they overlap or not, with expiry and stops; a secret is never the name
of no secret):

* `SignInRecordsCorrect`: `Spec => []SignInRecords`.
* `EnrolmentAlwaysHeld`: `Spec => []ConfirmedIsHeld`.
* `FactorAlwaysProven`: `Spec => []OwedFactorProven`.
* `EndedAlwaysEnded`: `Spec => []EndedStaysEnded`.
* `WatermarkAlwaysAdvances`: `Spec => WatermarkAdvances`.
* `ObligedAlwaysProtected`: `Spec => []NoUnprotectedSession`.
* `RecoveryCodesAlwaysTrack`: `Spec => []RecoveryCodesTrack`.
* `SpentAlwaysCovered`: `Spec => []SpentIsCovered`.

The first five are about what a request still believes when others have run in between,
so the invariant `SignInInv` is mostly about requests. `Fits`: a request that
will promote a session has had a code accepted in that sign-in, the row it will
confirm is of a proven secret, and the row of its session is there (a row is
purged a week after it expired, a request does not last that long). `SessionFits`
ties the same to the sessions: without its second half `Promote` could bring a
revoked session back. A secret is proven as long as a row *or a request* holds
it (`OthersSecretsKept`): a confirmation that lands after a restart of the
enrolment writes back the row it verified, secret included.
`WatermarkAdvances` is about steps: `LaterStep` (`GREATEST` in the update) only
raises the watermark, and any other write to a row keeps it, ends the enrolment,
or is the confirmation itself.

The last three are promises of requests one after the other (`~Overlap`, in the
properties themselves; two requests of one account that interleave can break
them: a restart of an enrolment, having read no confirmed row, writes over one
confirmed meanwhile, and two spent codes are each taken off the same list). Their
invariant `SerialInv` says of the one request in
hand what it has read and still relies on (`SerialFits`: the row it took along is
the row that is stored, the policy it asked lets it through), of each session
that its account is enrolled or about to be signed out (`Protected`; the two
queries of `adminReset` are why the second half is needed, and a stop between
them why `cut` is left out), and of each row that every step accepted for its
secret is at or under the watermark, none before it is confirmed
(`StepsCovered`). Two rows never share a secret (`SecretsApart`), so a step of
one says nothing of the other.

`DashboardProofs` (for any projects, versions and phases, and any number of
moves, writes, failures and overtakings; `DashboardAssumption`: the current
version of a project is one of its versions, its active phase one of its phases
or none, and the two special names `None` and `All` are nothing else):

* `PanelsAlwaysFollow`: `Spec => []PanelsFollow`.
* `ListsAlwaysKeepUp`: `Spec => []ListsKeepUp`.

Both speak of a tab that has all its answers, so the invariant has to say of a
tab in full flight that it will end up well. For each panel (`PanelWell`) its
last request asks for what is in view, or is late, so that its answer will count
as lost; with no request left the panel shows what is in view, or an answer was
lost; or else a switch of project still waits for an answer after which it asks
again (`Owed`). The chain has the same (`ChainWell`), where what is owed is the
reload after a switch of version. For the lists (`ListsWell`) the last request
reads no earlier than the summary on screen was written. Answers are what could
break this: one request leaves, the earlier ones become late, the view may get
other phases, the watchers and the switch that waited send more.
`AnswerPreserves` follows these one after the other for every panel at once, and
each handler is then a few lines. Two more conjuncts say when the view itself
makes sense: the tab knows no version yet or those of its project
(`VersionFits`), and its phases are the project's (`PhaseFits`); both fail after
an answer for a project that was left (section 5), which is what `crossed`
records. All but the types was checked by TLC on the instance of the `dashboard` run
before it was proved.

`CoverageProofs`, of `Screens` (any stories, mockups and clients, any finite set
of screens; requests overlap query by query):

* `ScreensTypesCorrect`: `ScreensSpec => []ScreensTypeOK`.
* `DriftAlwaysShows`: `ScreensSpec => []DriftShows`.
* `OkAlwaysEverywhere`: `ScreensSpec => []OkEverywhere`.
* `ResolvedAlwaysOnce`: `ScreensSpec => []ResolvedOnce`.

`DriftShows` speaks of stored rows, and a row comes out of a request that read it
or composed it some queries ago. The invariant `ScreensInv` therefore says of the
row in a request's hands what it says of a stored one (`SoundRow`): its linked
stories exist, and one neither linked by hand nor `late` was seen as it was when the
mockup came in. Story versions may grow meanwhile, as they are not part of it: a row
written back late shows drift, and that is the point. The rest of `DriftShows`
is that eight lists compute the same of that row. `OkEverywhere` is a fact of
each state: what is in the scope of a phase is in the scope of all phases, and
the errors of an item do not ask for a phase.

`ResolvedOnce` is about `Walk`, a recursion that passes the set of screens seen
from branch to branch. That its equation has a solution is shown by induction on
the number of screens not yet seen: a call marks its screen before it goes on.
What a walk finds (`Found`) follows by the same induction: it lists each newly
seen screen once and nothing else; whatever a newly seen screen embeds is seen in
the end; and nothing is seen outside a set that holds the starting points and is
closed under embedding. From an empty set this is reachability.

`CoverageProofs`, of `Reports` and `Surfaces` (any requirements, finitely many
phases, stories, scenarios and merge requests; any log, with any times):

* `ReportsTypesCorrect`: `Spec => []ReportsTypeOK`.
* `MigrationsAreWhole`: `Spec => MigrationIsWhole`.
* `LatestAlwaysWins`: `Spec => []LatestWins`.
* `RunsAlwaysStayInPhase`: `Spec => RunsStayInPhase`.
* `ChainAlwaysWhole`: `Spec => []ChainIsWhole`.
* `GapsAlwaysExplain`: `Spec => []GapsExplain`.
* `SurfacesAlwaysAgree`: `Spec => []SurfacesAgree`.

`MigrationIsWhole` speaks of the end of an import, so `AloneInv` speaks of its
middle: as long as nobody else wrote a scenario, the stored ones are among those
the import is through with, and if it skips nothing each of those is linked as in
the feature files.

The others are mostly about the operators. The folds and sums of the library are
solutions, by `CHOOSE`, of a recursion over subsets; `FoldExists` shows by
induction on cardinality that there is one wherever the set is finite and the
step stays in a set, and `DownFold` and `ChainOf` turn it into a chain of steps.
`InOrder` chooses a sorted enumeration; `EnumerationExists` shows that a finite
set with a total, transitive order has one. `LatestIsLast` then follows a fold
over the log inside a fold over the phases. `LatestUnique` says that the run it
ends with depends on the log and the phases in view alone. `RunsStayInPhase`
needs that: a run of a phase that is not in view adds no candidate, so the report
before and after it has the same latest runs, and with them the same statuses.
`SurfacesAgree` goes answer by answer: the phase table counts each item once
because its rows partition the items (`CountedOnce`), and the fold that picks a
story's merge request ends with a merged one as soon as one is listed
(`MrIsMerged`).

**Only model-checked.** The two liveness properties (`LockTakesHold`, `Reopens`)
are out of this prover's reach. Every other property of the runs is stated by a
theorem. Those about the serial use of `SpecStore`, about `Deletion`, and
`GrantsNameRoles` and `GainsAreHeld` have one client as a hypothesis, as their runs
have one, because with two clients the properties can fail (section 5). The run of
`ProjectStaysInside` has one client as well, its theorem any number.

## 5. What is not modelled, and where the code does otherwise

### Disagreements met while modelling

The properties above hold. In these places the code does something other than a
comment, a description or its own sibling says; each limits a property, as
stated in its comment or in `hazards`.

Versions and tables:

* Two overlapping `create_version` calls leave two drafts (`version-ops.ts:51`;
  `schema.ts:464-465` has at most one). `OneDraft` is for requests one by one.
* A lock that lands between the guard and the upsert of `writeRow` is not seen
  (`postgres-store.ts:485`, against lines 422-424).
* A second `init_project` points the draft at a locked `1.0.0` (`index.ts:806`;
  line 762 calls it idempotent, `schema.ts:464` and `version-ops.ts:203` forbid
  such a pointer). It also drops the fields `set_repo` wrote. `POST /api/init`
  resets the config row of an initialised project.
* A stop between the copy and the registration leaves rows that a later
  `create_version` of that version adopts (`version-ops.ts:80`, against 76-77).
* `set_active_phase` and `PATCH /api/config` write back a config row read
  earlier, and can so restore a pointer to a version dropped meanwhile.
* A report on the first version counts results recorded against later ones
  (`version-carryover.ts:152`, against 50-53).

Deletion and documents:

* A story that links a requirement between its in-use check and its removal is
  left tracing to nothing (`deletion.ts:113`, against 105-107).
* A stop between the removal of a phase and the write of the config row leaves new
  executions going to a phase that is gone (`deletion.ts:84`).
* `supersededBy` of an ADR dangles after `delete_adr`; `create_adr` does not
  validate it, `update_adr` does.
* `import_adrs_from_files` says "never overwritten"; its write is an upsert after
  a listing, so an ADR created in between is.

Reports:

* `computeDeliveredCoverage` takes its input to be "already restricted" to active
  requirements (`coverage.ts:606`), which it is not; `buildReport` says that
  unassigned items always count (482), and `inScope` leaves them out of a phase.
* `GET /api/story` reads the feature files even where scenarios are stored
  (`web-api.ts:1443`); `list_links` is described as a scan of them, and reads
  stored ones first.
* `POST /api/scenarios/execute` validates against the files only, and takes any
  phase id: such runs count in no report (`web-api.ts:2052`).
* A malformed scenario that an unforced import skips drops out of coverage as
  soon as another one is stored.
* Tools default to cumulative, routes to strict; a scenario without a run is
  `pending` for a tool and has no status for a route.
* `link_merge_request` on a recorded merge request reopens a merged one;
  overlapping `link_branch` calls share an id.

Screens: `link_story_screen` takes a new snapshot of a story already linked
(`index.ts:2537`), which clears its drift, against 2263-2265. `create_or_update_screen` takes its
mockup first (2226) and the snapshot of the story versions queries later
(2266-2272): a story written in between counts as seen, and the mockup, which
cannot show that write, never drifts on its account. Left out of a call, `uses` and
`exits` only grow (2260-2261): a screen that new markup no longer embeds stays. `missingPlatforms` of `get_screens_for_story` leaves
out the default platforms of the config (2474), and `api_ui_coverage` accepts an
unknown phase where the tool refuses it.

Import and history: a stop, or a restoration that fails itself, leaves an
imported baseline open (`export-import.ts:121`); the registration is blind to a
version created since the listing; the deduplication of executions (254) looks
at the filtered log, so results that carry-over hides are imported twice. Two
overlapping writers of a row can hide an entry in the change history. A prior
state that cannot be read for any reason is taken for that of a row that does not
exist (`audit.ts:425-436`, whose comment has the uninitialised project in mind), so
the entry of the write says "created" (295-306) and the history of the row has two
beginnings. When an MCP client disconnects, its HTTP request ends and the queue is
inserted (`index.ts:3621-3625`) though the tool runs on; what the tool writes from
then on is in the tables and not in the history.

Sign-in: two overlapping sign-ins of an account may both spend one time step, and of
two recovery codes spent together one stays valid (`two-factor.ts:177-197`).

Roles:

* A project can be left with nobody who can administer it, which `routes.ts:650`
  and the repository's `README.md:456-457` say is prevented. `others` at
  `routes.ts:654` counts disabled accounts, and people who were granted a role and
  never signed in. A bootstrap administrator grants a colleague `admin` on a
  project and server-wide; the colleague disables the administrator's account
  (875-902), gives up the server-wide grant (977-999) and leaves the project: the
  member list still shows the disabled administrator, so the removal goes through. Two managers who leave at once both pass the check as well.
  No property says that somebody stays.
* The administrator's grant (964) gives a second role where `members.ts:121` says
  one per person and project.
* A newcomer is looked up, and recorded if absent, in two queries (`members.ts:180-191`,
  `routes.ts:952-963`). The upsert of the second overwrites the groups
  (`store.ts:264-270`), so somebody who signs in between the two loses the roles of
  the directory until the next sign-in. `ProjectStaysInside` leaves that write out.

Front ends: `list_projects` and `get_project_brief` leave no audit row though
`audit.ts:5-7` promises one per tool call. A row takes its version, and its
project when the lookup failed, from the context that the calls of a batch share.
An audit row is appended without waiting and a failure only logged
(`audit.ts:83-85`), so a row may be missing, by a failed insert or a stop, of a call
that was answered.

Web interface (`public/app.js`): a project switch does not reload decisions,
scenarios and screens (1582-1594); `loadScenarios` ignores the version in view;
a load of the summary that does not bring the lists swallows a change, so that
later ticks of the stream skip them (1829-1833): `executeScenario` reloads the
summary alone, `deleteRequirementItem` (1668) and `deletePhaseItem` (1689) some lists
with it, and `switchVersion` loads summary and lists side by side, of which the
lists may be read first and the summary after the change; `executeScenario` leaves the coverage panel stale;
`openStoryDetail` compares an answer with the story asked for, not the one open
(2810). An answer for a project that was left is applied like any other: its
versions become the list the tab knows and its baseline the version in view
(1437-1458), and its summary may seed a phase (1608-1618) that nothing drops
once the lists are loaded; two quick switches suffice, in order and with nothing
lost. The traceability chain ignores a change of phase, version or project
while its first load is under way (382, 1482), and picking a phase and back
leaves the other's late answer shown.

### Left out

* Text: titles, contents, searches, percentages, pagination, tag expressions,
  the breakdown by component, tags of a project.
* REST edits on a store bound to no version, which look up the current version
  again at each call; `init_project`'s optional first phase.
* A torn copy: `copyVersion` is one transaction of six `INSERT ... SELECT`
  under READ COMMITTED, each with its own snapshot. The model copies one table.
* `ensureInit` and `bindVersion` read the config row one after the other; the
  model takes one read for both. `isInitialized` and `readConfig` likewise.
* `Deletion`: drafts other than the working version, whose deletions leave the
  active phase alone. A lock that lands in the middle of a cascade leaves it half
  applied, with the target still there: no property forbids it.
* `CarryOver`: the executions' own fields, since `filterCarriedOver` looks at
  none of them. A result recorded against the version reported on always counts.
* `Reports`: its handlers are atomic except the import of feature files; two
  overlapping updates of a merge request are not modelled. `validate_scenario`
  changes nothing.
* `Screens`: exits, roles, and the heuristics over texts.
* `SignIn`: the directory's own protocol, cookies, and the signing of session ids.
* `Access`: the suffix fallback of `permissionForTool`, which no tool reaches;
  the project list of a token is `Membership`'s.
* `Dashboard`: forms, charts, the audit and access pages, routing by URL.
* What `PROJECT.json` marks `not_modelled`.

A process that stops between registration and pointer leaves a draft no pointer
names. That is recoverable (`set_active_version`), so no property forbids it.

## 6. What would come next

* A second table in `SpecStore`, to see a copy torn between two.
* `Deletion` and `Membership` with several clients: not their properties, which
  fail, but which of them a request keeps if no other touches the same rows.
* `Dashboard` with the screens, scenarios and decisions tabs, whose leftovers
  section 5 lists.
