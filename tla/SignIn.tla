-------------------------------- MODULE SignIn --------------------------------
(***************************************************************************)
(* Sign-in: password, second factor, sessions (src/auth/authenticate.ts,   *)
(* two-factor.ts, totp.ts and their handlers in routes.ts) over the tables *)
(* of src/auth/store.ts, with the throttle of Throttle.                    *)
(*                                                                         *)
(* A request is a record that walks through the queries of its handler;    *)
(* what it has read so far travels in the record.  On SQLite the handlers  *)
(* run one after the other, on PostgreSQL other requests come between two  *)
(* queries: Overlap says which.  Authenticator steps are counted from now, *)
(* so that a step loses one with every Tick; a step older than the         *)
(* accepted window is Old, whatever its age.                               *)
(***************************************************************************)
EXTENDS Throttle, Integers

CONSTANTS
    Requests,       \* requests the server can have in hand at once
    Sessions,       \* session ids (one whose row was purged is used again)
    Secrets,        \* authenticator secrets (one nobody holds is used again)
    Codes,          \* recovery codes (one that is not stored is used again)
    CodeCount,      \* RECOVERY_CODE_COUNT
    Drift,          \* DRIFT_STEPS
    Overlap,        \* whether other requests come between two queries of one
    Happens,        \* bound of the model: what goes wrong or runs out in an instance
    None

ASSUME SignInAssumption ==
    /\ Drift \in Nat
    /\ Overlap \in BOOLEAN
    /\ Happens \subseteq {"mistake", "expiry", "stop"}
    /\ None \notin Sessions \cup Users \cup Ips \cup Secrets \cup Codes

VARIABLES
    deployment,     \* settings of the server, fixed while it runs
    account,        \* auth_users: absent, active or disabled
    session,        \* auth_sessions, None where there is no row
    totp,           \* auth_totp, None where there is no row
    req             \* the requests in hand
\* What happened so far, read by the properties only.
VARIABLES
    accepted,       \* the steps of each secret whose code was accepted, where requests are serial
    proven,         \* secrets one correct code was given for
    passed,         \* sessions in whose sign-in a code was accepted
    ended,          \* sessions there when a reset or a disable was answered
    issued,         \* recovery codes shown and not spent, where requests are serial
    cut             \* accounts whose reset or disable a stop cut short

tables == <<account, session, totp>>
memory == <<bucket, req>>
past   == <<accepted, proven, passed, ended, issued, cut>>
vars   == <<deployment, bucket, account, session, totp, req,
            accepted, proven, passed, ended, issued, cut>>

Old    == -Drift - 1
Window == -Drift .. Drift

Deployment == {d \in [offered : BOOLEAN, obliged : SUBSET Users] :
                   d.offered \/ d.obliged = {}}

Session == [user : Users, pending : BOOLEAN, owed : BOOLEAN, revoked : BOOLEAN, expired : BOOLEAN]

Enrolment == [secret : Secrets, confirmed : BOOLEAN, last : Old .. Drift, recovery : SUBSET Codes]

\* None stands for a row that is not there, so it is none itself.
ASSUME NoneIsNoRow == None \notin Session /\ None \notin Enrolment

Phase == {"idle", "directory", "account", "mirror", "factor", "open",
          "holder", "begin", "confirm", "check", "disable", "reissue",
          "putNew", "putConfirmed", "spend", "mark", "promote", "drop", "putCodes", "revoke"}

Request == [at : Phase, op : {"login", "verify", "begin", "confirm", "disable", "reissue", "admin"},
            user : Users \cup {None}, ip : Ips \cup {NoIp}, session : Sessions \cup {None},
            row : Enrolment \cup {None}, step : Old .. Drift, code : Codes \cup {None}, pending : BOOLEAN]

Nobody == [at |-> "idle", op |-> "login", user |-> None, ip |-> NoIp, session |-> None,
           row |-> None, step |-> Old, code |-> None, pending |-> FALSE]

-------------------------------------------------------------------------------
(* Requests and what they look at.                                          *)

\* A request is taken up when the handler has its body.
MayReceive(r) ==
    /\ req[r].at = "idle"
    /\ Overlap \/ \A q \in Requests : req[q].at = "idle"

Take(r, request) == req' = [req EXCEPT ![r] = request]
Goes(r, to)      == req' = [req EXCEPT ![r].at = to]
Answer(r)        == req' = [req EXCEPT ![r] = Nobody]
\* The query is done and what was read for it is not looked at again.
Proceeds(r, to)  ==
    req' = [req EXCEPT ![r] = [Nobody EXCEPT !.at = to, !.op = req[r].op, !.user = req[r].user,
                                             !.ip = req[r].ip, !.session = req[r].session]]

\* The checks on a session row that authenticateRequest and handlePendingStep share.
Live(s) == session[s] # None /\ ~session[s].revoked /\ ~session[s].expired

\* authenticateRequest, for the cookie of session s.
Usable(s) == Live(s) /\ ~session[s].pending /\ account[session[s].user] = "active"

Enrolled(u) == totp[u] # None /\ totp[u].confirmed

\* A secret some row or request still holds; a fresh random one is none of these.
SecretInUse(x) ==
    \/ \E u \in Users : totp[u] # None /\ totp[u].secret = x
    \/ \E r \in Requests : req[r].row # None /\ req[r].row.secret = x

StoredCodes ==
    UNION ({totp[u].recovery : u \in {v \in Users : totp[v] # None}}
           \cup {req[r].row.recovery : r \in {q \in Requests : req[q].row # None}})

FreshCodes == {c \in SUBSET (Codes \ StoredCodes) : Cardinality(c) = CodeCount}

\* verifyTotp for the code of one step of one secret against a row: in the
\* window, for the stored secret, and later than the last step when asked to.
AppCodeMatches(row, x, step)   == x = row.secret /\ step \in Window
NotReplayed(row, step)         == step > row.last

NoteStep(x, step) == accepted' = IF Overlap THEN accepted ELSE [accepted EXCEPT ![x] = @ \cup {step}]
NoteCodes(u, codes) == issued' = IF Overlap THEN issued ELSE [issued EXCEPT ![u] = codes]

\* What is known of a secret goes when nothing holds it any more; x is a fresh one.
NoteSecrets(x) ==
    /\ proven' = {y \in proven : y # x /\ SecretInUse(y)'}
    /\ accepted' = [y \in Secrets |-> IF y # x /\ SecretInUse(y)' THEN accepted[y] ELSE {}]

-------------------------------------------------------------------------------
(* The password: login in authenticate.ts, called by POST /api/auth/login.  *)

\* Mutant: an attempt that is refused counts as well.
LoginCountsRefusals(r, u, ip) ==
    /\ MayReceive(r)
    /\ IF MustWait(u, ip)
       THEN RecordFailure(u, ip) /\ UNCHANGED req
       ELSE Take(r, [Nobody EXCEPT !.at = "directory", !.op = "login", !.user = u, !.ip = ip]) /\ UNCHANGED bucket
    /\ UNCHANGED <<deployment, tables, past>>

Login(r, u, ip) ==
    /\ MayReceive(r)
    /\ IF MustWait(u, ip)
       THEN UNCHANGED req
       ELSE Take(r, [Nobody EXCEPT !.at = "directory", !.op = "login", !.user = u, !.ip = ip])
    /\ UNCHANGED <<deployment, bucket, tables, past>>

\* A wrong password counts towards the throttle, a directory that fails does not.
DirectoryRejects(r) ==
    /\ "mistake" \in Happens
    /\ req[r].at = "directory"
    /\ RecordFailure(req[r].user, req[r].ip)
    /\ Answer(r)
    /\ UNCHANGED <<deployment, tables, past>>

DirectoryFails(r) ==
    /\ "mistake" \in Happens
    /\ req[r].at = "directory"
    /\ Answer(r)
    /\ UNCHANGED <<deployment, bucket, tables, past>>

DirectoryAccepts(r) ==
    /\ req[r].at = "directory"
    /\ Goes(r, "account")
    /\ UNCHANGED <<deployment, bucket, tables, past>>

ReadAccount(r) ==
    /\ req[r].at = "account"
    /\ IF account[req[r].user] = "disabled"
       THEN RecordFailure(req[r].user, req[r].ip) /\ Answer(r)
       ELSE Goes(r, "mirror") /\ UNCHANGED bucket
    /\ UNCHANGED <<deployment, tables, past>>

\* upsertUser: a row that is there keeps its disabled flag.
MirrorAccount(r) ==
    /\ req[r].at = "mirror"
    /\ account' = [account EXCEPT ![req[r].user] = IF @ = "absent" THEN "active" ELSE @]
    /\ Goes(r, "factor")
    /\ UNCHANGED <<deployment, bucket, session, totp, past>>

\* No role anywhere is a refusal that counts like a wrong password.
NoAccess(r) ==
    /\ "mistake" \in Happens
    /\ req[r].at = "factor"
    /\ RecordFailure(req[r].user, req[r].ip)
    /\ Answer(r)
    /\ UNCHANGED <<deployment, tables, past>>

\* secondFactor is "none" unless the server offers one and the account has it or must have it.
OwesFactor(u) == deployment.offered /\ (Enrolled(u) \/ u \in deployment.obliged)

ChooseFactor(r) ==
    /\ req[r].at = "factor"
    /\ req' = [req EXCEPT ![r].at = "open", ![r].pending = OwesFactor(req[r].user)]
    /\ UNCHANGED <<deployment, bucket, tables, past>>

OpenSession(r, s) ==
    /\ req[r].at = "open"
    /\ session[s] = None
    /\ session' = [session EXCEPT ![s] =
           [user |-> req[r].user, pending |-> req[r].pending, owed |-> req[r].pending,
            revoked |-> FALSE, expired |-> FALSE]]
    /\ ClearFailures(req[r].user, req[r].ip)
    /\ Answer(r)
    /\ passed' = passed \ {s}
    /\ ended' = ended \ {s}
    /\ UNCHANGED <<deployment, account, totp, accepted, proven, issued, cut>>

-------------------------------------------------------------------------------
(* The second half of sign-in (handlePendingStep), reached with the         *)
(* challenge of a pending session, and self-service with a usable one.      *)

Challenge(r, s, ip, op) ==
    /\ MayReceive(r)
    /\ Live(s) /\ session[s].pending
    /\ Take(r, [Nobody EXCEPT !.at = "holder", !.op = op, !.user = session[s].user, !.ip = ip, !.session = s])
    /\ UNCHANGED <<deployment, bucket, tables, past>>

ReadHolder(r) ==
    /\ req[r].at = "holder"
    /\ IF account[req[r].user] # "active" \/ MustWait(req[r].user, req[r].ip)
       THEN Answer(r)
       ELSE Goes(r, IF req[r].op = "verify" THEN "check" ELSE req[r].op)
    /\ UNCHANGED <<deployment, bucket, tables, past>>

Manage(r, s, op) ==
    /\ MayReceive(r)
    /\ Usable(s)
    /\ Take(r, [Nobody EXCEPT !.at = op, !.op = op, !.user = session[s].user])
    /\ UNCHANGED <<deployment, bucket, tables, past>>

\* begin: a confirmed enrolment is kept, anything else will be replaced.
Begin(r) ==
    /\ req[r].at = "begin"
    /\ IF deployment.offered /\ ~Enrolled(req[r].user) THEN Goes(r, "putNew") ELSE Answer(r)
    /\ UNCHANGED <<deployment, bucket, tables, past>>

PutNew(r, x) ==
    /\ req[r].at = "putNew"
    /\ ~SecretInUse(x)
    /\ totp' = [totp EXCEPT ![req[r].user] =
           [secret |-> x, confirmed |-> FALSE, last |-> Old, recovery |-> {}]]
    /\ Answer(r)
    /\ NoteSecrets(x)
    /\ NoteCodes(req[r].user, {})
    /\ UNCHANGED <<deployment, bucket, account, session, passed, ended, cut>>

\* Only a sign-in that is under way pays for a wrong code.
WrongCode(r) ==
    /\ "mistake" \in Happens
    /\ IF req[r].session # None THEN RecordFailure(req[r].user, req[r].ip) ELSE UNCHANGED bucket
    /\ Answer(r)
    /\ UNCHANGED <<deployment, tables, past>>

RefuseConfirm(r) ==
    /\ req[r].at = "confirm"
    /\ IF totp[req[r].user] = None \/ Enrolled(req[r].user)
       THEN Answer(r) /\ UNCHANGED <<deployment, bucket, tables, past>>
       ELSE WrongCode(r)

Confirm(r, x, step) ==
    /\ req[r].at = "confirm"
    /\ totp[req[r].user] # None /\ ~Enrolled(req[r].user)
    /\ AppCodeMatches(totp[req[r].user], x, step)
    /\ req' = [req EXCEPT ![r].at = "putConfirmed", ![r].row = totp[req[r].user], ![r].step = step]
    /\ proven' = proven \cup {x}
    /\ passed' = passed \cup ({req[r].session} \ {None})
    /\ UNCHANGED <<deployment, bucket, tables, accepted, ended, issued, cut>>

\* Mutant: the step of the confirming code is not kept.
ConfirmedRowNoStep(row, step, codes) ==
    [row EXCEPT !.confirmed = TRUE, !.recovery = codes]

ConfirmedRow(row, step, codes) ==
    [row EXCEPT !.confirmed = TRUE, !.last = step, !.recovery = codes]

\* Mutant: only the columns of the confirmation are written.
RowThere(r) == IF totp[req[r].user] = None THEN req[r].row ELSE totp[req[r].user]

\* The row that is written: all of the one that was read.
RowRead(r) == req[r].row

PutConfirmed(r, codes) ==
    /\ req[r].at = "putConfirmed"
    /\ totp' = [totp EXCEPT ![req[r].user] = ConfirmedRow(RowRead(r), req[r].step, codes)]
    /\ IF req[r].session # None THEN Proceeds(r, "promote") ELSE Answer(r)
    /\ NoteStep(req[r].row.secret, req[r].step)
    /\ NoteCodes(req[r].user, codes)
    /\ UNCHANGED <<deployment, bucket, account, session, proven, passed, ended, cut>>

-------------------------------------------------------------------------------
(* verify, for the sign-in and in front of disable and of                   *)
(* regenerateRecoveryCodes.                                                 *)

\* Mutant: the policy is not asked.
MayManageAny(r) == Enrolled(req[r].user)

\* disable is refused to an account that must hold a factor.
MayManage(r) ==
    /\ Enrolled(req[r].user)
    /\ req[r].op = "disable" => req[r].user \notin deployment.obliged

ReadEnrolment(r) ==
    /\ req[r].at \in {"disable", "reissue"}
    /\ IF MayManage(r) THEN Goes(r, "check") ELSE Answer(r)
    /\ UNCHANGED <<deployment, bucket, tables, past>>

\* Mutant: an account without an enrolment has nothing to check.
RefuseCodeIfEnrolled(r) ==
    /\ req[r].at = "check"
    /\ IF Enrolled(req[r].user)
       THEN WrongCode(r)
       ELSE Goes(r, "promote") /\ UNCHANGED <<deployment, bucket, tables, past>>

RefuseCode(r) ==
    /\ req[r].at = "check"
    /\ IF Enrolled(req[r].user)
       THEN WrongCode(r)
       ELSE Answer(r) /\ UNCHANGED <<deployment, bucket, tables, past>>

TakeRecoveryCode(r, c) ==
    /\ req[r].at = "check"
    /\ Enrolled(req[r].user)
    /\ c \in totp[req[r].user].recovery
    /\ req' = [req EXCEPT ![r].at = "spend", ![r].row = totp[req[r].user], ![r].code = c]
    /\ passed' = passed \cup ({req[r].session} \ {None})
    /\ UNCHANGED <<deployment, bucket, tables, accepted, proven, ended, issued, cut>>

TakeAppCode(r, x, step) ==
    /\ req[r].at = "check"
    /\ Enrolled(req[r].user)
    /\ AppCodeMatches(totp[req[r].user], x, step)
    /\ NotReplayed(totp[req[r].user], step)
    /\ req' = [req EXCEPT ![r].at = "mark", ![r].row = totp[req[r].user], ![r].step = step]
    /\ passed' = passed \cup ({req[r].session} \ {None})
    /\ UNCHANGED <<deployment, bucket, tables, accepted, proven, ended, issued, cut>>

AfterCode(op) == CASE op = "verify"  -> "promote"
                   [] op = "disable" -> "drop"
                   [] op = "reissue" -> "putCodes"

\* Mutant: the code stays in the list.
CodesKept(row, c) == row.recovery

\* The list that is written back: the one that was read, without the code.
CodesLeft(row, c) == row.recovery \ {c}

\* setRecoveryHashes: the list as it was read, without the code.
SpendCode(r) ==
    LET u == req[r].user IN
    /\ req[r].at = "spend"
    /\ totp' = [totp EXCEPT ![u] = IF @ = None THEN None
                                   ELSE [@ EXCEPT !.recovery = CodesLeft(req[r].row, req[r].code)]]
    /\ Proceeds(r, AfterCode(req[r].op))
    /\ NoteCodes(u, issued[u] \ {req[r].code})
    /\ UNCHANGED <<deployment, bucket, account, session, accepted, proven, passed, ended, cut>>

\* Mutant: the step is stored as it is.
ThisStep(last, step) == step

\* setTotpLastStep: GREATEST(last_step, step).
LaterStep(last, step) == IF last > step THEN last ELSE step

MarkStep(r) ==
    LET u == req[r].user IN
    /\ req[r].at = "mark"
    /\ totp' = [totp EXCEPT ![u] = IF @ = None THEN None
                                   ELSE [@ EXCEPT !.last = LaterStep(totp[u].last, req[r].step)]]
    /\ Proceeds(r, AfterCode(req[r].op))
    /\ NoteStep(req[r].row.secret, req[r].step)
    /\ UNCHANGED <<deployment, bucket, account, session, proven, passed, ended, issued, cut>>

\* completeSignIn: clearSessionPending leaves a revoked session alone.
Promotable(s) == session[s] # None /\ session[s].pending /\ ~session[s].revoked

Promote(r) ==
    LET s == req[r].session IN
    /\ req[r].at = "promote"
    /\ session' = IF Promotable(s) THEN [session EXCEPT ![s].pending = FALSE] ELSE session
    /\ ClearFailures(req[r].user, req[r].ip)
    /\ Answer(r)
    /\ UNCHANGED <<deployment, account, totp, past>>

DropEnrolment(r) ==
    /\ req[r].at = "drop"
    /\ totp' = [totp EXCEPT ![req[r].user] = None]
    /\ Answer(r)
    /\ NoteSecrets(None)
    /\ NoteCodes(req[r].user, {})
    /\ UNCHANGED <<deployment, bucket, account, session, passed, ended, cut>>

PutCodes(r, codes) ==
    LET u == req[r].user IN
    /\ req[r].at = "putCodes"
    /\ totp' = [totp EXCEPT ![u] = IF @ = None THEN None ELSE [@ EXCEPT !.recovery = codes]]
    /\ Answer(r)
    /\ NoteCodes(u, codes)
    /\ UNCHANGED <<deployment, bucket, account, session, accepted, proven, passed, ended, cut>>

-------------------------------------------------------------------------------
(* Administration, sign-out, time and faults.                               *)

\* PATCH /api/admin/users/:id: a disabled account loses its sessions next.
SetDisabled(r, u) ==
    /\ MayReceive(r)
    /\ account[u] # "absent"
    /\ account' = [account EXCEPT ![u] = "disabled"]
    /\ Take(r, [Nobody EXCEPT !.at = "revoke", !.op = "admin", !.user = u])
    /\ UNCHANGED <<deployment, bucket, session, totp, past>>

SetEnabled(r, u) ==
    /\ MayReceive(r)
    /\ account[u] = "disabled"
    /\ account' = [account EXCEPT ![u] = "active"]
    /\ UNCHANGED <<deployment, memory, session, totp, past>>

\* DELETE /api/admin/users/:id/2fa
AdminReset(r, u) ==
    /\ MayReceive(r)
    /\ totp' = [totp EXCEPT ![u] = None]
    /\ Take(r, [Nobody EXCEPT !.at = "revoke", !.op = "admin", !.user = u])
    /\ NoteSecrets(None)
    /\ NoteCodes(u, {})
    /\ UNCHANGED <<deployment, bucket, account, session, passed, ended, cut>>

\* Mutant: a sign-in that is half way is not a session yet.
RevokedIfComplete(u, row) == row # None /\ row.user = u /\ ~row.pending

\* revokeSessionsForUser: every session of the account, finished or pending.
RevokedFor(u, row) == row # None /\ row.user = u

RevokeAll(r) ==
    /\ req[r].at = "revoke"
    /\ session' = [s \in Sessions |-> IF RevokedFor(req[r].user, session[s])
                                      THEN [session[s] EXCEPT !.revoked = TRUE]
                                      ELSE session[s]]
    /\ Answer(r)
    /\ ended' = ended \cup {s \in Sessions : session[s] # None /\ session[s].user = req[r].user}
    /\ UNCHANGED <<deployment, bucket, account, totp, accepted, proven, passed, issued, cut>>

Logout(r, s) ==
    /\ MayReceive(r)
    /\ Usable(s)
    /\ session' = [session EXCEPT ![s].revoked = TRUE]
    /\ UNCHANGED <<deployment, memory, account, totp, past>>

\* The session's lifetime runs out; a week later purgeExpired may drop the row.
Expire(s) ==
    /\ "expiry" \in Happens
    /\ Live(s)
    /\ session' = [session EXCEPT ![s].expired = TRUE]
    /\ UNCHANGED <<deployment, memory, account, totp, past>>

PurgeExpired(s) ==
    /\ session[s] # None /\ session[s].expired
    /\ \A r \in Requests : req[r].session # s
    /\ session' = [session EXCEPT ![s] = None]
    /\ UNCHANGED <<deployment, memory, account, totp, past>>

Earlier(step) == IF step = Old THEN Old ELSE step - 1

AgedRow(row) == IF row = None THEN None ELSE [row EXCEPT !.last = Earlier(@)]

Tick ==
    /\ ThrottleTick
    /\ totp' = [u \in Users |-> AgedRow(totp[u])]
    /\ req' = [r \in Requests |->
           [req[r] EXCEPT !.step = Earlier(@),
                          !.row = AgedRow(@)]]
    /\ accepted' = [x \in Secrets |-> {Earlier(n) : n \in accepted[x]} \ {Old}]
    /\ UNCHANGED <<deployment, account, session, proven, passed, ended, issued, cut>>

\* The process stops: its requests and its throttle are gone, the tables stay.
Stop ==
    /\ "stop" \in Happens
    /\ ThrottleLost
    /\ req' = [r \in Requests |-> Nobody]
    /\ cut' = cut \cup {req[r].user : r \in {q \in Requests : req[q].at = "revoke"}}
    /\ UNCHANGED <<deployment, tables, accepted, proven, passed, ended, issued>>

-------------------------------------------------------------------------------
Init ==
    /\ deployment \in Deployment
    /\ ThrottleInit
    /\ account = [u \in Users |-> "absent"]
    /\ session = [s \in Sessions |-> None]
    /\ totp = [u \in Users |-> None]
    /\ req = [r \in Requests |-> Nobody]
    /\ accepted = [x \in Secrets |-> {}]
    /\ proven = {} /\ passed = {} /\ ended = {} /\ cut = {}
    /\ issued = [u \in Users |-> {}]

Password(r) ==
    \/ \E u \in Users, ip \in Ips \cup {NoIp} : Login(r, u, ip)
    \/ DirectoryRejects(r) \/ DirectoryFails(r) \/ DirectoryAccepts(r)
    \/ ReadAccount(r) \/ MirrorAccount(r) \/ NoAccess(r) \/ ChooseFactor(r)
    \/ \E s \in Sessions : OpenSession(r, s)

Factor(r) ==
    \/ \E s \in Sessions, ip \in Ips \cup {NoIp}, op \in {"verify", "begin", "confirm"} :
           Challenge(r, s, ip, op)
    \/ \E s \in Sessions, op \in {"begin", "confirm", "disable", "reissue"} : Manage(r, s, op)
    \/ ReadHolder(r) \/ Begin(r) \/ RefuseConfirm(r) \/ ReadEnrolment(r) \/ RefuseCode(r)
    \/ \E x \in Secrets : PutNew(r, x)
    \/ \E x \in Secrets, step \in Window : Confirm(r, x, step) \/ TakeAppCode(r, x, step)
    \/ \E c \in Codes : TakeRecoveryCode(r, c)
    \/ \E codes \in FreshCodes : PutConfirmed(r, codes) \/ PutCodes(r, codes)
    \/ SpendCode(r) \/ MarkStep(r) \/ Promote(r) \/ DropEnrolment(r)

Administration(r) ==
    \/ \E u \in Users : SetDisabled(r, u) \/ SetEnabled(r, u) \/ AdminReset(r, u)
    \/ \E s \in Sessions : Logout(r, s)
    \/ RevokeAll(r)

Next ==
    \/ \E r \in Requests : Password(r) \/ Factor(r) \/ Administration(r)
    \/ \E s \in Sessions : Expire(s) \/ PurgeExpired(s)
    \/ Tick
    \/ Stop

\* Time passes.
Spec == Init /\ [][Next]_vars /\ WF_vars(Tick)
===============================================================================
