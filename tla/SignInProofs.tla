----------------------------- MODULE SignInProofs -----------------------------
(***************************************************************************)
(* Sign-in, proved for any users, sessions, secrets, codes and requests in *)
(* hand, whether other requests come between two queries of one or not,    *)
(* with stops and expiry: the secret of an enrolment is held, a factor     *)
(* that was owed is proven, an ended session stays ended, and a watermark  *)
(* only goes up.  Then, where requests come one after the other: an        *)
(* obliged account is protected, recovery codes are tracked, and a step    *)
(* that was accepted is covered.                                           *)
(***************************************************************************)
EXTENDS SignInProperties, TLAPS

-------------------------------------------------------------------------------
(* The invariant.                                                           *)

SignInRecords ==
    /\ session \in [Sessions -> Session \cup {None}]
    /\ totp \in [Users -> Enrolment \cup {None}]
    /\ req \in [Requests -> Request]
    /\ ended \subseteq Sessions

\* What a request relies on, read off its record k: who it is for, where it may
\* go next, that the row of its session is still there, that a code was accepted
\* in that sign-in, and that the row it will confirm is of a proven secret.
Fits(k) ==
    /\ k.at # "idle" => k.user \in Users
    /\ k.at = "holder" => k.op \in {"verify", "begin", "confirm"}
    /\ k.at \in {"disable", "reissue"} => k.op = k.at
    /\ k.at \in {"check", "spend", "mark"} => k.op \in {"verify", "disable", "reissue"}
    /\ k.session # None => session[k.session] # None
    /\ k.at \in {"putConfirmed", "spend", "mark", "promote"} /\ k.session # None => k.session \in passed
    /\ k.at \in {"putConfirmed", "spend", "mark"} => k.row # None
    /\ k.at = "putConfirmed" => k.row.secret \in proven

SessionFits(s) ==
    session[s] # None =>
        /\ session[s].owed /\ ~session[s].pending => s \in passed
        /\ s \in ended => session[s].revoked

SignInInv ==
    /\ SignInRecords
    /\ \A r \in Requests : Fits(req[r])
    /\ \A s \in Sessions : SessionFits(s)
    /\ ConfirmedIsHeld

-------------------------------------------------------------------------------
(* Lemmas: requests that move.                                              *)

LEMMA StepsTyped ==
  /\ Old \in Old .. Drift
  /\ Window \subseteq Old .. Drift
  /\ \A n \in Old .. Drift : Earlier(n) \in Old .. Drift
  /\ \A m, n \in Old .. Drift : LaterStep(m, n) \in Old .. Drift /\ m <= LaterStep(m, n)
  BY SignInAssumption DEF Old, Window, Earlier, LaterStep

LEMMA NobodyFits == Nobody \in Request /\ Fits(Nobody) /\ Fits(Nobody)'
  BY StepsTyped DEF Nobody, Request, Phase, Fits

\* One request moves on to k; what the others rely on is still there.
LEMMA RequestMoves ==
  ASSUME SignInInv, NEW r \in Requests, NEW k \in Request, req' = [req EXCEPT ![r] = k], Fits(k)',
         \A s \in Sessions : session[s] # None => session'[s] # None,
         passed \subseteq passed',
         \A q \in Requests : req[q].at = "putConfirmed" /\ req[q].row.secret \in proven =>
                                 q = r \/ req[q].row.secret \in proven'
  PROVE  req' \in [Requests -> Request] /\ \A q \in Requests : Fits(req[q])'
  <1>1. req' \in [Requests -> Request]
    BY DEF SignInInv, SignInRecords
  <1>2. ASSUME NEW q \in Requests
        PROVE  Fits(req[q])'
    <2>1. CASE q = r
      <3>1. req'[q] = k
        BY <2>1 DEF SignInInv, SignInRecords
      <3> QED BY <3>1 DEF Fits
    <2>2. CASE q # r
      <3>1. req'[q] = req[q] /\ req[q] \in Request /\ Fits(req[q])
        BY <2>2 DEF SignInInv, SignInRecords
      <3>2. req[q].session # None => req[q].session \in Sessions
        BY <3>1 DEF Request
      <3> QED BY <2>2, <3>1, <3>2 DEF Fits
    <2> QED BY <2>1, <2>2
  <1> QED BY <1>1, <1>2

\* A step that changes nothing but a request (and accounts, and the throttle).
LEMMA QuietMove ==
  ASSUME SignInInv, NEW r \in Requests, NEW k \in Request, req' = [req EXCEPT ![r] = k], Fits(k),
         session' = session, totp' = totp, passed' = passed, proven' = proven, ended' = ended
  PROVE  SignInInv'
  <1>1. Fits(k)'
    BY DEF Fits
  <1>2. req' \in [Requests -> Request] /\ \A q \in Requests : Fits(req[q])'
    BY <1>1, RequestMoves
  <1> QED BY <1>2 DEF SignInInv, SignInRecords, SessionFits, ConfirmedIsHeld, Enrolled

LEMMA QuietStutter ==
  ASSUME SignInInv, req' = req,
         session' = session, totp' = totp, passed' = passed, proven' = proven, ended' = ended
  PROVE  SignInInv'
  BY DEF SignInInv, SignInRecords, Fits, SessionFits, ConfirmedIsHeld, Enrolled

LEMMA QuietAnswer ==
  ASSUME SignInInv, NEW r \in Requests, Answer(r),
         session' = session, totp' = totp, passed' = passed, proven' = proven, ended' = ended
  PROVE  SignInInv'
  BY NobodyFits, QuietMove DEF Answer

\* A request that only takes its next step.
LEMMA QuietGoes ==
  ASSUME SignInInv, NEW r \in Requests, NEW to \in Phase, Goes(r, to), Fits([req[r] EXCEPT !.at = to]),
         session' = session, totp' = totp, passed' = passed, proven' = proven, ended' = ended
  PROVE  SignInInv'
  <1> DEFINE k == [req[r] EXCEPT !.at = to]
  <1>1. k \in Request
    BY DEF SignInInv, SignInRecords, Request
  <1>2. req' = [req EXCEPT ![r] = k]
    BY DEF Goes
  <1> HIDE DEF k
  <1>3. PICK m \in Request : m = k
    BY <1>1
  <1>4. req' = [req EXCEPT ![r] = m] /\ Fits(m)
    BY <1>2, <1>3 DEF k
  <1> QED BY <1>4, QuietMove

-------------------------------------------------------------------------------
(* The password.                                                            *)

LEMMA LoginKeeps ==
  ASSUME SignInInv, NEW r \in Requests, NEW u \in Users, NEW ip \in Ips \cup {NoIp}, Login(r, u, ip)
  PROVE  SignInInv'
  <1>1. PICK k : k = [Nobody EXCEPT !.at = "directory", !.op = "login", !.user = u, !.ip = ip]
    OBVIOUS
  <1>2. k \in Request /\ k.at = "directory" /\ k.user = u /\ k.session = None
    BY <1>1, NobodyFits DEF Nobody, Request, Phase
  <1>3. Fits(k)
    BY <1>2 DEF Fits
  <1>4. CASE UNCHANGED req
    BY <1>4, QuietStutter DEF Login, tables, past
  <1>5. CASE ~UNCHANGED req
    BY <1>1, <1>2, <1>3, <1>5, QuietMove DEF Login, Take, tables, past
  <1> QED BY <1>4, <1>5

LEMMA DirectoryKeeps ==
  ASSUME SignInInv, NEW r \in Requests,
         \/ DirectoryRejects(r) \/ DirectoryFails(r) \/ DirectoryAccepts(r)
         \/ ReadAccount(r) \/ MirrorAccount(r) \/ NoAccess(r)
  PROVE  SignInInv'
  <1> USE DEF tables, past
  <1>r. req[r] \in Request /\ Fits(req[r])
    BY DEF SignInInv, SignInRecords
  <1>1. CASE Answer(r)
    BY <1>1, QuietAnswer DEF DirectoryRejects, DirectoryFails, DirectoryAccepts, ReadAccount, MirrorAccount,
                             NoAccess, Goes, Answer
  <1>2. CASE ~Answer(r)
    <2>1. PICK to \in {"account", "mirror", "factor"} :
             req[r].at \in {"directory", "account", "mirror"} /\ Goes(r, to)
      BY <1>2 DEF DirectoryRejects, DirectoryFails, DirectoryAccepts, ReadAccount, MirrorAccount, NoAccess
    <2>2. to \in Phase
      BY DEF Phase
    <2>3. Fits([req[r] EXCEPT !.at = to])
      BY <1>r, <2>1 DEF Fits, Request
    <2> QED BY <2>1, <2>2, <2>3, QuietGoes DEF DirectoryRejects, DirectoryFails, DirectoryAccepts, ReadAccount,
                             MirrorAccount, NoAccess
  <1> QED BY <1>1, <1>2

LEMMA ChooseFactorKeeps ==
  ASSUME SignInInv, NEW r \in Requests, ChooseFactor(r)
  PROVE  SignInInv'
  <1>r. req[r] \in Request /\ Fits(req[r])
    BY DEF SignInInv, SignInRecords
  <1>1. OwesFactor(req[r].user) \in BOOLEAN
    BY DEF OwesFactor
  <1>2. PICK owes \in BOOLEAN : owes = OwesFactor(req[r].user)
    BY <1>1
  <1>3. PICK k : k = [req[r] EXCEPT !.at = "open", !.pending = owes]
    OBVIOUS
  <1>4. k \in Request
    BY <1>r, <1>3 DEF Request, Phase
  <1>5. Fits(k)
    BY <1>r, <1>3 DEF Fits, Request, ChooseFactor
  <1>6. req' = [req EXCEPT ![r] = k]
    BY <1>2, <1>3 DEF ChooseFactor
  <1> QED BY <1>4, <1>5, <1>6, QuietMove DEF ChooseFactor, tables, past

LEMMA OpenSessionKeeps ==
  ASSUME SignInInv, NEW r \in Requests, NEW s \in Sessions, OpenSession(r, s)
  PROVE  SignInInv'
  <1>r. req[r] \in Request /\ Fits(req[r]) /\ req[r].at = "open"
    BY DEF SignInInv, SignInRecords, OpenSession
  <1>1. PICK row : row = [user |-> req[r].user, pending |-> req[r].pending, owed |-> req[r].pending,
                          revoked |-> FALSE, expired |-> FALSE]
    OBVIOUS
  <1>2. row \in Session /\ row # None /\ row.pending = row.owed
    <2>1. req[r].user \in Users /\ req[r].pending \in BOOLEAN
      BY <1>r DEF Fits, Request
    <2>2. row \in Session
      BY <1>1, <2>1 DEF Session
    <2>3. row # None
      BY <2>2, NoneIsNoRow
    <2>4. row.pending = row.owed
      BY <1>1
    <2> QED BY <2>2, <2>3, <2>4
  <1>a. /\ session[s] = None /\ session' = [session EXCEPT ![s] = row]
        /\ totp' = totp /\ proven' = proven /\ passed' = passed \ {s} /\ ended' = ended \ {s}
        /\ req' = [req EXCEPT ![r] = Nobody]
    BY <1>1 DEF OpenSession, Answer
  <1>3. session' \in [Sessions -> Session \cup {None}]
    BY <1>2, <1>a DEF SignInInv, SignInRecords
  <1>4. req' \in [Requests -> Request]
    BY <1>a, NobodyFits DEF SignInInv, SignInRecords
  <1>5. ASSUME NEW q \in Requests
        PROVE  Fits(req[q])'
    <2>1. CASE q = r
      BY <1>a, <2>1, NobodyFits DEF SignInInv, SignInRecords, Fits
    <2>2. CASE q # r
      <3>1. req'[q] = req[q] /\ Fits(req[q]) /\ req[q] \in Request
        BY <1>a, <2>2 DEF SignInInv, SignInRecords
      <3>2. req[q].session # None => req[q].session \in Sessions \ {s}
        BY <1>a, <3>1 DEF Fits, Request
      <3>3. req[q].session # None => session'[req[q].session] = session[req[q].session]
        BY <1>a, <3>2 DEF SignInInv, SignInRecords
      <3> QED BY <1>a, <3>1, <3>2, <3>3 DEF Fits
    <2> QED BY <2>1, <2>2
  <1>6. ASSUME NEW x \in Sessions
        PROVE  SessionFits(x)'
    <2>1. CASE x = s
      <3>1. session'[x] = row /\ x \notin ended'
        BY <1>a, <2>1 DEF SignInInv, SignInRecords
      <3> QED BY <1>2, <3>1 DEF SessionFits
    <2>2. CASE x # s
      <3>1. session'[x] = session[x] /\ SessionFits(x) /\ x \in ended' => x \in ended
        BY <1>a, <2>2 DEF SignInInv, SignInRecords
      <3>2. x \in passed => x \in passed'
        BY <1>a, <2>2
      <3> QED BY <1>a, <2>2, <3>1, <3>2 DEF SessionFits, SignInInv, SignInRecords
    <2> QED BY <2>1, <2>2
  <1>7. ConfirmedIsHeld'
    BY <1>a DEF SignInInv, ConfirmedIsHeld, Enrolled
  <1> QED BY <1>a, <1>3, <1>4, <1>5, <1>6, <1>7 DEF SignInInv, SignInRecords

-------------------------------------------------------------------------------
(* Pending steps and self-service, up to the code.                          *)

LEMMA ChallengeKeeps ==
  ASSUME SignInInv, NEW r \in Requests, NEW s \in Sessions, NEW ip \in Ips \cup {NoIp},
         NEW op \in {"verify", "begin", "confirm"}, Challenge(r, s, ip, op)
  PROVE  SignInInv'
  <1>1. session[s] \in Session /\ session[s] # None
    BY DEF Challenge, Live, SignInInv, SignInRecords
  <1>2. PICK k : k = [Nobody EXCEPT !.at = "holder", !.op = op, !.user = session[s].user, !.ip = ip, !.session = s]
    OBVIOUS
  <1>3. k \in Request /\ k.at = "holder" /\ k.op = op /\ k.user = session[s].user /\ k.session = s
    BY <1>1, <1>2, NobodyFits DEF Nobody, Request, Phase, Session
  <1>4. Fits(k)
    BY <1>1, <1>3 DEF Fits, Session
  <1> QED BY <1>2, <1>3, <1>4, QuietMove DEF Challenge, Take, tables, past

LEMMA ManageKeeps ==
  ASSUME SignInInv, NEW r \in Requests, NEW s \in Sessions,
         NEW op \in {"begin", "confirm", "disable", "reissue"}, Manage(r, s, op)
  PROVE  SignInInv'
  <1>1. session[s] \in Session /\ session[s] # None
    BY DEF Manage, Usable, Live, SignInInv, SignInRecords
  <1>2. PICK k : k = [Nobody EXCEPT !.at = op, !.op = op, !.user = session[s].user]
    OBVIOUS
  <1>3. k \in Request /\ k.at = op /\ k.op = op /\ k.user = session[s].user /\ k.session = None
    BY <1>1, <1>2, NobodyFits DEF Nobody, Request, Phase, Session
  <1>4. Fits(k)
    BY <1>1, <1>3 DEF Fits, Session
  <1> QED BY <1>2, <1>3, <1>4, QuietMove DEF Manage, Take, tables, past

LEMMA ChecksKeep ==
  ASSUME SignInInv, NEW r \in Requests,
         ReadHolder(r) \/ Begin(r) \/ RefuseConfirm(r) \/ ReadEnrolment(r) \/ RefuseCode(r)
  PROVE  SignInInv'
  <1> USE DEF tables, past
  <1>r. req[r] \in Request /\ Fits(req[r])
    BY DEF SignInInv, SignInRecords
  <1>0. session' = session /\ totp' = totp /\ passed' = passed /\ proven' = proven /\ ended' = ended
    BY DEF ReadHolder, Begin, RefuseConfirm, ReadEnrolment, RefuseCode, WrongCode
  <1>1. CASE Answer(r)
    BY <1>0, <1>1, QuietAnswer
  <1>2. CASE ~Answer(r)
    <2>1. PICK to \in {"check", "begin", "confirm", "putNew"} :
             /\ Goes(r, to)
             /\ req[r].at # "idle"
             /\ to = "check" => \/ req[r].at = "holder" /\ req[r].op = "verify"
                                \/ req[r].at \in {"disable", "reissue"}
      <3>1. CASE ReadHolder(r)
        BY <1>r, <1>2, <3>1 DEF ReadHolder, Fits
      <3>2. CASE Begin(r) \/ ReadEnrolment(r)
        BY <1>2, <3>2 DEF Begin, ReadEnrolment
      <3>3. CASE RefuseConfirm(r) \/ RefuseCode(r)
        BY <1>2, <3>3 DEF RefuseConfirm, RefuseCode, WrongCode
      <3> QED BY <3>1, <3>2, <3>3
    <2>2. to \in Phase
      BY DEF Phase
    <2>3. Fits([req[r] EXCEPT !.at = to])
      BY <1>r, <2>1 DEF Fits, Request
    <2> QED BY <1>0, <2>1, <2>2, <2>3, QuietGoes
  <1> QED BY <1>1, <1>2

-------------------------------------------------------------------------------
(* A code is accepted.                                                      *)

LEMMA CodeAccepted ==
  ASSUME SignInInv, NEW r \in Requests, NEW k \in Request, req' = [req EXCEPT ![r] = k],
         Fits(req[r]), req[r].at # "idle",
         k.at \in {"putConfirmed", "spend", "mark"}, k.user = req[r].user, k.op = req[r].op,
         k.session = req[r].session,
         k.at \in {"spend", "mark"} => k.op \in {"verify", "disable", "reissue"},
         k.row # None, k.at = "putConfirmed" => k.row.secret \in proven',
         passed' = passed \cup ({req[r].session} \ {None}), proven \subseteq proven',
         session' = session, totp' = totp, ended' = ended
  PROVE  SignInInv'
  <1>1. Fits(k)'
    BY DEF Fits
  <1>2. req' \in [Requests -> Request] /\ \A q \in Requests : Fits(req[q])'
    BY <1>1, RequestMoves
  <1>3. \A s \in Sessions : SessionFits(s)'
    BY DEF SignInInv, SessionFits
  <1>4. ConfirmedIsHeld'
    BY DEF SignInInv, ConfirmedIsHeld, Enrolled
  <1> QED BY <1>2, <1>3, <1>4 DEF SignInInv, SignInRecords

LEMMA ConfirmKeeps ==
  ASSUME SignInInv, NEW r \in Requests, NEW x \in Secrets, NEW step \in Window, Confirm(r, x, step)
  PROVE  SignInInv'
  <1>r. req[r] \in Request /\ Fits(req[r]) /\ req[r].at = "confirm"
    BY DEF SignInInv, SignInRecords, Confirm
  <1>1. req[r].user \in Users
    BY <1>r DEF Fits
  <1>2. PICK row : row = totp[req[r].user]
    OBVIOUS
  <1>3. row # None /\ row \in Enrolment /\ row.secret = x
    BY <1>1, <1>2 DEF Confirm, SignInInv, SignInRecords, AppCodeMatches
  <1>4. PICK k : k = [req[r] EXCEPT !.at = "putConfirmed", !.row = row, !.step = step]
    OBVIOUS
  <1>5. k \in Request /\ k.at = "putConfirmed" /\ k.row = row
        /\ k.user = req[r].user /\ k.op = req[r].op /\ k.session = req[r].session
    BY <1>r, <1>3, <1>4, StepsTyped DEF Request, Phase
  <1>6. req' = [req EXCEPT ![r] = k]
    BY <1>2, <1>4 DEF Confirm
  <1>7. /\ proven' = proven \cup {x} /\ passed' = passed \cup ({req[r].session} \ {None})
        /\ session' = session /\ totp' = totp /\ ended' = ended
    BY DEF Confirm, tables
  <1> QED BY <1>r, <1>3, <1>5, <1>6, <1>7, CodeAccepted

LEMMA TakeCodeKeeps ==
  ASSUME SignInInv, NEW r \in Requests,
         \/ \E c \in Codes : TakeRecoveryCode(r, c)
         \/ \E x \in Secrets, step \in Window : TakeAppCode(r, x, step)
  PROVE  SignInInv'
  <1>r. req[r] \in Request /\ Fits(req[r]) /\ req[r].at = "check"
    BY DEF SignInInv, SignInRecords, TakeRecoveryCode, TakeAppCode
  <1>1. req[r].user \in Users /\ req[r].op \in {"verify", "disable", "reissue"}
    BY <1>r DEF Fits
  <1>2. PICK row : row = totp[req[r].user]
    OBVIOUS
  <1>3. row # None /\ row \in Enrolment
    BY <1>1, <1>2 DEF TakeRecoveryCode, TakeAppCode, Enrolled, SignInInv, SignInRecords
  <1>4. PICK k : /\ k \in Request /\ k.at \in {"spend", "mark"} /\ k.row = row
                 /\ k.user = req[r].user /\ k.op = req[r].op /\ k.session = req[r].session
                 /\ req' = [req EXCEPT ![r] = k]
    <2>1. CASE \E c \in Codes : TakeRecoveryCode(r, c)
      <3>1. PICK c \in Codes : TakeRecoveryCode(r, c)
        BY <2>1
      <3> WITNESS [req[r] EXCEPT !.at = "spend", !.row = row, !.code = c]
      <3> QED BY <1>r, <1>2, <1>3, <3>1 DEF TakeRecoveryCode, Request, Phase
    <2>2. CASE \E x \in Secrets, step \in Window : TakeAppCode(r, x, step)
      <3>1. PICK x \in Secrets, step \in Window : TakeAppCode(r, x, step)
        BY <2>2
      <3>2. step \in Old .. Drift
        BY StepsTyped
      <3>3. PICK k : k = [req[r] EXCEPT !.at = "mark", !.row = row, !.step = step]
        OBVIOUS
      <3>4. /\ k \in Request /\ k.at = "mark" /\ k.row = row
            /\ k.user = req[r].user /\ k.op = req[r].op /\ k.session = req[r].session
        BY <1>r, <1>3, <3>2, <3>3 DEF Request, Phase
      <3>5. req' = [req EXCEPT ![r] = k]
        BY <1>2, <3>1, <3>3 DEF TakeAppCode
      <3> QED BY <3>4, <3>5
    <2> QED BY <2>1, <2>2
  <1>5. /\ proven' = proven /\ passed' = passed \cup ({req[r].session} \ {None})
        /\ session' = session /\ totp' = totp /\ ended' = ended
    BY DEF TakeRecoveryCode, TakeAppCode, tables
  <1> QED BY <1>r, <1>1, <1>3, <1>4, <1>5, CodeAccepted

-------------------------------------------------------------------------------
(* The enrolment is written.                                                *)

\* What is known of a secret stays known while something holds it.
LEMMA SecretsKept ==
  ASSUME NEW x, NoteSecrets(x), NEW y \in proven, y # x, SecretInUse(y)'
  PROVE  y \in proven'
  BY DEF NoteSecrets

LEMMA EnrolmentMove ==
  ASSUME SignInInv, NEW r \in Requests, NEW k \in Request, req' = [req EXCEPT ![r] = k], Fits(k)',
         session' = session, passed' = passed, ended' = ended,
         totp' \in [Users -> Enrolment \cup {None}],
         \A q \in Requests \ {r} : req[q].at = "putConfirmed" /\ req[q].row.secret \in proven =>
                                      req[q].row.secret \in proven',
         ConfirmedIsHeld'
  PROVE  SignInInv'
  <1>1. req' \in [Requests -> Request] /\ \A q \in Requests : Fits(req[q])'
    BY RequestMoves
  <1>2. \A s \in Sessions : SessionFits(s)'
    BY DEF SignInInv, SessionFits
  <1> QED BY <1>1, <1>2 DEF SignInInv, SignInRecords

\* Where secrets are dropped, those other requests are confirming stay.
LEMMA OthersSecretsKept ==
  ASSUME SignInInv, NEW r \in Requests, NEW k \in Request, req' = [req EXCEPT ![r] = k],
         NEW x, x = None \/ ~SecretInUse(x), NoteSecrets(x), NEW q \in Requests \ {r},
         req[q].at = "putConfirmed", req[q].row.secret \in proven
  PROVE  req[q].row.secret \in proven'
  <1>1. req[q] \in Request /\ Fits(req[q]) /\ req'[q] = req[q]
    BY DEF SignInInv, SignInRecords
  <1>2. req[q].row \in Enrolment /\ req[q].row # None
    BY <1>1 DEF Fits, Request
  <1>3. req[q].row.secret \in Secrets
    BY <1>2 DEF Enrolment
  <1>4. SecretInUse(req[q].row.secret)
    BY <1>2 DEF SecretInUse
  <1>5. req[q].row.secret # x
    BY <1>3, <1>4, SignInAssumption
  <1>6. PICK y : y = req[q].row.secret
    OBVIOUS
  <1>7. SecretInUse(y)'
    BY <1>1, <1>2, <1>6 DEF SecretInUse
  <1> QED BY <1>5, <1>6, <1>7, SecretsKept

\* And those of the confirmed rows that are not written.
LEMMA RowsSecretsKept ==
  ASSUME SignInInv, NEW x, x = None \/ ~SecretInUse(x), NoteSecrets(x),
         NEW u \in Users, totp'[u] = totp[u], Enrolled(u)
  PROVE  totp'[u].secret \in proven'
  <1>1. totp[u] # None /\ totp[u] \in Enrolment /\ totp[u].secret \in proven
    BY DEF SignInInv, SignInRecords, ConfirmedIsHeld, Enrolled
  <1>2. totp[u].secret # x
    BY <1>1, SignInAssumption DEF Enrolment, SecretInUse
  <1>3. PICK y : y = totp[u].secret
    OBVIOUS
  <1>4. SecretInUse(y)'
    BY <1>1, <1>3 DEF SecretInUse
  <1> QED BY <1>1, <1>2, <1>3, <1>4, SecretsKept

LEMMA PutNewKeeps ==
  ASSUME SignInInv, NEW r \in Requests, NEW x \in Secrets, PutNew(r, x)
  PROVE  SignInInv'
  <1>r. req[r] \in Request /\ Fits(req[r]) /\ req[r].at = "putNew"
    BY DEF SignInInv, SignInRecords, PutNew
  <1>u. req[r].user \in Users
    BY <1>r DEF Fits
  <1>1. PICK row : row = [secret |-> x, confirmed |-> FALSE, last |-> Old, recovery |-> {}]
    OBVIOUS
  <1>2. row \in Enrolment /\ row.confirmed = FALSE
    BY <1>1, StepsTyped DEF Enrolment
  <1>a. /\ totp' = [totp EXCEPT ![req[r].user] = row] /\ req' = [req EXCEPT ![r] = Nobody]
        /\ session' = session /\ passed' = passed /\ ended' = ended
        /\ ~SecretInUse(x) /\ NoteSecrets(x)
    BY <1>1 DEF PutNew, Answer
  <1>3. totp' \in [Users -> Enrolment \cup {None}]
    BY <1>2, <1>a DEF SignInInv, SignInRecords
  <1>4. ConfirmedIsHeld'
    <2> SUFFICES ASSUME NEW u \in Users, Enrolled(u)'
                 PROVE  totp'[u].secret \in proven'
      BY DEF ConfirmedIsHeld
    <2>1. CASE u = req[r].user
      BY <1>2, <1>a, <1>u, <2>1 DEF Enrolled, SignInInv, SignInRecords
    <2>2. CASE u # req[r].user
      <3>1. totp'[u] = totp[u] /\ Enrolled(u)
        BY <1>a, <2>2 DEF Enrolled, SignInInv, SignInRecords
      <3> QED BY <1>a, <3>1, RowsSecretsKept
    <2> QED BY <2>1, <2>2
  <1>5. \A q \in Requests \ {r} : req[q].at = "putConfirmed" /\ req[q].row.secret \in proven =>
                                     req[q].row.secret \in proven'
    BY <1>a, NobodyFits, OthersSecretsKept
  <1> QED BY <1>a, <1>3, <1>4, <1>5, NobodyFits, EnrolmentMove

\* A row that goes, of one account.
LEMMA RowGoes ==
  ASSUME SignInInv, NEW r \in Requests, NEW k \in Request, req' = [req EXCEPT ![r] = k], Fits(k)',
         NEW u \in Users, totp' = [totp EXCEPT ![u] = None],
         session' = session, passed' = passed, ended' = ended, NoteSecrets(None)
  PROVE  SignInInv'
  <1>1. totp' \in [Users -> Enrolment \cup {None}]
    BY DEF SignInInv, SignInRecords
  <1>2. ConfirmedIsHeld'
    <2> SUFFICES ASSUME NEW v \in Users, Enrolled(v)'
                 PROVE  totp'[v].secret \in proven'
      BY DEF ConfirmedIsHeld
    <2>1. v # u /\ totp'[v] = totp[v] /\ Enrolled(v)
      BY DEF Enrolled, SignInInv, SignInRecords
    <2> QED BY <2>1, RowsSecretsKept
  <1>3. \A q \in Requests \ {r} : req[q].at = "putConfirmed" /\ req[q].row.secret \in proven =>
                                     req[q].row.secret \in proven'
    BY OthersSecretsKept
  <1> QED BY <1>1, <1>2, <1>3, EnrolmentMove

LEMMA DropEnrolmentKeeps ==
  ASSUME SignInInv, NEW r \in Requests, DropEnrolment(r)
  PROVE  SignInInv'
  <1>1. req[r].user \in Users
    BY DEF SignInInv, Fits, DropEnrolment
  <1> QED BY <1>1, NobodyFits, RowGoes DEF DropEnrolment, Answer

LEMMA AdminResetKeeps ==
  ASSUME SignInInv, NEW r \in Requests, NEW u \in Users, AdminReset(r, u)
  PROVE  SignInInv'
  <1>1. PICK k : k = [Nobody EXCEPT !.at = "revoke", !.op = "admin", !.user = u]
    OBVIOUS
  <1>2. k \in Request /\ k.at = "revoke" /\ k.user = u /\ k.session = None
    BY <1>1, NobodyFits DEF Nobody, Request, Phase
  <1>3. Fits(k)'
    BY <1>2 DEF Fits
  <1> QED BY <1>1, <1>2, <1>3, RowGoes DEF AdminReset, Take

\* The request proceeds to what its operation does once the code is good.
LEMMA Proceeding ==
  ASSUME SignInInv, NEW r \in Requests, NEW to \in {"promote", "drop", "putCodes"}, Proceeds(r, to),
         req[r].at \in {"putConfirmed", "spend", "mark"}, session' = session, passed' = passed
  PROVE  \E k \in Request : req' = [req EXCEPT ![r] = k] /\ Fits(k)'
  <1>r. req[r] \in Request /\ Fits(req[r])
    BY DEF SignInInv, SignInRecords
  <1>1. PICK k : k = [Nobody EXCEPT !.at = to, !.op = req[r].op, !.user = req[r].user,
                                    !.ip = req[r].ip, !.session = req[r].session]
    OBVIOUS
  <1>2. k \in Request /\ k.at = to /\ k.user = req[r].user /\ k.session = req[r].session
    BY <1>r, <1>1, NobodyFits DEF Nobody, Request, Phase
  <1>3. Fits(k)'
    BY <1>r, <1>2 DEF Fits
  <1>4. req' = [req EXCEPT ![r] = k]
    BY <1>1 DEF Proceeds
  <1> QED BY <1>2, <1>3, <1>4

\* A row that is written over keeps its secret and stays as confirmed as it was.
LEMMA RowRewritten ==
  ASSUME SignInInv, NEW r \in Requests, NEW k \in Request, req' = [req EXCEPT ![r] = k], Fits(k)',
         NEW u \in Users, NEW row \in Enrolment, totp' = [totp EXCEPT ![u] = row],
         row.confirmed => row.secret \in proven,
         session' = session, passed' = passed, ended' = ended, proven' = proven
  PROVE  SignInInv'
  <1>1. totp' \in [Users -> Enrolment \cup {None}]
    BY DEF SignInInv, SignInRecords
  <1>2. ConfirmedIsHeld'
    BY DEF SignInInv, SignInRecords, ConfirmedIsHeld, Enrolled
  <1> QED BY <1>1, <1>2, EnrolmentMove

LEMMA PutConfirmedKeeps ==
  ASSUME SignInInv, NEW r \in Requests, NEW codes \in FreshCodes, PutConfirmed(r, codes)
  PROVE  SignInInv'
  <1>r. req[r] \in Request /\ Fits(req[r]) /\ req[r].at = "putConfirmed"
    BY DEF SignInInv, SignInRecords, PutConfirmed
  <1>1. /\ req[r].user \in Users /\ req[r].row \in Enrolment /\ req[r].row.secret \in proven
        /\ req[r].step \in Old .. Drift
    BY <1>r DEF Fits, Request
  <1>2. codes \in SUBSET Codes
    BY DEF FreshCodes
  <1>3. PICK row : row = ConfirmedRow(RowRead(r), req[r].step, codes)
    OBVIOUS
  <1>4. row \in Enrolment /\ row.secret = req[r].row.secret
    BY <1>1, <1>2, <1>3 DEF ConfirmedRow, RowRead, Enrolment
  <1>5. PICK k \in Request : req' = [req EXCEPT ![r] = k] /\ Fits(k)'
    <2>1. CASE req[r].session # None
      BY <1>r, <2>1, Proceeding DEF PutConfirmed
    <2>2. CASE req[r].session = None
      BY <2>2, NobodyFits DEF PutConfirmed, Answer
    <2> QED BY <2>1, <2>2
  <1> QED BY <1>1, <1>3, <1>4, <1>5, RowRewritten DEF PutConfirmed

LEMMA CodeEffectKeeps ==
  ASSUME SignInInv, NEW r \in Requests,
         SpendCode(r) \/ MarkStep(r) \/ \E codes \in FreshCodes : PutCodes(r, codes)
  PROVE  SignInInv'
  <1>r. req[r] \in Request /\ Fits(req[r]) /\ req[r].at \in {"spend", "mark", "putCodes"}
    BY DEF SignInInv, SignInRecords, SpendCode, MarkStep, PutCodes
  <1>u. req[r].user \in Users
    BY <1>r DEF Fits
  <1>0. session' = session /\ passed' = passed /\ ended' = ended /\ proven' = proven
    BY DEF SpendCode, MarkStep, PutCodes
  <1>1. PICK k \in Request : req' = [req EXCEPT ![r] = k] /\ Fits(k)'
    <2>1. CASE SpendCode(r) \/ MarkStep(r)
      <3>1. req[r].op \in {"verify", "disable", "reissue"} /\ req[r].at \in {"spend", "mark"}
        BY <1>r, <2>1 DEF Fits, SpendCode, MarkStep
      <3>2. AfterCode(req[r].op) \in {"promote", "drop", "putCodes"}
        BY <3>1 DEF AfterCode
      <3> QED BY <1>0, <2>1, <3>1, <3>2, Proceeding DEF SpendCode, MarkStep
    <2>2. CASE ~(SpendCode(r) \/ MarkStep(r))
      BY <2>2, NobodyFits DEF PutCodes, Answer
    <2> QED BY <2>1, <2>2
  <1>2. CASE totp[req[r].user] = None
    <2>1. totp' \in [Users -> Enrolment \cup {None}] /\ \A v \in Users : totp'[v] = totp[v]
      <3>1. totp' = [totp EXCEPT ![req[r].user] = None]
        BY <1>2 DEF SpendCode, MarkStep, PutCodes
      <3> QED BY <1>u, <1>2, <3>1 DEF SignInInv, SignInRecords
    <2>2. ConfirmedIsHeld'
      BY <1>0, <2>1 DEF SignInInv, ConfirmedIsHeld, Enrolled
    <2> QED BY <1>0, <1>1, <2>1, <2>2, EnrolmentMove
  <1>3. CASE totp[req[r].user] # None
    <2>1. totp[req[r].user] \in Enrolment
      BY <1>u, <1>3 DEF SignInInv, SignInRecords
    <2>2. PICK row : /\ row \in Enrolment
                     /\ totp' = [totp EXCEPT ![req[r].user] = row]
                     /\ row.secret = totp[req[r].user].secret
                     /\ row.confirmed = totp[req[r].user].confirmed
      <3>1. CASE SpendCode(r)
        <4>1. req[r].row \in Enrolment
          BY <1>r, <3>1 DEF Fits, Request, SpendCode
        <4>2. CodesLeft(req[r].row, req[r].code) \in SUBSET Codes
          BY <4>1 DEF CodesLeft, Enrolment
        <4>3. PICK row : row = [totp[req[r].user] EXCEPT !.recovery = CodesLeft(req[r].row, req[r].code)]
          OBVIOUS
        <4>4. totp' = [totp EXCEPT ![req[r].user] = row]
          BY <1>3, <1>u, <3>1, <4>3 DEF SpendCode, SignInInv, SignInRecords
        <4>5. row \in Enrolment /\ row.secret = totp[req[r].user].secret
              /\ row.confirmed = totp[req[r].user].confirmed
          BY <2>1, <4>2, <4>3 DEF Enrolment
        <4> QED BY <4>4, <4>5
      <3>2. CASE MarkStep(r)
        <4>1. LaterStep(totp[req[r].user].last, req[r].step) \in Old .. Drift
          BY <1>r, <2>1, StepsTyped DEF Enrolment, Request
        <4>2. PICK later \in Old .. Drift : later = LaterStep(totp[req[r].user].last, req[r].step)
          BY <4>1
        <4>3. PICK row : row = [totp[req[r].user] EXCEPT !.last = later]
          OBVIOUS
        <4>4. totp' = [totp EXCEPT ![req[r].user] = row]
          <5>1. totp' = [totp EXCEPT ![req[r].user] =
                            IF totp[req[r].user] = None THEN None
                            ELSE [totp[req[r].user] EXCEPT !.last = LaterStep(totp[req[r].user].last, req[r].step)]]
            BY <3>2 DEF MarkStep
          <5> QED BY <1>3, <4>2, <4>3, <5>1
        <4>5. row \in Enrolment /\ row.secret = totp[req[r].user].secret
              /\ row.confirmed = totp[req[r].user].confirmed
          BY <2>1, <4>3 DEF Enrolment
        <4> QED BY <4>4, <4>5
      <3>3. CASE \E codes \in FreshCodes : PutCodes(r, codes)
        <4>1. PICK codes \in FreshCodes : PutCodes(r, codes)
          BY <3>3
        <4>2. codes \in SUBSET Codes
          BY DEF FreshCodes
        <4>3. PICK row : row = [totp[req[r].user] EXCEPT !.recovery = codes]
          OBVIOUS
        <4>4. totp' = [totp EXCEPT ![req[r].user] = row]
          BY <1>3, <1>u, <4>1, <4>3 DEF PutCodes, SignInInv, SignInRecords
        <4>5. row \in Enrolment /\ row.secret = totp[req[r].user].secret
              /\ row.confirmed = totp[req[r].user].confirmed
          BY <2>1, <4>2, <4>3 DEF Enrolment
        <4> QED BY <4>4, <4>5
      <3> QED BY <3>1, <3>2, <3>3
    <2>3. row.confirmed => row.secret \in proven
      BY <1>3, <1>u, <2>2 DEF SignInInv, ConfirmedIsHeld, Enrolled
    <2> QED BY <1>0, <1>1, <1>u, <2>2, <2>3, RowRewritten
  <1> QED BY <1>2, <1>3

-------------------------------------------------------------------------------
(* The sessions are written.                                                *)

LEMMA SessionsMove ==
  ASSUME SignInInv, NEW r \in Requests, NEW k \in Request, req' = [req EXCEPT ![r] = k], Fits(k)',
         session' \in [Sessions -> Session \cup {None}], ended' \subseteq Sessions,
         \A s \in Sessions : session[s] # None => session'[s] # None,
         \A s \in Sessions : SessionFits(s)',
         totp' = totp, passed' = passed, proven' = proven
  PROVE  SignInInv'
  <1>1. req' \in [Requests -> Request] /\ \A q \in Requests : Fits(req[q])'
    BY RequestMoves
  <1>2. ConfirmedIsHeld'
    BY DEF SignInInv, ConfirmedIsHeld, Enrolled
  <1> QED BY <1>1, <1>2 DEF SignInInv, SignInRecords

\* A session row that is written by no request in hand.
LEMMA SessionsStay ==
  ASSUME SignInInv, req' = req,
         session' \in [Sessions -> Session \cup {None}], ended' = ended,
         \A s \in Sessions : session[s] # None /\ session'[s] = None => \A q \in Requests : req[q].session # s,
         \A s \in Sessions : SessionFits(s)',
         totp' = totp, passed' = passed, proven' = proven
  PROVE  SignInInv'
  <1>1. ASSUME NEW q \in Requests
        PROVE  Fits(req[q])'
    <2>1. Fits(req[q]) /\ req[q] \in Request
      BY DEF SignInInv, SignInRecords
    <2>2. req[q].session # None => req[q].session \in Sessions
      BY <2>1 DEF Request
    <2> QED BY <2>1, <2>2 DEF Fits
  <1>2. ConfirmedIsHeld'
    BY DEF SignInInv, ConfirmedIsHeld, Enrolled
  <1> QED BY <1>1, <1>2 DEF SignInInv, SignInRecords

LEMMA PromoteKeeps ==
  ASSUME SignInInv, NEW r \in Requests, Promote(r)
  PROVE  SignInInv'
  <1>r. req[r] \in Request /\ Fits(req[r]) /\ req[r].at = "promote"
    BY DEF SignInInv, SignInRecords, Promote
  <1>a. /\ req' = [req EXCEPT ![r] = Nobody] /\ totp' = totp
        /\ passed' = passed /\ proven' = proven /\ ended' = ended
    BY DEF Promote, Answer, past
  <1>1. CASE session' = session
    BY <1>1, <1>a, NobodyFits, QuietMove
  <1>2. CASE session' # session
    <2>1. PICK s \in Sessions : /\ s = req[r].session /\ s \in passed
                                /\ session[s] \in Session /\ ~session[s].revoked
      <3>1. Promotable(req[r].session)
        BY <1>2 DEF Promote
      <3>2. req[r].session # None
        BY <1>2, <3>1, SignInAssumption DEF Promote, SignInInv, SignInRecords
      <3> QED BY <1>r, <3>1, <3>2 DEF Promotable, Fits, Request, SignInInv, SignInRecords
    <2>2. PICK row : row = [session[s] EXCEPT !.pending = FALSE]
      OBVIOUS
    <2>3. row \in Session /\ ~row.pending /\ row # None
      BY <2>1, <2>2, NoneIsNoRow DEF Session
    <2>4. session' = [session EXCEPT ![s] = row]
      BY <1>2, <2>1, <2>2 DEF Promote
    <2>5. \A x \in Sessions : SessionFits(x)'
      BY <1>a, <2>1, <2>3, <2>4, NoneIsNoRow DEF SignInInv, SignInRecords, SessionFits
    <2>6. session' \in [Sessions -> Session \cup {None}]
      BY <2>3, <2>4 DEF SignInInv, SignInRecords
    <2>7. \A x \in Sessions : session[x] # None => session'[x] # None
      BY <2>3, <2>4 DEF SignInInv, SignInRecords
    <2>8. ended' \subseteq Sessions
      BY <1>a DEF SignInInv, SignInRecords
    <2> QED BY <1>a, <2>5, <2>6, <2>7, <2>8, NobodyFits, SessionsMove
  <1> QED BY <1>1, <1>2

LEMMA RevokeAllKeeps ==
  ASSUME SignInInv, NEW r \in Requests, RevokeAll(r)
  PROVE  SignInInv'
  <1>a. /\ req' = [req EXCEPT ![r] = Nobody] /\ totp' = totp /\ passed' = passed /\ proven' = proven
        /\ ended' = ended \cup {s \in Sessions : session[s] # None /\ session[s].user = req[r].user}
    BY DEF RevokeAll, Answer
  <1>1. ASSUME NEW s \in Sessions
        PROVE  /\ session'[s] \in Session \cup {None}
               /\ session[s] # None => session'[s] # None
               /\ SessionFits(s)'
    <2>1. session[s] \in Session \cup {None} /\ SessionFits(s)
      BY DEF SignInInv, SignInRecords
    <2>2. CASE RevokedFor(req[r].user, session[s])
      <3>1. PICK row : row = [session[s] EXCEPT !.revoked = TRUE]
        OBVIOUS
      <3>2. session'[s] = row /\ session[s] # None
        BY <2>2, <3>1 DEF RevokeAll, RevokedFor
      <3>3. /\ row \in Session /\ row.revoked /\ row # None
            /\ row.owed = session[s].owed /\ row.pending = session[s].pending
        BY <2>1, <3>1, <3>2, NoneIsNoRow DEF Session
      <3> QED BY <1>a, <2>1, <3>2, <3>3 DEF SessionFits
    <2>3. CASE ~RevokedFor(req[r].user, session[s])
      <3>1. session'[s] = session[s]
        BY <2>3 DEF RevokeAll
      <3>2. s \in ended' => s \in ended \/ session[s] = None
        BY <1>a, <2>3 DEF RevokedFor
      <3> QED BY <1>a, <2>1, <3>1, <3>2 DEF SessionFits
    <2> QED BY <2>2, <2>3
  <1>2. session' \in [Sessions -> Session \cup {None}]
    BY <1>1 DEF RevokeAll
  <1>3. ended' \subseteq Sessions
    BY <1>a DEF SignInInv, SignInRecords
  <1> QED BY <1>a, <1>1, <1>2, <1>3, NobodyFits, SessionsMove

\* Signing out, a lifetime that runs out, a row that is purged.
LEMMA SessionEndKeeps ==
  ASSUME SignInInv, NEW s \in Sessions,
         (\E r \in Requests : Logout(r, s)) \/ Expire(s) \/ PurgeExpired(s)
  PROVE  SignInInv'
  <1>a. /\ req' = req /\ totp' = totp /\ passed' = passed /\ proven' = proven /\ ended' = ended
        /\ session[s] # None /\ session[s] \in Session /\ SessionFits(s)
    BY DEF Logout, Expire, PurgeExpired, Usable, Live, memory, past, SignInInv, SignInRecords
  <1>1. PICK row : /\ row \in Session \cup {None} /\ session' = [session EXCEPT ![s] = row]
                   /\ row = None => \A q \in Requests : req[q].session # s
                   /\ row # None => /\ row.owed = session[s].owed /\ row.pending = session[s].pending
                                    /\ session[s].revoked => row.revoked
    <2>1. CASE \E r \in Requests : Logout(r, s)
      <3>1. PICK row : row = [session[s] EXCEPT !.revoked = TRUE]
        OBVIOUS
      <3>2. session' = [session EXCEPT ![s] = row]
        BY <2>1, <3>1 DEF Logout
      <3>3. /\ row \in Session /\ row # None /\ row.revoked
            /\ row.owed = session[s].owed /\ row.pending = session[s].pending
        BY <1>a, <3>1, NoneIsNoRow DEF Session
      <3> QED BY <3>2, <3>3
    <2>2. CASE Expire(s)
      <3>1. PICK row : row = [session[s] EXCEPT !.expired = TRUE]
        OBVIOUS
      <3>2. session' = [session EXCEPT ![s] = row]
        BY <2>2, <3>1 DEF Expire
      <3>3. /\ row \in Session /\ row # None /\ row.revoked = session[s].revoked
            /\ row.owed = session[s].owed /\ row.pending = session[s].pending
        BY <1>a, <3>1, NoneIsNoRow DEF Session
      <3> QED BY <3>2, <3>3
    <2>3. CASE PurgeExpired(s)
      BY <2>3 DEF PurgeExpired
    <2> QED BY <2>1, <2>2, <2>3
  <1>2. session' \in [Sessions -> Session \cup {None}]
    BY <1>1 DEF SignInInv, SignInRecords
  <1>3. \A x \in Sessions : session[x] # None /\ session'[x] = None => \A q \in Requests : req[q].session # x
    BY <1>1 DEF SignInInv, SignInRecords
  <1>4. ASSUME NEW x \in Sessions
        PROVE  SessionFits(x)'
    <2>1. CASE x = s
      <3>1. session'[x] = row
        BY <1>1, <2>1 DEF SignInInv, SignInRecords
      <3> QED BY <1>a, <1>1, <2>1, <3>1 DEF SessionFits
    <2>2. CASE x # s
      <3>1. session'[x] = session[x] /\ SessionFits(x)
        BY <1>1, <2>2 DEF SignInInv, SignInRecords
      <3> QED BY <1>a, <3>1 DEF SessionFits
    <2> QED BY <2>1, <2>2
  <1> QED BY <1>a, <1>2, <1>3, <1>4, SessionsStay

-------------------------------------------------------------------------------
(* Accounts, time and stops.                                                *)

LEMMA AccountKeeps ==
  ASSUME SignInInv, NEW r \in Requests, NEW u \in Users, SetDisabled(r, u) \/ SetEnabled(r, u)
  PROVE  SignInInv'
  <1>1. CASE SetDisabled(r, u)
    <2>1. PICK k : k = [Nobody EXCEPT !.at = "revoke", !.op = "admin", !.user = u]
      OBVIOUS
    <2>2. k \in Request /\ k.at = "revoke" /\ k.user = u /\ k.session = None
      BY <2>1, NobodyFits DEF Nobody, Request, Phase
    <2>3. Fits(k)
      BY <2>2 DEF Fits
    <2> QED BY <1>1, <2>1, <2>2, <2>3, QuietMove DEF SetDisabled, Take, past
  <1>2. CASE SetEnabled(r, u)
    BY <1>2, QuietStutter DEF SetEnabled, memory, past
  <1> QED BY <1>1, <1>2

LEMMA RowAged ==
  ASSUME NEW row \in Enrolment \cup {None}
  PROVE  /\ AgedRow(row) \in Enrolment \cup {None}
         /\ AgedRow(row) = None <=> row = None
         /\ row # None => AgedRow(row).secret = row.secret /\ AgedRow(row).confirmed = row.confirmed
  <1>1. CASE row = None
    BY <1>1 DEF AgedRow
  <1>2. CASE row # None
    <2>1. row \in Enrolment /\ Earlier(row.last) \in Old .. Drift
      BY <1>2, StepsTyped DEF Enrolment
    <2>2. PICK e \in Old .. Drift : e = Earlier(row.last)
      BY <2>1
    <2>3. AgedRow(row) = [row EXCEPT !.last = e]
      BY <1>2, <2>2 DEF AgedRow
    <2>4. /\ AgedRow(row) \in Enrolment
          /\ AgedRow(row).secret = row.secret /\ AgedRow(row).confirmed = row.confirmed
      BY <2>1, <2>2, <2>3 DEF Enrolment
    <2> QED BY <1>2, <2>4, NoneIsNoRow
  <1> QED BY <1>1, <1>2

LEMMA TickKeeps ==
  ASSUME SignInInv, Tick
  PROVE  SignInInv'
  <1>a. session' = session /\ proven' = proven /\ passed' = passed /\ ended' = ended
    BY DEF Tick
  <1>1. ASSUME NEW u \in Users
        PROVE  /\ totp'[u] \in Enrolment \cup {None}
               /\ Enrolled(u)' => totp'[u].secret \in proven'
    <2>1. totp[u] \in Enrolment \cup {None} /\ (Enrolled(u) => totp[u].secret \in proven)
      BY DEF SignInInv, SignInRecords, ConfirmedIsHeld
    <2>2. totp'[u] = AgedRow(totp[u])
      BY DEF Tick
    <2> QED BY <1>a, <2>1, <2>2, RowAged DEF Enrolled
  <1>2. ASSUME NEW q \in Requests
        PROVE  req'[q] \in Request /\ Fits(req[q])'
    <2>1. req[q] \in Request /\ Fits(req[q])
      BY DEF SignInInv, SignInRecords
    <2>2. req[q].step \in Old .. Drift /\ req[q].row \in Enrolment \cup {None}
      BY <2>1 DEF Request
    <2>3. PICK e \in Old .. Drift : e = Earlier(req[q].step)
      BY <2>2, StepsTyped
    <2>4. PICK row \in Enrolment \cup {None} : row = AgedRow(req[q].row)
      BY <2>2, RowAged
    <2>5. req'[q] = [req[q] EXCEPT !.step = e, !.row = row]
      BY <2>3, <2>4 DEF Tick
    <2>6. PICK k : k = req'[q]
      OBVIOUS
    <2>7. /\ k \in Request /\ k.at = req[q].at /\ k.op = req[q].op /\ k.user = req[q].user
          /\ k.session = req[q].session /\ k.row = row
      BY <2>1, <2>5, <2>6 DEF Request
    <2>8. row = None <=> req[q].row = None
      BY <2>2, <2>4, RowAged
    <2>9. req[q].row # None => row.secret = req[q].row.secret
      BY <2>2, <2>4, RowAged
    <2>10. Fits(k)'
      BY <1>a, <2>1, <2>7, <2>8, <2>9 DEF Fits
    <2> QED BY <2>6, <2>7, <2>10 DEF Fits
  <1>3. totp' \in [Users -> Enrolment \cup {None}] /\ req' \in [Requests -> Request]
    BY <1>1, <1>2 DEF Tick
  <1>4. \A s \in Sessions : SessionFits(s)'
    BY <1>a DEF SignInInv, SessionFits
  <1> QED BY <1>a, <1>1, <1>2, <1>3, <1>4 DEF SignInInv, SignInRecords, ConfirmedIsHeld

LEMMA StopKeeps ==
  ASSUME SignInInv, Stop
  PROVE  SignInInv'
  <1>a. /\ session' = session /\ totp' = totp /\ proven' = proven /\ passed' = passed /\ ended' = ended
        /\ req' = [r \in Requests |-> Nobody]
    BY DEF Stop, tables
  <1>1. req' \in [Requests -> Request] /\ \A q \in Requests : Fits(req[q])'
    BY <1>a, NobodyFits DEF Fits
  <1> QED BY <1>a, <1>1 DEF SignInInv, SignInRecords, SessionFits, ConfirmedIsHeld, Enrolled

-------------------------------------------------------------------------------
(* The invariant holds.                                                     *)

LEMMA InitFits == Init => SignInInv
  <1> SUFFICES ASSUME Init PROVE SignInInv
    OBVIOUS
  <1>1. SignInRecords /\ \A r \in Requests : Fits(req[r])
    BY NobodyFits DEF Init, SignInRecords
  <1> QED BY <1>1 DEF Init, SignInInv, SessionFits, ConfirmedIsHeld, Enrolled

LEMMA PasswordKeeps ==
  ASSUME SignInInv, NEW r \in Requests, Password(r)
  PROVE  SignInInv'
  BY LoginKeeps, DirectoryKeeps, ChooseFactorKeeps, OpenSessionKeeps DEF Password

LEMMA FactorKeeps ==
  ASSUME SignInInv, NEW r \in Requests, Factor(r)
  PROVE  SignInInv'
  <1>1. CASE \E s \in Sessions, ip \in Ips \cup {NoIp}, op \in {"verify", "begin", "confirm"} :
                 Challenge(r, s, ip, op)
    BY <1>1, ChallengeKeeps
  <1>2. CASE \E s \in Sessions, op \in {"begin", "confirm", "disable", "reissue"} : Manage(r, s, op)
    BY <1>2, ManageKeeps
  <1>3. CASE ReadHolder(r) \/ Begin(r) \/ RefuseConfirm(r) \/ ReadEnrolment(r) \/ RefuseCode(r)
    BY <1>3, ChecksKeep
  <1>4. CASE \E x \in Secrets : PutNew(r, x)
    BY <1>4, PutNewKeeps
  <1>5. CASE \E x \in Secrets, step \in Window : Confirm(r, x, step)
    BY <1>5, ConfirmKeeps
  <1>6. CASE (\E c \in Codes : TakeRecoveryCode(r, c)) \/ \E x \in Secrets, step \in Window : TakeAppCode(r, x, step)
    BY <1>6, TakeCodeKeeps
  <1>7. CASE \E codes \in FreshCodes : PutConfirmed(r, codes)
    BY <1>7, PutConfirmedKeeps
  <1>8. CASE SpendCode(r) \/ MarkStep(r) \/ \E codes \in FreshCodes : PutCodes(r, codes)
    BY <1>8, CodeEffectKeeps
  <1>9. CASE Promote(r)
    BY <1>9, PromoteKeeps
  <1>10. CASE DropEnrolment(r)
    BY <1>10, DropEnrolmentKeeps
  <1> QED BY <1>1, <1>2, <1>3, <1>4, <1>5, <1>6, <1>7, <1>8, <1>9, <1>10 DEF Factor

LEMMA AdministrationKeeps ==
  ASSUME SignInInv, NEW r \in Requests, Administration(r)
  PROVE  SignInInv'
  BY AccountKeeps, AdminResetKeeps, SessionEndKeeps, RevokeAllKeeps DEF Administration

LEMMA NextKeeps ==
  ASSUME SignInInv, [Next]_vars
  PROVE  SignInInv'
  <1>1. CASE \E r \in Requests : Password(r) \/ Factor(r) \/ Administration(r)
    BY <1>1, PasswordKeeps, FactorKeeps, AdministrationKeeps
  <1>2. CASE \E s \in Sessions : Expire(s) \/ PurgeExpired(s)
    BY <1>2, SessionEndKeeps
  <1>3. CASE Tick
    BY <1>3, TickKeeps
  <1>4. CASE Stop
    BY <1>4, StopKeeps
  <1>5. CASE UNCHANGED vars
    BY <1>5, QuietStutter DEF vars
  <1> QED BY <1>1, <1>2, <1>3, <1>4, <1>5 DEF Next

LEMMA AlwaysSignInInv == Spec => []SignInInv
  <1>1. Init => SignInInv
    BY InitFits
  <1>2. SignInInv /\ [Next]_vars => SignInInv'
    BY NextKeeps
  <1> QED BY <1>1, <1>2, PTL DEF Spec
-------------------------------------------------------------------------------
(* Results.                                                                 *)

\* Sessions, enrolments and requests have their types; in particular a step
\* that is kept never leaves the accepted window.
THEOREM SignInRecordsCorrect == Spec => []SignInRecords
  <1>1. SignInInv => SignInRecords
    BY DEF SignInInv
  <1> QED BY <1>1, AlwaysSignInInv, PTL

\* The secret of every confirmed enrolment is one that a correct code was given
\* for, however a restarted enrolment and a confirmation fall between each
\* other (two-factor.ts, confirm writes the row that it verified).
THEOREM EnrolmentAlwaysHeld == Spec => []ConfirmedIsHeld
  <1>1. SignInInv => ConfirmedIsHeld
    BY DEF SignInInv
  <1> QED BY <1>1, AlwaysSignInInv, PTL

\* No session that owed a second factor is usable before a code was accepted in
\* its own sign-in (routes.ts, handlePendingStep).
THEOREM FactorAlwaysProven == Spec => []OwedFactorProven
  <1>1. SignInInv => OwedFactorProven
    BY DEF SignInInv, SessionFits, OwedFactorProven, Live
  <1> QED BY <1>1, AlwaysSignInInv, PTL

\* A session that was there when a reset or a disable was answered is revoked
\* as long as its row is there (store.ts, revokeSessionsForUser and
\* clearSessionPending, which leaves a revoked row alone).
THEOREM EndedAlwaysEnded == Spec => []EndedStaysEnded
  <1>1. SignInInv => EndedStaysEnded
    BY DEF SignInInv, SignInRecords, SessionFits, EndedStaysEnded
  <1> QED BY <1>1, AlwaysSignInInv, PTL

\* What WatermarkAdvances asks of a step, of one account.
Advances(u) ==
    \/ ~Enrolled(u) \/ ~Enrolled(u)'
    \/ totp[u].secret # totp[u].secret'
    \/ Tick
    \/ \E r \in Requests : req[r].at = "putConfirmed" /\ req'[r].at # "putConfirmed"
    \/ totp[u].last <= totp[u].last'

LEMMA SameRowAdvances ==
  ASSUME SignInInv, NEW u \in Users, totp'[u] = totp[u]
  PROVE  Advances(u)
  <1>1. CASE ~Enrolled(u)
    BY <1>1 DEF Advances
  <1>2. CASE Enrolled(u)
    <2>1. totp[u] \in Enrolment /\ totp[u].last \in Int
      BY <1>2, SignInAssumption DEF Enrolled, SignInInv, SignInRecords, Enrolment, Old
    <2> QED BY <2>1 DEF Advances
  <1> QED BY <1>1, <1>2

\* The row of one account is written, and not with a smaller step.
LEMMA WrittenRowAdvances ==
  ASSUME SignInInv, NEW u \in Users, NEW v \in Users, NEW row, totp' = [totp EXCEPT ![v] = row],
         totp[v] # None /\ row # None => totp[v].last <= row.last
  PROVE  Advances(u)
  <1>1. CASE u = v
    BY <1>1 DEF Advances, Enrolled, SignInInv, SignInRecords
  <1>2. CASE u # v
    BY <1>2, SameRowAdvances DEF SignInInv, SignInRecords
  <1> QED BY <1>1, <1>2

LEMMA StepAdvances ==
  ASSUME SignInInv, [Next]_vars, NEW u \in Users
  PROVE  Advances(u)
  <1>0. CASE totp' = totp
    BY <1>0, SameRowAdvances
  <1>1. CASE \E r \in Requests, x \in Secrets : PutNew(r, x)
    <2>1. PICK r \in Requests, x \in Secrets : PutNew(r, x)
      BY <1>1
    <2>2. PICK row : row = [secret |-> x, confirmed |-> FALSE, last |-> Old, recovery |-> {}]
      OBVIOUS
    <2>3. totp' = [totp EXCEPT ![req[r].user] = row] /\ row.confirmed = FALSE
      BY <2>1, <2>2 DEF PutNew
    <2>4. CASE u = req[r].user
      BY <2>3, <2>4 DEF Advances, Enrolled, SignInInv, SignInRecords
    <2>5. CASE u # req[r].user
      BY <2>3, <2>5, SameRowAdvances DEF SignInInv, SignInRecords
    <2> QED BY <2>4, <2>5
  <1>2. CASE \E r \in Requests, codes \in FreshCodes : PutConfirmed(r, codes)
    <2>1. PICK r \in Requests, codes \in FreshCodes : PutConfirmed(r, codes)
      BY <1>2
    <2>2. req'[r].at # "putConfirmed"
      <3>1. CASE req[r].session # None
        <4>1. PICK k : k = [Nobody EXCEPT !.at = "promote", !.op = req[r].op, !.user = req[r].user,
                                          !.ip = req[r].ip, !.session = req[r].session]
          OBVIOUS
        <4>2. k.at = "promote"
          BY <4>1 DEF Nobody
        <4>3. req' = [req EXCEPT ![r] = k]
          BY <2>1, <3>1, <4>1 DEF PutConfirmed, Proceeds
        <4> QED BY <4>2, <4>3 DEF SignInInv, SignInRecords
      <3>2. CASE req[r].session = None
        <4>1. req' = [req EXCEPT ![r] = Nobody] /\ Nobody.at = "idle"
          BY <2>1, <3>2 DEF PutConfirmed, Answer, Nobody
        <4> QED BY <4>1 DEF SignInInv, SignInRecords
      <3> QED BY <3>1, <3>2
    <2> QED BY <2>1, <2>2 DEF PutConfirmed, Advances
  <1>3. CASE \E r \in Requests : SpendCode(r) \/ MarkStep(r) \/ \E codes \in FreshCodes : PutCodes(r, codes)
    <2>1. PICK r \in Requests : SpendCode(r) \/ MarkStep(r) \/ \E codes \in FreshCodes : PutCodes(r, codes)
      BY <1>3
    <2>2. req[r].user \in Users /\ req[r] \in Request
      BY <2>1 DEF SignInInv, SignInRecords, Fits, SpendCode, MarkStep, PutCodes
    <2>3. CASE totp[req[r].user] = None
      <3>1. totp' = [totp EXCEPT ![req[r].user] = None]
        BY <2>1, <2>3 DEF SpendCode, MarkStep, PutCodes
      <3> QED BY <2>2, <3>1, WrittenRowAdvances
    <2>4. CASE totp[req[r].user] # None
      <3>1. totp[req[r].user] \in Enrolment
        BY <2>2, <2>4 DEF SignInInv, SignInRecords
      <3>2. totp[req[r].user].last \in Old .. Drift /\ totp[req[r].user].last <= totp[req[r].user].last
        BY <3>1, SignInAssumption DEF Enrolment, Old
      <3>3. PICK row : /\ totp' = [totp EXCEPT ![req[r].user] = row]
                       /\ totp[req[r].user].last <= row.last
        <4>1. CASE SpendCode(r)
          <5>1. PICK row : row = [totp[req[r].user] EXCEPT !.recovery = CodesLeft(req[r].row, req[r].code)]
            OBVIOUS
          <5>2. totp' = [totp EXCEPT ![req[r].user] = row]
            BY <2>2, <2>4, <4>1, <5>1 DEF SpendCode, SignInInv, SignInRecords
          <5>3. row.last = totp[req[r].user].last
            BY <3>1, <5>1 DEF Enrolment
          <5> QED BY <3>2, <5>2, <5>3
        <4>2. CASE MarkStep(r)
          <5>1. PICK later : later = LaterStep(totp[req[r].user].last, req[r].step)
            OBVIOUS
          <5>2. totp[req[r].user].last <= later
            BY <2>2, <3>2, <5>1, StepsTyped DEF Request
          <5>3. PICK row : row = [totp[req[r].user] EXCEPT !.last = later]
            OBVIOUS
          <5>4. totp' = [totp EXCEPT ![req[r].user] =
                            IF totp[req[r].user] = None THEN None
                            ELSE [totp[req[r].user] EXCEPT !.last = LaterStep(totp[req[r].user].last, req[r].step)]]
            BY <4>2 DEF MarkStep
          <5>5. totp' = [totp EXCEPT ![req[r].user] = row]
            BY <2>4, <5>1, <5>3, <5>4
          <5>6. row.last = later
            BY <3>1, <5>3 DEF Enrolment
          <5> QED BY <5>2, <5>5, <5>6
        <4>3. CASE \E codes \in FreshCodes : PutCodes(r, codes)
          <5>1. PICK codes \in FreshCodes : PutCodes(r, codes)
            BY <4>3
          <5>2. PICK row : row = [totp[req[r].user] EXCEPT !.recovery = codes]
            OBVIOUS
          <5>3. totp' = [totp EXCEPT ![req[r].user] = row]
            BY <2>2, <2>4, <5>1, <5>2 DEF PutCodes, SignInInv, SignInRecords
          <5>4. row.last = totp[req[r].user].last
            BY <3>1, <5>2 DEF Enrolment
          <5> QED BY <3>2, <5>3, <5>4
        <4> QED BY <2>1, <4>1, <4>2, <4>3
      <3> QED BY <2>2, <3>3, WrittenRowAdvances
    <2> QED BY <2>3, <2>4
  <1>4. CASE \E r \in Requests : DropEnrolment(r) \/ \E v \in Users : AdminReset(r, v)
    <2>1. PICK v : totp' = [totp EXCEPT ![v] = None]
      BY <1>4 DEF DropEnrolment, AdminReset
    <2>2. CASE u = v
      BY <2>1, <2>2 DEF Advances, Enrolled, SignInInv, SignInRecords
    <2>3. CASE u # v
      BY <2>1, <2>3, SameRowAdvances DEF SignInInv, SignInRecords
    <2> QED BY <2>2, <2>3
  <1>5. CASE Tick
    BY <1>5 DEF Advances
  <1>6. totp' = totp \/ Tick
        \/ (\E r \in Requests, x \in Secrets : PutNew(r, x))
        \/ (\E r \in Requests, codes \in FreshCodes : PutConfirmed(r, codes))
        \/ (\E r \in Requests : SpendCode(r) \/ MarkStep(r) \/ \E codes \in FreshCodes : PutCodes(r, codes))
        \/ (\E r \in Requests : DropEnrolment(r) \/ \E v \in Users : AdminReset(r, v))
    <2>1. ASSUME NEW r \in Requests, Password(r)
          PROVE  totp' = totp
      BY <2>1 DEF Password, Login, DirectoryRejects, DirectoryFails, DirectoryAccepts, ReadAccount,
                  MirrorAccount, NoAccess, ChooseFactor, OpenSession, tables
    <2>2. ASSUME NEW r \in Requests, Factor(r), totp' # totp
          PROVE  \/ \E x \in Secrets : PutNew(r, x)
                 \/ \E codes \in FreshCodes : PutConfirmed(r, codes) \/ PutCodes(r, codes)
                 \/ SpendCode(r) \/ MarkStep(r) \/ DropEnrolment(r)
      BY <2>2 DEF Factor, Challenge, Manage, ReadHolder, Begin, RefuseConfirm, ReadEnrolment, RefuseCode,
                  WrongCode, Confirm, TakeAppCode, TakeRecoveryCode, Promote, tables
    <2>3. ASSUME NEW r \in Requests, Administration(r), totp' # totp
          PROVE  \E v \in Users : AdminReset(r, v)
      BY <2>3 DEF Administration, SetDisabled, SetEnabled, Logout, RevokeAll
    <2>4. (\E s \in Sessions : Expire(s) \/ PurgeExpired(s)) \/ Stop \/ UNCHANGED vars => totp' = totp
      BY DEF Expire, PurgeExpired, Stop, vars, tables
    <2> QED BY <2>1, <2>2, <2>3, <2>4 DEF Next
  <1> QED BY <1>0, <1>1, <1>2, <1>3, <1>4, <1>5, <1>6

\* However two verifications fall, the watermark of an enrolment only goes up
\* (store.ts, setTotpLastStep, GREATEST), except that a confirmation writes the
\* step of its own code and that time passes.
THEOREM WatermarkAlwaysAdvances == Spec => WatermarkAdvances
  <1>1. SignInInv /\ [Next]_vars => [\A u \in Users : Advances(u)]_vars
    BY StepAdvances
  <1>2. [\A u \in Users : Advances(u)]_vars <=>
        [\A u \in Users :
           \/ ~Enrolled(u) \/ ~Enrolled(u)'
           \/ totp[u].secret # totp[u].secret'
           \/ Tick
           \/ \E r \in Requests : req[r].at = "putConfirmed" /\ req'[r].at # "putConfirmed"
           \/ totp[u].last <= totp[u].last']_vars
    BY DEF Advances
  <1> QED BY <1>1, <1>2, AlwaysSignInInv, PTL DEF Spec, WatermarkAdvances
-------------------------------------------------------------------------------
(* Requests one after the other: the invariant.                             *)

\* What the one request in hand relies on, read off its record k: its session
\* is still that of its user, what it read of the enrolment and of the policy
\* still holds.
SerialFits(k) ==
    /\ k.at # "idle" /\ k.session # None => session[k.session].user = k.user
    /\ k.at = "open" /\ k.user \in deployment.obliged => k.pending
    /\ k.at \in {"putNew", "putConfirmed"} => ~Enrolled(k.user)
    /\ k.at \in {"spend", "mark", "promote"} => Enrolled(k.user)
    /\ k.at \in {"putConfirmed", "spend", "mark"} => k.row = totp[k.user]
    /\ k.at = "drop" => k.user \notin deployment.obliged
    /\ k.at \in {"check", "spend", "mark"} /\ k.op = "disable" => k.user \notin deployment.obliged

BeingRevoked(u) == \E r \in Requests : req[r].at = "revoke" /\ req[r].user = u

\* A session of an obliged account is protected, or about to be revoked.
Protected(s) ==
    Live(s) /\ ~session[s].pending /\ session[s].user \in deployment.obliged \ cut =>
        Enrolled(session[s].user) \/ BeingRevoked(session[s].user)

OneInHand == \A q, r \in Requests : req[q].at # "idle" /\ req[r].at # "idle" => q = r

CodesTrack(u) == Enrolled(u) => totp[u].recovery = issued[u]

StepsCovered(u) ==
    totp[u] # None => \A n \in accepted[totp[u].secret] : totp[u].confirmed /\ n <= totp[u].last

SecretsApart ==
    \A u, v \in Users : u # v /\ totp[u] # None /\ totp[v] # None => totp[u].secret # totp[v].secret

NotedRecords ==
    /\ deployment \in Deployment
    /\ accepted \in [Secrets -> SUBSET (Old .. Drift)]
    /\ issued \in [Users -> SUBSET Codes]

SerialInv ==
    /\ NotedRecords
    /\ OneInHand
    /\ \A r \in Requests : SerialFits(req[r])
    /\ \A s \in Sessions : Protected(s)
    /\ \A u \in Users : CodesTrack(u)
    /\ \A u \in Users : StepsCovered(u)
    /\ SecretsApart

\* The request that a step is of: no other is in hand, and nobody is being
\* signed out.
Alone(r) == req[r].at \notin {"idle", "revoke"} \/ \A q \in Requests : req[q].at = "idle"

LEMMA NobodySerial == SerialFits(Nobody) /\ SerialFits(Nobody)'
  BY DEF SerialFits, Nobody

LEMMA NobodyRevoked ==
  ASSUME SerialInv, NEW r \in Requests, Alone(r)
  PROVE  \A u : ~BeingRevoked(u)
  BY DEF SerialInv, OneInHand, Alone, BeingRevoked

LEMMA OnlyOneMoves ==
  ASSUME SignInInv, OneInHand, NEW r \in Requests, NEW k \in Request, req' = [req EXCEPT ![r] = k],
         req[r].at # "idle" \/ \A q \in Requests : req[q].at = "idle", SerialFits(k)'
  PROVE  OneInHand' /\ \A q \in Requests : SerialFits(req[q])'
  <1>1. req'[r] = k
    BY DEF SignInInv, SignInRecords
  <1>2. \A q \in Requests \ {r} : req'[q] = req[q] /\ req[q].at = "idle"
    BY DEF OneInHand, SignInInv, SignInRecords
  <1>3. OneInHand'
    BY <1>2 DEF OneInHand
  <1>4. ASSUME NEW q \in Requests
        PROVE  SerialFits(req[q])'
    <2>1. CASE q = r
      BY <1>1, <2>1 DEF SerialFits
    <2>2. CASE q # r
      BY <1>2, <2>2 DEF SerialFits
    <2> QED BY <2>1, <2>2
  <1> QED BY <1>3, <1>4

\* A step that changes nothing but its request (and accounts, the throttle and
\* what is known of secrets and sign-ins).
LEMMA SerialMove ==
  ASSUME SignInInv, SerialInv, NEW r \in Requests, NEW k \in Request, req' = [req EXCEPT ![r] = k],
         Alone(r), SerialFits(k),
         deployment' = deployment, session' = session, totp' = totp,
         accepted' = accepted, issued' = issued, cut' = cut
  PROVE  SerialInv'
  <1>1. SerialFits(k)'
    BY DEF SerialFits, Enrolled
  <1>2. OneInHand' /\ \A q \in Requests : SerialFits(req[q])'
    BY <1>1, OnlyOneMoves DEF Alone, SerialInv
  <1>3. \A s \in Sessions : Protected(s)'
    BY NobodyRevoked DEF SerialInv, Protected, Live, Enrolled
  <1>4. NotedRecords' /\ (\A u \in Users : CodesTrack(u)' /\ StepsCovered(u)') /\ SecretsApart'
    BY DEF SerialInv, NotedRecords, CodesTrack, StepsCovered, SecretsApart, Enrolled
  <1> QED BY <1>2, <1>3, <1>4 DEF SerialInv

LEMMA SerialStutter ==
  ASSUME SerialInv, req' = req,
         deployment' = deployment, session' = session, totp' = totp,
         accepted' = accepted, issued' = issued, cut' = cut
  PROVE  SerialInv'
  <1>1. \A r \in Requests : SerialFits(req[r])'
    BY DEF SerialInv, SerialFits, Enrolled
  <1>2. \A s \in Sessions : Protected(s)'
    BY DEF SerialInv, Protected, Live, Enrolled, BeingRevoked
  <1>3. NotedRecords' /\ OneInHand' /\ (\A u \in Users : CodesTrack(u)' /\ StepsCovered(u)') /\ SecretsApart'
    BY DEF SerialInv, NotedRecords, OneInHand, CodesTrack, StepsCovered, SecretsApart, Enrolled
  <1> QED BY <1>1, <1>2, <1>3 DEF SerialInv

LEMMA SerialAnswer ==
  ASSUME SignInInv, SerialInv, NEW r \in Requests, Alone(r), Answer(r),
         deployment' = deployment, session' = session, totp' = totp,
         accepted' = accepted, issued' = issued, cut' = cut
  PROVE  SerialInv'
  BY NobodyFits, NobodySerial, SerialMove DEF Answer

LEMMA SerialGoes ==
  ASSUME SignInInv, SerialInv, NEW r \in Requests, NEW to \in Phase, Goes(r, to), Alone(r),
         SerialFits([req[r] EXCEPT !.at = to]),
         deployment' = deployment, session' = session, totp' = totp,
         accepted' = accepted, issued' = issued, cut' = cut
  PROVE  SerialInv'
  <1> DEFINE k == [req[r] EXCEPT !.at = to]
  <1>1. k \in Request
    BY DEF SignInInv, SignInRecords, Request
  <1>2. req' = [req EXCEPT ![r] = k]
    BY DEF Goes
  <1> HIDE DEF k
  <1>3. PICK m \in Request : m = k
    BY <1>1
  <1>4. req' = [req EXCEPT ![r] = m] /\ SerialFits(m)
    BY <1>2, <1>3 DEF k
  <1> QED BY <1>4, SerialMove

-------------------------------------------------------------------------------
(* Requests one after the other: up to the code.                            *)

LEMMA LoginSerial ==
  ASSUME SignInInv, SerialInv, ~Overlap, NEW r \in Requests, NEW u \in Users, NEW ip \in Ips \cup {NoIp}, Login(r, u, ip)
  PROVE  SerialInv'
  <1>a. Alone(r)
    BY DEF Login, MayReceive, Alone
  <1>1. PICK k : k = [Nobody EXCEPT !.at = "directory", !.op = "login", !.user = u, !.ip = ip]
    OBVIOUS
  <1>2. k \in Request /\ k.at = "directory" /\ k.session = None
    BY <1>1, NobodyFits DEF Nobody, Request, Phase
  <1>3. SerialFits(k)
    BY <1>2 DEF SerialFits
  <1>4. CASE UNCHANGED req
    BY <1>4, SerialStutter DEF Login, tables, past
  <1>5. CASE ~UNCHANGED req
    BY <1>a, <1>1, <1>2, <1>3, <1>5, SerialMove DEF Login, Take, tables, past
  <1> QED BY <1>4, <1>5

LEMMA DirectorySerial ==
  ASSUME SignInInv, SerialInv, NEW r \in Requests,
         \/ DirectoryRejects(r) \/ DirectoryFails(r) \/ DirectoryAccepts(r)
         \/ ReadAccount(r) \/ MirrorAccount(r) \/ NoAccess(r)
  PROVE  SerialInv'
  <1> USE DEF tables, past
  <1>r. req[r] \in Request /\ SerialFits(req[r])
    BY DEF SignInInv, SignInRecords, SerialInv
  <1>a. Alone(r)
    BY DEF DirectoryRejects, DirectoryFails, DirectoryAccepts, ReadAccount, MirrorAccount, NoAccess, Alone
  <1>0. /\ deployment' = deployment /\ session' = session /\ totp' = totp
        /\ accepted' = accepted /\ issued' = issued /\ cut' = cut
    BY DEF DirectoryRejects, DirectoryFails, DirectoryAccepts, ReadAccount, MirrorAccount, NoAccess
  <1>1. CASE Answer(r)
    BY <1>a, <1>0, <1>1, SerialAnswer
  <1>2. CASE ~Answer(r)
    <2>1. PICK to \in {"account", "mirror", "factor"} : req[r].at # "idle" /\ Goes(r, to)
      BY <1>2 DEF DirectoryRejects, DirectoryFails, DirectoryAccepts, ReadAccount, MirrorAccount, NoAccess
    <2>2. to \in Phase
      BY DEF Phase
    <2>3. SerialFits([req[r] EXCEPT !.at = to])
      BY <1>r, <2>1 DEF SerialFits, Request
    <2> QED BY <1>a, <1>0, <2>1, <2>2, <2>3, SerialGoes
  <1> QED BY <1>1, <1>2

LEMMA ChooseFactorSerial ==
  ASSUME SignInInv, SerialInv, NEW r \in Requests, ChooseFactor(r)
  PROVE  SerialInv'
  <1>r. req[r] \in Request /\ SerialFits(req[r]) /\ req[r].at = "factor"
    BY DEF SignInInv, SignInRecords, SerialInv, ChooseFactor
  <1>2. PICK owes \in BOOLEAN : owes = OwesFactor(req[r].user)
    BY DEF OwesFactor
  <1>3. PICK k : k = [req[r] EXCEPT !.at = "open", !.pending = owes]
    OBVIOUS
  <1>4. k \in Request /\ k.at = "open" /\ k.user = req[r].user /\ k.session = req[r].session /\ k.pending = owes
    BY <1>r, <1>3 DEF Request, Phase
  <1>5. req[r].user \in deployment.obliged => owes
    BY <1>2 DEF OwesFactor, SerialInv, NotedRecords, Deployment
  <1>6. SerialFits(k)
    BY <1>r, <1>4, <1>5 DEF SerialFits
  <1>7. req' = [req EXCEPT ![r] = k]
    BY <1>2, <1>3 DEF ChooseFactor
  <1>8. Alone(r)
    BY <1>r DEF Alone
  <1> QED BY <1>4, <1>6, <1>7, <1>8, SerialMove DEF ChooseFactor, tables, past

\* Sessions are written, and what is kept of them by a protected account stays.
LEMMA SessionsSerial ==
  ASSUME SignInInv, SerialInv, OneInHand', \A q \in Requests : SerialFits(req[q])',
         \A s \in Sessions : Protected(s)',
         deployment' = deployment, totp' = totp, accepted' = accepted, issued' = issued, cut' = cut
  PROVE  SerialInv'
  BY DEF SerialInv, NotedRecords, CodesTrack, StepsCovered, SecretsApart, Enrolled

\* A session opens: an account that is obliged to prove a factor owes one.
LEMMA OpenSessionSerial ==
  ASSUME SignInInv, SerialInv, NEW r \in Requests, NEW s \in Sessions, OpenSession(r, s)
  PROVE  SerialInv'
  <1>r. SerialFits(req[r]) /\ req[r].at = "open" /\ Alone(r)
    BY DEF SerialInv, OpenSession, Alone
  <1>1. PICK row : row = [user |-> req[r].user, pending |-> req[r].pending, owed |-> req[r].pending,
                          revoked |-> FALSE, expired |-> FALSE]
    OBVIOUS
  <1>2. session' = [session EXCEPT ![s] = row] /\ row.user = req[r].user /\ row.pending = req[r].pending
    BY <1>1 DEF OpenSession
  <1>3. /\ req' = [req EXCEPT ![r] = Nobody] /\ deployment' = deployment /\ totp' = totp
        /\ accepted' = accepted /\ issued' = issued /\ cut' = cut
    BY DEF OpenSession, Answer
  <1>4. OneInHand' /\ \A q \in Requests : SerialFits(req[q])'
    BY <1>r, <1>3, NobodyFits, NobodySerial, OnlyOneMoves DEF SerialInv
  <1>5. ASSUME NEW x \in Sessions
        PROVE  Protected(x)'
    <2>1. CASE x = s
      <3>1. session'[x] = row
        BY <1>2, <2>1 DEF SignInInv, SignInRecords
      <3> QED BY <1>r, <1>2, <1>3, <3>1 DEF Protected, SerialFits
    <2>2. CASE x # s
      <3>1. session'[x] = session[x] /\ Protected(x)
        BY <1>2, <2>2 DEF SignInInv, SignInRecords, SerialInv
      <3> QED BY <1>r, <1>3, <3>1, NobodyRevoked DEF Protected, Live, Enrolled
    <2> QED BY <2>1, <2>2
  <1> QED BY <1>3, <1>4, <1>5, SessionsSerial

LEMMA ChallengeSerial ==
  ASSUME SignInInv, SerialInv, ~Overlap, NEW r \in Requests, NEW s \in Sessions, NEW ip \in Ips \cup {NoIp},
         NEW op \in {"verify", "begin", "confirm"}, Challenge(r, s, ip, op)
  PROVE  SerialInv'
  <1>a. Alone(r)
    BY DEF Challenge, MayReceive, Alone
  <1>1. session[s] \in Session
    BY DEF Challenge, Live, SignInInv, SignInRecords
  <1>2. PICK k : k = [Nobody EXCEPT !.at = "holder", !.op = op, !.user = session[s].user, !.ip = ip, !.session = s]
    OBVIOUS
  <1>3. k \in Request /\ k.at = "holder" /\ k.user = session[s].user /\ k.session = s
    BY <1>1, <1>2, NobodyFits DEF Nobody, Request, Phase, Session
  <1>4. SerialFits(k)
    BY <1>3 DEF SerialFits
  <1> QED BY <1>a, <1>2, <1>3, <1>4, SerialMove DEF Challenge, Take, tables, past

LEMMA ManageSerial ==
  ASSUME SignInInv, SerialInv, ~Overlap, NEW r \in Requests, NEW s \in Sessions,
         NEW op \in {"begin", "confirm", "disable", "reissue"}, Manage(r, s, op)
  PROVE  SerialInv'
  <1>a. Alone(r)
    BY DEF Manage, MayReceive, Alone
  <1>1. session[s] \in Session
    BY DEF Manage, Usable, Live, SignInInv, SignInRecords
  <1>2. PICK k : k = [Nobody EXCEPT !.at = op, !.op = op, !.user = session[s].user]
    OBVIOUS
  <1>3. k \in Request /\ k.at = op /\ k.session = None
    BY <1>1, <1>2, NobodyFits DEF Nobody, Request, Phase, Session
  <1>4. SerialFits(k)
    BY <1>3 DEF SerialFits
  <1> QED BY <1>a, <1>2, <1>3, <1>4, SerialMove DEF Manage, Take, tables, past

\* What is read on the way to a code or to a new enrolment.
LEMMA ChecksSerial ==
  ASSUME SignInInv, SerialInv, NEW r \in Requests,
         ReadHolder(r) \/ Begin(r) \/ RefuseConfirm(r) \/ ReadEnrolment(r) \/ RefuseCode(r)
  PROVE  SerialInv'
  <1> USE DEF tables, past
  <1>r. req[r] \in Request /\ Fits(req[r]) /\ SerialFits(req[r])
    BY DEF SignInInv, SignInRecords, SerialInv
  <1>a. Alone(r) /\ req[r].at # "idle"
    BY DEF ReadHolder, Begin, RefuseConfirm, ReadEnrolment, RefuseCode, Alone
  <1>0. /\ deployment' = deployment /\ session' = session /\ totp' = totp
        /\ accepted' = accepted /\ issued' = issued /\ cut' = cut
    BY DEF ReadHolder, Begin, RefuseConfirm, ReadEnrolment, RefuseCode, WrongCode
  <1>1. CASE Answer(r)
    BY <1>a, <1>0, <1>1, SerialAnswer
  <1>2. CASE ~Answer(r)
    <2>1. PICK to \in {"check", "begin", "confirm", "putNew"} :
             /\ Goes(r, to)
             /\ to = "putNew" => ~Enrolled(req[r].user)
             /\ to = "check" /\ req[r].op = "disable" => req[r].user \notin deployment.obliged
      <3>1. CASE ReadHolder(r)
        BY <1>r, <1>2, <3>1 DEF ReadHolder, Fits
      <3>2. CASE Begin(r) \/ ReadEnrolment(r)
        BY <1>2, <3>2 DEF Begin, ReadEnrolment, MayManage
      <3>3. CASE RefuseConfirm(r) \/ RefuseCode(r)
        BY <1>2, <3>3 DEF RefuseConfirm, RefuseCode, WrongCode
      <3> QED BY <3>1, <3>2, <3>3
    <2>2. to \in Phase
      BY DEF Phase
    <2>3. SerialFits([req[r] EXCEPT !.at = to])
      BY <1>r, <1>a, <2>1 DEF SerialFits, Request
    <2> QED BY <1>a, <1>0, <2>1, <2>2, <2>3, SerialGoes
  <1> QED BY <1>1, <1>2

\* A code is good: what the request takes along is the row as it stands.
LEMMA CodeSerial ==
  ASSUME SignInInv, SerialInv, NEW r \in Requests,
         \/ \E x \in Secrets, step \in Window : Confirm(r, x, step) \/ TakeAppCode(r, x, step)
         \/ \E c \in Codes : TakeRecoveryCode(r, c)
  PROVE  SerialInv'
  <1>r. req[r] \in Request /\ Fits(req[r]) /\ SerialFits(req[r]) /\ req[r].at \in {"confirm", "check"} /\ Alone(r)
    BY DEF SignInInv, SignInRecords, SerialInv, Confirm, TakeRecoveryCode, TakeAppCode, Alone
  <1>1. req[r].user \in Users
    BY <1>r DEF Fits
  <1>2. PICK row : row = totp[req[r].user]
    OBVIOUS
  <1>3. row # None /\ row \in Enrolment
    BY <1>1, <1>2 DEF Confirm, TakeRecoveryCode, TakeAppCode, Enrolled, SignInInv, SignInRecords
  <1>4. PICK k : /\ k \in Request /\ k.row = row
                 /\ k.user = req[r].user /\ k.op = req[r].op /\ k.session = req[r].session
                 /\ req' = [req EXCEPT ![r] = k]
                 /\ \/ k.at = "putConfirmed" /\ ~Enrolled(k.user)
                    \/ k.at \in {"spend", "mark"} /\ Enrolled(k.user) /\ req[r].at = "check"
    <2>1. CASE \E c \in Codes : TakeRecoveryCode(r, c)
      <3>1. PICK c \in Codes : TakeRecoveryCode(r, c)
        BY <2>1
      <3>2. PICK k : k = [req[r] EXCEPT !.at = "spend", !.row = row, !.code = c]
        OBVIOUS
      <3>3. /\ k \in Request /\ k.at = "spend" /\ k.row = row
            /\ k.user = req[r].user /\ k.op = req[r].op /\ k.session = req[r].session
        BY <1>r, <1>3, <3>2 DEF Request, Phase
      <3>4. /\ req' = [req EXCEPT ![r].at = "spend", ![r].row = totp[req[r].user], ![r].code = c]
            /\ Enrolled(req[r].user) /\ req[r].at = "check"
        BY <3>1 DEF TakeRecoveryCode
      <3>5. req' = [req EXCEPT ![r] = k]
        BY <1>2, <3>2, <3>4
      <3> QED BY <3>3, <3>4, <3>5
    <2>2. CASE \E x \in Secrets, step \in Window : TakeAppCode(r, x, step)
      <3>1. PICK x \in Secrets, step \in Window : TakeAppCode(r, x, step)
        BY <2>2
      <3>2. step \in Old .. Drift
        BY StepsTyped
      <3>3. PICK k : k = [req[r] EXCEPT !.at = "mark", !.row = row, !.step = step]
        OBVIOUS
      <3>4. /\ k \in Request /\ k.at = "mark" /\ k.row = row
            /\ k.user = req[r].user /\ k.op = req[r].op /\ k.session = req[r].session
        BY <1>r, <1>3, <3>2, <3>3 DEF Request, Phase
      <3>5. req' = [req EXCEPT ![r] = k] /\ Enrolled(req[r].user) /\ req[r].at = "check"
        BY <1>2, <3>1, <3>3 DEF TakeAppCode
      <3> QED BY <3>4, <3>5
    <2>3. CASE \E x \in Secrets, step \in Window : Confirm(r, x, step)
      <3>1. PICK x \in Secrets, step \in Window : Confirm(r, x, step)
        BY <2>3
      <3>2. step \in Old .. Drift
        BY StepsTyped
      <3>3. PICK k : k = [req[r] EXCEPT !.at = "putConfirmed", !.row = row, !.step = step]
        OBVIOUS
      <3>4. /\ k \in Request /\ k.at = "putConfirmed" /\ k.row = row
            /\ k.user = req[r].user /\ k.op = req[r].op /\ k.session = req[r].session
        BY <1>r, <1>3, <3>2, <3>3 DEF Request, Phase
      <3>5. req' = [req EXCEPT ![r] = k] /\ ~Enrolled(req[r].user)
        BY <1>2, <3>1, <3>3 DEF Confirm
      <3> QED BY <3>4, <3>5
    <2> QED BY <2>1, <2>2, <2>3
  <1>5. SerialFits(k)
    BY <1>r, <1>2, <1>4 DEF SerialFits
  <1>6. /\ deployment' = deployment /\ session' = session /\ totp' = totp
        /\ accepted' = accepted /\ issued' = issued /\ cut' = cut
    BY DEF Confirm, TakeRecoveryCode, TakeAppCode, tables
  <1> QED BY <1>r, <1>4, <1>5, <1>6, SerialMove

-------------------------------------------------------------------------------
(* Requests one after the other: the enrolment is written.                  *)

\* The row of account u is written, with the codes that are shown for it; what
\* is noted of the other rows is not added to.
RowWritten(r, k, u, row, codes) ==
    /\ k \in Request /\ req' = [req EXCEPT ![r] = k] /\ SerialFits(k)'
    /\ row \in Enrolment \cup {None} /\ totp' = [totp EXCEPT ![u] = row]
    /\ codes \in SUBSET Codes /\ issued' = [issued EXCEPT ![u] = codes]
    /\ deployment' = deployment /\ session' = session /\ cut' = cut
    /\ accepted' \in [Secrets -> SUBSET (Old .. Drift)]
    /\ \A v \in Users \ {u} : totp[v] # None =>
             /\ accepted'[totp[v].secret] \subseteq accepted[totp[v].secret]
             /\ row # None => row.secret # totp[v].secret
    /\ row # None => /\ row.confirmed => row.recovery = codes
                     /\ \A n \in accepted'[row.secret] : row.confirmed /\ n <= row.last
    /\ Enrolled(u) => \/ row # None /\ row.confirmed
                      \/ u \notin deployment.obliged
                      \/ k.at = "revoke" /\ k.user = u

LEMMA RowSerial ==
  ASSUME SignInInv, SerialInv, NEW r \in Requests, Alone(r),
         NEW k, NEW u \in Users, NEW row, NEW codes, RowWritten(r, k, u, row, codes)
  PROVE  SerialInv'
  <1> USE DEF RowWritten
  <1>1. OneInHand' /\ \A q \in Requests : SerialFits(req[q])'
    BY OnlyOneMoves DEF Alone, SerialInv
  <1>2. totp'[u] = row /\ \A v \in Users \ {u} : totp'[v] = totp[v]
    BY DEF SignInInv, SignInRecords
  <1>3. issued'[u] = codes /\ \A v \in Users \ {u} : issued'[v] = issued[v]
    BY DEF SerialInv, NotedRecords
  <1>4. NotedRecords'
    BY DEF SerialInv, NotedRecords
  <1>5. ASSUME NEW v \in Users
        PROVE  CodesTrack(v)' /\ StepsCovered(v)'
    <2>1. CASE v = u
      BY <1>2, <1>3, <2>1 DEF CodesTrack, StepsCovered, Enrolled
    <2>2. CASE v # u
      <3>1. CodesTrack(v) /\ StepsCovered(v)
        BY DEF SerialInv
      <3> QED BY <1>2, <1>3, <2>2, <3>1 DEF CodesTrack, StepsCovered, Enrolled
    <2> QED BY <2>1, <2>2
  <1>6. SecretsApart'
    <2> SUFFICES ASSUME NEW v \in Users, NEW w \in Users, v # w, totp'[v] # None, totp'[w] # None
                 PROVE  totp'[v].secret # totp'[w].secret
      BY DEF SecretsApart
    <2>1. CASE v = u
      BY <1>2, <2>1
    <2>2. CASE w = u
      BY <1>2, <2>2
    <2>3. CASE v # u /\ w # u
      BY <1>2, <2>3 DEF SerialInv, SecretsApart
    <2> QED BY <2>1, <2>2, <2>3
  <1>7. ASSUME NEW s \in Sessions
        PROVE  Protected(s)'
    <2> SUFFICES ASSUME Live(s), ~session[s].pending, session[s].user \in deployment.obliged \ cut
                 PROVE  Enrolled(session[s].user)' \/ BeingRevoked(session[s].user)'
      BY DEF Protected, Live, BeingRevoked, Enrolled
    <2>1. session[s].user \in Users
      BY DEF Live, SignInInv, SignInRecords, Session
    <2>2. Enrolled(session[s].user)
      BY NobodyRevoked DEF SerialInv, Protected
    <2>3. CASE session[s].user = u
      <3>1. CASE k.at = "revoke" /\ k.user = u
        <4>1. req'[r] = k
          BY DEF SignInInv, SignInRecords
        <4> QED BY <2>3, <3>1, <4>1 DEF BeingRevoked
      <3>2. CASE ~(k.at = "revoke" /\ k.user = u)
        BY <1>2, <2>2, <2>3, <3>2 DEF Enrolled
      <3> QED BY <3>1, <3>2
    <2>4. CASE session[s].user # u
      BY <1>2, <2>1, <2>2, <2>4 DEF Enrolled
    <2> QED BY <2>3, <2>4
  <1> QED BY <1>1, <1>4, <1>5, <1>6, <1>7 DEF SerialInv

\* What is known of the other accounts' secrets is not added to.
LEMMA NotedLess ==
  ASSUME SerialInv, NEW x, NoteSecrets(x)
  PROVE  /\ accepted' \in [Secrets -> SUBSET (Old .. Drift)]
         /\ \A y \in Secrets : accepted'[y] \subseteq accepted[y]
         /\ x \in Secrets => accepted'[x] = {}
  <1>1. PICK kept : kept = [y \in Secrets |-> y # x /\ SecretInUse(y)']
    OBVIOUS
  <1>2. accepted' = [y \in Secrets |-> IF kept[y] THEN accepted[y] ELSE {}]
    BY <1>1 DEF NoteSecrets
  <1>3. accepted \in [Secrets -> SUBSET (Old .. Drift)]
    BY DEF SerialInv, NotedRecords
  <1>4. x \in Secrets => ~kept[x]
    BY <1>1
  <1> HIDE <1>1
  <1> QED BY <1>2, <1>3, <1>4

LEMMA StoredSecret ==
  ASSUME SignInInv, NEW u \in Users, totp[u] # None
  PROVE  totp[u] \in Enrolment /\ totp[u].secret \in Secrets /\ totp[u].last \in Old .. Drift
  BY DEF SignInInv, SignInRecords, Enrolment

LEMMA PutNewSerial ==
  ASSUME SignInInv, SerialInv, ~Overlap, NEW r \in Requests, NEW x \in Secrets, PutNew(r, x)
  PROVE  SerialInv'
  <1>r. Fits(req[r]) /\ SerialFits(req[r]) /\ req[r].at = "putNew" /\ Alone(r)
    BY DEF SignInInv, SerialInv, PutNew, Alone
  <1>u. req[r].user \in Users /\ ~Enrolled(req[r].user)
    BY <1>r DEF Fits, SerialFits
  <1>1. PICK row : row = [secret |-> x, confirmed |-> FALSE, last |-> Old, recovery |-> {}]
    OBVIOUS
  <1>2. row \in Enrolment /\ row.confirmed = FALSE /\ row.secret = x
    BY <1>1, StepsTyped DEF Enrolment
  <1>a. /\ totp' = [totp EXCEPT ![req[r].user] = row] /\ req' = [req EXCEPT ![r] = Nobody]
        /\ deployment' = deployment /\ session' = session /\ cut' = cut
        /\ ~SecretInUse(x) /\ NoteSecrets(x)
    BY <1>1 DEF PutNew, Answer
  <1>3. issued' = [issued EXCEPT ![req[r].user] = {}]
    BY DEF PutNew, NoteCodes
  <1>4. \A v \in Users \ {req[r].user} : totp[v] # None =>
             /\ accepted'[totp[v].secret] \subseteq accepted[totp[v].secret]
             /\ row.secret # totp[v].secret
    BY <1>2, <1>a, NotedLess, StoredSecret DEF SecretInUse
  <1>5. accepted'[row.secret] = {} /\ accepted' \in [Secrets -> SUBSET (Old .. Drift)]
    BY <1>2, <1>a, NotedLess
  <1>6. RowWritten(r, Nobody, req[r].user, row, {})
    BY <1>u, <1>2, <1>a, <1>3, <1>4, <1>5, NobodyFits, NobodySerial DEF RowWritten
  <1> QED BY <1>r, <1>u, <1>6, RowSerial

\* An enrolment goes, of an account that need not hold one or is signed out next.
RowGone(r, k, u) ==
    /\ k \in Request /\ Take(r, k) /\ SerialFits(k)'
    /\ totp' = [totp EXCEPT ![u] = None] /\ NoteSecrets(None) /\ NoteCodes(u, {})
    /\ deployment' = deployment /\ session' = session /\ cut' = cut
    /\ u \in deployment.obliged => k.at = "revoke" /\ k.user = u

LEMMA GoneSerial ==
  ASSUME SignInInv, SerialInv, ~Overlap, NEW r \in Requests, Alone(r),
         NEW k, NEW u \in Users, RowGone(r, k, u)
  PROVE  SerialInv'
  <1> USE DEF RowGone
  <1>1. issued' = [issued EXCEPT ![u] = {}]
    BY DEF NoteCodes
  <1>2. \A v \in Users \ {u} : totp[v] # None => accepted'[totp[v].secret] \subseteq accepted[totp[v].secret]
    BY NotedLess, StoredSecret
  <1>3. accepted' \in [Secrets -> SUBSET (Old .. Drift)]
    BY NotedLess
  <1>4. RowWritten(r, k, u, None, {})
    BY <1>1, <1>2, <1>3 DEF RowWritten, Take
  <1> QED BY <1>4, RowSerial

LEMMA DropEnrolmentSerial ==
  ASSUME SignInInv, SerialInv, ~Overlap, NEW r \in Requests, DropEnrolment(r)
  PROVE  SerialInv'
  <1>r. Fits(req[r]) /\ SerialFits(req[r]) /\ req[r].at = "drop" /\ Alone(r)
    BY DEF SignInInv, SerialInv, DropEnrolment, Alone
  <1>u. req[r].user \in Users /\ req[r].user \notin deployment.obliged
    BY <1>r DEF Fits, SerialFits
  <1>1. RowGone(r, Nobody, req[r].user)
    BY <1>u, NobodyFits, NobodySerial DEF DropEnrolment, Answer, Take, RowGone
  <1> QED BY <1>r, <1>u, <1>1, GoneSerial

LEMMA AdminResetSerial ==
  ASSUME SignInInv, SerialInv, ~Overlap, NEW r \in Requests, NEW u \in Users, AdminReset(r, u)
  PROVE  SerialInv'
  <1>a. Alone(r)
    BY DEF AdminReset, MayReceive, Alone
  <1>1. PICK k : k = [Nobody EXCEPT !.at = "revoke", !.op = "admin", !.user = u]
    OBVIOUS
  <1>2. k \in Request /\ k.at = "revoke" /\ k.user = u /\ k.session = None
    BY <1>1, NobodyFits DEF Nobody, Request, Phase
  <1>3. SerialFits(k)'
    BY <1>2 DEF SerialFits
  <1>4. RowGone(r, k, u)
    BY <1>1, <1>2, <1>3 DEF AdminReset, RowGone
  <1> QED BY <1>a, <1>4, GoneSerial

\* The request goes on to what its operation does, for the same user and session.
LEMMA ProceedsTo ==
  ASSUME SignInInv, NEW r \in Requests, NEW to \in {"promote", "drop", "putCodes"}, Proceeds(r, to)
  PROVE  \E k \in Request : /\ req' = [req EXCEPT ![r] = k]
                            /\ k.at = to /\ k.user = req[r].user /\ k.session = req[r].session
  <1>r. req[r] \in Request
    BY DEF SignInInv, SignInRecords
  <1>1. PICK k : k = [Nobody EXCEPT !.at = to, !.op = req[r].op, !.user = req[r].user,
                                    !.ip = req[r].ip, !.session = req[r].session]
    OBVIOUS
  <1>2. k \in Request /\ k.at = to /\ k.user = req[r].user /\ k.session = req[r].session
    BY <1>r, <1>1, NobodyFits DEF Nobody, Request, Phase
  <1>3. req' = [req EXCEPT ![r] = k]
    BY <1>1 DEF Proceeds
  <1> QED BY <1>2, <1>3

\* It finds the account enrolled, and free to be without where it drops the row.
LEMMA ProceedsSerial ==
  ASSUME NEW k \in Request, NEW q \in Request, SerialFits(q), q.at # "idle",
         k.at \in {"promote", "drop", "putCodes"}, k.user = q.user, k.session = q.session,
         k.at = "promote" => Enrolled(k.user)', k.at = "drop" => q.user \notin deployment.obliged,
         deployment' = deployment, session' = session
  PROVE  SerialFits(k)'
  BY DEF SerialFits

LEMMA PutConfirmedSerial ==
  ASSUME SignInInv, SerialInv, ~Overlap, NEW r \in Requests, NEW codes \in FreshCodes, PutConfirmed(r, codes)
  PROVE  SerialInv'
  <1>r. req[r] \in Request /\ Fits(req[r]) /\ SerialFits(req[r]) /\ req[r].at = "putConfirmed" /\ Alone(r)
    BY DEF SignInInv, SignInRecords, SerialInv, PutConfirmed, Alone
  <1>1. PICK u \in Users : u = req[r].user
    BY <1>r DEF Fits
  <1>2. PICK step \in Old .. Drift : step = req[r].step
    BY <1>r DEF Request
  <1>3. totp[u] = req[r].row /\ totp[u] # None /\ ~totp[u].confirmed
    BY <1>r, <1>1 DEF Fits, SerialFits, Enrolled
  <1>4. totp[u] \in Enrolment /\ totp[u].secret \in Secrets
    BY <1>3, StoredSecret
  <1>5. codes \in SUBSET Codes
    BY DEF FreshCodes
  <1>6. PICK row : row = [totp[u] EXCEPT !.confirmed = TRUE, !.last = step, !.recovery = codes]
    OBVIOUS
  <1>7. /\ row \in Enrolment /\ row.secret = totp[u].secret /\ row.confirmed
        /\ row.last = step /\ row.recovery = codes
    BY <1>4, <1>5, <1>6 DEF Enrolment
  <1>8. row # None
    BY <1>7, NoneIsNoRow
  <1>a. /\ totp' = [totp EXCEPT ![u] = row] /\ deployment' = deployment /\ session' = session /\ cut' = cut
        /\ issued' = [issued EXCEPT ![u] = codes]
        /\ accepted' = [accepted EXCEPT ![totp[u].secret] = accepted[totp[u].secret] \cup {step}]
    <2>1. totp' = [totp EXCEPT ![u] = row]
      BY <1>1, <1>2, <1>3, <1>6 DEF PutConfirmed, ConfirmedRow, RowRead
    <2>2. accepted' = [accepted EXCEPT ![totp[u].secret] = accepted[totp[u].secret] \cup {step}]
      BY <1>2, <1>3 DEF PutConfirmed, NoteStep
    <2> QED BY <1>1, <2>1, <2>2 DEF PutConfirmed, NoteCodes
  <1>9. accepted[totp[u].secret] = {}
    BY <1>3 DEF SerialInv, StepsCovered
  <1>10. /\ accepted' \in [Secrets -> SUBSET (Old .. Drift)]
         /\ accepted'[row.secret] = {step}
         /\ \A y \in Secrets \ {row.secret} : accepted'[y] = accepted[y]
    BY <1>4, <1>7, <1>9, <1>a DEF SerialInv, NotedRecords
  <1>11. \A v \in Users \ {u} : totp[v] # None =>
             /\ accepted'[totp[v].secret] \subseteq accepted[totp[v].secret]
             /\ row.secret # totp[v].secret
    BY <1>3, <1>7, <1>10, StoredSecret DEF SerialInv, SecretsApart
  <1>12. \A n \in accepted'[row.secret] : row.confirmed /\ n <= row.last
    BY <1>7, <1>10, SignInAssumption DEF Old
  <1>13. PICK k \in Request : req' = [req EXCEPT ![r] = k] /\ SerialFits(k)'
    <2>1. CASE req[r].session # None
      <3>1. PICK k \in Request : /\ req' = [req EXCEPT ![r] = k] /\ k.at = "promote"
                                 /\ k.user = req[r].user /\ k.session = req[r].session
        BY <2>1, ProceedsTo DEF PutConfirmed
      <3>2. Enrolled(k.user)'
        BY <1>1, <1>7, <1>8, <1>a, <3>1 DEF Enrolled, SignInInv, SignInRecords
      <3> QED BY <1>r, <1>a, <3>1, <3>2, ProceedsSerial
    <2>2. CASE req[r].session = None
      BY <2>2, NobodyFits, NobodySerial DEF PutConfirmed, Answer
    <2> QED BY <2>1, <2>2
  <1>14. RowWritten(r, k, u, row, codes)
    BY <1>5, <1>7, <1>8, <1>a, <1>10, <1>11, <1>12, <1>13 DEF RowWritten
  <1> QED BY <1>r, <1>14, RowSerial

\* A code takes its effect on the row of its account, which stays confirmed.
LEMMA EffectSerial ==
  ASSUME SignInInv, SerialInv, ~Overlap, NEW r \in Requests, SpendCode(r) \/ MarkStep(r),
         NEW u \in Users, u = req[r].user, NEW row \in Enrolment, totp' = [totp EXCEPT ![u] = row],
         row.secret = totp[u].secret, row.confirmed,
         issued' = [issued EXCEPT ![u] = row.recovery],
         accepted' \in [Secrets -> SUBSET (Old .. Drift)],
         \A y \in Secrets \ {row.secret} : accepted'[y] = accepted[y],
         \A n \in accepted'[row.secret] : n <= row.last
  PROVE  SerialInv'
  <1>r. req[r] \in Request /\ Fits(req[r]) /\ SerialFits(req[r]) /\ req[r].at \in {"spend", "mark"} /\ Alone(r)
    BY DEF SignInInv, SignInRecords, SerialInv, SpendCode, MarkStep, Alone
  <1>0. deployment' = deployment /\ session' = session /\ cut' = cut
    BY DEF SpendCode, MarkStep
  <1>1. row # None /\ row.recovery \in SUBSET Codes /\ totp[u] # None
    BY <1>r, NoneIsNoRow DEF Enrolment, SerialFits, Enrolled
  <1>2. \A v \in Users \ {u} : totp[v] # None =>
             /\ accepted'[totp[v].secret] \subseteq accepted[totp[v].secret]
             /\ row.secret # totp[v].secret
    BY <1>1, StoredSecret DEF SerialInv, SecretsApart
  <1>3. PICK k \in Request : req' = [req EXCEPT ![r] = k] /\ SerialFits(k)'
    <2>1. req[r].op \in {"verify", "disable", "reissue"}
      BY <1>r DEF Fits
    <2>2. PICK to \in {"promote", "drop", "putCodes"} : to = AfterCode(req[r].op)
      BY <2>1 DEF AfterCode
    <2>3. to = "drop" => req[r].op = "disable"
      BY <2>1, <2>2 DEF AfterCode
    <2>4. Proceeds(r, to)
      BY <2>2 DEF SpendCode, MarkStep
    <2>5. PICK k \in Request : /\ req' = [req EXCEPT ![r] = k] /\ k.at = to
                               /\ k.user = req[r].user /\ k.session = req[r].session
      BY <2>4, ProceedsTo
    <2>6. Enrolled(k.user)'
      BY <1>1, <2>5 DEF Enrolled, SignInInv, SignInRecords
    <2>7. to = "drop" => req[r].user \notin deployment.obliged
      BY <1>r, <2>3 DEF SerialFits
    <2> QED BY <1>r, <1>0, <2>5, <2>6, <2>7, ProceedsSerial
  <1>4. RowWritten(r, k, u, row, row.recovery)
    BY <1>0, <1>1, <1>2, <1>3 DEF RowWritten
  <1> QED BY <1>r, <1>4, RowSerial

LEMMA SpendCodeSerial ==
  ASSUME SignInInv, SerialInv, ~Overlap, NEW r \in Requests, SpendCode(r)
  PROVE  SerialInv'
  <1>r. req[r] \in Request /\ Fits(req[r]) /\ SerialFits(req[r]) /\ req[r].at = "spend"
    BY DEF SignInInv, SignInRecords, SerialInv, SpendCode
  <1>1. PICK u \in Users : u = req[r].user
    BY <1>r DEF Fits
  <1>2. totp[u] = req[r].row /\ totp[u] # None /\ totp[u].confirmed
    BY <1>r, <1>1 DEF SerialFits, Enrolled
  <1>3. totp[u] \in Enrolment /\ totp[u].recovery = issued[u]
    BY <1>1, <1>2, StoredSecret DEF SerialInv, CodesTrack, Enrolled
  <1>4. PICK row : row = [totp[u] EXCEPT !.recovery = totp[u].recovery \ {req[r].code}]
    OBVIOUS
  <1>5. /\ row \in Enrolment /\ row.secret = totp[u].secret /\ row.confirmed /\ row.last = totp[u].last
        /\ row.recovery = issued[u] \ {req[r].code}
    BY <1>2, <1>3, <1>4 DEF Enrolment
  <1>6. totp' = [totp EXCEPT ![u] = row]
    <2>1. totp' = [totp EXCEPT ![u] =
                      IF totp[u] = None THEN None
                      ELSE [totp[u] EXCEPT !.recovery = CodesLeft(req[r].row, req[r].code)]]
      BY <1>1 DEF SpendCode
    <2> QED BY <1>2, <1>4, <2>1 DEF CodesLeft
  <1>7. issued' = [issued EXCEPT ![u] = row.recovery] /\ accepted' = accepted
    BY <1>1, <1>5 DEF SpendCode, NoteCodes
  <1>8. accepted \in [Secrets -> SUBSET (Old .. Drift)] /\ \A n \in accepted[row.secret] : n <= row.last
    BY <1>1, <1>2, <1>5 DEF SerialInv, NotedRecords, StepsCovered
  <1> QED BY <1>1, <1>5, <1>6, <1>7, <1>8, EffectSerial

LEMMA MarkStepSerial ==
  ASSUME SignInInv, SerialInv, ~Overlap, NEW r \in Requests, MarkStep(r)
  PROVE  SerialInv'
  <1>r. req[r] \in Request /\ Fits(req[r]) /\ SerialFits(req[r]) /\ req[r].at = "mark"
    BY DEF SignInInv, SignInRecords, SerialInv, MarkStep
  <1>1. PICK u \in Users : u = req[r].user
    BY <1>r DEF Fits
  <1>2. PICK step \in Old .. Drift : step = req[r].step
    BY <1>r DEF Request
  <1>3. totp[u] = req[r].row /\ totp[u] # None /\ totp[u].confirmed
    BY <1>r, <1>1 DEF SerialFits, Enrolled
  <1>4. totp[u] \in Enrolment /\ totp[u].secret \in Secrets /\ totp[u].recovery = issued[u]
    BY <1>1, <1>3, StoredSecret DEF SerialInv, CodesTrack, Enrolled
  <1>5. PICK last \in Old .. Drift : last = totp[u].last
    BY <1>3, StoredSecret
  <1>6. PICK later \in Old .. Drift : later = LaterStep(last, step) /\ last <= later /\ step <= later
    BY StepsTyped, SignInAssumption DEF LaterStep, Old
  <1>7. PICK row : row = [totp[u] EXCEPT !.last = later]
    OBVIOUS
  <1>8. /\ row \in Enrolment /\ row.secret = totp[u].secret /\ row.confirmed /\ row.last = later
        /\ row.recovery = issued[u]
    BY <1>3, <1>4, <1>7 DEF Enrolment
  <1>9. totp' = [totp EXCEPT ![u] = row]
    <2>1. totp' = [totp EXCEPT ![u] =
                      IF totp[u] = None THEN None
                      ELSE [totp[u] EXCEPT !.last = LaterStep(last, step)]]
      BY <1>1, <1>2, <1>5 DEF MarkStep
    <2> QED BY <1>3, <1>6, <1>7, <2>1
  <1>10. issued' = [issued EXCEPT ![u] = row.recovery]
    <2>1. issued' = issued
      BY DEF MarkStep
    <2> QED BY <1>8, <2>1 DEF SerialInv, NotedRecords
  <1>11. accepted' = [accepted EXCEPT ![row.secret] = accepted[row.secret] \cup {step}]
    BY <1>2, <1>3, <1>8 DEF MarkStep, NoteStep
  <1>12. \A n \in accepted[row.secret] : n <= last /\ n \in Old .. Drift
    BY <1>3, <1>4, <1>5, <1>8 DEF SerialInv, NotedRecords, StepsCovered
  <1>13. /\ accepted' \in [Secrets -> SUBSET (Old .. Drift)]
         /\ accepted'[row.secret] = accepted[row.secret] \cup {step}
         /\ \A y \in Secrets \ {row.secret} : accepted'[y] = accepted[y]
    BY <1>4, <1>8, <1>11 DEF SerialInv, NotedRecords
  <1>14. \A n \in accepted'[row.secret] : n <= row.last
    <2> SUFFICES ASSUME NEW n \in accepted'[row.secret] PROVE n <= later
      BY <1>8
    <2>1. n = step \/ (n <= last /\ n \in Old .. Drift)
      BY <1>12, <1>13
    <2> QED BY <1>6, <2>1, SignInAssumption DEF Old
  <1> QED BY <1>1, <1>8, <1>9, <1>10, <1>13, <1>14, EffectSerial

LEMMA PutCodesSerial ==
  ASSUME SignInInv, SerialInv, ~Overlap, NEW r \in Requests, NEW codes \in FreshCodes, PutCodes(r, codes)
  PROVE  SerialInv'
  <1>r. Fits(req[r]) /\ req[r].at = "putCodes" /\ Alone(r)
    BY DEF SignInInv, PutCodes, Alone
  <1>1. PICK u \in Users : u = req[r].user
    BY <1>r DEF Fits
  <1>2. codes \in SUBSET Codes
    BY DEF FreshCodes
  <1>3. /\ req' = [req EXCEPT ![r] = Nobody] /\ issued' = [issued EXCEPT ![u] = codes]
        /\ totp' = [totp EXCEPT ![u] = IF totp[u] = None THEN None ELSE [totp[u] EXCEPT !.recovery = codes]]
        /\ deployment' = deployment /\ session' = session /\ cut' = cut /\ accepted' = accepted
    BY <1>1 DEF PutCodes, Answer, NoteCodes
  <1>4. PICK row \in Enrolment \cup {None} :
           /\ totp' = [totp EXCEPT ![u] = row]
           /\ row = None <=> totp[u] = None
           /\ row # None => /\ row.secret = totp[u].secret /\ row.confirmed = totp[u].confirmed
                            /\ row.last = totp[u].last /\ row.recovery = codes
    <2>1. CASE totp[u] = None
      BY <1>3, <2>1
    <2>2. CASE totp[u] # None
      <3>1. PICK row : row = [totp[u] EXCEPT !.recovery = codes]
        OBVIOUS
      <3>2. totp[u] \in Enrolment
        BY <2>2, StoredSecret
      <3>3. /\ row \in Enrolment /\ row.secret = totp[u].secret /\ row.confirmed = totp[u].confirmed
            /\ row.last = totp[u].last /\ row.recovery = codes
        BY <1>2, <3>1, <3>2 DEF Enrolment
      <3>4. totp' = [totp EXCEPT ![u] = row] /\ row # None
        BY <1>3, <2>2, <3>1, <3>3, NoneIsNoRow
      <3> QED BY <2>2, <3>3, <3>4
    <2> QED BY <2>1, <2>2
  <1>5. accepted' \in [Secrets -> SUBSET (Old .. Drift)]
    BY <1>3 DEF SerialInv, NotedRecords
  <1>6. \A v \in Users \ {u} : totp[v] # None =>
             /\ accepted'[totp[v].secret] \subseteq accepted[totp[v].secret]
             /\ row # None => row.secret # totp[v].secret
    BY <1>3, <1>4 DEF SerialInv, SecretsApart
  <1>7. row # None => /\ row.confirmed => row.recovery = codes
                      /\ \A n \in accepted'[row.secret] : row.confirmed /\ n <= row.last
    BY <1>3, <1>4 DEF SerialInv, StepsCovered
  <1>8. Enrolled(u) => row # None /\ row.confirmed
    BY <1>4 DEF Enrolled
  <1>9. RowWritten(r, Nobody, u, row, codes)
    BY <1>2, <1>3, <1>4, <1>5, <1>6, <1>7, <1>8, NobodyFits, NobodySerial DEF RowWritten
  <1> QED BY <1>r, <1>9, RowSerial

-------------------------------------------------------------------------------
(* Requests one after the other: sessions, accounts, time and stops.        *)

\* The session that is let in is one of an enrolled account.
LEMMA PromoteSerial ==
  ASSUME SignInInv, SerialInv, NEW r \in Requests, Promote(r)
  PROVE  SerialInv'
  <1>r. req[r] \in Request /\ SerialFits(req[r]) /\ req[r].at = "promote" /\ Alone(r)
    BY DEF SignInInv, SignInRecords, SerialInv, Promote, Alone
  <1>a. /\ req' = [req EXCEPT ![r] = Nobody] /\ deployment' = deployment /\ totp' = totp
        /\ accepted' = accepted /\ issued' = issued /\ cut' = cut
    BY DEF Promote, Answer, past
  <1>1. OneInHand' /\ \A q \in Requests : SerialFits(req[q])'
    BY <1>r, <1>a, NobodyFits, NobodySerial, OnlyOneMoves DEF SerialInv
  <1>2. CASE session' = session
    <2>1. \A s \in Sessions : Protected(s)'
      BY <1>r, <1>a, <1>2, NobodyRevoked DEF SerialInv, Protected, Live, Enrolled
    <2> QED BY <1>a, <1>1, <2>1, SessionsSerial
  <1>3. CASE session' # session
    <2>1. Promotable(req[r].session)
      BY <1>3 DEF Promote
    <2>2. req[r].session # None
      BY <1>3, <2>1, SignInAssumption DEF Promote, SignInInv, SignInRecords
    <2>3. PICK s \in Sessions : s = req[r].session
      BY <1>r, <2>2 DEF Request
    <2>4. session[s] \in Session /\ Enrolled(session[s].user)
      BY <1>r, <2>1, <2>2, <2>3 DEF Promotable, SerialFits, SignInInv, SignInRecords
    <2>5. PICK row : row = [session[s] EXCEPT !.pending = FALSE]
      OBVIOUS
    <2>6. session' = [session EXCEPT ![s] = row] /\ row.user = session[s].user
      BY <2>1, <2>3, <2>4, <2>5 DEF Promote, Session
    <2>7. ASSUME NEW x \in Sessions
          PROVE  Protected(x)'
      <3>1. CASE x = s
        <4>1. session'[x] = row
          BY <2>6, <3>1 DEF SignInInv, SignInRecords
        <4> QED BY <1>a, <2>4, <2>6, <4>1 DEF Protected, Enrolled
      <3>2. CASE x # s
        <4>1. session'[x] = session[x] /\ Protected(x)
          BY <2>6, <3>2 DEF SignInInv, SignInRecords, SerialInv
        <4> QED BY <1>r, <1>a, <4>1, NobodyRevoked DEF Protected, Live, Enrolled
      <3> QED BY <3>1, <3>2
    <2> QED BY <1>a, <1>1, <2>7, SessionsSerial
  <1> QED BY <1>2, <1>3

LEMMA RevokeAllSerial ==
  ASSUME SignInInv, SerialInv, NEW r \in Requests, RevokeAll(r)
  PROVE  SerialInv'
  <1>r. req[r] \in Request /\ req[r].at = "revoke"
    BY DEF SignInInv, SignInRecords, RevokeAll
  <1>a. /\ req' = [req EXCEPT ![r] = Nobody] /\ deployment' = deployment /\ totp' = totp
        /\ accepted' = accepted /\ issued' = issued /\ cut' = cut
    BY DEF RevokeAll, Answer
  <1>1. OneInHand' /\ \A q \in Requests : SerialFits(req[q])'
    BY <1>r, <1>a, NobodyFits, NobodySerial, OnlyOneMoves DEF SerialInv
  <1>2. ASSUME NEW s \in Sessions
        PROVE  Protected(s)'
    <2>1. CASE RevokedFor(req[r].user, session[s])
      <3>1. session[s] \in Session
        BY <2>1 DEF RevokedFor, SignInInv, SignInRecords
      <3>2. session'[s] = [session[s] EXCEPT !.revoked = TRUE]
        BY <2>1 DEF RevokeAll
      <3>3. session'[s].revoked
        BY <3>1, <3>2 DEF Session
      <3> QED BY <3>3 DEF Protected, Live
    <2>2. CASE ~RevokedFor(req[r].user, session[s])
      <3>1. session'[s] = session[s] /\ Protected(s)
        BY <2>2 DEF RevokeAll, SerialInv
      <3>2. session[s] # None => ~BeingRevoked(session[s].user)
        BY <1>r, <2>2 DEF RevokedFor, BeingRevoked, SerialInv, OneInHand
      <3> QED BY <1>a, <3>1, <3>2 DEF Protected, Live, Enrolled
    <2> QED BY <2>1, <2>2
  <1> QED BY <1>a, <1>1, <1>2, SessionsSerial

LEMMA SessionEndSerial ==
  ASSUME SignInInv, SerialInv, NEW s \in Sessions,
         (\E r \in Requests : Logout(r, s)) \/ Expire(s) \/ PurgeExpired(s)
  PROVE  SerialInv'
  <1>a. /\ req' = req /\ deployment' = deployment /\ totp' = totp
        /\ accepted' = accepted /\ issued' = issued /\ cut' = cut
        /\ session[s] \in Session
    BY DEF Logout, Expire, PurgeExpired, Usable, Live, memory, past, SignInInv, SignInRecords
  <1>1. PICK row : /\ session' = [session EXCEPT ![s] = row]
                   /\ row = None => \A q \in Requests : req[q].session # s
                   /\ row # None => row.user = session[s].user /\ (row.revoked \/ row.expired)
    <2>1. CASE \E r \in Requests : Logout(r, s)
      <3>1. PICK row : row = [session[s] EXCEPT !.revoked = TRUE]
        OBVIOUS
      <3>2. session' = [session EXCEPT ![s] = row]
        BY <2>1, <3>1 DEF Logout
      <3>3. row \in Session /\ row.revoked /\ row.user = session[s].user
        BY <1>a, <3>1 DEF Session
      <3> QED BY <3>2, <3>3, NoneIsNoRow
    <2>2. CASE Expire(s)
      <3>1. PICK row : row = [session[s] EXCEPT !.expired = TRUE]
        OBVIOUS
      <3>2. session' = [session EXCEPT ![s] = row]
        BY <2>2, <3>1 DEF Expire
      <3>3. row \in Session /\ row.expired /\ row.user = session[s].user
        BY <1>a, <3>1 DEF Session
      <3> QED BY <3>2, <3>3, NoneIsNoRow
    <2>3. CASE PurgeExpired(s)
      BY <2>3 DEF PurgeExpired
    <2> QED BY <2>1, <2>2, <2>3
  <1>2. session'[s] = row /\ \A x \in Sessions \ {s} : session'[x] = session[x]
    BY <1>1 DEF SignInInv, SignInRecords
  <1>3. ASSUME NEW q \in Requests
        PROVE  SerialFits(req[q])'
    <2>1. SerialFits(req[q]) /\ req[q].session \in Sessions \cup {None}
      BY DEF SerialInv, SignInInv, SignInRecords, Request
    <2>2. req[q].session # None => session'[req[q].session].user = session[req[q].session].user
      BY <1>1, <1>2, <2>1
    <2> QED BY <1>a, <2>1, <2>2 DEF SerialFits, Enrolled
  <1>4. ASSUME NEW x \in Sessions
        PROVE  Protected(x)'
    <2>1. CASE x = s
      BY <1>1, <1>2, <2>1 DEF Protected, Live
    <2>2. CASE x # s
      BY <1>a, <1>2, <2>2 DEF SerialInv, Protected, Live, Enrolled, BeingRevoked
    <2> QED BY <2>1, <2>2
  <1>5. OneInHand'
    BY <1>a DEF SerialInv, OneInHand
  <1> QED BY <1>a, <1>3, <1>4, <1>5, SessionsSerial

LEMMA AccountSerial ==
  ASSUME SignInInv, SerialInv, ~Overlap, NEW r \in Requests, NEW u \in Users, SetDisabled(r, u) \/ SetEnabled(r, u)
  PROVE  SerialInv'
  <1>1. CASE SetDisabled(r, u)
    <2>a. Alone(r)
      BY <1>1 DEF SetDisabled, MayReceive, Alone
    <2>1. PICK k : k = [Nobody EXCEPT !.at = "revoke", !.op = "admin", !.user = u]
      OBVIOUS
    <2>2. k \in Request /\ k.at = "revoke" /\ k.session = None
      BY <2>1, NobodyFits DEF Nobody, Request, Phase
    <2>3. SerialFits(k)
      BY <2>2 DEF SerialFits
    <2> QED BY <1>1, <2>a, <2>1, <2>2, <2>3, SerialMove DEF SetDisabled, Take, past
  <1>2. CASE SetEnabled(r, u)
    BY <1>2, SerialStutter DEF SetEnabled, memory, past
  <1> QED BY <1>1, <1>2

\* Steps that lie apart in time stay in their order.
LEMMA StepsAge ==
  ASSUME NEW m \in Old .. Drift, NEW n \in Old .. Drift, m <= n
  PROVE  Earlier(m) <= Earlier(n)
  BY SignInAssumption DEF Old, Earlier

LEMMA RowLastAged ==
  ASSUME NEW row \in Enrolment
  PROVE  AgedRow(row).last = Earlier(row.last) /\ AgedRow(row).recovery = row.recovery
  <1>1. row # None
    BY NoneIsNoRow
  <1>2. PICK e : e = Earlier(row.last)
    OBVIOUS
  <1>3. AgedRow(row) = [row EXCEPT !.last = e]
    BY <1>1, <1>2 DEF AgedRow
  <1> QED BY <1>2, <1>3 DEF Enrolment

LEMMA TickSerial ==
  ASSUME SignInInv, SerialInv, Tick
  PROVE  SerialInv'
  <1>a. /\ deployment' = deployment /\ session' = session /\ issued' = issued /\ cut' = cut
    BY Zenon DEF Tick
  <1>t. \A u \in Users : totp'[u] = AgedRow(totp[u])
    BY Zenon DEF Tick
  <1>n. accepted' = [x \in Secrets |-> {Earlier(n) : n \in accepted[x]} \ {Old}]
    BY Zenon DEF Tick
  <1>q. req' = [r \in Requests |-> [req[r] EXCEPT !.step = Earlier(req[r].step), !.row = AgedRow(req[r].row)]]
    BY Zenon DEF Tick
  <1>1. \A x \in Secrets : accepted[x] \in SUBSET (Old .. Drift)
    BY DEF SerialInv, NotedRecords
  <1>2. NotedRecords'
    <2>1. \A x \in Secrets : {Earlier(n) : n \in accepted[x]} \ {Old} \in SUBSET (Old .. Drift)
      BY <1>1, StepsTyped
    <2>2. accepted' \in [Secrets -> SUBSET (Old .. Drift)]
      BY <1>n, <2>1
    <2> QED BY <1>a, <2>2 DEF SerialInv, NotedRecords
  <1>3. ASSUME NEW u \in Users
        PROVE  /\ totp'[u] = None <=> totp[u] = None
               /\ totp[u] # None => /\ totp'[u].secret = totp[u].secret /\ totp'[u].confirmed = totp[u].confirmed
                                    /\ totp'[u].recovery = totp[u].recovery
                                    /\ totp'[u].last = Earlier(totp[u].last)
               /\ Enrolled(u)' <=> Enrolled(u)
    <2>1. totp[u] \in Enrolment \cup {None} /\ totp'[u] = AgedRow(totp[u])
      BY <1>t DEF SignInInv, SignInRecords
    <2>2. /\ totp'[u] = None <=> totp[u] = None
          /\ totp[u] # None => totp'[u].secret = totp[u].secret /\ totp'[u].confirmed = totp[u].confirmed
      BY <2>1, RowAged
    <2>3. totp[u] # None => totp'[u].recovery = totp[u].recovery /\ totp'[u].last = Earlier(totp[u].last)
      BY <2>1, RowLastAged
    <2> QED BY <2>2, <2>3 DEF Enrolled
  <1>4. ASSUME NEW q \in Requests
        PROVE  /\ req'[q].at = req[q].at /\ req'[q].user = req[q].user
               /\ SerialFits(req[q])'
    <2>1. req[q] \in Request /\ Fits(req[q]) /\ SerialFits(req[q])
      BY DEF SignInInv, SignInRecords, SerialInv
    <2>2. PICK e : e = Earlier(req[q].step)
      OBVIOUS
    <2>3. PICK row : row = AgedRow(req[q].row)
      OBVIOUS
    <2>4. req'[q] = [req[q] EXCEPT !.step = e, !.row = row]
      BY <1>q, <2>2, <2>3, Zenon
    <2>5. PICK k : k = req'[q]
      OBVIOUS
    <2>6. /\ k.at = req[q].at /\ k.op = req[q].op /\ k.user = req[q].user
          /\ k.session = req[q].session /\ k.pending = req[q].pending /\ k.row = row
      BY <2>1, <2>4, <2>5 DEF Request
    <2>7. k.at # "idle" => k.user \in Users
      BY <2>1, <2>6 DEF Fits
    <2>8. k.at \in {"putConfirmed", "spend", "mark"} => k.row = totp'[k.user]
      BY <1>t, <2>1, <2>3, <2>6, <2>7 DEF SerialFits
    <2>9. SerialFits(k)'
      BY <1>a, <1>3, <2>1, <2>6, <2>7, <2>8 DEF SerialFits
    <2> QED BY <2>5, <2>6, <2>9 DEF SerialFits
  <1>5. OneInHand'
    BY <1>4 DEF SerialInv, OneInHand
  <1>6. ASSUME NEW s \in Sessions
        PROVE  Protected(s)'
    <2>1. session[s] # None => session[s].user \in Users
      BY DEF SignInInv, SignInRecords, Session
    <2>2. session[s] # None /\ BeingRevoked(session[s].user) => BeingRevoked(session[s].user)'
      BY <1>a, <1>4 DEF BeingRevoked
    <2> QED BY <1>a, <1>3, <2>1, <2>2 DEF SerialInv, Protected, Live
  <1>7. ASSUME NEW u \in Users
        PROVE  CodesTrack(u)' /\ StepsCovered(u)'
    <2>1. CodesTrack(u)'
      BY <1>a, <1>3 DEF SerialInv, CodesTrack, Enrolled
    <2>2. StepsCovered(u)'
      <3> SUFFICES ASSUME totp[u] # None, NEW n \in accepted'[totp[u].secret]
                   PROVE  totp[u].confirmed /\ n <= Earlier(totp[u].last)
        BY <1>3 DEF StepsCovered
      <3>1. totp[u].secret \in Secrets /\ totp[u].last \in Old .. Drift
        BY StoredSecret
      <3>2. PICK m \in accepted[totp[u].secret] : n = Earlier(m)
        BY <1>n, <3>1
      <3>3. totp[u].confirmed /\ m <= totp[u].last
        BY <3>2 DEF SerialInv, StepsCovered
      <3>4. m \in Old .. Drift
        BY <1>1, <3>1, <3>2
      <3> QED BY <3>1, <3>2, <3>3, <3>4, StepsAge
    <2> QED BY <2>1, <2>2
  <1>8. SecretsApart'
    BY <1>3 DEF SerialInv, SecretsApart
  <1> QED BY <1>2, <1>4, <1>5, <1>6, <1>7, <1>8 DEF SerialInv

LEMMA StopSerial ==
  ASSUME SignInInv, SerialInv, Stop
  PROVE  SerialInv'
  <1>a. /\ deployment' = deployment /\ session' = session /\ totp' = totp
        /\ accepted' = accepted /\ issued' = issued
        /\ req' = [r \in Requests |-> Nobody]
        /\ cut' = cut \cup {req[r].user : r \in {q \in Requests : req[q].at = "revoke"}}
    BY DEF Stop, tables
  <1>1. OneInHand' /\ \A r \in Requests : SerialFits(req[r])'
    BY <1>a DEF OneInHand, SerialFits, Nobody
  <1>2. ASSUME NEW s \in Sessions
        PROVE  Protected(s)'
    <2>1. \A u : BeingRevoked(u) => u \in cut'
      BY <1>a DEF BeingRevoked
    <2> QED BY <1>a, <2>1 DEF SerialInv, Protected, Live, Enrolled
  <1> QED BY <1>a, <1>1, <1>2
       DEF SerialInv, NotedRecords, CodesTrack, StepsCovered, SecretsApart, Enrolled

-------------------------------------------------------------------------------
(* Requests one after the other: the invariant holds.                       *)

LEMMA InitSerial == Init => SerialInv
  <1> SUFFICES ASSUME Init PROVE SerialInv
    OBVIOUS
  <1>1. OneInHand /\ \A r \in Requests : SerialFits(req[r])
    BY DEF Init, OneInHand, SerialFits, Nobody
  <1>2. NotedRecords
    BY DEF Init, NotedRecords
  <1> QED BY <1>1, <1>2
       DEF Init, SerialInv, Protected, Live, CodesTrack, StepsCovered, SecretsApart, Enrolled

LEMMA PasswordSerial ==
  ASSUME SignInInv, SerialInv, ~Overlap, NEW r \in Requests, Password(r)
  PROVE  SerialInv'
  BY LoginSerial, DirectorySerial, ChooseFactorSerial, OpenSessionSerial DEF Password

LEMMA FactorSerial ==
  ASSUME SignInInv, SerialInv, ~Overlap, NEW r \in Requests, Factor(r)
  PROVE  SerialInv'
  <1>1. CASE \E s \in Sessions, ip \in Ips \cup {NoIp}, op \in {"verify", "begin", "confirm"} :
                 Challenge(r, s, ip, op)
    BY <1>1, ChallengeSerial
  <1>2. CASE \E s \in Sessions, op \in {"begin", "confirm", "disable", "reissue"} : Manage(r, s, op)
    BY <1>2, ManageSerial
  <1>3. CASE ReadHolder(r) \/ Begin(r) \/ RefuseConfirm(r) \/ ReadEnrolment(r) \/ RefuseCode(r)
    BY <1>3, ChecksSerial
  <1>4. CASE \E x \in Secrets : PutNew(r, x)
    BY <1>4, PutNewSerial
  <1>5. CASE \/ \E x \in Secrets, step \in Window : Confirm(r, x, step) \/ TakeAppCode(r, x, step)
             \/ \E c \in Codes : TakeRecoveryCode(r, c)
    BY <1>5, CodeSerial
  <1>6. CASE \E codes \in FreshCodes : PutConfirmed(r, codes) \/ PutCodes(r, codes)
    BY <1>6, PutConfirmedSerial, PutCodesSerial
  <1>7. CASE SpendCode(r) \/ MarkStep(r)
    BY <1>7, SpendCodeSerial, MarkStepSerial
  <1>8. CASE Promote(r)
    BY <1>8, PromoteSerial
  <1>9. CASE DropEnrolment(r)
    BY <1>9, DropEnrolmentSerial
  <1> QED BY <1>1, <1>2, <1>3, <1>4, <1>5, <1>6, <1>7, <1>8, <1>9 DEF Factor

LEMMA AdministrationSerial ==
  ASSUME SignInInv, SerialInv, ~Overlap, NEW r \in Requests, Administration(r)
  PROVE  SerialInv'
  BY AccountSerial, AdminResetSerial, SessionEndSerial, RevokeAllSerial DEF Administration

Serially == ~Overlap => SerialInv

LEMMA NextSerial ==
  ASSUME SignInInv, Serially, [Next]_vars
  PROVE  Serially'
  <1> SUFFICES ASSUME ~Overlap, SerialInv PROVE SerialInv'
    BY DEF Serially
  <1>1. CASE \E r \in Requests : Password(r) \/ Factor(r) \/ Administration(r)
    BY <1>1, PasswordSerial, FactorSerial, AdministrationSerial
  <1>2. CASE \E s \in Sessions : Expire(s) \/ PurgeExpired(s)
    BY <1>2, SessionEndSerial
  <1>3. CASE Tick
    BY <1>3, TickSerial
  <1>4. CASE Stop
    BY <1>4, StopSerial
  <1>5. CASE UNCHANGED vars
    BY <1>5, SerialStutter DEF vars, tables, memory, past
  <1> QED BY <1>1, <1>2, <1>3, <1>4, <1>5 DEF Next

LEMMA AlwaysSerially == Spec => []Serially
  <1>1. Init => Serially
    BY InitSerial DEF Serially
  <1>2. SignInInv /\ Serially /\ [Next]_vars => Serially'
    BY NextSerial
  <1> QED BY <1>1, <1>2, AlwaysSignInInv, PTL DEF Spec

-------------------------------------------------------------------------------
(* Requests one after the other: results.                                   *)

\* An account the policy obliges to hold a factor never has a usable session
\* without a confirmed one once the answers are out, whatever was enrolled,
\* removed or reset before, unless a stop cut a reset short (two-factor.ts,
\* disable and adminReset with the revokeSessionsForUser behind it).
THEOREM ObligedAlwaysProtected == Spec => []NoUnprotectedSession
  <1>1. SignInInv /\ Serially => NoUnprotectedSession
    <2> SUFFICES ASSUME SignInInv, Serially, ~Overlap, Quiet, NEW s \in Sessions,
                        Usable(s), session[s].user \in deployment.obliged \ cut
                 PROVE  Enrolled(session[s].user)
      BY DEF NoUnprotectedSession
    <2>1. Protected(s)
      BY DEF Serially, SerialInv
    <2>2. ~BeingRevoked(session[s].user)
      BY DEF Quiet, BeingRevoked
    <2> QED BY <2>1, <2>2 DEF Protected, Usable
  <1> QED BY <1>1, AlwaysSignInInv, AlwaysSerially, PTL

\* The recovery codes that are stored are those last shown less the spent ones
\* (two-factor.ts, verify and regenerateRecoveryCodes).
THEOREM RecoveryCodesAlwaysTrack == Spec => []RecoveryCodesTrack
  <1>1. Serially => RecoveryCodesTrack
    BY DEF Serially, SerialInv, CodesTrack, RecoveryCodesTrack
  <1> QED BY <1>1, AlwaysSerially, PTL

\* Every step that was accepted for the stored secret is at or under its
\* watermark, so that its code is not accepted again (totp.ts, afterStep;
\* store.ts, setTotpLastStep).
THEOREM SpentAlwaysCovered == Spec => []SpentIsCovered
  <1>1. Serially => SpentIsCovered
    BY DEF Serially, SerialInv, StepsCovered, SpentIsCovered, Enrolled
  <1> QED BY <1>1, AlwaysSerially, PTL
===============================================================================
