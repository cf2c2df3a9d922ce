--------------------------- MODULE SignInProperties ---------------------------
(* What sign-in promises, stated over SignIn.                              *)
EXTENDS SignIn

\* An account is never locked to an authenticator nobody showed to work: the
\* secret of a confirmed row is one that a correct code was given for, however
\* a restarted enrolment and a confirmation fall between each other
\* (two-factor.ts, begin and confirm, which writes the row it verified).
ConfirmedIsHeld ==
    \A u \in Users : Enrolled(u) => totp[u].secret \in proven

\* A session that owed a second factor is usable only after a code was accepted
\* in that very sign-in (routes.ts, handlePendingStep: the challenge
\* "authenticates nothing until the code is verified").
OwedFactorProven ==
    \A s \in Sessions : Live(s) /\ session[s].owed /\ ~session[s].pending => s \in passed

\* Once the answer to a reset or a disable is out, no session from before it
\* comes to life: neither a running one nor a sign-in that was half way
\* (routes.ts: "Disabling must take effect now").
EndedStaysEnded ==
    \A s \in ended : session[s] # None => session[s].revoked

\* Nothing in the middle of a request.
Quiet == \A r \in Requests : req[r].at = "idle"

\* With requests one after the other: an account the policy obliges to hold a
\* factor has no usable session while it has no confirmed one, whatever was
\* enrolled, removed or reset before (two-factor.ts, adminReset: "their next
\* sign-in leads straight back into enrolment rather than into an unprotected
\* session").  A reset that a stop cuts short is left out.
NoUnprotectedSession ==
    ~Overlap /\ Quiet =>
        \A s \in Sessions :
            Usable(s) /\ session[s].user \in deployment.obliged \ cut => Enrolled(session[s].user)

\* With requests one after the other: the stored recovery codes are those of
\* the last set shown, less the spent ones, so that a spent or replaced code
\* is refused and an unspent one is not lost.
RecoveryCodesTrack ==
    ~Overlap /\ Quiet =>
        \A u \in Users : Enrolled(u) => totp[u].recovery = issued[u]

\* With requests one after the other a code takes effect once: the steps that
\* were accepted for the stored secret are all at or under its watermark, the
\* step of the confirming code included.
SpentIsCovered ==
    ~Overlap =>
        \A u \in Users : Enrolled(u) =>
            \A n \in accepted[totp[u].secret] : n <= totp[u].last

\* However two verifications fall, the watermark of an enrolment only goes up
\* (store.ts, setTotpLastStep: "so a code accepted one step behind cannot lower
\* the watermark and re-open a step that was already spent").  Time moves it
\* down relative to now; a confirmation writes the step of its own code.
WatermarkAdvances ==
    [][\A u \in Users :
           \/ ~Enrolled(u) \/ ~Enrolled(u)'
           \/ totp[u].secret # totp[u].secret'
           \/ Tick
           \/ \E r \in Requests : req[r].at = "putConfirmed" /\ req'[r].at # "putConfirmed"
           \/ totp[u].last <= totp[u].last']_vars

\* Nobody is kept out for good: every key is let in again and again, however
\* many attempts are made while it is blocked (throttle.ts: the wait counts
\* from the last attempt that was let through).
Reopens == \A k \in Keys : []<>(bucket[k].wait = 0)
===============================================================================
