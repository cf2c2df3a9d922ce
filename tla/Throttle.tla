------------------------------- MODULE Throttle -------------------------------
(***************************************************************************)
(* The sign-in throttle of src/auth/throttle.ts: one bucket of recent      *)
(* failures per account name and per address, held in the memory of one    *)
(* server process.                                                         *)
(*                                                                         *)
(* Time is counted in units of the base lockout (30 s, which is also the   *)
(* period of an authenticator code) and relative to now: a bucket holds    *)
(* how long it still blocks and how long it has been quiet, so that the    *)
(* state stays finite while time goes on for ever.  A failure count is     *)
(* capped where the lockout it earns has reached its ceiling.              *)
(***************************************************************************)
EXTENDS Naturals, FiniteSets

CONSTANTS
    Users,          \* account names
    Ips,            \* client addresses
    NoIp,           \* a request whose address is not known
    MaxAttempts,    \* MAX_ATTEMPTS: failures from which a key is blocked
    MaxLockout,     \* MAX_LOCKOUT_MS
    IdleTime,       \* IDLE_MS
    SweepAt,        \* number of buckets from which quiet ones are dropped
    FailureCap      \* bound of the model: failures counted at most

ASSUME ThrottleAssumption ==
    /\ MaxAttempts \in Nat \ {0}
    /\ MaxLockout \in Nat \ {0}
    /\ IdleTime \in Nat
    /\ MaxLockout <= IdleTime
    /\ SweepAt \in Nat
    /\ FailureCap \in Nat /\ FailureCap >= MaxAttempts
    /\ NoIp \notin Ips
    /\ Users \cap Ips = {}

VARIABLE bucket     \* the Map of buckets; a key with no failure is not in it

Keys == Users \cup Ips

Lesser(a, b) == IF a < b THEN a ELSE b

Bucket == [failures : 0 .. FailureCap, wait : 0 .. MaxLockout, quiet : 0 .. IdleTime + 1]

Forgotten == [failures |-> 0, wait |-> 0, quiet |-> 0]

\* keysFor: the account always, the address when there is one.
KeysFor(u, ip) == {u} \cup ({ip} \ {NoIp})

\* loginRetryAfterMs: the longest wait any of the caller's keys still has.
MustWait(u, ip) == \E k \in KeysFor(u, ip) : bucket[k].wait > 0

\* The back-off: one unit at the limit, doubling with every further failure.
Lockout(failures) == Lesser(2 ^ (failures - MaxAttempts), MaxLockout)

\* sweep: only a crowded map is cleaned, and only of keys long quiet.
Sweep(b) ==
    IF Cardinality({k \in Keys : b[k].failures > 0}) < SweepAt
    THEN b
    ELSE [k \in Keys |-> IF b[k].quiet > IdleTime THEN Forgotten ELSE b[k]]

OneMoreFailure(b) ==
    LET f == Lesser(b.failures + 1, FailureCap)
    IN  [failures |-> f,
         wait     |-> IF f >= MaxAttempts THEN Lockout(f) ELSE b.wait,
         quiet    |-> 0]

\* recordLoginFailure
RecordFailure(u, ip) ==
    bucket' = [k \in Keys |-> IF k \in KeysFor(u, ip)
                              THEN OneMoreFailure(Sweep(bucket)[k])
                              ELSE Sweep(bucket)[k]]

\* clearLoginFailures
ClearFailures(u, ip) ==
    bucket' = [k \in Keys |-> IF k \in KeysFor(u, ip) THEN Forgotten ELSE bucket[k]]

\* One unit of time passes.
Age(b) ==
    IF b.failures = 0 THEN Forgotten
    ELSE [b EXCEPT !.wait = IF @ = 0 THEN 0 ELSE @ - 1, !.quiet = Lesser(@ + 1, IdleTime + 1)]

ThrottleTick == bucket' = [k \in Keys |-> Age(bucket[k])]

\* The map is a variable of the process: a stop empties it.
ThrottleInit == bucket = [k \in Keys |-> Forgotten]
ThrottleLost == bucket' = [k \in Keys |-> Forgotten]
===============================================================================
