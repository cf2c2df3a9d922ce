------------------------------ MODULE History -------------------------------
(***************************************************************************)
(* The store a request writes through, and the change history it leaves.   *)
(*                                                                         *)
(* A write is read-before, write guard, upsert, each a query of its own;   *)
(* what it changed is queued in memory, and the queue is inserted in one   *)
(* statement when the request ends, whatever became of the request, or     *)
(* when its client hangs up, though the tool runs on.  The history is read *)
(* row by row, so the queue is kept by row, as it is.                      *)
(* A version's row lives in the same table, under the id Registry, and     *)
(* its value is its status.  Values are compared without updatedAt, and    *)
(* a tombstone reads as no row, so neither is represented.                 *)
(***************************************************************************)
EXTENDS Sequences, FiniteSets

CONSTANTS Clients, Versions, Ids,
          Registry,     \* stands for the id of a version's own row
          Misread,      \* bound of the model: the keys whose prior state may fail to be read
          HangUps,      \* bound of the model: the keys before whose writes a client may hang up
          None

Keys == Versions \X (Ids \cup {Registry})
Status(v) == <<v, Registry>>

ASSUME HistoryAssumption == Registry \notin Ids

VARIABLES table,     \* [Keys -> value, None where there is no live row]
          call,      \* the request each client has in flight
          history,   \* [Keys -> its entries, oldest first]
          base,      \* history, for the properties: the table the behaviour began with
          mixed,     \* keys written by two requests at once
          cut        \* keys an entry of which was lost: by a stop, a failed insert, a hang-up

historyVars == <<table, call, history, base, mixed, cut>>

\* The queue a request begins with.
Nothing == [k \in Keys |-> <<>>]

\* A request in flight, its write first: key and new are the upsert's, was the
\* value read before it, after where the handler goes on.
Idle == [tool |-> "none", pc |-> "idle", v |-> None, key |-> None, new |-> None, was |-> None,
         after |-> "idle", queue |-> Nothing, force |-> FALSE, todo |-> <<>>, items |-> <<>>,
         known |-> {}, exported |-> None, existing |-> None, failed |-> FALSE,
         read |-> TRUE, gone |-> FALSE]

At(c, pc) == call[c].pc = pc
Locked(v) == table[Status(v)] = "locked"

\* The call with a write of new to key begun, the handler going on at after.
Writing(r, key, new, after) == [r EXCEPT !.pc = "before", !.key = key, !.new = new, !.after = after]

\* read, for the properties: whether the prior state could be read.
Entry(r) == [from |-> r.was, to |-> r.new, read |-> r.read]
Queued(r) == {k \in Keys : r.queue[k] # <<>>}
\* The keys a request has read or written and whose entries are not stored yet.
Touched(r) == Queued(r) \cup IF r.pc \in {"guard", "upsert"} THEN {r.key} ELSE {}

\* What was read before a write is forgotten with the write.
Resume(r, pc) == [r EXCEPT !.pc = pc, !.was = None, !.read = TRUE]

\* As Failed, but a request that fails drops its queue.
FailedSilently(r) ==
    [Resume(r, IF r.pc = "list" \/ r.after = "item" THEN "close" ELSE "flush") EXCEPT
        !.failed = TRUE, !.queue = Nothing]

\* Where a failed query, or a refused write, sends a request: an import still
\* restores the lock it lifted; every request writes its queue out.
Failed(r) ==
    [Resume(r, IF r.pc = "list" \/ r.after = "item" THEN "close" ELSE "flush") EXCEPT !.failed = TRUE]

-----------------------------------------------------------------------------
\* safeRead: the prior state, for the history alone.  A read that fails reads as
\* no row, and the write goes on.
ReadBefore(c) ==
    /\ At(c, "before")
    /\ LET key == call[c].key IN
       /\ \E read \in IF key \in Misread THEN BOOLEAN ELSE {TRUE} :
             call' = [call EXCEPT ![c].was = IF read THEN table[key] ELSE None,
                                  ![c].read = read \/ table[key] = None,
                                  ![c].pc = IF key[2] = Registry THEN "upsert" ELSE "guard"]
       /\ mixed' = IF \E d \in Clients \ {c} : key \in Touched(call[d]) THEN mixed \cup {key} ELSE mixed
    /\ UNCHANGED <<table, history, base, cut>>

\* Deleting what is not there does nothing; a row of a locked version is
\* refused, and the handler ends with the error.
Guarded(r) ==
    IF r.new = None /\ table[r.key] = None THEN Resume(r, r.after)
    ELSE IF Locked(r.key[1]) THEN Failed(r)
    ELSE [r EXCEPT !.pc = "upsert"]

Guard(c) ==
    /\ At(c, "guard")
    /\ call' = [call EXCEPT ![c] = Guarded(@)]
    /\ UNCHANGED <<table, history, base, mixed, cut>>

\* What is queued once the store took the write: nothing when no field changed.
Recorded(r) ==
    [Resume(r, r.after) EXCEPT
        !.queue[r.key] = IF r.new # None /\ r.was = r.new THEN @ ELSE Append(@, Entry(r))]

Upsert(c) ==
    /\ At(c, "upsert")
    /\ LET r == call[c] IN
       /\ table' = [table EXCEPT ![r.key] = r.new]
       /\ call' = [call EXCEPT ![c] = Recorded(r)]
    /\ UNCHANGED <<history, base, mixed, cut>>

\* flushChanges, in the finally of the HTTP request.  Once the client has hung
\* up, what is queued later is not written.
Flush(c) ==
    /\ At(c, "flush")
    /\ call[c].gone => Queued(call[c]) = {}
    /\ history' = [k \in Keys |-> history[k] \o call[c].queue[k]]
    /\ call' = [call EXCEPT ![c] = Idle]
    /\ UNCHANGED <<table, base, mixed, cut>>

\* The client hangs up: the HTTP request ends, the tool does not.  To do so
\* between two writes is to do so before the second one, and after the last one
\* the flush is the same.
HangUp(c) ==
    /\ At(c, "before") /\ call[c].key \in HangUps /\ ~call[c].gone
    /\ \/ history' = [k \in Keys |-> history[k] \o call[c].queue[k]] /\ UNCHANGED cut
       \/ Queued(call[c]) # {} /\ cut' = cut \cup Queued(call[c]) /\ UNCHANGED history
    /\ call' = [call EXCEPT ![c].gone = TRUE, ![c].queue = Nothing]
    /\ UNCHANGED <<table, base, mixed>>

-----------------------------------------------------------------------------
\* A failed query ends the handler.
WriteFails(c) ==
    /\ At(c, "upsert")
    /\ call' = [call EXCEPT ![c] = Failed(@)]
    /\ UNCHANGED <<table, history, base, mixed, cut>>

\* flushChanges logs the error and drops the queue; or it has run already.
FlushFails(c) ==
    /\ At(c, "flush")
    /\ Queued(call[c]) # {}
    /\ call' = [call EXCEPT ![c] = Idle]
    /\ cut' = cut \cup Queued(call[c])
    /\ UNCHANGED <<table, history, base, mixed>>

\* The process stops: its requests and their queues are gone, the store is not.
Stop ==
    /\ \E c \in Clients : call[c] # Idle
    /\ call' = [c \in Clients |-> Idle]
    /\ cut' = cut \cup UNION {Queued(call[c]) : c \in Clients}
    /\ UNCHANGED <<table, history, base, mixed>>
=============================================================================
