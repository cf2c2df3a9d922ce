--------------------------- MODULE AccessProperties ---------------------------
(***************************************************************************)
(* What the front end should guarantee for every call, however the calls   *)
(* of a request interleave and whatever is granted or revoked meanwhile.   *)
(***************************************************************************)
EXTENDS Access

Ended(c) == call[c].pc = "ended"

(***************************************************************************)
(* A call only gets past its check, to be bound to a version and run, for  *)
(* a caller who, since the call arrived, was recognised at some moment and *)
(* held the permission of the operation at some moment, server-wide or in  *)
(* the project whose data it touches: not in the project of another call   *)
(* of the same request, and not under a name that came to mean another     *)
(* project.                                                                *)
(***************************************************************************)
Passed(c) == call[c].pc \in {"bind", "run"} \/ (Ended(c) /\ call[c].ran)

RanWithLeave ==
    \A c \in Calls :
        Passed(c) /\ Permission(c) # None
            => /\ call[c].sawLive
               /\ \E s \in {Global, call[c].project} : <<s, Permission(c)>> \in call[c].sawGranted

Alone(c) == \A d \in Calls \ {c} : call[d] = IdleCall \/ call[d].by # call[c].by

(***************************************************************************)
(* Every tool call and every write that ended handed one row to the audit  *)
(* log: denied only where nothing ran, naming the project of that call,    *)
(* and, where the call was alone in its request, the version it was bound  *)
(* to.  (A row takes its version from the context that the calls of a      *)
(* request share; whether its insert succeeds, audit() does not wait to    *)
(* hear.)                                                                  *)
(***************************************************************************)
OneRowEach ==
    \A c \in Calls :
        /\ Len(audit[c]) <= 1
        /\ Ended(c) /\ call[c].surface = "mcp" => Len(audit[c]) = 1
        /\ Ended(c) /\ call[c].ran /\ call[c].surface = "web" => (Len(audit[c]) = 1 <=> ~Reads(call[c].op))
        /\ Ended(c) /\ call[c].ran /\ audit[c] # <<>> => audit[c][1].outcome # "denied"
        /\ Ended(c) /\ ~call[c].ran /\ audit[c] # <<>> => audit[c][1].outcome # "ok"
        /\ Ended(c) /\ call[c].surface = "mcp" /\ call[c].project # None =>
               /\ audit[c][1].project = call[c].project
               /\ Alone(c) /\ call[c].ran => audit[c][1].version = call[c].bound
===============================================================================
