------------------------------ MODULE MCImport ------------------------------
(***************************************************************************)
(* A payload of a baseline and the version after it, imported into a new   *)
(* project, or into one that is filling or has locked that baseline.       *)
(***************************************************************************)
EXTENDS Import, TLC

MCExports == {("1.0.0" :> "locked") @@ ("1.1.0" :> status) : status \in {"draft", "locked"}}
MCPayload == <<"1.0.0", "1.1.0">>
MCData == ("1.0.0" :> [id \in Ids |-> "a"]) @@ ("1.1.0" :> [id \in Ids |-> None])
MCOrder == <<"requirement", "story">>
MCNeeds == [id \in Ids |-> IF id = "story" THEN {"requirement"} ELSE {}]

With(status, requirement) ==
    [[k \in Keys |-> None] EXCEPT ![Status("1.0.0")] = status, ![<<"1.0.0", "requirement">>] = requirement]
MCPresent == {With("draft", None), With("draft", "b"), With("locked", "b")}

MCEdited == {<<"1.0.0", "requirement">>}

MCSymmetry == Permutations(Clients)
=============================================================================
