------------------------------- MODULE MCAccess -------------------------------
(***************************************************************************)
(* A small instance of the front end: two projects, two requests, two      *)
(* calls, and the grants that tell a project's from the server's.          *)
(***************************************************************************)
EXTENDS AccessProperties, TLC

CONSTANTS p, q

MCGrantable == {<<Global, "project:manage">>, <<p, "phase:write">>}

MCDatabases == {{q}}

MCRoutes == {<<"DELETE", "phases">>, <<"GET", "config">>, <<"GET", "version">>}
\* Requests are interchangeable, and so are calls.
MCSymmetry == Permutations(Requests) \cup Permutations(Calls)
===============================================================================
