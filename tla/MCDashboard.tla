---------------------------- MODULE MCDashboard -----------------------------
(***************************************************************************)
(* Two projects: one with two versions that are written to, one with a     *)
(* single version that is not; their phases differ.                        *)
(***************************************************************************)
EXTENDS DashboardProperties, TLC

MCVersionsOf == ("shop" :> {"1.0.0", "1.1.0"}) @@ ("bank" :> {"1.0.0"})
MCCurrent == ("shop" :> "1.1.0") @@ ("bank" :> "1.0.0")
MCActivePhase == ("shop" :> "MVP") @@ ("bank" :> "P1")
MCMaxEdits == ("shop" :> 1) @@ ("bank" :> 0)
MCPhasesOf == ("shop" :> {"MVP"}) @@ ("bank" :> {"P1"})
=============================================================================
