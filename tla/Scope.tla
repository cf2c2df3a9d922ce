------------------------------- MODULE Scope --------------------------------
(***************************************************************************)
(* Which requirements, stories and screens a report of a phase is about.   *)
(* A view is a phase, or None for all phases, and a mode.  A call may name *)
(* a phase, or leave it out.                                               *)
(***************************************************************************)
EXTENDS Integers

CONSTANTS PhaseOrder,     \* [phase -> order]
          Stories,
          None,           \* unassigned, all phases, no row
          Absent          \* an argument that a call leaves out

Phases == DOMAIN PhaseOrder

ASSUME PhaseOrderAssumption == None \notin Phases /\ PhaseOrder \in [Phases -> Int]
ASSUME AbsentAssumption == Absent \notin Phases /\ Absent \notin BOOLEAN

Modes == {"strict", "cumulative"}

\* An unassigned item and one of an unknown phase are in no phase's report; an
\* unknown target phase restricts nothing (cumulative mode).
InScope(item, phase, mode) ==
    \/ phase = None
    \/ /\ item # None
       /\ IF mode = "strict" THEN item = phase
          ELSE \/ phase \notin Phases
               \/ item \in Phases /\ PhaseOrder[item] <= PhaseOrder[phase]

\* A story is where any of its requirements is; phases are those of its
\* requirements, None for an unassigned one.
StoryInScope(phases, phase, mode) == phase = None \/ \E p \in phases : InScope(p, phase, mode)
=============================================================================
