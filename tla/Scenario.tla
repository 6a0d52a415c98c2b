------------------------------- MODULE Scenario -------------------------------
(***************************************************************************)
(* What bounds the parts that Subsystems puts side by side.  A scenario is *)
(* the part that moves, its subject, and how often each sort of thing that *)
(* comes from outside may still happen to it.                              *)
(***************************************************************************)
EXTENDS Naturals

CONSTANT Scenarios          \* bound: records [subject, calls]

ASSUME ScenarioBounds ==
    \A scenario \in Scenarios : scenario.calls \in [DOMAIN scenario.calls -> Nat]

VARIABLES subject, left

Opens ==
    \E scenario \in Scenarios : subject = scenario.subject /\ left = scenario.calls

Spend(sort) ==
    /\ sort \in DOMAIN left
    /\ left[sort] > 0
    /\ left' = [left EXCEPT ![sort] = @ - 1]
=============================================================================
