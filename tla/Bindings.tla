------------------------------- MODULE Bindings -------------------------------
(***************************************************************************)
(* Modules that scripts reach through the bindings and that share no state *)
(* with each other: as in Subsystems, only the scenario's subject moves.   *)
(***************************************************************************)
EXTENDS Scenario, VectorBuffer, Torrents, Temporal, Desktop

Init == Opens /\ VectorInit /\ TorrentsInit /\ TemporalInit /\ DesktopInit

\* The turn is the subject's: the others stay as they are.
Moves(part) ==
    /\ subject = part
    /\ UNCHANGED subject
    /\ IF part = "vector" THEN UNCHANGED left ELSE UNCHANGED vectorVars
    /\ IF part = "torrents" THEN TRUE ELSE UNCHANGED torrentVars
    /\ IF part = "temporal" THEN TRUE ELSE UNCHANGED temporalVars
    /\ IF part = "desktop" THEN TRUE ELSE UNCHANGED desktopVars

Next ==
    \/ Moves("vector") /\ VectorNext
    \/ Moves("torrents") /\ TorrentsNext
    \/ Moves("temporal") /\ TemporalNext
    \/ Moves("desktop") /\ DesktopNext

vars == <<subject, left, vectorVars, torrentVars, temporalVars, desktopVars>>

Spec == Init /\ [][Next]_vars

\* A script that uses torrents and computes with dates meets one promise at least:
\* that no alert is read after libtorrent freed it (assets/lua/tests/test-libtorrent-
\* offline.fnl:373-386), or that invalid fields and overflow are loud errors
\* (docs/dev/features/temporal.md:24).  Not so, for pop_alerts and for date::month.
SomeBindingIsSafe == AlertsAreAlive \/ InvalidIsLoud
=============================================================================
