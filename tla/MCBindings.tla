------------------------------ MODULE MCBindings -------------------------------
(***************************************************************************)
(* Instances of Bindings for TLC: the scenarios, by subject.               *)
(***************************************************************************)
EXTENDS Bindings, TLC

----------------------------------------------------------------------------
\* Vector buffer: its own bounds are enough.
CONSTANTS p, q

Allocating == [any |-> 1]
Symmetric == Permutations(Holders)

----------------------------------------------------------------------------
\* Torrents: added twice, removed and added again; answers while alerts are taken
\* one by one, or all; values.
Adding == [add |-> 4, remove |-> 3, drop |-> 1]
Asking == [ask |-> 3, post |-> 1, wait |-> 2, pop |-> 1]
Encoding == [value |-> 1]

OfTorrents == {Adding, Asking, Encoding}

----------------------------------------------------------------------------
\* Temporal: one call, of numbers around both limits and around zero.
Computing == [compute |-> 1]

MCMaxInt == 20002
MCOperands ==
    {-MCMaxInt - 1, -MCMaxInt, -2501, -2500, -834, -1, 0, 1, 833, 834, 2500, 2501, MCMaxInt - 1,
     MCMaxInt}
MCDays == {-673, -672, -671, -1, 0, 29, 30, 58, 59, 789, 832}
MCShifts == {-1250, -12, -1, 0, 1, 13, 1251}
MCOffsets == {-2, 0, 1, 3}

----------------------------------------------------------------------------
\* Desktop: the tray, with clicks; notes of two centers; watches.
Showing == [tray |-> 6, click |-> 2]
Notifying == [send |-> 3, close |-> 2, act |-> 1, drop |-> 1]
Watching == [watch |-> 4, notice |-> 4]

OfDesktop == {Showing, Notifying, Watching}

----------------------------------------------------------------------------
Parts == [vector |-> {Allocating}, torrents |-> OfTorrents, temporal |-> {Computing}, desktop |-> OfDesktop]

MCScenarios ==
    UNION {{[subject |-> part, calls |-> calls] : calls \in Parts[part]} : part \in DOMAIN Parts}

\* A script that takes alerts and then computes.
MCCalling == {[subject |-> "both", calls |-> [post |-> 3, wait |-> 1, pop |-> 1, compute |-> 1]]}

BothNext ==
    \/ TorrentsNext /\ UNCHANGED <<subject, vectorVars, temporalVars, desktopVars>>
    \/ TemporalNext /\ UNCHANGED <<subject, vectorVars, torrentVars, desktopVars>>

BothSpec == Init /\ [][BothNext]_vars
=============================================================================
