------------------------------ MODULE DialType ------------------------------
(***************************************************************************)
(* Text entry with the sticks of a gamepad (dial_type.cpp): a stick that   *)
(* is pushed out and let go names the sector it was in most, one that is   *)
(* turned on its way names the sectors it passes.  When both sticks rest,  *)
(* what the two have named is the input.                                   *)
(*                                                                         *)
(* A position is an angle in thousandths of a radian, or Rest when the     *)
(* stick is inside the threshold.                                          *)
(***************************************************************************)
EXTENDS Integers, Sequences, FiniteSetsExt

Rest == -1
Turn == 6283
DialingThreshold == 800
SectorAngles == <<4420, 5010, 5990, 293, 1278, 1864, 2849, 3435>>

Between(angle, a, b) ==
    IF a < b THEN a <= angle /\ angle <= b ELSE a <= angle \/ angle <= b

Sector8(angle) ==
    Min({i \in 0..7 : Between(angle, SectorAngles[i + 1], SectorAngles[((i + 1) % 8) + 1])})

Sector4(angle) ==
    IF 3927 <= angle /\ angle <= 5498 THEN 0
    ELSE IF 785 <= angle /\ angle <= 2356 THEN 2
    ELSE IF angle < 785 \/ angle > 5498 THEN 1 ELSE 3

AngleDiff(a, b) == Min({(a - b + Turn) % Turn, (b - a + Turn) % Turn})

NewStick ==
    [active |-> FALSE, dialing |-> FALSE, start |-> 0, stack |-> <<>>,
     counts |-> [i \in 0..7 |-> 0]]

\* A sector that is not one of the last two the stick named.
Named(stack, sector) ==
    IF \E i \in 1..Len(stack) : i > Len(stack) - 2 /\ stack[i] = sector
    THEN stack ELSE Append(stack, sector)

\* The stick is past the threshold.
Pushed(stick, angle) ==
    LET out == IF stick.active THEN stick ELSE [stick EXCEPT !.active = TRUE, !.start = angle]
        turned == IF ~out.dialing /\ AngleDiff(angle, out.start) > DialingThreshold
                  THEN [out EXCEPT !.dialing = TRUE, !.stack = Append(@, Sector4(out.start))]
                  ELSE out
    IN  IF turned.dialing
        THEN [turned EXCEPT !.stack = Named(@, Sector4(angle))]
        ELSE [turned EXCEPT !.counts[Sector8(angle)] = @ + 1]

\* Mutant: the counts of one push are still there for the next.
ReleasedKeepsCounts(stick) ==
    LET most == Min({i \in 0..7 : \A j \in 0..7 : stick.counts[j] <= stick.counts[i]})
    IN  [stick EXCEPT !.active = FALSE, !.dialing = FALSE,
                      !.stack = IF stick.dialing \/ stick.counts[most] = 0
                                THEN @ ELSE Append(@, most)]

\* The stick came back.
Released(stick) ==
    LET most == Min({i \in 0..7 : \A j \in 0..7 : stick.counts[j] <= stick.counts[i]})
    IN  [NewStick EXCEPT !.start = stick.start,
                         !.stack = IF stick.dialing \/ stick.counts[most] = 0
                                   THEN stick.stack ELSE Append(stick.stack, most)]

Moved(stick, position) ==
    IF position # Rest THEN Pushed(stick, position)
    ELSE IF stick.active THEN Released(stick) ELSE stick

SticksRest == [left |-> Rest, right |-> Rest]

NoInput == <<>>
NewDial == [left |-> NewStick, right |-> NewStick, pending |-> NoInput]

DialMoved(dial, sticks) ==
    [dial EXCEPT !.left = Moved(@, sticks.left), !.right = Moved(@, sticks.right)]

\* Both sticks rest and one has named something.
Complete(dial) ==
    /\ ~dial.left.active /\ ~dial.right.active
    /\ dial.left.stack # <<>> \/ dial.right.stack # <<>>

DialUpdated(dial, sticks) ==
    LET moved == DialMoved(dial, sticks)
    IN  IF Complete(moved)
        THEN [NewDial EXCEPT !.pending = <<moved.left.stack, moved.right.stack>>]
        ELSE moved

\* Between gestures nothing of the last one is left: a stick at rest counts
\* nothing and is not dialing, and when both rest neither has named anything
\* that was not given as input.
StickAtRest(stick) ==
    ~stick.active => ~stick.dialing /\ \A i \in 0..7 : stick.counts[i] = 0
DialAtRest(dial) ==
    /\ StickAtRest(dial.left) /\ StickAtRest(dial.right)
    /\ ~Complete(dial)
=============================================================================
