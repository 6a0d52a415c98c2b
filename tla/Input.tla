-------------------------------- MODULE Input --------------------------------
(***************************************************************************)
(* What scripts can ask about keyboard, mouse, fingers, pens and gamepads  *)
(* (InputState), kept from SDL's events by the loop of Engine::run.  A     *)
(* frame keeps what was pressed as "previous", takes the events there are, *)
(* and then lets scripts look; with a target of zero frames per second it  *)
(* first sleeps until there is an event.  Input may be paused.             *)
(*                                                                         *)
(* A control is a pair of its kind and the id of its device.  Positions,   *)
(* axes and the payloads of events are left out, but for the sticks of a   *)
(* gamepad.                                                                *)
(***************************************************************************)
EXTENDS Scenario, InputDialType

CONSTANTS
    Fingers, Pens, Pads,    \* ids of contacts, pens and gamepads
    Sides,                  \* the sticks that are moved: "left", "right"
    Angles,                 \* where a stick may be pushed
    MaxEvents               \* bound: the events SDL holds at once

ASSUME InputBounds ==
    /\ Fingers \cup Pens \cup Pads \subseteq Nat \ {0}
    /\ Angles \subseteq 0..(Turn - 1)
    /\ MaxEvents \in Nat

VARIABLES
    device,                 \* controls that are pressed, as SDL knows
    stick,                  \* gamepad -> where its sticks are
    events,                 \* SDL's events
    now, was,               \* controls down: the current and the previous values
    axes,                   \* gamepad -> its sticks, as InputState has them
    touchPoints, penStates, gamepadStates,
    primary,                \* the primary finger, pen and gamepad, 0 for none
    gamepads,               \* the gamepads the engine has open
    paused, zero_fps,
    frame,                  \* where the loop is
    woken,                  \* history: an event ended the sleep before this frame
    stale,                  \* history: controls an event of which was ignored
    shown                   \* history: controls down when scripts last looked

stateVars == <<now, was, axes, touchPoints, penStates, gamepadStates, primary, gamepads>>
inputVars == <<device, stick, events, stateVars, paused, zero_fps, frame, woken, stale,
               shown, dialVars>>

Key == <<"key", 1>>
Mouse == <<"mouse", 1>>
Finger(f) == <<"finger", f>>
InRange(p) == <<"range", p>>
Tip(p) == <<"tip", p>>
Barrel(p) == <<"barrel", p>>
Pad(g) == <<"pad", g>>
Gone(g) == <<"gone", g>>
Button(g) == <<"button", g>>
OfPen(p) == {InRange(p), Tip(p), Barrel(p)}
OfPad(g) == {Pad(g), Button(g)}
Controls == {Key, Mouse} \cup {Finger(f) : f \in Fingers}
         \cup (UNION {OfPen(p) : p \in Pens}) \cup (UNION {OfPad(g) : g \in Pads})

Flipped(set, c) == IF c \in set THEN set \ {c} ELSE set \cup {c}
Put(set, c, on) == IF on THEN set \cup {c} ELSE set \ {c}

InputInit ==
    /\ device = {} /\ stick = [g \in Pads |-> SticksRest] /\ events = <<>>
    /\ now = {} /\ was = {} /\ axes = [g \in Pads |-> SticksRest]
    /\ touchPoints = {} /\ penStates = {} /\ gamepadStates = {} /\ gamepads = {}
    /\ primary = [finger |-> 0, pen |-> 0, pad |-> 0]
    /\ paused = FALSE /\ zero_fps = FALSE
    /\ frame = "top" /\ woken = FALSE
    /\ stale = {} /\ shown = {}
    /\ DialInit

----------------------------------------------------------------------------
\* The devices.  SDL changes what it knows of them as it queues an event.

InputEvent(type, id) == [type |-> type, id |-> id, down |-> {}, side |-> "left", position |-> Rest]
\* Pen events carry the state of the pen.
PenEvent(type, p, after) == [InputEvent(type, p) EXCEPT !.down = after \cap {Tip(p), Barrel(p)}]

Happens(after, event) ==
    /\ device' = after
    /\ events' = Append(events, event)
    /\ UNCHANGED stick

PenHappens(p) ==
    \/ /\ InRange(p) \notin device
       /\ Happens(device \cup {InRange(p)}, InputEvent("pen-in", p))
    \/ /\ InRange(p) \in device
       /\ \/ Happens(device \ OfPen(p), InputEvent("pen-out", p))
          \/ Happens(device, PenEvent("pen-motion", p, device))
          \/ LET after == Flipped(device, Tip(p))
             IN  Happens(after, PenEvent(IF Tip(p) \in after THEN "pen-down" ELSE "pen-up",
                                         p, after))
          \/ LET after == Flipped(device, Barrel(p))
             IN  Happens(after, PenEvent("pen-button", p, after))

PadHappens(g) ==
    \/ /\ Pad(g) \notin device /\ Gone(g) \notin device
       /\ Happens(device \cup {Pad(g)}, InputEvent("pad-added", g))
    \/ /\ Pad(g) \in device
       /\ Happens((device \ OfPad(g)) \cup {Gone(g)}, InputEvent("pad-removed", g))
    \/ /\ Pad(g) \in device /\ g \in gamepads
       /\ LET after == Flipped(device, Button(g))
          IN  Happens(after, [InputEvent("pad-button", g) EXCEPT !.down = after \cap {Button(g)}])

StickHappens(g, side, position) ==
    /\ Pad(g) \in device /\ g \in gamepads
    /\ stick' = [stick EXCEPT ![g][side] = position]
    /\ events' = Append(events, [InputEvent("pad-axis", g) EXCEPT !.side = side, !.position = position])
    /\ UNCHANGED device

\* SDL is pumped when the loop asks it for events, asleep or not.
Pump ==
    /\ frame \in {"poll", "wait"} /\ Len(events) < MaxEvents
    /\ \/ Spend("key") /\ Happens(Flipped(device, Key), InputEvent("key", 1))
       \/ Spend("mouse") /\ Happens(Flipped(device, Mouse),
                                    [InputEvent("mouse", 1) EXCEPT !.down = {Mouse} \ device])
       \/ /\ Spend("finger")
          /\ \E f \in Fingers :
                IF Finger(f) \notin device
                THEN Happens(device \cup {Finger(f)}, InputEvent("touch-down", f))
                ELSE \/ Happens(device, InputEvent("touch-motion", f))
                     \/ \E type \in {"touch-up", "touch-canceled"} :
                            Happens(device \ {Finger(f)}, InputEvent(type, f))
       \/ Spend("pen") /\ \E p \in Pens : PenHappens(p)
       \/ Spend("pad") /\ \E g \in Pads : PadHappens(g)
       \/ Spend("stick") /\ \E g \in Pads, side \in Sides, position \in Angles \cup {Rest} :
                                StickHappens(g, side, position)
    /\ UNCHANGED <<stateVars, paused, zero_fps, frame, woken, stale, shown, dialVars>>

----------------------------------------------------------------------------
\* The primary devices.  Any of several may be found first in a hash map.

FingersIn(set) == {f \in Fingers : Finger(f) \in set}
PensIn(set) == {p \in Pens : InRange(p) \in set}

\* assign_primary_touch_if_missing and its likes: who is primary stays so while
\* it is there, then comes the preferred one, then any.
Primaries(current, preferred, present) ==
    IF current \in present THEN {current}
    ELSE IF preferred \in present THEN {preferred}
    ELSE IF present = {} THEN {0} ELSE present

AssignFinger(preferred, down) ==
    \E f \in Primaries(primary.finger, preferred, FingersIn(down)) :
        primary' = [primary EXCEPT !.finger = f]

----------------------------------------------------------------------------
\* The start of a frame.

\* What is "previous" in the frame that begins: what was kept before the mouse
\* was read again, and the keys SDL has.
Previous(kept, down) == Put(kept, Key, Key \in device)

\* InputState::begin_frame, MouseState::begin_frame and the copy of the
\* keyboard; the mouse is read again unless input is paused.
BeginFrame ==
    LET forgotten == {f \in touchPoints : Finger(f) \notin now \cup was}
        lost == {p \in penStates : {InRange(p), Tip(p)} \cap (now \cup was) = {}}
        kept == now \ UNION {OfPen(p) : p \in lost}
        down == IF paused THEN kept ELSE Put(kept, Mouse, Mouse \in device)
    IN  /\ touchPoints' = touchPoints \ forgotten
        /\ penStates' = penStates \ lost
        /\ was' = Previous(kept, down)
        /\ now' = down
        /\ \E f \in Primaries(primary.finger, 0, FingersIn(kept)),
              p \in Primaries(primary.pen, 0, PensIn(kept)) :
                primary' = [primary EXCEPT !.finger = f, !.pen = p]
        /\ stale' = IF paused THEN stale ELSE stale \ {Mouse}
        /\ UNCHANGED <<axes, gamepadStates, gamepads>>

\* The loop's top: asleep until there is an event, or a frame.
Top ==
    \/ /\ frame = "top" /\ zero_fps
       /\ frame' = "wait"
       /\ UNCHANGED <<stateVars, stale, woken>>
    \/ /\ \/ frame = "top" /\ ~zero_fps
          \/ frame = "wait" /\ events # <<>>
       /\ BeginFrame
       /\ woken' = (frame = "wait")
       /\ frame' = "poll"

\* The sleep ends without an event: scripts are dispatched, and no more.
TimedOut ==
    /\ frame = "wait" /\ events = <<>>
    /\ frame' = "idle"
    /\ UNCHANGED <<stateVars, stale, woken>>

----------------------------------------------------------------------------
\* handle_event, with the methods of InputState it calls.

OnMouse(e) ==
    /\ now' = Put(now, Mouse, e.down # {})
    /\ UNCHANGED <<was, axes, touchPoints, penStates, gamepadStates, primary, gamepads, dialVars>>

OnKey ==
    UNCHANGED <<stateVars, dialVars>>

OnTouch(f, down) ==
    /\ touchPoints' = touchPoints \cup {f}
    /\ now' = Put(now, Finger(f), down)
    /\ IF down THEN AssignFinger(f, now')
       ELSE IF primary.finger = f THEN AssignFinger(0, now')
       ELSE UNCHANGED primary
    /\ UNCHANGED <<was, axes, penStates, gamepadStates, gamepads, dialVars>>

\* Who is the primary pen when p has left.
WithoutPen(p, present) ==
    IF primary.pen = p THEN Primaries(0, 0, present) ELSE {primary.pen}

\* set_proximity: the tip is up and, for a pen that left, the buttons are.
OnProximity(p, in) ==
    LET down == (now \ {Tip(p)}) \cup {InRange(p)}
    IN  /\ penStates' = penStates \cup {p}
        /\ now' = IF in THEN down ELSE now \ OfPen(p)
        /\ \E q \in IF in THEN {p} ELSE WithoutPen(p, PensIn(now')) :
                primary' = [primary EXCEPT !.pen = q]
        /\ UNCHANGED <<was, axes, touchPoints, gamepadStates, gamepads, dialVars>>

\* set_motion, set_touch, set_button and set_axis: all take the pen's state
\* from the event.
OnPen(e) ==
    /\ penStates' = penStates \cup {e.id}
    /\ now' = (now \ OfPen(e.id)) \cup {InRange(e.id)} \cup e.down
    /\ primary' = [primary EXCEPT !.pen = e.id]
    /\ UNCHANGED <<was, axes, touchPoints, gamepadStates, gamepads, dialVars>>

OnPadButton(e) ==
    /\ gamepadStates' = gamepadStates \cup {e.id}
    /\ now' = Put(now, Button(e.id), e.down # {})
    /\ primary' = [primary EXCEPT !.pad = e.id]
    /\ UNCHANGED <<was, axes, touchPoints, penStates, gamepads, dialVars>>

OnPadAxis(e) ==
    /\ gamepadStates' = gamepadStates \cup {e.id}
    /\ primary' = [primary EXCEPT !.pad = e.id]
    /\ axes' = [axes EXCEPT ![e.id][e.side] = e.position]
    /\ Process(e.id, axes'[e.id])
    /\ UNCHANGED <<now, was, touchPoints, penStates, gamepads>>

\* openGamepad fails for a gamepad that is gone again.
OnPadAdded(g) ==
    /\ IF Pad(g) \in device
       THEN /\ gamepads' = gamepads \cup {g}
            /\ gamepadStates' = gamepadStates \cup {g}
            /\ \E q \in Primaries(primary.pad, g, gamepadStates') :
                  primary' = [primary EXCEPT !.pad = q]
       ELSE UNCHANGED <<gamepads, gamepadStates, primary>>
    /\ UNCHANGED <<now, was, axes, touchPoints, penStates, dialVars>>

\* closeGamepad, on_gamepad_disconnected.
OnPadRemoved(g) ==
    /\ gamepads' = gamepads \ {g}
    /\ gamepadStates' = gamepadStates \ {g}
    /\ now' = now \ OfPad(g) /\ was' = was \ OfPad(g)
    /\ axes' = [axes EXCEPT ![g] = SticksRest]
    /\ IF primary.pad = g
       THEN \E q \in Primaries(0, 0, gamepadStates') : primary' = [primary EXCEPT !.pad = q]
       ELSE UNCHANGED primary
    /\ DialDeactivate(g)
    /\ UNCHANGED <<touchPoints, penStates>>

TouchEvents == {"touch-down", "touch-motion", "touch-up", "touch-canceled"}
\* Mutant: a cancelled touch is taken for one more motion.
TouchesDownOrCancelled == {"touch-down", "touch-motion", "touch-canceled"}
TouchesDown == {"touch-down", "touch-motion"}

Proximities == {"pen-in", "pen-out"}
PenEvents == {"pen-motion", "pen-down", "pen-up", "pen-button"}

\* What an event tells of.  One that a pen has come says nothing of its buttons.
ControlsOf(e) ==
    CASE e.type = "key" -> {}
      [] e.type = "mouse" -> {Mouse}
      [] e.type \in TouchEvents -> {Finger(e.id)}
      [] e.type \in {"pad-button", "pad-axis"} -> {Button(e.id)}
      [] e.type \in {"pad-added", "pad-removed"} -> OfPad(e.id)
      [] OTHER -> OfPen(e.id)
ToldBy(e) ==
    CASE e.type = "pen-in" -> {InRange(e.id), Tip(e.id)}
      [] e.type = "pad-axis" -> {}
      [] OTHER -> ControlsOf(e)

Handled(e) ==
    \/ e.type = "key" /\ OnKey
    \/ e.type = "mouse" /\ OnMouse(e)
    \/ e.type \in TouchEvents /\ OnTouch(e.id, e.type \in TouchesDown)
    \/ e.type \in Proximities /\ OnProximity(e.id, e.type = "pen-in")
    \/ e.type \in PenEvents /\ OnPen(e)
    \/ e.type = "pad-button" /\ OnPadButton(e)
    \/ e.type = "pad-axis" /\ OnPadAxis(e)
    \/ e.type = "pad-added" /\ OnPadAdded(e.id)
    \/ e.type = "pad-removed" /\ OnPadRemoved(e.id)

Handle ==
    /\ frame = "poll" /\ events # <<>>
    /\ events' = Tail(events)
    /\ LET e == Head(events)
       IN  IF paused
           THEN stale' = stale \cup ControlsOf(e) /\ UNCHANGED <<stateVars, dialVars>>
           ELSE stale' = stale \ ToldBy(e) /\ Handled(e)
    /\ UNCHANGED <<device, stick, paused, zero_fps, frame, woken, shown, left>>

----------------------------------------------------------------------------
\* What scripts see and do.

\* Keys are SDL's own array; the rest is what InputState keeps.
DownNow == now \cup (device \cap {Key})

KeyStatus(on, before) ==
    CASE ~before /\ ~on -> "None"
      [] ~before /\ on -> "JustPressed"
      [] before /\ on -> "Held"
      [] before /\ ~on -> "JustReleased"
KeyState(c) == KeyStatus(c \in DownNow, c \in was)

EndFrame ==
    \/ /\ frame = "poll" /\ events = <<>>
       /\ frame' = "tick"
       /\ UNCHANGED shown
    \/ /\ frame = "tick"
       /\ frame' = "top" /\ shown' = DownNow
    \/ /\ frame = "idle"
       /\ frame' = "top" /\ UNCHANGED shown

Loop ==
    /\ \/ Top /\ UNCHANGED shown
       \/ TimedOut /\ UNCHANGED shown
       \/ EndFrame /\ UNCHANGED <<stateVars, stale, woken>>
    /\ UNCHANGED <<device, stick, events, paused, zero_fps, left, dialVars>>

InputScript ==
    /\ frame \in {"poll", "tick", "idle"}
    /\ \/ Spend("pause") /\ paused' = ~paused /\ UNCHANGED <<zero_fps, dialVars>>
       \/ Spend("fps") /\ zero_fps' = ~zero_fps /\ UNCHANGED <<paused, dialVars>>
       \/ /\ Spend("dial")
          /\ \/ \E g \in Pads : \/ DialActivate(g) \/ DialDeactivate(g) \/ DialSubscribe(g)
                                \/ AdapterUpdateGamepad(g, gamepadStates, axes[g])
                                \/ AdapterPoll(g)
             \/ \E id \in 1..MaxCallbacks : DialUnsubscribe(id)
             \/ AdapterUpdate(gamepadStates, axes)
          /\ UNCHANGED <<paused, zero_fps>>
    /\ UNCHANGED <<device, stick, events, stateVars, frame, woken, stale, shown>>

InputNext == Pump \/ Loop \/ Handle \/ InputScript

----------------------------------------------------------------------------
\* When scripts look, all events are taken: what they are told is down is what
\* is down, but for what was told in events that a pause swallowed, of which
\* nothing has been heard since.
StateFollowsDevices ==
    frame = "tick" =>
        \A c \in Controls \ stale :
            (c \in DownNow \/ \E g \in gamepadStates : c = Pad(g)) <=> c \in device

\* "Just pressed", "held" and "just released" compare a control with what it
\* was when scripts last looked, so that a press that lasts is new in one frame,
\* and a release is told once.  Two exceptions: the buttons of a gamepad that
\* is gone are none, and in a frame that an event began the keys it tells of
\* are "previous" already: a new key is held at once, a released one none.
EdgesAreTrue ==
    frame = "tick" =>
        \A c \in Controls \ (IF woken THEN {Key} ELSE {}) :
            \/ KeyState(c) = KeyStatus(c \in DownNow, c \in shown)
            \/ \E g \in Pads \ gamepadStates : c = Button(g) /\ KeyState(c) = "None"

\* There is a primary finger, pen and gamepad exactly when there is any, and it
\* is one of those there are: down, in range, connected.  What the engine has
\* open is what InputState holds, and no dial outlives its gamepad.
DevicesAgree ==
    /\ primary.finger \in Primaries(primary.finger, 0, FingersIn(now))
    /\ primary.pen \in Primaries(primary.pen, 0, PensIn(now))
    /\ primary.pad \in Primaries(primary.pad, 0, gamepadStates)
    /\ gamepads = gamepadStates
    /\ FingersIn(now \cup was) \subseteq touchPoints
    /\ PensIn(now \cup was) \subseteq penStates
    /\ DOMAIN dialByGamepad \subseteq gamepadStates

\* What scripts see is what is pressed, presses and releases are told once, and
\* primaries and dials belong to devices that are there.
InputAgrees == StateFollowsDevices /\ EdgesAreTrue /\ DevicesAgree /\ DialTablesAgree
=============================================================================
