---------------------------- MODULE InputDialType ----------------------------
(***************************************************************************)
(* Dial input of gamepads (input_dial_type.cpp).  The engine owns one      *)
(* InputDialType, whose gamepads scripts activate and subscribe to and     *)
(* whose sticks it moves with every axis event; a script may make another  *)
(* and update and poll it itself.                                          *)
(***************************************************************************)
EXTENDS DialType

CONSTANT MaxCallbacks       \* bound: how many subscriptions are made
ASSUME CallbackBound == MaxCallbacks \in Nat

VARIABLES
    dialByGamepad,          \* the dials of the engine's object
    activeGamepads,
    subscriptions,          \* callback id -> gamepad
    subscriptionIds,        \* gamepad -> its callback ids
    nextCallbackId,
    adapter,                \* the dials of a script's own object
    wanted,                 \* history: subscriptions the script believes in
    owed,                   \* history: those a whole gesture was made for
    told                    \* history: those that were called

dialVars == <<dialByGamepad, activeGamepads, subscriptions, subscriptionIds, nextCallbackId,
              adapter, wanted, owed, told>>

DialInit ==
    /\ dialByGamepad = <<>>
    /\ activeGamepads = {}
    /\ subscriptions = <<>>
    /\ subscriptionIds = <<>>
    /\ nextCallbackId = 1
    /\ adapter = <<>>
    /\ wanted = {} /\ owed = {} /\ told = {}

Without(f, keys) == [k \in DOMAIN f \ keys |-> f[k]]
With(f, key, value) == [k \in DOMAIN f \cup {key} |-> IF k = key THEN value ELSE f[k]]
DialOf(dials, pad) == IF pad \in DOMAIN dials THEN dials[pad] ELSE NewDial
CallbacksOf(pad) == IF pad \in DOMAIN subscriptionIds THEN subscriptionIds[pad] ELSE {}

\* Mutant: deactivating leaves the subscriptions themselves behind.
DeactivatedKeepsCallbacks(pad) ==
    /\ activeGamepads' = activeGamepads \ {pad}
    /\ dialByGamepad' = Without(dialByGamepad, {pad})
    /\ subscriptionIds' = Without(subscriptionIds, {pad})
    /\ UNCHANGED subscriptions

\* deactivate_gamepad: the dial and every subscription of the gamepad go.
Deactivated(pad) ==
    /\ activeGamepads' = activeGamepads \ {pad}
    /\ dialByGamepad' = Without(dialByGamepad, {pad})
    /\ subscriptions' = Without(subscriptions, CallbacksOf(pad))
    /\ subscriptionIds' = Without(subscriptionIds, {pad})

DialActivate(pad) ==
    /\ activeGamepads' = activeGamepads \cup {pad}
    /\ UNCHANGED <<dialByGamepad, subscriptions, subscriptionIds, nextCallbackId, adapter,
                   wanted, owed, told>>

DialDeactivate(pad) ==
    /\ Deactivated(pad)
    /\ wanted' = {w \in wanted : w.pad # pad}
    /\ UNCHANGED <<nextCallbackId, adapter, owed, told>>

\* dial-type-on-input.
DialSubscribe(pad) ==
    /\ nextCallbackId <= MaxCallbacks
    /\ nextCallbackId' = nextCallbackId + 1
    /\ subscriptions' = With(subscriptions, nextCallbackId, pad)
    /\ subscriptionIds' = With(subscriptionIds, pad, CallbacksOf(pad) \cup {nextCallbackId})
    /\ wanted' = wanted \cup {[id |-> nextCallbackId, pad |-> pad, out |-> FALSE]}
    /\ UNCHANGED <<dialByGamepad, activeGamepads, adapter, owed, told>>

\* dial-type-off-input.
DialUnsubscribe(id) ==
    /\ id \in DOMAIN subscriptions
    /\ LET pad == subscriptions[id]
           rest == CallbacksOf(pad) \ {id}
       IN  subscriptionIds' = IF rest = {} THEN Without(subscriptionIds, {pad})
                              ELSE With(subscriptionIds, pad, rest)
    /\ subscriptions' = Without(subscriptions, {id})
    /\ wanted' = {w \in wanted : w.id # id}
    /\ UNCHANGED <<dialByGamepad, activeGamepads, nextCallbackId, adapter, owed, told>>

\* process_gamepad: a move that completes no gesture deactivates the gamepad.
Process(pad, sticks) ==
    LET moved == DialMoved(DialOf(dialByGamepad, pad), sticks)
        out == sticks # SticksRest
    IN  /\ IF pad \notin activeGamepads
           THEN UNCHANGED <<dialByGamepad, activeGamepads, subscriptions, subscriptionIds, told>>
           ELSE IF Complete(moved)
           THEN /\ dialByGamepad' = With(dialByGamepad, pad, NewDial)
                /\ told' = told \cup CallbacksOf(pad)
                /\ UNCHANGED <<activeGamepads, subscriptions, subscriptionIds>>
           ELSE Deactivated(pad) /\ UNCHANGED told
        /\ owed' = owed \cup {w.id : w \in {v \in wanted : v.pad = pad /\ v.out /\ ~out}}
        /\ wanted' = {IF w.pad = pad
                      THEN [w EXCEPT !.out = out /\ (w.out \/ pad \in activeGamepads)]
                      ELSE w : w \in wanted}
        /\ UNCHANGED <<nextCallbackId, adapter>>

\* update_gamepad of the script's object, and its poll.
AdapterUpdateGamepad(pad, connected, sticks) ==
    /\ adapter' = IF pad \in connected
                  THEN With(adapter, pad, DialUpdated(DialOf(adapter, pad), sticks))
                  ELSE Without(adapter, {pad})
    /\ UNCHANGED <<dialByGamepad, activeGamepads, subscriptions, subscriptionIds,
                   nextCallbackId, wanted, owed, told>>

\* update of the script's object: gamepads that are gone lose their dial.
AdapterUpdate(connected, all) ==
    /\ adapter' = [pad \in connected |-> DialUpdated(DialOf(adapter, pad), all[pad])]
    /\ UNCHANGED <<dialByGamepad, activeGamepads, subscriptions, subscriptionIds,
                   nextCallbackId, wanted, owed, told>>

AdapterPoll(pad) ==
    /\ pad \in DOMAIN adapter
    /\ adapter' = [adapter EXCEPT ![pad].pending = NoInput]
    /\ UNCHANGED <<dialByGamepad, activeGamepads, subscriptions, subscriptionIds,
                   nextCallbackId, wanted, owed, told>>

----------------------------------------------------------------------------
\* The two tables of subscriptions say the same, and every dial, of the
\* engine's object and the script's, is between gestures when its sticks rest.
DialTablesAgree ==
    /\ \A pad \in DOMAIN subscriptionIds :
          subscriptionIds[pad] = {id \in DOMAIN subscriptions : subscriptions[id] = pad}
    /\ \A id \in DOMAIN subscriptions : subscriptions[id] \in DOMAIN subscriptionIds
    /\ \A pad \in DOMAIN dialByGamepad : DialAtRest(dialByGamepad[pad])
    /\ \A pad \in DOMAIN adapter : DialAtRest(adapter[pad])

\* Whoever subscribed to a gamepad is called when a stick of it, pushed out
\* while it was active, comes back (tests/test_input_dial_type.cpp).
GestureIsTold == owed \subseteq told
=============================================================================
