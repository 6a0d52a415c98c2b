--------------------------- MODULE SubsystemsProofs ---------------------------
(***************************************************************************)
(* Proofs about Subsystems, for every scenario and every bound.            *)
(*                                                                         *)
(* Input: what scripts are told of keyboard, mouse, fingers, pens and      *)
(* gamepads.  What is kept of a control follows the device because the     *)
(* last event that tells of it tells what SDL knows of it, and what is not *)
(* told of it any more has been kept already.                              *)
(*                                                                         *)
(* Recording: the ring holds what was last heard of whole frames, in the   *)
(* order it was heard, with gaps only between frames.                      *)
(*                                                                         *)
(* Media: what may be left of what was decoded before a seek is counted by *)
(* where the thread is when the seek comes, and where it is when it obeys. *)
(***************************************************************************)
EXTENDS Subsystems, FiniteSetTheorems, SequenceTheorems, TLAPS

-----------------------------------------------------------------------------
(* The events there are, and what they say of a control.                   *)

PadEvents == {"pad-button", "pad-axis", "pad-added", "pad-removed"}
EventTypes == {"key", "mouse"} \cup TouchEvents \cup Proximities \cup PenEvents \cup PadEvents

Events == [type : EventTypes, id : Nat, down : SUBSET Controls, side : Sides \cup {"left"},
           position : Angles \cup {Rest}]

OfItsDevice(e) ==
    /\ e.type \in TouchEvents => e.id \in Fingers
    /\ e.type \in Proximities \cup PenEvents => e.id \in Pens
    /\ e.type \in PenEvents => e.down \subseteq {Tip(e.id), Barrel(e.id)}
    /\ e.type \in PadEvents => e.id \in Pads

\* That c is pressed, for a control the event tells of.
Says(e, c) ==
    \/ e.type \in {"mouse", "pad-button"} /\ e.down # {}
    \/ e.type \in TouchesDown
    \/ e.type = "pen-in" /\ c = InRange(e.id)
    \/ e.type \in PenEvents /\ (c = InRange(e.id) \/ c \in e.down)
    \/ e.type = "pad-added" /\ c = Pad(e.id)

\* What scripts see pressed.
Seen(c) == c \in DownNow \/ \E g \in gamepadStates : c = Pad(g)

Untold(q, c, i) == \A j \in DOMAIN q : j > i => c \notin ToldBy(q[j])

\* The last event that tells of a control tells how it is; and a control of
\* which nothing was swallowed is seen as it is when no event tells of it.
Follow ==
    /\ \A i \in DOMAIN events : \A c \in ToldBy(events[i]) :
          Untold(events, c, i) => (Says(events[i], c) <=> c \in device)
    /\ \A c \in Controls \ stale : Untold(events, c, 0) => (Seen(c) <=> c \in device)

-----------------------------------------------------------------------------
(* The devices, the queue, and what is kept.                               *)

DevicesThere ==
    /\ device \subseteq Controls \cup {Gone(g) : g \in Pads}
    /\ \A p \in Pens : Tip(p) \in device \/ Barrel(p) \in device => InRange(p) \in device
    /\ \A g \in Pads :
          /\ Button(g) \in device => Pad(g) \in device
          /\ Gone(g) \in device => Pad(g) \notin device

Queue ==
    /\ events \in Seq(Events)
    /\ \A i \in DOMAIN events : OfItsDevice(events[i])

\* A gamepad is added once and removed once, and its other events come between.
PadQueue ==
    /\ \A g \in gamepads : Pad(g) \in device \/ Gone(g) \in device
    /\ \A i \in DOMAIN events : LET e == events[i] IN
          /\ e.type \in {"pad-button", "pad-axis"} => e.id \in gamepads
          /\ e.type = "pad-added" => /\ e.id \notin gamepads
                                     /\ Pad(e.id) \in device \/ Gone(e.id) \in device
          /\ e.type = "pad-removed" => Gone(e.id) \in device
    /\ \A i, j \in DOMAIN events :
          i < j /\ events[i].id = events[j].id =>
              /\ events[i].type = "pad-removed" => events[j].type \notin PadEvents
              /\ events[i].type = "pad-added" => events[j].type # "pad-added"

Kept ==
    /\ now \subseteq Controls /\ was \subseteq Controls
    /\ Key \notin now
    /\ \A p \in Pens : Barrel(p) \in now => InRange(p) \in now
    /\ gamepads \subseteq Pads
    /\ \A g \in Pads : Pad(g) \notin now \cup was
    /\ \A g \in Pads \ gamepads : Button(g) \notin now \cup was

\* A gamepad of which nothing will be heard any more.
Over(g) ==
    /\ Gone(g) \in device /\ g \notin gamepads
    /\ \A i \in DOMAIN events : events[i].type \in PadEvents => events[i].id # g

Edges ==
    /\ frame \in {"top", "wait", "poll", "tick", "idle"} /\ woken \in BOOLEAN
    /\ frame \in {"top", "tick", "idle"} => events = <<>>
    /\ frame \in {"poll", "tick"} =>
          /\ \A c \in Controls \ {Key} :
                (c \in was <=> c \in shown) \/ \E g \in Pads : c = Button(g) /\ Over(g)
          /\ woken \/ (Key \in was <=> Key \in shown)
    /\ frame \in {"top", "wait", "idle"} =>
          /\ now = shown \ {Key}
          /\ events = <<>> => (Key \in device <=> Key \in shown)

Primary ==
    /\ primary = [finger |-> primary.finger, pen |-> primary.pen, pad |-> primary.pad]
    /\ DevicesAgree

Dials ==
    /\ nextCallbackId \in Nat \ {0}
    /\ DOMAIN subscriptions \subseteq 1..(nextCallbackId - 1)
    /\ DialTablesAgree
    /\ \A pad \in DOMAIN dialByGamepad : dialByGamepad[pad] = NewDial
    /\ adapter = [pad \in DOMAIN adapter |-> adapter[pad]]

IsStick(s) ==
    /\ s = [active |-> s.active, dialing |-> s.dialing, start |-> s.start,
            stack |-> s.stack, counts |-> s.counts]
    /\ s.active \in BOOLEAN
IsDial(d) ==
    /\ d = [left |-> d.left, right |-> d.right, pending |-> d.pending]
    /\ IsStick(d.left) /\ IsStick(d.right)

Adapters == \A pad \in DOMAIN adapter : IsDial(adapter[pad])

InputInv ==
    /\ DevicesThere /\ Queue /\ PadQueue /\ Kept /\ Follow /\ Edges
    /\ Primary /\ Dials /\ Adapters

-----------------------------------------------------------------------------
(* Controls of different kinds, or devices, are different.                 *)

KindsDiffer(m, n) ==
    /\ Finger(m) = Finger(n) => m = n
    /\ InRange(m) = InRange(n) => m = n
    /\ Tip(m) = Tip(n) => m = n
    /\ Barrel(m) = Barrel(n) => m = n
    /\ Pad(m) = Pad(n) => m = n
    /\ Gone(m) = Gone(n) => m = n
    /\ Button(m) = Button(n) => m = n
    /\ Key \notin {Mouse, Finger(m), InRange(m), Tip(m), Barrel(m), Pad(m), Gone(m), Button(m)}
    /\ Mouse \notin {Finger(m), InRange(m), Tip(m), Barrel(m), Pad(m), Gone(m), Button(m)}
    /\ Finger(m) \notin {InRange(n), Tip(n), Barrel(n), Pad(n), Gone(n), Button(n)}
    /\ InRange(m) \notin {Tip(n), Barrel(n), Pad(n), Gone(n), Button(n)}
    /\ Tip(m) \notin {Barrel(n), Pad(n), Gone(n), Button(n)}
    /\ Barrel(m) \notin {Pad(n), Gone(n), Button(n)}
    /\ Pad(m) \notin {Gone(n), Button(n)}
    /\ Gone(m) \notin {Button(n)}

LEMMA Different == \A m, n : KindsDiffer(m, n)
<1> SUFFICES ASSUME NEW m, NEW n PROVE KindsDiffer(m, n)
  OBVIOUS
<1>1. \A a, b, x, y : <<x, a>> = <<y, b>> => x = y /\ a = b
  OBVIOUS
<1> DEFINE Same(x, y) == \A a, b : <<x, a>> # <<y, b>>
<1>2. /\ Same("key", "mouse") /\ Same("key", "finger") /\ Same("key", "range")
      /\ Same("key", "tip") /\ Same("key", "barrel") /\ Same("key", "pad")
      /\ Same("key", "gone") /\ Same("key", "button")
  BY <1>1
<1>3. /\ Same("mouse", "finger") /\ Same("mouse", "range") /\ Same("mouse", "tip")
      /\ Same("mouse", "barrel") /\ Same("mouse", "pad") /\ Same("mouse", "gone")
      /\ Same("mouse", "button")
  BY <1>1
<1>4. /\ Same("finger", "range") /\ Same("finger", "tip") /\ Same("finger", "barrel")
      /\ Same("finger", "pad") /\ Same("finger", "gone") /\ Same("finger", "button")
  BY <1>1
<1>5. /\ Same("range", "tip") /\ Same("range", "barrel") /\ Same("range", "pad")
      /\ Same("range", "gone") /\ Same("range", "button")
  BY <1>1
<1>6. /\ Same("tip", "barrel") /\ Same("tip", "pad") /\ Same("tip", "gone")
      /\ Same("tip", "button")
      /\ Same("barrel", "pad") /\ Same("barrel", "gone") /\ Same("barrel", "button")
      /\ Same("pad", "gone") /\ Same("pad", "button") /\ Same("gone", "button")
  BY <1>1
<1>7. /\ Finger(m) = Finger(n) => m = n
      /\ InRange(m) = InRange(n) => m = n
      /\ Tip(m) = Tip(n) => m = n
      /\ Barrel(m) = Barrel(n) => m = n
      /\ Pad(m) = Pad(n) => m = n
      /\ Gone(m) = Gone(n) => m = n
      /\ Button(m) = Button(n) => m = n
  BY <1>1 DEF Finger, InRange, Tip, Barrel, Pad, Gone, Button
<1> QED
  BY <1>2, <1>3, <1>4, <1>5, <1>6, <1>7
     DEF KindsDiffer, Key, Mouse, Finger, InRange, Tip, Barrel, Pad, Gone, Button

-----------------------------------------------------------------------------
(* What is told by an event of each type.                                  *)

LEMMA TellsKey == ASSUME NEW e, e.type = "key" PROVE ToldBy(e) = {}
BY DEF ToldBy, ControlsOf, TouchEvents

LEMMA TellsMouse ==
    ASSUME NEW e, e.type = "mouse"
    PROVE  ToldBy(e) = {Mouse} /\ \A c : Says(e, c) <=> e.down # {}
BY DEF ToldBy, ControlsOf, Says, TouchesDown, TouchEvents, PenEvents

LEMMA TellsTouch ==
    ASSUME NEW e, e.type \in TouchEvents
    PROVE  ToldBy(e) = {Finger(e.id)} /\ \A c : Says(e, c) <=> e.type \in TouchesDown
BY DEF ToldBy, ControlsOf, Says, TouchEvents, TouchesDown, PenEvents

LEMMA TellsPenIn ==
    ASSUME NEW e, e.type = "pen-in"
    PROVE  ToldBy(e) = {InRange(e.id), Tip(e.id)} /\ \A c : Says(e, c) <=> c = InRange(e.id)
BY DEF ToldBy, ControlsOf, Says, TouchesDown, PenEvents

LEMMA TellsPenOut ==
    ASSUME NEW e, e.type = "pen-out"
    PROVE  ToldBy(e) = OfPen(e.id) /\ \A c : ~Says(e, c)
BY DEF ToldBy, ControlsOf, Says, TouchesDown, TouchEvents, PenEvents

LEMMA TellsPen ==
    ASSUME NEW e, e.type \in PenEvents
    PROVE  ToldBy(e) = OfPen(e.id) /\ \A c : Says(e, c) <=> c = InRange(e.id) \/ c \in e.down
BY DEF ToldBy, ControlsOf, Says, TouchesDown, TouchEvents, PenEvents

LEMMA TellsPadButton ==
    ASSUME NEW e, e.type = "pad-button"
    PROVE  ToldBy(e) = {Button(e.id)} /\ \A c : Says(e, c) <=> e.down # {}
BY DEF ToldBy, ControlsOf, Says, TouchesDown, TouchEvents, PenEvents

LEMMA TellsPadAxis == ASSUME NEW e, e.type = "pad-axis" PROVE ToldBy(e) = {}
BY DEF ToldBy, ControlsOf, TouchEvents

LEMMA TellsPadAdded ==
    ASSUME NEW e, e.type = "pad-added"
    PROVE  ToldBy(e) = OfPad(e.id) /\ \A c : Says(e, c) <=> c = Pad(e.id)
BY DEF ToldBy, ControlsOf, Says, TouchesDown, TouchEvents, PenEvents

LEMMA TellsPadRemoved ==
    ASSUME NEW e, e.type = "pad-removed"
    PROVE  ToldBy(e) = OfPad(e.id) /\ \A c : ~Says(e, c)
BY DEF ToldBy, ControlsOf, Says, TouchesDown, TouchEvents, PenEvents

\* What is swallowed with an event is at least what it would have told of.
LEMMA ToldIsSwallowed == \A e : ToldBy(e) \subseteq ControlsOf(e)
BY DEF ToldBy, ControlsOf, OfPen, TouchEvents

-----------------------------------------------------------------------------
(* An event that is queued, and one that is taken.                         *)

LEMMA Queued ==
    ASSUME NEW q, NEW e \in Events, q \in Seq(Events)
    PROVE  /\ Append(q, e) \in Seq(Events)
           /\ DOMAIN q = 1..Len(q) /\ DOMAIN Append(q, e) = 1..(Len(q) + 1)
           /\ \A i \in DOMAIN q : Append(q, e)[i] = q[i]
           /\ Append(q, e)[Len(q) + 1] = e
           /\ Len(q) \in Nat
OBVIOUS

LEMMA Taken ==
    ASSUME NEW q \in Seq(Events), q # <<>>
    PROVE  /\ Tail(q) \in Seq(Events) /\ Head(q) = q[1] /\ Head(q) \in Events
           /\ DOMAIN q = 1..Len(q) /\ DOMAIN Tail(q) = 1..(Len(q) - 1)
           /\ \A i \in DOMAIN Tail(q) : Tail(q)[i] = q[i + 1] /\ i + 1 \in DOMAIN q
           /\ 1 \in DOMAIN q /\ Len(q) \in Nat
OBVIOUS

LEMMA UntoldQueued ==
    ASSUME NEW q \in Seq(Events), NEW e \in Events, NEW c, NEW i \in 0..Len(q)
    PROVE  Untold(Append(q, e), c, i) <=> Untold(q, c, i) /\ c \notin ToldBy(e)
<1>1. ASSUME Untold(Append(q, e), c, i) PROVE Untold(q, c, i) /\ c \notin ToldBy(e)
  <2>1. c \notin ToldBy(e)  BY <1>1, Queued DEF Untold
  <2>2. \A j \in DOMAIN q : j \in DOMAIN Append(q, e)  BY Queued
  <2> QED  BY <1>1, <2>1, <2>2, Queued DEF Untold
<1>2. ASSUME Untold(q, c, i), c \notin ToldBy(e) PROVE Untold(Append(q, e), c, i)
  <2>1. \A j \in DOMAIN Append(q, e) : j \in DOMAIN q \/ j = Len(q) + 1  BY Queued
  <2> QED  BY <1>2, <2>1, Queued DEF Untold
<1> QED  BY <1>1, <1>2

LEMMA UntoldTaken ==
    ASSUME NEW q \in Seq(Events), q # <<>>, NEW c, NEW i \in Nat
    PROVE  Untold(Tail(q), c, i) <=> Untold(q, c, i + 1)
<1>1. ASSUME Untold(Tail(q), c, i) PROVE Untold(q, c, i + 1)
  <2> SUFFICES ASSUME NEW j \in DOMAIN q, j > i + 1 PROVE c \notin ToldBy(q[j])  BY DEF Untold
  <2>1. j - 1 \in DOMAIN Tail(q) /\ j - 1 > i /\ (j - 1) + 1 = j  BY Taken
  <2> QED  BY <1>1, <2>1, Taken DEF Untold
<1>2. ASSUME Untold(q, c, i + 1) PROVE Untold(Tail(q), c, i)
  <2> SUFFICES ASSUME NEW j \in DOMAIN Tail(q), j > i PROVE c \notin ToldBy(Tail(q)[j])
    BY DEF Untold
  <2>1. j + 1 \in DOMAIN q /\ j + 1 > i + 1 /\ Tail(q)[j] = q[j + 1]  BY Taken
  <2> QED  BY <1>2, <2>1 DEF Untold
<1> QED  BY <1>1, <1>2

\* Nothing after the first event, or the first itself.
LEMMA UntoldFirst ==
    ASSUME NEW q \in Seq(Events), q # <<>>, NEW c
    PROVE  Untold(q, c, 0) <=> Untold(q, c, 1) /\ c \notin ToldBy(Head(q))
<1>1. ASSUME Untold(q, c, 0) PROVE Untold(q, c, 1) /\ c \notin ToldBy(Head(q))
  BY <1>1, Taken DEF Untold
<1>2. ASSUME Untold(q, c, 1), c \notin ToldBy(Head(q)) PROVE Untold(q, c, 0)
  <2> SUFFICES ASSUME NEW j \in DOMAIN q, j > 0 PROVE c \notin ToldBy(q[j])  BY DEF Untold
  <2>1. j = 1 \/ j > 1  BY Taken
  <2> QED  BY <1>2, <2>1, Taken DEF Untold
<1> QED  BY <1>1, <1>2

\* Nothing is after the last.
LEMMA UntoldLast ==
    ASSUME NEW q \in Seq(Events), NEW c
    PROVE  Untold(q, c, Len(q))
<1>1. DOMAIN q = 1..Len(q) /\ Len(q) \in Nat
  OBVIOUS
<1> QED  BY <1>1 DEF Untold

\* Events tell of controls, and never of keys.
LEMMA ToldAreControls ==
    ASSUME NEW e \in Events, OfItsDevice(e), NEW c \in ToldBy(e)
    PROVE  c \in Controls /\ c # Key
<1> DEFINE n == e.id
<1>1. e.type \in EventTypes
  BY DEF Events
<1>2. ASSUME e.type \in {"key", "pad-axis"} PROVE FALSE
  BY <1>2, TellsKey, TellsPadAxis
<1>3. ASSUME e.type = "mouse" PROVE c \in Controls /\ c # Key
  BY <1>3, TellsMouse, Different DEF Controls, KindsDiffer
<1>4. ASSUME e.type \in TouchEvents PROVE c \in Controls /\ c # Key
  BY <1>4, TellsTouch, Different DEF Controls, KindsDiffer, OfItsDevice
<1>5. ASSUME e.type \in Proximities \cup PenEvents PROVE c \in Controls /\ c # Key
  <2>1. c \in OfPen(e.id) /\ e.id \in Pens
    BY <1>5, TellsPenIn, TellsPenOut, TellsPen DEF OfItsDevice, Proximities, OfPen
  <2>2. c # Key  BY <2>1, Different DEF OfPen, KindsDiffer
  <2> QED  BY <2>1, <2>2 DEF Controls
<1>6. ASSUME e.type \in PadEvents, e.type # "pad-axis" PROVE c \in Controls /\ c # Key
  <2>1. c \in OfPad(e.id) /\ e.id \in Pads
    BY <1>6, TellsPadButton, TellsPadAdded, TellsPadRemoved DEF OfItsDevice, PadEvents, OfPad
  <2>2. c # Key  BY <2>1, Different DEF OfPad, KindsDiffer
  <2>3. c \in UNION {OfPad(g) : g \in Pads}  BY <2>1
  <2> QED  BY <2>2, <2>3 DEF Controls
<1> QED
  BY <1>1, <1>2, <1>3, <1>4, <1>5, <1>6 DEF EventTypes

-----------------------------------------------------------------------------
(* SDL queues an event.                                                    *)

DevicesOf(d) ==
    /\ d \subseteq Controls \cup {Gone(g) : g \in Pads}
    /\ \A p \in Pens : Tip(p) \in d \/ Barrel(p) \in d => InRange(p) \in d
    /\ \A g \in Pads :
          /\ Button(g) \in d => Pad(g) \in d
          /\ Gone(g) \in d => Pad(g) \notin d

\* The event e is about what changes as the devices become d.
Reported(e, d) ==
    /\ e \in Events /\ OfItsDevice(e)
    /\ \A c \in ToldBy(e) : c \in Controls /\ c # Key /\ (Says(e, c) <=> c \in d)
    /\ \A c \in Controls \ (ToldBy(e) \cup {Key}) : c \in d <=> c \in device
    /\ \A g \in Pads :
          /\ Gone(g) \in device => Gone(g) \in d
          /\ Pad(g) \in device => Pad(g) \in d \/ Gone(g) \in d
    /\ e.type \in PadEvents => Gone(e.id) \notin device
    /\ e.type \in {"pad-button", "pad-axis"} => e.id \in gamepads
    /\ e.type = "pad-added" => Pad(e.id) \notin device /\ Pad(e.id) \in d
    /\ e.type = "pad-removed" => Gone(e.id) \in d

Happened ==
    \E e : /\ events' = Append(events, e)
           /\ Reported(e, device')
           /\ DevicesOf(device')

LEMMA KeyIsSeen ==
    ASSUME Kept PROVE Seen(Key) <=> Key \in device
BY Different DEF Kept, Seen, DownNow, KindsDiffer

LEMMA HappenedFollow ==
    ASSUME Queue, Kept, Follow, Happened,
           UNCHANGED <<stateVars, stale>>
    PROVE  Follow'
<1>1. PICK e : events' = Append(events, e) /\ Reported(e, device')
  BY DEF Happened
<1>2. e \in Events /\ events \in Seq(Events)
  BY <1>1 DEF Reported, Queue
<1>3. \A c \in Controls : c # Key => (Seen(c)' <=> Seen(c))
  BY DEF Seen, DownNow, stateVars
<1>4. Seen(Key)' <=> Key \in device'
  BY Different DEF Kept, Seen, DownNow, KindsDiffer, stateVars
<1>5. \A i \in DOMAIN events' : i \in DOMAIN events \/ i = Len(events) + 1
  BY <1>1, <1>2, Queued
<1>6. ASSUME NEW i \in DOMAIN events', NEW c \in ToldBy(events'[i]), Untold(events', c, i)
      PROVE  Says(events'[i], c) <=> c \in device'
  <2>1. CASE i = Len(events) + 1
    <3>1. events'[i] = e  BY <1>1, <1>2, <2>1, Queued
    <3> QED  BY <1>1, <1>6, <3>1 DEF Reported
  <2>2. CASE i \in DOMAIN events
    <3>1. events'[i] = events[i] /\ i \in 0..Len(events) /\ events[i] \in Events
      BY <1>1, <1>2, <2>2, Queued
    <3>2. Untold(events, c, i) /\ c \notin ToldBy(e)  BY <1>1, <1>2, <1>6, <3>1, UntoldQueued
    <3>3. c \in Controls /\ c # Key  BY <2>2, <1>6, <3>1, ToldAreControls DEF Queue
    <3> QED  BY <1>1, <1>6, <2>2, <3>1, <3>2, <3>3 DEF Reported, Follow
  <2> QED  BY <1>5, <2>1, <2>2
<1>7. ASSUME NEW c \in Controls \ stale, Untold(events', c, 0)
      PROVE  Seen(c)' <=> c \in device'
  <2>1. Untold(events, c, 0) /\ c \notin ToldBy(e)
    <3>1. 0 \in 0..Len(events)  BY <1>2, Queued
    <3> QED  BY <1>1, <1>2, <1>7, <3>1, UntoldQueued
  <2> QED  BY <1>1, <1>3, <1>4, <1>7, <2>1 DEF Reported, Follow
<1> QED
  <2>1. stale' = stale  OBVIOUS
  <2> QED  BY <1>6, <1>7, <2>1 DEF Follow

LEMMA HappenedQueue ==
    ASSUME Queue, Happened PROVE Queue' /\ DevicesThere'
<1>1. PICK e : events' = Append(events, e) /\ Reported(e, device') /\ DevicesOf(device')
  BY DEF Happened
<1>2. e \in Events /\ events \in Seq(Events) /\ OfItsDevice(e)
  BY <1>1 DEF Reported, Queue
<1>3. \A i \in DOMAIN events' : i \in DOMAIN events \/ i = Len(events) + 1
  BY <1>1, <1>2, Queued
<1>4. Queue'
  <2>1. events' \in Seq(Events)  BY <1>1, <1>2, Queued
  <2>2. ASSUME NEW i \in DOMAIN events' PROVE OfItsDevice(events'[i])
    BY <1>1, <1>2, <1>3, Queued DEF Queue
  <2> QED  BY <2>1, <2>2 DEF Queue
<1>5. DevicesThere'
  BY <1>1 DEF DevicesOf, DevicesThere
<1> QED  BY <1>4, <1>5

LEMMA HappenedPadQueue ==
    ASSUME Queue, PadQueue, Kept, Happened, UNCHANGED stateVars PROVE PadQueue'
<1>1. PICK e : events' = Append(events, e) /\ Reported(e, device') /\ DevicesOf(device')
  BY DEF Happened
<1>2. e \in Events /\ events \in Seq(Events) /\ OfItsDevice(e)
  BY <1>1 DEF Reported, Queue
<1>3. \A i \in DOMAIN events' : i \in DOMAIN events \/ i = Len(events) + 1
  BY <1>1, <1>2, Queued
<1>4. gamepads' = gamepads /\ gamepads \subseteq Pads
  BY DEF stateVars, Kept
<1>5. \A i \in DOMAIN events : events'[i] = events[i]
  BY <1>1, <1>2, Queued
<1>6. events'[Len(events) + 1] = e /\ Len(events) \in Nat /\ DOMAIN events = 1..Len(events)
  BY <1>1, <1>2, Queued
<1>7. \A g \in gamepads' : Pad(g) \in device' \/ Gone(g) \in device'
  BY <1>1, <1>4 DEF PadQueue, Reported
<1>8. \A i \in DOMAIN events : events[i].type \in PadEvents => events[i].id \in Pads
  BY DEF Queue, OfItsDevice
<1>9. /\ e.type \in {"pad-button", "pad-axis"} => e.id \in gamepads
      /\ e.type = "pad-added" =>
            e.id \notin gamepads /\ Pad(e.id) \notin device /\ Pad(e.id) \in device'
      /\ e.type = "pad-removed" => Gone(e.id) \in device'
      /\ e.type \in PadEvents => Gone(e.id) \notin device
  BY <1>1 DEF Reported, PadQueue, PadEvents
<1>10. ASSUME NEW i \in DOMAIN events'
       PROVE  /\ events'[i].type \in {"pad-button", "pad-axis"} => events'[i].id \in gamepads'
              /\ events'[i].type = "pad-added" =>
                    /\ events'[i].id \notin gamepads'
                    /\ Pad(events'[i].id) \in device' \/ Gone(events'[i].id) \in device'
              /\ events'[i].type = "pad-removed" => Gone(events'[i].id) \in device'
  <2>1. CASE i \in DOMAIN events  BY <1>1, <1>4, <1>5, <1>8, <2>1 DEF PadQueue, Reported, PadEvents
  <2>2. CASE i = Len(events) + 1  BY <1>4, <1>6, <1>9, <2>2
  <2> QED  BY <1>3, <2>1, <2>2
<1>11. ASSUME NEW i \in DOMAIN events', NEW j \in DOMAIN events', i < j,
              events'[i].id = events'[j].id
       PROVE  /\ events'[i].type = "pad-removed" => events'[j].type \notin PadEvents
              /\ events'[i].type = "pad-added" => events'[j].type # "pad-added"
  <2>1. CASE j \in DOMAIN events
    <3>1. i \in DOMAIN events  BY <1>3, <1>6, <1>11, <2>1
    <3> QED  BY <1>5, <1>11, <2>1, <3>1 DEF PadQueue
  <2>2. CASE j = Len(events) + 1
    <3>1. i \in DOMAIN events  BY <1>3, <1>6, <1>11, <2>2
    <3>2. events'[i] = events[i] /\ events'[j] = e  BY <1>5, <1>6, <2>2, <3>1
    <3>3. events[i].type = "pad-removed" => Gone(e.id) \in device  BY <1>11, <3>1, <3>2 DEF PadQueue
    <3>4. events[i].type = "pad-added" => Pad(e.id) \in device \/ Gone(e.id) \in device
      BY <1>11, <3>1, <3>2 DEF PadQueue
    <3> QED  BY <1>9, <3>2, <3>3, <3>4 DEF PadEvents
  <2> QED  BY <1>3, <2>1, <2>2
<1> QED
  BY <1>7, <1>10, <1>11 DEF PadQueue

LEMMA HappenedEdges ==
    ASSUME Queue, Kept, Edges, Happened, frame \in {"poll", "wait"},
           UNCHANGED <<stateVars, frame, woken, shown>>
    PROVE  Edges'
<1>1. PICK e : events' = Append(events, e) /\ Reported(e, device')
  BY DEF Happened
<1>2. e \in Events /\ events \in Seq(Events)
  BY <1>1 DEF Reported, Queue
<1>3. events' # <<>>
  BY <1>1, <1>2
<1>4. /\ now' = now /\ was' = was /\ gamepads' = gamepads
      /\ frame' = frame /\ woken' = woken /\ shown' = shown
  BY DEF stateVars
<1>5. \A i \in DOMAIN events' : (i \in DOMAIN events /\ events'[i] = events[i]) \/ events'[i] = e
  BY <1>1, <1>2, Queued
<1>6. ASSUME NEW g \in Pads, Over(g) PROVE Over(g)'
  <2>1. Gone(g) \in device /\ Gone(g) \in device'  BY <1>1, <1>6 DEF Over, Reported
  <2>2. e.type \in PadEvents => e.id # g  BY <1>1, <2>1 DEF Reported
  <2> QED  BY <1>4, <1>5, <1>6, <2>1, <2>2 DEF Over
<1> QED
  BY <1>3, <1>4, <1>6 DEF Edges

\* The events that are made.
LEMMA Made ==
    ASSUME NEW type \in EventTypes, NEW id \in Nat
    PROVE  /\ InputEvent(type, id) \in Events
           /\ InputEvent(type, id).type = type /\ InputEvent(type, id).id = id
BY DEF InputEvent, Events

LEMMA ControlsAre ==
    /\ Key \in Controls /\ Mouse \in Controls
    /\ \A f \in Fingers : Finger(f) \in Controls
    /\ \A p \in Pens : OfPen(p) \subseteq Controls
    /\ \A g \in Pads : OfPad(g) \subseteq Controls
    /\ \A g : Gone(g) \notin Controls
<1>1. \A g : Gone(g) \notin Controls
  BY Different DEF Controls, OfPen, OfPad, KindsDiffer
<1> QED  BY <1>1 DEF Controls

LEMMA KeyHappens ==
    ASSUME DevicesThere, Happens(Flipped(device, Key), InputEvent("key", 1))
    PROVE  Happened
<1> DEFINE e == InputEvent("key", 1)
           d == Flipped(device, Key)
<1>1. e \in Events /\ e.type = "key"
  BY Made DEF EventTypes
<1>2. ToldBy(e) = {}
  BY <1>1, TellsKey
<1>3. \A c : c # Key => (c \in d <=> c \in device)
  BY DEF Flipped
<1>4. d \subseteq device \cup {Key}
  BY DEF Flipped
<1>5. \A n : KindsDiffer(n, n)
  BY Different
<1> HIDE DEF e, d
<1>6. DevicesOf(d)
  BY <1>3, <1>4, <1>5, ControlsAre DEF DevicesOf, DevicesThere, KindsDiffer
<1>7. Reported(e, d)
  BY <1>1, <1>2, <1>3, <1>5
     DEF Reported, OfItsDevice, TouchEvents, Proximities, PenEvents, PadEvents, KindsDiffer
<1> QED  BY <1>6, <1>7 DEF Happens, Happened, e, d

LEMMA MouseHappens ==
    ASSUME DevicesThere,
           Happens(Flipped(device, Mouse),
                   [InputEvent("mouse", 1) EXCEPT !.down = {Mouse} \ device])
    PROVE  Happened
<1> DEFINE e == [InputEvent("mouse", 1) EXCEPT !.down = {Mouse} \ device]
           d == Flipped(device, Mouse)
<1>1. e \in Events /\ e.type = "mouse" /\ e.down = {Mouse} \ device
  <2>1. "mouse" \in EventTypes /\ {Mouse} \ device \in SUBSET Controls /\ 1 \in Nat
    BY ControlsAre DEF EventTypes
  <2> QED  BY <2>1 DEF InputEvent, Events
<1>2. ToldBy(e) = {Mouse} /\ \A c : Says(e, c) <=> e.down # {}
  BY <1>1, TellsMouse
<1>3. \A c : c # Mouse => (c \in d <=> c \in device)
  BY DEF Flipped
<1>4. d \subseteq device \cup {Mouse} /\ (Mouse \in d <=> e.down # {})
  BY <1>1 DEF Flipped
<1>5. \A n : KindsDiffer(n, n)
  BY Different
<1> HIDE DEF e, d
<1>6. DevicesOf(d)
  BY <1>3, <1>4, <1>5, ControlsAre DEF DevicesOf, DevicesThere, KindsDiffer
<1>7. Mouse \in Controls /\ Mouse # Key /\ \A g : Pad(g) # Mouse /\ Gone(g) # Mouse
  BY <1>5, ControlsAre DEF KindsDiffer
<1>8. Reported(e, d)
  BY <1>1, <1>2, <1>3, <1>4, <1>7
     DEF Reported, OfItsDevice, TouchEvents, Proximities, PenEvents, PadEvents
<1> QED  BY <1>6, <1>8 DEF Happens, Happened, e, d

LEMMA FingerHappens ==
    ASSUME DevicesThere, NEW f \in Fingers, NEW type \in TouchEvents, NEW d,
           d = IF type \in TouchesDown THEN device \cup {Finger(f)} ELSE device \ {Finger(f)},
           Happens(d, InputEvent(type, f))
    PROVE  Happened
<1> DEFINE e == InputEvent(type, f)
<1>1. f \in Nat
  BY InputBounds
<1>2. e \in Events /\ e.type = type /\ e.id = f
  BY <1>1, Made DEF EventTypes
<1>3. ToldBy(e) = {Finger(f)} /\ \A c : Says(e, c) <=> type \in TouchesDown
  BY <1>2, TellsTouch
<1>4. \A c : c # Finger(f) => (c \in d <=> c \in device)
  OBVIOUS
<1>5. d \subseteq device \cup {Finger(f)} /\ (Finger(f) \in d <=> type \in TouchesDown)
  OBVIOUS
<1>6. \A n : KindsDiffer(f, n) /\ KindsDiffer(n, n)
  BY Different
<1>7. /\ Finger(f) \in Controls /\ Finger(f) # Key
      /\ \A g : Pad(g) # Finger(f) /\ Gone(g) # Finger(f) /\ Button(g) # Finger(f)
      /\ \A p : InRange(p) # Finger(f) /\ Tip(p) # Finger(f) /\ Barrel(p) # Finger(f)
  BY <1>6, ControlsAre DEF KindsDiffer
<1> HIDE DEF e
<1>8. DevicesOf(d)
  BY <1>4, <1>5, <1>7 DEF DevicesOf, DevicesThere
<1>9. Reported(e, d)
  BY <1>2, <1>3, <1>4, <1>5, <1>7
     DEF Reported, OfItsDevice, TouchEvents, Proximities, PenEvents, PadEvents
<1> QED  BY <1>8, <1>9 DEF Happens, Happened, e

LEMMA PenReports ==
    ASSUME DevicesThere, NEW p \in Pens, NEW e \in Events, NEW d, e.id = p,
           e.type \in Proximities \cup PenEvents, OfItsDevice(e),
           d \subseteq device \cup OfPen(p),
           \A c : c \notin OfPen(p) => (c \in d <=> c \in device),
           Tip(p) \in d \/ Barrel(p) \in d => InRange(p) \in d,
           ToldBy(e) \subseteq OfPen(p),
           \A c \in ToldBy(e) : Says(e, c) <=> c \in d,
           \A c \in OfPen(p) \ ToldBy(e) : c \in d <=> c \in device
    PROVE  Reported(e, d) /\ DevicesOf(d)
<1>1. \A n : KindsDiffer(p, n) /\ KindsDiffer(n, p)
  BY Different
<1>2. OfPen(p) \subseteq Controls /\ Key \notin OfPen(p)
  BY <1>1, ControlsAre DEF OfPen, KindsDiffer
<1>3. \A g : Pad(g) \notin OfPen(p) /\ Gone(g) \notin OfPen(p) /\ Button(g) \notin OfPen(p)
  BY <1>1 DEF OfPen, KindsDiffer
<1>4. \A q : q # p => /\ InRange(q) \notin OfPen(p)
                      /\ Tip(q) \notin OfPen(p)
                      /\ Barrel(q) \notin OfPen(p)
  BY <1>1 DEF OfPen, KindsDiffer
<1>5. DevicesOf(d)
  BY <1>2, <1>3, <1>4 DEF DevicesOf, DevicesThere
<1>6. Reported(e, d)
  BY <1>2, <1>3 DEF Reported, Proximities, PenEvents, PadEvents
<1> QED  BY <1>5, <1>6

\* A pen that moves, touches or is held otherwise tells of all there is.
LEMMA PenMoves ==
    ASSUME DevicesThere, NEW p \in Pens, NEW type \in PenEvents, NEW d,
           InRange(p) \in d, d \subseteq device \cup OfPen(p),
           \A c : c \notin {Tip(p), Barrel(p)} => (c \in d <=> c \in device)
    PROVE  Reported(PenEvent(type, p, d), d) /\ DevicesOf(d)
<1> DEFINE e == PenEvent(type, p, d)
<1>1. p \in Nat /\ {Tip(p), Barrel(p)} \subseteq Controls
  BY InputBounds, ControlsAre DEF OfPen
<1>2. e \in Events /\ e.type = type /\ e.id = p /\ e.down = d \cap {Tip(p), Barrel(p)}
  BY <1>1 DEF PenEvent, InputEvent, Events, EventTypes
<1> HIDE DEF e
<1>3. ToldBy(e) = OfPen(p) /\ \A c : Says(e, c) <=> c = InRange(p) \/ c \in e.down
  BY <1>2, TellsPen
<1>4. OfItsDevice(e)
  BY <1>2 DEF OfItsDevice, PenEvents, TouchEvents, PadEvents
<1>5. \A c \in OfPen(p) : Says(e, c) <=> c \in d
  BY <1>2, <1>3 DEF OfPen
<1> QED
  <2>1. Reported(e, d) /\ DevicesOf(d)  BY <1>2, <1>3, <1>4, <1>5, PenReports DEF OfPen
  <2> QED  BY <2>1 DEF e

LEMMA PenHappened ==
    ASSUME DevicesThere, NEW p \in Pens, PenHappens(p)
    PROVE  Happened
<1>1. p \in Nat
  BY InputBounds
<1>2. KindsDiffer(p, p)
  BY Different
<1>3. CASE InRange(p) \notin device /\ Happens(device \cup {InRange(p)}, InputEvent("pen-in", p))
  <2> DEFINE e == InputEvent("pen-in", p)
             d == device \cup {InRange(p)}
  <2>1. e \in Events /\ e.type = "pen-in" /\ e.id = p  BY <1>1, Made DEF EventTypes, Proximities
  <2>2. ToldBy(e) = {InRange(p), Tip(p)} /\ \A c : Says(e, c) <=> c = InRange(p)
    BY <2>1, TellsPenIn
  <2>3. Tip(p) \notin device /\ Barrel(p) \notin device  BY <1>3 DEF DevicesThere
  <2>4. OfItsDevice(e) /\ e.type \in Proximities
    BY <2>1 DEF OfItsDevice, Proximities, PenEvents, TouchEvents, PadEvents
  <2>5. \A c : c # InRange(p) => (c \in d <=> c \in device)  OBVIOUS
  <2>6. InRange(p) \in d /\ Tip(p) \notin d /\ d \subseteq device \cup OfPen(p)
    BY <1>2, <2>3 DEF OfPen, KindsDiffer
  <2> HIDE DEF e, d
  <2>7. ToldBy(e) \subseteq OfPen(p) /\ \A c \in ToldBy(e) : Says(e, c) <=> c \in d
    BY <1>2, <2>2, <2>6 DEF OfPen, KindsDiffer
  <2>8. \A c : c \notin OfPen(p) => (c \in d <=> c \in device)  BY <2>5 DEF OfPen
  <2>9. \A c \in OfPen(p) \ ToldBy(e) : c \in d <=> c \in device  BY <2>2, <2>5
  <2>10. Reported(e, d) /\ DevicesOf(d)  BY <2>1, <2>4, <2>6, <2>7, <2>8, <2>9, PenReports
  <2> QED  BY <1>3, <2>10 DEF Happens, Happened, e, d
<1>4. CASE Happens(device \ OfPen(p), InputEvent("pen-out", p))
  <2> DEFINE e == InputEvent("pen-out", p)
             d == device \ OfPen(p)
  <2>1. e \in Events /\ e.type = "pen-out" /\ e.id = p  BY <1>1, Made DEF EventTypes, Proximities
  <2>2. ToldBy(e) = OfPen(p) /\ \A c : ~Says(e, c)  BY <2>1, TellsPenOut
  <2>4. OfItsDevice(e) /\ e.type \in Proximities
    BY <2>1 DEF OfItsDevice, Proximities, PenEvents, TouchEvents, PadEvents
  <2>5. \A c : c \in d <=> c \in device /\ c \notin OfPen(p)  OBVIOUS
  <2> HIDE DEF e, d
  <2>6. d \subseteq device \cup OfPen(p) /\ Tip(p) \notin d /\ Barrel(p) \notin d  BY <2>5 DEF OfPen
  <2>10. Reported(e, d) /\ DevicesOf(d)  BY <2>1, <2>2, <2>4, <2>5, <2>6, PenReports
  <2> QED  BY <1>4, <2>10 DEF Happens, Happened, e, d
<1>5. ASSUME NEW type \in PenEvents, NEW d, Happens(d, PenEvent(type, p, d)), InRange(p) \in device,
             d \in {device, Flipped(device, Tip(p)), Flipped(device, Barrel(p))}
      PROVE  Happened
  <2>1. /\ InRange(p) \in d /\ d \subseteq device \cup OfPen(p)
        /\ \A c : c \notin {Tip(p), Barrel(p)} => (c \in d <=> c \in device)
    BY <1>2, <1>5 DEF Flipped, OfPen, KindsDiffer
  <2>2. Reported(PenEvent(type, p, d), d) /\ DevicesOf(d)  BY <2>1, PenMoves
  <2> QED  BY <1>5, <2>2 DEF Happens, Happened
<1>6. {"pen-motion", "pen-down", "pen-up", "pen-button"} \subseteq PenEvents
  BY DEF PenEvents
<1>7. CASE InRange(p) \in device /\ Happens(device, PenEvent("pen-motion", p, device))
  BY <1>5, <1>6, <1>7
<1>8. CASE /\ InRange(p) \in device
           /\ LET after == Flipped(device, Tip(p))
              IN  Happens(after, PenEvent(IF Tip(p) \in after THEN "pen-down" ELSE "pen-up",
                                          p, after))
  <2>1. (IF Tip(p) \in Flipped(device, Tip(p)) THEN "pen-down" ELSE "pen-up") \in PenEvents  BY <1>6
  <2> QED  BY <1>5, <1>8, <2>1
<1>9. CASE /\ InRange(p) \in device
           /\ LET after == Flipped(device, Barrel(p))
              IN  Happens(after, PenEvent("pen-button", p, after))
  BY <1>5, <1>6, <1>9
<1> QED
  BY <1>3, <1>4, <1>7, <1>8, <1>9 DEF PenHappens

LEMMA PadReports ==
    ASSUME DevicesThere, NEW g \in Pads, NEW e \in Events, NEW d, e.id = g,
           e.type \in PadEvents, Gone(g) \notin device,
           d \subseteq device \cup OfPad(g) \cup {Gone(g)},
           \A c : c \notin OfPad(g) \cup {Gone(g)} => (c \in d <=> c \in device),
           Button(g) \in d => Pad(g) \in d,
           Gone(g) \in d => Pad(g) \notin d,
           Pad(g) \in device => Pad(g) \in d \/ Gone(g) \in d,
           ToldBy(e) \subseteq OfPad(g),
           \A c \in ToldBy(e) : Says(e, c) <=> c \in d,
           \A c \in OfPad(g) \ ToldBy(e) : c \in d <=> c \in device,
           e.type \in {"pad-button", "pad-axis"} => e.id \in gamepads,
           e.type = "pad-added" => Pad(g) \notin device /\ Pad(g) \in d,
           e.type = "pad-removed" => Gone(g) \in d
    PROVE  Reported(e, d) /\ DevicesOf(d)
<1> DEFINE Its == OfPad(g) \cup {Gone(g)}
<1>1. \A n : KindsDiffer(g, n) /\ KindsDiffer(n, g)
  BY Different
<1>2. OfPad(g) \subseteq Controls /\ Key \notin OfPad(g)
  BY <1>1, ControlsAre DEF OfPad, KindsDiffer
<1>3. \A p : InRange(p) \notin Its /\ Tip(p) \notin Its /\ Barrel(p) \notin Its
  BY <1>1 DEF OfPad, KindsDiffer
<1>4. \A h : h # g => Pad(h) \notin Its /\ Gone(h) \notin Its /\ Button(h) \notin Its
  BY <1>1 DEF OfPad, KindsDiffer
<1>5. Gone(g) \notin Controls
  BY ControlsAre
<1>6. DevicesOf(d)
  <2>1. d \subseteq Controls \cup {Gone(h) : h \in Pads}  BY <1>2 DEF DevicesThere
  <2>2. \A p \in Pens : Tip(p) \in d \/ Barrel(p) \in d => InRange(p) \in d
    BY <1>3 DEF DevicesThere
  <2>3. ASSUME NEW h \in Pads
        PROVE  (Button(h) \in d => Pad(h) \in d) /\ (Gone(h) \in d => Pad(h) \notin d)
    BY <1>4 DEF DevicesThere
  <2> QED  BY <2>1, <2>2, <2>3 DEF DevicesOf
<1>7. OfItsDevice(e)
  BY DEF OfItsDevice, TouchEvents, Proximities, PenEvents, PadEvents
<1>8. \A c \in ToldBy(e) : c \in Controls /\ c # Key
  BY <1>2
<1>9. \A c \in Controls \ (ToldBy(e) \cup {Key}) : c \in d <=> c \in device
  BY <1>5
<1>10. ASSUME NEW h \in Pads
       PROVE  /\ Gone(h) \in device => Gone(h) \in d
              /\ Pad(h) \in device => Pad(h) \in d \/ Gone(h) \in d
  BY <1>4
<1> QED
  BY <1>6, <1>7, <1>8, <1>9, <1>10 DEF Reported

LEMMA PadHappened ==
    ASSUME DevicesThere, NEW g \in Pads, PadHappens(g)
    PROVE  Happened
<1>1. g \in Nat
  BY InputBounds
<1>2. KindsDiffer(g, g)
  BY Different
<1>3. CASE /\ Pad(g) \notin device /\ Gone(g) \notin device
           /\ Happens(device \cup {Pad(g)}, InputEvent("pad-added", g))
  <2> DEFINE e == InputEvent("pad-added", g)
             d == device \cup {Pad(g)}
  <2>1. e \in Events /\ e.type = "pad-added" /\ e.id = g  BY <1>1, Made DEF EventTypes, PadEvents
  <2>2. ToldBy(e) = OfPad(g) /\ \A c : Says(e, c) <=> c = Pad(g)  BY <2>1, TellsPadAdded
  <2>3. \A c : c \in d <=> c \in device \/ c = Pad(g)  OBVIOUS
  <2> HIDE DEF e, d
  <2>4. Button(g) \notin device  BY <1>3 DEF DevicesThere
  <2>5. Reported(e, d) /\ DevicesOf(d)
    BY <1>2, <1>3, <2>1, <2>2, <2>3, <2>4, PadReports DEF OfPad, PadEvents, KindsDiffer
  <2> QED  BY <1>3, <2>5 DEF Happens, Happened, e, d
<1>4. CASE /\ Pad(g) \in device
           /\ Happens((device \ OfPad(g)) \cup {Gone(g)}, InputEvent("pad-removed", g))
  <2> DEFINE e == InputEvent("pad-removed", g)
             d == (device \ OfPad(g)) \cup {Gone(g)}
  <2>1. e \in Events /\ e.type = "pad-removed" /\ e.id = g  BY <1>1, Made DEF EventTypes, PadEvents
  <2>2. ToldBy(e) = OfPad(g) /\ \A c : ~Says(e, c)  BY <2>1, TellsPadRemoved
  <2>3. \A c : c \in d <=> (c \in device /\ c \notin OfPad(g)) \/ c = Gone(g)  OBVIOUS
  <2> HIDE DEF e, d
  <2>4. Gone(g) \notin device /\ Gone(g) \notin OfPad(g)
    BY <1>2, <1>4 DEF DevicesThere, OfPad, KindsDiffer
  <2>5. Pad(g) \notin d /\ Button(g) \notin d /\ \A c \in OfPad(g) : c \notin d
    BY <2>3, <2>4 DEF OfPad
  <2>6. d \subseteq device \cup OfPad(g) \cup {Gone(g)} /\ Gone(g) \in d  BY <2>3
  <2>7. Reported(e, d) /\ DevicesOf(d)
    BY <2>1, <2>2, <2>3, <2>4, <2>5, <2>6, PadReports DEF PadEvents
  <2> QED  BY <1>4, <2>7 DEF Happens, Happened, e, d
<1>5. CASE /\ Pad(g) \in device /\ g \in gamepads
           /\ LET after == Flipped(device, Button(g))
              IN  Happens(after, [InputEvent("pad-button", g) EXCEPT !.down = after \cap {Button(g)}])
  <2> DEFINE d == Flipped(device, Button(g))
             e == [InputEvent("pad-button", g) EXCEPT !.down = d \cap {Button(g)}]
  <2>1. d \cap {Button(g)} \in SUBSET Controls  BY ControlsAre DEF OfPad
  <2>2. e \in Events /\ e.type = "pad-button" /\ e.id = g /\ e.down = d \cap {Button(g)}
    BY <1>1, <2>1 DEF InputEvent, Events, EventTypes, PadEvents
  <2>3. ToldBy(e) = {Button(g)} /\ \A c : Says(e, c) <=> e.down # {}  BY <2>2, TellsPadButton
  <2>4. Gone(g) \notin device  BY <1>5 DEF DevicesThere
  <2>5. \A c : c # Button(g) => (c \in d <=> c \in device)  BY DEF Flipped
  <2>6. d \subseteq device \cup {Button(g)}  BY DEF Flipped
  <2>7. Happens(d, e)  BY <1>5
  <2> HIDE DEF e, d
  <2>8. Pad(g) \in d /\ Gone(g) \notin d  BY <1>2, <1>5, <2>4, <2>5 DEF KindsDiffer
  <2>9. \A c \in ToldBy(e) : Says(e, c) <=> c \in d  BY <2>2, <2>3
  <2>10. \A c \in OfPad(g) \ ToldBy(e) : c \in d <=> c \in device  BY <2>3, <2>5
  <2>11. Reported(e, d) /\ DevicesOf(d)
    BY <1>5, <2>2, <2>3, <2>4, <2>5, <2>6, <2>8, <2>9, <2>10, PadReports DEF OfPad, PadEvents
  <2> QED  BY <2>7, <2>11 DEF Happens, Happened
<1> QED
  BY <1>3, <1>4, <1>5 DEF PadHappens

LEMMA StickHappened ==
    ASSUME DevicesThere, NEW g \in Pads, NEW s \in Sides, NEW a \in Angles \cup {Rest},
           StickHappens(g, s, a)
    PROVE  Happened
<1> DEFINE e == [InputEvent("pad-axis", g) EXCEPT !.side = s, !.position = a]
<1>1. g \in Nat
  BY InputBounds
<1>2. e \in Events /\ e.type = "pad-axis" /\ e.id = g
  BY <1>1 DEF InputEvent, Events, EventTypes, PadEvents
<1>3. ToldBy(e) = {}
  BY <1>2, TellsPadAxis
<1>4. Pad(g) \in device /\ g \in gamepads /\ device' = device /\ events' = Append(events, e)
  BY DEF StickHappens
<1> HIDE DEF e
<1>5. Gone(g) \notin device
  BY <1>4 DEF DevicesThere
<1>6. Reported(e, device) /\ DevicesOf(device)
  BY <1>2, <1>3, <1>4, <1>5, PadReports DEF PadEvents
<1> QED  BY <1>4, <1>6 DEF Happened

LEMMA PumpHappened ==
    ASSUME DevicesThere, Pump
    PROVE  Happened
<1>1. ASSUME NEW f \in Fingers,
             IF Finger(f) \notin device
             THEN Happens(device \cup {Finger(f)}, InputEvent("touch-down", f))
             ELSE \/ Happens(device, InputEvent("touch-motion", f))
                  \/ \E type \in {"touch-up", "touch-canceled"} :
                        Happens(device \ {Finger(f)}, InputEvent(type, f))
      PROVE  Happened
  <2>1. CASE /\ Finger(f) \notin device
             /\ Happens(device \cup {Finger(f)}, InputEvent("touch-down", f))
    BY <2>1, FingerHappens DEF TouchEvents, TouchesDown
  <2>2. CASE Finger(f) \in device /\ Happens(device, InputEvent("touch-motion", f))
    <3>1. device = device \cup {Finger(f)}  BY <2>2
    <3> QED  BY <2>2, <3>1, FingerHappens DEF TouchEvents, TouchesDown
  <2>3. ASSUME NEW type \in {"touch-up", "touch-canceled"},
               Happens(device \ {Finger(f)}, InputEvent(type, f))
        PROVE  Happened
    <3>1. type \in TouchEvents /\ type \notin TouchesDown  BY DEF TouchEvents, TouchesDown
    <3> QED  BY <2>3, <3>1, FingerHappens
  <2> QED  BY <1>1, <2>1, <2>2, <2>3
<1> QED
  BY <1>1, KeyHappens, MouseHappens, PenHappened, PadHappened, StickHappened DEF Pump

\* What depends on what is kept alone stays when that stays.
KeptInv == Kept /\ Primary /\ Dials /\ Adapters

LEMMA KeptStays ==
    ASSUME KeptInv, UNCHANGED stateVars, UNCHANGED dialVars
    PROVE  KeptInv'
<1>1. Kept'
  BY DEF KeptInv, Kept, stateVars
<1>2. Primary'
  BY DEF KeptInv, Primary, DevicesAgree, stateVars, dialVars, Primaries, FingersIn, PensIn
<1>3. Dials' /\ Adapters'
  BY DEF KeptInv, Dials, DialTablesAgree, Adapters, dialVars
<1> QED  BY <1>1, <1>2, <1>3 DEF KeptInv

LEMMA PumpKeepsInv ==
    ASSUME InputInv, Pump
    PROVE  InputInv'
<1>1. Happened
  BY PumpHappened DEF InputInv
<1>2. /\ frame \in {"poll", "wait"} /\ UNCHANGED stateVars /\ UNCHANGED dialVars
      /\ UNCHANGED <<stale, frame, woken, shown>>
  BY DEF Pump
<1>3. Queue' /\ DevicesThere'
  BY <1>1, HappenedQueue DEF InputInv
<1>4. PadQueue'
  BY <1>1, <1>2, HappenedPadQueue DEF InputInv
<1>5. Follow'
  BY <1>1, <1>2, HappenedFollow DEF InputInv
<1>6. Edges'
  BY <1>1, <1>2, HappenedEdges DEF InputInv
<1>7. KeptInv'
  BY <1>2, KeptStays DEF InputInv, KeptInv
<1> QED  BY <1>3, <1>4, <1>5, <1>6, <1>7 DEF InputInv, KeptInv

-----------------------------------------------------------------------------
(* The primary devices.                                                    *)

\* A device is primary when there is any, and none is when there is none.
Chosen(x, present) == x \in present \/ (present = {} /\ x = 0)

LEMMA PrimariesAreChosen ==
    ASSUME NEW current, NEW preferred, NEW present, NEW x \in Primaries(current, preferred, present)
    PROVE  Chosen(x, present)
BY DEF Primaries, Chosen

LEMMA ChosenIsPrimary ==
    ASSUME NEW x, NEW present, 0 \notin present
    PROVE  x \in Primaries(x, 0, present) <=> Chosen(x, present)
BY DEF Primaries, Chosen

LEMMA PrimaryIs ==
    ASSUME Kept
    PROVE  Primary <=>
             /\ primary = [finger |-> primary.finger, pen |-> primary.pen, pad |-> primary.pad]
             /\ Chosen(primary.finger, FingersIn(now))
             /\ Chosen(primary.pen, PensIn(now))
             /\ Chosen(primary.pad, gamepadStates)
             /\ gamepads = gamepadStates
             /\ FingersIn(now \cup was) \subseteq touchPoints
             /\ PensIn(now \cup was) \subseteq penStates
             /\ DOMAIN dialByGamepad \subseteq gamepadStates
<1>1. 0 \notin FingersIn(now) /\ 0 \notin PensIn(now)
  BY InputBounds DEF FingersIn, PensIn
<1>2. gamepads = gamepadStates => 0 \notin gamepadStates
  BY InputBounds DEF Kept
<1> QED
  BY <1>1, <1>2, ChosenIsPrimary DEF Primary, DevicesAgree

LEMMA PrimaryPrime ==
    ASSUME Kept'
    PROVE  Primary' <=>
             /\ primary' = [finger |-> primary'.finger, pen |-> primary'.pen, pad |-> primary'.pad]
             /\ Chosen(primary'.finger, FingersIn(now'))
             /\ Chosen(primary'.pen, PensIn(now'))
             /\ Chosen(primary'.pad, gamepadStates')
             /\ gamepads' = gamepadStates'
             /\ FingersIn(now' \cup was') \subseteq touchPoints'
             /\ PensIn(now' \cup was') \subseteq penStates'
             /\ DOMAIN dialByGamepad' \subseteq gamepadStates'
<1>1. 0 \notin FingersIn(now') /\ 0 \notin PensIn(now')
  BY InputBounds DEF FingersIn, PensIn
<1>2. gamepads' = gamepadStates' => 0 \notin gamepadStates'
  BY InputBounds DEF Kept
<1> QED
  BY <1>1, <1>2, ChosenIsPrimary DEF Primary, DevicesAgree

-----------------------------------------------------------------------------
(* The loop.                                                               *)

\* A pen that is forgotten was kept as pressed nowhere.
LEMMA BeginIs ==
    ASSUME Kept, BeginFrame
    PROVE  /\ now' = IF paused THEN now ELSE Put(now, Mouse, Mouse \in device)
           /\ was' = Put(now, Key, Key \in device)
           /\ \E f \in Primaries(primary.finger, 0, FingersIn(now)),
                 p \in Primaries(primary.pen, 0, PensIn(now)) :
                   primary' = [primary EXCEPT !.finger = f, !.pen = p]
           /\ FingersIn(now \cup was) \cap touchPoints \subseteq touchPoints'
           /\ PensIn(now \cup was) \cap penStates \subseteq penStates'
           /\ stale' = IF paused THEN stale ELSE stale \ {Mouse}
           /\ UNCHANGED <<axes, gamepadStates, gamepads>>
<1> DEFINE gone == {p \in penStates : {InRange(p), Tip(p)} \cap (now \cup was) = {}}
           kept == now \ UNION {OfPen(p) : p \in gone}
           forgotten == {f \in touchPoints : Finger(f) \notin now \cup was}
<1>1. kept = now
  <2> SUFFICES ASSUME NEW c \in now, NEW p \in gone, c \in OfPen(p) PROVE FALSE  OBVIOUS
  <2>1. c = Barrel(p)  BY DEF OfPen
  <2>2. c \in Controls  BY DEF Kept
  <2>3. p \in Pens
    <3>1. \A n : KindsDiffer(p, n) /\ KindsDiffer(n, p)  BY Different
    <3>2. c \notin {Key, Mouse} /\ c \notin {Finger(f) : f \in Fingers}
      BY <2>1, <3>1 DEF KindsDiffer
    <3>3. c \notin UNION {OfPad(g) : g \in Pads}  BY <2>1, <3>1 DEF KindsDiffer, OfPad
    <3>4. PICK q \in Pens : c \in OfPen(q)  BY <2>2, <3>2, <3>3 DEF Controls
    <3>5. q = p  BY <2>1, <3>1, <3>4 DEF OfPen, KindsDiffer
    <3> QED  BY <3>4, <3>5
  <2> QED  BY <2>1, <2>3 DEF Kept
<1>2. was' = Previous(kept, IF paused THEN kept ELSE Put(kept, Mouse, Mouse \in device))
  BY DEF BeginFrame
<1>3. was' = Put(now, Key, Key \in device)
  BY <1>1, <1>2 DEF Previous
<1>4. now' = IF paused THEN kept ELSE Put(kept, Mouse, Mouse \in device)
  BY DEF BeginFrame
<1>5. touchPoints' = touchPoints \ forgotten /\ penStates' = penStates \ gone
  BY DEF BeginFrame
<1>6. \E f \in Primaries(primary.finger, 0, FingersIn(kept)),
         p \in Primaries(primary.pen, 0, PensIn(kept)) :
           primary' = [primary EXCEPT !.finger = f, !.pen = p]
  BY DEF BeginFrame
<1>7. FingersIn(now \cup was) \cap touchPoints \subseteq touchPoints'
  BY <1>5 DEF FingersIn
<1>8. PensIn(now \cup was) \cap penStates \subseteq penStates'
  BY <1>5 DEF PensIn
<1>9. stale' = (IF paused THEN stale ELSE stale \ {Mouse}) /\ UNCHANGED <<axes, gamepadStates, gamepads>>
  BY DEF BeginFrame
<1> QED
  BY <1>1, <1>3, <1>4, <1>6, <1>7, <1>8, <1>9

LEMMA PutIs == \A set, c, on, d : d \in Put(set, c, on) <=> IF d = c THEN on ELSE d \in set
BY DEF Put

LEMMA BeginKeeps ==
    ASSUME InputInv, BeginFrame, UNCHANGED dialVars, UNCHANGED <<device, events>>
    PROVE  Kept' /\ Primary' /\ Follow'
<1>1. Kept /\ Primary /\ Follow
  BY DEF InputInv
<1>2. /\ \A c : c # Mouse => (c \in now' <=> c \in now)
      /\ Mouse \in now' => Mouse \in now \cup {Mouse}
      /\ now' \subseteq now \cup {Mouse}
      /\ \A c : c \in was' <=> IF c = Key THEN Key \in device ELSE c \in now
      /\ gamepadStates' = gamepadStates /\ gamepads' = gamepads
  BY <1>1, BeginIs, PutIs
<1>3. \A n : KindsDiffer(n, n)
  BY Different
<1>4. \A p : InRange(p) # Mouse /\ Barrel(p) # Mouse /\ InRange(p) # Key
  BY <1>3 DEF KindsDiffer
<1>5. \A g : Pad(g) \notin {Key, Mouse} /\ Button(g) \notin {Key, Mouse}
  BY <1>3 DEF KindsDiffer
<1>6. \A f : Finger(f) \notin {Key, Mouse}
  BY <1>3 DEF KindsDiffer
<1>7. Key # Mouse
  BY <1>3 DEF KindsDiffer
<1>8. Kept'
  <2>1. now' \subseteq Controls /\ was' \subseteq Controls  BY <1>1, <1>2, ControlsAre DEF Kept
  <2>2. Key \notin now'  BY <1>1, <1>2, <1>7 DEF Kept
  <2>3. \A p \in Pens : Barrel(p) \in now' => InRange(p) \in now'  BY <1>1, <1>2, <1>4 DEF Kept
  <2>4. \A g \in Pads : Pad(g) \notin now' \cup was'  BY <1>1, <1>2, <1>5 DEF Kept
  <2>5. \A g \in Pads \ gamepads' : Button(g) \notin now' \cup was'  BY <1>1, <1>2, <1>5 DEF Kept
  <2> QED  BY <1>1, <1>2, <2>1, <2>2, <2>3, <2>4, <2>5 DEF Kept
<1>9. Primary'
  <2>1. FingersIn(now') = FingersIn(now) /\ PensIn(now') = PensIn(now)
    BY <1>2, <1>4, <1>6 DEF FingersIn, PensIn
  <2>2. FingersIn(now' \cup was') \subseteq FingersIn(now \cup was)  BY <1>2, <1>6 DEF FingersIn
  <2>3. PensIn(now' \cup was') \subseteq PensIn(now \cup was)  BY <1>2, <1>4 DEF PensIn
  <2>4. PICK f \in Primaries(primary.finger, 0, FingersIn(now)),
             p \in Primaries(primary.pen, 0, PensIn(now)) :
               primary' = [primary EXCEPT !.finger = f, !.pen = p]
    BY <1>1, BeginIs
  <2>5. Chosen(f, FingersIn(now)) /\ Chosen(p, PensIn(now))  BY PrimariesAreChosen
  <2>6. /\ primary = [finger |-> primary.finger, pen |-> primary.pen, pad |-> primary.pad]
        /\ Chosen(primary.pad, gamepadStates) /\ gamepads = gamepadStates
        /\ FingersIn(now \cup was) \subseteq touchPoints
        /\ PensIn(now \cup was) \subseteq penStates
        /\ DOMAIN dialByGamepad \subseteq gamepadStates
    BY <1>1, PrimaryIs
  <2>7. primary' = [finger |-> f, pen |-> p, pad |-> primary.pad]  BY <2>4, <2>6
  <2>8. FingersIn(now' \cup was') \subseteq touchPoints' /\ PensIn(now' \cup was') \subseteq penStates'
    BY <1>1, <2>2, <2>3, <2>6, BeginIs
  <2>9. dialByGamepad' = dialByGamepad  BY DEF dialVars
  <2>10. /\ Chosen(primary'.finger, FingersIn(now')) /\ Chosen(primary'.pen, PensIn(now'))
         /\ Chosen(primary'.pad, gamepadStates')
         /\ primary' = [finger |-> primary'.finger, pen |-> primary'.pen, pad |-> primary'.pad]
    BY <1>2, <2>1, <2>5, <2>6, <2>7
  <2> QED  BY <1>2, <1>8, <2>6, <2>8, <2>9, <2>10, PrimaryPrime
<1>10. Follow'
  <2>1. \A c : c # Mouse => (Seen(c)' <=> Seen(c))  BY <1>2 DEF Seen, DownNow
  <2>2. ~paused => (Mouse \in now' <=> Mouse \in device)
    <3>1. ~paused => now' = Put(now, Mouse, Mouse \in device)  BY <1>1, BeginIs
    <3> QED  BY <3>1 DEF Put
  <2>3. ~paused => (Seen(Mouse)' <=> Mouse \in device)  BY <1>5, <1>7, <2>2 DEF Seen, DownNow
  <2>4. paused => (Seen(Mouse)' <=> Seen(Mouse)) /\ stale' = stale
    BY <1>1, <1>2, BeginIs DEF Seen, DownNow
  <2>5. ~paused => stale' = stale \ {Mouse}  BY <1>1, BeginIs
  <2>6. \A c \in Controls \ stale' : Untold(events, c, 0) => (Seen(c)' <=> c \in device)
    BY <1>1, <2>1, <2>3, <2>4, <2>5 DEF Follow
  <2> QED  BY <1>1, <2>6 DEF Follow
<1> QED  BY <1>8, <1>9, <1>10

LEMMA TopKeeps ==
    ASSUME InputInv, Top, UNCHANGED shown, UNCHANGED <<device, events>>, UNCHANGED dialVars
    PROVE  InputInv'
<1>1. CASE frame = "top" /\ zero_fps /\ frame' = "wait" /\ UNCHANGED <<stateVars, stale, woken>>
  <2>1. KeptInv'  BY <1>1, KeptStays DEF InputInv, KeptInv
  <2>2. DevicesThere' /\ Queue' /\ PadQueue'
    BY <1>1 DEF InputInv, DevicesThere, Queue, PadQueue, stateVars
  <2>3. Follow'  BY <1>1 DEF InputInv, Follow, Seen, DownNow, stateVars
  <2>4. Edges'  BY <1>1 DEF InputInv, Edges, stateVars
  <2> QED  BY <2>1, <2>2, <2>3, <2>4 DEF InputInv, KeptInv
<1>2. CASE /\ \/ frame = "top" /\ ~zero_fps
              \/ frame = "wait" /\ events # <<>>
           /\ BeginFrame
           /\ woken' = (frame = "wait")
           /\ frame' = "poll"
  <2>1. Kept' /\ Primary' /\ Follow'  BY <1>2, BeginKeeps
  <2>2. Dials' /\ Adapters'  BY DEF InputInv, Dials, DialTablesAgree, Adapters, dialVars
  <2>3. gamepads' = gamepads  BY <1>2 DEF BeginFrame
  <2>4. DevicesThere' /\ Queue' /\ PadQueue'  BY <2>3 DEF InputInv, DevicesThere, Queue, PadQueue
  <2>5. was' = Put(now, Key, Key \in device)  BY <1>2, BeginIs DEF InputInv
  <2>6. now = shown \ {Key} /\ (frame = "top" => (Key \in device <=> Key \in shown))
    BY <1>2 DEF InputInv, Edges
  <2>7. \A c : c # Key => (c \in was' <=> c \in shown')  BY <2>5, <2>6 DEF Put
  <2>8. woken' \/ (Key \in was' <=> Key \in shown')  BY <1>2, <2>5, <2>6 DEF Put
  <2>9. Edges'  BY <1>2, <2>7, <2>8 DEF Edges
  <2> QED  BY <2>1, <2>2, <2>4, <2>9 DEF InputInv
<1> QED  BY <1>1, <1>2 DEF Top

LEMMA LoopKeepsInv ==
    ASSUME InputInv, Loop
    PROVE  InputInv'
<1>1. UNCHANGED <<device, events>> /\ UNCHANGED dialVars
  BY DEF Loop
<1>2. CASE Top /\ UNCHANGED shown
  BY <1>1, <1>2, TopKeeps
<1>3. ASSUME UNCHANGED <<stateVars, stale, woken>>, Edges' PROVE InputInv'
  <2>1. KeptInv'  BY <1>1, <1>3, KeptStays DEF InputInv, KeptInv
  <2>2. DevicesThere' /\ Queue' /\ PadQueue'
    BY <1>1, <1>3 DEF InputInv, DevicesThere, Queue, PadQueue, stateVars
  <2>3. Follow'  BY <1>1, <1>3 DEF InputInv, Follow, Seen, DownNow, stateVars
  <2> QED  BY <1>3, <2>1, <2>2, <2>3 DEF InputInv, KeptInv
<1>4. CASE TimedOut /\ UNCHANGED shown
  <2>1. UNCHANGED <<stateVars, stale, woken>>  BY <1>4 DEF TimedOut
  <2>2. Edges'  BY <1>1, <1>4, <2>1 DEF InputInv, Edges, TimedOut, stateVars
  <2> QED  BY <1>3, <2>1, <2>2
<1>5. CASE EndFrame /\ UNCHANGED <<stateVars, stale, woken>>
  <2>1. now' = now /\ was' = was /\ gamepads' = gamepads /\ woken' = woken
        /\ device' = device /\ events' = events
    BY <1>1, <1>5 DEF stateVars
  <2>2. ASSUME NEW g, Over(g) PROVE Over(g)'  BY <2>1, <2>2 DEF Over
  <2>3. ASSUME frame = "poll", events = <<>>, frame' = "tick", shown' = shown PROVE Edges'
    <3>1. ASSUME NEW c \in Controls \ {Key}
          PROVE  (c \in was' <=> c \in shown') \/ \E g \in Pads : c = Button(g) /\ Over(g)'
      BY <2>1, <2>2, <2>3 DEF InputInv, Edges
    <3>2. woken' \in BOOLEAN /\ (woken' \/ (Key \in was' <=> Key \in shown'))
      BY <2>1, <2>3 DEF InputInv, Edges
    <3> QED  BY <2>1, <2>3, <3>1, <3>2 DEF Edges
  <2>4. ASSUME frame = "tick", frame' = "top", shown' = DownNow PROVE Edges'
    <3>1. now = shown' \ {Key} /\ (Key \in device <=> Key \in shown') /\ events = <<>>
      BY <2>4 DEF InputInv, Edges, Kept, DownNow
    <3>2. woken' \in BOOLEAN  BY <2>1 DEF InputInv, Edges
    <3> QED  BY <2>1, <2>4, <3>1, <3>2 DEF Edges
  <2>5. ASSUME frame = "idle", frame' = "top", shown' = shown PROVE Edges'
    <3>1. woken' \in BOOLEAN /\ now = shown' \ {Key} /\ events = <<>>
          /\ (Key \in device <=> Key \in shown')
      BY <2>1, <2>5 DEF InputInv, Edges
    <3> QED  BY <2>1, <2>5, <3>1 DEF Edges
  <2> QED  BY <1>3, <1>5, <2>3, <2>4, <2>5 DEF EndFrame
<1> QED  BY <1>2, <1>4, <1>5 DEF Loop

-----------------------------------------------------------------------------
(* The dials.                                                              *)

LEMMA CallbacksAre ==
    ASSUME DialTablesAgree, NEW pad
    PROVE  CallbacksOf(pad) = {id \in DOMAIN subscriptions : subscriptions[id] = pad}
BY DEF DialTablesAgree, CallbacksOf

LEMMA DeactivatedKeeps ==
    ASSUME Dials, NEW pad, Deactivated(pad), UNCHANGED <<nextCallbackId, adapter>>
    PROVE  Dials' /\ DOMAIN dialByGamepad' = DOMAIN dialByGamepad \ {pad}
<1>1. DialTablesAgree
  BY DEF Dials
<1>2. \A p : CallbacksOf(p) = {id \in DOMAIN subscriptions : subscriptions[id] = p}
  BY <1>1, CallbacksAre
<1>3. /\ DOMAIN dialByGamepad' = DOMAIN dialByGamepad \ {pad}
      /\ \A p \in DOMAIN dialByGamepad' : dialByGamepad'[p] = dialByGamepad[p]
  BY DEF Deactivated, Without
<1>4. /\ DOMAIN subscriptionIds' = DOMAIN subscriptionIds \ {pad}
      /\ \A p \in DOMAIN subscriptionIds' : subscriptionIds'[p] = subscriptionIds[p]
  BY DEF Deactivated, Without
<1>5. /\ DOMAIN subscriptions' = DOMAIN subscriptions \ CallbacksOf(pad)
      /\ \A id \in DOMAIN subscriptions' : subscriptions'[id] = subscriptions[id]
  BY DEF Deactivated, Without
<1>6. ASSUME NEW p \in DOMAIN subscriptionIds'
      PROVE  subscriptionIds'[p] = {id \in DOMAIN subscriptions' : subscriptions'[id] = p}
  <2>1. subscriptionIds'[p] = {id \in DOMAIN subscriptions : subscriptions[id] = p} /\ p # pad
    BY <1>1, <1>4, <1>6 DEF DialTablesAgree
  <2> QED  BY <1>2, <1>5, <2>1
<1>7. ASSUME NEW id \in DOMAIN subscriptions'
      PROVE  subscriptions'[id] \in DOMAIN subscriptionIds'
  <2>1. id \in DOMAIN subscriptions /\ subscriptions[id] # pad /\ subscriptions'[id] = subscriptions[id]
    BY <1>2, <1>5, <1>7
  <2> QED  BY <1>1, <1>4, <2>1 DEF DialTablesAgree
<1>8. DialTablesAgree'
  BY <1>1, <1>3, <1>6, <1>7 DEF DialTablesAgree
<1>9. DOMAIN subscriptions' \subseteq 1..(nextCallbackId' - 1)
  BY <1>5 DEF Dials
<1> QED  BY <1>3, <1>8, <1>9 DEF Dials

LEMMA SubscribeKeeps ==
    ASSUME Dials, NEW pad, DialSubscribe(pad)
    PROVE  Dials'
<1> DEFINE new == nextCallbackId
<1>1. DialTablesAgree /\ new \in Nat \ {0} /\ DOMAIN subscriptions \subseteq 1..(new - 1)
  BY DEF Dials
<1>2. \A p : CallbacksOf(p) = {id \in DOMAIN subscriptions : subscriptions[id] = p}
  BY <1>1, CallbacksAre
<1>3. new \notin DOMAIN subscriptions /\ nextCallbackId' = new + 1
  BY <1>1 DEF DialSubscribe
<1>4. /\ DOMAIN subscriptions' = DOMAIN subscriptions \cup {new}
      /\ subscriptions'[new] = pad
      /\ \A id \in DOMAIN subscriptions : subscriptions'[id] = subscriptions[id]
  BY <1>3 DEF DialSubscribe, With
<1>5. /\ DOMAIN subscriptionIds' = DOMAIN subscriptionIds \cup {pad}
      /\ subscriptionIds'[pad] = CallbacksOf(pad) \cup {new}
      /\ \A p \in DOMAIN subscriptionIds : p # pad => subscriptionIds'[p] = subscriptionIds[p]
  BY DEF DialSubscribe, With
<1>6. UNCHANGED <<dialByGamepad, adapter>>
  BY DEF DialSubscribe
<1> HIDE DEF new
<1>7. ASSUME NEW p \in DOMAIN subscriptionIds'
      PROVE  subscriptionIds'[p] = {id \in DOMAIN subscriptions' : subscriptions'[id] = p}
  <2>1. CASE p = pad  BY <1>2, <1>4, <1>5, <2>1
  <2>2. CASE p # pad
    <3>1. subscriptionIds'[p] = {id \in DOMAIN subscriptions : subscriptions[id] = p}
      BY <1>1, <1>5, <1>7, <2>2 DEF DialTablesAgree
    <3> QED  BY <1>4, <2>2, <3>1
  <2> QED  BY <2>1, <2>2
<1>8. \A id \in DOMAIN subscriptions' : subscriptions'[id] \in DOMAIN subscriptionIds'
  BY <1>1, <1>4, <1>5 DEF DialTablesAgree
<1>9. DialTablesAgree'
  BY <1>1, <1>6, <1>7, <1>8 DEF DialTablesAgree
<1>10. nextCallbackId' \in Nat \ {0} /\ DOMAIN subscriptions' \subseteq 1..(nextCallbackId' - 1)
  BY <1>1, <1>3, <1>4
<1> QED  BY <1>6, <1>9, <1>10 DEF Dials

LEMMA UnsubscribeKeeps ==
    ASSUME Dials, NEW id, DialUnsubscribe(id)
    PROVE  Dials'
<1> DEFINE pad == subscriptions[id]
           rest == CallbacksOf(pad) \ {id}
<1>1. DialTablesAgree /\ id \in DOMAIN subscriptions
  BY DEF Dials, DialUnsubscribe
<1>2. \A p : CallbacksOf(p) = {i \in DOMAIN subscriptions : subscriptions[i] = p}
  BY <1>1, CallbacksAre
<1>3. /\ DOMAIN subscriptions' = DOMAIN subscriptions \ {id}
      /\ \A i \in DOMAIN subscriptions' : subscriptions'[i] = subscriptions[i]
  BY DEF DialUnsubscribe, Without
<1>4. UNCHANGED <<dialByGamepad, adapter, nextCallbackId>>
  BY DEF DialUnsubscribe
<1>5. subscriptionIds' = IF rest = {} THEN Without(subscriptionIds, {pad})
                         ELSE With(subscriptionIds, pad, rest)
  BY DEF DialUnsubscribe
<1>6. rest = {i \in DOMAIN subscriptions' : subscriptions'[i] = pad}
  BY <1>2, <1>3
<1>7. pad \in DOMAIN subscriptionIds
  BY <1>1 DEF DialTablesAgree
<1>8. /\ \A p \in DOMAIN subscriptionIds' : p \in DOMAIN subscriptionIds
      /\ \A p \in DOMAIN subscriptionIds :
            p # pad => p \in DOMAIN subscriptionIds' /\ subscriptionIds'[p] = subscriptionIds[p]
      /\ pad \in DOMAIN subscriptionIds' <=> rest # {}
      /\ rest # {} => subscriptionIds'[pad] = rest
  <2> HIDE DEF pad, rest
  <2>1. CASE rest = {}  BY <1>5, <2>1 DEF Without
  <2>2. CASE rest # {}  BY <1>5, <1>7, <2>2 DEF With
  <2> QED  BY <2>1, <2>2
<1> HIDE DEF rest
<1>9. ASSUME NEW p \in DOMAIN subscriptionIds'
      PROVE  subscriptionIds'[p] = {i \in DOMAIN subscriptions' : subscriptions'[i] = p}
  <2>1. CASE p = pad  BY <1>6, <1>8, <1>9, <2>1
  <2>2. CASE p # pad
    <3>1. subscriptionIds'[p] = {i \in DOMAIN subscriptions : subscriptions[i] = p}
      BY <1>1, <1>8, <1>9, <2>2 DEF DialTablesAgree
    <3> QED  BY <1>3, <2>2, <3>1
  <2> QED  BY <2>1, <2>2
<1>10. ASSUME NEW i \in DOMAIN subscriptions'
       PROVE  subscriptions'[i] \in DOMAIN subscriptionIds'
  <2>1. subscriptions'[i] = subscriptions[i] /\ subscriptions[i] \in DOMAIN subscriptionIds
    BY <1>1, <1>3, <1>10 DEF DialTablesAgree
  <2>2. subscriptions[i] = pad => i \in rest  BY <1>3, <1>6, <1>10
  <2> QED  BY <1>8, <2>1, <2>2
<1>11. DialTablesAgree'
  BY <1>1, <1>4, <1>9, <1>10 DEF DialTablesAgree
<1>12. DOMAIN subscriptions' \subseteq 1..(nextCallbackId' - 1)
  BY <1>3, <1>4 DEF Dials
<1> QED  BY <1>4, <1>11, <1>12 DEF Dials

\* A stick that moves stays one, and at rest it is as it was made.
LEMMA NewStickIs == IsStick(NewStick) /\ StickAtRest(NewStick) /\ ~NewStick.active /\ NewStick.stack = <<>>
BY DEF NewStick, IsStick, StickAtRest

LEMMA MovedIsStick ==
    ASSUME NEW s, NEW position, IsStick(s), StickAtRest(s)
    PROVE  IsStick(Moved(s, position)) /\ StickAtRest(Moved(s, position))
<1>1. CASE position # Rest
  <2> DEFINE out == IF s.active THEN s ELSE [s EXCEPT !.active = TRUE, !.start = position]
             turned == IF ~out.dialing /\ AngleDiff(position, out.start) > DialingThreshold
                       THEN [out EXCEPT !.dialing = TRUE, !.stack = Append(@, Sector4(out.start))]
                       ELSE out
  <2>1. IsStick(out) /\ out.active  BY DEF IsStick
  <2> HIDE DEF out
  <2>2. IsStick(turned) /\ turned.active  BY <2>1 DEF IsStick
  <2>3. Pushed(s, position) = IF turned.dialing
                              THEN [turned EXCEPT !.stack = Named(@, Sector4(position))]
                              ELSE [turned EXCEPT !.counts[Sector8(position)] = @ + 1]
    BY DEF Pushed, out
  <2> HIDE DEF turned
  <2>4. IsStick(Pushed(s, position)) /\ Pushed(s, position).active  BY <2>2, <2>3 DEF IsStick
  <2> QED  BY <1>1, <2>4 DEF Moved, StickAtRest
<1>2. CASE position = Rest /\ s.active
  <2>1. Moved(s, position) = Released(s)  BY <1>2 DEF Moved
  <2> DEFINE r == Released(s)
             zero == [i \in 0..7 |-> 0]
  <2>2. \E x : r = [NewStick EXCEPT !.start = s.start, !.stack = x]  BY DEF Released
  <2>3. PICK x : r = [active |-> FALSE, dialing |-> FALSE, start |-> s.start, stack |-> x,
                      counts |-> zero]
    BY <2>2 DEF NewStick
  <2> HIDE DEF r
  <2>4. \A i \in 0..7 : zero[i] = 0  OBVIOUS
  <2> HIDE DEF zero
  <2>5. IsStick(r) /\ StickAtRest(r)  BY <2>3, <2>4 DEF IsStick, StickAtRest
  <2> QED  BY <2>1, <2>5 DEF r
<1>3. CASE position = Rest /\ ~s.active
  BY <1>3 DEF Moved
<1> QED  BY <1>1, <1>2, <1>3 DEF IsStick

LEMMA NewDialIs == IsDial(NewDial) /\ DialAtRest(NewDial)
BY NewStickIs DEF IsDial, DialAtRest, NewDial, Complete

LEMMA DialUpdatedIs ==
    ASSUME NEW d, NEW sticks, IsDial(d), DialAtRest(d)
    PROVE  IsDial(DialUpdated(d, sticks)) /\ DialAtRest(DialUpdated(d, sticks))
<1> DEFINE moved == DialMoved(d, sticks)
<1>1. moved = [left |-> Moved(d.left, sticks.left), right |-> Moved(d.right, sticks.right),
               pending |-> d.pending]
  <2>1. d = [left |-> d.left, right |-> d.right, pending |-> d.pending]  BY DEF IsDial
  <2>2. DOMAIN moved = DOMAIN d /\ DOMAIN d = {"left", "right", "pending"}
    <3>1. DOMAIN moved = DOMAIN d  BY DEF DialMoved
    <3> QED  BY <2>1, <3>1
  <2>3. moved = [d EXCEPT !.left = Moved(d.left, sticks.left), !.right = Moved(d.right, sticks.right)]
    BY <2>1 DEF DialMoved
  <2>4. /\ moved.left = Moved(d.left, sticks.left) /\ moved.right = Moved(d.right, sticks.right)
        /\ moved.pending = d.pending
    BY <2>2, <2>3
  <2>5. moved = [x \in DOMAIN d |-> moved[x]]  BY DEF DialMoved
  <2> HIDE DEF moved
  <2> QED  BY <2>2, <2>4, <2>5
<1>2. IsDial(moved) /\ StickAtRest(moved.left) /\ StickAtRest(moved.right)
  BY <1>1, MovedIsStick DEF IsDial, DialAtRest
<1>3. CASE Complete(moved)
  <2> DEFINE answer == [NewDial EXCEPT !.pending = <<moved.left.stack, moved.right.stack>>]
  <2>1. DialUpdated(d, sticks) = answer  BY <1>3 DEF DialUpdated
  <2>2. answer = [left |-> NewStick, right |-> NewStick, pending |-> answer.pending]  BY DEF NewDial
  <2> HIDE DEF answer, moved
  <2> QED  BY <2>1, <2>2, NewStickIs DEF IsDial, DialAtRest, Complete
<1>4. CASE ~Complete(moved)
  <2>1. DialUpdated(d, sticks) = moved  BY <1>4 DEF DialUpdated
  <2> HIDE DEF moved
  <2> QED  BY <1>2, <1>4, <2>1 DEF DialAtRest
<1> QED  BY <1>3, <1>4

LEMMA DialOfIs ==
    ASSUME Dials, Adapters, NEW pad
    PROVE  IsDial(DialOf(adapter, pad)) /\ DialAtRest(DialOf(adapter, pad))
BY NewDialIs DEF DialOf, Dials, Adapters, DialTablesAgree

\* Only the adapter's dials change, and they are dials at rest.
LEMMA AdapterKeeps ==
    ASSUME Dials,
           adapter' = [pad \in DOMAIN adapter' |-> adapter'[pad]],
           \A pad \in DOMAIN adapter' : IsDial(adapter'[pad]) /\ DialAtRest(adapter'[pad]),
           UNCHANGED <<dialByGamepad, subscriptions, subscriptionIds, nextCallbackId>>
    PROVE  Dials' /\ Adapters'
BY DEF Dials, Adapters, DialTablesAgree

LEMMA UpdateGamepadKeeps ==
    ASSUME Dials, Adapters, NEW pad, NEW connected, NEW sticks,
           AdapterUpdateGamepad(pad, connected, sticks)
    PROVE  Dials' /\ Adapters'
<1> DEFINE d == DialUpdated(DialOf(adapter, pad), sticks)
<1>1. IsDial(d) /\ DialAtRest(d)
  BY DialOfIs, DialUpdatedIs
<1>2. adapter' = IF pad \in connected THEN With(adapter, pad, d) ELSE Without(adapter, {pad})
  BY DEF AdapterUpdateGamepad
<1>3. \A p \in DOMAIN adapter : IsDial(adapter[p]) /\ DialAtRest(adapter[p])
  BY DEF Dials, Adapters, DialTablesAgree
<1> HIDE DEF d
<1>4. /\ adapter' = [p \in DOMAIN adapter' |-> adapter'[p]]
      /\ \A p \in DOMAIN adapter' : IsDial(adapter'[p]) /\ DialAtRest(adapter'[p])
  <2>1. CASE pad \in connected  BY <1>1, <1>2, <1>3, <2>1 DEF With
  <2>2. CASE pad \notin connected  BY <1>2, <1>3, <2>2 DEF Without
  <2> QED  BY <2>1, <2>2
<1>5. UNCHANGED <<dialByGamepad, subscriptions, subscriptionIds, nextCallbackId>>
  BY DEF AdapterUpdateGamepad
<1> QED  BY <1>4, <1>5, AdapterKeeps

LEMMA UpdateKeeps ==
    ASSUME Dials, Adapters, NEW connected, NEW all, AdapterUpdate(connected, all)
    PROVE  Dials' /\ Adapters'
<1>1. \A p : IsDial(DialUpdated(DialOf(adapter, p), all[p]))
             /\ DialAtRest(DialUpdated(DialOf(adapter, p), all[p]))
  BY DialOfIs, DialUpdatedIs
<1>2. adapter' = [p \in connected |-> DialUpdated(DialOf(adapter, p), all[p])]
  BY DEF AdapterUpdate
<1>3. /\ adapter' = [p \in DOMAIN adapter' |-> adapter'[p]]
      /\ \A p \in DOMAIN adapter' : IsDial(adapter'[p]) /\ DialAtRest(adapter'[p])
  BY <1>1, <1>2
<1>4. UNCHANGED <<dialByGamepad, subscriptions, subscriptionIds, nextCallbackId>>
  BY DEF AdapterUpdate
<1> QED  BY <1>3, <1>4, AdapterKeeps

LEMMA PollKeeps ==
    ASSUME Dials, Adapters, NEW pad, AdapterPoll(pad)
    PROVE  Dials' /\ Adapters'
<1>1. adapter = [p \in DOMAIN adapter |-> adapter[p]] /\ pad \in DOMAIN adapter
  BY DEF Dials, AdapterPoll
<1>2. adapter' = [adapter EXCEPT ![pad].pending = NoInput]
  BY DEF AdapterPoll
<1>3. \A p \in DOMAIN adapter : IsDial(adapter[p]) /\ DialAtRest(adapter[p])
  BY DEF Dials, Adapters, DialTablesAgree
<1>4. /\ DOMAIN adapter' = DOMAIN adapter
      /\ adapter' = [p \in DOMAIN adapter |-> adapter'[p]]
      /\ \A p \in DOMAIN adapter : p # pad => adapter'[p] = adapter[p]
      /\ adapter'[pad] = [adapter[pad] EXCEPT !.pending = NoInput]
  BY <1>1, <1>2
<1>5. IsDial(adapter'[pad]) /\ DialAtRest(adapter'[pad])
  <2>1. adapter'[pad] = [left |-> adapter[pad].left, right |-> adapter[pad].right,
                         pending |-> NoInput]
    BY <1>1, <1>3, <1>4 DEF IsDial
  <2> QED  BY <1>1, <1>3, <2>1 DEF IsDial, DialAtRest, Complete
<1>6. UNCHANGED <<dialByGamepad, subscriptions, subscriptionIds, nextCallbackId>>
  BY DEF AdapterPoll
<1> QED  BY <1>3, <1>4, <1>5, <1>6, AdapterKeeps

LEMMA ProcessKeeps ==
    ASSUME Dials, Adapters, NEW pad, NEW sticks, Process(pad, sticks)
    PROVE  Dials' /\ Adapters' /\ DOMAIN dialByGamepad' \subseteq DOMAIN dialByGamepad \cup {pad}
<1> DEFINE moved == DialMoved(DialOf(dialByGamepad, pad), sticks)
<1>1. UNCHANGED <<nextCallbackId, adapter>>
  BY DEF Process
<1>2. Adapters'
  BY <1>1 DEF Adapters
<1>3. CASE UNCHANGED <<dialByGamepad, activeGamepads, subscriptions, subscriptionIds>>
  BY <1>1, <1>2, <1>3 DEF Dials, DialTablesAgree
<1>4. CASE /\ dialByGamepad' = With(dialByGamepad, pad, NewDial)
           /\ UNCHANGED <<activeGamepads, subscriptions, subscriptionIds>>
  <2>1. /\ DOMAIN dialByGamepad' = DOMAIN dialByGamepad \cup {pad}
        /\ \A p \in DOMAIN dialByGamepad' : dialByGamepad'[p] = NewDial
    BY <1>4 DEF With, Dials
  <2>2. \A p \in DOMAIN dialByGamepad' : DialAtRest(dialByGamepad'[p])  BY <2>1, NewDialIs
  <2>3. DialTablesAgree'  BY <1>1, <1>4, <2>2 DEF Dials, DialTablesAgree
  <2> QED  BY <1>1, <1>2, <1>4, <2>1, <2>3 DEF Dials
<1>5. CASE Deactivated(pad)
  BY <1>1, <1>2, <1>5, DeactivatedKeeps
<1> QED  BY <1>3, <1>4, <1>5 DEF Process

LEMMA DeactivateKeeps ==
    ASSUME Dials, Adapters, NEW pad, DialDeactivate(pad)
    PROVE  Dials' /\ Adapters' /\ DOMAIN dialByGamepad' = DOMAIN dialByGamepad \ {pad}
<1>1. UNCHANGED <<nextCallbackId, adapter>> /\ Deactivated(pad)
  BY DEF DialDeactivate
<1>2. Adapters'
  BY <1>1 DEF Adapters
<1> QED  BY <1>1, <1>2, DeactivatedKeeps

\* What scripts do with dials.
DialScript ==
    \/ \E g \in Pads : \/ DialActivate(g) \/ DialDeactivate(g) \/ DialSubscribe(g)
                       \/ AdapterUpdateGamepad(g, gamepadStates, axes[g])
                       \/ AdapterPoll(g)
    \/ \E id \in 1..MaxCallbacks : DialUnsubscribe(id)
    \/ AdapterUpdate(gamepadStates, axes)

LEMMA DialScriptKeeps ==
    ASSUME Dials, Adapters, DialScript \/ UNCHANGED dialVars
    PROVE  Dials' /\ Adapters' /\ DOMAIN dialByGamepad' \subseteq DOMAIN dialByGamepad
<1>1. CASE UNCHANGED dialVars
  BY <1>1 DEF Dials, Adapters, DialTablesAgree, dialVars
<1>2. ASSUME NEW g \in Pads, DialActivate(g) PROVE UNCHANGED <<dialByGamepad, adapter>> /\ Dials' /\ Adapters'
  BY <1>2 DEF Dials, Adapters, DialTablesAgree, DialActivate
<1>3. ASSUME NEW g \in Pads, DialDeactivate(g)
      PROVE  Dials' /\ Adapters' /\ DOMAIN dialByGamepad' \subseteq DOMAIN dialByGamepad
  BY <1>3, DeactivateKeeps
<1>4. ASSUME NEW g \in Pads, DialSubscribe(g) PROVE UNCHANGED <<dialByGamepad, adapter>> /\ Dials' /\ Adapters'
  <2>1. UNCHANGED <<dialByGamepad, adapter>>  BY <1>4 DEF DialSubscribe
  <2> QED  BY <1>4, <2>1, SubscribeKeeps DEF Adapters
<1>5. ASSUME NEW g \in Pads, AdapterUpdateGamepad(g, gamepadStates, axes[g])
      PROVE  Dials' /\ Adapters' /\ UNCHANGED dialByGamepad
  <2>1. UNCHANGED dialByGamepad  BY <1>5 DEF AdapterUpdateGamepad
  <2> QED  BY <1>5, <2>1, UpdateGamepadKeeps
<1>6. ASSUME NEW g \in Pads, AdapterPoll(g) PROVE Dials' /\ Adapters' /\ UNCHANGED dialByGamepad
  <2>1. UNCHANGED dialByGamepad  BY <1>6 DEF AdapterPoll
  <2> QED  BY <1>6, <2>1, PollKeeps
<1>7. ASSUME NEW id \in 1..MaxCallbacks, DialUnsubscribe(id)
      PROVE  UNCHANGED <<dialByGamepad, adapter>> /\ Dials' /\ Adapters'
  <2>1. UNCHANGED <<dialByGamepad, adapter>>  BY <1>7 DEF DialUnsubscribe
  <2> QED  BY <1>7, <2>1, UnsubscribeKeeps DEF Adapters
<1>8. ASSUME AdapterUpdate(gamepadStates, axes) PROVE Dials' /\ Adapters' /\ UNCHANGED dialByGamepad
  <2>1. UNCHANGED dialByGamepad  BY <1>8 DEF AdapterUpdate
  <2> QED  BY <1>8, <2>1, UpdateKeeps
<1> QED
  BY <1>1, <1>2, <1>3, <1>4, <1>5, <1>6, <1>7, <1>8 DEF DialScript

LEMMA ScriptKeepsInv ==
    ASSUME InputInv, InputScript
    PROVE  InputInv'
<1>1. /\ UNCHANGED <<device, events, stale, frame, woken, shown>> /\ UNCHANGED stateVars
      /\ DialScript \/ UNCHANGED dialVars
  BY DEF InputScript, DialScript
<1>2. Dials' /\ Adapters' /\ DOMAIN dialByGamepad' \subseteq DOMAIN dialByGamepad
  BY <1>1, DialScriptKeeps DEF InputInv
<1>3. Kept'
  BY <1>1 DEF InputInv, Kept, stateVars
<1>4. Primary'
  <2>1. /\ primary' = primary /\ now' = now /\ was' = was /\ touchPoints' = touchPoints
        /\ penStates' = penStates /\ gamepads' = gamepads /\ gamepadStates' = gamepadStates
    BY <1>1 DEF stateVars
  <2> QED  BY <1>2, <2>1 DEF InputInv, Primary, DevicesAgree, Primaries, FingersIn, PensIn
<1>5. DevicesThere' /\ Queue' /\ PadQueue'
  BY <1>1 DEF InputInv, DevicesThere, Queue, PadQueue, stateVars
<1>6. Follow'
  BY <1>1 DEF InputInv, Follow, Seen, DownNow, stateVars
<1>7. Edges'
  BY <1>1 DEF InputInv, Edges, Over, stateVars
<1> QED  BY <1>2, <1>3, <1>4, <1>5, <1>6, <1>7 DEF InputInv

-----------------------------------------------------------------------------
(* The loop takes an event.                                                *)

\* The gamepads the engine has open change with the events of their coming
\* and going.
Opening(e) ==
    \/ gamepads' = gamepads
    \/ e.type = "pad-added" /\ Pad(e.id) \in device /\ gamepads' = gamepads \cup {e.id}
    \/ e.type = "pad-removed" /\ gamepads' = gamepads \ {e.id}

Taking(e) ==
    /\ events # <<>> /\ e = Head(events)
    /\ events' = Tail(events) /\ device' = device
    /\ Opening(e)

LEMMA TakenIs ==
    ASSUME Queue, NEW e, Taking(e)
    PROVE  /\ e \in Events /\ OfItsDevice(e) /\ e = events[1]
           /\ 1 \in DOMAIN events /\ events \in Seq(Events)
           /\ \A i \in DOMAIN events' :
                 i \in Nat /\ i >= 1 /\ i + 1 \in DOMAIN events /\ events'[i] = events[i + 1]
<1>1. events \in Seq(Events) /\ events # <<>> /\ e = Head(events) /\ events' = Tail(events)
  BY DEF Queue, Taking
<1> QED  BY <1>1, Taken DEF Queue

LEMMA TakenQueue ==
    ASSUME Queue, DevicesThere, NEW e, Taking(e)
    PROVE  Queue' /\ DevicesThere'
<1>1. events' \in Seq(Events)
  BY Taken DEF Queue, Taking
<1>2. \A i \in DOMAIN events' : OfItsDevice(events'[i])
  BY TakenIs DEF Queue
<1>3. DevicesThere'
  BY DEF DevicesThere, Taking
<1> QED  BY <1>1, <1>2, <1>3 DEF Queue

LEMMA TakenPadQueue ==
    ASSUME Queue, PadQueue, NEW e, Taking(e)
    PROVE  PadQueue'
<1>1. /\ 1 \in DOMAIN events /\ e = events[1] /\ device' = device
      /\ \A i \in DOMAIN events' :
            i \in Nat /\ i >= 1 /\ i + 1 \in DOMAIN events /\ events'[i] = events[i + 1]
  BY TakenIs DEF Taking
<1>2. \A g \in gamepads' : Pad(g) \in device' \/ Gone(g) \in device'
  BY <1>1 DEF PadQueue, Taking, Opening
<1>3. ASSUME NEW i \in DOMAIN events'
      PROVE  /\ events'[i].type \in {"pad-button", "pad-axis"} => events'[i].id \in gamepads'
             /\ events'[i].type = "pad-added" =>
                   /\ events'[i].id \notin gamepads'
                   /\ Pad(events'[i].id) \in device' \/ Gone(events'[i].id) \in device'
             /\ events'[i].type = "pad-removed" => Gone(events'[i].id) \in device'
  <2> DEFINE f == events[i + 1]
  <2>1. i + 1 \in DOMAIN events /\ events'[i] = f /\ 1 < i + 1  BY <1>1
  <2>2. /\ f.type \in {"pad-button", "pad-axis"} => f.id \in gamepads
        /\ f.type = "pad-added" =>
              f.id \notin gamepads /\ (Pad(f.id) \in device \/ Gone(f.id) \in device)
        /\ f.type = "pad-removed" => Gone(f.id) \in device
    BY <2>1 DEF PadQueue
  <2>3. e.id = f.id => /\ e.type = "pad-removed" => f.type \notin PadEvents
                       /\ e.type = "pad-added" => f.type # "pad-added"
    BY <1>1, <2>1 DEF PadQueue
  <2> HIDE DEF f
  <2>4. f.type \in {"pad-button", "pad-axis"} => f.id \in gamepads'
    BY <2>2, <2>3 DEF Taking, Opening, PadEvents
  <2>5. f.type = "pad-added" => f.id \notin gamepads'  BY <2>2, <2>3 DEF Taking, Opening
  <2> QED  BY <1>1, <2>1, <2>2, <2>4, <2>5
<1>4. ASSUME NEW i \in DOMAIN events', NEW j \in DOMAIN events', i < j,
             events'[i].id = events'[j].id
      PROVE  /\ events'[i].type = "pad-removed" => events'[j].type \notin PadEvents
             /\ events'[i].type = "pad-added" => events'[j].type # "pad-added"
  <2>1. /\ i + 1 \in DOMAIN events /\ events'[i] = events[i + 1]
        /\ j + 1 \in DOMAIN events /\ events'[j] = events[j + 1] /\ i + 1 < j + 1
    BY <1>1, <1>4
  <2> QED  BY <1>4, <2>1 DEF PadQueue
<1> QED  BY <1>2, <1>3, <1>4 DEF PadQueue

LEMMA TakenOver ==
    ASSUME Queue, PadQueue, NEW e, Taking(e)
    PROVE  /\ \A g : Over(g) => Over(g)'
           /\ e.type = "pad-removed" /\ gamepads' = gamepads \ {e.id} => Over(e.id)'
<1>1. /\ 1 \in DOMAIN events /\ e = events[1] /\ device' = device
      /\ \A i \in DOMAIN events' :
            i \in Nat /\ i >= 1 /\ i + 1 \in DOMAIN events /\ events'[i] = events[i + 1]
  BY TakenIs DEF Taking
<1>2. ASSUME NEW g, Over(g) PROVE Over(g)'
  <2>1. e.type \in PadEvents => e.id # g  BY <1>1, <1>2 DEF Over
  <2>2. g \notin gamepads'  BY <1>2, <2>1 DEF Over, Taking, Opening, PadEvents
  <2> QED  BY <1>1, <1>2, <2>2 DEF Over
<1>3. ASSUME e.type = "pad-removed", gamepads' = gamepads \ {e.id} PROVE Over(e.id)'
  <2>1. Gone(e.id) \in device  BY <1>1, <1>3 DEF PadQueue
  <2>2. ASSUME NEW i \in DOMAIN events', events'[i].type \in PadEvents PROVE events'[i].id # e.id
    <3>1. i + 1 \in DOMAIN events /\ events'[i] = events[i + 1] /\ 1 < i + 1  BY <1>1
    <3> QED  BY <1>1, <1>3, <2>2, <3>1 DEF PadQueue
  <2> QED  BY <1>1, <1>3, <2>1, <2>2 DEF Over
<1> QED  BY <1>2, <1>3

LEMMA TakenFollow ==
    ASSUME Queue, Follow, NEW e, Taking(e),
           \A c \in ToldBy(e) : \/ c \in stale'
                                \/ Seen(c)' <=> Says(e, c)
                                \/ Seen(c)' <=> c \in device,
           \A c \in Controls \ ToldBy(e) : Seen(c)' <=> Seen(c),
           stale \ ToldBy(e) \subseteq stale'
    PROVE  Follow'
<1>1. /\ 1 \in DOMAIN events /\ e = events[1] /\ device' = device
      /\ events \in Seq(Events) /\ events # <<>> /\ events' = Tail(events) /\ e = Head(events)
      /\ \A i \in DOMAIN events' :
            i \in Nat /\ i >= 1 /\ i + 1 \in DOMAIN events /\ events'[i] = events[i + 1]
  BY TakenIs DEF Taking
<1>2. ASSUME NEW i \in DOMAIN events', NEW c \in ToldBy(events'[i]), Untold(events', c, i)
      PROVE  Says(events'[i], c) <=> c \in device'
  <2>1. i \in Nat /\ i + 1 \in DOMAIN events /\ events'[i] = events[i + 1]  BY <1>1
  <2>2. Untold(events, c, i + 1)  BY <1>1, <1>2, <2>1, UntoldTaken
  <2> QED  BY <1>1, <1>2, <2>1, <2>2 DEF Follow
<1>3. ASSUME NEW c \in Controls \ stale', Untold(events', c, 0)
      PROVE  Seen(c)' <=> c \in device'
  <2>1. Untold(events, c, 1)
    <3>1. Untold(events, c, 0 + 1)  BY <1>1, <1>3, UntoldTaken
    <3> QED  BY <3>1
  <2>2. CASE c \in ToldBy(e)
    <3>1. Says(e, c) <=> c \in device  BY <1>1, <2>1, <2>2 DEF Follow
    <3> QED  BY <1>1, <1>3, <2>2, <3>1
  <2>3. CASE c \notin ToldBy(e)
    <3>1. Untold(events, c, 0)  BY <1>1, <2>1, <2>3, UntoldFirst
    <3>2. c \notin stale  BY <1>3, <2>3
    <3> QED  BY <1>1, <1>3, <2>3, <3>1, <3>2 DEF Follow
  <2> QED  BY <2>2, <2>3
<1> QED  BY <1>2, <1>3 DEF Follow

LEMMA TakenEdges ==
    ASSUME NEW e, Edges, Queue, PadQueue, Taking(e), frame = "poll",
           UNCHANGED <<frame, woken, shown>>,
           \A c \in Controls \ {Key} :
              (c \in was' <=> c \in was) \/ \E g \in Pads : c = Button(g) /\ Over(g)',
           Key \in was' <=> Key \in was
    PROVE  Edges'
<1>1. \A g : Over(g) => Over(g)'
  BY TakenOver
<1>2. ASSUME NEW c \in Controls \ {Key}
      PROVE  (c \in was' <=> c \in shown') \/ \E g \in Pads : c = Button(g) /\ Over(g)'
  <2>1. (c \in was <=> c \in shown) \/ \E g \in Pads : c = Button(g) /\ Over(g)  BY DEF Edges
  <2>2. (c \in was' <=> c \in was) \/ \E g \in Pads : c = Button(g) /\ Over(g)'  OBVIOUS
  <2>3. CASE \E g \in Pads : c = Button(g) /\ Over(g)  BY <1>1, <2>3
  <2> QED  BY <2>1, <2>2, <2>3
<1>3. woken' \in BOOLEAN /\ (woken' \/ (Key \in was' <=> Key \in shown'))
  BY DEF Edges
<1> QED  BY <1>2, <1>3 DEF Edges

\* What taking an event does, when input is not paused.
SeenAsTold(e) ==
    /\ \A c \in ToldBy(e) : (Seen(c)' <=> Says(e, c)) \/ (Seen(c)' <=> c \in device)
    /\ \A c \in Controls \ ToldBy(e) : Seen(c)' <=> Seen(c)

WasKept(e) ==
    \/ was' = was
    \/ /\ e.type = "pad-removed" /\ gamepads' = gamepads \ {e.id}
       /\ was' = was \ OfPad(e.id)

Effect(e) == Opening(e) /\ SeenAsTold(e) /\ WasKept(e) /\ KeptInv'

LEMMA EffectKeepsInv ==
    ASSUME InputInv, NEW e, events # <<>>, e = Head(events), events' = Tail(events),
           Effect(e), stale' = stale \ ToldBy(e),
           frame = "poll", UNCHANGED <<device, frame, woken, shown>>
    PROVE  InputInv'
<1>1. Taking(e) /\ Queue /\ PadQueue /\ Follow /\ DevicesThere
  BY DEF Taking, Effect, InputInv
<1>2. Queue' /\ DevicesThere' /\ PadQueue'
  BY <1>1, TakenQueue, TakenPadQueue
<1>3. Follow'
  BY <1>1, TakenFollow DEF Effect, SeenAsTold
<1>4. OfItsDevice(e)
  BY <1>1, TakenIs
<1> DEFINE WasOrOver == \A c \in Controls \ {Key} :
              (c \in was' <=> c \in was) \/ \E g \in Pads : c = Button(g) /\ Over(g)'
<1>7. ASSUME WasOrOver, Key \in was' <=> Key \in was PROVE InputInv'
  <2>1. UNCHANGED <<frame, woken, shown>> /\ Edges  BY DEF InputInv
  <2>2. Edges'  BY <1>1, <1>7, <2>1, TakenEdges
  <2> QED  BY <1>2, <1>3, <2>2 DEF Effect, KeptInv, InputInv
<1>5. CASE was' = was
  BY <1>5, <1>7
<1>6. CASE /\ e.type = "pad-removed" /\ gamepads' = gamepads \ {e.id}
           /\ was' = was \ OfPad(e.id)
  <2>1. Over(e.id)' /\ e.id \in Pads  BY <1>1, <1>4, <1>6, TakenOver DEF OfItsDevice, PadEvents
  <2>2. Pad(e.id) \notin was  BY <2>1 DEF InputInv, Kept
  <2>3. \A c : c # Button(e.id) => (c \in was' <=> c \in was)  BY <1>6, <2>2 DEF OfPad
  <2>4. Key # Button(e.id)  BY Different DEF KindsDiffer
  <2>5. WasOrOver  BY <2>1, <2>3
  <2> QED  BY <1>7, <2>3, <2>4, <2>5
<1> QED
  BY <1>5, <1>6 DEF Effect, WasKept

-----------------------------------------------------------------------------
(* The handlers.                                                           *)

\* What is seen of anything but a key or the presence of a gamepad.
LEMMA SeenIs ==
    /\ \A c : (c # Key /\ \A g : c # Pad(g)) => (Seen(c) <=> c \in now)
    /\ \A c : (c # Key /\ \A g : c # Pad(g)) => (Seen(c)' <=> c \in now')
    /\ \A c : /\ device' = device /\ gamepadStates' = gamepadStates
              /\ c \in now' <=> c \in now
              => (Seen(c)' <=> Seen(c))
BY DEF Seen, DownNow

LEMMA MouseEffect ==
    ASSUME InputInv, NEW e \in Events, e.type = "mouse", OnMouse(e), device' = device
    PROVE  Effect(e)
<1>1. ToldBy(e) = {Mouse} /\ \A c : Says(e, c) <=> e.down # {}
  BY TellsMouse
<1>2. /\ \A c : c # Mouse => (c \in now' <=> c \in now)
      /\ now' \subseteq now \cup {Mouse}
      /\ Mouse \in now' <=> e.down # {}
  BY DEF OnMouse, Put
<1>3. /\ was' = was /\ gamepads' = gamepads /\ gamepadStates' = gamepadStates
      /\ primary' = primary /\ touchPoints' = touchPoints /\ penStates' = penStates
      /\ UNCHANGED dialVars
  BY DEF OnMouse
<1>4. \A n : KindsDiffer(n, n)
  BY Different
<1>5. /\ Mouse # Key
      /\ \A n : Mouse \notin {Pad(n), Button(n), Barrel(n), InRange(n), Finger(n)}
  BY <1>4 DEF KindsDiffer
<1>6. SeenAsTold(e)
  BY <1>1, <1>2, <1>3, <1>5, SeenIs DEF SeenAsTold
<1>7. Kept'
  <2>1. now' \subseteq Controls /\ Key \notin now'  BY <1>2, <1>5, ControlsAre DEF InputInv, Kept
  <2> QED  BY <1>2, <1>3, <1>5, <2>1 DEF InputInv, Kept
<1>8. Primary'
  <2>1. /\ FingersIn(now') = FingersIn(now) /\ PensIn(now') = PensIn(now)
        /\ FingersIn(now' \cup was') = FingersIn(now \cup was)
        /\ PensIn(now' \cup was') = PensIn(now \cup was)
    BY <1>2, <1>3, <1>5 DEF FingersIn, PensIn
  <2>2. dialByGamepad' = dialByGamepad  BY <1>3 DEF dialVars
  <2> QED  BY <1>3, <1>7, <2>1, <2>2, PrimaryIs, PrimaryPrime DEF InputInv
<1>9. Dials' /\ Adapters'
  BY <1>3, DialScriptKeeps DEF InputInv
<1> QED  BY <1>3, <1>6, <1>7, <1>8, <1>9 DEF Effect, Opening, WasKept, KeptInv

LEMMA KeyEffect ==
    ASSUME InputInv, NEW e \in Events, e.type = "key", OnKey, device' = device
    PROVE  Effect(e)
<1>1. ToldBy(e) = {}
  BY TellsKey
<1>2. UNCHANGED stateVars /\ UNCHANGED dialVars
  BY DEF OnKey
<1>3. KeptInv'
  BY <1>2, KeptStays DEF InputInv, KeptInv
<1>4. now' = now /\ was' = was /\ gamepads' = gamepads /\ gamepadStates' = gamepadStates
  BY <1>2 DEF stateVars
<1> QED  BY <1>1, <1>3, <1>4, SeenIs DEF Effect, Opening, WasKept, SeenAsTold

LEMMA TouchEffect ==
    ASSUME InputInv, NEW e \in Events, e.type \in TouchEvents, e.id \in Fingers,
           OnTouch(e.id, e.type \in TouchesDown), device' = device
    PROVE  Effect(e)
<1> DEFINE f == e.id
           on == e.type \in TouchesDown
<1>1. ToldBy(e) = {Finger(f)} /\ \A c : Says(e, c) <=> on
  BY TellsTouch
<1>2. /\ \A c : c # Finger(f) => (c \in now' <=> c \in now)
      /\ now' \subseteq now \cup {Finger(f)}
      /\ Finger(f) \in now' <=> on
  BY DEF OnTouch, Put
<1>3. /\ was' = was /\ gamepads' = gamepads /\ gamepadStates' = gamepadStates
      /\ penStates' = penStates /\ touchPoints' = touchPoints \cup {f}
      /\ UNCHANGED dialVars
  BY DEF OnTouch
<1>4. \A n : KindsDiffer(f, n) /\ KindsDiffer(n, f)
  BY Different
<1>5. /\ Finger(f) # Key
      /\ \A n : Finger(f) \notin {Pad(n), Button(n), Barrel(n), InRange(n)}
      /\ \A n : Finger(f) = Finger(n) => n = f
  BY <1>4 DEF KindsDiffer
<1>6. SeenAsTold(e)
  BY <1>1, <1>2, <1>3, <1>5, SeenIs DEF SeenAsTold
<1>7. Kept'
  <2>1. now' \subseteq Controls /\ Key \notin now'  BY <1>2, <1>5, ControlsAre DEF InputInv, Kept
  <2> QED  BY <1>2, <1>3, <1>5, <2>1 DEF InputInv, Kept
<1>8. /\ primary = [finger |-> primary.finger, pen |-> primary.pen, pad |-> primary.pad]
      /\ Chosen(primary.finger, FingersIn(now)) /\ Chosen(primary.pen, PensIn(now))
      /\ Chosen(primary.pad, gamepadStates) /\ gamepads = gamepadStates
      /\ FingersIn(now \cup was) \subseteq touchPoints
      /\ PensIn(now \cup was) \subseteq penStates
      /\ DOMAIN dialByGamepad \subseteq gamepadStates
  BY PrimaryIs DEF InputInv
<1>9. PensIn(now') = PensIn(now) /\ PensIn(now' \cup was') = PensIn(now \cup was)
  BY <1>2, <1>3, <1>5 DEF PensIn
<1>10. \E x : primary' = [primary EXCEPT !.finger = x] /\ Chosen(x, FingersIn(now'))
  <2>1. CASE on \/ primary.finger = f
    <3>1. PICK y \in {f, 0} : AssignFinger(y, now')  BY <2>1 DEF OnTouch
    <3> QED  BY <3>1, PrimariesAreChosen DEF AssignFinger
  <2>2. CASE ~on /\ primary.finger # f
    <3>1. primary' = primary  BY <2>2 DEF OnTouch
    <3>2. primary' = [primary EXCEPT !.finger = primary.finger]  BY <1>8, <3>1
    <3>3. FingersIn(now') \subseteq FingersIn(now)  BY <1>2, <2>2 DEF FingersIn
    <3>4. \A g \in FingersIn(now) : g # f => g \in FingersIn(now')  BY <1>2, <1>5 DEF FingersIn
    <3> QED  BY <1>8, <2>2, <3>2, <3>3, <3>4 DEF Chosen
  <2> QED  BY <2>1, <2>2
<1>11. PICK x : primary' = [primary EXCEPT !.finger = x] /\ Chosen(x, FingersIn(now'))
  BY <1>10
<1>12. primary' = [finger |-> x, pen |-> primary.pen, pad |-> primary.pad]
  BY <1>8, <1>11
<1>13. FingersIn(now' \cup was') \subseteq touchPoints'
  BY <1>2, <1>3, <1>5, <1>8 DEF FingersIn
<1>14. /\ primary' = [finger |-> primary'.finger, pen |-> primary'.pen, pad |-> primary'.pad]
       /\ Chosen(primary'.finger, FingersIn(now')) /\ Chosen(primary'.pen, PensIn(now'))
       /\ Chosen(primary'.pad, gamepadStates')
  BY <1>3, <1>8, <1>9, <1>11, <1>12
<1>15. Primary'
  <2>1. dialByGamepad' = dialByGamepad  BY <1>3 DEF dialVars
  <2> QED  BY <1>3, <1>7, <1>8, <1>9, <1>13, <1>14, <2>1, PrimaryPrime
<1>16. Dials' /\ Adapters'
  BY <1>3, DialScriptKeeps DEF InputInv
<1> QED  BY <1>3, <1>6, <1>7, <1>15, <1>16 DEF Effect, Opening, WasKept, KeptInv

\* What a step leaves of Primary when it is the pens that change.
LEMMA PenPrimary ==
    ASSUME InputInv, Kept', NEW p \in Pens, NEW q, Chosen(q, PensIn(now')),
           primary' = [primary EXCEPT !.pen = q],
           \A c : c \notin OfPen(p) => (c \in now' <=> c \in now),
           UNCHANGED <<was, touchPoints, gamepadStates, gamepads>>, UNCHANGED dialVars,
           penStates' = penStates \cup {p}
    PROVE  Primary' /\ Dials' /\ Adapters'
<1>1. /\ primary = [finger |-> primary.finger, pen |-> primary.pen, pad |-> primary.pad]
      /\ Chosen(primary.finger, FingersIn(now)) /\ Chosen(primary.pen, PensIn(now))
      /\ Chosen(primary.pad, gamepadStates) /\ gamepads = gamepadStates
      /\ FingersIn(now \cup was) \subseteq touchPoints
      /\ PensIn(now \cup was) \subseteq penStates
      /\ DOMAIN dialByGamepad \subseteq gamepadStates
  BY PrimaryIs DEF InputInv
<1>2. \A n : KindsDiffer(p, n) /\ KindsDiffer(n, p)
  BY Different
<1>3. \A n : Finger(n) \notin OfPen(p) /\ (n # p => InRange(n) \notin OfPen(p))
  BY <1>2 DEF OfPen, KindsDiffer
<1>4. FingersIn(now') = FingersIn(now) /\ FingersIn(now' \cup was') = FingersIn(now \cup was)
  BY <1>3 DEF FingersIn
<1>5. PensIn(now' \cup was') \subseteq PensIn(now \cup was) \cup {p}
  BY <1>3 DEF PensIn
<1>6. primary' = [finger |-> primary.finger, pen |-> q, pad |-> primary.pad]
  BY <1>1
<1>7. /\ primary' = [finger |-> primary'.finger, pen |-> primary'.pen, pad |-> primary'.pad]
      /\ Chosen(primary'.finger, FingersIn(now')) /\ Chosen(primary'.pen, PensIn(now'))
      /\ Chosen(primary'.pad, gamepadStates')
  BY <1>1, <1>4, <1>6
<1>8. PensIn(now' \cup was') \subseteq penStates'
  BY <1>1, <1>5
<1>9. dialByGamepad' = dialByGamepad /\ touchPoints' = touchPoints /\ gamepads' = gamepadStates'
  BY <1>1 DEF dialVars
<1>10. Primary'
  BY <1>1, <1>4, <1>7, <1>8, <1>9, PrimaryPrime
<1> QED  BY <1>10, DialScriptKeeps DEF InputInv

\* The controls of a pen are no others.
PenApart(p) ==
    /\ OfPen(p) \subseteq Controls /\ Key \notin OfPen(p)
    /\ \A n : Pad(n) \notin OfPen(p) /\ Button(n) \notin OfPen(p)
    /\ \A n : n # p => InRange(n) \notin OfPen(p) /\ Barrel(n) \notin OfPen(p)

LEMMA PensApart ==
    ASSUME NEW p \in Pens
    PROVE  PenApart(p)
<1>1. \A n : KindsDiffer(p, n) /\ KindsDiffer(n, p)
  BY Different
<1> QED  BY <1>1, ControlsAre DEF PenApart, OfPen, KindsDiffer

LEMMA PenKept ==
    ASSUME Kept, NEW p \in Pens,
           now' \subseteq now \cup OfPen(p),
           \A c : c \notin OfPen(p) => (c \in now' <=> c \in now),
           Barrel(p) \in now' => InRange(p) \in now',
           UNCHANGED <<was, gamepads>>
    PROVE  Kept'
<1>1. PenApart(p)
  BY PensApart
<1>2. now' \subseteq Controls /\ Key \notin now'
  BY <1>1 DEF PenApart, Kept
<1>3. \A q \in Pens : Barrel(q) \in now' => InRange(q) \in now'
  BY <1>1 DEF PenApart, Kept
<1> QED  BY <1>1, <1>2, <1>3 DEF PenApart, Kept

LEMMA PenSeen ==
    ASSUME NEW p \in Pens, NEW e, ToldBy(e) \subseteq OfPen(p),
           \A c \in ToldBy(e) : c \in now' <=> Says(e, c),
           \A c : c \notin ToldBy(e) => (c \in now' <=> c \in now),
           UNCHANGED <<device, gamepadStates>>
    PROVE  SeenAsTold(e)
<1>1. PenApart(p)
  BY PensApart
<1> QED  BY <1>1, SeenIs DEF PenApart, SeenAsTold

LEMMA ProximityEffect ==
    ASSUME InputInv, NEW e \in Events, e.type \in Proximities, e.id \in Pens,
           OnProximity(e.id, e.type = "pen-in"), device' = device
    PROVE  Effect(e)
<1> DEFINE p == e.id
           in == e.type = "pen-in"
           held == (now \ {Tip(p)}) \cup {InRange(p)}
<1>1. KindsDiffer(p, p)
  BY Different
<1>2. /\ UNCHANGED <<was, touchPoints, gamepadStates, gamepads>> /\ UNCHANGED dialVars
      /\ penStates' = penStates \cup {p}
      /\ now' = IF in THEN held ELSE now \ OfPen(p)
      /\ \E q \in IF in THEN {p} ELSE WithoutPen(p, PensIn(now')) :
            primary' = [primary EXCEPT !.pen = q]
  BY DEF OnProximity, dialVars
<1>3. ToldBy(e) \subseteq OfPen(p)
      /\ (\A c \in ToldBy(e) : c \in now' <=> Says(e, c))
      /\ (\A c : c \notin ToldBy(e) => (c \in now' <=> c \in now))
  <2>1. CASE in
    <3>1. ToldBy(e) = {InRange(p), Tip(p)} /\ \A c : Says(e, c) <=> c = InRange(p)
      BY <2>1, TellsPenIn
    <3>2. now' = held  BY <1>2, <2>1
    <3> QED  BY <1>1, <3>1, <3>2 DEF OfPen, KindsDiffer
  <2>2. CASE ~in
    <3>1. ToldBy(e) = OfPen(p) /\ \A c : ~Says(e, c)  BY <2>2, TellsPenOut DEF Proximities
    <3>2. now' = now \ OfPen(p)  BY <1>2, <2>2
    <3> QED  BY <3>1, <3>2
  <2> QED  BY <2>1, <2>2
<1>4. SeenAsTold(e)
  BY <1>2, <1>3, PenSeen
<1>5. /\ now' \subseteq now \cup OfPen(p)
      /\ \A c : c \notin OfPen(p) => (c \in now' <=> c \in now)
      /\ Barrel(p) \in now' => InRange(p) \in now'
  BY <1>2, <1>3 DEF OfPen
<1>6. Kept'
  BY <1>2, <1>5, PenKept DEF InputInv
<1>7. \E q : primary' = [primary EXCEPT !.pen = q] /\ Chosen(q, PensIn(now'))
  <2>1. CASE in
    <3>1. p \in PensIn(now')  BY <1>2, <2>1 DEF PensIn
    <3> QED  BY <1>2, <2>1, <3>1 DEF Chosen
  <2>2. CASE ~in
    <3>1. PICK q \in WithoutPen(p, PensIn(now')) : primary' = [primary EXCEPT !.pen = q]
      BY <1>2, <2>2
    <3>2. CASE primary.pen = p
      <4>1. Chosen(q, PensIn(now'))  BY <3>1, <3>2, PrimariesAreChosen DEF WithoutPen
      <4> QED  BY <3>1, <4>1
    <3>3. CASE primary.pen # p
      <4>1. q = primary.pen /\ Chosen(primary.pen, PensIn(now))
        BY <3>1, <3>3, PrimaryIs DEF WithoutPen, InputInv
      <4>2. PensIn(now') \subseteq PensIn(now)  BY <1>2, <2>2 DEF PensIn
      <4>3. \A n \in PensIn(now) : n # p => n \in PensIn(now')
        <5>1. \A n : n # p => InRange(n) \notin OfPen(p)  BY PensApart DEF PenApart
        <5> QED  BY <1>5, <5>1 DEF PensIn
      <4> QED  BY <3>1, <3>3, <4>1, <4>2, <4>3 DEF Chosen
    <3> QED  BY <3>2, <3>3
  <2> QED  BY <2>1, <2>2
<1>8. Primary' /\ Dials' /\ Adapters'
  BY <1>2, <1>5, <1>6, <1>7, PenPrimary
<1> QED  BY <1>2, <1>4, <1>6, <1>8 DEF Effect, Opening, WasKept, KeptInv

LEMMA PenEffect ==
    ASSUME InputInv, NEW e \in Events, e.type \in PenEvents, OfItsDevice(e), OnPen(e),
           device' = device
    PROVE  Effect(e)
<1> DEFINE p == e.id
<1>1. p \in Pens /\ e.down \subseteq {Tip(p), Barrel(p)}
  BY DEF OfItsDevice
<1>2. /\ UNCHANGED <<was, touchPoints, gamepadStates, gamepads>> /\ UNCHANGED dialVars
      /\ penStates' = penStates \cup {p}
      /\ now' = (now \ OfPen(p)) \cup {InRange(p)} \cup e.down
      /\ primary' = [primary EXCEPT !.pen = p]
  BY DEF OnPen
<1>3. ToldBy(e) = OfPen(p) /\ \A c : Says(e, c) <=> c = InRange(p) \/ c \in e.down
  BY TellsPen
<1>4. /\ \A c \in ToldBy(e) : c \in now' <=> Says(e, c)
      /\ \A c : c \notin ToldBy(e) => (c \in now' <=> c \in now)
  BY <1>1, <1>2, <1>3 DEF OfPen
<1>5. SeenAsTold(e)
  BY <1>1, <1>2, <1>3, <1>4, PenSeen
<1>6. /\ now' \subseteq now \cup OfPen(p)
      /\ \A c : c \notin OfPen(p) => (c \in now' <=> c \in now)
      /\ Barrel(p) \in now' => InRange(p) \in now'
  BY <1>1, <1>2, <1>3, <1>4 DEF OfPen
<1>7. Kept'
  BY <1>1, <1>2, <1>6, PenKept DEF InputInv
<1>8. Chosen(p, PensIn(now'))
  BY <1>1, <1>2 DEF Chosen, PensIn
<1>9. Primary' /\ Dials' /\ Adapters'
  BY <1>1, <1>2, <1>6, <1>7, <1>8, PenPrimary
<1> QED  BY <1>2, <1>5, <1>7, <1>9 DEF Effect, Opening, WasKept, KeptInv

\* The controls of a gamepad are no others.
PadApart(g) ==
    /\ OfPad(g) \subseteq Controls /\ Key \notin OfPad(g) /\ Pad(g) # Button(g)
    /\ \A n : Finger(n) \notin OfPad(g) /\ InRange(n) \notin OfPad(g) /\ Barrel(n) \notin OfPad(g)
    /\ \A n : n # g => Pad(n) \notin OfPad(g) /\ Button(n) \notin OfPad(g)
    /\ \A n : Button(g) # Pad(n)

LEMMA PadsApart ==
    ASSUME NEW g \in Pads
    PROVE  PadApart(g)
<1>1. \A n : KindsDiffer(g, n) /\ KindsDiffer(n, g)
  BY Different
<1> QED  BY <1>1, ControlsAre DEF PadApart, OfPad, KindsDiffer

LEMMA PadPrimary ==
    ASSUME InputInv, Kept', NEW g \in Pads, NEW q, Chosen(q, gamepadStates'),
           primary' = [primary EXCEPT !.pad = q],
           \A c : c \notin OfPad(g) => (c \in now' <=> c \in now) /\ (c \in was' <=> c \in was),
           gamepads' = gamepadStates', DOMAIN dialByGamepad' \subseteq gamepadStates',
           UNCHANGED <<touchPoints, penStates>>
    PROVE  Primary'
<1>1. /\ primary = [finger |-> primary.finger, pen |-> primary.pen, pad |-> primary.pad]
      /\ Chosen(primary.finger, FingersIn(now)) /\ Chosen(primary.pen, PensIn(now))
      /\ FingersIn(now \cup was) \subseteq touchPoints
      /\ PensIn(now \cup was) \subseteq penStates
  BY PrimaryIs DEF InputInv
<1>2. PadApart(g)
  BY PadsApart
<1>3. /\ FingersIn(now') = FingersIn(now) /\ PensIn(now') = PensIn(now)
      /\ FingersIn(now' \cup was') = FingersIn(now \cup was)
      /\ PensIn(now' \cup was') = PensIn(now \cup was)
  BY <1>2 DEF PadApart, FingersIn, PensIn
<1>4. primary' = [finger |-> primary.finger, pen |-> primary.pen, pad |-> q]
  BY <1>1
<1>5. /\ primary' = [finger |-> primary'.finger, pen |-> primary'.pen, pad |-> primary'.pad]
      /\ Chosen(primary'.finger, FingersIn(now')) /\ Chosen(primary'.pen, PensIn(now'))
      /\ Chosen(primary'.pad, gamepadStates')
  BY <1>1, <1>3, <1>4
<1>6. touchPoints' = touchPoints /\ penStates' = penStates
  OBVIOUS
<1> QED  BY <1>1, <1>3, <1>5, <1>6, PrimaryPrime

\* An event of a stick or a button comes from a gamepad that is open.
LEMMA PadIsOpen ==
    ASSUME InputInv, NEW e, events # <<>>, e = Head(events)
    PROVE  /\ e.type \in PadEvents => e.id \in Pads
           /\ e.type \in {"pad-button", "pad-axis"} => e.id \in gamepads
           /\ e.type = "pad-added" => e.id \notin gamepads
           /\ gamepads = gamepadStates /\ DOMAIN dialByGamepad \subseteq gamepadStates
           /\ 0 \notin gamepads
<1>1. 1 \in DOMAIN events /\ e = events[1] /\ events \in Seq(Events)
  BY Taken DEF InputInv, Queue
<1>2. OfItsDevice(e)
  BY <1>1 DEF InputInv, Queue
<1>3. gamepads = gamepadStates /\ DOMAIN dialByGamepad \subseteq gamepadStates
  BY DEF InputInv, Primary, DevicesAgree
<1>4. 0 \notin gamepads
  BY InputBounds DEF InputInv, Kept
<1>5. /\ e.type \in {"pad-button", "pad-axis"} => e.id \in gamepads
      /\ e.type = "pad-added" => e.id \notin gamepads
  BY <1>1 DEF InputInv, PadQueue
<1> QED  BY <1>2, <1>3, <1>4, <1>5 DEF OfItsDevice

LEMMA PadButtonEffect ==
    ASSUME InputInv, NEW e, events # <<>>, e = Head(events), e.type = "pad-button",
           OnPadButton(e), device' = device
    PROVE  Effect(e)
<1> DEFINE g == e.id
<1>1. g \in Pads /\ g \in gamepads /\ gamepads = gamepadStates
      /\ DOMAIN dialByGamepad \subseteq gamepadStates
  BY PadIsOpen DEF PadEvents
<1>2. ToldBy(e) = {Button(g)} /\ \A c : Says(e, c) <=> e.down # {}
  BY TellsPadButton
<1>3. /\ UNCHANGED <<was, touchPoints, penStates, gamepads>> /\ UNCHANGED dialVars
      /\ gamepadStates' = gamepadStates /\ primary' = [primary EXCEPT !.pad = g]
      /\ \A c : c # Button(g) => (c \in now' <=> c \in now)
      /\ now' \subseteq now \cup {Button(g)}
      /\ Button(g) \in now' <=> e.down # {}
  BY <1>1 DEF OnPadButton, Put
<1>4. PadApart(g)
  BY <1>1, PadsApart
<1>5. SeenAsTold(e)
  BY <1>2, <1>3, <1>4, SeenIs DEF SeenAsTold, PadApart, OfPad
<1>6. Kept'
  <2>1. now' \subseteq Controls /\ Key \notin now'
    BY <1>3, <1>4 DEF InputInv, Kept, PadApart, OfPad
  <2>2. \A p \in Pens : Barrel(p) \in now' => InRange(p) \in now'
    BY <1>3, <1>4 DEF InputInv, Kept, PadApart, OfPad
  <2>3. \A h \in Pads : Pad(h) \notin now' \cup was'
    BY <1>3, <1>4 DEF InputInv, Kept, PadApart, OfPad
  <2>4. \A h \in Pads \ gamepads' : Button(h) \notin now' \cup was'
    BY <1>1, <1>3, <1>4 DEF InputInv, Kept, PadApart, OfPad
  <2> QED  BY <1>3, <2>1, <2>2, <2>3, <2>4 DEF InputInv, Kept
<1>7. Primary'
  <2>1. Chosen(g, gamepadStates')  BY <1>1, <1>3 DEF Chosen
  <2>2. \A c : c \notin OfPad(g) => (c \in now' <=> c \in now) /\ (c \in was' <=> c \in was)
    BY <1>3 DEF OfPad
  <2>3. gamepads' = gamepadStates' /\ DOMAIN dialByGamepad' \subseteq gamepadStates'
    BY <1>1, <1>3 DEF dialVars
  <2> QED  BY <1>1, <1>3, <1>6, <2>1, <2>2, <2>3, PadPrimary
<1>8. Dials' /\ Adapters'
  BY <1>3, DialScriptKeeps DEF InputInv
<1> QED  BY <1>3, <1>5, <1>6, <1>7, <1>8 DEF Effect, Opening, WasKept, KeptInv

LEMMA PadAxisEffect ==
    ASSUME InputInv, NEW e, events # <<>>, e = Head(events), e.type = "pad-axis",
           OnPadAxis(e), device' = device
    PROVE  Effect(e)
<1> DEFINE g == e.id
<1>1. g \in Pads /\ g \in gamepads /\ gamepads = gamepadStates
      /\ DOMAIN dialByGamepad \subseteq gamepadStates
  BY PadIsOpen DEF PadEvents
<1>2. ToldBy(e) = {}
  BY TellsPadAxis
<1>3. /\ UNCHANGED <<now, was, touchPoints, penStates, gamepads>>
      /\ gamepadStates' = gamepadStates /\ primary' = [primary EXCEPT !.pad = g]
      /\ Process(g, axes'[g])
  BY <1>1 DEF OnPadAxis
<1>4. Dials' /\ Adapters' /\ DOMAIN dialByGamepad' \subseteq DOMAIN dialByGamepad \cup {g}
  BY <1>3, ProcessKeeps DEF InputInv
<1>5. SeenAsTold(e)
  BY <1>2, <1>3, SeenIs DEF SeenAsTold
<1>6. Kept'
  BY <1>3 DEF InputInv, Kept
<1>7. Primary'
  <2>1. Chosen(g, gamepadStates')  BY <1>1, <1>3 DEF Chosen
  <2>2. \A c : c \notin OfPad(g) => (c \in now' <=> c \in now) /\ (c \in was' <=> c \in was)
    BY <1>3
  <2>3. gamepads' = gamepadStates' /\ DOMAIN dialByGamepad' \subseteq gamepadStates'
    BY <1>1, <1>3, <1>4
  <2> QED  BY <1>1, <1>3, <1>6, <2>1, <2>2, <2>3, PadPrimary
<1> QED  BY <1>3, <1>4, <1>5, <1>6, <1>7 DEF Effect, Opening, WasKept, KeptInv

LEMMA PadAddedEffect ==
    ASSUME InputInv, NEW e, events # <<>>, e = Head(events), e.type = "pad-added",
           OnPadAdded(e.id), device' = device
    PROVE  Effect(e)
<1> DEFINE g == e.id
<1>1. /\ g \in Pads /\ g \notin gamepads /\ gamepads = gamepadStates
      /\ DOMAIN dialByGamepad \subseteq gamepadStates
  BY PadIsOpen DEF PadEvents
<1>2. ToldBy(e) = OfPad(g) /\ \A c : Says(e, c) <=> c = Pad(g)
  BY TellsPadAdded
<1>3. UNCHANGED <<now, was, touchPoints, penStates>> /\ UNCHANGED dialVars
  BY DEF OnPadAdded, dialVars
<1>4. PadApart(g)
  BY <1>1, PadsApart
<1>5. \/ /\ Pad(g) \in device
         /\ gamepads' = gamepads \cup {g} /\ gamepadStates' = gamepadStates \cup {g}
      \/ Pad(g) \notin device /\ gamepads' = gamepads /\ gamepadStates' = gamepadStates
  BY DEF OnPadAdded
<1>6. gamepads' = gamepadStates' /\ (g \in gamepadStates' <=> Pad(g) \in device)
      /\ gamepadStates \subseteq gamepadStates' /\ gamepadStates' \subseteq gamepadStates \cup {g}
  BY <1>1, <1>5
<1>7. \E q : primary' = [primary EXCEPT !.pad = q] /\ Chosen(q, gamepadStates')
  <2>1. CASE Pad(g) \in device
    <3>1. PICK q \in Primaries(primary.pad, g, gamepadStates') : primary' = [primary EXCEPT !.pad = q]
      BY <2>1 DEF OnPadAdded
    <3> QED  BY <3>1, PrimariesAreChosen
  <2>2. CASE Pad(g) \notin device
    <3>1. primary' = primary /\ gamepadStates' = gamepadStates  BY <2>2 DEF OnPadAdded
    <3>2. /\ primary = [finger |-> primary.finger, pen |-> primary.pen, pad |-> primary.pad]
          /\ Chosen(primary.pad, gamepadStates)
      BY PrimaryIs DEF InputInv
    <3>3. primary' = [primary EXCEPT !.pad = primary.pad]  BY <3>1, <3>2
    <3> QED  BY <3>1, <3>2, <3>3
  <2> QED  BY <2>1, <2>2
<1>8. Kept'
  BY <1>1, <1>3, <1>5 DEF InputInv, Kept
<1>9. SeenAsTold(e)
  <2>1. Button(g) \notin now  BY <1>1 DEF InputInv, Kept
  <2>2. Seen(Button(g))' <=> Says(e, Button(g))
    BY <1>2, <1>3, <1>4, <2>1, SeenIs DEF PadApart, OfPad
  <2>3. Seen(Pad(g))' <=> Pad(g) \in device
    <3>1. Pad(g) \notin now' /\ Pad(g) # Key /\ \A n : Pad(n) = Pad(g) => n = g
      BY <1>1, <1>3, <1>4 DEF InputInv, Kept, PadApart, OfPad
    <3> QED  BY <1>6, <3>1 DEF Seen, DownNow
  <2>4. ASSUME NEW c \in Controls \ ToldBy(e) PROVE Seen(c)' <=> Seen(c)
    <3>1. c # Pad(g)  BY <1>2, <2>4 DEF OfPad
    <3> QED  BY <1>3, <1>6, <3>1 DEF Seen, DownNow
  <2> QED  BY <1>2, <2>2, <2>3, <2>4 DEF SeenAsTold, OfPad
<1>10. Primary'
  <2>1. \A c : c \notin OfPad(g) => (c \in now' <=> c \in now) /\ (c \in was' <=> c \in was)
    BY <1>3
  <2>2. DOMAIN dialByGamepad' \subseteq gamepadStates'  BY <1>1, <1>3, <1>6 DEF dialVars
  <2> QED  BY <1>1, <1>3, <1>6, <1>7, <1>8, <2>1, <2>2, PadPrimary
<1>11. Dials' /\ Adapters'
  BY <1>3, DialScriptKeeps DEF InputInv
<1> QED  BY <1>3, <1>5, <1>8, <1>9, <1>10, <1>11 DEF Effect, Opening, WasKept, KeptInv

LEMMA PadRemovedEffect ==
    ASSUME InputInv, NEW e, events # <<>>, e = Head(events), e.type = "pad-removed",
           OnPadRemoved(e.id), device' = device
    PROVE  Effect(e)
<1> DEFINE g == e.id
<1>1. g \in Pads /\ gamepads = gamepadStates /\ DOMAIN dialByGamepad \subseteq gamepadStates
  BY PadIsOpen DEF PadEvents
<1>2. ToldBy(e) = OfPad(g) /\ \A c : ~Says(e, c)
  BY TellsPadRemoved
<1>3. /\ gamepads' = gamepads \ {g} /\ gamepadStates' = gamepadStates \ {g}
      /\ now' = now \ OfPad(g) /\ was' = was \ OfPad(g)
      /\ DialDeactivate(g) /\ UNCHANGED <<touchPoints, penStates>>
  BY DEF OnPadRemoved
<1>4. PadApart(g)
  BY <1>1, PadsApart
<1>5. Dials' /\ Adapters' /\ DOMAIN dialByGamepad' = DOMAIN dialByGamepad \ {g}
  BY <1>3, DeactivateKeeps DEF InputInv
<1>6. \E q : primary' = [primary EXCEPT !.pad = q] /\ Chosen(q, gamepadStates')
  <2>1. CASE primary.pad = g
    <3>1. PICK q \in Primaries(0, 0, gamepadStates') : primary' = [primary EXCEPT !.pad = q]
      BY <2>1 DEF OnPadRemoved
    <3> QED  BY <3>1, PrimariesAreChosen
  <2>2. CASE primary.pad # g
    <3>1. primary' = primary  BY <2>2 DEF OnPadRemoved
    <3>2. /\ primary = [finger |-> primary.finger, pen |-> primary.pen, pad |-> primary.pad]
          /\ Chosen(primary.pad, gamepadStates)
      BY PrimaryIs DEF InputInv
    <3>3. primary' = [primary EXCEPT !.pad = primary.pad]  BY <3>1, <3>2
    <3>4. Chosen(primary.pad, gamepadStates')  BY <1>3, <2>2, <3>2 DEF Chosen
    <3> QED  BY <3>3, <3>4
  <2> QED  BY <2>1, <2>2
<1>7. Kept'
  <2>1. now' \subseteq Controls /\ was' \subseteq Controls /\ Key \notin now' /\ gamepads' \subseteq Pads
    BY <1>3 DEF InputInv, Kept
  <2>2. \A p \in Pens : Barrel(p) \in now' => InRange(p) \in now'
    BY <1>3, <1>4 DEF InputInv, Kept, PadApart
  <2>3. \A h \in Pads : Pad(h) \notin now' \cup was'  BY <1>3 DEF InputInv, Kept
  <2>4. \A h \in Pads \ gamepads' : Button(h) \notin now' \cup was'
    BY <1>3 DEF InputInv, Kept, OfPad
  <2> QED  BY <2>1, <2>2, <2>3, <2>4 DEF Kept
<1>8. SeenAsTold(e)
  <2>1. Seen(Button(g))' <=> FALSE  BY <1>3, <1>4, SeenIs DEF PadApart, OfPad
  <2>2. Seen(Pad(g))' <=> FALSE
    <3>1. Pad(g) \notin now' /\ Pad(g) # Key /\ \A n : Pad(n) = Pad(g) => n = g
      BY <1>3, <1>4 DEF PadApart, OfPad
    <3> QED  BY <1>3, <3>1 DEF Seen, DownNow
  <2>3. ASSUME NEW c \in Controls \ ToldBy(e) PROVE Seen(c)' <=> Seen(c)
    <3>1. c # Pad(g) /\ c \notin OfPad(g)  BY <1>2, <2>3 DEF OfPad
    <3> QED  BY <1>3, <3>1 DEF Seen, DownNow
  <2> QED  BY <1>2, <2>1, <2>2, <2>3 DEF SeenAsTold, OfPad
<1>9. Primary'
  <2>1. \A c : c \notin OfPad(g) => (c \in now' <=> c \in now) /\ (c \in was' <=> c \in was)
    BY <1>3
  <2>2. DOMAIN dialByGamepad' \subseteq gamepadStates' /\ gamepads' = gamepadStates'
    BY <1>1, <1>3, <1>5
  <2> QED  BY <1>1, <1>3, <1>6, <1>7, <2>1, <2>2, PadPrimary
<1> QED  BY <1>3, <1>5, <1>7, <1>8, <1>9 DEF Effect, Opening, WasKept, KeptInv

LEMMA HandleKeepsInv ==
    ASSUME InputInv, Handle
    PROVE  InputInv'
<1> DEFINE e == Head(events)
<1>1. /\ frame = "poll" /\ events # <<>> /\ events' = Tail(events)
      /\ UNCHANGED <<device, frame, woken, shown>>
  BY DEF Handle
<1>2. events \in Seq(Events) /\ 1 \in DOMAIN events /\ e = events[1] /\ e \in Events /\ OfItsDevice(e)
  <2>1. events \in Seq(Events)  BY DEF InputInv, Queue
  <2> QED  BY <1>1, <2>1, Taken DEF InputInv, Queue
<1>3. CASE paused
  <2>1. UNCHANGED stateVars /\ UNCHANGED dialVars /\ stale' = stale \cup ControlsOf(e)
    BY <1>3 DEF Handle
  <2>2. KeptInv'  BY <2>1, KeptStays DEF InputInv, KeptInv
  <2>3. now' = now /\ was' = was /\ gamepads' = gamepads /\ gamepadStates' = gamepadStates
    BY <2>1 DEF stateVars
  <2>4. Taking(e) /\ Queue /\ PadQueue /\ Follow /\ DevicesThere /\ Edges
    BY <1>1, <2>3 DEF Taking, Opening, InputInv
  <2>5. Queue' /\ DevicesThere' /\ PadQueue'  BY <2>4, TakenQueue, TakenPadQueue
  <2> HIDE DEF e
  <2>6. Follow'
    <3>1. \A c \in ToldBy(e) : c \in stale'  BY <2>1, ToldIsSwallowed
    <3>2. \A c : Seen(c)' <=> Seen(c)  BY <1>1, <2>3, SeenIs
    <3> QED  BY <2>1, <2>4, <3>1, <3>2, TakenFollow
  <2>7. Edges'
    <3>1. UNCHANGED <<frame, woken, shown>>  BY <1>1
    <3> QED  BY <1>1, <2>3, <2>4, <3>1, TakenEdges
  <2> QED  BY <2>2, <2>5, <2>6, <2>7 DEF InputInv, KeptInv
<1>4. CASE ~paused
  <2>1. stale' = stale \ ToldBy(e) /\ Handled(e)  BY <1>4 DEF Handle
  <2> HIDE DEF e
  <2>2. device' = device /\ e = Head(events)  BY <1>1 DEF e
  <2>3. Effect(e)
    <3>1. CASE e.type = "key" /\ OnKey  BY <1>2, <2>2, <3>1, KeyEffect
    <3>2. CASE e.type = "mouse" /\ OnMouse(e)  BY <1>2, <2>2, <3>2, MouseEffect
    <3>3. CASE e.type \in TouchEvents /\ OnTouch(e.id, e.type \in TouchesDown)
      BY <1>2, <2>2, <3>3, TouchEffect DEF OfItsDevice
    <3>4. CASE e.type \in Proximities /\ OnProximity(e.id, e.type = "pen-in")
      BY <1>2, <2>2, <3>4, ProximityEffect DEF OfItsDevice
    <3>5. CASE e.type \in PenEvents /\ OnPen(e)  BY <1>2, <2>2, <3>5, PenEffect
    <3>6. CASE e.type = "pad-button" /\ OnPadButton(e)  BY <1>1, <2>2, <3>6, PadButtonEffect
    <3>7. CASE e.type = "pad-axis" /\ OnPadAxis(e)  BY <1>1, <2>2, <3>7, PadAxisEffect
    <3>8. CASE e.type = "pad-added" /\ OnPadAdded(e.id)  BY <1>1, <2>2, <3>8, PadAddedEffect
    <3>9. CASE e.type = "pad-removed" /\ OnPadRemoved(e.id)  BY <1>1, <2>2, <3>9, PadRemovedEffect
    <3> QED  BY <2>1, <3>1, <3>2, <3>3, <3>4, <3>5, <3>6, <3>7, <3>8, <3>9 DEF Handled
  <2> QED  BY <1>1, <2>1, <2>2, <2>3, EffectKeepsInv
<1> QED  BY <1>3, <1>4

-----------------------------------------------------------------------------
(* Whatever the other parts do.                                            *)

LEMMA InputInitInv == InputInit => InputInv
<1> SUFFICES ASSUME InputInit PROVE InputInv
  OBVIOUS
<1>1. /\ device = {} /\ events = <<>> /\ now = {} /\ was = {} /\ shown = {} /\ stale = {}
      /\ touchPoints = {} /\ penStates = {} /\ gamepadStates = {} /\ gamepads = {}
      /\ primary = [finger |-> 0, pen |-> 0, pad |-> 0]
      /\ frame = "top" /\ woken = FALSE
  BY DEF InputInit
<1>2. /\ dialByGamepad = <<>> /\ subscriptions = <<>> /\ subscriptionIds = <<>>
      /\ nextCallbackId = 1 /\ adapter = <<>>
  BY DEF InputInit, DialInit
<1>3. DOMAIN <<>> = {} /\ <<>> \in Seq(Events) /\ <<>> = [x \in {} |-> 0]
  OBVIOUS
<1>4. DevicesThere
  BY <1>1 DEF DevicesThere
<1>5. Queue /\ PadQueue
  BY <1>1, <1>3 DEF Queue, PadQueue
<1>6. Kept
  BY <1>1 DEF Kept
<1>7. Follow
  BY <1>1, <1>3 DEF Follow, Seen, DownNow
<1>8. Edges
  BY <1>1 DEF Edges
<1>9. Primary
  <2>1. FingersIn({}) = {} /\ PensIn({}) = {}  BY DEF FingersIn, PensIn
  <2>2. DOMAIN dialByGamepad = {} /\ now \cup was = {}  BY <1>1, <1>2, <1>3
  <2>3. Chosen(0, {})  BY DEF Chosen
  <2> QED  BY <1>1, <1>6, <2>1, <2>2, <2>3, PrimaryIs
<1>10. Dials
  <2>1. /\ DOMAIN subscriptions = {} /\ DOMAIN subscriptionIds = {}
        /\ DOMAIN dialByGamepad = {} /\ DOMAIN adapter = {}
    BY <1>2, <1>3
  <2>2. adapter = [x \in DOMAIN adapter |-> adapter[x]]  BY <1>2
  <2> QED  BY <1>2, <2>1, <2>2 DEF Dials, DialTablesAgree
<1>11. Adapters
  BY <1>2, <1>3 DEF Adapters
<1> QED
  BY <1>4, <1>5, <1>6, <1>7, <1>8, <1>9, <1>10, <1>11 DEF InputInv

LEMMA InputStays ==
    ASSUME InputInv, UNCHANGED inputVars
    PROVE  InputInv'
<1>1. /\ UNCHANGED stateVars /\ UNCHANGED dialVars
      /\ UNCHANGED <<device, events, stale, frame, woken, shown>>
  BY DEF inputVars
<1>2. KeptInv'
  BY <1>1, KeptStays DEF InputInv, KeptInv
<1>3. DevicesThere' /\ Queue' /\ PadQueue'
  BY <1>1 DEF InputInv, DevicesThere, Queue, PadQueue, stateVars
<1>4. Follow'
  BY <1>1 DEF InputInv, Follow, Seen, DownNow, stateVars
<1>5. Edges'
  BY <1>1 DEF InputInv, Edges, Over, stateVars
<1> QED  BY <1>2, <1>3, <1>4, <1>5 DEF InputInv, KeptInv

LEMMA InputNextKeepsInv == InputInv /\ [Next]_vars => InputInv'
<1> SUFFICES ASSUME InputInv, [Next]_vars PROVE InputInv'
  OBVIOUS
<1>1. CASE UNCHANGED inputVars
  BY <1>1, InputStays
<1>2. CASE InputNext
  BY <1>2, PumpKeepsInv, LoopKeepsInv, HandleKeepsInv, ScriptKeepsInv DEF InputNext
<1>3. CASE UNCHANGED vars
  BY <1>1, <1>3 DEF vars
<1>4. CASE Next
  BY <1>1, <1>2, <1>4 DEF Next, Moves
<1> QED  BY <1>3, <1>4

\* When scripts look, no event waits: what is not stale is seen as it is.
LEMMA InvIsAgreement == InputInv => InputAgrees
<1> SUFFICES ASSUME InputInv PROVE InputAgrees
  OBVIOUS
<1>1. StateFollowsDevices
  <2> SUFFICES ASSUME frame = "tick", NEW c \in Controls \ stale
               PROVE  (c \in DownNow \/ \E g \in gamepadStates : c = Pad(g)) <=> c \in device
    BY DEF StateFollowsDevices
  <2>1. events = <<>>  BY DEF InputInv, Edges
  <2>2. Untold(events, c, 0)  BY <2>1 DEF Untold
  <2> QED  BY <2>2 DEF InputInv, Follow, Seen
<1>2. EdgesAreTrue
  <2> SUFFICES ASSUME frame = "tick", NEW c \in Controls \ (IF woken THEN {Key} ELSE {})
               PROVE  \/ KeyState(c) = KeyStatus(c \in DownNow, c \in shown)
                      \/ \E g \in Pads \ gamepadStates : c = Button(g) /\ KeyState(c) = "None"
    BY DEF EdgesAreTrue
  <2>1. CASE c \in was <=> c \in shown
    <3>1. (c \in was) = (c \in shown)  BY <2>1
    <3> QED  BY <3>1 DEF KeyState
  <2>2. CASE \E g \in Pads : c = Button(g) /\ Over(g)
    <3>1. PICK g \in Pads : c = Button(g) /\ Over(g)  BY <2>2
    <3>2. g \notin gamepads /\ gamepads = gamepadStates
      BY <3>1 DEF Over, InputInv, Primary, DevicesAgree
    <3>3. c \notin now /\ c \notin was  BY <3>1, <3>2 DEF InputInv, Kept
    <3>4. c # Key  BY <3>1, Different DEF KindsDiffer
    <3>5. ~(c \in DownNow)  BY <3>3, <3>4 DEF DownNow
    <3>6. KeyState(c) = "None"  BY <3>3, <3>5 DEF KeyState, KeyStatus
    <3> QED  BY <3>1, <3>2, <3>6
  <2>3. CASE c # Key  BY <2>1, <2>2, <2>3 DEF InputInv, Edges
  <2>4. CASE c = Key
    <3>1. ~woken  BY <2>4
    <3>2. Key \in was <=> Key \in shown  BY <3>1 DEF InputInv, Edges
    <3> QED  BY <2>1, <2>4, <3>2
  <2> QED  BY <2>3, <2>4
<1>3. DevicesAgree /\ DialTablesAgree
  BY DEF InputInv, Primary, Dials
<1> QED  BY <1>1, <1>2, <1>3 DEF InputAgrees

\* What scripts are told of keyboard, mouse, fingers, pens and gamepads when
\* they look is what SDL knows, but for what a pause swallowed; a press and a
\* release are told once; and the primary devices and the dials are of devices
\* that are there (Engine::run, InputState, InputDialType).
THEOREM InputAlwaysAgrees == Spec => []InputAgrees
<1>1. Init => InputInv
  BY InputInitInv DEF Init
<1>2. InputInv /\ [Next]_vars => InputInv'
  BY InputNextKeepsInv
<1>3. Spec => []InputInv
  BY <1>1, <1>2, PTL DEF Spec
<1> QED  BY <1>3, InvIsAgreement, PTL

-----------------------------------------------------------------------------
(* Remainders.                                                             *)

\* What is whole frames: that many times the channels.
Whole(n) == \E k \in Int : n = k * Channels

\* A place of the ring, and one beyond its end.
LEMMA Around ==
    ASSUME NEW K \in Nat \ {0}, NEW x \in Nat, x < 3 * K
    PROVE  x % K = IF x < K THEN x ELSE IF x < 2 * K THEN x - K ELSE x - 2 * K
<1>1. \A q \in Int, r \in 0..(K - 1) : x = K * q + r => x % K = r
  OBVIOUS
<1>2. x < K => x % K = x
  <2> SUFFICES ASSUME x < K PROVE x % K = x  OBVIOUS
  <2> QED  BY <1>1
<1> QED  BY <1>1, <1>2

\* The remainder of a number that is given by its quotient.
LEMMA RemainderIs ==
    ASSUME NEW K \in Nat \ {0}, NEW q \in Int, NEW r \in 0..(K - 1)
    PROVE  (K * q + r) % K = r
OBVIOUS

LEMMA QuotientIs ==
    ASSUME NEW K \in Nat \ {0}, NEW x \in Int
    PROVE  /\ x = K * (x \div K) + (x % K)
           /\ x \div K \in Int /\ x % K \in 0..(K - 1)
OBVIOUS

LEMMA WholeHasNoRest ==
    ASSUME NEW n \in Int
    PROVE  n % Channels = 0 <=> Whole(n)
<1>0. Channels \in Nat \ {0}  BY RecordingBounds
<1>1. ASSUME n % Channels = 0 PROVE Whole(n)
  <2>1. n = (n \div Channels) * Channels /\ n \div Channels \in Int  BY <1>0, <1>1, QuotientIs
  <2> QED  BY <2>1 DEF Whole
<1>2. ASSUME Whole(n) PROVE n % Channels = 0
  <2>1. PICK k \in Int : n = k * Channels  BY <1>2 DEF Whole
  <2>2. (Channels * k + 0) % Channels = 0  BY <1>0, RemainderIs
  <2> QED  BY <1>0, <2>1, <2>2
<1> QED  BY <1>1, <1>2

LEMMA WholeAdds ==
    ASSUME NEW m \in Int, NEW n \in Int, Whole(m), Whole(n)
    PROVE  Whole(m + n) /\ Whole(m - n)
<1>0. Channels \in Nat \ {0}  BY RecordingBounds
<1>1. PICK j \in Int : m = j * Channels  BY DEF Whole
<1>2. PICK k \in Int : n = k * Channels  BY DEF Whole
<1>3. m + n = (j + k) * Channels /\ m - n = (j - k) * Channels  BY <1>0, <1>1, <1>2
<1>4. j + k \in Int /\ j - k \in Int  OBVIOUS
<1> QED  BY <1>3, <1>4 DEF Whole

\* Whole frames make no difference to the channel.
LEMMA SameChannel ==
    ASSUME NEW m \in Int, NEW n \in Int, Whole(m)
    PROVE  (m + n) % Channels = n % Channels
<1>0. Channels \in Nat \ {0}  BY RecordingBounds
<1>1. PICK k \in Int : m = k * Channels  BY DEF Whole
<1>2. n = Channels * (n \div Channels) + (n % Channels) /\ n \div Channels \in Int
      /\ n % Channels \in 0..(Channels - 1)  BY <1>0, QuotientIs
<1> DEFINE q == k + (n \div Channels)
           r == n % Channels
<1>3. m + n = Channels * q + r  BY <1>0, <1>1, <1>2
<1>4. q \in Int /\ r \in 0..(Channels - 1)  BY <1>2
<1> HIDE DEF q, r
<1>5. (Channels * q + r) % Channels = r  BY <1>0, <1>4, RemainderIs
<1> QED  BY <1>3, <1>5 DEF r

-----------------------------------------------------------------------------
(* The ring.                                                               *)

\* What the ring holds, from the oldest.
Slot(i) == data[(head + i) % Capacity]

\* Samples lie in the order of their channels, none is newer than what was
\* delivered, and within a frame one follows the other.
RingInv ==
    /\ data \in [0..(Capacity - 1) -> Nat]
    /\ head \in 0..(Capacity - 1) /\ size \in 0..Capacity
    /\ {droppedSamples, heard, taken, cleared, overrun} \subseteq Nat
    /\ Whole(size) /\ Whole(heard)
    /\ \A i \in 0..(size - 1) : Whole(Slot(i) - i - 1) /\ Slot(i) <= heard
    /\ \A i \in 1..(size - 1) :
          IF Whole(i) THEN Slot(i - 1) < Slot(i) ELSE Slot(i) = Slot(i - 1) + 1
    /\ heard = taken + cleared + size + droppedSamples + overrun

LEMMA CapacityIs == Capacity \in Nat \ {0} /\ Whole(Capacity) /\ Channels \in Nat \ {0}
<1>1. BufferFrames \in Nat \ {0} /\ Channels \in Nat \ {0}  BY RecordingBounds
<1>2. BufferFrames * Channels \in Nat \ {0}  BY <1>1
<1> QED  BY <1>1, <1>2 DEF Capacity, Whole

LEMMA SlotIs ==
    ASSUME RingInv, NEW i \in 0..(size - 1)
    PROVE  /\ Slot(i) \in Nat
           /\ Held[i + 1] = Slot(i)
<1>1. head + i \in Int /\ (head + i) % Capacity \in 0..(Capacity - 1)
  BY CapacityIs DEF RingInv
<1>2. i + 1 \in 1..size /\ head + (i + 1) - 1 = head + i  BY CapacityIs DEF RingInv
<1> QED  BY <1>1, <1>2 DEF RingInv, Slot, Held

LEMMA RingIsWhole == ASSUME RingInv PROVE RecordingIsWhole
<1>1. \A i \in 1..size : Held[i] = Slot(i - 1) /\ Slot(i - 1) \in Nat
  <2> TAKE i \in 1..size
  <2>1. i - 1 \in 0..(size - 1) /\ i - 1 + 1 = i  BY DEF RingInv
  <2> QED  BY <2>1, SlotIs
<1>2. ASSUME NEW i \in 1..size PROVE Held[i] % Channels = i % Channels
  <2>1. i - 1 \in 0..(size - 1)  BY DEF RingInv
  <2> DEFINE m == Slot(i - 1) - (i - 1) - 1
  <2>2. m \in Int /\ Whole(m) /\ m + i = Held[i]  BY <1>1, <2>1 DEF RingInv
  <2> HIDE DEF m
  <2> QED  BY <2>2, SameChannel
<1>3. ASSUME NEW i \in 1..(size - 1)
      PROVE  IF i % Channels = 0 THEN Held[i] < Held[i + 1] ELSE Held[i + 1] = Held[i] + 1
  <2>1. i \in 1..size /\ i + 1 \in 1..size /\ i + 1 - 1 = i  BY DEF RingInv
  <2>2. Held[i] = Slot(i - 1) /\ Held[i + 1] = Slot(i)  BY <1>1, <2>1
  <2>3. i % Channels = 0 <=> Whole(i)  BY WholeHasNoRest
  <2> QED  BY <2>2, <2>3 DEF RingInv
<1>4. size % Channels = 0  BY WholeHasNoRest DEF RingInv
<1> QED  BY <1>2, <1>3, <1>4 DEF RecordingIsWhole, RingInv

LEMMA RingInitially == ASSUME RecordingInit PROVE RingInv
<1>1. data \in [0..(Capacity - 1) -> Nat] /\ head \in 0..(Capacity - 1) /\ size \in 0..Capacity
  BY CapacityIs DEF RecordingInit
<1>2. Whole(0)  BY CapacityIs DEF Whole
<1> QED  BY <1>1, <1>2, CapacityIs DEF RecordingInit, RingInv

LEMMA Below ==
    ASSUME NEW K \in Nat, NEW m \in Nat, NEW n \in Nat, m < K, n < K
    PROVE  m + n \in Nat /\ m + n < 2 * K /\ m + n < 3 * K
OBVIOUS

\* The oldest samples leave, and what is left is where it was.
LEMMA ReadsLeaveTheRest ==
    ASSUME RingInv, NEW frames \in Nat, ReadFrames(frames)
    PROVE  RingInv'
<1> DEFINE asked == frames * Channels
           count == IF asked < size THEN asked ELSE size
<1>0. Capacity \in Nat \ {0}  BY CapacityIs
<1>1. count \in 0..size /\ Whole(count)
  <2>1. Whole(asked)  BY DEF Whole
  <2>2. asked \in Nat  BY CapacityIs
  <2> HIDE DEF asked
  <2> QED  BY <2>1, <2>2 DEF RingInv
<1>2. /\ head' = (head + count) % Capacity /\ size' = size - count
      /\ taken' = taken + count
      /\ UNCHANGED <<data, droppedSamples, heard, cleared, overrun>>
  BY DEF ReadFrames
<1> HIDE DEF count
<1>3. head' \in 0..(Capacity - 1) /\ size' \in 0..Capacity
  BY <1>0, <1>1, <1>2 DEF RingInv
<1>4. \A i \in 0..(size' - 1) : i + count \in 0..(size - 1) /\ Slot(i)' = Slot(i + count)
  <2> TAKE i \in 0..(size' - 1)
  <2>1. i + count \in 0..(size - 1) /\ i \in Nat /\ i < Capacity  BY <1>0, <1>1, <1>2 DEF RingInv
  <2>2. head' = IF head + count < Capacity THEN head + count ELSE (head + count) - Capacity
    <3> DEFINE z == head + count
    <3>1. z \in Nat /\ z < 2 * Capacity /\ z < 3 * Capacity /\ head' = z % Capacity
      BY <1>0, <1>1, <1>2 DEF RingInv
    <3> HIDE DEF z
    <3>2. head' = IF z < Capacity THEN z ELSE z - Capacity  BY <1>0, <3>1, Around
    <3> QED  BY <3>2 DEF z
  <2> DEFINE x == head' + i
             y == head + (i + count)
  <2>3. x \in Nat /\ x < 3 * Capacity /\ y \in Nat /\ y < 3 * Capacity
    <3>1. head \in Nat /\ head' \in Nat /\ head < Capacity /\ head' < Capacity /\ size <= Capacity
          /\ size \in Nat /\ count \in Nat
      BY <1>0, <1>1, <1>3 DEF RingInv
    <3>2. i + count < Capacity /\ i + count \in Nat  BY <1>0, <2>1, <3>1
    <3>3. i \in Nat /\ i < Capacity  BY <2>1
    <3>6. x \in Nat /\ x < 3 * Capacity  BY <1>0, <3>1, <3>3, Below
    <3>5. y \in Nat /\ y < 3 * Capacity  BY <1>0, <3>1, <3>2
    <3> QED  BY <3>5, <3>6
  <2>4. x = y \/ x = y - Capacity  BY <1>0, <1>1, <2>2 DEF RingInv
  <2>5. x % Capacity = y % Capacity
    <3> HIDE DEF x, y
    <3>1. x % Capacity = IF x < Capacity THEN x ELSE IF x < 2 * Capacity THEN x - Capacity ELSE x - 2 * Capacity
      BY <1>0, <2>3, Around
    <3>2. y % Capacity = IF y < Capacity THEN y ELSE IF y < 2 * Capacity THEN y - Capacity ELSE y - 2 * Capacity
      BY <1>0, <2>3, Around
    <3> QED  BY <1>0, <2>3, <2>4, <3>1, <3>2
  <2> QED  BY <1>2, <2>1, <2>5 DEF Slot
<1>5. \A i \in 0..(size' - 1) : (Whole(Slot(i) - i - 1) /\ Slot(i) <= heard)'
  <2> TAKE i \in 0..(size' - 1)
  <2> DEFINE s == Slot(i + count)
  <2>1. s \in Nat /\ Slot(i)' = s /\ Whole(s - (i + count) - 1) /\ s <= heard
    BY <1>4, SlotIs DEF RingInv
  <2>2. i \in Int /\ count \in Int /\ size \in Nat  BY <1>1, <1>2 DEF RingInv
  <2> HIDE DEF s
  <2>3. (s - (i + count) - 1) + count = s - i - 1 /\ s - (i + count) - 1 \in Int  BY <2>1, <2>2
  <2>4. Whole(s - i - 1)  BY <1>1, <2>1, <2>2, <2>3, WholeAdds
  <2> QED  BY <1>2, <2>1, <2>4 DEF Whole
<1>6. \A i \in 1..(size' - 1) :
          (IF Whole(i) THEN Slot(i - 1) < Slot(i) ELSE Slot(i) = Slot(i - 1) + 1)'
  <2> TAKE i \in 1..(size' - 1)
  <2>1. i \in Int /\ count \in Int /\ i + count \in 1..(size - 1)
        /\ i - 1 + count = i + count - 1 /\ i - 1 \in 0..(size' - 1) /\ i \in 0..(size' - 1)
    BY <1>1, <1>2 DEF RingInv
  <2>2. Slot(i)' = Slot(i + count) /\ Slot(i - 1)' = Slot(i + count - 1)  BY <1>4, <2>1
  <2>3. Whole(i) <=> Whole(i + count)
    <3>1. Whole(i) => Whole(i + count)  BY <1>1, <2>1, WholeAdds
    <3>2. Whole(i + count) => Whole(i + count - count)  BY <1>1, <2>1, WholeAdds
    <3>3. i + count - count = i  BY <2>1
    <3> QED  BY <3>1, <3>2, <3>3
  <2>4. IF Whole(i + count) THEN Slot(i + count - 1) < Slot(i + count)
        ELSE Slot(i + count) = Slot(i + count - 1) + 1
    BY <2>1 DEF RingInv
  <2>5. Whole(i)' <=> Whole(i)  BY DEF Whole
  <2> QED  BY <2>2, <2>3, <2>4, <2>5
<1>7. Whole(size)' /\ Whole(heard)'
  <2>1. size \in Int /\ count \in Int  BY <1>1 DEF RingInv
  <2>2. Whole(size - count)  BY <1>1, <2>1, WholeAdds DEF RingInv
  <2>3. Whole(size)' /\ Whole(heard)'  BY <1>2, <2>2 DEF RingInv, Whole
  <2> QED  BY <2>3
<1>8. {droppedSamples, heard, taken, cleared, overrun}' \subseteq Nat /\ data' \in [0..(Capacity' - 1) -> Nat]
  <2>1. count \in Nat  BY <1>1 DEF RingInv
  <2>2. Capacity' = Capacity  BY DEF Capacity
  <2> QED  BY <1>2, <2>1, <2>2 DEF RingInv
<1>9. heard' = taken' + cleared' + size' + droppedSamples' + overrun'
  <2>1. size \in Nat /\ {droppedSamples, heard, taken, cleared, overrun} \subseteq Nat /\ count \in Nat
    BY <1>0, <1>1 DEF RingInv
  <2>2. heard = taken + cleared + size + droppedSamples + overrun  BY DEF RingInv
  <2> QED  BY <1>2, <2>1, <2>2
<1>10. Capacity' = Capacity  BY DEF Capacity
<1> QED  BY <1>3, <1>5, <1>6, <1>7, <1>8, <1>9, <1>10 DEF RingInv

\* After a delivery as long as the ring, its last samples are all there is.
LEMMA LongIsStored ==
    ASSUME RingInv, NEW count \in Nat, Whole(count), Stored(count), count >= Capacity
    PROVE  /\ data' \in [0..(Capacity - 1) -> Nat]
           /\ head' = 0 /\ size' = Capacity
           /\ droppedSamples' = droppedSamples /\ overrun' = overrun + (size + count - Capacity)
           /\ \A i \in 0..(size' - 1) : Slot(i)' = heard + count - Capacity + i + 1
<1>0. Capacity \in Nat \ {0} /\ heard \in Nat /\ droppedSamples \in Nat /\ overrun \in Nat /\ size \in Nat
      /\ DOMAIN data = 0..(Capacity - 1)
  BY CapacityIs DEF RingInv
<1>1. /\ data' = [i \in DOMAIN data |->
            LET place == (i - 0 - 0 + 2 * Capacity) % Capacity
            IN IF place < Capacity THEN heard + count - Capacity + place + 1 ELSE data[i]]
      /\ head' = (0 + 0) % Capacity /\ size' = Capacity
      /\ droppedSamples' = droppedSamples + 0 /\ overrun' = overrun + (size + count - Capacity)
  BY <1>0 DEF Stored, Oldest
<1>2. \A i \in 0..(Capacity - 1) : data'[i] = heard + count - Capacity + i + 1
  <2> TAKE i \in 0..(Capacity - 1)
  <2> DEFINE x == i + 2 * Capacity
  <2>1. x \in Nat /\ x < 3 * Capacity /\ x >= 2 * Capacity /\ i - 0 - 0 + 2 * Capacity = x  BY <1>0
  <2> HIDE DEF x
  <2>2. x % Capacity = x - 2 * Capacity
    <3>1. x % Capacity = IF x < Capacity THEN x ELSE IF x < 2 * Capacity THEN x - Capacity ELSE x - 2 * Capacity
      BY <1>0, <2>1, Around
    <3>2. ~(x < Capacity) /\ ~(x < 2 * Capacity)  BY <1>0, <2>1
    <3> QED  BY <3>1, <3>2
  <2>3. x - 2 * Capacity = i  BY <1>0 DEF x
  <2> QED  BY <1>0, <1>1, <2>1, <2>2, <2>3
<1>3. head' = 0  BY <1>0, <1>1
<1>4. \A i \in 0..(Capacity - 1) : (0 + i) % Capacity = i  BY <1>0
<1>5. Capacity' = Capacity  BY DEF Capacity
<1>6. \A i \in 0..(size' - 1) : Slot(i)' = heard + count - Capacity + i + 1
  BY <1>1, <1>2, <1>3, <1>4, <1>5 DEF Slot
<1>7. data' \in [0..(Capacity - 1) -> Nat]
  <2>1. \A i \in 0..(Capacity - 1) : heard + count - Capacity + i + 1 \in Nat  BY <1>0
  <2>2. data' = [i \in 0..(Capacity - 1) |-> data'[i]]  BY <1>0, <1>1
  <2> QED  BY <1>2, <2>1, <2>2
<1> QED  BY <1>0, <1>1, <1>3, <1>6, <1>7

\* A shorter one comes behind what is there, and what it runs over is the
\* oldest.
LEMMA ShortIsStored ==
    ASSUME RingInv, NEW count \in Nat, Whole(count), Stored(count), count < Capacity
    PROVE  \E over \in 0..size :
              /\ data' \in [0..(Capacity - 1) -> Nat]
              /\ head' \in 0..(Capacity - 1)
              /\ size' = size + count - over /\ size' \in 0..Capacity
              /\ Whole(over)
              /\ droppedSamples' = droppedSamples + over /\ overrun' = overrun
              /\ \A i \in 0..(size' - 1) :
                    Slot(i)' = IF i + over < size THEN Slot(i + over)
                               ELSE heard + ((i + over) - size) + 1
<1> DEFINE over == IF size + count > Capacity THEN size + count - Capacity ELSE 0
           put(i) == (i - head - size + 2 * Capacity) % Capacity
           next(i) == IF put(i) < count THEN heard + count - count + put(i) + 1 ELSE data[i]
<1>0. /\ Capacity \in Nat \ {0} /\ heard \in Nat /\ droppedSamples \in Nat /\ overrun \in Nat
      /\ size \in Nat /\ size <= Capacity /\ DOMAIN data = 0..(Capacity - 1)
      /\ head \in Nat /\ head < Capacity
  BY CapacityIs DEF RingInv
<1>1. /\ data' = [i \in 0..(Capacity - 1) |-> next(i)]
      /\ head' = (head + over) % Capacity /\ size' = size + count - over
      /\ droppedSamples' = droppedSamples + over /\ overrun' = overrun
  BY <1>0 DEF Stored, Oldest
<1>2. over \in 0..size /\ over \in Nat /\ size + count - over \in 0..Capacity /\ over < Capacity
  BY <1>0
<1>3. Whole(over)
  <2>1. Whole(size + count)  BY <1>0, WholeAdds DEF RingInv
  <2>2. size + count \in Int /\ Capacity \in Int  BY <1>0
  <2>3. Whole(size + count - Capacity)
    <3> DEFINE both == size + count
    <3>1. both \in Int /\ Whole(both)  BY <2>1, <2>2
    <3> HIDE DEF both
    <3>2. Whole(both - Capacity)  BY <2>2, <3>1, WholeAdds, CapacityIs
    <3>3. both - Capacity = size + count - Capacity  BY <1>0 DEF both
    <3> QED  BY <3>2, <3>3
  <2>4. Whole(0)  BY CapacityIs DEF Whole
  <2> QED  BY <2>3, <2>4
<1>4. head' \in 0..(Capacity - 1)
  <2>1. head + over \in Int  BY <1>0, <1>2
  <2> QED  BY <1>0, <1>1, <2>1
<1> HIDE DEF over
\* The place of the sample that is j behind the oldest there was.
<1>5. \A j \in Nat : j < size + count /\ j < 2 * Capacity =>
          /\ (head + j) % Capacity \in 0..(Capacity - 1)
          /\ put((head + j) % Capacity) = IF j < size THEN j - size + Capacity ELSE j - size
  <2> SUFFICES ASSUME NEW j \in Nat, j < size + count, j < 2 * Capacity
               PROVE  /\ (head + j) % Capacity \in 0..(Capacity - 1)
                      /\ put((head + j) % Capacity) = IF j < size THEN j - size + Capacity ELSE j - size
    OBVIOUS
  <2> DEFINE x == head + j
  <2>1. x \in Nat /\ x < 3 * Capacity  BY <1>0
  <2>2. x % Capacity = IF x < Capacity THEN x ELSE IF x < 2 * Capacity THEN x - Capacity ELSE x - 2 * Capacity
    <3> HIDE DEF x
    <3> QED  BY <1>0, <2>1, Around
  <2> DEFINE y == x % Capacity
             z == y - head - size + 2 * Capacity
  <2>3. y \in 0..(Capacity - 1)  BY <1>0, <2>1
  <2>4. z \in Nat /\ z < 3 * Capacity
    <3> HIDE DEF y
    <3> QED  BY <1>0, <2>3
  <2>5. z % Capacity = IF z < Capacity THEN z ELSE IF z < 2 * Capacity THEN z - Capacity ELSE z - 2 * Capacity
    <3> HIDE DEF z
    <3> QED  BY <1>0, <2>4, Around
  <2>6. z = j - size + 2 * Capacity \/ z = j - size + Capacity \/ z = j - size
    <3>1. y = head + j \/ y = head + j - Capacity \/ y = head + j - 2 * Capacity  BY <1>0, <2>2
    <3> HIDE DEF y
    <3> QED  BY <1>0, <2>3, <3>1
  <2>7. z % Capacity = IF j < size THEN j - size + Capacity ELSE j - size
    <3> HIDE DEF z
    <3> QED  BY <1>0, <2>4, <2>5, <2>6
  <2> QED  BY <2>3, <2>7
<1> HIDE DEF put
<1>6. \A i \in 0..(size' - 1) : Slot(i)' = next((head + (i + over)) % Capacity)
  <2> TAKE i \in 0..(size' - 1)
  <2> DEFINE z == head + over
             x == head' + i
             y == head + (i + over)
  <2>1. z \in Nat /\ z < 2 * Capacity /\ z < 3 * Capacity  BY <1>0, <1>2, Below
  <2>2. head' = IF z < Capacity THEN z ELSE z - Capacity
    <3> HIDE DEF z
    <3> QED  BY <1>0, <1>1, <2>1, Around DEF z
  <2>3. i \in Nat /\ i < Capacity /\ i + over \in Nat /\ i + over < size + count
    BY <1>0, <1>1, <1>2
  <2>4. x \in Nat /\ x < 3 * Capacity /\ y \in Nat /\ y < 3 * Capacity
    <3>0. head' \in Nat /\ head' < Capacity  BY <1>0, <1>4
    <3>1. x \in Nat /\ x < 3 * Capacity  BY <1>0, <2>3, <3>0, Below
    <3>2. y \in Nat /\ y < 3 * Capacity  BY <1>0, <2>3
    <3> QED  BY <3>1, <3>2
  <2>5. x = y \/ x = y - Capacity  BY <1>0, <1>2, <2>2, <2>3
  <2>6. x % Capacity = y % Capacity
    <3> HIDE DEF x, y
    <3>1. x % Capacity = IF x < Capacity THEN x ELSE IF x < 2 * Capacity THEN x - Capacity ELSE x - 2 * Capacity
      BY <1>0, <2>4, Around
    <3>2. y % Capacity = IF y < Capacity THEN y ELSE IF y < 2 * Capacity THEN y - Capacity ELSE y - 2 * Capacity
      BY <1>0, <2>4, Around
    <3> QED  BY <1>0, <2>4, <2>5, <3>1, <3>2
  <2>7. x % Capacity \in 0..(Capacity - 1)  BY <1>0, <2>4
  <2>8. Slot(i)' = data'[x % Capacity]
    <3>1. Capacity' = Capacity  BY DEF Capacity
    <3> QED  BY <3>1 DEF Slot
  <2> QED  BY <1>1, <2>6, <2>7, <2>8
<1>7. \A i \in 0..(size' - 1) :
          Slot(i)' = IF i + over < size THEN Slot(i + over) ELSE heard + ((i + over) - size) + 1
  <2> TAKE i \in 0..(size' - 1)
  <2> DEFINE j == i + over
             w == (head + j) % Capacity
  <2>1. j \in Nat /\ j < size + count /\ j < 2 * Capacity /\ j >= over  BY <1>0, <1>1, <1>2
  <2>2. w \in 0..(Capacity - 1)
        /\ put(w) = IF j < size THEN j - size + Capacity ELSE j - size
    BY <1>5, <2>1
  <2>3. Slot(i)' = next(w)  BY <1>6
  <2>4. put(w) < count <=> ~(j < size)
    <3>1. over >= size + count - Capacity  BY <1>0 DEF over
    <3> HIDE DEF j, w
    <3> QED  BY <1>0, <1>2, <2>1, <2>2, <3>1
  <2>5. data[w] = Slot(j)  BY DEF Slot
  <2>6. heard + count - count + put(w) + 1 = heard + put(w) + 1
    <3>1. put(w) \in Int
      <4> HIDE DEF w
      <4> QED  BY <1>0, <2>1, <2>2
    <3> HIDE DEF w
    <3> QED  BY <1>0, <3>1
  <2>7. Slot(i)' = IF j < size THEN Slot(j) ELSE heard + (j - size) + 1
    <3> HIDE DEF w, j
    <3> QED  BY <2>2, <2>3, <2>4, <2>5, <2>6
  <2> QED  BY <2>7
<1>8. data' \in [0..(Capacity - 1) -> Nat]
  <2>1. ASSUME NEW i \in 0..(Capacity - 1) PROVE next(i) \in Nat
    <3>1. put(i) \in Nat
      <4>1. i - head - size + 2 * Capacity \in Int  BY <1>0
      <4> QED  BY <1>0, <4>1 DEF put
    <3>2. heard + count - count + put(i) + 1 \in Nat  BY <1>0, <3>1
    <3> QED  BY <3>2 DEF RingInv
  <2> HIDE DEF next
  <2> QED  BY <1>1, <2>1
<1> QED  BY <1>1, <1>2, <1>3, <1>4, <1>7, <1>8

\* Either way, what was delivered comes behind what is there, from which as
\* much leaves in front as is too much for the ring.
LEMMA StoredIs ==
    ASSUME RingInv, NEW count \in Nat, Whole(count), Stored(count)
    PROVE  \E over \in Nat :
              /\ data' \in [0..(Capacity - 1) -> Nat]
              /\ head' \in 0..(Capacity - 1)
              /\ size' = size + count - over /\ size' \in 0..Capacity
              /\ Whole(over)
              /\ droppedSamples' \in Nat /\ overrun' \in Nat
              /\ droppedSamples' + overrun' = droppedSamples + overrun + over
              /\ \A i \in 0..(size' - 1) :
                    Slot(i)' = IF i + over < size THEN Slot(i + over)
                               ELSE heard + ((i + over) - size) + 1
<1>0. Capacity \in Nat \ {0} /\ heard \in Nat /\ droppedSamples \in Nat /\ overrun \in Nat /\ size \in Nat
      /\ Whole(size) /\ Whole(Capacity)
  BY CapacityIs DEF RingInv
<1>1. CASE count < Capacity
  <2>1. PICK over \in 0..size :
              /\ data' \in [0..(Capacity - 1) -> Nat]
              /\ head' \in 0..(Capacity - 1)
              /\ size' = size + count - over /\ size' \in 0..Capacity
              /\ Whole(over)
              /\ droppedSamples' = droppedSamples + over /\ overrun' = overrun
              /\ \A i \in 0..(size' - 1) :
                    Slot(i)' = IF i + over < size THEN Slot(i + over)
                               ELSE heard + ((i + over) - size) + 1
    BY <1>1, ShortIsStored
  <2>2. over \in Nat  BY <1>0
  <2>3. droppedSamples' \in Nat /\ overrun' \in Nat
        /\ droppedSamples' + overrun' = droppedSamples + overrun + over
    BY <1>0, <2>1, <2>2
  <2> QED  BY <2>1, <2>2, <2>3
<1>2. CASE count >= Capacity
  <2> DEFINE over == size + (count - Capacity)
  <2>1. /\ data' \in [0..(Capacity - 1) -> Nat]
        /\ head' = 0 /\ size' = Capacity
        /\ droppedSamples' = droppedSamples /\ overrun' = overrun + (size + count - Capacity)
        /\ \A i \in 0..(size' - 1) : Slot(i)' = heard + count - Capacity + i + 1
    BY <1>2, LongIsStored
  <2>2. over \in Nat /\ over >= size /\ size' = size + count - over /\ size' \in 0..Capacity
        /\ head' \in 0..(Capacity - 1)
    BY <1>0, <1>2, <2>1
  <2>3. Whole(over)
    <3>1. Whole(count - Capacity) /\ count - Capacity \in Int  BY <1>0, WholeAdds
    <3> QED  BY <1>0, <3>1, WholeAdds
  <2>4. droppedSamples' \in Nat /\ overrun' \in Nat
        /\ droppedSamples' + overrun' = droppedSamples + overrun + over
    BY <1>0, <1>2, <2>1, <2>2
  <2>5. \A i \in 0..(size' - 1) :
                    Slot(i)' = IF i + over < size THEN Slot(i + over)
                               ELSE heard + ((i + over) - size) + 1
    <3> TAKE i \in 0..(size' - 1)
    <3>1. i \in Nat /\ ~(i + over < size)  BY <1>0, <2>1, <2>2
    <3>2. heard + ((i + over) - size) + 1 = heard + count - Capacity + i + 1  BY <1>0, <3>1
    <3> HIDE DEF over
    <3> QED  BY <2>1, <3>1, <3>2
  <2> HIDE DEF over
  <2> QED  BY <2>1, <2>2, <2>3, <2>4, <2>5
<1>3. count < Capacity \/ count >= Capacity  BY <1>0
<1> QED  BY <1>1, <1>2, <1>3

\* A delivery, stored or missed.
LEMMA DeliveryKeepsRing ==
    ASSUME RingInv, NEW frames \in Nat \ {0}, Deliver(frames)
    PROVE  RingInv'
<1> DEFINE count == frames * Channels
<1>0. count \in Nat /\ Whole(count)
  <2>1. count \in Nat  BY CapacityIs
  <2> QED  BY <2>1 DEF Whole
<1>1. heard' = heard + count /\ UNCHANGED <<taken, cleared>> /\ (Stored(count) \/ Missed(count))
  BY DEF Deliver
<1> HIDE DEF count
<1>2. /\ Capacity \in Nat \ {0} /\ Capacity' = Capacity /\ size \in 0..Capacity /\ size \in Nat
      /\ {droppedSamples, heard, taken, cleared, overrun} \subseteq Nat
      /\ Whole(size) /\ Whole(heard)
      /\ heard = taken + cleared + size + droppedSamples + overrun
  BY CapacityIs DEF RingInv, Capacity
<1>3. \A n : Whole(n)' <=> Whole(n)  BY DEF Whole
<1>4. heard' \in Nat /\ taken' \in Nat /\ cleared' \in Nat /\ Whole(heard')
  <2>1. heard' \in Nat /\ taken' \in Nat /\ cleared' \in Nat  BY <1>0, <1>1, <1>2
  <2>2. heard \in Int /\ count \in Int  BY <1>0, <1>2
  <2>3. Whole(heard + count)  BY <1>0, <1>2, <2>2, WholeAdds
  <2> QED  BY <1>1, <2>1, <2>3
<1>5. CASE Missed(count)
  <2>1. /\ droppedSamples' = droppedSamples + count
        /\ data' = data /\ head' = head /\ size' = size /\ overrun' = overrun
    BY <1>5 DEF Missed
  <2>2. heard' = taken' + cleared' + size' + droppedSamples' + overrun'
        /\ droppedSamples' \in Nat
    BY <1>0, <1>1, <1>2, <2>1
  <2>3. \A i : Slot(i)' = Slot(i)  BY <1>2, <2>1 DEF Slot
  <2>4. \A i \in 0..(size' - 1) : (Whole(Slot(i) - i - 1) /\ Slot(i) <= heard)'
    <3> TAKE i \in 0..(size' - 1)
    <3>1. Slot(i) \in Nat /\ Whole(Slot(i) - i - 1) /\ Slot(i) <= heard  BY <2>1, SlotIs DEF RingInv
    <3>2. Slot(i) <= heard'  BY <1>0, <1>1, <1>2, <3>1
    <3>3. (Slot(i) - i - 1)' = Slot(i) - i - 1  BY <2>3
    <3> QED  BY <1>3, <2>3, <3>1, <3>2, <3>3
  <2>5. \A i \in 1..(size' - 1) :
          (IF Whole(i) THEN Slot(i - 1) < Slot(i) ELSE Slot(i) = Slot(i - 1) + 1)'
    BY <1>3, <2>1, <2>3 DEF RingInv
  <2>6. Whole(size)' /\ Whole(heard)'  BY <1>2, <1>4, <2>1 DEF Whole
  <2>7. data' \in [0..(Capacity' - 1) -> Nat] /\ head' \in 0..(Capacity' - 1) /\ size' \in 0..Capacity'
    BY <1>2, <2>1 DEF RingInv
  <2>8. {droppedSamples, heard, taken, cleared, overrun}' \subseteq Nat  BY <1>2, <1>4, <2>1, <2>2
  <2> QED  BY <2>2, <2>4, <2>5, <2>6, <2>7, <2>8 DEF RingInv
<1>6. CASE Stored(count)
  <2>1. PICK over \in Nat :
              /\ data' \in [0..(Capacity - 1) -> Nat]
              /\ head' \in 0..(Capacity - 1)
              /\ size' = size + count - over /\ size' \in 0..Capacity
              /\ Whole(over)
              /\ droppedSamples' \in Nat /\ overrun' \in Nat
              /\ droppedSamples' + overrun' = droppedSamples + overrun + over
              /\ \A i \in 0..(size' - 1) :
                    Slot(i)' = IF i + over < size THEN Slot(i + over)
                               ELSE heard + ((i + over) - size) + 1
    BY <1>0, <1>6, StoredIs
  <2>2. heard' = taken' + cleared' + size' + droppedSamples' + overrun'
    <3>1. size' \in Nat /\ heard' = heard + count /\ taken' = taken /\ cleared' = cleared  BY <1>1, <1>2, <2>1
    <3>2. /\ size' = size + count - over /\ droppedSamples' \in Nat /\ overrun' \in Nat
          /\ droppedSamples' + overrun' = droppedSamples + overrun + over
      BY <2>1
    <3>3. /\ {droppedSamples, heard, taken, cleared, overrun} \subseteq Nat /\ size \in Nat /\ count \in Nat
          /\ heard = taken + cleared + size + droppedSamples + overrun
      BY <1>0, <1>2
    <3>4. heard + count = taken + cleared + size' + (droppedSamples' + overrun')  BY <3>1, <3>2, <3>3
    <3> QED  BY <3>1, <3>2, <3>3, <3>4
  <2>3. Whole(size')
    <3>1. Whole(size + count) /\ size + count \in Int  BY <1>0, <1>2, WholeAdds
    <3>2. Whole((size + count) - over)  BY <2>1, <3>1, WholeAdds
    <3>3. (size + count) - over = size'  BY <1>0, <1>2, <2>1
    <3> QED  BY <3>2, <3>3
  \* What a place has, told by its place in the ring before, j.
  <2> DEFINE new(j) == IF j < size THEN Slot(j) ELSE heard + (j - size) + 1
  <2>4. \A i \in 0..(size' - 1) : /\ Slot(i)' = new(i + over)
                                  /\ i \in Nat /\ i + over \in Nat /\ i + over < size + count
    <3> TAKE i \in 0..(size' - 1)
    <3>1. i \in Nat /\ i + over < size + count /\ i + over \in Nat  BY <1>0, <1>2, <2>1
    <3> QED  BY <2>1, <3>1
  <2>5. \A j \in Nat : j < size + count => new(j) \in Nat /\ Whole(new(j) - j - 1) /\ new(j) <= heard'
    <3> SUFFICES ASSUME NEW j \in Nat, j < size + count
                 PROVE  new(j) \in Nat /\ Whole(new(j) - j - 1) /\ new(j) <= heard'
      OBVIOUS
    <3>1. CASE j < size
      <4>1. j \in 0..(size - 1)  BY <1>2, <3>1
      <4>2. Slot(j) \in Nat /\ Whole(Slot(j) - j - 1) /\ Slot(j) <= heard  BY <4>1, SlotIs DEF RingInv
      <4>3. Slot(j) <= heard'  BY <1>0, <1>1, <1>2, <4>2
      <4> QED  BY <3>1, <4>2, <4>3
    <3>2. CASE ~(j < size)
      <4> DEFINE s == heard + (j - size) + 1
      <4>1. s \in Nat /\ s <= heard'  BY <1>0, <1>1, <1>2, <3>2
      <4>2. s - j - 1 = heard - size  BY <1>2
      <4>3. Whole(heard - size)  BY <1>2, WholeAdds
      <4> QED  BY <3>2, <4>1, <4>2, <4>3
    <3> QED  BY <3>1, <3>2
  <2>6. \A j \in Nat : j > 0 /\ j < size + count =>
            IF Whole(j) THEN new(j - 1) < new(j) ELSE new(j) = new(j - 1) + 1
    <3> SUFFICES ASSUME NEW j \in Nat, j > 0, j < size + count
                 PROVE  IF Whole(j) THEN new(j - 1) < new(j) ELSE new(j) = new(j - 1) + 1
      OBVIOUS
    <3>1. CASE j < size
      <4>1. j \in 1..(size - 1) /\ j - 1 < size  BY <1>2, <3>1
      <4>2. IF Whole(j) THEN Slot(j - 1) < Slot(j) ELSE Slot(j) = Slot(j - 1) + 1  BY <4>1 DEF RingInv
      <4> QED  BY <3>1, <4>1, <4>2
    <3>2. CASE j = size
      <4>1. j - 1 \in 0..(size - 1) /\ j - 1 < size /\ ~(j < size)  BY <1>2, <3>2
      <4>2. Slot(j - 1) \in Nat /\ Slot(j - 1) <= heard  BY <4>1, SlotIs DEF RingInv
      <4>3. new(j - 1) = Slot(j - 1) /\ new(j) = heard + (j - size) + 1  BY <4>1
      <4>4. heard + (j - size) + 1 = heard + 1  BY <1>2, <3>2
      <4>5. Slot(j - 1) < heard + 1  BY <1>2, <4>2
      <4> QED  BY <1>2, <3>2, <4>3, <4>4, <4>5
    <3>3. CASE j > size
      <4>1. ~(j < size) /\ ~(j - 1 < size)  BY <1>2, <3>3
      <4>2. new(j - 1) = heard + (j - 1 - size) + 1 /\ new(j) = heard + (j - size) + 1  BY <4>1
      <4> HIDE DEF new
      <4>3. new(j) = new(j - 1) + 1 /\ new(j - 1) < new(j)  BY <1>2, <4>2
      <4> QED  BY <4>3
    <3> QED  BY <1>2, <3>1, <3>2, <3>3
  <2> HIDE DEF new
  <2>7. \A i \in 0..(size' - 1) : (Whole(Slot(i) - i - 1) /\ Slot(i) <= heard)'
    <3> TAKE i \in 0..(size' - 1)
    <3> DEFINE j == i + over
               s == new(i + over)
    <3>1. s \in Nat /\ Whole(s - j - 1) /\ s <= heard' /\ Slot(i)' = s /\ i \in Nat  BY <2>4, <2>5
    <3> HIDE DEF s
    <3>2. (s - j - 1) + over = s - i - 1 /\ s - j - 1 \in Int  BY <3>1
    <3>3. Whole(s - i - 1)
      <4> DEFINE m == s - j - 1
      <4>1. m \in Int /\ Whole(m) /\ over \in Int /\ Whole(over) /\ m + over = s - i - 1  BY <2>1, <3>1, <3>2
      <4> HIDE DEF m
      <4>2. Whole(m + over)  BY <4>1, WholeAdds
      <4> QED  BY <4>1, <4>2
    <3>4. (Slot(i) - i - 1)' = s - i - 1  BY <3>1
    <3> QED  BY <1>3, <3>1, <3>3, <3>4
  <2>8. \A i \in 1..(size' - 1) :
          (IF Whole(i) THEN Slot(i - 1) < Slot(i) ELSE Slot(i) = Slot(i - 1) + 1)'
    <3> TAKE i \in 1..(size' - 1)
    <3>1. i \in 0..(size' - 1) /\ i - 1 \in 0..(size' - 1)  BY <2>1
    <3> DEFINE j == i + over
    <3>2. Slot(i)' = new(j) /\ j \in Nat /\ j < size + count /\ i \in Nat  BY <2>4, <3>1
    <3>3. Slot(i - 1)' = new(j - 1)
      <4>1. Slot(i - 1)' = new((i - 1) + over)  BY <2>4, <3>1
      <4>2. (i - 1) + over = j - 1  BY <3>2
      <4> QED  BY <4>1, <4>2
    <3>4. j > 0  BY <2>1
    <3>5. Whole(i) <=> Whole(j)
      <4>1. Whole(i) => Whole(i + over)  BY <2>1, WholeAdds
      <4>2. Whole(j) => Whole(j - over)  BY <2>1, <3>2, WholeAdds
      <4>3. j - over = i  BY <3>2
      <4> QED  BY <4>1, <4>2, <4>3
    <3> HIDE DEF j
    <3>6. IF Whole(j) THEN new(j - 1) < new(j) ELSE new(j) = new(j - 1) + 1  BY <2>6, <3>2, <3>4
    <3> QED  BY <1>3, <3>2, <3>3, <3>5, <3>6
  <2>9. Whole(size)' /\ Whole(heard)'  BY <1>4, <2>3 DEF Whole
  <2>10. data' \in [0..(Capacity' - 1) -> Nat] /\ head' \in 0..(Capacity' - 1) /\ size' \in 0..Capacity'
    BY <1>2, <2>1
  <2>11. {droppedSamples, heard, taken, cleared, overrun}' \subseteq Nat  BY <1>4, <2>1
  <2> QED  BY <2>2, <2>7, <2>8, <2>9, <2>10, <2>11 DEF RingInv
<1> QED  BY <1>1, <1>5, <1>6

LEMMA RingStays ==
    ASSUME RingInv, UNCHANGED <<data, head, size, droppedSamples, heard, taken, cleared, overrun>>
    PROVE  RingInv'
<1>1. \A i : Slot(i)' = Slot(i)  BY DEF Slot, Capacity
<1>2. \A n : Whole(n)' <=> Whole(n)  BY DEF Whole
<1>3. Capacity' = Capacity  BY DEF Capacity
<1>4. \A i \in 0..(size' - 1) : (Whole(Slot(i) - i - 1) /\ Slot(i) <= heard)'
  <2> TAKE i \in 0..(size' - 1)
  <2>1. Whole(Slot(i) - i - 1) /\ Slot(i) <= heard  BY DEF RingInv
  <2>2. (Slot(i) - i - 1)' = Slot(i) - i - 1  BY <1>1
  <2> QED  BY <1>1, <1>2, <2>1, <2>2
<1>5. \A i \in 1..(size' - 1) :
          (IF Whole(i) THEN Slot(i - 1) < Slot(i) ELSE Slot(i) = Slot(i - 1) + 1)'
  BY <1>1, <1>2 DEF RingInv
<1> QED  BY <1>2, <1>3, <1>4, <1>5 DEF RingInv

LEMMA ClearedRing == ASSUME RingInv, ClearRecording PROVE RingInv'
<1>1. /\ head' = 0 /\ size' = 0 /\ cleared' = cleared + size
      /\ UNCHANGED <<data, droppedSamples, heard, taken, overrun>>
  BY DEF ClearRecording
<1>2. /\ Capacity \in Nat \ {0} /\ Capacity' = Capacity /\ size \in Nat
      /\ {droppedSamples, heard, taken, cleared, overrun} \subseteq Nat
      /\ heard = taken + cleared + size + droppedSamples + overrun
  BY CapacityIs DEF RingInv, Capacity
<1>3. Whole(size)' /\ Whole(heard)'
  <2>1. Whole(0)  BY CapacityIs DEF Whole
  <2> QED  BY <1>1, <2>1 DEF RingInv, Whole
<1>4. heard' = taken' + cleared' + size' + droppedSamples' + overrun' /\ cleared' \in Nat
  BY <1>1, <1>2
<1>5. data' \in [0..(Capacity' - 1) -> Nat] /\ head' \in 0..(Capacity' - 1) /\ size' \in 0..Capacity'
  BY <1>1, <1>2 DEF RingInv
<1>6. 0..(size' - 1) = {} /\ 1..(size' - 1) = {}  BY <1>1
<1> QED  BY <1>1, <1>2, <1>3, <1>4, <1>5, <1>6 DEF RingInv

LEMMA RecordingKeepsRing == ASSUME RingInv, RecordingNext PROVE RingInv'
<1>1. Deliveries \subseteq Nat \ {0}  BY RecordingBounds
<1>2. CASE StartRecording \/ StopRecording  BY <1>2, RingStays DEF StartRecording, StopRecording
<1>3. CASE ClearRecording  BY <1>3, ClearedRing
<1>4. CASE \E frames \in Deliveries : Deliver(frames) \/ ReadFrames(frames)
  BY <1>1, <1>4, DeliveryKeepsRing, ReadsLeaveTheRest
<1> QED  BY <1>2, <1>3, <1>4 DEF RecordingNext

-----------------------------------------------------------------------------
(* Least and greatest numbers, and what is left of a queue.                *)

LEMMA LeastIs ==
    ASSUME NEW S, S \subseteq Nat, S # {}
    PROVE  \E m \in S : \A y \in S : m <= y
<1> SUFFICES ASSUME ~(\E m \in S : \A y \in S : m <= y) PROVE FALSE  OBVIOUS
<1>1. PICK x \in S : x \in Nat  OBVIOUS
<1> DEFINE U == {n \in 0..x : \E s \in S : s <= n}
           f == [n \in U |-> n - 1]
<1>2. \A n \in U : n - 1 \in U \ {x}
  <2> TAKE n \in U
  <2>1. PICK s \in S : s <= n  OBVIOUS
  <2>2. PICK t \in S : ~(s <= t)  OBVIOUS
  <2>3. s \in Nat /\ t \in Nat /\ n \in Nat /\ n <= x  BY <1>1
  <2>4. t <= n - 1 /\ n - 1 \in 0..x /\ n - 1 # x  BY <1>1, <2>1, <2>2, <2>3
  <2> QED  BY <2>4
<1>3. IsFiniteSet(U)
  <2>1. IsFiniteSet(0..x)  BY <1>1, FS_Interval
  <2> QED  BY <2>1, FS_Subset
<1>4. x \in U  BY <1>1
<1>5. \A n \in U : n \in Int  OBVIOUS
<1> HIDE DEF U
<1>6. IsFiniteSet(U \ {x}) /\ Cardinality(U \ {x}) = Cardinality(U) - 1 /\ Cardinality(U) \in Nat
  BY <1>3, <1>4, FS_RemoveElement, FS_CardinalityType
<1>7. f \in [U -> U \ {x}]  BY <1>2
<1>8. Cardinality(U \ {x}) < Cardinality(U)  BY <1>6
<1> HIDE DEF f
<1>9. \E m, n \in U : m # n /\ f[m] = f[n]  BY <1>3, <1>6, <1>7, <1>8, FS_PigeonHole
<1>10. PICK m \in U, n \in U : m # n /\ f[m] = f[n]  BY <1>9
<1>11. m - 1 = n - 1 /\ m \in Int /\ n \in Int  BY <1>5, <1>10 DEF f
<1> QED  BY <1>10, <1>11

LEMMA GreatestIs ==
    ASSUME NEW n \in Nat, NEW S, S \subseteq 0..n, S # {}
    PROVE  \E m \in S : \A y \in S : m >= y
<1> DEFINE T == {n - x : x \in S}
<1>1. T \subseteq Nat /\ T # {}
  <2>1. \A x \in S : n - x \in Nat  OBVIOUS
  <2> QED  BY <2>1
<1>2. PICK l \in T : \A y \in T : l <= y
  <2> HIDE DEF T
  <2> QED  BY <1>1, LeastIs
<1>3. PICK m \in S : l = n - m  BY <1>2
<1>4. \A y \in S : m >= y
  <2> TAKE y \in S
  <2>1. n - y \in T  OBVIOUS
  <2>2. n - m <= n - y  BY <1>2, <1>3, <2>1
  <2>3. n \in Int /\ m \in Int /\ y \in Int  OBVIOUS
  <2> QED  BY <2>2, <2>3
<1> QED  BY <1>4

IsQ(s) == \E S : s \in Seq(S)

\* What is left of a queue without its first.
LeftOf(t, s) == \E d \in 0..Len(s) : t = SubSeq(s, d + 1, Len(s))

LEMMA RestIs ==
    ASSUME NEW s, IsQ(s), NEW d \in 0..Len(s)
    PROVE  LET t == SubSeq(s, d + 1, Len(s))
           IN /\ IsQ(t) /\ Len(t) = Len(s) - d
              /\ \A i \in 1..Len(t) : t[i] = s[i + d]
<1>1. PICK S : s \in Seq(S)  BY DEF IsQ
<1> DEFINE m == d + 1
           n == Len(s)
<1>2. m \in Int /\ n \in Int /\ n \in Nat /\ d \in 0..n  BY <1>1
<1>3. \A i \in m..n : s[i] \in S  BY <1>1, <1>2
<1> DEFINE t == SubSeq(s, m, n)
<1>4. /\ t \in Seq(S)
      /\ Len(t) = IF m <= n THEN n - m + 1 ELSE 0
      /\ \A i \in 1..(n - m + 1) : t[i] = s[m + i - 1]
  <2> HIDE DEF m, n
  <2> QED  BY <1>2, <1>3, SubSeqProperties
<1>5. Len(t) = n - d  BY <1>2, <1>4
<1>6. \A i \in 1..Len(t) : t[i] = s[i + d]
  <2> TAKE i \in 1..Len(t)
  <2>1. i \in 1..(n - m + 1) /\ m + i - 1 = i + d  BY <1>2, <1>5
  <2> QED  BY <1>4, <2>1
<1>7. IsQ(t)  BY <1>4 DEF IsQ
<1> QED  BY <1>5, <1>6, <1>7

LEMMA AppendedIs ==
    ASSUME NEW s, IsQ(s), NEW x
    PROVE  /\ IsQ(Append(s, x)) /\ Len(s) \in Nat
           /\ Len(Append(s, x)) = Len(s) + 1
           /\ \A i \in 1..Len(s) : Append(s, x)[i] = s[i]
           /\ Append(s, x)[Len(s) + 1] = x
<1>1. PICK S : s \in Seq(S)  BY DEF IsQ
<1> DEFINE T == S \cup {x}
<1>2. s \in Seq(T) /\ x \in T
  <2>1. \A i \in 1..Len(s) : s[i] \in T  BY <1>1
  <2>2. Len(s) \in Nat /\ s = [i \in 1..Len(s) |-> s[i]]  BY <1>1
  <2> QED  BY <2>1, <2>2
<1>3. Len(s) \in Nat  BY <1>1
<1> HIDE DEF T
<1>4. Append(s, x) \in Seq(T)  BY <1>2, AppendProperties
<1> QED  BY <1>2, <1>3, <1>4, AppendProperties DEF IsQ

\* What a queue takes in, and the first that leaves if it was too long.
LEMMA EnqueuedIs ==
    ASSUME NEW s, IsQ(s), NEW x, NEW limit \in Nat \ {0}, NEW t, t = Enqueued(s, x, limit)
    PROVE  \E d \in 0..Len(s) :
              /\ IsQ(t) /\ Len(t) = Len(s) + 1 - d
              /\ \A i \in 1..Len(t) : t[i] = IF i + d = Len(s) + 1 THEN x ELSE s[i + d]
<1> DEFINE a == Append(s, x)
           m == IF Len(a) <= limit THEN Len(a) ELSE limit
           d == Len(a) - m
<1>1. /\ IsQ(a) /\ Len(s) \in Nat /\ Len(a) = Len(s) + 1
      /\ \A i \in 1..Len(s) : a[i] = s[i]
      /\ a[Len(s) + 1] = x
  BY AppendedIs
<1> HIDE DEF a
<1>3. d \in 0..Len(s) /\ d \in 0..Len(a)
  <2>1. Len(a) \in Nat /\ m \in 1..Len(a)  BY <1>1
  <2> HIDE DEF m
  <2> QED  BY <1>1, <2>1
<1>4. t = SubSeq(a, d + 1, Len(a))
  <2>1. t = SubSeq(a, IF Len(a) > limit THEN Len(a) - limit + 1 ELSE 1, Len(a))  BY DEF Enqueued, a
  <2>2. (IF Len(a) > limit THEN Len(a) - limit + 1 ELSE 1) = d + 1
    <3>1. Len(a) \in Nat /\ limit \in Nat  BY <1>1
    <3>2. CASE Len(a) > limit
      <4>1. m = limit  BY <3>1, <3>2
      <4> QED  BY <3>1, <3>2, <4>1
    <3>3. CASE ~(Len(a) > limit)
      <4>1. m = Len(a)  BY <3>1, <3>3
      <4> QED  BY <3>1, <3>3, <4>1
    <3> QED  BY <3>2, <3>3
  <2> QED  BY <2>1, <2>2
<1> HIDE DEF d
<1>5. IsQ(t) /\ Len(t) = Len(a) - d /\ \A i \in 1..Len(t) : t[i] = a[i + d]
  BY <1>1, <1>3, <1>4, RestIs
<1>6. \A i \in 1..Len(t) : t[i] = IF i + d = Len(s) + 1 THEN x ELSE s[i + d]
  <2> TAKE i \in 1..Len(t)
  <2>1. i + d \in 1..(Len(s) + 1)  BY <1>1, <1>3, <1>5
  <2>2. t[i] = a[i + d]  BY <1>5
  <2>3. CASE i + d = Len(s) + 1  BY <1>1, <2>2, <2>3
  <2>4. CASE i + d # Len(s) + 1
    <3>1. i + d \in 1..Len(s)  BY <1>1, <2>1, <2>4
    <3> QED  BY <1>1, <2>2, <2>4, <3>1
  <2> QED  BY <2>3, <2>4
<1>7. Len(t) = Len(s) + 1 - d  BY <1>1, <1>3, <1>5
<1> QED  BY <1>3, <1>5, <1>6, <1>7

\* How many are due is a number of what is there.
LEMMA DueIs == ASSUME NEW s, IsQ(s), NEW time PROVE Due(s, time) \in 0..Len(s)
<1> DEFINE S == {n \in 0..Len(s) : \A j \in 1..n : s[j].pts <= time}
<1>1. Len(s) \in Nat  BY DEF IsQ
<1>2. S \subseteq 0..Len(s) /\ 0 \in S  BY <1>1
<1> HIDE DEF S
<1>3. PICK m \in S : \A n \in S : m >= n  BY <1>1, <1>2, GreatestIs
<1>4. m \in 0..Len(s) /\ \A j \in 1..m : s[j].pts <= time  BY <1>3 DEF S
<1>5. m < Len(s) => ~(s[m + 1].pts <= time)
  <2> SUFFICES ASSUME m < Len(s), s[m + 1].pts <= time PROVE FALSE  OBVIOUS
  <2>1. m + 1 \in 0..Len(s) /\ 1..(m + 1) = (1..m) \cup {m + 1} /\ ~(m >= m + 1)  BY <1>1, <1>4
  <2>2. m + 1 \in S  BY <1>4, <2>1 DEF S
  <2> QED  BY <1>3, <2>1, <2>2
<1> QED  BY <1>4, <1>5 DEF Due

-----------------------------------------------------------------------------
(* A player.                                                               *)

PlayerFields ==
    {"loop", "track", "registered", "playing", "ready", "ended", "base", "elapsed",
     "pending", "displayed", "frames", "chunks", "source", "has_audio", "running",
     "finished", "pc", "cursor", "coded", "fresh"}

\* All that is behind the first k was decoded since the last seek obeyed.
FreshBehind(s, k, mark) == \A i \in 1..Len(s) : i > k => s[i].fresh = mark

\* What the decoder holds is of the file as it is read now, and no more than
\* it keeps back, and one.
HoldsLittle(v) ==
    /\ FreshBehind(v.coded, 0, v.fresh)
    /\ v.pc \in {"open", "read"} => Len(v.coded) <= Delay
    /\ v.pc = "top" /\ v.running => Len(v.coded) <= Delay
    /\ v.pc \in {"push", "drain"} => Len(v.coded) <= Delay + 1

\* While a seek is not obeyed yet, and what was decoded before it cleared:
\* what comes until it is.
AwaitsSeek(v) ==
    /\ v.pc \in {"open", "read"} => Len(v.frames) = 0 /\ Len(v.chunks) = 0
    /\ v.pc \in {"push", "drain"} =>
          Len(v.chunks) = 0 /\ Len(v.frames) + Len(v.coded) <= Delay + 1
    /\ v.pc = "top" => Len(v.frames) <= Delay + 1 /\ Len(v.chunks) <= 1

\* Once it is: what came in the meantime is in front.
ObeyedSeek(v) ==
    /\ \E k \in 0..(Delay + 1) : FreshBehind(v.frames, k, v.fresh)
    /\ FreshBehind(v.chunks, 1, v.fresh)

\* A player, of which the queues are about to be cleared or not.
PlayerInv(v, clearing) ==
    /\ DOMAIN v = PlayerFields
    /\ IsQ(v.frames) /\ IsQ(v.chunks) /\ IsQ(v.coded) /\ v.fresh \in Nat
    /\ v.finished => v.pc = "over" /\ ~v.loop
    /\ v.ended => ~v.playing /\ v.finished /\ v.frames = <<>>
    /\ ~v.registered => v.source = 0 /\ v.pc = "over" /\ ~v.running
    /\ HoldsLittle(v)
    /\ v.pending # None /\ v.pc # "over" /\ ~clearing => AwaitsSeek(v)
    /\ v.pending = None /\ ~clearing => ObeyedSeek(v)

LEMMA EmptyQ == IsQ(<<>>) /\ Len(<<>>) = 0
BY DEF IsQ

LEMMA LenIs == ASSUME NEW s, IsQ(s) PROVE Len(s) \in Nat /\ DOMAIN s = 1..Len(s) /\ (Len(s) = 0 <=> s = <<>>)
BY DEF IsQ

\* A queue that is left of another is no longer, and as fresh.
LEMMA RestIsFresh ==
    ASSUME NEW s, IsQ(s), NEW d \in 0..Len(s), NEW k \in Nat, NEW mark
    PROVE  LET t == SubSeq(s, d + 1, Len(s))
           IN /\ IsQ(t) /\ Len(t) <= Len(s)
              /\ FreshBehind(s, k, mark) => FreshBehind(t, k, mark)
<1> DEFINE t == SubSeq(s, d + 1, Len(s))
<1>1. IsQ(t) /\ Len(t) = Len(s) - d /\ \A i \in 1..Len(t) : t[i] = s[i + d]  BY RestIs
<1>2. Len(s) \in Nat  BY LenIs
<1> HIDE DEF t
<1>3. ASSUME FreshBehind(s, k, mark) PROVE FreshBehind(t, k, mark)
  <2> SUFFICES ASSUME NEW i \in 1..Len(t), i > k PROVE t[i].fresh = mark  BY DEF FreshBehind
  <2>1. i + d \in 1..Len(s) /\ i + d > k  BY <1>1, <1>2
  <2> QED  BY <1>1, <1>3, <2>1 DEF FreshBehind
<1>4. Len(t) <= Len(s)  BY <1>1, <1>2
<1> QED  BY <1>1, <1>3, <1>4 DEF t

\* What is enqueued is one more at most, and fresh if it is.
LEMMA EnqueuedIsFresh ==
    ASSUME NEW s, IsQ(s), NEW x, NEW limit \in Nat \ {0}, NEW k \in Nat, NEW mark
    PROVE  LET t == Enqueued(s, x, limit)
           IN /\ IsQ(t) /\ Len(t) <= Len(s) + 1
              /\ FreshBehind(s, k, mark) /\ x.fresh = mark => FreshBehind(t, k, mark)
<1> DEFINE t == Enqueued(s, x, limit)
<1>0. t = Enqueued(s, x, limit)  OBVIOUS
<1> HIDE DEF t
<1>1. PICK d \in 0..Len(s) :
                 /\ IsQ(t) /\ Len(t) = Len(s) + 1 - d
                 /\ \A i \in 1..Len(t) : t[i] = IF i + d = Len(s) + 1 THEN x ELSE s[i + d]
  BY <1>0, EnqueuedIs
<1>2. Len(s) \in Nat  BY LenIs
<1>3. ASSUME FreshBehind(s, k, mark), x.fresh = mark PROVE FreshBehind(t, k, mark)
  <2> SUFFICES ASSUME NEW i \in 1..Len(t), i > k PROVE t[i].fresh = mark  BY DEF FreshBehind
  <2>1. i + d \in 1..(Len(s) + 1) /\ i + d > k  BY <1>1, <1>2
  <2>2. CASE i + d = Len(s) + 1  BY <1>1, <1>3, <2>2
  <2>3. CASE i + d # Len(s) + 1
    <3>1. i + d \in 1..Len(s)  BY <1>2, <2>1, <2>3
    <3> QED  BY <1>1, <1>3, <2>1, <2>3, <3>1 DEF FreshBehind
  <2> QED  BY <2>2, <2>3
<1>4. Len(t) <= Len(s) + 1  BY <1>1, <1>2
<1> QED  BY <1>1, <1>3, <1>4 DEF t

-----------------------------------------------------------------------------
(* What the thread does to its player.                                     *)

\* It leaves what others know the player by.
Kept3(w, v) == w.source = v.source /\ w.registered = v.registered /\ w.running = v.running

LEMMA OpenKeeps ==
    ASSUME NEW v, NEW c, PlayerInv(v, c), v.pc = "open", NEW w,
           \/ w = [v EXCEPT !.pc = "top", !.has_audio = v.track]
           \/ w = [v EXCEPT !.pc = "over"]
    PROVE  PlayerInv(w, c) /\ Kept3(w, v)
<1>1. /\ DOMAIN w = PlayerFields /\ w.pc \in {"top", "over"}
      /\ w.loop = v.loop /\ w.registered = v.registered /\ w.playing = v.playing /\ w.ended = v.ended
      /\ w.pending = v.pending /\ w.frames = v.frames /\ w.chunks = v.chunks /\ w.source = v.source
      /\ w.running = v.running /\ w.finished = v.finished /\ w.coded = v.coded /\ w.fresh = v.fresh
  BY DEF PlayerInv, PlayerFields
<1>2. ~v.finished /\ v.registered  BY DEF PlayerInv
<1>3. HoldsLittle(w)  BY <1>1 DEF HoldsLittle, PlayerInv
<1>4. ASSUME w.pending # None, w.pc # "over", ~c PROVE AwaitsSeek(w)
  <2>1. AwaitsSeek(v)  BY <1>1, <1>4 DEF PlayerInv
  <2>2. Len(w.frames) = 0 /\ Len(w.chunks) = 0  BY <1>1, <2>1 DEF AwaitsSeek
  <2>3. Delay \in Nat  BY VideoBounds
  <2> QED  BY <1>1, <1>4, <2>2, <2>3 DEF AwaitsSeek
<1>5. ObeyedSeek(v) => ObeyedSeek(w)  BY <1>1 DEF ObeyedSeek, FreshBehind
<1> QED  BY <1>1, <1>2, <1>3, <1>4, <1>5 DEF PlayerInv, Kept3

LEMMA TakeKeeps ==
    ASSUME NEW v, NEW c, PlayerInv(v, c), v.pc = "top", NEW w, NEW to,
           w = IF ~v.running THEN [v EXCEPT !.pc = "over"]
               ELSE IF v.pending = None THEN [v EXCEPT !.pc = "read"]
               ELSE [v EXCEPT !.pc = "read", !.pending = None, !.finished = FALSE,
                              !.cursor = to, !.coded = <<>>, !.fresh = v.fresh + 1]
    PROVE  PlayerInv(w, c) /\ Kept3(w, v)
<1>0. Delay \in Nat  BY VideoBounds
<1>1. CASE ~v.running \/ v.pending = None
  <2>1. /\ DOMAIN w = PlayerFields /\ w.pc = IF v.running THEN "read" ELSE "over"
        /\ w.loop = v.loop /\ w.registered = v.registered /\ w.playing = v.playing /\ w.ended = v.ended
        /\ w.pending = v.pending /\ w.frames = v.frames /\ w.chunks = v.chunks /\ w.source = v.source
        /\ w.running = v.running /\ w.finished = v.finished /\ w.coded = v.coded /\ w.fresh = v.fresh
    BY <1>1 DEF PlayerInv, PlayerFields
  <2>2. ~v.finished /\ v.registered  BY DEF PlayerInv
  <2>3. HoldsLittle(w)  BY <2>1 DEF HoldsLittle, PlayerInv
  <2>4. ~(w.pending # None /\ w.pc # "over")  BY <1>1, <2>1
  <2>5. ObeyedSeek(v) => ObeyedSeek(w)  BY <2>1 DEF ObeyedSeek, FreshBehind
  <2> QED  BY <2>1, <2>2, <2>3, <2>4, <2>5 DEF PlayerInv, Kept3
<1>2. CASE v.running /\ v.pending # None
  <2>1. /\ DOMAIN w = PlayerFields /\ w.pc = "read"
        /\ w.loop = v.loop /\ w.registered = v.registered /\ w.playing = v.playing /\ w.ended = v.ended
        /\ w.pending = None /\ w.frames = v.frames /\ w.chunks = v.chunks /\ w.source = v.source
        /\ w.running = v.running /\ w.finished = FALSE /\ w.coded = <<>> /\ w.fresh = v.fresh + 1
    BY <1>2 DEF PlayerInv, PlayerFields
  <2>2. ~v.finished /\ v.registered /\ ~v.ended  BY DEF PlayerInv
  <2>3. HoldsLittle(w)  BY <1>0, <2>1, EmptyQ DEF HoldsLittle, FreshBehind
  <2>4. ASSUME ~c PROVE ObeyedSeek(w)
    <3>1. AwaitsSeek(v)  BY <1>2, <2>4 DEF PlayerInv
    <3>2. Len(w.frames) <= Delay + 1 /\ Len(w.chunks) <= 1  BY <2>1, <3>1 DEF AwaitsSeek
    <3>3. Len(w.frames) \in Nat /\ Len(w.chunks) \in Nat  BY <2>1, LenIs DEF PlayerInv
    <3>4. FreshBehind(w.frames, Delay + 1, w.fresh) /\ FreshBehind(w.chunks, 1, w.fresh)
      BY <1>0, <3>2, <3>3 DEF FreshBehind
    <3>5. Delay + 1 \in 0..(Delay + 1)  BY <1>0
    <3> QED  BY <3>4, <3>5 DEF ObeyedSeek
  <2>5. w.fresh \in Nat  BY <2>1 DEF PlayerInv
  <2>6. /\ IsQ(w.frames) /\ IsQ(w.chunks) /\ IsQ(w.coded)
        /\ w.registered /\ ~w.finished /\ ~w.ended
    BY <2>1, <2>2, EmptyQ DEF PlayerInv
  <2> QED  BY <2>1, <2>3, <2>4, <2>5, <2>6 DEF PlayerInv, Kept3
<1> QED  BY <1>1, <1>2

LEMMA PartIsLess ==
    ASSUME NEW m \in Nat, NEW n \in Nat, NEW k \in Nat, m + n <= k
    PROVE  m <= k
OBVIOUS

LEMMA OneMoved ==
    ASSUME NEW m \in Nat, NEW n \in Nat, NEW k \in Nat, m + n <= k, NEW a \in Nat, a <= m + 1
    PROVE  a + (n - 1) <= k
OBVIOUS

\* A wait ends, the decoder wants more, or the file is at its end.
LEMMA TurnsKeep ==
    ASSUME NEW v, NEW c, PlayerInv(v, c), NEW w,
           \/ v.pc = "read" /\ w = [v EXCEPT !.pc = "top"]
           \/ v.pc = "push" /\ (v.running => Len(v.coded) <= Delay) /\ w = [v EXCEPT !.pc = "top"]
           \/ v.pc = "read" /\ w = [v EXCEPT !.pc = "drain"]
    PROVE  PlayerInv(w, c) /\ Kept3(w, v)
<1>0. Delay \in Nat  BY VideoBounds
<1>1. /\ DOMAIN w = PlayerFields
      /\ w.loop = v.loop /\ w.registered = v.registered /\ w.playing = v.playing /\ w.ended = v.ended
      /\ w.pending = v.pending /\ w.frames = v.frames /\ w.chunks = v.chunks /\ w.source = v.source
      /\ w.running = v.running /\ w.finished = v.finished /\ w.coded = v.coded /\ w.fresh = v.fresh
  BY DEF PlayerInv, PlayerFields
<1>2. \/ v.pc = "read" /\ w.pc = "top"
      \/ v.pc = "push" /\ (v.running => Len(v.coded) <= Delay) /\ w.pc = "top"
      \/ v.pc = "read" /\ w.pc = "drain"
  BY DEF PlayerInv, PlayerFields
<1>3. ~v.finished /\ v.registered /\ v.pc # "over"  BY <1>2 DEF PlayerInv
<1>4. Len(v.coded) \in Nat /\ Len(v.frames) \in Nat /\ Len(v.chunks) \in Nat  BY LenIs DEF PlayerInv
<1>5. HoldsLittle(w)
  <2>1. HoldsLittle(v)  BY DEF PlayerInv
  <2> QED  BY <1>0, <1>1, <1>2, <1>4, <2>1 DEF HoldsLittle
<1>6. ASSUME w.pending # None, ~c PROVE AwaitsSeek(w)
  <2>1. AwaitsSeek(v)  BY <1>1, <1>3, <1>6 DEF PlayerInv
  <2>2. v.pc = "read" => Len(v.coded) <= Delay  BY DEF PlayerInv, HoldsLittle
  <2>3. CASE v.pc = "read"
    <3>1. Len(v.frames) = 0 /\ Len(v.chunks) = 0 /\ Len(v.coded) <= Delay  BY <2>1, <2>2, <2>3 DEF AwaitsSeek
    <3>2. w.pc \in {"top", "drain"}  BY <1>2, <2>3
    <3> QED  BY <1>0, <1>1, <1>4, <3>1, <3>2 DEF AwaitsSeek
  <2>4. CASE v.pc = "push"
    <3>1. Len(v.chunks) = 0 /\ Len(v.frames) + Len(v.coded) <= Delay + 1  BY <2>1, <2>4 DEF AwaitsSeek
    <3>2. w.pc = "top" /\ w.frames = v.frames /\ w.chunks = v.chunks  BY <1>1, <1>2, <2>4
    <3>3. Len(v.frames) <= Delay + 1 /\ Len(v.chunks) <= 1
      <4>1. Delay + 1 \in Nat  BY <1>0
      <4>2. Len(v.frames) <= Delay + 1  BY <1>4, <3>1, <4>1, PartIsLess
      <4>3. Len(v.chunks) = 0  BY <3>1
      <4> QED  BY <4>2, <4>3
    <3> QED  BY <3>2, <3>3 DEF AwaitsSeek
  <2> QED  BY <1>2, <2>3, <2>4
<1>7. ObeyedSeek(v) => ObeyedSeek(w)  BY <1>1 DEF ObeyedSeek, FreshBehind
<1> QED  BY <1>1, <1>3, <1>5, <1>6, <1>7 DEF PlayerInv, Kept3

\* A picture is read, which the decoder is given.
LEMMA ReadPictureKeeps ==
    ASSUME NEW v, NEW c, PlayerInv(v, c), v.pc = "read", NEW to, NEW item, item.fresh = v.fresh,
           NEW w, w = [v EXCEPT !.cursor = to, !.pc = "push", !.coded = Append(v.coded, item)]
    PROVE  PlayerInv(w, c) /\ Kept3(w, v)
<1>0. Delay \in Nat  BY VideoBounds
<1> DEFINE s == Append(v.coded, item)
<1>1. /\ DOMAIN w = PlayerFields /\ w.pc = "push" /\ w.coded = s
      /\ w.loop = v.loop /\ w.registered = v.registered /\ w.playing = v.playing /\ w.ended = v.ended
      /\ w.pending = v.pending /\ w.frames = v.frames /\ w.chunks = v.chunks /\ w.source = v.source
      /\ w.running = v.running /\ w.finished = v.finished /\ w.fresh = v.fresh
  BY DEF PlayerInv, PlayerFields
<1>2. ~v.finished /\ v.registered /\ v.pc # "over"  BY DEF PlayerInv
<1>3. Len(v.coded) \in Nat /\ Len(v.frames) \in Nat /\ Len(v.chunks) \in Nat  BY LenIs DEF PlayerInv
<1>4. /\ IsQ(s) /\ Len(s) = Len(v.coded) + 1
      /\ \A i \in 1..Len(v.coded) : s[i] = v.coded[i]
      /\ s[Len(v.coded) + 1] = item
  BY AppendedIs DEF PlayerInv
<1> HIDE DEF s
<1>5. FreshBehind(v.coded, 0, v.fresh) /\ Len(v.coded) <= Delay  BY DEF PlayerInv, HoldsLittle
<1>6. FreshBehind(s, 0, v.fresh)
  <2> SUFFICES ASSUME NEW i \in 1..Len(s) PROVE s[i].fresh = v.fresh  BY DEF FreshBehind
  <2>1. i \in 1..Len(v.coded) \/ i = Len(v.coded) + 1  BY <1>3, <1>4
  <2>2. i \in 1..Len(v.coded) => i > 0  OBVIOUS
  <2> QED  BY <1>4, <1>5, <2>1, <2>2 DEF FreshBehind
<1>7. HoldsLittle(w)
  <2>1. Len(s) <= Delay + 1  BY <1>0, <1>3, <1>4, <1>5
  <2> QED  BY <1>1, <1>6, <2>1 DEF HoldsLittle
<1>8. ASSUME w.pending # None, ~c PROVE AwaitsSeek(w)
  <2>1. AwaitsSeek(v)  BY <1>1, <1>2, <1>8 DEF PlayerInv
  <2>2. Len(v.frames) = 0 /\ Len(v.chunks) = 0  BY <2>1 DEF AwaitsSeek
  <2>3. Len(v.frames) + Len(s) <= Delay + 1  BY <1>0, <1>3, <1>4, <1>5, <2>2
  <2> QED  BY <1>1, <2>2, <2>3 DEF AwaitsSeek
<1>9. ObeyedSeek(v) => ObeyedSeek(w)  BY <1>1 DEF ObeyedSeek, FreshBehind
<1> QED  BY <1>1, <1>2, <1>4, <1>7, <1>8, <1>9 DEF PlayerInv, Kept3

\* Sound is read, which is queued.
LEMMA ReadSoundKeeps ==
    ASSUME NEW v, NEW c, PlayerInv(v, c), v.pc = "read", NEW to, NEW item, item.fresh = v.fresh,
           NEW w, w = [v EXCEPT !.cursor = to, !.pc = "top",
                                !.chunks = Enqueued(v.chunks, item, MaxBufferedAudioChunks)]
    PROVE  PlayerInv(w, c) /\ Kept3(w, v)
<1>0. Delay \in Nat /\ MaxBufferedAudioChunks \in Nat \ {0}  BY VideoBounds
<1> DEFINE s == Enqueued(v.chunks, item, MaxBufferedAudioChunks)
<1>1. /\ DOMAIN w = PlayerFields /\ w.pc = "top" /\ w.chunks = s
      /\ w.loop = v.loop /\ w.registered = v.registered /\ w.playing = v.playing /\ w.ended = v.ended
      /\ w.pending = v.pending /\ w.frames = v.frames /\ w.coded = v.coded /\ w.source = v.source
      /\ w.running = v.running /\ w.finished = v.finished /\ w.fresh = v.fresh
  BY DEF PlayerInv, PlayerFields
<1>2. ~v.finished /\ v.registered /\ v.pc # "over"  BY DEF PlayerInv
<1>3. Len(v.coded) \in Nat /\ Len(v.frames) \in Nat /\ Len(v.chunks) \in Nat /\ IsQ(v.chunks)
  BY LenIs DEF PlayerInv
<1>4. /\ IsQ(s) /\ Len(s) <= Len(v.chunks) + 1
      /\ FreshBehind(v.chunks, 1, v.fresh) => FreshBehind(s, 1, v.fresh)
  BY <1>0, <1>3, EnqueuedIsFresh
<1> HIDE DEF s
<1>5. HoldsLittle(w)
  <2>1. HoldsLittle(v)  BY DEF PlayerInv
  <2> QED  BY <1>1, <2>1 DEF HoldsLittle
<1>6. ASSUME w.pending # None, ~c PROVE AwaitsSeek(w)
  <2>1. AwaitsSeek(v)  BY <1>1, <1>2, <1>6 DEF PlayerInv
  <2>2. Len(v.frames) = 0 /\ Len(v.chunks) = 0  BY <2>1 DEF AwaitsSeek
  <2>3. Len(s) \in Nat  BY <1>4, LenIs
  <2> QED  BY <1>0, <1>1, <1>3, <1>4, <2>2, <2>3 DEF AwaitsSeek
<1>7. ObeyedSeek(v) => ObeyedSeek(w)  BY <1>1, <1>4 DEF ObeyedSeek
<1> QED  BY <1>1, <1>2, <1>4, <1>5, <1>6, <1>7 DEF PlayerInv, Kept3

\* A picture comes out of the decoder.
LEMMA PushKeeps ==
    ASSUME NEW v, NEW c, PlayerInv(v, c), v.pc \in {"push", "drain"}, v.coded # <<>>, NEW yet,
           NEW w, w = [v EXCEPT !.coded = Tail(v.coded),
                                !.frames = Enqueued(v.frames, Head(v.coded), MaxBufferedFrames),
                                !.ended = v.ended /\ yet]
    PROVE  PlayerInv(w, c) /\ Kept3(w, v)
<1>0. Delay \in Nat /\ MaxBufferedFrames \in Nat \ {0}  BY VideoBounds
<1> DEFINE s == Enqueued(v.frames, Head(v.coded), MaxBufferedFrames)
           t == Tail(v.coded)
<1>1. /\ DOMAIN w = PlayerFields /\ w.pc = v.pc /\ w.frames = s /\ w.coded = t
      /\ w.ended = (v.ended /\ yet)
      /\ w.loop = v.loop /\ w.registered = v.registered /\ w.playing = v.playing
      /\ w.pending = v.pending /\ w.chunks = v.chunks /\ w.source = v.source
      /\ w.running = v.running /\ w.finished = v.finished /\ w.fresh = v.fresh
  BY DEF PlayerInv, PlayerFields
<1>2. ~v.finished /\ ~v.ended /\ v.registered /\ v.pc # "over"  BY DEF PlayerInv
<1>3. Len(v.coded) \in Nat /\ Len(v.frames) \in Nat /\ Len(v.chunks) \in Nat /\ IsQ(v.frames) /\ IsQ(v.coded)
  BY LenIs DEF PlayerInv
<1>4. FreshBehind(v.coded, 0, v.fresh) /\ Len(v.coded) <= Delay + 1  BY DEF PlayerInv, HoldsLittle
<1>5. /\ IsQ(t) /\ Len(t) = Len(v.coded) - 1 /\ Len(t) \in Nat
      /\ \A i \in 1..Len(t) : t[i] = v.coded[i + 1]
      /\ Head(v.coded) = v.coded[1] /\ 1 \in 1..Len(v.coded)
  <2>1. PICK S : v.coded \in Seq(S)  BY <1>3 DEF IsQ
  <2>2. t \in Seq(S) /\ Len(t) = Len(v.coded) - 1 /\ \A i \in 1..Len(t) : t[i] = v.coded[i + 1]
    BY <2>1, HeadTailProperties
  <2>3. Head(v.coded) = v.coded[1] /\ Len(v.coded) # 0  BY <1>3, <2>1, LenIs
  <2>4. 1 \in 1..Len(v.coded) /\ Len(v.coded) - 1 \in Nat  BY <1>3, <2>3
  <2> QED  BY <2>2, <2>3, <2>4 DEF IsQ
<1>6. Head(v.coded).fresh = v.fresh  BY <1>4, <1>5 DEF FreshBehind
<1>7. /\ IsQ(s) /\ Len(s) <= Len(v.frames) + 1
      /\ \A k \in Nat : FreshBehind(v.frames, k, v.fresh) => FreshBehind(s, k, v.fresh)
  <2> DEFINE item == Head(v.coded)
  <2> HIDE DEF item
  <2>1. item.fresh = v.fresh  BY <1>6 DEF item
  <2>2. ASSUME NEW k \in Nat
        PROVE  LET u == Enqueued(v.frames, item, MaxBufferedFrames)
               IN /\ IsQ(u) /\ Len(u) <= Len(v.frames) + 1
                  /\ FreshBehind(v.frames, k, v.fresh) => FreshBehind(u, k, v.fresh)
    BY <1>0, <1>3, <2>1, EnqueuedIsFresh
  <2>3. 0 \in Nat  OBVIOUS
  <2> QED  BY <2>2, <2>3 DEF item
<1> HIDE DEF s, t
<1>8. FreshBehind(t, 0, v.fresh)
  <2> SUFFICES ASSUME NEW i \in 1..Len(t) PROVE t[i].fresh = v.fresh  BY DEF FreshBehind
  <2>1. i + 1 \in 1..Len(v.coded) /\ i + 1 > 0  BY <1>3, <1>5
  <2> QED  BY <1>4, <1>5, <2>1 DEF FreshBehind
<1>9. HoldsLittle(w)
  <2>1. Len(t) <= Delay /\ Len(t) <= Delay + 1  BY <1>0, <1>3, <1>4, <1>5
  <2> QED  BY <1>1, <1>8, <2>1 DEF HoldsLittle
<1>10. ASSUME w.pending # None, ~c PROVE AwaitsSeek(w)
  <2>1. AwaitsSeek(v)  BY <1>1, <1>2, <1>10 DEF PlayerInv
  <2>2. Len(v.chunks) = 0 /\ Len(v.frames) + Len(v.coded) <= Delay + 1  BY <2>1 DEF AwaitsSeek
  <2>3. Len(s) \in Nat  BY <1>7, LenIs
  <2>4. Len(t) = Len(v.coded) - 1 /\ Len(s) <= Len(v.frames) + 1  BY <1>5, <1>7
  <2>5. Len(s) + Len(t) <= Delay + 1  
    <3>1. Delay + 1 \in Nat  BY <1>0
    <3>2. Len(s) + (Len(v.coded) - 1) <= Delay + 1  BY <1>3, <2>2, <2>3, <2>4, <3>1, OneMoved
    <3> QED  BY <2>4, <3>2
  <2> QED  BY <1>1, <2>2, <2>5 DEF AwaitsSeek
<1>11. ObeyedSeek(v) => ObeyedSeek(w)
  <2>1. 0..(Delay + 1) \subseteq Nat  OBVIOUS
  <2> QED  BY <1>1, <1>7, <2>1 DEF ObeyedSeek
<1> QED  BY <1>1, <1>2, <1>5, <1>7, <1>9, <1>10, <1>11 DEF PlayerInv, Kept3

\* The file is at its end, and the decoder empty.
LEMMA FinishKeeps ==
    ASSUME NEW v, NEW c, PlayerInv(v, c), v.pc = "drain", NEW w,
           w = IF v.loop
               THEN [v EXCEPT !.pc = "top", !.cursor = 0, !.coded = <<>>, !.finished = FALSE]
               ELSE [v EXCEPT !.pc = "over", !.finished = TRUE]
    PROVE  PlayerInv(w, c) /\ Kept3(w, v)
<1>0. Delay \in Nat  BY VideoBounds
<1>1. /\ DOMAIN w = PlayerFields /\ w.pc = (IF v.loop THEN "top" ELSE "over")
      /\ w.coded = (IF v.loop THEN <<>> ELSE v.coded) /\ w.finished = (IF v.loop THEN FALSE ELSE TRUE)
      /\ w.loop = v.loop /\ w.registered = v.registered /\ w.playing = v.playing /\ w.ended = v.ended
      /\ w.pending = v.pending /\ w.frames = v.frames /\ w.chunks = v.chunks /\ w.source = v.source
      /\ w.running = v.running /\ w.fresh = v.fresh
  BY DEF PlayerInv, PlayerFields
<1>2. ~v.finished /\ ~v.ended /\ v.registered /\ v.pc # "over"  BY DEF PlayerInv
<1>3. Len(v.coded) \in Nat /\ Len(v.frames) \in Nat /\ Len(v.chunks) \in Nat /\ IsQ(w.coded)
  BY <1>1, LenIs, EmptyQ DEF PlayerInv
<1>4. HoldsLittle(w)
  <2>1. FreshBehind(v.coded, 0, v.fresh)  BY DEF PlayerInv, HoldsLittle
  <2> QED  BY <1>0, <1>1, <2>1, EmptyQ DEF HoldsLittle, FreshBehind
<1>5. ASSUME w.pending # None, w.pc # "over", ~c PROVE AwaitsSeek(w)
  <2>1. AwaitsSeek(v)  BY <1>1, <1>2, <1>5 DEF PlayerInv
  <2>2. Len(v.chunks) = 0 /\ Len(v.frames) + Len(v.coded) <= Delay + 1  BY <2>1 DEF AwaitsSeek
  <2>3. w.pc = "top"  BY <1>1, <1>5
  <2>4. Len(v.frames) <= Delay + 1 /\ Len(v.chunks) <= 1
    <3>1. Delay + 1 \in Nat  BY <1>0
    <3>2. Len(v.frames) <= Delay + 1  BY <1>3, <2>2, <3>1, PartIsLess
    <3>3. Len(v.chunks) = 0  BY <2>2
    <3> QED  BY <3>2, <3>3
  <2> QED  BY <1>1, <2>3, <2>4 DEF AwaitsSeek
<1>6. ObeyedSeek(v) => ObeyedSeek(w)  BY <1>1 DEF ObeyedSeek, FreshBehind
<1> QED  BY <1>1, <1>2, <1>3, <1>4, <1>5, <1>6 DEF PlayerInv, Kept3

\* What the thread does to the players.
LEMMA DecodeKeeps ==
    ASSUME NEW p, p \in DOMAIN player, NEW c, PlayerInv(player[p], c), Decode(p)
    PROVE  \E w : Update(p, w) /\ PlayerInv(w, c) /\ Kept3(w, player[p])
<1> DEFINE v == player[p]
<1> SUFFICES \E w : Update(p, w) /\ PlayerInv(w, c) /\ Kept3(w, v)  OBVIOUS
<1>0. PlayerInv(v, c)  OBVIOUS
<1>1. Open(p) \/ Take(p) \/ Wait(p) \/ Read(p) \/ Push(p) \/ Again(p) \/ Finish(p)  BY DEF Decode
<1>2. CASE Open(p)
  <2>1. PICK w : /\ Update(p, w)
                 /\ w = [v EXCEPT !.pc = "top", !.has_audio = v.track] \/ w = [v EXCEPT !.pc = "over"]
    BY <1>2 DEF Open
  <2>2. v.pc = "open"  BY <1>2 DEF Open
  <2> HIDE DEF v
  <2> QED  BY <1>0, <2>1, <2>2, OpenKeeps
<1>3. CASE Take(p)
  <2>1. PICK to : Update(p, IF ~v.running THEN [v EXCEPT !.pc = "over"]
                            ELSE IF v.pending = None THEN [v EXCEPT !.pc = "read"]
                            ELSE [v EXCEPT !.pc = "read", !.pending = None, !.finished = FALSE,
                                           !.cursor = to, !.coded = <<>>, !.fresh = v.fresh + 1])
    BY <1>3 DEF Take
  <2>2. v.pc = "top"  BY <1>3 DEF Take
  <2> DEFINE w == IF ~v.running THEN [v EXCEPT !.pc = "over"]
                  ELSE IF v.pending = None THEN [v EXCEPT !.pc = "read"]
                  ELSE [v EXCEPT !.pc = "read", !.pending = None, !.finished = FALSE,
                                 !.cursor = to, !.coded = <<>>, !.fresh = v.fresh + 1]
  <2> HIDE DEF v
  <2>3. PlayerInv(w, c) /\ Kept3(w, v)  BY <1>0, <2>2, TakeKeeps
  <2> QED  BY <2>1, <2>3
<1>4. CASE Wait(p) \/ Again(p) \/ (Read(p) /\ v.cursor \div 2 = Length)
  <2>1. PICK w : /\ Update(p, w)
                 /\ \/ v.pc = "read" /\ w = [v EXCEPT !.pc = "top"]
                    \/ v.pc = "push" /\ (v.running => Len(v.coded) <= Delay) /\ w = [v EXCEPT !.pc = "top"]
                    \/ v.pc = "read" /\ w = [v EXCEPT !.pc = "drain"]
    BY <1>4 DEF Wait, Again, Read
  <2> HIDE DEF v
  <2> QED  BY <1>0, <2>1, TurnsKeep
<1>5. CASE Read(p) /\ v.cursor \div 2 # Length /\ v.cursor % 2 = 0
  <2> DEFINE pts == v.cursor \div 2
             to == v.cursor + (IF v.has_audio THEN 1 ELSE 2)
             item == Decoded(v, pts)
             w == [v EXCEPT !.cursor = to, !.pc = "push", !.coded = Append(v.coded, item)]
  <2>1. v.pc = "read" /\ Update(p, w)  BY <1>5 DEF Read
  <2>2. item.fresh = v.fresh  BY DEF Decoded
  <2> HIDE DEF v, to, item
  <2>3. PlayerInv(w, c) /\ Kept3(w, v)  BY <1>0, <2>1, <2>2, ReadPictureKeeps
  <2> QED  BY <2>1, <2>3
<1>6. CASE Read(p) /\ v.cursor \div 2 # Length /\ v.cursor % 2 # 0
  <2> DEFINE pts == v.cursor \div 2
             to == v.cursor + (IF v.has_audio THEN 1 ELSE 2)
             item == Decoded(v, pts)
             w == [v EXCEPT !.cursor = to, !.pc = "top",
                            !.chunks = Enqueued(v.chunks, item, MaxBufferedAudioChunks)]
  <2>1. v.pc = "read" /\ Update(p, w)  BY <1>6 DEF Read
  <2>2. item.fresh = v.fresh  BY DEF Decoded
  <2> HIDE DEF v, to, item
  <2>3. PlayerInv(w, c) /\ Kept3(w, v)  BY <1>0, <2>1, <2>2, ReadSoundKeeps
  <2> QED  BY <2>1, <2>3
<1>7. CASE Push(p)
  <2> DEFINE yet == v.pc = "drain"
             w == [v EXCEPT !.coded = Tail(v.coded),
                            !.frames = Enqueued(v.frames, Head(v.coded), MaxBufferedFrames),
                            !.ended = v.ended /\ yet]
  <2>1. v.pc \in {"push", "drain"} /\ v.coded # <<>> /\ Update(p, w)  BY <1>7 DEF Push
  <2> HIDE DEF v, yet
  <2>2. PlayerInv(w, c) /\ Kept3(w, v)  BY <1>0, <2>1, PushKeeps
  <2> QED  BY <2>1, <2>2
<1>8. CASE Finish(p)
  <2> DEFINE w == IF v.loop
                  THEN [v EXCEPT !.pc = "top", !.cursor = 0, !.coded = <<>>, !.finished = FALSE]
                  ELSE [v EXCEPT !.pc = "over", !.finished = TRUE]
  <2>1. v.pc = "drain" /\ Update(p, w)  BY <1>8 DEF Finish
  <2> HIDE DEF v
  <2>2. PlayerInv(w, c) /\ Kept3(w, v)  BY <1>0, <2>1, FinishKeeps
  <2> QED  BY <2>1, <2>2
<1> QED  BY <1>1, <1>2, <1>3, <1>4, <1>5, <1>6, <1>7, <1>8

-----------------------------------------------------------------------------
(* What the main thread does to a player.                                  *)

LEMMA LeftIsFresh ==
    ASSUME NEW s, IsQ(s), NEW t, LeftOf(t, s), NEW mark
    PROVE  /\ IsQ(t) /\ Len(t) \in Nat /\ Len(t) <= Len(s)
           /\ \A k \in Nat : FreshBehind(s, k, mark) => FreshBehind(t, k, mark)
<1>1. PICK d \in 0..Len(s) : t = SubSeq(s, d + 1, Len(s))  BY DEF LeftOf
<1>2. ASSUME NEW k \in Nat
      PROVE  IsQ(t) /\ Len(t) <= Len(s) /\ (FreshBehind(s, k, mark) => FreshBehind(t, k, mark))
  BY <1>1, RestIsFresh
<1>3. 0 \in Nat  OBVIOUS
<1>4. IsQ(t) /\ Len(t) <= Len(s)  BY <1>2, <1>3
<1> QED  BY <1>2, <1>4, LenIs

LEMMA NothingTaken == ASSUME NEW s, IsQ(s) PROVE LeftOf(s, s) /\ LeftOf(<<>>, s)
<1>1. PICK S : s \in Seq(S)  BY DEF IsQ
<1>2. Len(s) \in Nat  BY <1>1
<1>3. s = SubSeq(s, 1, Len(s))
  <2> DEFINE t == SubSeq(s, 0 + 1, Len(s))
  <2>1. 0 \in 0..Len(s)  BY <1>2
  <2>2. IsQ(t) /\ Len(t) = Len(s) - 0 /\ \A i \in 1..Len(t) : t[i] = s[i + 0]  BY <2>1, RestIs
  <2>3. t = SubSeq(s, 1, Len(s))  OBVIOUS
  <2> HIDE DEF t
  <2>4. Len(t) = Len(s) /\ \A i \in 1..Len(s) : t[i] = s[i]  BY <1>2, <2>2
  <2>5. PICK T : t \in Seq(T)  BY <2>2 DEF IsQ
  <2>6. t = s  BY <1>1, <2>4, <2>5
  <2> QED  BY <2>3, <2>6
<1>4. <<>> = SubSeq(s, Len(s) + 1, Len(s))
  <2> DEFINE t == SubSeq(s, Len(s) + 1, Len(s))
  <2>1. Len(s) \in 0..Len(s)  BY <1>2
  <2>2. IsQ(t) /\ Len(t) = Len(s) - Len(s)  BY <2>1, RestIs
  <2> HIDE DEF t
  <2>3. Len(t) = 0  BY <1>2, <2>2
  <2>4. t = <<>>  BY <2>2, <2>3, LenIs
  <2> QED  BY <2>4 DEF t
<1>5. 0 \in 0..Len(s) /\ Len(s) \in 0..Len(s) /\ 0 + 1 = 1  BY <1>2
<1>6. LeftOf(s, s)  BY <1>3, <1>5 DEF LeftOf
<1>7. LeftOf(<<>>, s)  BY <1>4, <1>5 DEF LeftOf
<1> QED  BY <1>6, <1>7

LEMMA NoMore ==
    ASSUME NEW m \in Nat, NEW n \in Nat, NEW k \in Nat, m + n <= k, NEW few \in Nat, few <= m
    PROVE  few + n <= k
OBVIOUS

\* It takes from the queues, and asks for another place of the file.
LEMMA MainKeeps ==
    ASSUME NEW v, NEW c \in BOOLEAN, NEW d \in BOOLEAN, PlayerInv(v, c), NEW w, DOMAIN w = PlayerFields,
           w.loop = v.loop, w.registered = v.registered, w.finished = v.finished, w.pc = v.pc,
           w.coded = v.coded, w.fresh = v.fresh, w.running => v.running,
           w.ended => ~w.playing /\ w.finished /\ w.frames = <<>>,
           w.registered \/ w.source = 0,
           LeftOf(w.frames, v.frames), LeftOf(w.chunks, v.chunks),
           d \/ (~c /\ w.pending = v.pending) \/ (v.pc = "over" /\ w.pending # None)
    PROVE  PlayerInv(w, d)
<1>0. Delay \in Nat  BY VideoBounds
<1>1. IsQ(v.frames) /\ IsQ(v.chunks) /\ IsQ(v.coded) /\ v.fresh \in Nat  BY DEF PlayerInv
<1>2. Len(v.frames) \in Nat /\ Len(v.chunks) \in Nat /\ Len(v.coded) \in Nat  BY <1>1, LenIs
<1>3. /\ IsQ(w.frames) /\ Len(w.frames) \in Nat /\ Len(w.frames) <= Len(v.frames)
      /\ \A k \in Nat : FreshBehind(v.frames, k, v.fresh) => FreshBehind(w.frames, k, v.fresh)
  <2> DEFINE s == v.frames
             t == w.frames
             mark == v.fresh
  <2>1. IsQ(s) /\ LeftOf(t, s)  BY <1>1
  <2> HIDE DEF s, t, mark
  <2>2. /\ IsQ(t) /\ Len(t) \in Nat /\ Len(t) <= Len(s)
        /\ \A k \in Nat : FreshBehind(s, k, mark) => FreshBehind(t, k, mark)
    BY <2>1, LeftIsFresh
  <2> QED  BY <2>2 DEF s, t, mark
<1>4. /\ IsQ(w.chunks) /\ Len(w.chunks) \in Nat /\ Len(w.chunks) <= Len(v.chunks)
      /\ \A k \in Nat : FreshBehind(v.chunks, k, v.fresh) => FreshBehind(w.chunks, k, v.fresh)
  <2> DEFINE s == v.chunks
             t == w.chunks
             mark == v.fresh
  <2>1. IsQ(s) /\ LeftOf(t, s)  BY <1>1
  <2> HIDE DEF s, t, mark
  <2>2. /\ IsQ(t) /\ Len(t) \in Nat /\ Len(t) <= Len(s)
        /\ \A k \in Nat : FreshBehind(s, k, mark) => FreshBehind(t, k, mark)
    BY <2>1, LeftIsFresh
  <2> QED  BY <2>2 DEF s, t, mark
<1>5. HoldsLittle(w)
  <2>1. HoldsLittle(v)  BY DEF PlayerInv
  <2> QED  BY <2>1 DEF HoldsLittle
<1>6. ASSUME w.pending # None, w.pc # "over", ~d PROVE AwaitsSeek(w)
  <2>1. AwaitsSeek(v)  BY <1>6 DEF PlayerInv
  <2>2. w.pc \in {"open", "read"} => Len(w.frames) = 0 /\ Len(w.chunks) = 0
    BY <1>2, <1>3, <1>4, <2>1 DEF AwaitsSeek
  <2>3. w.pc \in {"push", "drain"} => Len(w.chunks) = 0 /\ Len(w.frames) + Len(w.coded) <= Delay + 1
    <3> SUFFICES ASSUME w.pc \in {"push", "drain"}
                 PROVE  Len(w.chunks) = 0 /\ Len(w.frames) + Len(w.coded) <= Delay + 1
      OBVIOUS
    <3>1. Len(v.chunks) = 0 /\ Len(v.frames) + Len(v.coded) <= Delay + 1  BY <2>1 DEF AwaitsSeek
    <3>2. Delay + 1 \in Nat  BY <1>0
    <3>3. Len(w.frames) + Len(v.coded) <= Delay + 1  BY <1>2, <1>3, <3>1, <3>2, NoMore
    <3>4. Len(w.chunks) = 0  BY <1>4, <3>1
    <3> QED  BY <3>3, <3>4
  <2>4. w.pc = "top" => Len(w.frames) <= Delay + 1 /\ Len(w.chunks) <= 1
    <3> SUFFICES ASSUME w.pc = "top" PROVE Len(w.frames) <= Delay + 1 /\ Len(w.chunks) <= 1  OBVIOUS
    <3>1. Len(v.frames) <= Delay + 1 /\ Len(v.chunks) <= 1  BY <2>1 DEF AwaitsSeek
    <3> QED  BY <1>0, <1>2, <1>3, <1>4, <3>1
  <2> QED  BY <2>2, <2>3, <2>4 DEF AwaitsSeek
<1>7. ASSUME w.pending = None, ~d PROVE ObeyedSeek(w)
  <2>1. ObeyedSeek(v)  BY <1>7 DEF PlayerInv
  <2>2. 0..(Delay + 1) \subseteq Nat /\ 1 \in Nat  OBVIOUS
  <2> QED  BY <1>3, <1>4, <2>1, <2>2 DEF ObeyedSeek
<1>8. w.finished => w.pc = "over" /\ ~w.loop  BY DEF PlayerInv
<1>9. ~w.registered => w.source = 0 /\ w.pc = "over" /\ ~w.running  BY DEF PlayerInv
<1> QED  BY <1>1, <1>3, <1>4, <1>5, <1>6, <1>7, <1>8, <1>9 DEF PlayerInv

\* It clears the queues, and gives the source back or has none.
LEMMA ClearKeeps ==
    ASSUME NEW v, NEW c \in BOOLEAN, PlayerInv(v, c), NEW w, NEW source, source = 0 \/ source = v.source,
           w = [v EXCEPT !.frames = <<>>, !.chunks = <<>>, !.source = source]
    PROVE  PlayerInv(w, FALSE)
<1>0. Delay \in Nat  BY VideoBounds
<1>1. /\ DOMAIN w = PlayerFields /\ w.frames = <<>> /\ w.chunks = <<>> /\ w.source = source
      /\ w.loop = v.loop /\ w.registered = v.registered /\ w.playing = v.playing /\ w.ended = v.ended
      /\ w.pending = v.pending /\ w.pc = v.pc /\ w.running = v.running /\ w.finished = v.finished
      /\ w.coded = v.coded /\ w.fresh = v.fresh
  BY DEF PlayerInv, PlayerFields
<1>2. HoldsLittle(w)
  <2>1. HoldsLittle(v)  BY DEF PlayerInv
  <2> QED  BY <1>1, <2>1 DEF HoldsLittle
<1>3. Len(v.coded) \in Nat  BY LenIs DEF PlayerInv
<1>4. AwaitsSeek(w)
  <2>1. w.pc \in {"push", "drain"} => Len(w.coded) <= Delay + 1  BY <1>2 DEF HoldsLittle
  <2>2. w.pc \in {"push", "drain"} => 0 + Len(w.coded) <= Delay + 1  BY <1>0, <1>1, <1>3, <2>1
  <2>3. 0 <= Delay + 1 /\ 0 <= 1  BY <1>0
  <2> QED  BY <1>1, <2>2, <2>3, EmptyQ DEF AwaitsSeek
<1>5. ObeyedSeek(w)
  <2>1. \A i \in 1..Len(<<>>) : FALSE  BY EmptyQ
  <2>2. FreshBehind(<<>>, 0, w.fresh) /\ FreshBehind(<<>>, 1, w.fresh)  BY <2>1 DEF FreshBehind
  <2>3. 0 \in 0..(Delay + 1)  BY <1>0
  <2> QED  BY <1>1, <2>2, <2>3 DEF ObeyedSeek
<1> QED  BY <1>1, <1>2, <1>4, <1>5, EmptyQ DEF PlayerInv

\* It takes a player whose thread is over off the list.
LEMMA JoinKeeps ==
    ASSUME NEW v, NEW c \in BOOLEAN, PlayerInv(v, c), v.pc = "over", ~v.running,
           NEW w, \/ w = [v EXCEPT !.source = 0, !.registered = FALSE]
                  \/ v.source = 0 /\ w = [v EXCEPT !.registered = FALSE]
    PROVE  PlayerInv(w, c)
<1>1. /\ DOMAIN w = PlayerFields /\ w.frames = v.frames /\ w.chunks = v.chunks /\ w.source = 0
      /\ w.loop = v.loop /\ w.registered = FALSE /\ w.playing = v.playing /\ w.ended = v.ended
      /\ w.pending = v.pending /\ w.pc = v.pc /\ w.running = v.running /\ w.finished = v.finished
      /\ w.coded = v.coded /\ w.fresh = v.fresh
  BY DEF PlayerInv, PlayerFields
<1>2. HoldsLittle(w)  BY <1>1 DEF HoldsLittle, PlayerInv
<1>3. ObeyedSeek(v) => ObeyedSeek(w)  BY <1>1 DEF ObeyedSeek
<1> QED  BY <1>1, <1>2, <1>3 DEF PlayerInv

-----------------------------------------------------------------------------
(* The invariant.                                                          *)

\* What the device and Audio's lists have in common.
AudioFields == {"available", "buffers", "active", "streaming", "voices"}

AudioInv(a) ==
    /\ DOMAIN a = AudioFields
    /\ a.streaming \subseteq a.active /\ a.active = DOMAIN a.voices /\ a.active \subseteq Sources

\* The streams are those of the players, one each.
StreamsInv ==
    /\ IsFiniteSet(DOMAIN player) /\ IsFiniteSet(audio.streaming)
    /\ \A p \in DOMAIN player :
          player[p].source = 0 \/ (sounding /\ player[p].source \in audio.streaming)
    /\ \A s \in audio.streaming : \E p \in DOMAIN player : player[p].source = s
    /\ \A p, q \in DOMAIN player : player[p].source = player[q].source /\ p # q => player[p].source = 0

\* A frame is for players that are listed; when all are dropped, those still
\* listed are still to be.
TurnInv ==
    \/ turn = Idle
    \/ \E p \in DOMAIN player : turn = [at |-> "clear", of |-> p]
    \/ \E due \in SUBSET Registered : turn = [at |-> "frame", due |-> due]
    \/ \E due \in SUBSET Registered : \E p \in Registered : turn = [at |-> "end", of |-> p, due |-> due]
    \/ \E rest \in SUBSET DOMAIN player : Registered \subseteq rest /\ turn = [at |-> "drop", rest |-> rest]
    \/ \E p \in DOMAIN player : \E rest \in SUBSET DOMAIN player : \E last \in BOOLEAN :
          /\ turn = [at |-> "join", of |-> p, rest |-> rest, last |-> last]
          /\ ~player[p].running
          /\ last => Registered \subseteq rest \cup {p}

Clearing(p) == turn = [at |-> "clear", of |-> p]

MediaInv ==
    /\ \A p \in DOMAIN player : PlayerInv(player[p], Clearing(p))
    /\ AudioInv(audio)
    /\ StreamsInv
    /\ TurnInv

LEMMA FreeIs ==
    ASSUME NEW a, AudioInv(a)
    PROVE  FreeSource(a) = 0 \/ (FreeSource(a) \in Sources \ DOMAIN a.voices /\ FreeSource(a) # 0)
<1> DEFINE free == Sources \ DOMAIN a.voices
<1>1. free \subseteq Nat \ {0}  BY AudioBounds
<1>2. CASE a.available /\ free # {}
  <2>1. \E s \in free : \A other \in free : s <= other
    <3> HIDE DEF free
    <3> QED  BY <1>1, <1>2, LeastIs
  <2>2. FreeSource(a) = CHOOSE s \in free : \A other \in free : s <= other  BY <1>2 DEF FreeSource
  <2> HIDE DEF free
  <2>3. FreeSource(a) \in free  BY <2>1, <2>2
  <2>4. FreeSource(a) # 0  BY <1>1, <2>3
  <2> QED  BY <2>3, <2>4 DEF free
<1>3. CASE ~(a.available /\ free # {})  BY <1>3 DEF FreeSource
<1> QED  BY <1>2, <1>3

\* What leaves the streams as they are.
SameStreams(b, a) == AudioInv(b) /\ b.streaming = a.streaming

LEMMA WithSourceIs ==
    ASSUME NEW a, AudioInv(a), NEW s \in Sources, NEW played
    PROVE  LET b == WithSource(a, s, played)
           IN SameStreams(b, a) /\ b.active = a.active \cup {s} /\ DOMAIN b = AudioFields
<1> DEFINE b == WithSource(a, s, played)
<1>1. PICK t : t = b  OBVIOUS
<1>2. /\ DOMAIN t = AudioFields /\ t.streaming = a.streaming /\ t.active = a.active \cup {s}
      /\ DOMAIN t.voices = DOMAIN a.voices \cup {s}
  BY <1>1 DEF WithSource, AudioInv, AudioFields
<1> HIDE DEF b
<1>3. SameStreams(t, a)  BY <1>2 DEF SameStreams, AudioInv
<1> QED  BY <1>1, <1>2, <1>3 DEF b

LEMMA CreateIs ==
    ASSUME NEW a, AudioInv(a)
    PROVE  LET b == CreateStreaming(a)
               s == FreeSource(a)
           IN /\ s = 0 => b = a
              /\ s # 0 => AudioInv(b) /\ b.streaming = a.streaming \cup {s} /\ s \notin a.streaming
<1> DEFINE s == FreeSource(a)
           x == Playback(<<>>, "initial", 0)
           w == WithSource(a, s, x)
           b == CreateStreaming(a)
<1>1. CASE s = 0  BY <1>1 DEF CreateStreaming
<1>2. CASE s # 0
  <2>1. s \in Sources \ DOMAIN a.voices  BY <1>2, FreeIs
  <2>2. b = [w EXCEPT !.streaming = @ \cup {s}]  BY <1>2 DEF CreateStreaming
  <2> HIDE DEF s, x
  <2>3. SameStreams(w, a) /\ w.active = a.active \cup {s} /\ DOMAIN w = AudioFields  BY <2>1, WithSourceIs
  <2> HIDE DEF w, b
  <2>4. /\ DOMAIN b = AudioFields /\ b.streaming = w.streaming \cup {s} /\ b.active = w.active
        /\ b.voices = w.voices
    BY <2>2, <2>3 DEF AudioFields
  <2>5. AudioInv(b) /\ b.streaming = a.streaming \cup {s} /\ s \notin a.streaming
    BY <2>1, <2>3, <2>4 DEF SameStreams, AudioInv
  <2> QED  BY <1>2, <2>5 DEF b, s
<1> QED  BY <1>1, <1>2

LEMMA DestroyIs ==
    ASSUME NEW a, AudioInv(a), NEW s
    PROVE  LET b == DestroyStreaming(a, s)
           IN AudioInv(b) /\ b.streaming = a.streaming \ {s}
<1> DEFINE b == DestroyStreaming(a, s)
<1>1. CASE s \notin a.streaming  BY <1>1 DEF DestroyStreaming
<1>2. CASE s \in a.streaming
  <2>1. PICK t : t = b  OBVIOUS
  <2>2. /\ DOMAIN t = AudioFields /\ t.streaming = a.streaming \ {s} /\ t.active = a.active \ {s}
        /\ DOMAIN t.voices = DOMAIN a.voices \ {s}
    BY <1>2, <2>1 DEF DestroyStreaming, AudioInv, AudioFields
  <2> HIDE DEF b
  <2>3. AudioInv(t)  BY <2>2 DEF AudioInv
  <2> QED  BY <2>1, <2>2, <2>3 DEF b
<1> QED  BY <1>1, <1>2

LEMMA VoicesChange ==
    ASSUME NEW a, AudioInv(a), NEW b, NEW voices,
           b = [a EXCEPT !.voices = voices], DOMAIN voices = DOMAIN a.voices
    PROVE  SameStreams(b, a)
BY DEF SameStreams, AudioInv, AudioFields

LEMMA ReclaimKeeps == ASSUME NEW a, AudioInv(a), NEW s PROVE SameStreams(Reclaim(a, s), a)
<1>1. CASE s \notin a.streaming  BY <1>1 DEF Reclaim, SameStreams
<1>2. CASE s \in a.streaming
  <2> DEFINE q == SubSeq(a.voices[s].queue, a.voices[s].processed + 1, Len(a.voices[s].queue))
             o == [a.voices EXCEPT ![s].queue = q]
             voices == [o EXCEPT ![s].processed = 0]
  <2>1. Reclaim(a, s) = [a EXCEPT !.voices = voices]  BY <1>2 DEF Reclaim, AudioInv, AudioFields
  <2>2. DOMAIN voices = DOMAIN a.voices  OBVIOUS
  <2> HIDE DEF voices
  <2> QED  BY <2>1, <2>2, VoicesChange
<1> QED  BY <1>1, <1>2

LEMMA PlayKeeps == ASSUME NEW a, AudioInv(a), NEW s PROVE SameStreams(PlaySource(a, s), a)
<1>1. CASE s \notin DOMAIN a.voices  BY <1>1 DEF PlaySource, SameStreams
<1>2. CASE s \in DOMAIN a.voices
  <2>1. PICK x : PlaySource(a, s) = [a EXCEPT !.voices[s] = x]  BY <1>2 DEF PlaySource
  <2> DEFINE voices == [a.voices EXCEPT ![s] = x]
  <2>2. PlaySource(a, s) = [a EXCEPT !.voices = voices]  BY <2>1 DEF AudioInv, AudioFields
  <2>3. DOMAIN voices = DOMAIN a.voices  OBVIOUS
  <2> HIDE DEF voices
  <2> QED  BY <2>2, <2>3, VoicesChange
<1> QED  BY <1>1, <1>2

LEMMA PauseKeeps == ASSUME NEW a, AudioInv(a), NEW s PROVE SameStreams(PauseSource(a, s), a)
<1>1. CASE s \notin DOMAIN a.voices \/ a.voices[s].state # "playing"  BY <1>1 DEF PauseSource, SameStreams
<1>2. CASE ~(s \notin DOMAIN a.voices \/ a.voices[s].state # "playing")
  <2> DEFINE voices == [a.voices EXCEPT ![s].state = "paused"]
  <2>1. PauseSource(a, s) = [a EXCEPT !.voices = voices]  BY <1>2 DEF PauseSource, AudioInv, AudioFields
  <2>2. DOMAIN voices = DOMAIN a.voices  OBVIOUS
  <2> HIDE DEF voices
  <2> QED  BY <2>1, <2>2, VoicesChange
<1> QED  BY <1>1, <1>2

LEMMA SameTwice ==
    ASSUME NEW a, NEW b, NEW d, SameStreams(b, a), SameStreams(d, b)
    PROVE  SameStreams(d, a)
BY DEF SameStreams

LEMMA QueueKeeps ==
    ASSUME NEW a, AudioInv(a), NEW s, NEW times
    PROVE  SameStreams(QueueStream(a, s, times), a)
<1>1. CASE s \notin a.streaming \/ times = <<>>  BY <1>1 DEF QueueStream, SameStreams
<1>2. CASE ~(s \notin a.streaming \/ times = <<>>)
  <2> DEFINE voices == [a.voices EXCEPT ![s].queue = a.voices[s].queue \o times]
             b == [a EXCEPT !.voices = voices]
  <2>1. QueueStream(a, s, times) = IF a.voices[s].state = "playing" THEN b ELSE PlaySource(b, s)
    BY <1>2 DEF QueueStream, AudioInv, AudioFields
  <2>2. DOMAIN voices = DOMAIN a.voices  OBVIOUS
  <2>3. SameStreams(b, a)
    <3> HIDE DEF voices
    <3> QED  BY <2>2, VoicesChange
  <2> HIDE DEF b
  <2>4. SameStreams(PlaySource(b, s), b)  BY <2>3, PlayKeeps DEF SameStreams
  <2>5. SameStreams(PlaySource(b, s), a)  BY <2>3, <2>4, SameTwice
  <2> QED  BY <2>1, <2>3, <2>5
<1> QED  BY <1>1, <1>2

LEMMA HaltKeeps == ASSUME NEW a, AudioInv(a), NEW s PROVE SameStreams(Halt(a, s), a)
<1>1. CASE s \notin DOMAIN a.voices  BY <1>1 DEF Halt, SameStreams
<1>2. CASE s \in DOMAIN a.voices
  <2> DEFINE o == [a.voices EXCEPT ![s].state = "stopped"]
             voices == [o EXCEPT ![s].processed = Len(a.voices[s].queue)]
  <2>1. Halt(a, s) = [a EXCEPT !.voices = voices]  BY <1>2 DEF Halt, AudioInv, AudioFields
  <2>2. DOMAIN voices = DOMAIN a.voices  OBVIOUS
  <2> HIDE DEF voices
  <2> QED  BY <2>1, <2>2, VoicesChange
<1> QED  BY <1>1, <1>2

LEMMA PlayedKeeps == ASSUME NEW a, AudioInv(a) PROVE SameStreams(Played(a), a)
<1> DEFINE voices ==
        [s \in DOMAIN a.voices |->
            IF s \notin a.streaming \/ a.voices[s].state # "playing" THEN a.voices[s]
            ELSE [a.voices[s] EXCEPT !.processed = @ + 1,
                                     !.state = IF a.voices[s].processed + 1 = Len(a.voices[s].queue)
                                               THEN "stopped" ELSE @]]
<1>1. Played(a) = [a EXCEPT !.voices = voices]  BY DEF Played
<1>2. DOMAIN voices = DOMAIN a.voices  OBVIOUS
<1> HIDE DEF voices
<1> QED  BY <1>1, <1>2, VoicesChange

LEMMA CleanupKeeps == ASSUME NEW a, AudioInv(a) PROVE SameStreams(CleanupStopped(a), a)
<1> DEFINE b == CleanupStopped(a)
<1>1. PICK over : /\ over \subseteq a.active \ a.streaming
                  /\ \E voices : /\ DOMAIN voices = DOMAIN a.voices \ over
                                 /\ b = [a EXCEPT !.active = @ \ over, !.voices = voices]
  <2> DEFINE over == {s \in a.active \ a.streaming : a.voices[s].state = "stopped"}
             voices == [s \in DOMAIN a.voices \ over |->
                            IF s \in a.streaming THEN Reclaim(a, s).voices[s] ELSE a.voices[s]]
  <2>1. over \subseteq a.active \ a.streaming /\ DOMAIN voices = DOMAIN a.voices \ over  OBVIOUS
  <2>2. b = [a EXCEPT !.active = @ \ over, !.voices = voices]  BY DEF CleanupStopped
  <2> HIDE DEF over, voices, b
  <2> QED  BY <2>1, <2>2
<1>2. PICK voices : /\ DOMAIN voices = DOMAIN a.voices \ over
                    /\ b = [a EXCEPT !.active = @ \ over, !.voices = voices]
  BY <1>1
<1> HIDE DEF b
<1>3. /\ DOMAIN b = AudioFields /\ b.streaming = a.streaming /\ b.active = a.active \ over
      /\ b.voices = voices
  BY <1>2 DEF AudioInv, AudioFields
<1>4. SameStreams(b, a)  BY <1>1, <1>2, <1>3 DEF SameStreams, AudioInv
<1> QED  BY <1>4 DEF b

-----------------------------------------------------------------------------
(* How the parts of the invariant are kept.                                *)

LEMMA OneChanges ==
    ASSUME NEW p, p \in DOMAIN player, NEW w, Update(p, w)
    PROVE  /\ DOMAIN player' = DOMAIN player /\ player'[p] = w
           /\ \A q \in DOMAIN player : q # p => player'[q] = player[q]
BY DEF Update

LEMMA ClearingIs ==
    /\ turn = Idle => \A p : ~Clearing(p)
    /\ \A t : turn # [at |-> "clear", of |-> t] => ~Clearing(t)
    /\ \A p, t : turn = [at |-> "clear", of |-> t] => (Clearing(p) <=> p = t)
    /\ \A p : Clearing(p) \in BOOLEAN
<1>1. turn = Idle => \A p : ~Clearing(p)
  <2> SUFFICES ASSUME turn = Idle, NEW p, turn = [at |-> "clear", of |-> p] PROVE FALSE  BY DEF Clearing
  <2>1. turn.at = "idle" /\ turn.at = "clear"  BY DEF Idle
  <2> QED  BY <2>1
<1>2. \A p, t : turn = [at |-> "clear", of |-> t] => (Clearing(p) <=> p = t)
  <2> SUFFICES ASSUME NEW p, NEW t, turn = [at |-> "clear", of |-> t] PROVE Clearing(p) <=> p = t  OBVIOUS
  <2>1. turn.of = t  OBVIOUS
  <2>2. Clearing(p) => turn.of = p  BY DEF Clearing
  <2>3. p = t => Clearing(p)  BY DEF Clearing
  <2> QED  BY <2>1, <2>2, <2>3
<1> QED  BY <1>1, <1>2 DEF Clearing

LEMMA ClearingIsAt == \A p : Clearing(p) => turn.at = "clear" /\ turn.of = p
BY DEF Clearing

\* That what was decoded is about to be cleared asks less of a player.
LEMMA LessAsked ==
    ASSUME NEW v, NEW c \in BOOLEAN, NEW d \in BOOLEAN, PlayerInv(v, c), c => d
    PROVE  PlayerInv(v, d)
BY DEF PlayerInv

LEMMA PlayersKept ==
    ASSUME MediaInv, NEW p, p \in DOMAIN player, NEW w, Update(p, w), NEW c \in BOOLEAN, PlayerInv(w, c),
           c => Clearing(p)', \A q \in DOMAIN player : q # p /\ Clearing(q) => Clearing(q)'
    PROVE  \A q \in DOMAIN player' : PlayerInv(player'[q], Clearing(q)')
<1>1. /\ DOMAIN player' = DOMAIN player /\ player'[p] = w
      /\ \A q \in DOMAIN player : q # p => player'[q] = player[q]
  BY OneChanges
<1> SUFFICES ASSUME NEW q, q \in DOMAIN player PROVE PlayerInv(player'[q], Clearing(q)')  BY <1>1
<1> DEFINE b == Clearing(q)
           d == Clearing(q)'
<1>2. b \in BOOLEAN /\ d \in BOOLEAN  BY DEF Clearing
<1>3. CASE q = p
  <2>1. c => d  BY <1>3
  <2> HIDE DEF d, b
  <2>2. PlayerInv(w, d)  BY <1>2, <2>1, LessAsked
  <2>3. PlayerInv(player'[q], d)  BY <1>1, <1>3, <2>2
  <2> QED  BY <2>3 DEF d
<1>4. CASE q # p
  <2>1. b => d  BY <1>4
  <2>2. PlayerInv(player[q], b)  BY DEF MediaInv
  <2> HIDE DEF d, b
  <2>3. PlayerInv(player[q], d)  BY <1>2, <2>1, <2>2, LessAsked
  <2>4. PlayerInv(player'[q], d)  BY <1>1, <1>4, <2>3
  <2> QED  BY <2>4 DEF d
<1> QED  BY <1>3, <1>4

LEMMA PlayersSame ==
    ASSUME MediaInv, player' = player, \A q : Clearing(q) => Clearing(q)'
    PROVE  \A q \in DOMAIN player' : PlayerInv(player'[q], Clearing(q)')
<1> SUFFICES ASSUME NEW q, q \in DOMAIN player PROVE PlayerInv(player[q], Clearing(q)')  OBVIOUS
<1> DEFINE b == Clearing(q)
           d == Clearing(q)'
<1>1. b \in BOOLEAN /\ d \in BOOLEAN /\ (b => d)  BY DEF Clearing
<1>2. PlayerInv(player[q], b)  BY DEF MediaInv
<1> HIDE DEF b, d
<1>3. PlayerInv(player[q], d)  BY <1>1, <1>2, LessAsked
<1> QED  BY <1>3 DEF d

LEMMA StreamsStay ==
    ASSUME StreamsInv, DOMAIN player' = DOMAIN player,
           \A p \in DOMAIN player : player'[p].source = player[p].source,
           audio'.streaming = audio.streaming, sounding' = sounding
    PROVE  StreamsInv'
BY DEF StreamsInv

LEMMA NoNull == ASSUME NEW a, AudioInv(a) PROVE 0 \notin a.streaming
BY AudioBounds DEF AudioInv

LEMMA StreamGained ==
    ASSUME StreamsInv, DOMAIN player' = DOMAIN player, sounding, sounding' = sounding,
           NEW p, p \in DOMAIN player, player[p].source = 0, 0 \notin audio.streaming,
           NEW s, s # 0, s \notin audio.streaming, player'[p].source = s,
           \A q \in DOMAIN player : q # p => player'[q].source = player[q].source,
           audio'.streaming = audio.streaming \cup {s}
    PROVE  StreamsInv'
<1>1. IsFiniteSet(DOMAIN player') /\ IsFiniteSet(audio'.streaming)  BY FS_AddElement DEF StreamsInv
<1>2. \A q \in DOMAIN player' :
          player'[q].source = 0 \/ (sounding' /\ player'[q].source \in audio'.streaming)
  BY DEF StreamsInv
<1>3. \A t \in audio'.streaming : \E q \in DOMAIN player' : player'[q].source = t
  <2> SUFFICES ASSUME NEW t \in audio.streaming \cup {s}
               PROVE  \E q \in DOMAIN player : player'[q].source = t
    OBVIOUS
  <2>1. CASE t = s  BY <2>1
  <2>2. CASE t \in audio.streaming /\ t # 0
    <3>1. PICK q \in DOMAIN player : player[q].source = t  BY <2>2 DEF StreamsInv
    <3> QED  BY <2>2, <3>1
  <2> QED  BY <2>1, <2>2
<1>4. \A q, r \in DOMAIN player' :
          player'[q].source = player'[r].source /\ q # r => player'[q].source = 0
  BY DEF StreamsInv
<1> QED  BY <1>1, <1>2, <1>3, <1>4 DEF StreamsInv

LEMMA StreamLost ==
    ASSUME StreamsInv, DOMAIN player' = DOMAIN player, sounding' = sounding,
           NEW p, p \in DOMAIN player, player'[p].source = 0,
           \A q \in DOMAIN player : q # p => player'[q].source = player[q].source,
           audio'.streaming = audio.streaming \ {player[p].source}
    PROVE  StreamsInv'
<1>1. IsFiniteSet(DOMAIN player') /\ IsFiniteSet(audio'.streaming)  BY FS_Subset DEF StreamsInv
<1>2. \A q \in DOMAIN player' :
          player'[q].source = 0 \/ (sounding' /\ player'[q].source \in audio'.streaming)
  BY DEF StreamsInv
<1>3. \A t \in audio'.streaming : \E q \in DOMAIN player' : player'[q].source = t
  BY DEF StreamsInv
<1>4. \A q, r \in DOMAIN player' :
          player'[q].source = player'[r].source /\ q # r => player'[q].source = 0
  BY DEF StreamsInv
<1> QED  BY <1>1, <1>2, <1>3, <1>4 DEF StreamsInv

LEMMA TurnStays ==
    ASSUME TurnInv, turn' = turn, DOMAIN player' = DOMAIN player,
           \A p \in DOMAIN player : /\ player'[p].registered = player[p].registered
                                    /\ player'[p].running => player[p].running
    PROVE  TurnInv'
<1>1. Registered' = Registered  BY DEF Registered
<1> QED  BY <1>1 DEF TurnInv

-----------------------------------------------------------------------------
(* The steps of the thread, and of scripts.                                *)

LEMMA DecodingKeepsInv ==
    ASSUME MediaInv, NEW p, p \in DOMAIN player, Decode(p)
    PROVE  MediaInv'
<1> DEFINE c == Clearing(p)
<1>1. c \in BOOLEAN  BY ClearingIs
<1>2. PlayerInv(player[p], c)  BY DEF MediaInv
<1>3. PICK w : Update(p, w) /\ PlayerInv(w, c) /\ Kept3(w, player[p])
  <2> HIDE DEF c
  <2> QED  BY <1>2, DecodeKeeps
<1>4. UNCHANGED <<audio, sounding, turn>>  BY DEF Decode, audioVars
<1>5. /\ DOMAIN player' = DOMAIN player /\ player'[p] = w
      /\ \A q \in DOMAIN player : q # p => player'[q] = player[q]
  BY <1>3, OneChanges
<1>6. \A q : Clearing(q)' <=> Clearing(q)  BY <1>4 DEF Clearing
<1>7. \A q \in DOMAIN player : /\ player'[q].source = player[q].source
                               /\ player'[q].registered = player[q].registered
                               /\ player'[q].running = player[q].running
  BY <1>3, <1>5 DEF Kept3
<1>8. \A q \in DOMAIN player' : PlayerInv(player'[q], Clearing(q)')
  <2>1. c => Clearing(p)'  BY <1>6
  <2> HIDE DEF c
  <2> QED  BY <1>1, <1>3, <1>6, <2>1, PlayersKept
<1>9. StreamsInv'  BY <1>4, <1>5, <1>7, StreamsStay DEF MediaInv
<1>10. TurnInv'  BY <1>4, <1>5, <1>7, TurnStays DEF MediaInv
<1>11. AudioInv(audio)'  BY <1>4 DEF MediaInv, AudioInv
<1> QED  BY <1>8, <1>9, <1>10, <1>11 DEF MediaInv

\* A script plays, pauses or seeks: the queues and the thread are as they were.
SameQueues(w, v) ==
    /\ DOMAIN w = PlayerFields /\ w.frames = v.frames /\ w.chunks = v.chunks /\ w.source = v.source
    /\ w.loop = v.loop /\ w.registered = v.registered /\ w.pc = v.pc /\ w.finished = v.finished
    /\ w.running = v.running /\ w.coded = v.coded /\ w.fresh = v.fresh

LEMMA PlayedIsKept ==
    ASSUME NEW v, NEW c \in BOOLEAN, NEW d \in BOOLEAN, PlayerInv(v, c), NEW w, SameQueues(w, v),
           d \/ (~c /\ w.pending = v.pending) \/ (v.pc = "over" /\ w.pending # None),
           (w.ended = v.ended /\ (w.playing => v.playing)) \/ w.ended = FALSE
    PROVE  PlayerInv(w, d)
<1>1. LeftOf(w.frames, v.frames) /\ LeftOf(w.chunks, v.chunks)
  BY NothingTaken DEF PlayerInv, SameQueues
<1>2. w.ended => ~w.playing /\ w.finished /\ w.frames = <<>>  BY DEF PlayerInv, SameQueues
<1>3. w.registered \/ w.source = 0  BY DEF PlayerInv, SameQueues
<1>4. /\ DOMAIN w = PlayerFields
      /\ w.loop = v.loop /\ w.registered = v.registered /\ w.finished = v.finished /\ w.pc = v.pc
      /\ w.coded = v.coded /\ w.fresh = v.fresh /\ (w.running => v.running)
  BY DEF SameQueues
<1> QED  BY <1>1, <1>2, <1>3, <1>4, MainKeeps

LEMMA PlayKeepsInv ==
    ASSUME MediaInv, NEW p, p \in DOMAIN player, Play(p) \/ Pause(p)
    PROVE  MediaInv'
<1> DEFINE v == player[p]
<1>1. turn = Idle /\ turn' = turn /\ sounding' = sounding  BY DEF Play, Pause
<1>2. \A q : ~Clearing(q)  BY <1>1, ClearingIs
<1>3. \A q : ~Clearing(q)'  BY <1>1, <1>2 DEF Clearing
<1>4. PlayerInv(v, FALSE)
  <2> DEFINE c == Clearing(p)
  <2>1. PlayerInv(v, c) /\ c \in BOOLEAN /\ (c => FALSE)  BY <1>2, ClearingIs DEF MediaInv
  <2> HIDE DEF c, v
  <2> QED  BY <2>1, LessAsked
<1>5. PICK w : Update(p, w) /\ PlayerInv(w, FALSE) /\ SameQueues(w, v)
  <2>1. FALSE \in BOOLEAN  OBVIOUS
  <2>2. CASE Play(p)
    <3>1. PICK w : /\ Update(p, w)
                   /\ w = [v EXCEPT !.playing = TRUE, !.elapsed = 0, !.ended = FALSE,
                                    !.base = IF v.ended THEN 0 ELSE @,
                                    !.pending = IF v.ended THEN 0 ELSE @]
      BY <2>2 DEF Play
    <3>2. SameQueues(w, v) /\ w.ended = FALSE /\ w.pending = (IF v.ended THEN 0 ELSE v.pending)
      BY <1>4, <3>1 DEF PlayerInv, PlayerFields, SameQueues
    <3>3. w.pending = v.pending \/ (v.pc = "over" /\ w.pending # None)
      BY <1>4, <3>2 DEF PlayerInv, None
    <3> HIDE DEF v
    <3>4. PlayerInv(w, FALSE)  BY <1>4, <2>1, <3>2, <3>3, PlayedIsKept
    <3> QED  BY <3>1, <3>2, <3>4
  <2>3. CASE Pause(p)
    <3>1. PICK w : /\ Update(p, w)
                   /\ w = [v EXCEPT !.playing = FALSE, !.elapsed = 0,
                                    !.base = IF v.source # 0 /\ sounding
                                             THEN StreamingClock(audio, v.source, @)
                                             ELSE @ + v.elapsed]
      BY <2>3 DEF Pause
    <3>2. SameQueues(w, v) /\ w.playing = FALSE /\ w.ended = v.ended /\ w.pending = v.pending
      <4>1. PICK base : w = [v EXCEPT !.playing = FALSE, !.elapsed = 0, !.base = base]  BY <3>1
      <4> QED  BY <1>4, <4>1 DEF PlayerInv, PlayerFields, SameQueues
    <3> HIDE DEF v
    <3>3. PlayerInv(w, FALSE)  BY <1>4, <2>1, <3>2, PlayedIsKept
    <3> QED  BY <3>1, <3>2, <3>3
  <2>4. QED  BY <2>2, <2>3
<1>6. /\ DOMAIN player' = DOMAIN player /\ player'[p] = w
      /\ \A q \in DOMAIN player : q # p => player'[q] = player[q]
  BY <1>5, OneChanges
<1>7. SameStreams(audio', audio)
  <2>1. audio' \in {audio, PlaySource(audio, v.source), PauseSource(audio, v.source)}
    BY DEF Play, Pause
  <2>2. AudioInv(audio)  BY DEF MediaInv
  <2>3. SameStreams(audio, audio)  BY <2>2 DEF SameStreams
  <2> HIDE DEF v
  <2> QED  BY <2>1, <2>2, <2>3, PlayKeeps, PauseKeeps
<1>8. \A q \in DOMAIN player' : PlayerInv(player'[q], Clearing(q)')
  <2> HIDE DEF v
  <2>1. FALSE \in BOOLEAN  OBVIOUS
  <2> QED  BY <1>2, <1>5, <2>1, PlayersKept
<1>9. \A q \in DOMAIN player : /\ player'[q].source = player[q].source
                               /\ player'[q].registered = player[q].registered
                               /\ player'[q].running = player[q].running
  BY <1>5, <1>6 DEF SameQueues
<1>10. StreamsInv'  BY <1>1, <1>6, <1>7, <1>9, StreamsStay DEF MediaInv, SameStreams
<1>11. TurnInv'  BY <1>1, <1>6, <1>9, TurnStays DEF MediaInv
<1>12. AudioInv(audio)'  BY <1>7 DEF SameStreams, AudioInv
<1> QED  BY <1>8, <1>10, <1>11, <1>12 DEF MediaInv

LEMMA SeekKeepsInv ==
    ASSUME MediaInv, NEW p, p \in DOMAIN player, NEW time, time # None, NEW plays,
           plays => player[p].playing, GoTo(p, time, plays)
    PROVE  MediaInv'
<1> DEFINE v == player[p]
<1>1. turn = Idle /\ turn' = [at |-> "clear", of |-> p] /\ UNCHANGED <<audio, sounding>>
  BY DEF GoTo, audioVars
<1>2. (\A q : ~Clearing(q)) /\ Clearing(p)'  BY <1>1, ClearingIs DEF Clearing
<1>3. PICK w : /\ Update(p, w)
               /\ w = [v EXCEPT !.base = time, !.elapsed = 0, !.ended = FALSE,
                                !.displayed = None, !.pending = time, !.playing = plays]
  BY DEF GoTo
<1>4. PlayerInv(v, Clearing(p))  BY DEF MediaInv
<1>5. SameQueues(w, v) /\ w.ended = FALSE  BY <1>3, <1>4 DEF PlayerInv, PlayerFields, SameQueues
<1>6. PlayerInv(w, TRUE)
  <2> DEFINE c == Clearing(p)
  <2>1. c \in BOOLEAN /\ TRUE \in BOOLEAN /\ PlayerInv(v, c)  BY <1>4, ClearingIs
  <2> HIDE DEF c, v
  <2> QED  BY <1>5, <2>1, PlayedIsKept
<1>7. /\ DOMAIN player' = DOMAIN player /\ player'[p] = w
      /\ \A q \in DOMAIN player : q # p => player'[q] = player[q]
  BY <1>3, OneChanges
<1>8. \A q \in DOMAIN player' : PlayerInv(player'[q], Clearing(q)')
  <2>1. TRUE \in BOOLEAN  OBVIOUS
  <2> QED  BY <1>2, <1>3, <1>6, <2>1, PlayersKept
<1>9. StreamsInv'  BY <1>1, <1>5, <1>7, StreamsStay DEF MediaInv, SameQueues
<1>10. TurnInv'  BY <1>1, <1>7 DEF TurnInv
<1>11. AudioInv(audio)'  BY <1>1 DEF MediaInv, AudioInv
<1> QED  BY <1>8, <1>9, <1>10, <1>11 DEF MediaInv

\* A player's source is given back, if there is Audio; if there is not, the
\* player has none.
LEMMA SilencedIs ==
    ASSUME MediaInv, NEW p, p \in DOMAIN player
    PROVE  /\ AudioInv(SilencedAudio(player[p]))
           /\ SilencedAudio(player[p]).streaming = audio.streaming \ {player[p].source}
           /\ ~sounding => player[p].source = 0
<1> DEFINE s == player[p].source
<1>1. AudioInv(audio)  BY DEF MediaInv
<1>2. CASE sounding
  <2>1. SilencedAudio(player[p]) = DestroyStreaming(audio, s)  BY <1>2 DEF SilencedAudio
  <2> HIDE DEF s
  <2>2. /\ AudioInv(DestroyStreaming(audio, s))
        /\ DestroyStreaming(audio, s).streaming = audio.streaming \ {s}
    BY <1>1, DestroyIs
  <2> QED  BY <1>2, <2>1, <2>2 DEF s
<1>3. CASE ~sounding
  <2>1. s = 0  BY <1>3 DEF MediaInv, StreamsInv
  <2>2. 0 \notin audio.streaming  BY <1>1, NoNull
  <2>3. SilencedAudio(player[p]) = audio  BY <1>3 DEF SilencedAudio
  <2>4. audio.streaming \ {s} = audio.streaming  BY <2>1, <2>2
  <2> QED  BY <1>1, <1>3, <2>1, <2>3, <2>4
<1> QED  BY <1>2, <1>3

LEMMA ClearKeepsInv ==
    ASSUME MediaInv, NEW p, p \in DOMAIN player, Clear(p)
    PROVE  MediaInv'
<1> DEFINE v == player[p]
<1>1. /\ turn = [at |-> "clear", of |-> p] /\ turn' = Idle /\ sounding' = sounding
      /\ audio' = SilencedAudio(v)
  BY DEF Clear
<1>2. /\ AudioInv(audio') /\ audio'.streaming = audio.streaming \ {v.source}
      /\ ~sounding => v.source = 0
  BY <1>1, SilencedIs
<1>3. PlayerInv(v, Clearing(p))  BY DEF MediaInv
<1>4. PICK w : Update(p, w) /\ w = [v EXCEPT !.frames = <<>>, !.chunks = <<>>, !.source = 0]
  <2> DEFINE u == [v EXCEPT !.frames = <<>>, !.chunks = <<>>]
             x == [v EXCEPT !.frames = <<>>, !.chunks = <<>>, !.source = 0]
  <2>1. Update(p, Silenced(u))  BY DEF Clear
  <2>2. CASE sounding
    <3>1. Silenced(u) = x  BY <2>2 DEF Silenced
    <3> QED  BY <2>1, <3>1
  <2>3. CASE ~sounding
    <3>1. v.source = 0 /\ DOMAIN v = PlayerFields  BY <1>2, <1>3, <2>3 DEF PlayerInv
    <3>2. u = x  BY <3>1 DEF PlayerFields
    <3>3. Silenced(u) = u  BY <2>3 DEF Silenced
    <3> QED  BY <2>1, <3>2, <3>3
  <2> QED  BY <2>2, <2>3
<1>5. PlayerInv(w, FALSE)
  <2> DEFINE c == Clearing(p)
  <2>1. c \in BOOLEAN /\ PlayerInv(v, c)  BY <1>3, ClearingIs
  <2> HIDE DEF c, v
  <2> QED  BY <1>4, <2>1, ClearKeeps
<1>6. /\ DOMAIN player' = DOMAIN player /\ player'[p] = w
      /\ \A q \in DOMAIN player : q # p => player'[q] = player[q]
  BY <1>4, OneChanges
<1>7. w.source = 0 /\ w.registered = v.registered /\ w.running = v.running
  BY <1>3, <1>4 DEF PlayerInv, PlayerFields
<1>8. \A q \in DOMAIN player' : PlayerInv(player'[q], Clearing(q)')
  <2>1. FALSE \in BOOLEAN /\ \A q : q # p => ~Clearing(q)  BY <1>1, ClearingIs
  <2> QED  BY <1>4, <1>5, <2>1, PlayersKept
<1>9. StreamsInv'  BY <1>1, <1>2, <1>6, <1>7, StreamLost DEF MediaInv
<1>10. TurnInv'  BY <1>1 DEF TurnInv, Idle
<1>11. AudioInv(audio)'  BY <1>2 DEF AudioInv
<1> QED  BY <1>8, <1>9, <1>10, <1>11 DEF MediaInv

LEMMA DropKeepsInv ==
    ASSUME MediaInv, NEW p, p \in DOMAIN player, Drop(p) \/ DropNext(p)
    PROVE  MediaInv'
<1> DEFINE v == player[p]
<1>1. /\ UNCHANGED <<audio, sounding>>
      /\ \/ turn = Idle /\ turn' = [at |-> "join", of |-> p, rest |-> {}, last |-> FALSE]
         \/ /\ turn.at = "drop"
            /\ turn' = [at |-> "join", of |-> p, rest |-> turn.rest \ {p}, last |-> TRUE]
  BY DEF Drop, DropNext, audioVars
<1>2. \A q : ~Clearing(q)
  <2>1. turn.at = "drop" => \A q : ~Clearing(q)  BY ClearingIsAt
  <2> QED  BY <1>1, <2>1, ClearingIs
<1>3. PICK w : Update(p, w) /\ w = [v EXCEPT !.running = FALSE]  BY DEF Drop, DropNext
<1>4. PlayerInv(v, Clearing(p))  BY DEF MediaInv
<1>5. /\ DOMAIN w = PlayerFields /\ w.frames = v.frames /\ w.chunks = v.chunks /\ w.source = v.source
      /\ w.loop = v.loop /\ w.registered = v.registered /\ w.pc = v.pc /\ w.finished = v.finished
      /\ w.running = FALSE /\ w.coded = v.coded /\ w.fresh = v.fresh /\ w.pending = v.pending
      /\ w.ended = v.ended /\ w.playing = v.playing
  BY <1>3, <1>4 DEF PlayerInv, PlayerFields
<1>6. PlayerInv(w, FALSE)
  <2> DEFINE c == Clearing(p)
  <2>1. c \in BOOLEAN /\ PlayerInv(v, c) /\ ~c /\ FALSE \in BOOLEAN  BY <1>2, <1>4, ClearingIs
  <2>2. LeftOf(w.frames, v.frames) /\ LeftOf(w.chunks, v.chunks)  BY <1>4, <1>5, NothingTaken DEF PlayerInv
  <2>3. w.ended => ~w.playing /\ w.finished /\ w.frames = <<>>  BY <1>4, <1>5 DEF PlayerInv
  <2>4. w.registered \/ w.source = 0  BY <1>4, <1>5 DEF PlayerInv
  <2> HIDE DEF c, v
  <2> QED  BY <1>5, <2>1, <2>2, <2>3, <2>4, MainKeeps
<1>7. /\ DOMAIN player' = DOMAIN player /\ player'[p] = w
      /\ \A q \in DOMAIN player : q # p => player'[q] = player[q]
  BY <1>3, OneChanges
<1>8. \A q \in DOMAIN player' : PlayerInv(player'[q], Clearing(q)')
  <2>1. FALSE \in BOOLEAN  OBVIOUS
  <2> QED  BY <1>2, <1>3, <1>6, <2>1, PlayersKept
<1>9. StreamsInv'  BY <1>1, <1>5, <1>7, StreamsStay DEF MediaInv
<1>10. TurnInv'
  <2>1. Registered' = Registered  BY <1>5, <1>7 DEF Registered
  <2>2. ~player'[p].running  BY <1>5, <1>7
  <2>3. CASE turn = Idle
    <3>1. turn' = [at |-> "join", of |-> p, rest |-> {}, last |-> FALSE]
      <4>1. turn.at = "idle"  BY <2>3 DEF Idle
      <4> QED  BY <1>1, <4>1
    <3>2. {} \in SUBSET DOMAIN player' /\ FALSE \in BOOLEAN  OBVIOUS
    <3> QED  BY <1>7, <2>2, <3>1, <3>2 DEF TurnInv
  <2>4. CASE turn.at = "drop" /\ turn' = [at |-> "join", of |-> p, rest |-> turn.rest \ {p}, last |-> TRUE]
    <3>1. turn.rest \in SUBSET DOMAIN player /\ Registered \subseteq turn.rest
      BY <2>4 DEF MediaInv, TurnInv, Idle
    <3> DEFINE rest == turn.rest \ {p}
    <3>2. rest \in SUBSET DOMAIN player' /\ Registered' \subseteq rest \cup {p} /\ TRUE \in BOOLEAN
      BY <1>7, <2>1, <3>1
    <3> HIDE DEF rest
    <3>3. turn' = [at |-> "join", of |-> p, rest |-> rest, last |-> TRUE]  BY <2>4 DEF rest
    <3> QED  BY <1>7, <2>2, <3>2, <3>3 DEF TurnInv
  <2> QED  BY <1>1, <2>3, <2>4
<1>11. AudioInv(audio)'  BY <1>1 DEF MediaInv, AudioInv
<1> QED  BY <1>8, <1>9, <1>10, <1>11 DEF MediaInv

LEMMA JoinKeepsInv ==
    ASSUME MediaInv, NEW p, p \in DOMAIN player, Join(p)
    PROVE  MediaInv'
<1> DEFINE v == player[p]
<1>1. /\ turn.at = "join" /\ turn.of = p /\ v.pc = "over" /\ sounding' = sounding
      /\ turn' = (IF turn.last THEN [at |-> "drop", rest |-> turn.rest] ELSE Idle)
      /\ audio' = SilencedAudio(v)
  BY DEF Join
<1>2. /\ AudioInv(audio') /\ audio'.streaming = audio.streaming \ {v.source}
      /\ ~sounding => v.source = 0
  BY <1>1, SilencedIs
<1>3. PlayerInv(v, Clearing(p))  BY DEF MediaInv
<1>4. PICK w : /\ Update(p, w)
               /\ \/ w = [v EXCEPT !.source = 0, !.registered = FALSE]
                  \/ v.source = 0 /\ w = [v EXCEPT !.registered = FALSE]
  <2>1. Update(p, [Silenced(v) EXCEPT !.registered = FALSE])  BY DEF Join
  <2>2. CASE sounding
    <3>1. [Silenced(v) EXCEPT !.registered = FALSE] = [v EXCEPT !.source = 0, !.registered = FALSE]
      BY <2>2 DEF Silenced
    <3> QED  BY <2>1, <3>1
  <2>3. CASE ~sounding
    <3>1. v.source = 0  BY <1>2, <2>3
    <3>2. Silenced(v) = v  BY <2>3 DEF Silenced
    <3> QED  BY <2>1, <3>1, <3>2
  <2> QED  BY <2>2, <2>3
<1>5. \A q : ~Clearing(q)
  <2> QED  BY <1>1, ClearingIsAt
<1>6. PICK rest \in SUBSET DOMAIN player, last \in BOOLEAN :
          /\ turn = [at |-> "join", of |-> p, rest |-> rest, last |-> last]
          /\ ~v.running
          /\ last => Registered \subseteq rest \cup {p}
  BY <1>1 DEF MediaInv, TurnInv, Idle
<1>7. PlayerInv(w, FALSE)
  <2> DEFINE c == Clearing(p)
  <2>1. c \in BOOLEAN /\ PlayerInv(v, c) /\ (c => FALSE) /\ FALSE \in BOOLEAN  BY <1>3, <1>5, ClearingIs
  <2> HIDE DEF c, v
  <2>2. PlayerInv(v, FALSE)  BY <2>1, LessAsked
  <2> QED  BY <1>1, <1>4, <1>6, <2>1, <2>2, JoinKeeps
<1>8. /\ DOMAIN player' = DOMAIN player /\ player'[p] = w
      /\ \A q \in DOMAIN player : q # p => player'[q] = player[q]
  BY <1>4, OneChanges
<1>9. w.source = 0 /\ w.registered = FALSE  BY <1>3, <1>4 DEF PlayerInv, PlayerFields
<1>10. \A q \in DOMAIN player' : PlayerInv(player'[q], Clearing(q)')
  <2>1. FALSE \in BOOLEAN  OBVIOUS
  <2> QED  BY <1>4, <1>5, <1>7, <2>1, PlayersKept
<1>11. StreamsInv'  BY <1>1, <1>2, <1>8, <1>9, StreamLost DEF MediaInv
<1>12. TurnInv'
  <2>1. Registered' = Registered \ {p}  BY <1>8, <1>9 DEF Registered
  <2>2. turn.rest = rest /\ turn.last = last  BY <1>6
  <2>3. CASE last
    <3>1. turn' = [at |-> "drop", rest |-> rest]  BY <1>1, <2>2, <2>3
    <3>2. Registered' \subseteq rest /\ rest \in SUBSET DOMAIN player'  BY <1>6, <1>8, <2>1, <2>3
    <3> QED  BY <3>1, <3>2 DEF TurnInv
  <2>4. CASE ~last
    <3>1. turn' = Idle  BY <1>1, <2>2, <2>4
    <3> QED  BY <3>1 DEF TurnInv, Idle
  <2> QED  BY <2>3, <2>4
<1>13. AudioInv(audio)'  BY <1>2 DEF AudioInv
<1> QED  BY <1>10, <1>11, <1>12, <1>13 DEF MediaInv

-----------------------------------------------------------------------------
(* A frame of the engine, sounds, and what happens to all players.         *)

\* The players are as they were, and the streams.
LEMMA OthersKeepInv ==
    ASSUME MediaInv, player' = player, SameStreams(audio', audio), TurnInv',
           \A q : Clearing(q) => Clearing(q)',
           sounding' = sounding \/ \A p \in DOMAIN player : player[p].source = 0
    PROVE  MediaInv'
<1>1. \A q \in DOMAIN player' : PlayerInv(player'[q], Clearing(q)')  BY PlayersSame
<1>2. StreamsInv'
  <2>1. CASE sounding' = sounding  BY <2>1 DEF MediaInv, StreamsInv, SameStreams
  <2>2. CASE \A p \in DOMAIN player : player[p].source = 0
    <3>1. audio'.streaming = audio.streaming  BY DEF SameStreams
    <3> QED  BY <2>2, <3>1 DEF MediaInv, StreamsInv
  <2> QED  BY <2>1, <2>2
<1>3. AudioInv(audio)'  BY DEF SameStreams, AudioInv
<1> QED  BY <1>1, <1>2, <1>3 DEF MediaInv

LEMMA FrameKeepsInv ==
    ASSUME MediaInv, BeginMedia \/ EndMedia \/ ShutdownMedia \/ ForgetAudio
    PROVE  MediaInv'
<1>1. player' = player  BY DEF BeginMedia, EndMedia, ShutdownMedia, ForgetAudio
<1>2. SameStreams(audio', audio)
  <2>1. AudioInv(audio)  BY DEF MediaInv
  <2>2. SameStreams(audio, audio)  BY <2>1 DEF SameStreams
  <2>3. audio' \in {audio, CleanupStopped(audio)}
    BY DEF BeginMedia, EndMedia, ShutdownMedia, ForgetAudio, audioVars
  <2> QED  BY <2>1, <2>2, <2>3, CleanupKeeps
<1>3. \A q : ~Clearing(q)
  <2>1. turn = Idle \/ turn.at \in {"frame", "drop"}
    BY DEF BeginMedia, EndMedia, ShutdownMedia, ForgetAudio
  <2>2. turn.at \in {"frame", "drop"} => \A q : ~Clearing(q)  BY ClearingIsAt
  <2> QED  BY <2>1, <2>2, ClearingIs
<1>4. Registered' = Registered  BY <1>1 DEF Registered
<1>5. Registered \subseteq DOMAIN player  BY DEF Registered
<1>6. TurnInv'
  <2>1. CASE BeginMedia
    <3>1. turn' = [at |-> "frame", due |-> Registered]  BY <2>1 DEF BeginMedia
    <3> QED  BY <1>4, <3>1 DEF TurnInv
  <2>2. CASE EndMedia \/ ForgetAudio
    <3>1. turn' = Idle  BY <2>2 DEF EndMedia, ForgetAudio
    <3> QED  BY <3>1 DEF TurnInv, Idle
  <2>3. CASE ShutdownMedia
    <3>1. turn' = [at |-> "drop", rest |-> Registered]  BY <2>3 DEF ShutdownMedia
    <3> QED  BY <1>1, <1>4, <1>5, <3>1 DEF TurnInv
  <2> QED  BY <2>1, <2>2, <2>3
<1>7. sounding' = sounding \/ \A p \in DOMAIN player : player[p].source = 0
  <2>1. CASE BeginMedia \/ EndMedia \/ ShutdownMedia  BY <2>1 DEF BeginMedia, EndMedia, ShutdownMedia
  <2>2. CASE ForgetAudio
    <3>1. turn = [at |-> "drop", rest |-> {}]  BY <2>2 DEF ForgetAudio
    <3>2. turn.at = "drop" /\ turn.rest = {}  BY <3>1
    <3>3. Registered = {}  BY <3>2 DEF MediaInv, TurnInv, Idle
    <3>4. \A p \in DOMAIN player : ~player[p].registered  BY <3>3 DEF Registered
    <3> QED  BY <3>4 DEF MediaInv, PlayerInv
  <2> QED  BY <2>1, <2>2
<1> QED  BY <1>1, <1>2, <1>3, <1>6, <1>7, OthersKeepInv

LEMMA SoundKeepsInv ==
    ASSUME MediaInv, turn = Idle, SoundNext, UNCHANGED <<player, sounding, turn>>
    PROVE  MediaInv'
<1>1. AudioInv(audio)  BY DEF MediaInv
<1>2. SameStreams(audio', audio)
  <2>1. CASE \E name \in Sounds : LoadSound(name) \/ UnloadSound(name)
    <3>1. PICK buffers : audio' = [audio EXCEPT !.buffers = buffers]  BY <2>1 DEF LoadSound, UnloadSound
    <3> QED  BY <1>1, <3>1 DEF SameStreams, AudioInv, AudioFields
  <2>2. CASE \E name \in Sounds : PlaySound(name)
    <3>1. PICK name \in Sounds : PlaySound(name)  BY <2>2
    <3> DEFINE s == FreeSource(audio)
               x == Playback(<<name>>, "playing", 0)
    <3>2. s # 0 /\ audio' = WithSource(audio, s, x)  BY <3>1 DEF PlaySound
    <3>3. s \in Sources  BY <1>1, <3>2, FreeIs
    <3> HIDE DEF s, x
    <3> QED  BY <1>1, <3>2, <3>3, WithSourceIs
  <2>3. CASE \E s \in Sources : StopSound(s) \/ SoundEnds(s)
    <3>1. PICK s : audio' = Halt(audio, s)  BY <2>3 DEF StopSound, SoundEnds
    <3> QED  BY <1>1, <3>1, HaltKeeps
  <2> QED  BY <2>1, <2>2, <2>3 DEF SoundNext
<1>3. \A q : Clearing(q) => Clearing(q)'  BY DEF Clearing
<1>4. TurnInv'  BY TurnStays DEF MediaInv
<1> QED  BY <1>2, <1>3, <1>4, OthersKeepInv

LEMMA EndKeepsInv ==
    ASSUME MediaInv, NEW p, p \in DOMAIN player, NoteEnd(p)
    PROVE  MediaInv'
<1> DEFINE v == player[p]
<1>1. /\ turn.at = "end" /\ turn.of = p /\ turn' = [at |-> "frame", due |-> turn.due]
      /\ UNCHANGED <<audio, sounding>>
  BY DEF NoteEnd, audioVars
<1>2. (\A q : ~Clearing(q)) /\ FALSE \in BOOLEAN  BY <1>1, ClearingIsAt
<1>3. PlayerInv(v, Clearing(p))  BY DEF MediaInv
<1>4. PlayerInv(v, FALSE)
  <2> DEFINE c == Clearing(p)
  <2>1. PlayerInv(v, c) /\ c \in BOOLEAN /\ (c => FALSE)  BY <1>2, <1>3, ClearingIs
  <2> HIDE DEF c, v
  <2> QED  BY <1>2, <2>1, LessAsked
<1>5. PICK w : Update(p, w) /\ PlayerInv(w, FALSE) /\ SameQueues(w, v)
  <2>1. CASE v.finished /\ ~v.loop /\ v.frames = <<>>
    <3>1. PICK w : Update(p, w) /\ w = [v EXCEPT !.playing = FALSE, !.elapsed = 0, !.ended = TRUE]
      BY <2>1 DEF NoteEnd
    <3>2. SameQueues(w, v) /\ ~w.playing /\ w.pending = v.pending
      BY <1>4, <3>1 DEF PlayerInv, PlayerFields, SameQueues
    <3>3. LeftOf(w.frames, v.frames) /\ LeftOf(w.chunks, v.chunks)
      BY <1>4, <3>2, NothingTaken DEF PlayerInv, SameQueues
    <3>4. w.ended => ~w.playing /\ w.finished /\ w.frames = <<>>  BY <2>1, <3>2 DEF SameQueues
    <3>5. w.registered \/ w.source = 0  BY <1>4, <3>2 DEF PlayerInv, SameQueues
    <3>6. /\ DOMAIN w = PlayerFields
          /\ w.loop = v.loop /\ w.registered = v.registered /\ w.finished = v.finished /\ w.pc = v.pc
          /\ w.coded = v.coded /\ w.fresh = v.fresh /\ (w.running => v.running)
      BY <3>2 DEF SameQueues
    <3> HIDE DEF v
    <3>7. PlayerInv(w, FALSE)  BY <1>2, <1>4, <3>2, <3>3, <3>4, <3>5, <3>6, MainKeeps
    <3> QED  BY <3>1, <3>2, <3>7
  <2>2. CASE ~(v.finished /\ ~v.loop /\ v.frames = <<>>)
    <3>1. Update(p, v)  BY <2>2 DEF NoteEnd
    <3>2. SameQueues(v, v)  BY <1>4 DEF PlayerInv, SameQueues
    <3> QED  BY <1>4, <3>1, <3>2
  <2> QED  BY <2>1, <2>2
<1>6. /\ DOMAIN player' = DOMAIN player /\ player'[p] = w
      /\ \A q \in DOMAIN player : q # p => player'[q] = player[q]
  BY <1>5, OneChanges
<1>7. \A q \in DOMAIN player' : PlayerInv(player'[q], Clearing(q)')
  BY <1>2, <1>5, PlayersKept
<1>8. StreamsInv'  BY <1>1, <1>5, <1>6, StreamsStay DEF MediaInv, SameQueues
<1>9. TurnInv'
  <2>1. Registered' = Registered  BY <1>5, <1>6 DEF Registered, SameQueues
  <2>2. turn.due \in SUBSET Registered  BY <1>1 DEF MediaInv, TurnInv, Idle
  <2> QED  BY <1>1, <2>1, <2>2 DEF TurnInv
<1>10. AudioInv(audio)'  BY <1>1 DEF MediaInv, AudioInv
<1> QED  BY <1>7, <1>8, <1>9, <1>10 DEF MediaInv

\* Time goes on, or Audio is lost, for all.
LEMMA AllKeepInv ==
    ASSUME MediaInv, turn = Idle, turn' = turn, DOMAIN player' = DOMAIN player,
           \A p \in DOMAIN player :
               LET w == player'[p]
                   v == player[p]
               IN /\ DOMAIN w = PlayerFields /\ w.frames = v.frames /\ w.chunks = v.chunks
                  /\ w.source \in {0, v.source} /\ w.pending = v.pending
                  /\ w.loop = v.loop /\ w.registered = v.registered /\ w.pc = v.pc
                  /\ w.finished = v.finished /\ w.running = v.running /\ w.coded = v.coded
                  /\ w.fresh = v.fresh /\ w.ended = v.ended /\ w.playing = v.playing
    PROVE  (\A q \in DOMAIN player' : PlayerInv(player'[q], Clearing(q)')) /\ TurnInv'
<1>1. TurnInv'  BY TurnStays DEF MediaInv
<1>2. \A q : ~Clearing(q) /\ ~Clearing(q)'
  <2>1. \A q : ~Clearing(q)  BY ClearingIs
  <2> QED  BY <2>1 DEF Clearing
<1>3. ASSUME NEW p, p \in DOMAIN player PROVE PlayerInv(player'[p], Clearing(p)')
  <2> DEFINE w == player'[p]
             v == player[p]
             c == Clearing(p)
             d == Clearing(p)'
  <2>1. PlayerInv(v, c)  BY <1>3 DEF MediaInv
  <2>2. /\ DOMAIN w = PlayerFields /\ w.frames = v.frames /\ w.chunks = v.chunks
        /\ w.source \in {0, v.source} /\ w.pending = v.pending
        /\ w.loop = v.loop /\ w.registered = v.registered /\ w.pc = v.pc
        /\ w.finished = v.finished /\ w.running = v.running /\ w.coded = v.coded
        /\ w.fresh = v.fresh /\ w.ended = v.ended /\ w.playing = v.playing
    BY <1>3
  <2>3. c \in BOOLEAN /\ d \in BOOLEAN /\ ~c  BY <1>2 DEF Clearing
  <2> HIDE DEF w, v, c, d
  <2>4. LeftOf(w.frames, v.frames) /\ LeftOf(w.chunks, v.chunks)  BY <2>1, <2>2, NothingTaken DEF PlayerInv
  <2>5. w.ended => ~w.playing /\ w.finished /\ w.frames = <<>>  BY <2>1, <2>2 DEF PlayerInv
  <2>6. w.registered \/ w.source = 0  BY <2>1, <2>2 DEF PlayerInv
  <2>7. PlayerInv(w, d)  BY <2>1, <2>2, <2>3, <2>4, <2>5, <2>6, MainKeeps
  <2> QED  BY <2>7 DEF w, d
<1> QED  BY <1>1, <1>3

LEMMA TickKeepsInv == ASSUME MediaInv, Tick PROVE MediaInv'
<1>1. turn = Idle /\ turn' = turn /\ sounding' = sounding /\ audio' = Played(audio)  BY DEF Tick
<1>2. player' = [p \in DOMAIN player |-> IF player[p].playing THEN [player[p] EXCEPT !.elapsed = @ + 1]
                                         ELSE player[p]]
  BY DEF Tick
<1>3. \A p \in DOMAIN player : DOMAIN player[p] = PlayerFields  BY DEF MediaInv, PlayerInv
<1>4. \A p \in DOMAIN player :
               LET w == player'[p]
                   v == player[p]
               IN /\ DOMAIN w = PlayerFields /\ w.frames = v.frames /\ w.chunks = v.chunks
                  /\ w.source = v.source /\ w.pending = v.pending
                  /\ w.loop = v.loop /\ w.registered = v.registered /\ w.pc = v.pc
                  /\ w.finished = v.finished /\ w.running = v.running /\ w.coded = v.coded
                  /\ w.fresh = v.fresh /\ w.ended = v.ended /\ w.playing = v.playing
  BY <1>2, <1>3 DEF PlayerFields
<1>5. DOMAIN player' = DOMAIN player  BY <1>2
<1>6. (\A q \in DOMAIN player' : PlayerInv(player'[q], Clearing(q)')) /\ TurnInv'
  BY <1>1, <1>4, <1>5, AllKeepInv
<1>7. SameStreams(audio', audio)  BY <1>1, PlayedKeeps DEF MediaInv
<1>8. StreamsInv'  BY <1>1, <1>4, <1>5, <1>7, StreamsStay DEF MediaInv, SameStreams
<1>9. AudioInv(audio)'  BY <1>7 DEF SameStreams, AudioInv
<1> QED  BY <1>6, <1>8, <1>9 DEF MediaInv

LEMMA NewAudioIs == ASSUME NEW works PROVE AudioInv(Audio(works)) /\ Audio(works).streaming = {}
<1> DEFINE a == Audio(works)
<1>1. a = [available |-> works, buffers |-> {}, active |-> {}, streaming |-> {}, voices |-> [v \in {} |-> 0]]
  BY DEF Audio
<1> HIDE DEF a
<1>2. DOMAIN a = AudioFields  BY <1>1 DEF AudioFields
<1>3. a.streaming = {} /\ a.active = {} /\ a.voices = [v \in {} |-> 0]  BY <1>1
<1>4. DOMAIN a.voices = {}  BY <1>3
<1>5. AudioInv(a)  BY <1>2, <1>3, <1>4 DEF AudioInv
<1> QED  BY <1>3, <1>5 DEF a

LEMMA ResetKeepsInv == ASSUME MediaInv, ResetAudio PROVE MediaInv'
<1>1. turn = Idle /\ turn' = turn /\ sounding' = sounding /\ audio' \in Reopened  BY DEF ResetAudio
<1>2. player' = [p \in DOMAIN player |-> IF player[p].registered THEN AudioLost(player[p]) ELSE player[p]]
  BY DEF ResetAudio
<1>3. \A p \in DOMAIN player :
          /\ DOMAIN player[p] = PlayerFields
          /\ ~player[p].registered => player[p].source = 0
  BY DEF MediaInv, PlayerInv
<1>4. \A p \in DOMAIN player :
               LET w == player'[p]
                   v == player[p]
               IN /\ DOMAIN w = PlayerFields /\ w.frames = v.frames /\ w.chunks = v.chunks
                  /\ w.source = 0 /\ w.pending = v.pending
                  /\ w.loop = v.loop /\ w.registered = v.registered /\ w.pc = v.pc
                  /\ w.finished = v.finished /\ w.running = v.running /\ w.coded = v.coded
                  /\ w.fresh = v.fresh /\ w.ended = v.ended /\ w.playing = v.playing
  <2> TAKE p \in DOMAIN player
  <2> DEFINE v == player[p]
  <2>1. CASE ~v.registered \/ v.source = 0
    <3>1. player'[p] = v /\ v.source = 0  BY <1>2, <1>3, <2>1 DEF AudioLost
    <3> QED  BY <1>3, <3>1
  <2>2. CASE v.registered /\ v.source # 0
    <3>1. player'[p] = AudioLost(v)  BY <1>2, <2>2
    <3>2. PICK base : AudioLost(v) = [v EXCEPT !.base = base, !.elapsed = 0, !.source = 0]
      BY <2>2 DEF AudioLost
    <3>3. DOMAIN v = PlayerFields  BY <1>3
    <3> HIDE DEF v
    <3> DEFINE w == player'[p]
    <3>4. w = [v EXCEPT !.base = base, !.elapsed = 0, !.source = 0]  BY <3>1, <3>2
    <3> HIDE DEF w
    <3>5. /\ DOMAIN w = PlayerFields /\ w.frames = v.frames /\ w.chunks = v.chunks
          /\ w.source = 0 /\ w.pending = v.pending
          /\ w.loop = v.loop /\ w.registered = v.registered /\ w.pc = v.pc
          /\ w.finished = v.finished /\ w.running = v.running /\ w.coded = v.coded
          /\ w.fresh = v.fresh /\ w.ended = v.ended /\ w.playing = v.playing
      BY <3>3, <3>4 DEF PlayerFields
    <3> QED  BY <3>5 DEF w, v
  <2> QED  BY <2>1, <2>2
<1>5. DOMAIN player' = DOMAIN player  BY <1>2
<1>6. (\A q \in DOMAIN player' : PlayerInv(player'[q], Clearing(q)')) /\ TurnInv'
  BY <1>1, <1>4, <1>5, AllKeepInv
<1>7. AudioInv(audio') /\ audio'.streaming = {}
  <2>1. PICK works : audio' = Audio(works)  BY <1>1 DEF Reopened
  <2> QED  BY <2>1, NewAudioIs
<1>8. StreamsInv'  BY <1>4, <1>5, <1>7, FS_EmptySet DEF MediaInv, StreamsInv
<1>9. AudioInv(audio)'  BY <1>7 DEF AudioInv
<1> QED  BY <1>6, <1>8, <1>9 DEF MediaInv

\* A new player has nothing decoded and no source.
LEMMA CreateKeepsInv == ASSUME MediaInv, NEW p, Create(p) PROVE MediaInv'
<1>1. turn = Idle /\ turn' = turn /\ UNCHANGED <<audio, sounding>> /\ p \notin DOMAIN player
  BY DEF Create, audioVars
<1>2. PICK sort \in Sorts : player' = [v \in DOMAIN player \cup {p} |->
               IF v # p THEN player[v]
               ELSE [loop |-> sort = "looped", track |-> sort # "silent",
                     registered |-> TRUE, playing |-> sort # "waiting", ready |-> FALSE, ended |-> FALSE,
                     base |-> 0, elapsed |-> 0, pending |-> None, displayed |-> None,
                     frames |-> <<>>, chunks |-> <<>>, source |-> 0,
                     has_audio |-> FALSE, running |-> TRUE, finished |-> FALSE,
                     pc |-> "open", cursor |-> 0, coded |-> <<>>, fresh |-> 0]]
  BY DEF Create
<1> DEFINE w == [loop |-> sort = "looped", track |-> sort # "silent",
                     registered |-> TRUE, playing |-> sort # "waiting", ready |-> FALSE, ended |-> FALSE,
                     base |-> 0, elapsed |-> 0, pending |-> None, displayed |-> None,
                     frames |-> <<>>, chunks |-> <<>>, source |-> 0,
                     has_audio |-> FALSE, running |-> TRUE, finished |-> FALSE,
                     pc |-> "open", cursor |-> 0, coded |-> <<>>, fresh |-> 0]
<1>3. /\ DOMAIN player' = DOMAIN player \cup {p} /\ player'[p] = w
      /\ \A q \in DOMAIN player : player'[q] = player[q]
  <2> HIDE DEF w
  <2>1. player' = [v \in DOMAIN player \cup {p} |-> IF v # p THEN player[v] ELSE w]  BY <1>2 DEF w
  <2> QED  BY <1>1, <2>1
<1>4. /\ DOMAIN w = PlayerFields /\ w.registered = TRUE /\ w.ended = FALSE /\ w.pending = None
      /\ w.frames = <<>> /\ w.chunks = <<>> /\ w.source = 0 /\ w.running = TRUE /\ w.finished = FALSE
      /\ w.pc = "open" /\ w.coded = <<>> /\ w.fresh = 0
  <2>1. DOMAIN w = PlayerFields  BY DEF PlayerFields
  <2> QED  BY <2>1
<1> HIDE DEF w
<1>5. PlayerInv(w, FALSE)
  <2>1. Delay \in Nat  BY VideoBounds
  <2>2. HoldsLittle(w)  BY <1>4, <2>1, EmptyQ DEF HoldsLittle, FreshBehind
  <2>3. ObeyedSeek(w)
    <3>1. FreshBehind(<<>>, 0, w.fresh) /\ FreshBehind(<<>>, 1, w.fresh)  BY EmptyQ DEF FreshBehind
    <3>2. 0 \in 0..(Delay + 1)  BY <2>1
    <3> QED  BY <1>4, <3>1, <3>2 DEF ObeyedSeek
  <2>4. 0 \in Nat  OBVIOUS
  <2> QED  BY <1>4, <2>2, <2>3, <2>4, EmptyQ DEF PlayerInv
<1>6. \A q : ~Clearing(q) /\ ~Clearing(q)'
  <2>1. \A q : ~Clearing(q)  BY <1>1, ClearingIs
  <2> QED  BY <1>1, <2>1 DEF Clearing
<1>7. ASSUME NEW q, q \in DOMAIN player' PROVE PlayerInv(player'[q], Clearing(q)')
  <2> DEFINE c == Clearing(q)
             d == Clearing(q)'
  <2>1. c \in BOOLEAN /\ d \in BOOLEAN /\ FALSE \in BOOLEAN /\ ~c  BY <1>6 DEF Clearing
  <2>2. q \in DOMAIN player => PlayerInv(player[q], c)  BY DEF MediaInv
  <2> HIDE DEF c, d
  <2>3. CASE q = p
    <3>1. PlayerInv(w, d)  BY <1>5, <2>1, LessAsked
    <3> QED  BY <1>3, <2>3, <3>1 DEF d
  <2>4. CASE q # p
    <3>1. q \in DOMAIN player /\ player'[q] = player[q]  BY <1>3, <1>7, <2>4
    <3>2. PlayerInv(player[q], d)  BY <2>1, <2>2, <3>1, LessAsked
    <3> QED  BY <3>1, <3>2 DEF d
  <2> QED  BY <2>3, <2>4
<1>8. StreamsInv'
  <2>1. IsFiniteSet(DOMAIN player') /\ IsFiniteSet(audio'.streaming)
    BY <1>1, <1>3, FS_AddElement DEF MediaInv, StreamsInv
  <2>2. \A q \in DOMAIN player' : q = p \/ (q \in DOMAIN player /\ player'[q] = player[q])  BY <1>3
  <2>3. audio'.streaming = audio.streaming /\ sounding' = sounding  BY <1>1
  <2>4. player'[p].source = 0  BY <1>3, <1>4
  <2>5. \A s \in audio'.streaming : \E q \in DOMAIN player' : player'[q].source = s
    BY <1>3, <2>3 DEF MediaInv, StreamsInv
  <2>6. \A q \in DOMAIN player' :
            player'[q].source = 0 \/ (sounding' /\ player'[q].source \in audio'.streaming)
    BY <2>2, <2>3, <2>4 DEF MediaInv, StreamsInv
  <2>7. \A q, r \in DOMAIN player' :
            player'[q].source = player'[r].source /\ q # r => player'[q].source = 0
    BY <2>2, <2>4 DEF MediaInv, StreamsInv
  <2> QED  BY <2>1, <2>5, <2>6, <2>7 DEF StreamsInv
<1>9. TurnInv'  BY <1>1 DEF TurnInv, Idle
<1>10. AudioInv(audio)'  BY <1>1 DEF MediaInv, AudioInv
<1> QED  BY <1>7, <1>8, <1>9, <1>10 DEF MediaInv

-----------------------------------------------------------------------------
(* The update of one player: its sound is queued, its pictures are shown.  *)

LEMMA PreparedIs ==
    ASSUME AudioInv(audio), NEW v
    PROVE  /\ AudioInv(Prepared(v))
           /\ v.source # 0 \/ SourceOf(v) = 0 => Prepared(v).streaming = audio.streaming
           /\ v.source = 0 /\ SourceOf(v) # 0 =>
                 /\ Prepared(v).streaming = audio.streaming \cup {SourceOf(v)}
                 /\ SourceOf(v) \notin audio.streaming
<1> DEFINE s == SourceOf(v)
           b == IF v.source = 0 THEN CreateStreaming(audio) ELSE audio
           d == Prepared(v)
<1>1. /\ AudioInv(b)
      /\ v.source # 0 \/ s = 0 => b.streaming = audio.streaming
      /\ v.source = 0 /\ s # 0 => b.streaming = audio.streaming \cup {s} /\ s \notin audio.streaming
  <2>1. CASE v.source = 0
    <3>1. s = FreeSource(audio) /\ b = CreateStreaming(audio)  BY <2>1 DEF SourceOf
    <3> HIDE DEF s, b
    <3> QED  BY <2>1, <3>1, CreateIs
  <2>2. CASE v.source # 0  BY <2>2
  <2> QED  BY <2>1, <2>2
<1>2. d = Reclaim(b, s)  BY DEF Prepared
<1> HIDE DEF b, s, d
<1>3. SameStreams(d, b)  BY <1>1, <1>2, ReclaimKeeps
<1>4. AudioInv(d) /\ d.streaming = b.streaming  BY <1>3 DEF SameStreams
<1> QED  BY <1>1, <1>4 DEF d, s

LEMMA SoundedIs ==
    ASSUME AudioInv(audio), NEW v
    PROVE  /\ AudioInv(Sounded(v))
           /\ ~WithSound(v) => Sounded(v) = audio
           /\ WithSound(v) => Sounded(v).streaming = Prepared(v).streaming
<1> DEFINE b == Prepared(v)
           s == SourceOf(v)
           times == Times(SubSeq(v.chunks, 1, DueChunks(v)))
           d == Sounded(v)
<1>1. CASE ~WithSound(v)  BY <1>1 DEF Sounded
<1>2. CASE WithSound(v)
  <2>1. AudioInv(b)  BY PreparedIs
  <2>2. d = IF ~v.playing THEN PauseSource(b, s) ELSE QueueStream(b, s, times)  BY <1>2 DEF Sounded
  <2> HIDE DEF b, s, times, d
  <2>3. SameStreams(d, b)  BY <2>1, <2>2, PauseKeeps, QueueKeeps
  <2>4. AudioInv(d) /\ d.streaming = b.streaming  BY <2>3 DEF SameStreams
  <2> QED  BY <1>2, <2>4 DEF d, b
<1> QED  BY <1>1, <1>2

\* What the update of a player leaves.
SameThread(w, v) ==
    /\ DOMAIN w = PlayerFields /\ w.loop = v.loop /\ w.registered = v.registered /\ w.pc = v.pc
    /\ w.finished = v.finished /\ w.running = v.running /\ w.coded = v.coded /\ w.fresh = v.fresh
    /\ w.pending = v.pending /\ w.playing = v.playing /\ w.ended = v.ended

LEMMA HeardIs ==
    ASSUME NEW v, DOMAIN v = PlayerFields, IsQ(v.chunks)
    PROVE  LET h == HeardPlayer(v)
           IN /\ SameThread(h, v) /\ h.frames = v.frames /\ LeftOf(h.chunks, v.chunks)
              /\ h.source = IF ~WithSound(v) \/ SourceOf(v) = 0 THEN v.source ELSE SourceOf(v)
<1>1. PICK h : h = HeardPlayer(v)  OBVIOUS
<1>2. CASE ~WithSound(v) \/ SourceOf(v) = 0
  <2>1. h = v  BY <1>1, <1>2 DEF HeardPlayer
  <2> QED  BY <1>1, <1>2, <2>1, NothingTaken DEF SameThread
<1>3. CASE ~(~WithSound(v) \/ SourceOf(v) = 0) /\ ~v.playing
  <2> DEFINE s == SourceOf(v)
  <2>1. h = [v EXCEPT !.source = s]  BY <1>1, <1>3 DEF HeardPlayer
  <2> HIDE DEF s
  <2>2. SameThread(h, v) /\ h.frames = v.frames /\ h.chunks = v.chunks /\ h.source = s
    BY <2>1 DEF SameThread, PlayerFields
  <2> QED  BY <1>1, <1>3, <2>2, NothingTaken DEF s
<1>4. CASE ~(~WithSound(v) \/ SourceOf(v) = 0) /\ v.playing
  <2> DEFINE s == SourceOf(v)
             n == DueChunks(v)
             rest == SubSeq(v.chunks, n + 1, Len(v.chunks))
             base == Wrapped(v, StreamingClock(Sounded(v), s, Position(v)))
  <2>1. h = [v EXCEPT !.source = s, !.chunks = rest, !.base = base, !.elapsed = 0]
    BY <1>1, <1>4 DEF HeardPlayer
  <2>2. n \in 0..Len(v.chunks)  BY DueIs DEF DueChunks
  <2>3. LeftOf(rest, v.chunks)
    <3> HIDE DEF n
    <3> QED  BY <2>2 DEF LeftOf
  <2> HIDE DEF s, n, rest, base
  <2>4. SameThread(h, v) /\ h.frames = v.frames /\ h.chunks = rest /\ h.source = s
    BY <2>1 DEF SameThread, PlayerFields
  <2> QED  BY <1>1, <1>4, <2>3, <2>4 DEF s
<1> QED  BY <1>2, <1>3, <1>4

LEMMA ShownIs ==
    ASSUME NEW h, DOMAIN h = PlayerFields, IsQ(h.frames)
    PROVE  LET w == Shown(h)
           IN SameThread(w, h) /\ LeftOf(w.frames, h.frames) /\ w.chunks = h.chunks /\ w.source = h.source
<1>1. PICK w : w = Shown(h)  OBVIOUS
<1> DEFINE due == Due(h.frames, Position(h))
           n == IF due = 0 /\ h.displayed = None /\ h.frames # <<>> THEN 1 ELSE due
<1>2. n \in 0..Len(h.frames)
  <2>1. due \in 0..Len(h.frames)  BY DueIs
  <2>2. Len(h.frames) \in Nat /\ (h.frames # <<>> => Len(h.frames) # 0)  BY LenIs
  <2> HIDE DEF due
  <2> QED  BY <2>1, <2>2
<1>3. CASE n = 0
  <2>1. w = h  BY <1>1, <1>3 DEF Shown
  <2> QED  BY <1>1, <2>1, NothingTaken DEF SameThread
<1>4. CASE n # 0
  <2> DEFINE rest == SubSeq(h.frames, n + 1, Len(h.frames))
             x == h.frames[n].pts
  <2>1. w = [h EXCEPT !.frames = rest, !.displayed = x, !.ready = TRUE]  BY <1>1, <1>4 DEF Shown
  <2> HIDE DEF n
  <2>2. LeftOf(rest, h.frames)  BY <1>2 DEF LeftOf
  <2> HIDE DEF rest, x
  <2>3. SameThread(w, h) /\ w.frames = rest /\ w.chunks = h.chunks /\ w.source = h.source
    BY <2>1 DEF SameThread, PlayerFields
  <2> QED  BY <1>1, <2>2, <2>3
<1> QED  BY <1>3, <1>4

LEMMA UpdateKeepsInv ==
    ASSUME MediaInv, NEW p, p \in DOMAIN player, UpdatePlayer(p)
    PROVE  MediaInv'
<1> DEFINE v == player[p]
           h == HeardPlayer(v)
           w == Shown(h)
<1>1. /\ turn.at = "frame" /\ p \in turn.due /\ sounding' = sounding /\ Update(p, w)
      /\ audio' = Sounded(v) /\ turn' = [at |-> "end", of |-> p, due |-> turn.due \ {p}]
  BY DEF UpdatePlayer
<1>2. (\A q : ~Clearing(q)) /\ FALSE \in BOOLEAN  BY <1>1, ClearingIsAt
<1>3. turn.due \in SUBSET Registered  BY <1>1 DEF MediaInv, TurnInv, Idle
<1>4. v.registered = player[p].registered /\ v.registered  BY <1>1, <1>3 DEF Registered
<1>5. PlayerInv(v, FALSE)
  <2> DEFINE c == Clearing(p)
  <2>1. PlayerInv(v, c) /\ c \in BOOLEAN /\ (c => FALSE)  BY <1>2, ClearingIs DEF MediaInv
  <2> HIDE DEF c, v
  <2> QED  BY <1>2, <2>1, LessAsked
<1>6. DOMAIN v = PlayerFields /\ IsQ(v.chunks) /\ IsQ(v.frames)  BY <1>5 DEF PlayerInv
<1>7. /\ SameThread(h, v) /\ h.frames = v.frames /\ LeftOf(h.chunks, v.chunks)
      /\ h.source = IF ~WithSound(v) \/ SourceOf(v) = 0 THEN v.source ELSE SourceOf(v)
  <2> HIDE DEF v
  <2> QED  BY <1>6, HeardIs
<1>8. SameThread(w, h) /\ LeftOf(w.frames, h.frames) /\ w.chunks = h.chunks /\ w.source = h.source
  <2>1. DOMAIN h = PlayerFields /\ IsQ(h.frames)  BY <1>6, <1>7 DEF SameThread
  <2> HIDE DEF h
  <2> QED  BY <2>1, ShownIs
<1> HIDE DEF w, h
<1>9. LeftOf(w.frames, v.frames) /\ LeftOf(w.chunks, v.chunks)  BY <1>7, <1>8
<1>10. PlayerInv(w, FALSE)
  <2>1. w.ended => ~w.playing /\ w.finished /\ w.frames = <<>>
    <3> SUFFICES ASSUME w.ended PROVE ~w.playing /\ w.finished /\ w.frames = <<>>  OBVIOUS
    <3>1. v.ended /\ ~v.playing /\ v.finished /\ v.frames = <<>>
      BY <1>5, <1>7, <1>8 DEF SameThread, PlayerInv
    <3>2. IsQ(w.frames) /\ Len(w.frames) \in Nat /\ Len(w.frames) <= Len(v.frames)
      <4> DEFINE s == v.frames
                 t == w.frames
      <4>1. IsQ(s) /\ LeftOf(t, s)  BY <1>6, <1>9
      <4> HIDE DEF s, t
      <4>2. IsQ(t) /\ Len(t) \in Nat /\ Len(t) <= Len(s)  BY <4>1, LeftIsFresh
      <4> QED  BY <4>2 DEF s, t
    <3>3. Len(w.frames) = 0  BY <3>1, <3>2, EmptyQ
    <3>4. w.frames = <<>>  BY <3>2, <3>3, LenIs
    <3> QED  BY <1>7, <1>8, <3>1, <3>4 DEF SameThread
  <2>2. w.registered \/ w.source = 0  BY <1>4, <1>7, <1>8 DEF SameThread
  <2>3. /\ DOMAIN w = PlayerFields
        /\ w.loop = v.loop /\ w.registered = v.registered /\ w.finished = v.finished /\ w.pc = v.pc
        /\ w.coded = v.coded /\ w.fresh = v.fresh /\ (w.running => v.running) /\ w.pending = v.pending
    BY <1>7, <1>8 DEF SameThread
  <2> HIDE DEF v
  <2> QED  BY <1>2, <1>5, <1>9, <2>1, <2>2, <2>3, MainKeeps
<1>11. /\ DOMAIN player' = DOMAIN player /\ player'[p] = w
       /\ \A q \in DOMAIN player : q # p => player'[q] = player[q]
  BY <1>1, OneChanges
<1>12. \A q \in DOMAIN player' : PlayerInv(player'[q], Clearing(q)')
  BY <1>1, <1>2, <1>10, PlayersKept
<1>13. AudioInv(audio) /\ 0 \notin audio.streaming /\ StreamsInv  BY NoNull DEF MediaInv
<1>14. AudioInv(audio')
  <2> HIDE DEF v
  <2> QED  BY <1>1, <1>13, SoundedIs
<1>15. StreamsInv'
  <2>1. CASE WithSound(v) /\ v.source = 0 /\ SourceOf(v) # 0
    <3> DEFINE s == SourceOf(v)
    <3>1. sounding  BY <2>1 DEF WithSound
    <3>2. audio'.streaming = audio.streaming \cup {s} /\ s \notin audio.streaming
      <4> HIDE DEF v
      <4> QED  BY <1>1, <1>13, <2>1, SoundedIs, PreparedIs
    <3>3. player'[p].source = s  BY <1>7, <1>8, <1>11, <2>1
    <3>4. s # 0 /\ player[p].source = 0  BY <2>1
    <3> HIDE DEF s
    <3> QED  BY <1>1, <1>11, <1>13, <3>1, <3>2, <3>3, <3>4, StreamGained
  <2>2. CASE ~(WithSound(v) /\ v.source = 0 /\ SourceOf(v) # 0)
    <3>1. w.source = v.source
      <4>1. v.source # 0 => SourceOf(v) = v.source  BY DEF SourceOf
      <4> QED  BY <1>7, <1>8, <2>2, <4>1
    <3>2. audio'.streaming = audio.streaming
      <4> HIDE DEF v
      <4> QED  BY <1>1, <1>13, <2>2, SoundedIs, PreparedIs
    <3> QED  BY <1>1, <1>11, <1>13, <3>1, <3>2, StreamsStay
  <2> QED  BY <2>1, <2>2
<1>16. TurnInv'
  <2>1. w.registered = v.registered  BY <1>7, <1>8 DEF SameThread
  <2>2. Registered' = Registered  BY <1>11, <2>1 DEF Registered
  <2> DEFINE due == turn.due \ {p}
  <2>3. due \in SUBSET Registered' /\ p \in Registered'  BY <1>1, <1>3, <2>2
  <2>4. turn' = [at |-> "end", of |-> p, due |-> due]  BY <1>1
  <2> HIDE DEF due
  <2> QED  BY <2>3, <2>4 DEF TurnInv
<1>17. AudioInv(audio)'  BY <1>14 DEF AudioInv
<1> QED  BY <1>12, <1>15, <1>16, <1>17 DEF MediaInv

LEMMA MediaInitInv == MediaInit => MediaInv
<1> SUFFICES ASSUME MediaInit PROVE MediaInv  OBVIOUS
<1>1. audio = Audio(TRUE) /\ DOMAIN player = {} /\ turn = Idle  BY DEF MediaInit, AudioInit
<1>2. AudioInv(audio) /\ audio.streaming = {}  BY <1>1, NewAudioIs
<1>3. StreamsInv  BY <1>1, <1>2, FS_EmptySet DEF StreamsInv
<1>4. TurnInv  BY <1>1 DEF TurnInv
<1> QED  BY <1>1, <1>2, <1>3, <1>4 DEF MediaInv

LEMMA MediaStays == ASSUME MediaInv, UNCHANGED mediaVars PROVE MediaInv'
<1>1. UNCHANGED <<audio, player, sounding, turn>>  BY DEF mediaVars, audioVars
<1>2. SameStreams(audio', audio)  BY <1>1 DEF MediaInv, SameStreams
<1>3. \A q : Clearing(q) => Clearing(q)'  BY <1>1 DEF Clearing
<1>4. TurnInv'  BY <1>1, TurnStays DEF MediaInv
<1> QED  BY <1>1, <1>2, <1>3, <1>4, OthersKeepInv

LEMMA MediaKeepsInv == ASSUME MediaInv, MediaNext PROVE MediaInv'
<1>1. CASE \E p \in Players : Create(p)  BY <1>1, CreateKeepsInv
<1>2. ASSUME NEW p \in DOMAIN player, NEW time \in 0..Length, Seek(p, time) PROVE MediaInv'
  <2>1. time # None  BY <1>2 DEF None
  <2>2. GoTo(p, time, player[p].playing)  BY <1>2 DEF Seek
  <2> DEFINE plays == player[p].playing
  <2>3. plays => player[p].playing  OBVIOUS
  <2>4. GoTo(p, time, plays)  BY <2>2
  <2> HIDE DEF plays
  <2> QED  BY <2>1, <2>3, <2>4, SeekKeepsInv
<1>3. ASSUME NEW p \in DOMAIN player, Stop(p) PROVE MediaInv'
  <2>1. GoTo(p, 0, FALSE)  BY <1>3 DEF Stop
  <2>2. 0 # None  BY DEF None
  <2> DEFINE plays == FALSE
  <2>3. GoTo(p, 0, plays) /\ (plays => player[p].playing)  BY <2>1
  <2> HIDE DEF plays
  <2> QED  BY <2>2, <2>3, SeekKeepsInv
<1>4. ASSUME NEW p \in DOMAIN player,
             \/ Play(p) \/ Pause(p) \/ Clear(p) \/ Drop(p) \/ Join(p) \/ DropNext(p)
             \/ UpdatePlayer(p) \/ NoteEnd(p) \/ Decode(p)
      PROVE  MediaInv'
  BY <1>4, PlayKeepsInv, ClearKeepsInv, DropKeepsInv, JoinKeepsInv, UpdateKeepsInv, EndKeepsInv,
     DecodingKeepsInv
<1>5. CASE BeginMedia \/ EndMedia \/ ShutdownMedia \/ ForgetAudio  BY <1>5, FrameKeepsInv
<1>6. CASE Tick \/ ResetAudio  BY <1>6, TickKeepsInv, ResetKeepsInv
<1>7. CASE turn = Idle /\ SoundNext /\ UNCHANGED <<player, sounding, turn>>  BY <1>7, SoundKeepsInv
<1> QED  BY <1>1, <1>2, <1>3, <1>4, <1>5, <1>6, <1>7 DEF MediaNext

-----------------------------------------------------------------------------
(* What follows.                                                           *)

\* Not many are at the head of a queue.
LEMMA FewInFront ==
    ASSUME NEW s, NEW k \in Nat, NEW mark \in Nat, FreshBehind(s, k, mark), IsQ(s)
    PROVE  LET old == {i \in DOMAIN s : s[i].fresh < mark}
           IN old \subseteq 1..k /\ IsFiniteSet(old) /\ Cardinality(old) <= k
<1> DEFINE old == {i \in DOMAIN s : s[i].fresh < mark}
<1>1. Len(s) \in Nat /\ DOMAIN s = 1..Len(s)  BY LenIs
<1>2. ASSUME NEW i \in old PROVE i \in 1..k
  <2>1. i \in 1..Len(s) /\ s[i].fresh < mark  BY <1>1
  <2>2. i \in Nat /\ ~(i > k)
    <3> SUFFICES ASSUME i > k PROVE FALSE  BY <1>1, <2>1
    <3>1. s[i].fresh = mark  BY <2>1 DEF FreshBehind
    <3>2. mark < mark  BY <2>1, <3>1
    <3> QED  BY <3>2
  <2> QED  BY <1>1, <2>1, <2>2
<1>3. old \subseteq 1..k  BY <1>2
<1> HIDE DEF old
<1>4. IsFiniteSet(1..k) /\ Cardinality(1..k) = k
  <2>1. 1 \in Int /\ k \in Int  OBVIOUS
  <2>2. IsFiniteSet(1..k) /\ Cardinality(1..k) = IF 1 > k THEN 0 ELSE k - 1 + 1  BY <2>1, FS_Interval
  <2> QED  BY <2>2
<1>5. IsFiniteSet(old) /\ Cardinality(old) <= Cardinality(1..k)  BY <1>3, <1>4, FS_Subset
<1> QED  BY <1>3, <1>4, <1>5 DEF old

\* As many as there are streams hold one: each its own.
LEMMA OneEach ==
    ASSUME StreamsInv, AudioInv(audio)
    PROVE  LET held == {p \in DOMAIN player : player[p].source # 0}
           IN /\ {player[p].source : p \in held} = audio.streaming
              /\ Cardinality(held) = Cardinality(audio.streaming)
<1> DEFINE held == {p \in DOMAIN player : player[p].source # 0}
           f == [p \in held |-> player[p].source]
           g == [s \in audio.streaming |-> CHOOSE p \in held : player[p].source = s]
<1>1. 0 \notin audio.streaming  BY NoNull
<1>2. \A p \in held : player[p].source \in audio.streaming  BY DEF StreamsInv
<1>3. \A s \in audio.streaming : \E p \in held : player[p].source = s  BY <1>1 DEF StreamsInv
<1>4. {player[p].source : p \in held} = audio.streaming  BY <1>2, <1>3
<1>5. \A p, q \in held : player[p].source = player[q].source => p = q  BY DEF StreamsInv
<1>6. IsFiniteSet(held)
  <2>1. held \subseteq DOMAIN player /\ IsFiniteSet(DOMAIN player)  BY DEF StreamsInv
  <2> HIDE DEF held
  <2> QED  BY <2>1, FS_Subset
<1> HIDE DEF held
<1>7. \A s \in audio.streaming : g[s] \in held /\ player[g[s]].source = s  BY <1>3
<1>8. f \in [held -> audio.streaming] /\ \A p \in held : f[p] = player[p].source  BY <1>2
<1>9. g \in [audio.streaming -> held]  BY <1>7
<1> HIDE DEF f, g
<1>10. IsFiniteSet(audio.streaming)  BY DEF StreamsInv
<1>11. Cardinality(held) \in Nat /\ Cardinality(audio.streaming) \in Nat
  BY <1>6, <1>10, FS_CardinalityType
<1>12. ~(Cardinality(held) > Cardinality(audio.streaming))
  <2> SUFFICES ASSUME Cardinality(audio.streaming) < Cardinality(held) PROVE FALSE  BY <1>11
  <2>1. \E p, q \in held : p # q /\ f[p] = f[q]  BY <1>6, <1>8, <1>10, FS_PigeonHole
  <2> QED  BY <1>5, <1>8, <2>1
<1>13. ~(Cardinality(audio.streaming) > Cardinality(held))
  <2> SUFFICES ASSUME Cardinality(held) < Cardinality(audio.streaming) PROVE FALSE  BY <1>11
  <2>1. \E s, t \in audio.streaming : s # t /\ g[s] = g[t]  BY <1>6, <1>9, <1>10, FS_PigeonHole
  <2> QED  BY <1>7, <2>1
<1> QED  BY <1>4, <1>11, <1>12, <1>13 DEF held

LEMMA InvIsMedia == MediaInv => MediaAgrees
<1> SUFFICES ASSUME MediaInv PROVE MediaAgrees  OBVIOUS
<1>1. EndsAreTrue  BY DEF EndsAreTrue, MediaInv, PlayerInv
<1>2. SeekLeavesBehind
  <2> SUFFICES ASSUME NEW p \in DOMAIN player, player[p].pending = None,
                      turn # [at |-> "clear", of |-> p]
               PROVE  LET v == player[p]
                          old(decoded) == {i \in DOMAIN decoded : decoded[i].fresh < v.fresh}
                      IN /\ old(v.coded) = {}
                         /\ Cardinality(old(v.frames)) <= Delay + 1
                         /\ Cardinality(old(v.chunks)) <= 1
    BY DEF SeekLeavesBehind
  <2> DEFINE v == player[p]
             c == Clearing(p)
  <2>1. PlayerInv(v, c) /\ ~c  BY DEF MediaInv, Clearing
  <2> HIDE DEF c
  <2>2. /\ IsQ(v.frames) /\ IsQ(v.chunks) /\ IsQ(v.coded) /\ v.fresh \in Nat
        /\ HoldsLittle(v) /\ ObeyedSeek(v)
    BY <2>1 DEF PlayerInv
  <2> DEFINE mark == v.fresh
             x == v.frames
             y == v.chunks
             z == v.coded
  <2>3. PICK k \in 0..(Delay + 1) : FreshBehind(x, k, mark)  BY <2>2 DEF ObeyedSeek
  <2>4. FreshBehind(y, 1, mark) /\ FreshBehind(z, 0, mark)  BY <2>2 DEF ObeyedSeek, HoldsLittle
  <2>5. IsQ(x) /\ IsQ(y) /\ IsQ(z) /\ mark \in Nat  BY <2>2
  <2>6. Delay \in Nat /\ k \in Nat /\ k <= Delay + 1 /\ 1 \in Nat /\ 0 \in Nat  BY VideoBounds
  <2> HIDE DEF x, y, z, mark
  <2>7. {i \in DOMAIN z : z[i].fresh < mark} = {}
    <3>1. {i \in DOMAIN z : z[i].fresh < mark} \subseteq 1..0  BY <2>4, <2>5, <2>6, FewInFront
    <3> QED  BY <3>1
  <2>8. Cardinality({i \in DOMAIN y : y[i].fresh < mark}) <= 1  BY <2>4, <2>5, <2>6, FewInFront
  <2>9. Cardinality({i \in DOMAIN x : x[i].fresh < mark}) <= Delay + 1
    <3> DEFINE old == {i \in DOMAIN x : x[i].fresh < mark}
    <3>1. IsFiniteSet(old) /\ Cardinality(old) <= k  BY <2>3, <2>5, <2>6, FewInFront
    <3> HIDE DEF old
    <3>2. Cardinality(old) \in Nat  BY <3>1, FS_CardinalityType
    <3>3. Cardinality(old) <= Delay + 1  BY <2>6, <3>1, <3>2
    <3> QED  BY <3>3 DEF old
  <2> QED  BY <2>7, <2>8, <2>9 DEF x, y, z, mark
<1>3. SourcesAgree
  <2>1. \A p \in DOMAIN player \ Registered :
            player[p].source = 0 /\ player[p].pc = "over" /\ ~player[p].running
    BY DEF Registered, MediaInv, PlayerInv
  <2>2. audio.streaming \subseteq audio.active /\ audio.active = DOMAIN audio.voices
    BY DEF MediaInv, AudioInv
  <2> QED  BY <2>1, <2>2, OneEach DEF SourcesAgree, MediaInv
<1> QED  BY <1>1, <1>2, <1>3 DEF MediaAgrees

-----------------------------------------------------------------------------
(* Both, whatever else moves.                                              *)

PlayingInv == MediaInv /\ RingInv

LEMMA PlayingInitInv == Init => PlayingInv
BY MediaInitInv, RingInitially DEF Init, PlayingInv

LEMMA PlayingNextKeepsInv == PlayingInv /\ [Next]_vars => PlayingInv'
<1> SUFFICES ASSUME PlayingInv, [Next]_vars PROVE PlayingInv'
  OBVIOUS
<1>1. MediaInv /\ RingInv  BY DEF PlayingInv
<1>2. UNCHANGED mediaVars => MediaInv'  BY <1>1, MediaStays
<1>3. UNCHANGED recordingVars => RingInv'
  <2>1. UNCHANGED recordingVars
          => UNCHANGED <<data, head, size, droppedSamples, heard, taken, cleared, overrun>>
    BY DEF recordingVars
  <2> QED  BY <1>1, <2>1, RingStays
<1>4. CASE Moves("media") /\ MediaNext
  <2>1. UNCHANGED recordingVars  BY <1>4 DEF Moves
  <2> QED  BY <1>1, <1>3, <1>4, <2>1, MediaKeepsInv DEF PlayingInv
<1>5. CASE Moves("recording") /\ RecordingNext
  <2>1. UNCHANGED mediaVars  BY <1>5 DEF Moves
  <2> QED  BY <1>1, <1>2, <1>5, <2>1, RecordingKeepsRing DEF PlayingInv
<1>6. CASE UNCHANGED mediaVars /\ UNCHANGED recordingVars
  BY <1>2, <1>3, <1>6 DEF PlayingInv
<1>7. CASE Next
  <2>1. CASE Moves("realtime") \/ Moves("input") \/ Moves("files") \/ Moves("terminal")
    <3>1. UNCHANGED mediaVars /\ UNCHANGED recordingVars  BY <2>1 DEF Moves
    <3> QED  BY <1>6, <3>1
  <2> QED  BY <1>4, <1>5, <1>7, <2>1 DEF Next
<1>8. CASE UNCHANGED vars
  <2>1. UNCHANGED mediaVars /\ UNCHANGED recordingVars  BY <1>8 DEF vars
  <2> QED  BY <1>6, <2>1
<1> QED  BY <1>7, <1>8

\* A video has ended once all of it was shown and its thread is over; what is
\* left of before a seek that was obeyed is no more than the decoder kept
\* back; each stream of Audio is one player's, and a player that was dropped
\* has none (VideoPlayer, VideoManager, Audio).  And what a script reads of a
\* recording is whole frames, in the order they were heard, and all that was
\* heard is read, waits or is counted as lost (AudioInput).
THEOREM PlayingAndRecordingAlwaysAgree == Spec => []PlayingAndRecordingAgree
<1>1. Spec => []PlayingInv
  BY PlayingInitInv, PlayingNextKeepsInv, PTL DEF Spec
<1>2. PlayingInv => PlayingAndRecordingAgree
  BY InvIsMedia, RingIsWhole DEF PlayingInv, PlayingAndRecordingAgree
<1> QED  BY <1>1, <1>2, PTL
=============================================================================
