-------------------------------- MODULE Desktop ---------------------------------
(***************************************************************************)
(* What scripts have of the desktop: a tray icon with a menu (lua_tray.cpp *)
(* over tray.h's GTK part), notifications (lua_notify.cpp over libnotify)  *)
(* and file watches (lua_file_watch.cpp over efsw).                        *)
(*                                                                         *)
(* GTK and libnotify call back from the loop of the tray, on the thread of *)
(* scripts, so scripts may do anything inside a callback.  efsw has a      *)
(* thread of its own.  Each rebuild of a tray is numbered, and each send   *)
(* of a notification; callbacks go by these numbers.                       *)
(***************************************************************************)
EXTENDS Scenario, Integers, Sequences, FiniteSets

CONSTANTS
    Trays, Centers,     \* handles that scripts have
    Keys, NoKey,        \* replace-key
    Watches             \* ids of watches

ASSUME DesktopBounds == NoKey \notin Keys

VARIABLES
    desktop,            \* defined, or undefined once freed memory is used, or aborted
    inside,             \* the callback that runs
    strayed,            \* history: scripts did what the bindings do not withstand
    trays, indicators, indicator, loopResult,
    centers, ready, notes, replaceIndex, toldClosed,
    watching, watchQueue, watchHand, watchTold

trayState == <<trays, indicators, indicator, loopResult>>
noteState == <<centers, ready, notes, replaceIndex, toldClosed>>
watchState == <<watching, watchQueue, watchHand, watchTold>>
desktopVars == <<desktop, inside, strayed, trayState, noteState, watchState>>

Outside == [kind |-> "none"]
IsInside(kind) == inside.kind = kind

DesktopInit ==
    /\ desktop = "defined" /\ inside = Outside /\ strayed = FALSE
    /\ trays = [h \in Trays |-> [state |-> "none", built |-> 0, whole |-> FALSE, menu |-> 0]]
    /\ indicators = <<>> /\ indicator = 0 /\ loopResult = 0
    /\ centers = [c \in Centers |-> [initialized |-> FALSE, gone |-> FALSE]]
    /\ ready = FALSE /\ notes = <<>> /\ toldClosed = <<>>
    /\ replaceIndex = [at \in Centers \X Keys |-> 0]
    /\ watching = [open |-> TRUE, ids |-> {}, made |-> 0]
    /\ watchQueue = <<>> /\ watchHand = 0 /\ watchTold = <<>>

\* Something is read: it is there, or nothing is known from here on.
Reads(there) == desktop' = IF there THEN desktop ELSE "undefined"
Strays(how) == strayed' = (strayed \/ how)

----------------------------------------------------------------------------
(* The tray.                                                               *)

\* The menu of a number is there: its items, texts and callbacks.
Alive(menu) ==
    /\ trays[menu.of].state # "gone"
    /\ trays[menu.of].whole
    /\ trays[menu.of].built = menu.number

\* app_indicator_set_menu, on the indicator that is there.
WithMenu(menu) ==
    IF indicator = 0 THEN indicators ELSE [indicators EXCEPT ![indicator] = menu]

\* build_menu reads all entries of the menu, or stops at one that is no table or
\* has no text, or whose submenu stops.
ReadsAll(spec) == spec = "whole"

\* rebuild_from_spec: storage is cleared before the menu is read, and the menu
\* of the native tray is set when all of it was read.
Rebuilt(h, spec) ==
    LET now == trays[h].built + 1
    IN  IF spec = "headless" THEN trays[h]
        ELSE [trays[h] EXCEPT !.built = now, !.whole = ReadsAll(spec),
                              !.menu = IF ReadsAll(spec) THEN now ELSE @]

\* tray.create: a handle, of a specification that is whole.
CreateTray(h) ==
    /\ Spend("tray")
    /\ trays[h].state = "none"
    /\ trays' = [trays EXCEPT ![h] = [Rebuilt(h, "whole") EXCEPT !.state = "made"]]
    /\ UNCHANGED <<desktop, inside, strayed, indicators, indicator, loopResult, noteState,
                   watchState>>

Menu(h) == [of |-> h, number |-> trays[h].menu]

\* start: tray_init makes an indicator, which takes the place of one there is.
StartTray(h) ==
    /\ Spend("tray")
    /\ trays[h].state \in {"made", "running"}
    /\ \/ \* no GTK, or nothing that shows indicators
          /\ trays' = [trays EXCEPT ![h].state = "made"]
          /\ Strays(trays[h].state = "running")
          /\ UNCHANGED <<desktop, indicators, indicator>>
       \/ /\ Reads(Alive(Menu(h)))
          /\ indicators' = Append(indicators, Menu(h))
          /\ indicator' = Len(indicators) + 1
          /\ trays' = [trays EXCEPT ![h].state = "running"]
          /\ Strays(indicator # 0)
    /\ UNCHANGED <<inside, loopResult, noteState, watchState>>

\* update, with a specification or without.  What the callback that runs holds
\* goes with the menu it belongs to.
UpdateTray(h, spec) ==
    /\ Spend("tray")
    /\ trays[h].state \in {"made", "running"}
    /\ IF spec = "none"
       THEN /\ Reads(Alive(Menu(h)))
            /\ indicators' = WithMenu(Menu(h))
            /\ UNCHANGED trays
       ELSE /\ trays' = [trays EXCEPT ![h] = Rebuilt(h, spec)]
            /\ indicators' = IF spec = "whole" THEN WithMenu([of |-> h, number |-> trays[h].built + 1])
                             ELSE indicators
            /\ UNCHANGED desktop
    /\ Strays(\/ spec = "torn"
              \/ spec = "whole" /\ IsInside("click") /\ inside.menu.of = h
              \/ trays[h].state # "running" /\ indicator # 0)
    /\ UNCHANGED <<inside, indicator, loopResult, noteState, watchState>>

\* exit, and the handle's end.
Exited(h) ==
    IF trays[h].state = "running"
    THEN /\ loopResult' = -1
         /\ indicators' = IF indicator = 0 THEN indicators
                          ELSE [indicators EXCEPT ![indicator] = [of |-> h, number |-> 0]]
         /\ indicator' = 0
    ELSE UNCHANGED <<loopResult, indicators, indicator>>

ExitTray(h) ==
    /\ Spend("tray")
    /\ trays[h].state \in {"made", "running"}
    /\ Exited(h)
    /\ trays' = [trays EXCEPT ![h].state = "made"]
    /\ UNCHANGED <<desktop, inside, strayed, noteState, watchState>>

DropTray(h) ==
    /\ Spend("tray")
    /\ trays[h].state \in {"made", "running"}
    /\ Exited(h)
    /\ trays' = [trays EXCEPT ![h].state = "gone"]
    /\ Strays(IsInside("click") /\ inside.menu.of = h)
    /\ UNCHANGED <<desktop, inside, noteState, watchState>>

\* A click in a menu that is shown, from tray_loop: menu_callback finds the
\* script's function through the item.
Click(i) ==
    /\ Spend("click")
    /\ inside = Outside
    /\ indicators[i].number # 0
    /\ Reads(Alive(indicators[i]))
    /\ inside' = [kind |-> "click", menu |-> indicators[i]]
    /\ UNCHANGED <<strayed, trayState, noteState, watchState>>

\* The function returns to the object that holds it.
ClickReturns ==
    /\ IsInside("click")
    /\ Reads(Alive(inside.menu))
    /\ inside' = Outside
    /\ UNCHANGED <<left, strayed, trayState, noteState, watchState>>

----------------------------------------------------------------------------
(* Notifications.  A note has an on-close of each send that showed it:     *)
(* connect_closed means to disconnect the one before, but asks for one     *)
(* whose data is null, and there is none.                                  *)

Noted(c, key) == IF key = NoKey THEN 0 ELSE replaceIndex[<<c, key>>]

\* get_or_create, and what apply_options leaves on it.
Applied(c, key, number) ==
    LET n == Noted(c, key)
    IN  IF n # 0 THEN [notes EXCEPT ![n].handlers = Append(@, number), ![n].actions = number]
        ELSE Append(notes, [center |-> c, key |-> key, handlers |-> <<number>>,
                            actions |-> number, shown |-> FALSE, kept |-> TRUE])

\* ensure_init: a center that did it once relies on it.
Connected(c) == ready \/ ~ centers[c].initialized

\* send.  Another center's end may have left libnotify without its connection,
\* which it does not survive.
Send(c, key) ==
    LET n == IF Noted(c, key) = 0 THEN Len(notes) + 1 ELSE Noted(c, key)
        number == left["send"]
        connected == Connected(c)
    IN  /\ Spend("send")
        /\ ~ centers[c].gone
        /\ centers' = [centers EXCEPT ![c].initialized = TRUE]
        /\ ready' = connected
        /\ replaceIndex' = IF key = NoKey THEN replaceIndex
                           ELSE [replaceIndex EXCEPT ![<<c, key>>] = n]
        /\ \E shows \in BOOLEAN :
               notes' = [Applied(c, key, number) EXCEPT
                            ![n].shown = @ \/ (shows /\ connected)]
        /\ desktop' = IF connected THEN desktop ELSE "aborted"
        /\ Strays(\/ ~ connected
                  \/ IsInside("closed") /\ inside.note = n
                  \/ IsInside("action") /\ inside.note = n)
        /\ UNCHANGED <<inside, toldClosed, trayState, watchState>>

\* Options are refused by parse_options, or notify_init fails.
SendFails(c) ==
    /\ Spend("send")
    /\ ~ centers[c].gone
    /\ UNCHANGED <<desktop, inside, strayed, noteState, trayState, watchState>>

\* The desktop tells that a note was closed: its handlers are called in turn.
Closed(n) ==
    /\ Spend("close")
    /\ inside = Outside
    /\ notes[n].shown /\ ready
    /\ inside' = [kind |-> "closed", note |-> n, todo |-> notes[n].handlers]
    /\ UNCHANGED <<desktop, strayed, noteState, trayState, watchState>>

\* Mutant: the key of a note stays in the index.
StillIndexed(n) == replaceIndex

\* remove_notification, of the index.
Unindexed(n) ==
    IF notes[n].kept /\ notes[n].key # NoKey
    THEN [replaceIndex EXCEPT ![<<notes[n].center, notes[n].key>>] = 0]
    ELSE replaceIndex

\* closed_callback: one handler has called its function, and its center forgets
\* the note.  After the last the note is not shown.
HandlerReturns ==
    LET n == inside.note
        rest == Tail(inside.todo)
    IN  /\ IsInside("closed")
        /\ Reads(~ centers[notes[n].center].gone)
        /\ toldClosed' = Append(toldClosed, Head(inside.todo))
        /\ replaceIndex' = Unindexed(n)
        /\ notes' = [notes EXCEPT ![n].kept = FALSE, ![n].shown = @ /\ rest # <<>>]
        /\ inside' = IF rest = <<>> THEN Outside ELSE [inside EXCEPT !.todo = rest]
        /\ UNCHANGED <<left, strayed, centers, ready, trayState, watchState>>

\* action_callback, whose function lives as long as the note's actions.
Act(n) ==
    /\ Spend("act")
    /\ inside = Outside
    /\ notes[n].shown /\ ready
    /\ inside' = [kind |-> "action", note |-> n, actions |-> notes[n].actions]
    /\ UNCHANGED <<desktop, strayed, noteState, trayState, watchState>>

ActReturns ==
    /\ IsInside("action")
    /\ Reads(notes[inside.note].actions = inside.actions)
    /\ inside' = Outside
    /\ UNCHANGED <<left, strayed, noteState, trayState, watchState>>

\* A center is collected: reset.  libnotify's connection ends with the first of
\* its users, and what it tells of notes.
DropCenter(c) ==
    /\ Spend("drop")
    /\ ~ centers[c].gone
    /\ centers' = [centers EXCEPT ![c] = [initialized |-> FALSE, gone |-> TRUE]]
    /\ ready' = (ready /\ ~ centers[c].initialized)
    /\ notes' = [n \in DOMAIN notes |->
                    [notes[n] EXCEPT !.kept = @ /\ notes[n].center # c,
                                     !.shown = @ /\ ~ centers[c].initialized]]
    /\ replaceIndex' = [at \in Centers \X Keys |-> IF at[1] = c THEN 0 ELSE replaceIndex[at]]
    /\ Strays(IsInside("closed"))
    /\ UNCHANGED <<desktop, inside, toldClosed, trayState, watchState>>

----------------------------------------------------------------------------
(* File watches.                                                           *)

\* add-watch, which efsw may refuse, and remove-watch.
AddWatch(id) ==
    /\ Spend("watch")
    /\ watching.open /\ id \notin watching.ids
    /\ watching' = [watching EXCEPT !.ids = @ \cup {id}]
    /\ UNCHANGED <<desktop, inside, strayed, trayState, noteState, watchQueue, watchHand, watchTold>>

RemoveWatch(id) ==
    /\ Spend("watch")
    /\ watching.open /\ id \in watching.ids
    /\ watching' = [watching EXCEPT !.ids = @ \ {id}]
    /\ UNCHANGED <<desktop, inside, strayed, trayState, noteState, watchQueue, watchHand, watchTold>>

\* handleFileAction and handleMissedFileActions: an event is made on the thread
\* of efsw, and put into the queue.
Notice ==
    /\ Spend("notice")
    /\ watching.open /\ watching.ids # {} /\ watchHand = 0
    /\ watching' = [watching EXCEPT !.made = @ + 1]
    /\ watchHand' = watching.made + 1
    /\ UNCHANGED <<desktop, inside, strayed, trayState, noteState, watchQueue, watchTold>>

Queue ==
    /\ watchHand # 0
    /\ watchQueue' = Append(watchQueue, watchHand)
    /\ watchHand' = 0
    /\ UNCHANGED <<left, desktop, inside, strayed, trayState, noteState, watching, watchTold>>

\* poll: scripts get what the queue has.
PollWatches ==
    /\ watching.open /\ watchQueue # <<>>
    /\ watchTold' = watchTold \o watchQueue
    /\ watchQueue' = <<>>
    /\ UNCHANGED <<left, desktop, inside, strayed, trayState, noteState, watching, watchHand>>

\* drop: efsw's end waits for its thread, and for an event in its hand.
DropWatches ==
    /\ Spend("watch")
    /\ watching.open /\ watchHand = 0
    /\ watching' = [watching EXCEPT !.open = FALSE, !.ids = {}]
    /\ watchQueue' = <<>>
    /\ UNCHANGED <<desktop, inside, strayed, trayState, noteState, watchHand, watchTold>>

DesktopNext ==
    /\ desktop = "defined"
    /\ \/ \E h \in Trays :
             \/ CreateTray(h) \/ StartTray(h) \/ ExitTray(h) \/ DropTray(h)
             \/ \E spec \in {"none", "headless", "torn", "whole"} : UpdateTray(h, spec)
       \/ \E i \in DOMAIN indicators : Click(i)
       \/ ClickReturns \/ HandlerReturns \/ ActReturns
       \/ \E c \in Centers :
             \/ SendFails(c) \/ DropCenter(c)
             \/ \E key \in Keys \cup {NoKey} : Send(c, key)
       \/ \E n \in DOMAIN notes : Closed(n) \/ Act(n)
       \/ \E id \in Watches : AddWatch(id) \/ RemoveWatch(id)
       \/ Notice \/ Queue \/ PollWatches \/ DropWatches

DesktopSpec == Opens /\ DesktopInit /\ [][DesktopNext]_<<left, desktopVars>>

----------------------------------------------------------------------------

\* What is freed is not used, as long as scripts have one indicator, give menus
\* that can be read, and leave a menu, an action or a center alone in its own
\* callback (lua_tray.cpp, lua_notify.cpp).
NothingFreedIsUsed == strayed \/ desktop = "defined"

\* A click reaches the menu of the last update, of a tray that runs.
ClicksReachTheLastMenu ==
    strayed \/ \A i \in DOMAIN indicators :
        LET menu == indicators[i]
        IN  menu.number # 0 =>
                /\ i = indicator /\ trays[menu.of].state = "running"
                /\ menu.number = trays[menu.of].built

\* The loop tells of an exit that there was one, for good.
LoopTellsExit == loopResult = -1 \/ \A i \in DOMAIN indicators : indicators[i].number # 0

\* A key stands for the note last sent under it that is not closed, and nothing
\* else is called twice: each send's on-close is, at most once.
KeysReplace ==
    /\ \A at \in Centers \X Keys : replaceIndex[at] # 0 =>
           LET note == notes[replaceIndex[at]]
           IN  note.kept /\ <<note.center, note.key>> = at
    /\ strayed \/ \A n \in DOMAIN notes : notes[n].kept /\ notes[n].key # NoKey =>
           replaceIndex[<<notes[n].center, notes[n].key>>] = n
    /\ \A i, j \in DOMAIN toldClosed : toldClosed[i] = toldClosed[j] => i = j

\* Of a note that was closed every send's on-close was called.
ClosedIsTold ==
    strayed \/ \A n \in DOMAIN notes : \A i \in DOMAIN notes[n].handlers :
        \/ notes[n].kept
        \/ centers[notes[n].center].gone
        \/ inside # Outside
        \/ \E j \in DOMAIN toldClosed : toldClosed[j] = notes[n].handlers[i]

\* Events of watches are told once each and in the order they happened, up to
\* those that wait.
WatchesTellInOrder ==
    LET all == watchTold \o watchQueue \o (IF watchHand = 0 THEN <<>> ELSE <<watchHand>>)
    IN  /\ all = [i \in 1..Len(all) |-> i]
        /\ watching.open => Len(all) = watching.made

DesktopAgrees ==
    /\ NothingFreedIsUsed /\ ClicksReachTheLastMenu /\ LoopTellsExit
    /\ KeysReplace /\ ClosedIsTold /\ WatchesTellInOrder
=============================================================================
