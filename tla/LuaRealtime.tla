------------------------------ MODULE LuaRealtime -----------------------------
(***************************************************************************)
(* The handle of a realtime server or client in lua_realtime.cpp, over the *)
(* thread of realtime/core.cpp that tells it what happened.  The script    *)
(* may replace a callback at any time; the thread calls the one it read    *)
(* before.  close joins the thread, hands out what it posted and then      *)
(* silences every callback, also within batches that are half done.        *)
(***************************************************************************)
EXTENDS LuaCallbacks

CONSTANTS
    Names,              \* the names of the callbacks, "stopped" among them
    MaxNotices          \* bound: what the thread has to tell

VARIABLES
    rt_ids,             \* callback_ids_: name -> id
    rt_live,            \* the callbacks given to the core: name -> id
    rt_thread,          \* what its thread does: none, up, telling or gone
    rt_telling,         \* the id in the callback the thread has copied
    rt_running,         \* running
    rt_notices,         \* how many notices the thread has made
    rt_close,           \* close_impl: open, join, drain or closed
    rt_dispatches,      \* close_impl's dispatch_callbacks
    rt_silenced         \* history: at close, the ids and what each was told

lrVars == <<rt_ids, rt_live, rt_thread, rt_telling, rt_running, rt_notices,
            rt_close, rt_dispatches, rt_silenced>>

Ids == {rt_ids[name] : name \in DOMAIN rt_ids}

LrInit ==
    /\ rt_ids = <<>>
    /\ rt_live = <<>>
    /\ rt_thread = "none"
    /\ rt_telling = NoCallback
    /\ rt_running = FALSE
    /\ rt_notices = 0
    /\ rt_close = "open"
    /\ rt_dispatches = FALSE
    /\ rt_silenced = <<>>

Notice(what) == Event("realtime", 0, what, rt_notices + 1)

\* set_callback: the former function of that name is unregistered, and the core
\* gets a copy of them all.
RtSet(name) ==
    LET ids == [n \in DOMAIN rt_ids \cup {name} |->
                    IF n = name THEN next_id ELSE rt_ids[n]]
    IN  /\ LuaRuns
        /\ rt_close = "open"
        /\ Reregister({rt_ids[n] : n \in {name} \cap DOMAIN rt_ids}, 1)
        /\ rt_ids' = ids
        /\ rt_live' = ids
        /\ UNCHANGED <<queue, stack, own, called, rt_thread, rt_telling, rt_running,
                       rt_notices, rt_close, rt_dispatches, rt_silenced>>

\* start, or the first connect of a client.
RtStart ==
    /\ LuaRuns
    /\ rt_close = "open"
    /\ rt_thread = "none"
    /\ rt_thread' = "up"
    /\ rt_running' = TRUE
    /\ UNCHANGED <<cbVars, rt_ids, rt_live, rt_telling, rt_notices, rt_close,
                   rt_dispatches, rt_silenced>>

\* Something happens that a callback is for: the thread copies the callbacks
\* (current_callbacks) and then, out of the mutex, calls the copy.
RtTell(name) ==
    /\ rt_thread = "up"
    /\ rt_notices < MaxNotices
    /\ name \in DOMAIN rt_live \ {"stopped"}
    /\ rt_thread' = "telling"
    /\ rt_telling' = rt_live[name]
    /\ UNCHANGED <<cbVars, rt_ids, rt_live, rt_running, rt_notices, rt_close,
                   rt_dispatches, rt_silenced>>

RtPost ==
    /\ rt_thread = "telling"
    /\ Post(rt_telling, Notice("notice"))
    /\ rt_thread' = "up"
    /\ rt_telling' = NoCallback
    /\ rt_notices' = rt_notices + 1
    /\ UNCHANGED <<rt_ids, rt_live, rt_running, rt_close, rt_dispatches, rt_silenced>>

RtExit ==
    /\ rt_thread = "up"
    /\ ~rt_running
    /\ rt_thread' = "gone"
    /\ UNCHANGED <<cbVars, rt_ids, rt_live, rt_telling, rt_running, rt_notices,
                   rt_close, rt_dispatches, rt_silenced>>

\* close (dispatch = TRUE), or the destructor, which the collector may run
\* whenever Lua does.  The main thread waits for the worker.
RtClose(dispatch) ==
    /\ LuaRuns
    /\ rt_close = "open"
    /\ Len(stack) + 2 <= MaxFrames
    /\ stack' = Append(stack, Frame("close", <<>>, NoItem))
    /\ rt_close' = "join"
    /\ rt_dispatches' = dispatch
    /\ rt_running' = FALSE
    /\ UNCHANGED <<next_id, registry, deferred, retired, queue, own, called, rt_ids,
                   rt_live, rt_thread, rt_telling, rt_notices, rt_silenced>>

\* Joined: the main thread itself calls "stopped" if the server ran.
RtJoined ==
    /\ rt_close = "join"
    /\ rt_thread \in {"none", "gone"}
    /\ rt_close' = "drain"
    /\ IF rt_thread = "gone" /\ "stopped" \in DOMAIN rt_live
       THEN /\ Post(rt_live["stopped"], Notice("stopped"))
            /\ rt_notices' = rt_notices + 1
       ELSE UNCHANGED <<cbVars, rt_notices>>
    /\ UNCHANGED <<rt_ids, rt_live, rt_thread, rt_telling, rt_running,
                   rt_dispatches, rt_silenced>>

\* lua_callbacks_dispatch_ids(ids), again as long as it finds something; a
\* callback it calls may make other callbacks post or dispatch.
RtDrain ==
    /\ rt_close = "drain"
    /\ Top.kind = "close"
    /\ rt_dispatches
    /\ TakenAt(queue, Ids, 0) # {}
    /\ DispatchFrom(stack, queue, Ids, 0)
    /\ UNCHANGED <<next_id, registry, deferred, retired, own, called, lrVars>>

\* Mutant: unregister alone, which a dispatch only notes.
RtClosedNotRetired ==
    /\ rt_close = "drain"
    /\ Top.kind = "close"
    /\ rt_dispatches => TakenAt(queue, Ids, 0) = {}
    /\ stack' = Below
    /\ queue' = At(queue, DOMAIN queue \ TakenAt(queue, Ids, 0))
    /\ IF Depth(stack) > 0
       THEN deferred' = deferred \cup Ids /\ UNCHANGED <<registry, retired>>
       ELSE registry' = registry \ Ids /\ UNCHANGED <<retired, deferred>>
    /\ rt_ids' = <<>>
    /\ rt_close' = "closed"
    /\ rt_silenced' = [cb \in Ids |-> Len(called[cb])]
    /\ UNCHANGED <<next_id, own, called, rt_live, rt_thread, rt_telling, rt_running,
                   rt_notices, rt_dispatches>>

\* retire_ids, which discards what is queued for them, and unregister of each.
RtClosed ==
    /\ rt_close = "drain"
    /\ Top.kind = "close"
    /\ rt_dispatches => TakenAt(queue, Ids, 0) = {}
    /\ stack' = Below
    /\ queue' = At(queue, DOMAIN queue \ TakenAt(queue, Ids, 0))
    /\ IF Depth(stack) > 0
       THEN /\ retired' = retired \cup Ids
            /\ deferred' = deferred \cup Ids
            /\ UNCHANGED registry
       ELSE /\ registry' = registry \ Ids
            /\ UNCHANGED <<retired, deferred>>
    /\ rt_ids' = <<>>
    /\ rt_close' = "closed"
    /\ rt_silenced' = [cb \in Ids |-> Len(called[cb])]
    /\ UNCHANGED <<next_id, own, called, rt_live, rt_thread, rt_telling, rt_running,
                   rt_notices, rt_dispatches>>

----------------------------------------------------------------------------
\* Once close has returned, no callback the handle had then is called, however
\* deep in nested batches close was called and whatever their rests still hold
\* for it (close_impl, retire_ids and retired_ids).
SilentOnceClosed ==
    rt_close = "closed" =>
        \A cb \in DOMAIN rt_silenced :
            /\ Len(called[cb]) = rt_silenced[cb]
            /\ \A i \in DOMAIN queue : queue[i].cb # cb

\* By then close, not the destructor, has told them what the thread had posted,
\* "stopped" included.
StoppedIsTold ==
    rt_close = "closed" /\ rt_dispatches /\ rt_thread = "gone"
        /\ "stopped" \in DOMAIN rt_live /\ rt_live["stopped"] \in DOMAIN rt_silenced =>
        \E k \in DOMAIN called[rt_live["stopped"]] :
            called[rt_live["stopped"]][k].ev.what = "stopped"

\* The handle's callbacks are told all of it and then nothing more.
ClosedIsSilent == SilentOnceClosed /\ StoppedIsTold
=============================================================================
