---------------------------- MODULE LuaCallbacks -----------------------------
(***************************************************************************)
(* The callback registry of lua_callbacks.cpp.  Worker threads of any      *)
(* service enqueue events for a registered Lua function; the main thread   *)
(* takes them in batches and calls the functions.  A called function is    *)
(* Lua code and may call back into the registry: unregister itself, or     *)
(* dispatch again while a batch is half done.                              *)
(*                                                                         *)
(* The main thread is a stack of frames.  A "dispatch" frame is one        *)
(* activation of lua_callbacks_dispatch or _dispatch_ids: the items still  *)
(* to be handled, and the one being called.  Bindings that call into Lua   *)
(* from a loop of their own push frames of other kinds.                    *)
(***************************************************************************)
EXTENDS Naturals, Sequences, FiniteSets

CONSTANTS
    MaxCallbacks,       \* bound: callbacks registered in a run
    MaxFrames           \* bound: frames on the stack of the main thread

ASSUME CallbackBounds == MaxCallbacks \in Nat /\ MaxFrames \in Nat

VARIABLES
    next_id,            \* the next callback id
    registry,           \* ids of the registered functions
    deferred,           \* deferred_unregister_ids
    retired,            \* retired_ids
    queue,              \* pending_queue: items [cb, ev]
    stack,              \* what the main thread is in the middle of
    own,                \* history: ids that scripts registered themselves
    called              \* history: for each callback the events it was called
                        \* with, and the depth of the dispatch that did it

cbVars == <<next_id, registry, deferred, retired, queue, stack, own, called>>

Callbacks == 1..MaxCallbacks
NoCallback == 0

\* An event: what of which service it tells, and its place among the events
\* of its callback.
Event(of, id, what, n) == [of |-> of, id |-> id, what |-> what, n |-> n]
NoEvent == Event("none", 0, "none", 0)

Item(cb, ev) == [cb |-> cb, ev |-> ev]
NoItem == Item(NoCallback, NoEvent)

\* A frame of the main thread; kind "none" is below them all.
Frame(kind, rest, cur) == [kind |-> kind, rest |-> rest, cur |-> cur]
Top == IF stack = <<>> THEN Frame("none", <<>>, NoItem) ELSE stack[Len(stack)]
Below == SubSeq(stack, 1, Len(stack) - 1)

\* dispatch_depth: a DispatchScope is alive for each dispatch frame.
Depth(s) == Cardinality({i \in DOMAIN s : s[i].kind = "dispatch"})

\* Lua code runs: a script's own, or that of the callback being called.
LuaRuns == Top.kind = "none" \/ (Top.kind = "dispatch" /\ Top.cur # NoItem)

CbInit ==
    /\ next_id = 1
    /\ registry = {}
    /\ deferred = {}
    /\ retired = {}
    /\ queue = <<>>
    /\ stack = <<>>
    /\ own = {}
    /\ called = [cb \in Callbacks |-> <<>>]

----------------------------------------------------------------------------
(* What the functions of the registry do to each variable.  A binding's    *)
(* operation combines several of them in one step of the main thread.      *)

\* lua_callbacks_unregister of the ids in drop, then lua_callbacks_register
\* of one function if add = 1.  Within a dispatch the ids are only noted.
Reregister(drop, add) ==
    LET new == next_id .. (next_id + add - 1)
        kept == IF Depth(stack) > 0 THEN registry ELSE registry \ drop
    IN  /\ next_id + add <= MaxCallbacks + 1
        /\ next_id' = next_id + add
        /\ registry' = kept \cup new
        /\ deferred' = IF Depth(stack) > 0 THEN deferred \cup drop ELSE deferred
        /\ retired' = IF Depth(stack) > 0 THEN retired ELSE retired \ drop

Unregister(drop) == Reregister(drop, 0)

\* The elements of q at the positions in S, in order.
At(q, S) ==
    [k \in 1..Cardinality(S) |->
        q[CHOOSE i \in S : Cardinality({j \in S : j <= i}) = k]]

\* Mutant: a limit takes the latest items.
TakenLatest(q, ids, max) ==
    {i \in DOMAIN q :
        /\ q[i].cb \in ids
        /\ \/ max = 0
           \/ Cardinality({j \in i..Len(q) : q[j].cb \in ids}) <= max}

\* take_pending_callbacks: which items a dispatch takes; the others keep
\* their order.  max = 0 is no limit.
TakenAt(q, ids, max) ==
    {i \in DOMAIN q :
        /\ q[i].cb \in ids
        /\ \/ max = 0
           \/ Cardinality({j \in 1..i : q[j].cb \in ids}) <= max}

\* Take from q, with s the frames below; an empty batch opens no scope.
DispatchFrom(s, q, ids, max) ==
    LET taken == TakenAt(q, ids, max)
    IN  /\ queue' = At(q, DOMAIN q \ taken)
        /\ IF taken = {} THEN stack' = s
           ELSE /\ Len(s) < MaxFrames
                /\ stack' = Append(s, Frame("dispatch", At(q, taken), NoItem))

\* lua_callbacks_enqueue, from any thread.
Post(cb, ev) ==
    /\ queue' = Append(queue, Item(cb, ev))
    /\ UNCHANGED <<next_id, registry, deferred, retired, stack, own, called>>

----------------------------------------------------------------------------
(* Steps of the main thread that belong to the registry alone.             *)

\* The loop of lua_callbacks_dispatch: the next item of the batch is skipped
\* if its callback is retired or gone, else called.
CallNext ==
    /\ Top.kind = "dispatch"
    /\ Top.rest # <<>>
    /\ LET item == Head(Top.rest)
           call == item.cb \in registry /\ item.cb \notin retired
       IN  /\ stack' = Append(Below, Frame("dispatch", Tail(Top.rest),
                                           IF call THEN item ELSE NoItem))
           /\ called' = IF call
                        THEN [called EXCEPT ![item.cb] =
                                 Append(@, [ev |-> item.ev, depth |-> Depth(stack)])]
                        ELSE called
    /\ UNCHANGED <<next_id, registry, deferred, retired, queue, own>>

\* Mutant: retired ids are not flushed.
EndDispatchKeepsRetired ==
    /\ Top.kind = "dispatch"
    /\ Top.rest = <<>>
    /\ stack' = Below
    /\ IF Depth(Below) = 0
       THEN registry' = registry \ deferred /\ deferred' = {}
       ELSE UNCHANGED <<registry, deferred>>
    /\ UNCHANGED <<next_id, retired, queue, own, called>>

\* ~DispatchScope: the outermost one carries out the noted unregistrations.
EndDispatch ==
    /\ Top.kind = "dispatch"
    /\ Top.rest = <<>>
    /\ stack' = Below
    /\ IF Depth(Below) = 0
       THEN /\ registry' = registry \ deferred
            /\ retired' = retired \ deferred
            /\ deferred' = {}
       ELSE UNCHANGED <<registry, retired, deferred>>
    /\ UNCHANGED <<next_id, queue, own, called>>

\* callbacks.register, .unregister, .enqueue and .dispatch, called by a script.
ScriptRegister ==
    /\ LuaRuns
    /\ Reregister({}, 1)
    /\ own' = own \cup {next_id}
    /\ UNCHANGED <<queue, stack, called>>

ScriptUnregister(cb) ==
    /\ LuaRuns
    /\ cb \in own
    /\ Unregister({cb})
    /\ UNCHANGED <<queue, stack, own, called>>

ScriptEnqueue(cb, ev) ==
    /\ LuaRuns
    /\ cb \in own
    /\ Post(cb, ev)

ScriptDispatch(max) ==
    /\ LuaRuns
    /\ DispatchFrom(stack, queue, Callbacks, max)
    /\ UNCHANGED <<next_id, registry, deferred, retired, own, called>>

\* lua_callbacks_shutdown, with the main thread out of every dispatch.
CallbacksShutdown ==
    /\ registry' = {}
    /\ deferred' = {}
    /\ retired' = {}
    /\ queue' = <<>>
    /\ UNCHANGED <<next_id, stack, own, called>>

----------------------------------------------------------------------------
(* Properties.                                                             *)

CbTypeOK ==
    /\ next_id \in 1..(MaxCallbacks + 1)
    /\ registry \subseteq 1..(next_id - 1)
    /\ deferred \subseteq 1..(next_id - 1)
    /\ retired \subseteq 1..(next_id - 1)
    /\ \A i \in DOMAIN queue : queue[i].cb \in 1..(next_id - 1)
    /\ \A i \in DOMAIN stack : stack[i].kind \in {"dispatch", "ssh", "close"}
    /\ Len(stack) <= MaxFrames
    /\ DOMAIN called = Callbacks

\* An unregister or a retire made within a dispatch takes effect when the
\* outermost dispatch ends, whichever way batches were nested: nothing noted
\* survives it (deferred_unregister_ids and retired_ids, flush of ~DispatchScope).
NothingNotedAtRest == Depth(stack) = 0 => deferred = {} /\ retired = {}

\* The items that are not handled yet: those of the batches under way, outermost
\* first, and of the queue.  A nested dispatch takes later events than the one
\* around it, the queue has the latest.
Batch(i) ==
    IF i > Len(stack) THEN queue
    ELSE IF stack[i].kind = "dispatch" THEN stack[i].rest ELSE <<>>

Posted == UNION {{<<i, k>> : k \in DOMAIN Batch(i)} : i \in 1..Len(stack) + 1}
ItemAt(p) == Batch(p[1])[p[2]]
Before(p, q) == p[1] < q[1] \/ (p[1] = q[1] /\ p[2] < q[2])

\* Where those of one callback are.
Waiting(cb) == {p \in Posted : ItemAt(p).cb = cb}

\* How many events of a kind wait for their callback or were handed to it.
Told(Kind(_)) ==
    Cardinality({p \in Posted : Kind(ItemAt(p).ev)})
    + Cardinality(UNION {{<<cb, k>> : k \in {k \in DOMAIN called[cb] :
                                               Kind(called[cb][k].ev)}}
                            : cb \in Callbacks})

\* A callback gets its events once each and in the order they were enqueued,
\* whatever limits and sets of ids the dispatches were given; one dispatched
\* from within a callback may overtake the batch around it, and nothing else
\* may (take_pending_callbacks, and the loops of the two dispatch functions).
ToldInOrder ==
    \A cb \in Callbacks :
        /\ \A p, q \in Waiting(cb) : Before(p, q) => ItemAt(p).ev.n < ItemAt(q).ev.n
        /\ \A k, l \in DOMAIN called[cb] :
              k < l => \/ called[cb][k].ev.n < called[cb][l].ev.n
                       \/ /\ called[cb][k].ev.n > called[cb][l].ev.n
                          /\ called[cb][k].depth > called[cb][l].depth
        /\ \A k \in DOMAIN called[cb], p \in Waiting(cb) :
              called[cb][k].ev.n # ItemAt(p).ev.n
=============================================================================
