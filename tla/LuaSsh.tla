------------------------------- MODULE LuaSsh --------------------------------
(***************************************************************************)
(* The ssh module of lua_ssh.cpp over the service as SshService specifies  *)
(* it: an operation's events come in a queue, its last one ends it.  Each  *)
(* frame hands every event to its operation's callback, one dispatch per   *)
(* event; ssh.poll returns whatever it finds.                              *)
(***************************************************************************)
EXTENDS LuaCallbacks

CONSTANTS
    MaxOps,             \* bound: operations started
    MaxEvents           \* bound: events of one operation

VARIABLES
    ssh_next,           \* the next operation id
    emitted,            \* how many events each operation has emitted
    ended,              \* operations that emitted their terminal event
    ssh_queue,          \* the service's events [op, n, last]
    callback_by_operation,
    buffered_events,    \* events that no callback wants
    ssh_polled,         \* history: events that ssh.poll returned
    op_callback         \* history: the callback each operation was given

lsVars == <<ssh_next, emitted, ended, ssh_queue, callback_by_operation,
            buffered_events, ssh_polled, op_callback>>

Ops == 1..MaxOps

LsInit ==
    /\ ssh_next = 1
    /\ emitted = [op \in Ops |-> 0]
    /\ ended = {}
    /\ ssh_queue = <<>>
    /\ callback_by_operation = <<>>
    /\ buffered_events = <<>>
    /\ ssh_polled = <<>>
    /\ op_callback = [op \in Ops |-> NoCallback]

SshEvent(e) == Event("ssh", e.op, IF e.last THEN "end" ELSE "event", e.n)

\* connect, exec, open-shell ...: remember_callback once the service has it.
SshStart(withCallback) ==
    /\ LuaRuns
    /\ ssh_next \in Ops
    /\ ssh_next' = ssh_next + 1
    /\ IF withCallback
       THEN /\ Reregister({}, 1)
            /\ callback_by_operation' =
                 [op \in DOMAIN callback_by_operation \cup {ssh_next} |->
                    IF op = ssh_next THEN next_id ELSE callback_by_operation[op]]
            /\ op_callback' = [op_callback EXCEPT ![ssh_next] = next_id]
       ELSE UNCHANGED <<next_id, registry, deferred, retired, callback_by_operation,
                        op_callback>>
    /\ UNCHANGED <<queue, stack, own, called, emitted, ended, ssh_queue, buffered_events,
                   ssh_polled>>

\* The service queues an event; one that is terminal is the operation's last.
SshEmit(op, last) ==
    /\ op < ssh_next
    /\ op \notin ended
    /\ emitted[op] < MaxEvents
    /\ last \/ emitted[op] < MaxEvents - 1
    /\ emitted' = [emitted EXCEPT ![op] = @ + 1]
    /\ ended' = IF last THEN ended \cup {op} ELSE ended
    /\ ssh_queue' = Append(ssh_queue, [op |-> op, n |-> emitted[op] + 1, last |-> last])
    /\ UNCHANGED <<cbVars, ssh_next, callback_by_operation, buffered_events, ssh_polled,
                   op_callback>>

\* lua_ssh_dispatch takes all events and goes through them in a loop.
SshDispatch ==
    /\ ssh_queue # <<>>
    /\ Len(stack) + 2 <= MaxFrames
    /\ stack' = Append(stack, Frame("ssh", ssh_queue, NoItem))
    /\ ssh_queue' = <<>>
    /\ UNCHANGED <<next_id, registry, deferred, retired, queue, own, called, ssh_next,
                   emitted, ended, callback_by_operation, buffered_events, ssh_polled,
                   op_callback>>

\* handle_polled_event up to its dispatch: the event is enqueued for its
\* operation's callback and one event of that callback is dispatched.
SshHandle ==
    /\ Top.kind = "ssh"
    /\ Top.cur = NoItem
    /\ Top.rest # <<>>
    /\ LET e == Head(Top.rest)
       IN  IF e.op \in DOMAIN callback_by_operation
           THEN LET cb == callback_by_operation[e.op]
                    item == Item(cb, SshEvent(e))
                IN  /\ DispatchFrom(Append(Below, Frame("ssh", Tail(Top.rest), item)),
                                    Append(queue, item), {cb}, 1)
                    /\ UNCHANGED buffered_events
           ELSE /\ buffered_events' = Append(buffered_events, e)
                /\ stack' = Append(Below, Frame("ssh", Tail(Top.rest), NoItem))
                /\ UNCHANGED queue
    /\ UNCHANGED <<next_id, registry, deferred, retired, own, called, ssh_next, emitted,
                   ended, ssh_queue, callback_by_operation, ssh_polled, op_callback>>

\* The rest of handle_polled_event: a terminal event takes the callback away.
SshHandled ==
    /\ Top.kind = "ssh"
    /\ Top.cur # NoItem
    /\ stack' = Append(Below, Frame("ssh", Top.rest, NoItem))
    /\ IF Top.cur.ev.what = "end"
       THEN /\ Unregister({Top.cur.cb})
            /\ callback_by_operation' =
                 [op \in DOMAIN callback_by_operation \ {Top.cur.ev.id} |->
                    callback_by_operation[op]]
       ELSE UNCHANGED <<next_id, registry, deferred, retired, callback_by_operation>>
    /\ UNCHANGED <<queue, own, called, ssh_next, emitted, ended, ssh_queue,
                   buffered_events, ssh_polled, op_callback>>

SshDispatched ==
    /\ Top.kind = "ssh"
    /\ Top.cur = NoItem
    /\ Top.rest = <<>>
    /\ stack' = Below
    /\ UNCHANGED <<next_id, registry, deferred, retired, queue, own, called, lsVars>>

\* ssh.poll(max): buffered events, then the service's, callbacks or not.
SshPollCall(max) ==
    LET fresh(n) == IF n = 0 \/ n > Len(ssh_queue) THEN Len(ssh_queue) ELSE n
        old == IF max = 0 \/ max > Len(buffered_events) THEN Len(buffered_events) ELSE max
        left == IF max = 0 THEN 0 ELSE max - old
        got == SubSeq(ssh_queue, 1, fresh(left))
        shown == IF max = 0 \/ left > 0 THEN Len(got) ELSE 0
    IN  /\ LuaRuns
        /\ ssh_queue' = SubSeq(ssh_queue, Len(got) + 1, Len(ssh_queue))
        /\ ssh_polled' = ssh_polled \o SubSeq(buffered_events, 1, old) \o SubSeq(got, 1, shown)
        /\ buffered_events' = SubSeq(buffered_events, old + 1, Len(buffered_events))
                                \o SubSeq(got, shown + 1, Len(got))
        /\ UNCHANGED <<cbVars, ssh_next, emitted, ended, callback_by_operation,
                       op_callback>>

\* lua_ssh_drop: the callbacks go, and the service with its queue.
SshDrop ==
    /\ callback_by_operation' = <<>>
    /\ buffered_events' = <<>>
    /\ ssh_queue' = <<>>

----------------------------------------------------------------------------
SshIn(events, op, n) ==
    Cardinality({i \in DOMAIN events : events[i].op = op /\ events[i].n = n})

\* An event of the service is in its queue, with a dispatch, buffered, on its
\* way to its callback, or was given to the callback or to poll, once.
SshToldOnce ==
    \A op \in Ops : \A n \in 1..emitted[op] :
        1 = SshIn(ssh_queue, op, n) + SshIn(buffered_events, op, n) + SshIn(ssh_polled, op, n)
            + Cardinality({i \in DOMAIN stack :
                /\ stack[i].kind = "ssh"
                /\ \E k \in DOMAIN stack[i].rest :
                     stack[i].rest[k].op = op /\ stack[i].rest[k].n = n})
            + Told(LAMBDA ev : ev.of = "ssh" /\ ev.id = op /\ ev.n = n)

\* With no dispatch going on, an operation's callback is registered exactly as
\* long as callback_by_operation has it: handle_polled_event takes both away,
\* however its own dispatches were nested.
SshCallbacksAgree ==
    stack = <<>> =>
        \A op \in Ops : op_callback[op] # NoCallback =>
            (op \in DOMAIN callback_by_operation <=> op_callback[op] \in registry)
=============================================================================
