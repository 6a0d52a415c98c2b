------------------------------ MODULE LuaProcess ------------------------------
(***************************************************************************)
(* The process module of lua_process.cpp: a table of children that only    *)
(* the main thread looks at, when a script asks or a frame dispatches.  A  *)
(* child exits by itself and stays a zombie until poll_process reaps it,   *)
(* and a timeout is noticed only there.  A pid is the child's from spawn   *)
(* until it is reaped.                                                     *)
(***************************************************************************)
EXTENDS LuaCallbacks

CONSTANT MaxProcesses       \* bound: children spawned

ASSUME ProcessBound == MaxProcesses \in Nat

VARIABLES
    proc_next,              \* the next process id
    child,                  \* of each child: none, running, exited or reaped
    processes,              \* the table: id -> [cb, timed, finished]
    proc_callback,          \* history: the callback each child was given
    proc_given              \* history: how often poll or wait returned its result

lpVars == <<proc_next, child, processes, proc_callback, proc_given>>

Processes == 1..MaxProcesses

LpInit ==
    /\ proc_next = 1
    /\ child = [id \in Processes |-> "none"]
    /\ processes = <<>>
    /\ proc_callback = [id \in Processes |-> NoCallback]
    /\ proc_given = [id \in Processes |-> 0]

\* spawn, whose entry is in the table before a script can name it.
ProcessSpawn(withCallback, timed) ==
    /\ LuaRuns
    /\ proc_next \in Processes
    /\ proc_next' = proc_next + 1
    /\ child' = [child EXCEPT ![proc_next] = "running"]
    /\ Reregister({}, IF withCallback THEN 1 ELSE 0)
    /\ LET cb == IF withCallback THEN next_id ELSE NoCallback
       IN  /\ processes' =
                [id \in DOMAIN processes \cup {proc_next} |->
                    IF id = proc_next THEN [cb |-> cb, timed |-> timed, finished |-> FALSE]
                    ELSE processes[id]]
           /\ proc_callback' = [proc_callback EXCEPT ![proc_next] = cb]
    /\ UNCHANGED <<queue, stack, own, called, proc_given>>

\* A child ends by itself, or of a signal that process.kill sent it.
ChildExit(id) ==
    /\ child[id] = "running"
    /\ child' = [child EXCEPT ![id] = "exited"]
    /\ UNCHANGED <<cbVars, proc_next, processes, proc_callback, proc_given>>

\* poll_process of the entries in S: one whose child has exited is reaped and
\* finished; one that is past its timeout is killed and reaped at once.  late
\* are the children whose time is up.
Ends(S, late) ==
    {id \in S : /\ ~processes[id].finished
                /\ \/ child[id] = "exited"
                   \/ child[id] = "running" /\ id \in late /\ processes[id].timed}

Reap(S, late) ==
    child' = [id \in Processes |-> IF id \in Ends(S, late) THEN "reaped" ELSE child[id]]

Give(ids) ==
    proc_given' = [id \in Processes |-> proc_given[id] + IF id \in ids THEN 1 ELSE 0]

FinishedBy(S, late) ==
    {id \in DOMAIN processes : processes[id].finished \/ id \in Ends(S, late)}

\* What stays of the table when the entries in gone are erased.
Remaining(S, late, gone) ==
    [id \in DOMAIN processes \ gone |->
        [processes[id] EXCEPT !.finished = id \in FinishedBy(S, late)]]

\* read: the entry of a child that has ended stays.
ProcessRead(id, late) ==
    /\ LuaRuns
    /\ id \in DOMAIN processes
    /\ Reap({id}, late)
    /\ processes' = Remaining({id}, late, {})
    /\ UNCHANGED <<cbVars, proc_next, proc_callback, proc_given>>

\* poll(max) erases finished entries in the order of the table, a hash map's,
\* and returns those that have no callback; it stops once it has max of them.
ProcessPollCall(max, late, gone) ==
    LET all == DOMAIN processes
        done == FinishedBy(all, late)
        returned == {id \in gone : processes[id].cb = NoCallback}
        more == {id \in done \ gone : processes[id].cb = NoCallback}
    IN  /\ LuaRuns
        /\ gone \subseteq done
        /\ IF max = 0 THEN gone = done
           ELSE /\ Cardinality(returned) <= max
                /\ Cardinality(returned) < max => gone = done
                /\ returned = {} => more = {}
        /\ Reap(all, late)
        /\ processes' = Remaining(all, late, gone)
        /\ Give(returned)
        /\ UNCHANGED <<cbVars, proc_next, proc_callback>>

\* wait returns when the child has ended; a callback is dropped with its entry.
ProcessWait(id, late) ==
    /\ LuaRuns
    /\ id \in DOMAIN processes
    /\ id \in FinishedBy({id}, late)
    /\ Reap({id}, late)
    /\ processes' = Remaining({id}, late, {id})
    /\ Unregister({processes[id].cb} \ {NoCallback})
    /\ Give({id})
    /\ UNCHANGED <<queue, stack, own, called, proc_next, proc_callback>>

\* lua_process_dispatch: the results of finished children that have a callback
\* are enqueued for it, in the order of the table; the others wait for poll.
ProcessDispatch(late, order) ==
    LET all == DOMAIN processes
        told == {id \in FinishedBy(all, late) : processes[id].cb # NoCallback}
    IN  /\ {order[k] : k \in DOMAIN order} = told
        /\ Len(order) = Cardinality(told)
        /\ Reap(all, late)
        /\ processes' = Remaining(all, late, told)
        /\ queue' = queue \o [k \in DOMAIN order |->
                        Item(processes[order[k]].cb, Event("process", order[k], "result", 0))]
        /\ UNCHANGED <<next_id, registry, deferred, retired, stack, own, called,
                       proc_next, proc_callback, proc_given>>

\* lua_process_drop: what runs is killed and reaped.
ProcessDrop ==
    /\ child' = [id \in Processes |->
            IF id \in DOMAIN processes THEN "reaped" ELSE child[id]]
    /\ processes' = <<>>

----------------------------------------------------------------------------
\* A child is reaped exactly when its entry says so or is gone: none is left a
\* zombie that nobody asks for, none is waited for twice, and process.kill,
\* which trusts the entry, never signals a pid that may be another's by now
\* (finished, over read, poll, wait, dispatch and drop).
ReapedOnce ==
    \A id \in 1..(proc_next - 1) :
        child[id] = "reaped" <=> \/ id \notin DOMAIN processes
                                 \/ processes[id].finished

\* Where the result of a child is: in the table, on its way to its callback, or
\* with a script.
ResultPlaces(id) ==
    Cardinality({id} \cap DOMAIN processes) + proc_given[id]
    + Told(LAMBDA ev : ev.of = "process" /\ ev.id = id)

\* No result is given out twice, and that of a child without a callback is never
\* lost (poll, wait and dispatch each erase what they give out; poll erases the
\* children that have a callback too, CallbackIsTold).
ProcessAnsweredOnce ==
    \A id \in 1..(proc_next - 1) :
        /\ ResultPlaces(id) <= 1
        /\ proc_callback[id] = NoCallback => ResultPlaces(id) = 1

\* docs/dev/notes/process.md:147 says of process.poll that "Processes spawned with
\* callbacks are not included in poll results; they are dispatched through the
\* callback system instead", and :55 that a callback "will be invoked [...] when the
\* process completes": their results are not lost either.
CallbackIsTold ==
    \A id \in 1..(proc_next - 1) :
        proc_callback[id] # NoCallback => ResultPlaces(id) = 1
=============================================================================
