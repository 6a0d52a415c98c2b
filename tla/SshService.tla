------------------------------ MODULE SshService ------------------------------
(***************************************************************************)
(* space::ssh::Service (src/src/ssh_service.cpp) over any backend.         *)
(*                                                                         *)
(* The main thread makes every API call.  Each operation gets a backend    *)
(* worker thread and, if it has a timeout, a watcher thread; a known-host  *)
(* decision adds a worker to an operation that is already running.  A      *)
(* backend is whatever emits events: a worker may emit any event of its    *)
(* own operation, any number of times, and return with or without having   *)
(* ended it; threads the backend keeps for a shell or a tunnel emit        *)
(* events that belong to no operation (operation id 0).  A backend names   *)
(* only ids it was given and announces each of them once.                  *)
(*                                                                         *)
(* Channels and tunnels are kept in twin tables that the code treats       *)
(* alike; a child is <<"channel", id>> or <<"tunnel", id>>.                *)
(***************************************************************************)
EXTENDS Integers, Sequences, FiniteSets

CONSTANTS
    MaxOps,       \* bound: operation ids given out
    MaxWorkers,   \* bound: backend workers of one operation
    MaxSessions,  \* bound: session ids the backend allocates
    ChildTypes,   \* "channel", "tunnel" or both
    MaxChildren,  \* bound: ids allocated for each type of child
    MaxNews,      \* bound: queued events that end no operation
    Outcomes,     \* the terminal kinds the backend itself emits
    Limits        \* the max_results arguments of poll; 0 is "all"

TerminalKinds ==
    {"OperationSuccess", "OperationError", "OperationTimeout", "OperationCancelled"}

ASSUME OpsAssumption == MaxOps \in Nat /\ MaxWorkers \in Nat \ {0}
ASSUME HandlesAssumption == MaxSessions \in Nat /\ MaxChildren \in Nat
ASSUME ChildTypesAssumption == ChildTypes \subseteq {"channel", "tunnel"}
ASSUME OutcomesAssumption == Outcomes \subseteq TerminalKinds
ASSUME PollAssumption == MaxNews \in Nat /\ Limits \subseteq Nat

OpIds == 1..MaxOps
SessionIds == 1..MaxSessions
Children == ChildTypes \X (1..MaxChildren)
NoChild == <<"none", 0>>

\* ExecStdout, ExecStderr, ExecComplete, SftpProgress, SftpComplete,
\* ChannelData and KnownHostChallenge only inform: they are "Info".
\* ShellOpened and TunnelOpened are "Opened", ChannelClosed and TunnelClosed
\* are "Closed".
EventKinds ==
    TerminalKinds \cup {"Info", "Connected", "SessionClosed", "Opened", "Closed"}

Events == [kind : EventKinds, op : 0..MaxOps, session : 0..MaxSessions,
           child : Children \cup {NoChild}]

HandleEvent(k, i, s, c) == [kind |-> k, op |-> i, session |-> s, child |-> c]
Event(k, i) == HandleEvent(k, i, 0, NoChild)

VARIABLES
    shutdown,     \* shutdown_
    nextOp,       \* next_operation_id_
    operations,   \* the keys of operations_
    cancelled,    \* operations whose token is cancelled
    sessions,     \* sessions_
    children,     \* channels_ and tunnels_
    owner,        \* channel_sessions_ and tunnel_sessions_, as pairs
    nextSession,  \* next_session_id_
    nextChild,    \* next_channel_id_ and next_tunnel_id_
    log,          \* history: every event ever queued, in order
    polled,       \* how many of them have left events_
    workers,      \* how many backend workers each operation has running
    watcher,      \* where each operation's watcher thread is
    timed,        \* history: operations started with a watcher
    mainPc,       \* where the main thread is in a call
    call          \* the operation it cancels, whether its request is timed

opVars == <<operations, cancelled>>
tableVars == <<sessions, children, owner>>
allocVars == <<nextSession, nextChild>>
eventVars == <<log, polled>>
threadVars == <<workers, watcher, timed>>
mainVars == <<mainPc, call>>
vars == <<shutdown, nextOp, opVars, tableVars, allocVars, eventVars, threadVars,
          mainVars>>

\* "known" and "unknown": it has asked whether its request's id is live.
MainPcs == {"idle", "known", "unknown", "cancelling", "shutting", "joining"}
WatcherPcs == {"none", "sleeping", "expired", "cancelling"}
NoCall == [op |-> 0, timed |-> FALSE]

Init ==
    /\ shutdown = FALSE
    /\ nextOp = 1
    /\ operations = {} /\ cancelled = {}
    /\ sessions = {} /\ children = {} /\ owner = {}
    /\ nextSession = 1
    /\ nextChild = [t \in ChildTypes |-> 1]
    /\ log = <<>> /\ polled = 0
    /\ workers = [i \in OpIds |-> 0]
    /\ watcher = [i \in OpIds |-> "none"]
    /\ timed = {}
    /\ mainPc = "idle" /\ call = NoCall

\* events_
Queued == SubSeq(log, polled + 1, Len(log))

-----------------------------------------------------------------------------
(* The critical sections under mutex_.                                     *)

\* Mutant: the check of shutdown_ is gone.
QueueEventAlways(e) == log' = Append(log, e)

\* queue_event_locked.
QueueEvent(e) == log' = IF shutdown THEN log ELSE Append(log, e)

\* Mutants: the entry stays; the token is not cancelled.
EndOperationsKeepsEntry(S) ==
    /\ operations' = operations
    /\ cancelled' = cancelled \cup S
EndOperationsSilently(S) ==
    /\ operations' = operations \ S
    /\ cancelled' = cancelled

\* The entry of S \subseteq operations goes and its token is cancelled.
EndOperations(S) ==
    /\ operations' = operations \ S
    /\ cancelled' = cancelled \cup S

\* Mutant: a closed session keeps its channels and tunnels.
NoteHandlesKeepsOwned(e) ==
    /\ sessions' =
          CASE e.kind = "Connected" /\ e.session # 0 -> sessions \cup {e.session}
            [] e.kind = "SessionClosed"              -> sessions \ {e.session}
            [] OTHER                                 -> sessions
    /\ children' =
          CASE e.kind = "Opened" /\ e.child # NoChild -> children \cup {e.child}
            [] e.kind = "Closed" -> children \ {e.child}
            [] OTHER             -> children
    /\ owner' = owner

\* note_handles_for_event_locked.
NoteHandles(e) ==
    /\ sessions' =
          CASE e.kind = "Connected" /\ e.session # 0 -> sessions \cup {e.session}
            [] e.kind = "SessionClosed"              -> sessions \ {e.session}
            [] OTHER                                 -> sessions
    /\ children' =
          CASE e.kind = "Opened" /\ e.child # NoChild -> children \cup {e.child}
            [] e.kind = "Closed"        -> children \ {e.child}
            [] e.kind = "SessionClosed" ->
                    {c \in children : <<c, e.session>> \notin owner}
            [] OTHER                    -> children
    /\ owner' =
          CASE e.kind = "Opened" /\ e.child # NoChild /\ e.session # 0 ->
                    {p \in owner : p[1] # e.child} \cup {<<e.child, e.session>>}
            [] e.kind = "Closed"        -> {p \in owner : p[1] # e.child}
            [] e.kind = "SessionClosed" -> {p \in owner : p[2] # e.session}
            [] OTHER                    -> owner

\* The event of an operation that is over is dropped, and every event once the
\* service is shut down.
Dropped(e) == shutdown \/ (e.op # 0 /\ e.op \notin operations)

News == {k \in 1..Len(log) : log[k].kind \notin TerminalKinds}

Emit(e) ==
    \/ /\ Dropped(e)
       /\ UNCHANGED <<opVars, tableVars, log>>
    \/ /\ ~Dropped(e)
       /\ e.kind \in TerminalKinds \/ Cardinality(News) < MaxNews
       /\ EndOperations(IF e.kind \in TerminalKinds THEN {e.op} \ {0} ELSE {})
       /\ NoteHandles(e)
       /\ QueueEvent(e)

\* finish_operation where it returns true: the caller then tells the backend.
Finishable(i) == ~shutdown /\ i \in operations
FinishOperation(i, kind) ==
    /\ EndOperations({i})
    /\ QueueEvent(Event(kind, i))

\* enqueue_error: an id whose only event is its error, and no operation.
EnqueueError ==
    \/ /\ shutdown
       /\ UNCHANGED <<nextOp, log>>
    \/ /\ ~shutdown
       /\ nextOp <= MaxOps
       /\ nextOp' = nextOp + 1
       /\ QueueEvent(Event("OperationError", nextOp))

\* Mutants: dispatch does not look at shutdown_; it forgets the watcher.
DispatchAlways(i, isTimed) ==
    /\ workers' = [workers EXCEPT ![i] = 1]
    /\ watcher' = [watcher EXCEPT ![i] = IF isTimed THEN "sleeping" ELSE "none"]
    /\ timed' = IF isTimed THEN timed \cup {i} ELSE timed
DispatchUnwatched(i, isTimed) ==
    \/ /\ shutdown
       /\ UNCHANGED threadVars
    \/ /\ ~shutdown
       /\ workers' = [workers EXCEPT ![i] = 1]
       /\ watcher' = watcher
       /\ timed' = IF isTimed THEN timed \cup {i} ELSE timed

\* dispatch: the threads of a new operation, unless the service is shut down.
Dispatch(i, isTimed) ==
    \/ /\ shutdown
       /\ UNCHANGED threadVars
    \/ /\ ~shutdown
       /\ workers' = [workers EXCEPT ![i] = 1]
       /\ watcher' = [watcher EXCEPT ![i] = IF isTimed THEN "sleeping" ELSE "none"]
       /\ timed' = IF isTimed THEN timed \cup {i} ELSE timed

\* start_operation, which does not look at shutdown_, then dispatch.  Nothing
\* can refer to the operation between the two.
StartOperation(isTimed) ==
    /\ nextOp <= MaxOps
    /\ nextOp' = nextOp + 1
    /\ operations' = operations \cup {nextOp}
    /\ Dispatch(nextOp, isTimed)

-----------------------------------------------------------------------------
(* The main thread.                                                        *)

Connect(isTimed) ==
    /\ mainPc = "idle"
    /\ StartOperation(isTimed)
    /\ UNCHANGED <<shutdown, cancelled, tableVars, allocVars, eventVars, mainVars>>

\* connect without a host: always an id, and its error if it can be queued.
ConnectMalformed ==
    /\ mainPc = "idle"
    /\ nextOp <= MaxOps
    /\ nextOp' = nextOp + 1
    /\ QueueEvent(Event("OperationError", nextOp))
    /\ UNCHANGED <<shutdown, opVars, tableVars, allocVars, polled, threadVars,
                   mainVars>>

\* Any other malformed request.
Malformed ==
    /\ mainPc = "idle"
    /\ EnqueueError
    /\ UNCHANGED <<shutdown, opVars, tableVars, allocVars, polled, threadVars,
                   mainVars>>

Check(known, isTimed) ==
    /\ mainPc = "idle"
    /\ shutdown \/ nextOp <= MaxOps
    /\ mainPc' = IF known THEN "known" ELSE "unknown"
    /\ call' = [op |-> 0, timed |-> isTimed]
    /\ UNCHANGED <<shutdown, nextOp, opVars, tableVars, allocVars, eventVars,
                   threadVars>>

\* close_session (never timed), exec, sftp_upload, sftp_download, open_shell,
\* open_local_tunnel, open_remote_tunnel: is_session_known.
CheckSession(s, isTimed) == Check(s \in sessions, isTimed)

\* channel_write, channel_resize, channel_close, close_tunnel: is_shutdown,
\* then is_channel_known or is_tunnel_known.
CheckChild(c, isTimed) == ~shutdown /\ Check(c \in children, isTimed)

\* The rest of those calls, in later critical sections.
Proceed ==
    /\ \/ /\ mainPc = "known"
          /\ StartOperation(call.timed)
          /\ UNCHANGED log
       \/ /\ mainPc = "unknown"
          /\ EnqueueError
          /\ UNCHANGED <<operations, threadVars>>
    /\ mainPc' = "idle" /\ call' = NoCall
    /\ UNCHANGED <<shutdown, cancelled, tableVars, allocVars, polled>>

\* resolve_known_host: one more worker for an operation that is not over.
ResolveKnownHost(i) ==
    /\ mainPc = "idle"
    /\ ~shutdown /\ i \in operations
    /\ workers[i] < MaxWorkers
    /\ workers' = [workers EXCEPT ![i] = @ + 1]
    /\ UNCHANGED <<shutdown, nextOp, opVars, tableVars, allocVars, eventVars,
                   watcher, timed, mainVars>>

\* cancel: finish_operation, which returns false for an operation that is over.
Cancel(i) ==
    /\ mainPc = "idle"
    /\ Finishable(i)
    /\ FinishOperation(i, "OperationCancelled")
    /\ mainPc' = "cancelling" /\ call' = [op |-> i, timed |-> FALSE]
    /\ UNCHANGED <<shutdown, nextOp, tableVars, allocVars, polled, threadVars>>

\* The backend's cancel_operation, outside the lock.
CancelTold ==
    /\ mainPc = "cancelling"
    /\ mainPc' = "idle" /\ call' = NoCall
    /\ UNCHANGED <<shutdown, nextOp, opVars, tableVars, allocVars, eventVars,
                   threadVars>>

\* Mutant: max is not clamped to the queue's length.
PolledUnclamped(max) == IF max = 0 THEN Len(Queued) ELSE max

\* The part of the queue that poll(max) returns.
Polled(max) ==
    IF max = 0 \/ max > Len(Queued) THEN Len(Queued) ELSE max

Poll(max) ==
    /\ mainPc = "idle"
    /\ polled' = polled + Polled(max)
    /\ UNCHANGED <<shutdown, nextOp, opVars, tableVars, allocVars, log,
                   threadVars, mainVars>>

\* shutdown, up to the unlock.
Shutdown ==
    /\ mainPc = "idle"
    /\ ~shutdown
    /\ shutdown' = TRUE
    /\ EndOperations(operations)
    /\ sessions' = {} /\ children' = {} /\ owner' = {}
    /\ polled' = Len(log)
    /\ mainPc' = "shutting"
    /\ UNCHANGED <<nextOp, allocVars, log, threadVars, call>>

\* Its calls of the backend's cancel_operation.
ShutdownTold ==
    /\ mainPc = "shutting"
    /\ mainPc' = "joining"
    /\ UNCHANGED <<shutdown, nextOp, opVars, tableVars, allocVars, eventVars,
                   threadVars, call>>

NoThreads == \A i \in OpIds : workers[i] = 0 /\ watcher[i] = "none"

ShutdownJoined ==
    /\ mainPc = "joining"
    /\ NoThreads
    /\ mainPc' = "idle"
    /\ UNCHANGED <<shutdown, nextOp, opVars, tableVars, allocVars, eventVars,
                   threadVars, call>>

Main ==
    \/ \E t \in BOOLEAN : Connect(t)
    \/ ConnectMalformed
    \/ Malformed
    \/ \E s \in SessionIds, t \in BOOLEAN : CheckSession(s, t)
    \/ \E c \in Children, t \in BOOLEAN : CheckChild(c, t)
    \/ Proceed
    \/ \E i \in OpIds : ResolveKnownHost(i) \/ Cancel(i)
    \/ CancelTold
    \/ \E max \in Limits : Poll(max)
    \/ Shutdown
    \/ ShutdownTold
    \/ ShutdownJoined

-----------------------------------------------------------------------------
(* An operation's watcher thread.                                          *)

WatcherSteps(i, from, to) ==
    /\ watcher[i] = from
    /\ watcher' = [watcher EXCEPT ![i] = to]
    /\ UNCHANGED <<shutdown, nextOp, tableVars, allocVars, polled, workers,
                   timed, mainVars>>

\* It sees the token cancelled.
WatcherQuits(i) ==
    /\ i \in cancelled
    /\ WatcherSteps(i, "sleeping", "none")
    /\ UNCHANGED <<opVars, log>>

\* It sees the deadline passed and the token not cancelled.
WatcherExpires(i) ==
    /\ i \notin cancelled
    /\ WatcherSteps(i, "sleeping", "expired")
    /\ UNCHANGED <<opVars, log>>

\* finish_operation.
WatcherFinishes(i) ==
    \/ /\ Finishable(i)
       /\ FinishOperation(i, "OperationTimeout")
       /\ WatcherSteps(i, "expired", "cancelling")
    \/ /\ ~Finishable(i)
       /\ WatcherSteps(i, "expired", "none")
       /\ UNCHANGED <<opVars, log>>

\* The backend's cancel_operation, outside the lock.
WatcherTold(i) ==
    /\ WatcherSteps(i, "cancelling", "none")
    /\ UNCHANGED <<opVars, log>>

Watcher(i) ==
    WatcherQuits(i) \/ WatcherExpires(i) \/ WatcherFinishes(i) \/ WatcherTold(i)

-----------------------------------------------------------------------------
(* The backend: an operation's workers, and its own threads.               *)

AllocatedSessions == 1..(nextSession - 1)
AllocatedChildren == {c \in Children : c[2] < nextChild[c[1]]}
Announced(kind, field, id) ==
    \E k \in 1..Len(log) : log[k].kind = kind /\ log[k][field] = id

\* What a thread may emit of the operation i, or of none if i = 0: news, the
\* end of the operation, the beginning and the end of a session, the beginning
\* of a channel or tunnel.
Informing(i) ==
    {Event("Info", i)}
    \cup {HandleEvent("Closed", i, 0, c) : c \in AllocatedChildren}
Ending(i) == {Event(k, i) : k \in Outcomes}
Connecting(i) ==
    {HandleEvent("Connected", i, s, NoChild) :
        s \in {s \in AllocatedSessions : ~Announced("Connected", "session", s)}}
Disconnecting(i) ==
    {HandleEvent("SessionClosed", i, s, NoChild) : s \in AllocatedSessions}
Opening(i) ==
    {HandleEvent("Opened", i, s, c) :
        s \in AllocatedSessions,
        c \in {c \in AllocatedChildren : ~Announced("Opened", "child", c)}}
Emittable(i) ==
    Informing(i) \cup Ending(i) \cup Connecting(i) \cup Disconnecting(i) \cup Opening(i)

WorkerEmits(i) ==
    /\ workers[i] > 0
    /\ \E e \in Emittable(i) : Emit(e)
    /\ UNCHANGED <<shutdown, nextOp, allocVars, polled, threadVars, mainVars>>

BackendEmits ==
    /\ \E e \in Informing(0) : Emit(e)
    /\ UNCHANGED <<shutdown, nextOp, allocVars, polled, threadVars, mainVars>>

\* allocate_session; after shutdown it returns 0 and changes nothing.
AllocateSession(i) ==
    /\ workers[i] > 0
    /\ ~shutdown
    /\ nextSession <= MaxSessions
    /\ nextSession' = nextSession + 1
    /\ UNCHANGED <<shutdown, nextOp, opVars, tableVars, nextChild, eventVars,
                   threadVars, mainVars>>

\* allocate_channel, allocate_tunnel.
AllocateChild(i, t) ==
    /\ workers[i] > 0
    /\ ~shutdown
    /\ nextChild[t] <= MaxChildren
    /\ nextChild' = [nextChild EXCEPT ![t] = @ + 1]
    /\ UNCHANGED <<shutdown, nextOp, opVars, tableVars, nextSession, eventVars,
                   threadVars, mainVars>>

WorkerGone(i) ==
    /\ workers[i] > 0
    /\ workers' = [workers EXCEPT ![i] = @ - 1]
    /\ UNCHANGED <<shutdown, nextOp, allocVars, polled, watcher, timed, mainVars>>

\* run_backend_work: the backend's call returns, or throws.
WorkerReturns(i) == WorkerGone(i) /\ UNCHANGED <<opVars, tableVars, log>>
WorkerThrows(i) == WorkerGone(i) /\ Emit(Event("OperationError", i))

Worker(i) ==
    \/ WorkerEmits(i)
    \/ AllocateSession(i)
    \/ \E t \in ChildTypes : AllocateChild(i, t)
    \/ WorkerReturns(i)
    \/ WorkerThrows(i)

Next == Main \/ (\E i \in OpIds : Watcher(i) \/ Worker(i)) \/ BackendEmits

Spec == Init /\ [][Next]_vars

\* Time passes, the scheduler runs every thread, a call the main thread has
\* begun goes on, and a backend call returns once its token is cancelled.
WorkerStops(i) == i \in cancelled /\ WorkerReturns(i)
Fairness ==
    /\ WF_vars(Proceed) /\ WF_vars(CancelTold)
    /\ WF_vars(ShutdownTold) /\ WF_vars(ShutdownJoined)
    /\ \A i \in OpIds : WF_vars(Watcher(i)) /\ WF_vars(WorkerStops(i))

FairSpec == Spec /\ Fairness
-----------------------------------------------------------------------------
(* Properties.                                                             *)

\* Every variable keeps its shape, and no more events leave the queue than
\* were put in it (poll, queue_event_locked).
TypeOK ==
    /\ shutdown \in BOOLEAN
    /\ nextOp \in 1..(MaxOps + 1)
    /\ operations \subseteq OpIds /\ cancelled \subseteq OpIds
    /\ sessions \subseteq SessionIds
    /\ children \subseteq Children
    /\ owner \subseteq Children \X SessionIds
    /\ nextSession \in 1..(MaxSessions + 1)
    /\ nextChild \in [ChildTypes -> 1..(MaxChildren + 1)]
    /\ log \in Seq(Events)
    /\ polled \in 0..Len(log)
    /\ workers \in [OpIds -> 0..MaxWorkers]
    /\ watcher \in [OpIds -> WatcherPcs]
    /\ timed \subseteq OpIds
    /\ mainPc \in MainPcs
    /\ call \in [op : 0..MaxOps, timed : BOOLEAN]

\* log[k] is the end of the operation i.
Ends(k, i) == log[k].op = i /\ log[k].kind \in TerminalKinds

\* However its worker, its watcher, cancel and a known-host decision race, an
\* operation is told the client to be over once, and nothing of it follows
\* (emit and finish_operation test and erase operations_ under one lock).
EndedOnce ==
    \A i \in OpIds : \A k, m \in 1..Len(log) :
        Ends(k, i) /\ log[m].op = i => m <= k

\* Until shutdown, an operation whose id was given out is either waited for or
\* was ended by an event: no id is forgotten (start_operation, enqueue_error,
\* emit, finish_operation).
Accounted ==
    ~shutdown => \A i \in 1..(nextOp - 1) :
        i \in operations <=> ~\E k \in 1..Len(log) : Ends(k, i)

\* An id that was given out gets one end, and none is forgotten.
OneEndEach == EndedOnce /\ Accounted

\* The threads of an operation can see whether it is over: its token is
\* cancelled exactly when its entry is gone, whoever ended it.
TokensFollow ==
    \A i \in OpIds : workers[i] > 0 \/ watcher[i] # "none" =>
        (i \in operations <=> i \notin cancelled)

\* By the events put in the queue, the session is up; the channel or tunnel is
\* open and its session was not closed since.
SessionUp(s) ==
    \E k \in 1..Len(log) :
        /\ log[k].kind = "Connected" /\ log[k].session = s
        /\ \A m \in k + 1 .. Len(log) :
              ~(log[m].kind = "SessionClosed" /\ log[m].session = s)
ChildUp(c) ==
    \E k \in 1..Len(log) :
        /\ log[k].kind = "Opened" /\ log[k].child = c
        /\ \A m \in k + 1 .. Len(log) :
              /\ ~(log[m].kind = "Closed" /\ log[m].child = c)
              /\ ~(log[m].kind = "SessionClosed" /\ log[m].session = log[k].session)

\* The ids the service accepts are those a client that reads the events in
\* order believes live: no dropped event touches the tables and no queued
\* event misses them (emit, note_handles_for_event_locked).
HandlesFollowEvents ==
    ~shutdown => /\ sessions = {s \in SessionIds : SessionUp(s)}
                 /\ children = {c \in Children : ChildUp(c)}

\* Once shut down the service accepts no id and holds no event, whatever its
\* threads and later calls do (shutdown, emit, queue_event_locked).
ShutdownIsFinal ==
    shutdown => sessions = {} /\ children = {} /\ owner = {} /\ Queued = <<>>

\* When shutdown has returned no thread of the service runs, and none is
\* started later (shutdown joins workers_; dispatch and
\* dispatch_existing_operation look at shutdown_).
ShutdownLeavesNoThread ==
    shutdown /\ mainPc \notin {"shutting", "joining"} => NoThreads

\* Nothing of the service is left, and nothing comes back.
ShutdownIsClean == ShutdownIsFinal /\ ShutdownLeavesNoThread

\* An operation with a timeout does not last forever (the watcher thread of
\* dispatch), even if the backend never ends it.
TimedOperationEnds ==
    \A i \in OpIds : i \in timed /\ i \in operations ~> i \notin operations

\* shutdown returns if backend calls return once their token is cancelled.
ShutdownReturns == mainPc = "shutting" ~> mainPc = "idle"
=============================================================================
