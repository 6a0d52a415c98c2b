------------------------------ MODULE SshLibssh ------------------------------
(***************************************************************************)
(* The SSH service over its real backend, LibsshBackend                    *)
(* (src/src/ssh_backend_libssh.cpp): SshService's state and critical       *)
(* sections with a program for each backend call in place of the           *)
(* arbitrary backend, the backend's own tables, and the threads it keeps   *)
(* for open shells and tunnels (read_shell_channel, accept_local_tunnel).  *)
(*                                                                         *)
(* A step is one critical section of the backend's mutex_, one call of     *)
(* the service, or one answer of libssh, which is any answer.  A section   *)
(* about an id no other thread can know yet is merged with the allocation  *)
(* of that id.  exec stands for exec, sftp_upload and sftp_download: they  *)
(* touch no table.  Calls that never reach the backend (malformed          *)
(* requests, poll) are SshService's; they are left out here.               *)
(***************************************************************************)
EXTENDS Integers, Sequences, FiniteSets

CONSTANTS
    MaxOps, MaxWorkers, MaxSessions, ChildTypes, MaxChildren, MaxNews,
    Outcomes, Limits,    \* as in SshService
    Clients,             \* bound: how many calls of each sort a client makes, and
                         \* whether it gives them a timeout
    MaxData              \* bound: output and progress events

Sorts == {"connect", "resolve", "close_session", "exec", "open", "write", "resize",
          "close", "cancel", "shutdown"}

ASSUME ClientsAssumption == Clients \subseteq [calls : [Sorts -> Nat], timed : BOOLEAN]
ASSUME DataAssumption == MaxData \in Nat

VARIABLES
    shutdown, nextOp, operations, cancelled, sessions, children, owner,
    nextSession, nextChild, log, polled, workers, watcher, timed, mainPc, call,
    client,       \* the client and the calls it has made
    request,      \* the backend call the main thread is about to dispatch
    work,         \* where each backend worker is, and its arguments
    bSessions,    \* the backend's sessions_
    bChildren,    \* its channels_ and tunnels_
    bOwner,       \* its session_channels_ and session_tunnels_, as pairs
    pending,      \* its pending_: operations with an unanswered challenge
    reader,       \* where the thread of each channel or tunnel is
    stopped,      \* channels and tunnels told to stop
    teardown      \* where ~LibsshBackend is, and the threads it joins

S == INSTANCE SshService

\* The bounds of the service; the backend ends operations in all four ways.
ASSUME BackendAssumption ==
    /\ MaxOps \in Nat /\ MaxWorkers \in Nat \ {0}
    /\ MaxSessions \in Nat /\ MaxChildren \in Nat
    /\ ChildTypes \subseteq {"channel", "tunnel"}
    /\ Outcomes = S!TerminalKinds /\ Limits \subseteq Nat

allocVars == <<nextSession, nextChild>>
threadVars == <<workers, watcher, timed>>
mainVars == <<mainPc, call>>
serviceVars == <<shutdown, nextOp, operations, cancelled, sessions, children, owner,
                 allocVars, log, polled, threadVars, mainVars>>
tableVars == <<bSessions, bChildren, bOwner, pending>>
readerVars == <<reader, stopped>>
backendVars == <<request, work, tableVars, readerVars, teardown>>
vars == <<serviceVars, client, backendVars>>

Threads == S!OpIds \X (1..MaxWorkers)

\* An id allocated after shutdown is 0.
Handles == ChildTypes \X (0..MaxChildren)

Closing == {"take", "drop", "join", "gone"}
WorkPcs == {"none", "connect", "verify", "record", "challenge", "resolve", "decide",
            "auth", "register", "exec", "run", "complete", "open", "allocate", "start",
            "announce", "write", "writing", "resize", "resizing", "succeed", "done"}
           \cup Closing

Job(pc, s, c) == [pc |-> pc, session |-> s, child |-> c, taken |-> {}]
NoJob == Job("none", 0, S!NoChild)

Init ==
    /\ S!Init
    /\ \E c \in Clients :
          client = [calls |-> c.calls, timed |-> c.timed, made |-> [t \in Sorts |-> 0]]
    /\ request = NoJob
    /\ work = [w \in Threads |-> NoJob]
    /\ bSessions = {} /\ bChildren = {} /\ bOwner = {} /\ pending = {}
    /\ reader = [c \in Handles |-> "none"]
    /\ stopped = {}
    /\ teardown = [pc |-> "no", taken |-> {}]

-----------------------------------------------------------------------------
(* Calls of the service by a backend thread.                               *)

At(w, pc) == work[w].pc = pc
Goto(w, pc) == work' = [work EXCEPT ![w].pc = pc]

\* OperationSink::emit.
Emit(e) ==
    /\ S!Emit(e)
    /\ UNCHANGED <<shutdown, nextOp, allocVars, polled, threadVars, mainVars,
                   client, request, teardown>>

Tell(w, e, pc) == Emit(e) /\ Goto(w, pc) /\ UNCHANGED <<tableVars, readerVars>>

Error(w) == S!Event("OperationError", w[1])

\* A step that does not concern the service.
Privately == UNCHANGED <<serviceVars, client, request, teardown>>

\* check_active where it returns true: a deadline its watcher has seen is past.
Active(w) == w[1] \notin cancelled /\ watcher[w[1]] # "expired"

\* From pc to next, after check_active.
Passes(w, pc, next) ==
    /\ At(w, pc) /\ Active(w) /\ Goto(w, next)
    /\ Privately /\ UNCHANGED <<tableVars, readerVars>>

\* libssh, the remote end or the local system fails, or the client rejects the host.
Fails(w) ==
    /\ work[w].pc \in {"connect", "verify", "decide", "auth", "open", "run",
                       "writing", "resizing"}
    /\ Tell(w, Error(w), "done")

\* check_active where it returns false.
Stops(w) ==
    /\ work[w].pc \in {"connect", "verify", "decide", "auth", "run", "writing"}
    /\ \/ w[1] \in timed /\ Tell(w, S!Event("OperationTimeout", w[1]), "done")
       \/ w[1] \in cancelled /\ Tell(w, S!Event("OperationCancelled", w[1]), "done")

Succeeds(w) ==
    At(w, "succeed") /\ Tell(w, S!Event("OperationSuccess", w[1]), "done")

Returns(w) ==
    /\ At(w, "done")
    /\ work' = [work EXCEPT ![w] = NoJob]
    /\ S!WorkerReturns(w[1])
    /\ UNCHANGED <<client, request, tableVars, readerVars, teardown>>

-----------------------------------------------------------------------------
(* connect, and what resolve_known_host continues.                         *)

Connects(w) == Passes(w, "connect", "verify")

\* check_known_host: the key is known or the policy takes it, or it asks.
Verifies(w) == Passes(w, "verify", "auth") \/ Passes(w, "verify", "record")

\* The challenge is recorded whether or not the operation is over by now.
Records(w) ==
    /\ At(w, "record") /\ Goto(w, "challenge")
    /\ pending' = pending \cup {w[1]}
    /\ Privately /\ UNCHANGED <<bSessions, bChildren, bOwner, readerVars>>

Challenges(w) == At(w, "challenge") /\ Tell(w, S!Event("Info", w[1]), "done")

\* Mutant: the challenge stays.
ResolvesAgain(w) ==
    /\ At(w, "resolve")
    /\ \/ /\ w[1] \notin pending
          /\ Tell(w, Error(w), "done")
       \/ /\ w[1] \in pending
          /\ Goto(w, "decide")
          /\ Privately /\ UNCHANGED <<tableVars, readerVars>>

\* resolve_known_host takes the challenge; without one, it ends the operation.
Resolves(w) ==
    /\ At(w, "resolve")
    /\ \/ /\ w[1] \notin pending
          /\ Tell(w, Error(w), "done")
       \/ /\ w[1] \in pending
          /\ pending' = pending \ {w[1]}
          /\ Goto(w, "decide")
          /\ Privately /\ UNCHANGED <<bSessions, bChildren, bOwner, readerVars>>

\* The decision is not to reject.
Decides(w) ==
    /\ At(w, "decide") /\ Goto(w, "auth")
    /\ Privately /\ UNCHANGED <<tableVars, readerVars>>

Authenticates(w) == Passes(w, "auth", "register")

\* The session gets its id and enters sessions_.
Registers(w) ==
    /\ At(w, "register")
    /\ \/ S!AllocateSession(w[1])
       \/ shutdown /\ UNCHANGED serviceVars
    /\ LET s == IF shutdown THEN 0 ELSE nextSession
       IN  /\ bSessions' = bSessions \cup {s}
           /\ work' = [work EXCEPT ![w].pc = "announce", ![w].session = s]
    /\ UNCHANGED <<client, request, bChildren, bOwner, pending, readerVars, teardown>>

\* Connected, ShellOpened or TunnelOpened.
Announces(w) ==
    LET j == work[w]
        kind == IF j.child = S!NoChild THEN "Connected" ELSE "Opened"
    IN  At(w, "announce")
        /\ Tell(w, S!HandleEvent(kind, w[1], j.session, j.child), "succeed")

Connecting(w) ==
    \/ Connects(w) \/ Verifies(w) \/ Records(w) \/ Challenges(w) \/ Resolves(w)
    \/ Decides(w) \/ Authenticates(w) \/ Registers(w) \/ Announces(w)

-----------------------------------------------------------------------------
(* exec and transfers, shells and tunnels, writes.                         *)

\* Mutant: the call returns and says nothing.
LooksUpSilently(w, pc, known, next) ==
    /\ At(w, pc) /\ Goto(w, IF known THEN next ELSE "done")
    /\ Privately /\ UNCHANGED <<tableVars, readerVars>>

\* The id is looked up; an unknown one ends the operation.
LooksUp(w, pc, known, next) ==
    /\ At(w, pc)
    /\ \/ ~known /\ Tell(w, Error(w), "done")
       \/ known /\ Goto(w, next) /\ Privately /\ UNCHANGED <<tableVars, readerVars>>

DataSent == Cardinality({k \in 1..Len(log) : log[k].kind = "Info"})

Streams(w) ==
    /\ At(w, "run") /\ Active(w) /\ DataSent < MaxData
    /\ Tell(w, S!Event("Info", w[1]), "run")

Completes(w) == At(w, "complete") /\ Tell(w, S!Event("Info", w[1]), "succeed")

Running(w) ==
    \/ LooksUp(w, "exec", work[w].session \in bSessions, "run")
    \/ Streams(w)
    \/ Passes(w, "run", "complete")
    \/ Completes(w)

\* Mutant: the id is not the service's.
AllocatesOwnId(w) ==
    LET s == work[w].session
        c == <<work[w].child[1], 1>>
    IN  /\ At(w, "allocate")
        /\ bChildren' = bChildren \cup {c}
        /\ bOwner' = bOwner \cup {<<c, s>>}
        /\ work' = [work EXCEPT ![w].pc = "start", ![w].child = c]
        /\ Privately /\ UNCHANGED <<bSessions, pending, readerVars>>

\* The channel or tunnel gets its id and enters the tables, under its session
\* whether or not that session is still there.
Allocates(w) ==
    LET s == work[w].session
        t == work[w].child[1]
    IN  /\ At(w, "allocate")
        /\ \/ S!AllocateChild(w[1], t)
           \/ /\ shutdown /\ UNCHANGED serviceVars
              /\ <<t, 0>> \notin bChildren   \* bound: one child without an id
        /\ LET c == <<t, IF shutdown THEN 0 ELSE nextChild[t]>>
           IN  /\ bChildren' = bChildren \cup {c}
               /\ bOwner' = bOwner \cup {<<c, s>>}
               /\ work' = [work EXCEPT ![w].pc = "start", ![w].child = c]
        /\ UNCHANGED <<client, request, bSessions, pending, readerVars, teardown>>

\* Its thread is started before its opening is announced.
Starts(w) ==
    /\ At(w, "start") /\ Goto(w, "announce")
    /\ reader' = [reader EXCEPT ![work[w].child] = "running"]
    /\ Privately /\ UNCHANGED <<tableVars, stopped>>

Opening(w) ==
    \/ LooksUp(w, "open", work[w].session \in bSessions, "allocate")
    \/ Allocates(w)
    \/ Starts(w)

\* channel_write checks its token as it writes, channel_resize does not.
Writing(w) ==
    \/ LooksUp(w, "write", work[w].child \in bChildren, "writing")
    \/ LooksUp(w, "resize", work[w].child \in bChildren, "resizing")
    \/ Passes(w, "writing", "succeed")
    \/ /\ At(w, "resizing") /\ Goto(w, "succeed")
       /\ Privately /\ UNCHANGED <<tableVars, readerVars>>

-----------------------------------------------------------------------------
(* close_session, channel_close, close_tunnel.                             *)

\* Mutant: the table keeps the channel.
ForgetOwnerOnly(C) ==
    /\ bChildren' = bChildren
    /\ bOwner' = {p \in bOwner : p[1] \notin C}

\* Channels and tunnels leave the tables.
Forget(C) ==
    /\ bChildren' = bChildren \ C
    /\ bOwner' = {p \in bOwner : p[1] \notin C}

\* What close_session takes out of the tables: the children of s.
Owned(s) == {c \in bChildren : <<c, s>> \in bOwner}

\* Mutant: sessions_ keeps the session.
TakesChildrenOnly(w) ==
    /\ At(w, "take")
    /\ LET C == Owned(work[w].session)
       IN  /\ Forget(C)
           /\ stopped' = stopped \cup C
           /\ work' = [work EXCEPT ![w].pc = "join", ![w].taken = C]
    /\ Privately /\ UNCHANGED <<bSessions, pending, reader>>

\* Mutant: the threads of the children are not told to stop.
TakesSessionUnstopped(w) ==
    /\ At(w, "take")
    /\ bSessions' = bSessions \ {work[w].session}
    /\ LET C == Owned(work[w].session)
       IN  /\ Forget(C)
           /\ work' = [work EXCEPT ![w].pc = "join", ![w].taken = C]
    /\ Privately /\ UNCHANGED <<pending, readerVars>>

\* close_session's section under mutex_, and its stops.
TakesSession(w) ==
    /\ At(w, "take")
    /\ bSessions' = bSessions \ {work[w].session}
    /\ LET C == Owned(work[w].session)
       IN  /\ Forget(C)
           /\ stopped' = stopped \cup C
           /\ work' = [work EXCEPT ![w].pc = "join", ![w].taken = C]
    /\ Privately /\ UNCHANGED <<pending, reader>>

\* Those of channel_close and close_tunnel.
TakesChild(w) ==
    LET c == work[w].child
    IN  /\ At(w, "drop")
        /\ \/ /\ c \notin bChildren
              /\ Tell(w, Error(w), "done")
           \/ /\ c \in bChildren
              /\ Forget({c})
              /\ stopped' = stopped \cup {c}
              /\ work' = [work EXCEPT ![w].pc = "join", ![w].taken = {c}]
              /\ Privately /\ UNCHANGED <<bSessions, pending, reader>>

\* A thread object is stored by the call that opens the child, after the
\* thread is started; joining it earlier is joining nothing.
Joinable(c) ==
    ~\E w \in Threads : work[w].child = c /\ work[w].pc \in {"start", "announce"}

\* Mutant: nobody waits.
JoinedAtOnce(C) == C \subseteq Handles

Joined(C) == \A c \in C : Joinable(c) => reader[c] = "over"

Joins(w) ==
    /\ At(w, "join") /\ Joined(work[w].taken)
    /\ work' = [work EXCEPT ![w].pc = "gone", ![w].taken = {}]
    /\ Privately /\ UNCHANGED <<tableVars, readerVars>>

\* SessionClosed, ChannelClosed or TunnelClosed.
TellsGone(w) ==
    LET j == work[w]
        e == IF j.child = S!NoChild
             THEN S!HandleEvent("SessionClosed", w[1], j.session, S!NoChild)
             ELSE S!HandleEvent("Closed", w[1], 0, j.child)
    IN  At(w, "gone") /\ Tell(w, e, "succeed")

Ending(w) == TakesSession(w) \/ TakesChild(w) \/ Joins(w) \/ TellsGone(w)

\* What a worker does by itself; the rest depends on libssh's answers.
Worker(w) ==
    \/ Fails(w) \/ Stops(w) \/ Succeeds(w) \/ Returns(w)
    \/ Connecting(w) \/ Running(w) \/ Opening(w) \/ Writing(w) \/ Ending(w)

-----------------------------------------------------------------------------
(* The thread of a channel or a tunnel.                                    *)

\* Output of a shell.
ReaderTells(c) ==
    /\ reader[c] = "running" /\ c[1] = "channel" /\ DataSent < MaxData
    /\ Emit(S!Event("Info", 0))
    /\ UNCHANGED <<work, tableVars, readerVars>>

ReaderGoes(c, from, to) ==
    /\ reader[c] = from
    /\ reader' = [reader EXCEPT ![c] = to]
    /\ UNCHANGED <<work, stopped>>

\* It sees that it was told to stop.
ReaderQuits(c) ==
    /\ c \in stopped
    /\ ReaderGoes(c, "running", "over")
    /\ Privately /\ UNCHANGED tableVars

\* The other end is gone: it takes its channel or tunnel out of the tables,
\* unless somebody else did.
ReaderEnds(c) ==
    /\ ReaderGoes(c, "running", IF c \in bChildren THEN "closing" ELSE "over")
    /\ Forget({c})
    /\ Privately /\ UNCHANGED <<bSessions, pending>>

ReaderTellsClosed(c) ==
    /\ ReaderGoes(c, "closing", "over")
    /\ Emit(S!HandleEvent("Closed", 0, 0, c))
    /\ UNCHANGED tableVars

Reader(c) == ReaderTells(c) \/ ReaderQuits(c) \/ ReaderEnds(c) \/ ReaderTellsClosed(c)

-----------------------------------------------------------------------------
(* The main thread and the watchers.                                       *)

\* Mutant: dispatch does not look at shutdown_.
BeginAlways(i, job) == work' = [work EXCEPT ![<<i, 1>>] = job]

\* The worker that runs the request on the operation just started, if any is.
Begin(i, job) ==
    work' = IF shutdown THEN work ELSE [work EXCEPT ![<<i, 1>>] = job]

Calls(sort) ==
    /\ client.made[sort] < client.calls[sort]
    /\ client' = [client EXCEPT !.made[sort] = @ + 1]


Connect(t) ==
    /\ Calls("connect")
    /\ S!Connect(t)
    /\ Begin(nextOp, Job("connect", 0, S!NoChild))
    /\ UNCHANGED <<request, tableVars, readerVars, teardown>>

\* The first half of a call on a session, channel or tunnel.
Requests(job) ==
    /\ request' = job
    /\ UNCHANGED <<work, tableVars, readerVars, teardown>>

CloseSession(s) ==
    /\ Calls("close_session")
    /\ S!CheckSession(s, FALSE) /\ Requests(Job("take", s, S!NoChild))

Exec(s, t) ==
    /\ Calls("exec")
    /\ S!CheckSession(s, t) /\ Requests(Job("exec", s, S!NoChild))

\* open_shell, open_local_tunnel, open_remote_tunnel (which always fails).
Open(s, type, t) ==
    /\ Calls("open")
    /\ S!CheckSession(s, t) /\ Requests(Job("open", s, <<type, 0>>))

Write(c, t) ==
    /\ Calls("write") /\ c[1] = "channel"
    /\ S!CheckChild(c, t) /\ Requests(Job("write", 0, c))

Resize(c) ==
    /\ Calls("resize") /\ c[1] = "channel"
    /\ S!CheckChild(c, FALSE) /\ Requests(Job("resize", 0, c))

CloseChild(c) ==
    /\ Calls("close")
    /\ S!CheckChild(c, FALSE) /\ Requests(Job("drop", 0, c))

Proceed ==
    /\ S!Proceed
    /\ IF mainPc = "known" THEN Begin(nextOp, request) ELSE work' = work
    /\ request' = NoJob
    /\ UNCHANGED <<client, tableVars, readerVars, teardown>>

ResolveKnownHost(i) ==
    /\ Calls("resolve")
    /\ S!ResolveKnownHost(i)
    /\ \E n \in 2..MaxWorkers :
          /\ At(<<i, n>>, "none")
          /\ \A m \in 2 .. n - 1 : ~At(<<i, m>>, "none")
          /\ work' = [work EXCEPT ![<<i, n>>] = Job("resolve", 0, S!NoChild)]
    /\ UNCHANGED <<request, tableVars, readerVars, teardown>>

\* cancel_operation of the operations in I: their challenges are dropped and
\* the channels they are writing to are closed.
CancelOperations(I) ==
    /\ pending' = pending \ I
    /\ stopped' = stopped \cup
            {work[w].child : w \in {v \in Threads : v[1] \in I /\ At(v, "writing")}}
    /\ UNCHANGED <<request, work, bSessions, bChildren, bOwner, reader, teardown>>

Cancel(i) == Calls("cancel") /\ S!Cancel(i) /\ UNCHANGED backendVars
CancelTold == S!CancelTold /\ CancelOperations({call.op}) /\ UNCHANGED client

Shutdown == Calls("shutdown") /\ S!Shutdown /\ UNCHANGED backendVars

\* The operations that were active when shutdown began: no event ended them.
ShutdownTold ==
    /\ S!ShutdownTold
    /\ CancelOperations({i \in 1..(nextOp - 1) : ~\E k \in 1..Len(log) : S!Ends(k, i)})
    /\ UNCHANGED client

ShutdownJoined == S!ShutdownJoined /\ UNCHANGED <<client, backendVars>>

\* ~LibsshBackend, once ~Service's shutdown has returned.
Teardown ==
    /\ shutdown /\ mainPc = "idle" /\ teardown.pc = "no"
    /\ teardown' = [pc |-> "join", taken |-> bChildren]
    /\ stopped' = stopped \cup bChildren
    /\ bSessions' = {} /\ bChildren' = {} /\ pending' = {}
    /\ UNCHANGED <<serviceVars, client, request, work, bOwner, reader>>

TeardownJoined ==
    /\ teardown.pc = "join" /\ Joined(teardown.taken)
    /\ teardown' = [pc |-> "gone", taken |-> {}]
    /\ UNCHANGED <<serviceVars, client, request, work, tableVars, readerVars>>

Main ==
    \/ /\ teardown.pc = "no"
       /\ \/ LET t == client.timed IN
                \/ Connect(t)
                \/ \E s \in S!AllocatedSessions :
                      Exec(s, t) \/ \E type \in ChildTypes : Open(s, type, t)
                \/ \E c \in S!AllocatedChildren : Write(c, t)
          \/ \E s \in S!AllocatedSessions : CloseSession(s)
          \/ \E c \in S!AllocatedChildren : Resize(c) \/ CloseChild(c)
          \/ Proceed
          \/ \E i \in S!OpIds : ResolveKnownHost(i) \/ Cancel(i)
          \/ CancelTold
          \/ Shutdown \/ ShutdownTold \/ ShutdownJoined
    \/ Teardown \/ TeardownJoined

Watcher(i) ==
    \/ (S!WatcherQuits(i) \/ S!WatcherExpires(i) \/ S!WatcherFinishes(i))
          /\ UNCHANGED <<client, backendVars>>
    \/ S!WatcherTold(i) /\ CancelOperations({i}) /\ UNCHANGED client

\* Nothing runs and the client makes no call.
Rest == mainPc = "idle" /\ S!NoThreads /\ UNCHANGED vars

Next ==
    \/ Main
    \/ \E i \in S!OpIds : Watcher(i)
    \/ \E w \in Threads : Worker(w)
    \/ \E c \in Handles : Reader(c)
    \/ Rest

Spec == Init /\ [][Next]_vars

\* A connection attempt, a remote command and a write may last until they are
\* cancelled.  Any other call of libssh returns, shells and tunnels look at
\* their flag between two calls, and every thread is scheduled.
Lasting == {"connect", "run", "writing"}
WorkerGoesOn(w) ==
    \/ work[w].pc \notin Lasting /\ Worker(w)
    \/ w[1] \in cancelled /\ Stops(w)
ReaderGoesOn(c) ==
    \/ ReaderTellsClosed(c)
    \/ c \in stopped /\ (ReaderQuits(c) \/ ReaderEnds(c))

FairSpec ==
    /\ Spec
    /\ WF_vars(Proceed) /\ WF_vars(CancelTold)
    /\ WF_vars(ShutdownTold) /\ WF_vars(ShutdownJoined)
    /\ \A i \in S!OpIds : WF_vars(Watcher(i))
    /\ \A w \in Threads : WF_vars(WorkerGoesOn(w))
    /\ \A c \in Handles : WF_vars(ReaderGoesOn(c))
-----------------------------------------------------------------------------
(* Properties.                                                             *)

\* Every variable keeps its shape; a worker has a program exactly while the
\* service counts it (dispatch, run_backend_work).
TypeOK ==
    /\ S!TypeOK
    /\ request \in [pc : WorkPcs, session : 0..MaxSessions,
                   child : (ChildTypes \cup {"none"}) \X (0..MaxChildren),
                   taken : SUBSET Handles]
    /\ bSessions \subseteq 0..MaxSessions
    /\ bChildren \subseteq Handles
    /\ bOwner \subseteq Handles \X (0..MaxSessions)
    /\ teardown.pc = "no" => \A p \in bOwner : p[1] \in bChildren
    /\ pending \subseteq S!OpIds
    /\ reader \in [Handles -> {"none", "running", "closing", "over"}]
    /\ stopped \subseteq Handles
    /\ \A i \in S!OpIds :
          workers[i] = Cardinality({w \in Threads : w[1] = i /\ ~At(w, "none")})

\* LibsshBackend is a backend of SshService: it emits only what the service
\* expects of one, names only ids it was given and announces each once.
ImplementsService == S!Spec

\* It is one under which SshService's fairness holds too: every backend call
\* returns once its token is cancelled, so shutdown returns (check_active,
\* request_close, the joins of close_session).
ImplementsFairService == S!FairSpec

Tells(k, kind, field, id) == log[k].kind = kind /\ log[k][field] = id

\* However channel_close, close_tunnel, close_session and the child's own
\* thread race, the client is told at most once that a channel or tunnel is
\* closed: whoever takes it out of the tables tells.
ClosedOnce ==
    \A c \in S!Children : \A k, m \in 1..Len(log) :
        Tells(k, "Closed", "child", c) /\ Tells(m, "Closed", "child", c) => k = m

\* When the client is told that a channel or tunnel is closed, its thread is
\* over: no output of it follows (channel_close and close_tunnel join first).
SilentOnceClosed ==
    \A c \in S!Children : \A k \in 1..Len(log) :
        Tells(k, "Closed", "child", c) => reader[c] = "over"

\* ChannelClosed and TunnelClosed are told once and last.
ClosedForGood == ClosedOnce /\ SilentOnceClosed

\* One known-host challenge is decided once: never two threads go on with the
\* same connection, whatever decisions the client sends (resolve_known_host
\* takes the challenge under mutex_).
DecidedOnce ==
    \A i \in S!OpIds : \A v, w \in Threads :
        /\ v[1] = i /\ w[1] = i
        /\ {work[v].pc, work[w].pc} \subseteq
              {"connect", "verify", "record", "decide", "auth", "register", "announce"}
        => v = w

\* With no call under way and none cut short, the service and the backend
\* agree on which sessions are live (close_session, authenticate_and_register).
\* A known-host decision cuts a connect short too: one without a challenge ends
\* the operation, and the thread that goes on registers a session nobody is told of.
SessionsAgree ==
    /\ ~shutdown /\ mainPc = "idle" /\ \A w \in Threads : At(w, "none")
    /\ client.made.resolve = 0
    /\ \A k \in 1..Len(log) : log[k].kind \notin {"OperationTimeout", "OperationCancelled"}
    => sessions = bSessions

\* Until shutdown an operation ends, unless it waits for a known-host decision or its
\* connection attempt, command or write lasts: no path of the backend returns
\* without having told so.
Answered ==
    \A i \in S!OpIds : i \in operations ~>
        \/ i \notin operations \/ shutdown
        \/ i \in pending
        \/ \E w \in Threads : w[1] = i /\ work[w].pc \in Lasting

-----------------------------------------------------------------------------
(* What the repository says and the code does not do.                      *)

\* "remote close must invalidate channel id" (tests/test_ssh_service.cpp:891): no
\* event makes the id of a channel live again once its close was told.
RemoteCloseInvalidates ==
    \A c \in S!Children : \A k \in 1..Len(log) : \A m \in k + 1 .. Len(log) :
        Tells(k, "Closed", "child", c) => ~Tells(m, "Opened", "child", c)

\* "session close must invalidate owned channel ids" (:871): no event makes an id
\* live under a session whose close was told.
SessionCloseInvalidates ==
    \A s \in S!SessionIds : \A k \in 1..Len(log) : \A m \in k + 1 .. Len(log) :
        Tells(k, "SessionClosed", "session", s) => ~Tells(m, "Opened", "session", s)

\* "joins workers, and prevents callbacks after the runtime has dropped the
\* service" (the design, :150): no thread is left when the backend is gone.
TeardownLeavesNoThread ==
    teardown.pc = "gone" => \A c \in Handles : reader[c] \in {"none", "over"}

\* The three promises about closing (open_shell starts its reader before it tells
\* ShellOpened and looks its session up only once; a reader takes itself out of the
\* tables before it tells): one at least is kept.  Not so: one behaviour, with two
\* shells of one session, breaks all three.
SomeCloseIsFinal ==
    RemoteCloseInvalidates \/ SessionCloseInvalidates \/ TeardownLeavesNoThread
=============================================================================
