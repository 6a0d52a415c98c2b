---------------------------- MODULE LuaHttpServer ----------------------------
(***************************************************************************)
(* A server of lua_http_server.cpp.  Threads of httplib's pool receive     *)
(* requests, queue them and wait; the main thread takes them from the      *)
(* queue, calls the Lua handler and wakes the thread.  A server-sent-event *)
(* request gets a stream that outlives its handler: the script sends to    *)
(* it, its thread writes what was sent, and either of them closes it.      *)
(* stop fails what is queued and joins the threads.                        *)
(*                                                                         *)
(* A stream is written in a loop of httplib (write_content_chunked), which *)
(* calls write_chunks again and again, and which ends by itself, telling   *)
(* the stream nothing, when the server shuts down, when the socket cannot  *)
(* be written any more and when the last chunk was empty.                  *)
(*                                                                         *)
(* A request is a number; the thread that has it and, for an event stream, *)
(* the SSEStream are named by it.  httplib's own queue of connections is   *)
(* not modelled: a request arrives when a thread of the pool has it.       *)
(***************************************************************************)
EXTENDS Naturals, Sequences, FiniteSets

CONSTANTS
    MaxCalls,           \* bound: requests that arrive
    MaxSent,            \* bound: chunks sent in all
    MaxHandlers,        \* bound: on-close handlers registered
    MaxNested           \* bound: handlers the main thread is in at a time

ASSUME ServerBounds ==
    /\ MaxCalls \in Nat /\ MaxSent \in Nat /\ MaxHandlers \in Nat
    /\ MaxNested \in Nat \ {0}

VARIABLES
    running,            \* running_
    pending,            \* pending_: calls [kind, id], id a request or a handler
    thread,             \* what the thread of each request does
    status,             \* of each request: PendingCall.response.status
    done,               \* requests whose PendingCall is done
    tracked,            \* requests whose stream is in active_streams_
    closed,             \* those whose stream is closed_
    notified,           \* those whose stream is close_notified_: -> its handler then
    close_handler,      \* close_handler_id_ of each stream
    chunks,             \* how many chunks each stream holds
    handling,           \* the calls the main thread is in the handlers of
    stopping,           \* where the main thread is in stop
    given,              \* requests whose stream Lua has got
    sends,              \* how many chunks were sent
    next_handler,       \* the next on-close handler
    told,               \* history: on-close handlers, in the order of their calls
    gone,               \* history: requests whose client went away
    cut                 \* history: requests whose loop ended in another such way

streamVars == <<tracked, closed, notified, close_handler, chunks>>
scriptVars == <<given, sends, next_handler>>
endVars == <<gone, cut>>
vars == <<running, pending, thread, status, done, streamVars, handling, stopping,
          scriptVars, told, endVars>>

Calls == 1..MaxCalls
NoHandler == 0

\* Where the thread of a stream is: at the head of httplib's loop, or in
\* write_chunks, where it has written nothing yet, or some data, or an empty
\* chunk last.
Writing == {"writing", "draining", "ending"}

\* svr_sock_ is invalid.
ShuttingDown == stopping \in {"fail", "join", "over"}
Call(kind, id) == [kind |-> kind, id |-> id]

Init ==
    /\ running = TRUE           \* listen has returned
    /\ pending = <<>>
    /\ thread = [c \in Calls |-> "none"]
    /\ status = [c \in Calls |-> 0]
    /\ done = {}
    /\ tracked = {}
    /\ closed = {}
    /\ notified = <<>>
    /\ close_handler = [c \in Calls |-> NoHandler]
    /\ chunks = [c \in Calls |-> 0]
    /\ handling = <<>>
    /\ stopping = "no"
    /\ given = {}
    /\ sends = 0
    /\ next_handler = 1
    /\ told = <<>>
    /\ gone = {} /\ cut = {}

----------------------------------------------------------------------------
(* SSEStream.                                                              *)

\* notify_closed_once for the streams in S, whose handlers are not told when
\* the server has stopped (enqueue_sse_close).
Notified(S) ==
    [c \in DOMAIN notified \cup S |->
        IF c \in DOMAIN notified THEN notified[c] ELSE close_handler[c]]

CloseCalls(S) ==
    {Call("close", close_handler[c]) :
        c \in {c \in S \ DOMAIN notified : close_handler[c] # NoHandler /\ running}}

CloseStreams(S) ==
    /\ closed' = closed \cup S
    /\ notified' = Notified(S)

\* At most one stream is closed at a time while the server runs.
Enqueued(calls) == pending \o (IF calls = {} THEN <<>> ELSE <<CHOOSE c \in calls : TRUE>>)

----------------------------------------------------------------------------
(* A thread of the pool.                                                   *)

\* The pool takes a request while httplib runs: its accept loop ends with
\* svr_.stop, but connections it has accepted by then are still served.  The
\* handler of route_sse tracks its stream before anything else.
Arrive(c, kind) ==
    /\ thread[c] = "none"
    /\ \A d \in Calls : d < c => thread[d] # "none"
    /\ stopping # "over"
    /\ thread' = [thread EXCEPT ![c] = kind]
    /\ tracked' = IF kind = "sse" THEN tracked \cup {c} ELSE tracked
    /\ UNCHANGED <<running, pending, status, done, closed, notified, close_handler,
                   chunks, handling, stopping, scriptVars, told, endVars>>

\* Mutant: running_ is not looked at.
WaitForLuaAnyway(c) ==
    /\ thread[c] \in {"route", "sse"}
    /\ thread' = [thread EXCEPT ![c] = "waiting"]
    /\ pending' = Append(pending, Call(thread[c], c))
    /\ UNCHANGED <<running, status, done, streamVars, handling, stopping, scriptVars,
                   told, endVars>>

\* wait_for_lua looks at running_ under pending_mutex_.
WaitForLua(c) ==
    /\ thread[c] \in {"route", "sse"}
    /\ thread' = [thread EXCEPT ![c] = "waiting"]
    /\ IF running
       THEN /\ pending' = Append(pending, Call(thread[c], c))
            /\ UNCHANGED <<status, done>>
       ELSE /\ status' = [status EXCEPT ![c] = 503]
            /\ done' = done \cup {c}
            /\ UNCHANGED pending
    /\ UNCHANGED <<running, streamVars, handling, stopping, scriptVars, told, endVars>>

\* The thread wakes up and answers.  One with a stream goes on to write it,
\* unless it was asked for with HEAD.
Answer(c) ==
    /\ thread[c] = "waiting"
    /\ c \in done
    /\ \/ /\ c \in tracked /\ status[c] < 400
          /\ thread' = [thread EXCEPT ![c] = "looping"]
          /\ UNCHANGED cut
       \/ /\ thread' = [thread EXCEPT ![c] = "over"]
          /\ cut' = IF c \in tracked /\ status[c] < 400 THEN cut \cup {c} ELSE cut
    /\ UNCHANGED <<running, pending, status, done, streamVars, handling, stopping,
                   scriptVars, told, gone>>

\* The head of the loop.  A client may have left since the last call.
CallProvider(c) ==
    /\ thread[c] = "looping"
    /\ \/ /\ ShuttingDown
          /\ thread' = [thread EXCEPT ![c] = "over"]
          /\ cut' = cut \cup {c}
       \/ /\ ~ShuttingDown
          /\ thread' = [thread EXCEPT ![c] = "writing"]
          /\ UNCHANGED cut
    /\ UNCHANGED <<running, pending, status, done, streamVars, handling, stopping,
                   scriptVars, told, gone>>

NotWritable(c) ==
    /\ thread[c] = "looping"
    /\ ~ShuttingDown
    /\ thread' = [thread EXCEPT ![c] = "over"]
    /\ gone' = gone \cup {c}
    /\ UNCHANGED <<running, pending, status, done, streamVars, handling, stopping,
                   scriptVars, told, cut>>

\* write_chunks: what was sent before the close is still written.
WriteChunk(c, empty) ==
    /\ thread[c] \in Writing
    /\ chunks[c] > 0
    /\ chunks' = [chunks EXCEPT ![c] = @ - 1]
    /\ thread' = [thread EXCEPT ![c] = IF empty THEN "ending" ELSE "draining"]
    /\ UNCHANGED <<running, pending, status, done, tracked, closed, notified,
                   close_handler, handling, stopping, scriptVars, told, endVars>>

\* Mutant: a closed stream is left before what it holds is written.
ProviderReturnsEarly(c) ==
    /\ thread[c] \in Writing
    /\ c \in closed
    /\ thread' = [thread EXCEPT ![c] = "over"]
    /\ UNCHANGED <<running, pending, status, done, streamVars, handling, stopping,
                   scriptVars, told, endVars>>

\* write_chunks returns: the loop ends if the stream is closed, or if the last
\* chunk was empty, which httplib takes for the end of the data.
ProviderReturns(c) ==
    /\ thread[c] \in Writing
    /\ chunks[c] = 0
    /\ thread[c] = "writing" => c \in closed
    /\ thread' = [thread EXCEPT ![c] =
            IF c \notin closed /\ @ = "draining" THEN "looping" ELSE "over"]
    /\ cut' = IF c \notin closed /\ thread[c] = "ending" THEN cut \cup {c} ELSE cut
    /\ UNCHANGED <<running, pending, status, done, streamVars, handling, stopping,
                   scriptVars, told, gone>>

\* A write, or the look at the socket once a second, fails: mark_closed, whose
\* first critical section also says whether the second is needed.
WriteFails(c) ==
    /\ thread[c] \in Writing
    /\ chunks[c] > 0 \/ (thread[c] = "writing" /\ c \notin closed)
    /\ closed' = closed \cup {c}
    /\ chunks' = [chunks EXCEPT ![c] = IF @ > 0 THEN @ - 1 ELSE 0]
    /\ thread' = [thread EXCEPT ![c] = IF c \in DOMAIN notified THEN "over" ELSE "notifying"]
    /\ gone' = gone \cup {c}
    /\ UNCHANGED <<running, pending, status, done, tracked, notified, close_handler,
                   handling, stopping, scriptVars, told, cut>>

\* A client that leaves is noticed in one of two places.
ClientGone(c) == NotWritable(c) \/ WriteFails(c)

Notify(c) ==
    /\ thread[c] = "notifying"
    /\ thread' = [thread EXCEPT ![c] = "over"]
    /\ notified' = Notified({c})
    /\ pending' = Enqueued(CloseCalls({c}))
    /\ UNCHANGED <<running, status, done, tracked, closed, close_handler, chunks,
                   handling, stopping, scriptVars, told, endVars>>

----------------------------------------------------------------------------
(* The main thread: a dispatch, the script, and stop.                      *)

LuaRuns == stopping \in {"no", "over"}
Handled == handling[Len(handling)]

\* dispatch pops a call and calls its handler; a handler that runs a loop of
\* its own (callbacks.run-loop) dispatches again.
Dispatch ==
    /\ LuaRuns
    /\ pending # <<>>
    /\ Len(handling) < MaxNested
    /\ pending' = Tail(pending)
    /\ handling' = Append(handling, Head(pending))
    /\ LET call == Head(pending)
       IN  IF call.kind = "close"
           THEN told' = Append(told, call.id) /\ UNCHANGED given
           ELSE /\ given' = IF call.kind = "sse" THEN given \cup {call.id} ELSE given
                /\ UNCHANGED told
    /\ UNCHANGED <<running, thread, status, done, streamVars, stopping, sends,
                   next_handler, endVars>>

\* The handler returns, or throws, which closes the stream of the call; an
\* on-close call names its stream too but nobody waits for it.
Return(ok) ==
    /\ LuaRuns
    /\ handling # <<>>
    /\ handling' = SubSeq(handling, 1, Len(handling) - 1)
    /\ IF Handled.kind = "close"
       THEN UNCHANGED <<pending, status, done, closed, notified>>
       ELSE LET id == Handled.id
                S == IF Handled.kind = "sse" /\ ~ok THEN {id} ELSE {}
            IN  /\ status' = [status EXCEPT ![id] = IF ok THEN 200 ELSE 500]
                /\ done' = done \cup {id}
                /\ CloseStreams(S)
                /\ pending' = Enqueued(CloseCalls(S))
    /\ UNCHANGED <<running, thread, tracked, close_handler, chunks, stopping,
                   scriptVars, told, endVars>>

\* stream:send, which a closed stream refuses.
Send(c) ==
    /\ LuaRuns
    /\ sends < MaxSent
    /\ sends' = sends + 1
    /\ chunks' = IF c \in closed THEN chunks ELSE [chunks EXCEPT ![c] = @ + 1]
    /\ UNCHANGED <<running, pending, thread, status, done, tracked, closed, notified,
                   close_handler, handling, stopping, given, next_handler, told, endVars>>

\* stream:close
Close(c) ==
    /\ LuaRuns
    /\ CloseStreams({c})
    /\ pending' = Enqueued(CloseCalls({c}))
    /\ UNCHANGED <<running, thread, status, done, tracked, close_handler, chunks,
                   handling, stopping, scriptVars, told, endVars>>

\* stream:on-close.  On a stream whose thread is in the middle of mark_closed
\* it makes the call itself.
OnClose(c) ==
    /\ LuaRuns
    /\ next_handler <= MaxHandlers
    /\ next_handler' = next_handler + 1
    /\ close_handler' = [close_handler EXCEPT ![c] = next_handler]
    /\ IF c \in closed \ DOMAIN notified
       THEN /\ notified' = [d \in DOMAIN notified \cup {c} |->
                                IF d = c THEN next_handler ELSE notified[d]]
            /\ pending' = IF running THEN Append(pending, Call("close", next_handler))
                          ELSE pending
       ELSE UNCHANGED <<notified, pending>>
    /\ UNCHANGED <<running, thread, status, done, tracked, closed, chunks, handling,
                   stopping, given, sends, told, endVars>>

\* stop, from a script, from a handler or at the engine's shutdown; again it
\* does nothing.
Stop ==
    /\ stopping = "no"
    /\ stopping' = "close"
    /\ running' = FALSE
    /\ UNCHANGED <<pending, thread, status, done, streamVars, handling, scriptVars,
                   told, endVars>>

\* Mutant: the streams are left to their clients.
StopStreamsLater ==
    /\ stopping = "close"
    /\ stopping' = "listen"
    /\ UNCHANGED <<running, pending, thread, status, done, streamVars, handling,
                   scriptVars, told, endVars>>

\* close_streams
StopStreams ==
    /\ stopping = "close"
    /\ stopping' = "listen"
    /\ CloseStreams(tracked)
    /\ UNCHANGED <<running, pending, thread, status, done, tracked, close_handler,
                   chunks, handling, scriptVars, told, endVars>>

\* svr_.stop
StopListening ==
    /\ stopping = "listen"
    /\ stopping' = "fail"
    /\ UNCHANGED <<running, pending, thread, status, done, streamVars, handling,
                   scriptVars, told, endVars>>

\* fail_pending: on-close calls among them are dropped.
FailPending ==
    LET failed == {pending[i].id : i \in {i \in DOMAIN pending : pending[i].kind # "close"}}
    IN  /\ stopping = "fail"
        /\ stopping' = "join"
        /\ pending' = <<>>
        /\ status' = [c \in Calls |-> IF c \in failed THEN 503 ELSE status[c]]
        /\ done' = done \cup failed
        /\ CloseStreams(failed \cap tracked)
        /\ UNCHANGED <<running, thread, tracked, close_handler, chunks, handling,
                       scriptVars, told, endVars>>

\* server_thread_ ends when the threads of the pool have.
StopReturn ==
    /\ stopping = "join"
    /\ \A c \in Calls : thread[c] \in {"none", "over"}
    /\ stopping' = "over"
    /\ UNCHANGED <<running, pending, thread, status, done, streamVars, handling,
                   scriptVars, told, endVars>>

----------------------------------------------------------------------------
ThreadStep(c) ==
    \/ WaitForLua(c) \/ Answer(c) \/ CallProvider(c)
    \/ \E empty \in BOOLEAN : WriteChunk(c, empty)
    \/ ProviderReturns(c) \/ Notify(c)

StopStep == StopStreams \/ StopListening \/ FailPending \/ StopReturn

Next ==
    \/ \E c \in Calls, kind \in {"route", "sse"} : Arrive(c, kind)
    \/ \E c \in Calls : ThreadStep(c) \/ ClientGone(c)
    \/ Dispatch
    \/ \E ok \in BOOLEAN : Return(ok)
    \/ \E c \in given : Send(c) \/ Close(c) \/ OnClose(c)
    \/ Stop
    \/ StopStep

\* Threads are scheduled, the engine dispatches once per frame, and a handler
\* returns; clients and scripts do as they like.
Fairness ==
    /\ \A c \in Calls : WF_vars(ThreadStep(c))
    /\ WF_vars(Dispatch)
    /\ WF_vars(\E ok \in BOOLEAN : Return(ok))
    /\ WF_vars(StopStep)

Spec == Init /\ [][Next]_vars /\ Fairness

----------------------------------------------------------------------------
(* Properties.                                                             *)

\* In how many places an on-close handler is between its stream's closing and
\* the end of its call.
ClosePlaces(h) ==
    Cardinality({i \in DOMAIN pending : pending[i] = Call("close", h)})
    + Cardinality({k \in DOMAIN told : told[k] = h})

\* The handler of a stream that is closed is told once while the server runs,
\* and never twice: by whichever of the stream's thread, its client's leaving,
\* a failed handler, the script and on-close itself comes first (close_notified_
\* and the two critical sections of mark_closed).
ClosedIsToldOnce ==
    \A c \in DOMAIN notified :
        notified[c] # NoHandler =>
            /\ ClosePlaces(notified[c]) <= 1
            /\ running => ClosePlaces(notified[c]) = 1

\* What send accepted was written before the thread of the stream ended, also
\* what was sent as the stream was closed (write_chunks drains before it looks
\* at closed_), unless the request had failed, the client was found to be gone
\* or httplib ended the loop by itself: what a stream still holds when stop
\* reaches svr_.stop is lost.
AcceptedIsWritten ==
    \A c \in Calls \ (gone \cup cut) :
        thread[c] = "over" /\ status[c] < 400 => chunks[c] = 0

\* A stream whose thread ended is closed, so that send refuses what nobody
\* would write, with the same exceptions; one that stop cut off is closed too,
\* as close_streams comes before svr_.stop.
EndedIsClosed ==
    \A c \in given :
        thread[c] = "over" /\ (c \notin gone \cup cut \/ ShuttingDown) => c \in closed

\* How streams end: what was accepted is written, send refuses the rest and the
\* handler of a stream that is closed is told once, whichever of the stream's
\* thread, its client, a failed handler, the script and stop closes it.
StreamsEnd == ClosedIsToldOnce /\ AcceptedIsWritten /\ EndedIsClosed

\* When the thread of a stream ends because its client went away, the on-close
\* handler is told or about to be: docs/dev/notes/remote-mcp.md says that the
\* server "dispatches stream-close callbacks back onto the Lua thread so the
\* Fennel wrapper can clear stale connection state".
Ends(c) == thread[c] # "over" /\ thread'[c] = "over"
EndIsTold ==
    [][\A c \in Calls :
          Ends(c) /\ c \in gone' /\ running /\ close_handler[c] # NoHandler =>
             c \in DOMAIN notified']_vars

\* stop waits in join for a thread that waits for the handler stop is called in.
StuckInHandler ==
    stopping # "no" /\ \E i \in DOMAIN handling : handling[i].kind # "close"

\* stop returns, whatever requests and streams were under way and whichever
\* arrive meanwhile, unless a handler of a request called it.
StopReturns == stopping = "close" ~> (stopping = "over" \/ StuckInHandler)

\* A request that has a thread is answered: by its handler, or with 503, as
\* docs/sdk/modules/http-server.md says of stop.
EveryCallAnswered ==
    \A c \in Calls :
        thread[c] # "none" ~>
            (thread[c] \in Writing \cup {"looping", "notifying", "over"} \/ StuckInHandler)
=============================================================================
