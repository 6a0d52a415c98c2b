------------------------------- MODULE LuaHttp -------------------------------
(***************************************************************************)
(* The http module of lua_http.cpp: requests of scripts, given to the      *)
(* HttpClient, and their answers, given to a callback or to poll.  A       *)
(* streamed request's chunks are posted by the thread that performs it.    *)
(***************************************************************************)
EXTENDS LuaCallbacks, HttpClient

VARIABLES
    callback_ids,           \* request -> callback for its response
    stream_callback_ids,    \* request -> callback for its chunks
    chunk_callback,         \* request -> callback its HttpRequest carries
    buffered,               \* responses that no callback wants, for poll
    polled                  \* history: responses that poll returned

lhVars == <<callback_ids, stream_callback_ids, chunk_callback, buffered, polled>>

LhInit ==
    /\ callback_ids = <<>>
    /\ stream_callback_ids = <<>>
    /\ chunk_callback = [id \in Requests |-> NoCallback]
    /\ buffered = <<>>
    /\ polled = <<>>

Without(f, S) == [x \in DOMAIN f \ S |-> f[x]]
With(f, x, v) == [y \in DOMAIN f \cup {x} |-> IF y = x THEN v ELSE f[y]]

Chunk(id, n) == Event("http", id, "chunk", n)
Done(id) == Event("http", id, "done", MaxChunks + 1)
Response(r) == Event("http", r.id, r.result, 0)

\* request.  A streamed request needs its callback before submit, for
\* chunk_callback; the others register theirs after it, when a thread may
\* already be at work: only the main thread looks at callback_ids.
HttpRequest(kind) ==
    /\ LuaRuns
    /\ HttpSubmit
    /\ CASE kind = "stream" ->
              /\ Reregister({}, 1)
              /\ stream_callback_ids' = With(stream_callback_ids, http_next, next_id)
              /\ chunk_callback' = [chunk_callback EXCEPT ![http_next] = next_id]
              /\ UNCHANGED callback_ids
         [] kind = "callback" ->
              /\ Reregister({}, 1)
              /\ callback_ids' = With(callback_ids, http_next, next_id)
              /\ UNCHANGED <<stream_callback_ids, chunk_callback>>
         [] kind = "plain" ->
              UNCHANGED <<next_id, registry, deferred, retired, callback_ids,
                          stream_callback_ids, chunk_callback>>
    /\ UNCHANGED <<queue, stack, own, called, buffered, polled>>

HttpCancelCall(id) ==
    /\ LuaRuns
    /\ HttpCancel(id)
    /\ UNCHANGED <<cbVars, lhVars>>

HttpStreamChunk(t) ==
    LET cb == chunk_callback[performing[t].id]
    IN  /\ HttpChunk(t)
        /\ cb # NoCallback
        /\ Post(cb, Chunk(performing[t].id, performing[t].chunks + 1))
        /\ UNCHANGED lhVars

\* What poll and dispatch do with the responses taken from the client: a
\* stream is told that it is done and its callback unregistered, a response
\* with a callback is enqueued for it, the others are left for poll.
ItemsFor(responses) ==
    LET ids == DOMAIN stream_callback_ids \cup DOMAIN callback_ids
        mine == At(responses, {i \in DOMAIN responses : responses[i].id \in ids})
    IN  [k \in DOMAIN mine |->
            IF mine[k].id \in DOMAIN stream_callback_ids
            THEN Item(stream_callback_ids[mine[k].id], Done(mine[k].id))
            ELSE Item(callback_ids[mine[k].id], Response(mine[k]))]

\* Mutant: every response is left for poll.
UnclaimedAll(responses) == responses

Unclaimed(responses) ==
    At(responses, {i \in DOMAIN responses : responses[i].id \notin DOMAIN callback_ids})

GiveOut(responses) ==
    LET ids == {responses[i].id : i \in DOMAIN responses}
        ended == {stream_callback_ids[id] : id \in ids \cap DOMAIN stream_callback_ids}
    IN  /\ Unregister(ended)
        /\ stream_callback_ids' = Without(stream_callback_ids, ids)
        /\ callback_ids' = Without(callback_ids, ids)
        /\ DispatchFrom(stack, queue \o ItemsFor(responses), Callbacks, 0)
        /\ UNCHANGED <<own, called, chunk_callback>>

\* dispatch: once per frame, and in callbacks.run-loop.
HttpDispatch ==
    /\ HttpPoll(0)
    /\ GiveOut(completed)
    /\ buffered' = buffered \o Unclaimed(completed)
    /\ UNCHANGED polled

\* poll(max): buffered responses first.  If they are more than max, the
\* client is polled without a limit.
HttpPollCall(max) ==
    LET split == max > 0 /\ max < Len(buffered)
        limit == IF split THEN 0 ELSE max
    IN  /\ LuaRuns
        /\ HttpPoll(limit)
        /\ GiveOut(HttpPolled(limit))
        /\ buffered' = IF split THEN SubSeq(buffered, max + 1, Len(buffered)) ELSE <<>>
        /\ polled' = polled \o (IF split THEN SubSeq(buffered, 1, max) ELSE buffered)
                            \o Unclaimed(HttpPolled(limit))

\* lua_http_drop, after the client was shut down.
HttpDrop ==
    /\ HttpJoined
    /\ Unregister({stream_callback_ids[id] : id \in DOMAIN stream_callback_ids}
                    \cup {callback_ids[id] : id \in DOMAIN callback_ids})
    /\ stream_callback_ids' = <<>>
    /\ callback_ids' = <<>>
    /\ UNCHANGED <<queue, stack, own, called, chunk_callback, buffered, polled>>

----------------------------------------------------------------------------
Where(s, id) == Cardinality({i \in DOMAIN s : s[i].id = id})

\* A request is pending, with one thread, answered and not yet taken, on its
\* way to its callback or to poll, or was given to one of them: in one of
\* these places, whoever dispatches, polls or cancels meanwhile.
HttpAnsweredOnce ==
    \A id \in 1..(http_next - 1) :
        1 = Cardinality({i \in DOMAIN http_pending : http_pending[i] = id})
            + Cardinality({t \in HttpThreads : /\ performing[t].pc = "performing"
                                               /\ performing[t].id = id})
            + Where(completed, id) + Where(buffered, id) + Where(polled, id)
            + Told(LAMBDA ev : ev.of = "http" /\ ev.id = id
                               /\ ev.what \notin {"chunk", "done"})

\* docs/sdk/modules/http.md:22 says of a streamed request that its callback gets
\* chunks "and a final { :done true } event".  Once its response was taken and
\* nothing waits for its callback any more, it was told.
StreamIsTold ==
    \A id \in Requests :
        LET cb == chunk_callback[id]
        IN  /\ cb # NoCallback
            /\ Where(buffered, id) + Where(polled, id) > 0
            /\ Waiting(cb) = {}
            => \E k \in DOMAIN called[cb] : called[cb][k].ev = Done(id)
=============================================================================
