----------------------------- MODULE HttpClient ------------------------------
(***************************************************************************)
(* HttpClient of http_client.cpp: a pool of threads that perform requests. *)
(* submit and cancel take queue_mutex, poll takes completed_mutex; a       *)
(* request's cancel flag lives in cancel_flags from submit until after the *)
(* response was made, and each thread that holds the request shares it.    *)
(* What a request is for is its id; curl's answer is "ok" or "error".      *)
(***************************************************************************)
EXTENDS Naturals, Sequences, FiniteSets

CONSTANTS
    HttpThreads,        \* the worker threads
    MaxRequests,        \* bound: how many requests are submitted
    MaxChunks           \* bound: how many chunks the body of one comes in

ASSUME HttpBounds == MaxRequests \in Nat /\ MaxChunks \in Nat

VARIABLES
    http_next,          \* the next request id
    http_pending,       \* pending: ids in the order of submit
    cancel_flags,       \* ids that have an entry
    flagged,            \* ids whose flag object is true
    performing,         \* what each thread does: idle, performing or answered
    completed,          \* responses [id, result] in the order they were made
    http_stop           \* stop

hcVars == <<http_next, http_pending, cancel_flags, flagged, performing,
            completed, http_stop>>

Requests == 1..MaxRequests
NoRequest == 0

\* pc "exit": the thread has left worker_loop.
Doing(pc, id, chunks) == [pc |-> pc, id |-> id, chunks |-> chunks]
Idle == Doing("idle", NoRequest, 0)

HcInit ==
    /\ http_next = 1
    /\ http_pending = <<>>
    /\ cancel_flags = {}
    /\ flagged = {}
    /\ performing = [t \in HttpThreads |-> Idle]
    /\ completed = <<>>
    /\ http_stop = FALSE

\* submit: the request and its flag appear together.
HttpSubmit ==
    /\ http_next \in Requests
    /\ http_next' = http_next + 1
    /\ http_pending' = Append(http_pending, http_next)
    /\ cancel_flags' = cancel_flags \cup {http_next}
    /\ UNCHANGED <<flagged, performing, completed, http_stop>>

\* cancel: it is accepted as long as the request has an entry.
HttpCancelAccepted(id) == id \in cancel_flags

HttpCancel(id) ==
    /\ flagged' = IF HttpCancelAccepted(id) THEN flagged \cup {id} ELSE flagged
    /\ UNCHANGED <<http_next, http_pending, cancel_flags, performing, completed, http_stop>>

\* poll: the oldest max responses, or all of them if max = 0.
HttpPolled(max) ==
    IF max = 0 \/ max > Len(completed) THEN completed ELSE SubSeq(completed, 1, max)

HttpPoll(max) ==
    /\ completed' = SubSeq(completed, Len(HttpPolled(max)) + 1, Len(completed))
    /\ UNCHANGED <<http_next, http_pending, cancel_flags, flagged, performing, http_stop>>

\* pop_request.  A thread that sees stop leaves pending alone; a request that
\* is flagged by then is answered without being performed.
HttpTake(t) ==
    /\ performing[t].pc = "idle"
    /\ ~http_stop
    /\ http_pending # <<>>
    /\ LET id == Head(http_pending)
       IN  IF id \in flagged
           THEN /\ completed' = Append(completed, [id |-> id, result |-> "cancelled"])
                /\ performing' = [performing EXCEPT ![t] = Doing("answered", id, 0)]
           ELSE /\ performing' = [performing EXCEPT ![t] = Doing("performing", id, 0)]
                /\ UNCHANGED completed
    /\ http_pending' = Tail(http_pending)
    /\ UNCHANGED <<http_next, cancel_flags, flagged, http_stop>>

\* write_body hands a piece of the body on, the chunk_callback's n-th.
HttpChunk(t) ==
    /\ performing[t].pc = "performing"
    /\ performing[t].chunks < MaxChunks
    /\ performing' = [performing EXCEPT ![t].chunks = @ + 1]
    /\ UNCHANGED <<http_next, http_pending, cancel_flags, flagged, completed, http_stop>>

\* The end of perform reads the flag, whatever curl said, and worker_loop
\* queues the response.
HttpAnswer(t, result) ==
    /\ performing[t].pc = "performing"
    /\ LET id == performing[t].id
       IN  completed' = Append(completed,
                [id |-> id, result |-> IF id \in flagged THEN "cancelled" ELSE result])
    /\ performing' = [performing EXCEPT ![t].pc = "answered"]
    /\ UNCHANGED <<http_next, http_pending, cancel_flags, flagged, http_stop>>

\* Mutant: the entry stays.
HttpForgetsNothing(t) ==
    /\ performing[t].pc = "answered"
    /\ performing' = [performing EXCEPT ![t] = Idle]
    /\ UNCHANGED <<http_next, http_pending, cancel_flags, flagged, completed, http_stop>>

\* The flag's entry goes in a critical section of its own, after the answer.
HttpForget(t) ==
    /\ performing[t].pc = "answered"
    /\ cancel_flags' = cancel_flags \ {performing[t].id}
    /\ performing' = [performing EXCEPT ![t] = Idle]
    /\ UNCHANGED <<http_next, http_pending, flagged, completed, http_stop>>

\* shutdown sets stop, and each thread leaves when it next looks.
HttpStop ==
    /\ ~http_stop
    /\ http_stop' = TRUE
    /\ UNCHANGED <<http_next, http_pending, cancel_flags, flagged, performing, completed>>

HttpExit(t) ==
    /\ performing[t].pc = "idle"
    /\ http_stop
    /\ performing' = [performing EXCEPT ![t].pc = "exit"]
    /\ UNCHANGED <<http_next, http_pending, cancel_flags, flagged, completed, http_stop>>

\* shutdown has joined them and clears what is left; completed stays.
HttpJoined ==
    /\ http_stop
    /\ \A t \in HttpThreads : performing[t].pc = "exit"
    /\ http_pending' = <<>>
    /\ cancel_flags' = {}
    /\ UNCHANGED <<http_next, flagged, performing, completed, http_stop>>

----------------------------------------------------------------------------
Held == {performing[t].id : t \in {t \in HttpThreads :
                                      performing[t].pc \in {"performing", "answered"}}}

HcTypeOK ==
    /\ http_next \in 1..(MaxRequests + 1)
    /\ cancel_flags \cup flagged \subseteq 1..(http_next - 1)
    /\ performing \in [HttpThreads ->
            [pc : {"idle", "performing", "answered", "exit"},
             id : 0..MaxRequests, chunks : 0..MaxChunks]]

\* cancel reaches a request from submit until its answer is queued, and its
\* entry does not outlive the thread that answered it: active_count is the
\* number of requests the pool has (cancel_flags in submit, worker_loop and
\* shutdown, three critical sections of two mutexes).
FlagsFollowRequests ==
    cancel_flags = Held \cup {http_pending[i] : i \in DOMAIN http_pending}
=============================================================================
