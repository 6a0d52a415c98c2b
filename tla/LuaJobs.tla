------------------------------- MODULE LuaJobs -------------------------------
(***************************************************************************)
(* The jobs module of lua_jobs.cpp over the pool as its callers see it,    *)
(* the machine of JobDelivery: a job's result goes to its callback or, if  *)
(* it has none, to jobs.poll.                                              *)
(***************************************************************************)
EXTENDS LuaCallbacks

CONSTANT MaxJobs        \* bound: how many jobs are submitted

VARIABLES
    phase,              \* of each job, as in JobDelivery
    job_results,        \* finished jobs in the order they finished
    job_callbacks,      \* job -> callback
    buffered_results,   \* results that no callback wants
    job_polled          \* history: jobs whose results poll returned

ljVars == <<phase, job_results, job_callbacks, buffered_results, job_polled>>

Pool == INSTANCE JobDelivery

Jobs == 1..MaxJobs

LjInit ==
    /\ Pool!Init
    /\ job_results = <<>>
    /\ job_callbacks = <<>>
    /\ buffered_results = <<>>
    /\ job_polled = <<>>

\* jobs.submit: the callback is registered after the pool has the job.
JobSubmit(withCallback) ==
    /\ LuaRuns
    /\ \E id \in Jobs :
        /\ Pool!Accept(id)
        /\ job_results' = IF phase'[id] = "finished" THEN Append(job_results, id)
                          ELSE job_results
        /\ IF withCallback
           THEN /\ Reregister({}, 1)
                /\ job_callbacks' = [j \in DOMAIN job_callbacks \cup {id} |->
                                        IF j = id THEN next_id ELSE job_callbacks[j]]
           ELSE UNCHANGED <<next_id, registry, deferred, retired, job_callbacks>>
    /\ UNCHANGED <<queue, stack, own, called, buffered_results, job_polled>>

\* A worker of the pool finishes a job.
JobFinish(id) ==
    /\ Pool!Finish(id)
    /\ job_results' = Append(job_results, id)
    /\ UNCHANGED <<cbVars, job_callbacks, buffered_results, job_polled>>

\* poll_owner(Lua, max), as JobSystem does it.
JobsTaken(max) ==
    IF max = 0 \/ max > Len(job_results) THEN job_results ELSE SubSeq(job_results, 1, max)

TakeJobs(max) ==
    /\ Pool!Deliver({JobsTaken(max)[k] : k \in DOMAIN JobsTaken(max)})
    /\ job_results' = SubSeq(job_results, Len(JobsTaken(max)) + 1, Len(job_results))

JobItems(ids) ==
    LET mine == At(ids, {i \in DOMAIN ids : ids[i] \in DOMAIN job_callbacks})
    IN  [k \in DOMAIN mine |-> Item(job_callbacks[mine[k]], Event("job", mine[k], "result", 0))]

JobsUnclaimed(ids) == At(ids, {i \in DOMAIN ids : ids[i] \notin DOMAIN job_callbacks})

\* Each result is enqueued for its callback, whose entry goes (its function
\* stays registered), and everything enqueued so far is dispatched.
HandOut(ids) ==
    /\ job_callbacks' = [j \in DOMAIN job_callbacks \ {ids[i] : i \in DOMAIN ids} |->
                            job_callbacks[j]]
    /\ DispatchFrom(stack, queue \o JobItems(ids), Callbacks, 0)
    /\ UNCHANGED <<next_id, registry, deferred, retired, own, called>>

\* lua_jobs_dispatch: once per frame, and in callbacks.run-loop.
JobsDispatch ==
    /\ TakeJobs(0)
    /\ HandOut(JobsTaken(0))
    /\ buffered_results' = buffered_results \o JobsUnclaimed(JobsTaken(0))
    /\ UNCHANGED job_polled

\* jobs.poll(max): up to max buffered results, and up to max from the pool.
JobsPollCall(max) ==
    LET split == max > 0 /\ max < Len(buffered_results)
        old == IF split THEN SubSeq(buffered_results, 1, max) ELSE buffered_results
    IN  /\ LuaRuns
        /\ TakeJobs(max)
        /\ HandOut(JobsTaken(max))
        /\ buffered_results' = SubSeq(buffered_results, Len(old) + 1, Len(buffered_results))
        /\ job_polled' = job_polled \o old \o JobsUnclaimed(JobsTaken(max))

\* lua_jobs_clear_callbacks, at the engine's shutdown.
JobsClear ==
    /\ job_callbacks' = <<>>
    /\ buffered_results' = <<>>

----------------------------------------------------------------------------
Count(s, x) == Cardinality({i \in DOMAIN s : s[i] = x})

\* The result of a finished job is with the pool, on its way to its callback or
\* to poll, or was given to one of them, once.
JobsAnsweredOnce ==
    \A id \in Jobs :
        phase[id] \in {"finished", "delivered"} =>
            1 = Count(job_results, id) + Count(buffered_results, id) + Count(job_polled, id)
                + Told(LAMBDA ev : ev.of = "job" /\ ev.id = id)
=============================================================================
