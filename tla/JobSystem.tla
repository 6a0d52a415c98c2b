------------------------------ MODULE JobSystem ------------------------------
(***************************************************************************)
(* The engine's worker pool (src/src/job_system.cpp).                      *)
(*                                                                         *)
(* One thread, the main thread, calls submit, the four polls,              *)
(* register_handler and shutdown; the threads in Workers run worker_loop.  *)
(*                                                                         *)
(* Grain.  A critical section nobody can look into is one step.  The one   *)
(* section that is not is the wait of pop_job: `stop' is written without   *)
(* queueMutex, so between the moment a worker finds the predicate false    *)
(* and the moment it is on the condition variable's wait list, shutdown    *)
(* may run.  A worker in that gap is at "block" and holds queueMutex; no   *)
(* other pc holds it between steps, so the mutex needs no variable.        *)
(*                                                                         *)
(* The vector `completed' is a set of results, each with the rank of its   *)
(* push_back: the order of the ranks is the order of the vector.           *)
(***************************************************************************)
EXTENDS Integers, Sequences, FiniteSets

CONSTANTS
    Workers,      \* the threads of the pool
    Kinds,        \* job kinds
    Limits,       \* the maxResults arguments the pollers pass; 0 is "all"
    MaxJobs       \* bound: how many jobs the main thread submits

ASSUME WorkersAssumption == IsFiniteSet(Workers)
ASSUME LimitsAssumption == Limits \subseteq Nat
ASSUME MaxJobsAssumption == MaxJobs \in Nat

Owners == {"Engine", "Lua"}

JobIds == 1..MaxJobs

\* JobRequest, without its payload.
Requests == [id : JobIds, kind : Kinds, owner : Owners]

\* JobResult, without its data; rank is its place in `completed'.
Results == [id : JobIds, kind : Kinds, owner : Owners, ok : BOOLEAN, rank : Nat]

NoRequest == [id |-> 0]

VARIABLES
    stop,         \* the atomic flag shutdown sets
    nextId,       \* the id the next submit takes
    handlers,     \* kinds that have a handler
    jobQueue,     \* requests no worker has taken
    completed,    \* results nobody has polled
    nextRank,     \* how many results were ever pushed to `completed'
    workerPc,     \* where each worker is in worker_loop
    current,      \* the request each worker has taken
    mainPc,       \* where the main thread is in submit or shutdown
    submitting,   \* the request submit is about to push
    requests,     \* history: every request submit gave an id to
    delivered     \* history: every result a poll returned

vars == <<stop, nextId, handlers, jobQueue, completed, nextRank, workerPc,
          current, mainPc, submitting, requests, delivered>>

workerVars == <<workerPc, current>>
mainVars == <<mainPc, submitting>>

WorkerPcs == {"loop", "pop", "block", "waiting", "run", "exited"}
MainPcs == {"idle", "push", "notify", "notifyAll", "join"}

\* Mutant of Init: ids start at 0, the value that means no job.
InitFromZero ==
    /\ stop = FALSE
    /\ nextId = 0
    /\ handlers = {}
    /\ jobQueue = <<>>
    /\ completed = {}
    /\ nextRank = 0
    /\ workerPc = [w \in Workers |-> "loop"]
    /\ current = [w \in Workers |-> NoRequest]
    /\ mainPc = "idle"
    /\ submitting = NoRequest
    /\ requests = {}
    /\ delivered = {}

Init ==
    /\ stop = FALSE
    /\ nextId = 1
    /\ handlers = {}
    /\ jobQueue = <<>>
    /\ completed = {}
    /\ nextRank = 0
    /\ workerPc = [w \in Workers |-> "loop"]
    /\ current = [w \in Workers |-> NoRequest]
    /\ mainPc = "idle"
    /\ submitting = NoRequest
    /\ requests = {}
    /\ delivered = {}

QueueMutexFree == \A w \in Workers : workerPc[w] # "block"

Waiters == {w \in Workers : workerPc[w] = "waiting"}

\* completed.push_back of the result of request q.
PushCompleted(q, ok) ==
    /\ completed' = completed \cup
            {[id |-> q.id, kind |-> q.kind, owner |-> q.owner,
              ok |-> ok, rank |-> nextRank]}
    /\ nextRank' = nextRank + 1

-----------------------------------------------------------------------------
(* The main thread.                                                        *)

RegisterHandler(k) ==
    /\ mainPc = "idle"
    /\ handlers' = handlers \cup {k}
    /\ UNCHANGED <<stop, nextId, jobQueue, completed, nextRank, workerVars,
                   mainVars, requests, delivered>>

\* submit up to the handler lookup.  A kind nobody handles fails at once, on
\* the caller's thread; submit does not look at `stop'.
Submit(k, o) ==
    /\ mainPc = "idle"
    /\ nextId <= MaxJobs
    /\ nextId' = nextId + 1
    /\ LET q == [id |-> nextId, kind |-> k, owner |-> o]
       IN  /\ requests' = requests \cup {q}
           /\ \/ /\ k \notin handlers
                 /\ PushCompleted(q, FALSE)
                 /\ UNCHANGED mainVars
              \/ /\ k \in handlers
                 /\ mainPc' = "push"
                 /\ submitting' = q
                 /\ UNCHANGED <<completed, nextRank>>
    /\ UNCHANGED <<stop, handlers, jobQueue, workerVars, delivered>>

\* The push under queueMutex.
SubmitPush ==
    /\ mainPc = "push"
    /\ QueueMutexFree
    /\ jobQueue' = Append(jobQueue, submitting)
    /\ submitting' = NoRequest
    /\ mainPc' = "notify"
    /\ UNCHANGED <<stop, nextId, handlers, completed, nextRank, workerVars,
                   requests, delivered>>

\* Mutant of SubmitNotify: nobody is woken.
SubmitNoNotify ==
    /\ mainPc = "notify"
    /\ mainPc' = "idle"
    /\ UNCHANGED <<stop, nextId, handlers, jobQueue, completed, nextRank,
                   workerVars, submitting, requests, delivered>>

\* queueCv.notify_one, after the lock is released: some waiter, if there is one.
SubmitNotify ==
    /\ mainPc = "notify"
    /\ mainPc' = "idle"
    /\ \/ /\ Waiters = {}
          /\ UNCHANGED workerPc
       \/ \E w \in Waiters : workerPc' = [workerPc EXCEPT ![w] = "pop"]
    /\ UNCHANGED <<stop, nextId, handlers, jobQueue, completed, nextRank,
                   current, submitting, requests, delivered>>

\* Mutant of FirstOf: the last max results.
LastOf(M, max) ==
    {r \in M : max = 0 \/ Cardinality({s \in M : s.rank > r.rank}) < max}

\* The first max results of M in the order of the vector; all of them if max = 0.
FirstOf(M, max) ==
    {r \in M : max = 0 \/ Cardinality({s \in M : s.rank < r.rank}) < max}

\* A poll moves the first max results of M out of `completed'.
Take(M, max) ==
    /\ mainPc = "idle"
    /\ completed' = completed \ FirstOf(M, max)
    /\ delivered' = delivered \cup FirstOf(M, max)
    /\ UNCHANGED <<stop, nextId, handlers, jobQueue, nextRank, workerVars,
                   mainVars, requests>>

Poll(max) == Take(completed, max)

PollKind(k, max) == Take({r \in completed : r.kind = k}, max)

PollOwner(o, max) == Take({r \in completed : r.owner = o}, max)

PollKindOwner(k, o, max) ==
    Take({r \in completed : r.kind = k /\ r.owner = o}, max)

\* shutdown: the compare-exchange.  A second call finds stop set and returns,
\* which changes nothing.
Shutdown ==
    /\ mainPc = "idle"
    /\ ~stop
    /\ stop' = TRUE
    /\ mainPc' = "notifyAll"
    /\ UNCHANGED <<nextId, handlers, jobQueue, completed, nextRank, workerVars,
                   submitting, requests, delivered>>

\* Mutant of ShutdownNotify: notify_one.
ShutdownNotifyOne ==
    /\ mainPc = "notifyAll"
    /\ mainPc' = "join"
    /\ \/ /\ Waiters = {}
          /\ UNCHANGED workerPc
       \/ \E w \in Waiters : workerPc' = [workerPc EXCEPT ![w] = "pop"]
    /\ UNCHANGED <<stop, nextId, handlers, jobQueue, completed, nextRank,
                   current, submitting, requests, delivered>>

\* queueCv.notify_all, without queueMutex.
ShutdownNotify ==
    /\ mainPc = "notifyAll"
    /\ mainPc' = "join"
    /\ workerPc' = [w \in Workers |->
                        IF w \in Waiters THEN "pop" ELSE workerPc[w]]
    /\ UNCHANGED <<stop, nextId, handlers, jobQueue, completed, nextRank,
                   current, submitting, requests, delivered>>

\* The join loop returns once every worker has left worker_loop.
ShutdownJoin ==
    /\ mainPc = "join"
    /\ \A w \in Workers : workerPc[w] = "exited"
    /\ mainPc' = "idle"
    /\ UNCHANGED <<stop, nextId, handlers, jobQueue, completed, nextRank,
                   workerVars, submitting, requests, delivered>>

-----------------------------------------------------------------------------
(* A worker.                                                               *)

\* `while (!stop.load())'.
LoopTest(w) ==
    /\ workerPc[w] = "loop"
    /\ workerPc' = [workerPc EXCEPT ![w] = IF stop THEN "exited" ELSE "pop"]
    /\ UNCHANGED <<stop, nextId, handlers, jobQueue, completed, nextRank,
                   current, mainVars, requests, delivered>>

\* Mutant of PopJob: front() without pop().
PopJobPeeks(w) ==
    /\ workerPc[w] = "pop"
    /\ QueueMutexFree
    /\ \/ /\ jobQueue # <<>>
          /\ current' = [current EXCEPT ![w] = Head(jobQueue)]
          /\ workerPc' = [workerPc EXCEPT ![w] = "run"]
       \/ /\ jobQueue = <<>>
          /\ workerPc' = [workerPc EXCEPT ![w] = IF stop THEN "exited" ELSE "block"]
          /\ UNCHANGED current
    /\ UNCHANGED <<stop, nextId, handlers, jobQueue, completed, nextRank,
                   mainVars, requests, delivered>>

\* pop_job from locking queueMutex, or from being woken and locking it again,
\* to the predicate's answer and what follows from it.
PopJob(w) ==
    /\ workerPc[w] = "pop"
    /\ QueueMutexFree
    /\ \/ /\ jobQueue # <<>>
          /\ current' = [current EXCEPT ![w] = Head(jobQueue)]
          /\ jobQueue' = Tail(jobQueue)
          /\ workerPc' = [workerPc EXCEPT ![w] = "run"]
       \/ /\ jobQueue = <<>>
          /\ workerPc' = [workerPc EXCEPT ![w] = IF stop THEN "exited" ELSE "block"]
          /\ UNCHANGED <<current, jobQueue>>
    /\ UNCHANGED <<stop, nextId, handlers, completed, nextRank, mainVars,
                   requests, delivered>>

\* The wait list is joined and queueMutex released in one step.
Block(w) ==
    /\ workerPc[w] = "block"
    /\ workerPc' = [workerPc EXCEPT ![w] = "waiting"]
    /\ UNCHANGED <<stop, nextId, handlers, jobQueue, completed, nextRank,
                   current, mainVars, requests, delivered>>

\* A wake-up nobody asked for, which std::condition_variable allows.
SpuriousWake(w) ==
    /\ workerPc[w] = "waiting"
    /\ workerPc' = [workerPc EXCEPT ![w] = "pop"]
    /\ UNCHANGED <<stop, nextId, handlers, jobQueue, completed, nextRank,
                   current, mainVars, requests, delivered>>

\* Mutant of Finish: the owner stays what the handler returned, its default.
FinishDefaultOwner(w) ==
    /\ workerPc[w] = "run"
    /\ \E ok \in BOOLEAN :
          /\ ok => current[w].kind \in handlers
          /\ PushCompleted([current[w] EXCEPT !.owner = "Engine"], ok)
    /\ current' = [current EXCEPT ![w] = NoRequest]
    /\ workerPc' = [workerPc EXCEPT ![w] = "loop"]
    /\ UNCHANGED <<stop, nextId, handlers, jobQueue, mainVars, requests,
                   delivered>>

\* The handler is looked up and run, and its result pushed.  It may report
\* either outcome or throw, which reports a failure; a kind without a handler
\* is a failure.  Id and owner come from the request, whatever it returned.
Finish(w) ==
    /\ workerPc[w] = "run"
    /\ \E ok \in BOOLEAN :
          /\ ok => current[w].kind \in handlers
          /\ PushCompleted(current[w], ok)
    /\ current' = [current EXCEPT ![w] = NoRequest]
    /\ workerPc' = [workerPc EXCEPT ![w] = "loop"]
    /\ UNCHANGED <<stop, nextId, handlers, jobQueue, mainVars, requests,
                   delivered>>

WorkerStep(w) == LoopTest(w) \/ PopJob(w) \/ Block(w) \/ Finish(w)

MainStep == SubmitPush \/ SubmitNotify \/ ShutdownNotify \/ ShutdownJoin

MainCall ==
    \/ \E k \in Kinds : RegisterHandler(k)
    \/ \E k \in Kinds, o \in Owners : Submit(k, o)
    \/ \E max \in Limits :
          \/ Poll(max)
          \/ \E k \in Kinds : PollKind(k, max)
          \/ \E o \in Owners : PollOwner(o, max)
          \/ \E k \in Kinds, o \in Owners : PollKindOwner(k, o, max)
    \/ Shutdown

Next ==
    \/ MainCall
    \/ MainStep
    \/ \E w \in Workers : WorkerStep(w) \/ SpuriousWake(w)

Spec == Init /\ [][Next]_vars

(***************************************************************************)
(* Fairness.  A started call and a worker go on running, handlers return,  *)
(* and a thread that wants queueMutex again and again gets it (the strong  *)
(* conjuncts: wake-ups may make the mutex busy now and then for ever).     *)
(* Each frame the engine calls lua_jobs_dispatch, which polls the Lua      *)
(* results without a limit; that call is fair.  Nothing says the program   *)
(* submits, polls otherwise, or shuts down.                                *)
(***************************************************************************)
Fairness ==
    /\ WF_vars(MainStep) /\ SF_vars(SubmitPush)
    /\ WF_vars(PollOwner("Lua", 0))
    /\ \A w \in Workers : WF_vars(WorkerStep(w)) /\ SF_vars(PopJob(w))

FairSpec == Spec /\ Fairness
-----------------------------------------------------------------------------
(* Properties.                                                             *)

\* Every variable holds what its declaration in job_system.h allows.
TypeOK ==
    /\ stop \in BOOLEAN
    /\ nextId \in 1..(MaxJobs + 1)
    /\ handlers \subseteq Kinds
    /\ jobQueue \in Seq(Requests)
    /\ completed \subseteq Results
    /\ nextRank \in Nat
    /\ workerPc \in [Workers -> WorkerPcs]
    /\ current \in [Workers -> Requests \cup {NoRequest}]
    /\ mainPc \in MainPcs
    /\ submitting \in Requests \cup {NoRequest}
    /\ requests \subseteq Requests
    /\ delivered \subseteq Results

QueuedIds == {jobQueue[i].id : i \in 1..Len(jobQueue)}
RunningIds == {current[w].id : w \in {v \in Workers : workerPc[v] = "run"}}
PushingIds == IF mainPc = "push" THEN {submitting.id} ELSE {}
ResultIds(R) == {r.id : r \in R}

\* No job is lost: an id submit has handed out is with submit, in the queue,
\* with a worker, waiting to be polled, or was polled, also once the pool stops.
NothingLost ==
    1..(nextId - 1) = PushingIds \cup QueuedIds \cup RunningIds
                        \cup ResultIds(completed) \cup ResultIds(delivered)

\* No job is answered twice: a result is polled once, an id has one result,
\* and an id that has a result is nowhere upstream of it.
AnsweredOnce ==
    /\ completed \cap delivered = {}
    /\ \A r, s \in completed \cup delivered : r.id = s.id => r = s
    /\ ResultIds(completed \cup delivered)
           \cap (PushingIds \cup QueuedIds \cup RunningIds) = {}

\* No job is run twice: the queue has no repetition, two workers never hold
\* the same job, and a job in a worker's hands has left the queue.
RunOnce ==
    /\ \A i, j \in 1..Len(jobQueue) : jobQueue[i].id = jobQueue[j].id => i = j
    /\ \A v, w \in Workers :
          workerPc[v] = "run" /\ workerPc[w] = "run"
              /\ current[v].id = current[w].id => v = w
    /\ RunningIds \cap QueuedIds = {}
    /\ PushingIds \cap (QueuedIds \cup RunningIds) = {}

\* Every job that was submitted is in one place, is run by one worker and is
\* answered by one result, however submit, the pool, the polls and shutdown
\* interleave.
EachOnce == NothingLost /\ AnsweredOnce /\ RunOnce

\* A result carries the kind and the owner its id was submitted with, so the
\* engine's pollers and Lua's never get each other's results: worker_loop
\* overwrites the owner the handler left at its default.
AnswersItsRequest ==
    \A r \in completed \cup delivered :
        [id |-> r.id, kind |-> r.kind, owner |-> r.owner] \in requests

\* Jobs are started in the order of submission: whatever still waits in the
\* queue was submitted after every job a worker has taken, and the queue
\* itself is in that order.
StartedInOrder ==
    /\ \A i, j \in 1..Len(jobQueue) : i < j => jobQueue[i].id < jobQueue[j].id
    /\ \A i \in QueuedIds, j \in RunningIds : j < i
    /\ \A i \in QueuedIds, r \in completed \cup delivered : r.ok => r.id < i

\* Polls with different filters and limits, mixed in any order, keep the
\* order of completion within a kind and owner.
PolledInOrder ==
    \A r \in delivered, s \in completed :
        r.kind = s.kind /\ r.owner = s.owner => r.rank < s.rank

\* Neither the workers nor the polls overtake (pop_job takes the front, the
\* polls the first that fits).
InOrder == StartedInOrder /\ PolledInOrder

\* No wake-up is lost between submit and the pool: as long as some worker
\* sleeps, every queued job has a worker of its own on the way to pop_job,
\* except the job whose notify_one is still to come.
EnoughAwake ==
    Waiters # {} =>
        Len(jobQueue) <= Cardinality({w \in Workers : workerPc[w] = "pop"})
                            + (IF mainPc = "notify" THEN 1 ELSE 0)

\* A queued job is taken, unless the pool is told to stop: notify_one follows
\* the push, and the push is under the mutex a waiter has to hold to decide
\* to wait.
QueuedIsRun ==
    \A i \in JobIds : (i \in QueuedIds) ~> (i \notin QueuedIds \/ stop)

\* A job of Lua's is answered in some frame, unless the pool is told to stop.
LuaJobAnswered ==
    \A i \in JobIds :
        (\E q \in requests : q.id = i /\ q.owner = "Lua")
            ~> (i \in ResultIds(delivered) \/ stop)

\* shutdown returns, provided no worker is between finding nothing to do and
\* joining the wait list when notify_all runs.  (A worker in that gap misses
\* the notification, and join waits for it for ever.)
ShutdownReturns ==
    (mainPc = "notifyAll" /\ QueueMutexFree) ~> (mainPc = "idle")

-----------------------------------------------------------------------------
(* The pool implements JobDelivery.                                        *)

\* What a caller can tell about each job.
JobPhase ==
    [i \in JobIds |->
        IF i >= nextId THEN "unborn"
        ELSE IF i \in ResultIds(completed) THEN "finished"
        ELSE IF i \in ResultIds(delivered) THEN "delivered"
        ELSE "accepted"]

Delivery == INSTANCE JobDelivery WITH phase <- JobPhase

\* Seen from its callers the pool with its threads, queue and wake-ups is the
\* one-variable machine of JobDelivery: every job's phase only goes forward.
ImplementsDelivery == Delivery!Spec
=============================================================================
