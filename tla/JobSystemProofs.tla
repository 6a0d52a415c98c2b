--------------------------- MODULE JobSystemProofs ---------------------------
(***************************************************************************)
(* Proofs about JobSystem, for every pool, set of kinds and bound.         *)
(***************************************************************************)
EXTENDS JobSystem, FiniteSetTheorems, TLAPS

\* Where a request is held, it is one that submit gave an id to.
Provenance ==
    /\ \A q \in requests : q.id < nextId
    /\ \A i \in 1..Len(jobQueue) : jobQueue[i] \in requests
    /\ \A w \in Workers : workerPc[w] = "run" => current[w] \in requests
    /\ mainPc = "push" => submitting \in requests /\ submitting.id = nextId - 1

\* Every variable holds what job_system.h lets it hold, and every request the
\* pool holds is one submit accepted.
TypeInv == TypeOK /\ Provenance

LEMMA TypeInit == Init => TypeInv
<1> SUFFICES ASSUME Init PROVE TypeInv
  OBVIOUS
<1>1. jobQueue \in Seq(Requests) /\ Len(jobQueue) = 0
  BY DEF Init
<1>2. /\ workerPc \in [Workers -> WorkerPcs]
      /\ current \in [Workers -> Requests \cup {NoRequest}]
      /\ \A w \in Workers : workerPc[w] # "run"
  BY DEF Init, WorkerPcs
<1>3. nextId \in 1..(MaxJobs + 1)
  BY MaxJobsAssumption DEF Init
<1>4. TypeOK
  BY <1>1, <1>2, <1>3 DEF Init, TypeOK, MainPcs
<1>5. Provenance
  BY <1>1, <1>2 DEF Init, Provenance
<1> QED  BY <1>4, <1>5 DEF TypeInv

\* What completed.push_back stores is a result.
LEMMA PushType ==
    ASSUME TypeOK, NEW q \in Requests, NEW ok \in BOOLEAN, PushCompleted(q, ok)
    PROVE  completed' \subseteq Results /\ nextRank' \in Nat
<1> DEFINE r == [id |-> q.id, kind |-> q.kind, owner |-> q.owner,
                 ok |-> ok, rank |-> nextRank]
<1>1. r \in Results
  BY DEF TypeOK, Requests, Results
<1>2. completed' = completed \cup {r}
  BY DEF PushCompleted
<1> QED  BY <1>1, <1>2 DEF TypeOK, PushCompleted

LEMMA TypeStep == TypeInv /\ [Next]_vars => TypeInv'
<1> SUFFICES ASSUME TypeInv, [Next]_vars PROVE TypeInv'
  OBVIOUS
<1> USE MaxJobsAssumption, LimitsAssumption
<1> USE DEF TypeInv, TypeOK, Provenance, JobIds, workerVars, mainVars
<1>1. ASSUME NEW k \in Kinds, RegisterHandler(k) PROVE TypeInv'
  BY <1>1 DEF RegisterHandler
<1>2. ASSUME NEW k \in Kinds, NEW o \in Owners, Submit(k, o) PROVE TypeInv'
  <2> DEFINE q == [id |-> nextId, kind |-> k, owner |-> o]
  <2>1. /\ q \in Requests
        /\ q.id = nextId
    BY <1>2 DEF Submit, Requests
  <2>2. CASE k \notin handlers
    <3>1. PushCompleted(q, FALSE) /\ UNCHANGED <<mainPc, submitting>>
      BY <1>2, <2>2 DEF Submit
    <3>2. completed' \subseteq Results /\ nextRank' \in Nat
      BY <2>1, <3>1, PushType
    <3> QED  BY <1>2, <2>1, <2>2, <3>1, <3>2 DEF Submit, MainPcs, Requests
  <2>3. CASE k \in handlers
    <3>1. mainPc' = "push" /\ submitting' = q /\ UNCHANGED <<completed, nextRank>>
      BY <1>2, <2>3 DEF Submit
    <3> QED  BY <1>2, <2>1, <2>3, <3>1 DEF Submit, MainPcs, Requests
  <2> QED  BY <2>2, <2>3
<1>3. CASE SubmitPush
  BY <1>3 DEF SubmitPush, MainPcs
<1>4. CASE SubmitNotify
  BY <1>4 DEF SubmitNotify, MainPcs, WorkerPcs, Waiters
<1>5. ASSUME NEW M \in SUBSET completed, NEW max \in Limits, Take(M, max)
      PROVE  TypeInv'
  BY <1>5 DEF Take, FirstOf
<1>6. CASE Shutdown
  BY <1>6 DEF Shutdown, MainPcs
<1>7. CASE ShutdownNotify
  BY <1>7 DEF ShutdownNotify, MainPcs, WorkerPcs
<1>8. CASE ShutdownJoin
  BY <1>8 DEF ShutdownJoin, MainPcs
<1>9. ASSUME NEW w \in Workers, LoopTest(w) PROVE TypeInv'
  BY <1>9 DEF LoopTest, WorkerPcs
<1>10. ASSUME NEW w \in Workers, PopJob(w) PROVE TypeInv'
  <2>1. CASE jobQueue # <<>>
    <3>1. /\ Head(jobQueue) \in Requests /\ Head(jobQueue) \in requests
          /\ Tail(jobQueue) \in Seq(Requests)
          /\ \A i \in 1..Len(Tail(jobQueue)) : Tail(jobQueue)[i] \in requests
      BY <2>1
    <3> QED  BY <1>10, <2>1, <3>1 DEF PopJob, WorkerPcs
  <2>2. CASE jobQueue = <<>>
    BY <1>10, <2>2 DEF PopJob, WorkerPcs
  <2> QED  BY <2>1, <2>2
<1>11. ASSUME NEW w \in Workers, Block(w) PROVE TypeInv'
  BY <1>11 DEF Block, WorkerPcs
<1>12. ASSUME NEW w \in Workers, SpuriousWake(w) PROVE TypeInv'
  BY <1>12 DEF SpuriousWake, WorkerPcs
<1>13. ASSUME NEW w \in Workers, Finish(w) PROVE TypeInv'
  <2>1. current[w] \in Requests
    BY <1>13 DEF Finish
  <2>2. completed' \subseteq Results /\ nextRank' \in Nat
    BY <1>13, <2>1, PushType DEF Finish
  <2> QED  BY <1>13, <2>1, <2>2 DEF Finish, WorkerPcs
<1>14. CASE UNCHANGED vars
  BY <1>14 DEF vars
<1> QED
  BY <1>1, <1>2, <1>3, <1>4, <1>5, <1>6, <1>7, <1>8, <1>9, <1>10, <1>11,
     <1>12, <1>13, <1>14
  DEF Next, MainCall, MainStep, WorkerStep, Poll, PollKind, PollOwner,
      PollKindOwner

\* Nothing outside its type is ever stored, and no request is made up.
THEOREM TypeCorrect == Spec => []TypeOK
<1>1. TypeInv => TypeOK
  BY DEF TypeInv
<1> QED  BY <1>1, TypeInit, TypeStep, PTL DEF Spec
-----------------------------------------------------------------------------
(***************************************************************************)
(* Every id in exactly one place.  NothingLost, AnsweredOnce and RunOnce   *)
(* are inductive only together (a worker may publish only because nobody   *)
(* else holds its job) and only with the order of the queue, which keeps   *)
(* the id being pushed apart from all the others.                          *)
(***************************************************************************)

\* The vector is finite and its next rank is larger than all given out.
RanksInOrder ==
    /\ IsFiniteSet(completed)
    /\ \A r \in completed \cup delivered : r.rank < nextRank

JobInv ==
    /\ TypeInv
    /\ NothingLost
    /\ AnsweredOnce
    /\ RunOnce
    /\ AnswersItsRequest
    /\ StartedInOrder
    /\ PolledInOrder
    /\ RanksInOrder

LEMMA JobInit == Init => JobInv
<1> SUFFICES ASSUME Init PROVE JobInv
  OBVIOUS
<1>1. TypeInv
  BY TypeInit
<1>2. Len(jobQueue) = 0 /\ QueuedIds = {}
  BY DEF Init, QueuedIds
<1>3. PushingIds = {} /\ RunningIds = {} /\ completed = {} /\ delivered = {}
  BY DEF Init, PushingIds, RunningIds
<1>4. NothingLost
  <2>1. 1..(nextId - 1) = {}
    BY DEF Init
  <2> QED  BY <1>2, <1>3, <2>1 DEF NothingLost, ResultIds
<1>5. AnsweredOnce /\ AnswersItsRequest /\ PolledInOrder
  BY <1>3 DEF AnsweredOnce, AnswersItsRequest, PolledInOrder, ResultIds
<1>6. RunOnce /\ StartedInOrder
  BY <1>2, <1>3 DEF RunOnce, StartedInOrder, Init
<1>7. RanksInOrder
  BY <1>3, FS_EmptySet DEF RanksInOrder
<1> QED  BY <1>1, <1>4, <1>5, <1>6, <1>7 DEF JobInv

\* Steps that hand no job from one place to another.
LEMMA NoHandover ==
    ASSUME JobInv, TypeInv',
           UNCHANGED <<nextId, jobQueue, completed, nextRank, current,
                       submitting, requests, delivered>>,
           mainPc' = "push" <=> mainPc = "push",
           \A w \in Workers : workerPc'[w] = "run" <=> workerPc[w] = "run"
    PROVE  JobInv'
<1>1. UNCHANGED <<QueuedIds, PushingIds, RunningIds>>
  BY DEF QueuedIds, PushingIds, RunningIds
<1>2. NothingLost' /\ AnsweredOnce' /\ AnswersItsRequest'
  BY <1>1 DEF JobInv, NothingLost, AnsweredOnce, AnswersItsRequest, ResultIds
<1>3. RunOnce'
  BY <1>1 DEF JobInv, RunOnce
<1>4. StartedInOrder' /\ PolledInOrder' /\ RanksInOrder'
  BY <1>1 DEF JobInv, StartedInOrder, PolledInOrder, RanksInOrder
<1> QED  BY <1>2, <1>3, <1>4 DEF JobInv

\* The ids of results distribute over union.
LEMMA ResultIdsUnion ==
    ASSUME NEW R, NEW S PROVE ResultIds(R \cup S) = ResultIds(R) \cup ResultIds(S)
  BY DEF ResultIds

LEMMA ResultIdsSingle ==
    ASSUME NEW r PROVE ResultIds({r}) = {r.id}
  BY DEF ResultIds

\* submit of a kind without a handler: the new id goes straight to `completed'.
LEMMA SubmitUnknown ==
    ASSUME JobInv, TypeInv', NEW k \in Kinds, NEW o \in Owners, Submit(k, o),
           k \notin handlers
    PROVE  JobInv'
<1> DEFINE q == [id |-> nextId, kind |-> k, owner |-> o]
           r == [id |-> nextId, kind |-> k, owner |-> o, ok |-> FALSE,
                 rank |-> nextRank]
<1>1. /\ nextId' = nextId + 1 /\ nextId \in Nat /\ nextId > 0
      /\ requests' = requests \cup {q}
      /\ completed' = completed \cup {r}
      /\ nextRank' = nextRank + 1 /\ nextRank \in Nat
      /\ UNCHANGED <<jobQueue, workerPc, current, mainPc, submitting, delivered>>
  BY DEF Submit, PushCompleted, JobInv, TypeInv, TypeOK, workerVars, mainVars
<1>r. /\ r.id = nextId /\ r.kind = k /\ r.owner = o /\ r.rank = nextRank
      /\ r.ok = FALSE
      /\ [id |-> r.id, kind |-> r.kind, owner |-> r.owner] = q
  OBVIOUS
<1> HIDE DEF q, r
<1>2. UNCHANGED <<QueuedIds, PushingIds, RunningIds>>
  BY <1>1 DEF QueuedIds, PushingIds, RunningIds
<1>3. /\ nextId \notin PushingIds \cup QueuedIds \cup RunningIds
      /\ nextId \notin ResultIds(completed) \cup ResultIds(delivered)
  BY <1>1 DEF JobInv, NothingLost
<1>4. ResultIds(completed') = ResultIds(completed) \cup {nextId}
  <2>1. ResultIds({r}) = {nextId}
    BY <1>r, ResultIdsSingle
  <2>2. ResultIds(completed \cup {r}) = ResultIds(completed) \cup ResultIds({r})
    BY ResultIdsUnion
  <2> QED  BY <1>1, <2>1, <2>2
<1>5. ResultIds(delivered') = ResultIds(delivered)
  BY <1>1
<1>6. NothingLost'
  <2>1. 1..(nextId' - 1) = 1..(nextId - 1) \cup {nextId}
    BY <1>1
  <2> QED  BY <1>2, <1>4, <1>5, <2>1 DEF JobInv, NothingLost
<1>7. \A s \in completed \cup delivered : s.id # nextId
  BY <1>3 DEF ResultIds
<1>8. AnsweredOnce'
  <2>1. (completed \cap delivered)' = {}
    BY <1>1, <1>r, <1>7 DEF JobInv, AnsweredOnce
  <2>2. \A s, t \in completed' \cup delivered' : s.id = t.id => s = t
    BY <1>1, <1>r, <1>7 DEF JobInv, AnsweredOnce
  <2>3. ResultIds(completed' \cup delivered')
            = ResultIds(completed \cup delivered) \cup {nextId}
    BY <1>4, <1>5, ResultIdsUnion
  <2> QED  BY <1>2, <1>3, <2>1, <2>2, <2>3 DEF JobInv, AnsweredOnce
<1>9. AnswersItsRequest'
  BY <1>1, <1>r DEF JobInv, AnswersItsRequest
<1>10. RunOnce' /\ StartedInOrder'
  BY <1>1, <1>r, <1>2 DEF JobInv, RunOnce, StartedInOrder
<1>11. PolledInOrder' /\ RanksInOrder'
  <2>1. IsFiniteSet(completed')
    BY <1>1, FS_AddElement DEF JobInv, RanksInOrder
  <2>2. \A s \in completed \cup delivered : s.rank \in Nat
    BY DEF JobInv, TypeInv, TypeOK, Results
  <2> QED  BY <1>1, <1>r, <2>1, <2>2 DEF JobInv, PolledInOrder, RanksInOrder
<1> QED  BY <1>6, <1>8, <1>9, <1>10, <1>11 DEF JobInv

\* submit of a kind with a handler: the new id is the one being pushed.
LEMMA SubmitKnown ==
    ASSUME JobInv, TypeInv', NEW k \in Kinds, NEW o \in Owners, Submit(k, o),
           k \in handlers
    PROVE  JobInv'
<1> DEFINE q == [id |-> nextId, kind |-> k, owner |-> o]
<1>1. /\ nextId' = nextId + 1 /\ nextId \in Nat /\ nextId > 0
      /\ requests' = requests \cup {q}
      /\ mainPc = "idle" /\ mainPc' = "push" /\ submitting' = q
      /\ UNCHANGED <<jobQueue, workerPc, current, completed, nextRank, delivered>>
  BY DEF Submit, PushCompleted, JobInv, TypeInv, TypeOK, workerVars, mainVars
<1>2. q.id = nextId
  OBVIOUS
<1> HIDE DEF q
<1>3. /\ UNCHANGED <<QueuedIds, RunningIds>>
      /\ PushingIds = {} /\ PushingIds' = {nextId}
  BY <1>1, <1>2 DEF QueuedIds, PushingIds, RunningIds
<1>4. /\ nextId \notin QueuedIds \cup RunningIds
      /\ nextId \notin ResultIds(completed) \cup ResultIds(delivered)
  BY <1>1 DEF JobInv, NothingLost
<1>5. NothingLost'
  <2>1. 1..(nextId' - 1) = 1..(nextId - 1) \cup {nextId}
    BY <1>1
  <2> QED  BY <1>1, <1>3, <2>1 DEF JobInv, NothingLost
<1>6. AnsweredOnce'
  <2>1. nextId \notin ResultIds(completed \cup delivered)
    BY <1>4, ResultIdsUnion
  <2> QED  BY <1>1, <1>3, <2>1 DEF JobInv, AnsweredOnce
<1>7. AnswersItsRequest' /\ PolledInOrder' /\ RanksInOrder'
  BY <1>1 DEF JobInv, AnswersItsRequest, PolledInOrder, RanksInOrder
<1>8. RunOnce' /\ StartedInOrder'
  BY <1>1, <1>3, <1>4 DEF JobInv, RunOnce, StartedInOrder
<1> QED  BY <1>5, <1>6, <1>7, <1>8 DEF JobInv

\* The push: the newest id goes from submit to the end of the queue.
LEMMA PushStep ==
    ASSUME JobInv, TypeInv', SubmitPush PROVE JobInv'
<1> DEFINE n == nextId - 1
<1>1. /\ mainPc = "push" /\ mainPc' = "notify"
      /\ jobQueue' = Append(jobQueue, submitting)
      /\ UNCHANGED <<nextId, workerPc, current, completed, nextRank, requests,
                     delivered>>
  BY DEF SubmitPush, workerVars
<1>2. /\ submitting \in Requests /\ submitting.id = n
      /\ jobQueue \in Seq(Requests) /\ nextId \in Nat /\ n \in Int
  BY <1>1 DEF JobInv, TypeInv, TypeOK, Provenance
<1>3. /\ Len(jobQueue') = Len(jobQueue) + 1 /\ Len(jobQueue) \in Nat
      /\ \A i \in 1..Len(jobQueue) : jobQueue'[i] = jobQueue[i]
      /\ jobQueue'[Len(jobQueue) + 1] = submitting
  BY <1>1, <1>2
<1>4. /\ PushingIds = {n} /\ PushingIds' = {}
      /\ RunningIds' = RunningIds
  BY <1>1, <1>2 DEF PushingIds, RunningIds
<1>5. QueuedIds' = QueuedIds \cup {n}
  BY <1>2, <1>3 DEF QueuedIds
<1>6. n \notin QueuedIds \cup RunningIds /\ n \notin ResultIds(completed \cup delivered)
  BY <1>4 DEF JobInv, RunOnce, AnsweredOnce
<1>7. \A i \in QueuedIds \cup RunningIds \cup ResultIds(completed \cup delivered) :
         i \in Int /\ i < n
  <2>1. QueuedIds \cup RunningIds \cup ResultIds(completed \cup delivered) \subseteq 1..n
    BY <1>2, ResultIdsUnion DEF JobInv, NothingLost
  <2> SUFFICES ASSUME NEW i \in QueuedIds \cup RunningIds
                                 \cup ResultIds(completed \cup delivered)
               PROVE  i \in Int /\ i < n
    OBVIOUS
  <2>2. i \in 1..n /\ i # n
    BY <1>6, <2>1
  <2> QED  BY <1>2, <2>2
<1>8. NothingLost' /\ AnsweredOnce'
  BY <1>1, <1>4, <1>5, <1>6 DEF JobInv, NothingLost, AnsweredOnce
<1>9. \A i \in 1..Len(jobQueue) : jobQueue[i].id \in QueuedIds
  BY DEF QueuedIds
<1>10. RunOnce'
  <2>1. (\A i, j \in 1..Len(jobQueue) : jobQueue[i].id = jobQueue[j].id => i = j)'
    <3>1. \A i \in 1..Len(jobQueue') : i \in 1..Len(jobQueue) \/ i = Len(jobQueue) + 1
      BY <1>3
    <3>2. \A i \in 1..Len(jobQueue) : jobQueue'[i].id # n
      BY <1>3, <1>6, <1>9
    <3> QED  BY <1>2, <1>3, <3>1, <3>2 DEF JobInv, RunOnce
  <2> QED  BY <1>1, <1>4, <1>5, <1>6, <2>1 DEF JobInv, RunOnce
<1>11. StartedInOrder'
  <2>1. (\A i, j \in 1..Len(jobQueue) : i < j => jobQueue[i].id < jobQueue[j].id)'
    <3> SUFFICES ASSUME NEW i \in 1..Len(jobQueue'), NEW j \in 1..Len(jobQueue'),
                        i < j
                 PROVE  jobQueue'[i].id < jobQueue'[j].id
      OBVIOUS
    <3>1. i \in 1..Len(jobQueue) /\ jobQueue'[i] = jobQueue[i]
      BY <1>3
    <3>2. CASE j \in 1..Len(jobQueue)
      BY <1>3, <3>1, <3>2 DEF JobInv, StartedInOrder
    <3>3. CASE j = Len(jobQueue) + 1
      BY <1>2, <1>3, <1>7, <1>9, <3>1, <3>3
    <3> QED  BY <1>3, <3>2, <3>3
  <2>2. (\A i \in QueuedIds, j \in RunningIds : j < i)'
    BY <1>4, <1>5, <1>7 DEF JobInv, StartedInOrder
  <2>3. \A r \in completed \cup delivered : r.id < n
    BY <1>7 DEF ResultIds
  <2> QED  BY <1>1, <1>5, <2>1, <2>2, <2>3 DEF JobInv, StartedInOrder
<1>12. AnswersItsRequest' /\ PolledInOrder' /\ RanksInOrder'
  BY <1>1 DEF JobInv, AnswersItsRequest, PolledInOrder, RanksInOrder
<1> QED  BY <1>8, <1>10, <1>11, <1>12 DEF JobInv

\* pop_job takes the head: its id goes from the queue to one worker.
LEMMA PopStep ==
    ASSUME JobInv, TypeInv', NEW w \in Workers, PopJob(w), jobQueue # <<>>
    PROVE  JobInv'
<1> DEFINE h == Head(jobQueue)
<1>1. /\ workerPc[w] = "pop"
      /\ current' = [current EXCEPT ![w] = h]
      /\ workerPc' = [workerPc EXCEPT ![w] = "run"]
      /\ jobQueue' = Tail(jobQueue)
      /\ UNCHANGED <<nextId, mainPc, submitting, completed, nextRank, requests,
                     delivered>>
  BY DEF PopJob, mainVars
<1>2. /\ jobQueue \in Seq(Requests)
      /\ workerPc \in [Workers -> WorkerPcs]
      /\ current \in [Workers -> Requests \cup {NoRequest}]
  BY DEF JobInv, TypeInv, TypeOK
<1>3. /\ Len(jobQueue) \in Nat /\ Len(jobQueue) > 0
      /\ Len(jobQueue') = Len(jobQueue) - 1
      /\ \A i \in 1..Len(jobQueue') : jobQueue'[i] = jobQueue[i + 1]
      /\ h = jobQueue[1]
  BY <1>1, <1>2
<1> HIDE DEF h
<1>4. PushingIds' = PushingIds
  BY <1>1 DEF PushingIds
<1>5. QueuedIds = QueuedIds' \cup {h.id}
  <2>1. \A i \in 1..Len(jobQueue) : i = 1 \/ i - 1 \in 1..Len(jobQueue')
    BY <1>3
  <2>2. QueuedIds \subseteq QueuedIds' \cup {h.id}
    <3> SUFFICES ASSUME NEW i \in 1..Len(jobQueue)
                 PROVE  jobQueue[i].id \in QueuedIds' \cup {h.id}
      BY DEF QueuedIds
    <3>1. CASE i = 1
      BY <1>3, <3>1
    <3>2. CASE i # 1
      <4>1. i - 1 \in 1..Len(jobQueue')
        BY <2>1, <3>2
      <4>2. jobQueue'[i - 1] = jobQueue[i]
        BY <1>3, <4>1
      <4> QED  BY <4>1, <4>2 DEF QueuedIds
    <3> QED  BY <3>1, <3>2
  <2>3. QueuedIds' \cup {h.id} \subseteq QueuedIds
    BY <1>3 DEF QueuedIds
  <2> QED  BY <2>2, <2>3
<1>6. h.id \notin QueuedIds'
  BY <1>3 DEF JobInv, RunOnce, QueuedIds
<1>7. RunningIds' = RunningIds \cup {h.id}
  BY <1>1, <1>2 DEF RunningIds
<1>8. h.id \notin RunningIds /\ h.id \notin PushingIds
  BY <1>5 DEF JobInv, RunOnce
<1>9. NothingLost' /\ AnsweredOnce'
  BY <1>1, <1>4, <1>5, <1>7 DEF JobInv, NothingLost, AnsweredOnce
<1>10. RunOnce'
  <2>1. (\A i, j \in 1..Len(jobQueue) : jobQueue[i].id = jobQueue[j].id => i = j)'
    BY <1>3 DEF JobInv, RunOnce
  <2>2. (\A u, v \in Workers :
            workerPc[u] = "run" /\ workerPc[v] = "run"
                /\ current[u].id = current[v].id => u = v)'
    BY <1>1, <1>2, <1>8 DEF JobInv, RunOnce, RunningIds
  <2>3. (RunningIds \cap QueuedIds = {})'
    BY <1>5, <1>6, <1>7 DEF JobInv, RunOnce
  <2>4. (PushingIds \cap (QueuedIds \cup RunningIds) = {})'
    BY <1>4, <1>5, <1>7, <1>8 DEF JobInv, RunOnce
  <2> QED  BY <2>1, <2>2, <2>3, <2>4 DEF RunOnce
<1>11. StartedInOrder'
  <2>1. (\A i, j \in 1..Len(jobQueue) : i < j => jobQueue[i].id < jobQueue[j].id)'
    BY <1>3 DEF JobInv, StartedInOrder
  <2>2. \A i \in QueuedIds' : h.id < i
    BY <1>3 DEF JobInv, StartedInOrder, QueuedIds
  <2> QED  BY <1>1, <1>5, <1>7, <2>1, <2>2 DEF JobInv, StartedInOrder
<1>12. AnswersItsRequest' /\ PolledInOrder' /\ RanksInOrder'
  BY <1>1 DEF JobInv, AnswersItsRequest, PolledInOrder, RanksInOrder
<1> QED  BY <1>9, <1>10, <1>11, <1>12 DEF JobInv

\* A worker publishes: its id goes from the worker to `completed'.
LEMMA FinishStep ==
    ASSUME JobInv, TypeInv', NEW w \in Workers, Finish(w) PROVE JobInv'
<1> DEFINE q == current[w]
<1>1. PICK ok \in BOOLEAN : PushCompleted(q, ok)
  BY DEF Finish
<1> DEFINE r == [id |-> q.id, kind |-> q.kind, owner |-> q.owner,
                 ok |-> ok, rank |-> nextRank]
<1>2. /\ completed' = completed \cup {r}
      /\ nextRank' = nextRank + 1
      /\ workerPc[w] = "run"
      /\ workerPc' = [workerPc EXCEPT ![w] = "loop"]
      /\ current' = [current EXCEPT ![w] = NoRequest]
      /\ UNCHANGED <<nextId, jobQueue, mainPc, submitting, requests, delivered>>
  BY <1>1 DEF PushCompleted, Finish, mainVars
<1>3. /\ r.id = q.id /\ r.kind = q.kind /\ r.owner = q.owner /\ r.rank = nextRank
      /\ [id |-> r.id, kind |-> r.kind, owner |-> r.owner]
            = [id |-> q.id, kind |-> q.kind, owner |-> q.owner]
  OBVIOUS
<1>4. /\ q \in requests /\ q \in Requests /\ nextRank \in Nat
      /\ workerPc \in [Workers -> WorkerPcs]
      /\ current \in [Workers -> Requests \cup {NoRequest}]
  BY <1>2 DEF JobInv, TypeInv, TypeOK, Provenance
<1>5. q = [id |-> q.id, kind |-> q.kind, owner |-> q.owner]
  BY <1>4 DEF Requests
<1> HIDE DEF r
<1>6. UNCHANGED <<QueuedIds, PushingIds>>
  BY <1>2 DEF QueuedIds, PushingIds
<1>7. q.id \in RunningIds
  BY <1>2 DEF RunningIds
<1>8. \A v \in Workers : workerPc[v] = "run" /\ v # w => current[v].id # q.id
  BY <1>2 DEF JobInv, RunOnce
<1>9. RunningIds = RunningIds' \cup {q.id} /\ q.id \notin RunningIds'
  <2>1. \A v \in Workers :
           /\ workerPc'[v] = "run" <=> workerPc[v] = "run" /\ v # w
           /\ v # w => current'[v] = current[v]
    BY <1>2, <1>4
  <2> QED  BY <1>2, <1>8, <2>1 DEF RunningIds
<1>10. ResultIds(completed') = ResultIds(completed) \cup {q.id}
  <2>1. ResultIds({r}) = {q.id}
    BY <1>3, ResultIdsSingle
  <2>2. ResultIds(completed \cup {r}) = ResultIds(completed) \cup ResultIds({r})
    BY ResultIdsUnion
  <2> QED  BY <1>2, <2>1, <2>2
<1>11. NothingLost'
  BY <1>2, <1>6, <1>9, <1>10 DEF JobInv, NothingLost
<1>12. \A s \in completed \cup delivered : s.id # q.id
  <2>1. q.id \notin ResultIds(completed \cup delivered)
    BY <1>7 DEF JobInv, AnsweredOnce
  <2> QED  BY <2>1 DEF ResultIds
<1>13. AnsweredOnce'
  <2>1. completed' \cap delivered' = {}
    BY <1>2, <1>3, <1>12 DEF JobInv, AnsweredOnce
  <2>2. \A s, t \in completed' \cup delivered' : s.id = t.id => s = t
    BY <1>2, <1>3, <1>12 DEF JobInv, AnsweredOnce
  <2>3. ResultIds(completed' \cup delivered')
            = ResultIds(completed \cup delivered) \cup {q.id}
    BY <1>2, <1>10, ResultIdsUnion
  <2>4. q.id \notin PushingIds \cup QueuedIds
    BY <1>7 DEF JobInv, RunOnce
  <2>5. ResultIds(completed' \cup delivered')
           \cap (PushingIds' \cup QueuedIds' \cup RunningIds') = {}
    <3>1. ResultIds(completed \cup delivered)
             \cap (PushingIds \cup QueuedIds \cup RunningIds) = {}
      BY DEF JobInv, AnsweredOnce
    <3> QED  BY <1>6, <1>9, <2>3, <2>4, <3>1
  <2> QED  BY <2>1, <2>2, <2>5 DEF AnsweredOnce
<1>14. AnswersItsRequest'
  BY <1>2, <1>3, <1>4, <1>5 DEF JobInv, AnswersItsRequest
<1>15. RunOnce'
  <2>1. (\A u, v \in Workers :
            workerPc[u] = "run" /\ workerPc[v] = "run"
                /\ current[u].id = current[v].id => u = v)'
    BY <1>2, <1>4 DEF JobInv, RunOnce
  <2> QED  BY <1>2, <1>6, <1>9, <2>1 DEF JobInv, RunOnce
<1>16. StartedInOrder'
  <2>1. \A i \in QueuedIds : q.id < i
    BY <1>7 DEF JobInv, StartedInOrder
  <2> QED  BY <1>2, <1>3, <1>6, <1>9, <2>1 DEF JobInv, StartedInOrder
<1>17. PolledInOrder' /\ RanksInOrder'
  <2>1. IsFiniteSet(completed')
    BY <1>2, FS_AddElement DEF JobInv, RanksInOrder
  <2>2. \A s \in completed \cup delivered : s.rank \in Nat
    BY DEF JobInv, TypeInv, TypeOK, Results
  <2> QED  BY <1>2, <1>3, <1>4, <2>1, <2>2 DEF JobInv, PolledInOrder, RanksInOrder
<1> QED  BY <1>11, <1>13, <1>14, <1>15, <1>16, <1>17 DEF JobInv

\* What a poll takes precedes, in the vector, every match it leaves behind.
LEMMA FirstOfIsFirst ==
    ASSUME NEW M, IsFiniteSet(M), \A r \in M : r.rank \in Nat, NEW max \in Nat,
           NEW r \in FirstOf(M, max), NEW s \in M \ FirstOf(M, max)
    PROVE  r.rank < s.rank
<1> DEFINE Below(t) == {u \in M : u.rank < t.rank}
<1>1. /\ max # 0 /\ r \in M
      /\ Cardinality(Below(r)) < max /\ ~(Cardinality(Below(s)) < max)
  BY DEF FirstOf
<1>2. SUFFICES ASSUME ~(r.rank < s.rank) PROVE FALSE
  OBVIOUS
<1>3. Below(s) \subseteq Below(r)
  BY <1>1, <1>2
<1>4. IsFiniteSet(Below(r))
  BY FS_Subset
<1>5. /\ Cardinality(Below(s)) <= Cardinality(Below(r))
      /\ Cardinality(Below(r)) \in Nat
      /\ IsFiniteSet(Below(s))
  BY <1>3, <1>4, FS_Subset, FS_CardinalityType
<1>6. Cardinality(Below(s)) \in Nat
  BY <1>5, FS_CardinalityType
<1> QED  BY <1>1, <1>5, <1>6

\* A poll: ids go from `completed' to the caller.
LEMMA TakeStep ==
    ASSUME JobInv, TypeInv', NEW M \in SUBSET completed, NEW max \in Limits,
           \A r \in M, s \in completed :
               r.kind = s.kind /\ r.owner = s.owner => s \in M,
           Take(M, max)
    PROVE  JobInv'
<1> DEFINE T == FirstOf(M, max)
<1>1. /\ completed' = completed \ T /\ delivered' = delivered \cup T
      /\ UNCHANGED <<nextId, jobQueue, mainPc, submitting, workerPc, current,
                     requests, nextRank>>
  BY DEF Take, mainVars, workerVars
<1>2. T \subseteq M
  BY DEF FirstOf
<1> HIDE DEF T
<1>3. completed' \cup delivered' = completed \cup delivered
  BY <1>1, <1>2
<1>4. UNCHANGED <<QueuedIds, PushingIds, RunningIds>>
  BY <1>1 DEF QueuedIds, PushingIds, RunningIds
<1>5. ResultIds(completed') \cup ResultIds(delivered')
        = ResultIds(completed) \cup ResultIds(delivered)
  <2>1. ResultIds(completed' \cup delivered')
          = ResultIds(completed') \cup ResultIds(delivered')
    BY ResultIdsUnion
  <2>2. ResultIds(completed \cup delivered)
          = ResultIds(completed) \cup ResultIds(delivered)
    BY ResultIdsUnion
  <2> QED  BY <1>3, <2>1, <2>2
<1>6. NothingLost'
  BY <1>1, <1>4, <1>5 DEF JobInv, NothingLost
<1>7. AnsweredOnce' /\ AnswersItsRequest'
  BY <1>1, <1>2, <1>3, <1>4 DEF JobInv, AnsweredOnce, AnswersItsRequest
<1>8. RunOnce' /\ StartedInOrder'
  BY <1>1, <1>3, <1>4 DEF JobInv, RunOnce, StartedInOrder
<1>9. RanksInOrder'
  <2>1. IsFiniteSet(completed')
    BY <1>1, FS_Subset DEF JobInv, RanksInOrder
  <2> QED  BY <1>1, <1>3, <2>1 DEF JobInv, RanksInOrder
<1>10. PolledInOrder'
  <2> SUFFICES ASSUME NEW r \in delivered', NEW s \in completed',
                      r.kind = s.kind, r.owner = s.owner
               PROVE  r.rank < s.rank
    BY DEF PolledInOrder
  <2>1. CASE r \in delivered
    BY <1>1, <2>1 DEF JobInv, PolledInOrder
  <2>2. CASE r \in T
    <3>1. r \in M /\ s \in M /\ s \notin T
      BY <1>1, <1>2, <2>2
    <3>2. IsFiniteSet(M)
      BY FS_Subset DEF JobInv, RanksInOrder
    <3>3. \A t \in M : t.rank \in Nat
      BY DEF JobInv, TypeInv, TypeOK, Results
    <3>4. max \in Nat
      BY LimitsAssumption
    <3> QED  BY <2>2, <3>1, <3>2, <3>3, <3>4, FirstOfIsFirst DEF T
  <2> QED  BY <1>1, <2>1, <2>2
<1> QED  BY <1>6, <1>7, <1>8, <1>9, <1>10 DEF JobInv

LEMMA JobStep == JobInv /\ [Next]_vars => JobInv'
<1> SUFFICES ASSUME JobInv, [Next]_vars PROVE JobInv'
  OBVIOUS
<1>t. TypeInv'
  BY TypeStep DEF JobInv
<1>w. workerPc \in [Workers -> WorkerPcs]
  BY DEF JobInv, TypeInv, TypeOK
<1>1. ASSUME NEW k \in Kinds, RegisterHandler(k) PROVE JobInv'
  BY <1>1, <1>t, NoHandover DEF RegisterHandler, workerVars, mainVars
<1>2. ASSUME NEW k \in Kinds, NEW o \in Owners, Submit(k, o) PROVE JobInv'
  BY <1>2, <1>t, SubmitUnknown, SubmitKnown
<1>3. CASE SubmitPush
  BY <1>3, <1>t, PushStep
<1>4. CASE SubmitNotify
  BY <1>4, <1>t, <1>w, NoHandover DEF SubmitNotify, Waiters
<1>5. ASSUME NEW max \in Limits, Poll(max) PROVE JobInv'
  BY <1>5, <1>t, TakeStep DEF Poll
<1>6. ASSUME NEW k \in Kinds, NEW max \in Limits, PollKind(k, max) PROVE JobInv'
  BY <1>6, <1>t, TakeStep DEF PollKind
<1>7. ASSUME NEW o \in Owners, NEW max \in Limits, PollOwner(o, max) PROVE JobInv'
  BY <1>7, <1>t, TakeStep DEF PollOwner
<1>8. ASSUME NEW k \in Kinds, NEW o \in Owners, NEW max \in Limits,
             PollKindOwner(k, o, max)
      PROVE  JobInv'
  BY <1>8, <1>t, TakeStep DEF PollKindOwner
<1>9. CASE Shutdown
  BY <1>9, <1>t, NoHandover DEF Shutdown, workerVars
<1>10. CASE ShutdownNotify
  BY <1>10, <1>t, <1>w, NoHandover DEF ShutdownNotify, Waiters
<1>11. CASE ShutdownJoin
  BY <1>11, <1>t, NoHandover DEF ShutdownJoin, workerVars
<1>12. ASSUME NEW w \in Workers, LoopTest(w) PROVE JobInv'
  BY <1>12, <1>t, <1>w, NoHandover DEF LoopTest, mainVars
<1>13. ASSUME NEW w \in Workers, PopJob(w) PROVE JobInv'
  <2>1. CASE jobQueue # <<>>
    BY <1>13, <1>t, <2>1, PopStep
  <2>2. CASE jobQueue = <<>>
    BY <1>13, <1>t, <1>w, <2>2, NoHandover DEF PopJob, mainVars
  <2> QED  BY <2>1, <2>2
<1>14. ASSUME NEW w \in Workers, Block(w) PROVE JobInv'
  BY <1>14, <1>t, <1>w, NoHandover DEF Block, mainVars
<1>15. ASSUME NEW w \in Workers, SpuriousWake(w) PROVE JobInv'
  BY <1>15, <1>t, <1>w, NoHandover DEF SpuriousWake, mainVars
<1>16. ASSUME NEW w \in Workers, Finish(w) PROVE JobInv'
  BY <1>16, <1>t, FinishStep
<1>17. CASE UNCHANGED vars
  BY <1>17, <1>t, NoHandover DEF vars
<1> QED
  BY <1>1, <1>2, <1>3, <1>4, <1>5, <1>6, <1>7, <1>8, <1>9, <1>10, <1>11,
     <1>12, <1>13, <1>14, <1>15, <1>16, <1>17
  DEF Next, MainCall, MainStep, WorkerStep

LEMMA JobInvariant == Spec => []JobInv
  BY JobInit, JobStep, PTL DEF Spec

\* Whatever the threads do, no accepted job disappears from the pool.
THEOREM JobsNotLost == Spec => []NothingLost
<1>1. JobInv => NothingLost
  BY DEF JobInv
<1> QED  BY <1>1, JobInvariant, PTL

\* Whatever the threads do, no job is answered twice.
THEOREM JobsAnsweredOnce == Spec => []AnsweredOnce
<1>1. JobInv => AnsweredOnce
  BY DEF JobInv
<1> QED  BY <1>1, JobInvariant, PTL

\* Whatever the threads do, no job is run twice.
THEOREM JobsRunOnce == Spec => []RunOnce
<1>1. JobInv => RunOnce
  BY DEF JobInv
<1> QED  BY <1>1, JobInvariant, PTL

\* Results reach the owner that submitted the job.
THEOREM ResultsAnswerRequests == Spec => []AnswersItsRequest
<1>1. JobInv => AnswersItsRequest
  BY DEF JobInv
<1> QED  BY <1>1, JobInvariant, PTL

\* Jobs start in the order of submission.
THEOREM JobsStartInOrder == Spec => []StartedInOrder
<1>1. JobInv => StartedInOrder
  BY DEF JobInv
<1> QED  BY <1>1, JobInvariant, PTL

\* Polls return the results of one kind and owner in the order of completion.
THEOREM ResultsPolledInOrder == Spec => []PolledInOrder
<1>1. JobInv => PolledInOrder
  BY DEF JobInv
<1> QED  BY <1>1, JobInvariant, PTL

\* Every job submitted is in one place, run by one worker and answered once.
THEOREM EveryJobOnce == Spec => []EachOnce
  BY JobsNotLost, JobsAnsweredOnce, JobsRunOnce, PTL DEF EachOnce

\* Jobs start in the order of submit and results come in that of completion.
THEOREM JobsInOrder == Spec => []InOrder
  BY JobsStartInOrder, ResultsPolledInOrder, PTL DEF InOrder
-----------------------------------------------------------------------------
(***************************************************************************)
(* The pool implements JobDelivery.  A step either leaves every phase      *)
(* alone or is one abstract step; which one follows from JobInv, because   *)
(* an id that is with submit, in the queue or with a worker has no result. *)
(***************************************************************************)

LEMMA PhaseInit == Init => Delivery!Init
<1> SUFFICES ASSUME Init PROVE Delivery!Init
  OBVIOUS
<1>1. \A i \in JobIds : i >= nextId
  BY MaxJobsAssumption DEF Init, JobIds
<1> QED  BY <1>1 DEF Delivery!Init, Delivery!Ids, JobPhase, JobIds

\* Where no id is given out and no result is moved, no phase changes.
LEMMA PhaseSame ==
    ASSUME UNCHANGED <<nextId, completed, delivered>> PROVE JobPhase' = JobPhase
  BY DEF JobPhase, ResultIds

\* submit, of either sort of kind, is an Accept of the id it gives out.
LEMMA PhaseSubmit ==
    ASSUME JobInv, NEW k \in Kinds, NEW o \in Owners, Submit(k, o)
    PROVE  Delivery!Accept(nextId) /\ nextId \in JobIds
<1> DEFINE r == [id |-> nextId, kind |-> k, owner |-> o, ok |-> FALSE,
                 rank |-> nextRank]
           n == nextId
<1>1. /\ n \in JobIds /\ n \in Nat /\ nextId' = n + 1 /\ UNCHANGED delivered
      /\ completed' = completed \/ completed' = completed \cup {r}
  BY MaxJobsAssumption DEF Submit, PushCompleted, JobInv, TypeInv, TypeOK, JobIds
<1>2. r.id = n
  OBVIOUS
<1> HIDE DEF r
<1>3. n \notin ResultIds(completed) /\ n \notin ResultIds(delivered)
  BY <1>1 DEF JobInv, NothingLost
<1>4. ResultIds(completed') = ResultIds(completed)
        \/ ResultIds(completed') = ResultIds(completed) \cup {n}
  <2>1. ResultIds({r}) = {n}
    BY <1>2, ResultIdsSingle
  <2>2. ResultIds(completed \cup {r}) = ResultIds(completed) \cup ResultIds({r})
    BY ResultIdsUnion
  <2> QED  BY <1>1, <2>1, <2>2
<1>5. \A i \in JobIds : i \in Int
  BY DEF JobIds
<1>6. \A i \in JobIds : i # n => JobPhase'[i] = JobPhase[i]
  <2> SUFFICES ASSUME NEW i \in JobIds, i # n PROVE JobPhase'[i] = JobPhase[i]
    OBVIOUS
  <2>1. i \in ResultIds(completed') <=> i \in ResultIds(completed)
    BY <1>4
  <2>2. i >= nextId' <=> i >= nextId
    BY <1>1, <1>5
  <2> QED  BY <1>1, <2>1, <2>2 DEF JobPhase
<1>7. JobPhase[n] = "unborn"
  BY <1>1 DEF JobPhase
<1>8. JobPhase'[n] \in {"accepted", "finished"}
  BY <1>1, <1>3 DEF JobPhase
<1>9. JobPhase' = [JobPhase EXCEPT ![n] = JobPhase'[n]]
  <2>1. /\ DOMAIN JobPhase = JobIds /\ DOMAIN JobPhase' = JobIds
        /\ JobPhase = [i \in JobIds |-> JobPhase[i]]
        /\ JobPhase' = [i \in JobIds |-> JobPhase'[i]]
    BY DEF JobPhase
  <2> QED  BY <1>1, <1>6, <2>1
<1>10. \A j \in JobIds : JobPhase[j] = "unborn" => n <= j
  BY <1>1, <1>5 DEF JobPhase
<1> QED
  BY <1>1, <1>7, <1>8, <1>9, <1>10 DEF Delivery!Accept, Delivery!Ids, JobIds

\* A worker publishing its result is a Finish of the job it ran.
LEMMA PhaseFinish ==
    ASSUME JobInv, NEW w \in Workers, Finish(w)
    PROVE  Delivery!Finish(current[w].id) /\ current[w].id \in JobIds
<1> DEFINE q == current[w]
           n == q.id
<1>1. PICK ok \in BOOLEAN : PushCompleted(q, ok)
  BY DEF Finish
<1> DEFINE r == [id |-> n, kind |-> q.kind, owner |-> q.owner,
                 ok |-> ok, rank |-> nextRank]
<1>2. completed' = completed \cup {r} /\ UNCHANGED <<nextId, delivered>>
  BY <1>1 DEF PushCompleted, Finish
<1>3. r.id = n
  OBVIOUS
<1> HIDE DEF r
<1>4. workerPc[w] = "run" /\ q \in requests /\ q \in Requests
  BY DEF Finish, JobInv, TypeInv, TypeOK, Provenance
<1>5. n \in JobIds /\ ~(n >= nextId)
  BY <1>4 DEF JobInv, TypeInv, TypeOK, Provenance, Requests, JobIds
<1>6. n \notin ResultIds(completed) /\ n \notin ResultIds(delivered)
  <2>1. n \in RunningIds
    BY <1>4 DEF RunningIds
  <2>2. n \notin ResultIds(completed \cup delivered)
    BY <2>1 DEF JobInv, AnsweredOnce
  <2> QED  BY <2>2, ResultIdsUnion
<1>7. ResultIds(completed') = ResultIds(completed) \cup {n}
  <2>1. ResultIds({r}) = {n}
    BY <1>3, ResultIdsSingle
  <2>2. ResultIds(completed \cup {r}) = ResultIds(completed) \cup ResultIds({r})
    BY ResultIdsUnion
  <2> QED  BY <1>2, <2>1, <2>2
<1>8. JobPhase[n] = "accepted"
  BY <1>5, <1>6 DEF JobPhase
<1>9. JobPhase' = [JobPhase EXCEPT ![n] = "finished"]
  BY <1>2, <1>5, <1>7 DEF JobPhase
<1> QED  BY <1>5, <1>8, <1>9 DEF Delivery!Finish

\* A poll is a Deliver of the ids of what it returns.
LEMMA PhaseTake ==
    ASSUME JobInv, JobInv', NEW M \in SUBSET completed, NEW max, Take(M, max)
    PROVE  \E S \in SUBSET JobIds : Delivery!Deliver(S)
<1> DEFINE T == FirstOf(M, max)
           S == ResultIds(T)
<1>1. /\ completed' = completed \ T /\ delivered' = delivered \cup T
      /\ nextId' = nextId
  BY DEF Take
<1>2. T \subseteq completed
  BY DEF FirstOf
<1> HIDE DEF T
<1>3. \A r \in completed \cup delivered : r.id \in JobIds /\ ~(r.id >= nextId)
  <2>1. \A r \in completed \cup delivered : r.id \in 1..(nextId - 1)
    BY DEF JobInv, NothingLost, ResultIds
  <2> QED  BY <2>1 DEF JobInv, TypeInv, TypeOK, JobIds, Results
<1>4. S \subseteq JobIds
  BY <1>2, <1>3 DEF ResultIds
<1>5. \A i \in S : JobPhase[i] = "finished"
  <2>1. S \subseteq ResultIds(completed)
    BY <1>2 DEF ResultIds
  <2>2. \A i \in S : ~(i >= nextId)
    BY <1>2, <1>3 DEF ResultIds
  <2> QED  BY <1>4, <2>1, <2>2 DEF JobPhase
<1>6. ResultIds(delivered') = ResultIds(delivered) \cup S
  BY <1>1, ResultIdsUnion
<1>7. ResultIds(completed') = ResultIds(completed) \ S
  <2>1. \A r \in completed, s \in T : r.id = s.id => r \in T
    BY <1>2 DEF JobInv, AnsweredOnce
  <2> QED  BY <1>1, <1>2, <2>1 DEF ResultIds
<1>8. JobPhase' = [i \in JobIds |-> IF i \in S THEN "delivered" ELSE JobPhase[i]]
  <2> SUFFICES ASSUME NEW i \in JobIds
               PROVE  JobPhase'[i] = IF i \in S THEN "delivered" ELSE JobPhase[i]
    BY DEF JobPhase
  <2>1. CASE i \in S
    <3>1. ~(i >= nextId)
      BY <1>2, <1>3, <2>1 DEF ResultIds
    <3> QED  BY <1>1, <1>6, <1>7, <2>1, <3>1 DEF JobPhase
  <2>2. CASE i \notin S
    BY <1>1, <1>6, <1>7, <2>2 DEF JobPhase
  <2> QED  BY <2>1, <2>2
<1> QED
  BY <1>4, <1>5, <1>8 DEF Delivery!Deliver, Delivery!Ids, JobIds

LEMMA PhaseStep ==
    JobInv /\ JobInv' /\ [Next]_vars => [Delivery!Next]_JobPhase
<1> SUFFICES ASSUME JobInv, JobInv', [Next]_vars
             PROVE  Delivery!Next \/ JobPhase' = JobPhase
  OBVIOUS
<1>1. ASSUME NEW k \in Kinds, NEW o \in Owners, Submit(k, o) PROVE Delivery!Next
  BY <1>1, PhaseSubmit DEF Delivery!Next, Delivery!Ids, JobIds
<1>2. ASSUME NEW w \in Workers, Finish(w) PROVE Delivery!Next
  BY <1>2, PhaseFinish DEF Delivery!Next, Delivery!Ids, JobIds
<1>3. ASSUME NEW M \in SUBSET completed, NEW max \in Limits, Take(M, max)
      PROVE  Delivery!Next
  BY <1>3, PhaseTake DEF Delivery!Next, Delivery!Ids, JobIds
<1>4. CASE \/ \E k \in Kinds : RegisterHandler(k)
           \/ Shutdown \/ MainStep
           \/ \E w \in Workers : LoopTest(w) \/ PopJob(w) \/ Block(w) \/ SpuriousWake(w)
           \/ UNCHANGED vars
  <2>1. UNCHANGED <<nextId, completed, delivered>>
    BY <1>4 DEF RegisterHandler, Shutdown, MainStep, SubmitPush, SubmitNotify,
                ShutdownNotify, ShutdownJoin, LoopTest, PopJob, Block,
                SpuriousWake, vars
  <2> QED  BY <2>1, PhaseSame
<1> QED
  BY <1>1, <1>2, <1>3, <1>4
  DEF Next, MainCall, WorkerStep, Poll, PollKind, PollOwner, PollKindOwner

\* The pool is an implementation of the one-variable machine its callers see.
THEOREM PoolImplementsDelivery == Spec => ImplementsDelivery
  BY JobInvariant, PhaseInit, PhaseStep, PTL DEF Spec, Delivery!Spec, ImplementsDelivery
-----------------------------------------------------------------------------
(***************************************************************************)
(* No wake-up is lost.  EnoughAwake survives the gap of pop_job only       *)
(* because the worker in it holds queueMutex over an empty queue: nothing  *)
(* can be pushed between its test of the predicate and its wait.           *)
(***************************************************************************)

\* A worker about to wait has found the queue empty, and holds the mutex that
\* a push needs.
NothingToMiss ==
    \A w \in Workers : workerPc[w] = "block" => jobQueue = <<>>

AwakeInv == TypeInv /\ NothingToMiss /\ EnoughAwake

\* The workers on the way to pop_job.
Poppers == {w \in Workers : workerPc[w] = "pop"}

Announced == IF mainPc = "notify" THEN 1 ELSE 0

LEMMA PoppersCounted == IsFiniteSet(Poppers) /\ Cardinality(Poppers) \in Nat
  BY WorkersAssumption, FS_Subset, FS_CardinalityType DEF Poppers

LEMMA AwakeInit == Init => AwakeInv
<1> SUFFICES ASSUME Init PROVE NothingToMiss /\ EnoughAwake
  BY TypeInit DEF AwakeInv
<1> QED  BY DEF Init, NothingToMiss, EnoughAwake, Waiters

\* A worker that is woken, or begins a round, adds one to those on the way.
LEMMA OneMorePopper ==
    ASSUME TypeInv, NEW w \in Workers, workerPc[w] # "pop",
           workerPc' = [workerPc EXCEPT ![w] = "pop"]
    PROVE  Cardinality(Poppers') = Cardinality(Poppers) + 1
<1>1. Poppers' = Poppers \cup {w} /\ w \notin Poppers
  BY DEF TypeInv, TypeOK, Poppers
<1> QED  BY <1>1, PoppersCounted, FS_AddElement

\* A worker that stops being on the way takes one from them.
LEMMA OneLessPopper ==
    ASSUME TypeInv, NEW w \in Workers, NEW pc, pc # "pop", workerPc[w] = "pop",
           workerPc' = [workerPc EXCEPT ![w] = pc]
    PROVE  Cardinality(Poppers') = Cardinality(Poppers) - 1
<1>1. Poppers' = Poppers \ {w} /\ w \in Poppers
  BY DEF TypeInv, TypeOK, Poppers
<1> QED  BY <1>1, PoppersCounted, FS_RemoveElement

LEMMA AwakeStep == AwakeInv /\ [Next]_vars => AwakeInv'
<1> SUFFICES ASSUME AwakeInv, [Next]_vars PROVE NothingToMiss' /\ EnoughAwake'
  BY TypeStep DEF AwakeInv
<1>1. /\ TypeInv
      /\ workerPc \in [Workers -> WorkerPcs]
      /\ jobQueue \in Seq(Requests) /\ Len(jobQueue) \in Nat
      /\ Cardinality(Poppers) \in Nat
      /\ NothingToMiss
      /\ Waiters # {} => Len(jobQueue) <= Cardinality(Poppers) + Announced
  BY PoppersCounted DEF AwakeInv, TypeInv, TypeOK, EnoughAwake, Poppers, Announced
<1> SUFFICES /\ NothingToMiss'
             /\ Waiters' # {} => Len(jobQueue') <= Cardinality(Poppers') + Announced'
  BY DEF EnoughAwake, Poppers, Announced
<1> HIDE DEF Poppers
<1>2. ASSUME UNCHANGED <<jobQueue, workerPc>>, Announced' = Announced
      PROVE  /\ NothingToMiss'
             /\ Waiters' # {} => Len(jobQueue') <= Cardinality(Poppers') + Announced'
  BY <1>1, <1>2 DEF NothingToMiss, Waiters, Poppers
<1>3. ASSUME NEW k \in Kinds, RegisterHandler(k) PROVE Announced' = Announced /\ UNCHANGED <<jobQueue, workerPc>>
  BY <1>3 DEF RegisterHandler, Announced, workerVars, mainVars
<1>4. ASSUME NEW k \in Kinds, NEW o \in Owners, Submit(k, o)
      PROVE  Announced' = Announced /\ UNCHANGED <<jobQueue, workerPc>>
  BY <1>4 DEF Submit, Announced, workerVars, mainVars
<1>5. ASSUME NEW M, NEW max, Take(M, max)
      PROVE  Announced' = Announced /\ UNCHANGED <<jobQueue, workerPc>>
  BY <1>5 DEF Take, Announced, workerVars, mainVars
<1>6. CASE SubmitPush
  <2>1. /\ UNCHANGED workerPc /\ Announced = 0 /\ Announced' = 1
        /\ Len(jobQueue') = Len(jobQueue) + 1
        /\ \A w \in Workers : workerPc[w] # "block"
    BY <1>1, <1>6 DEF SubmitPush, Announced, workerVars, QueueMutexFree
  <2> QED  BY <1>1, <2>1 DEF NothingToMiss, Waiters, Poppers
<1>7. CASE SubmitNotify
  <2>1. UNCHANGED jobQueue /\ Announced = 1 /\ Announced' = 0
    BY <1>7 DEF SubmitNotify, Announced
  <2>2. CASE Waiters = {}
    <3>1. UNCHANGED workerPc
      BY <1>7, <2>2 DEF SubmitNotify
    <3> QED  BY <1>1, <2>1, <2>2, <3>1 DEF NothingToMiss, Waiters
  <2>3. CASE Waiters # {}
    <3>1. PICK w \in Waiters : workerPc' = [workerPc EXCEPT ![w] = "pop"]
      BY <1>7, <2>3 DEF SubmitNotify
    <3>2. w \in Workers /\ workerPc[w] = "waiting"
      BY <3>1 DEF Waiters
    <3>3. Cardinality(Poppers') = Cardinality(Poppers) + 1
      BY <1>1, <3>1, <3>2, OneMorePopper
    <3>4. NothingToMiss'
      BY <1>1, <2>1, <3>1 DEF NothingToMiss
    <3> QED  BY <1>1, <2>1, <2>3, <3>3, <3>4
  <2> QED  BY <2>2, <2>3
<1>8. CASE Shutdown
  <2>1. Announced' = Announced /\ UNCHANGED <<jobQueue, workerPc>>
    BY <1>8 DEF Shutdown, Announced, workerVars
  <2> QED  BY <1>2, <2>1
<1>9. CASE ShutdownNotify
  <2>1. /\ UNCHANGED jobQueue
        /\ \A w \in Workers : workerPc'[w] # "waiting"
        /\ \A w \in Workers : workerPc'[w] = "block" => workerPc[w] = "block"
    BY <1>1, <1>9 DEF ShutdownNotify, Waiters
  <2> QED  BY <1>1, <2>1 DEF NothingToMiss, Waiters
<1>10. CASE ShutdownJoin
  <2>1. Announced' = Announced /\ UNCHANGED <<jobQueue, workerPc>>
    BY <1>10 DEF ShutdownJoin, Announced, workerVars
  <2> QED  BY <1>2, <2>1
<1>11. ASSUME NEW w \in Workers, LoopTest(w) \/ SpuriousWake(w)
       PROVE  /\ NothingToMiss'
              /\ Waiters' # {} => Len(jobQueue') <= Cardinality(Poppers') + Announced'
  <2>1. /\ UNCHANGED jobQueue /\ Announced' = Announced
        /\ workerPc[w] \in {"loop", "waiting"}
        /\ \/ workerPc' = [workerPc EXCEPT ![w] = "pop"]
           \/ workerPc' = [workerPc EXCEPT ![w] = "exited"]
    BY <1>11 DEF LoopTest, SpuriousWake, Announced, mainVars
  <2>2. NothingToMiss'
    BY <1>1, <2>1 DEF NothingToMiss
  <2>3. Waiters' # {} => Waiters # {}
    BY <1>1, <2>1 DEF Waiters
  <2>4. CASE workerPc' = [workerPc EXCEPT ![w] = "pop"]
    <3>1. Cardinality(Poppers') = Cardinality(Poppers) + 1
      BY <1>1, <2>1, <2>4, OneMorePopper
    <3> QED  BY <1>1, <2>1, <2>2, <2>3, <3>1 DEF Announced
  <2>5. CASE workerPc' = [workerPc EXCEPT ![w] = "exited"]
    <3>1. Poppers' = Poppers
      BY <1>1, <2>1, <2>5 DEF Poppers
    <3> QED  BY <1>1, <2>1, <2>2, <2>3, <3>1
  <2> QED  BY <2>1, <2>4, <2>5
<1>12. ASSUME NEW w \in Workers, PopJob(w)
       PROVE  /\ NothingToMiss'
              /\ Waiters' # {} => Len(jobQueue') <= Cardinality(Poppers') + Announced'
  <2>1. /\ workerPc[w] = "pop" /\ Announced' = Announced
        /\ \A v \in Workers : workerPc[v] # "block"
    BY <1>12 DEF PopJob, QueueMutexFree, Announced, mainVars
  <2>2. CASE jobQueue # <<>>
    <3>1. /\ workerPc' = [workerPc EXCEPT ![w] = "run"]
          /\ Len(jobQueue') = Len(jobQueue) - 1
      BY <1>1, <1>12, <2>2 DEF PopJob
    <3>2. Cardinality(Poppers') = Cardinality(Poppers) - 1
      BY <1>1, <2>1, <3>1, OneLessPopper
    <3>3. NothingToMiss'
      BY <1>1, <2>1, <3>1 DEF NothingToMiss
    <3>4. Waiters' = Waiters
      BY <1>1, <2>1, <3>1 DEF Waiters
    <3> QED  BY <1>1, <2>1, <3>1, <3>2, <3>3, <3>4 DEF Announced
  <2>3. CASE jobQueue = <<>>
    <3>1. jobQueue' = <<>>
      BY <1>12, <2>3 DEF PopJob
    <3>2. Len(jobQueue') = 0 /\ Cardinality(Poppers') \in Nat
      BY <3>1, WorkersAssumption, FS_Subset, FS_CardinalityType DEF Poppers
    <3> QED  BY <3>1, <3>2 DEF NothingToMiss, Announced
  <2> QED  BY <2>2, <2>3
<1>13. ASSUME NEW w \in Workers, Block(w)
       PROVE  /\ NothingToMiss'
              /\ Waiters' # {} => Len(jobQueue') <= Cardinality(Poppers') + Announced'
  <2>1. jobQueue = <<>> /\ jobQueue' = <<>>
    BY <1>1, <1>13 DEF Block, NothingToMiss
  <2>2. Len(jobQueue') = 0 /\ Cardinality(Poppers') \in Nat
    BY <2>1, WorkersAssumption, FS_Subset, FS_CardinalityType DEF Poppers
  <2> QED  BY <2>1, <2>2 DEF NothingToMiss, Announced
<1>14. ASSUME NEW w \in Workers, Finish(w)
       PROVE  /\ NothingToMiss'
              /\ Waiters' # {} => Len(jobQueue') <= Cardinality(Poppers') + Announced'
  <2>1. /\ UNCHANGED jobQueue /\ Announced' = Announced
        /\ workerPc[w] = "run" /\ workerPc' = [workerPc EXCEPT ![w] = "loop"]
    BY <1>14 DEF Finish, Announced, mainVars
  <2>2. Waiters' = Waiters /\ Poppers' = Poppers
    BY <1>1, <2>1 DEF Waiters, Poppers
  <2>3. NothingToMiss'
    BY <1>1, <2>1 DEF NothingToMiss
  <2> QED  BY <1>1, <2>1, <2>2, <2>3
<1>15. CASE UNCHANGED vars
  <2>1. Announced' = Announced /\ UNCHANGED <<jobQueue, workerPc>>
    BY <1>15 DEF vars, Announced
  <2> QED  BY <1>2, <2>1
<1> QED
  BY <1>2, <1>3, <1>4, <1>5, <1>6, <1>7, <1>8, <1>9, <1>10, <1>11, <1>12, <1>13,
     <1>14, <1>15
  DEF Next, MainCall, MainStep, WorkerStep, Poll, PollKind, PollOwner, PollKindOwner

\* As long as a worker sleeps, every queued job has a worker of its own on the
\* way to pop_job, save the one whose notify_one is still to come.
THEOREM NoWakeUpIsLost == Spec => []EnoughAwake
<1>1. AwakeInv => EnoughAwake
  BY DEF AwakeInv
<1> QED  BY <1>1, AwakeInit, AwakeStep, PTL DEF Spec
=============================================================================
