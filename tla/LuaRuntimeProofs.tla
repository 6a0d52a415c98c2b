---------------------------- MODULE LuaRuntimeProofs ---------------------------
(***************************************************************************)
(* Proofs about LuaRuntime, for every scenario and every bound: the tables *)
(* that the HTTP client and the process module keep on the side, and the   *)
(* unregistrations that the callback registry notes; then the handle of    *)
(* the realtime module; and what the steps of the registry, the scripts,   *)
(* the handle, the ssh, the jobs and the HTTP module do to the order of    *)
(* events, for LuaAnswersProofs, which goes on with the other services.    *)
(***************************************************************************)
EXTENDS LuaRuntime, SequenceTheorems, FiniteSetTheorems, TLAPS

-----------------------------------------------------------------------------
(* The HTTP client.  Every step of the runtime is one of its steps or      *)
(* leaves it alone.                                                        *)

HttpStep ==
    \/ HttpSubmit
    \/ \E id : HttpCancel(id)
    \/ \E max \in Nat : HttpPoll(max)
    \/ \E t \in HttpThreads :
          \/ HttpTake(t) \/ HttpChunk(t) \/ HttpForget(t) \/ HttpExit(t)
          \/ \E result : HttpAnswer(t, result)
    \/ HttpStop
    \/ HttpJoined
    \/ UNCHANGED hcVars

\* Which step of the client each step of the runtime is.
LEMMA NextIsHttpStep == [Next]_vars => HttpStep
<1> SUFFICES ASSUME [Next]_vars PROVE HttpStep
  OBVIOUS
<1>1. CASE Script
  BY <1>1 DEF Script, HttpStep, HttpRequest, HttpCancelCall, HttpPollCall, JobsOnly,
     SshOnly, ProcessOnly, RealtimeOnly, CallbacksOnly, TexturesOnly
<1>2. CASE ScriptWithChildren
  BY <1>2 DEF ScriptWithChildren, HttpStep, ProcessOnly
<1>3. CASE Frames
  BY <1>3 DEF Frames, HttpStep, HttpDispatch, JobsOnly, SshOnly, ProcessOnly,
     CallbacksOnly, TexturesOnly
<1>4. CASE Continue
  BY <1>4 DEF Continue, HttpStep, SshOnly, RealtimeOnly, CallbacksOnly
<1>5. CASE Threads
  BY <1>5 DEF Threads, HttpStep, HttpStreamChunk, JobsOnly, SshOnly, ProcessOnly,
     RealtimeOnly, TexturesOnly
<1>6. CASE EngineShutdown
  BY <1>6 DEF EngineShutdown, HttpStep
<1>7. CASE RuntimeEnds
  BY <1>7 DEF RuntimeEnds, HttpStep, HttpDrop, RealtimeOnly
<1>8. CASE UNCHANGED vars
  BY <1>8 DEF vars, HttpStep
<1> QED
  BY <1>1, <1>2, <1>3, <1>4, <1>5, <1>6, <1>7, <1>8 DEF Next

Given == 1..(http_next - 1)
Has(t) == performing[t].pc \in {"performing", "answered"}
Queued == {http_pending[i] : i \in DOMAIN http_pending}

\* Ids are given out in ascending order, and a request is at one place.
HttpInv ==
    /\ http_next \in Nat \ {0}
    /\ http_pending \in Seq(Given)
    /\ \A i, j \in 1..Len(http_pending) : http_pending[i] = http_pending[j] => i = j
    /\ performing \in [HttpThreads ->
            [pc : {"idle", "performing", "answered", "exit"}, id : Nat, chunks : Nat]]
    /\ \A t \in HttpThreads : Has(t) => performing[t].id \in Given \ Queued
    /\ \A t, u \in HttpThreads :
          Has(t) /\ Has(u) /\ performing[t].id = performing[u].id => t = u
    /\ FlagsFollowRequests

LEMMA HttpInvInit == Init => HttpInv
  BY DEF Init, HcInit, HttpInv, Given, Has, Queued, Idle, Doing, NoRequest,
     FlagsFollowRequests, Held

\* The steps that queue no request and take none.
LEMMA HttpInvThread ==
    ASSUME HttpInv, UNCHANGED <<http_next, http_pending>>,
           NEW t \in HttpThreads,
           NEW d \in [pc : {"idle", "performing", "answered", "exit"}, id : Nat, chunks : Nat],
           performing' = [performing EXCEPT ![t] = d],
           d.pc \in {"performing", "answered"} => Has(t) /\ d.id = performing[t].id,
           \/ /\ d.pc \in {"performing", "answered"} <=> Has(t)
              /\ cancel_flags' = cancel_flags
           \/ /\ Has(t)
              /\ d.pc \notin {"performing", "answered"}
              /\ cancel_flags' = cancel_flags \ {performing[t].id}
    PROVE  HttpInv'
<1>1. \A u \in HttpThreads : performing'[u] = IF u = t THEN d ELSE performing[u]
  BY DEF HttpInv
<1>2. \A u \in HttpThreads : Has(u)' => Has(u) /\ performing'[u].id = performing[u].id
  BY <1>1 DEF Has
<1>3. performing' \in [HttpThreads ->
            [pc : {"idle", "performing", "answered", "exit"}, id : Nat, chunks : Nat]]
  BY DEF HttpInv
<1>4. FlagsFollowRequests'
  <2>1. cancel_flags = Held \cup Queued  BY DEF HttpInv, FlagsFollowRequests, Queued
  <2>2. Queued' = Queued  BY DEF Queued
  <2>3. CASE d.pc \in {"performing", "answered"} <=> Has(t)
    <3>1. \A u \in HttpThreads : Has(u)' <=> Has(u)  BY <1>1, <2>3 DEF Has
    <3>2. Held' = Held  BY <3>1, <1>2 DEF Held, Has
    <3> QED  BY <2>1, <2>2, <2>3, <3>2 DEF FlagsFollowRequests, Queued
  <2>4. CASE Has(t) /\ d.pc \notin {"performing", "answered"}
    <3>1. \A u \in HttpThreads : Has(u)' <=> Has(u) /\ u # t  BY <1>1, <2>4 DEF Has
    <3>2. Held' = Held \ {performing[t].id}  BY <3>1, <1>2, <2>4 DEF Held, Has, HttpInv
    <3>3. performing[t].id \notin Queued  BY <2>4 DEF HttpInv
    <3> QED  BY <2>1, <2>2, <2>4, <3>2, <3>3 DEF FlagsFollowRequests, Queued
  <2> QED  BY <2>3, <2>4
<1>5. /\ \A u \in HttpThreads : Has(u)' => performing'[u].id \in Given \ Queued
      /\ \A u, v \in HttpThreads :
            Has(u)' /\ Has(v)' /\ performing'[u].id = performing'[v].id => u = v
  BY <1>2 DEF HttpInv
<1> QED  BY <1>3, <1>4, <1>5 DEF HttpInv, Given, Queued, Has

\* A submit puts a request at the end of the queue, with a flag.
LEMMA HttpInvSubmit == HttpInv /\ HttpSubmit => HttpInv'
<1> SUFFICES ASSUME HttpInv, HttpSubmit PROVE HttpInv'
  OBVIOUS
<1>1. /\ http_next' = http_next + 1
      /\ http_pending' = Append(http_pending, http_next)
      /\ cancel_flags' = cancel_flags \cup {http_next}
      /\ performing' = performing
  BY DEF HttpSubmit
<1>2. http_pending \in Seq(Given) /\ http_next \in Nat \ {0}
  BY DEF HttpInv
<1>3. Given \subseteq Given' /\ http_next \in Given' /\ http_next \notin Given
  BY <1>1, <1>2 DEF Given
<1>4. http_pending' \in Seq(Given')
  <2>1. http_pending \in Seq(Given')  BY <1>2, <1>3, SeqMonotonic
  <2> QED  BY <1>1, <1>3, <2>1
<1>5. /\ Len(http_pending') = Len(http_pending) + 1
      /\ \A i \in 1..Len(http_pending) : /\ http_pending'[i] = http_pending[i]
                                         /\ http_pending[i] \in Given
      /\ http_pending'[Len(http_pending) + 1] = http_next
  BY <1>1, <1>2
<1>6. \A i, j \in 1..Len(http_pending') : http_pending'[i] = http_pending'[j] => i = j
  BY <1>2, <1>3, <1>5 DEF HttpInv
<1>7. Queued' = Queued \cup {http_next}
  BY <1>2, <1>4, <1>5 DEF Queued
<1>8. \A t \in HttpThreads : Has(t)' => performing'[t].id \in Given' \ Queued'
  BY <1>1, <1>3, <1>7 DEF HttpInv, Has
<1>9. FlagsFollowRequests'
  BY <1>1, <1>7 DEF HttpInv, FlagsFollowRequests, Queued, Held
<1> QED
  BY <1>1, <1>2, <1>4, <1>6, <1>8, <1>9 DEF HttpInv, Given, Has

\* A thread takes the head of the queue, whose flag it keeps.
LEMMA HttpInvTake ==
    ASSUME HttpInv, NEW t \in HttpThreads, HttpTake(t)
    PROVE  HttpInv'
<1>1. /\ http_pending # <<>>
      /\ http_pending' = Tail(http_pending)
      /\ http_next' = http_next
      /\ cancel_flags' = cancel_flags
      /\ ~Has(t)
  BY DEF HttpTake, Has
<1>2. http_pending \in Seq(Given) /\ http_next \in Nat \ {0}
  BY DEF HttpInv
<1>3. PICK pc \in {"performing", "answered"} :
        performing' = [performing EXCEPT ![t] = Doing(pc, Head(http_pending), 0)]
  BY DEF HttpTake
<1>4. /\ Head(http_pending) = http_pending[1]
      /\ Len(http_pending) \in Nat \ {0}
      /\ Len(http_pending') = Len(http_pending) - 1
      /\ http_pending' \in Seq(Given)
      /\ \A i \in 1..Len(http_pending') : http_pending'[i] = http_pending[i + 1]
  BY <1>1, <1>2
<1>5. Head(http_pending) \in Given /\ Given \subseteq Nat
  BY <1>2, <1>4 DEF Given
<1>6. Queued = Queued' \cup {Head(http_pending)} /\ Head(http_pending) \notin Queued'
  <2>1. Queued = {http_pending[i] : i \in 1..Len(http_pending)}  BY <1>2 DEF Queued
  <2>2. Queued' = {http_pending'[i] : i \in 1..Len(http_pending')}  BY <1>4 DEF Queued
  <2>3. ASSUME NEW i \in 1..Len(http_pending'), http_pending'[i] = http_pending[1]
        PROVE  FALSE
    BY <2>3, <1>4 DEF HttpInv
  <2>4. \A i \in 1..Len(http_pending) : i = 1 \/ i - 1 \in 1..Len(http_pending')  BY <1>4
  <2>5. \A i \in 1..Len(http_pending) : i # 1 => http_pending[i] = http_pending'[i - 1]
    BY <1>4, <2>4
  <2>6. Queued \subseteq Queued' \cup {http_pending[1]}  BY <2>1, <2>2, <2>4, <2>5
  <2>7. Queued' \subseteq Queued
    <3>1. \A i \in 1..Len(http_pending') : i + 1 \in 1..Len(http_pending)  BY <1>4
    <3> QED  BY <1>4, <2>1, <2>2, <3>1
  <2>8. http_pending[1] \in Queued  BY <1>4, <2>1
  <2> QED  BY <1>4, <2>2, <2>3, <2>6, <2>7, <2>8
<1>7. performing' \in [HttpThreads ->
            [pc : {"idle", "performing", "answered", "exit"}, id : Nat, chunks : Nat]]
  BY <1>3, <1>5 DEF HttpInv, Doing
<1>8. \A u \in HttpThreads :
        /\ performing'[u] = IF u = t THEN Doing(pc, Head(http_pending), 0) ELSE performing[u]
        /\ Has(u)' <=> Has(u) \/ u = t
  BY <1>3 DEF HttpInv, Has, Doing
<1>9. performing'[t].id = Head(http_pending)
  BY <1>8 DEF Doing
<1>10. \A u \in HttpThreads : Has(u)' => performing'[u].id \in Given' \ Queued'
  BY <1>1, <1>5, <1>6, <1>8, <1>9 DEF HttpInv, Given
<1>11. \A u, v \in HttpThreads :
          Has(u)' /\ Has(v)' /\ performing'[u].id = performing'[v].id => u = v
  <2>1. \A u \in HttpThreads : Has(u) => performing[u].id # Head(http_pending)  BY <1>6 DEF HttpInv
  <2> QED  BY <1>8, <1>9, <2>1 DEF HttpInv
<1>12. Held' = Held \cup {Head(http_pending)}
  BY <1>1, <1>8, <1>9 DEF Held, Has
<1>13. FlagsFollowRequests'
  BY <1>1, <1>6, <1>12 DEF HttpInv, FlagsFollowRequests, Queued
<1>14. \A i, j \in 1..Len(http_pending') : http_pending'[i] = http_pending'[j] => i = j
  <2> SUFFICES ASSUME NEW i \in 1..Len(http_pending'), NEW j \in 1..Len(http_pending'),
                      http_pending'[i] = http_pending'[j]
               PROVE  i = j
    OBVIOUS
  <2>1. i + 1 \in 1..Len(http_pending) /\ j + 1 \in 1..Len(http_pending)  BY <1>4
  <2>2. http_pending[i + 1] = http_pending[j + 1]  BY <1>4
  <2> QED  BY <2>1, <2>2 DEF HttpInv
<1>15. Given' = Given
  BY <1>1 DEF Given
<1> QED
  BY <1>1, <1>2, <1>4, <1>7, <1>10, <1>11, <1>13, <1>14, <1>15 DEF HttpInv, Has

\* shutdown clears what no thread has taken.
LEMMA HttpInvJoined == HttpInv /\ HttpJoined => HttpInv'
<1> SUFFICES ASSUME HttpInv, HttpJoined PROVE HttpInv'
  OBVIOUS
<1>1. /\ http_pending' = <<>> /\ cancel_flags' = {} /\ performing' = performing
      /\ http_next' = http_next
      /\ \A t \in HttpThreads : ~Has(t)
  BY DEF HttpJoined, Has
<1>2. Held' = {} /\ Queued' = {}
  BY <1>1 DEF Held, Has, Queued
<1> QED  BY <1>1, <1>2 DEF HttpInv, Has, Given, FlagsFollowRequests, Queued

LEMMA HttpInvNext == HttpInv /\ [Next]_vars => HttpInv'
<1> SUFFICES ASSUME HttpInv, HttpStep PROVE HttpInv'
  BY NextIsHttpStep
<1> DEFINE Same == UNCHANGED <<http_next, http_pending, cancel_flags, performing>>
<1>1. CASE HttpSubmit
  BY <1>1, HttpInvSubmit
<1>2. ASSUME Same PROVE HttpInv'
  BY <1>2 DEF HttpInv, Given, Has, Queued, FlagsFollowRequests, Held
<1>3. ASSUME NEW id, HttpCancel(id) PROVE HttpInv'
  BY <1>2, <1>3 DEF HttpCancel
<1>4. ASSUME NEW max, HttpPoll(max) PROVE HttpInv'
  BY <1>2, <1>4 DEF HttpPoll
<1>5. ASSUME NEW t \in HttpThreads, HttpTake(t) PROVE HttpInv'
  BY <1>5, HttpInvTake
<1>6. ASSUME NEW t \in HttpThreads PROVE performing[t] \in
        [pc : {"idle", "performing", "answered", "exit"}, id : Nat, chunks : Nat]
  BY DEF HttpInv
<1>7. ASSUME NEW t \in HttpThreads, HttpChunk(t) PROVE HttpInv'
  <2> DEFINE d == [performing[t] EXCEPT !.chunks = @ + 1]
  <2>1. /\ d \in [pc : {"idle", "performing", "answered", "exit"}, id : Nat, chunks : Nat]
        /\ d.pc = performing[t].pc /\ d.id = performing[t].id
    BY <1>6
  <2>2. /\ performing' = [performing EXCEPT ![t] = d]
        /\ UNCHANGED <<http_next, http_pending, cancel_flags>>
        /\ Has(t)
    BY <1>7 DEF HttpChunk, Has, HttpInv
  <2> HIDE DEF d
  <2> QED  BY <2>1, <2>2, HttpInvThread DEF Has
<1>8. ASSUME NEW t \in HttpThreads, NEW result, HttpAnswer(t, result) PROVE HttpInv'
  <2> DEFINE d == [performing[t] EXCEPT !.pc = "answered"]
  <2>1. /\ d \in [pc : {"idle", "performing", "answered", "exit"}, id : Nat, chunks : Nat]
        /\ d.pc = "answered" /\ d.id = performing[t].id
    BY <1>6
  <2>2. /\ performing' = [performing EXCEPT ![t] = d]
        /\ UNCHANGED <<http_next, http_pending, cancel_flags>>
        /\ Has(t)
    BY <1>8 DEF HttpAnswer, Has, HttpInv
  <2> HIDE DEF d
  <2> QED  BY <2>1, <2>2, HttpInvThread DEF Has
<1>9. ASSUME NEW t \in HttpThreads, HttpForget(t) PROVE HttpInv'
  <2>1. /\ Idle \in [pc : {"idle", "performing", "answered", "exit"}, id : Nat, chunks : Nat]
        /\ Idle.pc = "idle"
    BY DEF Idle, Doing, NoRequest
  <2>2. /\ performing' = [performing EXCEPT ![t] = Idle]
        /\ UNCHANGED <<http_next, http_pending>>
        /\ cancel_flags' = cancel_flags \ {performing[t].id}
        /\ Has(t)
    BY <1>9 DEF HttpForget, Has
  <2> QED  BY <2>1, <2>2, HttpInvThread
<1>10. ASSUME NEW t \in HttpThreads, HttpExit(t) PROVE HttpInv'
  <2> DEFINE d == [performing[t] EXCEPT !.pc = "exit"]
  <2>1. /\ d \in [pc : {"idle", "performing", "answered", "exit"}, id : Nat, chunks : Nat]
        /\ d.pc = "exit"
    BY <1>6
  <2>2. /\ performing' = [performing EXCEPT ![t] = d]
        /\ UNCHANGED <<http_next, http_pending, cancel_flags>>
        /\ ~Has(t)
    BY <1>10 DEF HttpExit, Has, HttpInv
  <2> HIDE DEF d
  <2> QED  BY <2>1, <2>2, HttpInvThread
<1>11. CASE HttpStop
  BY <1>2, <1>11 DEF HttpStop
<1>12. CASE HttpJoined
  BY <1>12, HttpInvJoined
<1>13. CASE UNCHANGED hcVars
  BY <1>2, <1>13 DEF hcVars
<1> QED
  BY <1>1, <1>3, <1>4, <1>5, <1>7, <1>8, <1>9, <1>10, <1>11, <1>12, <1>13 DEF HttpStep

\* Cancel reaches a request from submit until its answer is queued, and no
\* longer than the thread that answered it has it: the theorem of the client.
THEOREM FlagsAreThoseOfRequests == Spec => []FlagsFollowRequests
<1>1. HttpInv => FlagsFollowRequests
  BY DEF HttpInv
<1> QED  BY HttpInvInit, HttpInvNext, <1>1, PTL DEF Spec

-----------------------------------------------------------------------------
(* The table of processes.                                                 *)

ProcStep ==
    \/ \E withCallback, timed \in BOOLEAN : ProcessSpawn(withCallback, timed)
    \/ \E id \in Processes : ChildExit(id)
    \/ \E late, id : ProcessRead(id, late) \/ ProcessWait(id, late)
    \/ \E max, late, gone : ProcessPollCall(max, late, gone)
    \/ \E late, order : ProcessDispatch(late, order)
    \/ ProcessDrop /\ UNCHANGED proc_next
    \/ UNCHANGED lpVars

\* Which step of the process module each step of the runtime is.
LEMMA NextIsProcStep == [Next]_vars => ProcStep
<1> SUFFICES ASSUME [Next]_vars PROVE ProcStep
  OBVIOUS
<1>1. CASE Script
  BY <1>1 DEF Script, ProcStep, HttpOnly, JobsOnly, SshOnly, RealtimeOnly, CallbacksOnly,
     TexturesOnly
<1>2. CASE ScriptWithChildren
  BY <1>2 DEF ScriptWithChildren, ProcStep
<1>3. CASE Frames
  BY <1>3 DEF Frames, ProcStep, HttpOnly, JobsOnly, SshOnly, CallbacksOnly, TexturesOnly
<1>4. CASE Continue
  BY <1>4 DEF Continue, ProcStep, SshOnly, RealtimeOnly, CallbacksOnly
<1>5. CASE Threads
  BY <1>5 DEF Threads, ProcStep, HttpOnly, JobsOnly, SshOnly, RealtimeOnly, TexturesOnly
<1>6. CASE EngineShutdown
  BY <1>6 DEF EngineShutdown, ProcStep
<1>7. CASE RuntimeEnds
  BY <1>7 DEF RuntimeEnds, ProcStep, HttpOnly, RealtimeOnly
<1>8. CASE UNCHANGED vars
  BY <1>8 DEF vars, ProcStep
<1> QED
  BY <1>1, <1>2, <1>3, <1>4, <1>5, <1>6, <1>7, <1>8 DEF Next

Spawned == 1..(proc_next - 1)

\* The entries of the table have three fields; the last says whether the child
\* was reaped.
ProcInv ==
    /\ proc_next \in Nat \ {0}
    /\ proc_next - 1 <= MaxProcesses
    /\ child \in [Processes -> {"none", "running", "exited", "reaped"}]
    /\ processes = [id \in DOMAIN processes |-> processes[id]]
    /\ DOMAIN processes \subseteq Spawned
    /\ \A id \in DOMAIN processes :
          /\ processes[id] = [cb |-> processes[id].cb, timed |-> processes[id].timed,
                              finished |-> processes[id].finished]
          /\ processes[id].finished \in BOOLEAN
    /\ ReapedOnce

LEMMA ProcInvInit == Init => ProcInv
  BY ProcessBound DEF Init, LpInit, ProcInv, Spawned, Processes, ReapedOnce

\* A look at some entries, after which some that are finished are erased.
LEMMA ProcInvReap ==
    ASSUME ProcInv, NEW S \in SUBSET DOMAIN processes, NEW late,
           NEW gone \in SUBSET FinishedBy(S, late),
           Reap(S, late), processes' = Remaining(S, late, gone), proc_next' = proc_next
    PROVE  ProcInv'
<1>1. /\ child \in [Processes -> {"none", "running", "exited", "reaped"}]
      /\ DOMAIN processes \subseteq Spawned
      /\ Spawned \subseteq Processes
  BY ProcessBound DEF ProcInv, Spawned, Processes
<1>2. Ends(S, late) \subseteq DOMAIN processes
  BY DEF Ends
<1>3. \A id \in Processes : child'[id] = IF id \in Ends(S, late) THEN "reaped" ELSE child[id]
  BY DEF Reap
<1>4. child' \in [Processes -> {"none", "running", "exited", "reaped"}]
  BY <1>1 DEF Reap
<1>5. /\ DOMAIN processes' = DOMAIN processes \ gone
      /\ \A id \in DOMAIN processes' :
            processes'[id] = [processes[id] EXCEPT !.finished = id \in FinishedBy(S, late)]
  BY DEF Remaining
<1>6. processes' = [id \in DOMAIN processes' |-> processes'[id]]
  BY <1>5 DEF Remaining
<1>7. \A id \in DOMAIN processes' :
        /\ processes'[id] = [cb |-> processes'[id].cb, timed |-> processes'[id].timed,
                             finished |-> processes'[id].finished]
        /\ processes'[id].finished \in BOOLEAN
        /\ processes'[id].finished <=> id \in FinishedBy(S, late)
  <2> TAKE id \in DOMAIN processes'
  <2>1. processes[id] = [cb |-> processes[id].cb, timed |-> processes[id].timed,
                         finished |-> processes[id].finished]
    BY <1>5 DEF ProcInv
  <2> DEFINE r == processes[id]
             b == id \in FinishedBy(S, late)
  <2>2. processes'[id] = [r EXCEPT !.finished = b]  BY <1>5
  <2>3. r = [cb |-> r.cb, timed |-> r.timed, finished |-> r.finished]  BY <2>1
  <2>6. b \in BOOLEAN  OBVIOUS
  <2> HIDE DEF r, b
  <2>4. [r EXCEPT !.finished = b] = [cb |-> r.cb, timed |-> r.timed, finished |-> b]  BY <2>3
  <2>5. processes'[id] = [cb |-> r.cb, timed |-> r.timed, finished |-> b]  BY <2>2, <2>4
  <2>7. processes'[id].finished = b  BY <2>5
  <2>8. processes'[id] = [cb |-> processes'[id].cb, timed |-> processes'[id].timed,
                          finished |-> processes'[id].finished]
    BY <2>5
  <2>9. processes'[id].finished <=> id \in FinishedBy(S, late)  BY <2>7 DEF b
  <2> QED  BY <2>6, <2>7, <2>8, <2>9
<1>9. Spawned' = Spawned
  BY DEF Spawned
<1>10. ReapedOnce'
  <2> SUFFICES ASSUME NEW id \in Spawned
               PROVE  child'[id] = "reaped" <=> \/ id \notin DOMAIN processes'
                                                \/ processes'[id].finished
    BY DEF ReapedOnce, Spawned
  <2>1. child[id] = "reaped" <=> id \notin DOMAIN processes \/ processes[id].finished
    BY DEF ProcInv, ReapedOnce, Spawned
  <2>2. id \in Processes  BY <1>1
  <2>3. id \in FinishedBy(S, late) <=>
            id \in DOMAIN processes /\ (processes[id].finished \/ id \in Ends(S, late))
    BY DEF FinishedBy
  <2>4. child'[id] = "reaped" <=> child[id] = "reaped" \/ id \in Ends(S, late)  BY <1>3, <2>2
  <2>5. gone \subseteq FinishedBy(S, late)  OBVIOUS
  <2>6. CASE id \in DOMAIN processes'  BY <1>2, <1>5, <1>7, <2>1, <2>3, <2>4, <2>6
  <2>7. CASE id \notin DOMAIN processes'  BY <1>2, <1>5, <2>1, <2>3, <2>4, <2>5, <2>7
  <2> QED  BY <2>6, <2>7
<1>11. DOMAIN processes' \subseteq Spawned'
  BY <1>1, <1>5, <1>9
<1>12. proc_next' \in Nat \ {0} /\ proc_next' - 1 <= MaxProcesses
  BY DEF ProcInv
<1> QED  BY <1>4, <1>6, <1>7, <1>10, <1>11, <1>12 DEF ProcInv

LEMMA ProcInvSpawn ==
    ASSUME ProcInv, NEW withCallback \in BOOLEAN, NEW timed \in BOOLEAN,
           ProcessSpawn(withCallback, timed)
    PROVE  ProcInv'
<1> DEFINE cb == IF withCallback THEN next_id ELSE NoCallback
           entry == [cb |-> cb, timed |-> timed, finished |-> FALSE]
<1>1. /\ proc_next \in 1..MaxProcesses
      /\ proc_next' = proc_next + 1
      /\ child' = [child EXCEPT ![proc_next] = "running"]
      /\ processes' = [id \in DOMAIN processes \cup {proc_next} |->
                          IF id = proc_next THEN entry ELSE processes[id]]
  BY DEF ProcessSpawn, Processes
<1> HIDE DEF cb
<1>2. /\ child \in [Processes -> {"none", "running", "exited", "reaped"}]
      /\ DOMAIN processes \subseteq Spawned
  BY DEF ProcInv
<1>3. Spawned' = Spawned \cup {proc_next} /\ proc_next \notin Spawned
  BY <1>1 DEF Spawned
<1>4. /\ DOMAIN processes' = DOMAIN processes \cup {proc_next}
      /\ \A id \in DOMAIN processes : id # proc_next /\ processes'[id] = processes[id]
      /\ processes'[proc_next] = entry
  BY <1>1, <1>2, <1>3
<1>5. processes' = [id \in DOMAIN processes' |-> processes'[id]]
  BY <1>1
<1>6. \A id \in DOMAIN processes' :
          /\ processes'[id] = [cb |-> processes'[id].cb, timed |-> processes'[id].timed,
                               finished |-> processes'[id].finished]
          /\ processes'[id].finished \in BOOLEAN
  <2>1. ASSUME NEW id \in DOMAIN processes
        PROVE  /\ processes'[id] = [cb |-> processes'[id].cb, timed |-> processes'[id].timed,
                                    finished |-> processes'[id].finished]
               /\ processes'[id].finished \in BOOLEAN
    BY <1>4 DEF ProcInv
  <2>2. /\ processes'[proc_next].cb = cb
        /\ processes'[proc_next].timed = timed
        /\ processes'[proc_next].finished = FALSE
    BY <1>4
  <2> QED  BY <1>4, <2>1, <2>2
<1>7. ReapedOnce'
  <2>1. \A id \in Spawned : id # proc_next /\ id \in Processes
    BY <1>1, ProcessBound DEF Spawned, Processes
  <2>2. \A id \in Spawned : child'[id] = child[id]  BY <1>1, <1>2, <2>1
  <2>3. child'[proc_next] = "running"  BY <1>1, <1>2 DEF Processes
  <2>4. \A id \in Spawned' :
          child'[id] = "reaped" <=> id \notin DOMAIN processes' \/ processes'[id].finished
    BY <1>3, <1>4, <2>1, <2>2, <2>3 DEF ProcInv, ReapedOnce, Spawned
  <2> QED  BY <2>4 DEF ReapedOnce, Spawned
<1>8. /\ proc_next' \in Nat \ {0} /\ proc_next' - 1 <= MaxProcesses
      /\ child' \in [Processes -> {"none", "running", "exited", "reaped"}]
      /\ DOMAIN processes' \subseteq Spawned'
  <2>1. proc_next' \in Nat \ {0} /\ proc_next' - 1 <= MaxProcesses  BY <1>1, ProcessBound
  <2>2. child' \in [Processes -> {"none", "running", "exited", "reaped"}]  BY <1>1, <1>2
  <2> QED  BY <1>2, <1>3, <1>4, <2>1, <2>2
<1> HIDE DEF entry
<1> QED  BY <1>5, <1>6, <1>7, <1>8, Zenon DEF ProcInv

\* What is in the table at the end is killed and reaped.
LEMMA ProcInvDrop == ProcInv /\ ProcessDrop /\ UNCHANGED proc_next => ProcInv'
<1> SUFFICES ASSUME ProcInv, ProcessDrop, UNCHANGED proc_next PROVE ProcInv'
  OBVIOUS
<1>1. /\ child' \in [Processes -> {"none", "running", "exited", "reaped"}]
      /\ processes' = <<>>
  BY DEF ProcessDrop, ProcInv
<1>2. processes' = [id \in DOMAIN processes' |-> processes'[id]] /\ DOMAIN processes' = {}
  BY <1>1
<1>3. ReapedOnce'
  BY <1>2, ProcessBound DEF ReapedOnce, ProcessDrop, ProcInv, Processes, Spawned
<1> QED  BY <1>1, <1>2, <1>3 DEF ProcInv, Spawned

LEMMA ProcInvExit == ASSUME ProcInv, NEW id \in Processes, ChildExit(id) PROVE ProcInv'
<1>1. /\ child[id] = "running"
      /\ child' = [child EXCEPT ![id] = "exited"]
      /\ UNCHANGED <<proc_next, processes>>
  BY DEF ChildExit
<1>2. ReapedOnce'
  BY <1>1, ProcessBound DEF ReapedOnce, ProcInv, Processes
<1> QED  BY <1>1, <1>2 DEF ProcInv, Spawned

LEMMA ProcInvNext == ProcInv /\ [Next]_vars => ProcInv'
<1> SUFFICES ASSUME ProcInv, ProcStep PROVE ProcInv'
  BY NextIsProcStep
<1>1. ASSUME NEW withCallback \in BOOLEAN, NEW timed \in BOOLEAN,
             ProcessSpawn(withCallback, timed)
      PROVE  ProcInv'
  BY <1>1, ProcInvSpawn
<1>2. ASSUME NEW id \in Processes, ChildExit(id) PROVE ProcInv'
  BY <1>2, ProcInvExit
<1>3. ASSUME NEW late, NEW id, ProcessRead(id, late) PROVE ProcInv'
  <2>1. {id} \in SUBSET DOMAIN processes /\ {} \in SUBSET FinishedBy({id}, late)
    BY <1>3 DEF ProcessRead
  <2>2. /\ Reap({id}, late) /\ processes' = Remaining({id}, late, {})
        /\ proc_next' = proc_next
    BY <1>3 DEF ProcessRead
  <2> QED  BY <2>1, <2>2, ProcInvReap
<1>4. ASSUME NEW late, NEW id, ProcessWait(id, late) PROVE ProcInv'
  <2>1. {id} \in SUBSET DOMAIN processes /\ {id} \in SUBSET FinishedBy({id}, late)
    BY <1>4 DEF ProcessWait
  <2>2. /\ Reap({id}, late) /\ processes' = Remaining({id}, late, {id})
        /\ proc_next' = proc_next
    BY <1>4 DEF ProcessWait
  <2> QED  BY <2>1, <2>2, ProcInvReap
<1>5. ASSUME NEW max, NEW late, NEW gone, ProcessPollCall(max, late, gone) PROVE ProcInv'
  <2>1. /\ gone \in SUBSET FinishedBy(DOMAIN processes, late)
        /\ Reap(DOMAIN processes, late)
        /\ processes' = Remaining(DOMAIN processes, late, gone)
        /\ proc_next' = proc_next
    BY <1>5 DEF ProcessPollCall
  <2> QED  BY <2>1, ProcInvReap
<1>6. ASSUME NEW late, NEW order, ProcessDispatch(late, order) PROVE ProcInv'
  <2> DEFINE told == {id \in FinishedBy(DOMAIN processes, late) : processes[id].cb # NoCallback}
  <2>1. /\ told \in SUBSET FinishedBy(DOMAIN processes, late)
        /\ Reap(DOMAIN processes, late)
        /\ processes' = Remaining(DOMAIN processes, late, told)
        /\ proc_next' = proc_next
    BY <1>6 DEF ProcessDispatch
  <2> HIDE DEF told
  <2> QED  BY <2>1, ProcInvReap
<1>7. CASE ProcessDrop /\ UNCHANGED proc_next
  BY <1>7, ProcInvDrop
<1>8. CASE UNCHANGED lpVars
  BY <1>8 DEF lpVars, ProcInv, Spawned, ReapedOnce
<1> QED  BY <1>1, <1>2, <1>3, <1>4, <1>5, <1>6, <1>7, <1>8 DEF ProcStep

\* A child is reaped exactly when its entry says so or is gone, whoever reads,
\* polls, waits, dispatches or drops: no zombie is forgotten and no pid that
\* may be another's by now is signalled.
THEOREM ChildrenAreReapedOnce == Spec => []ReapedOnce
<1>1. ProcInv => ReapedOnce
  BY DEF ProcInv
<1> QED  BY ProcInvInit, ProcInvNext, <1>1, PTL DEF Spec

\* The two together: what cancel and kill look at agrees with what there is.
THEOREM TablesAlwaysAgree == Spec => []TablesAgree
<1>1. FlagsFollowRequests /\ ReapedOnce => TablesAgree
  BY DEF TablesAgree
<1> QED  BY <1>1, FlagsAreThoseOfRequests, ChildrenAreReapedOnce, PTL

-----------------------------------------------------------------------------
(* The callback registry under nested dispatches.  Frames hold items and   *)
(* events of many kinds; what counts of one is whether it is a dispatch.   *)

IsSeq(s) == \E S : s \in Seq(S)
Dispatches(s) == \E i \in DOMAIN s : s[i].kind = "dispatch"

LEMMA DepthIs ==
    ASSUME NEW s, IsSeq(s)
    PROVE  Depth(s) \in Nat /\ (Depth(s) > 0 <=> Dispatches(s))
<1> DEFINE D == {i \in DOMAIN s : s[i].kind = "dispatch"}
<1>1. PICK S : s \in Seq(S)
  BY DEF IsSeq
<1>2. Len(s) \in Nat /\ D \subseteq 1..Len(s)
  BY <1>1
<1>3. IsFiniteSet(D)
  <2>1. IsFiniteSet(1..Len(s))  BY <1>2, FS_Interval
  <2> HIDE DEF D
  <2> QED  BY <1>2, <2>1, FS_Subset
<1>4. Cardinality(D) \in Nat /\ (Cardinality(D) = 0 <=> D = {})
  BY <1>3, FS_CardinalityType, FS_EmptySet
<1>5. Depth(s) = Cardinality(D)
  BY Zenon DEF Depth
<1>6. D # {} <=> Dispatches(s)
  BY DEF Dispatches
<1> HIDE DEF D
<1> QED  BY <1>4, <1>5, <1>6

LEMMA Pushed ==
    ASSUME NEW s, IsSeq(s), NEW f
    PROVE  /\ IsSeq(Append(s, f))
           /\ Dispatches(Append(s, f)) <=> Dispatches(s) \/ f.kind = "dispatch"
<1>1. PICK S : s \in Seq(S)
  BY DEF IsSeq
<1>2. s \in Seq(S \cup {f})
  BY <1>1, SeqMonotonic
<1>3. Append(s, f) \in Seq(S \cup {f})
  BY <1>2
<1>4. /\ DOMAIN s = 1..Len(s) /\ DOMAIN Append(s, f) = 1..(Len(s) + 1)
      /\ Len(s) \in Nat
      /\ \A i \in 1..Len(s) : Append(s, f)[i] = s[i]
      /\ Append(s, f)[Len(s) + 1] = f
  BY <1>2
<1>5. IsSeq(Append(s, f))
  BY <1>3 DEF IsSeq
<1>6. Dispatches(Append(s, f)) => Dispatches(s) \/ f.kind = "dispatch"
  <2> SUFFICES ASSUME NEW i \in DOMAIN Append(s, f), Append(s, f)[i].kind = "dispatch"
               PROVE  Dispatches(s) \/ f.kind = "dispatch"
    BY DEF Dispatches
  <2>1. CASE i = Len(s) + 1  BY <1>4, <2>1
  <2>2. CASE i \in 1..Len(s)  BY <1>4, <2>2 DEF Dispatches
  <2> QED  BY <1>4, <2>1, <2>2
<1>7. Dispatches(s) => Dispatches(Append(s, f))
  <2> SUFFICES ASSUME NEW i \in 1..Len(s), s[i].kind = "dispatch"
               PROVE  Dispatches(Append(s, f))
    BY <1>4 DEF Dispatches
  <2> QED  BY <1>4 DEF Dispatches
<1>8. f.kind = "dispatch" => Dispatches(Append(s, f))
  BY <1>4 DEF Dispatches
<1> QED  BY <1>5, <1>6, <1>7, <1>8

LEMMA TopAndBelow ==
    ASSUME IsSeq(stack), Top.kind # "none"
    PROVE  /\ IsSeq(Below)
           /\ Dispatches(stack) <=> Dispatches(Below) \/ Top.kind = "dispatch"
<1>1. PICK S : stack \in Seq(S)
  BY DEF IsSeq
<1>2. stack # <<>>
  BY DEF Top, Frame
<1>3. Len(stack) \in Nat \ {0} /\ Top = stack[Len(stack)]
  BY <1>1, <1>2 DEF Top
<1>4. /\ Below \in Seq(S)
      /\ Len(Below) = Len(stack) - 1
      /\ \A i \in 1..Len(Below) : Below[i] = stack[i]
  <2> DEFINE n == Len(stack) - 1
  <2>1. n \in Int /\ n >= 0 /\ 1 \in Int /\ \A i \in 1..n : stack[i] \in S  BY <1>1, <1>3
  <2> HIDE DEF n
  <2>2. /\ SubSeq(stack, 1, n) \in Seq(S)
        /\ Len(SubSeq(stack, 1, n)) = IF 1 <= n THEN n - 1 + 1 ELSE 0
        /\ \A i \in 1..(n - 1 + 1) : SubSeq(stack, 1, n)[i] = stack[1 + i - 1]
    BY <2>1, SubSeqProperties
  <2>3. Below = SubSeq(stack, 1, n)  BY DEF Below, n
  <2>4. Len(Below) = n  BY <2>1, <2>2, <2>3
  <2>5. \A i \in 1..n : 1..(n - 1 + 1) = 1..n /\ 1 + i - 1 = i  BY <2>1
  <2>6. \A i \in 1..n : Below[i] = stack[i]  BY <2>2, <2>3, <2>5
  <2> QED  BY <2>2, <2>3, <2>4, <2>6 DEF n
<1>5. DOMAIN Below = 1..(Len(stack) - 1) /\ DOMAIN stack = 1..Len(stack)
  BY <1>1, <1>4
<1>6. Dispatches(stack) => Dispatches(Below) \/ Top.kind = "dispatch"
  <2> SUFFICES ASSUME NEW i \in 1..Len(stack), stack[i].kind = "dispatch"
               PROVE  Dispatches(Below) \/ Top.kind = "dispatch"
    BY <1>5 DEF Dispatches
  <2>1. CASE i = Len(stack)  BY <1>3, <2>1
  <2>2. CASE i # Len(stack)  BY <1>3, <1>4, <1>5, <2>2 DEF Dispatches
  <2> QED  BY <2>1, <2>2
<1>7. Dispatches(Below) => Dispatches(stack)
  BY <1>3, <1>4, <1>5 DEF Dispatches
<1>8. Top.kind = "dispatch" => Dispatches(stack)
  BY <1>3, <1>5 DEF Dispatches
<1> QED  BY <1>4, <1>6, <1>7, <1>8 DEF IsSeq

\* A step may note ids, if a dispatch goes on, or forget retired ones; and it
\* leaves every dispatch going on.
Noting ==
    \/ Dispatches(stack) /\ deferred \subseteq deferred' /\ retired' \subseteq retired \cup deferred'
    \/ deferred' = deferred /\ retired' \subseteq retired
Calm == Noting /\ IsSeq(stack') /\ (Dispatches(stack) => Dispatches(stack'))

LEMMA ReregisterNotes ==
    ASSUME IsSeq(stack), NEW drop, NEW add, Reregister(drop, add)
    PROVE  Noting
  BY DepthIs DEF Reregister, Noting

\* Most steps only push a frame, and register and unregister.
Pushing ==
    /\ stack' = stack \/ \E f : stack' = Append(stack, f)
    /\ (\E drop, add : Reregister(drop, add)) \/ UNCHANGED <<deferred, retired>>

LEMMA PushingIsCalm == IsSeq(stack) /\ Pushing => Calm
<1> SUFFICES ASSUME IsSeq(stack), Pushing PROVE Calm
  OBVIOUS
<1>1. Noting
  BY ReregisterNotes DEF Pushing, Noting
<1>2. IsSeq(stack') /\ (Dispatches(stack) => Dispatches(stack'))
  <2>1. CASE stack' = stack  BY <2>1
  <2>2. ASSUME NEW f, stack' = Append(stack, f)
        PROVE  IsSeq(stack') /\ (Dispatches(stack) => Dispatches(stack'))
    <3>1. IsSeq(Append(stack, f)) /\ (Dispatches(stack) => Dispatches(Append(stack, f)))  BY Pushed
    <3> QED  BY <2>2, <3>1
  <2> QED  BY <2>1, <2>2 DEF Pushing
<1> QED  BY <1>1, <1>2 DEF Calm

\* Every call of a script, and every step of a frame, is of that form.
LEMMA ScriptPushes == Script => Pushing
<1> SUFFICES ASSUME Script PROVE Pushing
  OBVIOUS
<1>1. ASSUME ScriptRegister \/ \E cb : ScriptUnregister(cb) \/ \E ev : ScriptEnqueue(cb, ev)
      PROVE  Pushing
  BY <1>1 DEF Pushing, ScriptRegister, ScriptUnregister, Unregister, ScriptEnqueue, Post
<1>2. ASSUME NEW kind \in {"stream", "callback", "plain"}, HttpRequest(kind)
      PROVE  Pushing
  BY <1>2 DEF Pushing, HttpRequest
<1>3. ASSUME \E id : HttpCancelCall(id) PROVE Pushing
  BY <1>3 DEF Pushing, HttpCancelCall, cbVars
<1>4. ASSUME NEW max, HttpPollCall(max) PROVE Pushing
  BY <1>4 DEF Pushing, HttpPollCall, GiveOut, Unregister, DispatchFrom
<1>5. ASSUME NEW max, JobsPollCall(max) PROVE Pushing
  BY <1>5 DEF Pushing, JobsPollCall, HandOut, DispatchFrom
<1>6. ASSUME NEW max, SshPollCall(max) PROVE Pushing
  BY <1>6 DEF Pushing, SshPollCall, cbVars
<1>7. ASSUME NEW with \in BOOLEAN, JobSubmit(with) \/ SshStart(with) PROVE Pushing
  BY <1>7 DEF Pushing, JobSubmit, SshStart
<1>8. ASSUME NEW with, NEW timed, ProcessSpawn(with, timed) PROVE Pushing
  BY <1>8 DEF Pushing, ProcessSpawn
<1>9. ASSUME NEW name, RtSet(name) PROVE Pushing
  BY <1>9 DEF Pushing, RtSet
<1>10. ASSUME RtStart \/ \E dispatch : RtClose(dispatch) PROVE Pushing
  BY <1>10 DEF Pushing, RtStart, RtClose, cbVars
<1>11. ASSUME NEW kind, NEW name, NEW with, LoadAsync(kind, name, with) PROVE Pushing
  BY <1>11 DEF Pushing, LoadAsync
<1>12. ASSUME \E x : ChangeTexture(x) \/ ChangeCubemap(x) PROVE Pushing
  BY <1>12 DEF Pushing, ChangeTexture, ChangeCubemap, cbVars
<1> QED
  BY <1>1, <1>2, <1>3, <1>4, <1>5, <1>6, <1>7, <1>8, <1>9, <1>10, <1>11, <1>12 DEF Script

LEMMA OthersPush == ScriptWithChildren \/ Frames \/ Threads => Pushing
<1>1. ASSUME ScriptWithChildren PROVE Pushing
  BY <1>1 DEF ScriptWithChildren, Pushing, ProcessRead, ProcessWait, ProcessPollCall,
     Unregister, cbVars
<1>2. ASSUME Frames PROVE Pushing
  <2>1. CASE HttpDispatch  BY <2>1 DEF Pushing, HttpDispatch, GiveOut, Unregister, DispatchFrom
  <2>2. CASE JobsDispatch  BY <2>2 DEF Pushing, JobsDispatch, HandOut, DispatchFrom
  <2>3. CASE SshDispatch  BY <2>3 DEF Pushing, SshDispatch
  <2>4. CASE \E late, order : ProcessDispatch(late, order)  BY <2>4 DEF Pushing, ProcessDispatch
  <2>5. CASE \E max : ScriptDispatch(max)  BY <2>5 DEF Pushing, ScriptDispatch, DispatchFrom
  <2>6. CASE ResourcesFrame  BY <2>6 DEF Pushing, ResourcesFrame
  <2> QED  BY <1>2, <2>1, <2>2, <2>3, <2>4, <2>5, <2>6 DEF Frames
<1>3. ASSUME Threads PROVE Pushing
  BY <1>3 DEF Threads, Pushing, HttpStreamChunk, JobFinish, SshEmit, ChildExit, LoadFinish,
     RtTell, RtPost, RtExit, Post, cbVars
<1> QED  BY <1>1, <1>2, <1>3

\* The main thread replaces or takes away the frame on top.
LEMMA ReplacingIsCalm ==
    ASSUME IsSeq(stack), Top.kind # "none", Noting,
           \/ \E f : stack' = Append(Below, f) /\ f.kind = Top.kind
           \/ /\ Top.kind # "dispatch"
              /\ \/ stack' = Below
                 \/ \E f, g : stack' = Append(Append(Below, f), g)
    PROVE  Calm
<1>1. IsSeq(Below) /\ (Dispatches(stack) <=> Dispatches(Below) \/ Top.kind = "dispatch")
  BY TopAndBelow
<1>2. ASSUME NEW f
      PROVE  /\ IsSeq(Append(Below, f))
             /\ Dispatches(Append(Below, f)) <=> Dispatches(Below) \/ f.kind = "dispatch"
  BY <1>1, Pushed
<1>3. CASE \E f : stack' = Append(Below, f) /\ f.kind = Top.kind
  <2>1. PICK f : stack' = Append(Below, f) /\ f.kind = Top.kind  BY <1>3
  <2>2. IsSeq(stack') /\ (Dispatches(stack') <=> Dispatches(Below) \/ f.kind = "dispatch")
    BY <1>2, <2>1
  <2> QED  BY <1>1, <2>1, <2>2 DEF Calm
<1>4. CASE Top.kind # "dispatch" /\ stack' = Below
  <2>1. IsSeq(stack') /\ (Dispatches(stack') <=> Dispatches(Below))  BY <1>1, <1>4
  <2> QED  BY <1>1, <1>4, <2>1 DEF Calm
<1>5. CASE Top.kind # "dispatch" /\ \E f, g : stack' = Append(Append(Below, f), g)
  <2>1. PICK f, g : stack' = Append(Append(Below, f), g)  BY <1>5
  <2>2. IsSeq(Append(Below, f)) /\ (Dispatches(Below) => Dispatches(Append(Below, f)))  BY <1>2
  <2>3. /\ IsSeq(Append(Append(Below, f), g))
        /\ Dispatches(Append(Below, f)) => Dispatches(Append(Append(Below, f), g))
    BY <2>2, Pushed
  <2>4. IsSeq(stack') /\ (Dispatches(Below) => Dispatches(stack'))  BY <2>1, <2>2, <2>3
  <2> QED  BY <1>1, <1>5, <2>4 DEF Calm
<1> QED  BY <1>3, <1>4, <1>5

LEMMA ContinueIsCalm ==
    ASSUME IsSeq(stack), Continue
    PROVE  Calm \/ EndDispatch
<1>1. CASE CallNext
  <2>1. /\ Top.kind = "dispatch"
        /\ \E f : stack' = Append(Below, f) /\ f.kind = "dispatch"
        /\ UNCHANGED <<deferred, retired>>
    BY <1>1 DEF CallNext, Frame
  <2> QED  BY <2>1, ReplacingIsCalm DEF Noting
<1>2. CASE SshHandle
  <2>1. Top.kind = "ssh" /\ UNCHANGED <<deferred, retired>>  BY <1>2 DEF SshHandle
  <2>2. \A rest, cur : Frame("ssh", rest, cur).kind = "ssh"  BY DEF Frame
  <2>3. \/ \E rest, cur : stack' = Append(Below, Frame("ssh", rest, cur))
        \/ \E rest, item, q, cb :
              DispatchFrom(Append(Below, Frame("ssh", rest, item)), q, {cb}, 1)
    BY <1>2, Zenon DEF SshHandle
  <2>4. \/ \E f : stack' = Append(Below, f) /\ f.kind = "ssh"
        \/ \E f, g : stack' = Append(Append(Below, f), g)
    BY <2>2, <2>3 DEF DispatchFrom
  <2> QED  BY <2>1, <2>4, ReplacingIsCalm DEF Noting
<1>3. CASE SshHandled
  <2>1. /\ Top.kind = "ssh"
        /\ (\E drop, add : Reregister(drop, add)) \/ UNCHANGED <<deferred, retired>>
        /\ \E f : stack' = Append(Below, f) /\ f.kind = "ssh"
    BY <1>3 DEF SshHandled, Frame, Unregister
  <2>2. Noting  BY <2>1, ReregisterNotes DEF Noting
  <2> QED  BY <2>1, <2>2, ReplacingIsCalm
<1>4. CASE SshDispatched
  <2>1. Top.kind = "ssh" /\ stack' = Below /\ UNCHANGED <<deferred, retired>>
    BY <1>4 DEF SshDispatched
  <2> QED  BY <2>1, ReplacingIsCalm DEF Noting
<1>5. CASE RtJoined
  <2>1. Pushing  BY <1>5 DEF RtJoined, Pushing, Post, cbVars
  <2> QED  BY <2>1, PushingIsCalm
<1>6. CASE RtDrain
  <2>1. Pushing  BY <1>6 DEF RtDrain, Pushing, DispatchFrom
  <2> QED  BY <2>1, PushingIsCalm
<1>7. CASE RtClosed
  <2>1. /\ Top.kind = "close" /\ stack' = Below
        /\ \/ /\ Depth(stack) > 0
              /\ retired' = retired \cup Ids
              /\ deferred' = deferred \cup Ids
           \/ UNCHANGED <<retired, deferred>>
    BY <1>7 DEF RtClosed
  <2>2. Noting  BY <2>1, DepthIs DEF Noting
  <2> QED  BY <2>1, <2>2, ReplacingIsCalm
<1> QED  BY <1>1, <1>2, <1>3, <1>4, <1>5, <1>6, <1>7 DEF Continue

\* Whatever is retired is noted too, and what is noted has a dispatch whose end
\* carries it out.
RegistryInv ==
    /\ IsSeq(stack)
    /\ retired \subseteq deferred
    /\ Dispatches(stack) \/ deferred = {}

LEMMA RegistryInvInit == Init => RegistryInv
<1>1. <<>> \in Seq({})
  OBVIOUS
<1> QED  BY <1>1 DEF Init, CbInit, RegistryInv, IsSeq

LEMMA RegistryInvCalm == RegistryInv /\ Calm => RegistryInv'
  BY DEF RegistryInv, Calm, Noting, IsSeq, Dispatches

LEMMA RegistryInvEndDispatch == RegistryInv /\ EndDispatch => RegistryInv'
<1> SUFFICES ASSUME RegistryInv, EndDispatch PROVE RegistryInv'
  OBVIOUS
<1>1. Top.kind = "dispatch" /\ stack' = Below
  BY DEF EndDispatch
<1>2. IsSeq(Below)
  BY <1>1, TopAndBelow DEF RegistryInv
<1>3. Depth(Below) \in Nat /\ (Depth(Below) > 0 <=> Dispatches(Below))
  BY <1>2, DepthIs
<1>4. CASE Depth(Below) = 0
  BY <1>1, <1>2, <1>4 DEF EndDispatch, RegistryInv
<1>5. CASE Depth(Below) # 0
  BY <1>1, <1>2, <1>3, <1>5 DEF EndDispatch, RegistryInv
<1> QED  BY <1>4, <1>5

LEMMA RegistryInvNext == RegistryInv /\ [Next]_vars => RegistryInv'
<1> SUFFICES ASSUME RegistryInv, [Next]_vars PROVE RegistryInv'
  OBVIOUS
<1>1. CASE Script \/ ScriptWithChildren \/ Frames \/ Threads
  BY <1>1, ScriptPushes, OthersPush, PushingIsCalm, RegistryInvCalm DEF RegistryInv
<1>2. CASE Continue
  BY <1>2, ContinueIsCalm, RegistryInvCalm, RegistryInvEndDispatch DEF RegistryInv
<1>3. CASE EngineShutdown
  BY <1>3 DEF EngineShutdown, CallbacksShutdown, RegistryInv
<1>4. CASE RuntimeEnds
  <2>1. Pushing  BY <1>4 DEF RuntimeEnds, Pushing, HttpDrop, Unregister, RtClose, cbVars
  <2> QED  BY <2>1, PushingIsCalm, RegistryInvCalm DEF RegistryInv
<1>5. CASE UNCHANGED vars
  <2>1. Pushing  BY <1>5 DEF vars, cbVars, Pushing
  <2> QED  BY <2>1, PushingIsCalm, RegistryInvCalm DEF RegistryInv
<1> QED  BY <1>1, <1>2, <1>3, <1>4, <1>5 DEF Next

\* Out of every dispatch no unregistration is left noted and no id retired,
\* however batches and loops were nested (the flush of ~DispatchScope).
THEOREM NothingIsNotedAtRest == Spec => []NothingNotedAtRest
<1>1. RegistryInv => NothingNotedAtRest
  BY DepthIs DEF RegistryInv, NothingNotedAtRest
<1> QED  BY RegistryInvInit, RegistryInvNext, <1>1, PTL DEF Spec

-----------------------------------------------------------------------------
(* The handle of the realtime module.  A closed handle is silent because   *)
(* nobody but the handle and its thread enqueues events for its callbacks, *)
(* and because whatever close unregisters it retires too, until the        *)
(* outermost dispatch has ended.  The first needs that the callbacks of    *)
(* all services are disjoint from the handle's, and so what each step of   *)
(* each service enqueues, registers and unregisters.                       *)

-----------------------------------------------------------------------------
(* Sequences of items of many kinds, as sets of what is in them.           *)

LEMMA SeqIs ==
    ASSUME NEW s, IsSeq(s)
    PROVE  /\ Len(s) \in Nat /\ DOMAIN s = 1..Len(s) /\ s \in Seq(ToSet(s))
           /\ \A i \in 1..Len(s) : s[i] \in ToSet(s)
<1>1. PICK S : s \in Seq(S)
  BY DEF IsSeq
<1>2. Len(s) \in Nat /\ DOMAIN s = 1..Len(s)
  BY <1>1
<1>3. \A i \in 1..Len(s) : s[i] \in ToSet(s)
  BY <1>2 DEF ToSet
<1>4. s = [i \in 1..Len(s) |-> s[i]]
  BY <1>1
<1>5. s \in Seq(ToSet(s))
  BY <1>2, <1>3, <1>4, SeqDef
<1> QED  BY <1>2, <1>3, <1>5

LEMMA FunctionIsSeq ==
    ASSUME NEW f, NEW n \in Nat, f = [i \in 1..n |-> f[i]]
    PROVE  IsSeq(f) /\ Len(f) = n /\ ToSet(f) = {f[i] : i \in 1..n}
<1>1. DOMAIN f = 1..n
  OBVIOUS
<1>2. f \in Seq(ToSet(f))
  BY <1>1, SeqDef DEF ToSet
<1>3. Len(f) = n
  BY <1>1, <1>2
<1> QED  BY <1>1, <1>2, <1>3 DEF IsSeq, ToSet

LEMMA EmptyIsSeq == IsSeq(<<>>) /\ ToSet(<<>>) = {}
<1>1. <<>> \in Seq({})
  OBVIOUS
<1> QED  BY <1>1 DEF IsSeq, ToSet

LEMMA ConcatIs ==
    ASSUME NEW s, NEW t, IsSeq(s), IsSeq(t)
    PROVE  IsSeq(s \o t) /\ ToSet(s \o t) = ToSet(s) \cup ToSet(t)
<1> DEFINE S == ToSet(s) \cup ToSet(t)
<1>1. s \in Seq(S) /\ t \in Seq(S)
  BY SeqIs, SeqMonotonic
<1>2. /\ s \o t \in Seq(S) /\ Len(s \o t) = Len(s) + Len(t)
      /\ \A i \in 1..Len(s) + Len(t) :
            (s \o t)[i] = IF i <= Len(s) THEN s[i] ELSE t[i - Len(s)]
  BY <1>1, ConcatProperties
<1>3. /\ Len(s) \in Nat /\ Len(t) \in Nat
      /\ DOMAIN s = 1..Len(s) /\ DOMAIN t = 1..Len(t)
      /\ DOMAIN (s \o t) = 1..Len(s) + Len(t)
  BY <1>2, SeqIs
<1>4. ToSet(s \o t) \subseteq S
  BY <1>2, <1>3, SeqIs DEF ToSet
<1>5. ToSet(s) \subseteq ToSet(s \o t)
  BY <1>2, <1>3 DEF ToSet
<1>6. ToSet(t) \subseteq ToSet(s \o t)
  <2> SUFFICES ASSUME NEW i \in 1..Len(t)
               PROVE  t[i] \in ToSet(s \o t)
    BY <1>3 DEF ToSet
  <2>1. Len(s) + i \in 1..Len(s) + Len(t) /\ ~(Len(s) + i <= Len(s)) /\ Len(s) + i - Len(s) = i
    BY <1>3
  <2>2. (s \o t)[Len(s) + i] = t[i]  BY <1>2, <2>1
  <2> QED  BY <1>3, <2>1, <2>2 DEF ToSet
<1> QED  BY <1>2, <1>4, <1>5, <1>6 DEF IsSeq

LEMMA AppendIs ==
    ASSUME NEW s, IsSeq(s), NEW e
    PROVE  /\ IsSeq(Append(s, e)) /\ ToSet(Append(s, e)) = ToSet(s) \cup {e}
           /\ Len(Append(s, e)) = Len(s) + 1 /\ Append(s, e)[Len(s) + 1] = e
           /\ \A i \in 1..Len(s) : Append(s, e)[i] = s[i]
<1> DEFINE S == ToSet(s) \cup {e}
<1>1. s \in Seq(S) /\ e \in S
  BY SeqIs, SeqMonotonic
<1>2. /\ Append(s, e) \in Seq(S) /\ Len(Append(s, e)) = Len(s) + 1
      /\ Append(s, e)[Len(s) + 1] = e
      /\ \A i \in 1..Len(s) : Append(s, e)[i] = s[i]
      /\ Len(s) \in Nat
  BY <1>1, AppendProperties
<1>3. DOMAIN Append(s, e) = 1..(Len(s) + 1) /\ DOMAIN s = 1..Len(s)
  BY <1>1, <1>2
<1>4. ToSet(Append(s, e)) = S
  BY <1>2, <1>3 DEF ToSet
<1> QED  BY <1>2, <1>4 DEF IsSeq

LEMMA TailIs ==
    ASSUME NEW s, IsSeq(s), s # <<>>
    PROVE  IsSeq(Tail(s)) /\ ToSet(s) = ToSet(Tail(s)) \cup {Head(s)}
<1>1. /\ s \in Seq(ToSet(s)) /\ Len(s) \in Nat /\ DOMAIN s = 1..Len(s)
  BY SeqIs
<1>2. /\ Len(s) \in Nat \ {0} /\ Tail(s) \in Seq(ToSet(s)) /\ Len(Tail(s)) = Len(s) - 1
      /\ \A i \in 1..Len(Tail(s)) : Tail(s)[i] = s[i + 1]
      /\ Head(s) = s[1]
  BY <1>1, EmptySeq, HeadTailProperties
<1>3. DOMAIN Tail(s) = 1..(Len(s) - 1)
  BY <1>2
<1>4. ToSet(Tail(s)) \cup {Head(s)} \subseteq ToSet(s)
  BY <1>1, <1>2, <1>3 DEF ToSet
<1>5. ASSUME NEW i \in 1..Len(s)
      PROVE  s[i] \in ToSet(Tail(s)) \cup {Head(s)}
  <2>1. CASE i = 1  BY <1>2, <2>1
  <2>2. CASE i # 1
    <3>1. i - 1 \in 1..(Len(s) - 1) /\ (i - 1) + 1 = i  BY <1>2, <2>2
    <3>2. Tail(s)[i - 1] = s[i]  BY <1>2, <3>1
    <3> QED  BY <1>3, <3>1, <3>2 DEF ToSet
  <2> QED  BY <2>1, <2>2
<1>6. ToSet(s) \subseteq ToSet(Tail(s)) \cup {Head(s)}
  <2>1. \A x \in ToSet(s) : \E i \in 1..Len(s) : x = s[i]  BY <1>1 DEF ToSet
  <2> QED  BY <1>5, <2>1
<1> QED  BY <1>2, <1>4, <1>6 DEF IsSeq

LEMMA SubSeqIs ==
    ASSUME NEW s, IsSeq(s), NEW m \in Nat \ {0}, NEW n \in Nat, n <= Len(s)
    PROVE  IsSeq(SubSeq(s, m, n)) /\ ToSet(SubSeq(s, m, n)) \subseteq ToSet(s)
<1>1. /\ Len(s) \in Nat /\ \A i \in 1..Len(s) : s[i] \in ToSet(s)
  BY SeqIs
<1>2. m \in Int /\ n \in Int /\ \A i \in m..n : s[i] \in ToSet(s)
  BY <1>1
<1>3. SubSeq(s, m, n) \in Seq(ToSet(s))
  BY <1>2, SubSeqProperties
<1>4. ToSet(SubSeq(s, m, n)) \subseteq ToSet(s)
  BY <1>3 DEF ToSet
<1> QED  BY <1>3, <1>4 DEF IsSeq

\* The place of i among the elements of S.
Rank(S, i) == Cardinality({j \in S : j <= i})

\* At(q, S) has the elements of q at the positions in S in their order.
LEMMA AtRises ==
    ASSUME NEW q, IsSeq(q), NEW S \in SUBSET DOMAIN q
    PROVE  /\ Cardinality(S) \in Nat
           /\ \E at \in [1..Cardinality(S) -> S] :
                 /\ At(q, S) = [k \in 1..Cardinality(S) |-> q[at[k]]]
                 /\ \A k, l \in 1..Cardinality(S) : k < l => at[k] < at[l]
                 /\ \A i \in S : \E k \in 1..Cardinality(S) : at[k] = i
<1>1. Len(q) \in Nat /\ DOMAIN q = 1..Len(q)
  BY SeqIs
<1>2. S \subseteq Nat /\ IsFiniteSet(S)
  <2>1. IsFiniteSet(1..Len(q))  BY <1>1, FS_Interval
  <2> QED  BY <1>1, <2>1, FS_Subset
<1> DEFINE n == Cardinality(S)
           r == [i \in S |-> Rank(S, i)]
<1>3. n \in Nat
  BY <1>2, FS_CardinalityType
<1>4. ASSUME NEW i \in S
      PROVE  /\ IsFiniteSet({j \in S : j <= i}) /\ Rank(S, i) \in 1..n
  <2>1. {j \in S : j <= i} \subseteq S /\ i \in {j \in S : j <= i}  BY <1>2
  <2>2. IsFiniteSet({j \in S : j <= i}) /\ Rank(S, i) <= n /\ Rank(S, i) \in Nat
    BY <1>2, <2>1, FS_Subset, FS_CardinalityType DEF Rank
  <2>3. Rank(S, i) # 0  BY <2>1, <2>2, FS_EmptySet DEF Rank
  <2> QED  BY <1>3, <2>2, <2>3
<1>5. ASSUME NEW i \in S, NEW j \in S, i < j
      PROVE  Rank(S, i) # Rank(S, j)
  <2> DEFINE A == {k \in S : k <= i}
             B == {k \in S : k <= j}
  <2>1. A \subseteq B /\ j \in B /\ j \notin A  BY <1>2, <1>5
  <2>2. IsFiniteSet(B)  BY <1>4
  <2> HIDE DEF A, B
  <2>3. A # B  BY <2>1
  <2>5. Cardinality(A) # Cardinality(B)  BY <2>1, <2>2, <2>3, FS_Subset
  <2> QED  BY <2>5 DEF Rank, A, B
<1>6. \A i, j \in S : Rank(S, i) = Rank(S, j) => i = j
  <2> SUFFICES ASSUME NEW i \in S, NEW j \in S, Rank(S, i) = Rank(S, j), i # j
               PROVE  FALSE
    OBVIOUS
  <2>1. i < j \/ j < i  BY <1>2
  <2> QED  BY <1>5, <2>1
<1>7. \A k \in 1..n : \E i \in S : Rank(S, i) = k
  <2>1. r \in Injection(S, 1..n)  BY <1>4, <1>6 DEF Injection, IsInjective
  <2>2. IsFiniteSet(1..n) /\ Cardinality(1..n) = n  BY <1>3, FS_Interval
  <2> HIDE DEF n
  <2>3. Cardinality(S) = Cardinality(1..n)  BY <2>2 DEF n
  <2>4. r \in Surjection(S, 1..n)  BY <1>2, <2>1, <2>2, <2>3, FS_Injection
  <2> QED  BY <2>4 DEF Surjection
<1>8. ASSUME NEW i \in S, NEW j \in S, Rank(S, i) < Rank(S, j)
      PROVE  i < j
  <2> SUFFICES ASSUME ~(i < j) PROVE FALSE  OBVIOUS
  <2> DEFINE A == {k \in S : k <= i}
             B == {k \in S : k <= j}
  <2>1. B \subseteq A  BY <1>2
  <2>2. IsFiniteSet(A)  BY <1>4
  <2> HIDE DEF A, B
  <2>3. Cardinality(B) <= Cardinality(A)  BY <2>1, <2>2, FS_Subset
  <2>4. Rank(S, i) = Cardinality(A) /\ Rank(S, j) = Cardinality(B)  BY DEF Rank, A, B
  <2>5. Rank(S, i) \in 1..n /\ Rank(S, j) \in 1..n  BY <1>4
  <2> QED  BY <1>3, <1>8, <2>3, <2>4, <2>5
<1> DEFINE at == [k \in 1..n |-> CHOOSE i \in S : Rank(S, i) = k]
<1>9. \A k \in 1..n : at[k] \in S /\ Rank(S, at[k]) = k
  BY <1>7
<1>10. at \in [1..n -> S]
  BY <1>9
<1>11. \A i \in S : at[Rank(S, i)] = i
  BY <1>4, <1>6, <1>9
<1>12. At(q, S) = [k \in 1..n |-> q[at[k]]]
  BY DEF At, Rank
<1> HIDE DEF at, n
<1>13. \A k, l \in 1..n : k < l => at[k] < at[l]
  BY <1>8, <1>9
<1>14. \A i \in S : \E k \in 1..n : at[k] = i
  BY <1>4, <1>11
<1>15. n \in Nat /\ \E f \in [1..n -> S] :
                 /\ At(q, S) = [k \in 1..n |-> q[f[k]]]
                 /\ \A k, l \in 1..n : k < l => f[k] < f[l]
                 /\ \A i \in S : \E k \in 1..n : f[k] = i
  BY <1>3, <1>10, <1>12, <1>13, <1>14
<1> QED  BY <1>15 DEF n

\* At(q, S) has the elements of q at the positions in S, and no other.
LEMMA AtIs ==
    ASSUME NEW q, IsSeq(q), NEW S \in SUBSET DOMAIN q
    PROVE  IsSeq(At(q, S)) /\ ToSet(At(q, S)) = {q[i] : i \in S} /\ Len(At(q, S)) = Cardinality(S)
<1> DEFINE n == Cardinality(S)
<1>1. n \in Nat
  BY AtRises
<1>2. \E at \in [1..n -> S] :
            /\ At(q, S) = [k \in 1..n |-> q[at[k]]]
            /\ \A k, l \in 1..n : k < l => at[k] < at[l]
            /\ \A i \in S : \E k \in 1..n : at[k] = i
  BY AtRises
<1> HIDE DEF n
<1>3. PICK at \in [1..n -> S] :
            /\ At(q, S) = [k \in 1..n |-> q[at[k]]]
            /\ \A i \in S : \E k \in 1..n : at[k] = i
  BY <1>2
<1>4. At(q, S) = [k \in 1..n |-> At(q, S)[k]] /\ \A k \in 1..n : At(q, S)[k] = q[at[k]]
  BY <1>3
<1>5. IsSeq(At(q, S)) /\ Len(At(q, S)) = n /\ ToSet(At(q, S)) = {At(q, S)[k] : k \in 1..n}
  BY <1>1, <1>4, FunctionIsSeq
<1>6. ToSet(At(q, S)) = {q[i] : i \in S}
  <2>1. ToSet(At(q, S)) = {q[at[k]] : k \in 1..n}  BY <1>4, <1>5
  <2>2. {q[at[k]] : k \in 1..n} \subseteq {q[i] : i \in S}  BY <1>3
  <2>3. {q[i] : i \in S} \subseteq {q[at[k]] : k \in 1..n}  BY <1>3
  <2> QED  BY <2>1, <2>2, <2>3
<1> QED  BY <1>5, <1>6 DEF n

-----------------------------------------------------------------------------
(* Who owns a callback: the handle of the realtime module, or another.     *)

Values(f) == {f[x] : x \in DOMAIN f}
SshFrames == {i \in DOMAIN stack : stack[i].kind = "ssh"}

HttpIds == Values(callback_ids) \cup Values(stream_callback_ids) \cup Values(chunk_callback)
ProcessIds == {processes[id].cb : id \in DOMAIN processes}
LoadIds == {loads[i].cb : i \in DOMAIN loads}
TableIds == own \cup HttpIds \cup Values(job_callbacks) \cup Values(callback_by_operation)
                \cup ProcessIds \cup LoadIds

\* Whose events anyone but the handle enqueues, and whom only they unregister.
Foreign == {NoCallback} \cup TableIds \cup {stack[i].cur.cb : i \in SshFrames}
Mine == Ids \cup DOMAIN rt_silenced

OwnInv ==
    /\ next_id \in Nat \ {0} /\ next_id <= MaxCallbacks + 1
    /\ Foreign \subseteq 0..(next_id - 1)
    /\ Mine \subseteq 1..(next_id - 1)
    /\ Foreign \cap Mine = {}
    /\ registry \subseteq 1..(next_id - 1)
    /\ deferred \cup retired \subseteq 0..(next_id - 1)

\* The frames and the queue are sequences, as are the batches.
FrameInv ==
    /\ IsSeq(stack) /\ IsSeq(queue)
    /\ \A i \in DOMAIN stack : stack[i].kind = "dispatch" => IsSeq(stack[i].rest)
    /\ DOMAIN called = Callbacks
    /\ \A cb \in Callbacks : IsSeq(called[cb])

IsStopped(e, cb) == e.cb = cb /\ e.ev.what = "stopped"

\* The event "stopped" of a callback has reached it, or waits in the queue or in
\* a batch above the frame of close.
Reaches(cb) ==
    \/ \E k \in DOMAIN called[cb] : called[cb][k].ev.what = "stopped"
    \/ \E e \in ToSet(queue) : IsStopped(e, cb)
    \/ \E p, i \in DOMAIN stack :
          /\ stack[p].kind = "close" /\ p < i
          /\ stack[i].kind = "dispatch"
          /\ \E e \in ToSet(stack[i].rest) : IsStopped(e, cb)

CloseInv ==
    /\ rt_close \in {"open", "join", "drain", "closed"}
    /\ rt_close # "closed" => rt_live = rt_ids /\ rt_silenced = <<>>
    /\ \A a, b \in DOMAIN rt_ids : rt_ids[a] = rt_ids[b] => a = b
    /\ rt_close # "closed" /\ up => Ids \subseteq registry \ (deferred \cup retired)
    /\ (\E p \in DOMAIN stack : stack[p].kind = "close") <=> rt_close \in {"join", "drain"}
    /\ \A p, q \in DOMAIN stack : stack[p].kind = "close" /\ stack[q].kind = "close" => p = q
    /\ rt_close \in {"join", "drain"} /\ rt_dispatches => up
    /\ rt_close \in {"drain", "closed"} => rt_thread \in {"none", "gone"}
    /\ rt_close = "drain" /\ rt_dispatches /\ rt_thread = "gone" /\ "stopped" \in DOMAIN rt_live
          => Reaches(rt_live["stopped"])

SilentInv ==
    rt_close = "closed" =>
        /\ rt_ids = <<>>
        /\ \A cb \in DOMAIN rt_silenced :
              /\ Len(called[cb]) = rt_silenced[cb]
              /\ \A e \in ToSet(queue) : e.cb # cb
              /\ cb \in registry => cb \in retired /\ cb \in deferred
        /\ StoppedIsTold

HandleInv == OwnInv /\ FrameInv /\ CloseInv /\ SilentInv

-----------------------------------------------------------------------------
(* What the steps of the others do.                                        *)

\* s is the stack but for frames of lua_ssh_dispatch.
AlmostStack(s) ==
    /\ IsSeq(s)
    /\ \A i \in DOMAIN s :
          /\ i \in DOMAIN stack
          /\ \/ s[i] = stack[i]
             \/ stack[i].kind = "ssh" /\ s[i].kind = "ssh" /\ s[i].cur.cb \in Foreign
    /\ \A i \in DOMAIN stack \ DOMAIN s : stack[i].kind = "ssh"

\* From the frames s and the queue q: a batch is begun, or an ssh frame, or
\* neither.
Goes(s, q) ==
    /\ IsSeq(queue')
    /\ \/ stack' = s /\ ToSet(queue') = ToSet(q)
       \/ \E f : /\ stack' = Append(s, f)
                 /\ \/ /\ f.kind = "dispatch" /\ IsSeq(f.rest)
                       /\ ToSet(f.rest) \cup ToSet(queue') = ToSet(q)
                    \/ f.kind = "ssh" /\ f.cur = NoItem /\ ToSet(queue') = ToSet(q)

\* q is the queue with items for callbacks of the others.
Queueing(q) ==
    /\ IsSeq(q) /\ ToSet(queue) \subseteq ToSet(q)
    /\ \A e \in ToSet(q) : e \in ToSet(queue) \/ e.cb \in Foreign

Registering ==
    \/ \E drop \in SUBSET Foreign, add \in {0, 1} : Reregister(drop, add)
    \/ UNCHANGED <<next_id, registry, deferred, retired>>

Others ==
    /\ UNCHANGED <<lrVars, up, called>>
    /\ Registering
    /\ TableIds' \subseteq Foreign \cup next_id..(next_id' - 1)
    /\ \E s, q : AlmostStack(s) /\ Queueing(q) /\ Goes(s, q)

LEMMA Intervals ==
    ASSUME NEW n \in Nat \ {0}, NEW m \in Nat, n <= m
    PROVE  /\ 0..(n - 1) \subseteq 0..(m - 1) /\ 1..(n - 1) \subseteq 1..(m - 1)
           /\ n..(m - 1) \subseteq 1..(m - 1)
           /\ \A i \in 1..(n - 1) : i \notin n..(m - 1)
           /\ 1..(m - 1) \subseteq 0..(m - 1)
  OBVIOUS

\* What Reregister does to the ids that are not given to it.
LEMMA RegisteringIs ==
    ASSUME OwnInv, Registering
    PROVE  /\ next_id' \in Nat \ {0} /\ next_id <= next_id' /\ next_id' <= MaxCallbacks + 1
           /\ registry' \subseteq 1..(next_id' - 1)
           /\ deferred' \cup retired' \subseteq 0..(next_id' - 1)
           /\ \A cb \in Mine : /\ cb \in registry' <=> cb \in registry
                               /\ cb \in deferred' <=> cb \in deferred
                               /\ cb \in retired' <=> cb \in retired
<1>1. CASE UNCHANGED <<next_id, registry, deferred, retired>>
  BY <1>1 DEF OwnInv
<1>2. ASSUME NEW drop \in SUBSET Foreign, NEW add \in {0, 1}, Reregister(drop, add)
      PROVE  /\ next_id' \in Nat \ {0} /\ next_id <= next_id' /\ next_id' <= MaxCallbacks + 1
             /\ registry' \subseteq 1..(next_id' - 1)
             /\ deferred' \cup retired' \subseteq 0..(next_id' - 1)
             /\ \A cb \in Mine : /\ cb \in registry' <=> cb \in registry
                                 /\ cb \in deferred' <=> cb \in deferred
                                 /\ cb \in retired' <=> cb \in retired
  <2>1. /\ next_id' = next_id + add /\ next_id + add <= MaxCallbacks + 1
        /\ next_id \in Nat \ {0}
    BY <1>2 DEF Reregister, OwnInv
  <2>2. /\ registry' \subseteq registry \cup next_id..(next_id + add - 1)
        /\ registry \ drop \subseteq registry'
        /\ deferred \subseteq deferred' /\ deferred' \subseteq deferred \cup drop
        /\ retired' \subseteq retired /\ retired \ drop \subseteq retired'
    BY <1>2 DEF Reregister
  <2>3. \A cb \in Mine : cb \notin drop /\ cb \notin next_id..(next_id + add - 1)
    BY <2>1 DEF OwnInv
  <2>4. drop \subseteq 0..(next_id - 1) /\ registry \subseteq 1..(next_id - 1)
        /\ deferred \cup retired \subseteq 0..(next_id - 1)
    BY DEF OwnInv
  <2>5. registry' \subseteq 1..(next_id' - 1)  BY <2>1, <2>2, <2>4
  <2>6. deferred' \cup retired' \subseteq 0..(next_id' - 1)
    <3>1. deferred' \cup retired' \subseteq 0..(next_id - 1)  BY <2>2, <2>4
    <3>2. 0..(next_id - 1) \subseteq 0..(next_id' - 1)  BY <2>1
    <3> QED  BY <3>1, <3>2
  <2>7. next_id' \in Nat \ {0} /\ next_id <= next_id'  BY <2>1
  <2> QED  BY <2>1, <2>2, <2>3, <2>5, <2>6, <2>7
<1> QED  BY <1>1, <1>2 DEF Registering

\* The stack and the queue after such a step.
LEMMA GoesIs ==
    ASSUME FrameInv, NEW s, AlmostStack(s), NEW q, Queueing(q), Goes(s, q)
    PROVE  /\ IsSeq(stack') /\ IsSeq(queue')
           /\ \A i \in DOMAIN stack' : stack'[i].kind = "dispatch" => IsSeq(stack'[i].rest)
           /\ \A i \in DOMAIN stack' : stack'[i].kind = "ssh" => stack'[i].cur.cb \in Foreign
           /\ \A i : i \in DOMAIN stack /\ stack[i].kind \in {"close", "dispatch"}
                        => i \in DOMAIN stack' /\ stack'[i] = stack[i]
           /\ \A i : i \in DOMAIN stack' /\ stack'[i].kind = "close"
                        => i \in DOMAIN stack /\ stack[i] = stack'[i]
           /\ \A e \in ToSet(queue') : e \in ToSet(queue) \/ e.cb \in Foreign
           /\ \A e \in ToSet(queue) :
                 \/ e \in ToSet(queue')
                 \/ \E i \in DOMAIN stack' :
                       /\ stack'[i].kind = "dispatch" /\ e \in ToSet(stack'[i].rest)
                       /\ \A p \in DOMAIN stack : stack[p].kind = "close" => p < i
<1> DEFINE n == Len(s) + 1
<1>1. /\ IsSeq(s) /\ IsSeq(queue') /\ Len(s) \in Nat /\ DOMAIN s = 1..Len(s)
      /\ IsSeq(stack) /\ Len(stack) \in Nat /\ DOMAIN stack = 1..Len(stack)
  BY SeqIs DEF AlmostStack, Goes, FrameInv
<1>2. /\ \A i \in DOMAIN s :
            /\ i \in DOMAIN stack
            /\ s[i] = stack[i] \/ (stack[i].kind = "ssh" /\ s[i].kind = "ssh" /\ s[i].cur.cb \in Foreign)
      /\ \A i \in DOMAIN stack \ DOMAIN s : stack[i].kind = "ssh"
  BY DEF AlmostStack
<1>3. \A i \in DOMAIN stack : stack[i].kind = "ssh" => stack[i].cur.cb \in Foreign
  BY DEF Foreign, SshFrames
<1>4. /\ ToSet(queue) \subseteq ToSet(q)
      /\ \A e \in ToSet(q) : e \in ToSet(queue) \/ e.cb \in Foreign
  BY DEF Queueing
<1>5. \A i \in DOMAIN stack : stack[i].kind = "dispatch" => IsSeq(stack[i].rest)
  BY DEF FrameInv
<1>6. CASE stack' = s /\ ToSet(queue') = ToSet(q)
  BY <1>1, <1>2, <1>3, <1>4, <1>5, <1>6
<1>7. ASSUME NEW f, stack' = Append(s, f),
             \/ /\ f.kind = "dispatch" /\ IsSeq(f.rest)
                /\ ToSet(f.rest) \cup ToSet(queue') = ToSet(q)
             \/ f.kind = "ssh" /\ f.cur = NoItem /\ ToSet(queue') = ToSet(q)
      PROVE  /\ IsSeq(stack') /\ IsSeq(queue')
             /\ \A i \in DOMAIN stack' : stack'[i].kind = "dispatch" => IsSeq(stack'[i].rest)
             /\ \A i \in DOMAIN stack' : stack'[i].kind = "ssh" => stack'[i].cur.cb \in Foreign
             /\ \A i : i \in DOMAIN stack /\ stack[i].kind \in {"close", "dispatch"}
                          => i \in DOMAIN stack' /\ stack'[i] = stack[i]
             /\ \A i : i \in DOMAIN stack' /\ stack'[i].kind = "close"
                          => i \in DOMAIN stack /\ stack[i] = stack'[i]
             /\ \A e \in ToSet(queue') : e \in ToSet(queue) \/ e.cb \in Foreign
             /\ \A e \in ToSet(queue) :
                   \/ e \in ToSet(queue')
                   \/ \E i \in DOMAIN stack' :
                         /\ stack'[i].kind = "dispatch" /\ e \in ToSet(stack'[i].rest)
                         /\ \A p \in DOMAIN stack : stack[p].kind = "close" => p < i
  <2>1. /\ IsSeq(stack') /\ DOMAIN stack' = DOMAIN s \cup {n} /\ n \notin DOMAIN s
        /\ stack'[n] = f /\ \A i \in DOMAIN s : stack'[i] = s[i]
    <3>1. /\ IsSeq(stack') /\ Len(stack') = n /\ stack'[n] = f
          /\ \A i \in 1..Len(s) : stack'[i] = s[i]
      BY <1>1, <1>7, AppendIs
    <3>2. DOMAIN stack' = 1..n  BY <3>1, SeqIs
    <3> QED  BY <1>1, <3>1, <3>2
  <2>2. \A p \in DOMAIN stack : stack[p].kind = "close" => p < n  BY <1>1, <1>2
  <2> HIDE DEF n
  <2>3. NoItem.cb = NoCallback /\ NoCallback \in Foreign  BY DEF NoItem, Item, Foreign
  <2>4. \A i \in DOMAIN stack' : stack'[i].kind = "dispatch" => IsSeq(stack'[i].rest)
    BY <1>2, <1>5, <1>7, <2>1
  <2>5. \A i \in DOMAIN stack' : stack'[i].kind = "ssh" => stack'[i].cur.cb \in Foreign
    BY <1>2, <1>3, <1>7, <2>1, <2>3
  <2>6. \A i : i \in DOMAIN stack /\ stack[i].kind \in {"close", "dispatch"}
                  => i \in DOMAIN stack' /\ stack'[i] = stack[i]
    BY <1>2, <2>1
  <2>7. \A i : i \in DOMAIN stack' /\ stack'[i].kind = "close"
                  => i \in DOMAIN stack /\ stack[i] = stack'[i]
    BY <1>2, <1>7, <2>1
  <2>8. \A e \in ToSet(queue') : e \in ToSet(queue) \/ e.cb \in Foreign  BY <1>4, <1>7
  <2>9. ASSUME NEW e \in ToSet(queue)
        PROVE  \/ e \in ToSet(queue')
               \/ \E i \in DOMAIN stack' :
                     /\ stack'[i].kind = "dispatch" /\ e \in ToSet(stack'[i].rest)
                     /\ \A p \in DOMAIN stack : stack[p].kind = "close" => p < i
    <3>1. \/ e \in ToSet(queue')
          \/ f.kind = "dispatch" /\ e \in ToSet(f.rest)
      BY <1>4, <1>7
    <3> QED  BY <2>1, <2>2, <3>1
  <2> QED  BY <1>1, <2>1, <2>4, <2>5, <2>6, <2>7, <2>8, <2>9
<1> QED  BY <1>6, <1>7 DEF Goes

LEMMA DispatchGoes ==
    ASSUME NEW s, NEW q, IsSeq(q), NEW ids, NEW max, DispatchFrom(s, q, ids, max)
    PROVE  Goes(s, q)
<1> DEFINE taken == TakenAt(q, ids, max)
           f == Frame("dispatch", At(q, taken), NoItem)
<1>1. taken \in SUBSET DOMAIN q /\ DOMAIN q \ taken \in SUBSET DOMAIN q
  BY DEF TakenAt
<1>2. /\ queue' = At(q, DOMAIN q \ taken)
      /\ stack' = IF taken = {} THEN s ELSE Append(s, f)
  BY DEF DispatchFrom
<1> HIDE DEF taken
<1>3. /\ IsSeq(queue') /\ ToSet(queue') = {q[i] : i \in DOMAIN q \ taken}
      /\ IsSeq(At(q, taken)) /\ ToSet(At(q, taken)) = {q[i] : i \in taken}
  BY <1>1, <1>2, AtIs
<1>4. ToSet(At(q, taken)) \cup ToSet(queue') = ToSet(q)
  BY <1>1, <1>3 DEF ToSet
<1>5. f.kind = "dispatch" /\ f.rest = At(q, taken)
  BY DEF Frame
<1> HIDE DEF f
<1>6. CASE taken = {}
  <2>1. ToSet(queue') = ToSet(q)  BY <1>3, <1>4, <1>6
  <2> QED  BY <1>2, <1>3, <1>6, <2>1 DEF Goes
<1>7. CASE taken # {}
  BY <1>2, <1>3, <1>4, <1>5, <1>7 DEF Goes
<1> QED  BY <1>6, <1>7

\* The others leave the handle as it is, and what it is owed.
LEMMA OthersKeep == HandleInv /\ Others => HandleInv'
<1> SUFFICES ASSUME HandleInv, Others PROVE HandleInv'
  OBVIOUS
<1>1. OwnInv /\ FrameInv /\ CloseInv /\ SilentInv
  BY DEF HandleInv
<1>2. PICK s, q : AlmostStack(s) /\ Queueing(q) /\ Goes(s, q)
  BY DEF Others
<1>3. /\ IsSeq(stack') /\ IsSeq(queue')
      /\ \A i \in DOMAIN stack' : stack'[i].kind = "dispatch" => IsSeq(stack'[i].rest)
      /\ \A i \in DOMAIN stack' : stack'[i].kind = "ssh" => stack'[i].cur.cb \in Foreign
      /\ \A i : i \in DOMAIN stack /\ stack[i].kind \in {"close", "dispatch"}
                   => i \in DOMAIN stack' /\ stack'[i] = stack[i]
      /\ \A i : i \in DOMAIN stack' /\ stack'[i].kind = "close"
                   => i \in DOMAIN stack /\ stack[i] = stack'[i]
      /\ \A e \in ToSet(queue') : e \in ToSet(queue) \/ e.cb \in Foreign
      /\ \A e \in ToSet(queue) :
            \/ e \in ToSet(queue')
            \/ \E i \in DOMAIN stack' :
                  /\ stack'[i].kind = "dispatch" /\ e \in ToSet(stack'[i].rest)
                  /\ \A p \in DOMAIN stack : stack[p].kind = "close" => p < i
  BY <1>1, <1>2, GoesIs
<1>4. /\ next_id \in Nat \ {0} /\ next_id' \in Nat \ {0} /\ next_id <= next_id'
      /\ next_id' <= MaxCallbacks + 1
      /\ registry' \subseteq 1..(next_id' - 1)
      /\ deferred' \cup retired' \subseteq 0..(next_id' - 1)
      /\ \A cb \in Mine : /\ cb \in registry' <=> cb \in registry
                          /\ cb \in deferred' <=> cb \in deferred
                          /\ cb \in retired' <=> cb \in retired
  BY <1>1, RegisteringIs DEF Others, OwnInv
<1>5. /\ UNCHANGED <<rt_ids, rt_live, rt_thread, rt_close, rt_dispatches, rt_silenced, up, called>>
      /\ TableIds' \subseteq Foreign \cup next_id..(next_id' - 1)
  BY DEF Others, lrVars
<1>6. Ids' = Ids /\ Mine' = Mine
  BY <1>5 DEF Ids, Mine
<1>12. /\ 0..(next_id - 1) \subseteq 0..(next_id' - 1) /\ 1..(next_id - 1) \subseteq 1..(next_id' - 1)
       /\ next_id..(next_id' - 1) \subseteq 1..(next_id' - 1)
       /\ \A i \in 1..(next_id - 1) : i \notin next_id..(next_id' - 1)
       /\ 1..(next_id' - 1) \subseteq 0..(next_id' - 1)
  <2>1. next_id \in Nat \ {0} /\ next_id' \in Nat /\ next_id <= next_id'  BY <1>4
  <2> QED  BY <2>1, Intervals
<1>7. OwnInv'
  <2>1. Foreign' \subseteq Foreign \cup next_id..(next_id' - 1)
    <3>1. \A i \in SshFrames' : stack'[i].cur.cb \in Foreign  BY <1>3 DEF SshFrames
    <3>2. Foreign' = {NoCallback} \cup TableIds' \cup {stack'[i].cur.cb : i \in SshFrames'}
      BY DEF Foreign, NoCallback
    <3>3. {NoCallback} \cup TableIds \subseteq Foreign  BY DEF Foreign
    <3> QED  BY <1>5, <3>1, <3>2, <3>3
  <2>2. /\ Foreign \subseteq 0..(next_id - 1) /\ Mine \subseteq 1..(next_id - 1)
        /\ Foreign \cap Mine = {}
    BY <1>1 DEF OwnInv
  <2>3. Foreign' \subseteq 0..(next_id' - 1)
    <3>1. Foreign \subseteq 0..(next_id' - 1)  BY <1>12, <2>2
    <3>2. next_id..(next_id' - 1) \subseteq 0..(next_id' - 1)  BY <1>12
    <3> QED  BY <2>1, <3>1, <3>2
  <2>4. Mine \subseteq 1..(next_id' - 1)  BY <1>12, <2>2
  <2>5. Foreign' \cap Mine = {}
    <3>1. \A cb \in Mine : cb \notin next_id..(next_id' - 1)  BY <1>12, <2>2
    <3> QED  BY <2>1, <2>2, <3>1
  <2> QED  BY <1>4, <1>6, <2>3, <2>4, <2>5 DEF OwnInv
<1>8. FrameInv'
  BY <1>1, <1>3, <1>5 DEF FrameInv
<1>9. \A cb : Reaches(cb) /\ (\E p \in DOMAIN stack : stack[p].kind = "close") => Reaches(cb)'
  <2> SUFFICES ASSUME NEW cb, Reaches(cb), NEW p \in DOMAIN stack, stack[p].kind = "close"
               PROVE  Reaches(cb)'
    OBVIOUS
  <2>1. p \in DOMAIN stack' /\ stack'[p].kind = "close"  BY <1>3
  <2>2. CASE \E k \in DOMAIN called[cb] : called[cb][k].ev.what = "stopped"
    BY <1>5, <2>2 DEF Reaches
  <2>3. ASSUME NEW e \in ToSet(queue), IsStopped(e, cb)
        PROVE  Reaches(cb)'
    <3>1. CASE e \in ToSet(queue')  BY <2>3, <3>1 DEF Reaches, IsStopped
    <3>2. ASSUME NEW i \in DOMAIN stack', stack'[i].kind = "dispatch",
                 e \in ToSet(stack'[i].rest), p < i
          PROVE  Reaches(cb)'
      BY <2>1, <2>3, <3>2 DEF Reaches, IsStopped
    <3> QED  BY <1>3, <3>1, <3>2
  <2>4. ASSUME NEW r \in DOMAIN stack, NEW i \in DOMAIN stack, stack[r].kind = "close", r < i,
               stack[i].kind = "dispatch", NEW e \in ToSet(stack[i].rest), IsStopped(e, cb)
        PROVE  Reaches(cb)'
    <3>1. r \in DOMAIN stack' /\ stack'[r] = stack[r] /\ i \in DOMAIN stack' /\ stack'[i] = stack[i]
      BY <1>3, <2>4
    <3> QED  BY <2>4, <3>1 DEF Reaches, IsStopped
  <2> QED  BY <2>2, <2>3, <2>4 DEF Reaches
<1>10. CloseInv'
  <2>1. /\ (\E p \in DOMAIN stack : stack[p].kind = "close")
              <=> (\E p \in DOMAIN stack' : stack'[p].kind = "close")
        /\ (\A p, r \in DOMAIN stack : stack[p].kind = "close" /\ stack[r].kind = "close" => p = r)
              => (\A p, r \in DOMAIN stack' :
                     stack'[p].kind = "close" /\ stack'[r].kind = "close" => p = r)
    BY <1>3
  <2>2. Ids \subseteq Mine  BY DEF Mine
  <2>3. Ids \subseteq registry \ (deferred \cup retired)
            => Ids \subseteq registry' \ (deferred' \cup retired')
    BY <1>4, <2>2
  <2>4. rt_close = "drain" => (\A cb : Reaches(cb) => Reaches(cb)')  BY <1>1, <1>9 DEF CloseInv
  <2>5. (rt_close = "drain" /\ rt_dispatches /\ rt_thread = "gone" /\ "stopped" \in DOMAIN rt_live
            => Reaches(rt_live["stopped"]))'
    <3> SUFFICES ASSUME rt_close = "drain", rt_dispatches, rt_thread = "gone",
                        "stopped" \in DOMAIN rt_live
                 PROVE  Reaches(rt_live["stopped"])'
      BY <1>5
    <3>1. Reaches(rt_live["stopped"])  BY <1>1 DEF CloseInv
    <3> DEFINE cb == rt_live["stopped"]
    <3>2. PICK x : x = cb  OBVIOUS
    <3>3. Reaches(x)'  BY <2>4, <3>1, <3>2
    <3> QED  BY <1>5, <3>2, <3>3 DEF Reaches
  <2> QED  BY <1>1, <1>5, <1>6, <2>1, <2>3, <2>5 DEF CloseInv
<1>11. SilentInv'
  <2> SUFFICES ASSUME rt_close = "closed"
               PROVE  SilentInv'
    BY <1>5 DEF SilentInv
  <2>1. /\ rt_ids = <<>> /\ StoppedIsTold
        /\ \A cb \in DOMAIN rt_silenced :
              /\ Len(called[cb]) = rt_silenced[cb]
              /\ \A e \in ToSet(queue) : e.cb # cb
              /\ cb \in registry => cb \in retired /\ cb \in deferred
    BY <1>1 DEF SilentInv
  <2>2. StoppedIsTold'  BY <1>5, <2>1 DEF StoppedIsTold
  <2>3. ASSUME NEW cb \in DOMAIN rt_silenced
        PROVE  /\ Len(called[cb]) = rt_silenced[cb]
               /\ \A e \in ToSet(queue') : e.cb # cb
               /\ cb \in registry' => cb \in retired' /\ cb \in deferred'
    <3>1. cb \in Mine /\ cb \notin Foreign  BY <1>1 DEF Mine, OwnInv
    <3> QED  BY <1>3, <1>4, <2>1, <3>1
  <2> QED  BY <1>5, <2>1, <2>2, <2>3 DEF SilentInv
<1> QED  BY <1>7, <1>8, <1>10, <1>11 DEF HandleInv

-----------------------------------------------------------------------------
(* Every step of the other services is one of these.                       *)

Running == \E s, q : AlmostStack(s) /\ Queueing(q) /\ Goes(s, q)
Keeps == UNCHANGED called /\ Registering /\ Running
New == next_id..(next_id' - 1)

LEMMA SameIsQueueing == FrameInv => AlmostStack(stack) /\ Queueing(queue)
  BY DEF FrameInv, AlmostStack, Queueing

LEMMA StayingIsRunning == FrameInv /\ UNCHANGED <<stack, queue>> => Running
<1> SUFFICES ASSUME FrameInv, UNCHANGED <<stack, queue>> PROVE Running
  OBVIOUS
<1>1. Goes(stack, queue)
  BY DEF Goes, FrameInv
<1> QED  BY <1>1, SameIsQueueing DEF Running

LEMMA PostingIsRunning ==
    ASSUME FrameInv, NEW q, Queueing(q), queue' = q, UNCHANGED stack
    PROVE  Running
<1>1. Goes(stack, q)
  BY DEF Goes, Queueing
<1> QED  BY <1>1, SameIsQueueing DEF Running

LEMMA AppendIsQueueing ==
    ASSUME FrameInv, NEW cb \in Foreign, NEW ev
    PROVE  Queueing(Append(queue, Item(cb, ev)))
<1>1. Item(cb, ev).cb = cb
  BY DEF Item
<1> HIDE DEF Item
<1>2. /\ IsSeq(Append(queue, Item(cb, ev)))
      /\ ToSet(Append(queue, Item(cb, ev))) = ToSet(queue) \cup {Item(cb, ev)}
  BY AppendIs DEF FrameInv
<1> QED  BY <1>1, <1>2 DEF Queueing

LEMMA ItemsAreQueueing ==
    ASSUME FrameInv, NEW items, IsSeq(items), \A e \in ToSet(items) : e.cb \in Foreign
    PROVE  Queueing(queue \o items)
<1>1. IsSeq(queue \o items) /\ ToSet(queue \o items) = ToSet(queue) \cup ToSet(items)
  BY ConcatIs DEF FrameInv
<1> QED  BY <1>1 DEF Queueing

LEMMA DispatchIsRunning ==
    ASSUME NEW s, AlmostStack(s), NEW q, Queueing(q), NEW ids, NEW max,
           DispatchFrom(s, q, ids, max)
    PROVE  Running
<1>1. Goes(s, q)
  BY DispatchGoes DEF Queueing
<1> QED  BY <1>1 DEF Running

\* The stack with its top frame gone, or replaced.
LEMMA TopIs ==
    ASSUME FrameInv, Top.kind # "none"
    PROVE  /\ Len(stack) \in Nat \ {0} /\ DOMAIN stack = 1..Len(stack)
           /\ Top = stack[Len(stack)]
           /\ IsSeq(Below) /\ DOMAIN Below = 1..(Len(stack) - 1)
           /\ \A i \in 1..(Len(stack) - 1) : Below[i] = stack[i]
<1>1. IsSeq(stack) /\ stack # <<>>
  BY DEF FrameInv, Top, Frame
<1>2. Len(stack) \in Nat \ {0} /\ DOMAIN stack = 1..Len(stack) /\ stack \in Seq(ToSet(stack))
  <2>1. Len(stack) \in Nat /\ DOMAIN stack = 1..Len(stack) /\ stack \in Seq(ToSet(stack))
    BY <1>1, SeqIs
  <2> QED  BY <1>1, <2>1, EmptySeq
<1>3. Top = stack[Len(stack)]
  BY <1>1 DEF Top
<1> DEFINE n == Len(stack) - 1
<1>4. n \in Int /\ n >= 0 /\ 1 \in Int /\ \A i \in 1..n : stack[i] \in ToSet(stack)
  BY <1>1, <1>2, SeqIs
<1> HIDE DEF n
<1>5. /\ SubSeq(stack, 1, n) \in Seq(ToSet(stack))
      /\ Len(SubSeq(stack, 1, n)) = IF 1 <= n THEN n - 1 + 1 ELSE 0
      /\ \A i \in 1..(n - 1 + 1) : SubSeq(stack, 1, n)[i] = stack[1 + i - 1]
  BY <1>4, SubSeqProperties
<1>6. Below = SubSeq(stack, 1, n)
  BY DEF Below, n
<1>7. Len(Below) = n
  BY <1>4, <1>5, <1>6
<1>8. \A i \in 1..n : 1..(n - 1 + 1) = 1..n /\ 1 + i - 1 = i
  BY <1>4
<1>9. \A i \in 1..n : Below[i] = stack[i]
  BY <1>5, <1>6, <1>8
<1>10. IsSeq(Below)
  BY <1>5, <1>6 DEF IsSeq
<1>11. DOMAIN Below = 1..n
  BY <1>7, <1>10, SeqIs
<1> QED  BY <1>2, <1>3, <1>9, <1>10, <1>11 DEF n

LEMMA ReplacedIs ==
    ASSUME FrameInv, Top.kind # "none", NEW f
    PROVE  /\ IsSeq(Append(Below, f)) /\ DOMAIN Append(Below, f) = DOMAIN stack
           /\ Append(Below, f)[Len(stack)] = f
           /\ \A i \in 1..(Len(stack) - 1) : Append(Below, f)[i] = stack[i]
<1>1. /\ Len(stack) \in Nat \ {0} /\ DOMAIN stack = 1..Len(stack)
      /\ IsSeq(Below) /\ DOMAIN Below = 1..(Len(stack) - 1)
      /\ \A i \in 1..(Len(stack) - 1) : Below[i] = stack[i]
  BY TopIs
<1>2. Len(Below) = Len(stack) - 1
  <2>1. Len(Below) \in Nat /\ 1..Len(Below) = 1..(Len(stack) - 1)  BY <1>1, SeqIs
  <2>2. \A a, b \in Nat : 1..a = 1..b => a = b
    <3> SUFFICES ASSUME NEW a \in Nat, NEW b \in Nat, 1..a = 1..b, a # b PROVE FALSE  OBVIOUS
    <3>1. CASE a < b
      <4>1. b \in 1..b /\ b \notin 1..a  BY <3>1
      <4> QED  BY <4>1
    <3>2. CASE b < a
      <4>1. a \in 1..a /\ a \notin 1..b  BY <3>2
      <4> QED  BY <4>1
    <3> QED  BY <3>1, <3>2
  <2>3. Len(stack) - 1 \in Nat  BY <1>1
  <2> QED  BY <2>1, <2>2, <2>3
<1>3. /\ IsSeq(Append(Below, f))
      /\ Len(Append(Below, f)) = Len(Below) + 1 /\ Append(Below, f)[Len(Below) + 1] = f
      /\ \A i \in 1..Len(Below) : Append(Below, f)[i] = Below[i]
  BY <1>1, AppendIs
<1>4. Len(Below) + 1 = Len(stack)
  BY <1>1, <1>2
<1>5. DOMAIN Append(Below, f) = DOMAIN stack
  BY <1>1, <1>3, <1>4, SeqIs
<1> QED  BY <1>1, <1>2, <1>3, <1>4, <1>5

\* The frame on top is one of lua_ssh_dispatch: it goes, or is replaced.
LEMMA SshFrameIsAlmost ==
    ASSUME FrameInv, Top.kind = "ssh"
    PROVE  /\ AlmostStack(Below)
           /\ \A f : f.kind = "ssh" /\ f.cur.cb \in Foreign => AlmostStack(Append(Below, f))
<1>1. /\ Len(stack) \in Nat \ {0} /\ DOMAIN stack = 1..Len(stack)
      /\ Top = stack[Len(stack)]
      /\ IsSeq(Below) /\ DOMAIN Below = 1..(Len(stack) - 1)
      /\ \A i \in 1..(Len(stack) - 1) : Below[i] = stack[i]
  BY TopIs
<1>2. AlmostStack(Below)
  <2>1. \A i \in DOMAIN stack \ DOMAIN Below : i = Len(stack)  BY <1>1
  <2>2. \A i \in DOMAIN Below : i \in DOMAIN stack  BY <1>1
  <2> QED  BY <1>1, <2>1, <2>2 DEF AlmostStack
<1>3. ASSUME NEW f, f.kind = "ssh", f.cur.cb \in Foreign
      PROVE  AlmostStack(Append(Below, f))
  <2>1. /\ IsSeq(Append(Below, f)) /\ DOMAIN Append(Below, f) = DOMAIN stack
        /\ Append(Below, f)[Len(stack)] = f
        /\ \A i \in 1..(Len(stack) - 1) : Append(Below, f)[i] = stack[i]
    BY ReplacedIs
  <2>2. \A i \in DOMAIN stack : i = Len(stack) \/ i \in 1..(Len(stack) - 1)  BY <1>1
  <2> QED  BY <1>1, <1>3, <2>1, <2>2 DEF AlmostStack
<1> QED  BY <1>2, <1>3

LEMMA ReregisterIsRegistering ==
    ASSUME NEW drop, drop \subseteq Foreign, NEW add \in {0, 1}, Reregister(drop, add)
    PROVE  Registering
  BY DEF Registering

LEMMA FreshIsNew ==
    ASSUME OwnInv, NEW drop, Reregister(drop, 1)
    PROVE  next_id \in New
<1>1. next_id' = next_id + 1 /\ next_id \in Nat
  BY DEF OwnInv, Reregister
<1> QED  BY <1>1 DEF New

LEMMA TablesAreForeign ==
    /\ own \subseteq Foreign /\ HttpIds \subseteq Foreign
    /\ Values(job_callbacks) \subseteq Foreign /\ Values(callback_by_operation) \subseteq Foreign
    /\ ProcessIds \subseteq Foreign /\ LoadIds \subseteq Foreign /\ NoCallback \in Foreign
  BY DEF Foreign, TableIds

-----------------------------------------------------------------------------
(* What the services keep is in order: their queues are sequences, and what *)
(* they name exists.                                                       *)

HttpSeqs ==
    /\ http_next <= MaxRequests + 1
    /\ IsSeq(completed)
    /\ DOMAIN chunk_callback = Requests

LoadNames(s) == IsSeq(s) /\ ToSet(s) \subseteq DOMAIN loads

LoadSeqs ==
    /\ IsSeq(loads)
    /\ IsSeq(load_results) /\ \A r \in ToSet(load_results) : r.id \in DOMAIN loads
    /\ pending_loads \subseteq DOMAIN loads
    /\ LoadNames(texture_uploads) /\ LoadNames(cubemap_uploads)

ServiceInv == HttpSeqs /\ IsSeq(job_results) /\ LoadSeqs

-----------------------------------------------------------------------------
(* The HTTP module.                                                        *)

LEMMA ItemsForIs ==
    ASSUME NEW responses, IsSeq(responses)
    PROVE  IsSeq(ItemsFor(responses)) /\ \A e \in ToSet(ItemsFor(responses)) : e.cb \in HttpIds
<1> DEFINE ids == DOMAIN stream_callback_ids \cup DOMAIN callback_ids
           S == {i \in DOMAIN responses : responses[i].id \in ids}
           mine == At(responses, S)
           item(k) == IF mine[k].id \in DOMAIN stream_callback_ids
                      THEN Item(stream_callback_ids[mine[k].id], Done(mine[k].id))
                      ELSE Item(callback_ids[mine[k].id], Response(mine[k]))
           n == Len(mine)
<1>1. ItemsFor(responses) = [k \in DOMAIN mine |-> item(k)]
  BY DEF ItemsFor
<1>2. IsSeq(mine) /\ ToSet(mine) = {responses[i] : i \in S}
  BY AtIs
<1> HIDE DEF mine
<1>3. n \in Nat /\ DOMAIN mine = 1..n /\ \A k \in 1..n : mine[k] \in ToSet(mine)
  BY <1>2, SeqIs
<1>4. \A k \in 1..n : mine[k].id \in ids
  BY <1>2, <1>3
<1>5. \A k \in 1..n : item(k).cb \in HttpIds
  BY <1>4 DEF Item, HttpIds, Values
<1> HIDE DEF item, n
<1>6. ItemsFor(responses) = [k \in 1..n |-> ItemsFor(responses)[k]]
      /\ \A k \in 1..n : ItemsFor(responses)[k] = item(k)
  BY <1>1, <1>3
<1>7. /\ IsSeq(ItemsFor(responses))
      /\ ToSet(ItemsFor(responses)) = {ItemsFor(responses)[k] : k \in 1..n}
  BY <1>3, <1>6, FunctionIsSeq
<1> QED  BY <1>5, <1>6, <1>7

LEMMA GiveOutKeeps ==
    ASSUME FrameInv, NEW responses, IsSeq(responses), GiveOut(responses)
    PROVE  Keeps /\ UNCHANGED own /\ HttpIds' \subseteq HttpIds
<1> DEFINE ids == {responses[i].id : i \in DOMAIN responses}
           streams == {stream_callback_ids[id] : id \in ids \cap DOMAIN stream_callback_ids}
<1>1. /\ Reregister(streams, 0)
      /\ stream_callback_ids' = Without(stream_callback_ids, ids)
      /\ callback_ids' = Without(callback_ids, ids)
      /\ DispatchFrom(stack, queue \o ItemsFor(responses), Callbacks, 0)
      /\ UNCHANGED <<own, called, chunk_callback>>
  BY DEF GiveOut, Unregister
<1> HIDE DEF ids
<1>2. streams \subseteq Foreign
  BY TablesAreForeign DEF HttpIds, Values
<1>3. Registering
  BY <1>1, <1>2, ReregisterIsRegistering
<1>4. Running
  <2>1. \A e \in ToSet(ItemsFor(responses)) : e.cb \in Foreign  BY ItemsForIs, TablesAreForeign
  <2>2. Queueing(queue \o ItemsFor(responses))  BY <2>1, ItemsForIs, ItemsAreQueueing
  <2> QED  BY <1>1, <2>2, SameIsQueueing, DispatchIsRunning
<1>5. HttpIds' \subseteq HttpIds
  BY <1>1 DEF HttpIds, Values, Without
<1> QED  BY <1>1, <1>3, <1>4, <1>5 DEF Keeps

LEMMA PolledIs ==
    ASSUME IsSeq(completed), NEW max \in Nat
    PROVE  IsSeq(HttpPolled(max))
<1>1. Len(completed) \in Nat
  BY SeqIs
<1>2. CASE max = 0 \/ max > Len(completed)
  BY <1>2 DEF HttpPolled
<1>3. CASE ~(max = 0 \/ max > Len(completed))
  <2>1. IsSeq(SubSeq(completed, 1, max))
    <3>1. 1 \in Nat \ {0} /\ max <= Len(completed)  BY <1>1, <1>3
    <3> QED  BY <3>1, SubSeqIs
  <2> QED  BY <1>3, <2>1 DEF HttpPolled
<1> QED  BY <1>2, <1>3

LEMMA HttpKeeps ==
    ASSUME OwnInv, FrameInv, ServiceInv, HttpInv,
           \/ \E kind \in {"stream", "callback", "plain"} : HttpRequest(kind)
           \/ \E id : HttpCancelCall(id)
           \/ \E max \in {0, 1} : HttpPollCall(max)
           \/ HttpDispatch
           \/ \E t \in HttpThreads : HttpStreamChunk(t)
           \/ HttpDrop
           \/ UNCHANGED <<cbVars, lhVars>>
    PROVE  Keeps /\ UNCHANGED own /\ HttpIds' \subseteq HttpIds \cup New
<1>1. ASSUME NEW kind \in {"stream", "callback", "plain"}, HttpRequest(kind)
      PROVE  Keeps /\ UNCHANGED own /\ HttpIds' \subseteq HttpIds \cup New
  <2>1. UNCHANGED <<queue, stack, own, called>>  BY <1>1 DEF HttpRequest
  <2>2. Running  BY <2>1, StayingIsRunning
  <2>3. Reregister({}, 1) \/ UNCHANGED <<next_id, registry, deferred, retired>>
    BY <1>1 DEF HttpRequest
  <2>4. Registering  BY <2>3, ReregisterIsRegistering DEF Registering
  <2>5. HttpIds' \subseteq HttpIds \cup New
    <3>1. CASE kind = "stream"
      <4>1. next_id \in New  BY <1>1, <3>1, FreshIsNew DEF HttpRequest
      <4>2. /\ stream_callback_ids' = With(stream_callback_ids, http_next, next_id)
            /\ chunk_callback' = [chunk_callback EXCEPT ![http_next] = next_id]
            /\ callback_ids' = callback_ids
        BY <1>1, <3>1 DEF HttpRequest
      <4> QED  BY <4>1, <4>2 DEF HttpIds, Values, With
    <3>2. CASE kind = "callback"
      <4>1. next_id \in New  BY <1>1, <3>2, FreshIsNew DEF HttpRequest
      <4>2. /\ callback_ids' = With(callback_ids, http_next, next_id)
            /\ UNCHANGED <<stream_callback_ids, chunk_callback>>
        BY <1>1, <3>2 DEF HttpRequest
      <4> QED  BY <4>1, <4>2 DEF HttpIds, Values, With
    <3>3. CASE kind = "plain"
      <4>1. UNCHANGED <<callback_ids, stream_callback_ids, chunk_callback>>
        BY <1>1, <3>3 DEF HttpRequest
      <4> QED  BY <4>1 DEF HttpIds, Values
    <3> QED  BY <3>1, <3>2, <3>3
  <2> QED  BY <2>1, <2>2, <2>4, <2>5 DEF Keeps
<1>2. ASSUME (\E id : HttpCancelCall(id)) \/ UNCHANGED <<cbVars, lhVars>>
      PROVE  Keeps /\ UNCHANGED own /\ HttpIds' \subseteq HttpIds \cup New
  <2>1. UNCHANGED <<cbVars, lhVars>>  BY <1>2 DEF HttpCancelCall
  <2>2. Running  BY <2>1, StayingIsRunning DEF cbVars
  <2> QED  BY <2>1, <2>2 DEF Keeps, Registering, cbVars, lhVars, HttpIds, Values
<1>3. ASSUME NEW max \in {0, 1}, HttpPollCall(max)
      PROVE  Keeps /\ UNCHANGED own /\ HttpIds' \subseteq HttpIds \cup New
  <2>1. PICK limit \in {0, 1} : GiveOut(HttpPolled(limit))  BY <1>3 DEF HttpPollCall
  <2>2. IsSeq(HttpPolled(limit))  BY PolledIs DEF ServiceInv, HttpSeqs
  <2> QED  BY <2>1, <2>2, GiveOutKeeps
<1>4. ASSUME HttpDispatch
      PROVE  Keeps /\ UNCHANGED own /\ HttpIds' \subseteq HttpIds \cup New
  BY <1>4, GiveOutKeeps DEF HttpDispatch, ServiceInv, HttpSeqs
<1>5. ASSUME NEW t \in HttpThreads, HttpStreamChunk(t)
      PROVE  Keeps /\ UNCHANGED own /\ HttpIds' \subseteq HttpIds \cup New
  <2> DEFINE cb == chunk_callback[performing[t].id]
             ev == Chunk(performing[t].id, performing[t].chunks + 1)
  <2>1. HttpChunk(t) /\ Post(cb, ev) /\ UNCHANGED lhVars  BY <1>5 DEF HttpStreamChunk
  <2>2. performing[t].id \in Requests
    <3>1. performing[t].id \in Given  BY <2>1 DEF HttpChunk, HttpInv, Has
    <3>2. http_next \in Nat /\ http_next <= MaxRequests + 1 /\ MaxRequests \in Nat
      BY HttpBounds DEF ServiceInv, HttpSeqs, HttpInv
    <3> QED  BY <3>1, <3>2 DEF Given, Requests
  <2>3. cb \in Foreign  BY <2>2, TablesAreForeign DEF ServiceInv, HttpSeqs, HttpIds, Values
  <2> HIDE DEF cb, ev
  <2>4. Queueing(Append(queue, Item(cb, ev)))  BY <2>3, AppendIsQueueing
  <2>5. /\ queue' = Append(queue, Item(cb, ev))
        /\ UNCHANGED <<next_id, registry, deferred, retired, stack, own, called>>
    BY <2>1 DEF Post
  <2>6. Running  BY <2>4, <2>5, PostingIsRunning
  <2>7. HttpIds' = HttpIds  BY <2>1 DEF lhVars, HttpIds, Values
  <2> QED  BY <2>5, <2>6, <2>7 DEF Keeps, Registering
<1>6. ASSUME HttpDrop
      PROVE  Keeps /\ UNCHANGED own /\ HttpIds' \subseteq HttpIds \cup New
  <2>1. PICK drop : drop \subseteq HttpIds /\ Reregister(drop, 0)
    <3>1. Values(stream_callback_ids) \cup Values(callback_ids) \subseteq HttpIds  BY DEF HttpIds
    <3> QED  BY <1>6, <3>1 DEF HttpDrop, Unregister, Values
  <2>2. UNCHANGED <<queue, stack, own, called, chunk_callback>>
        /\ stream_callback_ids' = <<>> /\ callback_ids' = <<>>
    BY <1>6 DEF HttpDrop
  <2>3. Running  BY <2>2, StayingIsRunning
  <2>4. Registering
    <3>1. drop \subseteq Foreign  BY <2>1, TablesAreForeign
    <3> QED  BY <2>1, <3>1, ReregisterIsRegistering
  <2>5. HttpIds' \subseteq HttpIds  BY <2>2 DEF HttpIds, Values
  <2> QED  BY <2>2, <2>3, <2>4, <2>5 DEF Keeps
<1> QED  BY <1>1, <1>2, <1>3, <1>4, <1>5, <1>6

-----------------------------------------------------------------------------
(* The jobs module.                                                        *)

LEMMA JobItemsIs ==
    ASSUME NEW ids, IsSeq(ids)
    PROVE  /\ IsSeq(JobItems(ids))
           /\ \A e \in ToSet(JobItems(ids)) : e.cb \in Values(job_callbacks)
<1> DEFINE S == {i \in DOMAIN ids : ids[i] \in DOMAIN job_callbacks}
           mine == At(ids, S)
           item(k) == Item(job_callbacks[mine[k]], Event("job", mine[k], "result", 0))
           n == Len(mine)
<1>1. JobItems(ids) = [k \in DOMAIN mine |-> item(k)]
  BY DEF JobItems
<1>2. IsSeq(mine) /\ ToSet(mine) = {ids[i] : i \in S}
  BY AtIs
<1> HIDE DEF mine
<1>3. n \in Nat /\ DOMAIN mine = 1..n /\ \A k \in 1..n : mine[k] \in ToSet(mine)
  BY <1>2, SeqIs
<1>4. \A k \in 1..n : mine[k] \in DOMAIN job_callbacks
  BY <1>2, <1>3
<1>5. \A k \in 1..n : item(k).cb \in Values(job_callbacks)
  BY <1>4 DEF Item, Values
<1> HIDE DEF item, n
<1>6. JobItems(ids) = [k \in 1..n |-> JobItems(ids)[k]]
      /\ \A k \in 1..n : JobItems(ids)[k] = item(k)
  BY <1>1, <1>3
<1>7. IsSeq(JobItems(ids)) /\ ToSet(JobItems(ids)) = {JobItems(ids)[k] : k \in 1..n}
  BY <1>3, <1>6, FunctionIsSeq
<1> QED  BY <1>5, <1>6, <1>7

LEMMA HandOutKeeps ==
    ASSUME FrameInv, NEW ids, IsSeq(ids), HandOut(ids)
    PROVE  /\ Keeps /\ UNCHANGED own
           /\ Values(job_callbacks)' \subseteq Values(job_callbacks)
<1>1. /\ job_callbacks' = [j \in DOMAIN job_callbacks \ {ids[i] : i \in DOMAIN ids} |->
                              job_callbacks[j]]
      /\ DispatchFrom(stack, queue \o JobItems(ids), Callbacks, 0)
      /\ UNCHANGED <<next_id, registry, deferred, retired, own, called>>
  BY DEF HandOut
<1>2. Running
  <2>1. \A e \in ToSet(JobItems(ids)) : e.cb \in Foreign  BY JobItemsIs, TablesAreForeign
  <2>2. Queueing(queue \o JobItems(ids))  BY <2>1, JobItemsIs, ItemsAreQueueing
  <2> QED  BY <1>1, <2>2, SameIsQueueing, DispatchIsRunning
<1>3. Values(job_callbacks)' \subseteq Values(job_callbacks)
  BY <1>1 DEF Values
<1> QED  BY <1>1, <1>2, <1>3 DEF Keeps, Registering

LEMMA JobsTakenIs ==
    ASSUME IsSeq(job_results), NEW max \in Nat
    PROVE  IsSeq(JobsTaken(max))
<1>1. Len(job_results) \in Nat
  BY SeqIs
<1>2. CASE max = 0 \/ max > Len(job_results)
  BY <1>2 DEF JobsTaken
<1>3. CASE ~(max = 0 \/ max > Len(job_results))
  <2>1. IsSeq(SubSeq(job_results, 1, max))
    <3>1. 1 \in Nat \ {0} /\ max <= Len(job_results)  BY <1>1, <1>3
    <3> QED  BY <3>1, SubSeqIs
  <2> QED  BY <1>3, <2>1 DEF JobsTaken
<1> QED  BY <1>2, <1>3

LEMMA JobsKeep ==
    ASSUME OwnInv, FrameInv, ServiceInv,
           \/ \E with \in BOOLEAN : JobSubmit(with)
           \/ \E max \in {0, 1} : JobsPollCall(max)
           \/ JobsDispatch
           \/ \E id \in Jobs : JobFinish(id)
    PROVE  /\ Keeps /\ UNCHANGED own
           /\ Values(job_callbacks)' \subseteq Values(job_callbacks) \cup New
<1>1. ASSUME NEW with \in BOOLEAN, JobSubmit(with)
      PROVE  /\ Keeps /\ UNCHANGED own
             /\ Values(job_callbacks)' \subseteq Values(job_callbacks) \cup New
  <2>1. UNCHANGED <<queue, stack, own, called>>  BY <1>1 DEF JobSubmit
  <2>2. Running  BY <2>1, StayingIsRunning
  <2>3. PICK id \in Jobs :
           IF with
           THEN /\ Reregister({}, 1)
                /\ job_callbacks' = [j \in DOMAIN job_callbacks \cup {id} |->
                                        IF j = id THEN next_id ELSE job_callbacks[j]]
           ELSE UNCHANGED <<next_id, registry, deferred, retired, job_callbacks>>
    BY <1>1 DEF JobSubmit
  <2>4. Registering  BY <2>3, ReregisterIsRegistering DEF Registering
  <2>5. CASE with
    <3>1. next_id \in New  BY <2>3, <2>5, FreshIsNew
    <3>2. Values(job_callbacks)' \subseteq Values(job_callbacks) \cup New
      BY <2>3, <2>5, <3>1 DEF Values
    <3> QED  BY <2>1, <2>2, <2>4, <3>2 DEF Keeps
  <2>6. CASE ~with
    <3>1. Values(job_callbacks)' = Values(job_callbacks)  BY <2>3, <2>6 DEF Values
    <3> QED  BY <2>1, <2>2, <2>4, <3>1 DEF Keeps
  <2> QED  BY <2>5, <2>6
<1>2. ASSUME NEW max \in {0, 1}, JobsPollCall(max)
      PROVE  /\ Keeps /\ UNCHANGED own
             /\ Values(job_callbacks)' \subseteq Values(job_callbacks) \cup New
  <2>1. HandOut(JobsTaken(max))  BY <1>2 DEF JobsPollCall
  <2>2. IsSeq(JobsTaken(max))  BY JobsTakenIs DEF ServiceInv
  <2> QED  BY <2>1, <2>2, HandOutKeeps
<1>3. ASSUME JobsDispatch
      PROVE  /\ Keeps /\ UNCHANGED own
             /\ Values(job_callbacks)' \subseteq Values(job_callbacks) \cup New
  <2>1. HandOut(JobsTaken(0))  BY <1>3 DEF JobsDispatch
  <2>2. IsSeq(JobsTaken(0))  BY JobsTakenIs DEF ServiceInv
  <2> QED  BY <2>1, <2>2, HandOutKeeps
<1>4. ASSUME NEW id \in Jobs, JobFinish(id)
      PROVE  /\ Keeps /\ UNCHANGED own
             /\ Values(job_callbacks)' \subseteq Values(job_callbacks) \cup New
  <2>1. UNCHANGED <<cbVars, job_callbacks>>  BY <1>4 DEF JobFinish
  <2>2. Running  BY <2>1, StayingIsRunning DEF cbVars
  <2> QED  BY <2>1, <2>2 DEF Keeps, Registering, cbVars, Values
<1> QED  BY <1>1, <1>2, <1>3, <1>4

-----------------------------------------------------------------------------
(* The ssh module.                                                         *)

LEMMA SshStartKeeps ==
    ASSUME OwnInv, FrameInv, NEW with \in BOOLEAN, SshStart(with)
    PROVE  /\ Keeps /\ UNCHANGED own
           /\ Values(callback_by_operation)' \subseteq Values(callback_by_operation) \cup New
<1>1. UNCHANGED <<queue, stack, own, called>>
  BY DEF SshStart
<1>2. Running
  BY <1>1, StayingIsRunning
<1>3. IF with
      THEN /\ Reregister({}, 1)
           /\ callback_by_operation' =
                [op \in DOMAIN callback_by_operation \cup {ssh_next} |->
                   IF op = ssh_next THEN next_id ELSE callback_by_operation[op]]
      ELSE UNCHANGED <<next_id, registry, deferred, retired, callback_by_operation>>
  BY DEF SshStart
<1>4. Registering
  BY <1>3, ReregisterIsRegistering DEF Registering
<1>5. CASE with
  <2>1. next_id \in New  BY <1>3, <1>5, FreshIsNew
  <2>2. Values(callback_by_operation)' \subseteq Values(callback_by_operation) \cup New
    BY <1>3, <1>5, <2>1 DEF Values
  <2> QED  BY <1>1, <1>2, <1>4, <2>2 DEF Keeps
<1>6. CASE ~with
  <2>1. Values(callback_by_operation)' = Values(callback_by_operation)  BY <1>3, <1>6 DEF Values
  <2> QED  BY <1>1, <1>2, <1>4, <2>1 DEF Keeps
<1> QED  BY <1>5, <1>6

LEMMA SshHandleKeeps ==
    ASSUME FrameInv, SshHandle
    PROVE  /\ Keeps /\ UNCHANGED own
           /\ Values(callback_by_operation)' = Values(callback_by_operation)
<1> DEFINE e == Head(Top.rest)
           cb == callback_by_operation[e.op]
           item == Item(cb, SshEvent(e))
           rest == Tail(Top.rest)
<1>1. /\ Top.kind = "ssh"
      /\ UNCHANGED <<next_id, registry, deferred, retired, own, called, callback_by_operation>>
      /\ IF e.op \in DOMAIN callback_by_operation
         THEN DispatchFrom(Append(Below, Frame("ssh", rest, item)), Append(queue, item), {cb}, 1)
         ELSE stack' = Append(Below, Frame("ssh", rest, NoItem)) /\ queue' = queue
  BY DEF SshHandle
<1>2. item.cb = cb /\ NoItem.cb = NoCallback
  BY DEF Item, NoItem
<1> HIDE DEF rest
<1>3. \A c : Frame("ssh", rest, c).kind = "ssh" /\ Frame("ssh", rest, c).cur = c
  BY DEF Frame
<1>4. CASE e.op \in DOMAIN callback_by_operation
  <2>1. cb \in Foreign  BY <1>4, TablesAreForeign DEF Values
  <2>2. Queueing(Append(queue, item))  BY <2>1, AppendIsQueueing
  <2> HIDE DEF item, e, cb
  <2>3. AlmostStack(Append(Below, Frame("ssh", rest, item)))
    BY <1>1, <1>2, <1>3, <2>1, SshFrameIsAlmost
  <2>4. DispatchFrom(Append(Below, Frame("ssh", rest, item)), Append(queue, item), {cb}, 1)
    BY <1>1, <1>4
  <2>5. Running  BY <2>2, <2>3, <2>4, DispatchIsRunning
  <2> QED  BY <1>1, <2>5 DEF Keeps, Registering, Values
<1>5. CASE e.op \notin DOMAIN callback_by_operation
  <2> HIDE DEF item, e, cb
  <2>1. AlmostStack(Append(Below, Frame("ssh", rest, NoItem)))
    BY <1>1, <1>2, <1>3, TablesAreForeign, SshFrameIsAlmost
  <2>2. Goes(Append(Below, Frame("ssh", rest, NoItem)), queue)  BY <1>1, <1>5 DEF Goes, FrameInv
  <2>3. Running  BY <2>1, <2>2, SameIsQueueing DEF Running
  <2> QED  BY <1>1, <2>3 DEF Keeps, Registering, Values
<1> QED  BY <1>4, <1>5

LEMMA SshHandledKeeps ==
    ASSUME FrameInv, SshHandled
    PROVE  /\ Keeps /\ UNCHANGED own
           /\ Values(callback_by_operation)' \subseteq Values(callback_by_operation)
<1>1. /\ Top.kind = "ssh"
      /\ stack' = Append(Below, Frame("ssh", Top.rest, NoItem))
      /\ UNCHANGED <<queue, own, called>>
      /\ \/ /\ Reregister({Top.cur.cb}, 0)
            /\ callback_by_operation' =
                 [op \in DOMAIN callback_by_operation \ {Top.cur.ev.id} |->
                    callback_by_operation[op]]
         \/ UNCHANGED <<next_id, registry, deferred, retired, callback_by_operation>>
  BY DEF SshHandled, Unregister
<1>2. Top.cur.cb \in Foreign
  <2>1. IsSeq(stack) /\ stack # <<>>  BY <1>1 DEF FrameInv, Top, Frame
  <2>2. Len(stack) \in DOMAIN stack /\ Top = stack[Len(stack)]
    <3>1. Len(stack) \in Nat /\ DOMAIN stack = 1..Len(stack) /\ Len(stack) # 0
      <4>1. stack \in Seq(ToSet(stack))  BY <2>1, SeqIs
      <4> QED  BY <2>1, <4>1, SeqIs, EmptySeq
    <3> QED  BY <2>1, <3>1 DEF Top
  <2> QED  BY <1>1, <2>2 DEF Foreign, SshFrames
<1>3. AlmostStack(Append(Below, Frame("ssh", Top.rest, NoItem)))
  <2> DEFINE f == Frame("ssh", Top.rest, NoItem)
  <2>1. f.kind = "ssh" /\ f.cur.cb = NoCallback  BY DEF Frame, NoItem, Item
  <2> HIDE DEF f
  <2>2. AlmostStack(Append(Below, f))  BY <1>1, <2>1, TablesAreForeign, SshFrameIsAlmost
  <2> QED  BY <2>2 DEF f
<1>4. Running
  <2>1. Goes(Append(Below, Frame("ssh", Top.rest, NoItem)), queue)  BY <1>1 DEF Goes, FrameInv
  <2> QED  BY <1>3, <2>1, SameIsQueueing DEF Running
<1>5. Registering
  BY <1>1, <1>2, ReregisterIsRegistering DEF Registering
<1>6. Values(callback_by_operation)' \subseteq Values(callback_by_operation)
  BY <1>1 DEF Values
<1> QED  BY <1>1, <1>4, <1>5, <1>6 DEF Keeps

LEMMA SshKeeps ==
    ASSUME OwnInv, FrameInv,
           \/ \E with \in BOOLEAN : SshStart(with)
           \/ \E max \in {0, 1} : SshPollCall(max)
           \/ SshDispatch \/ SshHandle \/ SshHandled \/ SshDispatched
           \/ \E op \in Ops, last \in BOOLEAN : SshEmit(op, last)
    PROVE  /\ Keeps /\ UNCHANGED own
           /\ Values(callback_by_operation)' \subseteq Values(callback_by_operation) \cup New
<1>1. CASE \E with \in BOOLEAN : SshStart(with)
  BY <1>1, SshStartKeeps
<1>2. CASE \/ \E max \in {0, 1} : SshPollCall(max)
           \/ \E op \in Ops, last \in BOOLEAN : SshEmit(op, last)
  <2>1. UNCHANGED <<cbVars, callback_by_operation>>  BY <1>2 DEF SshPollCall, SshEmit
  <2>2. Running  BY <2>1, StayingIsRunning DEF cbVars
  <2> QED  BY <2>1, <2>2 DEF Keeps, Registering, cbVars, Values
<1>3. CASE SshDispatch
  <2>1. /\ stack' = Append(stack, Frame("ssh", ssh_queue, NoItem))
        /\ UNCHANGED <<next_id, registry, deferred, retired, queue, own, called,
                       callback_by_operation>>
    BY <1>3 DEF SshDispatch
  <2> DEFINE f == Frame("ssh", ssh_queue, NoItem)
  <2>2. f.kind = "ssh" /\ f.cur = NoItem  BY DEF Frame
  <2> HIDE DEF f
  <2>3. stack' = Append(stack, f)  BY <2>1 DEF f
  <2>4. Goes(stack, queue)  BY <2>1, <2>2, <2>3 DEF Goes, FrameInv
  <2>5. Running  BY <2>4, SameIsQueueing DEF Running
  <2> QED  BY <2>1, <2>5 DEF Keeps, Registering, Values
<1>4. CASE SshHandle
  BY <1>4, SshHandleKeeps
<1>5. CASE SshHandled
  BY <1>5, SshHandledKeeps
<1>6. CASE SshDispatched
  <2>1. /\ Top.kind = "ssh" /\ stack' = Below
        /\ UNCHANGED <<next_id, registry, deferred, retired, queue, own, called, lsVars>>
    BY <1>6 DEF SshDispatched
  <2>2. Goes(Below, queue)  BY <2>1 DEF Goes, FrameInv
  <2>3. Running  BY <2>1, <2>2, SshFrameIsAlmost, SameIsQueueing DEF Running
  <2> QED  BY <2>1, <2>3 DEF Keeps, Registering, Values, lsVars
<1> QED  BY <1>1, <1>2, <1>3, <1>4, <1>5, <1>6

-----------------------------------------------------------------------------
(* The process module.                                                     *)

LEMMA RemainingIs ==
    ASSUME ProcInv, NEW S, NEW late, NEW gone, processes' = Remaining(S, late, gone)
    PROVE  ProcessIds' \subseteq ProcessIds
<1>1. /\ DOMAIN processes' = DOMAIN processes \ gone
      /\ \A id \in DOMAIN processes' :
            processes'[id] = [processes[id] EXCEPT !.finished = id \in FinishedBy(S, late)]
  BY DEF Remaining
<1>2. \A id \in DOMAIN processes :
         processes[id] = [cb |-> processes[id].cb, timed |-> processes[id].timed,
                          finished |-> processes[id].finished]
  BY DEF ProcInv
<1>3. ASSUME NEW id \in DOMAIN processes'
      PROVE  processes'[id].cb = processes[id].cb /\ id \in DOMAIN processes
  <2> DEFINE f == id \in FinishedBy(S, late)
             r == processes[id]
  <2>1. processes'[id] = [r EXCEPT !.finished = f] /\ id \in DOMAIN processes  BY <1>1
  <2>2. r = [cb |-> r.cb, timed |-> r.timed, finished |-> r.finished]  BY <1>2, <2>1
  <2> HIDE DEF f, r
  <2>3. processes'[id].cb = r.cb  BY <2>1, <2>2
  <2> QED  BY <2>1, <2>3 DEF r
<1> QED  BY <1>3 DEF ProcessIds

LEMMA ProcessSpawnKeeps ==
    ASSUME OwnInv, FrameInv, NEW with \in BOOLEAN, NEW timed, ProcessSpawn(with, timed)
    PROVE  Keeps /\ UNCHANGED own /\ ProcessIds' \subseteq Foreign \cup New
<1> DEFINE cb == IF with THEN next_id ELSE NoCallback
           entry == [cb |-> cb, timed |-> timed, finished |-> FALSE]
<1>1. /\ Reregister({}, IF with THEN 1 ELSE 0)
      /\ processes' = [id \in DOMAIN processes \cup {proc_next} |->
                          IF id = proc_next THEN entry ELSE processes[id]]
      /\ UNCHANGED <<queue, stack, own, called>>
  BY DEF ProcessSpawn
<1>2. Running
  BY <1>1, StayingIsRunning
<1>3. Registering
  BY <1>1, ReregisterIsRegistering
<1>4. cb \in Foreign \cup New
  <2>1. CASE with  BY <1>1, <2>1, FreshIsNew
  <2>2. CASE ~with  BY <2>2, TablesAreForeign
  <2> QED  BY <2>1, <2>2
<1>5. entry.cb = cb
  OBVIOUS
<1> HIDE DEF entry, cb
<1>6. ProcessIds' \subseteq Foreign \cup New
  <2>1. ProcessIds \subseteq Foreign  BY TablesAreForeign
  <2>2. ASSUME NEW id \in DOMAIN processes'
        PROVE  processes'[id] = entry \/ (id \in DOMAIN processes /\ processes'[id] = processes[id])
    <3>1. DOMAIN processes' = DOMAIN processes \cup {proc_next}  BY <1>1
    <3>2. CASE id = proc_next  BY <1>1, <3>1, <3>2
    <3>3. CASE id # proc_next  BY <1>1, <3>1, <3>3
    <3> QED  BY <3>2, <3>3
  <2> QED  BY <1>4, <1>5, <2>1, <2>2 DEF ProcessIds
<1> QED  BY <1>1, <1>2, <1>3, <1>6 DEF Keeps

LEMMA ProcessDispatchKeeps ==
    ASSUME FrameInv, ProcInv, NEW late, NEW n \in Nat, NEW order \in [1..n -> Processes],
           ProcessDispatch(late, order)
    PROVE  Keeps /\ UNCHANGED own /\ ProcessIds' \subseteq ProcessIds
<1> DEFINE all == DOMAIN processes
           told == {id \in FinishedBy(all, late) : processes[id].cb # NoCallback}
           item(k) == Item(processes[order[k]].cb, Event("process", order[k], "result", 0))
           items == [k \in DOMAIN order |-> item(k)]
<1>1. /\ {order[k] : k \in DOMAIN order} = told
      /\ processes' = Remaining(all, late, told)
      /\ queue' = queue \o items
      /\ UNCHANGED <<next_id, registry, deferred, retired, stack, own, called>>
  BY DEF ProcessDispatch
<1>2. \A k \in 1..n : order[k] \in DOMAIN processes
  BY <1>1 DEF FinishedBy
<1>3. \A k \in 1..n : item(k).cb \in Foreign
  BY <1>2, TablesAreForeign DEF Item, ProcessIds
<1>4. items = [k \in 1..n |-> items[k]] /\ \A k \in 1..n : items[k] = item(k)
  BY DOMAIN order = 1..n
<1> HIDE DEF items, item, told
<1>5. IsSeq(items) /\ ToSet(items) = {items[k] : k \in 1..n}
  BY <1>4, FunctionIsSeq
<1>6. Queueing(queue \o items)
  BY <1>3, <1>4, <1>5, ItemsAreQueueing
<1>7. Running
  BY <1>1, <1>6, PostingIsRunning
<1>8. ProcessIds' \subseteq ProcessIds
  BY <1>1, RemainingIs
<1> QED  BY <1>1, <1>7, <1>8 DEF Keeps, Registering

LEMMA ProcessKeeps ==
    ASSUME OwnInv, FrameInv, ProcInv,
           \/ \E with, timed \in BOOLEAN : ProcessSpawn(with, timed)
           \/ \E late, id : ProcessRead(id, late) \/ ProcessWait(id, late)
           \/ \E max, late, gone : ProcessPollCall(max, late, gone)
           \/ \E late : \E order \in UNION {[1..n -> Processes] : n \in 0..MaxProcesses} :
                 ProcessDispatch(late, order)
           \/ \E id \in Processes : ChildExit(id)
    PROVE  Keeps /\ UNCHANGED own /\ ProcessIds' \subseteq Foreign \cup New
<1>1. CASE \E with, timed \in BOOLEAN : ProcessSpawn(with, timed)
  BY <1>1, ProcessSpawnKeeps
<1>2. ProcessIds \subseteq Foreign
  BY TablesAreForeign
<1>3. CASE \/ \E late, id : ProcessRead(id, late)
           \/ \E max, late, gone : ProcessPollCall(max, late, gone)
  <2>1. UNCHANGED cbVars /\ \E S, late, gone : processes' = Remaining(S, late, gone)
    BY <1>3 DEF ProcessRead, ProcessPollCall
  <2>2. Running  BY <2>1, StayingIsRunning DEF cbVars
  <2>3. ProcessIds' \subseteq Foreign  BY <1>2, <2>1, RemainingIs
  <2> QED  BY <2>1, <2>2, <2>3 DEF Keeps, Registering, cbVars
<1>4. ASSUME NEW late, NEW id, ProcessWait(id, late)
      PROVE  Keeps /\ UNCHANGED own /\ ProcessIds' \subseteq Foreign \cup New
  <2>1. /\ id \in DOMAIN processes
        /\ processes' = Remaining({id}, late, {id})
        /\ Reregister({processes[id].cb} \ {NoCallback}, 0)
        /\ UNCHANGED <<queue, stack, own, called>>
    BY <1>4 DEF ProcessWait, Unregister
  <2>2. {processes[id].cb} \ {NoCallback} \subseteq Foreign  BY <1>2, <2>1 DEF ProcessIds
  <2>3. Registering  BY <2>1, <2>2, ReregisterIsRegistering
  <2>4. Running  BY <2>1, StayingIsRunning
  <2>5. ProcessIds' \subseteq Foreign  BY <1>2, <2>1, RemainingIs
  <2> QED  BY <2>1, <2>3, <2>4, <2>5 DEF Keeps
<1>5. ASSUME NEW late, NEW n \in 0..MaxProcesses, NEW order \in [1..n -> Processes],
             ProcessDispatch(late, order)
      PROVE  Keeps /\ UNCHANGED own /\ ProcessIds' \subseteq Foreign \cup New
  <2>1. n \in Nat  BY ProcessBound
  <2> QED  BY <1>2, <1>5, <2>1, ProcessDispatchKeeps
<1>6. ASSUME NEW id \in Processes, ChildExit(id)
      PROVE  Keeps /\ UNCHANGED own /\ ProcessIds' \subseteq Foreign \cup New
  <2>1. UNCHANGED <<cbVars, processes>>  BY <1>6 DEF ChildExit
  <2>2. Running  BY <2>1, StayingIsRunning DEF cbVars
  <2>3. ProcessIds' = ProcessIds  BY <2>1 DEF ProcessIds
  <2> QED  BY <1>2, <2>1, <2>2, <2>3 DEF Keeps, Registering, cbVars
<1> QED  BY <1>1, <1>3, <1>4, <1>5, <1>6

-----------------------------------------------------------------------------
(* The scripts' own callbacks.                                             *)

LEMMA ScriptsKeep ==
    ASSUME OwnInv, FrameInv,
           \/ ScriptRegister
           \/ \E cb \in own : ScriptUnregister(cb) \/ \E ev : ScriptEnqueue(cb, ev)
           \/ \E max : ScriptDispatch(max)
    PROVE  Keeps /\ own' \subseteq own \cup New
<1>1. CASE ScriptRegister
  <2>1. Reregister({}, 1) /\ own' = own \cup {next_id} /\ UNCHANGED <<queue, stack, called>>
    BY <1>1 DEF ScriptRegister
  <2>2. Running /\ Registering /\ next_id \in New
    BY <2>1, StayingIsRunning, ReregisterIsRegistering, FreshIsNew
  <2> QED  BY <2>1, <2>2 DEF Keeps
<1>2. ASSUME NEW cb \in own, ScriptUnregister(cb)
      PROVE  Keeps /\ own' \subseteq own \cup New
  <2>1. Reregister({cb}, 0) /\ UNCHANGED <<queue, stack, own, called>>
    BY <1>2 DEF ScriptUnregister, Unregister
  <2>2. {cb} \subseteq Foreign  BY TablesAreForeign
  <2>3. Running /\ Registering  BY <2>1, <2>2, StayingIsRunning, ReregisterIsRegistering
  <2> QED  BY <2>1, <2>3 DEF Keeps
<1>3. ASSUME NEW cb \in own, NEW ev, ScriptEnqueue(cb, ev)
      PROVE  Keeps /\ own' \subseteq own \cup New
  <2>1. /\ queue' = Append(queue, Item(cb, ev))
        /\ UNCHANGED <<next_id, registry, deferred, retired, stack, own, called>>
    BY <1>3 DEF ScriptEnqueue, Post
  <2>2. cb \in Foreign  BY TablesAreForeign
  <2>3. Running  BY <2>1, <2>2, AppendIsQueueing, PostingIsRunning
  <2> QED  BY <2>1, <2>3 DEF Keeps, Registering
<1>4. ASSUME NEW max, ScriptDispatch(max)
      PROVE  Keeps /\ own' \subseteq own \cup New
  <2>1. /\ DispatchFrom(stack, queue, Callbacks, max)
        /\ UNCHANGED <<next_id, registry, deferred, retired, own, called>>
    BY <1>4 DEF ScriptDispatch
  <2>2. Running  BY <2>1, SameIsQueueing, DispatchIsRunning
  <2> QED  BY <2>1, <2>2 DEF Keeps, Registering
<1> QED  BY <1>1, <1>2, <1>3, <1>4

-----------------------------------------------------------------------------
(* The resource manager.                                                   *)

LEMMA SequencesOfLoads ==
    ASSUME NEW s, NEW t, LoadNames(s), LoadNames(t)
    PROVE  LoadNames(s \o t)
  BY ConcatIs DEF LoadNames

LEMMA ReadyIs ==
    ASSUME NEW ids, LoadNames(ids)
    PROVE  IsSeq(Ready(ids)) /\ \A e \in ToSet(Ready(ids)) : e.cb \in LoadIds
<1> DEFINE S == {i \in DOMAIN ids : loads[ids[i]].cb # NoCallback}
           mine == At(ids, S)
           item(k) == Item(loads[mine[k]].cb, Event("load", mine[k], "ready", 0))
           n == Len(mine)
<1>1. Ready(ids) = [k \in DOMAIN mine |-> item(k)]
  BY DEF Ready
<1>2. IsSeq(mine) /\ ToSet(mine) = {ids[i] : i \in S}
  BY AtIs DEF LoadNames
<1>3. \A i \in DOMAIN ids : ids[i] \in DOMAIN loads
  BY DEF LoadNames, ToSet
<1> HIDE DEF mine
<1>4. n \in Nat /\ DOMAIN mine = 1..n /\ \A k \in 1..n : mine[k] \in ToSet(mine)
  BY <1>2, SeqIs
<1>5. \A k \in 1..n : mine[k] \in DOMAIN loads
  BY <1>2, <1>3, <1>4
<1>6. \A k \in 1..n : item(k).cb \in LoadIds
  BY <1>5 DEF Item, LoadIds
<1> HIDE DEF item, n
<1>7. Ready(ids) = [k \in 1..n |-> Ready(ids)[k]] /\ \A k \in 1..n : Ready(ids)[k] = item(k)
  BY <1>1, <1>4
<1>8. IsSeq(Ready(ids)) /\ ToSet(Ready(ids)) = {Ready(ids)[k] : k \in 1..n}
  BY <1>4, <1>7, FunctionIsSeq
<1> QED  BY <1>6, <1>7, <1>8

\* poll_kind_owner returns some of the results.
LEMMA PolledOfIs ==
    ASSUME LoadSeqs, NEW kind, NEW max \in Nat
    PROVE  IsSeq(PolledOf(kind, max)) /\ ToSet(PolledOf(kind, max)) \subseteq ToSet(load_results)
<1> DEFINE S == {i \in DOMAIN load_results : loads[load_results[i].id].kind = kind}
           mine == At(load_results, S)
<1>1. IsSeq(mine) /\ ToSet(mine) = {load_results[i] : i \in S}
  BY AtIs DEF LoadSeqs
<1>2. ToSet(mine) \subseteq ToSet(load_results)
  BY <1>1 DEF ToSet
<1>3. PolledOf(kind, max) = IF max = 0 \/ max > Len(mine) THEN mine ELSE SubSeq(mine, 1, max)
  BY DEF PolledOf
<1> HIDE DEF mine
<1>4. CASE max = 0 \/ max > Len(mine)
  BY <1>1, <1>2, <1>3, <1>4
<1>5. CASE ~(max = 0 \/ max > Len(mine))
  <2>1. 1 \in Nat \ {0} /\ max <= Len(mine)  BY <1>1, <1>5, SeqIs
  <2>2. IsSeq(SubSeq(mine, 1, max)) /\ ToSet(SubSeq(mine, 1, max)) \subseteq ToSet(mine)
    BY <1>1, <2>1, SubSeqIs
  <2> QED  BY <1>2, <1>3, <1>5, <2>2
<1> QED  BY <1>4, <1>5

LEMMA SucceededIs ==
    ASSUME LoadSeqs, NEW results, IsSeq(results), ToSet(results) \subseteq ToSet(load_results)
    PROVE  LoadNames(Succeeded(results))
<1> DEFINE S == {i \in DOMAIN results : results[i].ok}
           ok == At(results, S)
           n == Len(ok)
<1>1. Succeeded(results) = [i \in DOMAIN ok |-> ok[i].id]
  BY DEF Succeeded
<1>2. IsSeq(ok) /\ ToSet(ok) = {results[i] : i \in S}
  BY AtIs
<1>3. ToSet(ok) \subseteq ToSet(load_results)
  BY <1>2 DEF ToSet
<1> HIDE DEF ok
<1>4. n \in Nat /\ DOMAIN ok = 1..n /\ \A k \in 1..n : ok[k] \in ToSet(ok)
  BY <1>2, SeqIs
<1>5. \A k \in 1..n : ok[k].id \in DOMAIN loads
  BY <1>3, <1>4 DEF LoadSeqs
<1> HIDE DEF n
<1>6. Succeeded(results) = [k \in 1..n |-> Succeeded(results)[k]]
      /\ \A k \in 1..n : Succeeded(results)[k] = ok[k].id
  BY <1>1, <1>4
<1>7. /\ IsSeq(Succeeded(results))
      /\ ToSet(Succeeded(results)) = {Succeeded(results)[k] : k \in 1..n}
  BY <1>4, <1>6, FunctionIsSeq
<1> QED  BY <1>5, <1>6, <1>7 DEF LoadNames

\* The three queues of an upload in progress name loads.
Names3(st) == LoadNames(st.ahead) /\ LoadNames(st.stay) /\ LoadNames(st.ended)

LEMMA UploadsOfIs ==
    ASSUME NEW map, NEW uploads, LoadNames(uploads)
    PROVE  Names3(UploadsOf(map, uploads))
  BY EmptyIsSeq DEF Names3, UploadsOf, LoadNames

LEMMA UploadNextIs ==
    ASSUME NEW key, NEW st, Names3(st)
    PROVE  Names3(UploadNext(key, st))
<1> DEFINE id == Head(st.ahead)
           ends == EndsUpload(st.map[key[id]])
           map == [st.map EXCEPT ![key[id]] = Uploaded(@)]
<1>1. CASE st.ahead = <<>>
  BY <1>1 DEF UploadNext
<1>2. CASE st.ahead # <<>>
  <2>1. LoadNames(Tail(st.ahead)) /\ id \in DOMAIN loads  BY <1>2, TailIs DEF Names3, LoadNames
  <2>2. UploadNext(key, st) =
           [map |-> map, ahead |-> Tail(st.ahead),
            stay |-> IF ends THEN st.stay ELSE Append(st.stay, id),
            ended |-> IF ends THEN Append(st.ended, id) ELSE st.ended]
    BY <1>2 DEF UploadNext
  <2> HIDE DEF id, ends, map
  <2>3. LoadNames(Append(st.stay, id)) /\ LoadNames(Append(st.ended, id))
    BY <2>1, AppendIs DEF Names3, LoadNames
  <2> QED  BY <2>1, <2>2, <2>3 DEF Names3
<1> QED  BY <1>1, <1>2

\* A frame of the resource manager: what it enqueues, and what it leaves.
LEMMA ResourcesFrameIs ==
    ASSUME LoadSeqs, ResourcesFrame
    PROVE  /\ UNCHANGED <<next_id, registry, deferred, retired, stack, own, called, loads>>
           /\ \E ids : LoadNames(ids) /\ queue' = queue \o Ready(ids)
           /\ pending_loads' \subseteq pending_loads
           /\ IsSeq(load_results') /\ ToSet(load_results') \subseteq ToSet(load_results)
           /\ LoadNames(texture_uploads') /\ LoadNames(cubemap_uploads')
<1> DEFINE seen == [kind \in Kinds |-> PolledOf(kind, IF kind = "bytes" THEN 2 ELSE 0)]
           taken == UNION {ToSet(seen[kind]) : kind \in Kinds}
           ids == [kind \in Kinds |-> Succeeded(seen[kind])]
           name == [id \in DOMAIN loads |-> loads[id].name]
           itself == [id \in DOMAIN loads |-> id]
           tmap == [n \in TextureNames |-> Applied(textures[n], n, ids["file"], ids["bytes"])]
           tups == texture_uploads \o ids["bytes"]
           texture == UploadNext(name, UploadNext(name, UploadsOf(tmap, tups)))
           cmap == [id \in Loads |->
                       IF id \in ToSet(ids["cubemap"]) THEN Texture(FALSE, TRUE, TRUE, id, 0)
                       ELSE cubemaps[id]]
           cups == cubemap_uploads \o ids["cubemap"]
           cubemap == UploadNext(itself, UploadsOf(cmap, cups))
           left_at == {i \in DOMAIN load_results : load_results[i] \notin taken}
<1>1. /\ load_results' = At(load_results, left_at)
      /\ pending_loads' = pending_loads \ {r.id : r \in taken}
      /\ texture_uploads' = texture.stay \o texture.ahead
      /\ cubemap_uploads' = cubemap.stay \o cubemap.ahead
      /\ queue' = queue \o Ready(ids["file"] \o texture.ended \o cubemap.ended \o ids["audio"])
      /\ UNCHANGED <<next_id, registry, deferred, retired, stack, own, called, loads>>
  BY DEF ResourcesFrame
<1>2. \A kind \in Kinds : LoadNames(ids[kind])
  <2> SUFFICES ASSUME NEW kind \in Kinds PROVE LoadNames(ids[kind])  OBVIOUS
  <2>1. ids[kind] = Succeeded(seen[kind])  OBVIOUS
  <2>2. IsSeq(seen[kind]) /\ ToSet(seen[kind]) \subseteq ToSet(load_results)
    <3>1. seen[kind] = PolledOf(kind, IF kind = "bytes" THEN 2 ELSE 0)  OBVIOUS
    <3> HIDE DEF seen
    <3>2. (IF kind = "bytes" THEN 2 ELSE 0) \in Nat  OBVIOUS
    <3> QED  BY <3>1, <3>2, PolledOfIs
  <2> HIDE DEF seen, ids
  <2> QED  BY <2>1, <2>2, SucceededIs
<1> HIDE DEF ids, seen
<1>3. /\ LoadNames(ids["file"]) /\ LoadNames(ids["bytes"])
      /\ LoadNames(ids["cubemap"]) /\ LoadNames(ids["audio"])
  BY <1>2 DEF Kinds
<1>4. Names3(texture)
  <2>1. LoadNames(tups)  BY <1>3, SequencesOfLoads DEF LoadSeqs
  <2> HIDE DEF tups, tmap, name
  <2> QED  BY <2>1, UploadsOfIs, UploadNextIs
<1>5. Names3(cubemap)
  <2>1. LoadNames(cups)  BY <1>3, SequencesOfLoads DEF LoadSeqs
  <2> HIDE DEF cups, cmap, itself
  <2> QED  BY <2>1, UploadsOfIs, UploadNextIs
<1> HIDE DEF texture, cubemap, taken
<1>6. LoadNames(texture_uploads') /\ LoadNames(cubemap_uploads')
  <2>1. LoadNames(texture.stay \o texture.ahead) /\ LoadNames(cubemap.stay \o cubemap.ahead)
    BY <1>4, <1>5, SequencesOfLoads DEF Names3
  <2> QED  BY <1>1, <2>1
<1>7. LoadNames(ids["file"] \o texture.ended \o cubemap.ended \o ids["audio"])
  BY <1>3, <1>4, <1>5, SequencesOfLoads DEF Names3
<1>8. IsSeq(load_results') /\ ToSet(load_results') \subseteq ToSet(load_results)
  <2>1. left_at \in SUBSET DOMAIN load_results  OBVIOUS
  <2> HIDE DEF left_at
  <2>2. /\ IsSeq(At(load_results, left_at))
        /\ ToSet(At(load_results, left_at)) = {load_results[i] : i \in left_at}
    BY <2>1, AtIs DEF LoadSeqs
  <2>3. {load_results[i] : i \in left_at} \subseteq ToSet(load_results)  BY <2>1 DEF ToSet
  <2> QED  BY <1>1, <2>2, <2>3
<1> QED  BY <1>1, <1>6, <1>7, <1>8

LEMMA LoadAsyncIs ==
    ASSUME OwnInv, FrameInv, LoadSeqs, NEW kind, NEW name, NEW with \in BOOLEAN,
           LoadAsync(kind, name, with)
    PROVE  /\ Keeps /\ UNCHANGED own /\ LoadIds' \subseteq Foreign \cup New
           /\ LoadSeqs'
<1> DEFINE id == Len(loads) + 1
           cb == IF with THEN next_id ELSE NoCallback
           load == [kind |-> kind, name |-> name, cb |-> cb]
<1>1. /\ Reregister({}, IF with THEN 1 ELSE 0)
      /\ loads' = Append(loads, load)
      /\ pending_loads' = pending_loads \cup {id}
      /\ UNCHANGED <<queue, stack, own, called, load_results, texture_uploads, cubemap_uploads>>
  BY DEF LoadAsync
<1>2. Running
  BY <1>1, StayingIsRunning
<1>3. Registering
  BY <1>1, ReregisterIsRegistering
<1>4. cb \in Foreign \cup New /\ load.cb = cb
  <2>1. CASE with  BY <1>1, <2>1, FreshIsNew
  <2>2. CASE ~with  BY <2>2, TablesAreForeign
  <2> QED  BY <2>1, <2>2
<1> HIDE DEF load, cb
<1>5. /\ IsSeq(loads') /\ Len(loads') = Len(loads) + 1 /\ loads'[Len(loads) + 1] = load
      /\ \A i \in 1..Len(loads) : loads'[i] = loads[i]
      /\ Len(loads) \in Nat /\ DOMAIN loads = 1..Len(loads)
  <2>1. IsSeq(loads)  BY DEF LoadSeqs
  <2>2. /\ IsSeq(Append(loads, load)) /\ Len(Append(loads, load)) = Len(loads) + 1
        /\ Append(loads, load)[Len(loads) + 1] = load
        /\ \A i \in 1..Len(loads) : Append(loads, load)[i] = loads[i]
    BY <2>1, AppendIs
  <2> QED  BY <1>1, <2>1, <2>2, SeqIs
<1>6. DOMAIN loads' = DOMAIN loads \cup {id}
  <2>1. DOMAIN loads' = 1..Len(loads')  BY <1>5, SeqIs
  <2> QED  BY <1>5, <2>1
<1>7. LoadIds' \subseteq Foreign \cup New
  <2>1. LoadIds \subseteq Foreign  BY TablesAreForeign
  <2> QED  BY <1>4, <1>5, <1>6, <2>1 DEF LoadIds
<1>8. LoadSeqs'
  BY <1>1, <1>5, <1>6 DEF LoadSeqs, LoadNames
<1> QED  BY <1>1, <1>2, <1>3, <1>7, <1>8 DEF Keeps

LEMMA TexturesKeep ==
    ASSUME OwnInv, FrameInv, LoadSeqs,
           \/ \E kind, name : \E with \in BOOLEAN : LoadAsync(kind, name, with)
           \/ \E x : ChangeTexture(x) \/ ChangeCubemap(x)
           \/ \E id \in Loads, ok \in BOOLEAN : LoadFinish(id, ok)
           \/ ResourcesFrame
    PROVE  /\ Keeps /\ UNCHANGED own /\ LoadIds' \subseteq Foreign \cup New
           /\ LoadSeqs'
<1>1. CASE \E kind, name : \E with \in BOOLEAN : LoadAsync(kind, name, with)
  BY <1>1, LoadAsyncIs
<1>2. LoadIds \subseteq Foreign
  BY TablesAreForeign
<1>3. CASE \E x : ChangeTexture(x) \/ ChangeCubemap(x)
  <2>1. UNCHANGED <<cbVars, loads, pending_loads, load_results, texture_uploads, cubemap_uploads>>
    BY <1>3 DEF ChangeTexture, ChangeCubemap
  <2>2. Running  BY <2>1, StayingIsRunning DEF cbVars
  <2>3. LoadSeqs'  BY <2>1 DEF LoadSeqs, LoadNames
  <2> QED  BY <1>2, <2>1, <2>2, <2>3 DEF Keeps, Registering, cbVars, LoadIds
<1>4. ASSUME NEW id \in Loads, NEW ok \in BOOLEAN, LoadFinish(id, ok)
      PROVE  /\ Keeps /\ UNCHANGED own /\ LoadIds' \subseteq Foreign \cup New
             /\ LoadSeqs'
  <2> DEFINE r == [id |-> id, ok |-> ok]
  <2>1. /\ UNCHANGED <<cbVars, loads, pending_loads, texture_uploads, cubemap_uploads>>
        /\ load_results' = Append(load_results, r) /\ id \in DOMAIN loads /\ r.id = id
    BY <1>4 DEF LoadFinish, LoadSeqs
  <2> HIDE DEF r
  <2>2. Running  BY <2>1, StayingIsRunning DEF cbVars
  <2>3. IsSeq(load_results') /\ ToSet(load_results') = ToSet(load_results) \cup {r}
    BY <2>1, AppendIs DEF LoadSeqs
  <2>4. LoadSeqs'  BY <2>1, <2>3 DEF LoadSeqs, LoadNames
  <2> QED  BY <1>2, <2>1, <2>2, <2>4 DEF Keeps, Registering, cbVars, LoadIds
<1>5. CASE ResourcesFrame
  <2>1. PICK ids : LoadNames(ids) /\ queue' = queue \o Ready(ids)  BY <1>5, ResourcesFrameIs
  <2>2. /\ UNCHANGED <<next_id, registry, deferred, retired, stack, own, called, loads>>
        /\ pending_loads' \subseteq pending_loads
        /\ IsSeq(load_results') /\ ToSet(load_results') \subseteq ToSet(load_results)
        /\ LoadNames(texture_uploads') /\ LoadNames(cubemap_uploads')
    BY <1>5, ResourcesFrameIs
  <2>3. Queueing(queue \o Ready(ids))  BY <1>2, <2>1, ReadyIs, ItemsAreQueueing
  <2>4. Running  BY <2>1, <2>2, <2>3, PostingIsRunning
  <2>5. LoadSeqs'  BY <2>2 DEF LoadSeqs, LoadNames
  <2> QED  BY <1>2, <2>2, <2>4, <2>5 DEF Keeps, Registering, LoadIds
<1> QED  BY <1>1, <1>3, <1>4, <1>5

-----------------------------------------------------------------------------
(* The steps of the registry that go on with a batch.                      *)

LEMMA GivenAreCallbacks == OwnInv => 1..(next_id - 1) \subseteq Callbacks
  BY CallbackBounds DEF OwnInv, Callbacks

LEMMA CallNextKeeps ==
    ASSUME HandleInv, CallNext, UNCHANGED <<TableIds, lrVars, up>>
    PROVE  HandleInv'
<1> DEFINE n == Len(stack)
           item == Head(Top.rest)
           call == item.cb \in registry /\ item.cb \notin retired
           cur == IF call THEN item ELSE NoItem
           f == Frame("dispatch", Tail(Top.rest), cur)
           entry == [ev |-> item.ev, depth |-> Depth(stack)]
<1>1. OwnInv /\ FrameInv /\ CloseInv /\ SilentInv
  BY DEF HandleInv
<1>2. /\ Top.kind = "dispatch" /\ Top.rest # <<>>
      /\ stack' = Append(Below, f)
      /\ called' = IF call THEN [called EXCEPT ![item.cb] = Append(@, entry)] ELSE called
      /\ UNCHANGED <<next_id, registry, deferred, retired, queue, own>>
  BY DEF CallNext
<1>3. /\ UNCHANGED <<rt_ids, rt_live, rt_thread, rt_close, rt_dispatches, rt_silenced, up>>
      /\ TableIds' = TableIds
  BY DEF lrVars
<1>4. f.kind = "dispatch" /\ f.rest = Tail(Top.rest)
  BY DEF Frame
<1> HIDE DEF f, item, entry
<1>5. /\ n \in Nat \ {0} /\ DOMAIN stack = 1..n /\ Top = stack[n]
      /\ IsSeq(stack') /\ DOMAIN stack' = DOMAIN stack /\ stack'[n] = f
      /\ \A i \in 1..(n - 1) : stack'[i] = stack[i]
  BY <1>1, <1>2, TopIs, ReplacedIs
<1> HIDE DEF n
<1>6. n \in DOMAIN stack /\ \A i \in DOMAIN stack : i = n \/ stack'[i] = stack[i]
  BY <1>5
<1>7. /\ IsSeq(Top.rest) /\ IsSeq(f.rest)
      /\ ToSet(Top.rest) = ToSet(f.rest) \cup {item}
  <2>1. IsSeq(Top.rest)  BY <1>1, <1>2, <1>5, <1>6 DEF FrameInv
  <2> QED  BY <1>2, <1>4, <2>1, TailIs DEF item
<1>8. \A i \in DOMAIN stack : stack'[i].kind = stack[i].kind
  BY <1>2, <1>4, <1>5, <1>6
<1>9. Ids' = Ids /\ Mine' = Mine /\ Foreign' = Foreign
  <2>1. SshFrames' = SshFrames  BY <1>5, <1>8 DEF SshFrames
  <2>2. \A i \in SshFrames : stack'[i] = stack[i]  BY <1>2, <1>5, <1>6 DEF SshFrames
  <2>3. {stack'[i].cur.cb : i \in SshFrames'} = {stack[i].cur.cb : i \in SshFrames}  BY <2>1, <2>2
  <2> QED  BY <1>3, <2>3 DEF Ids, Mine, Foreign, NoCallback
<1>10. /\ call => item.cb \in Callbacks
       /\ DOMAIN called' = Callbacks
       /\ \A cb \in Callbacks :
             /\ IsSeq(called'[cb])
             /\ \A k \in DOMAIN called[cb] :
                   k \in DOMAIN called'[cb] /\ called'[cb][k] = called[cb][k]
             /\ cb = item.cb /\ call =>
                   \E k \in DOMAIN called'[cb] : called'[cb][k].ev = item.ev
             /\ ~(cb = item.cb /\ call) => called'[cb] = called[cb]
  <2>1. call => item.cb \in Callbacks
    <3>1. registry \subseteq 1..(next_id - 1)  BY <1>1 DEF OwnInv
    <3> QED  BY <1>1, <3>1, GivenAreCallbacks
  <2>2. CASE ~call
    <3>1. called' = called  BY <1>2, <2>2
    <3> QED  BY <1>1, <2>2, <3>1 DEF FrameInv
  <2>3. CASE call
    <3>1. called' = [called EXCEPT ![item.cb] = Append(@, entry)]  BY <1>2, <2>3
    <3>2. /\ DOMAIN called = Callbacks /\ item.cb \in Callbacks
          /\ \A cb \in Callbacks : IsSeq(called[cb])
      BY <1>1, <2>1, <2>3 DEF FrameInv
    <3>3. /\ DOMAIN called' = Callbacks
          /\ called'[item.cb] = Append(called[item.cb], entry)
          /\ \A cb \in Callbacks : cb # item.cb => called'[cb] = called[cb]
      BY <3>1, <3>2
    <3> DEFINE c == called[item.cb]
               m == Len(c)
    <3>4. /\ IsSeq(Append(c, entry)) /\ Len(Append(c, entry)) = m + 1
          /\ Append(c, entry)[m + 1] = entry
          /\ \A i \in 1..m : Append(c, entry)[i] = c[i]
      BY <3>2, AppendIs
    <3>5. m \in Nat /\ DOMAIN c = 1..m /\ DOMAIN Append(c, entry) = 1..(m + 1)  BY <3>2, <3>4, SeqIs
    <3>6. entry.ev = item.ev  BY DEF entry
    <3> HIDE DEF c, m, call
    <3>7. /\ \A k \in DOMAIN c : k \in DOMAIN Append(c, entry) /\ Append(c, entry)[k] = c[k]
          /\ \E k \in DOMAIN Append(c, entry) : Append(c, entry)[k].ev = item.ev
      <4>1. m + 1 \in DOMAIN Append(c, entry)  BY <3>5
      <4> QED  BY <3>4, <3>5, <3>6, <4>1
    <3>8. called'[item.cb] = Append(c, entry)  BY <3>3 DEF c
    <3>9. ASSUME NEW cb \in Callbacks
          PROVE  /\ IsSeq(called'[cb])
                 /\ \A k \in DOMAIN called[cb] :
                       k \in DOMAIN called'[cb] /\ called'[cb][k] = called[cb][k]
                 /\ cb = item.cb /\ call =>
                       \E k \in DOMAIN called'[cb] : called'[cb][k].ev = item.ev
                 /\ ~(cb = item.cb /\ call) => called'[cb] = called[cb]
      <4>1. CASE cb = item.cb  BY <2>3, <3>4, <3>7, <3>8, <4>1 DEF c
      <4>2. CASE cb # item.cb
        <5>1. called'[cb] = called[cb]  BY <3>3, <4>2
        <5> QED  BY <3>2, <4>2, <5>1
      <4> QED  BY <4>1, <4>2
    <3> QED  BY <2>1, <3>3, <3>9
  <2> QED  BY <2>2, <2>3
<1>11. OwnInv'
  BY <1>1, <1>2, <1>9 DEF OwnInv
<1>12. FrameInv'
  <2>1. \A i \in DOMAIN stack' : stack'[i].kind = "dispatch" => IsSeq(stack'[i].rest)
    BY <1>1, <1>5, <1>6, <1>7 DEF FrameInv
  <2> QED  BY <1>1, <1>2, <1>5, <1>10, <2>1 DEF FrameInv
<1>13. ASSUME NEW cb \in Callbacks, cb \in registry, cb \notin retired, Reaches(cb)
       PROVE  Reaches(cb)'
  <2>1. ASSUME NEW k \in DOMAIN called[cb], called[cb][k].ev.what = "stopped"
        PROVE  Reaches(cb)'
    <3>1. k \in DOMAIN called'[cb] /\ called'[cb][k] = called[cb][k]  BY <1>10
    <3> QED  BY <2>1, <3>1 DEF Reaches
  <2>2. CASE \E e \in ToSet(queue) : IsStopped(e, cb)  BY <1>2, <2>2 DEF Reaches, IsStopped
  <2>3. ASSUME NEW p \in DOMAIN stack, NEW i \in DOMAIN stack, stack[p].kind = "close", p < i,
               stack[i].kind = "dispatch", NEW e \in ToSet(stack[i].rest), IsStopped(e, cb)
        PROVE  Reaches(cb)'
    <3>1. p \in DOMAIN stack' /\ stack'[p].kind = "close" /\ i \in DOMAIN stack'
          /\ stack'[i].kind = "dispatch"
      BY <1>5, <1>8, <2>3
    <3>2. CASE e \in ToSet(stack'[i].rest)  BY <2>3, <3>1, <3>2 DEF Reaches, IsStopped
    <3>3. CASE e \notin ToSet(stack'[i].rest)
      <4>1. i = n /\ e = item  BY <1>5, <1>6, <1>7, <2>3, <3>3
      <4>2. call /\ cb = item.cb /\ item.ev.what = "stopped"  BY <1>13, <2>3, <4>1 DEF IsStopped
      <4>3. \E k \in DOMAIN called'[cb] : called'[cb][k].ev = item.ev  BY <1>10, <4>2
      <4> QED  BY <4>2, <4>3 DEF Reaches
    <3> QED  BY <3>2, <3>3
  <2> QED  BY <1>13, <2>1, <2>2, <2>3 DEF Reaches
<1>14. CloseInv'
  <2>1. /\ (\E p \in DOMAIN stack : stack[p].kind = "close")
              <=> (\E p \in DOMAIN stack' : stack'[p].kind = "close")
        /\ (\A p, r \in DOMAIN stack : stack[p].kind = "close" /\ stack[r].kind = "close" => p = r)
              => (\A p, r \in DOMAIN stack' :
                     stack'[p].kind = "close" /\ stack'[r].kind = "close" => p = r)
    BY <1>5, <1>8
  <2>2. (rt_close = "drain" /\ rt_dispatches /\ rt_thread = "gone" /\ "stopped" \in DOMAIN rt_live
            => Reaches(rt_live["stopped"]))'
    <3> SUFFICES ASSUME rt_close = "drain", rt_dispatches, rt_thread = "gone",
                        "stopped" \in DOMAIN rt_live
                 PROVE  Reaches(rt_live["stopped"])'
      BY <1>3
    <3>1. Reaches(rt_live["stopped"]) /\ up /\ rt_live = rt_ids
          /\ Ids \subseteq registry \ (deferred \cup retired)
      BY <1>1 DEF CloseInv
    <3>2. rt_live["stopped"] \in Ids /\ rt_live["stopped"] \in Callbacks
      <4>1. rt_live["stopped"] \in Ids  BY <3>1 DEF Ids
      <4>2. Ids \subseteq Callbacks
        <5>1. Ids \subseteq 1..(next_id - 1)  BY <1>1 DEF OwnInv, Mine
        <5> QED  BY <1>1, <5>1, GivenAreCallbacks
      <4> QED  BY <4>1, <4>2
    <3>3. PICK x : x = rt_live["stopped"]  OBVIOUS
    <3>4. Reaches(x)'  BY <1>13, <3>1, <3>2, <3>3
    <3> QED  BY <1>3, <3>3, <3>4 DEF Reaches
  <2> QED  BY <1>1, <1>2, <1>3, <1>9, <2>1, <2>2 DEF CloseInv
<1>15. SilentInv'
  <2> SUFFICES ASSUME rt_close = "closed"
               PROVE  SilentInv'
    BY <1>3 DEF SilentInv
  <2>1. /\ rt_ids = <<>> /\ StoppedIsTold
        /\ \A cb \in DOMAIN rt_silenced :
              /\ Len(called[cb]) = rt_silenced[cb]
              /\ \A e \in ToSet(queue) : e.cb # cb
              /\ cb \in registry => cb \in retired /\ cb \in deferred
    BY <1>1 DEF SilentInv
  <2>2. DOMAIN rt_silenced \subseteq Callbacks
    <3>1. DOMAIN rt_silenced \subseteq 1..(next_id - 1)  BY <1>1 DEF OwnInv, Mine
    <3> QED  BY <1>1, <3>1, GivenAreCallbacks
  <2>3. ASSUME NEW cb \in DOMAIN rt_silenced
        PROVE  /\ Len(called'[cb]) = rt_silenced[cb]
               /\ \A e \in ToSet(queue') : e.cb # cb
               /\ cb \in registry' => cb \in retired' /\ cb \in deferred'
    <3>1. called'[cb] = called[cb]  BY <1>10, <2>1, <2>2
    <3> QED  BY <1>2, <2>1, <3>1
  <2>4. StoppedIsTold'
    <3> SUFFICES ASSUME rt_dispatches, rt_thread = "gone", "stopped" \in DOMAIN rt_live,
                        rt_live["stopped"] \in DOMAIN rt_silenced
                 PROVE  \E k \in DOMAIN called'[rt_live["stopped"]] :
                            called'[rt_live["stopped"]][k].ev.what = "stopped"
      BY <1>3 DEF StoppedIsTold
    <3>1. PICK k \in DOMAIN called[rt_live["stopped"]] :
                   called[rt_live["stopped"]][k].ev.what = "stopped"
      BY <2>1 DEF StoppedIsTold
    <3> QED  BY <1>10, <2>2, <3>1
  <2> QED  BY <1>3, <2>1, <2>3, <2>4 DEF SilentInv
<1> QED  BY <1>11, <1>12, <1>14, <1>15 DEF HandleInv

LEMMA EndDispatchKeeps ==
    ASSUME HandleInv, EndDispatch, UNCHANGED <<TableIds, lrVars, up>>
    PROVE  HandleInv'
<1> DEFINE n == Len(stack)
<1>1. OwnInv /\ FrameInv /\ CloseInv /\ SilentInv
  BY DEF HandleInv
<1>2. /\ Top.kind = "dispatch" /\ Top.rest = <<>>
      /\ stack' = Below
      /\ UNCHANGED <<next_id, queue, own, called>>
  BY DEF EndDispatch
<1>3. \/ /\ registry' = registry \ deferred /\ retired' = retired \ deferred
         /\ deferred' = {}
      \/ UNCHANGED <<registry, retired, deferred>>
  BY DEF EndDispatch
<1>4. /\ UNCHANGED <<rt_ids, rt_live, rt_thread, rt_close, rt_dispatches, rt_silenced, up>>
      /\ TableIds' = TableIds
  BY DEF lrVars
<1>5. /\ n \in Nat \ {0} /\ DOMAIN stack = 1..n /\ Top = stack[n]
      /\ IsSeq(stack') /\ DOMAIN stack' = 1..(n - 1)
      /\ \A i \in 1..(n - 1) : stack'[i] = stack[i]
  BY <1>1, <1>2, TopIs
<1> HIDE DEF n
<1>6. /\ \A i \in DOMAIN stack : i # n => i \in DOMAIN stack' /\ stack'[i] = stack[i]
      /\ \A i \in DOMAIN stack' : i \in DOMAIN stack /\ i # n /\ stack'[i] = stack[i]
  BY <1>5
<1>7. Ids' = Ids /\ Mine' = Mine /\ Foreign' = Foreign
  <2>1. SshFrames' = SshFrames  BY <1>2, <1>5, <1>6 DEF SshFrames
  <2>2. \A i \in SshFrames : stack'[i] = stack[i]  BY <1>2, <1>5, <1>6 DEF SshFrames
  <2>3. {stack'[i].cur.cb : i \in SshFrames'} = {stack[i].cur.cb : i \in SshFrames}  BY <2>1, <2>2
  <2> QED  BY <1>4, <2>3 DEF Ids, Mine, Foreign, NoCallback
<1>8. OwnInv'
  BY <1>1, <1>2, <1>3, <1>7 DEF OwnInv
<1>9. FrameInv'
  BY <1>1, <1>2, <1>5, <1>6 DEF FrameInv
<1>10. ASSUME NEW cb, Reaches(cb)
       PROVE  Reaches(cb)'
  <2>1. CASE \/ \E k \in DOMAIN called[cb] : called[cb][k].ev.what = "stopped"
             \/ \E e \in ToSet(queue) : IsStopped(e, cb)
    BY <1>2, <2>1 DEF Reaches, IsStopped
  <2>2. ASSUME NEW p \in DOMAIN stack, NEW i \in DOMAIN stack, stack[p].kind = "close", p < i,
               stack[i].kind = "dispatch", NEW e \in ToSet(stack[i].rest), IsStopped(e, cb)
        PROVE  Reaches(cb)'
    <3>1. i # n  BY <1>2, <1>5, <2>2, EmptyIsSeq
    <3>2. p # n  BY <1>2, <1>5, <2>2
    <3>3. /\ p \in DOMAIN stack' /\ stack'[p] = stack[p]
          /\ i \in DOMAIN stack' /\ stack'[i] = stack[i]
      BY <1>6, <3>1, <3>2
    <3> QED  BY <2>2, <3>3 DEF Reaches, IsStopped
  <2> QED  BY <1>10, <2>1, <2>2 DEF Reaches
<1>11. CloseInv'
  <2>1. /\ (\E p \in DOMAIN stack : stack[p].kind = "close")
              <=> (\E p \in DOMAIN stack' : stack'[p].kind = "close")
        /\ (\A p, r \in DOMAIN stack : stack[p].kind = "close" /\ stack[r].kind = "close" => p = r)
              => (\A p, r \in DOMAIN stack' :
                     stack'[p].kind = "close" /\ stack'[r].kind = "close" => p = r)
    BY <1>2, <1>5, <1>6
  <2>2. Ids \subseteq registry \ (deferred \cup retired)
            => Ids \subseteq registry' \ (deferred' \cup retired')
    BY <1>3
  <2>3. (rt_close = "drain" /\ rt_dispatches /\ rt_thread = "gone" /\ "stopped" \in DOMAIN rt_live
            => Reaches(rt_live["stopped"]))'
    <3> SUFFICES ASSUME rt_close = "drain", rt_dispatches, rt_thread = "gone",
                        "stopped" \in DOMAIN rt_live
                 PROVE  Reaches(rt_live["stopped"])'
      BY <1>4
    <3>1. Reaches(rt_live["stopped"])  BY <1>1 DEF CloseInv
    <3>2. PICK x : x = rt_live["stopped"]  OBVIOUS
    <3>3. Reaches(x)'  BY <1>10, <3>1, <3>2
    <3> QED  BY <1>4, <3>2, <3>3 DEF Reaches
  <2> QED  BY <1>1, <1>4, <1>7, <2>1, <2>2, <2>3 DEF CloseInv
<1>12. SilentInv'
  <2> SUFFICES ASSUME rt_close = "closed"
               PROVE  SilentInv'
    BY <1>4 DEF SilentInv
  <2>1. /\ rt_ids = <<>> /\ StoppedIsTold
        /\ \A cb \in DOMAIN rt_silenced :
              /\ Len(called[cb]) = rt_silenced[cb]
              /\ \A e \in ToSet(queue) : e.cb # cb
              /\ cb \in registry => cb \in retired /\ cb \in deferred
    BY <1>1 DEF SilentInv
  <2>2. StoppedIsTold'  BY <1>2, <1>4, <2>1 DEF StoppedIsTold
  <2> QED  BY <1>2, <1>3, <1>4, <2>1, <2>2 DEF SilentInv
<1> QED  BY <1>8, <1>9, <1>11, <1>12 DEF HandleInv

-----------------------------------------------------------------------------
(* The steps of the handle and of its thread.                              *)

\* A step that leaves the callbacks alone, up to one that the thread posts.
Posting ==
    /\ UNCHANGED <<next_id, registry, deferred, retired, stack, called, up>>
    /\ TableIds' = TableIds
    /\ IsSeq(queue') /\ ToSet(queue) \subseteq ToSet(queue')
    /\ UNCHANGED <<rt_ids, rt_live, rt_dispatches, rt_silenced>>

LEMMA PostingKeeps ==
    ASSUME HandleInv, Posting,
           rt_close' # "closed" /\ rt_close # "closed",
           rt_close' \in {"join", "drain"} <=> rt_close \in {"join", "drain"},
           rt_close' \in {"open", "join", "drain"},
           rt_close' = "drain" => /\ rt_thread' \in {"none", "gone"}
                                  /\ rt_dispatches /\ rt_thread' = "gone"
                                        /\ "stopped" \in DOMAIN rt_live
                                     => Reaches(rt_live["stopped"])'
    PROVE  HandleInv'
<1>1. OwnInv /\ FrameInv /\ CloseInv /\ SilentInv
  BY DEF HandleInv
<1>2. Ids' = Ids /\ Mine' = Mine /\ Foreign' = Foreign
  BY DEF Posting, Ids, Mine, Foreign, SshFrames, NoCallback
<1>3. OwnInv'
  BY <1>1, <1>2 DEF OwnInv, Posting
<1>4. FrameInv'
  BY <1>1 DEF FrameInv, Posting
<1>5. (rt_close = "drain" /\ rt_dispatches /\ rt_thread = "gone" /\ "stopped" \in DOMAIN rt_live
          => Reaches(rt_live["stopped"]))'
  <2> SUFFICES ASSUME rt_close' = "drain", rt_dispatches, rt_thread' = "gone",
                      "stopped" \in DOMAIN rt_live
               PROVE  Reaches(rt_live["stopped"])'
    BY DEF Posting
  <2> QED  OBVIOUS
<1>6. CloseInv'
  BY <1>1, <1>2, <1>5 DEF CloseInv, Posting
<1>7. SilentInv'
  BY DEF SilentInv
<1> QED  BY <1>3, <1>4, <1>6, <1>7 DEF HandleInv

LEMMA ThreadKeeps ==
    ASSUME HandleInv,
           RtStart \/ (\E name : RtTell(name)) \/ RtPost \/ RtExit \/ RtJoined,
           TableIds' = TableIds, UNCHANGED up
    PROVE  HandleInv'
<1>1. FrameInv /\ CloseInv
  BY DEF HandleInv
<1>2. IsSeq(queue)
  BY <1>1 DEF FrameInv
<1>3. ASSUME RtStart \/ (\E name : RtTell(name)) \/ RtExit
      PROVE  HandleInv'
  <2>1. /\ UNCHANGED cbVars
        /\ UNCHANGED <<rt_ids, rt_live, rt_close, rt_dispatches, rt_silenced>>
        /\ rt_close = "open" \/ rt_thread = "up"
    BY <1>3 DEF RtStart, RtTell, RtExit
  <2>2. rt_close \in {"open", "join"}  BY <1>1, <2>1 DEF CloseInv
  <2>3. Posting  BY <1>2, <2>1 DEF Posting, cbVars
  <2> QED  BY <2>1, <2>2, <2>3, PostingKeeps
<1>4. ASSUME RtPost
      PROVE  HandleInv'
  <2>1. /\ UNCHANGED <<rt_ids, rt_live, rt_close, rt_dispatches, rt_silenced>>
        /\ rt_thread = "telling"
        /\ queue' = Append(queue, Item(rt_telling, Notice("notice")))
        /\ UNCHANGED <<next_id, registry, deferred, retired, stack, own, called>>
    BY <1>4 DEF RtPost, Post
  <2>2. rt_close \in {"open", "join"}  BY <1>1, <2>1 DEF CloseInv
  <2>3. Posting  BY <1>2, <2>1, AppendIs DEF Posting
  <2> QED  BY <2>1, <2>2, <2>3, PostingKeeps
<1>5. ASSUME RtJoined
      PROVE  HandleInv'
  <2> DEFINE note == Item(rt_live["stopped"], Notice("stopped"))
  <2>1. /\ UNCHANGED <<rt_ids, rt_live, rt_thread, rt_dispatches, rt_silenced>>
        /\ rt_close = "join" /\ rt_close' = "drain" /\ rt_thread \in {"none", "gone"}
        /\ UNCHANGED <<next_id, registry, deferred, retired, stack, own, called>>
        /\ IF rt_thread = "gone" /\ "stopped" \in DOMAIN rt_live
           THEN queue' = Append(queue, note)
           ELSE queue' = queue
    BY <1>5 DEF RtJoined, Post, cbVars
  <2>2. note.cb = rt_live["stopped"] /\ note.ev.what = "stopped"  BY DEF Item, Notice, Event
  <2> HIDE DEF note
  <2>3. /\ IsSeq(Append(queue, note)) /\ ToSet(Append(queue, note)) = ToSet(queue) \cup {note}
    BY <1>2, AppendIs
  <2>4. Posting  BY <1>2, <2>1, <2>3 DEF Posting
  <2>5. ASSUME rt_thread' = "gone", "stopped" \in DOMAIN rt_live
        PROVE  Reaches(rt_live["stopped"])'
    <3>1. note \in ToSet(queue') /\ rt_live' = rt_live  BY <2>1, <2>3, <2>5
    <3>2. PICK x : x = rt_live["stopped"]  OBVIOUS
    <3>3. IsStopped(note, x)  BY <2>2, <3>2 DEF IsStopped
    <3>4. Reaches(x)'  BY <3>1, <3>3 DEF Reaches, IsStopped
    <3> QED  BY <3>1, <3>2, <3>4 DEF Reaches
  <2> QED  BY <2>1, <2>4, <2>5, PostingKeeps
<1> QED  BY <1>3, <1>4, <1>5

LEMMA RtDrainKeeps ==
    ASSUME HandleInv, RtDrain, TableIds' = TableIds, UNCHANGED up
    PROVE  HandleInv'
<1>1. /\ DispatchFrom(stack, queue, Ids, 0)
      /\ UNCHANGED <<next_id, registry, deferred, retired, own, called, lrVars>>
  BY DEF RtDrain
<1>2. Running
  BY <1>1, SameIsQueueing, DispatchIsRunning DEF HandleInv
<1>3. TableIds' \subseteq Foreign \cup next_id..(next_id' - 1)
  BY DEF Foreign
<1>4. Others
  BY <1>1, <1>2, <1>3 DEF Others, Registering, Running
<1> QED  BY <1>4, OthersKeep

LEMMA RtSetKeeps ==
    ASSUME HandleInv, NEW name, RtSet(name), TableIds' = TableIds, UNCHANGED up
    PROVE  HandleInv'
<1> DEFINE drop == {rt_ids[n] : n \in {name} \cap DOMAIN rt_ids}
           ids == [n \in DOMAIN rt_ids \cup {name} |->
                      IF n = name THEN next_id ELSE rt_ids[n]]
<1>1. OwnInv /\ FrameInv /\ CloseInv /\ SilentInv
  BY DEF HandleInv
<1>2. /\ rt_close = "open"
      /\ Reregister(drop, 1)
      /\ rt_ids' = ids /\ rt_live' = ids
      /\ UNCHANGED <<queue, stack, own, called, rt_thread, rt_close, rt_dispatches, rt_silenced>>
  BY DEF RtSet
<1>3. /\ next_id' = next_id + 1 /\ next_id + 1 <= MaxCallbacks + 1 /\ next_id \in Nat \ {0}
      /\ registry' \subseteq registry \cup {next_id}
      /\ (registry \ drop) \cup {next_id} \subseteq registry'
      /\ deferred' \subseteq deferred \cup drop
      /\ retired' \subseteq retired
  <2>1. next_id \in Nat \ {0}  BY <1>1 DEF OwnInv
  <2>2. next_id..(next_id + 1 - 1) = {next_id}  BY <2>1
  <2> HIDE DEF drop
  <2> QED  BY <1>2, <2>1, <2>2 DEF Reregister
<1>4. /\ rt_silenced = <<>> /\ Mine = Ids
      /\ Foreign \subseteq 0..(next_id - 1) /\ Ids \subseteq 1..(next_id - 1)
      /\ Foreign \cap Ids = {}
      /\ registry \subseteq 1..(next_id - 1)
      /\ deferred \cup retired \subseteq 0..(next_id - 1)
      /\ \A a, b \in DOMAIN rt_ids : rt_ids[a] = rt_ids[b] => a = b
      /\ up => Ids \subseteq registry \ (deferred \cup retired)
  <2>1. rt_silenced = <<>>  BY <1>1, <1>2 DEF CloseInv
  <2>2. Mine = Ids  BY <2>1 DEF Mine
  <2> QED  BY <1>1, <1>2, <2>1, <2>2 DEF OwnInv, CloseInv
<1>5. Ids' = (Ids \ drop) \cup {next_id} /\ drop \subseteq Ids
  <2>1. DOMAIN rt_ids' = DOMAIN rt_ids \cup {name}
        /\ \A n \in DOMAIN rt_ids' : rt_ids'[n] = IF n = name THEN next_id ELSE rt_ids[n]
    BY <1>2
  <2>2. drop \subseteq Ids  BY DEF Ids
  <2>3. \A n \in DOMAIN rt_ids : n # name => rt_ids[n] \notin drop  BY <1>4
  <2>4. Ids' \subseteq (Ids \ drop) \cup {next_id}  BY <2>1, <2>3 DEF Ids
  <2>5. next_id \in Ids'  BY <2>1 DEF Ids
  <2>6. Ids \ drop \subseteq Ids'
    <3> SUFFICES ASSUME NEW n \in DOMAIN rt_ids, rt_ids[n] \notin drop
                 PROVE  rt_ids[n] \in Ids'
      BY DEF Ids
    <3>1. n # name  OBVIOUS
    <3>2. n \in DOMAIN rt_ids' /\ rt_ids'[n] = rt_ids[n]  BY <2>1, <3>1
    <3> QED  BY <3>2 DEF Ids
  <2> QED  BY <2>2, <2>4, <2>5, <2>6
<1>6. \A a, b \in DOMAIN rt_ids' : rt_ids'[a] = rt_ids'[b] => a = b
  <2>1. \A n \in DOMAIN rt_ids : rt_ids[n] # next_id
    <3>1. \A i \in 1..(next_id - 1) : i # next_id  BY <1>3
    <3> QED  BY <1>4, <3>1 DEF Ids
  <2> QED  BY <1>2, <1>4, <2>1
<1> HIDE DEF drop, ids
<1>7. /\ 0..(next_id - 1) \subseteq 0..(next_id' - 1) /\ 1..(next_id - 1) \subseteq 1..(next_id' - 1)
      /\ next_id \in 1..(next_id' - 1) /\ next_id \notin 0..(next_id - 1)
      /\ 1..(next_id - 1) \subseteq 0..(next_id - 1)
  BY <1>3
<1>8. Mine' = Ids' /\ Foreign' = Foreign
  BY <1>2, <1>4 DEF Mine, Foreign, SshFrames, NoCallback
<1>9. OwnInv'
  <2>1. next_id' \in Nat \ {0} /\ next_id' <= MaxCallbacks + 1  BY <1>3
  <2>2. Foreign' \subseteq 0..(next_id' - 1) /\ Mine' \subseteq 1..(next_id' - 1)
    BY <1>4, <1>5, <1>7, <1>8
  <2>3. Foreign' \cap Mine' = {}  BY <1>4, <1>5, <1>7, <1>8
  <2>4. registry' \subseteq 1..(next_id' - 1)  BY <1>3, <1>4, <1>7
  <2>5. deferred' \cup retired' \subseteq 0..(next_id' - 1)
    <3>1. drop \subseteq 0..(next_id - 1)  BY <1>4, <1>5, <1>7
    <3> QED  BY <1>3, <1>4, <1>7, <3>1
  <2> QED  BY <2>1, <2>2, <2>3, <2>4, <2>5 DEF OwnInv
<1>10. FrameInv'
  BY <1>1, <1>2 DEF FrameInv
<1>11. up => Ids' \subseteq registry' \ (deferred' \cup retired')
  BY <1>3, <1>4, <1>5, <1>7
<1>12. CloseInv'
  BY <1>1, <1>2, <1>4, <1>6, <1>11 DEF CloseInv
<1>13. SilentInv'
  BY <1>2 DEF SilentInv
<1> QED  BY <1>9, <1>10, <1>12, <1>13 DEF HandleInv

LEMMA RtCloseKeeps ==
    ASSUME HandleInv, NEW dispatch \in BOOLEAN, RtClose(dispatch), dispatch => up,
           TableIds' = TableIds, UNCHANGED up
    PROVE  HandleInv'
<1> DEFINE f == Frame("close", <<>>, NoItem)
<1>1. OwnInv /\ FrameInv /\ CloseInv /\ SilentInv
  BY DEF HandleInv
<1>2. /\ rt_close = "open" /\ rt_close' = "join" /\ rt_dispatches' = dispatch
      /\ stack' = Append(stack, f)
      /\ UNCHANGED <<next_id, registry, deferred, retired, queue, own, called, rt_ids,
                     rt_live, rt_thread, rt_silenced>>
  BY DEF RtClose
<1>3. f.kind = "close"
  BY DEF Frame
<1> HIDE DEF f
<1> DEFINE n == Len(stack) + 1
<1>4. /\ IsSeq(stack') /\ DOMAIN stack' = DOMAIN stack \cup {n} /\ n \notin DOMAIN stack
      /\ stack'[n] = f /\ \A i \in DOMAIN stack : stack'[i] = stack[i]
  <2>1. /\ IsSeq(stack') /\ Len(stack') = n /\ stack'[n] = f
        /\ \A i \in 1..Len(stack) : stack'[i] = stack[i]
    BY <1>1, <1>2, AppendIs DEF FrameInv
  <2>2. Len(stack) \in Nat /\ DOMAIN stack = 1..Len(stack) /\ DOMAIN stack' = 1..n
    BY <1>1, <2>1, SeqIs DEF FrameInv
  <2> QED  BY <2>1, <2>2
<1> HIDE DEF n
<1>5. SshFrames' = SshFrames
  BY <1>3, <1>4 DEF SshFrames
<1>6. Ids' = Ids /\ Mine' = Mine /\ Foreign' = Foreign
  <2>1. {stack'[i].cur.cb : i \in SshFrames'} = {stack[i].cur.cb : i \in SshFrames}
    BY <1>4, <1>5 DEF SshFrames
  <2> QED  BY <1>2, <2>1 DEF Ids, Mine, Foreign, NoCallback
<1>7. OwnInv'
  BY <1>1, <1>2, <1>6 DEF OwnInv
<1>8. FrameInv'
  BY <1>1, <1>2, <1>3, <1>4 DEF FrameInv
<1>9. \A p \in DOMAIN stack : stack[p].kind # "close"
  BY <1>1, <1>2 DEF CloseInv
<1>10. \A p \in DOMAIN stack' : stack'[p].kind = "close" <=> p = n
  BY <1>3, <1>4, <1>9
<1>11. n \in DOMAIN stack'
  BY <1>4
<1>12. CloseInv'
  BY <1>1, <1>2, <1>6, <1>10, <1>11 DEF CloseInv
<1>13. SilentInv'
  BY <1>2 DEF SilentInv
<1> QED  BY <1>7, <1>8, <1>12, <1>13 DEF HandleInv

LEMMA RtClosedKeeps ==
    ASSUME HandleInv, RtClosed, TableIds' = TableIds, UNCHANGED up
    PROVE  HandleInv'
<1> DEFINE n == Len(stack)
           taken == TakenAt(queue, Ids, 0)
<1>1. OwnInv /\ FrameInv /\ CloseInv /\ SilentInv
  BY DEF HandleInv
<1>2. /\ rt_close = "drain" /\ rt_close' = "closed" /\ Top.kind = "close"
      /\ rt_dispatches => taken = {}
      /\ stack' = Below
      /\ queue' = At(queue, DOMAIN queue \ taken)
      /\ \/ /\ retired' = retired \cup Ids
            /\ deferred' = deferred \cup Ids
            /\ UNCHANGED registry
         \/ /\ registry' = registry \ Ids
            /\ UNCHANGED <<retired, deferred>>
      /\ rt_ids' = <<>>
      /\ rt_silenced' = [cb \in Ids |-> Len(called[cb])]
      /\ UNCHANGED <<next_id, own, called, rt_live, rt_thread, rt_dispatches>>
  BY DEF RtClosed
<1>3. taken = {i \in DOMAIN queue : queue[i].cb \in Ids}
  BY DEF TakenAt
<1> HIDE DEF taken
<1>4. /\ n \in Nat \ {0} /\ DOMAIN stack = 1..n /\ Top = stack[n]
      /\ IsSeq(stack') /\ DOMAIN stack' = 1..(n - 1)
      /\ \A i \in 1..(n - 1) : stack'[i] = stack[i]
  BY <1>1, <1>2, TopIs
<1> HIDE DEF n
<1>5. /\ n \in DOMAIN stack /\ stack[n].kind = "close"
      /\ \A i \in DOMAIN stack : i <= n
      /\ \A i \in DOMAIN stack' : i \in DOMAIN stack /\ i # n /\ stack'[i] = stack[i]
  BY <1>2, <1>4
<1>6. \A p \in DOMAIN stack : stack[p].kind = "close" => p = n
  BY <1>1, <1>5 DEF CloseInv
<1>7. IsSeq(queue') /\ ToSet(queue') = {queue[i] : i \in DOMAIN queue \ taken}
  <2>1. DOMAIN queue \ taken \in SUBSET DOMAIN queue  OBVIOUS
  <2> QED  BY <1>1, <1>2, <2>1, AtIs DEF FrameInv
<1>8. \A e \in ToSet(queue') : e.cb \notin Ids
  BY <1>3, <1>7
<1>9. rt_silenced = <<>> /\ rt_live = rt_ids
  BY <1>1, <1>2 DEF CloseInv
<1>10. Mine = Ids /\ Mine' = Ids /\ Ids' = {}
  BY <1>2, <1>9 DEF Mine, Ids
<1>11. Foreign' \subseteq Foreign
  <2>1. {stack'[i].cur.cb : i \in SshFrames'} \subseteq {stack[i].cur.cb : i \in SshFrames}
    BY <1>5 DEF SshFrames
  <2> QED  BY <2>1 DEF Foreign, NoCallback
<1>12. OwnInv'
  <2>1. /\ Ids \subseteq 1..(next_id - 1) /\ next_id \in Nat
        /\ deferred \cup retired \subseteq 0..(next_id - 1)
    BY <1>1, <1>10 DEF OwnInv
  <2>2. Ids \subseteq 0..(next_id - 1)  BY <2>1
  <2>3. deferred' \cup retired' \subseteq 0..(next_id' - 1)  BY <1>2, <2>1, <2>2
  <2> QED  BY <1>1, <1>2, <1>10, <1>11, <2>3 DEF OwnInv
<1>13. FrameInv'
  BY <1>1, <1>2, <1>4, <1>5, <1>7 DEF FrameInv
<1>14. CloseInv'
  <2>1. \A p \in DOMAIN stack' : stack'[p].kind # "close"  BY <1>5, <1>6
  <2>2. rt_thread' \in {"none", "gone"}  BY <1>1, <1>2 DEF CloseInv
  <2>3. \A a, b \in DOMAIN rt_ids' : rt_ids'[a] = rt_ids'[b] => a = b  BY <1>2
  <2> QED  BY <1>2, <2>1, <2>2, <2>3 DEF CloseInv
<1>15. StoppedIsTold'
  <2> SUFFICES ASSUME rt_dispatches, rt_thread = "gone", "stopped" \in DOMAIN rt_live
               PROVE  \E k \in DOMAIN called[rt_live["stopped"]] :
                          called[rt_live["stopped"]][k].ev.what = "stopped"
    BY <1>2 DEF StoppedIsTold
  <2>1. Reaches(rt_live["stopped"])  BY <1>1, <1>2 DEF CloseInv
  <2>2. rt_live["stopped"] \in Ids  BY <1>9 DEF Ids
  <2>3. \A e \in ToSet(queue) : e.cb # rt_live["stopped"]
    <3>1. taken = {}  BY <1>2
    <3> QED  BY <1>3, <2>2, <3>1 DEF ToSet
  <2>4. \A p, i \in DOMAIN stack : stack[p].kind = "close" => ~(p < i)  BY <1>4, <1>6
  <2> QED  BY <2>1, <2>3, <2>4 DEF Reaches, IsStopped
<1>16. SilentInv'
  <2>1. DOMAIN rt_silenced' = Ids /\ \A cb \in Ids : rt_silenced'[cb] = Len(called[cb])  BY <1>2
  <2>2. \A cb \in Ids : cb \in registry' => cb \in retired' /\ cb \in deferred'  BY <1>2
  <2> QED  BY <1>2, <1>8, <1>15, <2>1, <2>2 DEF SilentInv
<1> QED  BY <1>12, <1>13, <1>14, <1>16 DEF HandleInv

LEMMA ShutdownKeeps == HandleInv /\ EngineShutdown => HandleInv'
<1> SUFFICES ASSUME HandleInv, EngineShutdown PROVE HandleInv'
  OBVIOUS
<1>1. OwnInv /\ FrameInv /\ CloseInv /\ SilentInv
  BY DEF HandleInv
<1>2. /\ stack = <<>> /\ up' = FALSE
      /\ registry' = {} /\ deferred' = {} /\ retired' = {} /\ queue' = <<>>
      /\ UNCHANGED <<next_id, stack, own, called>>
      /\ job_callbacks' = <<>> /\ callback_by_operation' = <<>> /\ processes' = <<>>
      /\ UNCHANGED <<callback_ids, stream_callback_ids, chunk_callback, loads>>
      /\ UNCHANGED <<rt_ids, rt_live, rt_thread, rt_close, rt_dispatches, rt_silenced>>
  BY DEF EngineShutdown, CallbacksShutdown, JobsClear, SshDrop, ProcessDrop, ResourcesClear,
         lhVars, lrVars
<1>3. Ids' = Ids /\ Mine' = Mine
  BY <1>2 DEF Ids, Mine
<1>4. Foreign' \subseteq Foreign
  <2>1. HttpIds' = HttpIds /\ LoadIds' = LoadIds /\ ProcessIds' = {}
        /\ Values(job_callbacks)' = {} /\ Values(callback_by_operation)' = {}
    BY <1>2 DEF HttpIds, LoadIds, ProcessIds, Values
  <2>2. {stack'[i].cur.cb : i \in SshFrames'} = {}  BY <1>2 DEF SshFrames
  <2> QED  BY <1>2, <2>1, <2>2 DEF Foreign, TableIds, NoCallback
<1>5. OwnInv'
  BY <1>1, <1>2, <1>3, <1>4 DEF OwnInv
<1>6. FrameInv'
  BY <1>1, <1>2, EmptyIsSeq DEF FrameInv
<1>7. CloseInv'
  <2>1. \A p \in DOMAIN stack : FALSE  BY <1>2
  <2>2. rt_close \notin {"join", "drain"}  BY <1>1, <2>1 DEF CloseInv
  <2> QED  BY <1>1, <1>2, <2>1, <2>2 DEF CloseInv
<1>8. SilentInv'
  <2> SUFFICES ASSUME rt_close = "closed"
               PROVE  SilentInv'
    BY <1>2 DEF SilentInv
  <2>1. /\ rt_ids = <<>> /\ StoppedIsTold
        /\ \A cb \in DOMAIN rt_silenced : Len(called[cb]) = rt_silenced[cb]
    BY <1>1 DEF SilentInv
  <2>2. StoppedIsTold'  BY <1>2, <2>1 DEF StoppedIsTold
  <2>3. ToSet(queue') = {}  BY <1>2, EmptyIsSeq
  <2> QED  BY <1>2, <2>1, <2>2, <2>3 DEF SilentInv
<1> QED  BY <1>5, <1>6, <1>7, <1>8 DEF HandleInv

-----------------------------------------------------------------------------
(* All the steps of the runtime.                                           *)

\* One module changes its table, the others keep theirs.
LEMMA KeepingIsOthers ==
    ASSUME Keeps, UNCHANGED <<lrVars, up>>,
           own' \subseteq Foreign \cup New,
           HttpIds' \subseteq Foreign \cup New,
           Values(job_callbacks)' \subseteq Foreign \cup New,
           Values(callback_by_operation)' \subseteq Foreign \cup New,
           ProcessIds' \subseteq Foreign \cup New,
           LoadIds' \subseteq Foreign \cup New
    PROVE  Others
  BY DEF Others, Keeps, Running, New, TableIds

LEMMA TablesUnchanged ==
    /\ UNCHANGED lhVars => HttpIds' = HttpIds
    /\ UNCHANGED ljVars => Values(job_callbacks)' = Values(job_callbacks)
    /\ UNCHANGED lsVars => Values(callback_by_operation)' = Values(callback_by_operation)
    /\ UNCHANGED lpVars => ProcessIds' = ProcessIds
    /\ UNCHANGED ltVars => LoadIds' = LoadIds
  BY DEF lhVars, ljVars, lsVars, lpVars, ltVars, HttpIds, Values, ProcessIds, LoadIds

LEMMA HttpIsOthers ==
    ASSUME Keeps, UNCHANGED own, HttpIds' \subseteq HttpIds \cup New, HttpOnly
    PROVE  Others
  BY KeepingIsOthers, TablesUnchanged, TablesAreForeign DEF HttpOnly

LEMMA JobsIsOthers ==
    ASSUME Keeps, UNCHANGED own,
           Values(job_callbacks)' \subseteq Values(job_callbacks) \cup New, JobsOnly
    PROVE  Others
  BY KeepingIsOthers, TablesUnchanged, TablesAreForeign DEF JobsOnly

LEMMA SshIsOthers ==
    ASSUME Keeps, UNCHANGED own,
           Values(callback_by_operation)' \subseteq Values(callback_by_operation) \cup New, SshOnly
    PROVE  Others
  BY KeepingIsOthers, TablesUnchanged, TablesAreForeign DEF SshOnly

LEMMA ProcessIsOthers ==
    ASSUME Keeps, UNCHANGED own, ProcessIds' \subseteq Foreign \cup New, ProcessOnly
    PROVE  Others
  BY KeepingIsOthers, TablesUnchanged, TablesAreForeign DEF ProcessOnly

LEMMA TexturesIsOthers ==
    ASSUME Keeps, UNCHANGED own, LoadIds' \subseteq Foreign \cup New, TexturesOnly
    PROVE  Others
  BY KeepingIsOthers, TablesUnchanged, TablesAreForeign DEF TexturesOnly

LEMMA CallbacksIsOthers ==
    ASSUME Keeps, own' \subseteq own \cup New, CallbacksOnly
    PROVE  Others
  BY KeepingIsOthers, TablesUnchanged, TablesAreForeign DEF CallbacksOnly

LEMMA OnlyTheHandle ==
    /\ RealtimeOnly /\ UNCHANGED own => TableIds' = TableIds /\ UNCHANGED up
    /\ CallbacksOnly /\ UNCHANGED own => /\ UNCHANGED <<TableIds, lrVars, up>>
  BY TablesUnchanged DEF RealtimeOnly, CallbacksOnly, TableIds

HandleStep ==
    \/ Others
    \/ EngineShutdown
    \/ /\ TableIds' = TableIds /\ UNCHANGED up
       /\ \/ \E name : RtSet(name) \/ RtTell(name)
          \/ RtStart \/ RtPost \/ RtExit \/ RtJoined \/ RtDrain \/ RtClosed
          \/ \E dispatch \in BOOLEAN : RtClose(dispatch) /\ (dispatch => up)
    \/ UNCHANGED <<TableIds, lrVars, up>> /\ (CallNext \/ EndDispatch)

LEMMA HandleInvStep == HandleInv /\ HandleStep => HandleInv'
  BY OthersKeep, ShutdownKeeps, RtSetKeeps, ThreadKeeps, RtDrainKeeps, RtClosedKeeps,
     RtCloseKeeps, CallNextKeeps, EndDispatchKeeps DEF HandleStep

LEMMA ScriptIsHandleStep ==
    ASSUME OwnInv, FrameInv, ServiceInv, HttpInv, ProcInv, Script
    PROVE  HandleStep
<1>1. CASE /\ CallbacksOnly
           /\ \/ ScriptRegister
              \/ \E cb \in own : ScriptUnregister(cb) \/ \E ev : ScriptEnqueue(cb, ev)
  BY <1>1, ScriptsKeep, CallbacksIsOthers DEF HandleStep
<1>2. CASE /\ HttpOnly
           /\ \/ \E kind \in {"stream", "callback", "plain"} : HttpRequest(kind)
              \/ \E id : HttpCancelCall(id)
              \/ \E max \in {0, 1} : HttpPollCall(max)
  BY <1>2, HttpKeeps, HttpIsOthers DEF HandleStep
<1>3. CASE /\ JobsOnly
           /\ \/ \E with \in BOOLEAN : JobSubmit(with)
              \/ \E max \in {0, 1} : JobsPollCall(max)
  BY <1>3, JobsKeep, JobsIsOthers DEF HandleStep
<1>4. CASE /\ SshOnly
           /\ \/ \E with \in BOOLEAN : SshStart(with)
              \/ \E max \in {0, 1} : SshPollCall(max)
  BY <1>4, SshKeeps, SshIsOthers DEF HandleStep
<1>5. CASE ProcessOnly /\ \E with, timed \in BOOLEAN : ProcessSpawn(with, timed)
  BY <1>5, ProcessKeeps, ProcessIsOthers DEF HandleStep
<1>6. CASE RealtimeOnly /\ ((\E name \in Names : RtSet(name)) \/ RtStart)
  BY <1>6, OnlyTheHandle DEF HandleStep, RtSet, RtStart, cbVars
<1>7. CASE RealtimeOnly /\ \E dispatch \in BOOLEAN : RtClose(dispatch)
  <2>1. up  BY DEF Script
  <2> QED  BY <1>7, <2>1, OnlyTheHandle DEF HandleStep, RtClose
<1>8. CASE /\ TexturesOnly
           /\ \/ \E kind, name : \E with \in BOOLEAN : LoadAsync(kind, name, with)
              \/ \E x : ChangeTexture(x) \/ ChangeCubemap(x)
  BY <1>8, TexturesKeep, TexturesIsOthers DEF HandleStep, ServiceInv
<1> QED  BY <1>1, <1>2, <1>3, <1>4, <1>5, <1>6, <1>7, <1>8 DEF Script

LEMMA FramesAreHandleStep ==
    ASSUME OwnInv, FrameInv, ServiceInv, HttpInv, ProcInv, ScriptWithChildren \/ Frames
    PROVE  HandleStep
<1>1. CASE ScriptWithChildren
  <2>1. ProcessOnly /\ \/ \E late, id : ProcessRead(id, late) \/ ProcessWait(id, late)
                       \/ \E max, late, gone : ProcessPollCall(max, late, gone)
    BY <1>1 DEF ScriptWithChildren
  <2> QED  BY <2>1, ProcessKeeps, ProcessIsOthers DEF HandleStep
<1>2. CASE Frames
  <2>1. CASE HttpDispatch /\ HttpOnly  BY <2>1, HttpKeeps, HttpIsOthers DEF HandleStep
  <2>2. CASE JobsDispatch /\ JobsOnly  BY <2>2, JobsKeep, JobsIsOthers DEF HandleStep
  <2>3. CASE SshDispatch /\ SshOnly  BY <2>3, SshKeeps, SshIsOthers DEF HandleStep
  <2>4. CASE /\ \E late \in SUBSET Processes :
                   \E order \in UNION {[1..n -> Processes] : n \in 0..MaxProcesses} :
                       ProcessDispatch(late, order)
             /\ ProcessOnly
    BY <2>4, ProcessKeeps, ProcessIsOthers DEF HandleStep
  <2>5. CASE (\E max \in {0, 1} : ScriptDispatch(max)) /\ CallbacksOnly
    BY <2>5, ScriptsKeep, CallbacksIsOthers DEF HandleStep
  <2>6. CASE ResourcesFrame /\ TexturesOnly
    BY <2>6, TexturesKeep, TexturesIsOthers DEF HandleStep, ServiceInv
  <2> QED  BY <1>2, <2>1, <2>2, <2>3, <2>4, <2>5, <2>6 DEF Frames
<1> QED  BY <1>1, <1>2

LEMMA RestIsHandleStep ==
    ASSUME OwnInv, FrameInv, ServiceInv, HttpInv, ProcInv,
           Continue \/ Threads \/ EngineShutdown \/ RuntimeEnds \/ UNCHANGED vars
    PROVE  HandleStep
<1>1. CASE Continue
  <2>1. CASE (CallNext \/ EndDispatch) /\ CallbacksOnly
    BY <2>1, OnlyTheHandle DEF HandleStep, CallNext, EndDispatch
  <2>2. CASE (SshHandle \/ SshHandled \/ SshDispatched) /\ SshOnly
    BY <2>2, SshKeeps, SshIsOthers DEF HandleStep
  <2>3. CASE (RtJoined \/ RtDrain \/ RtClosed) /\ RealtimeOnly
    <3>1. UNCHANGED own  BY <2>3 DEF RtJoined, RtDrain, RtClosed, Post, cbVars
    <3> QED  BY <2>3, <3>1, OnlyTheHandle DEF HandleStep
  <2> QED  BY <1>1, <2>1, <2>2, <2>3 DEF Continue
<1>2. CASE Threads
  <2>1. CASE HttpOnly /\ ((\E t \in HttpThreads : HttpStreamChunk(t)) \/ UNCHANGED <<cbVars, lhVars>>)
    BY <2>1, HttpKeeps, HttpIsOthers DEF HandleStep
  <2>2. CASE (\E id \in Jobs : JobFinish(id)) /\ JobsOnly
    BY <2>2, JobsKeep, JobsIsOthers DEF HandleStep
  <2>3. CASE (\E op \in Ops, last \in BOOLEAN : SshEmit(op, last)) /\ SshOnly
    BY <2>3, SshKeeps, SshIsOthers DEF HandleStep
  <2>4. CASE (\E id \in Processes : ChildExit(id)) /\ ProcessOnly
    BY <2>4, ProcessKeeps, ProcessIsOthers DEF HandleStep
  <2>5. CASE (\E id \in Loads, ok \in BOOLEAN : LoadFinish(id, ok)) /\ TexturesOnly
    BY <2>5, TexturesKeep, TexturesIsOthers DEF HandleStep, ServiceInv
  <2>6. CASE ((\E name \in Names : RtTell(name)) \/ RtPost \/ RtExit) /\ RealtimeOnly
    <3>1. UNCHANGED own  BY <2>6 DEF RtTell, RtPost, RtExit, Post, cbVars
    <3> QED  BY <2>6, <3>1, OnlyTheHandle DEF HandleStep
  <2> QED  BY <1>2, <2>1, <2>2, <2>3, <2>4, <2>5, <2>6 DEF Threads
<1>3. CASE EngineShutdown
  BY <1>3 DEF HandleStep
<1>4. CASE RuntimeEnds
  <2>1. CASE HttpOnly /\ (HttpDrop \/ UNCHANGED <<cbVars, lhVars>>)
    BY <2>1, HttpKeeps, HttpIsOthers DEF HandleStep
  <2>2. CASE RtClose(FALSE) /\ RealtimeOnly
    <3>1. UNCHANGED own  BY <2>2 DEF RtClose
    <3> QED  BY <2>2, <3>1, OnlyTheHandle DEF HandleStep
  <2> QED  BY <1>4, <2>1, <2>2 DEF RuntimeEnds
<1>5. CASE UNCHANGED vars
  <2>1. UNCHANGED <<cbVars, lhVars>> /\ HttpOnly  BY <1>5 DEF vars, HttpOnly
  <2> QED  BY <2>1, HttpKeeps, HttpIsOthers DEF HandleStep
<1> QED  BY <1>1, <1>2, <1>3, <1>4, <1>5

-----------------------------------------------------------------------------
(* The queues of the services stay in order.                               *)

LEMMA HttpSeqsNext == HttpSeqs /\ HttpInv /\ [Next]_vars => HttpSeqs'
<1> SUFFICES ASSUME HttpSeqs, HttpInv, [Next]_vars PROVE HttpSeqs'
  OBVIOUS
<1>1. IsSeq(completed) /\ http_next <= MaxRequests + 1 /\ http_next \in Nat
  BY DEF HttpSeqs, HttpInv
<1>2. IsSeq(completed') /\ http_next' <= MaxRequests + 1
  <2>1. HttpStep  BY NextIsHttpStep
  <2>2. CASE HttpSubmit
    <3>1. http_next \in 1..MaxRequests /\ http_next' = http_next + 1 /\ completed' = completed
      BY <2>2 DEF HttpSubmit, Requests
    <3> QED  BY <1>1, <3>1, HttpBounds
  <2>3. ASSUME NEW max \in Nat, HttpPoll(max)
        PROVE  IsSeq(completed') /\ http_next' <= MaxRequests + 1
    <3>1. /\ completed' = SubSeq(completed, Len(HttpPolled(max)) + 1, Len(completed))
          /\ http_next' = http_next
      BY <2>3 DEF HttpPoll
    <3>2. Len(HttpPolled(max)) \in Nat /\ Len(completed) \in Nat  BY <1>1, PolledIs, SeqIs
    <3>3. IsSeq(SubSeq(completed, Len(HttpPolled(max)) + 1, Len(completed)))
      <4>1. Len(HttpPolled(max)) + 1 \in Nat \ {0}  BY <3>2
      <4> QED  BY <1>1, <3>2, <4>1, SubSeqIs
    <3> QED  BY <1>1, <3>1, <3>3
  <2>4. ASSUME NEW r, completed' = Append(completed, r), http_next' = http_next
        PROVE  IsSeq(completed') /\ http_next' <= MaxRequests + 1
    BY <1>1, <2>4, AppendIs
  <2>5. CASE UNCHANGED <<completed, http_next>>  BY <1>1, <2>5
  <2>6. \/ HttpSubmit
        \/ \E max \in Nat : HttpPoll(max)
        \/ http_next' = http_next /\ \E r : completed' = Append(completed, r)
        \/ UNCHANGED <<completed, http_next>>
    BY <2>1 DEF HttpStep, HttpCancel, HttpTake, HttpChunk, HttpForget, HttpExit, HttpAnswer,
                HttpStop, HttpJoined, hcVars
  <2> QED  BY <2>2, <2>3, <2>4, <2>5, <2>6
<1>3. DOMAIN chunk_callback' = Requests
  <2>1. DOMAIN chunk_callback = Requests  BY DEF HttpSeqs
  <2>2. \/ UNCHANGED chunk_callback
        \/ \E id, cb : chunk_callback' = [chunk_callback EXCEPT ![id] = cb]
    <3>1. CASE Script
      BY <3>1 DEF Script, HttpRequest, HttpCancelCall, HttpPollCall, GiveOut, JobsOnly, SshOnly,
         ProcessOnly, RealtimeOnly, CallbacksOnly, TexturesOnly, lhVars
    <3>2. CASE ScriptWithChildren  BY <3>2 DEF ScriptWithChildren, ProcessOnly, lhVars
    <3>3. CASE Frames
      BY <3>3 DEF Frames, HttpDispatch, GiveOut, JobsOnly, SshOnly, ProcessOnly,
         CallbacksOnly, TexturesOnly, lhVars
    <3>4. CASE Continue  BY <3>4 DEF Continue, SshOnly, RealtimeOnly, CallbacksOnly, lhVars
    <3>5. CASE Threads
      BY <3>5 DEF Threads, HttpStreamChunk, JobsOnly, SshOnly, ProcessOnly, RealtimeOnly,
         TexturesOnly, lhVars
    <3>6. CASE EngineShutdown  BY <3>6 DEF EngineShutdown, lhVars
    <3>7. CASE RuntimeEnds  BY <3>7 DEF RuntimeEnds, HttpDrop, RealtimeOnly, lhVars
    <3>8. CASE UNCHANGED vars  BY <3>8 DEF vars, lhVars
    <3> QED  BY <3>1, <3>2, <3>3, <3>4, <3>5, <3>6, <3>7, <3>8 DEF Next
  <2> QED  BY <2>1, <2>2
<1> QED  BY <1>2, <1>3 DEF HttpSeqs, Requests

LEMMA JobSeqsNext == IsSeq(job_results) /\ [Next]_vars => IsSeq(job_results')
<1> SUFFICES ASSUME IsSeq(job_results), [Next]_vars PROVE IsSeq(job_results')
  OBVIOUS
<1>1. \/ UNCHANGED job_results
      \/ \E id : job_results' = Append(job_results, id)
      \/ \E max \in {0, 1} :
            job_results' = SubSeq(job_results, Len(JobsTaken(max)) + 1, Len(job_results))
  <2>1. CASE Script
    BY <2>1 DEF Script, JobSubmit, JobsPollCall, TakeJobs, HttpOnly, SshOnly, ProcessOnly,
       RealtimeOnly, CallbacksOnly, TexturesOnly, ljVars
  <2>2. CASE ScriptWithChildren  BY <2>2 DEF ScriptWithChildren, ProcessOnly, ljVars
  <2>3. CASE Frames
    BY <2>3 DEF Frames, JobsDispatch, TakeJobs, HttpOnly, SshOnly, ProcessOnly,
       CallbacksOnly, TexturesOnly, ljVars
  <2>4. CASE Continue  BY <2>4 DEF Continue, SshOnly, RealtimeOnly, CallbacksOnly, ljVars
  <2>5. CASE Threads
    BY <2>5 DEF Threads, JobFinish, HttpOnly, SshOnly, ProcessOnly, RealtimeOnly,
       TexturesOnly, ljVars
  <2>6. CASE EngineShutdown  BY <2>6 DEF EngineShutdown
  <2>7. CASE RuntimeEnds  BY <2>7 DEF RuntimeEnds, HttpOnly, RealtimeOnly, ljVars
  <2>8. CASE UNCHANGED vars  BY <2>8 DEF vars, ljVars
  <2> QED  BY <2>1, <2>2, <2>3, <2>4, <2>5, <2>6, <2>7, <2>8 DEF Next
<1>2. ASSUME NEW max \in {0, 1},
             job_results' = SubSeq(job_results, Len(JobsTaken(max)) + 1, Len(job_results))
      PROVE  IsSeq(job_results')
  <2>1. Len(JobsTaken(max)) \in Nat /\ Len(job_results) \in Nat  BY JobsTakenIs, SeqIs
  <2>2. IsSeq(SubSeq(job_results, Len(JobsTaken(max)) + 1, Len(job_results)))
    <3>1. Len(JobsTaken(max)) + 1 \in Nat \ {0}  BY <2>1
    <3> QED  BY <2>1, <3>1, SubSeqIs
  <2> QED  BY <1>2, <2>2
<1>3. ASSUME NEW id, job_results' = Append(job_results, id)
      PROVE  IsSeq(job_results')
  BY <1>3, AppendIs
<1>4. CASE UNCHANGED job_results
  BY <1>4
<1> QED  BY <1>1, <1>2, <1>3, <1>4

LEMMA LoadSeqsNext == OwnInv /\ FrameInv /\ LoadSeqs /\ [Next]_vars => LoadSeqs'
<1> SUFFICES ASSUME OwnInv, FrameInv, LoadSeqs, [Next]_vars PROVE LoadSeqs'
  OBVIOUS
<1>1. CASE \/ \E kind, name : \E with \in BOOLEAN : LoadAsync(kind, name, with)
           \/ \E x : ChangeTexture(x) \/ ChangeCubemap(x)
           \/ \E id \in Loads, ok \in BOOLEAN : LoadFinish(id, ok)
           \/ ResourcesFrame
  BY <1>1, TexturesKeep
<1>2. CASE UNCHANGED ltVars
  BY <1>2 DEF ltVars, LoadSeqs, LoadNames
<1>3. CASE EngineShutdown
  <2>1. /\ UNCHANGED loads /\ pending_loads' = {} /\ load_results' = <<>>
        /\ texture_uploads' = <<>> /\ cubemap_uploads' = <<>>
    BY <1>3 DEF EngineShutdown, ResourcesClear
  <2> QED  BY <2>1, EmptyIsSeq DEF LoadSeqs, LoadNames
<1>4. CASE Script
  BY <1>1, <1>2, <1>4 DEF Script, HttpOnly, JobsOnly, SshOnly, ProcessOnly, RealtimeOnly,
     CallbacksOnly
<1>5. CASE ScriptWithChildren
  BY <1>2, <1>5 DEF ScriptWithChildren, ProcessOnly
<1>6. CASE Frames
  BY <1>1, <1>2, <1>6 DEF Frames, HttpOnly, JobsOnly, SshOnly, ProcessOnly, CallbacksOnly
<1>7. CASE Continue
  BY <1>2, <1>7 DEF Continue, SshOnly, RealtimeOnly, CallbacksOnly
<1>8. CASE Threads
  BY <1>1, <1>2, <1>8 DEF Threads, HttpOnly, JobsOnly, SshOnly, ProcessOnly, RealtimeOnly
<1>9. CASE RuntimeEnds
  BY <1>2, <1>9 DEF RuntimeEnds, HttpOnly, RealtimeOnly
<1>10. CASE UNCHANGED vars
  BY <1>2, <1>10 DEF vars
<1> QED  BY <1>3, <1>4, <1>5, <1>6, <1>7, <1>8, <1>9, <1>10 DEF Next

-----------------------------------------------------------------------------
RealtimeInv == HandleInv /\ ServiceInv /\ HttpInv /\ ProcInv

LEMMA RealtimeInvInit == Init => RealtimeInv
<1> SUFFICES ASSUME Init PROVE RealtimeInv
  OBVIOUS
<1>1. /\ next_id = 1 /\ registry = {} /\ deferred = {} /\ retired = {} /\ queue = <<>>
      /\ stack = <<>> /\ own = {} /\ called = [cb \in Callbacks |-> <<>>]
      /\ callback_ids = <<>> /\ stream_callback_ids = <<>>
      /\ chunk_callback = [id \in Requests |-> NoCallback]
      /\ job_callbacks = <<>> /\ callback_by_operation = <<>> /\ processes = <<>>
      /\ loads = <<>>
      /\ rt_ids = <<>> /\ rt_live = <<>> /\ rt_silenced = <<>> /\ rt_close = "open"
  BY DEF Init, CbInit, LhInit, LjInit, LsInit, LpInit, LrInit, LtInit
<1>2. OwnInv
  <2>1. HttpIds \subseteq {NoCallback}  BY <1>1 DEF HttpIds, Values
  <2>2. /\ Values(job_callbacks) = {} /\ Values(callback_by_operation) = {}
        /\ ProcessIds = {} /\ LoadIds = {} /\ SshFrames = {}
    BY <1>1 DEF Values, ProcessIds, LoadIds, SshFrames
  <2>3. Foreign = {NoCallback} /\ Mine = {}  BY <1>1, <2>1, <2>2 DEF Foreign, TableIds, Mine, Ids
  <2> QED  BY <1>1, <2>3, CallbackBounds DEF OwnInv, NoCallback
<1>3. FrameInv
  BY <1>1, EmptyIsSeq DEF FrameInv
<1>4. CloseInv /\ SilentInv
  BY <1>1 DEF CloseInv, SilentInv, Ids
<1>5. ServiceInv
  <2>1. HttpSeqs  BY <1>1, EmptyIsSeq, HttpBounds DEF Init, HcInit, HttpSeqs
  <2>2. LoadSeqs  BY EmptyIsSeq DEF Init, LtInit, LoadSeqs, LoadNames
  <2>3. IsSeq(job_results)  BY EmptyIsSeq DEF Init, LjInit
  <2> QED  BY <2>1, <2>2, <2>3 DEF ServiceInv
<1> QED  BY <1>2, <1>3, <1>4, <1>5, HttpInvInit, ProcInvInit DEF RealtimeInv, HandleInv

LEMMA RealtimeInvNext == RealtimeInv /\ [Next]_vars => RealtimeInv'
<1> SUFFICES ASSUME RealtimeInv, [Next]_vars PROVE RealtimeInv'
  OBVIOUS
<1>1. HandleInv /\ ServiceInv /\ HttpInv /\ ProcInv /\ OwnInv /\ FrameInv
  BY DEF RealtimeInv, HandleInv
<1>2. HandleStep
  BY <1>1, ScriptIsHandleStep, FramesAreHandleStep, RestIsHandleStep DEF Next
<1>3. HandleInv'
  BY <1>1, <1>2, HandleInvStep
<1>4. ServiceInv'
  BY <1>1, HttpSeqsNext, JobSeqsNext, LoadSeqsNext DEF ServiceInv
<1> QED  BY <1>1, <1>3, <1>4, HttpInvNext, ProcInvNext DEF RealtimeInv

\* Once close of a realtime handle has returned, none of the callbacks it had is
\* called any more, whatever batches of other dispatches close was called in;
\* and when close, not the destructor, ended a server that ran, its "stopped"
\* callback was called (close_impl, retire_ids, lua_callbacks_dispatch_ids).
THEOREM ClosedHandlesAreSilent == Spec => []ClosedIsSilent
<1>1. RealtimeInv => ClosedIsSilent
  <2> SUFFICES ASSUME RealtimeInv PROVE ClosedIsSilent  OBVIOUS
  <2>1. IsSeq(queue) /\ SilentInv  BY DEF RealtimeInv, HandleInv, FrameInv
  <2>2. \A i \in DOMAIN queue : queue[i] \in ToSet(queue)  BY <2>1, SeqIs
  <2>3. SilentOnceClosed  BY <2>1, <2>2 DEF SilentOnceClosed, SilentInv
  <2>4. StoppedIsTold  BY <2>1 DEF SilentInv, StoppedIsTold
  <2> QED  BY <2>3, <2>4 DEF ClosedIsSilent
<1> QED  BY RealtimeInvInit, RealtimeInvNext, <1>1, PTL DEF Spec

-----------------------------------------------------------------------------
(* The order of events.  An event that is enqueued has a higher number     *)
(* than all that its callback was told or has yet to be told.              *)

-----------------------------------------------------------------------------
(* Events on their way, q being the queue, s the stack and c what the      *)
(* callbacks were called with.                                             *)

BatchesOf(s) == {p \in DOMAIN s : s[p].kind = "dispatch"}
WaitsIn(q, s) == ToSet(q) \cup UNION {ToSet(s[p].rest) : p \in BatchesOf(s)}
HeardIn(c) == UNION {{Item(cb, c[cb][k].ev) : k \in DOMAIN c[cb]} : cb \in Callbacks}
AllIn(q, s, c) == WaitsIn(q, s) \cup HeardIn(c)

\* How many dispatches are begun in the frames up to p.
DepthTo(s, p) == Cardinality({i \in 1..p : s[i].kind = "dispatch"})

\* The events of one callback are in ascending order.
Earlier(x, y) == x.cb = y.cb => x.ev.n < y.ev.n
Precedes(A, B) == \A x \in A, y \in B : Earlier(x, y)
Ascending(s) == \A i, j \in DOMAIN s : i < j => Earlier(s[i], s[j])

\* x, which its callback has heard, before an event of number n that is
\* dispatched at a depth.
Heeds(x, n, depth) == x.ev.n < n \/ (x.ev.n > n /\ x.depth > depth)

Sequenced(q, s, c) ==
    /\ IsSeq(q) /\ IsSeq(s)
    /\ \A p \in BatchesOf(s) : IsSeq(s[p].rest)
    /\ DOMAIN c = Callbacks /\ \A cb \in Callbacks : IsSeq(c[cb])

Numbered(q, s, c) ==
    /\ \A e \in WaitsIn(q, s) : e.ev.n \in Int
    /\ \A cb \in Callbacks : \A k \in DOMAIN c[cb] : c[cb][k].ev.n \in Int /\ c[cb][k].depth \in Nat

InLine(q, s) ==
    /\ Ascending(q)
    /\ \A p \in BatchesOf(s) : /\ Ascending(s[p].rest)
                               /\ Precedes(ToSet(s[p].rest), ToSet(q))
    /\ \A p, r \in BatchesOf(s) : p < r => Precedes(ToSet(s[p].rest), ToSet(s[r].rest))

Heeded(q, s, c) ==
    \A cb \in Callbacks : \A k \in DOMAIN c[cb] :
        /\ \A e \in ToSet(q) : e.cb = cb => c[cb][k].ev.n < e.ev.n
        /\ \A p \in BatchesOf(s) : \A e \in ToSet(s[p].rest) :
              e.cb = cb => Heeds(c[cb][k], e.ev.n, DepthTo(s, p))
        /\ \A l \in DOMAIN c[cb] :
              k < l => Heeds(c[cb][k], c[cb][l].ev.n, c[cb][l].depth)

Order(q, s, c) == Sequenced(q, s, c) /\ Numbered(q, s, c) /\ InLine(q, s) /\ Heeded(q, s, c)

\* Each item of A is in B.
Like(A, B) == \A x \in A : \E y \in B : x.cb = y.cb /\ x.ev = y.ev

\* All events of cb have lower numbers than n; there is none.
FreshIn(A, cb, n) == \A e \in A : e.cb = cb => e.ev.n < n
UntoldIn(A, cb) == \A e \in A : e.cb # cb

-----------------------------------------------------------------------------
(* Ascending sequences, and depths.                                        *)

LEMMA AscendingAt ==
    ASSUME NEW q, IsSeq(q), Ascending(q), NEW S \in SUBSET DOMAIN q
    PROVE  Ascending(At(q, S))
<1>1. /\ Cardinality(S) \in Nat
      /\ \E at \in [1..Cardinality(S) -> S] :
            /\ At(q, S) = [k \in 1..Cardinality(S) |-> q[at[k]]]
            /\ \A k, l \in 1..Cardinality(S) : k < l => at[k] < at[l]
            /\ \A i \in S : \E k \in 1..Cardinality(S) : at[k] = i
  BY AtRises
<1> DEFINE n == Cardinality(S)
<1>2. \E at \in [1..n -> S] :
            /\ At(q, S) = [k \in 1..n |-> q[at[k]]]
            /\ \A k, l \in 1..n : k < l => at[k] < at[l]
            /\ \A i \in S : \E k \in 1..n : at[k] = i
  BY <1>1
<1> HIDE DEF n
<1>3. PICK at \in [1..n -> S] :
            /\ At(q, S) = [k \in 1..n |-> q[at[k]]]
            /\ \A k, l \in 1..n : k < l => at[k] < at[l]
  BY <1>2
<1>4. DOMAIN At(q, S) = 1..n /\ \A k \in 1..n : At(q, S)[k] = q[at[k]] /\ at[k] \in DOMAIN q
  BY <1>3
<1> QED  BY <1>3, <1>4 DEF Ascending

LEMMA AscendingTail ==
    ASSUME NEW s, IsSeq(s), Ascending(s), s # <<>>
    PROVE  Ascending(Tail(s)) /\ Precedes({Head(s)}, ToSet(Tail(s)))
<1>1. Len(s) \in Nat /\ s \in Seq(ToSet(s)) /\ DOMAIN s = 1..Len(s)
  BY SeqIs
<1>2. /\ Len(s) \in Nat \ {0} /\ Tail(s) \in Seq(ToSet(s)) /\ Len(Tail(s)) = Len(s) - 1
      /\ \A i \in 1..Len(Tail(s)) : Tail(s)[i] = s[i + 1]
      /\ Head(s) = s[1]
  BY <1>1, EmptySeq, HeadTailProperties
<1>3. DOMAIN Tail(s) = 1..(Len(s) - 1)
  BY <1>2
<1>4. \A i, j \in 1..(Len(s) - 1) : i < j => Earlier(Tail(s)[i], Tail(s)[j])
  <2> SUFFICES ASSUME NEW i \in 1..(Len(s) - 1), NEW j \in 1..(Len(s) - 1), i < j
               PROVE  Earlier(Tail(s)[i], Tail(s)[j])
    OBVIOUS
  <2>1. i + 1 \in 1..Len(s) /\ j + 1 \in 1..Len(s) /\ i + 1 < j + 1  BY <1>2
  <2>2. Tail(s)[i] = s[i + 1] /\ Tail(s)[j] = s[j + 1]  BY <1>2
  <2> QED  BY <1>1, <2>1, <2>2 DEF Ascending
<1>5. \A i \in 1..(Len(s) - 1) : Earlier(Head(s), Tail(s)[i])
  <2> SUFFICES ASSUME NEW i \in 1..(Len(s) - 1)
               PROVE  Earlier(Head(s), Tail(s)[i])
    OBVIOUS
  <2>1. i + 1 \in 1..Len(s) /\ 1 \in 1..Len(s) /\ 1 < i + 1  BY <1>2
  <2>2. Tail(s)[i] = s[i + 1]  BY <1>2
  <2> QED  BY <1>1, <1>2, <2>1, <2>2 DEF Ascending
<1> QED  BY <1>3, <1>4, <1>5 DEF Ascending, Precedes, ToSet

LEMMA AscendingConcat ==
    ASSUME NEW s, NEW t, IsSeq(s), IsSeq(t), Ascending(s), Ascending(t),
           Precedes(ToSet(s), ToSet(t))
    PROVE  Ascending(s \o t)
<1> DEFINE S == ToSet(s) \cup ToSet(t)
<1>1. s \in Seq(S) /\ t \in Seq(S)
  BY SeqIs, SeqMonotonic
<1>2. /\ s \o t \in Seq(S) /\ Len(s \o t) = Len(s) + Len(t)
      /\ \A i \in 1..Len(s) + Len(t) :
            (s \o t)[i] = IF i <= Len(s) THEN s[i] ELSE t[i - Len(s)]
  BY <1>1, ConcatProperties
<1>3. /\ Len(s) \in Nat /\ Len(t) \in Nat
      /\ DOMAIN s = 1..Len(s) /\ DOMAIN t = 1..Len(t)
      /\ DOMAIN (s \o t) = 1..Len(s) + Len(t)
  BY <1>2, SeqIs
<1>4. ASSUME NEW i \in 1..Len(s) + Len(t), NEW j \in 1..Len(s) + Len(t), i < j
      PROVE  Earlier((s \o t)[i], (s \o t)[j])
  <2>1. CASE j <= Len(s)
    <3>1. i \in DOMAIN s /\ j \in DOMAIN s /\ (s \o t)[i] = s[i] /\ (s \o t)[j] = s[j]
      BY <1>2, <1>3, <1>4, <2>1
    <3> QED  BY <1>4, <3>1 DEF Ascending
  <2>2. CASE ~(i <= Len(s))
    <3>1. i - Len(s) \in DOMAIN t /\ j - Len(s) \in DOMAIN t /\ i - Len(s) < j - Len(s)
      BY <1>3, <1>4, <2>2
    <3>2. (s \o t)[i] = t[i - Len(s)] /\ (s \o t)[j] = t[j - Len(s)]  BY <1>2, <1>3, <1>4, <2>2
    <3> QED  BY <3>1, <3>2 DEF Ascending
  <2>3. CASE i <= Len(s) /\ ~(j <= Len(s))
    <3>1. i \in DOMAIN s /\ j - Len(s) \in DOMAIN t  BY <1>3, <1>4, <2>3
    <3>2. (s \o t)[i] = s[i] /\ (s \o t)[j] = t[j - Len(s)]  BY <1>2, <1>3, <1>4, <2>3
    <3> QED  BY <3>1, <3>2 DEF Precedes, ToSet
  <2> QED  BY <1>3, <1>4, <2>1, <2>2, <2>3
<1> QED  BY <1>3, <1>4 DEF Ascending

LEMMA DepthToIs ==
    ASSUME NEW s, NEW p \in Nat
    PROVE  /\ DepthTo(s, p) \in Nat
           /\ p > 0 => DepthTo(s, p) = DepthTo(s, p - 1) + (IF s[p].kind = "dispatch" THEN 1 ELSE 0)
           /\ \A r \in Nat : p <= r => DepthTo(s, p) <= DepthTo(s, r)
           /\ \A r \in Nat : p < r /\ s[r].kind = "dispatch" => DepthTo(s, p) < DepthTo(s, r)
<1> DEFINE D(n) == {i \in 1..n : s[i].kind = "dispatch"}
<1>1. \A n \in Nat : IsFiniteSet(D(n)) /\ Cardinality(D(n)) \in Nat
  <2> SUFFICES ASSUME NEW n \in Nat PROVE IsFiniteSet(D(n)) /\ Cardinality(D(n)) \in Nat  OBVIOUS
  <2>1. IsFiniteSet(1..n) /\ D(n) \subseteq 1..n  BY FS_Interval
  <2> QED  BY <2>1, FS_Subset, FS_CardinalityType
<1>2. p > 0 => D(p) = IF s[p].kind = "dispatch" THEN D(p - 1) \cup {p} ELSE D(p - 1)
  OBVIOUS
<1>3. p > 0 => p \notin D(p - 1) /\ p - 1 \in Nat
  OBVIOUS
<1>4. \A r \in Nat : p <= r => D(p) \subseteq D(r)
  OBVIOUS
<1>5. \A r \in Nat : p < r /\ s[r].kind = "dispatch" => D(p) \subseteq D(r) /\ D(p) # D(r)
  <2>1. \A r \in Nat : p < r /\ s[r].kind = "dispatch" => r \in D(r) /\ r \notin D(p)  OBVIOUS
  <2>2. \A r \in Nat : p < r => p <= r  OBVIOUS
  <2> HIDE DEF D
  <2> QED  BY <1>4, <2>1, <2>2
<1>6. \A n \in Nat : DepthTo(s, n) = Cardinality(D(n))
  BY DEF DepthTo
<1> HIDE DEF D
<1>7. p > 0 => DepthTo(s, p) = DepthTo(s, p - 1) + (IF s[p].kind = "dispatch" THEN 1 ELSE 0)
  <2> SUFFICES ASSUME p > 0
               PROVE  DepthTo(s, p) = DepthTo(s, p - 1) + (IF s[p].kind = "dispatch" THEN 1 ELSE 0)
    OBVIOUS
  <2>1. IsFiniteSet(D(p - 1)) /\ p \notin D(p - 1) /\ Cardinality(D(p - 1)) \in Nat  BY <1>1, <1>3
  <2>2. Cardinality(D(p - 1) \cup {p}) = Cardinality(D(p - 1)) + 1  BY <2>1, FS_AddElement
  <2>3. DepthTo(s, p) = Cardinality(D(p)) /\ DepthTo(s, p - 1) = Cardinality(D(p - 1))
    BY <1>3, <1>6
  <2>4. CASE s[p].kind = "dispatch"  BY <1>2, <2>1, <2>2, <2>3, <2>4
  <2>5. CASE s[p].kind # "dispatch"  BY <1>2, <2>1, <2>3, <2>5
  <2> QED  BY <2>4, <2>5
<1>8. \A r \in Nat : p <= r => DepthTo(s, p) <= DepthTo(s, r)
  BY <1>1, <1>4, <1>6, FS_Subset
<1>9. \A r \in Nat : p < r /\ s[r].kind = "dispatch" => DepthTo(s, p) < DepthTo(s, r)
  <2> SUFFICES ASSUME NEW r \in Nat, p < r, s[r].kind = "dispatch"
               PROVE  DepthTo(s, p) < DepthTo(s, r)
    OBVIOUS
  <2>1. IsFiniteSet(D(r)) /\ D(p) \subseteq D(r) /\ D(p) # D(r)  BY <1>1, <1>5
  <2>2. Cardinality(D(p)) <= Cardinality(D(r)) /\ Cardinality(D(p)) # Cardinality(D(r))
    BY <2>1, FS_Subset
  <2> QED  BY <1>1, <1>6, <2>2
<1> QED  BY <1>1, <1>6, <1>7, <1>8, <1>9

LEMMA SameDepth ==
    ASSUME NEW s, NEW t, NEW p \in Nat,
           \A i \in 1..p : s[i].kind = "dispatch" <=> t[i].kind = "dispatch"
    PROVE  DepthTo(s, p) = DepthTo(t, p)
<1>1. {i \in 1..p : s[i].kind = "dispatch"} = {i \in 1..p : t[i].kind = "dispatch"}
  OBVIOUS
<1> QED  BY <1>1 DEF DepthTo

LEMMA DepthIsDepthTo ==
    ASSUME NEW s, IsSeq(s)
    PROVE  Depth(s) = DepthTo(s, Len(s))
  BY SeqIs DEF Depth, DepthTo

\* A dispatch takes the earlier ones of the events of a callback.
LEMMA TakenIs ==
    ASSUME NEW q, IsSeq(q), Ascending(q), NEW ids, NEW max \in Nat
    PROVE  /\ TakenAt(q, ids, max) \in SUBSET DOMAIN q
           /\ Precedes({q[i] : i \in TakenAt(q, ids, max)},
                       {q[i] : i \in DOMAIN q \ TakenAt(q, ids, max)})
<1> DEFINE taken == TakenAt(q, ids, max)
           UpTo(i) == {j \in 1..i : q[j].cb \in ids}
<1>1. Len(q) \in Nat /\ DOMAIN q = 1..Len(q)
  BY SeqIs
<1>2. \A i \in DOMAIN q : i \in taken <=> /\ q[i].cb \in ids
                                          /\ max = 0 \/ Cardinality(UpTo(i)) <= max
  BY DEF TakenAt
<1>3. taken \in SUBSET DOMAIN q
  BY DEF TakenAt
<1>4. \A i, j \in DOMAIN q : i <= j => /\ Cardinality(UpTo(i)) <= Cardinality(UpTo(j))
                                       /\ Cardinality(UpTo(i)) \in Nat
                                       /\ Cardinality(UpTo(j)) \in Nat
  <2> SUFFICES ASSUME NEW i \in DOMAIN q, NEW j \in DOMAIN q, i <= j
               PROVE  /\ Cardinality(UpTo(i)) <= Cardinality(UpTo(j))
                      /\ Cardinality(UpTo(i)) \in Nat
                      /\ Cardinality(UpTo(j)) \in Nat
    OBVIOUS
  <2>1. UpTo(i) \subseteq UpTo(j) /\ UpTo(j) \subseteq 1..j /\ IsFiniteSet(1..j)
    <3>1. i \in Nat /\ j \in Nat  BY <1>1
    <3>2. 1..i \subseteq 1..j /\ IsFiniteSet(1..j)  BY <3>1, FS_Interval
    <3> QED  BY <3>2
  <2>2. IsFiniteSet(UpTo(j)) /\ IsFiniteSet(UpTo(i))  BY <2>1, FS_Subset
  <2> HIDE DEF UpTo
  <2> QED  BY <2>1, <2>2, FS_Subset, FS_CardinalityType
<1> HIDE DEF taken, UpTo
<1>5. ASSUME NEW i \in taken, NEW j \in DOMAIN q \ taken
      PROVE  Earlier(q[i], q[j])
  <2> SUFFICES ASSUME q[i].cb = q[j].cb PROVE q[i].ev.n < q[j].ev.n  BY DEF Earlier
  <2>1. q[j].cb \in ids /\ i \in DOMAIN q /\ j \in DOMAIN q /\ i # j  BY <1>2, <1>3
  <2>2. i < j
    <3> SUFFICES ASSUME j <= i PROVE FALSE  BY <1>1, <2>1
    <3>1. max # 0 /\ ~(Cardinality(UpTo(j)) <= max)  BY <1>2, <2>1
    <3>2. Cardinality(UpTo(i)) <= max  BY <1>2, <2>1, <3>1
    <3> QED  BY <1>4, <2>1, <3>1, <3>2
  <2> QED  BY <2>1, <2>2 DEF Ascending, Earlier
<1> QED  BY <1>3, <1>5 DEF Precedes, taken

-----------------------------------------------------------------------------
(* What each kind of step does to events on their way.                     *)

LEMMA AllIs ==
    ASSUME NEW q, NEW s, NEW c
    PROVE  /\ ToSet(q) \subseteq WaitsIn(q, s)
           /\ \A p \in BatchesOf(s) : ToSet(s[p].rest) \subseteq WaitsIn(q, s)
           /\ \A e \in WaitsIn(q, s) : e \in ToSet(q) \/ \E p \in BatchesOf(s) : e \in ToSet(s[p].rest)
           /\ \A cb \in Callbacks : \A k \in DOMAIN c[cb] : Item(cb, c[cb][k].ev) \in HeardIn(c)
           /\ \A e \in HeardIn(c) : \E cb \in Callbacks : \E k \in DOMAIN c[cb] :
                 e = Item(cb, c[cb][k].ev)
           /\ AllIn(q, s, c) = WaitsIn(q, s) \cup HeardIn(c)
  BY DEF WaitsIn, HeardIn, AllIn

\* Some events leave the queue.
LEMMA OrderThinned ==
    ASSUME NEW q, NEW s, NEW c, Order(q, s, c),
           NEW r, IsSeq(r), Ascending(r), ToSet(r) \subseteq ToSet(q)
    PROVE  Order(r, s, c) /\ AllIn(r, s, c) \subseteq AllIn(q, s, c)
<1>1. WaitsIn(r, s) \subseteq WaitsIn(q, s)
  BY DEF WaitsIn
<1>2. Sequenced(r, s, c)
  BY DEF Order, Sequenced
<1>3. Numbered(r, s, c)
  BY <1>1 DEF Order, Numbered
<1>4. InLine(r, s)
  BY DEF Order, InLine, Precedes
<1>5. Heeded(r, s, c)
  BY DEF Order, Heeded
<1> QED  BY <1>1, <1>2, <1>3, <1>4, <1>5 DEF Order, AllIn

\* Events are enqueued that are later than all others of their callbacks.
LEMMA OrderPosted ==
    ASSUME NEW q, NEW s, NEW c, Order(q, s, c),
           NEW items, IsSeq(items), Ascending(items),
           \A e \in ToSet(items) : e.ev.n \in Int /\ FreshIn(AllIn(q, s, c), e.cb, e.ev.n)
    PROVE  /\ Order(q \o items, s, c)
           /\ AllIn(q \o items, s, c) = AllIn(q, s, c) \cup ToSet(items)
<1>1. IsSeq(q) /\ IsSeq(q \o items) /\ ToSet(q \o items) = ToSet(q) \cup ToSet(items)
  BY ConcatIs DEF Order, Sequenced
<1>2. WaitsIn(q \o items, s) = WaitsIn(q, s) \cup ToSet(items)
  BY <1>1 DEF WaitsIn
<1>3. Sequenced(q \o items, s, c)
  BY <1>1 DEF Order, Sequenced
<1>4. Numbered(q \o items, s, c)
  BY <1>2 DEF Order, Numbered
<1>5. \A e \in ToSet(items) : \A x \in AllIn(q, s, c) : Earlier(x, e)
  BY DEF FreshIn, Earlier
<1>6. InLine(q \o items, s)
  <2>1. Precedes(WaitsIn(q, s), ToSet(items))  BY <1>5 DEF Precedes, AllIn
  <2>2. Ascending(q \o items)
    <3>1. Precedes(ToSet(q), ToSet(items))  BY <2>1, AllIs DEF Precedes
    <3> QED  BY <1>1, <3>1, AscendingConcat DEF Order, InLine
  <2>3. \A p \in BatchesOf(s) : Precedes(ToSet(s[p].rest), ToSet(q \o items))
    BY <1>1, <2>1, AllIs DEF Order, InLine, Precedes
  <2> QED  BY <2>2, <2>3 DEF Order, InLine
<1>7. Heeded(q \o items, s, c)
  <2>1. \A cb \in Callbacks : \A k \in DOMAIN c[cb] : \A e \in ToSet(items) :
            e.cb = cb => c[cb][k].ev.n < e.ev.n
    <3> SUFFICES ASSUME NEW cb \in Callbacks, NEW k \in DOMAIN c[cb], NEW e \in ToSet(items),
                        e.cb = cb
                 PROVE  c[cb][k].ev.n < e.ev.n
      OBVIOUS
    <3>1. Item(cb, c[cb][k].ev) \in AllIn(q, s, c)  BY AllIs
    <3> QED  BY <1>5, <3>1 DEF Earlier, Item
  <2> QED  BY <1>1, <2>1 DEF Order, Heeded
<1> QED  BY <1>2, <1>3, <1>4, <1>6, <1>7 DEF Order, AllIn

\* A frame is put on the stack that is no dispatch, or some are taken away, or
\* replaced: batches that are left are where they were.
LEMMA OrderFramed ==
    ASSUME NEW q, NEW s, NEW c, Order(q, s, c), NEW t, IsSeq(t),
           \A p \in BatchesOf(t) : /\ p \in BatchesOf(s) /\ t[p].rest = s[p].rest
                                   /\ DepthTo(t, p) = DepthTo(s, p)
    PROVE  Order(q, t, c) /\ AllIn(q, t, c) \subseteq AllIn(q, s, c)
<1>1. WaitsIn(q, t) \subseteq WaitsIn(q, s)
  <2> SUFFICES ASSUME NEW e \in WaitsIn(q, t) PROVE e \in WaitsIn(q, s)  OBVIOUS
  <2>1. CASE e \in ToSet(q)  BY <2>1, AllIs
  <2>2. ASSUME NEW p \in BatchesOf(t), e \in ToSet(t[p].rest)
        PROVE  e \in WaitsIn(q, s)
    BY <2>2, AllIs
  <2> QED  BY <2>1, <2>2, AllIs
<1>2. Sequenced(q, t, c)
  BY DEF Order, Sequenced
<1>3. Numbered(q, t, c)
  BY <1>1 DEF Order, Numbered
<1>4. InLine(q, t)
  BY DEF Order, InLine
<1>5. Heeded(q, t, c)
  BY DEF Order, Heeded
<1> QED  BY <1>1, <1>2, <1>3, <1>4, <1>5 DEF Order, AllIn

\* A batch is begun with some events of the queue, each before those of its
\* callback that stay in it.
LEMMA OrderTaken ==
    ASSUME NEW q, NEW s, NEW c, Order(q, s, c),
           NEW r, IsSeq(r), Ascending(r), NEW b, IsSeq(b), Ascending(b),
           ToSet(r) \cup ToSet(b) \subseteq ToSet(q), Precedes(ToSet(b), ToSet(r))
    PROVE  LET t == Append(s, Frame("dispatch", b, NoItem))
           IN  Order(r, t, c) /\ AllIn(r, t, c) \subseteq AllIn(q, s, c)
<1> DEFINE f == Frame("dispatch", b, NoItem)
           t == Append(s, f)
           n == Len(s)
<1>1. /\ IsSeq(t) /\ Len(t) = n + 1 /\ t[n + 1] = f /\ \A i \in 1..n : t[i] = s[i]
      /\ n \in Nat /\ DOMAIN s = 1..n /\ DOMAIN t = 1..(n + 1)
  BY AppendIs, SeqIs DEF Order, Sequenced
<1>2. f.kind = "dispatch" /\ f.rest = b
  BY DEF Frame
<1> HIDE DEF t, f, n
<1>3. \A p \in BatchesOf(t) : \/ p \in BatchesOf(s) /\ t[p] = s[p] /\ p \in 1..n
                              \/ p = n + 1 /\ t[p].rest = b
  BY <1>1, <1>2 DEF BatchesOf
<1>4. \A p \in 1..n : DepthTo(t, p) = DepthTo(s, p)
  <2> SUFFICES ASSUME NEW p \in 1..n PROVE DepthTo(t, p) = DepthTo(s, p)  OBVIOUS
  <2>1. p \in Nat /\ \A i \in 1..p : i \in 1..n  BY <1>1
  <2> QED  BY <1>1, <2>1, SameDepth
<1>5. WaitsIn(r, t) \subseteq WaitsIn(q, s)
  <2> SUFFICES ASSUME NEW e \in WaitsIn(r, t) PROVE e \in WaitsIn(q, s)  OBVIOUS
  <2>1. CASE e \in ToSet(r)  BY <2>1, AllIs
  <2>2. ASSUME NEW p \in BatchesOf(t), e \in ToSet(t[p].rest)
        PROVE  e \in WaitsIn(q, s)
    BY <1>3, <2>2, AllIs
  <2> QED  BY <2>1, <2>2, AllIs
<1>6. Sequenced(r, t, c)
  BY <1>1, <1>3 DEF Order, Sequenced
<1>7. Numbered(r, t, c)
  BY <1>5 DEF Order, Numbered
<1>8. InLine(r, t)
  <2>1. \A p \in BatchesOf(t) : Ascending(t[p].rest) /\ Precedes(ToSet(t[p].rest), ToSet(r))
    BY <1>3 DEF Order, InLine, Precedes
  <2>2. ASSUME NEW p \in BatchesOf(t), NEW m \in BatchesOf(t), p < m
        PROVE  Precedes(ToSet(t[p].rest), ToSet(t[m].rest))
    <3>1. p # n + 1  BY <1>1, <1>3, <2>2
    <3>2. p \in BatchesOf(s) /\ t[p] = s[p]  BY <1>3, <3>1
    <3>3. CASE m \in BatchesOf(s) /\ t[m] = s[m]  BY <2>2, <3>2, <3>3 DEF Order, InLine
    <3>4. CASE t[m].rest = b  BY <3>2, <3>4 DEF Order, InLine, Precedes
    <3> QED  BY <1>3, <3>3, <3>4
  <2> QED  BY <2>1, <2>2 DEF InLine
<1>9. Heeded(r, t, c)
  <2> SUFFICES ASSUME NEW cb \in Callbacks, NEW k \in DOMAIN c[cb]
               PROVE  /\ \A e \in ToSet(r) : e.cb = cb => c[cb][k].ev.n < e.ev.n
                      /\ \A p \in BatchesOf(t) : \A e \in ToSet(t[p].rest) :
                            e.cb = cb => Heeds(c[cb][k], e.ev.n, DepthTo(t, p))
                      /\ \A l \in DOMAIN c[cb] :
                            k < l => Heeds(c[cb][k], c[cb][l].ev.n, c[cb][l].depth)
    BY DEF Heeded
  <2>1. \A e \in ToSet(q) : e.cb = cb => c[cb][k].ev.n < e.ev.n  BY DEF Order, Heeded
  <2>2. ASSUME NEW p \in BatchesOf(t), NEW e \in ToSet(t[p].rest), e.cb = cb
        PROVE  Heeds(c[cb][k], e.ev.n, DepthTo(t, p))
    <3>1. CASE p \in BatchesOf(s) /\ t[p] = s[p] /\ p \in 1..n
      BY <1>4, <2>2, <3>1 DEF Order, Heeded
    <3>2. CASE t[p].rest = b  BY <2>1, <2>2, <3>2 DEF Heeds
    <3> QED  BY <1>3, <3>1, <3>2
  <2>3. \A l \in DOMAIN c[cb] : k < l => Heeds(c[cb][k], c[cb][l].ev.n, c[cb][l].depth)
    BY DEF Order, Heeded
  <2> QED  BY <2>1, <2>2, <2>3
<1> QED  BY <1>5, <1>6, <1>7, <1>8, <1>9 DEF Order, AllIn, t, f

\* The callback cb is called, an event being added to what it was told.
LEMMA AppendedIs ==
    ASSUME NEW s, IsSeq(s), NEW x, NEW y, IsSeq(y), Len(y) = Len(s) + 1, y[Len(s) + 1] = x,
           \A i \in 1..Len(s) : y[i] = s[i]
    PROVE  \A k \in DOMAIN y : \/ k \in DOMAIN s /\ y[k] = s[k]
                               \/ k = Len(s) + 1 /\ y[k] = x
<1>1. /\ Len(s) \in Nat /\ DOMAIN s = 1..Len(s) /\ DOMAIN y = 1..(Len(s) + 1)
  <2>1. \A z : IsSeq(z) => Len(z) \in Nat /\ DOMAIN z = 1..Len(z)  BY SeqIs
  <2> QED  BY <2>1
<1>2. \A m \in Nat : \A k \in 1..(m + 1) : k \in 1..m \/ k = m + 1
  OBVIOUS
<1>3. ASSUME NEW k \in DOMAIN y PROVE k \in DOMAIN s \/ k = Len(s) + 1
  BY <1>1, <1>2
<1> QED  BY <1>1, <1>3

\* The next event e of the batch on top, whose rest is r, is handled; x is added
\* to what its callback was told if it is called.
LEMMA OrderCalled ==
    ASSUME NEW q, NEW s, NEW c, Order(q, s, c),
           NEW n \in Nat \ {0}, DOMAIN s = 1..n, s[n].kind = "dispatch",
           NEW e, NEW r, IsSeq(r), Ascending(r),
           ToSet(s[n].rest) = ToSet(r) \cup {e}, Precedes({e}, ToSet(r)),
           NEW t, IsSeq(t), DOMAIN t = 1..n, \A i \in 1..n : i # n => t[i] = s[i],
           t[n].kind = "dispatch", t[n].rest = r,
           NEW x, x.ev = e.ev, x.depth = DepthTo(s, n),
           NEW d, DOMAIN d = Callbacks, \A cb \in Callbacks : IsSeq(d[cb]),
           \A cb \in Callbacks : \A k \in DOMAIN d[cb] :
                 \/ k \in DOMAIN c[cb] /\ d[cb][k] = c[cb][k]
                 \/ cb = e.cb /\ d[cb][k] = x /\ k = Len(c[cb]) + 1
    PROVE  Order(q, t, d) /\ Like(AllIn(q, t, d), AllIn(q, s, c))
<1>1. n \in BatchesOf(s) /\ n \in BatchesOf(t)
  BY DEF BatchesOf
<1>2. \A p \in BatchesOf(t) : \/ p \in BatchesOf(s) /\ t[p] = s[p] /\ p < n
                              \/ p = n /\ t[p].rest = r
  BY DEF BatchesOf
<1>3. \A p \in 1..n : DepthTo(t, p) = DepthTo(s, p)
  <2> SUFFICES ASSUME NEW p \in 1..n PROVE DepthTo(t, p) = DepthTo(s, p)  OBVIOUS
  <2>1. p \in Nat /\ \A i \in 1..p : i \in 1..n  OBVIOUS
  <2>2. \A i \in 1..p : t[i].kind = "dispatch" <=> s[i].kind = "dispatch"  BY <2>1
  <2> QED  BY <2>1, <2>2, SameDepth
<1>4. \A p \in BatchesOf(s) : p < n => DepthTo(s, p) < DepthTo(s, n)
  <2>1. \A p \in BatchesOf(s) : p \in Nat  BY DEF BatchesOf
  <2> QED  BY <2>1, DepthToIs
<1>5. DepthTo(s, n) \in Nat
  BY DepthToIs
<1>6. e \in ToSet(s[n].rest) /\ e \in WaitsIn(q, s)
  BY <1>1, AllIs
<1>7. \A cb \in Callbacks : \A k \in DOMAIN c[cb] : k < Len(c[cb]) + 1 /\ k \in Nat
  <2>1. \A cb \in Callbacks : DOMAIN c[cb] = 1..Len(c[cb]) /\ Len(c[cb]) \in Nat
    <3>1. \A f : IsSeq(f) => DOMAIN f = 1..Len(f) /\ Len(f) \in Nat  BY SeqIs
    <3> QED  BY <3>1 DEF Order, Sequenced
  <2> QED  BY <2>1
<1>8. WaitsIn(q, t) \subseteq WaitsIn(q, s)
  <2> SUFFICES ASSUME NEW y \in WaitsIn(q, t) PROVE y \in WaitsIn(q, s)  OBVIOUS
  <2>1. CASE y \in ToSet(q)  BY <2>1, AllIs
  <2>2. ASSUME NEW p \in BatchesOf(t), y \in ToSet(t[p].rest)
        PROVE  y \in WaitsIn(q, s)
    <3>1. CASE p \in BatchesOf(s) /\ t[p] = s[p]  BY <2>2, <3>1, AllIs
    <3>2. CASE p = n /\ t[p].rest = r
      <4>1. y \in ToSet(s[n].rest)  BY <2>2, <3>2
      <4> QED  BY <1>1, <4>1, AllIs
    <3> QED  BY <1>2, <3>1, <3>2
  <2> QED  BY <2>1, <2>2, AllIs
<1>9. Sequenced(q, t, d)
  BY <1>2 DEF Order, Sequenced
<1>10. Numbered(q, t, d)
  <2>1. e.ev.n \in Int  BY <1>6 DEF Order, Numbered
  <2>2. \A cb \in Callbacks : \A k \in DOMAIN d[cb] : d[cb][k].ev.n \in Int /\ d[cb][k].depth \in Nat
    BY <1>5, <2>1 DEF Order, Numbered
  <2> QED  BY <1>8, <2>2 DEF Order, Numbered
<1>11. InLine(q, t)
  <2>1. \A p \in BatchesOf(t) : p \in BatchesOf(s) /\ ToSet(t[p].rest) \subseteq ToSet(s[p].rest)
    BY <1>1, <1>2
  <2>2. \A p \in BatchesOf(t) : Ascending(t[p].rest)  BY <1>2 DEF Order, InLine
  <2>3. \A p \in BatchesOf(t) : Precedes(ToSet(t[p].rest), ToSet(q))
    BY <2>1 DEF Order, InLine, Precedes
  <2>4. \A p, m \in BatchesOf(t) : p < m => Precedes(ToSet(t[p].rest), ToSet(t[m].rest))
    <3> SUFFICES ASSUME NEW p \in BatchesOf(t), NEW m \in BatchesOf(t), p < m
                 PROVE  Precedes(ToSet(t[p].rest), ToSet(t[m].rest))
      OBVIOUS
    <3>1. Precedes(ToSet(s[p].rest), ToSet(s[m].rest))  BY <2>1 DEF Order, InLine
    <3> QED  BY <2>1, <3>1 DEF Precedes
  <2> QED  BY <2>2, <2>3, <2>4 DEF Order, InLine
<1>12. Heeded(q, t, d)
  <2> SUFFICES ASSUME NEW cb \in Callbacks, NEW k \in DOMAIN d[cb]
               PROVE  /\ \A y \in ToSet(q) : y.cb = cb => d[cb][k].ev.n < y.ev.n
                      /\ \A p \in BatchesOf(t) : \A y \in ToSet(t[p].rest) :
                            y.cb = cb => Heeds(d[cb][k], y.ev.n, DepthTo(t, p))
                      /\ \A l \in DOMAIN d[cb] :
                            k < l => Heeds(d[cb][k], d[cb][l].ev.n, d[cb][l].depth)
    BY DEF Heeded
  <2>1. CASE k \in DOMAIN c[cb] /\ d[cb][k] = c[cb][k]
    <3>1. \A y \in ToSet(q) : y.cb = cb => d[cb][k].ev.n < y.ev.n  BY <2>1 DEF Order, Heeded
    <3>2. \A p \in BatchesOf(s) : \A y \in ToSet(s[p].rest) :
                y.cb = cb => Heeds(d[cb][k], y.ev.n, DepthTo(s, p))
      BY <2>1 DEF Order, Heeded
    <3>3. \A p \in BatchesOf(t) : \A y \in ToSet(t[p].rest) :
                y.cb = cb => Heeds(d[cb][k], y.ev.n, DepthTo(t, p))
      <4> SUFFICES ASSUME NEW p \in BatchesOf(t), NEW y \in ToSet(t[p].rest), y.cb = cb
                   PROVE  Heeds(d[cb][k], y.ev.n, DepthTo(t, p))
        OBVIOUS
      <4>1. p \in BatchesOf(s) /\ p \in 1..n /\ y \in ToSet(s[p].rest)  BY <1>1, <1>2 DEF BatchesOf
      <4> QED  BY <1>3, <3>2, <4>1
    <3>4. ASSUME NEW l \in DOMAIN d[cb], k < l
          PROVE  Heeds(d[cb][k], d[cb][l].ev.n, d[cb][l].depth)
      <4>1. CASE l \in DOMAIN c[cb] /\ d[cb][l] = c[cb][l]  BY <2>1, <3>4, <4>1 DEF Order, Heeded
      <4>2. CASE cb = e.cb /\ d[cb][l] = x
        <5>1. Heeds(d[cb][k], e.ev.n, DepthTo(s, n))  BY <1>1, <1>6, <3>2, <4>2
        <5> QED  BY <4>2, <5>1
      <4> QED  BY <4>1, <4>2
    <3> QED  BY <3>1, <3>3, <3>4
  <2>2. CASE cb = e.cb /\ d[cb][k] = x /\ k = Len(c[cb]) + 1
    <3>1. \A y \in ToSet(q) : y.cb = cb => d[cb][k].ev.n < y.ev.n
      <4>1. Precedes(ToSet(s[n].rest), ToSet(q))  BY <1>1 DEF Order, InLine
      <4> QED  BY <1>6, <2>2, <4>1 DEF Precedes, Earlier
    <3>2. ASSUME NEW p \in BatchesOf(t), NEW y \in ToSet(t[p].rest), y.cb = cb
          PROVE  Heeds(d[cb][k], y.ev.n, DepthTo(t, p))
      <4>1. CASE p \in BatchesOf(s) /\ t[p] = s[p] /\ p < n
        <5>1. Precedes(ToSet(s[p].rest), ToSet(s[n].rest))  BY <1>1, <4>1 DEF Order, InLine
        <5>2. y.ev.n < e.ev.n  BY <1>6, <2>2, <3>2, <4>1, <5>1 DEF Precedes, Earlier
        <5>3. y \in WaitsIn(q, s)  BY <3>2, <4>1, AllIs
        <5>4. y.ev.n \in Int /\ e.ev.n \in Int  BY <1>6, <5>3 DEF Order, Numbered
        <5>5. DepthTo(t, p) < DepthTo(s, n)
          <6>1. p \in 1..n  BY <4>1 DEF BatchesOf
          <6> QED  BY <1>3, <1>4, <4>1, <6>1
        <5>6. DepthTo(t, p) \in Nat
          <6>1. p \in Nat  BY <4>1 DEF BatchesOf
          <6> QED  BY <6>1, DepthToIs
        <5> QED  BY <1>5, <2>2, <5>2, <5>4, <5>5, <5>6 DEF Heeds
      <4>2. CASE p = n /\ t[p].rest = r
        <5>1. e.ev.n < y.ev.n  BY <2>2, <3>2, <4>2 DEF Precedes, Earlier
        <5> QED  BY <2>2, <5>1 DEF Heeds
      <4> QED  BY <1>2, <4>1, <4>2
    <3>3. \A l \in DOMAIN d[cb] : ~(k < l)
      <4>1. Len(c[cb]) \in Nat
        <5>1. \A f : IsSeq(f) => Len(f) \in Nat  BY SeqIs
        <5> QED  BY <5>1 DEF Order, Sequenced
      <4>2. \A l \in DOMAIN d[cb] : l \in Nat /\ l <= Len(c[cb]) + 1  BY <1>7, <4>1
      <4> QED  BY <2>2, <4>1, <4>2
    <3> QED  BY <3>1, <3>2, <3>3
  <2> QED  BY <2>1, <2>2
<1>13. Like(HeardIn(d), AllIn(q, s, c))
  <2> SUFFICES ASSUME NEW y \in HeardIn(d)
               PROVE  \E z \in AllIn(q, s, c) : y.cb = z.cb /\ y.ev = z.ev
    BY DEF Like
  <2>1. PICK cb \in Callbacks : \E k \in DOMAIN d[cb] : y = Item(cb, d[cb][k].ev)  BY AllIs
  <2>2. PICK k \in DOMAIN d[cb] : y = Item(cb, d[cb][k].ev)  BY <2>1
  <2>3. CASE k \in DOMAIN c[cb] /\ d[cb][k] = c[cb][k]
    <3>1. Item(cb, c[cb][k].ev) \in HeardIn(c)  BY <2>3, AllIs
    <3> QED  BY <2>2, <2>3, <3>1 DEF AllIn
  <2>4. CASE cb = e.cb /\ d[cb][k] = x  BY <1>6, <2>2, <2>4 DEF AllIn, Item
  <2> QED  BY <2>3, <2>4
<1> QED  BY <1>8, <1>9, <1>10, <1>11, <1>12, <1>13 DEF Order, AllIn, Like

\* A batch of one event is begun whose callback has no other waiting.
LEMMA OrderHandled ==
    ASSUME NEW q, NEW s, NEW c, Order(q, s, c), NEW n \in Nat, n = Len(s),
           NEW e, e.ev.n \in Int, \A y \in WaitsIn(q, s) : y.cb # e.cb,
           NEW b, IsSeq(b), Ascending(b), ToSet(b) = {e},
           \A cb \in Callbacks : \A k \in DOMAIN c[cb] :
              cb = e.cb => Heeds(c[cb][k], e.ev.n, DepthTo(s, n) + 1)
    PROVE  LET t == Append(s, Frame("dispatch", b, NoItem))
           IN  Order(q, t, c) /\ AllIn(q, t, c) \subseteq AllIn(q, s, c) \cup {e}
<1> DEFINE f == Frame("dispatch", b, NoItem)
           t == Append(s, f)
<1>1. /\ IsSeq(t) /\ Len(t) = n + 1 /\ t[n + 1] = f /\ \A i \in 1..n : t[i] = s[i]
      /\ DOMAIN s = 1..n /\ DOMAIN t = 1..(n + 1)
  BY AppendIs, SeqIs DEF Order, Sequenced
<1>2. f.kind = "dispatch" /\ f.rest = b
  BY DEF Frame
<1> HIDE DEF t, f
<1>3. \A p \in BatchesOf(t) : \/ p \in BatchesOf(s) /\ t[p] = s[p] /\ p \in 1..n
                              \/ p = n + 1 /\ t[p].rest = b
  BY <1>1, <1>2 DEF BatchesOf
<1>4. \A p \in 1..n : DepthTo(t, p) = DepthTo(s, p)
  <2> SUFFICES ASSUME NEW p \in 1..n PROVE DepthTo(t, p) = DepthTo(s, p)  OBVIOUS
  <2>1. p \in Nat /\ \A i \in 1..p : i \in 1..n  OBVIOUS
  <2> QED  BY <1>1, <2>1, SameDepth
<1>5. DepthTo(t, n + 1) = DepthTo(s, n) + 1
  <2>1. DepthTo(t, n + 1) = DepthTo(t, (n + 1) - 1) + 1  BY <1>1, <1>2, DepthToIs
  <2>2. DepthTo(t, n) = DepthTo(s, n)  BY <1>1, SameDepth
  <2>3. (n + 1) - 1 = n  OBVIOUS
  <2> QED  BY <2>1, <2>2, <2>3
<1>6. WaitsIn(q, t) \subseteq WaitsIn(q, s) \cup {e}
  <2> SUFFICES ASSUME NEW y \in WaitsIn(q, t) PROVE y \in WaitsIn(q, s) \cup {e}  OBVIOUS
  <2>1. CASE y \in ToSet(q)  BY <2>1, AllIs
  <2>2. ASSUME NEW p \in BatchesOf(t), y \in ToSet(t[p].rest)
        PROVE  y \in WaitsIn(q, s) \cup {e}
    BY <1>3, <2>2, AllIs
  <2> QED  BY <2>1, <2>2, AllIs
<1>7. Sequenced(q, t, c)
  BY <1>1, <1>3 DEF Order, Sequenced
<1>8. Numbered(q, t, c)
  BY <1>6 DEF Order, Numbered
<1>9. InLine(q, t)
  <2>1. \A y \in WaitsIn(q, s) : Earlier(e, y) /\ Earlier(y, e)  BY DEF Earlier
  <2>2. \A p \in BatchesOf(t) : Ascending(t[p].rest)  BY <1>3 DEF Order, InLine
  <2>3. \A p \in BatchesOf(t) : Precedes(ToSet(t[p].rest), ToSet(q))
    <3>1. Precedes({e}, ToSet(q))
      <4>1. ToSet(q) \subseteq WaitsIn(q, s)  BY AllIs
      <4> QED  BY <2>1, <4>1 DEF Precedes
    <3>2. \A p \in BatchesOf(s) : Precedes(ToSet(s[p].rest), ToSet(q))  BY DEF Order, InLine
    <3> QED  BY <1>3, <3>1, <3>2
  <2>4. ASSUME NEW p \in BatchesOf(t), NEW m \in BatchesOf(t), p < m
        PROVE  Precedes(ToSet(t[p].rest), ToSet(t[m].rest))
    <3>1. p # n + 1  BY <1>1, <1>3, <2>4
    <3>2. p \in BatchesOf(s) /\ t[p] = s[p]  BY <1>3, <3>1
    <3>3. CASE m \in BatchesOf(s) /\ t[m] = s[m]  BY <2>4, <3>2, <3>3 DEF Order, InLine
    <3>4. CASE t[m].rest = b
      <4>1. \A y \in ToSet(s[p].rest) : Earlier(y, e)  BY <2>1, <3>2, AllIs
      <4> QED  BY <3>2, <3>4, <4>1 DEF Precedes
    <3> QED  BY <1>3, <3>3, <3>4
  <2> QED  BY <2>2, <2>3, <2>4 DEF Order, InLine
<1>10. Heeded(q, t, c)
  <2> SUFFICES ASSUME NEW cb \in Callbacks, NEW k \in DOMAIN c[cb]
               PROVE  /\ \A y \in ToSet(q) : y.cb = cb => c[cb][k].ev.n < y.ev.n
                      /\ \A p \in BatchesOf(t) : \A y \in ToSet(t[p].rest) :
                            y.cb = cb => Heeds(c[cb][k], y.ev.n, DepthTo(t, p))
                      /\ \A l \in DOMAIN c[cb] :
                            k < l => Heeds(c[cb][k], c[cb][l].ev.n, c[cb][l].depth)
    BY DEF Heeded
  <2>1. ASSUME NEW p \in BatchesOf(t), NEW y \in ToSet(t[p].rest), y.cb = cb
        PROVE  Heeds(c[cb][k], y.ev.n, DepthTo(t, p))
    <3>1. CASE p \in BatchesOf(s) /\ t[p] = s[p] /\ p \in 1..n
      BY <1>4, <2>1, <3>1 DEF Order, Heeded
    <3>2. CASE p = n + 1 /\ t[p].rest = b  BY <1>5, <2>1, <3>2
    <3> QED  BY <1>3, <3>1, <3>2
  <2>2. /\ \A y \in ToSet(q) : y.cb = cb => c[cb][k].ev.n < y.ev.n
        /\ \A l \in DOMAIN c[cb] : k < l => Heeds(c[cb][k], c[cb][l].ev.n, c[cb][l].depth)
    BY DEF Order, Heeded
  <2> QED  BY <2>1, <2>2
<1> QED  BY <1>6, <1>7, <1>8, <1>9, <1>10 DEF Order, AllIn, t, f

-----------------------------------------------------------------------------
(* Events of the ssh module, sq being the queue of the service, em how     *)
(* many events each operation has emitted and oc the callbacks of          *)
(* operations.  lua_ssh_dispatch enqueues an event and takes it at once,   *)
(* so that it waits in a batch of its own, the last that was begun.        *)

SshBatchesOf(s) == {p \in DOMAIN s : s[p].kind = "ssh"}
Rises(A, B) == \A x \in A, y \in B : x.op = y.op => x.n < y.n
Rising(s) == \A i, j \in DOMAIN s : i < j /\ s[i].op = s[j].op => s[i].n < s[j].n
Emitted(A, em) == \A e \in A : e.op \in Ops /\ e.n \in Nat \ {0} /\ e.n <= em[e.op]

SshLine(s, sq, em) ==
    /\ \A p \in DOMAIN s : s[p].kind \in {"dispatch", "ssh", "close"}
    /\ IsSeq(sq) /\ Rising(sq) /\ Emitted(ToSet(sq), em)
    /\ \A p \in SshBatchesOf(s) :
          /\ IsSeq(s[p].rest) /\ Rising(s[p].rest) /\ Emitted(ToSet(s[p].rest), em)
          /\ Rises(ToSet(s[p].rest), ToSet(sq))
    /\ \A p, r \in SshBatchesOf(s) :
          p < r => Rises(ToSet(s[p].rest), ToSet(s[r].rest)) /\ DepthTo(s, p) < DepthTo(s, r)

\* An item for op's callback.
SshItem(e, op, oc) == e.cb = oc[op] /\ oc[op] # NoCallback
NoSshItems(A, oc) == \A e \in A, op \in Ops : ~SshItem(e, op, oc)

\* Where an item of op may wait: alone in the batch p.
SshWaitsAt(e, op, p, s, sq, em) ==
    /\ p = Len(s) /\ p > 1 /\ s[p].cur = NoItem /\ s[p - 1].kind = "ssh"
    /\ Len(s[p].rest) = 1
    /\ e.ev.n <= em[op]
    /\ \A x \in ToSet(sq) : x.op = op => e.ev.n < x.n
    /\ \A r \in SshBatchesOf(s) : \A x \in ToSet(s[r].rest) :
          x.op = op => IF r = p - 1 THEN e.ev.n < x.n ELSE e.ev.n > x.n

SshWaits(q, s, sq, em, oc) ==
    /\ NoSshItems(ToSet(q), oc)
    /\ \A p \in BatchesOf(s) : \A e \in ToSet(s[p].rest), op \in Ops :
          SshItem(e, op, oc) => SshWaitsAt(e, op, p, s, sq, em)

SshHeard(s, c, sq, em, oc) ==
    \A op \in Ops : oc[op] # NoCallback =>
        \A k \in DOMAIN c[oc[op]] :
            LET x == c[oc[op]][k]
            IN  /\ x.ev.n <= em[op]
                /\ \A y \in ToSet(sq) : y.op = op => x.ev.n < y.n
                /\ \A r \in SshBatchesOf(s) : \A y \in ToSet(s[r].rest) :
                      y.op = op => Heeds(x, y.n, DepthTo(s, r) + 1)

SshOrder(q, s, c, sq, em, oc) ==
    SshLine(s, sq, em) /\ SshWaits(q, s, sq, em, oc) /\ SshHeard(s, c, sq, em, oc)

\* Events of others are enqueued, or some leave the queue.
LEMMA SshPosted ==
    ASSUME NEW q, NEW s, NEW c, NEW sq, NEW em, NEW oc, SshOrder(q, s, c, sq, em, oc),
           NEW r, NoSshItems(ToSet(r), oc)
    PROVE  SshOrder(r, s, c, sq, em, oc)
  BY DEF SshOrder, SshWaits

\* Frames come and go, with no event of an operation in a batch any more.
LEMMA SshFramed ==
    ASSUME NEW q, NEW s, NEW c, NEW sq, NEW em, NEW oc, SshOrder(q, s, c, sq, em, oc),
           NEW r, NoSshItems(ToSet(r), oc), NEW t,
           \A p \in DOMAIN t : t[p].kind \in {"dispatch", "ssh", "close"},
           \A p \in SshBatchesOf(t) : /\ p \in SshBatchesOf(s) /\ t[p].rest = s[p].rest
                                      /\ DepthTo(t, p) = DepthTo(s, p),
           \A p \in BatchesOf(t) : NoSshItems(ToSet(t[p].rest), oc)
    PROVE  SshOrder(r, t, c, sq, em, oc)
<1>1. SshLine(t, sq, em)
  BY DEF SshOrder, SshLine
<1>2. SshWaits(r, t, sq, em, oc)
  BY DEF SshWaits, NoSshItems
<1>3. SshHeard(t, c, sq, em, oc)
  BY DEF SshOrder, SshHeard
<1> QED  BY <1>1, <1>2, <1>3 DEF SshOrder

\* Unless the batch on top is that of lua_ssh_dispatch and its callback not yet
\* called, no event of an operation waits in a batch.
LEMMA SshQuiet ==
    ASSUME NEW q, NEW s, NEW c, NEW sq, NEW em, NEW oc, SshOrder(q, s, c, sq, em, oc),
           ~(s[Len(s)].kind = "dispatch" /\ s[Len(s)].cur = NoItem)
    PROVE  \A p \in BatchesOf(s) : NoSshItems(ToSet(s[p].rest), oc)
<1> SUFFICES ASSUME NEW p \in BatchesOf(s), NEW e \in ToSet(s[p].rest), NEW op \in Ops,
                    SshItem(e, op, oc)
             PROVE  FALSE
  BY DEF NoSshItems
<1>1. SshWaitsAt(e, op, p, s, sq, em)
  BY DEF SshOrder, SshWaits
<1>2. p = Len(s) /\ s[p].cur = NoItem /\ s[p].kind = "dispatch"
  BY <1>1 DEF SshWaitsAt, BatchesOf
<1> QED  BY <1>2

\* The next event e of the batch on top, n of s, is handled, with t the stack then
\* and r the rest; x is added to what cb was called with.
Handles(s, t, n, e, r) ==
    /\ n = Len(s) /\ DOMAIN s = 1..n /\ s[n].kind = "dispatch"
    /\ ToSet(s[n].rest) = ToSet(r) \cup {e} /\ (Len(s[n].rest) = 1 => ToSet(r) = {})
    /\ DOMAIN t = 1..n /\ (\A i \in 1..n : i # n => t[i] = s[i])
    /\ t[n].kind = "dispatch" /\ t[n].rest = r

CallsWith(c, d, cb, x) ==
    \A b \in Callbacks : \A k \in DOMAIN d[b] :
        \/ k \in DOMAIN c[b] /\ d[b][k] = c[b][k]
        \/ b = cb /\ d[b][k] = x /\ k = Len(c[b]) + 1

LEMMA SshCalled ==
    ASSUME NEW q, NEW s, NEW c, NEW sq, NEW em, NEW oc, SshOrder(q, s, c, sq, em, oc),
           \A op \in Ops : oc[op] \in Callbacks \cup {NoCallback},
           NEW n \in Nat \ {0}, NEW t, NEW e, NEW r, Handles(s, t, n, e, r),
           NEW d, NEW x, CallsWith(c, d, e.cb, x), x.ev = e.ev, x.depth = DepthTo(s, n)
    PROVE  SshOrder(q, t, d, sq, em, oc)
<1> USE DEF Handles, CallsWith
<1>1. n \in BatchesOf(s)
  BY DEF BatchesOf
<1>2. \A p \in BatchesOf(t) : \/ p \in BatchesOf(s) /\ t[p] = s[p] /\ p < n
                              \/ p = n /\ t[p].rest = r
  BY DEF BatchesOf
<1>3. \A p \in SshBatchesOf(t) : p \in SshBatchesOf(s) /\ t[p] = s[p] /\ p \in Nat /\ p < n
  BY DEF SshBatchesOf
<1>4. \A p \in SshBatchesOf(t) : DepthTo(t, p) = DepthTo(s, p)
  <2> SUFFICES ASSUME NEW p \in SshBatchesOf(t) PROVE DepthTo(t, p) = DepthTo(s, p)  OBVIOUS
  <2>1. p \in Nat /\ \A i \in 1..p : t[i] = s[i]  BY <1>3
  <2> QED  BY <2>1, SameDepth
<1>5. SshLine(t, sq, em)
  <2>1. \A p \in DOMAIN t : t[p].kind \in {"dispatch", "ssh", "close"}  BY DEF SshOrder, SshLine
  <2>2. \A p \in SshBatchesOf(t) : p \in SshBatchesOf(s) /\ t[p].rest = s[p].rest  BY <1>3
  <2> QED  BY <1>4, <2>1, <2>2 DEF SshOrder, SshLine
<1>6. SshWaits(q, t, sq, em, oc)
  <2> SUFFICES ASSUME NEW p \in BatchesOf(t), NEW y \in ToSet(t[p].rest), NEW op \in Ops,
                      SshItem(y, op, oc)
               PROVE  FALSE
    BY DEF SshOrder, SshWaits
  <2>1. p \in BatchesOf(s) /\ y \in ToSet(s[p].rest)  BY <1>1, <1>2
  <2>2. p = n /\ Len(s[p].rest) = 1  BY <2>1 DEF SshOrder, SshWaits, SshWaitsAt
  <2> QED  BY <1>2, <2>2
<1>7. SshHeard(t, d, sq, em, oc)
  <2> SUFFICES ASSUME NEW op \in Ops, oc[op] # NoCallback, NEW k \in DOMAIN d[oc[op]]
               PROVE  /\ d[oc[op]][k].ev.n <= em[op]
                      /\ \A y \in ToSet(sq) : y.op = op => d[oc[op]][k].ev.n < y.n
                      /\ \A m \in SshBatchesOf(t) : \A y \in ToSet(t[m].rest) :
                            y.op = op => Heeds(d[oc[op]][k], y.n, DepthTo(t, m) + 1)
    BY DEF SshHeard
  <2> DEFINE cb == oc[op]
  <2>1. cb \in Callbacks  OBVIOUS
  <2>2. CASE k \in DOMAIN c[cb] /\ d[cb][k] = c[cb][k]
    <3>1. /\ c[cb][k].ev.n <= em[op]
          /\ \A y \in ToSet(sq) : y.op = op => c[cb][k].ev.n < y.n
          /\ \A m \in SshBatchesOf(s) : \A y \in ToSet(s[m].rest) :
                y.op = op => Heeds(c[cb][k], y.n, DepthTo(s, m) + 1)
      BY <2>2 DEF SshOrder, SshHeard
    <3> QED  BY <1>3, <1>4, <2>2, <3>1
  <2>3. CASE cb = e.cb /\ d[cb][k] = x
    <3>1. SshItem(e, op, oc)  BY <2>3 DEF SshItem
    <3>2. SshWaitsAt(e, op, n, s, sq, em)  BY <1>1, <3>1 DEF SshOrder, SshWaits
    <3>3. ASSUME NEW m \in SshBatchesOf(t), NEW y \in ToSet(t[m].rest), y.op = op
          PROVE  Heeds(x, y.n, DepthTo(t, m) + 1)
      <4>1. m \in SshBatchesOf(s) /\ y \in ToSet(s[m].rest) /\ DepthTo(t, m) = DepthTo(s, m)
        BY <1>3, <1>4, <3>3
      <4>2. CASE m = n - 1
        <5>1. e.ev.n < y.n  BY <3>2, <3>3, <4>1, <4>2 DEF SshWaitsAt
        <5> QED  BY <5>1 DEF Heeds
      <4>3. CASE m # n - 1
        <5>1. e.ev.n > y.n  BY <3>2, <3>3, <4>1, <4>3 DEF SshWaitsAt
        <5>2. n - 1 \in SshBatchesOf(s) /\ m < n - 1 /\ m \in Nat /\ n - 1 \in Nat
          <6>1. n > 1 /\ s[n - 1].kind = "ssh"  BY <3>2 DEF SshWaitsAt
          <6>2. m < n /\ m \in Nat  BY <1>3
          <6> QED  BY <4>3, <6>1, <6>2 DEF SshBatchesOf
        <5>3. DepthTo(s, m) < DepthTo(s, n - 1)  BY <4>1, <5>2 DEF SshOrder, SshLine
        <5>4. /\ DepthTo(s, n) = DepthTo(s, n - 1) + 1
              /\ DepthTo(s, m) \in Nat /\ DepthTo(s, n - 1) \in Nat
          <6>1. n > 0 => DepthTo(s, n) = DepthTo(s, n - 1)
                            + (IF s[n].kind = "dispatch" THEN 1 ELSE 0)
            BY DepthToIs
          <6>2. DepthTo(s, m) \in Nat /\ DepthTo(s, n - 1) \in Nat  BY <5>2, DepthToIs
          <6> QED  BY <6>1, <6>2
        <5>5. x.depth > DepthTo(t, m) + 1  BY <4>1, <5>3, <5>4
        <5> QED  BY <5>1, <5>5 DEF Heeds
      <4> QED  BY <4>2, <4>3
    <3> QED  BY <2>3, <3>2, <3>3 DEF SshWaitsAt
  <2> QED  BY <2>1, <2>2, <2>3
<1> QED  BY <1>5, <1>6, <1>7 DEF SshOrder

-----------------------------------------------------------------------------
(* The steps of the runtime.                                               *)

AllItems == AllIn(queue, stack, called)
LsQueues == <<ssh_queue, emitted, op_callback>>

SshTableInv ==
    /\ ssh_next \in Nat \ {0} /\ IsSeq(buffered_events)
    /\ \A op \in Ops : emitted[op] \in Nat /\ op_callback[op] \in Callbacks \cup {NoCallback}
    /\ DOMAIN emitted = Ops /\ DOMAIN op_callback = Ops
    /\ \A op \in Ops : op >= ssh_next => op_callback[op] = NoCallback /\ emitted[op] = 0
    /\ \A op \in DOMAIN callback_by_operation :
          op \in Ops /\ callback_by_operation[op] = op_callback[op] /\ op_callback[op] # NoCallback

Ordered ==
    /\ Order(queue, stack, called)
    /\ SshOrder(queue, stack, called, ssh_queue, emitted, op_callback)
    /\ SshTableInv

\* A step that enqueues items keeps the order.
Orders(items) ==
    /\ Order(queue, stack, called)'
    /\ SshOrder(queue, stack, called, ssh_queue, emitted, op_callback)'
    /\ Like(AllItems', AllItems \cup items)

\* Items that may be enqueued.
Timely(items) ==
    /\ IsSeq(items) /\ Ascending(items)
    /\ \A e \in ToSet(items) : e.ev.n \in Int /\ FreshIn(AllItems, e.cb, e.ev.n)
    /\ NoSshItems(ToSet(items), op_callback)

LEMMA LikeIs ==
    /\ \A A, B : A \subseteq B => Like(A, B)
    /\ \A A, B, C : Like(A, B) /\ Like(B, C) => Like(A, C)
<1>1. \A A, B : A \subseteq B => Like(A, B)
  BY DEF Like
<1>2. ASSUME NEW A, NEW B, NEW C, Like(A, B), Like(B, C), NEW x \in A
      PROVE  \E z \in C : x.cb = z.cb /\ x.ev = z.ev
  <2>1. PICK y \in B : x.cb = y.cb /\ x.ev = y.ev  BY <1>2 DEF Like
  <2>2. PICK z \in C : y.cb = z.cb /\ y.ev = z.ev  BY <1>2 DEF Like
  <2> QED  BY <2>1, <2>2
<1> QED  BY <1>1, <1>2 DEF Like

LEMMA OneAppended ==
    ASSUME NEW q, IsSeq(q), NEW e
    PROVE  Append(q, e) = q \o <<e>> /\ IsSeq(<<e>>) /\ ToSet(<<e>>) = {e} /\ Ascending(<<e>>)
<1>1. <<e>> \in Seq({e}) /\ DOMAIN <<e>> = 1..1 /\ <<e>>[1] = e
  OBVIOUS
<1> DEFINE s == <<e>>
<1>2. IsSeq(s) /\ ToSet(s) = {e} /\ Ascending(s)
  <2>1. s \in Seq({e}) /\ DOMAIN s = 1..1 /\ s[1] = e  BY <1>1
  <2> HIDE DEF s
  <2>2. DOMAIN s = {1}  BY <2>1
  <2>3. IsSeq(s)  BY <2>1 DEF IsSeq
  <2>4. ToSet(s) = {e}  BY <2>1, <2>2 DEF ToSet
  <2>5. Ascending(s)  BY <2>2 DEF Ascending
  <2> QED  BY <2>3, <2>4, <2>5
<1>3. PICK S : q \in Seq(S)
  BY DEF IsSeq
<1>4. Append(q, e) = q \o <<e>>
  <2> DEFINE T == S \cup {e}
  <2>1. q \in Seq(T) /\ e \in T  BY <1>3, SeqMonotonic
  <2> HIDE DEF T
  <2> QED  BY <2>1, AppendIsConcat
<1> QED  BY <1>2, <1>4

LEMMA StayingOrders ==
    ASSUME Ordered, UNCHANGED <<queue, stack, called>>, UNCHANGED LsQueues
    PROVE  Orders({})
  BY LikeIs DEF Ordered, Orders, AllItems, LsQueues

LEMMA PostingOrders ==
    ASSUME Ordered, NEW items, Timely(items), queue' = queue \o items,
           UNCHANGED <<stack, called>>, UNCHANGED LsQueues
    PROVE  Orders(ToSet(items))
<1>1. /\ Order(queue \o items, stack, called)
      /\ AllIn(queue \o items, stack, called) = AllItems \cup ToSet(items)
  BY OrderPosted DEF Ordered, Timely, AllItems
<1>2. SshOrder(queue \o items, stack, called, ssh_queue, emitted, op_callback)
  <2>1. ToSet(queue \o items) = ToSet(queue) \cup ToSet(items)
    BY ConcatIs DEF Ordered, Order, Sequenced, Timely
  <2>2. NoSshItems(ToSet(queue \o items), op_callback)
    BY <2>1 DEF Ordered, SshOrder, SshWaits, NoSshItems, Timely
  <2> QED  BY <2>2, SshPosted DEF Ordered
<1> QED  BY <1>1, <1>2, LikeIs DEF Orders, AllItems, LsQueues

\* The main thread is in no batch of lua_ssh_dispatch.
Quiet == ~(stack[Len(stack)].kind = "dispatch" /\ stack[Len(stack)].cur = NoItem)

LEMMA TopIsQuiet ==
    ASSUME IsSeq(stack), LuaRuns \/ Top.kind \in {"close", "ssh"}
    PROVE  Quiet \/ stack = <<>>
<1> SUFFICES ASSUME stack # <<>> PROVE Quiet
  OBVIOUS
<1>1. Top = stack[Len(stack)]
  BY DEF Top
<1> QED  BY <1>1 DEF LuaRuns, Quiet

LEMMA QuietMeansNoSshItems ==
    ASSUME Ordered, Quiet \/ stack = <<>>
    PROVE  \A p \in BatchesOf(stack) : NoSshItems(ToSet(stack[p].rest), op_callback)
<1>1. CASE Quiet
  BY <1>1, SshQuiet DEF Ordered, Quiet
<1>2. CASE stack = <<>>
  BY <1>2 DEF BatchesOf
<1> QED  BY <1>1, <1>2

\* A dispatch, with items enqueued right before.
LEMMA DispatchingOrders ==
    ASSUME Ordered, Quiet \/ stack = <<>>, NEW items, Timely(items), NEW ids, NEW max \in Nat,
           DispatchFrom(stack, queue \o items, ids, max), UNCHANGED called, UNCHANGED LsQueues
    PROVE  Orders(ToSet(items))
<1> DEFINE q == queue \o items
           taken == TakenAt(q, ids, max)
           b == At(q, taken)
           r == At(q, DOMAIN q \ taken)
           f == Frame("dispatch", b, NoItem)
<1>1. /\ Order(q, stack, called)
      /\ AllIn(q, stack, called) = AllItems \cup ToSet(items)
  BY OrderPosted DEF Ordered, Timely, AllItems
<1>2. SshOrder(q, stack, called, ssh_queue, emitted, op_callback)
  <2>1. ToSet(q) = ToSet(queue) \cup ToSet(items)  BY ConcatIs DEF Ordered, Order, Sequenced, Timely
  <2>2. NoSshItems(ToSet(q), op_callback)
    BY <2>1 DEF Ordered, SshOrder, SshWaits, NoSshItems, Timely
  <2> QED  BY <2>2, SshPosted DEF Ordered
<1>3. /\ queue' = r
      /\ stack' = IF taken = {} THEN stack ELSE Append(stack, f)
  BY DEF DispatchFrom
<1> HIDE DEF q
<1>4. IsSeq(q) /\ Ascending(q)
  BY <1>1 DEF Order, Sequenced, InLine
<1>5. /\ taken \in SUBSET DOMAIN q /\ DOMAIN q \ taken \in SUBSET DOMAIN q
      /\ Precedes({q[i] : i \in taken}, {q[i] : i \in DOMAIN q \ taken})
  BY <1>4, TakenIs
<1> HIDE DEF taken
<1>6. /\ IsSeq(r) /\ Ascending(r) /\ ToSet(r) = {q[i] : i \in DOMAIN q \ taken}
      /\ IsSeq(b) /\ Ascending(b) /\ ToSet(b) = {q[i] : i \in taken}
  BY <1>4, <1>5, AtIs, AscendingAt
<1>7. ToSet(r) \cup ToSet(b) \subseteq ToSet(q) /\ Precedes(ToSet(b), ToSet(r))
  BY <1>5, <1>6 DEF ToSet
<1>8. f.kind = "dispatch" /\ f.rest = b
  BY DEF Frame
<1>9. NoSshItems(ToSet(r), op_callback) /\ NoSshItems(ToSet(b), op_callback)
  BY <1>2, <1>7 DEF SshOrder, SshWaits, NoSshItems
<1> HIDE DEF r, b
<1>10. CASE taken = {}
  <2>1. Order(r, stack, called) /\ AllIn(r, stack, called) \subseteq AllIn(q, stack, called)
    BY <1>1, <1>6, <1>7, OrderThinned
  <2>2. SshOrder(r, stack, called, ssh_queue, emitted, op_callback)  BY <1>2, <1>9, SshPosted
  <2> QED  BY <1>1, <1>3, <1>10, <2>1, <2>2, LikeIs DEF Orders, AllItems, LsQueues
<1>11. CASE taken # {}
  <2> DEFINE t == Append(stack, Frame("dispatch", b, NoItem))
  <2>1. Order(r, t, called) /\ AllIn(r, t, called) \subseteq AllIn(q, stack, called)
    BY <1>1, <1>6, <1>7, OrderTaken
  <2>2. t = Append(stack, f)  OBVIOUS
  <2> HIDE DEF t, f
  <2>3. SshOrder(r, t, called, ssh_queue, emitted, op_callback)
    <3>1. IsSeq(stack)  BY DEF Ordered, Order, Sequenced
    <3> DEFINE n == Len(stack)
    <3>2. /\ DOMAIN stack = 1..n /\ n \in Nat /\ DOMAIN t = 1..(n + 1)
          /\ t[n + 1] = f /\ \A i \in 1..n : t[i] = stack[i]
      <4>1. IsSeq(t) /\ Len(t) = n + 1  BY <3>1, <2>2, AppendIs
      <4> QED  BY <3>1, <4>1, <2>2, AppendIs, SeqIs
    <3> HIDE DEF n
    <3>3. \A p \in DOMAIN t : t[p].kind \in {"dispatch", "ssh", "close"}
      BY <1>2, <1>8, <3>2 DEF SshOrder, SshLine
    <3>4. \A p \in SshBatchesOf(t) : /\ p \in SshBatchesOf(stack) /\ t[p].rest = stack[p].rest
                                     /\ p \in 1..n
      BY <1>8, <3>2 DEF SshBatchesOf
    <3>5. \A p \in 1..n : DepthTo(t, p) = DepthTo(stack, p)
      <4> SUFFICES ASSUME NEW p \in 1..n PROVE DepthTo(t, p) = DepthTo(stack, p)  OBVIOUS
      <4>1. p \in Nat /\ \A i \in 1..p : i \in 1..n  BY <3>2
      <4> QED  BY <3>2, <4>1, SameDepth
    <3>6. \A p \in BatchesOf(stack) : NoSshItems(ToSet(stack[p].rest), op_callback)
      BY QuietMeansNoSshItems
    <3>7. \A p \in BatchesOf(t) : NoSshItems(ToSet(t[p].rest), op_callback)
      <4> SUFFICES ASSUME NEW p \in BatchesOf(t) PROVE NoSshItems(ToSet(t[p].rest), op_callback)
        OBVIOUS
      <4>1. p = n + 1 \/ (p \in 1..n /\ p \in BatchesOf(stack) /\ t[p] = stack[p])
        BY <3>2 DEF BatchesOf
      <4> QED  BY <1>8, <1>9, <3>2, <3>6, <4>1
    <3> QED  BY <1>2, <1>9, <3>3, <3>4, <3>5, <3>7, SshFramed
  <2> QED  BY <1>1, <1>3, <1>11, <2>1, <2>2, <2>3, LikeIs DEF Orders, AllItems, LsQueues
<1> QED  BY <1>10, <1>11

\* Frames come and go but for batches, and events may leave the queue.
LEMMA FramingOrders ==
    ASSUME Ordered, IsSeq(stack'),
           IsSeq(queue'), Ascending(queue'), ToSet(queue') \subseteq ToSet(queue),
           UNCHANGED called, UNCHANGED LsQueues,
           \A p \in DOMAIN stack' : stack'[p].kind \in {"dispatch", "ssh", "close"},
           \A p \in DOMAIN stack' : stack'[p].kind \in {"dispatch", "ssh"} =>
              /\ p \in DOMAIN stack
              /\ stack'[p].kind = stack[p].kind /\ stack'[p].rest = stack[p].rest
              /\ \A i \in 1..p : stack'[i].kind = "dispatch" <=> stack[i].kind = "dispatch",
           \A p \in BatchesOf(stack') : NoSshItems(ToSet(stack'[p].rest), op_callback)
    PROVE  Orders({})
<1>1. \A p \in DOMAIN stack' : p \in Nat
  <2>1. \A s : IsSeq(s) => DOMAIN s = 1..Len(s) /\ Len(s) \in Nat  BY SeqIs
  <2> QED  BY <2>1
<1>2. \A p \in BatchesOf(stack') : /\ p \in BatchesOf(stack)
                                   /\ stack'[p].rest = stack[p].rest
                                   /\ DepthTo(stack', p) = DepthTo(stack, p)
  <2> SUFFICES ASSUME NEW p \in BatchesOf(stack')
               PROVE  /\ p \in BatchesOf(stack)
                      /\ stack'[p].rest = stack[p].rest
                      /\ DepthTo(stack', p) = DepthTo(stack, p)
    OBVIOUS
  <2>1. p \in DOMAIN stack' /\ stack'[p].kind = "dispatch"  BY DEF BatchesOf
  <2> QED  BY <1>1, <2>1, SameDepth DEF BatchesOf
<1>3. \A p \in SshBatchesOf(stack') : /\ p \in SshBatchesOf(stack)
                                      /\ stack'[p].rest = stack[p].rest
                                      /\ DepthTo(stack', p) = DepthTo(stack, p)
  <2> SUFFICES ASSUME NEW p \in SshBatchesOf(stack')
               PROVE  /\ p \in SshBatchesOf(stack)
                      /\ stack'[p].rest = stack[p].rest
                      /\ DepthTo(stack', p) = DepthTo(stack, p)
    OBVIOUS
  <2>1. p \in DOMAIN stack' /\ stack'[p].kind = "ssh"  BY DEF SshBatchesOf
  <2> QED  BY <1>1, <2>1, SameDepth DEF SshBatchesOf
<1>4. Order(queue', stack, called) /\ AllIn(queue', stack, called) \subseteq AllItems
  BY OrderThinned DEF Ordered, AllItems
<1>5. /\ Order(queue', stack', called)
      /\ AllIn(queue', stack', called) \subseteq AllIn(queue', stack, called)
  BY <1>2, <1>4, OrderFramed
<1>6. NoSshItems(ToSet(queue'), op_callback)
  BY DEF Ordered, SshOrder, SshWaits, NoSshItems
<1>7. SshOrder(queue', stack', called, ssh_queue, emitted, op_callback)
  BY <1>3, <1>6, SshFramed DEF Ordered
<1>8. Like(AllIn(queue', stack', called), AllItems \cup {})
  BY <1>4, <1>5, LikeIs
<1> QED  BY <1>5, <1>7, <1>8 DEF Orders, AllItems, LsQueues

\* The queue as it is, and when some positions of it are left.
LEMMA QueueThinned ==
    ASSUME Ordered
    PROVE  /\ IsSeq(queue) /\ Ascending(queue)
           /\ \A S \in SUBSET DOMAIN queue : /\ IsSeq(At(queue, S)) /\ Ascending(At(queue, S))
                                             /\ ToSet(At(queue, S)) \subseteq ToSet(queue)
<1>1. IsSeq(queue) /\ Ascending(queue)
  BY DEF Ordered, Order, Sequenced, InLine
<1>2. ASSUME NEW S \in SUBSET DOMAIN queue
      PROVE  /\ IsSeq(At(queue, S)) /\ Ascending(At(queue, S))
             /\ ToSet(At(queue, S)) \subseteq ToSet(queue)
  <2>1. IsSeq(At(queue, S)) /\ ToSet(At(queue, S)) = {queue[i] : i \in S}  BY <1>1, AtIs
  <2>2. Ascending(At(queue, S))  BY <1>1, AscendingAt
  <2> QED  BY <2>1, <2>2 DEF ToSet
<1> QED  BY <1>1, <1>2

\* The handle of the realtime module begins to close.
LEMMA PushingOrders ==
    ASSUME Ordered, Quiet \/ stack = <<>>, stack' = Append(stack, Frame("close", <<>>, NoItem)),
           UNCHANGED <<queue, called>>, UNCHANGED LsQueues
    PROVE  Orders({})
<1> DEFINE f == Frame("close", <<>>, NoItem)
           n == Len(stack)
<1>1. IsSeq(stack)
  BY DEF Ordered, Order, Sequenced
<1>2. f.kind = "close" /\ stack' = Append(stack, f)
  BY DEF Frame
<1> HIDE DEF f
<1>3. /\ DOMAIN stack = 1..n /\ n \in Nat /\ IsSeq(stack') /\ DOMAIN stack' = 1..(n + 1)
      /\ stack'[n + 1] = f /\ \A i \in 1..n : stack'[i] = stack[i]
  <2>1. IsSeq(stack') /\ Len(stack') = n + 1  BY <1>1, <1>2, AppendIs
  <2>2. DOMAIN stack' = 1..Len(stack')
    <3>1. \A s : IsSeq(s) => DOMAIN s = 1..Len(s)  BY SeqIs
    <3> QED  BY <2>1, <3>1
  <2> QED  BY <1>1, <1>2, <2>1, <2>2, AppendIs, SeqIs
<1> HIDE DEF n
<1>4. \A p \in DOMAIN stack' : stack'[p].kind \in {"dispatch", "ssh", "close"}
  BY <1>2, <1>3 DEF Ordered, SshOrder, SshLine
<1>5. \A p \in DOMAIN stack' : stack'[p].kind \in {"dispatch", "ssh"} =>
          p \in 1..n /\ stack'[p] = stack[p] /\ \A i \in 1..p : stack'[i] = stack[i]
  BY <1>2, <1>3
<1>6. \A p \in BatchesOf(stack) : NoSshItems(ToSet(stack[p].rest), op_callback)
  BY QuietMeansNoSshItems
<1>7. \A p \in BatchesOf(stack') : NoSshItems(ToSet(stack'[p].rest), op_callback)
  BY <1>5, <1>6, <1>3 DEF BatchesOf
<1>8. IsSeq(queue') /\ Ascending(queue') /\ ToSet(queue') \subseteq ToSet(queue)
  BY QueueThinned
<1> QED  BY <1>3, <1>4, <1>5, <1>7, <1>8, FramingOrders

\* The frame on top ends.
LEMMA PoppingOrders ==
    ASSUME Ordered, FrameInv, Top.kind # "none", stack' = Below,
           IsSeq(queue'), Ascending(queue'), ToSet(queue') \subseteq ToSet(queue),
           UNCHANGED called, UNCHANGED LsQueues
    PROVE  Orders({})
<1> DEFINE n == Len(stack)
<1>1. /\ n \in Nat \ {0} /\ DOMAIN stack = 1..n /\ Top = stack[n]
      /\ IsSeq(stack') /\ DOMAIN stack' = 1..(n - 1)
      /\ \A i \in 1..(n - 1) : stack'[i] = stack[i]
  BY TopIs
<1> HIDE DEF n
<1>2. \A p \in DOMAIN stack' : stack'[p].kind \in {"dispatch", "ssh", "close"}
  BY <1>1 DEF Ordered, SshOrder, SshLine
<1>3. \A p \in DOMAIN stack' : /\ p \in DOMAIN stack /\ stack'[p] = stack[p]
                               /\ \A i \in 1..p : stack'[i] = stack[i]
  BY <1>1
<1>4. ASSUME NEW p \in BatchesOf(stack') PROVE NoSshItems(ToSet(stack'[p].rest), op_callback)
  <2>1. p \in BatchesOf(stack) /\ p \in 1..(n - 1) /\ stack'[p] = stack[p]
    BY <1>1, <1>3 DEF BatchesOf
  <2>2. ASSUME NEW e \in ToSet(stack[p].rest), NEW op \in Ops, SshItem(e, op, op_callback)
        PROVE  FALSE
    <3>1. p = Len(stack)  BY <2>1, <2>2 DEF Ordered, SshOrder, SshWaits, SshWaitsAt
    <3> QED  BY <1>1, <2>1, <3>1 DEF n
  <2> QED  BY <2>1, <2>2 DEF NoSshItems
<1> QED  BY <1>1, <1>2, <1>3, <1>4, FramingOrders

LEMMA CallNextOrders ==
    ASSUME Ordered, OwnInv, FrameInv, CallNext, UNCHANGED LsQueues
    PROVE  Orders({})
<1> DEFINE n == Len(stack)
           b == stack[n].rest
           e == Head(b)
           r == Tail(b)
           call == e.cb \in registry /\ e.cb \notin retired
           x == [ev |-> e.ev, depth |-> Depth(stack)]
           f == Frame("dispatch", r, IF call THEN e ELSE NoItem)
<1>1. Top.kind = "dispatch" /\ Top.rest # <<>> /\ queue' = queue
  BY DEF CallNext
<1>2. /\ n \in Nat \ {0} /\ DOMAIN stack = 1..n /\ Top = stack[n]
      /\ IsSeq(Append(Below, f)) /\ DOMAIN Append(Below, f) = 1..n
      /\ Append(Below, f)[n] = f /\ \A i \in 1..(n - 1) : Append(Below, f)[i] = stack[i]
  BY <1>1, TopIs, ReplacedIs
<1>3. /\ stack' = Append(Below, f)
      /\ called' = IF call THEN [called EXCEPT ![e.cb] = Append(@, x)] ELSE called
  BY <1>1, <1>2 DEF CallNext
<1>4. f.kind = "dispatch" /\ f.rest = r
  BY DEF Frame
<1>5. x.ev = e.ev /\ x.depth = DepthTo(stack, n)
  BY DepthIsDepthTo DEF Ordered, Order, Sequenced
<1>14. n = Len(stack)
  OBVIOUS
<1>13. stack[n].kind = "dispatch" /\ stack[n].rest = b
  BY <1>1, <1>2
<1> HIDE DEF f, x, n
<1>6. IsSeq(b) /\ Ascending(b) /\ b # <<>>
  <2>1. n \in BatchesOf(stack)  BY <1>2, <1>13 DEF BatchesOf
  <2>2. b # <<>>  BY <1>1, <1>2
  <2> QED  BY <2>1, <2>2 DEF Ordered, Order, Sequenced, InLine
<1> HIDE DEF b
<1>7. /\ IsSeq(r) /\ ToSet(b) = ToSet(r) \cup {e} /\ Ascending(r) /\ Precedes({e}, ToSet(r))
  BY <1>6, TailIs, AscendingTail
<1>8. Len(b) = 1 => ToSet(r) = {}
  <2> SUFFICES ASSUME Len(b) = 1 PROVE ToSet(r) = {}  OBVIOUS
  <2>1. b \in Seq(ToSet(b))  BY <1>6, SeqIs
  <2>2. Len(r) = 0 /\ r \in Seq(ToSet(b))  BY <1>6, <2>1, HeadTailProperties
  <2>3. r = <<>>  BY <2>2, EmptySeq
  <2> QED  BY <2>3, EmptyIsSeq
<1> HIDE DEF r, e
<1>9. /\ DOMAIN called = Callbacks /\ \A cb \in Callbacks : IsSeq(called[cb])
  BY DEF Ordered, Order, Sequenced
<1>10. e.cb \in registry => e.cb \in Callbacks
  BY GivenAreCallbacks DEF OwnInv
<1>11. /\ DOMAIN called' = Callbacks
       /\ \A cb \in Callbacks : IsSeq(called'[cb])
       /\ \A cb \in Callbacks : \A k \in DOMAIN called'[cb] :
             \/ k \in DOMAIN called[cb] /\ called'[cb][k] = called[cb][k]
             \/ cb = e.cb /\ called'[cb][k] = x /\ k = Len(called[cb]) + 1
  <2>1. CASE call
    <3>1. called' = [called EXCEPT ![e.cb] = Append(@, x)] /\ e.cb \in Callbacks
      BY <1>3, <1>10, <2>1
    <3>2. /\ DOMAIN called' = Callbacks /\ called'[e.cb] = Append(called[e.cb], x)
          /\ \A cb \in Callbacks : cb # e.cb => called'[cb] = called[cb]
      BY <1>9, <3>1
    <3>3. IsSeq(called[e.cb])  BY <1>9, <3>1
    <3>6. /\ IsSeq(called'[e.cb]) /\ Len(called'[e.cb]) = Len(called[e.cb]) + 1
          /\ called'[e.cb][Len(called[e.cb]) + 1] = x
          /\ \A i \in 1..Len(called[e.cb]) : called'[e.cb][i] = called[e.cb][i]
      <4>1. /\ IsSeq(Append(called[e.cb], x))
            /\ Len(Append(called[e.cb], x)) = Len(called[e.cb]) + 1
            /\ Append(called[e.cb], x)[Len(called[e.cb]) + 1] = x
            /\ \A i \in 1..Len(called[e.cb]) : Append(called[e.cb], x)[i] = called[e.cb][i]
        BY <3>3, AppendIs
      <4> QED  BY <3>2, <4>1
    <3>4. /\ IsSeq(called'[e.cb])
          /\ \A k \in DOMAIN called'[e.cb] :
                \/ k \in DOMAIN called[e.cb] /\ called'[e.cb][k] = called[e.cb][k]
                \/ k = Len(called[e.cb]) + 1 /\ called'[e.cb][k] = x
      BY <3>3, <3>6, AppendedIs
    <3>5. ASSUME NEW cb \in Callbacks
          PROVE  /\ IsSeq(called'[cb])
                 /\ \A k \in DOMAIN called'[cb] :
                       \/ k \in DOMAIN called[cb] /\ called'[cb][k] = called[cb][k]
                       \/ cb = e.cb /\ called'[cb][k] = x /\ k = Len(called[cb]) + 1
      <4>1. CASE cb = e.cb  BY <3>4, <4>1
      <4>2. CASE cb # e.cb  BY <1>9, <3>2, <4>2
      <4> QED  BY <4>1, <4>2
    <3> QED  BY <3>2, <3>5
  <2>2. CASE ~call  BY <1>3, <1>9, <2>2
  <2> QED  BY <2>1, <2>2
<1>12. /\ IsSeq(stack') /\ DOMAIN stack' = 1..n /\ stack'[n] = f
       /\ \A i \in 1..n : i # n => stack'[i] = stack[i]
  BY <1>2, <1>3
<1>15. Order(queue, stack', called') /\ Like(AllIn(queue, stack', called'), AllItems)
  <2>1. Order(queue, stack, called)  BY DEF Ordered
  <2>2. /\ ToSet(stack[n].rest) = ToSet(r) \cup {e} /\ stack[n].kind = "dispatch"
        /\ stack'[n].kind = "dispatch" /\ stack'[n].rest = r
    BY <1>4, <1>7, <1>12, <1>13
  <2>3. n \in Nat \ {0} /\ DOMAIN stack = 1..n /\ DOMAIN stack' = 1..n /\ IsSeq(stack')
    BY <1>2, <1>12
  <2> QED  BY <2>1, <2>2, <2>3, <1>5, <1>7, <1>11, <1>12, OrderCalled DEF AllItems
<1>16. SshOrder(queue, stack', called', ssh_queue, emitted, op_callback)
  <2>1. /\ Order(queue, stack, called)
        /\ SshOrder(queue, stack, called, ssh_queue, emitted, op_callback)
        /\ \A op \in Ops : op_callback[op] \in Callbacks \cup {NoCallback}
    BY DEF Ordered, SshTableInv
  <2>2. Len(stack[n].rest) = 1 => ToSet(r) = {}  BY <1>8, <1>13
  <2>3. /\ ToSet(stack[n].rest) = ToSet(r) \cup {e} /\ stack[n].kind = "dispatch"
        /\ stack'[n].kind = "dispatch" /\ stack'[n].rest = r
    BY <1>4, <1>7, <1>12, <1>13
  <2>4. n \in Nat \ {0} /\ DOMAIN stack = 1..n /\ DOMAIN stack' = 1..n  BY <1>2, <1>12
  <2>5. Handles(stack, stack', n, e, r)  BY <2>2, <2>3, <2>4, <1>12, <1>14 DEF Handles
  <2>6. CallsWith(called, called', e.cb, x)  BY <1>11 DEF CallsWith
  <2> QED  BY <2>1, <2>4, <2>5, <2>6, <1>5, SshCalled
<1>17. AllItems \cup {} = AllItems
  OBVIOUS
<1> QED  BY <1>1, <1>15, <1>16, <1>17 DEF Orders, AllItems, LsQueues

\* The engine shuts down, out of every callback.
LEMMA ShutdownOrders ==
    ASSUME Ordered, stack = <<>>, queue' = <<>>, ssh_queue' = <<>>,
           UNCHANGED <<stack, called, emitted, op_callback>>
    PROVE  Orders({})
<1>1. IsSeq(queue') /\ Ascending(queue') /\ ToSet(queue') \subseteq ToSet(queue)
  BY EmptyIsSeq DEF Ascending
<1>2. Order(queue', stack, called) /\ AllIn(queue', stack, called) \subseteq AllItems
  BY <1>1, OrderThinned DEF Ordered, AllItems
<1>3. SshOrder(queue', stack, called, ssh_queue', emitted, op_callback)
  <2>1. \A s : s = <<>> => DOMAIN s = {} /\ ToSet(s) = {} /\ IsSeq(s)  BY EmptyIsSeq
  <2>2. /\ DOMAIN stack = {} /\ DOMAIN ssh_queue' = {} /\ ToSet(ssh_queue') = {}
        /\ IsSeq(ssh_queue') /\ ToSet(queue') = {}
    BY <2>1
  <2>3. SshLine(stack, ssh_queue', emitted)  BY <2>2 DEF SshLine, SshBatchesOf, Rising, Emitted
  <2>4. SshWaits(queue', stack, ssh_queue', emitted, op_callback)
    BY <2>2 DEF SshWaits, BatchesOf, NoSshItems
  <2>5. SshHeard(stack, called, ssh_queue', emitted, op_callback)
    BY <2>2 DEF Ordered, SshOrder, SshHeard, SshBatchesOf
  <2> QED  BY <2>3, <2>4, <2>5 DEF SshOrder
<1>4. Like(AllIn(queue', stack, called), AllItems \cup {})
  BY <1>2, LikeIs
<1> QED  BY <1>2, <1>3, <1>4 DEF Orders, AllItems

-----------------------------------------------------------------------------
(* The steps of the ssh module.                                            *)

\* The operation op is started, cb being its callback.
LEMMA SshBegun ==
    ASSUME NEW q, NEW s, NEW c, NEW sq, NEW em, NEW oc, SshOrder(q, s, c, sq, em, oc),
           NEW op \in Ops, NEW cb \in Callbacks, UntoldIn(AllIn(q, s, c), cb),
           NEW o, o[op] = cb, \A x \in Ops : x # op => o[x] = oc[x]
    PROVE  SshOrder(q, s, c, sq, em, o)
<1>1. /\ \A e \in ToSet(q) : e.cb # cb
      /\ \A p \in BatchesOf(s) : \A e \in ToSet(s[p].rest) : e.cb # cb
  BY AllIs DEF UntoldIn
<1>2. \A k \in DOMAIN c[cb] : FALSE
  <2> SUFFICES ASSUME NEW k \in DOMAIN c[cb] PROVE FALSE  OBVIOUS
  <2>1. Item(cb, c[cb][k].ev) \in AllIn(q, s, c)  BY AllIs
  <2> QED  BY <2>1 DEF UntoldIn, Item
<1>3. \A e, x : x \in Ops /\ SshItem(e, x, o) => SshItem(e, x, oc) \/ e.cb = cb
  BY DEF SshItem
<1>4. SshWaits(q, s, sq, em, o)
  BY <1>1, <1>3 DEF SshOrder, SshWaits, NoSshItems
<1>5. SshHeard(s, c, sq, em, o)
  <2> SUFFICES ASSUME NEW x \in Ops, o[x] # NoCallback, NEW k \in DOMAIN c[o[x]]
               PROVE  /\ c[o[x]][k].ev.n <= em[x]
                      /\ \A y \in ToSet(sq) : y.op = x => c[o[x]][k].ev.n < y.n
                      /\ \A m \in SshBatchesOf(s) : \A y \in ToSet(s[m].rest) :
                            y.op = x => Heeds(c[o[x]][k], y.n, DepthTo(s, m) + 1)
    BY DEF SshHeard
  <2>1. x # op /\ o[x] = oc[x]  BY <1>2
  <2> QED  BY <2>1 DEF SshOrder, SshHeard
<1> QED  BY <1>4, <1>5 DEF SshOrder

\* The service emits e, r being its queue then.
LEMMA SshEmitted ==
    ASSUME NEW q, NEW s, NEW c, Order(q, s, c),
           NEW sq, NEW em, NEW oc, SshOrder(q, s, c, sq, em, oc),
           \A x \in Ops : em[x] \in Nat /\ oc[x] \in Callbacks \cup {NoCallback},
           NEW op \in Ops, NEW e, e.op = op, e.n = em[op] + 1,
           NEW r, IsSeq(r), Rising(r), ToSet(r) = ToSet(sq) \cup {e},
           NEW m, m[op] = em[op] + 1, \A x \in Ops : x # op => m[x] = em[x]
    PROVE  SshOrder(q, s, c, r, m, oc)
<1>1. \A x \in Ops : m[x] \in Nat /\ em[x] <= m[x]
  OBVIOUS
<1>2. \A A : Emitted(A, em) => Emitted(A, m)
  BY <1>1 DEF Emitted
<1>3. Emitted(ToSet(r), m)
  <2>1. Emitted(ToSet(sq), m)  BY <1>2 DEF SshOrder, SshLine
  <2> QED  BY <2>1 DEF Emitted
<1>4. \A p \in SshBatchesOf(s) : Rises(ToSet(s[p].rest), ToSet(r))
  <2> SUFFICES ASSUME NEW p \in SshBatchesOf(s), NEW x \in ToSet(s[p].rest), NEW y \in ToSet(r),
                      x.op = y.op
               PROVE  x.n < y.n
    BY DEF Rises
  <2>1. CASE y \in ToSet(sq)  BY <2>1 DEF SshOrder, SshLine, Rises
  <2>2. CASE y = e
    <3>1. x.n <= em[op] /\ x.n \in Nat  BY <2>2 DEF SshOrder, SshLine, Emitted
    <3> QED  BY <2>2, <3>1
  <2> QED  BY <2>1, <2>2
<1>5. SshLine(s, r, m)
  BY <1>2, <1>3, <1>4 DEF SshOrder, SshLine
<1>6. SshWaits(q, s, r, m, oc)
  <2> SUFFICES ASSUME NEW p \in BatchesOf(s), NEW x \in ToSet(s[p].rest), NEW y \in Ops,
                      SshItem(x, y, oc)
               PROVE  SshWaitsAt(x, y, p, s, r, m)
    BY DEF SshOrder, SshWaits
  <2>1. SshWaitsAt(x, y, p, s, sq, em) /\ x.ev.n \in Int
    <3>1. x \in WaitsIn(q, s)  BY AllIs
    <3> QED  BY <3>1 DEF SshOrder, SshWaits, Order, Numbered
  <2>2. x.ev.n <= em[y] /\ em[y] \in Nat /\ m[y] \in Nat /\ em[y] <= m[y]
    BY <1>1, <2>1 DEF SshWaitsAt
  <2>3. x.ev.n <= m[y]  BY <2>1, <2>2
  <2>4. \A z \in ToSet(r) : z.op = y => x.ev.n < z.n
    <3>1. y = op => x.ev.n < e.n  BY <2>1, <2>2
    <3> QED  BY <2>1, <3>1 DEF SshWaitsAt
  <2> QED  BY <2>1, <2>3, <2>4 DEF SshWaitsAt
<1>7. SshHeard(s, c, r, m, oc)
  <2> SUFFICES ASSUME NEW x \in Ops, oc[x] # NoCallback, NEW k \in DOMAIN c[oc[x]]
               PROVE  /\ c[oc[x]][k].ev.n <= m[x]
                      /\ \A y \in ToSet(r) : y.op = x => c[oc[x]][k].ev.n < y.n
                      /\ \A p \in SshBatchesOf(s) : \A y \in ToSet(s[p].rest) :
                            y.op = x => Heeds(c[oc[x]][k], y.n, DepthTo(s, p) + 1)
    BY DEF SshHeard
  <2> DEFINE n == c[oc[x]][k].ev.n
  <2>1. n \in Int /\ oc[x] \in Callbacks  BY DEF Order, Numbered
  <2>2. /\ n <= em[x] /\ \A y \in ToSet(sq) : y.op = x => n < y.n
        /\ \A p \in SshBatchesOf(s) : \A y \in ToSet(s[p].rest) :
              y.op = x => Heeds(c[oc[x]][k], y.n, DepthTo(s, p) + 1)
    BY DEF SshOrder, SshHeard
  <2> HIDE DEF n
  <2>3. n <= m[x] /\ (x = op => n < e.n)  BY <1>1, <2>1, <2>2
  <2>4. \A y \in ToSet(r) : y.op = x => n < y.n  BY <2>2, <2>3
  <2> QED  BY <2>2, <2>3, <2>4 DEF n
<1> QED  BY <1>5, <1>6, <1>7 DEF SshOrder

\* Events leave the queue of the service.
LEMMA SshDrained ==
    ASSUME NEW q, NEW s, NEW c, NEW sq, NEW em, NEW oc, SshOrder(q, s, c, sq, em, oc),
           NEW r, IsSeq(r), Rising(r), ToSet(r) \subseteq ToSet(sq)
    PROVE  SshOrder(q, s, c, r, em, oc)
<1>1. SshLine(s, r, em)
  BY DEF SshOrder, SshLine, Emitted, Rises
<1>2. SshWaits(q, s, r, em, oc)
  BY DEF SshOrder, SshWaits, SshWaitsAt
<1>3. SshHeard(s, c, r, em, oc)
  BY DEF SshOrder, SshHeard
<1> QED  BY <1>1, <1>2, <1>3 DEF SshOrder

\* lua_ssh_dispatch takes the whole queue of the service, t being the stack then.
LEMMA SshTaken ==
    ASSUME NEW q, NEW s, NEW c, NEW sq, NEW em, NEW oc, SshOrder(q, s, c, sq, em, oc),
           NEW n \in Nat, DOMAIN s = 1..n, n > 0 => s[n].kind = "dispatch",
           \A p \in BatchesOf(s) : NoSshItems(ToSet(s[p].rest), oc),
           NEW t, DOMAIN t = 1..(n + 1), \A i \in 1..n : t[i] = s[i],
           t[n + 1].kind = "ssh", t[n + 1].rest = sq,
           NEW r, IsSeq(r), DOMAIN r = {}, ToSet(r) = {}
    PROVE  SshOrder(q, t, c, r, em, oc)
<1>1. \A p \in SshBatchesOf(t) : \/ p \in SshBatchesOf(s) /\ t[p] = s[p] /\ p \in 1..n
                                 \/ p = n + 1
  BY DEF SshBatchesOf
<1>2. \A p \in BatchesOf(t) : p \in BatchesOf(s) /\ t[p] = s[p]
  BY DEF BatchesOf
<1>3. \A p \in 1..n : DepthTo(t, p) = DepthTo(s, p)
  <2> SUFFICES ASSUME NEW p \in 1..n PROVE DepthTo(t, p) = DepthTo(s, p)  OBVIOUS
  <2>1. p \in Nat /\ \A i \in 1..p : i \in 1..n  OBVIOUS
  <2> QED  BY <2>1, SameDepth
<1>4. \A p \in SshBatchesOf(s) : DepthTo(s, p) < DepthTo(t, n + 1) /\ p \in 1..n
  <2> SUFFICES ASSUME NEW p \in SshBatchesOf(s)
               PROVE  DepthTo(s, p) < DepthTo(t, n + 1) /\ p \in 1..n
    OBVIOUS
  <2>1. p \in 1..n /\ p # n /\ n > 0 /\ n \in 1..n  BY DEF SshBatchesOf
  <2>2. p \in Nat /\ p < n  BY <2>1
  <2>3. DepthTo(s, p) < DepthTo(s, n)  BY <2>1, <2>2, DepthToIs
  <2>4. /\ DepthTo(t, n) \in Nat /\ DepthTo(t, n + 1) \in Nat /\ DepthTo(s, p) \in Nat
        /\ DepthTo(t, n) <= DepthTo(t, n + 1)
    <3>1. n \in Nat /\ n + 1 \in Nat /\ n <= n + 1  OBVIOUS
    <3>2. DepthTo(t, n) \in Nat /\ DepthTo(t, n + 1) \in Nat /\ DepthTo(s, p) \in Nat
      BY <2>2, <3>1, DepthToIs
    <3>3. \A r0 \in Nat : n <= r0 => DepthTo(t, n) <= DepthTo(t, r0)  BY DepthToIs
    <3> QED  BY <3>1, <3>2, <3>3
  <2>5. DepthTo(t, n) = DepthTo(s, n)  BY <1>3, <2>1
  <2> QED  BY <2>1, <2>3, <2>4, <2>5
<1>5. SshLine(t, r, em)
  <2>1. \A p \in DOMAIN t : t[p].kind \in {"dispatch", "ssh", "close"}
    <3> SUFFICES ASSUME NEW p \in DOMAIN t PROVE t[p].kind \in {"dispatch", "ssh", "close"}  OBVIOUS
    <3>1. p \in 1..n \/ p = n + 1  OBVIOUS
    <3> QED  BY <3>1 DEF SshOrder, SshLine
  <2>2. IsSeq(r) /\ Rising(r) /\ Emitted(ToSet(r), em)  BY DEF Rising, Emitted
  <2>3. \A p \in SshBatchesOf(t) :
          /\ IsSeq(t[p].rest) /\ Rising(t[p].rest) /\ Emitted(ToSet(t[p].rest), em)
          /\ Rises(ToSet(t[p].rest), ToSet(r))
    BY <1>1 DEF SshOrder, SshLine, Rises
  <2>4. ASSUME NEW p \in SshBatchesOf(t), NEW m \in SshBatchesOf(t), p < m
        PROVE  Rises(ToSet(t[p].rest), ToSet(t[m].rest)) /\ DepthTo(t, p) < DepthTo(t, m)
    <3>1. p \in 1..(n + 1) /\ m \in 1..(n + 1)  BY DEF SshBatchesOf
    <3>2. p \in SshBatchesOf(s) /\ t[p] = s[p] /\ p \in 1..n  BY <1>1, <2>4, <3>1
    <3>3. CASE m \in SshBatchesOf(s) /\ t[m] = s[m] /\ m \in 1..n
      BY <1>3, <2>4, <3>2, <3>3 DEF SshOrder, SshLine
    <3>4. CASE m = n + 1  BY <1>3, <1>4, <3>2, <3>4 DEF SshOrder, SshLine
    <3> QED  BY <1>1, <3>3, <3>4
  <2> QED  BY <2>1, <2>2, <2>3, <2>4 DEF SshLine
<1>6. SshWaits(q, t, r, em, oc)
  BY <1>2 DEF SshOrder, SshWaits, NoSshItems
<1>7. SshHeard(t, c, r, em, oc)
  <2> SUFFICES ASSUME NEW x \in Ops, oc[x] # NoCallback, NEW k \in DOMAIN c[oc[x]]
               PROVE  /\ c[oc[x]][k].ev.n <= em[x]
                      /\ \A p \in SshBatchesOf(t) : \A y \in ToSet(t[p].rest) :
                            y.op = x => Heeds(c[oc[x]][k], y.n, DepthTo(t, p) + 1)
    BY DEF SshHeard
  <2>1. /\ c[oc[x]][k].ev.n <= em[x] /\ \A y \in ToSet(sq) : y.op = x => c[oc[x]][k].ev.n < y.n
        /\ \A p \in SshBatchesOf(s) : \A y \in ToSet(s[p].rest) :
              y.op = x => Heeds(c[oc[x]][k], y.n, DepthTo(s, p) + 1)
    BY DEF SshOrder, SshHeard
  <2> QED  BY <1>1, <1>3, <2>1 DEF Heeds
<1> QED  BY <1>5, <1>6, <1>7 DEF SshOrder

\* Events leave a batch of lua_ssh_dispatch, with no event of an operation in
\* another.
LEMMA SshShrunk ==
    ASSUME NEW q, NEW s, NEW c, NEW sq, NEW em, NEW oc, SshOrder(q, s, c, sq, em, oc),
           NEW r, NoSshItems(ToSet(r), oc), NEW t,
           \A p \in DOMAIN t : t[p].kind \in {"dispatch", "ssh", "close"},
           \A p \in SshBatchesOf(t) :
              /\ p \in SshBatchesOf(s) /\ DepthTo(t, p) = DepthTo(s, p)
              /\ IsSeq(t[p].rest) /\ Rising(t[p].rest)
              /\ ToSet(t[p].rest) \subseteq ToSet(s[p].rest),
           \A p \in BatchesOf(t) : NoSshItems(ToSet(t[p].rest), oc)
    PROVE  SshOrder(r, t, c, sq, em, oc)
<1>1. \A A, B, C, D : Rises(A, B) /\ C \subseteq A /\ D \subseteq B => Rises(C, D)
  BY DEF Rises
<1>2. \A A, B : Emitted(A, em) /\ B \subseteq A => Emitted(B, em)
  BY DEF Emitted
<1>3. SshLine(t, sq, em)
  <2>1. ASSUME NEW p \in SshBatchesOf(t)
        PROVE  Emitted(ToSet(t[p].rest), em) /\ Rises(ToSet(t[p].rest), ToSet(sq))
    BY <1>1, <1>2 DEF SshOrder, SshLine
  <2>2. ASSUME NEW p \in SshBatchesOf(t), NEW m \in SshBatchesOf(t), p < m
        PROVE  Rises(ToSet(t[p].rest), ToSet(t[m].rest)) /\ DepthTo(t, p) < DepthTo(t, m)
    <3>1. /\ Rises(ToSet(s[p].rest), ToSet(s[m].rest)) /\ DepthTo(s, p) < DepthTo(s, m)
          /\ ToSet(t[p].rest) \subseteq ToSet(s[p].rest)
          /\ ToSet(t[m].rest) \subseteq ToSet(s[m].rest)
      BY <2>2 DEF SshOrder, SshLine
    <3> QED  BY <1>1, <3>1
  <2>3. IsSeq(sq) /\ Rising(sq) /\ Emitted(ToSet(sq), em)  BY DEF SshOrder, SshLine
  <2> QED  BY <2>1, <2>2, <2>3 DEF SshLine
<1>4. SshWaits(r, t, sq, em, oc)
  BY DEF SshWaits, NoSshItems
<1>5. SshHeard(t, c, sq, em, oc)
  BY DEF SshOrder, SshHeard
<1> QED  BY <1>3, <1>4, <1>5 DEF SshOrder

\* e, an event of op that its batch n does not have any more, is sent in a batch of
\* its own.
LEMMA SshSent ==
    ASSUME NEW q, NEW s, NEW c, NEW sq, NEW em, NEW oc, SshOrder(q, s, c, sq, em, oc),
           \A p \in BatchesOf(s) : NoSshItems(ToSet(s[p].rest), oc),
           NEW n \in Nat \ {0}, DOMAIN s = 1..n, s[n].kind = "ssh",
           NEW op \in Ops, NEW e, e.cb = oc[op], \A x \in Ops : oc[x] = e.cb => x = op,
           e.ev.n <= em[op],
           \A x \in ToSet(sq) : x.op = op => e.ev.n < x.n,
           \A x \in ToSet(s[n].rest) : x.op = op => e.ev.n < x.n,
           \A p \in SshBatchesOf(s) : p # n =>
              \A x \in ToSet(s[p].rest) : x.op = op => e.ev.n > x.n,
           NEW t, IsSeq(t), DOMAIN t = 1..(n + 1), Len(t) = n + 1, \A i \in 1..n : t[i] = s[i],
           t[n + 1].kind = "dispatch", t[n + 1].cur = NoItem,
           ToSet(t[n + 1].rest) = {e}, Len(t[n + 1].rest) = 1
    PROVE  SshOrder(q, t, c, sq, em, oc)
<1>1. \A p \in SshBatchesOf(t) : p \in SshBatchesOf(s) /\ t[p] = s[p] /\ p \in 1..n
  BY DEF SshBatchesOf
<1>2. \A p \in BatchesOf(t) : (p \in BatchesOf(s) /\ t[p] = s[p]) \/ p = n + 1
  BY DEF BatchesOf
<1>3. \A p \in 1..n : DepthTo(t, p) = DepthTo(s, p)
  <2> SUFFICES ASSUME NEW p \in 1..n PROVE DepthTo(t, p) = DepthTo(s, p)  OBVIOUS
  <2>1. p \in Nat /\ \A i \in 1..p : i \in 1..n  OBVIOUS
  <2> QED  BY <2>1, SameDepth
<1>4. SshLine(t, sq, em)
  <2>1. \A p \in DOMAIN t : t[p].kind \in {"dispatch", "ssh", "close"}
    <3> SUFFICES ASSUME NEW p \in DOMAIN t PROVE t[p].kind \in {"dispatch", "ssh", "close"}  OBVIOUS
    <3>1. p \in 1..n \/ p = n + 1  OBVIOUS
    <3> QED  BY <3>1 DEF SshOrder, SshLine
  <2> QED  BY <1>1, <1>3, <2>1 DEF SshOrder, SshLine
<1>5. SshWaits(q, t, sq, em, oc)
  <2> SUFFICES ASSUME NEW p \in BatchesOf(t), NEW y \in ToSet(t[p].rest), NEW x \in Ops,
                      SshItem(y, x, oc)
               PROVE  SshWaitsAt(y, x, p, t, sq, em)
    BY DEF SshOrder, SshWaits
  <2>1. p = n + 1  BY <1>2 DEF NoSshItems
  <2>2. y = e /\ x = op  BY <2>1 DEF SshItem
  <2>3. p - 1 = n /\ p > 1 /\ t[p - 1].kind = "ssh" /\ n \in SshBatchesOf(s)
    BY <2>1 DEF SshBatchesOf
  <2>4. \A r \in SshBatchesOf(t) : \A z \in ToSet(t[r].rest) :
            z.op = op => IF r = p - 1 THEN e.ev.n < z.n ELSE e.ev.n > z.n
    BY <1>1, <2>3
  <2> QED  BY <2>1, <2>2, <2>3, <2>4 DEF SshWaitsAt
<1>6. SshHeard(t, c, sq, em, oc)
  BY <1>1, <1>3 DEF SshOrder, SshHeard
<1> QED  BY <1>4, <1>5, <1>6 DEF SshOrder

\* A sequence of events that rises.
LEMMA RisingTail ==
    ASSUME NEW s, IsSeq(s), Rising(s), s # <<>>
    PROVE  /\ Rising(Tail(s))
           /\ \A x \in ToSet(Tail(s)) : x.op = Head(s).op => Head(s).n < x.n
<1>1. Len(s) \in Nat /\ s \in Seq(ToSet(s)) /\ DOMAIN s = 1..Len(s)
  BY SeqIs
<1>2. /\ Len(s) \in Nat \ {0} /\ Tail(s) \in Seq(ToSet(s)) /\ Len(Tail(s)) = Len(s) - 1
      /\ \A i \in 1..Len(Tail(s)) : Tail(s)[i] = s[i + 1]
      /\ Head(s) = s[1]
  BY <1>1, EmptySeq, HeadTailProperties
<1>3. DOMAIN Tail(s) = 1..(Len(s) - 1)
  BY <1>2
<1>4. ASSUME NEW i \in 1..(Len(s) - 1), NEW j \in 1..(Len(s) - 1), i < j,
             Tail(s)[i].op = Tail(s)[j].op
      PROVE  Tail(s)[i].n < Tail(s)[j].n
  <2>1. i + 1 \in 1..Len(s) /\ j + 1 \in 1..Len(s) /\ i + 1 < j + 1  BY <1>2, <1>4
  <2>2. Tail(s)[i] = s[i + 1] /\ Tail(s)[j] = s[j + 1]  BY <1>2
  <2> QED  BY <1>1, <1>4, <2>1, <2>2 DEF Rising
<1>5. ASSUME NEW i \in 1..(Len(s) - 1), Tail(s)[i].op = Head(s).op
      PROVE  Head(s).n < Tail(s)[i].n
  <2>1. i + 1 \in 1..Len(s) /\ 1 \in 1..Len(s) /\ 1 < i + 1  BY <1>2
  <2>2. Tail(s)[i] = s[i + 1]  BY <1>2
  <2> QED  BY <1>1, <1>2, <1>5, <2>1, <2>2 DEF Rising
<1> QED  BY <1>3, <1>4, <1>5 DEF Rising, ToSet

LEMMA RisingAppended ==
    ASSUME NEW s, IsSeq(s), Rising(s), NEW e, \A x \in ToSet(s) : x.op = e.op => x.n < e.n
    PROVE  Rising(Append(s, e))
<1> DEFINE t == Append(s, e)
           n == Len(s)
<1>1. /\ IsSeq(t) /\ Len(t) = n + 1 /\ t[n + 1] = e /\ \A i \in 1..n : t[i] = s[i]
      /\ n \in Nat /\ DOMAIN s = 1..n /\ \A i \in 1..n : s[i] \in ToSet(s)
  BY AppendIs, SeqIs
<1> HIDE DEF t, n
<1>2. DOMAIN t = 1..(n + 1)
  <2>1. \A z : IsSeq(z) => DOMAIN z = 1..Len(z)  BY SeqIs
  <2> QED  BY <1>1, <2>1
<1>3. ASSUME NEW i \in 1..(n + 1), NEW j \in 1..(n + 1), i < j, t[i].op = t[j].op
      PROVE  t[i].n < t[j].n
  <2>1. i \in 1..n /\ (j \in 1..n \/ j = n + 1)  BY <1>1, <1>3
  <2>2. CASE j \in 1..n  BY <1>1, <1>3, <2>1, <2>2 DEF Rising
  <2>3. CASE j = n + 1  BY <1>1, <1>3, <2>1, <2>3
  <2> QED  BY <2>1, <2>2, <2>3
<1>4. Rising(t)
  BY <1>2, <1>3 DEF Rising
<1> QED  BY <1>4 DEF t

LEMMA RisingSubSeq ==
    ASSUME NEW s, IsSeq(s), Rising(s), NEW m \in Nat \ {0}, NEW n \in Nat, n <= Len(s)
    PROVE  Rising(SubSeq(s, m, n))
<1>1. s \in Seq(ToSet(s)) /\ Len(s) \in Nat /\ DOMAIN s = 1..Len(s)
  BY SeqIs
<1> DEFINE t == SubSeq(s, m, n)
           l == IF m <= n THEN n - m + 1 ELSE 0
<1>2. /\ DOMAIN t = 1..l /\ l \in Nat
      /\ \A i \in 1..l : t[i] = s[m + i - 1] /\ m + i - 1 \in 1..Len(s)
  <2>1. \A i \in m..n : i \in 1..Len(s) /\ s[i] \in ToSet(s)  BY <1>1, SeqIs
  <2>2. /\ t \in Seq(ToSet(s)) /\ Len(t) = l
        /\ \A i \in 1..(n - m + 1) : t[i] = s[m + i - 1]
    BY <2>1, SubSeqProperties
  <2>3. 1..(n - m + 1) = 1..l /\ l \in Nat  OBVIOUS
  <2>4. \A i \in 1..l : m + i - 1 \in m..n  OBVIOUS
  <2>5. DOMAIN t = 1..l  BY <2>2
  <2> HIDE DEF l, t
  <2> QED  BY <2>1, <2>2, <2>3, <2>4, <2>5
<1> HIDE DEF t, l
<1>3. ASSUME NEW i \in 1..l, NEW j \in 1..l, i < j, t[i].op = t[j].op
      PROVE  t[i].n < t[j].n
  <2>1. m + i - 1 < m + j - 1  BY <1>2, <1>3
  <2> QED  BY <1>1, <1>2, <1>3, <2>1 DEF Rising
<1>4. Rising(t)
  BY <1>2, <1>3 DEF Rising
<1> QED  BY <1>4 DEF t

LEMMA SshStartOrders ==
    ASSUME Ordered, OwnInv, NEW with \in BOOLEAN, SshStart(with), UntoldIn(AllItems, next_id)
    PROVE  Orders({}) /\ SshTableInv'
<1>1. /\ ssh_next \in Ops /\ ssh_next' = ssh_next + 1
      /\ UNCHANGED <<queue, stack, called, emitted, ssh_queue, buffered_events>>
  BY DEF SshStart
<1>2. CASE ~with
  <2>1. UNCHANGED <<op_callback, callback_by_operation>>  BY <1>2 DEF SshStart
  <2>2. Orders({})  BY <1>1, <2>1, StayingOrders DEF LsQueues
  <2>3. SshTableInv'  BY <1>1, <2>1 DEF Ordered, SshTableInv, Ops
  <2> QED  BY <2>2, <2>3
<1>3. CASE with
  <2>1. /\ op_callback' = [op_callback EXCEPT ![ssh_next] = next_id]
        /\ callback_by_operation' = [op \in DOMAIN callback_by_operation \cup {ssh_next} |->
                 IF op = ssh_next THEN next_id ELSE callback_by_operation[op]]
    BY <1>3 DEF SshStart
  <2>2. next_id \in Callbacks /\ next_id # NoCallback
    BY <1>3, CallbackBounds DEF SshStart, Reregister, OwnInv, Callbacks, NoCallback
  <2>3. /\ DOMAIN op_callback' = Ops /\ op_callback'[ssh_next] = next_id
        /\ \A x \in Ops : x # ssh_next => op_callback'[x] = op_callback[x]
    BY <1>1, <2>1 DEF Ordered, SshTableInv
  <2>4. SshOrder(queue, stack, called, ssh_queue, emitted, op_callback')
    BY <1>1, <2>2, <2>3, SshBegun DEF Ordered, AllItems
  <2>5. Orders({})  BY <1>1, <2>4, LikeIs DEF Ordered, Orders, AllItems
  <2>6. /\ \A x \in Ops : emitted'[x] \in Nat /\ op_callback'[x] \in Callbacks \cup {NoCallback}
        /\ DOMAIN emitted' = Ops
    BY <1>1, <2>2, <2>3 DEF Ordered, SshTableInv
  <2>7. ssh_next' \in Nat \ {0} /\ IsSeq(buffered_events')  BY <1>1 DEF Ordered, SshTableInv
  <2>8. \A op \in Ops : op >= ssh_next' => op_callback'[op] = NoCallback /\ emitted'[op] = 0
    <3> SUFFICES ASSUME NEW op \in Ops, op >= ssh_next'
                 PROVE  op_callback'[op] = NoCallback /\ emitted'[op] = 0
      OBVIOUS
    <3>1. op >= ssh_next /\ op # ssh_next  BY <1>1 DEF Ordered, SshTableInv, Ops
    <3> QED  BY <1>1, <2>3, <3>1 DEF Ordered, SshTableInv
  <2>9. \A op \in DOMAIN callback_by_operation' :
          /\ op \in Ops /\ callback_by_operation'[op] = op_callback'[op]
          /\ op_callback'[op] # NoCallback
    <3> SUFFICES ASSUME NEW op \in DOMAIN callback_by_operation'
                 PROVE  /\ op \in Ops /\ callback_by_operation'[op] = op_callback'[op]
                        /\ op_callback'[op] # NoCallback
      OBVIOUS
    <3>1. CASE op = ssh_next  BY <1>1, <2>1, <2>2, <2>3, <3>1
    <3>2. CASE op # ssh_next /\ op \in DOMAIN callback_by_operation
      <4>1. /\ op \in Ops /\ callback_by_operation[op] = op_callback[op]
            /\ op_callback[op] # NoCallback
        BY <3>2 DEF Ordered, SshTableInv
      <4>2. callback_by_operation'[op] = callback_by_operation[op]  BY <2>1, <3>2
      <4> QED  BY <2>3, <3>2, <4>1, <4>2
    <3> QED  BY <2>1, <3>1, <3>2
  <2>10. SshTableInv'  BY <2>3, <2>6, <2>7, <2>8, <2>9 DEF SshTableInv
  <2> QED  BY <2>5, <2>10
<1> QED  BY <1>2, <1>3

LEMMA SshEmitOrders ==
    ASSUME Ordered, NEW op \in Ops, NEW last \in BOOLEAN, SshEmit(op, last)
    PROVE  Orders({}) /\ SshTableInv'
<1> DEFINE e == [op |-> op, n |-> emitted[op] + 1, last |-> last]
<1>1. e.op = op /\ e.n = emitted[op] + 1
  OBVIOUS
<1>2. /\ op < ssh_next /\ emitted' = [emitted EXCEPT ![op] = @ + 1]
      /\ ssh_queue' = Append(ssh_queue, e)
      /\ UNCHANGED <<queue, stack, called, op_callback, ssh_next, callback_by_operation,
                     buffered_events>>
  BY DEF SshEmit, cbVars
<1> HIDE DEF e
<1>3. /\ DOMAIN emitted' = Ops /\ emitted'[op] = emitted[op] + 1
      /\ \A x \in Ops : x # op => emitted'[x] = emitted[x]
  BY <1>2 DEF Ordered, SshTableInv
<1>4. /\ IsSeq(ssh_queue) /\ Rising(ssh_queue)
      /\ \A x \in ToSet(ssh_queue) : x.op = e.op => x.n < e.n
  <2>1. IsSeq(ssh_queue) /\ Rising(ssh_queue) /\ Emitted(ToSet(ssh_queue), emitted)
    BY DEF Ordered, SshOrder, SshLine
  <2>2. emitted[op] \in Nat  BY DEF Ordered, SshTableInv
  <2>3. ASSUME NEW x \in ToSet(ssh_queue), x.op = e.op PROVE x.n < e.n
    <3>1. x.n \in Nat /\ x.n <= emitted[op]  BY <1>1, <2>1, <2>3 DEF Emitted
    <3> QED  BY <1>1, <2>2, <3>1
  <2> QED  BY <2>1, <2>3
<1>5. IsSeq(ssh_queue') /\ Rising(ssh_queue') /\ ToSet(ssh_queue') = ToSet(ssh_queue) \cup {e}
  BY <1>2, <1>4, AppendIs, RisingAppended
<1>6. SshOrder(queue, stack, called, ssh_queue', emitted', op_callback)
  <2>1. /\ Order(queue, stack, called)
        /\ SshOrder(queue, stack, called, ssh_queue, emitted, op_callback)
        /\ \A x \in Ops : emitted[x] \in Nat /\ op_callback[x] \in Callbacks \cup {NoCallback}
    BY DEF Ordered, SshTableInv
  <2> QED  BY <1>1, <1>3, <1>5, <2>1, SshEmitted
<1>7. Orders({})
  BY <1>2, <1>6, LikeIs DEF Ordered, Orders, AllItems
<1>8. SshTableInv'
  <2>1. \A x \in Ops : emitted'[x] \in Nat  BY <1>3 DEF Ordered, SshTableInv
  <2>2. \A x \in Ops : x >= ssh_next => emitted'[x] = 0
    <3> SUFFICES ASSUME NEW x \in Ops, x >= ssh_next PROVE emitted'[x] = 0  OBVIOUS
    <3>1. x # op  BY <1>2 DEF Ordered, SshTableInv, Ops
    <3> QED  BY <1>3, <3>1 DEF Ordered, SshTableInv
  <2> QED  BY <1>2, <1>3, <2>1, <2>2 DEF Ordered, SshTableInv
<1> QED  BY <1>7, <1>8

LEMMA SshDispatchOrders ==
    ASSUME Ordered, LuaRuns, SshDispatch
    PROVE  Orders({}) /\ SshTableInv'
<1> DEFINE f == Frame("ssh", ssh_queue, NoItem)
           n == Len(stack)
<1>1. IsSeq(stack) /\ f.kind = "ssh" /\ f.rest = ssh_queue
  BY DEF Ordered, Order, Sequenced, Frame
<1>2. /\ stack' = Append(stack, f) /\ ssh_queue' = <<>>
      /\ UNCHANGED <<queue, called, ssh_next, emitted, callback_by_operation, op_callback,
                     buffered_events>>
  BY DEF SshDispatch
<1> HIDE DEF f
<1>3. /\ DOMAIN stack = 1..n /\ n \in Nat /\ IsSeq(stack') /\ DOMAIN stack' = 1..(n + 1)
      /\ stack'[n + 1] = f /\ \A i \in 1..n : stack'[i] = stack[i]
  <2>1. IsSeq(stack') /\ Len(stack') = n + 1  BY <1>1, <1>2, AppendIs
  <2>2. DOMAIN stack' = 1..Len(stack')
    <3>1. \A s : IsSeq(s) => DOMAIN s = 1..Len(s)  BY SeqIs
    <3> QED  BY <2>1, <3>1
  <2> QED  BY <1>1, <1>2, <2>1, <2>2, AppendIs, SeqIs
<1>4. n > 0 => stack[n].kind = "dispatch"
  <2>1. n > 0 => stack # <<>>
    <3>1. stack = <<>> => n = 0  OBVIOUS
    <3> QED  BY <1>3, <3>1
  <2>2. n > 0 => Top = stack[n]  BY <2>1 DEF Top
  <2>3. n > 0 => stack[n].kind \in {"dispatch", "ssh", "close"}
    BY <1>3 DEF Ordered, SshOrder, SshLine
  <2> HIDE DEF n
  <2> QED  BY <2>2, <2>3 DEF LuaRuns
<1>5. \A p \in BatchesOf(stack) : NoSshItems(ToSet(stack[p].rest), op_callback)
  BY <1>1, TopIsQuiet, QuietMeansNoSshItems
<1> HIDE DEF n
<1>6. IsSeq(ssh_queue') /\ DOMAIN ssh_queue' = {} /\ ToSet(ssh_queue') = {}
  BY <1>2, EmptyIsSeq
<1>7. stack'[n + 1].kind = "ssh" /\ stack'[n + 1].rest = ssh_queue
  BY <1>1, <1>3
<1>8. SshOrder(queue, stack', called, ssh_queue', emitted, op_callback)
  <2>1. SshOrder(queue, stack, called, ssh_queue, emitted, op_callback)  BY DEF Ordered
  <2>2. /\ n \in Nat /\ DOMAIN stack = 1..n /\ DOMAIN stack' = 1..(n + 1)
        /\ \A i \in 1..n : stack'[i] = stack[i]
    BY <1>3
  <2> QED  BY <1>4, <1>5, <1>6, <1>7, <2>1, <2>2, SshTaken
<1>9. Order(queue, stack', called) /\ AllIn(queue, stack', called) \subseteq AllItems
  <2>1. \A p \in BatchesOf(stack') : /\ p \in BatchesOf(stack)
                                     /\ stack'[p].rest = stack[p].rest
                                     /\ DepthTo(stack', p) = DepthTo(stack, p)
    <3> SUFFICES ASSUME NEW p \in BatchesOf(stack')
                 PROVE  /\ p \in BatchesOf(stack)
                        /\ stack'[p].rest = stack[p].rest
                        /\ DepthTo(stack', p) = DepthTo(stack, p)
      OBVIOUS
    <3>1. p \in 1..n  BY <1>3, <1>7 DEF BatchesOf
    <3>2. p \in Nat /\ \A i \in 1..p : i \in 1..n  BY <1>3, <3>1
    <3>3. DepthTo(stack', p) = DepthTo(stack, p)  BY <1>3, <3>2, SameDepth
    <3> QED  BY <1>3, <3>1, <3>3 DEF BatchesOf
  <2> QED  BY <1>3, <2>1, OrderFramed DEF Ordered, AllItems
<1>10. Orders({})
  BY <1>2, <1>8, <1>9, LikeIs DEF Orders, AllItems
<1>11. SshTableInv'
  BY <1>2 DEF Ordered, SshTableInv
<1> QED  BY <1>10, <1>11

\* handle_polled_event takes the next event of its batch, m being the stack then.
LEMMA SshHeadTaken ==
    ASSUME Ordered, FrameInv, Top.kind = "ssh", Top.rest # <<>>,
           NEW n, n = Len(stack), NEW m, IsSeq(m), DOMAIN m = 1..n,
           \A i \in 1..(n - 1) : m[i] = stack[i], m[n].kind = "ssh", m[n].rest = Tail(Top.rest)
    PROVE  /\ IsSeq(m) /\ n \in Nat \ {0} /\ DOMAIN m = 1..n /\ Len(m) = n /\ n \in SshBatchesOf(stack)
           /\ m[n].kind = "ssh" /\ m[n].rest = Tail(stack[n].rest)
           /\ stack[n].rest = Top.rest /\ IsSeq(Top.rest) /\ Rising(Top.rest)
           /\ \A i \in 1..n : i # n => m[i] = stack[i]
           /\ \A p \in 1..n : DepthTo(m, p) = DepthTo(stack, p)
           /\ Order(queue, m, called) /\ AllIn(queue, m, called) \subseteq AllItems
           /\ SshOrder(queue, m, called, ssh_queue, emitted, op_callback)
           /\ \A p \in BatchesOf(m) : NoSshItems(ToSet(m[p].rest), op_callback)
<1>2. n \in Nat \ {0} /\ DOMAIN stack = 1..n /\ Top = stack[n]
  BY TopIs
<1>4. IsSeq(m) /\ DOMAIN m = 1..n /\ \A i \in 1..n : i # n => m[i] = stack[i]
  BY <1>2
<1>5. Len(m) = n
  <2>1. Len(m) \in Nat /\ 1..Len(m) = 1..n  BY <1>4, SeqIs
  <2> QED  BY <1>2, <2>1
<1>6. n \in SshBatchesOf(stack) /\ m[n].kind = "ssh" /\ m[n].rest = Tail(stack[n].rest)
  BY <1>2 DEF SshBatchesOf
<1>7. IsSeq(stack[n].rest) /\ Rising(stack[n].rest) /\ stack[n].rest # <<>>
  BY <1>2, <1>6 DEF Ordered, SshOrder, SshLine
<1>8. \A p \in 1..n : m[p].kind = stack[p].kind
  BY <1>2, <1>4, <1>6
<1>9. \A p \in 1..n : DepthTo(m, p) = DepthTo(stack, p)
  <2> SUFFICES ASSUME NEW p \in 1..n PROVE DepthTo(m, p) = DepthTo(stack, p)  OBVIOUS
  <2>1. p \in Nat /\ \A i \in 1..p : i \in 1..n  BY <1>2
  <2> QED  BY <1>8, <2>1, SameDepth
<1>10. \A p \in BatchesOf(m) : p \in BatchesOf(stack) /\ m[p] = stack[p] /\ p \in 1..n
  BY <1>2, <1>4, <1>6 DEF BatchesOf
<1>11. Order(queue, m, called) /\ AllIn(queue, m, called) \subseteq AllItems
  BY <1>4, <1>9, <1>10, OrderFramed DEF Ordered, AllItems
<1>12. \A p \in BatchesOf(m) : NoSshItems(ToSet(m[p].rest), op_callback)
  <2>1. IsSeq(stack)  BY DEF Ordered, Order, Sequenced
  <2> QED  BY <1>10, <2>1, TopIsQuiet, QuietMeansNoSshItems
<1>13. SshOrder(queue, m, called, ssh_queue, emitted, op_callback)
  <2>1. \A p \in DOMAIN m : m[p].kind \in {"dispatch", "ssh", "close"}
    BY <1>2, <1>4, <1>8 DEF Ordered, SshOrder, SshLine
  <2>2. NoSshItems(ToSet(queue), op_callback)  BY DEF Ordered, SshOrder, SshWaits
  <2>3. ASSUME NEW p \in SshBatchesOf(m)
        PROVE  /\ p \in SshBatchesOf(stack) /\ DepthTo(m, p) = DepthTo(stack, p)
               /\ IsSeq(m[p].rest) /\ Rising(m[p].rest)
               /\ ToSet(m[p].rest) \subseteq ToSet(stack[p].rest)
    <3>1. p \in 1..n /\ p \in SshBatchesOf(stack)  BY <1>2, <1>4, <1>8 DEF SshBatchesOf
    <3>2. CASE p = n
      <4>1. IsSeq(Tail(stack[n].rest)) /\ ToSet(Tail(stack[n].rest)) \subseteq ToSet(stack[n].rest)
        BY <1>7, TailIs
      <4>2. Rising(Tail(stack[n].rest))  BY <1>7, RisingTail
      <4> QED  BY <1>6, <1>9, <3>1, <3>2, <4>1, <4>2
    <3>3. CASE p # n
      <4>1. m[p] = stack[p] /\ IsSeq(stack[p].rest) /\ Rising(stack[p].rest)
        BY <1>4, <3>1, <3>3 DEF Ordered, SshOrder, SshLine
      <4> QED  BY <1>9, <3>1, <4>1
    <3> QED  BY <3>2, <3>3
  <2> QED  BY <1>12, <2>1, <2>2, <2>3, SshShrunk DEF Ordered
<1>14. stack[n].rest = Top.rest /\ IsSeq(Top.rest) /\ Rising(Top.rest)
  BY <1>2, <1>7
<1> QED  BY <1>2, <1>4, <1>5, <1>6, <1>9, <1>11, <1>12, <1>13, <1>14

\* A dispatch of one event of cb takes the item at the end of the queue if it is
\* the only one of cb.
LEMMA LastTaken ==
    ASSUME NEW q, IsSeq(q), Ascending(q), NEW item, \A e \in ToSet(q) : e.cb # item.cb
    PROVE  LET r == Append(q, item)
               taken == TakenAt(r, {item.cb}, 1)
           IN  /\ taken # {} /\ taken \in SUBSET DOMAIN r
               /\ IsSeq(At(r, taken)) /\ Len(At(r, taken)) = 1 /\ ToSet(At(r, taken)) = {item}
               /\ Ascending(At(r, taken))
               /\ IsSeq(At(r, DOMAIN r \ taken)) /\ Ascending(At(r, DOMAIN r \ taken))
               /\ ToSet(At(r, DOMAIN r \ taken)) \subseteq ToSet(q)
<1> DEFINE r == Append(q, item)
           taken == TakenAt(r, {item.cb}, 1)
           n == Len(q)
<1>1. /\ IsSeq(r) /\ Len(r) = n + 1 /\ r[n + 1] = item /\ \A i \in 1..n : r[i] = q[i]
      /\ n \in Nat /\ DOMAIN q = 1..n /\ \A i \in 1..n : q[i] \in ToSet(q)
  BY AppendIs, SeqIs
<1> HIDE DEF r, n
<1>2. DOMAIN r = 1..(n + 1)
  <2>1. \A z : IsSeq(z) => DOMAIN z = 1..Len(z)  BY SeqIs
  <2> QED  BY <1>1, <2>1
<1>3. \A i \in DOMAIN r : r[i].cb = item.cb <=> i = n + 1
  <2> SUFFICES ASSUME NEW i \in DOMAIN r PROVE r[i].cb = item.cb <=> i = n + 1  OBVIOUS
  <2>1. i \in 1..n \/ i = n + 1  BY <1>1, <1>2
  <2>2. CASE i \in 1..n
    <3>1. r[i].cb # item.cb  BY <1>1, <2>2
    <3> QED  BY <1>1, <2>2, <3>1
  <2> QED  BY <1>1, <2>1, <2>2
<1>4. taken = {n + 1}
  <2>1. \A i \in DOMAIN r : {j \in 1..i : r[j].cb \in {item.cb}} \subseteq {n + 1}
    <3>1. \A i \in DOMAIN r : \A j \in 1..i : j \in DOMAIN r  BY <1>1, <1>2
    <3> QED  BY <1>3, <3>1
  <2>2. \A i \in DOMAIN r : Cardinality({j \in 1..i : r[j].cb \in {item.cb}}) <= 1
    <3>1. IsFiniteSet({n + 1}) /\ Cardinality({n + 1}) = 1  BY FS_Singleton
    <3> QED  BY <2>1, <3>1, FS_Subset
  <2>3. taken = {i \in DOMAIN r : r[i].cb \in {item.cb}}  BY <2>2 DEF TakenAt
  <2>4. n + 1 \in DOMAIN r  BY <1>1, <1>2
  <2> HIDE DEF taken
  <2> QED  BY <1>3, <2>3, <2>4
<1> HIDE DEF taken
<1>5. n + 1 \in DOMAIN r /\ DOMAIN r \ taken \in SUBSET DOMAIN r /\ taken \in SUBSET DOMAIN r
  BY <1>1, <1>2, <1>4
<1>6. Ascending(r)
  <2> SUFFICES ASSUME NEW i \in 1..(n + 1), NEW j \in 1..(n + 1), i < j
               PROVE  Earlier(r[i], r[j])
    BY <1>2 DEF Ascending
  <2>1. i \in 1..n /\ (j \in 1..n \/ j = n + 1)  BY <1>1
  <2>2. CASE j \in 1..n  BY <1>1, <2>1, <2>2 DEF Ascending
  <2>3. CASE j = n + 1  BY <1>1, <2>1, <2>3 DEF Earlier
  <2> QED  BY <2>1, <2>2, <2>3
<1>7. /\ IsSeq(At(r, taken)) /\ ToSet(At(r, taken)) = {r[i] : i \in taken}
      /\ Len(At(r, taken)) = Cardinality(taken)
  BY <1>1, <1>5, AtIs
<1>8. ToSet(At(r, taken)) = {item} /\ Len(At(r, taken)) = 1
  <2>1. Cardinality(taken) = 1  BY <1>4, FS_Singleton
  <2>2. {r[i] : i \in taken} = {r[n + 1]}  BY <1>4
  <2> QED  BY <1>1, <1>7, <2>1, <2>2
<1>9. /\ IsSeq(At(r, DOMAIN r \ taken))
      /\ ToSet(At(r, DOMAIN r \ taken)) = {r[i] : i \in DOMAIN r \ taken}
  BY <1>1, <1>5, AtIs
<1>10. ToSet(At(r, DOMAIN r \ taken)) \subseteq ToSet(q)
  <2>1. \A i \in DOMAIN r \ taken : r[i] \in ToSet(q)
    <3>1. \A i \in DOMAIN r \ taken : i \in 1..n  BY <1>1, <1>2, <1>4
    <3> QED  BY <1>1, <3>1
  <2> QED  BY <1>9, <2>1
<1>11. Ascending(At(r, taken)) /\ Ascending(At(r, DOMAIN r \ taken))
  BY <1>1, <1>5, <1>6, AscendingAt
<1>12. taken # {}
  BY <1>4
<1> QED  BY <1>5, <1>7, <1>8, <1>9, <1>10, <1>11, <1>12 DEF taken, r

\* Items of the ssh module.
SshTells(items) ==
    \A e \in items : \E op \in Ops : SshItem(e, op, op_callback) /\ e.ev.of = "ssh" /\ e.ev.id = op

LEMMA SshHandleOrders ==
    ASSUME Ordered, FrameInv, SshHandle,
           \A x, y \in Ops : op_callback[x] = op_callback[y] /\ op_callback[x] # NoCallback => x = y
    PROVE  SshTableInv' /\ \E items : Orders(items) /\ SshTells(items)
<1> DEFINE n == Len(stack)
           b == Top.rest
           r == Tail(b)
           e == Head(b)
<1>1. /\ Top.kind = "ssh" /\ b # <<>>
      /\ UNCHANGED <<called, ssh_next, emitted, ssh_queue, callback_by_operation, op_callback>>
  BY DEF SshHandle
<1>2. SshTableInv'
  <2>1. IsSeq(buffered_events)  BY DEF Ordered, SshTableInv
  <2>2. IsSeq(Append(buffered_events, Head(Top.rest)))  BY <2>1, AppendIs
  <2>3. buffered_events' = buffered_events \/ buffered_events' = Append(buffered_events, Head(Top.rest))
    BY DEF SshHandle
  <2>4. IsSeq(buffered_events')  BY <2>1, <2>2, <2>3
  <2> QED  BY <1>1, <2>4 DEF Ordered, SshTableInv
<1>3. ASSUME NEW cur, NEW m, m = Append(Below, Frame("ssh", r, cur))
      PROVE  /\ IsSeq(m) /\ DOMAIN m = 1..n /\ m[n].kind = "ssh" /\ m[n].rest = r
             /\ \A i \in 1..(n - 1) : m[i] = stack[i]
  <2> DEFINE f == Frame("ssh", r, cur)
  <2>1. f.kind = "ssh" /\ f.rest = r /\ m = Append(Below, f)  BY <1>3 DEF Frame
  <2> HIDE DEF f
  <2>2. DOMAIN stack = 1..n  BY <1>1, TopIs
  <2>3. /\ IsSeq(Append(Below, f)) /\ DOMAIN Append(Below, f) = DOMAIN stack
        /\ Append(Below, f)[Len(stack)] = f
        /\ \A i \in 1..(Len(stack) - 1) : Append(Below, f)[i] = stack[i]
    BY <1>1, ReplacedIs
  <2> QED  BY <2>1, <2>2, <2>3
<1>4. CASE e.op \notin DOMAIN callback_by_operation
  <2>1. stack' = Append(Below, Frame("ssh", r, NoItem)) /\ queue' = queue  BY <1>4 DEF SshHandle
  <2>2. /\ IsSeq(stack') /\ DOMAIN stack' = 1..n /\ stack'[n].kind = "ssh" /\ stack'[n].rest = r
        /\ \A i \in 1..(n - 1) : stack'[i] = stack[i]
    BY <1>3, <2>1
  <2>3. /\ Order(queue, stack', called) /\ AllIn(queue, stack', called) \subseteq AllItems
        /\ SshOrder(queue, stack', called, ssh_queue, emitted, op_callback)
    <3> HIDE DEF n, r
    <3>1. n = Len(stack) /\ r = Tail(Top.rest)  BY DEF n, r
    <3> QED  BY <1>1, <2>2, <3>1, SshHeadTaken DEF b
  <2>4. Orders({})  BY <1>1, <2>1, <2>3, LikeIs DEF Orders, AllItems
  <2>5. SshTells({})  BY DEF SshTells
  <2> QED  BY <1>2, <2>4, <2>5
<1>5. CASE e.op \in DOMAIN callback_by_operation
  <2> DEFINE op == e.op
             item == Item(callback_by_operation[op], SshEvent(e))
             m == Append(Below, Frame("ssh", r, item))
             w == Append(queue, item)
             taken == TakenAt(w, {item.cb}, 1)
             f == Frame("dispatch", At(w, taken), NoItem)
  <2>1. /\ item.cb = callback_by_operation[op] /\ item.ev.of = "ssh" /\ item.ev.id = op
        /\ item.ev.n = e.n
    BY DEF Item, SshEvent, Event
  <2>2. DispatchFrom(m, w, {item.cb}, 1)  BY <1>5 DEF SshHandle, Item
  <2>3. /\ op \in Ops /\ item.cb = op_callback[op] /\ op_callback[op] # NoCallback
        /\ op_callback[op] \in Callbacks /\ emitted[op] \in Nat
    BY <1>5, <2>1 DEF Ordered, SshTableInv
  <2>4. /\ IsSeq(m) /\ DOMAIN m = 1..n /\ m[n].kind = "ssh" /\ m[n].rest = r
        /\ \A i \in 1..(n - 1) : m[i] = stack[i]
    BY <1>3
  <2>5. f.kind = "dispatch" /\ f.rest = At(w, taken) /\ f.cur = NoItem  BY DEF Frame
  <2>6. /\ queue' = At(w, DOMAIN w \ taken)
        /\ taken # {} => stack' = Append(m, f)
    BY <2>2 DEF DispatchFrom
  <2> HIDE DEF item, m, f
  <2>7. /\ IsSeq(m) /\ n \in Nat \ {0} /\ DOMAIN m = 1..n /\ Len(m) = n /\ n \in SshBatchesOf(stack)
        /\ m[n].kind = "ssh" /\ m[n].rest = Tail(stack[n].rest)
        /\ stack[n].rest = b /\ IsSeq(b) /\ Rising(b)
        /\ \A i \in 1..n : i # n => m[i] = stack[i]
        /\ \A p \in 1..n : DepthTo(m, p) = DepthTo(stack, p)
        /\ Order(queue, m, called) /\ AllIn(queue, m, called) \subseteq AllItems
        /\ SshOrder(queue, m, called, ssh_queue, emitted, op_callback)
        /\ \A p \in BatchesOf(m) : NoSshItems(ToSet(m[p].rest), op_callback)
    <3> HIDE DEF n, r
    <3>1. n = Len(stack) /\ r = Tail(Top.rest)  BY DEF n, r
    <3> QED  BY <1>1, <2>4, <3>1, SshHeadTaken DEF b
  <2> HIDE DEF n
  <2>8. NoSshItems(ToSet(queue), op_callback) /\ \A y \in ToSet(queue) : y.cb # item.cb
    BY <2>3 DEF Ordered, SshOrder, SshWaits, NoSshItems, SshItem
  <2>9. /\ taken # {} /\ taken \in SUBSET DOMAIN w
        /\ IsSeq(At(w, taken)) /\ Len(At(w, taken)) = 1 /\ ToSet(At(w, taken)) = {item}
        /\ Ascending(At(w, taken))
        /\ IsSeq(queue') /\ Ascending(queue') /\ ToSet(queue') \subseteq ToSet(queue)
    BY <2>6, <2>8, LastTaken DEF Ordered, Order, Sequenced, InLine
  <2>10. stack' = Append(m, f)  BY <2>6, <2>9
  <2> HIDE DEF w, taken
  <2>11. Order(queue', m, called) /\ AllIn(queue', m, called) \subseteq AllItems
    <3>1. Order(queue', m, called) /\ AllIn(queue', m, called) \subseteq AllIn(queue, m, called)
      BY <2>7, <2>9, OrderThinned
    <3> QED  BY <2>7, <3>1
  <2>12. \A y \in WaitsIn(queue', m) : y.cb # item.cb
    <3> SUFFICES ASSUME NEW y \in WaitsIn(queue', m) PROVE y.cb # item.cb  OBVIOUS
    <3>1. y \in ToSet(queue') \/ \E p \in BatchesOf(m) : y \in ToSet(m[p].rest)  BY AllIs
    <3> QED  BY <2>3, <2>7, <2>8, <2>9, <3>1 DEF NoSshItems, SshItem
  <2>13. /\ e \in ToSet(b) /\ ToSet(r) \subseteq ToSet(b)
         /\ \A x \in ToSet(r) : x.op = op => e.n < x.n
    BY <1>1, <2>7, TailIs, RisingTail
  <2> HIDE DEF b, r, e
  <2>14. /\ e.n \in Nat /\ e.n <= emitted[op]
         /\ \A x \in ToSet(ssh_queue) : x.op = op => e.n < x.n
    BY <2>7, <2>13 DEF Ordered, SshOrder, SshLine, Emitted, Rises
  <2>15. \A p \in SshBatchesOf(stack) : p # n => \A x \in ToSet(stack[p].rest) :
             x.op = op => x.n < e.n /\ x.n \in Nat
    <3>1. \A p \in SshBatchesOf(stack) : p # n => p < n
      <4>1. DOMAIN stack = 1..n  BY <1>1, TopIs DEF n
      <4> QED  BY <2>7, <4>1 DEF SshBatchesOf
    <3> QED  BY <2>7, <2>13, <3>1 DEF Ordered, SshOrder, SshLine, Emitted, Rises
  <2>16. ASSUME NEW cb \in Callbacks, NEW k \in DOMAIN called[cb], cb = item.cb
         PROVE  Heeds(called[cb][k], item.ev.n, DepthTo(m, n) + 1)
    <3>1. Heeds(called[cb][k], e.n, DepthTo(stack, n) + 1)
      BY <2>3, <2>7, <2>13, <2>16 DEF Ordered, SshOrder, SshHeard
    <3>2. DepthTo(m, n) = DepthTo(stack, n)  BY <2>7
    <3> QED  BY <2>1, <3>1, <3>2
  <2>17. item.ev.n \in Int  BY <2>1, <2>14
  <2>18. /\ Order(queue', stack', called)
         /\ AllIn(queue', stack', called) \subseteq AllIn(queue', m, called) \cup {item}
    BY <2>7, <2>9, <2>10, <2>11, <2>12, <2>16, <2>17, OrderHandled DEF f
  <2>19. /\ IsSeq(stack') /\ DOMAIN stack' = 1..(n + 1) /\ Len(stack') = n + 1
         /\ stack'[n + 1] = f /\ \A i \in 1..n : stack'[i] = m[i]
    <3>1. IsSeq(stack') /\ Len(stack') = n + 1 /\ stack'[n + 1] = f /\ \A i \in 1..n : stack'[i] = m[i]
      BY <2>7, <2>10, AppendIs
    <3>2. \A s : IsSeq(s) => DOMAIN s = 1..Len(s)  BY SeqIs
    <3> QED  BY <3>1, <3>2
  <2>20. SshOrder(queue', m, called, ssh_queue, emitted, op_callback)
    <3>1. NoSshItems(ToSet(queue'), op_callback)  BY <2>8, <2>9 DEF NoSshItems
    <3> QED  BY <2>7, <3>1, SshPosted
  <2>21. SshOrder(queue', stack', called, ssh_queue, emitted, op_callback)
    <3>1. \A x \in Ops : op_callback[x] = item.cb => x = op  BY <2>3
    <3>2. item.ev.n <= emitted[op] /\ \A x \in ToSet(ssh_queue) : x.op = op => item.ev.n < x.n
      BY <2>1, <2>14
    <3>3. \A x \in ToSet(m[n].rest) : x.op = op => item.ev.n < x.n  BY <2>1, <2>4, <2>13
    <3>4. \A p \in SshBatchesOf(m) : p # n => \A x \in ToSet(m[p].rest) : x.op = op => item.ev.n > x.n
      <4> SUFFICES ASSUME NEW p \in SshBatchesOf(m), p # n, NEW x \in ToSet(m[p].rest), x.op = op
                   PROVE  item.ev.n > x.n
        OBVIOUS
      <4>1. p \in SshBatchesOf(stack) /\ x \in ToSet(stack[p].rest)
        <5>1. p \in 1..n /\ m[p] = stack[p] /\ m[p].kind = "ssh"  BY <2>7 DEF SshBatchesOf
        <5>2. DOMAIN stack = 1..n  BY <1>1, TopIs DEF n
        <5> QED  BY <5>1, <5>2 DEF SshBatchesOf
      <4>2. x.n < e.n /\ x.n \in Nat  BY <2>15, <4>1
      <4> QED  BY <2>1, <2>14, <4>2
    <3>5. /\ n \in Nat \ {0} /\ DOMAIN m = 1..n /\ m[n].kind = "ssh"
          /\ op \in Ops /\ item.cb = op_callback[op]
      BY <2>3, <2>7
    <3>6. /\ stack'[n + 1].kind = "dispatch" /\ stack'[n + 1].cur = NoItem
          /\ ToSet(stack'[n + 1].rest) = {item} /\ Len(stack'[n + 1].rest) = 1
      BY <2>5, <2>9, <2>19
    <3>7. \A p \in BatchesOf(m) : NoSshItems(ToSet(m[p].rest), op_callback)  BY <2>7
    <3> HIDE DEF op
    <3> QED  BY <2>19, <2>20, <3>1, <3>2, <3>3, <3>4, <3>5, <3>6, <3>7, SshSent
  <2>22. Orders({item})
    <3>1. AllIn(queue', stack', called) \subseteq AllItems \cup {item}  BY <2>11, <2>18
    <3> QED  BY <1>1, <2>18, <2>21, <3>1, LikeIs DEF Orders, AllItems
  <2>23. SshTells({item})  BY <2>1, <2>3 DEF SshTells, SshItem
  <2> QED  BY <1>2, <2>22, <2>23
<1> QED  BY <1>4, <1>5

LEMMA SshHandledOrders ==
    ASSUME Ordered, FrameInv, SshHandled
    PROVE  Orders({}) /\ SshTableInv'
<1> DEFINE n == Len(stack)
           f == Frame("ssh", Top.rest, NoItem)
<1>1. /\ Top.kind = "ssh" /\ stack' = Append(Below, f)
      /\ UNCHANGED <<queue, called, ssh_next, emitted, ssh_queue, op_callback, buffered_events>>
  BY DEF SshHandled
<1>2. f.kind = "ssh" /\ f.rest = Top.rest
  BY DEF Frame
<1> HIDE DEF f
<1>3. /\ n \in Nat \ {0} /\ DOMAIN stack = 1..n /\ Top = stack[n]
      /\ IsSeq(stack') /\ DOMAIN stack' = 1..n /\ stack'[n] = f
      /\ \A i \in 1..(n - 1) : stack'[i] = stack[i]
  <2>1. /\ IsSeq(Append(Below, f)) /\ DOMAIN Append(Below, f) = DOMAIN stack
        /\ Append(Below, f)[Len(stack)] = f
        /\ \A i \in 1..(Len(stack) - 1) : Append(Below, f)[i] = stack[i]
    BY <1>1, ReplacedIs
  <2>2. n \in Nat \ {0} /\ DOMAIN stack = 1..n /\ Top = stack[n]  BY <1>1, TopIs
  <2> QED  BY <1>1, <2>1, <2>2
<1>4. \A p \in BatchesOf(stack) : NoSshItems(ToSet(stack[p].rest), op_callback)
  BY <1>1, TopIsQuiet, QuietMeansNoSshItems DEF Ordered, Order, Sequenced
<1> HIDE DEF n
<1>5. \A i \in 1..n : stack'[i].kind = stack[i].kind /\ stack'[i].rest = stack[i].rest
  BY <1>1, <1>2, <1>3
<1>6. \A p \in 1..n : p \in Nat /\ \A i \in 1..p : i \in 1..n
  BY <1>3
<1>7. \A p \in BatchesOf(stack') : NoSshItems(ToSet(stack'[p].rest), op_callback)
  BY <1>3, <1>4, <1>5 DEF BatchesOf
<1>8. IsSeq(queue') /\ Ascending(queue') /\ ToSet(queue') \subseteq ToSet(queue)
  BY <1>1, QueueThinned
<1>9. \A p \in DOMAIN stack' : stack'[p].kind \in {"dispatch", "ssh", "close"}
  BY <1>3, <1>5 DEF Ordered, SshOrder, SshLine
<1>10. Orders({})
  BY <1>1, <1>3, <1>5, <1>6, <1>7, <1>8, <1>9, FramingOrders DEF LsQueues
<1>11. \A op \in DOMAIN callback_by_operation' :
          op \in DOMAIN callback_by_operation
          /\ callback_by_operation'[op] = callback_by_operation[op]
  BY DEF SshHandled
<1>12. SshTableInv'
  BY <1>1, <1>11 DEF Ordered, SshTableInv
<1> QED  BY <1>10, <1>12

LEMMA SshDispatchedOrders ==
    ASSUME Ordered, FrameInv, SshDispatched
    PROVE  Orders({}) /\ SshTableInv'
<1>1. /\ Top.kind = "ssh" /\ stack' = Below
      /\ UNCHANGED <<queue, called, ssh_next, emitted, ssh_queue, callback_by_operation,
                     op_callback, buffered_events>>
  BY DEF SshDispatched, lsVars
<1>2. IsSeq(queue') /\ Ascending(queue') /\ ToSet(queue') \subseteq ToSet(queue)
  BY <1>1, QueueThinned
<1>3. Orders({})
  BY <1>1, <1>2, PoppingOrders DEF LsQueues
<1> QED  BY <1>1, <1>3 DEF Ordered, SshTableInv

LEMMA SshPollOrders ==
    ASSUME Ordered, NEW max \in {0, 1}, SshPollCall(max)
    PROVE  Orders({}) /\ SshTableInv' /\ UNCHANGED <<next_id, own, op_callback, ssh_next>>
<1> DEFINE fresh(n) == IF n = 0 \/ n > Len(ssh_queue) THEN Len(ssh_queue) ELSE n
           old == IF max = 0 \/ max > Len(buffered_events) THEN Len(buffered_events) ELSE max
           rest == IF max = 0 THEN 0 ELSE max - old
           got == SubSeq(ssh_queue, 1, fresh(rest))
           shown == IF max = 0 \/ rest > 0 THEN Len(got) ELSE 0
<1>1. /\ ssh_queue' = SubSeq(ssh_queue, Len(got) + 1, Len(ssh_queue))
      /\ buffered_events' = SubSeq(buffered_events, old + 1, Len(buffered_events))
                                \o SubSeq(got, shown + 1, Len(got))
      /\ UNCHANGED <<next_id, own, queue, stack, called, ssh_next, emitted, callback_by_operation, op_callback>>
  BY DEF SshPollCall, cbVars
<1>2. IsSeq(ssh_queue) /\ Rising(ssh_queue) /\ IsSeq(buffered_events)
  BY DEF Ordered, SshOrder, SshLine, SshTableInv
<1>3. \A s : IsSeq(s) => Len(s) \in Nat
  BY SeqIs
<1>4. /\ old \in Nat /\ rest \in Nat /\ fresh(rest) \in Nat /\ fresh(rest) <= Len(ssh_queue)
      /\ Len(buffered_events) \in Nat /\ Len(ssh_queue) \in Nat
  BY <1>2, <1>3
<1> HIDE DEF old, rest, fresh
<1>5. IsSeq(got) /\ Len(got) \in Nat
  <2>1. 1 \in Nat \ {0}  OBVIOUS
  <2>2. IsSeq(got)  BY <1>2, <1>4, <2>1, SubSeqIs
  <2> QED  BY <1>3, <2>2
<1>6. shown \in Nat
  BY <1>5
<1> HIDE DEF got, shown
<1>7. IsSeq(ssh_queue') /\ Rising(ssh_queue') /\ ToSet(ssh_queue') \subseteq ToSet(ssh_queue)
  <2>1. Len(got) + 1 \in Nat \ {0} /\ Len(ssh_queue) \in Nat /\ Len(ssh_queue) <= Len(ssh_queue)
    BY <1>4, <1>5
  <2> DEFINE a == Len(got) + 1
             z == Len(ssh_queue)
  <2>2. a \in Nat \ {0} /\ z \in Nat /\ z <= Len(ssh_queue)  BY <2>1
  <2> HIDE DEF a, z
  <2>3. IsSeq(SubSeq(ssh_queue, a, z)) /\ ToSet(SubSeq(ssh_queue, a, z)) \subseteq ToSet(ssh_queue)
    BY <1>2, <2>2, SubSeqIs
  <2>4. Rising(SubSeq(ssh_queue, a, z))  BY <1>2, <2>2, RisingSubSeq
  <2> QED  BY <1>1, <2>3, <2>4 DEF a, z
<1>8. IsSeq(buffered_events')
  <2> DEFINE a == old + 1
             z == Len(buffered_events)
             b == shown + 1
             y == Len(got)
  <2>1. /\ a \in Nat \ {0} /\ z \in Nat /\ z <= Len(buffered_events)
        /\ b \in Nat \ {0} /\ y \in Nat /\ y <= Len(got)
    BY <1>4, <1>5, <1>6
  <2> HIDE DEF a, b, y, z
  <2>2. IsSeq(SubSeq(buffered_events, a, z)) /\ IsSeq(SubSeq(got, b, y))
    BY <1>2, <1>5, <2>1, SubSeqIs
  <2>3. IsSeq(SubSeq(buffered_events, a, z) \o SubSeq(got, b, y))  BY <2>2, ConcatIs
  <2> QED  BY <1>1, <2>3 DEF a, b, y, z
<1>9. SshOrder(queue, stack, called, ssh_queue', emitted, op_callback)
  BY <1>7, SshDrained DEF Ordered
<1>10. Orders({})
  BY <1>1, <1>9, LikeIs DEF Ordered, Orders, AllItems
<1>11. SshTableInv'
  BY <1>1, <1>8 DEF Ordered, SshTableInv
<1> QED  BY <1>1, <1>10, <1>11

-----------------------------------------------------------------------------
(* Claims: which callback is for the events of which source.  An event is  *)
(* for the callback that its source was given; two sources have different  *)
(* callbacks, but for a script's own and those of the realtime handle,     *)
(* which are several.                                                      *)

Claim(cb, of, id) == [cb |-> cb, of |-> of, id |-> id]

\* What an event tells of: the chunks of a stream are not a response.
SourceOf(ev) == IF ev.of = "http" /\ ev.what \in {"chunk", "done"} THEN "stream" ELSE ev.of
ClaimOf(e) == Claim(e.cb, SourceOf(e.ev), e.ev.id)

RtCbs == (Values(rt_ids) \cup Values(rt_live) \cup {rt_telling}) \ {NoCallback}
Streams == {id \in Requests : chunk_callback[id] # NoCallback}
WithCallback == {id \in DOMAIN processes : processes[id].cb # NoCallback}

ScriptClaims == {Claim(cb, "script", 0) : cb \in own}
RealtimeClaims == {Claim(cb, "realtime", 0) : cb \in RtCbs}
HttpClaims == {Claim(callback_ids[id], "http", id) : id \in DOMAIN callback_ids}
StreamClaims == {Claim(chunk_callback[id], "stream", id) : id \in Streams}
JobClaims == {Claim(job_callbacks[id], "job", id) : id \in DOMAIN job_callbacks}
SshClaims == {Claim(op_callback[op], "ssh", op) : op \in {op \in Ops : op_callback[op] # NoCallback}}
ProcessClaims == {Claim(processes[id].cb, "process", id) : id \in WithCallback}
LoadClaims == {Claim(loads[id].cb, "load", id) : id \in {id \in DOMAIN loads : loads[id].cb # NoCallback}}

Tables == ScriptClaims \cup RealtimeClaims \cup HttpClaims \cup StreamClaims
            \cup JobClaims \cup SshClaims \cup ProcessClaims \cup LoadClaims
Claims == Tables \cup {ClaimOf(e) : e \in AllItems}

\* The source exists.
Exists(of, id) ==
    /\ of \in {"http", "stream"} => id \in 1..(http_next - 1)
    /\ of = "job" => id \in Jobs /\ phase[id] # "unborn"
    /\ of = "ssh" => id \in 1..(ssh_next - 1)
    /\ of = "process" => id \in 1..(proc_next - 1)
    /\ of = "load" => id \in DOMAIN loads

Shared == {"script", "realtime"}

ClaimInv ==
    /\ \A c \in Claims : c.cb \in 1..(next_id - 1) /\ Exists(c.of, c.id)
    /\ \A c, d \in Claims : c.cb = d.cb => c.of = d.of /\ c.id = d.id
    /\ \A c, d \in Claims : c.of = d.of /\ c.id = d.id /\ c.of \notin Shared => c.cb = d.cb

\* Items of the sources of a kind in S, for the callbacks they have.
Telling(items, S) == \A e \in items : ClaimOf(e) \in Tables /\ SourceOf(e.ev) \in S

Lasting ==
    /\ next_id \in Nat /\ next_id' \in Nat /\ next_id <= next_id'
    /\ \A of, id : Exists(of, id) => Exists(of, id)'

LEMMA ClaimIs ==
    /\ \A cb, of, id : /\ Claim(cb, of, id).cb = cb /\ Claim(cb, of, id).of = of
                       /\ Claim(cb, of, id).id = id
    /\ \A e : ClaimOf(e).cb = e.cb /\ ClaimOf(e).of = SourceOf(e.ev) /\ ClaimOf(e).id = e.ev.id
  BY DEF Claim, ClaimOf

LEMMA LikeClaims ==
    ASSUME NEW A, NEW B, Like(A, B)
    PROVE  {ClaimOf(e) : e \in A} \subseteq {ClaimOf(e) : e \in B}
<1> SUFFICES ASSUME NEW x \in A PROVE ClaimOf(x) \in {ClaimOf(e) : e \in B}
  OBVIOUS
<1>1. PICK y \in B : x.cb = y.cb /\ x.ev = y.ev
  BY DEF Like
<1>2. ClaimOf(x) = ClaimOf(y)
  BY <1>1 DEF ClaimOf
<1> QED  BY <1>2

\* A callback that is not given out yet was told nothing.
LEMMA NewIsUntold ==
    ASSUME ClaimInv, next_id \in Nat
    PROVE  UntoldIn(AllItems, next_id) /\ \A c \in Claims : c.cb # next_id
<1>1. \A c \in Claims : c.cb # next_id
  BY DEF ClaimInv
<1>2. ASSUME NEW e \in AllItems PROVE e.cb # next_id
  <2>1. ClaimOf(e) \in Claims  BY DEF Claims
  <2> QED  BY <1>1, <2>1, ClaimIs
<1> QED  BY <1>1, <1>2 DEF UntoldIn

LEMMA IdsGrow ==
    /\ \A m, n \in Nat : m <= n => 1..(m - 1) \subseteq 1..(n - 1)
    /\ \A m \in Nat \ {0} : \A n \in Nat : m < n => m \in 1..(n - 1)
  OBVIOUS

\* At most one claim is new: next_id's.
LEMMA ClaimsKept ==
    ASSUME ClaimInv, Lasting, NEW items, NEW S, Telling(items, S), Like(AllItems', AllItems \cup items),
           Tables' \subseteq Tables
    PROVE  ClaimInv'
<1>1. Claims' \subseteq Claims
  <2>1. {ClaimOf(e) : e \in AllItems'} \subseteq {ClaimOf(e) : e \in AllItems \cup items}
    BY LikeClaims
  <2>2. {ClaimOf(e) : e \in AllItems \cup items} \subseteq Claims  BY DEF Claims, Telling
  <2>3. Claims' = Tables' \cup {ClaimOf(e) : e \in AllItems'}  BY DEF Claims
  <2> QED  BY <2>1, <2>2, <2>3 DEF Claims
<1>2. 1..(next_id - 1) \subseteq 1..(next_id' - 1)
  <2>1. next_id \in Nat /\ next_id' \in Nat /\ next_id <= next_id'  BY DEF Lasting
  <2> QED  BY <2>1, IdsGrow
<1> QED  BY <1>1, <1>2 DEF ClaimInv, Lasting

LEMMA ClaimGiven ==
    ASSUME ClaimInv, Lasting, next_id \in Nat \ {0}, next_id < next_id',
           NEW of, NEW id, Like(AllItems', AllItems),
           Tables' \subseteq Tables \cup {Claim(next_id, of, id)},
           Exists(of, id)', of \in Shared \/ ~Exists(of, id)
    PROVE  ClaimInv'
<1> DEFINE n == Claim(next_id, of, id)
<1>1. n.cb = next_id /\ n.of = of /\ n.id = id
  BY ClaimIs
<1> HIDE DEF n
<1>2. Claims' \subseteq Claims \cup {n}
  <2>1. {ClaimOf(e) : e \in AllItems'} \subseteq {ClaimOf(e) : e \in AllItems}  BY LikeClaims
  <2>2. Claims' = Tables' \cup {ClaimOf(e) : e \in AllItems'}  BY DEF Claims
  <2> QED  BY <2>1, <2>2 DEF Claims, n
<1>3. 1..(next_id - 1) \subseteq 1..(next_id' - 1) /\ next_id \in 1..(next_id' - 1)
  <2>1. next_id \in Nat /\ next_id' \in Nat /\ next_id <= next_id'  BY DEF Lasting
  <2> QED  BY <2>1, IdsGrow
<1>4. \A c \in Claims : c.cb # next_id
  BY NewIsUntold
<1>5. \A c \in Claims : of \notin Shared => ~(c.of = of /\ c.id = id)
  BY DEF ClaimInv
<1>6. \A c \in Claims' : c.cb \in 1..(next_id' - 1) /\ Exists(c.of, c.id)'
  BY <1>1, <1>2, <1>3 DEF ClaimInv, Lasting
<1>7. \A c, d \in Claims' : c.cb = d.cb => c.of = d.of /\ c.id = d.id
  BY <1>1, <1>2, <1>4 DEF ClaimInv
<1>8. \A c, d \in Claims' : c.of = d.of /\ c.id = d.id /\ c.of \notin Shared => c.cb = d.cb
  BY <1>1, <1>2, <1>5 DEF ClaimInv
<1> QED  BY <1>6, <1>7, <1>8 DEF ClaimInv

\* The callbacks of another source hear nothing.
LEMMA OthersUntold ==
    ASSUME ClaimInv, NEW items, NEW S, Telling(items, S),
           NEW cb, NEW of, NEW id, Claim(cb, of, id) \in Tables, of \notin S
    PROVE  UntoldIn(items, cb)
<1> SUFFICES ASSUME NEW e \in items, e.cb = cb PROVE FALSE
  BY DEF UntoldIn
<1>1. ClaimOf(e) \in Claims /\ Claim(cb, of, id) \in Claims
  BY DEF Telling, Claims
<1>2. SourceOf(e.ev) = of
  BY <1>1, ClaimIs DEF ClaimInv
<1> QED  BY <1>2 DEF Telling

LEMMA LikeFresh ==
    ASSUME NEW A, NEW B, NEW C, Like(A, B \cup C), NEW cb, UntoldIn(C, cb)
    PROVE  /\ UntoldIn(B, cb) => UntoldIn(A, cb)
           /\ \A n : FreshIn(B, cb, n) => FreshIn(A, cb, n)
<1> SUFFICES ASSUME NEW x \in A, x.cb = cb
             PROVE  /\ ~UntoldIn(B, cb)
                    /\ \A n : FreshIn(B, cb, n) => x.ev.n < n
  BY DEF UntoldIn, FreshIn
<1>1. PICK y \in B \cup C : x.cb = y.cb /\ x.ev = y.ev
  BY DEF Like
<1>2. y \in B
  BY <1>1 DEF UntoldIn
<1> QED  BY <1>1, <1>2 DEF UntoldIn, FreshIn

LEMMA TimelyIs ==
    ASSUME ClaimInv, NEW items, NEW S, Telling(ToSet(items), S), "ssh" \notin S,
           IsSeq(items), Ascending(items),
           \A e \in ToSet(items) : e.ev.n \in Int /\ FreshIn(AllItems, e.cb, e.ev.n)
    PROVE  Timely(items)
<1>1. ASSUME NEW e \in ToSet(items), NEW op \in Ops, SshItem(e, op, op_callback)
      PROVE  FALSE
  <2>1. Claim(op_callback[op], "ssh", op) \in Tables  BY <1>1 DEF SshItem, Tables, SshClaims
  <2>2. UntoldIn(ToSet(items), op_callback[op])  BY <2>1, OthersUntold
  <2> QED  BY <1>1, <2>2 DEF SshItem, UntoldIn
<1> QED  BY <1>1 DEF Timely, NoSshItems

LEMMA OperationsDiffer ==
    ASSUME ClaimInv
    PROVE  \A x, y \in Ops : op_callback[x] = op_callback[y] /\ op_callback[x] # NoCallback => x = y
<1> SUFFICES ASSUME NEW x \in Ops, NEW y \in Ops, op_callback[x] = op_callback[y],
                    op_callback[x] # NoCallback
             PROVE  x = y
  OBVIOUS
<1>1. Claim(op_callback[x], "ssh", x) \in Claims /\ Claim(op_callback[y], "ssh", y) \in Claims
  BY DEF Claims, Tables, SshClaims
<1> QED  BY <1>1, ClaimIs DEF ClaimInv

-----------------------------------------------------------------------------
(* A step, and what the sources tell next.                                 *)

\* What the step enqueues is not for cb.
Stays(cb) ==
    /\ UntoldIn(AllItems, cb) => UntoldIn(AllItems', cb)
    /\ \A n : FreshIn(AllItems, cb, n) => FreshIn(AllItems', cb, n)

\* The callbacks of all sources but those of the kinds in S hear nothing new.
Sparing(S) == \A cb, of, id : Claim(cb, of, id) \in Tables /\ of \notin S => Stays(cb)

\* The step enqueues items of the sources of the kinds in S.
Moving(items, S) ==
    /\ Orders(items) /\ SshTableInv' /\ Telling(items, S)
    /\ Lasting /\ Tables' \subseteq Tables

\* The step gives a callback to a source.
Giving(of, id) ==
    /\ Orders({}) /\ SshTableInv' /\ Lasting
    /\ next_id < next_id' /\ Tables' \subseteq Tables \cup {Claim(next_id, of, id)}
    /\ Exists(of, id)' /\ (of \in Shared \/ ~Exists(of, id))

LEMMA UntoldStays ==
    ASSUME NEW items, Orders(items), NEW cb, UntoldIn(items, cb)
    PROVE  Stays(cb)
<1>1. Like(AllItems', AllItems \cup items)
  BY DEF Orders
<1>2. /\ UntoldIn(AllItems, cb) => UntoldIn(AllItems', cb)
      /\ \A n : FreshIn(AllItems, cb, n) => FreshIn(AllItems', cb, n)
  BY <1>1, LikeFresh
<1> QED  BY <1>2 DEF Stays

\* Nor do those of other sources of a kind.
LEMMA OtherSourceStays ==
    ASSUME ClaimInv, NEW items, NEW S, Orders(items), Telling(items, S),
           NEW cb, NEW of, NEW id, Claim(cb, of, id) \in Tables,
           \A e \in items : SourceOf(e.ev) = of => e.ev.id # id
    PROVE  Stays(cb)
<1>1. ASSUME NEW e \in items, e.cb = cb PROVE FALSE
  <2>1. ClaimOf(e) \in Claims /\ Claim(cb, of, id) \in Claims  BY DEF Telling, Claims
  <2>2. SourceOf(e.ev) = of /\ e.ev.id = id  BY <1>1, <2>1, ClaimIs DEF ClaimInv
  <2> QED  BY <2>2
<1>2. UntoldIn(items, cb)
  BY <1>1 DEF UntoldIn
<1> QED  BY <1>2, UntoldStays

LEMMA MovingKeeps ==
    ASSUME ClaimInv, NEW items, NEW S, Moving(items, S)
    PROVE  Ordered' /\ ClaimInv' /\ Sparing(S)
<1>1. Orders(items) /\ Telling(items, S) /\ Lasting /\ Tables' \subseteq Tables
      /\ Like(AllItems', AllItems \cup items)
  BY DEF Moving, Orders
<1>2. Ordered'
  BY DEF Moving, Orders, Ordered
<1>3. ClaimInv'
  BY <1>1, ClaimsKept
<1>4. Sparing(S)
  <2> SUFFICES ASSUME NEW cb, NEW of, NEW id, Claim(cb, of, id) \in Tables, of \notin S
               PROVE  Stays(cb)
    BY DEF Sparing
  <2>1. UntoldIn(items, cb)  BY <1>1, OthersUntold
  <2> QED  BY <1>1, <2>1, UntoldStays
<1> QED  BY <1>2, <1>3, <1>4

LEMMA GivingKeeps ==
    ASSUME ClaimInv, next_id \in Nat \ {0}, NEW of, NEW id, Giving(of, id)
    PROVE  Ordered' /\ ClaimInv' /\ Sparing({}) /\ UntoldIn(AllItems', next_id)
<1>1. /\ Orders({}) /\ Lasting /\ next_id < next_id'
      /\ Tables' \subseteq Tables \cup {Claim(next_id, of, id)}
      /\ Exists(of, id)' /\ (of \in Shared \/ ~Exists(of, id))
      /\ Like(AllItems', AllItems)
  BY DEF Giving, Orders
<1>2. Ordered'
  BY DEF Giving, Orders, Ordered
<1>3. ClaimInv'
  BY <1>1, ClaimGiven
<1>4. \A cb : Stays(cb)
  BY <1>1, UntoldStays DEF UntoldIn
<1>5. UntoldIn(AllItems', next_id)
  BY <1>4, NewIsUntold DEF Stays
<1> QED  BY <1>2, <1>3, <1>4, <1>5 DEF Sparing

\* Answers: of different sources, each for the first time or later than before.
Answers(items, S) ==
    /\ IsSeq(items) /\ Telling(ToSet(items), S) /\ "ssh" \notin S
    /\ \A i, j \in DOMAIN items : items[i].ev.id = items[j].ev.id => i = j
    /\ \A e \in ToSet(items) : e.ev.n \in Int /\ FreshIn(AllItems, e.cb, e.ev.n)

LEMMA AnswersAreTimely ==
    ASSUME ClaimInv, NEW items, NEW S, Answers(items, S)
    PROVE  Timely(items)
<1>1. Ascending(items)
  <2> SUFFICES ASSUME NEW i \in DOMAIN items, NEW j \in DOMAIN items, i < j,
                      items[i].cb = items[j].cb
               PROVE  FALSE
    BY DEF Ascending, Earlier
  <2>1. items[i] \in ToSet(items) /\ items[j] \in ToSet(items)  BY DEF ToSet
  <2>2. ClaimOf(items[i]) \in Claims /\ ClaimOf(items[j]) \in Claims
    BY <2>1 DEF Answers, Telling, Claims
  <2>3. items[i].ev.id = items[j].ev.id  BY <2>2, ClaimIs DEF ClaimInv
  <2>4. i = j  BY <2>3 DEF Answers
  <2>5. i \in Nat /\ j \in Nat  BY SeqIs DEF Answers
  <2> QED  BY <2>4, <2>5
<1> QED  BY <1>1, TimelyIs DEF Answers

-----------------------------------------------------------------------------
(* What each source tells next: a callback that is due an event was told   *)
(* none, or none of that number.                                           *)

Untold(cb) == UntoldIn(AllItems, cb)
Fresh(cb, n) == FreshIn(AllItems, cb, n)

LeftInv == left \in [Sorts -> Nat]
ScriptDue == \A cb \in own : Fresh(cb, 9 - left["enqueue"])

RealtimeDue ==
    /\ rt_notices \in Nat
    /\ NoCallback \notin Values(rt_live)
    /\ rt_thread = "telling" => rt_telling # NoCallback
    /\ \A cb \in RtCbs : Fresh(cb, rt_notices + 1)

Performs(t) == performing[t].pc = "performing"

Distinct(s) == \A i, j \in DOMAIN s : s[i] = s[j] => i = j
DistinctIds(s) == \A i, j \in DOMAIN s : s[i].id = s[j].id => i = j

StreamDue ==
    /\ \A id \in DOMAIN stream_callback_ids :
          /\ id \in Streams /\ stream_callback_ids[id] = chunk_callback[id]
          /\ Fresh(chunk_callback[id], MaxChunks + 1)
    /\ \A id \in Streams \cap Queued : Untold(chunk_callback[id])
    /\ \A t \in HttpThreads : Performs(t) =>
          /\ performing[t].chunks <= MaxChunks
          /\ performing[t].id \in Streams =>
                Fresh(chunk_callback[performing[t].id], performing[t].chunks + 1)

HttpDue == \A id \in DOMAIN callback_ids : Untold(callback_ids[id])

\* A request that was answered is with no thread any more.
HttpLineInv ==
    /\ DistinctIds(completed)
    /\ \A r \in ToSet(completed) :
          /\ r.id \in Given \ Queued
          /\ r.result \notin {"chunk", "done"}
          /\ \A t \in HttpThreads : Performs(t) => performing[t].id # r.id

JobDue == \A id \in DOMAIN job_callbacks : Untold(job_callbacks[id])

JobLineInv ==
    /\ DOMAIN phase = Jobs
    /\ Distinct(job_results)
    /\ \A id \in ToSet(job_results) : id \in Jobs /\ phase[id] = "finished"

ProcessDue == \A id \in WithCallback : Untold(processes[id].cb)

Loading == pending_loads \cup ToSet(texture_uploads) \cup ToSet(cubemap_uploads)
LoadDue == \A id \in Loading : loads[id].cb # NoCallback => Untold(loads[id].cb)

\* A load is in one place.
LoadLineInv ==
    /\ DistinctIds(load_results)
    /\ \A r \in ToSet(load_results) : r.id \in pending_loads
    /\ Distinct(texture_uploads) /\ Distinct(cubemap_uploads)
    /\ \A id \in ToSet(texture_uploads) : loads[id].kind = "bytes" /\ id \notin pending_loads
    /\ \A id \in ToSet(cubemap_uploads) : loads[id].kind = "cubemap" /\ id \notin pending_loads

ScriptOk == LeftInv /\ ScriptDue
HttpOk == StreamDue /\ HttpDue /\ HttpLineInv
JobOk == JobDue /\ JobLineInv
LoadOk == LoadDue /\ LoadLineInv

LEMMA ItemsAreNumbered ==
    ASSUME NEW q, NEW s, NEW c, Order(q, s, c)
    PROVE  \A e \in AllIn(q, s, c) : e.ev.n \in Int
<1>1. \A e \in WaitsIn(q, s) : e.ev.n \in Int
  BY DEF Order, Numbered
<1>2. ASSUME NEW e \in HeardIn(c) PROVE e.ev.n \in Int
  <2>1. PICK cb \in Callbacks : \E k \in DOMAIN c[cb] : e = Item(cb, c[cb][k].ev)  BY DEF HeardIn
  <2>2. PICK k \in DOMAIN c[cb] : e = Item(cb, c[cb][k].ev)  BY <2>1
  <2>3. c[cb][k].ev.n \in Int  BY DEF Order, Numbered
  <2> QED  BY <2>2, <2>3 DEF Item
<1> QED  BY <1>1, <1>2 DEF AllIn

LEMMA FreshLonger ==
    ASSUME NEW q, NEW s, NEW c, Order(q, s, c), NEW cb, NEW m \in Int, NEW n \in Int, m <= n,
           FreshIn(AllIn(q, s, c), cb, m)
    PROVE  FreshIn(AllIn(q, s, c), cb, n)
<1> SUFFICES ASSUME NEW e \in AllIn(q, s, c), e.cb = cb PROVE e.ev.n < n
  BY DEF FreshIn
<1>1. e.ev.n \in Int /\ e.ev.n < m
  BY ItemsAreNumbered DEF FreshIn
<1> QED  BY <1>1

LEMMA UntoldIsFresh ==
    \A A, cb, n : UntoldIn(A, cb) => FreshIn(A, cb, n)
  BY DEF UntoldIn, FreshIn

LEMMA LeftIs ==
    ASSUME LeftInv, UNCHANGED left \/ \E sort : Spend(sort)
    PROVE  /\ LeftInv'
           /\ left["enqueue"] \in Nat /\ left'["enqueue"] \in Nat
           /\ left'["enqueue"] <= left["enqueue"]
<1>1. left["enqueue"] \in Nat
  BY RuntimeBounds DEF LeftInv
<1>2. CASE UNCHANGED left
  BY <1>1, <1>2 DEF LeftInv
<1>3. ASSUME NEW sort, Spend(sort)
      PROVE  /\ LeftInv' /\ left'["enqueue"] \in Nat
             /\ left'["enqueue"] <= left["enqueue"]
  <2>1. left[sort] > 0 /\ left' = [left EXCEPT ![sort] = left[sort] - 1]  BY <1>3 DEF Spend
  <2>2. CASE sort \in Sorts
    <3>1. left[sort] \in Nat  BY <2>2 DEF LeftInv
    <3>2. left[sort] - 1 \in Nat /\ left[sort] - 1 <= left[sort]  BY <2>1, <3>1
    <3> DEFINE m == left[sort] - 1
    <3>3. m \in Nat /\ m <= left[sort] /\ left' = [left EXCEPT ![sort] = m]  BY <2>1, <3>2
    <3> HIDE DEF m
    <3>4. left' \in [Sorts -> Nat]  BY <3>3 DEF LeftInv
    <3>5. left'["enqueue"] = IF sort = "enqueue" THEN m ELSE left["enqueue"]
      BY <3>3, RuntimeBounds DEF LeftInv
    <3> QED  BY <1>1, <3>3, <3>4, <3>5 DEF LeftInv
  <2>3. CASE sort \notin Sorts
    <3>1. left' = left  BY <2>1, <2>3 DEF LeftInv
    <3> QED  BY <1>1, <3>1 DEF LeftInv
  <2> QED  BY <2>2, <2>3
<1> QED  BY <1>1, <1>2, <1>3

LEMMA ScriptStays ==
    ASSUME ScriptOk, Ordered', NEW S, Sparing(S), "script" \notin S, UNCHANGED own,
           UNCHANGED left \/ \E sort : Spend(sort)
    PROVE  ScriptOk'
<1>1. /\ LeftInv' /\ left["enqueue"] \in Nat /\ left'["enqueue"] \in Nat
      /\ left'["enqueue"] <= left["enqueue"]
  BY LeftIs DEF ScriptOk
<1>2. /\ 9 - left["enqueue"] \in Int /\ 9 - left'["enqueue"] \in Int
      /\ 9 - left["enqueue"] <= 9 - left'["enqueue"]
  BY <1>1
<1>3. ASSUME NEW cb \in own PROVE FreshIn(AllItems', cb, 9 - left'["enqueue"])
  <2>1. Claim(cb, "script", 0) \in Tables  BY DEF Tables, ScriptClaims
  <2>2. FreshIn(AllItems', cb, 9 - left["enqueue"])
    BY <2>1 DEF Sparing, Stays, ScriptOk, ScriptDue, Fresh
  <2> DEFINE m == 9 - left["enqueue"]
             n == 9 - left'["enqueue"]
  <2>3. m \in Int /\ n \in Int /\ m <= n /\ FreshIn(AllItems', cb, m)  BY <1>2, <2>2
  <2>4. Order(queue', stack', called') /\ AllItems' = AllIn(queue', stack', called')
    BY DEF Ordered, AllItems
  <2> HIDE DEF m, n
  <2>5. FreshIn(AllItems', cb, n)  BY <2>3, <2>4, FreshLonger
  <2> QED  BY <2>5 DEF n
<1>4. ScriptDue'
  BY <1>3 DEF ScriptDue, Fresh
<1> QED  BY <1>1, <1>4 DEF ScriptOk

LEMMA RealtimeStays ==
    ASSUME RealtimeDue, NEW S, Sparing(S), "realtime" \notin S, UNCHANGED lrVars
    PROVE  RealtimeDue'
<1>1. RtCbs' = RtCbs /\ rt_notices' = rt_notices
  BY DEF RtCbs, Values, lrVars
<1>2. \A cb \in RtCbs : Claim(cb, "realtime", 0) \in Tables
  BY DEF Tables, RealtimeClaims
<1>3. \A cb \in RtCbs : FreshIn(AllItems', cb, rt_notices + 1)
  BY <1>2 DEF Sparing, Stays, RealtimeDue, Fresh
<1> QED  BY <1>1, <1>3 DEF RealtimeDue, Fresh, lrVars, Values

LEMMA HttpStays ==
    ASSUME HttpOk, NEW S, Sparing(S), "http" \notin S, "stream" \notin S,
           UNCHANGED <<hcVars, lhVars>>
    PROVE  HttpOk'
<1>1. UNCHANGED <<http_next, http_pending, performing, completed, callback_ids,
                  stream_callback_ids, chunk_callback>>
  BY DEF hcVars, lhVars
<1>2. \A id \in Streams : Stays(chunk_callback[id])
  BY DEF Sparing, Tables, StreamClaims
<1>3. \A id \in DOMAIN callback_ids : Stays(callback_ids[id])
  BY DEF Sparing, Tables, HttpClaims
<1>4. HttpLineInv'
  BY <1>1 DEF HttpOk, HttpLineInv, Given, Queued, Performs
<1>5. HttpDue'
  BY <1>1, <1>3 DEF HttpOk, HttpDue, Untold, Stays
<1>6. StreamDue'
  BY <1>1, <1>2 DEF HttpOk, StreamDue, Untold, Fresh, Stays, Streams, Queued, Performs
<1> QED  BY <1>4, <1>5, <1>6 DEF HttpOk

LEMMA JobStays ==
    ASSUME JobOk, NEW S, Sparing(S), "job" \notin S, UNCHANGED <<phase, job_results, job_callbacks>>
    PROVE  JobOk'
<1>1. \A id \in DOMAIN job_callbacks : Stays(job_callbacks[id])
  BY DEF Sparing, Tables, JobClaims
<1> QED  BY <1>1 DEF JobOk, JobDue, JobLineInv, Untold, Stays

LEMMA ProcessStays ==
    ASSUME ProcessDue, NEW S, Sparing(S), "process" \notin S, UNCHANGED processes
    PROVE  ProcessDue'
<1>1. \A id \in WithCallback : Stays(processes[id].cb)
  BY DEF Sparing, Tables, ProcessClaims
<1> QED  BY <1>1 DEF ProcessDue, WithCallback, Untold, Stays

LEMMA LoadStays ==
    ASSUME LoadOk, LoadSeqs, NEW S, Sparing(S), "load" \notin S,
           UNCHANGED <<loads, pending_loads, load_results, texture_uploads, cubemap_uploads>>
    PROVE  LoadOk'
<1>1. Loading \subseteq DOMAIN loads
  BY DEF Loading, LoadSeqs, LoadNames
<1>2. \A id \in Loading : loads[id].cb # NoCallback => Stays(loads[id].cb)
  BY <1>1 DEF Sparing, Tables, LoadClaims
<1> QED  BY <1>2 DEF LoadOk, LoadDue, LoadLineInv, Loading, Untold, Stays

-----------------------------------------------------------------------------
(* What the steps of one service leave of the claims.                      *)

\* The step keeps the order and the claims, and is about sources of the kinds in S.
Steps(S) == Ordered' /\ ClaimInv' /\ Sparing(S)

LEMMA MovingSteps ==
    ASSUME ClaimInv, NEW items, NEW S, Moving(items, S), NEW T, S \subseteq T
    PROVE  Steps(T)
<1>1. Ordered' /\ ClaimInv' /\ Sparing(S)
  BY MovingKeeps
<1>2. Sparing(T)
  BY <1>1 DEF Sparing
<1> QED  BY <1>1, <1>2 DEF Steps

LEMMA GivingSteps ==
    ASSUME ClaimInv, next_id \in Nat \ {0}, NEW of, NEW id, Giving(of, id), NEW T
    PROVE  Steps(T) /\ Sparing({}) /\ UntoldIn(AllItems', next_id)
<1>1. Ordered' /\ ClaimInv' /\ Sparing({}) /\ UntoldIn(AllItems', next_id)
  BY GivingKeeps
<1>2. Sparing(T)
  BY <1>1 DEF Sparing
<1> QED  BY <1>1, <1>2 DEF Steps

\* The claims of a service are those of its tables.
LEMMA ClaimsFrame ==
    /\ UNCHANGED own => ScriptClaims' = ScriptClaims
    /\ UNCHANGED lrVars => RealtimeClaims' = RealtimeClaims
    /\ UNCHANGED lhVars => HttpClaims' = HttpClaims /\ StreamClaims' = StreamClaims
    /\ UNCHANGED ljVars => JobClaims' = JobClaims
    /\ UNCHANGED lsVars => SshClaims' = SshClaims
    /\ UNCHANGED lpVars => ProcessClaims' = ProcessClaims
    /\ UNCHANGED ltVars => LoadClaims' = LoadClaims
<1>1. UNCHANGED own => ScriptClaims' = ScriptClaims
  BY DEF ScriptClaims
<1>2. UNCHANGED lrVars => RealtimeClaims' = RealtimeClaims
  BY DEF RealtimeClaims, lrVars, RtCbs, Values
<1>3. UNCHANGED lhVars => HttpClaims' = HttpClaims /\ StreamClaims' = StreamClaims
  BY DEF HttpClaims, StreamClaims, Streams, lhVars
<1>4. UNCHANGED ljVars => JobClaims' = JobClaims
  BY DEF JobClaims, ljVars
<1>5. UNCHANGED lsVars => SshClaims' = SshClaims
  BY DEF SshClaims, lsVars
<1>6. UNCHANGED lpVars => ProcessClaims' = ProcessClaims
  BY DEF ProcessClaims, WithCallback, lpVars
<1>7. UNCHANGED ltVars => LoadClaims' = LoadClaims
  BY DEF LoadClaims, ltVars
<1> QED  BY <1>1, <1>2, <1>3, <1>4, <1>5, <1>6, <1>7

\* No source goes.
LEMMA LastingIs ==
    ASSUME OwnInv, OwnInv', next_id <= next_id',
           1..(http_next - 1) \subseteq 1..(http_next' - 1),
           \A id \in Jobs : phase[id] # "unborn" => phase'[id] # "unborn",
           1..(ssh_next - 1) \subseteq 1..(ssh_next' - 1),
           1..(proc_next - 1) \subseteq 1..(proc_next' - 1),
           DOMAIN loads \subseteq DOMAIN loads'
    PROVE  Lasting
<1>1. next_id \in Nat /\ next_id' \in Nat
  BY DEF OwnInv
<1>2. ASSUME NEW of, NEW id, Exists(of, id) PROVE Exists(of, id)'
  <2>1. of \in {"http", "stream"} => id \in 1..(http_next' - 1)  BY <1>2 DEF Exists
  <2>2. of = "job" => id \in Jobs /\ phase'[id] # "unborn"  BY <1>2 DEF Exists
  <2>3. of = "ssh" => id \in 1..(ssh_next' - 1)  BY <1>2 DEF Exists
  <2>4. of = "process" => id \in 1..(proc_next' - 1)  BY <1>2 DEF Exists
  <2>5. of = "load" => id \in DOMAIN loads'  BY <1>2 DEF Exists
  <2> QED  BY <2>1, <2>2, <2>3, <2>4, <2>5 DEF Exists
<1> QED  BY <1>1, <1>2 DEF Lasting

LEMMA ReregisterGives ==
    ASSUME OwnInv, NEW drop, NEW add \in {0, 1}, Reregister(drop, add)
    PROVE  next_id' = next_id + add /\ next_id <= next_id' /\ (add = 1 => next_id < next_id')
<1>1. next_id \in Nat /\ next_id' = next_id + add
  BY DEF OwnInv, Reregister
<1> QED  BY <1>1

\* The table of the ssh module in a step of another.
LEMMA SshTableStays ==
    ASSUME Ordered, UNCHANGED lsVars
    PROVE  SshTableInv' /\ UNCHANGED LsQueues
  BY DEF Ordered, SshTableInv, lsVars, LsQueues

-----------------------------------------------------------------------------
(* Scripts.                                                                *)

LEMMA CallbacksOnlyIs ==
    ASSUME CallbacksOnly, OwnInv, OwnInv', next_id <= next_id', Ordered
    PROVE  /\ Lasting /\ SshTableInv' /\ UNCHANGED LsQueues
           /\ Tables' \subseteq Tables \cup ScriptClaims'
<1>1. UNCHANGED lhVars /\ UNCHANGED ljVars /\ UNCHANGED lsVars /\ UNCHANGED lpVars
      /\ UNCHANGED lrVars /\ UNCHANGED ltVars
  BY DEF CallbacksOnly
<1>2. UNCHANGED <<http_next, phase, ssh_next, proc_next, loads>>
  BY DEF CallbacksOnly, hcVars, ljVars, lsVars, lpVars, ltVars
<1>3. Lasting
  BY <1>2, LastingIs
<1>4. Tables' \subseteq Tables \cup ScriptClaims'
  BY <1>1, ClaimsFrame DEF Tables
<1> QED  BY <1>1, <1>3, <1>4, SshTableStays

LEMMA RegisterSteps ==
    ASSUME OwnInv, OwnInv', FrameInv, Ordered, ClaimInv, ScriptOk,
           Spend("register"), ScriptRegister, CallbacksOnly
    PROVE  Steps({"script"}) /\ ScriptOk'
<1>1. /\ Reregister({}, 1) /\ own' = own \cup {next_id}
      /\ UNCHANGED <<queue, stack, called>>
  BY DEF ScriptRegister
<1>2. next_id < next_id' /\ next_id <= next_id' /\ next_id \in Nat \ {0}
  BY <1>1, ReregisterGives DEF OwnInv
<1>3. /\ Lasting /\ SshTableInv' /\ UNCHANGED LsQueues
      /\ Tables' \subseteq Tables \cup ScriptClaims'
  BY <1>2, CallbacksOnlyIs
<1>4. ScriptClaims' \subseteq ScriptClaims \cup {Claim(next_id, "script", 0)}
  BY <1>1 DEF ScriptClaims
<1>5. Orders({})
  BY <1>1, <1>3, StayingOrders
<1>6. Giving("script", 0)
  <2>1. Tables' \subseteq Tables \cup {Claim(next_id, "script", 0)}  BY <1>3, <1>4 DEF Tables
  <2>2. Exists("script", 0)' /\ "script" \in Shared  BY DEF Exists, Shared
  <2> QED  BY <1>2, <1>3, <1>5, <2>1, <2>2 DEF Giving
<1>7. Steps({"script"}) /\ Sparing({}) /\ UntoldIn(AllItems', next_id)
  BY <1>2, <1>6, GivingSteps
<1>8. ScriptOk'
  <2>1. /\ LeftInv' /\ left["enqueue"] \in Nat /\ left'["enqueue"] \in Nat
        /\ left'["enqueue"] <= left["enqueue"]
    BY LeftIs DEF ScriptOk
  <2> DEFINE m == 9 - left["enqueue"]
             n == 9 - left'["enqueue"]
  <2>2. m \in Int /\ n \in Int /\ m <= n  BY <2>1
  <2>3. Order(queue', stack', called') /\ AllItems' = AllIn(queue', stack', called')
    BY <1>7 DEF Steps, Ordered, AllItems
  <2>4. \A cb \in own : FreshIn(AllItems', cb, m)
    <3>1. \A cb \in own : Claim(cb, "script", 0) \in Tables  BY DEF Tables, ScriptClaims
    <3> QED  BY <1>7, <3>1 DEF Sparing, Stays, ScriptOk, ScriptDue, Fresh
  <2> HIDE DEF m, n
  <2>5. \A cb \in own : FreshIn(AllItems', cb, n)  BY <2>2, <2>3, <2>4, FreshLonger
  <2>6. FreshIn(AllItems', next_id, n)  BY <1>7, UntoldIsFresh
  <2>7. ScriptDue'  BY <1>1, <2>5, <2>6 DEF ScriptDue, Fresh, n
  <2> QED  BY <2>1, <2>7 DEF ScriptOk
<1> QED  BY <1>7, <1>8

\* A step of a script that enqueues nothing and registers nothing of its own.
LEMMA ScriptRests ==
    ASSUME OwnInv, OwnInv', Ordered, ClaimInv, ScriptOk, CallbacksOnly, UNCHANGED own,
           next_id <= next_id', Orders({}), UNCHANGED left \/ \E sort : Spend(sort)
    PROVE  Steps({"script"}) /\ ScriptOk'
<1>1. /\ Lasting /\ SshTableInv' /\ Tables' \subseteq Tables \cup ScriptClaims'
  BY CallbacksOnlyIs
<1>2. Tables' \subseteq Tables
  BY <1>1, ClaimsFrame DEF Tables
<1>3. Moving({}, {})
  BY <1>1, <1>2 DEF Moving, Telling
<1>4. Steps({"script"}) /\ Steps({})
  BY <1>3, MovingSteps
<1>5. ScriptOk'
  BY <1>4, ScriptStays DEF Steps
<1> QED  BY <1>4, <1>5

LEMMA EnqueueSteps ==
    ASSUME OwnInv, OwnInv', FrameInv, Ordered, ClaimInv, ScriptOk, CallbacksOnly,
           Spend("enqueue"), NEW cb \in own,
           ScriptEnqueue(cb, Event("script", 0, "call", 9 - left["enqueue"]))
    PROVE  Steps({"script"}) /\ ScriptOk'
<1> DEFINE ev == Event("script", 0, "call", 9 - left["enqueue"])
           e == Item(cb, ev)
<1>1. /\ queue' = Append(queue, e)
      /\ UNCHANGED <<next_id, stack, own, called>>
  BY DEF ScriptEnqueue, Post
<1>2. e.cb = cb /\ e.ev.of = "script" /\ e.ev.id = 0 /\ e.ev.n = 9 - left["enqueue"]
  BY DEF Item, Event
<1>3. left["enqueue"] \in Nat /\ left' = [left EXCEPT !["enqueue"] = left["enqueue"] - 1]
      /\ left["enqueue"] > 0
  BY RuntimeBounds DEF ScriptOk, LeftInv, Spend
<1>4. left'["enqueue"] = left["enqueue"] - 1
  BY <1>3, RuntimeBounds DEF ScriptOk, LeftInv
<1> HIDE DEF ev, e
<1> DEFINE n == 9 - left["enqueue"]
           m == 9 - left'["enqueue"]
<1>5. n \in Int /\ m \in Int /\ n < m /\ n <= m /\ e.ev.n = n
  BY <1>2, <1>3, <1>4
<1>6. \A c \in own : FreshIn(AllItems, c, n)
  BY DEF ScriptOk, ScriptDue, Fresh
<1> HIDE DEF n, m
<1>7. /\ Lasting /\ SshTableInv' /\ UNCHANGED LsQueues
      /\ Tables' \subseteq Tables \cup ScriptClaims'
  <2>1. next_id \in Nat  BY DEF OwnInv
  <2>2. next_id <= next_id'  BY <1>1, <2>1
  <2> QED  BY <2>2, CallbacksOnlyIs
<1>8. Tables' \subseteq Tables
  BY <1>1, <1>7, ClaimsFrame DEF Tables
<1>9. Telling({e}, {"script"})
  <2>1. SourceOf(e.ev) = "script"  BY <1>2 DEF SourceOf
  <2>2. ClaimOf(e) = Claim(cb, "script", 0)  BY <1>2, <2>1 DEF ClaimOf
  <2> QED  BY <2>1, <2>2 DEF Telling, Tables, ScriptClaims
<1>10. /\ IsSeq(queue) /\ Append(queue, e) = queue \o <<e>>
       /\ IsSeq(<<e>>) /\ ToSet(<<e>>) = {e} /\ Ascending(<<e>>)
  BY OneAppended DEF FrameInv
<1>11. Timely(<<e>>)
  <2>1. \A x \in ToSet(<<e>>) : x.ev.n \in Int /\ FreshIn(AllItems, x.cb, x.ev.n)
    BY <1>2, <1>5, <1>6, <1>10
  <2> QED  BY <1>9, <1>10, <2>1, TimelyIs
<1>12. Orders({e})
  BY <1>1, <1>7, <1>10, <1>11, PostingOrders
<1>13. Moving({e}, {"script"})
  BY <1>7, <1>8, <1>9, <1>12 DEF Moving
<1>14. Steps({"script"})
  BY <1>13, MovingSteps
<1>15. ScriptOk'
  <2>1. Order(queue', stack', called') /\ AllItems' = AllIn(queue', stack', called')
    BY <1>14 DEF Steps, Ordered, AllItems
  <2>2. ASSUME NEW c \in own PROVE FreshIn(AllItems', c, m)
    <3> SUFFICES ASSUME NEW x \in AllItems', x.cb = c PROVE x.ev.n < m  BY DEF FreshIn
    <3>1. PICK y \in AllItems \cup {e} : x.cb = y.cb /\ x.ev = y.ev  BY <1>12 DEF Orders, Like
    <3>2. x.ev.n \in Int  BY <2>1, ItemsAreNumbered
    <3>3. x.ev.n <= n  BY <1>5, <1>6, <3>1, <3>2 DEF FreshIn
    <3> QED  BY <1>5, <3>2, <3>3
  <2>3. ScriptDue'  BY <1>1, <2>2 DEF ScriptDue, Fresh, m
  <2> QED  BY <2>3, LeftIs DEF ScriptOk
<1> QED  BY <1>14, <1>15

\* What a batch is taken of, when nothing is enqueued.
LEMMA TakingOrders ==
    ASSUME FrameInv, Ordered, LuaRuns \/ Top.kind = "close", NEW ids, NEW max \in Nat,
           DispatchFrom(stack, queue, ids, max), UNCHANGED called, UNCHANGED LsQueues
    PROVE  Orders({})
<1>1. Quiet \/ stack = <<>>
  BY TopIsQuiet DEF FrameInv
<1>2. Timely(<<>>) /\ ToSet(<<>>) = {} /\ queue \o <<>> = queue
  <2>1. queue \in Seq(ToSet(queue))  BY SeqIs DEF FrameInv
  <2>2. queue \o <<>> = queue  BY <2>1
  <2>3. Ascending(<<>>)  BY DEF Ascending
  <2> QED  BY <2>2, <2>3, EmptyIsSeq DEF Timely, NoSshItems
<1>3. DispatchFrom(stack, queue \o <<>>, ids, max)
  BY <1>2
<1>4. Orders(ToSet(<<>>))
  BY <1>1, <1>2, <1>3, DispatchingOrders
<1> QED  BY <1>2, <1>4

LEMMA CallbacksStep ==
    ASSUME OwnInv, OwnInv', FrameInv, Ordered, ClaimInv, ScriptOk, CallbacksOnly,
           UNCHANGED left \/ \E sort : Spend(sort),
           \/ Spend("register") /\ ScriptRegister
           \/ \E cb \in own : ScriptUnregister(cb)
           \/ /\ Spend("enqueue")
              /\ \E cb \in own : ScriptEnqueue(cb, Event("script", 0, "call", 9 - left["enqueue"]))
           \/ \E max \in {0, 1} : ScriptDispatch(max)
           \/ CallNext \/ EndDispatch
    PROVE  Steps({"script"}) /\ ScriptOk'
<1>1. CASE Spend("register") /\ ScriptRegister
  BY <1>1, RegisterSteps
<1>2. ASSUME NEW cb \in own, ScriptUnregister(cb)
      PROVE  Steps({"script"}) /\ ScriptOk'
  <2>1. Reregister({cb}, 0) /\ UNCHANGED <<queue, stack, own, called>>
    BY <1>2 DEF ScriptUnregister, Unregister
  <2>2. next_id <= next_id'  BY <2>1, ReregisterGives
  <2>3. UNCHANGED LsQueues  BY SshTableStays DEF CallbacksOnly
  <2>4. Orders({})  BY <2>1, <2>3, StayingOrders
  <2> QED  BY <2>1, <2>2, <2>4, ScriptRests
<1>3. CASE Spend("enqueue") /\
           \E cb \in own : ScriptEnqueue(cb, Event("script", 0, "call", 9 - left["enqueue"]))
  BY <1>3, EnqueueSteps
<1>4. ASSUME UNCHANGED <<next_id, own>>, Orders({})
      PROVE  Steps({"script"}) /\ ScriptOk'
  <2>1. next_id <= next_id'  BY <1>4 DEF OwnInv
  <2> QED  BY <1>4, <2>1, ScriptRests
<1>5. UNCHANGED LsQueues
  BY SshTableStays DEF CallbacksOnly
<1>6. ASSUME NEW max \in {0, 1}, ScriptDispatch(max)
      PROVE  Steps({"script"}) /\ ScriptOk'
  <2>1. /\ LuaRuns /\ DispatchFrom(stack, queue, Callbacks, max)
        /\ UNCHANGED <<next_id, own, called>>
    BY <1>6 DEF ScriptDispatch
  <2>2. max \in Nat  OBVIOUS
  <2>3. Orders({})  BY <1>5, <2>1, <2>2, TakingOrders
  <2> QED  BY <1>4, <2>1, <2>3
<1>7. CASE CallNext
  <2>1. UNCHANGED <<next_id, own>>  BY <1>7 DEF CallNext
  <2>2. Orders({})  BY <1>5, <1>7, CallNextOrders
  <2> QED  BY <1>4, <2>1, <2>2
<1>8. CASE EndDispatch
  <2>1. /\ Top.kind # "none" /\ stack' = Below
        /\ UNCHANGED <<next_id, queue, own, called>>
    BY <1>8 DEF EndDispatch
  <2>2. IsSeq(queue') /\ Ascending(queue') /\ ToSet(queue') \subseteq ToSet(queue)
    BY <2>1, QueueThinned
  <2>3. Orders({})  BY <1>5, <2>1, <2>2, PoppingOrders
  <2> QED  BY <1>4, <2>1, <2>3
<1> QED  BY <1>1, <1>2, <1>3, <1>6, <1>7, <1>8

-----------------------------------------------------------------------------
(* The handle of the realtime module.                                      *)

LEMMA RealtimeOnlyIs ==
    ASSUME RealtimeOnly, OwnInv, OwnInv', next_id <= next_id', Ordered, UNCHANGED own
    PROVE  /\ Lasting /\ SshTableInv' /\ UNCHANGED LsQueues
           /\ Tables' \subseteq Tables \cup RealtimeClaims'
<1>1. UNCHANGED lhVars /\ UNCHANGED ljVars /\ UNCHANGED lsVars /\ UNCHANGED lpVars
      /\ UNCHANGED ltVars
  BY DEF RealtimeOnly
<1>2. UNCHANGED <<http_next, phase, ssh_next, proc_next, loads>>
  BY DEF RealtimeOnly, hcVars, ljVars, lsVars, lpVars, ltVars
<1>3. Lasting
  BY <1>2, LastingIs
<1>4. Tables' \subseteq Tables \cup RealtimeClaims'
  BY <1>1, ClaimsFrame DEF Tables
<1> QED  BY <1>1, <1>3, <1>4, SshTableStays

\* The handle posts nothing.
LEMMA RealtimeRests ==
    ASSUME OwnInv, OwnInv', Ordered, ClaimInv, RealtimeDue, RealtimeOnly,
           UNCHANGED <<next_id, own, rt_notices>>, Orders({}), RtCbs' \subseteq RtCbs,
           NoCallback \notin Values(rt_live'), rt_thread' = "telling" => rt_telling' # NoCallback
    PROVE  Steps({"realtime"}) /\ RealtimeDue'
<1>1. /\ Lasting /\ SshTableInv' /\ Tables' \subseteq Tables \cup RealtimeClaims'
  <2>1. next_id <= next_id'  BY DEF OwnInv
  <2> QED  BY <2>1, RealtimeOnlyIs
<1>2. Tables' \subseteq Tables
  BY <1>1 DEF Tables, RealtimeClaims
<1>3. Moving({}, {})
  BY <1>1, <1>2 DEF Moving, Telling
<1>4. Steps({"realtime"}) /\ Steps({})
  BY <1>3, MovingSteps
<1>5. \A cb \in RtCbs : FreshIn(AllItems', cb, rt_notices + 1)
  <2>1. \A cb \in RtCbs : Claim(cb, "realtime", 0) \in Tables  BY DEF Tables, RealtimeClaims
  <2> QED  BY <1>4, <2>1 DEF Steps, Sparing, Stays, RealtimeDue, Fresh
<1>6. RealtimeDue'
  BY <1>5 DEF RealtimeDue, Fresh
<1> QED  BY <1>4, <1>6

\* The handle posts a notice.
LEMMA RealtimePosts ==
    ASSUME OwnInv, OwnInv', FrameInv, Ordered, ClaimInv, RealtimeDue, RealtimeOnly,
           NEW cb \in RtCbs, NEW what, Post(cb, Notice(what)), rt_notices' = rt_notices + 1,
           RtCbs' \subseteq RtCbs,
           NoCallback \notin Values(rt_live'), rt_thread' = "telling" => rt_telling' # NoCallback
    PROVE  Steps({"realtime"}) /\ RealtimeDue'
<1> DEFINE e == Item(cb, Notice(what))
           n == rt_notices + 1
<1>1. queue' = Append(queue, e) /\ UNCHANGED <<next_id, stack, own, called>>
  BY DEF Post
<1>2. e.cb = cb /\ e.ev.of = "realtime" /\ e.ev.id = 0 /\ e.ev.n = n
  BY DEF Item, Notice, Event
<1>3. n \in Nat /\ rt_notices' + 1 = n + 1 /\ rt_notices' \in Nat
  BY DEF RealtimeDue
<1>4. \A c \in RtCbs : FreshIn(AllItems, c, n)
  BY DEF RealtimeDue, Fresh
<1> HIDE DEF e, n
<1>5. /\ Lasting /\ SshTableInv' /\ UNCHANGED LsQueues
      /\ Tables' \subseteq Tables \cup RealtimeClaims'
  <2>1. next_id <= next_id'  BY <1>1 DEF OwnInv
  <2> QED  BY <1>1, <2>1, RealtimeOnlyIs
<1>6. Tables' \subseteq Tables
  BY <1>5 DEF Tables, RealtimeClaims
<1>7. Telling({e}, {"realtime"})
  <2>1. SourceOf(e.ev) = "realtime"  BY <1>2 DEF SourceOf
  <2>2. ClaimOf(e) = Claim(cb, "realtime", 0)  BY <1>2, <2>1 DEF ClaimOf
  <2> QED  BY <2>1, <2>2 DEF Telling, Tables, RealtimeClaims
<1>8. /\ IsSeq(queue) /\ Append(queue, e) = queue \o <<e>>
      /\ IsSeq(<<e>>) /\ ToSet(<<e>>) = {e} /\ Ascending(<<e>>)
  BY OneAppended DEF FrameInv
<1>9. Timely(<<e>>)
  <2>1. \A x \in ToSet(<<e>>) : x.ev.n \in Int /\ FreshIn(AllItems, x.cb, x.ev.n)
    BY <1>2, <1>3, <1>4, <1>8
  <2> QED  BY <1>7, <1>8, <2>1, TimelyIs
<1>10. Orders({e})
  BY <1>1, <1>5, <1>8, <1>9, PostingOrders
<1>11. Moving({e}, {"realtime"})
  BY <1>5, <1>6, <1>7, <1>10 DEF Moving
<1>12. Steps({"realtime"})
  BY <1>11, MovingSteps
<1>13. RealtimeDue'
  <2>1. Order(queue', stack', called') /\ AllItems' = AllIn(queue', stack', called')
    BY <1>12 DEF Steps, Ordered, AllItems
  <2>2. ASSUME NEW c \in RtCbs PROVE FreshIn(AllItems', c, n + 1)
    <3> SUFFICES ASSUME NEW x \in AllItems', x.cb = c PROVE x.ev.n < n + 1  BY DEF FreshIn
    <3>1. PICK y \in AllItems \cup {e} : x.cb = y.cb /\ x.ev = y.ev  BY <1>10 DEF Orders, Like
    <3>2. x.ev.n \in Int  BY <2>1, ItemsAreNumbered
    <3>3. x.ev.n < n \/ x.ev.n = n  BY <1>2, <1>4, <3>1 DEF FreshIn
    <3> QED  BY <1>3, <3>2, <3>3
  <2>3. \A c \in RtCbs' : FreshIn(AllItems', c, rt_notices' + 1)  BY <1>3, <2>2
  <2> QED  BY <1>3, <2>3 DEF RealtimeDue, Fresh
<1> QED  BY <1>12, <1>13

LEMMA RtSetSteps ==
    ASSUME OwnInv, OwnInv', FrameInv, Ordered, ClaimInv, RealtimeDue, RealtimeOnly,
           NEW name, RtSet(name)
    PROVE  Steps({"realtime"}) /\ RealtimeDue'
<1> DEFINE ids == [n \in DOMAIN rt_ids \cup {name} |-> IF n = name THEN next_id ELSE rt_ids[n]]
           drop == {rt_ids[n] : n \in {name} \cap DOMAIN rt_ids}
<1>1. /\ Reregister(drop, 1) /\ rt_ids' = ids /\ rt_live' = ids
      /\ UNCHANGED <<queue, stack, own, called, rt_thread, rt_telling, rt_notices>>
  BY DEF RtSet
<1> HIDE DEF drop
<1>2. next_id < next_id' /\ next_id <= next_id' /\ next_id \in Nat \ {0}
  BY <1>1, ReregisterGives DEF OwnInv
<1>3. /\ Lasting /\ SshTableInv' /\ UNCHANGED LsQueues
      /\ Tables' \subseteq Tables \cup RealtimeClaims'
  BY <1>1, <1>2, RealtimeOnlyIs
<1>4. Values(ids) \subseteq Values(rt_ids) \cup {next_id} /\ NoCallback \notin Values(ids)
  <2>1. Values(ids) \subseteq Values(rt_ids) \cup {next_id}  BY DEF Values
  <2>2. Values(rt_ids) \subseteq 1..(next_id - 1)  BY DEF OwnInv, Mine, Ids, Values
  <2> HIDE DEF ids
  <2>3. 0 \notin 1..(next_id - 1)  OBVIOUS
  <2>4. NoCallback = 0 /\ next_id # 0  BY <1>2 DEF NoCallback
  <2> QED  BY <2>1, <2>2, <2>3, <2>4
<1> HIDE DEF ids
<1>5. RtCbs' \subseteq RtCbs \cup {next_id}
  BY <1>1, <1>4 DEF RtCbs
<1>6. Orders({})
  BY <1>1, <1>3, StayingOrders
<1>7. Giving("realtime", 0)
  <2>1. RealtimeClaims' \subseteq RealtimeClaims \cup {Claim(next_id, "realtime", 0)}
    BY <1>5 DEF RealtimeClaims
  <2>2. Tables' \subseteq Tables \cup {Claim(next_id, "realtime", 0)}  BY <1>3, <2>1 DEF Tables
  <2>3. Exists("realtime", 0)' /\ "realtime" \in Shared  BY DEF Exists, Shared
  <2> QED  BY <1>2, <1>3, <1>6, <2>2, <2>3 DEF Giving
<1>8. Steps({"realtime"}) /\ Sparing({}) /\ UntoldIn(AllItems', next_id)
  BY <1>2, <1>7, GivingSteps
<1>9. RealtimeDue'
  <2>1. \A cb \in RtCbs : FreshIn(AllItems', cb, rt_notices + 1)
    <3>1. \A cb \in RtCbs : Claim(cb, "realtime", 0) \in Tables  BY DEF Tables, RealtimeClaims
    <3> QED  BY <1>8, <3>1 DEF Sparing, Stays, RealtimeDue, Fresh
  <2>2. FreshIn(AllItems', next_id, rt_notices + 1)  BY <1>8, UntoldIsFresh
  <2>3. \A cb \in RtCbs' : FreshIn(AllItems', cb, rt_notices' + 1)  BY <1>1, <1>5, <2>1, <2>2
  <2> QED  BY <1>1, <1>4, <2>3 DEF RealtimeDue, Fresh
<1> QED  BY <1>8, <1>9

LEMMA RealtimeStep ==
    ASSUME OwnInv, OwnInv', FrameInv, Ordered, ClaimInv, RealtimeDue, RealtimeOnly,
           \/ \E name : RtSet(name) \/ RtTell(name)
           \/ RtStart \/ RtPost \/ RtExit \/ RtJoined \/ RtDrain \/ RtClosed
           \/ \E dispatch : RtClose(dispatch)
    PROVE  Steps({"realtime"}) /\ RealtimeDue'
<1>1. /\ NoCallback \notin Values(rt_live) /\ (rt_thread = "telling" => rt_telling # NoCallback)
      /\ UNCHANGED LsQueues /\ IsSeq(stack)
  BY SshTableStays DEF RealtimeDue, RealtimeOnly, FrameInv
<1>2. ASSUME NEW name, RtTell(name)
      PROVE  Steps({"realtime"}) /\ RealtimeDue'
  <2>1. /\ name \in DOMAIN rt_live /\ rt_telling' = rt_live[name]
        /\ UNCHANGED <<queue, stack, called, next_id, own, rt_ids, rt_live, rt_notices>>
    BY <1>2 DEF RtTell, cbVars
  <2>2. rt_telling' \in Values(rt_live) /\ Values(rt_live') = Values(rt_live)  BY <2>1 DEF Values
  <2>3. RtCbs' \subseteq RtCbs  BY <2>1, <2>2 DEF RtCbs
  <2>4. Orders({})  BY <1>1, <2>1, StayingOrders
  <2> QED  BY <1>1, <2>1, <2>2, <2>3, <2>4, RealtimeRests
<1>3. CASE RtStart \/ RtExit
  <2>1. /\ rt_thread' # "telling"
        /\ UNCHANGED <<queue, stack, called, next_id, own, rt_ids, rt_live, rt_telling, rt_notices>>
    BY <1>3 DEF RtStart, RtExit, cbVars
  <2>2. RtCbs' \subseteq RtCbs /\ Values(rt_live') = Values(rt_live)  BY <2>1 DEF RtCbs, Values
  <2>3. Orders({})  BY <1>1, <2>1, StayingOrders
  <2> QED  BY <1>1, <2>1, <2>2, <2>3, RealtimeRests
<1>4. CASE RtPost
  <2>1. /\ rt_thread = "telling" /\ Post(rt_telling, Notice("notice"))
        /\ rt_thread' = "up" /\ rt_telling' = NoCallback /\ rt_notices' = rt_notices + 1
        /\ UNCHANGED <<rt_ids, rt_live>>
    BY <1>4 DEF RtPost
  <2>2. rt_telling \in RtCbs /\ RtCbs' \subseteq RtCbs /\ Values(rt_live') = Values(rt_live)
    BY <1>1, <2>1 DEF RtCbs, Values
  <2> QED  BY <1>1, <2>1, <2>2, RealtimePosts
<1>5. CASE RtJoined
  <2>1. UNCHANGED <<rt_ids, rt_live, rt_thread, rt_telling>>  BY <1>5 DEF RtJoined
  <2>2. RtCbs' = RtCbs /\ Values(rt_live') = Values(rt_live)  BY <2>1 DEF RtCbs, Values
  <2>3. CASE rt_thread = "gone" /\ "stopped" \in DOMAIN rt_live
    <3>1. Post(rt_live["stopped"], Notice("stopped")) /\ rt_notices' = rt_notices + 1
      BY <1>5, <2>3 DEF RtJoined
    <3>2. rt_live["stopped"] \in RtCbs  BY <1>1, <2>3 DEF RtCbs, Values
    <3> QED  BY <1>1, <2>1, <2>2, <3>1, <3>2, RealtimePosts
  <2>4. CASE ~(rt_thread = "gone" /\ "stopped" \in DOMAIN rt_live)
    <3>1. UNCHANGED <<queue, stack, called, next_id, own, rt_notices>>
      BY <1>5, <2>4 DEF RtJoined, cbVars
    <3>2. Orders({})  BY <1>1, <3>1, StayingOrders
    <3> QED  BY <1>1, <2>1, <2>2, <3>1, <3>2, RealtimeRests
  <2> QED  BY <2>3, <2>4
<1>6. CASE RtDrain
  <2>1. /\ Top.kind = "close" /\ DispatchFrom(stack, queue, Ids, 0)
        /\ UNCHANGED <<next_id, own, called, rt_ids, rt_live, rt_thread, rt_telling, rt_notices>>
    BY <1>6 DEF RtDrain, lrVars
  <2>2. RtCbs' = RtCbs /\ Values(rt_live') = Values(rt_live)  BY <2>1 DEF RtCbs, Values
  <2>3. Orders({})  BY <1>1, <2>1, TakingOrders
  <2> QED  BY <1>1, <2>1, <2>2, <2>3, RealtimeRests
<1>7. CASE RtClosed
  <2> DEFINE S == DOMAIN queue \ TakenAt(queue, Ids, 0)
  <2>1. /\ Top.kind # "none" /\ stack' = Below /\ queue' = At(queue, S) /\ rt_ids' = <<>>
        /\ UNCHANGED <<next_id, own, called, rt_live, rt_thread, rt_telling, rt_notices>>
    BY <1>7 DEF RtClosed
  <2>2. RtCbs' \subseteq RtCbs /\ Values(rt_live') = Values(rt_live)  BY <2>1 DEF RtCbs, Values
  <2>3. S \in SUBSET DOMAIN queue  OBVIOUS
  <2> HIDE DEF S
  <2>4. IsSeq(queue') /\ Ascending(queue') /\ ToSet(queue') \subseteq ToSet(queue)
    BY <2>1, <2>3, QueueThinned
  <2>5. Orders({})  BY <1>1, <2>1, <2>4, PoppingOrders
  <2> QED  BY <1>1, <2>1, <2>2, <2>5, RealtimeRests
<1>8. ASSUME NEW dispatch, RtClose(dispatch)
      PROVE  Steps({"realtime"}) /\ RealtimeDue'
  <2>1. /\ LuaRuns /\ stack' = Append(stack, Frame("close", <<>>, NoItem))
        /\ UNCHANGED <<queue, called, next_id, own, rt_ids, rt_live, rt_thread, rt_telling,
                       rt_notices>>
    BY <1>8 DEF RtClose
  <2>2. RtCbs' = RtCbs /\ Values(rt_live') = Values(rt_live)  BY <2>1 DEF RtCbs, Values
  <2>3. Quiet \/ stack = <<>>  BY <1>1, <2>1, TopIsQuiet
  <2>4. Orders({})  BY <1>1, <2>1, <2>3, PushingOrders
  <2> QED  BY <1>1, <2>1, <2>2, <2>4, RealtimeRests
<1> QED  BY <1>2, <1>3, <1>4, <1>5, <1>6, <1>7, <1>8, RtSetSteps

-----------------------------------------------------------------------------
(* The ssh module.                                                         *)

LEMMA SshOnlyIs ==
    ASSUME SshOnly, OwnInv, OwnInv', next_id <= next_id', UNCHANGED own,
           1..(ssh_next - 1) \subseteq 1..(ssh_next' - 1)
    PROVE  Lasting /\ Tables' \subseteq Tables \cup SshClaims'
<1>1. UNCHANGED lhVars /\ UNCHANGED ljVars /\ UNCHANGED lpVars
      /\ UNCHANGED lrVars /\ UNCHANGED ltVars
  BY DEF SshOnly
<1>2. UNCHANGED <<http_next, phase, proc_next, loads>>
  BY DEF SshOnly, hcVars, ljVars, lpVars, ltVars
<1>3. Lasting
  BY <1>2, LastingIs
<1>4. Tables' \subseteq Tables \cup SshClaims'
  BY <1>1, ClaimsFrame DEF Tables
<1> QED  BY <1>3, <1>4

LEMMA SshRests ==
    ASSUME OwnInv, OwnInv', ClaimInv, SshOnly, NEW items, Orders(items), SshTells(items),
           SshTableInv', UNCHANGED <<own, op_callback>>, next_id <= next_id',
           1..(ssh_next - 1) \subseteq 1..(ssh_next' - 1)
    PROVE  Steps({"ssh"})
<1>1. Lasting /\ Tables' \subseteq Tables \cup SshClaims'
  BY SshOnlyIs
<1>2. Tables' \subseteq Tables
  BY <1>1 DEF Tables, SshClaims
<1>3. Telling(items, {"ssh"})
  <2> SUFFICES ASSUME NEW e \in items
               PROVE  ClaimOf(e) \in Tables /\ SourceOf(e.ev) \in {"ssh"}
    BY DEF Telling
  <2>1. PICK op \in Ops : SshItem(e, op, op_callback) /\ e.ev.of = "ssh" /\ e.ev.id = op
    BY DEF SshTells
  <2>2. SourceOf(e.ev) = "ssh"  BY <2>1 DEF SourceOf
  <2>3. ClaimOf(e) = Claim(op_callback[op], "ssh", op) /\ op_callback[op] # NoCallback
    BY <2>1, <2>2 DEF ClaimOf, SshItem
  <2> QED  BY <2>2, <2>3 DEF Tables, SshClaims
<1>4. Moving(items, {"ssh"})
  BY <1>1, <1>2, <1>3 DEF Moving
<1> QED  BY <1>4, MovingSteps

LEMMA SshStartSteps ==
    ASSUME OwnInv, OwnInv', Ordered, ClaimInv, SshOnly, NEW with \in BOOLEAN, SshStart(with)
    PROVE  Steps({"ssh"})
<1>1. /\ ssh_next \in Nat \ {0} /\ ssh_next' = ssh_next + 1 /\ ssh_next \in Ops
      /\ UNCHANGED own
      /\ DOMAIN op_callback = Ops
  BY DEF SshStart, Ordered, SshTableInv
<1>2. 1..(ssh_next - 1) \subseteq 1..(ssh_next' - 1) /\ ssh_next \in 1..(ssh_next' - 1)
      /\ ssh_next \notin 1..(ssh_next - 1)
  BY <1>1
<1>3. UntoldIn(AllItems, next_id) /\ next_id \in Nat \ {0}
  BY NewIsUntold DEF OwnInv
<1>4. Orders({}) /\ SshTableInv'
  BY <1>3, SshStartOrders
<1>5. PICK op \in Ops : op = ssh_next
  BY <1>1
<1>6. CASE with
  <2>1. Reregister({}, 1) /\ op_callback' = [op_callback EXCEPT ![ssh_next] = next_id]
    BY <1>6 DEF SshStart
  <2>2. next_id < next_id' /\ next_id <= next_id'  BY <2>1, ReregisterGives
  <2>3. Lasting /\ Tables' \subseteq Tables \cup SshClaims'  BY <1>1, <1>2, <2>2, SshOnlyIs
  <2>4. \A x \in Ops : op_callback'[x] = IF x = op THEN next_id ELSE op_callback[x]
    BY <1>1, <1>5, <2>1
  <2>5. SshClaims' \subseteq SshClaims \cup {Claim(next_id, "ssh", op)}  BY <2>4 DEF SshClaims
  <2>6. Tables' \subseteq Tables \cup {Claim(next_id, "ssh", op)}  BY <2>3, <2>5 DEF Tables
  <2>7. Exists("ssh", op)' /\ ~Exists("ssh", op)  BY <1>2, <1>5 DEF Exists
  <2>8. Giving("ssh", op)  BY <1>4, <2>2, <2>3, <2>6, <2>7 DEF Giving
  <2> QED  BY <1>3, <2>8, GivingSteps
<1>7. CASE ~with
  <2>1. UNCHANGED <<next_id, op_callback>> /\ next_id <= next_id'  BY <1>3, <1>7 DEF SshStart
  <2>2. SshTells({})  BY DEF SshTells
  <2> QED  BY <1>1, <1>2, <1>4, <2>1, <2>2, SshRests
<1> QED  BY <1>6, <1>7

LEMMA SshStep ==
    ASSUME OwnInv, OwnInv', FrameInv, Ordered, ClaimInv, SshOnly,
           \/ \E with \in BOOLEAN : SshStart(with)
           \/ \E max \in {0, 1} : SshPollCall(max)
           \/ LuaRuns /\ SshDispatch
           \/ SshHandle \/ SshHandled \/ SshDispatched
           \/ \E op \in Ops : \E last \in BOOLEAN : SshEmit(op, last)
    PROVE  Steps({"ssh"}) /\ UNCHANGED own
<1>1. UNCHANGED own
  <2>1. CASE \E with \in BOOLEAN : SshStart(with)  BY <2>1 DEF SshStart
  <2>2. CASE \E max \in {0, 1} : SshPollCall(max)  BY <2>2, SshPollOrders
  <2>3. CASE \E op \in Ops : \E last \in BOOLEAN : SshEmit(op, last)  BY <2>3 DEF SshEmit, cbVars
  <2> QED  BY <2>1, <2>2, <2>3 DEF SshDispatch, SshHandle, SshHandled, SshDispatched
<1>2. CASE \E with \in BOOLEAN : SshStart(with)
  BY <1>1, <1>2, SshStartSteps
<1>3. next_id \in Nat /\ SshTells({})
  BY DEF OwnInv, SshTells
<1>4. ASSUME NEW items, Orders(items), SshTells(items), SshTableInv',
             UNCHANGED <<next_id, op_callback, ssh_next>>
      PROVE  Steps({"ssh"})
  <2>1. next_id <= next_id' /\ 1..(ssh_next - 1) \subseteq 1..(ssh_next' - 1)  BY <1>3, <1>4
  <2> QED  BY <1>1, <1>4, <2>1, SshRests
<1>5. ASSUME NEW max \in {0, 1}, SshPollCall(max)
      PROVE  Steps({"ssh"})
  <2>1. UNCHANGED <<next_id, op_callback, ssh_next>> /\ Orders({}) /\ SshTableInv'
    BY <1>5, SshPollOrders
  <2> QED  BY <1>1, <1>3, <1>4, <2>1
<1>6. CASE LuaRuns /\ SshDispatch
  <2>1. UNCHANGED <<next_id, op_callback, ssh_next>>  BY <1>6 DEF SshDispatch
  <2>2. Orders({}) /\ SshTableInv'  BY <1>6, SshDispatchOrders
  <2> QED  BY <1>1, <1>3, <1>4, <2>1, <2>2
<1>7. CASE SshHandle
  <2>1. UNCHANGED <<next_id, op_callback, ssh_next>>  BY <1>7 DEF SshHandle
  <2>2. SshTableInv' /\ \E items : Orders(items) /\ SshTells(items)
    BY <1>7, OperationsDiffer, SshHandleOrders
  <2> QED  BY <1>1, <1>4, <2>1, <2>2
<1>8. CASE SshHandled
  <2>1. UNCHANGED <<op_callback, ssh_next>> /\ (UNCHANGED next_id \/ \E cb : Reregister({cb}, 0))
    BY <1>8 DEF SshHandled, Unregister
  <2>2. next_id' = next_id
    <3>1. ASSUME NEW cb, Reregister({cb}, 0) PROVE next_id' = next_id
      BY <3>1 DEF OwnInv, Reregister
    <3> QED  BY <2>1, <3>1
  <2>3. Orders({}) /\ SshTableInv'  BY <1>8, SshHandledOrders
  <2> QED  BY <1>1, <1>3, <1>4, <2>1, <2>2, <2>3
<1>9. CASE SshDispatched
  <2>1. UNCHANGED <<next_id, op_callback, ssh_next>>  BY <1>9 DEF SshDispatched, lsVars
  <2>2. Orders({}) /\ SshTableInv'  BY <1>9, SshDispatchedOrders
  <2> QED  BY <1>1, <1>3, <1>4, <2>1, <2>2
<1>10. ASSUME NEW op \in Ops, NEW last \in BOOLEAN, SshEmit(op, last)
       PROVE  Steps({"ssh"})
  <2>1. UNCHANGED <<next_id, op_callback, ssh_next>>  BY <1>10 DEF SshEmit, cbVars
  <2>2. Orders({}) /\ SshTableInv'  BY <1>10, SshEmitOrders
  <2> QED  BY <1>3, <1>4, <2>1, <2>2
<1> QED  BY <1>1, <1>2, <1>5, <1>6, <1>7, <1>8, <1>9, <1>10

-----------------------------------------------------------------------------
(* Sequences without repetitions.                                          *)

IdsOf(s) == {s[i].id : i \in DOMAIN s}

\* a and b are what s has up to its m-th element and after it.
Splits(s, m, a, b) ==
    /\ IsSeq(a) /\ IsSeq(b) /\ DOMAIN a = 1..m
    /\ \A i \in 1..m : i \in DOMAIN s /\ a[i] = s[i]
    /\ \A i \in DOMAIN b : i \in Nat /\ m + i \in DOMAIN s /\ b[i] = s[m + i] /\ i > 0

LEMMA AtPicks ==
    ASSUME NEW q, IsSeq(q), NEW S \in SUBSET DOMAIN q
    PROVE  \E at : /\ \A k \in DOMAIN At(q, S) : at[k] \in S /\ At(q, S)[k] = q[at[k]]
                   /\ \A k, l \in DOMAIN At(q, S) : at[k] = at[l] => k = l
<1> DEFINE n == Cardinality(S)
<1>1. n \in Nat
  BY AtRises
<1>2. \E at \in [1..n -> S] :
            /\ At(q, S) = [k \in 1..n |-> q[at[k]]]
            /\ \A k, l \in 1..n : k < l => at[k] < at[l]
            /\ \A i \in S : \E k \in 1..n : at[k] = i
  BY AtRises
<1> HIDE DEF n
<1>3. PICK at \in [1..n -> S] :
            /\ At(q, S) = [k \in 1..n |-> q[at[k]]]
            /\ \A k, l \in 1..n : k < l => at[k] < at[l]
  BY <1>2
<1>4. DOMAIN At(q, S) = 1..n /\ \A k \in 1..n : at[k] \in S /\ At(q, S)[k] = q[at[k]]
  BY <1>3
<1>5. ASSUME NEW k \in 1..n, NEW l \in 1..n, at[k] = at[l]
      PROVE  k = l
  <2>1. at[k] \in Nat /\ at[l] \in Nat  BY <1>4, SeqIs
  <2>2. ~(at[k] < at[l]) /\ ~(at[l] < at[k])  BY <1>5, <2>1
  <2>3. ~(k < l) /\ ~(l < k)  BY <1>3, <2>2
  <2> QED  BY <1>1, <2>3
<1> QED  BY <1>4, <1>5

LEMMA DistinctAt ==
    ASSUME NEW q, IsSeq(q), NEW S \in SUBSET DOMAIN q
    PROVE  /\ Distinct(q) => Distinct(At(q, S))
           /\ DistinctIds(q) => DistinctIds(At(q, S))
<1>1. PICK at : /\ \A k \in DOMAIN At(q, S) : at[k] \in S /\ At(q, S)[k] = q[at[k]]
                /\ \A k, l \in DOMAIN At(q, S) : at[k] = at[l] => k = l
  BY AtPicks
<1>2. \A k \in DOMAIN At(q, S) : at[k] \in DOMAIN q
  BY <1>1
<1>3. Distinct(q) => Distinct(At(q, S))
  BY <1>1, <1>2 DEF Distinct
<1>4. DistinctIds(q) => DistinctIds(At(q, S))
  BY <1>1, <1>2 DEF DistinctIds
<1> QED  BY <1>3, <1>4

LEMMA Shifted ==
    ASSUME NEW m \in Nat, NEW n \in Nat, m <= n
    PROVE  /\ (IF m + 1 <= n THEN n - (m + 1) + 1 ELSE 0) = n - m
           /\ n - (m + 1) + 1 = n - m
           /\ n - m \in Nat
           /\ \A i \in 1..(n - m) : (m + 1) + i - 1 = m + i /\ i \in Nat /\ i > 0 /\ m + i \in 1..n
OBVIOUS

LEMMA PrefixSplits ==
    ASSUME NEW s, IsSeq(s), NEW max \in Nat, NEW a,
           a = IF max = 0 \/ max > Len(s) THEN s ELSE SubSeq(s, 1, max)
    PROVE  Splits(s, Len(a), a, SubSeq(s, Len(a) + 1, Len(s))) /\ Len(a) \in Nat
<1> DEFINE n == Len(s)
           T == ToSet(s)
<1>1. n \in Nat /\ DOMAIN s = 1..n /\ s \in Seq(T) /\ \A i \in 1..n : s[i] \in T
  BY SeqIs
<1>2. \E m \in 0..n : /\ IsSeq(a) /\ Len(a) = m /\ DOMAIN a = 1..m
                      /\ \A i \in 1..m : i \in 1..n /\ a[i] = s[i]
  <2>1. CASE max = 0 \/ max > n
    <3>1. a = s  BY <2>1
    <3>2. n \in 0..n  BY <1>1
    <3>3. Len(a) = n /\ DOMAIN a = 1..n /\ IsSeq(a)  BY <1>1, <3>1, Zenon
    <3> HIDE DEF n
    <3>4. \A i \in 1..n : i \in 1..n /\ a[i] = s[i]  BY <3>1
    <3> QED  BY <3>2, <3>3, <3>4
  <2>2. CASE ~(max = 0 \/ max > n)
    <3>1. a = SubSeq(s, 1, max) /\ max \in 1..n  BY <1>1, <2>2
    <3>2. 1 \in 1..(n + 1) /\ max \in 0..n /\ 1 \in Nat \ {0} /\ 1 \in Int /\ max \in Int
      BY <1>1, <3>1
    <3>3. \A i \in 1..max : s[i] \in T /\ i \in 1..n  BY <1>1, <3>1
    <3>4. /\ SubSeq(s, 1, max) \in Seq(T)
          /\ Len(SubSeq(s, 1, max)) = IF 1 <= max THEN max - 1 + 1 ELSE 0
          /\ \A i \in 1..(max - 1 + 1) : SubSeq(s, 1, max)[i] = s[1 + i - 1]
      BY <3>2, <3>3, SubSeqProperties
    <3>5. Len(a) = max /\ DOMAIN a = 1..max /\ \A i \in 1..max : a[i] = s[i]  BY <3>1, <3>4
    <3> QED  BY <3>1, <3>2, <3>3, <3>4, <3>5 DEF IsSeq
  <2> QED  BY <2>1, <2>2
<1>3. PICK m \in 0..n : /\ IsSeq(a) /\ Len(a) = m /\ DOMAIN a = 1..m
                        /\ \A i \in 1..m : i \in 1..n /\ a[i] = s[i]
  BY <1>2
<1> DEFINE b == SubSeq(s, m + 1, n)
<1>4. m \in Nat /\ m <= n /\ m + 1 \in Int /\ n \in Int /\ \A i \in (m + 1)..n : s[i] \in T
  BY <1>1
<1>5. /\ b \in Seq(T)
      /\ Len(b) = IF m + 1 <= n THEN n - (m + 1) + 1 ELSE 0
      /\ \A i \in 1..(n - (m + 1) + 1) : b[i] = s[(m + 1) + i - 1]
  BY <1>4, SubSeqProperties
<1> HIDE DEF b, n
<1>6. /\ (IF m + 1 <= n THEN n - (m + 1) + 1 ELSE 0) = n - m
      /\ n - (m + 1) + 1 = n - m
      /\ n - m \in Nat
      /\ \A i \in 1..(n - m) : (m + 1) + i - 1 = m + i /\ i \in Nat /\ i > 0 /\ m + i \in 1..n
  BY <1>1, <1>4, Shifted
<1>7. Len(b) = n - m /\ DOMAIN b = 1..(n - m)
  BY <1>5, <1>6
<1>8. \A i \in 1..(n - m) : b[i] = s[m + i]
  BY <1>5, <1>6
<1>9. IsSeq(b)
  BY <1>5 DEF IsSeq
<1>10. \A i \in 1..m : i \in DOMAIN s /\ a[i] = s[i]
  BY <1>1, <1>3
<1>11. \A i \in DOMAIN b : i \in Nat /\ m + i \in DOMAIN s /\ b[i] = s[m + i] /\ i > 0
  BY <1>1, <1>6, <1>7, <1>8
<1>12. Splits(s, m, a, b)
  BY <1>3, <1>9, <1>10, <1>11 DEF Splits
<1> QED  BY <1>3, <1>4, <1>12 DEF b, n

LEMMA SplitDistinct ==
    ASSUME NEW s, NEW m \in Nat, NEW a, NEW b, Splits(s, m, a, b)
    PROVE  /\ ToSet(a) \subseteq ToSet(s) /\ ToSet(b) \subseteq ToSet(s)
           /\ IdsOf(a) \subseteq IdsOf(s) /\ IdsOf(b) \subseteq IdsOf(s)
           /\ Distinct(s) => Distinct(a) /\ Distinct(b) /\ ToSet(a) \cap ToSet(b) = {}
           /\ DistinctIds(s) => /\ DistinctIds(a) /\ DistinctIds(b)
                                /\ IdsOf(a) \cap IdsOf(b) = {}
<1>1. DOMAIN a = 1..m /\ \A i \in 1..m : i \in DOMAIN s /\ a[i] = s[i]
  BY DEF Splits
<1>2. \A i \in DOMAIN b : i \in Nat /\ i > 0 /\ m + i \in DOMAIN s /\ b[i] = s[m + i]
  BY DEF Splits
<1>3. \A i, j \in DOMAIN b : m + i = m + j => i = j
  BY <1>2
<1>4. \A i \in 1..m : \A j \in DOMAIN b : i # m + j
  BY <1>2
<1>5. /\ ToSet(a) \subseteq ToSet(s) /\ ToSet(b) \subseteq ToSet(s)
      /\ IdsOf(a) \subseteq IdsOf(s) /\ IdsOf(b) \subseteq IdsOf(s)
  BY <1>1, <1>2 DEF ToSet, IdsOf
<1>6. ASSUME Distinct(s)
      PROVE  Distinct(a) /\ Distinct(b) /\ ToSet(a) \cap ToSet(b) = {}
  <2>1. Distinct(a)  BY <1>1, <1>6 DEF Distinct
  <2>2. Distinct(b)  BY <1>2, <1>3, <1>6 DEF Distinct
  <2>3. ASSUME NEW i \in 1..m, NEW j \in DOMAIN b PROVE a[i] # b[j]
    BY <1>1, <1>2, <1>4, <1>6 DEF Distinct
  <2> QED  BY <1>1, <2>1, <2>2, <2>3 DEF ToSet
<1>7. ASSUME DistinctIds(s)
      PROVE  DistinctIds(a) /\ DistinctIds(b) /\ IdsOf(a) \cap IdsOf(b) = {}
  <2>1. DistinctIds(a)  BY <1>1, <1>7 DEF DistinctIds
  <2>2. DistinctIds(b)  BY <1>2, <1>3, <1>7 DEF DistinctIds
  <2>3. ASSUME NEW i \in 1..m, NEW j \in DOMAIN b PROVE a[i].id # b[j].id
    BY <1>1, <1>2, <1>4, <1>7 DEF DistinctIds
  <2> QED  BY <1>1, <2>1, <2>2, <2>3 DEF IdsOf
<1> QED  BY <1>5, <1>6, <1>7

LEMMA DistinctAppend ==
    ASSUME NEW s, IsSeq(s), NEW e
    PROVE  /\ Distinct(s) /\ e \notin ToSet(s) => Distinct(Append(s, e))
           /\ DistinctIds(s) /\ e.id \notin IdsOf(s) => DistinctIds(Append(s, e))
           /\ IdsOf(Append(s, e)) = IdsOf(s) \cup {e.id}
<1> DEFINE n == Len(s)
           t == Append(s, e)
<1>1. /\ n \in Nat /\ DOMAIN s = 1..n
      /\ IsSeq(t) /\ Len(t) = n + 1 /\ t[n + 1] = e /\ \A i \in 1..n : t[i] = s[i]
  BY SeqIs, AppendIs
<1>2. DOMAIN t = 1..(n + 1)
  BY <1>1, SeqIs
<1> HIDE DEF n, t
<1>3. 1..(n + 1) = 1..n \cup {n + 1}
  BY <1>1
<1>4. Distinct(s) /\ e \notin ToSet(s) => Distinct(t)
  BY <1>1, <1>2, <1>3 DEF Distinct, ToSet
<1>5. DistinctIds(s) /\ e.id \notin IdsOf(s) => DistinctIds(t)
  BY <1>1, <1>2, <1>3 DEF DistinctIds, IdsOf
<1>6. IdsOf(t) = IdsOf(s) \cup {e.id}
  BY <1>1, <1>2, <1>3 DEF IdsOf
<1> QED  BY <1>4, <1>5, <1>6 DEF t

LEMMA DistinctConcat ==
    ASSUME NEW s, NEW t, IsSeq(s), IsSeq(t), Distinct(s), Distinct(t), ToSet(s) \cap ToSet(t) = {}
    PROVE  Distinct(s \o t)
<1> DEFINE S == ToSet(s) \cup ToSet(t)
           m == Len(s)
           n == Len(t)
           c == s \o t
<1>1. s \in Seq(S) /\ t \in Seq(S)
  BY SeqIs, SeqMonotonic
<1>2. /\ c \in Seq(S) /\ Len(c) = m + n
      /\ \A i \in 1..m + n : c[i] = IF i <= m THEN s[i] ELSE t[i - m]
  BY <1>1, ConcatProperties
<1>3. m \in Nat /\ n \in Nat /\ DOMAIN s = 1..m /\ DOMAIN t = 1..n /\ DOMAIN c = 1..m + n
  BY <1>2, SeqIs
<1> HIDE DEF m, n, c
<1>4. \A i \in 1..m + n : \/ i \in 1..m /\ c[i] = s[i]
                          \/ i - m \in 1..n /\ c[i] = t[i - m]
  BY <1>2, <1>3
<1>5. \A i, j \in 1..m + n : i - m = j - m => i = j
  BY <1>3
<1>6. ASSUME NEW i \in 1..m, NEW j \in 1..n PROVE s[i] # t[j]
  BY <1>3 DEF ToSet
<1>7. ASSUME NEW i \in 1..m + n, NEW j \in 1..m + n, c[i] = c[j] PROVE i = j
  <2>1. CASE i \in 1..m /\ c[i] = s[i] /\ j \in 1..m /\ c[j] = s[j]
    BY <1>3, <1>7, <2>1 DEF Distinct
  <2>2. CASE i - m \in 1..n /\ c[i] = t[i - m] /\ j - m \in 1..n /\ c[j] = t[j - m]
    BY <1>3, <1>5, <1>7, <2>2 DEF Distinct
  <2> QED  BY <1>4, <1>6, <1>7, <2>1, <2>2
<1>8. \A i, j \in DOMAIN c : c[i] = c[j] => i = j
  BY <1>3, <1>7
<1> QED  BY <1>8 DEF Distinct, c

-----------------------------------------------------------------------------
(* The jobs module.                                                        *)

LEMMA JobsOnlyIs ==
    ASSUME JobsOnly, OwnInv, OwnInv', Ordered, next_id <= next_id', UNCHANGED own,
           \A id \in Jobs : phase[id] # "unborn" => phase'[id] # "unborn"
    PROVE  Lasting /\ SshTableInv' /\ UNCHANGED LsQueues /\ Tables' \subseteq Tables \cup JobClaims'
<1>1. UNCHANGED lhVars /\ UNCHANGED lsVars /\ UNCHANGED lpVars
      /\ UNCHANGED lrVars /\ UNCHANGED ltVars
  BY DEF JobsOnly
<1>2. UNCHANGED <<http_next, ssh_next, proc_next, loads>>
  BY DEF JobsOnly, hcVars, lsVars, lpVars, ltVars
<1>3. Lasting
  BY <1>2, LastingIs
<1>4. Tables' \subseteq Tables \cup JobClaims'
  BY <1>1, ClaimsFrame DEF Tables
<1> QED  BY <1>1, <1>3, <1>4, SshTableStays

\* A batch, or the queue, gets answers.
LEMMA AnswersOrder ==
    ASSUME Ordered, ClaimInv, FrameInv, LuaRuns, NEW items, NEW S, Answers(items, S),
           NEW ids, NEW max \in Nat, DispatchFrom(stack, queue \o items, ids, max),
           UNCHANGED called, UNCHANGED LsQueues
    PROVE  Orders(ToSet(items))
<1>1. Timely(items)
  BY AnswersAreTimely
<1>2. Quiet \/ stack = <<>>
  BY TopIsQuiet DEF FrameInv
<1> QED  BY <1>1, <1>2, DispatchingOrders

LEMMA TakeJobsIs ==
    ASSUME JobLineInv, IsSeq(job_results), NEW max \in Nat, TakeJobs(max)
    PROVE  /\ JobLineInv' /\ IsSeq(JobsTaken(max)) /\ Distinct(JobsTaken(max))
           /\ \A id \in Jobs : phase[id] # "unborn" => phase'[id] # "unborn"
<1> DEFINE a == JobsTaken(max)
           b == SubSeq(job_results, Len(a) + 1, Len(job_results))
<1>1. a = IF max = 0 \/ max > Len(job_results) THEN job_results ELSE SubSeq(job_results, 1, max)
  BY DEF JobsTaken
<1>2. job_results' = b
  BY DEF TakeJobs
<1>3. phase' = [i \in Jobs |-> IF i \in ToSet(a) THEN "delivered" ELSE phase[i]]
  BY DEF TakeJobs, Pool!Deliver, Pool!Ids, Jobs, ToSet
<1>4. IsSeq(a)
  BY JobsTakenIs
<1> HIDE DEF a
<1>5. Splits(job_results, Len(a), a, b) /\ Len(a) \in Nat
  BY <1>1, PrefixSplits
<1> HIDE DEF b
<1>6. Distinct(job_results)
  BY DEF JobLineInv
<1> DEFINE m == Len(a)
<1>7. /\ ToSet(a) \subseteq ToSet(job_results) /\ ToSet(b) \subseteq ToSet(job_results)
      /\ Distinct(a) /\ Distinct(b) /\ ToSet(a) \cap ToSet(b) = {}
  <2>1. m \in Nat /\ Splits(job_results, m, a, b)  BY <1>5
  <2> HIDE DEF m
  <2> QED  BY <1>6, <2>1, SplitDistinct
<1>8. \A id \in ToSet(b) : id \in Jobs /\ phase'[id] = "finished"
  BY <1>3, <1>7 DEF JobLineInv
<1>9. JobLineInv'
  <2>1. Distinct(job_results')  BY <1>2, <1>7
  <2>2. \A id \in ToSet(job_results') : id \in Jobs /\ phase'[id] = "finished"  BY <1>2, <1>8
  <2>3. DOMAIN phase' = Jobs  BY <1>3
  <2> QED  BY <2>1, <2>2, <2>3 DEF JobLineInv, Jobs
<1>10. \A id \in Jobs : phase[id] # "unborn" => phase'[id] # "unborn"
  BY <1>3
<1> QED  BY <1>4, <1>7, <1>9, <1>10 DEF a

\* The results of jobs that have a callback.
LEMMA JobItemsAre ==
    ASSUME NEW ids, IsSeq(ids), Distinct(ids), JobDue
    PROVE  /\ Answers(JobItems(ids), {"job"})
           /\ \A e \in ToSet(JobItems(ids)) : e.ev.id \in ToSet(ids)
<1> DEFINE S == {i \in DOMAIN ids : ids[i] \in DOMAIN job_callbacks}
           mine == At(ids, S)
           items == JobItems(ids)
<1>1. items = [k \in DOMAIN mine |-> Item(job_callbacks[mine[k]], Event("job", mine[k], "result", 0))]
  BY DEF JobItems
<1>2. IsSeq(mine) /\ ToSet(mine) = {ids[i] : i \in S} /\ IsSeq(items)
  BY AtIs, JobItemsIs
<1>3. Distinct(mine)
  BY DistinctAt
<1> HIDE DEF mine, items
<1>4. \A k \in DOMAIN mine : mine[k] \in ToSet(ids) /\ mine[k] \in DOMAIN job_callbacks
  <2>1. \A k \in DOMAIN mine : mine[k] \in ToSet(mine)  BY DEF ToSet
  <2> QED  BY <1>2, <2>1 DEF ToSet
<1>5. DOMAIN items = DOMAIN mine
  BY <1>1
<1>6. \A k \in DOMAIN items : /\ items[k].cb = job_callbacks[mine[k]]
                              /\ items[k].ev.of = "job" /\ items[k].ev.id = mine[k]
                              /\ items[k].ev.n = 0
  BY <1>1 DEF Item, Event
<1>7. ASSUME NEW e \in ToSet(items)
      PROVE  /\ e.ev.id \in ToSet(ids) /\ e.ev.n = 0 /\ SourceOf(e.ev) = "job"
             /\ ClaimOf(e) \in Tables /\ UntoldIn(AllItems, e.cb)
  <2>1. PICK k \in DOMAIN items : e = items[k]  BY DEF ToSet
  <2> DEFINE j == mine[k]
  <2>2. j \in ToSet(ids) /\ j \in DOMAIN job_callbacks  BY <1>4, <1>5
  <2>3. e.cb = job_callbacks[j] /\ e.ev.of = "job" /\ e.ev.id = j /\ e.ev.n = 0  BY <1>6, <2>1
  <2> HIDE DEF j
  <2>4. SourceOf(e.ev) = "job"  BY <2>3 DEF SourceOf
  <2>5. ClaimOf(e) = Claim(job_callbacks[j], "job", j)  BY <2>3, <2>4 DEF ClaimOf
  <2>6. ClaimOf(e) \in Tables  BY <2>2, <2>5 DEF Tables, JobClaims
  <2> QED  BY <2>2, <2>3, <2>4, <2>6 DEF JobDue, Untold
<1>8. \A i, j \in DOMAIN items : items[i].ev.id = items[j].ev.id => i = j
  BY <1>3, <1>5, <1>6 DEF Distinct
<1>9. \A e \in ToSet(items) : e.ev.n \in Int /\ FreshIn(AllItems, e.cb, e.ev.n)
  BY <1>7, UntoldIsFresh
<1>10. Telling(ToSet(items), {"job"})
  BY <1>7 DEF Telling
<1> QED  BY <1>2, <1>7, <1>8, <1>9, <1>10 DEF Answers, items

LEMMA HandOutSteps ==
    ASSUME OwnInv, OwnInv', FrameInv, Ordered, ClaimInv, JobOk, IsSeq(job_results), JobsOnly,
           LuaRuns, NEW max \in Nat, TakeJobs(max), HandOut(JobsTaken(max))
    PROVE  Steps({"job"}) /\ JobOk'
<1> DEFINE ids == JobsTaken(max)
           items == JobItems(ids)
<1>1. /\ JobLineInv' /\ IsSeq(ids) /\ Distinct(ids)
      /\ \A id \in Jobs : phase[id] # "unborn" => phase'[id] # "unborn"
  BY TakeJobsIs DEF JobOk
<1>2. /\ job_callbacks' = [j \in DOMAIN job_callbacks \ ToSet(ids) |-> job_callbacks[j]]
      /\ DispatchFrom(stack, queue \o items, Callbacks, 0)
      /\ UNCHANGED <<next_id, own, called>>
  BY DEF HandOut, ToSet
<1> HIDE DEF ids
<1>3. Answers(items, {"job"}) /\ \A e \in ToSet(items) : e.ev.id \in ToSet(ids)
  BY <1>1, JobItemsAre DEF JobOk
<1>4. next_id <= next_id'
  BY <1>2 DEF OwnInv
<1>5. Lasting /\ SshTableInv' /\ UNCHANGED LsQueues /\ Tables' \subseteq Tables \cup JobClaims'
  BY <1>1, <1>2, <1>4, JobsOnlyIs
<1> HIDE DEF items
<1>6. Orders(ToSet(items))
  BY <1>2, <1>3, <1>5, AnswersOrder
<1>7. JobClaims' \subseteq JobClaims
  BY <1>2 DEF JobClaims
<1>8. Telling(ToSet(items), {"job"})
  BY <1>3 DEF Answers
<1>9. Moving(ToSet(items), {"job"})
  BY <1>5, <1>6, <1>7, <1>8 DEF Moving, Tables
<1>10. Steps({"job"})
  BY <1>9, MovingSteps
<1>11. ASSUME NEW id \in DOMAIN job_callbacks'
       PROVE  UntoldIn(AllItems', job_callbacks'[id])
  <2>1. id \in DOMAIN job_callbacks /\ id \notin ToSet(ids) /\ job_callbacks'[id] = job_callbacks[id]
    BY <1>2, <1>11
  <2>2. Claim(job_callbacks[id], "job", id) \in Tables  BY <2>1 DEF Tables, JobClaims
  <2>3. \A e \in ToSet(items) : SourceOf(e.ev) = "job" => e.ev.id # id  BY <1>3, <2>1
  <2>4. Stays(job_callbacks[id])  BY <1>6, <1>8, <2>2, <2>3, OtherSourceStays
  <2>5. UntoldIn(AllItems, job_callbacks[id])  BY <2>1 DEF JobOk, JobDue, Untold
  <2> QED  BY <2>1, <2>4, <2>5 DEF Stays
<1>12. JobDue'
  BY <1>11 DEF JobDue, Untold
<1> QED  BY <1>1, <1>10, <1>12 DEF JobOk

\* The pool is given a job, or finishes one.
LEMMA JobLineGoesOn ==
    ASSUME JobLineInv, IsSeq(job_results), NEW id \in Jobs, phase[id] \in {"unborn", "accepted"},
           NEW p \in {"accepted", "finished"}, phase' = [phase EXCEPT ![id] = p],
           job_results' = IF p = "finished" THEN Append(job_results, id) ELSE job_results
    PROVE  /\ JobLineInv' /\ phase'[id] # "unborn"
           /\ \A j \in Jobs : phase[j] # "unborn" => phase'[j] # "unborn"
<1>1. \A j \in Jobs : phase'[j] = IF j = id THEN p ELSE phase[j]
  BY DEF JobLineInv
<1>2. DOMAIN phase' = Jobs
  BY DEF JobLineInv
<1>3. id \notin ToSet(job_results)
  BY DEF JobLineInv
<1>4. Distinct(Append(job_results, id)) /\ ToSet(Append(job_results, id)) = ToSet(job_results) \cup {id}
  BY <1>3, AppendIs, DistinctAppend DEF JobLineInv
<1>5. CASE p = "finished"
  <2>1. job_results' = Append(job_results, id)  BY <1>5
  <2>2. \A j \in ToSet(job_results') : j \in Jobs /\ phase'[j] = "finished"
    BY <1>1, <1>4, <1>5, <2>1 DEF JobLineInv
  <2>3. Distinct(job_results')  BY <1>4, <2>1
  <2>4. JobLineInv'  BY <1>2, <2>2, <2>3 DEF JobLineInv, Jobs
  <2> QED  BY <1>1, <1>5, <2>4
<1>6. CASE p = "accepted"
  <2>1. job_results' = job_results  BY <1>6
  <2>2. \A j \in ToSet(job_results') : j \in Jobs /\ phase'[j] = "finished"
    BY <1>1, <1>3, <2>1 DEF JobLineInv
  <2>3. JobLineInv'  BY <1>2, <2>1, <2>2 DEF JobLineInv, Jobs
  <2> QED  BY <1>1, <1>6, <2>3
<1> QED  BY <1>5, <1>6

\* The tables and what waits stay.
LEMMA JobsRest ==
    ASSUME OwnInv, OwnInv', Ordered, ClaimInv, JobDue, JobsOnly, JobLineInv',
           UNCHANGED <<next_id, queue, stack, own, called, job_callbacks>>,
           \A j \in Jobs : phase[j] # "unborn" => phase'[j] # "unborn"
    PROVE  Steps({"job"}) /\ JobOk'
<1>1. next_id <= next_id'
  BY DEF OwnInv
<1>2. Lasting /\ SshTableInv' /\ UNCHANGED LsQueues /\ Tables' \subseteq Tables \cup JobClaims'
  BY <1>1, JobsOnlyIs
<1>3. Orders({}) /\ Telling({}, {})
  BY <1>2, StayingOrders DEF Telling
<1>4. Moving({}, {})
  BY <1>2, <1>3 DEF Moving, Tables, JobClaims
<1>5. Steps({}) /\ Steps({"job"})
  BY <1>4, MovingSteps
<1>6. ASSUME NEW j \in DOMAIN job_callbacks PROVE UntoldIn(AllItems', job_callbacks[j])
  <2>1. Claim(job_callbacks[j], "job", j) \in Tables  BY DEF Tables, JobClaims
  <2> QED  BY <1>5, <2>1 DEF Steps, Sparing, Stays, JobDue, Untold
<1>7. JobDue'
  BY <1>6 DEF JobDue, Untold
<1> QED  BY <1>5, <1>7 DEF JobOk

LEMMA JobSubmitSteps ==
    ASSUME OwnInv, OwnInv', Ordered, ClaimInv, JobOk, IsSeq(job_results), JobsOnly,
           NEW with \in BOOLEAN, JobSubmit(with)
    PROVE  Steps({"job"}) /\ JobOk' /\ UNCHANGED own
<1>1. PICK id \in Jobs :
        /\ Pool!Accept(id)
        /\ job_results' = IF phase'[id] = "finished" THEN Append(job_results, id) ELSE job_results
        /\ IF with
           THEN /\ Reregister({}, 1)
                /\ job_callbacks' = [j \in DOMAIN job_callbacks \cup {id} |->
                                        IF j = id THEN next_id ELSE job_callbacks[j]]
           ELSE UNCHANGED <<next_id, registry, deferred, retired, job_callbacks>>
  BY DEF JobSubmit
<1>2. UNCHANGED <<queue, stack, own, called>>
  BY DEF JobSubmit
<1>3. phase[id] = "unborn" /\ \E p \in {"accepted", "finished"} : phase' = [phase EXCEPT ![id] = p]
  BY <1>1 DEF Pool!Accept
<1>4. PICK p \in {"accepted", "finished"} : phase' = [phase EXCEPT ![id] = p]
  BY <1>3
<1>5. job_results' = IF p = "finished" THEN Append(job_results, id) ELSE job_results
  <2>1. phase'[id] = p  BY <1>4 DEF JobOk, JobLineInv
  <2> QED  BY <1>1, <2>1
<1>6. /\ JobLineInv' /\ phase'[id] # "unborn"
      /\ \A j \in Jobs : phase[j] # "unborn" => phase'[j] # "unborn"
  BY <1>3, <1>4, <1>5, JobLineGoesOn DEF JobOk
<1>7. next_id \in Nat \ {0}
  BY DEF OwnInv
<1>8. CASE with
  <2>1. /\ Reregister({}, 1)
        /\ job_callbacks' = [j \in DOMAIN job_callbacks \cup {id} |->
                                IF j = id THEN next_id ELSE job_callbacks[j]]
    BY <1>1, <1>8
  <2>2. next_id < next_id' /\ next_id <= next_id'  BY <2>1, ReregisterGives
  <2>3. Lasting /\ SshTableInv' /\ UNCHANGED LsQueues /\ Tables' \subseteq Tables \cup JobClaims'
    BY <1>2, <1>6, <2>2, JobsOnlyIs
  <2>4. Orders({})  BY <1>2, <2>3, StayingOrders
  <2>5. JobClaims' \subseteq JobClaims \cup {Claim(next_id, "job", id)}  BY <2>1 DEF JobClaims
  <2>6. Tables' \subseteq Tables \cup {Claim(next_id, "job", id)}  BY <2>3, <2>5 DEF Tables
  <2>7. Exists("job", id)' /\ ~Exists("job", id)  BY <1>3, <1>6 DEF Exists, Jobs
  <2>8. Giving("job", id)  BY <2>2, <2>3, <2>4, <2>6, <2>7 DEF Giving
  <2>9. Steps({"job"}) /\ Sparing({}) /\ UntoldIn(AllItems', next_id)  BY <1>7, <2>8, GivingSteps
  <2>10. ASSUME NEW j \in DOMAIN job_callbacks'
         PROVE  UntoldIn(AllItems', job_callbacks'[j])
    <3>1. CASE j = id  BY <2>1, <2>9, <2>10, <3>1
    <3>2. CASE j # id
      <4>1. j \in DOMAIN job_callbacks /\ job_callbacks'[j] = job_callbacks[j]  BY <2>1, <2>10, <3>2
      <4>2. Claim(job_callbacks[j], "job", j) \in Tables  BY <4>1 DEF Tables, JobClaims
      <4>3. Stays(job_callbacks[j]) /\ UntoldIn(AllItems, job_callbacks[j])
        BY <2>9, <4>1, <4>2 DEF Sparing, JobOk, JobDue, Untold
      <4> QED  BY <4>1, <4>3 DEF Stays
    <3> QED  BY <3>1, <3>2
  <2>11. JobDue'  BY <2>10 DEF JobDue, Untold
  <2> QED  BY <1>2, <1>6, <2>9, <2>11 DEF JobOk
<1>9. CASE ~with
  <2>1. UNCHANGED <<next_id, job_callbacks>> /\ next_id <= next_id'  BY <1>1, <1>7, <1>9
  <2> QED  BY <1>2, <1>6, <2>1, JobsRest DEF JobOk
<1> QED  BY <1>8, <1>9

LEMMA JobStep ==
    ASSUME OwnInv, OwnInv', FrameInv, Ordered, ClaimInv, JobOk, IsSeq(job_results), JobsOnly,
           \/ \E with \in BOOLEAN : JobSubmit(with)
           \/ \E max \in {0, 1} : JobsPollCall(max)
           \/ LuaRuns /\ JobsDispatch
           \/ \E id \in Jobs : JobFinish(id)
    PROVE  Steps({"job"}) /\ JobOk' /\ UNCHANGED own
<1>1. CASE \E with \in BOOLEAN : JobSubmit(with)
  BY <1>1, JobSubmitSteps
<1>2. ASSUME NEW max \in {0, 1}, JobsPollCall(max)
      PROVE  Steps({"job"}) /\ JobOk' /\ UNCHANGED own
  <2>1. LuaRuns /\ TakeJobs(max) /\ HandOut(JobsTaken(max)) /\ max \in Nat  BY <1>2 DEF JobsPollCall
  <2> QED  BY <2>1, HandOutSteps DEF HandOut
<1>3. CASE LuaRuns /\ JobsDispatch
  <2>1. LuaRuns /\ TakeJobs(0) /\ HandOut(JobsTaken(0)) /\ 0 \in Nat  BY <1>3 DEF JobsDispatch
  <2> QED  BY <2>1, HandOutSteps DEF HandOut
<1>4. ASSUME NEW id \in Jobs, JobFinish(id)
      PROVE  Steps({"job"}) /\ JobOk' /\ UNCHANGED own
  <2>1. /\ phase[id] = "accepted" /\ phase' = [phase EXCEPT ![id] = "finished"]
        /\ job_results' = Append(job_results, id)
        /\ UNCHANGED <<next_id, queue, stack, own, called, job_callbacks>>
    BY <1>4 DEF JobFinish, Pool!Finish, cbVars
  <2>2. /\ JobLineInv'
        /\ \A j \in Jobs : phase[j] # "unborn" => phase'[j] # "unborn"
    <3>1. PICK p \in {"accepted", "finished"} : p = "finished"  OBVIOUS
    <3>2. /\ phase' = [phase EXCEPT ![id] = p]
          /\ job_results' = IF p = "finished" THEN Append(job_results, id) ELSE job_results
      BY <2>1, <3>1
    <3> QED  BY <2>1, <3>2, JobLineGoesOn DEF JobOk
  <2> QED  BY <2>1, <2>2, JobsRest DEF JobOk
<1> QED  BY <1>1, <1>2, <1>3, <1>4

-----------------------------------------------------------------------------
(* The HTTP module.                                                        *)

\* The responses that a poll leaves, and those it takes.
LEMMA HttpPollIs ==
    ASSUME HttpLineInv, IsSeq(completed), NEW max \in Nat, HttpPoll(max)
    PROVE  /\ HttpLineInv' /\ IsSeq(HttpPolled(max)) /\ DistinctIds(HttpPolled(max))
           /\ ToSet(HttpPolled(max)) \subseteq ToSet(completed)
           /\ UNCHANGED <<http_next, http_pending, performing>>
<1> DEFINE a == HttpPolled(max)
           b == SubSeq(completed, Len(a) + 1, Len(completed))
<1>1. a = IF max = 0 \/ max > Len(completed) THEN completed ELSE SubSeq(completed, 1, max)
  BY DEF HttpPolled
<1>2. completed' = b /\ UNCHANGED <<http_next, http_pending, performing>>
  BY DEF HttpPoll
<1>3. IsSeq(a)
  BY PolledIs
<1> HIDE DEF a
<1>4. Splits(completed, Len(a), a, b) /\ Len(a) \in Nat
  BY <1>1, PrefixSplits
<1> HIDE DEF b
<1> DEFINE m == Len(a)
<1>5. /\ ToSet(a) \subseteq ToSet(completed) /\ ToSet(b) \subseteq ToSet(completed)
      /\ DistinctIds(a) /\ DistinctIds(b)
  <2>1. m \in Nat /\ Splits(completed, m, a, b)  BY <1>4
  <2> HIDE DEF m
  <2> QED  BY <2>1, SplitDistinct DEF HttpLineInv
<1>6. \A r \in ToSet(b) : /\ r.id \in Given \ Queued /\ r.result \notin {"chunk", "done"}
                          /\ \A t \in HttpThreads : Performs(t) => performing[t].id # r.id
  BY <1>5 DEF HttpLineInv
<1>7. HttpLineInv'
  BY <1>2, <1>5, <1>6 DEF HttpLineInv, Given, Queued, Performs
<1> QED  BY <1>2, <1>3, <1>5, <1>7 DEF a

\* No response more, no request back in the queue or with a thread.
LEMMA HttpLineStays ==
    ASSUME HttpLineInv, UNCHANGED <<completed>>, Given \subseteq Given',
           \A r \in ToSet(completed) : r.id \in Queued' => r.id \in Queued \/ r.id \notin Given,
           \A t \in HttpThreads : Performs(t)' =>
                \/ Performs(t) /\ performing'[t].id = performing[t].id
                \/ performing'[t].id \in Queued
    PROVE  HttpLineInv'
<1>1. ASSUME NEW r \in ToSet(completed)
      PROVE  /\ r.id \in Given' \ Queued' /\ r.result \notin {"chunk", "done"}
             /\ \A t \in HttpThreads : Performs(t)' => performing'[t].id # r.id
  BY DEF HttpLineInv
<1> QED  BY <1>1 DEF HttpLineInv

\* A thread answers a request.
LEMMA HttpLineAppends ==
    ASSUME HttpLineInv, IsSeq(completed), NEW r, r.result \notin {"chunk", "done"},
           completed' = Append(completed, r), UNCHANGED http_next, Queued' \subseteq Queued,
           r.id \in Given, r.id \notin Queued', \A x \in ToSet(completed) : x.id # r.id,
           \A t \in HttpThreads : Performs(t)' =>
                /\ Performs(t) /\ performing'[t].id = performing[t].id
                /\ performing[t].id # r.id
    PROVE  HttpLineInv'
<1>1. ToSet(Append(completed, r)) = ToSet(completed) \cup {r}
  BY AppendIs
<1>2. DistinctIds(Append(completed, r))
  <2>1. r.id \notin IdsOf(completed)  BY DEF IdsOf, ToSet
  <2> QED  BY <2>1, DistinctAppend DEF HttpLineInv
<1>3. Given' = Given
  BY DEF Given
<1>4. ASSUME NEW x \in ToSet(completed')
      PROVE  /\ x.id \in Given' \ Queued' /\ x.result \notin {"chunk", "done"}
             /\ \A t \in HttpThreads : Performs(t)' => performing'[t].id # x.id
  <2>1. CASE x \in ToSet(completed)  BY <1>3, <2>1 DEF HttpLineInv
  <2>2. CASE x = r  BY <1>3, <2>2
  <2> QED  BY <1>1, <1>4, <2>1, <2>2
<1> QED  BY <1>2, <1>4 DEF HttpLineInv

\* A thread takes the request at the head of the queue.
LEMMA HttpTakeIs ==
    ASSUME HttpInv, HttpInv', HttpLineInv, IsSeq(completed), NEW t \in HttpThreads, HttpTake(t)
    PROVE  /\ HttpLineInv' /\ UNCHANGED http_next /\ Queued' \subseteq Queued
           /\ \A u \in HttpThreads : Performs(u)' =>
                 \/ Performs(u) /\ performing'[u] = performing[u]
                 \/ performing'[u].chunks = 0 /\ performing'[u].id \in Queued
<1> DEFINE id == Head(http_pending)
<1>1. PICK pc \in {"performing", "answered"} :
        /\ performing' = [performing EXCEPT ![t] = Doing(pc, id, 0)]
        /\ \/ pc = "answered" /\ completed' = Append(completed, [id |-> id, result |-> "cancelled"])
           \/ pc = "performing" /\ UNCHANGED completed
  BY DEF HttpTake
<1>2. /\ http_pending # <<>> /\ http_pending' = Tail(http_pending)
      /\ UNCHANGED http_next
  BY DEF HttpTake
<1>3. Queued = ToSet(http_pending) /\ Queued' = ToSet(http_pending')
  BY DEF Queued, ToSet
<1>4. IsSeq(http_pending)
  BY DEF HttpInv, IsSeq
<1>5. Queued = Queued' \cup {id}
  BY <1>2, <1>3, <1>4, TailIs
<1> HIDE DEF id
<1>6. \A u \in HttpThreads : performing'[u] = IF u = t THEN Doing(pc, id, 0) ELSE performing[u]
  BY <1>1 DEF HttpInv
<1>7. id \notin Queued' /\ id \in Given
  <2>1. performing'[t].pc = pc /\ performing'[t].id = id  BY <1>6 DEF Doing
  <2>2. id \in Given' \ Queued'  BY <2>1 DEF HttpInv, Has
  <2> QED  BY <1>2, <2>2 DEF Given
<1>8. ASSUME NEW u \in HttpThreads, Performs(u)'
      PROVE  \/ Performs(u) /\ performing'[u] = performing[u] /\ performing[u].id # id
             \/ /\ pc = "performing" /\ performing'[u].chunks = 0 /\ performing'[u].id = id
  <2>1. CASE u = t  BY <1>6, <1>8, <2>1 DEF Doing, Performs
  <2>2. CASE u # t
    <3>1. performing'[u] = performing[u] /\ Performs(u)  BY <1>6, <1>8, <2>2 DEF Performs
    <3>2. performing[u].id \notin Queued  BY <3>1 DEF HttpInv, Has, Performs
    <3> QED  BY <1>5, <3>1, <3>2
  <2> QED  BY <2>1, <2>2
<1>9. HttpLineInv'
  <2>1. CASE pc = "answered" /\ completed' = Append(completed, [id |-> id, result |-> "cancelled"])
    <3> DEFINE r == [id |-> id, result |-> "cancelled"]
    <3>1. r.id = id /\ r.result \notin {"chunk", "done"} /\ completed' = Append(completed, r)
      BY <2>1
    <3> HIDE DEF r
    <3>2. \A x \in ToSet(completed) : x.id # r.id  BY <1>5, <3>1 DEF HttpLineInv
    <3>3. r.id \in Given /\ r.id \notin Queued' /\ Queued' \subseteq Queued  BY <1>5, <1>7, <3>1
    <3>4. \A u \in HttpThreads : Performs(u)' =>
                /\ Performs(u) /\ performing'[u].id = performing[u].id
                /\ performing[u].id # r.id
      BY <1>8, <2>1, <3>1
    <3> QED  BY <1>2, <3>1, <3>2, <3>3, <3>4, HttpLineAppends
  <2>2. CASE pc = "performing" /\ UNCHANGED completed
    <3>1. Given' = Given  BY <1>2 DEF Given
    <3>2. \A u \in HttpThreads : Performs(u)' =>
                \/ Performs(u) /\ performing'[u].id = performing[u].id
                \/ performing'[u].id \in Queued
      BY <1>5, <1>8
    <3> QED  BY <1>5, <2>2, <3>1, <3>2, HttpLineStays
  <2> QED  BY <1>1, <2>1, <2>2
<1>10. \A u \in HttpThreads : Performs(u)' =>
             \/ Performs(u) /\ performing'[u] = performing[u]
             \/ performing'[u].chunks = 0 /\ performing'[u].id \in Queued
  BY <1>5, <1>8
<1> QED  BY <1>2, <1>5, <1>9, <1>10

\* The other steps of the threads, but for a chunk.
LEMMA HttpThreadIs ==
    ASSUME HttpInv, HttpLineInv, IsSeq(completed), NEW t \in HttpThreads,
           \/ \E result \in {"ok", "error"} : HttpAnswer(t, result)
           \/ HttpForget(t) \/ HttpExit(t)
    PROVE  /\ HttpLineInv' /\ UNCHANGED http_next /\ Queued' = Queued
           /\ \A u \in HttpThreads : Performs(u)' => Performs(u) /\ performing'[u] = performing[u]
<1>1. /\ UNCHANGED <<http_next, http_pending>>
      /\ performing[t].pc \in {"performing", "answered", "idle"}
  BY DEF HttpAnswer, HttpForget, HttpExit
<1>2. Queued' = Queued /\ Given' = Given
  BY <1>1 DEF Queued, Given
<1>3. ASSUME NEW result \in {"ok", "error"}, HttpAnswer(t, result)
      PROVE  /\ HttpLineInv'
             /\ \A u \in HttpThreads : Performs(u)' => Performs(u) /\ performing'[u] = performing[u]
  <2> DEFINE id == performing[t].id
             r == [id |-> id, result |-> IF id \in flagged THEN "cancelled" ELSE result]
  <2>1. /\ Performs(t) /\ completed' = Append(completed, r)
        /\ performing' = [performing EXCEPT ![t].pc = "answered"]
    BY <1>3 DEF HttpAnswer, Performs
  <2>2. r.id = id /\ r.result \notin {"chunk", "done"}  OBVIOUS
  <2> HIDE DEF r
  <2>3. ASSUME NEW u \in HttpThreads, Performs(u)'
        PROVE  Performs(u) /\ performing'[u] = performing[u] /\ performing[u].id # id
    <3>1. u # t  BY <2>1, <2>3 DEF HttpInv, Performs
    <3>2. performing'[u] = performing[u]  BY <2>1, <3>1 DEF HttpInv
    <3> QED  BY <2>1, <2>3, <3>1, <3>2 DEF HttpInv, Performs, Has
  <2>4. id \in Given /\ id \notin Queued  BY <2>1 DEF HttpInv, Has, Performs
  <2>5. \A x \in ToSet(completed) : x.id # r.id  BY <2>1, <2>2 DEF HttpLineInv
  <2>6. HttpLineInv'  BY <1>1, <1>2, <2>1, <2>2, <2>3, <2>4, <2>5, HttpLineAppends
  <2> QED  BY <2>3, <2>6
<1>4. CASE HttpForget(t) \/ HttpExit(t)
  <2>1. /\ UNCHANGED completed /\ performing[t].pc # "performing"
        /\ \/ performing' = [performing EXCEPT ![t] = Idle]
           \/ performing' = [performing EXCEPT ![t].pc = "exit"]
    BY <1>4 DEF HttpForget, HttpExit
  <2>2. \A u \in HttpThreads : Performs(u)' => Performs(u) /\ performing'[u] = performing[u]
    BY <2>1 DEF HttpInv, Performs, Idle, Doing
  <2>3. HttpLineInv'  BY <1>2, <2>1, <2>2, HttpLineStays
  <2> QED  BY <1>1, <1>2, <2>2, <2>3
<1> QED  BY <1>1, <1>2, <1>3, <1>4

\* What is due goes on being due.
Kept(f, g) == \A x \in DOMAIN g : x \in DOMAIN f /\ g[x] = f[x]

LEMMA HttpDuesStay ==
    ASSUME HttpOk, HttpLineInv', UNCHANGED chunk_callback, MaxChunks \in Nat,
           Kept(stream_callback_ids, stream_callback_ids'), Kept(callback_ids, callback_ids'),
           \A id \in DOMAIN stream_callback_ids' : Stays(chunk_callback[id]),
           \A id \in DOMAIN callback_ids' : Stays(callback_ids[id]),
           Queued' \subseteq Queued, \A id \in Streams \cap Queued : Stays(chunk_callback[id]),
           \A t \in HttpThreads : Performs(t)' =>
                \/ /\ Performs(t) /\ performing'[t] = performing[t]
                   /\ performing[t].id \in Streams => Stays(chunk_callback[performing[t].id])
                \/ performing'[t].chunks = 0 /\ performing'[t].id \in Queued
    PROVE  HttpOk'
<1>1. Streams' = Streams
  BY DEF Streams
<1>2. ASSUME NEW id \in DOMAIN callback_ids'
      PROVE  UntoldIn(AllItems', callback_ids'[id])
  BY DEF Kept, HttpOk, HttpDue, Untold, Stays
<1>3. ASSUME NEW id \in DOMAIN stream_callback_ids'
      PROVE  /\ id \in Streams' /\ stream_callback_ids'[id] = chunk_callback'[id]
             /\ FreshIn(AllItems', chunk_callback'[id], MaxChunks + 1)
  BY <1>1 DEF Kept, HttpOk, StreamDue, Fresh, Stays
<1>4. \A id \in Streams' \cap Queued' : UntoldIn(AllItems', chunk_callback'[id])
  BY <1>1 DEF HttpOk, StreamDue, Untold, Stays
<1>5. ASSUME NEW t \in HttpThreads, Performs(t)'
      PROVE  /\ performing'[t].chunks <= MaxChunks
             /\ performing'[t].id \in Streams' =>
                   FreshIn(AllItems', chunk_callback'[performing'[t].id], performing'[t].chunks + 1)
  <2>1. CASE /\ Performs(t) /\ performing'[t] = performing[t]
             /\ performing[t].id \in Streams => Stays(chunk_callback[performing[t].id])
    BY <1>1, <2>1 DEF HttpOk, StreamDue, Fresh, Stays
  <2>2. CASE performing'[t].chunks = 0 /\ performing'[t].id \in Queued
    <3>1. performing'[t].chunks <= MaxChunks  BY <2>2
    <3>2. ASSUME performing'[t].id \in Streams'
          PROVE  FreshIn(AllItems', chunk_callback'[performing'[t].id], performing'[t].chunks + 1)
      <4>1. performing'[t].id \in Streams \cap Queued  BY <1>1, <2>2, <3>2
      <4>2. UntoldIn(AllItems', chunk_callback[performing'[t].id])
        BY <4>1 DEF HttpOk, StreamDue, Untold, Stays
      <4> QED  BY <4>2, UntoldIsFresh
    <3> QED  BY <3>1, <3>2
  <2> QED  BY <1>5, <2>1, <2>2
<1>6. HttpDue'
  BY <1>2 DEF HttpDue, Untold
<1>7. StreamDue'
  BY <1>3, <1>4, <1>5 DEF StreamDue, Untold, Fresh
<1> QED  BY <1>6, <1>7 DEF HttpOk

LEMMA HttpOnlyIs ==
    ASSUME HttpOnly, OwnInv, OwnInv', Ordered, next_id <= next_id', UNCHANGED own,
           Given \subseteq Given'
    PROVE  /\ Lasting /\ SshTableInv' /\ UNCHANGED LsQueues
           /\ Tables' \subseteq Tables \cup HttpClaims' \cup StreamClaims'
<1>1. UNCHANGED ljVars /\ UNCHANGED lsVars /\ UNCHANGED lpVars
      /\ UNCHANGED lrVars /\ UNCHANGED ltVars
  BY DEF HttpOnly
<1>2. UNCHANGED <<phase, ssh_next, proc_next, loads>>
  BY DEF HttpOnly, ljVars, lsVars, lpVars, ltVars
<1>3. Lasting
  BY <1>2, LastingIs DEF Given
<1>4. Tables' \subseteq Tables \cup HttpClaims' \cup StreamClaims'
  BY <1>1, ClaimsFrame DEF Tables
<1> QED  BY <1>1, <1>3, <1>4, SshTableStays

LEMMA HttpClaimsKept ==
    ASSUME Kept(callback_ids, callback_ids'), UNCHANGED chunk_callback
    PROVE  HttpClaims' \subseteq HttpClaims /\ StreamClaims' = StreamClaims
<1>1. StreamClaims' = StreamClaims
  BY DEF StreamClaims, Streams
<1>2. HttpClaims' \subseteq HttpClaims
  BY DEF HttpClaims, Kept
<1> QED  BY <1>1, <1>2

\* What waits stays.
LEMMA HttpRests ==
    ASSUME OwnInv, OwnInv', Ordered, ClaimInv, HttpOk, HttpOnly, HttpLineInv', MaxChunks \in Nat,
           UNCHANGED <<http_next, next_id, queue, stack, own, called, chunk_callback>>,
           Kept(stream_callback_ids, stream_callback_ids'), Kept(callback_ids, callback_ids'),
           Queued' \subseteq Queued,
           \A t \in HttpThreads : Performs(t)' =>
                \/ Performs(t) /\ performing'[t] = performing[t]
                \/ performing'[t].chunks = 0 /\ performing'[t].id \in Queued
    PROVE  Steps({"http", "stream"}) /\ HttpOk'
<1>1. next_id <= next_id' /\ Given \subseteq Given'
  BY DEF OwnInv, Given
<1>2. /\ Lasting /\ SshTableInv' /\ UNCHANGED LsQueues
      /\ Tables' \subseteq Tables \cup HttpClaims' \cup StreamClaims'
  BY <1>1, HttpOnlyIs
<1>3. Orders({}) /\ Telling({}, {})
  BY <1>2, StayingOrders DEF Telling
<1>4. Moving({}, {})
  BY <1>2, <1>3, HttpClaimsKept DEF Moving, Tables
<1>5. Steps({}) /\ Steps({"http", "stream"})
  BY <1>4, MovingSteps
<1>6. \A id \in Streams : Stays(chunk_callback[id])
  BY <1>5 DEF Steps, Sparing, Tables, StreamClaims
<1>7. \A id \in DOMAIN callback_ids : Stays(callback_ids[id])
  BY <1>5 DEF Steps, Sparing, Tables, HttpClaims
<1>8. \A id \in DOMAIN callback_ids' : Stays(callback_ids[id])
  BY <1>7 DEF Kept
<1>9. \A id \in DOMAIN stream_callback_ids' : Stays(chunk_callback[id])
  BY <1>6 DEF Kept, HttpOk, StreamDue
<1>10. HttpOk'
  BY <1>6, <1>8, <1>9, HttpDuesStay
<1> QED  BY <1>5, <1>10

\* A response ends the streaming of its request, or answers it.
LEMMA ItemsForAre ==
    ASSUME HttpOk, NEW responses, IsSeq(responses), DistinctIds(responses), MaxChunks \in Nat,
           \A r \in ToSet(responses) : r.result \notin {"chunk", "done"}
    PROVE  /\ Answers(ItemsFor(responses), {"http", "stream"})
           /\ \A e \in ToSet(ItemsFor(responses)) : e.ev.id \in IdsOf(responses)
<1> DEFINE ids == DOMAIN stream_callback_ids \cup DOMAIN callback_ids
           S == {i \in DOMAIN responses : responses[i].id \in ids}
           mine == At(responses, S)
           items == ItemsFor(responses)
<1>1. items = [k \in DOMAIN mine |->
                  IF mine[k].id \in DOMAIN stream_callback_ids
                  THEN Item(stream_callback_ids[mine[k].id], Done(mine[k].id))
                  ELSE Item(callback_ids[mine[k].id], Response(mine[k]))]
  BY DEF ItemsFor
<1>2. IsSeq(mine) /\ ToSet(mine) = {responses[i] : i \in S} /\ IsSeq(items)
  BY AtIs, ItemsForIs
<1>3. DistinctIds(mine)
  BY DistinctAt
<1> HIDE DEF mine, items
<1>4. \A k \in DOMAIN mine : /\ mine[k] \in ToSet(responses) /\ mine[k].id \in IdsOf(responses)
                             /\ mine[k].id \in ids
  <2>1. \A k \in DOMAIN mine : mine[k] \in ToSet(mine)  BY DEF ToSet
  <2> QED  BY <1>2, <2>1 DEF ToSet, IdsOf
<1>5. DOMAIN items = DOMAIN mine
  BY <1>1
<1>6. ASSUME NEW k \in DOMAIN items
      PROVE  LET id == mine[k].id IN
             \/ /\ id \in DOMAIN stream_callback_ids
                /\ items[k].cb = stream_callback_ids[id] /\ items[k].ev = Done(id)
             \/ /\ id \in DOMAIN callback_ids
                /\ items[k].cb = callback_ids[id] /\ items[k].ev = Response(mine[k])
  BY <1>1, <1>4, <1>5 DEF Item
<1>7. \A r : Response(r).of = "http" /\ Response(r).id = r.id /\ Response(r).what = r.result
             /\ Response(r).n = 0
  BY DEF Response, Event
<1>8. \A id : /\ Done(id).of = "http" /\ Done(id).id = id /\ Done(id).what = "done"
              /\ Done(id).n = MaxChunks + 1
  BY DEF Done, Event
<1>9. \A k \in DOMAIN items : items[k].ev.id = mine[k].id
  BY <1>6, <1>7, <1>8
<1>10. ASSUME NEW e \in ToSet(items)
       PROVE  /\ e.ev.id \in IdsOf(responses) /\ ClaimOf(e) \in Tables
              /\ SourceOf(e.ev) \in {"http", "stream"}
              /\ e.ev.n \in Int /\ FreshIn(AllItems, e.cb, e.ev.n)
  <2>1. PICK k \in DOMAIN items : e = items[k]  BY DEF ToSet
  <2> DEFINE id == mine[k].id
  <2>2. id \in IdsOf(responses) /\ mine[k].result \notin {"chunk", "done"}  BY <1>4, <1>5
  <2>3. \/ id \in DOMAIN stream_callback_ids /\ e.cb = stream_callback_ids[id] /\ e.ev = Done(id)
        \/ id \in DOMAIN callback_ids /\ e.cb = callback_ids[id] /\ e.ev = Response(mine[k])
    BY <1>6, <2>1
  <2>4. e.ev.id = id  BY <1>9, <2>1
  <2>5. CASE id \in DOMAIN stream_callback_ids /\ e.cb = stream_callback_ids[id] /\ e.ev = Done(id)
    <3>1. SourceOf(e.ev) = "stream" /\ e.ev.n = MaxChunks + 1  BY <1>8, <2>5 DEF SourceOf
    <3>2. id \in Streams /\ e.cb = chunk_callback[id] /\ FreshIn(AllItems, e.cb, MaxChunks + 1)
      BY <2>5 DEF HttpOk, StreamDue, Fresh
    <3> HIDE DEF id
    <3>3. ClaimOf(e) = Claim(chunk_callback[id], "stream", id)  BY <2>4, <3>1, <3>2 DEF ClaimOf
    <3>4. ClaimOf(e) \in Tables  BY <3>2, <3>3 DEF Tables, StreamClaims
    <3> QED  BY <2>2, <2>4, <3>1, <3>2, <3>4
  <2>6. CASE id \in DOMAIN callback_ids /\ e.cb = callback_ids[id] /\ e.ev = Response(mine[k])
    <3>1. e.ev.of = "http" /\ e.ev.what \notin {"chunk", "done"} /\ e.ev.n = 0  BY <1>7, <2>2, <2>6
    <3>2. SourceOf(e.ev) = "http"  BY <3>1 DEF SourceOf
    <3>3. UntoldIn(AllItems, e.cb)  BY <2>6 DEF HttpOk, HttpDue, Untold
    <3>4. FreshIn(AllItems, e.cb, 0)  BY <3>3, UntoldIsFresh
    <3> HIDE DEF id
    <3>5. ClaimOf(e) = Claim(callback_ids[id], "http", id)  BY <2>4, <2>6, <3>2 DEF ClaimOf
    <3>6. ClaimOf(e) \in Tables  BY <2>6, <3>5 DEF Tables, HttpClaims
    <3> QED  BY <2>2, <2>4, <3>1, <3>2, <3>4, <3>6
  <2> QED  BY <2>3, <2>5, <2>6
<1>11. \A i, j \in DOMAIN items : items[i].ev.id = items[j].ev.id => i = j
  BY <1>3, <1>5, <1>9 DEF DistinctIds
<1>12. Telling(ToSet(items), {"http", "stream"})
  BY <1>10 DEF Telling
<1> QED  BY <1>2, <1>10, <1>11, <1>12 DEF Answers, items

LEMMA WithoutIs ==
    \A f, S : Kept(f, Without(f, S)) /\ DOMAIN Without(f, S) = DOMAIN f \ S
  BY DEF Without, Kept

\* Responses are handed to the callbacks of their requests.
LEMMA GiveOutSteps ==
    ASSUME OwnInv, OwnInv', FrameInv, Ordered, ClaimInv, HttpOk, IsSeq(completed), HttpOnly,
           MaxChunks \in Nat, LuaRuns, NEW max \in Nat, HttpPoll(max), GiveOut(HttpPolled(max))
    PROVE  Steps({"http", "stream"}) /\ HttpOk' /\ UNCHANGED own
<1> DEFINE rs == HttpPolled(max)
           items == ItemsFor(rs)
           ids == IdsOf(rs)
<1>1. /\ HttpLineInv' /\ IsSeq(rs) /\ DistinctIds(rs) /\ ToSet(rs) \subseteq ToSet(completed)
      /\ UNCHANGED <<http_next, http_pending, performing>>
  BY HttpPollIs DEF HttpOk
<1>2. \A r \in ToSet(rs) : /\ r.result \notin {"chunk", "done"} /\ r.id \notin Queued
                           /\ \A t \in HttpThreads : Performs(t) => performing[t].id # r.id
  BY <1>1 DEF HttpOk, HttpLineInv
<1>3. /\ stream_callback_ids' = Without(stream_callback_ids, ids)
      /\ callback_ids' = Without(callback_ids, ids)
      /\ DispatchFrom(stack, queue \o items, Callbacks, 0)
      /\ UNCHANGED <<own, called, chunk_callback>>
      /\ \E drop : Reregister(drop, 0)
  BY DEF GiveOut, Unregister, IdsOf
<1> HIDE DEF rs
<1>4. Answers(items, {"http", "stream"}) /\ \A e \in ToSet(items) : e.ev.id \in ids
  BY <1>1, <1>2, ItemsForAre
<1>5. next_id <= next_id'
  BY <1>3, ReregisterGives
<1>6. Given \subseteq Given' /\ Queued' = Queued
  BY <1>1 DEF Given, Queued
<1>7. /\ Lasting /\ SshTableInv' /\ UNCHANGED LsQueues
      /\ Tables' \subseteq Tables \cup HttpClaims' \cup StreamClaims'
  BY <1>3, <1>5, <1>6, HttpOnlyIs
<1> HIDE DEF items
<1>8. Orders(ToSet(items)) /\ Telling(ToSet(items), {"http", "stream"})
  BY <1>3, <1>4, <1>7, AnswersOrder DEF Answers
<1>9. /\ Kept(callback_ids, callback_ids') /\ Kept(stream_callback_ids, stream_callback_ids')
      /\ DOMAIN callback_ids' = DOMAIN callback_ids \ ids
      /\ DOMAIN stream_callback_ids' = DOMAIN stream_callback_ids \ ids
  BY <1>3, WithoutIs
<1>10. Moving(ToSet(items), {"http", "stream"})
  BY <1>3, <1>7, <1>8, <1>9, HttpClaimsKept DEF Moving, Tables
<1>11. Steps({"http", "stream"})
  BY <1>10, MovingSteps
<1>12. ASSUME NEW id \in Streams, id \notin ids PROVE Stays(chunk_callback[id])
  <2>1. Claim(chunk_callback[id], "stream", id) \in Tables  BY DEF Tables, StreamClaims
  <2>2. \A e \in ToSet(items) : SourceOf(e.ev) = "stream" => e.ev.id # id  BY <1>4, <1>12
  <2> QED  BY <1>8, <2>1, <2>2, OtherSourceStays
<1>13. ASSUME NEW id \in DOMAIN callback_ids, id \notin ids PROVE Stays(callback_ids[id])
  <2>1. Claim(callback_ids[id], "http", id) \in Tables  BY DEF Tables, HttpClaims
  <2>2. \A e \in ToSet(items) : SourceOf(e.ev) = "http" => e.ev.id # id  BY <1>4, <1>13
  <2> QED  BY <1>8, <2>1, <2>2, OtherSourceStays
<1>14. \A id \in ids : id \notin Queued /\ \A t \in HttpThreads : Performs(t) => performing[t].id # id
  BY <1>2 DEF IdsOf, ToSet
<1> HIDE DEF ids
<1>15. \A id \in DOMAIN callback_ids' : Stays(callback_ids[id])
  BY <1>9, <1>13
<1>16. \A id \in DOMAIN stream_callback_ids' : Stays(chunk_callback[id])
  <2>1. \A id \in DOMAIN stream_callback_ids : id \in Streams  BY DEF HttpOk, StreamDue
  <2> QED  BY <1>9, <1>12, <2>1
<1>17. \A id \in Streams \cap Queued : Stays(chunk_callback[id])
  BY <1>12, <1>14
<1>18. \A t \in HttpThreads : Performs(t)' =>
            /\ Performs(t) /\ performing'[t] = performing[t]
            /\ performing[t].id \in Streams => Stays(chunk_callback[performing[t].id])
  <2>1. \A t \in HttpThreads : Performs(t)' => Performs(t) /\ performing'[t] = performing[t]
    BY <1>1 DEF Performs
  <2>2. \A t \in HttpThreads : Performs(t) => performing[t].id \notin ids  BY <1>14
  <2> QED  BY <1>12, <2>1, <2>2
<1>19. HttpOk'
  BY <1>1, <1>3, <1>6, <1>9, <1>15, <1>16, <1>17, <1>18, HttpDuesStay
<1> QED  BY <1>3, <1>11, <1>19

LEMMA HttpSubmitIs ==
    ASSUME HttpInv, HttpLineInv, HttpSubmit
    PROVE  /\ HttpLineInv' /\ Queued' = Queued \cup {http_next}
           /\ Given \subseteq Given' /\ http_next \in Given' /\ http_next \notin Given
           /\ UNCHANGED <<performing, completed>>
           /\ \A t \in HttpThreads : Performs(t) => performing[t].id # http_next
<1>1. /\ http_next \in Nat \ {0} /\ http_next' = http_next + 1
      /\ http_pending' = Append(http_pending, http_next) /\ UNCHANGED <<performing, completed>>
  BY DEF HttpSubmit, HttpInv
<1>2. Given \subseteq Given' /\ http_next \in Given' /\ http_next \notin Given
  BY <1>1 DEF Given
<1>3. IsSeq(http_pending) /\ Queued = ToSet(http_pending) /\ Queued' = ToSet(http_pending')
  BY DEF HttpInv, IsSeq, Queued, ToSet
<1>4. Queued' = Queued \cup {http_next}
  BY <1>1, <1>3, AppendIs
<1>5. \A r \in ToSet(completed) : r.id \in Queued' => r.id \in Queued \/ r.id \notin Given
  BY <1>2, <1>4
<1>6. \A t \in HttpThreads : Performs(t)' => Performs(t) /\ performing'[t].id = performing[t].id
  BY <1>1 DEF Performs
<1>7. HttpLineInv'
  BY <1>1, <1>2, <1>5, <1>6, HttpLineStays
<1>8. \A t \in HttpThreads : Performs(t) => performing[t].id # http_next
  BY <1>2 DEF HttpInv, Has, Performs
<1> QED  BY <1>1, <1>2, <1>4, <1>7, <1>8

\* A request is new.
LEMMA HttpDuesGrow ==
    ASSUME HttpOk, HttpLineInv', Sparing({}), MaxChunks \in Nat, NEW n,
           Queued' \subseteq Queued \cup {n}, UNCHANGED performing,
           \A t \in HttpThreads : Performs(t) => performing[t].id # n,
           \A id \in Streams' : \/ id = n /\ UntoldIn(AllItems', chunk_callback'[n])
                                \/ id # n /\ id \in Streams /\ chunk_callback'[id] = chunk_callback[id],
           \A id \in DOMAIN stream_callback_ids' :
               /\ id \in Streams' /\ stream_callback_ids'[id] = chunk_callback'[id]
               /\ id # n => id \in DOMAIN stream_callback_ids,
           \A id \in DOMAIN callback_ids' :
               \/ UntoldIn(AllItems', callback_ids'[id])
               \/ id \in DOMAIN callback_ids /\ callback_ids'[id] = callback_ids[id]
    PROVE  HttpOk'
<1>1. \A id \in Streams : Stays(chunk_callback[id])
  BY DEF Sparing, Tables, StreamClaims
<1>2. \A id \in DOMAIN callback_ids : Stays(callback_ids[id])
  BY DEF Sparing, Tables, HttpClaims
<1>3. ASSUME NEW id \in DOMAIN callback_ids'
      PROVE  UntoldIn(AllItems', callback_ids'[id])
  <2>1. CASE id \in DOMAIN callback_ids /\ callback_ids'[id] = callback_ids[id]
    BY <1>2, <2>1 DEF HttpOk, HttpDue, Untold, Stays
  <2> QED  BY <2>1, <1>3
<1>4. ASSUME NEW id \in DOMAIN stream_callback_ids'
      PROVE  FreshIn(AllItems', chunk_callback'[id], MaxChunks + 1)
  <2>1. CASE id = n
    <3>1. UntoldIn(AllItems', chunk_callback'[id])  BY <1>4, <2>1
    <3> QED  BY <3>1, UntoldIsFresh
  <2>2. CASE id # n
    <3>1. id \in DOMAIN stream_callback_ids /\ id \in Streams /\ chunk_callback'[id] = chunk_callback[id]
      BY <1>4, <2>2
    <3> QED  BY <1>1, <3>1 DEF HttpOk, StreamDue, Fresh, Stays
  <2> QED  BY <2>1, <2>2
<1>5. ASSUME NEW id \in Streams' \cap Queued'
      PROVE  UntoldIn(AllItems', chunk_callback'[id])
  <2>1. CASE id # n /\ id \in Streams /\ chunk_callback'[id] = chunk_callback[id]
    <3>1. id \in Streams \cap Queued  BY <1>5, <2>1
    <3> QED  BY <1>1, <2>1, <3>1 DEF HttpOk, StreamDue, Untold, Stays
  <2> QED  BY <2>1, <1>5
<1>6. ASSUME NEW t \in HttpThreads, performing[t].pc = "performing"
      PROVE  /\ performing[t].chunks <= MaxChunks
             /\ performing[t].id \in Streams' =>
                   FreshIn(AllItems', chunk_callback'[performing[t].id], performing[t].chunks + 1)
  <2>1. performing[t].chunks <= MaxChunks /\ performing[t].id # n
    BY <1>6 DEF HttpOk, StreamDue, Performs
  <2>2. ASSUME performing[t].id \in Streams'
        PROVE  FreshIn(AllItems', chunk_callback'[performing[t].id], performing[t].chunks + 1)
    <3>1. performing[t].id \in Streams
          /\ chunk_callback'[performing[t].id] = chunk_callback[performing[t].id]
      BY <2>1, <2>2
    <3> QED  BY <1>1, <1>6, <3>1 DEF HttpOk, StreamDue, Performs, Fresh, Stays
  <2> QED  BY <2>1, <2>2
<1>7. HttpDue'
  BY <1>3 DEF HttpDue, Untold
<1>8. StreamDue'
  BY <1>4, <1>5, <1>6 DEF StreamDue, Untold, Fresh, Performs
<1> QED  BY <1>7, <1>8 DEF HttpOk

LEMMA HttpRequestSteps ==
    ASSUME OwnInv, OwnInv', Ordered, ClaimInv, HttpInv, HttpOk, HttpOnly, MaxChunks \in Nat,
           DOMAIN chunk_callback = Requests,
           NEW kind \in {"stream", "callback", "plain"}, HttpRequest(kind)
    PROVE  Steps({"http", "stream"}) /\ HttpOk' /\ UNCHANGED own
<1>1. HttpSubmit /\ http_next \in Requests /\ UNCHANGED <<queue, stack, own, called>>
  BY DEF HttpRequest, HttpSubmit
<1>2. PICK n \in Requests : n = http_next
  BY <1>1
<1>3. /\ HttpLineInv' /\ Queued' = Queued \cup {n}
      /\ Given \subseteq Given' /\ n \in Given' /\ n \notin Given
      /\ UNCHANGED performing
      /\ \A t \in HttpThreads : Performs(t) => performing[t].id # n
  BY <1>1, <1>2, HttpSubmitIs DEF HttpOk
<1>4. n \notin Streams
  <2>1. ASSUME n \in Streams PROVE FALSE
    <3>1. Claim(chunk_callback[n], "stream", n) \in Claims  BY <2>1 DEF Claims, Tables, StreamClaims
    <3>2. Exists("stream", n)  BY <3>1, ClaimIs DEF ClaimInv
    <3> QED  BY <1>3, <3>2 DEF Exists, Given
  <2> QED  BY <2>1
<1>5. next_id \in Nat \ {0}
  BY DEF OwnInv
<1>6. \A id \in DOMAIN stream_callback_ids : id \in Streams /\ stream_callback_ids[id] = chunk_callback[id]
  BY DEF HttpOk, StreamDue
<1>7. CASE kind = "stream"
  <2>1. /\ Reregister({}, 1)
        /\ stream_callback_ids' = With(stream_callback_ids, n, next_id)
        /\ chunk_callback' = [chunk_callback EXCEPT ![n] = next_id]
        /\ UNCHANGED callback_ids
    BY <1>2, <1>7 DEF HttpRequest
  <2>2. next_id < next_id' /\ next_id <= next_id'  BY <2>1, ReregisterGives
  <2>3. /\ Lasting /\ SshTableInv' /\ UNCHANGED LsQueues
        /\ Tables' \subseteq Tables \cup HttpClaims' \cup StreamClaims'
    BY <1>1, <1>3, <2>2, HttpOnlyIs
  <2>4. Orders({})  BY <1>1, <2>3, StayingOrders
  <2>5. \A id \in Requests : chunk_callback'[id] = IF id = n THEN next_id ELSE chunk_callback[id]
    BY <2>1
  <2>6. \A id \in Streams' : id = n \/ id \in Streams  BY <2>5 DEF Streams
  <2>7. StreamClaims' \subseteq StreamClaims \cup {Claim(next_id, "stream", n)}
    <3>1. \A id \in Streams' : id \in Requests  BY DEF Streams
    <3> QED  BY <2>5, <2>6, <3>1 DEF StreamClaims
  <2>8. HttpClaims' = HttpClaims  BY <2>1 DEF HttpClaims
  <2>9. Tables' \subseteq Tables \cup {Claim(next_id, "stream", n)}  BY <2>3, <2>7, <2>8 DEF Tables
  <2>10. Exists("stream", n)' /\ ~Exists("stream", n)  BY <1>3 DEF Exists, Given
  <2>11. Giving("stream", n)  BY <2>2, <2>3, <2>4, <2>9, <2>10 DEF Giving
  <2>12. Steps({"http", "stream"}) /\ Sparing({}) /\ UntoldIn(AllItems', next_id)
    BY <1>5, <2>11, GivingSteps
  <2>13. \A id \in Streams' : \/ id = n /\ UntoldIn(AllItems', chunk_callback'[n])
                              \/ id # n /\ id \in Streams /\ chunk_callback'[id] = chunk_callback[id]
    <3>1. \A id \in Streams' : id \in Requests  BY DEF Streams
    <3> QED  BY <2>5, <2>6, <2>12, <3>1
  <2>14. n \in Streams' /\ Streams \subseteq Streams'  BY <1>5, <2>5 DEF Streams, NoCallback
  <2>15. /\ DOMAIN stream_callback_ids' = DOMAIN stream_callback_ids \cup {n}
         /\ \A id \in DOMAIN stream_callback_ids' :
                stream_callback_ids'[id] = IF id = n THEN next_id ELSE stream_callback_ids[id]
    BY <2>1 DEF With
  <2>16. \A id \in DOMAIN stream_callback_ids' :
            /\ id \in Streams' /\ stream_callback_ids'[id] = chunk_callback'[id]
            /\ id # n => id \in DOMAIN stream_callback_ids
    <3>1. \A id \in Streams : id \in Requests  BY DEF Streams
    <3> QED  BY <1>6, <2>5, <2>14, <2>15, <3>1
  <2>17. \A id \in DOMAIN callback_ids' : id \in DOMAIN callback_ids /\ callback_ids'[id] = callback_ids[id]
    BY <2>1
  <2>18. HttpOk'  BY <1>3, <2>12, <2>13, <2>16, <2>17, HttpDuesGrow
  <2> QED  BY <1>1, <2>12, <2>18
<1>8. ASSUME UNCHANGED <<stream_callback_ids, chunk_callback>>
      PROVE  /\ Streams' = Streams
             /\ \A id \in Streams' : id # n /\ id \in Streams /\ chunk_callback'[id] = chunk_callback[id]
             /\ \A id \in DOMAIN stream_callback_ids' :
                    /\ id \in Streams' /\ stream_callback_ids'[id] = chunk_callback'[id]
                    /\ id # n => id \in DOMAIN stream_callback_ids
  <2>1. Streams' = Streams  BY <1>8 DEF Streams
  <2> QED  BY <1>4, <1>6, <1>8, <2>1
<1>9. CASE kind = "callback"
  <2>1. /\ Reregister({}, 1)
        /\ callback_ids' = With(callback_ids, n, next_id)
        /\ UNCHANGED <<stream_callback_ids, chunk_callback>>
    BY <1>2, <1>9 DEF HttpRequest
  <2>2. next_id < next_id' /\ next_id <= next_id'  BY <2>1, ReregisterGives
  <2>3. /\ Lasting /\ SshTableInv' /\ UNCHANGED LsQueues
        /\ Tables' \subseteq Tables \cup HttpClaims' \cup StreamClaims'
    BY <1>1, <1>3, <2>2, HttpOnlyIs
  <2>4. Orders({})  BY <1>1, <2>3, StayingOrders
  <2>5. \A id \in DOMAIN callback_ids' :
            \/ id = n /\ callback_ids'[id] = next_id
            \/ id \in DOMAIN callback_ids /\ callback_ids'[id] = callback_ids[id]
    BY <2>1 DEF With
  <2>6. HttpClaims' \subseteq HttpClaims \cup {Claim(next_id, "http", n)}  BY <2>5 DEF HttpClaims
  <2>7. StreamClaims' = StreamClaims  BY <2>1 DEF StreamClaims, Streams
  <2>8. Tables' \subseteq Tables \cup {Claim(next_id, "http", n)}  BY <2>3, <2>6, <2>7 DEF Tables
  <2>9. Exists("http", n)' /\ ~Exists("http", n)  BY <1>3 DEF Exists, Given
  <2>10. Giving("http", n)  BY <2>2, <2>3, <2>4, <2>8, <2>9 DEF Giving
  <2>11. Steps({"http", "stream"}) /\ Sparing({}) /\ UntoldIn(AllItems', next_id)
    BY <1>5, <2>10, GivingSteps
  <2>12. HttpOk'
    <3>1. \A id \in DOMAIN callback_ids' :
            \/ UntoldIn(AllItems', callback_ids'[id])
            \/ id \in DOMAIN callback_ids /\ callback_ids'[id] = callback_ids[id]
      BY <2>5, <2>11
    <3>2. /\ \A id \in Streams' : id # n /\ id \in Streams /\ chunk_callback'[id] = chunk_callback[id]
          /\ \A id \in DOMAIN stream_callback_ids' :
                    /\ id \in Streams' /\ stream_callback_ids'[id] = chunk_callback'[id]
                    /\ id # n => id \in DOMAIN stream_callback_ids
      BY <1>8, <2>1
    <3> QED  BY <1>3, <2>11, <3>1, <3>2, HttpDuesGrow
  <2> QED  BY <1>1, <2>11, <2>12
<1>10. CASE kind = "plain"
  <2>1. UNCHANGED <<next_id, callback_ids, stream_callback_ids, chunk_callback>>
    BY <1>10 DEF HttpRequest
  <2>2. next_id <= next_id'  BY <1>5, <2>1
  <2>3. /\ Lasting /\ SshTableInv' /\ UNCHANGED LsQueues
        /\ Tables' \subseteq Tables \cup HttpClaims' \cup StreamClaims'
    BY <1>1, <1>3, <2>2, HttpOnlyIs
  <2>4. Orders({}) /\ Telling({}, {})  BY <1>1, <2>3, StayingOrders DEF Telling
  <2>5. HttpClaims' = HttpClaims /\ StreamClaims' = StreamClaims
    BY <2>1 DEF HttpClaims, StreamClaims, Streams
  <2>6. Moving({}, {})  BY <2>3, <2>4, <2>5 DEF Moving, Tables
  <2>7. Steps({}) /\ Steps({"http", "stream"})  BY <2>6, MovingSteps
  <2>8. HttpOk'
    <3>1. \A id \in DOMAIN callback_ids' : id \in DOMAIN callback_ids /\ callback_ids'[id] = callback_ids[id]
      BY <2>1
    <3>2. /\ \A id \in Streams' : id # n /\ id \in Streams /\ chunk_callback'[id] = chunk_callback[id]
          /\ \A id \in DOMAIN stream_callback_ids' :
                    /\ id \in Streams' /\ stream_callback_ids'[id] = chunk_callback'[id]
                    /\ id # n => id \in DOMAIN stream_callback_ids
      BY <1>8, <2>1
    <3> QED  BY <1>3, <2>7, <3>1, <3>2, HttpDuesGrow DEF Steps
  <2> QED  BY <1>1, <2>7, <2>8
<1> QED  BY <1>7, <1>9, <1>10

\* A chunk of a stream.
LEMMA StreamChunkSteps ==
    ASSUME OwnInv, OwnInv', FrameInv, Ordered, ClaimInv, HttpInv, HttpOk, HttpOnly, MaxChunks \in Nat,
           NEW t \in HttpThreads, HttpStreamChunk(t), performing[t].id \in Requests
    PROVE  Steps({"http", "stream"}) /\ HttpOk' /\ UNCHANGED own
<1> DEFINE id == performing[t].id
           n == performing[t].chunks + 1
           cb == chunk_callback[id]
           e == Item(cb, Chunk(id, n))
<1>1. /\ performing[t].pc = "performing" /\ performing[t].chunks < MaxChunks
      /\ performing' = [performing EXCEPT ![t].chunks = @ + 1]
      /\ UNCHANGED <<http_next, http_pending, completed>>
      /\ cb # NoCallback /\ Post(cb, Chunk(id, n)) /\ UNCHANGED lhVars
  BY DEF HttpStreamChunk, HttpChunk
<1>2. /\ queue' = Append(queue, e) /\ UNCHANGED <<next_id, stack, own, called>>
      /\ UNCHANGED <<callback_ids, stream_callback_ids, chunk_callback>>
  BY <1>1 DEF Post, lhVars
<1>3. /\ e.cb = cb /\ e.ev.of = "http" /\ e.ev.id = id /\ e.ev.what = "chunk" /\ e.ev.n = n
  BY DEF Item, Chunk, Event
<1>4. n \in Nat /\ n <= MaxChunks
  BY <1>1 DEF HttpInv
<1>5. /\ \A u \in HttpThreads : u # t => performing'[u] = performing[u]
      /\ performing'[t].pc = "performing" /\ performing'[t].id = id /\ performing'[t].chunks = n
  BY <1>1 DEF HttpInv
<1>6. id \in Streams /\ FreshIn(AllItems, cb, n)
  BY <1>1 DEF HttpOk, StreamDue, Performs, Fresh, Streams
<1>7. id \in Given /\ id \notin Queued
  BY <1>1 DEF HttpInv, Has
<1>8. /\ Streams' = Streams /\ Queued' = Queued /\ Given' = Given
  BY <1>1, <1>2 DEF Streams, Queued, Given
<1> HIDE DEF e, n, id
<1>9. /\ Lasting /\ SshTableInv' /\ UNCHANGED LsQueues
      /\ Tables' \subseteq Tables \cup HttpClaims' \cup StreamClaims'
  <2>1. next_id <= next_id'  BY <1>2 DEF OwnInv
  <2> QED  BY <1>2, <1>8, <2>1, HttpOnlyIs
<1>10. Tables' \subseteq Tables
  BY <1>2, <1>9 DEF Tables, HttpClaims, StreamClaims, Streams
<1>11. Telling({e}, {"stream"})
  <2>1. SourceOf(e.ev) = "stream"  BY <1>3 DEF SourceOf
  <2>2. ClaimOf(e) = Claim(cb, "stream", id)  BY <1>3, <2>1 DEF ClaimOf
  <2> QED  BY <1>6, <2>1, <2>2 DEF Telling, Tables, StreamClaims
<1> HIDE DEF cb
<1>12. /\ IsSeq(queue) /\ Append(queue, e) = queue \o <<e>>
       /\ IsSeq(<<e>>) /\ ToSet(<<e>>) = {e} /\ Ascending(<<e>>)
  BY OneAppended DEF FrameInv
<1>13. Timely(<<e>>)
  <2>1. \A x \in ToSet(<<e>>) : x.ev.n \in Int /\ FreshIn(AllItems, x.cb, x.ev.n)
    BY <1>3, <1>4, <1>6, <1>12
  <2> QED  BY <1>11, <1>12, <2>1, TimelyIs
<1>14. Orders({e})
  BY <1>2, <1>9, <1>12, <1>13, PostingOrders
<1>15. Moving({e}, {"stream"})
  BY <1>9, <1>10, <1>11, <1>14 DEF Moving
<1>16. Steps({"stream"}) /\ Steps({"http", "stream"})
  BY <1>15, MovingSteps
<1>17. ASSUME NEW m \in Int, n < m, FreshIn(AllItems, cb, n) \/ FreshIn(AllItems, cb, m)
       PROVE  FreshIn(AllItems', cb, m)
  <2>1. FreshIn(AllItems, cb, m)
    <3>1. n \in Int /\ m \in Int /\ n <= m  BY <1>4, <1>17
    <3>2. Order(queue, stack, called)  BY DEF Ordered
    <3> QED  BY <1>6, <3>1, <3>2, FreshLonger DEF AllItems
  <2> SUFFICES ASSUME NEW x \in AllItems', x.cb = cb PROVE x.ev.n < m  BY DEF FreshIn
  <2>2. PICK y \in AllItems \cup {e} : x.cb = y.cb /\ x.ev = y.ev  BY <1>14 DEF Orders, Like
  <2> QED  BY <1>3, <1>17, <2>1, <2>2 DEF FreshIn
<1>18. ASSUME NEW x \in Streams, x # id PROVE Stays(chunk_callback[x])
  <2>1. Claim(chunk_callback[x], "stream", x) \in Tables  BY DEF Tables, StreamClaims
  <2>2. \A y \in {e} : SourceOf(y.ev) = "stream" => y.ev.id # x  BY <1>3, <1>18
  <2> QED  BY <1>11, <1>14, <2>1, <2>2, OtherSourceStays
<1>19. ASSUME NEW x \in DOMAIN callback_ids PROVE UntoldIn(AllItems', callback_ids[x])
  <2>1. Claim(callback_ids[x], "http", x) \in Tables  BY DEF Tables, HttpClaims
  <2> QED  BY <1>16, <2>1 DEF Steps, Sparing, Stays, HttpOk, HttpDue, Untold
<1>20. ASSUME NEW x \in DOMAIN stream_callback_ids
       PROVE  FreshIn(AllItems', chunk_callback[x], MaxChunks + 1)
  <2>1. x \in Streams /\ FreshIn(AllItems, chunk_callback[x], MaxChunks + 1)
    BY DEF HttpOk, StreamDue, Fresh
  <2>2. CASE x = id
    <3>1. MaxChunks + 1 \in Int /\ n < MaxChunks + 1  BY <1>4
    <3> DEFINE m == MaxChunks + 1
    <3>2. m \in Int /\ n < m /\ FreshIn(AllItems, cb, n)  BY <1>6, <3>1
    <3> HIDE DEF m
    <3>3. FreshIn(AllItems', cb, m)  BY <1>17, <3>2
    <3> QED  BY <2>2, <3>3 DEF cb, m
  <2>3. CASE x # id  BY <1>18, <2>1, <2>3 DEF Stays
  <2> QED  BY <2>2, <2>3
<1>21. ASSUME NEW x \in Streams \cap Queued PROVE UntoldIn(AllItems', chunk_callback[x])
  <2>1. x # id /\ UntoldIn(AllItems, chunk_callback[x])  BY <1>7 DEF HttpOk, StreamDue, Untold
  <2> QED  BY <1>18, <2>1 DEF Stays
<1>22. ASSUME NEW u \in HttpThreads, performing'[u].pc = "performing"
       PROVE  /\ performing'[u].chunks <= MaxChunks
              /\ performing'[u].id \in Streams =>
                    FreshIn(AllItems', chunk_callback[performing'[u].id], performing'[u].chunks + 1)
  <2>1. CASE u = t
    <3>1. n + 1 \in Int /\ n < n + 1  BY <1>4
    <3> DEFINE m == n + 1
    <3>2. m \in Int /\ n < m  BY <3>1
    <3> HIDE DEF m
    <3>3. FreshIn(AllItems', cb, m)  BY <1>6, <1>17, <3>2
    <3> QED  BY <1>4, <1>5, <2>1, <3>3 DEF cb, m
  <2>2. CASE u # t
    <3>1. performing'[u] = performing[u] /\ Performs(u) /\ performing[u].id # id
      BY <1>1, <1>5, <1>22, <2>2 DEF HttpInv, Performs, Has, id
    <3>2. ASSUME performing[u].id \in Streams
          PROVE  FreshIn(AllItems', chunk_callback[performing[u].id], performing[u].chunks + 1)
      BY <1>18, <3>1, <3>2 DEF HttpOk, StreamDue, Fresh, Stays
    <3> QED  BY <3>1, <3>2 DEF HttpOk, StreamDue
  <2> QED  BY <2>1, <2>2
<1>23. HttpLineInv'
  <2>1. \A u \in HttpThreads : Performs(u)' => Performs(u) /\ performing'[u].id = performing[u].id
    <3>1. Performs(t) /\ performing'[t].id = performing[t].id  BY <1>1, <1>5 DEF Performs, id
    <3> QED  BY <1>5, <3>1 DEF Performs
  <2> QED  BY <1>1, <1>8, <2>1, HttpLineStays DEF HttpOk
<1>24. HttpDue'
  BY <1>2, <1>19 DEF HttpDue, Untold
<1>25. StreamDue'
  <2>1. \A x \in DOMAIN stream_callback_ids : x \in Streams /\ stream_callback_ids[x] = chunk_callback[x]
    BY DEF HttpOk, StreamDue
  <2> QED  BY <1>2, <1>8, <1>20, <1>21, <1>22, <2>1 DEF StreamDue, Untold, Fresh, Performs
<1> QED  BY <1>2, <1>16, <1>23, <1>24, <1>25 DEF HttpOk

LEMMA HttpModuleStep ==
    ASSUME OwnInv, OwnInv', FrameInv, Ordered, ClaimInv, HttpSeqs, HttpInv, HttpInv', HttpOk, HttpOnly,
           \/ \E kind \in {"stream", "callback", "plain"} : HttpRequest(kind)
           \/ \E id \in 1..(http_next - 1) : HttpCancelCall(id)
           \/ \E max \in {0, 1} : HttpPollCall(max)
           \/ LuaRuns /\ HttpDispatch
           \/ \E t \in HttpThreads :
                \/ HttpStreamChunk(t)
                \/ /\ \/ HttpTake(t) \/ HttpForget(t) \/ HttpExit(t)
                      \/ \E result \in {"ok", "error"} : HttpAnswer(t, result)
                   /\ UNCHANGED <<cbVars, lhVars>>
           \/ HttpStop /\ UNCHANGED <<cbVars, lhVars>>
           \/ HttpDrop
    PROVE  Steps({"http", "stream"}) /\ HttpOk' /\ UNCHANGED own
<1> DEFINE Goal == Steps({"http", "stream"}) /\ HttpOk' /\ UNCHANGED own
<1>1. MaxChunks \in Nat /\ DOMAIN chunk_callback = Requests /\ IsSeq(completed)
  BY HttpBounds DEF HttpSeqs
<1>2. ASSUME UNCHANGED <<cbVars, lhVars>>, HttpLineInv', UNCHANGED http_next, Queued' \subseteq Queued,
             \A t \in HttpThreads : Performs(t)' =>
                \/ Performs(t) /\ performing'[t] = performing[t]
                \/ performing'[t].chunks = 0 /\ performing'[t].id \in Queued
      PROVE  Goal
  <2>1. UNCHANGED <<next_id, queue, stack, own, called, chunk_callback, stream_callback_ids, callback_ids>>
    BY <1>2 DEF cbVars, lhVars
  <2>2. Kept(stream_callback_ids, stream_callback_ids') /\ Kept(callback_ids, callback_ids')
    BY <2>1 DEF Kept
  <2> QED  BY <1>1, <1>2, <2>1, <2>2, HttpRests
<1>3. ASSUME UNCHANGED <<cbVars, lhVars>>, UNCHANGED <<http_next, http_pending, performing, completed>>
      PROVE  Goal
  <2>1. Queued' = Queued /\ HttpLineInv' /\ \A t \in HttpThreads : Performs(t)' => Performs(t)
    BY <1>3 DEF HttpOk, HttpLineInv, Queued, Given, Performs
  <2> QED  BY <1>2, <1>3, <2>1
<1>4. CASE \E kind \in {"stream", "callback", "plain"} : HttpRequest(kind)
  BY <1>1, <1>4, HttpRequestSteps
<1>5. CASE \E id \in 1..(http_next - 1) : HttpCancelCall(id)
  BY <1>3, <1>5 DEF HttpCancelCall, HttpCancel
<1>6. ASSUME NEW max \in {0, 1}, HttpPollCall(max) PROVE Goal
  <2>1. PICK limit \in {0, 1} : HttpPoll(limit) /\ GiveOut(HttpPolled(limit))
    BY <1>6 DEF HttpPollCall
  <2>2. limit \in Nat /\ LuaRuns  BY <1>6 DEF HttpPollCall
  <2> QED  BY <1>1, <2>1, <2>2, GiveOutSteps
<1>7. CASE LuaRuns /\ HttpDispatch
  <2>1. HttpPoll(0) /\ GiveOut(HttpPolled(0)) /\ 0 \in Nat  BY <1>7 DEF HttpDispatch, HttpPolled
  <2> QED  BY <1>1, <1>7, <2>1, GiveOutSteps
<1>8. ASSUME NEW t \in HttpThreads, HttpStreamChunk(t) PROVE Goal
  <2>1. performing[t].id \in Requests
    <3>1. performing[t].id \in Given  BY <1>8 DEF HttpStreamChunk, HttpChunk, HttpInv, Has
    <3>2. http_next \in Nat /\ http_next <= MaxRequests + 1 /\ MaxRequests \in Nat
      BY HttpBounds DEF HttpSeqs, HttpInv
    <3> QED  BY <3>1, <3>2 DEF Given, Requests
  <2> QED  BY <1>1, <1>8, <2>1, StreamChunkSteps
<1>9. ASSUME NEW t \in HttpThreads, HttpTake(t), UNCHANGED <<cbVars, lhVars>> PROVE Goal
  <2>1. /\ HttpLineInv' /\ UNCHANGED http_next /\ Queued' \subseteq Queued
        /\ \A u \in HttpThreads : Performs(u)' =>
              \/ Performs(u) /\ performing'[u] = performing[u]
              \/ performing'[u].chunks = 0 /\ performing'[u].id \in Queued
    BY <1>1, <1>9, HttpTakeIs DEF HttpOk
  <2> QED  BY <1>2, <1>9, <2>1
<1>10. ASSUME NEW t \in HttpThreads, UNCHANGED <<cbVars, lhVars>>,
              \/ \E result \in {"ok", "error"} : HttpAnswer(t, result)
              \/ HttpForget(t) \/ HttpExit(t)
       PROVE  Goal
  <2>1. /\ HttpLineInv' /\ UNCHANGED http_next /\ Queued' = Queued
        /\ \A u \in HttpThreads : Performs(u)' => Performs(u) /\ performing'[u] = performing[u]
    BY <1>1, <1>10, HttpThreadIs DEF HttpOk
  <2> QED  BY <1>2, <1>10, <2>1
<1>11. CASE HttpStop /\ UNCHANGED <<cbVars, lhVars>>
  BY <1>3, <1>11 DEF HttpStop
<1>12. CASE HttpDrop
  <2>1. /\ UNCHANGED <<http_next, performing, completed, queue, stack, own, called, chunk_callback>>
        /\ stream_callback_ids' = <<>> /\ callback_ids' = <<>> /\ http_pending' = <<>>
        /\ \E drop : Reregister(drop, 0)
    BY <1>12 DEF HttpDrop, HttpJoined, Unregister
  <2>2. next_id' = next_id
    <3>1. ASSUME NEW drop, Reregister(drop, 0) PROVE next_id' = next_id
      BY <3>1 DEF OwnInv, Reregister
    <3> QED  BY <2>1, <3>1
  <2>3. Queued' = {} /\ Given' = Given /\ \A t \in HttpThreads : Performs(t)' => Performs(t)
    BY <2>1 DEF Queued, Given, Performs
  <2>4. HttpLineInv'  BY <2>1, <2>3, HttpLineStays DEF HttpOk
  <2>5. Kept(stream_callback_ids, stream_callback_ids') /\ Kept(callback_ids, callback_ids')
    BY <2>1 DEF Kept
  <2> QED  BY <1>1, <2>1, <2>2, <2>3, <2>4, <2>5, HttpRests
<1> QED  BY <1>4, <1>5, <1>6, <1>7, <1>8, <1>9, <1>10, <1>11, <1>12
=============================================================================
