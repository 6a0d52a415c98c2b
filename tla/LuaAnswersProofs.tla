---------------------------- MODULE LuaAnswersProofs ---------------------------
(***************************************************************************)
(* Proofs about LuaRuntime: the order in which a callback is told its      *)
(* events.  An event that is enqueued has a higher number than all that    *)
(* its callback was told or has yet to be told.  This holds because the    *)
(* callbacks of different sources are different and each source tells      *)
(* its events in order; the events of lua_ssh_dispatch are the exception,  *)
(* which a nested loop may overtake, as a nested dispatch may overtake the *)
(* batch around it.  Then that each request is answered once: it is at one *)
(* place of its service, or was told, and the callback that waits for it   *)
(* is there when its turn comes.                                           *)
(***************************************************************************)
EXTENDS LuaRuntimeProofs

-----------------------------------------------------------------------------
(* The process module.                                                     *)

LEMMA ProcessOnlyIs ==
    ASSUME ProcessOnly, OwnInv, OwnInv', Ordered, next_id <= next_id', UNCHANGED own,
           Spawned \subseteq Spawned'
    PROVE  /\ Lasting /\ SshTableInv' /\ UNCHANGED LsQueues
           /\ Tables' \subseteq Tables \cup ProcessClaims'
<1>1. UNCHANGED lhVars /\ UNCHANGED ljVars /\ UNCHANGED lsVars
      /\ UNCHANGED lrVars /\ UNCHANGED ltVars
  BY DEF ProcessOnly
<1>2. UNCHANGED <<http_next, phase, ssh_next, loads>>
  BY DEF ProcessOnly, hcVars, ljVars, lsVars, ltVars
<1>3. Lasting
  BY <1>2, LastingIs DEF Spawned
<1>4. Tables' \subseteq Tables \cup ProcessClaims'
  BY <1>1, ClaimsFrame DEF Tables
<1> QED  BY <1>1, <1>3, <1>4, SshTableStays

\* Entries go, and those that stay keep their callback.
Erases(gone) ==
    /\ DOMAIN processes' \subseteq DOMAIN processes \ gone
    /\ \A id \in DOMAIN processes' : processes'[id].cb = processes[id].cb

LEMMA RemainingErases ==
    ASSUME ProcInv, NEW S, NEW late, NEW gone, processes' = Remaining(S, late, gone)
    PROVE  Erases(gone)
<1>1. /\ DOMAIN processes' = DOMAIN processes \ gone
      /\ \A id \in DOMAIN processes' :
            processes'[id] = [processes[id] EXCEPT !.finished = id \in FinishedBy(S, late)]
  BY DEF Remaining
<1>2. ASSUME NEW id \in DOMAIN processes'
      PROVE  processes'[id].cb = processes[id].cb
  <2> DEFINE f == id \in FinishedBy(S, late)
             r == processes[id]
  <2>1. processes'[id] = [r EXCEPT !.finished = f] /\ id \in DOMAIN processes  BY <1>1
  <2>2. r = [cb |-> r.cb, timed |-> r.timed, finished |-> r.finished]  BY <2>1 DEF ProcInv
  <2> HIDE DEF f, r
  <2>3. processes'[id].cb = r.cb  BY <2>1, <2>2
  <2> QED  BY <2>3 DEF r
<1> QED  BY <1>1, <1>2 DEF Erases

LEMMA ErasesIs ==
    ASSUME NEW gone, Erases(gone)
    PROVE  /\ \A id \in WithCallback' : /\ id \in WithCallback /\ id \notin gone
                                        /\ processes'[id].cb = processes[id].cb
           /\ ProcessClaims' \subseteq ProcessClaims
<1>1. \A id \in WithCallback' : /\ id \in WithCallback /\ id \notin gone
                                /\ processes'[id].cb = processes[id].cb
  BY DEF Erases, WithCallback
<1> QED  BY <1>1 DEF ProcessClaims

LEMMA ProcessesRest ==
    ASSUME OwnInv, OwnInv', Ordered, ClaimInv, ProcessDue, ProcessOnly, NEW gone, Erases(gone),
           UNCHANGED <<next_id, queue, stack, own, called, proc_next>>
    PROVE  Steps({"process"}) /\ ProcessDue'
<1>1. next_id <= next_id' /\ Spawned \subseteq Spawned'
  BY DEF OwnInv, Spawned
<1>2. /\ Lasting /\ SshTableInv' /\ UNCHANGED LsQueues
      /\ Tables' \subseteq Tables \cup ProcessClaims'
  BY <1>1, ProcessOnlyIs
<1>3. Orders({}) /\ Telling({}, {})
  BY <1>2, StayingOrders DEF Telling
<1>4. Moving({}, {})
  BY <1>2, <1>3, ErasesIs DEF Moving, Tables
<1>5. Steps({}) /\ Steps({"process"})
  BY <1>4, MovingSteps
<1>6. \A id \in WithCallback : Stays(processes[id].cb)
  BY <1>5 DEF Steps, Sparing, Tables, ProcessClaims
<1>7. \A id \in WithCallback' : UntoldIn(AllItems', processes'[id].cb)
  BY <1>6, ErasesIs DEF ProcessDue, Untold, Stays
<1> QED  BY <1>5, <1>7 DEF ProcessDue, Untold

LEMMA SpawnSteps ==
    ASSUME OwnInv, OwnInv', Ordered, ClaimInv, ProcInv, ProcessDue, ProcessOnly,
           NEW with \in BOOLEAN, NEW timed \in BOOLEAN, ProcessSpawn(with, timed)
    PROVE  Steps({"process"}) /\ ProcessDue' /\ UNCHANGED own
<1> DEFINE cb == IF with THEN next_id ELSE NoCallback
           entry == [cb |-> cb, timed |-> timed, finished |-> FALSE]
           add == IF with THEN 1 ELSE 0
<1>1. PICK n \in Processes : n = proc_next
  BY DEF ProcessSpawn
<1>2. /\ proc_next' = n + 1 /\ Reregister({}, add)
      /\ processes' = [id \in DOMAIN processes \cup {n} |-> IF id = n THEN entry ELSE processes[id]]
      /\ UNCHANGED <<queue, stack, own, called>>
  BY <1>1 DEF ProcessSpawn
<1>3. n \in Nat \ {0} /\ DOMAIN processes \subseteq Spawned
  BY <1>1 DEF ProcInv
<1>4. Spawned \subseteq Spawned' /\ n \in Spawned' /\ n \notin Spawned
  BY <1>1, <1>2, <1>3 DEF Spawned
<1>5. entry.cb = cb
  OBVIOUS
<1> HIDE DEF entry
<1>6. \A id \in DOMAIN processes' : \/ id = n /\ processes'[id].cb = cb
                                    \/ id \in DOMAIN processes /\ processes'[id] = processes[id]
  BY <1>2, <1>5
<1>7. next_id <= next_id' /\ (with => next_id < next_id')
  BY <1>2, ReregisterGives
<1>8. /\ Lasting /\ SshTableInv' /\ UNCHANGED LsQueues
      /\ Tables' \subseteq Tables \cup ProcessClaims'
  BY <1>2, <1>4, <1>7, ProcessOnlyIs
<1>9. Orders({}) /\ Telling({}, {})
  BY <1>2, <1>8, StayingOrders DEF Telling
<1>10. next_id \in Nat \ {0}
  BY DEF OwnInv
<1>11. \A id \in WithCallback' : \/ id = n /\ with /\ processes'[id].cb = next_id
                                 \/ id \in WithCallback /\ processes'[id].cb = processes[id].cb
  BY <1>6 DEF WithCallback
<1>12. CASE with
  <2>1. ProcessClaims' \subseteq ProcessClaims \cup {Claim(next_id, "process", n)}
    BY <1>11 DEF ProcessClaims
  <2>2. Tables' \subseteq Tables \cup {Claim(next_id, "process", n)}  BY <1>8, <2>1 DEF Tables
  <2>3. Exists("process", n)' /\ ~Exists("process", n)  BY <1>4 DEF Exists, Spawned
  <2>4. Giving("process", n)  BY <1>7, <1>8, <1>9, <1>12, <2>2, <2>3 DEF Giving
  <2>5. Steps({"process"}) /\ Sparing({}) /\ UntoldIn(AllItems', next_id)
    BY <1>10, <2>4, GivingSteps
  <2>6. \A id \in WithCallback : Stays(processes[id].cb)  BY <2>5 DEF Sparing, Tables, ProcessClaims
  <2>7. \A id \in WithCallback' : UntoldIn(AllItems', processes'[id].cb)
    BY <1>11, <2>5, <2>6 DEF ProcessDue, Untold, Stays
  <2> QED  BY <1>2, <2>5, <2>7 DEF ProcessDue, Untold
<1>13. CASE ~with
  <2>1. ProcessClaims' \subseteq ProcessClaims  BY <1>11, <1>13 DEF ProcessClaims
  <2>2. Moving({}, {})  BY <1>8, <1>9, <2>1 DEF Moving, Tables
  <2>3. Steps({}) /\ Steps({"process"})  BY <2>2, MovingSteps
  <2>4. \A id \in WithCallback : Stays(processes[id].cb)
    BY <2>3 DEF Steps, Sparing, Tables, ProcessClaims
  <2>5. \A id \in WithCallback' : UntoldIn(AllItems', processes'[id].cb)
    BY <1>11, <1>13, <2>4 DEF ProcessDue, Untold, Stays
  <2> QED  BY <1>2, <2>3, <2>5 DEF ProcessDue, Untold
<1> QED  BY <1>12, <1>13

\* An enumeration of a set of as many elements as it has repeats none.
LEMMA EnumerationIsInjective ==
    ASSUME NEW n \in Nat, NEW T, NEW f \in [1..n -> T], {f[k] : k \in 1..n} = T, Cardinality(T) = n
    PROVE  \A i, j \in 1..n : f[i] = f[j] => i = j
<1>1. IsFiniteSet(1..n) /\ Cardinality(1..n) = n
  <2>1. 1 \in Int /\ n \in Int /\ (IF 1 > n THEN 0 ELSE n - 1 + 1) = n  OBVIOUS
  <2> QED  BY <2>1, FS_Interval
<1>2. f \in Surjection(1..n, T)
  BY DEF Surjection
<1>3. f \in Injection(1..n, T)
  BY <1>1, <1>2, FS_Surjection
<1> QED  BY <1>3 DEF Injection, IsInjective

LEMMA ProcessDispatchSteps ==
    ASSUME OwnInv, OwnInv', FrameInv, Ordered, ClaimInv, ProcInv, ProcessDue, ProcessOnly,
           NEW late, NEW n \in Nat, NEW order \in [1..n -> Processes], ProcessDispatch(late, order)
    PROVE  Steps({"process"}) /\ ProcessDue' /\ UNCHANGED own
<1> DEFINE all == DOMAIN processes
           told == {id \in FinishedBy(all, late) : processes[id].cb # NoCallback}
           item(k) == Item(processes[order[k]].cb, Event("process", order[k], "result", 0))
           items == [k \in DOMAIN order |-> item(k)]
<1>1. /\ {order[k] : k \in DOMAIN order} = told /\ Len(order) = Cardinality(told)
      /\ processes' = Remaining(all, late, told) /\ queue' = queue \o items
      /\ UNCHANGED <<next_id, stack, own, called, proc_next>>
  BY DEF ProcessDispatch
<1>2. told \subseteq WithCallback
  BY DEF FinishedBy, WithCallback
<1>3. Erases(told)
  BY <1>1, RemainingErases
<1>4. items = [k \in 1..n |-> items[k]] /\ \A k \in 1..n : items[k] = item(k)
  BY DOMAIN order = 1..n
<1>5. \A k \in 1..n : /\ item(k).cb = processes[order[k]].cb /\ item(k).ev.of = "process"
                      /\ item(k).ev.id = order[k] /\ item(k).ev.n = 0
  BY DEF Item, Event
<1> HIDE DEF items, item, told
<1>6. IsSeq(items) /\ ToSet(items) = {items[k] : k \in 1..n} /\ Len(items) = n
  BY <1>4, FunctionIsSeq
<1>7. \A i, j \in 1..n : order[i] = order[j] => i = j
  <2>1. order \in Seq(Processes) /\ Len(order) = n /\ DOMAIN order = 1..n  OBVIOUS
  <2>2. \A k \in 1..n : order[k] \in told  BY <1>1, <2>1
  <2>3. order \in [1..n -> told] /\ {order[k] : k \in 1..n} = told /\ Cardinality(told) = n
    BY <1>1, <2>1, <2>2
  <2> QED  BY <2>3, EnumerationIsInjective
<1>8. \A k \in 1..n : order[k] \in told /\ order[k] \in WithCallback
  BY <1>1, <1>2, DOMAIN order = 1..n
<1>9. ASSUME NEW e \in ToSet(items)
      PROVE  /\ e.ev.id \in told /\ e.ev.n = 0 /\ SourceOf(e.ev) = "process"
             /\ ClaimOf(e) \in Tables /\ UntoldIn(AllItems, e.cb)
  <2>1. PICK k \in 1..n : e = items[k]  BY <1>6
  <2> DEFINE id == order[k]
  <2>2. id \in told /\ id \in WithCallback  BY <1>8
  <2>3. e.cb = processes[id].cb /\ e.ev.of = "process" /\ e.ev.id = id /\ e.ev.n = 0
    BY <1>4, <1>5, <2>1
  <2> HIDE DEF id
  <2>4. SourceOf(e.ev) = "process"  BY <2>3 DEF SourceOf
  <2>5. ClaimOf(e) = Claim(processes[id].cb, "process", id)  BY <2>3, <2>4 DEF ClaimOf
  <2>6. ClaimOf(e) \in Tables  BY <2>2, <2>5 DEF Tables, ProcessClaims
  <2> QED  BY <2>2, <2>3, <2>4, <2>6 DEF ProcessDue, Untold
<1>10. Answers(items, {"process"})
  <2>1. DOMAIN items = 1..n  BY <1>4
  <2>2. \A i, j \in DOMAIN items : items[i].ev.id = items[j].ev.id => i = j
    BY <1>4, <1>5, <1>7, <2>1
  <2>3. \A e \in ToSet(items) : e.ev.n \in Int /\ FreshIn(AllItems, e.cb, e.ev.n)
    BY <1>9, UntoldIsFresh
  <2>4. Telling(ToSet(items), {"process"})  BY <1>9 DEF Telling
  <2> QED  BY <1>6, <2>2, <2>3, <2>4 DEF Answers
<1>11. next_id <= next_id' /\ Spawned \subseteq Spawned'
  BY <1>1 DEF OwnInv, Spawned
<1>12. /\ Lasting /\ SshTableInv' /\ UNCHANGED LsQueues
       /\ Tables' \subseteq Tables \cup ProcessClaims'
  BY <1>1, <1>11, ProcessOnlyIs
<1>13. Orders(ToSet(items)) /\ Telling(ToSet(items), {"process"})
  BY <1>1, <1>10, <1>12, AnswersAreTimely, PostingOrders DEF Answers
<1>14. Moving(ToSet(items), {"process"})
  BY <1>3, <1>12, <1>13, ErasesIs DEF Moving, Tables
<1>15. Steps({"process"})
  BY <1>14, MovingSteps
<1>16. ASSUME NEW id \in WithCallback'
       PROVE  UntoldIn(AllItems', processes'[id].cb)
  <2>1. id \in WithCallback /\ id \notin told /\ processes'[id].cb = processes[id].cb
    BY <1>3, ErasesIs
  <2>2. Claim(processes[id].cb, "process", id) \in Tables  BY <2>1 DEF Tables, ProcessClaims
  <2>3. \A e \in ToSet(items) : SourceOf(e.ev) = "process" => e.ev.id # id  BY <1>9, <2>1
  <2>4. Stays(processes[id].cb)  BY <1>13, <2>2, <2>3, OtherSourceStays
  <2> QED  BY <2>1, <2>4 DEF Stays, ProcessDue, Untold
<1> QED  BY <1>1, <1>15, <1>16 DEF ProcessDue, Untold

LEMMA ProcessStep ==
    ASSUME OwnInv, OwnInv', FrameInv, Ordered, ClaimInv, ProcInv, ProcessDue, ProcessOnly,
           \/ \E with, timed \in BOOLEAN : ProcessSpawn(with, timed)
           \/ \E late, id : ProcessRead(id, late) \/ ProcessWait(id, late)
           \/ \E max, late, gone : ProcessPollCall(max, late, gone)
           \/ \E late : \E order \in UNION {[1..n -> Processes] : n \in 0..MaxProcesses} :
                 ProcessDispatch(late, order)
           \/ \E id \in Processes : ChildExit(id)
    PROVE  Steps({"process"}) /\ ProcessDue' /\ UNCHANGED own
<1>1. CASE \E with, timed \in BOOLEAN : ProcessSpawn(with, timed)
  BY <1>1, SpawnSteps
<1>2. ASSUME NEW S, NEW late, NEW gone, processes' = Remaining(S, late, gone),
             UNCHANGED <<next_id, queue, stack, own, called, proc_next>>
      PROVE  Steps({"process"}) /\ ProcessDue' /\ UNCHANGED own
  BY <1>2, RemainingErases, ProcessesRest
<1>3. CASE \/ \E late, id : ProcessRead(id, late)
           \/ \E max, late, gone : ProcessPollCall(max, late, gone)
  <2>1. UNCHANGED cbVars /\ UNCHANGED proc_next
        /\ \E S, late, gone : processes' = Remaining(S, late, gone)
    BY <1>3 DEF ProcessRead, ProcessPollCall
  <2> QED  BY <1>2, <2>1 DEF cbVars
<1>4. ASSUME NEW late, NEW id, ProcessWait(id, late)
      PROVE  Steps({"process"}) /\ ProcessDue' /\ UNCHANGED own
  <2>1. /\ processes' = Remaining({id}, late, {id})
        /\ \E drop : Reregister(drop, 0)
        /\ UNCHANGED <<queue, stack, own, called, proc_next>>
    BY <1>4 DEF ProcessWait, Unregister
  <2>2. next_id' = next_id
    <3>1. ASSUME NEW drop, Reregister(drop, 0) PROVE next_id' = next_id
      BY <3>1 DEF OwnInv, Reregister
    <3> QED  BY <2>1, <3>1
  <2> QED  BY <1>2, <2>1, <2>2
<1>5. ASSUME NEW late, NEW n \in 0..MaxProcesses, NEW order \in [1..n -> Processes],
             ProcessDispatch(late, order)
      PROVE  Steps({"process"}) /\ ProcessDue' /\ UNCHANGED own
  <2>1. n \in Nat  BY ProcessBound
  <2> QED  BY <1>5, <2>1, ProcessDispatchSteps
<1>6. ASSUME NEW id \in Processes, ChildExit(id)
      PROVE  Steps({"process"}) /\ ProcessDue' /\ UNCHANGED own
  <2>1. UNCHANGED <<cbVars, processes, proc_next>>  BY <1>6 DEF ChildExit
  <2>2. Erases({})  BY <2>1 DEF Erases
  <2> QED  BY <2>1, <2>2, ProcessesRest DEF cbVars
<1> QED  BY <1>1, <1>3, <1>4, <1>5, <1>6

-----------------------------------------------------------------------------
(* The resource manager.                                                   *)

LEMMA TailDistinct ==
    ASSUME NEW s, IsSeq(s), s # <<>>, Distinct(s)
    PROVE  Distinct(Tail(s)) /\ Head(s) \notin ToSet(Tail(s))
<1> DEFINE n == Len(s)
           t == Tail(s)
<1>1. s \in Seq(ToSet(s)) /\ n \in Nat /\ DOMAIN s = 1..n
  BY SeqIs
<1>2. /\ n \in Nat \ {0} /\ t \in Seq(ToSet(s)) /\ Len(t) = n - 1
      /\ \A i \in 1..Len(t) : t[i] = s[i + 1]
      /\ Head(s) = s[1]
  BY <1>1, EmptySeq, HeadTailProperties
<1>3. DOMAIN t = 1..(n - 1)
  BY <1>2
<1> HIDE DEF t, n
<1>4. \A i \in 1..(n - 1) : i + 1 \in 1..n /\ i + 1 # 1 /\ t[i] = s[i + 1]
  BY <1>1, <1>2, <1>3
<1>5. 1 \in 1..n /\ \A i, j \in 1..(n - 1) : i + 1 = j + 1 => i = j
  BY <1>2
<1>6. Distinct(t)
  BY <1>1, <1>3, <1>4, <1>5 DEF Distinct
<1>7. ASSUME NEW i \in 1..(n - 1) PROVE t[i] # Head(s)
  <2>1. i + 1 \in DOMAIN s /\ 1 \in DOMAIN s /\ i + 1 # 1  BY <1>1, <1>4, <1>5
  <2>2. s[i + 1] # s[1]  BY <2>1 DEF Distinct
  <2> QED  BY <1>2, <1>4, <2>2
<1>8. Head(s) \notin ToSet(t)
  BY <1>3, <1>7 DEF ToSet
<1> QED  BY <1>6, <1>8 DEF t

\* Every entry is in one of the three parts of a queue that is worked on.
Parted(st, U) ==
    /\ IsSeq(st.ahead) /\ IsSeq(st.stay) /\ IsSeq(st.ended)
    /\ Distinct(st.ahead) /\ Distinct(st.stay) /\ Distinct(st.ended)
    /\ ToSet(st.ahead) \cap ToSet(st.stay) = {}
    /\ ToSet(st.ahead) \cap ToSet(st.ended) = {}
    /\ ToSet(st.stay) \cap ToSet(st.ended) = {}
    /\ ToSet(st.ahead) \subseteq U /\ ToSet(st.stay) \subseteq U /\ ToSet(st.ended) \subseteq U
    /\ U \subseteq ToSet(st.ahead) \cup ToSet(st.stay) \cup ToSet(st.ended)

LEMMA UploadsParted ==
    ASSUME NEW map, NEW uploads, IsSeq(uploads), Distinct(uploads)
    PROVE  Parted(UploadsOf(map, uploads), ToSet(uploads))
<1>1. IsSeq(<<>>) /\ ToSet(<<>>) = {} /\ Distinct(<<>>)
  BY EmptyIsSeq DEF ToSet, Distinct
<1> QED  BY <1>1 DEF Parted, UploadsOf

LEMMA UploadNextParted ==
    ASSUME NEW key, NEW st, NEW U, Parted(st, U)
    PROVE  Parted(UploadNext(key, st), U)
<1> DEFINE id == Head(st.ahead)
           ends == EndsUpload(st.map[key[id]])
           map == [st.map EXCEPT ![key[id]] = Uploaded(@)]
           ahead == Tail(st.ahead)
           stay == Append(st.stay, id)
           over == Append(st.ended, id)
<1>1. CASE st.ahead = <<>>
  BY <1>1 DEF UploadNext
<1>2. CASE st.ahead # <<>>
  <2>1. /\ IsSeq(ahead) /\ ToSet(st.ahead) = ToSet(ahead) \cup {id}
        /\ Distinct(ahead) /\ id \notin ToSet(ahead)
    BY <1>2, TailIs, TailDistinct DEF Parted
  <2>2. UploadNext(key, st) =
           [map |-> map, ahead |-> ahead,
            stay |-> IF ends THEN st.stay ELSE stay,
            ended |-> IF ends THEN over ELSE st.ended]
    BY <1>2 DEF UploadNext
  <2>3. id \notin ToSet(st.stay) /\ id \notin ToSet(st.ended)  BY <2>1 DEF Parted
  <2>4. /\ IsSeq(stay) /\ ToSet(stay) = ToSet(st.stay) \cup {id} /\ Distinct(stay)
        /\ IsSeq(over) /\ ToSet(over) = ToSet(st.ended) \cup {id} /\ Distinct(over)
    BY <2>3, AppendIs, DistinctAppend DEF Parted
  <2> HIDE DEF id, ends, map, ahead, stay, over
  <2>5. CASE ends  BY <2>1, <2>2, <2>4, <2>5 DEF Parted
  <2>6. CASE ~ends  BY <2>1, <2>2, <2>4, <2>6 DEF Parted
  <2> QED  BY <2>5, <2>6
<1> QED  BY <1>1, <1>2

LEMMA PolledOfPicks ==
    ASSUME LoadSeqs, LoadLineInv, NEW kind, NEW max \in Nat
    PROVE  /\ DistinctIds(PolledOf(kind, max))
           /\ \A r \in ToSet(PolledOf(kind, max)) : loads[r.id].kind = kind
<1> DEFINE S == {i \in DOMAIN load_results : loads[load_results[i].id].kind = kind}
           mine == At(load_results, S)
           picked == PolledOf(kind, max)
<1>1. /\ IsSeq(mine) /\ ToSet(mine) = {load_results[i] : i \in S}
      /\ DistinctIds(mine)
  BY AtIs, DistinctAt DEF LoadSeqs, LoadLineInv
<1>2. \A r \in ToSet(mine) : loads[r.id].kind = kind
  BY <1>1
<1>3. picked = IF max = 0 \/ max > Len(mine) THEN mine ELSE SubSeq(mine, 1, max)
  BY DEF PolledOf
<1> HIDE DEF mine, picked
<1> DEFINE m == Len(picked)
           rest == SubSeq(mine, m + 1, Len(mine))
<1>4. Splits(mine, m, picked, rest) /\ m \in Nat
  BY <1>1, <1>3, PrefixSplits
<1> HIDE DEF m, rest
<1>5. ToSet(picked) \subseteq ToSet(mine) /\ (DistinctIds(mine) => DistinctIds(picked))
  BY <1>4, SplitDistinct
<1> QED  BY <1>1, <1>2, <1>5 DEF picked

LEMMA SucceededPicks ==
    ASSUME NEW results, IsSeq(results), DistinctIds(results)
    PROVE  /\ IsSeq(Succeeded(results)) /\ Distinct(Succeeded(results))
           /\ ToSet(Succeeded(results)) = {r.id : r \in {r \in ToSet(results) : r.ok}}
<1> DEFINE S == {i \in DOMAIN results : results[i].ok}
           ok == At(results, S)
           n == Len(ok)
           ids == Succeeded(results)
<1>1. ids = [i \in DOMAIN ok |-> ok[i].id]
  BY DEF Succeeded
<1>2. IsSeq(ok) /\ ToSet(ok) = {results[i] : i \in S} /\ DistinctIds(ok)
  BY AtIs, DistinctAt
<1>3. ToSet(ok) = {r \in ToSet(results) : r.ok}
  BY <1>2 DEF ToSet
<1> HIDE DEF ok, ids
<1>4. n \in Nat /\ DOMAIN ok = 1..n /\ \A k \in 1..n : ok[k] \in ToSet(ok)
  BY <1>2, SeqIs
<1> HIDE DEF n
<1>5. ids = [k \in 1..n |-> ids[k]] /\ \A k \in 1..n : ids[k] = ok[k].id
  BY <1>1, <1>4
<1>6. IsSeq(ids) /\ ToSet(ids) = {ids[k] : k \in 1..n}
  BY <1>4, <1>5, FunctionIsSeq
<1>7. Distinct(ids)
  BY <1>1, <1>2, <1>4, <1>5 DEF Distinct, DistinctIds
<1>8. ToSet(ids) = {r.id : r \in ToSet(ok)}
  BY <1>4, <1>5, <1>6 DEF ToSet
<1> QED  BY <1>3, <1>6, <1>7, <1>8 DEF ids

LEMMA ReadyAnswers ==
    ASSUME NEW ids, LoadNames(ids), Distinct(ids), ToSet(ids) \subseteq Loading, LoadDue
    PROVE  /\ Answers(Ready(ids), {"load"})
           /\ \A e \in ToSet(Ready(ids)) : e.ev.id \in ToSet(ids)
<1> DEFINE S == {i \in DOMAIN ids : loads[ids[i]].cb # NoCallback}
           mine == At(ids, S)
           items == Ready(ids)
<1>1. items = [k \in DOMAIN mine |-> Item(loads[mine[k]].cb, Event("load", mine[k], "ready", 0))]
  BY DEF Ready
<1>2. IsSeq(ids) /\ ToSet(ids) \subseteq DOMAIN loads
  BY DEF LoadNames
<1>3. IsSeq(mine) /\ ToSet(mine) = {ids[i] : i \in S} /\ IsSeq(items)
  BY <1>2, AtIs, ReadyIs
<1>4. Distinct(mine)
  BY <1>2, DistinctAt
<1> HIDE DEF mine, items
<1>5. \A k \in DOMAIN mine : mine[k] \in ToSet(ids) /\ loads[mine[k]].cb # NoCallback
  <2>1. \A k \in DOMAIN mine : mine[k] \in ToSet(mine)  BY DEF ToSet
  <2> QED  BY <1>3, <2>1 DEF ToSet
<1>6. DOMAIN items = DOMAIN mine
  BY <1>1
<1>7. \A k \in DOMAIN items : /\ items[k].cb = loads[mine[k]].cb
                              /\ items[k].ev.of = "load" /\ items[k].ev.id = mine[k]
                              /\ items[k].ev.n = 0
  BY <1>1 DEF Item, Event
<1>8. ASSUME NEW e \in ToSet(items)
      PROVE  /\ e.ev.id \in ToSet(ids) /\ e.ev.n = 0 /\ SourceOf(e.ev) = "load"
             /\ ClaimOf(e) \in Tables /\ UntoldIn(AllItems, e.cb)
  <2>1. PICK k \in DOMAIN items : e = items[k]  BY DEF ToSet
  <2> DEFINE j == mine[k]
  <2>2. j \in ToSet(ids) /\ j \in DOMAIN loads /\ j \in Loading /\ loads[j].cb # NoCallback
    BY <1>2, <1>5, <1>6
  <2>3. e.cb = loads[j].cb /\ e.ev.of = "load" /\ e.ev.id = j /\ e.ev.n = 0  BY <1>7, <2>1
  <2> HIDE DEF j
  <2>4. SourceOf(e.ev) = "load"  BY <2>3 DEF SourceOf
  <2>5. ClaimOf(e) = Claim(loads[j].cb, "load", j)  BY <2>3, <2>4 DEF ClaimOf
  <2>6. ClaimOf(e) \in Tables  BY <2>2, <2>5 DEF Tables, LoadClaims
  <2> QED  BY <2>2, <2>3, <2>4, <2>6 DEF LoadDue, Untold
<1>9. \A i, j \in DOMAIN items : items[i].ev.id = items[j].ev.id => i = j
  BY <1>4, <1>6, <1>7 DEF Distinct
<1>10. \A e \in ToSet(items) : e.ev.n \in Int /\ FreshIn(AllItems, e.cb, e.ev.n)
  BY <1>8, UntoldIsFresh
<1>11. Telling(ToSet(items), {"load"})
  BY <1>8 DEF Telling
<1> QED  BY <1>3, <1>8, <1>9, <1>10, <1>11 DEF Answers, items

-----------------------------------------------------------------------------
(* A frame of the resource manager: whom it tells, and what it leaves.     *)

TellsLoads(told) ==
    /\ LoadNames(told) /\ Distinct(told) /\ ToSet(told) \subseteq Loading
    /\ queue' = queue \o Ready(told)
    /\ Loading' \subseteq Loading /\ Loading' \cap ToSet(told) = {}

\* Loads of four kinds that are named once each.
LEMMA FourKindsDistinct ==
    ASSUME NEW a, NEW b, NEW c, NEW d, IsSeq(a), IsSeq(b), IsSeq(c), IsSeq(d),
           Distinct(a), Distinct(b), Distinct(c), Distinct(d),
           \A id \in ToSet(a) : loads[id].kind = "file",
           \A id \in ToSet(b) : loads[id].kind = "bytes",
           \A id \in ToSet(c) : loads[id].kind = "cubemap",
           \A id \in ToSet(d) : loads[id].kind = "audio"
    PROVE  /\ Distinct(a \o b \o c \o d)
           /\ ToSet(a \o b \o c \o d) = ToSet(a) \cup ToSet(b) \cup ToSet(c) \cup ToSet(d)
<1> DEFINE ab == a \o b
           abc == ab \o c
           abcd == abc \o d
<1>1. ToSet(a) \cap ToSet(b) = {}
  BY "file" # "bytes"
<1>2. IsSeq(ab) /\ ToSet(ab) = ToSet(a) \cup ToSet(b) /\ Distinct(ab)
  BY <1>1, ConcatIs, DistinctConcat
<1> HIDE DEF ab
<1>3. ToSet(ab) \cap ToSet(c) = {}
  BY <1>2, "file" # "cubemap", "bytes" # "cubemap"
<1>4. IsSeq(abc) /\ ToSet(abc) = ToSet(ab) \cup ToSet(c) /\ Distinct(abc)
  BY <1>2, <1>3, ConcatIs, DistinctConcat
<1> HIDE DEF abc
<1>5. ToSet(abc) \cap ToSet(d) = {}
  BY <1>2, <1>4, "file" # "audio", "bytes" # "audio", "cubemap" # "audio"
<1>6. IsSeq(abcd) /\ ToSet(abcd) = ToSet(abc) \cup ToSet(d) /\ Distinct(abcd)
  BY <1>4, <1>5, ConcatIs, DistinctConcat
<1> HIDE DEF abcd
<1>7. abcd = a \o b \o c \o d
  BY DEF abcd, abc, ab
<1> QED  BY <1>2, <1>4, <1>6, <1>7

\* None is lost: those that are not told and do not wait have failed.
LosesNone(told) ==
    /\ load_failed \subseteq load_failed' /\ load_failed' \subseteq load_failed \cup Loading
    /\ (load_failed' \ load_failed) \cap (Loading' \cup ToSet(told)) = {}
    /\ Loading \subseteq Loading' \cup ToSet(told) \cup load_failed'

LEMMA ResourcesFrameTells ==
    ASSUME LoadSeqs, LoadLineInv, ResourcesFrame
    PROVE  /\ \E told : TellsLoads(told) /\ LosesNone(told)
           /\ LoadLineInv'
<1> DEFINE seen == [kind \in Kinds |-> PolledOf(kind, IF kind = "bytes" THEN 2 ELSE 0)]
           taken == UNION {ToSet(seen[kind]) : kind \in Kinds}
           ids == [kind \in Kinds |-> Succeeded(seen[kind])]
           name == [id \in DOMAIN loads |-> loads[id].name]
           itself == [id \in DOMAIN loads |-> id]
           tmap == [n \in TextureNames |-> Applied(textures[n], n, ids["file"], ids["bytes"])]
           tups == texture_uploads \o ids["bytes"]
           texture == UploadNext(name, UploadNext(name, UploadsOf(tmap, tups)))
           cmap == [id \in Loads |->
                       IF id \in ToSet(ids["cubemap"]) THEN Texture(FALSE, TRUE, TRUE, id, 0)
                       ELSE cubemaps[id]]
           cups == cubemap_uploads \o ids["cubemap"]
           cubemap == UploadNext(itself, UploadsOf(cmap, cups))
           left_at == {i \in DOMAIN load_results : load_results[i] \notin taken}
<1>1. /\ load_results' = At(load_results, left_at)
      /\ pending_loads' = pending_loads \ {r.id : r \in taken}
      /\ load_failed' = load_failed \cup {r.id : r \in {r \in taken : ~r.ok}}
      /\ texture_uploads' = texture.stay \o texture.ahead
      /\ cubemap_uploads' = cubemap.stay \o cubemap.ahead
      /\ queue' = queue \o Ready(ids["file"] \o texture.ended \o cubemap.ended \o ids["audio"])
      /\ UNCHANGED <<next_id, registry, deferred, retired, stack, own, called, loads>>
  BY ZenonT(120) DEF ResourcesFrame
<1> DEFINE told == ids["file"] \o texture.ended \o cubemap.ended \o ids["audio"]
<1>2. ASSUME NEW kind \in Kinds
      PROVE  /\ LoadNames(ids[kind]) /\ Distinct(ids[kind])
             /\ ToSet(seen[kind]) \subseteq ToSet(load_results)
             /\ \A id \in ToSet(ids[kind]) : /\ loads[id].kind = kind /\ id \in pending_loads
                                             /\ id \in {r.id : r \in taken}
             /\ \A id \in ToSet(ids[kind]) : \E r \in taken : r.ok /\ r.id = id
             /\ \A r \in ToSet(seen[kind]) : r.ok => r.id \in ToSet(ids[kind])
  <2>1. ids[kind] = Succeeded(seen[kind])  OBVIOUS
  <2>2. /\ IsSeq(seen[kind]) /\ ToSet(seen[kind]) \subseteq ToSet(load_results)
        /\ DistinctIds(seen[kind]) /\ \A r \in ToSet(seen[kind]) : loads[r.id].kind = kind
    <3>1. seen[kind] = PolledOf(kind, IF kind = "bytes" THEN 2 ELSE 0)  OBVIOUS
    <3> HIDE DEF seen
    <3>2. (IF kind = "bytes" THEN 2 ELSE 0) \in Nat  OBVIOUS
    <3> QED  BY <3>1, <3>2, PolledOfIs, PolledOfPicks
  <2>3. ToSet(seen[kind]) \subseteq taken  OBVIOUS
  <2> HIDE DEF seen, ids, taken
  <2>4. LoadNames(ids[kind])  BY <2>1, <2>2, SucceededIs
  <2>5. /\ Distinct(ids[kind])
        /\ ToSet(ids[kind]) = {r.id : r \in {r \in ToSet(seen[kind]) : r.ok}}
    BY <2>1, <2>2, SucceededPicks
  <2>6. ASSUME NEW id \in ToSet(ids[kind])
        PROVE  /\ loads[id].kind = kind /\ id \in pending_loads /\ id \in {r.id : r \in taken}
               /\ \E r \in taken : r.ok /\ r.id = id
    <3>1. PICK r \in ToSet(seen[kind]) : id = r.id /\ r.ok  BY <2>5
    <3> QED  BY <2>2, <2>3, <3>1 DEF LoadLineInv
  <2>7. \A r \in ToSet(seen[kind]) : r.ok => r.id \in ToSet(ids[kind])  BY <2>5
  <2> QED  BY <2>2, <2>4, <2>5, <2>6, <2>7
<1>3. taken \subseteq ToSet(load_results) /\ \A r \in taken : \E kind \in Kinds : r \in ToSet(seen[kind])
  BY <1>2
<1>4. "file" \in Kinds /\ "bytes" \in Kinds /\ "cubemap" \in Kinds /\ "audio" \in Kinds
  BY DEF Kinds
<1> DEFINE gone == {r.id : r \in taken}
           bad == {r.id : r \in {r \in taken : ~r.ok}}
<1> HIDE DEF ids, seen, taken
<1>5. /\ IsSeq(tups) /\ ToSet(tups) = ToSet(texture_uploads) \cup ToSet(ids["bytes"])
      /\ Distinct(tups)
  <2>1. ToSet(texture_uploads) \cap ToSet(ids["bytes"]) = {}  BY <1>2, <1>4 DEF LoadLineInv
  <2>2. IsSeq(texture_uploads) /\ IsSeq(ids["bytes"]) /\ Distinct(ids["bytes"])
    BY <1>2, <1>4 DEF LoadSeqs, LoadNames
  <2> QED  BY <2>1, <2>2, ConcatIs, DistinctConcat DEF LoadLineInv
<1>6. /\ IsSeq(cups) /\ ToSet(cups) = ToSet(cubemap_uploads) \cup ToSet(ids["cubemap"])
      /\ Distinct(cups)
  <2>1. ToSet(cubemap_uploads) \cap ToSet(ids["cubemap"]) = {}  BY <1>2, <1>4 DEF LoadLineInv
  <2>2. IsSeq(cubemap_uploads) /\ IsSeq(ids["cubemap"]) /\ Distinct(ids["cubemap"])
    BY <1>2, <1>4 DEF LoadSeqs, LoadNames
  <2> QED  BY <2>1, <2>2, ConcatIs, DistinctConcat DEF LoadLineInv
<1> HIDE DEF tups, cups, tmap, cmap, name, itself
<1>7. Parted(texture, ToSet(tups)) /\ Parted(cubemap, ToSet(cups))
  BY <1>5, <1>6, UploadsParted, UploadNextParted
<1> HIDE DEF texture, cubemap, told
<1>8. \A id \in ToSet(tups) : loads[id].kind = "bytes" /\ id \in Loading
  BY <1>2, <1>4, <1>5 DEF LoadLineInv, Loading
<1>9. \A id \in ToSet(cups) : loads[id].kind = "cubemap" /\ id \in Loading
  BY <1>2, <1>4, <1>6 DEF LoadLineInv, Loading
<1>10. \A id \in ToSet(tups) \cup ToSet(cups) : id \in DOMAIN loads /\ id \notin pending_loads'
  <2>1. pending_loads' = pending_loads \ gone  BY <1>1
  <2>2. \A id \in ToSet(ids["bytes"]) \cup ToSet(ids["cubemap"]) : id \in gone /\ id \in DOMAIN loads
    BY <1>2, <1>4 DEF LoadNames
  <2>3. \A id \in ToSet(texture_uploads) \cup ToSet(cubemap_uploads) :
            id \notin pending_loads /\ id \in DOMAIN loads
    BY DEF LoadSeqs, LoadNames, LoadLineInv
  <2> QED  BY <1>5, <1>6, <2>1, <2>2, <2>3
<1>11. /\ IsSeq(texture_uploads') /\ Distinct(texture_uploads')
       /\ ToSet(texture_uploads') = ToSet(texture.stay) \cup ToSet(texture.ahead)
       /\ IsSeq(cubemap_uploads') /\ Distinct(cubemap_uploads')
       /\ ToSet(cubemap_uploads') = ToSet(cubemap.stay) \cup ToSet(cubemap.ahead)
  <2>1. /\ IsSeq(texture.stay \o texture.ahead) /\ Distinct(texture.stay \o texture.ahead)
        /\ ToSet(texture.stay \o texture.ahead) = ToSet(texture.stay) \cup ToSet(texture.ahead)
    BY <1>7, ConcatIs, DistinctConcat DEF Parted
  <2>2. /\ IsSeq(cubemap.stay \o cubemap.ahead) /\ Distinct(cubemap.stay \o cubemap.ahead)
        /\ ToSet(cubemap.stay \o cubemap.ahead) = ToSet(cubemap.stay) \cup ToSet(cubemap.ahead)
    BY <1>7, ConcatIs, DistinctConcat DEF Parted
  <2> QED  BY <1>1, <2>1, <2>2
<1>12. /\ DistinctIds(load_results') /\ \A r \in ToSet(load_results') : r.id \in pending_loads'
  <2>1. left_at \in SUBSET DOMAIN load_results /\ \A i \in left_at : load_results[i] \notin taken
    OBVIOUS
  <2> HIDE DEF left_at
  <2>2. /\ ToSet(At(load_results, left_at)) = {load_results[i] : i \in left_at}
        /\ DistinctIds(At(load_results, left_at))
    BY <2>1, AtIs, DistinctAt DEF LoadSeqs, LoadLineInv
  <2>3. ASSUME NEW i \in left_at
        PROVE  load_results[i].id \in pending_loads /\ load_results[i].id \notin gone
    <3>1. load_results[i] \in ToSet(load_results) /\ i \in DOMAIN load_results  BY <2>1 DEF ToSet
    <3>2. ASSUME NEW r \in taken, r.id = load_results[i].id PROVE FALSE
      <4>1. PICK j \in DOMAIN load_results : r = load_results[j]  BY <1>3, <3>2 DEF ToSet
      <4>2. i = j  BY <3>1, <3>2, <4>1 DEF LoadLineInv, DistinctIds
      <4> QED  BY <2>1, <3>2, <4>1, <4>2
    <3> QED  BY <3>1, <3>2 DEF LoadLineInv
  <2> QED  BY <1>1, <2>2, <2>3
<1>13. LoadLineInv'
  <2>1. \A id \in ToSet(texture_uploads') : loads[id].kind = "bytes" /\ id \notin pending_loads'
    BY <1>7, <1>8, <1>10, <1>11 DEF Parted
  <2>2. \A id \in ToSet(cubemap_uploads') : loads[id].kind = "cubemap" /\ id \notin pending_loads'
    BY <1>7, <1>9, <1>10, <1>11 DEF Parted
  <2>3. loads' = loads  BY <1>1
  <2> QED  BY <1>11, <1>12, <2>1, <2>2, <2>3 DEF LoadLineInv
<1>14. /\ Distinct(told)
       /\ ToSet(told) = ToSet(ids["file"]) \cup ToSet(texture.ended)
                          \cup ToSet(cubemap.ended) \cup ToSet(ids["audio"])
  <2>1. /\ IsSeq(ids["file"]) /\ IsSeq(ids["audio"]) /\ Distinct(ids["file"]) /\ Distinct(ids["audio"])
        /\ \A id \in ToSet(ids["file"]) : loads[id].kind = "file"
        /\ \A id \in ToSet(ids["audio"]) : loads[id].kind = "audio"
    BY <1>2, <1>4 DEF LoadNames
  <2>2. /\ IsSeq(texture.ended) /\ IsSeq(cubemap.ended)
        /\ Distinct(texture.ended) /\ Distinct(cubemap.ended)
        /\ \A id \in ToSet(texture.ended) : loads[id].kind = "bytes"
        /\ \A id \in ToSet(cubemap.ended) : loads[id].kind = "cubemap"
    BY <1>7, <1>8, <1>9 DEF Parted
  <2> QED  BY <2>1, <2>2, FourKindsDistinct DEF told
<1>15. LoadNames(told)
  <2>1. LoadNames(texture.ended) /\ LoadNames(cubemap.ended)  BY <1>7, <1>10 DEF Parted, LoadNames
  <2>2. LoadNames(ids["file"]) /\ LoadNames(ids["audio"])  BY <1>2, <1>4
  <2> QED  BY <2>1, <2>2, SequencesOfLoads DEF told
<1>16. ToSet(told) \subseteq Loading
  <2>1. ToSet(ids["file"]) \subseteq Loading /\ ToSet(ids["audio"]) \subseteq Loading
    BY <1>2, <1>4 DEF Loading
  <2>2. ToSet(texture.ended) \subseteq Loading /\ ToSet(cubemap.ended) \subseteq Loading
    BY <1>7, <1>8, <1>9 DEF Parted
  <2> QED  BY <1>14, <2>1, <2>2
<1>17. Loading' \subseteq Loading
  <2>1. ToSet(texture_uploads') \subseteq Loading /\ ToSet(cubemap_uploads') \subseteq Loading
    BY <1>7, <1>8, <1>9, <1>11 DEF Parted
  <2>2. pending_loads' \subseteq Loading  BY <1>1 DEF Loading
  <2>3. Loading' = pending_loads' \cup ToSet(texture_uploads') \cup ToSet(cubemap_uploads')
    BY DEF Loading
  <2> QED  BY <2>1, <2>2, <2>3
<1>18. ASSUME NEW id \in ToSet(told) PROVE id \notin Loading'
  <2>1. Loading' = pending_loads' \cup ToSet(texture_uploads') \cup ToSet(cubemap_uploads')
    BY DEF Loading
  <2>2. /\ \A x \in ToSet(texture_uploads') : loads[x].kind = "bytes"
        /\ \A x \in ToSet(cubemap_uploads') : loads[x].kind = "cubemap"
    BY <1>7, <1>8, <1>9, <1>11 DEF Parted
  <2>3. CASE id \in ToSet(ids["file"]) \cup ToSet(ids["audio"])
    <3>1. loads[id].kind \in {"file", "audio"} /\ id \in gone  BY <1>2, <1>4, <2>3
    <3>2. id \notin pending_loads'  BY <1>1, <3>1
    <3> QED  BY <2>1, <2>2, <3>1, <3>2
  <2>4. CASE id \in ToSet(texture.ended)
    <3>1. loads[id].kind = "bytes" /\ id \notin pending_loads'
      BY <1>7, <1>8, <1>10, <2>4 DEF Parted
    <3>2. id \notin ToSet(texture_uploads')  BY <1>7, <1>11, <2>4 DEF Parted
    <3> QED  BY <2>1, <2>2, <3>1, <3>2
  <2>5. CASE id \in ToSet(cubemap.ended)
    <3>1. loads[id].kind = "cubemap" /\ id \notin pending_loads'
      BY <1>7, <1>9, <1>10, <2>5 DEF Parted
    <3>2. id \notin ToSet(cubemap_uploads')  BY <1>7, <1>11, <2>5 DEF Parted
    <3> QED  BY <2>1, <2>2, <3>1, <3>2
  <2> QED  BY <1>14, <1>18, <2>3, <2>4, <2>5
<1>19. TellsLoads(told)
  <2>1. queue' = queue \o Ready(told)  BY <1>1 DEF told
  <2> QED  BY <2>1, <1>14, <1>15, <1>16, <1>17, <1>18 DEF TellsLoads
<1>20. \A id \in bad : id \in pending_loads /\ id \in gone
  BY <1>3 DEF LoadLineInv
<1>21. ASSUME NEW id \in bad, NEW kind \in Kinds PROVE id \notin ToSet(ids[kind])
  <2>1. SUFFICES ASSUME id \in ToSet(ids[kind]) PROVE FALSE  OBVIOUS
  <2>2. PICK r \in taken : r.ok /\ r.id = id  BY <1>2, <2>1
  <2>3. PICK x \in taken : ~x.ok /\ x.id = id  BY <1>21
  <2>4. PICK i, j \in DOMAIN load_results : r = load_results[i] /\ x = load_results[j]
    BY <1>3 DEF ToSet
  <2>5. i = j  BY <2>2, <2>3, <2>4 DEF LoadLineInv, DistinctIds
  <2> QED  BY <2>2, <2>3, <2>4, <2>5
<1>22. ASSUME NEW id \in bad PROVE id \notin ToSet(tups) /\ id \notin ToSet(cups)
  <2>1. id \notin ToSet(texture_uploads) /\ id \notin ToSet(cubemap_uploads)
    BY <1>20 DEF LoadLineInv
  <2> QED  BY <1>4, <1>5, <1>6, <1>21, <2>1
<1>23. ASSUME NEW id \in bad PROVE id \notin Loading' /\ id \notin ToSet(told)
  <2>1. /\ id \notin ToSet(texture.stay) /\ id \notin ToSet(texture.ahead)
        /\ id \notin ToSet(texture.ended)
        /\ id \notin ToSet(cubemap.stay) /\ id \notin ToSet(cubemap.ahead)
        /\ id \notin ToSet(cubemap.ended)
    BY <1>7, <1>22 DEF Parted
  <2>2. id \notin pending_loads'  BY <1>1, <1>20
  <2>3. id \notin Loading'  BY <1>11, <2>1, <2>2 DEF Loading
  <2> QED  BY <1>4, <1>14, <1>21, <2>1, <2>3
<1>24. ASSUME NEW id \in Loading PROVE id \in Loading' \cup ToSet(told) \cup load_failed'
  <2>1. Loading' = pending_loads' \cup ToSet(texture_uploads') \cup ToSet(cubemap_uploads')
    BY DEF Loading
  <2>2. CASE id \in ToSet(tups)  BY <1>7, <1>11, <1>14, <2>1, <2>2 DEF Parted
  <2>3. CASE id \in ToSet(cups)  BY <1>7, <1>11, <1>14, <2>1, <2>3 DEF Parted
  <2>4. CASE id \in pending_loads /\ id \notin ToSet(tups) /\ id \notin ToSet(cups)
    <3>1. CASE id \notin gone  BY <1>1, <2>1, <2>4, <3>1
    <3>2. CASE id \in gone
      <4>1. PICK r \in taken : r.id = id  BY <3>2
      <4>2. PICK kind \in Kinds : r \in ToSet(seen[kind])  BY <1>3
      <4>3. CASE r.ok
        <5>1. id \in ToSet(ids[kind])  BY <1>2, <4>1, <4>2, <4>3
        <5>2. kind \in {"file", "bytes", "cubemap", "audio"}  BY DEF Kinds
        <5>3. kind \notin {"bytes", "cubemap"}  BY <1>5, <1>6, <2>4, <5>1
        <5> QED  BY <1>14, <5>1, <5>2, <5>3
      <4>4. CASE ~r.ok  BY <1>1, <4>1, <4>4
      <4> QED  BY <4>3, <4>4
    <3> QED  BY <3>1, <3>2
  <2>5. id \in pending_loads \/ id \in ToSet(texture_uploads) \/ id \in ToSet(cubemap_uploads)
    BY DEF Loading
  <2> QED  BY <1>5, <1>6, <2>2, <2>3, <2>4, <2>5
<1>25. LosesNone(told)
  <2>1. load_failed' = load_failed \cup bad  BY <1>1
  <2>2. bad \subseteq Loading  BY <1>20 DEF Loading
  <2>3. bad \cap (Loading' \cup ToSet(told)) = {}  BY <1>23
  <2> HIDE DEF bad
  <2> QED  BY <1>24, <2>1, <2>2, <2>3 DEF LosesNone
<1> QED  BY <1>13, <1>19, <1>25

LEMMA TexturesOnlyIs ==
    ASSUME TexturesOnly, OwnInv, OwnInv', Ordered, next_id <= next_id', UNCHANGED own,
           DOMAIN loads \subseteq DOMAIN loads'
    PROVE  Lasting /\ SshTableInv' /\ UNCHANGED LsQueues /\ Tables' \subseteq Tables \cup LoadClaims'
<1>1. UNCHANGED lhVars /\ UNCHANGED ljVars /\ UNCHANGED lsVars /\ UNCHANGED lpVars
      /\ UNCHANGED lrVars
  BY DEF TexturesOnly
<1>2. UNCHANGED <<http_next, ssh_next, proc_next, phase>>
  BY DEF TexturesOnly, hcVars, ljVars, lsVars, lpVars
<1>3. Lasting
  BY <1>2, LastingIs
<1>4. Tables' \subseteq Tables \cup LoadClaims'
  BY <1>1, ClaimsFrame DEF Tables
<1> QED  BY <1>1, <1>3, <1>4, SshTableStays

\* The loads and what waits stay.
LEMMA LoadsRest ==
    ASSUME OwnInv, OwnInv', Ordered, ClaimInv, LoadDue, TexturesOnly, LoadLineInv', LoadSeqs,
           UNCHANGED <<next_id, queue, stack, own, called, loads>>, Loading' \subseteq Loading
    PROVE  Steps({"load"}) /\ LoadOk'
<1>1. next_id <= next_id'
  BY DEF OwnInv
<1>2. Lasting /\ SshTableInv' /\ UNCHANGED LsQueues /\ Tables' \subseteq Tables \cup LoadClaims'
  BY <1>1, TexturesOnlyIs
<1>3. Orders({}) /\ Telling({}, {})
  BY <1>2, StayingOrders DEF Telling
<1>4. Moving({}, {})
  BY <1>2, <1>3 DEF Moving, Tables, LoadClaims
<1>5. Steps({}) /\ Steps({"load"})
  BY <1>4, MovingSteps
<1>6. Loading \subseteq DOMAIN loads
  BY DEF Loading, LoadSeqs, LoadNames
<1>7. ASSUME NEW id \in Loading', loads'[id].cb # NoCallback PROVE UntoldIn(AllItems', loads'[id].cb)
  <2>1. id \in Loading /\ id \in DOMAIN loads /\ loads'[id] = loads[id] /\ loads[id].cb # NoCallback
    BY <1>6, <1>7
  <2>2. Claim(loads[id].cb, "load", id) \in Tables  BY <2>1 DEF Tables, LoadClaims
  <2>3. Stays(loads[id].cb) /\ UntoldIn(AllItems, loads[id].cb)
    BY <1>5, <2>1, <2>2 DEF Steps, Sparing, LoadDue, Untold
  <2> QED  BY <2>1, <2>3 DEF Stays
<1>8. LoadDue'
  BY <1>7 DEF LoadDue, Untold
<1> QED  BY <1>5, <1>8 DEF LoadOk

LEMMA LoadAsyncSteps ==
    ASSUME OwnInv, OwnInv', FrameInv, Ordered, ClaimInv, LoadOk, LoadSeqs, TexturesOnly,
           NEW kind, NEW name, NEW with \in BOOLEAN, LoadAsync(kind, name, with)
    PROVE  Steps({"load"}) /\ LoadOk' /\ UNCHANGED own
<1> DEFINE id == Len(loads) + 1
           cb == IF with THEN next_id ELSE NoCallback
           load == [kind |-> kind, name |-> name, cb |-> cb]
<1>1. /\ Reregister({}, IF with THEN 1 ELSE 0)
      /\ loads' = Append(loads, load)
      /\ pending_loads' = pending_loads \cup {id}
      /\ UNCHANGED <<queue, stack, own, called, load_results, texture_uploads, cubemap_uploads>>
  BY DEF LoadAsync
<1>2. load.cb = cb
  OBVIOUS
<1> HIDE DEF load
<1>3. /\ IsSeq(loads') /\ Len(loads') = Len(loads) + 1 /\ loads'[Len(loads) + 1] = load
      /\ \A i \in 1..Len(loads) : loads'[i] = loads[i]
      /\ Len(loads) \in Nat /\ DOMAIN loads = 1..Len(loads)
  <2>1. IsSeq(loads)  BY DEF LoadSeqs
  <2>2. /\ IsSeq(Append(loads, load)) /\ Len(Append(loads, load)) = Len(loads) + 1
        /\ Append(loads, load)[Len(loads) + 1] = load
        /\ \A i \in 1..Len(loads) : Append(loads, load)[i] = loads[i]
    BY <2>1, AppendIs
  <2> QED  BY <1>1, <2>1, <2>2, SeqIs
<1>4. DOMAIN loads' = 1..Len(loads')
  BY <1>3, SeqIs
<1>5. PICK op : op = id
  OBVIOUS
<1>6. /\ DOMAIN loads' = DOMAIN loads \cup {op} /\ op \notin DOMAIN loads /\ loads'[op].cb = cb
      /\ \A i \in DOMAIN loads : loads'[i] = loads[i]
  BY <1>2, <1>3, <1>4, <1>5
<1>7. Loading \subseteq DOMAIN loads /\ Loading' = Loading \cup {op}
  BY <1>1, <1>5 DEF Loading, LoadSeqs, LoadNames
<1>8. LoadLineInv'
  <2>1. \A i \in ToSet(texture_uploads) \cup ToSet(cubemap_uploads) : i \in DOMAIN loads
    BY DEF LoadSeqs, LoadNames
  <2>2. \A i \in ToSet(texture_uploads) \cup ToSet(cubemap_uploads) : i # op /\ loads'[i] = loads[i]
    BY <1>6, <2>1
  <2>3. /\ \A i \in ToSet(texture_uploads) : loads'[i].kind = "bytes" /\ i \notin pending_loads'
        /\ \A i \in ToSet(cubemap_uploads) : loads'[i].kind = "cubemap" /\ i \notin pending_loads'
    BY <1>1, <1>5, <2>2 DEF LoadOk, LoadLineInv
  <2>4. \A r \in ToSet(load_results) : r.id \in pending_loads'  BY <1>1 DEF LoadOk, LoadLineInv
  <2>5. UNCHANGED <<load_results, texture_uploads, cubemap_uploads>>  BY <1>1
  <2> QED  BY <2>3, <2>4, <2>5 DEF LoadOk, LoadLineInv
<1>9. next_id \in Nat \ {0} /\ NoCallback = 0
  BY DEF OwnInv, NoCallback
<1> HIDE DEF id, cb
<1>10. CASE with
  <2>1. Reregister({}, 1) /\ cb = next_id  BY <1>1, <1>10 DEF cb
  <2>2. next_id < next_id' /\ next_id <= next_id'  BY <2>1, ReregisterGives
  <2>3. Lasting /\ SshTableInv' /\ UNCHANGED LsQueues /\ Tables' \subseteq Tables \cup LoadClaims'
    BY <1>1, <1>6, <2>2, TexturesOnlyIs
  <2>4. Orders({})  BY <1>1, <2>3, StayingOrders
  <2>5. LoadClaims' \subseteq LoadClaims \cup {Claim(next_id, "load", op)}
    BY <1>6, <2>1 DEF LoadClaims
  <2>6. Tables' \subseteq Tables \cup {Claim(next_id, "load", op)}  BY <2>3, <2>5 DEF Tables
  <2>7. Exists("load", op)' /\ ~Exists("load", op)  BY <1>6 DEF Exists
  <2>8. Giving("load", op)  BY <2>2, <2>3, <2>4, <2>6, <2>7 DEF Giving
  <2>9. Steps({"load"}) /\ Sparing({}) /\ UntoldIn(AllItems', next_id)  BY <1>9, <2>8, GivingSteps
  <2>10. ASSUME NEW j \in Loading', loads'[j].cb # NoCallback
         PROVE  UntoldIn(AllItems', loads'[j].cb)
    <3>1. CASE j = op  BY <1>6, <2>1, <2>9, <3>1
    <3>2. CASE j # op
      <4>1. j \in Loading /\ j \in DOMAIN loads /\ loads'[j] = loads[j] /\ loads[j].cb # NoCallback
        BY <1>6, <1>7, <2>10, <3>2
      <4>2. Claim(loads[j].cb, "load", j) \in Tables  BY <4>1 DEF Tables, LoadClaims
      <4>3. Stays(loads[j].cb) /\ UntoldIn(AllItems, loads[j].cb)
        BY <2>9, <4>1, <4>2 DEF Sparing, LoadOk, LoadDue, Untold
      <4> QED  BY <4>1, <4>3 DEF Stays
    <3> QED  BY <3>1, <3>2
  <2>11. LoadDue'  BY <2>10 DEF LoadDue, Untold
  <2> QED  BY <1>1, <1>8, <2>9, <2>11 DEF LoadOk
<1>11. CASE ~with
  <2>1. Reregister({}, 0) /\ cb = NoCallback  BY <1>1, <1>11 DEF cb
  <2>2. next_id <= next_id'  BY <2>1, ReregisterGives
  <2>3. Lasting /\ SshTableInv' /\ UNCHANGED LsQueues /\ Tables' \subseteq Tables \cup LoadClaims'
    BY <1>1, <1>6, <2>2, TexturesOnlyIs
  <2>4. Orders({}) /\ Telling({}, {})  BY <1>1, <2>3, StayingOrders DEF Telling
  <2>5. LoadClaims' \subseteq LoadClaims  BY <1>6, <2>1 DEF LoadClaims
  <2>6. Moving({}, {})  BY <2>3, <2>4, <2>5 DEF Moving, Tables
  <2>7. Steps({}) /\ Steps({"load"})  BY <2>6, MovingSteps
  <2>8. ASSUME NEW j \in Loading', loads'[j].cb # NoCallback
        PROVE  UntoldIn(AllItems', loads'[j].cb)
    <3>1. j \in Loading /\ j \in DOMAIN loads /\ loads'[j] = loads[j] /\ loads[j].cb # NoCallback
      BY <1>6, <1>7, <2>1, <2>8
    <3>2. Claim(loads[j].cb, "load", j) \in Tables  BY <3>1 DEF Tables, LoadClaims
    <3>3. Stays(loads[j].cb) /\ UntoldIn(AllItems, loads[j].cb)
      BY <2>7, <3>1, <3>2 DEF Steps, Sparing, LoadOk, LoadDue, Untold
    <3> QED  BY <3>1, <3>3 DEF Stays
  <2>9. LoadDue'  BY <2>8 DEF LoadDue, Untold
  <2> QED  BY <1>1, <1>8, <2>7, <2>9 DEF LoadOk
<1> QED  BY <1>10, <1>11

LEMMA LoadFinishLine ==
    ASSUME LoadLineInv, LoadSeqs, NEW id, NEW ok, LoadFinish(id, ok)
    PROVE  LoadLineInv' /\ Loading' = Loading
<1> DEFINE r == [id |-> id, ok |-> ok]
<1>1. /\ UNCHANGED <<cbVars, loads, pending_loads, texture_uploads, cubemap_uploads>>
      /\ load_results' = Append(load_results, r) /\ id \in pending_loads /\ r.id = id
      /\ id \notin IdsOf(load_results)
  BY DEF LoadFinish, IdsOf
<1> HIDE DEF r
<1>2. /\ DistinctIds(load_results') /\ ToSet(load_results') = ToSet(load_results) \cup {r}
  <2>1. /\ DistinctIds(Append(load_results, r))
        /\ ToSet(Append(load_results, r)) = ToSet(load_results) \cup {r}
    BY <1>1, AppendIs, DistinctAppend DEF LoadLineInv, LoadSeqs
  <2> QED  BY <1>1, <2>1
<1>3. \A x \in ToSet(load_results') : x.id \in pending_loads
  BY <1>1, <1>2 DEF LoadLineInv
<1> QED  BY <1>1, <1>2, <1>3 DEF LoadLineInv, Loading

LEMMA ResourcesFrameSteps ==
    ASSUME OwnInv, OwnInv', FrameInv, Ordered, ClaimInv, LoadOk, LoadSeqs, TexturesOnly,
           ResourcesFrame
    PROVE  Steps({"load"}) /\ LoadOk' /\ UNCHANGED own
<1>1. /\ UNCHANGED <<next_id, registry, deferred, retired, stack, own, called, loads>>
  BY ResourcesFrameIs
<1>2. (\E told : TellsLoads(told) /\ LosesNone(told)) /\ LoadLineInv'
  BY ResourcesFrameTells DEF LoadOk
<1>3. PICK told : TellsLoads(told)
  BY <1>2
<1> DEFINE items == Ready(told)
<1>4. /\ LoadNames(told) /\ Distinct(told) /\ ToSet(told) \subseteq Loading
      /\ queue' = queue \o items
      /\ Loading' \subseteq Loading /\ Loading' \cap ToSet(told) = {}
  BY <1>3 DEF TellsLoads
<1>5. /\ Answers(items, {"load"}) /\ \A e \in ToSet(items) : e.ev.id \in ToSet(told)
  BY <1>4, ReadyAnswers DEF LoadOk
<1> HIDE DEF items
<1>6. Timely(items) /\ Telling(ToSet(items), {"load"})
  BY <1>5, AnswersAreTimely DEF Answers
<1>7. next_id <= next_id'
  BY <1>1 DEF OwnInv
<1>8. Lasting /\ SshTableInv' /\ UNCHANGED LsQueues /\ Tables' \subseteq Tables \cup LoadClaims'
  BY <1>1, <1>7, TexturesOnlyIs
<1>9. Orders(ToSet(items))
  BY <1>1, <1>4, <1>6, <1>8, PostingOrders
<1>10. Moving(ToSet(items), {"load"})
  BY <1>1, <1>6, <1>8, <1>9 DEF Moving, Tables, LoadClaims
<1>11. Steps({"load"})
  BY <1>10, MovingSteps
<1>12. Loading \subseteq DOMAIN loads
  BY DEF Loading, LoadSeqs, LoadNames
<1>13. ASSUME NEW id \in Loading', loads'[id].cb # NoCallback
       PROVE  UntoldIn(AllItems', loads'[id].cb)
  <2>1. /\ id \in Loading /\ id \in DOMAIN loads /\ loads'[id] = loads[id]
        /\ loads[id].cb # NoCallback /\ id \notin ToSet(told)
    BY <1>1, <1>4, <1>12, <1>13
  <2>2. Claim(loads[id].cb, "load", id) \in Tables  BY <2>1 DEF Tables, LoadClaims
  <2>3. \A e \in ToSet(items) : SourceOf(e.ev) = "load" => e.ev.id # id  BY <1>5, <2>1
  <2>4. Stays(loads[id].cb)  BY <1>6, <1>9, <2>2, <2>3, OtherSourceStays
  <2>5. UntoldIn(AllItems, loads[id].cb)  BY <2>1 DEF LoadOk, LoadDue, Untold
  <2> QED  BY <2>1, <2>4, <2>5 DEF Stays
<1>14. LoadDue'
  BY <1>13 DEF LoadDue, Untold
<1> QED  BY <1>1, <1>2, <1>11, <1>14 DEF LoadOk

LEMMA LoadStep ==
    ASSUME OwnInv, OwnInv', FrameInv, Ordered, ClaimInv, LoadOk, LoadSeqs, TexturesOnly,
           \/ \E kind, name : \E with \in BOOLEAN : LoadAsync(kind, name, with)
           \/ \E x : ChangeTexture(x) \/ ChangeCubemap(x)
           \/ \E id \in Loads, ok \in BOOLEAN : LoadFinish(id, ok)
           \/ ResourcesFrame
    PROVE  Steps({"load"}) /\ LoadOk' /\ UNCHANGED own
<1>1. ASSUME NEW kind, NEW name, NEW with \in BOOLEAN, LoadAsync(kind, name, with)
      PROVE  Steps({"load"}) /\ LoadOk' /\ UNCHANGED own
  BY <1>1, LoadAsyncSteps
<1>2. CASE \E x : ChangeTexture(x) \/ ChangeCubemap(x)
  <2>1. UNCHANGED <<cbVars, loads, pending_loads, load_results, texture_uploads, cubemap_uploads>>
    BY <1>2 DEF ChangeTexture, ChangeCubemap
  <2>2. LoadLineInv' /\ Loading' \subseteq Loading  BY <2>1 DEF LoadOk, LoadLineInv, Loading
  <2>3. UNCHANGED <<next_id, queue, stack, own, called, loads>>  BY <2>1 DEF cbVars
  <2> QED  BY <2>2, <2>3, LoadsRest DEF LoadOk
<1>3. ASSUME NEW id \in Loads, NEW ok \in BOOLEAN, LoadFinish(id, ok)
      PROVE  Steps({"load"}) /\ LoadOk' /\ UNCHANGED own
  <2>1. LoadLineInv' /\ Loading' \subseteq Loading  BY <1>3, LoadFinishLine DEF LoadOk
  <2>2. UNCHANGED <<next_id, queue, stack, own, called, loads>>  BY <1>3 DEF LoadFinish, cbVars
  <2> QED  BY <2>1, <2>2, LoadsRest DEF LoadOk
<1>4. CASE ResourcesFrame
  BY <1>4, ResourcesFrameSteps
<1> QED  BY <1>1, <1>2, <1>3, <1>4

-----------------------------------------------------------------------------
(* The steps of the runtime together.                                      *)

\* What is due, and in which order, in every module.
DuesInv ==
    /\ Ordered /\ ClaimInv
    /\ ScriptOk /\ RealtimeDue /\ HttpOk /\ JobOk /\ ProcessDue /\ LoadOk

LEMMA ShutdownSteps ==
    ASSUME OwnInv, OwnInv', DuesInv, LoadSeqs, EngineShutdown
    PROVE  DuesInv'
<1>1. /\ stack = <<>> /\ Spend("shutdown")
      /\ job_callbacks' = <<>> /\ buffered_results' = <<>>
      /\ processes' = <<>>
      /\ callback_by_operation' = <<>> /\ buffered_events' = <<>> /\ ssh_queue' = <<>>
      /\ queue' = <<>> /\ UNCHANGED <<next_id, stack, own, called>>
      /\ pending_loads' = {} /\ load_results' = <<>>
      /\ texture_uploads' = <<>> /\ cubemap_uploads' = <<>>
      /\ UNCHANGED <<hcVars, lhVars, phase, job_results, ssh_next, emitted, op_callback,
                     proc_next, lrVars, loads>>
  BY DEF EngineShutdown, JobsClear, ProcessDrop, SshDrop, CallbacksShutdown, ResourcesClear
<1>2. DOMAIN <<>> = {} /\ ToSet(<<>>) = {} /\ IsSeq(<<>>)
  BY EmptyIsSeq DEF ToSet
<1>3. Ordered /\ ClaimInv /\ ScriptOk /\ RealtimeDue /\ HttpOk /\ JobOk /\ ProcessDue /\ LoadOk
  BY DEF DuesInv
<1>4. Orders({})
  BY <1>1, <1>3, ShutdownOrders
<1>5. SshTableInv'
  BY <1>1, <1>2, <1>3 DEF Ordered, SshTableInv
<1>6. Lasting
  <2>1. UNCHANGED <<http_next, ssh_next, proc_next, phase, loads>> /\ next_id <= next_id'
    BY <1>1 DEF hcVars, OwnInv
  <2> QED  BY <2>1, LastingIs
<1>7. Tables' \subseteq Tables
  <2>1. /\ ScriptClaims' = ScriptClaims /\ RealtimeClaims' = RealtimeClaims
        /\ HttpClaims' = HttpClaims /\ StreamClaims' = StreamClaims
    BY <1>1, ClaimsFrame
  <2>2. JobClaims' = {} /\ SshClaims' = SshClaims /\ ProcessClaims' = {} /\ LoadClaims' = LoadClaims
    BY <1>1, <1>2 DEF JobClaims, SshClaims, ProcessClaims, LoadClaims, WithCallback
  <2> QED  BY <2>1, <2>2 DEF Tables
<1>8. Moving({}, {})
  BY <1>4, <1>5, <1>6, <1>7 DEF Moving, Telling
<1>9. Steps({})
  BY <1>3, <1>8, MovingSteps
<1>10. Ordered' /\ ClaimInv' /\ Sparing({})
  BY <1>9 DEF Steps
<1>11. ScriptOk' /\ RealtimeDue' /\ HttpOk'
  BY <1>1, <1>3, <1>10, ScriptStays, RealtimeStays, HttpStays
<1>12. JobOk'
  BY <1>1, <1>2, <1>3 DEF JobOk, JobDue, JobLineInv
<1>13. ProcessDue'
  BY <1>1, <1>2 DEF ProcessDue, WithCallback
<1>14. LoadOk'
  BY <1>1, <1>2 DEF LoadOk, LoadDue, LoadLineInv, Loading, Distinct, DistinctIds
<1> QED  BY <1>10, <1>11, <1>12, <1>13, <1>14 DEF DuesInv

\* What a step about the sources of one module leaves to show.
LEMMA OthersStay ==
    ASSUME DuesInv, LoadSeqs, NEW S, Steps(S), UNCHANGED left \/ \E sort : Spend(sort),
           "script" \in S => ScriptOk',
           "script" \notin S => UNCHANGED own,
           "realtime" \in S => RealtimeDue',
           "realtime" \notin S => UNCHANGED lrVars,
           "http" \in S => HttpOk' /\ "stream" \in S,
           "http" \notin S => UNCHANGED <<hcVars, lhVars>> /\ "stream" \notin S,
           "job" \in S => JobOk',
           "job" \notin S => UNCHANGED ljVars,
           "process" \in S => ProcessDue',
           "process" \notin S => UNCHANGED lpVars,
           "load" \in S => LoadOk',
           "load" \notin S => UNCHANGED ltVars
    PROVE  DuesInv'
<1>1. Ordered /\ ClaimInv /\ ScriptOk /\ RealtimeDue /\ HttpOk /\ JobOk /\ ProcessDue /\ LoadOk
  BY DEF DuesInv
<1>2. Ordered' /\ ClaimInv' /\ Sparing(S)
  BY DEF Steps
<1>3. ScriptOk'
  BY <1>1, <1>2, ScriptStays
<1>4. RealtimeDue'
  BY <1>1, <1>2, RealtimeStays
<1>5. HttpOk'
  BY <1>1, <1>2, HttpStays
<1>6. JobOk'
  <2>1. CASE "job" \notin S
    <3>1. UNCHANGED <<phase, job_results, job_callbacks>>  BY <2>1 DEF ljVars
    <3> QED  BY <1>1, <1>2, <2>1, <3>1, JobStays
  <2> QED  BY <2>1
<1>7. ProcessDue'
  <2>1. CASE "process" \notin S
    <3>1. UNCHANGED processes  BY <2>1 DEF lpVars
    <3> QED  BY <1>1, <1>2, <2>1, <3>1, ProcessStays
  <2> QED  BY <2>1
<1>8. LoadOk'
  <2>1. CASE "load" \notin S
    <3>1. UNCHANGED <<loads, pending_loads, load_results, texture_uploads, cubemap_uploads>>
      BY <2>1 DEF ltVars
    <3> QED  BY <1>1, <1>2, <2>1, <3>1, LoadStays
  <2> QED  BY <2>1
<1> QED  BY <1>2, <1>3, <1>4, <1>5, <1>6, <1>7, <1>8 DEF DuesInv

\* The same for the step of each module.
LEMMA ModuleSteps ==
    ASSUME DuesInv, LoadSeqs, UNCHANGED left \/ \E sort : Spend(sort)
    PROVE  /\ CallbacksOnly /\ Steps({"script"}) /\ ScriptOk' => DuesInv'
           /\ RealtimeOnly /\ Steps({"realtime"}) /\ RealtimeDue' /\ UNCHANGED own => DuesInv'
           /\ HttpOnly /\ Steps({"http", "stream"}) /\ HttpOk' /\ UNCHANGED own => DuesInv'
           /\ JobsOnly /\ Steps({"job"}) /\ JobOk' /\ UNCHANGED own => DuesInv'
           /\ SshOnly /\ Steps({"ssh"}) /\ UNCHANGED own => DuesInv'
           /\ ProcessOnly /\ Steps({"process"}) /\ ProcessDue' /\ UNCHANGED own => DuesInv'
           /\ TexturesOnly /\ Steps({"load"}) /\ LoadOk' /\ UNCHANGED own => DuesInv'
<1>1. ASSUME CallbacksOnly, Steps({"script"}), ScriptOk' PROVE DuesInv'
  <2>1. /\ UNCHANGED lrVars /\ UNCHANGED <<hcVars, lhVars>> /\ UNCHANGED ljVars
        /\ UNCHANGED lpVars /\ UNCHANGED ltVars
    BY <1>1 DEF CallbacksOnly
  <2> QED  BY <1>1, <2>1, OthersStay
<1>2. ASSUME RealtimeOnly, Steps({"realtime"}), RealtimeDue', UNCHANGED own PROVE DuesInv'
  <2>1. /\ UNCHANGED <<hcVars, lhVars>> /\ UNCHANGED ljVars
        /\ UNCHANGED lpVars /\ UNCHANGED ltVars
    BY <1>2 DEF RealtimeOnly
  <2> QED  BY <1>2, <2>1, OthersStay
<1>3. ASSUME HttpOnly, Steps({"http", "stream"}), HttpOk', UNCHANGED own PROVE DuesInv'
  <2>1. /\ UNCHANGED lrVars /\ UNCHANGED ljVars
        /\ UNCHANGED lpVars /\ UNCHANGED ltVars
    BY <1>3 DEF HttpOnly
  <2> QED  BY <1>3, <2>1, OthersStay
<1>4. ASSUME JobsOnly, Steps({"job"}), JobOk', UNCHANGED own PROVE DuesInv'
  <2>1. /\ UNCHANGED lrVars /\ UNCHANGED <<hcVars, lhVars>>
        /\ UNCHANGED lpVars /\ UNCHANGED ltVars
    BY <1>4 DEF JobsOnly
  <2> QED  BY <1>4, <2>1, OthersStay
<1>5. ASSUME SshOnly, Steps({"ssh"}), UNCHANGED own PROVE DuesInv'
  <2>1. /\ UNCHANGED lrVars /\ UNCHANGED <<hcVars, lhVars>> /\ UNCHANGED ljVars
        /\ UNCHANGED lpVars /\ UNCHANGED ltVars
    BY <1>5 DEF SshOnly
  <2> QED  BY <1>5, <2>1, OthersStay
<1>6. ASSUME ProcessOnly, Steps({"process"}), ProcessDue', UNCHANGED own PROVE DuesInv'
  <2>1. /\ UNCHANGED lrVars /\ UNCHANGED <<hcVars, lhVars>> /\ UNCHANGED ljVars
        /\ UNCHANGED ltVars
    BY <1>6 DEF ProcessOnly
  <2> QED  BY <1>6, <2>1, OthersStay
<1>7. ASSUME TexturesOnly, Steps({"load"}), LoadOk', UNCHANGED own PROVE DuesInv'
  <2>1. /\ UNCHANGED lrVars /\ UNCHANGED <<hcVars, lhVars>> /\ UNCHANGED ljVars
        /\ UNCHANGED lpVars
    BY <1>7 DEF TexturesOnly
  <2> QED  BY <1>7, <2>1, OthersStay
<1> QED  BY <1>1, <1>2, <1>3, <1>4, <1>5, <1>6, <1>7

LEMMA RealtimeKeepsOwn ==
    ASSUME \/ \E name : RtSet(name) \/ RtTell(name)
           \/ RtStart \/ RtPost \/ RtExit \/ RtJoined \/ RtDrain \/ RtClosed
           \/ \E dispatch : RtClose(dispatch)
    PROVE  UNCHANGED own
<1>1. \A cb, ev : Post(cb, ev) => UNCHANGED own
  BY DEF Post
<1>2. CASE (\E name : RtSet(name) \/ RtTell(name)) \/ RtStart \/ RtExit
  BY <1>2 DEF RtSet, RtTell, RtStart, RtExit, cbVars
<1>3. CASE RtPost
  BY <1>1, <1>3 DEF RtPost
<1>4. CASE RtJoined
  BY <1>1, <1>4 DEF RtJoined, cbVars
<1>5. CASE RtDrain \/ RtClosed \/ \E dispatch : RtClose(dispatch)
  BY <1>5 DEF RtDrain, RtClosed, RtClose
<1> QED  BY <1>2, <1>3, <1>4, <1>5

LEMMA ScriptSteps ==
    ASSUME RealtimeInv, RealtimeInv', DuesInv, Script
    PROVE  DuesInv'
<1>1. /\ OwnInv /\ OwnInv' /\ FrameInv /\ HttpSeqs /\ HttpInv /\ HttpInv' /\ ProcInv
      /\ IsSeq(job_results) /\ LoadSeqs
  BY DEF RealtimeInv, HandleInv, ServiceInv
<1>2. Ordered /\ ClaimInv /\ ScriptOk /\ RealtimeDue /\ HttpOk /\ JobOk /\ ProcessDue /\ LoadOk
  BY DEF DuesInv
<1>3. \E sort : Spend(sort)
  BY DEF Script
<1>4. CASE /\ CallbacksOnly
           /\ \/ Spend("register") /\ ScriptRegister
              \/ \E cb \in own : ScriptUnregister(cb)
              \/ /\ Spend("enqueue")
                 /\ \E cb \in own : ScriptEnqueue(cb, Event("script", 0, "call", 9 - left["enqueue"]))
  <2>1. Steps({"script"}) /\ ScriptOk'  BY <1>1, <1>2, <1>3, <1>4, CallbacksStep
  <2> QED  BY <1>1, <1>3, <1>4, <2>1, ModuleSteps
<1>5. CASE /\ HttpOnly
           /\ \/ \E kind \in {"stream", "callback", "plain"} : HttpRequest(kind)
              \/ \E id \in 1..(http_next - 1) : HttpCancelCall(id)
              \/ \E max \in {0, 1} : HttpPollCall(max)
  <2>1. Steps({"http", "stream"}) /\ HttpOk' /\ UNCHANGED own  BY <1>1, <1>2, <1>5, HttpModuleStep
  <2> QED  BY <1>1, <1>3, <1>5, <2>1, ModuleSteps
<1>6. CASE /\ JobsOnly
           /\ \/ \E with \in BOOLEAN : JobSubmit(with)
              \/ \E max \in {0, 1} : JobsPollCall(max)
  <2>1. Steps({"job"}) /\ JobOk' /\ UNCHANGED own  BY <1>1, <1>2, <1>6, JobStep
  <2> QED  BY <1>1, <1>3, <1>6, <2>1, ModuleSteps
<1>7. CASE /\ SshOnly
           /\ \/ \E with \in BOOLEAN : SshStart(with)
              \/ \E max \in {0, 1} : SshPollCall(max)
  <2>1. Steps({"ssh"}) /\ UNCHANGED own  BY <1>1, <1>2, <1>7, SshStep
  <2> QED  BY <1>1, <1>3, <1>7, <2>1, ModuleSteps
<1>8. CASE ProcessOnly /\ \E with, timed \in BOOLEAN : ProcessSpawn(with, timed)
  <2>1. Steps({"process"}) /\ ProcessDue' /\ UNCHANGED own  BY <1>1, <1>2, <1>8, ProcessStep
  <2> QED  BY <1>1, <1>3, <1>8, <2>1, ModuleSteps
<1>9. CASE /\ RealtimeOnly
           /\ \/ \E name : RtSet(name)
              \/ RtStart
              \/ \E dispatch : RtClose(dispatch)
  <2>1. Steps({"realtime"}) /\ RealtimeDue' /\ UNCHANGED own
    BY <1>1, <1>2, <1>9, RealtimeStep, RealtimeKeepsOwn
  <2> QED  BY <1>1, <1>3, <1>9, <2>1, ModuleSteps
<1>10. CASE /\ TexturesOnly
            /\ \/ \E kind, name : \E with \in BOOLEAN : LoadAsync(kind, name, with)
               \/ \E x : ChangeTexture(x) \/ ChangeCubemap(x)
  <2>1. Steps({"load"}) /\ LoadOk' /\ UNCHANGED own  BY <1>1, <1>2, <1>10, LoadStep
  <2> QED  BY <1>1, <1>3, <1>10, <2>1, ModuleSteps
<1> QED  BY <1>4, <1>5, <1>6, <1>7, <1>8, <1>9, <1>10 DEF Script

LEMMA ScriptWithChildrenSteps ==
    ASSUME RealtimeInv, RealtimeInv', DuesInv, ScriptWithChildren
    PROVE  DuesInv'
<1>1. OwnInv /\ OwnInv' /\ FrameInv /\ ProcInv /\ LoadSeqs
  BY DEF RealtimeInv, HandleInv, ServiceInv
<1>2. Ordered /\ ClaimInv /\ ProcessDue
  BY DEF DuesInv
<1>3. /\ ProcessOnly /\ \E sort : Spend(sort)
      /\ \/ \E late, id : ProcessRead(id, late) \/ ProcessWait(id, late)
         \/ \E max, late, gone : ProcessPollCall(max, late, gone)
  BY DEF ScriptWithChildren
<1>4. Steps({"process"}) /\ ProcessDue' /\ UNCHANGED own
  BY <1>1, <1>2, <1>3, ProcessStep
<1> QED  BY <1>1, <1>3, <1>4, ModuleSteps

LEMMA FramesSteps ==
    ASSUME RealtimeInv, RealtimeInv', DuesInv, Frames
    PROVE  DuesInv'
<1>1. /\ OwnInv /\ OwnInv' /\ FrameInv /\ HttpSeqs /\ HttpInv /\ HttpInv' /\ ProcInv
      /\ IsSeq(job_results) /\ LoadSeqs
  BY DEF RealtimeInv, HandleInv, ServiceInv
<1>2. Ordered /\ ClaimInv /\ ScriptOk /\ RealtimeDue /\ HttpOk /\ JobOk /\ ProcessDue /\ LoadOk
  BY DEF DuesInv
<1>3. LuaRuns /\ (UNCHANGED left \/ \E sort : Spend(sort))
  BY DEF Frames, Dispatching
<1>4. CASE HttpDispatch /\ HttpOnly
  <2>1. Steps({"http", "stream"}) /\ HttpOk' /\ UNCHANGED own
    BY <1>1, <1>2, <1>3, <1>4, HttpModuleStep
  <2> QED  BY <1>1, <1>3, <1>4, <2>1, ModuleSteps
<1>5. CASE JobsDispatch /\ JobsOnly
  <2>1. Steps({"job"}) /\ JobOk' /\ UNCHANGED own  BY <1>1, <1>2, <1>3, <1>5, JobStep
  <2> QED  BY <1>1, <1>3, <1>5, <2>1, ModuleSteps
<1>6. CASE SshDispatch /\ SshOnly
  <2>1. Steps({"ssh"}) /\ UNCHANGED own  BY <1>1, <1>2, <1>3, <1>6, SshStep
  <2> QED  BY <1>1, <1>3, <1>6, <2>1, ModuleSteps
<1>7. CASE /\ ProcessOnly
           /\ \E late : \E order \in UNION {[1..n -> Processes] : n \in 0..MaxProcesses} :
                 ProcessDispatch(late, order)
  <2>1. Steps({"process"}) /\ ProcessDue' /\ UNCHANGED own  BY <1>1, <1>2, <1>7, ProcessStep
  <2> QED  BY <1>1, <1>3, <1>7, <2>1, ModuleSteps
<1>8. CASE (\E max \in {0, 1} : ScriptDispatch(max)) /\ CallbacksOnly
  <2>1. Steps({"script"}) /\ ScriptOk'  BY <1>1, <1>2, <1>3, <1>8, CallbacksStep
  <2> QED  BY <1>1, <1>3, <1>8, <2>1, ModuleSteps
<1>9. CASE ResourcesFrame /\ TexturesOnly
  <2>1. Steps({"load"}) /\ LoadOk' /\ UNCHANGED own  BY <1>1, <1>2, <1>9, LoadStep
  <2> QED  BY <1>1, <1>3, <1>9, <2>1, ModuleSteps
<1> QED  BY <1>4, <1>5, <1>6, <1>7, <1>8, <1>9 DEF Frames

LEMMA ContinueSteps ==
    ASSUME RealtimeInv, RealtimeInv', DuesInv, Continue
    PROVE  DuesInv'
<1>1. OwnInv /\ OwnInv' /\ FrameInv /\ LoadSeqs
  BY DEF RealtimeInv, HandleInv, ServiceInv
<1>2. Ordered /\ ClaimInv /\ ScriptOk /\ RealtimeDue
  BY DEF DuesInv
<1>3. UNCHANGED left
  BY DEF Continue
<1>4. CASE (CallNext \/ EndDispatch) /\ CallbacksOnly
  <2>1. Steps({"script"}) /\ ScriptOk'  BY <1>1, <1>2, <1>3, <1>4, CallbacksStep
  <2> QED  BY <1>1, <1>3, <1>4, <2>1, ModuleSteps
<1>5. CASE (SshHandle \/ SshHandled \/ SshDispatched) /\ SshOnly
  <2>1. Steps({"ssh"}) /\ UNCHANGED own  BY <1>1, <1>2, <1>5, SshStep
  <2> QED  BY <1>1, <1>3, <1>5, <2>1, ModuleSteps
<1>6. CASE (RtJoined \/ RtDrain \/ RtClosed) /\ RealtimeOnly
  <2>1. Steps({"realtime"}) /\ RealtimeDue' /\ UNCHANGED own
    BY <1>1, <1>2, <1>6, RealtimeStep, RealtimeKeepsOwn
  <2> QED  BY <1>1, <1>3, <1>6, <2>1, ModuleSteps
<1> QED  BY <1>4, <1>5, <1>6 DEF Continue

LEMMA ThreadsSteps ==
    ASSUME RealtimeInv, RealtimeInv', DuesInv, Threads
    PROVE  DuesInv'
<1>1. /\ OwnInv /\ OwnInv' /\ FrameInv /\ HttpSeqs /\ HttpInv /\ HttpInv' /\ ProcInv
      /\ IsSeq(job_results) /\ LoadSeqs
  BY DEF RealtimeInv, HandleInv, ServiceInv
<1>2. Ordered /\ ClaimInv /\ RealtimeDue /\ HttpOk /\ JobOk /\ ProcessDue /\ LoadOk
  BY DEF DuesInv
<1>3. UNCHANGED left
  BY DEF Threads
<1>4. CASE /\ HttpOnly
           /\ \E t \in HttpThreads :
                \/ HttpStreamChunk(t)
                \/ /\ \/ HttpTake(t) \/ HttpForget(t) \/ HttpExit(t)
                      \/ \E result \in {"ok", "error"} : HttpAnswer(t, result)
                   /\ UNCHANGED <<cbVars, lhVars>>
  <2>1. Steps({"http", "stream"}) /\ HttpOk' /\ UNCHANGED own  BY <1>1, <1>2, <1>4, HttpModuleStep
  <2> QED  BY <1>1, <1>3, <1>4, <2>1, ModuleSteps
<1>5. CASE (\E id \in Jobs : JobFinish(id)) /\ JobsOnly
  <2>1. Steps({"job"}) /\ JobOk' /\ UNCHANGED own  BY <1>1, <1>2, <1>5, JobStep
  <2> QED  BY <1>1, <1>3, <1>5, <2>1, ModuleSteps
<1>6. CASE (\E op \in Ops : \E last \in BOOLEAN : SshEmit(op, last)) /\ SshOnly
  <2>1. Steps({"ssh"}) /\ UNCHANGED own  BY <1>1, <1>2, <1>6, SshStep
  <2> QED  BY <1>1, <1>3, <1>6, <2>1, ModuleSteps
<1>7. CASE (\E id \in Processes : ChildExit(id)) /\ ProcessOnly
  <2>1. Steps({"process"}) /\ ProcessDue' /\ UNCHANGED own  BY <1>1, <1>2, <1>7, ProcessStep
  <2> QED  BY <1>1, <1>3, <1>7, <2>1, ModuleSteps
<1>8. CASE (\E id \in Loads, ok \in BOOLEAN : LoadFinish(id, ok)) /\ TexturesOnly
  <2>1. Steps({"load"}) /\ LoadOk' /\ UNCHANGED own  BY <1>1, <1>2, <1>8, LoadStep
  <2> QED  BY <1>1, <1>3, <1>8, <2>1, ModuleSteps
<1>9. CASE ((\E name : RtTell(name)) \/ RtPost \/ RtExit) /\ RealtimeOnly
  <2>1. Steps({"realtime"}) /\ RealtimeDue' /\ UNCHANGED own
    BY <1>1, <1>2, <1>9, RealtimeStep, RealtimeKeepsOwn
  <2> QED  BY <1>1, <1>3, <1>9, <2>1, ModuleSteps
<1> QED  BY <1>4, <1>5, <1>6, <1>7, <1>8, <1>9 DEF Threads

LEMMA RuntimeEndsSteps ==
    ASSUME RealtimeInv, RealtimeInv', DuesInv, RuntimeEnds
    PROVE  DuesInv'
<1>1. /\ OwnInv /\ OwnInv' /\ FrameInv /\ HttpSeqs /\ HttpInv /\ HttpInv' /\ LoadSeqs
  BY DEF RealtimeInv, HandleInv, ServiceInv
<1>2. Ordered /\ ClaimInv /\ RealtimeDue /\ HttpOk
  BY DEF DuesInv
<1>3. UNCHANGED left
  BY DEF RuntimeEnds
<1>4. CASE HttpOnly /\ ((HttpStop /\ UNCHANGED <<cbVars, lhVars>>) \/ HttpDrop)
  <2>1. Steps({"http", "stream"}) /\ HttpOk' /\ UNCHANGED own  BY <1>1, <1>2, <1>4, HttpModuleStep
  <2> QED  BY <1>1, <1>3, <1>4, <2>1, ModuleSteps
<1>5. CASE RealtimeOnly /\ \E dispatch : RtClose(dispatch)
  <2>1. Steps({"realtime"}) /\ RealtimeDue' /\ UNCHANGED own
    BY <1>1, <1>2, <1>5, RealtimeStep, RealtimeKeepsOwn
  <2> QED  BY <1>1, <1>3, <1>5, <2>1, ModuleSteps
<1> QED  BY <1>4, <1>5 DEF RuntimeEnds

LEMMA StutterSteps ==
    ASSUME DuesInv, UNCHANGED vars
    PROVE  DuesInv'
<1>1. UNCHANGED <<cbVars, hcVars, lhVars, ljVars, lsVars, lpVars, lrVars, ltVars, left>>
  BY DEF vars
<1>2. UNCHANGED <<next_id, queue, stack, own, called, LsQueues>>
  BY <1>1 DEF cbVars, lsVars, LsQueues
<1>3. AllItems' = AllItems /\ Ordered'
  BY <1>1, <1>2 DEF AllItems, DuesInv, Ordered, SshTableInv, lsVars, LsQueues
<1>4. Tables' = Tables
  BY <1>1, <1>2, ClaimsFrame DEF Tables
<1>5. \A of, id : Exists(of, id)' <=> Exists(of, id)
  BY <1>1 DEF Exists, hcVars, ljVars, lsVars, lpVars, ltVars
<1>6. ClaimInv'
  <2>1. Claims' = Claims  BY <1>3, <1>4 DEF Claims
  <2> QED  BY <1>2, <1>5, <2>1 DEF DuesInv, ClaimInv
<1>7. Sparing({})
  BY <1>3 DEF Sparing, Stays
<1>8. ScriptOk' /\ RealtimeDue' /\ HttpOk'
  BY <1>1, <1>2, <1>3, <1>7, ScriptStays, RealtimeStays, HttpStays DEF DuesInv
<1>9. JobOk' /\ ProcessDue'
  BY <1>1, <1>7, JobStays, ProcessStays DEF DuesInv, ljVars, lpVars
<1>10. LoadOk'
  BY <1>1, <1>3 DEF DuesInv, LoadOk, LoadDue, LoadLineInv, Loading, Untold, ltVars
<1> QED  BY <1>3, <1>6, <1>8, <1>9, <1>10 DEF DuesInv

AnswersInv == RealtimeInv /\ DuesInv

LEMMA AnswersInvNext == AnswersInv /\ [Next]_vars => AnswersInv'
<1> SUFFICES ASSUME AnswersInv, [Next]_vars PROVE AnswersInv'
  OBVIOUS
<1>1. RealtimeInv /\ DuesInv
  BY DEF AnswersInv
<1>2. RealtimeInv'
  BY <1>1, RealtimeInvNext
<1>3. CASE EngineShutdown
  <2>1. OwnInv /\ OwnInv' /\ LoadSeqs  BY <1>1, <1>2 DEF RealtimeInv, HandleInv, ServiceInv
  <2> QED  BY <1>1, <1>2, <1>3, <2>1, ShutdownSteps DEF AnswersInv
<1>4. CASE UNCHANGED vars
  BY <1>1, <1>2, <1>4, StutterSteps DEF AnswersInv
<1>5. CASE Script \/ ScriptWithChildren \/ Frames
  BY <1>1, <1>2, <1>5, ScriptSteps, ScriptWithChildrenSteps, FramesSteps DEF AnswersInv
<1>6. CASE Continue \/ Threads \/ RuntimeEnds
  BY <1>1, <1>2, <1>6, ContinueSteps, ThreadsSteps, RuntimeEndsSteps DEF AnswersInv
<1> QED  BY <1>3, <1>4, <1>5, <1>6 DEF Next

LEMMA AnswersInvInit == Init => AnswersInv
<1> SUFFICES ASSUME Init PROVE AnswersInv
  OBVIOUS
<1>1. /\ next_id = 1 /\ queue = <<>> /\ stack = <<>> /\ own = {}
      /\ called = [cb \in Callbacks |-> <<>>]
      /\ http_next = 1 /\ http_pending = <<>> /\ performing = [t \in HttpThreads |-> Idle]
      /\ completed = <<>> /\ callback_ids = <<>> /\ stream_callback_ids = <<>>
      /\ chunk_callback = [id \in Requests |-> NoCallback]
      /\ phase = [id \in Jobs |-> "unborn"] /\ job_results = <<>> /\ job_callbacks = <<>>
      /\ ssh_next = 1 /\ emitted = [op \in Ops |-> 0] /\ ssh_queue = <<>>
      /\ callback_by_operation = <<>> /\ buffered_events = <<>>
      /\ op_callback = [op \in Ops |-> NoCallback]
      /\ processes = <<>>
      /\ rt_ids = <<>> /\ rt_live = <<>> /\ rt_thread = "none" /\ rt_telling = NoCallback
      /\ rt_notices = 0
      /\ loads = <<>> /\ pending_loads = {} /\ load_results = <<>>
      /\ texture_uploads = <<>> /\ cubemap_uploads = <<>>
      /\ left \in Budgets
  BY DEF Init, CbInit, HcInit, LhInit, LjInit, Pool!Init, Pool!Ids, Jobs, LsInit, LpInit, LrInit, LtInit
<1>2. DOMAIN <<>> = {} /\ ToSet(<<>>) = {} /\ IsSeq(<<>>)
  BY EmptyIsSeq DEF ToSet
<1>3. /\ \A cb \in Callbacks : called[cb] = <<>>
      /\ \A op \in Ops : emitted[op] = 0 /\ op_callback[op] = NoCallback
  BY <1>1
<1>4. AllItems = {} /\ BatchesOf(stack) = {} /\ SshBatchesOf(stack) = {} /\ DOMAIN stack = {}
  <2>1. BatchesOf(stack) = {} /\ SshBatchesOf(stack) = {} /\ DOMAIN stack = {} /\ ToSet(queue) = {}
    BY <1>1, <1>2 DEF BatchesOf, SshBatchesOf
  <2>2. HeardIn(called) = {}  BY <1>2, <1>3 DEF HeardIn
  <2> QED  BY <2>1, <2>2 DEF AllItems, AllIn, WaitsIn
<1>5. Order(queue, stack, called)
  <2>1. Sequenced(queue, stack, called)  BY <1>1, <1>2, <1>3, <1>4 DEF Sequenced
  <2>2. Numbered(queue, stack, called)  BY <1>2, <1>3, <1>4 DEF Numbered, AllItems, AllIn
  <2>3. InLine(queue, stack)  BY <1>1, <1>2, <1>4 DEF InLine, Ascending
  <2>4. Heeded(queue, stack, called)  BY <1>2, <1>3 DEF Heeded
  <2> QED  BY <2>1, <2>2, <2>3, <2>4 DEF Order
<1>6. SshOrder(queue, stack, called, ssh_queue, emitted, op_callback)
  <2>1. DOMAIN ssh_queue = {} /\ ToSet(ssh_queue) = {} /\ IsSeq(ssh_queue) /\ ToSet(queue) = {}
    BY <1>1, <1>2
  <2>2. SshLine(stack, ssh_queue, emitted)  BY <1>4, <2>1 DEF SshLine, Rising, Emitted
  <2>3. SshWaits(queue, stack, ssh_queue, emitted, op_callback)
    BY <1>4, <2>1 DEF SshWaits, NoSshItems
  <2>4. SshHeard(stack, called, ssh_queue, emitted, op_callback)  BY <1>3 DEF SshHeard
  <2> QED  BY <2>2, <2>3, <2>4 DEF SshOrder
<1>7. SshTableInv
  <2>1. DOMAIN callback_by_operation = {} /\ IsSeq(buffered_events)  BY <1>1, <1>2
  <2> QED  BY <1>1, <1>3, <2>1 DEF SshTableInv
<1>8. ClaimInv
  <2>1. Values(<<>>) = {}  BY <1>2 DEF Values
  <2>2. RtCbs = {}  BY <1>1, <2>1 DEF RtCbs
  <2>3. Streams = {} /\ DOMAIN callback_ids = {} /\ DOMAIN job_callbacks = {}
        /\ WithCallback = {} /\ DOMAIN loads = {}
    BY <1>1, <1>2 DEF Streams, WithCallback
  <2>4. Tables = {}
    BY <1>1, <1>3, <2>2, <2>3 DEF Tables, ScriptClaims, RealtimeClaims, HttpClaims, StreamClaims,
         JobClaims, SshClaims, ProcessClaims, LoadClaims
  <2>5. Claims = {}  BY <1>4, <2>4 DEF Claims
  <2> QED  BY <2>5 DEF ClaimInv
<1>9. ScriptOk
  BY <1>1, RuntimeBounds DEF ScriptOk, LeftInv, ScriptDue
<1>10. RealtimeDue
  <2>1. Values(rt_ids) = {} /\ Values(rt_live) = {}  BY <1>1, <1>2 DEF Values
  <2>2. RtCbs = {}  BY <1>1, <2>1 DEF RtCbs
  <2> QED  BY <1>1, <2>1, <2>2 DEF RealtimeDue
<1>11. HttpOk
  <2>1. DOMAIN stream_callback_ids = {} /\ DOMAIN callback_ids = {} /\ Streams = {}
        /\ DOMAIN completed = {} /\ ToSet(completed) = {}
    BY <1>1, <1>2 DEF Streams
  <2>2. \A t \in HttpThreads : ~Performs(t)  BY <1>1 DEF Performs, Idle, Doing
  <2> QED  BY <2>1, <2>2 DEF HttpOk, StreamDue, HttpDue, HttpLineInv, DistinctIds
<1>12. JobOk
  <2>1. DOMAIN job_callbacks = {} /\ DOMAIN job_results = {} /\ ToSet(job_results) = {}
        /\ DOMAIN phase = Jobs
    BY <1>1, <1>2
  <2> QED  BY <2>1 DEF JobOk, JobDue, JobLineInv, Distinct
<1>13. ProcessDue
  BY <1>1, <1>2 DEF ProcessDue, WithCallback
<1>14. LoadOk
  <2>1. Loading = {}  BY <1>1, <1>2 DEF Loading
  <2>2. /\ DOMAIN load_results = {} /\ ToSet(load_results) = {}
        /\ DOMAIN texture_uploads = {} /\ ToSet(texture_uploads) = {}
        /\ DOMAIN cubemap_uploads = {} /\ ToSet(cubemap_uploads) = {}
    BY <1>1, <1>2
  <2> QED  BY <2>1, <2>2 DEF LoadOk, LoadDue, LoadLineInv, Distinct, DistinctIds
<1>15. DuesInv
  BY <1>5, <1>6, <1>7, <1>8, <1>9, <1>10, <1>11, <1>12, <1>13, <1>14 DEF DuesInv, Ordered
<1> QED  BY <1>15, RealtimeInvInit DEF AnswersInv

-----------------------------------------------------------------------------
(* The order in which a callback is told its events.                       *)

\* Where an item waits.
LEMMA PostedIs ==
    ASSUME IsSeq(stack), NEW p \in Posted
    PROVE  \/ /\ p[1] = Len(stack) + 1 /\ p[2] \in DOMAIN queue
              /\ ItemAt(p) = queue[p[2]] /\ ItemAt(p) \in ToSet(queue)
           \/ /\ p[1] \in BatchesOf(stack) /\ p[2] \in DOMAIN stack[p[1]].rest
              /\ ItemAt(p) = stack[p[1]].rest[p[2]] /\ ItemAt(p) \in ToSet(stack[p[1]].rest)
<1>1. Len(stack) \in Nat /\ DOMAIN stack = 1..Len(stack)
  BY SeqIs
<1>2. PICK i \in 1..Len(stack) + 1 : \E k \in DOMAIN Batch(i) : p = <<i, k>>
  BY DEF Posted
<1>3. PICK k \in DOMAIN Batch(i) : p = <<i, k>>
  BY <1>2
<1>4. p[1] = i /\ p[2] = k /\ ItemAt(p) = Batch(i)[k]
  BY <1>3 DEF ItemAt
<1>5. CASE i = Len(stack) + 1
  <2>1. Batch(i) = queue  BY <1>1, <1>5 DEF Batch
  <2> QED  BY <1>3, <1>4, <1>5, <2>1 DEF ToSet
<1>6. CASE i # Len(stack) + 1
  <2>1. i \in DOMAIN stack /\ ~(i > Len(stack))  BY <1>1, <1>6
  <2>2. Batch(i) = IF stack[i].kind = "dispatch" THEN stack[i].rest ELSE <<>>  BY <2>1 DEF Batch
  <2>3. stack[i].kind = "dispatch"
    <3>1. DOMAIN <<>> = {}  OBVIOUS
    <3> QED  BY <1>3, <2>2, <3>1
  <2> QED  BY <1>3, <1>4, <2>1, <2>2, <2>3 DEF ToSet, BatchesOf
<1> QED  BY <1>5, <1>6

LEMMA AnswersAreInOrder == AnswersInv => ToldInOrder
<1> SUFFICES ASSUME AnswersInv, NEW cb \in Callbacks
             PROVE  /\ \A p, q \in Waiting(cb) : Before(p, q) => ItemAt(p).ev.n < ItemAt(q).ev.n
                    /\ \A k, l \in DOMAIN called[cb] :
                          k < l => \/ called[cb][k].ev.n < called[cb][l].ev.n
                                   \/ /\ called[cb][k].ev.n > called[cb][l].ev.n
                                      /\ called[cb][k].depth > called[cb][l].depth
                    /\ \A k \in DOMAIN called[cb], p \in Waiting(cb) :
                          called[cb][k].ev.n # ItemAt(p).ev.n
  BY DEF ToldInOrder
<1>1. /\ Sequenced(queue, stack, called) /\ Numbered(queue, stack, called)
      /\ InLine(queue, stack) /\ Heeded(queue, stack, called)
  BY DEF AnswersInv, DuesInv, Ordered, Order
<1>2. /\ IsSeq(stack) /\ Len(stack) \in Nat /\ DOMAIN stack = 1..Len(stack)
  BY <1>1, SeqIs DEF Sequenced
<1>3. ASSUME NEW p \in Waiting(cb), NEW q \in Waiting(cb), Before(p, q)
      PROVE  ItemAt(p).ev.n < ItemAt(q).ev.n
  <2>1. p \in Posted /\ q \in Posted /\ ItemAt(p).cb = cb /\ ItemAt(q).cb = cb  BY DEF Waiting
  <2>2. Earlier(ItemAt(p), ItemAt(q)) => ItemAt(p).ev.n < ItemAt(q).ev.n  BY <2>1 DEF Earlier
  <2>3. CASE p[1] \in BatchesOf(stack) /\ q[1] \in BatchesOf(stack)
    <3>1. p[1] \in Nat /\ q[1] \in Nat /\ p[1] # Len(stack) + 1 /\ q[1] # Len(stack) + 1
      BY <1>2, <2>3 DEF BatchesOf
    <3>2. /\ p[2] \in DOMAIN stack[p[1]].rest /\ ItemAt(p) = stack[p[1]].rest[p[2]]
          /\ ItemAt(p) \in ToSet(stack[p[1]].rest)
          /\ q[2] \in DOMAIN stack[q[1]].rest /\ ItemAt(q) = stack[q[1]].rest[q[2]]
          /\ ItemAt(q) \in ToSet(stack[q[1]].rest)
      BY <1>2, <2>1, <3>1, PostedIs
    <3>3. CASE p[1] < q[1]  BY <1>1, <2>2, <2>3, <3>2, <3>3 DEF InLine, Precedes
    <3>4. CASE p[1] = q[1] /\ p[2] < q[2]  BY <1>1, <2>2, <2>3, <3>2, <3>4 DEF InLine, Ascending
    <3> QED  BY <1>3, <3>3, <3>4 DEF Before
  <2>4. CASE p[1] \in BatchesOf(stack) /\ q[1] \notin BatchesOf(stack)
    <3>1. p[1] # Len(stack) + 1  BY <1>2, <2>4 DEF BatchesOf
    <3>2. ItemAt(p) \in ToSet(stack[p[1]].rest) /\ ItemAt(q) \in ToSet(queue)
      BY <1>2, <2>1, <2>4, <3>1, PostedIs
    <3> QED  BY <1>1, <2>2, <2>4, <3>2 DEF InLine, Precedes
  <2>5. CASE p[1] \notin BatchesOf(stack)
    <3>1. /\ p[1] = Len(stack) + 1 /\ p[2] \in DOMAIN queue /\ ItemAt(p) = queue[p[2]]
      BY <1>2, <2>1, <2>5, PostedIs
    <3>2. q[1] \in BatchesOf(stack) => q[1] < Len(stack) + 1  BY <1>2 DEF BatchesOf
    <3>3. q[1] = Len(stack) + 1 \/ q[1] \in BatchesOf(stack)  BY <1>2, <2>1, PostedIs
    <3>4. q[1] = Len(stack) + 1 /\ p[2] < q[2]
      <4>1. ~(p[1] < q[1])  BY <1>2, <3>1, <3>2, <3>3 DEF BatchesOf
      <4> QED  BY <1>3, <3>1, <4>1 DEF Before
    <3>5. q[1] \notin BatchesOf(stack)  BY <1>2, <3>4 DEF BatchesOf
    <3>6. q[2] \in DOMAIN queue /\ ItemAt(q) = queue[q[2]]  BY <1>2, <2>1, <3>5, PostedIs
    <3> QED  BY <1>1, <2>2, <3>1, <3>4, <3>6 DEF InLine, Ascending
  <2> QED  BY <2>3, <2>4, <2>5
<1>4. \A k, l \in DOMAIN called[cb] :
          k < l => Heeds(called[cb][k], called[cb][l].ev.n, called[cb][l].depth)
  BY <1>1 DEF Heeded
<1>5. ASSUME NEW k \in DOMAIN called[cb], NEW p \in Waiting(cb)
      PROVE  called[cb][k].ev.n # ItemAt(p).ev.n
  <2>1. p \in Posted /\ ItemAt(p).cb = cb  BY DEF Waiting
  <2>2. called[cb][k].ev.n \in Int  BY <1>1 DEF Numbered
  <2>3. CASE ItemAt(p) \in ToSet(queue)
    <3>1. called[cb][k].ev.n < ItemAt(p).ev.n  BY <1>1, <2>1, <2>3 DEF Heeded
    <3>2. ItemAt(p).ev.n \in Int  BY <1>1, <2>3 DEF Numbered, WaitsIn
    <3> QED  BY <2>2, <3>1, <3>2
  <2>4. CASE p[1] \in BatchesOf(stack) /\ ItemAt(p) \in ToSet(stack[p[1]].rest)
    <3>1. Heeds(called[cb][k], ItemAt(p).ev.n, DepthTo(stack, p[1]))  BY <1>1, <2>1, <2>4 DEF Heeded
    <3>2. ItemAt(p).ev.n \in Int  BY <1>1, <2>4 DEF Numbered, WaitsIn
    <3> QED  BY <2>2, <3>1, <3>2 DEF Heeds
  <2> QED  BY <1>2, <2>1, <2>3, <2>4, PostedIs
<1> QED  BY <1>3, <1>4, <1>5 DEF Heeds

\* A callback gets its events once each and in the order they were enqueued,
\* whatever limits and sets of ids the dispatches were given and in whichever
\* order the services and scripts enqueue them; one dispatched from within a
\* callback may overtake the batch around it (take_pending_callbacks, the loops
\* of the two dispatch functions, and what every binding enqueues).
THEOREM EventsInOrder == Spec => []ToldInOrder
  BY AnswersInvInit, AnswersInvNext, AnswersAreInOrder, PTL DEF Spec

-----------------------------------------------------------------------------
(* How often a source answers.  What was told so far: the callback and the *)
(* event of each item.                                                     *)

Tales == {Item(e.cb, e.ev) : e \in AllItems}
TalesOf(of) == {x \in Tales : SourceOf(x.ev) = of}
IdsTold(of) == {x.ev.id : x \in TalesOf(of)}

\* A callback that is called when its turn comes.
Alive == registry \ (deferred \cup retired)

\* Sources that tell one event.
Single == {"http", "job", "process", "load"}
NumberInv == \A x \in Tales : SourceOf(x.ev) \in Single => x.ev.n = 0

\* Answers of a source, for callbacks that nobody takes away before the shutdown.
Answering(of) == \A x \in TalesOf(of) : x.ev.n = 0 /\ x.cb \in Alive

\* U has two, three ... parts.
Parts2(U, A, B) == U = A \cup B /\ A \cap B = {}
Parts3(U, A, B, C) == Parts2(U, A, B \cup C) /\ B \cap C = {}
Parts4(U, A, B, C, D) == Parts2(U, A, B \cup C \cup D) /\ Parts3(B \cup C \cup D, B, C, D)
Parts5(U, A, B, C, D, E) ==
    Parts2(U, A, B \cup C \cup D \cup E) /\ Parts4(B \cup C \cup D \cup E, B, C, D, E)
Parts6(U, A, B, C, D, E, F) ==
    Parts2(U, A, B \cup C \cup D \cup E \cup F) /\ Parts5(B \cup C \cup D \cup E \cup F, B, C, D, E, F)

Performing == {performing[t].id : t \in {t \in HttpThreads : Performs(t)}}

HttpOnceInv ==
    /\ Answering("http") /\ \A id \in DOMAIN callback_ids : callback_ids[id] \in Alive
    /\ IsSeq(buffered) /\ IsSeq(polled) /\ DistinctIds(buffered) /\ DistinctIds(polled)
    /\ DOMAIN callback_ids \cap DOMAIN stream_callback_ids = {}
    /\ Parts6(Given, Queued, Performing, IdsOf(completed), IdsOf(buffered), IdsOf(polled),
              IdsTold("http"))

JobOnceInv ==
    /\ Answering("job") /\ \A id \in DOMAIN job_callbacks : job_callbacks[id] \in Alive
    /\ IsSeq(buffered_results) /\ IsSeq(job_polled) /\ Distinct(buffered_results)
    /\ Distinct(job_polled)
    /\ \A id \in Jobs : phase[id] = "finished" => id \in ToSet(job_results)
    /\ Parts3({id \in Jobs : phase[id] = "delivered"}, ToSet(buffered_results),
              ToSet(job_polled), IdsTold("job"))

Pair(op, n) == [op |-> op, n |-> n]
PairsOf(s) == {Pair(e.op, e.n) : e \in ToSet(s)}
PairsBegun == UNION {PairsOf(stack[p].rest) : p \in SshBatchesOf(stack)}
PairsTold == {Pair(x.ev.id, x.ev.n) : x \in TalesOf("ssh")}
PairsEmitted == UNION {{Pair(op, n) : n \in 1..emitted[op]} : op \in Ops}
DistinctPairs(s) == \A i, j \in DOMAIN s : s[i].op = s[j].op /\ s[i].n = s[j].n => i = j

SshTale(x) == x.ev.id \in Ops /\ SshItem(x, x.ev.id, op_callback)

\* An operation has its callback as long as that is registered, and until then its
\* events that wait for it.
SshAliveInv ==
    /\ \A op \in Ops : op_callback[op] # NoCallback =>
          (op \in DOMAIN callback_by_operation <=> op_callback[op] \in Alive)
    /\ \A p \in BatchesOf(stack) : \A e \in ToSet(stack[p].rest), op \in Ops :
          SshItem(e, op, op_callback) => op \in DOMAIN callback_by_operation

SshOnceInv ==
    /\ SshAliveInv
    /\ \A x \in TalesOf("ssh") : SshTale(x)
    /\ \A p \in SshBatchesOf(stack) : stack[p].cur # NoItem => SshTale(stack[p].cur)
    /\ IsSeq(ssh_polled) /\ DistinctPairs(buffered_events) /\ DistinctPairs(ssh_polled)
    /\ Parts5(PairsEmitted, PairsOf(ssh_queue), PairsOf(buffered_events), PairsOf(ssh_polled),
              PairsBegun, PairsTold)

GivenOut == {id \in Processes : proc_given[id] = 1}

ProcOnceInv ==
    /\ \A x \in TalesOf("process") : x.ev.n = 0
    /\ proc_given \in [Processes -> {0, 1}] /\ DOMAIN proc_callback = Processes
    /\ GivenOut \subseteq Spawned
    /\ DOMAIN processes \cap GivenOut = {}
    /\ IdsTold("process") \cap (DOMAIN processes \cup GivenOut) = {}
    /\ \A id \in DOMAIN processes : processes[id].cb = proc_callback[id]
    /\ \A id \in IdsTold("process") : proc_callback[id] # NoCallback
    /\ \A id \in Spawned : proc_callback[id] = NoCallback => id \in DOMAIN processes \cup GivenOut

LoadsCalled == {id \in DOMAIN loads : loads[id].cb # NoCallback}

LoadOnceInv ==
    /\ Answering("load") /\ \A id \in LoadsCalled : loads[id].cb \in Alive
    /\ Len(loads) <= MaxLoads
    /\ load_failed \cap (Loading \cup IdsTold("load")) = {} /\ load_failed \subseteq DOMAIN loads
    /\ Loading \cap IdsTold("load") = {}
    /\ LoadsCalled \subseteq Loading \cup load_failed \cup IdsTold("load")

\* The uploads that go on: each has its entry, and the pixels of a load of its name.
TextureRecords == [ready : BOOLEAN, sized : BOOLEAN, uploading : BOOLEAN, pixels : Nat, done : Nat]
GoesOn(map, key, S) ==
    \A n \in DOMAIN map : /\ map[n] \in TextureRecords
                          /\ map[n].uploading => map[n].pixels \in S /\ key[map[n].pixels] = n
NameOf == [id \in DOMAIN loads |-> loads[id].name]
Itself == [id \in DOMAIN loads |-> id]
UploadInv ==
    /\ DOMAIN textures = TextureNames /\ DOMAIN cubemaps = Loads
    /\ \A id \in DOMAIN loads : loads[id].name \in TextureNames
    /\ ToSet(texture_uploads) \cup ToSet(cubemap_uploads) \subseteq DOMAIN loads
    /\ GoesOn(textures, NameOf, ToSet(texture_uploads))
    /\ GoesOn(cubemaps, Itself, ToSet(cubemap_uploads))

Once == HttpOnceInv /\ JobOnceInv /\ SshOnceInv /\ ProcOnceInv /\ LoadOnceInv /\ UploadInv
OnceInv == up => Once

-----------------------------------------------------------------------------
(* What waits is at a place.                                               *)

LEMMA WaitsArePosted ==
    ASSUME IsSeq(stack), IsSeq(queue), NEW e \in WaitsIn(queue, stack)
    PROVE  \E p \in Posted : ItemAt(p) = e
<1>1. Len(stack) \in Nat /\ DOMAIN stack = 1..Len(stack)
  BY SeqIs
<1>2. ASSUME NEW i \in 1..Len(stack) + 1, e \in {Batch(i)[k] : k \in DOMAIN Batch(i)}
      PROVE  \E p \in Posted : ItemAt(p) = e
  <2>1. PICK k \in DOMAIN Batch(i) : e = Batch(i)[k]  BY <1>2
  <2>2. <<i, k>> \in Posted  BY DEF Posted
  <2>3. ItemAt(<<i, k>>) = e  BY <2>1 DEF ItemAt
  <2> QED  BY <2>2, <2>3
<1>3. CASE e \in ToSet(queue)
  <2>1. Len(stack) + 1 \in 1..Len(stack) + 1 /\ Batch(Len(stack) + 1) = queue  BY <1>1 DEF Batch
  <2> QED  BY <1>2, <1>3, <2>1 DEF ToSet
<1>4. CASE \E i \in BatchesOf(stack) : e \in ToSet(stack[i].rest)
  <2>1. PICK i \in BatchesOf(stack) : e \in ToSet(stack[i].rest)  BY <1>4
  <2>2. i \in 1..Len(stack) + 1 /\ Batch(i) = stack[i].rest  BY <1>1 DEF BatchesOf, Batch
  <2> QED  BY <1>2, <2>1, <2>2 DEF ToSet
<1> QED  BY <1>3, <1>4 DEF WaitsIn

-----------------------------------------------------------------------------
(* Counting.                                                               *)

LEMMA OneIs ==
    ASSUME NEW T, \A x, y \in T : x = y
    PROVE  Cardinality(T) = IF T = {} THEN 0 ELSE 1
<1>1. CASE T = {}
  BY <1>1, FS_EmptySet
<1>2. CASE T # {}
  <2>1. PICK x \in T : TRUE  BY <1>2
  <2>2. T = {x}  BY <2>1
  <2> QED  BY <1>2, <2>2, FS_Singleton
<1> QED  BY <1>1, <1>2

\* Events that could only be one event of one callback are told once, or not.
LEMMA ToldIs ==
    ASSUME AnswersInv, NEW K,
           \A e, f \in AllItems : e.ev \in K /\ f.ev \in K => e.cb = f.cb /\ e.ev.n = f.ev.n
    PROVE  Cardinality({p \in Posted : ItemAt(p).ev \in K})
           + Cardinality(UNION {{<<cb, k>> : k \in {k \in DOMAIN called[cb] : called[cb][k].ev \in K}}
                                    : cb \in Callbacks})
           = IF \E x \in Tales : x.ev \in K THEN 1 ELSE 0
<1> DEFINE P == {p \in Posted : ItemAt(p).ev \in K}
           C == UNION {{<<cb, k>> : k \in {k \in DOMAIN called[cb] : called[cb][k].ev \in K}}
                           : cb \in Callbacks}
<1>1. ToldInOrder
  BY AnswersAreInOrder
<1>2. /\ Numbered(queue, stack, called) /\ Sequenced(queue, stack, called)
      /\ IsSeq(queue) /\ IsSeq(stack) /\ Len(stack) \in Nat /\ DOMAIN stack = 1..Len(stack)
  BY SeqIs DEF AnswersInv, DuesInv, Ordered, Order, Sequenced
<1>3. \A p \in Posted : /\ ItemAt(p) \in AllItems /\ ItemAt(p).ev.n \in Int
                        /\ p = <<p[1], p[2]>> /\ p[1] \in Nat /\ p[2] \in Nat
  <2> SUFFICES ASSUME NEW p \in Posted
               PROVE  /\ ItemAt(p) \in AllItems /\ ItemAt(p).ev.n \in Int
                      /\ p = <<p[1], p[2]>> /\ p[1] \in Nat /\ p[2] \in Nat
    OBVIOUS
  <2>1. ItemAt(p) \in WaitsIn(queue, stack)  BY <1>2, PostedIs DEF WaitsIn
  <2>2. ItemAt(p) \in AllItems /\ ItemAt(p).ev.n \in Int
    BY <1>2, <2>1 DEF AllItems, AllIn, Numbered
  <2>3. PICK i \in 1..Len(stack) + 1 : \E k \in DOMAIN Batch(i) : p = <<i, k>>  BY DEF Posted
  <2>4. PICK k \in DOMAIN Batch(i) : p = <<i, k>>  BY <2>3
  <2>5. p[2] \in Nat
    <3>1. CASE p[2] \in DOMAIN queue  BY <1>2, <3>1, SeqIs DEF Sequenced
    <3>2. CASE p[1] \in BatchesOf(stack) /\ p[2] \in DOMAIN stack[p[1]].rest
      BY <1>2, <3>2, SeqIs DEF Sequenced
    <3> QED  BY <1>2, <3>1, <3>2, PostedIs
  <2>6. p[1] = i /\ i \in Nat  BY <1>2, <2>4
  <2> QED  BY <2>2, <2>4, <2>5, <2>6
<1>4. \A cb \in Callbacks : \A k \in DOMAIN called[cb] :
         /\ Item(cb, called[cb][k].ev) \in AllItems /\ Item(cb, called[cb][k].ev).cb = cb
         /\ Item(cb, called[cb][k].ev).ev = called[cb][k].ev
         /\ called[cb][k].ev.n \in Int /\ k \in Nat
  <2> SUFFICES ASSUME NEW cb \in Callbacks, NEW k \in DOMAIN called[cb]
               PROVE  /\ Item(cb, called[cb][k].ev) \in AllItems /\ Item(cb, called[cb][k].ev).cb = cb
                      /\ Item(cb, called[cb][k].ev).ev = called[cb][k].ev
                      /\ called[cb][k].ev.n \in Int /\ k \in Nat
    OBVIOUS
  <2>1. Item(cb, called[cb][k].ev) \in AllItems  BY DEF AllItems, AllIn, HeardIn
  <2>2. called[cb][k].ev.n \in Int  BY <1>2 DEF Numbered
  <2>3. k \in Nat  BY <1>2, SeqIs DEF Sequenced
  <2> QED  BY <2>1, <2>2, <2>3 DEF Item
<1>5. ASSUME NEW p \in P, NEW q \in P PROVE p = q
  <2>1. p \in Posted /\ q \in Posted /\ ItemAt(p).ev \in K /\ ItemAt(q).ev \in K  OBVIOUS
  <2>2. ItemAt(p).cb = ItemAt(q).cb /\ ItemAt(p).ev.n = ItemAt(q).ev.n  BY <1>3, <2>1
  <2> DEFINE cb == ItemAt(p).cb
  <2>3. cb \in Callbacks
    <3>1. ClaimOf(ItemAt(p)) \in Claims /\ ClaimOf(ItemAt(p)).cb = cb
      BY <1>3, <2>1, ClaimIs DEF Claims
    <3>2. cb \in 1..(next_id - 1)  BY <3>1 DEF AnswersInv, DuesInv, ClaimInv
    <3> QED  BY <3>2, GivenAreCallbacks DEF AnswersInv, RealtimeInv, HandleInv
  <2>4. p \in Waiting(cb) /\ q \in Waiting(cb)  BY <2>1, <2>2 DEF Waiting
  <2>5. ~Before(p, q) /\ ~Before(q, p)  BY <1>1, <1>3, <2>1, <2>2, <2>3, <2>4 DEF ToldInOrder
  <2>6. p[1] = q[1] /\ p[2] = q[2]  BY <1>3, <2>1, <2>5 DEF Before
  <2> QED  BY <1>3, <2>1, <2>6
<1>6. ASSUME NEW p \in C, NEW q \in C PROVE p = q
  <2>1. PICK cb \in Callbacks : \E k \in DOMAIN called[cb] : p = <<cb, k>> /\ called[cb][k].ev \in K
    OBVIOUS
  <2>2. PICK k \in DOMAIN called[cb] : p = <<cb, k>> /\ called[cb][k].ev \in K  BY <2>1
  <2>3. PICK cc \in Callbacks : \E l \in DOMAIN called[cc] : q = <<cc, l>> /\ called[cc][l].ev \in K
    OBVIOUS
  <2>4. PICK l \in DOMAIN called[cc] : q = <<cc, l>> /\ called[cc][l].ev \in K  BY <2>3
  <2>5. cb = cc /\ called[cb][k].ev.n = called[cc][l].ev.n  BY <1>4, <2>2, <2>4
  <2>6. k = l  BY <1>1, <1>4, <2>2, <2>4, <2>5 DEF ToldInOrder
  <2> QED  BY <2>2, <2>4, <2>5, <2>6
<1>7. ~(P # {} /\ C # {})
  <2> SUFFICES ASSUME NEW p \in P, NEW q \in C PROVE FALSE  OBVIOUS
  <2>1. PICK cb \in Callbacks : \E k \in DOMAIN called[cb] : q = <<cb, k>> /\ called[cb][k].ev \in K
    OBVIOUS
  <2>2. PICK k \in DOMAIN called[cb] : q = <<cb, k>> /\ called[cb][k].ev \in K  BY <2>1
  <2>3. ItemAt(p).cb = cb /\ ItemAt(p).ev.n = called[cb][k].ev.n  BY <1>3, <1>4, <2>2
  <2>4. p \in Waiting(cb)  BY <2>3 DEF Waiting
  <2> QED  BY <1>1, <2>2, <2>3, <2>4 DEF ToldInOrder
<1>8. (P # {} \/ C # {}) <=> \E x \in Tales : x.ev \in K
  <2>1. ASSUME P # {} \/ C # {} PROVE \E x \in Tales : x.ev \in K
    <3>1. \E e \in AllItems : e.ev \in K
      <4>1. CASE P # {}  BY <1>3, <4>1
      <4>2. CASE C # {}  BY <1>4, <4>2
      <4> QED  BY <2>1, <4>1, <4>2
    <3>2. PICK e \in AllItems : e.ev \in K  BY <3>1
    <3>3. Item(e.cb, e.ev) \in Tales /\ Item(e.cb, e.ev).ev = e.ev  BY DEF Tales, Item
    <3> QED  BY <3>2, <3>3
  <2>2. ASSUME NEW x \in Tales, x.ev \in K PROVE P # {} \/ C # {}
    <3>1. PICK e \in AllItems : x = Item(e.cb, e.ev)  BY DEF Tales
    <3>2. e.ev \in K  BY <2>2, <3>1 DEF Item
    <3>3. CASE e \in WaitsIn(queue, stack)
      <4>1. \E p \in Posted : ItemAt(p) = e  BY <1>2, <3>3, WaitsArePosted
      <4> QED  BY <3>2, <4>1
    <3>4. CASE e \in HeardIn(called)
      <4>1. PICK cb \in Callbacks : \E k \in DOMAIN called[cb] : e = Item(cb, called[cb][k].ev)
        BY <3>4 DEF HeardIn
      <4>2. PICK k \in DOMAIN called[cb] : e = Item(cb, called[cb][k].ev)  BY <4>1
      <4>3. called[cb][k].ev \in K  BY <3>2, <4>2 DEF Item
      <4>4. <<cb, k>> \in C  BY <4>3
      <4> QED  BY <4>4
    <3> QED  BY <3>3, <3>4 DEF AllItems, AllIn
  <2> QED  BY <2>1, <2>2
<1>9. Cardinality(P) = (IF P = {} THEN 0 ELSE 1) /\ Cardinality(C) = (IF C = {} THEN 0 ELSE 1)
  <2> HIDE DEF P, C
  <2> QED  BY <1>5, <1>6, OneIs
<1> HIDE DEF P, C
<1>10. Cardinality(P) + Cardinality(C) = IF \E x \in Tales : x.ev \in K THEN 1 ELSE 0
  BY <1>7, <1>8, <1>9
<1> QED  BY <1>10 DEF P, C

-----------------------------------------------------------------------------
(* How often an answer was told, and how often it is in a queue.           *)

LEMMA TalesAre ==
    ASSUME AnswersInv
    PROVE  /\ \A p \in Posted : Item(ItemAt(p).cb, ItemAt(p).ev) \in Tales
           /\ \A cb \in Callbacks : \A k \in DOMAIN called[cb] : Item(cb, called[cb][k].ev) \in Tales
           /\ \A cb, ev : Item(cb, ev).cb = cb /\ Item(cb, ev).ev = ev
           /\ \A x \in Tales : \E e \in AllItems : x.cb = e.cb /\ x.ev = e.ev
           /\ \A x \in Tales : Claim(x.cb, SourceOf(x.ev), x.ev.id) \in Claims
<1>1. \A cb, ev : Item(cb, ev).cb = cb /\ Item(cb, ev).ev = ev
  BY DEF Item
<1>2. IsSeq(stack)
  BY DEF AnswersInv, DuesInv, Ordered, Order, Sequenced
<1>3. \A p \in Posted : ItemAt(p) \in AllItems
  BY <1>2, PostedIs DEF AllItems, AllIn, WaitsIn
<1>4. \A cb \in Callbacks : \A k \in DOMAIN called[cb] : Item(cb, called[cb][k].ev) \in AllItems
  BY DEF AllItems, AllIn, HeardIn
<1> HIDE DEF Item
<1>5. \A p \in Posted : Item(ItemAt(p).cb, ItemAt(p).ev) \in Tales
  BY <1>3 DEF Tales
<1>6. \A cb \in Callbacks : \A k \in DOMAIN called[cb] : Item(cb, called[cb][k].ev) \in Tales
  <2> SUFFICES ASSUME NEW cb \in Callbacks, NEW k \in DOMAIN called[cb]
               PROVE  Item(cb, called[cb][k].ev) \in Tales
    OBVIOUS
  <2> DEFINE e == Item(cb, called[cb][k].ev)
  <2>1. e \in AllItems /\ e.cb = cb /\ e.ev = called[cb][k].ev  BY <1>1, <1>4
  <2>2. Item(e.cb, e.ev) \in Tales  BY <2>1 DEF Tales
  <2> QED  BY <2>1, <2>2
<1>7. \A x \in Tales : \E e \in AllItems : x.cb = e.cb /\ x.ev = e.ev
  BY <1>1 DEF Tales
<1>8. \A x \in Tales : Claim(x.cb, SourceOf(x.ev), x.ev.id) \in Claims
  <2> SUFFICES ASSUME NEW x \in Tales PROVE Claim(x.cb, SourceOf(x.ev), x.ev.id) \in Claims  OBVIOUS
  <2>1. PICK e \in AllItems : x.cb = e.cb /\ x.ev = e.ev  BY <1>7
  <2> QED  BY <2>1 DEF Claims, ClaimOf
<1> QED  BY <1>1, <1>5, <1>6, <1>7, <1>8

LEMMA SourceToldIs ==
    ASSUME AnswersInv, NumberInv, NEW of \in Single, NEW id
    PROVE  Cardinality({p \in Posted : SourceOf(ItemAt(p).ev) = of /\ ItemAt(p).ev.id = id})
           + Cardinality(UNION {{<<cb, k>> : k \in {k \in DOMAIN called[cb] :
                                     SourceOf(called[cb][k].ev) = of /\ called[cb][k].ev.id = id}}
                                    : cb \in Callbacks})
           = IF id \in IdsTold(of) THEN 1 ELSE 0
<1> DEFINE K == {x.ev : x \in {x \in TalesOf(of) : x.ev.id = id}}
<1>1. \A x \in Tales : x.ev \in K <=> SourceOf(x.ev) = of /\ x.ev.id = id
  BY DEF TalesOf
<1>2. \A e, f \in AllItems : e.ev \in K /\ f.ev \in K => e.cb = f.cb /\ e.ev.n = f.ev.n
  <2> SUFFICES ASSUME NEW e \in AllItems, NEW f \in AllItems, e.ev \in K, f.ev \in K
               PROVE  e.cb = f.cb /\ e.ev.n = f.ev.n
    OBVIOUS
  <2>1. SourceOf(e.ev) = of /\ e.ev.id = id /\ SourceOf(f.ev) = of /\ f.ev.id = id  BY DEF TalesOf
  <2>2. e.ev.n = 0 /\ f.ev.n = 0
    <3>1. PICK x \in Tales : x.ev = e.ev  BY DEF TalesOf
    <3>2. PICK y \in Tales : y.ev = f.ev  BY DEF TalesOf
    <3> QED  BY <2>1, <3>1, <3>2 DEF NumberInv
  <2>3. ClaimOf(e) \in Claims /\ ClaimOf(f) \in Claims  BY DEF Claims
  <2>4. of \notin Shared  BY DEF Single, Shared
  <2>5. /\ ClaimOf(e).cb = e.cb /\ ClaimOf(e).of = of /\ ClaimOf(e).id = id
        /\ ClaimOf(f).cb = f.cb /\ ClaimOf(f).of = of /\ ClaimOf(f).id = id
    BY <2>1, ClaimIs
  <2>6. e.cb = f.cb  BY <2>3, <2>4, <2>5 DEF AnswersInv, DuesInv, ClaimInv
  <2> QED  BY <2>2, <2>6
<1>3. (\E x \in Tales : x.ev \in K) <=> id \in IdsTold(of)
  BY <1>1 DEF IdsTold, TalesOf
<1>4. /\ \A p \in Posted : ItemAt(p).ev \in K <=> SourceOf(ItemAt(p).ev) = of /\ ItemAt(p).ev.id = id
      /\ \A cb \in Callbacks : \A k \in DOMAIN called[cb] :
            called[cb][k].ev \in K <=> SourceOf(called[cb][k].ev) = of /\ called[cb][k].ev.id = id
  <2>1. ASSUME NEW p \in Posted
        PROVE  ItemAt(p).ev \in K <=> SourceOf(ItemAt(p).ev) = of /\ ItemAt(p).ev.id = id
    <3>1. \E x \in Tales : x.ev = ItemAt(p).ev  BY TalesAre
    <3> QED  BY <1>1, <3>1
  <2>2. ASSUME NEW cb \in Callbacks, NEW k \in DOMAIN called[cb]
        PROVE  called[cb][k].ev \in K <=> SourceOf(called[cb][k].ev) = of /\ called[cb][k].ev.id = id
    <3>1. \E x \in Tales : x.ev = called[cb][k].ev  BY TalesAre
    <3> QED  BY <1>1, <3>1
  <2> QED  BY <2>1, <2>2
<1> HIDE DEF K
<1>5. Cardinality({p \in Posted : ItemAt(p).ev \in K})
      + Cardinality(UNION {{<<cb, k>> : k \in {k \in DOMAIN called[cb] : called[cb][k].ev \in K}}
                               : cb \in Callbacks})
      = IF \E x \in Tales : x.ev \in K THEN 1 ELSE 0
  BY <1>2, ToldIs
<1>6. {p \in Posted : ItemAt(p).ev \in K}
        = {p \in Posted : SourceOf(ItemAt(p).ev) = of /\ ItemAt(p).ev.id = id}
  BY <1>4
<1>7. UNION {{<<cb, k>> : k \in {k \in DOMAIN called[cb] : called[cb][k].ev \in K}} : cb \in Callbacks}
        = UNION {{<<cb, k>> : k \in {k \in DOMAIN called[cb] :
                      SourceOf(called[cb][k].ev) = of /\ called[cb][k].ev.id = id}} : cb \in Callbacks}
  BY <1>4
<1> QED  BY <1>3, <1>5, <1>6, <1>7

LEMMA WhereIs ==
    ASSUME NEW s, DistinctIds(s), NEW id
    PROVE  Where(s, id) = IF id \in IdsOf(s) THEN 1 ELSE 0
<1> DEFINE T == {i \in DOMAIN s : s[i].id = id}
<1>1. \A x, y \in T : x = y
  BY DEF DistinctIds
<1>2. T = {} <=> id \notin IdsOf(s)
  BY DEF IdsOf
<1> HIDE DEF T
<1>3. Cardinality(T) = IF id \in IdsOf(s) THEN 1 ELSE 0
  BY <1>1, <1>2, OneIs
<1> QED  BY <1>3 DEF T, Where

LEMMA CountIs ==
    ASSUME NEW s, Distinct(s), NEW x
    PROVE  Cardinality({i \in DOMAIN s : s[i] = x}) = IF x \in ToSet(s) THEN 1 ELSE 0
<1> DEFINE T == {i \in DOMAIN s : s[i] = x}
<1>1. \A i, j \in T : i = j
  BY DEF Distinct
<1>2. T = {} <=> x \notin ToSet(s)
  BY DEF ToSet
<1> HIDE DEF T
<1>3. Cardinality(T) = IF x \in ToSet(s) THEN 1 ELSE 0
  BY <1>1, <1>2, OneIs
<1> QED  BY <1>3 DEF T

-----------------------------------------------------------------------------
(* Each answer is at one place.                                            *)

LEMMA HttpIsAnsweredOnce ==
    ASSUME AnswersInv, NumberInv, HttpOnceInv
    PROVE  HttpAnsweredOnce
<1> SUFFICES ASSUME NEW id \in Given
             PROVE  1 = Cardinality({i \in DOMAIN http_pending : http_pending[i] = id})
                        + Cardinality({t \in HttpThreads : /\ performing[t].pc = "performing"
                                                           /\ performing[t].id = id})
                        + Where(completed, id) + Where(buffered, id) + Where(polled, id)
                        + Told(LAMBDA ev : ev.of = "http" /\ ev.id = id
                                           /\ ev.what \notin {"chunk", "done"})
  BY DEF HttpAnsweredOnce, Given
<1>1. HttpInv /\ DistinctIds(completed)
  BY DEF AnswersInv, RealtimeInv, DuesInv, HttpOk, HttpLineInv
<1>2. Cardinality({i \in DOMAIN http_pending : http_pending[i] = id})
        = IF id \in Queued THEN 1 ELSE 0
  <2>1. DOMAIN http_pending = 1..Len(http_pending)  BY <1>1 DEF HttpInv
  <2>2. Distinct(http_pending)  BY <1>1, <2>1 DEF HttpInv, Distinct
  <2> QED  BY <2>2, CountIs DEF Queued, ToSet
<1>3. Cardinality({t \in HttpThreads : performing[t].pc = "performing" /\ performing[t].id = id})
        = IF id \in Performing THEN 1 ELSE 0
  <2> DEFINE T == {t \in HttpThreads : performing[t].pc = "performing" /\ performing[t].id = id}
  <2>1. \A t, u \in T : t = u  BY <1>1 DEF HttpInv, Has
  <2>2. T = {} <=> id \notin Performing  BY DEF Performing, Performs
  <2> HIDE DEF T
  <2>3. Cardinality(T) = IF id \in Performing THEN 1 ELSE 0  BY <2>1, <2>2, OneIs
  <2> QED  BY <2>3 DEF T
<1>4. /\ Where(completed, id) = IF id \in IdsOf(completed) THEN 1 ELSE 0
      /\ Where(buffered, id) = IF id \in IdsOf(buffered) THEN 1 ELSE 0
      /\ Where(polled, id) = IF id \in IdsOf(polled) THEN 1 ELSE 0
  BY <1>1, WhereIs DEF HttpOnceInv
<1>5. Told(LAMBDA ev : ev.of = "http" /\ ev.id = id /\ ev.what \notin {"chunk", "done"})
        = IF id \in IdsTold("http") THEN 1 ELSE 0
  <2>1. \A ev : SourceOf(ev) = "http" <=> ev.of = "http" /\ ev.what \notin {"chunk", "done"}
    BY DEF SourceOf
  <2>2. Told(LAMBDA ev : ev.of = "http" /\ ev.id = id /\ ev.what \notin {"chunk", "done"})
          = Cardinality({p \in Posted : SourceOf(ItemAt(p).ev) = "http" /\ ItemAt(p).ev.id = id})
            + Cardinality(UNION {{<<cb, k>> : k \in {k \in DOMAIN called[cb] :
                      SourceOf(called[cb][k].ev) = "http" /\ called[cb][k].ev.id = id}}
                                     : cb \in Callbacks})
    <3>1. {p \in Posted : ItemAt(p).ev.of = "http" /\ ItemAt(p).ev.id = id
                          /\ ItemAt(p).ev.what \notin {"chunk", "done"}}
            = {p \in Posted : SourceOf(ItemAt(p).ev) = "http" /\ ItemAt(p).ev.id = id}
      BY <2>1
    <3>2. UNION {{<<cb, k>> : k \in {k \in DOMAIN called[cb] :
                    called[cb][k].ev.of = "http" /\ called[cb][k].ev.id = id
                    /\ called[cb][k].ev.what \notin {"chunk", "done"}}} : cb \in Callbacks}
            = UNION {{<<cb, k>> : k \in {k \in DOMAIN called[cb] :
                    SourceOf(called[cb][k].ev) = "http" /\ called[cb][k].ev.id = id}}
                                   : cb \in Callbacks}
      BY <2>1
    <3> QED  BY <3>1, <3>2 DEF Told
  <2>3. "http" \in Single  BY DEF Single
  <2> QED  BY <2>2, <2>3, SourceToldIs
<1>6. Parts6(Given, Queued, Performing, IdsOf(completed), IdsOf(buffered), IdsOf(polled),
             IdsTold("http"))
  BY DEF HttpOnceInv
<1>7. /\ id \in Queued \/ id \in Performing \/ id \in IdsOf(completed) \/ id \in IdsOf(buffered)
         \/ id \in IdsOf(polled) \/ id \in IdsTold("http")
      /\ id \in Queued => /\ id \notin Performing /\ id \notin IdsOf(completed)
                          /\ id \notin IdsOf(buffered) /\ id \notin IdsOf(polled)
                          /\ id \notin IdsTold("http")
      /\ id \in Performing => /\ id \notin IdsOf(completed) /\ id \notin IdsOf(buffered)
                              /\ id \notin IdsOf(polled) /\ id \notin IdsTold("http")
      /\ id \in IdsOf(completed) => /\ id \notin IdsOf(buffered) /\ id \notin IdsOf(polled)
                                    /\ id \notin IdsTold("http")
      /\ id \in IdsOf(buffered) => id \notin IdsOf(polled) /\ id \notin IdsTold("http")
      /\ id \in IdsOf(polled) => id \notin IdsTold("http")
  BY <1>6 DEF Parts2, Parts3, Parts4, Parts5, Parts6
<1> HIDE DEF Given
<1> QED  BY <1>2, <1>3, <1>4, <1>5, <1>7

\* The same of the jobs, the processes and the loads.
LEMMA ToldOfIs ==
    ASSUME AnswersInv, NumberInv, NEW of \in Single \ {"http"}, NEW id
    PROVE  Cardinality({p \in Posted : ItemAt(p).ev.of = of /\ ItemAt(p).ev.id = id})
           + Cardinality(UNION {{<<cb, k>> : k \in {k \in DOMAIN called[cb] :
                                     called[cb][k].ev.of = of /\ called[cb][k].ev.id = id}}
                                    : cb \in Callbacks})
           = IF id \in IdsTold(of) THEN 1 ELSE 0
<1>1. \A ev : SourceOf(ev) = of <=> ev.of = of
  BY DEF SourceOf, Single
<1>2. {p \in Posted : ItemAt(p).ev.of = of /\ ItemAt(p).ev.id = id}
        = {p \in Posted : SourceOf(ItemAt(p).ev) = of /\ ItemAt(p).ev.id = id}
  BY <1>1
<1>3. UNION {{<<cb, k>> : k \in {k \in DOMAIN called[cb] :
                called[cb][k].ev.of = of /\ called[cb][k].ev.id = id}} : cb \in Callbacks}
        = UNION {{<<cb, k>> : k \in {k \in DOMAIN called[cb] :
                SourceOf(called[cb][k].ev) = of /\ called[cb][k].ev.id = id}}
                               : cb \in Callbacks}
  BY <1>1
<1> QED  BY <1>2, <1>3, SourceToldIs

LEMMA JobsAreAnsweredOnce ==
    ASSUME AnswersInv, NumberInv, JobOnceInv
    PROVE  JobsAnsweredOnce
<1> SUFFICES ASSUME NEW id \in Jobs, phase[id] \in {"finished", "delivered"}
             PROVE  1 = Count(job_results, id) + Count(buffered_results, id) + Count(job_polled, id)
                        + Told(LAMBDA ev : ev.of = "job" /\ ev.id = id)
  BY DEF JobsAnsweredOnce
<1>1. JobLineInv
  BY DEF AnswersInv, DuesInv, JobOk
<1>2. /\ Count(job_results, id) = IF id \in ToSet(job_results) THEN 1 ELSE 0
      /\ Count(buffered_results, id) = IF id \in ToSet(buffered_results) THEN 1 ELSE 0
      /\ Count(job_polled, id) = IF id \in ToSet(job_polled) THEN 1 ELSE 0
  BY <1>1, CountIs DEF JobLineInv, JobOnceInv, Count
<1>3. Told(LAMBDA ev : ev.of = "job" /\ ev.id = id) = IF id \in IdsTold("job") THEN 1 ELSE 0
  <2>1. "job" \in Single \ {"http"}  BY DEF Single
  <2> QED  BY <2>1, ToldOfIs DEF Told
<1>4. /\ phase[id] = "finished" <=> id \in ToSet(job_results)
      /\ phase[id] = "delivered" <=> \/ id \in ToSet(buffered_results) \/ id \in ToSet(job_polled)
                                     \/ id \in IdsTold("job")
      /\ id \in ToSet(buffered_results) => id \notin ToSet(job_polled) /\ id \notin IdsTold("job")
      /\ id \in ToSet(job_polled) => id \notin IdsTold("job")
  BY <1>1 DEF JobLineInv, JobOnceInv, Parts3, Parts2
<1> QED  BY <1>2, <1>3, <1>4

LEMMA ProcessesAreAnsweredOnce ==
    ASSUME AnswersInv, NumberInv, ProcOnceInv
    PROVE  ProcessAnsweredOnce
<1> SUFFICES ASSUME NEW id \in Spawned
             PROVE  /\ ResultPlaces(id) <= 1
                    /\ proc_callback[id] = NoCallback => ResultPlaces(id) = 1
  BY DEF ProcessAnsweredOnce, Spawned
<1>1. id \in Processes
  BY ProcessBound DEF AnswersInv, RealtimeInv, ProcInv, Spawned, Processes
<1>2. Told(LAMBDA ev : ev.of = "process" /\ ev.id = id)
        = IF id \in IdsTold("process") THEN 1 ELSE 0
  <2>1. "process" \in Single \ {"http"}  BY DEF Single
  <2> QED  BY <2>1, ToldOfIs DEF Told
<1>3. Cardinality({id} \cap DOMAIN processes) = IF id \in DOMAIN processes THEN 1 ELSE 0
  <2>1. \A x, y \in {id} \cap DOMAIN processes : x = y  OBVIOUS
  <2>2. {id} \cap DOMAIN processes = {} <=> id \notin DOMAIN processes  OBVIOUS
  <2> QED  BY <2>1, <2>2, OneIs
<1>4. proc_given[id] \in {0, 1} /\ (proc_given[id] = 1 <=> id \in GivenOut)
  BY <1>1 DEF ProcOnceInv, GivenOut
<1>5. /\ id \in DOMAIN processes => id \notin GivenOut /\ id \notin IdsTold("process")
      /\ id \in GivenOut => id \notin IdsTold("process")
      /\ proc_callback[id] = NoCallback => /\ id \in DOMAIN processes \/ id \in GivenOut
                                           /\ id \notin IdsTold("process")
  BY DEF ProcOnceInv
<1>6. ResultPlaces(id) = (IF id \in DOMAIN processes THEN 1 ELSE 0) + proc_given[id]
                         + (IF id \in IdsTold("process") THEN 1 ELSE 0)
  BY <1>2, <1>3 DEF ResultPlaces
<1> QED  BY <1>4, <1>5, <1>6

LEMMA LoadsAreAnsweredOnce ==
    ASSUME AnswersInv, NumberInv, LoadOnceInv
    PROVE  LoadsAnsweredOnce
<1> SUFFICES ASSUME NEW id \in DOMAIN loads, loads[id].cb # NoCallback
             PROVE  Cardinality({id} \cap pending_loads)
                    + Cardinality({i \in DOMAIN texture_uploads : texture_uploads[i] = id})
                    + Cardinality({i \in DOMAIN cubemap_uploads : cubemap_uploads[i] = id})
                    + Told(LAMBDA ev : ev.of = "load" /\ ev.id = id)
                    = IF id \in load_failed THEN 0 ELSE 1
  BY DEF LoadsAnsweredOnce
<1>1. LoadLineInv
  BY DEF AnswersInv, DuesInv, LoadOk
<1>2. Told(LAMBDA ev : ev.of = "load" /\ ev.id = id) = IF id \in IdsTold("load") THEN 1 ELSE 0
  <2>1. "load" \in Single \ {"http"}  BY DEF Single
  <2> QED  BY <2>1, ToldOfIs DEF Told
<1>3. Cardinality({id} \cap pending_loads) = IF id \in pending_loads THEN 1 ELSE 0
  <2>1. \A x, y \in {id} \cap pending_loads : x = y  OBVIOUS
  <2>2. {id} \cap pending_loads = {} <=> id \notin pending_loads  OBVIOUS
  <2> QED  BY <2>1, <2>2, OneIs
<1>4. /\ Cardinality({i \in DOMAIN texture_uploads : texture_uploads[i] = id})
           = IF id \in ToSet(texture_uploads) THEN 1 ELSE 0
      /\ Cardinality({i \in DOMAIN cubemap_uploads : cubemap_uploads[i] = id})
           = IF id \in ToSet(cubemap_uploads) THEN 1 ELSE 0
  BY <1>1, CountIs DEF LoadLineInv
<1>5. /\ id \in pending_loads => id \notin ToSet(texture_uploads) /\ id \notin ToSet(cubemap_uploads)
      /\ id \in ToSet(texture_uploads) => id \notin ToSet(cubemap_uploads)
      /\ id \in Loading <=> \/ id \in pending_loads \/ id \in ToSet(texture_uploads)
                            \/ id \in ToSet(cubemap_uploads)
  BY <1>1 DEF LoadLineInv, Loading
<1>6. /\ id \in load_failed => id \notin Loading /\ id \notin IdsTold("load")
      /\ id \in Loading => id \notin IdsTold("load")
      /\ id \in Loading \/ id \in load_failed \/ id \in IdsTold("load")
  BY DEF LoadOnceInv, LoadsCalled
<1> QED  BY <1>2, <1>3, <1>4, <1>5, <1>6

\* The same of the events of the ssh module.
LEMMA PairIs ==
    /\ \A a, b, c, d : Pair(a, b) = Pair(c, d) <=> a = c /\ b = d
    /\ \A a, b : Pair(a, b).op = a /\ Pair(a, b).n = b
  BY DEF Pair

LEMMA PairsAre ==
    ASSUME NEW s, NEW op, NEW n
    PROVE  Pair(op, n) \in PairsOf(s) <=> \E i \in DOMAIN s : s[i].op = op /\ s[i].n = n
<1>1. Pair(op, n) \in PairsOf(s) <=> \E e \in ToSet(s) : e.op = op /\ e.n = n
  BY PairIs DEF PairsOf
<1> QED  BY <1>1 DEF ToSet

LEMMA SshInIs ==
    ASSUME NEW s, DistinctPairs(s), NEW op, NEW n
    PROVE  SshIn(s, op, n) = IF Pair(op, n) \in PairsOf(s) THEN 1 ELSE 0
<1> DEFINE T == {i \in DOMAIN s : s[i].op = op /\ s[i].n = n}
<1>1. \A x, y \in T : x = y
  BY DEF DistinctPairs
<1>2. T = {} <=> Pair(op, n) \notin PairsOf(s)
  BY PairsAre
<1> HIDE DEF T
<1>3. Cardinality(T) = IF Pair(op, n) \in PairsOf(s) THEN 1 ELSE 0
  BY <1>1, <1>2, OneIs
<1> QED  BY <1>3 DEF T, SshIn

LEMMA RisingIsDistinct ==
    ASSUME NEW s, IsSeq(s), Rising(s), NEW em, Emitted(ToSet(s), em)
    PROVE  DistinctPairs(s)
<1> SUFFICES ASSUME NEW i \in DOMAIN s, NEW j \in DOMAIN s, s[i].op = s[j].op, s[i].n = s[j].n
             PROVE  i = j
  BY DEF DistinctPairs
<1>1. s[i] \in ToSet(s) /\ s[j] \in ToSet(s) /\ i \in Nat /\ j \in Nat
  <2>1. DOMAIN s = 1..Len(s) /\ Len(s) \in Nat  BY SeqIs
  <2> QED  BY <2>1 DEF ToSet
<1>2. s[i].n \in Nat /\ s[j].n \in Nat
  BY <1>1 DEF Emitted
<1>3. ~(i < j) /\ ~(j < i)
  BY <1>2 DEF Rising
<1> QED  BY <1>1, <1>3

LEMMA EventsAreToldOnce ==
    ASSUME AnswersInv, SshOnceInv
    PROVE  SshToldOnce
<1> SUFFICES ASSUME NEW op \in Ops, NEW n \in 1..emitted[op]
             PROVE  1 = SshIn(ssh_queue, op, n) + SshIn(buffered_events, op, n)
                        + SshIn(ssh_polled, op, n)
                        + Cardinality({i \in DOMAIN stack :
                            /\ stack[i].kind = "ssh"
                            /\ \E k \in DOMAIN stack[i].rest :
                                 stack[i].rest[k].op = op /\ stack[i].rest[k].n = n})
                        + Told(LAMBDA ev : ev.of = "ssh" /\ ev.id = op /\ ev.n = n)
  BY DEF SshToldOnce
<1>1. /\ SshLine(stack, ssh_queue, emitted) /\ IsSeq(stack)
      /\ ClaimInv
  BY DEF AnswersInv, DuesInv, Ordered, Order, Sequenced, SshOrder
<1>2. DistinctPairs(ssh_queue)
  BY <1>1, RisingIsDistinct DEF SshLine
<1>3. /\ SshIn(ssh_queue, op, n) = IF Pair(op, n) \in PairsOf(ssh_queue) THEN 1 ELSE 0
      /\ SshIn(buffered_events, op, n) = IF Pair(op, n) \in PairsOf(buffered_events) THEN 1 ELSE 0
      /\ SshIn(ssh_polled, op, n) = IF Pair(op, n) \in PairsOf(ssh_polled) THEN 1 ELSE 0
  BY <1>2, SshInIs DEF SshOnceInv
<1>4. Cardinality({i \in DOMAIN stack :
          /\ stack[i].kind = "ssh"
          /\ \E k \in DOMAIN stack[i].rest : stack[i].rest[k].op = op /\ stack[i].rest[k].n = n})
        = IF Pair(op, n) \in PairsBegun THEN 1 ELSE 0
  <2> DEFINE T == {i \in DOMAIN stack :
                     /\ stack[i].kind = "ssh"
                     /\ \E k \in DOMAIN stack[i].rest :
                          stack[i].rest[k].op = op /\ stack[i].rest[k].n = n}
  <2>1. ASSUME NEW i \in T, NEW j \in T PROVE ~(i < j)
    <3>1. i \in SshBatchesOf(stack) /\ j \in SshBatchesOf(stack)  BY DEF SshBatchesOf
    <3>2. PICK x \in ToSet(stack[i].rest) : x.op = op /\ x.n = n  BY DEF ToSet
    <3>3. PICK y \in ToSet(stack[j].rest) : y.op = op /\ y.n = n  BY DEF ToSet
    <3>4. i < j => n < n  BY <1>1, <3>1, <3>2, <3>3 DEF SshLine, Rises
    <3>5. n \in Nat  BY <1>1, <3>1, <3>2 DEF SshLine, Emitted
    <3> QED  BY <3>4, <3>5
  <2>2. \A i, j \in T : i = j
    <3>1. \A i \in T : i \in Nat  BY <1>1, SeqIs
    <3> HIDE DEF T
    <3> QED  BY <2>1, <3>1
  <2>3. T = {} <=> Pair(op, n) \notin PairsBegun  BY PairsAre DEF PairsBegun, SshBatchesOf
  <2> HIDE DEF T
  <2>4. Cardinality(T) = IF Pair(op, n) \in PairsBegun THEN 1 ELSE 0  BY <2>2, <2>3, OneIs
  <2> QED  BY <2>4 DEF T
<1>5. Told(LAMBDA ev : ev.of = "ssh" /\ ev.id = op /\ ev.n = n)
        = IF Pair(op, n) \in PairsTold THEN 1 ELSE 0
  <2> DEFINE K == {x.ev : x \in {x \in Tales : x.ev.of = "ssh" /\ x.ev.id = op /\ x.ev.n = n}}
  <2>1. \A x \in Tales : x.ev \in K <=> x.ev.of = "ssh" /\ x.ev.id = op /\ x.ev.n = n  OBVIOUS
  <2>2. ASSUME NEW e \in AllItems, NEW f \in AllItems, e.ev \in K, f.ev \in K
        PROVE  e.cb = f.cb /\ e.ev.n = f.ev.n
    <3>1. /\ e.ev.of = "ssh" /\ e.ev.id = op /\ e.ev.n = n
          /\ f.ev.of = "ssh" /\ f.ev.id = op /\ f.ev.n = n
      BY <2>2
    <3>2. SourceOf(e.ev) = "ssh" /\ SourceOf(f.ev) = "ssh"  BY <3>1 DEF SourceOf
    <3>3. /\ ClaimOf(e).cb = e.cb /\ ClaimOf(e).of = "ssh" /\ ClaimOf(e).id = op
          /\ ClaimOf(f).cb = f.cb /\ ClaimOf(f).of = "ssh" /\ ClaimOf(f).id = op
          /\ ClaimOf(e) \in Claims /\ ClaimOf(f) \in Claims
      BY <3>1, <3>2, ClaimIs DEF Claims
    <3>4. "ssh" \notin Shared  BY DEF Shared
    <3> QED  BY <1>1, <3>1, <3>3, <3>4 DEF ClaimInv
  <2>3. \A p \in Posted : ItemAt(p).ev \in K
            <=> ItemAt(p).ev.of = "ssh" /\ ItemAt(p).ev.id = op /\ ItemAt(p).ev.n = n
    <3> SUFFICES ASSUME NEW p \in Posted
                 PROVE  ItemAt(p).ev \in K
                          <=> ItemAt(p).ev.of = "ssh" /\ ItemAt(p).ev.id = op /\ ItemAt(p).ev.n = n
      OBVIOUS
    <3>1. \E x \in Tales : x.ev = ItemAt(p).ev  BY TalesAre
    <3> QED  BY <2>1, <3>1
  <2>4. \A cb \in Callbacks : \A k \in DOMAIN called[cb] : called[cb][k].ev \in K
            <=> called[cb][k].ev.of = "ssh" /\ called[cb][k].ev.id = op /\ called[cb][k].ev.n = n
    <3> SUFFICES ASSUME NEW cb \in Callbacks, NEW k \in DOMAIN called[cb]
                 PROVE  called[cb][k].ev \in K
                          <=> called[cb][k].ev.of = "ssh" /\ called[cb][k].ev.id = op
                              /\ called[cb][k].ev.n = n
      OBVIOUS
    <3>1. \E x \in Tales : x.ev = called[cb][k].ev  BY TalesAre
    <3> QED  BY <2>1, <3>1
  <2>5. (\E x \in Tales : x.ev \in K) <=> Pair(op, n) \in PairsTold
    <3>1. \A x \in Tales : x.ev \in K <=> x \in TalesOf("ssh") /\ x.ev.id = op /\ x.ev.n = n
      BY <2>1 DEF TalesOf, SourceOf
    <3>2. Pair(op, n) \in PairsTold <=> \E x \in TalesOf("ssh") : x.ev.id = op /\ x.ev.n = n
      BY PairIs DEF PairsTold
    <3> HIDE DEF K
    <3> QED  BY <3>1, <3>2 DEF TalesOf
  <2> HIDE DEF K
  <2>6. Cardinality({p \in Posted : ItemAt(p).ev \in K})
        + Cardinality(UNION {{<<cb, k>> : k \in {k \in DOMAIN called[cb] : called[cb][k].ev \in K}}
                                 : cb \in Callbacks})
        = IF Pair(op, n) \in PairsTold THEN 1 ELSE 0
    BY <2>2, <2>5, ToldIs
  <2>7. {p \in Posted : ItemAt(p).ev \in K}
          = {p \in Posted : ItemAt(p).ev.of = "ssh" /\ ItemAt(p).ev.id = op /\ ItemAt(p).ev.n = n}
    BY <2>3
  <2>8. UNION {{<<cb, k>> : k \in {k \in DOMAIN called[cb] : called[cb][k].ev \in K}} : cb \in Callbacks}
          = UNION {{<<cb, k>> : k \in {k \in DOMAIN called[cb] :
                called[cb][k].ev.of = "ssh" /\ called[cb][k].ev.id = op /\ called[cb][k].ev.n = n}}
                                   : cb \in Callbacks}
    BY <2>4
  <2> QED  BY <2>6, <2>7, <2>8 DEF Told
<1>6. Pair(op, n) \in PairsEmitted
  BY DEF PairsEmitted
<1>7. Parts5(PairsEmitted, PairsOf(ssh_queue), PairsOf(buffered_events), PairsOf(ssh_polled),
             PairsBegun, PairsTold)
  BY DEF SshOnceInv
<1> DEFINE r == Pair(op, n)
<1>8. /\ \/ r \in PairsOf(ssh_queue) \/ r \in PairsOf(buffered_events)
         \/ r \in PairsOf(ssh_polled) \/ r \in PairsBegun \/ r \in PairsTold
      /\ r \in PairsOf(ssh_queue) => /\ r \notin PairsOf(buffered_events)
                                     /\ r \notin PairsOf(ssh_polled)
                                     /\ r \notin PairsBegun /\ r \notin PairsTold
      /\ r \in PairsOf(buffered_events) => /\ r \notin PairsOf(ssh_polled)
                                           /\ r \notin PairsBegun /\ r \notin PairsTold
      /\ r \in PairsOf(ssh_polled) => r \notin PairsBegun /\ r \notin PairsTold
      /\ r \in PairsBegun => r \notin PairsTold
  <2> HIDE DEF r
  <2> QED  BY <1>6, <1>7 DEF Parts2, Parts3, Parts4, Parts5, r
<1> QED  BY <1>3, <1>4, <1>5, <1>8

LEMMA SshCallbacksDoAgree ==
    ASSUME RegistryInv, SshAliveInv
    PROVE  SshCallbacksAgree
<1> SUFFICES ASSUME stack = <<>> PROVE registry = Alive
  BY DEF SshCallbacksAgree, SshAliveInv
<1>1. ~Dispatches(stack)
  BY DEF Dispatches
<1>2. deferred = {} /\ retired = {}
  BY <1>1, DepthIs DEF RegistryInv
<1> QED  BY <1>2 DEF Alive

LEMMA UploadsDoHaveEntries ==
    ASSUME UploadInv
    PROVE  UploadsHaveEntries
<1>1. \A id \in ToSet(cubemap_uploads) : Itself[id] = id
  BY DEF UploadInv, Itself
<1> QED  BY <1>1 DEF UploadInv, UploadsHaveEntries, GoesOn

-----------------------------------------------------------------------------
(* What a step does to what was told, to the callbacks, and to the frames  *)
(* of lua_ssh_dispatch.                                                    *)

TalesIn(A) == {Item(e.cb, e.ev) : e \in A}

\* Sources whose callbacks nobody takes away before they were told all.
Secure == {"http", "job", "load", "ssh"}

\* The tales in T are told; if some are lost, it is of other sources.
Tells(T) ==
    /\ T \subseteq Tales' /\ Tales' \subseteq Tales \cup T
    /\ \A x \in Tales \ Tales' : SourceOf(x.ev) \notin Secure

\* Callbacks are taken away from the sources of the kinds in S alone.
Leaves(S) == \A c \in Claims : c.of \notin S => (c.cb \in Alive' <=> c.cb \in Alive)

SshAside ==
    /\ \A p \in SshBatchesOf(stack') : p \in SshBatchesOf(stack) /\ stack'[p] = stack[p]
    /\ SshBatchesOf(stack) \subseteq SshBatchesOf(stack')
    /\ \A p \in BatchesOf(stack') : \A e \in ToSet(stack'[p].rest), op \in Ops :
          SshItem(e, op, op_callback) => \E r \in BatchesOf(stack) : e \in ToSet(stack[r].rest)

LEMMA TellsOf ==
    ASSUME NEW T, Tells(T), NEW of
    PROVE  /\ TalesOf(of)' \subseteq TalesOf(of) \cup {x \in T : SourceOf(x.ev) = of}
           /\ {x \in T : SourceOf(x.ev) = of} \subseteq TalesOf(of)'
           /\ of \in Secure => TalesOf(of) \subseteq TalesOf(of)'
  BY DEF Tells, TalesOf

\* A source tells, and keeps its callbacks.
LEMMA AnsweringGrows ==
    ASSUME AnswersInv, NEW T, Tells(T), NEW S, Leaves(S), NEW of, of \notin S, of \in Secure,
           Answering(of),
           \A x \in T : SourceOf(x.ev) = of => x.ev.n = 0 /\ x.cb \in Alive'
    PROVE  /\ Answering(of)'
           /\ IdsTold(of)' = IdsTold(of) \cup {x.ev.id : x \in {x \in T : SourceOf(x.ev) = of}}
<1>1. TalesOf(of)' = TalesOf(of) \cup {x \in T : SourceOf(x.ev) = of}
  BY TellsOf
<1>2. ASSUME NEW x \in TalesOf(of) PROVE x.ev.n = 0 /\ x.cb \in Alive'
  <2>1. x \in Tales /\ SourceOf(x.ev) = of  BY DEF TalesOf
  <2>2. Claim(x.cb, of, x.ev.id) \in Claims  BY <2>1, TalesAre
  <2>3. Claim(x.cb, of, x.ev.id).cb = x.cb /\ Claim(x.cb, of, x.ev.id).of = of  BY ClaimIs
  <2> QED  BY <2>2, <2>3 DEF Leaves, Answering
<1>3. Answering(of)'
  BY <1>1, <1>2 DEF Answering
<1>4. IdsTold(of)' = {x.ev.id : x \in TalesOf(of)'}
  BY DEF IdsTold
<1> QED  BY <1>1, <1>3, <1>4 DEF IdsTold

LEMMA AnsweringStays ==
    ASSUME AnswersInv, NEW T, Tells(T), NEW S, Leaves(S), NEW of, of \notin S, of \in Secure,
           Answering(of), \A x \in T : SourceOf(x.ev) # of
    PROVE  Answering(of)' /\ IdsTold(of)' = IdsTold(of)
<1>1. {x \in T : SourceOf(x.ev) = of} = {}
  OBVIOUS
<1>2. \A x \in T : SourceOf(x.ev) = of => x.ev.n = 0 /\ x.cb \in Alive'
  OBVIOUS
<1>3. /\ Answering(of)'
      /\ IdsTold(of)' = IdsTold(of) \cup {x.ev.id : x \in {x \in T : SourceOf(x.ev) = of}}
  BY <1>2, AnsweringGrows
<1> QED  BY <1>1, <1>3

\* A callback that a table has is left alone.
LEMMA TableStays ==
    ASSUME NEW S, Leaves(S), NEW cb, NEW of, NEW id, Claim(cb, of, id) \in Tables, of \notin S
    PROVE  cb \in Alive' <=> cb \in Alive
<1>1. Claim(cb, of, id) \in Claims
  BY DEF Claims
<1>2. Claim(cb, of, id).cb = cb /\ Claim(cb, of, id).of = of
  BY ClaimIs
<1> QED  BY <1>1, <1>2 DEF Leaves

-----------------------------------------------------------------------------
(* Steps of the others.                                                    *)

LEMMA HttpStaysOnce ==
    ASSUME AnswersInv, HttpOnceInv, NEW T, Tells(T), NEW S, Leaves(S), "http" \notin S,
           \A x \in T : SourceOf(x.ev) # "http",
           UNCHANGED <<http_next, http_pending, performing, completed>>, UNCHANGED lhVars
    PROVE  HttpOnceInv'
<1>1. Answering("http")' /\ IdsTold("http")' = IdsTold("http")
  <2>1. "http" \in Secure  BY DEF Secure
  <2> QED  BY <2>1, AnsweringStays DEF HttpOnceInv
<1>2. UNCHANGED <<callback_ids, stream_callback_ids, buffered, polled>>
  BY DEF lhVars
<1>3. \A id \in DOMAIN callback_ids : callback_ids[id] \in Alive'
  <2> SUFFICES ASSUME NEW id \in DOMAIN callback_ids PROVE callback_ids[id] \in Alive'  OBVIOUS
  <2>1. Claim(callback_ids[id], "http", id) \in Tables  BY DEF Tables, HttpClaims
  <2> QED  BY <2>1, TableStays DEF HttpOnceInv
<1>4. UNCHANGED <<Given, Queued, Performing, IdsOf(completed), IdsOf(buffered), IdsOf(polled)>>
  BY <1>2 DEF Given, Queued, Performing, Performs, IdsOf
<1>5. Parts6(Given, Queued, Performing, IdsOf(completed), IdsOf(buffered), IdsOf(polled),
             IdsTold("http"))'
  BY <1>1, <1>4 DEF HttpOnceInv, Parts6, Parts5, Parts4, Parts3, Parts2
<1>6. /\ IsSeq(buffered)' /\ IsSeq(polled)' /\ DistinctIds(buffered)' /\ DistinctIds(polled)'
      /\ (DOMAIN callback_ids \cap DOMAIN stream_callback_ids = {})'
  BY <1>2 DEF HttpOnceInv
<1>7. (\A id \in DOMAIN callback_ids : callback_ids[id] \in Alive)'
  BY <1>2, <1>3
<1> QED  BY <1>1, <1>5, <1>6, <1>7 DEF HttpOnceInv

LEMMA JobsStayOnce ==
    ASSUME AnswersInv, JobOnceInv, NEW T, Tells(T), NEW S, Leaves(S), "job" \notin S,
           \A x \in T : SourceOf(x.ev) # "job", UNCHANGED ljVars
    PROVE  JobOnceInv'
<1>1. Answering("job")' /\ IdsTold("job")' = IdsTold("job")
  <2>1. "job" \in Secure  BY DEF Secure
  <2> QED  BY <2>1, AnsweringStays DEF JobOnceInv
<1>2. UNCHANGED <<phase, job_results, job_callbacks, buffered_results, job_polled>>
  BY DEF ljVars
<1>3. \A id \in DOMAIN job_callbacks : job_callbacks[id] \in Alive'
  <2> SUFFICES ASSUME NEW id \in DOMAIN job_callbacks PROVE job_callbacks[id] \in Alive'  OBVIOUS
  <2>1. Claim(job_callbacks[id], "job", id) \in Tables  BY DEF Tables, JobClaims
  <2> QED  BY <2>1, TableStays DEF JobOnceInv
<1> QED  BY <1>1, <1>2, <1>3 DEF JobOnceInv

LEMMA LoadsStayOnce ==
    ASSUME AnswersInv, LoadOnceInv, NEW T, Tells(T), NEW S, Leaves(S), "load" \notin S,
           \A x \in T : SourceOf(x.ev) # "load",
           UNCHANGED <<loads, load_failed, pending_loads, texture_uploads, cubemap_uploads>>
    PROVE  LoadOnceInv'
<1>1. Answering("load")' /\ IdsTold("load")' = IdsTold("load")
  <2>1. "load" \in Secure  BY DEF Secure
  <2> QED  BY <2>1, AnsweringStays DEF LoadOnceInv
<1>2. \A id \in LoadsCalled : loads[id].cb \in Alive'
  <2> SUFFICES ASSUME NEW id \in LoadsCalled PROVE loads[id].cb \in Alive'  OBVIOUS
  <2>1. Claim(loads[id].cb, "load", id) \in Tables  BY DEF Tables, LoadClaims, LoadsCalled
  <2> QED  BY <2>1, TableStays DEF LoadOnceInv
<1>3. LoadsCalled' = LoadsCalled /\ Loading' = Loading
  BY DEF LoadsCalled, Loading
<1> QED  BY <1>1, <1>2, <1>3 DEF LoadOnceInv

LEMMA ProcessesStayOnce ==
    ASSUME ProcOnceInv, NEW T, Tells(T), \A x \in T : SourceOf(x.ev) # "process", UNCHANGED lpVars
    PROVE  ProcOnceInv'
<1>1. TalesOf("process")' \subseteq TalesOf("process")
  BY TellsOf
<1>2. IdsTold("process")' \subseteq IdsTold("process")
  <2>1. IdsTold("process")' = {x.ev.id : x \in TalesOf("process")'}  BY DEF IdsTold
  <2> QED  BY <1>1, <2>1 DEF IdsTold
<1>3. UNCHANGED <<proc_next, processes, proc_callback, proc_given>>
  BY DEF lpVars
<1>4. GivenOut' = GivenOut /\ Spawned' = Spawned
  BY <1>3 DEF GivenOut, Spawned
<1> QED  BY <1>1, <1>2, <1>3, <1>4 DEF ProcOnceInv

-----------------------------------------------------------------------------
(* How the kinds of steps move what waits.                                 *)

LEMMA ToldWaiting ==
    ASSUME NEW A, UNCHANGED called, WaitsIn(queue', stack') = WaitsIn(queue, stack) \cup A
    PROVE  Tells(TalesIn(A))
<1>1. AllItems' = AllItems \cup A
  BY DEF AllItems, AllIn
<1>2. Tales' = Tales \cup TalesIn(A)
  <2>1. Tales' = {Item(e.cb, e.ev) : e \in AllItems'}  BY DEF Tales
  <2> QED  BY <1>1, <2>1 DEF Tales, TalesIn
<1> QED  BY <1>2 DEF Tells

\* The same batches.
LEMMA SameBatches ==
    ASSUME NEW q, NEW s, NEW t,
           \A p \in BatchesOf(s) : p \in BatchesOf(t) /\ t[p].rest = s[p].rest,
           \A p \in BatchesOf(t) : p \in BatchesOf(s) \/ ToSet(t[p].rest) = {}
    PROVE  WaitsIn(q, t) = WaitsIn(q, s)
<1>1. \A p \in BatchesOf(s) : ToSet(s[p].rest) = ToSet(t[p].rest)
  OBVIOUS
<1>2. ASSUME NEW e \in WaitsIn(q, s) PROVE e \in WaitsIn(q, t)
  <2>1. CASE e \in ToSet(q)  BY <2>1 DEF WaitsIn
  <2>2. ASSUME NEW p \in BatchesOf(s), e \in ToSet(s[p].rest) PROVE e \in WaitsIn(q, t)
    BY <1>1, <2>2 DEF WaitsIn
  <2> QED  BY <2>1, <2>2 DEF WaitsIn
<1>3. ASSUME NEW e \in WaitsIn(q, t) PROVE e \in WaitsIn(q, s)
  <2>1. CASE e \in ToSet(q)  BY <2>1 DEF WaitsIn
  <2>2. ASSUME NEW p \in BatchesOf(t), e \in ToSet(t[p].rest) PROVE e \in WaitsIn(q, s)
    <3>1. p \in BatchesOf(s)  BY <2>2
    <3> QED  BY <1>1, <2>2, <3>1 DEF WaitsIn
  <2> QED  BY <2>1, <2>2 DEF WaitsIn
<1> QED  BY <1>2, <1>3

LEMMA WaitsPosted ==
    ASSUME NEW q, NEW s, NEW items, IsSeq(q), IsSeq(items)
    PROVE  WaitsIn(q \o items, s) = WaitsIn(q, s) \cup ToSet(items)
<1>1. ToSet(q \o items) = ToSet(q) \cup ToSet(items)
  BY ConcatIs
<1> QED  BY <1>1 DEF WaitsIn

\* A batch is taken of q.
LEMMA WaitsTaken ==
    ASSUME NEW s, NEW q, IsSeq(s), IsSeq(q), NEW ids, NEW max, DispatchFrom(s, q, ids, max)
    PROVE  /\ WaitsIn(queue', stack') = WaitsIn(q, s)
           /\ SshBatchesOf(stack') = SshBatchesOf(s)
           /\ \A p \in SshBatchesOf(s) : stack'[p] = s[p]
           /\ \A p \in BatchesOf(stack') : \/ p \in BatchesOf(s) /\ stack'[p] = s[p]
                                           \/ ToSet(stack'[p].rest) \subseteq ToSet(q)
<1> DEFINE taken == TakenAt(q, ids, max)
           b == At(q, taken)
           r == At(q, DOMAIN q \ taken)
           f == Frame("dispatch", b, NoItem)
           n == Len(s)
<1>1. taken \in SUBSET DOMAIN q /\ DOMAIN q \ taken \in SUBSET DOMAIN q
  BY DEF TakenAt
<1>2. queue' = r /\ IF taken = {} THEN stack' = s ELSE stack' = Append(s, f)
  BY DEF DispatchFrom
<1> HIDE DEF taken
<1>3. ToSet(b) = {q[i] : i \in taken} /\ ToSet(r) = {q[i] : i \in DOMAIN q \ taken}
  BY <1>1, AtIs
<1>4. ToSet(q) = ToSet(b) \cup ToSet(r)
  BY <1>1, <1>3 DEF ToSet
<1>5. f.kind = "dispatch" /\ f.rest = b
  BY DEF Frame
<1> HIDE DEF b, r, f
<1>6. CASE taken = {}
  <2>1. stack' = s /\ ToSet(queue') = ToSet(q)  BY <1>2, <1>3, <1>4, <1>6
  <2> QED  BY <2>1 DEF WaitsIn
<1>7. CASE taken # {}
  <2>1. stack' = Append(s, f)  BY <1>2, <1>7
  <2>2. /\ n \in Nat /\ DOMAIN s = 1..n /\ DOMAIN stack' = 1..(n + 1) /\ stack'[n + 1] = f
        /\ \A i \in 1..n : stack'[i] = s[i]
    <3>1. n \in Nat /\ DOMAIN s = 1..n  BY SeqIs
    <3>2. /\ IsSeq(Append(s, f)) /\ Len(Append(s, f)) = n + 1 /\ Append(s, f)[n + 1] = f
          /\ \A i \in 1..n : Append(s, f)[i] = s[i]
      BY AppendIs
    <3>3. DOMAIN Append(s, f) = 1..Len(Append(s, f))  BY <3>2, SeqIs
    <3> QED  BY <2>1, <3>1, <3>2, <3>3
  <2> HIDE DEF n
  <2>3. n + 1 \in DOMAIN stack' /\ n + 1 \notin DOMAIN s  BY <2>2
  <2>4. \A i \in DOMAIN stack' : i = n + 1 \/ (i \in DOMAIN s /\ stack'[i] = s[i])  BY <2>2
  <2>5. \A i \in DOMAIN s : i \in DOMAIN stack' /\ stack'[i] = s[i]  BY <2>2
  <2>6. BatchesOf(stack') = BatchesOf(s) \cup {n + 1} /\ SshBatchesOf(stack') = SshBatchesOf(s)
    BY <1>5, <2>2, <2>3, <2>4, <2>5 DEF BatchesOf, SshBatchesOf
  <2>7. \A p \in BatchesOf(s) : stack'[p] = s[p]  BY <2>5 DEF BatchesOf
  <2>8. stack'[n + 1].rest = b  BY <1>5, <2>2
  <2>9. ASSUME NEW e \in WaitsIn(q, s) PROVE e \in WaitsIn(queue', stack')
    <3>1. CASE e \in ToSet(r)  BY <1>2, <3>1, AllIs
    <3>2. CASE e \in ToSet(b)  BY <2>6, <2>8, <3>2, AllIs
    <3>3. CASE \E p \in BatchesOf(s) : e \in ToSet(s[p].rest)  BY <2>6, <2>7, <3>3, AllIs
    <3> QED  BY <1>4, <2>9, <3>1, <3>2, <3>3, AllIs
  <2>10. ASSUME NEW e \in WaitsIn(queue', stack') PROVE e \in WaitsIn(q, s)
    <3>1. CASE e \in ToSet(queue')  BY <1>2, <1>4, <3>1, AllIs
    <3>2. ASSUME NEW p \in BatchesOf(stack'), e \in ToSet(stack'[p].rest) PROVE e \in WaitsIn(q, s)
      <4>1. CASE p = n + 1  BY <1>4, <2>8, <3>2, <4>1, AllIs
      <4>2. CASE p # n + 1  BY <2>6, <2>7, <3>2, <4>2, AllIs
      <4> QED  BY <4>1, <4>2
    <3> QED  BY <3>1, <3>2, AllIs
  <2>11. \A p \in SshBatchesOf(s) : stack'[p] = s[p]  BY <2>5 DEF SshBatchesOf
  <2>12. \A p \in BatchesOf(stack') : \/ p \in BatchesOf(s) /\ stack'[p] = s[p]
                                      \/ ToSet(stack'[p].rest) \subseteq ToSet(q)
    BY <1>4, <2>6, <2>7, <2>8
  <2> QED  BY <2>6, <2>9, <2>10, <2>11, <2>12
<1> QED  BY <1>6, <1>7

-----------------------------------------------------------------------------
(* The steps that are not of the ssh module.                               *)

LEMMA StayingTells ==
    ASSUME UNCHANGED <<queue, stack, called>>
    PROVE  Tells({}) /\ SshAside
<1>1. WaitsIn(queue', stack') = WaitsIn(queue, stack) \cup {} /\ TalesIn({}) = {}
  BY DEF TalesIn
<1>2. Tells({})
  BY <1>1, ToldWaiting
<1> QED  BY <1>2 DEF SshAside

LEMMA PostingTells ==
    ASSUME IsSeq(queue), NEW items, IsSeq(items), queue' = queue \o items,
           UNCHANGED <<stack, called>>
    PROVE  Tells(TalesIn(ToSet(items))) /\ SshAside
<1>1. WaitsIn(queue', stack') = WaitsIn(queue, stack) \cup ToSet(items)
  BY WaitsPosted
<1>2. Tells(TalesIn(ToSet(items)))
  BY <1>1, ToldWaiting
<1> QED  BY <1>2 DEF SshAside

LEMMA TakingTells ==
    ASSUME FrameInv, Ordered, NEW items, IsSeq(items), NoSshItems(ToSet(items), op_callback),
           NEW ids, NEW max, DispatchFrom(stack, queue \o items, ids, max), UNCHANGED called
    PROVE  Tells(TalesIn(ToSet(items))) /\ SshAside
<1> DEFINE q == queue \o items
<1>1. IsSeq(queue) /\ IsSeq(stack) /\ NoSshItems(ToSet(queue), op_callback)
  BY DEF FrameInv, Ordered, SshOrder, SshWaits
<1>2. IsSeq(q) /\ ToSet(q) = ToSet(queue) \cup ToSet(items)
      /\ WaitsIn(q, stack) = WaitsIn(queue, stack) \cup ToSet(items)
  BY <1>1, ConcatIs, WaitsPosted
<1>3. DispatchFrom(stack, q, ids, max)
  OBVIOUS
<1> HIDE DEF q
<1>4. /\ WaitsIn(queue', stack') = WaitsIn(q, stack)
      /\ SshBatchesOf(stack') = SshBatchesOf(stack)
      /\ \A p \in SshBatchesOf(stack) : stack'[p] = stack[p]
      /\ \A p \in BatchesOf(stack') : \/ p \in BatchesOf(stack) /\ stack'[p] = stack[p]
                                      \/ ToSet(stack'[p].rest) \subseteq ToSet(q)
  BY <1>1, <1>2, <1>3, WaitsTaken
<1>5. Tells(TalesIn(ToSet(items)))
  BY <1>2, <1>4, ToldWaiting
<1>6. ASSUME NEW p \in BatchesOf(stack'), NEW e \in ToSet(stack'[p].rest), NEW op \in Ops,
             SshItem(e, op, op_callback)
      PROVE  \E r \in BatchesOf(stack) : e \in ToSet(stack[r].rest)
  <2>1. e \notin ToSet(q)  BY <1>1, <1>2, <1>6 DEF NoSshItems
  <2> QED  BY <1>4, <1>6, <2>1
<1>7. SshAside
  BY <1>4, <1>6 DEF SshAside
<1> QED  BY <1>5, <1>7

LEMMA PushingTells ==
    ASSUME IsSeq(stack), stack' = Append(stack, Frame("close", <<>>, NoItem)),
           UNCHANGED <<queue, called>>
    PROVE  Tells({}) /\ SshAside
<1> DEFINE f == Frame("close", <<>>, NoItem)
           n == Len(stack)
<1>1. /\ n \in Nat /\ DOMAIN stack = 1..n /\ DOMAIN stack' = 1..(n + 1) /\ stack'[n + 1] = f
      /\ \A i \in 1..n : stack'[i] = stack[i]
  <2>1. n \in Nat /\ DOMAIN stack = 1..n  BY SeqIs
  <2>2. /\ IsSeq(Append(stack, f)) /\ Len(Append(stack, f)) = n + 1 /\ Append(stack, f)[n + 1] = f
        /\ \A i \in 1..n : Append(stack, f)[i] = stack[i]
    BY AppendIs
  <2>3. DOMAIN Append(stack, f) = 1..Len(Append(stack, f))  BY <2>2, SeqIs
  <2> QED  BY <2>1, <2>2, <2>3
<1>2. f.kind = "close"
  BY DEF Frame
<1> HIDE DEF f, n
<1>3. /\ BatchesOf(stack') = BatchesOf(stack) /\ SshBatchesOf(stack') = SshBatchesOf(stack)
      /\ \A p \in DOMAIN stack : stack'[p] = stack[p]
  BY <1>1, <1>2 DEF BatchesOf, SshBatchesOf
<1>4. WaitsIn(queue', stack') = WaitsIn(queue, stack) \cup {} /\ TalesIn({}) = {}
  <2>1. \A p \in BatchesOf(stack) : p \in BatchesOf(stack') /\ stack'[p].rest = stack[p].rest
    BY <1>3 DEF BatchesOf
  <2>2. \A p \in BatchesOf(stack') : p \in BatchesOf(stack) \/ ToSet(stack'[p].rest) = {}  BY <1>3
  <2>3. WaitsIn(queue, stack') = WaitsIn(queue, stack)  BY <2>1, <2>2, SameBatches
  <2> QED  BY <2>3 DEF TalesIn
<1>5. Tells({})
  BY <1>4, ToldWaiting
<1>6. SshAside
  BY <1>3 DEF SshAside, BatchesOf, SshBatchesOf
<1> QED  BY <1>5, <1>6

\* The frame on top, which has nothing left, goes.
LEMMA PoppingTells ==
    ASSUME FrameInv, Top.kind = "close" \/ (Top.kind = "dispatch" /\ Top.rest = <<>>),
           stack' = Below
    PROVE  /\ SshAside
           /\ \A q : WaitsIn(q, stack') = WaitsIn(q, stack)
           /\ UNCHANGED <<queue, called>> => Tells({})
<1> DEFINE n == Len(stack)
<1>1. /\ n \in Nat \ {0} /\ DOMAIN stack = 1..n /\ Top = stack[n]
      /\ IsSeq(stack') /\ DOMAIN stack' = 1..(n - 1)
      /\ \A i \in 1..(n - 1) : stack'[i] = stack[i]
  BY TopIs
<1> HIDE DEF n
<1>2. \A p \in DOMAIN stack' : p \in DOMAIN stack /\ p # n /\ stack'[p] = stack[p]
  BY <1>1
<1>3. \A p \in DOMAIN stack : p = n \/ p \in DOMAIN stack'
  BY <1>1
<1>4. n \notin SshBatchesOf(stack) /\ (n \in BatchesOf(stack) => ToSet(stack[n].rest) = {})
  BY <1>1, EmptyIsSeq DEF SshBatchesOf, BatchesOf
<1>5. ASSUME NEW q PROVE WaitsIn(q, stack') = WaitsIn(q, stack)
  <2>1. \A p \in BatchesOf(stack') : p \in BatchesOf(stack) /\ stack[p].rest = stack'[p].rest
    BY <1>2 DEF BatchesOf
  <2>2. \A p \in BatchesOf(stack) : p \in BatchesOf(stack') \/ ToSet(stack[p].rest) = {}
    BY <1>2, <1>3, <1>4 DEF BatchesOf
  <2> QED  BY <2>1, <2>2, SameBatches
<1>6. SshAside
  BY <1>2, <1>3, <1>4 DEF SshAside, BatchesOf, SshBatchesOf
<1>7. ASSUME UNCHANGED <<queue, called>> PROVE Tells({})
  <2>1. WaitsIn(queue', stack') = WaitsIn(queue, stack) \cup {} /\ TalesIn({}) = {}
    BY <1>5, <1>7 DEF TalesIn
  <2> QED  BY <1>7, <2>1, ToldWaiting
<1> QED  BY <1>5, <1>6, <1>7

-----------------------------------------------------------------------------
(* How they leave the callbacks.                                           *)

LEMMA RestingLeaves ==
    ASSUME UNCHANGED <<registry, deferred, retired>>, NEW S
    PROVE  Leaves(S)
  BY DEF Leaves, Alive

LEMMA ReregisterAlive ==
    ASSUME OwnInv, RegistryInv, NEW drop, drop \subseteq 1..(next_id - 1),
           NEW add \in {0, 1}, Reregister(drop, add)
    PROVE  /\ \A cb \in 1..(next_id - 1) : cb \in Alive' <=> cb \in Alive /\ cb \notin drop
           /\ add = 1 => next_id \in Alive'
<1>1. /\ next_id \in Nat \ {0} /\ registry \subseteq 1..(next_id - 1)
      /\ deferred \cup retired \subseteq 0..(next_id - 1)
  BY DEF OwnInv
<1> DEFINE new == next_id .. (next_id + add - 1)
<1>2. /\ \A cb \in 1..(next_id - 1) : cb \notin new
      /\ (add = 1 => next_id \in new)
      /\ \A i : i \in 0..(next_id - 1) \/ i \in 1..(next_id - 1) => i # next_id
  BY <1>1
<1>3. /\ registry' = (IF Depth(stack) > 0 THEN registry ELSE registry \ drop) \cup new
      /\ deferred' = IF Depth(stack) > 0 THEN deferred \cup drop ELSE deferred
      /\ retired' = IF Depth(stack) > 0 THEN retired ELSE retired \ drop
  BY DEF Reregister
<1> HIDE DEF new
<1>4. CASE Depth(stack) > 0
  <2>1. registry' = registry \cup new /\ deferred' = deferred \cup drop /\ retired' = retired
    BY <1>3, <1>4
  <2> QED  BY <1>1, <1>2, <2>1 DEF Alive
<1>5. CASE ~(Depth(stack) > 0)
  <2>1. registry' = (registry \ drop) \cup new /\ deferred' = deferred /\ retired' = retired \ drop
    BY <1>3, <1>5
  <2>2. deferred = {} /\ retired = {}  BY <1>5, DepthIs DEF RegistryInv
  <2> QED  BY <1>1, <1>2, <2>1, <2>2 DEF Alive
<1> QED  BY <1>4, <1>5

\* The callbacks in drop are those of sources of the kinds in S.
Dropping(drop, S) == \A d \in drop : \E c \in Claims : c.cb = d /\ c.of \in S

LEMMA ReregisterLeaves ==
    ASSUME OwnInv, RegistryInv, ClaimInv, NEW drop, NEW add \in {0, 1}, Reregister(drop, add),
           NEW S, Dropping(drop, S)
    PROVE  Leaves(S) /\ (add = 1 => next_id \in Alive')
<1>1. \A c \in Claims : c.cb \in 1..(next_id - 1)
  BY DEF ClaimInv
<1>2. drop \subseteq 1..(next_id - 1)
  BY <1>1 DEF Dropping
<1>3. \A cb \in 1..(next_id - 1) : cb \in Alive' <=> cb \in Alive /\ cb \notin drop
  BY <1>2, ReregisterAlive
<1>4. \A c \in Claims : c.of \notin S => c.cb \notin drop
  BY DEF ClaimInv, Dropping
<1>5. add = 1 => next_id \in Alive'
  BY <1>2, ReregisterAlive
<1> QED  BY <1>1, <1>3, <1>4, <1>5 DEF Leaves

LEMMA EndDispatchLeaves ==
    ASSUME RegistryInv, EndDispatch, NEW S
    PROVE  Leaves(S)
<1>1. retired \subseteq deferred
  BY DEF RegistryInv
<1>2. CASE Depth(Below) = 0
  <2>1. registry' = registry \ deferred /\ retired' = retired \ deferred /\ deferred' = {}
    BY <1>2 DEF EndDispatch
  <2> QED  BY <1>1, <2>1 DEF Leaves, Alive
<1>3. CASE Depth(Below) # 0
  <2>1. UNCHANGED <<registry, deferred, retired>>  BY <1>3 DEF EndDispatch
  <2> QED  BY <2>1, RestingLeaves
<1> QED  BY <1>2, <1>3

LEMMA HandleClaims ==
    ASSUME OwnInv, ClaimInv
    PROVE  \A cb \in Ids : Claim(cb, "realtime", 0) \in Claims
<1> SUFFICES ASSUME NEW cb \in Ids PROVE Claim(cb, "realtime", 0) \in Claims
  OBVIOUS
<1>1. cb # NoCallback
  <2>1. cb \in 1..(next_id - 1)  BY DEF OwnInv, Mine
  <2> QED  BY <2>1 DEF NoCallback
<1>2. cb \in RtCbs
  BY <1>1 DEF RtCbs, Ids, Values
<1> QED  BY <1>2 DEF Claims, Tables, RealtimeClaims

LEMMA ClosedLeaves ==
    ASSUME OwnInv, RegistryInv, ClaimInv, RtClosed
    PROVE  Leaves({"realtime"})
<1>1. \A c \in Claims : c.of # "realtime" => c.cb \notin Ids
  <2> SUFFICES ASSUME NEW c \in Claims, c.cb \in Ids PROVE c.of = "realtime"  OBVIOUS
  <2>1. Claim(c.cb, "realtime", 0) \in Claims  BY HandleClaims
  <2> QED  BY <2>1, ClaimIs DEF ClaimInv
<1>2. CASE Depth(stack) > 0
  <2>1. retired' = retired \cup Ids /\ deferred' = deferred \cup Ids /\ registry' = registry
    BY <1>2 DEF RtClosed
  <2> QED  BY <1>1, <2>1 DEF Leaves, Alive
<1>3. CASE ~(Depth(stack) > 0)
  <2>1. registry' = registry \ Ids /\ retired' = retired /\ deferred' = deferred
    BY <1>3 DEF RtClosed
  <2> QED  BY <1>1, <2>1 DEF Leaves, Alive
<1> QED  BY <1>2, <1>3

\* The queue loses what waits for the handle that closes.
LEMMA ClosedTells ==
    ASSUME OwnInv, FrameInv, ClaimInv, RtClosed
    PROVE  Tells({}) /\ SshAside
<1> DEFINE taken == TakenAt(queue, Ids, 0)
           S == DOMAIN queue \ taken
<1>1. /\ Top.kind = "close" /\ stack' = Below /\ queue' = At(queue, S) /\ called' = called
  BY DEF RtClosed
<1>2. SshAside /\ \A q : WaitsIn(q, stack') = WaitsIn(q, stack)
  BY <1>1, PoppingTells
<1>3. ToSet(queue') = {queue[i] : i \in S}
  <2>1. S \in SUBSET DOMAIN queue /\ IsSeq(queue)  BY DEF FrameInv
  <2> HIDE DEF S
  <2> QED  BY <1>1, <2>1, AtIs
<1>4. \A i \in DOMAIN queue : i \in S \/ queue[i].cb \in Ids
  BY DEF TakenAt
<1> HIDE DEF S
<1>5. ToSet(queue') \subseteq ToSet(queue) /\ \A e \in ToSet(queue) : e \in ToSet(queue') \/ e.cb \in Ids
  <2>1. ASSUME NEW e \in ToSet(queue') PROVE e \in ToSet(queue)
    <3>1. PICK i \in S : e = queue[i]  BY <1>3
    <3>2. i \in DOMAIN queue  BY DEF S
    <3> QED  BY <3>1, <3>2 DEF ToSet
  <2>2. ASSUME NEW e \in ToSet(queue) PROVE e \in ToSet(queue') \/ e.cb \in Ids
    <3>1. PICK i \in DOMAIN queue : e = queue[i]  BY DEF ToSet
    <3> QED  BY <1>3, <1>4, <3>1
  <2> QED  BY <2>1, <2>2
<1>6. WaitsIn(queue', stack') = WaitsIn(queue', stack)
  BY <1>2
<1>7. /\ AllItems' \subseteq AllItems
      /\ \A e \in AllItems \ AllItems' : e.cb \in Ids
  BY <1>1, <1>5, <1>6 DEF AllItems, AllIn, WaitsIn
<1>8. Tales' = {Item(e.cb, e.ev) : e \in AllItems'}
  BY DEF Tales
<1>9. ASSUME NEW x \in Tales \ Tales' PROVE SourceOf(x.ev) \notin Secure
  <2>1. PICK e \in AllItems : x = Item(e.cb, e.ev)  BY DEF Tales
  <2>2. e.cb \in Ids  BY <1>7, <1>8, <1>9, <2>1
  <2>3. Claim(e.cb, "realtime", 0) \in Claims /\ ClaimOf(e) \in Claims
    BY <2>2, HandleClaims DEF Claims
  <2>4. SourceOf(e.ev) = "realtime"  BY <2>3, ClaimIs DEF ClaimInv
  <2> QED  BY <2>1, <2>4 DEF Secure, Item
<1>10. Tales' \subseteq Tales
  BY <1>7, <1>8 DEF Tales
<1>11. Tells({})
  BY <1>9, <1>10 DEF Tells
<1> QED  BY <1>2, <1>11

-----------------------------------------------------------------------------
(* The next event of a batch is told, or skipped.                          *)

\* e, the next event of the batch on top.
LEMMA CallNextTakes ==
    ASSUME FrameInv, OwnInv, CallNext
    PROVE  /\ BatchesOf(stack') = BatchesOf(stack) /\ SshBatchesOf(stack') = SshBatchesOf(stack)
           /\ \A p \in SshBatchesOf(stack) : stack'[p] = stack[p]
           /\ \A p \in BatchesOf(stack) : ToSet(stack'[p].rest) \subseteq ToSet(stack[p].rest)
           /\ \E e : /\ \E p \in BatchesOf(stack) : e \in ToSet(stack[p].rest)
                     /\ WaitsIn(queue, stack) = WaitsIn(queue', stack') \cup {e}
                     /\ HeardIn(called') = IF e.cb \in registry /\ e.cb \notin retired
                                           THEN HeardIn(called) \cup {Item(e.cb, e.ev)}
                                           ELSE HeardIn(called)
<1> DEFINE n == Len(stack)
           b == stack[n].rest
           e == Head(b)
           r == Tail(b)
           call == e.cb \in registry /\ e.cb \notin retired
           x == [ev |-> e.ev, depth |-> Depth(stack)]
           f == Frame("dispatch", r, IF call THEN e ELSE NoItem)
<1>1. Top.kind = "dispatch" /\ Top.rest # <<>> /\ queue' = queue
  BY DEF CallNext
<1>2. /\ n \in Nat \ {0} /\ DOMAIN stack = 1..n /\ Top = stack[n]
      /\ IsSeq(Append(Below, f)) /\ DOMAIN Append(Below, f) = 1..n
      /\ Append(Below, f)[n] = f /\ \A i \in 1..(n - 1) : Append(Below, f)[i] = stack[i]
  BY <1>1, TopIs, ReplacedIs
<1>3. /\ stack' = Append(Below, f)
      /\ called' = IF call THEN [called EXCEPT ![e.cb] = Append(@, x)] ELSE called
  BY <1>1, <1>2 DEF CallNext
<1>4. f.kind = "dispatch" /\ f.rest = r /\ x.ev = e.ev
  BY DEF Frame
<1>5. stack[n].kind = "dispatch" /\ stack[n].rest = b
  BY <1>1, <1>2
<1> HIDE DEF f, x, n
<1>6. IsSeq(b) /\ b # <<>>
  BY <1>1, <1>2, <1>5 DEF FrameInv
<1> HIDE DEF b
<1>7. IsSeq(r) /\ ToSet(b) = ToSet(r) \cup {e}
  BY <1>6, TailIs
<1> HIDE DEF r, e
<1>8. /\ DOMAIN stack' = 1..n /\ stack'[n] = f /\ \A i \in 1..n : i # n => stack'[i] = stack[i]
  BY <1>2, <1>3
<1>9. /\ BatchesOf(stack') = BatchesOf(stack) /\ SshBatchesOf(stack') = SshBatchesOf(stack)
      /\ \A p \in SshBatchesOf(stack) : stack'[p] = stack[p]
      /\ n \in BatchesOf(stack)
      /\ \A p \in BatchesOf(stack) : p # n => stack'[p] = stack[p]
      /\ ToSet(stack[n].rest) = ToSet(stack'[n].rest) \cup {e}
  BY <1>2, <1>4, <1>5, <1>7, <1>8 DEF BatchesOf, SshBatchesOf
<1>10. \A p \in BatchesOf(stack) : ToSet(stack'[p].rest) \subseteq ToSet(stack[p].rest)
  BY <1>9
<1>11. \E p \in BatchesOf(stack) : e \in ToSet(stack[p].rest)
  BY <1>9
<1>12. WaitsIn(queue, stack) = WaitsIn(queue', stack') \cup {e}
  <2>1. \A y \in WaitsIn(queue, stack) : y \in WaitsIn(queue', stack') \cup {e}
    BY <1>1, <1>9 DEF WaitsIn
  <2>2. \A y \in WaitsIn(queue', stack') : y \in WaitsIn(queue, stack)
    BY <1>1, <1>9, <1>10 DEF WaitsIn
  <2>3. e \in WaitsIn(queue, stack)  BY <1>11 DEF WaitsIn
  <2> QED  BY <2>1, <2>2, <2>3
<1>13. HeardIn(called') = IF call THEN HeardIn(called) \cup {Item(e.cb, e.ev)} ELSE HeardIn(called)
  <2>1. CASE call
    <3>1. e.cb \in Callbacks /\ DOMAIN called = Callbacks /\ IsSeq(called[e.cb])
      BY <2>1, GivenAreCallbacks DEF OwnInv, FrameInv
    <3>2. called'[e.cb] = Append(called[e.cb], x) /\ \A cb \in Callbacks : cb # e.cb => called'[cb] = called[cb]
      BY <1>3, <2>1, <3>1
    <3> DEFINE m == Len(called[e.cb])
    <3>3. m \in Nat /\ DOMAIN called[e.cb] = 1..m  BY <3>1, SeqIs
    <3>4. /\ IsSeq(Append(called[e.cb], x)) /\ Len(Append(called[e.cb], x)) = m + 1
          /\ Append(called[e.cb], x)[m + 1] = x
          /\ \A i \in 1..m : Append(called[e.cb], x)[i] = called[e.cb][i]
      BY <3>1, AppendIs
    <3>5. DOMAIN Append(called[e.cb], x) = 1..(m + 1)  BY <3>4, SeqIs
    <3> HIDE DEF m
    <3>6. /\ DOMAIN called'[e.cb] = 1..(m + 1) /\ called'[e.cb][m + 1].ev = e.ev
          /\ \A i \in 1..m : called'[e.cb][i] = called[e.cb][i]
      BY <1>4, <3>2, <3>4, <3>5
    <3>7. ASSUME NEW y \in HeardIn(called) PROVE y \in HeardIn(called')
      <4>5. PICK cb \in Callbacks : \E k \in DOMAIN called[cb] : y = Item(cb, called[cb][k].ev)
        BY DEF HeardIn
      <4>1. PICK k \in DOMAIN called[cb] : y = Item(cb, called[cb][k].ev)  BY <4>5
      <4>2. k \in DOMAIN called'[cb] /\ called'[cb][k] = called[cb][k]
        <5>1. CASE cb = e.cb  BY <3>3, <3>6, <5>1
        <5>2. CASE cb # e.cb  BY <3>2, <5>2
        <5> QED  BY <5>1, <5>2
      <4> QED  BY <4>1, <4>2 DEF HeardIn
    <3>8. Item(e.cb, e.ev) \in HeardIn(called')
      <4>1. m + 1 \in DOMAIN called'[e.cb]  BY <3>3, <3>6
      <4> QED  BY <3>1, <3>6, <4>1 DEF HeardIn
    <3>9. ASSUME NEW y \in HeardIn(called') PROVE y \in HeardIn(called) \cup {Item(e.cb, e.ev)}
      <4>5. PICK cb \in Callbacks : \E k \in DOMAIN called'[cb] : y = Item(cb, called'[cb][k].ev)
        BY DEF HeardIn
      <4>1. PICK k \in DOMAIN called'[cb] : y = Item(cb, called'[cb][k].ev)  BY <4>5
      <4>2. CASE cb = e.cb /\ k = m + 1  BY <3>6, <4>1, <4>2
      <4>3. CASE cb = e.cb /\ k # m + 1
        <5>1. k \in DOMAIN called[cb] /\ called'[cb][k] = called[cb][k]  BY <3>3, <3>6, <4>3
        <5> QED  BY <4>1, <5>1 DEF HeardIn
      <4>4. CASE cb # e.cb
        <5>1. called'[cb] = called[cb]  BY <3>2, <4>4
        <5> QED  BY <4>1, <5>1 DEF HeardIn
      <4> QED  BY <4>2, <4>3, <4>4
    <3> QED  BY <2>1, <3>7, <3>8, <3>9
  <2>2. CASE ~call  BY <1>3, <2>2
  <2> QED  BY <2>1, <2>2
<1> QED  BY <1>9, <1>10, <1>11, <1>12, <1>13

LEMMA CallNextTells ==
    ASSUME FrameInv, OwnInv, CallNext, Answering("http"), Answering("job"), Answering("load"),
           SshAliveInv, \A x \in TalesOf("ssh") : SshTale(x)
    PROVE  Tells({}) /\ SshAside
<1>1. /\ BatchesOf(stack') = BatchesOf(stack) /\ SshBatchesOf(stack') = SshBatchesOf(stack)
      /\ \A p \in SshBatchesOf(stack) : stack'[p] = stack[p]
      /\ \A p \in BatchesOf(stack) : ToSet(stack'[p].rest) \subseteq ToSet(stack[p].rest)
  BY CallNextTakes
<1>2. PICK e : /\ \E p \in BatchesOf(stack) : e \in ToSet(stack[p].rest)
               /\ WaitsIn(queue, stack) = WaitsIn(queue', stack') \cup {e}
               /\ HeardIn(called') = IF e.cb \in registry /\ e.cb \notin retired
                                     THEN HeardIn(called) \cup {Item(e.cb, e.ev)}
                                     ELSE HeardIn(called)
  BY CallNextTakes
<1> DEFINE x == Item(e.cb, e.ev)
<1>3. x.cb = e.cb /\ x.ev = e.ev /\ Item(x.cb, x.ev) = x
  BY DEF Item
<1>4. SshAside
  BY <1>1 DEF SshAside
<1> HIDE DEF x
<1>5. x \in Tales
  BY <1>2 DEF Tales, AllItems, AllIn, x
<1>6. Tales' \subseteq Tales
  <2>1. \A y \in AllItems' : y \in AllItems \/ y = x  BY <1>2 DEF AllItems, AllIn, x
  <2> QED  BY <1>3, <1>5, <2>1 DEF Tales
<1>7. \A y \in Tales \ Tales' : y = x /\ ~(e.cb \in registry /\ e.cb \notin retired)
  <2>1. \A y \in AllItems : y \in AllItems' \/ y = e  BY <1>2 DEF AllItems, AllIn
  <2>2. e.cb \in registry /\ e.cb \notin retired => x \in AllItems'  BY <1>2 DEF AllItems, AllIn, x
  <2>3. \A y \in Tales \ Tales' : y = x  BY <2>1 DEF Tales, x
  <2>4. e.cb \in registry /\ e.cb \notin retired => x \in Tales'  BY <1>3, <2>2 DEF Tales
  <2> QED  BY <2>3, <2>4
<1>8. ASSUME x \in Tales \ Tales', SourceOf(x.ev) \in Secure PROVE FALSE
  <2>1. x.cb \notin Alive  BY <1>3, <1>7, <1>8 DEF Alive
  <2>2. x \in TalesOf(SourceOf(x.ev))  BY <1>8 DEF TalesOf
  <2>3. SourceOf(x.ev) \in {"http", "job", "load"} => x.cb \in Alive  BY <2>2 DEF Answering
  <2>4. SourceOf(x.ev) = "ssh"  BY <1>8, <2>1, <2>3 DEF Secure
  <2>5. x.ev.id \in Ops /\ SshItem(x, x.ev.id, op_callback)  BY <2>2, <2>4 DEF SshTale
  <2>6. e.ev.id \in Ops /\ SshItem(e, e.ev.id, op_callback)  BY <1>3, <2>5 DEF SshItem
  <2>7. e.ev.id \in DOMAIN callback_by_operation  BY <1>2, <2>6 DEF SshAliveInv
  <2>8. e.cb \in Alive  BY <2>6, <2>7 DEF SshAliveInv, SshItem
  <2> QED  BY <1>3, <2>1, <2>8
<1> QED  BY <1>4, <1>6, <1>7, <1>8 DEF Tells

-----------------------------------------------------------------------------
(* What the step of one module leaves of the others.                       *)

LEMMA SshStaysOnce ==
    ASSUME AnswersInv, SshOnceInv, NEW T, Tells(T), NEW S, Leaves(S), "ssh" \notin S,
           \A x \in T : SourceOf(x.ev) # "ssh", UNCHANGED lsVars, SshAside
    PROVE  SshOnceInv'
<1>1. UNCHANGED <<ssh_queue, emitted, callback_by_operation, buffered_events, ssh_polled, op_callback>>
  BY DEF lsVars
<1>2. TalesOf("ssh")' = TalesOf("ssh")
  <2>1. {x \in T : SourceOf(x.ev) = "ssh"} = {}  OBVIOUS
  <2>2. "ssh" \in Secure  BY DEF Secure
  <2> QED  BY <2>1, <2>2, TellsOf
<1>3. SshAliveInv'
  <2>1. ASSUME NEW op \in Ops, op_callback[op] # NoCallback
        PROVE  op_callback[op] \in Alive' <=> op_callback[op] \in Alive
    <3>1. Claim(op_callback[op], "ssh", op) \in Tables  BY <2>1 DEF Tables, SshClaims
    <3> QED  BY <3>1, TableStays
  <2>2. \A op \in Ops : op_callback'[op] # NoCallback =>
           (op \in DOMAIN callback_by_operation' <=> op_callback'[op] \in Alive')
    BY <1>1, <2>1 DEF SshOnceInv, SshAliveInv
  <2>3. \A p \in BatchesOf(stack') : \A e \in ToSet(stack'[p].rest), op \in Ops :
           SshItem(e, op, op_callback') => op \in DOMAIN callback_by_operation'
    BY <1>1 DEF SshAside, SshOnceInv, SshAliveInv
  <2> QED  BY <2>2, <2>3 DEF SshAliveInv
<1>4. \A x : SshTale(x)' <=> SshTale(x)
  BY <1>1 DEF SshTale
<1>5. SshBatchesOf(stack') = SshBatchesOf(stack) /\ \A p \in SshBatchesOf(stack) : stack'[p] = stack[p]
  BY DEF SshAside
<1>6. \A x \in TalesOf("ssh")' : SshTale(x)'
  BY <1>2, <1>4 DEF SshOnceInv
<1>7. \A p \in SshBatchesOf(stack') : stack'[p].cur # NoItem => SshTale(stack[p].cur)'
  BY <1>1, <1>5 DEF SshOnceInv, SshTale
<1>8. PairsBegun' = PairsBegun
  <2>1. \A p \in SshBatchesOf(stack) : PairsOf(stack'[p].rest) = PairsOf(stack[p].rest)  BY <1>5
  <2> QED  BY <1>5, <2>1 DEF PairsBegun
<1>9. PairsTold' = PairsTold /\ PairsEmitted' = PairsEmitted
  BY <1>1, <1>2 DEF PairsTold, PairsEmitted
<1> QED  BY <1>1, <1>3, <1>6, <1>7, <1>8, <1>9 DEF SshOnceInv

LEMMA UploadsStay ==
    ASSUME UploadInv, UNCHANGED <<loads, textures, cubemaps, texture_uploads, cubemap_uploads>>
    PROVE  UploadInv'
  BY DEF UploadInv, GoesOn, NameOf, Itself

\* The step tells events of the sources of the kinds in K, and takes away the
\* callbacks of no other.
Serves(K) ==
    /\ Leaves(K)
    /\ \E T : Tells(T) /\ \A x \in T : SourceOf(x.ev) \in K
    /\ "ssh" \notin K => SshAside

LEMMA OthersOnce ==
    ASSUME AnswersInv, Once, NEW K, Serves(K),
           "http" \in K => HttpOnceInv',
           "http" \notin K => UNCHANGED <<http_next, http_pending, performing, completed, lhVars>>,
           "job" \in K => JobOnceInv',
           "job" \notin K => UNCHANGED ljVars,
           "ssh" \in K => SshOnceInv',
           "ssh" \notin K => UNCHANGED lsVars,
           "process" \in K => ProcOnceInv',
           "process" \notin K => UNCHANGED lpVars,
           "load" \in K => LoadOnceInv' /\ UploadInv',
           "load" \notin K => UNCHANGED ltVars
    PROVE  Once'
<1>1. PICK T : Tells(T) /\ \A x \in T : SourceOf(x.ev) \in K
  BY DEF Serves
<1>2. Leaves(K)
  BY DEF Serves
<1>3. HttpOnceInv'
  BY <1>1, <1>2, HttpStaysOnce DEF Once
<1>4. JobOnceInv'
  BY <1>1, <1>2, JobsStayOnce DEF Once
<1>5. SshOnceInv'
  BY <1>1, <1>2, SshStaysOnce DEF Once, Serves
<1>6. ProcOnceInv'
  BY <1>1, ProcessesStayOnce DEF Once
<1>7. LoadOnceInv' /\ UploadInv'
  <2>1. CASE "load" \in K  BY <2>1
  <2>2. CASE "load" \notin K
    <3>1. UNCHANGED <<loads, load_failed, pending_loads, textures, cubemaps, texture_uploads,
                      cubemap_uploads>>
      BY <2>2 DEF ltVars
    <3> QED  BY <1>1, <1>2, <2>2, <3>1, LoadsStayOnce, UploadsStay DEF Once
  <2> QED  BY <2>1, <2>2
<1> QED  BY <1>3, <1>4, <1>5, <1>6, <1>7 DEF Once

\* The same for the step of each module.
LEMMA ModuleServes ==
    ASSUME AnswersInv, Once
    PROVE  /\ CallbacksOnly /\ Serves({"script"}) => Once'
           /\ RealtimeOnly /\ Serves({"realtime"}) => Once'
           /\ HttpOnly /\ Serves({"http", "stream"}) /\ HttpOnceInv' => Once'
           /\ JobsOnly /\ Serves({"job"}) /\ JobOnceInv' => Once'
           /\ SshOnly /\ Serves({"ssh"}) /\ SshOnceInv' => Once'
           /\ ProcessOnly /\ Serves({"process"}) /\ ProcOnceInv' => Once'
           /\ TexturesOnly /\ Serves({"load"}) /\ LoadOnceInv' /\ UploadInv' => Once'
<1>1. ASSUME CallbacksOnly, Serves({"script"}) PROVE Once'
  <2> DEFINE K == {"script"}
  <2>1. "http" \notin K /\ "job" \notin K /\ "ssh" \notin K /\ "process" \notin K /\ "load" \notin K
    OBVIOUS
  <2>2. /\ Serves(K) /\ UNCHANGED <<http_next, http_pending, performing, completed, lhVars>>
        /\ UNCHANGED ljVars /\ UNCHANGED lsVars /\ UNCHANGED lpVars /\ UNCHANGED ltVars
    BY <1>1 DEF CallbacksOnly, hcVars
  <2> HIDE DEF K
  <2> QED  BY <2>1, <2>2, OthersOnce
<1>2. ASSUME RealtimeOnly, Serves({"realtime"}) PROVE Once'
  <2> DEFINE K == {"realtime"}
  <2>1. "http" \notin K /\ "job" \notin K /\ "ssh" \notin K /\ "process" \notin K /\ "load" \notin K
    OBVIOUS
  <2>2. /\ Serves(K) /\ UNCHANGED <<http_next, http_pending, performing, completed, lhVars>>
        /\ UNCHANGED ljVars /\ UNCHANGED lsVars /\ UNCHANGED lpVars /\ UNCHANGED ltVars
    BY <1>2 DEF RealtimeOnly, hcVars
  <2> HIDE DEF K
  <2> QED  BY <2>1, <2>2, OthersOnce
<1>3. ASSUME HttpOnly, Serves({"http", "stream"}), HttpOnceInv' PROVE Once'
  <2> DEFINE K == {"http", "stream"}
  <2>1. "http" \in K /\ "job" \notin K /\ "ssh" \notin K /\ "process" \notin K /\ "load" \notin K
    OBVIOUS
  <2>2. /\ Serves(K) /\ HttpOnceInv'
        /\ UNCHANGED ljVars /\ UNCHANGED lsVars /\ UNCHANGED lpVars /\ UNCHANGED ltVars
    BY <1>3 DEF HttpOnly
  <2> HIDE DEF K
  <2> QED  BY <2>1, <2>2, OthersOnce
<1>4. ASSUME JobsOnly, Serves({"job"}), JobOnceInv' PROVE Once'
  <2> DEFINE K == {"job"}
  <2>1. "http" \notin K /\ "job" \in K /\ "ssh" \notin K /\ "process" \notin K /\ "load" \notin K
    OBVIOUS
  <2>2. /\ Serves(K) /\ UNCHANGED <<http_next, http_pending, performing, completed, lhVars>>
        /\ JobOnceInv' /\ UNCHANGED lsVars /\ UNCHANGED lpVars /\ UNCHANGED ltVars
    BY <1>4 DEF JobsOnly, hcVars
  <2> HIDE DEF K
  <2> QED  BY <2>1, <2>2, OthersOnce
<1>5. ASSUME SshOnly, Serves({"ssh"}), SshOnceInv' PROVE Once'
  <2> DEFINE K == {"ssh"}
  <2>1. "http" \notin K /\ "job" \notin K /\ "ssh" \in K /\ "process" \notin K /\ "load" \notin K
    OBVIOUS
  <2>2. /\ Serves(K) /\ UNCHANGED <<http_next, http_pending, performing, completed, lhVars>>
        /\ UNCHANGED ljVars /\ SshOnceInv' /\ UNCHANGED lpVars /\ UNCHANGED ltVars
    BY <1>5 DEF SshOnly, hcVars
  <2> HIDE DEF K
  <2> QED  BY <2>1, <2>2, OthersOnce
<1>6. ASSUME ProcessOnly, Serves({"process"}), ProcOnceInv' PROVE Once'
  <2> DEFINE K == {"process"}
  <2>1. "http" \notin K /\ "job" \notin K /\ "ssh" \notin K /\ "process" \in K /\ "load" \notin K
    OBVIOUS
  <2>2. /\ Serves(K) /\ UNCHANGED <<http_next, http_pending, performing, completed, lhVars>>
        /\ UNCHANGED ljVars /\ UNCHANGED lsVars /\ ProcOnceInv' /\ UNCHANGED ltVars
    BY <1>6 DEF ProcessOnly, hcVars
  <2> HIDE DEF K
  <2> QED  BY <2>1, <2>2, OthersOnce
<1>7. ASSUME TexturesOnly, Serves({"load"}), LoadOnceInv' /\ UploadInv' PROVE Once'
  <2> DEFINE K == {"load"}
  <2>1. "http" \notin K /\ "job" \notin K /\ "ssh" \notin K /\ "process" \notin K /\ "load" \in K
    OBVIOUS
  <2>2. /\ Serves(K) /\ UNCHANGED <<http_next, http_pending, performing, completed, lhVars>>
        /\ UNCHANGED ljVars /\ UNCHANGED lsVars /\ UNCHANGED lpVars /\ LoadOnceInv' /\ UploadInv'
    BY <1>7 DEF TexturesOnly, hcVars
  <2> HIDE DEF K
  <2> QED  BY <2>1, <2>2, OthersOnce
<1> QED  BY <1>1, <1>2, <1>3, <1>4, <1>5, <1>6, <1>7

-----------------------------------------------------------------------------
(* The steps of scripts, of the registry and of the realtime handle.       *)

LEMMA ServesIs ==
    ASSUME NEW K, Leaves(K), NEW A, Tells(TalesIn(A)), \A e \in A : SourceOf(e.ev) \in K,
           "ssh" \in K \/ SshAside
    PROVE  Serves(K)
<1>1. \A x \in TalesIn(A) : \E e \in A : x.ev = e.ev
  BY DEF TalesIn, Item
<1>2. \A x \in TalesIn(A) : SourceOf(x.ev) \in K
  BY <1>1
<1> QED  BY <1>2 DEF Serves

LEMMA ServesInSilence ==
    ASSUME NEW K, Leaves(K), Tells({}), "ssh" \in K \/ SshAside
    PROVE  Serves(K)
  BY DEF Serves

\* One event is enqueued, or none.
LEMMA PostServes ==
    ASSUME FrameInv, NEW cb, NEW ev, Post(cb, ev), NEW K, SourceOf(ev) \in K
    PROVE  Serves(K)
<1> DEFINE e == Item(cb, ev)
<1>1. e.ev = ev
  BY DEF Item
<1>2. queue' = Append(queue, e) /\ UNCHANGED <<stack, called, registry, deferred, retired>>
  BY DEF Post
<1> HIDE DEF e
<1>3. IsSeq(queue) /\ Append(queue, e) = queue \o <<e>> /\ IsSeq(<<e>>) /\ ToSet(<<e>>) = {e}
  BY OneAppended DEF FrameInv
<1>4. Tells(TalesIn(ToSet(<<e>>))) /\ SshAside
  BY <1>2, <1>3, PostingTells
<1>5. Leaves(K)
  BY <1>2, RestingLeaves
<1>6. \A y \in ToSet(<<e>>) : SourceOf(y.ev) \in K
  BY <1>1, <1>3
<1> QED  BY <1>4, <1>5, <1>6, ServesIs

LEMMA RestServes ==
    ASSUME UNCHANGED <<registry, deferred, retired, queue, stack, called>>, NEW K
    PROVE  Serves(K)
<1>1. Tells({}) /\ SshAside /\ Leaves(K)
  BY StayingTells, RestingLeaves
<1> QED  BY <1>1, ServesInSilence

\* A batch is taken of the queue, with nothing enqueued before.
LEMMA TakeServes ==
    ASSUME FrameInv, Ordered, NEW ids, NEW max, DispatchFrom(stack, queue, ids, max),
           UNCHANGED <<registry, deferred, retired, called>>, NEW K
    PROVE  Serves(K)
<1>1. queue \o <<>> = queue /\ IsSeq(<<>>) /\ ToSet(<<>>) = {}
  <2>1. queue \in Seq(ToSet(queue))  BY SeqIs DEF FrameInv
  <2>2. queue \o <<>> = queue  BY <2>1
  <2> QED  BY <2>2, EmptyIsSeq
<1>2. NoSshItems(ToSet(<<>>), op_callback)
  BY <1>1 DEF NoSshItems
<1>3. DispatchFrom(stack, queue \o <<>>, ids, max)
  BY <1>1
<1>4. Tells(TalesIn(ToSet(<<>>))) /\ SshAside
  BY <1>1, <1>2, <1>3, TakingTells
<1>5. Leaves(K)
  BY RestingLeaves
<1>6. \A y \in ToSet(<<>>) : SourceOf(y.ev) \in K
  BY <1>1
<1> QED  BY <1>4, <1>5, <1>6, ServesIs

LEMMA ReregisterServes ==
    ASSUME OwnInv, RegistryInv, ClaimInv, NEW drop, NEW add \in {0, 1}, Reregister(drop, add),
           NEW K, Dropping(drop, K), UNCHANGED <<queue, stack, called>>
    PROVE  Serves(K)
<1>1. Tells({}) /\ SshAside
  BY StayingTells
<1>2. Leaves(K)
  BY ReregisterLeaves
<1> QED  BY <1>1, <1>2, ServesInSilence

LEMMA CallbacksServe ==
    ASSUME OwnInv, RegistryInv, FrameInv, Ordered, ClaimInv, Once,
           \/ ScriptRegister
           \/ \E cb \in own : ScriptUnregister(cb)
           \/ \E cb \in own : ScriptEnqueue(cb, Event("script", 0, "call", 9 - left["enqueue"]))
           \/ \E max \in {0, 1} : ScriptDispatch(max)
           \/ CallNext \/ EndDispatch
    PROVE  Serves({"script"})
<1>1. CASE ScriptRegister
  <2>1. Reregister({}, 1) /\ UNCHANGED <<queue, stack, called>> /\ Dropping({}, {"script"})
    BY <1>1 DEF ScriptRegister, Dropping
  <2> QED  BY <2>1, ReregisterServes
<1>2. ASSUME NEW cb \in own, ScriptUnregister(cb) PROVE Serves({"script"})
  <2>1. Reregister({cb}, 0) /\ UNCHANGED <<queue, stack, called>>
    BY <1>2 DEF ScriptUnregister, Unregister
  <2>2. Claim(cb, "script", 0) \in Claims  BY DEF Claims, Tables, ScriptClaims
  <2>3. Claim(cb, "script", 0).cb = cb /\ Claim(cb, "script", 0).of = "script"  BY DEF Claim
  <2>4. Dropping({cb}, {"script"})  BY <2>2, <2>3 DEF Dropping
  <2> QED  BY <2>1, <2>4, ReregisterServes
<1>3. ASSUME NEW cb \in own, ScriptEnqueue(cb, Event("script", 0, "call", 9 - left["enqueue"]))
      PROVE  Serves({"script"})
  <2> DEFINE ev == Event("script", 0, "call", 9 - left["enqueue"])
  <2>1. SourceOf(ev) \in {"script"}  BY DEF SourceOf, Event
  <2>2. Post(cb, ev)  BY <1>3 DEF ScriptEnqueue
  <2> HIDE DEF ev
  <2> QED  BY <2>1, <2>2, PostServes
<1>4. ASSUME NEW max \in {0, 1}, ScriptDispatch(max) PROVE Serves({"script"})
  <2>1. /\ DispatchFrom(stack, queue, Callbacks, max)
        /\ UNCHANGED <<registry, deferred, retired, called>>
    BY <1>4 DEF ScriptDispatch
  <2> QED  BY <2>1, TakeServes
<1>5. CASE CallNext
  <2>1. UNCHANGED <<registry, deferred, retired>>  BY <1>5 DEF CallNext
  <2>2. Leaves({"script"})  BY <2>1, RestingLeaves
  <2>3. Tells({}) /\ SshAside
    BY <1>5, CallNextTells DEF Once, HttpOnceInv, JobOnceInv, LoadOnceInv, SshOnceInv
  <2> QED  BY <2>2, <2>3, ServesInSilence
<1>6. CASE EndDispatch
  <2>1. /\ Top.kind = "dispatch" /\ Top.rest = <<>> /\ stack' = Below
        /\ UNCHANGED <<queue, called>>
    BY <1>6 DEF EndDispatch
  <2>2. Tells({}) /\ SshAside  BY <2>1, PoppingTells
  <2>3. Leaves({"script"})  BY <1>6, EndDispatchLeaves
  <2> QED  BY <2>2, <2>3, ServesInSilence
<1> QED  BY <1>1, <1>2, <1>3, <1>4, <1>5, <1>6

LEMMA RealtimeServes ==
    ASSUME OwnInv, RegistryInv, FrameInv, Ordered, ClaimInv,
           \/ \E name : RtSet(name) \/ RtTell(name)
           \/ RtStart \/ RtPost \/ RtExit \/ RtJoined \/ RtDrain \/ RtClosed
           \/ \E dispatch : RtClose(dispatch)
    PROVE  Serves({"realtime"})
<1>1. \A what : SourceOf(Notice(what)) \in {"realtime"}
  BY DEF SourceOf, Event, Notice
<1>2. ASSUME NEW name, RtTell(name) PROVE Serves({"realtime"})
  <2>1. UNCHANGED <<registry, deferred, retired, queue, stack, called>>  BY <1>2 DEF RtTell, cbVars
  <2> QED  BY <2>1, RestServes
<1>3. CASE RtStart \/ RtExit
  <2>1. UNCHANGED <<registry, deferred, retired, queue, stack, called>>
    BY <1>3 DEF RtStart, RtExit, cbVars
  <2> QED  BY <2>1, RestServes
<1>4. CASE RtPost
  <2>1. Post(rt_telling, Notice("notice"))  BY <1>4 DEF RtPost
  <2>2. SourceOf(Notice("notice")) \in {"realtime"}  BY <1>1
  <2> QED  BY <2>1, <2>2, PostServes
<1>5. CASE RtJoined
  <2>1. CASE rt_thread = "gone" /\ "stopped" \in DOMAIN rt_live
    <3>1. Post(rt_live["stopped"], Notice("stopped"))  BY <1>5, <2>1 DEF RtJoined
    <3>2. SourceOf(Notice("stopped")) \in {"realtime"}  BY <1>1
    <3> QED  BY <3>1, <3>2, PostServes
  <2>2. CASE ~(rt_thread = "gone" /\ "stopped" \in DOMAIN rt_live)
    <3>1. UNCHANGED <<registry, deferred, retired, queue, stack, called>>
      BY <1>5, <2>2 DEF RtJoined, cbVars
    <3> QED  BY <3>1, RestServes
  <2> QED  BY <2>1, <2>2
<1>6. CASE RtDrain
  <2>1. /\ DispatchFrom(stack, queue, Ids, 0)
        /\ UNCHANGED <<registry, deferred, retired, called>>
    BY <1>6 DEF RtDrain
  <2> QED  BY <2>1, TakeServes
<1>7. CASE RtClosed
  <2>1. Tells({}) /\ SshAside /\ Leaves({"realtime"})  BY <1>7, ClosedTells, ClosedLeaves
  <2> QED  BY <2>1, ServesInSilence
<1>8. ASSUME NEW dispatch, RtClose(dispatch) PROVE Serves({"realtime"})
  <2>1. /\ stack' = Append(stack, Frame("close", <<>>, NoItem)) /\ IsSeq(stack)
        /\ UNCHANGED <<queue, called, registry, deferred, retired>>
    BY <1>8 DEF RtClose, FrameInv
  <2>2. Tells({}) /\ SshAside /\ Leaves({"realtime"})  BY <2>1, PushingTells, RestingLeaves
  <2> QED  BY <2>2, ServesInSilence
<1>9. ASSUME NEW name, RtSet(name) PROVE Serves({"realtime"})
  <2> DEFINE drop == {rt_ids[n] : n \in {name} \cap DOMAIN rt_ids}
  <2>1. Reregister(drop, 1) /\ UNCHANGED <<queue, stack, called>>  BY <1>9 DEF RtSet
  <2>2. drop \subseteq Ids  BY DEF Ids
  <2>3. \A d \in drop : Claim(d, "realtime", 0) \in Claims  BY <2>2, HandleClaims
  <2>4. \A d : Claim(d, "realtime", 0).cb = d /\ Claim(d, "realtime", 0).of = "realtime"
    BY DEF Claim
  <2>5. Dropping(drop, {"realtime"})  BY <2>3, <2>4 DEF Dropping
  <2> HIDE DEF drop
  <2> QED  BY <2>1, <2>5, ReregisterServes
<1> QED  BY <1>2, <1>3, <1>4, <1>5, <1>6, <1>7, <1>8, <1>9

-----------------------------------------------------------------------------
(* Sequences that are cut in two, or joined.                               *)

\* a is what s begins with, and b the rest.
Cuts(s, a, b) ==
    /\ IsSeq(a) /\ IsSeq(b)
    /\ ToSet(s) = ToSet(a) \cup ToSet(b)
    /\ Distinct(s) => Distinct(a) /\ Distinct(b) /\ ToSet(a) \cap ToSet(b) = {}
    /\ DistinctIds(s) => DistinctIds(a) /\ DistinctIds(b) /\ IdsOf(a) \cap IdsOf(b) = {}
    /\ DistinctPairs(s) => DistinctPairs(a) /\ DistinctPairs(b) /\ PairsOf(a) \cap PairsOf(b) = {}

LEMMA ParcelsAre ==
    /\ \A s : IdsOf(s) = {e.id : e \in ToSet(s)}
    /\ \A s, a, b : ToSet(s) = ToSet(a) \cup ToSet(b) =>
                      IdsOf(s) = IdsOf(a) \cup IdsOf(b) /\ PairsOf(s) = PairsOf(a) \cup PairsOf(b)
<1>1. \A s : IdsOf(s) = {e.id : e \in ToSet(s)}
  BY DEF IdsOf, ToSet
<1>2. ASSUME NEW s, NEW a, NEW b, ToSet(s) = ToSet(a) \cup ToSet(b)
      PROVE  IdsOf(s) = IdsOf(a) \cup IdsOf(b)
  BY <1>1, <1>2
<1>3. ASSUME NEW s, NEW a, NEW b, ToSet(s) = ToSet(a) \cup ToSet(b)
      PROVE  PairsOf(s) = PairsOf(a) \cup PairsOf(b)
  BY <1>3 DEF PairsOf
<1> QED  BY <1>1, <1>2, <1>3

LEMMA CutAt ==
    ASSUME NEW s, IsSeq(s), NEW m \in Nat, m <= Len(s)
    PROVE  Cuts(s, SubSeq(s, 1, m), SubSeq(s, m + 1, Len(s))) /\ Len(SubSeq(s, 1, m)) = m
<1> DEFINE n == Len(s)
           T == ToSet(s)
           a == SubSeq(s, 1, m)
           b == SubSeq(s, m + 1, n)
<1>1. n \in Nat /\ DOMAIN s = 1..n /\ s \in Seq(T) /\ \A i \in 1..n : s[i] \in T
  BY SeqIs
<1>2. /\ 1 \in Int /\ m \in Int /\ n \in Int /\ m + 1 \in Int
      /\ (IF 1 <= m THEN m - 1 + 1 ELSE 0) = m /\ m - 1 + 1 = m
      /\ \A i \in 1..m : i \in 1..n /\ 1 + i - 1 = i
      /\ \A i \in (m + 1)..n : i \in 1..n
  BY <1>1
<1>3. /\ a \in Seq(T)
      /\ Len(a) = IF 1 <= m THEN m - 1 + 1 ELSE 0
      /\ \A i \in 1..(m - 1 + 1) : a[i] = s[1 + i - 1]
  BY <1>1, <1>2, SubSeqProperties
<1>4. /\ b \in Seq(T)
      /\ Len(b) = IF m + 1 <= n THEN n - (m + 1) + 1 ELSE 0
      /\ \A i \in 1..(n - (m + 1) + 1) : b[i] = s[(m + 1) + i - 1]
  BY <1>1, <1>2, SubSeqProperties
<1> HIDE DEF a, b, n
<1>5. m <= n
  BY DEF n
<1>6. /\ (IF m + 1 <= n THEN n - (m + 1) + 1 ELSE 0) = n - m
      /\ n - (m + 1) + 1 = n - m
      /\ n - m \in Nat
      /\ \A i \in 1..(n - m) : (m + 1) + i - 1 = m + i /\ i \in Nat /\ i > 0 /\ m + i \in 1..n
  BY <1>1, <1>5, Shifted
<1>7. Len(a) = m /\ DOMAIN a = 1..m /\ IsSeq(a) /\ \A i \in 1..m : i \in DOMAIN s /\ a[i] = s[i]
  <2>1. Len(a) = m  BY <1>2, <1>3
  <2>2. DOMAIN a = 1..m  BY <1>3, <2>1
  <2>3. \A i \in 1..m : a[i] = s[i]  BY <1>2, <1>3
  <2> QED  BY <1>1, <1>2, <1>3, <2>1, <2>2, <2>3 DEF IsSeq
<1>8. DOMAIN b = 1..(n - m) /\ IsSeq(b) /\ \A i \in 1..(n - m) : b[i] = s[m + i]
  <2>1. Len(b) = n - m  BY <1>4, <1>6
  <2>2. DOMAIN b = 1..(n - m)  BY <1>4, <2>1
  <2>3. \A i \in 1..(n - m) : b[i] = s[m + i]  BY <1>4, <1>6
  <2> QED  BY <1>4, <2>2, <2>3 DEF IsSeq
<1>9. \A i \in DOMAIN b : i \in Nat /\ m + i \in DOMAIN s /\ b[i] = s[m + i] /\ i > 0
  BY <1>1, <1>6, <1>8
<1>10. Splits(s, m, a, b)
  BY <1>7, <1>8, <1>9 DEF Splits
<1>11. /\ ToSet(a) \subseteq ToSet(s) /\ ToSet(b) \subseteq ToSet(s)
       /\ Distinct(s) => Distinct(a) /\ Distinct(b) /\ ToSet(a) \cap ToSet(b) = {}
       /\ DistinctIds(s) => DistinctIds(a) /\ DistinctIds(b) /\ IdsOf(a) \cap IdsOf(b) = {}
  BY <1>10, SplitDistinct
<1>12. ASSUME NEW i \in DOMAIN s PROVE s[i] \in ToSet(a) \/ s[i] \in ToSet(b)
  <2>1. CASE i <= m
    <3>1. i \in 1..m  BY <1>1, <2>1
    <3> QED  BY <1>7, <3>1 DEF ToSet
  <2>2. CASE ~(i <= m)
    <3>1. i - m \in 1..(n - m) /\ m + (i - m) = i  BY <1>1, <2>2
    <3>2. b[i - m] = s[i]  BY <1>8, <3>1
    <3> QED  BY <1>8, <3>1, <3>2 DEF ToSet
  <2> QED  BY <2>1, <2>2
<1>13. ToSet(s) = ToSet(a) \cup ToSet(b)
  BY <1>11, <1>12 DEF ToSet
<1>14. ASSUME DistinctPairs(s)
       PROVE  DistinctPairs(a) /\ DistinctPairs(b) /\ PairsOf(a) \cap PairsOf(b) = {}
  <2>1. \A i, j \in DOMAIN b : m + i = m + j => i = j  BY <1>9
  <2>2. \A i \in 1..m : \A j \in DOMAIN b : i # m + j  BY <1>9
  <2>3. DistinctPairs(a)  BY <1>7, <1>14 DEF DistinctPairs
  <2>4. DistinctPairs(b)  BY <1>9, <1>14, <2>1 DEF DistinctPairs
  <2>5. ASSUME NEW i \in 1..m, NEW j \in DOMAIN b PROVE ~(a[i].op = b[j].op /\ a[i].n = b[j].n)
    BY <1>7, <1>9, <1>14, <2>2 DEF DistinctPairs
  <2>6. \A x \in ToSet(a), y \in ToSet(b) : ~(x.op = y.op /\ x.n = y.n)  BY <1>7, <2>5 DEF ToSet
  <2>7. \A x \in ToSet(a), y \in ToSet(b) : Pair(x.op, x.n) # Pair(y.op, y.n)  BY <2>6, PairIs
  <2> QED  BY <2>3, <2>4, <2>7 DEF PairsOf
<1>15. Cuts(s, a, b)
  BY <1>7, <1>8, <1>11, <1>13, <1>14 DEF Cuts
<1> QED  BY <1>7, <1>15 DEF a, b, n

LEMMA CutAll ==
    ASSUME NEW s, IsSeq(s)
    PROVE  /\ Cuts(s, s, <<>>)
           /\ SubSeq(s, 1, Len(s)) = s /\ SubSeq(s, Len(s) + 1, Len(s)) = <<>>
<1>1. Len(s) \in Nat /\ s \in Seq(ToSet(s)) /\ Len(s) \in Int /\ Len(s) + 1 \in Int /\ Len(s) < Len(s) + 1
  BY SeqIs
<1>2. IsSeq(<<>>) /\ ToSet(<<>>) = {} /\ DOMAIN <<>> = {}
  BY EmptyIsSeq
<1>3. Distinct(<<>>) /\ DistinctIds(<<>>) /\ DistinctPairs(<<>>) /\ IdsOf(<<>>) = {} /\ PairsOf(<<>>) = {}
  BY <1>2 DEF Distinct, DistinctIds, DistinctPairs, IdsOf, PairsOf
<1>4. Cuts(s, s, <<>>)
  BY <1>2, <1>3 DEF Cuts
<1>5. SubSeq(s, Len(s) + 1, Len(s)) = <<>>
  BY <1>1, SubSeqEmpty
<1>6. SubSeq(s, 1, Len(s)) = s
  BY <1>1, SubSeqFull
<1> QED  BY <1>4, <1>5, <1>6

LEMMA CutPrefix ==
    ASSUME NEW s, IsSeq(s), NEW max \in Nat, NEW a,
           a = IF max = 0 \/ max > Len(s) THEN s ELSE SubSeq(s, 1, max)
    PROVE  Cuts(s, a, SubSeq(s, Len(a) + 1, Len(s)))
<1>1. CASE max = 0 \/ max > Len(s)
  BY <1>1, CutAll
<1>2. CASE ~(max = 0 \/ max > Len(s))
  <2>1. max <= Len(s) /\ a = SubSeq(s, 1, max)  BY <1>2, SeqIs
  <2> QED  BY <2>1, CutAt
<1> QED  BY <1>1, <1>2

LEMMA Joins ==
    ASSUME NEW s, NEW t, IsSeq(s), IsSeq(t)
    PROVE  /\ IsSeq(s \o t) /\ ToSet(s \o t) = ToSet(s) \cup ToSet(t)
           /\ Distinct(s) /\ Distinct(t) /\ ToSet(s) \cap ToSet(t) = {} => Distinct(s \o t)
           /\ DistinctIds(s) /\ DistinctIds(t) /\ IdsOf(s) \cap IdsOf(t) = {} => DistinctIds(s \o t)
           /\ DistinctPairs(s) /\ DistinctPairs(t) /\ PairsOf(s) \cap PairsOf(t) = {}
                => DistinctPairs(s \o t)
<1> DEFINE S == ToSet(s) \cup ToSet(t)
           m == Len(s)
           n == Len(t)
           c == s \o t
<1>1. s \in Seq(S) /\ t \in Seq(S)
  BY SeqIs, SeqMonotonic
<1>2. /\ c \in Seq(S) /\ Len(c) = m + n
      /\ \A i \in 1..m + n : c[i] = IF i <= m THEN s[i] ELSE t[i - m]
  BY <1>1, ConcatProperties
<1>3. m \in Nat /\ n \in Nat /\ DOMAIN s = 1..m /\ DOMAIN t = 1..n /\ DOMAIN c = 1..m + n
  BY <1>2, SeqIs
<1>4. IsSeq(c) /\ ToSet(c) = ToSet(s) \cup ToSet(t)
  BY ConcatIs
<1>5. Distinct(s) /\ Distinct(t) /\ ToSet(s) \cap ToSet(t) = {} => Distinct(c)
  BY DistinctConcat
<1> HIDE DEF m, n, c
<1>6. \A i \in 1..m + n : \/ i \in 1..m /\ c[i] = s[i]
                          \/ i - m \in 1..n /\ c[i] = t[i - m]
  BY <1>2, <1>3
<1>7. \A i, j \in 1..m + n : i - m = j - m => i = j
  BY <1>3
<1>8. ASSUME DistinctIds(s), DistinctIds(t), IdsOf(s) \cap IdsOf(t) = {}
      PROVE  DistinctIds(c)
  <2>1. ASSUME NEW i \in 1..m, NEW j \in 1..n PROVE s[i].id # t[j].id  BY <1>3, <1>8 DEF IdsOf
  <2>2. ASSUME NEW i \in 1..m + n, NEW j \in 1..m + n, c[i].id = c[j].id PROVE i = j
    <3>1. CASE i \in 1..m /\ c[i] = s[i] /\ j \in 1..m /\ c[j] = s[j]
      BY <1>3, <1>8, <2>2, <3>1 DEF DistinctIds
    <3>2. CASE i - m \in 1..n /\ c[i] = t[i - m] /\ j - m \in 1..n /\ c[j] = t[j - m]
      BY <1>3, <1>7, <1>8, <2>2, <3>2 DEF DistinctIds
    <3> QED  BY <1>6, <2>1, <2>2, <3>1, <3>2
  <2> QED  BY <1>3, <2>2 DEF DistinctIds
<1>9. ASSUME DistinctPairs(s), DistinctPairs(t), PairsOf(s) \cap PairsOf(t) = {}
      PROVE  DistinctPairs(c)
  <2>1. ASSUME NEW i \in 1..m, NEW j \in 1..n PROVE ~(s[i].op = t[j].op /\ s[i].n = t[j].n)
    <3>1. s[i] \in ToSet(s) /\ t[j] \in ToSet(t)  BY <1>3 DEF ToSet
    <3>2. Pair(s[i].op, s[i].n) \in PairsOf(s) /\ Pair(t[j].op, t[j].n) \in PairsOf(t)
      BY <3>1 DEF PairsOf
    <3> QED  BY <1>9, <3>2
  <2>2. ASSUME NEW i \in 1..m + n, NEW j \in 1..m + n, c[i].op = c[j].op, c[i].n = c[j].n PROVE i = j
    <3>1. CASE i \in 1..m /\ c[i] = s[i] /\ j \in 1..m /\ c[j] = s[j]
      BY <1>3, <1>9, <2>2, <3>1 DEF DistinctPairs
    <3>2. CASE i - m \in 1..n /\ c[i] = t[i - m] /\ j - m \in 1..n /\ c[j] = t[j - m]
      BY <1>3, <1>7, <1>9, <2>2, <3>2 DEF DistinctPairs
    <3> QED  BY <1>6, <2>1, <2>2, <3>1, <3>2
  <2> QED  BY <1>3, <2>2 DEF DistinctPairs
<1> QED  BY <1>4, <1>5, <1>8, <1>9 DEF c

-----------------------------------------------------------------------------
(* The jobs module.                                                        *)

LEMMA JobItemsTell ==
    ASSUME NEW ids, IsSeq(ids)
    PROVE  /\ \A e \in ToSet(JobItems(ids)) :
                /\ e.ev.n = 0 /\ SourceOf(e.ev) = "job"
                /\ e.ev.id \in ToSet(ids) \cap DOMAIN job_callbacks /\ e.cb = job_callbacks[e.ev.id]
           /\ \A id \in ToSet(ids) \cap DOMAIN job_callbacks :
                \E e \in ToSet(JobItems(ids)) : e.ev.id = id
<1> DEFINE S == {i \in DOMAIN ids : ids[i] \in DOMAIN job_callbacks}
           mine == At(ids, S)
           items == JobItems(ids)
<1>1. items = [k \in DOMAIN mine |-> Item(job_callbacks[mine[k]], Event("job", mine[k], "result", 0))]
  BY DEF JobItems
<1>2. ToSet(mine) = {ids[i] : i \in S}
  BY AtIs
<1>3. ToSet(mine) = ToSet(ids) \cap DOMAIN job_callbacks
  BY <1>2 DEF ToSet
<1> HIDE DEF mine, items
<1>4. \A k \in DOMAIN items : /\ items[k].cb = job_callbacks[mine[k]]
                              /\ items[k].ev.of = "job" /\ items[k].ev.id = mine[k]
                              /\ items[k].ev.n = 0
  BY <1>1 DEF Item, Event
<1>5. DOMAIN items = DOMAIN mine
  BY <1>1
<1>6. \A k \in DOMAIN items : mine[k] \in ToSet(mine) /\ items[k] \in ToSet(items)
  BY <1>5 DEF ToSet
<1>7. ASSUME NEW e \in ToSet(items)
      PROVE  /\ e.ev.n = 0 /\ SourceOf(e.ev) = "job"
             /\ e.ev.id \in ToSet(ids) \cap DOMAIN job_callbacks /\ e.cb = job_callbacks[e.ev.id]
  <2>1. PICK k \in DOMAIN items : e = items[k]  BY DEF ToSet
  <2>2. e.cb = job_callbacks[mine[k]] /\ e.ev.of = "job" /\ e.ev.id = mine[k] /\ e.ev.n = 0
    BY <1>4, <2>1
  <2>3. mine[k] \in ToSet(ids) \cap DOMAIN job_callbacks  BY <1>3, <1>6
  <2>4. SourceOf(e.ev) = "job"  BY <2>2 DEF SourceOf
  <2> QED  BY <2>2, <2>3, <2>4
<1>8. ASSUME NEW id \in ToSet(ids) \cap DOMAIN job_callbacks
      PROVE  \E e \in ToSet(items) : e.ev.id = id
  <2>1. PICK k \in DOMAIN mine : id = mine[k]  BY <1>3 DEF ToSet
  <2> QED  BY <1>4, <1>5, <1>6, <2>1
<1> QED  BY <1>7, <1>8 DEF items

LEMMA JobsUnclaimedAre ==
    ASSUME NEW ids, IsSeq(ids), Distinct(ids)
    PROVE  /\ IsSeq(JobsUnclaimed(ids)) /\ Distinct(JobsUnclaimed(ids))
           /\ ToSet(JobsUnclaimed(ids)) = ToSet(ids) \ DOMAIN job_callbacks
<1> DEFINE S == {i \in DOMAIN ids : ids[i] \notin DOMAIN job_callbacks}
<1>1. JobsUnclaimed(ids) = At(ids, S) /\ S \in SUBSET DOMAIN ids
  BY DEF JobsUnclaimed
<1>2. IsSeq(At(ids, S)) /\ ToSet(At(ids, S)) = {ids[i] : i \in S} /\ Distinct(At(ids, S))
  BY AtIs, DistinctAt
<1>3. {ids[i] : i \in S} = ToSet(ids) \ DOMAIN job_callbacks
  BY DEF ToSet
<1> QED  BY <1>1, <1>2, <1>3

JobsDelivered == {id \in Jobs : phase[id] = "delivered"}

\* Results are taken from the pool and told to their callbacks.
LEMMA HandOutServes ==
    ASSUME AnswersInv, JobOnceInv, NEW max \in Nat, TakeJobs(max), HandOut(JobsTaken(max))
    PROVE  /\ Serves({"job"})
           /\ IsSeq(JobsTaken(max)) /\ Distinct(JobsTaken(max))
           /\ Answering("job")' /\ (\A id \in DOMAIN job_callbacks : job_callbacks[id] \in Alive)'
           /\ IdsTold("job")' = IdsTold("job") \cup (ToSet(JobsTaken(max)) \cap DOMAIN job_callbacks)
           /\ JobsDelivered' = JobsDelivered \cup ToSet(JobsTaken(max))
           /\ JobsDelivered \cap ToSet(JobsTaken(max)) = {}
           /\ \A id \in Jobs : phase'[id] = "finished" => id \in ToSet(job_results')
<1> DEFINE ids == JobsTaken(max)
           items == JobItems(ids)
           T == TalesIn(ToSet(items))
<1>1. /\ OwnInv /\ FrameInv /\ Ordered /\ ClaimInv /\ JobDue /\ JobLineInv /\ IsSeq(job_results)
  BY DEF AnswersInv, RealtimeInv, HandleInv, ServiceInv, DuesInv, JobOk
<1>2. IsSeq(ids) /\ Distinct(ids)
  BY <1>1, TakeJobsIs
<1>3. /\ job_callbacks' = [j \in DOMAIN job_callbacks \ ToSet(ids) |-> job_callbacks[j]]
      /\ DispatchFrom(stack, queue \o items, Callbacks, 0)
      /\ UNCHANGED <<registry, deferred, retired, called>>
  BY DEF HandOut, ToSet
<1>4. ids = IF max = 0 \/ max > Len(job_results) THEN job_results ELSE SubSeq(job_results, 1, max)
  BY DEF JobsTaken
<1>5. job_results' = SubSeq(job_results, Len(ids) + 1, Len(job_results))
  BY DEF TakeJobs
<1>6. phase' = [i \in Jobs |-> IF i \in ToSet(ids) THEN "delivered" ELSE phase[i]]
  BY DEF TakeJobs, Pool!Deliver, Pool!Ids, Jobs, ToSet
<1> HIDE DEF ids
<1>7. Answers(items, {"job"})
  BY <1>1, <1>2, JobItemsAre
<1>8. /\ \A e \in ToSet(items) :
            /\ e.ev.n = 0 /\ SourceOf(e.ev) = "job"
            /\ e.ev.id \in ToSet(ids) \cap DOMAIN job_callbacks /\ e.cb = job_callbacks[e.ev.id]
      /\ \A id \in ToSet(ids) \cap DOMAIN job_callbacks : \E e \in ToSet(items) : e.ev.id = id
  BY <1>2, JobItemsTell
<1> HIDE DEF items
<1>9. IsSeq(items) /\ NoSshItems(ToSet(items), op_callback)
  BY <1>1, <1>7, AnswersAreTimely DEF Timely
<1>10. Tells(TalesIn(ToSet(items))) /\ SshAside
  BY <1>1, <1>3, <1>9, TakingTells
<1>11. Leaves({"job"}) /\ Leaves({})
  BY <1>3, RestingLeaves
<1>12. Serves({"job"})
  <2>1. \A e \in ToSet(items) : SourceOf(e.ev) \in {"job"}  BY <1>8
  <2> QED  BY <1>10, <1>11, <2>1, ServesIs
<1>13. Alive' = Alive
  BY <1>3 DEF Alive
<1>14. \A x \in T : /\ x.ev.n = 0 /\ x.cb \in Alive' /\ SourceOf(x.ev) = "job"
                    /\ x.ev.id \in ToSet(ids) \cap DOMAIN job_callbacks
  <2>1. \A x \in T : \E e \in ToSet(items) : x.cb = e.cb /\ x.ev = e.ev  BY DEF TalesIn, Item
  <2> QED  BY <1>8, <1>13, <2>1 DEF JobOnceInv
<1>15. \A id \in ToSet(ids) \cap DOMAIN job_callbacks : \E x \in T : x.ev.id = id
  <2>1. \A e \in ToSet(items) : Item(e.cb, e.ev) \in T /\ Item(e.cb, e.ev).ev = e.ev
    BY DEF TalesIn, Item
  <2> QED  BY <1>8, <2>1
<1> HIDE DEF T
<1>16. /\ Answering("job")'
       /\ IdsTold("job")' = IdsTold("job") \cup {x.ev.id : x \in {x \in T : SourceOf(x.ev) = "job"}}
  <2>1. "job" \in Secure /\ "job" \notin {} /\ Answering("job") /\ Tells(T)
    BY <1>10 DEF Secure, JobOnceInv, T
  <2>2. \A x \in T : SourceOf(x.ev) = "job" => x.ev.n = 0 /\ x.cb \in Alive'  BY <1>14
  <2> QED  BY <1>11, <2>1, <2>2, AnsweringGrows
<1>17. {x.ev.id : x \in {x \in T : SourceOf(x.ev) = "job"}} = ToSet(ids) \cap DOMAIN job_callbacks
  BY <1>14, <1>15
<1>18. (\A id \in DOMAIN job_callbacks : job_callbacks[id] \in Alive)'
  BY <1>3, <1>13 DEF JobOnceInv
<1>19. Cuts(job_results, ids, job_results')
  BY <1>1, <1>4, <1>5, CutPrefix
<1>20. ToSet(job_results) = ToSet(ids) \cup ToSet(job_results')
  BY <1>19 DEF Cuts
<1>21. \A id \in ToSet(ids) : id \in Jobs /\ phase[id] = "finished"
  BY <1>1, <1>20 DEF JobLineInv
<1>22. JobsDelivered' = JobsDelivered \cup ToSet(ids) /\ JobsDelivered \cap ToSet(ids) = {}
  <2>1. \A id \in Jobs : phase'[id] = "delivered" <=> phase[id] = "delivered" \/ id \in ToSet(ids)
    BY <1>6
  <2>2. JobsDelivered' = {id \in Jobs : phase'[id] = "delivered"}  BY DEF JobsDelivered, Jobs
  <2>3. \A id \in ToSet(ids) : phase[id] # "delivered"  BY <1>21
  <2> QED  BY <1>21, <2>1, <2>2, <2>3 DEF JobsDelivered
<1>23. ASSUME NEW id \in Jobs, phase'[id] = "finished" PROVE id \in ToSet(job_results')
  <2>1. phase[id] = "finished" /\ id \notin ToSet(ids)  BY <1>6, <1>23
  <2> QED  BY <1>20, <2>1 DEF JobOnceInv
<1> QED  BY <1>2, <1>12, <1>16, <1>17, <1>18, <1>22, <1>23 DEF ids

LEMMA LeavesMore ==
    ASSUME NEW S, NEW R, Leaves(S), S \subseteq R
    PROVE  Leaves(R)
  BY DEF Leaves

LEMMA JobsServe ==
    ASSUME AnswersInv, RegistryInv, JobOnceInv,
           \/ \E with \in BOOLEAN : JobSubmit(with)
           \/ \E max \in {0, 1} : JobsPollCall(max)
           \/ JobsDispatch
           \/ \E id \in Jobs : JobFinish(id)
    PROVE  Serves({"job"}) /\ JobOnceInv'
<1>1. /\ OwnInv /\ FrameInv /\ Ordered /\ ClaimInv /\ JobDue /\ JobLineInv /\ IsSeq(job_results)
  BY DEF AnswersInv, RealtimeInv, HandleInv, ServiceInv, DuesInv, JobOk
<1>2. JobsDelivered = {id \in Jobs : phase[id] = "delivered"}
      /\ JobsDelivered' = {id \in Jobs : phase'[id] = "delivered"}
  BY DEF JobsDelivered, Jobs
<1>3. ASSUME Tells({}), SshAside, Leaves({}), NEW id \in Jobs, phase[id] \in {"unborn", "accepted"},
             NEW p \in {"accepted", "finished"}, phase' = [phase EXCEPT ![id] = p],
             job_results' = IF p = "finished" THEN Append(job_results, id) ELSE job_results,
             (\A j \in DOMAIN job_callbacks : job_callbacks[j] \in Alive)',
             UNCHANGED <<buffered_results, job_polled>>
      PROVE  Serves({"job"}) /\ JobOnceInv'
  <2>1. Leaves({"job"})  BY <1>3, LeavesMore
  <2>2. Serves({"job"})  BY <1>3, <2>1, ServesInSilence
  <2>3. Answering("job")' /\ IdsTold("job")' = IdsTold("job")
    <3>1. "job" \in Secure /\ "job" \notin {} /\ Answering("job") /\ \A x \in {} : SourceOf(x.ev) # "job"
      BY DEF Secure, JobOnceInv
    <3> QED  BY <1>3, <3>1, AnsweringStays
  <2>4. \A j \in Jobs : phase'[j] = IF j = id THEN p ELSE phase[j]  BY <1>1, <1>3 DEF JobLineInv
  <2>5. {j \in Jobs : phase'[j] = "delivered"} = {j \in Jobs : phase[j] = "delivered"}
    BY <1>3, <2>4
  <2>6. ToSet(Append(job_results, id)) = ToSet(job_results) \cup {id}  BY <1>1, AppendIs
  <2>7. \A j \in Jobs : phase'[j] = "finished" => j \in ToSet(job_results')
    <3>1. ASSUME NEW j \in Jobs, phase'[j] = "finished" PROVE j \in ToSet(job_results')
      <4>1. CASE j = id  BY <1>3, <2>4, <2>6, <3>1, <4>1
      <4>2. CASE j # id
        <5>1. j \in ToSet(job_results)  BY <2>4, <3>1, <4>2 DEF JobOnceInv
        <5> QED  BY <1>3, <2>6, <5>1
      <4> QED  BY <4>1, <4>2
    <3> QED  BY <3>1
  <2>8. UNCHANGED Jobs  BY DEF Jobs
  <2>9. Parts3({j \in Jobs : phase[j] = "delivered"}, ToSet(buffered_results),
               ToSet(job_polled), IdsTold("job"))'
    BY <1>3, <2>3, <2>5, <2>8 DEF JobOnceInv
  <2> QED  BY <1>3, <2>2, <2>3, <2>7, <2>8, <2>9 DEF JobOnceInv
<1>4. ASSUME NEW with \in BOOLEAN, JobSubmit(with)
      PROVE  Serves({"job"}) /\ JobOnceInv'
  <2>1. PICK id \in Jobs :
          /\ Pool!Accept(id)
          /\ job_results' = IF phase'[id] = "finished" THEN Append(job_results, id) ELSE job_results
          /\ IF with
             THEN /\ Reregister({}, 1)
                  /\ job_callbacks' = [j \in DOMAIN job_callbacks \cup {id} |->
                                          IF j = id THEN next_id ELSE job_callbacks[j]]
             ELSE UNCHANGED <<next_id, registry, deferred, retired, job_callbacks>>
    BY <1>4 DEF JobSubmit
  <2>2. UNCHANGED <<queue, stack, called, buffered_results, job_polled>>  BY <1>4 DEF JobSubmit
  <2>3. phase[id] = "unborn" /\ \E p \in {"accepted", "finished"} : phase' = [phase EXCEPT ![id] = p]
    BY <2>1 DEF Pool!Accept
  <2>4. PICK p \in {"accepted", "finished"} : phase' = [phase EXCEPT ![id] = p]  BY <2>3
  <2>5. job_results' = IF p = "finished" THEN Append(job_results, id) ELSE job_results
    <3>1. phase'[id] = p  BY <1>1, <2>4 DEF JobLineInv
    <3> QED  BY <2>1, <3>1
  <2>6. Tells({}) /\ SshAside  BY <2>2, StayingTells
  <2>7. Leaves({}) /\ (\A j \in DOMAIN job_callbacks : job_callbacks[j] \in Alive)'
    <3>1. CASE with
      <4>1. /\ Reregister({}, 1)
            /\ job_callbacks' = [j \in DOMAIN job_callbacks \cup {id} |->
                                    IF j = id THEN next_id ELSE job_callbacks[j]]
        BY <2>1, <3>1
      <4>2. 1 \in {0, 1} /\ Dropping({}, {})  BY DEF Dropping
      <4>3. Leaves({}) /\ next_id \in Alive'  BY <1>1, <4>1, <4>2, ReregisterLeaves
      <4>4. ASSUME NEW j \in DOMAIN job_callbacks PROVE job_callbacks[j] \in Alive'
        <5>1. Claim(job_callbacks[j], "job", j) \in Tables  BY DEF Tables, JobClaims
        <5> QED  BY <4>3, <5>1, TableStays DEF JobOnceInv
      <4> QED  BY <4>1, <4>3, <4>4
    <3>2. CASE ~with
      <4>1. UNCHANGED <<registry, deferred, retired, job_callbacks>>  BY <2>1, <3>2
      <4> QED  BY <4>1, RestingLeaves DEF JobOnceInv, Alive
    <3> QED  BY <3>1, <3>2
  <2> QED  BY <1>3, <2>2, <2>3, <2>4, <2>5, <2>6, <2>7
<1>5. ASSUME NEW id \in Jobs, JobFinish(id)
      PROVE  Serves({"job"}) /\ JobOnceInv'
  <2>1. /\ phase[id] = "accepted" /\ phase' = [phase EXCEPT ![id] = "finished"]
        /\ job_results' = Append(job_results, id)
        /\ UNCHANGED <<registry, deferred, retired, queue, stack, called, job_callbacks,
                       buffered_results, job_polled>>
    BY <1>5 DEF JobFinish, Pool!Finish, cbVars
  <2>2. PICK p \in {"accepted", "finished"} : p = "finished"  OBVIOUS
  <2>3. /\ phase' = [phase EXCEPT ![id] = p]
        /\ job_results' = IF p = "finished" THEN Append(job_results, id) ELSE job_results
    BY <2>1, <2>2
  <2>4. Tells({}) /\ SshAside /\ Leaves({})  BY <2>1, StayingTells, RestingLeaves
  <2>5. (\A j \in DOMAIN job_callbacks : job_callbacks[j] \in Alive)'  BY <2>1 DEF JobOnceInv, Alive
  <2> QED  BY <1>3, <2>1, <2>3, <2>4, <2>5
<1>6. ASSUME NEW max \in Nat, TakeJobs(max), HandOut(JobsTaken(max)),
             NEW o, NEW r, Cuts(buffered_results, o, r),
             \/ /\ o = <<>> /\ buffered_results' = buffered_results \o JobsUnclaimed(JobsTaken(max))
                /\ job_polled' = job_polled
             \/ /\ buffered_results' = r
                /\ job_polled' = job_polled \o o \o JobsUnclaimed(JobsTaken(max))
      PROVE  Serves({"job"}) /\ JobOnceInv'
  <2> DEFINE ids == JobsTaken(max)
             gone == JobsUnclaimed(ids)
             hold == DOMAIN job_callbacks
  <2>1. /\ Serves({"job"})
        /\ IsSeq(ids) /\ Distinct(ids)
        /\ Answering("job")' /\ (\A id \in DOMAIN job_callbacks : job_callbacks[id] \in Alive)'
        /\ IdsTold("job")' = IdsTold("job") \cup (ToSet(ids) \cap hold)
        /\ JobsDelivered' = JobsDelivered \cup ToSet(ids)
        /\ JobsDelivered \cap ToSet(ids) = {}
        /\ \A id \in Jobs : phase'[id] = "finished" => id \in ToSet(job_results')
    BY <1>6, HandOutServes
  <2>2. IsSeq(gone) /\ Distinct(gone) /\ ToSet(gone) = ToSet(ids) \ hold  BY <2>1, JobsUnclaimedAre
  <2>3. /\ IsSeq(buffered_results) /\ IsSeq(job_polled) /\ Distinct(buffered_results)
        /\ Distinct(job_polled)
        /\ Parts3(JobsDelivered, ToSet(buffered_results), ToSet(job_polled), IdsTold("job"))
    BY <1>2 DEF JobOnceInv
  <2>4. /\ IsSeq(o) /\ IsSeq(r) /\ ToSet(buffered_results) = ToSet(o) \cup ToSet(r)
        /\ Distinct(o) /\ Distinct(r) /\ ToSet(o) \cap ToSet(r) = {}
    BY <1>6, <2>3 DEF Cuts
  <2>5. /\ ToSet(buffered_results) \cap ToSet(job_polled) = {}
        /\ ToSet(buffered_results) \cap IdsTold("job") = {}
        /\ ToSet(job_polled) \cap IdsTold("job") = {}
        /\ JobsDelivered = ToSet(buffered_results) \cup ToSet(job_polled) \cup IdsTold("job")
    BY <2>3 DEF Parts3, Parts2
  <2>6. ToSet(gone) \cap JobsDelivered = {} /\ ToSet(ids) = ToSet(gone) \cup (ToSet(ids) \cap hold)
    BY <2>1, <2>2
  <2> HIDE DEF gone, hold
  <2>7. CASE buffered_results' = buffered_results \o gone /\ job_polled' = job_polled
    <3>1. /\ IsSeq(buffered_results') /\ Distinct(buffered_results')
          /\ ToSet(buffered_results') = ToSet(buffered_results) \cup ToSet(gone)
      <4>1. ToSet(buffered_results) \cap ToSet(gone) = {}  BY <2>5, <2>6
      <4> QED  BY <2>2, <2>3, <2>7, <4>1, Joins
    <3>2. Parts3(JobsDelivered', ToSet(buffered_results'), ToSet(job_polled'), IdsTold("job")')
      <4>1. ToSet(gone) \cap (ToSet(ids) \cap hold) = {}  BY <2>2
      <4> DEFINE u == JobsDelivered
                 a == ToSet(buffered_results)
                 b == ToSet(job_polled)
                 c == IdsTold("job")
                 g == ToSet(gone)
                 h == ToSet(ids) \cap hold
      <4>2. JobsDelivered' = u \cup g \cup h /\ ToSet(buffered_results') = a \cup g
            /\ ToSet(job_polled') = b /\ IdsTold("job")' = c \cup h
        BY <2>1, <2>6, <2>7, <3>1
      <4>3. /\ u = a \cup b \cup c /\ a \cap b = {} /\ a \cap c = {} /\ b \cap c = {}
            /\ u \cap g = {} /\ u \cap h = {} /\ g \cap h = {}
        BY <2>1, <2>5, <2>6, <4>1
      <4> HIDE DEF u, a, b, c, g, h
      <4>4. Parts3(u \cup g \cup h, a \cup g, b, c \cup h)  BY <4>3 DEF Parts3, Parts2
      <4> QED  BY <4>2, <4>4
    <3> QED  BY <1>2, <2>1, <2>3, <2>7, <3>1, <3>2 DEF JobOnceInv
  <2>8. CASE buffered_results' = r /\ job_polled' = job_polled \o o \o gone
    <3>1. IsSeq(job_polled \o o) /\ Distinct(job_polled \o o)
          /\ ToSet(job_polled \o o) = ToSet(job_polled) \cup ToSet(o)
      <4>1. ToSet(job_polled) \cap ToSet(o) = {}  BY <2>4, <2>5
      <4> QED  BY <2>3, <2>4, <4>1, Joins
    <3>2. /\ IsSeq(job_polled') /\ Distinct(job_polled')
          /\ ToSet(job_polled') = ToSet(job_polled) \cup ToSet(o) \cup ToSet(gone)
      <4>1. ToSet(job_polled \o o) \cap ToSet(gone) = {}  BY <2>4, <2>5, <2>6, <3>1
      <4> QED  BY <2>2, <2>8, <3>1, <4>1, Joins
    <3>3. Parts3(JobsDelivered', ToSet(buffered_results'), ToSet(job_polled'), IdsTold("job")')
      <4>1. ToSet(gone) \cap (ToSet(ids) \cap hold) = {}  BY <2>2
      <4> DEFINE u == JobsDelivered
                 a == ToSet(o)
                 d == ToSet(r)
                 b == ToSet(job_polled)
                 c == IdsTold("job")
                 g == ToSet(gone)
                 h == ToSet(ids) \cap hold
      <4>2. JobsDelivered' = u \cup g \cup h /\ ToSet(buffered_results') = d
            /\ ToSet(job_polled') = b \cup a \cup g /\ IdsTold("job")' = c \cup h
        BY <2>1, <2>6, <2>8, <3>2
      <4>3. /\ u = a \cup d \cup b \cup c /\ a \cap d = {} /\ (a \cup d) \cap b = {}
            /\ (a \cup d) \cap c = {} /\ b \cap c = {}
            /\ u \cap g = {} /\ u \cap h = {} /\ g \cap h = {}
        BY <2>1, <2>4, <2>5, <2>6, <4>1
      <4> HIDE DEF u, a, b, c, d, g, h
      <4>4. Parts3(u \cup g \cup h, d, b \cup a \cup g, c \cup h)  BY <4>3 DEF Parts3, Parts2
      <4> QED  BY <4>2, <4>4
    <3> QED  BY <1>2, <2>1, <2>4, <2>8, <3>2, <3>3 DEF JobOnceInv
  <2> QED  BY <1>6, <2>7, <2>8 DEF gone
<1>7. IsSeq(buffered_results) /\ IsSeq(<<>>)
  BY EmptyIsSeq DEF JobOnceInv
<1>8. CASE JobsDispatch
  <2>1. /\ TakeJobs(0) /\ HandOut(JobsTaken(0)) /\ job_polled' = job_polled
        /\ buffered_results' = buffered_results \o JobsUnclaimed(JobsTaken(0))
    BY <1>8 DEF JobsDispatch
  <2>2. Cuts(buffered_results, <<>>, buffered_results)
    <3>1. Cuts(buffered_results, buffered_results, <<>>)  BY <1>7, CutAll
    <3>2. \A A, B : A \cup B = B \cup A /\ A \cap B = B \cap A  OBVIOUS
    <3> QED  BY <3>1, <3>2 DEF Cuts
  <2>3. \E m \in Nat : m = 0  OBVIOUS
  <2> QED  BY <1>6, <2>1, <2>2, <2>3
<1>9. ASSUME NEW max \in {0, 1}, JobsPollCall(max)
      PROVE  Serves({"job"}) /\ JobOnceInv'
  <2> DEFINE split == max > 0 /\ max < Len(buffered_results)
             old == IF split THEN SubSeq(buffered_results, 1, max) ELSE buffered_results
             new == SubSeq(buffered_results, Len(old) + 1, Len(buffered_results))
  <2>1. /\ TakeJobs(max) /\ HandOut(JobsTaken(max)) /\ buffered_results' = new
        /\ job_polled' = job_polled \o old \o JobsUnclaimed(JobsTaken(max))
    BY <1>9 DEF JobsPollCall
  <2>2. max \in Nat  OBVIOUS
  <2>3. Cuts(buffered_results, old, new)
    <3>1. CASE split
      <4>1. max <= Len(buffered_results)  BY <1>7, <3>1, SeqIs
      <4> QED  BY <1>7, <2>2, <3>1, <4>1, CutAt
    <3>2. CASE ~split  BY <1>7, <3>2, CutAll
    <3> QED  BY <3>1, <3>2
  <2> HIDE DEF old, new
  <2> QED  BY <1>6, <2>1, <2>2, <2>3
<1> QED  BY <1>4, <1>5, <1>8, <1>9

-----------------------------------------------------------------------------
(* The ssh module.                                                         *)

BegunIn(s) == UNION {PairsOf(s[p].rest) : p \in SshBatchesOf(s)}

LEMMA SshTalesGrow ==
    ASSUME NEW A, Tells(TalesIn(A)), \A e \in A : SourceOf(e.ev) = "ssh"
    PROVE  /\ TalesOf("ssh")' = TalesOf("ssh") \cup TalesIn(A)
           /\ PairsTold' = PairsTold \cup {Pair(e.ev.id, e.ev.n) : e \in A}
<1>1. "ssh" \in Secure
  BY DEF Secure
<1>2. \A e : Item(e.cb, e.ev).ev = e.ev
  BY DEF Item
<1>3. \A x \in TalesIn(A) : \E e \in A : x.ev = e.ev
  BY <1>2 DEF TalesIn
<1>4. {x \in TalesIn(A) : SourceOf(x.ev) = "ssh"} = TalesIn(A)
  BY <1>3
<1>5. TalesOf("ssh")' = TalesOf("ssh") \cup TalesIn(A)
  BY <1>1, <1>4, TellsOf
<1>6. PairsTold' = {Pair(x.ev.id, x.ev.n) : x \in TalesOf("ssh")'}
  BY DEF PairsTold
<1>7. {Pair(x.ev.id, x.ev.n) : x \in TalesIn(A)} = {Pair(e.ev.id, e.ev.n) : e \in A}
  <2>1. \A e \in A : Item(e.cb, e.ev) \in TalesIn(A)  BY DEF TalesIn
  <2> QED  BY <1>2, <1>3, <2>1
<1> QED  BY <1>5, <1>6, <1>7 DEF PairsTold

LEMMA SshTalesStay ==
    ASSUME Tells({})
    PROVE  TalesOf("ssh")' = TalesOf("ssh") /\ PairsTold' = PairsTold
<1>1. TalesIn({}) = {}
  BY DEF TalesIn
<1> QED  BY <1>1, SshTalesGrow

\* Nothing is told; the loops that go on have the same event under way, or none.
LEMMA SshOnceInSilence ==
    ASSUME SshOnceInv, Tells({}), SshAliveInv', \A x : SshTale(x) => SshTale(x)',
           \A p \in SshBatchesOf(stack') : \/ stack'[p].cur = NoItem
                                           \/ p \in SshBatchesOf(stack) /\ stack'[p].cur = stack[p].cur,
           IsSeq(ssh_polled'), DistinctPairs(buffered_events'), DistinctPairs(ssh_polled'),
           Parts5(PairsEmitted', PairsOf(ssh_queue'), PairsOf(buffered_events'),
                  PairsOf(ssh_polled'), BegunIn(stack'), PairsTold)
    PROVE  SshOnceInv'
<1>1. TalesOf("ssh")' = TalesOf("ssh") /\ PairsTold' = PairsTold
  BY SshTalesStay
<1>2. PairsBegun' = BegunIn(stack')
  BY DEF PairsBegun, BegunIn
<1>3. \A x \in TalesOf("ssh")' : SshTale(x)'
  BY <1>1 DEF SshOnceInv
<1>4. \A p \in SshBatchesOf(stack') : stack'[p].cur # NoItem => SshTale(stack[p].cur)'
  BY DEF SshOnceInv, SshTale
<1> QED  BY <1>1, <1>2, <1>3, <1>4 DEF SshOnceInv

LEMMA SshStartServes ==
    ASSUME AnswersInv, RegistryInv, SshOnceInv, NEW with \in BOOLEAN, SshStart(with)
    PROVE  Serves({"ssh"}) /\ SshOnceInv'
<1>1. /\ OwnInv /\ FrameInv /\ Ordered /\ ClaimInv /\ SshTableInv
  BY DEF AnswersInv, RealtimeInv, HandleInv, DuesInv, Ordered
<1>2. /\ ssh_next \in Ops /\ op_callback[ssh_next] = NoCallback /\ next_id \in Nat \ {0}
      /\ DOMAIN op_callback = Ops
      /\ UNCHANGED <<queue, stack, called, emitted, ssh_queue, buffered_events, ssh_polled>>
  BY <1>1 DEF SshStart, SshTableInv, OwnInv, Ops
<1>3. Tells({})
  BY <1>2, StayingTells
<1>4. CASE with
  <2>1. /\ Reregister({}, 1)
        /\ callback_by_operation' = [op \in DOMAIN callback_by_operation \cup {ssh_next} |->
                 IF op = ssh_next THEN next_id ELSE callback_by_operation[op]]
        /\ op_callback' = [op_callback EXCEPT ![ssh_next] = next_id]
    BY <1>4 DEF SshStart
  <2>2. 1 \in {0, 1} /\ Dropping({}, {})  BY DEF Dropping
  <2>3. Leaves({}) /\ next_id \in Alive'  BY <1>1, <2>1, <2>2, ReregisterLeaves
  <2>4. Leaves({"ssh"})  BY <2>3, LeavesMore
  <2>5. /\ \A op \in Ops : op_callback'[op] = IF op = ssh_next THEN next_id ELSE op_callback[op]
        /\ DOMAIN callback_by_operation' = DOMAIN callback_by_operation \cup {ssh_next}
    BY <1>2, <2>1
  <2>6. \A op \in Ops : op_callback'[op] # NoCallback =>
           (op \in DOMAIN callback_by_operation' <=> op_callback'[op] \in Alive')
    <3> SUFFICES ASSUME NEW op \in Ops, op_callback'[op] # NoCallback
                 PROVE  op \in DOMAIN callback_by_operation' <=> op_callback'[op] \in Alive'
      OBVIOUS
    <3>1. CASE op = ssh_next  BY <2>3, <2>5, <3>1
    <3>2. CASE op # ssh_next
      <4>1. op_callback'[op] = op_callback[op] /\ op_callback[op] # NoCallback  BY <2>5, <3>2
      <4>2. Claim(op_callback[op], "ssh", op) \in Tables  BY <4>1 DEF Tables, SshClaims
      <4>3. op_callback[op] \in Alive' <=> op_callback[op] \in Alive  BY <2>3, <4>2, TableStays
      <4> QED  BY <2>5, <3>2, <4>1, <4>3 DEF SshOnceInv, SshAliveInv
    <3> QED  BY <3>1, <3>2
  <2>7. \A p \in BatchesOf(stack') : \A e \in ToSet(stack'[p].rest), op \in Ops :
           SshItem(e, op, op_callback') => op \in DOMAIN callback_by_operation'
    <3> SUFFICES ASSUME NEW p \in BatchesOf(stack), NEW e \in ToSet(stack[p].rest), NEW op \in Ops,
                        SshItem(e, op, op_callback')
                 PROVE  op \in DOMAIN callback_by_operation'
      BY <1>2
    <3>1. CASE op = ssh_next  BY <2>5, <3>1
    <3>2. CASE op # ssh_next
      <4>1. SshItem(e, op, op_callback)  BY <2>5, <3>2 DEF SshItem
      <4> QED  BY <2>5, <4>1 DEF SshOnceInv, SshAliveInv
    <3> QED  BY <3>1, <3>2
  <2>8. SshAliveInv'  BY <2>6, <2>7 DEF SshAliveInv, Ops
  <2>9. \A x : SshTale(x) => SshTale(x)'  BY <1>2, <2>5 DEF SshTale, SshItem, Ops
  <2> QED  BY <1>2, <1>3, <2>4, <2>8, <2>9, SshOnceInSilence, ServesInSilence
              DEF SshOnceInv, PairsBegun, BegunIn, PairsEmitted
<1>5. CASE ~with
  <2>1. UNCHANGED <<registry, deferred, retired, callback_by_operation, op_callback>>
    BY <1>5 DEF SshStart
  <2>2. Serves({"ssh"})  BY <1>2, <2>1, RestServes
  <2>3. Alive' = Alive /\ UNCHANGED Ops  BY <2>1 DEF Alive, Ops
  <2>4. SshAliveInv'  BY <1>2, <2>1, <2>3 DEF SshOnceInv, SshAliveInv
  <2>5. \A x : SshTale(x) => SshTale(x)'  BY <2>1, <2>3 DEF SshTale
  <2> QED  BY <1>2, <1>3, <2>2, <2>4, <2>5, SshOnceInSilence
              DEF SshOnceInv, PairsBegun, BegunIn, PairsEmitted
<1> QED  BY <1>4, <1>5

\* Callbacks and operations are as they were, and so are the batches.
LEMMA SshAliveStays ==
    ASSUME SshAliveInv,
           UNCHANGED <<registry, deferred, retired, stack, callback_by_operation, op_callback>>
    PROVE  SshAliveInv' /\ \A x : SshTale(x) => SshTale(x)'
<1>1. Alive' = Alive /\ UNCHANGED Ops
  BY DEF Alive, Ops
<1> QED  BY <1>1 DEF SshAliveInv, SshTale

LEMMA SshEmitServes ==
    ASSUME AnswersInv, SshOnceInv, NEW op \in Ops, NEW last \in BOOLEAN, SshEmit(op, last)
    PROVE  Serves({"ssh"}) /\ SshOnceInv'
<1> DEFINE e == [op |-> op, n |-> emitted[op] + 1, last |-> last]
           x == Pair(op, emitted[op] + 1)
<1>1. /\ Ordered /\ SshTableInv /\ IsSeq(ssh_queue)
  BY DEF AnswersInv, DuesInv, Ordered, SshOrder, SshLine
<1>2. /\ emitted' = [emitted EXCEPT ![op] = @ + 1] /\ ssh_queue' = Append(ssh_queue, e)
      /\ UNCHANGED <<registry, deferred, retired, queue, stack, called, callback_by_operation,
                     buffered_events, ssh_polled, op_callback>>
  BY DEF SshEmit, cbVars
<1>3. PairsOf(ssh_queue') = PairsOf(ssh_queue) \cup {x}
  <2>1. e.op = op /\ e.n = emitted[op] + 1  OBVIOUS
  <2> HIDE DEF e
  <2>2. ToSet(ssh_queue') = ToSet(ssh_queue) \cup {e}  BY <1>1, <1>2, AppendIs
  <2> QED  BY <2>1, <2>2 DEF PairsOf
<1>4. \A o \in Ops : emitted[o] \in Nat /\ emitted'[o] = IF o = op THEN emitted[o] + 1 ELSE emitted[o]
  BY <1>1, <1>2 DEF SshTableInv
<1>5. PairsEmitted' = PairsEmitted \cup {x} /\ x \notin PairsEmitted
  <2> DEFINE S(o) == {Pair(o, n) : n \in 1..emitted[o]}
             R(o) == {Pair(o, n) : n \in 1..emitted'[o]}
  <2>1. PairsEmitted = UNION {S(o) : o \in Ops} /\ PairsEmitted' = UNION {R(o) : o \in Ops}
    BY DEF PairsEmitted, Ops
  <2>2. \A o \in Ops : o # op => R(o) = S(o)  BY <1>4
  <2>3. R(op) = S(op) \cup {x}
    <3>1. 1..emitted'[op] = 1..emitted[op] \cup {emitted[op] + 1}  BY <1>4
    <3> QED  BY <3>1
  <2>4. \A o \in Ops : x \notin S(o)
    <3>1. \A n \in 1..emitted[op] : n # emitted[op] + 1  BY <1>4
    <3> QED  BY <3>1, PairIs
  <2> HIDE DEF S, R, x
  <2> QED  BY <2>1, <2>2, <2>3, <2>4
<1> HIDE DEF e, x
<1>6. Serves({"ssh"})
  BY <1>2, RestServes
<1>7. Tells({})
  BY <1>2, StayingTells
<1>8. SshAliveInv' /\ \A y : SshTale(y) => SshTale(y)'
  BY <1>2, SshAliveStays DEF SshOnceInv
<1>9. Parts5(PairsEmitted', PairsOf(ssh_queue'), PairsOf(buffered_events'),
             PairsOf(ssh_polled'), BegunIn(stack'), PairsTold)
  <2>1. Parts5(PairsEmitted, PairsOf(ssh_queue), PairsOf(buffered_events), PairsOf(ssh_polled),
               BegunIn(stack), PairsTold)
    BY DEF SshOnceInv, PairsBegun, BegunIn
  <2>2. \A U, A, B, C, D, E, y : Parts5(U, A, B, C, D, E) /\ y \notin U
             => Parts5(U \cup {y}, A \cup {y}, B, C, D, E)
    BY DEF Parts5, Parts4, Parts3, Parts2
  <2> QED  BY <1>2, <1>3, <1>5, <2>1, <2>2
<1> QED  BY <1>2, <1>6, <1>7, <1>8, <1>9, SshOnceInSilence DEF SshOnceInv

\* Frames of lua_ssh_dispatch come and go, or change.
SameWaiting ==
    /\ UNCHANGED <<queue, called>> /\ BatchesOf(stack') = BatchesOf(stack)
    /\ \A p \in BatchesOf(stack) : stack'[p] = stack[p]

LEMMA SameWaitingTells ==
    ASSUME SameWaiting
    PROVE  Tells({})
<1>1. WaitsIn(queue', stack') = WaitsIn(queue, stack) \cup {} /\ TalesIn({}) = {}
  <2>1. \A p \in BatchesOf(stack) : p \in BatchesOf(stack') /\ stack'[p].rest = stack[p].rest
    BY DEF SameWaiting
  <2>2. \A p \in BatchesOf(stack') : p \in BatchesOf(stack) \/ ToSet(stack'[p].rest) = {}
    BY DEF SameWaiting
  <2>3. WaitsIn(queue, stack') = WaitsIn(queue, stack)  BY <2>1, <2>2, SameBatches
  <2> QED  BY <2>3 DEF SameWaiting, TalesIn
<1> QED  BY <1>1, ToldWaiting DEF SameWaiting

LEMMA SshFramesServe ==
    ASSUME SshOnceInv, SameWaiting,
           UNCHANGED <<registry, deferred, retired, callback_by_operation, op_callback, emitted,
                       buffered_events, ssh_polled>>,
           \A p \in SshBatchesOf(stack') : \/ stack'[p].cur = NoItem
                                           \/ p \in SshBatchesOf(stack) /\ stack'[p].cur = stack[p].cur,
           Parts5(PairsEmitted, PairsOf(ssh_queue'), PairsOf(buffered_events),
                  PairsOf(ssh_polled), BegunIn(stack'), PairsTold)
    PROVE  Serves({"ssh"}) /\ SshOnceInv'
<1>1. Tells({}) /\ Leaves({"ssh"})
  BY SameWaitingTells, RestingLeaves
<1>2. Alive' = Alive /\ UNCHANGED Ops
  BY DEF Alive, Ops
<1>3. SshAliveInv'
  BY <1>2 DEF SshOnceInv, SshAliveInv, SameWaiting
<1>4. \A x : SshTale(x) => SshTale(x)'
  BY <1>2 DEF SshTale
<1>5. PairsEmitted' = PairsEmitted
  BY <1>2 DEF PairsEmitted
<1>6. SshOnceInv'
  BY <1>1, <1>3, <1>4, <1>5, SshOnceInSilence DEF SshOnceInv
<1> QED  BY <1>1, <1>6, ServesInSilence

LEMMA SshDispatchServes ==
    ASSUME AnswersInv, SshOnceInv, SshDispatch
    PROVE  Serves({"ssh"}) /\ SshOnceInv'
<1> DEFINE f == Frame("ssh", ssh_queue, NoItem)
           n == Len(stack)
<1>1. IsSeq(stack) /\ f.kind = "ssh" /\ f.rest = ssh_queue /\ f.cur = NoItem
  BY DEF AnswersInv, RealtimeInv, HandleInv, FrameInv, Frame
<1>2. /\ stack' = Append(stack, f) /\ ssh_queue' = <<>>
      /\ UNCHANGED <<registry, deferred, retired, queue, called, emitted, callback_by_operation,
                     op_callback, buffered_events, ssh_polled>>
  BY DEF SshDispatch
<1> HIDE DEF f
<1>3. /\ DOMAIN stack = 1..n /\ n \in Nat /\ DOMAIN stack' = 1..(n + 1)
      /\ stack'[n + 1] = f /\ \A i \in 1..n : stack'[i] = stack[i]
  <2>1. IsSeq(stack') /\ Len(stack') = n + 1  BY <1>1, <1>2, AppendIs
  <2>2. \A s : IsSeq(s) => DOMAIN s = 1..Len(s)  BY SeqIs
  <2> QED  BY <1>1, <1>2, <2>1, <2>2, AppendIs, SeqIs
<1> HIDE DEF n
<1>4. /\ n + 1 \notin DOMAIN stack /\ n + 1 \in DOMAIN stack'
      /\ \A i \in DOMAIN stack : i \in DOMAIN stack' /\ stack'[i] = stack[i]
      /\ \A i \in DOMAIN stack' : i = n + 1 \/ i \in DOMAIN stack
  BY <1>3
<1>5. /\ SshBatchesOf(stack') = SshBatchesOf(stack) \cup {n + 1}
      /\ BatchesOf(stack') = BatchesOf(stack)
  BY <1>1, <1>3, <1>4 DEF SshBatchesOf, BatchesOf
<1>6. SameWaiting
  BY <1>2, <1>4, <1>5 DEF SameWaiting, BatchesOf
<1>7. BegunIn(stack') = BegunIn(stack) \cup PairsOf(ssh_queue)
  <2>1. \A p \in SshBatchesOf(stack) : stack'[p] = stack[p]  BY <1>4 DEF SshBatchesOf
  <2>2. stack'[n + 1].rest = ssh_queue  BY <1>1, <1>3
  <2> QED  BY <1>5, <2>1, <2>2 DEF BegunIn
<1>8. PairsOf(ssh_queue') = {}
  BY <1>2, EmptyIsSeq DEF PairsOf
<1>9. Parts5(PairsEmitted, PairsOf(ssh_queue'), PairsOf(buffered_events), PairsOf(ssh_polled),
             BegunIn(stack'), PairsTold)
  <2>1. Parts5(PairsEmitted, PairsOf(ssh_queue), PairsOf(buffered_events), PairsOf(ssh_polled),
               BegunIn(stack), PairsTold)
    BY DEF SshOnceInv, PairsBegun, BegunIn
  <2>2. \A U, A, B, C, D, E : Parts5(U, A, B, C, D, E) => Parts5(U, {}, B, C, D \cup A, E)
    BY DEF Parts5, Parts4, Parts3, Parts2
  <2> QED  BY <1>7, <1>8, <2>1, <2>2
<1>10. \A p \in SshBatchesOf(stack') : \/ stack'[p].cur = NoItem
                                       \/ p \in SshBatchesOf(stack) /\ stack'[p].cur = stack[p].cur
  BY <1>1, <1>3, <1>4, <1>5 DEF SshBatchesOf
<1> QED  BY <1>2, <1>6, <1>9, <1>10, SshFramesServe

LEMMA SshDispatchedServes ==
    ASSUME AnswersInv, SshOnceInv, SshDispatched
    PROVE  Serves({"ssh"}) /\ SshOnceInv'
<1> DEFINE n == Len(stack)
<1>1. /\ FrameInv /\ Top.kind = "ssh" /\ Top.rest = <<>> /\ stack' = Below
      /\ UNCHANGED <<registry, deferred, retired, queue, called, emitted, callback_by_operation,
                     op_callback, buffered_events, ssh_polled, ssh_queue>>
  BY DEF SshDispatched, lsVars, AnswersInv, RealtimeInv, HandleInv
<1>2. /\ n \in Nat \ {0} /\ DOMAIN stack = 1..n /\ Top = stack[n]
      /\ DOMAIN stack' = 1..(n - 1) /\ \A i \in 1..(n - 1) : stack'[i] = stack[i]
  BY <1>1, TopIs
<1> HIDE DEF n
<1>3. /\ n \notin DOMAIN stack' /\ n \in DOMAIN stack
      /\ \A i \in DOMAIN stack' : i \in DOMAIN stack /\ stack'[i] = stack[i]
      /\ \A i \in DOMAIN stack : i = n \/ i \in DOMAIN stack'
  BY <1>2
<1>4. /\ SshBatchesOf(stack) = SshBatchesOf(stack') \cup {n}
      /\ BatchesOf(stack') = BatchesOf(stack)
  BY <1>1, <1>2, <1>3 DEF SshBatchesOf, BatchesOf
<1>5. SameWaiting
  BY <1>1, <1>3, <1>4 DEF SameWaiting, BatchesOf
<1>6. BegunIn(stack') = BegunIn(stack)
  <2>1. \A p \in SshBatchesOf(stack') : stack'[p] = stack[p]  BY <1>3 DEF SshBatchesOf
  <2>2. PairsOf(stack[n].rest) = {}  BY <1>1, <1>2, EmptyIsSeq DEF PairsOf
  <2> QED  BY <1>4, <2>1, <2>2 DEF BegunIn
<1>7. Parts5(PairsEmitted, PairsOf(ssh_queue'), PairsOf(buffered_events), PairsOf(ssh_polled),
             BegunIn(stack'), PairsTold)
  BY <1>1, <1>6 DEF SshOnceInv, PairsBegun, BegunIn
<1>8. \A p \in SshBatchesOf(stack') : p \in SshBatchesOf(stack) /\ stack'[p].cur = stack[p].cur
  BY <1>3 DEF SshBatchesOf
<1> QED  BY <1>1, <1>5, <1>7, <1>8, SshFramesServe

LEMMA SshPollServes ==
    ASSUME AnswersInv, SshOnceInv, NEW max \in {0, 1}, SshPollCall(max)
    PROVE  Serves({"ssh"}) /\ SshOnceInv'
<1> DEFINE fresh(n) == IF n = 0 \/ n > Len(ssh_queue) THEN Len(ssh_queue) ELSE n
           old == IF max = 0 \/ max > Len(buffered_events) THEN Len(buffered_events) ELSE max
           rest == IF max = 0 THEN 0 ELSE max - old
           got == SubSeq(ssh_queue, 1, fresh(rest))
           shown == IF max = 0 \/ rest > 0 THEN Len(got) ELSE 0
           a == SubSeq(buffered_events, 1, old)
           b == SubSeq(buffered_events, old + 1, Len(buffered_events))
           c == SubSeq(got, 1, shown)
           d == SubSeq(got, shown + 1, Len(got))
<1>1. /\ ssh_queue' = SubSeq(ssh_queue, Len(got) + 1, Len(ssh_queue))
      /\ ssh_polled' = ssh_polled \o a \o c /\ buffered_events' = b \o d
      /\ UNCHANGED <<registry, deferred, retired, queue, stack, called, emitted,
                     callback_by_operation, op_callback>>
  BY DEF SshPollCall, cbVars
<1>2. /\ IsSeq(ssh_queue) /\ IsSeq(buffered_events) /\ IsSeq(ssh_polled)
      /\ DistinctPairs(ssh_queue) /\ DistinctPairs(buffered_events) /\ DistinctPairs(ssh_polled)
  <2>1. IsSeq(ssh_queue) /\ Rising(ssh_queue) /\ Emitted(ToSet(ssh_queue), emitted)
    BY DEF AnswersInv, DuesInv, Ordered, SshOrder, SshLine
  <2>2. DistinctPairs(ssh_queue)  BY <2>1, RisingIsDistinct
  <2> QED  BY <2>1, <2>2 DEF AnswersInv, DuesInv, Ordered, SshTableInv, SshOnceInv
<1>3. \A s : IsSeq(s) => Len(s) \in Nat
  BY SeqIs
<1>4. /\ old \in Nat /\ rest \in Nat /\ fresh(rest) \in Nat /\ fresh(rest) <= Len(ssh_queue)
      /\ old <= Len(buffered_events)
  BY <1>2, <1>3
<1> HIDE DEF old, rest, fresh
<1>5. Cuts(ssh_queue, got, ssh_queue')
  <2>1. /\ Cuts(ssh_queue, got, SubSeq(ssh_queue, fresh(rest) + 1, Len(ssh_queue)))
        /\ Len(got) = fresh(rest)
    BY <1>2, <1>4, CutAt
  <2> QED  BY <1>1, <2>1
<1>6. Cuts(buffered_events, a, b)
  BY <1>2, <1>4, CutAt
<1>7. IsSeq(got) /\ DistinctPairs(got)
  BY <1>2, <1>5 DEF Cuts
<1>8. Cuts(got, c, d)
  <2> HIDE DEF got
  <2>1. shown \in Nat /\ shown <= Len(got)  BY <1>3, <1>7
  <2> HIDE DEF shown
  <2> QED  BY <1>7, <2>1, CutAt
<1> HIDE DEF got, a, b, c, d, shown
<1>9. /\ IsSeq(a) /\ IsSeq(b) /\ IsSeq(c) /\ IsSeq(d)
      /\ DistinctPairs(a) /\ DistinctPairs(b) /\ DistinctPairs(c) /\ DistinctPairs(d)
  BY <1>2, <1>6, <1>7, <1>8 DEF Cuts
<1>10. /\ PairsOf(ssh_queue) = PairsOf(got) \cup PairsOf(ssh_queue')
       /\ PairsOf(buffered_events) = PairsOf(a) \cup PairsOf(b)
       /\ PairsOf(got) = PairsOf(c) \cup PairsOf(d)
  BY <1>5, <1>6, <1>8, ParcelsAre DEF Cuts
<1>11. /\ PairsOf(got) \cap PairsOf(ssh_queue') = {} /\ PairsOf(a) \cap PairsOf(b) = {}
       /\ PairsOf(c) \cap PairsOf(d) = {}
  BY <1>2, <1>5, <1>6, <1>7, <1>8 DEF Cuts
<1>12. Parts5(PairsEmitted, PairsOf(ssh_queue), PairsOf(buffered_events), PairsOf(ssh_polled),
              BegunIn(stack), PairsTold)
  BY DEF SshOnceInv, PairsBegun, BegunIn
<1>13. /\ PairsOf(ssh_queue) \cap PairsOf(buffered_events) = {}
       /\ PairsOf(ssh_queue) \cap PairsOf(ssh_polled) = {}
       /\ PairsOf(buffered_events) \cap PairsOf(ssh_polled) = {}
  BY <1>12 DEF Parts5, Parts4, Parts3, Parts2
<1>14. /\ IsSeq(ssh_polled \o a) /\ DistinctPairs(ssh_polled \o a)
       /\ ToSet(ssh_polled \o a) = ToSet(ssh_polled) \cup ToSet(a)
  <2>1. PairsOf(ssh_polled) \cap PairsOf(a) = {}  BY <1>10, <1>13
  <2> QED  BY <1>2, <1>9, <2>1, Joins
<1>15. PairsOf(ssh_polled \o a) = PairsOf(ssh_polled) \cup PairsOf(a)
  BY <1>14 DEF PairsOf
<1>16. /\ IsSeq(ssh_polled') /\ DistinctPairs(ssh_polled')
       /\ ToSet(ssh_polled') = ToSet(ssh_polled \o a) \cup ToSet(c)
  <2>1. PairsOf(ssh_polled \o a) \cap PairsOf(c) = {}  BY <1>10, <1>13, <1>15
  <2> QED  BY <1>1, <1>9, <1>14, <2>1, Joins
<1>17. PairsOf(ssh_polled') = PairsOf(ssh_polled) \cup PairsOf(a) \cup PairsOf(c)
  <2>1. PairsOf(ssh_polled') = PairsOf(ssh_polled \o a) \cup PairsOf(c)  BY <1>16 DEF PairsOf
  <2> QED  BY <1>15, <2>1
<1>18. DistinctPairs(buffered_events') /\ ToSet(buffered_events') = ToSet(b) \cup ToSet(d)
  <2>1. PairsOf(b) \cap PairsOf(d) = {}  BY <1>10, <1>13
  <2> QED  BY <1>1, <1>9, <2>1, Joins
<1>19. PairsOf(buffered_events') = PairsOf(b) \cup PairsOf(d)
  BY <1>18 DEF PairsOf
<1>20. Parts5(PairsEmitted, PairsOf(ssh_queue'), PairsOf(buffered_events'), PairsOf(ssh_polled'),
              BegunIn(stack), PairsTold)
  <2>1. \A U, Q, A, B, C, D, P, E, F :
            /\ Parts5(U, (C \cup D) \cup Q, A \cup B, P, E, F)
            /\ (C \cup D) \cap Q = {} /\ A \cap B = {} /\ C \cap D = {}
            => Parts5(U, Q, B \cup D, P \cup A \cup C, E, F)
    BY DEF Parts5, Parts4, Parts3, Parts2
  <2>2. Parts5(PairsEmitted, (PairsOf(c) \cup PairsOf(d)) \cup PairsOf(ssh_queue'),
               PairsOf(a) \cup PairsOf(b), PairsOf(ssh_polled), BegunIn(stack), PairsTold)
    BY <1>10, <1>12
  <2>3. (PairsOf(c) \cup PairsOf(d)) \cap PairsOf(ssh_queue') = {}  BY <1>10, <1>11
  <2>4. Parts5(PairsEmitted, PairsOf(ssh_queue'), PairsOf(b) \cup PairsOf(d),
               PairsOf(ssh_polled) \cup PairsOf(a) \cup PairsOf(c), BegunIn(stack), PairsTold)
    BY <1>11, <2>1, <2>2, <2>3
  <2> QED  BY <1>17, <1>19, <2>4
<1>21. Serves({"ssh"}) /\ Tells({})
  BY <1>1, RestServes, StayingTells
<1>22. SshAliveInv' /\ \A x : SshTale(x) => SshTale(x)'
  BY <1>1, SshAliveStays DEF SshOnceInv
<1>23. PairsEmitted' = PairsEmitted
  BY <1>1 DEF PairsEmitted, Ops
<1> QED  BY <1>1, <1>16, <1>18, <1>20, <1>21, <1>22, <1>23, SshOnceInSilence

LEMMA SshHandledServes ==
    ASSUME AnswersInv, RegistryInv, SshOnceInv, SshHandled
    PROVE  Serves({"ssh"}) /\ SshOnceInv'
<1> DEFINE n == Len(stack)
           f == Frame("ssh", Top.rest, NoItem)
           id == Top.cur.ev.id
<1>1. /\ OwnInv /\ FrameInv /\ Ordered /\ ClaimInv
      /\ Top.kind = "ssh" /\ Top.cur # NoItem /\ stack' = Append(Below, f)
      /\ UNCHANGED <<queue, called, emitted, ssh_queue, op_callback, buffered_events, ssh_polled>>
  BY DEF SshHandled, AnswersInv, RealtimeInv, HandleInv, DuesInv
<1>2. f.kind = "ssh" /\ f.rest = Top.rest /\ f.cur = NoItem
  BY DEF Frame
<1> HIDE DEF f
<1>3. /\ n \in Nat \ {0} /\ DOMAIN stack = 1..n /\ Top = stack[n]
      /\ DOMAIN stack' = 1..n /\ stack'[n] = f
      /\ \A i \in 1..(n - 1) : stack'[i] = stack[i]
  <2>1. /\ DOMAIN Append(Below, f) = DOMAIN stack
        /\ Append(Below, f)[Len(stack)] = f
        /\ \A i \in 1..(Len(stack) - 1) : Append(Below, f)[i] = stack[i]
    BY <1>1, ReplacedIs
  <2>2. n \in Nat \ {0} /\ DOMAIN stack = 1..n /\ Top = stack[n]  BY <1>1, TopIs
  <2> QED  BY <1>1, <2>1, <2>2
<1>4. \A p \in BatchesOf(stack) : NoSshItems(ToSet(stack[p].rest), op_callback)
  BY <1>1, TopIsQuiet, QuietMeansNoSshItems DEF Ordered, Order, Sequenced
<1> HIDE DEF n
<1>5. DOMAIN stack' = DOMAIN stack /\ \A i \in DOMAIN stack : i # n => stack'[i] = stack[i]
  BY <1>3
<1>6. \A i \in DOMAIN stack : stack'[i].kind = stack[i].kind /\ stack'[i].rest = stack[i].rest
  BY <1>1, <1>2, <1>3, <1>5
<1>7. BatchesOf(stack') = BatchesOf(stack) /\ SshBatchesOf(stack') = SshBatchesOf(stack)
  BY <1>5, <1>6 DEF BatchesOf, SshBatchesOf
<1>8. SameWaiting
  <2>1. \A p \in BatchesOf(stack) : p # n /\ p \in DOMAIN stack  BY <1>1, <1>3 DEF BatchesOf
  <2> QED  BY <1>1, <1>5, <1>7, <2>1 DEF SameWaiting
<1>9. \A p \in SshBatchesOf(stack') : \/ stack'[p].cur = NoItem
                                      \/ p \in SshBatchesOf(stack) /\ stack'[p].cur = stack[p].cur
  BY <1>2, <1>3, <1>5, <1>7 DEF SshBatchesOf
<1>10. BegunIn(stack') = BegunIn(stack)
  <2>1. \A p \in SshBatchesOf(stack) : stack'[p].rest = stack[p].rest  BY <1>6 DEF SshBatchesOf
  <2> QED  BY <1>7, <2>1 DEF BegunIn
<1>11. Parts5(PairsEmitted, PairsOf(ssh_queue), PairsOf(buffered_events), PairsOf(ssh_polled),
              BegunIn(stack'), PairsTold)
  BY <1>10 DEF SshOnceInv, PairsBegun, BegunIn
<1>12. CASE Top.cur.ev.what # "end"
  <2>1. UNCHANGED <<registry, deferred, retired, callback_by_operation>>  BY <1>12 DEF SshHandled
  <2> QED  BY <1>1, <1>8, <1>9, <1>11, <2>1, SshFramesServe
<1>13. CASE Top.cur.ev.what = "end"
  <2> DEFINE cb == Top.cur.cb
  <2>1. /\ Reregister({cb}, 0)
        /\ callback_by_operation' = [op \in DOMAIN callback_by_operation \ {id} |->
                                        callback_by_operation[op]]
    BY <1>13 DEF SshHandled, Unregister
  <2>2. SshTale(Top.cur)
    <3>1. n \in SshBatchesOf(stack) /\ stack[n].cur # NoItem  BY <1>1, <1>3 DEF SshBatchesOf
    <3> QED  BY <1>3, <3>1 DEF SshOnceInv
  <2>3. id \in Ops /\ cb = op_callback[id] /\ op_callback[id] # NoCallback
    BY <2>2 DEF SshTale, SshItem
  <2> HIDE DEF id, cb
  <2>4. \A op \in Ops : op_callback[op] # NoCallback => Claim(op_callback[op], "ssh", op) \in Claims
    BY DEF Claims, Tables, SshClaims
  <2>5. \A op \in Ops : op_callback[op] # NoCallback => op_callback[op] \in 1..(next_id - 1)
    BY <1>1, <2>4, ClaimIs DEF ClaimInv
  <2>6. 0 \in {0, 1} /\ Dropping({cb}, {"ssh"}) /\ {cb} \subseteq 1..(next_id - 1)
    BY <2>3, <2>4, <2>5, ClaimIs DEF Dropping
  <2>7. Leaves({"ssh"})  BY <1>1, <2>1, <2>6, ReregisterLeaves
  <2>8. \A c \in 1..(next_id - 1) : c \in Alive' <=> c \in Alive /\ c \notin {cb}
    BY <1>1, <2>1, <2>6, ReregisterAlive
  <2>9. DOMAIN callback_by_operation' = DOMAIN callback_by_operation \ {id}  BY <2>1
  <2>10. ASSUME NEW op \in Ops, op_callback'[op] # NoCallback
         PROVE  op \in DOMAIN callback_by_operation' <=> op_callback'[op] \in Alive'
    <3>1. op_callback[op] = cb <=> op = id  BY <1>1, <2>3, <2>10, OperationsDiffer
    <3> QED  BY <1>1, <2>5, <2>8, <2>9, <2>10, <3>1 DEF SshOnceInv, SshAliveInv
  <2>11. UNCHANGED Ops  BY DEF Ops
  <2>12. \A p \in BatchesOf(stack') : \A e \in ToSet(stack'[p].rest), op \in Ops :
            ~SshItem(e, op, op_callback')
    BY <1>1, <1>4, <1>8 DEF SameWaiting, NoSshItems
  <2>13. SshAliveInv'  BY <2>10, <2>11, <2>12 DEF SshAliveInv
  <2>14. \A x : SshTale(x) => SshTale(x)'  BY <1>1, <2>11 DEF SshTale
  <2>15. Tells({})  BY <1>8, SameWaitingTells
  <2>16. PairsEmitted' = PairsEmitted  BY <1>1, <2>11 DEF PairsEmitted
  <2>17. SshOnceInv'
    BY <1>1, <1>9, <1>11, <2>13, <2>14, <2>15, <2>16, SshOnceInSilence DEF SshOnceInv
  <2> QED  BY <2>7, <2>15, <2>17, ServesInSilence
<1> QED  BY <1>12, <1>13

\* handle_polled_event takes the next event of its batch, x being what that is and
\* m the stack then.
HeadLeaves(m, cur, x) ==
    /\ IsSeq(m) /\ DOMAIN m = DOMAIN stack /\ Len(stack) \in DOMAIN m /\ m[Len(stack)].cur = cur
    /\ \A p \in DOMAIN m : p # Len(stack) => m[p] = stack[p]
    /\ BatchesOf(m) = BatchesOf(stack) /\ SshBatchesOf(m) = SshBatchesOf(stack)
    /\ Len(stack) \in SshBatchesOf(stack)
    /\ BegunIn(stack) = BegunIn(m) \cup {x} /\ x \notin BegunIn(m)

LEMMA SshHeadLeaves ==
    ASSUME AnswersInv, Top.kind = "ssh", Top.rest # <<>>,
           NEW cur, NEW m, m = Append(Below, Frame("ssh", Tail(Top.rest), cur))
    PROVE  HeadLeaves(m, cur, Pair(Head(Top.rest).op, Head(Top.rest).n))
<1> DEFINE n == Len(stack)
           e == Head(Top.rest)
           r == Tail(Top.rest)
           f == Frame("ssh", r, cur)
<1>1. FrameInv /\ Ordered
  BY DEF AnswersInv, RealtimeInv, HandleInv, DuesInv
<1>2. f.kind = "ssh" /\ f.rest = r /\ f.cur = cur /\ m = Append(Below, f)
  BY DEF Frame
<1> HIDE DEF f
<1>3. /\ n \in Nat \ {0} /\ DOMAIN stack = 1..n /\ Top = stack[n]
      /\ IsSeq(m) /\ DOMAIN m = 1..n /\ m[n] = f /\ \A i \in 1..(n - 1) : m[i] = stack[i]
  <2>1. /\ IsSeq(Append(Below, f)) /\ DOMAIN Append(Below, f) = DOMAIN stack
        /\ Append(Below, f)[Len(stack)] = f
        /\ \A i \in 1..(Len(stack) - 1) : Append(Below, f)[i] = stack[i]
    BY <1>1, ReplacedIs
  <2>2. n \in Nat \ {0} /\ DOMAIN stack = 1..n /\ Top = stack[n]  BY <1>1, TopIs
  <2> QED  BY <1>2, <2>1, <2>2
<1> HIDE DEF n
<1>4. /\ n \in DOMAIN m /\ DOMAIN m = DOMAIN stack /\ \A p \in DOMAIN m : p # n => m[p] = stack[p]
      /\ \A p \in DOMAIN m : m[p].kind = stack[p].kind
      /\ \A p \in DOMAIN stack : p # n => p < n
  BY <1>2, <1>3
<1>5. /\ BatchesOf(m) = BatchesOf(stack) /\ SshBatchesOf(m) = SshBatchesOf(stack)
      /\ n \in SshBatchesOf(stack)
  BY <1>3, <1>4 DEF BatchesOf, SshBatchesOf
<1>6. /\ IsSeq(stack[n].rest) /\ Rising(stack[n].rest) /\ Emitted(ToSet(stack[n].rest), emitted)
      /\ \A p \in SshBatchesOf(stack) : Emitted(ToSet(stack[p].rest), emitted)
      /\ \A p \in SshBatchesOf(stack) : p < n => Rises(ToSet(stack[p].rest), ToSet(stack[n].rest))
  BY <1>1, <1>5 DEF Ordered, SshOrder, SshLine
<1>7. /\ ToSet(Top.rest) = ToSet(r) \cup {e} /\ \A x \in ToSet(r) : x.op = e.op => e.n < x.n
  BY <1>3, <1>6, TailIs, RisingTail
<1> HIDE DEF r, e
<1>8. e.n \in Nat /\ \A p \in SshBatchesOf(stack) : \A x \in ToSet(stack[p].rest) : x.n \in Nat
  BY <1>3, <1>6, <1>7 DEF Emitted
<1>9. Pair(e.op, e.n) \notin PairsOf(r)
  <2>1. \A x \in ToSet(r) : x.n \in Nat  BY <1>3, <1>5, <1>7, <1>8
  <2>2. \A x \in ToSet(r) : ~(x.op = e.op /\ x.n = e.n)  BY <1>7, <1>8, <2>1
  <2> QED  BY <2>2, PairIs DEF PairsOf
<1>10. \A p \in SshBatchesOf(stack) : p # n => Pair(e.op, e.n) \notin PairsOf(stack[p].rest)
  <2> SUFFICES ASSUME NEW p \in SshBatchesOf(stack), p # n
               PROVE  Pair(e.op, e.n) \notin PairsOf(stack[p].rest)
    OBVIOUS
  <2>1. Rises(ToSet(stack[p].rest), ToSet(stack[n].rest)) /\ e \in ToSet(stack[n].rest)
    BY <1>3, <1>4, <1>6, <1>7 DEF SshBatchesOf
  <2>2. \A x \in ToSet(stack[p].rest) : ~(x.op = e.op /\ x.n = e.n)  BY <1>8, <2>1 DEF Rises
  <2> QED  BY <2>2, PairIs DEF PairsOf
<1>11. PairsOf(stack[n].rest) = PairsOf(r) \cup {Pair(e.op, e.n)}
  BY <1>3, <1>7 DEF PairsOf
<1>12. \A p \in SshBatchesOf(stack) : p # n => m[p].rest = stack[p].rest
  BY <1>4 DEF SshBatchesOf
<1>13. m[n].rest = r
  BY <1>2, <1>3
<1>14. BegunIn(stack) = BegunIn(m) \cup {Pair(e.op, e.n)} /\ Pair(e.op, e.n) \notin BegunIn(m)
  <2> DEFINE x == Pair(e.op, e.n)
             S(p) == PairsOf(stack[p].rest)
             R(p) == PairsOf(m[p].rest)
  <2>1. /\ BegunIn(stack) = UNION {S(p) : p \in SshBatchesOf(stack)}
        /\ BegunIn(m) = UNION {R(p) : p \in SshBatchesOf(stack)}
    BY <1>5 DEF BegunIn
  <2>2. S(n) = R(n) \cup {x} /\ x \notin R(n)  BY <1>9, <1>11, <1>13
  <2>3. \A p \in SshBatchesOf(stack) : p # n => S(p) = R(p) /\ x \notin S(p)  BY <1>10, <1>12
  <2> HIDE DEF x, S, R
  <2>4. BegunIn(stack) = BegunIn(m) \cup {x} /\ x \notin BegunIn(m)  BY <1>5, <2>1, <2>2, <2>3
  <2> QED  BY <2>4 DEF x
<1>15. m[n].cur = cur
  BY <1>2, <1>3
<1> QED  BY <1>3, <1>4, <1>5, <1>14, <1>15 DEF n, e, HeadLeaves

LEMMA SshHandleServes ==
    ASSUME AnswersInv, SshOnceInv, SshHandle
    PROVE  Serves({"ssh"}) /\ SshOnceInv'
<1> DEFINE n == Len(stack)
           e == Head(Top.rest)
           r == Tail(Top.rest)
           x == Pair(e.op, e.n)
<1>1. /\ FrameInv /\ Ordered /\ ClaimInv /\ Top.kind = "ssh" /\ Top.rest # <<>>
      /\ IsSeq(queue) /\ IsSeq(buffered_events) /\ NoSshItems(ToSet(queue), op_callback)
      /\ UNCHANGED <<registry, deferred, retired, called, emitted, ssh_queue,
                     callback_by_operation, ssh_polled, op_callback>>
  BY DEF SshHandle, AnswersInv, RealtimeInv, HandleInv, DuesInv, FrameInv, Ordered, SshTableInv,
         SshOrder, SshWaits
<1>2. ASSUME NEW cur, NEW m, m = Append(Below, Frame("ssh", r, cur))
      PROVE  HeadLeaves(m, cur, x)
  BY <1>1, <1>2, SshHeadLeaves
<1>3. Parts5(PairsEmitted, PairsOf(ssh_queue), PairsOf(buffered_events), PairsOf(ssh_polled),
             BegunIn(stack), PairsTold)
  BY DEF SshOnceInv, PairsBegun, BegunIn
<1>4. Alive' = Alive /\ UNCHANGED Ops
  BY <1>1 DEF Alive, Ops
<1>5. PairsEmitted' = PairsEmitted
  BY <1>1, <1>4 DEF PairsEmitted
<1>6. \A y : SshTale(y) => SshTale(y)'
  BY <1>1, <1>4 DEF SshTale
<1>7. \A op \in Ops : op_callback'[op] # NoCallback =>
         (op \in DOMAIN callback_by_operation' <=> op_callback'[op] \in Alive')
  BY <1>1, <1>4 DEF SshOnceInv, SshAliveInv
<1>8. Leaves({"ssh"})
  BY <1>1, RestingLeaves
<1> HIDE DEF n
<1>9. CASE e.op \notin DOMAIN callback_by_operation
  <2>1. /\ stack' = Append(Below, Frame("ssh", r, NoItem)) /\ queue' = queue
        /\ buffered_events' = Append(buffered_events, e)
    BY <1>9 DEF SshHandle
  <2> HIDE DEF e, r
  <2>2. /\ DOMAIN stack' = DOMAIN stack /\ n \in DOMAIN stack' /\ stack'[n].cur = NoItem
        /\ \A p \in DOMAIN stack' : p # n => stack'[p] = stack[p]
        /\ BatchesOf(stack') = BatchesOf(stack) /\ SshBatchesOf(stack') = SshBatchesOf(stack)
        /\ n \in SshBatchesOf(stack)
        /\ BegunIn(stack) = BegunIn(stack') \cup {x} /\ x \notin BegunIn(stack')
    <3>1. HeadLeaves(stack', NoItem, x)  BY <1>2, <2>1
    <3> HIDE DEF x
    <3> QED  BY <3>1 DEF HeadLeaves, n
  <2>3. SameWaiting
    <3>1. n \notin BatchesOf(stack)  BY <2>2 DEF BatchesOf, SshBatchesOf
    <3> QED  BY <1>1, <2>1, <2>2, <3>1 DEF SameWaiting, BatchesOf
  <2>4. Tells({})  BY <2>3, SameWaitingTells
  <2>5. PairsOf(buffered_events') = PairsOf(buffered_events) \cup {x}
    <3>1. ToSet(buffered_events') = ToSet(buffered_events) \cup {e}  BY <1>1, <2>1, AppendIs
    <3> QED  BY <3>1 DEF PairsOf
  <2>6. x \notin PairsOf(buffered_events)  BY <1>3, <2>2 DEF Parts5, Parts4, Parts3, Parts2
  <2>7. DistinctPairs(buffered_events')
    <3>1. IsSeq(<<e>>) /\ ToSet(<<e>>) = {e} /\ Append(buffered_events, e) = buffered_events \o <<e>>
      BY <1>1, OneAppended
    <3>2. DistinctPairs(<<e>>)  BY DEF DistinctPairs
    <3>3. PairsOf(<<e>>) = {x}  BY <3>1 DEF PairsOf
    <3>4. DistinctPairs(buffered_events) /\ PairsOf(buffered_events) \cap PairsOf(<<e>>) = {}
      BY <2>6, <3>3 DEF SshOnceInv
    <3> QED  BY <1>1, <2>1, <3>1, <3>2, <3>4, Joins
  <2> HIDE DEF x
  <2>8. Parts5(PairsEmitted', PairsOf(ssh_queue'), PairsOf(buffered_events'), PairsOf(ssh_polled'),
               BegunIn(stack'), PairsTold)
    <3>1. \A U, A, B, C, D, E : Parts5(U, A, B, C, D \cup {x}, E) /\ x \notin D
             => Parts5(U, A, B \cup {x}, C, D, E)
      BY DEF Parts5, Parts4, Parts3, Parts2
    <3> QED  BY <1>1, <1>3, <1>5, <2>2, <2>5, <3>1
  <2>9. SshAliveInv'  BY <1>1, <1>4, <1>7, <2>3 DEF SshOnceInv, SshAliveInv, SameWaiting
  <2>10. \A p \in SshBatchesOf(stack') : \/ stack'[p].cur = NoItem
                                         \/ p \in SshBatchesOf(stack) /\ stack'[p].cur = stack[p].cur
    BY <2>2 DEF SshBatchesOf
  <2>11. SshOnceInv'  BY <1>1, <1>6, <2>4, <2>7, <2>8, <2>9, <2>10, SshOnceInSilence DEF SshOnceInv
  <2> QED  BY <1>8, <2>4, <2>11, ServesInSilence
<1>10. CASE e.op \in DOMAIN callback_by_operation
  <2> DEFINE op == e.op
             item == Item(callback_by_operation[op], SshEvent(e))
             m == Append(Below, Frame("ssh", r, item))
             w == Append(queue, item)
  <2>1. /\ item.cb = callback_by_operation[op] /\ SourceOf(item.ev) = "ssh" /\ item.ev.id = op
        /\ item.ev.n = e.n
    BY DEF Item, SshEvent, Event, SourceOf
  <2>2. DispatchFrom(m, w, {item.cb}, 1) /\ UNCHANGED buffered_events  BY <1>10 DEF SshHandle, Item
  <2>3. op \in Ops /\ item.cb = op_callback[op] /\ op_callback[op] # NoCallback
    BY <1>1, <1>10, <2>1 DEF Ordered, SshTableInv
  <2>4. item # NoItem => SshTale(item)  BY <2>1, <2>3 DEF SshTale, SshItem
  <2>5. /\ IsSeq(m) /\ DOMAIN m = DOMAIN stack /\ n \in DOMAIN m /\ m[n].cur = item
        /\ \A p \in DOMAIN m : p # n => m[p] = stack[p]
        /\ BatchesOf(m) = BatchesOf(stack) /\ SshBatchesOf(m) = SshBatchesOf(stack)
        /\ n \in SshBatchesOf(stack)
        /\ BegunIn(stack) = BegunIn(m) \cup {x} /\ x \notin BegunIn(m)
    <3>1. m = Append(Below, Frame("ssh", r, item))  OBVIOUS
    <3> HIDE DEF m, item, r, e
    <3>2. HeadLeaves(m, item, x)  BY <1>2, <3>1
    <3> HIDE DEF x
    <3> QED  BY <3>2 DEF HeadLeaves, n
  <2>6. IsSeq(w) /\ w = queue \o <<item>> /\ IsSeq(<<item>>) /\ ToSet(<<item>>) = {item}
        /\ ToSet(w) = ToSet(queue) \cup {item}
    <3> HIDE DEF item
    <3> QED  BY <1>1, AppendIs, OneAppended
  <2> HIDE DEF item, m, w, r, e
  <2>7. \A p \in BatchesOf(stack) : m[p] = stack[p]  BY <2>5 DEF BatchesOf, SshBatchesOf
  <2>8. /\ WaitsIn(queue', stack') = WaitsIn(w, m)
        /\ SshBatchesOf(stack') = SshBatchesOf(m)
        /\ \A p \in SshBatchesOf(m) : stack'[p] = m[p]
        /\ \A p \in BatchesOf(stack') : \/ p \in BatchesOf(m) /\ stack'[p] = m[p]
                                        \/ ToSet(stack'[p].rest) \subseteq ToSet(w)
    BY <2>2, <2>5, <2>6, WaitsTaken
  <2>9. WaitsIn(w, m) = WaitsIn(queue, stack) \cup {item}
    <3>1. WaitsIn(w, m) = WaitsIn(queue, m) \cup {item}  BY <1>1, <2>6, WaitsPosted
    <3>2. \A p \in BatchesOf(stack) : p \in BatchesOf(m) /\ m[p].rest = stack[p].rest  BY <2>5, <2>7
    <3>3. \A p \in BatchesOf(m) : p \in BatchesOf(stack) \/ ToSet(m[p].rest) = {}  BY <2>5
    <3>4. WaitsIn(queue, m) = WaitsIn(queue, stack)  BY <3>2, <3>3, SameBatches
    <3> QED  BY <3>1, <3>4
  <2>10. Tells(TalesIn({item}))  BY <1>1, <2>8, <2>9, ToldWaiting
  <2>11. /\ TalesOf("ssh")' = TalesOf("ssh") \cup {Item(item.cb, item.ev)}
         /\ PairsTold' = PairsTold \cup {x}
    <3>1. \A y \in {item} : SourceOf(y.ev) = "ssh"  BY <2>1
    <3>2. /\ TalesOf("ssh")' = TalesOf("ssh") \cup TalesIn({item})
          /\ PairsTold' = PairsTold \cup {Pair(y.ev.id, y.ev.n) : y \in {item}}
      BY <2>10, <3>1, SshTalesGrow
    <3>3. {Pair(y.ev.id, y.ev.n) : y \in {item}} = {x} /\ TalesIn({item}) = {Item(item.cb, item.ev)}
      BY <2>1 DEF TalesIn
    <3> QED  BY <3>2, <3>3
  <2>12. Serves({"ssh"})
    <3>1. \A y \in {item} : SourceOf(y.ev) \in {"ssh"}  BY <2>1
    <3> QED  BY <1>8, <2>10, <3>1, ServesIs
  <2>13. \A y \in TalesOf("ssh")' : SshTale(y)'
    <3>1. /\ Item(item.cb, item.ev).ev = item.ev /\ Item(item.cb, item.ev).cb = item.cb  BY DEF Item
    <3>2. SshTale(Item(item.cb, item.ev))  BY <2>1, <2>3, <3>1 DEF SshTale, SshItem
    <3> QED  BY <1>6, <2>11, <3>2 DEF SshOnceInv
  <2>14. \A p \in SshBatchesOf(stack') : stack'[p].cur # NoItem => SshTale(stack[p].cur)'
    <3> SUFFICES ASSUME NEW p \in SshBatchesOf(stack'), stack'[p].cur # NoItem
                 PROVE  SshTale(stack'[p].cur) /\ UNCHANGED <<op_callback, Ops>>
      BY DEF SshTale
    <3>1. p \in SshBatchesOf(stack) /\ stack'[p] = m[p] /\ p \in DOMAIN m
      BY <2>5, <2>8 DEF SshBatchesOf
    <3>2. CASE p = n  BY <1>1, <1>4, <2>4, <2>5, <3>1, <3>2
    <3>3. CASE p # n  BY <1>1, <1>4, <2>5, <3>1, <3>3 DEF SshOnceInv
    <3> QED  BY <3>2, <3>3
  <2>15. \A p \in BatchesOf(stack') : \A y \in ToSet(stack'[p].rest), o \in Ops :
            SshItem(y, o, op_callback') => o \in DOMAIN callback_by_operation'
    <3> SUFFICES ASSUME NEW p \in BatchesOf(stack'), NEW y \in ToSet(stack'[p].rest), NEW o \in Ops,
                        SshItem(y, o, op_callback)
                 PROVE  o \in DOMAIN callback_by_operation
      BY <1>1
    <3>1. CASE p \in BatchesOf(m) /\ stack'[p] = m[p]
      BY <2>5, <2>7, <3>1 DEF SshOnceInv, SshAliveInv
    <3>2. CASE ToSet(stack'[p].rest) \subseteq ToSet(w)
      <4>1. y = item  BY <1>1, <2>6, <3>2 DEF NoSshItems
      <4>2. o = op  BY <1>1, <2>3, <4>1, OperationsDiffer DEF SshItem
      <4> QED  BY <1>10, <4>2
    <3> QED  BY <2>8, <3>1, <3>2
  <2>16. SshAliveInv'  BY <1>4, <1>7, <2>15 DEF SshAliveInv
  <2>17. PairsBegun' = BegunIn(m)
    <3>1. PairsBegun' = BegunIn(stack')  BY DEF PairsBegun, BegunIn
    <3>2. BegunIn(stack') = BegunIn(m)  BY <2>8 DEF BegunIn
    <3> QED  BY <3>1, <3>2
  <2> HIDE DEF x
  <2>18. Parts5(PairsEmitted', PairsOf(ssh_queue'), PairsOf(buffered_events'), PairsOf(ssh_polled'),
                PairsBegun', PairsTold')
    <3>1. \A U, A, B, C, D, E : Parts5(U, A, B, C, D \cup {x}, E) /\ x \notin D
             => Parts5(U, A, B, C, D, E \cup {x})
      BY DEF Parts5, Parts4, Parts3, Parts2
    <3> QED  BY <1>1, <1>3, <1>5, <2>2, <2>5, <2>11, <2>17, <3>1
  <2> QED  BY <1>1, <2>2, <2>12, <2>13, <2>14, <2>16, <2>18 DEF SshOnceInv
<1> QED  BY <1>9, <1>10

LEMMA SshServe ==
    ASSUME AnswersInv, RegistryInv, SshOnceInv,
           \/ \E with \in BOOLEAN : SshStart(with)
           \/ \E op \in Ops, last \in BOOLEAN : SshEmit(op, last)
           \/ \E max \in {0, 1} : SshPollCall(max)
           \/ SshDispatch \/ SshHandle \/ SshHandled \/ SshDispatched
    PROVE  Serves({"ssh"}) /\ SshOnceInv'
  BY SshStartServes, SshEmitServes, SshPollServes, SshDispatchServes, SshHandleServes,
     SshHandledServes, SshDispatchedServes

-----------------------------------------------------------------------------
(* The http module.                                                        *)

\* Requests move on, and at most chunks are told.
LEMMA HttpMoves ==
    ASSUME AnswersInv, HttpOnceInv, NEW T, Tells(T), \A x \in T : SourceOf(x.ev) = "stream",
           SshAside, Leaves({"stream"}), \A id \in DOMAIN callback_ids' : callback_ids'[id] \in Alive',
           DOMAIN callback_ids' \cap DOMAIN stream_callback_ids' = {}, UNCHANGED <<buffered, polled>>,
           Parts6(Given', Queued', Performing', IdsOf(completed'), IdsOf(buffered), IdsOf(polled),
                  IdsTold("http"))
    PROVE  Serves({"http", "stream"}) /\ HttpOnceInv'
<1>1. Leaves({"http", "stream"})
  BY LeavesMore
<1>2. Serves({"http", "stream"})
  <2>1. \A x \in T : SourceOf(x.ev) \in {"http", "stream"}  OBVIOUS
  <2> QED  BY <1>1, <2>1 DEF Serves
<1>3. Answering("http")' /\ IdsTold("http")' = IdsTold("http")
  <2> DEFINE S == {"stream"}
  <2>1. "http" \in Secure /\ "http" \notin S /\ Answering("http") /\ Leaves(S)
        /\ \A x \in T : SourceOf(x.ev) # "http"
    BY DEF Secure, HttpOnceInv
  <2> HIDE DEF S
  <2> QED  BY <2>1, AnsweringStays
<1>4. Parts6(Given, Queued, Performing, IdsOf(completed), IdsOf(buffered), IdsOf(polled),
             IdsTold("http"))'
  BY <1>3
<1>5. (\A id \in DOMAIN callback_ids : callback_ids[id] \in Alive)'
      /\ (DOMAIN callback_ids \cap DOMAIN stream_callback_ids = {})'
  OBVIOUS
<1>6. (IsSeq(buffered) /\ IsSeq(polled) /\ DistinctIds(buffered) /\ DistinctIds(polled))'
  BY DEF HttpOnceInv
<1> QED  BY <1>2, <1>3, <1>4, <1>5, <1>6 DEF HttpOnceInv

\* The tables stay, and nobody is told.
LEMMA HttpThreadsServe ==
    ASSUME AnswersInv, HttpOnceInv, UNCHANGED <<cbVars, lhVars>>,
           Parts6(Given', Queued', Performing', IdsOf(completed'), IdsOf(buffered), IdsOf(polled),
                  IdsTold("http"))
    PROVE  Serves({"http", "stream"}) /\ HttpOnceInv'
<1>1. /\ UNCHANGED <<registry, deferred, retired, queue, stack, called>>
      /\ UNCHANGED <<callback_ids, stream_callback_ids, buffered, polled>>
  BY DEF cbVars, lhVars
<1>2. Tells({}) /\ SshAside /\ Leaves({"stream"})
  BY <1>1, StayingTells, RestingLeaves
<1>3. Alive' = Alive
  BY <1>1 DEF Alive
<1>4. /\ \A id \in DOMAIN callback_ids' : callback_ids'[id] \in Alive'
      /\ DOMAIN callback_ids' \cap DOMAIN stream_callback_ids' = {}
  BY <1>1, <1>3 DEF HttpOnceInv
<1>5. \A x \in {} : SourceOf(x.ev) = "stream"
  OBVIOUS
<1> QED  BY <1>1, <1>2, <1>4, <1>5, HttpMoves

LEMMA HttpPartsAre ==
    ASSUME HttpOnceInv
    PROVE  Parts6(Given, Queued, Performing, IdsOf(completed), IdsOf(buffered), IdsOf(polled),
                  IdsTold("http"))
  BY DEF HttpOnceInv

LEMMA HttpTakeServes ==
    ASSUME AnswersInv, AnswersInv', HttpOnceInv, NEW t \in HttpThreads, HttpTake(t),
           UNCHANGED <<cbVars, lhVars>>
    PROVE  Serves({"http", "stream"}) /\ HttpOnceInv'
<1> DEFINE id == Head(http_pending)
<1>1. HttpInv /\ HttpInv' /\ HttpLineInv /\ IsSeq(completed)
  BY DEF AnswersInv, RealtimeInv, ServiceInv, HttpSeqs, DuesInv, HttpOk
<1>2. PICK pc \in {"performing", "answered"} :
        /\ performing' = [performing EXCEPT ![t] = Doing(pc, id, 0)]
        /\ \/ pc = "answered" /\ completed' = Append(completed, [id |-> id, result |-> "cancelled"])
           \/ pc = "performing" /\ UNCHANGED completed
  BY DEF HttpTake
<1>3. /\ http_pending # <<>> /\ http_pending' = Tail(http_pending)
      /\ UNCHANGED http_next /\ performing[t].pc = "idle"
  BY DEF HttpTake
<1>4. Queued = ToSet(http_pending) /\ Queued' = ToSet(http_pending')
  BY DEF Queued, ToSet
<1>5. IsSeq(http_pending)
  BY <1>1 DEF HttpInv, IsSeq
<1>6. Queued = Queued' \cup {id}
  BY <1>3, <1>4, <1>5, TailIs
<1> HIDE DEF id
<1>7. \A u \in HttpThreads : performing'[u] = IF u = t THEN Doing(pc, id, 0) ELSE performing[u]
  BY <1>1, <1>2 DEF HttpInv
<1>8. id \notin Queued'
  <2>1. performing'[t].pc = pc /\ performing'[t].id = id  BY <1>7 DEF Doing
  <2> QED  BY <1>1, <2>1 DEF HttpInv, Has
<1>9. Given' = Given
  BY <1>3 DEF Given
<1>10. \A u \in HttpThreads : u # t => performing'[u] = performing[u] /\ (Performs(u)' <=> Performs(u))
  BY <1>7 DEF Performs
<1>11. ~Performs(t) /\ performing'[t].pc = pc /\ performing'[t].id = id
  BY <1>3, <1>7 DEF Doing, Performs
<1>12. Performing' = IF pc = "performing" THEN Performing \cup {id} ELSE Performing
  <2>1. CASE pc = "performing"
    <3>1. Performs(t)'  BY <1>11, <2>1 DEF Performs
    <3> QED  BY <1>10, <1>11, <2>1, <3>1 DEF Performing
  <2>2. CASE pc = "answered"
    <3>1. ~Performs(t)'  BY <1>11, <2>2 DEF Performs
    <3> QED  BY <1>10, <1>11, <2>2, <3>1 DEF Performing
  <2> QED  BY <2>1, <2>2
<1>13. IdsOf(completed') = IF pc = "performing" THEN IdsOf(completed) ELSE IdsOf(completed) \cup {id}
  <2>1. CASE pc = "performing"  BY <1>2, <2>1
  <2>2. CASE pc = "answered"
    <3> DEFINE r == [id |-> id, result |-> "cancelled"]
    <3>1. r.id = id /\ completed' = Append(completed, r)  BY <1>2, <2>2
    <3> HIDE DEF r
    <3>2. IdsOf(Append(completed, r)) = IdsOf(completed) \cup {r.id}  BY <1>1, DistinctAppend
    <3> QED  BY <2>2, <3>1, <3>2
  <2> QED  BY <2>1, <2>2
<1>14. Parts6(Given', Queued', Performing', IdsOf(completed'), IdsOf(buffered), IdsOf(polled),
              IdsTold("http"))
  <2>1. \A U, A, B, C, D, E, F, Q : Parts6(U, A, B, C, D, E, F) /\ A = Q \cup {id} /\ id \notin Q =>
          Parts6(U, Q, B \cup {id}, C, D, E, F) /\ Parts6(U, Q, B, C \cup {id}, D, E, F)
    BY DEF Parts6, Parts5, Parts4, Parts3, Parts2
  <2>2. /\ Parts6(Given, Queued', Performing \cup {id}, IdsOf(completed), IdsOf(buffered), IdsOf(polled),
                  IdsTold("http"))
        /\ Parts6(Given, Queued', Performing, IdsOf(completed) \cup {id}, IdsOf(buffered), IdsOf(polled),
                  IdsTold("http"))
    BY <1>6, <1>8, <2>1, HttpPartsAre
  <2> QED  BY <1>9, <1>12, <1>13, <2>2
<1> QED  BY <1>14, HttpThreadsServe

LEMMA HttpThreadServes ==
    ASSUME AnswersInv, HttpOnceInv, NEW t \in HttpThreads, UNCHANGED <<cbVars, lhVars>>,
           \/ \E result \in {"ok", "error"} : HttpAnswer(t, result)
           \/ HttpForget(t) \/ HttpExit(t)
    PROVE  Serves({"http", "stream"}) /\ HttpOnceInv'
<1>1. HttpInv /\ HttpLineInv /\ IsSeq(completed)
  BY DEF AnswersInv, RealtimeInv, ServiceInv, HttpSeqs, DuesInv, HttpOk
<1>2. UNCHANGED <<http_next, http_pending>>
  BY DEF HttpAnswer, HttpForget, HttpExit
<1>3. Queued' = Queued /\ Given' = Given
  BY <1>2 DEF Queued, Given
<1>4. ASSUME NEW result \in {"ok", "error"}, HttpAnswer(t, result)
      PROVE  Serves({"http", "stream"}) /\ HttpOnceInv'
  <2> DEFINE id == performing[t].id
             r == [id |-> id, result |-> IF id \in flagged THEN "cancelled" ELSE result]
  <2>1. /\ Performs(t) /\ completed' = Append(completed, r)
        /\ performing' = [performing EXCEPT ![t].pc = "answered"]
    BY <1>4 DEF HttpAnswer, Performs
  <2>2. r.id = id  OBVIOUS
  <2> HIDE DEF r
  <2>3. IdsOf(completed') = IdsOf(completed) \cup {id}  BY <1>1, <2>1, <2>2, DistinctAppend
  <2>4. /\ ~Performs(t)'
        /\ \A u \in HttpThreads : u # t => performing'[u] = performing[u] /\ (Performs(u)' <=> Performs(u))
    BY <1>1, <2>1 DEF HttpInv, Performs
  <2>5. \A u \in HttpThreads : u # t /\ Performs(u) => performing[u].id # id
    BY <1>1, <2>1 DEF HttpInv, Performs, Has
  <2> HIDE DEF id
  <2>6. Performing = Performing' \cup {id} /\ id \notin Performing'
    <3>1. Performing = {performing[u].id : u \in {u \in HttpThreads : Performs(u)}}
          /\ Performing' = {performing'[u].id : u \in {u \in HttpThreads : Performs(u)'}}
      BY DEF Performing
    <3>2. {u \in HttpThreads : Performs(u)} = {u \in HttpThreads : Performs(u)'} \cup {t}
      BY <2>1, <2>4
    <3>3. \A u \in HttpThreads : Performs(u)' => u # t  BY <2>4
    <3> QED  BY <2>4, <2>5, <3>1, <3>2, <3>3 DEF id
  <2>7. Parts6(Given', Queued', Performing', IdsOf(completed'), IdsOf(buffered), IdsOf(polled),
               IdsTold("http"))
    <3>1. \A U, A, B, C, D, E, F, Q : Parts6(U, A, B, C, D, E, F) /\ B = Q \cup {id} /\ id \notin Q =>
            Parts6(U, A, Q, C \cup {id}, D, E, F)
      BY DEF Parts6, Parts5, Parts4, Parts3, Parts2
    <3>2. Parts6(Given, Queued, Performing', IdsOf(completed) \cup {id}, IdsOf(buffered), IdsOf(polled),
                 IdsTold("http"))
      BY <2>6, <3>1, HttpPartsAre
    <3> QED  BY <1>3, <2>3, <3>2
  <2> QED  BY <2>7, HttpThreadsServe
<1>5. CASE HttpForget(t) \/ HttpExit(t)
  <2>1. /\ UNCHANGED completed /\ performing[t].pc # "performing"
        /\ \/ performing' = [performing EXCEPT ![t] = Idle]
           \/ performing' = [performing EXCEPT ![t].pc = "exit"]
    BY <1>5 DEF HttpForget, HttpExit
  <2>2. /\ ~Performs(t) /\ ~Performs(t)'
        /\ \A u \in HttpThreads : u # t => performing'[u] = performing[u] /\ (Performs(u)' <=> Performs(u))
    BY <1>1, <2>1 DEF HttpInv, Performs, Idle, Doing
  <2>3. Performing' = Performing
    <3>1. Performing = {performing[u].id : u \in {u \in HttpThreads : Performs(u)}}
          /\ Performing' = {performing'[u].id : u \in {u \in HttpThreads : Performs(u)'}}
      BY DEF Performing
    <3>2. {u \in HttpThreads : Performs(u)} = {u \in HttpThreads : Performs(u)'}  BY <2>2
    <3>3. \A u \in HttpThreads : Performs(u)' => performing'[u].id = performing[u].id  BY <2>2
    <3> QED  BY <3>1, <3>2, <3>3
  <2>4. Parts6(Given', Queued', Performing', IdsOf(completed'), IdsOf(buffered), IdsOf(polled),
               IdsTold("http"))
    BY <1>3, <2>1, <2>3, HttpPartsAre
  <2> QED  BY <2>4, HttpThreadsServe
<1> QED  BY <1>4, <1>5

\* A chunk of a stream.
LEMMA HttpChunkServes ==
    ASSUME AnswersInv, HttpOnceInv, NEW t \in HttpThreads, HttpStreamChunk(t)
    PROVE  Serves({"http", "stream"}) /\ HttpOnceInv'
<1> DEFINE id == performing[t].id
           ev == Chunk(id, performing[t].chunks + 1)
           cb == chunk_callback[id]
           T == TalesIn({Item(cb, ev)})
<1>1. /\ performing[t].pc = "performing"
      /\ performing' = [performing EXCEPT ![t].chunks = @ + 1]
      /\ UNCHANGED <<http_next, http_pending, completed>>
      /\ Post(cb, ev) /\ UNCHANGED lhVars
  BY DEF HttpStreamChunk, HttpChunk
<1>2. HttpInv /\ FrameInv
  BY DEF AnswersInv, RealtimeInv, HandleInv
<1>3. SourceOf(ev) = "stream"
  BY DEF SourceOf, Chunk, Event
<1> HIDE DEF ev, cb
<1>4. /\ UNCHANGED <<registry, deferred, retired, stack, called>>
      /\ queue' = queue \o <<Item(cb, ev)>> /\ IsSeq(queue)
      /\ IsSeq(<<Item(cb, ev)>>) /\ ToSet(<<Item(cb, ev)>>) = {Item(cb, ev)}
  BY <1>1, <1>2, OneAppended DEF FrameInv, Post
<1>5. Tells(T) /\ SshAside /\ Leaves({"stream"})
  <2> DEFINE items == <<Item(cb, ev)>>
  <2>1. IsSeq(queue) /\ IsSeq(items) /\ queue' = queue \o items /\ UNCHANGED <<stack, called>>
        /\ ToSet(items) = {Item(cb, ev)}
    BY <1>4
  <2> HIDE DEF items
  <2>2. Tells(TalesIn(ToSet(items))) /\ SshAside  BY <2>1, PostingTells
  <2> QED  BY <1>4, <2>1, <2>2, RestingLeaves
<1>6. \A x \in T : SourceOf(x.ev) = "stream"
  BY <1>3 DEF TalesIn, Item
<1>7. Queued' = Queued /\ Given' = Given
  BY <1>1 DEF Queued, Given
<1>8. Performing' = Performing
  <2>1. \A u \in HttpThreads : performing'[u].id = performing[u].id /\ (Performs(u)' <=> Performs(u))
    BY <1>1, <1>2 DEF HttpInv, Performs
  <2>2. Performing = {performing[u].id : u \in {u \in HttpThreads : Performs(u)}}
        /\ Performing' = {performing'[u].id : u \in {u \in HttpThreads : Performs(u)'}}
    BY DEF Performing
  <2> QED  BY <2>1, <2>2
<1>9. Parts6(Given', Queued', Performing', IdsOf(completed'), IdsOf(buffered), IdsOf(polled),
             IdsTold("http"))
  BY <1>1, <1>7, <1>8, HttpPartsAre
<1>10. UNCHANGED <<callback_ids, stream_callback_ids, buffered, polled>> /\ Alive' = Alive
  BY <1>1, <1>4 DEF lhVars, Alive
<1>11. /\ \A x \in DOMAIN callback_ids' : callback_ids'[x] \in Alive'
       /\ DOMAIN callback_ids' \cap DOMAIN stream_callback_ids' = {}
  BY <1>10 DEF HttpOnceInv
<1> HIDE DEF T
<1> QED  BY <1>5, <1>6, <1>9, <1>10, <1>11, HttpMoves

\* Requests that have a callback were submitted.
LEMMA HttpTablesAre ==
    ASSUME ClaimInv, StreamDue
    PROVE  DOMAIN callback_ids \subseteq Given /\ DOMAIN stream_callback_ids \subseteq Given
<1>1. ASSUME NEW id \in DOMAIN callback_ids PROVE id \in Given
  <2>1. Claim(callback_ids[id], "http", id) \in Claims  BY DEF Claims, Tables, HttpClaims
  <2>2. Exists("http", id)  BY <2>1, ClaimIs DEF ClaimInv
  <2> QED  BY <2>2 DEF Exists, Given
<1>2. ASSUME NEW id \in DOMAIN stream_callback_ids PROVE id \in Given
  <2>1. id \in Streams  BY DEF StreamDue
  <2>2. Claim(chunk_callback[id], "stream", id) \in Claims  BY <2>1 DEF Claims, Tables, StreamClaims
  <2>3. Exists("stream", id)  BY <2>2, ClaimIs DEF ClaimInv
  <2> QED  BY <2>3 DEF Exists, Given
<1> QED  BY <1>1, <1>2

LEMMA HttpRequestServes ==
    ASSUME AnswersInv, RegistryInv, HttpOnceInv,
           NEW kind \in {"stream", "callback", "plain"}, HttpRequest(kind)
    PROVE  Serves({"http", "stream"}) /\ HttpOnceInv'
<1> DEFINE n == http_next
<1>1. OwnInv /\ ClaimInv /\ StreamDue /\ HttpInv /\ HttpLineInv
  BY DEF AnswersInv, RealtimeInv, HandleInv, DuesInv, HttpOk
<1>2. HttpSubmit /\ UNCHANGED <<queue, stack, own, called, buffered, polled>>
  BY DEF HttpRequest
<1>3. /\ Queued' = Queued \cup {n} /\ n \notin Given /\ UNCHANGED <<performing, completed>>
  BY <1>1, <1>2, HttpSubmitIs
<1>4. Given' = Given \cup {n}
  BY <1>1, <1>2 DEF HttpSubmit, HttpInv, Given
<1>5. Performing' = Performing
  BY <1>3 DEF Performing, Performs
<1>6. DOMAIN callback_ids \subseteq Given /\ DOMAIN stream_callback_ids \subseteq Given
  BY <1>1, HttpTablesAre
<1> HIDE DEF n
<1>7. Parts6(Given', Queued', Performing', IdsOf(completed'), IdsOf(buffered), IdsOf(polled),
             IdsTold("http"))
  <2>1. \A U, A, B, C, D, E, F : Parts6(U, A, B, C, D, E, F) /\ n \notin U =>
          Parts6(U \cup {n}, A \cup {n}, B, C, D, E, F)
    BY DEF Parts6, Parts5, Parts4, Parts3, Parts2
  <2> QED  BY <1>3, <1>4, <1>5, <2>1, HttpPartsAre
<1>8. Tells({}) /\ SshAside
  BY <1>2, StayingTells
<1>9. Leaves({}) /\ \A id \in DOMAIN callback_ids' : callback_ids'[id] \in Alive'
  <2>1. ASSUME Reregister({}, 1) PROVE Leaves({}) /\ next_id \in Alive'
    <3>1. 1 \in {0, 1} /\ Dropping({}, {})  BY DEF Dropping
    <3> QED  BY <1>1, <2>1, <3>1, ReregisterLeaves
  <2>2. ASSUME Leaves({}), NEW id \in DOMAIN callback_ids PROVE callback_ids[id] \in Alive'
    <3>1. Claim(callback_ids[id], "http", id) \in Tables  BY DEF Tables, HttpClaims
    <3> QED  BY <2>2, <3>1, TableStays DEF HttpOnceInv
  <2>3. CASE kind = "stream"  BY <2>1, <2>2, <2>3 DEF HttpRequest
  <2>4. CASE kind = "callback"
    <3>1. Reregister({}, 1) /\ callback_ids' = With(callback_ids, n, next_id)
      BY <2>4 DEF HttpRequest, n
    <3>2. \A id \in DOMAIN callback_ids' : \/ callback_ids'[id] = next_id
                                           \/ id \in DOMAIN callback_ids /\ callback_ids'[id] = callback_ids[id]
      BY <3>1 DEF With
    <3> QED  BY <2>1, <2>2, <3>1, <3>2
  <2>5. CASE kind = "plain"
    <3>1. UNCHANGED <<registry, deferred, retired, callback_ids>>  BY <2>5 DEF HttpRequest
    <3>2. Leaves({})  BY <3>1, RestingLeaves
    <3> QED  BY <2>2, <3>1, <3>2
  <2> QED  BY <2>3, <2>4, <2>5
<1>10. DOMAIN callback_ids' \cap DOMAIN stream_callback_ids' = {}
  <2>1. /\ DOMAIN callback_ids' \subseteq DOMAIN callback_ids \cup {n}
        /\ DOMAIN stream_callback_ids' \subseteq DOMAIN stream_callback_ids \cup {n}
        /\ \/ DOMAIN callback_ids' = DOMAIN callback_ids
           \/ DOMAIN stream_callback_ids' = DOMAIN stream_callback_ids
    <3>1. CASE kind = "stream"  BY <3>1 DEF HttpRequest, With, n
    <3>2. CASE kind = "callback"  BY <3>2 DEF HttpRequest, With, n
    <3>3. CASE kind = "plain"  BY <3>3 DEF HttpRequest
    <3> QED  BY <3>1, <3>2, <3>3
  <2> QED  BY <1>3, <1>6, <2>1 DEF HttpOnceInv
<1>11. Leaves({"stream"}) /\ \A x \in {} : SourceOf(x.ev) = "stream"
  BY <1>9, LeavesMore
<1> QED  BY <1>2, <1>7, <1>8, <1>9, <1>10, <1>11, HttpMoves

-----------------------------------------------------------------------------
(* Responses that are given to callbacks or to poll.                       *)

LEMMA HttpItemsTell ==
    ASSUME NEW rs, IsSeq(rs), DOMAIN callback_ids \cap DOMAIN stream_callback_ids = {},
           \A r \in ToSet(rs) : r.result \notin {"chunk", "done"}
    PROVE  /\ \A e \in ToSet(ItemsFor(rs)) :
                \/ SourceOf(e.ev) = "stream"
                \/ /\ e.ev.n = 0 /\ SourceOf(e.ev) = "http"
                   /\ e.ev.id \in IdsOf(rs) \cap DOMAIN callback_ids /\ e.cb = callback_ids[e.ev.id]
           /\ \A id \in IdsOf(rs) \cap DOMAIN callback_ids :
                \E e \in ToSet(ItemsFor(rs)) : SourceOf(e.ev) = "http" /\ e.ev.id = id
<1> DEFINE ids == DOMAIN stream_callback_ids \cup DOMAIN callback_ids
           S == {i \in DOMAIN rs : rs[i].id \in ids}
           mine == At(rs, S)
           items == ItemsFor(rs)
<1>1. items = [k \in DOMAIN mine |->
                  IF mine[k].id \in DOMAIN stream_callback_ids
                  THEN Item(stream_callback_ids[mine[k].id], Done(mine[k].id))
                  ELSE Item(callback_ids[mine[k].id], Response(mine[k]))]
  BY DEF ItemsFor
<1>2. ToSet(mine) = {rs[i] : i \in S}
  BY AtIs
<1> HIDE DEF mine, items
<1>3. \A k \in DOMAIN mine : /\ mine[k] \in ToSet(rs) /\ mine[k].id \in IdsOf(rs)
                             /\ mine[k].id \in ids
  <2>1. \A k \in DOMAIN mine : mine[k] \in ToSet(mine)  BY DEF ToSet
  <2> QED  BY <1>2, <2>1 DEF ToSet, IdsOf
<1>4. DOMAIN items = DOMAIN mine
  BY <1>1
<1>5. \A id : SourceOf(Done(id)) = "stream"
  BY DEF SourceOf, Done, Event
<1>6. \A r : r.result \notin {"chunk", "done"} =>
         SourceOf(Response(r)) = "http" /\ Response(r).id = r.id /\ Response(r).n = 0
  BY DEF SourceOf, Response, Event
<1>7. ASSUME NEW k \in DOMAIN items
      PROVE  \/ mine[k].id \in DOMAIN stream_callback_ids /\ SourceOf(items[k].ev) = "stream"
             \/ /\ mine[k].id \in DOMAIN callback_ids /\ mine[k].id \in IdsOf(rs)
                /\ SourceOf(items[k].ev) = "http" /\ items[k].ev.n = 0
                /\ items[k].ev.id = mine[k].id /\ items[k].cb = callback_ids[mine[k].id]
  <2>1. CASE mine[k].id \in DOMAIN stream_callback_ids
    <3>1. items[k].ev = Done(mine[k].id)  BY <1>1, <1>4, <2>1 DEF Item
    <3> QED  BY <1>5, <2>1, <3>1
  <2>2. CASE mine[k].id \notin DOMAIN stream_callback_ids
    <3>1. mine[k].id \in DOMAIN callback_ids /\ mine[k].id \in IdsOf(rs)
          /\ mine[k].result \notin {"chunk", "done"}
      BY <1>3, <1>4, <2>2
    <3>2. items[k].ev = Response(mine[k]) /\ items[k].cb = callback_ids[mine[k].id]
      BY <1>1, <1>4, <2>2 DEF Item
    <3> QED  BY <1>6, <3>1, <3>2
  <2> QED  BY <2>1, <2>2
<1>8. ASSUME NEW e \in ToSet(items)
      PROVE  \/ SourceOf(e.ev) = "stream"
             \/ /\ e.ev.n = 0 /\ SourceOf(e.ev) = "http"
                /\ e.ev.id \in IdsOf(rs) \cap DOMAIN callback_ids /\ e.cb = callback_ids[e.ev.id]
  <2>1. PICK k \in DOMAIN items : e = items[k]  BY DEF ToSet
  <2> QED  BY <1>7, <2>1
<1>9. ASSUME NEW id \in IdsOf(rs) \cap DOMAIN callback_ids
      PROVE  \E e \in ToSet(items) : SourceOf(e.ev) = "http" /\ e.ev.id = id
  <2>1. PICK i \in DOMAIN rs : rs[i].id = id  BY DEF IdsOf
  <2>2. rs[i] \in ToSet(mine)  BY <1>2, <2>1
  <2>3. PICK k \in DOMAIN mine : rs[i] = mine[k]  BY <2>2 DEF ToSet
  <2>4. mine[k].id = id /\ mine[k].id \notin DOMAIN stream_callback_ids  BY <2>1, <2>3
  <2>5. items[k] \in ToSet(items) /\ k \in DOMAIN items  BY <1>4 DEF ToSet
  <2> QED  BY <1>7, <2>4, <2>5
<1> QED  BY <1>8, <1>9 DEF items

LEMMA UnclaimedAre ==
    ASSUME NEW rs, IsSeq(rs), DistinctIds(rs)
    PROVE  /\ IsSeq(Unclaimed(rs)) /\ DistinctIds(Unclaimed(rs))
           /\ IdsOf(Unclaimed(rs)) = IdsOf(rs) \ DOMAIN callback_ids
<1> DEFINE S == {i \in DOMAIN rs : rs[i].id \notin DOMAIN callback_ids}
<1>1. Unclaimed(rs) = At(rs, S) /\ S \in SUBSET DOMAIN rs
  BY DEF Unclaimed
<1>2. IsSeq(At(rs, S)) /\ ToSet(At(rs, S)) = {rs[i] : i \in S} /\ DistinctIds(At(rs, S))
  BY AtIs, DistinctAt
<1>3. IdsOf(At(rs, S)) = {r.id : r \in ToSet(At(rs, S))}
  BY DEF IdsOf, ToSet
<1>4. {r.id : r \in {rs[i] : i \in S}} = {rs[i].id : i \in S}
  OBVIOUS
<1>5. {rs[i].id : i \in S} = IdsOf(rs) \ DOMAIN callback_ids
  BY DEF IdsOf
<1> QED  BY <1>1, <1>2, <1>3, <1>4, <1>5

\* Responses are taken from the client and told to their callbacks.
LEMMA GiveOutServes ==
    ASSUME AnswersInv, RegistryInv, HttpOnceInv, NEW max \in Nat, HttpPoll(max), GiveOut(HttpPolled(max))
    PROVE  /\ Serves({"http", "stream"})
           /\ IsSeq(HttpPolled(max)) /\ DistinctIds(HttpPolled(max))
           /\ Answering("http")' /\ (\A id \in DOMAIN callback_ids : callback_ids[id] \in Alive)'
           /\ (DOMAIN callback_ids \cap DOMAIN stream_callback_ids = {})'
           /\ IdsTold("http")' = IdsTold("http") \cup (IdsOf(HttpPolled(max)) \cap DOMAIN callback_ids)
           /\ IdsOf(completed) = IdsOf(HttpPolled(max)) \cup IdsOf(completed')
           /\ IdsOf(HttpPolled(max)) \cap IdsOf(completed') = {}
           /\ Given' = Given /\ Queued' = Queued /\ Performing' = Performing
<1> DEFINE rs == HttpPolled(max)
           items == ItemsFor(rs)
           ids == IdsOf(rs)
           drop == {stream_callback_ids[id] : id \in ids \cap DOMAIN stream_callback_ids}
           T == TalesIn(ToSet(items))
<1>1. /\ OwnInv /\ FrameInv /\ Ordered /\ ClaimInv /\ HttpOk /\ HttpLineInv /\ StreamDue
      /\ IsSeq(completed) /\ MaxChunks \in Nat
  BY HttpBounds DEF AnswersInv, RealtimeInv, HandleInv, ServiceInv, HttpSeqs, DuesInv, HttpOk
<1>2. /\ IsSeq(rs) /\ DistinctIds(rs) /\ ToSet(rs) \subseteq ToSet(completed)
      /\ UNCHANGED <<http_next, http_pending, performing>>
  BY <1>1, HttpPollIs
<1>3. \A r \in ToSet(rs) : r.result \notin {"chunk", "done"}
  BY <1>1, <1>2 DEF HttpLineInv
<1>4. /\ stream_callback_ids' = Without(stream_callback_ids, ids)
      /\ callback_ids' = Without(callback_ids, ids)
      /\ DispatchFrom(stack, queue \o items, Callbacks, 0)
      /\ UNCHANGED called /\ Reregister(drop, 0)
  BY DEF GiveOut, Unregister, IdsOf
<1>5. Cuts(completed, rs, completed')
  <2>1. /\ rs = IF max = 0 \/ max > Len(completed) THEN completed ELSE SubSeq(completed, 1, max)
        /\ completed' = SubSeq(completed, Len(rs) + 1, Len(completed))
    BY DEF HttpPoll, HttpPolled
  <2> HIDE DEF rs
  <2> QED  BY <1>1, <2>1, CutPrefix
<1> HIDE DEF rs
<1>6. /\ IdsOf(completed) = IdsOf(rs) \cup IdsOf(completed') /\ IdsOf(rs) \cap IdsOf(completed') = {}
  <2>1. ToSet(completed) = ToSet(rs) \cup ToSet(completed') /\ IdsOf(rs) \cap IdsOf(completed') = {}
    BY <1>1, <1>5 DEF Cuts, HttpLineInv
  <2>2. \A s : IdsOf(s) = {e.id : e \in ToSet(s)}  BY ParcelsAre
  <2> QED  BY <2>1, <2>2
<1>7. Answers(items, {"http", "stream"})
  BY <1>1, <1>2, <1>3, ItemsForAre
<1>8. /\ \A e \in ToSet(items) :
            \/ SourceOf(e.ev) = "stream"
            \/ /\ e.ev.n = 0 /\ SourceOf(e.ev) = "http"
               /\ e.ev.id \in ids \cap DOMAIN callback_ids /\ e.cb = callback_ids[e.ev.id]
      /\ \A id \in ids \cap DOMAIN callback_ids :
            \E e \in ToSet(items) : SourceOf(e.ev) = "http" /\ e.ev.id = id
  BY <1>2, <1>3, HttpItemsTell DEF HttpOnceInv
<1> HIDE DEF items
<1>9. IsSeq(items) /\ NoSshItems(ToSet(items), op_callback)
  BY <1>1, <1>7, AnswersAreTimely DEF Timely
<1>10. Tells(TalesIn(ToSet(items))) /\ SshAside
  BY <1>1, <1>4, <1>9, TakingTells
<1>11. Leaves({"stream"})
  <2>1. Dropping(drop, {"stream"})
    <3>1. ASSUME NEW id \in DOMAIN stream_callback_ids
          PROVE  \E c \in Claims : c.cb = stream_callback_ids[id] /\ c.of \in {"stream"}
      <4>1. id \in Streams /\ stream_callback_ids[id] = chunk_callback[id]  BY <1>1 DEF StreamDue
      <4>2. Claim(chunk_callback[id], "stream", id) \in Claims
        BY <4>1 DEF Claims, Tables, StreamClaims
      <4>3. Claim(chunk_callback[id], "stream", id).cb = stream_callback_ids[id]
            /\ Claim(chunk_callback[id], "stream", id).of \in {"stream"}
        BY <4>1, ClaimIs
      <4> QED  BY <4>2, <4>3
    <3> QED  BY <3>1 DEF Dropping
  <2>2. 0 \in {0, 1}  OBVIOUS
  <2> HIDE DEF drop
  <2> QED  BY <1>1, <1>4, <2>1, <2>2, ReregisterLeaves
<1>12. Serves({"http", "stream"})
  <2>1. \A e \in ToSet(items) : SourceOf(e.ev) \in {"http", "stream"}  BY <1>8
  <2>2. Leaves({"http", "stream"})  BY <1>11, LeavesMore
  <2> QED  BY <1>10, <2>1, <2>2, ServesIs
<1>13. \A id \in DOMAIN callback_ids : callback_ids[id] \in Alive'
  <2> SUFFICES ASSUME NEW id \in DOMAIN callback_ids PROVE callback_ids[id] \in Alive'  OBVIOUS
  <2>1. Claim(callback_ids[id], "http", id) \in Tables  BY DEF Tables, HttpClaims
  <2> QED  BY <1>11, <2>1, TableStays DEF HttpOnceInv
<1>14. \A x \in T : \/ SourceOf(x.ev) = "stream"
                    \/ /\ x.ev.n = 0 /\ x.cb \in Alive' /\ SourceOf(x.ev) = "http"
                       /\ x.ev.id \in ids \cap DOMAIN callback_ids
  <2>1. \A x \in T : \E e \in ToSet(items) : x.cb = e.cb /\ x.ev = e.ev  BY DEF TalesIn, Item
  <2> QED  BY <1>8, <1>13, <2>1
<1>15. \A id \in ids \cap DOMAIN callback_ids : \E x \in T : SourceOf(x.ev) = "http" /\ x.ev.id = id
  <2>1. \A e \in ToSet(items) : Item(e.cb, e.ev) \in T /\ Item(e.cb, e.ev).ev = e.ev
    BY DEF TalesIn, Item
  <2> QED  BY <1>8, <2>1
<1> HIDE DEF T
<1>16. /\ Answering("http")'
       /\ IdsTold("http")' = IdsTold("http") \cup {x.ev.id : x \in {x \in T : SourceOf(x.ev) = "http"}}
  <2> DEFINE S == {"stream"}
  <2>1. "http" \in Secure /\ "http" \notin S /\ Answering("http") /\ Tells(T) /\ Leaves(S)
    BY <1>10, <1>11 DEF Secure, HttpOnceInv, T
  <2>2. \A x \in T : SourceOf(x.ev) = "http" => x.ev.n = 0 /\ x.cb \in Alive'  BY <1>14
  <2> HIDE DEF S
  <2> QED  BY <2>1, <2>2, AnsweringGrows
<1>17. {x.ev.id : x \in {x \in T : SourceOf(x.ev) = "http"}} = ids \cap DOMAIN callback_ids
  <2>1. \A x \in T : SourceOf(x.ev) = "http" => x.ev.id \in ids \cap DOMAIN callback_ids  BY <1>14
  <2> QED  BY <1>15, <2>1
<1>18. /\ (\A id \in DOMAIN callback_ids : callback_ids[id] \in Alive)'
       /\ (DOMAIN callback_ids \cap DOMAIN stream_callback_ids = {})'
  <2>1. /\ DOMAIN callback_ids' \subseteq DOMAIN callback_ids
        /\ DOMAIN stream_callback_ids' \subseteq DOMAIN stream_callback_ids
        /\ \A id \in DOMAIN callback_ids' : callback_ids'[id] = callback_ids[id]
    BY <1>4 DEF Without
  <2> QED  BY <1>13, <2>1 DEF HttpOnceInv
<1>19. Given' = Given /\ Queued' = Queued /\ Performing' = Performing
  BY <1>2 DEF Given, Queued, Performing, Performs
<1> QED  BY <1>2, <1>6, <1>12, <1>16, <1>17, <1>18, <1>19 DEF rs

\* Responses that nobody claims stay for poll, or it returns them with those that
\* stayed before.
LEMMA ResponsesServe ==
    ASSUME AnswersInv, RegistryInv, HttpOnceInv,
           NEW max \in Nat, HttpPoll(max), GiveOut(HttpPolled(max)), NEW o, NEW r, Cuts(buffered, o, r),
           \/ buffered' = buffered \o Unclaimed(HttpPolled(max)) /\ polled' = polled
           \/ buffered' = r /\ polled' = polled \o o \o Unclaimed(HttpPolled(max))
    PROVE  Serves({"http", "stream"}) /\ HttpOnceInv'
<1> DEFINE rs == HttpPolled(max)
           gone == Unclaimed(rs)
           hold == DOMAIN callback_ids
<1>1. /\ Serves({"http", "stream"})
      /\ IsSeq(rs) /\ DistinctIds(rs)
      /\ Answering("http")' /\ (\A id \in DOMAIN callback_ids : callback_ids[id] \in Alive)'
      /\ (DOMAIN callback_ids \cap DOMAIN stream_callback_ids = {})'
      /\ IdsTold("http")' = IdsTold("http") \cup (IdsOf(rs) \cap hold)
      /\ IdsOf(completed) = IdsOf(rs) \cup IdsOf(completed')
      /\ IdsOf(rs) \cap IdsOf(completed') = {}
      /\ Given' = Given /\ Queued' = Queued /\ Performing' = Performing
  BY GiveOutServes
<1>2. IsSeq(gone) /\ DistinctIds(gone) /\ IdsOf(gone) = IdsOf(rs) \ hold
  BY <1>1, UnclaimedAre
<1>3. IsSeq(buffered) /\ IsSeq(polled) /\ DistinctIds(buffered) /\ DistinctIds(polled)
  BY DEF HttpOnceInv
<1>4. /\ IsSeq(o) /\ IsSeq(r) /\ DistinctIds(o) /\ DistinctIds(r) /\ IdsOf(o) \cap IdsOf(r) = {}
      /\ ToSet(buffered) = ToSet(o) \cup ToSet(r)
  BY <1>3 DEF Cuts
<1>5. \A s, a, b : ToSet(s) = ToSet(a) \cup ToSet(b) => IdsOf(s) = IdsOf(a) \cup IdsOf(b)
  BY ParcelsAre
<1>6. IdsOf(buffered) = IdsOf(o) \cup IdsOf(r)
  BY <1>4, <1>5
<1> DEFINE C == IdsOf(completed')
           g == IdsOf(gone)
           h == IdsOf(rs) \cap hold
<1>7. IdsOf(completed) = C \cup g \cup h /\ C \cap g = {} /\ C \cap h = {} /\ g \cap h = {}
  BY <1>1, <1>2
<1>8. Parts6(Given, Queued, Performing, IdsOf(completed), IdsOf(buffered), IdsOf(polled), IdsTold("http"))
  BY HttpPartsAre
<1> HIDE DEF gone, C, g, h
<1>9. g \cap IdsOf(buffered) = {} /\ g \cap IdsOf(polled) = {} /\ IdsOf(buffered) \cap IdsOf(polled) = {}
  BY <1>7, <1>8 DEF Parts6, Parts5, Parts4, Parts3, Parts2
<1>10. CASE buffered' = buffered \o gone /\ polled' = polled
  <2>1. /\ IsSeq(buffered') /\ DistinctIds(buffered') /\ ToSet(buffered') = ToSet(buffered) \cup ToSet(gone)
    <3>1. IdsOf(buffered) \cap IdsOf(gone) = {}  BY <1>9 DEF g
    <3> QED  BY <1>2, <1>3, <1>10, <3>1, Joins
  <2>2. IdsOf(buffered') = IdsOf(buffered) \cup g  BY <1>5, <2>1 DEF g
  <2>3. \A U, A, B, X, D, E, F : Parts6(U, A, B, X, D, E, F) /\ X = C \cup g \cup h =>
           Parts6(U, A, B, C, D \cup g, E, F \cup h)
    BY <1>7 DEF Parts6, Parts5, Parts4, Parts3, Parts2
  <2>4. Parts6(Given, Queued, Performing, C, IdsOf(buffered) \cup g, IdsOf(polled), IdsTold("http") \cup h)
    BY <1>7, <1>8, <2>3
  <2>5. Parts6(Given, Queued, Performing, IdsOf(completed), IdsOf(buffered), IdsOf(polled), IdsTold("http"))'
    BY <1>1, <1>10, <2>2, <2>4 DEF C, h
  <2> QED  BY <1>1, <1>3, <1>10, <2>1, <2>5 DEF HttpOnceInv
<1>11. CASE buffered' = r /\ polled' = polled \o o \o gone
  <2>1. IsSeq(polled \o o) /\ DistinctIds(polled \o o) /\ ToSet(polled \o o) = ToSet(polled) \cup ToSet(o)
    <3>1. IdsOf(polled) \cap IdsOf(o) = {}  BY <1>6, <1>9
    <3> QED  BY <1>3, <1>4, <3>1, Joins
  <2>2. IdsOf(polled \o o) = IdsOf(polled) \cup IdsOf(o)
    <3> DEFINE c == polled \o o
    <3>1. ToSet(c) = ToSet(polled) \cup ToSet(o)  BY <2>1
    <3> HIDE DEF c
    <3>2. IdsOf(c) = IdsOf(polled) \cup IdsOf(o)  BY <1>5, <3>1
    <3> QED  BY <3>2 DEF c
  <2>3. /\ IsSeq(polled') /\ DistinctIds(polled') /\ ToSet(polled') = ToSet(polled \o o) \cup ToSet(gone)
    <3>1. IdsOf(polled \o o) \cap IdsOf(gone) = {}  BY <1>6, <1>9, <2>2 DEF g
    <3> QED  BY <1>2, <1>11, <2>1, <3>1, Joins
  <2>4. IdsOf(polled') = IdsOf(polled) \cup IdsOf(o) \cup g  BY <1>5, <2>2, <2>3 DEF g
  <2>5. \A U, A, B, X, D, E, F, O, R : Parts6(U, A, B, X, D, E, F) /\ X = C \cup g \cup h
                                      /\ D = O \cup R /\ O \cap R = {} =>
           Parts6(U, A, B, C, R, E \cup O \cup g, F \cup h)
    BY <1>7 DEF Parts6, Parts5, Parts4, Parts3, Parts2
  <2>6. Parts6(Given, Queued, Performing, C, IdsOf(r), IdsOf(polled) \cup IdsOf(o) \cup g, IdsTold("http") \cup h)
    BY <1>4, <1>6, <1>7, <1>8, <2>5
  <2>7. Parts6(Given, Queued, Performing, IdsOf(completed), IdsOf(buffered), IdsOf(polled), IdsTold("http"))'
    BY <1>1, <1>11, <2>4, <2>6 DEF C, h
  <2> QED  BY <1>1, <1>4, <1>11, <2>3, <2>7 DEF HttpOnceInv
<1> QED  BY <1>10, <1>11 DEF gone

LEMMA HttpServe ==
    ASSUME AnswersInv, AnswersInv', RegistryInv, HttpOnceInv,
           \/ \E kind \in {"stream", "callback", "plain"} : HttpRequest(kind)
           \/ \E id \in 1..(http_next - 1) : HttpCancelCall(id)
           \/ \E max \in {0, 1} : HttpPollCall(max)
           \/ HttpDispatch
           \/ \E t \in HttpThreads :
                \/ HttpStreamChunk(t)
                \/ /\ \/ HttpTake(t) \/ HttpForget(t) \/ HttpExit(t)
                      \/ \E result \in {"ok", "error"} : HttpAnswer(t, result)
                   /\ UNCHANGED <<cbVars, lhVars>>
    PROVE  Serves({"http", "stream"}) /\ HttpOnceInv'
<1>1. IsSeq(buffered) /\ IsSeq(<<>>)
  BY EmptyIsSeq DEF HttpOnceInv
<1>2. ASSUME NEW kind \in {"stream", "callback", "plain"}, HttpRequest(kind)
      PROVE  Serves({"http", "stream"}) /\ HttpOnceInv'
  BY <1>2, HttpRequestServes
<1>3. CASE \E id \in 1..(http_next - 1) : HttpCancelCall(id)
  <2>1. UNCHANGED <<cbVars, lhVars>> /\ UNCHANGED <<http_next, http_pending, performing, completed>>
    BY <1>3 DEF HttpCancelCall, HttpCancel
  <2>2. Given' = Given /\ Queued' = Queued /\ Performing' = Performing
    BY <2>1 DEF Given, Queued, Performing, Performs
  <2>3. Parts6(Given', Queued', Performing', IdsOf(completed'), IdsOf(buffered), IdsOf(polled),
               IdsTold("http"))
    BY <2>1, <2>2, HttpPartsAre
  <2> QED  BY <2>1, <2>3, HttpThreadsServe
<1>4. CASE HttpDispatch
  <2>1. PICK limit \in Nat : limit = 0  OBVIOUS
  <2>2. /\ HttpPoll(limit) /\ GiveOut(HttpPolled(limit)) /\ polled' = polled
        /\ buffered' = buffered \o Unclaimed(HttpPolled(limit))
    BY <1>4, <2>1 DEF HttpDispatch, HttpPolled
  <2>3. Cuts(buffered, buffered, <<>>)  BY <1>1, CutAll
  <2> QED  BY <2>2, <2>3, ResponsesServe
<1>5. ASSUME NEW max \in {0, 1}, HttpPollCall(max)
      PROVE  Serves({"http", "stream"}) /\ HttpOnceInv'
  <2> DEFINE split == max > 0 /\ max < Len(buffered)
             old == IF split THEN SubSeq(buffered, 1, max) ELSE buffered
             new == IF split THEN SubSeq(buffered, max + 1, Len(buffered)) ELSE <<>>
  <2>1. PICK limit \in {0, 1} :
          /\ HttpPoll(limit) /\ GiveOut(HttpPolled(limit)) /\ buffered' = new
          /\ polled' = polled \o old \o Unclaimed(HttpPolled(limit))
    BY <1>5 DEF HttpPollCall
  <2>2. max \in Nat /\ limit \in Nat  OBVIOUS
  <2>3. Cuts(buffered, old, new)
    <3>1. CASE split
      <4>1. max <= Len(buffered)  BY <1>1, <3>1, SeqIs
      <4> QED  BY <1>1, <2>2, <3>1, <4>1, CutAt
    <3>2. CASE ~split  BY <1>1, <3>2, CutAll
    <3> QED  BY <3>1, <3>2
  <2> HIDE DEF old, new
  <2> QED  BY <2>1, <2>2, <2>3, ResponsesServe
<1> QED  BY <1>2, <1>3, <1>4, <1>5, HttpChunkServes, HttpTakeServes, HttpThreadServes

-----------------------------------------------------------------------------
(* The process module.                                                     *)

\* Entries in gone are erased; the results of some of them are told, and those in
\* given are given to a script.
LEMMA ProcMoves ==
    ASSUME ProcOnceInv, ProcInv, NEW T, Tells(T), NEW told, NEW given, NEW gone,
           \A x \in T : SourceOf(x.ev) = "process" => x.ev.n = 0 /\ x.ev.id \in told,
           gone \subseteq DOMAIN processes, told \subseteq gone, given \subseteq gone, told \cap given = {},
           DOMAIN processes' = DOMAIN processes \ gone, Erases(gone),
           \A id \in told : processes[id].cb # NoCallback,
           \A id \in gone : processes[id].cb = NoCallback => id \in given,
           UNCHANGED <<proc_next, proc_callback>>,
           \A id \in Processes : proc_given'[id] = proc_given[id] + IF id \in given THEN 1 ELSE 0,
           proc_given' = [id \in Processes |-> proc_given'[id]]
    PROVE  ProcOnceInv'
<1>1. /\ \A x \in TalesOf("process") : x.ev.n = 0
      /\ proc_given \in [Processes -> {0, 1}] /\ DOMAIN proc_callback = Processes
      /\ GivenOut \subseteq Spawned
      /\ DOMAIN processes \cap GivenOut = {}
      /\ IdsTold("process") \cap (DOMAIN processes \cup GivenOut) = {}
      /\ \A id \in DOMAIN processes : processes[id].cb = proc_callback[id]
      /\ \A id \in IdsTold("process") : proc_callback[id] # NoCallback
      /\ \A id \in Spawned : proc_callback[id] = NoCallback => id \in DOMAIN processes \cup GivenOut
  BY DEF ProcOnceInv
<1>2. TalesOf("process")' \subseteq TalesOf("process") \cup {x \in T : SourceOf(x.ev) = "process"}
  BY TellsOf
<1>3. (\A x \in TalesOf("process") : x.ev.n = 0)' /\ IdsTold("process")' \subseteq IdsTold("process") \cup told
  BY <1>1, <1>2 DEF IdsTold
<1>4. Spawned' = Spawned /\ Processes' = Processes /\ DOMAIN processes \subseteq Processes
  BY ProcessBound DEF Spawned, Processes, ProcInv
<1>5. \A id \in Processes : proc_given[id] \in {0, 1} /\ (proc_given[id] = 1 <=> id \in GivenOut)
  BY <1>1 DEF GivenOut
<1>6. \A id \in Processes : IF id \in given THEN proc_given'[id] = 1 ELSE proc_given'[id] = proc_given[id]
  <2> SUFFICES ASSUME NEW id \in Processes
               PROVE  IF id \in given THEN proc_given'[id] = 1 ELSE proc_given'[id] = proc_given[id]
    OBVIOUS
  <2>1. CASE id \in given
    <3>1. proc_given[id] = 0  BY <1>1, <1>5, <2>1
    <3> QED  BY <2>1, <3>1
  <2>2. CASE id \notin given  BY <1>5, <2>2
  <2> QED  BY <2>1, <2>2
<1>7. proc_given' \in [Processes -> {0, 1}]
  <2>1. \A id \in Processes : proc_given'[id] \in {0, 1}  BY <1>5, <1>6
  <2> QED  BY <2>1
<1>8. GivenOut' = GivenOut \cup given
  <2>1. GivenOut' = {id \in Processes : proc_given'[id] = 1}  BY <1>4 DEF GivenOut
  <2> QED  BY <1>4, <1>5, <1>6, <2>1 DEF GivenOut
<1>9. \A id \in DOMAIN processes' : processes'[id].cb = processes[id].cb
  BY DEF Erases
<1>10. (GivenOut \subseteq Spawned)' /\ (DOMAIN processes \cap GivenOut = {})'
       /\ (IdsTold("process") \cap (DOMAIN processes \cup GivenOut) = {})'
  BY <1>1, <1>3, <1>4, <1>8 DEF ProcInv
<1>11. (\A id \in DOMAIN processes : processes[id].cb = proc_callback[id])'
  BY <1>1, <1>9
<1>12. (\A id \in IdsTold("process") : proc_callback[id] # NoCallback)'
  BY <1>1, <1>3
<1>13. (\A id \in Spawned : proc_callback[id] = NoCallback => id \in DOMAIN processes \cup GivenOut)'
  BY <1>1, <1>4, <1>8
<1>14. (DOMAIN proc_callback = Processes)'
  BY <1>1, <1>4
<1> QED  BY <1>3, <1>4, <1>7, <1>10, <1>11, <1>12, <1>13, <1>14 DEF ProcOnceInv

\* The results stay where they are, or are given to a script.
LEMMA ProcGives ==
    ASSUME ProcOnceInv, ProcInv, Tells({}), NEW S, NEW late, NEW given, NEW gone,
           gone \subseteq DOMAIN processes, given \subseteq gone,
           \A id \in gone : processes[id].cb = NoCallback => id \in given,
           processes' = Remaining(S, late, gone),
           UNCHANGED <<proc_next, proc_callback>>, Give(given)
    PROVE  ProcOnceInv'
<1>1. Erases(gone) /\ DOMAIN processes' = DOMAIN processes \ gone
  BY RemainingErases DEF Remaining
<1>2. /\ \A id \in Processes : proc_given'[id] = proc_given[id] + IF id \in given THEN 1 ELSE 0
      /\ proc_given' = [id \in Processes |-> proc_given'[id]]
  BY DEF Give
<1>3. /\ \A x \in {} : SourceOf(x.ev) = "process" => x.ev.n = 0 /\ x.ev.id \in {}
      /\ {} \subseteq gone /\ {} \cap given = {} /\ \A id \in {} : processes[id].cb # NoCallback
  OBVIOUS
<1> QED  BY <1>1, <1>2, <1>3, ProcMoves

LEMMA GiveNone ==
    ASSUME ProcOnceInv, UNCHANGED proc_given
    PROVE  Give({})
<1>1. proc_given \in [Processes -> {0, 1}]
  BY DEF ProcOnceInv
<1>2. \A id \in Processes : proc_given[id] + (IF id \in {} THEN 1 ELSE 0) = proc_given[id]
  BY <1>1
<1>3. proc_given = [id \in Processes |-> proc_given[id]]
  BY <1>1
<1> QED  BY <1>2, <1>3 DEF Give

LEMMA SpawnServes ==
    ASSUME AnswersInv, RegistryInv, ProcOnceInv,
           NEW with \in BOOLEAN, NEW timed \in BOOLEAN, ProcessSpawn(with, timed)
    PROVE  Serves({"process"}) /\ ProcOnceInv'
<1> DEFINE cb == IF with THEN next_id ELSE NoCallback
           entry == [cb |-> cb, timed |-> timed, finished |-> FALSE]
           add == IF with THEN 1 ELSE 0
<1>1. OwnInv /\ ClaimInv /\ ProcInv
  BY DEF AnswersInv, RealtimeInv, HandleInv, DuesInv
<1>2. PICK n \in Processes : n = proc_next
  BY DEF ProcessSpawn
<1>3. /\ proc_next' = n + 1 /\ Reregister({}, add)
      /\ processes' = [id \in DOMAIN processes \cup {n} |-> IF id = n THEN entry ELSE processes[id]]
      /\ proc_callback' = [proc_callback EXCEPT ![n] = cb]
      /\ UNCHANGED <<queue, stack, own, called, proc_given>>
  BY <1>2 DEF ProcessSpawn
<1>4. add \in {0, 1} /\ Dropping({}, {"process"}) /\ entry.cb = cb
  BY DEF Dropping
<1> HIDE DEF entry, add, cb
<1>5. Serves({"process"})
  BY <1>1, <1>3, <1>4, ReregisterServes
<1>6. Tells({})
  BY <1>3, StayingTells
<1>7. TalesOf("process")' = TalesOf("process") /\ IdsTold("process")' = IdsTold("process")
  <2>1. Tales' = Tales
    <3>1. AllItems' = AllItems  BY <1>3 DEF AllItems, AllIn, HeardIn
    <3> QED  BY <3>1 DEF Tales
  <2>2. TalesOf("process")' = TalesOf("process")  BY <2>1 DEF TalesOf
  <2> QED  BY <2>2 DEF IdsTold
<1>8. /\ \A x \in TalesOf("process") : x.ev.n = 0
      /\ proc_given \in [Processes -> {0, 1}] /\ DOMAIN proc_callback = Processes
      /\ GivenOut \subseteq Spawned
      /\ DOMAIN processes \cap GivenOut = {}
      /\ IdsTold("process") \cap (DOMAIN processes \cup GivenOut) = {}
      /\ \A id \in DOMAIN processes : processes[id].cb = proc_callback[id]
      /\ \A id \in IdsTold("process") : proc_callback[id] # NoCallback
      /\ \A id \in Spawned : proc_callback[id] = NoCallback => id \in DOMAIN processes \cup GivenOut
  BY DEF ProcOnceInv
<1>9. Spawned' = Spawned \cup {n} /\ n \notin Spawned /\ DOMAIN processes \subseteq Spawned
      /\ n \in Nat \ {0}
  BY <1>1, <1>2, <1>3 DEF Spawned, ProcInv
<1>10. n \notin IdsTold("process")
  <2> SUFFICES ASSUME n \in IdsTold("process") PROVE FALSE  OBVIOUS
  <2>1. PICK x \in Tales : SourceOf(x.ev) = "process" /\ x.ev.id = n  BY DEF IdsTold, TalesOf
  <2>2. Claim(x.cb, "process", n) \in Claims  BY <2>1, TalesAre
  <2>3. Exists("process", n)  BY <1>1, <2>2, ClaimIs DEF ClaimInv
  <2> QED  BY <1>9, <2>3 DEF Exists, Spawned
<1>11. GivenOut' = GivenOut /\ Processes' = Processes
  BY <1>3 DEF GivenOut, Processes
<1>12. DOMAIN processes' = DOMAIN processes \cup {n}
       /\ \A id \in DOMAIN processes' : processes'[id].cb = IF id = n THEN cb ELSE processes[id].cb
  BY <1>3, <1>4
<1>13. \A id \in Processes : proc_callback'[id] = IF id = n THEN cb ELSE proc_callback[id]
  BY <1>3, <1>8
<1>14. DOMAIN processes' \subseteq Processes /\ IdsTold("process") \subseteq Processes /\ Spawned' \subseteq Processes
  <2>1. Spawned \subseteq Processes  BY <1>1, ProcessBound DEF Spawned, Processes, ProcInv
  <2>2. \A id \in IdsTold("process") : id \in Spawned
    <3> SUFFICES ASSUME NEW id \in IdsTold("process") PROVE id \in Spawned  OBVIOUS
    <3>1. PICK x \in Tales : SourceOf(x.ev) = "process" /\ x.ev.id = id  BY DEF IdsTold, TalesOf
    <3>2. Claim(x.cb, "process", id) \in Claims  BY <3>1, TalesAre
    <3>3. Exists("process", id)  BY <1>1, <3>2, ClaimIs DEF ClaimInv
    <3> QED  BY <3>3 DEF Exists, Spawned
  <2> QED  BY <1>2, <1>9, <1>12, <2>1, <2>2
<1>15. (\A id \in DOMAIN processes : processes[id].cb = proc_callback[id])'
  BY <1>8, <1>12, <1>13, <1>14
<1>16. (\A id \in IdsTold("process") : proc_callback[id] # NoCallback)'
  BY <1>7, <1>8, <1>10, <1>13, <1>14
<1>17. (\A id \in Spawned : proc_callback[id] = NoCallback => id \in DOMAIN processes \cup GivenOut)'
  BY <1>8, <1>9, <1>11, <1>12, <1>13, <1>14
<1>18. /\ (\A x \in TalesOf("process") : x.ev.n = 0)'
       /\ (proc_given \in [Processes -> {0, 1}])' /\ (DOMAIN proc_callback = Processes)'
       /\ (GivenOut \subseteq Spawned)' /\ (DOMAIN processes \cap GivenOut = {})'
       /\ (IdsTold("process") \cap (DOMAIN processes \cup GivenOut) = {})'
  BY <1>3, <1>7, <1>8, <1>9, <1>10, <1>11, <1>12
<1> QED  BY <1>5, <1>15, <1>16, <1>17, <1>18 DEF ProcOnceInv

LEMMA ProcessDispatchServes ==
    ASSUME AnswersInv, ProcOnceInv, NEW late,
           NEW n \in Nat, NEW order \in [1..n -> Processes], ProcessDispatch(late, order)
    PROVE  Serves({"process"}) /\ ProcOnceInv'
<1> DEFINE all == DOMAIN processes
           told == {id \in FinishedBy(all, late) : processes[id].cb # NoCallback}
           item(k) == Item(processes[order[k]].cb, Event("process", order[k], "result", 0))
           items == [k \in DOMAIN order |-> item(k)]
           T == TalesIn(ToSet(items))
<1>1. FrameInv /\ ProcInv /\ IsSeq(queue)
  BY DEF AnswersInv, RealtimeInv, HandleInv, FrameInv
<1>2. /\ {order[k] : k \in DOMAIN order} = told
      /\ processes' = Remaining(all, late, told) /\ queue' = queue \o items
      /\ UNCHANGED <<registry, deferred, retired, stack, called, proc_next, proc_callback, proc_given>>
  BY DEF ProcessDispatch
<1>3. told \subseteq DOMAIN processes /\ \A id \in told : processes[id].cb # NoCallback
  BY DEF FinishedBy
<1>4. items = [k \in 1..n |-> items[k]] /\ \A k \in 1..n : items[k] = item(k)
  BY DOMAIN order = 1..n
<1>5. \A k \in 1..n : /\ item(k).ev.of = "process" /\ item(k).ev.id = order[k] /\ item(k).ev.n = 0
                      /\ order[k] \in told
  BY <1>2, DOMAIN order = 1..n DEF Item, Event
<1> HIDE DEF items, item, told
<1>6. IsSeq(items) /\ ToSet(items) = {items[k] : k \in 1..n}
  BY <1>4, FunctionIsSeq
<1>7. \A e \in ToSet(items) : e.ev.id \in told /\ e.ev.n = 0 /\ SourceOf(e.ev) = "process"
  BY <1>4, <1>5, <1>6 DEF SourceOf
<1>8. Tells(TalesIn(ToSet(items))) /\ SshAside
  BY <1>1, <1>2, <1>6, PostingTells
<1>9. Serves({"process"})
  <2>1. \A e \in ToSet(items) : SourceOf(e.ev) \in {"process"}  BY <1>7
  <2>2. Leaves({"process"})  BY <1>2, RestingLeaves
  <2> QED  BY <1>8, <2>1, <2>2, ServesIs
<1>10. \A x \in T : SourceOf(x.ev) = "process" => x.ev.n = 0 /\ x.ev.id \in told
  BY <1>7 DEF TalesIn, Item
<1>11. Erases(told) /\ DOMAIN processes' = DOMAIN processes \ told
  BY <1>1, <1>2, RemainingErases DEF Remaining
<1>12. /\ \A id \in Processes : proc_given'[id] = proc_given[id] + IF id \in {} THEN 1 ELSE 0
       /\ proc_given' = [id \in Processes |-> proc_given'[id]]
  BY <1>2, GiveNone DEF Give
<1>13. {} \subseteq told /\ told \cap {} = {} /\ Tells(T)
       /\ \A id \in told : processes[id].cb = NoCallback => id \in {}
  BY <1>3, <1>8
<1> HIDE DEF T
<1>14. ProcOnceInv'
  BY <1>1, <1>2, <1>3, <1>10, <1>11, <1>12, <1>13, ProcMoves
<1> QED  BY <1>9, <1>14

LEMMA WaitServes ==
    ASSUME AnswersInv, RegistryInv, ProcOnceInv, NEW id, NEW late, ProcessWait(id, late)
    PROVE  Serves({"process"}) /\ ProcOnceInv'
<1> DEFINE drop == {processes[id].cb} \ {NoCallback}
<1>1. OwnInv /\ ClaimInv /\ ProcInv
  BY DEF AnswersInv, RealtimeInv, HandleInv, DuesInv
<1>2. /\ id \in DOMAIN processes /\ processes' = Remaining({id}, late, {id})
      /\ Reregister(drop, 0) /\ Give({id})
      /\ UNCHANGED <<queue, stack, called, proc_next, proc_callback>>
  BY DEF ProcessWait, Unregister
<1>3. Dropping(drop, {"process"}) /\ 0 \in {0, 1}
  <2>1. ASSUME processes[id].cb # NoCallback
        PROVE  \E c \in Claims : c.cb = processes[id].cb /\ c.of \in {"process"}
    <3>1. id \in WithCallback  BY <1>2, <2>1 DEF WithCallback
    <3>2. Claim(processes[id].cb, "process", id) \in Claims
      BY <3>1 DEF Claims, Tables, ProcessClaims
    <3>3. Claim(processes[id].cb, "process", id).cb = processes[id].cb
          /\ Claim(processes[id].cb, "process", id).of \in {"process"}
      BY ClaimIs
    <3> QED  BY <3>2, <3>3
  <2> QED  BY <2>1 DEF Dropping
<1> HIDE DEF drop
<1>4. Serves({"process"})
  BY <1>1, <1>2, <1>3, ReregisterServes
<1>5. Tells({})
  BY <1>2, StayingTells
<1>6. {id} \subseteq DOMAIN processes /\ {id} \subseteq {id}
      /\ \A x \in {id} : processes[x].cb = NoCallback => x \in {id}
  BY <1>2
<1>7. ProcOnceInv'
  BY <1>1, <1>2, <1>5, <1>6, ProcGives
<1> QED  BY <1>4, <1>7

LEMMA ProcessesServe ==
    ASSUME AnswersInv, RegistryInv, ProcOnceInv,
           \/ \E with, timed \in BOOLEAN : ProcessSpawn(with, timed)
           \/ \E late, id : ProcessRead(id, late) \/ ProcessWait(id, late)
           \/ \E max, late, gone : ProcessPollCall(max, late, gone)
           \/ \E late : \E order \in UNION {[1..n -> Processes] : n \in 0..MaxProcesses} :
                 ProcessDispatch(late, order)
           \/ \E id \in Processes : ChildExit(id)
    PROVE  Serves({"process"}) /\ ProcOnceInv'
<1>1. ProcInv
  BY DEF AnswersInv, RealtimeInv
<1>2. ASSUME UNCHANGED cbVars PROVE Serves({"process"}) /\ Tells({})
  <2>1. UNCHANGED <<registry, deferred, retired, queue, stack, called>>  BY <1>2 DEF cbVars
  <2> QED  BY <2>1, RestServes, StayingTells
<1>3. ASSUME NEW late, NEW id, ProcessRead(id, late)
      PROVE  Serves({"process"}) /\ ProcOnceInv'
  <2>1. /\ UNCHANGED cbVars /\ processes' = Remaining({id}, late, {})
        /\ UNCHANGED <<proc_next, proc_callback, proc_given>>
    BY <1>3 DEF ProcessRead
  <2>2. {} \subseteq DOMAIN processes /\ {} \subseteq {} /\ \A x \in {} : processes[x].cb = NoCallback => x \in {}
    OBVIOUS
  <2>3. Give({})  BY <2>1, GiveNone
  <2> QED  BY <1>1, <1>2, <2>1, <2>2, <2>3, ProcGives
<1>4. ASSUME NEW max, NEW late, NEW gone, ProcessPollCall(max, late, gone)
      PROVE  Serves({"process"}) /\ ProcOnceInv'
  <2> DEFINE all == DOMAIN processes
             returned == {id \in gone : processes[id].cb = NoCallback}
  <2>1. /\ UNCHANGED cbVars /\ UNCHANGED <<proc_next, proc_callback>>
        /\ gone \subseteq FinishedBy(all, late)
        /\ processes' = Remaining(all, late, gone) /\ Give(returned)
    BY <1>4 DEF ProcessPollCall
  <2>2. gone \subseteq DOMAIN processes /\ returned \subseteq gone
        /\ \A id \in gone : processes[id].cb = NoCallback => id \in returned
    BY <2>1 DEF FinishedBy
  <2> HIDE DEF returned, all
  <2> QED  BY <1>1, <1>2, <2>1, <2>2, ProcGives
<1>5. ASSUME NEW late, NEW n \in 0..MaxProcesses, NEW order \in [1..n -> Processes],
             ProcessDispatch(late, order)
      PROVE  Serves({"process"}) /\ ProcOnceInv'
  <2>1. n \in Nat  BY ProcessBound
  <2> QED  BY <1>5, <2>1, ProcessDispatchServes
<1>6. ASSUME NEW id \in Processes, ChildExit(id)
      PROVE  Serves({"process"}) /\ ProcOnceInv'
  <2>2. UNCHANGED <<cbVars, proc_next, processes, proc_callback, proc_given>>  BY <1>6 DEF ChildExit
  <2>3. Erases({}) /\ DOMAIN processes' = DOMAIN processes \ {}  BY <2>2 DEF Erases
  <2>4. /\ \A x \in Processes : proc_given'[x] = proc_given[x] + IF x \in {} THEN 1 ELSE 0
        /\ proc_given' = [x \in Processes |-> proc_given'[x]]
    BY <2>2, GiveNone DEF Give
  <2>5. /\ \A x \in {} : SourceOf(x.ev) = "process" => x.ev.n = 0 /\ x.ev.id \in {}
        /\ {} \subseteq DOMAIN processes /\ {} \subseteq {} /\ {} \cap {} = {}
        /\ \A x \in {} : processes[x].cb # NoCallback
        /\ \A x \in {} : processes[x].cb = NoCallback => x \in {}
    OBVIOUS
  <2>6. ProcOnceInv'  BY <1>1, <1>2, <2>2, <2>3, <2>4, <2>5, ProcMoves
  <2> QED  BY <1>2, <2>2, <2>6
<1> QED  BY <1>3, <1>4, <1>5, <1>6, SpawnServes, WaitServes

-----------------------------------------------------------------------------
(* The textures in the middle of an upload.                                *)

LEMMA TextureIs ==
    ASSUME NEW ready \in BOOLEAN, NEW sized \in BOOLEAN, NEW uploading \in BOOLEAN,
           NEW pixels \in Nat, NEW done \in Nat
    PROVE  /\ Texture(ready, sized, uploading, pixels, done) \in TextureRecords
           /\ Texture(ready, sized, uploading, pixels, done).uploading = uploading
           /\ Texture(ready, sized, uploading, pixels, done).pixels = pixels
  BY DEF Texture, TextureRecords

\* What is not uploaded, or goes on as before.
LEMMA TexturesAre ==
    /\ LoadedAtOnce \in TextureRecords /\ ~LoadedAtOnce.uploading
    /\ NewTexture \in TextureRecords /\ ~NewTexture.uploading
    /\ \A t \in TextureRecords :
          /\ Allocated(t) \in TextureRecords /\ ~Allocated(t).uploading
          /\ [t EXCEPT !.ready = TRUE] \in TextureRecords
          /\ [t EXCEPT !.ready = TRUE].uploading = t.uploading
          /\ [t EXCEPT !.ready = TRUE].pixels = t.pixels
          /\ Updated(t) \in TextureRecords
          /\ Updated(t).uploading = t.uploading /\ Updated(t).pixels = t.pixels
          /\ Uploaded(t) \in TextureRecords
          /\ Uploaded(t).uploading => t.uploading /\ ~EndsUpload(t) /\ Uploaded(t).pixels = t.pixels
<1>1. NoLoad \in Nat /\ 0 \in Nat
  BY DEF NoLoad
<1>2. /\ LoadedAtOnce \in TextureRecords /\ ~LoadedAtOnce.uploading
      /\ NewTexture \in TextureRecords /\ ~NewTexture.uploading
  BY <1>1, TextureIs DEF LoadedAtOnce, NewTexture
<1>3. ASSUME NEW t \in TextureRecords
      PROVE  /\ Allocated(t) \in TextureRecords /\ ~Allocated(t).uploading
             /\ [t EXCEPT !.ready = TRUE] \in TextureRecords
             /\ [t EXCEPT !.ready = TRUE].uploading = t.uploading
             /\ [t EXCEPT !.ready = TRUE].pixels = t.pixels
  BY DEF TextureRecords, Allocated
<1>4. ASSUME NEW t \in TextureRecords
      PROVE  /\ Updated(t) \in TextureRecords
             /\ Updated(t).uploading = t.uploading /\ Updated(t).pixels = t.pixels
  BY <1>3 DEF Updated
<1>5. ASSUME NEW t \in TextureRecords
      PROVE  /\ Uploaded(t) \in TextureRecords
             /\ Uploaded(t).uploading => t.uploading /\ ~EndsUpload(t) /\ Uploaded(t).pixels = t.pixels
  <2>1. CASE ~t.uploading \/ t.pixels = NoLoad  BY <2>1 DEF Uploaded, EndsUpload
  <2>2. CASE ~(~t.uploading \/ t.pixels = NoLoad) /\ t.done + 1 < Pieces
    <3>1. Uploaded(t) = [t EXCEPT !.done = @ + 1]  BY <2>2 DEF Uploaded
    <3>2. ~(t.done + 1 >= Pieces)  BY <2>2, LoadBounds DEF TextureRecords
    <3> QED  BY <2>2, <3>1, <3>2 DEF TextureRecords, EndsUpload
  <2>3. CASE ~(~t.uploading \/ t.pixels = NoLoad) /\ ~(t.done + 1 < Pieces)
    <3>1. Uploaded(t) = Texture(TRUE, t.sized, FALSE, NoLoad, 0)  BY <2>3 DEF Uploaded
    <3>2. t.sized \in BOOLEAN  BY DEF TextureRecords
    <3>3. Uploaded(t) \in TextureRecords /\ Uploaded(t).uploading = FALSE
      BY <1>1, <3>1, <3>2 DEF Texture, TextureRecords
    <3> QED  BY <3>3
  <2> QED  BY <2>1, <2>2, <2>3
<1> QED  BY <1>2, <1>3, <1>4, <1>5

\* A queue that is worked on has the entries of the uploads that go on.
Carries(st, key, K) ==
    DOMAIN st.map = K /\ GoesOn(st.map, key, ToSet(st.ahead) \cup ToSet(st.stay))

LEMMA UploadNextCarries ==
    ASSUME NEW key, NEW st, NEW U, Parted(st, U), NEW K, Carries(st, key, K),
           \A id \in U : key[id] \in K
    PROVE  Carries(UploadNext(key, st), key, K)
<1> DEFINE id == Head(st.ahead)
           n == key[id]
           t == st.map[n]
           ends == EndsUpload(t)
           map == [st.map EXCEPT ![n] = Uploaded(@)]
           ahead == Tail(st.ahead)
           stay == Append(st.stay, id)
           over == Append(st.ended, id)
           next == UploadNext(key, st)
<1>1. CASE st.ahead = <<>>
  BY <1>1 DEF UploadNext
<1>2. CASE st.ahead # <<>>
  <2>1. /\ IsSeq(ahead) /\ ToSet(st.ahead) = ToSet(ahead) \cup {id} /\ id \in U
    BY <1>2, TailIs DEF Parted
  <2>2. /\ next.map = map /\ next.ahead = ahead
        /\ next.stay = IF ends THEN st.stay ELSE stay
    BY <1>2 DEF UploadNext
  <2>3. ToSet(stay) = ToSet(st.stay) \cup {id}  BY AppendIs DEF Parted
  <2>4. n \in K /\ DOMAIN st.map = K  BY <2>1 DEF Carries
  <2>5. DOMAIN map = K /\ map[n] = Uploaded(t) /\ \A m \in K \ {n} : map[m] = st.map[m]  BY <2>4
  <2>6. ToSet(next.ahead) \cup ToSet(next.stay) =
           IF ends THEN ToSet(ahead) \cup ToSet(st.stay)
           ELSE ToSet(st.ahead) \cup ToSet(st.stay)
    BY <2>1, <2>2, <2>3
  <2> DEFINE S == ToSet(next.ahead) \cup ToSet(next.stay)
             R == ToSet(st.ahead) \cup ToSet(st.stay)
  <2>7. R \subseteq S \cup {id} /\ (~ends => S = R)  BY <2>1, <2>6
  <2>8. \A m \in K : /\ st.map[m] \in TextureRecords
                     /\ st.map[m].uploading => st.map[m].pixels \in R /\ key[st.map[m].pixels] = m
    BY <2>4 DEF Carries, GoesOn
  <2>9. n = key[id] /\ t = st.map[n]  OBVIOUS
  <2> HIDE DEF S, R, map, n, t, id, ends, next
  <2>10. ASSUME NEW m \in K
         PROVE  /\ map[m] \in TextureRecords
                /\ map[m].uploading => map[m].pixels \in S /\ key[map[m].pixels] = m
    <3>1. CASE m # n  BY <2>5, <2>7, <2>8, <2>9, <3>1
    <3>2. CASE m = n
      <4>1. /\ map[m] \in TextureRecords
            /\ map[m].uploading => t.uploading /\ ~ends /\ map[m].pixels = t.pixels
        <5>1. t \in TextureRecords  BY <2>4, <2>8, <2>9
        <5>2. /\ Uploaded(t) \in TextureRecords
              /\ Uploaded(t).uploading => t.uploading /\ ~EndsUpload(t) /\ Uploaded(t).pixels = t.pixels
          BY <5>1, TexturesAre
        <5>3. map[m] = Uploaded(t)  BY <2>5, <3>2
        <5> QED  BY <5>2, <5>3 DEF ends
      <4> QED  BY <2>4, <2>7, <2>8, <2>9, <3>2, <4>1
    <3> QED  BY <3>1, <3>2
  <2>11. GoesOn(map, key, S)  BY <2>5, <2>10 DEF GoesOn
  <2>12. DOMAIN next.map = K /\ GoesOn(next.map, key, S)  BY <2>2, <2>5, <2>11
  <2> QED  BY <2>12 DEF Carries, S, next
<1> QED  BY <1>1, <1>2

\* The pixels of the latest of the loads in decoded, or those it had.
LEMMA AppliedIs ==
    ASSUME NEW t \in TextureRecords, NEW name, NEW files, NEW decoded,
           ToSet(decoded) \subseteq Nat
    PROVE  /\ Applied(t, name, files, decoded) \in TextureRecords
           /\ Applied(t, name, files, decoded).uploading =>
                \/ /\ t.uploading
                   /\ Applied(t, name, files, decoded).pixels = t.pixels
                \/ /\ Applied(t, name, files, decoded).pixels \in ToSet(decoded)
                   /\ loads[Applied(t, name, files, decoded).pixels].name = name
<1> DEFINE loaded == IF Latest(files, name) = {} THEN t ELSE LoadedAtOnce
           one == CHOOSE id \in Latest(decoded, name) : TRUE
           a == Applied(t, name, files, decoded)
<1>1. /\ loaded \in TextureRecords
      /\ loaded.uploading => t.uploading /\ loaded.pixels = t.pixels
  BY TexturesAre
<1>2. a = IF Latest(decoded, name) = {} THEN loaded ELSE Texture(FALSE, TRUE, TRUE, one, 0)
  BY DEF Applied
<1>3. \A id \in Latest(decoded, name) : id \in ToSet(decoded) /\ loads[id].name = name
  BY DEF Latest, ToSet
<1>4. CASE Latest(decoded, name) = {}
  <2>1. a = loaded  BY <1>2, <1>4
  <2> HIDE DEF a, loaded
  <2>2. a \in TextureRecords /\ (a.uploading => t.uploading /\ a.pixels = t.pixels)  BY <1>1, <2>1
  <2> QED  BY <2>2 DEF a
<1>5. CASE Latest(decoded, name) # {}
  <2>1. one \in Latest(decoded, name)  BY <1>5
  <2>2. one \in ToSet(decoded) /\ loads[one].name = name /\ one \in Nat  BY <1>3, <2>1
  <2>3. a = Texture(FALSE, TRUE, TRUE, one, 0)  BY <1>2, <1>5
  <2> HIDE DEF a, one
  <2>4. a \in TextureRecords /\ a.pixels = one  BY <2>2, <2>3, TextureIs
  <2> QED  BY <2>2, <2>4 DEF a
<1> QED  BY <1>4, <1>5

\* The uploads that go on after a frame of the resource manager.
LEMMA FrameUploads ==
    ASSUME LoadSeqs, LoadLineInv, UploadInv, Len(loads) <= MaxLoads, ResourcesFrame
    PROVE  UploadInv'
<1> DEFINE seen == [kind \in Kinds |-> PolledOf(kind, IF kind = "bytes" THEN 2 ELSE 0)]
           ids == [kind \in Kinds |-> Succeeded(seen[kind])]
           files == ids["file"]
           decoded == ids["bytes"]
           faces == ids["cubemap"]
           tmap == [n \in TextureNames |-> Applied(textures[n], n, ids["file"], ids["bytes"])]
           tups == texture_uploads \o ids["bytes"]
           first == UploadNext(NameOf, UploadsOf(tmap, tups))
           texture == UploadNext(NameOf, first)
           cmap == [id \in Loads |->
                       IF id \in ToSet(ids["cubemap"]) THEN Texture(FALSE, TRUE, TRUE, id, 0)
                       ELSE cubemaps[id]]
           cups == cubemap_uploads \o ids["cubemap"]
           cubemap == UploadNext(Itself, UploadsOf(cmap, cups))
<1>1. /\ texture_uploads' = texture.stay \o texture.ahead
      /\ cubemap_uploads' = cubemap.stay \o cubemap.ahead
      /\ textures' = texture.map /\ cubemaps' = cubemap.map
      /\ loads' = loads
  BY ZenonT(120) DEF ResourcesFrame, NameOf, Itself
<1>2. ASSUME NEW kind \in Kinds
      PROVE  LoadNames(ids[kind]) /\ Distinct(ids[kind]) /\ ToSet(ids[kind]) \subseteq pending_loads
  <2>1. ids[kind] = Succeeded(seen[kind])  OBVIOUS
  <2>2. /\ IsSeq(seen[kind]) /\ ToSet(seen[kind]) \subseteq ToSet(load_results)
        /\ DistinctIds(seen[kind])
    <3>1. seen[kind] = PolledOf(kind, IF kind = "bytes" THEN 2 ELSE 0)  OBVIOUS
    <3> HIDE DEF seen
    <3>2. (IF kind = "bytes" THEN 2 ELSE 0) \in Nat  OBVIOUS
    <3> QED  BY <3>1, <3>2, PolledOfIs, PolledOfPicks
  <2> HIDE DEF seen, ids
  <2>3. LoadNames(ids[kind])  BY <2>1, <2>2, SucceededIs
  <2>4. Distinct(ids[kind]) /\ ToSet(ids[kind]) = {r.id : r \in {r \in ToSet(seen[kind]) : r.ok}}
    BY <2>1, <2>2, SucceededPicks
  <2>5. ToSet(ids[kind]) \subseteq pending_loads  BY <2>2, <2>4 DEF LoadLineInv
  <2> QED  BY <2>3, <2>4, <2>5
<1>3. "file" \in Kinds /\ "bytes" \in Kinds /\ "cubemap" \in Kinds
  BY DEF Kinds
<1>4. /\ IsSeq(decoded) /\ Distinct(decoded) /\ ToSet(decoded) \subseteq DOMAIN loads
      /\ IsSeq(faces) /\ Distinct(faces) /\ ToSet(faces) \subseteq DOMAIN loads
      /\ ToSet(decoded) \cap ToSet(texture_uploads) = {}
      /\ ToSet(faces) \cap ToSet(cubemap_uploads) = {}
  <2> HIDE DEF ids
  <2> QED  BY <1>2, <1>3 DEF LoadNames, LoadLineInv
<1>5. /\ \A n \in TextureNames : tmap[n] = Applied(textures[n], n, files, decoded)
      /\ DOMAIN tmap = TextureNames
      /\ tups = texture_uploads \o decoded
  OBVIOUS
<1>6. /\ \A id \in Loads : cmap[id] = IF id \in ToSet(faces) THEN Texture(FALSE, TRUE, TRUE, id, 0)
                                      ELSE cubemaps[id]
      /\ DOMAIN cmap = Loads
      /\ cups = cubemap_uploads \o faces
  OBVIOUS
<1> HIDE DEF ids, seen, files, decoded, faces, tups, cups, tmap, cmap
<1>7. /\ IsSeq(tups) /\ ToSet(tups) = ToSet(texture_uploads) \cup ToSet(decoded) /\ Distinct(tups)
  BY <1>4, <1>5, ConcatIs, DistinctConcat DEF LoadLineInv, LoadSeqs, LoadNames
<1>8. /\ IsSeq(cups) /\ ToSet(cups) = ToSet(cubemap_uploads) \cup ToSet(faces) /\ Distinct(cups)
  BY <1>4, <1>6, ConcatIs, DistinctConcat DEF LoadLineInv, LoadSeqs, LoadNames
<1>9. /\ IsSeq(loads) /\ DOMAIN loads \subseteq Nat
      /\ ToSet(tups) \subseteq DOMAIN loads /\ ToSet(cups) \subseteq DOMAIN loads
      /\ \A id \in DOMAIN loads : NameOf[id] = loads[id].name /\ Itself[id] = id
  <2>1. IsSeq(loads) /\ DOMAIN loads \subseteq Nat  BY SeqIs DEF LoadSeqs
  <2> QED  BY <2>1, <1>4, <1>7, <1>8 DEF UploadInv, NameOf, Itself
<1>10. GoesOn(tmap, NameOf, ToSet(tups))
  <2>1. ASSUME NEW n \in TextureNames
        PROVE  /\ tmap[n] \in TextureRecords
               /\ tmap[n].uploading => tmap[n].pixels \in ToSet(tups) /\ NameOf[tmap[n].pixels] = n
    <3>1. /\ textures[n] \in TextureRecords
          /\ textures[n].uploading => /\ textures[n].pixels \in ToSet(texture_uploads)
                                      /\ NameOf[textures[n].pixels] = n
      BY DEF UploadInv, GoesOn
    <3>2. /\ tmap[n] \in TextureRecords
          /\ tmap[n].uploading =>
                \/ textures[n].uploading /\ tmap[n].pixels = textures[n].pixels
                \/ tmap[n].pixels \in ToSet(decoded) /\ loads[tmap[n].pixels].name = n
      <4>1. ToSet(decoded) \subseteq Nat  BY <1>4, <1>9
      <4>2. tmap[n] = Applied(textures[n], n, files, decoded)  BY <1>5
      <4> QED  BY <3>1, <4>1, <4>2, AppliedIs
    <3>3. ASSUME tmap[n].uploading
          PROVE  tmap[n].pixels \in ToSet(tups) /\ NameOf[tmap[n].pixels] = n
      <4>1. CASE textures[n].uploading /\ tmap[n].pixels = textures[n].pixels  BY <3>1, <4>1, <1>7
      <4>2. CASE tmap[n].pixels \in ToSet(decoded) /\ loads[tmap[n].pixels].name = n
        BY <4>2, <1>4, <1>7, <1>9
      <4> QED  BY <3>2, <3>3, <4>1, <4>2
    <3> QED  BY <3>2, <3>3
  <2> QED  BY <2>1, <1>5 DEF GoesOn
<1>11. GoesOn(cmap, Itself, ToSet(cups))
  <2>1. ASSUME NEW n \in Loads
        PROVE  /\ cmap[n] \in TextureRecords
               /\ cmap[n].uploading => cmap[n].pixels \in ToSet(cups) /\ Itself[cmap[n].pixels] = n
    <3>1. CASE n \in ToSet(faces)
      <4>1. cmap[n] = Texture(FALSE, TRUE, TRUE, n, 0) /\ n \in Nat  BY <1>4, <1>6, <1>9, <3>1
      <4>2. cmap[n] \in TextureRecords /\ cmap[n].pixels = n  BY <4>1 DEF Texture, TextureRecords
      <4> QED  BY <1>4, <1>8, <1>9, <3>1, <4>2
    <3>2. CASE n \notin ToSet(faces)
      <4>1. cmap[n] = cubemaps[n]  BY <1>6, <3>2
      <4>2. /\ cubemaps[n] \in TextureRecords
            /\ cubemaps[n].uploading => /\ cubemaps[n].pixels \in ToSet(cubemap_uploads)
                                        /\ Itself[cubemaps[n].pixels] = n
        BY DEF UploadInv, GoesOn
      <4> QED  BY <1>8, <4>1, <4>2
    <3> QED  BY <3>1, <3>2
  <2> QED  BY <2>1, <1>6 DEF GoesOn
<1> DEFINE tst == UploadsOf(tmap, tups)
           cst == UploadsOf(cmap, cups)
<1>12. Carries(tst, NameOf, TextureNames) /\ Carries(cst, Itself, Loads)
  <2>1. ToSet(<<>>) = {}  BY DEF ToSet
  <2>2. /\ tst.map = tmap /\ tst.ahead = tups /\ tst.stay = <<>>
        /\ cst.map = cmap /\ cst.ahead = cups /\ cst.stay = <<>>
    BY DEF UploadsOf
  <2>3. /\ ToSet(tst.ahead) \cup ToSet(tst.stay) = ToSet(tups)
        /\ ToSet(cst.ahead) \cup ToSet(cst.stay) = ToSet(cups)
    BY <2>1, <2>2
  <2> HIDE DEF tst, cst
  <2> QED  BY <1>5, <1>6, <1>10, <1>11, <2>2, <2>3 DEF Carries
<1>13. Parted(tst, ToSet(tups)) /\ Parted(cst, ToSet(cups))
  BY <1>7, <1>8, UploadsParted
<1>14. /\ \A id \in ToSet(tups) : NameOf[id] \in TextureNames
       /\ \A id \in ToSet(cups) : Itself[id] \in Loads
  <2>1. \A id \in ToSet(tups) : NameOf[id] \in TextureNames  BY <1>9 DEF UploadInv
  <2>2. DOMAIN loads \subseteq Loads  BY SeqIs, LoadBounds DEF LoadSeqs, Loads
  <2> QED  BY <1>9, <2>1, <2>2
<1> HIDE DEF tst, cst
<1>15. Parted(first, ToSet(tups)) /\ Carries(first, NameOf, TextureNames)
  BY <1>12, <1>13, <1>14, UploadNextParted, UploadNextCarries DEF tst
<1> HIDE DEF first
<1>16. Parted(texture, ToSet(tups)) /\ Carries(texture, NameOf, TextureNames)
  BY <1>14, <1>15, UploadNextParted, UploadNextCarries
<1>17. Parted(cubemap, ToSet(cups)) /\ Carries(cubemap, Itself, Loads)
  BY <1>12, <1>13, <1>14, UploadNextParted, UploadNextCarries DEF cst
<1> HIDE DEF texture, cubemap
<1>18. /\ ToSet(texture_uploads') = ToSet(texture.ahead) \cup ToSet(texture.stay)
       /\ ToSet(cubemap_uploads') = ToSet(cubemap.ahead) \cup ToSet(cubemap.stay)
       /\ ToSet(texture_uploads') \subseteq DOMAIN loads
       /\ ToSet(cubemap_uploads') \subseteq DOMAIN loads
  <2>1. /\ ToSet(texture.stay \o texture.ahead) = ToSet(texture.stay) \cup ToSet(texture.ahead)
        /\ ToSet(cubemap.stay \o cubemap.ahead) = ToSet(cubemap.stay) \cup ToSet(cubemap.ahead)
    BY <1>16, <1>17, ConcatIs DEF Parted
  <2>2. /\ ToSet(texture.ahead) \cup ToSet(texture.stay) \subseteq ToSet(tups)
        /\ ToSet(cubemap.ahead) \cup ToSet(cubemap.stay) \subseteq ToSet(cups)
    BY <1>16, <1>17 DEF Parted
  <2> QED  BY <1>1, <1>9, <2>1, <2>2
<1>19. NameOf' = NameOf /\ Itself' = Itself
  BY <1>1 DEF NameOf, Itself
<1>20. /\ DOMAIN textures' = TextureNames /\ DOMAIN cubemaps' = Loads
       /\ GoesOn(textures', NameOf, ToSet(texture_uploads'))
       /\ GoesOn(cubemaps', Itself, ToSet(cubemap_uploads'))
  BY <1>1, <1>16, <1>17, <1>18 DEF Carries
<1> QED  BY <1>1, <1>18, <1>19, <1>20 DEF UploadInv

-----------------------------------------------------------------------------
(* The resource manager.                                                   *)

LEMMA ReadyTells ==
    ASSUME NEW ids, LoadNames(ids)
    PROVE  /\ \A e \in ToSet(Ready(ids)) :
                /\ e.ev.n = 0 /\ SourceOf(e.ev) = "load"
                /\ e.ev.id \in ToSet(ids) \cap LoadsCalled /\ e.cb = loads[e.ev.id].cb
           /\ \A id \in ToSet(ids) \cap LoadsCalled : \E e \in ToSet(Ready(ids)) : e.ev.id = id
<1> DEFINE S == {i \in DOMAIN ids : loads[ids[i]].cb # NoCallback}
           mine == At(ids, S)
           items == Ready(ids)
<1>1. items = [k \in DOMAIN mine |-> Item(loads[mine[k]].cb, Event("load", mine[k], "ready", 0))]
  BY DEF Ready
<1>2. ToSet(mine) = {ids[i] : i \in S}
  BY AtIs DEF LoadNames
<1>3. ToSet(mine) = ToSet(ids) \cap LoadsCalled
  <2>1. ToSet(ids) \subseteq DOMAIN loads  BY DEF LoadNames
  <2> QED  BY <1>2, <2>1 DEF ToSet, LoadsCalled
<1> HIDE DEF mine, items
<1>4. \A k \in DOMAIN items : /\ items[k].cb = loads[mine[k]].cb
                              /\ items[k].ev.of = "load" /\ items[k].ev.id = mine[k]
                              /\ items[k].ev.n = 0
  BY <1>1 DEF Item, Event
<1>5. DOMAIN items = DOMAIN mine
  BY <1>1
<1>6. \A k \in DOMAIN items : mine[k] \in ToSet(mine) /\ items[k] \in ToSet(items)
  BY <1>5 DEF ToSet
<1>7. ASSUME NEW e \in ToSet(items)
      PROVE  /\ e.ev.n = 0 /\ SourceOf(e.ev) = "load"
             /\ e.ev.id \in ToSet(ids) \cap LoadsCalled /\ e.cb = loads[e.ev.id].cb
  <2>1. PICK k \in DOMAIN items : e = items[k]  BY DEF ToSet
  <2>2. e.cb = loads[mine[k]].cb /\ e.ev.of = "load" /\ e.ev.id = mine[k] /\ e.ev.n = 0
    BY <1>4, <2>1
  <2>3. mine[k] \in ToSet(ids) \cap LoadsCalled  BY <1>3, <1>6
  <2>4. SourceOf(e.ev) = "load"  BY <2>2 DEF SourceOf
  <2> QED  BY <2>2, <2>3, <2>4
<1>8. ASSUME NEW id \in ToSet(ids) \cap LoadsCalled
      PROVE  \E e \in ToSet(items) : e.ev.id = id
  <2>1. PICK k \in DOMAIN mine : id = mine[k]  BY <1>3 DEF ToSet
  <2> QED  BY <1>4, <1>5, <1>6, <2>1
<1> QED  BY <1>7, <1>8 DEF items

\* A frame polls, uploads and tells.
LEMMA ResourcesFrameServes ==
    ASSUME AnswersInv, LoadOnceInv, UploadInv, ResourcesFrame
    PROVE  Serves({"load"}) /\ LoadOnceInv' /\ UploadInv'
<1>1. /\ OwnInv /\ FrameInv /\ Ordered /\ ClaimInv /\ LoadDue /\ LoadLineInv /\ LoadSeqs
  BY DEF AnswersInv, RealtimeInv, HandleInv, ServiceInv, DuesInv, LoadOk
<1>2. /\ UNCHANGED <<next_id, registry, deferred, retired, stack, own, called, loads>>
  BY <1>1, ResourcesFrameIs
<1>3. PICK told : TellsLoads(told) /\ LosesNone(told)
  BY <1>1, ResourcesFrameTells
<1> DEFINE items == Ready(told)
           T == TalesIn(ToSet(items))
<1>4. /\ LoadNames(told) /\ Distinct(told) /\ ToSet(told) \subseteq Loading
      /\ queue' = queue \o items
      /\ Loading' \subseteq Loading /\ Loading' \cap ToSet(told) = {}
  BY <1>3 DEF TellsLoads
<1>5. /\ \A e \in ToSet(items) :
            /\ e.ev.n = 0 /\ SourceOf(e.ev) = "load"
            /\ e.ev.id \in ToSet(told) \cap LoadsCalled /\ e.cb = loads[e.ev.id].cb
      /\ \A id \in ToSet(told) \cap LoadsCalled : \E e \in ToSet(items) : e.ev.id = id
  BY <1>4, ReadyTells
<1>6. IsSeq(items)
  BY <1>4, ReadyIs
<1> HIDE DEF items
<1>7. Tells(TalesIn(ToSet(items))) /\ SshAside
  BY <1>1, <1>2, <1>4, <1>6, PostingTells DEF FrameInv
<1>8. Leaves({"load"}) /\ Leaves({})
  BY <1>2, RestingLeaves
<1>9. Serves({"load"})
  <2>1. \A e \in ToSet(items) : SourceOf(e.ev) \in {"load"}  BY <1>5
  <2> QED  BY <1>7, <1>8, <2>1, ServesIs
<1>10. Alive' = Alive
  BY <1>2 DEF Alive
<1>11. \A x \in T : /\ x.ev.n = 0 /\ x.cb \in Alive' /\ SourceOf(x.ev) = "load"
                    /\ x.ev.id \in ToSet(told) \cap LoadsCalled
  <2>1. \A x \in T : \E e \in ToSet(items) : x.cb = e.cb /\ x.ev = e.ev  BY DEF TalesIn, Item
  <2> QED  BY <1>5, <1>10, <2>1 DEF LoadOnceInv
<1>12. \A id \in ToSet(told) \cap LoadsCalled : \E x \in T : x.ev.id = id
  <2>1. \A e \in ToSet(items) : Item(e.cb, e.ev) \in T /\ Item(e.cb, e.ev).ev = e.ev
    BY DEF TalesIn, Item
  <2> QED  BY <1>5, <2>1
<1> HIDE DEF T
<1>13. /\ Answering("load")'
       /\ IdsTold("load")' = IdsTold("load") \cup {x.ev.id : x \in {x \in T : SourceOf(x.ev) = "load"}}
  <2>1. "load" \in Secure /\ "load" \notin {} /\ Answering("load") /\ Tells(T)
    BY <1>7 DEF Secure, LoadOnceInv, T
  <2>2. \A x \in T : SourceOf(x.ev) = "load" => x.ev.n = 0 /\ x.cb \in Alive'  BY <1>11
  <2> QED  BY <1>8, <2>1, <2>2, AnsweringGrows
<1>14. {x.ev.id : x \in {x \in T : SourceOf(x.ev) = "load"}} = ToSet(told) \cap LoadsCalled
  BY <1>11, <1>12
<1>15. /\ load_failed \subseteq load_failed' /\ load_failed' \subseteq load_failed \cup Loading
       /\ (load_failed' \ load_failed) \cap (Loading' \cup ToSet(told)) = {}
       /\ Loading \subseteq Loading' \cup ToSet(told) \cup load_failed'
  BY <1>3 DEF LosesNone
<1>16. /\ load_failed \cap (Loading \cup IdsTold("load")) = {} /\ load_failed \subseteq DOMAIN loads
       /\ Loading \cap IdsTold("load") = {}
       /\ LoadsCalled \subseteq Loading \cup load_failed \cup IdsTold("load")
       /\ Len(loads) <= MaxLoads /\ \A id \in LoadsCalled : loads[id].cb \in Alive
  BY DEF LoadOnceInv
<1>17. Loading \subseteq DOMAIN loads
  BY <1>1 DEF Loading, LoadSeqs, LoadNames
<1>18. LoadsCalled' = LoadsCalled
  BY <1>2 DEF LoadsCalled
<1>19. load_failed' \cap (Loading' \cup IdsTold("load")') = {}
  BY <1>4, <1>13, <1>14, <1>15, <1>16
<1>20. Loading' \cap IdsTold("load")' = {} /\ load_failed' \subseteq DOMAIN loads
  BY <1>4, <1>13, <1>14, <1>15, <1>16, <1>17
<1>21. LoadsCalled' \subseteq Loading' \cup load_failed' \cup IdsTold("load")'
  BY <1>13, <1>14, <1>15, <1>16, <1>18
<1>22. /\ (Len(loads) <= MaxLoads)' /\ (\A id \in LoadsCalled : loads[id].cb \in Alive)'
       /\ (load_failed \subseteq DOMAIN loads)'
  BY <1>2, <1>10, <1>16, <1>18, <1>20
<1>23. LoadOnceInv'
  BY <1>13, <1>19, <1>20, <1>21, <1>22 DEF LoadOnceInv
<1>24. UploadInv'
  BY <1>1, <1>16, FrameUploads
<1> QED  BY <1>9, <1>23, <1>24

LEMMA LoadAsyncServes ==
    ASSUME AnswersInv, RegistryInv, LoadOnceInv, UploadInv,
           NEW kind, NEW name \in TextureNames, NEW with \in BOOLEAN, LoadAsync(kind, name, with)
    PROVE  Serves({"load"}) /\ LoadOnceInv' /\ UploadInv'
<1> DEFINE cb == IF with THEN next_id ELSE NoCallback
           load == [kind |-> kind, name |-> name, cb |-> cb]
           add == IF with THEN 1 ELSE 0
<1>1. /\ OwnInv /\ FrameInv /\ Ordered /\ ClaimInv /\ LoadDue /\ LoadLineInv /\ LoadSeqs
  BY DEF AnswersInv, RealtimeInv, HandleInv, ServiceInv, DuesInv, LoadOk
<1>2. PICK n : n = Len(loads) + 1
  OBVIOUS
<1>3. /\ Reregister({}, add) /\ Len(loads) < MaxLoads
      /\ loads' = Append(loads, load)
      /\ pending_loads' = pending_loads \cup {n}
      /\ textures' = IF kind \in {"file", "bytes"}
                     THEN [textures EXCEPT ![name].ready = FALSE] ELSE textures
      /\ UNCHANGED <<queue, stack, own, called, load_failed, load_results, cubemaps,
                     texture_uploads, cubemap_uploads>>
  BY <1>2 DEF LoadAsync
<1>4. load.cb = cb /\ load.name = name /\ add \in {0, 1}
      /\ (cb # NoCallback => with /\ cb = next_id) /\ (with => add = 1)
  OBVIOUS
<1> HIDE DEF load, add, cb
<1>5. /\ IsSeq(loads) /\ Len(loads) \in Nat /\ DOMAIN loads = 1..Len(loads)
      /\ n \in Nat /\ n \notin DOMAIN loads
  BY <1>1, <1>2, SeqIs DEF LoadSeqs
<1>6. /\ Len(loads') = n /\ loads'[n] = load
      /\ \A i \in DOMAIN loads : loads'[i] = loads[i]
      /\ DOMAIN loads' = DOMAIN loads \cup {n}
  <2>1. /\ IsSeq(Append(loads, load)) /\ Len(Append(loads, load)) = Len(loads) + 1
        /\ Append(loads, load)[Len(loads) + 1] = load
        /\ \A i \in 1..Len(loads) : Append(loads, load)[i] = loads[i]
    BY <1>5, AppendIs
  <2>2. DOMAIN loads' = 1..Len(loads')  BY <1>3, <2>1, SeqIs
  <2> QED  BY <1>2, <1>3, <1>5, <2>1, <2>2
<1>7. Dropping({}, {"load"}) /\ Dropping({}, {})
  BY DEF Dropping
<1>8. Serves({"load"})
  BY <1>1, <1>3, <1>4, <1>7, ReregisterServes
<1>9. Leaves({}) /\ (add = 1 => next_id \in Alive')
  BY <1>1, <1>3, <1>4, <1>7, ReregisterLeaves
<1>10. Tells({})
  BY <1>3, StayingTells
<1>11. Answering("load")' /\ IdsTold("load")' = IdsTold("load")
  <2>1. "load" \in Secure /\ "load" \notin {} /\ Answering("load") /\ \A x \in {} : SourceOf(x.ev) # "load"
    BY DEF Secure, LoadOnceInv
  <2> QED  BY <1>9, <1>10, <2>1, AnsweringStays
<1>12. /\ load_failed \cap (Loading \cup IdsTold("load")) = {} /\ load_failed \subseteq DOMAIN loads
       /\ Loading \cap IdsTold("load") = {}
       /\ LoadsCalled \subseteq Loading \cup load_failed \cup IdsTold("load")
       /\ \A id \in LoadsCalled : loads[id].cb \in Alive
  BY DEF LoadOnceInv
<1>13. n \notin IdsTold("load")
  <2> SUFFICES ASSUME n \in IdsTold("load") PROVE FALSE  OBVIOUS
  <2>1. PICK x \in Tales : SourceOf(x.ev) = "load" /\ x.ev.id = n  BY DEF IdsTold, TalesOf
  <2>2. Claim(x.cb, "load", n) \in Claims  BY <2>1, TalesAre
  <2>3. Exists("load", n)  BY <1>1, <2>2, ClaimIs DEF ClaimInv
  <2> QED  BY <1>5, <2>3 DEF Exists
<1>14. Loading' = Loading \cup {n}
  BY <1>3 DEF Loading
<1>15. LoadsCalled' \subseteq LoadsCalled \cup {n}
  BY <1>5, <1>6 DEF LoadsCalled
<1>16. (\A id \in LoadsCalled : loads[id].cb \in Alive)'
  <2>1. ASSUME NEW id \in LoadsCalled' PROVE loads'[id].cb \in Alive'
    <3>1. CASE id \in LoadsCalled
      <4>1. loads'[id] = loads[id] /\ id \in DOMAIN loads /\ loads[id].cb # NoCallback
        BY <1>6, <3>1 DEF LoadsCalled
      <4>2. Claim(loads[id].cb, "load", id) \in Tables  BY <4>1 DEF Tables, LoadClaims
      <4> QED  BY <1>9, <1>12, <3>1, <4>1, <4>2, TableStays
    <3>2. CASE id = n
      <4>1. loads'[n].cb = cb /\ cb # NoCallback  BY <1>4, <1>6, <2>1, <3>2 DEF LoadsCalled
      <4> QED  BY <1>4, <1>9, <3>2, <4>1
    <3> QED  BY <1>15, <2>1, <3>1, <3>2
  <2> QED  BY <2>1
<1>17. Len(loads') <= MaxLoads
  BY <1>2, <1>3, <1>5, <1>6, LoadBounds
<1>18. LoadOnceInv'
  <2>1. /\ (load_failed \cap (Loading \cup IdsTold("load")) = {})' /\ (load_failed \subseteq DOMAIN loads)'
        /\ (Loading \cap IdsTold("load") = {})'
        /\ (LoadsCalled \subseteq Loading \cup load_failed \cup IdsTold("load"))'
    BY <1>3, <1>5, <1>6, <1>11, <1>12, <1>13, <1>14, <1>15
  <2> QED  BY <1>11, <1>16, <1>17, <2>1 DEF LoadOnceInv
<1>19. /\ DOMAIN textures = TextureNames /\ DOMAIN cubemaps = Loads
       /\ \A id \in DOMAIN loads : loads[id].name \in TextureNames
       /\ ToSet(texture_uploads) \cup ToSet(cubemap_uploads) \subseteq DOMAIN loads
       /\ GoesOn(textures, NameOf, ToSet(texture_uploads))
       /\ GoesOn(cubemaps, Itself, ToSet(cubemap_uploads))
  BY DEF UploadInv
<1>20. \A id \in DOMAIN loads : NameOf'[id] = NameOf[id] /\ Itself'[id] = Itself[id]
  BY <1>6 DEF NameOf, Itself
<1>21. /\ DOMAIN textures' = TextureNames
       /\ \A m \in TextureNames : /\ textures'[m] \in TextureRecords
                                  /\ textures'[m].uploading = textures[m].uploading
                                  /\ textures'[m].pixels = textures[m].pixels
  <2>1. \A m \in TextureNames : textures[m] \in TextureRecords  BY <1>19 DEF GoesOn
  <2>2. CASE kind \notin {"file", "bytes"}  BY <1>3, <1>19, <2>1, <2>2
  <2>3. CASE kind \in {"file", "bytes"}
    <3>1. textures' = [textures EXCEPT ![name] = [@ EXCEPT !.ready = FALSE]]  BY <1>3, <2>3
    <3>2. /\ DOMAIN textures' = TextureNames /\ textures'[name] = [textures[name] EXCEPT !.ready = FALSE]
          /\ \A m \in TextureNames \ {name} : textures'[m] = textures[m]
      BY <1>19, <3>1
    <3>3. \A t \in TextureRecords : /\ [t EXCEPT !.ready = FALSE] \in TextureRecords
                                    /\ [t EXCEPT !.ready = FALSE].uploading = t.uploading
                                    /\ [t EXCEPT !.ready = FALSE].pixels = t.pixels
      BY DEF TextureRecords
    <3>4. PICK t : t = [textures[name] EXCEPT !.ready = FALSE]  OBVIOUS
    <3>5. /\ t \in TextureRecords /\ t.uploading = textures[name].uploading
          /\ t.pixels = textures[name].pixels
      BY <2>1, <3>3, <3>4
    <3>6. \A m \in TextureNames : textures'[m] = IF m = name THEN t ELSE textures[m]  BY <3>2, <3>4
    <3> QED  BY <2>1, <3>2, <3>5, <3>6
  <2> QED  BY <2>2, <2>3
<1>22. GoesOn(textures', NameOf', ToSet(texture_uploads))
  BY <1>19, <1>20, <1>21 DEF GoesOn
<1>23. GoesOn(cubemaps, Itself', ToSet(cubemap_uploads))
  BY <1>19, <1>20 DEF GoesOn
<1>24. \A id \in DOMAIN loads' : loads'[id].name \in TextureNames
  BY <1>4, <1>6, <1>19
<1>25. UploadInv'
  BY <1>3, <1>6, <1>19, <1>21, <1>22, <1>23, <1>24 DEF UploadInv
<1> QED  BY <1>8, <1>18, <1>25

LEMMA LoadsServe ==
    ASSUME AnswersInv, RegistryInv, LoadOnceInv, UploadInv,
           \/ \E kind : \E name \in TextureNames, with \in BOOLEAN : LoadAsync(kind, name, with)
           \/ \E x : ChangeTexture(x) \/ ChangeCubemap(x)
           \/ \E id \in Loads, ok \in BOOLEAN : LoadFinish(id, ok)
           \/ ResourcesFrame
    PROVE  Serves({"load"}) /\ LoadOnceInv' /\ UploadInv'
<1>1. ASSUME NEW kind, NEW name \in TextureNames, NEW with \in BOOLEAN, LoadAsync(kind, name, with)
      PROVE  Serves({"load"}) /\ LoadOnceInv' /\ UploadInv'
  BY <1>1, LoadAsyncServes
<1>2. ASSUME UNCHANGED <<cbVars, loads, load_failed, pending_loads, texture_uploads, cubemap_uploads>>
      PROVE  Serves({"load"}) /\ LoadOnceInv'
  <2>1. UNCHANGED <<registry, deferred, retired, queue, stack, called>>  BY <1>2 DEF cbVars
  <2>2. Tells({}) /\ Leaves({})  BY <2>1, StayingTells, RestingLeaves
  <2>3. Serves({"load"})  BY <2>1, RestServes
  <2>4. "load" \notin {} /\ \A x \in {} : SourceOf(x.ev) # "load"  OBVIOUS
  <2> QED  BY <1>2, <2>2, <2>3, <2>4, LoadsStayOnce
<1>3. ASSUME NEW x, ChangeTexture(x)
      PROVE  Serves({"load"}) /\ LoadOnceInv' /\ UploadInv'
  <2>1. PICK t \in {LoadedAtOnce, Allocated(textures[x]), Updated(textures[x]), NewTexture} :
           textures' = [textures EXCEPT ![x] = t]
    BY <1>3 DEF ChangeTexture
  <2>2. UNCHANGED <<cbVars, loads, load_failed, pending_loads, cubemaps, texture_uploads, cubemap_uploads>>
    BY <1>3 DEF ChangeTexture
  <2>3. \A n \in TextureNames : textures[n] \in TextureRecords  BY DEF UploadInv, GoesOn
  <2>4. DOMAIN textures = TextureNames /\ GoesOn(textures, NameOf, ToSet(texture_uploads))
    BY DEF UploadInv
  <2>5. DOMAIN textures' = TextureNames
        /\ \A n \in TextureNames : textures'[n] = IF n = x THEN t ELSE textures[n]
    BY <2>1, <2>4
  <2>6. x \in TextureNames =>
           /\ t \in TextureRecords
           /\ t.uploading => textures[x].uploading /\ t.pixels = textures[x].pixels
    <3>1. ASSUME x \in TextureNames
          PROVE  /\ t \in TextureRecords
                 /\ t.uploading => textures[x].uploading /\ t.pixels = textures[x].pixels
      <4>1. textures[x] \in TextureRecords  BY <2>3, <3>1
      <4>2. CASE t = LoadedAtOnce \/ t = NewTexture  BY <4>2, TexturesAre
      <4>3. CASE t = Allocated(textures[x])  BY <4>1, <4>3, TexturesAre
      <4>4. CASE t = Updated(textures[x])  BY <4>1, <4>4, TexturesAre
      <4> QED  BY <2>1, <4>2, <4>3, <4>4
    <3> QED  BY <3>1
  <2>7. GoesOn(textures', NameOf, ToSet(texture_uploads))  BY <2>4, <2>5, <2>6 DEF GoesOn
  <2>8. NameOf' = NameOf /\ Itself' = Itself  BY <2>2 DEF NameOf, Itself
  <2>9. UploadInv'  BY <2>2, <2>5, <2>7, <2>8 DEF UploadInv
  <2> QED  BY <1>2, <2>2, <2>9
<1>4. ASSUME NEW x, ChangeCubemap(x)
      PROVE  Serves({"load"}) /\ LoadOnceInv' /\ UploadInv'
  <2>1. PICK t \in {NewTexture, [cubemaps[x] EXCEPT !.ready = TRUE]} :
           cubemaps' = [cubemaps EXCEPT ![x] = t]
    BY <1>4 DEF ChangeCubemap
  <2>2. UNCHANGED <<cbVars, loads, load_failed, pending_loads, textures, texture_uploads, cubemap_uploads>>
    BY <1>4 DEF ChangeCubemap
  <2>3. \A n \in Loads : cubemaps[n] \in TextureRecords  BY DEF UploadInv, GoesOn
  <2>4. DOMAIN cubemaps = Loads /\ GoesOn(cubemaps, Itself, ToSet(cubemap_uploads))
    BY DEF UploadInv
  <2>5. DOMAIN cubemaps' = Loads
        /\ \A n \in Loads : cubemaps'[n] = IF n = x THEN t ELSE cubemaps[n]
    BY <2>1, <2>4
  <2>6. x \in Loads =>
           /\ t \in TextureRecords
           /\ t.uploading => cubemaps[x].uploading /\ t.pixels = cubemaps[x].pixels
    <3>1. ASSUME x \in Loads
          PROVE  /\ t \in TextureRecords
                 /\ t.uploading => cubemaps[x].uploading /\ t.pixels = cubemaps[x].pixels
      <4>1. cubemaps[x] \in TextureRecords  BY <2>3, <3>1
      <4>2. CASE t = NewTexture  BY <4>2, TexturesAre
      <4>3. CASE t = [cubemaps[x] EXCEPT !.ready = TRUE]  BY <4>1, <4>3, TexturesAre
      <4> QED  BY <2>1, <4>2, <4>3
    <3> QED  BY <3>1
  <2>7. GoesOn(cubemaps', Itself, ToSet(cubemap_uploads))  BY <2>4, <2>5, <2>6 DEF GoesOn
  <2>8. NameOf' = NameOf /\ Itself' = Itself  BY <2>2 DEF NameOf, Itself
  <2>9. UploadInv'  BY <2>2, <2>5, <2>7, <2>8 DEF UploadInv
  <2> QED  BY <1>2, <2>2, <2>9
<1>5. ASSUME NEW id \in Loads, NEW ok \in BOOLEAN, LoadFinish(id, ok)
      PROVE  Serves({"load"}) /\ LoadOnceInv' /\ UploadInv'
  <2>1. UNCHANGED <<cbVars, loads, load_failed, pending_loads, textures, cubemaps,
                    texture_uploads, cubemap_uploads>>
    BY <1>5 DEF LoadFinish
  <2> QED  BY <1>2, <2>1, UploadsStay
<1>6. CASE ResourcesFrame
  BY <1>6, ResourcesFrameServes
<1> QED  BY <1>1, <1>3, <1>4, <1>5, <1>6

-----------------------------------------------------------------------------
(* The steps of the runtime together.                                      *)

LEMMA AnswersHaveNumbers ==
    ASSUME Once
    PROVE  NumberInv
<1>1. \A of \in {"http", "job", "process", "load"} : \A x \in TalesOf(of) : x.ev.n = 0
  BY DEF Once, HttpOnceInv, JobOnceInv, ProcOnceInv, LoadOnceInv, Answering
<1> QED  BY <1>1 DEF NumberInv, Single, TalesOf

LEMMA ScriptOnce ==
    ASSUME AnswersInv, AnswersInv', RegistryInv, Once, Script
    PROVE  Once'
<1>1. OwnInv /\ FrameInv /\ Ordered /\ ClaimInv
  BY DEF AnswersInv, RealtimeInv, HandleInv, DuesInv
<1>2. HttpOnceInv /\ JobOnceInv /\ SshOnceInv /\ ProcOnceInv /\ LoadOnceInv /\ UploadInv
  BY DEF Once
<1>3. CASE /\ CallbacksOnly
           /\ \/ ScriptRegister
              \/ \E cb \in own : ScriptUnregister(cb)
              \/ \E cb \in own : ScriptEnqueue(cb, Event("script", 0, "call", 9 - left["enqueue"]))
  <2>1. Serves({"script"})  BY <1>1, <1>3, CallbacksServe
  <2> QED  BY <1>3, <2>1, ModuleServes
<1>4. CASE /\ HttpOnly
           /\ \/ \E kind \in {"stream", "callback", "plain"} : HttpRequest(kind)
              \/ \E id \in 1..(http_next - 1) : HttpCancelCall(id)
              \/ \E max \in {0, 1} : HttpPollCall(max)
  <2>1. Serves({"http", "stream"}) /\ HttpOnceInv'  BY <1>2, <1>4, HttpServe
  <2> QED  BY <1>4, <2>1, ModuleServes
<1>5. CASE /\ JobsOnly
           /\ \/ \E with \in BOOLEAN : JobSubmit(with)
              \/ \E max \in {0, 1} : JobsPollCall(max)
  <2>1. Serves({"job"}) /\ JobOnceInv'  BY <1>2, <1>5, JobsServe
  <2> QED  BY <1>5, <2>1, ModuleServes
<1>6. CASE /\ SshOnly
           /\ \/ \E with \in BOOLEAN : SshStart(with)
              \/ \E max \in {0, 1} : SshPollCall(max)
  <2>1. Serves({"ssh"}) /\ SshOnceInv'  BY <1>2, <1>6, SshServe
  <2> QED  BY <1>6, <2>1, ModuleServes
<1>7. CASE ProcessOnly /\ \E with, timed \in BOOLEAN : ProcessSpawn(with, timed)
  <2>1. Serves({"process"}) /\ ProcOnceInv'  BY <1>2, <1>7, ProcessesServe
  <2> QED  BY <1>7, <2>1, ModuleServes
<1>8. CASE /\ RealtimeOnly
           /\ \/ \E name : RtSet(name)
              \/ RtStart
              \/ \E dispatch : RtClose(dispatch)
  <2>1. Serves({"realtime"})  BY <1>1, <1>8, RealtimeServes
  <2> QED  BY <1>8, <2>1, ModuleServes
<1>9. CASE /\ TexturesOnly
           /\ \/ \E kind : \E name \in TextureNames, with \in BOOLEAN : LoadAsync(kind, name, with)
              \/ \E x : ChangeTexture(x) \/ ChangeCubemap(x)
  <2>1. Serves({"load"}) /\ LoadOnceInv' /\ UploadInv'  BY <1>2, <1>9, LoadsServe
  <2> QED  BY <1>9, <2>1, ModuleServes
<1> QED  BY <1>3, <1>4, <1>5, <1>6, <1>7, <1>8, <1>9 DEF Script

LEMMA ScriptWithChildrenOnce ==
    ASSUME AnswersInv, RegistryInv, Once, ScriptWithChildren
    PROVE  Once'
<1>1. /\ ProcessOnly
      /\ \/ \E late, id : ProcessRead(id, late) \/ ProcessWait(id, late)
         \/ \E max, late, gone : ProcessPollCall(max, late, gone)
  BY DEF ScriptWithChildren
<1>2. Serves({"process"}) /\ ProcOnceInv'
  BY <1>1, ProcessesServe DEF Once
<1> QED  BY <1>1, <1>2, ModuleServes

LEMMA FramesOnce ==
    ASSUME AnswersInv, AnswersInv', RegistryInv, Once, Frames
    PROVE  Once'
<1>1. OwnInv /\ FrameInv /\ Ordered /\ ClaimInv
  BY DEF AnswersInv, RealtimeInv, HandleInv, DuesInv
<1>2. HttpOnceInv /\ JobOnceInv /\ SshOnceInv /\ ProcOnceInv /\ LoadOnceInv /\ UploadInv
  BY DEF Once
<1>3. CASE HttpDispatch /\ HttpOnly
  <2>1. Serves({"http", "stream"}) /\ HttpOnceInv'  BY <1>2, <1>3, HttpServe
  <2> QED  BY <1>3, <2>1, ModuleServes
<1>4. CASE JobsDispatch /\ JobsOnly
  <2>1. Serves({"job"}) /\ JobOnceInv'  BY <1>2, <1>4, JobsServe
  <2> QED  BY <1>4, <2>1, ModuleServes
<1>5. CASE SshDispatch /\ SshOnly
  <2>1. Serves({"ssh"}) /\ SshOnceInv'  BY <1>2, <1>5, SshServe
  <2> QED  BY <1>5, <2>1, ModuleServes
<1>6. CASE /\ ProcessOnly
           /\ \E late : \E order \in UNION {[1..n -> Processes] : n \in 0..MaxProcesses} :
                 ProcessDispatch(late, order)
  <2>1. Serves({"process"}) /\ ProcOnceInv'  BY <1>2, <1>6, ProcessesServe
  <2> QED  BY <1>6, <2>1, ModuleServes
<1>7. CASE (\E max \in {0, 1} : ScriptDispatch(max)) /\ CallbacksOnly
  <2>1. Serves({"script"})  BY <1>1, <1>7, CallbacksServe
  <2> QED  BY <1>7, <2>1, ModuleServes
<1>8. CASE ResourcesFrame /\ TexturesOnly
  <2>1. Serves({"load"}) /\ LoadOnceInv' /\ UploadInv'  BY <1>2, <1>8, LoadsServe
  <2> QED  BY <1>8, <2>1, ModuleServes
<1> QED  BY <1>3, <1>4, <1>5, <1>6, <1>7, <1>8 DEF Frames

LEMMA ContinueOnce ==
    ASSUME AnswersInv, RegistryInv, Once, Continue
    PROVE  Once'
<1>1. OwnInv /\ FrameInv /\ Ordered /\ ClaimInv
  BY DEF AnswersInv, RealtimeInv, HandleInv, DuesInv
<1>2. CASE (CallNext \/ EndDispatch) /\ CallbacksOnly
  <2>1. Serves({"script"})  BY <1>1, <1>2, CallbacksServe
  <2> QED  BY <1>2, <2>1, ModuleServes
<1>3. CASE (SshHandle \/ SshHandled \/ SshDispatched) /\ SshOnly
  <2>1. Serves({"ssh"}) /\ SshOnceInv'  BY <1>3, SshServe DEF Once
  <2> QED  BY <1>3, <2>1, ModuleServes
<1>4. CASE (RtJoined \/ RtDrain \/ RtClosed) /\ RealtimeOnly
  <2>1. Serves({"realtime"})  BY <1>1, <1>4, RealtimeServes
  <2> QED  BY <1>4, <2>1, ModuleServes
<1> QED  BY <1>2, <1>3, <1>4 DEF Continue

LEMMA ThreadsOnce ==
    ASSUME AnswersInv, AnswersInv', RegistryInv, Once, Threads
    PROVE  Once'
<1>1. OwnInv /\ FrameInv /\ Ordered /\ ClaimInv
  BY DEF AnswersInv, RealtimeInv, HandleInv, DuesInv
<1>2. HttpOnceInv /\ JobOnceInv /\ SshOnceInv /\ ProcOnceInv /\ LoadOnceInv /\ UploadInv
  BY DEF Once
<1>3. CASE /\ HttpOnly
           /\ \E t \in HttpThreads :
                \/ HttpStreamChunk(t)
                \/ /\ \/ HttpTake(t) \/ HttpForget(t) \/ HttpExit(t)
                      \/ \E result \in {"ok", "error"} : HttpAnswer(t, result)
                   /\ UNCHANGED <<cbVars, lhVars>>
  <2>1. Serves({"http", "stream"}) /\ HttpOnceInv'  BY <1>2, <1>3, HttpServe
  <2> QED  BY <1>3, <2>1, ModuleServes
<1>4. CASE (\E id \in Jobs : JobFinish(id)) /\ JobsOnly
  <2>1. Serves({"job"}) /\ JobOnceInv'  BY <1>2, <1>4, JobsServe
  <2> QED  BY <1>4, <2>1, ModuleServes
<1>5. CASE (\E op \in Ops, last \in BOOLEAN : SshEmit(op, last)) /\ SshOnly
  <2>1. Serves({"ssh"}) /\ SshOnceInv'  BY <1>2, <1>5, SshServe
  <2> QED  BY <1>5, <2>1, ModuleServes
<1>6. CASE (\E id \in Processes : ChildExit(id)) /\ ProcessOnly
  <2>1. Serves({"process"}) /\ ProcOnceInv'  BY <1>2, <1>6, ProcessesServe
  <2> QED  BY <1>6, <2>1, ModuleServes
<1>7. CASE (\E id \in Loads, ok \in BOOLEAN : LoadFinish(id, ok)) /\ TexturesOnly
  <2>1. Serves({"load"}) /\ LoadOnceInv' /\ UploadInv'  BY <1>2, <1>7, LoadsServe
  <2> QED  BY <1>7, <2>1, ModuleServes
<1>8. CASE ((\E name : RtTell(name)) \/ RtPost \/ RtExit) /\ RealtimeOnly
  <2>1. Serves({"realtime"})  BY <1>1, <1>8, RealtimeServes
  <2> QED  BY <1>8, <2>1, ModuleServes
<1> QED  BY <1>3, <1>4, <1>5, <1>6, <1>7, <1>8 DEF Threads

LEMMA OnceInvNext == OnceInv /\ AnswersInv /\ AnswersInv' /\ RegistryInv /\ [Next]_vars => OnceInv'
<1> SUFFICES ASSUME OnceInv, AnswersInv, AnswersInv', RegistryInv, [Next]_vars, up' PROVE Once'
  BY DEF OnceInv
<1>1. CASE EngineShutdown
  BY <1>1 DEF EngineShutdown
<1>2. CASE RuntimeEnds
  BY <1>2 DEF RuntimeEnds, HttpOnly, RealtimeOnly
<1>3. CASE UNCHANGED vars
  <2>1. UNCHANGED <<cbVars, hcVars, lhVars, ljVars, lsVars, lpVars, lrVars, ltVars, left, up>>
    BY <1>3 DEF vars
  <2>2. up /\ Once /\ CallbacksOnly  BY <2>1 DEF OnceInv, CallbacksOnly
  <2>3. UNCHANGED <<registry, deferred, retired, queue, stack, called>>  BY <2>1 DEF cbVars
  <2>4. Serves({"script"})  BY <2>3, RestServes
  <2> QED  BY <2>2, <2>4, ModuleServes
<1>4. CASE Script
  <2>1. Once  BY <1>4 DEF OnceInv, Script
  <2> QED  BY <1>4, <2>1, ScriptOnce
<1>5. CASE ScriptWithChildren
  <2>1. Once  BY <1>5 DEF OnceInv, ScriptWithChildren
  <2> QED  BY <1>5, <2>1, ScriptWithChildrenOnce
<1>6. CASE Frames
  <2>1. Once  BY <1>6 DEF OnceInv, Frames
  <2> QED  BY <1>6, <2>1, FramesOnce
<1>7. CASE Continue
  <2>1. up' = up  BY <1>7 DEF Continue, CallbacksOnly, SshOnly, RealtimeOnly
  <2>2. Once  BY <2>1 DEF OnceInv
  <2> QED  BY <1>7, <2>2, ContinueOnce
<1>8. CASE Threads
  <2>1. up' = up
    BY <1>8 DEF Threads, HttpOnly, JobsOnly, SshOnly, ProcessOnly, TexturesOnly, RealtimeOnly
  <2>2. Once  BY <2>1 DEF OnceInv
  <2> QED  BY <1>8, <2>2, ThreadsOnce
<1> QED  BY <1>1, <1>2, <1>3, <1>4, <1>5, <1>6, <1>7, <1>8 DEF Next

LEMMA OnceInvInit == Init => OnceInv
<1> SUFFICES ASSUME Init PROVE Once
  BY DEF OnceInv
<1>1. /\ queue = <<>> /\ stack = <<>> /\ called = [cb \in Callbacks |-> <<>>]
      /\ http_next = 1 /\ http_pending = <<>> /\ performing = [t \in HttpThreads |-> Idle]
      /\ completed = <<>> /\ callback_ids = <<>> /\ stream_callback_ids = <<>>
      /\ buffered = <<>> /\ polled = <<>>
  BY DEF Init, CbInit, HcInit, LhInit
<1>2. /\ phase = [id \in Jobs |-> "unborn"] /\ job_results = <<>> /\ job_callbacks = <<>>
      /\ buffered_results = <<>> /\ job_polled = <<>>
      /\ emitted = [op \in Ops |-> 0] /\ ssh_queue = <<>> /\ callback_by_operation = <<>>
      /\ buffered_events = <<>> /\ ssh_polled = <<>> /\ op_callback = [op \in Ops |-> NoCallback]
  BY DEF Init, LjInit, Pool!Init, Pool!Ids, Jobs, LsInit
<1>3. /\ proc_next = 1 /\ processes = <<>> /\ proc_callback = [id \in Processes |-> NoCallback]
      /\ proc_given = [id \in Processes |-> 0]
      /\ loads = <<>> /\ load_failed = {} /\ pending_loads = {}
      /\ textures = [name \in TextureNames |-> NewTexture]
      /\ cubemaps = [id \in Loads |-> NewTexture]
      /\ texture_uploads = <<>> /\ cubemap_uploads = <<>>
  BY DEF Init, LpInit, LtInit
<1>4. DOMAIN <<>> = {} /\ ToSet(<<>>) = {} /\ IsSeq(<<>>) /\ Len(<<>>) = 0
  BY EmptyIsSeq DEF ToSet
<1>5. BatchesOf(stack) = {} /\ SshBatchesOf(stack) = {} /\ Tales = {}
  <2>1. BatchesOf(stack) = {} /\ SshBatchesOf(stack) = {}  BY <1>1, <1>4 DEF BatchesOf, SshBatchesOf
  <2>2. HeardIn(called) = {}
    <3>1. \A cb \in Callbacks : called[cb] = <<>>  BY <1>1
    <3> QED  BY <1>4, <3>1 DEF HeardIn
  <2>3. AllItems = {}  BY <1>1, <1>4, <2>1, <2>2 DEF AllItems, AllIn, WaitsIn
  <2> QED  BY <2>1, <2>3 DEF Tales
<1>6. \A of : TalesOf(of) = {} /\ IdsTold(of) = {} /\ Answering(of)
  BY <1>5 DEF TalesOf, IdsTold, Answering
<1>7. HttpOnceInv
  <2>1. Given = {} /\ Queued = {}  BY <1>1, <1>4 DEF Given, Queued
  <2>2. Performing = {}
    <3>1. \A t \in HttpThreads : ~Performs(t)  BY <1>1 DEF Performs, Idle, Doing
    <3> QED  BY <3>1 DEF Performing
  <2>3. /\ DOMAIN callback_ids = {} /\ IsSeq(buffered) /\ IsSeq(polled)
        /\ DOMAIN buffered = {} /\ DOMAIN polled = {}
    BY <1>1, <1>4
  <2>4. IdsOf(completed) = {} /\ IdsOf(buffered) = {} /\ IdsOf(polled) = {}  BY <1>1, <1>4 DEF IdsOf
  <2>5. Parts6(Given, Queued, Performing, IdsOf(completed), IdsOf(buffered), IdsOf(polled),
               IdsTold("http"))
    BY <1>6, <2>1, <2>2, <2>4 DEF Parts6, Parts5, Parts4, Parts3, Parts2
  <2>6. Answering("http")  BY <1>6
  <2> QED  BY <2>3, <2>5, <2>6 DEF HttpOnceInv, DistinctIds
<1>8. JobOnceInv
  <2>1. {id \in Jobs : phase[id] = "delivered"} = {} /\ \A id \in Jobs : phase[id] # "finished"
    BY <1>2
  <2>2. /\ DOMAIN job_callbacks = {} /\ IsSeq(buffered_results) /\ IsSeq(job_polled)
        /\ DOMAIN buffered_results = {} /\ DOMAIN job_polled = {}
        /\ ToSet(buffered_results) = {} /\ ToSet(job_polled) = {}
    BY <1>2, <1>4
  <2>3. Parts3({id \in Jobs : phase[id] = "delivered"}, ToSet(buffered_results),
               ToSet(job_polled), IdsTold("job"))
    BY <1>6, <2>1, <2>2 DEF Parts3, Parts2
  <2>4. Answering("job")  BY <1>6
  <2> QED  BY <2>1, <2>2, <2>3, <2>4 DEF JobOnceInv, Distinct
<1>9. SshOnceInv
  <2>1. \A op \in Ops : op_callback[op] = NoCallback /\ emitted[op] = 0  BY <1>2
  <2>2. SshAliveInv  BY <1>5, <2>1 DEF SshAliveInv
  <2>3. /\ IsSeq(ssh_polled) /\ DOMAIN buffered_events = {} /\ DOMAIN ssh_polled = {}
        /\ ToSet(ssh_queue) = {} /\ ToSet(buffered_events) = {} /\ ToSet(ssh_polled) = {}
    BY <1>2, <1>4
  <2>4. PairsEmitted = {}
    <3>1. \A op \in Ops : {Pair(op, n) : n \in 1..emitted[op]} = {}  BY <2>1
    <3> QED  BY <3>1 DEF PairsEmitted
  <2>5. PairsBegun = {} /\ PairsTold = {}  BY <1>5, <1>6 DEF PairsBegun, PairsTold
  <2>6. PairsOf(ssh_queue) = {} /\ PairsOf(buffered_events) = {} /\ PairsOf(ssh_polled) = {}
    BY <2>3 DEF PairsOf
  <2>7. Parts5(PairsEmitted, PairsOf(ssh_queue), PairsOf(buffered_events), PairsOf(ssh_polled),
               PairsBegun, PairsTold)
    BY <2>4, <2>5, <2>6 DEF Parts5, Parts4, Parts3, Parts2
  <2> QED  BY <1>5, <1>6, <2>2, <2>3, <2>7 DEF SshOnceInv, DistinctPairs
<1>10. ProcOnceInv
  <2>1. Spawned = {} /\ DOMAIN processes = {}  BY <1>3, <1>4 DEF Spawned
  <2>2. GivenOut = {}  BY <1>3 DEF GivenOut
  <2> QED  BY <1>3, <1>6, <2>1, <2>2 DEF ProcOnceInv
<1>11. LoadOnceInv
  <2>1. DOMAIN loads = {} /\ Len(loads) = 0 /\ 0 <= MaxLoads  BY <1>3, <1>4, LoadBounds
  <2>2. Loading = {} /\ LoadsCalled = {}  BY <1>3, <1>4, <2>1 DEF Loading, LoadsCalled
  <2> QED  BY <1>3, <1>6, <2>1, <2>2 DEF LoadOnceInv
<1>12. UploadInv
  <2>1. DOMAIN loads = {} /\ ToSet(texture_uploads) = {} /\ ToSet(cubemap_uploads) = {}
    BY <1>3, <1>4
  <2>2. GoesOn(textures, NameOf, ToSet(texture_uploads)) /\ GoesOn(cubemaps, Itself, ToSet(cubemap_uploads))
    BY <1>3, TexturesAre DEF GoesOn
  <2>3. DOMAIN textures = TextureNames /\ DOMAIN cubemaps = Loads  BY <1>3
  <2> QED  BY <2>1, <2>2, <2>3 DEF UploadInv
<1> QED  BY <1>7, <1>8, <1>9, <1>10, <1>11, <1>12 DEF Once

LEMMA OnceIsEnough == OnceInv /\ AnswersInv /\ RegistryInv => AnsweredOnce
<1> SUFFICES ASSUME OnceInv, AnswersInv, RegistryInv, up
             PROVE  /\ HttpAnsweredOnce /\ JobsAnsweredOnce /\ SshToldOnce /\ SshCallbacksAgree
                    /\ ProcessAnsweredOnce /\ LoadsAnsweredOnce /\ UploadsHaveEntries
  BY DEF AnsweredOnce
<1>1. Once
  BY DEF OnceInv
<1>2. NumberInv
  BY <1>1, AnswersHaveNumbers
<1>3. HttpOnceInv /\ JobOnceInv /\ SshOnceInv /\ SshAliveInv /\ ProcOnceInv /\ LoadOnceInv /\ UploadInv
  BY <1>1 DEF Once, SshOnceInv
<1>4. HttpAnsweredOnce
  BY <1>2, <1>3, HttpIsAnsweredOnce
<1>5. JobsAnsweredOnce
  BY <1>2, <1>3, JobsAreAnsweredOnce
<1>6. SshToldOnce
  BY <1>3, EventsAreToldOnce
<1>7. SshCallbacksAgree
  BY <1>3, SshCallbacksDoAgree
<1>8. ProcessAnsweredOnce
  BY <1>2, <1>3, ProcessesAreAnsweredOnce
<1>9. LoadsAnsweredOnce
  BY <1>2, <1>3, LoadsAreAnsweredOnce
<1>10. UploadsHaveEntries
  BY <1>3, UploadsDoHaveEntries
<1> QED  BY <1>4, <1>5, <1>6, <1>7, <1>8, <1>9, <1>10

\* No poll, dispatch, nested loop, cancellation, timeout or second load of a texture
\* repeats an answer on its way from the service's thread to the script, and all but
\* two kinds are on that way, in one place, until a callback that is there is told
\* (the poll and dispatch functions of lua_http, lua_jobs, lua_ssh and lua_process,
\* and the frame of the resource manager).  The two may be lost, and are only not
\* repeated: the chunks and the end of a stream, and the result of a child that has
\* a callback.
THEOREM AnswersHaveOnePlace == Spec => []AnsweredOnce
  BY RegistryInvInit, RegistryInvNext, AnswersInvInit, AnswersInvNext, OnceInvInit, OnceInvNext,
     OnceIsEnough, PTL DEF Spec
=============================================================================
