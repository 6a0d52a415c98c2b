--------------------------- MODULE SshServiceProofs ---------------------------
(***************************************************************************)
(* Proofs about SshService, for every backend and every bound.             *)
(***************************************************************************)
EXTENDS SshService, SequenceTheorems, TLAPS

-----------------------------------------------------------------------------
(* Types.                                                                  *)

LEMMA TypeInit == Init => TypeOK
<1> SUFFICES ASSUME Init PROVE TypeOK
  OBVIOUS
<1> USE OpsAssumption, HandlesAssumption
<1>1. log \in Seq(Events) /\ polled \in 0..Len(log)
  BY DEF Init
<1>2. nextChild \in [ChildTypes -> 1..(MaxChildren + 1)]
  BY DEF Init
<1>3. workers \in [OpIds -> 0..MaxWorkers] /\ watcher \in [OpIds -> WatcherPcs]
  BY DEF Init, WatcherPcs
<1>4. call \in [op : 0..MaxOps, timed : BOOLEAN] /\ mainPc \in MainPcs
  BY DEF Init, NoCall, MainPcs
<1>5. nextOp \in 1..(MaxOps + 1) /\ nextSession \in 1..(MaxSessions + 1)
  BY DEF Init
<1> QED  BY <1>1, <1>2, <1>3, <1>4, <1>5 DEF Init, TypeOK

\* The shape of the events the service and its backend build.
LEMMA HandleEventType ==
    ASSUME NEW k \in EventKinds, NEW i \in 0..MaxOps, NEW s \in 0..MaxSessions,
           NEW c \in Children \cup {NoChild}
    PROVE  /\ HandleEvent(k, i, s, c) \in Events
           /\ HandleEvent(k, i, s, c).op = i
  BY DEF HandleEvent, Events

LEMMA EventType ==
    ASSUME NEW k \in EventKinds, NEW i \in 0..MaxOps
    PROVE  /\ Event(k, i) \in Events
           /\ Event(k, i).kind = k /\ Event(k, i).op = i
<1>1. 0 \in 0..MaxSessions
  BY HandlesAssumption
<1> QED  BY <1>1 DEF Event, HandleEvent, Events

LEMMA EmittedEvent ==
    ASSUME TypeOK, NEW i \in 0..MaxOps, NEW e \in Emittable(i)
    PROVE  e \in Events /\ e.op = i
<1>1. /\ AllocatedSessions \subseteq 0..MaxSessions
      /\ AllocatedChildren \subseteq Children
  BY HandlesAssumption DEF AllocatedSessions, AllocatedChildren, TypeOK
<1>2. {"Info", "Connected", "SessionClosed", "Opened", "Closed"} \cup Outcomes
          \subseteq EventKinds
  BY OutcomesAssumption DEF EventKinds
<1>3. 0 \in 0..MaxSessions
  BY HandlesAssumption
<1>4. CASE e \in Informing(i)
  <2>1. CASE e = Event("Info", i)
    BY <1>2, <2>1, EventType
  <2>2. ASSUME NEW c \in AllocatedChildren, e = HandleEvent("Closed", i, 0, c)
        PROVE  e \in Events /\ e.op = i
    BY <1>1, <1>2, <1>3, <2>2, HandleEventType
  <2> QED  BY <1>4, <2>1, <2>2 DEF Informing
<1>5. CASE e \in Ending(i)
  BY <1>2, <1>5, EventType DEF Ending
<1>6. CASE e \in Connecting(i)
  BY <1>1, <1>2, <1>6, HandleEventType DEF Connecting
<1>7. CASE e \in Disconnecting(i)
  BY <1>1, <1>2, <1>7, HandleEventType DEF Disconnecting
<1>8. CASE e \in Opening(i)
  BY <1>1, <1>2, <1>8, HandleEventType DEF Opening
<1> QED  BY <1>4, <1>5, <1>6, <1>7, <1>8 DEF Emittable

LEMMA InformingIsEmittable ==
    ASSUME NEW i PROVE Informing(i) \subseteq Emittable(i)
  BY DEF Emittable

\* What note_handles_for_event_locked leaves in the tables.
LEMMA NoteHandlesType ==
    ASSUME TypeOK, NEW e \in Events, NoteHandles(e)
    PROVE  /\ sessions' \subseteq SessionIds
           /\ children' \subseteq Children
           /\ owner' \subseteq Children \X SessionIds
<1> USE HandlesAssumption
<1>1. /\ e.session \in 0..MaxSessions /\ e.child \in Children \cup {NoChild}
      /\ e.session # 0 => e.session \in SessionIds
  BY DEF Events, SessionIds
<1>2. sessions' \subseteq SessionIds
  BY <1>1 DEF TypeOK, NoteHandles
<1>3. children' \subseteq Children
  BY <1>1 DEF TypeOK, NoteHandles
<1>4. owner' \subseteq Children \X SessionIds
  <2>1. CASE e.kind = "Opened" /\ e.child # NoChild /\ e.session # 0
    BY <1>1, <2>1 DEF TypeOK, NoteHandles
  <2>2. CASE ~(e.kind = "Opened" /\ e.child # NoChild /\ e.session # 0)
    BY <2>2 DEF TypeOK, NoteHandles
  <2> QED  BY <2>1, <2>2
<1> QED  BY <1>2, <1>3, <1>4

LEMMA QueueEventType ==
    ASSUME TypeOK, NEW e \in Events, QueueEvent(e)
    PROVE  log' \in Seq(Events) /\ polled \in 0..Len(log')
  BY DEF TypeOK, QueueEvent

\* What emit leaves.
LEMMA EmitType ==
    ASSUME TypeOK, NEW e \in Events, Emit(e)
    PROVE  /\ operations' \subseteq OpIds /\ cancelled' \subseteq OpIds
           /\ sessions' \subseteq SessionIds
           /\ children' \subseteq Children
           /\ owner' \subseteq Children \X SessionIds
           /\ log' \in Seq(Events) /\ polled \in 0..Len(log')
<1>1. CASE UNCHANGED <<opVars, tableVars, log>>
  BY <1>1 DEF TypeOK, opVars, tableVars
<1>2. CASE /\ EndOperations(IF e.kind \in TerminalKinds THEN {e.op} \ {0} ELSE {})
           /\ NoteHandles(e)
           /\ QueueEvent(e)
  <2>1. e.op \in 0..MaxOps
    BY DEF Events
  <2>2. {e.op} \ {0} \subseteq OpIds
    BY <2>1, OpsAssumption DEF OpIds
  <2>3. operations' \subseteq OpIds /\ cancelled' \subseteq OpIds
    BY <1>2, <2>2 DEF EndOperations, TypeOK
  <2> QED  BY <1>2, <2>3, NoteHandlesType, QueueEventType
<1> QED  BY <1>1, <1>2 DEF Emit

LEMMA QueueLength == ASSUME TypeOK PROVE Len(Queued) = Len(log) - polled
<1>1. polled + 1 \in 1..(Len(log) + 1) /\ Len(log) \in Nat
  BY DEF TypeOK
<1> QED  BY <1>1, SubSeqProperties DEF TypeOK, Queued

\* The threads dispatch starts, and where they are.
LEMMA DispatchType ==
    ASSUME TypeOK, NEW i \in OpIds, NEW t \in BOOLEAN, Dispatch(i, t)
    PROVE  /\ workers' \in [OpIds -> 0..MaxWorkers]
           /\ watcher' \in [OpIds -> WatcherPcs]
           /\ timed' \subseteq OpIds
<1>1. 1 \in 0..MaxWorkers
  BY OpsAssumption
<1>2. CASE UNCHANGED threadVars
  BY <1>2 DEF TypeOK, threadVars
<1>3. CASE workers' = [workers EXCEPT ![i] = 1]
           /\ watcher' = [watcher EXCEPT ![i] = IF t THEN "sleeping" ELSE "none"]
           /\ timed' = IF t THEN timed \cup {i} ELSE timed
  BY <1>1, <1>3 DEF TypeOK, WatcherPcs
<1> QED  BY <1>2, <1>3 DEF Dispatch

LEMMA StartOperationType ==
    ASSUME TypeOK, NEW t \in BOOLEAN, StartOperation(t)
    PROVE  /\ nextOp \in OpIds
           /\ nextOp' = nextOp + 1 /\ nextOp' \in 1..(MaxOps + 1)
           /\ operations' = operations \cup {nextOp} /\ operations' \subseteq OpIds
           /\ Dispatch(nextOp, t)
           /\ workers' \in [OpIds -> 0..MaxWorkers]
           /\ watcher' \in [OpIds -> WatcherPcs]
           /\ timed' \subseteq OpIds
<1>1. nextOp \in OpIds /\ nextOp' = nextOp + 1 /\ nextOp' \in 1..(MaxOps + 1)
  BY OpsAssumption DEF TypeOK, StartOperation, OpIds
<1>2. operations' = operations \cup {nextOp} /\ Dispatch(nextOp, t)
  BY DEF StartOperation
<1> QED  BY <1>1, <1>2, DispatchType DEF TypeOK

\* An error event for an id that has no operation.
LEMMA NewErrorType ==
    ASSUME TypeOK, nextOp <= MaxOps, QueueEvent(Event("OperationError", nextOp))
    PROVE  /\ log' \in Seq(Events) /\ polled \in 0..Len(log')
           /\ nextOp + 1 \in 1..(MaxOps + 1)
<1>1. nextOp \in 0..MaxOps /\ nextOp + 1 \in 1..(MaxOps + 1)
  BY OpsAssumption DEF TypeOK
<1>2. Event("OperationError", nextOp) \in Events
  BY <1>1, EventType DEF EventKinds, TerminalKinds
<1> QED  BY <1>1, <1>2, QueueEventType

LEMMA FinishType ==
    ASSUME TypeOK, NEW i \in OpIds, NEW k \in TerminalKinds, FinishOperation(i, k)
    PROVE  /\ operations' \subseteq OpIds /\ cancelled' \subseteq OpIds
           /\ log' \in Seq(Events) /\ polled \in 0..Len(log')
<1>1. i \in 0..MaxOps /\ k \in EventKinds
  BY OpsAssumption DEF OpIds, EventKinds
<1>2. Event(k, i) \in Events
  BY <1>1, EventType
<1>3. QueueEvent(Event(k, i)) /\ EndOperations({i})
  BY DEF FinishOperation
<1> QED  BY <1>2, <1>3, QueueEventType DEF TypeOK, EndOperations

LEMMA TypeMain == TypeOK /\ Main => TypeOK'
<1> SUFFICES ASSUME TypeOK, Main PROVE TypeOK'
  OBVIOUS
<1> USE DEF opVars, tableVars, allocVars, eventVars, threadVars, mainVars
<1>1. ASSUME NEW t \in BOOLEAN, Connect(t) PROVE TypeOK'
  <2>1. StartOperation(t)
    BY <1>1 DEF Connect
  <2> QED  BY <1>1, <2>1, StartOperationType DEF Connect, TypeOK
<1>2. CASE ConnectMalformed
  <2>1. log' \in Seq(Events) /\ polled \in 0..Len(log') /\ nextOp' \in 1..(MaxOps + 1)
    BY <1>2, NewErrorType DEF ConnectMalformed
  <2> QED  BY <1>2, <2>1 DEF ConnectMalformed, TypeOK
<1>3. ASSUME EnqueueError, UNCHANGED polled
      PROVE  log' \in Seq(Events) /\ polled' \in 0..Len(log')
             /\ nextOp' \in 1..(MaxOps + 1)
  <2>1. CASE UNCHANGED <<nextOp, log>>
    BY <1>3, <2>1 DEF TypeOK
  <2>2. CASE /\ nextOp <= MaxOps /\ nextOp' = nextOp + 1
             /\ QueueEvent(Event("OperationError", nextOp))
    BY <1>3, <2>2, NewErrorType
  <2> QED  BY <1>3, <2>1, <2>2 DEF EnqueueError
<1>4. CASE Malformed
  <2>1. log' \in Seq(Events) /\ polled' \in 0..Len(log') /\ nextOp' \in 1..(MaxOps + 1)
    BY <1>3, <1>4 DEF Malformed
  <2> QED  BY <1>4, <2>1 DEF Malformed, TypeOK
<1>5. ASSUME NEW known, NEW t \in BOOLEAN, Check(known, t) PROVE TypeOK'
  <2>1. call' \in [op : 0..MaxOps, timed : BOOLEAN] /\ mainPc' \in MainPcs
    BY <1>5, OpsAssumption DEF Check, MainPcs
  <2> QED  BY <1>5, <2>1 DEF Check, TypeOK
<1>6. CASE Proceed
  <2>1. call.timed \in BOOLEAN
    BY DEF TypeOK
  <2>2. call' \in [op : 0..MaxOps, timed : BOOLEAN] /\ mainPc' \in MainPcs
    BY <1>6, OpsAssumption DEF Proceed, NoCall, MainPcs
  <2>3. CASE StartOperation(call.timed) /\ UNCHANGED log
    BY <1>6, <2>1, <2>2, <2>3, StartOperationType DEF Proceed, TypeOK
  <2>4. CASE EnqueueError /\ UNCHANGED <<operations, threadVars>>
    <3>1. log' \in Seq(Events) /\ polled' \in 0..Len(log')
          /\ nextOp' \in 1..(MaxOps + 1)
      BY <1>3, <1>6, <2>4 DEF Proceed
    <3> QED  BY <1>6, <2>2, <2>4, <3>1 DEF Proceed, TypeOK
  <2> QED  BY <1>6, <2>3, <2>4 DEF Proceed
<1>7. ASSUME NEW i \in OpIds, ResolveKnownHost(i) PROVE TypeOK'
  <2>1. workers' \in [OpIds -> 0..MaxWorkers]
    BY <1>7, OpsAssumption DEF ResolveKnownHost, TypeOK
  <2> QED  BY <1>7, <2>1 DEF ResolveKnownHost, TypeOK
<1>8. ASSUME NEW i \in OpIds, Cancel(i) PROVE TypeOK'
  <2>1. call' \in [op : 0..MaxOps, timed : BOOLEAN] /\ mainPc' \in MainPcs
    BY <1>8, OpsAssumption DEF Cancel, MainPcs, OpIds
  <2>2. FinishOperation(i, "OperationCancelled")
    BY <1>8 DEF Cancel
  <2>3. /\ operations' \subseteq OpIds /\ cancelled' \subseteq OpIds
        /\ log' \in Seq(Events) /\ polled \in 0..Len(log')
    BY <2>2, FinishType DEF TerminalKinds
  <2> QED  BY <1>8, <2>1, <2>3 DEF Cancel, TypeOK
<1>9. CASE CancelTold
  <2>1. call' \in [op : 0..MaxOps, timed : BOOLEAN] /\ mainPc' \in MainPcs
    BY <1>9, OpsAssumption DEF CancelTold, NoCall, MainPcs
  <2> QED  BY <1>9, <2>1 DEF CancelTold, TypeOK
<1>10. ASSUME NEW max \in Limits, Poll(max) PROVE TypeOK'
  <2>1. /\ Len(Queued) = Len(log) - polled /\ Len(log) \in Nat
        /\ polled \in 0..Len(log) /\ max \in Nat
    BY QueueLength, PollAssumption DEF TypeOK
  <2>2. polled' \in 0..Len(log)
    BY <1>10, <2>1 DEF Poll, Polled
  <2> QED  BY <1>10, <2>2 DEF Poll, TypeOK
<1>11. CASE Shutdown
  <2>1. Len(log) \in 0..Len(log)
    BY DEF TypeOK
  <2> QED  BY <1>11, <2>1 DEF Shutdown, EndOperations, TypeOK, MainPcs
<1>12. CASE ShutdownTold
  BY <1>12 DEF ShutdownTold, TypeOK, MainPcs
<1>13. CASE ShutdownJoined
  BY <1>13 DEF ShutdownJoined, TypeOK, MainPcs
<1>14. ASSUME NEW sid \in SessionIds, NEW t \in BOOLEAN, CheckSession(sid, t)
       PROVE  TypeOK'
  BY <1>5, <1>14 DEF CheckSession
<1>15. ASSUME NEW c \in Children, NEW t \in BOOLEAN, CheckChild(c, t)
       PROVE  TypeOK'
  BY <1>5, <1>15 DEF CheckChild
<1> QED
  BY <1>1, <1>2, <1>4, <1>6, <1>7, <1>8, <1>9, <1>10, <1>11, <1>12, <1>13,
     <1>14, <1>15 DEF Main

LEMMA TypeWatcher ==
    ASSUME TypeOK, NEW i \in OpIds, Watcher(i) PROVE TypeOK'
<1> USE DEF opVars, tableVars, allocVars, eventVars, threadVars, mainVars
<1>1. ASSUME NEW from, NEW to \in WatcherPcs, WatcherSteps(i, from, to),
             operations' \subseteq OpIds, cancelled' \subseteq OpIds,
             log' \in Seq(Events), polled \in 0..Len(log')
      PROVE  TypeOK'
  BY <1>1 DEF WatcherSteps, TypeOK
<1>2. ASSUME NEW from, NEW to \in WatcherPcs, WatcherSteps(i, from, to),
             UNCHANGED <<opVars, log>>
      PROVE  TypeOK'
  BY <1>1, <1>2 DEF TypeOK
<1>3. /\ "none" \in WatcherPcs /\ "expired" \in WatcherPcs
      /\ "cancelling" \in WatcherPcs
  BY DEF WatcherPcs
<1>4. CASE WatcherQuits(i)
  BY <1>2, <1>3, <1>4 DEF WatcherQuits
<1>5. CASE WatcherExpires(i)
  BY <1>2, <1>3, <1>5 DEF WatcherExpires
<1>6. CASE WatcherFinishes(i)
  <2>1. CASE /\ FinishOperation(i, "OperationTimeout")
             /\ WatcherSteps(i, "expired", "cancelling")
    BY <1>1, <1>3, <2>1, FinishType DEF TerminalKinds
  <2>2. CASE WatcherSteps(i, "expired", "none") /\ UNCHANGED <<opVars, log>>
    BY <1>2, <1>3, <2>2
  <2> QED  BY <1>6, <2>1, <2>2 DEF WatcherFinishes
<1>7. CASE WatcherTold(i)
  BY <1>2, <1>3, <1>7 DEF WatcherTold
<1> QED  BY <1>4, <1>5, <1>6, <1>7 DEF Watcher

LEMMA TypeBackend ==
    ASSUME TypeOK, (\E i \in OpIds : Worker(i)) \/ BackendEmits PROVE TypeOK'
<1> USE DEF opVars, tableVars, allocVars, eventVars, threadVars, mainVars
<1>1. ASSUME NEW i \in OpIds, WorkerEmits(i) PROVE TypeOK'
  <2>1. PICK e \in Emittable(i) : Emit(e)
    BY <1>1 DEF WorkerEmits
  <2>2. e \in Events
    BY EmittedEvent, OpsAssumption DEF OpIds
  <2> QED  BY <1>1, <2>1, <2>2, EmitType DEF WorkerEmits, TypeOK
<1>2. CASE BackendEmits
  <2>1. PICK e \in Informing(0) : Emit(e)
    BY <1>2 DEF BackendEmits
  <2>2. e \in Events
    BY EmittedEvent, InformingIsEmittable, OpsAssumption
  <2> QED  BY <1>2, <2>1, <2>2, EmitType DEF BackendEmits, TypeOK
<1>3. ASSUME NEW i \in OpIds, AllocateSession(i) PROVE TypeOK'
  BY <1>3, HandlesAssumption DEF AllocateSession, TypeOK
<1>4. ASSUME NEW i \in OpIds, NEW t \in ChildTypes, AllocateChild(i, t)
      PROVE  TypeOK'
  BY <1>4, HandlesAssumption DEF AllocateChild, TypeOK
<1>5. ASSUME NEW i \in OpIds, WorkerGone(i)
      PROVE  workers' \in [OpIds -> 0..MaxWorkers]
  BY <1>5, OpsAssumption DEF WorkerGone, TypeOK
<1>6. ASSUME NEW i \in OpIds, WorkerReturns(i) PROVE TypeOK'
  BY <1>5, <1>6 DEF WorkerReturns, WorkerGone, TypeOK
<1>7. ASSUME NEW i \in OpIds, WorkerThrows(i) PROVE TypeOK'
  <2>1. Event("OperationError", i) \in Events
    BY EventType, OpsAssumption DEF OpIds, EventKinds, TerminalKinds
  <2> QED  BY <1>5, <1>7, <2>1, EmitType DEF WorkerThrows, WorkerGone, TypeOK
<1> QED  BY <1>1, <1>2, <1>3, <1>4, <1>6, <1>7 DEF Worker

LEMMA TypeStep == TypeOK /\ [Next]_vars => TypeOK'
<1>1. TypeOK /\ UNCHANGED vars => TypeOK'
  BY DEF TypeOK, vars, opVars, tableVars, allocVars, eventVars, threadVars, mainVars
<1> QED  BY <1>1, TypeMain, TypeWatcher, TypeBackend DEF Next

\* Whatever the backend emits, every table of the service keeps its shape.
THEOREM ServiceTypeCorrect == Spec => []TypeOK
  BY TypeInit, TypeStep, PTL DEF Spec
-----------------------------------------------------------------------------
(***************************************************************************)
(* Every operation ends once.  That a second end is dropped because the    *)
(* entry is gone needs the converse, that an operation whose entry is      *)
(* there has no end in the log; and that a new id has no event needs every *)
(* event to be of an id given out before.                                  *)
(***************************************************************************)
Active(i) == workers[i] > 0 \/ watcher[i] # "none"

IdsGivenOut ==
    /\ \A k \in 1..Len(log) : log[k].op < nextOp
    /\ \A i \in operations \cup cancelled : i < nextOp

OperationInv ==
    /\ IdsGivenOut
    /\ EndedOnce
    /\ Accounted
    /\ operations \cap cancelled = {}
    /\ \A i \in operations : \A k \in 1..Len(log) : ~Ends(k, i)
    /\ \A i \in OpIds : Active(i) => i \in operations \cup cancelled

LEMMA LoggedEvent ==
    ASSUME TypeOK, NEW k \in 1..Len(log)
    PROVE  log[k] \in Events /\ log[k].op \in 0..MaxOps /\ log[k].op \in Int
<1>1. log[k] \in Events
  BY DEF TypeOK
<1> QED  BY <1>1 DEF Events

LEMMA OperationInit == Init => OperationInv
<1> SUFFICES ASSUME Init PROVE OperationInv
  OBVIOUS
<1>1. /\ Len(log) = 0 /\ operations = {} /\ cancelled = {} /\ nextOp = 1
      /\ \A i \in OpIds : ~Active(i)
  BY DEF Init, Active
<1>2. 1..(nextOp - 1) = {} /\ 1..Len(log) = {}
  BY <1>1
<1> QED  BY <1>1, <1>2 DEF OperationInv, IdsGivenOut, EndedOnce, Accounted

\* Steps that neither begin nor end an operation.
LEMMA OperationQuiet ==
    ASSUME OperationInv, UNCHANGED <<log, opVars, nextOp, shutdown>>,
           \A i \in OpIds : Active(i)' => Active(i) \/ i \in operations
    PROVE  OperationInv'
  BY DEF OperationInv, IdsGivenOut, EndedOnce, Accounted, Ends, opVars

\* A queued event of no operation, or of one that is not over.
LEMMA OperationQueued ==
    ASSUME TypeOK, OperationInv, ~shutdown, UNCHANGED <<nextOp, shutdown>>,
           NEW e \in Events, e.op = 0 \/ e.op \in operations,
           EndOperations(IF e.kind \in TerminalKinds THEN {e.op} \ {0} ELSE {}),
           log' = Append(log, e),
           \A i \in OpIds : Active(i)' => Active(i)
    PROVE  OperationInv'
<1>0. PICK n : n = Len(log) + 1
  OBVIOUS
<1>1. /\ Len(log) \in Nat /\ Len(log') = n
      /\ \A k \in 1..Len(log) : log'[k] = log[k]
      /\ log'[n] = e
      /\ \A k \in 1..Len(log') : k \in 1..Len(log) \/ k = n
  BY <1>0 DEF TypeOK
<1>2. /\ nextOp \in Nat /\ nextOp >= 1 /\ nextOp' = nextOp /\ shutdown' = shutdown
      /\ operations \subseteq OpIds /\ 0 \notin OpIds
  BY DEF TypeOK, OpIds
<1>3. CASE e.kind \in TerminalKinds /\ e.op # 0
  <2>1. /\ e.op \in operations
        /\ operations' = operations \ {e.op}
        /\ cancelled' = cancelled \cup {e.op}
    BY <1>3 DEF EndOperations
  <2>2. /\ \A k \in 1..Len(log) : \A i : Ends(k, i)' <=> Ends(k, i)
        /\ \A i : Ends(n, i)' <=> i = e.op
    BY <1>1, <1>3 DEF Ends
  <2>3. IdsGivenOut'
    BY <1>1, <1>2, <2>1 DEF OperationInv, IdsGivenOut
  <2>4. EndedOnce'
    <3> SUFFICES ASSUME NEW i \in OpIds, NEW k \in 1..Len(log'), NEW m \in 1..Len(log'),
                        Ends(k, i)', log'[m].op = i
                 PROVE  m <= k
      BY DEF EndedOnce
    <3>1. CASE k = n
      BY <1>1, <3>1
    <3>2. CASE k \in 1..Len(log) /\ m \in 1..Len(log)
      BY <1>1, <2>2, <3>2 DEF OperationInv, EndedOnce
    <3>3. CASE k \in 1..Len(log) /\ m = n
      BY <1>1, <2>1, <2>2, <3>3 DEF OperationInv
    <3> QED  BY <1>1, <3>1, <3>2, <3>3
  <2>5. Accounted'
    <3> SUFFICES ASSUME NEW i \in 1..(nextOp - 1)
                 PROVE  i \in operations' <=> ~\E k \in 1..n : Ends(k, i)'
      BY <1>1, <1>2 DEF Accounted
    <3>1. i \in operations <=> ~\E k \in 1..Len(log) : Ends(k, i)
      BY DEF OperationInv, Accounted
    <3>2. n \in 1..n /\ 1..n = 1..Len(log) \cup {n}
      BY <1>1
    <3> QED  BY <2>1, <2>2, <3>1, <3>2
  <2>6. (\A i \in operations : \A k \in 1..Len(log) : ~Ends(k, i))'
    BY <1>1, <2>1, <2>2 DEF OperationInv
  <2> QED  BY <2>1, <2>3, <2>4, <2>5, <2>6 DEF OperationInv
<1>4. CASE ~(e.kind \in TerminalKinds /\ e.op # 0)
  <2>1. operations' = operations /\ cancelled' = cancelled
    BY <1>4 DEF EndOperations
  <2>2. /\ \A k \in 1..Len(log) : \A i : Ends(k, i)' <=> Ends(k, i)
        /\ \A i \in OpIds : ~Ends(n, i)'
    BY <1>1, <1>2, <1>4 DEF Ends
  <2>3. IdsGivenOut'
    BY <1>1, <1>2, <2>1 DEF OperationInv, IdsGivenOut
  <2>4. EndedOnce'
    <3> SUFFICES ASSUME NEW i \in OpIds, NEW k \in 1..Len(log'), NEW m \in 1..Len(log'),
                        Ends(k, i)', log'[m].op = i
                 PROVE  m <= k
      BY DEF EndedOnce
    <3>1. k \in 1..Len(log) /\ Ends(k, i)
      BY <1>1, <2>2
    <3>2. CASE m \in 1..Len(log)
      BY <1>1, <3>1, <3>2 DEF OperationInv, EndedOnce
    <3>3. CASE m = n
      <4>1. e.op = i /\ i \in operations
        BY <1>1, <1>2, <3>3
      <4> QED  BY <3>1, <4>1 DEF OperationInv
    <3> QED  BY <1>1, <3>2, <3>3
  <2>5. Accounted'
    <3> SUFFICES ASSUME NEW i \in 1..(nextOp - 1)
                 PROVE  i \in operations' <=> ~\E k \in 1..n : Ends(k, i)'
      BY <1>1, <1>2 DEF Accounted
    <3>1. i \in operations <=> ~\E k \in 1..Len(log) : Ends(k, i)
      BY DEF OperationInv, Accounted
    <3>2. 1..n = 1..Len(log) \cup {n} /\ i \in OpIds
      BY <1>1, OpsAssumption DEF TypeOK, OpIds
    <3> QED  BY <2>1, <2>2, <3>1, <3>2
  <2>6. (\A i \in operations : \A k \in 1..Len(log) : ~Ends(k, i))'
    BY <1>1, <1>2, <2>1, <2>2 DEF OperationInv
  <2> QED  BY <2>1, <2>3, <2>4, <2>5, <2>6 DEF OperationInv
<1> QED  BY <1>3, <1>4

\* An id given out to no operation, with its error if one can be queued.
LEMMA OperationRefused ==
    ASSUME TypeOK, OperationInv, nextOp <= MaxOps, nextOp' = nextOp + 1,
           QueueEvent(Event("OperationError", nextOp)),
           UNCHANGED <<opVars, shutdown, threadVars>>
    PROVE  OperationInv'
<1> DEFINE e == Event("OperationError", nextOp)
<1>0. PICK n : n = Len(log) + 1
  OBVIOUS
<1>1. /\ nextOp \in Nat /\ nextOp >= 1 /\ nextOp \in 0..MaxOps
      /\ operations' = operations /\ cancelled' = cancelled /\ shutdown' = shutdown
  BY DEF TypeOK, opVars
<1>2. e.op = nextOp /\ e.kind \in TerminalKinds
  BY <1>1, EventType DEF EventKinds, TerminalKinds
<1>3. \A i \in OpIds : Active(i)' <=> Active(i)
  BY DEF Active, threadVars
<1>4. CASE shutdown
  <2>1. log' = log
    BY <1>4 DEF QueueEvent
  <2>2. IdsGivenOut'
    <3>1. \A k \in 1..Len(log) : log[k].op \in Int
      BY LoggedEvent
    <3>2. \A i \in operations \cup cancelled : i \in Int
      BY DEF TypeOK, OpIds
    <3> QED  BY <1>1, <2>1, <3>1, <3>2 DEF OperationInv, IdsGivenOut
  <2> QED  BY <1>1, <1>3, <1>4, <2>1, <2>2
           DEF OperationInv, EndedOnce, Accounted, Ends
<1>5. CASE ~shutdown
  <2>1. /\ Len(log) \in Nat /\ Len(log') = n
        /\ \A k \in 1..Len(log) : log'[k] = log[k]
        /\ log'[n] = e
        /\ \A k \in 1..Len(log') : k \in 1..Len(log) \/ k = n
    BY <1>0, <1>5 DEF TypeOK, QueueEvent
  <2>2. /\ \A k \in 1..Len(log) : log[k].op \in Int /\ log[k].op < nextOp
        /\ \A i \in operations \cup cancelled : i \in Int /\ i < nextOp
    <3>1. \A k \in 1..Len(log) : log[k].op \in Int
      BY LoggedEvent
    <3>2. \A i \in operations \cup cancelled : i \in Int
      BY DEF TypeOK, OpIds
    <3> QED  BY <3>1, <3>2 DEF OperationInv, IdsGivenOut
  <2>3. /\ \A k \in 1..Len(log) : \A i : Ends(k, i)' <=> Ends(k, i)
        /\ \A i : Ends(n, i)' <=> i = nextOp
    BY <1>2, <2>1 DEF Ends
  <2>4. IdsGivenOut'
    BY <1>1, <1>2, <2>1, <2>2 DEF IdsGivenOut
  <2>5. EndedOnce'
    <3> SUFFICES ASSUME NEW i \in OpIds, NEW k \in 1..Len(log'), NEW m \in 1..Len(log'),
                        Ends(k, i)', log'[m].op = i
                 PROVE  m <= k
      BY DEF EndedOnce
    <3>1. CASE k = n
      BY <2>1, <3>1
    <3>2. CASE k \in 1..Len(log) /\ m \in 1..Len(log)
      BY <2>1, <2>3, <3>2 DEF OperationInv, EndedOnce
    <3>3. CASE k \in 1..Len(log) /\ m = n
      <4>1. i = nextOp /\ log[k].op = i
        BY <1>2, <2>1, <2>3, <3>3 DEF Ends
      <4> QED  BY <2>2, <3>3, <4>1
    <3> QED  BY <2>1, <3>1, <3>2, <3>3
  <2>6. Accounted'
    <3> SUFFICES ASSUME NEW i \in 1..nextOp
                 PROVE  i \in operations <=> ~\E k \in 1..n : Ends(k, i)'
      BY <1>1, <2>1 DEF Accounted
    <3>1. 1..n = 1..Len(log) \cup {n}
      BY <1>0, <2>1
    <3>2. CASE i = nextOp
      BY <2>2, <2>3, <3>1, <3>2
    <3>3. CASE i \in 1..(nextOp - 1)
      <4>1. i \in operations <=> ~\E k \in 1..Len(log) : Ends(k, i)
        BY <1>5, <3>3 DEF OperationInv, Accounted
      <4>2. i # nextOp
        BY <1>1, <3>3
      <4> QED  BY <2>3, <3>1, <4>1, <4>2
    <3> QED  BY <1>1, <3>2, <3>3
  <2>7. (\A i \in operations : \A k \in 1..Len(log) : ~Ends(k, i))'
    BY <1>1, <2>1, <2>2, <2>3 DEF OperationInv
  <2> QED  BY <1>1, <1>3, <2>4, <2>5, <2>6, <2>7 DEF OperationInv
<1> QED  BY <1>4, <1>5

\* A new operation, with its threads unless the service is shut down.
LEMMA OperationStarted ==
    ASSUME TypeOK, OperationInv, NEW t \in BOOLEAN, StartOperation(t),
           UNCHANGED <<cancelled, log, shutdown>>
    PROVE  OperationInv'
<1>1. /\ nextOp \in OpIds /\ nextOp \in Nat /\ nextOp >= 1 /\ nextOp' = nextOp + 1
      /\ operations' = operations \cup {nextOp}
      /\ Dispatch(nextOp, t)
      /\ cancelled' = cancelled /\ log' = log /\ shutdown' = shutdown
  BY StartOperationType DEF OpIds
<1>2. \A i \in operations \cup cancelled : i \in Int /\ i < nextOp
  <2>1. \A i \in operations \cup cancelled : i \in Int
    BY DEF TypeOK, OpIds
  <2> QED  BY <2>1 DEF OperationInv, IdsGivenOut
<1>3. \A k \in 1..Len(log) : log[k].op \in Int /\ log[k].op < nextOp
  BY LoggedEvent DEF OperationInv, IdsGivenOut
<1>4. \A k, i : Ends(k, i)' <=> Ends(k, i)
  BY <1>1 DEF Ends
<1>5. \A k \in 1..Len(log) : ~Ends(k, nextOp)
  BY <1>1, <1>3 DEF Ends
<1>6. IdsGivenOut'
  BY <1>1, <1>2, <1>3 DEF IdsGivenOut
<1>7. EndedOnce'
  BY <1>1, <1>4 DEF OperationInv, EndedOnce
<1>8. Accounted'
  <2> SUFFICES ASSUME ~shutdown, NEW i \in 1..nextOp
               PROVE  i \in operations' <=> ~\E k \in 1..Len(log) : Ends(k, i)
    BY <1>1, <1>4 DEF Accounted
  <2>1. CASE i = nextOp
    BY <1>1, <1>5, <2>1
  <2>2. CASE i \in 1..(nextOp - 1)
    <3>1. i \in operations <=> ~\E k \in 1..Len(log) : Ends(k, i)
      BY <2>2 DEF OperationInv, Accounted
    <3>2. i # nextOp
      BY <1>1, <2>2
    <3> QED  BY <1>1, <3>1, <3>2
  <2> QED  BY <1>1, <2>1, <2>2
<1>9. operations' \cap cancelled' = {}
  BY <1>1, <1>2 DEF OperationInv
<1>10. (\A i \in operations : \A k \in 1..Len(log) : ~Ends(k, i))'
  BY <1>1, <1>4, <1>5 DEF OperationInv
<1>11. (\A i \in OpIds : Active(i) => i \in operations \cup cancelled)'
  <2>1. ASSUME NEW i \in OpIds, i # nextOp PROVE Active(i)' <=> Active(i)
    BY <1>1, <2>1 DEF Active, Dispatch, threadVars, TypeOK
  <2> QED  BY <1>1, <2>1 DEF OperationInv
<1> QED  BY <1>6, <1>7, <1>8, <1>9, <1>10, <1>11 DEF OperationInv

\* finish_operation, and emit.
LEMMA OperationFinished ==
    ASSUME TypeOK, OperationInv, NEW i \in OpIds, NEW k \in TerminalKinds,
           Finishable(i), FinishOperation(i, k), UNCHANGED <<nextOp, shutdown>>,
           \A j \in OpIds : Active(j)' => Active(j)
    PROVE  OperationInv'
<1>1. i \in 0..MaxOps /\ k \in EventKinds /\ i # 0
  BY OpsAssumption DEF OpIds, EventKinds
<1>2. PICK e : e = Event(k, i)
  OBVIOUS
<1>3. e \in Events /\ e.op = i /\ e.kind = k
  BY <1>1, <1>2, EventType
<1>4. EndOperations(IF e.kind \in TerminalKinds THEN {e.op} \ {0} ELSE {})
  <2>1. (IF e.kind \in TerminalKinds THEN {e.op} \ {0} ELSE {}) = {i}
    BY <1>1, <1>3
  <2> QED  BY <2>1 DEF FinishOperation
<1>5. log' = Append(log, e) /\ e.op \in operations /\ ~shutdown
  BY <1>2, <1>3 DEF FinishOperation, QueueEvent, Finishable
<1> QED  BY <1>3, <1>4, <1>5, OperationQueued

LEMMA OperationEmit ==
    ASSUME TypeOK, OperationInv, NEW e \in Events, Emit(e),
           UNCHANGED <<nextOp, shutdown>>,
           \A j \in OpIds : Active(j)' => Active(j)
    PROVE  OperationInv'
<1>1. CASE Dropped(e) /\ UNCHANGED <<opVars, tableVars, log>>
  BY <1>1, OperationQuiet
<1>2. CASE /\ ~Dropped(e)
           /\ EndOperations(IF e.kind \in TerminalKinds THEN {e.op} \ {0} ELSE {})
           /\ QueueEvent(e)
  <2>1. ~shutdown /\ (e.op = 0 \/ e.op \in operations) /\ log' = Append(log, e)
    BY <1>2 DEF Dropped, QueueEvent
  <2> QED  BY <1>2, <2>1, OperationQueued
<1> QED  BY <1>1, <1>2 DEF Emit

LEMMA OperationMain == TypeOK /\ OperationInv /\ Main => OperationInv'
<1> SUFFICES ASSUME TypeOK, OperationInv, Main PROVE OperationInv'
  OBVIOUS
<1>1. ASSUME UNCHANGED <<log, opVars, nextOp, shutdown, threadVars>>
      PROVE  OperationInv'
  BY <1>1, OperationQuiet DEF Active, threadVars
<1>2. ASSUME NEW t \in BOOLEAN, Connect(t) PROVE OperationInv'
  BY <1>2, OperationStarted DEF Connect, eventVars
<1>3. CASE ConnectMalformed
  BY <1>3, OperationRefused DEF ConnectMalformed
<1>4. ASSUME EnqueueError, UNCHANGED <<opVars, shutdown, threadVars>>
      PROVE  OperationInv'
  BY <1>1, <1>4, OperationRefused DEF EnqueueError
<1>5. CASE Malformed
  BY <1>4, <1>5 DEF Malformed
<1>6. ASSUME NEW known, NEW t \in BOOLEAN, Check(known, t) PROVE OperationInv'
  BY <1>1, <1>6 DEF Check, eventVars
<1>7. CASE Proceed
  <2>1. call.timed \in BOOLEAN
    BY DEF TypeOK
  <2>2. CASE StartOperation(call.timed) /\ UNCHANGED log
    BY <1>7, <2>1, <2>2, OperationStarted DEF Proceed
  <2>3. CASE EnqueueError /\ UNCHANGED <<operations, threadVars>>
    BY <1>4, <1>7, <2>3 DEF Proceed, opVars
  <2> QED  BY <1>7, <2>2, <2>3 DEF Proceed
<1>8. ASSUME NEW i \in OpIds, ResolveKnownHost(i) PROVE OperationInv'
  <2>1. \A j \in OpIds : Active(j)' => Active(j) \/ j \in operations
    BY <1>8 DEF ResolveKnownHost, Active, TypeOK
  <2> QED  BY <1>8, <2>1, OperationQuiet DEF ResolveKnownHost, eventVars
<1>9. ASSUME NEW i \in OpIds, Cancel(i) PROVE OperationInv'
  <2>1. \A j \in OpIds : Active(j)' <=> Active(j)
    BY <1>9 DEF Cancel, Active, threadVars
  <2> QED  BY <1>9, <2>1, OperationFinished DEF Cancel, TerminalKinds
<1>10. CASE CancelTold
  BY <1>1, <1>10 DEF CancelTold, eventVars
<1>11. ASSUME NEW max \in Limits, Poll(max) PROVE OperationInv'
  BY <1>1, <1>11 DEF Poll
<1>12. CASE Shutdown
  <2>1. /\ shutdown' /\ operations' = {} /\ cancelled' = cancelled \cup operations
        /\ nextOp' = nextOp /\ log' = log /\ UNCHANGED threadVars
    BY <1>12 DEF Shutdown, EndOperations
  <2>2. IdsGivenOut' /\ EndedOnce' /\ Accounted'
    BY <2>1 DEF OperationInv, IdsGivenOut, EndedOnce, Accounted, Ends
  <2>3. \A j \in OpIds : Active(j)' <=> Active(j)
    BY <2>1 DEF Active, threadVars
  <2> QED  BY <2>1, <2>2, <2>3 DEF OperationInv
<1>13. CASE ShutdownTold
  BY <1>1, <1>13 DEF ShutdownTold, eventVars
<1>14. CASE ShutdownJoined
  BY <1>1, <1>14 DEF ShutdownJoined, eventVars
<1>15. ASSUME NEW s \in SessionIds, NEW t \in BOOLEAN, CheckSession(s, t)
       PROVE  OperationInv'
  BY <1>6, <1>15 DEF CheckSession
<1>16. ASSUME NEW c \in Children, NEW t \in BOOLEAN, CheckChild(c, t)
       PROVE  OperationInv'
  BY <1>6, <1>16 DEF CheckChild
<1> QED
  BY <1>2, <1>3, <1>5, <1>7, <1>8, <1>9, <1>10, <1>11, <1>12, <1>13, <1>14,
     <1>15, <1>16 DEF Main

LEMMA OperationThreads ==
    ASSUME TypeOK, OperationInv,
           (\E i \in OpIds : Watcher(i) \/ Worker(i)) \/ BackendEmits
    PROVE  OperationInv'
<1>1. ASSUME NEW i \in OpIds, NEW from, NEW to, from # "none",
             WatcherSteps(i, from, to)
      PROVE  /\ \A j \in OpIds : Active(j)' => Active(j)
             /\ UNCHANGED <<nextOp, shutdown>>
  BY <1>1 DEF WatcherSteps, Active, TypeOK
<1>2. ASSUME NEW i \in OpIds, Watcher(i) PROVE OperationInv'
  <2>1. CASE WatcherQuits(i)
    BY <1>1, <2>1, OperationQuiet DEF WatcherQuits
  <2>2. CASE WatcherExpires(i)
    BY <1>1, <2>2, OperationQuiet DEF WatcherExpires
  <2>3. CASE WatcherFinishes(i)
    <3>1. CASE /\ Finishable(i) /\ FinishOperation(i, "OperationTimeout")
               /\ WatcherSteps(i, "expired", "cancelling")
      BY <1>1, <3>1, OperationFinished DEF TerminalKinds
    <3>2. CASE WatcherSteps(i, "expired", "none") /\ UNCHANGED <<opVars, log>>
      BY <1>1, <3>2, OperationQuiet
    <3> QED  BY <2>3, <3>1, <3>2 DEF WatcherFinishes
  <2>4. CASE WatcherTold(i)
    BY <1>1, <2>4, OperationQuiet DEF WatcherTold
  <2> QED  BY <1>2, <2>1, <2>2, <2>3, <2>4 DEF Watcher
<1>3. ASSUME NEW i \in OpIds, Worker(i) PROVE OperationInv'
  <2>1. CASE WorkerEmits(i)
    <3>1. PICK e \in Emittable(i) : Emit(e)
      BY <2>1 DEF WorkerEmits
    <3>2. e \in Events
      BY EmittedEvent, OpsAssumption DEF OpIds
    <3>3. \A j \in OpIds : Active(j)' <=> Active(j)
      BY <2>1 DEF WorkerEmits, Active, threadVars
    <3> QED  BY <2>1, <3>1, <3>2, <3>3, OperationEmit DEF WorkerEmits
  <2>2. CASE AllocateSession(i)
    BY <2>2, OperationQuiet DEF AllocateSession, Active, threadVars, eventVars
  <2>3. ASSUME NEW t \in ChildTypes, AllocateChild(i, t) PROVE OperationInv'
    BY <2>3, OperationQuiet DEF AllocateChild, Active, threadVars, eventVars
  <2>4. ASSUME WorkerGone(i)
        PROVE  /\ \A j \in OpIds : Active(j)' => Active(j)
               /\ UNCHANGED <<nextOp, shutdown>>
    BY <2>4 DEF WorkerGone, Active, TypeOK
  <2>5. CASE WorkerReturns(i)
    BY <2>4, <2>5, OperationQuiet DEF WorkerReturns
  <2>6. CASE WorkerThrows(i)
    <3>1. Event("OperationError", i) \in Events
      BY EventType, OpsAssumption DEF OpIds, EventKinds, TerminalKinds
    <3> QED  BY <2>4, <2>6, <3>1, OperationEmit DEF WorkerThrows
  <2> QED  BY <1>3, <2>1, <2>2, <2>3, <2>5, <2>6 DEF Worker
<1>4. CASE BackendEmits
  <2>1. PICK e \in Informing(0) : Emit(e)
    BY <1>4 DEF BackendEmits
  <2>2. e \in Events
    BY EmittedEvent, InformingIsEmittable, OpsAssumption
  <2>3. \A j \in OpIds : Active(j)' <=> Active(j)
    BY <1>4 DEF BackendEmits, Active, threadVars
  <2> QED  BY <1>4, <2>1, <2>2, <2>3, OperationEmit DEF BackendEmits
<1> QED  BY <1>2, <1>3, <1>4

LEMMA OperationStep ==
    TypeOK /\ OperationInv /\ [Next]_vars => OperationInv'
<1>1. ASSUME TypeOK, OperationInv, UNCHANGED vars PROVE OperationInv'
  <2>1. \A j \in OpIds : Active(j)' <=> Active(j)
    BY <1>1 DEF Active, vars, threadVars
  <2> QED  BY <1>1, <2>1, OperationQuiet DEF vars, eventVars
<1> QED  BY <1>1, OperationMain, OperationThreads DEF Next

LEMMA OperationTokens ==
    TypeOK /\ OperationInv => TokensFollow
  BY DEF OperationInv, TokensFollow, Active

\* However its threads race with cancel and shutdown, an operation is told the
\* client to be over at most once, and nothing of it follows.
THEOREM OperationsEndOnce == Spec => []EndedOnce
<1>1. OperationInv => EndedOnce
  BY DEF OperationInv
<1> QED
  BY <1>1, TypeInit, TypeStep, OperationInit, OperationStep, PTL DEF Spec

\* No operation id that was given out is forgotten before shutdown.
THEOREM OperationsAccounted == Spec => []Accounted
<1>1. OperationInv => Accounted
  BY DEF OperationInv
<1> QED
  BY <1>1, TypeInit, TypeStep, OperationInit, OperationStep, PTL DEF Spec

\* A running thread's token is cancelled exactly when its operation is over.
THEOREM TokensFollowOperations == Spec => []TokensFollow
  BY TypeInit, TypeStep, OperationInit, OperationStep, OperationTokens, PTL
  DEF Spec

\* An id that was given out gets one end, and none is forgotten.
THEOREM OperationsEndOnceEach == Spec => []OneEndEach
  BY OperationsEndOnce, OperationsAccounted, PTL DEF OneEndEach
-----------------------------------------------------------------------------
(***************************************************************************)
(* After shutdown.  The queue is empty because everything in it has left   *)
(* it and nothing is put in it again.                                      *)
(***************************************************************************)
ShutdownInv ==
    shutdown => /\ sessions = {} /\ children = {} /\ owner = {}
                /\ polled = Len(log)
                /\ mainPc \notin {"shutting", "joining"} => NoThreads

\* Steps of a service that is shut down, if they start no thread.
LEMMA ShutdownQuiet ==
    ASSUME ShutdownInv,
           UNCHANGED <<shutdown, tableVars, log, polled>>,
           \/ /\ mainPc' = mainPc
              /\ mainPc \in {"shutting", "joining"}
           \/ /\ UNCHANGED threadVars
              /\ mainPc \notin {"shutting", "joining"}
    PROVE  ShutdownInv'
  BY DEF ShutdownInv, tableVars, threadVars, NoThreads

LEMMA ShutdownMain == TypeOK /\ ShutdownInv /\ Main => ShutdownInv'
<1> SUFFICES ASSUME TypeOK, ShutdownInv, Main PROVE ShutdownInv'
  OBVIOUS
<1>1. CASE ~shutdown'
  BY <1>1 DEF ShutdownInv
<1>2. CASE Shutdown
  BY <1>2 DEF Shutdown, ShutdownInv
<1>3. CASE shutdown
  <2>1. ASSUME NEW t \in BOOLEAN, Connect(t) PROVE ShutdownInv'
    BY <1>3, <2>1, ShutdownQuiet
    DEF Connect, StartOperation, Dispatch, eventVars, mainVars
  <2>2. CASE ConnectMalformed
    BY <1>3, <2>2, ShutdownQuiet DEF ConnectMalformed, QueueEvent, mainVars
  <2>3. CASE Malformed
    BY <1>3, <2>3, ShutdownQuiet DEF Malformed, EnqueueError, mainVars
  <2>4. ASSUME NEW known, NEW t \in BOOLEAN, Check(known, t) PROVE ShutdownInv'
    BY <1>3, <2>4, ShutdownQuiet DEF Check, eventVars
  <2>5. CASE Proceed
    BY <1>3, <2>5, ShutdownQuiet
    DEF Proceed, StartOperation, Dispatch, EnqueueError
  <2>6. ASSUME NEW i \in OpIds, ResolveKnownHost(i) \/ Cancel(i) PROVE FALSE
    BY <1>3, <2>6 DEF ResolveKnownHost, Cancel, Finishable
  <2>7. CASE CancelTold
    BY <1>3, <2>7, ShutdownQuiet DEF CancelTold, eventVars
  <2>8. ASSUME NEW max \in Limits, Poll(max) PROVE ShutdownInv'
    <3>1. Len(Queued) = 0 /\ max \in Nat /\ polled \in Nat
      BY <1>3, QueueLength, PollAssumption DEF ShutdownInv, TypeOK
    <3>2. polled' = polled
      BY <2>8, <3>1 DEF Poll, Polled
    <3> QED  BY <2>8, <3>2, ShutdownQuiet DEF Poll, mainVars
  <2>9. CASE ShutdownTold
    BY <1>3, <2>9 DEF ShutdownTold, ShutdownInv, tableVars, eventVars
  <2>10. CASE ShutdownJoined
    BY <1>3, <2>10
    DEF ShutdownJoined, ShutdownInv, NoThreads, tableVars, eventVars, threadVars
  <2>11. ASSUME NEW s \in SessionIds, NEW t \in BOOLEAN, CheckSession(s, t)
         PROVE  ShutdownInv'
    BY <2>4, <2>11 DEF CheckSession
  <2>12. ASSUME NEW c \in Children, NEW t \in BOOLEAN, CheckChild(c, t)
         PROVE  ShutdownInv'
    BY <2>4, <2>12 DEF CheckChild
  <2> QED
    BY <1>2, <2>1, <2>2, <2>3, <2>5, <2>6, <2>7, <2>8, <2>9, <2>10, <2>11,
       <2>12 DEF Main
<1>4. Shutdown \/ shutdown' = shutdown
  BY DEF Main, Connect, ConnectMalformed, Malformed, CheckSession, CheckChild,
         Check, Proceed, ResolveKnownHost, Cancel, CancelTold, Poll,
         ShutdownTold, ShutdownJoined
<1> QED  BY <1>1, <1>2, <1>3, <1>4

LEMMA ShutdownThreads ==
    ASSUME TypeOK, ShutdownInv,
           (\E i \in OpIds : Watcher(i) \/ Worker(i)) \/ BackendEmits
    PROVE  ShutdownInv'
<1>1. UNCHANGED <<shutdown, mainPc>>
  BY DEF Watcher, WatcherQuits, WatcherExpires, WatcherFinishes, WatcherTold,
         WatcherSteps, Worker, WorkerEmits, AllocateSession, AllocateChild,
         WorkerReturns, WorkerThrows, WorkerGone, BackendEmits, mainVars
<1>2. CASE ~shutdown
  BY <1>1, <1>2 DEF ShutdownInv
<1>3. CASE shutdown
  <2>1. ASSUME NEW e, Emit(e) PROVE UNCHANGED <<tableVars, log>>
    BY <1>3, <2>1 DEF Emit, Dropped
  <2>2. UNCHANGED <<tableVars, log, polled>>
    <3>1. ASSUME NEW i \in OpIds, Watcher(i) PROVE UNCHANGED <<tableVars, log, polled>>
      BY <1>3, <3>1
      DEF Watcher, WatcherQuits, WatcherExpires, WatcherFinishes, WatcherTold,
          WatcherSteps, Finishable
    <3>2. ASSUME NEW i \in OpIds, WorkerEmits(i) \/ BackendEmits
          PROVE  UNCHANGED <<tableVars, log, polled>>
      BY <2>1, <3>2 DEF WorkerEmits, BackendEmits
    <3>3. ASSUME NEW i \in OpIds, WorkerReturns(i) \/ WorkerThrows(i)
          PROVE  UNCHANGED <<tableVars, log, polled>>
      BY <2>1, <3>3 DEF WorkerReturns, WorkerThrows, WorkerGone
    <3>4. ASSUME NEW i \in OpIds, AllocateSession(i) PROVE FALSE
      BY <1>3, <3>4 DEF AllocateSession
    <3>5. ASSUME NEW i \in OpIds, NEW t \in ChildTypes, AllocateChild(i, t)
          PROVE  FALSE
      BY <1>3, <3>5 DEF AllocateChild
    <3>6. CASE BackendEmits
      BY <2>1, <3>6 DEF BackendEmits
    <3> QED  BY <3>1, <3>2, <3>3, <3>4, <3>5, <3>6 DEF Worker
  <2>3. CASE mainPc \in {"shutting", "joining"}
    BY <1>1, <2>2, <2>3, ShutdownQuiet
  <2>4. CASE mainPc \notin {"shutting", "joining"}
    <3>1. \A i \in OpIds : workers[i] = 0 /\ watcher[i] = "none"
      BY <1>3, <2>4 DEF ShutdownInv, NoThreads
    <3>2. ASSUME NEW i \in OpIds PROVE ~Watcher(i) /\ ~Worker(i)
      <4>1. ~(workers[i] > 0) /\ watcher[i] = "none"
        BY <3>1
      <4>2. ~Watcher(i)
        BY <4>1 DEF Watcher, WatcherQuits, WatcherExpires, WatcherFinishes,
                    WatcherTold, WatcherSteps
      <4>3. ~Worker(i)
        BY <4>1 DEF Worker, WorkerEmits, AllocateSession, AllocateChild,
                    WorkerReturns, WorkerThrows, WorkerGone
      <4> QED  BY <4>2, <4>3
    <3>3. UNCHANGED threadVars
      BY <3>2 DEF BackendEmits
    <3> QED  BY <1>1, <2>2, <2>4, <3>3, ShutdownQuiet
  <2> QED  BY <2>3, <2>4
<1> QED  BY <1>2, <1>3

LEMMA ShutdownStep ==
    TypeOK /\ ShutdownInv /\ [Next]_vars => ShutdownInv'
<1>1. ASSUME ShutdownInv, UNCHANGED vars PROVE ShutdownInv'
  BY <1>1 DEF ShutdownInv, NoThreads, vars, tableVars, eventVars, threadVars, mainVars
<1> QED  BY <1>1, ShutdownMain, ShutdownThreads DEF Next

LEMMA ShutdownInit == Init => ShutdownInv
  BY DEF Init, ShutdownInv

\* Once shut down the service accepts no session, channel or tunnel id and
\* holds no event, whatever its threads and later calls do.
THEOREM NothingAfterShutdown == Spec => []ShutdownIsFinal
<1>1. TypeOK /\ ShutdownInv => ShutdownIsFinal
  <2> SUFFICES ASSUME TypeOK, ShutdownInv, shutdown PROVE Queued = <<>>
    BY DEF ShutdownInv, ShutdownIsFinal
  <2>1. polled = Len(log) /\ Len(log) \in Nat
    BY DEF ShutdownInv, TypeOK
  <2> QED  BY <2>1, SubSeqEmpty DEF Queued
<1> QED  BY <1>1, TypeInit, TypeStep, ShutdownInit, ShutdownStep, PTL DEF Spec

\* When shutdown has returned none of the service's threads is left.
THEOREM NoThreadAfterShutdown == Spec => []ShutdownLeavesNoThread
<1>1. ShutdownInv => ShutdownLeavesNoThread
  BY DEF ShutdownInv, ShutdownLeavesNoThread
<1> QED  BY <1>1, TypeInit, TypeStep, ShutdownInit, ShutdownStep, PTL DEF Spec

\* Nothing of the service is left after shutdown, and nothing comes back.
THEOREM ShutdownIsComplete == Spec => []ShutdownIsClean
  BY NothingAfterShutdown, NoThreadAfterShutdown, PTL DEF ShutdownIsClean
-----------------------------------------------------------------------------
(***************************************************************************)
(* The tables follow the events.  A closed session takes with it the       *)
(* channels and tunnels its entries in `owner' name, so `owner' has to be  *)
(* what the events say too; and it is because an id is announced once that *)
(* a child of one session is not also up because of another.               *)
(***************************************************************************)
\* log[k] began the session s, or the child c of s, and nothing since ended it.
SessionHolds(k, s) ==
    /\ log[k].kind = "Connected" /\ log[k].session = s
    /\ \A m \in k + 1 .. Len(log) :
          ~(log[m].kind = "SessionClosed" /\ log[m].session = s)
ChildHolds(k, c) ==
    /\ log[k].kind = "Opened" /\ log[k].child = c
    /\ \A m \in k + 1 .. Len(log) :
          /\ ~(log[m].kind = "Closed" /\ log[m].child = c)
          /\ ~(log[m].kind = "SessionClosed" /\ log[m].session = log[k].session)

TablesFollow ==
    /\ \A s \in SessionIds :
          s \in sessions <=> \E k \in 1..Len(log) : SessionHolds(k, s)
    /\ \A c \in Children :
          c \in children <=> \E k \in 1..Len(log) : ChildHolds(k, c)
    /\ \A c \in Children, s \in SessionIds :
          <<c, s>> \in owner <=>
              \E k \in 1..Len(log) : ChildHolds(k, c) /\ log[k].session = s
    /\ \A k \in 1..Len(log) : log[k].kind = "Opened" =>
          log[k].child \in Children /\ log[k].session \in SessionIds
    /\ \A k, m \in 1..Len(log) :
          /\ log[k].kind = "Opened" /\ log[m].kind = "Opened"
          /\ log[k].child = log[m].child
          => k = m

HandleInv == ~shutdown => TablesFollow

\* What a backend may emit about an id.
WellNamed(e) ==
    /\ e.kind = "Opened" =>
          /\ e.child \in Children /\ e.session \in SessionIds
          /\ ~Announced("Opened", "child", e.child)
    /\ e.kind = "Closed" => e.child \in Children
    /\ e.kind \in {"Connected", "SessionClosed"} => e.session \in SessionIds

LEMMA TablesFollowNext ==
    ASSUME TypeOK, TablesFollow, NEW e \in Events, WellNamed(e), NoteHandles(e),
           log' = Append(log, e)
    PROVE  TablesFollow'
<1>0. PICK n : n = Len(log) + 1
  OBVIOUS
<1>1. /\ Len(log) \in Nat /\ n \in Nat /\ Len(log') = n
      /\ \A k \in 1..Len(log) : log'[k] = log[k]
      /\ log'[n] = e
      /\ 1..n = 1..Len(log) \cup {n} /\ n \notin 1..Len(log)
  BY <1>0 DEF TypeOK
<1>2. \A k \in 1..Len(log) : k + 1 .. n = (k + 1 .. Len(log)) \cup {n}
                           /\ k + 1 .. Len(log) \subseteq 1..Len(log)
  BY <1>0, <1>1
<1>3. n + 1 .. n = {}
  BY <1>1
<1>4. ASSUME NEW s, NEW k \in 1..Len(log)
      PROVE  SessionHolds(k, s)' <=>
                 /\ SessionHolds(k, s)
                 /\ ~(e.kind = "SessionClosed" /\ e.session = s)
  BY <1>1, <1>2 DEF SessionHolds
<1>5. ASSUME NEW s
      PROVE  SessionHolds(n, s)' <=> e.kind = "Connected" /\ e.session = s
  BY <1>1, <1>3 DEF SessionHolds
<1>6. ASSUME NEW c, NEW k \in 1..Len(log)
      PROVE  ChildHolds(k, c)' <=>
                 /\ ChildHolds(k, c)
                 /\ ~(e.kind = "Closed" /\ e.child = c)
                 /\ ~(e.kind = "SessionClosed" /\ e.session = log[k].session)
  BY <1>1, <1>2 DEF ChildHolds
<1>7. ASSUME NEW c
      PROVE  ChildHolds(n, c)' <=> e.kind = "Opened" /\ e.child = c
  BY <1>1, <1>3 DEF ChildHolds
<1>8. ASSUME NEW s \in SessionIds
      PROVE  s \in sessions' <=> \E k \in 1..n : SessionHolds(k, s)'
  <2>1. s \in sessions <=> \E k \in 1..Len(log) : SessionHolds(k, s)
    BY DEF TablesFollow
  <2>2. s # 0
    BY DEF SessionIds
  <2>3. s \in sessions' <=>
            \/ e.kind = "Connected" /\ e.session = s
            \/ s \in sessions /\ ~(e.kind = "SessionClosed" /\ e.session = s)
    BY <2>2 DEF NoteHandles
  <2> QED  BY <1>1, <1>4, <1>5, <2>1, <2>3
<1>9. ASSUME NEW c \in Children, NEW s \in SessionIds
      PROVE  <<c, s>> \in owner' <=>
                 \E k \in 1..n : ChildHolds(k, c)' /\ log'[k].session = s
  <2>1. <<c, s>> \in owner <=>
            \E k \in 1..Len(log) : ChildHolds(k, c) /\ log[k].session = s
    BY DEF TablesFollow
  <2>2. CASE e.kind = "Opened"
    <3>1. /\ e.child \in Children /\ e.session \in SessionIds
          /\ e.child # NoChild /\ e.session # 0
      BY <2>2, ChildTypesAssumption DEF WellNamed, Children, NoChild, SessionIds
    <3>2. owner' = {p \in owner : p[1] # e.child} \cup {<<e.child, e.session>>}
      BY <2>2, <3>1 DEF NoteHandles
    <3>3. \A k \in 1..Len(log) : ~ChildHolds(k, e.child)
      BY <2>2 DEF WellNamed, Announced, ChildHolds
    <3>4. <<c, s>> \in owner' <=>
              \/ <<c, s>> \in owner /\ c # e.child
              \/ c = e.child /\ s = e.session
      BY <3>2
    <3> QED  BY <1>1, <1>6, <1>7, <2>1, <2>2, <3>3, <3>4
  <2>3. CASE e.kind = "Closed"
    <3>1. <<c, s>> \in owner' <=> <<c, s>> \in owner /\ c # e.child
      BY <2>3 DEF NoteHandles
    <3> QED  BY <1>1, <1>6, <1>7, <2>1, <2>3, <3>1
  <2>4. CASE e.kind = "SessionClosed"
    <3>1. <<c, s>> \in owner' <=> <<c, s>> \in owner /\ s # e.session
      BY <2>4 DEF NoteHandles
    <3> QED  BY <1>1, <1>6, <1>7, <2>1, <2>4, <3>1
  <2>5. CASE e.kind \notin {"Opened", "Closed", "SessionClosed"}
    <3>1. owner' = owner
      BY <2>5 DEF NoteHandles
    <3> QED  BY <1>1, <1>6, <1>7, <2>1, <2>5, <3>1
  <2> QED  BY <2>2, <2>3, <2>4, <2>5
<1>10. ASSUME NEW c \in Children
       PROVE  c \in children' <=> \E k \in 1..n : ChildHolds(k, c)'
  <2>1. c \in children <=> \E k \in 1..Len(log) : ChildHolds(k, c)
    BY DEF TablesFollow
  <2>2. CASE e.kind = "Opened"
    <3>1. e.child # NoChild
      BY <2>2, ChildTypesAssumption DEF WellNamed, Children, NoChild
    <3>2. children' = children \cup {e.child}
      BY <2>2, <3>1 DEF NoteHandles
    <3> QED  BY <1>1, <1>6, <1>7, <2>1, <2>2, <3>2
  <2>3. CASE e.kind = "Closed"
    <3>1. children' = children \ {e.child}
      BY <2>3 DEF NoteHandles
    <3> QED  BY <1>1, <1>6, <1>7, <2>1, <2>3, <3>1
  <2>4. CASE e.kind = "SessionClosed"
    <3>1. children' = {d \in children : <<d, e.session>> \notin owner}
      BY <2>4 DEF NoteHandles
    <3>2. e.session \in SessionIds
      BY <2>4 DEF WellNamed
    <3>3. <<c, e.session>> \in owner <=>
              \E k \in 1..Len(log) : ChildHolds(k, c) /\ log[k].session = e.session
      BY <3>2 DEF TablesFollow
    <3>4. \A k, m \in 1..Len(log) : ChildHolds(k, c) /\ ChildHolds(m, c) => k = m
      BY DEF TablesFollow, ChildHolds
    <3> QED  BY <1>1, <1>6, <1>7, <2>1, <2>4, <3>1, <3>3, <3>4
  <2>5. CASE e.kind \notin {"Opened", "Closed", "SessionClosed"}
    <3>1. children' = children
      BY <2>5 DEF NoteHandles
    <3> QED  BY <1>1, <1>6, <1>7, <2>1, <2>5, <3>1
  <2> QED  BY <2>2, <2>3, <2>4, <2>5
<1>11. ASSUME NEW k \in 1..n, log'[k].kind = "Opened"
       PROVE  log'[k].child \in Children /\ log'[k].session \in SessionIds
  BY <1>1, <1>11 DEF TablesFollow, WellNamed
<1>12. ASSUME NEW k \in 1..n, NEW m \in 1..n,
              log'[k].kind = "Opened", log'[m].kind = "Opened",
              log'[k].child = log'[m].child
       PROVE  k = m
  <2>1. CASE k \in 1..Len(log) /\ m \in 1..Len(log)
    BY <1>1, <1>12, <2>1 DEF TablesFollow
  <2>2. ASSUME NEW j \in 1..Len(log), e.kind = "Opened"
        PROVE  ~(log[j].kind = "Opened" /\ log[j].child = e.child)
    BY <2>2 DEF WellNamed, Announced
  <2> QED  BY <1>1, <1>12, <2>1, <2>2
<1> QED  BY <1>1, <1>8, <1>9, <1>10, <1>11, <1>12 DEF TablesFollow

\* A backend names ids it was given, and announces each once.
LEMMA EmittedWellNamed ==
    ASSUME TypeOK, NEW i \in 0..MaxOps, NEW e \in Emittable(i)
    PROVE  WellNamed(e)
<1>1. /\ AllocatedSessions \subseteq SessionIds
      /\ AllocatedChildren \subseteq Children
  <2>1. nextSession \in 1..(MaxSessions + 1) /\ MaxSessions \in Nat
    BY HandlesAssumption DEF TypeOK
  <2> QED  BY <2>1 DEF AllocatedSessions, AllocatedChildren, SessionIds
<1>2. CASE e \in Informing(i)
  BY <1>1, <1>2 DEF Informing, WellNamed, Event, HandleEvent
<1>3. CASE e \in Ending(i)
  BY <1>3, OutcomesAssumption
  DEF Ending, WellNamed, Event, HandleEvent, TerminalKinds
<1>4. CASE e \in Connecting(i)
  BY <1>1, <1>4 DEF Connecting, WellNamed, HandleEvent
<1>5. CASE e \in Disconnecting(i)
  BY <1>1, <1>5 DEF Disconnecting, WellNamed, HandleEvent
<1>6. CASE e \in Opening(i)
  <2>1. PICK s \in AllocatedSessions,
             c \in {c \in AllocatedChildren : ~Announced("Opened", "child", c)} :
                e = HandleEvent("Opened", i, s, c)
    BY <1>6 DEF Opening
  <2>2. e.kind = "Opened" /\ e.child = c /\ e.session = s
    BY <2>1 DEF HandleEvent
  <2> QED  BY <1>1, <2>1, <2>2 DEF WellNamed
<1> QED  BY <1>2, <1>3, <1>4, <1>5, <1>6 DEF Emittable

LEMMA HandleQuiet ==
    ASSUME HandleInv, UNCHANGED <<shutdown, tableVars, log>> PROVE HandleInv'
<1> SUFFICES ASSUME TablesFollow PROVE TablesFollow'
  BY DEF HandleInv
<1>1. sessions' = sessions /\ children' = children /\ owner' = owner /\ log' = log
  BY DEF tableVars
<1>2. ASSUME NEW k \in 1..Len(log), NEW i
      PROVE  /\ SessionHolds(k, i)' <=> SessionHolds(k, i)
             /\ ChildHolds(k, i)' <=> ChildHolds(k, i)
  BY <1>1 DEF SessionHolds, ChildHolds
<1>3. ASSUME NEW s \in SessionIds
      PROVE  s \in sessions' <=> \E k \in 1..Len(log') : SessionHolds(k, s)'
  <2>1. s \in sessions <=> \E k \in 1..Len(log) : SessionHolds(k, s)
    BY DEF TablesFollow
  <2> QED  BY <1>1, <1>2, <2>1
<1>4. ASSUME NEW c \in Children
      PROVE  c \in children' <=> \E k \in 1..Len(log') : ChildHolds(k, c)'
  <2>1. c \in children <=> \E k \in 1..Len(log) : ChildHolds(k, c)
    BY DEF TablesFollow
  <2> QED  BY <1>1, <1>2, <2>1
<1>5. ASSUME NEW c \in Children, NEW s \in SessionIds
      PROVE  <<c, s>> \in owner' <=>
                 \E k \in 1..Len(log') : ChildHolds(k, c)' /\ log'[k].session = s
  <2>1. <<c, s>> \in owner <=>
            \E k \in 1..Len(log) : ChildHolds(k, c) /\ log[k].session = s
    BY DEF TablesFollow
  <2> QED  BY <1>1, <1>2, <2>1
<1> QED  BY <1>1, <1>3, <1>4, <1>5 DEF TablesFollow

\* The service's own events name no id.
LEMMA HandleEnded ==
    ASSUME TypeOK, HandleInv, UNCHANGED <<shutdown, tableVars>>,
           NEW k \in TerminalKinds, NEW i \in 0..MaxOps, QueueEvent(Event(k, i))
    PROVE  HandleInv'
<1>1. CASE shutdown
  BY <1>1 DEF HandleInv
<1>2. CASE ~shutdown
  <2>1. PICK e : e = Event(k, i)
    OBVIOUS
  <2>2. e \in Events /\ e.kind \in TerminalKinds
    BY <2>1, EventType DEF EventKinds
  <2>3. WellNamed(e) /\ NoteHandles(e)
    BY <2>2 DEF WellNamed, NoteHandles, TerminalKinds, tableVars
  <2>4. log' = Append(log, e)
    BY <1>2, <2>1 DEF QueueEvent
  <2> QED  BY <1>2, <2>2, <2>3, <2>4, TablesFollowNext DEF HandleInv
<1> QED  BY <1>1, <1>2

LEMMA HandleEmit ==
    ASSUME TypeOK, HandleInv, UNCHANGED shutdown, NEW e \in Events, WellNamed(e),
           Emit(e)
    PROVE  HandleInv'
<1>1. CASE UNCHANGED <<opVars, tableVars, log>>
  BY <1>1, HandleQuiet
<1>2. CASE ~Dropped(e) /\ NoteHandles(e) /\ QueueEvent(e)
  <2>1. ~shutdown /\ log' = Append(log, e)
    BY <1>2 DEF Dropped, QueueEvent
  <2> QED  BY <1>2, <2>1, TablesFollowNext DEF HandleInv
<1> QED  BY <1>1, <1>2 DEF Emit

LEMMA HandleMain == TypeOK /\ HandleInv /\ Main => HandleInv'
<1> SUFFICES ASSUME TypeOK, HandleInv, Main PROVE HandleInv'
  OBVIOUS
<1> USE DEF eventVars
<1>1. ASSUME nextOp <= MaxOps, QueueEvent(Event("OperationError", nextOp)),
             UNCHANGED <<shutdown, tableVars>>
      PROVE  HandleInv'
  <2>1. nextOp \in 0..MaxOps
    BY <1>1, OpsAssumption DEF TypeOK
  <2> QED  BY <1>1, <2>1, HandleEnded DEF TerminalKinds
<1>2. CASE ConnectMalformed
  BY <1>1, <1>2 DEF ConnectMalformed
<1>3. ASSUME EnqueueError, UNCHANGED <<shutdown, tableVars>> PROVE HandleInv'
  BY <1>1, <1>3, HandleQuiet DEF EnqueueError
<1>4. CASE Malformed
  BY <1>3, <1>4 DEF Malformed
<1>5. CASE Proceed
  BY <1>3, <1>5, HandleQuiet DEF Proceed
<1>6. ASSUME NEW i \in OpIds, Cancel(i) PROVE HandleInv'
  BY <1>6, HandleEnded, OpsAssumption
  DEF Cancel, FinishOperation, TerminalKinds, OpIds
<1>7. CASE Shutdown
  BY <1>7 DEF Shutdown, HandleInv
<1>8. ASSUME NEW t \in BOOLEAN, Connect(t) PROVE HandleInv'
  BY <1>8, HandleQuiet DEF Connect
<1>9. ASSUME NEW known, NEW t \in BOOLEAN, Check(known, t) PROVE HandleInv'
  BY <1>9, HandleQuiet DEF Check
<1>10. ASSUME NEW i \in OpIds, ResolveKnownHost(i) PROVE HandleInv'
  BY <1>10, HandleQuiet DEF ResolveKnownHost
<1>11. CASE CancelTold \/ ShutdownTold \/ ShutdownJoined
  BY <1>11, HandleQuiet DEF CancelTold, ShutdownTold, ShutdownJoined
<1>12. ASSUME NEW max \in Limits, Poll(max) PROVE HandleInv'
  BY <1>12, HandleQuiet DEF Poll
<1>13. ASSUME NEW s \in SessionIds, NEW t \in BOOLEAN, CheckSession(s, t)
       PROVE  HandleInv'
  BY <1>9, <1>13 DEF CheckSession
<1>14. ASSUME NEW c \in Children, NEW t \in BOOLEAN, CheckChild(c, t)
       PROVE  HandleInv'
  BY <1>9, <1>14 DEF CheckChild
<1> QED
  BY <1>2, <1>4, <1>5, <1>6, <1>7, <1>8, <1>10, <1>11, <1>12, <1>13, <1>14
  DEF Main

LEMMA HandleThreads ==
    ASSUME TypeOK, HandleInv,
           (\E i \in OpIds : Watcher(i) \/ Worker(i)) \/ BackendEmits
    PROVE  HandleInv'
<1>1. ASSUME NEW i \in OpIds, Watcher(i) PROVE HandleInv'
  <2>1. CASE WatcherQuits(i) \/ WatcherExpires(i) \/ WatcherTold(i)
    BY <2>1, HandleQuiet DEF WatcherQuits, WatcherExpires, WatcherTold, WatcherSteps
  <2>2. CASE WatcherFinishes(i)
    BY <2>2, HandleQuiet, HandleEnded, OpsAssumption
    DEF WatcherFinishes, WatcherSteps, FinishOperation, TerminalKinds, OpIds
  <2> QED  BY <1>1, <2>1, <2>2 DEF Watcher
<1>2. ASSUME NEW i \in OpIds, Worker(i) PROVE HandleInv'
  <2>1. CASE WorkerEmits(i)
    <3>1. PICK e \in Emittable(i) : Emit(e)
      BY <2>1 DEF WorkerEmits
    <3>2. e \in Events /\ WellNamed(e)
      BY EmittedEvent, EmittedWellNamed, OpsAssumption DEF OpIds
    <3> QED  BY <2>1, <3>1, <3>2, HandleEmit DEF WorkerEmits
  <2>2. CASE AllocateSession(i)
    BY <2>2, HandleQuiet DEF AllocateSession, eventVars
  <2>3. ASSUME NEW t \in ChildTypes, AllocateChild(i, t) PROVE HandleInv'
    BY <2>3, HandleQuiet DEF AllocateChild, eventVars
  <2>4. CASE WorkerReturns(i)
    BY <2>4, HandleQuiet DEF WorkerReturns, WorkerGone
  <2>5. CASE WorkerThrows(i)
    <3>1. PICK e : e = Event("OperationError", i)
      OBVIOUS
    <3>2. e \in Events /\ e.kind = "OperationError"
      BY <3>1, EventType, OpsAssumption DEF OpIds, EventKinds, TerminalKinds
    <3>3. WellNamed(e)
      BY <3>2 DEF WellNamed
    <3> QED  BY <2>5, <3>1, <3>2, <3>3, HandleEmit DEF WorkerThrows, WorkerGone
  <2> QED  BY <1>2, <2>1, <2>2, <2>3, <2>4, <2>5 DEF Worker
<1>3. CASE BackendEmits
  <2>1. PICK e \in Informing(0) : Emit(e)
    BY <1>3 DEF BackendEmits
  <2>2. e \in Events /\ WellNamed(e)
    BY EmittedEvent, EmittedWellNamed, InformingIsEmittable, OpsAssumption
  <2> QED  BY <1>3, <2>1, <2>2, HandleEmit DEF BackendEmits
<1> QED  BY <1>1, <1>2, <1>3

LEMMA HandleInit == Init => HandleInv
<1> SUFFICES ASSUME Init PROVE TablesFollow
  BY DEF HandleInv
<1>1. 1..Len(log) = {} /\ sessions = {} /\ children = {} /\ owner = {}
  BY DEF Init
<1> QED  BY <1>1 DEF TablesFollow

LEMMA HandleStep ==
    TypeOK /\ HandleInv /\ [Next]_vars => HandleInv'
<1>1. HandleInv /\ UNCHANGED vars => HandleInv'
  BY HandleQuiet DEF vars, eventVars
<1> QED  BY <1>1, HandleMain, HandleThreads DEF Next

\* Until shutdown, the session, channel and tunnel ids the service accepts are
\* those that the events in its queue say are up.
THEOREM HandlesAsAnnounced == Spec => []HandlesFollowEvents
<1>1. TypeOK /\ HandleInv => HandlesFollowEvents
  <2> SUFFICES ASSUME TypeOK, TablesFollow
               PROVE  /\ sessions = {s \in SessionIds : SessionUp(s)}
                      /\ children = {c \in Children : ChildUp(c)}
    BY DEF HandleInv, HandlesFollowEvents
  <2>1. \A s : SessionUp(s) <=> \E k \in 1..Len(log) : SessionHolds(k, s)
    BY DEF SessionUp, SessionHolds
  <2>2. \A c : ChildUp(c) <=> \E k \in 1..Len(log) : ChildHolds(k, c)
    BY DEF ChildUp, ChildHolds
  <2> QED  BY <2>1, <2>2 DEF TypeOK, TablesFollow
<1> QED  BY <1>1, TypeInit, TypeStep, HandleInit, HandleStep, PTL DEF Spec
=============================================================================
