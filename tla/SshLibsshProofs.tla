--------------------------- MODULE SshLibsshProofs ---------------------------
(***************************************************************************)
(* Proofs about SshLibssh, for every client and every bound.               *)
(***************************************************************************)
EXTENDS SshLibssh, FiniteSetTheorems, SequenceTheorems, TLAPS

-----------------------------------------------------------------------------
(* Shapes.                                                                 *)

Ids == (ChildTypes \cup {"none"}) \X (0..MaxChildren)
Jobs == [pc : WorkPcs, session : 0..MaxSessions, child : Ids, taken : SUBSET Handles]
Entries == [kind : S!EventKinds, op : 0..MaxOps, session : 0..MaxSessions, child : Ids]

\* The part of TypeOK the invariants need.
Shape ==
    /\ work \in [Threads -> Jobs] /\ request \in Jobs
    /\ log \in Seq(Entries)
    /\ nextOp \in 1..(MaxOps + 1)
    /\ nextSession \in 1..(MaxSessions + 1)
    /\ nextChild \in [ChildTypes -> 1..(MaxChildren + 1)]
    /\ reader \in [Handles -> {"none", "running", "closing", "over"}]
    /\ shutdown \in BOOLEAN
    /\ client \in [calls : [Sorts -> Nat], timed : BOOLEAN, made : [Sorts -> Nat]]
    /\ bChildren \subseteq Handles

\* Whether a program works on a session or on a child.
Sessionless ==
    {"connect", "verify", "record", "challenge", "resolve", "decide", "auth",
     "register", "take", "exec"}
Fits(j) ==
    /\ j.pc \in Sessionless => j.child = S!NoChild
    /\ j.pc \in {"open", "allocate"} => j.child[1] \in ChildTypes
    /\ j.pc = "start" => j.child \in Handles
    /\ j.pc = "join" /\ j.child # S!NoChild => j.child \in j.taken
Program ==
    /\ request.pc \in {"none", "take", "exec", "open", "write", "resize", "drop"}
    /\ request.pc \in {"take", "exec"} => request.child = S!NoChild
    /\ request.pc = "open" => request.child[1] \in ChildTypes
    /\ \A w \in Threads : Fits(work[w])

\* An id that was not given out has no operation, no challenge and no thread.
Fresh ==
    /\ operations \subseteq 1..(nextOp - 1)
    /\ pending \subseteq 1..(nextOp - 1)
    /\ \A w \in Threads : w[1] >= nextOp => At(w, "none")

ShapeInv == Shape /\ Program /\ Fresh

-----------------------------------------------------------------------------
(* What the steps of a worker do.                                          *)

\* Steps that leave the backend's tables and name no session or child.
Quitting ==
    {"connect", "verify", "challenge", "resolve", "decide", "auth", "exec", "run",
     "open", "write", "writing", "resize", "resizing", "drop", "succeed"}
PlainMoves ==
    {<<"connect", "verify">>, <<"verify", "auth">>, <<"verify", "record">>,
     <<"decide", "auth">>, <<"auth", "register">>, <<"exec", "run">>,
     <<"run", "run">>, <<"run", "complete">>, <<"complete", "succeed">>,
     <<"open", "allocate">>, <<"write", "writing">>, <<"resize", "resizing">>,
     <<"writing", "succeed">>, <<"resizing", "succeed">>}
    \cup (Quitting \X {"done"})

\* Nothing is told, or something of the worker's operation; if it is its end
\* the worker is done.
PlainTell(w, to) ==
    \/ UNCHANGED serviceVars
    \/ \E k \in S!TerminalKinds \cup {"Info"} :
          /\ k # "Info" => to = "done"
          /\ Emit(S!Event(k, w[1]))

Plain(w) ==
    /\ \E m \in PlainMoves : At(w, m[1]) /\ Goto(w, m[2]) /\ PlainTell(w, m[2])
    /\ UNCHANGED <<client, request, tableVars, readerVars, teardown>>

LEMMA TellIsPlain ==
    ASSUME NEW w \in Threads, NEW from, NEW to, <<from, to>> \in PlainMoves,
           At(w, from), NEW k \in S!TerminalKinds \cup {"Info"},
           k # "Info" => to = "done", Tell(w, S!Event(k, w[1]), to)
    PROVE  Plain(w)
<1>1. Goto(w, to) /\ PlainTell(w, to)
  BY DEF Tell, PlainTell
<1>2. UNCHANGED <<client, request, tableVars, readerVars, teardown>>
  BY DEF Tell, Emit
<1>3. PICK m \in PlainMoves : m = <<from, to>>
  OBVIOUS
<1>4. m[1] = from /\ m[2] = to
  BY <1>3
<1> QED  BY <1>1, <1>2, <1>4 DEF Plain

LEMMA PrivateIsPlain ==
    ASSUME NEW w \in Threads, NEW from, NEW to, <<from, to>> \in PlainMoves,
           At(w, from), Goto(w, to), Privately, UNCHANGED <<tableVars, readerVars>>
    PROVE  Plain(w)
<1>1. PlainTell(w, to)
  BY DEF Privately, PlainTell
<1>2. UNCHANGED <<client, request, tableVars, readerVars, teardown>>
  BY DEF Privately
<1>3. PICK m \in PlainMoves : m = <<from, to>>
  OBVIOUS
<1>4. m[1] = from /\ m[2] = to
  BY <1>3
<1> QED  BY <1>1, <1>2, <1>4 DEF Plain

\* Every other step of a worker.
Special(w) ==
    \/ Records(w)
    \/ At(w, "resolve") /\ w[1] \in pending /\ Resolves(w)
    \/ Registers(w) \/ Announces(w) \/ Allocates(w) \/ Starts(w)
    \/ TakesSession(w)
    \/ work[w].child \in bChildren /\ TakesChild(w)
    \/ Joins(w) \/ TellsGone(w) \/ Returns(w)

LEMMA WorkerSteps ==
    ASSUME NEW w \in Threads, Worker(w) PROVE Plain(w) \/ Special(w)
<1> DEFINE T == S!TerminalKinds \cup {"Info"}
<1>1. {"OperationSuccess", "OperationError", "OperationTimeout",
       "OperationCancelled", "Info"} \subseteq T
  BY DEF S!TerminalKinds
<1>2. \A from \in Quitting : <<from, "done">> \in PlainMoves
  BY DEF PlainMoves
<1>3. ASSUME NEW from, NEW to, NEW k \in T, At(w, from), <<from, to>> \in PlainMoves,
             k # "Info" => to = "done", Tell(w, S!Event(k, w[1]), to)
      PROVE  Plain(w)
  BY <1>3, TellIsPlain
<1>4. ASSUME NEW from, NEW to, At(w, from), <<from, to>> \in PlainMoves, Goto(w, to),
             Privately, UNCHANGED <<tableVars, readerVars>>
      PROVE  Plain(w)
  BY <1>4, PrivateIsPlain
<1> HIDE DEF T
<1>5. ASSUME NEW from \in Quitting, At(w, from),
             NEW k \in T, Tell(w, S!Event(k, w[1]), "done")
      PROVE  Plain(w)
  BY <1>2, <1>3, <1>5
<1>6. ASSUME NEW from, NEW to, Passes(w, from, to), <<from, to>> \in PlainMoves
      PROVE  Plain(w)
  BY <1>4, <1>6 DEF Passes
<1>7. ASSUME NEW from \in Quitting, NEW to, NEW known,
             <<from, to>> \in PlainMoves, LooksUp(w, from, known, to)
      PROVE  Plain(w)
  BY <1>1, <1>4, <1>5, <1>7 DEF LooksUp, Error
<1>8. CASE Fails(w)
  <2>1. PICK from \in Quitting : At(w, from)  BY <1>8 DEF Fails, At, Quitting
  <2> QED  BY <1>1, <1>5, <1>8, <2>1 DEF Fails, Error
<1>9. CASE Stops(w)
  <2>1. PICK from \in Quitting : At(w, from)  BY <1>9 DEF Stops, At, Quitting
  <2> QED  BY <1>1, <1>5, <1>9, <2>1 DEF Stops
<1>10. CASE Succeeds(w)
  BY <1>1, <1>5, <1>10 DEF Succeeds, Quitting
<1>11. CASE Connecting(w)
  <2>1. CASE Connects(w) \/ Verifies(w) \/ Authenticates(w)
    BY <1>6, <2>1 DEF Connects, Verifies, Authenticates, PlainMoves
  <2>2. CASE Challenges(w)  BY <1>1, <1>5, <2>2 DEF Challenges, Quitting
  <2>3. CASE Resolves(w)  BY <1>1, <1>5, <2>3 DEF Resolves, Error, Quitting, Special
  <2>4. CASE Decides(w)  BY <1>4, <2>4 DEF Decides, PlainMoves
  <2> QED  BY <1>11, <2>1, <2>2, <2>3, <2>4 DEF Connecting, Special
<1>12. CASE Running(w)
  <2>1. CASE LooksUp(w, "exec", work[w].session \in bSessions, "run")
    BY <1>7, <2>1 DEF PlainMoves, Quitting
  <2>2. CASE Streams(w)  BY <1>1, <1>3, <2>2 DEF Streams, PlainMoves
  <2>3. CASE Passes(w, "run", "complete")  BY <1>6, <2>3 DEF PlainMoves
  <2>4. CASE Completes(w)  BY <1>1, <1>3, <2>4 DEF Completes, PlainMoves
  <2> QED  BY <1>12, <2>1, <2>2, <2>3, <2>4 DEF Running
<1>13. CASE Opening(w)
  <2>1. CASE LooksUp(w, "open", work[w].session \in bSessions, "allocate")
    BY <1>7, <2>1 DEF PlainMoves, Quitting
  <2> QED  BY <1>13, <2>1 DEF Opening, Special
<1>14. CASE Writing(w)
  <2>1. CASE \/ LooksUp(w, "write", work[w].child \in bChildren, "writing")
             \/ LooksUp(w, "resize", work[w].child \in bChildren, "resizing")
    BY <1>7, <2>1 DEF PlainMoves, Quitting
  <2>2. CASE Passes(w, "writing", "succeed")  BY <1>6, <2>2 DEF PlainMoves
  <2>3. CASE /\ At(w, "resizing") /\ Goto(w, "succeed")
             /\ Privately /\ UNCHANGED <<tableVars, readerVars>>
    BY <1>4, <2>3 DEF PlainMoves
  <2> QED  BY <1>14, <2>1, <2>2, <2>3 DEF Writing
<1>15. CASE Ending(w)
  <2>1. CASE TakesChild(w)  BY <1>1, <1>5, <2>1 DEF TakesChild, Error, Quitting, Special
  <2> QED  BY <1>15, <2>1 DEF Ending, Special
<1> QED
  BY <1>8, <1>9, <1>10, <1>11, <1>12, <1>13, <1>14, <1>15 DEF Worker, Special

-----------------------------------------------------------------------------
(* What a step leaves.                                                     *)

LEMMA GotoLeaves ==
    ASSUME work \in [Threads -> Jobs], NEW w \in Threads, NEW pc \in WorkPcs,
           Goto(w, pc)
    PROVE  /\ work' \in [Threads -> Jobs]
           /\ work'[w].pc = pc /\ work'[w].session = work[w].session
           /\ work'[w].child = work[w].child /\ work'[w].taken = work[w].taken
           /\ \A v \in Threads : v # w => work'[v] = work[v]
  BY DEF Goto, Jobs

\* push_back.
LEMMA Appended ==
    ASSUME log \in Seq(Entries), NEW e \in Entries, log' = Append(log, e)
    PROVE  /\ log' \in Seq(Entries)
           /\ Len(log') = Len(log) + 1 /\ log'[Len(log) + 1] = e
           /\ \A k \in 1..Len(log) : log'[k] = log[k]
           /\ 1..Len(log') = 1..Len(log) \cup {Len(log) + 1}
           /\ Len(log) + 1 \notin 1..Len(log)
<1>1. /\ log' \in Seq(Entries)
      /\ Len(log') = Len(log) + 1 /\ log'[Len(log) + 1] = e
      /\ \A k \in 1..Len(log) : log'[k] = log[k]
  OBVIOUS
<1>2. Len(log) \in Nat
  OBVIOUS
<1> QED  BY <1>1, <1>2

LEMMA IdIsEntry ==
    /\ S!NoChild \in Ids /\ S!NoChild = <<"none", 0>>
    /\ S!Children \subseteq Ids /\ S!Children \subseteq Handles /\ Handles \subseteq Ids
    /\ S!NoChild \notin Handles
  BY BackendAssumption DEF S!NoChild, Ids, S!Children, Handles

\* Every event is an entry of the queue.
LEMMA HandleEntry ==
    ASSUME NEW k \in S!EventKinds, NEW i \in 0..MaxOps, NEW s \in 0..MaxSessions,
           NEW c \in Ids
    PROVE  /\ S!HandleEvent(k, i, s, c) \in Entries
           /\ S!HandleEvent(k, i, s, c).kind = k /\ S!HandleEvent(k, i, s, c).op = i
           /\ S!HandleEvent(k, i, s, c).session = s
           /\ S!HandleEvent(k, i, s, c).child = c
  BY DEF S!HandleEvent, Entries

LEMMA PlainEntry ==
    ASSUME NEW k \in S!TerminalKinds \cup {"Info"}, NEW i \in 0..MaxOps
    PROVE  /\ S!Event(k, i) \in Entries
           /\ S!Event(k, i).kind = k /\ S!Event(k, i).op = i
<1>1. k \in S!EventKinds /\ 0 \in 0..MaxSessions
  BY BackendAssumption DEF S!EventKinds
<1> QED  BY <1>1, IdIsEntry, HandleEntry DEF S!Event

\* emit drops the event, or notes what it says and queues it.
LEMMA EmitLeaves ==
    ASSUME NEW e, Emit(e)
    PROVE  /\ UNCHANGED <<shutdown, nextOp, nextSession, nextChild, polled, workers,
                          watcher, timed, mainPc, call, client, request, teardown>>
           /\ operations' \subseteq operations
           /\ \/ UNCHANGED <<operations, sessions, children, owner, log>>
              \/ /\ ~shutdown /\ log' = Append(log, e) /\ S!NoteHandles(e)
                 /\ e.op = 0 \/ e.op \in operations
                 /\ operations' = operations \
                        (IF e.kind \in S!TerminalKinds THEN {e.op} \ {0} ELSE {})
<1> USE DEF allocVars, threadVars, mainVars, S!opVars, S!tableVars
<1>1. CASE UNCHANGED <<S!opVars, S!tableVars, log>>
  BY <1>1 DEF Emit
<1>2. CASE ~S!Dropped(e) /\ S!Emit(e)
  BY <1>2 DEF Emit, S!Emit, S!Dropped, S!EndOperations, S!QueueEvent
<1> QED  BY <1>1, <1>2 DEF Emit, S!Emit

\* An event of an operation touches no table of the service.
LEMMA PlainNote ==
    ASSUME NEW k \in S!TerminalKinds \cup {"Info"}, NEW i, S!NoteHandles(S!Event(k, i))
    PROVE  UNCHANGED <<sessions, children, owner>>
<1>1. S!Event(k, i).kind = k
  BY DEF S!Event, S!HandleEvent
<1>2. k \notin {"Connected", "SessionClosed", "Opened", "Closed"}
  BY DEF S!TerminalKinds
<1> QED  BY <1>1, <1>2 DEF S!NoteHandles

\* Nothing is queued but an event of an operation.
PlainLog ==
    \/ log' = log
    \/ \E e \in Entries : e.kind \in S!TerminalKinds \cup {"Info"} /\ log' = Append(log, e)

LEMMA PlainEmit ==
    ASSUME NEW k \in S!TerminalKinds \cup {"Info"}, NEW i \in 0..MaxOps,
           Emit(S!Event(k, i))
    PROVE  PlainLog /\ UNCHANGED <<sessions, children, owner>>
<1>1. PICK e : e = S!Event(k, i)
  OBVIOUS
<1>2. e \in Entries /\ e.kind = k
  BY <1>1, PlainEntry
<1>3. CASE UNCHANGED <<operations, sessions, children, owner, log>>
  BY <1>3 DEF PlainLog
<1>4. CASE log' = Append(log, e) /\ S!NoteHandles(e)
  BY <1>1, <1>2, <1>4, PlainNote DEF PlainLog
<1> QED  BY <1>1, <1>3, <1>4, EmitLeaves

LEMMA ThreadType ==
    ASSUME NEW w \in Threads PROVE w[1] \in 1..MaxOps /\ w[1] \in 0..MaxOps
                                   /\ w[2] \in 1..MaxWorkers /\ w = <<w[1], w[2]>>
  BY BackendAssumption DEF Threads, S!OpIds

LEMMA PlainLeaves ==
    ASSUME NEW w \in Threads, Plain(w)
    PROVE  /\ \E m \in PlainMoves : At(w, m[1]) /\ Goto(w, m[2])
           /\ UNCHANGED <<shutdown, nextOp, nextSession, nextChild, mainPc, sessions,
                          children, client, request, bSessions, bChildren, bOwner,
                          pending, reader, stopped, teardown>>
           /\ operations' \subseteq operations /\ PlainLog
<1>1. PICK m \in PlainMoves : At(w, m[1]) /\ Goto(w, m[2]) /\ PlainTell(w, m[2])
  BY DEF Plain
<1>2. UNCHANGED <<client, request, tableVars, readerVars, teardown>>
  BY DEF Plain
<1>3. CASE UNCHANGED serviceVars
  BY <1>1, <1>2, <1>3 DEF serviceVars, allocVars, mainVars, tableVars, readerVars, PlainLog
<1>4. ASSUME NEW k \in S!TerminalKinds \cup {"Info"}, Emit(S!Event(k, w[1]))
      PROVE  /\ UNCHANGED <<shutdown, nextOp, nextSession, nextChild, mainPc,
                            sessions, children>>
             /\ operations' \subseteq operations /\ PlainLog
  BY <1>4, EmitLeaves, PlainEmit, ThreadType
<1> QED  BY <1>1, <1>2, <1>3, <1>4 DEF PlainTell, tableVars, readerVars

-----------------------------------------------------------------------------
(* Shapes are kept.                                                        *)

LEMMA PlainLogType ==
    ASSUME log \in Seq(Entries), PlainLog
    PROVE  /\ log' \in Seq(Entries) /\ Len(log) \in Nat
           /\ 1..Len(log) \subseteq 1..Len(log')
           /\ \A k \in 1..Len(log) : log'[k] = log[k]
           /\ \A k \in 1..Len(log') : k \notin 1..Len(log) =>
                 log'[k].kind \in S!TerminalKinds \cup {"Info"}
<1>1. CASE log' = log
  BY <1>1
<1>2. ASSUME NEW e \in Entries, e.kind \in S!TerminalKinds \cup {"Info"},
             log' = Append(log, e)
      PROVE  /\ log' \in Seq(Entries) /\ Len(log) \in Nat
             /\ 1..Len(log) \subseteq 1..Len(log')
             /\ \A k \in 1..Len(log) : log'[k] = log[k]
             /\ \A k \in 1..Len(log') : k \notin 1..Len(log) =>
                   log'[k].kind \in S!TerminalKinds \cup {"Info"}
  BY <1>2, Appended
<1> QED  BY <1>1, <1>2 DEF PlainLog

LEMMA EmitLog ==
    ASSUME log \in Seq(Entries), NEW e \in Entries, Emit(e)
    PROVE  log' \in Seq(Entries)
  BY EmitLeaves, Appended

\* A worker's step, as far as shapes go.
LEMMA ShapeWorker ==
    ASSUME ShapeInv, NEW w \in Threads, ~At(w, "none"),
           UNCHANGED <<nextOp, request, shutdown, client>>,
           nextSession' \in 1..(MaxSessions + 1),
           nextChild' \in [ChildTypes -> 1..(MaxChildren + 1)],
           reader' \in [Handles -> {"none", "running", "closing", "over"}],
           bChildren' \subseteq Handles, operations' \subseteq operations,
           pending' \subseteq pending \cup {w[1]},
           log' \in Seq(Entries), work' \in [Threads -> Jobs],
           \A v \in Threads : v # w => work'[v] = work[v],
           Fits(work'[w])
    PROVE  ShapeInv'
<1>1. Shape'
  BY DEF ShapeInv, Shape
<1>2. Program'
  BY DEF ShapeInv, Program
<1>3. w[1] \in 1..(nextOp - 1)
  BY ThreadType DEF ShapeInv, Fresh, Shape
<1>4. Fresh'
  BY <1>3, ThreadType DEF ShapeInv, Fresh, At
<1> QED  BY <1>1, <1>2, <1>4 DEF ShapeInv

LEMMA PlainTargets ==
    ASSUME NEW m \in PlainMoves
    PROVE  /\ m[1] \in WorkPcs \ {"none"} /\ m[2] \in WorkPcs
           /\ m[1] \notin {"announce", "take", "join", "gone", "done"}
           /\ m[2] \notin {"none", "connect", "decide", "start", "announce", "open",
                           "take", "drop", "join", "gone", "resolve", "challenge", "exec"}
           /\ m[2] = "allocate" => m[1] = "open"
           /\ m[2] \in {"verify", "record", "auth", "register"} =>
                 m[1] \in {"connect", "verify", "decide", "auth"}
  BY DEF PlainMoves, Quitting, WorkPcs, Closing

LEMMA ShapePlain ==
    ASSUME ShapeInv, NEW w \in Threads, Plain(w) PROVE ShapeInv'
<1>1. PICK m \in PlainMoves : At(w, m[1]) /\ Goto(w, m[2])
  BY PlainLeaves
<1>2. /\ work' \in [Threads -> Jobs]
      /\ work'[w].pc = m[2] /\ work'[w].child = work[w].child
      /\ \A v \in Threads : v # w => work'[v] = work[v]
  BY <1>1, GotoLeaves, PlainTargets DEF ShapeInv, Shape
<1>3. Fits(work[w]) /\ work[w].pc = m[1]
  BY <1>1 DEF ShapeInv, Program, At
<1>4. Fits(work'[w])
  BY <1>2, <1>3, PlainTargets DEF Fits, Sessionless
<1>5. log' \in Seq(Entries)
  BY PlainLeaves, PlainLogType DEF ShapeInv, Shape
<1>6. ~At(w, "none")
  BY <1>3, PlainTargets DEF At
<1> QED  BY <1>2, <1>4, <1>5, <1>6, PlainLeaves, ShapeWorker DEF ShapeInv, Shape

LEMMA PrivatelyLeaves ==
    ASSUME Privately
    PROVE  UNCHANGED <<shutdown, nextOp, operations, nextSession, nextChild, log, mainPc,
                       sessions, children, workers, request, client, teardown>>
  BY DEF Privately, serviceVars, allocVars, threadVars, mainVars

\* What the thread w is working on.
LEMMA JobType ==
    ASSUME Shape, NEW w \in Threads
    PROVE  /\ work[w] \in Jobs /\ work[w].pc \in WorkPcs
           /\ work[w].session \in 0..MaxSessions /\ work[w].child \in Ids
  BY DEF Shape, Jobs

AnnouncedBy(w) ==
    S!HandleEvent(IF work[w].child = S!NoChild THEN "Connected" ELSE "Opened",
                  w[1], work[w].session, work[w].child)
GoneBy(w) ==
    IF work[w].child = S!NoChild
    THEN S!HandleEvent("SessionClosed", w[1], work[w].session, S!NoChild)
    ELSE S!HandleEvent("Closed", w[1], 0, work[w].child)

LEMMA ToldEntries ==
    ASSUME Shape, NEW w \in Threads
    PROVE  AnnouncedBy(w) \in Entries /\ GoneBy(w) \in Entries
<1>1. {"Connected", "SessionClosed", "Opened", "Closed"} \subseteq S!EventKinds
  BY DEF S!EventKinds
<1>2. 0 \in 0..MaxSessions
  BY BackendAssumption
<1> QED  BY <1>1, <1>2, JobType, ThreadType, IdIsEntry, HandleEntry DEF AnnouncedBy, GoneBy

LEMMA AnnouncesLeaves ==
    ASSUME NEW w \in Threads, Announces(w)
    PROVE  /\ At(w, "announce") /\ Goto(w, "succeed") /\ Emit(AnnouncedBy(w))
           /\ UNCHANGED <<bSessions, bChildren, bOwner, pending, reader, stopped>>
  BY DEF Announces, Tell, AnnouncedBy, tableVars, readerVars

LEMMA TellsGoneLeaves ==
    ASSUME NEW w \in Threads, TellsGone(w)
    PROVE  /\ At(w, "gone") /\ Goto(w, "succeed") /\ Emit(GoneBy(w))
           /\ UNCHANGED <<bSessions, bChildren, bOwner, pending, reader, stopped>>
  BY DEF TellsGone, Tell, GoneBy, tableVars, readerVars

\* Registers and Allocates: the id is the service's next, or 0 after shutdown.
LEMMA RegistersLeaves ==
    ASSUME Shape, NEW w \in Threads, Registers(w)
    PROVE  \E s \in 0..MaxSessions :
             /\ s = IF shutdown THEN 0 ELSE nextSession
             /\ nextSession' = IF shutdown THEN nextSession ELSE nextSession + 1
             /\ nextSession' \in 1..(MaxSessions + 1)
             /\ At(w, "register") /\ bSessions' = bSessions \cup {s}
             /\ work' = [work EXCEPT ![w].pc = "announce", ![w].session = s]
             /\ UNCHANGED <<shutdown, nextOp, operations, nextChild, log, mainPc,
                            sessions, children, request, client, bChildren, bOwner,
                            pending, reader, stopped, teardown>>
<1>1. PICK s : s = IF shutdown THEN 0 ELSE nextSession
  OBVIOUS
<1>2. UNCHANGED <<shutdown, nextOp, operations, nextChild, log, mainPc, sessions, children>>
  BY DEF Registers, S!AllocateSession, serviceVars, mainVars, allocVars, S!opVars,
         S!tableVars, S!eventVars, S!mainVars
<1>3. /\ nextSession' = IF shutdown THEN nextSession ELSE nextSession + 1
      /\ ~shutdown => nextSession <= MaxSessions
  BY DEF Registers, S!AllocateSession, serviceVars, allocVars
<1>4. s \in 0..MaxSessions /\ nextSession' \in 1..(MaxSessions + 1)
  BY <1>1, <1>3, BackendAssumption DEF Shape
<1> QED  BY <1>1, <1>2, <1>3, <1>4 DEF Registers, readerVars

LEMMA AllocatesLeaves ==
    ASSUME Shape, NEW w \in Threads, Allocates(w), work[w].child[1] \in ChildTypes
    PROVE  \E c \in Handles :
             /\ c = <<work[w].child[1],
                      IF shutdown THEN 0 ELSE nextChild[work[w].child[1]]>>
             /\ nextChild' = IF shutdown THEN nextChild
                             ELSE [nextChild EXCEPT ![c[1]] = @ + 1]
             /\ nextChild' \in [ChildTypes -> 1..(MaxChildren + 1)]
             /\ At(w, "allocate") /\ bChildren' = bChildren \cup {c}
             /\ work' = [work EXCEPT ![w].pc = "start", ![w].child = c]
             /\ UNCHANGED <<shutdown, nextOp, operations, nextSession, log, mainPc,
                            sessions, children, request, client, bSessions, pending,
                            reader, stopped, teardown>>
<1> DEFINE t == work[w].child[1]
<1>1. PICK c : c = <<t, IF shutdown THEN 0 ELSE nextChild[t]>>
  OBVIOUS
<1>2. UNCHANGED <<shutdown, nextOp, operations, nextSession, log, mainPc, sessions, children>>
  BY DEF Allocates, S!AllocateChild, serviceVars, mainVars, allocVars, S!opVars,
         S!tableVars, S!eventVars, S!mainVars
<1>3. /\ nextChild' = IF shutdown THEN nextChild ELSE [nextChild EXCEPT ![t] = @ + 1]
      /\ ~shutdown => nextChild[t] <= MaxChildren
  BY DEF Allocates, S!AllocateChild, serviceVars, allocVars
<1>4. At(w, "allocate") /\ bChildren' = bChildren \cup {c}
      /\ work' = [work EXCEPT ![w].pc = "start", ![w].child = c]
      /\ UNCHANGED <<request, client, bSessions, pending, reader, stopped, teardown>>
  BY <1>1 DEF Allocates, readerVars
<1> HIDE DEF t
<1>5. t \in ChildTypes
  BY DEF t
<1>6. nextChild[t] \in 1..(MaxChildren + 1)
  BY <1>5 DEF Shape
<1>7. (IF shutdown THEN 0 ELSE nextChild[t]) \in 0..MaxChildren
  BY <1>3, <1>6, BackendAssumption
<1>8. c \in Handles /\ c[1] = t
  BY <1>1, <1>5, <1>7 DEF Handles
<1>9. nextChild' \in [ChildTypes -> 1..(MaxChildren + 1)]
  BY <1>3, <1>5, <1>6, BackendAssumption DEF Shape
<1> QED  BY <1>1, <1>2, <1>3, <1>4, <1>8, <1>9 DEF t

LEMMA ReturnsLeaves ==
    ASSUME NEW w \in Threads, Returns(w)
    PROVE  /\ At(w, "done") /\ work' = [work EXCEPT ![w] = NoJob]
           /\ UNCHANGED <<shutdown, nextOp, operations, nextSession, nextChild, log,
                          mainPc, sessions, children, request, client, bSessions,
                          bChildren, bOwner, pending, reader, stopped, teardown>>
  BY DEF Returns, S!WorkerReturns, S!WorkerGone, S!opVars, S!tableVars, S!allocVars,
         S!mainVars, tableVars, readerVars

LEMMA NoJobType == NoJob \in Jobs /\ NoJob.pc = "none" /\ NoJob.child = S!NoChild
<1>1. S!NoChild \in Ids /\ 0 \in 0..MaxSessions
  BY IdIsEntry, BackendAssumption
<1> QED  BY <1>1 DEF NoJob, Job, Jobs, WorkPcs

LEMMA ShapeSpecial ==
    ASSUME ShapeInv, NEW w \in Threads, Special(w) PROVE ShapeInv'
<1> USE DEF ShapeInv
<1>1. /\ Shape /\ work \in [Threads -> Jobs] /\ Fits(work[w])
      /\ pending \subseteq pending \cup {w[1]}
      /\ nextSession \in 1..(MaxSessions + 1)
      /\ nextChild \in [ChildTypes -> 1..(MaxChildren + 1)]
      /\ reader \in [Handles -> {"none", "running", "closing", "over"}]
      /\ bChildren \subseteq Handles /\ log \in Seq(Entries)
  BY DEF Shape, Program
<1>2. CASE Records(w)
  <2>1. /\ work' \in [Threads -> Jobs] /\ work'[w].pc = "challenge"
        /\ work'[w].child = work[w].child
        /\ \A v \in Threads : v # w => work'[v] = work[v]
    BY <1>1, <1>2, GotoLeaves DEF Records, WorkPcs
  <2>2. Fits(work'[w])  BY <1>1, <1>2, <2>1 DEF Records, Fits, Sessionless, At
  <2> QED  BY <1>1, <1>2, <2>1, <2>2, PrivatelyLeaves, ShapeWorker DEF Records, At, readerVars
<1>3. CASE At(w, "resolve") /\ w[1] \in pending /\ Resolves(w)
  <2>1. /\ Goto(w, "decide") /\ Privately /\ pending' = pending \ {w[1]}
        /\ UNCHANGED <<bSessions, bChildren, bOwner, readerVars>>
    BY <1>3 DEF Resolves
  <2>2. /\ work' \in [Threads -> Jobs] /\ work'[w].pc = "decide"
        /\ work'[w].child = work[w].child
        /\ \A v \in Threads : v # w => work'[v] = work[v]
    BY <1>1, <2>1, GotoLeaves DEF WorkPcs
  <2>3. Fits(work'[w])  BY <1>1, <1>3, <2>2 DEF Fits, Sessionless, At
  <2> QED  BY <1>1, <1>3, <2>1, <2>2, <2>3, PrivatelyLeaves, ShapeWorker DEF At, readerVars
<1>4. CASE Registers(w)
  <2>1. PICK s \in 0..MaxSessions :
           /\ At(w, "register") /\ nextSession' \in 1..(MaxSessions + 1)
           /\ work' = [work EXCEPT ![w].pc = "announce", ![w].session = s]
           /\ UNCHANGED <<shutdown, nextOp, operations, nextChild, log, request, client,
                          bChildren, pending, reader>>
    BY <1>1, <1>4, RegistersLeaves
  <2>2. work' \in [Threads -> Jobs] /\ work'[w].pc = "announce"
        /\ \A v \in Threads : v # w => work'[v] = work[v]
    BY <1>1, <2>1 DEF Jobs, WorkPcs
  <2>3. Fits(work'[w])  BY <2>2 DEF Fits, Sessionless
  <2> QED  BY <1>1, <2>1, <2>2, <2>3, ShapeWorker DEF At
<1>5. ASSUME NEW from \in {"announce", "gone"}, NEW e \in Entries,
             At(w, from), Goto(w, "succeed"), Emit(e),
             UNCHANGED <<bSessions, bChildren, bOwner, pending, reader, stopped>>
      PROVE  ShapeInv'
  <2>1. /\ work' \in [Threads -> Jobs] /\ work'[w].pc = "succeed"
        /\ \A v \in Threads : v # w => work'[v] = work[v]
    BY <1>1, <1>5, GotoLeaves DEF WorkPcs
  <2>2. Fits(work'[w])  BY <2>1 DEF Fits, Sessionless
  <2>3. log' \in Seq(Entries)  BY <1>1, <1>5, EmitLog
  <2> QED  BY <1>1, <1>5, <2>1, <2>2, <2>3, EmitLeaves, ShapeWorker DEF At
<1>6. CASE Announces(w) \/ TellsGone(w)
  BY <1>1, <1>5, <1>6, ToldEntries, AnnouncesLeaves, TellsGoneLeaves
<1>7. CASE Allocates(w)
  <2>1. work[w].child[1] \in ChildTypes  BY <1>1, <1>7 DEF Allocates, At, Fits
  <2>2. PICK c \in Handles :
           /\ nextChild' \in [ChildTypes -> 1..(MaxChildren + 1)]
           /\ At(w, "allocate") /\ bChildren' = bChildren \cup {c}
           /\ work' = [work EXCEPT ![w].pc = "start", ![w].child = c]
           /\ UNCHANGED <<shutdown, nextOp, operations, nextSession, log, request, client,
                          pending, reader>>
    BY <1>1, <1>7, <2>1, AllocatesLeaves
  <2>3. /\ work' \in [Threads -> Jobs] /\ work'[w].pc = "start" /\ work'[w].child = c
        /\ \A v \in Threads : v # w => work'[v] = work[v]
    BY <1>1, <2>2, IdIsEntry DEF Jobs, WorkPcs
  <2>4. Fits(work'[w])  BY <2>3 DEF Fits, Sessionless
  <2> QED  BY <1>1, <2>2, <2>3, <2>4, ShapeWorker DEF At
<1>8. CASE Starts(w)
  <2>1. /\ work' \in [Threads -> Jobs] /\ work'[w].pc = "announce"
        /\ \A v \in Threads : v # w => work'[v] = work[v]
    BY <1>1, <1>8, GotoLeaves DEF Starts, WorkPcs
  <2>2. Fits(work'[w])  BY <2>1 DEF Fits, Sessionless
  <2>3. reader' \in [Handles -> {"none", "running", "closing", "over"}]  BY <1>1, <1>8 DEF Starts
  <2> QED  BY <1>1, <1>8, <2>1, <2>2, <2>3, PrivatelyLeaves, ShapeWorker
           DEF Starts, At, tableVars
<1>9. ASSUME NEW pc \in {"take", "drop", "join"}, At(w, pc), NEW to \in {"join", "gone"},
             NEW C \in SUBSET Handles, Privately, UNCHANGED <<pending, reader>>,
             bChildren' \subseteq bChildren,
             work' = [work EXCEPT ![w].pc = to, ![w].taken = C],
             to = "join" /\ work[w].child # S!NoChild => work[w].child \in C
      PROVE  ShapeInv'
  <2>1. /\ work' \in [Threads -> Jobs] /\ work'[w].pc = to /\ work'[w].taken = C
        /\ work'[w].child = work[w].child
        /\ \A v \in Threads : v # w => work'[v] = work[v]
    BY <1>1, <1>9 DEF Jobs, WorkPcs, Closing
  <2>2. Fits(work'[w])  BY <1>9, <2>1 DEF Fits, Sessionless
  <2> QED  BY <1>1, <1>9, <2>1, <2>2, PrivatelyLeaves, ShapeWorker DEF At
<1>10. CASE TakesSession(w)
  <2>1. work[w].child = S!NoChild /\ Owned(work[w].session) \in SUBSET Handles
    BY <1>1, <1>10 DEF TakesSession, Fits, Sessionless, At, Owned
  <2> QED  BY <1>9, <1>10, <2>1 DEF TakesSession, Forget
<1>11. CASE work[w].child \in bChildren /\ TakesChild(w)
  <2>1. {work[w].child} \in SUBSET Handles  BY <1>1, <1>11
  <2> QED  BY <1>9, <1>11, <2>1 DEF TakesChild, Forget
<1>12. CASE Joins(w)
  <2>1. At(w, "join") /\ Privately /\ UNCHANGED <<bChildren, pending, reader>>
        /\ work' = [work EXCEPT ![w].pc = "gone", ![w].taken = {}]
    BY <1>12 DEF Joins, tableVars, readerVars
  <2>2. {} \in SUBSET Handles /\ bChildren' \subseteq bChildren  BY <2>1
  <2> QED  BY <1>9, <2>1, <2>2
<1>13. CASE Returns(w)
  <2>1. /\ work' \in [Threads -> Jobs] /\ work'[w] = NoJob
        /\ \A v \in Threads : v # w => work'[v] = work[v]
    BY <1>1, <1>13, ReturnsLeaves, NoJobType
  <2>2. Fits(work'[w])  BY <2>1, NoJobType DEF Fits, Sessionless
  <2> QED  BY <1>1, <1>13, <2>1, <2>2, ReturnsLeaves, ShapeWorker DEF At
<1> QED
  BY <1>2, <1>3, <1>4, <1>6, <1>7, <1>8, <1>10, <1>11, <1>12, <1>13 DEF Special

\* No operation was cut short and no known-host decision was sent.
Undisturbed ==
    /\ ~shutdown
    /\ client.made.resolve = 0
    /\ \A k \in 1..Len(log) : log[k].kind \notin {"OperationTimeout", "OperationCancelled"}

\* Steps of the main thread and the watchers that start nothing.
Quiet ==
    /\ UNCHANGED <<nextOp, nextSession, nextChild, work, request, reader>>
    /\ operations' \subseteq operations /\ pending' \subseteq pending
    /\ sessions' \subseteq sessions /\ children' \subseteq children
    /\ bSessions' \subseteq bSessions /\ bChildren' \subseteq bChildren
    /\ mainPc' # "known" \/ mainPc' = mainPc
    /\ PlainLog
    /\ shutdown' \in BOOLEAN /\ (shutdown => shutdown')
    /\ client' \in [calls : [Sorts -> Nat], timed : BOOLEAN, made : [Sorts -> Nat]]
    /\ client'.made.resolve = 0 => client.made.resolve = 0
    /\ UNCHANGED <<operations, sessions, bSessions>> \/ ~Undisturbed'
    /\ bSessions' = bSessions \/ shutdown'

LEMMA CallsLeaves ==
    ASSUME Shape, NEW sort \in Sorts, Calls(sort)
    PROVE  /\ client' \in [calls : [Sorts -> Nat], timed : BOOLEAN, made : [Sorts -> Nat]]
           /\ client'.made.resolve = 0 => client.made.resolve = 0
           /\ sort = "resolve" => client'.made.resolve # 0
<1> DEFINE M == [client.made EXCEPT ![sort] = @ + 1]
<1>1. client.made \in [Sorts -> Nat] /\ "resolve" \in Sorts
  BY DEF Shape, Sorts
<1>2. /\ M \in [Sorts -> Nat]
      /\ M["resolve"] = 0 => client.made["resolve"] = 0
      /\ sort = "resolve" => M["resolve"] # 0
  BY <1>1
<1>3. client' = [client EXCEPT !.made = M]
  BY DEF Calls
<1> HIDE DEF M
<1>4. /\ client' = [calls |-> client.calls, timed |-> client.timed, made |-> M]
      /\ client.calls \in [Sorts -> Nat] /\ client.timed \in BOOLEAN
  BY <1>3 DEF Shape
<1>5. /\ client' \in [calls : [Sorts -> Nat], timed : BOOLEAN, made : [Sorts -> Nat]]
      /\ client'.made = M
  BY <1>2, <1>4
<1> QED  BY <1>2, <1>5

LEMMA FinishLeaves ==
    ASSUME Shape, NEW i \in S!OpIds, NEW k \in {"OperationTimeout", "OperationCancelled"},
           S!Finishable(i), S!FinishOperation(i, k)
    PROVE  operations' \subseteq operations /\ PlainLog /\ ~Undisturbed'
<1>1. PICK e : e = S!Event(k, i)
  OBVIOUS
<1>2. i \in 0..MaxOps /\ k \in S!TerminalKinds
  BY BackendAssumption DEF S!OpIds, S!TerminalKinds
<1>3. e \in Entries /\ e.kind = k
  BY <1>1, <1>2, PlainEntry
<1>4. log' = Append(log, e)
  BY <1>1 DEF S!Finishable, S!FinishOperation, S!QueueEvent
<1>5. Len(log) + 1 \in 1..Len(log') /\ log'[Len(log) + 1] = e
  BY <1>3, <1>4, Appended DEF Shape
<1>6. ~Undisturbed'
  BY <1>3, <1>5 DEF Undisturbed
<1> QED  BY <1>2, <1>3, <1>4, <1>6
    DEF PlainLog, S!FinishOperation, S!EndOperations

LEMMA CancelOperationsLeaves ==
    ASSUME NEW I, CancelOperations(I)
    PROVE  /\ pending' \subseteq pending
           /\ UNCHANGED <<request, work, bSessions, bChildren, bOwner, reader, teardown>>
  BY DEF CancelOperations

LEMMA WatcherQuiet ==
    ASSUME Shape, NEW i \in S!OpIds, Watcher(i) PROVE Quiet
<1> USE DEF S!opVars, S!tableVars, S!allocVars, S!mainVars, Quiet
<1>1. UNCHANGED <<shutdown, nextOp, sessions, children, owner, nextSession, nextChild,
                  mainPc>>
  BY DEF Watcher, S!WatcherQuits, S!WatcherExpires, S!WatcherFinishes, S!WatcherTold,
         S!WatcherSteps
<1>2. /\ UNCHANGED <<request, work, bSessions, bChildren, reader, client>>
      /\ pending' \subseteq pending
  BY CancelOperationsLeaves DEF Watcher, backendVars, tableVars, readerVars
<1>3. CASE UNCHANGED <<S!opVars, log>>
  BY <1>1, <1>2, <1>3 DEF PlainLog, Shape
<1>4. CASE S!Finishable(i) /\ S!FinishOperation(i, "OperationTimeout")
  BY <1>1, <1>2, <1>4, FinishLeaves DEF Shape
<1> QED  BY <1>3, <1>4 DEF Watcher, S!WatcherQuits, S!WatcherExpires, S!WatcherFinishes,
                           S!WatcherTold

LEMMA TearsQuietly ==
    ASSUME Shape, Teardown \/ TeardownJoined PROVE Quiet
<1>1. CASE Teardown
  <2>1. UNCHANGED <<nextOp, nextSession, nextChild, work, request, reader, operations,
                    sessions, children, mainPc, log, shutdown, client>>
        /\ bSessions' = {} /\ bChildren' = {} /\ pending' = {} /\ shutdown
    BY <1>1 DEF Teardown, serviceVars, allocVars, mainVars
  <2> QED  BY <2>1 DEF Quiet, PlainLog, Undisturbed, Shape
<1>2. CASE TeardownJoined
  BY <1>2 DEF TeardownJoined, serviceVars, allocVars, mainVars, tableVars, readerVars,
              Quiet, PlainLog, Shape
<1> QED  BY <1>1, <1>2

LEMMA MainQuiet ==
    ASSUME Shape,
           \/ \E i \in S!OpIds : Cancel(i)
           \/ CancelTold \/ Shutdown \/ ShutdownTold \/ ShutdownJoined
    PROVE  Quiet
<1> USE DEF S!opVars, S!tableVars, S!allocVars, S!eventVars, Sorts
<1>1. ASSUME NEW i \in S!OpIds, Cancel(i) PROVE Quiet
  <2>1. /\ UNCHANGED <<shutdown, nextOp, sessions, children, nextSession, nextChild>>
        /\ mainPc' = "cancelling"
        /\ S!Finishable(i) /\ S!FinishOperation(i, "OperationCancelled")
        /\ UNCHANGED <<request, work, bSessions, bChildren, reader, pending>>
    BY <1>1 DEF Cancel, S!Cancel, backendVars, tableVars, readerVars
  <2>2. Calls("cancel")  BY <1>1 DEF Cancel
  <2> QED  BY <2>1, <2>2, CallsLeaves, FinishLeaves DEF Quiet, Shape
<1>2. CASE CancelTold \/ ShutdownTold \/ ShutdownJoined
  <2>1. /\ UNCHANGED <<shutdown, nextOp, operations, sessions, children, nextSession,
                       nextChild, log, client>>
        /\ mainPc' # "known"
    BY <1>2 DEF CancelTold, ShutdownTold, ShutdownJoined, S!CancelTold, S!ShutdownTold,
                S!ShutdownJoined
  <2>2. /\ UNCHANGED <<request, work, bSessions, bChildren, reader>>
        /\ pending' \subseteq pending
    BY <1>2, CancelOperationsLeaves
    DEF CancelTold, ShutdownTold, ShutdownJoined, backendVars, tableVars, readerVars
  <2> QED  BY <2>1, <2>2 DEF Quiet, PlainLog, Shape
<1>3. CASE Shutdown
  <2>1. /\ UNCHANGED <<nextOp, nextSession, nextChild, log>>
        /\ shutdown' = TRUE /\ operations' = operations \ operations
        /\ sessions' = {} /\ children' = {} /\ mainPc' = "shutting"
        /\ UNCHANGED <<request, work, bSessions, bChildren, reader, pending>>
    BY <1>3 DEF Shutdown, S!Shutdown, S!EndOperations, backendVars, tableVars, readerVars
  <2>2. Calls("shutdown")  BY <1>3 DEF Shutdown
  <2> QED  BY <2>1, <2>2, CallsLeaves DEF Quiet, PlainLog, Undisturbed
<1> QED  BY <1>1, <1>2, <1>3

LEMMA ShapeQuiet == ShapeInv /\ Quiet => ShapeInv'
<1> SUFFICES ASSUME ShapeInv, Quiet PROVE ShapeInv'
  OBVIOUS
<1>1. Shape'
  BY PlainLogType DEF Quiet, ShapeInv, Shape
<1>2. Program' /\ Fresh'
  BY DEF Quiet, ShapeInv, Program, Fresh, At
<1> QED  BY <1>1, <1>2 DEF ShapeInv

-----------------------------------------------------------------------------
(* What the steps of the main thread and of a child's thread do.           *)

ClientKept ==
    /\ client' \in [calls : [Sorts -> Nat], timed : BOOLEAN, made : [Sorts -> Nat]]
    /\ client'.made.resolve = 0 => client.made.resolve = 0

\* The first half of a call: job would be its work.
Asks(job, known) ==
    /\ request' = job /\ mainPc' = IF known THEN "known" ELSE "unknown"
    /\ ClientKept
    /\ UNCHANGED <<shutdown, nextOp, operations, sessions, children, nextSession,
                   nextChild, log, work, bSessions, bChildren, bOwner, pending, reader,
                   stopped, teardown>>

Asking ==
    \/ \E s \in S!AllocatedSessions : Asks(Job("take", s, S!NoChild), s \in sessions)
    \/ \E s \in S!AllocatedSessions : Asks(Job("exec", s, S!NoChild), s \in sessions)
    \/ \E s \in S!AllocatedSessions, type \in ChildTypes :
          Asks(Job("open", s, <<type, 0>>), s \in sessions)
    \/ \E c \in S!AllocatedChildren, pc \in {"write", "resize", "drop"} :
          Asks(Job(pc, 0, c), c \in children)

\* A new operation, with job as its work unless the service is shut down.
Starting(job) ==
    /\ nextOp <= MaxOps /\ nextOp' = nextOp + 1
    /\ operations' = operations \cup {nextOp}
    /\ Begin(nextOp, job)
    /\ mainPc' = "idle" /\ request' \in {request, NoJob}
    /\ ClientKept
    /\ UNCHANGED <<shutdown, sessions, children, nextSession, nextChild, log, bSessions,
                   bChildren, bOwner, pending, reader, stopped, teardown>>

ConnectJob == Job("connect", 0, S!NoChild)

\* An id that gets an error and no work.
Refusing ==
    /\ nextOp' \in {nextOp, nextOp + 1} /\ nextOp' <= MaxOps + 1
    /\ PlainLog
    /\ mainPc' = "idle" /\ request' = NoJob /\ ClientKept
    /\ Undisturbed' => Undisturbed
    /\ UNCHANGED <<shutdown, operations, sessions, children, nextSession, nextChild, work,
                   bSessions, bChildren, bOwner, pending, reader, stopped, teardown>>

LEMMA AskSteps ==
    ASSUME Shape, NEW t \in BOOLEAN,
           \/ \E s \in S!AllocatedSessions :
                 CloseSession(s) \/ Exec(s, t) \/ \E type \in ChildTypes : Open(s, type, t)
           \/ \E c \in S!AllocatedChildren : Write(c, t) \/ Resize(c) \/ CloseChild(c)
    PROVE  Asking
<1> USE DEF Sorts
<1>1. ASSUME NEW job, NEW known, NEW timeout, NEW sort \in Sorts, Calls(sort),
             S!Check(known, timeout), Requests(job)
      PROVE  Asks(job, known)
  BY <1>1, CallsLeaves
  DEF S!Check, Requests, Asks, ClientKept, S!opVars, S!tableVars, S!allocVars,
      S!eventVars, tableVars, readerVars
<1>2. ASSUME NEW s \in S!AllocatedSessions, CloseSession(s) PROVE Asking
  BY <1>1, <1>2 DEF CloseSession, S!CheckSession, Asking
<1>3. ASSUME NEW s \in S!AllocatedSessions, Exec(s, t) PROVE Asking
  BY <1>1, <1>3 DEF Exec, S!CheckSession, Asking
<1>4. ASSUME NEW s \in S!AllocatedSessions, NEW type \in ChildTypes, Open(s, type, t)
      PROVE  Asking
  BY <1>1, <1>4 DEF Open, S!CheckSession, Asking
<1>5. ASSUME NEW c \in S!AllocatedChildren, Write(c, t) PROVE Asking
  BY <1>1, <1>5 DEF Write, S!CheckChild, Asking
<1>6. ASSUME NEW c \in S!AllocatedChildren, Resize(c) PROVE Asking
  BY <1>1, <1>6 DEF Resize, S!CheckChild, Asking
<1>7. ASSUME NEW c \in S!AllocatedChildren, CloseChild(c) PROVE Asking
  BY <1>1, <1>7 DEF CloseChild, S!CheckChild, Asking
<1> QED  BY <1>2, <1>3, <1>4, <1>5, <1>6, <1>7

LEMMA UndisturbedBefore ==
    ASSUME Shape, log' = log \/ \E e \in Entries : log' = Append(log, e), ClientKept,
           shutdown => shutdown', Undisturbed'
    PROVE  Undisturbed
<1>1. /\ 1..Len(log) \subseteq 1..Len(log')
      /\ \A k \in 1..Len(log) : log'[k] = log[k]
  <2>1. ASSUME NEW e \in Entries, log' = Append(log, e)
        PROVE  /\ 1..Len(log) \subseteq 1..Len(log')
               /\ \A k \in 1..Len(log) : log'[k] = log[k]
    BY <2>1, Appended DEF Shape
  <2> QED  BY <2>1
<1> QED  BY <1>1 DEF Undisturbed, ClientKept

LEMMA StartSteps ==
    ASSUME Shape, (\E t \in BOOLEAN : Connect(t)) \/ Proceed
    PROVE  \/ Starting(ConnectJob)
           \/ mainPc = "known" /\ Starting(request)
           \/ Refusing
<1> USE DEF S!allocVars, S!tableVars, S!eventVars, S!mainVars, tableVars, readerVars, Sorts
<1>1. ASSUME NEW t \in BOOLEAN, Connect(t) PROVE Starting(ConnectJob)
  <2>1. ClientKept  BY <1>1, CallsLeaves DEF Connect, ClientKept
  <2> QED  BY <1>1, <2>1 DEF Connect, S!Connect, S!StartOperation, Starting, ConnectJob
<1>2. CASE Proceed /\ mainPc = "known"
  <2>1. ClientKept  BY <1>2 DEF Proceed, ClientKept, Shape
  <2> QED  BY <1>2, <2>1 DEF Proceed, S!Proceed, S!StartOperation, Starting
<1>3. CASE Proceed /\ mainPc # "known"
  <2>1. ClientKept  BY <1>3 DEF Proceed, ClientKept, Shape
  <2>2. S!EnqueueError /\ UNCHANGED <<shutdown, operations, sessions, children,
                                      nextSession, nextChild>> /\ mainPc' = "idle"
    BY <1>3 DEF Proceed, S!Proceed
  <2>3. PlainLog /\ nextOp' \in {nextOp, nextOp + 1} /\ nextOp' <= MaxOps + 1
    <3>1. CASE UNCHANGED <<nextOp, log>>  BY <3>1 DEF PlainLog, Shape
    <3>2. CASE /\ nextOp <= MaxOps /\ nextOp' = nextOp + 1
               /\ S!QueueEvent(S!Event("OperationError", nextOp))
      <4>1. nextOp \in 0..MaxOps /\ nextOp' <= MaxOps + 1  BY <3>2, BackendAssumption DEF Shape
      <4>2. /\ S!Event("OperationError", nextOp) \in Entries
            /\ S!Event("OperationError", nextOp).kind \in S!TerminalKinds
        BY <4>1, PlainEntry DEF S!TerminalKinds
      <4> QED  BY <3>2, <4>1, <4>2 DEF PlainLog, S!QueueEvent
    <3> QED  BY <2>2, <3>1, <3>2 DEF S!EnqueueError
  <2>4. Undisturbed' => Undisturbed  BY <2>1, <2>2, <2>3, UndisturbedBefore DEF PlainLog
  <2> QED  BY <1>3, <2>1, <2>2, <2>3, <2>4 DEF Proceed, Refusing
<1> QED  BY <1>1, <1>2, <1>3

\* One more worker for an operation that is not over.
Resolving ==
    /\ \E w \in Threads :
          /\ At(w, "none") /\ w[1] \in operations
          /\ work' = [work EXCEPT ![w] = Job("resolve", 0, S!NoChild)]
    /\ ClientKept /\ client'.made.resolve # 0
    /\ UNCHANGED <<shutdown, nextOp, operations, sessions, children, nextSession,
                   nextChild, log, mainPc, request, bSessions, bChildren, bOwner, pending,
                   reader, stopped, teardown>>

LEMMA ResolveSteps ==
    ASSUME Shape, NEW i \in S!OpIds, ResolveKnownHost(i) PROVE Resolving
<1>1. ClientKept /\ client'.made.resolve # 0
  BY CallsLeaves DEF ResolveKnownHost, ClientKept, Sorts
<1>2. PICK n \in 2..MaxWorkers :
         At(<<i, n>>, "none") /\ work' = [work EXCEPT ![<<i, n>>] = Job("resolve", 0, S!NoChild)]
  BY DEF ResolveKnownHost
<1>3. PICK w : w = <<i, n>>
  OBVIOUS
<1>4. w \in Threads /\ w[1] = i
  BY <1>3, BackendAssumption DEF Threads
<1>5. /\ i \in operations
      /\ UNCHANGED <<shutdown, nextOp, operations, sessions, children, nextSession,
                     nextChild, log, mainPc, request, bSessions, bChildren, bOwner,
                     pending, reader, stopped, teardown>>
  BY DEF ResolveKnownHost, S!ResolveKnownHost, S!opVars, S!tableVars, S!allocVars,
         S!eventVars, S!mainVars, tableVars, readerVars
<1> QED  BY <1>1, <1>2, <1>3, <1>4, <1>5 DEF Resolving

LEMMA MainSteps ==
    ASSUME Shape, Main
    PROVE  \/ Quiet \/ Asking \/ Resolving
           \/ Starting(ConnectJob)
           \/ mainPc = "known" /\ Starting(request)
           \/ Refusing
<1>1. client.timed \in BOOLEAN
  BY DEF Shape
<1> QED
  BY <1>1, AskSteps, StartSteps, ResolveSteps, MainQuiet, TearsQuietly, Zenon DEF Main

\* The thread of c and what it tells.
ReaderGoesOver(c) ==
    /\ reader[c] = "running" /\ reader' = [reader EXCEPT ![c] = "over"]
    /\ c \in stopped
    /\ bChildren' = bChildren /\ UNCHANGED <<operations, sessions, children, log>>
ReaderLeaves(c) ==
    /\ reader[c] = "running"
    /\ reader' = [reader EXCEPT ![c] = IF c \in bChildren THEN "closing" ELSE "over"]
    /\ bChildren' = bChildren \ {c} /\ UNCHANGED <<operations, sessions, children, log>>
ClosedBy(c) == S!HandleEvent("Closed", 0, 0, c)
ReaderCloses(c) ==
    /\ reader[c] = "closing" /\ reader' = [reader EXCEPT ![c] = "over"]
    /\ bChildren' = bChildren /\ Emit(ClosedBy(c))
ReaderInforms(c) ==
    /\ UNCHANGED <<operations, sessions, children, bChildren, reader>> /\ PlainLog

LEMMA ReaderSteps ==
    ASSUME Shape, NEW c \in Handles, Reader(c)
    PROVE  /\ \/ ReaderGoesOver(c) \/ ReaderLeaves(c) \/ ReaderCloses(c)
              \/ ReaderInforms(c)
           /\ UNCHANGED <<shutdown, nextOp, nextSession, nextChild, mainPc, request, client,
                          work, bSessions, pending, teardown>>
<1> USE DEF tableVars, readerVars, ReaderGoes
<1>1. CASE ReaderTells(c)
  <2>1. PlainLog /\ UNCHANGED <<sessions, children>> /\ Emit(S!Event("Info", 0))
    BY <1>1, PlainEmit, BackendAssumption DEF ReaderTells
  <2>2. operations' = operations
    <3>1. S!Event("Info", 0).kind \notin S!TerminalKinds
      BY DEF S!Event, S!HandleEvent, S!TerminalKinds
    <3> QED  BY <2>1, <3>1, EmitLeaves
  <2> QED  BY <1>1, <2>1, <2>2, EmitLeaves DEF ReaderTells, ReaderInforms
<1>2. CASE ReaderQuits(c)
  BY <1>2, PrivatelyLeaves DEF ReaderQuits, ReaderGoesOver
<1>3. CASE ReaderEnds(c)
  BY <1>3, PrivatelyLeaves DEF ReaderEnds, ReaderLeaves, Forget
<1>4. CASE ReaderTellsClosed(c)
  BY <1>4, EmitLeaves DEF ReaderTellsClosed, ReaderCloses, ClosedBy
<1> QED  BY <1>1, <1>2, <1>3, <1>4 DEF Reader

LEMMA ClosedByEntry == ASSUME NEW c \in Handles PROVE ClosedBy(c) \in Entries
<1>1. 0 \in 0..MaxOps /\ 0 \in 0..MaxSessions /\ "Closed" \in S!EventKinds
  BY BackendAssumption DEF S!EventKinds
<1> QED  BY <1>1, IdIsEntry, HandleEntry DEF ClosedBy

LEMMA AllocatedIds ==
    ASSUME Shape
    PROVE  /\ S!AllocatedSessions \subseteq S!SessionIds
           /\ S!SessionIds \subseteq 0..MaxSessions
           /\ S!AllocatedChildren \subseteq S!Children
<1>1. nextSession \in 1..(MaxSessions + 1) /\ MaxSessions \in Nat
  BY BackendAssumption DEF Shape
<1> QED  BY <1>1 DEF S!AllocatedSessions, S!SessionIds, S!AllocatedChildren

RequestPcs == {"take", "exec", "open", "write", "resize", "drop"}
LEMMA JobIsJob ==
    ASSUME NEW pc \in RequestPcs \cup {"connect", "resolve"}, NEW s \in 0..MaxSessions,
           NEW c \in Ids
    PROVE  /\ Job(pc, s, c) \in Jobs
           /\ Job(pc, s, c).pc = pc /\ Job(pc, s, c).session = s /\ Job(pc, s, c).child = c
<1>1. pc \in WorkPcs
  BY DEF RequestPcs, WorkPcs, Closing
<1> QED  BY <1>1 DEF Job, Jobs

-----------------------------------------------------------------------------
(* Shapes, continued.                                                      *)

\* What the main thread asks for has the shape of a job.
LEMMA AskedJob ==
    ASSUME Shape, Asking
    PROVE  \E job \in Jobs :
             /\ \E known : Asks(job, known)
             /\ job.pc \in RequestPcs
             /\ job.pc \in {"take", "exec"} => job.child = S!NoChild
             /\ job.pc = "open" => job.child[1] \in ChildTypes
<1>1. 0 \in 0..MaxSessions /\ 0 \in 0..MaxChildren
  BY BackendAssumption
<1>2. ASSUME NEW pc \in {"take", "exec"}, NEW s \in S!AllocatedSessions, NEW known,
             Asks(Job(pc, s, S!NoChild), known)
      PROVE  \E job \in Jobs :
               /\ \E k : Asks(job, k)
               /\ job.pc \in RequestPcs
               /\ job.pc \in {"take", "exec"} => job.child = S!NoChild
               /\ job.pc = "open" => job.child[1] \in ChildTypes
  BY <1>2, AllocatedIds, IdIsEntry, JobIsJob DEF RequestPcs
<1>3. ASSUME NEW s \in S!AllocatedSessions, NEW type \in ChildTypes, NEW known,
             Asks(Job("open", s, <<type, 0>>), known)
      PROVE  \E job \in Jobs :
               /\ \E k : Asks(job, k)
               /\ job.pc \in RequestPcs
               /\ job.pc \in {"take", "exec"} => job.child = S!NoChild
               /\ job.pc = "open" => job.child[1] \in ChildTypes
  <2>1. <<type, 0>> \in Ids /\ <<type, 0>>[1] = type  BY <1>1 DEF Ids
  <2>2. "open" \in RequestPcs /\ s \in 0..MaxSessions  BY AllocatedIds DEF RequestPcs
  <2>3. /\ Job("open", s, <<type, 0>>) \in Jobs
        /\ Job("open", s, <<type, 0>>).pc = "open"
        /\ Job("open", s, <<type, 0>>).child = <<type, 0>>
    BY <2>1, <2>2, JobIsJob
  <2> QED  BY <1>3, <2>1, <2>2, <2>3
<1>4. ASSUME NEW c \in S!AllocatedChildren, NEW pc \in {"write", "resize", "drop"},
             NEW known, Asks(Job(pc, 0, c), known)
      PROVE  \E job \in Jobs :
               /\ \E k : Asks(job, k)
               /\ job.pc \in RequestPcs
               /\ job.pc \in {"take", "exec"} => job.child = S!NoChild
               /\ job.pc = "open" => job.child[1] \in ChildTypes
  BY <1>1, <1>4, AllocatedIds, IdIsEntry, JobIsJob DEF RequestPcs
<1> QED  BY <1>2, <1>3, <1>4 DEF Asking

LEMMA ShapeAsking == ShapeInv /\ Asking => ShapeInv'
<1> SUFFICES ASSUME ShapeInv, Asking PROVE ShapeInv'
  OBVIOUS
<1>1. PICK job \in Jobs :
         /\ \E known : Asks(job, known)
         /\ job.pc \in RequestPcs
         /\ job.pc \in {"take", "exec"} => job.child = S!NoChild
         /\ job.pc = "open" => job.child[1] \in ChildTypes
  BY AskedJob DEF ShapeInv
<1>2. Shape'
  BY <1>1 DEF Asks, ClientKept, ShapeInv, Shape
<1>3. Program' /\ Fresh'
  BY <1>1 DEF Asks, ShapeInv, Program, Fresh, RequestPcs, At
<1> QED  BY <1>2, <1>3 DEF ShapeInv

\* The work of a new operation.
LEMMA BeginLeaves ==
    ASSUME Shape, nextOp <= MaxOps, NEW job \in Jobs, Begin(nextOp, job)
    PROVE  \E w \in Threads :
             /\ w = <<nextOp, 1>> /\ w[1] = nextOp /\ w[2] = 1
             /\ work' \in [Threads -> Jobs]
             /\ \A v \in Threads : v # w => work'[v] = work[v]
             /\ work'[w] = IF shutdown THEN work[w] ELSE job
<1>1. PICK w : w = <<nextOp, 1>>
  OBVIOUS
<1>2. w \in Threads /\ w[1] = nextOp /\ w[2] = 1
  BY <1>1, BackendAssumption DEF Shape, Threads, S!OpIds
<1>3. work' = IF shutdown THEN work ELSE [work EXCEPT ![w] = job]
  BY <1>1 DEF Begin
<1> QED  BY <1>1, <1>2, <1>3 DEF Shape

LEMMA ShapeStarting ==
    ASSUME ShapeInv, NEW job \in Jobs, Starting(job), Fits(job) PROVE ShapeInv'
<1> USE DEF ShapeInv
<1>1. PICK w \in Threads :
         /\ w[1] = nextOp
         /\ work' \in [Threads -> Jobs]
         /\ \A v \in Threads : v # w => work'[v] = work[v]
         /\ work'[w] = IF shutdown THEN work[w] ELSE job
  BY BeginLeaves DEF Starting
<1>2. nextOp \in 1..MaxOps /\ nextOp' = nextOp + 1
  BY BackendAssumption DEF Starting, Shape
<1>3. Shape'
  BY <1>1, <1>2, NoJobType, BackendAssumption DEF Starting, ClientKept, Shape
<1>4. Program'
  <2>1. request'.pc = "none" \/ request' = request  BY NoJobType DEF Starting
  <2>2. \A v \in Threads : Fits(work'[v])  BY <1>1 DEF Program
  <2> QED  BY <2>1, <2>2 DEF Program
<1>5. Fresh'
  <2>1. 1..(nextOp' - 1) = 1..(nextOp - 1) \cup {nextOp}  BY <1>2
  <2>2. \A v \in Threads : v[1] >= nextOp' => v[1] >= nextOp /\ v # w  BY <1>1, <1>2, ThreadType
  <2> QED  BY <1>1, <2>1, <2>2 DEF Starting, Fresh, At
<1> QED  BY <1>3, <1>4, <1>5

LEMMA ShapeMain == ShapeInv /\ Main => ShapeInv'
<1> SUFFICES ASSUME ShapeInv, Main PROVE ShapeInv'
  OBVIOUS
<1> USE DEF ShapeInv
<1>1. CASE Starting(ConnectJob)
  <2>1. ConnectJob \in Jobs /\ Fits(ConnectJob)
    BY JobIsJob, IdIsEntry, BackendAssumption DEF ConnectJob, Fits, Sessionless
  <2> QED  BY <1>1, <2>1, ShapeStarting
<1>2. CASE Starting(request)
  BY <1>2, ShapeStarting DEF Program, Fits, Sessionless, Shape
<1>3. CASE Refusing
  <2>1. log' \in Seq(Entries) /\ nextOp' \in 1..(MaxOps + 1) /\ nextOp' >= nextOp
    BY <1>3, PlainLogType, BackendAssumption DEF Refusing, Shape
  <2>2. Shape' /\ Program'  BY <1>3, <2>1, NoJobType DEF Refusing, ClientKept, Shape, Program
  <2>3. 1..(nextOp - 1) \subseteq 1..(nextOp' - 1)
        /\ \A w \in Threads : w[1] >= nextOp' => w[1] >= nextOp
    BY <2>1, ThreadType DEF Shape
  <2> QED  BY <1>3, <2>2, <2>3 DEF Refusing, Fresh, At
<1>4. CASE Resolving
  <2>1. PICK w \in Threads :
           /\ At(w, "none") /\ w[1] \in operations
           /\ work' = [work EXCEPT ![w] = Job("resolve", 0, S!NoChild)]
    BY <1>4 DEF Resolving
  <2>2. /\ Job("resolve", 0, S!NoChild) \in Jobs /\ Fits(Job("resolve", 0, S!NoChild))
    BY JobIsJob, IdIsEntry, BackendAssumption DEF Fits, Sessionless
  <2>3. /\ work' \in [Threads -> Jobs] /\ Fits(work'[w])
        /\ \A v \in Threads : v # w => work'[v] = work[v]
    BY <2>1, <2>2 DEF Shape
  <2>4. Shape' /\ Program'  BY <1>4, <2>3 DEF Resolving, ClientKept, Shape, Program
  <2>5. ~(w[1] >= nextOp)  BY <2>1, ThreadType DEF Fresh, Shape
  <2> QED  BY <1>4, <2>3, <2>4, <2>5 DEF Resolving, Fresh, At
<1> QED  BY <1>1, <1>2, <1>3, <1>4, MainSteps, ShapeQuiet, ShapeAsking

LEMMA ShapeReader == ASSUME ShapeInv, NEW c \in Handles, Reader(c) PROVE ShapeInv'
<1> USE DEF ShapeInv
<1>1. ASSUME log' \in Seq(Entries), operations' \subseteq operations,
             bChildren' \subseteq bChildren,
             reader' \in [Handles -> {"none", "running", "closing", "over"}]
      PROVE  ShapeInv'
  BY <1>1, ReaderSteps DEF Shape, Program, Fresh, At
<1>2. CASE ReaderGoesOver(c) \/ ReaderLeaves(c)
  BY <1>1, <1>2 DEF ReaderGoesOver, ReaderLeaves, Shape
<1>3. CASE ReaderCloses(c)
  <2>1. log' \in Seq(Entries) /\ operations' \subseteq operations
    BY <1>3, ClosedByEntry, EmitLog, EmitLeaves DEF ReaderCloses, Shape
  <2> QED  BY <1>1, <1>3, <2>1 DEF ReaderCloses, Shape
<1>4. CASE ReaderInforms(c)
  BY <1>1, <1>4, PlainLogType DEF ReaderInforms, Shape
<1> QED  BY <1>2, <1>3, <1>4, ReaderSteps

\* The steps by their kinds.
StepKinds ==
    \/ Quiet \/ Asking \/ Resolving \/ Refusing
    \/ Starting(ConnectJob)
    \/ mainPc = "known" /\ Starting(request)
    \/ \E w \in Threads : Plain(w) \/ Special(w)
    \/ \E c \in Handles : Reader(c)
    \/ UNCHANGED vars

LEMMA Steps == ASSUME Shape, [Next]_vars PROVE StepKinds
<1>1. CASE Main
  <2>1. \/ Quiet \/ Asking \/ Resolving \/ Starting(ConnectJob)
        \/ mainPc = "known" /\ Starting(request)
        \/ Refusing
    BY <1>1, MainSteps
  <2> QED  BY <2>1, Zenon DEF StepKinds
<1>2. CASE \E i \in S!OpIds : Watcher(i)
  BY <1>2, WatcherQuiet DEF StepKinds
<1>3. CASE \E w \in Threads : Worker(w)
  BY <1>3, WorkerSteps DEF StepKinds
<1>4. CASE Rest
  BY <1>4 DEF Rest, StepKinds
<1> QED  BY <1>1, <1>2, <1>3, <1>4 DEF Next, StepKinds

LEMMA VarsLeaves ==
    ASSUME UNCHANGED vars
    PROVE  UNCHANGED <<shutdown, nextOp, operations, sessions, children, nextSession,
                       nextChild, log, mainPc, client, request, work, bSessions, bChildren,
                       pending, reader, teardown>>
  BY DEF vars, serviceVars, allocVars, mainVars, backendVars, tableVars, readerVars

LEMMA ShapeInit == Init => ShapeInv
<1> SUFFICES ASSUME Init PROVE ShapeInv
  OBVIOUS
<1> USE BackendAssumption
<1>1. /\ log = <<>> /\ nextOp = 1 /\ nextSession = 1 /\ shutdown = FALSE /\ operations = {}
      /\ nextChild = [t \in ChildTypes |-> 1]
  BY DEF Init, S!Init
<1>2. log \in Seq(Entries) /\ nextChild \in [ChildTypes -> 1..(MaxChildren + 1)]
  BY <1>1
<1>3. work \in [Threads -> Jobs] /\ request \in Jobs
  BY NoJobType DEF Init
<1>4. client \in [calls : [Sorts -> Nat], timed : BOOLEAN, made : [Sorts -> Nat]]
  BY ClientsAssumption DEF Init
<1>8. /\ reader \in [Handles -> {"none", "running", "closing", "over"}]
      /\ bChildren \subseteq Handles
  BY DEF Init
<1>9. nextOp \in 1..(MaxOps + 1) /\ nextSession \in 1..(MaxSessions + 1)
  BY <1>1
<1>5. Shape
  BY <1>1, <1>2, <1>3, <1>4, <1>8, <1>9 DEF Shape
<1>6. Program
  BY NoJobType DEF Init, Program, Fits, Sessionless
<1>7. Fresh
  BY <1>1, NoJobType DEF Init, Fresh, At
<1> QED  BY <1>5, <1>6, <1>7 DEF ShapeInv

LEMMA ShapeStep == ShapeInv /\ [Next]_vars => ShapeInv'
<1> SUFFICES ASSUME ShapeInv, [Next]_vars PROVE ShapeInv'
  OBVIOUS
<1>1. CASE UNCHANGED vars
  BY <1>1, VarsLeaves DEF ShapeInv, Shape, Program, Fresh, At
<1>2. CASE \E i \in S!OpIds : Watcher(i)
  BY <1>2, WatcherQuiet, ShapeQuiet DEF ShapeInv
<1>3. CASE \E w \in Threads : Worker(w)
  BY <1>3, WorkerSteps, ShapePlain, ShapeSpecial
<1>4. CASE Rest
  BY <1>1, <1>4 DEF Rest
<1> QED  BY <1>1, <1>2, <1>3, <1>4, ShapeMain, ShapeReader DEF Next

THEOREM ShapesAreKept == Spec => []ShapeInv
  BY ShapeInit, ShapeStep, PTL DEF Spec

-----------------------------------------------------------------------------
(***************************************************************************)
(* One decision.  What the known-host decision takes, the challenge, is    *)
(* there only while no thread of the operation goes on by itself, and at   *)
(* most one thread of an operation does.                                   *)
(***************************************************************************)

Alone ==
    {"connect", "verify", "record", "decide", "auth", "register", "open", "allocate",
     "start", "announce"}

OneAlone ==
    /\ \A v, w \in Threads :
          v[1] = w[1] /\ work[v].pc \in Alone /\ work[w].pc \in Alone => v = w
    /\ \A w \in Threads : work[w].pc \in Alone => w[1] \notin pending

LEMMA AloneFrame ==
    ASSUME OneAlone, pending' \subseteq pending,
           \A w \in Threads : work'[w].pc \in Alone => work[w].pc \in Alone
    PROVE  OneAlone'
  BY DEF OneAlone

\* A step that makes no thread go on alone.
LEMMA AloneMove ==
    ASSUME OneAlone, pending' \subseteq pending, NEW w \in Threads,
           \A v \in Threads : v # w => work'[v] = work[v],
           work'[w].pc \in Alone => work[w].pc \in Alone
    PROVE  OneAlone'
<1>1. \A v \in Threads : work'[v].pc \in Alone => work[v].pc \in Alone
  OBVIOUS
<1> QED  BY <1>1, AloneFrame

\* Where the steps with a backend table lead.
LEMMA SpecialGoes ==
    ASSUME ShapeInv, NEW w \in Threads, Special(w)
    PROVE  /\ \A v \in Threads : v # w => work'[v] = work[v]
           /\ \/ At(w, "record") /\ work'[w].pc = "challenge"
                 /\ pending' = pending \cup {w[1]}
              \/ At(w, "resolve") /\ work'[w].pc = "decide" /\ w[1] \in pending
                 /\ pending' = pending \ {w[1]}
              \/ /\ pending' = pending
                 /\ <<work[w].pc, work'[w].pc>> \in
                       {<<"register", "announce">>, <<"announce", "succeed">>,
                        <<"allocate", "start">>, <<"start", "announce">>,
                        <<"take", "join">>, <<"drop", "join">>, <<"join", "gone">>,
                        <<"gone", "succeed">>, <<"done", "none">>}
<1> USE DEF ShapeInv, Shape, At
<1>1. ASSUME NEW pc \in WorkPcs, Goto(w, pc)
      PROVE  work'[w].pc = pc /\ \A v \in Threads : v # w => work'[v] = work[v]
  BY <1>1, GotoLeaves
<1>2. CASE Records(w)
  BY <1>1, <1>2 DEF Records, WorkPcs
<1>3. CASE At(w, "resolve") /\ w[1] \in pending /\ Resolves(w)
  BY <1>1, <1>3 DEF Resolves, WorkPcs
<1>4. CASE Registers(w)
  BY <1>4 DEF Registers
<1>5. CASE Announces(w) \/ TellsGone(w)
  BY <1>1, <1>5, AnnouncesLeaves, TellsGoneLeaves DEF WorkPcs
<1>6. CASE Allocates(w)
  BY <1>6 DEF Allocates
<1>7. CASE Starts(w)
  BY <1>1, <1>7 DEF Starts, WorkPcs, tableVars
<1>8. CASE TakesSession(w)
  BY <1>8 DEF TakesSession
<1>9. CASE work[w].child \in bChildren /\ TakesChild(w)
  <2>1. /\ work[w].pc = "drop" /\ pending' = pending
        /\ work' = [work EXCEPT ![w].pc = "join", ![w].taken = {work[w].child}]
    BY <1>9 DEF TakesChild
  <2> QED  BY <2>1
<1>10. CASE Joins(w)
  BY <1>10 DEF Joins, tableVars
<1>11. CASE Returns(w)
  BY <1>11, ReturnsLeaves, NoJobType
<1> QED
  BY <1>2, <1>3, <1>4, <1>5, <1>6, <1>7, <1>8, <1>9, <1>10, <1>11 DEF Special

LEMMA AloneInit == Init => OneAlone
  BY NoJobType DEF Init, OneAlone, Alone

LEMMA AloneStarting ==
    ASSUME ShapeInv, OneAlone, NEW job \in Jobs, Starting(job)
    PROVE  OneAlone'
<1>1. PICK w \in Threads :
         /\ w[1] = nextOp
         /\ \A v \in Threads : v # w => work'[v] = work[v]
  BY BeginLeaves DEF Starting, ShapeInv
<1>2. \A v \in Threads : v[1] = nextOp => work[v].pc \notin Alone
  BY DEF ShapeInv, Shape, Fresh, At, Alone
<1>3. nextOp \notin pending /\ pending' = pending
  BY DEF Starting, ShapeInv, Shape, Fresh
<1> QED  BY <1>1, <1>2, <1>3 DEF OneAlone

LEMMA AloneSpecial ==
    ASSUME ShapeInv, OneAlone, NEW w \in Threads, Special(w)
    PROVE  OneAlone'
<1>1. \A v \in Threads : v # w => work'[v] = work[v]
  BY SpecialGoes
<1>2. CASE At(w, "record") /\ work'[w].pc = "challenge" /\ pending' = pending \cup {w[1]}
  BY <1>1, <1>2 DEF OneAlone, Alone, At
<1>3. CASE At(w, "resolve") /\ work'[w].pc = "decide" /\ w[1] \in pending
           /\ pending' = pending \ {w[1]}
  <2>1. \A v \in Threads : v[1] = w[1] => work[v].pc \notin Alone  BY <1>3 DEF OneAlone
  <2> QED  BY <1>1, <1>3, <2>1 DEF OneAlone
<1>4. CASE /\ pending' = pending
           /\ <<work[w].pc, work'[w].pc>> \in
                 {<<"register", "announce">>, <<"announce", "succeed">>,
                  <<"allocate", "start">>, <<"start", "announce">>,
                  <<"take", "join">>, <<"drop", "join">>, <<"join", "gone">>,
                  <<"gone", "succeed">>, <<"done", "none">>}
  <2>1. work'[w].pc \in Alone => work[w].pc \in Alone  BY <1>4 DEF Alone
  <2> QED  BY <1>1, <1>4, <2>1, AloneMove
<1> QED  BY <1>2, <1>3, <1>4, SpecialGoes

LEMMA AloneStep == ShapeInv /\ OneAlone /\ [Next]_vars => OneAlone'
<1> SUFFICES ASSUME ShapeInv, OneAlone, [Next]_vars PROVE OneAlone'
  OBVIOUS
<1>1. CASE Quiet \/ Asking \/ Refusing \/ (\E c \in Handles : Reader(c))
           \/ UNCHANGED vars
  <2>1. pending' \subseteq pending /\ work' = work
    BY <1>1, ReaderSteps, VarsLeaves DEF Quiet, Asking, Asks, Refusing, ShapeInv
  <2> QED  BY <2>1, AloneFrame
<1>2. CASE Resolving
  <2>1. PICK w \in Threads :
           /\ At(w, "none")
           /\ work' = [work EXCEPT ![w] = Job("resolve", 0, S!NoChild)]
    BY <1>2 DEF Resolving
  <2>2. /\ \A v \in Threads : v # w => work'[v] = work[v]
        /\ work'[w].pc = "resolve" /\ pending' = pending
    BY <1>2, <2>1 DEF Resolving, Job, ShapeInv, Shape
  <2> QED  BY <2>2, AloneMove DEF Alone
<1>3. CASE Starting(ConnectJob)
  <2>1. ConnectJob \in Jobs  BY JobIsJob, IdIsEntry, BackendAssumption DEF ConnectJob
  <2> QED  BY <1>3, <2>1, AloneStarting
<1>4. CASE Starting(request)
  BY <1>4, AloneStarting DEF ShapeInv, Shape
<1>5. ASSUME NEW w \in Threads, Plain(w) PROVE OneAlone'
  <2>1. PICK m \in PlainMoves : At(w, m[1]) /\ Goto(w, m[2])  BY <1>5, PlainLeaves
  <2>2. /\ work'[w].pc = m[2] /\ work[w].pc = m[1] /\ pending' = pending
        /\ \A v \in Threads : v # w => work'[v] = work[v]
    BY <1>5, <2>1, PlainLeaves, PlainTargets, GotoLeaves DEF ShapeInv, Shape, At
  <2>3. m[2] \in Alone => m[1] \in Alone  BY PlainTargets DEF Alone
  <2> QED  BY <2>2, <2>3, AloneMove
<1> QED  BY <1>1, <1>2, <1>3, <1>4, <1>5, Steps, AloneSpecial DEF StepKinds, ShapeInv

\* However often the client decides on a known host, one thread goes on.
THEOREM OneDecision == Spec => []DecidedOnce
<1>1. OneAlone => DecidedOnce
  BY DEF OneAlone, DecidedOnce, Alone
<1> QED  BY <1>1, ShapeInit, ShapeStep, AloneInit, AloneStep, PTL DEF Spec

-----------------------------------------------------------------------------
(***************************************************************************)
(* Closing a channel or tunnel.  The right to tell that c is closed is     *)
(* with the table it is in, with the call that took it out of the table,   *)
(* with its own thread, or used.  A call that closes c comes after c was   *)
(* announced, so the call that opened it has stored its thread.            *)
(***************************************************************************)

Opens(w, c) == work[w].pc \in {"start", "announce"} /\ work[w].child = c
Drops(w, c) == work[w].pc = "drop" /\ work[w].child = c
Ends(w, c) == work[w].pc \in {"join", "gone"} /\ work[w].child = c
Asked(c) == mainPc = "known" /\ request.pc = "drop" /\ request.child = c
Born(c) == c[2] < nextChild[c[1]]
SaysOpened(c) == \E k \in 1..Len(log) : log[k].kind = "Opened" /\ log[k].child = c
SaysClosed(c) == \E k \in 1..Len(log) : log[k].kind = "Closed" /\ log[k].child = c
SaysClosedOnce(c) ==
    \A k, m \in 1..Len(log) :
        /\ log[k].kind = "Closed" /\ log[k].child = c
        /\ log[m].kind = "Closed" /\ log[m].child = c
        => k = m

\* Until c is announced one call opens it and nobody can ask for its end.
Opener(c) ==
    /\ \A v, w \in Threads : Opens(v, c) /\ Opens(w, c) => v = w
    /\ \A w \in Threads : Opens(w, c) =>
          /\ c \notin children /\ ~Asked(c) /\ ~SaysOpened(c) /\ Born(c)
          /\ \A v \in Threads : ~Drops(v, c) /\ ~Ends(v, c)
          /\ work[w].pc = "start" => reader[c] = "none"

\* An id that was not given out is nowhere.
Unborn(c) ==
    ~Born(c) =>
        /\ c \notin bChildren /\ c \notin children /\ reader[c] = "none"
        /\ ~Asked(c) /\ ~SaysOpened(c) /\ ~SaysClosed(c)
        /\ \A w \in Threads : ~Opens(w, c) /\ ~Drops(w, c) /\ ~Ends(w, c)

\* One of them tells.
Teller(c) ==
    /\ \A v, w \in Threads : Ends(v, c) /\ Ends(w, c) => v = w
    /\ \A w \in Threads : Ends(w, c) =>
          /\ c \notin bChildren /\ reader[c] # "closing" /\ ~SaysClosed(c)
          /\ work[w].pc = "gone" => reader[c] = "over"
    /\ c \in bChildren => reader[c] # "closing" /\ ~SaysClosed(c)
    /\ reader[c] = "closing" => ~SaysClosed(c)
    /\ SaysClosed(c) => reader[c] = "over"
    /\ SaysClosedOnce(c)

Child(c) == Opener(c) /\ Unborn(c) /\ Teller(c)
ChildInv == \A c \in S!Children : Child(c)

LogCalm(c) ==
    /\ SaysOpened(c)' => SaysOpened(c)
    /\ SaysClosed(c)' => SaysClosed(c)
    /\ SaysClosedOnce(c) => SaysClosedOnce(c)'

Busy == {"start", "announce", "drop", "join", "gone"}

\* No thread takes c up.
ThreadsCalm(c) ==
    \A w \in Threads :
        \/ work'[w] = work[w]
        \/ work'[w].pc \notin Busy
        \/ work'[w].child # c

LEMMA ChildFrame ==
    ASSUME NEW c \in S!Children, Child(c), ThreadsCalm(c), LogCalm(c),
           Asked(c)' => Asked(c), c \in children' => c \in children,
           c \in bChildren' => c \in bChildren, reader'[c] = reader[c],
           Born(c) => Born(c)'
    PROVE  Child(c)'
<1>1. \A w \in Threads :
         /\ Opens(w, c)' => Opens(w, c) /\ work'[w].pc = work[w].pc
         /\ Drops(w, c)' => Drops(w, c)
         /\ Ends(w, c)' => Ends(w, c) /\ work'[w].pc = work[w].pc
  BY DEF ThreadsCalm, Busy, Opens, Drops, Ends
<1>2. Opener(c)'
  BY <1>1 DEF Child, Opener, LogCalm
<1>3. Unborn(c)'
  BY <1>1 DEF Child, Unborn, LogCalm
<1>4. Teller(c)'
  BY <1>1 DEF Child, Teller, LogCalm
<1> QED  BY <1>2, <1>3, <1>4 DEF Child

LEMMA SameLog == ASSUME log' = log, NEW c PROVE LogCalm(c)
  BY DEF LogCalm, SaysOpened, SaysClosed, SaysClosedOnce

\* An event that neither opens nor closes c.
LEMMA OtherLog ==
    ASSUME log \in Seq(Entries), NEW e \in Entries, log' = Append(log, e), NEW c,
           ~(e.kind \in {"Opened", "Closed"} /\ e.child = c)
    PROVE  LogCalm(c)
<1> DEFINE n == Len(log) + 1
<1>1. /\ log'[n] = e /\ 1..Len(log') = 1..Len(log) \cup {n}
      /\ \A k \in 1..Len(log) : log'[k] = log[k]
  BY Appended
<1> HIDE DEF n
<1> QED  BY <1>1 DEF LogCalm, SaysOpened, SaysClosed, SaysClosedOnce

\* The event that opens or closes c.
LEMMA OwnLog ==
    ASSUME log \in Seq(Entries), NEW e \in Entries, log' = Append(log, e),
           e.kind \in {"Opened", "Closed"}, NEW c, e.child = c
    PROVE  /\ e.kind = "Opened" =>
                /\ SaysClosed(c)' => SaysClosed(c)
                /\ SaysClosedOnce(c) => SaysClosedOnce(c)'
           /\ e.kind = "Closed" =>
                /\ SaysOpened(c)' => SaysOpened(c)
                /\ ~SaysClosed(c) => SaysClosedOnce(c)'
<1> DEFINE n == Len(log) + 1
<1>1. /\ log'[n] = e /\ 1..Len(log') = 1..Len(log) \cup {n}
      /\ \A k \in 1..Len(log) : log'[k] = log[k]
  BY Appended
<1> HIDE DEF n
<1> QED  BY <1>1 DEF SaysOpened, SaysClosed, SaysClosedOnce

LEMMA PlainLogCalm == ASSUME log \in Seq(Entries), PlainLog, NEW c PROVE LogCalm(c)
<1>1. ASSUME NEW e \in Entries, e.kind \in S!TerminalKinds \cup {"Info"},
             log' = Append(log, e)
      PROVE  LogCalm(c)
  BY <1>1, OtherLog DEF S!TerminalKinds
<1> QED  BY <1>1, SameLog DEF PlainLog

LEMMA ChildIsId ==
    ASSUME NEW c \in S!Children
    PROVE  /\ c \in Handles /\ c # S!NoChild /\ c[1] \in ChildTypes
           /\ c[2] \in 1..MaxChildren /\ c = <<c[1], c[2]>>
  BY BackendAssumption, IdIsEntry DEF S!Children

LEMMA ChildMain ==
    ASSUME ShapeInv, NEW c \in S!Children, Child(c),
           \/ Quiet \/ Asking \/ Resolving \/ Refusing
           \/ Starting(ConnectJob)
           \/ mainPc = "known" /\ Starting(request)
    PROVE  Child(c)'
<1> USE DEF ShapeInv
<1>1. CASE Quiet
  <2>1. LogCalm(c)  BY <1>1, PlainLogCalm DEF Quiet, Shape
  <2> QED  BY <1>1, <2>1, ChildFrame DEF Quiet, ThreadsCalm, Asked, Born
<1>2. CASE Refusing
  <2>1. LogCalm(c)  BY <1>2, PlainLogCalm DEF Refusing, Shape
  <2> QED  BY <1>2, <2>1, ChildFrame DEF Refusing, ThreadsCalm, Asked, Born
<1>3. CASE Resolving
  <2>1. LogCalm(c)  BY <1>3, SameLog DEF Resolving
  <2>2. ThreadsCalm(c)  BY <1>3 DEF Resolving, ThreadsCalm, Job, Busy, Shape
  <2> QED  BY <1>3, <2>1, <2>2, ChildFrame DEF Resolving, Asked, Born
<1>4. ASSUME NEW job \in Jobs, Starting(job), job.pc \notin Busy
      PROVE  Child(c)'
  <2>1. LogCalm(c)  BY <1>4, SameLog DEF Starting
  <2>2. PICK w \in Threads :
           /\ \A v \in Threads : v # w => work'[v] = work[v]
           /\ work'[w] = work[w] \/ work'[w] = job
    BY <1>4, BeginLeaves DEF Starting
  <2>3. ThreadsCalm(c)  BY <1>4, <2>2 DEF ThreadsCalm
  <2> QED  BY <1>4, <2>1, <2>3, ChildFrame DEF Starting, Asked, Born
<1>5. CASE Starting(ConnectJob)
  <2>1. ConnectJob \in Jobs /\ ConnectJob.pc = "connect"
    BY JobIsJob, IdIsEntry, BackendAssumption DEF ConnectJob
  <2> QED  BY <1>4, <1>5, <2>1 DEF Busy
<1>6. CASE mainPc = "known" /\ Starting(request)
  <2>1. CASE request.pc # "drop" \/ request.child # c
    <3>1. LogCalm(c)  BY <1>6, SameLog DEF Starting
    <3>2. PICK w \in Threads :
             /\ \A v \in Threads : v # w => work'[v] = work[v]
             /\ work'[w] = work[w] \/ work'[w] = request
      BY <1>6, BeginLeaves DEF Starting, Shape
    <3>3. request.pc \in Busy => request.child # c  BY <2>1 DEF Program, Busy
    <3>4. ThreadsCalm(c)  BY <3>2, <3>3 DEF ThreadsCalm
    <3> QED  BY <1>6, <3>1, <3>4, ChildFrame DEF Starting, Asked, Born
  <2>2. CASE request.pc = "drop" /\ request.child = c
    <3>1. PICK w \in Threads :
             /\ \A v \in Threads : v # w => work'[v] = work[v]
             /\ work'[w] = work[w] \/ work'[w] = request
      BY <1>6, BeginLeaves DEF Starting, Shape
    <3>2. Asked(c)  BY <1>6, <2>2 DEF Asked
    <3>3. \A v \in Threads : ~Opens(v, c) /\ ~Opens(v, c)'
      BY <2>2, <3>1, <3>2 DEF Child, Opener, Opens
    <3>4. Born(c) /\ Born(c)'  BY <1>6, <3>2 DEF Child, Unborn, Starting, Born
    <3>5. \A v \in Threads : Ends(v, c)' => Ends(v, c) /\ work'[v].pc = work[v].pc
      BY <2>2, <3>1 DEF Ends
    <3>6. /\ reader' = reader /\ bChildren' = bChildren
          /\ SaysClosed(c)' <=> SaysClosed(c)
          /\ SaysClosedOnce(c)' <=> SaysClosedOnce(c)
      BY <1>6 DEF Starting, SaysClosed, SaysClosedOnce
    <3> QED  BY <3>3, <3>4, <3>5, <3>6 DEF Child, Opener, Unborn, Teller
  <2> QED  BY <2>1, <2>2
<1>7. CASE Asking
  <2>1. ASSUME NEW job \in Jobs, NEW known, Asks(job, known),
               job.pc = "drop" /\ job.child = c /\ known => c \in children
        PROVE  Child(c)'
    <3>1. LogCalm(c) /\ ThreadsCalm(c)  BY <2>1, SameLog DEF Asks, ThreadsCalm
    <3>2. CASE Asked(c)'
      <4>1. c \in children  BY <2>1, <3>2 DEF Asks, Asked
      <4>2. Born(c) /\ \A v \in Threads : ~Opens(v, c)  BY <4>1 DEF Child, Opener, Unborn
      <4>3. /\ Born(c)' /\ work' = work /\ reader' = reader /\ bChildren' = bChildren
            /\ log' = log
        BY <2>1, <4>2 DEF Asks, Born
      <4> QED  BY <4>2, <4>3 DEF Child, Opener, Unborn, Teller, Opens, Ends, SaysClosed,
                                 SaysClosedOnce
    <3> QED  BY <2>1, <3>1, <3>2, ChildFrame DEF Asks, Born
  <2>2. 0 \in 0..MaxSessions  BY BackendAssumption
  <2>3. ASSUME NEW s \in S!AllocatedSessions, NEW pc \in {"take", "exec"},
               Asks(Job(pc, s, S!NoChild), s \in sessions)
        PROVE  Child(c)'
    BY <2>1, <2>3, JobIsJob, IdIsEntry, AllocatedIds DEF RequestPcs
  <2>4. ASSUME NEW s \in S!AllocatedSessions, NEW type \in ChildTypes,
               Asks(Job("open", s, <<type, 0>>), s \in sessions)
        PROVE  Child(c)'
    <3>1. <<type, 0>> \in Ids  BY BackendAssumption DEF Ids
    <3> QED  BY <2>1, <2>4, <3>1, JobIsJob, AllocatedIds DEF RequestPcs
  <2>5. ASSUME NEW d \in S!AllocatedChildren, NEW pc \in {"write", "resize", "drop"},
               Asks(Job(pc, 0, d), d \in children)
        PROVE  Child(c)'
    <3>1. d \in Ids /\ pc \in RequestPcs  BY AllocatedIds, IdIsEntry DEF RequestPcs
    <3>2. /\ Job(pc, 0, d) \in Jobs
          /\ Job(pc, 0, d).child = d
      BY <2>2, <3>1, JobIsJob
    <3> QED  BY <2>1, <2>5, <3>2
  <2>6. "take" \in {"take", "exec"} /\ "exec" \in {"take", "exec"}  OBVIOUS
  <2> QED  BY <1>7, <2>3, <2>4, <2>5, <2>6, Zenon DEF Asking
<1> QED  BY <1>1, <1>2, <1>3, <1>5, <1>6, <1>7

LEMMA ChildReader ==
    ASSUME ShapeInv, NEW c \in S!Children, Child(c), NEW d \in Handles, Reader(d)
    PROVE  Child(c)'
<1> USE DEF ShapeInv
<1>1. UNCHANGED <<nextChild, mainPc, request, work>> /\ reader \in [Handles -> {"none", "running", "closing", "over"}]
  BY ReaderSteps DEF Shape
<1>2. ThreadsCalm(c) /\ (Asked(c)' => Asked(c)) /\ (Born(c)' <=> Born(c))
  BY <1>1 DEF ThreadsCalm, Asked, Born
<1>3. \A w \in Threads : /\ Opens(w, c)' <=> Opens(w, c)
                         /\ Drops(w, c)' <=> Drops(w, c)
                         /\ Ends(w, c)' <=> Ends(w, c)
                         /\ work'[w].pc = work[w].pc
  BY <1>1 DEF Opens, Drops, Ends
<1>4. c \in Handles
  BY ChildIsId
<1>5. CASE ReaderInforms(d)
  <2>1. LogCalm(c)  BY <1>5, PlainLogCalm DEF ReaderInforms, Shape
  <2> QED  BY <1>2, <1>5, <2>1, ChildFrame DEF ReaderInforms
<1>6. CASE (ReaderGoesOver(d) \/ ReaderLeaves(d)) /\ d # c
  <2>1. LogCalm(c)  BY <1>6, SameLog DEF ReaderGoesOver, ReaderLeaves
  <2> QED  BY <1>1, <1>2, <1>4, <1>6, <2>1, ChildFrame DEF ReaderGoesOver, ReaderLeaves
<1>7. CASE (ReaderGoesOver(d) \/ ReaderLeaves(d)) /\ d = c
  <2>1. /\ reader[c] = "running" /\ children' = children /\ log' = log
        /\ \/ reader'[c] = "over" /\ bChildren' = bChildren
           \/ reader'[c] = "over" /\ bChildren' = bChildren \ {c}
           \/ reader'[c] = "closing" /\ bChildren' = bChildren \ {c} /\ c \in bChildren
    BY <1>1, <1>4, <1>7 DEF ReaderGoesOver, ReaderLeaves
  <2>2. /\ SaysOpened(c)' <=> SaysOpened(c)
        /\ SaysClosed(c)' <=> SaysClosed(c)
        /\ SaysClosedOnce(c)' <=> SaysClosedOnce(c)
    BY <2>1 DEF SaysOpened, SaysClosed, SaysClosedOnce
  <2>3. Opener(c)'  BY <1>2, <1>3, <2>1, <2>2 DEF Child, Opener
  <2>4. Unborn(c)'  BY <1>2, <1>3, <2>1, <2>2 DEF Child, Unborn
  <2>5. Teller(c)'  BY <1>3, <2>1, <2>2 DEF Child, Teller
  <2> QED  BY <2>3, <2>4, <2>5 DEF Child
<1>8. CASE ReaderCloses(d)
  <2>1. PICK e \in Entries : e = ClosedBy(d) /\ e.kind = "Closed" /\ e.child = d
    BY ClosedByEntry DEF ClosedBy, S!HandleEvent
  <2>2. children' \subseteq children /\ (log' = log \/ log' = Append(log, e))
    <3>1. \/ UNCHANGED <<children, log>>
          \/ S!NoteHandles(e) /\ log' = Append(log, e)
      BY <1>8, <2>1, EmitLeaves DEF ReaderCloses
    <3> QED  BY <2>1, <3>1 DEF S!NoteHandles
  <2>3. CASE d # c
    <3>1. LogCalm(c)  BY <2>1, <2>2, <2>3, OtherLog, SameLog DEF Shape
    <3> QED  BY <1>1, <1>2, <1>4, <1>8, <2>2, <2>3, <3>1, ChildFrame DEF ReaderCloses
  <2>4. CASE d = c
    <3>1. /\ reader[c] = "closing" /\ reader'[c] = "over" /\ bChildren' = bChildren
          /\ ~SaysClosed(c)
      BY <1>1, <1>4, <1>8, <2>4 DEF ReaderCloses, Child, Teller
    <3>2. SaysOpened(c)' => SaysOpened(c)  BY <2>1, <2>2, <2>4, SameLog, OwnLog DEF Shape, LogCalm
    <3>3. SaysClosedOnce(c)'
      BY <2>1, <2>2, <2>4, <3>1, SameLog, OwnLog DEF Shape, LogCalm, Child, Teller
    <3>4. Opener(c)'  BY <1>2, <1>3, <2>2, <3>1, <3>2 DEF Child, Opener
    <3>5. Unborn(c)'  BY <1>2, <1>3, <3>1 DEF Child, Unborn
    <3>6. \A w \in Threads : ~Ends(w, c)  BY <3>1 DEF Child, Teller
    <3>7. c \notin bChildren  BY <3>1 DEF Child, Teller
    <3>8. Teller(c)'  BY <1>3, <3>1, <3>3, <3>6, <3>7 DEF Teller
    <3> QED  BY <3>4, <3>5, <3>8 DEF Child
  <2> QED  BY <2>3, <2>4
<1> QED  BY <1>5, <1>6, <1>7, <1>8, ReaderSteps

\* A thread that is moved to a place where it has nothing to do with c.
LEMMA CalmMove ==
    ASSUME NEW w \in Threads, NEW c, \A v \in Threads : v # w => work'[v] = work[v],
           work'[w].pc \notin Busy \/ work'[w].child # c
    PROVE  ThreadsCalm(c)
  BY DEF ThreadsCalm

LEMMA ChildPlain ==
    ASSUME ShapeInv, NEW c \in S!Children, Child(c), NEW w \in Threads, Plain(w)
    PROVE  Child(c)'
<1>1. PICK m \in PlainMoves : At(w, m[1]) /\ Goto(w, m[2])
  BY PlainLeaves
<1>2. /\ work'[w].pc = m[2] /\ \A v \in Threads : v # w => work'[v] = work[v]
  BY <1>1, PlainTargets, GotoLeaves DEF ShapeInv, Shape
<1>3. ThreadsCalm(c)
  BY <1>2, PlainTargets, CalmMove DEF Busy
<1>4. LogCalm(c)
  BY PlainLeaves, PlainLogCalm DEF ShapeInv, Shape
<1> QED  BY <1>3, <1>4, PlainLeaves, ChildFrame DEF Asked, Born

\* Steps that do not touch c.
LEMMA ChildCalm ==
    ASSUME ShapeInv, NEW c \in S!Children, Child(c), NEW w \in Threads, Special(w),
           \/ Records(w) \/ Resolves(w) \/ Registers(w) \/ TakesSession(w) \/ Returns(w)
    PROVE  Child(c)'
<1> USE DEF ShapeInv
<1>1. \A v \in Threads : v # w => work'[v] = work[v]
  BY SpecialGoes
<1>2. Fits(work[w]) /\ Fits(work'[w]) /\ c # S!NoChild
  BY ShapeSpecial, ChildIsId DEF Program
<1>3. CASE Records(w) \/ (Resolves(w) /\ At(w, "resolve") /\ w[1] \in pending)
  <2>1. /\ Goto(w, "challenge") \/ Goto(w, "decide")
        /\ Privately /\ UNCHANGED <<bChildren, reader>>
    BY <1>3 DEF Records, Resolves, readerVars
  <2>2. work'[w].pc \notin Busy  BY <2>1, GotoLeaves DEF WorkPcs, Busy, Shape
  <2> QED  BY <1>1, <2>1, <2>2, CalmMove, PrivatelyLeaves, SameLog, ChildFrame DEF Asked, Born
<1>4. CASE Registers(w)
  <2>3. PICK s \in 0..MaxSessions :
           /\ At(w, "register")
           /\ work' = [work EXCEPT ![w].pc = "announce", ![w].session = s]
           /\ UNCHANGED <<nextChild, log, mainPc, children, request, bChildren, reader>>
    BY <1>4, RegistersLeaves
  <2>1. /\ At(w, "register") /\ work'[w].child = work[w].child
        /\ UNCHANGED <<nextChild, log, mainPc, children, request, bChildren, reader>>
    BY <2>3 DEF Shape, Jobs
  <2>2. work'[w].child # c  BY <1>2, <2>1 DEF Fits, Sessionless, At
  <2> QED  BY <1>1, <2>1, <2>2, CalmMove, SameLog, ChildFrame DEF Asked, Born
<1>5. CASE TakesSession(w)
  <2>1. /\ At(w, "take") /\ work'[w].child = work[w].child
        /\ Privately /\ bChildren' \subseteq bChildren /\ reader' = reader
    BY <1>5 DEF TakesSession, Forget, Shape
  <2>2. work'[w].child # c  BY <1>2, <2>1 DEF Fits, Sessionless, At
  <2> QED  BY <1>1, <2>1, <2>2, CalmMove, PrivatelyLeaves, SameLog, ChildFrame DEF Asked, Born
<1>6. CASE Returns(w)
  <2>1. work'[w].pc \notin Busy  BY <1>6, ReturnsLeaves, NoJobType DEF Shape, Busy
  <2> QED  BY <1>1, <1>6, <2>1, CalmMove, ReturnsLeaves, SameLog, ChildFrame DEF Asked, Born
<1> QED
  BY <1>3, <1>4, <1>5, <1>6, SpecialGoes DEF Records, Registers, TakesSession, Returns,
                                             Resolves, At, Special

LEMMA ChildAnnounces ==
    ASSUME ShapeInv, NEW c \in S!Children, Child(c), NEW w \in Threads, Announces(w)
    PROVE  Child(c)'
<1> USE DEF ShapeInv
<1>1. PICK e \in Entries : e = AnnouncedBy(w) /\ e.child = work[w].child
                           /\ (e.kind = "Opened" \/ (e.kind = "Connected" /\ e.child = S!NoChild))
  BY ToldEntries DEF AnnouncedBy, S!HandleEvent
<1>2. /\ \A v \in Threads : v # w => work'[v] = work[v]
      /\ work[w].pc = "announce" /\ work'[w].pc = "succeed"
      /\ UNCHANGED <<bChildren, reader>>
  BY AnnouncesLeaves, GotoLeaves DEF Shape, WorkPcs, At
<1>3. /\ UNCHANGED <<mainPc, request, nextChild>>
      /\ \/ UNCHANGED <<children, log>>
         \/ S!NoteHandles(e) /\ log' = Append(log, e)
  BY <1>1, AnnouncesLeaves, EmitLeaves
<1>4. children' \subseteq children \cup {e.child}
  BY <1>1, <1>3 DEF S!NoteHandles
<1>5. ThreadsCalm(c) /\ (Asked(c)' <=> Asked(c)) /\ (Born(c)' <=> Born(c)) /\ c # S!NoChild
  BY <1>2, <1>3, CalmMove, ChildIsId DEF Busy, Asked, Born
<1>6. CASE e.child # c
  <2>1. LogCalm(c)  BY <1>1, <1>3, <1>6, SameLog, OtherLog DEF Shape
  <2> QED  BY <1>2, <1>4, <1>5, <1>6, <2>1, ChildFrame
<1>7. CASE e.child = c
  <2>1. Opens(w, c)  BY <1>1, <1>2, <1>7 DEF Opens
  <2>2. Born(c) /\ Born(c)' /\ \A v \in Threads : ~Ends(v, c) /\ ~Ends(v, c)' /\ ~Opens(v, c)'
    BY <1>2, <1>5, <2>1 DEF Child, Opener, Opens, Ends
  <2>3. (SaysClosed(c)' => SaysClosed(c)) /\ (SaysClosedOnce(c) => SaysClosedOnce(c)')
    BY <1>1, <1>3, <1>5, <1>7, SameLog, OwnLog DEF LogCalm, Shape
  <2> QED  BY <1>2, <2>2, <2>3 DEF Child, Opener, Unborn, Teller
<1> QED  BY <1>6, <1>7

LEMMA ChildTellsGone ==
    ASSUME ShapeInv, NEW c \in S!Children, Child(c), NEW w \in Threads, TellsGone(w)
    PROVE  Child(c)'
<1> USE DEF ShapeInv
<1>1. PICK e \in Entries : e = GoneBy(w) /\ e.child = work[w].child
                           /\ (e.kind = "Closed" \/ (e.kind = "SessionClosed" /\ e.child = S!NoChild))
  BY ToldEntries DEF GoneBy, S!HandleEvent
<1>2. /\ \A v \in Threads : v # w => work'[v] = work[v]
      /\ work[w].pc = "gone" /\ work'[w].pc = "succeed"
      /\ UNCHANGED <<bChildren, reader>>
  BY TellsGoneLeaves, GotoLeaves DEF Shape, WorkPcs, At
<1>3. /\ UNCHANGED <<mainPc, request, nextChild>>
      /\ \/ UNCHANGED <<children, log>>
         \/ S!NoteHandles(e) /\ log' = Append(log, e)
  BY <1>1, TellsGoneLeaves, EmitLeaves
<1>4. children' \subseteq children
  BY <1>1, <1>3 DEF S!NoteHandles
<1>5. ThreadsCalm(c) /\ (Asked(c)' <=> Asked(c)) /\ (Born(c)' <=> Born(c)) /\ c # S!NoChild
  BY <1>2, <1>3, CalmMove, ChildIsId DEF Busy, Asked, Born
<1>6. CASE e.child # c
  <2>1. LogCalm(c)  BY <1>1, <1>3, <1>6, SameLog, OtherLog DEF Shape
  <2> QED  BY <1>2, <1>4, <1>5, <1>6, <2>1, ChildFrame
<1>7. CASE e.child = c
  <2>1. Ends(w, c)  BY <1>1, <1>2, <1>7 DEF Ends
  <2>2. /\ Born(c) /\ Born(c)'
        /\ \A v \in Threads : ~Ends(v, c)' /\ ~Opens(v, c)'
    BY <1>2, <1>5, <2>1 DEF Child, Opener, Unborn, Teller, Opens, Ends
  <2>3. /\ ~SaysClosed(c) /\ reader'[c] = "over" /\ c \notin bChildren'
    BY <1>2, <2>1 DEF Child, Teller
  <2>4. SaysClosedOnce(c)'
    BY <1>1, <1>3, <1>5, <1>7, <2>3, SameLog, OwnLog DEF LogCalm, Shape, Child, Teller
  <2> QED  BY <2>2, <2>3, <2>4 DEF Child, Opener, Unborn, Teller
<1> QED  BY <1>6, <1>7

\* Its id is new: the claim of Unborn.
LEMMA ChildAllocates ==
    ASSUME ShapeInv, NEW c \in S!Children, Child(c), NEW w \in Threads, Allocates(w)
    PROVE  Child(c)'
<1> USE DEF ShapeInv
<1>1. work[w].child[1] \in ChildTypes /\ work[w].pc = "allocate"
  BY DEF Allocates, At, Program, Fits
<1>2. PICK d \in Handles :
         /\ d = <<work[w].child[1], IF shutdown THEN 0 ELSE nextChild[work[w].child[1]]>>
         /\ nextChild' = IF shutdown THEN nextChild ELSE [nextChild EXCEPT ![d[1]] = @ + 1]
         /\ bChildren' = bChildren \cup {d}
         /\ work' = [work EXCEPT ![w].pc = "start", ![w].child = d]
         /\ UNCHANGED <<log, mainPc, children, request, reader>>
  BY <1>1, AllocatesLeaves
<1>3. /\ \A v \in Threads : v # w => work'[v] = work[v]
      /\ work'[w].pc = "start" /\ work'[w].child = d
  BY <1>2 DEF Shape, Jobs
<1>4. /\ d[1] \in ChildTypes /\ d[2] = IF shutdown THEN 0 ELSE nextChild[d[1]]
      /\ \A t \in ChildTypes : nextChild[t] \in Nat
      /\ c[1] \in ChildTypes /\ c[2] \in Nat /\ c[2] # 0 /\ c = <<c[1], c[2]>>
      /\ d = <<d[1], d[2]>>
  BY <1>1, <1>2, ChildIsId, BackendAssumption DEF Shape
<1>5. Born(c) => Born(c)'
  BY <1>2, <1>4 DEF Born, Shape
<1>6. LogCalm(c) /\ (Asked(c)' <=> Asked(c))
  BY <1>2, SameLog DEF Asked
<1>7. CASE d # c
  BY <1>2, <1>3, <1>5, <1>6, <1>7, CalmMove, ChildFrame
<1>8. CASE d = c
  <2>1. ~shutdown /\ ~Born(c) /\ Born(c)'  BY <1>2, <1>4, <1>8 DEF Born, Shape
  <2>2. /\ \A v \in Threads : ~Opens(v, c) /\ ~Drops(v, c) /\ ~Ends(v, c)
        /\ c \notin children /\ reader[c] = "none" /\ ~Asked(c)
        /\ ~SaysOpened(c) /\ ~SaysClosed(c)
    BY <2>1 DEF Child, Unborn
  <2>3. /\ \A v \in Threads : /\ Opens(v, c)' => v = w
                              /\ ~Drops(v, c)' /\ ~Ends(v, c)'
    BY <1>3, <2>2 DEF Opens, Drops, Ends
  <2>4. ~SaysOpened(c)' /\ ~SaysClosed(c)' /\ SaysClosedOnce(c)'
    BY <1>6, <2>2 DEF LogCalm, Child, Teller
  <2> QED  BY <1>2, <1>6, <2>1, <2>2, <2>3, <2>4 DEF Child, Opener, Unborn, Teller
<1> QED  BY <1>7, <1>8

LEMMA ChildStarts ==
    ASSUME ShapeInv, NEW c \in S!Children, Child(c), NEW w \in Threads, Starts(w)
    PROVE  Child(c)'
<1> USE DEF ShapeInv
<1>1. /\ \A v \in Threads : v # w => work'[v] = work[v]
      /\ work[w].pc = "start" /\ work'[w].pc = "announce"
      /\ work'[w].child = work[w].child
      /\ reader' = [reader EXCEPT ![work[w].child] = "running"]
      /\ UNCHANGED <<log, mainPc, children, request, nextChild, bChildren>>
  BY GotoLeaves, PrivatelyLeaves DEF Starts, Shape, WorkPcs, At, tableVars
<1>2. LogCalm(c) /\ (Asked(c)' <=> Asked(c)) /\ (Born(c)' <=> Born(c))
  BY <1>1, SameLog DEF Asked, Born
<1>3. c \in Handles /\ reader \in [Handles -> {"none", "running", "closing", "over"}]
  BY ChildIsId DEF Shape
<1>4. CASE work[w].child # c
  BY <1>1, <1>2, <1>3, <1>4, CalmMove, ChildFrame
<1>5. CASE work[w].child = c
  <2>1. Opens(w, c) /\ Opens(w, c)' /\ reader[c] = "none" /\ reader'[c] = "running"
    BY <1>1, <1>3, <1>5 DEF Opens, Child, Opener
  <2>2. \A v \in Threads : /\ Opens(v, c)' <=> Opens(v, c)
                           /\ work'[v].pc = "start" => ~Opens(v, c)'
                           /\ Drops(v, c)' <=> Drops(v, c)
                           /\ ~Ends(v, c) /\ ~Ends(v, c)'
    BY <1>1, <2>1 DEF Child, Opener, Opens, Drops, Ends
  <2>3. ~SaysClosed(c)  BY <2>1 DEF Child, Teller
  <2> QED  BY <1>1, <1>2, <2>1, <2>2, <2>3 DEF Child, Opener, Unborn, Teller, LogCalm
<1> QED  BY <1>4, <1>5

\* Only one call takes c out of the table.
LEMMA ChildTakes ==
    ASSUME ShapeInv, NEW c \in S!Children, Child(c), NEW w \in Threads,
           work[w].child \in bChildren, TakesChild(w)
    PROVE  Child(c)'
<1> USE DEF ShapeInv
<1>1. /\ work[w].pc = "drop" /\ Privately /\ reader' = reader
      /\ work' = [work EXCEPT ![w].pc = "join", ![w].taken = {work[w].child}]
      /\ bChildren' = bChildren \ {work[w].child}
  BY DEF TakesChild, At, Forget
<1>2. /\ \A v \in Threads : v # w => work'[v] = work[v]
      /\ work'[w].pc = "join" /\ work'[w].child = work[w].child
  BY <1>1 DEF Shape, Jobs
<1>3. UNCHANGED <<log, mainPc, children, request, nextChild>>
  BY <1>1, PrivatelyLeaves
<1>4. LogCalm(c) /\ (Asked(c)' <=> Asked(c)) /\ (Born(c)' <=> Born(c))
  BY <1>3, SameLog DEF Asked, Born
<1>5. CASE work[w].child # c
  BY <1>1, <1>2, <1>3, <1>4, <1>5, CalmMove, ChildFrame
<1>6. CASE work[w].child = c
  <2>1. Drops(w, c)  BY <1>1, <1>6 DEF Drops
  <2>2. /\ Born(c) /\ reader[c] # "closing" /\ ~SaysClosed(c)
        /\ \A v \in Threads : ~Opens(v, c) /\ ~Ends(v, c)
    BY <1>6, <2>1 DEF Child, Opener, Unborn, Teller
  <2>3. \A v \in Threads : ~Opens(v, c)' /\ (Ends(v, c)' => v = w)  BY <1>2, <2>2 DEF Opens, Ends
  <2> QED  BY <1>1, <1>2, <1>4, <1>6, <2>2, <2>3 DEF Child, Opener, Unborn, Teller, LogCalm
<1> QED  BY <1>5, <1>6

\* The join waits for the thread of c: its opener is gone.
LEMMA ChildJoins ==
    ASSUME ShapeInv, NEW c \in S!Children, Child(c), NEW w \in Threads, Joins(w)
    PROVE  Child(c)'
<1> USE DEF ShapeInv
<1>1. /\ work[w].pc = "join" /\ Joined(work[w].taken) /\ Privately
      /\ work' = [work EXCEPT ![w].pc = "gone", ![w].taken = {}]
      /\ reader' = reader /\ bChildren' = bChildren
  BY DEF Joins, At, tableVars, readerVars
<1>2. /\ \A v \in Threads : v # w => work'[v] = work[v]
      /\ work'[w].pc = "gone" /\ work'[w].child = work[w].child
  BY <1>1 DEF Shape, Jobs
<1>3. UNCHANGED <<log, mainPc, children, request, nextChild>>
  BY <1>1, PrivatelyLeaves
<1>4. LogCalm(c) /\ (Asked(c)' <=> Asked(c)) /\ (Born(c)' <=> Born(c))
  BY <1>3, SameLog DEF Asked, Born
<1>5. CASE work[w].child # c
  BY <1>1, <1>2, <1>3, <1>4, <1>5, CalmMove, ChildFrame
<1>6. CASE work[w].child = c
  <2>1. Ends(w, c)  BY <1>1, <1>6 DEF Ends
  <2>2. \A v \in Threads : ~Opens(v, c) /\ (Ends(v, c) => v = w)  BY <2>1 DEF Child, Opener, Teller
  <2>3. Joinable(c)  BY <2>2 DEF Joinable, Opens
  <2>4. c \in work[w].taken  BY <1>1, <1>6, ChildIsId DEF Program, Fits
  <2>5. reader[c] = "over"  BY <1>1, <2>3, <2>4 DEF Joined
  <2>6. \A v \in Threads : ~Opens(v, c)' /\ (Ends(v, c)' => v = w)  BY <1>2, <2>2 DEF Opens, Ends
  <2> QED  BY <1>1, <1>4, <2>1, <2>5, <2>6 DEF Child, Opener, Unborn, Teller, LogCalm
<1> QED  BY <1>5, <1>6

LEMMA ChildSame ==
    ASSUME NEW c \in S!Children, Child(c), UNCHANGED vars PROVE Child(c)'
<1>1. ThreadsCalm(c) /\ LogCalm(c)
  BY VarsLeaves, SameLog DEF ThreadsCalm
<1> QED  BY <1>1, VarsLeaves, ChildFrame DEF Asked, Born

LEMMA ChildInit == Init => ChildInv
<1> SUFFICES ASSUME Init, NEW c \in S!Children PROVE Child(c)
  BY DEF ChildInv
<1>1. /\ log = <<>> /\ children = {} /\ mainPc = "idle" /\ bChildren = {} /\ reader[c] = "none"
      /\ \A w \in Threads : work[w].pc = "none"
  BY ChildIsId, NoJobType DEF Init, S!Init
<1>2. ~SaysOpened(c) /\ ~SaysClosed(c) /\ SaysClosedOnce(c)
  BY <1>1 DEF SaysOpened, SaysClosed, SaysClosedOnce
<1> QED  BY <1>1, <1>2 DEF Child, Opener, Unborn, Teller, Opens, Drops, Ends, Asked

LEMMA ChildStep == ShapeInv /\ ChildInv /\ [Next]_vars => ChildInv'
<1> SUFFICES ASSUME ShapeInv, ChildInv, [Next]_vars, NEW c \in S!Children
             PROVE  Child(c)'
  BY DEF ChildInv
<1>1. Child(c)
  BY DEF ChildInv
<1>2. ASSUME NEW w \in Threads, Plain(w) \/ Special(w) PROVE Child(c)'
  BY <1>1, <1>2, ChildPlain, ChildCalm, ChildAnnounces, ChildTellsGone, ChildAllocates,
     ChildStarts, ChildTakes, ChildJoins DEF Special
<1> QED
  BY <1>1, <1>2, Steps, ChildMain, ChildReader, ChildSame DEF StepKinds, ShapeInv

\* However its closers race, the client is told once that a channel or tunnel
\* is closed, and its thread is over by then.
THEOREM ChildrenCloseOnce == Spec => []ClosedForGood
<1>1. ChildInv => ClosedForGood
  <2> SUFFICES ASSUME ChildInv, NEW c \in S!Children
               PROVE  /\ SaysClosedOnce(c)
                      /\ SaysClosed(c) => reader[c] = "over"
    BY DEF ClosedForGood, ClosedOnce, SilentOnceClosed, Tells, SaysClosedOnce, SaysClosed
  <2> QED  BY DEF ChildInv, Child, Teller
<1> QED  BY <1>1, ShapeInit, ShapeStep, ChildInit, ChildStep, PTL DEF Spec

-----------------------------------------------------------------------------
(***************************************************************************)
(* Sessions.  From its registration to its announcement a session is in    *)
(* the backend's table only and cannot be closed; from the moment          *)
(* close_session takes it until it tells so, it is in the service's only.  *)
(***************************************************************************)

Brings(w, s) ==
    work[w].pc = "announce" /\ work[w].child = S!NoChild /\ work[w].session = s
Closes(w, s) ==
    /\ work[w].pc \in {"take", "join", "gone"}
    /\ work[w].child = S!NoChild /\ work[w].session = s
Took(w, s) == Closes(w, s) /\ work[w].pc # "take"
AskedClose(s) == mainPc = "known" /\ request.pc = "take" /\ request.session = s
SaysConnected(s) ==
    \E k \in 1..Len(log) : log[k].kind = "Connected" /\ log[k].session = s

Session(s) ==
    /\ \A v, w \in Threads : Brings(v, s) /\ Brings(w, s) => v = w
    /\ \A w \in Threads : Brings(w, s) =>
          /\ s < nextSession /\ s \notin sessions /\ ~AskedClose(s) /\ ~SaysConnected(s)
          /\ \A v \in Threads : ~Closes(v, s)
          /\ s \in bSessions \/ shutdown
    /\ ~(s < nextSession) =>
          /\ s \notin sessions /\ s \notin bSessions /\ ~AskedClose(s) /\ ~SaysConnected(s)
          /\ \A w \in Threads : ~Closes(w, s)
    /\ \A w \in Threads : Took(w, s) => s \notin bSessions

\* After shutdown the id of a session is 0.
Zero == \A w \in Threads : Brings(w, 0) => shutdown

SessionInv == Zero /\ \A s \in S!SessionIds : Session(s)

SessionFrame(s) ==
    /\ \A w \in Threads :
          /\ Brings(w, s)' => Brings(w, s)
          /\ Closes(w, s)' => Closes(w, s)
          /\ Took(w, s)' => Took(w, s)
    /\ AskedClose(s)' => AskedClose(s)
    /\ SaysConnected(s)' => SaysConnected(s)
    /\ s \in sessions' => s \in sessions
    /\ s < nextSession => s < nextSession'
    /\ s \in bSessions' => s \in bSessions
    /\ s \in bSessions => s \in bSessions' \/ shutdown'
    /\ shutdown => shutdown'

LEMMA SessionKept ==
    ASSUME NEW s, Session(s), SessionFrame(s) PROVE Session(s)'
<1>1. \A w \in Threads : Brings(w, s)' =>
         /\ s < nextSession' /\ s \notin sessions' /\ ~AskedClose(s)' /\ ~SaysConnected(s)'
         /\ \A v \in Threads : ~Closes(v, s)'
         /\ s \in bSessions' \/ shutdown'
  BY DEF Session, SessionFrame
<1> QED  BY <1>1 DEF Session, SessionFrame

\* No thread takes s up.
SessionCalm(s) ==
    \A w \in Threads :
        \/ work'[w] = work[w]
        \/ work'[w].pc \notin {"announce", "take", "join", "gone"}
        \/ work'[w].child # S!NoChild
        \/ work'[w].session # s

LEMMA CalmThreads ==
    ASSUME NEW s, SessionCalm(s)
    PROVE  \A w \in Threads :
              /\ Brings(w, s)' => Brings(w, s)
              /\ Closes(w, s)' => Closes(w, s)
              /\ Took(w, s)' => Took(w, s)
  BY DEF SessionCalm, Brings, Closes, Took

LEMMA SaysSame == ASSUME log' = log, NEW s PROVE SaysConnected(s)' => SaysConnected(s)
  BY DEF SaysConnected

LEMMA SaysOther ==
    ASSUME log \in Seq(Entries), NEW e \in Entries, log' = Append(log, e), NEW s,
           ~(e.kind = "Connected" /\ e.session = s)
    PROVE  SaysConnected(s)' => SaysConnected(s)
<1> DEFINE n == Len(log) + 1
<1>1. /\ log'[n] = e /\ 1..Len(log') = 1..Len(log) \cup {n}
      /\ \A k \in 1..Len(log) : log'[k] = log[k]
  BY Appended
<1> HIDE DEF n
<1> QED  BY <1>1 DEF SaysConnected

LEMMA SaysPlain ==
    ASSUME log \in Seq(Entries), PlainLog, NEW s PROVE SaysConnected(s)' => SaysConnected(s)
<1>1. ASSUME NEW e \in Entries, e.kind \in S!TerminalKinds \cup {"Info"},
             log' = Append(log, e)
      PROVE  SaysConnected(s)' => SaysConnected(s)
  BY <1>1, SaysOther DEF S!TerminalKinds
<1> QED  BY <1>1, SaysSame DEF PlainLog

\* How far a step may go for sessions to be as they were.
LEMMA SessionCalmly ==
    ASSUME NEW s, Session(s), SessionCalm(s), SaysConnected(s)' => SaysConnected(s),
           AskedClose(s)' => AskedClose(s), s \in sessions' => s \in sessions,
           nextSession' = nextSession,
           s \in bSessions' => s \in bSessions, bSessions' = bSessions \/ shutdown',
           shutdown => shutdown'
    PROVE  Session(s)'
  BY CalmThreads, SessionKept DEF SessionFrame

LEMMA SessionMain ==
    ASSUME ShapeInv, NEW s \in S!SessionIds, Session(s),
           \/ Quiet \/ Asking \/ Resolving \/ Refusing
           \/ Starting(ConnectJob)
           \/ mainPc = "known" /\ Starting(request)
    PROVE  Session(s)'
<1> USE DEF ShapeInv
<1>1. CASE Quiet
  BY <1>1, SaysPlain, SessionCalmly DEF Quiet, SessionCalm, AskedClose, Shape
<1>2. CASE Refusing
  BY <1>2, SaysPlain, SessionCalmly DEF Refusing, SessionCalm, AskedClose, Shape
<1>3. CASE Resolving
  <2>1. SessionCalm(s)  BY <1>3 DEF Resolving, SessionCalm, Job, Shape
  <2> QED  BY <1>3, <2>1, SaysSame, SessionCalmly DEF Resolving, AskedClose
<1>4. ASSUME NEW job \in Jobs, Starting(job),
             \/ job.pc \notin {"announce", "take", "join", "gone"}
             \/ job.session # s
      PROVE  Session(s)'
  <2>1. PICK w \in Threads :
           /\ \A v \in Threads : v # w => work'[v] = work[v]
           /\ work'[w] = work[w] \/ work'[w] = job
    BY <1>4, BeginLeaves DEF Starting
  <2>2. SessionCalm(s)  BY <1>4, <2>1 DEF SessionCalm
  <2> QED  BY <1>4, <2>2, SaysSame, SessionCalmly DEF Starting, AskedClose
<1>5. CASE Starting(ConnectJob)
  <2>1. ConnectJob \in Jobs /\ ConnectJob.pc = "connect"
    BY JobIsJob, IdIsEntry, BackendAssumption DEF ConnectJob
  <2> QED  BY <1>4, <1>5, <2>1
<1>6. CASE mainPc = "known" /\ Starting(request)
  <2>1. CASE request.pc # "take" \/ request.session # s  BY <1>4, <1>6, <2>1 DEF Program, Shape
  <2>2. CASE request.pc = "take" /\ request.session = s
    <3>1. PICK w \in Threads :
             /\ \A v \in Threads : v # w => work'[v] = work[v]
             /\ work'[w] = work[w] \/ work'[w] = request
      BY <1>6, BeginLeaves DEF Starting, Shape
    <3>2. AskedClose(s)  BY <1>6, <2>2 DEF AskedClose
    <3>3. s < nextSession /\ \A v \in Threads : ~Brings(v, s) /\ ~Brings(v, s)'
      BY <2>2, <3>1, <3>2 DEF Session, Brings
    <3>4. \A v \in Threads : Took(v, s)' => Took(v, s)  BY <2>2, <3>1 DEF Took, Closes
    <3>5. nextSession' = nextSession /\ bSessions' = bSessions  BY <1>6 DEF Starting
    <3> QED  BY <3>3, <3>4, <3>5 DEF Session
  <2> QED  BY <2>1, <2>2
<1>7. ASSUME NEW job \in Jobs, NEW known, Asks(job, known),
             job.pc = "take" /\ job.session = s /\ known => s \in sessions
      PROVE  Session(s)'
  <2>1. CASE ~AskedClose(s)'  BY <1>7, <2>1, SaysSame, SessionCalmly DEF Asks, SessionCalm
  <2>2. CASE AskedClose(s)'
    <3>1. s \in sessions  BY <1>7, <2>2 DEF Asks, AskedClose
    <3>2. s < nextSession /\ \A v \in Threads : ~Brings(v, s)  BY <3>1 DEF Session
    <3>3. work' = work /\ nextSession' = nextSession /\ bSessions' = bSessions  BY <1>7 DEF Asks
    <3> QED  BY <3>2, <3>3 DEF Session, Brings, Took, Closes
  <2> QED  BY <2>1, <2>2
<1>8. CASE Asking
  <2>1. 0 \in 0..MaxSessions  BY BackendAssumption
  <2>2. ASSUME NEW z \in S!AllocatedSessions, NEW pc \in {"take", "exec"},
               Asks(Job(pc, z, S!NoChild), z \in sessions)
        PROVE  Session(s)'
    <3>1. z \in 0..MaxSessions /\ pc \in RequestPcs  BY AllocatedIds DEF RequestPcs
    <3>2. /\ Job(pc, z, S!NoChild) \in Jobs /\ Job(pc, z, S!NoChild).session = z
      BY <3>1, JobIsJob, IdIsEntry
    <3> QED  BY <1>7, <2>2, <3>2
  <2>3. ASSUME NEW z \in S!AllocatedSessions, NEW type \in ChildTypes,
               Asks(Job("open", z, <<type, 0>>), z \in sessions)
        PROVE  Session(s)'
    <3>1. <<type, 0>> \in Ids /\ z \in 0..MaxSessions  BY AllocatedIds, BackendAssumption DEF Ids
    <3> QED  BY <1>7, <2>3, <3>1, JobIsJob DEF RequestPcs
  <2>4. ASSUME NEW d \in S!AllocatedChildren, NEW pc \in {"write", "resize", "drop"},
               Asks(Job(pc, 0, d), d \in children)
        PROVE  Session(s)'
    <3>1. d \in Ids /\ pc \in RequestPcs  BY AllocatedIds, IdIsEntry DEF RequestPcs
    <3>2. Job(pc, 0, d) \in Jobs /\ Job(pc, 0, d).pc = pc  BY <2>1, <3>1, JobIsJob
    <3> QED  BY <1>7, <2>4, <3>2
  <2>5. "take" \in {"take", "exec"} /\ "exec" \in {"take", "exec"}  OBVIOUS
  <2> QED  BY <1>8, <2>2, <2>3, <2>4, <2>5, Zenon DEF Asking
<1> QED  BY <1>1, <1>2, <1>3, <1>5, <1>6, <1>8

LEMMA SessionReader ==
    ASSUME ShapeInv, NEW s, Session(s), NEW c \in Handles, Reader(c) PROVE Session(s)'
<1> USE DEF ShapeInv
<1>1. /\ UNCHANGED <<shutdown, nextSession, mainPc, request, work, bSessions>>
      /\ SessionCalm(s) /\ (AskedClose(s)' => AskedClose(s))
  BY ReaderSteps DEF SessionCalm, AskedClose
<1>2. CASE ReaderGoesOver(c) \/ ReaderLeaves(c)
  BY <1>1, <1>2, SaysSame, SessionCalmly DEF ReaderGoesOver, ReaderLeaves
<1>3. CASE ReaderInforms(c)
  BY <1>1, <1>3, SaysPlain, SessionCalmly DEF ReaderInforms, Shape
<1>4. CASE ReaderCloses(c)
  <2>1. PICK e \in Entries : e = ClosedBy(c) /\ e.kind = "Closed"
    BY ClosedByEntry DEF ClosedBy, S!HandleEvent
  <2>2. sessions' = sessions /\ (log' = log \/ log' = Append(log, e))
    <3>1. UNCHANGED <<sessions, log>> \/ (S!NoteHandles(e) /\ log' = Append(log, e))
      BY <1>4, <2>1, EmitLeaves DEF ReaderCloses
    <3> QED  BY <2>1, <3>1 DEF S!NoteHandles
  <2>3. SaysConnected(s)' => SaysConnected(s)  BY <2>1, <2>2, SaysSame, SaysOther DEF Shape
  <2> QED  BY <1>1, <2>2, <2>3, SessionCalmly
<1> QED  BY <1>2, <1>3, <1>4, ReaderSteps

LEMMA SessionPlain ==
    ASSUME ShapeInv, NEW s, Session(s), NEW w \in Threads, Plain(w) PROVE Session(s)'
<1>1. PICK m \in PlainMoves : At(w, m[1]) /\ Goto(w, m[2])
  BY PlainLeaves
<1>2. /\ work'[w].pc = m[2] /\ \A v \in Threads : v # w => work'[v] = work[v]
  BY <1>1, PlainTargets, GotoLeaves DEF ShapeInv, Shape
<1>3. SessionCalm(s)
  BY <1>2, PlainTargets DEF SessionCalm
<1> QED  BY <1>3, PlainLeaves, SaysPlain, SessionCalmly DEF AskedClose, ShapeInv, Shape

\* Steps that take no session up.
LEMMA SessionOther ==
    ASSUME ShapeInv, NEW s, Session(s), NEW w \in Threads, Special(w),
           \/ Records(w)
           \/ At(w, "resolve") /\ w[1] \in pending /\ Resolves(w)
           \/ Allocates(w) \/ Starts(w)
           \/ work[w].child \in bChildren /\ TakesChild(w)
           \/ Returns(w)
    PROVE  Session(s)'
<1> USE DEF ShapeInv
<1>1. \A v \in Threads : v # w => work'[v] = work[v]
  BY SpecialGoes
<1>2. UNCHANGED <<shutdown, nextSession, mainPc, request, sessions, log, bSessions>>
  <2>1. CASE Allocates(w)
    <3>1. work[w].child[1] \in ChildTypes  BY <2>1 DEF Allocates, At, Program, Fits
    <3> QED  BY <2>1, <3>1, AllocatesLeaves
  <2>2. CASE ~Allocates(w) /\ ~Returns(w)
    <3>1. Privately /\ bSessions' = bSessions
      BY <2>2 DEF Records, Resolves, Starts, TakesChild, At, tableVars
    <3> QED  BY <3>1, PrivatelyLeaves
  <2> QED  BY <2>1, <2>2, ReturnsLeaves
<1>3. work'[w].pc \notin {"announce", "take", "join", "gone"} \/ work'[w].child # S!NoChild
  <2>1. CASE Starts(w)
    <3>1. work'[w].child = work[w].child /\ work[w].child \in Handles
      BY <2>1, GotoLeaves DEF Starts, Shape, Program, Fits, At, WorkPcs
    <3> QED  BY <3>1, IdIsEntry
  <2>2. CASE work[w].child \in bChildren /\ TakesChild(w)
    <3>1. work'[w].child = work[w].child /\ work[w].child \in Handles
      BY <2>2 DEF TakesChild, Shape, Jobs
    <3> QED  BY <3>1, IdIsEntry
  <2>3. CASE Records(w)  BY <2>3, GotoLeaves DEF Records, Shape, WorkPcs
  <2>4. CASE At(w, "resolve") /\ w[1] \in pending /\ Resolves(w)
    BY <2>4, GotoLeaves DEF Resolves, Shape, WorkPcs
  <2>5. CASE Allocates(w)  BY <2>5 DEF Allocates, Shape, Jobs
  <2>6. CASE Returns(w)  BY <2>6, ReturnsLeaves, NoJobType DEF Shape
  <2> QED  BY <2>1, <2>2, <2>3, <2>4, <2>5, <2>6
<1>4. SessionCalm(s)
  BY <1>1, <1>3 DEF SessionCalm
<1> QED  BY <1>2, <1>4, SaysSame, SessionCalmly DEF AskedClose

\* What a thread tells: a connection or the end of one, or something of a child.
LEMMA AnnouncedSession ==
    ASSUME Shape, NEW w \in Threads, Announces(w)
    PROVE  \E e \in Entries :
             /\ e = AnnouncedBy(w)
             /\ e.op = w[1] /\ e.session = work[w].session
             /\ e.kind = IF work[w].child = S!NoChild THEN "Connected" ELSE "Opened"
             /\ \/ UNCHANGED <<operations, sessions, log>>
                \/ /\ ~shutdown /\ log' = Append(log, e)
                   /\ UNCHANGED operations
                   /\ sessions' = IF work[w].child = S!NoChild /\ work[w].session # 0
                                  THEN sessions \cup {work[w].session} ELSE sessions
             /\ shutdown \/ w[1] \notin operations \/ log' = Append(log, e)
<1>1. PICK e \in Entries : e = AnnouncedBy(w)
  BY ToldEntries
<1>2. /\ e.op = w[1] /\ e.session = work[w].session
      /\ e.kind = IF work[w].child = S!NoChild THEN "Connected" ELSE "Opened"
  BY <1>1 DEF AnnouncedBy, S!HandleEvent
<1>3. e.kind \notin S!TerminalKinds
  BY <1>2 DEF S!TerminalKinds
<1>4. CASE UNCHANGED <<operations, sessions, children, owner, log>> /\ S!Dropped(e)
  BY <1>1, <1>2, <1>4 DEF S!Dropped
<1>5. CASE /\ ~shutdown /\ log' = Append(log, e) /\ S!NoteHandles(e)
           /\ operations' = operations \
                  (IF e.kind \in S!TerminalKinds THEN {e.op} \ {0} ELSE {})
  <2>1. operations' = operations  BY <1>3, <1>5
  <2>2. sessions' = IF work[w].child = S!NoChild /\ work[w].session # 0
                    THEN sessions \cup {work[w].session} ELSE sessions
    BY <1>2, <1>5 DEF S!NoteHandles
  <2> QED  BY <1>1, <1>2, <1>5, <2>1, <2>2
<1>6. Emit(e)
  BY <1>1, AnnouncesLeaves
<1>7. S!Dropped(e) => UNCHANGED <<operations, sessions, children, owner, log>>
  BY <1>6 DEF Emit, S!Emit, S!opVars, S!tableVars
<1>8. ~S!Dropped(e) =>
        /\ ~shutdown /\ log' = Append(log, e) /\ S!NoteHandles(e)
        /\ operations' = operations \
               (IF e.kind \in S!TerminalKinds THEN {e.op} \ {0} ELSE {})
  BY <1>6 DEF Emit, S!Emit, S!Dropped, S!EndOperations, S!QueueEvent
<1> QED  BY <1>4, <1>5, <1>7, <1>8

LEMMA GoneSession ==
    ASSUME Shape, NEW w \in Threads, TellsGone(w)
    PROVE  \E e \in Entries :
             /\ e.kind = IF work[w].child = S!NoChild THEN "SessionClosed" ELSE "Closed"
             /\ operations' = operations
             /\ \/ sessions' = sessions /\ log' = log
                \/ /\ log' = Append(log, e)
                   /\ sessions' = IF work[w].child = S!NoChild
                                  THEN sessions \ {work[w].session} ELSE sessions
             /\ shutdown \/ w[1] \notin operations \/ log' = Append(log, e)
<1>1. PICK e \in Entries : e = GoneBy(w)
  BY ToldEntries
<1>2. /\ e.op = w[1]
      /\ e.kind = IF work[w].child = S!NoChild THEN "SessionClosed" ELSE "Closed"
      /\ work[w].child = S!NoChild => e.session = work[w].session
  BY <1>1 DEF GoneBy, S!HandleEvent
<1>3. e.kind \notin S!TerminalKinds
  BY <1>2 DEF S!TerminalKinds
<1>4. Emit(e)
  BY <1>1, TellsGoneLeaves
<1>5. S!Dropped(e) => UNCHANGED <<operations, sessions, log>>
  BY <1>4 DEF Emit, S!Emit, S!opVars, S!tableVars
<1>6. ~S!Dropped(e) =>
        /\ log' = Append(log, e) /\ S!NoteHandles(e) /\ operations' = operations
  BY <1>3, <1>4 DEF Emit, S!Emit, S!Dropped, S!EndOperations, S!QueueEvent
<1>7. S!NoteHandles(e) => sessions' = IF work[w].child = S!NoChild
                                      THEN sessions \ {work[w].session} ELSE sessions
  BY <1>2 DEF S!NoteHandles
<1> QED  BY <1>2, <1>5, <1>6, <1>7 DEF S!Dropped

LEMMA SessionRegisters ==
    ASSUME ShapeInv, NEW s \in S!SessionIds, Session(s), NEW w \in Threads, Registers(w)
    PROVE  Session(s)'
<1> USE DEF ShapeInv
<1>1. PICK z \in 0..MaxSessions :
         /\ z = IF shutdown THEN 0 ELSE nextSession
         /\ nextSession' = IF shutdown THEN nextSession ELSE nextSession + 1
         /\ At(w, "register") /\ bSessions' = bSessions \cup {z}
         /\ work' = [work EXCEPT ![w].pc = "announce", ![w].session = z]
         /\ UNCHANGED <<shutdown, log, mainPc, sessions, request>>
  BY RegistersLeaves
<1>2. /\ \A v \in Threads : v # w => work'[v] = work[v]
      /\ work'[w].pc = "announce" /\ work'[w].session = z
  BY <1>1 DEF Shape, Jobs
<1>3. /\ s \in Nat /\ s # 0 /\ nextSession \in Nat
      /\ s < nextSession => s < nextSession'
  BY <1>1, BackendAssumption DEF S!SessionIds, Shape
<1>4. (AskedClose(s)' <=> AskedClose(s)) /\ (SaysConnected(s)' <=> SaysConnected(s))
  BY <1>1 DEF AskedClose, SaysConnected
<1>5. CASE z # s
  <2>1. SessionCalm(s)  BY <1>2, <1>5 DEF SessionCalm
  <2> QED  BY <1>1, <1>3, <1>4, <1>5, <2>1, CalmThreads, SessionKept DEF SessionFrame
<1>6. CASE z = s
  <2>1. ~shutdown /\ ~(s < nextSession) /\ s < nextSession' /\ s \in bSessions'  BY <1>1, <1>3, <1>6
  <2>2. /\ s \notin sessions /\ ~AskedClose(s) /\ ~SaysConnected(s)
        /\ \A v \in Threads : ~Closes(v, s) /\ ~Brings(v, s)
    BY <2>1 DEF Session
  <2>3. \A v \in Threads : /\ Brings(v, s)' => v = w
                           /\ ~Closes(v, s)' /\ ~Took(v, s)'
    BY <1>2, <2>2 DEF Brings, Closes, Took
  <2> QED  BY <1>1, <1>4, <2>1, <2>2, <2>3 DEF Session
<1> QED  BY <1>5, <1>6

LEMMA SessionAnnounces ==
    ASSUME ShapeInv, NEW s \in S!SessionIds, Session(s), NEW w \in Threads, Announces(w)
    PROVE  Session(s)'
<1> USE DEF ShapeInv
<1>1. PICK e \in Entries :
         /\ e.session = work[w].session
         /\ e.kind = IF work[w].child = S!NoChild THEN "Connected" ELSE "Opened"
         /\ \/ UNCHANGED <<sessions, log>>
            \/ /\ log' = Append(log, e)
               /\ sessions' = IF work[w].child = S!NoChild /\ work[w].session # 0
                              THEN sessions \cup {work[w].session} ELSE sessions
  BY AnnouncedSession
<1>2. /\ \A v \in Threads : v # w => work'[v] = work[v]
      /\ work[w].pc = "announce" /\ work'[w].pc = "succeed"
      /\ UNCHANGED <<shutdown, nextSession, mainPc, request, bSessions>>
  BY AnnouncesLeaves, EmitLeaves, GotoLeaves DEF Shape, WorkPcs, At
<1>3. SessionCalm(s) /\ (AskedClose(s)' <=> AskedClose(s))
  BY <1>2 DEF SessionCalm, AskedClose
<1>4. CASE ~Brings(w, s)
  <2>1. work[w].child # S!NoChild \/ work[w].session # s  BY <1>2, <1>4 DEF Brings
  <2>2. SaysConnected(s)' => SaysConnected(s)  BY <1>1, <2>1, SaysSame, SaysOther DEF Shape
  <2>3. s \in sessions' => s \in sessions  BY <1>1, <2>1
  <2> QED  BY <1>2, <1>3, <2>2, <2>3, SessionCalmly
<1>5. CASE Brings(w, s)
  <2>1. \A v \in Threads : /\ ~Brings(v, s)'
                           /\ Took(v, s)' => Took(v, s)
    BY <1>2, <1>3, <1>5, CalmThreads DEF Session, Brings
  <2>2. s < nextSession  BY <1>5 DEF Session
  <2> QED  BY <1>2, <2>1, <2>2 DEF Session
<1> QED  BY <1>4, <1>5

LEMMA SessionEnds ==
    ASSUME ShapeInv, NEW s \in S!SessionIds, Session(s), NEW w \in Threads,
           TakesSession(w) \/ Joins(w) \/ TellsGone(w)
    PROVE  Session(s)'
<1> USE DEF ShapeInv
<1>1. CASE TakesSession(w)
  <2>1. /\ work[w].pc = "take" /\ Privately /\ bSessions' = bSessions \ {work[w].session}
        /\ work' = [work EXCEPT ![w].pc = "join", ![w].taken = Owned(work[w].session)]
    BY <1>1 DEF TakesSession, At
  <2>2. /\ \A v \in Threads : v # w => work'[v] = work[v]
        /\ work'[w].pc = "join" /\ work'[w].session = work[w].session
        /\ work'[w].child = work[w].child /\ work[w].child = S!NoChild
    BY <2>1 DEF Shape, Jobs, Program, Fits, Sessionless
  <2>3. UNCHANGED <<shutdown, nextSession, sessions, log, mainPc, request>>
    BY <2>1, PrivatelyLeaves
  <2>4. (AskedClose(s)' <=> AskedClose(s)) /\ (SaysConnected(s)' <=> SaysConnected(s))
    BY <2>3 DEF AskedClose, SaysConnected
  <2>5. CASE work[w].session # s
    <3>1. SessionCalm(s)  BY <2>2, <2>5 DEF SessionCalm
    <3> QED  BY <2>1, <2>3, <2>4, <2>5, <3>1, CalmThreads, SessionKept DEF SessionFrame
  <2>6. CASE work[w].session = s
    <3>1. Closes(w, s)  BY <2>1, <2>2, <2>6 DEF Closes
    <3>2. s < nextSession /\ \A v \in Threads : ~Brings(v, s) /\ ~Brings(v, s)'
      BY <2>2, <3>1 DEF Session, Brings
    <3> QED  BY <2>1, <2>3, <2>6, <3>2 DEF Session
  <2> QED  BY <2>5, <2>6
<1>2. CASE Joins(w)
  <2>1. /\ work[w].pc = "join" /\ Privately /\ bSessions' = bSessions
        /\ work' = [work EXCEPT ![w].pc = "gone", ![w].taken = {}]
    BY <1>2 DEF Joins, At, tableVars
  <2>2. /\ \A v \in Threads : v # w => work'[v] = work[v]
        /\ work'[w].pc = "gone" /\ work'[w].session = work[w].session
        /\ work'[w].child = work[w].child
    BY <2>1 DEF Shape, Jobs
  <2>3. UNCHANGED <<shutdown, nextSession, sessions, log, mainPc, request>>
    BY <2>1, PrivatelyLeaves
  <2>4. (AskedClose(s)' <=> AskedClose(s)) /\ (SaysConnected(s)' <=> SaysConnected(s))
    BY <2>3 DEF AskedClose, SaysConnected
  <2>5. \A v \in Threads : /\ Brings(v, s)' => Brings(v, s)
                           /\ Closes(v, s)' => Closes(v, s)
                           /\ Took(v, s)' => Took(v, s)
    BY <2>1, <2>2 DEF Brings, Closes, Took
  <2> QED  BY <2>1, <2>3, <2>4, <2>5, SessionKept DEF SessionFrame
<1>3. CASE TellsGone(w)
  <2>1. PICK e \in Entries :
           /\ e.kind = IF work[w].child = S!NoChild THEN "SessionClosed" ELSE "Closed"
           /\ \/ sessions' = sessions /\ log' = log
              \/ /\ log' = Append(log, e)
                 /\ sessions' = IF work[w].child = S!NoChild
                                THEN sessions \ {work[w].session} ELSE sessions
    BY <1>3, GoneSession
  <2>2. /\ \A v \in Threads : v # w => work'[v] = work[v]
        /\ work'[w].pc = "succeed"
        /\ UNCHANGED <<shutdown, nextSession, mainPc, request, bSessions>>
    BY <1>3, TellsGoneLeaves, EmitLeaves, GotoLeaves DEF Shape, WorkPcs
  <2>3. SessionCalm(s) /\ (AskedClose(s)' => AskedClose(s))  BY <2>2 DEF SessionCalm, AskedClose
  <2>4. SaysConnected(s)' => SaysConnected(s)  BY <2>1, SaysSame, SaysOther DEF Shape
  <2> QED  BY <2>1, <2>2, <2>3, <2>4, SessionCalmly
<1> QED  BY <1>1, <1>2, <1>3

\* The zero id: only Registers gives it, and only after shutdown.
LEMMA ZeroStep == ShapeInv /\ Zero /\ [Next]_vars => Zero'
<1> SUFFICES ASSUME ShapeInv, Zero, [Next]_vars PROVE Zero'
  OBVIOUS
<1> USE DEF ShapeInv
<1>1. ASSUME SessionCalm(0), shutdown => shutdown' PROVE Zero'
  BY <1>1, CalmThreads DEF Zero
<1>2. CASE Quiet \/ Asking \/ Refusing \/ (\E c \in Handles : Reader(c)) \/ UNCHANGED vars
  <2>1. work' = work /\ (shutdown => shutdown')
    <3>1. CASE Quiet  BY <3>1 DEF Quiet
    <3>2. CASE Asking
      <4>1. work' = work /\ shutdown' = shutdown  BY <3>2, Zenon DEF Asking, Asks
      <4> QED  BY <4>1
    <3>3. CASE Refusing  BY <3>3 DEF Refusing
    <3>4. CASE (\E c \in Handles : Reader(c)) \/ UNCHANGED vars  BY <3>4, ReaderSteps, VarsLeaves
    <3> QED  BY <1>2, <3>1, <3>2, <3>3, <3>4
  <2> QED  BY <1>1, <2>1 DEF SessionCalm
<1>3. CASE Resolving
  <2>1. SessionCalm(0) /\ (shutdown => shutdown')  BY <1>3 DEF Resolving, SessionCalm, Job, Shape
  <2> QED  BY <1>1, <2>1
<1>4. ASSUME NEW job \in Jobs, Starting(job), job.pc # "announce" PROVE Zero'
  <2>1. PICK w \in Threads :
           /\ \A v \in Threads : v # w => work'[v] = work[v]
           /\ work'[w] = work[w] \/ work'[w] = job
    BY <1>4, BeginLeaves DEF Starting
  <2> QED  BY <1>4, <2>1 DEF Starting, Zero, Brings
<1>5. CASE Starting(ConnectJob)
  <2>1. ConnectJob \in Jobs /\ ConnectJob.pc = "connect"
    BY JobIsJob, IdIsEntry, BackendAssumption DEF ConnectJob
  <2> QED  BY <1>4, <1>5, <2>1
<1>6. CASE Starting(request)
  BY <1>4, <1>6 DEF Shape, Program
<1>7. ASSUME NEW w \in Threads, Plain(w) PROVE Zero'
  <2>1. PICK m \in PlainMoves : At(w, m[1]) /\ Goto(w, m[2])  BY <1>7, PlainLeaves
  <2>2. /\ work'[w].pc = m[2] /\ \A v \in Threads : v # w => work'[v] = work[v]
    BY <2>1, PlainTargets, GotoLeaves DEF Shape
  <2>3. SessionCalm(0)  BY <2>2, PlainTargets DEF SessionCalm
  <2> QED  BY <1>1, <1>7, <2>3, PlainLeaves
<1>8. ASSUME NEW w \in Threads, Special(w) PROVE Zero'
  <2>1. \A v \in Threads : v # w => work'[v] = work[v]  BY <1>8, SpecialGoes
  <2>2. CASE Registers(w)
    <3>1. PICK z \in 0..MaxSessions :
             /\ z = IF shutdown THEN 0 ELSE nextSession
             /\ work' = [work EXCEPT ![w].pc = "announce", ![w].session = z]
             /\ shutdown' = shutdown
      BY <2>2, RegistersLeaves
    <3>2. Brings(w, 0)' => shutdown'  BY <3>1 DEF Brings, Shape, Jobs
    <3> QED  BY <2>1, <3>1, <3>2 DEF Zero, Brings
  <2>3. CASE Starts(w)
    <3>1. work'[w].child = work[w].child /\ work[w].child \in Handles
      BY <2>3, GotoLeaves DEF Starts, Shape, Program, Fits, At, WorkPcs
    <3>2. ~Brings(w, 0)' /\ shutdown' = shutdown
      BY <2>3, <3>1, IdIsEntry, PrivatelyLeaves DEF Brings, Starts
    <3> QED  BY <2>1, <3>2 DEF Zero, Brings
  <2>4. CASE ~Registers(w) /\ ~Starts(w)
    <3>1. work'[w].pc # "announce"
      <4>1. CASE Allocates(w)  BY <4>1 DEF Allocates, Shape, Jobs
      <4>2. CASE ~Allocates(w)
        BY <1>8, <2>4, <4>2, SpecialGoes
        DEF Special, Records, Resolves, Announces, TakesSession, TakesChild, Joins,
            TellsGone, Returns, At
      <4> QED  BY <4>1, <4>2
    <3>2. shutdown' = shutdown
      <4>1. CASE Allocates(w)  BY <4>1, AllocatesLeaves DEF Allocates, At, Program, Fits
      <4>2. CASE Announces(w) \/ TellsGone(w)  BY <4>2, AnnouncesLeaves, TellsGoneLeaves, EmitLeaves
      <4>3. CASE Privately  BY <4>3, PrivatelyLeaves
      <4> QED  BY <1>8, <2>4, <4>1, <4>2, <4>3, ReturnsLeaves
               DEF Special, Records, Resolves, TakesSession, TakesChild, Joins
    <3> QED  BY <2>1, <3>1, <3>2 DEF Zero, Brings
  <2> QED  BY <2>2, <2>3, <2>4
<1> QED  BY <1>2, <1>3, <1>5, <1>6, <1>7, <1>8, Steps DEF StepKinds

LEMMA SessionInit == Init => SessionInv
<1> SUFFICES ASSUME Init PROVE SessionInv
  OBVIOUS
<1>1. /\ log = <<>> /\ sessions = {} /\ bSessions = {} /\ request = NoJob
      /\ work = [w \in Threads |-> NoJob]
  BY DEF Init, S!Init
<1>2. /\ \A w \in Threads : work[w].pc = "none"
      /\ request.pc = "none"
  BY <1>1, NoJobType
<1> QED  BY <1>1, <1>2 DEF SessionInv, Session, Zero, Brings, Closes, Took, AskedClose,
                           SaysConnected

LEMMA SessionStep == ShapeInv /\ SessionInv /\ [Next]_vars => SessionInv'
<1> SUFFICES ASSUME ShapeInv, SessionInv, [Next]_vars PROVE SessionInv'
  OBVIOUS
<1>1. ASSUME NEW s \in S!SessionIds PROVE Session(s)'
  <2>1. Session(s)  BY DEF SessionInv
  <2>2. ASSUME NEW w \in Threads, Special(w) PROVE Session(s)'
    BY <2>1, <2>2, SessionOther, SessionRegisters, SessionAnnounces, SessionEnds
    DEF Special
  <2>3. CASE UNCHANGED vars
    BY <2>1, <2>3, VarsLeaves, SaysSame, SessionCalmly DEF SessionCalm, AskedClose
  <2> QED  BY <2>1, <2>2, <2>3, Steps, SessionMain, SessionPlain, SessionReader
           DEF StepKinds, ShapeInv
<1> QED  BY <1>1, ZeroStep DEF SessionInv

-----------------------------------------------------------------------------
(***************************************************************************)
(* Agreement.  Unless an operation is cut short, it has one thread, which  *)
(* works for it until it has told how the operation ended; so what it      *)
(* tells reaches the service, and the tables differ only by the sessions   *)
(* that a thread is bringing or has taken.                                 *)
(***************************************************************************)

Single == \A w \in Threads : ~At(w, "none") => w[2] = 1
Owed == \A w \in Threads : work[w].pc \notin {"none", "done"} => w[1] \in operations
Served ==
    \A s \in sessions : s \in S!SessionIds /\ (s \in bSessions \/ \E w \in Threads : Took(w, s))
Backed ==
    \A s \in bSessions : s \in S!SessionIds /\ (s \in sessions \/ \E w \in Threads : Brings(w, s))
Agree == Undisturbed => Single /\ Owed /\ Served /\ Backed

AgreeInv == SessionInv /\ Agree

LEMMA ThreadsAgree ==
    ASSUME Single, Owed, NEW w \in Threads, ~At(w, "none"),
           \A v \in Threads : v # w => work'[v] = work[v],
           work'[w].pc \notin {"none", "done"} => work[w].pc # "done",
           \/ operations' = operations
           \/ operations' = operations \ {w[1]} /\ work'[w].pc = "done"
    PROVE  Single' /\ Owed'
<1>1. w[2] = 1
  BY DEF Single
<1>2. \A v \in Threads : ~At(v, "none")' => v[2] = 1
  BY <1>1 DEF Single, At
<1>3. ASSUME NEW v \in Threads, v # w, ~At(v, "none") PROVE v[1] # w[1]
  BY <1>1, <1>3, ThreadType DEF Single
<1>4. ASSUME NEW v \in Threads, work'[v].pc \notin {"none", "done"}
      PROVE  v[1] \in operations'
  <2>1. CASE v = w  BY <1>4, <2>1 DEF Owed, At
  <2>2. CASE v # w  BY <1>3, <1>4, <2>2 DEF Owed, At
  <2> QED  BY <2>1, <2>2
<1> QED  BY <1>2, <1>4 DEF Single, Owed

LEMMA TablesAgree ==
    ASSUME Served, Backed, UNCHANGED <<sessions, bSessions>>,
           \A w \in Threads : \A s \in S!SessionIds :
               (Took(w, s) => Took(w, s)') /\ (Brings(w, s) => Brings(w, s)')
    PROVE  Served' /\ Backed'
  BY DEF Served, Backed

\* A step of a thread that is at neither an announcement nor an end.
LEMMA TablesAside ==
    ASSUME Served, Backed, UNCHANGED <<sessions, bSessions>>, NEW w \in Threads,
           \A v \in Threads : v # w => work'[v] = work[v],
           work[w].pc \notin {"announce", "join", "gone"} \/ work[w].child # S!NoChild
    PROVE  Served' /\ Backed'
<1>1. \A v \in Threads : \A s \in S!SessionIds :
         (Took(v, s) => Took(v, s)') /\ (Brings(v, s) => Brings(v, s)')
  BY DEF Took, Closes, Brings
<1> QED  BY <1>1, TablesAgree

LEMMA PlainEnds ==
    ASSUME ShapeInv, NEW w \in Threads, Plain(w)
    PROVE  \/ operations' = operations
           \/ operations' = operations \ {w[1]} /\ work'[w].pc = "done"
<1>1. PICK m \in PlainMoves : At(w, m[1]) /\ Goto(w, m[2]) /\ PlainTell(w, m[2])
  BY DEF Plain
<1>2. CASE UNCHANGED serviceVars
  BY <1>2 DEF serviceVars
<1>3. ASSUME NEW k \in S!TerminalKinds \cup {"Info"}, k # "Info" => m[2] = "done",
             Emit(S!Event(k, w[1]))
      PROVE  \/ operations' = operations
             \/ operations' = operations \ {w[1]} /\ work'[w].pc = "done"
  <2>1. PICK e : e = S!Event(k, w[1])  OBVIOUS
  <2>2. e.kind = k /\ e.op = w[1] /\ w[1] # 0  BY <2>1, PlainEntry, ThreadType, BackendAssumption
  <2>3. work'[w].pc = m[2]  BY <1>1, PlainTargets, GotoLeaves DEF ShapeInv, Shape
  <2>4. "Info" \notin S!TerminalKinds  BY DEF S!TerminalKinds
  <2>5. \/ operations' = operations
        \/ operations' = operations \ (IF e.kind \in S!TerminalKinds THEN {e.op} \ {0} ELSE {})
    BY <1>3, <2>1, EmitLeaves
  <2> QED  BY <1>3, <2>2, <2>3, <2>4, <2>5
<1> QED  BY <1>1, <1>2, <1>3 DEF PlainTell

LEMMA AgreePlain ==
    ASSUME ShapeInv, AgreeInv, NEW w \in Threads, Plain(w) PROVE Agree'
<1> SUFFICES ASSUME Undisturbed' PROVE (Single /\ Owed /\ Served /\ Backed)'
  BY DEF Agree
<1>1. PICK m \in PlainMoves : At(w, m[1]) /\ Goto(w, m[2])
  BY PlainLeaves
<1>2. /\ work'[w].pc = m[2] /\ \A v \in Threads : v # w => work'[v] = work[v]
  BY <1>1, PlainTargets, GotoLeaves DEF ShapeInv, Shape
<1>3. Undisturbed
  BY PlainLeaves, UndisturbedBefore DEF PlainLog, ClientKept, ShapeInv, Shape
<1>4. Single' /\ Owed'
  BY <1>1, <1>2, <1>3, PlainTargets, PlainEnds, ThreadsAgree DEF AgreeInv, Agree, At
<1>5. Served' /\ Backed'
  BY <1>1, <1>2, <1>3, PlainTargets, PlainLeaves, TablesAside DEF AgreeInv, Agree, At
<1> QED  BY <1>4, <1>5

LEMMA AgreeMain ==
    ASSUME ShapeInv, AgreeInv,
           \/ Quiet \/ Asking \/ Resolving \/ Refusing
           \/ Starting(ConnectJob)
           \/ mainPc = "known" /\ Starting(request)
    PROVE  Agree'
<1> USE DEF ShapeInv, AgreeInv
<1> SUFFICES ASSUME Undisturbed' PROVE (Single /\ Owed /\ Served /\ Backed)'
  BY DEF Agree
<1>1. ASSUME Undisturbed, UNCHANGED <<work, operations, sessions, bSessions>>
      PROVE  (Single /\ Owed /\ Served /\ Backed)'
  <2>1. Single' /\ Owed'  BY <1>1 DEF Agree, Single, Owed, At
  <2>2. Served' /\ Backed'  BY <1>1, TablesAgree DEF Agree, Took, Closes, Brings
  <2> QED  BY <2>1, <2>2
<1>2. CASE Quiet
  <2>1. Undisturbed  BY <1>2, UndisturbedBefore DEF Quiet, PlainLog, ClientKept
  <2> QED  BY <1>1, <1>2, <2>1 DEF Quiet
<1>3. CASE Asking
  <2>1. ClientKept /\ UNCHANGED <<shutdown, log, work, operations, sessions, bSessions>>
    BY <1>3, Zenon DEF Asking, Asks
  <2>2. Undisturbed  BY <2>1, UndisturbedBefore
  <2> QED  BY <1>1, <2>1, <2>2
<1>4. CASE Refusing
  BY <1>1, <1>4 DEF Refusing
<1>5. CASE Resolving
  BY <1>5 DEF Resolving, Undisturbed
<1>6. ASSUME NEW job \in Jobs, Starting(job) PROVE (Single /\ Owed /\ Served /\ Backed)'
  <2>1. /\ ClientKept /\ operations' = operations \cup {nextOp} /\ nextOp <= MaxOps
        /\ Begin(nextOp, job) /\ UNCHANGED <<shutdown, log, sessions, bSessions>>
    BY <1>6 DEF Starting
  <2>2. Undisturbed  BY <2>1, UndisturbedBefore
  <2>3. PICK w \in Threads :
           /\ w[1] = nextOp /\ w[2] = 1
           /\ \A v \in Threads : v # w => work'[v] = work[v]
    BY <2>1, BeginLeaves
  <2>4. Single' /\ Owed'  BY <2>1, <2>2, <2>3 DEF Agree, Single, Owed, At
  <2>5. At(w, "none")  BY <2>3, ThreadType DEF Fresh, Shape
  <2>6. Served' /\ Backed'  BY <2>1, <2>2, <2>3, <2>5, TablesAside DEF Agree, At
  <2> QED  BY <2>4, <2>6
<1>7. ConnectJob \in Jobs
  BY JobIsJob, IdIsEntry, BackendAssumption DEF ConnectJob
<1>8. request \in Jobs
  BY DEF Shape
<1> QED  BY <1>2, <1>3, <1>4, <1>5, <1>6, <1>7, <1>8

LEMMA AgreeReader ==
    ASSUME ShapeInv, AgreeInv, NEW c \in Handles, Reader(c) PROVE Agree'
<1> USE DEF ShapeInv, AgreeInv
<1> SUFFICES ASSUME Undisturbed' PROVE (Single /\ Owed /\ Served /\ Backed)'
  BY DEF Agree
<1>1. UNCHANGED <<shutdown, client, work, bSessions>>
  BY ReaderSteps
<1>2. /\ UNCHANGED <<operations, sessions>>
      /\ log' = log \/ \E e \in Entries : log' = Append(log, e)
  <2>1. CASE ReaderCloses(c)
    <3>1. PICK e \in Entries : e = ClosedBy(c) /\ e.kind = "Closed"
      BY ClosedByEntry DEF ClosedBy, S!HandleEvent
    <3>2. e.kind \notin S!TerminalKinds /\ Emit(e)  BY <2>1, <3>1 DEF S!TerminalKinds, ReaderCloses
    <3>3. CASE UNCHANGED <<operations, sessions, log>>  BY <3>3
    <3>4. CASE /\ log' = Append(log, e) /\ S!NoteHandles(e)
               /\ operations' = operations \
                      (IF e.kind \in S!TerminalKinds THEN {e.op} \ {0} ELSE {})
      BY <3>1, <3>2, <3>4 DEF S!NoteHandles
    <3> QED  BY <3>2, <3>3, <3>4, EmitLeaves
  <2>2. CASE ReaderGoesOver(c) \/ ReaderLeaves(c) \/ ReaderInforms(c)
    BY <2>2 DEF ReaderGoesOver, ReaderLeaves, ReaderInforms, PlainLog
  <2> QED  BY <2>1, <2>2, ReaderSteps
<1>3. Undisturbed
  BY <1>1, <1>2, UndisturbedBefore DEF ClientKept, Shape
<1>4. Single' /\ Owed'
  BY <1>1, <1>2, <1>3 DEF Agree, Single, Owed, At
<1>5. Served' /\ Backed'
  BY <1>1, <1>2, <1>3, TablesAgree DEF Agree, Took, Closes, Brings
<1> QED  BY <1>4, <1>5

\* The sessions of the two tables, as w brings or takes one.
LEMMA TablesSpecial ==
    ASSUME ShapeInv, SessionInv, Undisturbed, Agree, Undisturbed',
           NEW w \in Threads, Special(w)
    PROVE  Served' /\ Backed'
<1> USE DEF ShapeInv
<1>1. \A v \in Threads : v # w => work'[v] = work[v]
  BY SpecialGoes
<1>2. Served /\ Backed /\ Owed /\ ~shutdown
  BY DEF Agree, Undisturbed
<1>3. CASE \/ Records(w)
           \/ At(w, "resolve") /\ w[1] \in pending /\ Resolves(w)
           \/ Allocates(w) \/ Starts(w)
           \/ work[w].child \in bChildren /\ TakesChild(w)
           \/ Returns(w)
  <2>1. UNCHANGED <<sessions, bSessions>>
    <3>1. CASE Allocates(w)
      <4>1. work[w].child[1] \in ChildTypes  BY <3>1 DEF Allocates, At, Program, Fits
      <4> QED  BY <3>1, <4>1, AllocatesLeaves
    <3>2. CASE ~Allocates(w) /\ ~Returns(w)
      <4>1. Privately /\ bSessions' = bSessions
        BY <1>3, <3>2 DEF Records, Resolves, Starts, TakesChild, At, tableVars
      <4> QED  BY <4>1, PrivatelyLeaves
    <3> QED  BY <3>1, <3>2, ReturnsLeaves
  <2>2. work[w].pc \notin {"announce", "join", "gone"}
    BY <1>3 DEF Records, Resolves, Allocates, Starts, TakesChild, Returns, At
  <2> QED  BY <1>1, <1>2, <2>1, <2>2, TablesAside
<1>4. CASE Registers(w)
  <2>1. PICK z \in 0..MaxSessions :
           /\ z = nextSession /\ nextSession \in 1..(MaxSessions + 1)
           /\ work[w].pc = "register" /\ bSessions' = bSessions \cup {z}
           /\ work' = [work EXCEPT ![w].pc = "announce", ![w].session = z]
           /\ sessions' = sessions
    BY <1>2, <1>4, RegistersLeaves DEF At, Shape
  <2>2. z \in S!SessionIds  BY <2>1, BackendAssumption DEF S!SessionIds
  <2>3. work'[w].pc = "announce" /\ work'[w].session = z /\ work'[w].child = S!NoChild
    BY <2>1 DEF Shape, Jobs, Program, Fits, Sessionless
  <2>4. Brings(w, z)'  BY <2>3 DEF Brings
  <2>5. \A v \in Threads : \A s \in S!SessionIds :
           (Took(v, s) => Took(v, s)') /\ (Brings(v, s) => Brings(v, s)')
    BY <1>1, <2>1 DEF Took, Closes, Brings
  <2> QED  BY <1>2, <2>1, <2>2, <2>4, <2>5 DEF Served, Backed
<1>5. CASE Announces(w)
  <2>1. work[w].pc = "announce" /\ w[1] \in operations /\ bSessions' = bSessions
        /\ work'[w].pc = "succeed"
    BY <1>2, <1>5, AnnouncesLeaves, GotoLeaves DEF Owed, At, Shape, WorkPcs
  <2>2. PICK e \in Entries :
           /\ \/ UNCHANGED <<operations, sessions, log>>
              \/ /\ ~shutdown /\ log' = Append(log, e)
                 /\ sessions' = IF work[w].child = S!NoChild /\ work[w].session # 0
                                THEN sessions \cup {work[w].session} ELSE sessions
           /\ log' = Append(log, e)
    BY <1>2, <1>5, <2>1, AnnouncedSession
  <2>3. log' # log  BY <2>2, Appended DEF Shape
  <2>4. CASE work[w].child # S!NoChild  BY <1>1, <1>2, <2>1, <2>2, <2>4, TablesAside
  <2>5. CASE work[w].child = S!NoChild
    <3>1. Brings(w, work[w].session)  BY <2>1, <2>5 DEF Brings
    <3>2. work[w].session # 0  BY <1>2, <3>1 DEF SessionInv, Zero
    <3>3. work[w].session \in S!SessionIds  BY <3>2, BackendAssumption DEF Shape, Jobs, S!SessionIds
    <3>4. work[w].session \in bSessions  BY <1>2, <3>1, <3>3 DEF SessionInv, Session
    <3>5. sessions' = sessions \cup {work[w].session}  BY <2>2, <2>3, <2>5, <3>2
    <3>6. \A v \in Threads : \A s \in S!SessionIds :
             /\ Took(v, s) => Took(v, s)'
             /\ Brings(v, s) => Brings(v, s)' \/ s = work[w].session
      BY <1>1, <2>1 DEF Took, Closes, Brings
    <3> QED  BY <1>2, <2>1, <3>3, <3>4, <3>5, <3>6 DEF Served, Backed
  <2> QED  BY <2>4, <2>5
<1>6. CASE TakesSession(w)
  <2>1. /\ work[w].pc = "take" /\ Privately /\ bSessions' = bSessions \ {work[w].session}
        /\ work' = [work EXCEPT ![w].pc = "join", ![w].taken = Owned(work[w].session)]
    BY <1>6 DEF TakesSession, At
  <2>2. /\ work'[w].pc = "join" /\ work'[w].session = work[w].session
        /\ work'[w].child = S!NoChild
    BY <2>1 DEF Shape, Jobs, Program, Fits, Sessionless
  <2>3. \A v \in Threads : \A s \in S!SessionIds :
           (Took(v, s) => Took(v, s)') /\ (Brings(v, s) => Brings(v, s)')
    BY <1>1, <2>1 DEF Took, Closes, Brings
  <2>4. sessions' = sessions  BY <2>1, PrivatelyLeaves
  <2>5. Served'
    <3> SUFFICES ASSUME NEW s \in sessions
                 PROVE  s \in S!SessionIds /\ (s \in bSessions' \/ \E v \in Threads : Took(v, s)')
      BY <2>4 DEF Served
    <3>1. s \in S!SessionIds  BY <1>2 DEF Served
    <3>2. CASE s = work[w].session  BY <2>2, <3>1, <3>2 DEF Took, Closes
    <3>3. CASE s # work[w].session  BY <1>2, <2>1, <2>3, <3>1, <3>3 DEF Served
    <3> QED  BY <3>2, <3>3
  <2>6. Backed'  BY <1>2, <2>1, <2>3, <2>4 DEF Backed
  <2> QED  BY <2>5, <2>6
<1>7. CASE Joins(w)
  <2>1. /\ work[w].pc = "join" /\ Privately /\ bSessions' = bSessions
        /\ work' = [work EXCEPT ![w].pc = "gone", ![w].taken = {}]
    BY <1>7 DEF Joins, At, tableVars
  <2>2. /\ work'[w].pc = "gone" /\ work'[w].session = work[w].session
        /\ work'[w].child = work[w].child
    BY <2>1 DEF Shape, Jobs
  <2>3. \A v \in Threads : \A s \in S!SessionIds :
           (Took(v, s) => Took(v, s)') /\ (Brings(v, s) => Brings(v, s)')
    BY <1>1, <2>1, <2>2 DEF Took, Closes, Brings
  <2>4. sessions' = sessions  BY <2>1, PrivatelyLeaves
  <2> QED  BY <1>2, <2>1, <2>3, <2>4, TablesAgree
<1>8. CASE TellsGone(w)
  <2>1. work[w].pc = "gone" /\ w[1] \in operations /\ bSessions' = bSessions
    BY <1>2, <1>8, TellsGoneLeaves DEF Owed, At
  <2>2. PICK e \in Entries :
           /\ \/ sessions' = sessions /\ log' = log
              \/ /\ log' = Append(log, e)
                 /\ sessions' = IF work[w].child = S!NoChild
                                THEN sessions \ {work[w].session} ELSE sessions
           /\ log' = Append(log, e)
    BY <1>2, <1>8, <2>1, GoneSession
  <2>3. log' # log  BY <2>2, Appended DEF Shape
  <2>4. CASE work[w].child # S!NoChild  BY <1>1, <1>2, <2>1, <2>2, <2>4, TablesAside
  <2>5. CASE work[w].child = S!NoChild
    <3>1. Took(w, work[w].session)  BY <2>1, <2>5 DEF Took, Closes
    <3>2. sessions' = sessions \ {work[w].session}  BY <2>2, <2>3, <2>5
    <3>3. work[w].session \in S!SessionIds => work[w].session \notin bSessions
      BY <3>1 DEF SessionInv, Session
    <3>4. \A v \in Threads : \A s \in S!SessionIds :
             /\ Took(v, s) => Took(v, s)' \/ s = work[w].session
             /\ Brings(v, s) => Brings(v, s)'
      BY <1>1, <2>1 DEF Took, Closes, Brings
    <3> QED  BY <1>2, <2>1, <3>2, <3>3, <3>4 DEF Served, Backed
  <2> QED  BY <2>4, <2>5
<1> QED  BY <1>3, <1>4, <1>5, <1>6, <1>7, <1>8 DEF Special

LEMMA AgreeSpecial ==
    ASSUME ShapeInv, AgreeInv, NEW w \in Threads, Special(w) PROVE Agree'
<1> USE DEF ShapeInv, AgreeInv
<1> SUFFICES ASSUME Undisturbed' PROVE (Single /\ Owed /\ Served /\ Backed)'
  BY DEF Agree
<1>1. /\ UNCHANGED <<shutdown, client, operations>>
      /\ log' = log \/ \E e \in Entries : log' = Append(log, e)
  <2>1. CASE Registers(w)  BY <2>1, RegistersLeaves
  <2>2. CASE Announces(w)
    <3>1. UNCHANGED <<shutdown, client>>  BY <2>2, AnnouncesLeaves, EmitLeaves
    <3> QED  BY <2>2, <3>1, AnnouncedSession
  <2>3. CASE TellsGone(w)
    <3>1. UNCHANGED <<shutdown, client>>  BY <2>3, TellsGoneLeaves, EmitLeaves
    <3> QED  BY <2>3, <3>1, GoneSession
  <2>4. CASE Allocates(w)
    <3>1. work[w].child[1] \in ChildTypes  BY <2>4 DEF Allocates, At, Program, Fits
    <3> QED  BY <2>4, <3>1, AllocatesLeaves
  <2>5. CASE Returns(w)  BY <2>5, ReturnsLeaves
  <2>6. CASE Privately  BY <2>6, PrivatelyLeaves
  <2> QED  BY <2>1, <2>2, <2>3, <2>4, <2>5, <2>6
           DEF Special, Records, Resolves, Starts, TakesSession, TakesChild, Joins, At
<1>2. Undisturbed
  BY <1>1, UndisturbedBefore DEF ClientKept, Shape
<1>3. Single' /\ Owed'
  <2>1. /\ ~At(w, "none") /\ \A v \in Threads : v # w => work'[v] = work[v]
        /\ work'[w].pc \notin {"none", "done"} => work[w].pc # "done"
    BY SpecialGoes DEF At
  <2> QED  BY <1>1, <1>2, <2>1, ThreadsAgree DEF Agree
<1>4. Served' /\ Backed'
  BY <1>2, TablesSpecial
<1> QED  BY <1>3, <1>4

LEMMA AgreeStep == ShapeInv /\ AgreeInv /\ [Next]_vars => AgreeInv'
<1> SUFFICES ASSUME ShapeInv, AgreeInv, [Next]_vars PROVE AgreeInv'
  OBVIOUS
<1>1. SessionInv'
  BY SessionStep DEF AgreeInv
<1>2. CASE UNCHANGED vars
  <2>1. UNCHANGED <<shutdown, client, log, work, operations, sessions, bSessions>>
    BY <1>2, VarsLeaves
  <2> QED  BY <1>1, <2>1 DEF AgreeInv, Agree, Undisturbed, Single, Owed, Served, Backed,
                             Took, Closes, Brings, At
<1>3. ASSUME NEW w \in Threads, Plain(w) \/ Special(w) PROVE Agree'
  BY <1>3, AgreePlain, AgreeSpecial
<1> QED  BY <1>1, <1>2, <1>3, Steps, AgreeMain, AgreeReader
         DEF StepKinds, ShapeInv, AgreeInv

LEMMA AgreeInit == Init => AgreeInv
<1> SUFFICES ASSUME Init PROVE Agree
  BY SessionInit DEF AgreeInv
<1>1. sessions = {} /\ bSessions = {} /\ \A w \in Threads : At(w, "none")
  BY NoJobType DEF Init, S!Init, At
<1> QED  BY <1>1 DEF Agree, Single, Owed, Served, Backed, At

\* At rest, unless an operation was cut short, the service and the backend
\* have the same sessions.
THEOREM SessionsAgreeAtRest == Spec => []SessionsAgree
<1>1. AgreeInv => SessionsAgree
  <2> SUFFICES ASSUME AgreeInv, Undisturbed, \A w \in Threads : At(w, "none")
               PROVE  sessions = bSessions
    BY DEF SessionsAgree, Undisturbed
  <2>1. \A w \in Threads : \A s \in S!SessionIds : ~Took(w, s) /\ ~Brings(w, s)
    BY DEF At, Took, Closes, Brings
  <2> QED  BY <2>1 DEF AgreeInv, Agree, Served, Backed
<1> QED  BY <1>1, ShapeInit, ShapeStep, AgreeInit, AgreeStep, PTL DEF Spec

-----------------------------------------------------------------------------
(***************************************************************************)
(* The backend is one of SshService's.  A worker of an operation runs as   *)
(* long as the service counts it, and the ids it works on were given out.  *)
(***************************************************************************)

Working(i) == {w \in Threads : w[1] = i /\ ~At(w, "none")}
Counted ==
    /\ workers \in [S!OpIds -> Nat]
    /\ \A i \in S!OpIds : workers[i] = Cardinality(Working(i))

\* An id given out after shutdown is 0.
Held(j) ==
    /\ \/ j.pc \in {"open", "allocate", "start", "take"}
       \/ j.pc = "announce" /\ j.child # S!NoChild
       \/ j.pc \in {"join", "gone"} /\ j.child = S!NoChild
       => j.session \in S!AllocatedSessions
    /\ \/ j.pc = "drop"
       \/ j.pc \in {"join", "gone"} /\ j.child # S!NoChild
       => j.child \in S!AllocatedChildren
    /\ j.pc \in {"start", "announce"} /\ j.child # S!NoChild =>
          j.child \in S!AllocatedChildren \/ shutdown

Given ==
    /\ mainPc = "known" => request.pc # "none"
    /\ Held(request)
    /\ \A w \in Threads : Held(work[w])
    /\ \A c \in Handles : reader[c] # "none" => c \in S!AllocatedChildren \/ shutdown

ServiceInv == ShapeInv /\ ChildInv /\ SessionInv /\ Given /\ Counted

\* Ids are only ever given out, and shutdown is for good.
Grows ==
    /\ S!AllocatedSessions \subseteq S!AllocatedSessions'
    /\ S!AllocatedChildren \subseteq S!AllocatedChildren'
    /\ shutdown => shutdown'

LEMMA HeldKept == ASSUME NEW j, Held(j), Grows PROVE Held(j)'
  BY DEF Held, Grows

LEMMA SameIds ==
    ASSUME UNCHANGED <<nextSession, nextChild>>, shutdown => shutdown' PROVE Grows
  BY DEF Grows, S!AllocatedSessions, S!AllocatedChildren

\* A step of at most one thread.
LEMMA GivenFrame ==
    ASSUME Given, Grows, NEW w \in Threads,
           \A v \in Threads : v # w => work'[v] = work[v],
           work'[w] = work[w] \/ Held(work[w])',
           request' = request \/ (request'.pc = "none" /\ mainPc' # "known"),
           mainPc' = "known" => mainPc = "known",
           \A c \in Handles : reader'[c] # "none" =>
               reader[c] # "none" \/ c \in S!AllocatedChildren' \/ shutdown'
    PROVE  Given'
<1>1. \A v \in Threads : work'[v] = work[v] => Held(work[v])'
  <2> SUFFICES ASSUME NEW v \in Threads, work'[v] = work[v] PROVE Held(work[v])'  OBVIOUS
  <2>1. PICK j : j = work[v]  OBVIOUS
  <2>2. Held(j)'  BY <2>1, HeldKept DEF Given
  <2> QED  BY <2>1, <2>2 DEF Held
<1>2. Held(request)'
  <2>1. CASE request' = request
    <3>1. PICK j : j = request  OBVIOUS
    <3>2. Held(j)'  BY <3>1, HeldKept DEF Given
    <3> QED  BY <2>1, <3>1, <3>2 DEF Held
  <2>2. CASE request'.pc = "none"  BY <2>2 DEF Held
  <2> QED  BY <2>1, <2>2
<1>3. \A v \in Threads : Held(work[v])'
  BY <1>1
<1> QED  BY <1>2, <1>3 DEF Given, Grows

\* A step that moves no thread.
LEMMA GivenSame ==
    ASSUME Given, Grows, work' = work, request' = request \/ Held(request)',
           mainPc' = "known" => request'.pc # "none",
           \A c \in Handles : reader'[c] # "none" => reader[c] # "none"
    PROVE  Given'
<1>1. \A v \in Threads : Held(work[v])'
  <2> SUFFICES ASSUME NEW v \in Threads PROVE Held(work[v])'  OBVIOUS
  <2>1. PICK j : j = work[v]  OBVIOUS
  <2>2. Held(j)'  BY <2>1, HeldKept DEF Given
  <2> QED  BY <2>1, <2>2 DEF Held
<1>2. Held(request)'
  <2>1. CASE request' = request
    <3>1. PICK j : j = request  OBVIOUS
    <3>2. Held(j)'  BY <3>1, HeldKept DEF Given
    <3> QED  BY <2>1, <3>1, <3>2 DEF Held
  <2> QED  BY <2>1
<1> QED  BY <1>1, <1>2 DEF Given, Grows

LEMMA GivenMain ==
    ASSUME ShapeInv, Given,
           \/ Quiet \/ Asking \/ Resolving \/ Refusing
           \/ Starting(ConnectJob)
           \/ mainPc = "known" /\ Starting(request)
    PROVE  Given'
<1> USE DEF ShapeInv
<1>1. CASE Quiet
  <2>1. Grows  BY <1>1, SameIds DEF Quiet
  <2> QED  BY <1>1, <2>1, GivenSame DEF Quiet, Given
<1>2. CASE Refusing
  <2>1. Grows  BY <1>2, SameIds DEF Refusing
  <2>2. Held(request)'  BY <1>2, NoJobType DEF Refusing, Held
  <2> QED  BY <1>2, <2>1, <2>2, GivenSame DEF Refusing
<1>3. CASE Asking
  <2>1. ASSUME NEW job \in Jobs, NEW known, Asks(job, known), job.pc \in RequestPcs,
               job.pc \in {"take", "open"} => job.session \in S!AllocatedSessions,
               job.pc = "drop" => job.child \in S!AllocatedChildren
        PROVE  Given'
    <3>1. Grows  BY <2>1, SameIds DEF Asks
    <3>2. Held(job) /\ job.pc # "none"  BY <2>1 DEF Held, RequestPcs
    <3>3. Held(request)'  BY <2>1, <3>1, <3>2, HeldKept DEF Asks, Held
    <3> QED  BY <2>1, <3>1, <3>2, <3>3, GivenSame DEF Asks
  <2>2. 0 \in 0..MaxSessions  BY BackendAssumption
  <2>3. ASSUME NEW z \in S!AllocatedSessions, NEW pc \in {"take", "exec"},
               Asks(Job(pc, z, S!NoChild), z \in sessions)
        PROVE  Given'
    <3>1. z \in 0..MaxSessions /\ pc \in RequestPcs  BY AllocatedIds DEF RequestPcs
    <3>2. /\ Job(pc, z, S!NoChild) \in Jobs /\ Job(pc, z, S!NoChild).session = z
          /\ Job(pc, z, S!NoChild).pc = pc
      BY <3>1, JobIsJob, IdIsEntry
    <3> QED  BY <2>1, <2>3, <3>1, <3>2
  <2>4. ASSUME NEW z \in S!AllocatedSessions, NEW type \in ChildTypes,
               Asks(Job("open", z, <<type, 0>>), z \in sessions)
        PROVE  Given'
    <3>1. <<type, 0>> \in Ids /\ z \in 0..MaxSessions /\ "open" \in RequestPcs
      BY AllocatedIds, BackendAssumption DEF Ids, RequestPcs
    <3>2. /\ Job("open", z, <<type, 0>>) \in Jobs
          /\ Job("open", z, <<type, 0>>).session = z
          /\ Job("open", z, <<type, 0>>).pc = "open"
      BY <3>1, JobIsJob
    <3> QED  BY <2>1, <2>4, <3>1, <3>2
  <2>5. ASSUME NEW d \in S!AllocatedChildren, NEW pc \in {"write", "resize", "drop"},
               Asks(Job(pc, 0, d), d \in children)
        PROVE  Given'
    <3>1. d \in Ids /\ pc \in RequestPcs  BY AllocatedIds, IdIsEntry DEF RequestPcs
    <3>2. Job(pc, 0, d) \in Jobs /\ Job(pc, 0, d).pc = pc /\ Job(pc, 0, d).child = d
      BY <2>2, <3>1, JobIsJob
    <3> QED  BY <2>1, <2>5, <3>1, <3>2
  <2>6. "take" \in {"take", "exec"} /\ "exec" \in {"take", "exec"}  OBVIOUS
  <2> QED  BY <1>3, <2>3, <2>4, <2>5, <2>6, Zenon DEF Asking
<1>4. CASE Resolving
  <2>1. PICK w \in Threads : work' = [work EXCEPT ![w] = Job("resolve", 0, S!NoChild)]
    BY <1>4 DEF Resolving
  <2>2. work'[w].pc = "resolve" /\ \A v \in Threads : v # w => work'[v] = work[v]
    BY <2>1 DEF Shape, Job
  <2>3. Held(work[w])'  BY <2>2 DEF Held
  <2>4. Grows  BY <1>4, SameIds DEF Resolving
  <2> QED  BY <1>4, <2>2, <2>3, <2>4, GivenFrame DEF Resolving
<1>5. ASSUME NEW job \in Jobs, Starting(job), Held(job) PROVE Given'
  <2>1. PICK w \in Threads :
           /\ \A v \in Threads : v # w => work'[v] = work[v]
           /\ work'[w] = work[w] \/ work'[w] = job
    BY <1>5, BeginLeaves DEF Starting
  <2>2. Grows  BY <1>5, SameIds DEF Starting
  <2>3. work'[w] = work[w] \/ Held(work[w])'  BY <1>5, <2>1, <2>2, HeldKept DEF Held
  <2>4. /\ request' = request \/ (request'.pc = "none" /\ mainPc' # "known")
        /\ mainPc' = "known" => mainPc = "known"
        /\ reader' = reader
    BY <1>5, NoJobType DEF Starting
  <2> QED  BY <2>1, <2>2, <2>3, <2>4, GivenFrame
<1>6. ConnectJob \in Jobs /\ Held(ConnectJob)
  BY JobIsJob, IdIsEntry, BackendAssumption DEF ConnectJob, Held
<1>7. request \in Jobs /\ Held(request)
  BY DEF Shape, Given
<1> QED  BY <1>1, <1>2, <1>3, <1>4, <1>5, <1>6, <1>7

LEMMA GivenPlain ==
    ASSUME ShapeInv, Given, NEW w \in Threads, Plain(w) PROVE Given'
<1> USE DEF ShapeInv
<1>1. PICK m \in PlainMoves : At(w, m[1]) /\ Goto(w, m[2])
  BY PlainLeaves
<1>2. /\ work'[w].pc = m[2] /\ \A v \in Threads : v # w => work'[v] = work[v]
      /\ work'[w].session = work[w].session
  BY <1>1, PlainTargets, GotoLeaves DEF Shape
<1>3. Grows
  BY PlainLeaves, SameIds
<1>4. m[2] = "allocate" => work[w].session \in S!AllocatedSessions
  BY <1>1, PlainTargets DEF Given, Held, At
<1>5. Held(work[w])'
  BY <1>2, <1>3, <1>4, PlainTargets DEF Held, Grows
<1> QED  BY <1>2, <1>3, <1>5, PlainLeaves, GivenFrame

LEMMA GivenReader ==
    ASSUME ShapeInv, Given, NEW c \in Handles, Reader(c) PROVE Given'
<1> USE DEF ShapeInv
<1>1. /\ UNCHANGED <<shutdown, nextSession, nextChild, mainPc, request, work>>
      /\ Grows
  BY ReaderSteps, SameIds
<1>2. \A d \in Handles : reader'[d] # "none" => reader[d] # "none"
  BY ReaderSteps DEF ReaderGoesOver, ReaderLeaves, ReaderCloses, ReaderInforms, Shape
<1> QED  BY <1>1, <1>2, GivenSame DEF Given

LEMMA GivenSpecial ==
    ASSUME ShapeInv, Given, NEW w \in Threads, Special(w) PROVE Given'
<1> USE DEF ShapeInv
<1>1. \A v \in Threads : v # w => work'[v] = work[v]
  BY SpecialGoes
<1>2. CASE Registers(w)
  <2>1. PICK z \in 0..MaxSessions :
           /\ At(w, "register")
           /\ nextSession' = IF shutdown THEN nextSession ELSE nextSession + 1
           /\ work' = [work EXCEPT ![w].pc = "announce", ![w].session = z]
           /\ UNCHANGED <<shutdown, nextChild, mainPc, request, reader>>
    BY <1>2, RegistersLeaves
  <2>2. Grows  BY <2>1 DEF Grows, S!AllocatedSessions, S!AllocatedChildren, Shape
  <2>3. work'[w].pc = "announce" /\ work'[w].child = S!NoChild
    BY <2>1 DEF Shape, Jobs, Program, Fits, Sessionless, At
  <2>4. Held(work[w])'  BY <2>3 DEF Held
  <2> QED  BY <1>1, <2>1, <2>2, <2>4, GivenFrame
<1>3. CASE Allocates(w)
  <2>1. work[w].child[1] \in ChildTypes /\ work[w].session \in S!AllocatedSessions
    BY <1>3 DEF Allocates, At, Program, Fits, Given, Held
  <2>2. PICK c \in Handles :
           /\ c = <<work[w].child[1],
                    IF shutdown THEN 0 ELSE nextChild[work[w].child[1]]>>
           /\ nextChild' = IF shutdown THEN nextChild
                           ELSE [nextChild EXCEPT ![c[1]] = @ + 1]
           /\ work' = [work EXCEPT ![w].pc = "start", ![w].child = c]
           /\ UNCHANGED <<shutdown, nextSession, mainPc, request, reader>>
    BY <1>3, <2>1, AllocatesLeaves
  <2>3. c[1] \in ChildTypes /\ c[1] = work[w].child[1]  BY <2>1, <2>2
  <2>4. nextChild \in [ChildTypes -> 1..(MaxChildren + 1)]  BY DEF Shape
  <2>5. \A d \in S!Children : d[1] \in ChildTypes /\ d[2] \in Nat
    BY BackendAssumption DEF S!Children
  <2>6. \A t \in ChildTypes : nextChild[t] <= nextChild'[t]  BY <2>2, <2>3, <2>4
  <2>7. S!AllocatedChildren \subseteq S!AllocatedChildren'
    <3> SUFFICES ASSUME NEW d \in S!Children, d[2] < nextChild[d[1]]
                 PROVE  d[2] < nextChild'[d[1]]
      BY DEF S!AllocatedChildren
    <3>1. nextChild[d[1]] \in Nat /\ nextChild'[d[1]] \in Nat  BY <2>2, <2>3, <2>4, <2>5
    <3> QED  BY <2>5, <2>6, <3>1
  <2>8. Grows  BY <2>2, <2>7 DEF Grows, S!AllocatedSessions
  <2>9. c \in S!AllocatedChildren' \/ shutdown'
    <3>1. ASSUME ~shutdown PROVE c \in S!AllocatedChildren'
      <4>1. c[2] = nextChild[c[1]] /\ nextChild'[c[1]] = nextChild[c[1]] + 1
        BY <2>2, <2>3, <2>4, <3>1
      <4>2. nextChild[c[1]] \in 1..(MaxChildren + 1) /\ c[2] \in 0..MaxChildren
        BY <2>3, <2>4 DEF Handles
      <4>3. c \in S!Children  BY <2>2, <2>3, <4>1, <4>2, BackendAssumption DEF S!Children, Handles
      <4> QED  BY <4>1, <4>2, <4>3, BackendAssumption DEF S!AllocatedChildren
    <3> QED  BY <2>2, <3>1
  <2>10. /\ work'[w].pc = "start" /\ work'[w].child = c
         /\ work'[w].session = work[w].session
    BY <2>2 DEF Shape, Jobs
  <2>11. Held(work[w])'  BY <2>1, <2>8, <2>9, <2>10 DEF Held, Grows
  <2> QED  BY <1>1, <2>2, <2>8, <2>11, GivenFrame
<1>4. CASE Starts(w)
  <2>1. /\ Privately /\ At(w, "start") /\ Goto(w, "announce")
        /\ reader' = [reader EXCEPT ![work[w].child] = "running"]
    BY <1>4 DEF Starts
  <2>2. Grows /\ UNCHANGED <<shutdown, nextSession, nextChild, mainPc, request>>
    BY <2>1, PrivatelyLeaves, SameIds
  <2>3. /\ work'[w].pc = "announce" /\ work'[w].child = work[w].child
        /\ work'[w].session = work[w].session
    BY <2>1, GotoLeaves DEF Shape, WorkPcs
  <2>4. /\ work[w].session \in S!AllocatedSessions
        /\ work[w].child \in Handles /\ work[w].child # S!NoChild
        /\ work[w].child \in S!AllocatedChildren \/ shutdown
    BY <2>1, IdIsEntry DEF Given, Held, Program, Fits, At
  <2>5. Held(work[w])'  BY <2>2, <2>3, <2>4 DEF Held, Grows
  <2>6. \A c \in Handles : reader'[c] # "none" =>
           reader[c] # "none" \/ c \in S!AllocatedChildren' \/ shutdown'
    BY <2>1, <2>2, <2>4 DEF Grows, Shape
  <2> QED  BY <1>1, <2>2, <2>5, <2>6, GivenFrame
<1>5. ASSUME UNCHANGED <<shutdown, nextSession, nextChild, mainPc, request, reader>>,
             work'[w] = work[w] \/ Held(work[w])'
      PROVE  Given'
  <2>1. Grows  BY <1>5, SameIds
  <2> QED  BY <1>1, <1>5, <2>1, GivenFrame
<1>6. CASE \/ Records(w)
           \/ At(w, "resolve") /\ w[1] \in pending /\ Resolves(w)
           \/ Announces(w) \/ TellsGone(w) \/ Returns(w)
  <2>1. UNCHANGED <<shutdown, nextSession, nextChild, mainPc, request, reader>>
    <3>1. CASE Records(w) \/ (At(w, "resolve") /\ w[1] \in pending /\ Resolves(w))
      <4>1. Privately /\ reader' = reader  BY <3>1 DEF Records, Resolves, readerVars
      <4> QED  BY <4>1, PrivatelyLeaves
    <3> QED  BY <1>6, <3>1, AnnouncesLeaves, TellsGoneLeaves, EmitLeaves, ReturnsLeaves
  <2>2. work'[w].pc \in {"challenge", "decide", "succeed", "none"}
    <3>1. CASE Records(w) \/ (At(w, "resolve") /\ w[1] \in pending /\ Resolves(w))
      BY <3>1, GotoLeaves DEF Records, Resolves, Shape, WorkPcs
    <3>2. CASE Announces(w) \/ TellsGone(w)
      BY <3>2, AnnouncesLeaves, TellsGoneLeaves, GotoLeaves DEF Shape, WorkPcs
    <3>3. CASE Returns(w)  BY <3>3, ReturnsLeaves, NoJobType DEF Shape
    <3> QED  BY <1>6, <3>1, <3>2, <3>3
  <2> QED  BY <1>5, <2>1, <2>2 DEF Held
<1>7. CASE \/ TakesSession(w) \/ Joins(w)
           \/ work[w].child \in bChildren /\ TakesChild(w)
  <2>1. Privately /\ reader' = reader  BY <1>7 DEF TakesSession, TakesChild, Joins, At, readerVars
  <2>2. UNCHANGED <<shutdown, nextSession, nextChild, mainPc, request, reader>>
    BY <2>1, PrivatelyLeaves
  <2>3. /\ work'[w].session = work[w].session /\ work'[w].child = work[w].child
        /\ <<work[w].pc, work'[w].pc>> \in
              {<<"take", "join">>, <<"drop", "join">>, <<"join", "gone">>}
    BY <1>7 DEF TakesSession, TakesChild, Joins, At, Shape, Jobs
  <2>4. work[w].pc = "take" => work[w].child = S!NoChild  BY DEF Program, Fits, Sessionless
  <2>5. work[w].pc = "drop" => work[w].child # S!NoChild
    <3>1. Held(work[w]) /\ S!AllocatedChildren \subseteq Handles
      BY AllocatedIds, IdIsEntry DEF Given
    <3> QED  BY <3>1, IdIsEntry DEF Held
  <2>6. Held(work[w])  BY DEF Given
  <2>7. Held(work[w])'  BY <2>2, <2>3, <2>4, <2>5, <2>6, SameIds DEF Held, Grows
  <2> QED  BY <1>5, <2>2, <2>7
<1> QED  BY <1>2, <1>3, <1>4, <1>6, <1>7 DEF Special

LEMMA WorkingIsFinite ==
    ASSUME NEW i PROVE IsFiniteSet(Working(i)) /\ Cardinality(Working(i)) \in Nat
<1>1. IsFiniteSet(S!OpIds) /\ IsFiniteSet(1..MaxWorkers)
  BY BackendAssumption, FS_Interval DEF S!OpIds
<1>2. IsFiniteSet(Threads)
  BY <1>1, FS_Product DEF Threads
<1>3. Working(i) \subseteq Threads
  BY DEF Working
<1> QED  BY <1>2, <1>3, FS_Subset, FS_CardinalityType

LEMMA CountSame ==
    ASSUME Counted, workers' = workers,
           \A v \in Threads : At(v, "none")' <=> At(v, "none")
    PROVE  Counted'
<1>1. \A i \in S!OpIds : Working(i)' = Working(i)
  BY DEF Working
<1> QED  BY <1>1 DEF Counted

LEMMA CountMore ==
    ASSUME Counted, NEW w \in Threads, At(w, "none"), ~At(w, "none")',
           \A v \in Threads : v # w => work'[v] = work[v],
           workers' = [workers EXCEPT ![w[1]] = @ + 1]
    PROVE  Counted'
<1>1. \A i \in S!OpIds : i # w[1] => Working(i)' = Working(i)
  BY DEF Working, At
<1>2. Working(w[1])' = Working(w[1]) \cup {w} /\ w \notin Working(w[1])
  BY DEF Working, At
<1>3. Cardinality(Working(w[1])') = Cardinality(Working(w[1])) + 1
  BY <1>2, WorkingIsFinite, FS_AddElement
<1>4. w[1] \in S!OpIds
  BY DEF Threads
<1> QED  BY <1>1, <1>3, <1>4 DEF Counted

LEMMA CountLess ==
    ASSUME Counted, NEW w \in Threads, ~At(w, "none"), At(w, "none")',
           \A v \in Threads : v # w => work'[v] = work[v],
           workers' = [workers EXCEPT ![w[1]] = @ - 1]
    PROVE  Counted'
<1>1. \A i \in S!OpIds : i # w[1] => Working(i)' = Working(i)
  BY DEF Working, At
<1>2. Working(w[1])' = Working(w[1]) \ {w} /\ w \in Working(w[1])
  BY DEF Working, At
<1>3. Cardinality(Working(w[1])') = Cardinality(Working(w[1])) - 1
  BY <1>2, WorkingIsFinite, FS_RemoveElement
<1>4. w[1] \in S!OpIds
  BY DEF Threads
<1>5. Cardinality(Working(w[1])') \in Nat
  BY WorkingIsFinite, <1>2, FS_RemoveElement, FS_CardinalityType
<1> QED  BY <1>1, <1>3, <1>4, <1>5 DEF Counted

\* A thread with a program is one the service counts.
LEMMA WorksCounted ==
    ASSUME Counted, NEW w \in Threads, ~At(w, "none")
    PROVE  w[1] \in S!OpIds /\ workers[w[1]] > 0
<1>1. w[1] \in S!OpIds /\ w \in Working(w[1])
  BY DEF Threads, Working
<1>2. Cardinality(Working(w[1])) # 0
  BY <1>1, WorkingIsFinite, FS_EmptySet
<1> QED  BY <1>1, <1>2, WorkingIsFinite DEF Counted

\* dispatch.
LEMMA CountStarted ==
    ASSUME ShapeInv, Counted, NEW job \in Jobs, job.pc # "none", nextOp <= MaxOps,
           Begin(nextOp, job), NEW t, S!Dispatch(nextOp, t)
    PROVE  Counted'
<1> USE DEF ShapeInv
<1>1. PICK w \in Threads :
         /\ w[1] = nextOp
         /\ \A v \in Threads : v # w => work'[v] = work[v]
         /\ work'[w] = IF shutdown THEN work[w] ELSE job
  BY BeginLeaves
<1>2. CASE shutdown
  BY <1>1, <1>2, CountSame DEF S!Dispatch, S!threadVars, At, Shape
<1>3. CASE ~shutdown
  <2>1. workers' = [workers EXCEPT ![nextOp] = 1]  BY <1>3 DEF S!Dispatch
  <2>2. \A v \in Threads : v[1] = nextOp => At(v, "none")  BY BackendAssumption DEF Fresh, Shape
  <2>3. Working(nextOp) = {} /\ nextOp \in S!OpIds
    BY <2>2, BackendAssumption DEF Working, Shape, S!OpIds
  <2>4. workers[nextOp] = 0  BY <2>3, FS_EmptySet DEF Counted
  <2>5. workers' = [workers EXCEPT ![w[1]] = @ + 1]  BY <1>1, <2>1, <2>4
  <2>6. At(w, "none") /\ ~At(w, "none")'  BY <1>1, <1>3, <2>2 DEF At
  <2> QED  BY <1>1, <2>5, <2>6, CountMore
<1> QED  BY <1>2, <1>3

LEMMA CountMain ==
    ASSUME ShapeInv, Given, Counted, Main PROVE Counted'
<1> USE DEF ShapeInv
<1>1. ASSUME UNCHANGED <<workers, work>> PROVE Counted'
  BY <1>1, CountSame DEF At
<1>2. ASSUME NEW t, Connect(t) PROVE Counted'
  <2>1. ConnectJob \in Jobs /\ ConnectJob.pc # "none"
    BY JobIsJob, IdIsEntry, BackendAssumption DEF ConnectJob
  <2>2. nextOp <= MaxOps /\ Begin(nextOp, ConnectJob) /\ S!Dispatch(nextOp, t)
    BY <1>2 DEF Connect, S!Connect, S!StartOperation, ConnectJob
  <2> QED  BY <2>1, <2>2, CountStarted
<1>3. CASE Proceed /\ mainPc = "known"
  <2>1. request \in Jobs /\ request.pc # "none"  BY <1>3 DEF Shape, Given
  <2>2. nextOp <= MaxOps /\ Begin(nextOp, request) /\ S!Dispatch(nextOp, call.timed)
    BY <1>3 DEF Proceed, S!Proceed, S!StartOperation
  <2> QED  BY <2>1, <2>2, CountStarted
<1>4. CASE Proceed /\ mainPc # "known"
  BY <1>1, <1>4 DEF Proceed, S!Proceed, S!threadVars
<1>5. ASSUME NEW known, NEW t, S!Check(known, t), NEW job, Requests(job) PROVE Counted'
  BY <1>1, <1>5 DEF S!Check, Requests, S!threadVars
<1>6. ASSUME NEW i \in S!OpIds, ResolveKnownHost(i) PROVE Counted'
  <2>1. PICK n \in 2..MaxWorkers :
           /\ At(<<i, n>>, "none")
           /\ work' = [work EXCEPT ![<<i, n>>] = Job("resolve", 0, S!NoChild)]
    BY <1>6 DEF ResolveKnownHost
  <2>2. PICK w : w = <<i, n>>  OBVIOUS
  <2>3. w \in Threads /\ w[1] = i  BY <2>2, BackendAssumption DEF Threads
  <2>4. /\ ~At(w, "none")' /\ \A v \in Threads : v # w => work'[v] = work[v]
    BY <2>1, <2>2, <2>3 DEF At, Job, Shape
  <2>5. workers' = [workers EXCEPT ![i] = @ + 1]  BY <1>6 DEF ResolveKnownHost, S!ResolveKnownHost
  <2> QED  BY <2>1, <2>2, <2>3, <2>4, <2>5, CountMore
<1>7. CASE \/ \E i \in S!OpIds : Cancel(i)
           \/ CancelTold \/ Shutdown \/ ShutdownTold \/ ShutdownJoined
           \/ Teardown \/ TeardownJoined
  <2>1. workers' = workers
    BY <1>7 DEF Cancel, CancelTold, Shutdown, ShutdownTold, ShutdownJoined, Teardown,
         TeardownJoined, S!Cancel, S!CancelTold, S!Shutdown, S!ShutdownTold,
         S!ShutdownJoined, S!threadVars, serviceVars, threadVars
  <2>2. work' = work
    BY <1>7, CancelOperationsLeaves DEF Cancel, CancelTold, Shutdown, ShutdownTold,
         ShutdownJoined, Teardown, TeardownJoined, backendVars
  <2> QED  BY <1>1, <2>1, <2>2
<1>8. ASSUME NEW s, NEW t,
             CloseSession(s) \/ Exec(s, t) \/ \E type \in ChildTypes : Open(s, type, t)
      PROVE  Counted'
  BY <1>5, <1>8 DEF CloseSession, Exec, Open, S!CheckSession
<1>9. ASSUME NEW c, NEW t, Write(c, t) \/ Resize(c) \/ CloseChild(c) PROVE Counted'
  BY <1>5, <1>9 DEF Write, Resize, CloseChild, S!CheckChild
<1> QED  BY <1>2, <1>3, <1>4, <1>6, <1>7, <1>8, <1>9, Zenon DEF Main

LEMMA CountWorker ==
    ASSUME ShapeInv, Counted, NEW w \in Threads, Plain(w) \/ Special(w) PROVE Counted'
<1> USE DEF ShapeInv
<1>1. ASSUME workers' = workers, ~At(w, "none"), ~At(w, "none")',
             \A v \in Threads : v # w => work'[v] = work[v]
      PROVE  Counted'
  BY <1>1, CountSame DEF At
<1>2. CASE Plain(w)
  <2>1. PICK m \in PlainMoves : At(w, m[1]) /\ Goto(w, m[2])  BY <1>2, PlainLeaves
  <2>2. /\ work'[w].pc = m[2] /\ \A v \in Threads : v # w => work'[v] = work[v]
    BY <2>1, PlainTargets, GotoLeaves DEF Shape
  <2>3. workers' = workers
    <3>1. CASE UNCHANGED serviceVars  BY <3>1 DEF serviceVars, threadVars
    <3> QED  BY <1>2, <3>1, EmitLeaves DEF Plain, PlainTell
  <2> QED  BY <1>1, <2>1, <2>2, <2>3, PlainTargets DEF At
<1>3. CASE Special(w) /\ ~Returns(w)
  <2>1. /\ ~At(w, "none") /\ ~At(w, "none")'
        /\ \A v \in Threads : v # w => work'[v] = work[v]
    <3>1. work[w].pc # "done"
      BY <1>3 DEF Special, Records, Registers, Announces, Allocates, Starts,
           TakesSession, TakesChild, Joins, TellsGone, At
    <3> QED  BY <1>3, <3>1, SpecialGoes DEF At
  <2>2. workers' = workers
    <3>1. CASE Registers(w) \/ Allocates(w)
      BY <3>1 DEF Registers, Allocates, S!AllocateSession, S!AllocateChild,
                  S!threadVars, serviceVars, threadVars
    <3>2. CASE Announces(w) \/ TellsGone(w)  BY <3>2, AnnouncesLeaves, TellsGoneLeaves, EmitLeaves
    <3>3. CASE Privately  BY <3>3, PrivatelyLeaves
    <3> QED  BY <1>3, <3>1, <3>2, <3>3 DEF Special, Records, Resolves, Starts,
                TakesSession, TakesChild, Joins, At
  <2> QED  BY <1>1, <2>1, <2>2
<1>4. CASE Returns(w)
  <2>1. /\ At(w, "done") /\ work' = [work EXCEPT ![w] = NoJob]
        /\ workers' = [workers EXCEPT ![w[1]] = @ - 1]
    BY <1>4 DEF Returns, S!WorkerReturns, S!WorkerGone
  <2>2. ~At(w, "none") /\ At(w, "none")' /\ \A v \in Threads : v # w => work'[v] = work[v]
    BY <2>1, NoJobType DEF At, Shape
  <2> QED  BY <2>1, <2>2, CountLess
<1> QED  BY <1>2, <1>3, <1>4

LEMMA ServiceStep == ServiceInv /\ [Next]_vars => ServiceInv'
<1> SUFFICES ASSUME ServiceInv, [Next]_vars PROVE ServiceInv'
  OBVIOUS
<1> USE DEF ServiceInv
<1>1. ShapeInv' /\ ChildInv' /\ SessionInv'
  BY ShapeStep, ChildStep, SessionStep
<1>2. Given'
  <2>1. CASE UNCHANGED vars
    <3>1. Grows  BY <2>1, VarsLeaves, SameIds
    <3> QED  BY <2>1, <3>1, VarsLeaves, GivenSame DEF Given
  <2> QED  BY <2>1, Steps, GivenMain, GivenPlain, GivenSpecial, GivenReader
           DEF StepKinds, ShapeInv
<1>3. Counted'
  <2>1. ASSUME UNCHANGED <<workers, work>> PROVE Counted'  BY <2>1, CountSame DEF At
  <2>2. CASE UNCHANGED vars  BY <2>1, <2>2 DEF vars, serviceVars, threadVars, backendVars
  <2>3. ASSUME NEW i \in S!OpIds, Watcher(i) PROVE Counted'
    <3>1. workers' = workers
      BY <2>3 DEF Watcher, S!WatcherQuits, S!WatcherExpires, S!WatcherFinishes,
                  S!WatcherTold, S!WatcherSteps
    <3>2. work' = work  BY <2>3, CancelOperationsLeaves DEF Watcher, backendVars
    <3> QED  BY <2>1, <3>1, <3>2
  <2>4. ASSUME NEW c \in Handles, Reader(c) PROVE Counted'
    <3>1. workers' = workers
      BY <2>4, EmitLeaves, PrivatelyLeaves DEF Reader, ReaderTells, ReaderQuits,
           ReaderEnds, ReaderTellsClosed
    <3> QED  BY <2>1, <2>4, <3>1, ReaderSteps DEF ShapeInv
  <2> QED  BY <2>2, <2>3, <2>4, CountMain, CountWorker, WorkerSteps DEF Next, Rest
<1> QED  BY <1>1, <1>2, <1>3

LEMMA ServiceInit == Init => ServiceInv
<1> SUFFICES ASSUME Init PROVE Given /\ Counted
  BY ShapeInit, ChildInit, SessionInit DEF ServiceInv
<1>1. /\ mainPc = "idle" /\ request.pc = "none" /\ reader = [c \in Handles |-> "none"]
      /\ workers = [i \in S!OpIds |-> 0] /\ \A w \in Threads : work[w].pc = "none"
  BY NoJobType DEF Init, S!Init
<1>2. \A i \in S!OpIds : Working(i) = {}
  BY <1>1 DEF Working, At
<1> QED  BY <1>1, <1>2, FS_EmptySet DEF Given, Held, Counted

-----------------------------------------------------------------------------
(* Every step is a step of the service with some backend, or none of it.   *)

Serves == S!Next \/ UNCHANGED S!vars

LEMMA ServiceVars == UNCHANGED serviceVars => UNCHANGED S!vars
  BY DEF serviceVars, allocVars, threadVars, mainVars, S!vars, S!opVars, S!tableVars,
         S!allocVars, S!eventVars, S!threadVars, S!mainVars

LEMMA WorkerServes ==
    ASSUME Counted, NEW w \in Threads, ~At(w, "none"), NEW e,
           e \in S!Emittable(w[1]) \/ S!Dropped(e), Emit(e)
    PROVE  Serves
<1>1. CASE S!Dropped(e)
  <2>1. UNCHANGED <<S!opVars, S!tableVars, log, shutdown, nextOp, allocVars, polled,
                    threadVars, mainVars>>
    BY <1>1 DEF Emit, S!Emit
  <2> QED  BY <2>1 DEF Serves, S!vars, allocVars, threadVars, mainVars, S!allocVars,
                       S!eventVars, S!threadVars, S!mainVars
<1>2. CASE e \in S!Emittable(w[1])
  <2>1. w[1] \in S!OpIds /\ workers[w[1]] > 0  BY WorksCounted
  <2>2. S!Emit(e) /\ UNCHANGED <<shutdown, nextOp, allocVars, polled, threadVars, mainVars>>
    BY DEF Emit
  <2>3. S!WorkerEmits(w[1])
    BY <1>2, <2>1, <2>2 DEF S!WorkerEmits, allocVars, threadVars, mainVars, S!allocVars,
       S!threadVars, S!mainVars
  <2> QED  BY <2>1, <2>3 DEF Serves, S!Next, S!Worker
<1> QED  BY <1>1, <1>2

LEMMA PlainServes ==
    ASSUME ShapeInv, Counted, NEW w \in Threads, Plain(w) PROVE Serves
<1>1. PICK m \in PlainMoves : At(w, m[1]) /\ PlainTell(w, m[2])
  BY DEF Plain
<1>2. ~At(w, "none")
  BY <1>1, PlainTargets DEF At
<1>3. ASSUME NEW k \in S!TerminalKinds \cup {"Info"}, Emit(S!Event(k, w[1]))
      PROVE  Serves
  <2>1. S!Event(k, w[1]) \in S!Emittable(w[1])
    BY BackendAssumption DEF S!Emittable, S!Informing, S!Ending
  <2> QED  BY <1>2, <1>3, <2>1, WorkerServes
<1> QED  BY <1>1, <1>3, ServiceVars DEF PlainTell, Serves

LEMMA SpecialServes ==
    ASSUME ServiceInv, NEW w \in Threads, Special(w) PROVE Serves
<1> USE DEF ServiceInv, ShapeInv
<1>1. CASE Privately
  BY <1>1, ServiceVars DEF Privately, Serves
<1>2. CASE Registers(w)
  BY <1>2, ThreadType, ServiceVars DEF Registers, Serves, S!Next, S!Worker, S!OpIds
<1>3. CASE Allocates(w)
  <2>1. work[w].child[1] \in ChildTypes  BY <1>3 DEF Allocates, At, Program, Fits
  <2> QED  BY <1>3, <2>1, ThreadType, ServiceVars
           DEF Allocates, Serves, S!Next, S!Worker, S!OpIds
<1>4. CASE Returns(w)
  BY <1>4, ThreadType DEF Returns, Serves, S!Next, S!Worker, S!OpIds
<1>5. CASE Announces(w)
  <2>1. At(w, "announce") /\ Emit(AnnouncedBy(w))  BY <1>5, AnnouncesLeaves
  <2>2. AnnouncedBy(w) \in S!Emittable(w[1]) \/ shutdown
    <3>1. CASE work[w].child = S!NoChild
      <4>1. PICK s \in 0..MaxSessions : s = work[w].session  BY JobType
      <4>2. Brings(w, s)  BY <2>1, <3>1, <4>1 DEF Brings, At
      <4>3. AnnouncedBy(w) = S!HandleEvent("Connected", w[1], s, S!NoChild)
        BY <3>1, <4>1 DEF AnnouncedBy
      <4>4. CASE s = 0  BY <4>2, <4>4 DEF SessionInv, Zero
      <4>5. CASE s # 0
        <5>1. s \in S!SessionIds  BY <4>5, BackendAssumption DEF S!SessionIds
        <5>2. s < nextSession /\ ~SaysConnected(s)  BY <4>2, <5>1 DEF SessionInv, Session
        <5>3. s \in S!AllocatedSessions
          BY <5>1, <5>2, BackendAssumption DEF S!AllocatedSessions, S!SessionIds, Shape
        <5>4. ~S!Announced("Connected", "session", s)  BY <5>2 DEF S!Announced, SaysConnected
        <5> QED  BY <4>3, <5>3, <5>4 DEF S!Emittable, S!Connecting
      <4> QED  BY <4>4, <4>5
    <3>2. CASE work[w].child # S!NoChild
      <4>1. PICK c, s : c = work[w].child /\ s = work[w].session  OBVIOUS
      <4>2. Held(work[w]) /\ Opens(w, c)  BY <2>1, <4>1 DEF Given, Opens, At
      <4>3. s \in S!AllocatedSessions /\ (c \in S!AllocatedChildren \/ shutdown)
        BY <2>1, <3>2, <4>1, <4>2 DEF Held, At
      <4>4. ASSUME c \in S!AllocatedChildren PROVE ~S!Announced("Opened", "child", c)
        <5>1. Child(c)  BY <4>4 DEF ChildInv, S!AllocatedChildren
        <5>2. ~SaysOpened(c)  BY <4>2, <5>1 DEF Child, Opener
        <5> QED  BY <5>2 DEF S!Announced, SaysOpened
      <4>5. AnnouncedBy(w) = S!HandleEvent("Opened", w[1], s, c)  BY <3>2, <4>1 DEF AnnouncedBy
      <4> QED  BY <4>3, <4>4, <4>5 DEF S!Emittable, S!Opening
    <3> QED  BY <3>1, <3>2
  <2> QED  BY <2>1, <2>2, WorkerServes DEF At, S!Dropped
<1>6. CASE TellsGone(w)
  <2>1. At(w, "gone") /\ Emit(GoneBy(w)) /\ Held(work[w])  BY <1>6, TellsGoneLeaves DEF Given
  <2>2. GoneBy(w) \in S!Emittable(w[1])
    <3>1. CASE work[w].child = S!NoChild
      <4>1. work[w].session \in S!AllocatedSessions  BY <2>1, <3>1 DEF Held, At
      <4> QED  BY <3>1, <4>1 DEF GoneBy, S!Emittable, S!Disconnecting
    <3>2. CASE work[w].child # S!NoChild
      <4>1. work[w].child \in S!AllocatedChildren  BY <2>1, <3>2 DEF Held, At
      <4> QED  BY <3>2, <4>1 DEF GoneBy, S!Emittable, S!Informing
    <3> QED  BY <3>1, <3>2
  <2> QED  BY <2>1, <2>2, WorkerServes DEF At
<1> QED  BY <1>1, <1>2, <1>3, <1>4, <1>5, <1>6
    DEF Special, Records, Resolves, Starts, TakesSession, TakesChild, Joins, At

LEMMA ReaderServes ==
    ASSUME ServiceInv, NEW c \in Handles, Reader(c) PROVE Serves
<1>1. CASE Privately
  BY <1>1, ServiceVars DEF Privately, Serves
<1>2. ASSUME NEW e, Emit(e), e \in S!Informing(0) PROVE Serves
  <2>1. S!BackendEmits
    BY <1>2 DEF Emit, S!BackendEmits, allocVars, threadVars, mainVars, S!allocVars,
       S!threadVars, S!mainVars
  <2> QED  BY <2>1 DEF Serves, S!Next
<1>3. ASSUME NEW e, Emit(e), shutdown PROVE Serves
  <2>1. UNCHANGED <<S!opVars, S!tableVars, log, shutdown, nextOp, allocVars, polled,
                    threadVars, mainVars>>
    BY <1>3 DEF Emit, S!Emit, S!Dropped
  <2> QED  BY <2>1 DEF Serves, S!vars, allocVars, threadVars, mainVars, S!allocVars,
                       S!eventVars, S!threadVars, S!mainVars
<1>4. CASE ReaderTells(c)
  BY <1>2, <1>4 DEF ReaderTells, S!Informing
<1>5. CASE ReaderTellsClosed(c)
  <2>1. c \in S!AllocatedChildren \/ shutdown
    BY <1>5 DEF ReaderTellsClosed, ReaderGoes, ServiceInv, Given
  <2> QED  BY <1>2, <1>3, <1>5, <2>1 DEF ReaderTellsClosed, S!Informing
<1> QED  BY <1>1, <1>4, <1>5 DEF Reader, ReaderQuits, ReaderEnds

LEMMA MainServes == ASSUME Shape, Main PROVE Serves
<1> USE DEF Serves, S!Next, S!Main
<1>1. client.timed \in BOOLEAN /\ FALSE \in BOOLEAN
  BY DEF Shape
<1>2. /\ S!AllocatedSessions \subseteq S!SessionIds
      /\ S!AllocatedChildren \subseteq S!Children
  BY AllocatedIds
<1>3. ASSUME NEW t \in BOOLEAN, Connect(t) PROVE Serves
  BY <1>3 DEF Connect
<1>4. ASSUME NEW s \in S!AllocatedSessions, NEW t \in BOOLEAN,
             CloseSession(s) \/ Exec(s, t) \/ \E type \in ChildTypes : Open(s, type, t)
      PROVE  Serves
  BY <1>1, <1>2, <1>4 DEF CloseSession, Exec, Open
<1>5. ASSUME NEW c \in S!AllocatedChildren, NEW t \in BOOLEAN,
             Write(c, t) \/ Resize(c) \/ CloseChild(c)
      PROVE  Serves
  BY <1>1, <1>2, <1>5 DEF Write, Resize, CloseChild
<1>6. ASSUME NEW i \in S!OpIds, ResolveKnownHost(i) \/ Cancel(i) PROVE Serves
  BY <1>6 DEF ResolveKnownHost, Cancel
<1>7. CASE Proceed \/ CancelTold \/ Shutdown \/ ShutdownTold \/ ShutdownJoined
  BY <1>7 DEF Proceed, CancelTold, Shutdown, ShutdownTold, ShutdownJoined
<1>8. CASE Teardown \/ TeardownJoined
  BY <1>8, ServiceVars DEF Teardown, TeardownJoined
<1> HIDE DEF Serves, S!Next, S!Main
<1> QED  BY <1>1, <1>3, <1>4, <1>5, <1>6, <1>7, <1>8, Zenon DEF Main

LEMMA NextServes == ServiceInv /\ [Next]_vars => [S!Next]_(S!vars)
<1> SUFFICES ASSUME ServiceInv, [Next]_vars PROVE Serves
  BY DEF Serves
<1>1. CASE UNCHANGED vars
  BY <1>1, ServiceVars DEF vars, Serves
<1>2. ASSUME NEW i \in S!OpIds, Watcher(i) PROVE Serves
  BY <1>2 DEF Watcher, Serves, S!Next, S!Watcher
<1>3. ASSUME NEW w \in Threads, Worker(w) PROVE Serves
  BY <1>3, WorkerSteps, PlainServes, SpecialServes DEF ServiceInv
<1> QED  BY <1>1, <1>2, <1>3, MainServes, ReaderServes
         DEF Next, Rest, ServiceInv, ShapeInv

\* LibsshBackend is a backend of SshService: it tells only what the service
\* expects of one, of ids it was given, and announces each once.
THEOREM LibsshServes == Spec => ImplementsService
<1>1. Init => S!Init
  BY DEF Init
<1> QED  BY <1>1, ServiceInit, ServiceStep, NextServes, PTL
    DEF Spec, ImplementsService, S!Spec

-----------------------------------------------------------------------------
(***************************************************************************)
(* Types: those of the service are kept by every step it has with any      *)
(* backend, and the backend's tables name what was given out.              *)
(***************************************************************************)

LEMMA ServiceTypeInit == S!Init => S!TypeOK
<1> SUFFICES ASSUME S!Init PROVE S!TypeOK
  OBVIOUS
<1> USE BackendAssumption
<1>1. log \in Seq(S!Events) /\ polled \in 0..Len(log)
  BY DEF S!Init
<1>2. nextChild \in [ChildTypes -> 1..(MaxChildren + 1)]
  BY DEF S!Init
<1>3. workers \in [S!OpIds -> 0..MaxWorkers] /\ watcher \in [S!OpIds -> S!WatcherPcs]
  BY DEF S!Init, S!WatcherPcs
<1>4. call \in [op : 0..MaxOps, timed : BOOLEAN] /\ mainPc \in S!MainPcs
  BY DEF S!Init, S!NoCall, S!MainPcs
<1>5. nextOp \in 1..(MaxOps + 1) /\ nextSession \in 1..(MaxSessions + 1)
  BY DEF S!Init
<1> QED  BY <1>1, <1>2, <1>3, <1>4, <1>5 DEF S!Init, S!TypeOK

\* The shape of the events the service and its backend build.
LEMMA ServiceHandleEventType ==
    ASSUME NEW k \in S!EventKinds, NEW i \in 0..MaxOps, NEW s \in 0..MaxSessions,
           NEW c \in S!Children \cup {S!NoChild}
    PROVE  /\ S!HandleEvent(k, i, s, c) \in S!Events
           /\ S!HandleEvent(k, i, s, c).op = i
  BY DEF S!HandleEvent, S!Events

LEMMA ServiceEventType ==
    ASSUME NEW k \in S!EventKinds, NEW i \in 0..MaxOps
    PROVE  /\ S!Event(k, i) \in S!Events
           /\ S!Event(k, i).kind = k /\ S!Event(k, i).op = i
<1>1. 0 \in 0..MaxSessions
  BY BackendAssumption
<1> QED  BY <1>1 DEF S!Event, S!HandleEvent, S!Events

LEMMA ServiceEmittedEvent ==
    ASSUME S!TypeOK, NEW i \in 0..MaxOps, NEW e \in S!Emittable(i)
    PROVE  e \in S!Events /\ e.op = i
<1>1. /\ S!AllocatedSessions \subseteq 0..MaxSessions
      /\ S!AllocatedChildren \subseteq S!Children
  BY BackendAssumption DEF S!AllocatedSessions, S!AllocatedChildren, S!TypeOK
<1>2. {"Info", "Connected", "SessionClosed", "Opened", "Closed"} \cup Outcomes
          \subseteq S!EventKinds
  BY BackendAssumption DEF S!EventKinds
<1>3. 0 \in 0..MaxSessions
  BY BackendAssumption
<1>4. CASE e \in S!Informing(i)
  <2>1. CASE e = S!Event("Info", i)  BY <1>2, <2>1, ServiceEventType
  <2>2. ASSUME NEW c \in S!AllocatedChildren, e = S!HandleEvent("Closed", i, 0, c)
        PROVE  e \in S!Events /\ e.op = i
    BY <1>1, <1>2, <1>3, <2>2, ServiceHandleEventType
  <2> QED  BY <1>4, <2>1, <2>2 DEF S!Informing
<1>5. CASE e \in S!Ending(i)
  BY <1>2, <1>5, ServiceEventType DEF S!Ending
<1>6. CASE e \in S!Connecting(i)
  BY <1>1, <1>2, <1>6, ServiceHandleEventType DEF S!Connecting
<1>7. CASE e \in S!Disconnecting(i)
  BY <1>1, <1>2, <1>7, ServiceHandleEventType DEF S!Disconnecting
<1>8. CASE e \in S!Opening(i)
  BY <1>1, <1>2, <1>8, ServiceHandleEventType DEF S!Opening
<1> QED  BY <1>4, <1>5, <1>6, <1>7, <1>8 DEF S!Emittable

LEMMA ServiceInformingIsEmittable ==
    ASSUME NEW i PROVE S!Informing(i) \subseteq S!Emittable(i)
  BY DEF S!Emittable

\* What note_handles_for_event_locked leaves in the tables.
LEMMA ServiceNoteHandlesType ==
    ASSUME S!TypeOK, NEW e \in S!Events, S!NoteHandles(e)
    PROVE  /\ sessions' \subseteq S!SessionIds
           /\ children' \subseteq S!Children
           /\ owner' \subseteq S!Children \X S!SessionIds
<1> USE BackendAssumption
<1>1. /\ e.session \in 0..MaxSessions /\ e.child \in S!Children \cup {S!NoChild}
      /\ e.session # 0 => e.session \in S!SessionIds
  BY DEF S!Events, S!SessionIds
<1>2. sessions' \subseteq S!SessionIds
  BY <1>1 DEF S!TypeOK, S!NoteHandles
<1>3. children' \subseteq S!Children
  BY <1>1 DEF S!TypeOK, S!NoteHandles
<1>4. owner' \subseteq S!Children \X S!SessionIds
  <2>1. CASE e.kind = "Opened" /\ e.child # S!NoChild /\ e.session # 0
    BY <1>1, <2>1 DEF S!TypeOK, S!NoteHandles
  <2>2. CASE ~(e.kind = "Opened" /\ e.child # S!NoChild /\ e.session # 0)
    BY <2>2 DEF S!TypeOK, S!NoteHandles
  <2> QED  BY <2>1, <2>2
<1> QED  BY <1>2, <1>3, <1>4

LEMMA ServiceQueueEventType ==
    ASSUME S!TypeOK, NEW e \in S!Events, S!QueueEvent(e)
    PROVE  log' \in Seq(S!Events) /\ polled \in 0..Len(log')
  BY DEF S!TypeOK, S!QueueEvent

\* What emit leaves.
LEMMA ServiceEmitType ==
    ASSUME S!TypeOK, NEW e \in S!Events, S!Emit(e)
    PROVE  /\ operations' \subseteq S!OpIds /\ cancelled' \subseteq S!OpIds
           /\ sessions' \subseteq S!SessionIds
           /\ children' \subseteq S!Children
           /\ owner' \subseteq S!Children \X S!SessionIds
           /\ log' \in Seq(S!Events) /\ polled \in 0..Len(log')
<1>1. CASE UNCHANGED <<S!opVars, S!tableVars, log>>
  BY <1>1 DEF S!TypeOK, S!opVars, S!tableVars
<1>2. CASE /\ S!EndOperations(IF e.kind \in S!TerminalKinds THEN {e.op} \ {0} ELSE {})
           /\ S!NoteHandles(e)
           /\ S!QueueEvent(e)
  <2>1. e.op \in 0..MaxOps  BY DEF S!Events
  <2>2. {e.op} \ {0} \subseteq S!OpIds  BY <2>1, BackendAssumption DEF S!OpIds
  <2>3. operations' \subseteq S!OpIds /\ cancelled' \subseteq S!OpIds
    BY <1>2, <2>2 DEF S!EndOperations, S!TypeOK
  <2> QED  BY <1>2, <2>3, ServiceNoteHandlesType, ServiceQueueEventType
<1> QED  BY <1>1, <1>2 DEF S!Emit

LEMMA ServiceQueueLength == ASSUME S!TypeOK PROVE Len(S!Queued) = Len(log) - polled
<1>1. polled + 1 \in 1..(Len(log) + 1) /\ Len(log) \in Nat
  BY DEF S!TypeOK
<1> QED  BY <1>1, SubSeqProperties DEF S!TypeOK, S!Queued

\* The threads dispatch starts, and where they are.
LEMMA ServiceDispatchType ==
    ASSUME S!TypeOK, NEW i \in S!OpIds, NEW t \in BOOLEAN, S!Dispatch(i, t)
    PROVE  /\ workers' \in [S!OpIds -> 0..MaxWorkers]
           /\ watcher' \in [S!OpIds -> S!WatcherPcs]
           /\ timed' \subseteq S!OpIds
<1>1. 1 \in 0..MaxWorkers
  BY BackendAssumption
<1>2. CASE UNCHANGED S!threadVars
  BY <1>2 DEF S!TypeOK, S!threadVars
<1>3. CASE workers' = [workers EXCEPT ![i] = 1]
           /\ watcher' = [watcher EXCEPT ![i] = IF t THEN "sleeping" ELSE "none"]
           /\ timed' = IF t THEN timed \cup {i} ELSE timed
  BY <1>1, <1>3 DEF S!TypeOK, S!WatcherPcs
<1> QED  BY <1>2, <1>3 DEF S!Dispatch

LEMMA ServiceStartOperationType ==
    ASSUME S!TypeOK, NEW t \in BOOLEAN, S!StartOperation(t)
    PROVE  /\ nextOp \in S!OpIds
           /\ nextOp' = nextOp + 1 /\ nextOp' \in 1..(MaxOps + 1)
           /\ operations' = operations \cup {nextOp} /\ operations' \subseteq S!OpIds
           /\ S!Dispatch(nextOp, t)
           /\ workers' \in [S!OpIds -> 0..MaxWorkers]
           /\ watcher' \in [S!OpIds -> S!WatcherPcs]
           /\ timed' \subseteq S!OpIds
<1>1. nextOp \in S!OpIds /\ nextOp' = nextOp + 1 /\ nextOp' \in 1..(MaxOps + 1)
  BY BackendAssumption DEF S!TypeOK, S!StartOperation, S!OpIds
<1>2. operations' = operations \cup {nextOp} /\ S!Dispatch(nextOp, t)
  BY DEF S!StartOperation
<1> QED  BY <1>1, <1>2, ServiceDispatchType DEF S!TypeOK

\* An error event for an id that has no operation.
LEMMA ServiceNewErrorType ==
    ASSUME S!TypeOK, nextOp <= MaxOps, S!QueueEvent(S!Event("OperationError", nextOp))
    PROVE  /\ log' \in Seq(S!Events) /\ polled \in 0..Len(log')
           /\ nextOp + 1 \in 1..(MaxOps + 1)
<1>1. nextOp \in 0..MaxOps /\ nextOp + 1 \in 1..(MaxOps + 1)
  BY BackendAssumption DEF S!TypeOK
<1>2. S!Event("OperationError", nextOp) \in S!Events
  BY <1>1, ServiceEventType DEF S!EventKinds, S!TerminalKinds
<1> QED  BY <1>1, <1>2, ServiceQueueEventType

LEMMA ServiceFinishType ==
    ASSUME S!TypeOK, NEW i \in S!OpIds, NEW k \in S!TerminalKinds, S!FinishOperation(i, k)
    PROVE  /\ operations' \subseteq S!OpIds /\ cancelled' \subseteq S!OpIds
           /\ log' \in Seq(S!Events) /\ polled \in 0..Len(log')
<1>1. i \in 0..MaxOps /\ k \in S!EventKinds
  BY BackendAssumption DEF S!OpIds, S!EventKinds
<1>2. S!Event(k, i) \in S!Events
  BY <1>1, ServiceEventType
<1>3. S!QueueEvent(S!Event(k, i)) /\ S!EndOperations({i})
  BY DEF S!FinishOperation
<1> QED  BY <1>2, <1>3, ServiceQueueEventType DEF S!TypeOK, S!EndOperations

LEMMA ServiceTypeMain == S!TypeOK /\ S!Main => S!TypeOK'
<1> SUFFICES ASSUME S!TypeOK, S!Main PROVE S!TypeOK'
  OBVIOUS
<1> USE DEF S!opVars, S!tableVars, S!allocVars, S!eventVars, S!threadVars, S!mainVars
<1>1. ASSUME NEW t \in BOOLEAN, S!Connect(t) PROVE S!TypeOK'
  <2>1. S!StartOperation(t)  BY <1>1 DEF S!Connect
  <2> QED  BY <1>1, <2>1, ServiceStartOperationType DEF S!Connect, S!TypeOK
<1>2. CASE S!ConnectMalformed
  <2>1. log' \in Seq(S!Events) /\ polled \in 0..Len(log') /\ nextOp' \in 1..(MaxOps + 1)
    BY <1>2, ServiceNewErrorType DEF S!ConnectMalformed
  <2> QED  BY <1>2, <2>1 DEF S!ConnectMalformed, S!TypeOK
<1>3. ASSUME S!EnqueueError, UNCHANGED polled
      PROVE  log' \in Seq(S!Events) /\ polled' \in 0..Len(log')
             /\ nextOp' \in 1..(MaxOps + 1)
  <2>1. CASE UNCHANGED <<nextOp, log>>  BY <1>3, <2>1 DEF S!TypeOK
  <2>2. CASE /\ nextOp <= MaxOps /\ nextOp' = nextOp + 1
             /\ S!QueueEvent(S!Event("OperationError", nextOp))
    BY <1>3, <2>2, ServiceNewErrorType
  <2> QED  BY <1>3, <2>1, <2>2 DEF S!EnqueueError
<1>4. CASE S!Malformed
  <2>1. log' \in Seq(S!Events) /\ polled' \in 0..Len(log') /\ nextOp' \in 1..(MaxOps + 1)
    BY <1>3, <1>4 DEF S!Malformed
  <2> QED  BY <1>4, <2>1 DEF S!Malformed, S!TypeOK
<1>5. ASSUME NEW known, NEW t \in BOOLEAN, S!Check(known, t) PROVE S!TypeOK'
  <2>1. call' \in [op : 0..MaxOps, timed : BOOLEAN] /\ mainPc' \in S!MainPcs
    BY <1>5, BackendAssumption DEF S!Check, S!MainPcs
  <2> QED  BY <1>5, <2>1 DEF S!Check, S!TypeOK
<1>6. CASE S!Proceed
  <2>1. call.timed \in BOOLEAN  BY DEF S!TypeOK
  <2>2. call' \in [op : 0..MaxOps, timed : BOOLEAN] /\ mainPc' \in S!MainPcs
    BY <1>6, BackendAssumption DEF S!Proceed, S!NoCall, S!MainPcs
  <2>3. CASE S!StartOperation(call.timed) /\ UNCHANGED log
    BY <1>6, <2>1, <2>2, <2>3, ServiceStartOperationType DEF S!Proceed, S!TypeOK
  <2>4. CASE S!EnqueueError /\ UNCHANGED <<operations, S!threadVars>>
    <3>1. log' \in Seq(S!Events) /\ polled' \in 0..Len(log')
          /\ nextOp' \in 1..(MaxOps + 1)
      BY <1>3, <1>6, <2>4 DEF S!Proceed
    <3> QED  BY <1>6, <2>2, <2>4, <3>1 DEF S!Proceed, S!TypeOK
  <2> QED  BY <1>6, <2>3, <2>4 DEF S!Proceed
<1>7. ASSUME NEW i \in S!OpIds, S!ResolveKnownHost(i) PROVE S!TypeOK'
  <2>1. workers' \in [S!OpIds -> 0..MaxWorkers]
    BY <1>7, BackendAssumption DEF S!ResolveKnownHost, S!TypeOK
  <2> QED  BY <1>7, <2>1 DEF S!ResolveKnownHost, S!TypeOK
<1>8. ASSUME NEW i \in S!OpIds, S!Cancel(i) PROVE S!TypeOK'
  <2>1. call' \in [op : 0..MaxOps, timed : BOOLEAN] /\ mainPc' \in S!MainPcs
    BY <1>8, BackendAssumption DEF S!Cancel, S!MainPcs, S!OpIds
  <2>2. S!FinishOperation(i, "OperationCancelled")  BY <1>8 DEF S!Cancel
  <2>3. /\ operations' \subseteq S!OpIds /\ cancelled' \subseteq S!OpIds
        /\ log' \in Seq(S!Events) /\ polled \in 0..Len(log')
    BY <2>2, ServiceFinishType DEF S!TerminalKinds
  <2> QED  BY <1>8, <2>1, <2>3 DEF S!Cancel, S!TypeOK
<1>9. CASE S!CancelTold
  <2>1. call' \in [op : 0..MaxOps, timed : BOOLEAN] /\ mainPc' \in S!MainPcs
    BY <1>9, BackendAssumption DEF S!CancelTold, S!NoCall, S!MainPcs
  <2> QED  BY <1>9, <2>1 DEF S!CancelTold, S!TypeOK
<1>10. ASSUME NEW max \in Limits, S!Poll(max) PROVE S!TypeOK'
  <2>1. /\ Len(S!Queued) = Len(log) - polled /\ Len(log) \in Nat
        /\ polled \in 0..Len(log) /\ max \in Nat
    BY ServiceQueueLength, BackendAssumption DEF S!TypeOK
  <2>2. polled' \in 0..Len(log)  BY <1>10, <2>1 DEF S!Poll, S!Polled
  <2> QED  BY <1>10, <2>2 DEF S!Poll, S!TypeOK
<1>11. CASE S!Shutdown
  <2>1. Len(log) \in 0..Len(log)  BY DEF S!TypeOK
  <2> QED  BY <1>11, <2>1 DEF S!Shutdown, S!EndOperations, S!TypeOK, S!MainPcs
<1>12. CASE S!ShutdownTold
  BY <1>12 DEF S!ShutdownTold, S!TypeOK, S!MainPcs
<1>13. CASE S!ShutdownJoined
  BY <1>13 DEF S!ShutdownJoined, S!TypeOK, S!MainPcs
<1>14. ASSUME NEW sid \in S!SessionIds, NEW t \in BOOLEAN, S!CheckSession(sid, t)
       PROVE  S!TypeOK'
  BY <1>5, <1>14 DEF S!CheckSession
<1>15. ASSUME NEW c \in S!Children, NEW t \in BOOLEAN, S!CheckChild(c, t)
       PROVE  S!TypeOK'
  BY <1>5, <1>15 DEF S!CheckChild
<1> QED
  BY <1>1, <1>2, <1>4, <1>6, <1>7, <1>8, <1>9, <1>10, <1>11, <1>12, <1>13,
     <1>14, <1>15 DEF S!Main

LEMMA ServiceTypeWatcher ==
    ASSUME S!TypeOK, NEW i \in S!OpIds, S!Watcher(i) PROVE S!TypeOK'
<1> USE DEF S!opVars, S!tableVars, S!allocVars, S!eventVars, S!threadVars, S!mainVars
<1>1. ASSUME NEW from, NEW to \in S!WatcherPcs, S!WatcherSteps(i, from, to),
             operations' \subseteq S!OpIds, cancelled' \subseteq S!OpIds,
             log' \in Seq(S!Events), polled \in 0..Len(log')
      PROVE  S!TypeOK'
  BY <1>1 DEF S!WatcherSteps, S!TypeOK
<1>2. ASSUME NEW from, NEW to \in S!WatcherPcs, S!WatcherSteps(i, from, to),
             UNCHANGED <<S!opVars, log>>
      PROVE  S!TypeOK'
  BY <1>1, <1>2 DEF S!TypeOK
<1>3. /\ "none" \in S!WatcherPcs /\ "expired" \in S!WatcherPcs
      /\ "cancelling" \in S!WatcherPcs
  BY DEF S!WatcherPcs
<1>4. CASE S!WatcherQuits(i)
  BY <1>2, <1>3, <1>4 DEF S!WatcherQuits
<1>5. CASE S!WatcherExpires(i)
  BY <1>2, <1>3, <1>5 DEF S!WatcherExpires
<1>6. CASE S!WatcherFinishes(i)
  <2>1. CASE /\ S!FinishOperation(i, "OperationTimeout")
             /\ S!WatcherSteps(i, "expired", "cancelling")
    BY <1>1, <1>3, <2>1, ServiceFinishType DEF S!TerminalKinds
  <2>2. CASE S!WatcherSteps(i, "expired", "none") /\ UNCHANGED <<S!opVars, log>>
    BY <1>2, <1>3, <2>2
  <2> QED  BY <1>6, <2>1, <2>2 DEF S!WatcherFinishes
<1>7. CASE S!WatcherTold(i)
  BY <1>2, <1>3, <1>7 DEF S!WatcherTold
<1> QED  BY <1>4, <1>5, <1>6, <1>7 DEF S!Watcher

LEMMA ServiceTypeBackend ==
    ASSUME S!TypeOK, (\E i \in S!OpIds : S!Worker(i)) \/ S!BackendEmits PROVE S!TypeOK'
<1> USE DEF S!opVars, S!tableVars, S!allocVars, S!eventVars, S!threadVars, S!mainVars
<1>1. ASSUME NEW i \in S!OpIds, S!WorkerEmits(i) PROVE S!TypeOK'
  <2>1. PICK e \in S!Emittable(i) : S!Emit(e)  BY <1>1 DEF S!WorkerEmits
  <2>2. e \in S!Events  BY ServiceEmittedEvent, BackendAssumption DEF S!OpIds
  <2> QED  BY <1>1, <2>1, <2>2, ServiceEmitType DEF S!WorkerEmits, S!TypeOK
<1>2. CASE S!BackendEmits
  <2>1. PICK e \in S!Informing(0) : S!Emit(e)  BY <1>2 DEF S!BackendEmits
  <2>2. e \in S!Events  BY ServiceEmittedEvent, ServiceInformingIsEmittable, BackendAssumption
  <2> QED  BY <1>2, <2>1, <2>2, ServiceEmitType DEF S!BackendEmits, S!TypeOK
<1>3. ASSUME NEW i \in S!OpIds, S!AllocateSession(i) PROVE S!TypeOK'
  BY <1>3, BackendAssumption DEF S!AllocateSession, S!TypeOK
<1>4. ASSUME NEW i \in S!OpIds, NEW t \in ChildTypes, S!AllocateChild(i, t)
      PROVE  S!TypeOK'
  BY <1>4, BackendAssumption DEF S!AllocateChild, S!TypeOK
<1>5. ASSUME NEW i \in S!OpIds, S!WorkerGone(i)
      PROVE  workers' \in [S!OpIds -> 0..MaxWorkers]
  BY <1>5, BackendAssumption DEF S!WorkerGone, S!TypeOK
<1>6. ASSUME NEW i \in S!OpIds, S!WorkerReturns(i) PROVE S!TypeOK'
  BY <1>5, <1>6 DEF S!WorkerReturns, S!WorkerGone, S!TypeOK
<1>7. ASSUME NEW i \in S!OpIds, S!WorkerThrows(i) PROVE S!TypeOK'
  <2>1. S!Event("OperationError", i) \in S!Events
    BY ServiceEventType, BackendAssumption DEF S!OpIds, S!EventKinds, S!TerminalKinds
  <2> QED  BY <1>5, <1>7, <2>1, ServiceEmitType DEF S!WorkerThrows, S!WorkerGone, S!TypeOK
<1> QED  BY <1>1, <1>2, <1>3, <1>4, <1>6, <1>7 DEF S!Worker

LEMMA ServiceTypeStep == S!TypeOK /\ [S!Next]_(S!vars) => S!TypeOK'
<1>1. S!TypeOK /\ UNCHANGED S!vars => S!TypeOK'
  BY DEF S!TypeOK, S!vars, S!opVars, S!tableVars, S!allocVars, S!eventVars, S!threadVars, S!mainVars
<1> QED  BY <1>1, ServiceTypeMain, ServiceTypeWatcher, ServiceTypeBackend DEF S!Next

-----------------------------------------------------------------------------
(***************************************************************************)
(* The backend's tables name what was given out, and until the backend is  *)
(* gone a child with an owner is one of its children.  A write works on a  *)
(* child, which is what cancelling it tells to stop.                       *)
(***************************************************************************)

Writes(j) == j.pc \in {"write", "writing"} => j.child \in Handles

Owners ==
    /\ bOwner \subseteq Handles \X (0..MaxSessions)
    /\ teardown.pc = "no" => \A p \in bOwner : p[1] \in bChildren

Tables ==
    /\ bSessions \subseteq 0..MaxSessions
    /\ Owners
    /\ stopped \subseteq Handles
    /\ Writes(request)
    /\ \A w \in Threads : Writes(work[w])

\* The steps that leave the table of owners.
LEMMA OwnersSame ==
    ASSUME Owners, UNCHANGED <<bOwner, bChildren, teardown>> PROVE Owners'
  BY DEF Owners

LEMMA OwnersForget ==
    ASSUME Owners, NEW C, Forget(C), teardown' = teardown PROVE Owners'
<1>1. /\ bChildren' = bChildren \ C
      /\ bOwner' = {p \in bOwner : p[1] \notin C}
  BY DEF Forget
<1> QED  BY <1>1 DEF Owners

LEMMA TablesWorker ==
    ASSUME Tables, NEW w \in Threads, Owners',
           bSessions' \subseteq 0..MaxSessions, stopped' \subseteq Handles,
           request' = request,
           \A v \in Threads : v # w => work'[v] = work[v],
           Writes(work'[w])
    PROVE  Tables'
  BY DEF Tables, Writes

LEMMA TablesCancel ==
    ASSUME ShapeInv, Tables, NEW I, CancelOperations(I) PROVE Tables'
<1>1. \A v \in Threads : At(v, "writing") => work[v].child \in Handles
  BY DEF Tables, Writes, At
<1>2. stopped' \subseteq Handles
  BY <1>1 DEF CancelOperations, Tables
<1>3. UNCHANGED <<request, work, bSessions, bChildren, bOwner, teardown>>
  BY DEF CancelOperations
<1> QED  BY <1>2, <1>3, OwnersSame DEF Tables, Writes

LEMMA TablesQuiet ==
    ASSUME ShapeInv, Tables,
           \/ \E i \in S!OpIds : Cancel(i) \/ Watcher(i)
           \/ CancelTold \/ Shutdown \/ ShutdownTold \/ ShutdownJoined
           \/ Teardown \/ TeardownJoined
    PROVE  Tables'
<1>1. CASE UNCHANGED backendVars
  <2>1. UNCHANGED <<request, work, bSessions, bChildren, bOwner, stopped, teardown>>
    BY <1>1 DEF backendVars, tableVars, readerVars
  <2> QED  BY <2>1, OwnersSame DEF Tables, Writes
<1>2. CASE \E I : CancelOperations(I)
  BY <1>2, TablesCancel
<1>3. CASE Teardown
  <2>1. /\ teardown'.pc # "no" /\ bOwner' = bOwner /\ bSessions' = {}
        /\ stopped' = stopped \cup bChildren /\ UNCHANGED <<request, work>>
    BY <1>3 DEF Teardown
  <2>2. Owners'  BY <2>1 DEF Tables, Owners
  <2> QED  BY <2>1, <2>2 DEF Tables, Writes, ShapeInv, Shape
<1>4. CASE TeardownJoined
  <2>1. /\ teardown'.pc # "no"
        /\ UNCHANGED <<request, work, bSessions, bOwner, stopped>>
    BY <1>4 DEF TeardownJoined, tableVars, readerVars
  <2> QED  BY <2>1 DEF Tables, Owners, Writes
<1> QED
  BY <1>1, <1>2, <1>3, <1>4
  DEF Cancel, Watcher, CancelTold, Shutdown, ShutdownTold, ShutdownJoined

LEMMA TablesMain == ASSUME ShapeInv, Tables, Main PROVE Tables'
<1> USE DEF ShapeInv
<1>1. Owners
  BY DEF Tables
<1>2. CASE Asking
  <2>1. PICK job, known : Asks(job, known) /\ Writes(job)
    <3>1. ASSUME NEW pc \in {"take", "exec", "open"}, NEW s, NEW c, NEW known,
                 Asks(Job(pc, s, c), known)
          PROVE  \E job, k : Asks(job, k) /\ Writes(job)
      BY <3>1 DEF Writes, Job
    <3>2. ASSUME NEW pc \in {"write", "resize", "drop"}, NEW c \in S!AllocatedChildren,
                 NEW known, Asks(Job(pc, 0, c), known)
          PROVE  \E job, k : Asks(job, k) /\ Writes(job)
      BY <3>2, AllocatedIds, IdIsEntry DEF Writes, Job
    <3> QED  BY <1>2, <3>1, <3>2 DEF Asking
  <2>2. /\ request' = job
        /\ UNCHANGED <<work, bSessions, bChildren, bOwner, stopped, teardown>>
    BY <2>1 DEF Asks
  <2> QED  BY <1>1, <2>1, <2>2, OwnersSame DEF Tables, Writes
<1>3. CASE Resolving
  <2>1. PICK w \in Threads :
           /\ At(w, "none")
           /\ work' = [work EXCEPT ![w] = Job("resolve", 0, S!NoChild)]
    BY <1>3 DEF Resolving
  <2>2. /\ work'[w].pc = "resolve" /\ \A v \in Threads : v # w => work'[v] = work[v]
    BY <2>1 DEF Shape, Job
  <2>3. UNCHANGED <<request, bSessions, bChildren, bOwner, stopped, teardown>>
    BY <1>3 DEF Resolving
  <2> QED  BY <1>1, <2>2, <2>3, OwnersSame, TablesWorker DEF Tables, Writes
<1>4. ASSUME NEW job \in Jobs, Writes(job), Starting(job) PROVE Tables'
  <2>1. PICK w \in Threads :
           /\ \A v \in Threads : v # w => work'[v] = work[v]
           /\ work'[w] = IF shutdown THEN work[w] ELSE job
    BY <1>4, BeginLeaves DEF Starting
  <2>2. /\ request' \in {request, NoJob}
        /\ UNCHANGED <<bSessions, bChildren, bOwner, stopped, teardown>>
    BY <1>4 DEF Starting
  <2>3. Writes(work'[w]) /\ \A v \in Threads : Writes(work'[v])  BY <1>4, <2>1 DEF Tables, Writes
  <2>4. Writes(request')  BY <2>2, NoJobType DEF Tables, Writes
  <2> QED  BY <1>1, <2>2, <2>3, <2>4, OwnersSame DEF Tables, Writes
<1>5. CASE Starting(ConnectJob)
  <2>1. ConnectJob \in Jobs /\ Writes(ConnectJob)
    BY JobIsJob, IdIsEntry, BackendAssumption DEF ConnectJob, Writes
  <2> QED  BY <1>4, <1>5, <2>1
<1>6. CASE Starting(request)
  BY <1>4, <1>6 DEF Tables, Shape
<1>7. CASE Refusing
  <2>1. /\ request' = NoJob
        /\ UNCHANGED <<work, bSessions, bChildren, bOwner, stopped, teardown>>
    BY <1>7 DEF Refusing
  <2> QED  BY <1>1, <2>1, NoJobType, OwnersSame DEF Tables, Writes
<1>8. client.timed \in BOOLEAN
  BY DEF Shape
<1> QED
  BY <1>2, <1>3, <1>5, <1>6, <1>7, <1>8, AskSteps, StartSteps, ResolveSteps,
     TablesQuiet, Zenon DEF Main

LEMMA TablesPlain == ASSUME ShapeInv, Tables, NEW w \in Threads, Plain(w) PROVE Tables'
<1>1. PICK m \in PlainMoves : At(w, m[1]) /\ Goto(w, m[2])
  BY PlainLeaves
<1>2. /\ work'[w].pc = m[2] /\ work'[w].child = work[w].child
      /\ \A v \in Threads : v # w => work'[v] = work[v]
  BY <1>1, GotoLeaves, PlainTargets DEF ShapeInv, Shape
<1>3. m[2] # "write" /\ (m[2] = "writing" => m[1] = "write")
  BY DEF PlainMoves, Quitting
<1>4. Writes(work'[w])
  BY <1>1, <1>2, <1>3 DEF Tables, Writes, At
<1>5. UNCHANGED <<request, bSessions, bChildren, bOwner, stopped, teardown>>
  BY PlainLeaves
<1> QED  BY <1>2, <1>4, <1>5, OwnersSame, TablesWorker DEF Tables

LEMMA TablesNamed == ASSUME ShapeInv, Tables, NEW w \in Threads, Special(w) PROVE Tables'
<1> USE DEF ShapeInv
<1>1. /\ Shape /\ Owners /\ work \in [Threads -> Jobs]
      /\ bSessions \subseteq 0..MaxSessions /\ stopped \subseteq Handles
  BY DEF Tables, Shape
\* A step to a place where nothing is written.
<1>2. ASSUME NEW to \in WorkPcs \ {"write", "writing"}, NEW j,
             work' = [work EXCEPT ![w] = j], j.pc = to,
             Owners', bSessions' \subseteq 0..MaxSessions, stopped' \subseteq Handles,
             request' = request
      PROVE  Tables'
  <2>1. /\ work'[w] = j /\ \A v \in Threads : v # w => work'[v] = work[v]  BY <1>1, <1>2
  <2> QED  BY <1>2, <2>1, TablesWorker DEF Writes
<1>3. ASSUME NEW to \in WorkPcs \ {"write", "writing"}, Goto(w, to), Owners',
             bSessions' \subseteq 0..MaxSessions, stopped' \subseteq Handles,
             request' = request
      PROVE  Tables'
  <2>1. work' = [work EXCEPT ![w] = [work[w] EXCEPT !.pc = to]]
        /\ [work[w] EXCEPT !.pc = to].pc = to
    BY <1>1, <1>3 DEF Goto, Jobs
  <2> QED  BY <1>2, <1>3, <2>1
<1>4. CASE Records(w) \/ (At(w, "resolve") /\ w[1] \in pending /\ Resolves(w))
  <2>1. PICK to \in {"challenge", "decide"} : Goto(w, to)  BY <1>4 DEF Records, Resolves
  <2>2. /\ to \in WorkPcs \ {"write", "writing"}
        /\ UNCHANGED <<bSessions, bChildren, bOwner, stopped, request, teardown>>
    BY <1>4, <2>1, PrivatelyLeaves DEF Records, Resolves, readerVars, WorkPcs
  <2> QED  BY <1>1, <1>3, <2>1, <2>2, OwnersSame
<1>5. CASE Announces(w) \/ TellsGone(w)
  <2>1. /\ Goto(w, "succeed") /\ "succeed" \in WorkPcs \ {"write", "writing"}
        /\ UNCHANGED <<bSessions, bChildren, bOwner, stopped, request, teardown>>
    BY <1>5, AnnouncesLeaves, TellsGoneLeaves DEF Emit, WorkPcs
  <2> QED  BY <1>1, <1>3, <2>1, OwnersSame
<1>6. CASE Starts(w)
  <2>1. /\ Goto(w, "announce") /\ "announce" \in WorkPcs \ {"write", "writing"}
        /\ UNCHANGED <<bSessions, bChildren, bOwner, stopped, request, teardown>>
    BY <1>6, PrivatelyLeaves DEF Starts, tableVars, WorkPcs
  <2> QED  BY <1>1, <1>3, <2>1, OwnersSame
<1>7. CASE Registers(w)
  <2>1. PICK s \in 0..MaxSessions :
           /\ bSessions' = bSessions \cup {s}
           /\ work' = [work EXCEPT ![w].pc = "announce", ![w].session = s]
           /\ UNCHANGED <<request, bChildren, bOwner, stopped, teardown>>
    BY <1>1, <1>7, RegistersLeaves
  <2>2. PICK j : j = [[work[w] EXCEPT !.pc = "announce"] EXCEPT !.session = s]  OBVIOUS
  <2>3. j.pc = "announce" /\ "announce" \in WorkPcs \ {"write", "writing"}
    BY <1>1, <2>2 DEF Jobs, WorkPcs
  <2>4. work' = [work EXCEPT ![w] = j]  BY <1>1, <2>1, <2>2
  <2> QED  BY <1>1, <1>2, <2>1, <2>3, <2>4, OwnersSame
<1>8. CASE Allocates(w)
  <2>1. work[w].child[1] \in ChildTypes  BY <1>8 DEF Allocates, At, Program, Fits
  <2>2. PICK c \in Handles :
           /\ c = <<work[w].child[1],
                    IF shutdown THEN 0 ELSE nextChild[work[w].child[1]]>>
           /\ bChildren' = bChildren \cup {c}
           /\ work' = [work EXCEPT ![w].pc = "start", ![w].child = c]
           /\ UNCHANGED <<request, bSessions, stopped, teardown>>
    BY <1>1, <1>8, <2>1, AllocatesLeaves
  <2>3. bOwner' = bOwner \cup {<<c, work[w].session>>}  BY <1>8, <2>2 DEF Allocates
  <2>4. Owners'
    <3>1. work[w].session \in 0..MaxSessions  BY <1>1, JobType
    <3> QED  BY <1>1, <2>2, <2>3, <3>1 DEF Owners
  <2>5. PICK j : j = [[work[w] EXCEPT !.pc = "start"] EXCEPT !.child = c]  OBVIOUS
  <2>6. j.pc = "start" /\ "start" \in WorkPcs \ {"write", "writing"}
    BY <1>1, <2>5 DEF Jobs, WorkPcs
  <2>7. work' = [work EXCEPT ![w] = j]  BY <1>1, <2>2, <2>5
  <2> QED  BY <1>1, <1>2, <2>2, <2>4, <2>6, <2>7
<1>9. ASSUME \E C : \E to \in {"join", "gone"} :
                 work' = [work EXCEPT ![w].pc = to, ![w].taken = C],
             Owners', bSessions' \subseteq 0..MaxSessions, stopped' \subseteq Handles,
             request' = request
      PROVE  Tables'
  <2>0. PICK C : \E to \in {"join", "gone"} :
                     work' = [work EXCEPT ![w].pc = to, ![w].taken = C]
    BY <1>9
  <2>4. PICK to \in {"join", "gone"} :
           work' = [work EXCEPT ![w].pc = to, ![w].taken = C]
    BY <2>0
  <2>1. PICK j : j = [[work[w] EXCEPT !.pc = to] EXCEPT !.taken = C]  OBVIOUS
  <2>2. j.pc = to /\ to \in WorkPcs \ {"write", "writing"}  BY <1>1, <2>1 DEF Jobs, WorkPcs, Closing
  <2>3. work' = [work EXCEPT ![w] = j]  BY <1>1, <2>1, <2>4
  <2> QED  BY <1>2, <1>9, <2>2, <2>3
<1>10. ASSUME NEW C \in SUBSET Handles, Forget(C), stopped' = stopped \cup C,
              work' = [work EXCEPT ![w].pc = "join", ![w].taken = C],
              bSessions' \subseteq bSessions, Privately
       PROVE  Tables'
  <2>1. Owners' /\ request' = request  BY <1>1, <1>10, PrivatelyLeaves, OwnersForget
  <2>2. \E D : \E to \in {"join", "gone"} :
           work' = [work EXCEPT ![w].pc = to, ![w].taken = D]
    BY <1>10
  <2>3. bSessions' \subseteq 0..MaxSessions /\ stopped' \subseteq Handles  BY <1>1, <1>10
  <2> QED  BY <1>9, <2>1, <2>2, <2>3
<1>11. CASE TakesSession(w)
  <2>1. Owned(work[w].session) \in SUBSET Handles  BY <1>1 DEF Owned, Shape
  <2> QED  BY <1>10, <1>11, <2>1 DEF TakesSession
<1>12. CASE work[w].child \in bChildren /\ TakesChild(w)
  <2>1. {work[w].child} \in SUBSET Handles  BY <1>1, <1>12 DEF Shape
  <2> QED  BY <1>10, <1>12, <2>1 DEF TakesChild
<1>13. CASE Joins(w)
  <2>1. /\ work' = [work EXCEPT ![w].pc = "gone", ![w].taken = {}]
        /\ UNCHANGED <<bSessions, bChildren, bOwner, stopped, request, teardown>>
    BY <1>13, PrivatelyLeaves DEF Joins, tableVars, readerVars
  <2>2. \E C : \E to \in {"join", "gone"} :
           work' = [work EXCEPT ![w].pc = to, ![w].taken = C]
    BY <2>1
  <2>3. /\ Owners' /\ bSessions' \subseteq 0..MaxSessions
        /\ stopped' \subseteq Handles /\ request' = request
    BY <1>1, <2>1, OwnersSame
  <2> QED  BY <1>9, <2>2, <2>3
<1>14. CASE Returns(w)
  <2>1. /\ work' = [work EXCEPT ![w] = NoJob]
        /\ UNCHANGED <<bSessions, bChildren, bOwner, stopped, request, teardown>>
    BY <1>14, ReturnsLeaves
  <2>2. NoJob.pc \in WorkPcs \ {"write", "writing"}  BY NoJobType DEF WorkPcs
  <2> QED  BY <1>1, <1>2, <2>1, <2>2, OwnersSame
<1> QED
  BY <1>4, <1>5, <1>6, <1>7, <1>8, <1>11, <1>12, <1>13, <1>14 DEF Special

LEMMA TablesReader ==
    ASSUME ShapeInv, Tables, NEW c \in Handles, Reader(c) PROVE Tables'
<1>1. UNCHANGED <<bSessions, stopped, request, work, teardown>>
  BY ReaderSteps, PrivatelyLeaves
  DEF ShapeInv, Reader, ReaderTells, ReaderQuits, ReaderEnds, ReaderTellsClosed,
      ReaderGoes, readerVars
<1>2. (UNCHANGED <<bChildren, bOwner>>) \/ Forget({c})
  BY DEF Reader, ReaderTells, ReaderQuits, ReaderEnds, ReaderTellsClosed, tableVars
<1>3. Owners'
  BY <1>1, <1>2, OwnersSame, OwnersForget DEF Tables
<1> QED  BY <1>1, <1>3 DEF Tables, Writes

\* What TypeOK says, and what it needs to stay true.
TypeInv == ServiceInv /\ S!TypeOK /\ Tables

LEMMA TypeInit == Init => TypeInv
<1> SUFFICES ASSUME Init PROVE Tables
  BY ServiceInit, ServiceTypeInit DEF TypeInv, Init
<1>1. Writes(request) /\ \A w \in Threads : Writes(work[w])
  BY NoJobType DEF Init, Writes
<1> QED  BY <1>1 DEF Init, Tables, Owners

LEMMA TypeStep == TypeInv /\ [Next]_vars => TypeInv'
<1> SUFFICES ASSUME TypeInv, [Next]_vars PROVE TypeInv'
  OBVIOUS
<1>1. ServiceInv' /\ S!TypeOK'
  BY ServiceStep, NextServes, ServiceTypeStep DEF TypeInv
<1>2. ShapeInv /\ Tables
  BY DEF TypeInv, ServiceInv
<1>3. CASE UNCHANGED vars
  <2>1. UNCHANGED <<request, work, bSessions, bChildren, bOwner, stopped, teardown>>
    BY <1>3 DEF vars, backendVars, tableVars, readerVars
  <2> QED  BY <1>1, <1>2, <2>1, OwnersSame DEF TypeInv, Tables, Writes
<1>4. ASSUME NEW w \in Threads, Worker(w) PROVE Tables'
  BY <1>2, <1>4, WorkerSteps, TablesPlain, TablesNamed
<1> QED  BY <1>1, <1>2, <1>3, <1>4, TablesMain, TablesQuiet, TablesReader
         DEF Next, Rest, TypeInv

LEMMA TypeInvImplies == TypeInv => TypeOK
<1> SUFFICES ASSUME TypeInv PROVE TypeOK
  OBVIOUS
<1>1. /\ Shape /\ Fresh /\ Counted /\ Tables
  BY DEF TypeInv, ServiceInv, ShapeInv
<1>2. request \in [pc : WorkPcs, session : 0..MaxSessions,
                   child : (ChildTypes \cup {"none"}) \X (0..MaxChildren),
                   taken : SUBSET Handles]
  BY <1>1 DEF Shape, Jobs, Ids
<1>3. pending \subseteq S!OpIds
  BY <1>1, BackendAssumption DEF Fresh, Shape, S!OpIds
<1>4. \A i \in S!OpIds :
          workers[i] = Cardinality({w \in Threads : w[1] = i /\ ~At(w, "none")})
  BY <1>1 DEF Counted, Working
<1>5. /\ S!TypeOK /\ bSessions \subseteq 0..MaxSessions
      /\ bOwner \subseteq Handles \X (0..MaxSessions)
      /\ teardown.pc = "no" => \A p \in bOwner : p[1] \in bChildren
      /\ stopped \subseteq Handles
  BY <1>1 DEF TypeInv, Tables, Owners
<1>6. /\ bChildren \subseteq Handles
      /\ reader \in [Handles -> {"none", "running", "closing", "over"}]
  BY <1>1 DEF Shape
<1> QED  BY <1>2, <1>3, <1>4, <1>5, <1>6, Zenon DEF TypeOK

\* Every variable keeps its shape, the tables of the service and of its backend
\* name only what was given out, and a worker has a program exactly while the
\* service counts it (dispatch, run_backend_work).
THEOREM LibsshTypeCorrect == Spec => []TypeOK
  BY TypeInit, TypeStep, TypeInvImplies, PTL DEF Spec
=============================================================================
