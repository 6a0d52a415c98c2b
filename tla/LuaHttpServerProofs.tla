------------------------- MODULE LuaHttpServerProofs -------------------------
(***************************************************************************)
(* Proofs about LuaHttpServer, for any number of requests, chunks and      *)
(* handlers: how its streams end.                                          *)
(***************************************************************************)
EXTENDS LuaHttpServer, FiniteSetTheorems, SequenceTheorems, TLAPS

-----------------------------------------------------------------------------
(* How often something occurs in a sequence.                               *)

Where(s, x) == {i \in DOMAIN s : s[i] = x}
Count(s, x) == Cardinality(Where(s, x))

LEMMA CountType ==
    ASSUME NEW S, NEW s \in Seq(S), NEW x
    PROVE  IsFiniteSet(Where(s, x)) /\ Count(s, x) \in Nat
<1>1. IsFiniteSet(1..Len(s))
  BY FS_Interval
<1>2. Where(s, x) \subseteq 1..Len(s)
  BY DEF Where
<1> QED  BY <1>1, <1>2, FS_Subset, FS_CardinalityType DEF Count

LEMMA CountEmpty == ASSUME NEW x PROVE Count(<<>>, x) = 0
<1>1. Where(<<>>, x) = {}
  BY DEF Where
<1> QED  BY <1>1, FS_EmptySet DEF Count

LEMMA CountAppend ==
    ASSUME NEW S, NEW s \in Seq(S), NEW e \in S, NEW x
    PROVE  Count(Append(s, e), x) = Count(s, x) + (IF e = x THEN 1 ELSE 0)
<1> DEFINE n == Len(s) + 1
           t == Append(s, e)
<1>1. /\ DOMAIN t = DOMAIN s \cup {n} /\ n \notin DOMAIN s /\ t[n] = e
      /\ \A i \in DOMAIN s : t[i] = s[i]
  BY AppendProperties, LenProperties
<1> HIDE DEF n, t
<1>2. Where(t, x) = IF e = x THEN Where(s, x) \cup {n} ELSE Where(s, x)
  BY <1>1 DEF Where
<1>3. n \notin Where(s, x)
  BY <1>1 DEF Where
<1>4. IsFiniteSet(Where(s, x)) /\ Cardinality(Where(s, x)) \in Nat
  BY CountType DEF Count
<1>5. CASE e = x
  <2>1. Where(t, x) = Where(s, x) \cup {n}
    BY <1>2, <1>5
  <2>2. Cardinality(Where(s, x) \cup {n}) = Cardinality(Where(s, x)) + 1
    BY <1>3, <1>4, FS_AddElement
  <2> QED  BY <1>5, <2>1, <2>2 DEF Count, t
<1>6. CASE e # x
  <2>1. Where(t, x) = Where(s, x)
    BY <1>2, <1>6
  <2> QED  BY <1>4, <1>6, <2>1 DEF Count, t
<1> QED  BY <1>5, <1>6

LEMMA CountTail ==
    ASSUME NEW S, NEW s \in Seq(S), s # <<>>, NEW x
    PROVE  Count(s, x) = Count(Tail(s), x) + (IF Head(s) = x THEN 1 ELSE 0)
<1> DEFINE t == Tail(s)
           A == Where(t, x)
           B == Where(s, x) \ {1}
           f == [i \in A |-> i + 1]
<1>1. /\ Len(s) \in Nat \ {0} /\ Len(t) = Len(s) - 1 /\ t \in Seq(S)
      /\ \A i \in 1..Len(t) : t[i] = s[i + 1]
      /\ Head(s) = s[1]
      /\ DOMAIN s = 1..Len(s) /\ DOMAIN t = 1..Len(t)
  BY EmptySeq, LenProperties, HeadTailProperties
<1> HIDE DEF t
<1>2. A \subseteq Nat /\ \A i \in A : i + 1 \in B
  BY <1>1 DEF Where
<1>3. \A j \in B : j - 1 \in A /\ (j - 1) + 1 = j
  BY <1>1 DEF Where
<1> HIDE DEF A, B
<1>4. f \in Bijection(A, B)
  <2>1. f \in [A -> B]
    BY <1>2
  <2>2. \A i, j \in A : f[i] = f[j] => i = j
    BY <1>2
  <2>3. \A j \in B : \E i \in A : f[i] = j
    BY <1>3
  <2> QED  BY <2>1, <2>2, <2>3 DEF Bijection, Injection, Surjection, IsInjective
<1>5. IsFiniteSet(A) /\ IsFiniteSet(Where(s, x)) /\ Count(s, x) \in Nat
  BY <1>1, CountType DEF A
<1>6. Cardinality(B) = Cardinality(A)
  BY <1>4, <1>5, FS_Bijection DEF ExistsBijection
<1>7. Cardinality(B) = IF 1 \in Where(s, x) THEN Count(s, x) - 1 ELSE Count(s, x)
  BY <1>5, FS_RemoveElement DEF B, Count
<1>8. 1 \in Where(s, x) <=> Head(s) = x
  BY <1>1 DEF Where
<1> QED  BY <1>5, <1>6, <1>7, <1>8 DEF A, t, Count

-----------------------------------------------------------------------------
(* Types.                                                                  *)

Items ==
    {e \in [kind : {"route", "sse", "close"}, id : Nat] :
        e.kind # "close" => e.id \in Calls}
Phases == {"none", "route", "sse", "waiting", "looping", "notifying", "over"} \cup Writing

\* Every variable keeps its type; the server runs until stop is called.
Types ==
    /\ pending \in Seq(Items) /\ handling \in Seq(Items) /\ told \in Seq(Nat)
    /\ thread \in [Calls -> Phases] /\ status \in [Calls -> Nat]
    /\ done \subseteq Calls /\ tracked \subseteq Calls /\ closed \subseteq Calls
    /\ given \subseteq Calls
    /\ notified \in [DOMAIN notified -> Nat] /\ DOMAIN notified \subseteq Calls
    /\ close_handler \in [Calls -> Nat] /\ chunks \in [Calls -> Nat]
    /\ next_handler \in Nat \ {0}
    /\ running \in BOOLEAN /\ (running <=> stopping = "no")
    /\ stopping \in {"no", "close", "listen", "fail", "join", "over"}

\* What Return leaves of handling.
Front1(s) == SubSeq(s, 1, Len(s) - 1)

LEMMA CallIsItem ==
    /\ \A h \in Nat : Call("close", h) \in Items
    /\ \A c \in Calls, k \in {"route", "sse"} : Call(k, c) \in Items
  BY DEF Call, Items, Calls

LEMMA PopType ==
    ASSUME NEW s \in Seq(Items), s # <<>>
    PROVE  /\ Front1(s) \in Seq(Items) /\ s[Len(s)] \in Items
           /\ Len(s) \in Nat \ {0} /\ Len(Front1(s)) = Len(s) - 1
           /\ \A i \in 1..(Len(s) - 1) : Front1(s)[i] = s[i]
<1>1. Len(s) \in Nat \ {0}
  BY EmptySeq
<1>2. \A i \in 1..Len(s) : s[i] \in Items
  OBVIOUS
<1> DEFINE n == Len(s) - 1
<1>3. n \in Nat /\ 1 \in Int /\ n \in Int /\ n <= Len(s)
  BY <1>1
<1>4. \A i \in 1..n : s[i] \in Items
  BY <1>1, <1>2
<1>5. /\ SubSeq(s, 1, n) \in Seq(Items)
      /\ Len(SubSeq(s, 1, n)) = IF 1 <= n THEN n - 1 + 1 ELSE 0
      /\ \A i \in 1..n - 1 + 1 : SubSeq(s, 1, n)[i] = s[1 + i - 1]
  BY <1>3, <1>4, SubSeqProperties
<1>6. Front1(s) = SubSeq(s, 1, n) /\ n = Len(s) - 1 /\ s[Len(s)] \in Items
  BY <1>1, <1>2 DEF Front1
<1> HIDE DEF n
<1>7. /\ n - 1 + 1 = n /\ (~(1 <= n) => n = 0)
      /\ \A i \in 1..n : 1 + i - 1 = i
  BY <1>3
<1>8. Len(Front1(s)) = n
  BY <1>5, <1>6, <1>7
<1>9. \A i \in 1..n : Front1(s)[i] = s[i]
  BY <1>5, <1>6, <1>7
<1> QED  BY <1>1, <1>5, <1>6, <1>8, <1>9

LEMMA CloseCallsOfOne ==
    ASSUME Types, NEW c \in Calls
    PROVE  Enqueued(CloseCalls({c})) =
              IF c \notin DOMAIN notified /\ close_handler[c] # NoHandler /\ running
              THEN Append(pending, Call("close", close_handler[c])) ELSE pending
<1> DEFINE e == Call("close", close_handler[c])
<1>1. CASE c \notin DOMAIN notified /\ close_handler[c] # NoHandler /\ running
  <2>1. CloseCalls({c}) = {e}
    BY <1>1 DEF CloseCalls
  <2>2. (CHOOSE x \in {e} : TRUE) = e
    OBVIOUS
  <2>3. Enqueued(CloseCalls({c})) = pending \o <<e>>
    BY <2>1, <2>2 DEF Enqueued
  <2>4. pending \o <<e>> = Append(pending, e)
    BY CallIsItem DEF Types
  <2> QED  BY <1>1, <2>3, <2>4
<1>2. CASE ~(c \notin DOMAIN notified /\ close_handler[c] # NoHandler /\ running)
  <2>1. CloseCalls({c}) = {}
    BY <1>2 DEF CloseCalls
  <2>2. pending \o <<>> = pending
    BY ConcatEmptySeq DEF Types
  <2> QED  BY <1>2, <2>1, <2>2 DEF Enqueued
<1> QED  BY <1>1, <1>2

\* Notifying and queueing.
LEMMA NotifiedType ==
    ASSUME Types, NEW S \in SUBSET Calls, notified' = Notified(S)
    PROVE  /\ DOMAIN notified' = DOMAIN notified \cup S /\ DOMAIN notified' \subseteq Calls
           /\ \A c \in DOMAIN notified' :
                 notified'[c] = IF c \in DOMAIN notified THEN notified[c] ELSE close_handler[c]
           /\ notified' \in [DOMAIN notified' -> Nat]
<1>1. /\ DOMAIN notified' = DOMAIN notified \cup S
      /\ \A c \in DOMAIN notified' :
            notified'[c] = IF c \in DOMAIN notified THEN notified[c] ELSE close_handler[c]
  BY DEF Notified
<1>2. \A c \in DOMAIN notified' : notified'[c] \in Nat
  BY <1>1 DEF Types
<1>3. notified' = [c \in DOMAIN notified' |-> notified'[c]]
  BY DEF Notified
<1> QED  BY <1>1, <1>2, <1>3 DEF Types

LEMMA EnqueuedType ==
    ASSUME Types, NEW c \in Calls
    PROVE  Enqueued(CloseCalls({c})) \in Seq(Items)
<1>1. Call("close", close_handler[c]) \in Items /\ pending \in Seq(Items)
  BY CallIsItem DEF Types
<1>2. Append(pending, Call("close", close_handler[c])) \in Seq(Items)
  BY <1>1, AppendProperties
<1>3. Enqueued(CloseCalls({c})) \in {Append(pending, Call("close", close_handler[c])), pending}
  BY CloseCallsOfOne
<1> QED  BY <1>1, <1>2, <1>3

LEMMA NothingNotified ==
    ASSUME Types
    PROVE  notified = Notified({})
  BY DEF Types, Notified

LEMMA TypesAtFirst == Init => Types
<1> SUFFICES ASSUME Init PROVE Types
  OBVIOUS
<1>1. notified \in [DOMAIN notified -> Nat] /\ DOMAIN notified = {}
  BY DEF Init
<1> QED  BY <1>1 DEF Init, Types, Phases, NoHandler

LEMMA TypesStep ==
    ASSUME Types, [Next]_vars
    PROVE  Types'
<1> USE DEF Types
<1>1. ASSUME NEW c \in Calls, NEW kind \in {"route", "sse"}, Arrive(c, kind)
      PROVE  Types'
  BY <1>1 DEF Arrive, Phases, scriptVars
<1>2. ASSUME NEW c \in Calls, WaitForLua(c)
      PROVE  Types'
  <2>1. pending' \in Seq(Items)
    <3>1. CASE running
      <4>1. Call(thread[c], c) \in Items
        BY <1>2, CallIsItem DEF WaitForLua
      <4>2. pending' = Append(pending, Call(thread[c], c))
        BY <1>2, <3>1 DEF WaitForLua
      <4>3. pending \in Seq(Items)
        OBVIOUS
      <4> QED  BY <4>1, <4>2, <4>3, AppendProperties
    <3> QED  BY <1>2, <3>1 DEF WaitForLua
  <2>2. thread' \in [Calls -> Phases]
    BY <1>2 DEF WaitForLua, Phases
  <2>3. status' \in [Calls -> Nat] /\ done' \subseteq Calls
    <3>1. CASE running
      BY <1>2, <3>1 DEF WaitForLua
    <3>2. CASE ~running
      <4>1. status' = [status EXCEPT ![c] = 503] /\ done' = done \cup {c}
        BY <1>2, <3>2 DEF WaitForLua
      <4> QED  BY <4>1
    <3> QED  BY <3>1, <3>2
  <2>4. UNCHANGED <<running, streamVars, handling, stopping, scriptVars, told>>
    BY <1>2 DEF WaitForLua
  <2> QED  BY <2>1, <2>2, <2>3, <2>4 DEF scriptVars, streamVars
<1>3. ASSUME NEW c \in Calls, Answer(c)
      PROVE  Types'
  BY <1>3 DEF Answer, Phases, scriptVars, streamVars
<1>4. ASSUME NEW c \in Calls, NEW empty \in BOOLEAN, WriteChunk(c, empty)
      PROVE  Types'
  BY <1>4 DEF WriteChunk, Phases, Writing, scriptVars
<1>5. ASSUME NEW c \in Calls, CallProvider(c) \/ NotWritable(c) \/ ProviderReturns(c)
      PROVE  Types'
  <2>1. thread' \in [Calls -> Phases]
    <3>1. CASE CallProvider(c)
      BY <3>1 DEF CallProvider, Phases, Writing
    <3>2. CASE NotWritable(c)
      BY <3>2 DEF NotWritable, Phases
    <3>3. CASE ProviderReturns(c)
      <4>1. \E phase \in Phases : thread' = [thread EXCEPT ![c] = phase]
        BY <3>3 DEF ProviderReturns, Phases
      <4> QED  BY <4>1
    <3> QED  BY <1>5, <3>1, <3>2, <3>3
  <2> QED  BY <1>5, <2>1 DEF CallProvider, NotWritable, ProviderReturns, scriptVars, streamVars
<1>6. ASSUME NEW c \in Calls, WriteFails(c)
      PROVE  Types'
  BY <1>6 DEF WriteFails, Phases, scriptVars
<1>7. ASSUME NEW c \in Calls, Notify(c)
      PROVE  Types'
  <2>1. DOMAIN notified' \subseteq Calls /\ notified' \in [DOMAIN notified' -> Nat]
    BY <1>7, NotifiedType DEF Notify
  <2>2. pending' \in Seq(Items)
    BY <1>7, EnqueuedType DEF Notify
  <2> QED  BY <1>7, <2>1, <2>2 DEF Notify, Phases, scriptVars
<1>8. CASE Dispatch
  <2>1. Head(pending) \in Items /\ Tail(pending) \in Seq(Items)
    BY <1>8, HeadTailProperties DEF Dispatch
  <2>2. handling' \in Seq(Items)
    BY <1>8, <2>1, AppendProperties DEF Dispatch
  <2>3. Head(pending).id \in Nat /\ (Head(pending).kind # "close" => Head(pending).id \in Calls)
    BY <2>1 DEF Items
  <2>4. told' \in Seq(Nat) /\ given' \subseteq Calls
    <3>1. CASE Head(pending).kind = "close"
      <4>1. told' = Append(told, Head(pending).id) /\ given' = given
        BY <1>8, <3>1 DEF Dispatch
      <4> QED  BY <2>3, <4>1, AppendProperties
    <3>2. CASE Head(pending).kind # "close"
      <4>1. told' = told /\ given' \in {given, given \cup {Head(pending).id}}
        BY <1>8, <3>2 DEF Dispatch
      <4> QED  BY <2>3, <3>2, <4>1
    <3> QED  BY <3>1, <3>2
  <2> QED  BY <1>8, <2>1, <2>2, <2>4 DEF Dispatch, streamVars
<1>9. ASSUME NEW ok \in BOOLEAN, Return(ok)
      PROVE  Types'
  <2>1. handling' \in Seq(Items) /\ Handled \in Items
    BY <1>9, PopType DEF Return, Front1, Handled
  <2>2. CASE Handled.kind = "close"
    BY <1>9, <2>1, <2>2 DEF Return, scriptVars
  <2>3. CASE Handled.kind # "close"
    <3> DEFINE id == Handled.id
               S == IF Handled.kind = "sse" /\ ~ok THEN {id} ELSE {}
    <3>1. id \in Calls /\ S \in SUBSET Calls
      BY <2>1, <2>3 DEF Items
    <3>2. /\ status' = [status EXCEPT ![id] = IF ok THEN 200 ELSE 500]
          /\ done' = done \cup {id}
          /\ closed' = closed \cup S /\ notified' = Notified(S)
          /\ pending' = Enqueued(CloseCalls(S))
      BY <1>9, <2>3 DEF Return, CloseStreams
    <3>3. DOMAIN notified' \subseteq Calls /\ notified' \in [DOMAIN notified' -> Nat]
      BY <3>1, <3>2, NotifiedType
    <3>4. pending' \in Seq(Items)
      <4>1. CASE S = {id}
        BY <3>1, <3>2, <4>1, EnqueuedType
      <4>2. CASE S = {}
        <5>1. CloseCalls({}) = {}
          BY DEF CloseCalls
        <5>2. pending \o <<>> = pending
          BY ConcatEmptySeq
        <5> QED  BY <3>2, <4>2, <5>1, <5>2 DEF Enqueued
      <4> QED  BY <4>1, <4>2
    <3> HIDE DEF S, id
    <3> QED  BY <1>9, <2>1, <3>1, <3>2, <3>3, <3>4 DEF Return, scriptVars
  <2> QED  BY <2>2, <2>3
<1>10. ASSUME NEW c \in given, Send(c)
       PROVE  Types'
  BY <1>10 DEF Send
<1>11. ASSUME NEW c \in given, Close(c)
       PROVE  Types'
  <2>1. DOMAIN notified' \subseteq Calls /\ notified' \in [DOMAIN notified' -> Nat]
    BY <1>11, NotifiedType DEF Close, CloseStreams
  <2>2. pending' \in Seq(Items)
    BY <1>11, EnqueuedType DEF Close
  <2> QED  BY <1>11, <2>1, <2>2 DEF Close, CloseStreams, scriptVars
<1>12. ASSUME NEW c \in given, OnClose(c)
       PROVE  Types'
  <2>1. Append(pending, Call("close", next_handler)) \in Seq(Items)
    BY CallIsItem, AppendProperties
  <2>2. pending' \in Seq(Items)
    BY <1>12, <2>1 DEF OnClose
  <2>3. DOMAIN notified' \subseteq Calls /\ notified' \in [DOMAIN notified' -> Nat]
    <3>1. CASE c \in closed \ DOMAIN notified
      <4>1. notified' = [d \in DOMAIN notified \cup {c} |->
                            IF d = c THEN next_handler ELSE notified[d]]
        BY <1>12, <3>1 DEF OnClose
      <4> QED  BY <4>1
    <3> QED  BY <1>12, <3>1 DEF OnClose
  <2> QED  BY <1>12, <2>2, <2>3 DEF OnClose
<1>13. CASE Stop
  BY <1>13 DEF Stop, streamVars, scriptVars
<1>14. CASE StopStreams
  <2>1. DOMAIN notified' \subseteq Calls /\ notified' \in [DOMAIN notified' -> Nat]
    BY <1>14, NotifiedType DEF StopStreams, CloseStreams
  <2> QED  BY <1>14, <2>1 DEF StopStreams, CloseStreams, scriptVars
<1>15. CASE FailPending
  <2> DEFINE failed == {pending[i].id : i \in {i \in DOMAIN pending : pending[i].kind # "close"}}
  <2>1. failed \subseteq Calls
    <3>1. \A i \in DOMAIN pending : pending[i] \in Items
      OBVIOUS
    <3> QED  BY <3>1 DEF Items
  <2> HIDE DEF failed
  <2>2. /\ stopping = "fail" /\ stopping' = "join" /\ pending' = <<>>
        /\ status' = [c \in Calls |-> IF c \in failed THEN 503 ELSE status[c]]
        /\ done' = done \cup failed
        /\ closed' = closed \cup (failed \cap tracked)
        /\ notified' = Notified(failed \cap tracked)
    BY <1>15 DEF FailPending, CloseStreams, failed
  <2>3. failed \cap tracked \in SUBSET Calls
    BY <2>1
  <2>4. DOMAIN notified' \subseteq Calls /\ notified' \in [DOMAIN notified' -> Nat]
    BY <2>2, <2>3, NotifiedType
  <2>5. status' \in [Calls -> Nat]
    BY <2>2
  <2>6. pending' \in Seq(Items) /\ done' \subseteq Calls /\ closed' \subseteq Calls
    BY <2>1, <2>2
  <2>7. UNCHANGED <<running, thread, tracked, close_handler, chunks, handling, scriptVars, told>>
    BY <1>15 DEF FailPending
  <2>8. running' \in BOOLEAN /\ (running' <=> stopping' = "no") /\ stopping' = "join"
    BY <2>2, <2>7
  <2> QED  BY <2>4, <2>5, <2>6, <2>7, <2>8 DEF scriptVars
<1>16. CASE StopListening \/ StopReturn
  BY <1>16 DEF StopListening, StopReturn, streamVars, scriptVars
<1>17. CASE UNCHANGED vars
  BY <1>17 DEF vars, streamVars, scriptVars
<1> QED
  BY <1>1, <1>2, <1>3, <1>4, <1>5, <1>6, <1>7, <1>8, <1>9, <1>10, <1>11, <1>12,
     <1>13, <1>14, <1>15, <1>16, <1>17
     DEF Next, ThreadStep, ClientGone, StopStep

-----------------------------------------------------------------------------
(* On-close handlers.                                                      *)

\* ClosePlaces, with the two counts named.
Places(h) == Count(pending, Call("close", h)) + Count(told, h)

\* A handler belongs to one stream, and a handler that no stream was closed
\* with is in no place.
HandlerInv ==
    /\ \A c \in Calls : close_handler[c] < next_handler
    /\ \A c \in DOMAIN notified : notified[c] < next_handler
    /\ \A c, d \in Calls :
          close_handler[c] # NoHandler /\ close_handler[c] = close_handler[d] => c = d
    /\ \A c \in Calls, d \in DOMAIN notified :
          close_handler[c] # NoHandler /\ close_handler[c] = notified[d] => c = d
    /\ \A c, d \in DOMAIN notified :
          notified[c] # NoHandler /\ notified[c] = notified[d] => c = d
    /\ \A c \in Calls \ DOMAIN notified :
          close_handler[c] # NoHandler => Places(close_handler[c]) = 0
    /\ \A h \in Nat : h >= next_handler => Places(h) = 0
    /\ \A c \in DOMAIN notified :
          notified[c] # NoHandler =>
             /\ Places(notified[c]) <= 1
             /\ running => Places(notified[c]) = 1

LEMMA PlacesType ==
    ASSUME Types, NEW h
    PROVE  Places(h) \in Nat
  BY CountType DEF Types, Places

\* The handlers that closing the streams in S puts in the queue.
Told(S, h) == \E c \in S \ DOMAIN notified : close_handler[c] = h /\ h # NoHandler

\* A step that closes the streams in S, and no other, keeps the handlers.
LEMMA ClosingKeeps ==
    ASSUME Types, HandlerInv, NEW S \in SUBSET Calls,
           notified' = Notified(S), UNCHANGED <<close_handler, next_handler>>,
           running' => running,
           \A h \in Nat :
              /\ Places(h)' \in Nat
              /\ running' => Places(h)' = Places(h) + (IF Told(S, h) THEN 1 ELSE 0)
              /\ ~running' => Places(h)' <= Places(h)
    PROVE  HandlerInv'
<1>1. /\ DOMAIN notified' = DOMAIN notified \cup S
      /\ \A c \in DOMAIN notified' : notified'[c] \in Nat /\
            notified'[c] = IF c \in DOMAIN notified THEN notified[c] ELSE close_handler[c]
  BY NotifiedType
<1>2. \A c \in Calls : close_handler[c] \in Nat
  BY DEF Types
<1>3. DOMAIN notified \subseteq Calls /\ next_handler \in Nat \ {0}
  BY DEF Types
<1>4. \A h \in Nat : Places(h) \in Nat
  BY PlacesType
<1>5. /\ \A c \in Calls : close_handler[c] < next_handler
      /\ \A c \in DOMAIN notified : notified[c] < next_handler
      /\ \A c, d \in Calls :
            close_handler[c] # NoHandler /\ close_handler[c] = close_handler[d] => c = d
      /\ \A c \in Calls, d \in DOMAIN notified :
            close_handler[c] # NoHandler /\ close_handler[c] = notified[d] => c = d
      /\ \A c, d \in DOMAIN notified :
            notified[c] # NoHandler /\ notified[c] = notified[d] => c = d
      /\ \A c \in Calls \ DOMAIN notified :
            close_handler[c] # NoHandler => Places(close_handler[c]) = 0
      /\ \A h \in Nat : h >= next_handler => Places(h) = 0
      /\ \A c \in DOMAIN notified :
            notified[c] # NoHandler =>
               /\ Places(notified[c]) <= 1
               /\ running => Places(notified[c]) = 1
  BY DEF HandlerInv
<1>6. \A c \in DOMAIN notified' : notified'[c] < next_handler
  BY <1>1, <1>3, <1>5
<1>7. \A c \in Calls, d \in DOMAIN notified' :
         close_handler[c] # NoHandler /\ close_handler[c] = notified'[d] => c = d
  BY <1>1, <1>3, <1>5
<1>8. \A c, d \in DOMAIN notified' :
         notified'[c] # NoHandler /\ notified'[c] = notified'[d] => c = d
  BY <1>1, <1>3, <1>5
<1>9. ASSUME NEW c \in Calls \ DOMAIN notified', close_handler[c] # NoHandler
      PROVE  Places(close_handler[c])' = 0
  <2> DEFINE h == close_handler[c]
  <2>1. h \in Nat /\ Places(h) = 0 /\ c \notin S
    BY <1>1, <1>2, <1>5, <1>9
  <2>2. ~Told(S, h)
    BY <1>1, <1>5, <1>9, <2>1 DEF Told
  <2>3. Places(h)' \in Nat /\ Places(h)' <= 0
    BY <2>1, <2>2
  <2>4. h' = h
    OBVIOUS
  <2> QED  BY <2>3, <2>4 DEF Places
<1>10. ASSUME NEW h \in Nat, h >= next_handler
       PROVE  Places(h)' = 0
  <2>1. Places(h) = 0
    BY <1>5, <1>10
  <2>2. \A c \in Calls : close_handler[c] # h
    BY <1>2, <1>3, <1>5, <1>10
  <2>3. ~Told(S, h)
    BY <2>2 DEF Told
  <2>4. Places(h)' \in Nat /\ Places(h)' <= 0
    BY <2>1, <2>3
  <2> QED  BY <2>4
<1>11. ASSUME NEW c \in DOMAIN notified', notified'[c] # NoHandler
       PROVE  /\ Places(notified[c])' <= 1
              /\ running' => Places(notified[c])' = 1
  <2>1. PICK h \in Nat : h = notified'[c]
    BY <1>1
  <2>2. CASE c \in DOMAIN notified
    <3>1. h = notified[c] /\ Places(h) <= 1 /\ (running => Places(h) = 1)
      BY <1>1, <1>5, <1>11, <2>1, <2>2
    <3>2. ~Told(S, h)
      BY <1>5, <1>11, <2>1, <2>2, <3>1 DEF Told
    <3>3. Places(h)' <= 1 /\ (running' => Places(h)' = 1)
      BY <1>4, <2>1, <3>1, <3>2
    <3> QED  BY <3>3, <2>1 DEF Places
  <2>3. CASE c \notin DOMAIN notified
    <3>1. c \in S /\ h = close_handler[c] /\ Places(h) = 0
      BY <1>1, <1>5, <1>11, <2>1, <2>3
    <3>2. Told(S, h)
      BY <1>11, <2>1, <2>3, <3>1 DEF Told
    <3>3. Places(h)' <= 1 /\ (running' => Places(h)' = 1)
      BY <2>1, <3>1, <3>2
    <3> QED  BY <2>1, <3>3 DEF Places
  <2> QED  BY <2>2, <2>3
<1> QED
  BY <1>1, <1>5, <1>6, <1>7, <1>8, <1>9, <1>10, <1>11 DEF HandlerInv

\* A step that closes nothing.
LEMMA NothingClosedKeeps ==
    ASSUME Types, HandlerInv, UNCHANGED <<notified, close_handler, next_handler>>,
           running' => running,
           \A h \in Nat : /\ Places(h)' \in Nat
                          /\ running' => Places(h)' = Places(h)
                          /\ ~running' => Places(h)' <= Places(h)
    PROVE  HandlerInv'
<1>1. notified' = Notified({})
  BY NothingNotified
<1>2. \A h \in Nat : ~Told({}, h)
  BY DEF Told
<1>3. \A h \in Nat : Places(h) \in Nat
  BY PlacesType
<1>4. \A h \in Nat : /\ Places(h)' \in Nat
                     /\ running' => Places(h)' = Places(h) + (IF Told({}, h) THEN 1 ELSE 0)
                     /\ ~running' => Places(h)' <= Places(h)
  BY <1>2, <1>3
<1> QED  BY <1>1, <1>4, ClosingKeeps

\* What appending a call does to the places of a handler.
LEMMA AppendPlaces ==
    ASSUME Types, NEW e \in Items, NEW h, pending' = Append(pending, e), told' = told
    PROVE  Places(h)' = Places(h) + (IF e = Call("close", h) THEN 1 ELSE 0)
<1>1. Count(pending', Call("close", h)) =
         Count(pending, Call("close", h)) + (IF e = Call("close", h) THEN 1 ELSE 0)
  BY CountAppend DEF Types
<1>2. Count(pending, Call("close", h)) \in Nat /\ Count(told, h) \in Nat
  BY CountType DEF Types
<1>3. Places(h)' = Count(pending', Call("close", h)) + Count(told', h)
  BY DEF Places
<1>4. Places(h) = Count(pending, Call("close", h)) + Count(told, h)
  BY DEF Places
<1> QED  BY <1>1, <1>2, <1>3, <1>4

\* Closing one stream and queueing its handler.
LEMMA CloseOneKeeps ==
    ASSUME Types, HandlerInv, NEW c \in Calls,
           notified' = Notified({c}), pending' = Enqueued(CloseCalls({c})),
           UNCHANGED <<told, running, close_handler, next_handler>>
    PROVE  HandlerInv'
<1>1. CASE c \notin DOMAIN notified /\ close_handler[c] # NoHandler /\ running
  <2>1. pending' = Append(pending, Call("close", close_handler[c]))
    BY <1>1, CloseCallsOfOne
  <2>2. close_handler[c] \in Nat /\ Call("close", close_handler[c]) \in Items
    BY CallIsItem DEF Types
  <2>3. ASSUME NEW h \in Nat
        PROVE  Places(h)' = Places(h) + (IF Told({c}, h) THEN 1 ELSE 0)
    <3>1. Places(h)' = Places(h)
             + (IF Call("close", close_handler[c]) = Call("close", h) THEN 1 ELSE 0)
      BY <2>1, <2>2, AppendPlaces
    <3>2. Call("close", close_handler[c]) = Call("close", h) <=> close_handler[c] = h
      BY DEF Call
    <3>3. Told({c}, h) <=> close_handler[c] = h
      BY <1>1 DEF Told
    <3> QED  BY <3>1, <3>2, <3>3
  <2>4. \A h \in Nat : Places(h)' \in Nat
    BY <2>3, PlacesType
  <2> QED  BY <1>1, <2>3, <2>4, ClosingKeeps
<1>2. CASE ~(c \notin DOMAIN notified /\ close_handler[c] # NoHandler /\ running)
  <2>1. pending' = pending
    BY <1>2, CloseCallsOfOne
  <2>2. \A h : Places(h)' = Places(h)
    BY <2>1 DEF Places
  <2>3. running => \A h : ~Told({c}, h)
    BY <1>2 DEF Told
  <2>4. \A h \in Nat : Places(h) \in Nat
    BY PlacesType
  <2>5. \A h \in Nat :
           /\ Places(h)' \in Nat
           /\ running' => Places(h)' = Places(h) + (IF Told({c}, h) THEN 1 ELSE 0)
           /\ ~running' => Places(h)' <= Places(h)
    BY <2>2, <2>3, <2>4
  <2> QED  BY <2>5, ClosingKeeps
<1> QED  BY <1>1, <1>2

\* on-close registers a handler nobody has yet and, on a stream that is closed
\* but not notified, tells it.
LEMMA OnCloseKeeps ==
    ASSUME Types, HandlerInv, NEW c \in Calls, OnClose(c)
    PROVE  HandlerInv'
<1> DEFINE n == next_handler
           After(h) == Count(pending', Call("close", h)) + Count(told', h)
<1>1. /\ next_handler' = n + 1 /\ told' = told /\ running' = running
      /\ close_handler' = [close_handler EXCEPT ![c] = n]
      /\ n \in Nat \ {0} /\ close_handler \in [Calls -> Nat]
      /\ DOMAIN notified \subseteq Calls /\ \A d \in DOMAIN notified : notified[d] \in Nat
  BY DEF OnClose, Types
<1>2. /\ \A d \in Calls : close_handler[d] < n
      /\ \A d \in DOMAIN notified : notified[d] < n
      /\ \A d, e \in Calls :
            close_handler[d] # NoHandler /\ close_handler[d] = close_handler[e] => d = e
      /\ \A d \in Calls, e \in DOMAIN notified :
            close_handler[d] # NoHandler /\ close_handler[d] = notified[e] => d = e
      /\ \A d, e \in DOMAIN notified :
            notified[d] # NoHandler /\ notified[d] = notified[e] => d = e
      /\ \A d \in Calls \ DOMAIN notified :
            close_handler[d] # NoHandler => Places(close_handler[d]) = 0
      /\ \A h \in Nat : h >= n => Places(h) = 0
      /\ \A d \in DOMAIN notified :
            notified[d] # NoHandler =>
               /\ Places(notified[d]) <= 1
               /\ running => Places(notified[d]) = 1
  BY DEF HandlerInv
<1>3. \A h \in Nat : Places(h) \in Nat
  BY PlacesType
<1>4. /\ \A d \in Calls : close_handler'[d] = IF d = c THEN n ELSE close_handler[d]
  BY <1>1
<1>5. CASE c \in closed \ DOMAIN notified
  <2>1. /\ notified' = [d \in DOMAIN notified \cup {c} |->
                           IF d = c THEN next_handler ELSE notified[d]]
        /\ pending' = IF running THEN Append(pending, Call("close", next_handler)) ELSE pending
    BY <1>5 DEF OnClose
  <2>2. /\ DOMAIN notified' = DOMAIN notified \cup {c}
        /\ \A d \in DOMAIN notified' : notified'[d] = IF d = c THEN n ELSE notified[d]
    BY <2>1
  <2>3. ASSUME NEW h \in Nat
        PROVE  Places(h)' = Places(h) + (IF running /\ h = n THEN 1 ELSE 0)
    <3>1. Call("close", n) \in Items /\ (Call("close", n) = Call("close", h) <=> h = n)
      BY <1>1, CallIsItem DEF Call
    <3>2. CASE running
      <4>1. Places(h)' = Places(h) + (IF Call("close", n) = Call("close", h) THEN 1 ELSE 0)
        BY <1>1, <2>1, <3>1, <3>2, AppendPlaces
      <4> QED  BY <3>1, <3>2, <4>1
    <3>3. CASE ~running
      <4>1. Places(h)' = Places(h)
        BY <1>1, <2>1, <3>3 DEF Places
      <4> QED  BY <1>3, <3>3, <4>1
    <3> QED  BY <3>2, <3>3
  <2>4. \A h \in Nat : After(h) = Places(h) + (IF running /\ h = n THEN 1 ELSE 0)
    BY <2>3 DEF Places
  <2> HIDE DEF After
  <2>12. \A d \in Calls \ DOMAIN notified' :
           close_handler'[d] # NoHandler => After(close_handler'[d]) = 0
    <3> SUFFICES ASSUME NEW d \in Calls, d \notin DOMAIN notified', NEW h \in Nat,
                        h = close_handler'[d], h # NoHandler
                 PROVE  After(h) = 0
      BY <1>1, <1>4
    <3>1. d # c /\ h = close_handler[d] /\ Places(h) = 0 /\ h < n
      BY <1>2, <1>4, <2>2
    <3> QED  BY <1>1, <2>4, <3>1
  <2>5. \A h \in Nat : h >= n + 1 => After(h) = 0
    BY <1>1, <1>2, <2>4
  <2>6. \A d \in DOMAIN notified' : notified'[d] # NoHandler =>
           /\ After(notified'[d]) <= 1
           /\ running => After(notified'[d]) = 1
    <3> SUFFICES ASSUME NEW d \in DOMAIN notified', NEW h \in Nat,
                        h = notified'[d], h # NoHandler
                 PROVE  After(h) <= 1 /\ (running => After(h) = 1)
      BY <1>1, <2>2
    <3>1. CASE d = c
      <4>1. h = n /\ Places(h) = 0
        BY <1>1, <1>2, <2>2, <3>1
      <4> QED  BY <2>4, <4>1
    <3>2. CASE d # c
      <4>1. d \in DOMAIN notified /\ h = notified[d] /\ h < n
        BY <1>2, <2>2, <3>2
      <4>2. Places(h) <= 1 /\ (running => Places(h) = 1) /\ After(h) = Places(h)
        BY <1>1, <1>2, <1>3, <2>4, <4>1
      <4> QED  BY <4>2
    <3> QED  BY <3>1, <3>2
  <2>7. /\ \A d \in Calls : close_handler'[d] < n + 1
        /\ \A d \in DOMAIN notified' : notified'[d] < n + 1
    BY <1>1, <1>2, <1>4, <2>2
  <2>8. \A d, e \in Calls :
           close_handler'[d] # NoHandler /\ close_handler'[d] = close_handler'[e] => d = e
    BY <1>1, <1>2, <1>4
  <2>9. \A d \in Calls, e \in DOMAIN notified' :
           close_handler'[d] # NoHandler /\ close_handler'[d] = notified'[e] => d = e
    BY <1>1, <1>2, <1>4, <2>2
  <2>10. \A d, e \in DOMAIN notified' :
            notified'[d] # NoHandler /\ notified'[d] = notified'[e] => d = e
    BY <1>1, <1>2, <2>2
  <2> HIDE DEF n
  <2>11. next_handler' = n + 1 /\ running' = running
    BY <1>1
  <2> QED  BY <2>12, <2>5, <2>6, <2>7, <2>8, <2>9, <2>10, <2>11 DEF HandlerInv, Places, After
<1>6. CASE ~(c \in closed \ DOMAIN notified)
  <2>1. UNCHANGED <<notified, pending, told>>
    BY <1>1, <1>6 DEF OnClose
  <2>2. \A h : Places(h)' = Places(h)
    BY <2>1 DEF Places
  <2>3. \A d \in Calls \ DOMAIN notified :
           close_handler'[d] # NoHandler => Places(close_handler'[d]) = 0
    BY <1>1, <1>2, <1>4
  <2>4. \A h \in Nat : h >= n + 1 => Places(h) = 0
    BY <1>1, <1>2
  <2>5. /\ \A d \in Calls : close_handler'[d] < n + 1
        /\ \A d \in DOMAIN notified : notified[d] < n + 1
    BY <1>1, <1>2, <1>4
  <2>6. \A d, e \in Calls :
           close_handler'[d] # NoHandler /\ close_handler'[d] = close_handler'[e] => d = e
    BY <1>1, <1>2, <1>4
  <2>7. \A d \in Calls, e \in DOMAIN notified :
           close_handler'[d] # NoHandler /\ close_handler'[d] = notified[e] => d = e
    BY <1>1, <1>2, <1>4
  <2> HIDE DEF n
  <2>8. next_handler' = n + 1 /\ running' = running /\ notified' = notified
    BY <1>1, <2>1
  <2>9. \A h : Places(h)' = Count(pending', Call("close", h)) + Count(told', h)
    BY DEF Places
  <2>10. \A h : Places(h) = Count(pending', Call("close", h)) + Count(told', h)
    BY <2>1 DEF Places
  <2> QED  BY <1>2, <2>3, <2>4, <2>5, <2>6, <2>7, <2>8, <2>10 DEF HandlerInv, Places
<1> QED  BY <1>5, <1>6

\* A thread that answers or writes its stream, as far as others see it.
ServesStream(c, empty) ==
    \/ Answer(c) \/ CallProvider(c) \/ NotWritable(c)
    \/ WriteChunk(c, empty) \/ ProviderReturns(c) \/ WriteFails(c)

LEMMA ServesStreamFrame ==
    ASSUME Types, NEW c \in Calls, NEW empty \in BOOLEAN, ServesStream(c, empty)
    PROVE  /\ UNCHANGED <<pending, handling, done, status, tracked, told, notified,
                          close_handler, scriptVars, running, stopping>>
           /\ closed \subseteq closed'
           /\ \A d \in Calls : thread[d] # thread'[d] =>
                 /\ d = c /\ thread[d] \in {"waiting", "looping"} \cup Writing
                 /\ thread[d] = "waiting" => d \in done
                 /\ thread'[d] \in {"looping", "notifying", "over"} \cup Writing
<1> USE DEF Types, streamVars, scriptVars, Writing
<1>1. CASE Answer(c)
  BY <1>1 DEF Answer
<1>2. CASE CallProvider(c)
  BY <1>2 DEF CallProvider
<1>3. CASE NotWritable(c)
  BY <1>3 DEF NotWritable
<1>4. CASE WriteChunk(c, empty)
  BY <1>4 DEF WriteChunk
<1>5. CASE ProviderReturns(c)
  BY <1>5 DEF ProviderReturns
<1>6. CASE WriteFails(c)
  BY <1>6 DEF WriteFails
<1> QED  BY <1>1, <1>2, <1>3, <1>4, <1>5, <1>6 DEF ServesStream

LEMMA HandlersStep ==
    ASSUME Types, HandlerInv, [Next]_vars
    PROVE  HandlerInv'
<1>1. \A h \in Nat : Places(h) \in Nat
  BY PlacesType
<1>2. ASSUME UNCHANGED <<pending, told, notified, close_handler, next_handler>>,
             running' => running
      PROVE  HandlerInv'
  <2>1. \A h : Places(h)' = Places(h)
    BY <1>2 DEF Places
  <2> QED  BY <1>1, <1>2, <2>1, NothingClosedKeeps
<1>3. ASSUME NEW c \in Calls, NEW kind \in {"route", "sse"}, Arrive(c, kind)
      PROVE  HandlerInv'
  BY <1>2, <1>3 DEF Arrive, scriptVars
<1>4. ASSUME NEW c \in Calls, WaitForLua(c)
      PROVE  HandlerInv'
  <2>1. UNCHANGED <<told, notified, close_handler, next_handler, running>>
    BY <1>4 DEF WaitForLua, streamVars, scriptVars
  <2>2. CASE running
    <3> DEFINE e == Call(thread[c], c)
    <3>1. e \in Items /\ pending' = Append(pending, e) /\ \A h : e # Call("close", h)
      BY <1>4, <2>2, CallIsItem DEF WaitForLua, Call
    <3> HIDE DEF e
    <3>2. ASSUME NEW h \in Nat
          PROVE  Places(h)' = Places(h)
      <4>1. Places(h)' = Places(h) + (IF e = Call("close", h) THEN 1 ELSE 0)
        BY <2>1, <3>1, AppendPlaces
      <4> QED  BY <1>1, <3>1, <4>1
    <3>3. \A h \in Nat : Places(h)' \in Nat /\ Places(h)' <= Places(h)
      BY <1>1, <3>2
    <3> QED  BY <2>1, <3>2, <3>3, NothingClosedKeeps
  <2>3. CASE ~running
    BY <1>2, <1>4, <2>1, <2>3 DEF WaitForLua
  <2> QED  BY <2>2, <2>3
<1>5. ASSUME NEW c \in Calls, NEW empty \in BOOLEAN, ServesStream(c, empty)
      PROVE  HandlerInv'
  BY <1>2, <1>5, ServesStreamFrame DEF scriptVars
<1>6. ASSUME NEW c \in Calls, Notify(c)
      PROVE  HandlerInv'
  BY <1>6, CloseOneKeeps DEF Notify, scriptVars
<1>7. CASE Dispatch
  <2> DEFINE e == Head(pending)
  <2>1. /\ pending \in Seq(Items) /\ pending # <<>> /\ told \in Seq(Nat)
        /\ UNCHANGED <<notified, close_handler, next_handler, running>>
        /\ pending' = Tail(pending)
    BY <1>7 DEF Dispatch, Types, streamVars
  <2>2. e \in Items
    BY <2>1, HeadTailProperties
  <2>3. ASSUME NEW h \in Nat
        PROVE  Places(h)' = Places(h)
    <3>1. Count(pending, Call("close", h)) = Count(pending', Call("close", h))
             + (IF e = Call("close", h) THEN 1 ELSE 0)
      BY <2>1, CountTail
    <3>2. Count(told', h) = Count(told, h) + (IF e = Call("close", h) THEN 1 ELSE 0)
      <4>1. CASE e.kind = "close"
        <5>1. told' = Append(told, e.id) /\ e.id \in Nat
          BY <1>7, <2>2, <4>1 DEF Dispatch, Items
        <5>2. e = Call("close", h) <=> e.id = h
          BY <2>2, <4>1 DEF Items, Call
        <5> HIDE DEF e
        <5>3. Count(told', h) = Count(told, h) + (IF e.id = h THEN 1 ELSE 0)
          BY <2>1, <5>1, CountAppend
        <5> QED  BY <5>2, <5>3
      <4>2. CASE e.kind # "close"
        <5>1. told' = told /\ e # Call("close", h)
          BY <1>7, <4>2 DEF Dispatch, Call
        <5>2. Count(told, h) \in Nat
          BY <2>1, CountType
        <5> QED  BY <5>1, <5>2
      <4> QED  BY <4>1, <4>2
    <3>3. Tail(pending) \in Seq(Items)
      BY <2>1, HeadTailProperties
    <3>4. Count(pending', Call("close", h)) \in Nat /\ Count(told, h) \in Nat
      BY <2>1, <3>3, CountType
    <3>5. /\ Places(h)' = Count(pending', Call("close", h)) + Count(told', h)
          /\ Places(h) = Count(pending, Call("close", h)) + Count(told, h)
      BY DEF Places
    <3> QED  BY <3>1, <3>2, <3>4, <3>5
  <2>4. \A h \in Nat : Places(h)' \in Nat /\ Places(h)' <= Places(h)
    BY <1>1, <2>3
  <2> QED  BY <2>1, <2>3, <2>4, NothingClosedKeeps
<1>8. ASSUME NEW ok \in BOOLEAN, Return(ok)
      PROVE  HandlerInv'
  <2>1. UNCHANGED <<told, close_handler, next_handler, running>>
    BY <1>8 DEF Return, scriptVars
  <2>2. CASE Handled.kind = "close"
    BY <1>2, <1>8, <2>1, <2>2 DEF Return
  <2>3. CASE Handled.kind # "close"
    <3> DEFINE id == Handled.id
               S == IF Handled.kind = "sse" /\ ~ok THEN {id} ELSE {}
    <3>1. notified' = Notified(S) /\ pending' = Enqueued(CloseCalls(S))
      BY <1>8, <2>3 DEF Return, CloseStreams
    <3>2. id \in Calls
      BY <1>8, <2>3, PopType DEF Return, Handled, Types, Items
    <3>3. CASE S = {id}
      BY <2>1, <3>1, <3>2, <3>3, CloseOneKeeps
    <3>4. CASE S = {}
      <4>1. CloseCalls({}) = {} /\ pending \o <<>> = pending
        BY ConcatEmptySeq DEF CloseCalls, Types
      <4>2. pending' = pending /\ notified' = notified
        BY <3>1, <3>4, <4>1, NothingNotified DEF Enqueued
      <4> QED  BY <1>2, <2>1, <4>2
    <3> QED  BY <3>3, <3>4
  <2> QED  BY <2>2, <2>3
<1>9. ASSUME NEW c \in given, Send(c)
      PROVE  HandlerInv'
  BY <1>2, <1>9 DEF Send
<1>10. ASSUME NEW c \in given, Close(c)
       PROVE  HandlerInv'
  <2>1. c \in Calls
    BY DEF Types
  <2> QED  BY <1>10, <2>1, CloseOneKeeps DEF Close, CloseStreams, scriptVars
<1>12. CASE Stop
  BY <1>2, <1>12 DEF Stop, streamVars, scriptVars
<1>13. ASSUME NEW S \in SUBSET Calls, ~running, pending' \in {pending, <<>>},
              notified' = Notified(S), UNCHANGED <<told, running, close_handler, next_handler>>
       PROVE  HandlerInv'
  <2>1. ASSUME NEW h \in Nat
        PROVE  Places(h)' \in Nat /\ Places(h)' <= Places(h)
    <3>1. Count(pending, Call("close", h)) \in Nat /\ Count(told, h) \in Nat
      BY CountType DEF Types
    <3>2. Count(pending', Call("close", h)) \in {0, Count(pending, Call("close", h))}
      BY <1>13, CountEmpty
    <3>3. /\ Places(h)' = Count(pending', Call("close", h)) + Count(told, h)
          /\ Places(h) = Count(pending, Call("close", h)) + Count(told, h)
      BY <1>13 DEF Places
    <3> QED  BY <3>1, <3>2, <3>3
  <2> QED  BY <1>13, <2>1, ClosingKeeps
<1>14. CASE StopStreams
  <2>1. /\ ~running /\ tracked \in SUBSET Calls /\ notified' = Notified(tracked)
        /\ UNCHANGED <<pending, told, running, close_handler, next_handler>>
    BY <1>14 DEF StopStreams, CloseStreams, Types, scriptVars
  <2> QED  BY <1>13, <2>1
<1>15. CASE FailPending
  <2>1. PICK S : S = {pending[i].id : i \in {i \in DOMAIN pending : pending[i].kind # "close"}}
                        \cap tracked
    OBVIOUS
  <2>2. /\ ~running /\ S \in SUBSET Calls /\ notified' = Notified(S)
        /\ pending' = <<>>
        /\ UNCHANGED <<told, running, close_handler, next_handler>>
    BY <1>15, <2>1 DEF FailPending, CloseStreams, Types, scriptVars
  <2> QED  BY <1>13, <2>2
<1>16. CASE StopListening \/ StopReturn
  BY <1>2, <1>16 DEF StopListening, StopReturn, streamVars, scriptVars
<1>17. CASE UNCHANGED vars
  BY <1>2, <1>17 DEF vars, streamVars, scriptVars
<1>11. ASSUME NEW c \in given, OnClose(c)
       PROVE  HandlerInv'
  <2>1. c \in Calls
    BY DEF Types
  <2> QED  BY <1>11, <2>1, OnCloseKeeps
<1> QED
  BY <1>3, <1>4, <1>5, <1>6, <1>7, <1>8, <1>9, <1>10, <1>11, <1>12, <1>14, <1>15,
     <1>16, <1>17
     DEF Next, ThreadStep, ClientGone, StopStep, ServesStream

-----------------------------------------------------------------------------
(* What was accepted is written.                                           *)

IsRequest(e) == e.kind # "close"

\* No request is twice in s, and none is in both s and t.
OnceIn(s) ==
    \A i, j \in DOMAIN s : IsRequest(s[i]) /\ IsRequest(s[j]) /\ s[i].id = s[j].id => i = j
Apart(s, t) ==
    \A i \in DOMAIN s, j \in DOMAIN t : IsRequest(s[i]) /\ IsRequest(t[j]) => s[i].id # t[j].id

\* The thread of a request that is queued or handled waits for its answer.
Awaited(e) ==
    IsRequest(e) => /\ thread[e.id] = "waiting" /\ e.id \notin done
                    /\ e.kind = "sse" <=> e.id \in tracked

QueueInv ==
    /\ OnceIn(pending) /\ OnceIn(handling) /\ Apart(pending, handling)
    /\ \A i \in DOMAIN pending : Awaited(pending[i])
    /\ \A i \in DOMAIN handling : Awaited(handling[i])

\* A thread that is over has written its stream, has failed or never had a
\* stream, unless it lost its client or was cut off.
StreamInv ==
    /\ given \subseteq tracked
    /\ \A c \in Calls :
          /\ c \in done => thread[c] \notin {"none", "route", "sse"}
          /\ thread[c] = "sse" => c \in tracked
          /\ thread[c] \in {"none", "route"} => c \notin tracked
          /\ thread[c] \in {"none", "route", "sse"} => c \notin given
          /\ chunks[c] > 0 => c \in given
          /\ thread[c] = "notifying" => c \in gone
          /\ thread[c] = "over" =>
                \/ c \in gone \cup cut \/ ~(status[c] < 400) \/ c \notin tracked
                \/ c \in closed /\ chunks[c] = 0

LEMMA AppendOnce ==
    ASSUME NEW s \in Seq(Items), NEW t \in Seq(Items), NEW e \in Items,
           OnceIn(s), Apart(s, t),
           IsRequest(e) => /\ \A i \in DOMAIN s : IsRequest(s[i]) => s[i].id # e.id
                           /\ \A i \in DOMAIN t : IsRequest(t[i]) => t[i].id # e.id
    PROVE  OnceIn(Append(s, e)) /\ Apart(Append(s, e), t) /\ Apart(t, Append(s, e))
<1> DEFINE n == Len(s) + 1
           u == Append(s, e)
<1>1. /\ DOMAIN u = DOMAIN s \cup {n} /\ n \notin DOMAIN s /\ u[n] = e
      /\ \A i \in DOMAIN s : u[i] = s[i]
  BY AppendProperties, LenProperties
<1> HIDE DEF n, u
<1>2. OnceIn(u)
  BY <1>1 DEF OnceIn
<1>3. Apart(u, t) /\ Apart(t, u)
  BY <1>1 DEF Apart
<1> QED  BY <1>2, <1>3 DEF u

LEMMA TailOnce ==
    ASSUME NEW s \in Seq(Items), s # <<>>, NEW t \in Seq(Items), OnceIn(s), Apart(s, t)
    PROVE  /\ OnceIn(Tail(s)) /\ Apart(Tail(s), t)
           /\ IsRequest(Head(s)) =>
                 /\ \A i \in DOMAIN Tail(s) : IsRequest(Tail(s)[i]) => Tail(s)[i].id # Head(s).id
                 /\ \A i \in DOMAIN t : IsRequest(t[i]) => t[i].id # Head(s).id
           /\ \A i \in DOMAIN Tail(s) : \E j \in DOMAIN s : Tail(s)[i] = s[j]
           /\ 1 \in DOMAIN s /\ Head(s) = s[1]
<1> DEFINE u == Tail(s)
<1>1. /\ Len(s) \in Nat \ {0} /\ Len(u) = Len(s) - 1 /\ u \in Seq(Items)
      /\ \A i \in 1..Len(u) : u[i] = s[i + 1]
      /\ Head(s) = s[1]
      /\ DOMAIN s = 1..Len(s) /\ DOMAIN u = 1..Len(u)
  BY EmptySeq, LenProperties, HeadTailProperties
<1> HIDE DEF u
<1>2. \A i \in DOMAIN u : i + 1 \in DOMAIN s /\ u[i] = s[i + 1] /\ i + 1 # 1
  BY <1>1
<1>3. \A i, j \in DOMAIN u : i + 1 = j + 1 => i = j
  BY <1>1
<1>4. 1 \in DOMAIN s
  BY <1>1
<1>5. OnceIn(u)
  BY <1>2, <1>3 DEF OnceIn
<1>6. Apart(u, t)
  BY <1>2 DEF Apart
<1>7. IsRequest(s[1]) =>
         /\ \A i \in DOMAIN u : IsRequest(u[i]) => u[i].id # s[1].id
         /\ \A i \in DOMAIN t : IsRequest(t[i]) => t[i].id # s[1].id
  BY <1>2, <1>4 DEF OnceIn, Apart
<1> QED  BY <1>1, <1>2, <1>4, <1>5, <1>6, <1>7 DEF u

LEMMA PopOnce ==
    ASSUME NEW s \in Seq(Items), s # <<>>, NEW t \in Seq(Items), OnceIn(s), Apart(t, s)
    PROVE  /\ OnceIn(Front1(s)) /\ Apart(t, Front1(s))
           /\ IsRequest(s[Len(s)]) =>
                 /\ \A i \in DOMAIN Front1(s) :
                       IsRequest(Front1(s)[i]) => Front1(s)[i].id # s[Len(s)].id
                 /\ \A i \in DOMAIN t : IsRequest(t[i]) => t[i].id # s[Len(s)].id
           /\ \A i \in DOMAIN Front1(s) : i \in DOMAIN s /\ Front1(s)[i] = s[i]
           /\ Len(s) \in DOMAIN s
<1> DEFINE u == Front1(s)
           n == Len(s)
<1>1. /\ n \in Nat \ {0} /\ u \in Seq(Items) /\ Len(u) = n - 1
      /\ \A i \in 1..(n - 1) : u[i] = s[i]
  BY PopType
<1>2. DOMAIN s = 1..n /\ DOMAIN u = 1..(n - 1)
  BY <1>1, LenProperties
<1> HIDE DEF u, n
<1>3. \A i \in DOMAIN u : i \in DOMAIN s /\ u[i] = s[i] /\ i # n
  BY <1>1, <1>2
<1>4. n \in DOMAIN s
  BY <1>1, <1>2
<1>5. OnceIn(u)
  BY <1>3 DEF OnceIn
<1>6. Apart(t, u)
  BY <1>3 DEF Apart
<1>7. IsRequest(s[n]) =>
         /\ \A i \in DOMAIN u : IsRequest(u[i]) => u[i].id # s[n].id
         /\ \A i \in DOMAIN t : IsRequest(t[i]) => t[i].id # s[n].id
  BY <1>3, <1>4 DEF OnceIn, Apart
<1> QED  BY <1>3, <1>4, <1>5, <1>6, <1>7 DEF u, n

\* A step that leaves those who wait and queues at most an on-close call.
LEMMA QueueFrame ==
    ASSUME Types, QueueInv, UNCHANGED handling,
           \A c \in Calls : thread[c] = "waiting" => (c \in tracked <=> c \in tracked'),
           pending' = pending \/ \E h \in Nat : pending' = Append(pending, Call("close", h)),
           \A c \in Calls : thread[c] = "waiting" /\ c \notin done =>
                               thread'[c] = "waiting" /\ c \notin done'
    PROVE  QueueInv'
<1>1. /\ \A i \in DOMAIN pending : pending[i] \in Items
      /\ \A i \in DOMAIN handling : handling[i] \in Items
  BY DEF Types
<1>2. \A e \in Items : Awaited(e) => Awaited(e)'
  BY DEF Awaited, Items, IsRequest
<1>3. \A i \in DOMAIN handling : Awaited(handling[i])'
  BY <1>1, <1>2 DEF QueueInv
<1>4. CASE pending' = pending
  <2>1. \A i \in DOMAIN pending : Awaited(pending[i])'
    BY <1>1, <1>2, <1>4 DEF QueueInv
  <2> QED  BY <1>3, <1>4, <2>1 DEF QueueInv
<1>5. ASSUME NEW h \in Nat, pending' = Append(pending, Call("close", h))
      PROVE  QueueInv'
  <2> DEFINE e == Call("close", h)
  <2>1. e \in Items /\ ~IsRequest(e) /\ pending \in Seq(Items) /\ handling \in Seq(Items)
    BY CallIsItem DEF IsRequest, Call, Types
  <2> HIDE DEF e
  <2>2. OnceIn(pending') /\ Apart(pending', handling)
    BY <1>5, <2>1, AppendOnce DEF QueueInv, e
  <2>3. ASSUME NEW i \in DOMAIN pending'
        PROVE  Awaited(pending[i])'
    <3>1. pending'[i] = e \/ (i \in DOMAIN pending /\ pending'[i] = pending[i])
      BY <1>5, <2>1, AppendProperties, LenProperties DEF e
    <3>2. Awaited(e)'
      BY <2>1 DEF Awaited
    <3>3. i \in DOMAIN pending => Awaited(pending[i]) /\ pending[i] \in Items
      BY <1>1 DEF QueueInv
    <3>4. CASE pending'[i] = e
      BY <2>1, <3>4 DEF Awaited
    <3>5. CASE i \in DOMAIN pending /\ pending'[i] = pending[i]
      BY <1>2, <3>3, <3>5 DEF Awaited
    <3> QED  BY <3>1, <3>4, <3>5
  <2> QED  BY <1>3, <2>2, <2>3 DEF QueueInv
<1> QED  BY <1>4, <1>5

LEMMA QueueStep ==
    ASSUME Types, QueueInv, StreamInv, [Next]_vars
    PROVE  QueueInv'
<1>1. /\ pending \in Seq(Items) /\ handling \in Seq(Items)
      /\ thread \in [Calls -> Phases] /\ given \subseteq Calls
      /\ \A i \in DOMAIN pending : pending[i] \in Items
      /\ \A i \in DOMAIN handling : handling[i] \in Items
  BY DEF Types
<1>2. \A c \in Calls : \/ Enqueued(CloseCalls({c})) = pending
                       \/ \E h \in Nat : Enqueued(CloseCalls({c})) = Append(pending, Call("close", h))
  BY CloseCallsOfOne DEF Types
<1>3. ASSUME NEW c \in Calls, NEW kind \in {"route", "sse"}, Arrive(c, kind)
      PROVE  QueueInv'
  BY <1>1, <1>3, QueueFrame DEF Arrive
<1>4. ASSUME NEW c \in Calls, WaitForLua(c)
      PROVE  QueueInv'
  <2>1. CASE ~running
    BY <1>1, <1>4, <2>1, QueueFrame DEF WaitForLua, streamVars
  <2>2. CASE running
    <3> DEFINE e == Call(thread[c], c)
    <3>1. /\ pending' = Append(pending, e) /\ handling' = handling /\ done' = done
          /\ tracked' = tracked /\ thread' = [thread EXCEPT ![c] = "waiting"]
          /\ thread[c] \in {"route", "sse"}
      BY <1>4, <2>2 DEF WaitForLua, streamVars
    <3>2. e \in Items /\ e.id = c /\ e.kind = thread[c]
      BY <3>1, CallIsItem DEF Call
    <3> HIDE DEF e
    <3>3. /\ \A i \in DOMAIN pending : IsRequest(pending[i]) => pending[i].id # c
          /\ \A i \in DOMAIN handling : IsRequest(handling[i]) => handling[i].id # c
      BY <3>1 DEF QueueInv, Awaited
    <3>4. OnceIn(pending') /\ Apart(pending', handling)
      BY <1>1, <3>1, <3>2, <3>3, AppendOnce DEF QueueInv
    <3>5. ASSUME NEW d \in Items, Awaited(d), IsRequest(d) => d.id # c
          PROVE  Awaited(d)'
      BY <1>1, <3>1, <3>5 DEF Awaited, Items, IsRequest
    <3>6. \A i \in DOMAIN handling : Awaited(handling[i])'
      BY <1>1, <3>1, <3>3, <3>5 DEF QueueInv, Awaited
    <3>7. c \notin done
      BY <1>1, <1>4, <3>1 DEF StreamInv
    <3>8. thread'[e.id] = "waiting" /\ e.id \notin done' /\ (e.kind = "sse" <=> e.id \in tracked')
      BY <1>1, <3>1, <3>2, <3>7 DEF StreamInv
    <3>9. ASSUME NEW i \in DOMAIN pending'
          PROVE  Awaited(pending[i])'
      <4>1. pending'[i] = e \/ (i \in DOMAIN pending /\ pending'[i] = pending[i])
        BY <1>1, <3>1, <3>2, AppendProperties, LenProperties
      <4>2. CASE pending'[i] = e
        BY <3>8, <4>2 DEF Awaited
      <4>3. CASE i \in DOMAIN pending /\ pending'[i] = pending[i]
        <5>1. Awaited(pending[i]) /\ pending[i] \in Items
              /\ (IsRequest(pending[i]) => pending[i].id # c)
          BY <1>1, <3>3, <4>3 DEF QueueInv
        <5> QED  BY <3>5, <4>3, <5>1 DEF Awaited
      <4> QED  BY <4>1, <4>2, <4>3
    <3> QED  BY <3>1, <3>4, <3>6, <3>9 DEF QueueInv
  <2> QED  BY <2>1, <2>2
<1>5. ASSUME NEW c \in Calls, NEW empty \in BOOLEAN, ServesStream(c, empty)
      PROVE  QueueInv'
  <2>1. UNCHANGED <<pending, handling, done, tracked>>
    BY <1>5, ServesStreamFrame
  <2>2. \A d \in Calls : thread[d] = "waiting" /\ d \notin done => thread'[d] = "waiting"
    BY <1>5, ServesStreamFrame
  <2> QED  BY <2>1, <2>2, QueueFrame
<1>6. ASSUME NEW c \in Calls, Notify(c)
      PROVE  QueueInv'
  <2>1. \A d \in Calls : thread[d] = "waiting" => thread'[d] = "waiting"
    BY <1>1, <1>6 DEF Notify
  <2>2. UNCHANGED <<handling, done, tracked>> /\ pending' = Enqueued(CloseCalls({c}))
    BY <1>6 DEF Notify
  <2> QED  BY <1>2, <2>1, <2>2, QueueFrame
<1>7. CASE Dispatch
  <2> DEFINE e == Head(pending)
  <2>1. /\ pending # <<>> /\ pending' = Tail(pending) /\ handling' = Append(handling, e)
        /\ UNCHANGED <<thread, done, tracked>>
    BY <1>7 DEF Dispatch, streamVars
  <2>2. /\ OnceIn(pending') /\ Apart(pending', handling)
        /\ IsRequest(e) =>
              /\ \A i \in DOMAIN pending' : IsRequest(pending'[i]) => pending'[i].id # e.id
              /\ \A i \in DOMAIN handling : IsRequest(handling[i]) => handling[i].id # e.id
        /\ \A i \in DOMAIN pending' : \E j \in DOMAIN pending : pending'[i] = pending[j]
        /\ 1 \in DOMAIN pending /\ e = pending[1]
    BY <1>1, <2>1, TailOnce DEF QueueInv
  <2>3. e \in Items /\ pending' \in Seq(Items)
    BY <1>1, <2>1, HeadTailProperties
  <2> HIDE DEF e
  <2>4. Apart(handling, pending')
    BY <2>2 DEF Apart
  <2>5. OnceIn(handling') /\ Apart(pending', handling')
    BY <1>1, <2>1, <2>2, <2>3, <2>4, AppendOnce DEF QueueInv
  <2>6. \A d : Awaited(d) <=> Awaited(d)'
    BY <2>1 DEF Awaited
  <2>7. \A i \in DOMAIN pending' : Awaited(pending'[i])
    BY <2>2 DEF QueueInv
  <2>8. \A i \in DOMAIN handling' : Awaited(handling'[i])
    <3>1. \A i \in DOMAIN handling' : handling'[i] = e \/ (i \in DOMAIN handling /\ handling'[i] = handling[i])
      BY <1>1, <2>1, <2>3, AppendProperties, LenProperties
    <3> QED  BY <2>2, <3>1 DEF QueueInv
  <2> QED  BY <2>1, <2>2, <2>5, <2>7, <2>8 DEF QueueInv, Awaited
<1>8. ASSUME NEW ok \in BOOLEAN, Return(ok)
      PROVE  QueueInv'
  <2>1. handling # <<>> /\ handling' = Front1(handling) /\ UNCHANGED <<thread, tracked>>
    BY <1>8 DEF Return, Front1
  <2>2. Apart(pending, handling)
    BY DEF QueueInv
  <2>3. /\ OnceIn(handling') /\ Apart(pending, handling')
        /\ IsRequest(Handled) =>
              /\ \A i \in DOMAIN handling' : IsRequest(handling'[i]) => handling'[i].id # Handled.id
              /\ \A i \in DOMAIN pending : IsRequest(pending[i]) => pending[i].id # Handled.id
        /\ \A i \in DOMAIN handling' : i \in DOMAIN handling /\ handling'[i] = handling[i]
        /\ Handled \in Items
    BY <1>1, <2>1, <2>2, PopOnce, PopType DEF QueueInv, Handled
  <2>4. CASE Handled.kind = "close"
    <3>1. UNCHANGED <<pending, done>>
      BY <1>8, <2>4 DEF Return
    <3> QED  BY <2>1, <2>3, <3>1 DEF QueueInv, Awaited
  <2>5. CASE Handled.kind # "close"
    <3> DEFINE id == Handled.id
               S == IF Handled.kind = "sse" /\ ~ok THEN {id} ELSE {}
    <3>1. done' = done \cup {id} /\ pending' = Enqueued(CloseCalls(S))
      BY <1>8, <2>5 DEF Return
    <3>2. id \in Calls
      BY <2>3, <2>5 DEF Items
    <3>3. pending' = pending \/ \E h \in Nat : pending' = Append(pending, Call("close", h))
      <4>1. CASE S = {id}
        BY <1>2, <3>1, <3>2, <4>1
      <4>2. CASE S = {}
        <5>1. CloseCalls({}) = {} /\ pending \o <<>> = pending
          BY <1>1, ConcatEmptySeq DEF CloseCalls
        <5> QED  BY <3>1, <4>2, <5>1 DEF Enqueued
      <4> QED  BY <4>1, <4>2
    <3> HIDE DEF S
    <3>4. \A d \in Items : Awaited(d) /\ (IsRequest(d) => d.id # id) => Awaited(d)'
      BY <2>1, <3>1 DEF Awaited
    <3>5. \A i \in DOMAIN handling' : Awaited(handling'[i]) /\ handling'[i] \in Items
                                      /\ (IsRequest(handling'[i]) => handling'[i].id # id)
      BY <1>1, <2>3, <2>5 DEF QueueInv, IsRequest
    <3>6. \A i \in DOMAIN pending : Awaited(pending[i]) /\ pending[i] \in Items
                                    /\ (IsRequest(pending[i]) => pending[i].id # id)
      BY <1>1, <2>3, <2>5 DEF QueueInv, IsRequest
    <3> HIDE DEF id
    <3>7. \A i \in DOMAIN handling' : Awaited(handling[i])'
      BY <3>4, <3>5 DEF Awaited
    <3>8. CASE pending' = pending
      <4>1. \A i \in DOMAIN pending : Awaited(pending[i])'
        BY <3>4, <3>6, <3>8 DEF Awaited
      <4>2. Apart(pending', handling') /\ OnceIn(pending')
        BY <2>3, <3>8 DEF QueueInv
      <4> QED  BY <2>3, <3>7, <3>8, <4>1, <4>2 DEF QueueInv
    <3>9. ASSUME NEW h \in Nat, pending' = Append(pending, Call("close", h))
          PROVE  QueueInv'
      <4> DEFINE e == Call("close", h)
      <4>1. e \in Items /\ ~IsRequest(e)
        BY CallIsItem DEF IsRequest, Call
      <4> HIDE DEF e
      <4>2. handling' \in Seq(Items)
        BY <1>1, <2>1, PopType
      <4>3. OnceIn(pending') /\ Apart(pending', handling')
        BY <1>1, <2>3, <3>9, <4>1, <4>2, AppendOnce DEF QueueInv, e
      <4>4. ASSUME NEW i \in DOMAIN pending'
            PROVE  Awaited(pending[i])'
        <5>1. pending'[i] = e \/ (i \in DOMAIN pending /\ pending'[i] = pending[i])
          BY <1>1, <3>9, <4>1, AppendProperties, LenProperties DEF e
        <5>2. CASE pending'[i] = e
          BY <4>1, <5>2 DEF Awaited
        <5>3. CASE i \in DOMAIN pending /\ pending'[i] = pending[i]
          BY <3>4, <3>6, <5>3 DEF Awaited
        <5> QED  BY <5>1, <5>2, <5>3
      <4> QED  BY <2>3, <3>7, <4>3, <4>4 DEF QueueInv
    <3> QED  BY <3>3, <3>8, <3>9
  <2> QED  BY <2>4, <2>5
<1>9. ASSUME NEW c \in given, Send(c)
      PROVE  QueueInv'
  BY <1>9, QueueFrame DEF Send
<1>10. ASSUME NEW c \in given, Close(c)
       PROVE  QueueInv'
  <2>1. /\ UNCHANGED <<handling, done, tracked, thread>>
        /\ pending' = Enqueued(CloseCalls({c})) /\ c \in Calls
    BY <1>1, <1>10 DEF Close
  <2> QED  BY <1>2, <2>1, QueueFrame
<1>11. ASSUME NEW c \in given, OnClose(c)
       PROVE  QueueInv'
  <2>1. UNCHANGED <<handling, done, tracked, thread>> /\ next_handler \in Nat
    BY <1>11 DEF OnClose, Types
  <2>2. pending' = pending \/ pending' = Append(pending, Call("close", next_handler))
    BY <1>11 DEF OnClose
  <2> QED  BY <2>1, <2>2, QueueFrame
<1>12. CASE Stop
  BY <1>12, QueueFrame DEF Stop, streamVars
<1>13. CASE StopStreams
  BY <1>13, QueueFrame DEF StopStreams
<1>14. CASE FailPending
  <2> DEFINE failed == {pending[i].id : i \in {i \in DOMAIN pending : pending[i].kind # "close"}}
  <2>1. /\ pending' = <<>> /\ done' = done \cup failed
        /\ UNCHANGED <<thread, tracked, handling>>
    BY <1>14 DEF FailPending
  <2>2. \A i \in DOMAIN handling : IsRequest(handling[i]) => handling[i].id \notin failed
    BY DEF QueueInv, Apart, IsRequest
  <2> HIDE DEF failed
  <2>3. \A i \in DOMAIN handling : Awaited(handling[i])'
    BY <2>1, <2>2 DEF QueueInv, Awaited
  <2>4. OnceIn(<<>>) /\ Apart(<<>>, handling) /\ DOMAIN <<>> = {}
    BY DEF OnceIn, Apart
  <2> QED  BY <2>1, <2>3, <2>4 DEF QueueInv
<1>15. CASE StopListening \/ StopReturn
  BY <1>15, QueueFrame DEF StopListening, StopReturn, streamVars
<1>16. CASE UNCHANGED vars
  BY <1>16, QueueFrame DEF vars, streamVars
<1> QED
  BY <1>3, <1>4, <1>5, <1>6, <1>7, <1>8, <1>9, <1>10, <1>11, <1>12, <1>13, <1>14,
     <1>15, <1>16
     DEF Next, ThreadStep, ClientGone, StopStep, ServesStream

LEMMA StreamStep ==
    ASSUME Types, QueueInv, StreamInv, [Next]_vars
    PROVE  StreamInv'
<1> USE DEF StreamInv
<1>1. /\ thread \in [Calls -> Phases] /\ status \in [Calls -> Nat] /\ chunks \in [Calls -> Nat]
      /\ given \subseteq Calls /\ tracked \subseteq Calls
      /\ \A i \in DOMAIN pending : pending[i] \in Items
      /\ \A i \in DOMAIN handling : handling[i] \in Items
  BY DEF Types
<1>2. ASSUME UNCHANGED <<thread, status, chunks, given, tracked, endVars, done>>,
             closed \subseteq closed'
      PROVE  StreamInv'
  BY <1>2 DEF endVars
<1>3. ASSUME NEW c \in Calls, NEW kind \in {"route", "sse"}, Arrive(c, kind)
      PROVE  StreamInv'
  <2>1. /\ thread' = [thread EXCEPT ![c] = kind] /\ thread[c] = "none" /\ c \notin done
        /\ tracked' = IF kind = "sse" THEN tracked \cup {c} ELSE tracked
        /\ UNCHANGED <<status, chunks, given, closed, endVars, done>>
    BY <1>3 DEF Arrive, scriptVars
  <2> QED  BY <1>1, <2>1 DEF endVars
<1>4. ASSUME NEW c \in Calls, WaitForLua(c)
      PROVE  StreamInv'
  <2>1. /\ thread' = [thread EXCEPT ![c] = "waiting"]
        /\ \A d \in Calls : d # c => status'[d] = status[d]
        /\ done' \subseteq done \cup {c}
        /\ UNCHANGED <<chunks, given, closed, endVars, tracked>>
    BY <1>4 DEF WaitForLua, streamVars, scriptVars, Types
  <2> QED  BY <1>1, <2>1 DEF endVars
<1>5. ASSUME NEW c \in Calls, Answer(c)
      PROVE  StreamInv'
  <2>1. /\ \/ /\ thread' = [thread EXCEPT ![c] = "looping"] /\ cut' = cut
           \/ /\ thread' = [thread EXCEPT ![c] = "over"]
              /\ cut' = IF c \in tracked /\ status[c] < 400 THEN cut \cup {c} ELSE cut
        /\ UNCHANGED <<status, chunks, given, closed, gone, tracked, done>>
        /\ thread[c] = "waiting"
    BY <1>5 DEF Answer, streamVars, scriptVars
  <2> QED  BY <1>1, <2>1
<1>6. ASSUME NEW c \in Calls, CallProvider(c) \/ NotWritable(c)
      PROVE  StreamInv'
  <2>1. /\ thread[c] = "looping"
        /\ \/ thread' = [thread EXCEPT ![c] = "writing"] /\ UNCHANGED endVars
           \/ thread' = [thread EXCEPT ![c] = "over"] /\ gone' \cup cut' = gone \cup cut \cup {c}
                 /\ gone \subseteq gone'
        /\ UNCHANGED <<status, chunks, given, closed, tracked, done>>
    BY <1>6 DEF CallProvider, NotWritable, endVars, streamVars, scriptVars
  <2> QED  BY <1>1, <2>1 DEF endVars
<1>7. ASSUME NEW c \in Calls, NEW empty \in BOOLEAN, WriteChunk(c, empty)
      PROVE  StreamInv'
  <2>1. /\ thread[c] \in Writing
        /\ thread' = [thread EXCEPT ![c] = IF empty THEN "ending" ELSE "draining"]
        /\ chunks[c] > 0 /\ chunks' = [chunks EXCEPT ![c] = @ - 1]
        /\ UNCHANGED <<status, given, closed, gone, cut, tracked, done>>
    BY <1>7 DEF WriteChunk, scriptVars, endVars
  <2> QED  BY <1>1, <2>1 DEF Writing
<1>17. ASSUME NEW c \in Calls, ProviderReturns(c)
       PROVE  StreamInv'
  <2>1. /\ thread[c] \in Writing /\ chunks[c] = 0
        /\ \/ thread' = [thread EXCEPT ![c] = "looping"]
           \/ thread' = [thread EXCEPT ![c] = "over"] /\ c \in closed \cup cut'
        /\ cut \subseteq cut'
        /\ UNCHANGED <<status, chunks, given, closed, gone, tracked, done>>
    BY <1>17 DEF ProviderReturns, Writing, streamVars, scriptVars
  <2> QED  BY <1>1, <2>1 DEF Writing
<1>8. ASSUME NEW c \in Calls, WriteFails(c)
      PROVE  StreamInv'
  <2>1. /\ thread' = [thread EXCEPT ![c] = IF c \in DOMAIN notified THEN "over" ELSE "notifying"]
        /\ chunks' = [chunks EXCEPT ![c] = IF @ > 0 THEN @ - 1 ELSE 0]
        /\ closed' = closed \cup {c} /\ gone' = gone \cup {c} /\ thread[c] \in Writing
        /\ UNCHANGED <<status, given, tracked, done, cut>>
    BY <1>8 DEF WriteFails, scriptVars
  <2>2. \A d \in Calls : chunks'[d] > 0 => chunks[d] > 0
    BY <1>1, <2>1
  <2> QED  BY <1>1, <2>1, <2>2 DEF Writing
<1>9. ASSUME NEW c \in Calls, Notify(c)
      PROVE  StreamInv'
  <2>1. /\ thread[c] = "notifying" /\ thread' = [thread EXCEPT ![c] = "over"]
        /\ UNCHANGED <<status, chunks, given, closed, endVars, tracked, done>>
    BY <1>9 DEF Notify, scriptVars
  <2> QED  BY <1>1, <2>1 DEF endVars
<1>10. CASE Dispatch
  <2>1. /\ UNCHANGED <<thread, status, chunks, closed, endVars, tracked, done>>
        /\ given' \in {given, given \cup {Head(pending).id}}
        /\ Head(pending).kind # "sse" => given' = given
    BY <1>10 DEF Dispatch, streamVars
  <2>2. pending # <<>> /\ pending \in Seq(Items)
    BY <1>10 DEF Dispatch, Types
  <2>3. 1 \in DOMAIN pending /\ Head(pending) = pending[1]
    BY <2>2, EmptySeq, HeadTailProperties
  <2>4. Head(pending).kind = "sse" =>
           Head(pending).id \in tracked /\ thread[Head(pending).id] = "waiting"
    BY <2>3 DEF QueueInv, Awaited, IsRequest
  <2> QED  BY <2>1, <2>4 DEF endVars
<1>11. ASSUME NEW ok \in BOOLEAN, Return(ok)
       PROVE  StreamInv'
  <2>1. UNCHANGED <<thread, chunks, tracked, given, endVars>>
    BY <1>11 DEF Return, scriptVars
  <2>2. CASE Handled.kind = "close"
    BY <1>2, <1>11, <2>1, <2>2 DEF Return
  <2>3. CASE Handled.kind # "close"
    <3> DEFINE id == Handled.id
    <3>1. /\ status' = [status EXCEPT ![id] = IF ok THEN 200 ELSE 500]
          /\ done' = done \cup {id} /\ closed \subseteq closed'
      BY <1>11, <2>3 DEF Return, CloseStreams
    <3>2. Len(handling) \in DOMAIN handling
      BY <1>11, PopType DEF Return, Types
    <3>3. id \in Calls /\ thread[id] = "waiting"
      BY <1>1, <2>3, <3>2 DEF Handled, QueueInv, Awaited, IsRequest, Items
    <3> HIDE DEF id
    <3> QED  BY <1>1, <2>1, <3>1, <3>3 DEF endVars
  <2> QED  BY <2>2, <2>3
<1>12. ASSUME NEW c \in given, Send(c)
       PROVE  StreamInv'
  <2>1. /\ chunks' = IF c \in closed THEN chunks ELSE [chunks EXCEPT ![c] = @ + 1]
        /\ UNCHANGED <<thread, status, given, closed, endVars, tracked, done>>
    BY <1>12 DEF Send
  <2> QED  BY <1>1, <2>1 DEF endVars
<1>13. ASSUME NEW c \in given, Close(c) \/ OnClose(c)
       PROVE  StreamInv'
  BY <1>2, <1>13 DEF Close, OnClose, CloseStreams, scriptVars
<1>14. CASE Stop \/ StopStreams \/ StopListening \/ StopReturn
  BY <1>2, <1>14 DEF Stop, StopStreams, StopListening, StopReturn, CloseStreams, scriptVars, streamVars
<1>15. CASE FailPending
  <2> DEFINE failed == {pending[i].id : i \in {i \in DOMAIN pending : pending[i].kind # "close"}}
  <2>1. /\ done' = done \cup failed /\ closed \subseteq closed'
        /\ status' = [c \in Calls |-> IF c \in failed THEN 503 ELSE status[c]]
        /\ UNCHANGED <<thread, chunks, tracked, given, endVars>>
    BY <1>15 DEF FailPending, CloseStreams, scriptVars
  <2>2. \A c \in failed : thread[c] = "waiting"
    BY DEF QueueInv, Awaited, IsRequest
  <2> HIDE DEF failed
  <2> QED  BY <1>1, <2>1, <2>2 DEF endVars
<1>16. CASE UNCHANGED vars
  BY <1>2, <1>16 DEF vars, scriptVars, streamVars
<1> QED
  BY <1>3, <1>4, <1>5, <1>6, <1>7, <1>8, <1>9, <1>10, <1>11, <1>12, <1>13, <1>14,
     <1>15, <1>16, <1>17
     DEF Next, ThreadStep, ClientGone, StopStep

-----------------------------------------------------------------------------
(* What was not accepted.                                                  *)

\* A stream that Lua has is closed once stop has closed the streams or its
\* request has failed; no request waits for Lua when stop has failed them.
GivenInv ==
    /\ stopping \in {"join", "over"} => pending = <<>>
    /\ stopping \notin {"no", "close"} => given \subseteq closed
    /\ \A c \in given : status[c] < 400 \/ c \in closed
    /\ \A c \in Calls \ done : status[c] < 400

LEMMA GivenStep ==
    ASSUME Types, QueueInv, StreamInv, GivenInv, [Next]_vars
    PROVE  GivenInv'
<1> USE DEF GivenInv
<1>1. /\ pending \in Seq(Items) /\ handling \in Seq(Items)
      /\ status \in [Calls -> Nat] /\ given \subseteq tracked /\ given \subseteq Calls
      /\ running <=> stopping = "no"
      /\ \A c \in given : thread[c] \notin {"none", "route", "sse"}
  BY DEF Types, StreamInv
<1>2. ASSUME UNCHANGED <<stopping, given, done, status>>, closed \subseteq closed',
             ~running => pending' = pending
      PROVE  GivenInv'
  BY <1>1, <1>2
<1>3. \A c \in Calls : ~running => Enqueued(CloseCalls({c})) = pending
  BY CloseCallsOfOne
<1>4. ASSUME NEW c \in Calls, NEW kind \in {"route", "sse"}, Arrive(c, kind)
      PROVE  GivenInv'
  BY <1>2, <1>4 DEF Arrive, scriptVars
<1>5. ASSUME NEW c \in Calls, WaitForLua(c)
      PROVE  GivenInv'
  <2>1. /\ ~running => pending' = pending
        /\ \A d \in Calls : d # c => status'[d] = status[d]
        /\ c \in done' \/ (status' = status /\ done' = done)
        /\ done \subseteq done' /\ c \notin given
        /\ UNCHANGED <<stopping, given, closed>>
    BY <1>1, <1>5 DEF WaitForLua, scriptVars, streamVars
  <2> QED  BY <1>1, <2>1
<1>6. ASSUME NEW c \in Calls, NEW empty \in BOOLEAN, ServesStream(c, empty)
      PROVE  GivenInv'
  <2>1. /\ UNCHANGED <<pending, done, status, scriptVars, stopping>>
        /\ closed \subseteq closed'
    BY <1>6, ServesStreamFrame
  <2> QED  BY <1>2, <2>1 DEF scriptVars
<1>7. ASSUME NEW c \in Calls, Notify(c)
      PROVE  GivenInv'
  BY <1>2, <1>3, <1>7 DEF Notify, scriptVars
<1>8. CASE Dispatch
  <2>1. /\ pending # <<>> /\ stopping = "no"
        /\ UNCHANGED <<status, done, closed, stopping>>
        /\ given' \subseteq given \cup {Head(pending).id}
        /\ Head(pending).kind # "sse" => given' = given
    BY <1>8 DEF Dispatch, LuaRuns, streamVars
  <2>2. 1 \in DOMAIN pending /\ Head(pending) = pending[1] /\ Head(pending) \in Items
    BY <1>1, <2>1, EmptySeq, HeadTailProperties
  <2>3. Head(pending).kind = "sse" => Head(pending).id \in Calls \ done
    BY <2>2 DEF QueueInv, Awaited, IsRequest, Items
  <2> QED  BY <2>1, <2>3
<1>9. ASSUME NEW ok \in BOOLEAN, Return(ok)
      PROVE  GivenInv'
  <2>1. UNCHANGED <<given, stopping, tracked>>
    BY <1>9 DEF Return, scriptVars
  <2>2. CASE Handled.kind = "close"
    BY <1>2, <1>9, <2>1, <2>2 DEF Return
  <2>3. CASE Handled.kind # "close"
    <3> DEFINE id == Handled.id
               S == IF Handled.kind = "sse" /\ ~ok THEN {id} ELSE {}
    <3>1. /\ status' = [status EXCEPT ![id] = IF ok THEN 200 ELSE 500]
          /\ done' = done \cup {id} /\ closed' = closed \cup S
          /\ pending' = Enqueued(CloseCalls(S))
      BY <1>9, <2>3 DEF Return, CloseStreams
    <3>2. Len(handling) \in DOMAIN handling /\ Handled \in Items
      BY <1>1, <1>9, PopType DEF Return, Handled
    <3>3. id \in Calls /\ (id \in tracked => Handled.kind = "sse")
      BY <2>3, <3>2 DEF Handled, QueueInv, Awaited, IsRequest, Items
    <3>4. ~running => pending' = pending
      <4>1. CASE S = {id}
        BY <1>3, <3>1, <3>3, <4>1
      <4>2. CASE S = {}
        <5>1. CloseCalls({}) = {} /\ pending \o <<>> = pending
          BY <1>1, ConcatEmptySeq DEF CloseCalls
        <5> QED  BY <3>1, <4>2, <5>1 DEF Enqueued
      <4> QED  BY <4>1, <4>2
    <3>5. \A c \in given : status'[c] < 400 \/ c \in closed'
      <4>1. CASE ok
        BY <1>1, <3>1, <3>3, <4>1
      <4>2. CASE ~ok
        BY <1>1, <3>1, <3>3, <4>2
      <4> QED  BY <4>1, <4>2
    <3>6. \A c \in Calls \ done' : status'[c] < 400
      BY <1>1, <3>1, <3>3
    <3> HIDE DEF id, S
    <3> QED  BY <1>1, <2>1, <3>1, <3>4, <3>5, <3>6
  <2> QED  BY <2>2, <2>3
<1>10. ASSUME NEW c \in given, Send(c)
       PROVE  GivenInv'
  BY <1>2, <1>10 DEF Send
<1>11. ASSUME NEW c \in given, Close(c) \/ OnClose(c)
       PROVE  GivenInv'
  BY <1>1, <1>2, <1>3, <1>11 DEF Close, OnClose, CloseStreams, scriptVars
<1>12. CASE Stop \/ StopListening \/ StopReturn
  BY <1>12 DEF Stop, StopListening, StopReturn, scriptVars, streamVars
<1>13. CASE StopStreams
  BY <1>1, <1>13 DEF StopStreams, CloseStreams, scriptVars
<1>14. CASE FailPending
  <2> DEFINE failed == {pending[i].id : i \in {i \in DOMAIN pending : pending[i].kind # "close"}}
  <2>1. /\ done' = done \cup failed /\ closed \subseteq closed' /\ given' = given
        /\ pending' = <<>> /\ stopping = "fail"
        /\ status' = [c \in Calls |-> IF c \in failed THEN 503 ELSE status[c]]
    BY <1>14 DEF FailPending, CloseStreams, scriptVars
  <2> HIDE DEF failed
  <2> QED  BY <1>1, <2>1
<1>15. CASE UNCHANGED vars
  BY <1>2, <1>15 DEF vars, scriptVars, streamVars
<1>16. ASSUME NEW c \in Calls, ThreadStep(c) \/ ClientGone(c)
       PROVE  GivenInv'
  BY <1>5, <1>6, <1>7, <1>16 DEF ThreadStep, ClientGone, ServesStream
<1> QED
  BY <1>4, <1>8, <1>9, <1>10, <1>11, <1>12, <1>13, <1>14, <1>15, <1>16
     DEF Next, StopStep

-----------------------------------------------------------------------------
(* The theorem.                                                            *)

ServerInv == Types /\ HandlerInv /\ QueueInv /\ StreamInv /\ GivenInv

LEMMA ServerInvAtFirst == Init => ServerInv
<1> SUFFICES ASSUME Init PROVE ServerInv
  OBVIOUS
<1>1. Types
  BY TypesAtFirst
<1>2. \A h : Places(h) = 0
  BY CountEmpty DEF Init, Places
<1>3. HandlerInv
  BY <1>2 DEF Init, HandlerInv, NoHandler
<1>4. QueueInv /\ StreamInv /\ GivenInv
  BY DEF Init, QueueInv, StreamInv, GivenInv, OnceIn, Apart
<1> QED  BY <1>1, <1>3, <1>4 DEF ServerInv

LEMMA ServerInvStep == ServerInv /\ [Next]_vars => ServerInv'
  BY TypesStep, HandlersStep, QueueStep, StreamStep, GivenStep DEF ServerInv

LEMMA StreamsEndThen == ServerInv => StreamsEnd
<1> SUFFICES ASSUME ServerInv PROVE StreamsEnd
  OBVIOUS
<1>1. \A h : ClosePlaces(h) = Places(h)
  BY DEF ClosePlaces, Places, Count, Where
<1>2. ClosedIsToldOnce
  BY <1>1 DEF ClosedIsToldOnce, ServerInv, HandlerInv
<1>3. AcceptedIsWritten
  <2> SUFFICES ASSUME NEW c \in Calls, thread[c] = "over", c \notin gone \cup cut,
                      status[c] < 400
               PROVE  chunks[c] = 0
    BY DEF AcceptedIsWritten
  <2>1. chunks[c] \in Nat
    BY DEF ServerInv, Types
  <2>2. c \notin tracked \/ chunks[c] = 0
    BY DEF ServerInv, StreamInv
  <2>3. chunks[c] > 0 => c \in tracked
    BY DEF ServerInv, StreamInv
  <2> QED  BY <2>1, <2>2, <2>3
<1>4. EndedIsClosed
  <2> SUFFICES ASSUME NEW c \in given, thread[c] = "over", c \notin gone \cup cut \/ ShuttingDown
               PROVE  c \in closed
    BY DEF EndedIsClosed
  <2>1. ShuttingDown => given \subseteq closed
    BY DEF ServerInv, GivenInv, ShuttingDown
  <2>2. c \in tracked /\ c \in Calls /\ (status[c] < 400 \/ c \in closed)
    BY DEF ServerInv, GivenInv, StreamInv, Types
  <2>3. c \in gone \cup cut \/ ~(status[c] < 400) \/ c \in closed
    BY <2>2 DEF ServerInv, StreamInv
  <2> QED  BY <2>1, <2>2, <2>3
<1> QED  BY <1>2, <1>3, <1>4 DEF StreamsEnd

\* However a stream ends - by its thread, its client's leaving, a handler that
\* failed, the script or stop - its on-close handler is queued or told exactly
\* once (at most once after stop); unless the request failed, the client left
\* or httplib ended the loop by itself (at shutdown, after an empty chunk, for
\* HEAD), what send accepted was written and the stream is closed.
THEOREM StreamsAlwaysEnd == Spec => []StreamsEnd
<1>1. Spec => []ServerInv
  BY ServerInvAtFirst, ServerInvStep, PTL DEF Spec
<1> QED  BY <1>1, StreamsEndThen, PTL
=============================================================================
