------------------------------- MODULE Realtime -------------------------------
(***************************************************************************)
(* A realtime server and its clients, realtime/core.cpp.  Each has a       *)
(* thread that ticks over a yojimbo transport and carries out what scripts *)
(* asked for in between.  The server addresses a client by the slot it     *)
(* occupies; features are offered and activated with control messages on   *)
(* the reliable channel, and payloads travel on the same channel.          *)
(*                                                                         *)
(* A slot holds a session: a client and the number of its attempt.  What   *)
(* is sent to a client that is gone is lost.  The unreliable channel       *)
(* carries payloads only, which change no state on arrival: left out.      *)
(***************************************************************************)
EXTENDS Scenario, Integers, Sequences, FiniteSets
LOCAL INSTANCE SequencesExt

CONSTANTS
    Clients,
    Slots,              \* 0 .. max_clients - 1
    Features,           \* ids in the server's registry
    Known,              \* client -> features its registry has in that version
    Tickets,            \* the sets of features a ticket may allow
    MaxQueued,          \* bound: commands queued to a thread
    MaxSent             \* bound: messages under way to a client

ASSUME RealtimeBounds ==
    /\ Known \in [Clients -> SUBSET Features]
    /\ Tickets \subseteq SUBSET Features
    /\ MaxQueued \in Nat /\ MaxSent \in Nat

VARIABLES
    server,             \* off, up or stopping (running is false, the thread ticks)
    slots,              \* what each slot holds: a session or Free
    tickets,            \* client_auth_tickets: the features each slot's allows
    active,             \* active_features of each slot
    commands            \* commands of the server

VARIABLES
    lifecycle,          \* Idle, Connecting, Connected or Closed
    running,            \* running
    pc,                 \* where the client's thread is in its tick
    conn,               \* [transport, number, allowed, features]: GetClientState,
                        \* "none" after client.reset(); the number of the last
                        \* attempt, what its ticket allows, and active_features
    previous,           \* previous_state
    storing,            \* the lifecycle the thread is about to store
    queued,             \* commands of the client
    closing             \* where the script is in close: no, begun, stopped, closed

VARIABLES
    down, up            \* messages under way to and from each client

serverVars == <<server, slots, tickets, active, commands>>
scriptVars == <<lifecycle, running, queued, closing>>
threadVars == <<pc, conn, previous, storing>>
clientVars == <<scriptVars, threadVars>>
realtimeVars == <<serverVars, clientVars, down, up>>

Free == [client |-> "nobody", number |-> 0]
AllSlots == -1
Session(c) == [client |-> c, number |-> conn[c].number]
Holds(s, c) == slots[s] = Session(c)
Command(kind, slot, feature) == [kind |-> kind, slot |-> slot, feature |-> feature]
Message(kind, feature) == [kind |-> kind, feature |-> feature]

RealtimeInit ==
    /\ server = "off"
    /\ slots = [s \in Slots |-> Free]
    /\ tickets = [s \in Slots |-> {}]
    /\ active = [s \in Slots |-> {}]
    /\ commands = <<>>
    /\ lifecycle = [c \in Clients |-> "Idle"]
    /\ running = [c \in Clients |-> FALSE]
    /\ pc = [c \in Clients |-> "off"]
    /\ conn = [c \in Clients |->
            [transport |-> "down", number |-> 0, allowed |-> {}, features |-> {}]]
    /\ previous = [c \in Clients |-> "down"]
    /\ storing = [c \in Clients |-> "Idle"]
    /\ queued = [c \in Clients |-> <<>>]
    /\ closing = [c \in Clients |-> "no"]
    /\ down = [c \in Clients |-> <<>>]
    /\ up = [c \in Clients |-> <<>>]

----------------------------------------------------------------------------
(* The server's script.                                                    *)

ServerStart ==
    /\ server = "off"
    /\ server' = "up"
    /\ UNCHANGED <<slots, tickets, active, commands, clientVars, down, up>>

\* stop: the script waits for the thread, see ServerStopped.
ServerStop ==
    /\ server = "up"
    /\ server' = "stopping"
    /\ UNCHANGED <<slots, tickets, active, commands, clientVars, down, up>>

\* activate_feature, deactivate_feature, send_reliable and, with no slot,
\* broadcast_reliable.
ServerPost(kind, slot, feature) ==
    /\ server = "up"
    /\ Len(commands) < MaxQueued
    /\ commands' = Append(commands, Command(kind, slot, feature))
    /\ UNCHANGED <<server, slots, tickets, active, clientVars, down, up>>

----------------------------------------------------------------------------
(* The server's thread.  A tick looks at packets, commands and messages in *)
(* turn; nothing of it is seen from outside before the packets it sends,   *)
(* so that each is a step of its own here.                                 *)

\* on_client_connected, for the first free slot; a client's former session
\* keeps it out until the server has lost that one.
ServerAccepts(c, s) ==
    /\ server \in {"up", "stopping"}
    /\ conn[c].transport = "connecting"
    /\ slots[s] = Free
    /\ \A t \in Slots : t < s => slots[t] # Free
    /\ \A t \in Slots : slots[t] # Free => slots[t].client # c
    /\ slots' = [slots EXCEPT ![s] = Session(c)]
    /\ tickets' = [tickets EXCEPT ![s] = conn[c].allowed]
    /\ down' = [down EXCEPT ![c] =
            SetToSeq({Message("offer", f) : f \in conn[c].allowed})]
    /\ UNCHANGED <<server, active, commands, clientVars, up>>

\* Mutant: the features stay active for who gets the slot next.
LoseTickets(S) ==
    /\ slots' = [s \in Slots |-> IF s \in S THEN Free ELSE slots[s]]
    /\ tickets' = [s \in Slots |-> IF s \in S THEN {} ELSE tickets[s]]
    /\ UNCHANGED active

\* on_client_disconnected: a disconnect packet or a timeout.
Lose(S) ==
    /\ slots' = [s \in Slots |-> IF s \in S THEN Free ELSE slots[s]]
    /\ tickets' = [s \in Slots |-> IF s \in S THEN {} ELSE tickets[s]]
    /\ active' = [s \in Slots |-> IF s \in S THEN {} ELSE active[s]]

ServerLoses(s) ==
    /\ slots[s] # Free
    /\ Lose({s})
    /\ UNCHANGED <<server, commands, clientVars, down, up>>

\* Messages go to the session of a slot, and are lost if its client is in another.
SentTo(S, message) ==
    [c \in Clients |-> IF \E s \in S : Holds(s, c) THEN Append(down[c], message) ELSE down[c]]

Fits(S) == \A c \in Clients : (\E s \in S : Holds(s, c)) => Len(down[c]) < MaxSent

\* The slots a command concerns, of those it names: whoever has them now.
Concerns(command) ==
    {t \in Slots :
        /\ slots[t] # Free
        /\ command.slot \in {t, AllSlots}
        /\ IF command.kind = "activate" THEN command.feature \in tickets[t] \ active[t]
           ELSE command.feature \in active[t]}

\* process_commands, the next of them.
ServerCarriesOut ==
    LET command == Head(commands)
        f == command.feature
        S == Concerns(command)
    IN  /\ server \in {"up", "stopping"}
        /\ commands # <<>>
        /\ commands' = Tail(commands)
        /\ Fits(S)
        /\ active' = [t \in Slots |->
                CASE t \in S /\ command.kind = "activate" -> active[t] \cup {f}
                  [] t \in S /\ command.kind = "deactivate" -> active[t] \ {f}
                  [] OTHER -> active[t]]
        /\ down' = SentTo(S, Message(command.kind, f))
        /\ UNCHANGED <<server, slots, tickets, clientVars, up>>

\* process_messages: a payload is handed to the callback if its feature is
\* active for the slot, and dropped otherwise.
ServerReceives(s) ==
    /\ server \in {"up", "stopping"}
    /\ slots[s] # Free
    /\ LET c == slots[s].client
       IN  /\ Holds(s, c)
           /\ up[c] # <<>>
           /\ up' = [up EXCEPT ![c] = Tail(@)]
    /\ UNCHANGED <<serverVars, clientVars, down>>

\* The thread leaves its loop, server->Stop drops the clients, and stop goes on
\* after join.
ServerStopped ==
    /\ server = "stopping"
    /\ server' = "off"
    /\ Lose(Slots)
    /\ commands' = <<>>
    /\ UNCHANGED <<clientVars, down, up>>

----------------------------------------------------------------------------
(* A client's script.                                                      *)

Calls(c) == pc[c] # "crashed" /\ closing[c] \in {"no", "closed"}

Enqueue(c, kind, what) ==
    /\ Len(queued[c]) < MaxQueued
    /\ queued' = [queued EXCEPT ![c] = Append(@, [kind |-> kind, what |-> what])]

\* connect: the worker is started if it does not run.  On a client that close
\* has emptied, which is Idle if its thread stored that after close had begun,
\* the thread dies of a null pointer.
Connect(c, features, readable) ==
    /\ Calls(c)
    /\ lifecycle[c] = "Idle"
    /\ Enqueue(c, IF readable THEN "connect" ELSE "unreadable", features)
    /\ lifecycle' = [lifecycle EXCEPT ![c] = "Connecting"]
    /\ running' = [running EXCEPT ![c] = TRUE]
    /\ IF running[c] THEN UNCHANGED <<pc, previous>>
       ELSE /\ pc' = [pc EXCEPT ![c] = IF conn[c].transport = "none" THEN "crashed" ELSE "tick"]
            /\ previous' = [previous EXCEPT ![c] = conn[c].transport]
    /\ UNCHANGED <<serverVars, conn, storing, closing, down, up>>

Disconnect(c) ==
    /\ Calls(c)
    /\ lifecycle[c] \in {"Connecting", "Connected"}
    /\ running[c]
    /\ Enqueue(c, "disconnect", {})
    /\ UNCHANGED <<serverVars, lifecycle, running, closing, threadVars, down, up>>

\* send_reliable
Send(c, feature) ==
    /\ Calls(c)
    /\ lifecycle[c] # "Closed"
    /\ feature \in Known[c]
    /\ Enqueue(c, "payload", {feature})
    /\ UNCHANGED <<serverVars, lifecycle, running, closing, threadVars, down, up>>

\* close: the lifecycle, then running, then the join and what is left.
Close(c) ==
    /\ Calls(c)
    /\ lifecycle[c] # "Closed"
    /\ lifecycle' = [lifecycle EXCEPT ![c] = "Closed"]
    /\ closing' = [closing EXCEPT ![c] = "begun"]
    /\ UNCHANGED <<serverVars, running, queued, threadVars, down, up>>

CloseStops(c) ==
    /\ closing[c] = "begun"
    /\ pc[c] # "crashed"
    /\ closing' = [closing EXCEPT ![c] = "stopped"]
    /\ running' = [running EXCEPT ![c] = FALSE]
    /\ UNCHANGED <<serverVars, lifecycle, queued, threadVars, down, up>>

Closed(c) ==
    /\ closing[c] = "stopped"
    /\ pc[c] = "off"
    /\ closing' = [closing EXCEPT ![c] = "closed"]
    /\ queued' = [queued EXCEPT ![c] = <<>>]
    /\ conn' = [conn EXCEPT ![c].transport = "none", ![c].features = {}]
    /\ UNCHANGED <<serverVars, lifecycle, running, pc, previous, storing, down, up>>

----------------------------------------------------------------------------
(* A client's thread.  Its tick touches what it shares with the script at  *)
(* the beginning, when it takes the commands, and at the end, when it      *)
(* looks at lifecycle; the steps between commute with those of others.     *)

\* process_commands, one of them.  A payload for a feature that is active is
\* created on the transport, which asserts that it has a connection:
\* active_features outlives a disconnect of the same batch.
CarryOut(st, command) ==
    CASE st.transport = "crashed" -> st
      [] command.kind = "connect" ->
            [st EXCEPT !.transport = "connecting", !.number = @ + 1,
                       !.allowed = command.what, !.down = <<>>, !.up = <<>>]
      [] command.kind \in {"disconnect", "unreadable"} ->
            [st EXCEPT !.transport = "down", !.down = <<>>]
      [] command.kind = "payload" ->
            CASE ~(command.what \subseteq st.features) -> st
              [] st.transport = "connected" ->
                    [st EXCEPT !.up = Append(@, Message("payload", command.what))]
              [] OTHER -> [st EXCEPT !.transport = "crashed"]

\* AdvanceTime.  An attempt succeeds once the server has the session, or fails;
\* a connection ends when the server says so, or times out.
Becomes(c, st) ==
    LET held == \E s \in Slots : slots[s] = [client |-> c, number |-> st.number]
    IN  CASE st.transport = "connecting" ->
                {"connecting", "error"} \cup (IF held THEN {"connected"} ELSE {})
          [] st.transport = "connected" ->
                {"connected", "error"} \cup (IF held THEN {} ELSE {"down"})
          [] st.transport = "crashed" -> {}
          [] OTHER -> {st.transport}

\* process_messages, one of them.  An offer or activation of a feature that the
\* client does not have in that version ends the connection.
Receive(c, st, message) ==
    LET f == message.feature
    IN  CASE st.transport # "connected" -> st
          [] message.kind # "payload" /\ f \notin Known[c] ->
                [st EXCEPT !.transport = "down", !.features = {}]
          [] message.kind = "activate" -> [st EXCEPT !.features = @ \cup {f}]
          [] message.kind = "deactivate" -> [st EXCEPT !.features = @ \ {f}]
          [] OTHER -> st

\* Which change of state is acted upon, and the lifecycle it leads to.
Noticed(was, is) ==
    CASE is = was -> "none"
      [] is = "connected" -> "Connected"
      [] is \in {"down", "error"} /\ was = "connected" -> "Idle"
      [] is = "down" /\ was = "connecting" -> "Idle"
      [] is = "error" -> "Idle"
      [] OTHER -> "none"

Asked(c) ==
    LET st == [transport |-> conn[c].transport, number |-> conn[c].number,
               allowed |-> conn[c].allowed, features |-> conn[c].features,
               down |-> down[c], up |-> up[c]]
    IN  FoldLeft(CarryOut, st, queued[c])

\* A tick: commands, the transport, the first n messages, and the look at the
\* state, which finds lifecycle Closed or is about to store what follows.
ClientTicks(c, to, n) ==
    LET asked == Asked(c)
        here == IF to = "connected" THEN SubSeq(asked.down, 1, n) ELSE <<>>
        heard == FoldLeft(LAMBDA st, message : Receive(c, st, message),
                          [asked EXCEPT !.transport = to], here)
        noticed == Noticed(previous[c], heard.transport)
    IN  /\ pc[c] = "tick"
        /\ running[c]
        /\ conn' = [conn EXCEPT ![c] =
                [transport |-> heard.transport, number |-> heard.number,
                 allowed |-> heard.allowed,
                 features |-> IF noticed = "Idle" THEN {} ELSE heard.features]]
        /\ down' = [down EXCEPT ![c] =
                IF heard.transport = "connected" THEN SubSeq(asked.down, n + 1, Len(asked.down))
                ELSE IF heard.transport = "connecting" THEN asked.down ELSE <<>>]
        /\ up' = [up EXCEPT ![c] = asked.up]
        /\ queued' = [queued EXCEPT ![c] = <<>>]
        /\ previous' = [previous EXCEPT ![c] = heard.transport]
        /\ IF noticed # "none" /\ lifecycle[c] # "Closed"
           THEN /\ pc' = [pc EXCEPT ![c] = "store"]
                /\ storing' = [storing EXCEPT ![c] = noticed]
           ELSE UNCHANGED <<pc, storing>>
        /\ UNCHANGED <<serverVars, lifecycle, running, closing>>

ClientCrashes(c) ==
    /\ pc[c] = "tick"
    /\ running[c]
    /\ Asked(c).transport = "crashed"
    /\ pc' = [pc EXCEPT ![c] = "crashed"]
    /\ conn' = [conn EXCEPT ![c].transport = "down"]
    /\ UNCHANGED <<serverVars, scriptVars, previous, storing, down, up>>

ClientStores(c) ==
    /\ pc[c] = "store"
    /\ pc' = [pc EXCEPT ![c] = "tick"]
    /\ lifecycle' = [lifecycle EXCEPT ![c] = storing[c]]
    /\ UNCHANGED <<serverVars, running, queued, closing, conn, previous, storing, down, up>>

ClientLeaves(c) ==
    /\ pc[c] = "tick"
    /\ ~running[c]
    /\ pc' = [pc EXCEPT ![c] = "off"]
    /\ conn' = [conn EXCEPT ![c].transport = "down"]
    /\ lifecycle' = [lifecycle EXCEPT ![c] = IF @ = "Closed" THEN @ ELSE "Idle"]
    /\ down' = [down EXCEPT ![c] = <<>>]
    /\ UNCHANGED <<serverVars, running, queued, closing, previous, storing, up>>

----------------------------------------------------------------------------
ClientTick(c) ==
    \/ \E to \in Becomes(c, Asked(c)) :
            \E n \in 0..(IF to = "connected" THEN Len(Asked(c).down) ELSE 0) :
                ClientTicks(c, to, n)
    \/ ClientCrashes(c) \/ ClientStores(c) \/ ClientLeaves(c)

ServerTick ==
    \/ \E s \in Slots : (\E c \in Clients : ServerAccepts(c, s)) \/ ServerLoses(s)
                            \/ ServerReceives(s)
    \/ ServerCarriesOut
    \/ ServerStopped

RealtimeScript ==
    \/ Spend("start") /\ ServerStart
    \/ Spend("stop") /\ ServerStop
    \/ /\ Spend("control")
       /\ \E kind \in {"activate", "deactivate"}, s \in Slots, f \in Features :
                ServerPost(kind, s, f)
    \/ /\ Spend("post")
       /\ \E s \in Slots \cup {AllSlots}, f \in Features : ServerPost("payload", s, f)
    \/ \E c \in Clients :
        \/ Spend("connect") /\ \E features \in Tickets : Connect(c, features, TRUE)
        \/ Spend("unreadable") /\ Connect(c, {}, FALSE)
        \/ Spend("disconnect") /\ Disconnect(c)
        \/ Spend("send") /\ \E f \in Features : Send(c, f)
        \/ Spend("close") /\ Close(c)

RealtimeTick ==
    /\ \/ ServerTick
       \/ \E c \in Clients : ClientTick(c) \/ CloseStops(c) \/ Closed(c)
    /\ UNCHANGED left

RealtimeNext == RealtimeScript \/ RealtimeTick

----------------------------------------------------------------------------
(* Properties.                                                             *)

\* The features active at a client after it has received these messages.
After(features, messages) ==
    FoldLeft(LAMBDA fs, message :
                CASE message.kind = "activate" -> fs \cup {message.feature}
                  [] message.kind = "deactivate" -> fs \ {message.feature}
                  [] OTHER -> fs,
             features, messages)

\* While a connection lasts on both sides, the client's active features are
\* those of its slot once it has received what is under way, and each payload
\* finds its feature active when it arrives: whoever had the slot before, and
\* whatever the client's former sessions left behind (active_features of both).
ViewsAgree ==
    \A s \in Slots, c \in Clients :
        Holds(s, c) /\ conn[c].transport \in {"connecting", "connected"} =>
            /\ After(conn[c].features, down[c]) = active[s]
            /\ \A i \in DOMAIN down[c] :
                  down[c][i].kind = "payload" =>
                      down[c][i].feature \in After(conn[c].features, SubSeq(down[c], 1, i - 1))

\* A feature is active for a client only if the ticket of its present session
\* allows it, and the client has it: on the server, however late the command
\* that asked for it is carried out and whoever has the slot by then, and at
\* the client.
ActiveIsAllowed ==
    /\ \A s \in Slots, c \in Clients : Holds(s, c) => active[s] \subseteq conn[c].allowed
    /\ \A s \in Slots : slots[s] = Free => active[s] = {}
    /\ \A c \in Clients : conn[c].features \subseteq conn[c].allowed \cap Known[c]

\* Between ticks, and with no close under way, what scripts are told of a
\* connection is what it is; only an attempt of which no tick has seen anything
\* stays Connecting with no transport (Noticed, the check and the store of
\* lifecycle, and the scripts' exchange of it).
LifecycleIsTrue ==
    \A c \in Clients :
        pc[c] = "tick" /\ closing[c] = "no" =>
            /\ (lifecycle[c] = "Connected") <=> (conn[c].transport = "connected")
            /\ conn[c].transport = "connecting" => lifecycle[c] = "Connecting"
            /\ conn[c].transport \in {"down", "error"} => conn[c].features = {}

\* Both ends agree on what is active, it is allowed, and scripts are told the
\* truth about the connection.
RealtimeAgrees == ViewsAgree /\ ActiveIsAllowed /\ LifecycleIsTrue
=============================================================================
