------------------------------ MODULE LuaRuntime -----------------------------
(***************************************************************************)
(* The main thread of the engine with the services that call back into     *)
(* Lua.  Each frame (the loop of Engine::run, and callbacks.run-loop)      *)
(* dispatches what the services' threads have finished and then what is    *)
(* queued; the scripts it calls use the same services and may run such a   *)
(* loop themselves.  Engine::shutdown takes the services down.             *)
(***************************************************************************)
EXTENDS LuaHttp, LuaJobs, LuaSsh, LuaProcess, LuaRealtime, LuaTextures

CONSTANTS
    Sorts,              \* the sorts of calls a script makes
    Budgets             \* bound: how often it makes each, one function a scenario

ASSUME RuntimeBounds == Budgets \subseteq [Sorts -> Nat] /\ "enqueue" \in Sorts

VARIABLES
    left,               \* the calls the script still makes
    up                  \* the engine has not begun to shut down

vars == <<cbVars, hcVars, lhVars, ljVars, lsVars, lpVars, lrVars, ltVars, left, up>>

Init ==
    /\ CbInit /\ HcInit /\ LhInit /\ LjInit /\ LsInit /\ LpInit /\ LrInit /\ LtInit
    /\ left \in Budgets
    /\ up = TRUE

Spend(sort) == left[sort] > 0 /\ left' = [left EXCEPT ![sort] = @ - 1]

HttpOnly == UNCHANGED <<ljVars, lsVars, lpVars, lrVars, ltVars, up>>
JobsOnly == UNCHANGED <<hcVars, lhVars, lsVars, lpVars, lrVars, ltVars, up>>
SshOnly == UNCHANGED <<hcVars, lhVars, ljVars, lpVars, lrVars, ltVars, up>>
ProcessOnly == UNCHANGED <<hcVars, lhVars, ljVars, lsVars, lrVars, ltVars, up>>
RealtimeOnly == UNCHANGED <<hcVars, lhVars, ljVars, lsVars, lpVars, ltVars, up>>
CallbacksOnly == UNCHANGED <<hcVars, lhVars, ljVars, lsVars, lpVars, lrVars, ltVars, up>>
TexturesOnly == UNCHANGED <<hcVars, lhVars, ljVars, lsVars, lpVars, lrVars, up>>

\* The frame dispatches when the main thread is out of every callback; a
\* callback does so with a loop of its own.
Dispatching ==
    \/ stack = <<>> /\ UNCHANGED left
    \/ stack # <<>> /\ Spend("nest")

\* What a script calls.
Script ==
    /\ up
    /\ \/ Spend("register") /\ ScriptRegister /\ CallbacksOnly
       \/ Spend("unregister") /\ (\E cb \in own : ScriptUnregister(cb)) /\ CallbacksOnly
       \/ /\ Spend("enqueue")
          /\ \E cb \in own : ScriptEnqueue(cb, Event("script", 0, "call", 9 - left["enqueue"]))
          /\ CallbacksOnly
       \/ \E kind \in {"stream", "callback", "plain"} :
            Spend(kind) /\ HttpRequest(kind) /\ HttpOnly
       \/ Spend("cancel") /\ (\E id \in 1..(http_next - 1) : HttpCancelCall(id)) /\ HttpOnly
       \/ Spend("http_poll") /\ (\E max \in {0, 1} : HttpPollCall(max)) /\ HttpOnly
       \/ Spend("job") /\ (\E with \in BOOLEAN : JobSubmit(with)) /\ JobsOnly
       \/ Spend("jobs_poll") /\ (\E max \in {0, 1} : JobsPollCall(max)) /\ JobsOnly
       \/ Spend("operation") /\ (\E with \in BOOLEAN : SshStart(with)) /\ SshOnly
       \/ Spend("ssh_poll") /\ (\E max \in {0, 1} : SshPollCall(max)) /\ SshOnly
       \/ Spend("spawn") /\ (\E with, timed \in BOOLEAN : ProcessSpawn(with, timed)) /\ ProcessOnly
       \/ Spend("set") /\ (\E name \in Names : RtSet(name)) /\ RealtimeOnly
       \/ Spend("start") /\ RtStart /\ RealtimeOnly
       \/ Spend("close") /\ (\E dispatch \in BOOLEAN : RtClose(dispatch)) /\ RealtimeOnly
       \/ /\ \E kind \in Kinds, name \in TextureNames, with \in BOOLEAN :
                Spend(kind) /\ LoadAsync(kind, name, with)
          /\ TexturesOnly
       \/ Spend("texture") /\ (\E name \in TextureNames : ChangeTexture(name)) /\ TexturesOnly
       \/ Spend("texture") /\ (\E id \in Loads : ChangeCubemap(id)) /\ TexturesOnly

\* Calls of the process module, whose timeouts depend on when they are made.
ScriptWithChildren ==
    /\ up
    /\ \E late \in SUBSET Processes :
        \/ Spend("read") /\ (\E id \in Processes : ProcessRead(id, late))
        \/ Spend("wait") /\ (\E id \in Processes : ProcessWait(id, late))
        \/ /\ Spend("process_poll")
           /\ \E max \in {0, 1}, gone \in SUBSET Processes : ProcessPollCall(max, late, gone)
    /\ ProcessOnly

\* One step of what a frame, or a callback's own loop, does.
Frames ==
    /\ up
    /\ LuaRuns
    /\ Dispatching
    /\ \/ HttpDispatch /\ HttpOnly
       \/ JobsDispatch /\ JobsOnly
       \/ SshDispatch /\ SshOnly
       \/ /\ \E late \in SUBSET Processes :
                \E order \in UNION {[1..n -> Processes] : n \in 0..MaxProcesses} :
                    ProcessDispatch(late, order)
          /\ ProcessOnly
       \/ (\E max \in {0, 1} : ScriptDispatch(max)) /\ CallbacksOnly
       \/ ResourcesFrame /\ TexturesOnly

\* The main thread goes on with what it has begun.
Continue ==
    /\ UNCHANGED left
    /\ \/ (CallNext \/ EndDispatch) /\ CallbacksOnly
       \/ (SshHandle \/ SshHandled \/ SshDispatched) /\ SshOnly
       \/ (RtJoined \/ RtDrain \/ RtClosed) /\ RealtimeOnly

\* The threads of the services, and the world.
Threads ==
    /\ UNCHANGED left
    /\ \/ /\ \E t \in HttpThreads :
                \/ HttpStreamChunk(t)
                \/ /\ \/ HttpTake(t) \/ HttpForget(t) \/ HttpExit(t)
                      \/ \E result \in {"ok", "error"} : HttpAnswer(t, result)
                   /\ UNCHANGED <<cbVars, lhVars>>
          /\ HttpOnly
       \/ (\E id \in Jobs : JobFinish(id)) /\ JobsOnly
       \/ (\E op \in Ops, last \in BOOLEAN : SshEmit(op, last)) /\ SshOnly
       \/ (\E id \in Processes : ChildExit(id)) /\ ProcessOnly
       \/ (\E id \in Loads, ok \in BOOLEAN : LoadFinish(id, ok)) /\ TexturesOnly
       \/ ((\E name \in Names : RtTell(name)) \/ RtPost \/ RtExit) /\ RealtimeOnly

\* Engine::shutdown, out of every callback: the bindings forget their callbacks
\* and then all callbacks are gone.
EngineShutdown ==
    /\ up
    /\ stack = <<>>
    /\ Spend("shutdown")
    /\ up' = FALSE
    /\ JobsClear
    /\ ProcessDrop
    /\ SshDrop
    /\ CallbacksShutdown
    /\ ResourcesClear
    /\ UNCHANGED <<hcVars, lhVars, phase, job_results, job_polled, ssh_next, emitted,
                   ended, ssh_polled, op_callback, proc_next, proc_callback, proc_given,
                   lrVars, loads, load_failed>>

\* The runtime is destroyed after it: the HTTP client is shut down, its
\* callbacks are dropped, and Lua collects the handle of the server.
RuntimeEnds ==
    /\ ~up
    /\ UNCHANGED left
    /\ \/ HttpStop /\ UNCHANGED <<cbVars, lhVars>> /\ HttpOnly
       \/ HttpDrop /\ HttpOnly
       \/ stack = <<>> /\ RtClose(FALSE) /\ RealtimeOnly

Next ==
    \/ Script
    \/ ScriptWithChildren
    \/ Frames
    \/ Continue
    \/ Threads
    \/ EngineShutdown
    \/ RuntimeEnds

Spec == Init /\ [][Next]_vars

----------------------------------------------------------------------------
\* Until the shutdown each response of HTTP, result of a job, event of an SSH
\* operation and load, and each result of a child that was spawned without a
\* callback, is at one place of its service, on its way to the script or with it:
\* no poll, dispatch, nested loop, cancellation or second load of a texture loses or
\* repeats one.  The result of a child that has a callback is not repeated, but
\* process.poll may drop it; the chunks and the end of a stream are no responses.
\* SomePromiseKept has these two.
AnsweredOnce ==
    up => /\ HttpAnsweredOnce
          /\ JobsAnsweredOnce
          /\ SshToldOnce
          /\ SshCallbacksAgree
          /\ ProcessAnsweredOnce
          /\ LoadsAnsweredOnce
          /\ UploadsHaveEntries

\* What the services keep on the side agrees with what they hold: cancel flags
\* with the requests under way, the table of processes with the children, so
\* that cancel and kill reach what they name and nothing else.
TablesAgree == FlagsFollowRequests /\ ReapedOnce

\* The documents promise the end of a stream and the result of a child to their
\* callbacks (StreamIsTold, CallbackIsTold): one of them at least.  Not so:
\* lua_http.cpp:184 unregisters a stream's callback before its { :done true } is
\* delivered, and lua_process.cpp:886 erases a child with its callback; one script
\* meets both.
SomePromiseKept == up => StreamIsTold \/ CallbackIsTold
=============================================================================
