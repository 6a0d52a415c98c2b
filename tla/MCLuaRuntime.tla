----------------------------- MODULE MCLuaRuntime ----------------------------
(***************************************************************************)
(* Instances of LuaRuntime for TLC: one scenario for each service, and     *)
(* some in which two meet on the main thread.                              *)
(***************************************************************************)
EXTENDS LuaRuntime

CallSorts ==
    {"register", "unregister", "enqueue", "nest", "stream", "callback", "plain",
     "cancel", "http_poll", "job", "jobs_poll", "operation", "ssh_poll", "spawn",
     "read", "wait", "process_poll", "set", "start", "close",
     "file", "bytes", "cubemap", "audio", "texture", "shutdown"}

NoCalls == [sort \in CallSorts |-> 0]

ScriptsOnly ==
    [NoCalls EXCEPT !["register"] = 2, !["unregister"] = 1, !["enqueue"] = 3, !["nest"] = 2]
Http ==
    [NoCalls EXCEPT !["stream"] = 1, !["callback"] = 1, !["plain"] = 1, !["cancel"] = 1,
                    !["http_poll"] = 2, !["shutdown"] = 1]
NestedHttp ==
    [NoCalls EXCEPT !["stream"] = 1, !["callback"] = 1, !["nest"] = 1, !["http_poll"] = 1]
JobsScenario ==
    [NoCalls EXCEPT !["job"] = 3, !["jobs_poll"] = 2, !["nest"] = 1, !["shutdown"] = 1]
Ssh ==
    [NoCalls EXCEPT !["operation"] = 2, !["ssh_poll"] = 2, !["nest"] = 2, !["shutdown"] = 1]
Children ==
    [NoCalls EXCEPT !["spawn"] = 2, !["read"] = 1, !["wait"] = 1, !["process_poll"] = 1,
                    !["nest"] = 1, !["shutdown"] = 1]
Realtime ==
    [NoCalls EXCEPT !["set"] = 3, !["start"] = 1, !["close"] = 1, !["nest"] = 2]

SameTexture == [NoCalls EXCEPT !["bytes"] = 2, !["texture"] = 1, !["shutdown"] = 1]
ThreeImages == [NoCalls EXCEPT !["bytes"] = 3]
FilesAndBytes == [NoCalls EXCEPT !["bytes"] = 1, !["file"] = 1, !["texture"] = 1]
Cubemaps == [NoCalls EXCEPT !["cubemap"] = 2, !["texture"] = 1]
Sounds == [NoCalls EXCEPT !["audio"] = 1, !["bytes"] = 1, !["shutdown"] = 1]

\* A stream, a child with a callback, and process.poll.
Promising ==
    {[NoCalls EXCEPT !["stream"] = 1, !["spawn"] = 1, !["process_poll"] = 1]}

Scenarios ==
    {ScriptsOnly, Http, NestedHttp, JobsScenario, Ssh, Children, Realtime, SameTexture,
     ThreeImages, FilesAndBytes, Cubemaps, Sounds}
=============================================================================
