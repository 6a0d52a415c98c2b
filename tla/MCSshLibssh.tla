----------------------------- MODULE MCSshLibssh ------------------------------
(***************************************************************************)
(* Instances of SshLibssh for TLC: the clients, by how often each of them  *)
(* makes each call.                                                        *)
(***************************************************************************)
EXTENDS SshLibssh

NoCalls == [t \in Sorts |-> 0]
Untimed(calls) == {[calls |-> calls, timed |-> FALSE]}

SafetyClients ==
    {[calls |-> [NoCalls EXCEPT !.connect = 1, !.resolve = 2], timed |-> TRUE],
     [calls |-> [NoCalls EXCEPT !.connect = 1, !.exec = 1], timed |-> TRUE]}
    \cup Untimed([NoCalls EXCEPT !.connect = 1, !.open = 1, !.write = 1,
                                 !.close_session = 1, !.cancel = 1])
    \cup Untimed([NoCalls EXCEPT !.connect = 1, !.open = 1, !.write = 1, !.resize = 1,
                                 !.close = 1, !.close_session = 1])
LiveClients ==
    Untimed([NoCalls EXCEPT !.connect = 1, !.open = 1, !.close = 1,
                            !.close_session = 1, !.shutdown = 1])
ClosingClients ==
    Untimed([NoCalls EXCEPT !.connect = 1, !.open = 2, !.close_session = 1, !.shutdown = 1])

\* Nothing fails and the remote end closes both shells itself; the client opens the
\* second when it has the first, closes the session when the second's thread runs,
\* and shuts down once the other two promises are broken.
Late ==
    /\ (\A k \in 1..Len(log) : log[k].kind # "OperationError") /\ stopped = {}
    /\ client.made["open"] > 1 => operations = {} \/ nextOp > 3
    /\ client.made["close_session"] > 0 => \A c \in S!Children : reader[c] # "none"
    /\ shutdown => ~(RemoteCloseInvalidates \/ SessionCloseInvalidates)
ClosingSpec == Init /\ [][Next /\ Late']_vars
=============================================================================
