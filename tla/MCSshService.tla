----------------------------- MODULE MCSshService -----------------------------
(***************************************************************************)
(* An instance of SshService for TLC.  One operation at a time and alone   *)
(* may have sessions and children; a second operation or a second worker   *)
(* comes where there are none, and at most one event is news.              *)
(***************************************************************************)
EXTENDS SshService

\* Operations given out, and one that the main thread is about to begin.
Begun == nextOp - 1 + (IF mainPc \in {"known", "unknown"} THEN 1 ELSE 0)

Within ==
    Begun > 1 \/ (\E i \in OpIds : workers[i] > 1) =>
        /\ nextSession = 1 /\ \A t \in ChildTypes : nextChild[t] = 1
        /\ Cardinality(News) <= 1

BoundedSpec == Init /\ [][Next /\ Within']_vars /\ Fairness
=============================================================================
