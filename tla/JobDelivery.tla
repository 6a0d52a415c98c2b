----------------------------- MODULE JobDelivery -----------------------------
(***************************************************************************)
(* What the worker pool promises its callers, without threads, queues or   *)
(* conditions: ids are given out in order, and each job goes through       *)
(*    unborn -> accepted -> finished -> delivered                          *)
(* at most once and never backwards.  Jobs may finish in any order, and    *)
(* one poll may deliver several results.  JobSystem implements this.       *)
(***************************************************************************)
EXTENDS Integers

CONSTANT MaxJobs       \* bound: how many jobs are submitted

VARIABLE phase         \* the phase of each job

Ids == 1..MaxJobs

Init == phase = [i \in Ids |-> "unborn"]

\* submit: the smallest id not given out.  A kind nobody handles is answered
\* at once.
Accept(i) ==
    /\ phase[i] = "unborn"
    /\ \A j \in Ids : phase[j] = "unborn" => i <= j
    /\ \E p \in {"accepted", "finished"} : phase' = [phase EXCEPT ![i] = p]

\* A worker answers a job.
Finish(i) ==
    /\ phase[i] = "accepted"
    /\ phase' = [phase EXCEPT ![i] = "finished"]

\* A poll hands some results to its caller.
Deliver(S) ==
    /\ \A i \in S : phase[i] = "finished"
    /\ phase' = [i \in Ids |-> IF i \in S THEN "delivered" ELSE phase[i]]

Next ==
    \/ \E i \in Ids : Accept(i) \/ Finish(i)
    \/ \E S \in SUBSET Ids : Deliver(S)

Spec == Init /\ [][Next]_phase
=============================================================================
