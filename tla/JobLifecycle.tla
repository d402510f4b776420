---------------------------- MODULE JobLifecycle ----------------------------
(***************************************************************************)
(* What the table pipeline_jobs promises of one job, whoever writes the    *)
(* rows: the states of a job and the moves between them.  PipelineJobs     *)
(* with one instance implements it.                                        *)
(***************************************************************************)
CONSTANT JobIds

VARIABLES status, requested

Terminal == {"completed", "failed", "cancelled"}
Executing == {"running", "cancellation_requested"}

Init ==
    /\ status = [j \in JobIds |-> "absent"]
    /\ requested = [j \in JobIds |-> FALSE]

Move(j, from, to) ==
    /\ status[j] = from
    /\ status' = [status EXCEPT ![j] = to]

Enqueue(j) == Move(j, "absent", "queued") /\ UNCHANGED requested

Claim(j) == Move(j, "queued", "running") /\ UNCHANGED requested

\* A queued job is cancelled at once, a running one is asked to stop.
RequestCancel(j) ==
    /\ Move(j, "queued", "cancelled") \/ Move(j, "running", "cancellation_requested")
    /\ requested' = [requested EXCEPT ![j] = TRUE]

\* The executor ends the job: it fails one it cannot claim, and reports cancelled only
\* when it was asked to stop.
Settle(j) ==
    /\ \/ Move(j, "queued", "failed")
       \/ \E s \in Terminal \ {"cancelled"} : Move(j, "running", s)
       \/ \E s \in Terminal : Move(j, "cancellation_requested", s)
    /\ UNCHANGED requested

\* A restart fails a set of interrupted jobs at once.
Recover ==
    /\ \E S \in SUBSET {j \in JobIds : status[j] \in Executing} :
         status' = [j \in JobIds |-> IF j \in S THEN "failed" ELSE status[j]]
    /\ UNCHANGED requested

Next ==
    \/ \E j \in JobIds : Enqueue(j) \/ Claim(j) \/ RequestCancel(j) \/ Settle(j)
    \/ Recover

Spec == Init /\ [][Next]_<<status, requested>>
=============================================================================
