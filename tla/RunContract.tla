----------------------------- MODULE RunContract ----------------------------
(***************************************************************************)
(* What run_experiment_pipeline promises its callers: runs of an           *)
(* experiment exclude each other, a run that has heard of its cancellation *)
(* does not complete, and one that has not does not end as cancelled.      *)
(* PipelineJobs assumes this of a pipeline; ExperimentRun implements it.   *)
(***************************************************************************)
CONSTANT Runs

VARIABLES
    phase,    \* waiting for the lock, running, leaving (others may enter), ended
    verdict,  \* what a leaving or ended run returns
    asked,    \* the runs that are to be cancelled
    heard     \* the runs that know

Init ==
    /\ phase = [r \in Runs |-> "waiting"]
    /\ verdict = [r \in Runs |-> "none"]
    /\ asked = {}
    /\ heard = {}

Ask(r) == asked' = asked \cup {r} /\ UNCHANGED <<phase, verdict, heard>>

Hear(r) == r \in asked /\ heard' = heard \cup {r} /\ UNCHANGED <<phase, verdict, asked>>

Enter(r) ==
    /\ phase[r] = "waiting"
    /\ \A s \in Runs : phase[s] # "running"
    /\ phase' = [phase EXCEPT ![r] = "running"]
    /\ UNCHANGED <<verdict, asked, heard>>

End(r, from, to, value) ==
    /\ phase[r] = from
    /\ phase' = [phase EXCEPT ![r] = to]
    /\ verdict' = [verdict EXCEPT ![r] = value]
    /\ UNCHANGED <<asked, heard>>

Refuse(r) ==
    \E v \in {"refused", "raised"}, to \in {"leaving", "ended"} : End(r, "waiting", to, v)

Finish(r) ==
    \E v \in {"completed", "failed", "cancelled", "raised"} :
        /\ v = "completed" => r \notin heard
        /\ v = "cancelled" => r \in heard
        /\ End(r, "running", "leaving", v)

Return(r) == End(r, "leaving", "ended", verdict[r])

\* The processes of some runs die.
Die ==
    \E D \in SUBSET {r \in Runs : phase[r] # "ended"} :
        /\ phase' = [r \in Runs |-> IF r \in D THEN "ended" ELSE phase[r]]
        /\ verdict' = [r \in Runs |-> IF r \in D THEN "lost" ELSE verdict[r]]
        /\ UNCHANGED <<asked, heard>>

Next ==
    \/ \E r \in Runs : Ask(r) \/ Hear(r) \/ Enter(r) \/ Refuse(r) \/ Finish(r)
                       \/ Return(r)
    \/ Die

Spec == Init /\ [][Next]_<<phase, verdict, asked, heard>>
=============================================================================
