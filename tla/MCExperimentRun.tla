-------------------------- MODULE MCExperimentRun ---------------------------
(* Instances of the constants of ExperimentRun for TLC. *)
EXTENDS ExperimentRunProofs, TLC

CONSTANTS r1, r2, r3, q1, p1, p2

\* r1 and r2 are calls of one process; r3 and the packaging request belong to another.
HomeOf == [c \in Calls |-> IF c \in {r1, r2} THEN p1 ELSE p2]

\* Two calls of one process that are made alike.
ThreadsAlike == Permutations({r1, r2})
=============================================================================
