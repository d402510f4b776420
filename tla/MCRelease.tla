----------------------------- MODULE MCRelease -----------------------------
(* Instances of the constants of Release for TLC. *)
EXTENDS Release, TLC

CONSTANTS c, v, a, d, p, q, good, loose, smoke, model1, model2

\* A production build with all its evidence.
Full == [profile |-> "production", trained |-> TRUE, checkpoint |-> TRUE, exported |-> TRUE,
         onnxSource |-> "external_command", evaluated |-> TRUE, metricsSource |-> "measured",
         thresholds |-> "met", examples |-> TRUE, limitations |-> "real", manifests |-> TRUE,
         experiment |-> TRUE, revision |-> TRUE, datasets |-> TRUE,
         shape |-> TRUE, layout |-> TRUE, dtype |-> TRUE, batch |-> TRUE,
         configured |-> "one", input |-> "one"]

\* One without a code revision, and one of a smoke test.
ThreeReports ==
    good :> Full
    @@ loose :> [Full EXCEPT !.revision = FALSE]
    @@ smoke :> [Full EXCEPT !.profile = "smoke", !.trained = FALSE, !.checkpoint = FALSE,
                             !.onnxSource = "synthetic", !.metricsSource = "placeholder",
                             !.thresholds = "none", !.limitations = "none"]

\* The smoke build looks like the good one to the cache.
Signatures == good :> 1 @@ loose :> 2 @@ smoke :> 1

\* The packagings run in a worker, registrations in the service.
Homes == c :> p @@ v :> q
=============================================================================
