------------------------------ MODULE MCJobLog ------------------------------
(* Instances of the constants of JobLog for TLC. *)
EXTENDS JobLog, TLC

CONSTANTS out, err

\* Two stages; the second runs no command of its own.
OneCommand == {<<1, out>>, <<1, err>>}
=============================================================================
