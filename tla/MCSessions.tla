----------------------------- MODULE MCSessions -----------------------------
(* Instances of the constants of Sessions for TLC. *)
EXTENDS Sessions, TLC

CONSTANTS a, b, c1, c2, o1, o2, admin, host

OneHost == [c \in Clients |-> host]
Alike == Permutations({c1, c2}) \cup Permutations({o1, o2})
=============================================================================
