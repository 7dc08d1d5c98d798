----------------------------- MODULE MCSessions -----------------------------
(* Small instances of Sessions for TLC. *)
EXTENDS Sessions, TLC

Symmetric == Permutations(SessionIds) \cup Permutations(Handlers)

=============================================================================
