------------------------------- MODULE MCTabs -------------------------------
(* Small instances of Presence for TLC. *)
EXTENDS Presence, TLC

CONSTANTS t1, t2, ann, bob

\* Two users with a tab each.
MCUserOf == (t1 :> ann) @@ (t2 :> bob)

\* The users and their tabs are alike, but change places together.
Swap == (t1 :> t2) @@ (t2 :> t1) @@ (ann :> bob) @@ (bob :> ann)

=============================================================================
