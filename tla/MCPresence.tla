----------------------------- MODULE MCPresence -----------------------------
(* Presence and Team side by side: they share no variable, and every       *)
(* behaviour is a behaviour of one of them.                                *)
EXTENDS MCTabs, Team

CONSTANTS ada, mia, joe
VARIABLE part

\* The demo organization's administrator and manager; joe is new.
MCSeeded == (ada :> "ADMIN") @@ (mia :> "MANAGER") @@ (joe :> NULL)

\* The part that does not move rests in one state.
SumInit ==
  /\ part \in {"presence", "team"} /\ Init /\ TeamInit
  /\ part = "presence" => ~calm /\ \A e \in Emails : ~Exists(e)

SumNext ==
  \/ part = "presence" /\ Next /\ UNCHANGED <<part, teamVars>>
  \/ part = "team" /\ TeamNext /\ UNCHANGED <<part, vars>>

SumSpec == SumInit /\ [][SumNext]_<<part, vars, teamVars>>

\* The keys of Team's tables serve as the requests of Presence.
Symmetric == Permutations(Sockets) \cup Permutations(Gets) \cup {Swap}

=============================================================================
