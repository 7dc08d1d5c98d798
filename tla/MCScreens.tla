----------------------------- MODULE MCScreens -----------------------------
(* Tickets and Screens side by side: they share no variable, and every     *)
(* behaviour is a behaviour of one of them.                                *)
EXTENDS MCTickets, Screens

VARIABLE part

\* The part that does not move rests in an initial state.
SumInit ==
  /\ part \in {"tickets", "screens"} /\ Init /\ ScreensInit
  /\ part = "tickets" => /\ role = "ADMIN" /\ query = "me"
                         /\ own = NULL /\ other = NULL

SumNext ==
  \/ part = "tickets" /\ Next /\ UNCHANGED <<part, screenVars>>
  \/ part = "screens" /\ ScreensNext /\ UNCHANGED <<part, vars>>

SumSpec == SumInit /\ [][SumNext]_<<part, vars, screenVars>>

=============================================================================
