----------------------------- MODULE MCAccounts -----------------------------
(* Sessions, TicketDesk and Tickets side by side: every behaviour is a     *)
(* behaviour of one of them.                                               *)
EXTENDS Sessions, TicketDesk, TLC

CONSTANT KEEP
VARIABLES part, clock, row, call, entries

rowVars == <<clock, row, call, entries>>

\* One tick to answer and two to resolve, in a schedule that is always open.
MCResponseTarget == [p \in {"HIGH", "URGENT"} |-> 1]
MCResolutionTarget == [p \in {"HIGH", "URGENT"} |-> 2]

\* Handlers that interleave freely on two tickets, whose ids are the keys of
\* the other tables.
Racing == INSTANCE Tickets WITH
  now <- clock, ticket <- row, request <- call, history <- entries,
  Tickets <- SessionIds, Requests <- Handlers,
  Operations <- {"update", "reopen", "comment", "merge"},
  Statuses <- {"OPEN", "RESOLVED", "CLOSED"},
  Priorities <- {"HIGH"}, Ruled <- {"HIGH"},
  Serial <- FALSE, MaxNow <- 1, Ratings <- {1},
  ResponseTarget <- MCResponseTarget, ResolutionTarget <- MCResolutionTarget,
  AddBusinessMinutes <- LAMBDA from, minutes : from + minutes

\* The parts that do not move rest in one state, the rows in their tables'.
SumInit ==
  /\ part \in {"sessions", "desk", "racing"}
  /\ Init /\ TicketDeskInit
  /\ part # "sessions" => status = "ACTIVE"
  /\ part # "desk" => ticket[Old].assignee = NULL /\ ticket[Old].watchers = {}
  /\ Racing!Init

SumNext ==
  \/ /\ part = "sessions" /\ Next
     /\ UNCHANGED <<part, ticketDeskVars, rowVars>>
  \/ /\ part = "desk" /\ TicketDeskNext
     /\ UNCHANGED <<part, vars, rowVars>>
  \/ /\ part = "racing" /\ Racing!Next
     /\ UNCHANGED <<part, vars, ticketDeskVars>>

SumSpec == SumInit /\ [][SumNext]_<<part, vars, ticketDeskVars, rowVars>>

\* What a ticket's row says of how it was finished and reopened is the truth,
\* whichever handlers raced to change its status: as Tickets has it.
LifecycleIsRecorded == part = "racing" => Racing!LifecycleIsRecorded

\* No session, request or ticket is the first one.
Symmetric == Permutations(SessionIds)

=============================================================================
