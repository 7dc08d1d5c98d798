----------------------------- MODULE MCDueDates -----------------------------
(* BusinessHours, Outbox, ApiClient and Rooms side by side: they share no  *)
(* variable, and every behaviour is a behaviour of one of them.            *)
EXTENDS MCBusinessHours, MCOutbox, Clients

VARIABLE part

\* The parts that do not move rest in an initial state.
SumInit ==
  /\ part \in {"hours", "outbox", "client", "rooms"}
  /\ Init /\ OutboxInit /\ ApiInit /\ RoomsInit
  /\ part # "hours" => /\ slots = {} /\ holidays = {}
                       /\ start = 0 /\ minutesToAdd = 0
  /\ part # "outbox" => \A w \in Webhooks : since[w] = NULL
  /\ part # "client" => ~steady

Walk ==
  part = "hours" /\ Next /\ UNCHANGED <<part, outboxVars, apiVars, roomsVars>>
Hear ==
  part = "outbox" /\ OutboxNext /\ UNCHANGED <<part, vars, apiVars, roomsVars>>
Ask ==
  part = "client" /\ ApiNext /\ UNCHANGED <<part, vars, outboxVars, roomsVars>>
Meet ==
  part = "rooms" /\ RoomsNext /\ UNCHANGED <<part, vars, outboxVars, apiVars>>

SumNext == Walk \/ Hear \/ Ask \/ Meet

\* Each part is as fair as it is on its own.
SumSpec ==
  /\ SumInit /\ [][SumNext]_<<part, vars, outboxVars, apiVars, roomsVars>>
  /\ WF_vars(part = "hours" /\ Next) /\ OutboxFairness

\* The walk ends, as BusinessHours has it.
WalkEnds == part = "hours" => Terminates

=============================================================================
