--------------------------- MODULE SlaSweepProofs ---------------------------
(***************************************************************************)
(* What holds of SlaSweep for every number of tickets, requests and        *)
(* overlapping sweeps, every clock bound and every SLA policy.             *)
(*                                                                         *)
(* The strengthening says of every candidate that still waits in a check   *)
(* what its row looks like by now, and of requests that they never write   *)
(* what the sweep writes.                                                  *)
(*                                                                         *)
(* The second half shows that nobody is accused wrongly, one request at a  *)
(* time and as long as requests know one priority only (the sweep may      *)
(* raise it).  Its strengthening says that what is flagged, or is about to *)
(* be, is late for good: pauses and replies come after the due date, and a *)
(* later resume or recomputation moves it to no later than the present.    *)
(*                                                                         *)
(* In between: why a sweep comes to its end.                               *)
(***************************************************************************)
EXTENDS SlaSweep, TicketsProofs, FiniteSetTheorems

Recordings == {"RESPONSE_SLA_BREACHED", "RESOLUTION_SLA_BREACHED",
               "AUTO_ESCALATED"}

\* Check k has taken this row before.
Taken(k, row) ==
  \/ k = "response" /\ row.responseBreached
  \/ k = "resolution" /\ row.resolutionBreached
  \/ k = "escalation" /\ row.slaEscalatedAt # NULL

\* The sweeps whose check k has flagged t and not yet queued the mail.
Announcing(t, k) == {s \in Sweeps : check[s][k].pc = "notify"
                                    /\ check[s][k].on = t}

\* What a check works on exists, and what it announces is a ticket.
CandidatesExist ==
  \A s \in Sweeps, k \in Checks :
    /\ \A c \in check[s][k].found : Exists(c.ticket)
    /\ check[s][k].pc = "notify" => check[s][k].on \in Tickets

RequestsLogTheirOwn ==
  \A r \in Requests : request[r].log \cap Recordings = {}

\* The step changes nothing that the sweep has recorded.
LeftAlone ==
  \A t \in Tickets :
    /\ \A a \in Recordings : history'[t][a] = history[t][a]
    /\ Exists(t) =>
         /\ Exists(t)'
         /\ \A k \in Checks : Taken(k, ticket'[t]) <=> Taken(k, ticket[t])
    /\ ~Exists(t) /\ Exists(t)' => \A k \in Checks : ~Taken(k, ticket'[t])

OneSweep == \A s, u \in Sweeps : s = u

\* Flag and history agree, one sweep at a time.
Recorded ==
  OneSweep => \A t \in Tickets, k \in Checks : Exists(t) =>
    history[t][LogOf(k)] = IF Taken(k, ticket[t]) THEN 1 ELSE 0

\* A candidate that waits has not been taken, and waits once.
CandidatesAreFresh ==
  OneSweep => \A s \in Sweeps, k \in Checks : \A c \in check[s][k].found :
    /\ ~Taken(k, ticket[c.ticket])
    /\ \A d \in check[s][k].found : d.ticket = c.ticket => d = c

DInv == /\ IInv /\ DeskTypeOK /\ CandidatesExist /\ RequestsLogTheirOwn
        /\ Recorded /\ CandidatesAreFresh /\ MailIsBacked

-----------------------------------------------------------------------------
(* Requests beside the sweep *)

\* A handler under way logs none of the sweep's actions.
LEMMA RequestsStayApart ==
  ASSUME TypeOK, RequestsLogTheirOwn, Next
  PROVE  RequestsLogTheirOwn'
<1>1. ASSUME NEW r \in Requests,
             \A v \in Requests : v # r => request'[v] = request[v],
             request'[r].log \cap Recordings = {}
      PROVE  RequestsLogTheirOwn'
  BY <1>1 DEF RequestsLogTheirOwn
<1>2. CASE UNCHANGED request
  BY <1>2 DEF RequestsLogTheirOwn
<1>3. ASSUME NEW r \in Requests, NEW t \in Tickets, Start(r, t)
      PROVE  RequestsLogTheirOwn'
  <2>1. ASSUME NEW s, NEW p, Update(r, t, s, p)
        PROVE  RequestsLogTheirOwn'
    BY <1>1, <2>1 DEF Update, TypeOK
  <2>2. CASE Reopen(r, t)
    BY <1>1, <2>2 DEF Reopen, Pending, TypeOK, Recordings
  <2>3. ASSUME NEW staff, NEW public, NEW own, AddComment(r, t, staff, public, own)
        PROVE  RequestsLogTheirOwn'
    BY <1>1, <2>3 DEF AddComment, Pending, TypeOK, Recordings
  <2>4. ASSUME NEW rating, RateCsat(r, t, rating)
        PROVE  RequestsLogTheirOwn'
    BY <1>1, <2>4 DEF RateCsat, Pending, TypeOK
  <2>5. ASSUME NEW p, Escalate(r, t, p)
        PROVE  RequestsLogTheirOwn'
    BY <1>1, <2>5 DEF Escalate, Pending, TypeOK, Recordings
  <2>6. ASSUME NEW target, Merge(r, t, target)
        PROVE  RequestsLogTheirOwn'
    BY <1>1, <2>6 DEF Merge, Pending, TypeOK, Recordings
  <2> QED
    BY <1>3, <2>1, <2>2, <2>3, <2>4, <2>5, <2>6, Zenon DEF Start
<1>4. ASSUME NEW r \in Requests, Advance(r) \/ Fail(r)
      PROVE  RequestsLogTheirOwn'
  <2>1. \A pc : At(pc).log = {}
    BY DEF At
  <2>2. CASE Fail(r)
    BY <1>1, <2>1, <2>2 DEF Fail, TypeOK
  <2>3. CASE Recompute(r)
    BY <1>1, <2>3 DEF Recompute, TypeOK, Request, RequestsLogTheirOwn
  <2>4. CASE Commit(r)
    <3>1. request'[r].log = {}
      BY <2>4 DEF Commit, At, TypeOK
    <3>2. \A v \in Requests : v # r => request'[v] = request[v]
      BY <2>4 DEF Commit, TypeOK
    <3> QED
      BY <1>1, <3>1, <3>2
  <2>5. CASE Pause(r)
    BY <1>1, <2>1, <2>5 DEF Pause, Pending, Recordings, TypeOK
  <2>6. CASE Resume(r)
    BY <1>1, <2>1, <2>6 DEF Resume, Pending, Recordings, TypeOK
  <2> QED
    BY <1>4, <2>2, <2>3, <2>4, <2>5, <2>6 DEF Advance
<1> QED
  BY <1>2, <1>3, <1>4 DEF Next, Tick, Create

\* What the sweep records, only the sweep writes: flags and their history rows
\* survive any request, and a new ticket starts without.
LEMMA RequestsLeaveItAlone ==
  ASSUME IInv, RequestsLogTheirOwn, Next
  PROVE  LeftAlone
<1>1. CASE UNCHANGED ticket /\ UNCHANGED history
  BY <1>1 DEF LeftAlone, Exists
<1>2. ASSUME NEW u \in Tickets, Create(u)
      PROVE  LeftAlone
  <2>1. PICK p \in Priority, hasPolicy \in BOOLEAN :
          ticket' = [ticket EXCEPT ![u] = NewRow(p, hasPolicy)]
    BY <1>2, WorkloadAssumption DEF Create
  <2>2. \A k : ~Taken(k, NewRow(p, hasPolicy))
    BY DEF Taken, NewRow
  <2>3. ~Exists(u) /\ history' = history
    BY <1>2 DEF Create, Exists
  <2>4. \A t \in Tickets : ticket'[t] = IF t = u THEN NewRow(p, hasPolicy)
                                       ELSE ticket[t]
    BY <2>1 DEF IInv, TypeOK
  <2> QED
    BY <2>2, <2>3, <2>4, Zenon DEF LeftAlone, Exists
<1>3. ASSUME NEW r \in Requests, Commit(r)
      PROVE  LeftAlone
  <2> DEFINE q == request[r]
             new == Written(ticket[q.ticket], q.patch)
  <2>1. /\ q \in Request /\ q.ticket \in Tickets /\ Exists(q.ticket)
        /\ ticket[q.ticket] \in Row
    BY <1>3 DEF IInv, TypeOK, RequestsAreSound, Commit, UnderWay, Nullable,
                Exists
  <2>2. new \in Row /\ new # NULL
    BY <2>1, WrittenType, NullIsNoRow DEF Request
  <2>3. /\ new.responseBreached = ticket[q.ticket].responseBreached
        /\ new.resolutionBreached = ticket[q.ticket].resolutionBreached
        /\ new.slaEscalatedAt = ticket[q.ticket].slaEscalatedAt
    BY <2>1 DEF Written, Row
  <2>4. \A t \in Tickets : ticket'[t] = IF t = q.ticket THEN new ELSE ticket[t]
    BY <1>3, <2>1 DEF Commit, IInv, TypeOK
  <2>5. ASSUME NEW t \in Tickets, NEW a \in Recordings
        PROVE  history'[t][a] = history[t][a]
    <3>1. a \in Logged /\ a \notin q.log
      BY DEF RequestsLogTheirOwn, Recordings, Logged
    <3> QED
      BY <1>3, <2>1, <3>1 DEF Commit, IInv, TypeOK
  <2>6. \A k : Taken(k, new) <=> Taken(k, ticket[q.ticket])
    <3> HIDE DEF new
    <3> QED
      BY <2>3 DEF Taken
  <2> HIDE DEF new, q
  <2> QED
    BY <2>1, <2>2, <2>4, <2>5, <2>6, Zenon DEF LeftAlone, Exists
<1>4. CASE Tick
  BY <1>1, <1>4 DEF Tick
<1>5. ASSUME NEW r \in Requests, NEW t \in Tickets, Start(r, t)
      PROVE  LeftAlone
  BY <1>1, <1>5 DEF Start, Update, Reopen, AddComment, RateCsat, Escalate, Merge
<1>6. ASSUME NEW r \in Requests,
             Recompute(r) \/ Pause(r) \/ Resume(r) \/ Fail(r)
      PROVE  LeftAlone
  BY <1>1, <1>6 DEF Recompute, Pause, Resume, Fail
<1> QED
  BY <1>2, <1>3, <1>4, <1>5, <1>6 DEF Next, Advance

LEMMA RequestStepDInv ==
  ASSUME DInv, Next, UNCHANGED sweepVars
  PROVE  DInv'
<1>1. IInv' /\ TypeOK'
  BY NextIInv DEF DInv, IInv
<1>2. RequestsLogTheirOwn'
  BY RequestsStayApart DEF DInv, IInv
<1>3. /\ UNCHANGED <<fired, check, mail>>
      /\ DeskTypeOK'
  BY <1>1 DEF sweepVars, DInv, DeskTypeOK
<1>4. LeftAlone
  BY RequestsLeaveItAlone DEF DInv
<1>5. \A k \in Checks : LogOf(k) \in Recordings
  BY DEF Checks, LogOf, Recordings
<1>6. \A s \in Sweeps, k \in Checks : \A c \in check[s][k].found :
        c.ticket \in Tickets /\ Exists(c.ticket)
  BY DEF DInv, DeskTypeOK, CheckState, Candidate, CandidatesExist
<1>7. CandidatesExist'
  BY <1>3, <1>4, <1>6 DEF DInv, CandidatesExist, LeftAlone
<1>8. CandidatesAreFresh'
  BY <1>3, <1>4, <1>6 DEF DInv, CandidatesAreFresh, OneSweep, LeftAlone
<1>9. Recorded'
  <2> SUFFICES ASSUME OneSweep, NEW t \in Tickets, NEW k \in Checks, Exists(t)'
               PROVE  history'[t][LogOf(k)] =
                        IF Taken(k, ticket'[t]) THEN 1 ELSE 0
    BY DEF Recorded, OneSweep, Taken
  <2>1. history'[t][LogOf(k)] = history[t][LogOf(k)]
    BY <1>4, <1>5 DEF LeftAlone
  <2>2. CASE Exists(t)
    BY <1>4, <2>1, <2>2 DEF DInv, Recorded, LeftAlone
  <2>3. CASE ~Exists(t)
    <3>1. history[t][LogOf(k)] = 0
      BY <1>5, <2>3
      DEF DInv, IInv, NoHistoryBeforeBirth, Recordings, Logged
    <3> QED
      BY <1>4, <2>1, <2>3, <3>1 DEF LeftAlone
  <2> QED
    BY <2>2, <2>3
<1>10. MailIsBacked'
  BY <1>3, <1>4, <1>5 DEF DInv, MailIsBacked, LeftAlone
<1> QED
  BY <1>1, <1>2, <1>3, <1>7, <1>8, <1>9, <1>10 DEF DInv

-----------------------------------------------------------------------------
(* Steps of a check that leave the tickets alone *)

\* A check may be left in state q, overlapping sweeps or not ...
Workable(q) ==
  /\ q \in CheckState
  /\ \A c \in q.found : Exists(c.ticket)
  /\ q.pc = "notify" => q.on \in Tickets

\* ... and what it still has to take is fresh, unless they overlap.
Fresh(q, k) ==
  \A c \in q.found : /\ ~Taken(k, ticket[c.ticket])
                     /\ \A d \in q.found : d.ticket = c.ticket => d = c

LEMMA CheckStep ==
  ASSUME DInv, UNCHANGED vars, NEW s \in Sweeps, NEW k \in Checks,
         NEW q, Workable(q), OneSweep => Fresh(q, k),
         check' = [check EXCEPT ![s][k] = q],
         fired' \in -1..MaxNow, mail' \in [Tickets -> [Checks -> Nat]],
         MailIsBacked'
  PROVE  DInv'
<1>1. IInv'
  BY NextIInv DEF DInv
<1>2. \A u \in Sweeps, j \in Checks :
        check'[u][j] = IF u = s /\ j = k THEN q ELSE check[u][j]
  BY DEF DInv, DeskTypeOK
<1>3. check' \in [Sweeps -> [Checks -> CheckState]]
  BY DEF DInv, DeskTypeOK, Workable
<1>4. DeskTypeOK'
  BY <1>1, <1>3 DEF DeskTypeOK, IInv
<1>5. /\ ticket' = ticket /\ request' = request /\ history' = history
  BY DEF vars
<1>6. CandidatesExist'
  BY <1>2, <1>5 DEF DInv, CandidatesExist, Workable, Exists
<1>7. CandidatesAreFresh'
  BY <1>2, <1>5 DEF DInv, CandidatesAreFresh, Fresh, OneSweep
<1>8. RequestsLogTheirOwn' /\ Recorded'
  BY <1>5 DEF DInv, RequestsLogTheirOwn, Recorded, OneSweep, Exists
<1> QED
  BY <1>1, <1>4, <1>6, <1>7, <1>8 DEF DInv

LEMMA IdleWorkable ==
  ASSUME now \in 0..MaxNow, NEW k
  PROVE  Workable(Idle) /\ Fresh(Idle, k)
  BY TimeAssumption DEF Workable, Fresh, Idle, CheckState, Nullable

\* What remains of a check's candidates is as sound as what it had.
LEMMA RemainingWorkable ==
  ASSUME now \in 0..MaxNow, NEW q \in CheckState,
         NEW found \in SUBSET Candidate, \A c \in found : Exists(c.ticket),
         NEW k
  PROVE  /\ Workable(Remaining(q, found)) /\ Remaining(q, found).pc # "notify"
         /\ Remaining(q, found).found = found
<1>1. CASE found = {}
  BY <1>1, IdleWorkable DEF Remaining, Idle
<1>2. CASE found # {}
  BY <1>2 DEF Remaining, Workable, CheckState, Nullable
<1> QED
  BY <1>1, <1>2

\* Fewer announcements under way leave the mail backed.
LEMMA FewerAnnouncements ==
  ASSUME DInv, IsFiniteSet(Sweeps), UNCHANGED history, UNCHANGED mail,
         \A t \in Tickets, k \in Checks : Announcing(t, k)' \subseteq Announcing(t, k)
  PROVE  MailIsBacked'
<1> SUFFICES ASSUME NEW t \in Tickets, NEW k \in Checks
             PROVE  mail[t][k] + Cardinality(Announcing(t, k)') <= history[t][LogOf(k)]
  BY DEF MailIsBacked, Announcing
<1>1. /\ Announcing(t, k) \in SUBSET Sweeps
      /\ IsFiniteSet(Announcing(t, k))
  BY FS_Subset DEF Announcing
<1>2. IsFiniteSet(Announcing(t, k)')
      /\ Cardinality(Announcing(t, k)') <= Cardinality(Announcing(t, k))
  BY <1>1, FS_Subset
<1>3. /\ Cardinality(Announcing(t, k)) \in Nat
      /\ Cardinality(Announcing(t, k)') \in Nat
  BY <1>1, <1>2, FS_CardinalityType
<1>4. mail[t][k] + Cardinality(Announcing(t, k)) <= history[t][LogOf(k)]
  BY DEF DInv, MailIsBacked, Announcing
<1>5. mail[t][k] \in Nat /\ history[t][LogOf(k)] \in Nat
  BY DEF DInv, DeskTypeOK, IInv, TypeOK, LogOf, Checks, Logged
<1> QED
  BY <1>2, <1>3, <1>4, <1>5

LEMMA BreakStep ==
  ASSUME DInv, IsFiniteSet(Sweeps), NEW s \in Sweeps, NEW k \in Checks,
         Break(s, k)
  PROVE  DInv'
<1>1. /\ check' = [check EXCEPT ![s][k] = Idle]
      /\ UNCHANGED vars /\ UNCHANGED history /\ UNCHANGED mail
      /\ UNCHANGED fired
  BY DEF Break, vars
<1>2. \A t \in Tickets, j \in Checks : Announcing(t, j)' \subseteq Announcing(t, j)
  BY <1>1 DEF Announcing, DInv, DeskTypeOK, Idle
<1>3. MailIsBacked'
  BY <1>1, <1>2, FewerAnnouncements
<1>4. Workable(Idle) /\ Fresh(Idle, k)
  BY IdleWorkable DEF DInv, IInv, TypeOK
<1> QED
  BY <1>1, <1>3, <1>4, CheckStep DEF DInv, DeskTypeOK

LEMMA QueryStep ==
  ASSUME DInv, IsFiniteSet(Sweeps), NEW s \in Sweeps, NEW k \in Checks,
         Query(s, k)
  PROVE  DInv'
<1> DEFINE c == check[s][k]
           chosen == {t \in Tickets : Exists(t) /\ Selected(k, ticket[t], c.at)}
           found == {[ticket |-> t, priority |-> ticket[t].priority] :
                       t \in chosen}
           q == Remaining(c, found)
<1>1. /\ check' = [check EXCEPT ![s][k] = q] /\ c \in CheckState
      /\ UNCHANGED vars /\ UNCHANGED history /\ UNCHANGED mail
      /\ UNCHANGED fired
  BY DEF Query, vars, DInv, DeskTypeOK
<1>2. found \in SUBSET Candidate /\ \A d \in found : Exists(d.ticket)
  BY DEF DInv, IInv, TypeOK, Nullable, Row, Exists, Candidate
<1>3. /\ Workable(q) /\ q.pc # "notify" /\ q.found = found
  <2> HIDE DEF found, c
  <2> QED
    BY <1>1, <1>2, RemainingWorkable DEF DInv, IInv, TypeOK
<1>4. Fresh(q, k)
  <2>1. \A t \in chosen : ~Taken(k, ticket[t])
    BY DEF Selected, Taken, ResponseMissed, ResolutionMissed, EscalationDue, Checks
  <2>2. \A d \in found : d.ticket \in chosen
                         /\ d = [ticket |-> d.ticket,
                                 priority |-> ticket[d.ticket].priority]
    OBVIOUS
  <2> HIDE DEF found, chosen, q
  <2> QED
    BY <1>3, <2>1, <2>2 DEF Fresh
<1> HIDE DEF q
<1>5. \A t \in Tickets, j \in Checks : Announcing(t, j)' \subseteq Announcing(t, j)
  BY <1>1, <1>3 DEF Announcing, DInv, DeskTypeOK
<1>6. MailIsBacked'
  BY <1>1, <1>5, FewerAnnouncements
<1> QED
  BY <1>1, <1>3, <1>4, <1>6, CheckStep DEF DInv, DeskTypeOK

\* Every check of the sweep starts afresh.
LEMMA FireStep ==
  ASSUME DInv, IsFiniteSet(Sweeps), NEW s \in Sweeps, Fire(s)
  PROVE  DInv'
<1> DEFINE q == [Idle EXCEPT !.pc = "query", !.at = now]
<1>1. /\ check' = [check EXCEPT ![s] = [k \in Checks |-> q]]
      /\ ticket' = ticket /\ request' = request /\ history' = history
      /\ now' = now /\ UNCHANGED vars /\ UNCHANGED history
      /\ UNCHANGED mail /\ fired' = now /\ now \in 0..MaxNow
  BY DEF Fire, vars, DInv, IInv, TypeOK
<1>2. q \in CheckState /\ q.found = {} /\ q.pc = "query"
  BY <1>1 DEF Idle, CheckState, Nullable
<1> HIDE DEF q
<1>3. \A u \in Sweeps, j \in Checks :
        check'[u][j] = IF u = s THEN q ELSE check[u][j]
  BY <1>1 DEF DInv, DeskTypeOK
<1>4. IInv'
  BY <1>1, NextIInv DEF DInv
<1>5. DeskTypeOK'
  <2>1. check' \in [Sweeps -> [Checks -> CheckState]]
    BY <1>1, <1>2 DEF DInv, DeskTypeOK
  <2>2. fired' \in -1..MaxNow
    BY <1>1, TimeAssumption
  <2> QED
    BY <1>1, <1>4, <2>1, <2>2 DEF DInv, DeskTypeOK, IInv
<1>6. MailIsBacked'
  <2>1. \A t \in Tickets, j \in Checks :
          Announcing(t, j)' \subseteq Announcing(t, j)
    BY <1>2, <1>3 DEF Announcing
  <2> QED
    BY <1>1, <2>1, FewerAnnouncements
<1>7. CandidatesExist' /\ CandidatesAreFresh'
  BY <1>1, <1>2, <1>3
  DEF DInv, CandidatesExist, CandidatesAreFresh, OneSweep, Exists
<1>8. RequestsLogTheirOwn' /\ Recorded'
  BY <1>1 DEF DInv, RequestsLogTheirOwn, Recorded, OneSweep, Exists
<1> QED
  BY <1>4, <1>5, <1>6, <1>7, <1>8 DEF DInv

\* One announcement less, one mail more.
LEMMA NotifyStep ==
  ASSUME DInv, IsFiniteSet(Sweeps), NEW s \in Sweeps, NEW k \in Checks,
         Notify(s, k)
  PROVE  DInv'
<1> DEFINE me == check[s][k]
           q == Remaining(me, me.found)
           t == me.on
<1>1. /\ check' = [check EXCEPT ![s][k] = q] /\ me \in CheckState
      /\ mail' = [mail EXCEPT ![t][k] = @ + 1] /\ me.pc = "notify"
      /\ UNCHANGED vars /\ UNCHANGED history /\ UNCHANGED fired
  BY DEF Notify, vars, DInv, DeskTypeOK
<1>2. t \in Tickets /\ s \in Announcing(t, k)
  BY <1>1 DEF DInv, CandidatesExist, Announcing
<1>3. /\ Workable(q) /\ q.pc # "notify" /\ q.found = me.found
  BY <1>1, RemainingWorkable
  DEF DInv, IInv, TypeOK, CandidatesExist, CheckState
<1>4. OneSweep => Fresh(q, k)
  BY <1>3 DEF DInv, CandidatesAreFresh, Fresh
<1> HIDE DEF q
<1>5. mail' \in [Tickets -> [Checks -> Nat]]
  BY <1>1, <1>2 DEF DInv, DeskTypeOK
<1>6. MailIsBacked'
  <2> SUFFICES ASSUME NEW u \in Tickets, NEW j \in Checks
               PROVE  mail'[u][j] + Cardinality(Announcing(u, j)')
                        <= history[u][LogOf(j)]
    BY <1>1 DEF MailIsBacked, Announcing
  <2>1. mail[u][j] + Cardinality(Announcing(u, j)) <= history[u][LogOf(j)]
    BY DEF DInv, MailIsBacked, Announcing
  <2>2. IsFiniteSet(Announcing(u, j))
    BY FS_Subset DEF Announcing
  <2>3. CASE u = t /\ j = k
    <3>1. Announcing(u, j)' = Announcing(u, j) \ {s}
      BY <1>1, <1>3, <2>3 DEF Announcing, DInv, DeskTypeOK
    <3>2. Cardinality(Announcing(u, j)') = Cardinality(Announcing(u, j)) - 1
      BY ZenonT(60), <1>2, <2>2, <2>3, <3>1, FS_RemoveElement
    <3>3. mail'[u][j] = mail[u][j] + 1
      BY <1>1, <1>2, <2>3 DEF DInv, DeskTypeOK
    <3>4. /\ mail[u][j] \in Nat /\ history[u][LogOf(j)] \in Nat
          /\ Cardinality(Announcing(u, j)) \in Nat
      BY SMTT(60), <2>2, FS_CardinalityType
      DEF DInv, DeskTypeOK, IInv, TypeOK, LogOf, Checks, Logged
    <3> QED
      BY <2>1, <3>2, <3>3, <3>4
  <2>4. CASE ~(u = t /\ j = k)
    <3>1. mail'[u][j] = mail[u][j]
      BY <1>1, <1>2, <2>4 DEF DInv, DeskTypeOK
    <3>2. Announcing(u, j)' = Announcing(u, j)
      BY <1>1, <1>3, <2>4 DEF Announcing, DInv, DeskTypeOK
    <3> QED
      BY <2>1, <3>1, <3>2
  <2> QED
    BY <2>3, <2>4
<1> QED
  BY <1>1, <1>3, <1>4, <1>5, <1>6, CheckStep DEF DInv, DeskTypeOK

-----------------------------------------------------------------------------
(* The transaction of a check *)

\* What the flag leaves as it was, and what it sets.
LEMMA FlaggedType ==
  ASSUME NEW k \in Checks, NEW row \in Row, NEW c \in Candidate,
         NEW at \in 0..MaxNow
  PROVE  LET new == Flagged(k, row, c, at)
         IN /\ new \in Row
            /\ new.status = row.status /\ new.resolvedAt = row.resolvedAt
            /\ new.closedAt = row.closedAt
            /\ new.slaPausedAt = row.slaPausedAt
            /\ new.reopenedCount = row.reopenedCount
            /\ Taken(k, new)
            /\ \A j \in Checks : j # k => (Taken(j, new) <=> Taken(j, row))
<1>1. at \in Nat /\ at # NULL
  BY TimeAssumption, MarkersHold DEF Markers
<1>2. Raised(c.priority) \in Priority
  BY DEF Raised, Candidate, Priority
<1>3. CASE k = "response"
  BY <1>3 DEF Flagged, Row, Taken, Checks
<1>4. CASE k = "resolution"
  BY <1>4 DEF Flagged, Row, Taken, Checks
<1>5. CASE k = "escalation"
  <2> DEFINE p == Raised(c.priority)
             new == [row EXCEPT !.priority = p, !.slaEscalatedAt = at]
  <2>1. Flagged(k, row, c, at) = new
    BY <1>5 DEF Flagged
  <2>2. p \in Priority
    BY <1>2
  <2>3. at \in Nullable(Nat)
    BY <1>1 DEF Nullable
  <2> HIDE DEF p
  <2>4. /\ new \in Row
        /\ new.status = row.status /\ new.resolvedAt = row.resolvedAt
        /\ new.closedAt = row.closedAt
        /\ new.slaPausedAt = row.slaPausedAt
        /\ new.reopenedCount = row.reopenedCount
        /\ new.responseBreached = row.responseBreached
        /\ new.resolutionBreached = row.resolutionBreached
        /\ new.slaEscalatedAt = at
    BY <2>2, <2>3 DEF Row
  <2> HIDE DEF new
  <2> QED
    BY <1>1, <1>5, <2>1, <2>4 DEF Taken, Checks
<1> QED
  BY <1>3, <1>4, <1>5 DEF Checks

LEMMA FlagStep ==
  ASSUME DInv, IsFiniteSet(Sweeps), NEW s \in Sweeps, NEW k \in Checks,
         NEW c \in Candidate, Flag(s, k, c)
  PROVE  DInv'
<1> DEFINE me == check[s][k]
           t == c.ticket
           row == ticket[t]
           new == Flagged(k, row, c, me.at)
           q == [me EXCEPT !.pc = "notify", !.found = @ \ {c}, !.on = t]
           a == LogOf(k)
<1>1. /\ me \in CheckState /\ me.pc = "loop" /\ c \in me.found
      /\ t \in Tickets /\ Exists(t) /\ row \in Row
  BY DEF Flag, DInv, DeskTypeOK, CandidatesExist, Candidate, IInv, TypeOK,
         Nullable, Exists
<1>2. /\ a \in Logged /\ a \in Recordings /\ a # "REOPENED"
      /\ \A j \in Checks : LogOf(j) = a => j = k
  BY DEF Checks, LogOf, Logged, Recordings
<1>3. /\ new \in Row /\ new # NULL
      /\ new.status = row.status /\ new.resolvedAt = row.resolvedAt
      /\ new.closedAt = row.closedAt /\ new.slaPausedAt = row.slaPausedAt
      /\ new.reopenedCount = row.reopenedCount
      /\ Taken(k, new)
      /\ \A j \in Checks : j # k => (Taken(j, new) <=> Taken(j, row))
  <2> HIDE DEF row
  <2> QED
    BY <1>1, FlaggedType, NullIsNoRow DEF CheckState
<1>4. /\ now' = now /\ request' = request /\ fired' = fired /\ mail' = mail
      /\ ticket' \in [Tickets -> Nullable(Row)]
      /\ \A u \in Tickets : ticket'[u] = IF u = t THEN new ELSE ticket[u]
  <2>1. ticket' = [ticket EXCEPT ![t] = new]
    BY DEF Flag, DInv, IInv, TypeOK
  <2> HIDE DEF new
  <2> QED
    BY <1>1, <1>3, <2>1 DEF Flag, DInv, IInv, TypeOK, Nullable
<1>5. /\ history' \in [Tickets -> [Logged -> Nat]]
      /\ \A u \in Tickets, b \in Logged : history'[u][b] =
           IF u = t /\ b = a THEN history[u][b] + 1 ELSE history[u][b]
  <2>1. history' = [history EXCEPT ![t][a] = @ + 1]
    BY DEF Flag
  <2> HIDE DEF a
  <2> QED
    BY <1>1, <1>2, <2>1 DEF DInv, IInv, TypeOK
<1>6. /\ check' = [check EXCEPT ![s][k] = q]
      /\ q \in CheckState /\ q.found = me.found \ {c}
      /\ q.pc = "notify" /\ q.on = t
  <2>1. /\ q \in CheckState /\ q.found = me.found \ {c}
        /\ q.pc = "notify" /\ q.on = t
    <3> HIDE DEF me
    <3> QED
      BY <1>1 DEF CheckState, Nullable
  <2>2. check' = [check EXCEPT ![s][k] = q]
    BY DEF Flag, DInv, DeskTypeOK
  <2> QED
    BY <2>1, <2>2
<1> HIDE DEF new, q, a
<1>7. /\ check' \in [Sweeps -> [Checks -> CheckState]]
      /\ \A u \in Sweeps, j \in Checks :
           check'[u][j] = IF u = s /\ j = k THEN q ELSE check[u][j]
  BY <1>6 DEF DInv, DeskTypeOK
<1>8. \A u \in Tickets : Exists(u)' <=> Exists(u)
  BY <1>1, <1>3, <1>4 DEF Exists
<1>9. IInv'
  <2>1. TypeOK'
    BY <1>4, <1>5 DEF DInv, IInv, TypeOK
  <2>2. PausesArePast'
    BY <1>1, <1>3, <1>4 DEF DInv, IInv, PausesArePast, Exists
  <2>3. RequestsAreSound'
    BY <1>4, <1>8 DEF DInv, IInv, RequestsAreSound, Coherent, Exists
  <2>4. NoHistoryBeforeBirth'
    BY <1>1, <1>5, <1>8 DEF DInv, IInv, NoHistoryBeforeBirth, Exists
  <2>5. FinishedIsStamped'
    BY <1>1, <1>3, <1>4 DEF DInv, IInv, FinishedIsStamped, Exists
  <2>6. ReopensAreCounted'
    BY <1>1, <1>2, <1>3, <1>4, <1>5 DEF DInv, IInv, ReopensAreCounted, Exists,
       Logged
  <2> QED
    BY <2>1, <2>2, <2>3, <2>4, <2>5, <2>6 DEF IInv
<1>10. DeskTypeOK'
  BY <1>4, <1>7, <1>9 DEF DInv, DeskTypeOK, IInv
<1>11. CandidatesExist'
  <2>1. \A u \in Sweeps, j \in Checks : \A d \in check[u][j].found :
          d.ticket \in Tickets /\ Exists(d.ticket)
    BY DEF DInv, DeskTypeOK, CandidatesExist, CheckState, Candidate
  <2> QED
    BY <1>1, <1>6, <1>7, <1>8, <2>1 DEF DInv, CandidatesExist
<1>12. RequestsLogTheirOwn'
  BY <1>4 DEF DInv, RequestsLogTheirOwn
<1>13. OneSweep => ~Taken(k, row)
  BY <1>1 DEF DInv, CandidatesAreFresh
<1>14. Recorded'
  <2> SUFFICES ASSUME OneSweep, NEW u \in Tickets, NEW j \in Checks, Exists(u)
               PROVE  history'[u][LogOf(j)] =
                        IF Taken(j, ticket'[u]) THEN 1 ELSE 0
    BY <1>8 DEF Recorded, OneSweep, Taken
  <2>1. history[u][LogOf(j)] = IF Taken(j, ticket[u]) THEN 1 ELSE 0
    BY DEF DInv, Recorded
  <2>2. LogOf(j) \in Logged
    BY DEF LogOf, Checks, Logged
  <2>3. CASE u = t /\ j = k
    BY <1>3, <1>4, <1>5, <1>13, <2>1, <2>2, <2>3 DEF a
  <2>4. CASE ~(u = t /\ j = k)
    <3>1. history'[u][LogOf(j)] = history[u][LogOf(j)]
      BY <1>2, <1>5, <2>2, <2>4
    <3>2. Taken(j, ticket'[u]) <=> Taken(j, ticket[u])
      BY <1>3, <1>4, <2>4
    <3> QED
      BY <2>1, <3>1, <3>2
  <2> QED
    BY <2>3, <2>4
<1>15. CandidatesAreFresh'
  <2> SUFFICES ASSUME OneSweep, NEW j \in Checks, NEW d \in check'[s][j].found
               PROVE  /\ ~Taken(j, ticket'[d.ticket])
                      /\ \A e \in check'[s][j].found :
                           e.ticket = d.ticket => e = d
    BY DEF CandidatesAreFresh, OneSweep, Taken
  <2>1. /\ d \in check[s][j].found /\ d.ticket \in Tickets
        /\ check'[s][j].found \subseteq check[s][j].found
    BY <1>6, <1>7 DEF DInv, DeskTypeOK, CheckState, Candidate
  <2>2. /\ ~Taken(j, ticket[d.ticket])
        /\ \A e \in check[s][j].found : e.ticket = d.ticket => e = d
    BY <2>1 DEF DInv, CandidatesAreFresh
  <2>3. d.ticket = t => j # k
    BY <1>1, <1>6, <1>7, <2>2
  <2> QED
    BY <1>3, <1>4, <2>1, <2>2, <2>3
<1>16. MailIsBacked'
  <2> SUFFICES ASSUME NEW u \in Tickets, NEW j \in Checks
               PROVE  mail[u][j] + Cardinality(Announcing(u, j)')
                        <= history'[u][LogOf(j)]
    BY <1>4 DEF MailIsBacked, Announcing
  <2>1. mail[u][j] + Cardinality(Announcing(u, j)) <= history[u][LogOf(j)]
    BY DEF DInv, MailIsBacked, Announcing
  <2>2. LogOf(j) \in Logged
    BY DEF LogOf, Checks, Logged
  <2>3. IsFiniteSet(Announcing(u, j))
    BY FS_Subset DEF Announcing
  <2>4. /\ mail[u][j] \in Nat /\ history[u][LogOf(j)] \in Nat
        /\ Cardinality(Announcing(u, j)) \in Nat
    BY <2>2, <2>3, FS_CardinalityType DEF DInv, DeskTypeOK, IInv, TypeOK
  <2>5. CASE u = t /\ j = k
    <3>1. /\ Announcing(u, j)' = Announcing(u, j) \cup {s}
          /\ s \notin Announcing(u, j)
      BY <1>1, <1>6, <1>7, <2>5 DEF Announcing
    <3>2. Cardinality(Announcing(u, j)') = Cardinality(Announcing(u, j)) + 1
      BY <2>3, <3>1, FS_AddElement
    <3> QED
      BY <1>5, <2>1, <2>2, <2>4, <2>5, <3>2 DEF a
  <2>6. CASE ~(u = t /\ j = k)
    <3>1. Announcing(u, j)' = Announcing(u, j)
      BY <1>1, <1>6, <1>7, <2>6 DEF Announcing
    <3>2. history'[u][LogOf(j)] = history[u][LogOf(j)]
      BY <1>2, <1>5, <2>2, <2>6
    <3> QED
      BY <2>1, <3>1, <3>2
  <2> QED
    BY <2>5, <2>6
<1> QED
  BY <1>9, <1>10, <1>11, <1>12, <1>14, <1>15, <1>16 DEF DInv

-----------------------------------------------------------------------------
(* The theorems *)

LEMMA InitDInv ==
  ASSUME DeskInit
  PROVE  DInv
<1>1. IInv /\ now \in 0..MaxNow
  BY InitIInv DEF DeskInit, IInv, TypeOK
<1>2. /\ \A t \in Tickets : ~Exists(t)
      /\ \A t \in Tickets, a \in Logged : history[t][a] = 0
      /\ \A r \in Requests : request[r].log = {}
  BY DEF DeskInit, Init, Exists, At
<1>3. Workable(Idle)
  BY <1>1, IdleWorkable
<1>4. \A s \in Sweeps, k \in Checks : check[s][k] = Idle
  BY DEF DeskInit, SweepInit
<1>5. DeskTypeOK
  BY <1>1, <1>3, TimeAssumption
  DEF DeskInit, SweepInit, DeskTypeOK, IInv, Workable
<1>6. CandidatesExist /\ CandidatesAreFresh
  BY <1>4 DEF CandidatesExist, CandidatesAreFresh, Idle
<1>7. RequestsLogTheirOwn /\ Recorded
  BY <1>2 DEF RequestsLogTheirOwn, Recorded
<1>8. MailIsBacked
  <2>1. \A t \in Tickets, k \in Checks : Announcing(t, k) = {}
    BY <1>4 DEF Announcing, Idle
  <2>2. \A k \in Checks : LogOf(k) \in Logged
    BY DEF LogOf, Checks, Logged
  <2>3. \A t \in Tickets, k \in Checks : mail[t][k] = 0
    BY DEF DeskInit, SweepInit
  <2> SUFFICES ASSUME NEW t \in Tickets, NEW k \in Checks
               PROVE  mail[t][k] + Cardinality(Announcing(t, k))
                        <= history[t][LogOf(k)]
    BY DEF MailIsBacked, Announcing
  <2> QED
    BY SMTT(60), <1>2, <2>1, <2>2, <2>3, FS_EmptySet
<1> QED
  BY <1>1, <1>5, <1>6, <1>7, <1>8 DEF DInv

LEMMA NextDInv ==
  ASSUME DInv, IsFiniteSet(Sweeps), [DeskNext]_allVars
  PROVE  DInv'
<1>1. CASE UNCHANGED allVars
  <2>1. IInv'
    BY <1>1, NextIInv DEF DInv, allVars
  <2> QED
    BY <1>1, <2>1
    DEF allVars, vars, sweepVars, DInv, DeskTypeOK, CandidatesExist, IInv,
        RequestsLogTheirOwn, Recorded, CandidatesAreFresh, MailIsBacked,
        OneSweep, Exists
<1>2. CASE Next /\ UNCHANGED sweepVars
  BY <1>2, RequestStepDInv
<1>3. ASSUME NEW s \in Sweeps, Fire(s) PROVE DInv'
  BY <1>3, FireStep
<1>4. ASSUME NEW s \in Sweeps, NEW k \in Checks, Query(s, k) PROVE DInv'
  BY <1>4, QueryStep
<1>5. ASSUME NEW s \in Sweeps, NEW k \in Checks, NEW c \in Candidate,
             Flag(s, k, c)
      PROVE  DInv'
  BY <1>5, FlagStep
<1>6. ASSUME NEW s \in Sweeps, NEW k \in Checks, Notify(s, k) PROVE DInv'
  BY <1>6, NotifyStep
<1>7. ASSUME NEW s \in Sweeps, NEW k \in Checks, Break(s, k) PROVE DInv'
  BY <1>7, BreakStep
<1> QED
  BY <1>1, <1>2, <1>3, <1>4, <1>5, <1>6, <1>7 DEF DeskNext, SweepNext

\* The strengthened invariant holds in every reachable state.
THEOREM DeskInvariance ==
  ASSUME IsFiniteSet(Sweeps)
  PROVE  DeskSpec => []DInv
<1>1. DeskInit => DInv
  BY InitDInv
<1>2. DInv /\ [DeskNext]_allVars => DInv'
  BY NextDInv
<1> QED
  BY <1>1, <1>2, PTL DEF DeskSpec

\* Rows, requests, checks and jobs keep their types, sweeps included.
THEOREM DeskTypeCorrect ==
  ASSUME IsFiniteSet(Sweeps)
  PROVE  DeskSpec => []DeskTypeOK
<1>1. DInv => DeskTypeOK
  BY DEF DInv
<1> QED
  BY <1>1, DeskInvariance, PTL

\* Every queued notice has a history row of its own, however many sweeps
\* overlap and wherever they break off.
THEOREM MailBacked ==
  ASSUME IsFiniteSet(Sweeps)
  PROVE  DeskSpec => []MailIsBacked
<1>1. DInv => MailIsBacked
  BY DEF DInv
<1> QED
  BY <1>1, DeskInvariance, PTL

\* Sweeps that do not overlap record every breach and escalation once.
THEOREM BreachOnce ==
  ASSUME IsFiniteSet(Sweeps)
  PROVE  DeskSpec => []BreachLoggedOnce
<1>1. ASSUME DInv, Cardinality(Sweeps) = 1, NEW t \in Tickets, Exists(t)
      PROVE  /\ history[t]["RESPONSE_SLA_BREACHED"] =
                  IF ticket[t].responseBreached THEN 1 ELSE 0
             /\ history[t]["RESOLUTION_SLA_BREACHED"] =
                  IF ticket[t].resolutionBreached THEN 1 ELSE 0
             /\ history[t]["AUTO_ESCALATED"] =
                  IF ticket[t].slaEscalatedAt # NULL THEN 1 ELSE 0
  <2>1. OneSweep
    BY <1>1, FS_Singleton DEF OneSweep
  <2>2. \A k \in Checks : history[t][LogOf(k)] =
                            IF Taken(k, ticket[t]) THEN 1 ELSE 0
    BY <1>1, <2>1 DEF DInv, Recorded
  <2>3. /\ LogOf("response") = "RESPONSE_SLA_BREACHED"
        /\ LogOf("resolution") = "RESOLUTION_SLA_BREACHED"
        /\ LogOf("escalation") = "AUTO_ESCALATED"
    BY DEF LogOf
  <2> QED
    BY <2>2, <2>3 DEF Checks, Taken
<1>2. DInv => BreachLoggedOnce
  BY <1>1 DEF BreachLoggedOnce
<1> QED
  BY <1>2, DeskInvariance, PTL

-----------------------------------------------------------------------------
(* Why a sweep comes to its end *)

\* The steps check q has ahead of it: before the query, all that there might
\* be to take; then two for each candidate, and the mail it is at.
StepsLeft(q) ==
  2 * Cardinality(IF q.pc = "query" THEN Candidate ELSE q.found)
    + (IF q.pc \in {"query", "notify"} THEN 1 ELSE 0)

\* There is a step check k of sweep s can take.
CheckGoesOn(s, k) ==
  LET q == check[s][k]
  IN \/ q.pc \in {"query", "notify"}
     \/ q.pc = "loop" /\ \E c \in Candidate : c \in q.found

\* A check that loops has a candidate, and one that is over has none.
Honest(q) ==
  /\ q.pc = "loop" => q.found # {}
  /\ q.pc = "idle" => q.found = {}

AllHonest == \A s \in Sweeps, k \in Checks : Honest(check[s][k])

LEMMA CandidatesFinite == ASSUME IsFiniteSet(Tickets) PROVE IsFiniteSet(Candidate)
<1>1. IsFiniteSet(Priority)
  <2>1. /\ IsFiniteSet({"LOW"} \cup {"MEDIUM"})
        /\ IsFiniteSet({"HIGH"} \cup {"URGENT"})
    BY FS_Singleton, FS_AddElement
  <2>2. Priority = ({"LOW"} \cup {"MEDIUM"}) \cup ({"HIGH"} \cup {"URGENT"})
    BY DEF Priority
  <2> QED
    BY <2>1, <2>2, FS_Union
<1> DEFINE pairs == Tickets \X Priority
           f == [p \in pairs |-> [ticket |-> p[1], priority |-> p[2]]]
<1>2. IsFiniteSet(pairs)
  BY <1>1, FS_Product
<1>3. f \in Surjection(pairs, Candidate)
  <2>1. f \in [pairs -> Candidate]
    BY DEF Candidate
  <2>2. ASSUME NEW c \in Candidate
        PROVE  \E p \in pairs : f[p] = c
    <3>1. <<c.ticket, c.priority>> \in pairs
      BY DEF Candidate
    <3>2. f[<<c.ticket, c.priority>>] = c
      BY <3>1 DEF Candidate
    <3> QED
      BY <3>1, <3>2
  <2> QED
    BY <2>1, <2>2 DEF Surjection
<1> QED
  BY <1>2, <1>3, FS_Surjection

LEMMA StepsAreNat ==
  ASSUME IsFiniteSet(Tickets), NEW q \in CheckState
  PROVE  /\ StepsLeft(q) \in Nat
         /\ IsFiniteSet(q.found) /\ Cardinality(q.found) \in Nat
         /\ Cardinality(q.found) <= Cardinality(Candidate)
         /\ Cardinality(Candidate) \in Nat
         /\ (q.found # {} => Cardinality(q.found) > 0)
<1>1. IsFiniteSet(Candidate) /\ q.found \in SUBSET Candidate
  BY CandidatesFinite DEF CheckState
<1>2. /\ IsFiniteSet(q.found) /\ Cardinality(q.found) \in Nat
      /\ Cardinality(q.found) <= Cardinality(Candidate)
      /\ Cardinality(Candidate) \in Nat
  BY <1>1, FS_Subset, FS_CardinalityType
<1>3. q.found # {} => Cardinality(q.found) > 0
  BY <1>2, FS_EmptySet
<1> QED
  BY <1>2, <1>3 DEF StepsLeft

\* Whatever becomes of a check that was under way, it has fewer steps left.
LEMMA FewerSteps ==
  ASSUME IsFiniteSet(Tickets), NEW q \in CheckState, NEW r \in CheckState,
         Honest(q), q.pc # "idle",
         \/ r = Idle
         \/ q.pc = "query" /\ r.pc = "loop"
         \/ /\ q.pc = "loop" /\ r.pc = "notify"
            /\ \E c \in q.found : r.found = q.found \ {c}
         \/ q.pc = "notify" /\ r.pc = "loop" /\ r.found = q.found
  PROVE  StepsLeft(r) < StepsLeft(q)
<1>1. StepsLeft(q) > 0 /\ StepsLeft(Idle) = 0
  BY StepsAreNat, FS_EmptySet DEF StepsLeft, Idle, Honest, CheckState
<1>2. CASE r = Idle
  BY <1>1, <1>2
<1>3. CASE q.pc = "query" /\ r.pc = "loop"
  BY <1>3, StepsAreNat DEF StepsLeft
<1>4. CASE /\ q.pc = "loop" /\ r.pc = "notify"
           /\ \E c \in q.found : r.found = q.found \ {c}
  <2>1. Cardinality(r.found) = Cardinality(q.found) - 1
    <3>1. PICK c \in q.found : r.found = q.found \ {c}
      BY <1>4
    <3>2. IsFiniteSet(q.found)
      BY StepsAreNat
    <3> QED
      BY ONLY <3>1, <3>2, FS_RemoveElement
  <2> QED
    BY <1>4, <2>1, StepsAreNat DEF StepsLeft
<1>5. CASE q.pc = "notify" /\ r.pc = "loop" /\ r.found = q.found
  BY <1>5, StepsAreNat DEF StepsLeft
<1> QED
  BY <1>2, <1>3, <1>4, <1>5

\* What a step of the desk does to one check.
LEMMA CheckMoves ==
  ASSUME DInv, [DeskNext]_allVars, NEW s \in Sweeps, NEW k \in Checks,
         ~Fire(s)
  PROVE  LET q == check[s][k]
             r == check'[s][k]
         IN \/ r = q
            \/ /\ q.pc # "idle"
               /\ \/ r = Idle
                  \/ q.pc = "query" /\ r.pc = "loop" /\ r.found # {}
                  \/ /\ q.pc = "loop" /\ r.pc = "notify"
                     /\ \E c \in q.found : r.found = q.found \ {c}
                  \/ /\ q.pc = "notify" /\ r.pc = "loop" /\ r.found = q.found
                     /\ r.found # {}
<1> DEFINE q == check[s][k]
           r == check'[s][k]
<1>0. DeskTypeOK /\ q \in CheckState
  BY DEF DInv, DeskTypeOK
<1>1. CASE UNCHANGED check
  BY <1>1
<1>2. ASSUME NEW v \in Sweeps, NEW j \in Checks, NEW new, v # s \/ j # k,
             check' = [check EXCEPT ![v][j] = new]
      PROVE  r = q
  BY <1>0, <1>2 DEF DeskTypeOK
<1>3. ASSUME NEW new, check' = [check EXCEPT ![s][k] = new]
      PROVE  r = new
  BY <1>0, <1>3 DEF DeskTypeOK
<1>4. ASSUME NEW v \in Sweeps, NEW j \in Checks, v # s \/ j # k,
             \/ Query(v, j) \/ Notify(v, j) \/ Break(v, j)
             \/ \E c \in Candidate : Flag(v, j, c)
      PROVE  r = q
  <2>1. CASE Query(v, j)
    <3>1. PICK new : check' = [check EXCEPT ![v][j] = new]
      BY <2>1 DEF Query
    <3> QED
      BY <1>2, <1>4, <3>1
  <2>2. CASE Notify(v, j) \/ Break(v, j)
    BY <1>2, <1>4, <2>2 DEF Notify, Break
  <2>3. ASSUME NEW c \in Candidate, Flag(v, j, c)
        PROVE  r = q
    <3> DEFINE new == [check[v][j] EXCEPT !.pc = "notify", !.found = @ \ {c},
                                          !.on = c.ticket]
    <3>1. check' = [check EXCEPT ![v][j] = new]
      BY <1>0, <2>3 DEF Flag, DeskTypeOK
    <3> HIDE DEF new
    <3> QED
      BY <1>2, <1>4, <3>1
  <2> QED
    BY <1>4, <2>1, <2>2, <2>3
<1>5. ASSUME NEW v \in Sweeps, Fire(v)
      PROVE  r = q
  BY <1>0, <1>5 DEF Fire, DeskTypeOK
<1>6. ASSUME NEW found
      PROVE  \/ Remaining(q, found) = Idle
             \/ /\ Remaining(q, found).pc = "loop"
                /\ Remaining(q, found).found = found /\ found # {}
  BY <1>0 DEF Remaining, CheckState
<1>7. CASE Query(s, k)
  <2>1. PICK found : check' = [check EXCEPT ![s][k] = Remaining(q, found)]
    BY <1>7 DEF Query
  <2>2. q.pc = "query"
    BY <1>7 DEF Query
  <2> QED
    BY <1>3, <1>6, <2>1, <2>2
<1>8. CASE Notify(s, k)
  <2>1. check' = [check EXCEPT ![s][k] = Remaining(q, q.found)]
    BY <1>8 DEF Notify
  <2>2. q.pc = "notify"
    BY <1>8 DEF Notify
  <2> QED
    BY <1>3, <1>6, <2>1, <2>2
<1>9. ASSUME NEW c \in Candidate, Flag(s, k, c)
      PROVE  /\ q.pc = "loop" /\ r.pc = "notify"
             /\ c \in q.found /\ r.found = q.found \ {c}
  BY <1>0, <1>9 DEF Flag, DeskTypeOK, CheckState
<1>10. CASE Break(s, k)
  BY <1>3, <1>10 DEF Break
<1>11. CASE \/ Next /\ UNCHANGED sweepVars
            \/ UNCHANGED allVars
  BY <1>1, <1>11 DEF sweepVars, allVars
<1> QED
  BY <1>4, <1>5, <1>7, <1>8, <1>9, <1>10, <1>11 DEF DeskNext, SweepNext

LEMMA HonestStep ==
  DInv /\ AllHonest /\ [DeskNext]_allVars => AllHonest'
<1> SUFFICES ASSUME DInv, AllHonest, [DeskNext]_allVars,
                    NEW s \in Sweeps, NEW k \in Checks
             PROVE  Honest(check'[s][k])
  BY DEF AllHonest
<1>1. CASE Fire(s)
  BY <1>1 DEF Fire, Honest, Idle, DInv, DeskTypeOK
<1>2. CASE ~Fire(s)
  BY <1>2, CheckMoves DEF Honest, Idle, AllHonest
<1> QED
  BY <1>1, <1>2

\* What has been flagged is no candidate any more.
LEMMA FlagEndsIt ==
  ASSUME DInv, NEW s \in Sweeps, NEW k \in Checks, NEW c \in Candidate,
         Flag(s, k, c), NEW at
  PROVE  ~Selected(k, ticket'[c.ticket], at)
<1>1. /\ c.ticket \in Tickets /\ ticket[c.ticket] \in Row
      /\ check[s][k] \in CheckState
  BY DEF Flag, DInv, DeskTypeOK, CandidatesExist, Candidate, IInv, TypeOK,
         Nullable, Exists
<1>2. ticket'[c.ticket] = Flagged(k, ticket[c.ticket], c, check[s][k].at)
  BY <1>1 DEF Flag, DInv, DeskTypeOK, TypeOK
<1>3. Taken(k, ticket'[c.ticket])
  BY <1>1, <1>2, FlaggedType DEF CheckState
<1> QED
  BY <1>3 DEF Taken, Selected, ResponseMissed, ResolutionMissed, EscalationDue,
     Checks

\* The safety half of SweepCatchesUp.  A check that is under way always has a
\* step to take; whatever it does, the query, a flag, a mail or an exception,
\* it has fewer steps left than before, and only cron gives it new ones; and
\* what it has flagged no later query finds again, whenever it is asked.  What
\* remains is that each of these steps is taken in the end
\* (sla-breach-check.service.ts).
THEOREM SweepsEnd ==
  ASSUME IsFiniteSet(Sweeps), IsFiniteSet(Tickets)
  PROVE  DeskSpec =>
           /\ [](\A s \in Sweeps, k \in Checks :
                   /\ StepsLeft(check[s][k]) \in Nat
                   /\ check[s][k].pc = "idle" \/ CheckGoesOn(s, k))
           /\ [][\A s \in Sweeps, k \in Checks :
                   /\ check'[s][k] # check[s][k] /\ ~Fire(s) =>
                        StepsLeft(check'[s][k]) < StepsLeft(check[s][k])
                   /\ \A c \in Candidate, at \in Nat :
                        Flag(s, k, c) => ~Selected(k, ticket'[c.ticket], at)]_allVars
<1> DEFINE Moving ==
             \A s \in Sweeps, k \in Checks :
               /\ StepsLeft(check[s][k]) \in Nat
               /\ check[s][k].pc = "idle" \/ CheckGoesOn(s, k)
           Counting ==
             \A s \in Sweeps, k \in Checks :
               /\ check'[s][k] # check[s][k] /\ ~Fire(s) =>
                    StepsLeft(check'[s][k]) < StepsLeft(check[s][k])
               /\ \A c \in Candidate, at \in Nat :
                    Flag(s, k, c) => ~Selected(k, ticket'[c.ticket], at)
<1>1. DeskInit => AllHonest
  BY DEF DeskInit, SweepInit, AllHonest, Honest, Idle
<1>2. DInv /\ AllHonest => Moving
  <2> SUFFICES ASSUME DInv, AllHonest, NEW s \in Sweeps, NEW k \in Checks
               PROVE  /\ StepsLeft(check[s][k]) \in Nat
                      /\ check[s][k].pc = "idle" \/ CheckGoesOn(s, k)
    OBVIOUS
  <2>1. check[s][k] \in CheckState /\ Honest(check[s][k])
    BY DEF DInv, DeskTypeOK, AllHonest
  <2> QED
    BY <2>1, StepsAreNat DEF Honest, CheckGoesOn, CheckState
<1>3. DInv /\ AllHonest /\ DInv' /\ [DeskNext]_allVars => Counting
  <2> SUFFICES ASSUME DInv, AllHonest, DInv', [DeskNext]_allVars,
                      NEW s \in Sweeps, NEW k \in Checks
               PROVE  /\ check'[s][k] # check[s][k] /\ ~Fire(s) =>
                           StepsLeft(check'[s][k]) < StepsLeft(check[s][k])
                      /\ \A c \in Candidate, at \in Nat :
                           Flag(s, k, c) => ~Selected(k, ticket'[c.ticket], at)
    OBVIOUS
  <2>1. /\ check[s][k] \in CheckState /\ check'[s][k] \in CheckState
        /\ Honest(check[s][k])
    BY DEF DInv, DeskTypeOK, AllHonest
  <2>2. check'[s][k] # check[s][k] /\ ~Fire(s) =>
          StepsLeft(check'[s][k]) < StepsLeft(check[s][k])
    BY <2>1, CheckMoves, FewerSteps
  <2> QED
    BY <2>2, FlagEndsIt
<1> HIDE DEF Moving, Counting
<1>4. DeskSpec => []Moving /\ [][Counting]_allVars
  BY <1>1, <1>2, <1>3, HonestStep, DeskInvariance, PTL DEF DeskSpec
<1> QED
  BY <1>4 DEF Moving, Counting

-----------------------------------------------------------------------------
(* Nobody is accused wrongly *)

OnePriority == \A p, q \in Priorities : p = q

\* Too late, whatever happens from now on.
Late(due, met, paused) ==
  /\ due # NULL /\ due < now
  /\ met # NULL => due < met
  /\ paused # NULL => due < paused

LateResponse(row) == Late(row.responseDueAt, row.firstResponseAt, row.slaPausedAt)
LateResolution(row) == Late(row.resolutionDueAt, row.resolvedAt, row.slaPausedAt)

\* due is no earlier than a recomputation from creation would have it.
NotBefore(row, target, due) ==
  \A p \in Priorities \cap Ruled : row.hasPolicy =>
    due # NULL /\ AddBusinessMinutes(row.createdAt, target[p]) <= due

RowHolds(row) ==
  /\ NotBefore(row, ResponseTarget, row.responseDueAt)
  /\ NotBefore(row, ResolutionTarget, row.resolutionDueAt)
  /\ row.responseBreached => LateResponse(row)
  /\ row.resolutionBreached => LateResolution(row)

\* What a patch may do to one due date: leave it, recompute it, or add the
\* pause that it ends.
Shifts(row, target, due, met, due2, met2, paused2) ==
  /\ met2 \in {KEEP, NULL, now}
  /\ \/ due2 = KEEP
     \/ /\ due # NULL /\ paused2 = KEEP
        /\ due2 \in Nat /\ due2 <= due /\ NotBefore(row, target, due2)
     \/ /\ due # NULL /\ met = NULL /\ met2 = KEEP
        /\ row.slaPausedAt # NULL /\ paused2 = NULL
        /\ due2 = due + (now - row.slaPausedAt)

CommitHolds(p, row) ==
  /\ p.slaPausedAt \in {KEEP, NULL, now}
  /\ Shifts(row, ResponseTarget, row.responseDueAt, row.firstResponseAt,
            p.responseDueAt, p.firstResponseAt, p.slaPausedAt)
  /\ Shifts(row, ResolutionTarget, row.resolutionDueAt, row.resolvedAt,
            p.resolutionDueAt, p.resolvedAt, p.slaPausedAt)

\* Before the second read only status and priority are decided.
RecomputeHolds(p) ==
  /\ p.priority \in Priorities
  /\ p.slaPausedAt = KEEP /\ p.responseDueAt = KEEP /\ p.resolutionDueAt = KEEP
  /\ p.firstResponseAt = KEEP /\ p.resolvedAt \in {KEEP, now}

Holds(q, row) ==
  /\ q.pc = "commit" => CommitHolds(q.patch, row)
  /\ q.pc = "recompute" => RecomputeHolds(q.patch)

RowsHold == \A t \in Tickets : Exists(t) => RowHolds(ticket[t])

RequestsHold == \A r \in Requests :
  request[r].pc \in UnderWay => Holds(request[r], ticket[request[r].ticket])

CandidatesAreLate == \A s \in Sweeps :
  /\ \A k \in Checks : check[s][k].at <= now
  /\ \A c \in check[s]["response"].found : LateResponse(ticket[c.ticket])
  /\ \A c \in check[s]["resolution"].found : LateResolution(ticket[c.ticket])

BInv == DInv /\ OneAtATime /\ RowsHold /\ RequestsHold /\ CandidatesAreLate

-----------------------------------------------------------------------------
(* One due date under a patch *)

\* What is late stays late.
LEMMA LateStays ==
  ASSUME now \in Nat, NEW row \in Row, NEW target,
         NEW due \in Nullable(Nat), NEW met \in Nullable(Nat),
         NEW due2, NEW met2, NEW paused2 \in {KEEP, NULL, now},
         row.slaPausedAt # NULL => row.slaPausedAt <= now,
         Shifts(row, target, due, met, due2, met2, paused2),
         Late(due, met, row.slaPausedAt)
  PROVE  Late(Column(due2, due), Column(met2, met),
              Column(paused2, row.slaPausedAt))
<1> DEFINE paused == row.slaPausedAt
<1>1. /\ due \in Nat /\ due < now
      /\ met # NULL => met \in Nat /\ due < met
      /\ paused # NULL => paused \in Nat /\ due < paused /\ paused <= now
  BY DEF Late, Nullable, Row
<1>2. NULL # KEEP /\ NULL \notin Nat /\ KEEP \notin Nat
  BY MarkersHold DEF Markers
<1> HIDE DEF paused
<1>3. Column(paused2, paused) # NULL => due < Column(paused2, paused)
  BY <1>1, <1>2 DEF Column
<1>4. Column(met2, met) # NULL => due < Column(met2, met)
  BY <1>1, <1>2 DEF Column, Shifts
<1>5. CASE due2 = KEEP
  BY <1>1, <1>3, <1>4, <1>5 DEF Late, Column, paused
<1>6. CASE due2 \in Nat /\ due2 <= due
  <2>1. Column(due2, due) = due2
    BY <1>2, <1>6 DEF Column
  <2>2. /\ due2 # NULL /\ due2 < now
        /\ \A n \in Nat : due < n => due2 < n
    BY <1>1, <1>2, <1>6
  <2>3. /\ Column(paused2, paused) \in Nullable(Nat)
        /\ Column(met2, met) \in Nullable(Nat)
    BY <1>1 DEF Column, Nullable, Shifts
  <2> QED
    BY <1>3, <1>4, <2>1, <2>2, <2>3 DEF Late, Nullable, paused
<1>7. CASE /\ met = NULL /\ met2 = KEEP /\ paused # NULL /\ paused2 = NULL
           /\ due2 = due + (now - paused)
  <2>1. due2 \in Nat /\ due2 < now
    BY <1>1, <1>7
  <2>2. /\ Column(due2, due) = due2 /\ Column(met2, met) = NULL
        /\ Column(paused2, paused) = NULL
    BY <1>2, <1>7, <2>1 DEF Column
  <2> QED
    BY <1>2, <2>1, <2>2 DEF Late, paused
<1> QED
  BY <1>5, <1>6, <1>7 DEF Shifts, paused

\* No patch moves a due date before the one a recomputation would set.
LEMMA NotBeforeStays ==
  ASSUME now \in Nat, NEW row \in Row, NEW target,
         NEW due \in Nullable(Nat), NEW met,
         NEW due2, NEW met2, NEW paused2,
         \A p \in Priorities \cap Ruled :
           AddBusinessMinutes(row.createdAt, target[p]) \in Nat,
         row.slaPausedAt # NULL => row.slaPausedAt <= now,
         Shifts(row, target, due, met, due2, met2, paused2),
         NotBefore(row, target, due)
  PROVE  NotBefore(row, target, Column(due2, due))
<1>1. NULL # KEEP /\ NULL \notin Nat /\ KEEP \notin Nat
  BY MarkersHold DEF Markers
<1>2. CASE due2 = KEEP
  BY <1>2 DEF Column
<1>3. CASE due2 \in Nat /\ NotBefore(row, target, due2)
  BY <1>1, <1>3 DEF Column
<1>4. CASE /\ due # NULL /\ row.slaPausedAt # NULL
           /\ due2 = due + (now - row.slaPausedAt)
  <2>1. row.slaPausedAt \in Nat /\ due \in Nat
    BY <1>4 DEF Row, Nullable
  <2>2. due2 \in Nat /\ due <= due2
    BY <1>4, <2>1
  <2>3. Column(due2, due) = due2 /\ due2 # NULL
    BY <1>1, <2>2 DEF Column
  <2> QED
    BY <2>1, <2>2, <2>3 DEF NotBefore
<1> QED
  BY <1>2, <1>3, <1>4 DEF Shifts

\* The rows' columns have the types that the arithmetic needs.
LEMMA TargetsAreTimes ==
  ASSUME NEW row \in Row, NEW p \in Priorities \cap Ruled
  PROVE  /\ AddBusinessMinutes(row.createdAt, ResponseTarget[p]) \in Nat
         /\ AddBusinessMinutes(row.createdAt, ResolutionTarget[p]) \in Nat
  BY TargetAssumption DEF Row

LEMMA RowStays ==
  ASSUME now \in Nat, NEW row \in Row, NEW p \in Patch, CommitHolds(p, row),
         row.slaPausedAt # NULL => row.slaPausedAt <= now, RowHolds(row)
  PROVE  LET new == Written(row, p)
         IN /\ RowHolds(new)
            /\ LateResponse(row) => LateResponse(new)
            /\ LateResolution(row) => LateResolution(new)
<1> DEFINE new == Written(row, p)
<1>1. /\ new.slaPausedAt = Column(p.slaPausedAt, row.slaPausedAt)
      /\ new.responseDueAt = Column(p.responseDueAt, row.responseDueAt)
      /\ new.resolutionDueAt = Column(p.resolutionDueAt, row.resolutionDueAt)
      /\ new.firstResponseAt = Column(p.firstResponseAt, row.firstResponseAt)
      /\ new.resolvedAt = Column(p.resolvedAt, row.resolvedAt)
  BY WrittenColumns
<1>2. /\ new.hasPolicy = row.hasPolicy /\ new.createdAt = row.createdAt
      /\ new.responseBreached = row.responseBreached
      /\ new.resolutionBreached = row.resolutionBreached
  BY DEF Written, Row
<1>3. /\ row.responseDueAt \in Nullable(Nat)
      /\ row.resolutionDueAt \in Nullable(Nat)
      /\ row.firstResponseAt \in Nullable(Nat)
      /\ row.resolvedAt \in Nullable(Nat)
  BY DEF Row
<1> HIDE DEF new
<1>4. LateResponse(row) => LateResponse(new)
  BY <1>1, <1>3, LateStays DEF CommitHolds, LateResponse
<1>5. LateResolution(row) => LateResolution(new)
  BY <1>1, <1>3, LateStays DEF CommitHolds, LateResolution
<1>6. NotBefore(row, ResponseTarget, new.responseDueAt)
  BY <1>1, <1>3, TargetsAreTimes, NotBeforeStays DEF CommitHolds, RowHolds
<1>7. NotBefore(row, ResolutionTarget, new.resolutionDueAt)
  BY <1>1, <1>3, TargetsAreTimes, NotBeforeStays DEF CommitHolds, RowHolds
<1>8. RowHolds(new)
  BY <1>2, <1>4, <1>5, <1>6, <1>7 DEF RowHolds, NotBefore
<1> QED
  BY <1>4, <1>5, <1>8 DEF new

-----------------------------------------------------------------------------
(* Handlers that have not committed *)

\* A step of the only handler under way, which leaves the tickets alone.
LEMMA HandlerHolds ==
  ASSUME BInv, DInv', NEW r \in Requests, NEW q,
         \A v \in Requests : request[v].pc \in UnderWay => v = r,
         request' = [request EXCEPT ![r] = q],
         UNCHANGED <<now, ticket, check>>,
         q.pc \in UnderWay => Holds(q, ticket[q.ticket])
  PROVE  BInv'
<1>1. \A v \in Requests : request'[v] = IF v = r THEN q ELSE request[v]
  BY DEF BInv, DInv, IInv, TypeOK
<1>2. OneAtATime'
  BY <1>1 DEF OneAtATime
<1>3. RequestsHold'
  <2> SUFFICES ASSUME NEW v \in Requests, request'[v].pc \in UnderWay
               PROVE  Holds(request[v], ticket[request[v].ticket])'
    BY DEF RequestsHold
  <2>1. v = r /\ request'[v] = q /\ Holds(q, ticket[q.ticket])
    BY <1>1
  <2>2. request'[v] = q /\ ticket' = ticket /\ now' = now
    BY <2>1
  <2> QED
    BY <2>1, <2>2
    DEF Holds, CommitHolds, RecomputeHolds, Shifts, NotBefore
<1>4. RowsHold' /\ CandidatesAreLate'
  BY DEF BInv, RowsHold, CandidatesAreLate, Exists, RowHolds, NotBefore, Late,
         LateResponse, LateResolution
<1> QED
  BY <1>2, <1>3, <1>4 DEF BInv

LEMMA StartHolds ==
  ASSUME BInv, DInv', Serial, NEW r \in Requests, NEW t \in Tickets, NEW op,
         Accept(r, t, op), NEW q, request' = [request EXCEPT ![r] = q],
         UNCHANGED <<now, ticket, check>>,
         q.pc \in UnderWay => Holds(q, ticket[q.ticket])
  PROVE  BInv'
<1>1. \A v \in Requests : request[v].pc \in UnderWay => v = r
  BY DEF Accept, Running, UnderWay
<1> QED
  BY <1>1, HandlerHolds

\* A patch that leaves due dates and pause alone.
LEMMA PendingHolds ==
  ASSUME NEW t, NEW p, NEW log, NEW row,
         p.responseDueAt = KEEP, p.resolutionDueAt = KEEP,
         p.slaPausedAt \in {KEEP, now},
         p.firstResponseAt \in {KEEP, now}, p.resolvedAt \in {KEEP, NULL, now}
  PROVE  Holds(Pending(t, p, log), row)
<1>1. CommitHolds(p, row)
  BY DEF CommitHolds, Shifts
<1> QED
  BY <1>1 DEF Holds, Pending

LEMMA UpdateHolds ==
  ASSUME BInv, DInv', Serial, UNCHANGED check,
         NEW r \in Requests, NEW t \in Tickets,
         NEW status \in Status \cup {KEEP},
         NEW priority \in Priorities \cup {KEEP},
         Update(r, t, status, priority)
  PROVE  BInv'
<1> DEFINE row == ticket[t]
           s == IF status = row.status THEN KEEP ELSE status
           p == IF priority = row.priority THEN KEEP ELSE priority
           base == [Nothing EXCEPT !.status = s, !.priority = p]
           q == [pc |-> IF p = KEEP THEN "commit" ELSE "recompute",
                 ticket |-> t, patch |-> Stamped(base), log |-> {},
                 then |-> IF s = KEEP THEN "done"
                          ELSE SlaTransition(row.status, s)]
<1>1. /\ Accept(r, t, "update")
      /\ request' = [request EXCEPT ![r] = q]
      /\ UNCHANGED <<now, ticket, check>>
  BY DEF Update
<1>2. /\ Stamped(base).slaPausedAt = KEEP
      /\ Stamped(base).responseDueAt = KEEP
      /\ Stamped(base).resolutionDueAt = KEEP
      /\ Stamped(base).firstResponseAt = KEEP
      /\ Stamped(base).priority = p
      /\ Stamped(base).resolvedAt \in {KEEP, now}
  BY DEF Stamped, Nothing
<1>3. p = KEEP \/ p \in Priorities
  OBVIOUS
<1>4. /\ q.patch = Stamped(base) /\ q.ticket = t
      /\ q.pc = IF p = KEEP THEN "commit" ELSE "recompute"
  OBVIOUS
<1> HIDE DEF q, base, s, p, row
<1>5. Holds(q, row)
  BY <1>2, <1>3, <1>4 DEF Holds, CommitHolds, RecomputeHolds, Shifts
<1> QED
  BY <1>1, <1>4, <1>5, StartHolds DEF row

LEMMA OneReadHolds ==
  ASSUME BInv, DInv', Serial, UNCHANGED check,
         NEW r \in Requests, NEW t \in Tickets,
         \/ Reopen(r, t)
         \/ \E staff, public, own \in BOOLEAN :
              AddComment(r, t, staff, public, own)
         \/ \E rating \in Ratings : RateCsat(r, t, rating)
         \/ \E p \in Priorities : Escalate(r, t, p)
         \/ \E target \in Tickets : Merge(r, t, target)
  PROVE  BInv'
<1>1. ASSUME NEW op, NEW p, NEW log, Accept(r, t, op),
             request' = [request EXCEPT ![r] = Pending(t, p, log)],
             UNCHANGED <<now, ticket>>,
             p.responseDueAt = KEEP, p.resolutionDueAt = KEEP,
             p.slaPausedAt = KEEP, p.firstResponseAt \in {KEEP, now},
             p.resolvedAt \in {KEEP, NULL}
      PROVE  BInv'
  <2>1. Pending(t, p, log).ticket = t
    BY DEF Pending
  <2>2. Holds(Pending(t, p, log), ticket[t])
    BY <1>1, PendingHolds
  <2> QED
    BY <1>1, <2>1, <2>2, StartHolds
<1>2. /\ ReopenPatch.slaPausedAt = KEEP /\ ReopenPatch.responseDueAt = KEEP
      /\ ReopenPatch.resolutionDueAt = KEEP
      /\ ReopenPatch.firstResponseAt = KEEP /\ ReopenPatch.resolvedAt = NULL
  BY DEF ReopenPatch, Nothing
<1>3. CASE Reopen(r, t)
  BY <1>1, <1>2, <1>3 DEF Reopen
<1>4. ASSUME NEW staff \in BOOLEAN, NEW public \in BOOLEAN, NEW own \in BOOLEAN,
             AddComment(r, t, staff, public, own)
      PROVE  BInv'
  <2> DEFINE reply == [Nothing EXCEPT !.firstResponseAt = now]
             reopened == ~staff /\ public /\ ticket[t].status \in Finished
  <2>1. CASE reopened
    BY <1>1, <1>2, <1>4, <2>1 DEF AddComment
  <2>2. CASE ~reopened
    <3>1. /\ Accept(r, t, "comment") /\ UNCHANGED <<now, ticket>>
          /\ request' = [request EXCEPT ![r] = Pending(t, reply, {})]
      BY <1>4, <2>2 DEF AddComment
    <3>2. /\ reply.slaPausedAt = KEEP /\ reply.responseDueAt = KEEP
          /\ reply.resolutionDueAt = KEEP /\ reply.firstResponseAt = now
          /\ reply.resolvedAt = KEEP
      BY DEF Nothing
    <3> HIDE DEF reply
    <3> QED
      BY <1>1, <3>1, <3>2
  <2> QED
    BY <2>1, <2>2
<1>5. ASSUME NEW rating \in Ratings, RateCsat(r, t, rating)
      PROVE  BInv'
  <2> DEFINE p == [Nothing EXCEPT !.csatRating = rating]
  <2>1. /\ p.responseDueAt = KEEP /\ p.resolutionDueAt = KEEP
        /\ p.slaPausedAt = KEEP /\ p.firstResponseAt = KEEP
        /\ p.resolvedAt = KEEP
    BY DEF Nothing
  <2>2. /\ Accept(r, t, "csat") /\ UNCHANGED <<now, ticket>>
        /\ request' = [request EXCEPT ![r] = Pending(t, p, {})]
    BY <1>5 DEF RateCsat
  <2> HIDE DEF p
  <2> QED
    BY <1>1, <2>1, <2>2
<1>6. ASSUME NEW priority \in Priorities, Escalate(r, t, priority)
      PROVE  BInv'
  <2> DEFINE p == [Nothing EXCEPT !.priority = priority]
  <2>1. /\ p.responseDueAt = KEEP /\ p.resolutionDueAt = KEEP
        /\ p.slaPausedAt = KEEP /\ p.firstResponseAt = KEEP
        /\ p.resolvedAt = KEEP
    BY DEF Nothing
  <2>2. /\ Accept(r, t, "escalate") /\ UNCHANGED <<now, ticket>>
        /\ request' = [request EXCEPT ![r] = Pending(t, p, {"ESCALATED"})]
    BY <1>6 DEF Escalate
  <2> HIDE DEF p
  <2> QED
    BY <1>1, <2>1, <2>2
<1>7. ASSUME NEW target \in Tickets, Merge(r, t, target)
      PROVE  BInv'
  <2> DEFINE p == [Nothing EXCEPT !.mergedIntoId = target,
                                  !.status = "CLOSED", !.closedAt = now]
  <2>1. /\ p.responseDueAt = KEEP /\ p.resolutionDueAt = KEEP
        /\ p.slaPausedAt = KEEP /\ p.firstResponseAt = KEEP
        /\ p.resolvedAt = KEEP
    BY DEF Nothing
  <2>2. /\ Accept(r, t, "merge") /\ UNCHANGED <<now, ticket>>
        /\ request' = [request EXCEPT ![r] = Pending(t, p, {"MERGED"})]
    BY <1>7 DEF Merge
  <2> HIDE DEF p
  <2> QED
    BY <1>1, <2>1, <2>2
<1> QED
  BY <1>3, <1>4, <1>5, <1>6, <1>7

\* The handler under way goes on.
LEMMA AdvanceHolds ==
  ASSUME BInv, DInv', NEW r \in Requests, request[r].pc \in UnderWay,
         NEW q, request' = [request EXCEPT ![r] = q],
         UNCHANGED <<now, ticket, check>>,
         q.pc \in UnderWay => Holds(q, ticket[q.ticket])
  PROVE  BInv'
<1>1. \A v \in Requests : request[v].pc \in UnderWay => v = r
  BY DEF BInv, OneAtATime
<1> QED
  BY <1>1, HandlerHolds

\* What the second read makes of a due date that is still to be met.
LEMMA RebasedShifts ==
  ASSUME OnePriority, NEW row \in Row, NEW priority \in Priorities \cap Ruled,
         row.hasPolicy, NEW target, NEW due \in Nullable(Nat), NEW met, NEW met2,
         met2 \in {KEEP, NULL, now},
         AddBusinessMinutes(row.createdAt, target[priority]) \in Nat,
         NotBefore(row, target, due),
         NEW due2, due2 = AddBusinessMinutes(row.createdAt, target[priority])
  PROVE  Shifts(row, target, due, met, due2, met2, KEEP)
<1>1. due # NULL /\ due2 <= due /\ due2 \in Nat
  BY DEF NotBefore
<1>2. NotBefore(row, target, due2)
  BY <1>1, MarkersHold DEF NotBefore, OnePriority, Markers
<1> QED
  BY <1>1, <1>2 DEF Shifts

LEMMA RecomputeHoldsOn ==
  ASSUME BInv, DInv', OnePriority, UNCHANGED check,
         NEW r \in Requests, Recompute(r)
  PROVE  BInv'
<1> DEFINE old == request[r]
           row == ticket[old.ticket]
           b == Rebased(row, old.patch)
           q == [old EXCEPT !.pc = "commit", !.patch = Stamped(b)]
<1>1. /\ request' = [request EXCEPT ![r] = q]
      /\ UNCHANGED <<now, ticket>>
      /\ old.pc = "recompute" /\ old.pc \in UnderWay
      /\ old \in Request /\ old.ticket \in Tickets
      /\ row \in Row /\ Exists(old.ticket)
  BY DEF Recompute, BInv, DInv, IInv, TypeOK, RequestsAreSound, UnderWay,
         Exists, Nullable
<1>2. RecomputeHolds(old.patch) /\ RowHolds(row)
  BY <1>1 DEF BInv, RequestsHold, RowsHold, Holds
<1>3. old.patch \in Patch /\ b \in Patch
  BY <1>1, RebasedType DEF Request
<1>4. /\ b.slaPausedAt = KEEP /\ b.firstResponseAt = KEEP
      /\ b.resolvedAt \in {KEEP, now}
      /\ b.responseDueAt =
           IF row.hasPolicy /\ old.patch.priority \in Ruled
              /\ row.firstResponseAt = NULL
           THEN AddBusinessMinutes(row.createdAt,
                                   ResponseTarget[old.patch.priority])
           ELSE KEEP
      /\ b.resolutionDueAt =
           IF row.hasPolicy /\ old.patch.priority \in Ruled
              /\ row.resolvedAt = NULL
           THEN AddBusinessMinutes(row.createdAt,
                                   ResolutionTarget[old.patch.priority])
           ELSE KEEP
  <2> DEFINE p == old.patch
             x == IF row.firstResponseAt # NULL THEN p.responseDueAt
                  ELSE AddBusinessMinutes(row.createdAt,
                                          ResponseTarget[p.priority])
             y == IF row.resolvedAt # NULL THEN p.resolutionDueAt
                  ELSE AddBusinessMinutes(row.createdAt,
                                          ResolutionTarget[p.priority])
  <2>1. b = IF row.hasPolicy /\ p.priority \in Ruled
            THEN [p EXCEPT !.responseDueAt = x, !.resolutionDueAt = y] ELSE p
    BY DEF Rebased
  <2>2. /\ x = IF row.firstResponseAt = NULL
                THEN AddBusinessMinutes(row.createdAt,
                                        ResponseTarget[p.priority]) ELSE KEEP
        /\ y = IF row.resolvedAt = NULL
                THEN AddBusinessMinutes(row.createdAt,
                                        ResolutionTarget[p.priority]) ELSE KEEP
    BY <1>2 DEF RecomputeHolds
  <2> HIDE DEF b, x, y, row, old
  <2>3. CASE row.hasPolicy /\ p.priority \in Ruled
    <3>1. b.responseDueAt = x /\ b.resolutionDueAt = y
          /\ b.slaPausedAt = p.slaPausedAt /\ b.resolvedAt = p.resolvedAt
          /\ b.firstResponseAt = p.firstResponseAt
      BY <1>3, <2>1, <2>3 DEF Patch
    <3> QED
      BY <1>2, <2>2, <2>3, <3>1 DEF RecomputeHolds
  <2>4. CASE ~(row.hasPolicy /\ p.priority \in Ruled)
    BY <1>2, <2>1, <2>4 DEF RecomputeHolds
  <2> QED
    BY <2>3, <2>4
<1> HIDE DEF b
<1>5. /\ Stamped(b).slaPausedAt = b.slaPausedAt
      /\ Stamped(b).firstResponseAt = b.firstResponseAt
      /\ Stamped(b).responseDueAt = b.responseDueAt
      /\ Stamped(b).resolutionDueAt = b.resolutionDueAt
      /\ Stamped(b).resolvedAt \in {b.resolvedAt, now}
  <2> DEFINE x == IF b.status = "RESOLVED" THEN now ELSE b.resolvedAt
             y == IF b.status = "CLOSED" THEN now ELSE b.closedAt
  <2>1. Stamped(b) = [b EXCEPT !.resolvedAt = x, !.closedAt = y]
    BY DEF Stamped
  <2>2. x \in {b.resolvedAt, now}
    OBVIOUS
  <2> HIDE DEF x, y
  <2> QED
    BY <1>3, <2>1, <2>2 DEF Patch
<1>6. /\ row.responseDueAt \in Nullable(Nat)
      /\ row.resolutionDueAt \in Nullable(Nat)
  BY <1>1 DEF Row
<1>7. Shifts(row, ResponseTarget, row.responseDueAt, row.firstResponseAt,
             Stamped(b).responseDueAt, Stamped(b).firstResponseAt, KEEP)
  <2>1. CASE /\ row.hasPolicy /\ old.patch.priority \in Ruled
             /\ row.firstResponseAt = NULL
    <3>1. /\ old.patch.priority \in Priorities \cap Ruled
          /\ AddBusinessMinutes(row.createdAt,
                                ResponseTarget[old.patch.priority]) \in Nat
      BY <1>1, <1>2, <2>1, TargetsAreTimes DEF RecomputeHolds
    <3>2. Stamped(b).responseDueAt = AddBusinessMinutes(row.createdAt,
                              ResponseTarget[old.patch.priority])
      BY <1>4, <1>5, <2>1
    <3>3. Stamped(b).firstResponseAt \in {KEEP, NULL, now}
      BY <1>4, <1>5
    <3>4. NotBefore(row, ResponseTarget, row.responseDueAt)
      BY <1>2 DEF RowHolds
    <3> HIDE DEF row, old
    <3> QED
      BY <1>1, <1>6, <2>1, <3>1, <3>2, <3>3, <3>4, RebasedShifts
  <2>2. CASE ~(/\ row.hasPolicy /\ old.patch.priority \in Ruled
               /\ row.firstResponseAt = NULL)
    BY <1>4, <1>5, <2>2 DEF Shifts
  <2> QED
    BY <2>1, <2>2
<1>8. Shifts(row, ResolutionTarget, row.resolutionDueAt, row.resolvedAt,
             Stamped(b).resolutionDueAt, Stamped(b).resolvedAt, KEEP)
  <2>1. CASE /\ row.hasPolicy /\ old.patch.priority \in Ruled
             /\ row.resolvedAt = NULL
    <3>1. /\ old.patch.priority \in Priorities \cap Ruled
          /\ AddBusinessMinutes(row.createdAt,
                                ResolutionTarget[old.patch.priority]) \in Nat
      BY <1>1, <1>2, <2>1, TargetsAreTimes DEF RecomputeHolds
    <3>2. Stamped(b).resolutionDueAt = AddBusinessMinutes(row.createdAt,
                              ResolutionTarget[old.patch.priority])
      BY <1>4, <1>5, <2>1
    <3>3. Stamped(b).resolvedAt \in {KEEP, NULL, now}
      BY <1>4, <1>5
    <3>4. NotBefore(row, ResolutionTarget, row.resolutionDueAt)
      BY <1>2 DEF RowHolds
    <3> HIDE DEF row, old
    <3> QED
      BY <1>1, <1>6, <2>1, <3>1, <3>2, <3>3, <3>4, RebasedShifts
  <2>2. CASE ~(/\ row.hasPolicy /\ old.patch.priority \in Ruled
               /\ row.resolvedAt = NULL)
    BY <1>4, <1>5, <2>2 DEF Shifts
  <2> QED
    BY <2>1, <2>2
<1>9. /\ q.pc = "commit" /\ q.patch = Stamped(b) /\ q.ticket = old.ticket
  BY <1>1 DEF Request
<1> HIDE DEF q
<1>10. Holds(q, row)
  BY <1>4, <1>5, <1>7, <1>8, <1>9 DEF Holds, CommitHolds
<1> QED
  BY <1>1, <1>9, <1>10, AdvanceHolds

LEMMA ClockHolds ==
  ASSUME BInv, DInv', UNCHANGED check,
         NEW r \in Requests, Pause(r) \/ Resume(r) \/ Fail(r)
  PROVE  BInv'
<1> DEFINE t == request[r].ticket
           row == ticket[t]
<1>1. request[r].pc \in UnderWay /\ UNCHANGED <<now, ticket, check>>
  BY DEF Pause, Resume, Fail, Running, UnderWay
<1>2. \A pc \in {"done", "failed"} : At(pc).pc \notin UnderWay
  BY DEF At, UnderWay
<1>3. CASE Fail(r)
  BY <1>1, <1>2, <1>3, AdvanceHolds DEF Fail
<1>4. CASE request' = [request EXCEPT ![r] = At("done")]
  BY <1>1, <1>2, <1>4, AdvanceHolds
<1>5. ASSUME NEW p, NEW log, CommitHolds(p, row),
             request' = [request EXCEPT ![r] = Pending(t, p, log)]
      PROVE  BInv'
  <2>1. Pending(t, p, log).ticket = t /\ Holds(Pending(t, p, log), row)
    BY <1>5 DEF Pending, Holds
  <2> QED
    BY <1>1, <1>5, <2>1, AdvanceHolds
<1>6. CASE Pause(r)
  <2>1. CommitHolds(PausePatch, row)
    BY DEF CommitHolds, Shifts, PausePatch, Nothing
  <2> QED
    BY <1>4, <1>5, <1>6, <2>1 DEF Pause
<1>7. CASE Resume(r)
  <2>1. CASE row.slaPausedAt # NULL
    <3> DEFINE p == ResumePatch(row)
    <3>1. /\ p.slaPausedAt = NULL
          /\ p.firstResponseAt = KEEP /\ p.resolvedAt = KEEP
          /\ p.responseDueAt =
               IF row.firstResponseAt = NULL /\ row.responseDueAt # NULL
               THEN row.responseDueAt + (now - row.slaPausedAt) ELSE KEEP
          /\ p.resolutionDueAt =
               IF row.resolvedAt = NULL /\ row.resolutionDueAt # NULL
               THEN row.resolutionDueAt + (now - row.slaPausedAt) ELSE KEEP
      BY DEF ResumePatch, Nothing
    <3> HIDE DEF p
    <3>2. CommitHolds(p, row)
      BY <2>1, <3>1 DEF CommitHolds, Shifts
    <3> QED
      BY <1>5, <1>7, <2>1, <3>2 DEF Resume, p
  <2>2. CASE row.slaPausedAt = NULL
    BY <1>4, <1>7, <2>2 DEF Resume
  <2> QED
    BY <2>1, <2>2
<1> QED
  BY <1>3, <1>6, <1>7

-----------------------------------------------------------------------------
(* Steps that change rows or the clock *)

LEMMA RowsMove ==
  ASSUME BInv, now' = now, UNCHANGED check,
         \A t \in Tickets : Exists(t) =>
           /\ RowHolds(ticket'[t])
           /\ LateResponse(ticket[t]) => LateResponse(ticket'[t])
           /\ LateResolution(ticket[t]) => LateResolution(ticket'[t]),
         \A t \in Tickets : ~Exists(t) /\ Exists(t)' => RowHolds(ticket'[t])
  PROVE  RowsHold' /\ CandidatesAreLate'
<1>1. \A t \in Tickets : Exists(t)' => RowHolds(ticket'[t])
  OBVIOUS
<1>2. RowsHold'
  BY <1>1 DEF RowsHold, RowHolds, NotBefore, LateResponse, LateResolution, Late
<1>3. \A s \in Sweeps, k \in Checks : \A c \in check[s][k].found :
        c.ticket \in Tickets /\ Exists(c.ticket)
  BY DEF BInv, DInv, DeskTypeOK, CheckState, Candidate, CandidatesExist
<1>4. \A s \in Sweeps :
        /\ \A c \in check[s]["response"].found :
             LateResponse(ticket'[c.ticket])
        /\ \A c \in check[s]["resolution"].found :
             LateResolution(ticket'[c.ticket])
  BY <1>3 DEF BInv, CandidatesAreLate, Checks
<1>5. CandidatesAreLate'
  BY <1>4 DEF BInv, CandidatesAreLate, LateResponse, LateResolution, Late
<1> QED
  BY <1>2, <1>5

LEMMA CommitHoldsOn ==
  ASSUME BInv, DInv', UNCHANGED check, NEW r \in Requests, Commit(r)
  PROVE  BInv'
<1> DEFINE q == request[r]
           row == ticket[q.ticket]
           new == Written(row, q.patch)
<1>1. /\ q.pc = "commit" /\ q.pc \in UnderWay /\ now' = now
      /\ ticket' = [ticket EXCEPT ![q.ticket] = Written(@, q.patch)]
      /\ request' = [request EXCEPT ![r] =
           IF q.then = "done" THEN At("done")
           ELSE [At(q.then) EXCEPT !.ticket = q.ticket]]
  BY DEF Commit, UnderWay
<1>2. /\ q \in Request /\ q.ticket \in Tickets /\ Exists(q.ticket)
      /\ row \in Row /\ now \in Nat
      /\ row.slaPausedAt # NULL => row.slaPausedAt <= now
  BY <1>1, TimeAssumption
  DEF BInv, DInv, IInv, TypeOK, RequestsAreSound, PausesArePast, Exists, Nullable
<1>3. CommitHolds(q.patch, row) /\ RowHolds(row)
  BY <1>1, <1>2 DEF BInv, RequestsHold, RowsHold, Holds
<1>4. /\ RowHolds(new)
      /\ LateResponse(row) => LateResponse(new)
      /\ LateResolution(row) => LateResolution(new)
  BY <1>2, <1>3, RowStays DEF Request
<1>5. \A u \in Tickets : ticket'[u] = IF u = q.ticket THEN new ELSE ticket[u]
  BY <1>1, <1>2 DEF BInv, DInv, IInv, TypeOK
<1>6. \A v \in Requests : v # r => /\ request[v].pc \notin UnderWay
                                   /\ request'[v] = request[v]
  BY <1>1 DEF BInv, DInv, IInv, TypeOK, OneAtATime
<1>7. request'[r].pc \notin {"commit", "recompute"}
  <2>1. /\ At("done").pc = "done"
        /\ [At(q.then) EXCEPT !.ticket = q.ticket].pc = q.then
    BY DEF At
  <2>2. q.then \in {"done", "pause", "resume"}
    BY <1>2 DEF Request
  <2>3. request'[r] = IF q.then = "done" THEN At("done")
                      ELSE [At(q.then) EXCEPT !.ticket = q.ticket]
    BY <1>1 DEF BInv, DInv, IInv, TypeOK
  <2> HIDE DEF q
  <2> QED
    BY <2>1, <2>2, <2>3
<1> HIDE DEF new, q
<1>8. RowsHold' /\ CandidatesAreLate'
  <2>1. \A u \in Tickets : ~Exists(u) => ~Exists(u)'
    BY <1>2, <1>5 DEF Exists
  <2> QED
    BY <1>1, <1>4, <1>5, <2>1, RowsMove DEF BInv, RowsHold
<1>9. RequestsHold' /\ OneAtATime'
  <2>1. \A v \in Requests : request'[v].pc \in UnderWay => v = r
    BY <1>6
  <2> QED
    BY <1>7, <2>1 DEF RequestsHold, OneAtATime, Holds
<1> QED
  BY <1>8, <1>9 DEF BInv

LEMMA CreateHolds ==
  ASSUME BInv, DInv', OnePriority, UNCHANGED check,
         NEW t \in Tickets, Create(t)
  PROVE  BInv'
<1>1. PICK p \in Priorities, hasPolicy \in BOOLEAN :
        ticket' = [ticket EXCEPT ![t] = NewRow(p, hasPolicy)]
  BY DEF Create
<1> DEFINE new == NewRow(p, hasPolicy)
<1>2. /\ ~Exists(t) /\ now' = now /\ request' = request
      /\ now \in 0..MaxNow
  BY DEF Create, Exists, BInv, DInv, IInv, TypeOK
<1>3. RowHolds(new)
  <2>1. /\ new.hasPolicy = hasPolicy /\ new.createdAt = now
        /\ ~new.responseBreached /\ ~new.resolutionBreached
        /\ new.responseDueAt = DueFrom(now, ResponseTarget[p], hasPolicy, p)
        /\ new.resolutionDueAt = DueFrom(now, ResolutionTarget[p], hasPolicy, p)
    BY DEF NewRow
  <2>2. ASSUME p \in Ruled
        PROVE  /\ AddBusinessMinutes(now, ResponseTarget[p]) \in Nat
               /\ AddBusinessMinutes(now, ResolutionTarget[p]) \in Nat
    BY <1>2, <2>2, TargetAssumption
  <2>3. NULL \notin Nat
    BY MarkersHold DEF Markers
  <2> HIDE DEF new
  <2>4. /\ NotBefore(new, ResponseTarget, new.responseDueAt)
        /\ NotBefore(new, ResolutionTarget, new.resolutionDueAt)
    BY <2>1, <2>2, <2>3 DEF NotBefore, DueFrom, OnePriority
  <2> QED
    BY <2>1, <2>4 DEF RowHolds
<1> HIDE DEF new
<1>4. \A u \in Tickets : ticket'[u] = IF u = t THEN new ELSE ticket[u]
  BY <1>1 DEF new, BInv, DInv, IInv, TypeOK
<1>5. RowsHold' /\ CandidatesAreLate'
  <2>1. \A u \in Tickets : Exists(u) => ticket'[u] = ticket[u]
    BY <1>2, <1>4 DEF Exists
  <2>2. \A u \in Tickets : ~Exists(u) /\ Exists(u)' => ticket'[u] = new
    BY <1>4 DEF Exists
  <2>3. \A u \in Tickets : Exists(u) => RowHolds(ticket[u])
    BY DEF BInv, RowsHold
  <2> QED
    BY <1>2, <1>3, <2>1, <2>2, <2>3, RowsMove
<1>6. RequestsHold'
  <2> SUFFICES ASSUME NEW r \in Requests, request[r].pc \in UnderWay
               PROVE  Holds(request[r], ticket[request[r].ticket])'
    BY <1>2 DEF RequestsHold
  <2>1. request[r].ticket \in Tickets /\ request[r].ticket # t
    BY <1>2 DEF BInv, DInv, IInv, RequestsAreSound
  <2>2. /\ ticket'[request[r].ticket] = ticket[request[r].ticket]
        /\ Holds(request[r], ticket[request[r].ticket])
    BY <1>4, <2>1 DEF BInv, RequestsHold
  <2> QED
    BY <1>2, <2>2 DEF Holds, CommitHolds, RecomputeHolds, Shifts, NotBefore
<1> QED
  BY <1>2, <1>5, <1>6 DEF BInv, OneAtATime

LEMMA TickHolds ==
  ASSUME BInv, DInv', Serial, UNCHANGED check, Tick
  PROVE  BInv'
<1>1. /\ UNCHANGED <<ticket, request>> /\ now \in Nat /\ now' = now + 1
      /\ \A r \in Requests : request[r].pc \notin UnderWay
  BY TimeAssumption DEF Tick, Running, UnderWay, BInv, DInv, IInv, TypeOK
<1>2. \A due \in Nullable(Nat) : due # NULL /\ due < now => due < now'
  BY <1>1 DEF Nullable
<1>3. \A t \in Tickets : Exists(t) =>
        /\ ticket[t].responseDueAt \in Nullable(Nat)
        /\ ticket[t].resolutionDueAt \in Nullable(Nat)
  BY DEF BInv, DInv, IInv, TypeOK, Exists, Nullable, Row
<1>4. RowsHold'
  <2> SUFFICES ASSUME NEW t \in Tickets, Exists(t)
               PROVE  RowHolds(ticket[t])'
    BY <1>1 DEF RowsHold, Exists
  <2>1. RowHolds(ticket[t])
    BY DEF BInv, RowsHold
  <2>2. ticket' = ticket
    BY <1>1
  <2> QED
    BY <1>2, <1>3, <2>1, <2>2
    DEF RowHolds, NotBefore, LateResponse, LateResolution, Late
<1>5. CandidatesAreLate'
  <2>1. \A s \in Sweeps, k \in Checks :
          /\ check[s][k].at \in Nat
          /\ \A c \in check[s][k].found :
               c.ticket \in Tickets /\ Exists(c.ticket)
    BY TimeAssumption
    DEF BInv, DInv, DeskTypeOK, CheckState, Candidate, CandidatesExist
  <2>2. \A s \in Sweeps, k \in Checks : check'[s][k].at <= now'
    BY <1>1, <2>1 DEF BInv, CandidatesAreLate
  <2>3. "response" \in Checks /\ "resolution" \in Checks
    BY DEF Checks
  <2>4. ASSUME NEW s \in Sweeps, NEW c \in check[s]["response"].found
        PROVE  LateResponse(ticket[c.ticket])'
    <3>1. LateResponse(ticket[c.ticket]) /\ c.ticket \in Tickets
          /\ Exists(c.ticket)
      BY <2>1, <2>3 DEF BInv, CandidatesAreLate
    <3> QED
      BY <1>1, <1>2, <1>3, <3>1 DEF LateResponse, Late
  <2>5. ASSUME NEW s \in Sweeps, NEW c \in check[s]["resolution"].found
        PROVE  LateResolution(ticket[c.ticket])'
    <3>1. LateResolution(ticket[c.ticket]) /\ c.ticket \in Tickets
          /\ Exists(c.ticket)
      BY <2>1, <2>3 DEF BInv, CandidatesAreLate
    <3> QED
      BY <1>1, <1>2, <1>3, <3>1 DEF LateResolution, Late
  <2> QED
    BY <2>2, <2>4, <2>5 DEF CandidatesAreLate
<1>6. RequestsHold' /\ OneAtATime'
  BY <1>1 DEF RequestsHold, OneAtATime
<1> QED
  BY <1>4, <1>5, <1>6 DEF BInv

LEMMA RequestStepHolds ==
  ASSUME BInv, DInv', Serial, OnePriority, Next, UNCHANGED sweepVars
  PROVE  BInv'
<1>1. UNCHANGED check
  BY DEF sweepVars
<1>2. CASE Tick
  BY <1>1, <1>2, TickHolds
<1>3. ASSUME NEW t \in Tickets, Create(t) PROVE BInv'
  BY <1>1, <1>3, CreateHolds
<1>4. ASSUME NEW r \in Requests, NEW t \in Tickets, Start(r, t)
      PROVE  BInv'
  <2>1. ASSUME NEW s \in Statuses \cup {KEEP}, NEW p \in Priorities \cup {KEEP},
               Update(r, t, s, p)
        PROVE  BInv'
    BY <1>1, <2>1, WorkloadAssumption, UpdateHolds
  <2> QED
    BY <1>1, <1>4, <2>1, OneReadHolds DEF Start
<1>5. ASSUME NEW r \in Requests, Advance(r) \/ Fail(r)
      PROVE  BInv'
  BY <1>1, <1>5, RecomputeHoldsOn, CommitHoldsOn, ClockHolds DEF Advance
<1> QED
  BY <1>2, <1>3, <1>4, <1>5 DEF Next

-----------------------------------------------------------------------------
(* The sweep *)

\* Rows that differ in what only the sweep writes.
LEMMA SameClock ==
  ASSUME NEW row, NEW new,
         new.hasPolicy = row.hasPolicy, new.createdAt = row.createdAt,
         new.responseDueAt = row.responseDueAt,
         new.resolutionDueAt = row.resolutionDueAt,
         new.firstResponseAt = row.firstResponseAt,
         new.resolvedAt = row.resolvedAt, new.slaPausedAt = row.slaPausedAt
  PROVE  /\ \A q : Holds(q, row) => Holds(q, new)
         /\ LateResponse(new) <=> LateResponse(row)
         /\ LateResolution(new) <=> LateResolution(row)
         /\ \A target, due : NotBefore(row, target, due) =>
                             NotBefore(new, target, due)
  BY DEF Holds, CommitHolds, RecomputeHolds, Shifts, NotBefore,
         LateResponse, LateResolution, Late

\* A check moves on, and what it has found is late.
LEMMA CheckHolds ==
  ASSUME BInv, DInv', UNCHANGED vars, NEW s \in Sweeps, NEW k \in Checks,
         NEW q, check' = [check EXCEPT ![s][k] = q], q.at <= now,
         k = "response" => \A c \in q.found : LateResponse(ticket[c.ticket]),
         k = "resolution" => \A c \in q.found : LateResolution(ticket[c.ticket])
  PROVE  BInv'
<1>1. \A u \in Sweeps, j \in Checks :
        check'[u][j] = IF u = s /\ j = k THEN q ELSE check[u][j]
  BY DEF BInv, DInv, DeskTypeOK
<1>2. ticket' = ticket /\ request' = request /\ now' = now
  BY DEF vars
<1>3. CandidatesAreLate'
  BY <1>1, <1>2
  DEF BInv, CandidatesAreLate, LateResponse, LateResolution, Late, Checks
<1>4. RowsHold'
  BY <1>2 DEF BInv, RowsHold, Exists, RowHolds, NotBefore, LateResponse,
     LateResolution, Late
<1>5. RequestsHold' /\ OneAtATime'
  BY <1>2 DEF BInv, RequestsHold, OneAtATime, Holds, CommitHolds,
     RecomputeHolds, Shifts, NotBefore
<1> QED
  BY <1>3, <1>4, <1>5 DEF BInv

LEMMA QueryHolds ==
  ASSUME BInv, DInv', NEW s \in Sweeps, NEW k \in Checks, Query(s, k)
  PROVE  BInv'
<1> DEFINE c == check[s][k]
           chosen == {t \in Tickets : Exists(t) /\ Selected(k, ticket[t], c.at)}
           found == {[ticket |-> t, priority |-> ticket[t].priority] :
                       t \in chosen}
           q == Remaining(c, found)
<1>1. check' = [check EXCEPT ![s][k] = q] /\ UNCHANGED vars
  BY DEF Query
<1>2. /\ c \in CheckState /\ c.at \in Nat /\ c.at <= now /\ now \in Nat
  BY TimeAssumption
  DEF BInv, CandidatesAreLate, DInv, DeskTypeOK, IInv, TypeOK, CheckState
<1>3. \A d \in found : d.ticket \in chosen
  OBVIOUS
<1>4. \A t \in chosen : ticket[t].responseDueAt \in Nullable(Nat)
                       /\ ticket[t].resolutionDueAt \in Nullable(Nat)
  BY DEF BInv, DInv, IInv, TypeOK, Exists, Nullable, Row
<1>5. ASSUME NEW t \in chosen, k = "response"
      PROVE  LateResponse(ticket[t])
  <2>1. ResponseMissed(ticket[t], c.at)
    BY <1>5 DEF Selected
  <2> QED
    BY <1>2, <1>4, <2>1 DEF ResponseMissed, LateResponse, Late, Nullable
<1>6. ASSUME NEW t \in chosen, k = "resolution"
      PROVE  LateResolution(ticket[t])
  <2>1. ResolutionMissed(ticket[t], c.at)
    BY <1>6 DEF Selected
  <2> QED
    BY <1>2, <1>4, <2>1 DEF ResolutionMissed, LateResolution, Late, Nullable
<1> HIDE DEF found, chosen, c
<1>7. q.found = found /\ q.at <= now
  <2>1. CASE found = {}
    BY <1>2, <2>1 DEF Remaining, Idle
  <2>2. CASE found # {}
    BY <1>2, <2>2 DEF Remaining, CheckState
  <2> QED
    BY <2>1, <2>2
<1> HIDE DEF q
<1> QED
  BY <1>1, <1>3, <1>5, <1>6, <1>7, CheckHolds

LEMMA FireHolds ==
  ASSUME BInv, DInv', NEW s \in Sweeps, Fire(s)
  PROVE  BInv'
<1> DEFINE q == [Idle EXCEPT !.pc = "query", !.at = now]
<1>1. /\ check' = [check EXCEPT ![s] = [k \in Checks |-> q]]
      /\ ticket' = ticket /\ request' = request /\ now' = now /\ now \in Nat
  BY TimeAssumption DEF Fire, vars, BInv, DInv, IInv, TypeOK
<1>2. q.found = {} /\ q.at <= now
  BY <1>1 DEF Idle
<1> HIDE DEF q
<1>3. \A u \in Sweeps, j \in Checks :
        check'[u][j] = IF u = s THEN q ELSE check[u][j]
  BY <1>1 DEF BInv, DInv, DeskTypeOK
<1>4. CandidatesAreLate'
  BY <1>1, <1>2, <1>3
  DEF BInv, CandidatesAreLate, LateResponse, LateResolution, Late, Checks
<1>5. RowsHold'
  BY <1>1 DEF BInv, RowsHold, Exists, RowHolds, NotBefore, LateResponse,
     LateResolution, Late
<1>6. RequestsHold' /\ OneAtATime'
  BY ZenonT(90), <1>1 DEF BInv, RequestsHold, OneAtATime, Holds, CommitHolds,
     RecomputeHolds, Shifts, NotBefore
<1> QED
  BY <1>4, <1>5, <1>6 DEF BInv

LEMMA NotifyHolds ==
  ASSUME BInv, DInv', NEW s \in Sweeps, NEW k \in Checks,
         Notify(s, k) \/ Break(s, k)
  PROVE  BInv'
<1> DEFINE me == check[s][k]
<1>1. me \in CheckState /\ me.at <= now /\ 0 <= now
  BY TimeAssumption
  DEF BInv, CandidatesAreLate, DInv, DeskTypeOK, IInv, TypeOK
<1>2. PICK q \in {Idle, Remaining(me, me.found)} :
        check' = [check EXCEPT ![s][k] = q] /\ UNCHANGED vars
  BY DEF Notify, Break
<1> HIDE DEF me
<1>3. q.found \subseteq me.found /\ q.at <= now
  <2>1. Idle.found = {} /\ Idle.at = 0
    BY DEF Idle
  <2>2. CASE q = Idle
    BY <1>1, <2>1, <2>2
  <2>3. CASE q # Idle
    BY <1>1, <1>2, <2>3 DEF Remaining, CheckState
  <2> QED
    BY <2>2, <2>3
<1> QED
  BY <1>2, <1>3, CheckHolds DEF BInv, CandidatesAreLate, me

\* The flag is set on a row that is late, and moves no date.
LEMMA FlagHolds ==
  ASSUME BInv, DInv', NEW s \in Sweeps, NEW k \in Checks, NEW c \in Candidate,
         Flag(s, k, c)
  PROVE  BInv'
<1> DEFINE t == c.ticket
           me == check[s][k]
           row == ticket[t]
           new == Flagged(k, row, c, me.at)
           q == [me EXCEPT !.pc = "notify", !.found = @ \ {c}, !.on = t]
<1>1. /\ me \in CheckState /\ c \in me.found /\ t \in Tickets /\ Exists(t)
      /\ row \in Row /\ now' = now /\ request' = request
  <2>1. DInv
    BY DEF BInv
  <2>2. /\ check \in [Sweeps -> [Checks -> CheckState]]
        /\ ticket \in [Tickets -> Nullable(Row)] /\ CandidatesExist
    BY <2>1 DEF DInv, DeskTypeOK, IInv, TypeOK
  <2>3. c \in me.found /\ now' = now /\ request' = request
    BY DEF Flag
  <2>4. me \in CheckState /\ Exists(t)
    BY <2>2, <2>3 DEF CandidatesExist
  <2>5. t \in Tickets
    BY DEF Candidate
  <2> QED
    BY <2>2, <2>3, <2>4, <2>5 DEF Exists, Nullable
<1>2. /\ new.hasPolicy = row.hasPolicy /\ new.createdAt = row.createdAt
      /\ new.responseDueAt = row.responseDueAt
      /\ new.resolutionDueAt = row.resolutionDueAt
      /\ new.firstResponseAt = row.firstResponseAt
      /\ new.resolvedAt = row.resolvedAt /\ new.slaPausedAt = row.slaPausedAt
      /\ k # "response" => new.responseBreached = row.responseBreached
      /\ k # "resolution" => new.resolutionBreached = row.resolutionBreached
  <2> HIDE DEF row, me
  <2>1. CASE k = "response"
    BY <1>1, <2>1 DEF Flagged, Row
  <2>2. CASE k = "resolution"
    BY <1>1, <2>2 DEF Flagged, Row
  <2>3. CASE k = "escalation"
    BY <1>1, <2>3 DEF Flagged, Row
  <2> QED
    BY <2>1, <2>2, <2>3 DEF Checks
<1>3. \A u \in Tickets : ticket'[u] = IF u = t THEN new ELSE ticket[u]
  BY <1>1 DEF Flag, BInv, DInv, IInv, TypeOK
<1>4. /\ q.found \subseteq me.found /\ q.at = me.at
      /\ check' = [check EXCEPT ![s][k] = q]
  <2>1. check' = [check EXCEPT ![s][k] = q]
    <3>1. check \in [Sweeps -> [Checks -> CheckState]]
      BY DEF BInv, DInv, DeskTypeOK
    <3>2. check' = [check EXCEPT ![s][k].pc = "notify",
                                 ![s][k].found = @ \ {c},
                                 ![s][k].on = c.ticket]
      BY DEF Flag
    <3> QED
      BY <3>1, <3>2 DEF CheckState
  <2> HIDE DEF me
  <2> QED
    BY <1>1, <2>1 DEF CheckState
<1>5. \A u \in Sweeps, j \in Checks :
        check'[u][j] = IF u = s /\ j = k THEN q ELSE check[u][j]
  BY <1>4 DEF BInv, DInv, DeskTypeOK
<1>6. /\ k = "response" => LateResponse(row)
      /\ k = "resolution" => LateResolution(row)
      /\ RowHolds(row)
  BY <1>1 DEF BInv, CandidatesAreLate, RowsHold
<1> HIDE DEF new, q
<1>7. /\ \A p : Holds(p, row) => Holds(p, new)
      /\ LateResponse(new) <=> LateResponse(row)
      /\ LateResolution(new) <=> LateResolution(row)
      /\ \A target, due : NotBefore(row, target, due) =>
                          NotBefore(new, target, due)
  BY <1>2, SameClock
<1>8. RowHolds(new)
  BY <1>2, <1>6, <1>7 DEF RowHolds
<1>9. RowsHold'
  <2>1. \A u \in Tickets : Exists(u)' => RowHolds(ticket'[u])
    BY <1>1, <1>3, <1>8 DEF BInv, RowsHold, Exists
  <2> QED
    BY <1>1, <2>1
    DEF RowsHold, RowHolds, NotBefore, LateResponse, LateResolution, Late
<1>10. RequestsHold'
  <2> SUFFICES ASSUME NEW r \in Requests, request[r].pc \in UnderWay
               PROVE  Holds(request[r], ticket[request[r].ticket])'
    BY <1>1 DEF RequestsHold
  <2>1. request[r].ticket \in Tickets
    BY DEF BInv, DInv, IInv, RequestsAreSound
  <2>2. Holds(request[r], ticket[request[r].ticket])
    BY DEF BInv, RequestsHold
  <2>3. Holds(request[r], ticket'[request[r].ticket])
    BY <1>3, <1>7, <2>1, <2>2
  <2> QED
    BY <1>1, <2>3
    DEF Holds, CommitHolds, RecomputeHolds, Shifts, NotBefore
<1>11. CandidatesAreLate'
  <2>1. \A u \in Sweeps, j \in Checks :
          /\ check'[u][j].found \subseteq check[u][j].found
          /\ check'[u][j].at = check[u][j].at
    BY <1>4, <1>5 DEF me
  <2>2. \A u \in Sweeps, j \in Checks : \A d \in check[u][j].found :
          d.ticket \in Tickets
    BY DEF BInv, DInv, DeskTypeOK, CheckState, Candidate
  <2>3. \A u \in Tickets :
          /\ LateResponse(ticket[u]) => LateResponse(ticket'[u])
          /\ LateResolution(ticket[u]) => LateResolution(ticket'[u])
    BY <1>3, <1>7
  <2>4. \A u \in Sweeps :
          /\ \A j \in Checks : check'[u][j].at <= now
          /\ \A d \in check'[u]["response"].found :
               LateResponse(ticket'[d.ticket])
          /\ \A d \in check'[u]["resolution"].found :
               LateResolution(ticket'[d.ticket])
    BY <2>1, <2>2, <2>3 DEF BInv, CandidatesAreLate, Checks
  <2> QED
    BY <1>1, <2>4 DEF CandidatesAreLate, LateResponse, LateResolution, Late
<1>12. OneAtATime'
  BY <1>1 DEF BInv, OneAtATime
<1> QED
  BY <1>9, <1>10, <1>11, <1>12 DEF BInv

-----------------------------------------------------------------------------
(* The theorem *)

LEMMA InitHolds ==
  ASSUME DeskInit
  PROVE  BInv
<1>1. DInv /\ now = 0
  BY InitDInv DEF DeskInit, Init
<1>2. /\ \A t \in Tickets : ~Exists(t)
      /\ \A r \in Requests : request[r].pc \notin UnderWay
  BY DEF DeskInit, Init, Exists, At, UnderWay
<1>3. \A s \in Sweeps, k \in Checks : check[s][k].found = {} /\ check[s][k].at = 0
  BY DEF DeskInit, SweepInit, Idle
<1>4. CandidatesAreLate
  BY <1>1, <1>3 DEF CandidatesAreLate, Checks
<1> QED
  BY <1>1, <1>2, <1>4 DEF BInv, RowsHold, RequestsHold, OneAtATime

LEMMA NextHolds ==
  ASSUME BInv, IsFiniteSet(Sweeps), Serial, OnePriority, [DeskNext]_allVars
  PROVE  BInv'
<1>1. DInv'
  BY NextDInv DEF BInv
<1>2. CASE UNCHANGED allVars
  <2>1. UNCHANGED <<now, ticket, request, check>>
    BY <1>2 DEF allVars, vars, sweepVars
  <2>2. OneAtATime'
    BY <2>1 DEF BInv, OneAtATime
  <2>3. RowsHold'
    BY <2>1 DEF BInv, RowsHold, Exists, RowHolds, NotBefore, LateResponse,
                LateResolution, Late
  <2>4. RequestsHold'
    BY <2>1 DEF BInv, RequestsHold, Holds, CommitHolds, RecomputeHolds, Shifts,
                NotBefore
  <2>5. CandidatesAreLate'
    BY <2>1 DEF BInv, CandidatesAreLate, LateResponse, LateResolution, Late
  <2> QED
    BY <1>1, <2>2, <2>3, <2>4, <2>5 DEF BInv
<1>3. CASE Next /\ UNCHANGED sweepVars
  BY <1>1, <1>3, RequestStepHolds
<1>4. ASSUME NEW s \in Sweeps, Fire(s) PROVE BInv'
  BY <1>1, <1>4, FireHolds
<1>5. ASSUME NEW s \in Sweeps, NEW k \in Checks, Query(s, k) PROVE BInv'
  BY <1>1, <1>5, QueryHolds
<1>6. ASSUME NEW s \in Sweeps, NEW k \in Checks, NEW c \in Candidate,
             Flag(s, k, c)
      PROVE  BInv'
  BY <1>1, <1>6, FlagHolds
<1>7. ASSUME NEW s \in Sweeps, NEW k \in Checks, Notify(s, k) \/ Break(s, k)
      PROVE  BInv'
  BY <1>1, <1>7, NotifyHolds
<1> QED
  BY <1>2, <1>3, <1>4, <1>5, <1>6, <1>7 DEF DeskNext, SweepNext

\* While requests know one priority, a ticket that was answered or resolved by
\* its due date is never flagged, although the sweep works from a snapshot.
THEOREM BreachReal ==
  ASSUME IsFiniteSet(Sweeps), Serial, OnePriority
  PROVE  DeskSpec => []BreachIsReal
<1>1. BInv => BreachIsReal
  <2> SUFFICES ASSUME BInv, NEW t \in Tickets, Exists(t)
               PROVE  /\ ticket[t].responseBreached
                         /\ ticket[t].firstResponseAt # NULL =>
                           ticket[t].firstResponseAt > ticket[t].responseDueAt
                      /\ ticket[t].resolutionBreached
                         /\ ticket[t].resolvedAt # NULL =>
                           ticket[t].resolvedAt > ticket[t].resolutionDueAt
    BY DEF BreachIsReal
  <2>1. RowHolds(ticket[t])
    BY DEF BInv, RowsHold
  <2> QED
    BY <2>1 DEF RowHolds, LateResponse, LateResolution, Late
<1>2. DeskInit => BInv
  BY InitHolds
<1>3. BInv /\ [DeskNext]_allVars => BInv'
  BY NextHolds
<1> QED
  BY <1>1, <1>2, <1>3, PTL DEF DeskSpec

=============================================================================
