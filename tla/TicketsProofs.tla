---------------------------- MODULE TicketsProofs ----------------------------
(***************************************************************************)
(* What holds of Tickets for every number of tickets and requests, every   *)
(* clock bound and every SLA policy.                                       *)
(*                                                                         *)
(* None of the invariants is inductive alone: a handler commits a patch it *)
(* built earlier.  The strengthening says of every patch under way what it *)
(* may do to any row it can meet when it commits.                          *)
(*                                                                         *)
(* The second half is about requests that are handled one at a time,       *)
(* failures at any point included: pauses balance, a waiting ticket's      *)
(* clock stands still, firsts stay, and the row implements two SlaClocks.  *)
(* Its strengthening says of the one handler that may be under way that    *)
(* what it has read still holds: how its patch fits the row it will meet.  *)
(*                                                                         *)
(* The last sections say what it takes for what the code does not keep. No *)
(* two pauses under way at once: the start of a pause is kept. No ticket   *)
(* reopened whose pause was never ended (and one request at a time):       *)
(* clocks run while tickets are open. No merge into a ticket that is       *)
(* merged away: merges leave a survivor.                                   *)
(***************************************************************************)
EXTENDS TicketClocks, TLAPS

Markers == NULL \notin Nat /\ KEEP \notin Nat /\ NULL # KEEP
           /\ KEEP \notin Status /\ NULL \notin Status

\* A patch that finishes a ticket stamps it; one that clears a stamp opens it.
Coherent(p) ==
  /\ p.status = "RESOLVED" => p.resolvedAt \in Nat
  /\ p.status = "CLOSED" => p.closedAt \in Nat
  /\ p.resolvedAt = NULL => p.status = "OPEN"
  /\ p.closedAt = NULL => p.status = "OPEN"

UnderWay == {"recompute", "commit", "pause", "resume"}

\* No timestamp of a pause lies in the future: a resume never moves a due
\* date backwards.
PausesArePast ==
  /\ \A t \in Tickets : Exists(t) /\ ticket[t].slaPausedAt # NULL =>
       ticket[t].slaPausedAt <= now
  /\ \A r \in Requests : request[r].patch.slaPausedAt \in Nat =>
       request[r].patch.slaPausedAt <= now

RequestsAreSound ==
  \A r \in Requests :
    /\ request[r].pc \in UnderWay =>
         request[r].ticket \in Tickets /\ Exists(request[r].ticket)
    /\ Coherent(request[r].patch)
    /\ request[r].patch.reopens <=> "REOPENED" \in request[r].log

NoHistoryBeforeBirth ==
  \A t \in Tickets : ~Exists(t) => \A a \in Logged : history[t][a] = 0

IInv == /\ TypeOK /\ PausesArePast /\ RequestsAreSound
        /\ NoHistoryBeforeBirth /\ FinishedIsStamped /\ ReopensAreCounted

-----------------------------------------------------------------------------
(* Patches and rows *)

LEMMA MarkersHold == Markers
  BY MarkerAssumption DEF Markers

\* What a transaction writes is a row again.
LEMMA WrittenType ==
  ASSUME NEW row \in Row, NEW p \in Patch
  PROVE  Written(row, p) \in Row
<1>1. /\ Column(p.status, row.status) \in Status
      /\ Column(p.priority, row.priority) \in Priority
      /\ Column(p.csatRating, row.csatRating) \in Nullable(Ratings)
      /\ Column(p.mergedIntoId, row.mergedIntoId) \in Nullable(Tickets)
  BY DEF Row, Patch, Column, Nullable
<1>2. /\ Column(p.responseDueAt, row.responseDueAt) \in Nullable(Nat)
      /\ Column(p.resolutionDueAt, row.resolutionDueAt) \in Nullable(Nat)
      /\ Column(p.firstResponseAt, row.firstResponseAt) \in Nullable(Nat)
  BY DEF Row, Patch, Column, Nullable
<1>3. /\ Column(p.resolvedAt, row.resolvedAt) \in Nullable(Nat)
      /\ Column(p.closedAt, row.closedAt) \in Nullable(Nat)
      /\ Column(p.slaPausedAt, row.slaPausedAt) \in Nullable(Nat)
  BY DEF Row, Patch, Column, Nullable
<1>4. (IF p.reopens THEN row.reopenedCount + 1 ELSE row.reopenedCount) \in Nat
  BY DEF Row
<1> QED
  BY <1>1, <1>2, <1>3, <1>4 DEF Written, Row

LEMMA NothingType == /\ Nothing \in Patch /\ Coherent(Nothing)
                     /\ ~Nothing.reopens /\ Nothing.slaPausedAt = KEEP
  BY MarkersHold DEF Markers, Nothing, Patch, Coherent, Nullable, Status

LEMMA NewRowType ==
  ASSUME now \in 0..MaxNow, NEW p \in Priority, NEW hasPolicy \in BOOLEAN
  PROVE  /\ NewRow(p, hasPolicy) \in Row
         /\ NewRow(p, hasPolicy).status = "OPEN"
         /\ NewRow(p, hasPolicy).slaPausedAt = NULL
         /\ NewRow(p, hasPolicy).reopenedCount = 0
  BY TargetAssumption, TimeAssumption
  DEF NewRow, Row, Nullable, Status, DueFrom

LEMMA StampedType ==
  ASSUME now \in 0..MaxNow, NEW p \in Patch,
         p.resolvedAt = NULL => p.status = "OPEN",
         p.closedAt = NULL => p.status = "OPEN"
  PROVE  /\ Stamped(p) \in Patch /\ Coherent(Stamped(p))
         /\ Stamped(p).reopens = p.reopens
         /\ Stamped(p).slaPausedAt = p.slaPausedAt
<1>1. now \in Nat
  BY TimeAssumption
<1>2. PICK a \in Nullable(Nat) \cup {KEEP}, b \in Nullable(Nat) \cup {KEEP} :
        Stamped(p) = [p EXCEPT !.resolvedAt = a, !.closedAt = b]
        /\ (p.status = "RESOLVED" => a \in Nat)
        /\ (p.status = "CLOSED" => b \in Nat)
        /\ (a = NULL => p.status = "OPEN")
        /\ (b = NULL => p.status = "OPEN")
  <2> DEFINE a == IF p.status = "RESOLVED" THEN now ELSE p.resolvedAt
             b == IF p.status = "CLOSED" THEN now ELSE p.closedAt
  <2>1. /\ a \in Nullable(Nat) \cup {KEEP} /\ b \in Nullable(Nat) \cup {KEEP}
        /\ (a = NULL => p.status = "OPEN") /\ (b = NULL => p.status = "OPEN")
    BY <1>1, MarkersHold DEF Markers, Patch, Nullable
  <2> QED
    BY <2>1, <1>1 DEF Stamped
<1>3. Stamped(p) \in Patch
  BY <1>2 DEF Patch, Nullable
<1> QED
  BY <1>2, <1>3, MarkersHold DEF Markers, Coherent, Patch

LEMMA RebasedType ==
  ASSUME NEW row \in Row, NEW p \in Patch
  PROVE  /\ Rebased(row, p) \in Patch
         /\ Rebased(row, p).reopens = p.reopens
         /\ Rebased(row, p).status = p.status
         /\ Rebased(row, p).slaPausedAt = p.slaPausedAt
         /\ Rebased(row, p).resolvedAt = p.resolvedAt
         /\ Rebased(row, p).closedAt = p.closedAt
         /\ Rebased(row, p).mergedIntoId = p.mergedIntoId
<1>1. CASE row.hasPolicy /\ p.priority \in Ruled
  <2>1. PICK a \in Nat \cup {KEEP}, b \in Nat \cup {KEEP} :
          Rebased(row, p) =
            [p EXCEPT !.responseDueAt = a, !.resolutionDueAt = b]
    <3> DEFINE a == IF row.firstResponseAt # NULL THEN p.responseDueAt
                    ELSE AddBusinessMinutes(row.createdAt,
                                            ResponseTarget[p.priority])
               b == IF row.resolvedAt # NULL THEN p.resolutionDueAt
                    ELSE AddBusinessMinutes(row.createdAt,
                                            ResolutionTarget[p.priority])
    <3>1. row.createdAt \in 0..MaxNow
      BY DEF Row
    <3>2. a \in Nat \cup {KEEP} /\ b \in Nat \cup {KEEP}
      BY <1>1, <3>1, TargetAssumption DEF Patch
    <3> QED
      BY <1>1, <3>2 DEF Rebased
  <2> QED
    BY ZenonT(60), <2>1 DEF Patch
<1>2. CASE ~(row.hasPolicy /\ p.priority \in Ruled)
  BY <1>2 DEF Rebased
<1> QED
  BY <1>1, <1>2

LEMMA ReopenPatchType ==
  /\ ReopenPatch \in Patch /\ Coherent(ReopenPatch) /\ ReopenPatch.reopens
  /\ ReopenPatch.slaPausedAt = KEEP
  BY NothingType, MarkersHold
  DEF Markers, ReopenPatch, Nothing, Patch, Coherent, Nullable, Status

LEMMA ResumePatchType ==
  ASSUME now \in Nat, NEW row \in Row,
         row.slaPausedAt # NULL, row.slaPausedAt <= now
  PROVE  /\ ResumePatch(row) \in Patch /\ Coherent(ResumePatch(row))
         /\ ~ResumePatch(row).reopens /\ ResumePatch(row).slaPausedAt = NULL
<1>1. PICK a \in Nat \cup {KEEP}, b \in Nat \cup {KEEP} :
        ResumePatch(row) = [Nothing EXCEPT !.slaPausedAt = NULL,
                                           !.responseDueAt = a,
                                           !.resolutionDueAt = b]
  <2> DEFINE Shifted(due, metAt) ==
               IF metAt = NULL /\ due # NULL
               THEN due + (now - row.slaPausedAt) ELSE KEEP
  <2>1. row.slaPausedAt \in Nat /\ now - row.slaPausedAt \in Nat
    BY DEF Row, Nullable
  <2>2. ASSUME NEW due \in Nullable(Nat), NEW metAt
        PROVE  Shifted(due, metAt) \in Nat \cup {KEEP}
    BY <2>1 DEF Nullable
  <2>3. /\ Shifted(row.responseDueAt, row.firstResponseAt) \in Nat \cup {KEEP}
        /\ Shifted(row.resolutionDueAt, row.resolvedAt) \in Nat \cup {KEEP}
    BY <2>2 DEF Row
  <2> QED
    BY <2>3 DEF ResumePatch
<1> QED
  BY ZenonT(60), <1>1, NothingType, MarkersHold
  DEF Markers, Patch, Coherent, Nothing, Nullable, Status

-----------------------------------------------------------------------------
(* Steps of a handler that do not touch the database *)

\* A handler may be left in state q.
Sound(q) ==
  /\ q \in Request
  /\ q.pc \in UnderWay => q.ticket \in Tickets /\ Exists(q.ticket)
  /\ Coherent(q.patch)
  /\ q.patch.reopens <=> "REOPENED" \in q.log
  /\ q.patch.slaPausedAt \in Nat => q.patch.slaPausedAt <= now

LEMMA RequestStep ==
  ASSUME IInv, NEW r \in Requests, NEW q, Sound(q),
         request' = [request EXCEPT ![r] = q],
         UNCHANGED <<now, ticket, history>>
  PROVE  IInv'
  BY DEF IInv, TypeOK, PausesArePast, RequestsAreSound, NoHistoryBeforeBirth,
         FinishedIsStamped, ReopensAreCounted, Exists, Sound

LEMMA AtSound ==
  ASSUME NEW pc \in {"idle", "done", "failed"}
  PROVE  Sound(At(pc))
  BY NothingType, MarkersHold
  DEF Markers, Sound, At, Request, UnderWay, Nullable

LEMMA PendingSound ==
  ASSUME NEW t \in Tickets, Exists(t), NEW p \in Patch, Coherent(p),
         NEW log \in SUBSET Logged, p.reopens <=> "REOPENED" \in log,
         p.slaPausedAt \in Nat => p.slaPausedAt <= now
  PROVE  Sound(Pending(t, p, log))
  BY DEF Sound, Pending, Request, UnderWay, Nullable

LEMMA UpdateStep ==
  ASSUME IInv, NEW r \in Requests, NEW t \in Tickets,
         NEW status \in Status \cup {KEEP}, NEW priority \in Priority \cup {KEEP},
         Update(r, t, status, priority)
  PROVE  IInv'
<1> DEFINE s == IF status = ticket[t].status THEN KEEP ELSE status
           p == IF priority = ticket[t].priority THEN KEEP ELSE priority
           base == [Nothing EXCEPT !.status = s, !.priority = p]
           q == [pc |-> IF p = KEEP THEN "commit" ELSE "recompute",
                 ticket |-> t, patch |-> Stamped(base), log |-> {},
                 then |-> IF s = KEEP THEN "done"
                          ELSE SlaTransition(ticket[t].status, s)]
<1>1. /\ base \in Patch
      /\ base.resolvedAt # NULL /\ base.closedAt # NULL
      /\ ~base.reopens /\ base.slaPausedAt = KEEP
  <2>1. s \in Status \cup {KEEP} /\ p \in Priority \cup {KEEP}
    OBVIOUS
  <2> HIDE DEF s, p
  <2> QED
    BY <2>1, MarkersHold DEF Markers, Patch, Nothing
<1>2. /\ Stamped(base) \in Patch /\ Coherent(Stamped(base))
      /\ ~Stamped(base).reopens /\ Stamped(base).slaPausedAt = KEEP
  <2> HIDE DEF base
  <2> QED
    BY <1>1, StampedType DEF IInv, TypeOK
<1>3. Sound(q)
  <2>1. SlaTransition(ticket[t].status, s) \in {"done", "pause", "resume"}
    BY DEF SlaTransition
  <2>2. Exists(t)
    BY DEF Update, Accept, Exists
  <2> HIDE DEF base
  <2> QED
    BY <1>2, <2>1, <2>2, MarkersHold
    DEF Markers, Sound, Request, UnderWay, Nullable
<1>4. /\ request' = [request EXCEPT ![r] = q]
      /\ UNCHANGED <<now, ticket, history>>
  BY DEF Update
<1> QED
  <2> HIDE DEF q
  <2> QED
    BY <1>3, <1>4, RequestStep

LEMMA RecomputeStep ==
  ASSUME IInv, NEW r \in Requests, Recompute(r)
  PROVE  IInv'
<1> DEFINE old == request[r]
           patch == Stamped(Rebased(ticket[old.ticket], old.patch))
           q == [old EXCEPT !.pc = "commit", !.patch = patch]
<1>1. /\ old \in Request /\ old.pc = "recompute" /\ old.ticket \in Tickets
      /\ Exists(old.ticket) /\ ticket[old.ticket] \in Row
      /\ Coherent(old.patch) /\ (old.patch.reopens <=> "REOPENED" \in old.log)
      /\ (old.patch.slaPausedAt \in Nat => old.patch.slaPausedAt <= now)
  BY DEF IInv, TypeOK, RequestsAreSound, PausesArePast, Recompute, UnderWay,
         Nullable, Exists
<1>2. Rebased(ticket[old.ticket], old.patch) \in Patch
  BY <1>1, RebasedType DEF Request
<1>3. /\ patch \in Patch /\ Coherent(patch)
      /\ patch.reopens = old.patch.reopens
      /\ patch.slaPausedAt = old.patch.slaPausedAt
  <2> DEFINE b == Rebased(ticket[old.ticket], old.patch)
  <2>1. /\ b \in Patch /\ b.reopens = old.patch.reopens
        /\ b.slaPausedAt = old.patch.slaPausedAt
        /\ b.status = old.patch.status
        /\ b.resolvedAt = old.patch.resolvedAt
        /\ b.closedAt = old.patch.closedAt
    BY <1>1, RebasedType DEF Request
  <2>2. /\ b.resolvedAt = NULL => b.status = "OPEN"
        /\ b.closedAt = NULL => b.status = "OPEN"
    BY <1>1, <2>1 DEF Coherent
  <2>3. patch = Stamped(b)
    OBVIOUS
  <2> HIDE DEF b, patch
  <2> QED
    BY <2>1, <2>2, <2>3, StampedType DEF IInv, TypeOK
<1>4. Sound(q)
  <2> HIDE DEF patch
  <2> QED
    BY <1>1, <1>3 DEF Sound, Request, UnderWay
<1>5. /\ request' = [request EXCEPT ![r] = q]
      /\ UNCHANGED <<now, ticket, history>>
  BY DEF Recompute, IInv, TypeOK
<1> QED
  <2> HIDE DEF q
  <2> QED
    BY <1>4, <1>5, RequestStep

\* The endpoints that read once and decide.
LEMMA OneReadStep ==
  ASSUME IInv, NEW r \in Requests, NEW t \in Tickets,
         \/ Reopen(r, t)
         \/ \E staff, public, own \in BOOLEAN :
              AddComment(r, t, staff, public, own)
         \/ \E rating \in Ratings : RateCsat(r, t, rating)
         \/ \E p \in Priority : Escalate(r, t, p)
         \/ \E target \in Tickets : Merge(r, t, target)
  PROVE  IInv'
<1>1. now \in Nat
  BY TimeAssumption DEF IInv, TypeOK
<1>2. CASE Reopen(r, t)
  BY <1>2, ReopenPatchType, PendingSound, RequestStep, MarkersHold
  DEF Markers, Reopen, Accept, Exists, Logged
<1>3. ASSUME NEW staff \in BOOLEAN, NEW public \in BOOLEAN, NEW own \in BOOLEAN,
             AddComment(r, t, staff, public, own)
      PROVE  IInv'
  <2> DEFINE reply == [Nothing EXCEPT !.firstResponseAt = now]
  <2>1. /\ reply \in Patch /\ Coherent(reply)
        /\ ~reply.reopens /\ reply.slaPausedAt = KEEP
    BY <1>1, NothingType, MarkersHold DEF Markers, Patch, Coherent, Nothing
  <2>2. PICK p \in {ReopenPatch, reply} :
          /\ request' = [request EXCEPT ![r] =
                           Pending(t, p, IF p = ReopenPatch THEN {"REOPENED"}
                                                            ELSE {})]
          /\ UNCHANGED <<now, ticket, history>>
    <3>1. reply # ReopenPatch
      BY <2>1, ReopenPatchType
    <3> QED
      BY <1>3, <3>1 DEF AddComment
  <2>3. Exists(t)
    BY <1>3 DEF AddComment, Accept, Exists
  <2>4. Sound(Pending(t, p, IF p = ReopenPatch THEN {"REOPENED"} ELSE {}))
    <3> HIDE DEF reply
    <3> QED
      BY <2>1, <2>3, ReopenPatchType, PendingSound, MarkersHold
      DEF Markers, Logged
  <2> QED
    BY <2>2, <2>4, RequestStep
<1>4. ASSUME NEW rating \in Ratings, RateCsat(r, t, rating)
      PROVE  IInv'
  <2> DEFINE p == [Nothing EXCEPT !.csatRating = rating]
  <2>1. p \in Patch /\ Coherent(p) /\ ~p.reopens /\ p.slaPausedAt = KEEP
    BY NothingType, MarkersHold DEF Markers, Patch, Coherent, Nothing
  <2>2. /\ Exists(t) /\ request' = [request EXCEPT ![r] = Pending(t, p, {})]
        /\ UNCHANGED <<now, ticket, history>>
    BY <1>4 DEF RateCsat, Accept, Exists
  <2> HIDE DEF p
  <2> QED
    BY <2>1, <2>2, PendingSound, RequestStep, MarkersHold DEF Markers
<1>5. ASSUME NEW priority \in Priority, Escalate(r, t, priority)
      PROVE  IInv'
  <2> DEFINE p == [Nothing EXCEPT !.priority = priority]
  <2>1. p \in Patch /\ Coherent(p) /\ ~p.reopens /\ p.slaPausedAt = KEEP
    BY NothingType, MarkersHold DEF Markers, Patch, Coherent, Nothing
  <2>2. /\ Exists(t)
        /\ request' = [request EXCEPT ![r] = Pending(t, p, {"ESCALATED"})]
        /\ UNCHANGED <<now, ticket, history>>
    BY <1>5 DEF Escalate, Accept, Exists
  <2> HIDE DEF p
  <2> QED
    BY <2>1, <2>2, PendingSound, RequestStep, MarkersHold DEF Markers, Logged
<1>6. ASSUME NEW target \in Tickets, Merge(r, t, target)
      PROVE  IInv'
  <2> DEFINE p == [Nothing EXCEPT !.mergedIntoId = target,
                                  !.status = "CLOSED", !.closedAt = now]
  <2>1. p \in Patch /\ Coherent(p) /\ ~p.reopens /\ p.slaPausedAt = KEEP
    BY <1>1, NothingType, MarkersHold
    DEF Markers, Patch, Coherent, Nothing, Status, Nullable
  <2>2. /\ Exists(t)
        /\ request' = [request EXCEPT ![r] = Pending(t, p, {"MERGED"})]
        /\ UNCHANGED <<now, ticket, history>>
    BY <1>6 DEF Merge, Accept, Exists
  <2> HIDE DEF p
  <2> QED
    BY <2>1, <2>2, PendingSound, RequestStep, MarkersHold DEF Markers, Logged
<1> QED
  BY <1>2, <1>3, <1>4, <1>5, <1>6

\* Stopping and restarting the clock, and giving up.
LEMMA ClockStep ==
  ASSUME IInv, NEW r \in Requests, Pause(r) \/ Resume(r) \/ Fail(r)
  PROVE  IInv'
<1>1. now \in Nat
  BY TimeAssumption DEF IInv, TypeOK
<1>2. CASE Fail(r)
  BY <1>2, AtSound, RequestStep DEF Fail
<1> DEFINE t == request[r].ticket
<1>3. request[r].pc \in {"pause", "resume"} =>
        t \in Tickets /\ Exists(t) /\ ticket[t] \in Row
  BY DEF IInv, TypeOK, RequestsAreSound, UnderWay, Nullable, Exists
<1>4. CASE Pause(r)
  <2>1. PausePatch \in Patch /\ Coherent(PausePatch) /\ ~PausePatch.reopens
        /\ PausePatch.slaPausedAt = now
    BY <1>1, NothingType, MarkersHold
    DEF Markers, PausePatch, Patch, Coherent, Nothing, Nullable
  <2>2. Sound(Pending(t, PausePatch, {"SLA_PAUSED"}))
    BY <1>1, <1>3, <1>4, <2>1, PendingSound DEF Pause, Logged
  <2> QED
    BY <1>4, <2>2, AtSound, RequestStep DEF Pause
<1>5. CASE Resume(r)
  <2>1. CASE ticket[t].slaPausedAt = NULL
    BY <1>5, <2>1, AtSound, RequestStep DEF Resume
  <2>2. CASE ticket[t].slaPausedAt # NULL
    <3>1. ticket[t].slaPausedAt <= now
      BY <1>3, <1>5, <2>2 DEF IInv, PausesArePast, Resume
    <3>2. Sound(Pending(t, ResumePatch(ticket[t]), {"SLA_RESUMED"}))
      BY <1>1, <1>3, <1>5, <2>2, <3>1, ResumePatchType, PendingSound, MarkersHold
      DEF Markers, Resume, Logged
    <3> QED
      BY <1>5, <2>2, <3>2, RequestStep DEF Resume
  <2> QED
    BY <2>1, <2>2
<1> QED
  BY <1>2, <1>4, <1>5

-----------------------------------------------------------------------------
(* Steps that touch the database, and time *)

LEMMA CommitStep ==
  ASSUME IInv, NEW r \in Requests, Commit(r)
  PROVE  IInv'
<1> DEFINE q == request[r]
           t == q.ticket
           row == ticket[t]
           new == Written(row, q.patch)
           next == IF q.then = "done" THEN At("done")
                   ELSE [At(q.then) EXCEPT !.ticket = t]
<1>1. /\ q \in Request /\ t \in Tickets /\ Exists(t) /\ row \in Row
      /\ Coherent(q.patch) /\ (q.patch.reopens <=> "REOPENED" \in q.log)
      /\ (q.patch.slaPausedAt \in Nat => q.patch.slaPausedAt <= now)
  BY DEF IInv, TypeOK, RequestsAreSound, PausesArePast, Commit, UnderWay,
         Nullable, Exists
<1>2. /\ ticket' = [ticket EXCEPT ![t] = new]
      /\ history' = [history EXCEPT ![t] =
           [a \in Logged |-> IF a \in q.log THEN history[t][a] + 1
                                            ELSE history[t][a]]]
      /\ request' = [request EXCEPT ![r] = next]
      /\ now' = now
  BY <1>1 DEF Commit, IInv, TypeOK
<1>3. new \in Row /\ new # NULL
  BY <1>1, WrittenType, NullIsNoRow DEF Request
<1>4. /\ next \in Request
      /\ next.pc \in UnderWay => next.ticket = t
      /\ next.patch = Nothing /\ next.log = {}
  BY <1>1, NothingType DEF At, Request, UnderWay, Nullable
<1>5. TypeOK'
  <2>1. ticket' \in [Tickets -> Nullable(Row)]
    BY <1>1, <1>2, <1>3 DEF IInv, TypeOK, Nullable
  <2>2. history' \in [Tickets -> [Logged -> Nat]]
    BY <1>1, <1>2 DEF IInv, TypeOK
  <2>3. request' \in [Requests -> Request]
    BY <1>2, <1>4 DEF IInv, TypeOK
  <2> HIDE DEF new, next
  <2> QED
    BY <1>2, <2>1, <2>2, <2>3 DEF IInv, TypeOK
<1>6. /\ new.slaPausedAt # NULL => new.slaPausedAt <= now
      /\ new.status = "RESOLVED" => new.resolvedAt # NULL
      /\ new.status = "CLOSED" => new.closedAt # NULL
      /\ new.reopenedCount = IF q.patch.reopens THEN row.reopenedCount + 1
                                                ELSE row.reopenedCount
  <2>1. /\ new.status = Column(q.patch.status, row.status)
        /\ new.resolvedAt = Column(q.patch.resolvedAt, row.resolvedAt)
        /\ new.closedAt = Column(q.patch.closedAt, row.closedAt)
        /\ new.slaPausedAt = Column(q.patch.slaPausedAt, row.slaPausedAt)
        /\ new.reopenedCount = IF q.patch.reopens THEN row.reopenedCount + 1
                                                  ELSE row.reopenedCount
    BY <1>1 DEF Written, Row
  <2>2. /\ row.slaPausedAt # NULL => row.slaPausedAt <= now
        /\ row.status = "RESOLVED" => row.resolvedAt # NULL
        /\ row.status = "CLOSED" => row.closedAt # NULL
    BY <1>1 DEF IInv, PausesArePast, FinishedIsStamped
  <2>3. /\ q.patch.slaPausedAt \in Nullable(Nat) \cup {KEEP}
        /\ q.patch.status \in Status \cup {KEEP}
    BY <1>1 DEF Request, Patch
  <2> HIDE DEF new
  <2> QED
    BY <1>1, <2>1, <2>2, <2>3, MarkersHold
    DEF Markers, Coherent, Column, Nullable, Status
<1>7. PausesArePast'
  <2>1. ASSUME NEW u \in Tickets, ticket'[u] # NULL, ticket'[u].slaPausedAt # NULL
        PROVE  ticket'[u].slaPausedAt <= now
    BY <1>1, <1>2, <1>6, <2>1 DEF IInv, TypeOK, PausesArePast, Exists
  <2>2. ASSUME NEW v \in Requests, request'[v].patch.slaPausedAt \in Nat
        PROVE  request'[v].patch.slaPausedAt <= now
    BY <1>2, <1>4, <2>2, NothingType, MarkersHold
    DEF Markers, IInv, TypeOK, PausesArePast
  <2> QED
    BY <1>2, <2>1, <2>2 DEF PausesArePast, Exists
<1>8. RequestsAreSound'
  <2>1. \A u \in Tickets : Exists(u) => ticket'[u] # NULL
    BY <1>2, <1>3 DEF IInv, TypeOK, Exists
  <2>2. ticket'[t] # NULL
    BY <1>1, <2>1
  <2> SUFFICES ASSUME NEW v \in Requests
               PROVE  /\ request'[v].pc \in UnderWay =>
                           /\ request'[v].ticket \in Tickets
                           /\ ticket'[request'[v].ticket] # NULL
                      /\ Coherent(request'[v].patch)
                      /\ request'[v].patch.reopens
                           <=> "REOPENED" \in request'[v].log
    BY MarkersHold DEF RequestsAreSound, Exists, Coherent
  <2>3. CASE v = r
    <3>1. request'[v] = next
      BY <1>2, <2>3 DEF IInv, TypeOK
    <3> HIDE DEF next
    <3> QED
      BY <1>1, <1>4, <2>2, <3>1, NothingType
  <2>4. CASE v # r
    <3>1. request'[v] = request[v]
      BY <1>2, <2>4 DEF IInv, TypeOK
    <3> QED
      BY <2>1, <3>1 DEF IInv, RequestsAreSound
  <2> QED
    BY <2>3, <2>4
<1>9. NoHistoryBeforeBirth'
  BY <1>1, <1>2, <1>3 DEF IInv, TypeOK, NoHistoryBeforeBirth, Exists
<1>10. FinishedIsStamped'
  BY <1>1, <1>2, <1>6 DEF IInv, TypeOK, FinishedIsStamped, Exists
<1>11. ReopensAreCounted'
  <2>1. history'[t]["REOPENED"] = IF q.patch.reopens
                                  THEN history[t]["REOPENED"] + 1
                                  ELSE history[t]["REOPENED"]
    BY <1>1, <1>2 DEF IInv, TypeOK, Logged
  <2>2. new.reopenedCount = history'[t]["REOPENED"]
    BY <1>1, <1>6, <2>1 DEF IInv, ReopensAreCounted
  <2> QED
    BY <1>1, <1>2, <2>2 DEF IInv, TypeOK, ReopensAreCounted, Exists
<1> QED
  BY <1>5, <1>7, <1>8, <1>9, <1>10, <1>11 DEF IInv

LEMMA CreateStep ==
  ASSUME IInv, NEW t \in Tickets, Create(t)
  PROVE  IInv'
<1>1. PICK p \in Priority, hasPolicy \in BOOLEAN :
        ticket' = [ticket EXCEPT ![t] = NewRow(p, hasPolicy)]
  BY WorkloadAssumption DEF Create
<1> DEFINE new == NewRow(p, hasPolicy)
<1>2. /\ new \in Row /\ new # NULL /\ new.status = "OPEN"
      /\ new.slaPausedAt = NULL /\ new.reopenedCount = 0
  BY NewRowType, NullIsNoRow DEF IInv, TypeOK
<1>3. /\ ~Exists(t) /\ UNCHANGED <<now, request, history>>
  BY DEF Create, Exists
<1> HIDE DEF new
<1>4. ticket' = [ticket EXCEPT ![t] = new]
  BY <1>1 DEF new
<1>5. TypeOK'
  BY <1>2, <1>3, <1>4 DEF IInv, TypeOK, Nullable
<1>6. PausesArePast'
  BY <1>2, <1>3, <1>4 DEF IInv, TypeOK, PausesArePast, Exists
<1>7. RequestsAreSound'
  BY <1>2, <1>3, <1>4 DEF IInv, TypeOK, RequestsAreSound, Exists, Coherent
<1>8. NoHistoryBeforeBirth' /\ FinishedIsStamped'
  BY <1>2, <1>3, <1>4
  DEF IInv, TypeOK, NoHistoryBeforeBirth, FinishedIsStamped, Exists
<1>9. ReopensAreCounted'
  <2>1. history[t]["REOPENED"] = 0
    BY <1>3 DEF IInv, NoHistoryBeforeBirth, Logged
  <2> QED
    BY <1>2, <1>3, <1>4, <2>1 DEF IInv, TypeOK, ReopensAreCounted, Exists
<1> QED
  BY <1>5, <1>6, <1>7, <1>8, <1>9 DEF IInv

LEMMA TickStep ==
  ASSUME IInv, Tick
  PROVE  IInv'
<1>1. /\ now \in Nat /\ now' = now + 1 /\ now' \in 0..MaxNow
      /\ UNCHANGED <<ticket, request, history>>
  BY TimeAssumption DEF IInv, TypeOK, Tick
<1>2. ASSUME NEW n \in Nullable(Nat), n # NULL, n <= now
      PROVE  n <= now'
  BY <1>1, <1>2 DEF Nullable
<1>3. \A t \in Tickets : Exists(t) => ticket[t].slaPausedAt \in Nullable(Nat)
  BY DEF IInv, TypeOK, Exists, Nullable, Row
<1>4. PausesArePast'
  BY <1>1, <1>2, <1>3 DEF IInv, PausesArePast, Exists, Nullable
<1> QED
  BY <1>1, <1>4
  DEF IInv, TypeOK, RequestsAreSound, NoHistoryBeforeBirth, FinishedIsStamped,
      ReopensAreCounted, Exists, Coherent

-----------------------------------------------------------------------------
(* The theorems *)

LEMMA InitIInv == Init => IInv
<1> SUFFICES ASSUME Init PROVE IInv
  OBVIOUS
<1>1. Sound(At("idle"))
  BY AtSound
<1> QED
  BY <1>1, NothingType, TimeAssumption, MarkersHold
  DEF Init, IInv, TypeOK, PausesArePast, RequestsAreSound,
      NoHistoryBeforeBirth, FinishedIsStamped, ReopensAreCounted, Exists,
      Sound, Nullable, At, UnderWay, Request, Markers

LEMMA NextIInv == IInv /\ [Next]_vars => IInv'
<1> SUFFICES ASSUME IInv, [Next]_vars PROVE IInv'
  OBVIOUS
<1>1. CASE UNCHANGED vars
  BY <1>1
  DEF vars, IInv, TypeOK, PausesArePast, RequestsAreSound,
      NoHistoryBeforeBirth, FinishedIsStamped, ReopensAreCounted, Exists,
      Coherent
<1>2. CASE Tick
  BY <1>2, TickStep
<1>3. ASSUME NEW t \in Tickets, Create(t) PROVE IInv'
  BY <1>3, CreateStep
<1>4. ASSUME NEW r \in Requests, NEW t \in Tickets, Start(r, t) PROVE IInv'
  BY <1>4, WorkloadAssumption, UpdateStep, OneReadStep DEF Start
<1>5. ASSUME NEW r \in Requests, Advance(r) PROVE IInv'
  BY <1>5, RecomputeStep, CommitStep, ClockStep DEF Advance
<1>6. ASSUME NEW r \in Requests, Fail(r) PROVE IInv'
  BY <1>6, ClockStep
<1> QED
  BY <1>1, <1>2, <1>3, <1>4, <1>5, <1>6 DEF Next

\* The strengthened invariant holds in every reachable state.
THEOREM Invariance == Spec => []IInv
  BY InitIInv, NextIInv, PTL DEF Spec

\* Every column, request and history counter keeps its type.
THEOREM TypeCorrect == Spec => []TypeOK
<1>1. IInv => TypeOK
  BY DEF IInv
<1> QED
  BY <1>1, Invariance, PTL

\* A resolved or closed ticket says since when, for every interleaving.
THEOREM FinishedStamped == Spec => []FinishedIsStamped
<1>1. IInv => FinishedIsStamped
  BY DEF IInv
<1> QED
  BY <1>1, Invariance, PTL

\* reopenedCount equals the number of REOPENED rows, for every interleaving.
THEOREM ReopensCounted == Spec => []ReopensAreCounted
<1>1. IInv => ReopensAreCounted
  BY DEF IInv
<1> QED
  BY <1>1, Invariance, PTL

\* Both together, as the run checks them.
THEOREM LifecycleRecorded == Spec => []LifecycleIsRecorded
<1>1. IInv => LifecycleIsRecorded
  BY DEF IInv, LifecycleIsRecorded
<1> QED
  BY <1>1, Invariance, PTL

-----------------------------------------------------------------------------
(* One request at a time *)

\* How a status change and the call that follows the commit fit the row.
Follows(q, row) ==
  /\ q.patch.status \in Waiting => row.status \in Waiting \/ q.then = "pause"
  /\ q.then = "resume" => q.patch.status = "OPEN"
  /\ q.patch.resolvedAt = NULL => q.patch.priority = KEEP

\* The patch of an endpoint: it leaves the pause alone, and moves due dates
\* only with the priority.
FitsEndpoint(q, row) ==
  /\ q.patch.slaPausedAt = KEEP
  /\ q.log \cap {"SLA_PAUSED", "SLA_RESUMED"} = {}
  /\ q.patch.priority \in {KEEP, row.priority} =>
       q.patch.responseDueAt = KEEP /\ q.patch.resolutionDueAt = KEEP
  /\ q.patch.firstResponseAt # KEEP =>
       row.firstResponseAt = NULL /\ q.patch.priority = KEEP
  /\ q.patch.csatRating # KEEP => row.csatRating = NULL
  /\ Follows(q, row)

FitsPause(q, row) ==
  /\ q.patch = PausePatch /\ q.log = {"SLA_PAUSED"} /\ q.then = "done"
  /\ row.slaPausedAt = NULL

FitsResume(q, row) ==
  /\ q.patch = ResumePatch(row) /\ q.log = {"SLA_RESUMED"} /\ q.then = "done"
  /\ row.slaPausedAt # NULL /\ row.status \notin Waiting

\* A second read lies ahead: only status and priority are decided.
FitsRecompute(q, row) ==
  /\ FitsEndpoint(q, row)
  /\ q.patch.firstResponseAt = KEEP
  /\ q.patch.priority \notin {KEEP, row.priority}
  /\ q.patch.resolvedAt # NULL

Fits(q, row) ==
  /\ q.pc = "recompute" => FitsRecompute(q, row)
  /\ q.pc = "commit" => \/ FitsEndpoint(q, row)
                        \/ FitsPause(q, row)
                        \/ FitsResume(q, row)
  /\ q.pc = "resume" => row.status \notin Waiting

OneAtATime == \A r, v \in Requests :
  request[r].pc \in UnderWay /\ request[v].pc \in UnderWay => r = v

ReadsHold == \A r \in Requests :
  request[r].pc \in UnderWay => Fits(request[r], ticket[request[r].ticket])

Balanced(t) ==
  history[t]["SLA_PAUSED"] =
    history[t]["SLA_RESUMED"] + (IF ticket[t].slaPausedAt = NULL THEN 0 ELSE 1)

\* The handler is about to stop the clock of t.
WillPause(q, t) ==
  /\ q.ticket = t
  /\ \/ q.pc = "pause"
     \/ q.pc = "commit" /\ q.patch = PausePatch

Unpaused(t) ==
  Exists(t) /\ ticket[t].status \in Waiting /\ ticket[t].slaPausedAt = NULL

\* A waiting ticket's clock is stopped, about to be, or a handler has failed.
PauseComes ==
  \A t \in Tickets : Unpaused(t) =>
    \E r \in Requests : WillPause(request[r], t) \/ request[r].pc = "failed"

SInv == /\ IInv /\ OneAtATime /\ ReadsHold
        /\ \A t \in Tickets : Exists(t) => Balanced(t)
        /\ PauseComes

-----------------------------------------------------------------------------
(* A step of one handler that leaves the tickets alone *)

LEMMA HandlerStep ==
  ASSUME SInv, IInv', NEW r \in Requests, NEW q,
         \A v \in Requests : request[v].pc \in UnderWay => v = r,
         request' = [request EXCEPT ![r] = q],
         UNCHANGED <<now, ticket, history>>,
         q.pc \in UnderWay => Fits(q, ticket[q.ticket]),
         request[r].pc # "failed",
         \A t \in Tickets : WillPause(request[r], t) /\ Unpaused(t) =>
           WillPause(q, t) \/ q.pc = "failed"
  PROVE  SInv'
<1>1. \A v \in Requests : request'[v] = IF v = r THEN q ELSE request[v]
  BY DEF SInv, IInv, TypeOK
<1>2. OneAtATime'
  BY <1>1 DEF OneAtATime
<1>3. ReadsHold'
  <2> SUFFICES ASSUME NEW v \in Requests, request'[v].pc \in UnderWay
               PROVE  Fits(request[v], ticket[request[v].ticket])'
    BY DEF ReadsHold
  <2>1. v = r /\ request'[v] = q
    BY <1>1
  <2>2. Fits(q, ticket[q.ticket])
    BY <2>1
  <2>3. request'[v] = q /\ ticket' = ticket /\ now' = now
    BY <2>1
  <2> QED
    BY ZenonT(60), <2>2, <2>3
    DEF Fits, FitsEndpoint, FitsRecompute, FitsPause, FitsResume, Follows,
        PausePatch, ResumePatch
<1>4. \A t \in Tickets : Exists(t)' => Balanced(t)'
  BY DEF SInv, Exists, Balanced
<1>5. PauseComes'
  <2> SUFFICES ASSUME NEW t \in Tickets, Unpaused(t)
               PROVE  \E v \in Requests : \/ WillPause(request'[v], t)
                                          \/ request'[v].pc = "failed"
    BY DEF PauseComes, Unpaused, Exists, WillPause, PausePatch
  <2>1. PICK v \in Requests : \/ WillPause(request[v], t)
                              \/ request[v].pc = "failed"
    BY DEF SInv, PauseComes
  <2>2. CASE v = r
    BY <1>1, <2>1, <2>2
  <2>3. CASE v # r
    BY <1>1, <2>1, <2>3
  <2> QED
    BY <2>2, <2>3
<1> QED
  BY <1>2, <1>3, <1>4, <1>5 DEF SInv

-----------------------------------------------------------------------------
(* The endpoints: nobody else is under way *)

LEMMA StartStep ==
  ASSUME SInv, IInv', Serial, NEW r \in Requests, NEW t \in Tickets, NEW op,
         Accept(r, t, op), NEW q, request' = [request EXCEPT ![r] = q],
         UNCHANGED <<now, ticket, history>>,
         q.pc \in UnderWay => Fits(q, ticket[q.ticket])
  PROVE  SInv'
<1>1. request[r].pc = "idle" /\ Running = {}
  BY DEF Accept
<1>2. \A v \in Requests : request[v].pc \in UnderWay => v = r
  BY <1>1 DEF Running, UnderWay
<1>3. \A u \in Tickets : ~WillPause(request[r], u)
  BY <1>1 DEF WillPause
<1> QED
  BY <1>1, <1>2, <1>3, HandlerStep

\* A patch that decides on nothing the clock looks at.
LEMMA PendingFits ==
  ASSUME NEW t, NEW p, NEW log, NEW row,
         p.slaPausedAt = KEEP, p.responseDueAt = KEEP, p.resolutionDueAt = KEEP,
         log \cap {"SLA_PAUSED", "SLA_RESUMED"} = {},
         p.firstResponseAt # KEEP => row.firstResponseAt = NULL /\ p.priority = KEEP,
         p.csatRating # KEEP => row.csatRating = NULL,
         p.status \notin Waiting,
         p.resolvedAt = NULL => p.priority = KEEP
  PROVE  Fits(Pending(t, p, log), row)
  BY DEF Fits, FitsEndpoint, Follows, Pending

LEMMA KeepIsNoStatus == KEEP \notin Waiting /\ KEEP \notin Priority /\ KEEP # NULL
  BY MarkerAssumption DEF Waiting, Status, Priority

LEMMA UpdateFits ==
  ASSUME SInv, IInv', Serial, NEW r \in Requests, NEW t \in Tickets,
         NEW status \in Status \cup {KEEP}, NEW priority \in Priority \cup {KEEP},
         Update(r, t, status, priority)
  PROVE  SInv'
<1> DEFINE row == ticket[t]
           s == IF status = row.status THEN KEEP ELSE status
           p == IF priority = row.priority THEN KEEP ELSE priority
           base == [Nothing EXCEPT !.status = s, !.priority = p]
           q == [pc |-> IF p = KEEP THEN "commit" ELSE "recompute",
                 ticket |-> t, patch |-> Stamped(base), log |-> {},
                 then |-> IF s = KEEP THEN "done"
                          ELSE SlaTransition(row.status, s)]
<1>1. /\ Accept(r, t, "update")
      /\ request' = [request EXCEPT ![r] = q]
      /\ UNCHANGED <<now, ticket, history>>
  BY DEF Update
<1>2. /\ Stamped(base).slaPausedAt = KEEP
      /\ Stamped(base).responseDueAt = KEEP
      /\ Stamped(base).resolutionDueAt = KEEP
      /\ Stamped(base).firstResponseAt = KEEP
      /\ Stamped(base).csatRating = KEEP
      /\ Stamped(base).status = s /\ Stamped(base).priority = p
      /\ Stamped(base).resolvedAt \in {KEEP, now}
  BY DEF Stamped, Nothing
<1>3. now # NULL /\ KEEP # NULL
  BY MarkersHold, TimeAssumption DEF Markers, SInv, IInv, TypeOK
<1>4. /\ s \in Waiting => row.status \in Waiting \/ q.then = "pause"
      /\ q.then = "resume" => s = "OPEN"
      /\ p = KEEP \/ p # row.priority
  BY KeepIsNoStatus DEF SlaTransition
<1>5. Fits(q, row)
  <2> HIDE DEF base, s, p, row
  <2>1. /\ q.patch = Stamped(base) /\ q.log = {}
        /\ q.pc = IF p = KEEP THEN "commit" ELSE "recompute"
    OBVIOUS
  <2> HIDE DEF q
  <2>2. FitsEndpoint(q, row)
    BY <1>2, <1>3, <1>4, <2>1 DEF FitsEndpoint, Follows
  <2> QED
    BY <1>2, <1>3, <1>4, <2>1, <2>2 DEF Fits, FitsRecompute
<1>6. q.ticket = t
  OBVIOUS
<1> HIDE DEF q
<1> QED
  BY <1>1, <1>5, <1>6, StartStep

LEMMA OneReadFits ==
  ASSUME SInv, IInv', Serial, NEW r \in Requests, NEW t \in Tickets,
         \/ Reopen(r, t)
         \/ \E staff, public, own \in BOOLEAN :
              AddComment(r, t, staff, public, own)
         \/ \E rating \in Ratings : RateCsat(r, t, rating)
         \/ \E p \in Priority : Escalate(r, t, p)
         \/ \E target \in Tickets : Merge(r, t, target)
  PROVE  SInv'
<1>1. /\ "OPEN" \notin Waiting /\ "CLOSED" \notin Waiting
      /\ KEEP \notin Waiting /\ KEEP # NULL
  BY KeepIsNoStatus DEF Waiting
<1>2. Fits(Pending(t, ReopenPatch, {"REOPENED"}), ticket[t])
  <2>1. /\ ReopenPatch.slaPausedAt = KEEP /\ ReopenPatch.responseDueAt = KEEP
        /\ ReopenPatch.resolutionDueAt = KEEP
        /\ ReopenPatch.firstResponseAt = KEEP /\ ReopenPatch.csatRating = KEEP
        /\ ReopenPatch.status = "OPEN" /\ ReopenPatch.priority = KEEP
    BY DEF ReopenPatch, Nothing
  <2> QED
    BY <1>1, <2>1, PendingFits
<1>3. CASE Reopen(r, t)
  BY <1>2, <1>3, StartStep DEF Reopen, Pending
<1>4. ASSUME NEW staff \in BOOLEAN, NEW public \in BOOLEAN, NEW own \in BOOLEAN,
             AddComment(r, t, staff, public, own)
      PROVE  SInv'
  <2> DEFINE reply == [Nothing EXCEPT !.firstResponseAt = now]
             reopened == ~staff /\ public /\ ticket[t].status \in Finished
  <2>1. CASE reopened
    BY <1>2, <1>4, <2>1, StartStep DEF AddComment, Pending
  <2>2. CASE ~reopened
    <3>1. /\ ticket[t].firstResponseAt = NULL /\ Accept(r, t, "comment")
          /\ request' = [request EXCEPT ![r] = Pending(t, reply, {})]
          /\ UNCHANGED <<now, ticket, history>>
      BY <1>4, <2>2 DEF AddComment, IsFirstStaffReply
    <3>2. /\ reply.slaPausedAt = KEEP /\ reply.responseDueAt = KEEP
          /\ reply.resolutionDueAt = KEEP /\ reply.csatRating = KEEP
          /\ reply.status = KEEP /\ reply.priority = KEEP
          /\ reply.resolvedAt = KEEP
      BY DEF Nothing
    <3> HIDE DEF reply
    <3>3. Fits(Pending(t, reply, {}), ticket[t])
      BY <1>1, <3>1, <3>2, PendingFits
    <3> QED
      BY <3>1, <3>3, StartStep DEF Pending
  <2> QED
    BY <2>1, <2>2
<1>5. ASSUME NEW rating \in Ratings, RateCsat(r, t, rating)
      PROVE  SInv'
  <2> DEFINE p == [Nothing EXCEPT !.csatRating = rating]
  <2>1. /\ p.slaPausedAt = KEEP /\ p.responseDueAt = KEEP
        /\ p.resolutionDueAt = KEEP /\ p.firstResponseAt = KEEP
        /\ p.status = KEEP /\ p.resolvedAt = KEEP
    BY DEF Nothing
  <2>2. /\ Accept(r, t, "csat") /\ ticket[t].csatRating = NULL
        /\ request' = [request EXCEPT ![r] = Pending(t, p, {})]
        /\ UNCHANGED <<now, ticket, history>>
    BY <1>5 DEF RateCsat
  <2> HIDE DEF p
  <2>3. Fits(Pending(t, p, {}), ticket[t])
    BY <1>1, <2>1, <2>2, PendingFits
  <2> QED
    BY <2>2, <2>3, StartStep DEF Pending
<1>6. ASSUME NEW priority \in Priority, Escalate(r, t, priority)
      PROVE  SInv'
  <2> DEFINE p == [Nothing EXCEPT !.priority = priority]
  <2>1. /\ p.slaPausedAt = KEEP /\ p.responseDueAt = KEEP
        /\ p.resolutionDueAt = KEEP /\ p.firstResponseAt = KEEP
        /\ p.status = KEEP /\ p.resolvedAt = KEEP /\ p.csatRating = KEEP
    BY DEF Nothing
  <2>2. /\ Accept(r, t, "escalate")
        /\ request' = [request EXCEPT ![r] = Pending(t, p, {"ESCALATED"})]
        /\ UNCHANGED <<now, ticket, history>>
    BY <1>6 DEF Escalate
  <2> HIDE DEF p
  <2>3. Fits(Pending(t, p, {"ESCALATED"}), ticket[t])
    BY <1>1, <2>1, PendingFits
  <2> QED
    BY <2>2, <2>3, StartStep DEF Pending
<1>7. ASSUME NEW target \in Tickets, Merge(r, t, target)
      PROVE  SInv'
  <2> DEFINE p == [Nothing EXCEPT !.mergedIntoId = target,
                                  !.status = "CLOSED", !.closedAt = now]
  <2>1. /\ p.slaPausedAt = KEEP /\ p.responseDueAt = KEEP
        /\ p.resolutionDueAt = KEEP /\ p.firstResponseAt = KEEP
        /\ p.status = "CLOSED" /\ p.resolvedAt = KEEP /\ p.csatRating = KEEP
    BY DEF Nothing
  <2>2. /\ Accept(r, t, "merge")
        /\ request' = [request EXCEPT ![r] = Pending(t, p, {"MERGED"})]
        /\ UNCHANGED <<now, ticket, history>>
    BY <1>7 DEF Merge
  <2> HIDE DEF p
  <2>3. Fits(Pending(t, p, {"MERGED"}), ticket[t])
    BY <1>1, <2>1, PendingFits
  <2> QED
    BY <2>2, <2>3, StartStep DEF Pending
<1> QED
  BY <1>3, <1>4, <1>5, <1>6, <1>7

-----------------------------------------------------------------------------
(* The handler under way goes on *)

LEMMA AdvanceStep ==
  ASSUME SInv, IInv', NEW r \in Requests, request[r].pc \in UnderWay,
         NEW q, request' = [request EXCEPT ![r] = q],
         UNCHANGED <<now, ticket, history>>,
         q.pc \in UnderWay => Fits(q, ticket[q.ticket]),
         \A t \in Tickets : WillPause(request[r], t) /\ Unpaused(t) =>
           WillPause(q, t) \/ q.pc = "failed"
  PROVE  SInv'
<1>1. \A v \in Requests : request[v].pc \in UnderWay => v = r
  BY DEF SInv, OneAtATime
<1>2. request[r].pc # "failed"
  BY DEF UnderWay
<1> QED
  BY <1>1, <1>2, HandlerStep

LEMMA RecomputeFits ==
  ASSUME SInv, IInv', NEW r \in Requests, Recompute(r)
  PROVE  SInv'
<1> DEFINE old == request[r]
           row == ticket[old.ticket]
           b == Rebased(row, old.patch)
           q == [old EXCEPT !.pc = "commit", !.patch = Stamped(b)]
<1>1. /\ request' = [request EXCEPT ![r] = q]
      /\ UNCHANGED <<now, ticket, history>>
      /\ old.pc = "recompute" /\ old \in Request /\ old.ticket \in Tickets
      /\ row \in Row
  BY DEF Recompute, SInv, IInv, TypeOK, RequestsAreSound, UnderWay, Exists,
         Nullable
<1>2. FitsRecompute(old, row)
  BY <1>1 DEF SInv, ReadsHold, Fits, UnderWay
<1>3. /\ b \in Patch
      /\ b.status = old.patch.status /\ b.priority = old.patch.priority
      /\ b.slaPausedAt = old.patch.slaPausedAt
      /\ b.resolvedAt = old.patch.resolvedAt
      /\ b.firstResponseAt = old.patch.firstResponseAt
      /\ b.csatRating = old.patch.csatRating
  <2>1. old.patch \in Patch
    BY <1>1 DEF Request
  <2>2. b \in Patch
    BY <1>1, <2>1, RebasedType
  <2> QED
    BY <2>1, <2>2 DEF Rebased, Patch
<1> HIDE DEF b
<1>4. /\ Stamped(b).status = b.status /\ Stamped(b).priority = b.priority
      /\ Stamped(b).slaPausedAt = b.slaPausedAt
      /\ Stamped(b).firstResponseAt = b.firstResponseAt
      /\ Stamped(b).csatRating = b.csatRating
      /\ Stamped(b).resolvedAt \in {b.resolvedAt, now}
  <2> DEFINE x == IF b.status = "RESOLVED" THEN now ELSE b.resolvedAt
             y == IF b.status = "CLOSED" THEN now ELSE b.closedAt
  <2>1. Stamped(b) = [b EXCEPT !.resolvedAt = x, !.closedAt = y]
    BY DEF Stamped
  <2>2. x \in {b.resolvedAt, now}
    OBVIOUS
  <2> HIDE DEF x, y
  <2> QED
    BY <1>3, <2>1, <2>2 DEF Patch
<1>5. now # NULL
  BY MarkersHold, TimeAssumption DEF Markers, SInv, IInv, TypeOK
<1>6. /\ q.pc = "commit" /\ q.patch = Stamped(b) /\ q.log = old.log
      /\ q.then = old.then /\ q.ticket = old.ticket
  BY <1>1 DEF Request
<1> HIDE DEF q
<1>7. Fits(q, row)
  BY <1>2, <1>3, <1>4, <1>5, <1>6
  DEF Fits, FitsEndpoint, FitsRecompute, Follows
<1>8. \A t \in Tickets : ~WillPause(old, t)
  BY <1>1 DEF WillPause
<1>9. old.pc \in UnderWay
  BY <1>1 DEF UnderWay
<1> QED
  BY <1>1, <1>6, <1>7, <1>8, <1>9, AdvanceStep

LEMMA ClockFits ==
  ASSUME SInv, IInv', NEW r \in Requests, Pause(r) \/ Resume(r) \/ Fail(r)
  PROVE  SInv'
<1> DEFINE t == request[r].ticket
<1>1. request[r].pc \in UnderWay /\ UNCHANGED <<now, ticket, history>>
  BY DEF Pause, Resume, Fail, Running, UnderWay
<1>2. CASE Fail(r)
  <2>1. request' = [request EXCEPT ![r] = At("failed")]
    BY <1>2 DEF Fail
  <2>2. At("failed").pc = "failed"
    BY DEF At
  <2>3. At("failed").pc \notin UnderWay
    BY <2>2 DEF UnderWay
  <2> QED
    BY <1>1, <2>1, <2>2, <2>3, AdvanceStep
<1>3. CASE Pause(r)
  <2>1. CASE ticket[t].slaPausedAt # NULL
    <3>1. request' = [request EXCEPT ![r] = At("done")]
      BY <1>3, <2>1 DEF Pause
    <3>2. \A u \in Tickets : ~(WillPause(request[r], u) /\ Unpaused(u))
      BY <2>1 DEF WillPause, Unpaused
    <3> QED
      BY <1>1, <3>1, <3>2, AdvanceStep DEF At, UnderWay
  <2>2. CASE ticket[t].slaPausedAt = NULL
    <3> DEFINE q == Pending(t, PausePatch, {"SLA_PAUSED"})
    <3>1. request' = [request EXCEPT ![r] = q]
      BY <1>3, <2>2 DEF Pause
    <3>2. /\ q.ticket = t /\ q.pc = "commit" /\ q.patch = PausePatch
          /\ q.log = {"SLA_PAUSED"} /\ q.then = "done"
      BY DEF Pending
    <3> HIDE DEF q
    <3>3. Fits(q, ticket[t])
      BY <2>2, <3>2 DEF Fits, FitsPause
    <3>4. \A u \in Tickets : WillPause(request[r], u) => WillPause(q, u)
      BY <3>2 DEF WillPause
    <3> QED
      BY <1>1, <3>1, <3>2, <3>3, <3>4, AdvanceStep
  <2> QED
    BY <2>1, <2>2
<1>4. CASE Resume(r)
  <2>1. /\ \A u \in Tickets : ~WillPause(request[r], u)
        /\ ticket[t].status \notin Waiting
    BY <1>4 DEF Resume, WillPause, SInv, ReadsHold, Fits, UnderWay
  <2>2. CASE ticket[t].slaPausedAt = NULL
    <3>1. request' = [request EXCEPT ![r] = At("done")]
      BY <1>4, <2>2 DEF Resume
    <3> QED
      BY <1>1, <2>1, <3>1, AdvanceStep DEF At, UnderWay
  <2>3. CASE ticket[t].slaPausedAt # NULL
    <3> DEFINE q == Pending(t, ResumePatch(ticket[t]), {"SLA_RESUMED"})
    <3>1. request' = [request EXCEPT ![r] = q]
      BY <1>4, <2>3 DEF Resume
    <3>2. /\ q.ticket = t /\ q.pc = "commit" /\ q.patch = ResumePatch(ticket[t])
          /\ q.log = {"SLA_RESUMED"} /\ q.then = "done"
      BY DEF Pending
    <3> HIDE DEF q
    <3>3. Fits(q, ticket[t])
      BY <2>1, <2>3, <3>2 DEF Fits, FitsResume
    <3> QED
      BY <1>1, <2>1, <3>1, <3>2, <3>3, AdvanceStep
  <2> QED
    BY <2>2, <2>3
<1> QED
  BY <1>2, <1>3, <1>4

LEMMA TickFits ==
  ASSUME SInv, IInv', Serial, Tick
  PROVE  SInv'
<1>1. /\ UNCHANGED <<ticket, request, history>>
      /\ \A r \in Requests : request[r].pc \notin UnderWay
  BY DEF Tick, Running, UnderWay
<1>2. OneAtATime' /\ ReadsHold'
  BY <1>1 DEF OneAtATime, ReadsHold
<1>3. \A t \in Tickets : Exists(t)' => Balanced(t)'
  BY <1>1 DEF SInv, Exists, Balanced
<1>4. PauseComes'
  <2> SUFFICES ASSUME NEW t \in Tickets, Unpaused(t)
               PROVE  \E v \in Requests : request[v].pc = "failed"
    BY <1>1 DEF PauseComes, Unpaused, Exists, WillPause
  <2> QED
    BY <1>1 DEF SInv, PauseComes, WillPause, UnderWay
<1> QED
  BY <1>2, <1>3, <1>4 DEF SInv

LEMMA CreateFits ==
  ASSUME SInv, IInv', NEW t \in Tickets, Create(t)
  PROVE  SInv'
<1>1. PICK p \in Priority, hasPolicy \in BOOLEAN :
        ticket' = [ticket EXCEPT ![t] = NewRow(p, hasPolicy)]
  BY WorkloadAssumption DEF Create
<1> DEFINE new == NewRow(p, hasPolicy)
<1>2. new.status = "OPEN" /\ new.slaPausedAt = NULL
  BY DEF NewRow
<1>3. /\ ~Exists(t) /\ now' = now /\ request' = request /\ history' = history
  BY DEF Create, Exists
<1> HIDE DEF new
<1>4. \A u \in Tickets : ticket'[u] = IF u = t THEN new ELSE ticket[u]
  BY <1>1 DEF new, SInv, IInv, TypeOK
<1>5. OneAtATime'
  BY <1>3 DEF SInv, OneAtATime
<1>6. ReadsHold'
  <2> SUFFICES ASSUME NEW r \in Requests, request[r].pc \in UnderWay
               PROVE  Fits(request[r], ticket[request[r].ticket])'
    BY <1>3 DEF ReadsHold
  <2>1. request[r].ticket \in Tickets /\ request[r].ticket # t
    BY <1>3 DEF SInv, IInv, RequestsAreSound
  <2>2. /\ ticket'[request[r].ticket] = ticket[request[r].ticket]
        /\ Fits(request[r], ticket[request[r].ticket])
    BY <1>4, <2>1 DEF SInv, ReadsHold
  <2> QED
    BY ZenonT(60), <1>3, <2>2
    DEF Fits, FitsEndpoint, FitsRecompute, FitsPause, FitsResume, Follows,
        PausePatch, ResumePatch
<1>7. \A u \in Tickets : Exists(u)' => Balanced(u)'
  <2>1. history[t]["SLA_PAUSED"] = 0 /\ history[t]["SLA_RESUMED"] = 0
    BY <1>3 DEF SInv, IInv, NoHistoryBeforeBirth, Logged
  <2> QED
    BY <1>2, <1>3, <1>4, <2>1 DEF SInv, Exists, Balanced
<1>8. PauseComes'
  <2>1. \A u \in Tickets : Unpaused(u)' => Unpaused(u)
    BY <1>2, <1>4 DEF Unpaused, Exists, Waiting
  <2> QED
    BY <1>3, <2>1 DEF SInv, PauseComes, WillPause, PausePatch
<1> QED
  BY <1>5, <1>6, <1>7, <1>8 DEF SInv

-----------------------------------------------------------------------------
(* The transaction *)

LEMMA WrittenColumns ==
  ASSUME NEW row \in Row, NEW p
  PROVE  /\ Written(row, p).status = Column(p.status, row.status)
         /\ Written(row, p).priority = Column(p.priority, row.priority)
         /\ Written(row, p).slaPausedAt = Column(p.slaPausedAt, row.slaPausedAt)
         /\ Written(row, p).responseDueAt =
              Column(p.responseDueAt, row.responseDueAt)
         /\ Written(row, p).resolutionDueAt =
              Column(p.resolutionDueAt, row.resolutionDueAt)
         /\ Written(row, p).firstResponseAt =
              Column(p.firstResponseAt, row.firstResponseAt)
         /\ Written(row, p).resolvedAt = Column(p.resolvedAt, row.resolvedAt)
         /\ Written(row, p).csatRating = Column(p.csatRating, row.csatRating)
  BY DEF Written, Row

\* What a commit finds and what it leaves behind.
LEMMA CommitFacts ==
  ASSUME SInv, NEW r \in Requests, Commit(r)
  PROVE  LET q == request[r]
             row == ticket[q.ticket]
         IN /\ q \in Request /\ q.ticket \in Tickets /\ Exists(q.ticket)
            /\ row \in Row /\ now' = now
            /\ q.pc = "commit"
            /\ \A v \in Requests : v # r => /\ request[v].pc \notin UnderWay
                                            /\ request'[v] = request[v]
            /\ request'[r] = IF q.then = "done" THEN At("done")
                             ELSE [At(q.then) EXCEPT !.ticket = q.ticket]
            /\ \A u \in Tickets :
                 ticket'[u] = IF u = q.ticket THEN Written(row, q.patch)
                              ELSE ticket[u]
            /\ \A u \in Tickets, a \in Logged :
                 history'[u][a] = IF u = q.ticket /\ a \in q.log
                                  THEN history[u][a] + 1 ELSE history[u][a]
            /\ Written(row, q.patch) # NULL
            /\ \/ FitsEndpoint(q, row)
               \/ FitsPause(q, row)
               \/ FitsResume(q, row)
<1> DEFINE q == request[r]
           row == ticket[q.ticket]
<1>1. /\ q.pc = "commit" /\ q.pc \in UnderWay
      /\ ticket' = [ticket EXCEPT ![q.ticket] = Written(@, q.patch)]
      /\ history' = [history EXCEPT ![q.ticket] =
           [a \in Logged |-> IF a \in q.log THEN @[a] + 1 ELSE @[a]]]
      /\ request' = [request EXCEPT ![r] =
           IF q.then = "done" THEN At("done")
           ELSE [At(q.then) EXCEPT !.ticket = q.ticket]]
      /\ now' = now
  BY DEF Commit, UnderWay
<1>2. /\ q \in Request /\ q.ticket \in Tickets /\ Exists(q.ticket)
      /\ row \in Row
  BY <1>1 DEF SInv, IInv, TypeOK, RequestsAreSound, Exists, Nullable
<1>3. Written(row, q.patch) # NULL
  BY <1>2, WrittenType, NullIsNoRow DEF Request
<1>4. Fits(q, row)
  BY <1>1 DEF SInv, ReadsHold
<1>5. \A v \in Requests : v # r => request[v].pc \notin UnderWay
  BY <1>1 DEF SInv, OneAtATime
<1>6. \A u \in Tickets, a \in Logged :
        history'[u][a] = IF u = q.ticket /\ a \in q.log
                         THEN history[u][a] + 1 ELSE history[u][a]
  BY <1>1, <1>2 DEF SInv, IInv, TypeOK
<1>7. \A u \in Tickets : ticket'[u] = IF u = q.ticket
                                      THEN Written(row, q.patch) ELSE ticket[u]
  BY <1>1, <1>2 DEF SInv, IInv, TypeOK
<1>8. /\ \A v \in Requests : v # r => request'[v] = request[v]
      /\ request'[r] = IF q.then = "done" THEN At("done")
                       ELSE [At(q.then) EXCEPT !.ticket = q.ticket]
  BY <1>1 DEF SInv, IInv, TypeOK
<1>9. FitsEndpoint(q, row) \/ FitsPause(q, row) \/ FitsResume(q, row)
  BY <1>1, <1>4 DEF Fits
<1> QED
  BY <1>1, <1>2, <1>3, <1>5, <1>6, <1>7, <1>8, <1>9

LEMMA CommitFits ==
  ASSUME SInv, IInv', NEW r \in Requests, Commit(r)
  PROVE  SInv'
<1>0. PICK t \in Tickets : t = request[r].ticket
  BY CommitFacts
<1> DEFINE q == request[r]
           row == ticket[t]
           new == Written(row, q.patch)
           next == IF q.then = "done" THEN At("done")
                   ELSE [At(q.then) EXCEPT !.ticket = t]
<1>1. /\ q \in Request /\ t = q.ticket /\ Exists(t)
      /\ row \in Row /\ now' = now /\ q.pc = "commit"
      /\ \A v \in Requests : v # r => /\ request[v].pc \notin UnderWay
                                      /\ request'[v] = request[v]
      /\ request'[r] = next
      /\ \A u \in Tickets : ticket'[u] = IF u = t THEN new ELSE ticket[u]
      /\ \A u \in Tickets, a \in Logged :
           history'[u][a] = IF u = t /\ a \in q.log
                            THEN history[u][a] + 1 ELSE history[u][a]
      /\ new # NULL
  BY <1>0, CommitFacts
<1>2. FitsEndpoint(q, row) \/ FitsPause(q, row) \/ FitsResume(q, row)
  BY <1>0, CommitFacts
<1>3. /\ new.status = Column(q.patch.status, row.status)
      /\ new.slaPausedAt = Column(q.patch.slaPausedAt, row.slaPausedAt)
  BY <1>1, WrittenColumns
<1>4. /\ next.pc = q.then /\ (q.then # "done" => next.ticket = t)
      /\ q.then \in {"done", "pause", "resume"}
  BY <1>1 DEF At, Request
<1>5. now # NULL /\ now # KEEP /\ KEEP # NULL /\ KEEP \notin Waiting
      /\ KEEP # "OPEN" /\ "OPEN" \notin Waiting
  BY MarkersHold, KeepIsNoStatus, TimeAssumption
  DEF Markers, Status, Waiting, SInv, IInv, TypeOK
<1>6. /\ PausePatch.slaPausedAt = now /\ PausePatch.status = KEEP
      /\ ResumePatch(row).slaPausedAt = NULL /\ ResumePatch(row).status = KEEP
  BY DEF PausePatch, ResumePatch, Nothing
<1> HIDE DEF new, next, q, row
<1>7. OneAtATime'
  BY <1>1 DEF OneAtATime
<1>8. ReadsHold'
  <2> SUFFICES ASSUME NEW v \in Requests, request'[v].pc \in UnderWay
               PROVE  Fits(request[v], ticket[request[v].ticket])'
    BY DEF ReadsHold
  <2>1. v = r /\ request'[v] = next /\ ticket'[next.ticket] = new
    BY <1>1, <1>4 DEF UnderWay
  <2>2. next.pc = "resume" => new.status \notin Waiting
    BY <1>2, <1>3, <1>4, <1>5
    DEF FitsEndpoint, FitsPause, FitsResume, Follows, Column
  <2> QED
    BY <1>4, <2>1, <2>2 DEF Fits
<1>9. \A u \in Tickets : Exists(u)' => Balanced(u)'
  <2>1. ASSUME NEW u \in Tickets, u # t, ticket'[u] # NULL
        PROVE  Balanced(u)'
    BY <1>1, <2>1 DEF SInv, Exists, Balanced, Logged
  <2>2. Balanced(t)'
    <3>1. /\ history[t]["SLA_PAUSED"] = history[t]["SLA_RESUMED"] +
                (IF row.slaPausedAt = NULL THEN 0 ELSE 1)
          /\ history[t]["SLA_PAUSED"] \in Nat /\ history[t]["SLA_RESUMED"] \in Nat
          /\ "SLA_PAUSED" \in Logged /\ "SLA_RESUMED" \in Logged
      BY <1>1 DEF SInv, IInv, TypeOK, Balanced, Logged, row
    <3>2. /\ history'[t]["SLA_PAUSED"] = history[t]["SLA_PAUSED"] +
                (IF "SLA_PAUSED" \in q.log THEN 1 ELSE 0)
          /\ history'[t]["SLA_RESUMED"] = history[t]["SLA_RESUMED"] +
                (IF "SLA_RESUMED" \in q.log THEN 1 ELSE 0)
          /\ ticket'[t].slaPausedAt = new.slaPausedAt
      BY <1>1, <3>1
    <3>3. CASE FitsEndpoint(q, row)
      BY <1>3, <3>1, <3>2, <3>3 DEF FitsEndpoint, Column, Balanced
    <3>4. CASE FitsPause(q, row)
      BY <1>3, <1>5, <1>6, <3>1, <3>2, <3>4 DEF FitsPause, Column, Balanced
    <3>5. CASE FitsResume(q, row)
      BY <1>3, <1>5, <1>6, <3>1, <3>2, <3>5 DEF FitsResume, Column, Balanced
    <3> QED
      BY <1>2, <3>3, <3>4, <3>5
  <2> QED
    BY <2>1, <2>2 DEF Exists
<1>10. PauseComes'
  <2> SUFFICES ASSUME NEW u \in Tickets, Unpaused(u)'
               PROVE  \E v \in Requests : \/ WillPause(request[v], u)'
                                          \/ request'[v].pc = "failed"
    BY DEF PauseComes
  <2>1. ASSUME Unpaused(u),
               ~(u = t /\ q.patch = PausePatch)
        PROVE  \E v \in Requests : request'[v].pc = "failed"
    <3>1. PICK v \in Requests : \/ WillPause(request[v], u)
                                \/ request[v].pc = "failed"
      BY <2>1 DEF SInv, PauseComes
    <3>2. v # r
      BY <1>1, <2>1, <3>1 DEF WillPause, q
    <3>3. request[v].pc = "failed"
      BY <1>1, <3>1, <3>2 DEF WillPause, UnderWay
    <3> QED
      BY <1>1, <3>2, <3>3
  <2>2. CASE u # t
    BY <1>1, <2>1, <2>2 DEF Unpaused, Exists
  <2>3. CASE u = t
    <3>1. /\ new.status \in Waiting /\ new.slaPausedAt = NULL
      BY <1>1, <2>3 DEF Unpaused
    <3>2. FitsEndpoint(q, row)
      BY <1>2, <1>3, <1>5, <1>6, <3>1 DEF FitsPause, FitsResume, Column
    <3>3. row.slaPausedAt = NULL /\ q.patch # PausePatch
      BY <1>3, <1>5, <1>6, <3>1, <3>2 DEF FitsEndpoint, Column
    <3>4. CASE row.status \in Waiting
      BY <1>1, <2>1, <2>3, <3>3, <3>4 DEF Unpaused, row
    <3>5. CASE row.status \notin Waiting
      <4>1. q.then = "pause"
        BY <1>3, <3>1, <3>2, <3>5 DEF FitsEndpoint, Follows, Column
      <4>2. request'[r].ticket = u /\ request'[r].pc = "pause"
        BY <1>1, <1>4, <2>3, <4>1
      <4> QED
        BY <4>2 DEF WillPause
    <3> QED
      BY <3>4, <3>5
  <2> QED
    BY <2>2, <2>3
<1> QED
  BY <1>7, <1>8, <1>9, <1>10 DEF SInv

-----------------------------------------------------------------------------
(* The invariants *)

LEMMA InitSInv == Init => SInv
<1> SUFFICES ASSUME Init PROVE SInv
  OBVIOUS
<1>1. IInv
  BY InitIInv
<1>2. /\ \A t \in Tickets : ~Exists(t)
      /\ \A r \in Requests : request[r].pc \notin UnderWay
  BY DEF Init, Exists, At, UnderWay
<1> QED
  BY <1>1, <1>2 DEF SInv, OneAtATime, ReadsHold, PauseComes, Unpaused

LEMMA NextSInv ==
  ASSUME Serial, SInv, [Next]_vars
  PROVE  SInv'
<1>1. IInv'
  BY NextIInv DEF SInv
<1>2. CASE UNCHANGED vars
  <2>1. /\ now' = now /\ ticket' = ticket /\ request' = request
        /\ history' = history
    BY <1>2 DEF vars
  <2>2. ReadsHold'
    <3> SUFFICES ASSUME NEW v \in Requests, request[v].pc \in UnderWay
                 PROVE  Fits(request[v], ticket[request[v].ticket])'
      BY <2>1 DEF ReadsHold
    <3>1. Fits(request[v], ticket[request[v].ticket])
      BY DEF SInv, ReadsHold
    <3> QED
      BY <2>1, <3>1
      DEF Fits, FitsEndpoint, FitsRecompute, FitsPause, FitsResume, Follows,
          PausePatch, ResumePatch
  <2> QED
    BY <1>1, <2>1, <2>2
    DEF SInv, OneAtATime, PauseComes, Unpaused, Exists, Balanced, WillPause,
        PausePatch
<1>3. CASE Tick
  BY <1>1, <1>3, TickFits
<1>4. ASSUME NEW t \in Tickets, Create(t) PROVE SInv'
  BY <1>1, <1>4, CreateFits
<1>5. ASSUME NEW r \in Requests, NEW t \in Tickets, Start(r, t) PROVE SInv'
  BY <1>1, <1>5, WorkloadAssumption, UpdateFits, OneReadFits DEF Start
<1>6. ASSUME NEW r \in Requests, Advance(r) PROVE SInv'
  BY <1>1, <1>6, RecomputeFits, CommitFits, ClockFits DEF Advance
<1>7. ASSUME NEW r \in Requests, Fail(r) PROVE SInv'
  BY <1>1, <1>7, ClockFits
<1> QED
  BY <1>2, <1>3, <1>4, <1>5, <1>6, <1>7 DEF Next

LEMMA SerialInvariance ==
  ASSUME Serial
  PROVE  Spec => []SInv
<1>1. Init => SInv
  BY InitSInv
<1>2. SInv /\ [Next]_vars => SInv'
  BY NextSInv
<1> QED
  BY <1>1, <1>2, PTL DEF Spec

\* Who leaves the tickets alone.
LEMMA OnlyCreateAndCommit ==
  ASSUME [Next]_vars
  PROVE  \/ ticket' = ticket
         \/ \E t \in Tickets : Create(t)
         \/ \E r \in Requests : Commit(r)
<1>1. ASSUME NEW r \in Requests, NEW t \in Tickets, Start(r, t)
      PROVE  ticket' = ticket
  BY <1>1 DEF Start, Update, Reopen, AddComment, RateCsat, Escalate, Merge
<1>2. ASSUME NEW r \in Requests,
             Recompute(r) \/ Pause(r) \/ Resume(r) \/ Fail(r)
      PROVE  ticket' = ticket
  BY <1>2 DEF Recompute, Pause, Resume, Fail
<1>3. Tick \/ UNCHANGED vars => ticket' = ticket
  BY DEF Tick, vars
<1> QED
  BY <1>1, <1>2, <1>3 DEF Next, Advance

LEMMA OnlyTick ==
  ASSUME [Next]_vars
  PROVE  now' = now \/ Tick
<1>1. ASSUME NEW r \in Requests, NEW t \in Tickets, Start(r, t)
      PROVE  now' = now
  BY <1>1 DEF Start, Update, Reopen, AddComment, RateCsat, Escalate, Merge
<1>2. ASSUME NEW r \in Requests, Advance(r) \/ Fail(r)
      PROVE  now' = now
  BY <1>2 DEF Advance, Recompute, Commit, Pause, Resume, Fail
<1>3. ASSUME NEW t \in Tickets, Create(t)
      PROVE  now' = now
  BY <1>3 DEF Create
<1>4. UNCHANGED vars => now' = now
  BY DEF vars
<1> QED
  BY <1>1, <1>2, <1>3, <1>4 DEF Next

\* A recorded first reply or rating survives the step.
FirstsKept ==
  \A t \in Tickets : Exists(t) =>
    /\ ticket[t].firstResponseAt # NULL =>
         ticket'[t].firstResponseAt = ticket[t].firstResponseAt
    /\ ticket[t].csatRating # NULL =>
         ticket'[t].csatRating = ticket[t].csatRating

LEMMA FirstsStep ==
  ASSUME SInv, [Next]_vars
  PROVE  FirstsKept
<1>1. CASE ticket' = ticket
  BY <1>1 DEF FirstsKept
<1>2. ASSUME NEW t \in Tickets, Create(t)
      PROVE  FirstsKept
  <2>1. \A u \in Tickets : Exists(u) => ticket'[u] = ticket[u]
    BY <1>2 DEF Create, Exists, SInv, IInv, TypeOK
  <2> QED
    BY <2>1 DEF FirstsKept
<1>3. ASSUME NEW r \in Requests, Commit(r)
      PROVE  FirstsKept
  <2> DEFINE q == request[r]
             row == ticket[q.ticket]
             new == Written(row, q.patch)
  <2>1. /\ row \in Row
        /\ \A u \in Tickets :
             ticket'[u] = IF u = q.ticket THEN new ELSE ticket[u]
        /\ FitsEndpoint(q, row) \/ FitsPause(q, row) \/ FitsResume(q, row)
    BY <1>3, CommitFacts
  <2>2. /\ q.patch.firstResponseAt # KEEP => row.firstResponseAt = NULL
        /\ q.patch.csatRating # KEEP => row.csatRating = NULL
    BY <2>1
    DEF FitsEndpoint, FitsPause, FitsResume, PausePatch, ResumePatch, Nothing
  <2>3. /\ new.firstResponseAt = Column(q.patch.firstResponseAt,
                                        row.firstResponseAt)
        /\ new.csatRating = Column(q.patch.csatRating, row.csatRating)
    BY <2>1, WrittenColumns
  <2>4. /\ row.firstResponseAt # NULL =>
             new.firstResponseAt = row.firstResponseAt
        /\ row.csatRating # NULL => new.csatRating = row.csatRating
    BY <2>2, <2>3 DEF Column
  <2> HIDE DEF new
  <2> QED
    BY <2>1, <2>4 DEF FirstsKept
<1> QED
  BY <1>1, <1>2, <1>3, OnlyCreateAndCommit

\* One request at a time, every pause in the history is ended once or goes on,
\* failures between the status and the pause included.
THEOREM PausesBalanced ==
  ASSUME Serial
  PROVE  Spec => []PausesAreBalanced
<1>1. SInv => PausesAreBalanced
  BY DEF SInv, PausesAreBalanced, Balanced
<1> QED
  BY <1>1, SerialInvariance, PTL

\* One request at a time, the clock of a waiting ticket is stopped once nobody
\* is under way.
THEOREM WaitingStops ==
  ASSUME Serial
  PROVE  Spec => []WaitingStopsTheClock
<1>1. SInv => WaitingStopsTheClock
  BY DEF SInv, WaitingStopsTheClock, PauseComes, Unpaused, WillPause, Settled
<1> QED
  BY <1>1, SerialInvariance, PTL

\* One request at a time, the first staff reply and the rating never change.
THEOREM FirstsRemain ==
  ASSUME Serial
  PROVE  Spec => FirstsStay
<1>1. SInv /\ [Next]_vars => [Serial => FirstsKept]_vars
  BY FirstsStep
<1>2. Spec => [][Serial => FirstsKept]_vars
  BY <1>1, SerialInvariance, PTL DEF Spec
<1> QED
  BY <1>2 DEF FirstsStay, FirstsKept

-----------------------------------------------------------------------------
(* Pauses that race *)

\* The handler of r has found the clock of its ticket running, and is about
\* to stop it.
Pauses(r) ==
  request[r].pc = "commit" /\ request[r].patch.slaPausedAt \in Nat

\* No two handlers are about to stop the clock of one ticket.
NoTwoPauses ==
  \A r, v \in Requests :
    Pauses(r) /\ Pauses(v) /\ request[r].ticket = request[v].ticket => r = v

\* What such a handler has found is still so.
RunningYet ==
  \A r \in Requests :
    /\ Pauses(r) => ticket[request[r].ticket].slaPausedAt = NULL
    /\ request[r].pc = "recompute" => request[r].patch.slaPausedAt \notin Nat

\* What an endpoint decides on ticket t: it leaves the pause alone, starts the
\* clock again if it opens a waiting ticket, stops it only if it makes the
\* ticket wait, and merges no ticket into itself.
Decided(q, t) ==
  /\ q.pc \in {"commit", "recompute"} /\ q.ticket = t
  /\ q.patch.slaPausedAt = KEEP
  /\ q.patch.status = "OPEN" /\ ticket[t].status \in Waiting =>
       q.then = "resume"
  /\ q.then = "pause" => q.patch.status \in Waiting
  /\ q.patch.mergedIntoId # t

LEMMA StartDecides ==
  ASSUME TypeOK, NEW v \in Requests, NEW t \in Tickets, Start(v, t)
  PROVE  \E q : Decided(q, t) /\ request' = [request EXCEPT ![v] = q]
<1>0. /\ KEEP \notin Nat /\ NULL \notin Nat /\ KEEP # "OPEN"
      /\ Nothing.slaPausedAt = KEEP /\ Nothing.status = KEEP
      /\ ReopenPatch.slaPausedAt = KEEP
      /\ Nothing.mergedIntoId = KEEP /\ ReopenPatch.mergedIntoId = KEEP
      /\ KEEP # t
  BY MarkersHold, MarkerAssumption, ReopenPatchType
  DEF Markers, Nothing, Status, ReopenPatch
<1>1. ASSUME NEW s \in Statuses \cup {KEEP}, NEW p \in Priorities \cup {KEEP},
             Update(v, t, s, p)
      PROVE  \E q : Decided(q, t) /\ request' = [request EXCEPT ![v] = q]
  <2> DEFINE s1 == IF s = ticket[t].status THEN KEEP ELSE s
             p1 == IF p = ticket[t].priority THEN KEEP ELSE p
             then == IF s1 = KEEP THEN "done"
                     ELSE SlaTransition(ticket[t].status, s1)
             base == [Nothing EXCEPT !.status = s1, !.priority = p1]
             q == [pc |-> IF p1 = KEEP THEN "commit" ELSE "recompute",
                   ticket |-> t, patch |-> Stamped(base), log |-> {},
                   then |-> then]
  <2>1. request' = [request EXCEPT ![v] = q]
    BY <1>1 DEF Update
  <2>2. /\ base.slaPausedAt = KEEP /\ base.status = s1 /\ base.mergedIntoId = KEEP
        /\ DOMAIN base = DOMAIN Nothing
    BY DEF Nothing
  <2>3. /\ s1 = "OPEN" /\ ticket[t].status \in Waiting => then = "resume"
        /\ then = "pause" => s1 \in Waiting
    BY <1>0 DEF SlaTransition, Waiting
  <2> HIDE DEF base, then, s1
  <2>4. /\ Stamped(base).slaPausedAt = KEEP /\ Stamped(base).status = s1
        /\ Stamped(base).mergedIntoId = KEEP
    BY <2>2 DEF Stamped, Nothing
  <2>5. Decided(q, t)
    BY <1>0, <2>3, <2>4 DEF Decided
  <2> HIDE DEF q
  <2> QED
    BY <2>1, <2>5
<1>2. ASSUME NEW p, NEW log, p.slaPausedAt = KEEP, p.mergedIntoId # t,
             p.status = "OPEN" => ticket[t].status \notin Waiting,
             request' = [request EXCEPT ![v] = Pending(t, p, log)]
      PROVE  \E q : Decided(q, t) /\ request' = [request EXCEPT ![v] = q]
  <2>1. Decided(Pending(t, p, log), t)
    BY <1>2 DEF Pending, Decided
  <2> QED
    BY <1>2, <2>1
<1>3. ticket[t].status \in Finished => ticket[t].status \notin Waiting
  BY DEF Finished, Waiting
<1>4. CASE Reopen(v, t)
  BY <1>0, <1>2, <1>3, <1>4 DEF Reopen
<1>5. ASSUME NEW staff \in BOOLEAN, NEW public \in BOOLEAN,
             NEW own \in BOOLEAN, AddComment(v, t, staff, public, own)
      PROVE  \E q : Decided(q, t) /\ request' = [request EXCEPT ![v] = q]
  <2> DEFINE again == ~staff /\ public /\ ticket[t].status \in Finished
             p == IF again THEN ReopenPatch
                  ELSE [Nothing EXCEPT !.firstResponseAt = now]
             log == IF again THEN {"REOPENED"} ELSE {}
  <2>1. request' = [request EXCEPT ![v] = Pending(t, p, log)]
    BY <1>5 DEF AddComment
  <2>2. /\ p.slaPausedAt = KEEP /\ p.mergedIntoId # t
        /\ p.status = "OPEN" => ticket[t].status \notin Waiting
    BY <1>0, <1>3 DEF Nothing
  <2> HIDE DEF p, log
  <2> QED
    BY <1>2, <2>1, <2>2
<1>6. ASSUME NEW rating \in Ratings, RateCsat(v, t, rating)
      PROVE  \E q : Decided(q, t) /\ request' = [request EXCEPT ![v] = q]
  <2> DEFINE p == [Nothing EXCEPT !.csatRating = rating]
  <2>1. p.slaPausedAt = KEEP /\ p.status = KEEP /\ p.mergedIntoId # t
    BY <1>0 DEF Nothing
  <2>2. request' = [request EXCEPT ![v] = Pending(t, p, {})]
    BY <1>6 DEF RateCsat
  <2> HIDE DEF p
  <2> QED
    BY <1>0, <1>2, <2>1, <2>2
<1>7. ASSUME NEW priority \in Priorities, Escalate(v, t, priority)
      PROVE  \E q : Decided(q, t) /\ request' = [request EXCEPT ![v] = q]
  <2> DEFINE p == [Nothing EXCEPT !.priority = priority]
  <2>1. p.slaPausedAt = KEEP /\ p.status = KEEP /\ p.mergedIntoId # t
    BY <1>0 DEF Nothing
  <2>2. request' = [request EXCEPT ![v] = Pending(t, p, {"ESCALATED"})]
    BY <1>7 DEF Escalate
  <2> HIDE DEF p
  <2> QED
    BY <1>0, <1>2, <2>1, <2>2
<1>8. ASSUME NEW target \in Tickets, Merge(v, t, target)
      PROVE  \E q : Decided(q, t) /\ request' = [request EXCEPT ![v] = q]
  <2> DEFINE p == [Nothing EXCEPT !.mergedIntoId = target,
                                  !.status = "CLOSED", !.closedAt = now]
  <2>1. p.slaPausedAt = KEEP /\ p.status = "CLOSED" /\ p.mergedIntoId # t
    BY <1>8 DEF Nothing, Merge
  <2>2. request' = [request EXCEPT ![v] = Pending(t, p, {"MERGED"})]
    BY <1>8 DEF Merge
  <2> HIDE DEF p
  <2> QED
    BY <1>2, <2>1, <2>2
<1> QED
  BY <1>1, <1>4, <1>5, <1>6, <1>7, <1>8 DEF Start

\* No patch but PausePatch stops a clock.
LEMMA OnlyPauseDecides ==
  ASSUME IInv, RunningYet, [Next]_vars, NEW r \in Requests
  PROVE  \/ request'[r] = request[r]
         \/ /\ ~Pauses(r)'
            /\ request'[r].pc = "recompute" =>
                 request'[r].patch.slaPausedAt \notin Nat
         \/ /\ ticket' = ticket
            /\ ticket[request'[r].ticket].slaPausedAt = NULL
            /\ request'[r].pc = "commit"
<1>0. /\ TypeOK /\ KEEP \notin Nat /\ NULL \notin Nat
      /\ Nothing.slaPausedAt = KEEP /\ ReopenPatch.slaPausedAt = KEEP
  BY MarkersHold, ReopenPatchType DEF IInv, Markers, Nothing
<1>1. ASSUME NEW v \in Requests, v # r, NEW q,
             request' = [request EXCEPT ![v] = q]
      PROVE  request'[r] = request[r]
  BY <1>0, <1>1 DEF TypeOK
<1>2. ASSUME NEW q, q.patch.slaPausedAt \notin Nat,
             request' = [request EXCEPT ![r] = q]
      PROVE  /\ ~Pauses(r)'
             /\ request'[r].pc = "recompute" =>
                  request'[r].patch.slaPausedAt \notin Nat
  BY <1>0, <1>2 DEF TypeOK, Pauses
<1>3. ASSUME NEW pc, pc \notin {"commit", "recompute"}, NEW t,
             \/ request' = [request EXCEPT ![r] = At(pc)]
             \/ request' = [request EXCEPT ![r] = [At(pc) EXCEPT !.ticket = t]]
      PROVE  /\ ~Pauses(r)'
             /\ request'[r].pc # "recompute"
  BY <1>0, <1>3 DEF TypeOK, Pauses, At
<1>4. ASSUME NEW v \in Requests, NEW t \in Tickets, Start(v, t)
      PROVE  \E q : /\ q.patch.slaPausedAt \notin Nat
                    /\ request' = [request EXCEPT ![v] = q]
  <2>1. PICK q : Decided(q, t) /\ request' = [request EXCEPT ![v] = q]
    BY <1>0, <1>4, StartDecides
  <2> QED
    BY <1>0, <2>1 DEF Decided
<1>5. ASSUME NEW v \in Requests, v # r, Recompute(v)
      PROVE  request'[r] = request[r]
  BY <1>0, <1>5 DEF Recompute, TypeOK
<1>6. CASE Recompute(r)
  <2> DEFINE old == request[r]
             b == Rebased(ticket[old.ticket], old.patch)
             q == [old EXCEPT !.pc = "commit", !.patch = Stamped(b)]
  <2>1. /\ old \in Request /\ old.pc = "recompute" /\ old.patch \in Patch
        /\ ticket[old.ticket] \in Row /\ Coherent(old.patch)
    BY <1>6 DEF Recompute, IInv, TypeOK, RequestsAreSound, UnderWay, Exists,
                Nullable, Request
  <2>2. /\ b \in Patch /\ b.slaPausedAt = old.patch.slaPausedAt
        /\ b.status = old.patch.status
        /\ b.resolvedAt = old.patch.resolvedAt
        /\ b.closedAt = old.patch.closedAt
    BY <2>1, RebasedType
  <2>3. Stamped(b).slaPausedAt = old.patch.slaPausedAt
    <3> HIDE DEF b
    <3> QED
      BY <1>0, <2>1, <2>2, StampedType DEF Coherent, TypeOK
  <2>4. request' = [request EXCEPT ![r] = q]
    BY <1>0, <1>6 DEF Recompute, TypeOK
  <2>5. q.patch.slaPausedAt \notin Nat
    <3> HIDE DEF b
    <3> QED
      BY <2>1, <2>3 DEF RunningYet, Request
  <2> HIDE DEF q
  <2> QED
    BY <1>2, <2>4, <2>5
<1>7. ASSUME NEW v \in Requests, Pause(v) \/ Resume(v) \/ Commit(v) \/ Fail(v),
             v # r
      PROVE  request'[r] = request[r]
  BY <1>0, <1>7 DEF Pause, Resume, Commit, Fail, TypeOK
<1>8. CASE Pause(r)
  <2> DEFINE t == request[r].ticket
  <2>1. CASE ticket[t].slaPausedAt # NULL
    BY <1>3, <1>8, <2>1 DEF Pause
  <2>2. CASE ticket[t].slaPausedAt = NULL
    <3>1. /\ request' = [request EXCEPT ![r] =
               Pending(t, PausePatch, {"SLA_PAUSED"})]
          /\ ticket' = ticket
      BY <1>8, <2>2 DEF Pause
    <3>2. request'[r].ticket = t /\ request'[r].pc = "commit"
      BY <1>0, <3>1 DEF Pending, TypeOK
    <3> QED
      BY <2>2, <3>1, <3>2
  <2> QED
    BY <2>1, <2>2
<1>9. CASE Resume(r)
  <2> DEFINE t == request[r].ticket
             p == ResumePatch(ticket[t])
  <2>1. CASE ticket[t].slaPausedAt = NULL
    BY <1>3, <1>9, <2>1 DEF Resume
  <2>2. CASE ticket[t].slaPausedAt # NULL
    <3>1. request' = [request EXCEPT ![r] = Pending(t, p, {"SLA_RESUMED"})]
      BY <1>9, <2>2 DEF Resume
    <3>2. p.slaPausedAt = NULL
      BY DEF ResumePatch, Nothing
    <3> HIDE DEF p
    <3>3. Pending(t, p, {"SLA_RESUMED"}).patch.slaPausedAt \notin Nat
      BY <1>0, <3>2 DEF Pending
    <3> QED
      BY <1>2, <3>1, <3>3
  <2> QED
    BY <2>1, <2>2
<1>10. CASE Commit(r)
  <2>1. request[r].then \in {"done", "pause", "resume"}
    BY <1>0 DEF TypeOK, Request
  <2> QED
    BY <1>3, <1>10, <2>1 DEF Commit
<1>11. CASE Fail(r)
  BY <1>3, <1>11 DEF Fail
<1>12. CASE Tick \/ UNCHANGED vars \/ \E t \in Tickets : Create(t)
  BY <1>12 DEF Tick, vars, Create
<1>13. ASSUME NEW v \in Requests, NEW t \in Tickets, Start(v, t)
       PROVE  \/ request'[r] = request[r]
              \/ /\ ~Pauses(r)'
                 /\ request'[r].pc = "recompute" =>
                      request'[r].patch.slaPausedAt \notin Nat
  BY <1>1, <1>2, <1>4, <1>13
<1> QED
  BY <1>5, <1>6, <1>7, <1>8, <1>9, <1>10, <1>11, <1>12, <1>13
  DEF Next, Advance

\* What a step does to the pause of a ticket there is: a handler that was
\* about to stop its clock has done so, or it is as it was, or over.
LEMMA PauseColumn ==
  ASSUME IInv, [Next]_vars, NEW t \in Tickets, Exists(t)
  PROVE  \/ ticket'[t].slaPausedAt \in {ticket[t].slaPausedAt, NULL}
         \/ \E r \in Requests : /\ Pauses(r) /\ request[r].ticket = t
                                /\ \A v \in Requests \ {r} :
                                     request'[v] = request[v]
                                /\ ~Pauses(r)'
<1>0. TypeOK
  BY DEF IInv
<1>1. CASE ticket' = ticket
  BY <1>1
<1>2. ASSUME NEW u \in Tickets, Create(u)
      PROVE  ticket'[t] = ticket[t]
  BY <1>0, <1>2 DEF Create, Exists, TypeOK
<1>3. ASSUME NEW r \in Requests, Commit(r)
      PROVE  \/ ticket'[t].slaPausedAt \in {ticket[t].slaPausedAt, NULL}
             \/ /\ Pauses(r) /\ request[r].ticket = t
                /\ \A v \in Requests \ {r} : request'[v] = request[v]
                /\ ~Pauses(r)'
  <2> DEFINE q == request[r]
  <2>1. /\ q \in Request /\ q.patch \in Patch /\ q.pc = "commit"
        /\ ticket[t] \in Row
        /\ \A v \in Requests \ {r} : request'[v] = request[v]
    BY <1>0, <1>3 DEF Commit, TypeOK, Request, Exists, Nullable
  <2>2. ~Pauses(r)'
    BY <1>0, <1>3, <2>1 DEF Commit, TypeOK, Request, Pauses, At
  <2>3. CASE q.ticket # t
    BY <1>0, <1>3, <2>3 DEF Commit, TypeOK
  <2>4. CASE q.ticket = t
    <3>1. ticket'[t] = Written(ticket[t], q.patch)
      BY <1>0, <1>3, <2>4 DEF Commit, TypeOK
    <3>2. ticket'[t].slaPausedAt
            = Column(q.patch.slaPausedAt, ticket[t].slaPausedAt)
      BY <2>1, <3>1, WrittenColumns
    <3>3. q.patch.slaPausedAt \in Nat \cup {NULL, KEEP}
      BY <2>1 DEF Patch, Nullable
    <3> QED
      BY <2>1, <2>2, <2>4, <3>2, <3>3 DEF Column, Pauses
  <2> QED
    BY <2>3, <2>4
<1> QED
  BY <1>1, <1>2, <1>3, OnlyCreateAndCommit

LEMMA RunningYetStep ==
  IInv /\ RunningYet /\ NoTwoPauses /\ [Next]_vars => RunningYet'
<1> SUFFICES ASSUME IInv, RunningYet, NoTwoPauses, [Next]_vars,
                    NEW r \in Requests
             PROVE  /\ Pauses(r)' =>
                         ticket'[request'[r].ticket].slaPausedAt = NULL
                    /\ request'[r].pc = "recompute" =>
                         request'[r].patch.slaPausedAt \notin Nat
  BY DEF RunningYet
<1>1. CASE request'[r] = request[r] /\ Pauses(r)
  <2> DEFINE t == request[r].ticket
  <2>1. t \in Tickets /\ Exists(t) /\ ticket[t].slaPausedAt = NULL
    BY <1>1 DEF IInv, RequestsAreSound, UnderWay, Pauses, RunningYet
  <2>2. Pauses(r)'
    BY <1>1 DEF Pauses
  <2>3. ASSUME NEW v \in Requests, Pauses(v), request[v].ticket = t,
               \A w \in Requests \ {v} : request'[w] = request[w], ~Pauses(v)'
        PROVE  FALSE
    BY <1>1, <2>2, <2>3 DEF NoTwoPauses
  <2>4. ticket'[t].slaPausedAt = NULL
    BY <2>1, <2>3, PauseColumn
  <2> QED
    BY <1>1, <2>4 DEF Pauses
<1>2. CASE request'[r] = request[r] /\ ~Pauses(r)
  BY <1>2 DEF RunningYet, Pauses
<1>3. CASE request'[r] # request[r]
  BY <1>3, OnlyPauseDecides
<1> QED
  BY <1>1, <1>2, <1>3

\* The start of a pause is lost only when two handlers have found the clock
\* of one ticket running, and both go on to stop it: every other interleaving
\* of status changes, reopenings, escalations, resumes and failures keeps it
\* (sla.service.ts, pauseSla).
THEOREM PauseStartKept ==
  Spec /\ []NoTwoPauses => PauseKeepsItsStart
<1> DEFINE Kept ==
      \A t \in Tickets : Exists(t) /\ ticket[t].slaPausedAt # NULL =>
        ticket'[t].slaPausedAt \in {ticket[t].slaPausedAt, NULL}
<1>1. Init => RunningYet
  BY DEF Init, RunningYet, Pauses, At
<1>2. IInv /\ RunningYet /\ [Next]_vars => [Kept]_vars
  BY PauseColumn DEF RunningYet
<1>3. Spec /\ []NoTwoPauses => [][Kept]_vars
  BY <1>1, <1>2, RunningYetStep, Invariance, PTL DEF Spec
<1> QED
  BY <1>3 DEF PauseKeepsItsStart

\* One request at a time, it is never lost.
THEOREM PauseStartKeptSerially ==
  ASSUME Serial
  PROVE  Spec => PauseKeepsItsStart
<1>1. SInv => NoTwoPauses
  BY DEF SInv, OneAtATime, NoTwoPauses, Pauses, UnderWay
<1> QED
  BY <1>1, SerialInvariance, PauseStartKept, PTL

-----------------------------------------------------------------------------
(* Open tickets whose clock stands still *)

\* Nobody reopens a ticket that was finished while its clock stood still.
NoStaleReopening ==
  \A t \in Tickets :
    Exists(t) /\ ticket[t].status \in Finished /\ ticket[t].slaPausedAt # NULL
      => ticket'[t].status # "OPEN"

\* What the one handler under way is going to do to the clock fits the status.
ClockFollows(q, row) ==
  /\ q.pc \in {"recompute", "commit"} =>
       /\ q.patch.status = "OPEN" /\ row.status \in Waiting => q.then = "resume"
       /\ q.then = "pause" => q.patch.status \in Waiting
  /\ q.pc = "pause" => row.status \in Waiting
  /\ q.pc = "commit" /\ q.patch.slaPausedAt \in Nat => row.status \in Waiting

ClocksFollow ==
  \A r \in Requests : request[r].pc \in UnderWay =>
    ClockFollows(request[r], ticket[request[r].ticket])

\* The handler is about to start the clock of t.
WillResume(q, t) ==
  /\ q.ticket = t
  /\ \/ q.pc = "resume"
     \/ q.pc = "commit" /\ q.patch.slaPausedAt = NULL

Stopped(t) ==
  Exists(t) /\ ticket[t].status = "OPEN" /\ ticket[t].slaPausedAt # NULL

\* An open ticket's clock runs, is about to, or a handler has failed.
ResumeComes ==
  \A t \in Tickets : Stopped(t) =>
    \E r \in Requests : WillResume(request[r], t) \/ request[r].pc = "failed"

\* A step of one handler that leaves the tickets alone.
LEMMA FollowsStep ==
  ASSUME TypeOK, ClocksFollow, ResumeComes,
         NEW r \in Requests, NEW q, request' = [request EXCEPT ![r] = q],
         ticket' = ticket,
         q.pc \in UnderWay => ClockFollows(q, ticket[q.ticket]),
         request[r].pc # "failed",
         \A t \in Tickets : Stopped(t) /\ WillResume(request[r], t) =>
           WillResume(q, t) \/ q.pc = "failed"
  PROVE  ClocksFollow' /\ ResumeComes'
<1>1. request'[r] = q /\ \A v \in Requests \ {r} : request'[v] = request[v]
  BY DEF TypeOK
<1>2. ClocksFollow'
  <2> SUFFICES ASSUME NEW v \in Requests, request'[v].pc \in UnderWay
               PROVE  ClockFollows(request'[v], ticket[request'[v].ticket])
    BY DEF ClocksFollow, ClockFollows
  <2> QED
    BY <1>1 DEF ClocksFollow
<1>3. ResumeComes'
  <2> SUFFICES ASSUME NEW t \in Tickets, Stopped(t)
               PROVE  \E v \in Requests :
                        WillResume(request'[v], t) \/ request'[v].pc = "failed"
    BY DEF ResumeComes, Stopped, Exists, WillResume
  <2>1. PICK v \in Requests :
          WillResume(request[v], t) \/ request[v].pc = "failed"
    BY DEF ResumeComes
  <2> QED
    BY <1>1, <2>1
<1> QED
  BY <1>2, <1>3

LEMMA FollowsCommit ==
  ASSUME SInv, ClocksFollow, ResumeComes, NoStaleReopening,
         NEW r \in Requests, Commit(r)
  PROVE  ClocksFollow' /\ ResumeComes'
<1> DEFINE q == request[r]
           t == q.ticket
           row == ticket[t]
           new == Written(row, q.patch)
<1>1. /\ q \in Request /\ t \in Tickets /\ Exists(t) /\ row \in Row
      /\ q.pc = "commit" /\ q.pc \in UnderWay
      /\ \A v \in Requests \ {r} : /\ request[v].pc \notin UnderWay
                                   /\ request'[v] = request[v]
      /\ request'[r] = IF q.then = "done" THEN At("done")
                       ELSE [At(q.then) EXCEPT !.ticket = t]
      /\ \A u \in Tickets : ticket'[u] = IF u = t THEN new ELSE ticket[u]
      /\ new # NULL
      /\ FitsEndpoint(q, row) \/ FitsPause(q, row) \/ FitsResume(q, row)
  BY CommitFacts DEF UnderWay
<1>2. /\ new.status = Column(q.patch.status, row.status)
      /\ new.slaPausedAt = Column(q.patch.slaPausedAt, row.slaPausedAt)
  BY <1>1, WrittenColumns
<1>3. ClockFollows(q, row)
  BY <1>1 DEF ClocksFollow
<1>4. /\ KEEP # NULL /\ KEEP \notin Waiting /\ KEEP # "OPEN"
      /\ row.status \in Status /\ q.then \in {"done", "pause", "resume"}
  BY <1>1, MarkersHold DEF Markers, Row, Request, Status, Waiting
<1> HIDE DEF row, new
<1>5. \/ request'[r].pc = "done"
      \/ request'[r].pc = q.then /\ request'[r].ticket = t
  BY <1>1, <1>4 DEF At
<1>6. ClocksFollow'
  <2> SUFFICES ASSUME request'[r].pc \in UnderWay
               PROVE  ClockFollows(request'[r], ticket'[request'[r].ticket])
    BY <1>1 DEF ClocksFollow, ClockFollows
  <2>1. request'[r].pc = q.then /\ request'[r].ticket = t /\ ticket'[t] = new
    BY <1>1, <1>5 DEF UnderWay
  <2>2. q.then = "pause" => new.status \in Waiting
    BY <1>1, <1>2, <1>3, <1>4 DEF ClockFollows, Column
  <2> QED
    BY <1>4, <2>1, <2>2 DEF ClockFollows
<1>7. ASSUME NEW u \in Tickets, Stopped(u)', u # t
      PROVE  \E v \in Requests :
               WillResume(request'[v], u) \/ request'[v].pc = "failed"
  <2>1. Stopped(u)
    BY <1>1, <1>7 DEF Stopped, Exists
  <2>2. PICK v \in Requests :
          WillResume(request[v], u) \/ request[v].pc = "failed"
    BY <2>1 DEF ResumeComes
  <2>3. v # r
    BY <1>1, <1>7, <2>2 DEF WillResume
  <2> QED
    BY <1>1, <2>2, <2>3
<1>8. ASSUME NEW u \in Tickets, Stopped(u)', u = t
      PROVE  \E v \in Requests :
               WillResume(request'[v], u) \/ request'[v].pc = "failed"
  <2>1. ticket'[t] = new /\ new.status = "OPEN" /\ new.slaPausedAt # NULL
    BY <1>1, <1>8 DEF Stopped
  <2>2. FitsEndpoint(q, row)
    <3>1. ~FitsPause(q, row)
      <4> SUFFICES ASSUME FitsPause(q, row)
                   PROVE  FALSE
        OBVIOUS
      <4>1. q.patch.slaPausedAt = now /\ q.patch.status = KEEP /\ now \in Nat
        BY MarkersHold, TimeAssumption
        DEF FitsPause, PausePatch, Nothing, SInv, IInv, TypeOK
      <4>2. new.status = row.status /\ row.status \in Waiting
        BY <1>1, <1>2, <1>3, <4>1 DEF ClockFollows, Column
      <4> QED
        BY <2>1, <4>2 DEF Waiting
    <3>2. ~FitsResume(q, row)
      BY <1>2, <1>4, <2>1 DEF FitsResume, ResumePatch, Nothing, Column
    <3> QED
      BY <1>1, <3>1, <3>2
  <2>3. row.slaPausedAt # NULL /\ q.patch.slaPausedAt # NULL
    BY <1>2, <1>4, <2>1, <2>2 DEF FitsEndpoint, Column
  <2>4. CASE q.patch.status = "OPEN" /\ row.status \in Waiting
    <3>1. q.then = "resume"
      BY <1>1, <1>3, <2>4 DEF ClockFollows
    <3>2. WillResume(request'[r], u)
      BY <1>1, <1>8, <3>1 DEF WillResume, At
    <3> QED
      BY <3>2
  <2>5. CASE q.patch.status = "OPEN" /\ row.status \in Finished
    BY <1>1, <2>1, <2>3, <2>5 DEF NoStaleReopening, row
  <2>6. CASE row.status = "OPEN"
    <3>1. PICK v \in Requests :
            WillResume(request[v], t) \/ request[v].pc = "failed"
      BY <1>1, <2>3, <2>6 DEF ResumeComes, Stopped, row
    <3>2. v # r
      BY <1>1, <2>3, <3>1 DEF WillResume
    <3> QED
      BY <1>1, <1>8, <3>1, <3>2
  <2> QED
    BY <1>2, <1>4, <2>1, <2>4, <2>5, <2>6
    DEF Column, Status, Waiting, Finished
<1> QED
  BY <1>6, <1>7, <1>8 DEF ResumeComes, WillResume

LEMMA FollowsNext ==
  ASSUME Serial
  PROVE  SInv /\ ClocksFollow /\ ResumeComes
           /\ [Next]_vars /\ [NoStaleReopening]_vars
         => ClocksFollow' /\ ResumeComes'
<1> SUFFICES ASSUME SInv, ClocksFollow, ResumeComes, [Next]_vars,
                    [NoStaleReopening]_vars
             PROVE  ClocksFollow' /\ ResumeComes'
  OBVIOUS
<1>0. /\ TypeOK /\ KEEP # NULL /\ KEEP # "OPEN" /\ KEEP \notin Waiting
      /\ KEEP \notin Nat /\ NULL \notin Nat
  BY MarkersHold DEF SInv, IInv, Markers, Status, Waiting
<1>1. CASE ticket' = ticket /\ request' = request
  BY <1>1 DEF ClocksFollow, ClockFollows, ResumeComes, Stopped, Exists,
              WillResume
<1>2. ASSUME NEW v \in Requests, NEW t \in Tickets, Start(v, t)
      PROVE  ClocksFollow' /\ ResumeComes'
  <2>1. PICK q : Decided(q, t) /\ request' = [request EXCEPT ![v] = q]
    BY <1>0, <1>2, StartDecides
  <2>2. request[v].pc = "idle" /\ ticket' = ticket
    BY <1>2 DEF Start, Update, Reopen, AddComment, RateCsat, Escalate, Merge,
                Accept
  <2>3. ClockFollows(q, ticket[q.ticket])
    <3>1. q.patch.slaPausedAt \notin Nat
      BY <1>0, <2>1 DEF Decided
    <3> QED
      BY <2>1, <3>1 DEF Decided, ClockFollows
  <2> QED
    BY <1>0, <2>1, <2>2, <2>3, FollowsStep DEF WillResume
<1>3. ASSUME NEW v \in Requests, Recompute(v)
      PROVE  ClocksFollow' /\ ResumeComes'
  <2> DEFINE old == request[v]
             b == Rebased(ticket[old.ticket], old.patch)
             q == [old EXCEPT !.pc = "commit", !.patch = Stamped(b)]
  <2>1. /\ old \in Request /\ old.pc = "recompute" /\ old.patch \in Patch
        /\ ticket[old.ticket] \in Row /\ Coherent(old.patch)
        /\ old.patch.slaPausedAt = KEEP
        /\ ClockFollows(old, ticket[old.ticket])
    BY <1>3 DEF Recompute, SInv, IInv, TypeOK, RequestsAreSound, UnderWay, Exists,
                Nullable, Request, ReadsHold, Fits, FitsRecompute, FitsEndpoint,
                ClocksFollow
  <2>2. /\ b \in Patch /\ b.slaPausedAt = old.patch.slaPausedAt
        /\ b.status = old.patch.status
        /\ b.resolvedAt = old.patch.resolvedAt
        /\ b.closedAt = old.patch.closedAt
    BY <2>1, RebasedType
  <2>3. Stamped(b) \in Patch /\ Stamped(b).slaPausedAt = KEEP
        /\ Stamped(b).status = old.patch.status
    <3> HIDE DEF b
    <3>1. Stamped(b) \in Patch /\ Stamped(b).slaPausedAt = KEEP
      BY <1>0, <2>1, <2>2, StampedType DEF Coherent, TypeOK
    <3>2. Stamped(b).status = b.status
      BY <2>2 DEF Stamped, Patch
    <3> QED
      BY <2>2, <3>1, <3>2
  <2>4. request' = [request EXCEPT ![v] = q] /\ ticket' = ticket
    BY <1>0, <1>3 DEF Recompute, TypeOK
  <2> HIDE DEF b
  <2>5. /\ q.pc = "commit" /\ q.ticket = old.ticket /\ q.then = old.then
        /\ q.patch = Stamped(b)
    BY <2>1 DEF Request
  <2>6. ClockFollows(q, ticket[q.ticket])
    <3>1. q.patch.slaPausedAt \notin Nat
      BY <1>0, <2>3, <2>5
    <3> QED
      BY <2>1, <2>3, <2>5, <3>1 DEF ClockFollows
  <2> HIDE DEF q
  <2> QED
    BY <1>0, <2>1, <2>4, <2>6, FollowsStep DEF WillResume
<1>4. ASSUME NEW v \in Requests, Pause(v) \/ Resume(v)
      PROVE  ClocksFollow' /\ ResumeComes'
  <2> DEFINE t == request[v].ticket
  <2>1. /\ request[v].pc \in {"pause", "resume"} /\ ticket' = ticket
        /\ request[v].pc \in UnderWay /\ t \in Tickets
    BY <1>4 DEF Pause, Resume, UnderWay, SInv, IInv, RequestsAreSound
  <2>2. CASE Pause(v) /\ ticket[t].slaPausedAt = NULL
    <3> DEFINE q == Pending(t, PausePatch, {"SLA_PAUSED"})
    <3>1. request' = [request EXCEPT ![v] = q] /\ request[v].pc = "pause"
      BY <2>2 DEF Pause
    <3>2. ticket[t].status \in Waiting
      BY <2>1, <3>1 DEF ClocksFollow, ClockFollows
    <3>3. q.pc = "commit" /\ q.ticket = t /\ q.patch = PausePatch
          /\ q.then = "done" /\ PausePatch.status = KEEP
      BY DEF Pending, PausePatch, Nothing
    <3> HIDE DEF q
    <3>4. ClockFollows(q, ticket[q.ticket])
      BY <1>0, <3>2, <3>3 DEF ClockFollows
    <3> QED
      BY <1>0, <2>1, <3>1, <3>4, FollowsStep DEF WillResume
  <2>3. CASE Resume(v) /\ ticket[t].slaPausedAt # NULL
    <3> DEFINE p == ResumePatch(ticket[t])
               q == Pending(t, p, {"SLA_RESUMED"})
    <3>1. request' = [request EXCEPT ![v] = q]
      BY <2>3 DEF Resume
    <3>2. p.slaPausedAt = NULL /\ p.status = KEEP
      BY DEF ResumePatch, Nothing
    <3> HIDE DEF p
    <3>3. q.pc = "commit" /\ q.ticket = t /\ q.patch = p /\ q.then = "done"
      BY DEF Pending
    <3>4. p.slaPausedAt \notin Nat
      BY <1>0, <3>2
    <3> HIDE DEF q
    <3>5. ClockFollows(q, ticket[q.ticket]) /\ WillResume(q, t)
      BY <1>0, <3>2, <3>3, <3>4 DEF ClockFollows, WillResume
    <3> QED
      BY <1>0, <2>1, <3>1, <3>5, FollowsStep DEF WillResume
  <2>4. CASE \/ Pause(v) /\ ticket[t].slaPausedAt # NULL
             \/ Resume(v) /\ ticket[t].slaPausedAt = NULL
    <3>1. request' = [request EXCEPT ![v] = At("done")]
      BY <2>4 DEF Pause, Resume
    <3>2. At("done").pc \notin UnderWay
      BY DEF At, UnderWay
    <3>3. \A u \in Tickets : ~(Stopped(u) /\ WillResume(request[v], u))
      BY <2>1, <2>4 DEF Stopped, WillResume, Pause, Resume
    <3> QED
      BY <1>0, <2>1, <3>1, <3>2, <3>3, FollowsStep
  <2> QED
    BY <1>4, <2>2, <2>3, <2>4
<1>5. ASSUME NEW v \in Requests, Fail(v)
      PROVE  ClocksFollow' /\ ResumeComes'
  <2>1. /\ request' = [request EXCEPT ![v] = At("failed")] /\ ticket' = ticket
        /\ request[v].pc # "failed"
    BY <1>5 DEF Fail, Running
  <2>2. At("failed").pc = "failed" /\ At("failed").pc \notin UnderWay
    BY DEF At, UnderWay
  <2> QED
    BY <1>0, <2>1, <2>2, FollowsStep
<1>6. ASSUME NEW v \in Requests, Commit(v)
      PROVE  ClocksFollow' /\ ResumeComes'
  <2>1. request[v].pc = "commit" /\ request'[v].pc # "commit"
    BY <1>0, <1>6 DEF Commit, TypeOK, Request, At
  <2>2. NoStaleReopening
    BY <2>1 DEF vars
  <2> QED
    BY <1>6, <2>2, FollowsCommit
<1>7. ASSUME NEW t \in Tickets, Create(t)
      PROVE  ClocksFollow' /\ ResumeComes'
  <2>1. PICK p \in Priority, hasPolicy \in BOOLEAN :
          ticket' = [ticket EXCEPT ![t] = NewRow(p, hasPolicy)]
    BY <1>7, WorkloadAssumption DEF Create
  <2>2. /\ ~Exists(t) /\ request' = request /\ ticket'[t].slaPausedAt = NULL
        /\ \A u \in Tickets \ {t} : ticket'[u] = ticket[u]
    BY <1>0, <1>7, <2>1, NewRowType DEF Create, Exists, TypeOK
  <2>3. \A r \in Requests : request[r].pc \in UnderWay =>
          ticket'[request[r].ticket] = ticket[request[r].ticket]
    BY <2>2 DEF SInv, IInv, RequestsAreSound
  <2>4. ClocksFollow'
    BY <2>2, <2>3 DEF ClocksFollow, ClockFollows, Create
  <2>5. ResumeComes'
    BY <2>2 DEF ResumeComes, Stopped, Exists, WillResume
  <2> QED
    BY <2>4, <2>5
<1>8. CASE Tick
  BY <1>1, <1>8 DEF Tick
<1>9. CASE UNCHANGED vars
  BY <1>1, <1>9 DEF vars
<1> QED
  BY <1>2, <1>3, <1>4, <1>5, <1>6, <1>7, <1>8, <1>9 DEF Next, Advance

\* One request at a time, the clock of an open ticket runs once nobody is under
\* way, unless the ticket was finished while its clock stood still and then
\* reopened: that is the one way, failures apart, in which reopenTicket and a
\* customer's reply can leave it stopped (tickets.service.ts, resumeSla).
THEOREM OpenRuns ==
  ASSUME Serial
  PROVE  Spec /\ [][NoStaleReopening]_vars => []OpenMeansRunning
<1>1. Init => ClocksFollow /\ ResumeComes
  BY DEF Init, ClocksFollow, ResumeComes, Stopped, Exists, At, UnderWay
<1>2. SInv /\ ClocksFollow /\ ResumeComes
        /\ [Next]_vars /\ [NoStaleReopening]_vars
      => ClocksFollow' /\ ResumeComes'
  BY FollowsNext
<1>3. ResumeComes => OpenMeansRunning
  BY DEF ResumeComes, OpenMeansRunning, Stopped, WillResume, Settled
<1> QED
  BY <1>1, <1>2, <1>3, SerialInvariance, PTL DEF Spec

-----------------------------------------------------------------------------
(* Merges *)

\* A ticket is merged only into one that has not been merged away itself.
OnlyIntoSurvivors ==
  \A t, u \in Tickets :
    Exists(t) /\ ticket[t].mergedIntoId # u /\ ticket'[t].mergedIntoId = u
      /\ Exists(u)
      => ticket[u].mergedIntoId = NULL

\* However many tickets one looks at, one of them is not merged into another
\* of them: no chain of merges, of any length, comes back to where it began.
NoMergeCycle ==
  \A S \in SUBSET Tickets : S # {} =>
    \E t \in S : ~(Exists(t) /\ ticket[t].mergedIntoId \in S)

NeverIntoItself(q) ==
  q.pc \in {"commit", "recompute"} => q.patch.mergedIntoId # q.ticket

LEMMA NeverIntoItselfStep ==
  ASSUME IInv, [Next]_vars, NEW r \in Requests, NeverIntoItself(request[r])
  PROVE  NeverIntoItself(request'[r])
<1>0. /\ TypeOK /\ KEEP \notin Tickets
      /\ Nothing.mergedIntoId = KEEP /\ PausePatch.mergedIntoId = KEEP
  BY MarkerAssumption DEF IInv, Nothing, PausePatch
<1>1. ASSUME NEW v \in Requests, v # r, NEW q,
             request' = [request EXCEPT ![v] = q]
      PROVE  request'[r] = request[r]
  BY <1>0, <1>1 DEF TypeOK
<1>2. ASSUME NEW q, NeverIntoItself(q), request' = [request EXCEPT ![r] = q]
      PROVE  NeverIntoItself(request'[r])
  BY <1>0, <1>2 DEF TypeOK
<1>3. ASSUME NEW pc, pc \notin {"commit", "recompute"}, NEW t,
             \/ request' = [request EXCEPT ![r] = At(pc)]
             \/ request' = [request EXCEPT ![r] = [At(pc) EXCEPT !.ticket = t]]
      PROVE  NeverIntoItself(request'[r])
  BY <1>0, <1>3 DEF TypeOK, NeverIntoItself, At
<1>4. ASSUME NEW v \in Requests, NEW t \in Tickets, Start(v, t)
      PROVE  NeverIntoItself(request'[r])
  <2>1. PICK q : Decided(q, t) /\ request' = [request EXCEPT ![v] = q]
    BY <1>0, <1>4, StartDecides
  <2>2. NeverIntoItself(q)
    BY <2>1 DEF Decided, NeverIntoItself
  <2> QED
    BY <1>1, <1>2, <2>1, <2>2
<1>5. ASSUME NEW v \in Requests, v # r,
             Recompute(v) \/ Pause(v) \/ Resume(v) \/ Commit(v) \/ Fail(v)
      PROVE  request'[r] = request[r]
  BY <1>0, <1>5 DEF Recompute, Pause, Resume, Commit, Fail, TypeOK
<1>6. CASE Recompute(r)
  <2> DEFINE old == request[r]
             b == Rebased(ticket[old.ticket], old.patch)
             q == [old EXCEPT !.pc = "commit", !.patch = Stamped(b)]
  <2>1. /\ old \in Request /\ old.pc = "recompute" /\ old.patch \in Patch
        /\ ticket[old.ticket] \in Row
    BY <1>6 DEF Recompute, IInv, TypeOK, RequestsAreSound, UnderWay, Exists,
                Nullable, Request
  <2>2. b \in Patch /\ b.mergedIntoId = old.patch.mergedIntoId
    BY <2>1, RebasedType
  <2>3. Stamped(b).mergedIntoId = old.patch.mergedIntoId
    <3> HIDE DEF b
    <3> QED
      BY <2>2 DEF Stamped, Patch
  <2>4. request' = [request EXCEPT ![r] = q]
    BY <1>0, <1>6 DEF Recompute, TypeOK
  <2> HIDE DEF b
  <2>5. NeverIntoItself(q)
    BY <2>1, <2>3 DEF Request, NeverIntoItself
  <2> HIDE DEF q
  <2> QED
    BY <1>2, <2>4, <2>5
<1>7. ASSUME NEW p, NEW log, p.mergedIntoId = KEEP,
             request[r].pc \in UnderWay,
             request' = [request EXCEPT ![r] = Pending(request[r].ticket, p, log)]
      PROVE  NeverIntoItself(request'[r])
  <2>1. request[r].ticket \in Tickets
    BY <1>7 DEF IInv, RequestsAreSound
  <2>2. NeverIntoItself(Pending(request[r].ticket, p, log))
    BY <1>0, <1>7, <2>1 DEF Pending, NeverIntoItself
  <2> QED
    BY <1>2, <1>7, <2>2
<1>8. CASE Pause(r)
  BY <1>0, <1>3, <1>7, <1>8 DEF Pause, UnderWay
<1>9. CASE Resume(r)
  <2> DEFINE p == ResumePatch(ticket[request[r].ticket])
  <2>1. p.mergedIntoId = KEEP /\ request[r].pc \in UnderWay
    BY <1>9 DEF ResumePatch, Nothing, Resume, UnderWay
  <2>2. \/ request' = [request EXCEPT ![r] = At("done")]
        \/ request' = [request EXCEPT ![r] =
                         Pending(request[r].ticket, p, {"SLA_RESUMED"})]
    BY <1>9 DEF Resume
  <2> HIDE DEF p
  <2> QED
    BY <1>3, <1>7, <2>1, <2>2
<1>10. CASE Commit(r)
  <2>1. request[r].then \in {"done", "pause", "resume"}
    BY <1>0 DEF TypeOK, Request
  <2> QED
    BY <1>3, <1>10, <2>1 DEF Commit
<1>11. CASE Fail(r)
  BY <1>3, <1>11 DEF Fail
<1>12. CASE Tick \/ UNCHANGED vars \/ \E t \in Tickets : Create(t)
  BY <1>12 DEF Tick, vars, Create
<1> QED
  BY <1>4, <1>5, <1>6, <1>8, <1>9, <1>10, <1>11, <1>12 DEF Next, Advance

LEMMA NoMergeCycleStep ==
  ASSUME IInv, [Next]_vars, NoMergeCycle, [OnlyIntoSurvivors]_vars,
         \A r \in Requests : NeverIntoItself(request[r])
  PROVE  NoMergeCycle'
<1> SUFFICES ASSUME NEW S \in SUBSET Tickets, S # {}
             PROVE  \E t \in S :
                      ~(ticket'[t] # NULL /\ ticket'[t].mergedIntoId \in S)
  BY DEF NoMergeCycle, Exists
<1>0. TypeOK /\ NULL \notin Tickets
  BY MarkerAssumption DEF IInv
<1>1. PICK w \in S : ~(Exists(w) /\ ticket[w].mergedIntoId \in S)
  BY DEF NoMergeCycle
<1>2. CASE ticket' = ticket
  BY <1>1, <1>2 DEF Exists
<1>3. ASSUME NEW t \in Tickets, Create(t)
      PROVE  \E x \in S : ~(ticket'[x] # NULL /\ ticket'[x].mergedIntoId \in S)
  <2>1. PICK p \in Priority, hasPolicy \in BOOLEAN :
          ticket' = [ticket EXCEPT ![t] = NewRow(p, hasPolicy)]
    BY <1>3, WorkloadAssumption DEF Create
  <2>2. /\ ticket'[t].mergedIntoId = NULL
        /\ \A u \in Tickets \ {t} : ticket'[u] = ticket[u]
    BY <1>0, <2>1 DEF NewRow, TypeOK
  <2> QED
    BY <1>0, <1>1, <2>2 DEF Exists
<1>4. ASSUME NEW r \in Requests, Commit(r)
      PROVE  \E x \in S : ~(ticket'[x] # NULL /\ ticket'[x].mergedIntoId \in S)
  <2> DEFINE q == request[r]
             t == q.ticket
             row == ticket[t]
  <2>1. /\ q.pc = "commit" /\ t \in Tickets /\ Exists(t) /\ row \in Row
        /\ q.patch \in Patch /\ q.patch.mergedIntoId # t
    BY <1>0, <1>4 DEF Commit, IInv, TypeOK, RequestsAreSound, UnderWay, Exists,
                      Nullable, Request, NeverIntoItself
  <2>2. ticket' = [ticket EXCEPT ![t] = Written(row, q.patch)]
    BY <1>0, <1>4 DEF Commit, TypeOK
  <2>3. /\ \A u \in Tickets \ {t} : ticket'[u] = ticket[u]
        /\ ticket'[t].mergedIntoId = Column(q.patch.mergedIntoId, row.mergedIntoId)
    BY <1>0, <2>1, <2>2 DEF TypeOK, Written, Row
  <2>4. request'[r].pc # "commit"
    BY <1>0, <1>4 DEF Commit, TypeOK, Request, At
  <2>5. OnlyIntoSurvivors
    BY <2>1, <2>4 DEF vars
  <2> DEFINE u == ticket'[t].mergedIntoId
  <2>6. CASE w # t
    BY <1>1, <2>3, <2>6 DEF Exists
  <2>7. CASE u = row.mergedIntoId
    BY <1>1, <2>1, <2>3, <2>7 DEF Exists
  <2>8. CASE u # row.mergedIntoId /\ u \in S
    <3>1. u \in Tickets /\ u # t
      BY <2>1, <2>3, <2>8 DEF Column
    <3>2. Exists(u) => ticket[u].mergedIntoId = NULL
      BY <2>1, <2>5, <2>8, <3>1 DEF OnlyIntoSurvivors
    <3>3. ticket'[u] = ticket[u]
      BY <2>3, <3>1
    <3> HIDE DEF u
    <3> QED
      BY <1>0, <2>8, <3>2, <3>3 DEF Exists
  <2>9. CASE w = t /\ u \notin S
    BY <2>9
  <2> QED
    BY <2>6, <2>7, <2>8, <2>9
<1> QED
  BY <1>2, <1>3, <1>4, OnlyCreateAndCommit

\* merge looks whether the source has been merged already, and not at the
\* target (tickets.service.ts, merge). That check, held at the commit, is all
\* that is missing: with it no chain of merges leads back, however handlers
\* race, so that every merged ticket has a survivor.
THEOREM SurvivorsRemain ==
  Spec /\ [][OnlyIntoSurvivors]_vars => [](NoMergeCycle /\ MergeHasASurvivor)
<1> DEFINE Distinct == \A r \in Requests : NeverIntoItself(request[r])
<1>1. Init => NoMergeCycle /\ Distinct
  BY DEF Init, NoMergeCycle, NeverIntoItself, Exists, At
<1>2. IInv /\ Distinct /\ [Next]_vars => Distinct'
  BY NeverIntoItselfStep DEF NeverIntoItself
<1>3. IInv /\ Distinct /\ NoMergeCycle /\ [Next]_vars /\ [OnlyIntoSurvivors]_vars
      => NoMergeCycle'
  BY NoMergeCycleStep
<1>4. NoMergeCycle => MergeHasASurvivor
  <2> SUFFICES ASSUME NoMergeCycle, NEW t \in Tickets, NEW u \in Tickets,
                      Exists(t), ticket[t].mergedIntoId = u,
                      Exists(u), ticket[u].mergedIntoId = t
               PROVE  FALSE
    BY DEF MergeHasASurvivor
  <2>1. {t, u} \in SUBSET Tickets /\ {t, u} # {}
    OBVIOUS
  <2> QED
    BY <2>1 DEF NoMergeCycle
<1> HIDE DEF Distinct
<1> QED
  BY <1>1, <1>2, <1>3, <1>4, Invariance, PTL DEF Spec

-----------------------------------------------------------------------------
(* The row as a clock: due date, when it was met, since when it is paused *)

ModeOf(due, met, paused) ==
  IF due = NULL THEN "none"
  ELSE IF met # NULL THEN "met"
  ELSE IF paused # NULL THEN "paused" ELSE "running"

LeftOf(due, met, paused) ==
  CASE ModeOf(due, met, paused) = "running" -> due - now
    [] ModeOf(due, met, paused) = "paused" -> due - paused
    [] OTHER -> 0

\* What SlaClock allows one clock to do while time stands still: from mode m,
\* l ticks left and priority p to m2, l2 and p2.
Moves(reopens, m, l, p, m2, l2, p2) ==
  \/ p2 # p /\ m2 \in {m, "met"}
  \/ p2 # p /\ m = "none" /\ m2 \in {"running", "paused"}
  \/ p2 = p /\ m2 = m /\ l2 = l
  \/ p2 = p /\ l2 = l /\ m = "running" /\ m2 = "paused"
  \/ p2 = p /\ l2 = l /\ m = "paused" /\ m2 = "running"
  \/ p2 = p /\ m \in {"running", "paused"} /\ m2 = "met"
  \/ reopens /\ p2 = p /\ m = "met" /\ m2 \in {"running", "paused"}

LEMMA MetMoves ==
  ASSUME NEW due, NEW met, NEW paused, NEW met2, NEW p, NEW reopens,
         met2 # NULL \/ met2 = met \/ reopens
  PROVE  Moves(reopens, ModeOf(due, met, paused), LeftOf(due, met, paused), p,
               ModeOf(due, met2, paused), LeftOf(due, met2, paused), p)
  BY DEF Moves, ModeOf, LeftOf

LEMMA PauseMoves ==
  ASSUME NEW due, NEW met, NEW p, NEW reopens, now # NULL
  PROVE  Moves(reopens, ModeOf(due, met, NULL), LeftOf(due, met, NULL), p,
               ModeOf(due, met, now), LeftOf(due, met, now), p)
  BY DEF Moves, ModeOf, LeftOf

LEMMA ResumeMoves ==
  ASSUME now \in Nat, NEW due \in Nullable(Nat), NEW met, NEW p, NEW reopens,
         NEW paused \in Nat, paused <= now, NEW due2,
         due2 = IF met = NULL /\ due # NULL THEN due + (now - paused) ELSE due
  PROVE  Moves(reopens, ModeOf(due, met, paused), LeftOf(due, met, paused), p,
               ModeOf(due2, met, NULL), LeftOf(due2, met, NULL), p)
<1>1. paused # NULL /\ due2 \in Nullable(Nat) /\ (due2 = NULL <=> due = NULL)
  BY MarkersHold DEF Markers, Nullable
<1>2. CASE due = NULL \/ met # NULL
  BY <1>1, <1>2 DEF Moves, ModeOf, LeftOf
<1>3. CASE due # NULL /\ met = NULL
  <2>1. due \in Nat /\ due2 = due + (now - paused)
    BY <1>3 DEF Nullable
  <2>2. due2 - now = due - paused
    BY <2>1
  <2>3. /\ ModeOf(due, met, paused) = "paused"
        /\ ModeOf(due2, met, NULL) = "running"
    BY <1>1, <1>3 DEF ModeOf
  <2> QED
    BY <2>2, <2>3 DEF Moves, LeftOf
<1> QED
  BY <1>2, <1>3

LEMMA PriorityMoves ==
  ASSUME NEW due, NEW met, NEW paused, NEW due2, NEW met2, NEW p, NEW p2,
         NEW reopens, p2 # p, due # NULL => due2 # NULL,
         met2 # NULL \/ met2 = met
  PROVE  Moves(reopens, ModeOf(due, met, paused), LeftOf(due, met, paused), p,
               ModeOf(due2, met2, paused), LeftOf(due2, met2, paused), p2)
  BY DEF Moves, ModeOf

\* What a commit does to one of the two clocks, given its columns.
LEMMA CommitMoves ==
  ASSUME now \in Nat, NEW row \in Row, NEW q \in Request, NEW new,
         new = Written(row, q.patch),
         row.slaPausedAt # NULL => row.slaPausedAt <= now,
         FitsEndpoint(q, row) \/ FitsPause(q, row) \/ FitsResume(q, row)
  PROVE  /\ Moves(FALSE,
                  ModeOf(row.responseDueAt, row.firstResponseAt, row.slaPausedAt),
                  LeftOf(row.responseDueAt, row.firstResponseAt, row.slaPausedAt),
                  row.priority,
                  ModeOf(new.responseDueAt, new.firstResponseAt, new.slaPausedAt),
                  LeftOf(new.responseDueAt, new.firstResponseAt, new.slaPausedAt),
                  new.priority)
         /\ Moves(TRUE,
                  ModeOf(row.resolutionDueAt, row.resolvedAt, row.slaPausedAt),
                  LeftOf(row.resolutionDueAt, row.resolvedAt, row.slaPausedAt),
                  row.priority,
                  ModeOf(new.resolutionDueAt, new.resolvedAt, new.slaPausedAt),
                  LeftOf(new.resolutionDueAt, new.resolvedAt, new.slaPausedAt),
                  new.priority)
<1> DEFINE p == q.patch
<1>1. /\ new.priority = Column(p.priority, row.priority)
      /\ new.slaPausedAt = Column(p.slaPausedAt, row.slaPausedAt)
      /\ new.responseDueAt = Column(p.responseDueAt, row.responseDueAt)
      /\ new.resolutionDueAt = Column(p.resolutionDueAt, row.resolutionDueAt)
      /\ new.firstResponseAt = Column(p.firstResponseAt, row.firstResponseAt)
      /\ new.resolvedAt = Column(p.resolvedAt, row.resolvedAt)
  BY WrittenColumns
<1>2. /\ p.responseDueAt \in Nat \cup {KEEP}
      /\ p.resolutionDueAt \in Nat \cup {KEEP}
      /\ p.firstResponseAt \in Nat \cup {KEEP}
      /\ p.resolvedAt \in Nullable(Nat) \cup {KEEP}
  BY DEF Request, Patch
<1>3. /\ row.responseDueAt \in Nullable(Nat)
      /\ row.resolutionDueAt \in Nullable(Nat)
      /\ row.slaPausedAt \in Nullable(Nat)
  BY DEF Row
<1>4. NULL \notin Nat /\ KEEP \notin Nat /\ KEEP # NULL
  BY MarkersHold DEF Markers
<1> HIDE DEF p
<1>5. CASE FitsEndpoint(q, row)
  <2>1. /\ new.slaPausedAt = row.slaPausedAt
        /\ p.priority \in {KEEP, row.priority} =>
             p.responseDueAt = KEEP /\ p.resolutionDueAt = KEEP
        /\ p.firstResponseAt # KEEP => p.priority = KEEP
        /\ p.resolvedAt = NULL => p.priority = KEEP
    BY <1>1, <1>5 DEF FitsEndpoint, Follows, Column, p
  <2>2. CASE new.priority = row.priority
    <3>1. /\ new.responseDueAt = row.responseDueAt
          /\ new.resolutionDueAt = row.resolutionDueAt
          /\ new.firstResponseAt # NULL
               \/ new.firstResponseAt = row.firstResponseAt
      BY <1>1, <1>2, <1>4, <2>1, <2>2 DEF Column
    <3> QED
      BY <2>1, <2>2, <3>1, MetMoves
  <2>3. CASE new.priority # row.priority
    <3>1. /\ row.responseDueAt # NULL => new.responseDueAt # NULL
          /\ row.resolutionDueAt # NULL => new.resolutionDueAt # NULL
          /\ new.firstResponseAt = row.firstResponseAt
          /\ new.resolvedAt # NULL \/ new.resolvedAt = row.resolvedAt
      BY <1>1, <1>2, <1>4, <2>1, <2>3 DEF Column
    <3> QED
      BY <2>1, <2>3, <3>1, PriorityMoves
  <2> QED
    BY <2>2, <2>3
<1>6. CASE FitsPause(q, row)
  <2>1. p = PausePatch /\ row.slaPausedAt = NULL
    BY <1>6 DEF FitsPause, p
  <2>2. /\ new.slaPausedAt = now /\ new.priority = row.priority
        /\ new.responseDueAt = row.responseDueAt
        /\ new.resolutionDueAt = row.resolutionDueAt
        /\ new.firstResponseAt = row.firstResponseAt
        /\ new.resolvedAt = row.resolvedAt
    BY <1>1, <1>4, <2>1 DEF PausePatch, Nothing, Column
  <2> QED
    BY <1>4, <2>1, <2>2, PauseMoves
<1>7. CASE FitsResume(q, row)
  <2>1. p = ResumePatch(row) /\ row.slaPausedAt # NULL
    BY <1>7 DEF FitsResume, p
  <2>2. row.slaPausedAt \in Nat /\ row.slaPausedAt <= now
    BY <1>3, <2>1 DEF Nullable
  <2>3. /\ p.slaPausedAt = NULL /\ p.priority = KEEP
        /\ p.firstResponseAt = KEEP /\ p.resolvedAt = KEEP
        /\ p.responseDueAt =
             IF row.firstResponseAt = NULL /\ row.responseDueAt # NULL
             THEN row.responseDueAt + (now - row.slaPausedAt) ELSE KEEP
        /\ p.resolutionDueAt =
             IF row.resolvedAt = NULL /\ row.resolutionDueAt # NULL
             THEN row.resolutionDueAt + (now - row.slaPausedAt) ELSE KEEP
    BY <2>1 DEF ResumePatch, Nothing
  <2>4. /\ new.slaPausedAt = NULL /\ new.priority = row.priority
        /\ new.firstResponseAt = row.firstResponseAt
        /\ new.resolvedAt = row.resolvedAt
    BY <1>1, <1>4, <2>3 DEF Column
  <2>5. \A due \in Nullable(Nat) : due # NULL =>
          /\ due + (now - row.slaPausedAt) \in Nat
          /\ due + (now - row.slaPausedAt) # KEEP
    BY <1>3, <1>4, <2>2 DEF Nullable
  <2>6. new.responseDueAt =
             IF row.firstResponseAt = NULL /\ row.responseDueAt # NULL
             THEN row.responseDueAt + (now - row.slaPausedAt)
             ELSE row.responseDueAt
    <3>1. CASE row.firstResponseAt = NULL /\ row.responseDueAt # NULL
      <4>1. p.responseDueAt = row.responseDueAt + (now - row.slaPausedAt)
        BY <2>3, <3>1
      <4>2. p.responseDueAt # KEEP
        BY <1>3, <2>5, <3>1, <4>1
      <4>3. new.responseDueAt = p.responseDueAt
        BY <1>1, <4>2 DEF Column
      <4> QED
        BY <3>1, <4>1, <4>3
    <3>2. CASE ~(row.firstResponseAt = NULL /\ row.responseDueAt # NULL)
      <4>1. p.responseDueAt = KEEP
        BY <2>3, <3>2
      <4>2. new.responseDueAt = row.responseDueAt
        BY <1>1, <4>1 DEF Column
      <4> QED
        BY <3>2, <4>2
    <3> QED
      BY <3>1, <3>2
  <2>7. new.resolutionDueAt =
             IF row.resolvedAt = NULL /\ row.resolutionDueAt # NULL
             THEN row.resolutionDueAt + (now - row.slaPausedAt)
             ELSE row.resolutionDueAt
    <3>1. CASE row.resolvedAt = NULL /\ row.resolutionDueAt # NULL
      <4>1. p.resolutionDueAt = row.resolutionDueAt + (now - row.slaPausedAt)
        BY <2>3, <3>1
      <4>2. p.resolutionDueAt # KEEP
        BY <1>3, <2>5, <3>1, <4>1
      <4>3. new.resolutionDueAt = p.resolutionDueAt
        BY <1>1, <4>2 DEF Column
      <4> QED
        BY <3>1, <4>1, <4>3
    <3>2. CASE ~(row.resolvedAt = NULL /\ row.resolutionDueAt # NULL)
      <4>1. p.resolutionDueAt = KEEP
        BY <2>3, <3>2
      <4>2. new.resolutionDueAt = row.resolutionDueAt
        BY <1>1, <4>1 DEF Column
      <4> QED
        BY <3>2, <4>2
    <3> QED
      BY <3>1, <3>2
  <2> QED
    BY <1>3, <2>2, <2>4, <2>6, <2>7, ResumeMoves
<1> QED
  BY <1>5, <1>6, <1>7

-----------------------------------------------------------------------------
(* The response clock *)

ResponseMode(t) == Mode(t, ResponseDue, ResponseMet)
ResponseLeft(t) == Left(t, ResponseDue, ResponseMet)

LEMMA ResponseColumns ==
  ASSUME NEW t \in Tickets
  PROVE  /\ ~Exists(t) => ResponseMode(t) = "none" /\ ResponseLeft(t) = 0
         /\ Exists(t) =>
              /\ ResponseMode(t) = ModeOf(ticket[t].responseDueAt,
                                          ticket[t].firstResponseAt,
                                          ticket[t].slaPausedAt)
              /\ ResponseLeft(t) = LeftOf(ticket[t].responseDueAt,
                                          ticket[t].firstResponseAt,
                                          ticket[t].slaPausedAt)
<1>1. ResponseMode(t) = IF ~Exists(t) THEN "none"
                        ELSE ModeOf(ticket[t].responseDueAt,
                                    ticket[t].firstResponseAt,
                                    ticket[t].slaPausedAt)
  BY DEF ResponseMode, Mode, ModeOf, ResponseDue, ResponseMet
<1>2. ResponseLeft(t) =
        CASE ResponseMode(t) = "running" -> ticket[t].responseDueAt - now
          [] ResponseMode(t) = "paused" ->
               ticket[t].responseDueAt - ticket[t].slaPausedAt
          [] OTHER -> 0
  BY DEF ResponseMode, ResponseLeft, Left, ResponseDue
<1> QED
  BY <1>1, <1>2 DEF LeftOf

LEMMA ResponseMoves ==
  ASSUME NEW t \in Tickets,
         \A u \in Tickets \ {t} :
           /\ ResponseMode(u)' = ResponseMode(u)
           /\ ResponseLeft(u)' = ResponseLeft(u)
           /\ PriorityOf(u)' = PriorityOf(u),
         Moves(FALSE, ResponseMode(t), ResponseLeft(t), PriorityOf(t),
               ResponseMode(t)', ResponseLeft(t)', PriorityOf(t)')
  PROVE  [Response!Next]_Response!clocks
<1>1. Response!Only(t)
  BY DEF Response!Only, ResponseMode, ResponseLeft
<1>2. CASE /\ PriorityOf(t)' = PriorityOf(t)
           /\ ResponseMode(t)' = ResponseMode(t)
           /\ ResponseLeft(t)' = ResponseLeft(t)
  <2>1. \A u \in Tickets : /\ ResponseMode(u)' = ResponseMode(u)
                           /\ ResponseLeft(u)' = ResponseLeft(u)
                           /\ PriorityOf(u)' = PriorityOf(u)
    BY <1>2
  <2> QED
    BY <2>1 DEF Response!clocks, ResponseMode, ResponseLeft
<1>3. CASE ~(/\ PriorityOf(t)' = PriorityOf(t)
             /\ ResponseMode(t)' = ResponseMode(t)
             /\ ResponseLeft(t)' = ResponseLeft(t))
  <2>1. Response!Prioritise(t) \/ Response!Toggle(t) \/ Response!Meet(t)
    BY <1>1, <1>3
    DEF Moves, Response!Prioritise, Response!Toggle, Response!Meet,
        ResponseMode, ResponseLeft
  <2> QED
    BY <2>1 DEF Response!Next
<1> QED
  BY <1>2, <1>3

\* Each step of Tickets is a step of the response clocks, or leaves them alone.
LEMMA ResponseStep ==
  ASSUME SInv, [Next]_vars
  PROVE  [Response!Next]_Response!clocks
<1>1. ASSUME ticket' = ticket, now' = now
      PROVE  [Response!Next]_Response!clocks
  BY <1>1 DEF Response!clocks, Mode, Left, PriorityOf, Exists
<1>2. CASE Tick
  <2>1. /\ now \in Nat /\ now' = now + 1 /\ ticket' = ticket
    BY <1>2, TimeAssumption DEF Tick, SInv, IInv, TypeOK
  <2>2. ASSUME NEW t \in Tickets
        PROVE  /\ ResponseMode(t)' = ResponseMode(t)
               /\ PriorityOf(t)' = PriorityOf(t)
               /\ ResponseLeft(t)' =
                    IF ResponseMode(t) = "running" THEN ResponseLeft(t) - 1
                    ELSE ResponseLeft(t)
    <3>1. /\ ResponseMode(t)' = ResponseMode(t)
          /\ PriorityOf(t)' = PriorityOf(t)
      BY <2>1 DEF ResponseMode, Mode, PriorityOf, Exists
    <3>2. CASE ResponseMode(t) = "running"
      <4>1. Exists(t) /\ ticket[t].responseDueAt # NULL
        BY <3>2 DEF ResponseMode, Mode, ResponseDue
      <4>2. ticket[t].responseDueAt \in Nat
        BY <4>1 DEF SInv, IInv, TypeOK, Row, Nullable, Exists
      <4>3. /\ ResponseLeft(t) = ticket[t].responseDueAt - now
            /\ ResponseLeft(t)' = ticket[t].responseDueAt - now'
        BY <2>1, <3>1, <3>2 DEF ResponseLeft, ResponseMode, Left, ResponseDue
      <4> QED
        BY <2>1, <3>1, <3>2, <4>2, <4>3
    <3>3. CASE ResponseMode(t) # "running"
      <4>1. ResponseLeft(t)' = ResponseLeft(t)
        BY <2>1, <3>1, <3>3 DEF ResponseLeft, ResponseMode, Left, ResponseDue
      <4> QED
        BY <3>1, <3>3, <4>1
    <3> QED
      BY <3>2, <3>3
  <2>3. Response!Elapse
    BY <2>2 DEF Response!Elapse, ResponseMode, ResponseLeft
  <2> QED
    BY <2>3 DEF Response!Next
<1>3. ASSUME NEW t \in Tickets, now' = now,
             \A u \in Tickets \ {t} : ticket'[u] = ticket[u],
             Moves(FALSE, ResponseMode(t), ResponseLeft(t), PriorityOf(t),
                   ResponseMode(t)', ResponseLeft(t)', PriorityOf(t)')
      PROVE  [Response!Next]_Response!clocks
  <2>1. ASSUME NEW u \in Tickets \ {t}
        PROVE  /\ ResponseMode(u)' = ResponseMode(u)
               /\ ResponseLeft(u)' = ResponseLeft(u)
               /\ PriorityOf(u)' = PriorityOf(u)
    BY <1>3, <2>1 DEF ResponseMode, ResponseLeft, Mode, Left, PriorityOf, Exists
  <2> QED
    BY <1>3, <2>1, ResponseMoves
<1>4. ASSUME NEW t \in Tickets, Create(t)
      PROVE  [Response!Next]_Response!clocks
  <2>1. PICK p \in Priority, hasPolicy \in BOOLEAN :
          ticket' = [ticket EXCEPT ![t] = NewRow(p, hasPolicy)]
    BY <1>4, WorkloadAssumption DEF Create
  <2> DEFINE new == NewRow(p, hasPolicy)
  <2>2. /\ new.firstResponseAt = NULL
        /\ new.slaPausedAt = NULL /\ new.priority = p
    BY DEF NewRow
  <2>3. new # NULL
    BY NewRowType, NullIsNoRow DEF SInv, IInv, TypeOK
  <2> HIDE DEF new
  <2>4. /\ ticket'[t] = new /\ now' = now /\ ~Exists(t)
        /\ \A u \in Tickets \ {t} : ticket'[u] = ticket[u]
    BY <1>4, <2>1 DEF Create, Exists, SInv, IInv, TypeOK, new
  <2>5. /\ ResponseMode(t) = "none" /\ PriorityOf(t) = "none"
        /\ ResponseMode(t)' \in {"none", "running"} /\ PriorityOf(t)' = p
    BY <2>2, <2>3, <2>4
    DEF ResponseMode, Mode, PriorityOf, Exists, ResponseDue, ResponseMet
  <2>6. p # "none"
    BY DEF Priority
  <2>7. Moves(FALSE, ResponseMode(t), ResponseLeft(t), PriorityOf(t),
              ResponseMode(t)', ResponseLeft(t)', PriorityOf(t)')
    BY <2>5, <2>6 DEF Moves
  <2> QED
    BY <1>3, <2>4, <2>7
<1>5. ASSUME NEW r \in Requests, Commit(r)
      PROVE  [Response!Next]_Response!clocks
  <2>1. PICK t \in Tickets : t = request[r].ticket
    BY <1>5, CommitFacts
  <2> DEFINE q == request[r]
             row == ticket[t]
             new == Written(row, q.patch)
  <2>2. /\ q \in Request /\ Exists(t) /\ row \in Row /\ now' = now
        /\ \A u \in Tickets : ticket'[u] = IF u = t THEN new ELSE ticket[u]
        /\ new # NULL
        /\ FitsEndpoint(q, row) \/ FitsPause(q, row) \/ FitsResume(q, row)
    BY <1>5, <2>1, CommitFacts
  <2>3. now \in Nat /\ (row.slaPausedAt # NULL => row.slaPausedAt <= now)
    BY <2>2, TimeAssumption DEF SInv, IInv, TypeOK, PausesArePast
  <2>4. PICK new2 : new2 = new
    OBVIOUS
  <2>5. Moves(FALSE,
          ModeOf(row.responseDueAt, row.firstResponseAt, row.slaPausedAt),
          LeftOf(row.responseDueAt, row.firstResponseAt, row.slaPausedAt),
          row.priority,
          ModeOf(new2.responseDueAt, new2.firstResponseAt, new2.slaPausedAt),
          LeftOf(new2.responseDueAt, new2.firstResponseAt, new2.slaPausedAt),
          new2.priority)
    <3> HIDE DEF row, q
    <3> QED
      BY <2>2, <2>3, <2>4, CommitMoves
  <2> HIDE DEF new
  <2>6. ticket'[t] = new2 /\ ~(ticket'[t] = NULL)
    BY <2>2, <2>4
  <2>7. /\ ResponseMode(t) = ModeOf(row.responseDueAt, row.firstResponseAt,
                                    row.slaPausedAt)
        /\ ResponseLeft(t) = LeftOf(row.responseDueAt, row.firstResponseAt,
                                    row.slaPausedAt)
        /\ PriorityOf(t) = row.priority
    BY <2>2, ResponseColumns DEF PriorityOf
  <2>8. /\ ResponseMode(t)' = ModeOf(new2.responseDueAt, new2.firstResponseAt,
                                     new2.slaPausedAt)
        /\ PriorityOf(t)' = new2.priority
    BY <2>6 DEF ResponseMode, Mode, ModeOf, ResponseDue, ResponseMet, PriorityOf,
                Exists
  <2>9. ResponseLeft(t)' = LeftOf(new2.responseDueAt, new2.firstResponseAt,
                                  new2.slaPausedAt)
    BY <2>2, <2>6, <2>8 DEF ResponseLeft, ResponseMode, Left, LeftOf, ResponseDue
  <2>10. \A u \in Tickets \ {t} : ticket'[u] = ticket[u]
    BY <2>2
  <2> QED
    BY <1>3, <2>2, <2>5, <2>7, <2>8, <2>9, <2>10
<1>6. [Next]_vars => now' = now \/ Tick
  BY OnlyTick
<1> QED
  BY <1>1, <1>2, <1>4, <1>5, <1>6, OnlyCreateAndCommit

LEMMA ResponseInit == Init => Response!Init
  BY DEF Init, Response!Init, Mode, Left, PriorityOf, Exists

-----------------------------------------------------------------------------
(* The resolution clock, which may start again *)

ResolutionMode(t) == Mode(t, ResolutionDue, ResolutionMet)
ResolutionLeft(t) == Left(t, ResolutionDue, ResolutionMet)

LEMMA ResolutionColumns ==
  ASSUME NEW t \in Tickets
  PROVE  /\ ~Exists(t) => ResolutionMode(t) = "none" /\ ResolutionLeft(t) = 0
         /\ Exists(t) =>
              /\ ResolutionMode(t) = ModeOf(ticket[t].resolutionDueAt,
                                          ticket[t].resolvedAt,
                                          ticket[t].slaPausedAt)
              /\ ResolutionLeft(t) = LeftOf(ticket[t].resolutionDueAt,
                                          ticket[t].resolvedAt,
                                          ticket[t].slaPausedAt)
<1>1. ResolutionMode(t) = IF ~Exists(t) THEN "none"
                        ELSE ModeOf(ticket[t].resolutionDueAt,
                                    ticket[t].resolvedAt,
                                    ticket[t].slaPausedAt)
  BY DEF ResolutionMode, Mode, ModeOf, ResolutionDue, ResolutionMet
<1>2. ResolutionLeft(t) =
        CASE ResolutionMode(t) = "running" -> ticket[t].resolutionDueAt - now
          [] ResolutionMode(t) = "paused" ->
               ticket[t].resolutionDueAt - ticket[t].slaPausedAt
          [] OTHER -> 0
  BY DEF ResolutionMode, ResolutionLeft, Left, ResolutionDue
<1> QED
  BY <1>1, <1>2 DEF LeftOf

LEMMA ResolutionMoves ==
  ASSUME NEW t \in Tickets,
         \A u \in Tickets \ {t} :
           /\ ResolutionMode(u)' = ResolutionMode(u)
           /\ ResolutionLeft(u)' = ResolutionLeft(u)
           /\ PriorityOf(u)' = PriorityOf(u),
         Moves(TRUE, ResolutionMode(t), ResolutionLeft(t), PriorityOf(t),
               ResolutionMode(t)', ResolutionLeft(t)', PriorityOf(t)')
  PROVE  [Resolution!Next]_Resolution!clocks
<1>1. Resolution!Only(t)
  BY DEF Resolution!Only, ResolutionMode, ResolutionLeft
<1>2. CASE /\ PriorityOf(t)' = PriorityOf(t)
           /\ ResolutionMode(t)' = ResolutionMode(t)
           /\ ResolutionLeft(t)' = ResolutionLeft(t)
  <2>1. \A u \in Tickets : /\ ResolutionMode(u)' = ResolutionMode(u)
                           /\ ResolutionLeft(u)' = ResolutionLeft(u)
                           /\ PriorityOf(u)' = PriorityOf(u)
    BY <1>2
  <2> QED
    BY <2>1 DEF Resolution!clocks, ResolutionMode, ResolutionLeft
<1>3. CASE ~(/\ PriorityOf(t)' = PriorityOf(t)
             /\ ResolutionMode(t)' = ResolutionMode(t)
             /\ ResolutionLeft(t)' = ResolutionLeft(t))
  <2>1. Resolution!Prioritise(t) \/ Resolution!Toggle(t)
        \/ Resolution!Meet(t) \/ Resolution!Restart(t)
    BY <1>1, <1>3
    DEF Moves, Resolution!Prioritise, Resolution!Toggle, Resolution!Meet,
        Resolution!Restart,
        ResolutionMode, ResolutionLeft
  <2> QED
    BY <2>1 DEF Resolution!Next
<1> QED
  BY <1>2, <1>3

\* Each step of Tickets is a step of the resolution clocks, or leaves them alone.
LEMMA ResolutionStep ==
  ASSUME SInv, [Next]_vars
  PROVE  [Resolution!Next]_Resolution!clocks
<1>1. ASSUME ticket' = ticket, now' = now
      PROVE  [Resolution!Next]_Resolution!clocks
  BY <1>1 DEF Resolution!clocks, Mode, Left, PriorityOf, Exists
<1>2. CASE Tick
  <2>1. /\ now \in Nat /\ now' = now + 1 /\ ticket' = ticket
    BY <1>2, TimeAssumption DEF Tick, SInv, IInv, TypeOK
  <2>2. ASSUME NEW t \in Tickets
        PROVE  /\ ResolutionMode(t)' = ResolutionMode(t)
               /\ PriorityOf(t)' = PriorityOf(t)
               /\ ResolutionLeft(t)' =
                    IF ResolutionMode(t) = "running" THEN ResolutionLeft(t) - 1
                    ELSE ResolutionLeft(t)
    <3>1. /\ ResolutionMode(t)' = ResolutionMode(t)
          /\ PriorityOf(t)' = PriorityOf(t)
      BY <2>1 DEF ResolutionMode, Mode, PriorityOf, Exists
    <3>2. CASE ResolutionMode(t) = "running"
      <4>1. Exists(t) /\ ticket[t].resolutionDueAt # NULL
        BY <3>2 DEF ResolutionMode, Mode, ResolutionDue
      <4>2. ticket[t].resolutionDueAt \in Nat
        BY <4>1 DEF SInv, IInv, TypeOK, Row, Nullable, Exists
      <4>3. /\ ResolutionLeft(t) = ticket[t].resolutionDueAt - now
            /\ ResolutionLeft(t)' = ticket[t].resolutionDueAt - now'
        BY <2>1, <3>1, <3>2 DEF ResolutionLeft, ResolutionMode, Left, ResolutionDue
      <4> QED
        BY <2>1, <3>1, <3>2, <4>2, <4>3
    <3>3. CASE ResolutionMode(t) # "running"
      <4>1. ResolutionLeft(t)' = ResolutionLeft(t)
        BY <2>1, <3>1, <3>3 DEF ResolutionLeft, ResolutionMode, Left, ResolutionDue
      <4> QED
        BY <3>1, <3>3, <4>1
    <3> QED
      BY <3>2, <3>3
  <2>3. Resolution!Elapse
    BY <2>2 DEF Resolution!Elapse, ResolutionMode, ResolutionLeft
  <2> QED
    BY <2>3 DEF Resolution!Next
<1>3. ASSUME NEW t \in Tickets, now' = now,
             \A u \in Tickets \ {t} : ticket'[u] = ticket[u],
             Moves(TRUE, ResolutionMode(t), ResolutionLeft(t), PriorityOf(t),
                   ResolutionMode(t)', ResolutionLeft(t)', PriorityOf(t)')
      PROVE  [Resolution!Next]_Resolution!clocks
  <2>1. ASSUME NEW u \in Tickets \ {t}
        PROVE  /\ ResolutionMode(u)' = ResolutionMode(u)
               /\ ResolutionLeft(u)' = ResolutionLeft(u)
               /\ PriorityOf(u)' = PriorityOf(u)
    BY <1>3, <2>1 DEF ResolutionMode, ResolutionLeft, Mode, Left, PriorityOf, Exists
  <2> QED
    BY <1>3, <2>1, ResolutionMoves
<1>4. ASSUME NEW t \in Tickets, Create(t)
      PROVE  [Resolution!Next]_Resolution!clocks
  <2>1. PICK p \in Priority, hasPolicy \in BOOLEAN :
          ticket' = [ticket EXCEPT ![t] = NewRow(p, hasPolicy)]
    BY <1>4, WorkloadAssumption DEF Create
  <2> DEFINE new == NewRow(p, hasPolicy)
  <2>2. /\ new.resolvedAt = NULL
        /\ new.slaPausedAt = NULL /\ new.priority = p
    BY DEF NewRow
  <2>3. new # NULL
    BY NewRowType, NullIsNoRow DEF SInv, IInv, TypeOK
  <2> HIDE DEF new
  <2>4. /\ ticket'[t] = new /\ now' = now /\ ~Exists(t)
        /\ \A u \in Tickets \ {t} : ticket'[u] = ticket[u]
    BY <1>4, <2>1 DEF Create, Exists, SInv, IInv, TypeOK, new
  <2>5. /\ ResolutionMode(t) = "none" /\ PriorityOf(t) = "none"
        /\ ResolutionMode(t)' \in {"none", "running"} /\ PriorityOf(t)' = p
    BY <2>2, <2>3, <2>4
    DEF ResolutionMode, Mode, PriorityOf, Exists, ResolutionDue, ResolutionMet
  <2>6. p # "none"
    BY DEF Priority
  <2>7. Moves(TRUE, ResolutionMode(t), ResolutionLeft(t), PriorityOf(t),
              ResolutionMode(t)', ResolutionLeft(t)', PriorityOf(t)')
    BY <2>5, <2>6 DEF Moves
  <2> QED
    BY <1>3, <2>4, <2>7
<1>5. ASSUME NEW r \in Requests, Commit(r)
      PROVE  [Resolution!Next]_Resolution!clocks
  <2>1. PICK t \in Tickets : t = request[r].ticket
    BY <1>5, CommitFacts
  <2> DEFINE q == request[r]
             row == ticket[t]
             new == Written(row, q.patch)
  <2>2. /\ q \in Request /\ Exists(t) /\ row \in Row /\ now' = now
        /\ \A u \in Tickets : ticket'[u] = IF u = t THEN new ELSE ticket[u]
        /\ new # NULL
        /\ FitsEndpoint(q, row) \/ FitsPause(q, row) \/ FitsResume(q, row)
    BY <1>5, <2>1, CommitFacts
  <2>3. now \in Nat /\ (row.slaPausedAt # NULL => row.slaPausedAt <= now)
    BY <2>2, TimeAssumption DEF SInv, IInv, TypeOK, PausesArePast
  <2>4. PICK new2 : new2 = new
    OBVIOUS
  <2>5. Moves(TRUE,
          ModeOf(row.resolutionDueAt, row.resolvedAt, row.slaPausedAt),
          LeftOf(row.resolutionDueAt, row.resolvedAt, row.slaPausedAt),
          row.priority,
          ModeOf(new2.resolutionDueAt, new2.resolvedAt, new2.slaPausedAt),
          LeftOf(new2.resolutionDueAt, new2.resolvedAt, new2.slaPausedAt),
          new2.priority)
    <3> HIDE DEF row, q
    <3> QED
      BY <2>2, <2>3, <2>4, CommitMoves
  <2> HIDE DEF new
  <2>6. ticket'[t] = new2 /\ ~(ticket'[t] = NULL)
    BY <2>2, <2>4
  <2>7. /\ ResolutionMode(t) = ModeOf(row.resolutionDueAt, row.resolvedAt,
                                    row.slaPausedAt)
        /\ ResolutionLeft(t) = LeftOf(row.resolutionDueAt, row.resolvedAt,
                                    row.slaPausedAt)
        /\ PriorityOf(t) = row.priority
    BY <2>2, ResolutionColumns DEF PriorityOf
  <2>8. /\ ResolutionMode(t)' = ModeOf(new2.resolutionDueAt, new2.resolvedAt,
                                     new2.slaPausedAt)
        /\ PriorityOf(t)' = new2.priority
    BY <2>6 DEF ResolutionMode, Mode, ModeOf, ResolutionDue, ResolutionMet, PriorityOf,
                Exists
  <2>9. ResolutionLeft(t)' = LeftOf(new2.resolutionDueAt, new2.resolvedAt,
                                  new2.slaPausedAt)
    BY <2>2, <2>6, <2>8 DEF ResolutionLeft, ResolutionMode, Left, LeftOf, ResolutionDue
  <2>10. \A u \in Tickets \ {t} : ticket'[u] = ticket[u]
    BY <2>2
  <2> QED
    BY <1>3, <2>2, <2>5, <2>7, <2>8, <2>9, <2>10
<1>6. [Next]_vars => now' = now \/ Tick
  BY OnlyTick
<1> QED
  BY <1>1, <1>2, <1>4, <1>5, <1>6, OnlyCreateAndCommit

LEMMA ResolutionInit == Init => Resolution!Init
  BY DEF Init, Resolution!Init, Mode, Left, PriorityOf, Exists

\* One request at a time, for any SLA policy and business hours, both targets
\* of every ticket behave as SlaClock says: pauses cost nothing, and only a
\* change of priority sets a countdown anew.
THEOREM ClocksImplemented ==
  ASSUME Serial
  PROVE  Spec => TargetsAreClocks
<1>1. SInv /\ [Next]_vars => [Response!Next]_Response!clocks
  BY ResponseStep
<1>2. SInv /\ [Next]_vars => [Resolution!Next]_Resolution!clocks
  BY ResolutionStep
<1>3. Spec => Response!Spec
  BY <1>1, ResponseInit, SerialInvariance, PTL DEF Spec, Response!Spec
<1>4. Spec => Resolution!Spec
  BY <1>2, ResolutionInit, SerialInvariance, PTL DEF Spec, Resolution!Spec
<1> QED
  BY <1>3, <1>4 DEF TargetsAreClocks, ResponseClock, ResolutionClock

=============================================================================
