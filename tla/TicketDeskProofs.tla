-------------------------- MODULE TicketDeskProofs --------------------------
(***************************************************************************)
(* What holds of TicketDesk for every number of requests, staff and        *)
(* customers, however their handlers overlap and wherever they fail.       *)
(*                                                                         *)
(* The handlers write later what they decided on from a snapshot.  What    *)
(* makes the snapshots safe is that a ticket stays, with its requester,    *)
(* that a comment keeps its author's word, and that the organization's row *)
(* is locked between taking a number and committing the ticket.            *)
(* DeskIsSound is inductive; each of the four properties is, or has a      *)
(* strengthening that is, inductive on top of it.                          *)
(***************************************************************************)
EXTENDS TicketDesk, FiniteSetTheorems, TLAPS

Opening == {"create", "split"}

\* A create that has not committed: its ticket is still to come.
Unborn(q) == q.kind = "create" /\ q.pc \in {"number", "commit"}

\* A handler knows a ticket that exists and that its caller may open.
RequestIsSound(r, q) ==
  /\ q.pc = "number" => q.kind \in Opening
  /\ q.pc = "attach" => q.kind \in {"create", "comment"}
  /\ q.pc = "push" => q.kind = "comment" /\ ~q.secret
  /\ Unborn(q) => /\ q.ticket = r /\ q.to \in Users
                  /\ q.by \in Staff \/ q.to = q.by
  /\ q.pc = "commit" /\ q.kind = "assign" => q.to # NULL
  /\ q.pc = "commit" /\ q.kind \in Opening => q.number # 0
  /\ q.pc \notin {"idle", "failed"} /\ ~Unborn(q) =>
       q.ticket \in Existing /\ MayOpen(q.by, q.ticket)

\* Nothing is known of a ticket before it is committed.
RowIsSound(t) ==
  ticket[t] = NULL => log[t] = {} /\ room[t] = {}

DeskIsSound ==
  /\ TicketDeskTypeOK
  /\ \A r \in Requests : /\ RequestIsSound(r, request[r])
                         /\ request[r].pc \in {"idle", "number", "commit"} =>
                              ticket[r] = NULL
  /\ \A t \in TicketIds : RowIsSound(t)

\* Whoever holds the lock has the number that is next.
NumbersAreSound ==
  /\ NumbersAreGapless
  /\ \A r \in Requests : rowLock = r => request[r].number = nextNumber

\* A comment on a ticket of owner, or a copy of one.
CommentIsSound(c, owner) ==
  /\ c.about = owner
  /\ c.secret => c.visibility = "INTERNAL"
  /\ c.id \in Requests => /\ request[c.id].pc # "idle"
                          /\ c.secret => request[c.id].secret

CommentsAreSound ==
  /\ \A t \in Existing :
       /\ \A c \in thread[t] : CommentIsSound(c, ticket[t].requester)
       /\ \A u \in room[t] : MayEnter(u, t)
  /\ \A r \in Requests :
       request[r].kind = "split" /\ request[r].pc \in {"number", "commit"} =>
         \A c \in request[r].copies :
           CommentIsSound(c, ticket[request[r].ticket].requester)
  /\ CustomersSeeTheirs

\* A staff member's public reply, unless it failed.
Replies(q) == /\ q.kind = "comment" /\ q.by \in Staff /\ ~q.secret
              /\ q.pc \notin {"idle", "failed"}

\* What request q has told of, n, on a ticket of owner.
IsToldOnce(q, n, owner) ==
  /\ q.pc = "idle" => n = [u \in Users |-> 0]
  /\ \A u \in Users : n[u] <= IF u = q.by THEN 0 ELSE 1
  /\ q.recipient # NULL => q.recipient # q.by /\ n[q.recipient] = 0
  /\ \A w \in q.watchers : w # q.recipient /\ w # q.by /\ n[w] = 0
  /\ Replies(q) => /\ owner # q.by => owner = q.recipient \/ n[owner] = 1
                   /\ q.pc \in {"answer", "done"} => q.recipient = NULL

Owner(q) == ticket[q.ticket].requester

NoticesAreSound ==
  \A r \in Requests : IsToldOnce(request[r], notices[r], Owner(request[r]))

-----------------------------------------------------------------------------
(* What a step leaves alone *)

\* Tickets stay, with their requesters.
Grows == \A t \in Existing :
           ticket'[t] # NULL /\ ticket'[t].requester = ticket[t].requester

Holds(q) == q.pc = "commit" /\ q.kind \in Opening

LEMMA GrownRequest ==
  ASSUME Grows, NEW r, NEW q \in Request, RequestIsSound(r, q)
  PROVE  RequestIsSound(r, q)'
  BY DEF Grows, RequestIsSound, Unborn, Existing, MayOpen, Opening

\* One request moves, to q.
LEMMA Moves ==
  ASSUME DeskIsSound, TicketDeskTypeOK', Grows,
         NEW r \in Requests, NEW q \in Request, Begin(r, q), RequestIsSound(r, q)',
         q.pc \in {"idle", "number", "commit"} => ticket'[r] = NULL,
         \A t \in Requests \ {r} : ticket[t] = NULL => ticket'[t] = NULL,
         \A t \in TicketIds : RowIsSound(t)'
  PROVE  DeskIsSound'
<1>1. ASSUME NEW t \in Requests
      PROVE  /\ RequestIsSound(t, request[t])'
             /\ request'[t].pc \in {"idle", "number", "commit"} =>
                  ticket'[t] = NULL
  <2>1. CASE t = r
    <3>1. request'[t] = q
      BY <2>1 DEF Begin, DeskIsSound, TicketDeskTypeOK
    <3> QED
      BY <2>1, <3>1 DEF RequestIsSound
  <2>2. CASE t # r
    <3>1. PICK u \in Request : u = request[t]
      BY DEF DeskIsSound, TicketDeskTypeOK
    <3>2. request'[t] = u
      BY <2>2, <3>1 DEF Begin, DeskIsSound, TicketDeskTypeOK
    <3>3. RequestIsSound(t, u)
      BY <3>1 DEF DeskIsSound
    <3>4. RequestIsSound(t, u)'
      BY <3>3, GrownRequest
    <3>5. u.pc \in {"idle", "number", "commit"} => ticket[t] = NULL
      BY <3>1 DEF DeskIsSound
    <3> QED
      BY <2>2, <3>2, <3>4, <3>5 DEF RequestIsSound
  <2> QED
    BY <2>1, <2>2
<1> QED
  BY <1>1 DEF DeskIsSound

\* The lock is held as the type invariant says when r moves to q.
LEMMA LockFollows ==
  ASSUME TicketDeskTypeOK, NEW r \in Requests, NEW q \in Request, Begin(r, q),
         \/ rowLock' = rowLock /\ (Holds(q) <=> Holds(request[r]))
         \/ rowLock' = r /\ rowLock = NULL /\ Holds(q)
         \/ rowLock' = NULL /\ rowLock = r /\ ~Holds(q)
  PROVE  /\ rowLock' \in Requests \cup {NULL}
         /\ request' \in [Requests -> Request]
         /\ \A t \in Requests :
              rowLock' = t <=> /\ request'[t].pc = "commit"
                               /\ request'[t].kind \in {"create", "split"}
<1>1. request' \in [Requests -> Request] /\ request'[r] = q
  BY DEF Begin, TicketDeskTypeOK
<1>2. \A t \in Requests \ {r} : request'[t] = request[t]
  BY DEF Begin, TicketDeskTypeOK
<1>3. rowLock' \in Requests \cup {NULL}
  BY DEF TicketDeskTypeOK
<1>4. \A t \in Requests : rowLock = t <=> Holds(request[t])
  BY DEF TicketDeskTypeOK, Holds, Opening
<1>5. \A t \in Requests : rowLock' = t <=> Holds(request'[t])
  BY <1>1, <1>2, <1>4, TicketDeskAssumption
<1> QED
  BY <1>1, <1>3, <1>5 DEF Holds, Opening

\* A handler goes on without touching the tables.
LEMMA RequestMoves ==
  ASSUME DeskIsSound, NEW r \in Requests, NEW q \in Request, Begin(r, q),
         RequestIsSound(r, q),
         \/ rowLock' = rowLock /\ (Holds(q) <=> Holds(request[r]))
         \/ rowLock' = r /\ rowLock = NULL /\ Holds(q)
         \/ rowLock' = NULL /\ rowLock = r /\ ~Holds(q),
         q.pc \in {"idle", "number", "commit"} =>
           request[r].pc \in {"idle", "number", "commit"},
         notices' \in [Requests -> [Users -> Nat]],
         shown' \in [Customers -> SUBSET Comment],
         UNCHANGED <<nextNumber, ticket, thread, log, room>>
  PROVE  DeskIsSound'
<1>1. TicketDeskTypeOK'
  BY LockFollows DEF DeskIsSound, TicketDeskTypeOK
<1>2. Grows
  BY DEF Grows, Existing
<1>3. RequestIsSound(r, q)'
  BY <1>2, GrownRequest
<1>4. \A t \in TicketIds : RowIsSound(t)'
  BY DEF DeskIsSound, RowIsSound
<1>5. q.pc \in {"idle", "number", "commit"} => ticket'[r] = NULL
  BY DEF DeskIsSound
<1> QED
  BY <1>1, <1>2, <1>3, <1>4, <1>5, Moves

-----------------------------------------------------------------------------
(* Handlers begin *)

LEMMA IdleIsARequest == Idle \in Request
  BY TicketDeskAssumption DEF Idle, Request, Users, TicketIds, Kinds

LEMMA StartCreateSafe ==
  ASSUME DeskIsSound, NEW r \in Requests, StartCreate(r)
  PROVE  DeskIsSound'
<1>1. PICK u \in Users, to \in Users :
        /\ u \in Staff \/ to = u
        /\ Begin(r, [Idle EXCEPT !.pc = "number", !.kind = "create", !.by = u,
                                 !.ticket = r, !.to = to])
  BY DEF StartCreate
<1> DEFINE q == [Idle EXCEPT !.pc = "number", !.kind = "create", !.by = u,
                             !.ticket = r, !.to = to]
<1>2. q \in Request /\ q.pc = "number" /\ q.kind = "create"
  BY IdleIsARequest DEF Idle, Request, TicketIds, Kinds
<1>3. RequestIsSound(r, q)
  BY <1>1 DEF RequestIsSound, Unborn, Opening, Idle
<1>4. Begin(r, q)
  BY <1>1
<1> HIDE DEF q
<1>5. request[r].pc = "idle"
  BY DEF StartCreate, MayBegin
<1>6. ~Holds(q) /\ ~Holds(request[r])
  BY <1>2, <1>5 DEF Holds
<1>7. UNCHANGED <<nextNumber, rowLock, ticket, thread, log, room, notices, shown>>
  BY DEF StartCreate
<1> QED
  BY <1>2, <1>3, <1>4, <1>5, <1>6, <1>7, RequestMoves
     DEF DeskIsSound, TicketDeskTypeOK

LEMMA OtherThanIsOther ==
  ASSUME NEW u \in Users, NEW v \in Users \cup {NULL}
  PROVE  /\ OtherThan(u, v) \in {v, NULL} \ {u}
         /\ v # u => OtherThan(u, v) = v
  BY TicketDeskAssumption DEF OtherThan

\* What addComment takes from its snapshot.
LEMMA CommentIsOne ==
  ASSUME DeskIsSound, NEW r \in Requests, StartComment(r)
  PROVE  \E q \in Request :
           /\ Begin(r, q) /\ q.pc = "commit" /\ q.kind = "comment"
           /\ q.ticket \in Existing /\ MayOpen(q.by, q.ticket)
           /\ q.recipient = OtherThan(q.by, Recipient(q.by, q.ticket))
           /\ q.watchers = AllBut(ticket[q.ticket].watchers, q.by,
                                  Recipient(q.by, q.ticket))
<1>1. PICK u \in Users, t \in Existing, secret \in BOOLEAN :
        /\ MayOpen(u, t)
        /\ Begin(r, [Idle EXCEPT
             !.pc = "commit", !.kind = "comment", !.by = u, !.ticket = t,
             !.secret = secret, !.recipient = OtherThan(u, Recipient(u, t)),
             !.watchers = AllBut(ticket[t].watchers, u, Recipient(u, t))])
  BY DEF StartComment
<1>2. ticket[t] \in Ticket /\ t \in TicketIds
  BY DEF Existing, DeskIsSound, TicketDeskTypeOK
<1>3. Recipient(u, t) \in Users \cup {NULL}
  BY <1>2 DEF Recipient, Ticket
<1>4. /\ OtherThan(u, Recipient(u, t)) \in Users \cup {NULL}
      /\ AllBut(ticket[t].watchers, u, Recipient(u, t)) \in SUBSET Users
  BY <1>2, <1>3, OtherThanIsOther DEF Ticket, AllBut
<1>5. PICK addressee \in Users \cup {NULL}, others \in SUBSET Users :
        /\ addressee = OtherThan(u, Recipient(u, t))
        /\ others = AllBut(ticket[t].watchers, u, Recipient(u, t))
  BY <1>4
<1>6. PICK q \in Request :
        q = [Idle EXCEPT
               !.pc = "commit", !.kind = "comment", !.by = u, !.ticket = t,
               !.secret = secret, !.recipient = addressee, !.watchers = others]
  <2>1. [Idle EXCEPT
           !.pc = "commit", !.kind = "comment", !.by = u, !.ticket = t,
           !.secret = secret, !.recipient = addressee, !.watchers = others]
          \in Request
    BY <1>2, IdleIsARequest DEF Request, Kinds
  <2> QED
    BY <2>1
<1>7. /\ q.pc = "commit" /\ q.kind = "comment" /\ q.by = u /\ q.ticket = t
      /\ q.recipient = addressee /\ q.watchers = others
  BY <1>6 DEF Idle
<1> QED
  BY <1>1, <1>5, <1>6, <1>7

LEMMA StartCommentSafe ==
  ASSUME DeskIsSound, NEW r \in Requests, StartComment(r)
  PROVE  DeskIsSound'
<1>1. PICK q \in Request :
        /\ Begin(r, q) /\ q.pc = "commit" /\ q.kind = "comment"
        /\ q.ticket \in Existing /\ MayOpen(q.by, q.ticket)
  BY CommentIsOne
<1>2. RequestIsSound(r, q)
  BY <1>1 DEF RequestIsSound, Unborn, Opening
<1>3. request[r].pc = "idle"
  BY DEF StartComment, MayBegin
<1>4. ~Holds(q) /\ ~Holds(request[r])
  BY <1>1, <1>3 DEF Holds, Opening
<1>5. UNCHANGED <<nextNumber, rowLock, ticket, thread, log, room, notices, shown>>
  BY DEF StartComment
<1> QED
  BY <1>1, <1>2, <1>3, <1>4, <1>5, RequestMoves DEF DeskIsSound, TicketDeskTypeOK

\* What assign, unassign, escalate, addTag and removeTag take from theirs.
LEMMA StaffedIsOne ==
  ASSUME DeskIsSound, NEW r \in Requests, StartStaffed(r)
  PROVE  \E q \in Request :
           /\ Begin(r, q) /\ q.pc \in {"answer", "commit"}
           /\ q.kind \in Staffed \ {"split"} /\ q.by \in Staff
           /\ q.ticket \in Existing /\ (q.kind = "assign" => q.to # NULL)
           /\ q.recipient # q.by /\ q.watchers = {}
<1>1. PICK u \in Staff, t \in Existing, k \in Staffed \ {"split"},
           to \in Users \cup {NULL} :
        /\ k = "assign" => to # NULL
        /\ Begin(r, [Idle EXCEPT
             !.pc = AfterCheck(k, ticket[t].assignee), !.kind = k, !.by = u,
             !.ticket = t, !.to = to, !.held = ticket[t].assignee,
             !.recipient = OtherThan(u, Target(k, to, ticket[t].assignee))])
  BY DEF StartStaffed
<1>2. t \in TicketIds
  BY DEF Existing
<1>3. PICK held \in Users \cup {NULL} : held = ticket[t].assignee
  BY <1>2 DEF Existing, DeskIsSound, TicketDeskTypeOK, Ticket
<1>4. PICK pc \in {"answer", "commit"} : pc = AfterCheck(k, held)
  BY DEF AfterCheck
<1>5. Target(k, to, held) \in Users \cup {NULL}
  BY DEF Target
<1>6. PICK addressee \in (Users \cup {NULL}) \ {u} :
        addressee = OtherThan(u, Target(k, to, held))
  BY <1>5, OtherThanIsOther DEF Users
<1>7. PICK q \in Request :
        q = [Idle EXCEPT !.pc = pc, !.kind = k, !.by = u, !.ticket = t,
                         !.to = to, !.held = held, !.recipient = addressee]
  <2>1. k \in Kinds /\ u \in Users
    BY DEF Kinds, Users
  <2> QED
    BY <1>2, <2>1, IdleIsARequest DEF Request
<1>8. /\ q.pc = pc /\ q.kind = k /\ q.by = u /\ q.ticket = t /\ q.to = to
      /\ q.recipient = addressee /\ q.watchers = {}
  BY <1>7 DEF Idle
<1> QED
  BY <1>1, <1>3, <1>4, <1>6, <1>7, <1>8

LEMMA StartStaffedSafe ==
  ASSUME DeskIsSound, NEW r \in Requests, StartStaffed(r)
  PROVE  DeskIsSound'
<1>1. PICK q \in Request :
        /\ Begin(r, q) /\ q.pc \in {"answer", "commit"}
        /\ q.kind \in Staffed \ {"split"} /\ q.by \in Staff
        /\ q.ticket \in Existing /\ (q.kind = "assign" => q.to # NULL)
  BY StaffedIsOne
<1>2. RequestIsSound(r, q)
  BY <1>1 DEF RequestIsSound, Unborn, Opening, Staffed, MayOpen
<1>3. request[r].pc = "idle"
  BY DEF StartStaffed, MayBegin
<1>4. ~Holds(q) /\ ~Holds(request[r])
  BY <1>1, <1>3 DEF Holds, Opening, Staffed
<1>5. UNCHANGED <<nextNumber, rowLock, ticket, thread, log, room, notices, shown>>
  BY DEF StartStaffed
<1> QED
  BY <1>1, <1>2, <1>3, <1>4, <1>5, RequestMoves DEF DeskIsSound, TicketDeskTypeOK

LEMMA StartSplitSafe ==
  ASSUME DeskIsSound, NEW r \in Requests, StartSplit(r)
  PROVE  DeskIsSound'
<1>1. PICK u \in Staff, t \in Existing : \E cs \in SUBSET thread[t] :
        Begin(r, [Idle EXCEPT !.pc = "number", !.kind = "split", !.by = u,
                              !.ticket = t, !.held = ticket[t].assignee,
                              !.copies = {Copied(c) : c \in cs}])
  BY DEF StartSplit
<1>2. PICK cs \in SUBSET thread[t] :
        Begin(r, [Idle EXCEPT !.pc = "number", !.kind = "split", !.by = u,
                              !.ticket = t, !.held = ticket[t].assignee,
                              !.copies = {Copied(c) : c \in cs}])
  BY <1>1
<1> DEFINE copies == {Copied(c) : c \in cs}
           held == ticket[t].assignee
           q == [Idle EXCEPT !.pc = "number", !.kind = "split", !.by = u,
                             !.ticket = t, !.held = held, !.copies = copies]
<1>3. /\ ticket[t] \in Ticket /\ t \in TicketIds
      /\ copies \subseteq Comment
  BY DEF Existing, DeskIsSound, TicketDeskTypeOK, Copied
<1>4. held \in Users \cup {NULL}
  BY <1>3 DEF Ticket
<1>5. Begin(r, q)
  BY <1>2
<1> HIDE DEF copies, held
<1>6. q \in Request /\ q.pc = "number" /\ q.kind = "split" /\ q.ticket = t
        /\ q.by = u
  BY <1>3, <1>4, IdleIsARequest DEF Idle, Request, Kinds, Staffed, Users
<1>7. RequestIsSound(r, q)
  BY <1>6 DEF RequestIsSound, Unborn, Opening, MayOpen
<1> HIDE DEF q
<1>8. request[r].pc = "idle"
  BY DEF StartSplit, MayBegin
<1>9. ~Holds(q) /\ ~Holds(request[r])
  BY <1>6, <1>8 DEF Holds
<1>10. UNCHANGED <<nextNumber, rowLock, ticket, thread, log, room, notices, shown>>
  BY DEF StartSplit
<1> QED
  BY <1>6, <1>7, <1>5, <1>8, <1>9, <1>10, RequestMoves
     DEF DeskIsSound, TicketDeskTypeOK

\* A handler writes columns of a ticket other than its requester.
LEMMA RowWritten ==
  ASSUME DeskIsSound, NEW r \in Requests, NEW q \in Request, Begin(r, q),
         RequestIsSound(r, q), ~Holds(q), ~Holds(request[r]),
         q.pc \notin {"idle", "number", "commit"},
         NEW t \in Existing, NEW new \in Ticket,
         new.requester = ticket[t].requester,
         ticket' = [ticket EXCEPT ![t] = new],
         log' \in [TicketIds -> SUBSET LogEntry],
         \A x \in TicketIds \ {t} : log'[x] = log[x],
         UNCHANGED <<nextNumber, rowLock, thread, room, notices, shown>>
  PROVE  DeskIsSound'
<1>1. /\ t \in TicketIds /\ ticket' \in [TicketIds -> Ticket \cup {NULL}]
      /\ ticket'[t] = new /\ new # NULL
      /\ \A x \in TicketIds \ {t} : ticket'[x] = ticket[x]
  BY TicketDeskAssumption DEF Existing, DeskIsSound, TicketDeskTypeOK
<1>2. TicketDeskTypeOK'
  BY <1>1, LockFollows DEF DeskIsSound, TicketDeskTypeOK
<1>3. Grows
  BY <1>1 DEF Grows, Existing
<1>4. \A x \in TicketIds : RowIsSound(x)'
  BY <1>1 DEF DeskIsSound, RowIsSound
<1>5. \A x \in Requests \ {r} : ticket[x] = NULL => ticket'[x] = NULL
  BY <1>1 DEF Existing, TicketIds
<1>6. RequestIsSound(r, q)'
  BY <1>3, GrownRequest
<1> QED
  BY <1>2, <1>3, <1>4, <1>5, <1>6, Moves

LEMMA StartWatchSafe ==
  ASSUME DeskIsSound, NEW r \in Requests, StartWatch(r)
  PROVE  DeskIsSound'
<1>1. PICK u \in Users, t \in Existing, k \in {"watch", "unwatch", "view"} :
        /\ MayOpen(u, t)
        /\ Begin(r, [Idle EXCEPT !.pc = "answer", !.kind = k, !.by = u,
                                 !.ticket = t])
        /\ ticket' = [ticket EXCEPT ![t].watchers =
                        CASE k = "watch" -> @ \cup {u}
                          [] k = "unwatch" -> @ \ {u}
                          [] OTHER -> @]
  BY DEF StartWatch
<1> DEFINE q == [Idle EXCEPT !.pc = "answer", !.kind = k, !.by = u, !.ticket = t]
           watchers == CASE k = "watch" -> ticket[t].watchers \cup {u}
                         [] k = "unwatch" -> ticket[t].watchers \ {u}
                         [] OTHER -> ticket[t].watchers
           new == [ticket[t] EXCEPT !.watchers = watchers]
<1>2. ticket[t] \in Ticket /\ t \in TicketIds /\ Begin(r, q)
  BY <1>1 DEF Existing, DeskIsSound, TicketDeskTypeOK
<1>3. watchers \subseteq Users
  BY <1>2 DEF Ticket
<1>4. ticket' = [ticket EXCEPT ![t] = new]
  BY <1>1
<1> HIDE DEF watchers
<1>5. new \in Ticket /\ new.requester = ticket[t].requester
  BY <1>2, <1>3 DEF Ticket
<1> HIDE DEF new
<1>6. /\ q \in Request /\ q.pc = "answer" /\ q.kind = k /\ q.ticket = t
      /\ q.by = u
  BY <1>2, IdleIsARequest DEF Idle, Request, Kinds
<1> HIDE DEF q
<1>7. RequestIsSound(r, q)
  BY <1>1, <1>6 DEF RequestIsSound, Unborn
<1>8. ~Holds(q) /\ ~Holds(request[r])
  BY <1>6 DEF Holds, StartWatch, MayBegin
<1>9. UNCHANGED <<nextNumber, rowLock, thread, log, room, notices, shown>>
  BY DEF StartWatch
<1> QED
  BY <1>2, <1>4, <1>5, <1>6, <1>7, <1>8, <1>9, RowWritten
     DEF DeskIsSound, TicketDeskTypeOK

-----------------------------------------------------------------------------
(* The transactions *)

LEMMA NumberSafe ==
  ASSUME DeskIsSound, NEW r \in Requests, Number(r)
  PROVE  DeskIsSound'
<1> DEFINE q == [request[r] EXCEPT !.number = nextNumber, !.pc = "commit"]
<1>1. /\ request[r] \in Request /\ request[r].pc = "number"
      /\ RequestIsSound(r, request[r]) /\ nextNumber \in Nat \ {0}
  BY DEF Number, Numbered, DeskIsSound, TicketDeskTypeOK
<1>2. q \in Request /\ Holds(q)
  BY <1>1 DEF Request, Holds, RequestIsSound
<1>3. RequestIsSound(r, q)
  BY <1>1, <1>2 DEF Request, RequestIsSound, Unborn, Opening
<1>4. Begin(r, q) /\ rowLock' = r /\ rowLock = NULL
  BY DEF Number, Numbered, Begin
<1> HIDE DEF q
<1>5. UNCHANGED <<nextNumber, ticket, thread, log, room, notices, shown>>
  BY DEF Number, Numbered
<1> QED
  BY <1>1, <1>2, <1>3, <1>4, <1>5, RequestMoves DEF DeskIsSound, TicketDeskTypeOK

\* The holder of the lock adds its ticket.
LEMMA TicketAdded ==
  ASSUME DeskIsSound, NEW r \in Requests, Holds(request[r]),
         NEW q \in Request, Begin(r, q), RequestIsSound(r, q)',
         q.pc \notin {"idle", "number", "commit"},
         NEW new \in Ticket, NEW comments \in SUBSET Comment,
         ticket' = [ticket EXCEPT ![r] = new],
         thread' = [thread EXCEPT ![r] = comments],
         nextNumber' = request[r].number + 1, rowLock' = NULL,
         UNCHANGED <<log, room, notices, shown>>
  PROVE  DeskIsSound'
<1>1. ticket[r] = NULL /\ r \in TicketIds /\ rowLock = r /\ ~Holds(q)
  BY DEF DeskIsSound, TicketDeskTypeOK, Holds, Opening, TicketIds
<1>2. /\ ticket' \in [TicketIds -> Ticket \cup {NULL}]
      /\ thread' \in [TicketIds -> SUBSET Comment]
      /\ ticket'[r] = new /\ new # NULL
      /\ \A x \in TicketIds \ {r} : ticket'[x] = ticket[x]
  BY <1>1, TicketDeskAssumption DEF DeskIsSound, TicketDeskTypeOK
<1>3. nextNumber' \in Nat \ {0}
  BY DEF DeskIsSound, TicketDeskTypeOK, Request
<1>4. TicketDeskTypeOK'
  BY <1>1, <1>2, <1>3, LockFollows DEF DeskIsSound, TicketDeskTypeOK
<1>5. Grows
  BY <1>1, <1>2 DEF Grows, Existing
<1>6. \A x \in TicketIds : RowIsSound(x)'
  BY <1>1, <1>2 DEF DeskIsSound, RowIsSound
<1>7. \A x \in Requests \ {r} : ticket[x] = NULL => ticket'[x] = NULL
  BY <1>2 DEF TicketIds
<1> QED
  BY <1>4, <1>5, <1>6, <1>7, Moves

LEMMA CreateSafe ==
  ASSUME DeskIsSound, NEW r \in Requests, Create(r)
  PROVE  DeskIsSound'
<1>1. PICK o \in Request : o = request[r]
  BY DEF DeskIsSound, TicketDeskTypeOK
<1>2. o.pc = "commit" /\ o.kind = "create" /\ RequestIsSound(r, o)
  BY <1>1 DEF Create, DeskIsSound
<1>3. /\ Holds(o) /\ o.ticket = r /\ o.to \in Users /\ o.number \in Nat \ {0}
      /\ o.by \in Staff \/ o.to = o.by
  BY <1>2 DEF Holds, Unborn, Opening, RequestIsSound, Request
<1>4. PICK q \in Request : q = [o EXCEPT !.pc = "attach"]
  BY DEF Request
<1>5. /\ q.pc = "attach" /\ q.kind = "create" /\ q.by = o.by /\ q.ticket = r
  BY <1>2, <1>3, <1>4 DEF Request
<1> DEFINE new == NewTicket(o.number, o.to, NULL, FALSE)
           first == [id |-> r, about |-> o.to, secret |-> FALSE,
                     visibility |-> "PUBLIC"]
<1>6. new \in Ticket /\ new.requester = o.to
  BY <1>3 DEF NewTicket, Ticket
<1>7. {first} \in SUBSET Comment
  BY <1>3 DEF Comment, TicketIds
<1>8. /\ Begin(r, q) /\ ticket' = [ticket EXCEPT ![r] = new]
      /\ thread' = [thread EXCEPT ![r] = {first}]
      /\ nextNumber' = o.number + 1 /\ rowLock' = NULL
      /\ UNCHANGED <<log, room, notices, shown>>
  BY <1>1, <1>4 DEF Create, Proceed, Begin
<1> HIDE DEF new, first
<1>9. ticket'[r] = new /\ new # NULL /\ r \in TicketIds
  BY <1>6, <1>8, TicketDeskAssumption DEF DeskIsSound, TicketDeskTypeOK, TicketIds
<1>10. r \in Existing' /\ MayOpen(q.by, r)'
  BY <1>3, <1>5, <1>6, <1>9 DEF Existing, MayOpen
<1>11. RequestIsSound(r, q)'
  BY <1>5, <1>10 DEF RequestIsSound, Unborn, Opening
<1> QED
  BY <1>1, <1>3, <1>5, <1>6, <1>7, <1>8, <1>11, TicketAdded

LEMMA SplitSafe ==
  ASSUME DeskIsSound, NEW r \in Requests, Split(r)
  PROVE  DeskIsSound'
<1>1. PICK o \in Request : o = request[r]
  BY DEF DeskIsSound, TicketDeskTypeOK
<1>2. o.pc = "commit" /\ o.kind = "split" /\ RequestIsSound(r, o)
  BY <1>1 DEF Split, DeskIsSound
<1>3. /\ Holds(o) /\ o.number \in Nat \ {0} /\ o.copies \in SUBSET Comment
      /\ o.ticket \in Existing /\ MayOpen(o.by, o.ticket)
  BY <1>2 DEF Holds, Unborn, Opening, RequestIsSound, Request
<1>4. ticket[o.ticket] \in Ticket /\ r \in TicketIds
  BY <1>3 DEF Existing, DeskIsSound, TicketDeskTypeOK, TicketIds
<1>5. PICK q \in Request : q = [o EXCEPT !.pc = "answer", !.ticket = r]
  BY <1>4 DEF Request
<1>6. /\ q.pc = "answer" /\ q.kind = "split" /\ q.by = o.by /\ q.ticket = r
  BY <1>2, <1>5 DEF Request
<1> DEFINE new == NewTicket(o.number, ticket[o.ticket].requester, o.held, TRUE)
<1>7. new \in Ticket /\ new.requester = ticket[o.ticket].requester
  BY <1>3, <1>4 DEF NewTicket, Ticket, Request
<1>8. /\ Begin(r, q) /\ ticket' = [ticket EXCEPT ![r] = new]
      /\ thread' = [thread EXCEPT ![r] = o.copies]
      /\ nextNumber' = o.number + 1 /\ rowLock' = NULL
      /\ UNCHANGED <<log, room, notices, shown>>
  BY <1>1, <1>5 DEF Split, Begin
<1> HIDE DEF new
<1>9. ticket'[r] = new /\ new # NULL
  BY <1>4, <1>7, <1>8, TicketDeskAssumption DEF DeskIsSound, TicketDeskTypeOK
<1>10. r \in Existing' /\ MayOpen(q.by, r)'
  BY <1>3, <1>4, <1>6, <1>7, <1>9 DEF Existing, MayOpen
<1>11. RequestIsSound(r, q)'
  BY <1>6, <1>10 DEF RequestIsSound, Unborn, Opening
<1> QED
  BY <1>1, <1>3, <1>6, <1>7, <1>8, <1>11, TicketAdded

LEMMA AddCommentSafe ==
  ASSUME DeskIsSound, NEW r \in Requests, AddComment(r)
  PROVE  DeskIsSound'
<1>1. PICK o \in Request : o = request[r]
  BY DEF DeskIsSound, TicketDeskTypeOK
<1>2. o.pc = "commit" /\ o.kind = "comment" /\ RequestIsSound(r, o)
  BY <1>1 DEF AddComment, DeskIsSound
<1>3. o.ticket \in Existing /\ MayOpen(o.by, o.ticket) /\ o.secret \in BOOLEAN
  BY <1>2 DEF Unborn, RequestIsSound, Request
<1>4. ticket[o.ticket] \in Ticket /\ o.ticket \in TicketIds /\ r \in TicketIds
  BY <1>3 DEF Existing, DeskIsSound, TicketDeskTypeOK, TicketIds
<1>5. PICK q \in Request : q = [o EXCEPT !.pc = "attach"]
  BY DEF Request
<1>6. q.pc = "attach" /\ q.kind = "comment" /\ q.by = o.by /\ q.ticket = o.ticket
  BY <1>2, <1>5 DEF Request
<1> DEFINE visibility == IF o.secret THEN "INTERNAL" ELSE "PUBLIC"
           new == [id |-> r, about |-> ticket[o.ticket].requester,
                   secret |-> o.secret, visibility |-> visibility]
<1>7. visibility \in {"PUBLIC", "INTERNAL"}
  OBVIOUS
<1>8. /\ Begin(r, q) /\ rowLock' = rowLock
      /\ thread' = [thread EXCEPT ![o.ticket] = @ \cup {new}]
      /\ UNCHANGED <<nextNumber, ticket, log, room, notices, shown>>
  BY <1>1, <1>5 DEF AddComment, Proceed, Begin
<1> HIDE DEF visibility
<1>9. new \in Comment
  BY <1>3, <1>4, <1>7 DEF Comment, Ticket
<1> HIDE DEF new
<1>10. thread' \in [TicketIds -> SUBSET Comment]
  BY <1>4, <1>8, <1>9 DEF DeskIsSound, TicketDeskTypeOK
<1>11. ~Holds(o) /\ ~Holds(q)
  BY <1>2, <1>6 DEF Holds, Opening
<1>12. TicketDeskTypeOK'
  BY <1>1, <1>8, <1>10, <1>11, LockFollows DEF DeskIsSound, TicketDeskTypeOK
<1>13. Grows /\ \A t \in TicketIds : RowIsSound(t)'
  BY <1>8 DEF Grows, Existing, DeskIsSound, RowIsSound
<1>14. RequestIsSound(r, q)
  BY <1>3, <1>6 DEF RequestIsSound, Unborn
<1>15. RequestIsSound(r, q)'
  BY <1>13, <1>14, GrownRequest
<1> QED
  BY <1>6, <1>8, <1>12, <1>13, <1>15, Moves

\* One column is set, with the history entry that tells of it.
OneColumn(row, new, entry) ==
  /\ new.number = row.number /\ new.requester = row.requester
  /\ new.splitOff = row.splitOff
  /\ \/ new.assignee = row.assignee /\ entry.to = NULL
        /\ (new.tagged => row.tagged \/ entry.action = "TAG_ADDED")
     \/ new.assignee # NULL /\ entry.to = new.assignee
        /\ new.tagged = row.tagged
     \/ new.assignee = NULL /\ entry.action = "UNASSIGNED"
        /\ new.tagged = row.tagged

LEMMA RewriteSetsOneColumn ==
  ASSUME DeskIsSound, NEW r \in Requests,
         Assign(r) \/ Unassign(r) \/ Escalate(r) \/ AddTag(r) \/ RemoveTag(r)
  PROVE  \E new \in Ticket, entry \in LogEntry :
           /\ OneColumn(Current(r), new, entry) /\ Rewrite(r, new, entry)
           /\ request[r].kind \notin Opening /\ request[r].ticket \in Existing
<1>1. PICK o \in Request : o = request[r]
  BY DEF DeskIsSound, TicketDeskTypeOK
<1>2. /\ o.pc = "commit" /\ RequestIsSound(r, o)
      /\ o.kind \in {"assign", "unassign", "escalate", "tag", "untag"}
  BY <1>1 DEF DeskIsSound, Assign, Unassign, Escalate, AddTag, RemoveTag, Rewrite
<1>3. o.ticket \in Existing /\ o.kind \notin Opening
  BY <1>2 DEF RequestIsSound, Unborn, Opening
<1>4. PICK row \in Ticket : row = ticket[o.ticket]
  BY <1>3 DEF Existing, DeskIsSound, TicketDeskTypeOK
<1>5. o.to \in Users \cup {NULL} /\ Current(r) = row
  BY <1>1, <1>4 DEF Request, Current
<1>6. CASE Assign(r)
  <2>1. o.kind = "assign"
    BY <1>1, <1>6 DEF Assign
  <2>2. o.to # NULL
    BY <1>2, <2>1 DEF RequestIsSound
  <2>3. PICK action \in {"ASSIGNED", "TRANSFERRED"} :
          Rewrite(r, [row EXCEPT !.assignee = o.to],
                  [action |-> action, to |-> o.to])
    <3> DEFINE action == IF o.held = NULL THEN "ASSIGNED" ELSE "TRANSFERRED"
    <3>1. Rewrite(r, [row EXCEPT !.assignee = o.to],
                  [action |-> action, to |-> o.to])
      BY <1>1, <1>5, <1>6 DEF Assign
    <3>2. action \in {"ASSIGNED", "TRANSFERRED"}
      OBVIOUS
    <3> HIDE DEF action
    <3> QED
      BY <3>1, <3>2
  <2>4. PICK new \in Ticket : new = [row EXCEPT !.assignee = o.to]
    BY <1>5 DEF Ticket
  <2>5. PICK entry \in LogEntry : entry = [action |-> action, to |-> o.to]
    BY <1>5 DEF LogEntry
  <2>6. /\ new.number = row.number /\ new.requester = row.requester
        /\ new.splitOff = row.splitOff /\ new.assignee = o.to
        /\ new.tagged = row.tagged /\ entry.to = o.to
    BY <2>4, <2>5 DEF Ticket
  <2> QED
    BY <1>1, <1>3, <1>5, <2>2, <2>3, <2>4, <2>5, <2>6 DEF OneColumn
<1>7. CASE Unassign(r)
  <2>1. PICK new \in Ticket : new = [row EXCEPT !.assignee = NULL]
    BY DEF Ticket
  <2>2. PICK entry \in LogEntry : entry = [action |-> "UNASSIGNED", to |-> NULL]
    BY DEF LogEntry
  <2>3. Rewrite(r, new, entry)
    BY <1>5, <1>7, <2>1, <2>2 DEF Unassign
  <2>4. /\ new.number = row.number /\ new.requester = row.requester
        /\ new.splitOff = row.splitOff /\ new.assignee = NULL
        /\ new.tagged = row.tagged /\ entry.action = "UNASSIGNED"
    BY <2>1, <2>2 DEF Ticket
  <2> QED
    BY <1>1, <1>3, <1>5, <2>3, <2>4 DEF OneColumn
<1>8. CASE Escalate(r)
  <2> DEFINE to == IF o.to = NULL THEN row.assignee ELSE o.to
  <2>1. Rewrite(r, [row EXCEPT !.assignee = to],
                [action |-> "ESCALATED", to |-> o.to])
    BY <1>1, <1>5, <1>8 DEF Escalate
  <2>2. to \in Users \cup {NULL} /\ (o.to = NULL => to = row.assignee)
          /\ (o.to # NULL => to = o.to)
    BY <1>5 DEF Ticket
  <2> HIDE DEF to
  <2>3. PICK new \in Ticket : new = [row EXCEPT !.assignee = to]
    BY <2>2 DEF Ticket
  <2>4. PICK entry \in LogEntry : entry = [action |-> "ESCALATED", to |-> o.to]
    BY <1>5 DEF LogEntry
  <2>5. /\ new.number = row.number /\ new.requester = row.requester
        /\ new.splitOff = row.splitOff /\ new.assignee = to
        /\ new.tagged = row.tagged /\ entry.to = o.to
    BY <2>3, <2>4 DEF Ticket
  <2>6. Rewrite(r, new, entry)
    BY <2>1, <2>3, <2>4
  <2> QED
    BY <1>1, <1>3, <1>5, <2>2, <2>5, <2>6 DEF OneColumn
<1>9. CASE AddTag(r) \/ RemoveTag(r)
  <2>1. PICK tagged \in BOOLEAN, action \in {"TAG_ADDED", "TAG_REMOVED"} :
          /\ Rewrite(r, [row EXCEPT !.tagged = tagged],
                     [action |-> action, to |-> NULL])
          /\ tagged => action = "TAG_ADDED"
    BY <1>5, <1>9 DEF AddTag, RemoveTag
  <2>2. PICK new \in Ticket : new = [row EXCEPT !.tagged = tagged]
    BY DEF Ticket
  <2>3. PICK entry \in LogEntry : entry = [action |-> action, to |-> NULL]
    BY DEF LogEntry
  <2>4. /\ new.number = row.number /\ new.requester = row.requester
        /\ new.splitOff = row.splitOff /\ new.assignee = row.assignee
        /\ new.tagged = tagged /\ entry.to = NULL /\ entry.action = action
    BY <2>2, <2>3 DEF Ticket
  <2>5. Rewrite(r, new, entry)
    BY <2>1, <2>2, <2>3
  <2> QED
    BY <1>1, <1>3, <1>5, <2>1, <2>4, <2>5 DEF OneColumn
<1> QED
  BY <1>6, <1>7, <1>8, <1>9

LEMMA RewriteSafe ==
  ASSUME DeskIsSound, NEW r \in Requests,
         Assign(r) \/ Unassign(r) \/ Escalate(r) \/ AddTag(r) \/ RemoveTag(r)
  PROVE  DeskIsSound'
<1>1. PICK new \in Ticket, entry \in LogEntry :
        /\ OneColumn(Current(r), new, entry) /\ Rewrite(r, new, entry)
        /\ request[r].kind \notin Opening /\ request[r].ticket \in Existing
  BY RewriteSetsOneColumn
<1>2. PICK o \in Request : o = request[r]
  BY DEF DeskIsSound, TicketDeskTypeOK
<1>3. /\ RequestIsSound(r, o) /\ o.pc = "commit" /\ ~Holds(o)
      /\ o.ticket \in Existing /\ o.ticket \in TicketIds
      /\ new.requester = ticket[o.ticket].requester
  BY <1>1, <1>2 DEF DeskIsSound, Rewrite, Holds, OneColumn, Current, Existing
<1>4. PICK q \in Request : q = [o EXCEPT !.pc = "tell"]
  BY DEF Request
<1>5. q.pc = "tell" /\ q.kind = o.kind /\ q.by = o.by /\ q.ticket = o.ticket
  BY <1>4 DEF Request
<1>6. RequestIsSound(r, q) /\ ~Holds(q)
  BY <1>1, <1>2, <1>3, <1>5 DEF RequestIsSound, Unborn, Holds, Opening
<1>7. /\ Begin(r, q) /\ ticket' = [ticket EXCEPT ![o.ticket] = new]
      /\ log' = [log EXCEPT ![o.ticket] = @ \cup {entry}]
      /\ UNCHANGED <<nextNumber, rowLock, thread, room, notices, shown>>
  BY <1>1, <1>2, <1>4 DEF Rewrite, Proceed, Begin
<1>8. /\ log' \in [TicketIds -> SUBSET LogEntry]
      /\ \A x \in TicketIds \ {o.ticket} : log'[x] = log[x]
  BY <1>3, <1>7 DEF DeskIsSound, TicketDeskTypeOK
<1> QED
  BY <1>2, <1>3, <1>5, <1>6, <1>7, <1>8, RowWritten

-----------------------------------------------------------------------------
(* After the commit *)

\* What is shown is comments.
LEMMA ShownIsTyped ==
  ASSUME DeskIsSound, NEW us, NEW cs \in SUBSET Comment, ShowTo(us, cs)
  PROVE  shown' \in [Customers -> SUBSET Comment]
  BY DEF ShowTo, DeskIsSound, TicketDeskTypeOK

LEMMA AttachSafe ==
  ASSUME DeskIsSound, NEW r \in Requests, Attach(r)
  PROVE  DeskIsSound'
<1>1. PICK o \in Request : o = request[r]
  BY DEF DeskIsSound, TicketDeskTypeOK
<1>2. o.pc = "attach" /\ RequestIsSound(r, o)
  BY <1>1 DEF Attach, DeskIsSound
<1> DEFINE pc == IF o.kind = "comment" /\ ~o.secret THEN "push" ELSE "answer"
<1>3. pc \in {"push", "answer"} /\ (pc = "push" => o.kind = "comment" /\ ~o.secret)
  OBVIOUS
<1>4. Begin(r, [o EXCEPT !.pc = pc])
  BY <1>1 DEF Attach, Proceed, Begin
<1> HIDE DEF pc
<1>5. PICK q \in Request : q = [o EXCEPT !.pc = pc]
  BY <1>3 DEF Request
<1>6. /\ q.pc = pc /\ q.kind = o.kind /\ q.by = o.by /\ q.ticket = o.ticket
      /\ q.secret = o.secret
  BY <1>5 DEF Request
<1>7. RequestIsSound(r, q) /\ ~Holds(o) /\ ~Holds(q)
  BY <1>2, <1>3, <1>6 DEF RequestIsSound, Unborn, Holds
<1>8. UNCHANGED <<nextNumber, rowLock, ticket, thread, log, room, notices, shown>>
  BY DEF Attach
<1> QED
  BY <1>1, <1>3, <1>4, <1>5, <1>6, <1>7, <1>8, RequestMoves
     DEF DeskIsSound, TicketDeskTypeOK

LEMMA PushSafe ==
  ASSUME DeskIsSound, NEW r \in Requests, Push(r)
  PROVE  DeskIsSound'
<1>1. PICK o \in Request : o = request[r]
  BY DEF DeskIsSound, TicketDeskTypeOK
<1>2. o.pc = "push" /\ RequestIsSound(r, o)
  BY <1>1 DEF Push, DeskIsSound
<1>3. PICK q \in Request : q = [o EXCEPT !.pc = "tell"]
  BY DEF Request
<1>4. q.pc = "tell" /\ q.kind = o.kind /\ q.by = o.by /\ q.ticket = o.ticket
  BY <1>3 DEF Request
<1>5. RequestIsSound(r, q) /\ ~Holds(o) /\ ~Holds(q)
  BY <1>2, <1>4 DEF RequestIsSound, Unborn, Holds
<1>6. /\ Begin(r, q)
      /\ ShowTo(room[o.ticket], {c \in thread[o.ticket] : c.id = r})
      /\ UNCHANGED <<nextNumber, rowLock, ticket, thread, log, room, notices>>
  BY <1>1, <1>3 DEF Push, Proceed, Begin
<1>7. {c \in thread[o.ticket] : c.id = r} \in SUBSET Comment
  BY DEF DeskIsSound, TicketDeskTypeOK, Request
<1>8. shown' \in [Customers -> SUBSET Comment]
  BY <1>6, <1>7, ShownIsTyped
<1> QED
  BY <1>1, <1>4, <1>5, <1>6, <1>8, RequestMoves DEF DeskIsSound, TicketDeskTypeOK

LEMMA AnswerSafe ==
  ASSUME DeskIsSound, NEW r \in Requests, Answer(r)
  PROVE  DeskIsSound'
<1>1. PICK o \in Request : o = request[r]
  BY DEF DeskIsSound, TicketDeskTypeOK
<1>2. o.pc = "answer" /\ RequestIsSound(r, o)
  BY <1>1 DEF Answer, DeskIsSound
<1>3. PICK q \in Request : q = [o EXCEPT !.pc = "done"]
  BY DEF Request
<1>4. q.pc = "done" /\ q.kind = o.kind /\ q.by = o.by /\ q.ticket = o.ticket
  BY <1>3 DEF Request
<1>5. RequestIsSound(r, q) /\ ~Holds(o) /\ ~Holds(q)
  BY <1>2, <1>4 DEF RequestIsSound, Unborn, Holds
<1>6. /\ Begin(r, q) /\ ShowTo({o.by}, VisibleTo(o.by, o.ticket))
      /\ UNCHANGED <<nextNumber, rowLock, ticket, thread, log, room, notices>>
  BY <1>1, <1>3 DEF Answer, Proceed, Begin
<1>7. VisibleTo(o.by, o.ticket) \in SUBSET Comment
  BY DEF DeskIsSound, TicketDeskTypeOK, Request, VisibleTo
<1>8. shown' \in [Customers -> SUBSET Comment]
  BY <1>6, <1>7, ShownIsTyped
<1> QED
  BY <1>1, <1>4, <1>5, <1>6, <1>8, RequestMoves DEF DeskIsSound, TicketDeskTypeOK

\* The three ways in which Tell goes on, with q the request that results.
TellOne(r, q) ==
  \/ /\ request[r].recipient # NULL
     /\ notices' = [notices EXCEPT ![r][request[r].recipient] = @ + 1]
     /\ q = [request[r] EXCEPT !.recipient = NULL]
  \/ /\ request[r].recipient = NULL
     /\ \E w \in request[r].watchers :
          /\ notices' = [notices EXCEPT ![r][w] = @ + 1]
          /\ q = [request[r] EXCEPT !.watchers = @ \ {w}]
  \/ /\ request[r].recipient = NULL /\ request[r].watchers = {}
     /\ q = [request[r] EXCEPT !.pc = "answer"]
     /\ UNCHANGED notices

LEMMA TellIsOne ==
  ASSUME DeskIsSound, NEW r \in Requests, Tell(r)
  PROVE  \E q \in Request :
           /\ Begin(r, q) /\ TellOne(r, q)
           /\ q.pc \in {"tell", "answer"} /\ q.kind = request[r].kind
           /\ q.by = request[r].by /\ q.ticket = request[r].ticket
           /\ q.secret = request[r].secret /\ q.copies = request[r].copies
<1>1. PICK o \in Request : o = request[r]
  BY DEF DeskIsSound, TicketDeskTypeOK
<1>2. o.pc = "tell"
  BY <1>1 DEF Tell
<1>3. CASE /\ o.recipient # NULL
           /\ notices' = [notices EXCEPT ![r][o.recipient] = @ + 1]
           /\ Begin(r, [o EXCEPT !.recipient = NULL])
  <2>1. PICK q \in Request : q = [o EXCEPT !.recipient = NULL]
    BY DEF Request
  <2> QED
    BY <1>1, <1>2, <1>3, <2>1 DEF TellOne, Request
<1>4. CASE /\ o.recipient = NULL
           /\ \E w \in o.watchers :
                /\ notices' = [notices EXCEPT ![r][w] = @ + 1]
                /\ Begin(r, [o EXCEPT !.watchers = @ \ {w}])
  <2>1. PICK w \in o.watchers :
          /\ notices' = [notices EXCEPT ![r][w] = @ + 1]
          /\ Begin(r, [o EXCEPT !.watchers = @ \ {w}])
    BY <1>4
  <2>2. PICK q \in Request : q = [o EXCEPT !.watchers = @ \ {w}]
    BY DEF Request
  <2>3. /\ q.pc = "tell" /\ q.kind = o.kind /\ q.by = o.by
        /\ q.ticket = o.ticket /\ q.secret = o.secret /\ q.copies = o.copies
    BY <1>2, <2>2 DEF Request
  <2> QED
    BY <1>1, <1>4, <2>1, <2>2, <2>3 DEF TellOne
<1>5. CASE /\ o.recipient = NULL /\ o.watchers = {}
           /\ Begin(r, [o EXCEPT !.pc = "answer"])
           /\ UNCHANGED notices
  <2>1. PICK q \in Request : q = [o EXCEPT !.pc = "answer"]
    BY DEF Request
  <2> QED
    BY <1>1, <1>5, <2>1 DEF TellOne, Request
<1> QED
  BY <1>1, <1>3, <1>4, <1>5 DEF Tell, Begin, Proceed

\* One notice more, of r to u.
LEMMA OneMore ==
  ASSUME notices \in [Requests -> [Users -> Nat]], NEW r \in Requests,
         NEW u \in Users, notices' = [notices EXCEPT ![r][u] = @ + 1]
  PROVE  /\ notices' \in [Requests -> [Users -> Nat]]
         /\ \A t \in Requests, v \in Users :
              notices'[t][v] = IF t = r /\ v = u THEN notices[t][v] + 1
                                                ELSE notices[t][v]
<1> DEFINE mine == [notices[r] EXCEPT ![u] = @ + 1]
<1>1. mine \in [Users -> Nat]
  OBVIOUS
<1>2. \A v \in Users : mine[v] = IF v = u THEN notices[r][v] + 1
                                        ELSE notices[r][v]
  OBVIOUS
<1>3. notices' = [notices EXCEPT ![r] = mine]
  OBVIOUS
<1> HIDE DEF mine
<1> QED
  BY <1>1, <1>2, <1>3

LEMMA TellSafe ==
  ASSUME DeskIsSound, NEW r \in Requests, Tell(r)
  PROVE  DeskIsSound'
<1>1. PICK q \in Request :
        /\ Begin(r, q) /\ TellOne(r, q)
        /\ q.pc \in {"tell", "answer"} /\ q.kind = request[r].kind
        /\ q.by = request[r].by /\ q.ticket = request[r].ticket
        /\ q.secret = request[r].secret
  BY TellIsOne
<1>2. request[r].pc = "tell" /\ RequestIsSound(r, request[r])
  BY DEF Tell, DeskIsSound
<1>3. RequestIsSound(r, q) /\ ~Holds(q) /\ ~Holds(request[r])
  BY <1>1, <1>2 DEF RequestIsSound, Unborn, Holds
<1>4. notices' \in [Requests -> [Users -> Nat]]
  <2>1. \/ UNCHANGED notices
        \/ \E u \in Users : notices' = [notices EXCEPT ![r][u] = @ + 1]
    BY <1>1 DEF TellOne, DeskIsSound, TicketDeskTypeOK, Request
  <2> QED
    BY <2>1, OneMore DEF DeskIsSound, TicketDeskTypeOK
<1>5. UNCHANGED <<nextNumber, rowLock, ticket, thread, log, room, shown>>
  BY DEF Tell
<1> QED
  BY <1>1, <1>3, <1>4, <1>5, RequestMoves DEF DeskIsSound, TicketDeskTypeOK

LEMMA FailSafe ==
  ASSUME DeskIsSound, NEW r \in Requests, Fail(r)
  PROVE  DeskIsSound'
<1>1. PICK o \in Request : o = request[r]
  BY DEF DeskIsSound, TicketDeskTypeOK
<1>2. PICK q \in Request : q = [o EXCEPT !.pc = "failed"]
  BY DEF Request
<1>3. q.pc = "failed" /\ Begin(r, q)
  BY <1>1, <1>2 DEF Request, Fail, Proceed, Begin
<1>4. RequestIsSound(r, q) /\ ~Holds(q)
  BY <1>3 DEF RequestIsSound, Unborn, Holds
<1>5. rowLock = r <=> Holds(request[r])
  BY DEF DeskIsSound, TicketDeskTypeOK, Holds, Opening
<1>6. \/ rowLock' = rowLock /\ ~Holds(request[r])
      \/ rowLock' = NULL /\ rowLock = r
  BY <1>5 DEF Fail
<1>7. UNCHANGED <<nextNumber, ticket, thread, log, room, notices, shown>>
  BY DEF Fail
<1> QED
  BY <1>3, <1>4, <1>6, <1>7, RequestMoves DEF DeskIsSound, TicketDeskTypeOK

\* The rooms of tickets that are there.
LEMMA RoomsSafe ==
  ASSUME DeskIsSound, Join \/ Leave
  PROVE  DeskIsSound'
<1>1. /\ room' \in [TicketIds -> SUBSET Users]
      /\ \A t \in TicketIds : ticket[t] = NULL => room'[t] = {}
  <2>1. CASE Join
    BY <2>1 DEF Join, Existing, DeskIsSound, TicketDeskTypeOK, RowIsSound
  <2>2. CASE Leave
    BY <2>2 DEF Leave, DeskIsSound, TicketDeskTypeOK, RowIsSound
  <2> QED
    BY <2>1, <2>2
<1>2. UNCHANGED <<nextNumber, rowLock, ticket, thread, log, request, notices,
                  shown>>
  BY DEF Join, Leave
<1>3. TicketDeskTypeOK'
  BY <1>1, <1>2 DEF DeskIsSound, TicketDeskTypeOK
<1>4. \A t \in TicketIds : RowIsSound(t)'
  BY <1>1, <1>2 DEF DeskIsSound, RowIsSound
<1>5. Grows
  BY <1>2 DEF Grows, Existing
<1>6. \A r \in Requests : RequestIsSound(r, request[r])'
  BY <1>2 DEF DeskIsSound, RequestIsSound, Unborn, Existing, MayOpen
<1> QED
  BY <1>2, <1>3, <1>4, <1>6 DEF DeskIsSound

-----------------------------------------------------------------------------
\* The ticket that has been filed, and what its history says of its assignee.
LEMMA FirstTicket ==
  ASSUME TicketDeskInit
  PROVE  \E old \in Ticket, entry \in LogEntry :
           /\ ticket = [t \in TicketIds |-> IF t = Old THEN old ELSE NULL]
           /\ log = [t \in TicketIds |->
                       IF t = Old /\ old.assignee # NULL THEN {entry} ELSE {}]
           /\ old.number = 1 /\ old.requester = Requester
           /\ ~old.tagged /\ entry.to = old.assignee
<1>1. PICK holder \in Staff \cup {NULL}, watchers \in SUBSET {Requester} :
        /\ ticket = [t \in TicketIds |->
                       IF t = Old
                       THEN [number |-> 1, requester |-> Requester,
                             assignee |-> holder, watchers |-> watchers,
                             tagged |-> FALSE, splitOff |-> FALSE]
                       ELSE NULL]
        /\ log = [t \in TicketIds |->
                    IF t = Old /\ holder # NULL
                    THEN {[action |-> "ASSIGNED", to |-> holder]} ELSE {}]
  BY DEF TicketDeskInit
<1> DEFINE first == [number |-> 1, requester |-> Requester, assignee |-> holder,
                     watchers |-> watchers, tagged |-> FALSE, splitOff |-> FALSE]
<1>2. PICK old \in Ticket : old = first
  <2>1. first \in Ticket
    BY TicketDeskAssumption DEF Ticket, Users
  <2> HIDE DEF first
  <2> QED
    BY <2>1
<1>3. PICK entry \in LogEntry : entry = [action |-> "ASSIGNED", to |-> holder]
  BY DEF LogEntry, Users
<1>4. /\ ticket = [t \in TicketIds |-> IF t = Old THEN old ELSE NULL]
      /\ log = [t \in TicketIds |-> IF t = Old /\ holder # NULL THEN {entry}
                                                                ELSE {}]
  BY <1>1, <1>2, <1>3
<1>5. /\ old.number = 1 /\ old.requester = Requester /\ old.assignee = holder
      /\ old.tagged = FALSE /\ entry.to = holder
  BY <1>2, <1>3
<1> HIDE <1>1, <1>2, <1>3
<1> QED
  BY <1>4, <1>5

LEMMA DeskStarts == TicketDeskInit => DeskIsSound
<1> SUFFICES ASSUME TicketDeskInit PROVE DeskIsSound
  OBVIOUS
<1>1. PICK old \in Ticket, entry \in LogEntry :
        /\ ticket = [t \in TicketIds |-> IF t = Old THEN old ELSE NULL]
        /\ log = [t \in TicketIds |->
                    IF t = Old /\ old.assignee # NULL THEN {entry} ELSE {}]
  BY FirstTicket
<1>2. /\ ticket \in [TicketIds -> Ticket \cup {NULL}]
      /\ log \in [TicketIds -> SUBSET LogEntry]
      /\ \A t \in TicketIds \ {Old} : ticket[t] = NULL /\ log[t] = {}
      /\ ticket[Old] # NULL
  BY <1>1, TicketDeskAssumption DEF TicketIds
<1>3. First \in Comment /\ Note \in Comment
  BY TicketDeskAssumption DEF First, Note, Comment, TicketIds, Users
<1>4. /\ thread \in [TicketIds -> SUBSET Comment]
      /\ room \in [TicketIds -> SUBSET Users]
      /\ \A t \in TicketIds : room[t] = {}
  BY <1>3 DEF TicketDeskInit
<1>5. request \in [Requests -> Request] /\ \A r \in Requests : request[r] = Idle
  BY IdleIsARequest DEF TicketDeskInit
<1>6. Idle.pc = "idle" /\ Idle.kind = "view"
  BY DEF Idle
<1>7. /\ notices \in [Requests -> [Users -> Nat]]
      /\ shown \in [Customers -> SUBSET Comment]
      /\ nextNumber \in Nat \ {0} /\ rowLock = NULL
  BY DEF TicketDeskInit
<1>8. TicketDeskTypeOK
  BY <1>2, <1>4, <1>5, <1>6, <1>7, TicketDeskAssumption DEF TicketDeskTypeOK
<1>9. \A t \in TicketIds : RowIsSound(t)
  BY <1>2, <1>4 DEF RowIsSound
<1>10. \A r \in Requests : RequestIsSound(r, request[r]) /\ ticket[r] = NULL
  BY <1>2, <1>5, <1>6, TicketDeskAssumption DEF RequestIsSound, Unborn, TicketIds
<1> QED
  BY <1>8, <1>9, <1>10 DEF DeskIsSound

LEMMA DeskGoesOn == DeskIsSound /\ [TicketDeskNext]_ticketDeskVars => DeskIsSound'
<1> SUFFICES ASSUME DeskIsSound, [TicketDeskNext]_ticketDeskVars
             PROVE  DeskIsSound'
  OBVIOUS
<1>1. CASE UNCHANGED ticketDeskVars
  BY <1>1 DEF ticketDeskVars, DeskIsSound, TicketDeskTypeOK, RequestIsSound,
              RowIsSound, Unborn, Existing, MayOpen
<1>2. ASSUME NEW r \in Requests,
             \/ StartCreate(r) \/ StartComment(r) \/ StartStaffed(r)
             \/ StartSplit(r) \/ StartWatch(r)
      PROVE  DeskIsSound'
  BY <1>2, StartCreateSafe, StartCommentSafe, StartStaffedSafe, StartSplitSafe,
     StartWatchSafe
<1>3. ASSUME NEW r \in Requests,
             \/ Number(r) \/ Create(r) \/ Split(r) \/ AddComment(r)
             \/ Assign(r) \/ Unassign(r) \/ Escalate(r) \/ AddTag(r)
             \/ RemoveTag(r)
      PROVE  DeskIsSound'
  BY <1>3, NumberSafe, CreateSafe, SplitSafe, AddCommentSafe, RewriteSafe
<1>4. ASSUME NEW r \in Requests,
             Attach(r) \/ Push(r) \/ Tell(r) \/ Answer(r) \/ Fail(r)
      PROVE  DeskIsSound'
  BY <1>4, AttachSafe, PushSafe, TellSafe, AnswerSafe, FailSafe
<1> QED
  BY <1>1, <1>2, <1>3, <1>4, RoomsSafe DEF TicketDeskNext

\* Every reachable state is sound: what a handler took from its snapshot still
\* holds when it is used.
THEOREM Invariance == TicketDeskSpec => []DeskIsSound
  BY DeskStarts, DeskGoesOn, PTL DEF TicketDeskSpec

\* Tables, threads, rooms and requests keep their types, and the organization's
\* row is locked exactly between a ticket's number and its commit.
THEOREM TypeCorrect == TicketDeskSpec => []TicketDeskTypeOK
<1>1. DeskIsSound => TicketDeskTypeOK
  BY DEF DeskIsSound
<1> QED
  BY <1>1, Invariance, PTL

-----------------------------------------------------------------------------
(* What a step keeps *)

\* A handler takes a step.
Handles(r) ==
  \/ StartCreate(r) \/ StartComment(r) \/ StartStaffed(r) \/ StartSplit(r)
  \/ StartWatch(r)
  \/ Number(r) \/ Create(r) \/ Split(r) \/ AddComment(r)
  \/ Assign(r) \/ Unassign(r) \/ Escalate(r) \/ AddTag(r) \/ RemoveTag(r)
  \/ Attach(r) \/ Push(r) \/ Tell(r) \/ Answer(r) \/ Fail(r)

Begins(r) == \/ StartCreate(r) \/ StartComment(r) \/ StartStaffed(r)
             \/ StartSplit(r) \/ StartWatch(r)

Rewrites(r) == \/ Assign(r) \/ Unassign(r) \/ Escalate(r) \/ AddTag(r)
               \/ RemoveTag(r)

LEMMA StepIsAHandlers ==
  ASSUME [TicketDeskNext]_ticketDeskVars
  PROVE  \/ UNCHANGED ticketDeskVars \/ Join \/ Leave
         \/ \E r \in Requests : Handles(r)
  BY DEF TicketDeskNext, Handles

LEMMA OthersWait ==
  ASSUME DeskIsSound, NEW r \in Requests, Handles(r)
  PROVE  /\ \A t \in Requests \ {r} : request'[t] = request[t]
         /\ Begins(r) \/ UnderWay(r)
<1>1. request \in [Requests -> Request]
  BY DEF DeskIsSound, TicketDeskTypeOK
<1>2. CASE Begins(r)
  <2>1. \E q : Begin(r, q)
    BY <1>2, CommentIsOne, StaffedIsOne
       DEF Begins, StartCreate, StartSplit, StartWatch
  <2> QED
    BY <1>1, <1>2, <2>1 DEF Begin
<1>3. CASE Rewrites(r)
  <2>1. request' = [request EXCEPT ![r].pc = "tell"] /\ request[r].pc = "commit"
    BY <1>3 DEF Rewrites, Assign, Unassign, Escalate, AddTag, RemoveTag,
                Rewrite, Proceed
  <2> QED
    BY <1>1, <2>1 DEF UnderWay
<1>4. CASE Number(r) \/ Create(r) \/ Split(r) \/ AddComment(r)
  BY <1>1, <1>4 DEF Number, Numbered, Create, Split, AddComment, Proceed,
                    UnderWay
<1>5. CASE Attach(r) \/ Push(r) \/ Tell(r) \/ Answer(r) \/ Fail(r)
  BY <1>1, <1>5 DEF Attach, Push, Tell, Answer, Fail, Proceed, UnderWay
<1> QED
  BY <1>2, <1>3, <1>4, <1>5 DEF Handles, Begins, Rewrites

\* A handler keeps who calls it, what for, and what it has taken to copy.
KeepsTo(old, new) ==
  /\ new.kind = old.kind /\ new.by = old.by
  /\ new.secret = old.secret /\ new.copies = old.copies
  /\ new.pc \notin {"idle", "number"}
  /\ new.pc = "commit" => old.pc = "number"
  /\ old.kind # "split" \/ new.pc = "commit" => new.ticket = old.ticket

LEMMA HandlersKeepTo ==
  ASSUME DeskIsSound, NEW r \in Requests, Handles(r), ~Begins(r)
  PROVE  KeepsTo(request[r], request'[r])
<1>1. PICK o \in Request : o = request[r]
  BY DEF DeskIsSound, TicketDeskTypeOK
<1>2. CASE Rewrites(r)
  <2>1. request'[r] = [o EXCEPT !.pc = "tell"]
    BY <1>1, <1>2 DEF Rewrites, Assign, Unassign, Escalate, AddTag, RemoveTag,
                Rewrite, Proceed, DeskIsSound, TicketDeskTypeOK
  <2> QED
    BY <1>1, <2>1 DEF KeepsTo, Request
<1>3. CASE Number(r) \/ Create(r) \/ Split(r) \/ AddComment(r)
  <2>1. \/ /\ request'[r] = [o EXCEPT !.number = nextNumber, !.pc = "commit"]
           /\ o.pc = "number"
        \/ request'[r] = [o EXCEPT !.pc = "attach"]
        \/ /\ request'[r] = [o EXCEPT !.pc = "answer", !.ticket = r]
           /\ o.kind = "split"
    BY <1>1, <1>3 DEF Number, Numbered, Create, Split, AddComment, Proceed,
                      DeskIsSound, TicketDeskTypeOK
  <2> QED
    BY <1>1, <2>1 DEF KeepsTo, Request
<1>4. CASE Tell(r)
  BY <1>4, TellIsOne DEF KeepsTo, Begin, DeskIsSound, TicketDeskTypeOK
<1>5. CASE Attach(r)
  <2> DEFINE pc == IF o.kind = "comment" /\ ~o.secret THEN "push" ELSE "answer"
  <2>1. request' = [request EXCEPT ![r].pc = pc]
    BY <1>1, <1>5 DEF Attach, Proceed
  <2>2. pc \in {"push", "answer"}
    OBVIOUS
  <2> HIDE DEF pc
  <2>3. request'[r] = [o EXCEPT !.pc = pc]
    BY <1>1, <2>1 DEF DeskIsSound, TicketDeskTypeOK
  <2> QED
    BY <1>1, <2>2, <2>3 DEF KeepsTo, Request
<1>6. CASE Push(r) \/ Answer(r) \/ Fail(r)
  <2>1. \/ request'[r] = [o EXCEPT !.pc = "tell"]
        \/ request'[r] = [o EXCEPT !.pc = "done"]
        \/ request'[r] = [o EXCEPT !.pc = "failed"]
    BY <1>1, <1>6 DEF Push, Answer, Fail, Proceed, DeskIsSound, TicketDeskTypeOK
  <2> QED
    BY <1>1, <2>1 DEF KeepsTo, Request
<1> QED
  BY <1>2, <1>3, <1>4, <1>5, <1>6 DEF Handles, Begins, Rewrites

\* The tickets there are remain, with their numbers and requesters.
RowsStay ==
  \A t \in TicketIds :
    /\ ticket'[t] = NULL <=> ticket[t] = NULL
    /\ ticket[t] # NULL => /\ ticket'[t].number = ticket[t].number
                           /\ ticket'[t].requester = ticket[t].requester

LEMMA RowStays ==
  ASSUME DeskIsSound, NEW t \in Existing, NEW new \in Ticket,
         ticket' = [ticket EXCEPT ![t] = new], new.number = ticket[t].number,
         new.requester = ticket[t].requester
  PROVE  RowsStay
<1>1. t \in TicketIds /\ ticket[t] # NULL /\ new # NULL
  BY TicketDeskAssumption DEF Existing
<1> QED
  BY <1>1 DEF RowsStay, DeskIsSound, TicketDeskTypeOK

\* Watching writes the watchers of a row.
LEMMA WatchingStays ==
  ASSUME DeskIsSound, NEW r \in Requests, StartWatch(r)
  PROVE  \E t \in Existing, new \in Ticket :
           /\ ticket' = [ticket EXCEPT ![t] = new]
           /\ new.number = ticket[t].number
           /\ new.requester = ticket[t].requester
           /\ new.assignee = ticket[t].assignee
           /\ new.tagged = ticket[t].tagged
           /\ new.splitOff = ticket[t].splitOff
<1>1. PICK u \in Users, t \in Existing, k \in {"watch", "unwatch", "view"} :
        ticket' = [ticket EXCEPT ![t].watchers =
                     CASE k = "watch" -> @ \cup {u}
                       [] k = "unwatch" -> @ \ {u}
                       [] OTHER -> @]
  BY DEF StartWatch
<1> DEFINE watchers == CASE k = "watch" -> ticket[t].watchers \cup {u}
                         [] k = "unwatch" -> ticket[t].watchers \ {u}
                         [] OTHER -> ticket[t].watchers
<1>2. ticket[t] \in Ticket
  BY DEF Existing, DeskIsSound, TicketDeskTypeOK
<1>3. watchers \subseteq Users
  BY <1>2 DEF Ticket
<1>4. ticket' = [ticket EXCEPT ![t] = [ticket[t] EXCEPT !.watchers = watchers]]
  BY <1>1
<1> HIDE DEF watchers
<1>5. PICK new \in Ticket : new = [ticket[t] EXCEPT !.watchers = watchers]
  BY <1>2, <1>3 DEF Ticket
<1> QED
  BY <1>2, <1>4, <1>5 DEF Ticket

\* The holder of the lock commits a ticket with the number it took.
LEMMA TicketComes ==
  ASSUME DeskIsSound, NEW r \in Requests, Create(r) \/ Split(r)
  PROVE  /\ r \in TicketIds /\ ticket[r] = NULL /\ rowLock = r /\ rowLock' = NULL
         /\ nextNumber' = request[r].number + 1
         /\ \E new \in Ticket :
              /\ ticket' = [ticket EXCEPT ![r] = new]
              /\ new.number = request[r].number
              /\ new.assignee = NULL \/ new.splitOff
              /\ ~new.tagged
         /\ log' = log /\ room' = room /\ notices' = notices /\ shown' = shown
<1>1. PICK o \in Request : o = request[r]
  BY DEF DeskIsSound, TicketDeskTypeOK
<1>2. /\ RequestIsSound(r, o) /\ o.pc = "commit" /\ o.kind \in Opening
      /\ r \in TicketIds /\ ticket[r] = NULL /\ rowLock = r
  BY <1>1 DEF Create, Split, Opening, DeskIsSound, TicketDeskTypeOK, TicketIds
<1>3. /\ nextNumber' = request[r].number + 1 /\ rowLock' = NULL
      /\ UNCHANGED <<log, room, notices, shown>>
  BY DEF Create, Split
<1>4. o.number \in Nat \ {0}
  BY <1>2 DEF RequestIsSound, Request
<1>5. PICK u \in Users, holder \in Users \cup {NULL}, split \in BOOLEAN :
        /\ ticket' = [ticket EXCEPT ![r] = NewTicket(o.number, u, holder, split)]
        /\ holder = NULL \/ split
  <2>1. CASE Create(r)
    <3>1. o.to \in Users
      BY <1>1, <1>2, <2>1 DEF Create, RequestIsSound, Unborn
    <3> QED
      BY <1>1, <2>1, <3>1 DEF Create
  <2>2. CASE Split(r)
    <3>1. o.ticket \in Existing
      BY <1>1, <1>2, <2>2 DEF Split, RequestIsSound, Unborn
    <3>2. ticket[o.ticket].requester \in Users /\ o.held \in Users \cup {NULL}
      BY <3>1 DEF Existing, DeskIsSound, TicketDeskTypeOK, Ticket, Request
    <3> QED
      BY <1>1, <2>2, <3>2 DEF Split
  <2> QED
    BY <2>1, <2>2
<1>6. PICK new \in Ticket : new = NewTicket(o.number, u, holder, split)
  BY <1>4 DEF NewTicket, Ticket
<1> QED
  BY <1>1, <1>2, <1>3, <1>5, <1>6 DEF NewTicket

LEMMA NoTicketComes ==
  ASSUME DeskIsSound, [TicketDeskNext]_ticketDeskVars,
         \A r \in Requests : ~Create(r) /\ ~Split(r)
  PROVE  RowsStay /\ nextNumber' = nextNumber
<1>1. CASE UNCHANGED <<ticket, nextNumber>>
  BY <1>1 DEF RowsStay
<1>2. ASSUME NEW r \in Requests, StartWatch(r)
      PROVE  RowsStay /\ nextNumber' = nextNumber
  <2>1. nextNumber' = nextNumber
    BY <1>2 DEF StartWatch
  <2> QED
    BY <1>2, <2>1, WatchingStays, RowStays
<1>3. ASSUME NEW r \in Requests, Rewrites(r)
      PROVE  RowsStay /\ nextNumber' = nextNumber
  <2>1. PICK new \in Ticket, entry \in LogEntry :
          /\ OneColumn(Current(r), new, entry) /\ Rewrite(r, new, entry)
          /\ request[r].ticket \in Existing
    BY <1>3, RewriteSetsOneColumn DEF Rewrites
  <2> QED
    BY <2>1, RowStays DEF Rewrite, OneColumn, Current
<1>4. CASE UNCHANGED ticketDeskVars \/ Join \/ Leave
  BY <1>1, <1>4 DEF ticketDeskVars, Join, Leave
<1>5. ASSUME NEW r \in Requests,
             \/ StartCreate(r) \/ StartComment(r) \/ StartStaffed(r)
             \/ StartSplit(r) \/ Number(r) \/ AddComment(r)
             \/ Attach(r) \/ Push(r) \/ Tell(r) \/ Answer(r) \/ Fail(r)
      PROVE  UNCHANGED <<ticket, nextNumber>>
  BY <1>5 DEF StartCreate, StartComment, StartStaffed, StartSplit, Number,
              Numbered, AddComment, Attach, Push, Tell, Answer, Fail
<1> QED
  BY <1>1, <1>2, <1>3, <1>4, <1>5, StepIsAHandlers DEF Handles, Rewrites

LEMMA TicketsStay ==
  ASSUME DeskIsSound, [TicketDeskNext]_ticketDeskVars
  PROVE  Grows
<1>1. CASE \A r \in Requests : ~Create(r) /\ ~Split(r)
  BY <1>1, NoTicketComes DEF Grows, RowsStay, Existing
<1>2. ASSUME NEW r \in Requests, Create(r) \/ Split(r)
      PROVE  Grows
  BY <1>2, TicketComes DEF Grows, Existing, DeskIsSound, TicketDeskTypeOK
<1> QED
  BY <1>1, <1>2

-----------------------------------------------------------------------------
(* Numbers *)

\* Only the steps below know of the lock.
LEMMA LockStays ==
  ASSUME DeskIsSound, NEW r \in Requests, Handles(r),
         ~Number(r), ~Create(r), ~Split(r)
  PROVE  \/ rowLock' = NULL
         \/ rowLock' = rowLock /\ rowLock # r
<1>1. rowLock = r => request[r].pc = "commit" /\ request[r].kind \in Opening
  BY DEF DeskIsSound, TicketDeskTypeOK, Opening
<1>2. CASE Begins(r)
  BY <1>1, <1>2 DEF Begins, StartCreate, StartComment, StartStaffed, StartSplit,
                    StartWatch, MayBegin
<1>3. CASE Rewrites(r)
  BY <1>1, <1>3 DEF Rewrites, Assign, Unassign, Escalate, AddTag, RemoveTag,
                    Rewrite, Opening
<1>4. CASE AddComment(r) \/ Attach(r) \/ Push(r) \/ Tell(r) \/ Answer(r)
  BY <1>1, <1>4 DEF AddComment, Attach, Push, Tell, Answer, Opening
<1>5. CASE Fail(r)
  BY <1>5 DEF Fail
<1> QED
  BY <1>2, <1>3, <1>4, <1>5 DEF Handles, Begins, Rewrites

LEMMA NumbersStart == TicketDeskInit => NumbersAreSound
<1> SUFFICES ASSUME TicketDeskInit PROVE NumbersAreSound
  OBVIOUS
<1>1. DeskIsSound /\ rowLock = NULL /\ nextNumber = 2
  BY DeskStarts DEF TicketDeskInit
<1>2. PICK old \in Ticket :
        /\ ticket = [t \in TicketIds |-> IF t = Old THEN old ELSE NULL]
        /\ old.number = 1
  BY FirstTicket
<1>3. Old \in TicketIds /\ ticket[Old].number = 1
  BY <1>2 DEF TicketIds
<1>4. Existing = {Old}
  BY <1>2, <1>3, TicketDeskAssumption DEF Existing
<1>5. Cardinality(Existing) = 1
  BY <1>4, FS_Singleton
<1>6. {ticket[t].number : t \in Existing} = 1..1
  BY <1>3, <1>4
<1> QED
  BY <1>1, <1>5, <1>6, TicketDeskAssumption DEF NumbersAreSound, NumbersAreGapless

LEMMA NumbersGoOn ==
  ASSUME DeskIsSound, NumbersAreSound, [TicketDeskNext]_ticketDeskVars
  PROVE  NumbersAreSound'
<1>1. ASSUME NEW r \in Requests, Create(r) \/ Split(r)
      PROVE  NumbersAreSound'
  <2>1. PICK new \in Ticket : /\ ticket' = [ticket EXCEPT ![r] = new]
                              /\ new.number = request[r].number
    BY <1>1, TicketComes
  <2>2. /\ r \in TicketIds /\ ticket[r] = NULL /\ rowLock = r
        /\ rowLock' = NULL /\ nextNumber' = request[r].number + 1
    BY <1>1, TicketComes
  <2>3. request[r].number = nextNumber
    BY <2>2 DEF NumbersAreSound
  <2>4. /\ \A t \in TicketIds \ {r} : ticket'[t] = ticket[t]
        /\ ticket'[r] = new /\ new # NULL
    BY <2>1, <2>2, TicketDeskAssumption DEF DeskIsSound, TicketDeskTypeOK
  <2>5. Existing' = Existing \cup {r} /\ r \notin Existing
    BY <2>2, <2>4 DEF Existing
  <2>6. IsFiniteSet(Existing)
    <3>1. IsFiniteSet(TicketIds)
      BY FS_AddElement, TicketDeskAssumption DEF TicketIds
    <3> QED
      BY <3>1, FS_Subset DEF Existing
  <2>7. PICK n \in Nat : n = Cardinality(Existing)
    BY <2>6, FS_CardinalityType
  <2>8. Cardinality(Existing') = n + 1
    BY <2>5, <2>6, <2>7, FS_AddElement
  <2>9. nextNumber = n + 1 /\ {ticket[t].number : t \in Existing} = 1..n
    BY <2>7 DEF NumbersAreSound, NumbersAreGapless
  <2>10. {ticket'[t].number : t \in Existing'} = (1..n) \cup {n + 1}
    <3>1. {ticket'[t].number : t \in Existing'} =
            {ticket'[t].number : t \in Existing} \cup {ticket'[r].number}
      BY <2>5
    <3>2. {ticket'[t].number : t \in Existing} = {ticket[t].number : t \in Existing}
      BY <2>4, <2>5 DEF Existing
    <3> QED
      BY <2>1, <2>3, <2>4, <2>9, <3>1, <3>2
  <2>11. NumbersAreGapless'
    BY <2>2, <2>3, <2>8, <2>9, <2>10 DEF NumbersAreGapless
  <2> QED
    BY <2>2, <2>11, TicketDeskAssumption DEF NumbersAreSound
<1>2. ASSUME \A r \in Requests : ~Create(r) /\ ~Split(r)
      PROVE  NumbersAreGapless'
  <2>1. RowsStay /\ nextNumber' = nextNumber
    BY <1>2, NoTicketComes
  <2>2. Existing' = Existing
    BY <2>1 DEF RowsStay, Existing
  <2>3. {ticket'[t].number : t \in Existing'} = {ticket[t].number : t \in Existing}
    BY <2>1, <2>2 DEF RowsStay, Existing
  <2> QED
    BY <2>1, <2>2, <2>3 DEF NumbersAreSound, NumbersAreGapless
<1>3. ASSUME \A r \in Requests : ~Create(r) /\ ~Split(r),
             NEW t \in Requests, rowLock' = t
      PROVE  request'[t].number = nextNumber'
  <2>1. nextNumber' = nextNumber
    BY <1>3, NoTicketComes
  <2>2. CASE UNCHANGED ticketDeskVars \/ Join \/ Leave
    BY <1>3, <2>2 DEF ticketDeskVars, Join, Leave, NumbersAreSound
  <2>3. ASSUME NEW r \in Requests, Number(r)
        PROVE  request'[t].number = nextNumber'
    BY <1>3, <2>1, <2>3
       DEF Number, Numbered, DeskIsSound, TicketDeskTypeOK, Request
  <2>4. ASSUME NEW r \in Requests, Handles(r), ~Number(r)
        PROVE  request'[t].number = nextNumber'
    <3>1. rowLock = t /\ t # r
      BY <1>3, <2>4, LockStays, TicketDeskAssumption
    <3> QED
      BY <2>1, <2>4, <3>1, OthersWait DEF NumbersAreSound
  <2> QED
    BY <2>2, <2>3, <2>4, StepIsAHandlers
<1> QED
  BY <1>1, <1>2, <1>3 DEF NumbersAreSound

\* However creations and splits overlap, fail and roll back, the tickets bear
\* the numbers from 1 up, each once: the row of the organization is locked from
\* the number taken to the ticket committed.
THEOREM NumbersWithoutGaps == TicketDeskSpec => []NumbersAreGapless
<1>1. NumbersAreSound => NumbersAreGapless
  BY DEF NumbersAreSound
<1> QED
  BY <1>1, NumbersStart, NumbersGoOn, Invariance, PTL DEF TicketDeskSpec

-----------------------------------------------------------------------------
(* The row and its history *)

\* What the history has to say of one row.
Explains(row, entries) ==
  /\ row.assignee # NULL /\ ~row.splitOff => \E e \in entries : e.to = row.assignee
  /\ row.assignee = NULL /\ (\E e \in entries : e.to # NULL) =>
       \E e \in entries : e.action = "UNASSIGNED"
  /\ row.tagged => \E e \in entries : e.action = "TAG_ADDED"

LEMMA RowsAreExplained ==
  HistoryExplainsTheRow <=> \A t \in Existing : Explains(ticket[t], log[t])
  BY DEF HistoryExplainsTheRow, Explains

\* The entry written with a column explains the column; the others are
\* explained as before.
LEMMA ColumnExplained ==
  ASSUME NEW row \in Ticket, NEW new \in Ticket, NEW entry, NEW entries,
         OneColumn(row, new, entry), Explains(row, entries)
  PROVE  Explains(new, entries \cup {entry})
  BY DEF OneColumn, Explains

LEMMA HistoryStarts == TicketDeskInit => HistoryExplainsTheRow
<1> SUFFICES ASSUME TicketDeskInit PROVE HistoryExplainsTheRow
  OBVIOUS
<1>1. PICK old \in Ticket, entry \in LogEntry :
        /\ ticket = [t \in TicketIds |-> IF t = Old THEN old ELSE NULL]
        /\ log = [t \in TicketIds |->
                    IF t = Old /\ old.assignee # NULL THEN {entry} ELSE {}]
        /\ ~old.tagged /\ entry.to = old.assignee
  BY FirstTicket
<1>2. \A t \in Existing : t = Old /\ t \in TicketIds
  BY <1>1 DEF Existing
<1>3. CASE old.assignee = NULL
  BY <1>1, <1>2, <1>3, RowsAreExplained DEF Explains
<1>4. CASE old.assignee # NULL
  BY <1>1, <1>2, <1>4, RowsAreExplained DEF Explains
<1> QED
  BY <1>3, <1>4

LEMMA HistoryGoesOn ==
  ASSUME DeskIsSound, HistoryExplainsTheRow, [TicketDeskNext]_ticketDeskVars
  PROVE  HistoryExplainsTheRow'
<1> USE DEF DeskIsSound, TicketDeskTypeOK
<1>1. \A t \in Existing : Explains(ticket[t], log[t])
  BY RowsAreExplained
<1>2. CASE UNCHANGED <<ticket, log>>
  BY <1>2 DEF HistoryExplainsTheRow, Existing
<1>3. CASE UNCHANGED ticketDeskVars \/ Join \/ Leave
  BY <1>2, <1>3 DEF ticketDeskVars, Join, Leave
<1>4. ASSUME NEW r \in Requests,
             \/ StartCreate(r) \/ StartComment(r) \/ StartStaffed(r)
             \/ StartSplit(r) \/ Number(r) \/ AddComment(r)
             \/ Attach(r) \/ Push(r) \/ Tell(r) \/ Answer(r) \/ Fail(r)
      PROVE  UNCHANGED <<ticket, log>>
  BY <1>4 DEF StartCreate, StartComment, StartStaffed, StartSplit, Number,
              Numbered, AddComment, Attach, Push, Tell, Answer, Fail
<1>5. ASSUME NEW r \in Requests, StartWatch(r)
      PROVE  HistoryExplainsTheRow'
  <2>1. PICK t \in Existing, new \in Ticket :
          /\ ticket' = [ticket EXCEPT ![t] = new]
          /\ new.assignee = ticket[t].assignee
          /\ new.tagged = ticket[t].tagged
          /\ new.splitOff = ticket[t].splitOff
    BY <1>5, WatchingStays
  <2>2. log' = log /\ t \in TicketIds
    BY <1>5 DEF StartWatch, Existing
  <2>3. ASSUME NEW x \in Existing'
        PROVE  Explains(ticket'[x], log'[x])
    <3>1. CASE x = t
      BY <1>1, <2>1, <2>2, <3>1 DEF Explains
    <3>2. CASE x # t
      BY <1>1, <2>1, <2>2, <3>2 DEF Existing
    <3> QED
      BY <3>1, <3>2
  <2> QED
    BY <2>3 DEF HistoryExplainsTheRow, Explains
<1>6. ASSUME NEW r \in Requests, Create(r) \/ Split(r)
      PROVE  HistoryExplainsTheRow'
  <2>1. PICK new \in Ticket :
          /\ ticket' = [ticket EXCEPT ![r] = new]
          /\ new.assignee = NULL \/ new.splitOff
          /\ ~new.tagged
    BY <1>6, TicketComes
  <2>2. log' = log /\ r \in TicketIds /\ ticket[r] = NULL
    BY <1>6, TicketComes
  <2>3. log[r] = {}
    BY <2>2 DEF RowIsSound
  <2>4. ASSUME NEW x \in Existing'
        PROVE  Explains(ticket'[x], log'[x])
    <3>1. CASE x = r
      BY <2>1, <2>2, <2>3, <3>1 DEF Explains
    <3>2. CASE x # r
      BY <1>1, <2>1, <2>2, <3>2 DEF Existing
    <3> QED
      BY <3>1, <3>2
  <2> QED
    BY <2>4 DEF HistoryExplainsTheRow, Explains
<1>7. ASSUME NEW r \in Requests, Rewrites(r)
      PROVE  HistoryExplainsTheRow'
  <2>1. PICK new \in Ticket, entry \in LogEntry :
          /\ OneColumn(Current(r), new, entry) /\ Rewrite(r, new, entry)
          /\ request[r].ticket \in Existing
    BY <1>7, RewriteSetsOneColumn DEF Rewrites
  <2>2. PICK t \in Existing : t = request[r].ticket
    BY <2>1
  <2>3. /\ ticket' = [ticket EXCEPT ![t] = new] /\ t \in TicketIds
        /\ log' = [log EXCEPT ![t] = @ \cup {entry}]
        /\ ticket[t] \in Ticket /\ OneColumn(ticket[t], new, entry)
    BY <2>1, <2>2 DEF Rewrite, Current, Existing
  <2>4. Explains(new, log[t] \cup {entry})
    BY <1>1, <2>3, ColumnExplained
  <2>5. ASSUME NEW x \in Existing'
        PROVE  Explains(ticket'[x], log'[x])
    <3>1. CASE x = t
      BY <2>3, <2>4, <3>1
    <3>2. CASE x # t
      BY <1>1, <2>3, <3>2 DEF Existing
    <3> QED
      BY <3>1, <3>2
  <2> QED
    BY <2>5 DEF HistoryExplainsTheRow, Explains
<1> QED
  BY <1>2, <1>3, <1>4, <1>5, <1>6, <1>7, StepIsAHandlers DEF Handles, Rewrites

\* The history explains the row, although a handler decides what to write there
\* from a row that another may have rewritten since.
THEOREM HistoryExplains == TicketDeskSpec => []HistoryExplainsTheRow
  BY HistoryStarts, HistoryGoesOn, Invariance, PTL DEF TicketDeskSpec

-----------------------------------------------------------------------------
(* Who sees what *)

\* What a handler was told of its comment it is told for good.
LEMMA CommentStaysSound ==
  ASSUME DeskIsSound, [TicketDeskNext]_ticketDeskVars,
         NEW c, NEW owner, CommentIsSound(c, owner)
  PROVE  CommentIsSound(c, owner)'
<1>1. CASE UNCHANGED ticketDeskVars \/ Join \/ Leave
  BY <1>1 DEF ticketDeskVars, Join, Leave, CommentIsSound
<1>2. ASSUME NEW r \in Requests, Handles(r)
      PROVE  CommentIsSound(c, owner)'
  <2>1. CASE c.id = r
    <3>1. ~Begins(r)
      BY <2>1 DEF CommentIsSound, Begins, StartCreate, StartComment,
                  StartStaffed, StartSplit, StartWatch, MayBegin
    <3> QED
      BY <1>2, <2>1, <3>1, HandlersKeepTo DEF CommentIsSound, KeepsTo
  <2>2. CASE c.id # r
    BY <1>2, <2>2, OthersWait DEF CommentIsSound
  <2> QED
    BY <2>1, <2>2
<1> QED
  BY <1>1, <1>2, StepIsAHandlers

LEMMA ThreadsGoOn ==
  ASSUME DeskIsSound, CommentsAreSound, [TicketDeskNext]_ticketDeskVars,
         NEW t \in Existing', NEW c \in thread'[t]
  PROVE  CommentIsSound(c, ticket[t].requester)'
<1> USE DEF DeskIsSound, TicketDeskTypeOK
<1>1. ASSUME t \in Existing, c \in thread[t]
      PROVE  CommentIsSound(c, ticket[t].requester)'
  <2>1. PICK owner : owner = ticket[t].requester
    OBVIOUS
  <2>2. ticket'[t].requester = owner
    BY <1>1, <2>1, TicketsStay DEF Grows
  <2>3. CommentIsSound(c, owner)
    BY <1>1, <2>1 DEF CommentsAreSound
  <2>4. CommentIsSound(c, owner)'
    BY <2>3, CommentStaysSound
  <2> QED
    BY <2>2, <2>4 DEF CommentIsSound
<1>2. ASSUME \A r \in Requests : ~Create(r) /\ ~Split(r)
      PROVE  t \in Existing
  BY <1>2, NoTicketComes DEF RowsStay, Existing
<1>3. ASSUME NEW r \in Requests, Create(r)
      PROVE  CommentIsSound(c, ticket[t].requester)'
  <2>1. PICK o \in Request : o = request[r]
    OBVIOUS
  <2>2. /\ ticket' = [ticket EXCEPT ![r] = NewTicket(o.number, o.to, NULL, FALSE)]
        /\ thread' = [thread EXCEPT ![r] = {[id |-> r, about |-> o.to,
                                             secret |-> FALSE,
                                             visibility |-> "PUBLIC"]}]
        /\ r \in TicketIds
    BY <1>3, <2>1 DEF Create, TicketIds
  <2>3. request'[r].pc = "attach"
    BY <1>3 DEF Create, Proceed
  <2>4. CASE t = r
    <3>1. ticket'[t].requester = o.to
      BY <2>2, <2>4 DEF NewTicket
    <3>2. c = [id |-> r, about |-> o.to, secret |-> FALSE, visibility |-> "PUBLIC"]
      BY <2>2, <2>4
    <3> QED
      BY <2>3, <3>1, <3>2 DEF CommentIsSound
  <2>5. CASE t # r
    BY <1>1, <2>2, <2>5 DEF Existing
  <2> QED
    BY <2>4, <2>5
<1>4. ASSUME NEW r \in Requests, Split(r)
      PROVE  CommentIsSound(c, ticket[t].requester)'
  <2>1. PICK o \in Request : o = request[r]
    OBVIOUS
  <2>2. PICK owner : owner = ticket[o.ticket].requester
    OBVIOUS
  <2>3. /\ ticket' = [ticket EXCEPT ![r] = NewTicket(o.number, owner, o.held, TRUE)]
        /\ thread' = [thread EXCEPT ![r] = o.copies]
        /\ o.pc = "commit" /\ o.kind = "split" /\ r \in TicketIds
    BY <1>4, <2>1, <2>2 DEF Split, TicketIds
  <2>4. CASE t = r
    <3>1. ticket'[t].requester = owner
      BY <2>3, <2>4 DEF NewTicket
    <3>2. CommentIsSound(c, owner)
      BY <2>1, <2>2, <2>3, <2>4 DEF CommentsAreSound
    <3>3. CommentIsSound(c, owner)'
      BY <3>2, CommentStaysSound
    <3> QED
      BY <3>1, <3>3 DEF CommentIsSound
  <2>5. CASE t # r
    BY <1>1, <2>3, <2>5 DEF Existing
  <2> QED
    BY <2>4, <2>5
<1>5. ASSUME NEW r \in Requests, AddComment(r)
      PROVE  CommentIsSound(c, ticket[t].requester)'
  <2>1. PICK o \in Request : o = request[r]
    OBVIOUS
  <2> DEFINE visibility == IF o.secret THEN "INTERNAL" ELSE "PUBLIC"
             new == [id |-> r, about |-> ticket[o.ticket].requester,
                     secret |-> o.secret, visibility |-> visibility]
  <2>2. /\ thread' = [thread EXCEPT ![o.ticket] = @ \cup {new}]
        /\ request' = [request EXCEPT ![r].pc = "attach"] /\ ticket' = ticket
    BY <1>5, <2>1 DEF AddComment, Proceed
  <2>3. t \in Existing /\ t \in TicketIds
    BY <2>2 DEF Existing
  <2>4. o.secret => visibility = "INTERNAL"
    OBVIOUS
  <2> HIDE DEF visibility
  <2>5. CASE t = o.ticket /\ c = new
    <3>1. /\ c.id = r /\ c.about = ticket[t].requester /\ c.secret = o.secret
          /\ c.visibility = visibility
      BY <2>5
    <3>2. request'[r].pc = "attach" /\ request'[r].secret = o.secret
      BY <2>1, <2>2 DEF Request
    <3> QED
      BY <2>2, <2>4, <3>1, <3>2 DEF CommentIsSound
  <2>6. CASE ~(t = o.ticket /\ c = new)
    <3> HIDE DEF new
    <3>1. c \in thread[t]
      BY <2>2, <2>3, <2>6
    <3> QED
      BY <1>1, <2>3, <3>1
  <2> QED
    BY <2>5, <2>6
<1>6. ASSUME NEW r \in Requests,
             \/ Begins(r) \/ Rewrites(r) \/ Number(r)
             \/ Attach(r) \/ Push(r) \/ Tell(r) \/ Answer(r) \/ Fail(r)
      PROVE  thread' = thread
  <2>1. CASE Rewrites(r)
    BY <2>1 DEF Rewrites, Assign, Unassign, Escalate, AddTag, RemoveTag, Rewrite
  <2>2. CASE Begins(r)
    BY <2>2 DEF Begins, StartCreate, StartComment, StartStaffed, StartSplit,
                StartWatch
  <2> QED
    BY <1>6, <2>1, <2>2 DEF Number, Numbered, Attach, Push, Tell, Answer, Fail
<1>7. CASE UNCHANGED ticketDeskVars \/ Join \/ Leave
  BY <1>1, <1>7 DEF ticketDeskVars, Join, Leave, Existing
<1> QED
  BY <1>1, <1>2, <1>3, <1>4, <1>5, <1>6, <1>7, StepIsAHandlers
     DEF Handles, Begins, Rewrites

LEMMA RoomsGoOn ==
  ASSUME DeskIsSound, CommentsAreSound, [TicketDeskNext]_ticketDeskVars,
         NEW t \in Existing', NEW u \in room'[t]
  PROVE  MayEnter(u, t)'
<1> USE DEF DeskIsSound, TicketDeskTypeOK
<1>1. ASSUME u \in room[t]
      PROVE  MayEnter(u, t)'
  <2>1. t \in Existing
    BY <1>1 DEF RowIsSound, Existing
  <2>2. MayEnter(u, t)
    BY <1>1, <2>1 DEF CommentsAreSound
  <2> QED
    BY <2>1, <2>2, TicketsStay DEF Grows, MayEnter
<1>2. CASE Join
  <2>1. PICK v \in Users, x \in Existing :
          MayEnter(v, x) /\ room' = [room EXCEPT ![x] = @ \cup {v}]
    BY <1>2 DEF Join
  <2>2. CASE t = x /\ u = v
    BY <1>2, <2>1, <2>2 DEF Join, MayEnter
  <2>3. CASE ~(t = x /\ u = v)
    BY <1>1, <2>1, <2>3 DEF Existing
  <2> QED
    BY <2>2, <2>3
<1>3. CASE Leave
  BY <1>1, <1>3 DEF Leave, Existing
<1>4. ASSUME NEW r \in Requests, Handles(r)
      PROVE  room' = room
  <2>1. CASE Begins(r)
    BY <2>1 DEF Begins, StartCreate, StartComment, StartStaffed, StartSplit,
                StartWatch
  <2>2. CASE Rewrites(r)
    BY <2>2 DEF Rewrites, Assign, Unassign, Escalate, AddTag, RemoveTag, Rewrite
  <2>3. CASE Number(r) \/ Create(r) \/ Split(r) \/ AddComment(r)
    BY <2>3 DEF Number, Numbered, Create, Split, AddComment
  <2>4. CASE Attach(r) \/ Push(r) \/ Tell(r) \/ Answer(r) \/ Fail(r)
    BY <2>4 DEF Attach, Push, Tell, Answer, Fail
  <2> QED
    BY <1>4, <2>1, <2>2, <2>3, <2>4 DEF Handles, Begins, Rewrites
<1> QED
  BY <1>1, <1>2, <1>3, <1>4, StepIsAHandlers DEF ticketDeskVars

\* What a split has taken to copy is still sound of the ticket it took it from.
LEMMA CopiesGoOn ==
  ASSUME DeskIsSound, CommentsAreSound, [TicketDeskNext]_ticketDeskVars,
         NEW t \in Requests, request'[t].kind = "split",
         request'[t].pc \in {"number", "commit"}, NEW c \in request'[t].copies
  PROVE  CommentIsSound(c, ticket[request[t].ticket].requester)'
<1> USE DEF DeskIsSound, TicketDeskTypeOK
<1>1. ASSUME /\ request'[t].ticket = request[t].ticket
             /\ request'[t].copies = request[t].copies
             /\ request[t].kind = "split"
             /\ request[t].pc \in {"number", "commit"}
      PROVE  CommentIsSound(c, ticket[request[t].ticket].requester)'
  <2>1. PICK owner : owner = ticket[request[t].ticket].requester
    OBVIOUS
  <2>2. CommentIsSound(c, owner)
    BY <1>1, <2>1 DEF CommentsAreSound
  <2>3. CommentIsSound(c, owner)'
    BY <2>2, CommentStaysSound
  <2>4. request[t].ticket \in Existing
    BY <1>1 DEF RequestIsSound, Unborn
  <2>5. ticket'[request'[t].ticket].requester = owner
    BY <1>1, <2>1, <2>4, TicketsStay DEF Grows
  <2> QED
    BY <2>3, <2>5 DEF CommentIsSound
<1>2. CASE request'[t] = request[t]
  BY <1>1, <1>2
<1>3. ASSUME Handles(t), ~Begins(t)
      PROVE  CommentIsSound(c, ticket[request[t].ticket].requester)'
  BY <1>1, <1>3, HandlersKeepTo DEF KeepsTo
<1>4. ASSUME StartSplit(t)
      PROVE  CommentIsSound(c, ticket[request[t].ticket].requester)'
  <2>1. PICK x \in Existing : \E v \in Staff, cs \in SUBSET thread[x] :
          Begin(t, [Idle EXCEPT !.pc = "number", !.kind = "split", !.by = v,
                                !.ticket = x, !.held = ticket[x].assignee,
                                !.copies = {Copied(d) : d \in cs}])
    BY <1>4 DEF StartSplit
  <2>2. request'[t].ticket = x /\ request'[t].copies \subseteq thread[x]
    BY <2>1 DEF Begin, Idle, Copied
  <2>3. PICK owner : owner = ticket[x].requester
    OBVIOUS
  <2>4. CommentIsSound(c, owner)
    BY <2>2, <2>3 DEF CommentsAreSound
  <2>5. CommentIsSound(c, owner)' /\ ticket'[x].requester = owner
    BY <2>3, <2>4, CommentStaysSound, TicketsStay DEF Grows
  <2> QED
    BY <2>2, <2>5 DEF CommentIsSound
<1>5. ASSUME StartCreate(t) \/ StartComment(t) \/ StartStaffed(t) \/ StartWatch(t)
      PROVE  request'[t].kind # "split"
  <2>1. CASE StartCreate(t)
    BY <2>1 DEF StartCreate, Begin, Idle
  <2>2. CASE StartComment(t)
    BY <2>2 DEF StartComment, Begin, Idle
  <2>3. CASE StartStaffed(t)
    BY <2>3 DEF StartStaffed, Begin, Idle, Staffed
  <2>4. CASE StartWatch(t)
    BY <2>4 DEF StartWatch, Begin, Idle
  <2> QED
    BY <1>5, <2>1, <2>2, <2>3, <2>4
<1> QED
  BY <1>2, <1>3, <1>4, <1>5, StepIsAHandlers, OthersWait
     DEF Begins, ticketDeskVars, Join, Leave

LEMMA ShownGoesOn ==
  ASSUME DeskIsSound, CommentsAreSound, [TicketDeskNext]_ticketDeskVars
  PROVE  CustomersSeeTheirs'
<1> USE DEF DeskIsSound, TicketDeskTypeOK
<1>1. CASE shown' = shown
  BY <1>1 DEF CommentsAreSound, CustomersSeeTheirs
<1>2. ASSUME NEW r \in Requests, Push(r)
      PROVE  CustomersSeeTheirs'
  <2>1. PICK o \in Request : o = request[r]
    OBVIOUS
  <2>2. RequestIsSound(r, o) /\ o.pc = "push"
    BY <1>2, <2>1 DEF Push
  <2>3. PICK t \in Existing : t = o.ticket
    BY <2>2 DEF RequestIsSound, Unborn
  <2>4. ShowTo(room[t], {c \in thread[t] : c.id = r})
    BY <1>2, <2>1, <2>3 DEF Push
  <2>5. ASSUME NEW u \in Customers, u \in room[t],
               NEW c \in thread[t], c.id = r
        PROVE  ~c.secret /\ c.about = u
    <3>1. CommentIsSound(c, ticket[t].requester) /\ MayEnter(u, t)
      BY <2>5 DEF CommentsAreSound
    <3>2. ~o.secret
      BY <2>2 DEF RequestIsSound
    <3> QED
      BY <2>1, <2>5, <3>1, <3>2, TicketDeskAssumption DEF CommentIsSound, MayEnter
  <2> QED
    BY <2>4, <2>5 DEF ShowTo, CommentsAreSound, CustomersSeeTheirs
<1>3. ASSUME NEW r \in Requests, Answer(r)
      PROVE  CustomersSeeTheirs'
  <2>1. PICK o \in Request : o = request[r]
    OBVIOUS
  <2>2. RequestIsSound(r, o) /\ o.pc = "answer"
    BY <1>3, <2>1 DEF Answer
  <2>3. PICK t \in Existing : t = o.ticket /\ MayOpen(o.by, t)
    BY <2>2 DEF RequestIsSound, Unborn
  <2>4. ShowTo({o.by}, VisibleTo(o.by, t))
    BY <1>3, <2>1, <2>3 DEF Answer
  <2>5. ASSUME NEW u \in Customers, u = o.by, NEW c \in VisibleTo(o.by, t)
        PROVE  ~c.secret /\ c.about = u
    <3>1. u \notin Staff
      BY TicketDeskAssumption
    <3>2. c \in thread[t] /\ c.visibility = "PUBLIC" /\ ticket[t].requester = u
      BY <2>3, <2>5, <3>1 DEF VisibleTo, MayOpen
    <3> QED
      BY <3>2 DEF CommentsAreSound, CommentIsSound
  <2> QED
    BY <2>4, <2>5 DEF ShowTo, CommentsAreSound, CustomersSeeTheirs
<1>4. ASSUME NEW r \in Requests, Handles(r), ~Push(r), ~Answer(r)
      PROVE  shown' = shown
  <2>1. CASE Begins(r)
    BY <2>1 DEF Begins, StartCreate, StartComment, StartStaffed, StartSplit,
                StartWatch
  <2>2. CASE Rewrites(r)
    BY <2>2 DEF Rewrites, Assign, Unassign, Escalate, AddTag, RemoveTag, Rewrite
  <2>3. CASE Number(r) \/ Create(r) \/ Split(r) \/ AddComment(r)
    BY <2>3 DEF Number, Numbered, Create, Split, AddComment
  <2>4. CASE Attach(r) \/ Tell(r) \/ Fail(r)
    BY <2>4 DEF Attach, Tell, Fail
  <2> QED
    BY <1>4, <2>1, <2>2, <2>3, <2>4 DEF Handles, Begins, Rewrites
<1> QED
  BY <1>1, <1>2, <1>3, <1>4, StepIsAHandlers DEF ticketDeskVars, Join, Leave

LEMMA CommentsStart == TicketDeskInit => CommentsAreSound
<1> SUFFICES ASSUME TicketDeskInit PROVE CommentsAreSound
  OBVIOUS
<1>1. PICK old \in Ticket :
        /\ ticket = [t \in TicketIds |-> IF t = Old THEN old ELSE NULL]
        /\ old.requester = Requester
  BY FirstTicket
<1>2. \A t \in Existing : t = Old /\ t \in TicketIds /\ ticket[t] = old
  BY <1>1 DEF Existing
<1>3. ASSUME NEW c \in {First, Note}
      PROVE  CommentIsSound(c, Requester)
  <2>1. /\ First.id = Old /\ First.about = Requester /\ First.secret = FALSE
        /\ Note.id = Old /\ Note.about = Requester
        /\ Note.visibility = "INTERNAL"
    BY DEF First, Note
  <2> QED
    BY <1>3, <2>1, TicketDeskAssumption DEF CommentIsSound
<1>4. \A t \in Existing : thread[t] = {First, Note} /\ room[t] = {}
  BY <1>2 DEF TicketDeskInit
<1>5. \A r \in Requests : request[r].pc = "idle"
  BY DEF TicketDeskInit, Idle
<1>6. \A u \in Customers : shown[u] = {}
  BY DEF TicketDeskInit
<1> QED
  BY <1>1, <1>2, <1>3, <1>4, <1>5, <1>6 DEF CommentsAreSound, CustomersSeeTheirs

LEMMA CommentsGoOn ==
  ASSUME DeskIsSound, CommentsAreSound, [TicketDeskNext]_ticketDeskVars
  PROVE  CommentsAreSound'
<1>1. \A t \in Existing' : \A c \in thread'[t] :
        CommentIsSound(c, ticket[t].requester)'
  BY ThreadsGoOn
<1>2. \A t \in Existing' : \A u \in room'[t] : MayEnter(u, t)'
  BY RoomsGoOn
<1>3. \A r \in Requests :
        request'[r].kind = "split" /\ request'[r].pc \in {"number", "commit"} =>
          \A c \in request'[r].copies :
            CommentIsSound(c, ticket[request[r].ticket].requester)'
  BY CopiesGoOn
<1> QED
  BY <1>1, <1>2, <1>3, ShownGoesOn DEF CommentsAreSound

\* No customer is ever shown a comment that was written for staff, nor a comment
\* of another customer's ticket, however answers, pushes, splits and joins
\* overlap.
THEOREM CustomersSee == TicketDeskSpec => []CustomersSeeTheirs
<1>1. CommentsAreSound => CustomersSeeTheirs
  BY DEF CommentsAreSound
<1> QED
  BY <1>1, CommentsStart, CommentsGoOn, Invariance, PTL DEF TicketDeskSpec

-----------------------------------------------------------------------------
(* Who is told what *)

\* A handler past its beginning tells nobody but in Tell, and nobody else.
LEMMA AddresseesStay ==
  ASSUME DeskIsSound, NEW r \in Requests, Handles(r), ~Begins(r), ~Tell(r)
  PROVE  /\ notices' = notices
         /\ request'[r].recipient = request[r].recipient
         /\ request'[r].watchers = request[r].watchers
<1> USE DEF DeskIsSound, TicketDeskTypeOK, Request
<1>1. CASE Rewrites(r)
  <2>1. request' = [request EXCEPT ![r].pc = "tell"] /\ notices' = notices
    BY <1>1 DEF Rewrites, Assign, Unassign, Escalate, AddTag, RemoveTag,
                Rewrite, Proceed
  <2> QED
    BY <2>1
<1>2. CASE Number(r) \/ Split(r)
  <2>1. PICK o \in Request : o = request[r]
    OBVIOUS
  <2>2. \/ request'[r] = [o EXCEPT !.number = nextNumber, !.pc = "commit"]
        \/ request'[r] = [o EXCEPT !.pc = "answer", !.ticket = r]
    BY <1>2, <2>1 DEF Number, Numbered, Split
  <2>3. notices' = notices
    BY <1>2 DEF Number, Numbered, Split
  <2> QED
    BY <2>1, <2>2, <2>3
<1>3. CASE \/ Create(r) \/ AddComment(r) \/ Attach(r) \/ Push(r) \/ Answer(r)
           \/ Fail(r)
  <2>1. PICK pc : request' = [request EXCEPT ![r].pc = pc] /\ notices' = notices
    BY <1>3 DEF Create, AddComment, Attach, Push, Answer, Fail, Proceed
  <2> QED
    BY <2>1
<1> QED
  BY <1>1, <1>2, <1>3 DEF Handles, Begins, Rewrites

\* The owner of the ticket that a reply is about stays.
LEMMA OwnerStays ==
  ASSUME DeskIsSound, [TicketDeskNext]_ticketDeskVars, NEW r \in Requests,
         Replies(request[r]), NEW q, q.ticket = request[r].ticket
  PROVE  Owner(q)' = Owner(request[r])
<1>1. request[r].ticket \in Existing
  BY DEF DeskIsSound, RequestIsSound, Replies, Unborn
<1> QED
  BY <1>1, TicketsStay DEF Grows, Owner

\* The same request, having told the same.
LEMMA StillToldOnce ==
  ASSUME DeskIsSound, NoticesAreSound, [TicketDeskNext]_ticketDeskVars,
         NEW r \in Requests, NEW q \in Request, request'[r] = q,
         notices'[r] = notices[r],
         q.by = request[r].by, q.recipient = request[r].recipient,
         q.watchers = request[r].watchers,
         q.pc = "idle" => request[r].pc = "idle",
         Replies(q) => /\ Replies(request[r]) /\ q.ticket = request[r].ticket
                       /\ q.pc \in {"answer", "done"} =>
                            request[r].pc \in {"answer", "done"}
  PROVE  IsToldOnce(q, notices'[r], Owner(q)')
<1>1. IsToldOnce(request[r], notices[r], Owner(request[r]))
  BY DEF NoticesAreSound
<1>2. Replies(q) => Owner(q)' = Owner(request[r])
  BY OwnerStays
<1> QED
  BY <1>1, <1>2 DEF IsToldOnce

LEMMA BeginningTellsNobody ==
  ASSUME DeskIsSound, NoticesAreSound, NEW r \in Requests, Begins(r)
  PROVE  IsToldOnce(request[r], notices[r], Owner(request[r]))'
<1>1. request[r].pc = "idle" /\ notices' = notices
  BY DEF Begins, StartCreate, StartComment, StartStaffed, StartSplit, StartWatch,
         MayBegin
<1>2. notices'[r] = [u \in Users |-> 0]
  BY <1>1 DEF NoticesAreSound, IsToldOnce
<1>3. CASE StartCreate(r) \/ StartSplit(r) \/ StartWatch(r)
  <2>1. ASSUME NEW q, Begin(r, q), q.recipient = NULL, q.watchers = {},
               q.kind # "comment", q.pc # "idle"
        PROVE  IsToldOnce(request[r], notices[r], Owner(request[r]))'
    <3>1. request'[r] = q
      BY <2>1 DEF Begin, DeskIsSound, TicketDeskTypeOK
    <3> QED
      BY <1>2, <2>1, <3>1 DEF IsToldOnce, Replies
  <2>2. CASE StartCreate(r)
    BY <2>1, <2>2 DEF StartCreate, Idle
  <2>3. CASE StartSplit(r)
    BY <2>1, <2>3 DEF StartSplit, Idle
  <2>4. CASE StartWatch(r)
    <3>1. PICK u \in Users, t \in Existing, k \in {"watch", "unwatch", "view"} :
            Begin(r, [Idle EXCEPT !.pc = "answer", !.kind = k, !.by = u,
                                  !.ticket = t])
      BY <2>4 DEF StartWatch
    <3> QED
      BY <2>1, <3>1 DEF Idle
  <2> QED
    BY <1>3, <2>2, <2>3, <2>4
<1>4. CASE StartStaffed(r)
  <2>1. PICK q \in Request :
          /\ Begin(r, q) /\ q.pc \in {"answer", "commit"}
          /\ q.kind \in Staffed \ {"split"}
          /\ q.recipient # q.by /\ q.watchers = {}
    BY <1>4, StaffedIsOne
  <2>2. request'[r] = q
    BY <2>1 DEF Begin, DeskIsSound, TicketDeskTypeOK
  <2>3. q.recipient \in Users \cup {NULL}
    BY DEF Request
  <2> QED
    BY <1>2, <2>1, <2>2, <2>3 DEF IsToldOnce, Replies, Staffed
<1>5. CASE StartComment(r)
  <2>1. PICK q \in Request :
          /\ Begin(r, q) /\ q.pc = "commit" /\ q.ticket \in Existing
          /\ q.recipient = OtherThan(q.by, Recipient(q.by, q.ticket))
          /\ q.watchers = AllBut(ticket[q.ticket].watchers, q.by,
                                 Recipient(q.by, q.ticket))
    BY <1>5, CommentIsOne
  <2>2. request'[r] = q /\ ticket' = ticket
    BY <1>5, <2>1 DEF Begin, DeskIsSound, TicketDeskTypeOK, StartComment
  <2>3. q.by \in Users /\ ticket[q.ticket] \in Ticket
    BY <2>1 DEF Request, Existing, DeskIsSound, TicketDeskTypeOK
  <2>4. Recipient(q.by, q.ticket) \in Users \cup {NULL}
    BY <2>3 DEF Recipient, Ticket
  <2>5. /\ q.recipient \in {Recipient(q.by, q.ticket), NULL} \ {q.by}
        /\ Recipient(q.by, q.ticket) # q.by =>
             q.recipient = Recipient(q.by, q.ticket)
    BY <2>1, <2>3, <2>4, OtherThanIsOther
  <2>6. \A w \in q.watchers : w \in Users /\ w # q.by /\ w # q.recipient
    BY <2>1, <2>3, <2>5, TicketDeskAssumption DEF AllBut, Request
  <2>7. q.by \in Staff /\ ticket[q.ticket].requester # q.by =>
          q.recipient = ticket[q.ticket].requester
    BY <2>5 DEF Recipient
  <2> QED
    BY <1>2, <2>1, <2>2, <2>4, <2>5, <2>6, <2>7 DEF IsToldOnce, Replies, Owner
<1> QED
  BY <1>3, <1>4, <1>5 DEF Begins

LEMMA TellingTellsOnce ==
  ASSUME DeskIsSound, NoticesAreSound, [TicketDeskNext]_ticketDeskVars,
         NEW r \in Requests, Tell(r)
  PROVE  /\ IsToldOnce(request[r], notices[r], Owner(request[r]))'
         /\ \A t \in Requests \ {r} : notices'[t] = notices[t]
<1>1. PICK q \in Request :
        /\ Begin(r, q) /\ TellOne(r, q)
        /\ q.pc \in {"tell", "answer"} /\ q.kind = request[r].kind
        /\ q.by = request[r].by /\ q.ticket = request[r].ticket
        /\ q.secret = request[r].secret
  BY TellIsOne
<1>2. PICK o \in Request : o = request[r]
  BY DEF DeskIsSound, TicketDeskTypeOK
<1>3. o.pc = "tell" /\ request'[r] = q
  BY <1>1, <1>2 DEF Tell, Begin, DeskIsSound, TicketDeskTypeOK
<1>4. PICK n \in [Users -> Nat] : n = notices[r]
  BY DEF DeskIsSound, TicketDeskTypeOK
<1>5. PICK owner : owner = Owner(o)
  OBVIOUS
<1>6. IsToldOnce(o, n, owner)
  BY <1>2, <1>4, <1>5 DEF NoticesAreSound
<1>7. Replies(q) => Replies(o) /\ owner \in Users /\ Owner(q)' = owner
  <2>1. Replies(q) => Replies(o)
    BY <1>1, <1>2, <1>3 DEF Replies
  <2>2. Replies(o) => o.ticket \in Existing
    BY <1>2 DEF Replies, DeskIsSound, RequestIsSound, Unborn
  <2>3. Replies(o) => owner \in Users
    BY <1>5, <2>2 DEF Owner, Existing, DeskIsSound, TicketDeskTypeOK, Ticket
  <2> QED
    BY <1>1, <1>2, <1>5, <2>1, <2>3, OwnerStays
<1>8. ASSUME NEW u \in Users, u # o.by, n[u] = 0,
             notices' = [notices EXCEPT ![r][u] = @ + 1]
      PROVE  /\ \A t \in Requests \ {r} : notices'[t] = notices[t]
             /\ notices'[r] \in [Users -> Nat]
             /\ \A v \in Users : notices'[r][v] = IF v = u THEN 1 ELSE n[v]
  <2>1. notices \in [Requests -> [Users -> Nat]]
    BY DEF DeskIsSound, TicketDeskTypeOK
  <2>2. notices' \in [Requests -> [Users -> Nat]]
    BY <1>8, <2>1, OneMore
  <2>3. \A v \in Users : notices'[r][v] = IF v = u THEN 1 ELSE n[v]
    BY <1>4, <1>8, <2>1, OneMore
  <2>4. \A t \in Requests \ {r} : notices'[t] = notices[t]
    BY <1>8, <2>1
  <2> QED
    BY <2>2, <2>3, <2>4
<1>9. CASE /\ o.recipient # NULL
           /\ notices' = [notices EXCEPT ![r][o.recipient] = @ + 1]
           /\ q = [o EXCEPT !.recipient = NULL]
  <2>1. PICK p \in Users : p = o.recipient
    BY <1>9 DEF Request
  <2>2. p # o.by /\ n[p] = 0
    BY <1>6, <1>9, <2>1 DEF IsToldOnce
  <2>3. q.recipient = NULL /\ q.watchers = o.watchers /\ q.pc = "tell"
    BY <1>3, <1>9 DEF Request
  <2>4. PICK m \in [Users -> Nat] :
          m = notices'[r] /\ \A v \in Users : m[v] = IF v = p THEN 1 ELSE n[v]
    BY <1>8, <1>9, <2>1, <2>2
  <2>5. \A w \in q.watchers : w \in Users /\ w # NULL
    BY TicketDeskAssumption DEF Request
  <2>6. IsToldOnce(q, m, owner)
    BY <1>1, <1>2, <1>6, <1>7, <2>1, <2>2, <2>3, <2>4, <2>5 DEF IsToldOnce
  <2>7. IsToldOnce(q, m, Owner(q)')
    BY <1>7, <2>6 DEF IsToldOnce
  <2> QED
    BY <1>3, <1>8, <1>9, <2>1, <2>2, <2>4, <2>7
<1>10. CASE /\ o.recipient = NULL
            /\ \E w \in o.watchers :
                 /\ notices' = [notices EXCEPT ![r][w] = @ + 1]
                 /\ q = [o EXCEPT !.watchers = @ \ {w}]
  <2>1. PICK p \in o.watchers :
          /\ notices' = [notices EXCEPT ![r][p] = @ + 1]
          /\ q = [o EXCEPT !.watchers = @ \ {p}]
    BY <1>10
  <2>2. p \in Users /\ p # o.by /\ n[p] = 0
    BY <1>6, <2>1 DEF IsToldOnce, Request
  <2>3. q.recipient = NULL /\ q.watchers = o.watchers \ {p} /\ q.pc = "tell"
    BY <1>3, <1>10, <2>1 DEF Request
  <2>4. PICK m \in [Users -> Nat] :
          m = notices'[r] /\ \A v \in Users : m[v] = IF v = p THEN 1 ELSE n[v]
    BY <1>8, <2>1, <2>2
  <2>5. \A w \in q.watchers : w \in Users /\ w # NULL
    BY TicketDeskAssumption DEF Request
  <2>6. Replies(o) /\ owner \in Users => owner = o.by \/ n[owner] = 1
    BY <1>6, <1>10, TicketDeskAssumption DEF IsToldOnce
  <2>7. IsToldOnce(q, m, owner)
    BY <1>1, <1>2, <1>6, <1>7, <2>2, <2>3, <2>4, <2>5, <2>6 DEF IsToldOnce
  <2>8. IsToldOnce(q, m, Owner(q)')
    BY <1>7, <2>7 DEF IsToldOnce
  <2> QED
    BY <1>3, <1>8, <2>1, <2>2, <2>4, <2>8
<1>11. CASE /\ o.recipient = NULL /\ o.watchers = {}
            /\ q = [o EXCEPT !.pc = "answer"]
            /\ UNCHANGED notices
  <2>1. q.recipient = NULL /\ q.watchers = {} /\ q.pc = "answer"
    BY <1>11 DEF Request
  <2> QED
    BY <1>1, <1>2, <1>3, <1>4, <1>6, <1>7, <1>11, <2>1 DEF IsToldOnce
<1> QED
  BY <1>1, <1>2, <1>9, <1>10, <1>11 DEF TellOne

\* A public reply is answered only after Tell.
LEMMA RepliesAreTold ==
  ASSUME DeskIsSound, NEW r \in Requests, Handles(r), ~Begins(r), ~Tell(r),
         request'[r] \in Request, Replies(request'[r]),
         request'[r].pc \in {"answer", "done"}
  PROVE  request[r].pc \in {"answer", "done"}
<1>1. PICK o \in Request : o = request[r]
  BY DEF DeskIsSound, TicketDeskTypeOK
<1>2. /\ o.kind = "comment" /\ ~o.secret
  BY <1>1, HandlersKeepTo DEF KeepsTo, Replies
<1>3. ~Split(r)
  BY <1>1, <1>2 DEF Split
<1>4. CASE Rewrites(r)
  BY <1>1, <1>2, <1>4
     DEF Rewrites, Assign, Unassign, Escalate, AddTag, RemoveTag
<1>5. CASE Number(r)
  BY <1>5 DEF Number, Numbered, DeskIsSound, TicketDeskTypeOK, Request
<1>6. CASE Create(r) \/ AddComment(r) \/ Push(r) \/ Fail(r)
  <2>1. \/ request' = [request EXCEPT ![r].pc = "attach"]
        \/ request' = [request EXCEPT ![r].pc = "tell"]
        \/ request' = [request EXCEPT ![r].pc = "failed"]
    BY <1>6 DEF Create, AddComment, Push, Fail, Proceed
  <2> QED
    BY <2>1 DEF DeskIsSound, TicketDeskTypeOK, Request
<1>7. CASE Attach(r)
  <2>1. request' = [request EXCEPT ![r].pc = "push"]
    BY <1>1, <1>2, <1>7 DEF Attach, Proceed
  <2>2. request'[r].pc = "push"
    BY <2>1 DEF DeskIsSound, TicketDeskTypeOK, Request
  <2> QED
    BY <2>2
<1>8. CASE Answer(r)
  BY <1>8 DEF Answer
<1> QED
  BY <1>3, <1>4, <1>5, <1>7, <1>8, <1>6 DEF Handles, Begins, Rewrites

LEMMA NoticesGoOn ==
  ASSUME DeskIsSound, NoticesAreSound, [TicketDeskNext]_ticketDeskVars
  PROVE  NoticesAreSound'
<1>1. \A t \in Requests : request[t] \in Request /\ request'[t] \in Request
  BY DeskGoesOn DEF DeskIsSound, TicketDeskTypeOK
<1>2. ASSUME NEW t \in Requests, request'[t] = request[t],
             notices'[t] = notices[t]
      PROVE  IsToldOnce(request[t], notices[t], Owner(request[t]))'
  <2>1. PICK q \in Request : q = request'[t]
    BY <1>1
  <2>2. IsToldOnce(q, notices'[t], Owner(q)')
    BY <1>2, <2>1, StillToldOnce
  <2> QED
    BY <2>1, <2>2 DEF IsToldOnce, Owner
<1>3. CASE UNCHANGED ticketDeskVars \/ Join \/ Leave
  BY <1>2, <1>3 DEF ticketDeskVars, Join, Leave, NoticesAreSound
<1>4. ASSUME NEW r \in Requests, Handles(r)
      PROVE  NoticesAreSound'
  <2>1. \A t \in Requests \ {r} : request'[t] = request[t]
    BY <1>4, OthersWait
  <2>2. CASE Begins(r)
    <3>1. notices' = notices
      BY <2>2 DEF Begins, StartCreate, StartComment, StartStaffed, StartSplit,
                  StartWatch
    <3> QED
      BY <1>2, <2>1, <2>2, <3>1, BeginningTellsNobody DEF NoticesAreSound
  <2>3. CASE Tell(r)
    BY <1>2, <2>1, <2>3, TellingTellsOnce DEF NoticesAreSound
  <2>4. ASSUME ~Begins(r), ~Tell(r)
        PROVE  NoticesAreSound'
    <3>1. PICK q \in Request : q = request'[r]
      BY <1>1
    <3>2. /\ notices' = notices /\ q.recipient = request[r].recipient
          /\ q.watchers = request[r].watchers
      BY <1>4, <2>4, <3>1, AddresseesStay
    <3>3. KeepsTo(request[r], q)
      BY <1>4, <2>4, <3>1, HandlersKeepTo
    <3>4. Replies(q) => Replies(request[r])
      BY <1>4, <2>4, <3>3, OthersWait DEF Replies, KeepsTo, UnderWay
    <3>5. Replies(q) /\ q.pc \in {"answer", "done"} =>
            request[r].pc \in {"answer", "done"}
      BY <1>1, <1>4, <2>4, <3>1, RepliesAreTold
    <3>6. IsToldOnce(q, notices'[r], Owner(q)')
      BY <3>1, <3>2, <3>3, <3>4, <3>5, StillToldOnce DEF KeepsTo, Replies
    <3>7. IsToldOnce(request[r], notices[r], Owner(request[r]))'
      BY <3>1, <3>6 DEF IsToldOnce, Owner
    <3> QED
      BY <1>2, <2>1, <3>2, <3>7 DEF NoticesAreSound
  <2> QED
    BY <2>2, <2>3, <2>4
<1> QED
  BY <1>3, <1>4, StepIsAHandlers

LEMMA NoticesStart == TicketDeskInit => NoticesAreSound
<1> SUFFICES ASSUME TicketDeskInit, NEW r \in Requests
             PROVE  IsToldOnce(request[r], notices[r], Owner(request[r]))
  BY DEF NoticesAreSound
<1>1. request[r] = Idle /\ notices[r] = [u \in Users |-> 0]
  BY DEF TicketDeskInit
<1>2. /\ Idle.pc = "idle" /\ Idle.kind = "view" /\ Idle.recipient = NULL
      /\ Idle.watchers = {}
  BY DEF Idle
<1> QED
  BY <1>1, <1>2 DEF IsToldOnce, Replies

LEMMA SoundNoticesAreToldOnce ==
  ASSUME DeskIsSound, NoticesAreSound
  PROVE  ToldOnce
<1> SUFFICES ASSUME NEW r \in Requests
             PROVE  /\ \A u \in Users :
                         notices[r][u] <= IF u = request[r].by THEN 0 ELSE 1
                    /\ Replies(request[r]) /\ request[r].pc = "done" =>
                         LET u == Owner(request[r]) IN
                         notices[r][u] = IF u = request[r].by THEN 0 ELSE 1
  BY DEF ToldOnce, Replies, Owner
<1>1. IsToldOnce(request[r], notices[r], Owner(request[r]))
  BY DEF NoticesAreSound
<1>2. Replies(request[r]) => Owner(request[r]) \in Users
  BY DEF Replies, Owner, DeskIsSound, RequestIsSound, Unborn, Existing,
         TicketDeskTypeOK, Ticket
<1>3. \A u \in Users : notices[r][u] \in Nat
  BY DEF DeskIsSound, TicketDeskTypeOK
<1> QED
  BY <1>1, <1>2, <1>3, TicketDeskAssumption DEF IsToldOnce

\* Nobody hears twice of one request, nobody of the own, and whoever a staff
\* member's public reply was written to has been told when it is answered.
THEOREM NoticesToldOnce == TicketDeskSpec => []ToldOnce
  BY NoticesStart, NoticesGoOn, SoundNoticesAreToldOnce, Invariance, PTL
     DEF TicketDeskSpec

=============================================================================
